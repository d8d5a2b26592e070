-------------------------- MODULE AuditIngest_proofs -------------------------
(***************************************************************************)
(* What holds of the ingestion of audit blobs for any blobs, grants,       *)
(* events, uploads, sizes and fault plans.  A blob that was overlapped is  *)
(* left out of every part of IngestInv but the types: two descriptors of   *)
(* one temporary file take all else away.                                  *)
(***************************************************************************)
EXTENDS AuditIngest, TLAPS

Sound(k) == k \in Blobs \ overlapped

(* A descriptor with a name writes to a file that is there: its own        *)
(* temporary one or, when it was overlapped, the blob this was renamed to. *)
Named ==
    \A u \in Uploads : upload[u].name \notin {Gone, Unopened} =>
        /\ upload[u].grant \in Grants
        /\ file[upload[u].name] # NoFile
        /\ \/ upload[u].name = upload[u].grant
           \/ upload[u].name = KeyOf[upload[u].grant] /\ upload[u].name \in overlapped

Alone ==
    \A u, v \in Uploads :
        upload[u].grant \in Grants /\ upload[v].grant = upload[u].grant =>
            u = v \/ KeyOf[upload[u].grant] \in overlapped

(* The temporary file holds what its only upload received, or is gone.     *)
Received ==
    \A u \in Uploads : upload[u].grant \in Grants /\ Sound(KeyOf[upload[u].grant]) =>
        /\ upload[u].name = Gone => file[upload[u].grant] = NoFile
        /\ upload[u].name = Unopened => upload[u].received = 0
        /\ upload[u].name = upload[u].grant /\ upload[u].right =>
               \A c \in 1..upload[u].received : file[upload[u].grant][c] = "right"

(* Nothing replaces a blob that is old.                                    *)
OldIsQuiet ==
    \A k \in Blobs : Sound(k) /\ k \in old =>
        \A u \in Uploads : upload[u].grant \in Grants => KeyOf[upload[u].grant] # k

TargetIsOld == Sound(target) => target \in old

(* An event is committed while its blobs are what the hub found.           *)
FoundIsThere ==
    appending # NoEvent =>
        \A k \in Attached[appending] : Sound(k) =>
            <<appending, k>> \in overdue \/ (FullLength(file[k]) /\ k \notin old)

OrphanIsOrphan ==
    collector = "orphan" =>
        \A e \in committed : target \in Attached[e] /\ Sound(target) => <<e, target>> \in overdue

IngestInv ==
    /\ IngestTypeOK
    /\ Named /\ Alone /\ Received
    /\ OldIsQuiet /\ TargetIsOld /\ FoundIsThere /\ OrphanIsOrphan
    /\ BlobIsWhole /\ CommittedHasBlobs


(* The names of things differ. *)
LEMMA Distinct ==
    /\ \A g \in Grants : /\ g \in Names /\ g \notin Blobs /\ g \notin {Gone, Unopened} /\ g # NoGrant
                         /\ KeyOf[g] \in Blobs /\ KeyOf[g] \in Names /\ KeyOf[g] # g
                         /\ KeyOf[g] \notin {Gone, Unopened}
    /\ \A k \in Blobs : k \in Names /\ k \notin Grants /\ k \notin {Gone, Unopened}
    /\ \A n \in Names : n \notin {Gone, Unopened}
    /\ Gone # Unopened
    /\ \A e \in Events : e # NoEvent /\ Attached[e] \subseteq Blobs
    /\ NoGrant \notin Grants /\ Chunks \in Nat /\ Chunks >= 1
BY KeysAssumption, NamesDiffer, ChunksAssumption DEF Names, Gone, Unopened

LEMMA IngestBegins == IngestInit => IngestInv
<1> SUFFICES ASSUME IngestInit PROVE IngestInv
  OBVIOUS
<1>1. NoUpload \in PutRequests
  BY ChunksAssumption DEF NoUpload, PutRequests
<1>2. IngestTypeOK
  BY <1>1, NamesDiffer DEF IngestInit, IngestTypeOK, Contents
<1>3. \A u \in Uploads : upload[u].name = Gone /\ upload[u].grant \notin Grants
  BY NamesDiffer DEF IngestInit, NoUpload
<1>4. Named /\ Alone /\ Received /\ OldIsQuiet
  BY <1>3 DEF IngestInit, Named, Alone, Received, OldIsQuiet
<1>5. TargetIsOld
  BY Distinct DEF IngestInit, TargetIsOld, Sound
<1>6. BlobIsWhole /\ CommittedHasBlobs /\ FoundIsThere /\ OrphanIsOrphan
  <2>1. \A k \in Blobs : file[k] = NoFile
    BY DEF IngestInit, Names
  <2> QED
    BY <2>1 DEF IngestInit, BlobIsWhole, CommittedHasBlobs, FoundIsThere, OrphanIsOrphan
<1> QED
  BY <1>2, <1>4, <1>5, <1>6 DEF IngestInv

(* What a whole blob is. *)
LEMMA WholeIsFull == \A f : Whole(f) => FullLength(f) /\ f # NoFile
BY ChunksAssumption DEF Whole, FullLength, NoFile

(* A step of the hub or of the collector that leaves the files alone. *)
LEMMA FilesStay ==
    ASSUME IngestInv, UNCHANGED <<file, old, upload, overlapped>>
    PROVE  Named' /\ Alone' /\ Received' /\ OldIsQuiet' /\ BlobIsWhole'
BY DEF IngestInv, Named, Alone, Received, OldIsQuiet, BlobIsWhole, Sound, Whole

(* A step of an upload that leaves the blobs alone. *)
LEMMA BlobsStay ==
    ASSUME IngestInv, UNCHANGED <<hubVars, collectorVars>>,
           overlapped \subseteq overlapped',
           \A k \in Blobs \ overlapped' : file'[k] = file[k] /\ (k \in old' <=> k \in old)
    PROVE  /\ BlobIsWhole' /\ CommittedHasBlobs'
           /\ TargetIsOld' /\ FoundIsThere' /\ OrphanIsOrphan'
<1>1. BlobIsWhole'
  BY DEF IngestInv, BlobIsWhole, Whole
<1>2. CommittedHasBlobs'
  BY Distinct DEF IngestInv, IngestTypeOK, CommittedHasBlobs, FullLength, hubVars
<1>3. TargetIsOld'
  BY DEF IngestInv, TargetIsOld, Sound, collectorVars
<1>4. FoundIsThere'
  BY DEF IngestInv, FoundIsThere, FullLength, Sound, hubVars
<1>5. OrphanIsOrphan'
  BY DEF IngestInv, OrphanIsOrphan, Sound, hubVars, collectorVars
<1> QED
  BY <1>1, <1>2, <1>3, <1>4, <1>5

(* Closing a request, and the descriptors of a file that is removed. *)
LEMMA Removing ==
    ASSUME IngestTypeOK, NEW ups \in [Uploads -> PutRequests], NEW n, Removes(n, ups)
    PROVE  /\ upload' \in [Uploads -> PutRequests]
           /\ \A u \in Uploads :
                 /\ upload'[u].grant = ups[u].grant
                 /\ upload'[u].right = ups[u].right
                 /\ upload'[u].received = ups[u].received
                 /\ upload'[u].name = IF ups[u].name = n THEN Gone ELSE ups[u].name
<1>1. upload' = [u \in Uploads |-> IF ups[u].name \in {n} THEN [ups[u] EXCEPT !.name = Gone] ELSE ups[u]]
  BY DEF Removes, Follow
<1>2. \A u \in Uploads : ups[u] \in PutRequests
  OBVIOUS
<1> QED
  BY <1>1, <1>2 DEF PutRequests

LEMMA Closing ==
    ASSUME IngestTypeOK, NEW u \in Uploads
    PROVE  /\ Closed(u) \in [Uploads -> PutRequests]
           /\ \A v \in Uploads : Closed(u)[v] = IF v = u THEN NoUpload ELSE upload[v]
<1>1. NoUpload \in PutRequests
  BY ChunksAssumption DEF NoUpload, PutRequests
<1> QED
  BY <1>1 DEF Closed, IngestTypeOK

LEMMA PutBeginsHolds ==
    ASSUME IngestInv, NEW u \in Uploads, NEW g \in Grants, PutBegins(u, g)
    PROVE  IngestInv'
<1> USE Distinct
<1> DEFINE k == KeyOf[g]
<1> DEFINE new == [grant |-> g, name |-> Unopened, received |-> 0, right |-> TRUE]
<1>1. /\ new \in PutRequests /\ upload' = [upload EXCEPT ![u] = new]
      /\ upload' \in [Uploads -> PutRequests]
      /\ \A v \in Uploads : upload'[v] = IF v = u THEN new ELSE upload[v]
  BY DEF PutBegins, PutRequests, IngestInv, IngestTypeOK
<1>2. file' = file /\ old' = old
  BY DEF PutBegins, fileVars
<1>3. /\ overlapped \subseteq overlapped' /\ overlapped' \subseteq Blobs
      /\ k \in overlapped' \/ \A v \in Uploads : upload[v].grant # g
  BY DEF PutBegins, Reading, IngestInv, IngestTypeOK
<1>4. ~FullLength(file[k])
  BY DEF PutBegins
<1>5. IngestTypeOK'
  BY <1>1, <1>2, <1>3 DEF PutBegins, hubVars, collectorVars, IngestInv, IngestTypeOK
<1>6. Named' /\ Alone' /\ Received'
  BY <1>1, <1>2, <1>3 DEF IngestInv, Named, Alone, Received, Sound
<1>7. OldIsQuiet'
  <2>1. k \in Blobs \ overlapped => k \notin old
    BY <1>4, WholeIsFull DEF IngestInv, BlobIsWhole, IngestTypeOK
  <2> QED
    BY <1>1, <1>2, <1>3, <2>1 DEF IngestInv, OldIsQuiet, Sound
<1>8. /\ BlobIsWhole' /\ CommittedHasBlobs'
      /\ TargetIsOld' /\ FoundIsThere' /\ OrphanIsOrphan'
  BY <1>2, <1>3, BlobsStay DEF PutBegins
<1> QED
  BY <1>5, <1>6, <1>7, <1>8 DEF IngestInv

(* A temporary file that is made, or truncated, holds nothing. *)
LEMMA Creating ==
    ASSUME IngestTypeOK, NEW g \in Grants, Creates(g)
    PROVE  /\ \A n \in Names : file'[n] = IF n = g THEN Empty ELSE file[n]
           /\ old' = old \ {g} /\ Empty # NoFile
           /\ file' \in [Names -> Contents] /\ old' \subseteq {n \in Names : file'[n] # NoFile}
<1> USE Distinct
<1>1. Empty # NoFile /\ Empty \in Contents
  <2>1. Empty[1] = "none" /\ NoFile[1] = "absent"
    BY DEF Empty, NoFile
  <2> QED
    BY <2>1 DEF Empty, Contents
<1> QED
  BY <1>1 DEF Creates, Temp, IngestTypeOK

LEMMA PutOpensHolds ==
    ASSUME IngestInv, NEW u \in Uploads, PutOpens(u)
    PROVE  IngestInv'
<1> USE Distinct
<1> DEFINE g == upload[u].grant
<1> DEFINE new == [upload[u] EXCEPT !.name = g]
<1>1. /\ g \in Grants /\ upload[u].name = Unopened /\ Creates(g)
      /\ upload' = [upload EXCEPT ![u] = new] /\ overlapped' = overlapped
      /\ UNCHANGED <<faults, hubVars, collectorVars>>
  BY DEF PutOpens, Open, Temp, PutRequests, IngestInv, IngestTypeOK
<1>2. /\ new \in PutRequests /\ new.grant = g /\ new.name = g
      /\ new.received = upload[u].received /\ new.right = upload[u].right
  BY <1>1 DEF PutRequests, IngestInv, IngestTypeOK
<1> HIDE DEF new
<1>3. /\ upload' \in [Uploads -> PutRequests]
      /\ \A v \in Uploads : upload'[v] = IF v = u THEN new ELSE upload[v]
  BY <1>1, <1>2 DEF IngestInv, IngestTypeOK
<1>4. /\ \A n \in Names : file'[n] = IF n = g THEN Empty ELSE file[n]
      /\ old' = old \ {g} /\ Empty # NoFile
      /\ file' \in [Names -> Contents] /\ old' \subseteq {n \in Names : file'[n] # NoFile}
  BY <1>1, Creating DEF IngestInv
<1>5. IngestTypeOK'
  BY <1>1, <1>3, <1>4 DEF hubVars, collectorVars, IngestInv, IngestTypeOK
<1>6. Named'
  BY <1>1, <1>2, <1>3, <1>4 DEF IngestInv, IngestTypeOK, PutRequests, Named
<1>7. Alone' /\ OldIsQuiet'
  BY <1>1, <1>2, <1>3, <1>4 DEF IngestInv, Alone, OldIsQuiet, Sound
<1>8. Received'
  <2> SUFFICES ASSUME NEW v \in Uploads, upload[v].grant \in Grants, Sound(KeyOf[upload[v].grant])
               PROVE  /\ upload'[v].name = Gone => file'[upload[v].grant] = NoFile
                      /\ upload'[v].name = Unopened => upload'[v].received = 0
                      /\ upload'[v].name = upload[v].grant /\ upload'[v].right =>
                            \A c \in 1..upload'[v].received : file'[upload[v].grant][c] = "right"
    BY <1>1, <1>2, <1>3 DEF Received, Sound
  <2>1. CASE v = u
    <3>1. upload[u].received = 0
      BY <1>1, <2>1 DEF IngestInv, Received
    <3> QED
      BY <1>1, <1>2, <1>3, <2>1, <3>1
  <2>2. CASE v # u
    <3>1. upload[v].grant # g
      BY <2>2 DEF IngestInv, Alone, Sound
    <3>2. file'[upload[v].grant] = file[upload[v].grant] /\ upload'[v] = upload[v]
      BY <1>3, <1>4, <2>2, <3>1
    <3> QED
      BY <3>2 DEF IngestInv, Received
  <2> QED
    BY <2>1, <2>2
<1>9. /\ BlobIsWhole' /\ CommittedHasBlobs'
      /\ TargetIsOld' /\ FoundIsThere' /\ OrphanIsOrphan'
  BY <1>1, <1>4, BlobsStay
<1> QED
  BY <1>5, <1>6, <1>7, <1>8, <1>9 DEF IngestInv

(* A chunk that is received. *)
LEMMA Recording ==
    \A x \in PutRequests, c \in 0..Chunks, b \in BOOLEAN :
        [x EXCEPT !.received = c, !.right = b] \in PutRequests
BY DEF PutRequests

LEMMA PutChunkHolds ==
    ASSUME IngestInv, NEW u \in Uploads, NEW right \in BOOLEAN, PutChunk(u, right)
    PROVE  IngestInv'
<1> USE Distinct
<1> DEFINE c == upload[u].received + 1
<1> DEFINE n == upload[u].name
<1> DEFINE g == upload[u].grant
<1>1. /\ upload' = [upload EXCEPT ![u].received = c, ![u].right = @ /\ right]
      /\ g \in Grants /\ c \in 1..Chunks /\ upload[u] \in PutRequests
      /\ n \in Names \union {Gone} /\ n # Unopened /\ c - 1 = upload[u].received
  <2>1. upload[u] \in PutRequests
    BY DEF IngestInv, IngestTypeOK
  <2>2. /\ upload[u].grant \in Grants \union {NoGrant}
        /\ upload[u].name \in Names \union {Gone, Unopened} /\ upload[u].received \in 0..Chunks
    BY <2>1 DEF PutRequests
  <2>3. upload' = [upload EXCEPT ![u].received = c, ![u].right = @ /\ right]
    BY DEF PutChunk
  <2>4. g \in Grants /\ n # Unopened /\ upload[u].received < Chunks
    BY <2>2 DEF PutChunk, Open
  <2>5. c \in 1..Chunks /\ c - 1 = upload[u].received
    BY <2>2, <2>4
  <2> QED
    BY <2>1, <2>2, <2>3, <2>4, <2>5
<1>2. /\ upload' \in [Uploads -> PutRequests]
      /\ \A v \in Uploads :
            /\ upload'[v].grant = upload[v].grant /\ upload'[v].name = upload[v].name
            /\ v # u => upload'[v] = upload[v]
      /\ upload'[u].received = c /\ upload'[u].right = (upload[u].right /\ right)
  <2>1. upload' = [upload EXCEPT ![u] = [upload[u] EXCEPT !.received = c, !.right = @ /\ right]]
    BY <1>1 DEF IngestInv, IngestTypeOK
  <2> DEFINE new == [upload[u] EXCEPT !.received = c, !.right = @ /\ right]
  <2>2. /\ new.received = c /\ new.grant = g /\ new.name = n
        /\ new.right = (upload[u].right /\ right) /\ new \in PutRequests
    <3>1. upload[u].right \in BOOLEAN /\ (upload[u].right /\ right) \in BOOLEAN
      BY <1>1 DEF PutRequests
    <3>2. new.received = c /\ new.grant = g /\ new.name = n
      BY <1>1 DEF PutRequests
    <3>3. new.right = (upload[u].right /\ right)
      BY <1>1 DEF PutRequests
    <3>4. c \in 0..Chunks
      BY <1>1
    <3>5. new \in PutRequests
      BY <1>1, <3>1, <3>4, Recording, Zenon
    <3> QED
      BY <3>2, <3>3, <3>5
  <2> HIDE DEF new
  <2>3. \A v \in Uploads : upload'[v] = IF v = u THEN new ELSE upload[v]
    BY <2>1 DEF new, IngestInv, IngestTypeOK
  <2>4. upload' \in [Uploads -> PutRequests]
    BY <2>1, <2>2 DEF new, IngestInv, IngestTypeOK
  <2> QED
    BY <2>2, <2>3, <2>4
<1>3. CASE n = Gone
  <2>1. UNCHANGED fileVars
    BY <1>3 DEF PutChunk
  <2>2. IngestTypeOK'
    BY <1>2, <2>1 DEF PutChunk, fileVars, hubVars, collectorVars, IngestInv, IngestTypeOK
  <2>3. Named' /\ Alone' /\ OldIsQuiet'
    BY <1>2, <2>1 DEF PutChunk, fileVars, Sound, IngestInv, Named, Alone, OldIsQuiet
  <2>4. Received'
    BY <1>2, <1>3, <2>1 DEF PutChunk, fileVars, Sound, IngestInv, Received
  <2>5. /\ BlobIsWhole' /\ CommittedHasBlobs'
        /\ TargetIsOld' /\ FoundIsThere' /\ OrphanIsOrphan'
    BY <2>1, BlobsStay DEF PutChunk, fileVars
  <2> QED
    BY <2>2, <2>3, <2>4, <2>5 DEF IngestInv
<1>4. CASE n # Gone
  <2> DEFINE chunk == IF right THEN "right" ELSE "wrong"
  <2>1. /\ file' = [file EXCEPT ![n][c] = chunk] /\ old' = old \ {n} /\ n \in Names
        /\ n # g => n \in overlapped /\ n = KeyOf[g]
        /\ file[n] # NoFile
    <3>1. file' = [file EXCEPT ![n][c] = chunk] /\ old' = old \ {n}
      BY <1>4 DEF PutChunk
    <3> QED
      BY <1>1, <1>4, <3>1 DEF IngestInv, Named
  <2>2. file[n] \in [1..Chunks -> {"none", "right", "wrong"}]
    BY <2>1 DEF IngestInv, IngestTypeOK, Contents
  <2>3. /\ file'[n] = [file[n] EXCEPT ![c] = chunk]
        /\ \A m \in Names : m # n => file'[m] = file[m]
    BY <2>1 DEF IngestInv, IngestTypeOK
  <2>4. file'[n] \in Contents /\ file'[n] # NoFile
    <3>1. file'[n][c] # "absent" /\ NoFile[c] = "absent"
      BY <1>1, <2>2, <2>3 DEF NoFile
    <3> QED
      BY <2>2, <2>3, <3>1 DEF Contents
  <2>5. IngestTypeOK'
    <3>1. file' \in [Names -> Contents]
      BY <2>1, <2>3, <2>4 DEF IngestInv, IngestTypeOK
    <3> QED
      BY <1>2, <2>1, <2>3, <3>1 DEF PutChunk, hubVars, collectorVars, IngestInv, IngestTypeOK
  <2>6. Named'
    BY <1>2, <2>1, <2>3, <2>4 DEF PutChunk, IngestInv, IngestTypeOK, PutRequests, Named
  <2>7. Alone' /\ OldIsQuiet'
    BY <1>2, <2>1 DEF PutChunk, Sound, IngestInv, Alone, OldIsQuiet
  <2>8. Received'
    <3> SUFFICES ASSUME NEW v \in Uploads, upload[v].grant \in Grants, Sound(KeyOf[upload[v].grant])
                 PROVE  /\ upload[v].name = Gone => file'[upload[v].grant] = NoFile
                        /\ upload[v].name = Unopened => upload'[v].received = 0
                        /\ upload[v].name = upload[v].grant /\ upload'[v].right =>
                              \A d \in 1..upload'[v].received : file'[upload[v].grant][d] = "right"
      BY <1>2 DEF Received, Sound, PutChunk
    <3>1. CASE v = u
      <4>1. n = g
        BY <2>1, <3>1 DEF Sound
      <4>2. upload'[u].right => \A d \in 1..c : file'[g][d] = "right"
        <5> SUFFICES ASSUME upload[u].right, right, NEW d \in 1..c PROVE file'[g][d] = "right"
          BY <1>2
        <5>1. CASE d = c
          BY <1>1, <2>2, <2>3, <4>1, <5>1
        <5>2. CASE d # c
          <6>1. d \in 1..upload[u].received /\ d \in 1..Chunks
            BY <1>1, <5>2 DEF PutRequests
          <6>2. file[g][d] = "right"
            BY <1>4, <3>1, <4>1, <6>1 DEF IngestInv, Received
          <6> QED
            BY <2>2, <2>3, <4>1, <5>2, <6>1, <6>2
        <5> QED
          BY <5>1, <5>2
      <4> QED
        BY <1>1, <1>2, <1>4, <3>1, <4>2
    <3>2. CASE v # u
      <4>1. upload[v].grant # g
        BY <3>2 DEF IngestInv, Alone, Sound
      <4>2. file'[upload[v].grant] = file[upload[v].grant]
        BY <1>1, <2>1, <2>3, <4>1
      <4> QED
        BY <1>2, <3>2, <4>2 DEF IngestInv, Received
    <3> QED
      BY <3>1, <3>2
  <2>9. /\ BlobIsWhole' /\ CommittedHasBlobs'
        /\ TargetIsOld' /\ FoundIsThere' /\ OrphanIsOrphan'
    <3>1. \A k \in Blobs \ overlapped' : file'[k] = file[k] /\ (k \in old' <=> k \in old)
      BY <1>1, <2>1, <2>3 DEF PutChunk
    <3> QED
      BY <3>1, BlobsStay DEF PutChunk
  <2> QED
    BY <2>5, <2>6, <2>7, <2>8, <2>9 DEF IngestInv
<1> QED
  BY <1>3, <1>4
(* A file is removed, and some requests were closed. *)
LEMMA RemovalHolds ==
    ASSUME IngestInv, NEW n \in Names, NEW ups \in [Uploads -> PutRequests],
           \A v \in Uploads : ups[v] = NoUpload \/ ups[v] = upload[v],
           Removes(n, ups), overlapped' = overlapped
    PROVE  /\ file' \in [Names -> Contents]
           /\ old' \subseteq {m \in Names : file'[m] # NoFile}
           /\ upload' \in [Uploads -> PutRequests]
           /\ Named' /\ Alone' /\ Received' /\ OldIsQuiet'
<1> USE Distinct
<1>1. /\ upload' \in [Uploads -> PutRequests]
      /\ \A v \in Uploads :
            /\ upload'[v].grant = ups[v].grant
            /\ upload'[v].right = ups[v].right
            /\ upload'[v].received = ups[v].received
            /\ upload'[v].name = IF ups[v].name = n THEN Gone ELSE ups[v].name
  BY Removing DEF IngestInv
<1>2. /\ file' = [file EXCEPT ![n] = NoFile] /\ old' = old \ {n}
      /\ file'[n] = NoFile /\ \A m \in Names : m # n => file'[m] = file[m]
  BY DEF Removes, IngestInv, IngestTypeOK
<1>3. file' \in [Names -> Contents] /\ old' \subseteq {m \in Names : file'[m] # NoFile}
  BY <1>2 DEF IngestInv, IngestTypeOK, Contents
<1>4. NoUpload.grant \notin Grants /\ NoUpload.name = Gone
  BY DEF NoUpload
<1>5. \A v \in Uploads : upload'[v].grant \in Grants => ups[v] = upload[v] /\ upload'[v].grant = upload[v].grant
  BY <1>1, <1>4
<1>6. Named'
  <2> SUFFICES ASSUME NEW v \in Uploads, upload'[v].name \notin {Gone, Unopened}
               PROVE  /\ upload'[v].grant \in Grants /\ file'[upload'[v].name] # NoFile
                      /\ \/ upload'[v].name = upload'[v].grant
                         \/ upload'[v].name = KeyOf[upload'[v].grant] /\ upload'[v].name \in overlapped
    BY DEF Named
  <2>1. /\ ups[v] = upload[v] /\ upload'[v].grant = upload[v].grant
        /\ upload'[v].name = upload[v].name /\ upload[v].name # n
    BY <1>1, <1>4
  <2>2. upload[v].name \in Names
    BY <2>1 DEF IngestInv, IngestTypeOK, PutRequests
  <2> QED
    BY <1>2, <2>1, <2>2 DEF IngestInv, Named
<1>7. Alone' /\ OldIsQuiet'
  BY <1>2, <1>5 DEF IngestInv, Alone, OldIsQuiet, Sound
<1>8. Received'
  <2> SUFFICES ASSUME NEW v \in Uploads, upload'[v].grant \in Grants, Sound(KeyOf[upload[v].grant])
               PROVE  /\ upload'[v].name = Gone => file'[upload'[v].grant] = NoFile
                      /\ upload'[v].name = Unopened => upload'[v].received = 0
                      /\ upload'[v].name = upload'[v].grant /\ upload'[v].right =>
                            \A c \in 1..upload'[v].received : file'[upload'[v].grant][c] = "right"
    BY <1>5 DEF Received, Sound
  <2>1. /\ upload'[v].grant = upload[v].grant /\ upload[v].grant \in Grants
        /\ upload'[v].right = upload[v].right /\ upload'[v].received = upload[v].received
        /\ upload'[v].name = IF upload[v].name = n THEN Gone ELSE upload[v].name
    BY <1>1, <1>5
  <2>2. upload[v].name \in {Gone, Unopened, upload[v].grant}
    BY DEF IngestInv, Named, Sound
  <2>3. CASE upload[v].grant = n
    BY <1>2, <2>1, <2>2, <2>3 DEF IngestInv, Received
  <2>4. CASE upload[v].grant # n
    BY <1>2, <2>1, <2>2, <2>4 DEF IngestInv, Received
  <2> QED
    BY <2>3, <2>4
<1> QED
  BY <1>1, <1>3, <1>6, <1>7, <1>8

LEMMA PutRefusedHolds ==
    ASSUME IngestInv, NEW u \in Uploads, PutRefused(u)
    PROVE  IngestInv'
<1> USE Distinct
<1> DEFINE g == upload[u].grant
<1>1. /\ g \in Grants /\ g \in Names /\ overlapped' = overlapped
      /\ UNCHANGED <<faults, hubVars, collectorVars>>
      /\ \/ Removes(g, Closed(u))
         \/ upload[u].name = Unopened /\ Creates(g) /\ upload' = Closed(u)
  BY DEF PutRefused, Open, Temp, PutRequests, IngestInv, IngestTypeOK
<1>2. /\ Closed(u) \in [Uploads -> PutRequests]
      /\ \A v \in Uploads : Closed(u)[v] = IF v = u THEN NoUpload ELSE upload[v]
  BY Closing DEF IngestInv
<1>3. NoUpload.grant \notin Grants /\ NoUpload.name = Gone
  BY DEF NoUpload
<1>4. /\ file' \in [Names -> Contents]
      /\ old' \subseteq {m \in Names : file'[m] # NoFile}
      /\ upload' \in [Uploads -> PutRequests]
      /\ Named' /\ Alone' /\ Received' /\ OldIsQuiet'
  <2>1. CASE Removes(g, Closed(u))
    <3> HIDE DEF g
    <3> QED
      BY <1>1, <1>2, <2>1, RemovalHolds
  <2>2. CASE upload[u].name = Unopened /\ Creates(g) /\ upload' = Closed(u)
    <3>1. /\ \A n \in Names : file'[n] = IF n = g THEN Empty ELSE file[n]
          /\ old' = old \ {g} /\ Empty # NoFile
          /\ file' \in [Names -> Contents] /\ old' \subseteq {n \in Names : file'[n] # NoFile}
      BY <1>1, <2>2, Creating DEF IngestInv
    <3>2. /\ upload' \in [Uploads -> PutRequests]
          /\ \A v \in Uploads : upload'[v] = IF v = u THEN NoUpload ELSE upload[v]
      BY <1>2, <2>2
    <3>3. Named'
      BY <1>1, <1>3, <3>1, <3>2 DEF IngestInv, IngestTypeOK, PutRequests, Named
    <3>4. Alone' /\ OldIsQuiet'
      BY <1>1, <1>3, <3>1, <3>2 DEF IngestInv, Alone, OldIsQuiet, Sound
    <3>5. Received'
      <4> SUFFICES ASSUME NEW v \in Uploads, upload'[v].grant \in Grants,
                          Sound(KeyOf[upload'[v].grant])
                   PROVE  /\ v # u /\ upload'[v] = upload[v]
                          /\ file'[upload[v].grant] = file[upload[v].grant]
        BY <1>1 DEF IngestInv, Received, Sound
      <4>1. v # u /\ upload'[v] = upload[v]
        BY <1>3, <3>2
      <4>2. upload[v].grant # g
        BY <1>1, <4>1 DEF IngestInv, Alone, Sound
      <4> QED
        BY <3>1, <4>1, <4>2
    <3> QED
      BY <3>1, <3>2, <3>3, <3>4, <3>5
  <2> QED
    BY <1>1, <2>1, <2>2
<1>5. IngestTypeOK'
  BY <1>1, <1>4 DEF hubVars, collectorVars, IngestInv, IngestTypeOK
<1>6. \A k \in Blobs \ overlapped' : file'[k] = file[k] /\ (k \in old' <=> k \in old)
  BY <1>1 DEF Removes, Creates, Temp, IngestInv, IngestTypeOK
<1>7. /\ BlobIsWhole' /\ CommittedHasBlobs'
      /\ TargetIsOld' /\ FoundIsThere' /\ OrphanIsOrphan'
  BY <1>1, <1>6, BlobsStay
<1> QED
  BY <1>4, <1>5, <1>7 DEF IngestInv

LEMMA UploadsDieHolds == ASSUME IngestInv, UploadsDie PROVE IngestInv'
<1>1. NoUpload \in PutRequests /\ NoUpload.name = Gone /\ NoUpload.grant \notin Grants
  BY Distinct, ChunksAssumption DEF NoUpload, PutRequests
<1>2. \A u \in Uploads : upload'[u].name = Gone /\ upload'[u].grant \notin Grants
  BY <1>1 DEF UploadsDie
<1>3. IngestTypeOK'
  BY <1>1 DEF UploadsDie, hubVars, fileVars, collectorVars, IngestInv, IngestTypeOK
<1>4. Named' /\ Alone' /\ Received' /\ OldIsQuiet'
  BY <1>2 DEF Named, Alone, Received, OldIsQuiet
<1>5. /\ BlobIsWhole' /\ CommittedHasBlobs'
      /\ TargetIsOld' /\ FoundIsThere' /\ OrphanIsOrphan'
  BY BlobsStay DEF UploadsDie, fileVars
<1> QED
  BY <1>3, <1>4, <1>5 DEF IngestInv

LEMMA GrowsOldHolds ==
    ASSUME IngestInv, NEW n \in Names, GrowsOld(n)
    PROVE  IngestInv'
<1>1. /\ UNCHANGED <<faults, live, appending, committed, overdue, upload, overlapped, file, collector, target>>
      /\ old' = old \union {n} /\ file[n] # NoFile /\ appending = NoEvent /\ collector = "off"
  BY DEF GrowsOld, hubVars, httpVars, collectorVars
<1>2. IngestTypeOK'
  BY <1>1 DEF IngestInv, IngestTypeOK
<1>3. OldIsQuiet'
  <2>1. n \in Blobs => \A u \in Uploads : upload[u].grant \in Grants => KeyOf[upload[u].grant] # n
    BY Distinct DEF GrowsOld, InFlight, Open
  <2> QED
    BY <1>1, <2>1 DEF IngestInv, OldIsQuiet, Sound
<1>4. Named' /\ Alone' /\ Received' /\ TargetIsOld' /\ OrphanIsOrphan' /\ FoundIsThere'
  BY <1>1 DEF IngestInv, Named, Alone, Received, TargetIsOld, OrphanIsOrphan, FoundIsThere, Sound
<1>5. BlobIsWhole' /\ CommittedHasBlobs'
  BY <1>1 DEF IngestInv, BlobIsWhole, CommittedHasBlobs, Whole, FullLength
<1> QED
  BY <1>2, <1>3, <1>4, <1>5 DEF IngestInv
(* A rename: the temporary file takes the place of the blob. *)
LEMMA RenameHolds ==
    ASSUME IngestInv, NEW u \in Uploads, PutRenames(u), file[Temp(upload[u].grant)] # NoFile
    PROVE  IngestInv'
<1> USE Distinct
<1> DEFINE t == upload[u].grant
<1> DEFINE k == KeyOf[t]
<1> DEFINE names == [n \in {t, k} |-> IF n = t THEN k ELSE Gone]
<1>1. /\ t \in Grants /\ t \in Names /\ k \in Blobs /\ k \in Names /\ k # t
      /\ upload[u].received = Chunks /\ upload[u].right
  BY DEF PutRenames, Open, PutRequests, IngestInv, IngestTypeOK
<1>2. /\ file' = [file EXCEPT ![k] = file[t], ![t] = NoFile] /\ old' = old \ {t, k}
      /\ upload' = Follow(Closed(u), names)
      /\ overlapped' = overlapped /\ UNCHANGED <<faults, hubVars, collectorVars>>
  BY DEF PutRenames, Temp
<1>3. /\ Closed(u) \in [Uploads -> PutRequests]
      /\ \A v \in Uploads : Closed(u)[v] = IF v = u THEN NoUpload ELSE upload[v]
  BY Closing DEF IngestInv
<1>4. /\ upload' \in [Uploads -> PutRequests]
      /\ \A v \in Uploads :
            /\ upload'[v].grant = Closed(u)[v].grant
            /\ upload'[v].right = Closed(u)[v].right
            /\ upload'[v].received = Closed(u)[v].received
            /\ upload'[v].name = IF Closed(u)[v].name = t THEN k
                                 ELSE IF Closed(u)[v].name = k THEN Gone ELSE Closed(u)[v].name
  <2> DEFINE ups == Closed(u)
  <2>1. upload' = [v \in Uploads |->
            IF ups[v].name \in {t, k} THEN [ups[v] EXCEPT !.name = names[ups[v].name]] ELSE ups[v]]
    BY <1>2 DEF Follow
  <2>2. \A m \in {t, k} : names[m] = (IF m = t THEN k ELSE Gone) /\ names[m] \in Names \union {Gone}
    BY <1>1
  <2>4. \A v \in Uploads : ups[v] \in PutRequests
    BY <1>3
  <2> HIDE DEF ups, names, t, k
  <2>5. \A v \in Uploads : /\ ups[v].name \in {t, k} => upload'[v] = [ups[v] EXCEPT !.name = names[ups[v].name]]
                           /\ ups[v].name \notin {t, k} => upload'[v] = ups[v]
    BY <2>1
  <2>6. ASSUME NEW v \in Uploads
        PROVE  /\ upload'[v] \in PutRequests
               /\ upload'[v].grant = ups[v].grant
               /\ upload'[v].right = ups[v].right
               /\ upload'[v].received = ups[v].received
               /\ upload'[v].name = IF ups[v].name = t THEN k
                                    ELSE IF ups[v].name = k THEN Gone ELSE ups[v].name
    <3> DEFINE m == names[ups[v].name]
    <3>1. CASE ups[v].name \in {t, k}
      <4>1. m = (IF ups[v].name = t THEN k ELSE Gone) /\ m \in Names \union {Gone}
        BY <2>2, <3>1, Zenon
      <4>2. upload'[v] = [ups[v] EXCEPT !.name = m]
        BY <2>5, <3>1
      <4> HIDE DEF m
      <4>3. /\ upload'[v] \in PutRequests /\ upload'[v].name = m
            /\ upload'[v].grant = ups[v].grant
            /\ upload'[v].right = ups[v].right
            /\ upload'[v].received = ups[v].received
        BY <2>4, <4>1, <4>2 DEF PutRequests
      <4> QED
        BY <3>1, <4>1, <4>3
    <3>2. CASE ups[v].name \notin {t, k}
      BY <2>4, <2>5, <3>2
    <3> QED
      BY <3>1, <3>2
  <2>7. upload' \in [Uploads -> PutRequests]
    <3> DEFINE followed(v) == IF ups[v].name \in {t, k} THEN [ups[v] EXCEPT !.name = names[ups[v].name]] ELSE ups[v]
    <3>1. upload' = [v \in Uploads |-> followed(v)]
      BY <2>1
    <3> HIDE DEF followed
    <3> QED
      BY <2>6, <3>1
  <2> QED
    BY <2>6, <2>7 DEF ups
<1>5. \A n \in Names : file'[n] = IF n = t THEN NoFile ELSE IF n = k THEN file[t] ELSE file[n]
  BY <1>1, <1>2 DEF IngestInv, IngestTypeOK
<1>6. \A v \in Uploads : upload'[v].grant \in Grants =>
          /\ v # u /\ upload'[v].grant = upload[v].grant
          /\ upload'[v].right = upload[v].right /\ upload'[v].received = upload[v].received
          /\ upload'[v].name = IF upload[v].name = t THEN k
                               ELSE IF upload[v].name = k THEN Gone ELSE upload[v].name
  BY <1>3, <1>4 DEF NoUpload
<1>7. file[t] # NoFile /\ file[t] \in Contents
  BY <1>1 DEF Temp, IngestInv, IngestTypeOK
<1>8. k \notin overlapped => Whole(file[t])
  <2> SUFFICES ASSUME k \notin overlapped PROVE \A c \in 1..Chunks : file[t][c] = "right"
    BY DEF Whole
  <2> QED
    BY <1>1, <1>7 DEF IngestInv, Named, Received, Sound
<1>9. k \notin overlapped => k \notin old
  BY <1>1 DEF IngestInv, OldIsQuiet, Sound
<1> HIDE DEF t, k, names
<1>10. IngestTypeOK'
  <2>1. file' \in [Names -> Contents]
    BY <1>1, <1>2, <1>7 DEF IngestInv, IngestTypeOK, Contents
  <2>2. old' \subseteq {n \in Names : file'[n] # NoFile}
    BY <1>2, <1>5 DEF IngestInv, IngestTypeOK
  <2> QED
    BY <1>2, <1>4, <2>1, <2>2 DEF hubVars, collectorVars, IngestInv, IngestTypeOK
<1>11. Named'
  <2> SUFFICES ASSUME NEW v \in Uploads, upload'[v].name \notin {Gone, Unopened}
               PROVE  /\ upload'[v].grant \in Grants /\ file'[upload'[v].name] # NoFile
                      /\ \/ upload'[v].name = upload'[v].grant
                         \/ upload'[v].name = KeyOf[upload'[v].grant] /\ upload'[v].name \in overlapped
    BY <1>2 DEF Named
  <2>1. Closed(u)[v] = upload[v] /\ upload[v].name \notin {Gone, Unopened}
    BY <1>1, <1>3, <1>4 DEF NoUpload
  <2>2. /\ upload'[v].grant = upload[v].grant /\ upload[v].grant \in Grants /\ v # u
        /\ upload[v].name \in Names
    BY <1>3, <1>4, <2>1 DEF IngestInv, Named, NoUpload, IngestTypeOK, PutRequests
  <2>3. CASE upload[v].name = t
    <3>1. upload[v].grant = t
      BY <1>1, <2>1, <2>2, <2>3 DEF IngestInv, Named
    <3>2. k \in overlapped
      BY <1>1, <2>2, <3>1 DEF IngestInv, Alone, t, k
    <3> QED
      BY <1>1, <1>4, <1>5, <1>7, <2>1, <2>2, <2>3, <3>1, <3>2 DEF k
  <2>4. CASE upload[v].name # t
    <3>1. upload[v].name # k /\ upload'[v].name = upload[v].name
      BY <1>4, <2>1, <2>4
    <3>2. file'[upload[v].name] = file[upload[v].name]
      BY <1>5, <2>2, <2>4, <3>1
    <3> QED
      BY <2>1, <2>2, <3>1, <3>2 DEF IngestInv, Named
  <2> QED
    BY <2>3, <2>4
<1>12. Alone'
  BY <1>2, <1>6 DEF IngestInv, Alone
<1>13. Received'
  <2> SUFFICES ASSUME NEW v \in Uploads, upload'[v].grant \in Grants, Sound(KeyOf[upload[v].grant])
               PROVE  /\ upload'[v].name = Gone => file'[upload'[v].grant] = NoFile
                      /\ upload'[v].name = Unopened => upload'[v].received = 0
                      /\ upload'[v].name = upload'[v].grant /\ upload'[v].right =>
                            \A c \in 1..upload'[v].received : file'[upload'[v].grant][c] = "right"
    BY <1>2, <1>6 DEF Received, Sound
  <2>1. upload[v].name \in {Gone, Unopened, upload[v].grant}
    BY DEF IngestInv, Named, Sound
  <2>2. upload[v].grant \in Grants /\ upload[v].grant # t
    BY <1>1, <1>6 DEF IngestInv, Alone, Sound, t
  <2>3. file'[upload[v].grant] = file[upload[v].grant] /\ upload'[v].name = upload[v].name
    BY <1>1, <1>5, <1>6, <2>1, <2>2
  <2> QED
    BY <1>6, <2>2, <2>3 DEF IngestInv, Received
<1>14. OldIsQuiet'
  BY <1>2, <1>6 DEF IngestInv, OldIsQuiet, Sound
<1>15. TargetIsOld'
  <2>1. Sound(target) => target # k /\ target # t
    BY <1>1, <1>9 DEF IngestInv, TargetIsOld, Sound
  <2> QED
    BY <1>2, <2>1 DEF collectorVars, IngestInv, TargetIsOld, Sound
<1>16. FoundIsThere'
  <2> SUFFICES ASSUME appending # NoEvent, NEW j \in Attached[appending], Sound(j)
               PROVE  <<appending, j>> \in overdue \/ (FullLength(file'[j]) /\ j \notin old')
    BY <1>2 DEF FoundIsThere, FullLength, Sound, hubVars
  <2>1. j \in Blobs /\ j # t
    BY <1>1 DEF Sound
  <2>2. CASE j = k
    BY <1>1, <1>2, <1>5, <1>8, <2>1, <2>2, WholeIsFull DEF Sound
  <2>3. CASE j # k
    BY <1>2, <1>5, <2>1, <2>3 DEF IngestInv, FoundIsThere
  <2> QED
    BY <2>2, <2>3
<1>17. OrphanIsOrphan'
  BY <1>2 DEF IngestInv, OrphanIsOrphan, Sound, hubVars, collectorVars
<1>18. BlobIsWhole' /\ CommittedHasBlobs'
  <2>1. \A j \in Blobs \ overlapped : file'[j] = file[j] \/ Whole(file'[j])
    BY <1>1, <1>5, <1>8
  <2>2. BlobIsWhole'
    BY <1>2, <2>1 DEF IngestInv, BlobIsWhole, Whole
  <2>3. CommittedHasBlobs'
    BY <1>2, <2>1, WholeIsFull, Distinct DEF IngestInv, IngestTypeOK, CommittedHasBlobs, FullLength, hubVars
  <2> QED
    BY <2>2, <2>3
<1> QED
  BY <1>10, <1>11, <1>12, <1>13, <1>14, <1>15, <1>16, <1>17, <1>18 DEF IngestInv
(* An upload whose temporary file is gone ends without a rename.           *)
LEMMA PutRenamesHolds ==
    ASSUME IngestInv, NEW u \in Uploads, PutRenames(u)
    PROVE  IngestInv'
<1>1. CASE file[Temp(upload[u].grant)] # NoFile
  BY <1>1, RenameHolds
<1>2. CASE file[Temp(upload[u].grant)] = NoFile
  <2>1. /\ upload' = Closed(u) /\ UNCHANGED <<faults, hubVars, overlapped, fileVars, collectorVars>>
    BY <1>2 DEF PutRenames
  <2>2. /\ Closed(u) \in [Uploads -> PutRequests]
        /\ \A v \in Uploads : Closed(u)[v] = IF v = u THEN NoUpload ELSE upload[v]
    BY Closing DEF IngestInv
  <2>3. NoUpload.name = Gone /\ NoUpload.grant \notin Grants
    BY Distinct DEF NoUpload
  <2>4. IngestTypeOK'
    BY <2>1, <2>2 DEF hubVars, fileVars, collectorVars, IngestInv, IngestTypeOK
  <2>5. \A v \in Uploads : upload'[v].grant \in Grants \/ upload'[v].name # Gone => upload'[v] = upload[v]
    BY <2>1, <2>2, <2>3
  <2>6. Named' /\ Alone' /\ Received' /\ OldIsQuiet'
    BY <2>1, <2>5 DEF fileVars, Sound, IngestInv, Named, Alone, Received, OldIsQuiet
  <2>7. /\ BlobIsWhole' /\ CommittedHasBlobs'
        /\ TargetIsOld' /\ FoundIsThere' /\ OrphanIsOrphan'
    BY <2>1, BlobsStay DEF fileVars
  <2> QED
    BY <2>4, <2>6, <2>7 DEF IngestInv
<1> QED
  BY <1>1, <1>2

LEMMA CollectorHolds ==
    ASSUME IngestInv,
           \/ CollectorStarts \/ CollectorChecks \/ CollectorUnlinks \/ CollectorEnds
           \/ \E n \in Names : CollectorStats(n)
    PROVE  IngestInv'
<1> USE Distinct
<1>1. ASSUME CollectorStarts \/ CollectorEnds \/ CollectorChecks \/ \E n \in Names : CollectorStats(n)
      PROVE  IngestInv'
  <2>1. UNCHANGED <<faults, hubVars, httpVars, fileVars>>
    BY <1>1 DEF CollectorStarts, CollectorEnds, CollectorChecks, CollectorStats
  <2>2. Named' /\ Alone' /\ Received' /\ OldIsQuiet' /\ BlobIsWhole'
    BY <2>1, FilesStay DEF fileVars, httpVars
  <2>3. CommittedHasBlobs' /\ FoundIsThere'
    BY <2>1 DEF fileVars, hubVars, httpVars, IngestInv, CommittedHasBlobs, FoundIsThere, FullLength, Sound
  <2>4. IngestTypeOK' /\ TargetIsOld' /\ OrphanIsOrphan'
    <3>1. CASE CollectorStarts \/ CollectorEnds
      BY <2>1, <3>1 DEF CollectorStarts, CollectorEnds, fileVars, hubVars, httpVars,
          IngestInv, IngestTypeOK, TargetIsOld, OrphanIsOrphan, Sound
    <3>2. ASSUME NEW n \in Names, CollectorStats(n) PROVE IngestTypeOK' /\ TargetIsOld' /\ OrphanIsOrphan'
      BY <2>1, <3>2 DEF CollectorStats, fileVars, hubVars, httpVars,
          IngestInv, IngestTypeOK, TargetIsOld, OrphanIsOrphan, Sound
    <3>3. CASE CollectorChecks /\ Referenced(target)
      BY <2>1, <3>3 DEF CollectorChecks, fileVars, hubVars, httpVars,
          IngestInv, IngestTypeOK, TargetIsOld, OrphanIsOrphan, Sound
    <3>4. CASE CollectorChecks /\ ~Referenced(target)
      BY <2>1, <3>4 DEF CollectorChecks, Referenced, fileVars, hubVars, httpVars,
          IngestInv, IngestTypeOK, TargetIsOld, OrphanIsOrphan, Sound
    <3> QED
      BY <1>1, <3>1, <3>2, <3>3, <3>4
  <2> QED
    BY <2>2, <2>3, <2>4 DEF IngestInv
<1>2. CASE CollectorUnlinks
  <2>1. /\ collector = "orphan" /\ target \in Names /\ Removes(target, upload)
        /\ collector' = "next" /\ target' = Gone
        /\ UNCHANGED <<faults, hubVars, overlapped>>
    BY <1>2 DEF CollectorUnlinks, IngestInv, IngestTypeOK
  <2>2. /\ file' \in [Names -> Contents]
        /\ old' \subseteq {m \in Names : file'[m] # NoFile}
        /\ upload' \in [Uploads -> PutRequests]
        /\ Named' /\ Alone' /\ Received' /\ OldIsQuiet'
    BY <2>1, RemovalHolds DEF IngestInv, IngestTypeOK
  <2>3. /\ \A n \in Names : file'[n] = IF n = target THEN NoFile ELSE file[n]
        /\ old' = old \ {target}
    BY <2>1 DEF Removes, IngestInv, IngestTypeOK
  <2>4. IngestTypeOK'
    BY <2>1, <2>2 DEF hubVars, IngestInv, IngestTypeOK
  <2>5. TargetIsOld' /\ OrphanIsOrphan'
    BY <2>1 DEF TargetIsOld, OrphanIsOrphan, Sound
  <2>6. BlobIsWhole'
    BY <2>1, <2>3 DEF IngestInv, BlobIsWhole, Whole
  <2>7. CommittedHasBlobs'
    <3> SUFFICES ASSUME NEW e \in committed, NEW k \in Attached[e] \ overlapped, <<e, k>> \notin overdue
                 PROVE  FullLength(file'[k])
      BY <2>1 DEF CommittedHasBlobs, FullLength, hubVars
    <3>1. k \in Blobs
      BY DEF IngestInv, IngestTypeOK
    <3>2. k # target
      BY <2>1, <3>1 DEF IngestInv, OrphanIsOrphan, Sound
    <3> QED
      BY <2>3, <3>1, <3>2 DEF IngestInv, CommittedHasBlobs
  <2>8. FoundIsThere'
    <3> SUFFICES ASSUME appending # NoEvent, NEW k \in Attached[appending], Sound(k)
                 PROVE  <<appending, k>> \in overdue \/ (FullLength(file'[k]) /\ k \notin old')
      BY <2>1 DEF FoundIsThere, FullLength, Sound, hubVars
    <3>1. k \in Blobs /\ (<<appending, k>> \in overdue \/ (FullLength(file[k]) /\ k \notin old))
      BY DEF IngestInv, FoundIsThere, Sound
    <3>2. k \notin old => k # target
      BY DEF IngestInv, TargetIsOld
    <3> QED
      BY <2>3, <3>1, <3>2
  <2> QED
    BY <2>2, <2>4, <2>5, <2>6, <2>7, <2>8 DEF IngestInv
<1> QED
  BY <1>1, <1>2
LEMMA HubHolds ==
    ASSUME IngestInv,
           \/ \E g \in Grants : PrepareBlobs(g) \/ Expires(g)
           \/ \E e \in Events : AppendLooks(e)
           \/ AppendCommits \/ AppendFails
    PROVE  IngestInv'
<1>1. UNCHANGED <<faults, httpVars, fileVars, collectorVars>>
  BY DEF PrepareBlobs, Expires, AppendLooks, AppendCommits, AppendFails
<1>2. Named' /\ Alone' /\ Received' /\ OldIsQuiet' /\ BlobIsWhole'
  BY <1>1, FilesStay DEF fileVars, httpVars
<1>3. TargetIsOld'
  BY <1>1 DEF fileVars, httpVars, collectorVars, IngestInv, TargetIsOld, Sound
<1>4. ASSUME NEW g \in Grants, PrepareBlobs(g) \/ Expires(g)
      PROVE  IngestTypeOK' /\ CommittedHasBlobs' /\ FoundIsThere' /\ OrphanIsOrphan'
  BY <1>1, <1>4 DEF PrepareBlobs, Expires, fileVars, httpVars, collectorVars, IngestInv, IngestTypeOK,
      CommittedHasBlobs, FullLength, FoundIsThere, OrphanIsOrphan, Sound
<1>5. ASSUME NEW e \in Events, AppendLooks(e)
      PROVE  IngestTypeOK' /\ CommittedHasBlobs' /\ FoundIsThere' /\ OrphanIsOrphan'
  <2>1. /\ appending' = e /\ committed' = committed /\ live' = live
        /\ \A k \in Attached[e] : FullLength(file[k])
        /\ overdue' = overdue \union {<<e, k>> : k \in Attached[e] \intersect old}
    BY <1>5 DEF AppendLooks
  <2>2. IngestTypeOK'
    BY <1>1, <2>1, Distinct DEF fileVars, httpVars, collectorVars, IngestInv, IngestTypeOK
  <2>3. FoundIsThere'
    BY <1>1, <2>1 DEF fileVars, FoundIsThere, FullLength, Sound
  <2>4. CommittedHasBlobs' /\ OrphanIsOrphan'
    BY <1>1, <2>1 DEF fileVars, httpVars, collectorVars, IngestInv, CommittedHasBlobs, FullLength,
        OrphanIsOrphan, Sound
  <2> QED
    BY <2>2, <2>3, <2>4
<1>6. ASSUME AppendCommits
      PROVE  IngestTypeOK' /\ CommittedHasBlobs' /\ FoundIsThere' /\ OrphanIsOrphan'
  <2>1. /\ appending # NoEvent /\ appending' = NoEvent /\ overdue' = overdue /\ live' = live
        /\ committed' = committed \union {appending}
    BY <1>6 DEF AppendCommits
  <2>2. IngestTypeOK' /\ FoundIsThere'
    BY <1>1, <2>1 DEF fileVars, httpVars, collectorVars, IngestInv, IngestTypeOK, FoundIsThere
  <2>3. CommittedHasBlobs'
    BY <1>1, <2>1, Distinct DEF fileVars, httpVars, IngestInv, IngestTypeOK, CommittedHasBlobs, FullLength, FoundIsThere, Sound
  <2>4. OrphanIsOrphan'
    <3>1. Sound(target) /\ target \in Attached[appending] => <<appending, target>> \in overdue
      BY <2>1 DEF IngestInv, FoundIsThere, TargetIsOld
    <3>2. collector' = collector /\ target' = target /\ overlapped' = overlapped
      BY <1>1 DEF httpVars, collectorVars
    <3> QED
      BY <2>1, <3>1, <3>2 DEF IngestInv, OrphanIsOrphan, Sound
  <2> QED
    BY <2>2, <2>3, <2>4
<1>7. ASSUME AppendFails
      PROVE  IngestTypeOK' /\ CommittedHasBlobs' /\ FoundIsThere' /\ OrphanIsOrphan'
  <2>1. IngestTypeOK' /\ FoundIsThere'
    BY <1>1, <1>7 DEF AppendFails, fileVars, httpVars, collectorVars, IngestInv, IngestTypeOK, FoundIsThere
  <2>2. CommittedHasBlobs' /\ OrphanIsOrphan'
    BY <1>1, <1>7 DEF AppendFails, fileVars, httpVars, collectorVars, IngestInv, CommittedHasBlobs,
        FullLength, OrphanIsOrphan, Sound
  <2> QED
    BY <2>1, <2>2
<1>8. IngestTypeOK' /\ CommittedHasBlobs' /\ FoundIsThere' /\ OrphanIsOrphan'
  BY <1>4, <1>5, <1>6, <1>7, Zenon
<1> QED
  BY <1>2, <1>3, <1>8 DEF IngestInv

LEMMA StutterHolds == ASSUME IngestInv, UNCHANGED ingestVars PROVE IngestInv'
<1>1. UNCHANGED <<faults, live, appending, committed, overdue, upload, overlapped, file, old, collector, target>>
  BY DEF ingestVars, hubVars, httpVars, fileVars, collectorVars
<1> QED
  BY <1>1 DEF IngestInv, IngestTypeOK, Named, Alone, Received, OldIsQuiet, TargetIsOld, FoundIsThere,
      OrphanIsOrphan, BlobIsWhole, CommittedHasBlobs, Sound, Whole, FullLength

LEMMA IngestStep == IngestInv /\ [IngestNext]_ingestVars => IngestInv'
BY PutBeginsHolds, PutOpensHolds, PutChunkHolds, PutRefusedHolds, PutRenamesHolds, UploadsDieHolds,
   GrowsOldHolds, CollectorHolds, HubHolds, StutterHolds DEF IngestNext

LEMMA IngestAlways == IngestSpec => []IngestInv
BY IngestBegins, IngestStep, PTL DEF IngestSpec

(* The ingestion of blobs keeps the types of its variables. *)
THEOREM IngestTypes == IngestSpec => []IngestTypeOK
BY IngestAlways, PTL DEF IngestInv

(* A blob that was not overlapped is whole, for any size, any number of    *)
(* uploads and grants of it, and every plan of faults.                     *)
THEOREM BlobsAreWhole == IngestSpec => []BlobIsWhole
BY IngestAlways, PTL DEF IngestInv

(* A blob of a committed event is there unless it was overlapped, or was   *)
(* past its grace period when the hub found it.                            *)
THEOREM EventsHaveBlobs == IngestSpec => []CommittedHasBlobs
BY IngestAlways, PTL DEF IngestInv
=============================================================================
