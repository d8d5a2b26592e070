---------------------------- MODULE AuditIngest -----------------------------
(***************************************************************************)
(* How the attachments of an audit event get to disk and stay there.  Four *)
(* parties share the uploads directory: the hub, which issues grants and   *)
(* commits events that reference blobs; the http server, which streams     *)
(* uploads into temporary files and renames them; and the collector, which *)
(* unlinks what nothing references.  Each is a process of its own, so a    *)
(* file may change between any two system calls of another.                *)
(*                                                                         *)
(* A file is its chunks: one that was never written, though a later one    *)
(* was, is a hole.  An open descriptor follows its file when the file is   *)
(* renamed, and goes on with a file that has no name when it is removed.   *)
(***************************************************************************)
EXTENDS Integers, FiniteSets

CONSTANTS
    Blobs,         \* blob keys
    Grants,        \* nonces of upload grants; bound: those in use at a time
    KeyOf,         \* the blob key a grant is for
    Events,        \* audit events
    Attached,      \* the blobs an event references
    Uploads,       \* bound: PUT requests that are read at a time
    Chunks,        \* bound: chunks of a blob
    FaultPlans     \* bounds of a behaviour: the faults that happen in it

(* overlap: a client sends an upload again before the first has ended.     *)
(* break: an upload's connection breaks.  garble: it carries other bytes.  *)
(* die: the http server dies.  full: the audit store refuses an append, or *)
(* the hub dies before it commits.                                         *)
AllIngestFaults == {"overlap", "break", "garble", "die", "full"}

ASSUME KeysAssumption == KeyOf \in [Grants -> Blobs] /\ Attached \in [Events -> SUBSET Blobs]
ASSUME ChunksAssumption == Chunks \in Nat \ {0}
ASSUME FaultPlansAssumption == FaultPlans \subseteq SUBSET AllIngestFaults

Names == Blobs \union Grants    \* of files; a temporary one has its grant's
Gone == "gone"                  \* the name of a file that was removed
Unopened == "unopened"          \* that of one createWriteStream() has yet to open
NoGrant == "ungranted"
NoEvent == "noEvent"
ASSUME NamesDiffer ==
    /\ Blobs \intersect Grants = {} /\ Names \intersect {Gone, Unopened} = {}
    /\ NoGrant \notin Grants /\ NoEvent \notin Events

VARIABLES
    faults,        \* the one of FaultPlans that is followed
    live,          \* upload_nonces that have not expired
    file,          \* the uploads directory
    old,           \* files whose mtime is before the collector's cutoff
    upload,        \* a PUT request: its grant, the file it writes, its hash
    overlapped,    \* blobs two uploads under one grant overlapped for
    appending,     \* the event whose blobs the hub found present
    committed,     \* audit_events
    overdue,       \* events and blobs that were old when the hub found them
    collector,     \* how far it is with the file it looks at
    target         \* that file

fileVars == <<file, old>>
hubVars == <<live, appending, committed, overdue>>
httpVars == <<upload, overlapped>>
collectorVars == <<collector, target>>
ingestVars == <<faults, hubVars, httpVars, fileVars, collectorVars>>

NoFile == [c \in 1..Chunks |-> "absent"]
Empty == [c \in 1..Chunks |-> "none"]
NoUpload == [grant |-> NoGrant, name |-> Gone, received |-> 0, right |-> TRUE]

IngestInit ==
    /\ faults \in FaultPlans
    /\ live = {}
    /\ file = [n \in Names |-> NoFile] /\ old = {}
    /\ upload = [u \in Uploads |-> NoUpload] /\ overlapped = {}
    /\ appending = NoEvent /\ committed = {} /\ overdue = {}
    /\ collector = "off" /\ target = Gone

----------------------------------------------------------------------------
(* Files. *)

FullLength(f) == f[Chunks] \in {"right", "wrong"}
Whole(f) == \A c \in 1..Chunks : f[c] = "right"

(* Mutant: `${finalPath}.part`. *)
TempOfKey(g) == CHOOSE h \in Grants : KeyOf[h] = KeyOf[g]

(* The temporary file of a grant: `${finalPath}.${nonce}.part`. *)
Temp(g) == g

Open(u) == upload[u].grant # NoGrant
Reading(g) == {u \in Uploads : upload[u].grant = g}
InFlight(k) == {u \in Uploads : Open(u) /\ KeyOf[upload[u].grant] = k}

(* The descriptors of a file that is renamed, replaced or removed. *)
Follow(uploads, names) ==
    [u \in Uploads |->
        IF uploads[u].name \in DOMAIN names
        THEN [uploads[u] EXCEPT !.name = names[@]] ELSE uploads[u]]

Closed(u) == [upload EXCEPT ![u] = NoUpload]

(* rmSync() and unlinkSync() of a name, by whoever; uploads are then so.   *)
Removes(n, uploads) ==
    /\ file' = [file EXCEPT ![n] = NoFile]
    /\ old' = old \ {n}
    /\ upload' = Follow(uploads, [m \in {n} |-> Gone])

----------------------------------------------------------------------------
(* The hub. *)

(* mesh.audit.prepare_blobs: a grant unless a file of that size is there.  *)
PrepareBlobs(g) ==
    /\ g \notin live /\ Reading(g) = {} /\ file[Temp(g)] = NoFile
    /\ ~FullLength(file[KeyOf[g]])
    /\ live' = live \union {g}
    /\ UNCHANGED <<faults, appending, committed, overdue, httpVars, fileVars, collectorVars>>

Expires(g) ==
    /\ g \in live /\ live' = live \ {g}
    /\ UNCHANGED <<faults, appending, committed, overdue, httpVars, fileVars, collectorVars>>

(* mesh.audit.append: an event that is there already is answered from its  *)
(* row.  First every blob is looked for; what is missing ends it.          *)
AppendLooks(e) ==
    /\ appending = NoEvent /\ e \notin committed
    /\ \A k \in Attached[e] : FullLength(file[k])
    /\ appending' = e
    /\ overdue' = overdue \union {<<e, k>> : k \in Attached[e] \intersect old}
    /\ UNCHANGED <<faults, live, committed, httpVars, fileVars, collectorVars>>

AppendCommits ==
    /\ appending # NoEvent /\ appending' = NoEvent
    /\ committed' = committed \union {appending}
    /\ UNCHANGED <<faults, live, overdue, httpVars, fileVars, collectorVars>>

AppendFails ==
    /\ "full" \in faults
    /\ appending # NoEvent /\ appending' = NoEvent
    /\ UNCHANGED <<faults, live, committed, overdue, httpVars, fileVars, collectorVars>>

----------------------------------------------------------------------------
(* The http server: putBlob(). *)

(* What is there in full is not uploaded again.  createWriteStream()       *)
(* returns before the temporary file is open.                              *)
PutBegins(u, g) ==
    /\ Reading(g) = {} \/ "overlap" \in faults
    /\ ~Open(u) /\ g \in live
    /\ ~FullLength(file[KeyOf[g]])
    /\ upload' = [upload EXCEPT ![u] = [grant |-> g, name |-> Unopened, received |-> 0, right |-> TRUE]]
    /\ overlapped' = IF Reading(g) = {} THEN overlapped ELSE overlapped \union {KeyOf[g]}
    /\ UNCHANGED <<faults, hubVars, fileVars, collectorVars>>

(* A temporary file is made, or the one that is there truncated.           *)
Creates(g) == file' = [file EXCEPT ![Temp(g)] = Empty] /\ old' = old \ {Temp(g)}

PutOpens(u) ==
    /\ Open(u) /\ upload[u].name = Unopened
    /\ upload' = [upload EXCEPT ![u].name = Temp(upload[u].grant)]
    /\ Creates(upload[u].grant)
    /\ UNCHANGED <<faults, hubVars, overlapped, collectorVars>>

(* What is written before the file is open waits for it. *)
PutChunk(u, right) ==
    /\ Open(u) /\ upload[u].name # Unopened /\ upload[u].received < Chunks
    /\ right \/ "garble" \in faults
    /\ LET up == upload[u]
           c == up.received + 1
       IN /\ upload' = [upload EXCEPT ![u].received = c, ![u].right = @ /\ right]
          /\ IF up.name = Gone
             THEN UNCHANGED fileVars
             ELSE /\ file' = [file EXCEPT ![up.name][c] = IF right THEN "right" ELSE "wrong"]
                  /\ old' = old \ {up.name}
    /\ UNCHANGED <<faults, hubVars, overlapped, collectorVars>>

(* Too short, too long, timed out, cut off or of another digest: whatever  *)
(* has the temporary name is removed.  A file that was yet to be opened    *)
(* can be made after that, and stays behind.                               *)
PutRefused(u) ==
    /\ Open(u)
    /\ "break" \in faults \/ (upload[u].received = Chunks /\ ~upload[u].right)
    /\ \/ Removes(Temp(upload[u].grant), Closed(u))
       \/ /\ upload[u].name = Unopened
          /\ Creates(upload[u].grant) /\ upload' = Closed(u)
    /\ UNCHANGED <<faults, hubVars, overlapped, collectorVars>>

(* The digest of what was received is right, and whatever has the          *)
(* temporary name gets the blob's.  Without any, renameSync() throws.      *)
PutRenames(u) ==
    /\ Open(u) /\ upload[u].received = Chunks /\ upload[u].right
    /\ LET t == Temp(upload[u].grant)
           k == KeyOf[upload[u].grant]
       IN IF file[t] = NoFile
          THEN upload' = Closed(u) /\ UNCHANGED fileVars
          ELSE /\ file' = [file EXCEPT ![k] = file[t], ![t] = NoFile]
               /\ old' = old \ {t, k}
               /\ upload' = Follow(Closed(u), [n \in {t, k} |-> IF n = t THEN k ELSE Gone])
    /\ UNCHANGED <<faults, hubVars, overlapped, collectorVars>>

UploadsDie ==
    /\ "die" \in faults
    /\ \E u \in Uploads : Open(u)
    /\ upload' = [u \in Uploads |-> NoUpload]
    /\ UNCHANGED <<faults, hubVars, overlapped, fileVars, collectorVars>>

----------------------------------------------------------------------------
(* collect-orphan-blobs.ts.  Its cutoff is fixed when it starts.  Within   *)
(* the hours of grace every upload and every append that was under way has *)
(* ended.                                                                  *)

GrowsOld(n) ==
    /\ collector = "off" /\ appending = NoEvent
    /\ file[n] # NoFile /\ n \notin old
    /\ IF n \in Blobs THEN InFlight(n) = {} ELSE Reading(n) = {}
    /\ old' = old \union {n}
    /\ UNCHANGED <<faults, hubVars, httpVars, file, collectorVars>>

CollectorStarts ==
    /\ collector = "off" /\ collector' = "next"
    /\ UNCHANGED <<faults, target, hubVars, httpVars, fileVars>>

CollectorEnds ==
    /\ collector = "next" /\ collector' = "off"
    /\ UNCHANGED <<faults, target, hubVars, httpVars, fileVars>>

(* Mutant: the grace period is left out. *)
CollectorStatsAny(n) ==
    /\ collector = "next" /\ file[n] # NoFile
    /\ collector' = "old" /\ target' = n
    /\ UNCHANGED <<faults, hubVars, httpVars, fileVars>>

(* statSync() comes first, and its mtime is what is compared. *)
CollectorStats(n) ==
    /\ collector = "next" /\ file[n] # NoFile /\ n \in old
    /\ collector' = "old" /\ target' = n
    /\ UNCHANGED <<faults, hubVars, httpVars, fileVars>>

Referenced(n) == \E e \in committed : n \in Attached[e]

CollectorChecks ==
    /\ collector = "old"
    /\ IF Referenced(target)
       THEN collector' = "next" /\ target' = Gone
       ELSE collector' = "orphan" /\ UNCHANGED target
    /\ UNCHANGED <<faults, hubVars, httpVars, fileVars>>

CollectorUnlinks ==
    /\ collector = "orphan"
    /\ Removes(target, upload)
    /\ collector' = "next" /\ target' = Gone
    /\ UNCHANGED <<faults, hubVars, overlapped>>

IngestNext ==
    \/ \E g \in Grants :
        \/ PrepareBlobs(g) \/ Expires(g)
        \/ \E u \in Uploads : PutBegins(u, g)
    \/ \E u \in Uploads :
        \/ PutOpens(u) \/ PutRefused(u) \/ PutRenames(u)
        \/ \E right \in BOOLEAN : PutChunk(u, right)
    \/ \E e \in Events : AppendLooks(e)
    \/ AppendCommits \/ AppendFails \/ UploadsDie
    \/ \E n \in Names : GrowsOld(n) \/ CollectorStats(n)
    \/ CollectorStarts \/ CollectorChecks \/ CollectorUnlinks \/ CollectorEnds

IngestSpec == IngestInit /\ [][IngestNext]_ingestVars

----------------------------------------------------------------------------
(* Properties. *)

Contents == [1..Chunks -> {"none", "right", "wrong"}] \union {NoFile}
PutRequests ==
    [grant : Grants \union {NoGrant}, name : Names \union {Gone, Unopened}, received : 0..Chunks, right : BOOLEAN]

IngestTypeOK ==
    /\ faults \in FaultPlans
    /\ live \subseteq Grants
    /\ file \in [Names -> Contents] /\ old \subseteq {n \in Names : file[n] # NoFile}
    /\ upload \in [Uploads -> PutRequests]
    /\ overlapped \subseteq Blobs
    /\ appending \in Events \union {NoEvent} /\ committed \subseteq Events
    /\ overdue \subseteq Events \X Blobs
    /\ collector \in {"off", "next", "old", "orphan"} /\ target \in Names \union {Gone}
    /\ target # Gone <=> collector \in {"old", "orphan"}

(* "An upload that dies midway leaves a temp file, never a short blob      *)
(* under a real key" (audit-blobs.ts:8): what has a blob's name is the     *)
(* bytes of that blob, whichever uploads of it raced under several grants, *)
(* broke, were retried or died with the server, and whatever the collector *)
(* took.  Two uploads at once under one grant are left out: they share a   *)
(* temporary file.                                                         *)
BlobIsWhole ==
    \A k \in Blobs \ overlapped : file[k] # NoFile => Whole(file[k])

(* A blob that a committed event references is there ("safe to run while   *)
(* the hub and http are live", collect-orphan-blobs.ts:21), provided that  *)
(* it was within its grace period when the hub found it ("the correctness  *)
(* condition", :15) and its upload was not overlapped by another.          *)
CommittedHasBlobs ==
    \A e \in committed : \A k \in Attached[e] \ overlapped :
        <<e, k>> \in overdue \/ FullLength(file[k])
=============================================================================
