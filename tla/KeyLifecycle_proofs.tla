------------------------ MODULE KeyLifecycle_proofs ------------------------
(***************************************************************************)
(* Proofs about KeyLifecycle, for any identities and keys.  Every property *)
(* follows from what the running handler of each process has read and what *)
(* is still true of it when it writes: what a decision read holds of every *)
(* key that no proposal crossed, and what the hub read of its own key      *)
(* holds in any case, because only the hub adds and removes rows.          *)
(***************************************************************************)
EXTENDS KeyLifecycle, TLAPS

HeldByKnown == \A k \in Keys : holder[k] # Nobody => agent[holder[k]] # "absent"

PostRead ==
    /\ post.at = "idle" => post = Idle
    /\ post.at # "idle" =>
          /\ post.id \in Identities
          /\ post.key # NoKey => holder[post.key] \in {post.id, Nobody}
    /\ post.at \in {"written", "proposing"} =>
          post.key # NoKey /\ agent[post.id] # "absent"
    /\ post.at = "proposing" => status[post.key] = "absent"
    /\ post.at = "checked" /\ post.id \in NeedsKey =>
          \/ post.key # NoKey /\ (agent[post.id] = "absent" \/ post.id \in cut)
          \/ \E k \in Keys : holder[k] = post.id

(* The statuses a decision can still find its key in.                      *)
Ahead(op) == {"absent", "pending"} \union (IF op = "revoke" THEN {"approved"} ELSE {})

RulingRead ==
    /\ ruling.op = "none" => ruling = NoRuling
    /\ ruling.op # "none" => ruling.id \in Identities
    /\ ruling.op \in Rulings =>
          /\ ruling.key \in Keys
          /\ status[ruling.key] \in Ahead(ruling.op)
          /\ ruling.key \notin raced =>
                status[ruling.key] # "absent" /\ holder[ruling.key] = ruling.id
    /\ ruling.op = "teardown" =>
          /\ agent[ruling.id] # "absent"
          /\ \A k \in Keys \ raced :
                k \in ruling.seen <=> holder[k] = ruling.id /\ status[k] \in Usable

IInv ==
    /\ KeysTypeOK
    /\ HeldByKnown
    /\ PostRead
    /\ RulingRead
    /\ HistoryTells
    /\ DeletedIsSilent
    /\ ApprovedIsAdmitted
    /\ RegisteredHasKey

USE NeedsKeyAssumption, NamesAssumption

LEMMA Initially == KeysInit => IInv
  <1> SUFFICES ASSUME KeysInit PROVE IInv
    OBVIOUS
  <1>1. KeysTypeOK
    BY DEF KeysInit, KeysTypeOK, Agents, KeyStatus, Idle, NoRuling
  <1>2. HeldByKnown /\ PostRead /\ RulingRead
    BY DEF KeysInit, HeldByKnown, PostRead, RulingRead, Idle, NoRuling, Rulings
  <1>3. HistoryTells /\ DeletedIsSilent /\ ApprovedIsAdmitted /\ RegisteredHasKey
    BY DEF KeysInit, HistoryTells, DeletedIsSilent, ApprovedIsAdmitted, RegisteredHasKey,
           CanSign, Having, Usable
  <1> QED
    BY <1>1, <1>2, <1>3 DEF IInv

-----------------------------------------------------------------------------
(* The hub.                                                                *)

LEMMA PostChecksKeeps ==
    ASSUME IInv, NEW i \in Identities, NEW k \in Keys \union {NoKey}, PostChecks(i, k)
    PROVE  IInv'
  <1>1. KeysTypeOK'
    BY DEF IInv, KeysTypeOK, PostChecks, rows
  <1>2. PostRead'
    <2>1. i \in NeedsKey =>
              \/ k # NoKey /\ (agent[i] = "absent" \/ i \in cut)
              \/ \E j \in Keys : holder[j] = i
      BY DEF PostChecks, Idle, IInv, RegisteredHasKey, Having
    <2> QED
      BY <2>1 DEF PostChecks, rows, PostRead, IInv, KeysTypeOK
  <1>3. HeldByKnown' /\ RulingRead' /\ HistoryTells' /\ DeletedIsSilent' /\ ApprovedIsAdmitted'
    BY DEF IInv, PostChecks, rows, HeldByKnown, RulingRead, HistoryTells, DeletedIsSilent,
           ApprovedIsAdmitted, CanSign, Having
  <1>4. RegisteredHasKey'
    BY DEF IInv, PostChecks, rows, RegisteredHasKey, Idle
  <1> QED
    BY <1>1, <1>2, <1>3, <1>4 DEF IInv

LEMMA PostWritesKeeps ==
    ASSUME IInv, NEW createOnly \in BOOLEAN, PostWrites(createOnly)
    PROVE  IInv'
  <1>1. post.id \in Identities /\ post.at = "checked"
    BY DEF IInv, PostRead, PostWrites
  <1>2. KeysTypeOK'
    BY <1>1 DEF IInv, KeysTypeOK, PostWrites, Agents, Idle
  <1>3. HeldByKnown' /\ HistoryTells' /\ RulingRead'
    BY <1>1 DEF IInv, KeysTypeOK, PostWrites, HeldByKnown, HistoryTells, RulingRead
  <1>4. PostRead'
    BY <1>1 DEF IInv, KeysTypeOK, PostWrites, PostRead, Idle
  <1>5. DeletedIsSilent'
    BY <1>1 DEF IInv, KeysTypeOK, PostWrites, DeletedIsSilent, HeldByKnown, Usable
  <1>6. ApprovedIsAdmitted'
    BY <1>1 DEF IInv, KeysTypeOK, PostWrites, ApprovedIsAdmitted, HeldByKnown, CanSign, Having
  <1>7. RegisteredHasKey'
    BY <1>1 DEF IInv, KeysTypeOK, PostWrites, RegisteredHasKey, PostRead, Idle
  <1> QED
    BY <1>2, <1>3, <1>4, <1>5, <1>6, <1>7 DEF IInv

LEMMA PostEndsKeeps ==
    ASSUME IInv, PostReads \/ PostFails
    PROVE  IInv'
  <1>1. /\ post.id \in Identities /\ post.at # "idle"
        /\ UNCHANGED <<agent, holder, status, trail, admitted, httpUp, ruling, raced>>
        /\ cut' \subseteq Identities
    BY DEF IInv, KeysTypeOK, PostRead, PostReads, PostFails, rows, Idle
  <1>2. KeysTypeOK' /\ PostRead'
    BY <1>1 DEF IInv, KeysTypeOK, PostReads, PostFails, rows, PostRead, Idle
  <1>3. HeldByKnown' /\ HistoryTells' /\ RulingRead' /\ DeletedIsSilent' /\ ApprovedIsAdmitted'
    BY <1>1 DEF IInv, HeldByKnown, HistoryTells, RulingRead, DeletedIsSilent,
                ApprovedIsAdmitted, CanSign, Having
  <1>4. RegisteredHasKey'
    BY <1>1 DEF IInv, KeysTypeOK, PostReads, PostFails, rows, RegisteredHasKey, PostRead, Idle
  <1> QED
    BY <1>2, <1>3, <1>4 DEF IInv

LEMMA PostCommitsKeeps ==
    ASSUME IInv, PostCommits
    PROVE  IInv'
  <1> DEFINE i == post.id
             k == post.key
             old == Having(i, "pending")
  <1>1. /\ i \in Identities /\ k \in Keys /\ agent[i] # "absent"
        /\ status[k] = "absent" /\ holder[k] = Nobody /\ k \notin old /\ old \subseteq Keys
    BY DEF IInv, KeysTypeOK, PostRead, PostCommits, Having
  <1>2. \A j \in Keys :
          /\ holder'[j] = IF j = k THEN i ELSE IF j \in old THEN Nobody ELSE holder[j]
          /\ status'[j] = IF j = k THEN "pending" ELSE IF j \in old THEN "absent" ELSE status[j]
          /\ trail'[j] = IF j = k THEN "pending" ELSE IF j \in old THEN "absent" ELSE trail[j]
    BY <1>1 DEF PostCommits, Becomes
  <1>3. /\ raced' = (raced \ (old \union {k}))
                        \union (IF Crosses(i, old, k) THEN old \union {k} ELSE {})
        /\ post' = Idle /\ cut' = cut \ {i}
        /\ UNCHANGED <<agent, admitted, httpUp, ruling>>
    BY DEF PostCommits
  <1>4. KeysTypeOK'
    <2>1. /\ holder' \in [Keys -> Identities \union {Nobody}]
          /\ status' \in [Keys -> KeyStatus] /\ trail' \in [Keys -> KeyStatus]
      BY <1>1 DEF PostCommits, Becomes, IInv, KeysTypeOK, KeyStatus
    <2>2. \A j \in Keys : status'[j] = "absent" <=> holder'[j] = Nobody
      BY <1>1, <1>2 DEF IInv, KeysTypeOK
    <2> QED
      BY <1>1, <1>3, <2>1, <2>2 DEF IInv, KeysTypeOK, Idle
  <1>5. HeldByKnown' /\ PostRead'
    BY <1>1, <1>2, <1>3 DEF IInv, HeldByKnown, PostRead, Idle
  <1>6. HistoryTells'
    BY <1>2, <1>3 DEF IInv, HistoryTells
  <1>7. DeletedIsSilent'
    BY <1>1, <1>2, <1>3 DEF IInv, KeysTypeOK, DeletedIsSilent, Crosses, Usable, Agents
  <1>8. RulingRead'
    <2>1. ASSUME ruling.op \in Rulings
          PROVE  /\ status'[ruling.key] \in Ahead(ruling.op)
                 /\ ruling.key \notin raced' =>
                        status'[ruling.key] # "absent" /\ holder'[ruling.key] = ruling.id
      BY <1>1, <1>2, <1>3, <2>1 DEF IInv, RulingRead, Crosses, Ahead
    <2>2. ASSUME ruling.op = "teardown", NEW j \in Keys \ raced'
          PROVE  j \in ruling.seen <=> holder'[j] = ruling.id /\ status'[j] \in Usable
      BY <1>1, <1>2, <1>3, <2>2 DEF IInv, KeysTypeOK, RulingRead, Crosses, Usable
    <2> QED
      BY <1>3, <2>1, <2>2 DEF IInv, RulingRead
  <1>9. ApprovedIsAdmitted'
    <2>1. \A j \in Keys : status'[j] = "approved" => status[j] = "approved" /\ holder'[j] = holder[j]
      BY <1>1, <1>2
    <2> QED
      BY <1>3, <2>1 DEF IInv, ApprovedIsAdmitted, CanSign, Having
  <1>10. RegisteredHasKey'
    BY <1>1, <1>2, <1>3 DEF IInv, RegisteredHasKey, Having, Idle
  <1> QED
    BY <1>4, <1>5, <1>6, <1>7, <1>8, <1>9, <1>10 DEF IInv

-----------------------------------------------------------------------------
(* The http server.                                                        *)

LEMMA RulingStartsKeeps ==
    ASSUME IInv,
           \/ \E op \in Rulings, k \in Keys : RulingReads(op, k)
           \/ \E i \in Identities : TeardownReads(i)
    PROVE  IInv'
  <1>1. UNCHANGED <<agent, holder, status, trail, admitted, httpUp, post, raced, cut>>
    BY DEF RulingReads, TeardownReads, rows
  <1>2. KeysTypeOK' /\ RulingRead'
    <2>1. ASSUME NEW op \in Rulings, NEW k \in Keys, RulingReads(op, k)
          PROVE  KeysTypeOK' /\ RulingRead'
      BY <1>1, <2>1 DEF RulingReads, IInv, KeysTypeOK, RulingRead, Rulings, Ahead, Usable
    <2>2. ASSUME NEW i \in Identities, TeardownReads(i)
          PROVE  KeysTypeOK' /\ RulingRead'
      BY <1>1, <2>2 DEF TeardownReads, IInv, KeysTypeOK, RulingRead, Rulings, Usable, Having
    <2> QED
      BY <2>1, <2>2
  <1>3. HeldByKnown' /\ PostRead' /\ HistoryTells' /\ DeletedIsSilent' /\ RegisteredHasKey'
    BY <1>1 DEF IInv, HeldByKnown, PostRead, HistoryTells, DeletedIsSilent, RegisteredHasKey
  <1>4. ApprovedIsAdmitted'
    BY <1>1 DEF RulingReads, TeardownReads, IInv, ApprovedIsAdmitted, CanSign, Having, NoRuling
  <1> QED
    BY <1>2, <1>3, <1>4 DEF IInv

(* A decision that ends without a transaction, and the two halves of the   *)
(* registry.                                                               *)
LEMMA RegistryKeeps ==
    ASSUME IInv, Admits \/ RulingFails \/ HttpDies \/ HttpBoots
    PROVE  IInv'
  <1>1. UNCHANGED <<agent, holder, status, trail, post, raced, cut>>
    BY DEF Admits, RulingFails, HttpDies, HttpBoots, rows
  <1>2. KeysTypeOK' /\ RulingRead'
    <2>1. ruling' \in {ruling, NoRuling} /\ admitted' \subseteq Identities /\ httpUp' \in BOOLEAN
      <3>1. CASE Admits
        <4>1. ruling.id \in Identities
          BY <3>1 DEF Admits, IInv, RulingRead
        <4> QED
          BY <3>1, <4>1 DEF Admits, IInv, KeysTypeOK
      <3>2. CASE RulingFails \/ HttpDies \/ HttpBoots
        BY <3>2 DEF RulingFails, HttpDies, HttpBoots, IInv, KeysTypeOK
      <3> QED
        BY <3>1, <3>2
    <2>2. CASE ruling' = ruling
      BY <1>1, <2>1, <2>2 DEF IInv, KeysTypeOK, RulingRead
    <2>3. CASE ruling' = NoRuling
      BY <1>1, <2>1, <2>3 DEF IInv, KeysTypeOK, RulingRead, NoRuling, Rulings
    <2> QED
      BY <2>1, <2>2, <2>3
  <1>3. HeldByKnown' /\ PostRead' /\ HistoryTells' /\ DeletedIsSilent' /\ RegisteredHasKey'
    BY <1>1 DEF IInv, HeldByKnown, PostRead, HistoryTells, DeletedIsSilent, RegisteredHasKey
  <1>4. ApprovedIsAdmitted'
    BY <1>1 DEF Admits, RulingFails, HttpDies, HttpBoots, IInv, ApprovedIsAdmitted, CanSign,
                Having, Rulings
  <1> QED
    BY <1>2, <1>3, <1>4 DEF IInv

(* Rows change their status alone: what the hub reads of them, which is    *)
(* whether they are there and whose they are, stays true.                  *)
LEMMA StatusAlone ==
    ASSUME IInv,
           UNCHANGED <<holder, post, cut>>,
           \A i \in Identities : agent'[i] = "absent" <=> agent[i] = "absent",
           \A k \in Keys : status'[k] = "absent" <=> status[k] = "absent"
    PROVE  HeldByKnown' /\ PostRead' /\ RegisteredHasKey'
  BY DEF IInv, KeysTypeOK, HeldByKnown, PostRead, RegisteredHasKey

LEMMA ApproveCommitsKeeps ==
    ASSUME IInv, ApproveCommits
    PROVE  IInv'
  <1> DEFINE k == ruling.key
             incumbent == Having(ruling.id, "approved")
  <1>1. /\ k \in Keys /\ ruling.id \in Identities /\ status[k] \in {"absent", "pending"}
        /\ k \notin raced => status[k] # "absent" /\ holder[k] = ruling.id
        /\ k \notin incumbent /\ incumbent \subseteq Keys
    BY DEF IInv, RulingRead, ApproveCommits, Rulings, Ahead, Having
  <1>2. \A j \in Keys :
          /\ status'[j] = IF j = k /\ status[j] # "absent" THEN "approved"
                          ELSE IF j \in incumbent THEN "revoked" ELSE status[j]
          /\ trail'[j] = IF j = k THEN "approved"
                         ELSE IF j \in incumbent THEN "revoked" ELSE trail[j]
    BY <1>1 DEF ApproveCommits, Becomes
  <1>3. /\ UNCHANGED <<agent, holder, admitted, httpUp, post, raced, cut>>
        /\ status[k] = "absent" => ruling' = NoRuling
        /\ status[k] # "absent" =>
              ruling' = [ruling EXCEPT !.op = "admit", !.id = holder[k]] /\ holder[k] # Nobody
    BY <1>1 DEF ApproveCommits, IInv, KeysTypeOK
  <1>4. \A j \in Keys : status'[j] = "absent" <=> status[j] = "absent"
    BY <1>2 DEF Having
  <1>5. KeysTypeOK'
    <2>1. status' \in [Keys -> KeyStatus] /\ trail' \in [Keys -> KeyStatus]
      BY DEF ApproveCommits, Becomes, IInv, KeysTypeOK, KeyStatus
    <2>2. ruling' \in [op : Rulings \union {"none", "teardown", "admit"},
                       id : Identities \union {Nobody}, key : Keys \union {NoKey},
                       seen : SUBSET Keys]
      <3>1. CASE status[k] = "absent"
        BY <1>3, <3>1 DEF NoRuling
      <3>2. CASE status[k] # "absent"
        <4>1. ruling' = [op |-> "admit", id |-> holder[k], key |-> k, seen |-> ruling.seen]
          BY <1>3, <3>2 DEF IInv, KeysTypeOK
        <4>2. holder[k] \in Identities /\ ruling.seen \in SUBSET Keys
          BY <1>1, <1>3, <3>2 DEF IInv, KeysTypeOK
        <4> QED
          BY <1>1, <4>1, <4>2
      <3> QED
        BY <3>1, <3>2
    <2> QED
      BY <1>3, <1>4, <2>1, <2>2 DEF IInv, KeysTypeOK
  <1>6. HeldByKnown' /\ PostRead' /\ RegisteredHasKey'
    BY <1>3, <1>4, StatusAlone
  <1>7. RulingRead'
    <2>1. CASE status[k] = "absent"
      BY <1>3, <2>1 DEF RulingRead, NoRuling, Rulings
    <2>2. CASE status[k] # "absent"
      <3>1. ruling'.op = "admit" /\ ruling'.id = holder[k] /\ holder[k] \in Identities
        BY <1>1, <1>3, <2>2 DEF IInv, KeysTypeOK
      <3> QED
        BY <3>1 DEF RulingRead, Rulings
    <2> QED
      BY <2>1, <2>2
  <1>8. HistoryTells'
    BY <1>1, <1>2, <1>3 DEF IInv, HistoryTells
  <1>9. DeletedIsSilent'
    BY <1>1, <1>2, <1>3 DEF IInv, DeletedIsSilent, Usable
  <1>10. ApprovedIsAdmitted'
    <2>1. ASSUME NEW i \in Identities, CanSign(i)', i # holder[k] \/ status[k] = "absent"
          PROVE  CanSign(i)
      BY <1>1, <1>2, <1>3, <2>1 DEF CanSign, Having
    <2>2. ruling.op = "approve"
      BY DEF ApproveCommits
    <2> QED
      BY <1>1, <1>3, <2>1, <2>2 DEF IInv, KeysTypeOK, ApprovedIsAdmitted
  <1> QED
    BY <1>5, <1>6, <1>7, <1>8, <1>9, <1>10 DEF IInv

LEMMA RefuseCommitsKeeps ==
    ASSUME IInv, RefuseCommits
    PROVE  IInv'
  <1> DEFINE k == ruling.key
             s == IF ruling.op = "deny" THEN "denied" ELSE "revoked"
  <1>1. /\ k \in Keys /\ ruling.op \in {"deny", "revoke"}
        /\ k \notin raced => status[k] # "absent"
    BY DEF IInv, RulingRead, RefuseCommits, Rulings
  <1>2. /\ status' = [status EXCEPT ![k] = IF @ = "absent" THEN @ ELSE s]
        /\ trail' = [trail EXCEPT ![k] = s]
        /\ ruling' = NoRuling
        /\ UNCHANGED <<agent, holder, admitted, httpUp, post, raced, cut>>
    BY DEF RefuseCommits
  <1>3. \A j \in Keys : status'[j] = "absent" <=> status[j] = "absent"
    BY <1>1, <1>2 DEF IInv, KeysTypeOK
  <1>4. KeysTypeOK' /\ RulingRead'
    BY <1>1, <1>2, <1>3 DEF IInv, KeysTypeOK, KeyStatus, NoRuling, RulingRead, Rulings
  <1>5. HeldByKnown' /\ PostRead' /\ RegisteredHasKey'
    BY <1>2, <1>3, StatusAlone
  <1>6. HistoryTells' /\ DeletedIsSilent'
    BY <1>1, <1>2 DEF IInv, KeysTypeOK, HistoryTells, DeletedIsSilent, Usable
  <1>7. ApprovedIsAdmitted'
    BY <1>1, <1>2 DEF IInv, KeysTypeOK, ApprovedIsAdmitted, CanSign, Having
  <1> QED
    BY <1>4, <1>5, <1>6, <1>7 DEF IInv

LEMMA TeardownCommitsKeeps ==
    ASSUME IInv, TeardownCommits
    PROVE  IInv'
  <1> DEFINE i == ruling.id
             usable == Having(i, "pending") \union Having(i, "approved")
  <1>1. /\ i \in Identities /\ ruling.op = "teardown" /\ agent[i] # "absent"
        /\ \A k \in Keys \ raced : k \in ruling.seen <=> k \in usable
    BY DEF IInv, RulingRead, TeardownCommits, Having, Usable
  <1>2. /\ agent' = [agent EXCEPT ![i] = "deleted"]
        /\ ruling' = NoRuling
        /\ UNCHANGED <<holder, admitted, httpUp, post, raced, cut>>
        /\ \A k \in Keys :
              /\ status'[k] = IF k \in usable THEN "revoked" ELSE status[k]
              /\ trail'[k] = IF k \in ruling.seen THEN "revoked" ELSE trail[k]
    BY DEF TeardownCommits, Becomes
  <1>3. \A k \in Keys : status'[k] = "absent" <=> status[k] = "absent"
    BY <1>2 DEF Having
  <1>4. KeysTypeOK'
    <2>1. status' \in [Keys -> KeyStatus] /\ trail' \in [Keys -> KeyStatus]
      BY DEF TeardownCommits, Becomes, IInv, KeysTypeOK, KeyStatus
    <2> QED
      BY <1>1, <1>2, <1>3, <2>1 DEF IInv, KeysTypeOK, Agents, NoRuling
  <1>5. RulingRead'
    BY <1>2 DEF RulingRead, NoRuling, Rulings
  <1>6. HeldByKnown' /\ PostRead' /\ RegisteredHasKey'
    <2>1. \A j \in Identities : agent'[j] = "absent" <=> agent[j] = "absent"
      BY <1>1, <1>2 DEF IInv, KeysTypeOK
    <2> QED
      BY <1>2, <1>3, <2>1, StatusAlone
  <1>7. HistoryTells'
    BY <1>1, <1>2 DEF IInv, HistoryTells
  <1>8. DeletedIsSilent'
    BY <1>1, <1>2 DEF IInv, KeysTypeOK, DeletedIsSilent, Usable, Having
  <1>9. ApprovedIsAdmitted'
    BY <1>1, <1>2 DEF IInv, KeysTypeOK, ApprovedIsAdmitted, CanSign, Having
  <1> QED
    BY <1>4, <1>5, <1>6, <1>7, <1>8, <1>9 DEF IInv

LEMMA StepKeeps == IInv /\ [KeysNext]_keysVars => IInv'
  <1> SUFFICES ASSUME IInv, [KeysNext]_keysVars PROVE IInv'
    OBVIOUS
  <1>1. CASE UNCHANGED keysVars
    BY <1>1 DEF keysVars, rows, IInv, KeysTypeOK, HeldByKnown, PostRead, RulingRead, HistoryTells,
                DeletedIsSilent, ApprovedIsAdmitted, RegisteredHasKey, CanSign, Having
  <1>2. CASE \/ \E i \in Identities, k \in Keys \union {NoKey} : PostChecks(i, k)
             \/ \E createOnly \in BOOLEAN : PostWrites(createOnly)
             \/ PostReads \/ PostFails \/ PostCommits
    BY <1>2, PostChecksKeeps, PostWritesKeeps, PostEndsKeeps, PostCommitsKeeps
  <1>3. CASE \/ \E op \in Rulings, k \in Keys : RulingReads(op, k)
             \/ \E i \in Identities : TeardownReads(i)
             \/ Admits \/ RulingFails \/ HttpDies \/ HttpBoots
    BY <1>3, RulingStartsKeeps, RegistryKeeps
  <1>4. CASE ApproveCommits \/ RefuseCommits \/ TeardownCommits
    BY <1>4, ApproveCommitsKeeps, RefuseCommitsKeeps, TeardownCommitsKeeps
  <1> QED
    BY <1>1, <1>2, <1>3, <1>4 DEF KeysNext

LEMMA Invariant == KeysSpec => []IInv
  BY Initially, StepKeeps, PTL DEF KeysSpec

-----------------------------------------------------------------------------
(* Every table and handler keeps its type.                                 *)
THEOREM TypeCorrect == KeysSpec => []KeysTypeOK
  <1>1. IInv => KeysTypeOK
    BY DEF IInv
  <1> QED
    BY <1>1, Invariant, PTL

(* The event log tells the status of every key no proposal crossed.        *)
THEOREM HistoryTold == KeysSpec => []HistoryTells
  <1>1. IInv => HistoryTells
    BY DEF IInv
  <1> QED
    BY <1>1, Invariant, PTL

(* Teardown silences an identity, but for a proposal that crossed it.      *)
THEOREM DeletedSilent == KeysSpec => []DeletedIsSilent
  <1>1. IInv => DeletedIsSilent
    BY DEF IInv
  <1> QED
    BY <1>1, Invariant, PTL

(* A running server has admitted whom an operator approved.                *)
THEOREM ApprovedAdmitted == KeysSpec => []ApprovedIsAdmitted
  <1>1. IInv => ApprovedIsAdmitted
    BY DEF IInv
  <1> QED
    BY <1>1, Invariant, PTL

(* An identity that needs a key has one on record, unless its POST failed. *)
THEOREM RegisteredKeyed == KeysSpec => []RegisteredHasKey
  <1>1. IInv => RegisteredHasKey
    BY DEF IInv
  <1> QED
    BY <1>1, Invariant, PTL

(* Only a decision changes a row that the hub finds there, and it changes  *)
(* only a key it may still rule on and, approving, the incumbent.          *)
LEMMA StatusSteps ==
    ASSUME IInv, [KeysNext]_keysVars, NEW k \in Keys
    PROVE  /\ status[k] \in {"denied", "revoked"} => status'[k] = status[k]
           /\ status[k] = "approved" =>
                 status'[k] \in {"approved", "revoked"} /\ holder'[k] = holder[k]
  <1>1. CASE \/ UNCHANGED keysVars
             \/ \E i \in Identities, j \in Keys \union {NoKey} : PostChecks(i, j)
             \/ \E createOnly \in BOOLEAN : PostWrites(createOnly)
             \/ PostReads \/ PostFails
             \/ \E op \in Rulings, j \in Keys : RulingReads(op, j)
             \/ \E i \in Identities : TeardownReads(i)
             \/ Admits \/ RulingFails \/ HttpDies \/ HttpBoots
    BY <1>1 DEF keysVars, rows, PostChecks, PostWrites, PostReads, PostFails, RulingReads,
                TeardownReads, Admits, RulingFails, HttpDies, HttpBoots
  <1>2. CASE PostCommits
    BY <1>2 DEF PostCommits, Becomes, Having, IInv, KeysTypeOK, PostRead
  <1>3. CASE ApproveCommits
    BY <1>3 DEF ApproveCommits, Becomes, Having, IInv, RulingRead, Rulings, Ahead
  <1>4. CASE RefuseCommits
    <2>1. /\ ruling.key \in Keys /\ status[ruling.key] \in Ahead(ruling.op)
          /\ ruling.op \in {"deny", "revoke"}
      BY <1>4 DEF RefuseCommits, IInv, RulingRead, Rulings
    <2> QED
      BY <1>4, <2>1 DEF RefuseCommits, IInv, KeysTypeOK, Ahead
  <1>5. CASE TeardownCommits
    BY <1>5 DEF TeardownCommits, Becomes, Having
  <1> QED
    BY <1>1, <1>2, <1>3, <1>4, <1>5 DEF KeysNext

(* No proposal, restart or later decision brings a ruled key back.         *)
THEOREM RulingsStand == KeysSpec => RulingIsFinal
  <1>1. IInv /\ [KeysNext]_keysVars =>
            [\A k \in Keys : status[k] \in {"denied", "revoked"} => status'[k] = status[k]]_keysVars
    BY StatusSteps
  <1> QED
    BY <1>1, Invariant, PTL DEF KeysSpec, RulingIsFinal

(* What was ever approved keeps its row and its holder.                    *)
THEOREM SignedKept == KeysSpec => SignedIsKept
  <1>1. IInv /\ [KeysNext]_keysVars =>
            [\A k \in Keys : status[k] = "approved" =>
                 status'[k] \in {"approved", "revoked"} /\ holder'[k] = holder[k]]_keysVars
    BY StatusSteps
  <1> QED
    BY <1>1, Invariant, PTL DEF KeysSpec, SignedIsKept

(* Of the steps that take the last approved key from an identity.          *)
LEMMA SilencingSteps ==
    ASSUME IInv, [KeysNext]_keysVars, NEW i \in Identities, CanSign(i), ~CanSign(i)'
    PROVE  \/ ruling.op = "revoke" /\ holder[ruling.key] = i
           \/ ruling.op = "teardown" /\ ruling.id = i
           \/ ruling.op = "approve" /\ ruling.key \in raced
  <1>1. PICK k \in Keys : holder[k] = i /\ status[k] = "approved"
    BY DEF CanSign, Having
  <1>2. status'[k] # "approved"
    BY <1>1, StatusSteps DEF CanSign, Having
  <1>3. CASE PostCommits
    BY <1>1, <1>2, <1>3 DEF PostCommits, Becomes, Having, IInv, KeysTypeOK, PostRead
  <1>4. CASE ApproveCommits
    <2> SUFFICES ASSUME ruling.key \notin raced PROVE FALSE
      BY <1>4 DEF ApproveCommits
    <2>1. /\ ruling.op = "approve" /\ ruling.key \in Keys
          /\ status[ruling.key] # "absent" /\ holder[ruling.key] = ruling.id
      BY <1>4 DEF ApproveCommits, IInv, RulingRead, Rulings
    <2>2. ruling.id = i
      BY <1>1, <1>2, <1>4, <2>1 DEF ApproveCommits, Becomes, Having
    <2>3. status'[ruling.key] = "approved" /\ holder'[ruling.key] = i
      BY <1>4, <2>1, <2>2 DEF ApproveCommits, Becomes
    <2> QED
      BY <2>1, <2>3 DEF CanSign, Having
  <1>5. CASE RefuseCommits
    <2>1. ruling.key = k /\ ruling.op \in {"deny", "revoke"} /\ status[k] \in Ahead(ruling.op)
      BY <1>1, <1>2, <1>5 DEF RefuseCommits, IInv, KeysTypeOK, RulingRead, Rulings
    <2> QED
      BY <1>1, <2>1 DEF Ahead
  <1>6. CASE TeardownCommits
    BY <1>1, <1>2, <1>6 DEF TeardownCommits, Becomes, Having
  <1>7. CASE \/ UNCHANGED keysVars
             \/ \E j \in Identities, n \in Keys \union {NoKey} : PostChecks(j, n)
             \/ \E createOnly \in BOOLEAN : PostWrites(createOnly)
             \/ PostReads \/ PostFails
             \/ \E op \in Rulings, n \in Keys : RulingReads(op, n)
             \/ \E j \in Identities : TeardownReads(j)
             \/ Admits \/ RulingFails \/ HttpDies \/ HttpBoots
    BY <1>1, <1>2, <1>7 DEF keysVars, rows, PostChecks, PostWrites, PostReads, PostFails, RulingReads,
                TeardownReads, Admits, RulingFails, HttpDies, HttpBoots
  <1> QED
    BY <1>3, <1>4, <1>5, <1>6, <1>7 DEF KeysNext

(* Nobody is silenced but by a decision, or a proposal that crossed one.   *)
THEOREM SilencedByRuling == KeysSpec => SilencedOnPurpose
  <1>1. IInv /\ [KeysNext]_keysVars =>
            [\A i \in Identities : CanSign(i) /\ ~CanSign(i)' =>
                 \/ ruling.op = "revoke" /\ holder[ruling.key] = i
                 \/ ruling.op = "teardown" /\ ruling.id = i
                 \/ ruling.op = "approve" /\ ruling.key \in raced]_keysVars
    BY SilencingSteps
  <1> QED
    BY <1>1, Invariant, PTL DEF KeysSpec, SilencedOnPurpose
-----------------------------------------------------------------------------
(* An identity has at most one approved and at most one pending key: the   *)
(* proposal deletes the pending one by what its own transaction reads, and *)
(* an approval that was crossed is refused by the index and not by what it *)
(* read (keys.ts, proposeKey and approveKey).                              *)
OneKeyEach ==
    \A j, k \in Keys :
        holder[j] = holder[k] /\ status[j] = status[k] /\ status[j] \in Usable => j = k

LEMMA OneKeyStep ==
    ASSUME IInv, OneKeyEach, [KeysNext]_keysVars
    PROVE  OneKeyEach'
  <1>1. CASE \/ UNCHANGED keysVars
             \/ \E i \in Identities, j \in Keys \union {NoKey} : PostChecks(i, j)
             \/ \E createOnly \in BOOLEAN : PostWrites(createOnly)
             \/ PostReads \/ PostFails
             \/ \E op \in Rulings, j \in Keys : RulingReads(op, j)
             \/ \E i \in Identities : TeardownReads(i)
             \/ Admits \/ RulingFails \/ HttpDies \/ HttpBoots
    <2>1. UNCHANGED <<holder, status>>
      BY <1>1 DEF keysVars, rows, PostChecks, PostWrites, PostReads, PostFails, RulingReads,
                  TeardownReads, Admits, RulingFails, HttpDies, HttpBoots
    <2> QED
      BY <2>1 DEF OneKeyEach
  <1>2. CASE PostCommits
    <2>1. post.id \in Identities /\ post.key \in Keys
      BY <1>2 DEF PostCommits, IInv, KeysTypeOK, PostRead
    <2>2. \A k \in Keys :
             /\ status'[k] = IF k = post.key THEN "pending"
                             ELSE IF k \in Having(post.id, "pending") THEN "absent" ELSE status[k]
             /\ holder'[k] = IF k = post.key THEN post.id
                             ELSE IF k \in Having(post.id, "pending") THEN Nobody ELSE holder[k]
      BY <1>2, <2>1 DEF PostCommits, Becomes
    <2>3. \A k \in Keys : k \in Having(post.id, "pending") <=> holder[k] = post.id /\ status[k] = "pending"
      BY DEF Having
    <2> QED
      BY <2>1, <2>2, <2>3 DEF OneKeyEach, Usable
  <1>3. CASE ApproveCommits
    <2>1. ruling.key \in Keys /\ holder' = holder
      BY <1>3 DEF ApproveCommits, IInv, RulingRead, Rulings
    <2>2. \A k \in Keys : status'[k] = "pending" => status[k] = "pending"
      BY <1>3 DEF ApproveCommits, Becomes
    <2>3. \A k \in Keys : status'[k] = "approved" =>
             k = ruling.key \/ (status[k] = "approved" /\ holder[k] # holder[ruling.key])
      BY <1>3, <2>1 DEF ApproveCommits, Becomes, Having
    <2> QED
      BY <2>1, <2>2, <2>3 DEF OneKeyEach, Usable
  <1>4. CASE RefuseCommits
    <2>1. \A k \in Keys : status'[k] \in Usable => status'[k] = status[k]
      BY <1>4 DEF RefuseCommits, Usable, IInv, KeysTypeOK
    <2>2. holder' = holder
      BY <1>4 DEF RefuseCommits
    <2> QED
      BY <2>1, <2>2 DEF OneKeyEach
  <1>5. CASE TeardownCommits
    <2>1. \A k \in Keys : status'[k] \in Usable => status'[k] = status[k]
      BY <1>5 DEF TeardownCommits, Becomes, Usable
    <2>2. holder' = holder
      BY <1>5 DEF TeardownCommits
    <2> QED
      BY <2>1, <2>2 DEF OneKeyEach
  <1> QED
    BY <1>1, <1>2, <1>3, <1>4, <1>5 DEF KeysNext

(* No interleaving of proposals and decisions gives an identity two keys   *)
(* to sign with, or two proposals to rule on.                              *)
THEOREM KeysAreOne == KeysSpec => []OneKeyEach
  <1>1. KeysInit => OneKeyEach
    BY DEF KeysInit, OneKeyEach, Usable
  <1> QED
    BY <1>1, OneKeyStep, Invariant, PTL DEF KeysSpec
=============================================================================
