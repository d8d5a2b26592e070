-------------------------- MODULE Reminders_proofs --------------------------
(***************************************************************************)
(* Proofs about Reminders, for any reminders, requests, scan limits and    *)
(* faults.  What the scan counts, and what it leaves in firing, follows    *)
(* from what ties the three places a fire is known in: the row, the scan   *)
(* that awaits it and the request on the wire.                             *)
(***************************************************************************)
EXTENDS Reminders, TLAPS

(* A fire that is counted is a message at the hub, for every slot up to    *)
(* the current one: no timeout, lost answer, crash or retry lets the       *)
(* schedule run ahead of what was sent (scheduler.ts advanceDue).          *)
CountedFiresArrived == \A i \in Ids : \A n \in 0..(count[i] - 1) : <<i, n>> \in accepted

(* A row that can still fire has counted the slots it has used. *)
CountIsSlot ==
    \A i \in Ids : status[i] \in {"absent", "active", "firing"} => count[i] = slot[i]

(* What the scan awaits is a row that says so, and the one request whose   *)
(* answer anybody waits for; an answer says what the hub did.              *)
AwaitMatches ==
    /\ firing # NoFire => status[firing] = "firing"
    /\ \A r \in wire : r.awaited => firing # NoFire /\ reply = "none" /\ r.key = FireKey(firing)
    /\ reply = "ok" => firing # NoFire /\ FireKey(firing) \in accepted

DownIsIdle == ~up => firing = NoFire /\ left = {}

(* A row left in firing by a running daemon had its key taken. *)
LeftByKey ==
    \A i \in Ids : up /\ status[i] = "firing" /\ firing # i =>
        \E j \in Ids \ {i} : SameKey(i, j) /\ status[j] # "absent"

IInv ==
    /\ RemindersTypeOK
    /\ CountIsSlot
    /\ AwaitMatches
    /\ DownIsIdle
    /\ LeftByKey
    /\ CountedFiresArrived

USE NoFireAssumption

LEMMA TypesAreThree == RemindersTypeOK => \A i \in Ids : Type(i) \in Types
  BY RequestAssumption DEF RemindersTypeOK, Type

LEMMA StaleType ==
    \A r \in [key : Ids \X Nat, awaited : BOOLEAN] :
        /\ Stale(r) \in [key : Ids \X Nat, awaited : BOOLEAN]
        /\ ~Stale(r).awaited
  BY DEF Stale

LEMMA Initially == RemindersInit => IInv
  <1> SUFFICES ASSUME RemindersInit PROVE IInv
    OBVIOUS
  <1>1. RemindersTypeOK
    BY DEF RemindersInit, RemindersTypeOK
  <1>2. CountIsSlot /\ AwaitMatches /\ DownIsIdle
    BY DEF RemindersInit, CountIsSlot, AwaitMatches, DownIsIdle
  <1>3. LeftByKey
    BY DEF RemindersInit, LeftByKey
  <1>4. CountedFiresArrived
    BY DEF RemindersInit, CountedFiresArrived
  <1> QED
    BY <1>1, <1>2, <1>3, <1>4 DEF IInv

(* The other processes and the clock. *)
LEMMA OthersKeep ==
    ASSUME IInv, NEW i \in Ids,
           \/ Schedule(i) \/ Cancel(i) \/ SlotArrives(i) \/ GrowsLate(i)
           \/ \E d \in {"replay", "skip"} : Decide(i, d)
    PROVE  IInv'
  <1>1. CASE Schedule(i)
    <2>1. RemindersTypeOK' /\ CountIsSlot' /\ AwaitMatches' /\ DownIsIdle' /\ CountedFiresArrived'
      BY <1>1 DEF Schedule, due, hold, scan, IInv, RemindersTypeOK, CountIsSlot, AwaitMatches,
                  DownIsIdle, CountedFiresArrived, FireKey
    <2>2. LeftByKey'
      BY <1>1 DEF Schedule, scan, IInv, RemindersTypeOK, LeftByKey, SameKey
    <2> QED
      BY <2>1, <2>2 DEF IInv
  <1>2. CASE Cancel(i)
    <2>1. RemindersTypeOK' /\ CountIsSlot' /\ AwaitMatches' /\ DownIsIdle' /\ CountedFiresArrived'
      BY <1>2 DEF Cancel, Leaves, scan, IInv, RemindersTypeOK, CountIsSlot, AwaitMatches,
                  DownIsIdle, CountedFiresArrived, FireKey
    <2>2. LeftByKey'
      BY <1>2 DEF Cancel, scan, IInv, RemindersTypeOK, LeftByKey, SameKey
    <2> QED
      BY <2>1, <2>2 DEF IInv
  <1>3. CASE SlotArrives(i) \/ GrowsLate(i) \/ \E d \in {"replay", "skip"} : Decide(i, d)
    <2>1. RemindersTypeOK'
      BY <1>3 DEF SlotArrives, GrowsLate, Decide, row, due, hold, scan, IInv, RemindersTypeOK
    <2>2. CountIsSlot' /\ AwaitMatches' /\ DownIsIdle' /\ CountedFiresArrived' /\ LeftByKey'
      BY <1>3 DEF SlotArrives, GrowsLate, Decide, row, due, hold, scan, IInv, CountIsSlot,
                  AwaitMatches, DownIsIdle, CountedFiresArrived, LeftByKey, FireKey, SameKey
    <2> QED
      BY <2>1, <2>2 DEF IInv
  <1> QED
    BY <1>1, <1>2, <1>3

(* The connection. *)
LEMMA ConnectionKeeps ==
    ASSUME IInv, HubRegisters \/ Disconnect \/ Timeout
    PROVE  IInv'
  <1>1. CASE HubRegisters
    BY <1>1 DEF HubRegisters, row, due, hold, scan, IInv, RemindersTypeOK, CountIsSlot, AwaitMatches,
                DownIsIdle, CountedFiresArrived, LeftByKey, FireKey, SameKey
  <1>2. CASE Disconnect \/ Timeout
    <2>1. /\ wire' \subseteq [key : Ids \X Nat, awaited : BOOLEAN]
          /\ \A r \in wire' : ~r.awaited
      BY <1>2, StaleType DEF Disconnect, Timeout, GiveUp, IInv, RemindersTypeOK
    <2>2. RemindersTypeOK' /\ AwaitMatches'
      BY <1>2, <2>1 DEF Disconnect, Timeout, GiveUp, row, due, hold, IInv, RemindersTypeOK,
                        AwaitMatches, FireKey
    <2>3. CountIsSlot' /\ DownIsIdle' /\ CountedFiresArrived' /\ LeftByKey'
      BY <1>2 DEF Disconnect, Timeout, row, IInv, CountIsSlot, DownIsIdle,
                  CountedFiresArrived, LeftByKey, SameKey
    <2> QED
      BY <2>2, <2>3 DEF IInv
  <1> QED
    BY <1>1, <1>2

(* Of two requests somebody awaits, both are the same. *)
LEMMA OneAwaited ==
    ASSUME IInv, NEW r \in wire, NEW q \in wire, r.awaited, q.awaited
    PROVE  r = q
  <1>1. r \in [key : Ids \X Nat, awaited : BOOLEAN] /\ q \in [key : Ids \X Nat, awaited : BOOLEAN]
    BY DEF IInv, RemindersTypeOK
  <1>2. r.key = q.key /\ r.awaited = q.awaited
    BY <1>1 DEF IInv, AwaitMatches
  <1> QED
    BY <1>1, <1>2

(* The hub's answers. *)
LEMMA HubKeeps ==
    ASSUME IInv, NEW r \in wire, HubAccepts(r) \/ HubConflicts(r) \/ HubRefuses(r)
    PROVE  IInv'
  <1>1. PICK a \in {"ok", "error"} :
           /\ Answers(r, a)
           /\ accepted \subseteq accepted' /\ accepted' \subseteq Ids \X Nat
           /\ a = "ok" => r.key \in accepted'
    <2>1. r.key \in Ids \X Nat /\ accepted \subseteq Ids \X Nat
      BY DEF IInv, RemindersTypeOK
    <2> QED
      BY <2>1 DEF HubAccepts, HubConflicts, HubRefuses
  <1>2. RemindersTypeOK'
    BY <1>1 DEF Answers, row, due, hold, IInv, RemindersTypeOK
  <1>3. AwaitMatches'
    <2>1. \A q \in wire' : ~q.awaited \/ ~r.awaited
      BY <1>1, OneAwaited DEF Answers
    <2>2. CASE r.awaited
      BY <1>1, <2>1, <2>2 DEF Answers, row, IInv, AwaitMatches, FireKey
    <2>3. CASE ~r.awaited
      BY <1>1, <2>3 DEF Answers, row, IInv, AwaitMatches, FireKey
    <2> QED
      BY <2>2, <2>3
  <1>4. CountIsSlot' /\ DownIsIdle' /\ CountedFiresArrived' /\ LeftByKey'
    BY <1>1 DEF Answers, row, IInv, CountIsSlot, DownIsIdle, CountedFiresArrived,
                LeftByKey, SameKey
  <1> QED
    BY <1>2, <1>3, <1>4 DEF IInv

(* The scan, up to the next await. *)
LEMMA ScanKeeps == IInv /\ Scan => IInv'
  <1> SUFFICES ASSUME IInv, Scan PROVE IInv'
    OBVIOUS
  <1>1. left' \subseteq [id : Ids, late : BOOLEAN]
    BY DEF Scan
  <1> QED
    BY <1>1 DEF Scan, row, due, hold, IInv, RemindersTypeOK, CountIsSlot, AwaitMatches,
                DownIsIdle, CountedFiresArrived, LeftByKey, FireKey, SameKey

LEMMA TakeKeeps ==
    ASSUME IInv, NEW r \in left, HoldRow(r) \/ SkipRow(r) \/ ClaimRow(r)
    PROVE  IInv'
  <1>1. /\ r.id \in Ids /\ firing = NoFire /\ left' \subseteq left /\ left # {}
        /\ left' \subseteq [id : Ids, late : BOOLEAN]
    BY DEF HoldRow, SkipRow, ClaimRow, Takes, InTurn, IInv, RemindersTypeOK
  <1>2. CASE HoldRow(r) \/ SkipRow(r)
    <2>1. RemindersTypeOK'
      BY <1>1, <1>2 DEF HoldRow, SkipRow, row, due, hold, IInv, RemindersTypeOK
    <2>2. CountIsSlot' /\ AwaitMatches' /\ DownIsIdle' /\ CountedFiresArrived' /\ LeftByKey'
      BY <1>1, <1>2 DEF HoldRow, SkipRow, row, IInv, CountIsSlot, AwaitMatches,
                        DownIsIdle, CountedFiresArrived, LeftByKey, FireKey, SameKey
    <2> QED
      BY <2>1, <2>2 DEF IInv
  <1>3. CASE ClaimRow(r)
    <2>1. FireKey(r.id) \in Ids \X Nat
      BY <1>1 DEF FireKey, IInv, RemindersTypeOK
    <2>2. RemindersTypeOK'
      <3>1. wire' \subseteq [key : Ids \X Nat, awaited : BOOLEAN]
        <4>1. [key |-> FireKey(r.id), awaited |-> TRUE] \in [key : Ids \X Nat, awaited : BOOLEAN]
          BY <2>1
        <4>2. wire' \subseteq wire \union {[key |-> FireKey(r.id), awaited |-> TRUE]}
          BY <1>3 DEF ClaimRow
        <4> QED
          BY <4>1, <4>2 DEF IInv, RemindersTypeOK
      <3>2. status' = [status EXCEPT ![r.id] = "firing"] /\ firing' = r.id
            /\ reply' \in {"none", "error"}
        BY <1>3 DEF ClaimRow
      <3> QED
        BY <1>1, <1>3, <3>1, <3>2 DEF ClaimRow, due, hold, IInv, RemindersTypeOK
    <2>3. AwaitMatches'
      BY <1>1, <1>3 DEF ClaimRow, IInv, RemindersTypeOK, AwaitMatches, FireKey
    <2>4. CountIsSlot' /\ DownIsIdle' /\ CountedFiresArrived'
      BY <1>1, <1>3 DEF ClaimRow, IInv, RemindersTypeOK, CountIsSlot, DownIsIdle, CountedFiresArrived
    <2>5. LeftByKey'
      BY <1>1, <1>3 DEF ClaimRow, IInv, RemindersTypeOK, LeftByKey, SameKey
    <2> QED
      BY <2>2, <2>3, <2>4, <2>5 DEF IInv
  <1> QED
    BY <1>2, <1>3

(* What an answer, or its absence, does to the row. *)
LEMMA SettleKeeps ==
    ASSUME IInv, Answered \/ Failed
    PROVE  IInv'
  <1> DEFINE i == firing
  <1>1. /\ i \in Ids /\ status[i] = "firing" /\ count[i] = slot[i]
        /\ firing' = NoFire /\ reply' = "none" /\ reply # "none"
        /\ \A q \in wire : ~q.awaited
    BY DEF Answered, Failed, Resume, IInv, RemindersTypeOK, AwaitMatches, CountIsSlot
  <1>2. CASE Answered /\ (Complete(i) \/ Advance(i))
    <2>1. <<i, slot[i]>> \in accepted
      BY <1>2 DEF Answered, IInv, AwaitMatches, FireKey
    <2>2. status' = [status EXCEPT ![i] = status'[i]] /\ status'[i] \in {"fired", "active"}
      BY <1>1, <1>2 DEF Complete, Advance, IInv, RemindersTypeOK
    <2>3. RemindersTypeOK'
      BY <1>1, <1>2, <2>2 DEF Answered, Complete, Advance, Resume, Leaves, hold, IInv, RemindersTypeOK
    <2>4. CountIsSlot'
      BY <1>1, <1>2, <2>2 DEF Complete, Advance, IInv, RemindersTypeOK, CountIsSlot
    <2>5. CountedFiresArrived'
      <3>1. ASSUME NEW j \in Ids, NEW n \in 0..(count'[j] - 1)
            PROVE  <<j, n>> \in accepted
        <4>1. CASE j = i
          <5>1. count'[i] = slot[i] + 1
            BY <1>1, <1>2 DEF Complete, Advance, IInv, RemindersTypeOK
          <5>2. n = slot[i] \/ n \in 0..(count[i] - 1)
            BY <1>1, <4>1, <5>1 DEF IInv, RemindersTypeOK
          <5> QED
            BY <2>1, <4>1, <5>2 DEF IInv, CountedFiresArrived
        <4>2. CASE j # i
          <5>1. count'[j] = count[j]
            BY <1>2, <4>2 DEF Complete, Advance, IInv, RemindersTypeOK
          <5> QED
            BY <5>1 DEF IInv, CountedFiresArrived
        <4> QED
          BY <4>1, <4>2
      <3>2. accepted' = accepted
        BY <1>2 DEF Answered, Resume
      <3> QED
        BY <3>1, <3>2 DEF CountedFiresArrived
    <2>6. AwaitMatches' /\ DownIsIdle'
      BY <1>1, <1>2 DEF Answered, Resume, IInv, AwaitMatches, DownIsIdle
    <2>7. LeftByKey'
      BY <1>1, <1>2, <2>2 DEF Answered, Resume, IInv, RemindersTypeOK, LeftByKey, SameKey
    <2> QED
      BY <2>3, <2>4, <2>5, <2>6, <2>7 DEF IInv
  <1>3. CASE (Answered /\ Dies(i)) \/ Failed
    <2>1. /\ status' = [status EXCEPT ![i] = status'[i]] /\ status'[i] \in {"dead", "active"}
          /\ slot' = slot /\ count' = count
      BY <1>1, <1>3 DEF Dies, Failed, IInv, RemindersTypeOK
    <2>2. RemindersTypeOK'
      BY <1>1, <1>3, <2>1 DEF Answered, Dies, Failed, Resume, Leaves, due, hold, IInv, RemindersTypeOK
    <2>3. CountIsSlot' /\ CountedFiresArrived'
      BY <1>1, <1>3, <2>1 DEF Answered, Failed, Resume, IInv, RemindersTypeOK, CountIsSlot,
                              CountedFiresArrived
    <2>4. AwaitMatches' /\ DownIsIdle'
      BY <1>1, <1>3 DEF Answered, Failed, Resume, IInv, AwaitMatches, DownIsIdle
    <2>5. LeftByKey'
      <3>1. \A j \in Ids :
               /\ status'[j] = "firing" => j # i /\ status[j] = "firing"
               /\ status[j] # "absent" => status'[j] # "absent"
        BY <1>1, <2>1 DEF IInv, RemindersTypeOK
      <3>2. up' = up /\ request' = request
        BY <1>3 DEF Answered, Failed, Resume
      <3> SUFFICES ASSUME NEW j \in Ids, up', status'[j] = "firing"
                   PROVE  \E k \in Ids \ {j} : SameKey(j, k)' /\ status'[k] # "absent"
        BY DEF LeftByKey
      <3>3. PICK k \in Ids \ {j} : SameKey(j, k) /\ status[k] # "absent"
        BY <3>1, <3>2 DEF IInv, LeftByKey
      <3> QED
        BY <3>1, <3>2, <3>3 DEF SameKey
    <2> QED
      BY <2>2, <2>3, <2>4, <2>5 DEF IInv
  <1> QED
    BY <1>2, <1>3 DEF Answered

(* The UPDATE that throws, a crash, and a restart. *)
LEMMA ThrowsKeeps == IInv /\ Throws => IInv'
  <1> SUFFICES ASSUME IInv, Throws PROVE IInv'
    OBVIOUS
  <1>1. reply # "none" /\ \A q \in wire : ~q.awaited
    BY DEF Throws, IInv, AwaitMatches
  <1>2. RemindersTypeOK' /\ CountIsSlot' /\ AwaitMatches' /\ DownIsIdle' /\ CountedFiresArrived'
    BY <1>1 DEF Throws, row, due, hold, IInv, RemindersTypeOK, CountIsSlot, AwaitMatches,
                DownIsIdle, CountedFiresArrived
  <1>3. LeftByKey'
    BY DEF Throws, Taken, row, IInv, RemindersTypeOK, LeftByKey, DownIsIdle, SameKey
  <1> QED
    BY <1>2, <1>3 DEF IInv

LEMMA CrashKeeps == IInv /\ Crash => IInv'
  <1> SUFFICES ASSUME IInv, Crash PROVE IInv'
    OBVIOUS
  <1>1. /\ wire' \subseteq [key : Ids \X Nat, awaited : BOOLEAN]
        /\ \A r \in wire' : ~r.awaited
    BY StaleType DEF Crash, IInv, RemindersTypeOK
  <1> QED
    BY <1>1 DEF Crash, row, due, hold, IInv, RemindersTypeOK, CountIsSlot, AwaitMatches, DownIsIdle,
                CountedFiresArrived, LeftByKey

LEMMA BootKeeps == IInv /\ Boot => IInv'
  <1> SUFFICES ASSUME IInv, Boot PROVE IInv'
    OBVIOUS
  <1>1. firing = NoFire
    BY DEF Boot, IInv, DownIsIdle
  <1>2. \A i \in Ids : status'[i] = IF status[i] = "firing" THEN "active" ELSE status[i]
    BY DEF Boot, Stuck
  <1>3. RemindersTypeOK'
    BY <1>2 DEF Boot, due, hold, scan, IInv, RemindersTypeOK
  <1> QED
    BY <1>1, <1>2, <1>3 DEF Boot, due, hold, scan, IInv, CountIsSlot, AwaitMatches,
                DownIsIdle, CountedFiresArrived, LeftByKey, FireKey

LEMMA StepKeeps == IInv /\ [RemindersNext]_remindersVars => IInv'
  <1> SUFFICES ASSUME IInv, [RemindersNext]_remindersVars PROVE IInv'
    OBVIOUS
  <1>1. ASSUME NEW i \in Ids,
               \/ Schedule(i) \/ Cancel(i) \/ SlotArrives(i) \/ GrowsLate(i)
               \/ \E d \in {"replay", "skip"} : Decide(i, d)
        PROVE  IInv'
    BY <1>1, OthersKeep
  <1>2. CASE HubRegisters \/ Disconnect \/ Timeout
    BY <1>2, ConnectionKeeps
  <1>3. ASSUME NEW r \in wire, HubAccepts(r) \/ HubConflicts(r) \/ HubRefuses(r)
        PROVE  IInv'
    BY <1>3, HubKeeps
  <1>4. CASE Scan
    BY <1>4, ScanKeeps
  <1>5. CASE Take
    BY <1>5, TakeKeeps DEF Take
  <1>6. CASE Settle
    BY <1>6, SettleKeeps, ThrowsKeeps DEF Settle
  <1>7. CASE Crash \/ Boot
    BY <1>7, CrashKeeps, BootKeeps
  <1>8. CASE UNCHANGED remindersVars
    BY <1>8 DEF remindersVars, row, due, hold, scan, IInv, RemindersTypeOK, CountIsSlot, AwaitMatches,
                DownIsIdle, CountedFiresArrived, LeftByKey, FireKey, SameKey
  <1> QED
    BY <1>1, <1>2, <1>3, <1>4, <1>5, <1>6, <1>7, <1>8 DEF RemindersNext

(* Every variable keeps its type. *)
THEOREM TypeCorrect == RemindersSpec => []RemindersTypeOK
  <1>1. IInv => RemindersTypeOK
    BY DEF IInv
  <1> QED
    BY <1>1, Initially, StepKeeps, PTL DEF RemindersSpec

(* No timeout, lost answer, crash or retry lets a schedule run ahead of    *)
(* what the hub has.                                                       *)
THEOREM CountedAreSent == RemindersSpec => []CountedFiresArrived
  <1>1. IInv => CountedFiresArrived
    BY DEF IInv
  <1> QED
    BY <1>1, Initially, StepKeeps, PTL DEF RemindersSpec

(* A row is out of the daemon's reach only where a key was scheduled again.*)
THEOREM AbandonedOnlyByKey == RemindersSpec => []AbandonedByKey
  <1>1. IInv => AbandonedByKey
    <2> SUFFICES ASSUME IInv, NEW i \in Ids, Abandoned(i)
                 PROVE  \E a \in Stuck : \E j \in Ids \ {a} : SameKey(a, j) /\ status[j] # "absent"
      BY DEF AbandonedByKey
    <2>1. CASE up
      BY <2>1 DEF IInv, LeftByKey, Abandoned, Stuck
    <2>2. CASE ~Recoverable
      <3>1. PICK a \in Stuck : Taken(a) \/ \E j \in Stuck \ {a} : SameKey(a, j)
        BY <2>2 DEF Recoverable
      <3> QED
        BY <3>1 DEF Taken, Stuck
    <2> QED
      BY <2>1, <2>2 DEF Abandoned
  <1> QED
    BY <1>1, Initially, StepKeeps, PTL DEF RemindersSpec

(* A cancel is final: no step of any process undoes it or sends for it. *)
THEOREM CancelStands == RemindersSpec => CancelIsFinal
  <1> DEFINE Kept(i) == status[i] = "cancelled" =>
                 /\ status'[i] = "cancelled"
                 /\ \A r \in wire' : r.awaited /\ r.key[1] = i => r \in wire
  <1>1. ASSUME IInv, [RemindersNext]_remindersVars, NEW i \in Ids, status[i] = "cancelled"
        PROVE  Kept(i)
    <2>1. CASE \E j \in Ids :
                  \/ Schedule(j) \/ Cancel(j) \/ SlotArrives(j) \/ GrowsLate(j)
                  \/ \E d \in {"replay", "skip"} : Decide(j, d)
      BY <1>1, <2>1 DEF Schedule, Cancel, SlotArrives, GrowsLate, Decide, row, IInv, RemindersTypeOK
    <2>2. CASE HubRegisters \/ Scan \/ UNCHANGED remindersVars \/ Boot \/ Throws
      BY <1>1, <2>2 DEF HubRegisters, Scan, Boot, Throws, Stuck, remindersVars, row, IInv, RemindersTypeOK
    <2>3. CASE Disconnect \/ Timeout \/ Crash
      <3>1. \A r \in wire' : ~r.awaited
        BY <1>1, <2>3, StaleType DEF Disconnect, Timeout, Crash, GiveUp, IInv, RemindersTypeOK
      <3> QED
        BY <1>1, <2>3, <3>1 DEF Disconnect, Timeout, Crash, row
    <2>4. CASE \E r \in wire : HubAccepts(r) \/ HubConflicts(r) \/ HubRefuses(r)
      BY <1>1, <2>4 DEF HubAccepts, HubConflicts, HubRefuses, Answers, row
    <2>5. CASE Take
      <3>1. PICK r \in left : HoldRow(r) \/ SkipRow(r) \/ ClaimRow(r)
        BY <2>5 DEF Take
      <3>2. CASE HoldRow(r) \/ SkipRow(r)
        BY <1>1, <3>2 DEF HoldRow, SkipRow, row
      <3>3. CASE ClaimRow(r)
        BY <1>1, <3>3 DEF ClaimRow, FireKey, IInv, RemindersTypeOK
      <3> QED
        BY <3>1, <3>2, <3>3
    <2>6. CASE Answered \/ Failed
      <3>1. firing \in Ids /\ status[firing] = "firing"
        BY <1>1, <2>6 DEF Answered, Failed, IInv, RemindersTypeOK, AwaitMatches
      <3> QED
        BY <1>1, <2>6, <3>1 DEF Answered, Failed, Complete, Advance, Dies, Resume, IInv, RemindersTypeOK
    <2> QED
      BY <1>1, <2>1, <2>2, <2>3, <2>4, <2>5, <2>6 DEF RemindersNext, Settle
  <1>2. IInv /\ [RemindersNext]_remindersVars => [\A i \in Ids : Kept(i)]_remindersVars
    BY <1>1
  <1> QED
    BY <1>2, Initially, StepKeeps, PTL DEF RemindersSpec, CancelIsFinal
----------------------------------------------------------------------------
(* What the three theorems below add: where the finding on stuck rows      *)
(* ends, how far the hub can be ahead of the rows, and what a hold holds.  *)

(* No caller asks for two reminders under one key. *)
KeysDistinct(q) ==
    \A i \in Ids : \A j \in Ids \ {i} :
        q[i].key = NoKey \/ q[i].key # q[j].key \/ q[i].owner # q[j].owner

(* No row is ever left in firing where callers do not reuse a key: a second*)
(* reminder under the key of a first is the only way.                      *)
THEOREM DistinctKeysAwaited ==
    ASSUME \A q \in Requests : KeysDistinct(q)
    PROVE  RemindersSpec => []FiringIsAwaited
  <1>1. RemindersTypeOK /\ AbandonedByKey => FiringIsAwaited
    BY DEF RemindersTypeOK, AbandonedByKey, FiringIsAwaited, Stuck, SameKey, KeysDistinct
  <1> QED
    BY <1>1, TypeCorrect, AbandonedOnlyByKey, PTL

(* Of a reminder the hub has accepted the fires its row has counted, and   *)
(* at most the next: no retry or late request runs further ahead           *)
(* (scheduler.ts, fireKey and advanceDue).                                 *)
HubAtMostOneAhead == \A a \in accepted : a[2] <= count[a[1]]

(* A row has counted at least the slots it left behind, and nothing is     *)
(* sent or accepted for a slot that has not come.                          *)
SlotsBehind ==
    /\ \A i \in Ids : slot[i] <= count[i]
    /\ \A r \in wire : r.key[2] <= slot[r.key[1]]
    /\ \A a \in accepted : a[2] <= slot[a[1]]

(* A step uses up at most the slot of one fire, which it also counts, and  *)
(* sends or accepts no fire of another slot than its row's.                *)
SlotsUsed ==
    \A i \in Ids : \/ slot'[i] = slot[i] /\ count'[i] \in {count[i], count[i] + 1}
                   \/ slot'[i] = slot[i] + 1 /\ count'[i] = count[i] + 1
OwnSlotsSent ==
    \A r \in wire' : (\E q \in wire : q.key = r.key) \/ \E i \in Ids : r.key = FireKey(i)
OnlySentAccepted == \A a \in accepted' : a \in accepted \/ \E q \in wire : q.key = a

LEMMA SlotStep ==
    ASSUME RemindersTypeOK, [RemindersNext]_remindersVars
    PROVE  SlotsUsed /\ OwnSlotsSent /\ OnlySentAccepted
  <1>a. UNCHANGED <<slot, count>> => SlotsUsed
    BY DEF SlotsUsed
  <1>b. UNCHANGED wire => OwnSlotsSent
    BY DEF OwnSlotsSent
  <1>c. UNCHANGED accepted => OnlySentAccepted
    BY DEF OnlySentAccepted
  <1>1. ASSUME NEW i \in Ids,
               \/ Schedule(i) \/ Cancel(i) \/ SlotArrives(i) \/ GrowsLate(i)
               \/ \E d \in {"replay", "skip"} : Decide(i, d)
        PROVE  SlotsUsed /\ OwnSlotsSent /\ OnlySentAccepted
    BY <1>1, <1>a, <1>b, <1>c DEF Schedule, Cancel, SlotArrives, GrowsLate, Decide, row
  <1>2. CASE HubRegisters \/ Scan \/ Boot \/ Throws \/ UNCHANGED remindersVars
    BY <1>2, <1>a, <1>b, <1>c DEF HubRegisters, Scan, Boot, Throws, remindersVars, row
  <1>3. CASE Disconnect \/ Timeout \/ Crash
    <2>1. wire' = {Stale(r) : r \in wire} /\ UNCHANGED <<slot, count, accepted>>
      BY <1>3 DEF Disconnect, Timeout, Crash, GiveUp, row
    <2>2. \A r \in wire : Stale(r).key = r.key
      BY DEF Stale, RemindersTypeOK
    <2>3. OwnSlotsSent
      BY <2>1, <2>2 DEF OwnSlotsSent
    <2> QED
      BY <1>a, <1>c, <2>1, <2>3
  <1>4. ASSUME NEW r \in wire, HubAccepts(r) \/ HubConflicts(r) \/ HubRefuses(r)
        PROVE  SlotsUsed /\ OwnSlotsSent /\ OnlySentAccepted
    <2>1. wire' = wire \ {r} /\ UNCHANGED <<slot, count>> /\ accepted' \subseteq accepted \union {r.key}
      BY <1>4 DEF HubAccepts, HubConflicts, HubRefuses, Answers, row
    <2> QED
      BY <1>a, <2>1 DEF OwnSlotsSent, OnlySentAccepted
  <1>5. ASSUME NEW r \in left, HoldRow(r) \/ SkipRow(r) \/ ClaimRow(r)
        PROVE  SlotsUsed /\ OwnSlotsSent /\ OnlySentAccepted
    <2>1. UNCHANGED <<slot, count, accepted>> /\ r.id \in Ids
      BY <1>5 DEF HoldRow, SkipRow, ClaimRow, row, RemindersTypeOK
    <2>2. wire' \subseteq wire \union {[key |-> FireKey(r.id), awaited |-> TRUE]}
      BY <1>5 DEF HoldRow, SkipRow, ClaimRow
    <2>3. OwnSlotsSent
      BY <2>1, <2>2 DEF OwnSlotsSent
    <2> QED
      BY <1>a, <1>c, <2>1, <2>3
  <1>6. CASE Answered \/ Failed
    <2>1. UNCHANGED <<wire, accepted>> /\ firing \in Ids
      BY <1>6 DEF Answered, Failed, Resume, RemindersTypeOK
    <2>2. SlotsUsed
      BY <1>6, <2>1 DEF Answered, Failed, Complete, Advance, Dies, RemindersTypeOK, SlotsUsed
    <2> QED
      BY <1>b, <1>c, <2>1, <2>2
  <1> QED
    BY <1>1, <1>2, <1>3, <1>4, <1>5, <1>6 DEF RemindersNext, Take, Settle

LEMMA SlotsStayBehind ==
    ASSUME RemindersTypeOK, SlotsBehind, [RemindersNext]_remindersVars
    PROVE  SlotsBehind'
  <1>1. ASSUME NEW i \in Ids
        PROVE  slot[i] \in Nat /\ count[i] \in Nat /\ slot[i] <= slot'[i] /\ slot'[i] <= count'[i]
    BY SlotStep DEF RemindersTypeOK, SlotsBehind, SlotsUsed
  <1>2. ASSUME NEW i \in Ids, NEW n \in Nat, n <= slot[i]
        PROVE  n <= slot'[i]
    BY <1>1, <1>2, SlotStep DEF RemindersTypeOK, SlotsUsed
  <1>3. ASSUME NEW q \in wire
        PROVE  q.key[1] \in Ids /\ q.key[2] \in Nat /\ q.key[2] <= slot'[q.key[1]]
    BY <1>2 DEF RemindersTypeOK, SlotsBehind
  <1>4. ASSUME NEW r \in wire'
        PROVE  r.key[2] <= slot'[r.key[1]]
    <2>1. CASE \E q \in wire : q.key = r.key
      BY <1>3, <2>1
    <2>2. ASSUME NEW i \in Ids, r.key = FireKey(i)
          PROVE  r.key[2] <= slot'[r.key[1]]
      BY <1>1, <2>2 DEF FireKey
    <2> QED
      BY <1>4, <2>1, <2>2, SlotStep DEF OwnSlotsSent
  <1>5. ASSUME NEW a \in accepted'
        PROVE  a[2] <= slot'[a[1]]
    <2>1. CASE a \in accepted
      BY <1>2, <2>1 DEF RemindersTypeOK, SlotsBehind
    <2>2. CASE \E q \in wire : q.key = a
      BY <1>3, <2>2
    <2> QED
      BY <1>5, <2>1, <2>2, SlotStep DEF OnlySentAccepted
  <1> QED
    BY <1>1, <1>4, <1>5 DEF SlotsBehind

(* With CountedFiresArrived: what the hub has is what was counted, or one  *)
(* more, through every timeout, crash and retry.                           *)
THEOREM HubNeverFarAhead == RemindersSpec => []HubAtMostOneAhead
  <1>1. RemindersInit => SlotsBehind
    BY DEF RemindersInit, SlotsBehind
  <1>2. RemindersTypeOK /\ SlotsBehind => HubAtMostOneAhead
    <2> SUFFICES ASSUME RemindersTypeOK, SlotsBehind, NEW a \in accepted
                 PROVE  a[2] <= count[a[1]]
      BY DEF HubAtMostOneAhead
    <2>1. a[1] \in Ids /\ a[2] \in Nat /\ slot[a[1]] \in Nat /\ count[a[1]] \in Nat
      BY DEF RemindersTypeOK
    <2> QED
      BY <2>1 DEF SlotsBehind
  <1> QED
    BY <1>1, <1>2, TypeCorrect, SlotsStayBehind, PTL DEF RemindersSpec
----------------------------------------------------------------------------
(* A one-shot held as overdue is not sent until the operator decides to    *)
(* replay it, whatever is restarted, retried or scanned again meanwhile    *)
(* (scheduler.ts, shouldHoldOverdue).                                      *)
HeldIsSilent ==
    [][\A i \in Ids : i \in held /\ decision[i] # "replay" =>
          \A r \in wire' : r.awaited /\ r.key[1] = i => r \in wire]_remindersVars

(* A row the scan found late is a one-shot, and late for as long as it can *)
(* still fire.                                                             *)
LateOnce(i) ==
    /\ Type(i) = "once" /\ status[i] # "absent"
    /\ status[i] \in {"active", "firing"} => i \in late

HeldIsLate ==
    /\ \A i \in late : Type(i) = "once"
    /\ \A i \in held : LateOnce(i)
    /\ \A r \in left : r.late => LateOnce(r.id)
    /\ \A r \in left : r.id \in held => r.late
    /\ \A r, q \in left : r.id = q.id => r = q

(* What makes a row be a late one is not undone. *)
LEMMA LateStays ==
    ASSUME IInv, HeldIsLate, [RemindersNext]_remindersVars, NEW i \in Ids, LateOnce(i)
    PROVE  LateOnce(i)'
  <1>0. Type(i)' = "once"
    BY DEF LateOnce, Type, RemindersNext, remindersVars, row, Schedule, Cancel, SlotArrives, GrowsLate, Decide,
           HubRegisters, Disconnect, Timeout, HubAccepts, HubConflicts, HubRefuses, Answers, Scan,
           Take, HoldRow, SkipRow, ClaimRow, Settle, Answered, Failed, Throws, Resume, Crash, Boot
  <1> DEFINE Same == UNCHANGED status /\ late \subseteq late'
             Kept == /\ status'[i] # "absent"
                     /\ status'[i] \in {"active", "firing"} =>
                            i \in late' /\ status[i] \in {"active", "firing"}
  <1>1. ASSUME NEW j \in Ids, Schedule(j) \/ Cancel(j)
        PROVE  Kept
    <2>1. CASE Schedule(j)
      BY <2>1 DEF Schedule, hold, LateOnce, IInv, RemindersTypeOK
    <2>2. CASE Cancel(j)
      BY <2>2 DEF Cancel, Leaves, LateOnce, IInv, RemindersTypeOK
    <2> QED
      BY <1>1, <2>1, <2>2
  <1>2. ASSUME NEW j \in Ids, SlotArrives(j) \/ GrowsLate(j) \/ \E d \in {"replay", "skip"} : Decide(j, d)
        PROVE  Same
    BY <1>2 DEF SlotArrives, GrowsLate, Decide, row, hold
  <1>3. ASSUME HubRegisters \/ Disconnect \/ Timeout \/ Scan \/ Throws \/ Crash \/ UNCHANGED remindersVars
        PROVE  Same
    BY <1>3 DEF HubRegisters, Disconnect, Timeout, Scan, Throws, Crash, remindersVars, row, hold
  <1>4. ASSUME NEW r \in wire, HubAccepts(r) \/ HubConflicts(r) \/ HubRefuses(r)
        PROVE  Same
    BY <1>4 DEF HubAccepts, HubConflicts, HubRefuses, Answers, row, hold
  <1>5. ASSUME NEW r \in left, HoldRow(r) \/ SkipRow(r)
        PROVE  Same
    BY <1>5 DEF HoldRow, SkipRow, row, hold
  <1>6. ASSUME NEW r \in left, ClaimRow(r)
        PROVE  Kept
    BY <1>6 DEF ClaimRow, hold, LateOnce, IInv, RemindersTypeOK
  <1>7. ASSUME Answered \/ Failed
        PROVE  Kept
    <2>1. firing \in Ids /\ status[firing] = "firing"
      BY <1>7 DEF Answered, Failed, IInv, RemindersTypeOK, AwaitMatches
    <2>2. CASE i = firing
      <3>1. Type(firing) = "once" /\ i \in late
        BY <2>1, <2>2 DEF LateOnce
      <3> QED
        BY <1>7, <2>1, <2>2, <3>1 DEF Answered, Failed, Complete, Advance, Dies, hold, IInv, RemindersTypeOK
    <2>3. CASE i # firing
      <3>1. status'[i] = status[i] /\ (i \in late => i \in late')
        BY <1>7, <2>1, <2>3 DEF Answered, Failed, Complete, Advance, Dies, Leaves, hold, IInv, RemindersTypeOK
      <3> QED
        BY <3>1 DEF LateOnce
    <2> QED
      BY <2>2, <2>3
  <1>8. ASSUME Boot
        PROVE  Kept
    BY <1>8 DEF Boot, Stuck, hold, LateOnce, IInv, RemindersTypeOK
  <1>9. Same => LateOnce(i)'
    BY <1>0 DEF LateOnce
  <1>10. Kept => LateOnce(i)'
    BY <1>0 DEF LateOnce
  <1> QED
    BY <1>1, <1>2, <1>3, <1>4, <1>5, <1>6, <1>7, <1>8, <1>9, <1>10 DEF RemindersNext, Take, Settle
(* Only a scan lists rows, only its loop holds one, and only time makes a  *)
(* row late.                                                               *)
LEMMA HoldShape ==
    ASSUME RemindersTypeOK, [RemindersNext]_remindersVars
    PROVE  /\ request' = request
           /\ \A i \in late' \ late : Type(i) = "once"
           /\ \/ held' = held /\ left' \subseteq left
              \/ held' = held /\ Scan
              \/ \E r \in left : HoldRow(r)
  <1>1. ASSUME NEW j \in Ids, \/ Schedule(j) \/ Cancel(j) \/ SlotArrives(j) \/ GrowsLate(j)
                              \/ \E d \in {"replay", "skip"} : Decide(j, d)
        PROVE  /\ UNCHANGED <<request, held, left>>
               /\ \A i \in late' \ late : Type(i) = "once"
    BY <1>1 DEF Schedule, Cancel, SlotArrives, GrowsLate, Decide, Leaves, hold, scan
  <1>2. ASSUME HubRegisters \/ Disconnect \/ Timeout \/ Throws \/ Crash \/ Boot \/ UNCHANGED remindersVars
        PROVE  UNCHANGED <<request, held, late>> /\ left' \subseteq left
    BY <1>2 DEF HubRegisters, Disconnect, Timeout, Throws, Crash, Boot, remindersVars, hold, scan
  <1>3. ASSUME NEW r \in wire, HubAccepts(r) \/ HubConflicts(r) \/ HubRefuses(r)
        PROVE  UNCHANGED <<request, held, late, left>>
    BY <1>3 DEF HubAccepts, HubConflicts, HubRefuses, Answers, hold
  <1>4. ASSUME NEW r \in left, SkipRow(r) \/ ClaimRow(r)
        PROVE  UNCHANGED <<request, held, late>> /\ left' \subseteq left
    BY <1>4 DEF SkipRow, ClaimRow, Takes, hold
  <1>5. ASSUME NEW r \in left, HoldRow(r)
        PROVE  UNCHANGED <<request, late>>
    BY <1>5 DEF HoldRow
  <1>6. ASSUME Scan
        PROVE  UNCHANGED <<request, held, late>>
    BY <1>6 DEF Scan, hold
  <1>7. ASSUME Answered \/ Failed
        PROVE  UNCHANGED <<request, held, left>> /\ late' \subseteq late
    BY <1>7 DEF Answered, Failed, Complete, Advance, Dies, Leaves, Resume
  <1> QED
    BY <1>1, <1>2, <1>3, <1>4, <1>5, <1>6, <1>7 DEF RemindersNext, Take, Settle

(* A new scan lists the late rows as late, and no row twice. *)
LEMMA ScanLists ==
    ASSUME IInv, HeldIsLate, Scan
    PROVE  /\ \A r \in left' : r.late => LateOnce(r.id)
           /\ \A r \in left' : r.id \in held => r.late
           /\ \A r, q \in left' : r.id = q.id => r = q
  <1>1. PICK S \in SUBSET {i \in Ids : Due(i)} :
           left' = [id : S \intersect late, late : {TRUE}] \union [id : S \ late, late : {FALSE}]
    BY DEF Scan
  <1>2. ASSUME NEW r \in left'
        PROVE  /\ r.id \in S /\ status[r.id] = "active"
               /\ (r.late = TRUE /\ r.id \in late) \/ (r.late = FALSE /\ r.id \notin late)
               /\ r = [id |-> r.id, late |-> r.late]
    <2>1. CASE r \in [id : S \intersect late, late : {TRUE}]
      BY <2>1 DEF Due
    <2>2. CASE r \in [id : S \ late, late : {FALSE}]
      BY <2>2 DEF Due
    <2> QED
      BY <1>1, <1>2, <2>1, <2>2
  <1>3. ASSUME NEW r \in left', r.late
        PROVE  LateOnce(r.id)
    BY <1>2, <1>3 DEF HeldIsLate, LateOnce
  <1>4. ASSUME NEW r \in left', r.id \in held
        PROVE  r.late
    BY <1>2, <1>4 DEF HeldIsLate, LateOnce
  <1>5. ASSUME NEW r \in left', NEW q \in left', r.id = q.id
        PROVE  r = q
    BY <1>2, <1>5
  <1> QED
    BY <1>3, <1>4, <1>5

LEMMA HeldStaysLate ==
    ASSUME IInv, HeldIsLate, [RemindersNext]_remindersVars
    PROVE  HeldIsLate'
  <1>1. \A i \in Ids : LateOnce(i) => LateOnce(i)'
    BY LateStays
  <1>2. /\ request' = request /\ late \subseteq Ids /\ held \subseteq Ids
        /\ \A r \in left : r.id \in Ids
    BY HoldShape DEF IInv, RemindersTypeOK
  <1>3. ASSUME NEW i \in late' PROVE Type(i)' = "once"
    BY <1>2, <1>3, HoldShape DEF IInv, HeldIsLate, Type
  <1>4. CASE held' = held /\ left' \subseteq left
    BY <1>1, <1>2, <1>3, <1>4 DEF HeldIsLate
  <1>5. CASE held' = held /\ Scan
    <2>1. \A r \in left' : r.id \in Ids
      BY <1>5, StepKeeps DEF IInv, RemindersTypeOK
    <2> QED
      BY <1>1, <1>2, <1>3, <1>5, <2>1, ScanLists DEF HeldIsLate
  <1>6. ASSUME NEW r \in left, HoldRow(r)
        PROVE  HeldIsLate'
    <2>1. left' = left \ {r} /\ held' \subseteq held \union {r.id} /\ r.late
      BY <1>6 DEF HoldRow, Takes, Holds
    <2>2. \A i \in held' : i \in Ids /\ LateOnce(i)
      BY <1>2, <2>1 DEF HeldIsLate
    <2>3. \A q \in left' : q.id # r.id
      BY <2>1 DEF HeldIsLate
    <2> QED
      BY <1>1, <1>2, <1>3, <2>1, <2>2, <2>3 DEF HeldIsLate
  <1> QED
    BY <1>4, <1>5, <1>6, HoldShape DEF IInv

(* A claim is the only step that sends, and a held row is claimed only     *)
(* when the operator said replay.                                          *)
LEMMA HeldUnsent ==
    ASSUME IInv, HeldIsLate, [RemindersNext]_remindersVars, NEW i \in Ids, i \in held, decision[i] # "replay",
           NEW r \in wire', r.awaited, r.key[1] = i
    PROVE  r \in wire
  <1>1. CASE \E j \in Ids :
                \/ Schedule(j) \/ Cancel(j) \/ SlotArrives(j) \/ GrowsLate(j)
                \/ \E d \in {"replay", "skip"} : Decide(j, d)
    BY <1>1 DEF Schedule, Cancel, SlotArrives, GrowsLate, Decide
  <1>2. CASE HubRegisters \/ Scan \/ Boot \/ Throws \/ Answered \/ Failed \/ UNCHANGED remindersVars
    BY <1>2 DEF HubRegisters, Scan, Boot, Throws, Answered, Failed, Resume, remindersVars
  <1>3. CASE Disconnect \/ Timeout \/ Crash
    BY <1>3, StaleType DEF Disconnect, Timeout, Crash, GiveUp, IInv, RemindersTypeOK
  <1>4. CASE \E q \in wire : HubAccepts(q) \/ HubConflicts(q) \/ HubRefuses(q)
    BY <1>4 DEF HubAccepts, HubConflicts, HubRefuses, Answers
  <1>5. ASSUME NEW q \in left, HoldRow(q) \/ SkipRow(q)
        PROVE  r \in wire
    BY <1>5 DEF HoldRow, SkipRow
  <1>6. ASSUME NEW q \in left, ClaimRow(q)
        PROVE  r \in wire
    <2>1. q.id # i
      BY <1>6 DEF ClaimRow, Holds, HeldIsLate
    <2>2. [key |-> FireKey(q.id), awaited |-> TRUE].key[1] = q.id
      BY DEF FireKey
    <2> QED
      BY <1>6, <2>1, <2>2 DEF ClaimRow
  <1> QED
    BY <1>1, <1>2, <1>3, <1>4, <1>5, <1>6 DEF RemindersNext, Take, Settle

(* No scan, retry or restart sends a held reminder before its replay.      *)
THEOREM HeldWaits == RemindersSpec => HeldIsSilent
  <1>1. RemindersInit => HeldIsLate
    BY DEF RemindersInit, HeldIsLate
  <1>2. IInv /\ HeldIsLate /\ [RemindersNext]_remindersVars =>
           [\A i \in Ids : i \in held /\ decision[i] # "replay" =>
               \A r \in wire' : r.awaited /\ r.key[1] = i => r \in wire]_remindersVars
    BY HeldUnsent
  <1> QED
    BY <1>1, <1>2, Initially, StepKeeps, HeldStaysLate, PTL DEF RemindersSpec, HeldIsSilent

(***************************************************************************)
(* Reminders implements ReminderPromise.  What the hub is sent is the      *)
(* fire its row has not counted yet; a row that is not asked for sends     *)
(* nothing, and one that is over has reached the hub with all it will.     *)
(***************************************************************************)
NothingLeftToSend ==
    /\ \A r \in wire : status[r.key[1]] # "absent"
    /\ \A i \in Ids : status[i] = "fired" => slot[i] < count[i]
    /\ \A i \in Ids : status[i] = "dead" => <<i, count[i]>> \in accepted

PInv == IInv /\ SlotsBehind /\ NothingLeftToSend

(* The fire that was answered is the next of its row. *)
LEMMA NextAnswered ==
    ASSUME PInv, Answered
    PROVE  /\ firing \in Ids /\ status[firing] = "firing"
           /\ count[firing] = slot[firing] /\ <<firing, count[firing]>> \in accepted
  BY DEF PInv, IInv, RemindersTypeOK, AwaitMatches, CountIsSlot, FireKey, Answered

(* So is one the hub accepts, of a row that is asked for and not over. *)
LEMMA NextAccepted ==
    ASSUME PInv, NEW r \in wire, HubAccepts(r)
    PROVE  /\ r.key[1] \in Ids /\ r.key = <<r.key[1], count[r.key[1]]>>
           /\ status[r.key[1]] \in {"active", "firing", "cancelled"}
  <1> DEFINE i == r.key[1]
             n == r.key[2]
  <1>1. i \in Ids /\ n \in Nat /\ r.key = <<i, n>> /\ slot[i] \in Nat /\ count[i] \in Nat
    BY DEF PInv, IInv, RemindersTypeOK
  <1>2. n <= slot[i] /\ slot[i] <= count[i] /\ <<i, n>> \notin accepted
    BY <1>1 DEF PInv, SlotsBehind, HubAccepts
  <1>3. n = count[i]
    <2>1. n < count[i] => n \in 0..(count[i] - 1)
      BY <1>1
    <2>2. ~(n < count[i])
      BY <1>1, <1>2, <2>1 DEF PInv, IInv, CountedFiresArrived
    <2> QED
      BY <1>1, <1>2, <2>2
  <1>4. status[i] \notin {"absent", "fired", "dead"}
    BY <1>1, <1>2, <1>3 DEF PInv, NothingLeftToSend
  <1> QED
    BY <1>1, <1>3, <1>4 DEF PInv, IInv, RemindersTypeOK

LEMMA NothingLeftStays ==
    ASSUME PInv, [RemindersNext]_remindersVars
    PROVE  NothingLeftToSend'
  <1>0. \A r \in wire : r.key[1] \in Ids
    BY DEF PInv, IInv, RemindersTypeOK
  <1>a. ASSUME UNCHANGED <<slot, count>>, accepted \subseteq accepted',
               \A i \in Ids : status'[i] \in {"absent", "fired", "dead"} => status'[i] = status[i],
               \A r \in wire' : r.key[1] \in Ids /\ status[r.key[1]] # "absent"
        PROVE  NothingLeftToSend'
    BY <1>a DEF PInv, NothingLeftToSend
  <1>1. ASSUME NEW j \in Ids,
               \/ Schedule(j) \/ Cancel(j) \/ SlotArrives(j) \/ GrowsLate(j)
               \/ \E d \in {"replay", "skip"} : Decide(j, d)
        PROVE  NothingLeftToSend'
    BY <1>0, <1>1, <1>a DEF Schedule, Cancel, SlotArrives, GrowsLate, Decide, row,
                            PInv, IInv, RemindersTypeOK, NothingLeftToSend
  <1>2. CASE HubRegisters \/ Scan \/ Throws \/ Failed \/ Boot \/ UNCHANGED remindersVars
    <2>1. UNCHANGED <<slot, count, wire, accepted>>
      BY <1>2 DEF HubRegisters, Scan, Throws, Failed, Resume, Boot, remindersVars, row
    <2>2. \A i \in Ids : status'[i] = status[i] \/ status'[i] = "active"
      BY <1>2 DEF HubRegisters, Scan, Throws, Failed, Boot, remindersVars, row, PInv, IInv, RemindersTypeOK
    <2> QED
      BY <1>0, <1>a, <2>1, <2>2 DEF PInv, NothingLeftToSend
  <1>3. CASE Disconnect \/ Timeout \/ Crash
    <2>1. wire' = {Stale(r) : r \in wire} /\ UNCHANGED <<status, slot, count, accepted>>
      BY <1>3 DEF Disconnect, Timeout, Crash, GiveUp, row
    <2>2. \A r \in wire : Stale(r).key = r.key
      BY DEF Stale, PInv, IInv, RemindersTypeOK
    <2> QED
      BY <1>0, <1>a, <2>1, <2>2 DEF PInv, NothingLeftToSend
  <1>4. ASSUME NEW r \in wire, HubAccepts(r) \/ HubConflicts(r) \/ HubRefuses(r)
        PROVE  NothingLeftToSend'
    <2>1. wire' \subseteq wire /\ UNCHANGED <<status, slot, count>> /\ accepted \subseteq accepted'
      BY <1>4 DEF HubAccepts, HubConflicts, HubRefuses, Answers, row
    <2> QED
      BY <1>0, <1>a, <2>1 DEF PInv, NothingLeftToSend
  <1>5. ASSUME NEW r \in left, HoldRow(r) \/ SkipRow(r) \/ ClaimRow(r)
        PROVE  NothingLeftToSend'
    <2>1. UNCHANGED <<slot, count, accepted>> /\ r.id \in Ids
      BY <1>5 DEF HoldRow, SkipRow, ClaimRow, row, PInv, IInv, RemindersTypeOK
    <2>2. CASE HoldRow(r) \/ SkipRow(r)
      BY <1>0, <1>a, <2>1, <2>2 DEF HoldRow, SkipRow, row, PInv, NothingLeftToSend
    <2>3. CASE ClaimRow(r)
      <3>1. /\ status' = [status EXCEPT ![r.id] = "firing"] /\ status[r.id] = "active"
            /\ wire' \subseteq wire \union {[key |-> <<r.id, slot[r.id]>>, awaited |-> TRUE]}
        BY <2>3 DEF ClaimRow, FireKey
      <3>2. \A q \in wire' : q.key[1] \in Ids /\ status[q.key[1]] # "absent"
        BY <1>0, <2>1, <3>1 DEF PInv, NothingLeftToSend
      <3> QED
        BY <1>a, <2>1, <3>1, <3>2 DEF PInv, IInv, RemindersTypeOK
    <2> QED
      BY <1>5, <2>2, <2>3
  <1>6. CASE Answered
    <2>1. firing \in Ids /\ count[firing] = slot[firing] /\ <<firing, count[firing]>> \in accepted
      BY <1>6, NextAnswered
    <2>2. UNCHANGED <<wire, accepted>> /\ (Complete(firing) \/ Advance(firing) \/ Dies(firing))
      BY <1>6 DEF Answered, Resume
    <2>3. status[firing] # "absent" /\ slot[firing] \in Nat
      BY <1>6, NextAnswered DEF PInv, IInv, RemindersTypeOK
    <2> QED
      BY <1>0, <2>1, <2>2, <2>3 DEF Complete, Advance, Dies, PInv, IInv, RemindersTypeOK, NothingLeftToSend
  <1> QED
    BY <1>1, <1>2, <1>3, <1>4, <1>5, <1>6 DEF RemindersNext, Take, Settle

(* Steps that leave the rows' stages, counts and the hub's messages alone. *)
LEMMA Unpromised ==
    ASSUME UNCHANGED <<request, count, accepted>>,
           \A i \in Ids : StageOf[status'[i]] = StageOf[status[i]]
    PROVE  UNCHANGED Promise!pvars
  BY DEF Promise!pvars, OneShots, Type, Course, Ahead

LEMMA StageWritten ==
    ASSUME RemindersTypeOK, NEW i \in Ids, NEW s, status' = [status EXCEPT ![i] = s]
    PROVE  Course' = [Course EXCEPT ![i] = StageOf[s]]
  BY DEF RemindersTypeOK, Course

LEMMA PromiseBegins == RemindersInit => Promise!PInit
  BY DEF RemindersInit, Promise!PInit, OneShots, Course, StageOf, Ahead

LEMMA CallsPromised ==
    ASSUME PInv, NEW i \in Ids
    PROVE  /\ Schedule(i) => Promise!AskFor(i)
           /\ Cancel(i) => Promise!CallOff(i)
  <1>1. ASSUME Schedule(i)
        PROVE  Promise!AskFor(i)
    <2>1. Course[i] = "unasked"
      BY <1>1 DEF Schedule, Course, StageOf
    <2>2. Course' = [Course EXCEPT ![i] = StageOf["active"]]
      BY <1>1, StageWritten DEF Schedule, PInv, IInv
    <2> QED
      BY <1>1, <2>1, <2>2 DEF StageOf, Schedule, Promise!AskFor, OneShots, Type, Ahead
  <1>2. ASSUME Cancel(i)
        PROVE  Promise!CallOff(i)
    <2>1. Course[i] = "running"
      BY <1>2 DEF Cancel, Course, StageOf
    <2>2. Course' = [Course EXCEPT ![i] = StageOf["cancelled"]]
      BY <1>2, StageWritten DEF Cancel, PInv, IInv
    <2> QED
      BY <1>2, <2>1, <2>2 DEF StageOf, Cancel, Promise!CallOff, OneShots, Type, Ahead
  <1> QED
    BY <1>1, <1>2

LEMMA HubPromised ==
    ASSUME PInv, NEW r \in wire, HubAccepts(r)
    PROVE  Promise!Arrives(r.key[1])
  <1> DEFINE i == r.key[1]
  <1>1. /\ i \in Ids /\ r.key = <<i, count[i]>> /\ r.key \notin accepted
        /\ status[i] \in {"active", "firing", "cancelled"}
    BY NextAccepted DEF HubAccepts
  <1>2. UNCHANGED <<request, status, count>> /\ accepted' = accepted \union {<<i, count[i]>>}
    BY <1>1 DEF HubAccepts, Answers, row
  <1>3. Ahead' = Ahead \union {i} /\ i \notin Ahead
    BY <1>1, <1>2 DEF Ahead
  <1>4. Course[i] \in {"running", "cancelled"} /\ UNCHANGED <<OneShots, Course>>
    BY <1>1, <1>2 DEF Course, StageOf, OneShots, Type
  <1> QED
    BY <1>2, <1>3, <1>4 DEF Promise!Arrives

LEMMA AnswerPromised ==
    ASSUME PInv, Answered
    PROVE  Promise!Count(firing) \/ Promise!GiveOut(firing)
  <1> DEFINE i == firing
  <1>1. /\ i \in Ids /\ status[i] = "firing" /\ i \in Ahead /\ Course[i] = "running"
    BY NextAnswered DEF Ahead, Course, StageOf
  <1>2. UNCHANGED <<request, accepted>> /\ UNCHANGED OneShots
    BY DEF Answered, Resume, OneShots, Type
  <1>3. ASSUME count' = [count EXCEPT ![i] = @ + 1]
        PROVE  Ahead' = Ahead \ {i}
    <2>1. count[i] \in Nat /\ count'[i] = count[i] + 1
      BY <1>1, <1>3 DEF PInv, IInv, RemindersTypeOK
    <2>2. <<i, count[i] + 1>> \notin accepted
      <3>1. SUFFICES ASSUME <<i, count[i] + 1>> \in accepted PROVE FALSE
        OBVIOUS
      <3>2. count[i] + 1 <= slot[i] /\ slot[i] = count[i]
        BY <1>1, <3>1, NextAnswered DEF PInv, SlotsBehind
      <3> QED
        BY <2>1, <3>2
    <2>3. \A j \in Ids \ {i} : count'[j] = count[j]
      BY <1>3 DEF PInv, IInv, RemindersTypeOK
    <2> QED
      BY <1>2, <2>1, <2>2, <2>3 DEF Ahead
  <1>4. CASE Complete(i)
    <2>1. i \in OneShots
      BY <1>1, <1>4 DEF Complete, OneShots
    <2>2. Course' = [Course EXCEPT ![i] = StageOf["fired"]]
      BY <1>1, <1>4, StageWritten DEF Complete, PInv, IInv
    <2> QED
      BY <1>1, <1>2, <1>3, <1>4, <2>1, <2>2 DEF Complete, Promise!Count, StageOf
  <1>5. CASE Advance(i)
    <2>1. i \notin OneShots
      BY <1>1, <1>5 DEF Advance, OneShots
    <2>2. Course' = [Course EXCEPT ![i] = StageOf["active"]]
      BY <1>1, <1>5, StageWritten DEF Advance, PInv, IInv
    <2> QED
      BY <1>1, <1>2, <1>3, <1>5, <2>1, <2>2 DEF Advance, Promise!Count, StageOf
  <1>6. CASE Dies(i)
    <2>1. i \notin OneShots
      BY <1>1, <1>6 DEF Dies, OneShots
    <2>2. Course' = [Course EXCEPT ![i] = StageOf["dead"]]
      BY <1>1, <1>6, StageWritten DEF Dies, PInv, IInv
    <2>3. UNCHANGED <<count, Ahead>>
      BY <1>2, <1>6 DEF Dies, Ahead
    <2> QED
      BY <1>1, <1>2, <2>1, <2>2, <2>3 DEF Promise!GiveOut, StageOf
  <1> QED
    BY <1>4, <1>5, <1>6 DEF Answered

LEMMA PromiseStep ==
    ASSUME PInv, [RemindersNext]_remindersVars
    PROVE  [Promise!PNext]_Promise!pvars
  <1>1. ASSUME NEW i \in Ids, SlotArrives(i) \/ GrowsLate(i) \/ \E d \in {"replay", "skip"} : Decide(i, d)
        PROVE  UNCHANGED Promise!pvars
    BY <1>1, Unpromised DEF SlotArrives, GrowsLate, Decide, row
  <1>2. CASE HubRegisters \/ Disconnect \/ Timeout \/ Scan \/ Throws \/ Crash \/ UNCHANGED remindersVars
    BY <1>2, Unpromised DEF HubRegisters, Disconnect, Timeout, Scan, Throws, Crash, row, remindersVars
  <1>3. ASSUME NEW r \in wire, HubConflicts(r) \/ HubRefuses(r)
        PROVE  UNCHANGED Promise!pvars
    BY <1>3, Unpromised DEF HubConflicts, HubRefuses, Answers, row
  <1>4. ASSUME NEW r \in left, HoldRow(r) \/ SkipRow(r) \/ ClaimRow(r)
        PROVE  UNCHANGED Promise!pvars
    <2>1. r.id \in Ids /\ UNCHANGED <<request, count, accepted>>
      BY <1>4 DEF HoldRow, SkipRow, ClaimRow, row, PInv, IInv, RemindersTypeOK
    <2>2. \A i \in Ids : StageOf[status'[i]] = StageOf[status[i]]
      BY <1>4, <2>1 DEF HoldRow, SkipRow, ClaimRow, row, StageOf, PInv, IInv, RemindersTypeOK
    <2> QED
      BY <2>1, <2>2, Unpromised
  <1>5. CASE Failed \/ Boot
    <2>1. \A i \in Ids : status'[i] = status[i] \/ (status[i] = "firing" /\ status'[i] = "active")
      BY <1>5 DEF Failed, Boot, Stuck, PInv, IInv, RemindersTypeOK, AwaitMatches
    <2>2. UNCHANGED <<request, count, accepted>> /\ \A i \in Ids : StageOf[status'[i]] = StageOf[status[i]]
      BY <1>5, <2>1 DEF Failed, Resume, Boot, StageOf
    <2> QED
      BY <2>2, Unpromised
  <1>6. ASSUME NEW i \in Ids,
               \/ Promise!AskFor(i) \/ Promise!CallOff(i) \/ Promise!Arrives(i)
               \/ Promise!Count(i) \/ Promise!GiveOut(i)
        PROVE  Promise!PNext
    BY <1>6 DEF Promise!PNext
  <1>7. ASSUME NEW r \in wire, HubAccepts(r)
        PROVE  Promise!PNext
    BY <1>6, <1>7, HubPromised, NextAccepted
  <1>8. ASSUME Answered
        PROVE  Promise!PNext
    BY <1>6, <1>8, AnswerPromised, NextAnswered
  <1> QED
    BY <1>1, <1>2, <1>3, <1>4, <1>5, <1>6, <1>7, <1>8, CallsPromised DEF RemindersNext, Take, Settle

(* Through every loss, refusal, retry and restart the rows and the hub     *)
(* keep the promise, for any reminders: fires in turn, once each, counted  *)
(* when they are there, and none counted after a cancel or an end.         *)
THEOREM PromiseKept == RemindersSpec => ImplementsPromise
  <1>1. RemindersInit => PInv
    BY Initially DEF RemindersInit, PInv, SlotsBehind, NothingLeftToSend
  <1>2. PInv /\ [RemindersNext]_remindersVars => PInv'
    BY StepKeeps, SlotsStayBehind, NothingLeftStays DEF PInv, IInv
  <1>3. PInv /\ [RemindersNext]_remindersVars => [Promise!PNext]_Promise!pvars
    BY PromiseStep
  <1> QED
    BY <1>1, <1>2, <1>3, PromiseBegins, PTL DEF RemindersSpec, ImplementsPromise, Promise!PSpec
=============================================================================
