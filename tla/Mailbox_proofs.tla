--------------------------- MODULE Mailbox_proofs ---------------------------
(***************************************************************************)
(* Proofs about Mailbox, for any identities, keys, policies and bounds and *)
(* under every combination of faults, but for the two theorems that name   *)
(* the faults they exclude.                                                *)
(***************************************************************************)
EXTENDS Mailbox, TLAPS

USE DEF MsgIds

(* What accept() writes keeps its columns in type. *)
LEMMA AcceptType ==
    ASSUME TypeOK,
           NEW p \in Permitted, NEW c \in Contents, NEW r \in 0..next,
           NEW k \in Keys \union {NoKey}, NEW v \in Channels, NEW first \in Statuses,
           Accept(p[1], p[2], p[3], c, r, k, v, first)
    PROVE  /\ next + 1 \in MsgIds
           /\ next' \in 0..MaxMsgs
           /\ sec' \in 0..MaxSec
           /\ envelope' \in [MsgIds -> Envelopes]
           /\ lease' \in [MsgIds -> Leases]
           /\ idem' \subseteq IdemRows
           /\ lastSend' \in [Identities -> (0..MaxSec) \union {-1}]
           /\ withdrawn' \subseteq MsgIds
           /\ told' \in [MsgIds -> Statuses \union {"none"}]
  <1>1. p[1] \in Identities /\ p[2] \in Identities /\ p[3] \in Identities
    BY IdentitiesAssumption
  <1>2. next \in 0..MaxMsgs /\ next < MaxMsgs /\ MaxMsgs \in Nat
    BY BoundsAssumption DEF TypeOK, Accept, CanSend
  <1>3. next + 1 \in MsgIds /\ next' \in 0..MaxMsgs
    BY <1>2 DEF Accept
  <1>4. [from |-> p[2], to |-> p[3], sentBy |-> p[1], via |-> v, ts |-> sec, key |-> k]
           \in Envelopes
    BY <1>1 DEF TypeOK, Envelopes
  <1>5. envelope' \in [MsgIds -> Envelopes]
    BY <1>3, <1>4 DEF Accept, TypeOK
  <1>6. Digest(p[2], p[3], c, r) \in Digests
    BY <1>1, <1>2 DEF Digest, Digests
  <1>7. idem' \subseteq IdemRows
    BY <1>1, <1>3, <1>6 DEF Accept, TypeOK, IdemRows
  <1>8. lastSend' \in [Identities -> (0..MaxSec) \union {-1}]
    BY <1>1 DEF Accept, TypeOK
  <1> QED
    BY <1>3, <1>5, <1>7, <1>8 DEF Accept, TypeOK

(* Settling and recording stay in type, whatever ids they are given. *)
LEMMA SettleType ==
    ASSUME TypeOK, NEW S, Settle(S)
    PROVE  status' \in [MsgIds -> Statuses \union {"absent"}]
  BY DEF TypeOK, Settle, Statuses

LEMMA RecordType ==
    ASSUME TypeOK, NEW S, Record(S)
    PROVE  events' \in [MsgIds -> Nat]
  BY DEF TypeOK, Record

LEMMA PendingType == \A i : PendingFor(i) \subseteq MsgIds /\ Leasable(i) \subseteq MsgIds
  BY DEF PendingFor, Leasable

(* Every send keeps the types. *)
LEMMA SendType ==
    ASSUME TypeOK, Send
    PROVE  TypeOK'
  <1>1. PICK p \in Permitted, c \in Contents, r \in 0..next,
             k \in Keys \union {NoKey}, v \in Channels :
        \/ SendQueued(p[1], p[2], p[3], c, r, k, v)
        \/ SendDropped(p[1], p[2], p[3], c, r, k, v)
        \/ \E reach \in SUBSET {next + 1} :
               \/ SendDelivered(p[1], p[2], p[3], c, r, k, v, reach)
               \/ SendCut(p[1], p[2], p[3], c, r, k, v, reach)
        \/ \E dies \in BOOLEAN : SendRolledBack(p[1], p[2], p[3], r, k, v, dies)
    BY DEF Send
  <1>2. CASE SendQueued(p[1], p[2], p[3], c, r, k, v)
    <2>1. Accept(p[1], p[2], p[3], c, r, k, v, "pending") /\ "pending" \in Statuses
      BY <1>2 DEF SendQueued, Statuses
    <2> QED
      BY <1>2, <2>1, AcceptType DEF SendQueued, AnswersWith, Settles, TypeOK, Statuses
  <1>3. CASE SendDropped(p[1], p[2], p[3], c, r, k, v)
    <2>1. Accept(p[1], p[2], p[3], c, r, k, v, "delivered") /\ "delivered" \in Statuses
      BY <1>3 DEF SendDropped, Statuses
    <2> QED
      BY <1>3, <2>1, AcceptType DEF SendDropped, AnswersWith, Settles, TypeOK, Statuses
  <1>4. ASSUME NEW reach \in SUBSET {next + 1},
               SendDelivered(p[1], p[2], p[3], c, r, k, v, reach)
        PROVE  TypeOK'
    <2>1. Accept(p[1], p[2], p[3], c, r, k, v, "delivered") /\ "delivered" \in Statuses
      BY <1>4 DEF SendDelivered, Statuses
    <2>2. next + 1 \in MsgIds
      BY <2>1, AcceptType
    <2>3. events' \in [MsgIds -> Nat]
      BY <1>4, RecordType DEF SendDelivered
    <2> QED
      BY <1>4, <2>1, <2>2, <2>3, AcceptType
      DEF SendDelivered, AnswersWith, Settles, Push, TypeOK, Statuses
  <1>5. ASSUME NEW reach \in SUBSET {next + 1},
               SendCut(p[1], p[2], p[3], c, r, k, v, reach)
        PROVE  TypeOK'
    <2>1. Accept(p[1], p[2], p[3], c, r, k, v, "delivered") /\ "delivered" \in Statuses
      BY <1>5 DEF SendCut, Statuses
    <2> QED
      BY <1>5, <2>1, AcceptType DEF SendCut, Settles, TypeOK, Statuses
  <1>6. ASSUME NEW dies \in BOOLEAN, SendRolledBack(p[1], p[2], p[3], r, k, v, dies)
        PROVE  TypeOK'
    <2>1. p[2] \in Identities
      BY IdentitiesAssumption
    <2> QED
      BY <1>6, <2>1 DEF SendRolledBack, TypeOK, rows, observed
  <1> QED
    BY <1>1, <1>2, <1>3, <1>4, <1>5, <1>6

(* Every replay and every fetch keeps the types. *)
LEMMA ReplayType ==
    ASSUME TypeOK, NEW i \in Identities, Replay(i)
    PROVE  TypeOK'
  <1>1. PICK S \in SUBSET PendingFor(i) :
        \/ \E reach \in SUBSET S : Connect(i, S, reach)
        \/ \E m \in PendingFor(i), rowSettled \in BOOLEAN : ConnectCut(i, S, m, rowSettled)
    BY DEF Replay
  <1>2. S \subseteq MsgIds
    BY PendingType
  <1>3. ASSUME NEW reach \in SUBSET S, Connect(i, S, reach)
        PROVE  TypeOK'
    <2>1. status' \in [MsgIds -> Statuses \union {"absent"}] /\ events' \in [MsgIds -> Nat]
      BY <1>3, SettleType, RecordType DEF Connect
    <2> QED
      BY <1>2, <1>3, <2>1 DEF Connect, Push, TypeOK
  <1>4. ASSUME NEW m \in PendingFor(i), NEW rowSettled \in BOOLEAN,
               ConnectCut(i, S, m, rowSettled)
        PROVE  TypeOK'
    <2>1. status' \in [MsgIds -> Statuses \union {"absent"}] /\ events' \in [MsgIds -> Nat]
      BY <1>4, SettleType, RecordType DEF ConnectCut
    <2>2. m \in MsgIds
      BY PendingType
    <2> QED
      BY <1>2, <1>4, <2>1, <2>2 DEF ConnectCut, TypeOK
  <1> QED
    BY <1>1, <1>3, <1>4

LEMMA FetchType ==
    ASSUME TypeOK, NEW i \in Identities, Fetch(i)
    PROVE  TypeOK'
  <1>1. PICK acks \in SUBSET Acknowledgeable(i) :
        \/ \E page \in SUBSET Leasable(i), survives \in BOOLEAN : Receive(i, acks, page, survives)
        \/ \E dies \in BOOLEAN : ReceiveRolledBack(i, acks, dies)
    BY DEF Fetch
  <1>2. ASSUME NEW page \in SUBSET Leasable(i), NEW survives \in BOOLEAN,
               Receive(i, acks, page, survives)
        PROVE  TypeOK'
    <2>1. status' \in [MsgIds -> Statuses \union {"absent"}] /\ events' \in [MsgIds -> Nat]
      BY <1>2, SettleType, RecordType DEF Receive
    <2>2. page \subseteq MsgIds
      BY PendingType
    <2>3. lease' \in [MsgIds -> Leases]
      BY <1>2 DEF Receive, TypeOK, Leases
    <2> QED
      BY <1>2, <2>1, <2>2, <2>3 DEF Receive, TypeOK
  <1>3. ASSUME NEW dies \in BOOLEAN, ReceiveRolledBack(i, acks, dies)
        PROVE  TypeOK'
    <2>1. events' \in [MsgIds -> Nat]
      BY <1>3, RecordType DEF ReceiveRolledBack
    <2> QED
      BY <1>3, <2>1 DEF ReceiveRolledBack, TypeOK, rows, observed
  <1> QED
    BY <1>1, <1>2, <1>3

LEMMA TypeInitial == Init => TypeOK
  BY BoundsAssumption
  DEF Init, TypeOK, NoEnvelope, Envelopes, Channels, Leases, None

LEMMA TypePreserved == TypeOK /\ [Next]_vars => TypeOK'
  <1> SUFFICES ASSUME TypeOK, [Next]_vars
               PROVE  TypeOK'
    OBVIOUS
  <1>1. CASE Send
    BY <1>1, SendType
  <1>2. CASE Retry
    <2>1. PICK p \in Permitted, c \in Contents, r \in 0..next, k \in Keys :
              SendAgain(p[1], p[2], p[3], c, r, k)
      BY <1>2 DEF Retry
    <2>2. PICK e \in IdemFor(p[1], k) :
              /\ told' = [told EXCEPT ![e.id] = e.status]
              /\ UNCHANGED <<sec, next, rows, lastSend, live, events,
                             handed, kept, withdrawn, lost, answer>>
      BY <2>1 DEF SendAgain
    <2>3. e.id \in MsgIds /\ e.status \in Statuses
      BY DEF IdemFor, TypeOK, IdemRows
    <2> QED
      BY <2>2, <2>3 DEF TypeOK, rows
  <1>3. ASSUME NEW i \in Identities, Replay(i) \/ Disconnect(i) \/ Fetch(i)
        PROVE  TypeOK'
    <2>1. CASE Disconnect(i)
      BY <2>1 DEF Disconnect, TypeOK, rows, observed
    <2> QED
      BY <1>3, <2>1, ReplayType, FetchType
  <1>4. CASE Restart
    BY <1>4 DEF Restart, TypeOK, rows, observed
  <1>5. ASSUME NEW m \in MsgIds, Lapse(m)
        PROVE  TypeOK'
    BY <1>5 DEF Lapse, TypeOK, observed, Leases
  <1>6. ASSUME NEW f \in Identities, NEW m \in MsgIds, Recall(f, m)
        PROVE  TypeOK'
    BY <1>6 DEF Recall, TypeOK, Leases
  <1>7. CASE Tick
    BY <1>7, BoundsAssumption DEF Tick, TypeOK, rows, observed
  <1>8. CASE UNCHANGED vars
    BY <1>8 DEF vars, TypeOK, rows, observed
  <1> QED
    BY <1>1, <1>2, <1>3, <1>4, <1>5, <1>6, <1>7, <1>8 DEF Next

(* Every column and observation keeps its type in every behaviour. *)
THEOREM TypeCorrect == Spec => []TypeOK
  BY TypeInitial, TypePreserved, PTL DEF Spec

----------------------------------------------------------------------------
(* Delivered means kept.  What has to be shown is that a step settles only *)
(* what its recipient has by the end of the step, or what a fault took.    *)

Safe == kept \union lost

LEMMA SendKeeps ==
    ASSUME TypeOK, Send
    PROVE  /\ Safe \subseteq Safe'
           /\ \A m \in MsgIds : status'[m] = "delivered" => status[m] = "delivered" \/ m \in Safe'
           /\ \A m \in MsgIds : events'[m] > 0 => events[m] > 0 \/ m \in Safe'
  <1>1. PICK p \in Permitted, c \in Contents, r \in 0..next,
             k \in Keys \union {NoKey}, v \in Channels :
        \/ SendQueued(p[1], p[2], p[3], c, r, k, v)
        \/ SendDropped(p[1], p[2], p[3], c, r, k, v)
        \/ \E reach \in SUBSET {next + 1} :
               \/ SendDelivered(p[1], p[2], p[3], c, r, k, v, reach)
               \/ SendCut(p[1], p[2], p[3], c, r, k, v, reach)
        \/ \E dies \in BOOLEAN : SendRolledBack(p[1], p[2], p[3], r, k, v, dies)
    BY DEF Send
  <1>2. CASE \/ SendQueued(p[1], p[2], p[3], c, r, k, v)
             \/ SendDropped(p[1], p[2], p[3], c, r, k, v)
    BY <1>2 DEF SendQueued, SendDropped, AnswersWith, Settles, TypeOK, Safe
  <1>3. ASSUME NEW reach \in SUBSET {next + 1},
               SendDelivered(p[1], p[2], p[3], c, r, k, v, reach)
        PROVE  /\ Safe \subseteq Safe'
               /\ \A m \in MsgIds : status'[m] = "delivered" => status[m] = "delivered" \/ m \in Safe'
               /\ \A m \in MsgIds : events'[m] > 0 => events[m] > 0 \/ m \in Safe'
    <2>1. Safe' = Safe \union {next + 1}
      BY <1>3 DEF SendDelivered, Push, Safe
    <2> QED
      BY <1>3, <2>1 DEF SendDelivered, AnswersWith, Settles, Record, TypeOK
  <1>4. ASSUME NEW reach \in SUBSET {next + 1},
               SendCut(p[1], p[2], p[3], c, r, k, v, reach)
        PROVE  /\ Safe \subseteq Safe'
               /\ \A m \in MsgIds : status'[m] = "delivered" => status[m] = "delivered" \/ m \in Safe'
               /\ \A m \in MsgIds : events'[m] > 0 => events[m] > 0 \/ m \in Safe'
    <2>1. Safe' = Safe \union {next + 1}
      BY <1>4 DEF SendCut, Safe
    <2> QED
      BY <1>4, <2>1 DEF SendCut, Settles, TypeOK
  <1>5. ASSUME NEW dies \in BOOLEAN, SendRolledBack(p[1], p[2], p[3], r, k, v, dies)
        PROVE  UNCHANGED <<status, events, kept, lost>>
    BY <1>5 DEF SendRolledBack, rows, observed
  <1> QED
    BY <1>1, <1>2, <1>3, <1>4, <1>5 DEF Safe

LEMMA ReplayKeeps ==
    ASSUME TypeOK, NEW i \in Identities, Replay(i)
    PROVE  /\ Safe \subseteq Safe'
           /\ \A m \in MsgIds : status'[m] = "delivered" => status[m] = "delivered" \/ m \in Safe'
           /\ \A m \in MsgIds : events'[m] > 0 => events[m] > 0 \/ m \in Safe'
  <1>1. PICK S \in SUBSET PendingFor(i) :
        \/ \E reach \in SUBSET S : Connect(i, S, reach)
        \/ \E m \in PendingFor(i), rowSettled \in BOOLEAN : ConnectCut(i, S, m, rowSettled)
    BY DEF Replay
  <1>2. ASSUME NEW reach \in SUBSET S, Connect(i, S, reach)
        PROVE  Safe' = Safe \union S /\ Settle(S) /\ Record(S)
    BY <1>2 DEF Connect, Push, Safe
  <1>3. ASSUME NEW m \in PendingFor(i), NEW rowSettled \in BOOLEAN,
               ConnectCut(i, S, m, rowSettled)
        PROVE  /\ Safe' = Safe \union S \union {m}
               /\ Settle(S \union {m}) \/ Settle(S)
               /\ Record(S)
    BY <1>3 DEF ConnectCut, Safe
  <1> QED
    BY <1>1, <1>2, <1>3 DEF Settle, Record, TypeOK

(* What is acknowledged and settles was the caller's, and a caller         *)
(* acknowledges of its own only what it holds.                             *)
LEMMA SettledIsKept ==
    ASSUME NEW i, NEW acks \in SUBSET Acknowledgeable(i)
    PROVE  Settled(i, acks) \subseteq kept
  BY DEF Settled, Acknowledgeable, PendingFor

LEMMA FetchKeeps ==
    ASSUME TypeOK, NEW i \in Identities, Fetch(i)
    PROVE  /\ Safe \subseteq Safe'
           /\ \A m \in MsgIds : status'[m] = "delivered" => status[m] = "delivered" \/ m \in Safe'
           /\ \A m \in MsgIds : events'[m] > 0 => events[m] > 0 \/ m \in Safe'
  <1>1. PICK acks \in SUBSET Acknowledgeable(i) :
        \/ \E page \in SUBSET Leasable(i), survives \in BOOLEAN : Receive(i, acks, page, survives)
        \/ \E dies \in BOOLEAN : ReceiveRolledBack(i, acks, dies)
    BY DEF Fetch
  <1>2. Settled(i, acks) \subseteq Safe
    BY SettledIsKept DEF Safe
  <1>3. ASSUME NEW page \in SUBSET Leasable(i), NEW survives \in BOOLEAN,
               Receive(i, acks, page, survives)
        PROVE  Safe \subseteq Safe' /\ Settle(Settled(i, acks)) /\ Record(Settled(i, acks))
    BY <1>3 DEF Receive, Safe
  <1>4. ASSUME NEW dies \in BOOLEAN, ReceiveRolledBack(i, acks, dies)
        PROVE  Safe' = Safe /\ status' = status /\ Record(Settled(i, acks))
    BY <1>4 DEF ReceiveRolledBack, Safe, rows, observed
  <1> QED
    BY <1>1, <1>2, <1>3, <1>4 DEF Settle, Record, TypeOK

LEMMA OthersKeep ==
    ASSUME TypeOK, [Next]_vars, ~Send, \A i \in Identities : ~Replay(i) /\ ~Fetch(i)
    PROVE  /\ UNCHANGED <<kept, lost, events>>
           /\ \A m \in MsgIds : status'[m] = "delivered" => status[m] = "delivered"
  <1>1. CASE Retry
    BY <1>1 DEF Retry, SendAgain, rows
  <1>2. ASSUME NEW i \in Identities, Disconnect(i)
        PROVE  UNCHANGED <<kept, lost, events, status>>
    BY <1>2 DEF Disconnect, rows, observed
  <1>3. CASE Restart \/ Tick \/ UNCHANGED vars
    BY <1>3 DEF Restart, Tick, vars, rows, observed
  <1>4. ASSUME NEW m \in MsgIds, Lapse(m)
        PROVE  UNCHANGED <<kept, lost, events, status>>
    BY <1>4 DEF Lapse, observed
  <1>5. ASSUME NEW f \in Identities, NEW m \in MsgIds, Recall(f, m)
        PROVE  /\ UNCHANGED <<kept, lost, events>>
               /\ \A n \in MsgIds : status'[n] = "delivered" => status[n] = "delivered"
    BY <1>5 DEF Recall, TypeOK
  <1> QED
    BY <1>1, <1>2, <1>3, <1>4, <1>5 DEF Next

LEMMA StepKeeps ==
    ASSUME TypeOK, [Next]_vars
    PROVE  /\ Safe \subseteq Safe'
           /\ \A m \in MsgIds : status'[m] = "delivered" => status[m] = "delivered" \/ m \in Safe'
           /\ \A m \in MsgIds : events'[m] > 0 => events[m] > 0 \/ m \in Safe'
  BY SendKeeps, ReplayKeeps, FetchKeeps, OthersKeep DEF Safe

(* A settled row is of a message its recipient has, or a fault took.       *)
THEOREM DeliveredKept == Spec => []DeliveredIsKept
  <1>1. Init => DeliveredIsKept
    BY DEF Init, DeliveredIsKept
  <1>2. TypeOK /\ DeliveredIsKept /\ [Next]_vars => DeliveredIsKept'
    BY StepKeeps DEF DeliveredIsKept, Safe
  <1> QED
    BY <1>1, <1>2, TypeCorrect, PTL DEF Spec

(* A `delivered` event is of such a message too.                           *)
THEOREM AuditTrue == Spec => []AuditIsTrue
  <1>1. Init => AuditIsTrue
    BY DEF Init, AuditIsTrue
  <1>2. TypeOK /\ AuditIsTrue /\ [Next]_vars => AuditIsTrue'
    BY StepKeeps DEF AuditIsTrue, Safe
  <1> QED
    BY <1>1, <1>2, TypeCorrect, PTL DEF Spec

----------------------------------------------------------------------------
(* What a step does to the rows and to what is known of each message, in   *)
(* one of four shapes: a row is appended, pending rows are handed over and *)
(* some of them settle, a pending row is withdrawn, or nothing moves.      *)

Pending == {m \in MsgIds : status[m] = "pending"}

Appended(st) ==
    /\ next < MaxMsgs /\ next' = next + 1
    /\ status' = [status EXCEPT ![next + 1] = st]
    /\ handed' \subseteq handed \union {next + 1}
    /\ \/ st = "pending" /\ UNCHANGED <<kept, lost, events>>
       \/ /\ st = "delivered"
          /\ \/ kept' = kept \union {next + 1} /\ UNCHANGED lost
             \/ lost' = lost \union {next + 1} /\ UNCHANGED kept
          /\ \/ Record({next + 1})
             \/ "send" \in Faults /\ UNCHANGED events
    /\ UNCHANGED withdrawn

HandedOver(given, taken, done) ==
    /\ given \subseteq Pending /\ done \subseteq Pending
    /\ taken \subseteq done /\ done \subseteq kept \union given \union taken
    /\ Settle(done)
    /\ \/ Record(done)
       \/ "replay" \in Faults /\ \E recorded \in SUBSET done : Record(recorded)
       \/ "receive" \in Faults /\ done = {} /\ \E recorded \in SUBSET Pending : Record(recorded)
    /\ kept' = kept \union given
    /\ lost' = lost \union taken
    /\ handed' \subseteq handed \union Pending
    /\ UNCHANGED <<next, withdrawn>>

Withdrawn(m) ==
    /\ m \in Pending /\ Unleased(m)
    /\ status' = [status EXCEPT ![m] = "absent"]
    /\ withdrawn' = withdrawn \union {m}
    /\ UNCHANGED <<next, kept, lost, handed, events>>

Unmoved == UNCHANGED <<next, status, withdrawn, kept, lost, handed, events>>

LEMMA SendShape ==
    ASSUME TypeOK, Send
    PROVE  (\E st \in Statuses : Appended(st)) \/ Unmoved
  <1>1. PICK p \in Permitted, c \in Contents, r \in 0..next,
             k \in Keys \union {NoKey}, v \in Channels :
        \/ SendQueued(p[1], p[2], p[3], c, r, k, v)
        \/ SendDropped(p[1], p[2], p[3], c, r, k, v)
        \/ \E reach \in SUBSET {next + 1} :
               \/ SendDelivered(p[1], p[2], p[3], c, r, k, v, reach)
               \/ SendCut(p[1], p[2], p[3], c, r, k, v, reach)
        \/ \E dies \in BOOLEAN : SendRolledBack(p[1], p[2], p[3], r, k, v, dies)
    BY DEF Send
  <1> "pending" \in Statuses /\ "delivered" \in Statuses
    BY DEF Statuses
  <1>2. CASE \/ SendQueued(p[1], p[2], p[3], c, r, k, v)
             \/ SendDropped(p[1], p[2], p[3], c, r, k, v)
    <2>1. Appended("pending")
      BY <1>2 DEF SendQueued, SendDropped, AnswersWith, Settles, Accept, CanSend, Appended
    <2> QED
      BY <2>1
  <1>3. ASSUME NEW reach \in SUBSET {next + 1},
               SendDelivered(p[1], p[2], p[3], c, r, k, v, reach)
        PROVE  Appended("delivered")
    <2>1. reach = {next + 1} \/ reach = {}
      OBVIOUS
    <2>2. /\ next < MaxMsgs /\ next' = next + 1
          /\ status' = [status EXCEPT ![next + 1] = "delivered"]
          /\ handed' = handed \union {next + 1} /\ Record({next + 1})
          /\ withdrawn' = withdrawn
          /\ kept' = kept \union reach /\ lost' = lost \union ({next + 1} \ reach)
      BY <1>3 DEF SendDelivered, AnswersWith, Settles, Accept, CanSend, Push
    <2>3. \/ kept' = kept \union {next + 1} /\ lost' = lost
          \/ lost' = lost \union {next + 1} /\ kept' = kept
      BY <2>1, <2>2
    <2> QED
      BY <2>2, <2>3 DEF Appended
  <1>4. ASSUME NEW reach \in SUBSET {next + 1},
               SendCut(p[1], p[2], p[3], c, r, k, v, reach)
        PROVE  Appended("delivered")
    <2>1. reach = {next + 1} \/ reach = {}
      OBVIOUS
    <2>2. /\ next < MaxMsgs /\ next' = next + 1
          /\ status' = [status EXCEPT ![next + 1] = "delivered"]
          /\ handed' = handed \union reach /\ "send" \in Faults /\ events' = events
          /\ withdrawn' = withdrawn
          /\ kept' = kept \union reach /\ lost' = lost \union ({next + 1} \ reach)
      BY <1>4 DEF SendCut, Settles, Accept, CanSend
    <2> QED
      BY <2>1, <2>2 DEF Appended
  <1>5. ASSUME NEW dies \in BOOLEAN, SendRolledBack(p[1], p[2], p[3], r, k, v, dies)
        PROVE  Unmoved
    BY <1>5 DEF SendRolledBack, rows, observed, Unmoved
  <1> QED
    BY <1>1, <1>2, <1>3, <1>4, <1>5

LEMMA ReplayShape ==
    ASSUME TypeOK, NEW i \in Identities, Replay(i)
    PROVE  \E given, taken, done : HandedOver(given, taken, done)
  <1>1. PICK S \in SUBSET PendingFor(i) :
        \/ \E reach \in SUBSET S : Connect(i, S, reach)
        \/ \E m \in PendingFor(i), rowSettled \in BOOLEAN : ConnectCut(i, S, m, rowSettled)
    BY DEF Replay
  <1>2. PendingFor(i) \subseteq Pending
    BY DEF PendingFor, Pending
  <1>3. ASSUME NEW reach \in SUBSET S, Connect(i, S, reach)
        PROVE  HandedOver(reach, S \ reach, S)
    BY <1>2, <1>3 DEF Connect, Push, HandedOver
  <1>4. ASSUME NEW m \in PendingFor(i), NEW rowSettled \in BOOLEAN,
               ConnectCut(i, S, m, rowSettled)
        PROVE  \E done : HandedOver(S \union {m}, {}, done)
    <2>1. CASE rowSettled
      <3>1. HandedOver(S \union {m}, {}, S \union {m})
        BY <1>2, <1>4, <2>1 DEF ConnectCut, HandedOver
      <3> QED
        BY <3>1
    <2>2. CASE ~rowSettled
      <3>1. HandedOver(S \union {m}, {}, S)
        BY <1>2, <1>4, <2>2 DEF ConnectCut, HandedOver
      <3> QED
        BY <3>1
    <2> QED
      BY <2>1, <2>2
  <1> QED
    BY <1>1, <1>3, <1>4

LEMMA FetchShape ==
    ASSUME TypeOK, NEW i \in Identities, Fetch(i)
    PROVE  \E given, taken, done : HandedOver(given, taken, done)
  <1>1. PICK acks \in SUBSET Acknowledgeable(i) :
        \/ \E page \in SUBSET Leasable(i), survives \in BOOLEAN : Receive(i, acks, page, survives)
        \/ \E dies \in BOOLEAN : ReceiveRolledBack(i, acks, dies)
    BY DEF Fetch
  <1>2. Leasable(i) \subseteq Pending /\ Settled(i, acks) \subseteq Pending \intersect kept
    BY SettledIsKept DEF Leasable, Settled, PendingFor, Pending
  <1>3. ASSUME NEW page \in SUBSET Leasable(i), NEW survives \in BOOLEAN,
               Receive(i, acks, page, survives)
        PROVE  HandedOver(IF survives THEN page ELSE {}, {}, Settled(i, acks))
    BY <1>2, <1>3 DEF Receive, HandedOver
  <1>4. ASSUME NEW dies \in BOOLEAN, ReceiveRolledBack(i, acks, dies)
        PROVE  HandedOver({}, {}, {})
    <2>1. Settle({})
      BY <1>4 DEF ReceiveRolledBack, rows, Settle, TypeOK
    <2>2. "receive" \in Faults /\ Record(Settled(i, acks))
      BY <1>4 DEF ReceiveRolledBack
    <2>3. \E recorded \in SUBSET Pending : Record(recorded)
      BY <1>2, <2>2
    <2> QED
      BY <1>4, <2>1, <2>2, <2>3 DEF ReceiveRolledBack, HandedOver, observed
  <1> QED
    BY <1>1, <1>3, <1>4

LEMMA StepShape ==
    ASSUME TypeOK, [Next]_vars
    PROVE  \/ \E st \in Statuses : Appended(st)
           \/ \E given, taken, done : HandedOver(given, taken, done)
           \/ \E m \in MsgIds : Withdrawn(m)
           \/ Unmoved
  <1>1. CASE Retry
    BY <1>1 DEF Retry, SendAgain, rows, Unmoved
  <1>2. ASSUME NEW i \in Identities, Disconnect(i)
        PROVE  Unmoved
    BY <1>2 DEF Disconnect, rows, observed, Unmoved
  <1>3. CASE Restart \/ Tick \/ UNCHANGED vars
    BY <1>3 DEF Restart, Tick, vars, rows, observed, Unmoved
  <1>4. ASSUME NEW m \in MsgIds, Lapse(m)
        PROVE  Unmoved
    BY <1>4 DEF Lapse, observed, Unmoved
  <1>5. ASSUME NEW f \in Identities, NEW m \in MsgIds, Recall(f, m)
        PROVE  Withdrawn(m)
    BY <1>5 DEF Recall, Withdrawn, Pending
  <1> QED
    BY <1>1, <1>2, <1>3, <1>4, <1>5, SendShape, ReplayShape, FetchShape DEF Next

(* Rows are of accepted messages, a withdrawn one has no row, and no other *)
(* row ever goes missing.                                                  *)
RowsAreAccepted ==
    /\ \A m \in MsgIds : status[m] # "absent" => m <= next
    /\ \A m \in withdrawn : m <= next /\ status[m] = "absent"
    /\ \A m \in 1..next : status[m] = "absent" => m \in withdrawn

LEMMA RowsPreserved ==
    ASSUME TypeOK, RowsAreAccepted, [Next]_vars
    PROVE  RowsAreAccepted'
  <1> next \in Nat /\ DOMAIN status = MsgIds /\ withdrawn \subseteq MsgIds
    BY BoundsAssumption DEF TypeOK
  <1>1. ASSUME NEW st \in Statuses, Appended(st)
        PROVE  RowsAreAccepted'
    <2>1. next' = next + 1 /\ next + 1 \in MsgIds /\ st # "absent"
      BY <1>1, BoundsAssumption DEF Appended, Statuses
    <2>2. /\ status'[next + 1] = st /\ withdrawn' = withdrawn
          /\ \A m \in MsgIds \ {next + 1} : status'[m] = status[m]
      BY <1>1, <2>1 DEF Appended, TypeOK
    <2>3. \A m \in 1..next' : m \in MsgIds /\ (m = next + 1 \/ m \in 1..next)
      BY <2>1, BoundsAssumption DEF TypeOK
    <2>4. \A m \in withdrawn' : m <= next' /\ status'[m] = "absent"
      BY <2>1, <2>2 DEF RowsAreAccepted
    <2>5. \A m \in MsgIds : status'[m] # "absent" => m <= next'
      BY <2>1, <2>2 DEF RowsAreAccepted
    <2>6. \A m \in 1..next' : status'[m] = "absent" => m \in withdrawn'
      BY <2>1, <2>2, <2>3 DEF RowsAreAccepted
    <2> QED
      BY <2>4, <2>5, <2>6, Zenon DEF RowsAreAccepted
  <1>2. ASSUME NEW given, NEW taken, NEW done, HandedOver(given, taken, done)
        PROVE  RowsAreAccepted'
    <2>1. /\ \A m \in MsgIds : status'[m] = IF m \in done THEN "delivered" ELSE status[m]
          /\ \A m \in done : m \in MsgIds /\ status[m] = "pending"
          /\ next' = next /\ withdrawn' = withdrawn
      BY <1>2 DEF HandedOver, Settle, Pending
    <2>2. \A m \in 1..next : m \in MsgIds
      BY BoundsAssumption DEF TypeOK
    <2> QED
      BY <2>1, <2>2 DEF RowsAreAccepted
  <1>3. ASSUME NEW m \in MsgIds, Withdrawn(m)
        PROVE  RowsAreAccepted'
    BY <1>3 DEF RowsAreAccepted, Withdrawn, Pending, TypeOK
  <1>4. CASE Unmoved
    BY <1>4 DEF RowsAreAccepted, Unmoved
  <1> QED
    BY <1>1, <1>2, <1>3, <1>4, StepShape

LEMMA RowsCorrect == Spec => [](TypeOK /\ RowsAreAccepted)
  <1>1. Init => RowsAreAccepted
    BY DEF Init, RowsAreAccepted
  <1> QED
    BY <1>1, RowsPreserved, TypeCorrect, PTL DEF Spec

(* An accepted message has a row for as long as its sender has not taken   *)
(* it back: no replay, settlement, roll back or crash deletes one.         *)
NothingVanishes == \A m \in 1..next : status[m] = "absent" <=> m \in withdrawn

(* Only a recall takes a row away. *)
THEOREM RowsRemain == Spec => []NothingVanishes
  <1>1. RowsAreAccepted => NothingVanishes
    BY DEF RowsAreAccepted, NothingVanishes
  <1> QED
    BY <1>1, RowsCorrect, PTL

(* Settled rows and withdrawn messages stay what they are.                 *)
THEOREM SettledFinal == Spec => SettledIsFinal
  <1> DEFINE Final == \A m \in MsgIds :
                /\ status[m] = "delivered" => status'[m] = "delivered"
                /\ m \in withdrawn => status'[m] = "absent" /\ (m \in handed' => m \in handed)
  <1>1. TypeOK /\ RowsAreAccepted /\ [Next]_vars => Final
    <2> SUFFICES ASSUME TypeOK, RowsAreAccepted, [Next]_vars
                 PROVE  Final
      OBVIOUS
    <2> next \in Nat /\ DOMAIN status = MsgIds
      BY BoundsAssumption DEF TypeOK
    <2>1. ASSUME NEW st \in Statuses, Appended(st)
          PROVE  Final
      BY <2>1 DEF RowsAreAccepted, Appended, TypeOK
    <2>2. ASSUME NEW given, NEW taken, NEW done, HandedOver(given, taken, done)
          PROVE  Final
      BY <2>2 DEF RowsAreAccepted, HandedOver, Settle, Pending
    <2>3. ASSUME NEW m \in MsgIds, Withdrawn(m)
          PROVE  Final
      BY <2>3 DEF RowsAreAccepted, Withdrawn, Pending, TypeOK
    <2>4. CASE Unmoved
      BY <2>4 DEF RowsAreAccepted, Unmoved
    <2> QED
      BY <2>1, <2>2, <2>3, <2>4, StepShape
  <1>2. TypeOK /\ RowsAreAccepted /\ [Next]_vars => [Final]_vars
    BY <1>1
  <1> QED
    BY <1>2, RowsCorrect, PTL DEF Spec, SettledIsFinal

(* Each fault spoils the audit log in one direction only.  A receive that  *)
(* rolls back records a delivery its row does not show, so without one no  *)
(* message is recorded twice, nor before it is settled; a send or a replay *)
(* that is cut settles a row it does not record, so without them no        *)
(* delivery goes unrecorded.                                               *)
AtMostOneEvent == \A m \in MsgIds : events[m] <= IF status[m] = "delivered" THEN 1 ELSE 0
AtLeastOneEvent == \A m \in MsgIds : status[m] = "delivered" => events[m] >= 1

LEMMA AppendedRow ==
    ASSUME TypeOK, RowsAreAccepted, NEW st \in Statuses, Appended(st)
    PROVE  /\ next + 1 \in MsgIds /\ status[next + 1] = "absent"
           /\ status'[next + 1] = st
           /\ \A m \in MsgIds \ {next + 1} : status'[m] = status[m]
  <1>1. next \in Nat /\ next < MaxMsgs /\ MaxMsgs \in Nat /\ DOMAIN status = MsgIds
    BY BoundsAssumption DEF TypeOK, Appended
  <1>2. next + 1 \in MsgIds /\ ~(next + 1 <= next)
    BY <1>1
  <1> QED
    BY <1>1, <1>2 DEF RowsAreAccepted, Appended

(* No message is recorded twice, or before it is settled, while no receive *)
(* rolls back; the sends and replays that are cut may be as many.          *)
THEOREM AuditNeverDoubles ==
    ASSUME "receive" \notin Faults
    PROVE  Spec => []AtMostOneEvent
  <1>1. Init => AtMostOneEvent
    BY DEF Init, AtMostOneEvent
  <1>2. TypeOK /\ RowsAreAccepted /\ AtMostOneEvent /\ [Next]_vars => AtMostOneEvent'
    <2> SUFFICES ASSUME TypeOK, RowsAreAccepted, AtMostOneEvent, [Next]_vars,
                        NEW m \in MsgIds
                 PROVE  events'[m] <= IF status'[m] = "delivered" THEN 1 ELSE 0
      BY DEF AtMostOneEvent
    <2>t. events[m] \in Nat /\ events[m] <= IF status[m] = "delivered" THEN 1 ELSE 0
      BY DEF TypeOK, AtMostOneEvent
    <2>1. ASSUME NEW st \in Statuses, Appended(st)
          PROVE  events'[m] <= IF status'[m] = "delivered" THEN 1 ELSE 0
      <3>1. CASE m = next + 1
        <4>1. status[m] = "absent" /\ status'[m] = st
          BY <2>1, <3>1, AppendedRow
        <4>2. CASE st = "pending"
          BY <2>1, <2>t, <4>1, <4>2 DEF Appended
        <4>3. CASE st = "delivered"
          <5>1. events'[m] \in {events[m], events[m] + 1}
            BY <2>1, <4>3 DEF Appended, Record
          <5> QED
            BY <2>t, <4>1, <4>3, <5>1
        <4> QED
          BY <4>2, <4>3 DEF Statuses
      <3>2. CASE m # next + 1
        <4>1. status'[m] = status[m]
          BY <2>1, <3>2, AppendedRow
        <4>2. events'[m] = events[m]
          BY <2>1, <3>2 DEF Appended, Record
        <4> QED
          BY <2>t, <4>1, <4>2
      <3> QED
        BY <3>1, <3>2
    <2>2. ASSUME NEW given, NEW taken, NEW done, HandedOver(given, taken, done)
          PROVE  events'[m] <= IF status'[m] = "delivered" THEN 1 ELSE 0
      <3>1. status'[m] = IF m \in done THEN "delivered" ELSE status[m]
        BY <2>2 DEF HandedOver, Settle
      <3>2. m \in done => status[m] = "pending"
        BY <2>2 DEF HandedOver, Pending
      <3>3. events'[m] = events[m] \/ (m \in done /\ events'[m] = events[m] + 1)
        BY <2>2 DEF HandedOver, Record
      <3> QED
        BY <2>t, <3>1, <3>2, <3>3
    <2>3. ASSUME NEW n \in MsgIds, Withdrawn(n)
          PROVE  events'[m] <= IF status'[m] = "delivered" THEN 1 ELSE 0
      BY <2>3, <2>t DEF Withdrawn, Pending, TypeOK
    <2>4. CASE Unmoved
      BY <2>4, <2>t DEF Unmoved
    <2> QED
      BY <2>1, <2>2, <2>3, <2>4, StepShape
  <1> QED
    BY <1>1, <1>2, RowsCorrect, PTL DEF Spec

(* No delivery goes unrecorded while no send and no replay is cut, however *)
(* many receives roll back.                                                *)
THEOREM AuditNeverMisses ==
    ASSUME "send" \notin Faults, "replay" \notin Faults
    PROVE  Spec => []AtLeastOneEvent
  <1>1. Init => AtLeastOneEvent
    BY DEF Init, AtLeastOneEvent
  <1>2. TypeOK /\ RowsAreAccepted /\ AtLeastOneEvent /\ [Next]_vars => AtLeastOneEvent'
    <2> SUFFICES ASSUME TypeOK, RowsAreAccepted, AtLeastOneEvent, [Next]_vars,
                        NEW m \in MsgIds, status'[m] = "delivered"
                 PROVE  events'[m] >= 1
      BY DEF AtLeastOneEvent
    <2>t. events[m] \in Nat /\ (status[m] = "delivered" => events[m] >= 1)
      BY DEF TypeOK, AtLeastOneEvent
    <2>1. ASSUME NEW st \in Statuses, Appended(st)
          PROVE  events'[m] >= 1
      <3>1. CASE m = next + 1
        <4>1. st = "delivered"
          BY <2>1, <3>1, AppendedRow
        <4>2. events'[m] = events[m] + 1
          BY <2>1, <3>1, <4>1 DEF Appended, Record
        <4> QED
          BY <2>t, <4>2
      <3>2. CASE m # next + 1
        <4>1. status'[m] = status[m]
          BY <2>1, <3>2, AppendedRow
        <4>2. events'[m] = events[m]
          BY <2>1, <3>2 DEF Appended, Record
        <4> QED
          BY <2>t, <4>1, <4>2
      <3> QED
        BY <3>1, <3>2
    <2>2. ASSUME NEW given, NEW taken, NEW done, HandedOver(given, taken, done)
          PROVE  events'[m] >= 1
      <3>1. status'[m] = IF m \in done THEN "delivered" ELSE status[m]
        BY <2>2 DEF HandedOver, Settle
      <3>2. events'[m] \in {events[m], events[m] + 1} /\ (m \in done => events'[m] = events[m] + 1)
        BY <2>2 DEF HandedOver, Record
      <3> QED
        BY <2>t, <3>1, <3>2
    <2>3. ASSUME NEW n \in MsgIds, Withdrawn(n)
          PROVE  events'[m] >= 1
      BY <2>3, <2>t DEF Withdrawn, TypeOK
    <2>4. CASE Unmoved
      BY <2>4, <2>t DEF Unmoved
    <2> QED
      BY <2>1, <2>2, <2>3, <2>4, StepShape
  <1> QED
    BY <1>1, <1>2, RowsCorrect, PTL DEF Spec

(* One event for every settled message and none for another, while no      *)
(* handler is cut between its row and its event.                           *)
THEOREM AuditExact ==
    ASSUME Faults \intersect {"send", "replay", "receive"} = {}
    PROVE  Spec => []AuditIsExact
  <1>1. Spec => []AtMostOneEvent
    BY AuditNeverDoubles
  <1>2. Spec => []AtLeastOneEvent
    BY AuditNeverMisses
  <1>3. TypeOK /\ AtMostOneEvent /\ AtLeastOneEvent => AuditIsExact
    BY DEF TypeOK, AtMostOneEvent, AtLeastOneEvent, AuditIsExact
  <1> QED
    BY <1>1, <1>2, <1>3, TypeCorrect, PTL

----------------------------------------------------------------------------
(* Keys and the clock.  Of the envelopes, the idempotency rows and the     *)
(* clock it matters only that accept() writes all three, and nothing else  *)
(* any, but for the clock of a send that rolled back.                      *)

Accepts == \E p \in Permitted, c \in Contents, r \in 0..next, k \in Keys \union {NoKey},
              v \in Channels, first \in Statuses : Accept(p[1], p[2], p[3], c, r, k, v, first)

Unwritten ==
    /\ UNCHANGED <<next, envelope, idem>>
    /\ sec' \in {sec, sec + 1}
    /\ \/ lastSend' = lastSend
       \/ /\ "accept" \in Faults /\ sec' = sec
          /\ \E f \in Identities : lastSend' = [lastSend EXCEPT ![f] = sec]

LEMMA StepWrites ==
    ASSUME TypeOK, [Next]_vars
    PROVE  Accepts \/ Unwritten
  <1>1. CASE Send
    <2> "pending" \in Statuses /\ "delivered" \in Statuses
      BY DEF Statuses
    <2>1. PICK p \in Permitted, c \in Contents, r \in 0..next,
               k \in Keys \union {NoKey}, v \in Channels :
          \/ SendQueued(p[1], p[2], p[3], c, r, k, v)
          \/ SendDropped(p[1], p[2], p[3], c, r, k, v)
          \/ \E reach \in SUBSET {next + 1} :
                 \/ SendDelivered(p[1], p[2], p[3], c, r, k, v, reach)
                 \/ SendCut(p[1], p[2], p[3], c, r, k, v, reach)
          \/ \E dies \in BOOLEAN : SendRolledBack(p[1], p[2], p[3], r, k, v, dies)
      BY <1>1 DEF Send
    <2>2. ASSUME NEW dies \in BOOLEAN, SendRolledBack(p[1], p[2], p[3], r, k, v, dies)
          PROVE  Unwritten
      BY <2>2, IdentitiesAssumption DEF SendRolledBack, rows, Unwritten
    <2>3. ASSUME ~ \E dies \in BOOLEAN : SendRolledBack(p[1], p[2], p[3], r, k, v, dies)
          PROVE  \E first \in Statuses : Accept(p[1], p[2], p[3], c, r, k, v, first)
      BY <2>1, <2>3 DEF SendQueued, SendDropped, SendDelivered, SendCut
    <2> QED
      BY <2>2, <2>3 DEF Accepts
  <1>2. CASE Retry
    BY <1>2 DEF Retry, SendAgain, rows, Unwritten
  <1>3. ASSUME NEW i \in Identities, Replay(i) \/ Disconnect(i) \/ Fetch(i)
        PROVE  Unwritten
    <2>1. CASE Replay(i)
      BY <2>1 DEF Replay, Connect, ConnectCut, Unwritten
    <2>2. CASE Disconnect(i)
      BY <2>2 DEF Disconnect, rows, Unwritten
    <2>3. CASE Fetch(i)
      BY <2>3 DEF Fetch, Receive, ReceiveRolledBack, rows, Unwritten
    <2> QED
      BY <1>3, <2>1, <2>2, <2>3
  <1>4. CASE Restart \/ Tick \/ UNCHANGED vars
    BY <1>4 DEF Restart, Tick, vars, rows, Unwritten
  <1>5. ASSUME NEW m \in MsgIds, Lapse(m)
        PROVE  Unwritten
    BY <1>5 DEF Lapse, Unwritten
  <1>6. ASSUME NEW f \in Identities, NEW m \in MsgIds, Recall(f, m)
        PROVE  Unwritten
    BY <1>6 DEF Recall, Unwritten
  <1> QED
    BY <1>1, <1>2, <1>3, <1>4, <1>5, <1>6 DEF Next

(* A key names exactly the message accepted under it, whatever fails.      *)
THEOREM KeysNameOne == Spec => []KeyNamesOneMessage
  <1>1. Init => KeyNamesOneMessage
    <2> SUFFICES ASSUME Init
                 PROVE  KeyNamesOneMessage
      OBVIOUS
    <2> next = 0 /\ idem = {}
      BY DEF Init
    <2> QED
      BY DEF KeyNamesOneMessage, IdemFor
  <1>2. TypeOK /\ KeyNamesOneMessage /\ [Next]_vars => KeyNamesOneMessage'
    <2> SUFFICES ASSUME TypeOK, KeyNamesOneMessage, [Next]_vars,
                        NEW s \in Identities, NEW k \in Keys
                 PROVE  {m \in 1..next' : envelope'[m].sentBy = s /\ envelope'[m].key = k}
                            = {e.id : e \in IdemFor(s, k)'}
      BY DEF KeyNamesOneMessage
    <2> DEFINE Named == {m \in 1..next : envelope[m].sentBy = s /\ envelope[m].key = k}
               NamedAfter == {m \in 1..next' : envelope'[m].sentBy = s /\ envelope'[m].key = k}
    <2>1. Named = {e.id : e \in IdemFor(s, k)}
      BY DEF KeyNamesOneMessage
    <2>2. CASE Unwritten
      BY <2>1, <2>2 DEF Unwritten, IdemFor
    <2>3. ASSUME NEW p \in Permitted, NEW c \in Contents, NEW r \in 0..next,
                 NEW key \in Keys \union {NoKey}, NEW v \in Channels, NEW first \in Statuses,
                 Accept(p[1], p[2], p[3], c, r, key, v, first)
          PROVE  NamedAfter = {e.id : e \in IdemFor(s, k)'}
      <3> DEFINE row == [by |-> p[1], key |-> key, digest |-> Digest(p[2], p[3], c, r),
                         id |-> next + 1, status |-> first]
      <3>1. next \in Nat /\ next' = next + 1 /\ next + 1 \in MsgIds
        <4>1. next \in Nat /\ next' = next + 1
          BY <2>3, BoundsAssumption DEF Accept, TypeOK
        <4>2. next + 1 \in MsgIds
          BY <2>3, AcceptType
        <4> QED
          BY <4>1, <4>2
      <3>2. /\ envelope'[next + 1].sentBy = p[1] /\ envelope'[next + 1].key = key
            /\ \A m \in 1..next : envelope'[m] = envelope[m]
        BY <2>3, <3>1, BoundsAssumption DEF Accept, TypeOK
      <3>3. idem' = IF key = NoKey THEN idem ELSE idem \union {row}
        <4> DEFINE added == [by : {p[1]}, key : {key} \ {NoKey},
                             digest : {Digest(p[2], p[3], c, r)},
                             id : {next + 1}, status : {first}]
        <4>1. idem' = idem \union added
          BY <2>3 DEF Accept
        <4>2. CASE key = NoKey
          BY <4>1, <4>2
        <4>3. CASE key # NoKey
          <5>1. {key} \ {NoKey} = {key}
            BY <4>3
          <5>2. added = {row}
            <6>1. row \in added
              BY <5>1
            <6>2. ASSUME NEW x \in added
                  PROVE  x = row
              <7>1. x = [by |-> x.by, key |-> x.key, digest |-> x.digest, id |-> x.id,
                         status |-> x.status]
                OBVIOUS
              <7>2. /\ x.by = p[1] /\ x.key = key /\ x.digest = Digest(p[2], p[3], c, r)
                    /\ x.id = next + 1 /\ x.status = first
                OBVIOUS
              <7> QED
                BY <7>1, <7>2
            <6> HIDE DEF added, row
            <6> QED
              BY <6>1, <6>2
          <5> HIDE DEF added, row
          <5> QED
            BY <4>1, <4>3, <5>2
        <4> QED
          BY <4>2, <4>3
      <3>4. CASE p[1] = s /\ key = k
        <4>1. key # NoKey
          BY <3>4, KeysAssumption
        <4>2. NamedAfter = Named \union {next + 1}
          BY <3>1, <3>2, <3>4
        <4>3. IdemFor(s, k)' = IdemFor(s, k) \union {row}
          BY <3>3, <3>4, <4>1 DEF IdemFor
        <4>4. row.id = next + 1
          OBVIOUS
        <4> HIDE DEF row, Named, NamedAfter
        <4> QED
          BY <2>1, <4>2, <4>3, <4>4
      <3>5. CASE ~(p[1] = s /\ key = k)
        <4>1. NamedAfter = Named
          BY <3>1, <3>2, <3>5
        <4>2. IdemFor(s, k)' = IdemFor(s, k)
          BY <3>3, <3>5 DEF IdemFor
        <4> QED
          BY <2>1, <4>1, <4>2
      <3> QED
        BY <3>4, <3>5
    <2> QED
      BY <2>2, <2>3, StepWrites DEF Accepts
  <1> QED
    BY <1>1, <1>2, TypeCorrect, PTL DEF Spec

(* No row is stamped in the future. *)
StampsArePast == \A m \in 1..next : envelope[m].ts <= sec

(* The dormancy clock is the time of the last send that persisted, while   *)
(* no send rolls back.                                                     *)
THEOREM ClockCorrect ==
    ASSUME "accept" \notin Faults
    PROVE  Spec => []ClockIsLastSend
  <1> DEFINE Times(f) == {envelope[m].ts : m \in {n \in 1..next : envelope[n].from = f}}
             Clocked(f) == IF Times(f) = {} THEN lastSend[f] = -1
                           ELSE lastSend[f] \in Times(f) /\ \A x \in Times(f) : x <= lastSend[f]
  <1>1. Init => StampsArePast /\ ClockIsLastSend
    <2> SUFFICES ASSUME Init
                 PROVE  StampsArePast /\ ClockIsLastSend
      OBVIOUS
    <2> next = 0 /\ 1..next = {} /\ \A f \in Identities : lastSend[f] = -1
      BY DEF Init
    <2> QED
      BY DEF StampsArePast, ClockIsLastSend
  <1>2. TypeOK /\ StampsArePast /\ ClockIsLastSend /\ [Next]_vars
            => StampsArePast' /\ ClockIsLastSend'
    <2> SUFFICES ASSUME TypeOK, StampsArePast, ClockIsLastSend, [Next]_vars
                 PROVE  StampsArePast' /\ ClockIsLastSend'
      OBVIOUS
    <2> sec \in Nat /\ next \in Nat
      BY BoundsAssumption DEF TypeOK
    <2> \A m \in 1..next : envelope[m].ts \in Nat
      BY BoundsAssumption DEF TypeOK, Envelopes
    <2>1. CASE Unwritten
      <3>1. StampsArePast'
        BY <2>1 DEF Unwritten, StampsArePast
      <3>2. ClockIsLastSend'
        <4>1. ASSUME NEW f \in Identities
              PROVE  Clocked(f)'
          <5>1. Times(f)' = Times(f) /\ lastSend' = lastSend
            BY <2>1 DEF Unwritten
          <5>2. Clocked(f)
            BY DEF ClockIsLastSend
          <5> HIDE DEF Times
          <5> QED
            BY <5>1, <5>2
        <4> QED
          BY <4>1 DEF ClockIsLastSend
      <3> QED
        BY <3>1, <3>2
    <2>2. ASSUME NEW p \in Permitted, NEW c \in Contents, NEW r \in 0..next,
                 NEW key \in Keys \union {NoKey}, NEW v \in Channels, NEW first \in Statuses,
                 Accept(p[1], p[2], p[3], c, r, key, v, first)
          PROVE  StampsArePast' /\ ClockIsLastSend'
      <3>1. next' = next + 1 /\ next + 1 \in MsgIds /\ sec' = sec /\ p[2] \in Identities
        BY <2>2, AcceptType, IdentitiesAssumption DEF Accept
      <3>2. /\ envelope'[next + 1].ts = sec /\ envelope'[next + 1].from = p[2]
            /\ \A m \in 1..next : envelope'[m] = envelope[m]
        BY <2>2, <3>1, BoundsAssumption DEF Accept, TypeOK
      <3>3. lastSend' = [lastSend EXCEPT ![p[2]] = sec]
        BY <2>2 DEF Accept
      <3>4. StampsArePast'
        BY <3>1, <3>2 DEF StampsArePast
      <3>5. ASSUME NEW f \in Identities
            PROVE  Clocked(f)'
        <4>1. Clocked(f)
          BY DEF ClockIsLastSend
        <4>2. CASE f = p[2]
          <5>1. Times(f)' = Times(f) \union {sec}
            BY <3>1, <3>2, <4>2
          <5>2. lastSend'[f] = sec
            BY <3>3, <4>2 DEF TypeOK
          <5>3. \A x \in Times(f) : x <= sec
            BY DEF StampsArePast
          <5> HIDE DEF Times
          <5> QED
            BY <5>1, <5>2, <5>3
        <4>3. CASE f # p[2]
          <5>1. Times(f)' = Times(f)
            BY <3>1, <3>2, <4>3
          <5>2. lastSend'[f] = lastSend[f]
            BY <3>3, <4>3 DEF TypeOK
          <5> HIDE DEF Times
          <5> QED
            BY <4>1, <5>1, <5>2
        <4> QED
          BY <4>2, <4>3
      <3>6. ClockIsLastSend'
        BY <3>5 DEF ClockIsLastSend
      <3> QED
        BY <3>4, <3>6
    <2> QED
      BY <2>1, <2>2, StepWrites DEF Accepts
  <1> QED
    BY <1>1, <1>2, TypeCorrect, PTL DEF Spec

(* Whatever rolls back, the dormancy clock is never behind: a send that    *)
(* failed moves it too far, and none that persisted is missing from it, so *)
(* nobody is found dormant too early.                                      *)
ClockNotBehind ==
    \A f \in Identities, m \in 1..next : envelope[m].from = f => envelope[m].ts <= lastSend[f]

(* Every accepted send moved the clock of its sender. *)
THEOREM ClockNeverBehind == Spec => []ClockNotBehind
  <1>1. Init => StampsArePast /\ ClockNotBehind
    <2> SUFFICES ASSUME Init
                 PROVE  StampsArePast /\ ClockNotBehind
      OBVIOUS
    <2> 1..next = {}
      BY DEF Init
    <2> QED
      BY DEF StampsArePast, ClockNotBehind
  <1>2. TypeOK /\ StampsArePast /\ ClockNotBehind /\ [Next]_vars
            => StampsArePast' /\ ClockNotBehind'
    <2> SUFFICES ASSUME TypeOK, StampsArePast, ClockNotBehind, [Next]_vars
                 PROVE  StampsArePast' /\ ClockNotBehind'
      OBVIOUS
    <2> sec \in Nat /\ next \in Nat /\ DOMAIN lastSend = Identities
      BY BoundsAssumption DEF TypeOK
    <2> \A m \in 1..next : envelope[m].ts \in Nat
      BY BoundsAssumption DEF TypeOK, Envelopes
    <2>1. CASE Unwritten
      <3>1. /\ next' = next /\ envelope' = envelope /\ sec' \in {sec, sec + 1}
            /\ \A f \in Identities : lastSend'[f] \in {lastSend[f], sec}
        BY <2>1 DEF Unwritten
      <3> QED
        BY <3>1 DEF StampsArePast, ClockNotBehind
    <2>2. ASSUME NEW p \in Permitted, NEW c \in Contents, NEW r \in 0..next,
                 NEW key \in Keys \union {NoKey}, NEW v \in Channels, NEW first \in Statuses,
                 Accept(p[1], p[2], p[3], c, r, key, v, first)
          PROVE  StampsArePast' /\ ClockNotBehind'
      <3>1. next' = next + 1 /\ next + 1 \in MsgIds /\ sec' = sec /\ p[2] \in Identities
        BY <2>2, AcceptType, IdentitiesAssumption DEF Accept
      <3>2. /\ envelope'[next + 1].ts = sec /\ envelope'[next + 1].from = p[2]
            /\ \A m \in 1..next : envelope'[m] = envelope[m]
        BY <2>2, <3>1, BoundsAssumption DEF Accept, TypeOK
      <3>3. \A f \in Identities : lastSend'[f] = IF f = p[2] THEN sec ELSE lastSend[f]
        BY <2>2 DEF Accept
      <3>4. \A m \in 1..next' : m = next + 1 \/ m \in 1..next
        BY <3>1
      <3> QED
        BY <3>1, <3>2, <3>3, <3>4 DEF StampsArePast, ClockNotBehind
    <2> QED
      BY <2>1, <2>2, StepWrites DEF Accepts
  <1> QED
    BY <1>1, <1>2, TypeCorrect, PTL DEF Spec

----------------------------------------------------------------------------
(* Where the two documented promises that the code breaks give way.        *)

(* What left the hub and is not settled is, or was, on lease. *)
HandedOnLease == \A m \in handed : m <= next /\ (status[m] = "pending" => lease[m] # "none")

(* A message is withdrawn after it was handed over only when its lease     *)
(* lapsed (outbox.ts, the recall's `leased_until IS NULL OR leased_until < *)
(* now`).                                                                  *)
RecallsOnlyLapsed == [][\A m \in withdrawn' \ withdrawn : m \in handed => lease[m] = "lapsed"]_vars

(* A page is leased, and what a socket took is settled. *)
LEMMA LeaseStep ==
    ASSUME "replay" \notin Faults, TypeOK, RowsAreAccepted, HandedOnLease, [Next]_vars
    PROVE  HandedOnLease'
  <1> next \in Nat /\ DOMAIN status = MsgIds /\ DOMAIN lease = MsgIds /\ handed \subseteq MsgIds
    BY BoundsAssumption DEF TypeOK
  <1>1. CASE Send
    <2>1. PICK p \in Permitted, c \in Contents, r \in 0..next,
               k \in Keys \union {NoKey}, v \in Channels :
          \/ SendQueued(p[1], p[2], p[3], c, r, k, v)
          \/ SendDropped(p[1], p[2], p[3], c, r, k, v)
          \/ \E reach \in SUBSET {next + 1} :
                 \/ SendDelivered(p[1], p[2], p[3], c, r, k, v, reach)
                 \/ SendCut(p[1], p[2], p[3], c, r, k, v, reach)
          \/ \E dies \in BOOLEAN : SendRolledBack(p[1], p[2], p[3], r, k, v, dies)
      BY <1>1 DEF Send
    <2>2. CASE \/ SendQueued(p[1], p[2], p[3], c, r, k, v)
               \/ SendDropped(p[1], p[2], p[3], c, r, k, v)
      <3>1. /\ next' = next + 1 /\ handed' = handed /\ lease' = lease
            /\ status' = [status EXCEPT ![next + 1] = "pending"]
        BY <2>2 DEF SendQueued, SendDropped, Accept, AnswersWith, Settles
      <3> QED
        BY <3>1 DEF HandedOnLease
    <2>3. ASSUME NEW reach \in SUBSET {next + 1},
                 \/ SendDelivered(p[1], p[2], p[3], c, r, k, v, reach)
                 \/ SendCut(p[1], p[2], p[3], c, r, k, v, reach)
          PROVE  HandedOnLease'
      <3>1. /\ next' = next + 1 /\ handed' \subseteq handed \union {next + 1} /\ lease' = lease
            /\ status' = [status EXCEPT ![next + 1] = "delivered"]
        BY <2>3 DEF SendDelivered, SendCut, Accept, AnswersWith, Settles, Push
      <3>2. next < MaxMsgs
        BY <2>3 DEF SendDelivered, SendCut, Accept, CanSend
      <3>3. \A m \in MsgIds : status'[m] = IF m = next + 1 THEN "delivered" ELSE status[m]
        BY <3>1
      <3>4. next + 1 \in MsgIds
        BY <3>2, BoundsAssumption
      <3>5. ASSUME NEW m \in handed'
            PROVE  m <= next' /\ (status'[m] = "pending" => lease'[m] # "none")
        <4>1. CASE m = next + 1
          BY <3>1, <3>3, <3>4, <4>1
        <4>2. CASE m # next + 1
          <5>1. m \in handed /\ m \in MsgIds /\ m <= next
            BY <3>1, <4>2 DEF HandedOnLease
          <5> QED
            BY <3>1, <3>3, <4>2, <5>1 DEF HandedOnLease
        <4> QED
          BY <4>1, <4>2
      <3> QED
        BY <3>5 DEF HandedOnLease
    <2>4. ASSUME NEW dies \in BOOLEAN, SendRolledBack(p[1], p[2], p[3], r, k, v, dies)
          PROVE  HandedOnLease'
      BY <2>4 DEF SendRolledBack, rows, observed, HandedOnLease
    <2> QED
      BY <2>1, <2>2, <2>3, <2>4
  <1>2. CASE Retry
    BY <1>2 DEF Retry, SendAgain, rows, HandedOnLease
  <1>3. ASSUME NEW i \in Identities, Replay(i)
        PROVE  HandedOnLease'
    <2>1. PICK S \in SUBSET PendingFor(i) : \E reach \in SUBSET S : Connect(i, S, reach)
      BY <1>3 DEF Replay, ConnectCut
    <2>2. /\ next' = next /\ lease' = lease /\ handed' = handed \union S
          /\ \A m \in MsgIds : status'[m] = IF m \in S THEN "delivered" ELSE status[m]
      BY <2>1 DEF Connect, Push, Settle
    <2>3. \A m \in S : m \in MsgIds /\ m <= next
      BY DEF PendingFor, RowsAreAccepted
    <2> QED
      BY <2>2, <2>3 DEF HandedOnLease
  <1>4. ASSUME NEW i \in Identities, Fetch(i)
        PROVE  HandedOnLease'
    <2>1. PICK acks \in SUBSET Acknowledgeable(i) :
          \/ \E page \in SUBSET Leasable(i), survives \in BOOLEAN : Receive(i, acks, page, survives)
          \/ \E dies \in BOOLEAN : ReceiveRolledBack(i, acks, dies)
      BY <1>4 DEF Fetch
    <2>2. ASSUME NEW page \in SUBSET Leasable(i), NEW survives \in BOOLEAN,
                 Receive(i, acks, page, survives)
          PROVE  HandedOnLease'
      <3>1. /\ next' = next /\ handed' = handed \union page
            /\ \A m \in MsgIds :
                 /\ status'[m] = IF m \in Settled(i, acks) THEN "delivered" ELSE status[m]
                 /\ lease'[m] = IF m \in Settled(i, acks) THEN "none"
                               ELSE IF m \in page THEN "live" ELSE lease[m]
        BY <2>2 DEF Receive, Settle
      <3>2. \A m \in page : m \in MsgIds /\ m <= next
        BY DEF Leasable, PendingFor, RowsAreAccepted
      <3> QED
        BY <3>1, <3>2 DEF HandedOnLease
    <2>3. ASSUME NEW dies \in BOOLEAN, ReceiveRolledBack(i, acks, dies)
          PROVE  HandedOnLease'
      BY <2>3 DEF ReceiveRolledBack, rows, observed, HandedOnLease
    <2> QED
      BY <2>1, <2>2, <2>3
  <1>5. ASSUME NEW i \in Identities, Disconnect(i)
        PROVE  HandedOnLease'
    BY <1>5 DEF Disconnect, rows, observed, HandedOnLease
  <1>6. CASE Restart \/ Tick \/ UNCHANGED vars
    BY <1>6 DEF Restart, Tick, vars, rows, observed, HandedOnLease
  <1>7. ASSUME NEW n \in MsgIds, Lapse(n)
        PROVE  HandedOnLease'
    BY <1>7 DEF Lapse, observed, HandedOnLease
  <1>8. ASSUME NEW f \in Identities, NEW n \in MsgIds, Recall(f, n)
        PROVE  HandedOnLease'
    BY <1>8 DEF Recall, HandedOnLease
  <1> QED
    BY <1>1, <1>2, <1>3, <1>4, <1>5, <1>6, <1>7, <1>8 DEF Next

(* While no replay is cut between a frame and its row, a lease that lapsed *)
(* is the only way in which a sender takes back what the recipient may     *)
(* have: RecallBeforeHandover fails there and nowhere else.                *)
THEOREM RecallsLapsed ==
    ASSUME "replay" \notin Faults
    PROVE  Spec => RecallsOnlyLapsed
  <1> DEFINE Lapsed == \A m \in withdrawn' \ withdrawn : m \in handed => lease[m] = "lapsed"
  <1>1. Init => HandedOnLease
    BY DEF Init, HandedOnLease
  <1>2. TypeOK /\ RowsAreAccepted /\ HandedOnLease /\ [Next]_vars => HandedOnLease'
    BY LeaseStep
  <1>3. TypeOK /\ RowsAreAccepted /\ HandedOnLease /\ [Next]_vars => [Lapsed]_vars
    <2> SUFFICES ASSUME TypeOK, RowsAreAccepted, HandedOnLease, [Next]_vars
                 PROVE  Lapsed
      OBVIOUS
    <2>1. ASSUME NEW n \in MsgIds, Withdrawn(n)
          PROVE  Lapsed
      BY <2>1 DEF Withdrawn, Pending, Unleased, HandedOnLease
    <2>2. ASSUME ~ \E n \in MsgIds : Withdrawn(n)
          PROVE  withdrawn' = withdrawn
      BY <2>2, StepShape DEF Appended, HandedOver, Unmoved
    <2> QED
      BY <2>1, <2>2
  <1> QED
    BY <1>1, <1>2, <1>3, RowsCorrect, PTL DEF Spec, RecallsOnlyLapsed

(* What a retry is told of a send that answered `ans`: the same, or        *)
(* "delivered" of a frame that a socket dropped, or of a send whose        *)
(* process died before it answered (send.ts, the idempotency lookup).      *)
MayTell(st, ans) ==
    \/ st = ans
    \/ st = "delivered" /\ ans = "pending"
    \/ st = "delivered" /\ ans = "none" /\ "send" \in Faults

RetryOverstates == \A m \in MsgIds : told[m] = "none" \/ MayTell(told[m], answer[m])

(* The stored status may be told of its message; ids not yet given out     *)
(* were told to nobody.                                                    *)
StoredMayBeTold ==
    /\ \A e \in idem : e.id <= next /\ MayTell(e.status, answer[e.id])
    /\ \A m \in MsgIds : told[m] # "none" => m <= next

(* accept() stores the status for the new id only. *)
LEMMA StoringStatus ==
    ASSUME TypeOK, StoredMayBeTold, RetryOverstates,
           NEW p \in Permitted, NEW c \in Contents, NEW r \in 0..next,
           NEW k \in Keys \union {NoKey}, NEW v \in Channels, NEW first \in Statuses,
           Accept(p[1], p[2], p[3], c, r, k, v, first),
           MayTell(first, answer'[next + 1]),
           \A m \in MsgIds : m # next + 1 => answer'[m] = answer[m]
    PROVE  StoredMayBeTold' /\ RetryOverstates'
  <1>1. next \in Nat /\ next' = next + 1 /\ next + 1 \in MsgIds /\ told' = told
    <2>1. next + 1 \in MsgIds
      BY AcceptType
    <2> QED
      BY <2>1, BoundsAssumption DEF Accept, TypeOK
  <1>2. \A e \in idem' : e \in idem \/ (e.id = next + 1 /\ e.status = first)
    BY DEF Accept
  <1>3. ASSUME NEW e \in idem'
        PROVE  e.id <= next' /\ MayTell(e.status, answer'[e.id])
    <2>1. CASE e \in idem
      <3>1. e.id \in MsgIds /\ e.id <= next /\ MayTell(e.status, answer[e.id])
        BY <2>1 DEF StoredMayBeTold, TypeOK, IdemRows
      <3> QED
        BY <1>1, <3>1
    <2>2. CASE e.id = next + 1 /\ e.status = first
      BY <1>1, <2>2
    <2> QED
      BY <1>2, <2>1, <2>2
  <1>4. ASSUME NEW m \in MsgIds
        PROVE  /\ told'[m] # "none" => m <= next'
               /\ told'[m] = "none" \/ MayTell(told'[m], answer'[m])
    <2>1. /\ told[m] # "none" => m <= next
          /\ told[m] = "none" \/ MayTell(told[m], answer[m])
      BY DEF StoredMayBeTold, RetryOverstates
    <2>2. CASE m = next + 1
      BY <1>1, <2>1, <2>2
    <2>3. CASE m # next + 1
      <3>1. answer'[m] = answer[m]
        BY <2>3
      <3>2. told[m] # "none" => m <= next + 1
        BY <1>1, <2>1
      <3> QED
        BY <1>1, <2>1, <3>1, <3>2
    <2> QED
      BY <2>2, <2>3
  <1> QED
    BY <1>3, <1>4 DEF StoredMayBeTold, RetryOverstates, MayTell

LEMMA TellingStep ==
    ASSUME TypeOK, StoredMayBeTold, RetryOverstates, [Next]_vars
    PROVE  StoredMayBeTold' /\ RetryOverstates'
  <1> DEFINE Untold == UNCHANGED <<next, idem, answer, told>>
  <1>1. CASE Send
    <2>1. PICK p \in Permitted, c \in Contents, r \in 0..next,
               k \in Keys \union {NoKey}, v \in Channels :
          \/ SendQueued(p[1], p[2], p[3], c, r, k, v)
          \/ SendDropped(p[1], p[2], p[3], c, r, k, v)
          \/ \E reach \in SUBSET {next + 1} :
                 \/ SendDelivered(p[1], p[2], p[3], c, r, k, v, reach)
                 \/ SendCut(p[1], p[2], p[3], c, r, k, v, reach)
          \/ \E dies \in BOOLEAN : SendRolledBack(p[1], p[2], p[3], r, k, v, dies)
      BY <1>1 DEF Send
    <2>s. "pending" \in Statuses /\ "delivered" \in Statuses
      BY DEF Statuses
    <2>a. ASSUME NEW first \in Statuses, Accept(p[1], p[2], p[3], c, r, k, v, first)
          PROVE  next + 1 \in MsgIds /\ answer \in [MsgIds -> Statuses \union {"none"}]
      BY <2>a, AcceptType DEF TypeOK
    <2>2. CASE SendQueued(p[1], p[2], p[3], c, r, k, v)
      <3>1. /\ Accept(p[1], p[2], p[3], c, r, k, v, "pending")
            /\ answer' = [answer EXCEPT ![next + 1] = "pending"]
        BY <2>2 DEF SendQueued, AnswersWith
      <3>2. MayTell("pending", answer'[next + 1]) /\ \A m \in MsgIds : m # next + 1 => answer'[m] = answer[m]
        BY <2>a, <2>s, <3>1 DEF MayTell
      <3> QED
        BY <2>s, <3>1, <3>2, StoringStatus
    <2>3. CASE SendDropped(p[1], p[2], p[3], c, r, k, v)
      <3>1. /\ Accept(p[1], p[2], p[3], c, r, k, v, "delivered")
            /\ answer' = [answer EXCEPT ![next + 1] = "pending"]
        BY <2>3 DEF SendDropped, AnswersWith
      <3>2. MayTell("delivered", answer'[next + 1]) /\ \A m \in MsgIds : m # next + 1 => answer'[m] = answer[m]
        BY <2>a, <2>s, <3>1 DEF MayTell
      <3> QED
        BY <2>s, <3>1, <3>2, StoringStatus
    <2>4. ASSUME NEW reach \in SUBSET {next + 1}, SendDelivered(p[1], p[2], p[3], c, r, k, v, reach)
          PROVE  StoredMayBeTold' /\ RetryOverstates'
      <3>1. /\ Accept(p[1], p[2], p[3], c, r, k, v, "delivered")
            /\ answer' = [answer EXCEPT ![next + 1] = "delivered"]
        BY <2>4 DEF SendDelivered, AnswersWith
      <3>2. MayTell("delivered", answer'[next + 1]) /\ \A m \in MsgIds : m # next + 1 => answer'[m] = answer[m]
        BY <2>a, <2>s, <3>1 DEF MayTell
      <3> QED
        BY <2>s, <3>1, <3>2, StoringStatus
    <2>5. ASSUME NEW reach \in SUBSET {next + 1}, SendCut(p[1], p[2], p[3], c, r, k, v, reach)
          PROVE  StoredMayBeTold' /\ RetryOverstates'
      <3>1. /\ Accept(p[1], p[2], p[3], c, r, k, v, "delivered")
            /\ answer' = answer /\ "send" \in Faults
        BY <2>5 DEF SendCut
      <3>2. answer'[next + 1] \in Statuses \union {"none"}
        BY <2>a, <2>s, <3>1
      <3>3. MayTell("delivered", answer'[next + 1])
        BY <3>1, <3>2 DEF MayTell, Statuses
      <3> QED
        BY <2>s, <3>1, <3>3, StoringStatus
    <2>6. ASSUME NEW dies \in BOOLEAN, SendRolledBack(p[1], p[2], p[3], r, k, v, dies)
          PROVE  Untold
      BY <2>6 DEF SendRolledBack, rows, observed
    <2> QED
      BY <2>1, <2>2, <2>3, <2>4, <2>5, <2>6 DEF StoredMayBeTold, RetryOverstates, MayTell
  <1>2. CASE Retry
    <2>1. PICK p \in Permitted, c \in Contents, r \in 0..next, k \in Keys :
              SendAgain(p[1], p[2], p[3], c, r, k)
      BY <1>2 DEF Retry
    <2>2. PICK e \in IdemFor(p[1], k) :
              /\ told' = [told EXCEPT ![e.id] = e.status]
              /\ UNCHANGED <<sec, next, rows, lastSend, live, events,
                             handed, kept, withdrawn, lost, answer>>
      BY <2>1 DEF SendAgain
    <2>3. e.id \in MsgIds /\ e.id <= next /\ MayTell(e.status, answer[e.id])
      BY DEF IdemFor, TypeOK, IdemRows, StoredMayBeTold
    <2>4. UNCHANGED <<next, idem, answer>>
      BY <2>2 DEF rows
    <2>5. \A m \in MsgIds : told'[m] = IF m = e.id THEN e.status ELSE told[m]
      BY <2>2 DEF TypeOK
    <2> QED
      BY <2>3, <2>4, <2>5 DEF StoredMayBeTold, RetryOverstates, MayTell
  <1>3. ASSUME NEW i \in Identities, Replay(i) \/ Disconnect(i) \/ Fetch(i)
        PROVE  Untold
    BY <1>3 DEF Replay, Connect, ConnectCut, Disconnect, Fetch, Receive, ReceiveRolledBack, rows, observed
  <1>4. CASE Restart \/ Tick \/ UNCHANGED vars
    BY <1>4 DEF Restart, Tick, vars, rows, observed, StoredMayBeTold, RetryOverstates, MayTell
  <1>5. ASSUME NEW m \in MsgIds, Lapse(m)
        PROVE  Untold
    BY <1>5 DEF Lapse, observed
  <1>6. ASSUME NEW f \in Identities, NEW m \in MsgIds, Recall(f, m)
        PROVE  Untold
    BY <1>6 DEF Recall
  <1>7. Untold => StoredMayBeTold' /\ RetryOverstates'
    BY DEF StoredMayBeTold, RetryOverstates, MayTell
  <1> QED
    BY <1>1, <1>2, <1>3, <1>4, <1>5, <1>6, <1>7 DEF Next

(* A retry may be told too much and never too little: a send answered      *)
(* "delivered" is never called pending later, and the answers part in the  *)
(* two ways MayTell names and in no other, whatever the faults.            *)
THEOREM RetriesOnlyOverstate == Spec => []RetryOverstates
  <1>1. Init => StoredMayBeTold /\ RetryOverstates
    BY DEF Init, StoredMayBeTold, RetryOverstates
  <1>2. TypeOK /\ StoredMayBeTold /\ RetryOverstates /\ [Next]_vars
            => StoredMayBeTold' /\ RetryOverstates'
    BY TellingStep
  <1> QED
    BY <1>1, <1>2, TypeCorrect, PTL DEF Spec

----------------------------------------------------------------------------
(* The step simulation: a shape of step is a step of MessageDelivery.      *)

StageIs(m) ==
    IF m > next THEN "unsent"
    ELSE IF m \in withdrawn THEN "withdrawn"
    ELSE IF status[m] = "delivered" THEN "settled" ELSE "queued"

LEMMA StageValue == TypeOK /\ RowsAreAccepted => Stage = [m \in MsgIds |-> StageIs(m)]
  <1> SUFFICES ASSUME TypeOK, RowsAreAccepted
               PROVE  Stage = [m \in MsgIds |-> StageIs(m)]
    OBVIOUS
  <1> next \in Nat /\ MaxMsgs \in Nat
    BY BoundsAssumption DEF TypeOK
  <1>1. ASSUME NEW m \in MsgIds
        PROVE  Stage[m] = StageIs(m)
    <2>1. m > next => m \notin withdrawn
      BY DEF RowsAreAccepted
    <2>2. CASE m > next
      BY <2>1, <2>2 DEF Stage, StageIs
    <2>3. CASE m <= next /\ m \in withdrawn
      BY <2>3 DEF Stage, StageIs
    <2>4. CASE m <= next /\ m \notin withdrawn
      BY <2>4 DEF Stage, StageIs
    <2> QED
      BY <2>2, <2>3, <2>4
  <1>2. Stage = [m \in MsgIds |-> Stage[m]]
    BY DEF Stage
  <1> HIDE DEF MsgIds
  <1> QED
    BY <1>1, <1>2

LEMMA StepSimulates ==
    ASSUME TypeOK, RowsAreAccepted, [Next]_vars
    PROVE  [Delivery!DNext]_(Delivery!dvars)
  <1> next \in Nat /\ DOMAIN status = MsgIds /\ MaxMsgs \in Nat
    BY BoundsAssumption DEF TypeOK
  <1>1. Stage = [m \in MsgIds |-> StageIs(m)]
    BY StageValue
  <1>2. Stage' = [m \in MsgIds |-> StageIs(m)']
    <2>1. TypeOK' /\ RowsAreAccepted'
      BY TypePreserved, RowsPreserved
    <2>2. (TypeOK /\ RowsAreAccepted)' => (Stage = [m \in MsgIds |-> StageIs(m)])'
      BY StageValue, PTL
    <2> QED
      BY <2>1, <2>2
  <1>3. Pending = {m \in MsgIds : m \in Pending /\ Stage[m] = "queued"}
    BY <1>1 DEF Pending, StageIs, RowsAreAccepted
  <1>4. Pending \subseteq Delivery!Queued
    BY <1>3 DEF Delivery!Queued
  <1>5. ASSUME NEW st \in Statuses, Appended(st)
        PROVE  Delivery!Submit(next + 1) /\ next + 1 \in MsgIds
    <2>1. next + 1 \in MsgIds /\ next + 1 \notin withdrawn
      BY <1>5 DEF Appended, RowsAreAccepted
    <2>a. PICK id \in MsgIds : id = next + 1
      BY <2>1
    <2>2. Stage[id] = "unsent" /\ \A n \in MsgIds : n < id => Stage[n] # "unsent"
      BY <1>1, <2>a, <2>1 DEF StageIs
    <2>3. /\ \A n \in MsgIds \ {id} : StageIs(n)' = StageIs(n)
          /\ StageIs(id)' = IF st = "delivered" THEN "settled" ELSE "queued"
      <3>1. /\ next' = id /\ withdrawn' = withdrawn
            /\ status' = [status EXCEPT ![id] = st]
        BY <1>5, <2>a DEF Appended
      <3>2. status'[id] = st /\ \A n \in MsgIds \ {id} : status'[n] = status[n]
        BY <2>1, <3>1 DEF TypeOK
      <3>3. ASSUME NEW n \in MsgIds \ {id}
            PROVE  StageIs(n)' = StageIs(n)
        <4>1. n > next' <=> n > next
          BY <2>a, <3>1
        <4> QED
          BY <3>1, <3>2, <4>1 DEF StageIs
      <3>4. StageIs(id)' = IF st = "delivered" THEN "settled" ELSE "queued"
        BY <2>a, <2>1, <3>1, <3>2 DEF StageIs
      <3> QED
        BY <3>3, <3>4
    <2> DEFINE first == IF st = "delivered" THEN "settled" ELSE "queued"
    <2>4. Stage' = [Stage EXCEPT ![id] = first]
      <3> HIDE DEF first
      <3>1. StageIs(id)' = first
        BY <2>3 DEF first
      <3>2. Stage' = [m \in MsgIds |-> IF m = id THEN first ELSE StageIs(m)]
        BY <1>2, <2>1, <2>3, <3>1
      <3> QED
        BY <1>1, <2>1, <3>2
    <2>5. CASE st = "pending"
      BY <1>5, <2>a, <2>2, <2>4, <2>5 DEF Appended, Delivery!Submit
    <2>6. CASE st = "delivered"
      BY <1>5, <2>a, <2>2, <2>4, <2>6 DEF Appended, Delivery!Submit
    <2> QED
      BY <2>1, <2>5, <2>6 DEF Statuses
  <1>6. ASSUME NEW given, NEW taken, NEW done, HandedOver(given, taken, done)
        PROVE  /\ Delivery!Give(given, taken, done)
               /\ given \in SUBSET Delivery!Queued /\ taken \in SUBSET Delivery!Queued
               /\ done \in SUBSET Delivery!Queued
    <2>1. \A m \in MsgIds : StageIs(m)' = IF m \in done THEN "settled" ELSE StageIs(m)
      BY <1>6 DEF StageIs, HandedOver, Settle, Pending, RowsAreAccepted
    <2>2. Stage' = [m \in MsgIds |-> IF m \in done THEN "settled" ELSE Stage[m]]
      BY <1>1, <1>2, <2>1
    <2> QED
      BY <1>4, <1>6, <2>2 DEF HandedOver, Delivery!Give
  <1>7. ASSUME NEW m \in MsgIds, Withdrawn(m)
        PROVE  Delivery!Withdraw(m)
    <2>1. Stage[m] = "queued"
      BY <1>3, <1>7 DEF Withdrawn
    <2>2. /\ \A n \in MsgIds \ {m} : StageIs(n)' = StageIs(n)
          /\ StageIs(m)' = "withdrawn"
      BY <1>7 DEF StageIs, Withdrawn, Pending, RowsAreAccepted
    <2>3. Stage' = [Stage EXCEPT ![m] = "withdrawn"]
      BY <1>1, <1>2, <2>2
    <2> QED
      BY <1>7, <2>1, <2>3 DEF Withdrawn, Delivery!Withdraw
  <1>8. CASE Unmoved
    <2>1. \A m \in MsgIds : StageIs(m)' = StageIs(m)
      BY <1>8 DEF StageIs, Unmoved
    <2>2. Stage' = Stage
      BY <1>1, <1>2, <2>1
    <2> QED
      BY <1>8, <2>2 DEF Unmoved, Delivery!dvars
  <1> QED
    BY <1>5, <1>6, <1>7, <1>8, StepShape DEF Delivery!DNext

(* Store and forward implements MessageDelivery.                           *)
THEOREM DeliveryImplemented == Spec => ImplementsDelivery
  <1>1. Init => Delivery!DInit
    <2> SUFFICES ASSUME Init
                 PROVE  Delivery!DInit
      OBVIOUS
    <2>1. RowsAreAccepted /\ next = 0
      BY DEF Init, RowsAreAccepted
    <2>2. Stage = [m \in MsgIds |-> "unsent"]
      BY <2>1, TypeInitial, StageValue, BoundsAssumption DEF StageIs
    <2> QED
      BY <2>2 DEF Init, Delivery!DInit
  <1>2. TypeOK /\ RowsAreAccepted /\ [Next]_vars => [Delivery!DNext]_(Delivery!dvars)
    BY StepSimulates
  <1> QED
    BY <1>1, <1>2, RowsCorrect, PTL DEF Spec, ImplementsDelivery, Delivery!DSpec
=============================================================================
