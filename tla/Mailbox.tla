------------------------------ MODULE Mailbox ------------------------------
(***************************************************************************)
(* Store and forward in the hub: the rows of hub.db `messages` and         *)
(* `send_idempotency`, the dormancy clock in agents.db, the `delivered`    *)
(* events in audit.db, and the handlers that move them: mesh.send,         *)
(* the replay that follows mesh.connect, mesh.receive and the recall of    *)
(* DELETE /api/v1/mailbox/out/{id}.                                        *)
(*                                                                         *)
(* Every handler is one synchronous JavaScript turn, so it is one action.  *)
(* What can cut a turn in two is the process dying or a store refusing a   *)
(* write, and because the three databases commit separately a cut leaves   *)
(* them apart.  Faults names the ones a run explores.                      *)
(*                                                                         *)
(* Presence is the environment here: `live` is the set of identities a     *)
(* frame can be pushed to.  So is the send policy: a send it refuses       *)
(* changes nothing, and Permitted bounds the sends it may ever admit.  A   *)
(* lease is "live" until it lapses; the lapse is a step of its own, so a   *)
(* lease may last any length of time.                                      *)
(***************************************************************************)
EXTENDS Integers, FiniteSets

CONSTANTS
    Identities,    \* identities of agents.db
    Keys,          \* client_message_id values callers use
    Contents,      \* message bodies, as far as the request digest tells apart
    Permitted,     \* <<socket identity, from, to>> the send policy admits
    MaxMsgs,       \* bound: messages ever accepted
    MaxSec,        \* bound: seconds the clock can show
    MaxBatch,      \* max_receive_batch
    MaxEvents,     \* bound: `delivered` events recorded for one message
    Faults         \* which faults happen

(* accept: hub.db refuses or never reaches the commit of a send.           *)
(* send: the process dies between that commit and the audit record.        *)
(* replay: it dies inside the replay of pending rows.                      *)
(* receive: hub.db refuses or never reaches the commit of mesh.receive.    *)
(* halfopen: a socket takes a frame whose peer is already gone.            *)
AllFaults == {"accept", "send", "replay", "receive", "halfopen"}

ASSUME IdentitiesAssumption ==
    Permitted \subseteq Identities \X Identities \X Identities
ASSUME BoundsAssumption ==
    /\ MaxMsgs \in Nat /\ MaxSec \in Nat /\ MaxEvents \in Nat
    /\ MaxBatch \in Nat \ {0}
ASSUME FaultsAssumption == Faults \subseteq AllFaults

MsgIds == 1..MaxMsgs
None == 0                      \* a null reply_to
Nobody == "nobody"             \* the sender of a row not yet inserted
NoKey == "no client_message_id"
ASSUME KeysAssumption == NoKey \notin Keys
Channels == {"mesh", "mailbox"}
Statuses == {"pending", "delivered"}
Leases == {"none", "live", "lapsed"}

VARIABLES
    sec,         \* the wall clock, at the resolution datetime('now') has
    next,        \* messages accepted so far; the ids in use are 1..next
    envelope,    \* per id: the columns fixed by the insert, and the key sent
    status,      \* messages.status; "absent" when there is no row
    lease,       \* messages.leased_until: null, in the future, in the past
    idem,        \* the rows of send_idempotency
    lastSend,    \* agents.last_send_at, the dormancy clock
    live,        \* identities that onlineAgents or proxyMap has a socket for
    events,      \* per id: mesh.message.delivered events in audit.db
    handed,      \* ids that left the hub towards their recipient
    kept,        \* ids whose recipient has them safe
    withdrawn,   \* ids recalled by their sender
    lost,        \* ids a fault took after the hub called them delivered
    answer,      \* per id: the status the original send answered
    told         \* per id: the status a retry of that send was told last

rows == <<envelope, status, lease, idem>>
observed == <<handed, kept, withdrawn, lost, answer, told>>
vars == <<sec, next, rows, lastSend, live, events, observed>>

Digests == Identities \X Identities \X Contents \X (0..MaxMsgs)
IdemRows == [by : Identities, key : Keys, digest : Digests, id : MsgIds, status : Statuses]
Envelopes == [from : Identities \union {Nobody}, to : Identities \union {Nobody},
              sentBy : Identities \union {Nobody}, via : Channels,
              ts : 0..MaxSec, key : Keys \union {NoKey}]
NoEnvelope == [from |-> Nobody, to |-> Nobody, sentBy |-> Nobody, via |-> "mesh",
               ts |-> 0, key |-> NoKey]

Init ==
    /\ sec = 0
    /\ next = 0
    /\ envelope = [m \in MsgIds |-> NoEnvelope]
    /\ status = [m \in MsgIds |-> "absent"]
    /\ lease = [m \in MsgIds |-> "none"]
    /\ idem = {}
    /\ lastSend = [i \in Identities |-> -1]
    /\ live = {}
    /\ events = [m \in MsgIds |-> 0]
    /\ handed = {} /\ kept = {} /\ withdrawn = {} /\ lost = {}
    /\ answer = [m \in MsgIds |-> "none"]
    /\ told = [m \in MsgIds |-> "none"]

----------------------------------------------------------------------------
(* The tables. *)

PendingFor(i) == {m \in MsgIds : status[m] = "pending" /\ envelope[m].to = i}

(* Never leased, or leased to a caller whose lease has lapsed. *)
Unleased(m) == lease[m] \in {"none", "lapsed"}

(* Mutant: a lapsed lease is not offered again. *)
LeasableOnce(i) == {m \in PendingFor(i) : lease[m] = "none"}

Leasable(i) == {m \in PendingFor(i) : Unleased(m)}

(* ORDER BY ts ASC with a cut: nothing left behind is older than anything  *)
(* taken.  Rows of one second tie and come in either order.                *)
OldestOf(S, P) == S \subseteq P /\ \A m \in S, p \in P \ S : envelope[m].ts <= envelope[p].ts

(* The request digest: to, from, content and reply_to. *)
Digest(f, t, c, r) == <<t, f, c, r>>

IdemFor(s, k) == {e \in idem : e.by = s /\ e.key = k}

(* stmtMessageVia: no row, no channel. *)
ViaOf(r) == IF r \in MsgIds /\ status[r] # "absent" THEN envelope[r].via ELSE "unknown"

(* replyChannel(): a fresh send takes the mesh whenever the recipient is   *)
(* there.  A reply to mail takes it only when both ends are.               *)
TakesMesh(parentVia, recipientLive, senderLive) ==
    recipientLive /\ (parentVia = "mailbox" => senderLive)
(* Mutant: the row takes the name of the caller's act. *)
SettleAsAcked(S) == status' = [m \in MsgIds |-> IF m \in S THEN "acked" ELSE status[m]]

Settle(S) == status' = [m \in MsgIds |-> IF m \in S THEN "delivered" ELSE status[m]]
Record(S) == events' = [m \in MsgIds |-> IF m \in S THEN events[m] + 1 ELSE events[m]]

(* Frames a socket took: those of `reach` got to the recipient. *)
Push(S, reach) ==
    /\ reach \subseteq S
    /\ "halfopen" \in Faults \/ reach = S
    /\ handed' = handed \union S
    /\ kept' = kept \union reach
    /\ lost' = lost \union (S \ reach)

----------------------------------------------------------------------------
(* mesh.send *)

(* The refusals before anything is written.  Only a socket that declared   *)
(* its proxies speaks for another identity, and the mailbox route has none.*)
CanSend(s, f, t, r, k, v) ==
    /\ next < MaxMsgs
    /\ <<s, f, t>> \in Permitted
    /\ r \in 0..next
    /\ s # f => s \in live /\ v = "mesh"
    /\ IdemFor(s, k) = {}

Routed(f, t, r) == TakesMesh(ViaOf(r), t \in live, f \in live)

(* accept(): the message, the clock and the idempotency record.  `first`   *)
(* is the status decided from presence before the frame is tried, and it   *)
(* is what the idempotency record keeps.                                   *)
(* Mutant: the idempotency row is left out of the transaction. *)
AcceptWithoutKey(s, f, t, c, r, k, v, first) ==
    /\ CanSend(s, f, t, r, k, v)
    /\ next' = next + 1
    /\ envelope' = [envelope EXCEPT ![next + 1] =
           [from |-> f, to |-> t, sentBy |-> s, via |-> v, ts |-> sec, key |-> k]]
    /\ lastSend' = [lastSend EXCEPT ![f] = sec]
    /\ UNCHANGED <<sec, lease, withdrawn, told, idem>>

(* Mutant: the clock is stamped for the socket instead of the sender. *)
AcceptStampsSocket(s, f, t, c, r, k, v, first) ==
    /\ CanSend(s, f, t, r, k, v)
    /\ next' = next + 1
    /\ envelope' = [envelope EXCEPT ![next + 1] =
           [from |-> f, to |-> t, sentBy |-> s, via |-> v, ts |-> sec, key |-> k]]
    /\ lastSend' = [lastSend EXCEPT ![s] = sec]
    /\ UNCHANGED <<sec, lease, withdrawn, told, idem>>

Accept(s, f, t, c, r, k, v, first) ==
    LET m == next + 1 IN
    /\ CanSend(s, f, t, r, k, v)
    /\ next' = m
    /\ envelope' = [envelope EXCEPT ![m] =
           [from |-> f, to |-> t, sentBy |-> s, via |-> v, ts |-> sec, key |-> k]]
    /\ lastSend' = [lastSend EXCEPT ![f] = sec]
    /\ idem' = idem \union [by : {s}, key : {k} \ {NoKey}, digest : {Digest(f, t, c, r)},
                            id : {m}, status : {first}]
    /\ UNCHANGED <<sec, lease, withdrawn, told>>

Settles(st) == status' = [status EXCEPT ![next + 1] = st]
AnswersWith(st) == Settles(st) /\ answer' = [answer EXCEPT ![next + 1] = st]

(* No socket to push to, or the conversation belongs to the mailbox. *)
SendQueued(s, f, t, c, r, k, v) ==
    /\ ~Routed(f, t, r)
    /\ Accept(s, f, t, c, r, k, v, "pending")
    /\ AnswersWith("pending")
    /\ UNCHANGED <<live, events, handed, kept, lost>>

(* The socket took the frame: row, answer and audit event say delivered. *)
SendDelivered(s, f, t, c, r, k, v, reach) ==
    /\ Routed(f, t, r)
    /\ Accept(s, f, t, c, r, k, v, "delivered")
    /\ AnswersWith("delivered")
    /\ Record({next + 1})
    /\ Push({next + 1}, reach)
    /\ UNCHANGED live

(* The socket dropped the frame: the row goes back to pending and the      *)
(* answer says so.  The idempotency record is not revisited.               *)
SendDropped(s, f, t, c, r, k, v) ==
    /\ Routed(f, t, r)
    /\ Accept(s, f, t, c, r, k, v, "delivered")
    /\ AnswersWith("pending")
    /\ UNCHANGED <<live, events, handed, kept, lost>>

(* A retry under a used key, of the same request: the stored answer.  With *)
(* another digest it is refused and changes nothing.                       *)
SendAgain(s, f, t, c, r, k) ==
    \E e \in IdemFor(s, k) :
        /\ e.digest = Digest(f, t, c, r)
        /\ told' = [told EXCEPT ![e.id] = e.status]
        /\ UNCHANGED <<sec, next, rows, lastSend, live, events,
                       handed, kept, withdrawn, lost, answer>>

(* hub.db refuses or never reaches the commit after markSend committed to  *)
(* agents.db: the rows roll back, the clock does not.  `dies` when it was  *)
(* the process that went, and the presence maps with it.                   *)
SendRolledBack(s, f, t, r, k, v, dies) ==
    /\ "accept" \in Faults
    /\ CanSend(s, f, t, r, k, v)
    /\ lastSend' = [lastSend EXCEPT ![f] = sec]
    /\ live' = IF dies THEN {} ELSE live
    /\ UNCHANGED <<sec, next, rows, events, observed>>

(* The process dies after the commit, before the audit record; the frame   *)
(* may have gone by then.                                                  *)
SendCut(s, f, t, c, r, k, v, reach) ==
    /\ "send" \in Faults
    /\ Routed(f, t, r)
    /\ Accept(s, f, t, c, r, k, v, "delivered")
    /\ Settles("delivered")
    /\ reach \subseteq {next + 1}
    /\ handed' = handed \union reach /\ kept' = kept \union reach
    /\ lost' = lost \union ({next + 1} \ reach)
    /\ live' = {}
    /\ UNCHANGED <<events, answer>>

----------------------------------------------------------------------------
(* mesh.connect and the replay of what accumulated *)

(* Mutant: the loop ignores what sendFrame returned. *)
ConnectSettlesAll(i, S, reach) ==
    /\ OldestOf(S, PendingFor(i))
    /\ live' = live \union {i}
    /\ Settle(PendingFor(i)) /\ Record(S) /\ Push(S, reach)
    /\ UNCHANGED <<sec, next, envelope, lease, idem, lastSend, withdrawn, answer, told>>

(* Mutant: a replay is not recorded as a delivery. *)
ConnectUnrecorded(i, S, reach) ==
    /\ OldestOf(S, PendingFor(i))
    /\ live' = live \union {i}
    /\ Settle(S) /\ Push(S, reach)
    /\ UNCHANGED <<sec, next, envelope, lease, idem, lastSend, withdrawn, answer, told, events>>

(* The frames of S landed, oldest first; the first dropped frame ended the *)
(* loop.  The replay does not look at leases.                              *)
Connect(i, S, reach) ==
    /\ OldestOf(S, PendingFor(i))
    /\ live' = live \union {i}
    /\ Settle(S) /\ Record(S) /\ Push(S, reach)
    /\ UNCHANGED <<sec, next, envelope, lease, idem, lastSend, withdrawn, answer, told>>

(* The process dies after the frame of m landed: before its row was        *)
(* settled, or after that and before the audit record.                     *)
ConnectCut(i, S, m, rowSettled) ==
    /\ "replay" \in Faults
    /\ m \notin S
    /\ OldestOf(S, PendingFor(i)) /\ OldestOf(S \union {m}, PendingFor(i))
    /\ live' = {}
    /\ Settle(IF rowSettled THEN S \union {m} ELSE S) /\ Record(S)
    /\ handed' = handed \union S \union {m}
    /\ kept' = kept \union S \union {m}
    /\ UNCHANGED <<sec, next, envelope, lease, idem, lastSend, withdrawn, lost, answer, told>>

Disconnect(i) ==
    /\ i \in live
    /\ live' = live \ {i}
    /\ UNCHANGED <<sec, next, rows, lastSend, events, observed>>

Restart ==
    /\ live' = {}
    /\ UNCHANGED <<sec, next, rows, lastSend, events, observed>>

----------------------------------------------------------------------------
(* mesh.receive *)

(* A caller acknowledges what it holds; an id of somebody else's queue it  *)
(* may name whatever that other holds.                                     *)
Acknowledgeable(i) == {m \in 1..next : envelope[m].to = i => m \in kept}

(* The acknowledged ids that settle: the caller's own, still pending. *)
(* Mutant: the acknowledgement is not scoped to the caller's queue. *)
SettledAnyones(i, acks) == {m \in acks : status[m] = "pending"}

Settled(i, acks) == acks \intersect PendingFor(i)

(* Mutant: the delivery is recorded on hand-out. *)
ReceiveRecordsHandout(i, acks, page, survives) ==
    LET open == Leasable(i) \ Settled(i, acks) IN
    /\ OldestOf(page, open)
    /\ Cardinality(page) <= MaxBatch
    /\ open # {} => page # {}
    /\ \A m \in page : events[m] < MaxEvents
    /\ Settle(Settled(i, acks)) /\ Record(page)
    /\ lease' = [m \in MsgIds |->
           IF m \in Settled(i, acks) THEN "none"
           ELSE IF m \in page THEN "live" ELSE lease[m]]
    /\ handed' = handed \union page
    /\ kept' = IF survives THEN kept \union page ELSE kept
    /\ UNCHANGED <<sec, next, envelope, idem, lastSend, live, withdrawn, lost, answer, told>>

(* One transaction: settle the last batch, lease the next.  `survives`     *)
(* when the response reached a caller that lived to persist the page.      *)
Receive(i, acks, page, survives) ==
    LET open == Leasable(i) \ Settled(i, acks) IN
    /\ OldestOf(page, open)
    /\ Cardinality(page) <= MaxBatch
    /\ open # {} => page # {}
    /\ Settle(Settled(i, acks)) /\ Record(Settled(i, acks))
    /\ lease' = [m \in MsgIds |->
           IF m \in Settled(i, acks) THEN "none"
           ELSE IF m \in page THEN "live" ELSE lease[m]]
    /\ handed' = handed \union page
    /\ kept' = IF survives THEN kept \union page ELSE kept
    /\ UNCHANGED <<sec, next, envelope, idem, lastSend, live, withdrawn, lost, answer, told>>

(* The events are committed to audit.db from inside the transaction on     *)
(* hub.db, and only the second rolls back.                                 *)
ReceiveRolledBack(i, acks, dies) ==
    /\ "receive" \in Faults
    /\ Settled(i, acks) # {}
    /\ \A m \in Settled(i, acks) : events[m] < MaxEvents
    /\ Record(Settled(i, acks))
    /\ live' = IF dies THEN {} ELSE live
    /\ UNCHANGED <<sec, next, rows, lastSend, observed>>

(* A lease reaches its end. *)
Lapse(m) ==
    /\ status[m] = "pending" /\ lease[m] = "live"
    /\ lease' = [lease EXCEPT ![m] = "lapsed"]
    /\ UNCHANGED <<sec, next, envelope, status, idem, lastSend, live, events, observed>>

----------------------------------------------------------------------------
(* DELETE /api/v1/mailbox/out/{id} *)

(* Mutant: the DELETE forgot the status. *)
RecallAnything(f, m) ==
    /\ status[m] # "absent" /\ envelope[m].from = f
    /\ Unleased(m)
    /\ status' = [status EXCEPT ![m] = "absent"]
    /\ lease' = [lease EXCEPT ![m] = "none"]
    /\ withdrawn' = withdrawn \union {m}
    /\ UNCHANGED <<sec, next, envelope, idem, lastSend, live, events,
                   handed, kept, lost, answer, told>>

Recall(f, m) ==
    /\ status[m] = "pending" /\ envelope[m].from = f
    /\ Unleased(m)
    /\ status' = [status EXCEPT ![m] = "absent"]
    /\ lease' = [lease EXCEPT ![m] = "none"]
    /\ withdrawn' = withdrawn \union {m}
    /\ UNCHANGED <<sec, next, envelope, idem, lastSend, live, events,
                   handed, kept, lost, answer, told>>

Tick ==
    /\ sec < MaxSec
    /\ sec' = sec + 1
    /\ UNCHANGED <<next, rows, lastSend, live, events, observed>>

----------------------------------------------------------------------------
Send ==
    \E p \in Permitted, c \in Contents, r \in 0..next,
       k \in Keys \union {NoKey}, v \in Channels :
        \/ SendQueued(p[1], p[2], p[3], c, r, k, v)
        \/ SendDropped(p[1], p[2], p[3], c, r, k, v)
        \/ \E reach \in SUBSET {next + 1} :
               \/ SendDelivered(p[1], p[2], p[3], c, r, k, v, reach)
               \/ SendCut(p[1], p[2], p[3], c, r, k, v, reach)
        \/ \E dies \in BOOLEAN : SendRolledBack(p[1], p[2], p[3], r, k, v, dies)

Retry ==
    \E p \in Permitted, c \in Contents, r \in 0..next, k \in Keys :
        SendAgain(p[1], p[2], p[3], c, r, k)

Replay(i) ==
    \E S \in SUBSET PendingFor(i) :
        \/ \E reach \in SUBSET S : Connect(i, S, reach)
        \/ \E m \in PendingFor(i), rowSettled \in BOOLEAN : ConnectCut(i, S, m, rowSettled)

Fetch(i) ==
    \E acks \in SUBSET Acknowledgeable(i) :
        \/ \E page \in SUBSET Leasable(i), survives \in BOOLEAN : Receive(i, acks, page, survives)
        \/ \E dies \in BOOLEAN : ReceiveRolledBack(i, acks, dies)

Next ==
    \/ Send
    \/ Retry
    \/ \E i \in Identities : Replay(i) \/ Disconnect(i) \/ Fetch(i)
    \/ Restart
    \/ \E m \in MsgIds : Lapse(m)
    \/ \E f \in Identities, m \in MsgIds : Recall(f, m)
    \/ Tick

Spec == Init /\ [][Next]_vars

(* A recipient that polls: it acknowledges all it holds, and sooner or     *)
(* later a page it is handed survives.                                     *)
Poll(i) == \E page \in SUBSET Leasable(i) :
               Receive(i, kept \intersect PendingFor(i), page, TRUE)

LiveSpec == Spec /\ (\A m \in MsgIds : WF_vars(Lapse(m)))
                 /\ (\A i \in Identities : SF_vars(Poll(i)))

----------------------------------------------------------------------------
(* Properties. *)

(* The types of every column and observation. *)
TypeOK ==
    /\ sec \in 0..MaxSec
    /\ next \in 0..MaxMsgs
    /\ envelope \in [MsgIds -> Envelopes]
    /\ status \in [MsgIds -> Statuses \union {"absent"}]
    /\ lease \in [MsgIds -> Leases]
    /\ idem \subseteq IdemRows
    /\ lastSend \in [Identities -> (0..MaxSec) \union {-1}]
    /\ live \subseteq Identities
    /\ events \in [MsgIds -> Nat]
    /\ handed \subseteq MsgIds /\ kept \subseteq MsgIds
    /\ withdrawn \subseteq MsgIds /\ lost \subseteq MsgIds
    /\ answer \in [MsgIds -> Statuses \union {"none"}]
    /\ told \in [MsgIds -> Statuses \union {"none"}]

(* A row says delivered only of a message its recipient has, through every *)
(* mix of push, replay, lease, acknowledgement and crash; the one way out  *)
(* is a fault that took the message in flight, which `lost` names.  The    *)
(* replay never revisits a delivered row, so one set too early is mail     *)
(* gone for good (connect.ts deliverPending, receive.ts).                  *)
DeliveredIsKept == \A m \in MsgIds : status[m] = "delivered" => m \in kept \union lost

(* A `delivered` event is a claim about the recipient: there is one only   *)
(* when the recipient has the message, even where the row it was recorded  *)
(* for rolled back (audit.ts recordDelivered, SPEC 8.9.4).                 *)
AuditIsTrue == \A m \in MsgIds : events[m] > 0 => m \in kept \union lost

(* A key names exactly the one message accepted under it, for ever: also   *)
(* after a dropped frame, a crash, a recall and any number of retries      *)
(* (send.ts, the idempotency lookup and the transaction of accept()).      *)
KeyNamesOneMessage ==
    \A s \in Identities, k \in Keys :
        {m \in 1..next : envelope[m].sentBy = s /\ envelope[m].key = k}
            = {e.id : e \in IdemFor(s, k)}

(* What is settled stays settled and what is withdrawn stays withdrawn: a  *)
(* late acknowledgement, a replay or a dropped frame of another send does  *)
(* not bring a row back, and nobody is handed a withdrawn message.         *)
SettledIsFinal ==
    [][\A m \in MsgIds :
          /\ status[m] = "delivered" => status'[m] = "delivered"
          /\ m \in withdrawn => status'[m] = "absent" /\ (m \in handed' => m \in handed)]_vars

(* While no commit fails and no handler is cut, the audit log and the rows *)
(* agree: one `delivered` event for every settled message, by whichever    *)
(* road it went, and none for another (SPEC 8.9.4; the `AND status =       *)
(* 'pending'` of ackMessage).                                              *)
AuditIsExact == \A m \in MsgIds : events[m] = IF status[m] = "delivered" THEN 1 ELSE 0

(* The dormancy clock is the time of the last send that persisted, and of  *)
(* no other (accept.ts, alsoInTransaction).                                *)
ClockIsLastSend ==
    \A f \in Identities :
        LET times == {envelope[m].ts : m \in {n \in 1..next : envelope[n].from = f}} IN
        IF times = {} THEN lastSend[f] = -1
        ELSE lastSend[f] \in times /\ \A x \in times : x <= lastSend[f]

(* A sender withdraws only what the recipient was never handed: hand-over, *)
(* not acknowledgement, is the boundary outbox.ts and SPEC 7 state.        *)
RecallBeforeHandover == withdrawn \intersect handed = {}

(* A retry is told what the original send was told (send.ts, "the original *)
(* answer, not a second message").                                         *)
DuplicateTellsOriginal == \A m \in MsgIds : told[m] \in {"none", answer[m]}

(* The rows, as the sender and the recipient may think of them. *)
Stage == [m \in MsgIds |->
    CASE m > next -> "unsent"
      [] m \in withdrawn -> "withdrawn"
      [] m <= next /\ m \notin withdrawn /\ status[m] = "delivered" -> "settled"
      [] OTHER -> "queued"]

Delivery == INSTANCE MessageDelivery
    WITH Ids <- MsgIds, stage <- Stage, held <- kept, gone <- lost

(* Whatever leases, retries, dropped frames and crashes do, the hub is a   *)
(* MessageDelivery.                                                        *)
ImplementsDelivery == Delivery!DSpec

(* A queued message is handed over and settled, or withdrawn, once its     *)
(* recipient polls: no lease outlives the caller that held it, and no      *)
(* flow of newer mail starves an old row.                                  *)
QueueDrains == \A m \in MsgIds : status[m] = "pending" ~> status[m] # "pending"
=============================================================================
