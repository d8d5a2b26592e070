----------------------------- MODULE Reminders -----------------------------
(***************************************************************************)
(* The self-reminder scheduler.  Two processes write the `reminders` rows: *)
(* the hub on mesh.schedule_reminder and mesh.cancel_reminder, the daemon  *)
(* from its scan.  A third, the http server, records what an operator      *)
(* decides about a held reminder.  A scan reads the due rows once, then    *)
(* takes them one by one: claim, send, await the answer, advance; between  *)
(* any two of these the other processes run, and the daemon can die.       *)
(*                                                                         *)
(* Time is what it does to a row: a slot arrives, and a one-shot grows     *)
(* later than the hold threshold.  A repeating reminder's slots are        *)
(* numbered in the order they are used; which instants they are is         *)
(* nextIntervalFire's and cron's affair.                                   *)
(***************************************************************************)
EXTENDS Integers, FiniteSets

CONSTANTS
    Ids,           \* reminder ids callers use
    Requests,      \* what callers ask for: per id, its owner, type and key
    MaxScan,       \* LIMIT of the due scan; an instance may set it for each
                   \* of Requests, to have both sides of it in one run
    MaxSlot,       \* bound: the last slot of a repeating reminder that arrives
    Faults         \* which faults happen

(* timeout: an RPC is given up before its answer comes.                    *)
(* disconnect: the hub's socket closes.  crash: the daemon dies.           *)
(* refuse: the hub refuses the send.                                       *)
AllFaults == {"timeout", "disconnect", "crash", "refuse"}
NoKey == "no idempotency_key"
Types == {"once", "repeat", "unreadable"}

ASSUME RequestAssumption == \A q \in Requests : \A i \in Ids : q[i].type \in Types
ASSUME ScanAssumption == MaxScan \in [Requests -> Nat \ {0}] /\ MaxSlot \in Nat
ASSUME FaultsAssumption == Faults \subseteq AllFaults

NoFire == "no fire"
ASSUME NoFireAssumption == NoFire \notin Ids

VARIABLES
    request,       \* the columns callers fix: one of Requests
    status,        \* reminders.status; "absent" when there is no row
    slot,          \* per id: the number of the slot in next_fire_at
    count,         \* reminders.fire_count
    queue,         \* ids whose slot has come
    before,        \* of two in it, which came first: the order of next_fire_at
    late,          \* one-shots in it further past their slot than overdueHoldMs
    held,          \* one-shots with an overdue_hold record
    decision,      \* overdue_decisions, per id
    up,            \* the daemon runs
    ready,         \* HubLifecycle.ready
    left,          \* rows of the running scan still to be taken, and whether
                   \* `now`, read once when the scan began, says they are late
    firing,        \* the row whose send the scan awaits
    reply,         \* the answer to that send: none, ok or error
    wire,          \* requests on their way to the hub
    accepted       \* <<id, slot>> the hub accepted a message for

row == <<status, slot, count>>
due == <<queue, before>>
hold == <<late, held, decision>>
scan == <<left, firing, reply>>
remindersVars == <<request, row, due, hold, up, ready, scan, wire, accepted>>

Type(i) == request[i].type

(* Rows written before schedule_reminder validated the spec can be there   *)
(* from the start.                                                         *)
RemindersInit ==
    /\ request \in Requests
    /\ status = [i \in Ids |-> IF Type(i) = "unreadable" THEN "active" ELSE "absent"]
    /\ slot = [i \in Ids |-> 0]
    /\ count = [i \in Ids |-> 0]
    /\ queue = {} /\ before = {}
    /\ late = {} /\ held = {}
    /\ decision = [i \in Ids |-> "none"]
    /\ up = TRUE /\ ready = FALSE
    /\ left = {}
    /\ firing = NoFire /\ reply = "none"
    /\ wire = {} /\ accepted = {}

----------------------------------------------------------------------------
(* idx_reminders_idem_active: of one caller's rows with one key, at most   *)
(* one is active.  Other states do not count.                              *)
SameKey(i, j) ==
    /\ request[i].key # NoKey
    /\ request[i].key = request[j].key /\ request[i].owner = request[j].owner
Taken(i) == \E j \in Ids \ {i} : SameKey(i, j) /\ status[j] = "active"

(* The `ticking` flag: a scan runs while it awaits or has rows to take.    *)
Ticking == left # {} \/ firing # NoFire

(* The daemon's own turn: it runs to the next await or to the end of the   *)
(* scan, and neither its timers nor its socket are served meanwhile.       *)
InTurn == left # {} /\ firing = NoFire

(* shouldHoldOverdue(): by the scan's clock, and today's decision.         *)
Holds(r) == r.late /\ decision[r.id] # "replay"

(* The row is not due any more. *)
Leaves(i) ==
    /\ queue' = queue \ {i}
    /\ before' = {p \in before : i \notin {p[1], p[2]}}
    /\ late' = late \ {i}

(* Mutant: the key of a reminder. *)
FireKeyOfReminder(i) == <<i, 0>>

(* The key of a fire, and not of a reminder. *)
FireKey(i) == <<i, slot[i]>>

----------------------------------------------------------------------------
(* The hub's RPCs and the operator. *)

(* A used id, or a key that is taken, answers "dedup" and changes nothing. *)
Schedule(i) ==
    /\ status[i] = "absent"
    /\ ~Taken(i)
    /\ status' = [status EXCEPT ![i] = "active"]
    /\ UNCHANGED <<request, slot, count, due, hold, up, ready, scan, wire, accepted>>

(* Mutant: a row that is being fired can be cancelled. *)
CancelFiring(i) ==
    /\ status[i] \in {"active", "firing"}
    /\ status' = [status EXCEPT ![i] = "cancelled"]
    /\ Leaves(i)
    /\ UNCHANGED <<request, slot, count, held, decision, up, ready, scan, wire, accepted>>

(* Only a row nobody is firing: otherwise the caller is told 0 changes.    *)
Cancel(i) ==
    /\ status[i] = "active"
    /\ status' = [status EXCEPT ![i] = "cancelled"]
    /\ Leaves(i)
    /\ UNCHANGED <<request, slot, count, held, decision, up, ready, scan, wire, accepted>>

Decide(i, d) ==
    /\ i \in held
    /\ decision' = [decision EXCEPT ![i] = d]
    /\ UNCHANGED <<request, row, due, late, held, up, ready, scan, wire, accepted>>

----------------------------------------------------------------------------
(* The clock. *)

SlotArrives(i) ==
    /\ ~InTurn
    /\ status[i] = "active" /\ i \notin queue
    /\ slot[i] <= MaxSlot
    /\ queue' = queue \union {i}
    /\ before' = before \union (queue \X {i})
    /\ UNCHANGED <<request, row, hold, up, ready, scan, wire, accepted>>

(* Later than the threshold, the longest-waiting first. *)
GrowsLate(i) ==
    /\ ~InTurn
    /\ i \in queue \ late /\ Type(i) = "once"
    /\ \A j \in queue : <<j, i>> \in before /\ Type(j) = "once" => j \in late
    /\ late' = late \union {i}
    /\ UNCHANGED <<request, row, due, held, decision, up, ready, scan, wire, accepted>>

----------------------------------------------------------------------------
(* The connection, as the scheduler sees it. *)

Stale(r) == [r EXCEPT !.awaited = FALSE]

HubRegisters ==
    /\ up /\ ~ready /\ ~InTurn
    /\ ready' = TRUE
    /\ UNCHANGED <<request, row, due, hold, up, scan, wire, accepted>>

(* The awaited answer is given up: a pending RPC is rejected when its      *)
(* timer fires or its socket closes.  An answer that comes later is not    *)
(* looked at, but the request may still be on its way.                     *)
GiveUp ==
    /\ wire' = {Stale(r) : r \in wire}
    /\ reply' = IF firing = NoFire THEN reply ELSE "error"

Disconnect ==
    /\ "disconnect" \in Faults
    /\ ready /\ ~InTurn
    /\ ready' = FALSE
    /\ GiveUp
    /\ UNCHANGED <<request, row, due, hold, up, left, firing, accepted>>

Timeout ==
    /\ "timeout" \in Faults
    /\ firing # NoFire /\ ready
    /\ GiveUp
    /\ UNCHANGED <<request, row, due, hold, up, ready, left, firing, accepted>>

(* The hub answers a request: only the one awaited is listened to. *)
Answers(r, a) ==
    /\ wire' = wire \ {r}
    /\ reply' = IF r.awaited THEN a ELSE reply
    /\ UNCHANGED <<request, row, due, hold, up, ready, left, firing>>

HubAccepts(r) ==
    /\ r \in wire /\ r.key \notin accepted
    /\ accepted' = accepted \union {r.key}
    /\ Answers(r, "ok")

(* A second request under the key of a fire.  formatPayload writes the     *)
(* scan's own time into the content, so its digest is never the accepted   *)
(* one's, and mesh.send answers SEND_CONFLICT.                             *)
HubConflicts(r) ==
    /\ r \in wire /\ r.key \in accepted
    /\ Answers(r, "error")
    /\ UNCHANGED accepted

HubRefuses(r) ==
    /\ "refuse" \in Faults
    /\ r \in wire /\ r.key \notin accepted
    /\ Answers(r, "error")
    /\ UNCHANGED accepted

----------------------------------------------------------------------------
(* advanceDue() *)

Due(i) == status[i] = "active" /\ i \in queue

(* Of the rows in S, i came first.  A row that was cancelled meanwhile has *)
(* no place any more: it is skipped at any point.                          *)
First(i, S) == \A j \in S : <<j, i>> \notin before

(* The due rows, oldest first up to the limit, when nothing is being fired.*)
Scan ==
    /\ up /\ ready /\ ~Ticking
    /\ \E S \in SUBSET {i \in Ids : Due(i)} :
        /\ S # {} /\ Cardinality(S) <= MaxScan[request]
        /\ \A i \in {j \in Ids : Due(j)} \ S :
              /\ Cardinality(S) = MaxScan[request]
              /\ \A j \in S : <<i, j>> \notin before
        /\ left' = [id : S \intersect late, late : {TRUE}] \union [id : S \ late, late : {FALSE}]
    /\ UNCHANGED <<request, row, due, hold, up, ready, firing, reply, wire, accepted>>

(* The loop takes the next row. *)
Takes(r) ==
    /\ InTurn /\ r \in left
    /\ First(r.id, {q.id : q \in left})
    /\ left' = left \ {r}

(* A hold is recorded once, and not for a slot that was decided. *)
HoldRow(r) ==
    /\ Takes(r) /\ Holds(r)
    /\ held' = IF decision[r.id] = "none" THEN held \union {r.id} ELSE held
    /\ UNCHANGED <<request, row, due, late, decision, up, ready, firing, reply, wire, accepted>>

(* The row was cancelled since the scan read it: the claim changes none.   *)
SkipRow(r) ==
    /\ Takes(r) /\ ~Holds(r) /\ status[r.id] # "active"
    /\ UNCHANGED <<request, row, due, hold, up, ready, firing, reply, wire, accepted>>

(* Claim the row and send; without a connection the send fails at once.    *)
ClaimRow(r) ==
    /\ Takes(r) /\ ~Holds(r) /\ status[r.id] = "active"
    /\ status' = [status EXCEPT ![r.id] = "firing"]
    /\ firing' = r.id
    /\ reply' = IF ready THEN "none" ELSE "error"
    /\ wire' = IF ready THEN wire \union {[key |-> FireKey(r.id), awaited |-> TRUE]} ELSE wire
    /\ UNCHANGED <<request, slot, count, due, hold, up, ready, accepted>>

(* The await is over and the loop goes on. *)
Resume ==
    /\ firing' = NoFire /\ reply' = "none"
    /\ UNCHANGED <<request, left, held, decision, up, ready, wire, accepted>>

(* advanceOrComplete(): a one-shot has fired. *)
Complete(i) ==
    /\ Type(i) = "once"
    /\ status' = [status EXCEPT ![i] = "fired"]
    /\ count' = [count EXCEPT ![i] = @ + 1]
    /\ Leaves(i)
    /\ UNCHANGED slot

(* A repeating one goes back to active, at its next slot. *)
Advance(i) ==
    /\ Type(i) = "repeat" /\ ~Taken(i)
    /\ status' = [status EXCEPT ![i] = "active"]
    /\ slot' = [slot EXCEPT ![i] = @ + 1]
    /\ count' = [count EXCEPT ![i] = @ + 1]
    /\ Leaves(i)

(* Mutant: another of the statuses the column admits. *)
Exhausts(i) ==
    /\ Type(i) = "unreadable"
    /\ status' = [status EXCEPT ![i] = "exhausted"]
    /\ Leaves(i)
    /\ UNCHANGED <<slot, count>>

(* A spec that cannot be read has no next slot. *)
Dies(i) ==
    /\ Type(i) = "unreadable"
    /\ status' = [status EXCEPT ![i] = "dead"]
    /\ Leaves(i)
    /\ UNCHANGED <<slot, count>>

(* Mutant: an answer that did not come is taken for one that did. *)
AnsweredAnyhow ==
    /\ firing # NoFire /\ reply # "none"
    /\ Complete(firing) \/ Advance(firing) \/ Dies(firing)
    /\ Resume

Answered ==
    /\ firing # NoFire /\ reply = "ok"
    /\ Complete(firing) \/ Advance(firing) \/ Dies(firing)
    /\ Resume

(* The send failed: back to active, and the next scan tries again. *)
Failed ==
    /\ firing # NoFire /\ reply = "error" /\ ~Taken(firing)
    /\ status' = [status EXCEPT ![firing] = "active"]
    /\ UNCHANGED <<slot, count, due, late>>
    /\ Resume

(* The key of the row was taken while it was not active: the UPDATE to     *)
(* active throws, from the catch clause too, and ends the scan.  Nobody    *)
(* handles the rejection; whether the process outlives it is left open.    *)
Throws ==
    /\ firing # NoFire /\ Taken(firing)
    /\ reply = "error" \/ (reply = "ok" /\ Type(firing) = "repeat")
    /\ left' = {} /\ firing' = NoFire /\ reply' = "none"
    /\ up' \in BOOLEAN /\ ready' = (ready /\ up')
    /\ UNCHANGED <<request, row, due, hold, wire, accepted>>

----------------------------------------------------------------------------
(* A death inside a turn leaves what one before or after it leaves. *)
Crash ==
    /\ "crash" \in Faults
    /\ ~InTurn
    /\ up /\ up' = FALSE /\ ready' = FALSE
    /\ left' = {} /\ firing' = NoFire /\ reply' = "none"
    /\ wire' = {Stale(r) : r \in wire}
    /\ UNCHANGED <<request, row, due, hold, accepted>>

(* The one UPDATE that resets the rows left mid-fire fails as a whole when *)
(* a key would be active twice.                                            *)
Stuck == {i \in Ids : status[i] = "firing"}
Recoverable == \A i \in Stuck : ~Taken(i) /\ ~\E j \in Stuck \ {i} : SameKey(i, j)

(* Mutant: start without the recovery of rows left mid-fire. *)
BootBare ==
    /\ ~up /\ up' = TRUE
    /\ UNCHANGED <<request, row, due, hold, ready, scan, wire, accepted>>

(* main.ts: recover, then start. *)
Boot ==
    /\ ~up /\ up' = TRUE
    /\ Recoverable
    /\ status' = [i \in Ids |-> IF i \in Stuck THEN "active" ELSE status[i]]
    /\ UNCHANGED <<request, slot, count, due, hold, ready, scan, wire, accepted>>

----------------------------------------------------------------------------
Take == \E r \in left : HoldRow(r) \/ SkipRow(r) \/ ClaimRow(r)
Settle == Answered \/ Failed \/ Throws

RemindersNext ==
    \/ \E i \in Ids :
        \/ Schedule(i) \/ Cancel(i) \/ SlotArrives(i) \/ GrowsLate(i)
        \/ \E d \in {"replay", "skip"} : Decide(i, d)
    \/ HubRegisters \/ Disconnect \/ Timeout
    \/ \E r \in wire : HubAccepts(r) \/ HubConflicts(r) \/ HubRefuses(r)
    \/ Scan \/ Take \/ Settle
    \/ Crash \/ Boot

RemindersSpec == RemindersInit /\ [][RemindersNext]_remindersVars

(* An awaited fire of i gets through: the hub may refuse it and the daemon *)
(* may give up on it, but not every time.                                  *)
GetsThrough(i) == \E r \in wire : r.awaited /\ r.key[1] = i /\ HubAccepts(r)
GetsAnswer == \E r \in wire : r.awaited /\ (HubAccepts(r) \/ HubConflicts(r))

(* The outages end: the daemon is restarted and connects, and then stays   *)
(* up and connected.  Its interval fires and a turn runs to its end.       *)
OutagesEnd == <>[][~(Crash \/ Disconnect)]_remindersVars

RemindersFairness ==
    /\ OutagesEnd
    /\ WF_remindersVars(Boot) /\ WF_remindersVars(HubRegisters)
    /\ WF_remindersVars(Scan) /\ WF_remindersVars(Take)
    /\ WF_remindersVars(Settle)
    /\ SF_remindersVars(GetsAnswer)
    /\ \A i \in Ids : SF_remindersVars(GetsThrough(i))

RemindersLiveSpec == RemindersSpec /\ RemindersFairness

----------------------------------------------------------------------------
(* Properties. *)

RemindersTypeOK ==
    /\ request \in Requests
    /\ status \in [Ids -> {"absent", "active", "firing", "fired", "cancelled", "dead"}]
    /\ slot \in [Ids -> Nat] /\ count \in [Ids -> Nat]
    /\ queue \subseteq Ids /\ before \subseteq Ids \X Ids
    /\ left \subseteq [id : Ids, late : BOOLEAN]
    /\ late \subseteq Ids /\ held \subseteq Ids
    /\ decision \in [Ids -> {"none", "replay", "skip"}]
    /\ up \in BOOLEAN /\ ready \in BOOLEAN
    /\ firing \in Ids \union {NoFire}
    /\ reply \in {"none", "ok", "error"}
    /\ wire \subseteq [key : Ids \X Nat, awaited : BOOLEAN]
    /\ accepted \subseteq Ids \X Nat

(* What a status is to those who asked for the reminder. *)
StageOf ==
    [absent |-> "unasked", active |-> "running", firing |-> "running",
     cancelled |-> "cancelled", fired |-> "over", dead |-> "over"]

OneShots == {i \in Ids : Type(i) = "once"}
Course == [i \in Ids |-> StageOf[status[i]]]
Ahead == {i \in Ids : <<i, count[i]>> \in accepted}

Promise == INSTANCE ReminderPromise
    WITH once <- OneShots, course <- Course, counted <- count, ahead <- Ahead

(* Whatever is lost, given up, refused, retried or restarted on the way,   *)
(* the rows and the hub together keep ReminderPromise: fires arrive in     *)
(* turn and once, and are counted only then; one that was cancelled or is  *)
(* over stays so (advanceDue, fireKey, handleCancelReminder, recovered).   *)
ImplementsPromise == Promise!PSpec

(* A cancel that changed a row is final: the unconditional UPDATEs that    *)
(* follow an answer, a failure or a restart never bring it back, and no    *)
(* fire of it is sent any more.                                            *)
CancelIsFinal ==
    [][\A i \in Ids : status[i] = "cancelled" =>
          /\ status'[i] = "cancelled"
          /\ \A r \in wire' : r.awaited /\ r.key[1] = i => r \in wire]_remindersVars

(* Nothing the daemon does reaches the row any more: the scan is not       *)
(* awaiting it and no restart recovers it.                                 *)
Abandoned(i) == status[i] = "firing" /\ firing # i /\ (up \/ ~Recoverable)

(* A row that says firing is one the running scan awaits: the due scan     *)
(* does not select it, so nothing else would ever take it up again         *)
(* (scheduler.ts advanceOrComplete, main.ts recovery).                     *)
FiringIsAwaited == \A i \in Ids : ~Abandoned(i)

(* The one way there is a row being fired and another one scheduled under  *)
(* its key meanwhile; it can take rows with it that share no key.          *)
AbandonedByKey ==
    (\E i \in Ids : Abandoned(i)) =>
        \E i \in Stuck : \E j \in Ids \ {i} : SameKey(i, j) /\ status[j] # "absent"

(* A row that a scan selects and leaves where it is: it is held, or the    *)
(* hub has its fire and answers every retry with a conflict.               *)
StaysDue(i) ==
    /\ Due(i)
    /\ (i \in late /\ decision[i] # "replay") \/ <<i, slot[i]>> \in accepted

(* The LIMIT counts such rows too, and they come first.                    *)
CrowdedOut(i) ==
    Cardinality({j \in Ids : StaysDue(j) /\ <<j, i>> \in before}) >= MaxScan[request]

(* A due reminder reaches the hub, unless it is held for an operator or    *)
(* somebody cancels it, whatever timeouts, disconnects, refusals, crashes  *)
(* and other reminders' failures come between.  Two things stop the        *)
(* scheduler: a row abandoned by its key, and a due scan that is filled    *)
(* again and again by older rows it does not move (scheduler.ts:198).      *)
DueReachesHub ==
    \A i \in Ids : Due(i) ~>
        \/ <<i, slot[i]>> \in accepted \/ i \in held \/ status[i] = "cancelled"
        \/ \E j \in Ids : Abandoned(j)
        \/ []<>CrowdedOut(i)

(* And then it moves on: a retry after a lost answer gets the answer of    *)
(* the original, so a fire that reached the hub does not stay due for ever *)
(* (scheduler.ts fireKey).                                                 *)
DueMovesOn == \A i \in Ids : Due(i) ~> ((~Due(i) /\ status[i] # "firing") \/ i \in held)
=============================================================================
