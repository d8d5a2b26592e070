---------------------------- MODULE HubLifecycle ----------------------------
(***************************************************************************)
(* The daemon's connection to the hub: HubLifecycle, which owns a socket   *)
(* or a reconnect timer, and what ReminderScheduler keeps of an outage in  *)
(* scheduler_state to report it once it is over.                           *)
(*                                                                         *)
(* A generation is compared with others for equality alone, so its number  *)
(* is used again when nothing of it is left.  A socket's event is handled  *)
(* in one turn of the event loop, in which only the daemon's death comes   *)
(* between two commits.                                                    *)
(***************************************************************************)
EXTENDS Integers, FiniteSets

CONSTANTS
    Generations,   \* bound: generations of which something is left at a time
    Recipients,    \* recoveryAlertRecipients
    MaxOutages,    \* bound: outages that begin
    LinkFaults     \* which faults happen

(* create: createSocket throws.  close: the hub, or the way to it, closes  *)
(* a socket or refuses it.  vanish: it goes dead and nobody is told.       *)
(* refuse: the hub answers with an error.  timeout: an answer comes later  *)
(* than rpcTimeoutMs.  die: the process is killed.  stop: a caller stops.  *)
AllLinkFaults == {"create", "close", "vanish", "refuse", "timeout", "die", "stop"}

ASSUME OutagesAssumption == MaxOutages \in Nat
ASSUME LinkFaultsAssumption == LinkFaults \subseteq AllLinkFaults

NoGeneration == "null"
Hub == "hub"      \* who mesh.connect is for
ASSUME RecipientsAssumption == NoGeneration \notin Generations /\ Hub \notin Recipients

VARIABLES
    running,       \* the process runs
    stopped,       \* HubLifecycle.stopped
    current,       \* generation of HubLifecycle.current, or NoGeneration
    reconnect,     \* reconnectTimer is set
    registered,    \* HubLifecycle.ready
    socket,        \* readyState of a generation's socket; "dead" looks open
    pending,       \* requests that await an answer
    sent,          \* requests on their way to the hub
    answers,       \* answers on their way back
    since,         \* hub_unavailable_since: an outage, or 0
    reported,      \* recovery_alert_outage
    recovery,      \* how far onHubRegistered is
    outage,        \* its outageStarted
    toTell,        \* recipients its loop has still to take
    outages,       \* how many outages began
    told,          \* how often the hub took the alert of an outage, by recipient
    untold         \* alerts that were given up, or died with the process

owned == <<current, reconnect, registered>>
calls == <<pending, sent, answers>>
alerting == <<recovery, outage, toTell>>
lifecycleVars == <<running, stopped, owned, socket, calls, since, reported, alerting, outages, told, untold>>

Request(g, o, r) == [gen |-> g, outage |-> o, to |-> r]
Connecting(g) == Request(g, 0, Hub)           \* mesh.connect
IsAlert(q) == q.to # Hub
Outages == 1..MaxOutages

LifecycleInit ==
    /\ running = FALSE /\ stopped = FALSE
    /\ current = NoGeneration /\ reconnect = FALSE /\ registered = FALSE
    /\ socket = [g \in Generations |-> "closed"]
    /\ pending = {} /\ sent = {} /\ answers = {}
    /\ since = 0 /\ reported = 0
    /\ recovery = "idle" /\ outage = 0 /\ toTell = {}
    /\ outages = 0
    /\ told = [o \in Outages |-> [r \in Recipients |-> 0]]
    /\ untold = {}

----------------------------------------------------------------------------
(* Parts of steps. *)

(* A number ++generation may be: nothing of an earlier one is left. *)
Fresh(g) ==
    /\ socket[g] = "closed"
    /\ \A q \in sent \union {a.request : a \in answers} : q.gen # g

(* The recovery work holds the turn until it awaits an alert. *)
Recovering ==
    \/ recovery \in {"ending", "ended"}
    \/ recovery = "alerting" /\ ~\E q \in pending : IsAlert(q)

CanBegin == since # 0 \/ outages < MaxOutages

(* Mutant: every failure is the start of an outage. *)
MarkEachFailure ==
    /\ outages < MaxOutages
    /\ since' = outages + 1 /\ outages' = outages + 1

(* setConnectivity("unavailable"): an outage that lasts keeps its start.   *)
MarkUnavailable ==
    /\ CanBegin
    /\ since' = IF since = 0 THEN outages + 1 ELSE since
    /\ outages' = IF since = 0 THEN outages + 1 ELSE outages

Lose(qs) == untold' = untold \union {<<q.outage, q.to>> : q \in {p \in qs : IsAlert(p)}}

(* The process is at rest: a timer or a socket's event can have its turn. *)
AtRest == running /\ ~Recovering

(* connect(), with neither a socket nor a timer: a socket under a new      *)
(* generation or, when it cannot be made, a timer.                         *)
Connects ==
    /\ \E g \in Generations :
        /\ Fresh(g)
        /\ current' = g
        /\ socket' = [socket EXCEPT ![g] = "connecting"]
    /\ reconnect' = FALSE /\ registered' = FALSE
    /\ UNCHANGED <<since, outages>>

CannotConnect ==
    /\ "create" \in LinkFaults
    /\ MarkUnavailable
    /\ current' = NoGeneration /\ reconnect' = TRUE
    /\ UNCHANGED <<registered, socket>>

Dial(made) == IF made THEN Connects ELSE CannotConnect

(* rejectGeneration(): what the socket still owed an answer is rejected.   *)
RejectPending ==
    /\ pending' = {q \in pending : q.gen # current}
    /\ Lose({q \in pending : q.gen = current})

(* The socket is given up: its requests are, and it is tried again later.  *)
LosesSocket ==
    /\ current' = NoGeneration /\ registered' = FALSE /\ reconnect' = TRUE
    /\ RejectPending
    /\ MarkUnavailable

(* ws.close(): a socket that is gone already stays so. *)
Closes(g) ==
    socket' = [socket EXCEPT ![g] = IF @ = "closed" THEN @ ELSE "closing"]

(* requestOn(): a socket that is known to close is not written to.         *)
IsOpen(g) == socket[g] \in {"open", "dead"}
Sends(q) == pending' = pending \union {q} /\ sent' = sent \union {q}

----------------------------------------------------------------------------
(* The process and its caller. *)

(* main.ts: the daemon starts, after its first installation or a death.    *)
DaemonBoots(made) ==
    /\ ~running
    /\ running' = TRUE /\ stopped' = FALSE
    /\ Dial(made)
    /\ UNCHANGED <<calls, reported, alerting, told, untold>>

(* start() after a stop(). *)
Start(made) ==
    /\ AtRest /\ stopped
    /\ stopped' = FALSE
    /\ Dial(made)
    /\ UNCHANGED <<running, calls, reported, alerting, told, untold>>

Stop ==
    /\ "stop" \in LinkFaults
    /\ AtRest /\ ~stopped
    /\ stopped' = TRUE
    /\ current' = NoGeneration /\ reconnect' = FALSE /\ registered' = FALSE
    /\ RejectPending
    /\ IF current = NoGeneration THEN UNCHANGED socket ELSE Closes(current)
    /\ UNCHANGED <<running, sent, answers, since, reported, alerting, outages, told>>

(* The alerts that die with the process: those of an outage whose record   *)
(* is deleted, as far as they are not sent.                                *)
Unsent ==
    IF recovery \in {"ended", "alerting"}
    THEN {<<outage, r>> : r \in IF recovery = "ended" THEN Recipients ELSE toTell}
    ELSE {}

DaemonDies ==
    /\ "die" \in LinkFaults
    /\ running /\ running' = FALSE
    /\ current' = NoGeneration /\ reconnect' = FALSE /\ registered' = FALSE
    /\ socket' = [g \in Generations |-> "closed"]
    /\ pending' = {} /\ answers' = {}
    /\ recovery' = "idle" /\ outage' = 0 /\ toTell' = {}
    /\ untold' = untold \union Unsent \union {<<q.outage, q.to>> : q \in {p \in pending : IsAlert(p)}}
    /\ UNCHANGED <<stopped, sent, since, reported, outages, told>>

----------------------------------------------------------------------------
(* The network and the hub. *)

(* The hub closes the socket or is not there; what was in flight is lost.  *)
HubCloses(g) ==
    /\ "close" \in LinkFaults /\ CanBegin
    /\ socket[g] \in {"connecting", "open"}
    /\ socket' = [socket EXCEPT ![g] = "closing"]
    /\ answers' = {a \in answers : a.request.gen # g}
    /\ UNCHANGED <<running, stopped, owned, pending, sent, since, reported, alerting, outages, told, untold>>

Vanishes(g) ==
    /\ "vanish" \in LinkFaults /\ CanBegin
    /\ socket[g] = "open"
    /\ socket' = [socket EXCEPT ![g] = "dead"]
    /\ answers' = {a \in answers : a.request.gen # g}
    /\ UNCHANGED <<running, stopped, owned, pending, sent, since, reported, alerting, outages, told, untold>>

(* The hub reads a request and answers it if it still can. *)
HubAnswers(q, ok) ==
    /\ q \in sent /\ sent' = sent \ {q}
    /\ ~ok => "refuse" \in LinkFaults /\ CanBegin
    /\ answers' = IF running /\ socket[q.gen] \in {"open", "closing"}
                  THEN answers \union {[request |-> q, ok |-> ok]} ELSE answers
    /\ told' = IF IsAlert(q) /\ ok THEN [told EXCEPT ![q.outage][q.to] = @ + 1] ELSE told
    /\ UNCHANGED <<running, stopped, owned, socket, pending, since, reported, alerting, outages, untold>>

(* A request on a socket that is gone need not arrive. *)
NeverArrives(q) ==
    /\ q \in sent /\ socket[q.gen] \in {"dead", "closing", "closed"}
    /\ sent' = sent \ {q}
    /\ UNCHANGED <<running, stopped, owned, socket, pending, answers, since, reported, alerting, outages, told, untold>>

----------------------------------------------------------------------------
(* The timers and the events of sockets. *)

TimerFires(made) ==
    /\ AtRest /\ reconnect /\ current = NoGeneration
    /\ Dial(made)
    /\ UNCHANGED <<running, stopped, calls, reported, alerting, told, untold>>

(* on("open"): register(). *)
Opens(g) ==
    /\ AtRest /\ socket[g] = "connecting"
    /\ socket' = [socket EXCEPT ![g] = "open"]
    /\ Sends(Connecting(g))
    /\ UNCHANGED <<running, stopped, owned, answers, since, reported, alerting, outages, told, untold>>

(* Mutant: the close of any socket is the close of the current one. *)
ClosesAny(g) ==
    /\ AtRest /\ socket[g] \in {"closing", "dead"}
    /\ socket' = [socket EXCEPT ![g] = "closed"]
    /\ answers' = {a \in answers : a.request.gen # g}
    /\ LosesSocket
    /\ UNCHANGED <<running, stopped, sent, reported, alerting, told>>

(* on("close"): of an old socket it says nothing of the current one.       *)
CloseEvent(g) ==
    /\ AtRest /\ socket[g] \in {"closing", "dead"}
    /\ socket' = [socket EXCEPT ![g] = "closed"]
    /\ answers' = {a \in answers : a.request.gen # g}
    /\ IF current = g
       THEN LosesSocket
       ELSE UNCHANGED <<owned, pending, since, outages, untold>>
    /\ UNCHANGED <<running, stopped, sent, reported, alerting, told>>

(* The answer is looked at: its socket is the current one, and its request *)
(* was not given up.                                                       *)
Awaited(a) == a.request.gen = current /\ a.request \in pending

Message(a) ==
    /\ AtRest /\ a \in answers
    /\ answers' = answers \ {a}

(* mesh.connect was accepted, and the recovery work begins. *)
Registers(a) ==
    /\ Message(a) /\ Awaited(a) /\ a.ok /\ ~IsAlert(a.request)
    /\ pending' = pending \ {a.request}
    /\ registered' = TRUE
    /\ recovery' = "ending" /\ outage' = since
    /\ UNCHANGED <<running, stopped, current, reconnect, socket, sent, since, reported, toTell, outages, told, untold>>

(* It was refused, or its answer did not come: rejectAndReconnect().       *)
Rejected(g) == LosesSocket /\ Closes(g)

Refused(a) ==
    /\ Message(a) /\ Awaited(a) /\ ~a.ok /\ ~IsAlert(a.request)
    /\ Rejected(a.request.gen)
    /\ UNCHANGED <<running, stopped, sent, reported, alerting, told>>

AlertAnswered(a) ==
    /\ Message(a) /\ Awaited(a) /\ IsAlert(a.request)
    /\ pending' = pending \ {a.request}
    /\ IF a.ok THEN UNCHANGED untold ELSE Lose({a.request})
    /\ UNCHANGED <<running, stopped, owned, socket, sent, since, reported, alerting, outages, told>>

Ignored(a) ==
    /\ Message(a) /\ ~Awaited(a)
    /\ UNCHANGED <<running, stopped, owned, socket, pending, sent, since, reported, alerting, outages, told, untold>>

(* rpcTimeoutMs passed.  An answer that is still on its way is too late.   *)
Coming(q) == q \in sent \union {a.request : a \in answers}

RpcTimeout(q) ==
    /\ AtRest /\ q \in pending
    /\ Coming(q) => "timeout" \in LinkFaults /\ CanBegin
    /\ IF IsAlert(q)
       THEN pending' = pending \ {q} /\ Lose({q}) /\ UNCHANGED <<owned, socket, since, outages>>
       ELSE Rejected(q.gen)
    /\ UNCHANGED <<running, stopped, sent, answers, reported, alerting, told>>

----------------------------------------------------------------------------
(* onHubRegistered(), one commit after the other. *)

(* Mutant: the alert goes out before anything is written down. *)
TellFirst ==
    /\ recovery = "ending"
    /\ IF outage = 0
       THEN recovery' = "idle" /\ UNCHANGED toTell
       ELSE recovery' = "alerting" /\ toTell' = Recipients
    /\ UNCHANGED <<running, stopped, owned, socket, calls, since, reported, outage, outages, told, untold>>

(* The record of the outage is deleted; one that was reported is done.     *)
EndOutage ==
    /\ recovery = "ending"
    /\ since' = 0
    /\ IF outage = 0 \/ reported = outage
       THEN recovery' = "idle" /\ outage' = 0
       ELSE recovery' = "ended" /\ UNCHANGED outage
    /\ UNCHANGED <<running, stopped, owned, socket, calls, reported, toTell, outages, told, untold>>

MarkReported ==
    /\ recovery = "ended"
    /\ reported' = outage
    /\ recovery' = "alerting" /\ toTell' = Recipients
    /\ UNCHANGED <<running, stopped, owned, socket, calls, since, outage, outages, told, untold>>

(* sendAlert() awaits the answer; without a connection it fails at once.   *)
SendAlert(r) ==
    /\ recovery = "alerting" /\ Recovering
    /\ r \in toTell /\ toTell' = toTell \ {r}
    /\ IF registered /\ IsOpen(current)
       THEN Sends(Request(current, outage, r)) /\ UNCHANGED untold
       ELSE untold' = untold \union {<<outage, r>>} /\ UNCHANGED <<pending, sent>>
    /\ UNCHANGED <<running, stopped, owned, socket, answers, since, reported, recovery, outage, outages, told>>

AllTold ==
    /\ recovery = "alerting" /\ Recovering /\ toTell = {}
    /\ recovery' = "idle" /\ outage' = 0
    /\ UNCHANGED <<running, stopped, owned, socket, calls, since, reported, toTell, outages, told, untold>>

Recover == EndOutage \/ MarkReported \/ (\E r \in toTell : SendAlert(r)) \/ AllTold

----------------------------------------------------------------------------
TimerOrEvent ==
    \/ \E g \in Generations : Opens(g) \/ CloseEvent(g)
    \/ \E a \in answers : Registers(a) \/ Refused(a) \/ AlertAnswered(a) \/ Ignored(a)
    \/ \E q \in pending : RpcTimeout(q)

LifecycleNext ==
    \/ \E made \in BOOLEAN : DaemonBoots(made) \/ Start(made) \/ TimerFires(made)
    \/ Stop \/ DaemonDies
    \/ \E g \in Generations : HubCloses(g) \/ Vanishes(g)
    \/ \E q \in sent :
        \/ NeverArrives(q)
        \/ \E ok \in BOOLEAN : HubAnswers(q, ok)
    \/ TimerOrEvent
    \/ Recover

LifecycleSpec == LifecycleInit /\ [][LifecycleNext]_lifecycleVars

(* The faults end: what is refused, cut off or answered late is so only    *)
(* finitely often.  The supervisor starts the daemon again, timers fire,   *)
(* a dead socket is noticed in the end, and the hub reads what arrives.    *)
LinkFault ==
    \/ \E g \in Generations : HubCloses(g) \/ Vanishes(g)
    \/ DaemonDies
    \/ DaemonBoots(FALSE) \/ Start(FALSE) \/ TimerFires(FALSE)
    \/ \E q \in sent : HubAnswers(q, FALSE)
    \/ \E q \in pending : Coming(q) /\ RpcTimeout(q)

LifecycleFairness ==
    /\ <>[][~LinkFault]_lifecycleVars
    /\ WF_lifecycleVars(DaemonBoots(TRUE)) /\ WF_lifecycleVars(TimerFires(TRUE))
    /\ WF_lifecycleVars(\E q \in sent : HubAnswers(q, TRUE))
    /\ WF_lifecycleVars(TimerOrEvent)
    /\ WF_lifecycleVars(Recover)

----------------------------------------------------------------------------
(* Properties. *)

PendingRequests == [gen : Generations, outage : 0..MaxOutages, to : Recipients \union {Hub}]

LifecycleTypeOK ==
    /\ running \in BOOLEAN /\ stopped \in BOOLEAN
    /\ current \in Generations \union {NoGeneration}
    /\ reconnect \in BOOLEAN /\ registered \in BOOLEAN
    /\ socket \in [Generations -> {"connecting", "open", "dead", "closing", "closed"}]
    /\ pending \subseteq PendingRequests /\ sent \subseteq PendingRequests
    /\ answers \subseteq [request : PendingRequests, ok : BOOLEAN]
    /\ since \in 0..MaxOutages /\ reported \in 0..MaxOutages
    /\ recovery \in {"idle", "ending", "ended", "alerting"}
    /\ outage \in 0..MaxOutages /\ toTell \subseteq Recipients
    /\ outages \in 0..MaxOutages
    /\ told \in [Outages -> [Recipients -> Nat]]
    /\ untold \subseteq Outages \X Recipients

(* "Owns exactly one registration attempt/socket and exactly one reconnect *)
(* timer" (lifecycle.ts:48): a lifecycle that is to run has a socket or a  *)
(* timer and never both, every other socket was closed, and only requests  *)
(* on its own socket are waited for.                                       *)
OneSocket ==
    running =>
        /\ ~stopped => (current = NoGeneration <=> reconnect)
        /\ \A g \in Generations \ {current} : socket[g] \in {"closing", "closed"}
        /\ \A q \in pending : q.gen = current

(* No recipient is told twice of one outage, however often the daemon      *)
(* dies, reconnects or loses an answer while it reports it (scheduler.ts   *)
(* onHubRegistered: "cannot cause duplicate recovery alerts").             *)
ToldOnce == \A o \in Outages, r \in Recipients : told[o][r] <= 1

(* An outage that was recorded ends, and every recipient is told of it or  *)
(* the alert was given up in one way that is known: no socket is left that *)
(* nothing reconnects, and no restart forgets the outage.                  *)
OutageIsReported ==
    \A o \in Outages :
        since = o ~> \/ \A r \in Recipients : told[o][r] > 0 \/ <<o, r>> \in untold
                     \/ stopped
=============================================================================
