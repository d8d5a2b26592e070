------------------------- MODULE HubLifecycle_proofs -------------------------
(***************************************************************************)
(* What holds of the daemon's connection for any generations, recipients,  *)
(* outages and faults.  Two invariants are inductive one after the other:  *)
(* Owned, of what the lifecycle owns, and Told, of where the alerts of an  *)
(* outage are.                                                             *)
(***************************************************************************)
EXTENDS HubLifecycle, TLAPS

(* Nothing outlives the process but requests on their way.                 *)
DownIsEmpty ==
    ~running =>
        /\ current = NoGeneration /\ ~reconnect /\ ~registered
        /\ pending = {} /\ answers = {} /\ recovery = "idle"
        /\ \A g \in Generations : socket[g] = "closed"

StoppedIsEmpty == running /\ stopped => current = NoGeneration /\ ~reconnect

(* A socket that is waited for has opened.  When it is registered it is    *)
(* waited for with alerts, and before with one mesh.connect.               *)
RegisteredIsOpen ==
    /\ registered => current # NoGeneration
    /\ registered \/ pending # {} => socket[current] # "connecting"
    /\ \A q \in pending : (IsAlert(q) <=> registered) /\ (~IsAlert(q) => q.outage = 0)

AlertsAreOfOutages ==
    /\ recovery \in {"ended", "alerting"} => outage # 0
    /\ \A q \in pending \union sent : IsAlert(q) => q.outage # 0

Owned ==
    /\ LifecycleTypeOK
    /\ OneSocket
    /\ DownIsEmpty /\ StoppedIsEmpty /\ RegisteredIsOpen
    /\ AlertsAreOfOutages

(* An alert that the hub has not had and that is not on its way.           *)
Unsaid(o, r) == told[o][r] = 0 /\ \A q \in sent : q.outage = o => q.to # r

(* An outage that is not begun, or is still recorded, was not told of.     *)
RecordedIsUnsaid ==
    /\ since <= outages /\ outage <= outages
    /\ \A o \in Outages, r \in Recipients : o = since \/ o > outages => Unsaid(o, r)

(* What the recovery work has still to tell was not told, and its outage   *)
(* is no longer recorded once it may tell.                                 *)
ToTellIsUnsaid ==
    /\ recovery = "ending" => outage = since
    /\ recovery \in {"ended", "alerting"} => outage # 0 /\ outage # since
    /\ recovery = "ended" => \A r \in Recipients : Unsaid(outage, r)
    /\ recovery = "alerting" => \A r \in toTell : Unsaid(outage, r)

(* An alert on its way is the first and the only one.                      *)
SentIsFirst ==
    \A q \in sent : IsAlert(q) =>
        /\ told[q.outage][q.to] = 0
        /\ \A p \in sent : p.outage = q.outage /\ p.to = q.to => p = q

Told == RecordedIsUnsaid /\ ToTellIsUnsaid /\ SentIsFirst /\ ToldOnce
----------------------------------------------------------------------------
LEMMA OwnedInit == LifecycleInit => Owned
<1> SUFFICES ASSUME LifecycleInit PROVE Owned
  OBVIOUS
<1>1. LifecycleTypeOK
  <2>1. told \in [Outages -> [Recipients -> Nat]]
    BY DEF LifecycleInit
  <2>2. {since, reported, outage, outages} \subseteq 0..MaxOutages
    BY OutagesAssumption DEF LifecycleInit
  <2>3. {running, stopped, reconnect, registered} \subseteq BOOLEAN
    BY DEF LifecycleInit
  <2> QED
    BY <2>1, <2>2, <2>3 DEF LifecycleInit, LifecycleTypeOK
<1> QED
  BY <1>1 DEF LifecycleInit, Owned, OneSocket, DownIsEmpty, StoppedIsEmpty, RegisteredIsOpen, AlertsAreOfOutages

(* An alert is of a recipient, and of an outage. *)
LEMMA Alerts ==
    ASSUME LifecycleTypeOK, AlertsAreOfOutages
    PROVE  \A q \in pending \union sent : IsAlert(q) => q.outage \in Outages /\ q.to \in Recipients
<1> SUFFICES ASSUME NEW q \in pending \union sent, IsAlert(q)
             PROVE  q.outage \in Outages /\ q.to \in Recipients
  OBVIOUS
<1>1. q \in PendingRequests /\ q.outage # 0
  BY DEF LifecycleTypeOK, AlertsAreOfOutages
<1>2. q.outage \in 0..MaxOutages /\ q.to \in Recipients \union {Hub}
  BY <1>1 DEF PendingRequests
<1> QED
  BY <1>1, <1>2, OutagesAssumption DEF IsAlert, Outages

LEMMA Losing ==
    ASSUME LifecycleTypeOK, AlertsAreOfOutages, NEW qs, qs \subseteq pending, Lose(qs)
    PROVE  untold' \subseteq Outages \X Recipients
BY Alerts DEF LifecycleTypeOK, Lose

LEMMA Marking ==
    ASSUME LifecycleTypeOK, MarkUnavailable
    PROVE  since' \in 0..MaxOutages /\ outages' \in 0..MaxOutages
BY OutagesAssumption DEF LifecycleTypeOK, MarkUnavailable, CanBegin

(* With neither a socket nor a timer, connect() makes one of the two.      *)
LEMMA MakesOne ==
    ASSUME LifecycleTypeOK, AlertsAreOfOutages, current = NoGeneration, ~registered, pending = {},
           \A g \in Generations : socket[g] \in {"closing", "closed"},
           NEW made \in BOOLEAN, Dial(made), running' = TRUE, stopped' = FALSE,
           UNCHANGED <<calls, reported, alerting, told, untold>>
    PROVE  Owned'
<1> USE RecipientsAssumption
<1>1. UNCHANGED <<pending, sent, answers, reported, recovery, outage, toTell, told, untold>> /\ ~registered'
  BY DEF Dial, Connects, CannotConnect, calls, alerting
<1>2. CASE made
  <2>1. PICK g \in Generations : current' = g /\ socket' = [socket EXCEPT ![g] = "connecting"]
    BY <1>2 DEF Dial, Connects
  <2>2. ~reconnect' /\ reconnect' \in BOOLEAN /\ registered' = FALSE /\ since' = since /\ outages' = outages
    BY <1>2 DEF Dial, Connects
  <2>3. LifecycleTypeOK'
    <3>1. {running', stopped', reconnect', registered'} \subseteq BOOLEAN
      BY <2>2
    <3>2. socket' \in [Generations -> {"connecting", "open", "dead", "closing", "closed"}]
      BY <2>1 DEF LifecycleTypeOK
    <3> QED
      BY <1>1, <2>1, <2>2, <3>1, <3>2 DEF LifecycleTypeOK
  <2>4. OneSocket'
    BY <1>1, <2>1, <2>2, <2>3 DEF LifecycleTypeOK, OneSocket
  <2>5. DownIsEmpty' /\ StoppedIsEmpty'
    BY DEF DownIsEmpty, StoppedIsEmpty
  <2>6. RegisteredIsOpen' /\ AlertsAreOfOutages'
    BY <1>1, <2>1 DEF LifecycleTypeOK, RegisteredIsOpen, AlertsAreOfOutages
  <2> QED
    BY <2>3, <2>4, <2>5, <2>6 DEF Owned
<1>3. CASE ~made
  <2>1. current' = NoGeneration /\ reconnect' = TRUE /\ UNCHANGED <<registered, socket>> /\ MarkUnavailable
    BY <1>3 DEF Dial, CannotConnect
  <2>2. LifecycleTypeOK'
    <3>1. {running', stopped', reconnect', registered'} \subseteq BOOLEAN
      BY <2>1 DEF LifecycleTypeOK
    <3>2. since' \in 0..MaxOutages /\ outages' \in 0..MaxOutages
      BY <2>1, Marking
    <3> QED
      BY <1>1, <2>1, <3>1, <3>2 DEF LifecycleTypeOK
  <2>3. OneSocket'
    BY <1>1, <2>1, <2>2 DEF LifecycleTypeOK, OneSocket
  <2>4. DownIsEmpty' /\ StoppedIsEmpty'
    BY DEF DownIsEmpty, StoppedIsEmpty
  <2>5. RegisteredIsOpen' /\ AlertsAreOfOutages'
    BY <1>1, <2>1 DEF LifecycleTypeOK, RegisteredIsOpen, AlertsAreOfOutages
  <2> QED
    BY <2>2, <2>3, <2>4, <2>5 DEF Owned
<1> QED
  BY <1>2, <1>3

(* The socket is lost, and nothing of it is waited for. *)
LEMMA LosingSocket ==
    ASSUME Owned, running, ~stopped, current # NoGeneration, LosesSocket,
           UNCHANGED <<running, stopped, reported, alerting, told>>, sent' = sent,
           answers' \subseteq answers, NEW s \in {"closing", "closed"},
           socket' = [socket EXCEPT ![current] = s]
    PROVE  Owned'
<1>1. /\ current' = NoGeneration /\ ~registered' /\ reconnect' /\ reconnect' = TRUE /\ registered' = FALSE
      /\ UNCHANGED <<recovery, outage, toTell>>
  BY DEF LosesSocket, alerting
<1>2. pending' = {}
  BY DEF Owned, OneSocket, LosesSocket, RejectPending
<1>3. untold' \subseteq Outages \X Recipients
  BY Losing DEF Owned, LosesSocket, RejectPending
<1>4. since' \in 0..MaxOutages /\ outages' \in 0..MaxOutages
  BY Marking DEF Owned, LosesSocket
<1>5. LifecycleTypeOK'
  BY <1>1, <1>2, <1>3, <1>4 DEF Owned, LifecycleTypeOK
<1>6. \A g \in Generations : socket'[g] \in {"closing", "closed"}
  BY DEF Owned, OneSocket, LifecycleTypeOK
<1> QED
  BY <1>1, <1>2, <1>5, <1>6 DEF Owned, OneSocket, DownIsEmpty, StoppedIsEmpty, RegisteredIsOpen, AlertsAreOfOutages
(* Without a socket nothing is waited for. *)
LEMMA NothingPending == Owned /\ running /\ current = NoGeneration => pending = {} /\ ~registered
BY RecipientsAssumption DEF Owned, OneSocket, LifecycleTypeOK, PendingRequests, RegisteredIsOpen

LEMMA OwnedBegins ==
    ASSUME Owned, NEW made \in BOOLEAN, DaemonBoots(made) \/ Start(made) \/ TimerFires(made)
    PROVE  Owned'
<1>1. LifecycleTypeOK /\ AlertsAreOfOutages
  BY DEF Owned
<1>2. CASE DaemonBoots(made)
  <2>1. /\ current = NoGeneration /\ ~registered /\ pending = {}
        /\ \A g \in Generations : socket[g] \in {"closing", "closed"}
    BY <1>2 DEF DaemonBoots, Owned, DownIsEmpty
  <2> QED
    BY <1>1, <1>2, <2>1, MakesOne DEF DaemonBoots
<1>3. ASSUME Start(made) \/ TimerFires(made) PROVE Owned'
  <2>1. running /\ current = NoGeneration
    BY <1>3 DEF Start, TimerFires, AtRest, Owned, StoppedIsEmpty
  <2>2. running' = TRUE /\ stopped' = FALSE
    BY <1>1, <1>3, <2>1 DEF Start, TimerFires, AtRest, Owned, StoppedIsEmpty, LifecycleTypeOK
  <2>3. pending = {} /\ ~registered
    BY <2>1, NothingPending
  <2>4. \A g \in Generations : socket[g] \in {"closing", "closed"}
    BY <2>1, RecipientsAssumption DEF Owned, OneSocket
  <2>5. Dial(made) /\ UNCHANGED <<calls, reported, alerting, told, untold>>
    BY <1>3 DEF Start, TimerFires
  <2> QED
    BY <1>1, <2>1, <2>2, <2>3, <2>4, <2>5, MakesOne
<1> QED
  BY <1>2, <1>3

LEMMA OwnedStops == ASSUME Owned, Stop PROVE Owned'
<1> USE RecipientsAssumption
<1>1. LifecycleTypeOK /\ AlertsAreOfOutages /\ running
  BY DEF Owned, Stop, AtRest
<1>2. /\ running' = TRUE /\ stopped' = TRUE /\ current' = NoGeneration /\ reconnect' = FALSE /\ registered' = FALSE
      /\ UNCHANGED <<sent, answers, since, reported, recovery, outage, toTell, outages, told>>
  BY <1>1 DEF Stop, alerting, LifecycleTypeOK
<1>3. pending' = {}
  BY <1>1 DEF Owned, OneSocket, Stop, RejectPending
<1>4. untold' \subseteq Outages \X Recipients
  BY <1>1, Losing DEF Stop, RejectPending
<1>5. /\ socket' \in [Generations -> {"connecting", "open", "dead", "closing", "closed"}]
      /\ \A g \in Generations : socket'[g] \in {"closing", "closed"}
  BY <1>1 DEF Stop, Closes, Owned, OneSocket, LifecycleTypeOK
<1>6. LifecycleTypeOK'
  BY <1>1, <1>2, <1>3, <1>4, <1>5 DEF LifecycleTypeOK
<1> QED
  BY <1>1, <1>2, <1>3, <1>5, <1>6 DEF Owned, OneSocket, DownIsEmpty, StoppedIsEmpty, RegisteredIsOpen, AlertsAreOfOutages

LEMMA OwnedCrashes == ASSUME Owned, DaemonDies PROVE Owned'
<1>1. LifecycleTypeOK /\ AlertsAreOfOutages
  BY DEF Owned
<1>2. /\ running' = FALSE /\ current' = NoGeneration /\ reconnect' = FALSE /\ registered' = FALSE
      /\ socket' = [g \in Generations |-> "closed"]
      /\ pending' = {} /\ answers' = {} /\ recovery' = "idle" /\ outage' = 0 /\ toTell' = {}
      /\ UNCHANGED <<stopped, sent, since, reported, outages, told>>
  BY DEF DaemonDies
<1>3. untold' \subseteq Outages \X Recipients
  <2>1. Unsent \subseteq Outages \X Recipients
    BY <1>1, OutagesAssumption DEF Unsent, LifecycleTypeOK, AlertsAreOfOutages, Outages
  <2>2. {<<q.outage, q.to>> : q \in {p \in pending : IsAlert(p)}} \subseteq Outages \X Recipients
    BY <1>1, Alerts
  <2> QED
    BY <1>1, <2>1, <2>2 DEF DaemonDies, LifecycleTypeOK
<1>4. LifecycleTypeOK'
  <2>1. outage' \in 0..MaxOutages
    BY <1>2, OutagesAssumption
  <2>2. {running', stopped', reconnect', registered'} \subseteq BOOLEAN
    BY <1>1, <1>2 DEF LifecycleTypeOK
  <2>3. socket' \in [Generations -> {"connecting", "open", "dead", "closing", "closed"}]
    BY <1>2
  <2> QED
    BY <1>1, <1>2, <1>3, <2>1, <2>2, <2>3 DEF LifecycleTypeOK
<1> QED
  BY <1>1, <1>2, <1>4 DEF Owned, OneSocket, DownIsEmpty, StoppedIsEmpty, RegisteredIsOpen, AlertsAreOfOutages

LEMMA OwnedNetwork ==
    ASSUME Owned,
           \/ \E g \in Generations : HubCloses(g) \/ Vanishes(g)
           \/ \E q \in sent : NeverArrives(q) \/ \E ok \in BOOLEAN : HubAnswers(q, ok)
    PROVE  Owned'
<1>1. LifecycleTypeOK /\ AlertsAreOfOutages
  BY DEF Owned
<1>2. ASSUME NEW g \in Generations, HubCloses(g) \/ Vanishes(g) PROVE Owned'
  <2>1. /\ socket[g] \in {"connecting", "open"} /\ answers' \subseteq answers
        /\ UNCHANGED <<running, stopped, current, reconnect, registered, pending, sent, since, reported,
                       recovery, outage, toTell, outages, told, untold>>
    BY <1>2 DEF HubCloses, Vanishes, owned, alerting
  <2>2. PICK s \in {"dead", "closing"} : socket' = [socket EXCEPT ![g] = s]
    BY <1>2 DEF HubCloses, Vanishes
  <2>3. running /\ current = g
    BY <2>1 DEF Owned, OneSocket, DownIsEmpty
  <2>4. LifecycleTypeOK'
    BY <1>1, <2>1, <2>2 DEF LifecycleTypeOK
  <2>5. OneSocket' /\ RegisteredIsOpen'
    BY <1>1, <2>1, <2>2, <2>3 DEF LifecycleTypeOK, Owned, OneSocket, RegisteredIsOpen
  <2> QED
    BY <2>1, <2>3, <2>4, <2>5 DEF Owned, DownIsEmpty, StoppedIsEmpty, AlertsAreOfOutages
<1>3. ASSUME NEW q \in sent, NeverArrives(q) \/ \E ok \in BOOLEAN : HubAnswers(q, ok) PROVE Owned'
  <2>1. /\ UNCHANGED <<running, stopped, current, reconnect, registered, socket, pending, since, reported,
                       recovery, outage, toTell, outages, untold>>
        /\ sent' = sent \ {q}
    BY <1>3 DEF NeverArrives, HubAnswers, owned, alerting
  <2>2. answers' \subseteq [request : PendingRequests, ok : BOOLEAN] /\ (~running => answers' = answers)
    BY <1>1, <1>3 DEF NeverArrives, HubAnswers, LifecycleTypeOK
  <2>3. told' \in [Outages -> [Recipients -> Nat]]
    <3>1. CASE NeverArrives(q)
      BY <1>1, <3>1 DEF NeverArrives, LifecycleTypeOK
    <3>2. ASSUME NEW ok \in BOOLEAN, HubAnswers(q, ok) PROVE told' \in [Outages -> [Recipients -> Nat]]
      <4>1. CASE IsAlert(q) /\ ok
        <5>1. q.outage \in Outages /\ q.to \in Recipients
          BY <1>1, <4>1, Alerts
        <5>2. told' = [told EXCEPT ![q.outage][q.to] = @ + 1]
          BY <3>2, <4>1 DEF HubAnswers
        <5> QED
          BY <1>1, <5>1, <5>2 DEF LifecycleTypeOK
      <4>2. CASE ~(IsAlert(q) /\ ok)
        BY <1>1, <3>2, <4>2 DEF HubAnswers, LifecycleTypeOK
      <4> QED
        BY <4>1, <4>2
    <3> QED
      BY <1>3, <3>1, <3>2
  <2>4. LifecycleTypeOK'
    BY <1>1, <2>1, <2>2, <2>3 DEF LifecycleTypeOK
  <2> QED
    BY <2>1, <2>2, <2>4 DEF Owned, OneSocket, DownIsEmpty, StoppedIsEmpty, RegisteredIsOpen, AlertsAreOfOutages
<1> QED
  BY <1>2, <1>3
(* Facts every event of a running process starts from. *)
LEMMA AtWork ==
    ASSUME Owned, running
    PROVE  /\ LifecycleTypeOK /\ AlertsAreOfOutages /\ running = TRUE
           /\ \A q \in pending : q.gen = current /\ q \in PendingRequests
           /\ current # NoGeneration => ~stopped
           /\ \A g \in Generations : socket[g] \notin {"closing", "closed"} => g = current
BY DEF Owned, OneSocket, StoppedIsEmpty, LifecycleTypeOK

LEMMA OwnedOpens == ASSUME Owned, NEW g \in Generations, Opens(g) PROVE Owned'
<1>1. running /\ socket[g] = "connecting"
  BY DEF Opens, AtRest
<1>2. LifecycleTypeOK /\ AlertsAreOfOutages /\ current = g
  BY <1>1, AtWork
<1>3. /\ socket' = [socket EXCEPT ![g] = "open"]
      /\ pending' = pending \union {Connecting(g)} /\ sent' = sent \union {Connecting(g)}
      /\ UNCHANGED <<running, stopped, current, reconnect, registered, answers, since, reported,
                     recovery, outage, toTell, outages, told, untold>>
  BY DEF Opens, Sends, owned, alerting
<1>4. /\ Connecting(g) \in PendingRequests /\ ~IsAlert(Connecting(g))
      /\ Connecting(g).gen = g /\ Connecting(g).outage = 0
  BY OutagesAssumption DEF Connecting, Request, PendingRequests, IsAlert
<1>5. LifecycleTypeOK'
  BY <1>2, <1>3, <1>4 DEF LifecycleTypeOK
<1>6. ~registered
  BY <1>1, <1>2 DEF Owned, RegisteredIsOpen
<1>7. OneSocket' /\ RegisteredIsOpen'
  BY <1>1, <1>2, <1>3, <1>4, <1>6 DEF LifecycleTypeOK, Owned, OneSocket, RegisteredIsOpen
<1>8. DownIsEmpty' /\ StoppedIsEmpty' /\ AlertsAreOfOutages'
  BY <1>1, <1>3, <1>4 DEF Owned, DownIsEmpty, StoppedIsEmpty, AlertsAreOfOutages
<1> QED
  BY <1>5, <1>7, <1>8 DEF Owned

LEMMA OwnedCloses == ASSUME Owned, NEW g \in Generations, CloseEvent(g) PROVE Owned'
<1>1. /\ running /\ socket' = [socket EXCEPT ![g] = "closed"] /\ answers' \subseteq answers
      /\ UNCHANGED <<running, stopped, sent, reported, alerting, told>>
  BY DEF CloseEvent, AtRest
<1>2. LifecycleTypeOK /\ AlertsAreOfOutages
  BY DEF Owned
<1>3. CASE current = g
  BY <1>1, <1>3, RecipientsAssumption, AtWork, LosingSocket DEF CloseEvent
<1>4. CASE current # g
  <2>1. UNCHANGED <<current, reconnect, registered, pending, since, outages, untold, recovery, outage, toTell>>
    BY <1>1, <1>4 DEF CloseEvent, owned, alerting
  <2>2. LifecycleTypeOK'
    BY <1>1, <1>2, <2>1 DEF LifecycleTypeOK
  <2>3. OneSocket' /\ RegisteredIsOpen'
    BY <1>1, <1>2, <1>4, <2>1 DEF LifecycleTypeOK, Owned, OneSocket, RegisteredIsOpen
  <2> QED
    BY <1>1, <2>1, <2>2, <2>3 DEF Owned, DownIsEmpty, StoppedIsEmpty, AlertsAreOfOutages
<1> QED
  BY <1>3, <1>4

(* mesh.connect failed: the socket is closed and lost. *)
LEMMA OwnedRejected ==
    ASSUME Owned, running, NEW g \in Generations, current = g, Rejected(g),
           UNCHANGED <<running, stopped, reported, alerting, told>>, sent' = sent, answers' \subseteq answers
    PROVE  Owned'
<1>1. PICK s \in {"closing", "closed"} : socket' = [socket EXCEPT ![g] = s]
  BY DEF Rejected, Closes
<1>2. ~stopped /\ current # NoGeneration /\ LosesSocket
  BY RecipientsAssumption, AtWork DEF Rejected
<1> QED
  BY <1>1, <1>2, LosingSocket

LEMMA OwnedHears ==
    ASSUME Owned, NEW a \in answers, Registers(a) \/ Refused(a) \/ AlertAnswered(a) \/ Ignored(a)
    PROVE  Owned'
<1>1. running /\ answers' = answers \ {a}
  BY DEF Registers, Refused, AlertAnswered, Ignored, Message, AtRest
<1>2. LifecycleTypeOK /\ AlertsAreOfOutages /\ a.request \in PendingRequests /\ running = TRUE
  BY <1>1, AtWork DEF LifecycleTypeOK
<1>3. CASE Registers(a)
  <2>1. /\ current = a.request.gen /\ a.request \in pending /\ ~IsAlert(a.request)
        /\ pending' = pending \ {a.request} /\ registered' = TRUE /\ recovery' = "ending" /\ outage' = since
        /\ UNCHANGED <<running, stopped, current, reconnect, socket, sent, since, reported, toTell, outages, told, untold>>
    BY <1>3 DEF Registers, Awaited
  <2>2. LifecycleTypeOK'
    <3>1. {running', stopped', reconnect', registered'} \subseteq BOOLEAN
      BY <1>2, <2>1 DEF LifecycleTypeOK
    <3> QED
      BY <1>1, <1>2, <2>1, <3>1 DEF LifecycleTypeOK
  <2>3. pending' = {}
    <3>1. \A q \in pending : q \in PendingRequests /\ q.gen = current /\ ~IsAlert(q) /\ q.outage = 0
      BY <1>1, <2>1, AtWork DEF Owned, RegisteredIsOpen
    <3>2. \A q, p \in PendingRequests : q.gen = p.gen /\ q.outage = p.outage /\ q.to = p.to => q = p
      BY DEF PendingRequests
    <3> QED
      BY <2>1, <3>1, <3>2 DEF IsAlert
  <2>4. OneSocket' /\ RegisteredIsOpen'
    BY <1>1, <1>2, <2>1, <2>3, RecipientsAssumption DEF Owned, OneSocket, RegisteredIsOpen, PendingRequests
  <2> QED
    BY <1>1, <1>2, <2>1, <2>2, <2>3, <2>4 DEF Owned, DownIsEmpty, StoppedIsEmpty, AlertsAreOfOutages
<1>4. CASE Refused(a)
  <2>1. /\ current = a.request.gen /\ a.request.gen \in Generations /\ Rejected(a.request.gen)
        /\ UNCHANGED <<running, stopped, reported, alerting, told>> /\ sent' = sent
    BY <1>2, <1>4 DEF Refused, Awaited, PendingRequests
  <2> QED
    BY <1>1, <2>1, OwnedRejected
<1>5. CASE AlertAnswered(a)
  <2>1. /\ pending' = pending \ {a.request}
        /\ UNCHANGED <<running, stopped, current, reconnect, registered, socket, sent, since, reported,
                       recovery, outage, toTell, outages, told>>
    BY <1>5 DEF AlertAnswered, owned, alerting
  <2>2. untold' \subseteq Outages \X Recipients
    BY <1>2, <1>5, Losing DEF AlertAnswered, Awaited, LifecycleTypeOK
  <2>3. LifecycleTypeOK'
    BY <1>1, <1>2, <2>1, <2>2 DEF LifecycleTypeOK
  <2> QED
    BY <1>1, <2>1, <2>3 DEF Owned, OneSocket, DownIsEmpty, StoppedIsEmpty, RegisteredIsOpen, AlertsAreOfOutages
<1>6. CASE Ignored(a)
  <2>1. UNCHANGED <<running, stopped, current, reconnect, registered, socket, pending, sent, since, reported,
                    recovery, outage, toTell, outages, told, untold>>
    BY <1>6 DEF Ignored, owned, alerting
  <2>2. LifecycleTypeOK'
    BY <1>1, <1>2, <2>1 DEF LifecycleTypeOK
  <2> QED
    BY <1>1, <2>1, <2>2 DEF Owned, OneSocket, DownIsEmpty, StoppedIsEmpty, RegisteredIsOpen, AlertsAreOfOutages
<1> QED
  BY <1>3, <1>4, <1>5, <1>6

LEMMA OwnedTimesOut == ASSUME Owned, NEW q \in pending, RpcTimeout(q) PROVE Owned'
<1>1. running /\ UNCHANGED <<running, stopped, sent, answers, reported, alerting, told>>
  BY DEF RpcTimeout, AtRest
<1>2. LifecycleTypeOK /\ AlertsAreOfOutages /\ q \in PendingRequests /\ q.gen = current
  BY <1>1, AtWork
<1>3. CASE IsAlert(q)
  <2>1. /\ pending' = pending \ {q} /\ Lose({q})
        /\ UNCHANGED <<current, reconnect, registered, socket, since, outages, recovery, outage, toTell>>
    BY <1>1, <1>3 DEF RpcTimeout, owned, alerting
  <2>2. untold' \subseteq Outages \X Recipients
    BY <1>2, <2>1, Losing
  <2>3. LifecycleTypeOK'
    BY <1>1, <1>2, <2>1, <2>2 DEF LifecycleTypeOK
  <2> QED
    BY <1>1, <2>1, <2>3 DEF Owned, OneSocket, DownIsEmpty, StoppedIsEmpty, RegisteredIsOpen, AlertsAreOfOutages
<1>4. CASE ~IsAlert(q)
  <2>1. Rejected(q.gen) /\ q.gen \in Generations
    BY <1>2, <1>4 DEF RpcTimeout, PendingRequests
  <2> QED
    BY <1>1, <1>2, <2>1, OwnedRejected
<1> QED
  BY <1>3, <1>4
LEMMA OwnedRecovers == ASSUME Owned, Recover PROVE Owned'
<1>1. /\ recovery \in {"ending", "ended", "alerting"}
      /\ UNCHANGED <<running, stopped, current, reconnect, registered, socket, answers, told, outages>>
  BY DEF Recover, EndOutage, MarkReported, SendAlert, AllTold, owned, calls
<1>2. running /\ running = TRUE
  BY <1>1 DEF Owned, DownIsEmpty, LifecycleTypeOK
<1>3. LifecycleTypeOK /\ AlertsAreOfOutages
  BY DEF Owned
<1>4. ASSUME UNCHANGED <<pending, sent>>, LifecycleTypeOK', AlertsAreOfOutages' PROVE Owned'
  BY <1>1, <1>2, <1>4 DEF Owned, OneSocket, DownIsEmpty, StoppedIsEmpty, RegisteredIsOpen
<1>5. CASE EndOutage
  <2>1. /\ UNCHANGED <<pending, sent, reported, toTell, untold>> /\ since' = 0
        /\ \/ recovery' = "idle" /\ outage' = 0
           \/ recovery' = "ended" /\ outage' = outage /\ outage # 0
    BY <1>5 DEF EndOutage, calls
  <2>2. since' \in 0..MaxOutages /\ outage' \in 0..MaxOutages
    BY <1>3, <2>1, OutagesAssumption DEF LifecycleTypeOK
  <2>3. LifecycleTypeOK' /\ AlertsAreOfOutages'
    BY <1>1, <1>3, <2>1, <2>2 DEF LifecycleTypeOK, AlertsAreOfOutages
  <2> QED
    BY <1>4, <2>1, <2>3
<1>6. CASE MarkReported
  <2>1. LifecycleTypeOK' /\ AlertsAreOfOutages'
    BY <1>1, <1>3, <1>6 DEF MarkReported, calls, LifecycleTypeOK, AlertsAreOfOutages
  <2> QED
    BY <1>4, <1>6, <2>1 DEF MarkReported, calls
<1>7. CASE AllTold
  <2>1. outage' \in 0..MaxOutages
    BY <1>7, OutagesAssumption DEF AllTold
  <2>2. LifecycleTypeOK' /\ AlertsAreOfOutages'
    BY <1>1, <1>3, <1>7, <2>1 DEF AllTold, calls, LifecycleTypeOK, AlertsAreOfOutages
  <2> QED
    BY <1>4, <1>7, <2>2 DEF AllTold, calls
<1>8. ASSUME NEW r \in toTell, SendAlert(r) PROVE Owned'
  <2> DEFINE q == Request(current, outage, r)
  <2>1. /\ recovery = "alerting" /\ UNCHANGED <<since, reported, recovery, outage>>
        /\ toTell' = toTell \ {r} /\ r \in Recipients /\ outage # 0
    BY <1>3, <1>8 DEF SendAlert, LifecycleTypeOK, AlertsAreOfOutages
  <2>2. CASE registered /\ IsOpen(current)
    <3>1. pending' = pending \union {q} /\ sent' = sent \union {q} /\ untold' = untold
      BY <1>8, <2>2 DEF SendAlert, Sends
    <3>2. current \in Generations /\ ~stopped
      BY <1>2, <1>3, <2>2 DEF LifecycleTypeOK, Owned, RegisteredIsOpen, StoppedIsEmpty
    <3>3. q \in PendingRequests /\ IsAlert(q) /\ q.gen = current /\ q.outage = outage
      BY <1>3, <2>1, <3>2, RecipientsAssumption DEF Request, PendingRequests, IsAlert, LifecycleTypeOK
    <3> HIDE DEF q
    <3>4. LifecycleTypeOK'
      BY <1>1, <1>3, <2>1, <3>1, <3>3 DEF LifecycleTypeOK
    <3> QED
      BY <1>1, <1>2, <2>1, <2>2, <3>1, <3>3, <3>4 DEF Owned, OneSocket, DownIsEmpty, StoppedIsEmpty,
          RegisteredIsOpen, AlertsAreOfOutages
  <2>3. CASE ~(registered /\ IsOpen(current))
    <3>1. untold' = untold \union {<<outage, r>>} /\ UNCHANGED <<pending, sent>>
      BY <1>8, <2>3 DEF SendAlert
    <3>2. outage \in Outages
      BY <1>3, <2>1, OutagesAssumption DEF LifecycleTypeOK, Outages
    <3>3. LifecycleTypeOK' /\ AlertsAreOfOutages'
      BY <1>1, <1>3, <2>1, <3>1, <3>2 DEF LifecycleTypeOK, AlertsAreOfOutages
    <3> QED
      BY <1>4, <3>1, <3>3
  <2> QED
    BY <2>2, <2>3
<1> QED
  BY <1>5, <1>6, <1>7, <1>8 DEF Recover

LEMMA OwnedStutters == ASSUME Owned, UNCHANGED lifecycleVars PROVE Owned'
<1>1. UNCHANGED <<running, stopped, current, reconnect, registered, socket, pending, sent, answers, since,
                  reported, recovery, outage, toTell, outages, told, untold>>
  BY DEF lifecycleVars, owned, calls, alerting
<1>2. LifecycleTypeOK'
  BY <1>1 DEF Owned, LifecycleTypeOK
<1> QED
  BY <1>1, <1>2 DEF Owned, OneSocket, DownIsEmpty, StoppedIsEmpty, RegisteredIsOpen, AlertsAreOfOutages

LEMMA OwnedStep == Owned /\ [LifecycleNext]_lifecycleVars => Owned'
BY OwnedBegins, OwnedStops, OwnedCrashes, OwnedNetwork, OwnedOpens, OwnedCloses, OwnedHears,
   OwnedTimesOut, OwnedRecovers, OwnedStutters DEF LifecycleNext, TimerOrEvent

LEMMA OwnedAlways == LifecycleSpec => []Owned
BY OwnedInit, OwnedStep, PTL DEF LifecycleSpec

(* The daemon's connection keeps the types of its variables. *)
THEOREM LifecycleTypes == LifecycleSpec => []LifecycleTypeOK
BY OwnedAlways, PTL DEF Owned

(* A lifecycle that is to run has a socket or a timer, every other socket  *)
(* was closed, and only its own is waited for, whatever fails in between.  *)
THEOREM OwnsOneSocket == LifecycleSpec => []OneSocket
BY OwnedAlways, PTL DEF Owned
----------------------------------------------------------------------------
LEMMA ToldInit == LifecycleInit => Told
BY OutagesAssumption DEF LifecycleInit, Told, RecordedIsUnsaid, ToTellIsUnsaid, SentIsFirst, ToldOnce, Unsaid, Outages

(* Fewer requests on their way take nothing away. *)
LEMMA ToldStays ==
    ASSUME Told, sent' \subseteq sent, UNCHANGED <<told, since, outages, recovery, outage, toTell>>
    PROVE  Told'
BY DEF Told, RecordedIsUnsaid, ToTellIsUnsaid, SentIsFirst, ToldOnce, Unsaid

(* A new outage was not told of. *)
LEMMA ToldMarks ==
    ASSUME Owned, Told, MarkUnavailable, recovery \in {"idle", "alerting"}, sent' \subseteq sent,
           UNCHANGED <<told, recovery, outage, toTell>>
    PROVE  Told'
<1>1. /\ since \in 0..MaxOutages /\ outages \in 0..MaxOutages /\ outage \in 0..MaxOutages
      /\ MaxOutages \in Nat /\ toTell \subseteq Recipients
  BY OutagesAssumption DEF Owned, LifecycleTypeOK
<1>2. CASE since # 0
  BY <1>2, ToldStays DEF MarkUnavailable
<1>3. CASE since = 0
  <2>1. since' = outages + 1 /\ outages' = outages + 1 /\ outage <= outages
    BY <1>3 DEF MarkUnavailable, Told, RecordedIsUnsaid
  <2>2. \A o \in Outages : o = since' \/ o > outages' => o > outages
    BY <1>1, <2>1 DEF Outages
  <2>3. \A o, r : Unsaid(o, r) => Unsaid(o, r)'
    BY DEF Unsaid
  <2>4. outage # since' /\ since' <= outages' /\ outage <= outages'
    BY <1>1, <2>1
  <2>5. RecordedIsUnsaid'
    BY <2>2, <2>3, <2>4 DEF Told, RecordedIsUnsaid
  <2>6. ToTellIsUnsaid'
    BY <2>3, <2>4 DEF Told, ToTellIsUnsaid
  <2>7. SentIsFirst' /\ ToldOnce'
    BY DEF Told, SentIsFirst, ToldOnce
  <2> QED
    BY <2>5, <2>6, <2>7 DEF Told
<1> QED
  BY <1>2, <1>3

(* At rest the recovery work is done, or waits for an alert on a socket    *)
(* that is registered.                                                     *)
LEMMA AtRestIs ==
    ASSUME Owned, AtRest
    PROVE  recovery \in {"idle", "alerting"} /\ (recovery = "alerting" => registered)
BY DEF Owned, AtRest, Recovering, RegisteredIsOpen, LifecycleTypeOK

(* The hub takes an alert that is on its way: it was the only one. *)
LEMMA ToldAnswers ==
    ASSUME Owned, Told, NEW q \in sent, NEW ok \in BOOLEAN, HubAnswers(q, ok)
    PROVE  Told'
<1>1. sent' = sent \ {q} /\ UNCHANGED <<since, outages, recovery, outage, toTell>>
  BY DEF HubAnswers, alerting
<1>2. CASE ~(IsAlert(q) /\ ok)
  <2>1. told' = told
    BY <1>2 DEF HubAnswers
  <2> QED
    BY <1>1, <2>1, ToldStays
<1>3. CASE IsAlert(q) /\ ok
  <2>1. q.outage \in Outages /\ q.to \in Recipients
    BY <1>3, Alerts DEF Owned
  <2>2. told' = [told EXCEPT ![q.outage][q.to] = @ + 1]
    BY <1>3 DEF HubAnswers
  <2>3. told[q.outage][q.to] = 0 /\ \A p \in sent' : ~(p.outage = q.outage /\ p.to = q.to)
    BY <1>1, <1>3 DEF Told, SentIsFirst
  <2>4. \A o \in Outages, r \in Recipients :
            told'[o][r] = IF o = q.outage /\ r = q.to THEN 1 ELSE told[o][r]
    BY <2>1, <2>2, <2>3 DEF Owned, LifecycleTypeOK
  <2>5. \A o \in Outages, r \in Recipients : Unsaid(o, r) => Unsaid(o, r)'
    BY <1>1, <2>4 DEF Unsaid
  <2>6. RecordedIsUnsaid'
    BY <1>1, <2>5 DEF Told, RecordedIsUnsaid
  <2>7. ToTellIsUnsaid'
    <3>1. outage # 0 => outage \in Outages
      BY OutagesAssumption DEF Owned, LifecycleTypeOK, Outages
    <3>2. toTell \subseteq Recipients
      BY DEF Owned, LifecycleTypeOK
    <3> QED
      BY <1>1, <2>5, <3>1, <3>2 DEF Told, ToTellIsUnsaid
  <2>8. SentIsFirst'
    <3> SUFFICES ASSUME NEW p \in sent', IsAlert(p)
                 PROVE  /\ told'[p.outage][p.to] = 0
                        /\ \A x \in sent' : x.outage = p.outage /\ x.to = p.to => x = p
      BY DEF SentIsFirst, IsAlert
    <3>1. p.outage \in Outages /\ p.to \in Recipients /\ p \in sent
      BY <1>1, Alerts DEF Owned
    <3> QED
      BY <1>1, <2>3, <2>4, <3>1 DEF Told, SentIsFirst
  <2>9. ToldOnce'
    BY <2>4 DEF Told, ToldOnce
  <2> QED
    BY <2>6, <2>7, <2>8, <2>9 DEF Told
<1> QED
  BY <1>2, <1>3

LEMMA ToldOpens == ASSUME Owned, Told, NEW g \in Generations, Opens(g) PROVE Told'
<1>1. /\ sent' = sent \union {Connecting(g)}
      /\ UNCHANGED <<told, since, outages, recovery, outage, toTell>>
  BY DEF Opens, Sends, alerting
<1>2. Connecting(g).to = Hub /\ ~IsAlert(Connecting(g))
  BY DEF Connecting, Request, IsAlert
<1>3. \A o, r : r \in Recipients /\ Unsaid(o, r) => Unsaid(o, r)'
  BY <1>1, <1>2, RecipientsAssumption DEF Unsaid
<1>4. RecordedIsUnsaid'
  BY <1>1, <1>3 DEF Told, RecordedIsUnsaid
<1>5. ToTellIsUnsaid'
  <2>1. toTell \subseteq Recipients
    BY DEF Owned, LifecycleTypeOK
  <2> QED
    BY <1>1, <1>3, <2>1 DEF Told, ToTellIsUnsaid
<1>6. SentIsFirst' /\ ToldOnce'
  BY <1>1, <1>2 DEF Told, SentIsFirst, ToldOnce, IsAlert
<1> QED
  BY <1>4, <1>5, <1>6 DEF Told

(* mesh.connect was accepted: the recovery work takes up what is recorded. *)
LEMMA ToldRegisters == ASSUME Owned, Told, NEW a \in answers, Registers(a) PROVE Told'
<1>1. /\ recovery' = "ending" /\ outage' = since
      /\ UNCHANGED <<told, sent, since, outages, toTell>>
  BY DEF Registers
<1> QED
  BY <1>1 DEF Told, RecordedIsUnsaid, ToTellIsUnsaid, SentIsFirst, ToldOnce, Unsaid

LEMMA ToldCrashes == ASSUME Owned, Told, DaemonDies PROVE Told'
<1>1. recovery' = "idle" /\ outage' = 0 /\ UNCHANGED <<told, sent, since, outages>>
  BY DEF DaemonDies
<1>2. 0 <= outages
  BY OutagesAssumption DEF Owned, LifecycleTypeOK
<1> QED
  BY <1>1, <1>2 DEF Told, RecordedIsUnsaid, ToTellIsUnsaid, SentIsFirst, ToldOnce, Unsaid

LEMMA ToldRecovers == ASSUME Owned, Told, Recover PROVE Told'
<1>1. /\ since \in 0..MaxOutages /\ outages \in 0..MaxOutages /\ outage \in 0..MaxOutages
      /\ MaxOutages \in Nat /\ toTell \subseteq Recipients
  BY OutagesAssumption DEF Owned, LifecycleTypeOK
<1>2. outages' = outages /\ told' = told
  BY DEF Recover, EndOutage, MarkReported, SendAlert, AllTold
<1>3. outage \in Outages \/ outage = 0
  BY <1>1 DEF Outages
<1>4. CASE EndOutage
  <2>1. /\ recovery = "ending" /\ since' = 0 /\ sent' = sent
        /\ \/ recovery' = "idle" /\ outage' = 0
           \/ recovery' = "ended" /\ outage' = outage /\ outage # 0
    BY <1>4 DEF EndOutage, calls
  <2>2. \A o, r : Unsaid(o, r) => Unsaid(o, r)'
    BY <1>2, <2>1 DEF Unsaid
  <2>3. \A o \in Outages : o # 0
    BY DEF Outages
  <2>4. RecordedIsUnsaid'
    BY <1>1, <1>2, <2>1, <2>2, <2>3 DEF Told, RecordedIsUnsaid
  <2>5. ToTellIsUnsaid'
    BY <1>3, <2>1, <2>2 DEF Told, RecordedIsUnsaid, ToTellIsUnsaid
  <2>6. SentIsFirst' /\ ToldOnce'
    BY <1>2, <2>1 DEF Told, SentIsFirst, ToldOnce
  <2> QED
    BY <2>4, <2>5, <2>6 DEF Told
<1>5. CASE MarkReported
  <2>1. /\ recovery = "ended" /\ recovery' = "alerting" /\ toTell' = Recipients
        /\ UNCHANGED <<sent, since, outage>>
    BY <1>5 DEF MarkReported, calls
  <2> QED
    BY <1>2, <2>1 DEF Told, RecordedIsUnsaid, ToTellIsUnsaid, SentIsFirst, ToldOnce, Unsaid
<1>6. CASE AllTold
  <2>1. recovery' = "idle" /\ outage' = 0 /\ UNCHANGED <<sent, since, toTell>> /\ 0 <= outages
    BY <1>1, <1>6 DEF AllTold, calls
  <2> QED
    BY <1>2, <2>1 DEF Told, RecordedIsUnsaid, ToTellIsUnsaid, SentIsFirst, ToldOnce, Unsaid
<1>7. ASSUME NEW r \in toTell, SendAlert(r) PROVE Told'
  <2> DEFINE q == Request(current, outage, r)
  <2>1. /\ recovery = "alerting" /\ UNCHANGED <<since, recovery, outage>> /\ toTell' = toTell \ {r}
        /\ outage \in Outages /\ outage # since /\ Unsaid(outage, r) /\ r \in Recipients
    BY <1>1, <1>3, <1>7 DEF SendAlert, Told, ToTellIsUnsaid
  <2>2. CASE registered /\ IsOpen(current)
    <3>1. sent' = sent \union {q} /\ q.outage = outage /\ q.to = r
      BY <1>7, <2>2 DEF SendAlert, Sends, Request
    <3> HIDE DEF q
    <3>2. \A o, x : Unsaid(o, x) /\ ~(o = outage /\ x = r) => Unsaid(o, x)'
      BY <1>2, <3>1 DEF Unsaid
    <3>3. ~(outage > outages)
      BY <1>1 DEF Told, RecordedIsUnsaid
    <3>4. RecordedIsUnsaid'
      BY <1>2, <2>1, <3>2, <3>3 DEF Told, RecordedIsUnsaid
    <3>5. ToTellIsUnsaid'
      BY <2>1, <3>2 DEF Told, ToTellIsUnsaid
    <3>6. SentIsFirst'
      BY <1>2, <2>1, <3>1 DEF Told, SentIsFirst, Unsaid, IsAlert
    <3> QED
      BY <1>2, <3>4, <3>5, <3>6 DEF Told, ToldOnce
  <2>3. CASE ~(registered /\ IsOpen(current))
    <3>1. sent' = sent
      BY <1>7, <2>3 DEF SendAlert
    <3> QED
      BY <1>2, <2>1, <3>1 DEF Told, RecordedIsUnsaid, ToTellIsUnsaid, SentIsFirst, ToldOnce, Unsaid
  <2> QED
    BY <2>2, <2>3
<1> QED
  BY <1>4, <1>5, <1>6, <1>7 DEF Recover

(* Every other step loses a socket or leaves the outages alone. *)
LEMMA ToldStep == Owned /\ Told /\ [LifecycleNext]_lifecycleVars => Told'
<1> SUFFICES ASSUME Owned, Told, [LifecycleNext]_lifecycleVars PROVE Told'
  OBVIOUS
<1>1. ASSUME NEW made \in BOOLEAN, DaemonBoots(made) \/ Start(made) \/ TimerFires(made) PROVE Told'
  <2>1. recovery \in {"idle", "alerting"}
    BY <1>1, AtRestIs DEF DaemonBoots, Start, TimerFires, Owned, DownIsEmpty
  <2>2. sent' = sent /\ UNCHANGED <<told, recovery, outage, toTell>> /\ Dial(made)
    BY <1>1 DEF DaemonBoots, Start, TimerFires, calls, alerting
  <2>3. CASE made
    BY <2>2, <2>3, ToldStays DEF Dial, Connects
  <2>4. CASE ~made
    BY <2>1, <2>2, <2>4, ToldMarks DEF Dial, CannotConnect
  <2> QED
    BY <2>3, <2>4
<1>2. CASE Stop
  BY <1>2, ToldStays DEF Stop, alerting
<1>3. ASSUME NEW g \in Generations, HubCloses(g) \/ Vanishes(g) PROVE Told'
  BY <1>3, ToldStays DEF HubCloses, Vanishes, alerting
<1>4. ASSUME NEW q \in sent, NeverArrives(q) PROVE Told'
  BY <1>4, ToldStays DEF NeverArrives, alerting
<1>5. ASSUME NEW g \in Generations, CloseEvent(g) PROVE Told'
  <2>1. recovery \in {"idle", "alerting"} /\ sent' = sent /\ UNCHANGED <<told, recovery, outage, toTell>>
    BY <1>5, AtRestIs DEF CloseEvent, alerting
  <2>2. CASE current = g
    BY <1>5, <2>1, <2>2, ToldMarks DEF CloseEvent, LosesSocket
  <2>3. CASE current # g
    BY <1>5, <2>1, <2>3, ToldStays DEF CloseEvent
  <2> QED
    BY <2>2, <2>3
<1>6. ASSUME NEW a \in answers, Refused(a) \/ AlertAnswered(a) \/ Ignored(a) PROVE Told'
  <2>1. recovery \in {"idle", "alerting"} /\ sent' = sent /\ UNCHANGED <<told, recovery, outage, toTell>>
    BY <1>6, AtRestIs DEF Refused, AlertAnswered, Ignored, Message, alerting
  <2>2. CASE Refused(a)
    BY <2>1, <2>2, ToldMarks DEF Refused, Rejected, LosesSocket
  <2>3. CASE AlertAnswered(a) \/ Ignored(a)
    BY <2>1, <2>3, ToldStays DEF AlertAnswered, Ignored
  <2> QED
    BY <1>6, <2>2, <2>3
<1>7. ASSUME NEW q \in pending, RpcTimeout(q) PROVE Told'
  <2>1. recovery \in {"idle", "alerting"} /\ sent' = sent /\ UNCHANGED <<told, recovery, outage, toTell>>
    BY <1>7, AtRestIs DEF RpcTimeout, alerting
  <2>2. CASE IsAlert(q)
    BY <1>7, <2>1, <2>2, ToldStays DEF RpcTimeout
  <2>3. CASE ~IsAlert(q)
    BY <1>7, <2>1, <2>3, ToldMarks DEF RpcTimeout, Rejected, LosesSocket
  <2> QED
    BY <2>2, <2>3
<1>8. CASE UNCHANGED lifecycleVars
  BY <1>8, ToldStays DEF lifecycleVars, calls, alerting
<1> QED
  BY <1>1, <1>2, <1>3, <1>4, <1>5, <1>6, <1>7, <1>8, ToldAnswers, ToldOpens, ToldRegisters, ToldCrashes,
     ToldRecovers DEF LifecycleNext, TimerOrEvent

(* No recipient is told twice of an outage, for any number of outages and  *)
(* recipients, and however often the daemon dies while it tells them.      *)
THEOREM NobodyToldTwice == LifecycleSpec => []ToldOnce
<1>1. LifecycleSpec => [](Owned /\ Told)
  BY OwnedInit, ToldInit, OwnedStep, ToldStep, PTL DEF LifecycleSpec
<1> QED
  BY <1>1, PTL DEF Told
=============================================================================
