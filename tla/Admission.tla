----------------------------- MODULE Admission ------------------------------
(***************************************************************************)
(* How the hub lets a request of one identity in, on each of four roads:   *)
(* mesh.connect, a request on the open socket, JSON-RPC over HTTP and the  *)
(* REST routes.  The road decides in which order freshness, the nonce, the *)
(* key, the signature, the budget and the observed source are looked at,   *)
(* and what a refusal has already changed.                                 *)
(*                                                                         *)
(* A request is handled in one turn of the hub's event loop.  An envelope  *)
(* is a request as it was signed once, with its own nonce.  It may arrive  *)
(* any number of times, on every road it fits, or damaged.  Credit is      *)
(* counted in units of the clock, one unit of it for each that passes.     *)
(***************************************************************************)
EXTENDS Integers

CONSTANTS
    Envelopes,
    Kind,             \* what an envelope was signed for
    Iat,              \* and when
    Window,           \* SIGNATURE_FRESHNESS_WINDOW_SECONDS
    Capacity,         \* credit of a full bucket: capacity / refillPerSecond
    Cost,             \* credit of one token: 1 / refillPerSecond
    Places,           \* networks, as prefixOf tells them apart
    MaxClock,         \* bound: the last instant
    AdmissionFaults   \* which faults happen

(* The signature of a JSON-RPC request says nothing of the road it takes.  *)
Kinds == {"connect", "rpc", "rest"}

(* setback: the wall clock is set back.  restart: the hub restarts.  rule: *)
(* the key is revoked, or approved.  damage: an envelope arrives damaged.  *)
AllAdmissionFaults == {"setback", "restart", "rule", "damage"}

ASSUME KindAssumption == Kind \in [Envelopes -> Kinds]
ASSUME IatAssumption == Iat \in [Envelopes -> Nat]
ASSUME LimitsAssumption ==
    /\ Window \in Nat /\ Capacity \in Nat /\ Cost \in Nat
    /\ MaxClock \in Nat
ASSUME AdmissionFaultsAssumption == AdmissionFaults \subseteq AllAdmissionFaults

Nowhere == "nowhere"
Never == -1
ASSUME PlacesAssumption == Nowhere \notin Places

VARIABLES
    clock,         \* Date.now()
    keyApproved,   \* the identity's key is approved
    claimed,       \* envelopes whose nonce is in the NonceWindow
    peer,          \* the place the identity's socket was observed at, or Nowhere
    credit,        \* tokens of its bucket in SIGNED_LIMIT
    updatedAt,     \* of the bucket, or Never when there is none
    seenAt,        \* agent_sources: places
    lastSend,      \* agents.last_send_at, against DORMANCY_SECONDS
    spent,         \* envelopes that were let in, or refused after freshness,
                   \* and are to be let in no more
    replayed,      \* those that were let in nevertheless
    load           \* an ideal meter: a token adds Cost, time drains it

bucket == <<credit, updatedAt>>
observedAt == <<seenAt, lastSend>>
history == <<spent, replayed>>
admissionVars == <<clock, keyApproved, claimed, peer, bucket, observedAt, history, load>>

AdmissionInit ==
    /\ clock = 0 /\ keyApproved = TRUE
    /\ claimed = {} /\ peer = Nowhere
    /\ credit = Capacity /\ updatedAt = Never
    /\ seenAt = {} /\ lastSend = "never"
    /\ spent = {} /\ replayed = {}
    /\ load = 0

----------------------------------------------------------------------------
(* The signature. *)

IsFresh(e) == clock - Iat[e] \in -Window .. Window

(* NonceWindow.claim(), which comes after freshness and before the key and *)
(* the signature, so that a request they refuse has spent its nonce.       *)
Claim(e) == claimed' = IF IsFresh(e) THEN claimed \union {e} ELSE claimed

Verifies(e, intact) == IsFresh(e) /\ e \notin claimed /\ keyApproved /\ intact

Spends(e) == spent' = IF IsFresh(e) THEN spent \union {e} ELSE spent

LetsIn(e) ==
    /\ Spends(e)
    /\ replayed' = IF e \in spent THEN replayed \union {e} ELSE replayed

Arrives(intact) == intact \/ "damage" \in AdmissionFaults

----------------------------------------------------------------------------
(* The budget: take() and sweep() of RateLimiter. *)

HasBucket == updatedAt # Never

(* Mutant: a clock that steps back takes credit away. *)
SignedElapsed == clock - updatedAt
Elapsed == IF clock > updatedAt THEN clock - updatedAt ELSE 0
Refilled ==
    IF ~HasBucket \/ credit + Elapsed > Capacity THEN Capacity ELSE credit + Elapsed

Take ==
    /\ credit' = IF Refilled >= Cost THEN Refilled - Cost ELSE Refilled
    /\ updatedAt' = clock
    /\ load' = IF Refilled >= Cost THEN load + Cost ELSE load

(* Mutant: seconds are compared with milliseconds, and every bucket that   *)
(* is older than an instant is dropped.                                    *)
SweepBucketEarly ==
    /\ HasBucket /\ clock > updatedAt
    /\ credit' = Capacity /\ updatedAt' = Never
    /\ UNCHANGED <<clock, keyApproved, claimed, peer, observedAt, history, load>>

SweepBucket ==
    /\ HasBucket /\ clock - updatedAt > Capacity
    /\ credit' = Capacity /\ updatedAt' = Never
    /\ UNCHANGED <<clock, keyApproved, claimed, peer, observedAt, history, load>>

----------------------------------------------------------------------------
(* The source. *)

RecordSource(p) == seenAt' = seenAt \union {p}

(* checkDormantSource(), with the sources the road has recorded by then.   *)
Unfamiliar(p, seen) == lastSend = "dormant" /\ seen # {} /\ p \notin seen

(* handleSend() as far as it looks at the source; other methods do not.    *)
(* A send that is refused for its source stamps nothing.                   *)
Handles(p, sends, seen) ==
    lastSend' = IF sends /\ ~Unfamiliar(p, seen) THEN "lately" ELSE lastSend

----------------------------------------------------------------------------
(* The roads. *)

(* mesh.connect: a second socket is refused, after its place is recorded.  *)
MeshConnect(e, p) ==
    /\ Kind[e] = "connect"
    /\ Verifies(e, TRUE) /\ Claim(e) /\ LetsIn(e)
    /\ RecordSource(p)
    /\ peer' = IF peer = Nowhere THEN p ELSE peer
    /\ UNCHANGED <<clock, keyApproved, bucket, lastSend, load>>

Disconnects ==
    /\ peer # Nowhere /\ peer' = Nowhere
    /\ UNCHANGED <<clock, keyApproved, claimed, bucket, observedAt, history, load>>

(* A request on the socket, which stays where it was observed.             *)
Speaks(e, sends) ==
    /\ Kind[e] = "rpc" /\ peer # Nowhere
    /\ Verifies(e, TRUE) /\ Claim(e) /\ LetsIn(e)
    /\ Handles(peer, sends, seenAt)
    /\ UNCHANGED <<clock, keyApproved, peer, bucket, seenAt, load>>

(* dispatchHttp(): mesh.connect is no method of this road, and is answered *)
(* with 404 when its nonce is spent and its source recorded.               *)
Rpc(e, p, sends) ==
    /\ Kind[e] # "rest" /\ (sends => Kind[e] = "rpc")
    /\ Verifies(e, TRUE) /\ Claim(e) /\ LetsIn(e)
    /\ RecordSource(p)
    /\ Handles(p, sends, seenAt')
    /\ UNCHANGED <<clock, keyApproved, peer, bucket, load>>

(* authenticate(), which alone has a budget; without credit, 429.          *)
Rest(e, p, sends) ==
    /\ Kind[e] = "rest"
    /\ Verifies(e, TRUE) /\ Claim(e) /\ LetsIn(e)
    /\ Take
    /\ IF Refilled >= Cost
       THEN RecordSource(p) /\ Handles(p, sends, seenAt')
       ELSE UNCHANGED observedAt
    /\ UNCHANGED <<clock, keyApproved, peer>>

(* Mutant: the nonce is claimed by a signature that verifies. *)
RefusesUnclaimed(e, intact) ==
    /\ Arrives(intact) /\ ~Verifies(e, intact)
    /\ Spends(e)
    /\ UNCHANGED <<clock, keyApproved, claimed, peer, bucket, observedAt, replayed, load>>

(* A request that does not verify.  JSON-RPC over HTTP finds its identity  *)
(* by the key, and without one nothing is claimed.                         *)
RefusesRequest(e, intact) ==
    /\ Arrives(intact) /\ ~Verifies(e, intact)
    /\ \/ Kind[e] # "rest" /\ ~keyApproved /\ UNCHANGED <<claimed, spent>>
       \/ (Kind[e] = "rpc" => keyApproved) /\ Claim(e) /\ Spends(e)
    /\ UNCHANGED <<clock, keyApproved, peer, bucket, observedAt, replayed, load>>

(* A socket on which the key is found not to be approved is dropped.       *)
DropsSocket(e) ==
    /\ Kind[e] # "rest" /\ peer # Nowhere /\ peer' = Nowhere
    /\ IsFresh(e) /\ e \notin claimed /\ ~keyApproved
    /\ Claim(e) /\ Spends(e)
    /\ UNCHANGED <<clock, keyApproved, bucket, observedAt, replayed, load>>

----------------------------------------------------------------------------
(* The clock, the sweeps, the key and the process. *)

Tick ==
    /\ clock < MaxClock /\ clock' = clock + 1
    /\ load' = IF load = 0 THEN 0 ELSE load - 1
    /\ UNCHANGED <<keyApproved, claimed, peer, bucket, observedAt, history>>

(* DORMANCY_SECONDS, hours against minutes, pass without a send. *)
GrowsDormant ==
    /\ lastSend = "lately" /\ lastSend' = "dormant"
    /\ UNCHANGED <<clock, keyApproved, claimed, peer, bucket, seenAt, history, load>>

(* What was swept can be fresh again. *)
SetBack ==
    /\ "setback" \in AdmissionFaults
    /\ clock > 0 /\ clock' = clock - 1
    /\ spent' = {e \in spent : e \in claimed \/ Iat[e] < clock - 1 - Window}
    /\ UNCHANGED <<keyApproved, claimed, peer, bucket, observedAt, replayed, load>>

SweepNonces ==
    /\ claimed' = {e \in claimed : Iat[e] >= clock - Window}
    /\ UNCHANGED <<clock, keyApproved, peer, bucket, observedAt, history, load>>

RulesOnKey ==
    /\ "rule" \in AdmissionFaults
    /\ keyApproved' = ~keyApproved
    /\ UNCHANGED <<clock, claimed, peer, bucket, observedAt, history, load>>

(* Nonces, buckets and sockets are kept in memory alone: what was let in   *)
(* and is still fresh is forgotten.                                        *)
Restart ==
    /\ "restart" \in AdmissionFaults
    /\ claimed' = {} /\ peer' = Nowhere
    /\ credit' = Capacity /\ updatedAt' = Never
    /\ spent' = {e \in spent : Iat[e] < clock - Window}
    /\ load' = 0
    /\ UNCHANGED <<clock, keyApproved, observedAt, replayed>>

AdmissionNext ==
    \/ \E e \in Envelopes, p \in Places :
        \/ MeshConnect(e, p)
        \/ \E sends \in BOOLEAN : Rpc(e, p, sends) \/ Rest(e, p, sends)
    \/ \E e \in Envelopes :
        \/ \E sends \in BOOLEAN : Speaks(e, sends)
        \/ \E intact \in BOOLEAN : RefusesRequest(e, intact)
        \/ DropsSocket(e)
    \/ Disconnects
    \/ Tick \/ GrowsDormant \/ SetBack \/ SweepNonces \/ SweepBucket \/ RulesOnKey \/ Restart

AdmissionSpec == AdmissionInit /\ [][AdmissionNext]_admissionVars

----------------------------------------------------------------------------
(* Properties. *)

AdmissionTypeOK ==
    /\ clock \in 0..MaxClock /\ keyApproved \in BOOLEAN
    /\ claimed \subseteq Envelopes /\ peer \in Places \union {Nowhere}
    /\ credit \in 0..Capacity /\ updatedAt \in 0..MaxClock \union {Never}
    /\ seenAt \subseteq Places /\ lastSend \in {"never", "lately", "dormant"}
    /\ spent \subseteq Envelopes /\ replayed \subseteq Envelopes
    /\ load \in Nat

(* "A nonce only has to be unrepeatable for the width of the window"       *)
(* (verify.ts:101): an envelope is let in once, and not at all once a road *)
(* that had found it fresh refused it for its key or its signature, on     *)
(* whatever road and however the key is ruled on and the window is swept   *)
(* between its arrivals.  It takes a restart within its window to let it   *)
(* in again, or a clock set back into it after it was swept.               *)
NoReplay == replayed = {}

(* A lane is held to its rate over every span of time, its refusals, the   *)
(* sweeps of its bucket and a clock that is set back included: what is     *)
(* granted never runs ahead of the refill by more than one full bucket     *)
(* ("the largest burst allowed", ratelimit.ts:31).                         *)
BudgetHolds == load <= Capacity

(* A dormant identity that sends from a place it was not seen at is        *)
(* refused (SPEC 8.11.2; sources.ts seenBefore "Called before recording,   *)
(* not after ... asking afterwards always answers yes"): the step that     *)
(* ends its silence adds no place.  Every road records the place before it *)
(* hands the request to handleSend, so it is always one that was seen.     *)
StrangerIsRefused ==
    [][lastSend = "dormant" /\ lastSend' = "lately" => seenAt' = seenAt]_admissionVars
=============================================================================
