-------------------------- MODULE Admission_proofs ---------------------------
(***************************************************************************)
(* What holds of the admission of requests, for any envelopes, windows,    *)
(* rates and bounds.  AdmissionInv strengthens its properties by what they *)
(* rest on: a spent envelope is remembered or out of its window, and the   *)
(* meter and the credit that could be spent at this instant fill one       *)
(* bucket at most.                                                         *)
(***************************************************************************)
EXTENDS Admission, TLAPS

(* What is spent is remembered for as long as it is fresh. *)
Remembered == \A e \in spent : e \in claimed \/ Iat[e] < clock - Window

(* The credit a request would find now, and what was granted, are together *)
(* no more than a full bucket.                                             *)
NeverOverdrawn == load + Refilled <= Capacity

AdmissionInv ==
    /\ AdmissionTypeOK
    /\ Remembered /\ NoReplay
    /\ NeverOverdrawn

LEMMA Constants == Window \in Nat /\ Capacity \in Nat /\ Cost \in Nat /\ MaxClock \in Nat
BY LimitsAssumption

(* The first state: nothing is spent and the bucket is full. *)
LEMMA AdmissionBegins == AdmissionInit => AdmissionInv
<1> SUFFICES ASSUME AdmissionInit PROVE AdmissionInv
  OBVIOUS
<1>1. AdmissionTypeOK
  <2>1. clock \in 0..MaxClock /\ credit \in 0..Capacity /\ load \in Nat
    BY Constants DEF AdmissionInit
  <2>2. updatedAt \in 0..MaxClock \union {Never} /\ peer \in Places \union {Nowhere}
    BY DEF AdmissionInit
  <2>3. lastSend \in {"never", "lately", "dormant"}
    BY DEF AdmissionInit
  <2> QED
    BY <2>1, <2>2, <2>3 DEF AdmissionInit, AdmissionTypeOK
<1>2. Remembered /\ NoReplay
  BY DEF AdmissionInit, Remembered, NoReplay
<1>3. Refilled = Capacity
  BY DEF AdmissionInit, Refilled, HasBucket
<1>4. NeverOverdrawn
  BY <1>3, Constants DEF AdmissionInit, NeverOverdrawn
<1> QED
  BY <1>1, <1>2, <1>4 DEF AdmissionInv

(* An envelope that verifies is not spent. *)
LEMMA VerifiedIsNew ==
    ASSUME AdmissionInv, NEW e \in Envelopes, Verifies(e, TRUE)
    PROVE  e \notin spent
<1>1. clock \in Nat /\ Iat[e] \in Nat /\ Window \in Nat
  BY Constants, IatAssumption DEF AdmissionInv, AdmissionTypeOK
<1>2. clock - Iat[e] <= Window /\ e \notin claimed
  BY <1>1 DEF Verifies, IsFresh
<1>3. ~(Iat[e] < clock - Window)
  BY <1>1, <1>2
<1> QED
  BY <1>2, <1>3 DEF AdmissionInv, Remembered

(* What letting one in does to the spent envelopes. *)
LEMMA LettingIn ==
    ASSUME AdmissionInv, NEW e \in Envelopes, Verifies(e, TRUE), Claim(e), LetsIn(e), clock' = clock
    PROVE  /\ claimed' \subseteq Envelopes /\ spent' \subseteq Envelopes
           /\ Remembered' /\ NoReplay'
<1>1. e \notin spent
  BY VerifiedIsNew
<1>2. claimed' = claimed \union {e} /\ spent' = spent \union {e} /\ replayed' = replayed
  BY <1>1 DEF Claim, LetsIn, Spends, Verifies
<1> QED
  BY <1>2 DEF AdmissionInv, AdmissionTypeOK, Remembered, NoReplay

(* The credit found is between nothing and a full bucket. *)
LEMMA RefilledBounds ==
    ASSUME AdmissionTypeOK
    PROVE  Refilled \in 0..Capacity
BY Constants DEF AdmissionTypeOK, Refilled, HasBucket, Elapsed, Never

(* No time adds no credit. *)
LEMMA NoTime ==
    ASSUME NEW c \in 0..Capacity
    PROVE  c + 0 = c /\ ~(c + 0 > Capacity)
BY Constants

(* take(): what is granted comes out of the credit. *)
LEMMA Taking ==
    ASSUME AdmissionInv, Take, clock' = clock
    PROVE  /\ credit' \in 0..Capacity /\ updatedAt' \in 0..MaxClock /\ load' \in Nat
           /\ NeverOverdrawn'
<1>1. Refilled \in 0..Capacity
  BY RefilledBounds DEF AdmissionInv
<1>2. /\ load \in Nat /\ load + Refilled <= Capacity /\ clock \in 0..MaxClock
      /\ Cost \in Nat /\ Capacity \in Nat /\ MaxClock \in Nat
  BY Constants DEF AdmissionInv, AdmissionTypeOK, NeverOverdrawn
<1>3. credit' \in 0..Capacity /\ updatedAt' = clock
  BY <1>1, <1>2 DEF Take
<1>4. HasBucket' /\ Elapsed' = 0
  BY <1>2, <1>3 DEF HasBucket, Elapsed, Never
<1>5. Refilled' = credit'
  <2>1. credit' + 0 = credit' /\ ~(credit' + 0 > Capacity)
    BY <1>3, NoTime
  <2>2. Refilled' = IF ~HasBucket' \/ credit' + 0 > Capacity THEN Capacity ELSE credit' + 0
    BY <1>4, Zenon DEF Refilled
  <2> QED
    BY <1>4, <2>1, <2>2, Zenon
<1>6. load' \in Nat /\ load' + credit' <= Capacity
  BY <1>1, <1>2 DEF Take
<1> QED
  BY <1>2, <1>3, <1>5, <1>6 DEF NeverOverdrawn

(* Time drains the meter by as much as it may refill the bucket. *)
LEMMA Draining ==
    ASSUME Capacity \in Nat, NEW l \in Nat, NEW r \in 0..Capacity, NEW s \in 0..Capacity,
           l + r <= Capacity
    PROVE  /\ s <= r => l + s <= Capacity
           /\ s <= r + 1 => (IF l = 0 THEN 0 ELSE l - 1) + s <= Capacity
OBVIOUS

(* Every step keeps the invariant. *)
LEMMA AdmissionStep == AdmissionInv /\ [AdmissionNext]_admissionVars => AdmissionInv'
<1> SUFFICES ASSUME AdmissionInv, [AdmissionNext]_admissionVars PROVE AdmissionInv'
  OBVIOUS
<1> USE Constants
<1>t. AdmissionTypeOK /\ Remembered /\ NoReplay /\ NeverOverdrawn
  BY DEF AdmissionInv
<1>1. ASSUME NEW e \in Envelopes, NEW p \in Places, MeshConnect(e, p) PROVE AdmissionInv'
  <2>1. claimed' \subseteq Envelopes /\ spent' \subseteq Envelopes /\ Remembered' /\ NoReplay'
    BY <1>1, LettingIn DEF MeshConnect
  <2>2. NeverOverdrawn'
    BY <1>1, <1>t DEF MeshConnect, bucket, NeverOverdrawn, Refilled, HasBucket, Elapsed
  <2> QED
    BY <1>1, <1>t, <2>1, <2>2 DEF MeshConnect, bucket, AdmissionInv, AdmissionTypeOK,
        RecordSource, NoReplay
<1>2. ASSUME NEW e \in Envelopes, NEW sends \in BOOLEAN, Speaks(e, sends) PROVE AdmissionInv'
  <2>1. claimed' \subseteq Envelopes /\ spent' \subseteq Envelopes /\ Remembered' /\ NoReplay'
    BY <1>2, LettingIn DEF Speaks
  <2>2. NeverOverdrawn'
    BY <1>2, <1>t DEF Speaks, bucket, NeverOverdrawn, Refilled, HasBucket, Elapsed
  <2>4. lastSend' \in {"never", "lately", "dormant"}
    BY <1>2, <1>t DEF Speaks, Handles, AdmissionTypeOK
  <2> QED
    BY <1>2, <1>t, <2>1, <2>2, <2>4 DEF Speaks, bucket, AdmissionInv, AdmissionTypeOK,
        NoReplay
<1>3. ASSUME NEW e \in Envelopes, NEW p \in Places, NEW sends \in BOOLEAN, Rpc(e, p, sends)
      PROVE AdmissionInv'
  <2>1. claimed' \subseteq Envelopes /\ spent' \subseteq Envelopes /\ Remembered' /\ NoReplay'
    BY <1>3, LettingIn DEF Rpc
  <2>2. NeverOverdrawn'
    BY <1>3, <1>t DEF Rpc, bucket, NeverOverdrawn, Refilled, HasBucket, Elapsed
  <2>3. p \in seenAt' /\ seenAt' = seenAt \union {p}
    BY <1>3 DEF Rpc, RecordSource
  <2>4. lastSend' \in {"never", "lately", "dormant"}
    BY <1>3, <1>t DEF Rpc, Handles, AdmissionTypeOK
  <2> QED
    BY <1>3, <1>t, <2>1, <2>2, <2>3, <2>4 DEF Rpc, bucket, AdmissionInv, AdmissionTypeOK,
        NoReplay
<1>4. ASSUME NEW e \in Envelopes, NEW p \in Places, NEW sends \in BOOLEAN, Rest(e, p, sends)
      PROVE AdmissionInv'
  <2>1. claimed' \subseteq Envelopes /\ spent' \subseteq Envelopes /\ Remembered' /\ NoReplay'
    BY <1>4, LettingIn DEF Rest
  <2>2. credit' \in 0..Capacity /\ updatedAt' \in 0..MaxClock /\ load' \in Nat /\ NeverOverdrawn'
    BY <1>4, Taking DEF Rest
  <2>3. seenAt' \subseteq Places /\ lastSend' \in {"never", "lately", "dormant"}
    BY <1>4, <1>t DEF Rest, RecordSource, Handles, observedAt, AdmissionTypeOK
  <2> QED
    BY <1>4, <1>t, <2>1, <2>2, <2>3 DEF Rest, AdmissionInv, AdmissionTypeOK, NoReplay
<1>5. ASSUME NEW e \in Envelopes, NEW intact \in BOOLEAN, RefusesRequest(e, intact)
      PROVE AdmissionInv'
  BY <1>5, <1>t DEF RefusesRequest, Claim, Spends, bucket, observedAt, history, AdmissionInv,
      AdmissionTypeOK, Remembered, NoReplay, NeverOverdrawn, Refilled, HasBucket, Elapsed
<1>6. ASSUME NEW e \in Envelopes, DropsSocket(e) PROVE AdmissionInv'
  BY <1>6, <1>t DEF DropsSocket, Claim, Spends, bucket, observedAt, history, AdmissionInv,
      AdmissionTypeOK, Remembered, NoReplay, NeverOverdrawn, Refilled, HasBucket, Elapsed
<1>7. CASE Disconnects
  BY <1>7, <1>t DEF Disconnects, bucket, observedAt, history, AdmissionInv,
      AdmissionTypeOK, Remembered, NoReplay, NeverOverdrawn, Refilled, HasBucket, Elapsed
<1>8. CASE Tick
  <2>1. NeverOverdrawn' /\ load' \in Nat
    <3>1. /\ clock \in 0..MaxClock /\ clock' = clock + 1
          /\ credit' = credit /\ updatedAt' = updatedAt /\ credit \in 0..Capacity
          /\ updatedAt \in 0..MaxClock \union {-1} /\ load \in Nat
          /\ load' = IF load = 0 THEN 0 ELSE load - 1
      BY <1>8, <1>t DEF Tick, bucket, AdmissionTypeOK, Never
    <3>2. Refilled \in 0..Capacity /\ load + Refilled <= Capacity
      BY <1>t, RefilledBounds DEF NeverOverdrawn
    <3>3. Refilled' \in 0..Capacity /\ Refilled' <= Refilled + 1
      BY <3>1 DEF Refilled, HasBucket, Elapsed, Never
    <3>4. load' \in Nat
      BY <3>1
    <3>5. load' + Refilled' <= Capacity
      BY <3>1, <3>2, <3>3, Draining
    <3> QED
      BY <3>4, <3>5 DEF NeverOverdrawn
  <2>2. Remembered'
    BY <1>8, <1>t, IatAssumption DEF Tick, history, Remembered, AdmissionTypeOK
  <2> QED
    BY <1>8, <1>t, <2>1, <2>2 DEF Tick, bucket, observedAt, history, AdmissionInv,
        AdmissionTypeOK, NoReplay
<1>9. CASE GrowsDormant
  BY <1>9, <1>t DEF GrowsDormant, bucket, history, AdmissionInv,
      AdmissionTypeOK, Remembered, NoReplay, NeverOverdrawn, Refilled, HasBucket, Elapsed
<1>10. CASE SetBack
  <2>1. NeverOverdrawn'
    <3>1. /\ clock \in 0..MaxClock /\ clock' = clock - 1 /\ clock > 0
          /\ credit' = credit /\ updatedAt' = updatedAt /\ credit \in 0..Capacity
          /\ updatedAt \in 0..MaxClock \union {-1} /\ load \in Nat /\ load' = load
      BY <1>10, <1>t DEF SetBack, bucket, AdmissionTypeOK, Never
    <3>2. Refilled \in 0..Capacity /\ load + Refilled <= Capacity
      BY <1>t, RefilledBounds DEF NeverOverdrawn
    <3>3. Refilled' \in 0..Capacity /\ Refilled' <= Refilled
      BY <3>1 DEF Refilled, HasBucket, Elapsed, Never
    <3>4. load' \in Nat
      BY <3>1
    <3>5. load' + Refilled' <= Capacity
      BY <3>1, <3>2, <3>3, Draining
    <3> QED
      BY <3>4, <3>5 DEF NeverOverdrawn
  <2>2. Remembered'
    BY <1>10, <1>t DEF SetBack, Remembered, AdmissionTypeOK
  <2> QED
    BY <1>10, <1>t, <2>1, <2>2 DEF SetBack, bucket, observedAt, AdmissionInv,
        AdmissionTypeOK, NoReplay
<1>11. CASE SweepNonces
  <2>1. Remembered'
    <3>1. claimed' = {e \in claimed : Iat[e] >= clock - Window} /\ spent' = spent /\ clock' = clock
      BY <1>11 DEF SweepNonces, history
    <3>2. \A e \in spent : Iat[e] \in Nat /\ clock - Window \in Int
      BY <1>t, IatAssumption DEF AdmissionTypeOK
    <3>3. \A e \in spent : Iat[e] >= clock - Window \/ Iat[e] < clock - Window
      BY <3>2
    <3> QED
      BY <1>t, <3>1, <3>3 DEF Remembered
  <2>2. NeverOverdrawn'
    BY <1>11, <1>t DEF SweepNonces, bucket, NeverOverdrawn, Refilled, HasBucket, Elapsed
  <2> QED
    BY <1>11, <1>t, <2>1, <2>2 DEF SweepNonces, bucket, observedAt, history, AdmissionInv,
        AdmissionTypeOK, NoReplay
<1>12. CASE SweepBucket
  <2>1. NeverOverdrawn'
    BY <1>12, <1>t DEF SweepBucket, NeverOverdrawn, Refilled, HasBucket, Elapsed, Never, AdmissionTypeOK
  <2> QED
    BY <1>12, <1>t, <2>1 DEF SweepBucket, observedAt, history, AdmissionInv,
        AdmissionTypeOK, Remembered, NoReplay
<1>13. CASE RulesOnKey
  BY <1>13, <1>t DEF RulesOnKey, bucket, observedAt, history, AdmissionInv,
      AdmissionTypeOK, Remembered, NoReplay, NeverOverdrawn, Refilled, HasBucket, Elapsed
<1>14. CASE Restart
  BY <1>14, <1>t DEF Restart, observedAt, AdmissionInv,
      AdmissionTypeOK, Remembered, NoReplay, NeverOverdrawn, Refilled, HasBucket, Elapsed, Never
<1>15. CASE UNCHANGED admissionVars
  BY <1>15, <1>t DEF admissionVars, bucket, observedAt, history, AdmissionInv,
      AdmissionTypeOK, Remembered, NoReplay, NeverOverdrawn, Refilled, HasBucket, Elapsed
<1> QED
  BY <1>1, <1>2, <1>3, <1>4, <1>5, <1>6, <1>7, <1>8, <1>9, <1>10, <1>11, <1>12, <1>13,
      <1>14, <1>15 DEF AdmissionNext

LEMMA AdmissionAlways == AdmissionSpec => []AdmissionInv
BY AdmissionBegins, AdmissionStep, PTL DEF AdmissionSpec

(* The admission of requests keeps the types of its variables. *)
THEOREM AdmissionTypes == AdmissionSpec => []AdmissionTypeOK
BY AdmissionAlways, PTL DEF AdmissionInv

(* Within its window an envelope is let in once, and not at all once it    *)
(* was refused after its freshness was looked at, whatever the window's    *)
(* width, however it is swept, and on whichever roads it arrives.          *)
THEOREM NothingReplayed == AdmissionSpec => []NoReplay
BY AdmissionAlways, PTL DEF AdmissionInv

(* The bucket grants no more than the meter allows, at any rate and cost,  *)
(* with its sweep and with a clock that is set back.                       *)
THEOREM BudgetKept == AdmissionSpec => []BudgetHolds
<1>1. AdmissionInv => BudgetHolds
  BY RefilledBounds, Constants DEF AdmissionInv, NeverOverdrawn, BudgetHolds, AdmissionTypeOK
<1> QED
  BY <1>1, AdmissionAlways, PTL
=============================================================================
