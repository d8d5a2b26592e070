-------------------------- MODULE MessageDelivery --------------------------
(***************************************************************************)
(* What store and forward promises a sender and a recipient, with no       *)
(* sockets, leases, keys or databases in it.  A message is queued when it  *)
(* is accepted.  It is settled only once its recipient has it, or a fault  *)
(* took it on the way there, and then it is settled for good.  Until then  *)
(* it may be given any number of times, and its sender may withdraw it;    *)
(* once withdrawn nobody is given it.                                      *)
(***************************************************************************)
EXTENDS Integers

CONSTANT Ids    \* messages, numbered in the order they are accepted

VARIABLES
    stage,      \* per id: unsent, queued, settled or withdrawn
    held,       \* ids the recipient has
    gone        \* ids a fault took in flight

dvars == <<stage, held, gone>>

Queued == {m \in Ids : stage[m] = "queued"}

DInit ==
    /\ stage = [m \in Ids |-> "unsent"]
    /\ held = {}
    /\ gone = {}

(* The next id is accepted, and given at once or kept for later. *)
Submit(m) ==
    /\ stage[m] = "unsent"
    /\ \A n \in Ids : n < m => stage[n] # "unsent"
    /\ \/ stage' = [stage EXCEPT ![m] = "queued"] /\ UNCHANGED <<held, gone>>
       \/ /\ stage' = [stage EXCEPT ![m] = "settled"]
          /\ \/ held' = held \union {m} /\ UNCHANGED gone
             \/ gone' = gone \union {m} /\ UNCHANGED held

(* Some queued messages are given, some are lost on the way, and any that  *)
(* are now one or the other may settle; a lost one always does, for the    *)
(* hub cannot tell.                                                        *)
Give(given, taken, done) ==
    /\ given \subseteq Queued
    /\ done \subseteq Queued \intersect (held \union given \union taken)
    /\ taken \subseteq done
    /\ stage' = [m \in Ids |-> IF m \in done THEN "settled" ELSE stage[m]]
    /\ held' = held \union given
    /\ gone' = gone \union taken

Withdraw(m) ==
    /\ stage[m] = "queued"
    /\ stage' = [stage EXCEPT ![m] = "withdrawn"]
    /\ UNCHANGED <<held, gone>>

DNext ==
    \/ \E m \in Ids : Submit(m) \/ Withdraw(m)
    \/ \E given, taken, done \in SUBSET Queued : Give(given, taken, done)

DSpec == DInit /\ [][DNext]_dvars
=============================================================================
