-------------------------- MODULE ReminderPromise --------------------------
(***************************************************************************)
(* What the self-reminder scheduler promises of reminders, with no scan,   *)
(* claim, wire, timeout or restart in it.  The hub gets the fires of a     *)
(* reminder in turn and each of them once: the next one only after the     *)
(* last was counted.  A one-shot is over with its first.  A cancelled      *)
(* reminder counts no more, and at most one fire that was on its way still *)
(* arrives.  A reminder is asked for once, and neither a cancelled one nor *)
(* one that is over comes back.                                            *)
(***************************************************************************)
EXTENDS Naturals

CONSTANT Ids

VARIABLES
    once,          \* the one-shots
    course,        \* per id: unasked, running, cancelled or over
    counted,       \* per id: how many of its fires are done with
    ahead          \* ids whose next fire the hub has, though it is not counted

pvars == <<once, course, counted, ahead>>

(* Reminders of an earlier version can be there from the start. *)
PInit ==
    /\ once \subseteq Ids
    /\ course \in [Ids -> {"unasked", "running"}]
    /\ counted = [i \in Ids |-> 0]
    /\ ahead = {}

AskFor(i) ==
    /\ course[i] = "unasked"
    /\ course' = [course EXCEPT ![i] = "running"]
    /\ UNCHANGED <<once, counted, ahead>>

CallOff(i) ==
    /\ course[i] = "running"
    /\ course' = [course EXCEPT ![i] = "cancelled"]
    /\ UNCHANGED <<once, counted, ahead>>

(* The hub has the next fire. *)
Arrives(i) ==
    /\ course[i] \in {"running", "cancelled"}
    /\ i \notin ahead
    /\ ahead' = ahead \union {i}
    /\ UNCHANGED <<once, course, counted>>

(* Only a fire the hub has is counted. *)
Count(i) ==
    /\ course[i] = "running" /\ i \in ahead
    /\ counted' = [counted EXCEPT ![i] = @ + 1]
    /\ ahead' = ahead \ {i}
    /\ course' = [course EXCEPT ![i] = IF i \in once THEN "over" ELSE "running"]
    /\ UNCHANGED once

(* A reminder that has no next slot ends with a fire that is not counted. *)
GiveOut(i) ==
    /\ course[i] = "running" /\ i \in ahead \ once
    /\ course' = [course EXCEPT ![i] = "over"]
    /\ UNCHANGED <<once, counted, ahead>>

PNext == \E i \in Ids : AskFor(i) \/ CallOff(i) \/ Arrives(i) \/ Count(i) \/ GiveOut(i)

PSpec == PInit /\ [][PNext]_pvars
=============================================================================
