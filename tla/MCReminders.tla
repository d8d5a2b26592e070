---------------------------- MODULE MCReminders ----------------------------
(***************************************************************************)
(* Instances of Reminders for TLC: two reminders of one agent.             *)
(***************************************************************************)
EXTENDS Reminders, TLC

CONSTANTS r1, r2, agent, k

(* What one call schedules. *)
Asks(type, key) == [owner |-> agent, type |-> type, key |-> key]

Interval == r1 :> Asks("repeat", NoKey) @@ r2 :> Asks("once", NoKey)

(* A second interval under the key of the first. *)
SharedIntervals == r1 :> Asks("repeat", k) @@ r2 :> Asks("repeat", k)

(* A one-shot scheduled under the key of an interval. *)
SharedKey == r1 :> Asks("repeat", k) @@ r2 :> Asks("once", k)

(* An interval, and a row from before specs were validated. *)
OldRow == r1 :> Asks("repeat", NoKey) @@ r2 :> Asks("unreadable", NoKey)

(* One row fills a scan. *)
NarrowScan == r1 :> Asks("repeat", NoKey) @@ r2 :> Asks("once", k)

All == {Interval, SharedKey, SharedIntervals, OldRow, NarrowScan}
OnlyInterval == {Interval}
OnlyShared == {SharedKey}

Limits == [q \in Requests |-> IF q = NarrowScan THEN 1 ELSE 2]
=============================================================================
