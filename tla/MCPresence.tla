----------------------------- MODULE MCPresence -----------------------------
(***************************************************************************)
(* Instances of Presence: an http server that speaks for a person, and an  *)
(* agent.                                                                  *)
(***************************************************************************)
EXTENDS Presence

CONSTANTS web, ann, bob

(* web may speak for ann; nobody else may speak for anyone. *)
WebForAnn == {<<web, ann>>}

(* ann is a person: her type needs no key. *)
Agents == Identities \ {ann}
=============================================================================
