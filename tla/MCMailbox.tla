----------------------------- MODULE MCMailbox -----------------------------
(***************************************************************************)
(* Instances of Mailbox for TLC.  Two agents write to each other; `web` is *)
(* the http server, which speaks for `ann` over its own socket.            *)
(***************************************************************************)
EXTENDS Mailbox

CONSTANTS ann, bob, web

(* One direction, from the agent's own lane. *)
OneWay == {<<ann, ann, bob>>}

(* ann is a person: the http server carries what she writes; bob answers. *)
ProxiedPair == {<<web, ann, bob>>, <<bob, bob, ann>>}

(* Two lanes that write to each other. *)
Pair == {<<ann, ann, bob>>, <<bob, bob, ann>>}
=============================================================================
