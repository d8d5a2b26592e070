---------------------------- MODULE NameRegister ----------------------------
(***************************************************************************)
(* What the hub promises of names, with no heartbeat, keys, contenders or  *)
(* mirrored maps in it.  A name has at most one holder, to which all that  *)
(* is meant for the name is sent.  A socket takes a name only while it is  *)
(* up and the name is free, keeps it until its own end, and frees at once  *)
(* the name and the voices it took along: those of whom the name is        *)
(* entitled to speak for.                                                  *)
(***************************************************************************)
CONSTANTS
    NameSet, Sockets,
    None,       \* holds nothing: no socket
    MaySpeak    \* <<name, subject>>

VARIABLES
    life,       \* per socket: fresh, up, ending or over
    holder,     \* per name: the socket that holds it, or None
    voice       \* per subject: the socket that speaks for it, or None

rvars == <<life, holder, voice>>

RInit ==
    /\ life = [w \in Sockets |-> "fresh"]
    /\ holder = [n \in NameSet |-> None]
    /\ voice = [n \in NameSet |-> None]

Without(held, w) == [n \in NameSet |-> IF held[n] = w THEN None ELSE held[n]]

Arrive(w) ==
    /\ life[w] = "fresh"
    /\ life' = [life EXCEPT ![w] = "up"]
    /\ UNCHANGED <<holder, voice>>

(* A voice passes to whoever took it along last. *)
Take(n, w, subjects) ==
    /\ life[w] = "up"
    /\ holder[n] \in {None, w}
    /\ \A m \in NameSet : holder[m] = w => m = n
    /\ \A s \in subjects : s = n \/ <<n, s>> \in MaySpeak
    /\ holder' = [holder EXCEPT ![n] = w]
    /\ voice' = [s \in NameSet |-> IF s \in subjects THEN w ELSE voice[s]]
    /\ UNCHANGED life

(* A socket that is on its way out may hold its name until it is over. *)
Linger(w) ==
    /\ life[w] = "up"
    /\ life' = [life EXCEPT ![w] = "ending"]
    /\ UNCHANGED <<holder, voice>>

Leave(w, stage) ==
    /\ life[w] \in {"up", "ending"}
    /\ life' = [life EXCEPT ![w] = stage]
    /\ holder' = Without(holder, w)
    /\ voice' = Without(voice, w)

(* The process starts over: nobody holds anything. *)
Reset ==
    /\ life' = [w \in Sockets |-> IF life[w] = "fresh" THEN "fresh" ELSE "over"]
    /\ holder' = [n \in NameSet |-> None]
    /\ voice' = [n \in NameSet |-> None]

RNext ==
    \/ \E w \in Sockets :
        \/ Arrive(w) \/ Linger(w) \/ Leave(w, "ending") \/ Leave(w, "over")
        \/ \E n \in NameSet, subjects \in SUBSET NameSet : Take(n, w, subjects)
    \/ Reset

RSpec == RInit /\ [][RNext]_rvars
=============================================================================
