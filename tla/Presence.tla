------------------------------ MODULE Presence ------------------------------
(***************************************************************************)
(* Who is connected: the hub's ownership map, its four presence maps and   *)
(* the heartbeat that frees half-open sockets.  A socket message, a close  *)
(* event and a timer are each one JavaScript turn.  A sweep is one turn    *)
(* too, over a snapshot of the online map; it is taken entry by entry      *)
(* here, and nothing else runs while `sweeping` still holds entries.       *)
(***************************************************************************)
EXTENDS Integers, FiniteSets

CONSTANTS
    Identities,
    Sockets,       \* WebSocket objects, each opened once
    Entitled,      \* <<proxy, subject>> that mayProxy() admits
    Keyed,         \* the identities whose type has requires_key = 1
    Rebinding      \* whether a socket ever connects as a second identity

ASSUME KeyedAssumption == Keyed \subseteq Identities
ASSUME EntitledAssumption == Entitled \subseteq Identities \X Identities
ASSUME RebindingAssumption == Rebinding \in BOOLEAN

Nobody == "nobody"
NoSocket == "no socket"
ASSUME NamesAssumption == Nobody \notin Identities /\ NoSocket \notin Sockets

VARIABLES
    conn,          \* per socket: new, open, doomed, closing or closed
    gone,          \* sockets whose peer vanished without a FIN
    approved,      \* identities with an approved key, or needing none
    owners,        \* ConnectionOwnership.owners
    claimed,       \* ConnectionOwnership.identities
    online,        \* onlineAgents
    identityOf,    \* wsIdentities
    proxyMap,      \* proxied identity to the socket that speaks for it
    proxies,       \* wsProxies
    awaiting,      \* Heartbeat.awaiting
    sweeping,      \* <<identity, socket>> entries the running sweep has left
    silent         \* per socket: sweeps started since it was last heard

maps == <<owners, claimed, online, identityOf, proxyMap, proxies>>
presenceVars == <<conn, gone, approved, maps, awaiting, sweeping, silent>>

ConnStates == {"new", "open", "doomed", "closing", "closed"}

PresenceInit ==
    /\ conn = [w \in Sockets |-> "new"]
    /\ gone = {}
    /\ approved = Identities
    /\ owners = [i \in Identities |-> NoSocket]
    /\ claimed = [w \in Sockets |-> Nobody]
    /\ online = [i \in Identities |-> NoSocket]
    /\ identityOf = [w \in Sockets |-> Nobody]
    /\ proxyMap = [i \in Identities |-> NoSocket]
    /\ proxies = [w \in Sockets |-> {}]
    /\ awaiting = {}
    /\ sweeping = {}
    /\ silent = [w \in Sockets |-> 0]

----------------------------------------------------------------------------
(* A frame can arrive: the socket is not closed and the peer is there.  A  *)
(* refused contender's socket is "doomed": it stays open for the 10 ms of  *)
(* the timer that closes it.                                               *)
Speaks(w) == sweeping = {} /\ conn[w] \in {"open", "doomed"} /\ w \notin gone

(* Mutant: no pong or frame handler feeds the heartbeat. *)
HeardDeaf(w) == silent' = [silent EXCEPT ![w] = 0] /\ UNCHANGED awaiting

(* heartbeat.alive(): any inbound frame is proof of life. *)
Heard(w) == awaiting' = awaiting \ {w} /\ silent' = [silent EXCEPT ![w] = 0]

(* A client connects a socket under one name only, unless Rebinding.       *)
Names(w, i) == Rebinding \/ identityOf[w] \in {Nobody, i}

(* Mutant: the last connection wins. *)
ClaimableAlways(w, i) == w \in Sockets /\ i \in Identities

(* claim(): free, or owned by this very socket. *)
Claimable(w, i) == owners[i] \in {NoSocket, w}

Granted(i, declared) == {p \in declared : p = i \/ <<i, p>> \in Entitled}

(* Mutant: the eviction that forgot the ownership map. *)
DropUnreleased(w, i) ==
    /\ online' = IF online[i] = w THEN [online EXCEPT ![i] = NoSocket] ELSE online
    /\ proxyMap' = [p \in Identities |->
           IF p \in proxies[w] /\ proxyMap[p] = w THEN NoSocket ELSE proxyMap[p]]
    /\ proxies' = [proxies EXCEPT ![w] = {}]
    /\ identityOf' = [identityOf EXCEPT ![w] = Nobody]
    /\ UNCHANGED <<owners, claimed>>

(* Mutant: the routes of the proxied stay. *)
DropKeepsRoutes(w, i) ==
    LET owner == claimed[w] # Nobody /\ owners[claimed[w]] = w IN
    /\ owners' = IF owner THEN [owners EXCEPT ![claimed[w]] = NoSocket] ELSE owners
    /\ claimed' = [claimed EXCEPT ![w] = Nobody]
    /\ online' = IF owner /\ online[i] = w THEN [online EXCEPT ![i] = NoSocket] ELSE online
    /\ proxies' = [proxies EXCEPT ![w] = {}]
    /\ identityOf' = [identityOf EXCEPT ![w] = Nobody]
    /\ UNCHANGED proxyMap

(* dropConnection(ws, identity): release what the socket claimed last, and *)
(* withdraw it from the maps under the name the caller gave.               *)
Drop(w, i) ==
    LET owner == claimed[w] # Nobody /\ owners[claimed[w]] = w IN
    /\ owners' = IF owner THEN [owners EXCEPT ![claimed[w]] = NoSocket] ELSE owners
    /\ claimed' = [claimed EXCEPT ![w] = Nobody]
    /\ online' = IF owner /\ online[i] = w THEN [online EXCEPT ![i] = NoSocket] ELSE online
    /\ proxyMap' = [p \in Identities |->
           IF p \in proxies[w] /\ proxyMap[p] = w THEN NoSocket ELSE proxyMap[p]]
    /\ proxies' = [proxies EXCEPT ![w] = {}]
    /\ identityOf' = [identityOf EXCEPT ![w] = Nobody]

----------------------------------------------------------------------------
Open(w) ==
    /\ sweeping = {}
    /\ conn[w] = "new"
    /\ conn' = [conn EXCEPT ![w] = "open"]
    /\ UNCHANGED <<gone, approved, maps, awaiting, sweeping, silent>>

(* The peer is lost and no FIN arrives. *)
PeerGone(w) ==
    /\ Speaks(w)
    /\ gone' = gone \union {w}
    /\ UNCHANGED <<conn, approved, maps, awaiting, sweeping, silent>>

(* mesh.connect, or its alias mesh.register, granted. *)
Connect(w, i, declared) ==
    /\ Speaks(w) /\ Names(w, i)
    /\ i \in approved
    /\ Claimable(w, i)
    /\ Heard(w)
    /\ owners' = [owners EXCEPT ![i] = w]
    /\ claimed' = [claimed EXCEPT ![w] = i]
    /\ online' = [online EXCEPT ![i] = w]
    /\ identityOf' = [identityOf EXCEPT ![w] = i]
    /\ proxyMap' = [p \in Identities |-> IF p \in Granted(i, declared) THEN w ELSE proxyMap[p]]
    /\ proxies' = [proxies EXCEPT ![w] = @ \union Granted(i, declared)]
    /\ UNCHANGED <<conn, gone, approved, sweeping>>

(* A contender is told so, and its socket closed a little later. *)
ConnectRefused(w, i) ==
    /\ Speaks(w) /\ Names(w, i)
    /\ i \in approved
    /\ ~Claimable(w, i)
    /\ Heard(w)
    /\ conn' = [conn EXCEPT ![w] = "doomed"]
    /\ UNCHANGED <<gone, approved, maps, sweeping>>

(* A connect that names an identity the registry does not have. *)
ConnectUnknown(w) ==
    /\ Speaks(w)
    /\ identityOf[w] = Nobody \/ Rebinding
    /\ Heard(w)
    /\ conn' = [conn EXCEPT ![w] = "doomed"]
    /\ UNCHANGED <<gone, approved, maps, sweeping>>

(* A pong, or a request that leaves presence alone. *)
Frame(w) ==
    /\ Speaks(w)
    /\ Heard(w)
    /\ UNCHANGED <<conn, gone, approved, maps, sweeping>>

(* A request that speaks as `i`, whose key is not approved any more:       *)
(* answered, dropped and closed.  A connect speaks as the identity it      *)
(* names, anything else as the socket's.                                   *)
NotApproved(w, i) ==
    /\ Speaks(w)
    /\ identityOf[w] = i \/ Names(w, i)
    /\ i \notin approved
    /\ Heard(w)
    /\ Drop(w, i)
    /\ conn' = [conn EXCEPT ![w] = "closing"]
    /\ UNCHANGED <<gone, approved, sweeping>>

CloseTimer(w) ==
    /\ sweeping = {}
    /\ conn[w] = "doomed"
    /\ conn' = [conn EXCEPT ![w] = "closing"]
    /\ UNCHANGED <<gone, approved, maps, awaiting, sweeping, silent>>

(* Mutant: the close handler leaves everything to the code that dropped.   *)
ClosedUnlessOwner(w) ==
    /\ sweeping = {}
    /\ conn[w] = "closing" \/ Speaks(w)
    /\ conn' = [conn EXCEPT ![w] = "closed"]
    /\ awaiting' = awaiting \ {w}
    /\ UNCHANGED <<gone, approved, maps, sweeping, silent>>

(* The close handler: the peer closed, or the hub did.  A peer that is     *)
(* gone closes nothing.                                                    *)
Closed(w) ==
    /\ sweeping = {}
    /\ conn[w] = "closing" \/ Speaks(w)
    /\ conn' = [conn EXCEPT ![w] = "closed"]
    /\ awaiting' = awaiting \ {w}
    /\ IF identityOf[w] = Nobody THEN UNCHANGED maps ELSE Drop(w, identityOf[w])
    /\ UNCHANGED <<gone, approved, sweeping, silent>>

----------------------------------------------------------------------------
(* Heartbeat.sweep() *)

SweepStart ==
    /\ sweeping = {}
    /\ sweeping' = {<<i, online[i]>> : i \in {j \in Identities : online[j] # NoSocket}}
    /\ sweeping' # {}
    /\ silent' = [w \in Sockets |-> IF silent[w] < 2 THEN silent[w] + 1 ELSE 2]
    /\ UNCHANGED <<conn, gone, approved, maps, awaiting>>

SweepDrop(i, w) ==
    /\ w \in awaiting
    /\ Drop(w, i)
    /\ awaiting' = awaiting \ {w}
    /\ conn' = [conn EXCEPT ![w] = IF @ = "closed" THEN @ ELSE "closing"]

(* Mutant: the identity is remembered where the socket should be. *)
SweepPingRaw(w) ==
    /\ w \notin awaiting
    /\ awaiting' = awaiting \union {identityOf[w]}
    /\ UNCHANGED <<conn, maps>>

(* Mutant: the ping is not remembered. *)
SweepPingForgets(w) == w \notin awaiting /\ UNCHANGED <<conn, maps, awaiting>>

SweepPing(w) ==
    /\ w \notin awaiting
    /\ awaiting' = awaiting \union {w}
    /\ UNCHANGED <<conn, maps>>

SweepEntry(i, w) ==
    /\ <<i, w>> \in sweeping
    /\ sweeping' = sweeping \ {<<i, w>>}
    /\ SweepDrop(i, w) \/ SweepPing(w)
    /\ UNCHANGED <<gone, approved, silent>>

----------------------------------------------------------------------------
(* The operator, and the process. *)

Revoke(i) ==
    /\ sweeping = {} /\ i \in Keyed
    /\ approved' = approved \ {i}
    /\ UNCHANGED <<conn, gone, maps, awaiting, sweeping, silent>>

Approve(i) ==
    /\ sweeping = {} /\ i \in Keyed
    /\ approved' = approved \union {i}
    /\ UNCHANGED <<conn, gone, maps, awaiting, sweeping, silent>>

(* Nothing here is persisted: a new process has no sockets and no maps. *)
Restart ==
    /\ sweeping = {}
    /\ conn' = [w \in Sockets |-> IF conn[w] = "new" THEN "new" ELSE "closed"]
    /\ owners' = [i \in Identities |-> NoSocket]
    /\ claimed' = [w \in Sockets |-> Nobody]
    /\ online' = [i \in Identities |-> NoSocket]
    /\ identityOf' = [w \in Sockets |-> Nobody]
    /\ proxyMap' = [i \in Identities |-> NoSocket]
    /\ proxies' = [w \in Sockets |-> {}]
    /\ awaiting' = {}
    /\ UNCHANGED <<gone, approved, sweeping, silent>>

PresenceNext ==
    \/ \E w \in Sockets :
        \/ Open(w) \/ PeerGone(w) \/ ConnectUnknown(w) \/ Frame(w)
        \/ CloseTimer(w) \/ Closed(w)
        \/ \E i \in Identities :
            \/ \E declared \in SUBSET Identities : Connect(w, i, declared)
            \/ ConnectRefused(w, i) \/ NotApproved(w, i) \/ SweepEntry(i, w)
    \/ SweepStart
    \/ \E i \in Identities : Revoke(i) \/ Approve(i)
    \/ Restart

PresenceSpec == PresenceInit /\ [][PresenceNext]_presenceVars

Sweep == SweepStart \/ \E i \in Identities, w \in Sockets : SweepEntry(i, w)

(* The interval keeps firing and a sweep runs to its end. *)
PresenceFairness == WF_presenceVars(Sweep)

----------------------------------------------------------------------------
(* Properties. *)

PresenceTypeOK ==
    /\ conn \in [Sockets -> ConnStates]
    /\ gone \subseteq Sockets
    /\ approved \subseteq Identities
    /\ owners \in [Identities -> Sockets \union {NoSocket}]
    /\ claimed \in [Sockets -> Identities \union {Nobody}]
    /\ online \in [Identities -> Sockets \union {NoSocket}]
    /\ identityOf \in [Sockets -> Identities \union {Nobody}]
    /\ proxyMap \in [Identities -> Sockets \union {NoSocket}]
    /\ proxies \in [Sockets -> SUBSET Identities]
    /\ awaiting \subseteq Sockets
    /\ sweeping \subseteq Identities \X Sockets
    /\ silent \in [Sockets -> 0..2]

(* The five maps tell one story: an identity is owned by the socket it is  *)
(* online on, and that socket knows it by that name.  They are separate    *)
(* maps written by connect, close, eviction and the sweep, in an order     *)
(* that differs by path (presence.ts, connection-ownership.ts).            *)
MapsAgree ==
    /\ owners = online
    /\ claimed = identityOf
    /\ \A i \in Identities, w \in Sockets : owners[i] = w <=> identityOf[w] = i

(* A closed socket is in no map: nobody is routed to it and nobody is kept *)
(* out of its name by it.                                                  *)
NoDeadRoutes ==
    \A w \in Sockets, i \in Identities :
        conn[w] = "closed" => w \notin {owners[i], online[i], proxyMap[i]}

(* A route for a proxied identity is backed by a socket that declared it   *)
(* under a name entitled to it.                                            *)
ProxyBacked ==
    \A p \in Identities, w \in Sockets : proxyMap[p] = w =>
        /\ p \in proxies[w]
        /\ p = identityOf[w] \/ <<identityOf[w], p>> \in Entitled

(* A socket dropped for silence has let two sweeps start without a frame.  *)
GracePeriod ==
    [][\A w \in Sockets :
          sweeping # {} /\ conn[w] # "closing" /\ conn'[w] = "closing" => silent[w] = 2]_presenceVars

(* An owner is a socket that has not closed: its identity is free again    *)
(* after its own close (presence.ts, connectionOwnership).                 *)
OwnerIsOpen == \A i \in Identities, w \in Sockets : owners[i] = w => conn[w] # "closed"

(* How far a socket has come, to whoever waits for its name. *)
Stage == [new |-> "fresh", open |-> "up", doomed |-> "up", closing |-> "ending", closed |-> "over"]

Life == [w \in Sockets |-> Stage[conn[w]]]

Register == INSTANCE NameRegister
    WITH NameSet <- Identities, None <- NoSocket, MaySpeak <- Entitled,
         life <- Life, holder <- online, voice <- proxyMap

(* The map that sends consult is a register of names: one holder each,     *)
(* taken only when free and freed by the holder's own end, and the proxy   *)
(* routes follow it (presence.ts; the first established socket owns an     *)
(* identity until its own close).                                          *)
ImplementsRegister == Register!RSpec

(* A half-open socket does not keep its identity: the next client of that  *)
(* name gets in, and sends stop being written into nothing.                *)
HalfOpenFreed ==
    \A w \in Sockets : w \in gone ~> \A i \in Identities : owners[i] # w
=============================================================================
