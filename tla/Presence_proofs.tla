-------------------------- MODULE Presence_proofs --------------------------
(***************************************************************************)
(* What holds of presence for any identities, any number of sockets and    *)
(* any entitlements.  The first half holds whatever the clients do: a name *)
(* passes from socket to socket only through its owner's own end, a push   *)
(* never goes past the owner, and the routes of the proxied never dangle.  *)
(*                                                                         *)
(* The second half is for clients that connect a socket under one name:    *)
(* the presence maps agree.  The agreement is inductive only together with *)
(* what connects it to the sweep and to the sockets: entries the running   *)
(* sweep has left are still online, and a socket that never opened owns    *)
(* nothing.                                                                *)
(***************************************************************************)
EXTENDS Presence, TLAPS

NewOwnsNothing == \A i \in Identities, w \in Sockets : owners[i] = w => conn[w] # "new"

(* No constant stands for two things. *)
LEMMA Names3 ==
    /\ NoSocket \notin Sockets
    /\ Nobody \notin Identities
    /\ \A i \in Identities : <<Nobody, i>> \notin Entitled
  BY NamesAssumption, EntitledAssumption

(* dropConnection() keeps the types of the maps. *)
LEMMA DropType ==
    ASSUME PresenceTypeOK, NEW w \in Sockets, NEW i \in Identities, Drop(w, i)
    PROVE  /\ owners' \in [Identities -> Sockets \union {NoSocket}]
           /\ claimed' \in [Sockets -> Identities \union {Nobody}]
           /\ online' \in [Identities -> Sockets \union {NoSocket}]
           /\ identityOf' \in [Sockets -> Identities \union {Nobody}]
           /\ proxyMap' \in [Identities -> Sockets \union {NoSocket}]
           /\ proxies' \in [Sockets -> SUBSET Identities]
  BY DEF PresenceTypeOK, Drop

----------------------------------------------------------------------------
(* Whatever the clients do.  The claim a socket made last is still its     *)
(* own, and ends with it; earlier claims of the same socket may not.       *)

ClaimHolds ==
    \A w \in Sockets : claimed[w] # Nobody =>
        owners[claimed[w]] = w /\ conn[w] \notin {"new", "closed"}

(* Nothing is pushed past the owner of a name: where the two maps that     *)
(* route it both name a socket, they name the same (dispatch.ts, presence  *)
(* under one name and a drop under another).                               *)
OneSpeaker ==
    \A i \in Identities : owners[i] # NoSocket /\ online[i] # NoSocket => online[i] = owners[i]

(* A route of a proxied identity leads to a socket that still speaks. *)
ProxyDeclared ==
    \A p \in Identities, w \in Sockets : proxyMap[p] = w => p \in proxies[w] /\ claimed[w] # Nobody

ClaimInv ==
    /\ PresenceTypeOK
    /\ claimed = identityOf
    /\ ClaimHolds
    /\ NewOwnsNothing
    /\ OneSpeaker
    /\ ProxyDeclared

LEMMA ClaimBegins == PresenceInit => ClaimInv
  BY Names3 DEF PresenceInit, ClaimInv, PresenceTypeOK, ClaimHolds, NewOwnsNothing, OneSpeaker, ProxyDeclared, ConnStates

(* A drop, under whatever name, releases what the socket claimed last, and *)
(* ends its routes.                                                        *)
LEMMA Dropping ==
    ASSUME ClaimInv, NEW w \in Sockets, NEW i \in Identities, Drop(w, i)
    PROVE  /\ claimed' = identityOf' /\ claimed' = [claimed EXCEPT ![w] = Nobody]
           /\ \A j \in Identities :
                 /\ owners'[j] = IF claimed[w] = j THEN NoSocket ELSE owners[j]
                 /\ online'[j] \in {online[j], NoSocket}
                 /\ proxyMap'[j] = IF proxyMap[j] = w THEN NoSocket ELSE proxyMap[j]
           /\ \A v \in Sockets \ {w} : proxies'[v] = proxies[v]
  <1>1. claimed' = identityOf' /\ claimed' = [claimed EXCEPT ![w] = Nobody]
    BY DEF Drop, ClaimInv
  <1>2. claimed[w] # Nobody => claimed[w] \in Identities /\ owners[claimed[w]] = w
    BY DEF ClaimInv, PresenceTypeOK, ClaimHolds
  <1>3. ASSUME NEW j \in Identities
        PROVE  /\ owners'[j] = IF claimed[w] = j THEN NoSocket ELSE owners[j]
               /\ online'[j] \in {online[j], NoSocket}
    BY <1>2, Names3 DEF Drop, ClaimInv, PresenceTypeOK
  <1>4. ASSUME NEW j \in Identities
        PROVE  proxyMap'[j] = IF proxyMap[j] = w THEN NoSocket ELSE proxyMap[j]
    BY DEF Drop, ClaimInv, ProxyDeclared
  <1>5. \A v \in Sockets \ {w} : proxies'[v] = proxies[v]
    BY DEF Drop, ClaimInv, PresenceTypeOK
  <1> QED
    BY <1>1, <1>3, <1>4, <1>5

LEMMA DroppingKeeps ==
    ASSUME ClaimInv, NEW w \in Sockets, NEW i \in Identities, Drop(w, i),
           NEW c \in {"closing", "closed"}, conn' = [conn EXCEPT ![w] = c],
           gone' \subseteq Sockets, approved' \subseteq Identities,
           awaiting' \subseteq Sockets, silent' \in [Sockets -> 0..2],
           sweeping' \subseteq Identities \X Sockets
    PROVE  ClaimInv'
  <1>1. /\ claimed' = identityOf' /\ claimed' = [claimed EXCEPT ![w] = Nobody]
        /\ \A j \in Identities :
              /\ owners'[j] = IF claimed[w] = j THEN NoSocket ELSE owners[j]
              /\ online'[j] \in {online[j], NoSocket}
              /\ proxyMap'[j] = IF proxyMap[j] = w THEN NoSocket ELSE proxyMap[j]
        /\ \A v \in Sockets \ {w} : proxies'[v] = proxies[v]
    BY Dropping
  <1>2. PresenceTypeOK'
    BY DropType DEF ClaimInv, PresenceTypeOK, ConnStates
  <1>3. ASSUME NEW v \in Sockets, claimed'[v] # Nobody
        PROVE  owners'[claimed'[v]] = v /\ conn'[v] \notin {"new", "closed"}
    <2>1. v # w /\ claimed'[v] = claimed[v] /\ conn'[v] = conn[v]
      BY <1>1, <1>3 DEF ClaimInv, PresenceTypeOK
    <2>2. claimed[v] \in Identities /\ owners[claimed[v]] = v /\ conn[v] \notin {"new", "closed"}
      BY <1>3, <2>1 DEF ClaimInv, ClaimHolds, PresenceTypeOK
    <2>3. claimed[w] # claimed[v]
      BY <2>1, <2>2, Names3 DEF ClaimInv, ClaimHolds
    <2> QED
      BY <1>1, <2>1, <2>2, <2>3
  <1>4. NewOwnsNothing'
    BY <1>1, Names3 DEF ClaimInv, NewOwnsNothing, PresenceTypeOK
  <1>5. OneSpeaker'
    BY <1>1 DEF ClaimInv, OneSpeaker
  <1>6. ASSUME NEW p \in Identities, NEW v \in Sockets, proxyMap'[p] = v
        PROVE  p \in proxies'[v] /\ claimed'[v] # Nobody
    <2>1. v # w /\ proxyMap[p] = v
      BY <1>1, <1>6, Names3
    <2> QED
      BY <1>1, <2>1 DEF ClaimInv, ProxyDeclared, PresenceTypeOK
  <1> QED
    BY <1>1, <1>2, <1>3, <1>4, <1>5, <1>6 DEF ClaimInv, ClaimHolds, ProxyDeclared

(* A step that leaves the maps alone and closes no socket that claims. *)
LEMMA ClaimsUntouched ==
    ASSUME ClaimInv, UNCHANGED maps, sweeping' \subseteq Identities \X Sockets,
           conn' \in [Sockets -> ConnStates],
           \A w \in Sockets : conn'[w] \in {"new", "closed"} => conn[w] = conn'[w] \/ claimed[w] = Nobody,
           \A w \in Sockets : conn'[w] = "new" => conn[w] = "new",
           gone' \subseteq Sockets, approved' \subseteq Identities,
           awaiting' \subseteq Sockets, silent' \in [Sockets -> 0..2]
    PROVE  ClaimInv'
  <1>1. PresenceTypeOK'
    BY DEF ClaimInv, PresenceTypeOK, maps
  <1>2. UNCHANGED <<owners, claimed, online, identityOf, proxyMap, proxies>>
    BY DEF maps
  <1>3. ClaimHolds' /\ NewOwnsNothing'
    BY <1>2 DEF ClaimInv, ClaimHolds, NewOwnsNothing
  <1> QED
    BY <1>1, <1>2, <1>3 DEF ClaimInv, OneSpeaker, ProxyDeclared

(* A granted connect: the name was free, or this socket's. *)
LEMMA ClaimConnects ==
    ASSUME ClaimInv, NEW w \in Sockets, NEW i \in Identities, NEW declared \in SUBSET Identities,
           Connect(w, i, declared)
    PROVE  ClaimInv'
  <1>1. Granted(i, declared) \subseteq Identities /\ owners[i] \in {NoSocket, w}
    BY DEF Granted, Connect, Claimable
  <1>2. PresenceTypeOK'
    BY <1>1 DEF Connect, Heard, ClaimInv, PresenceTypeOK
  <1>3. conn[w] \in {"open", "doomed"} /\ conn' = conn
    BY DEF Connect, Speaks
  <1>4. /\ \A j \in Identities : /\ owners'[j] = IF j = i THEN w ELSE owners[j]
                                 /\ online'[j] = IF j = i THEN w ELSE online[j]
                                 /\ proxyMap'[j] = IF j \in Granted(i, declared) THEN w ELSE proxyMap[j]
        /\ \A v \in Sockets : /\ claimed'[v] = IF v = w THEN i ELSE claimed[v]
                              /\ proxies[v] \subseteq proxies'[v]
        /\ Granted(i, declared) \subseteq proxies'[w]
        /\ claimed' = identityOf'
    BY DEF Connect, ClaimInv, PresenceTypeOK
  <1>5. ASSUME NEW v \in Sockets, claimed'[v] # Nobody
        PROVE  owners'[claimed'[v]] = v /\ conn'[v] \notin {"new", "closed"}
    <2>1. CASE v = w
      BY <1>3, <1>4, <2>1
    <2>2. CASE v # w
      <3>1. claimed'[v] = claimed[v] /\ claimed[v] \in Identities
        BY <1>4, <1>5, <2>2 DEF ClaimInv, PresenceTypeOK
      <3>2. owners[claimed[v]] = v /\ conn[v] \notin {"new", "closed"}
        BY <1>5, <3>1 DEF ClaimInv, ClaimHolds
      <3>3. claimed[v] # i
        BY <1>1, <2>2, <3>2, Names3
      <3> QED
        BY <1>3, <1>4, <3>1, <3>2, <3>3
    <2> QED
      BY <2>1, <2>2
  <1>6. NewOwnsNothing'
    BY <1>3, <1>4 DEF ClaimInv, NewOwnsNothing
  <1>7. OneSpeaker'
    BY <1>4 DEF ClaimInv, OneSpeaker
  <1>8. ProxyDeclared'
    BY <1>4, Names3 DEF ClaimInv, ProxyDeclared
  <1> QED
    BY <1>2, <1>4, <1>5, <1>6, <1>7, <1>8 DEF ClaimInv, ClaimHolds

LEMMA ClaimStep ==
    ASSUME ClaimInv, [PresenceNext]_presenceVars
    PROVE  ClaimInv'
  <1> conn \in [Sockets -> ConnStates] /\ gone \subseteq Sockets /\ approved \subseteq Identities
    BY DEF ClaimInv, PresenceTypeOK
  <1> awaiting \subseteq Sockets /\ silent \in [Sockets -> 0..2] /\ sweeping \subseteq Identities \X Sockets
    BY DEF ClaimInv, PresenceTypeOK
  <1>h. ASSUME NEW w \in Sockets, Heard(w)
        PROVE  awaiting' \subseteq Sockets /\ silent' \in [Sockets -> 0..2]
    BY <1>h DEF Heard
  <1>1. ASSUME NEW w \in Sockets, Open(w) \/ PeerGone(w) \/ CloseTimer(w)
        PROVE  ClaimInv'
    BY <1>1, ClaimsUntouched DEF Open, PeerGone, CloseTimer, ConnStates
  <1>2. ASSUME NEW w \in Sockets,
               ConnectUnknown(w) \/ Frame(w) \/ \E i \in Identities : ConnectRefused(w, i)
        PROVE  ClaimInv'
    <2>1. Heard(w) /\ UNCHANGED <<gone, approved, maps, sweeping>>
      BY <1>2 DEF ConnectUnknown, Frame, ConnectRefused
    <2>2. conn' = conn \/ conn' = [conn EXCEPT ![w] = "doomed"]
      BY <1>2 DEF ConnectUnknown, Frame, ConnectRefused
    <2>3. /\ conn' \in [Sockets -> ConnStates]
          /\ \A v \in Sockets : conn'[v] \in {"new", "closed"} => conn[v] = conn'[v]
      BY <2>2 DEF ConnStates
    <2> QED
      BY <1>h, <2>1, <2>3, ClaimsUntouched
  <1>3. ASSUME NEW w \in Sockets, NEW i \in Identities, NotApproved(w, i)
        PROVE  ClaimInv'
    BY <1>3, <1>h, DroppingKeeps DEF NotApproved
  <1>4. ASSUME NEW w \in Sockets, Closed(w)
        PROVE  ClaimInv'
    <2>1. CASE identityOf[w] = Nobody
      <3>1. claimed[w] = Nobody /\ UNCHANGED maps
        BY <1>4, <2>1 DEF Closed, ClaimInv
      <3> QED
        BY <1>4, <3>1, ClaimsUntouched DEF Closed, ConnStates
    <2>2. CASE identityOf[w] # Nobody
      <3>1. identityOf[w] \in Identities
        BY <2>2 DEF ClaimInv, PresenceTypeOK
      <3> QED
        BY <1>4, <2>2, <3>1, DroppingKeeps DEF Closed
    <2> QED
      BY <2>1, <2>2
  <1>5. ASSUME NEW w \in Sockets, NEW i \in Identities, NEW declared \in SUBSET Identities,
               Connect(w, i, declared)
        PROVE  ClaimInv'
    BY <1>5, ClaimConnects
  <1>6. ASSUME NEW w \in Sockets, NEW i \in Identities, SweepEntry(i, w)
        PROVE  ClaimInv'
    <2>1. UNCHANGED <<gone, approved, silent>> /\ sweeping' \subseteq sweeping
      BY <1>6 DEF SweepEntry
    <2>2. CASE SweepDrop(i, w)
      <3>1. PICK c \in {"closing", "closed"} : conn' = [conn EXCEPT ![w] = c]
        BY <2>2 DEF SweepDrop
      <3> QED
        BY <2>1, <2>2, <3>1, DroppingKeeps DEF SweepDrop
    <2>3. CASE SweepPing(w)
      BY <2>1, <2>3, ClaimsUntouched DEF SweepPing
    <2> QED
      BY <1>6, <2>2, <2>3 DEF SweepEntry
  <1>7. CASE SweepStart
    <2>1. sweeping' \subseteq Identities \X Sockets
      BY <1>7 DEF SweepStart, ClaimInv, PresenceTypeOK
    <2>2. silent' \in [Sockets -> 0..2]
      BY <1>7 DEF SweepStart
    <2> QED
      BY <1>7, <2>1, <2>2, ClaimsUntouched DEF SweepStart
  <1>8. CASE Restart
    BY <1>8, Names3 DEF Restart, ClaimInv, PresenceTypeOK, ClaimHolds, NewOwnsNothing, OneSpeaker,
                     ProxyDeclared, ConnStates
  <1>9. ASSUME NEW i \in Identities, Revoke(i) \/ Approve(i)
        PROVE  ClaimInv'
    BY <1>9, ClaimsUntouched DEF Revoke, Approve
  <1>10. CASE UNCHANGED presenceVars
    BY <1>10, ClaimsUntouched DEF presenceVars
  <1> QED
    BY <1>1, <1>2, <1>3, <1>4, <1>5, <1>6, <1>7, <1>8, <1>9, <1>10 DEF PresenceNext

LEMMA ClaimAlways == PresenceSpec => []ClaimInv
  BY ClaimBegins, ClaimStep, PTL DEF PresenceSpec

(* Every map has its type, whatever connects, closes or is swept. *)
THEOREM TypeCorrect == PresenceSpec => []PresenceTypeOK
  <1>1. ClaimInv => PresenceTypeOK
    BY DEF ClaimInv
  <1> QED
    BY <1>1, ClaimAlways, PTL

(* Sends and the ownership never name two sockets for one identity, also   *)
(* after a socket was dropped under a name that is not the one it is       *)
(* online under.                                                           *)
THEOREM OneSpeaks == PresenceSpec => []OneSpeaker
  <1>1. ClaimInv => OneSpeaker
    BY DEF ClaimInv
  <1> QED
    BY <1>1, ClaimAlways, PTL

(* The name a socket goes by now is free again when it closes, and what it *)
(* is entitled to speak for is no longer routed to it.                     *)
LatestNameEnds ==
    \A w \in Sockets, i \in Identities :
        conn[w] = "closed" => proxyMap[i] # w /\ (owners[i] = w => identityOf[w] # i)

(* Only a name a socket left for another can outlive it. *)
THEOREM LatestNamesEnd == PresenceSpec => []LatestNameEnds
  <1>1. ClaimInv => LatestNameEnds
    BY Names3 DEF ClaimInv, ClaimHolds, ProxyDeclared, LatestNameEnds
  <1> QED
    BY <1>1, ClaimAlways, PTL

(* Only a request, a close or a sweep of the socket itself lets go of a    *)
(* name, and all but the restart leave a socket that has no claim alone.   *)
LEMMA DropsOwn ==
    ASSUME ClaimInv, NEW v \in Sockets, NEW j \in Identities, Drop(v, j),
           NEW i \in Identities, NEW w \in Sockets, owners[i] = w, owners'[i] # w
    PROVE  v = w /\ claimed[w] = i /\ owners'[i] = NoSocket
  <1>1. claimed[v] = i /\ owners'[i] = NoSocket
    BY Dropping
  <1> QED
    BY <1>1, Names3 DEF ClaimInv, ClaimHolds

LEMMA LetsGo ==
    ASSUME ClaimInv, [PresenceNext]_presenceVars,
           NEW i \in Identities, NEW w \in Sockets, owners[i] = w, owners'[i] # w
    PROVE  /\ owners'[i] = NoSocket /\ conn'[w] \in {"closing", "closed"}
           /\ Restart \/ claimed[w] = i
  <1> DEFINE Goal == /\ owners'[i] = NoSocket /\ conn'[w] \in {"closing", "closed"}
                     /\ Restart \/ claimed[w] = i
  <1>1. ASSUME NEW v \in Sockets, Closed(v) PROVE Goal
    <2>1. identityOf[v] \in Identities /\ Drop(v, identityOf[v])
      BY <1>1 DEF Closed, maps, ClaimInv, PresenceTypeOK
    <2>2. conn'[v] = "closed"
      BY <1>1 DEF Closed, ClaimInv, PresenceTypeOK
    <2> QED
      BY <2>1, <2>2, DropsOwn
  <1>2. ASSUME NEW v \in Sockets, NEW j \in Identities, NotApproved(v, j) PROVE Goal
    <2>1. Drop(v, j) /\ conn'[v] = "closing"
      BY <1>2 DEF NotApproved, ClaimInv, PresenceTypeOK
    <2> QED
      BY <2>1, DropsOwn
  <1>3. ASSUME NEW v \in Sockets, NEW j \in Identities, SweepEntry(j, v) PROVE Goal
    <2>1. Drop(v, j) /\ conn'[v] \in {"closing", "closed"}
      BY <1>3 DEF SweepEntry, SweepDrop, SweepPing, maps, ClaimInv, PresenceTypeOK
    <2> QED
      BY <2>1, DropsOwn
  <1>4. ASSUME NEW v \in Sockets, NEW j \in Identities, NEW declared \in SUBSET Identities,
               Connect(v, j, declared)
        PROVE  Goal
    BY <1>4, Names3 DEF Connect, Claimable, ClaimInv, PresenceTypeOK
  <1>5. CASE Restart
    BY <1>5 DEF Restart, ClaimInv, NewOwnsNothing
  <1>6. CASE \/ \E v \in Sockets : Open(v) \/ PeerGone(v) \/ ConnectUnknown(v) \/ Frame(v)
                                   \/ CloseTimer(v)
             \/ \E v \in Sockets, j \in Identities : ConnectRefused(v, j)
             \/ SweepStart \/ \E j \in Identities : Revoke(j) \/ Approve(j)
             \/ UNCHANGED presenceVars
    BY <1>6 DEF Open, PeerGone, ConnectUnknown, Frame, CloseTimer, ConnectRefused,
                SweepStart, Revoke, Approve, presenceVars, maps
  <1> QED
    BY <1>1, <1>2, <1>3, <1>4, <1>5, <1>6 DEF PresenceNext

(* Ownership ends with the owner's own close or drop, and never by another *)
(* socket's doing: a stale close of an earlier socket, a contender and its *)
(* delayed close leave the owner in place.                                 *)
NoEviction ==
    [][\A i \in Identities, w \in Sockets :
          owners[i] = w /\ owners'[i] # w =>
              owners'[i] = NoSocket /\ conn'[w] \in {"closing", "closed"}]_presenceVars

(* An established owner loses its name only by its own close or drop, and  *)
(* never to another socket, under however many names the sockets connect.  *)
THEOREM OwnersStay == PresenceSpec => NoEviction
  <1>1. ClaimInv /\ [PresenceNext]_presenceVars =>
           [\A i \in Identities, w \in Sockets :
               owners[i] = w /\ owners'[i] # w =>
                   owners'[i] = NoSocket /\ conn'[w] \in {"closing", "closed"}]_presenceVars
    BY LetsGo
  <1> QED
    BY <1>1, ClaimAlways, PTL DEF PresenceSpec, NoEviction

(* A name a closed socket kept stays taken until the hub restarts: no      *)
(* sweep, close, request or contender ever frees it.                       *)
OrphanStays ==
    [][\A i \in Identities, w \in Sockets :
          owners[i] = w /\ conn[w] = "closed" => owners'[i] = w \/ Restart]_presenceVars

(* A socket that closed has no claim, and what has none is never released. *)
THEOREM OrphansStay == PresenceSpec => OrphanStays
  <1>1. ClaimInv /\ [PresenceNext]_presenceVars =>
           [\A i \in Identities, w \in Sockets :
               owners[i] = w /\ conn[w] = "closed" => owners'[i] = w \/ Restart]_presenceVars
    <2> SUFFICES ASSUME ClaimInv, [PresenceNext]_presenceVars, NEW i \in Identities, NEW w \in Sockets,
                        owners[i] = w, conn[w] = "closed", owners'[i] # w
                 PROVE  Restart
      OBVIOUS
    <2>1. claimed[w] # i
      BY Names3 DEF ClaimInv, ClaimHolds
    <2> QED
      BY <2>1, LetsGo
  <1> QED
    BY <1>1, ClaimAlways, PTL DEF PresenceSpec, OrphanStays

----------------------------------------------------------------------------
(* Sockets with one name. *)

(* The snapshot of a running sweep is still true of the entries it has     *)
(* left: nothing else runs, and a drop removes the entry it is taken for.  *)
SnapshotHolds == \A e \in sweeping : online[e[1]] = e[2]

IInv ==
    /\ PresenceTypeOK
    /\ MapsAgree
    /\ NoDeadRoutes
    /\ ProxyBacked
    /\ SnapshotHolds
    /\ NewOwnsNothing

(* Dropping a socket under the name it has, or under any name when it has  *)
(* none, takes it out of every map and leaves the other sockets alone.     *)
LEMMA DropClean ==
    ASSUME IInv, NEW w \in Sockets, NEW i \in Identities,
           identityOf[w] \in {i, Nobody}, Drop(w, i)
    PROVE  /\ MapsAgree' /\ ProxyBacked'
           /\ \A j \in Identities :
                 /\ owners'[j] = IF owners[j] = w THEN NoSocket ELSE owners[j]
                 /\ proxyMap'[j] = IF proxyMap[j] = w THEN NoSocket ELSE proxyMap[j]
  <1> DEFINE owner == claimed[w] # Nobody /\ owners[claimed[w]] = w
  <1>1. owner <=> identityOf[w] = i
    BY Names3 DEF IInv, MapsAgree, PresenceTypeOK
  <1>2. \A j \in Identities : owners[j] = w => j = i /\ owner
    BY <1>1, Names3 DEF IInv, MapsAgree, PresenceTypeOK
  <1>3. \A j \in Identities :
           owners'[j] = IF owners[j] = w THEN NoSocket ELSE owners[j]
    BY <1>1, <1>2 DEF Drop, IInv, MapsAgree, PresenceTypeOK
  <1>4. \A j \in Identities :
           proxyMap'[j] = IF proxyMap[j] = w THEN NoSocket ELSE proxyMap[j]
    BY DEF Drop, IInv, ProxyBacked
  <1>5. owners' = online'
    BY <1>1, <1>2 DEF Drop, IInv, MapsAgree, PresenceTypeOK
  <1>6. claimed' = identityOf' /\ identityOf' = [identityOf EXCEPT ![w] = Nobody]
    BY DEF Drop, IInv, MapsAgree
  <1>7. MapsAgree'
    <2>1. ASSUME NEW j \in Identities, NEW v \in Sockets
          PROVE  owners'[j] = v <=> identityOf'[v] = j
      BY <1>3, <1>6, Names3 DEF IInv, MapsAgree, PresenceTypeOK
    <2> QED
      BY <1>5, <1>6, <2>1 DEF MapsAgree
  <1>8. ProxyBacked'
    BY <1>4, <1>6, Names3 DEF Drop, IInv, ProxyBacked, PresenceTypeOK
  <1> QED
    BY <1>3, <1>4, <1>7, <1>8

(* A granted connect enters the socket under its name in every map. *)
LEMMA ConnectMaps ==
    ASSUME IInv, ~Rebinding,
           NEW w \in Sockets, NEW i \in Identities, NEW declared \in SUBSET Identities,
           Connect(w, i, declared)
    PROVE  IInv'
  <1>1. identityOf[w] \in {Nobody, i} /\ owners[i] \in {NoSocket, w}
    BY DEF Connect, Names, Claimable
  <1>2. Granted(i, declared) \subseteq Identities
    BY DEF Granted
  <1>3. PresenceTypeOK'
    BY <1>2 DEF Connect, Heard, IInv, PresenceTypeOK
  <1>4. MapsAgree'
    <2>1. owners' = online' /\ claimed' = identityOf'
      BY DEF Connect, IInv, MapsAgree
    <2>2. owners' = [owners EXCEPT ![i] = w] /\ identityOf' = [identityOf EXCEPT ![w] = i]
      BY DEF Connect
    <2>3. ASSUME NEW j \in Identities, NEW v \in Sockets
          PROVE  owners'[j] = v <=> identityOf'[v] = j
      BY <1>1, <2>2, Names3 DEF IInv, MapsAgree, PresenceTypeOK
    <2> QED
      BY <2>1, <2>3 DEF MapsAgree
  <1>5. conn[w] \in {"open", "doomed"} /\ conn' = conn /\ sweeping' = {}
    BY DEF Connect, Speaks
  <1>6. NoDeadRoutes' /\ NewOwnsNothing'
    BY <1>5 DEF Connect, IInv, NoDeadRoutes, NewOwnsNothing, PresenceTypeOK
  <1>7. ProxyBacked'
    <2>1. ASSUME NEW p \in Identities, NEW v \in Sockets, proxyMap'[p] = v
          PROVE  /\ p \in proxies'[v]
                 /\ p = identityOf'[v] \/ <<identityOf'[v], p>> \in Entitled
      <3>1. CASE p \in Granted(i, declared)
        BY <2>1, <3>1 DEF Connect, Granted, IInv, PresenceTypeOK
      <3>2. CASE p \notin Granted(i, declared)
        <4>1. proxyMap[p] = v
          BY <2>1, <3>2 DEF Connect
        <4>2. p \in proxies[v] /\ (p = identityOf[v] \/ <<identityOf[v], p>> \in Entitled)
          BY <4>1 DEF IInv, ProxyBacked
        <4>3. CASE v = w
          BY <1>1, <4>2, <4>3, Names3 DEF Connect, IInv, PresenceTypeOK
        <4>4. CASE v # w
          BY <4>2, <4>4 DEF Connect, IInv, PresenceTypeOK
        <4> QED
          BY <4>3, <4>4
      <3> QED
        BY <3>1, <3>2
    <2> QED
      BY <2>1 DEF ProxyBacked
  <1>8. SnapshotHolds'
    BY <1>5 DEF SnapshotHolds
  <1> QED
    BY <1>3, <1>4, <1>6, <1>7, <1>8 DEF IInv

(* A drop by a request: the socket is taken out and left to close. *)
LEMMA DropKeeps ==
    ASSUME IInv, NEW w \in Sockets, NEW i \in Identities,
           identityOf[w] \in {i, Nobody}, Drop(w, i),
           NEW c \in {"closing", "closed"}, conn' = [conn EXCEPT ![w] = c],
           gone' \subseteq Sockets, approved' \subseteq Identities,
           awaiting' \subseteq Sockets, silent' \in [Sockets -> 0..2],
           sweeping' \subseteq sweeping, <<i, w>> \notin sweeping'
    PROVE  IInv'
  <1>1. /\ MapsAgree' /\ ProxyBacked'
        /\ \A j \in Identities :
              /\ owners'[j] = IF owners[j] = w THEN NoSocket ELSE owners[j]
              /\ proxyMap'[j] = IF proxyMap[j] = w THEN NoSocket ELSE proxyMap[j]
    BY DropClean
  <1>2. PresenceTypeOK'
    BY DropType DEF IInv, PresenceTypeOK, ConnStates
  <1>3. online' = owners' /\ online = owners
    BY <1>1 DEF IInv, MapsAgree
  <1>4. NoDeadRoutes'
    BY <1>1, <1>3, Names3 DEF IInv, NoDeadRoutes, PresenceTypeOK
  <1>5. NewOwnsNothing'
    BY <1>1, Names3 DEF IInv, NewOwnsNothing, PresenceTypeOK
  <1>6. SnapshotHolds'
    <2>1. ASSUME NEW e \in sweeping'
          PROVE  online'[e[1]] = e[2]
      <3>1. e \in sweeping /\ e \in Identities \X Sockets /\ online[e[1]] = e[2]
        BY <2>1 DEF IInv, PresenceTypeOK, SnapshotHolds
      <3>2. e[2] # w
        <4>1. SUFFICES ASSUME e[2] = w PROVE FALSE
          OBVIOUS
        <4>2. identityOf[w] = e[1]
          BY <3>1, <4>1, <1>3 DEF IInv, MapsAgree
        <4>3. e = <<i, w>>
          BY <3>1, <4>1, <4>2, Names3
        <4> QED
          BY <2>1, <4>3
      <3> QED
        BY <3>1, <3>2, <1>1, <1>3
    <2> QED
      BY <2>1 DEF SnapshotHolds
  <1> QED
    BY <1>1, <1>2, <1>4, <1>5, <1>6 DEF IInv

(* A step that leaves the maps alone, closes nothing and starts no sweep.  *)
LEMMA MapsUntouched ==
    ASSUME IInv, UNCHANGED maps, sweeping' = sweeping,
           conn' \in [Sockets -> ConnStates],
           \A w \in Sockets : conn'[w] \in {"new", "closed"} => conn[w] = conn'[w],
           gone' \subseteq Sockets, approved' \subseteq Identities,
           awaiting' \subseteq Sockets, silent' \in [Sockets -> 0..2]
    PROVE  IInv'
  BY DEF IInv, PresenceTypeOK, MapsAgree, NoDeadRoutes, ProxyBacked, SnapshotHolds,
         NewOwnsNothing, maps

(* The close handler. *)
LEMMA ClosedKeeps ==
    ASSUME IInv, NEW w \in Sockets, Closed(w)
    PROVE  IInv'
  <1>1. CASE identityOf[w] = Nobody
    <2>1. \A j \in Identities : owners[j] # w /\ online[j] # w /\ proxyMap[j] # w
      <3>1. SUFFICES ASSUME NEW j \in Identities
                     PROVE  owners[j] # w /\ online[j] # w /\ proxyMap[j] # w
        OBVIOUS
      <3>2. j # identityOf[w]
        BY <1>1, Names3
      <3>3. owners = online /\ owners[j] # w
        BY <3>2 DEF IInv, MapsAgree
      <3>4. <<identityOf[w], j>> \notin Entitled
        BY <1>1, Names3
      <3>5. proxyMap[j] # w
        BY <3>2, <3>4 DEF IInv, ProxyBacked
      <3> QED
        BY <3>3, <3>5
    <2>2. NoDeadRoutes' /\ NewOwnsNothing'
      BY <1>1, <2>1 DEF Closed, maps, IInv, NoDeadRoutes, NewOwnsNothing, PresenceTypeOK
    <2>3. PresenceTypeOK' /\ MapsAgree' /\ ProxyBacked' /\ SnapshotHolds'
      BY <1>1 DEF Closed, maps, IInv, PresenceTypeOK, MapsAgree, ProxyBacked, SnapshotHolds, ConnStates
    <2> QED
      BY <2>2, <2>3 DEF IInv
  <1>2. CASE identityOf[w] # Nobody
    <2>1. identityOf[w] \in Identities
      BY <1>2 DEF IInv, PresenceTypeOK
    <2>2. Drop(w, identityOf[w]) /\ sweeping = {} /\ sweeping' = {}
      BY <1>2 DEF Closed
    <2> QED
      BY <2>1, <2>2, DropKeeps DEF Closed, IInv, PresenceTypeOK
  <1> QED
    BY <1>1, <1>2

(* One entry of a sweep. *)
LEMMA SweepKeeps ==
    ASSUME IInv, NEW w \in Sockets, NEW i \in Identities, SweepEntry(i, w)
    PROVE  IInv'
  <1>1. identityOf[w] = i /\ conn[w] # "closed"
    BY DEF SweepEntry, IInv, SnapshotHolds, MapsAgree, NoDeadRoutes
  <1>2. CASE SweepDrop(i, w)
    <2>1. conn' = [conn EXCEPT ![w] = "closing"]
      BY <1>1, <1>2 DEF SweepDrop, IInv, PresenceTypeOK
    <2> QED
      BY <1>1, <1>2, <2>1, DropKeeps DEF SweepDrop, SweepEntry, IInv, PresenceTypeOK
  <1>3. CASE SweepPing(w)
    BY <1>3 DEF SweepPing, SweepEntry, IInv, PresenceTypeOK, MapsAgree, NoDeadRoutes,
                ProxyBacked, SnapshotHolds, NewOwnsNothing, maps
  <1> QED
    BY <1>2, <1>3 DEF SweepEntry

LEMMA SweepStartKeeps == IInv /\ SweepStart => IInv'
  <1> SUFFICES ASSUME IInv, SweepStart PROVE IInv'
    OBVIOUS
  <1>1. sweeping' \subseteq Identities \X Sockets /\ SnapshotHolds'
    BY DEF SweepStart, maps, IInv, PresenceTypeOK, SnapshotHolds
  <1>2. silent' \in [Sockets -> 0..2]
    BY DEF SweepStart, IInv, PresenceTypeOK
  <1> QED
    BY <1>1, <1>2 DEF SweepStart, maps, IInv, PresenceTypeOK, MapsAgree, NoDeadRoutes,
                      ProxyBacked, NewOwnsNothing

LEMMA RestartKeeps == IInv /\ Restart => IInv'
  BY Names3 DEF Restart, IInv, PresenceTypeOK, MapsAgree, NoDeadRoutes, ProxyBacked,
                SnapshotHolds, NewOwnsNothing, ConnStates

(* What a socket, a request or a timer does. *)
LEMMA SocketKeeps ==
    ASSUME IInv, ~Rebinding, NEW w \in Sockets,
           \/ Open(w) \/ PeerGone(w) \/ ConnectUnknown(w) \/ Frame(w) \/ CloseTimer(w)
           \/ \E i \in Identities : ConnectRefused(w, i) \/ NotApproved(w, i)
    PROVE  IInv'
  <1>1. CASE Open(w) \/ PeerGone(w) \/ CloseTimer(w)
    <2>1. /\ conn' \in [Sockets -> ConnStates]
          /\ \A v \in Sockets : conn'[v] \in {"new", "closed"} => conn[v] = conn'[v]
      BY <1>1 DEF Open, PeerGone, CloseTimer, IInv, PresenceTypeOK, ConnStates
    <2> QED
      BY <1>1, <2>1, MapsUntouched DEF Open, PeerGone, CloseTimer, IInv, PresenceTypeOK
  <1>2. CASE ConnectUnknown(w) \/ Frame(w) \/ \E i \in Identities : ConnectRefused(w, i)
    <2>1. /\ conn' \in [Sockets -> ConnStates]
          /\ \A v \in Sockets : conn'[v] \in {"new", "closed"} => conn[v] = conn'[v]
      BY <1>2 DEF ConnectUnknown, Frame, ConnectRefused, IInv, PresenceTypeOK, ConnStates
    <2>2. awaiting' \subseteq Sockets /\ silent' \in [Sockets -> 0..2]
      BY <1>2 DEF ConnectUnknown, Frame, ConnectRefused, Heard, IInv, PresenceTypeOK
    <2> QED
      BY <1>2, <2>1, <2>2, MapsUntouched
      DEF ConnectUnknown, Frame, ConnectRefused, IInv, PresenceTypeOK
  <1>3. ASSUME NEW i \in Identities, NotApproved(w, i)
        PROVE  IInv'
    <2>1. identityOf[w] \in {i, Nobody} /\ Drop(w, i) /\ sweeping = {} /\ sweeping' = {}
      BY <1>3 DEF NotApproved, Names, Speaks
    <2>2. awaiting' \subseteq Sockets /\ silent' \in [Sockets -> 0..2]
      BY <1>3 DEF NotApproved, Heard, IInv, PresenceTypeOK
    <2> QED
      BY <1>3, <2>1, <2>2, DropKeeps DEF NotApproved, IInv, PresenceTypeOK
  <1> QED
    BY <1>1, <1>2, <1>3

LEMMA Initially == PresenceInit => IInv
  BY Names3 DEF PresenceInit, IInv, PresenceTypeOK, MapsAgree, NoDeadRoutes, ProxyBacked,
                SnapshotHolds, NewOwnsNothing, ConnStates

LEMMA StepKeeps ==
    ASSUME IInv, ~Rebinding, [PresenceNext]_presenceVars
    PROVE  IInv'
  <1>1. ASSUME NEW w \in Sockets,
               \/ Open(w) \/ PeerGone(w) \/ ConnectUnknown(w) \/ Frame(w) \/ CloseTimer(w)
               \/ \E i \in Identities : ConnectRefused(w, i) \/ NotApproved(w, i)
        PROVE  IInv'
    BY <1>1, SocketKeeps
  <1>2. ASSUME NEW w \in Sockets, Closed(w) PROVE IInv'
    BY <1>2, ClosedKeeps
  <1>3. ASSUME NEW w \in Sockets, NEW i \in Identities, NEW declared \in SUBSET Identities,
               Connect(w, i, declared)
        PROVE  IInv'
    BY <1>3, ConnectMaps
  <1>4. ASSUME NEW w \in Sockets, NEW i \in Identities, SweepEntry(i, w) PROVE IInv'
    BY <1>4, SweepKeeps
  <1>5. CASE SweepStart \/ Restart
    BY <1>5, SweepStartKeeps, RestartKeeps
  <1>6. ASSUME NEW i \in Identities, Revoke(i) \/ Approve(i) PROVE IInv'
    BY <1>6, MapsUntouched DEF Revoke, Approve, IInv, PresenceTypeOK
  <1>7. CASE UNCHANGED presenceVars
    BY <1>7, MapsUntouched DEF presenceVars, maps, IInv, PresenceTypeOK
  <1> QED
    BY <1>1, <1>2, <1>3, <1>4, <1>5, <1>6, <1>7 DEF PresenceNext

(* The five maps agree in every reachable state, for any number of sockets *)
(* contending for any number of names.                                     *)
THEOREM MapsAlwaysAgree ==
    ASSUME ~Rebinding
    PROVE  PresenceSpec => []MapsAgree
  <1>1. IInv => MapsAgree
    BY DEF IInv
  <1> QED
    BY <1>1, Initially, StepKeeps, PTL DEF PresenceSpec

(* A closed socket is in no map. *)
THEOREM DeadIsUnrouted ==
    ASSUME ~Rebinding
    PROVE  PresenceSpec => []NoDeadRoutes
  <1>1. IInv => NoDeadRoutes
    BY DEF IInv
  <1> QED
    BY <1>1, Initially, StepKeeps, PTL DEF PresenceSpec

(* A route for a proxied identity is backed by an entitled socket. *)
THEOREM RoutesAreBacked ==
    ASSUME ~Rebinding
    PROVE  PresenceSpec => []ProxyBacked
  <1>1. IInv => ProxyBacked
    BY DEF IInv
  <1> QED
    BY <1>1, Initially, StepKeeps, PTL DEF PresenceSpec

(* An owner is a socket that has not closed, for as long as no socket      *)
(* connects under a second name: Rebinding is the only way to the state    *)
(* in which a closed socket keeps a name.                                  *)
THEOREM OwnersAreOpen ==
    ASSUME ~Rebinding
    PROVE  PresenceSpec => []OwnerIsOpen
  <1>1. NoDeadRoutes => OwnerIsOpen
    BY DEF NoDeadRoutes, OwnerIsOpen
  <1> QED
    BY <1>1, DeadIsUnrouted, PTL

----------------------------------------------------------------------------
(* The grace period.  A socket that is waited for has not spoken since a   *)
(* sweep started, and one waited for since an earlier sweep than the       *)
(* running one has let two start.                                          *)
Waited ==
    /\ \A w \in awaiting : silent[w] >= 1
    /\ sweeping # {} => \A w \in Sockets : silent[w] >= 1
    /\ \A e \in sweeping : e[2] \in awaiting => silent[e[2]] = 2

(* While a sweep runs only the sweep does; without one, what a step leaves *)
(* waiting was waiting, and was not heard.                                 *)
LEMMA SweepRunsAlone ==
    ASSUME PresenceTypeOK, [PresenceNext]_presenceVars,
           ~ SweepStart, \A i \in Identities, w \in Sockets : ~ SweepEntry(i, w)
    PROVE  \/ UNCHANGED <<awaiting, silent, sweeping, conn>>
           \/ /\ sweeping = {} /\ sweeping' = {} /\ awaiting' \subseteq awaiting
              /\ \A w \in awaiting' : silent'[w] = silent[w]
  <1>1. ASSUME NEW w \in Sockets, Heard(w)
        PROVE  awaiting' \subseteq awaiting /\ \A v \in awaiting' : silent'[v] = silent[v]
    BY <1>1 DEF Heard, PresenceTypeOK
  <1>2. ASSUME NEW w \in Sockets, ConnectUnknown(w) \/ Frame(w)
        PROVE  Heard(w) /\ sweeping = {} /\ sweeping' = {}
    BY <1>2 DEF ConnectUnknown, Frame, Speaks
  <1>3. ASSUME NEW w \in Sockets, NEW i \in Identities,
               \/ ConnectRefused(w, i) \/ NotApproved(w, i)
               \/ \E declared \in SUBSET Identities : Connect(w, i, declared)
        PROVE  Heard(w) /\ sweeping = {} /\ sweeping' = {}
    BY <1>3 DEF ConnectRefused, NotApproved, Connect, Speaks
  <1>4. ASSUME NEW w \in Sockets, Open(w) \/ PeerGone(w) \/ CloseTimer(w)
        PROVE  UNCHANGED <<awaiting, silent>> /\ sweeping = {} /\ sweeping' = {}
    BY <1>4 DEF Open, PeerGone, CloseTimer, Speaks
  <1>5. ASSUME NEW w \in Sockets, Closed(w)
        PROVE  sweeping = {} /\ sweeping' = {} /\ awaiting' \subseteq awaiting /\ silent' = silent
    BY <1>5 DEF Closed
  <1>6. CASE Restart
    BY <1>6 DEF Restart
  <1>7. ASSUME NEW i \in Identities, Revoke(i) \/ Approve(i)
        PROVE  UNCHANGED <<awaiting, silent, sweeping, conn>>
    BY <1>7 DEF Revoke, Approve
  <1>8. CASE UNCHANGED presenceVars
    BY <1>8 DEF presenceVars
  <1> QED
    BY <1>1, <1>2, <1>3, <1>4, <1>5, <1>6, <1>7, <1>8 DEF PresenceNext

LEMMA WaitedPreserved ==
    ASSUME IInv, ~Rebinding, Waited, [PresenceNext]_presenceVars
    PROVE  Waited'
  <1>1. ASSUME NEW i \in Identities, NEW w \in Sockets, SweepEntry(i, w)
        PROVE  Waited'
    <2>1. /\ <<i, w>> \in sweeping /\ sweeping' = sweeping \ {<<i, w>>} /\ silent' = silent
          /\ awaiting' \subseteq awaiting \union {w}
      BY <1>1 DEF SweepEntry, SweepDrop, SweepPing
    <2>2. ASSUME NEW e \in sweeping'
          PROVE  e[2] # w
      <3>1. e \in sweeping /\ e # <<i, w>> /\ e \in Identities \X Sockets
        BY <2>1 DEF IInv, PresenceTypeOK
      <3>2. online[e[1]] = e[2] /\ online[i] = w
        BY <2>1, <3>1 DEF IInv, SnapshotHolds
      <3>3. e[2] = w => e[1] = i
        BY <3>1, <3>2 DEF IInv, MapsAgree
      <3> QED
        BY <3>1, <3>3
    <2> QED
      BY <2>1, <2>2 DEF Waited
  <1>2. CASE SweepStart
    <2>1. \A w \in Sockets : silent'[w] = IF silent[w] < 2 THEN silent[w] + 1 ELSE 2
      BY <1>2 DEF SweepStart
    <2>2. \A w \in Sockets : silent[w] \in 0..2
      BY DEF IInv, PresenceTypeOK
    <2>3. awaiting' = awaiting /\ awaiting \subseteq Sockets
      BY <1>2 DEF SweepStart, IInv, PresenceTypeOK
    <2>4. \A e \in sweeping' : e[2] \in Sockets
      BY <1>2, StepKeeps DEF IInv, PresenceTypeOK
    <2> QED
      BY <2>1, <2>2, <2>3, <2>4 DEF Waited
  <1>3. CASE ~SweepStart /\ \A i \in Identities, w \in Sockets : ~SweepEntry(i, w)
    BY <1>3, SweepRunsAlone DEF IInv, Waited
  <1> QED
    BY <1>1, <1>2, <1>3

(* A socket dropped for silence has let two sweeps start without a frame.  *)
THEOREM GraceGiven ==
    ASSUME ~Rebinding
    PROVE  PresenceSpec => GracePeriod
  <1> DEFINE Grace == \A w \in Sockets :
                sweeping # {} /\ conn[w] # "closing" /\ conn'[w] = "closing" => silent[w] = 2
  <1>1. PresenceInit => Waited
    BY DEF PresenceInit, Waited
  <1>2. IInv /\ Waited /\ [PresenceNext]_presenceVars => [Grace]_presenceVars
    <2> SUFFICES ASSUME IInv, Waited, [PresenceNext]_presenceVars,
                        NEW w \in Sockets, sweeping # {}, conn[w] # "closing", conn'[w] = "closing"
                 PROVE  silent[w] = 2
      OBVIOUS
    <2>1. PICK i \in Identities, v \in Sockets : SweepEntry(i, v)
      BY SweepRunsAlone DEF IInv, SweepStart
    <2>2. SweepDrop(i, v) /\ v = w
      BY <2>1 DEF SweepEntry, SweepDrop, SweepPing, IInv, PresenceTypeOK
    <2> QED
      BY <2>1, <2>2 DEF SweepEntry, SweepDrop, Waited
  <1> QED
    BY <1>1, <1>2, Initially, StepKeeps, WaitedPreserved, PTL DEF PresenceSpec, GracePeriod
----------------------------------------------------------------------------
(* Presence implements NameRegister.  Every handler writes five maps; seen *)
(* through the online map and the proxy routes each is one step of the     *)
(* register, because the maps agree whenever a handler begins.             *)

LEMMA Stages ==
    ASSUME PresenceTypeOK, NEW w \in Sockets
    PROVE  /\ Life[w] = "fresh" <=> conn[w] = "new"
           /\ Life[w] = "up" <=> conn[w] \in {"open", "doomed"}
           /\ Life[w] = "ending" <=> conn[w] = "closing"
           /\ Life[w] = "over" <=> conn[w] = "closed"
  BY DEF PresenceTypeOK, ConnStates, Life, Stage

(* A socket's stage is written alone. *)
LEMMA StageWritten ==
    ASSUME PresenceTypeOK, NEW w \in Sockets, NEW c \in ConnStates, conn' = [conn EXCEPT ![w] = c]
    PROVE  Life' = [Life EXCEPT ![w] = Stage[c]]
  BY DEF PresenceTypeOK, Life

LEMMA RegisterBegins == PresenceInit => Register!RInit
  BY DEF PresenceInit, Life, Stage, Register!RInit

(* A step that moves no stage and leaves the maps alone is not seen. *)
LEMMA Unseen ==
    ASSUME PresenceTypeOK, UNCHANGED maps,
           \/ conn' = conn
           \/ \E w \in Sockets : conn[w] \in {"open", "doomed"} /\ conn' = [conn EXCEPT ![w] = "doomed"]
    PROVE  UNCHANGED Register!rvars
  <1>1. UNCHANGED <<online, proxyMap>>
    BY DEF maps
  <1>2. Life' = Life
    <2>1. CASE conn' = conn
      BY <2>1 DEF Life
    <2>2. ASSUME NEW w \in Sockets, conn[w] \in {"open", "doomed"},
                 conn' = [conn EXCEPT ![w] = "doomed"]
          PROVE  Life' = Life
      BY <2>2 DEF PresenceTypeOK, Life, Stage
    <2> QED
      BY <2>1, <2>2
  <1> QED
    BY <1>1, <1>2 DEF Register!rvars

(* A drop under the socket's name ends what it holds. *)
LEMMA DropLeaves ==
    ASSUME IInv, NEW w \in Sockets, NEW i \in Identities,
           identityOf[w] \in {i, Nobody}, Drop(w, i),
           NEW c \in {"closing", "closed"}, conn' = [conn EXCEPT ![w] = c],
           conn[w] \notin {"new", "closed"}
    PROVE  Register!Leave(w, Stage[c])
  <1>1. /\ MapsAgree'
        /\ \A j \in Identities :
              /\ owners'[j] = IF owners[j] = w THEN NoSocket ELSE owners[j]
              /\ proxyMap'[j] = IF proxyMap[j] = w THEN NoSocket ELSE proxyMap[j]
    BY DropClean
  <1>2. online = owners /\ online' = owners'
    BY <1>1 DEF IInv, MapsAgree
  <1>3. online' = [j \in Identities |-> IF online[j] = w THEN NoSocket ELSE online[j]]
    BY <1>1, <1>2, DropType DEF IInv
  <1>4. proxyMap' = [j \in Identities |-> IF proxyMap[j] = w THEN NoSocket ELSE proxyMap[j]]
    BY <1>1, DropType DEF IInv
  <1>5. Life[w] \in {"up", "ending"}
    BY Stages DEF IInv, PresenceTypeOK, ConnStates
  <1>6. Life' = [Life EXCEPT ![w] = Stage[c]]
    <2>1. c \in ConnStates /\ PresenceTypeOK
      BY DEF ConnStates, IInv
    <2> QED
      BY <2>1, StageWritten
  <1> QED
    BY <1>3, <1>4, <1>5, <1>6 DEF Register!Leave, Register!Without

(* A granted connect takes a free name, or the socket's own. *)
LEMMA ConnectTakes ==
    ASSUME IInv, ~Rebinding,
           NEW w \in Sockets, NEW i \in Identities, NEW declared \in SUBSET Identities,
           Connect(w, i, declared)
    PROVE  \E n \in Identities, subjects \in SUBSET Identities : Register!Take(n, w, subjects)
  <1>1. Life[w] = "up" /\ Life' = Life
    BY Stages DEF Connect, Speaks, IInv, Life
  <1>2. online[i] \in {NoSocket, w} /\ \A m \in Identities : online[m] = w => m = i
    BY Names3 DEF Connect, Names, Claimable, IInv, MapsAgree
  <1>3. Granted(i, declared) \in SUBSET Identities
    BY DEF Granted
  <1>4. \A s \in Granted(i, declared) : s = i \/ <<i, s>> \in Entitled
    BY DEF Granted
  <1>5. Register!Take(i, w, Granted(i, declared))
    BY <1>1, <1>2, <1>4 DEF Connect, Register!Take
  <1> QED
    BY <1>3, <1>5

(* The close of a socket, with a name or without. *)
LEMMA ClosedLeaves ==
    ASSUME IInv, NEW w \in Sockets, Closed(w)
    PROVE  Register!Leave(w, "over")
  <1>1. conn[w] \in {"open", "doomed", "closing"} /\ conn' = [conn EXCEPT ![w] = "closed"]
    BY DEF Closed, Speaks
  <1>2. CASE identityOf[w] # Nobody
    <2>1. identityOf[w] \in Identities /\ Drop(w, identityOf[w])
      BY <1>2 DEF Closed, IInv, PresenceTypeOK
    <2>2. Register!Leave(w, Stage["closed"])
      BY <1>1, <2>1, DropLeaves
    <2> QED
      BY <2>2 DEF Stage
  <1>3. CASE identityOf[w] = Nobody
    <2>1. \A j \in Identities : online[j] # w /\ proxyMap[j] # w
      BY <1>3, Names3 DEF IInv, MapsAgree, ProxyBacked
    <2>2. UNCHANGED <<online, proxyMap>>
      BY <1>3 DEF Closed, maps
    <2>3. online' = Register!Without(online, w) /\ proxyMap' = Register!Without(proxyMap, w)
      BY <2>1, <2>2 DEF IInv, PresenceTypeOK, Register!Without
    <2>4. Life[w] \in {"up", "ending"} /\ Life' = [Life EXCEPT ![w] = "over"]
      BY <1>1, Stages, StageWritten DEF IInv, ConnStates, Stage
    <2> QED
      BY <2>3, <2>4 DEF Register!Leave
  <1> QED
    BY <1>2, <1>3

(* What a sweep does to one entry. *)
LEMMA SweepLeaves ==
    ASSUME IInv, NEW w \in Sockets, NEW i \in Identities, SweepEntry(i, w)
    PROVE  Register!Leave(w, "ending") \/ UNCHANGED Register!rvars
  <1>1. identityOf[w] = i /\ conn[w] \notin {"new", "closed"}
    BY DEF SweepEntry, IInv, SnapshotHolds, MapsAgree, NoDeadRoutes, NewOwnsNothing
  <1>2. CASE SweepDrop(i, w)
    <2>1. conn' = [conn EXCEPT ![w] = "closing"] /\ Drop(w, i)
      BY <1>1, <1>2 DEF SweepDrop
    <2>2. Register!Leave(w, Stage["closing"])
      BY <1>1, <2>1, DropLeaves
    <2> QED
      BY <2>2 DEF Stage
  <1>3. CASE SweepPing(w)
    BY <1>3, Unseen DEF SweepPing, IInv
  <1> QED
    BY <1>2, <1>3 DEF SweepEntry

LEMMA RegisterStep ==
    ASSUME IInv, ~Rebinding, [PresenceNext]_presenceVars
    PROVE  [Register!RNext]_Register!rvars
  <1>1. ASSUME NEW w \in Sockets, Open(w)
        PROVE  Register!Arrive(w)
    <2>1. Life[w] = "fresh" /\ Life' = [Life EXCEPT ![w] = "up"]
      BY <1>1, Stages, StageWritten DEF Open, IInv, ConnStates, Stage
    <2> QED
      BY <1>1, <2>1 DEF Open, maps, Register!Arrive
  <1>2. ASSUME NEW w \in Sockets, CloseTimer(w)
        PROVE  Register!Linger(w)
    <2>1. Life[w] = "up" /\ Life' = [Life EXCEPT ![w] = "ending"]
      BY <1>2, Stages, StageWritten DEF CloseTimer, IInv, ConnStates, Stage
    <2> QED
      BY <1>2, <2>1 DEF CloseTimer, maps, Register!Linger
  <1>3. ASSUME NEW w \in Sockets,
               PeerGone(w) \/ ConnectUnknown(w) \/ Frame(w) \/ \E i \in Identities : ConnectRefused(w, i)
        PROVE  UNCHANGED Register!rvars
    BY <1>3, Unseen DEF PeerGone, ConnectUnknown, Frame, ConnectRefused, Speaks, IInv
  <1>4. ASSUME NEW w \in Sockets, NEW i \in Identities, NotApproved(w, i)
        PROVE  Register!Leave(w, "ending")
    <2>1. /\ identityOf[w] \in {i, Nobody} /\ Drop(w, i)
          /\ conn' = [conn EXCEPT ![w] = "closing"] /\ conn[w] \in {"open", "doomed"}
      BY <1>4 DEF NotApproved, Names, Speaks
    <2>2. Register!Leave(w, Stage["closing"])
      BY <2>1, DropLeaves
    <2> QED
      BY <2>2 DEF Stage
  <1>5. ASSUME Restart
        PROVE  Register!Reset
    <2>1. Life' = [w \in Sockets |-> IF Life[w] = "fresh" THEN "fresh" ELSE "over"]
      <3>1. ASSUME NEW w \in Sockets
            PROVE  Stage[conn'[w]] = IF Stage[conn[w]] = "fresh" THEN "fresh" ELSE "over"
        BY <1>5 DEF Restart, Stage, IInv, PresenceTypeOK, ConnStates
      <3> QED
        BY <3>1 DEF Life
    <2> QED
      BY <1>5, <2>1 DEF Restart, Register!Reset
  <1>6. CASE SweepStart \/ (\E i \in Identities : Revoke(i) \/ Approve(i)) \/ UNCHANGED presenceVars
    BY <1>6, Unseen DEF SweepStart, Revoke, Approve, presenceVars, IInv
  <1>7. CASE Register!Reset \/ UNCHANGED Register!rvars
    BY <1>7 DEF Register!RNext
  <1>8. ASSUME NEW w \in Sockets,
               \/ Register!Arrive(w) \/ Register!Linger(w)
               \/ Register!Leave(w, "ending") \/ Register!Leave(w, "over")
               \/ \E n \in Identities, subjects \in SUBSET Identities : Register!Take(n, w, subjects)
        PROVE  Register!RNext
    BY <1>8 DEF Register!RNext
  <1> QED
    BY <1>1, <1>2, <1>3, <1>4, <1>5, <1>6, <1>7, <1>8, ConnectTakes, ClosedLeaves, SweepLeaves DEF PresenceNext

(* For any names, sockets and entitlements the hub is a register of names, *)
(* when a socket connects under one.                                       *)
THEOREM RegisterImplemented ==
    ASSUME ~Rebinding
    PROVE  PresenceSpec => ImplementsRegister
  BY Initially, StepKeeps, RegisterBegins, RegisterStep, PTL DEF PresenceSpec, ImplementsRegister, Register!RSpec
=============================================================================
