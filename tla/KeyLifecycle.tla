---------------------------- MODULE KeyLifecycle ----------------------------
(***************************************************************************)
(* The signing keys of agents.db (store/src/keys.ts, teardown.ts).  Two    *)
(* processes write them: the hub, which takes proposals on an open route   *)
(* (hub/src/rest/agents.ts), and http, where an operator approves, denies, *)
(* revokes and tears down (http/src/keys-admin.ts, main.ts).               *)
(*                                                                         *)
(* A handler of either process runs to its end before the next of the same *)
(* process, but it reads outside the transaction it then writes in, and    *)
(* the other process may commit in between.  `post` and `ruling` hold what *)
(* the running handler of each has read.                                   *)
(***************************************************************************)
EXTENDS FiniteSets

CONSTANTS
    Identities,
    Keys,           \* a key and its fingerprint are the same here
    NeedsKey        \* the identities whose type has requires_key = 1

ASSUME NeedsKeyAssumption == NeedsKey \subseteq Identities

Nobody == "nobody"
NoKey == "no key"

ASSUME NamesAssumption == Nobody \notin Identities /\ NoKey \notin Keys

VARIABLES
    agent,          \* agents: absent, live, or deleted (deleted_at is set)
    holder,         \* agent_keys.identity
    status,         \* agent_keys.status, absent when there is no row
    trail,          \* the status the last agent_key_events row of a key tells
    admitted,       \* agent_registry of the http server, in another database
    httpUp,
    post,           \* the hub's POST /api/v1/agents, and how far it is
    ruling,         \* http's decision, and what it has read
    raced,          \* observes: keys that a proposal wrote or deleted across a decision
    cut             \* observes: identities whose POST failed before its key was
                    \* recorded, until a POST of theirs has one on record

keysVars == <<agent, holder, status, trail, admitted, httpUp, post, ruling, raced, cut>>
rows == <<agent, holder, status, trail>>

Agents == {"absent", "live", "deleted"}
KeyStatus == {"absent", "pending", "approved", "denied", "revoked"}
Usable == {"pending", "approved"}
Rulings == {"approve", "deny", "revoke"}

Idle == [at |-> "idle", id |-> Nobody, key |-> NoKey]
NoRuling == [op |-> "none", id |-> Nobody, key |-> NoKey, seen |-> {}]

KeysTypeOK ==
    /\ agent \in [Identities -> Agents]
    /\ holder \in [Keys -> Identities \union {Nobody}]
    /\ status \in [Keys -> KeyStatus]
    /\ trail \in [Keys -> KeyStatus]
    /\ admitted \subseteq Identities
    /\ httpUp \in BOOLEAN
    /\ post \in [at : {"idle", "checked", "written", "proposing"},
                 id : Identities \union {Nobody}, key : Keys \union {NoKey}]
    /\ ruling \in [op : Rulings \union {"none", "teardown", "admit"},
                   id : Identities \union {Nobody}, key : Keys \union {NoKey},
                   seen : SUBSET Keys]
    /\ raced \subseteq Keys /\ cut \subseteq Identities
    /\ \A k \in Keys : status[k] = "absent" <=> holder[k] = Nobody

(* keyByStatus(); the unique indexes leave at most one for each status.    *)
Having(i, s) == {k \in Keys : holder[k] = i /\ status[k] = s}
CanSign(i) == Having(i, "approved") # {}

(* Every row of S gets a status, in the database and in its event.         *)
Becomes(f, S, s) == [k \in Keys |-> IF k \in S THEN s ELSE f[k]]

KeysInit ==
    /\ agent = [i \in Identities |-> "absent"]
    /\ holder = [k \in Keys |-> Nobody]
    /\ status = [k \in Keys |-> "absent"]
    /\ trail = [k \in Keys |-> "absent"]
    /\ admitted = {} /\ httpUp = TRUE
    /\ post = Idle /\ ruling = NoRuling
    /\ raced = {} /\ cut = {}

-----------------------------------------------------------------------------
(* The hub: one request, in the order of handlePostAgentsV1.               *)

(* Mutant: requires_key is not asked. *)
PostChecksLax(i, k) ==
    /\ post = Idle
    /\ agent[i] # "deleted"
    /\ k # NoKey => holder[k] \in {i, Nobody}
    /\ post' = [at |-> "checked", id |-> i, key |-> k]
    /\ UNCHANGED <<rows, admitted, httpUp, ruling, raced, cut>>

(* parseProvisionRequest(): what it refuses changes nothing.               *)
PostChecks(i, k) ==
    /\ post = Idle
    /\ agent[i] # "deleted"
    /\ k # NoKey => holder[k] \in {i, Nobody}
    /\ i \in NeedsKey /\ k = NoKey => Having(i, "approved") \union Having(i, "pending") # {}
    /\ post' = [at |-> "checked", id |-> i, key |-> k]
    /\ UNCHANGED <<rows, admitted, httpUp, ruling, raced, cut>>

(* upsert(): a row that is there keeps its deleted_at; create_only refuses *)
(* one.  Without a key the request is done.                                *)
PostWrites(createOnly) ==
    LET i == post.id IN
    /\ post.at = "checked"
    /\ agent' = [agent EXCEPT ![i] = IF @ = "absent" THEN "live" ELSE @]
    /\ post' = IF post.key = NoKey \/ (createOnly /\ agent[i] # "absent") THEN Idle
               ELSE [post EXCEPT !.at = "written"]
    /\ UNCHANGED <<holder, status, trail, admitted, httpUp, ruling, raced, cut>>

(* Mutant: only a usable key is taken for one on record. *)
PostReadsReopens ==
    /\ post.at = "written"
    /\ post' = IF status[post.key] \in Usable THEN Idle ELSE [post EXCEPT !.at = "proposing"]
    /\ cut' = IF status[post.key] \in Usable THEN cut \ {post.id} ELSE cut
    /\ UNCHANGED <<rows, admitted, httpUp, ruling, raced>>

(* proposeKey() before its transaction: a key on record keeps its ruling.  *)
PostReads ==
    /\ post.at = "written"
    /\ post' = IF status[post.key] # "absent" THEN Idle ELSE [post EXCEPT !.at = "proposing"]
    /\ cut' = IF status[post.key] # "absent" THEN cut \ {post.id} ELSE cut
    /\ UNCHANGED <<rows, admitted, httpUp, ruling, raced>>

(* A decision on the same keys, or the teardown of the same identity, has  *)
(* read what this proposal changes.                                        *)
Crosses(i, old, k) ==
    \/ agent[i] = "deleted"
    \/ ruling.op = "teardown" /\ ruling.id = i
    \/ (ruling.seen \union {ruling.key}) \intersect (old \union {k}) # {}

(* Mutant: the new proposal replaces every key in use. *)
PostCommitsOverAll ==
    LET i == post.id
        k == post.key
        old == Having(i, "pending") \union Having(i, "approved")
    IN  /\ post.at = "proposing"
        /\ holder' = [Becomes(holder, old, Nobody) EXCEPT ![k] = i]
        /\ status' = [Becomes(status, old, "absent") EXCEPT ![k] = "pending"]
        /\ trail' = [Becomes(trail, old, "absent") EXCEPT ![k] = "pending"]
        /\ raced' = (raced \ (old \union {k}))
                        \union (IF Crosses(i, old, k) THEN old \union {k} ELSE {})
        /\ post' = Idle /\ cut' = cut \ {i}
        /\ UNCHANGED <<agent, admitted, httpUp, ruling>>

(* Its transaction: the pending key, as the transaction itself reads it,   *)
(* is deleted and superseded, and the new one inserted.                    *)
PostCommits ==
    LET i == post.id
        k == post.key
        old == Having(i, "pending")
    IN  /\ post.at = "proposing"
        /\ holder' = [Becomes(holder, old, Nobody) EXCEPT ![k] = i]
        /\ status' = [Becomes(status, old, "absent") EXCEPT ![k] = "pending"]
        /\ trail' = [Becomes(trail, old, "absent") EXCEPT ![k] = "pending"]
        /\ raced' = (raced \ (old \union {k}))
                        \union (IF Crosses(i, old, k) THEN old \union {k} ELSE {})
        /\ post' = Idle /\ cut' = cut \ {i}
        /\ UNCHANGED <<agent, admitted, httpUp, ruling>>

(* The process dies, or a statement fails, in between.                     *)
PostFails ==
    /\ post # Idle
    /\ cut' = cut \union {i \in {post.id} : post.at # "checked"}
    /\ post' = Idle
    /\ UNCHANGED <<rows, admitted, httpUp, ruling, raced>>

-----------------------------------------------------------------------------
(* The http server: one decision.                                          *)

(* requireKey().                                                           *)
RulingReads(op, k) ==
    /\ httpUp /\ ruling = NoRuling
    /\ status[k] \in (IF op = "revoke" THEN Usable ELSE {"pending"})
    /\ ruling' = [op |-> op, id |-> holder[k], key |-> k, seen |-> {}]
    /\ UNCHANGED <<rows, admitted, httpUp, post, raced, cut>>

(* approveKey()'s transaction.  Neither UPDATE looks at the status again.  *)
(* A null row afterwards is an error, and nobody is admitted.              *)
ApproveCommits ==
    LET k == ruling.key
        incumbent == Having(ruling.id, "approved")
        there == {k} \ {j \in Keys : status[j] = "absent"}
    IN  /\ ruling.op = "approve"
        /\ Having(holder[k], "approved") \subseteq incumbent    \* ux_agent_keys_approved
        /\ status' = Becomes(Becomes(status, incumbent, "revoked"), there, "approved")
        /\ trail' = Becomes(Becomes(trail, incumbent, "revoked"), {k}, "approved")
        /\ ruling' = IF there = {} THEN NoRuling
                     ELSE [ruling EXCEPT !.op = "admit", !.id = holder[k]]
        /\ UNCHANGED <<agent, holder, admitted, httpUp, post, raced, cut>>

(* admitApprovedIdentity(), into the registry.                             *)
Admits ==
    /\ ruling.op = "admit"
    /\ admitted' = admitted \union {i \in {ruling.id} : agent[i] = "live"}
    /\ ruling' = NoRuling
    /\ UNCHANGED <<rows, httpUp, post, raced, cut>>

(* Mutant: the decision is an INSERT OR REPLACE. *)
RefuseReplaces ==
    LET s == IF ruling.op = "deny" THEN "denied" ELSE "revoked"
        k == ruling.key
    IN  /\ ruling.op \in {"deny", "revoke"}
        /\ status' = [status EXCEPT ![k] = s]
        /\ trail' = [trail EXCEPT ![k] = s]
        /\ ruling' = NoRuling
        /\ UNCHANGED <<agent, holder, admitted, httpUp, post, raced, cut>>

(* The transactions of denyKey() and revokeKey().                          *)
RefuseCommits ==
    LET s == IF ruling.op = "deny" THEN "denied" ELSE "revoked"
        k == ruling.key
    IN  /\ ruling.op \in {"deny", "revoke"}
        /\ status' = [status EXCEPT ![k] = IF @ = "absent" THEN @ ELSE s]
        /\ trail' = [trail EXCEPT ![k] = s]
        /\ ruling' = NoRuling
        /\ UNCHANGED <<agent, holder, admitted, httpUp, post, raced, cut>>

(* teardownIdentity(): the fingerprints for the events are read first.     *)
TeardownReads(i) ==
    /\ httpUp /\ ruling = NoRuling
    /\ agent[i] = "live"
    /\ ruling' = [op |-> "teardown", id |-> i, key |-> NoKey,
                  seen |-> Having(i, "pending") \union Having(i, "approved")]
    /\ UNCHANGED <<rows, admitted, httpUp, post, raced, cut>>

(* Mutant: the events are written for the pending keys alone. *)
TeardownUntold ==
    LET i == ruling.id
        usable == Having(i, "pending") \union Having(i, "approved")
    IN  /\ ruling.op = "teardown"
        /\ agent' = [agent EXCEPT ![i] = "deleted"]
        /\ status' = Becomes(status, usable, "revoked")
        /\ trail' = Becomes(trail, ruling.seen \intersect Having(i, "pending"), "revoked")
        /\ ruling' = NoRuling
        /\ UNCHANGED <<holder, admitted, httpUp, post, raced, cut>>

(* Mutant: a proposal survives the teardown. *)
TeardownLeavesPending ==
    LET i == ruling.id
    IN  /\ ruling.op = "teardown"
        /\ agent' = [agent EXCEPT ![i] = "deleted"]
        /\ status' = Becomes(status, Having(i, "approved"), "revoked")
        /\ trail' = Becomes(trail, Having(i, "approved"), "revoked")
        /\ ruling' = NoRuling
        /\ UNCHANGED <<holder, admitted, httpUp, post, raced, cut>>

(* Its transaction: what is usable now is revoked, what was read is told.  *)
TeardownCommits ==
    LET i == ruling.id
        usable == Having(i, "pending") \union Having(i, "approved")
    IN  /\ ruling.op = "teardown"
        /\ agent' = [agent EXCEPT ![i] = "deleted"]
        /\ status' = Becomes(status, usable, "revoked")
        /\ trail' = Becomes(trail, ruling.seen, "revoked")
        /\ ruling' = NoRuling
        /\ UNCHANGED <<holder, admitted, httpUp, post, raced, cut>>

(* Mutant: the approval is two transactions. *)
RulingFailsHalfway ==
    LET incumbent == IF ruling.op = "approve" THEN Having(ruling.id, "approved") ELSE {} IN
    /\ ruling.op \in Rulings \union {"teardown"}
    /\ status' = Becomes(status, incumbent, "revoked")
    /\ trail' = Becomes(trail, incumbent, "revoked")
    /\ ruling' = NoRuling
    /\ UNCHANGED <<agent, holder, admitted, httpUp, post, raced, cut>>

(* A transaction that fails, or that an index refuses, leaves nothing.     *)
RulingFails ==
    /\ ruling.op \in Rulings \union {"teardown"}
    /\ ruling' = NoRuling
    /\ UNCHANGED <<rows, admitted, httpUp, post, raced, cut>>

HttpDies ==
    /\ httpUp
    /\ httpUp' = FALSE
    /\ ruling' = NoRuling
    /\ UNCHANGED <<rows, admitted, post, raced, cut>>

(* Mutant: nothing is admitted on boot. *)
HttpBootsBare ==
    /\ ~httpUp
    /\ httpUp' = TRUE
    /\ UNCHANGED <<rows, admitted, post, ruling, raced, cut>>

(* admitApprovedIdentities() runs on boot.                                 *)
HttpBoots ==
    /\ ~httpUp
    /\ httpUp' = TRUE
    /\ admitted' = admitted \union {i \in Identities : CanSign(i) /\ agent[i] = "live"}
    /\ UNCHANGED <<rows, post, ruling, raced, cut>>

-----------------------------------------------------------------------------
KeysNext ==
    \/ \E i \in Identities, k \in Keys \union {NoKey} : PostChecks(i, k)
    \/ \E createOnly \in BOOLEAN : PostWrites(createOnly)
    \/ PostReads
    \/ PostCommits
    \/ PostFails
    \/ \E op \in Rulings, k \in Keys : RulingReads(op, k)
    \/ ApproveCommits
    \/ Admits
    \/ RefuseCommits
    \/ \E i \in Identities : TeardownReads(i)
    \/ TeardownCommits
    \/ RulingFails
    \/ HttpDies
    \/ HttpBoots

KeysSpec == KeysInit /\ [][KeysNext]_keysVars

-----------------------------------------------------------------------------
(* What the operator ruled stands: no restart of a client, proposal or     *)
(* later decision brings a denied or revoked key back ("re-proposing a key *)
(* an operator has already ruled on returns that ruling").                 *)
RulingIsFinal ==
    [][\A k \in Keys : status[k] \in {"denied", "revoked"} => status'[k] = status[k]]_keysVars

(* A key that was ever approved keeps its row and its holder: what it      *)
(* signed stays verifiable, although a proposal deletes rows.              *)
SignedIsKept ==
    [][\A k \in Keys : status[k] = "approved" =>
           status'[k] \in {"approved", "revoked"} /\ holder'[k] = holder[k]]_keysVars

(* The event log tells the status of every key, except one that a proposal *)
(* wrote or deleted between the read and the transaction of a decision.    *)
HistoryTells == \A k \in Keys \ raced : trail[k] = status[k]

(* A torn down identity has no key in use or awaiting one, but by a        *)
(* proposal whose check for the teardown came before it.                   *)
DeletedIsSilent ==
    \A k \in Keys \ raced : status[k] \in Usable => agent[holder[k]] = "live"

(* Only two things take an identity's last approved key from it: a         *)
(* decision to do so, and an approval that a proposal crossed.             *)
SilencedOnPurpose ==
    [][\A i \in Identities : CanSign(i) /\ ~CanSign(i)' =>
           \/ ruling.op = "revoke" /\ holder[ruling.key] = i
           \/ ruling.op = "teardown" /\ ruling.id = i
           \/ ruling.op = "approve" /\ ruling.key \in raced]_keysVars

(* Approval is admission, across the crash between the two databases: a    *)
(* running server has admitted every live identity with an approved key.   *)
ApprovedIsAdmitted ==
    \A i \in Identities :
        httpUp /\ CanSign(i) /\ agent[i] = "live" =>
            i \in admitted \/ (ruling.op = "admit" /\ ruling.id = i)

(* An identity whose type needs a key has one on record, unless its POST   *)
(* is on its way, or the last one that named a key failed between the      *)
(* identity's row and the key (agents.ts, two transactions); the next that *)
(* gets through repairs that.                                              *)
RegisteredHasKey ==
    \A i \in NeedsKey :
        agent[i] # "absent" /\ post.id # i /\ i \notin cut => \E k \in Keys : holder[k] = i

(* keys.ts: "proposing does not create a window where the identity cannot  *)
(* sign", so only a revocation or a teardown takes the last approved key.  *)
ProposingKeepsSigning ==
    [][\A i \in Identities : CanSign(i) /\ ~CanSign(i)' =>
           ruling.op \in {"revoke", "teardown"}]_keysVars
=============================================================================
