# TLA+ model of the agent mesh platform

Agents and people exchange messages over a hub. A client connects a WebSocket,
says who it is, and then sends, receives and schedules; the hub stores what it
cannot push. This directory models the parts of that system whose correctness
depends on orders, crashes and lost answers, checks them with TLC and proves
the central invariants with TLAPS. Paths below are under `src/packages/`.

## 1. The system

### Components

| component | state | operations | modelled in |
|---|---|---|---|
| Store and forward: `hub/src/rpc/{send,connect,receive}.ts`, `mailbox/src/`, `store/src/{outbox,schema/hub}.ts` | hub.db `messages` and `send_idempotency`; `agents.last_send_at` in agents.db; `delivered` events in audit.db | mesh.send and its retry, replay after mesh.connect, mesh.receive with acknowledgements and leases, recall of an unread message | `Mailbox`, `MessageDelivery` |
| Presence: `hub/src/{presence,connection-ownership,heartbeat,main}.ts`, `rpc/connect.ts`, `rpc/dispatch.ts` | the ownership map and its inverse, `onlineAgents`, `wsIdentities`, `proxyMap`, `wsProxies`, the heartbeat's `awaiting` | connect and register, refusal with a delayed close, close events, eviction of an unapproved key, sweeps | `Presence` |
| Reminders: `hub/src/rpc/reminders.ts`, `self-reminder/src/{scheduler,main}.ts` | `reminders` rows, overdue holds and decisions, the running scan | schedule, cancel, decide; scan, claim, send, await, advance, fail; crash and recovery | `Reminders` |
| The daemon's hub link: `self-reminder/src/{lifecycle,scheduler}.ts` | socket generations, pending RPCs, reconnect timer; the record of an outage | connect, register, request, time out, close, stop; report an outage once it is over | `HubLifecycle`; as the scheduler sees it, in `Reminders` |
| Dispatch and signatures: `hub/src/{signature,rpc/dispatch,rest/signed}.ts`, `store/src/verify.ts` | nonce window | verify, spend a nonce, sweep | `Admission` |
| Rate limiter: `hub/src/ratelimit.ts` | token buckets | take, refill, sweep | `Admission` |
| Keys and teardown: `store/src/{keys,teardown}.ts`, `hub/src/rest/agents.ts`, `http/src/keys-admin.ts` | `agents`, `agent_keys` and their events in agents.db; the http server's registry | register and propose; approve, deny, revoke, tear down, admit | `KeyLifecycle` |
| Sources and dormancy: `store/src/sources.ts`, `hub/src/dormancy.ts` | `agent_sources`, `last_send_at` | observe, compare | `Admission` |
| Audit ingestion and blobs: `hub/src/rpc/audit.ts`, `http/src/audit-blobs.ts`, `src/scripts/collect-orphan-blobs.ts` | audit events, blob files, grants | append, upload, collect | `AuditIngest`; the `delivered` events in `Mailbox` |
| The http server's hub link: `http/src/{main,db,provision,send-failure}.ts` | the link, the approved people, the rows of posted messages | dial, provision, declare; approve, create, deactivate, reactivate; post, time out | `WebLink` |
| Groups, entitlement, grants: `store/src/{groups,entitlement,grants}.ts` | tables an operator edits | pure checks | not modelled; they appear as the constants `Permitted` and `Entitled` |
| The rest of the HTTP server, its read models and pages, platform-web, logging, scripts | sessions, queries, markup | | not modelled: section 6 |

### How they interact

- A socket's `mesh.connect` claims ownership, writes the presence maps and, in
  the same JavaScript turn, replays pending rows. `mesh.send` reads the maps to
  decide between pushing and storing. `Presence` has the maps; `Mailbox` sees of
  them only the set `live` of identities with a socket.
- Three SQLite files are written by one handler: the row in hub.db, the dormancy
  clock in agents.db, the audit event in audit.db. Each commits on its own.
- The reminder daemon is a client of `mesh.send`. It shares only the
  `reminders` table with the hub, which writes it from two RPCs.
- The hub and the http server both write agents.db: proposals arrive at the one,
  decisions at the other, and neither knows what the other is in the middle of.
- The http server is a client of the hub twice: it provisions people over REST and
  speaks for them over one socket. It streams uploads into the directory that the
  hub looks for blobs in, and a third process deletes there what nothing references.
- A request reaches the hub on one of four roads (mesh.connect, the socket, JSON-RPC
  over HTTP, REST), which share the nonce window, the keys and the sources and look
  at them in different orders.
- The heartbeat and the close events edit the same maps as requests do, keyed by
  socket in some and by identity in others.

### What is hard here

- Handlers on the hub are synchronous, so they interleave only whole; what cuts
  one in two is the process dying or one of its commits failing. `Faults` of
  `Mailbox` names each such cut.
- The scheduler does await, once per row, with a scan-wide snapshot before and
  unconditional UPDATEs after. The other processes run in between.
- A key decision reads a row, then opens a transaction that no longer looks at
  its status; the other process may have replaced the row in between.
- A socket can be half-open, refused and still talking, or closed after its
  identity went elsewhere.
- A caller that saw no answer sends again; the retry can meet another outcome
  than the original, a recalled row, or a changed request.
- The daemon's recovery work commits, awaits and may die at each step, while its
  socket is replaced under it.
- The http server awaits the hub between reading whom it may speak for and saying so.
- Three processes change files between each other's system calls.

PROJECT.json lists each hazard at its line with the properties that cover it.

## 2. The modules

| module | what it is |
|---|---|
| `Mailbox` | the rows and the handlers that move them |
| `MessageDelivery` | what store and forward promises, with no leases, keys, sockets or databases; `Mailbox` implements it |
| `Mailbox_proofs` | its theorems (section 5) |
| `Presence` | the maps, sockets, sweeps |
| `NameRegister` | what presence promises of a name, with no mirrored maps, heartbeat or keys; `Presence` implements it |
| `Presence_proofs` | its theorems |
| `Reminders` | rows, scan, awaited send, operator, crash and recovery |
| `ReminderPromise` | what the scheduler promises of fires, with no scan, claim, wire or restart; `Reminders` implements it |
| `Reminders_proofs` | its theorems |
| `KeyLifecycle` | keys, identities and the registry under two processes |
| `KeyLifecycle_proofs` | its theorems |
| `HubLifecycle`, `HubLifecycle_proofs` | the daemon's connection and what it tells of an outage, and theorems |
| `WebLink`, `WebLink_proofs` | the http server as a client of the hub, and theorems |
| `Admission`, `Admission_proofs` | what lets a request in, and theorems |
| `AuditIngest`, `AuditIngest_proofs` | blobs, events and the collector, and theorems |
| `MCMailbox`, `MCPresence`, `MCReminders`, `MCKeyLifecycle` | the instances TLC checks |
| `MCLinks` | presence, reminders and the daemon's connection in one run: each behaviour has one part that steps |
| `MCStores` | keys, the http server's link, admission and audit ingestion, likewise |

### Mailbox

`status`, `lease` and `envelope` are the columns of a `messages` row (`via`,
`ts`, sender, recipient); ids are in order of acceptance. `idem` is
`send_idempotency`, `lastSend` the clock, `events` the count of `delivered`
events per message. The remaining variables observe: `handed` (left the hub),
`kept` (the recipient has it safe), `lost` (a fault took it after the hub called
it delivered), `withdrawn`, and what senders were told (`answer`, `told`).

| action | code |
|---|---|
| `SendQueued`, `SendDelivered`, `SendDropped` | `handleSend`: accept with the channel of `replyChannel`, then the frame; a dropped frame sets the row back to pending |
| `SendAgain` | the idempotency lookup before any of that |
| `SendRolledBack`, `SendCut` | hub.db's commit fails after agents.db's; the process dies after the commit |
| `Connect`, `ConnectCut` | `deliverPending`: oldest first, stop at the first dropped frame; or the process dies midway |
| `Receive`, `ReceiveRolledBack` | one transaction that settles acknowledged rows and leases a page; the audit events of one that does not commit |
| `Lapse` | `leased_until` passes |
| `Recall` | `recallMessage` |
| `Disconnect`, `Restart`, `Tick` | presence and the clock |

A lease is `none`, `live` or `lapsed` and not an instant, so a lease can last
any time at all. Rows tie within a second, as `ORDER BY ts` does.

### Presence

One variable per map of the code. A socket is `doomed` between a refusal and the
10 ms timer that closes it, and it can still speak meanwhile. A sweep is one
JavaScript turn over a snapshot, taken entry by entry; every other action waits
while `sweeping` holds entries. `silent` observes how many sweeps have started
since a socket was last heard. `Keyed` are the identities of a type that needs a
key, the only ones an operator's decision reaches. `Rebinding` says whether a socket ever connects
under a second name: the clients of the repository never do, the hub allows it.

Seen through `online`, the map sends consult, `proxyMap` and the stage of each socket
(`Life`: fresh, up, ending, over), it is a `NameRegister`: a granted connect is
`Take`, a revocation's or a sweep's drop and a close are `Leave`, a refused
contender's timer is `Linger` (its socket keeps a name it took in the last ten
milliseconds until it has closed), and everything else is a stutter.

### Reminders

`queue` holds the ids whose slot has come and `before` the order of their
`next_fire_at`; `left` the rows of the running scan with the scan's own judgement of lateness; `firing`
and `reply` the awaited send; `wire` requests on their way, with whether anyone
still waits for the answer; `accepted` the fires the hub took. Between `Scan`
and the await, and between an answer and the next await, the daemon's thread is
busy (`InTurn`): its timers and its socket are not served, while the other
processes' writes to the table are.

Seen through the stage of each row (`StageOf`: unasked, running, cancelled, over), its
`fire_count` and whether the hub has its next fire (`Ahead`), it is a `ReminderPromise`:
the hub taking a request is `Arrives`, also a late one of a row cancelled meanwhile; an
answer is `Count`, or `GiveOut` for a spec that cannot be read; scans, claims, failures,
time-outs, crashes and recoveries are stutters.

A scan selects at most `MaxScan` rows. `StaysDue` names the rows it selects and leaves
as they are, held ones and those whose fire the hub already has under another digest;
`CrowdedOut` says that such rows, all of them older, fill the scan. Then the scheduler
does not get to the reminder, which `DueReachesHub` lists as the second thing that
stops it, beside an abandoned row.

### KeyLifecycle

`post` is the request the hub is in and `ruling` the decision http is in, each
with what it has read; a handler runs to its end before the next of its process,
and every commit of the other may fall between two of its steps. A POST is
`PostChecks` (validation), `PostWrites` (the upsert), `PostReads` and
`PostCommits` (`proposeKey` before and in its transaction). A decision is
`RulingReads` (`requireKey`) and `ApproveCommits` or `RefuseCommits`, an approval
then `Admits`; a teardown is `TeardownReads` and `TeardownCommits`. `PostFails`,
`RulingFails` and `HttpDies` cut them anywhere; `HttpBoots` runs the backfill.
`trail` keeps of the event log only what its last entry says of each key.
`raced` observes the keys a proposal wrote or deleted across a decision and `cut`
the identities whose last POST failed midway, until one gets its key on record: the
properties name exactly these as exceptions, and the violated run shows what one of
them costs. Whether a type
needs a key is a constant of the identity; an operator's comparison of
fingerprints is outside the model.

### HubLifecycle

`current`, `reconnect` and `registered` are the fields of the class, `socket` the
`readyState` of each generation's socket as the daemon sees it (`dead` looks open),
`pending` the promises, `sent` and `answers` what is on the wire. `since` and
`reported` are the two keys of `scheduler_state`. `recovery` is how far
`onHubRegistered` is: `ending` before the record of the outage is deleted, `ended`
before it is marked as reported, `alerting` in its loop. `told` counts what the hub
took and `untold` what was given up; both observe.

| action | code |
|---|---|
| `DaemonBoots`, `Start`, `Stop`, `DaemonDies` | `main.ts`, `start()`, `stop()`, the process dies |
| `TimerFires` | the reconnect timer; `connect()` makes a socket or a timer |
| `Opens`, `CloseEvent` | `on("open")` and `register()`; `on("close")` |
| `Registers`, `Refused`, `AlertAnswered`, `Ignored` | `handleMessage`, by what it finds |
| `RpcTimeout` | the timer of one request |
| `EndOutage`, `MarkReported`, `SendAlert`, `AllTold` | `onHubRegistered`, commit by commit |
| `HubCloses`, `Vanishes`, `HubAnswers`, `NeverArrives` | hub and network |

Events wait while the recovery work holds its turn (`AtRest`), as the event loop
has it; only death comes between its commits.

### WebLink

`link` and `hubConnected` are the socket and the flag, `redial` the timer. A member
of `tasks` is an async function at an await: `from` says whether it is onopen,
`startup()` or the route of an approval, `stage` whether it has read the list of the
approved yet, `left` whom of that list it has still to provision. `toHub` and `fromHub`
are the link's frames in order; `known`, `declared` and `accepted` what the hub has of
this socket. A request's id is the millisecond, so two requests of one millisecond
share it. `Plans` chooses, per behaviour, who may be approved or given an account and
what is posted, to keep apart what does not interact.

| action | code |
|---|---|
| `Serve`, `Seeds` | the dial at import and `startup()`: `seedLocalUsers` approves every row of `local_users`, disabled or not, then the approved are declared. No request is served before it has returned |
| `Approve`, `ProvisionedApproved` | the approval of a GitHub login, up to its first await; then the list for `redeclareProxies` |
| `CreateUser`, `Reactivate` | `POST /admin/users` and `/reactivate` approve, and declare nobody |
| `Deactivate` | `/deactivate` withdraws the approval; the hub is not told |
| `OnOpen`, `ProvisionedSelf` | onopen, and the list it reads after its first await |
| `ProvisionsNext`, `DeclaresOn`, `DeclareThrows` | `provisionAllHumans` one by one, then `mesh.connect` on whichever socket `hubWs` names by then |
| `Post`, `PostCut` | the row, written as pending, and the frame; without a link the row is corrected to failed. The server can die between the row and the rest |
| `Answered`, `GivesUp` | the answers that carry the id, and the five seconds |
| `LinkCut`, `OnClose`, `Dials`, `WebCrash` | the network, onclose, the timer, the process |
| `HubDeclares`, `HubRejects`, `HubTakes`, `HubRefusesSend` | the hub, frame by frame |

Three variables observe. `quiet` has those whom a route of local accounts approved and
no list has named since; `gaveUp` the posts whose answer cannot be heard any more;
`orphaned` those whose handler died with the server. A login is GitHub's or a local
account's, never both. That an administrator may post without an approval is left out. Whether the process outlives a rejection that nobody handles
(`DeclareThrows` in onopen) is left open.

### Admission

One identity, its key, its bucket and its sources. `MeshConnect`, `Speaks`, `Rpc`
and `Rest` are the four roads, each let in; `RefusesRequest` and `DropsSocket` are
their refusals with what they have changed by then. `Rpc` also takes an envelope signed
for `mesh.connect`, which that road answers with 404 once its nonce is spent and its
source recorded. `SweepNonces` and `SweepBucket` may happen at any time; `SetBack`,
`RulesOnKey` and `Restart` are the clock, the operator and the process. `spent` observes
the envelopes that are to be let in no more: those that were let in, and those refused
for their key or signature by a road that had claimed their nonce. `replayed` has those
that were let in nevertheless. `load` is an ideal meter of the bucket. Credit is in
units of the clock, so that the refill is exact: the code's fractions of a token are
`credit / Cost`.

### AuditIngest

A file is the sequence of its chunks, each missing, right or wrong; `upload` holds
the open descriptors, which follow their file through renames (`Follow`). The hub
looks (`AppendLooks`) and commits (`AppendCommits`); http checks the grant, opens the
temporary file, writes, refuses or renames (`PutBegins`, `PutOpens`, `PutChunk`,
`PutRefused`, `PutRenames`); the collector stats,
checks and unlinks (`CollectorStats`, `CollectorChecks`, `CollectorUnlinks`). Each is
a step, so each system call of one may fall between two of another. `old` is what is
older than the collector's grace. `GrowsOld` only ages a file nothing is under way
for, since an upload ends within 180 s and an append within one turn of the hub,
while the grace is 12 hours. `createWriteStream` returns before the file is open, so an
upload can be refused first and its file made after that; it is then made at once, before
anything else happens under that grant.

## 3. The runs

| run | question | verdict |
|---|---|---|
| `mailbox_faults` | all five faults: does a row say delivered only of a message the recipient has, is the audit log truthful, does a key name one message, is what is settled final, and is the whole a `MessageDelivery`? | holds |
| `mailbox_steady` | no commit fails: is there exactly one audit event per settled message, is the clock the last persisted send, and does a queue drain to a recipient that polls? | holds |
| `mailbox_recall` | can a sender withdraw what the recipient was handed? `outbox.ts` and SPEC say never | violated: after the lease lapsed |
| `mailbox_duplicate` | is a retry told what the original was told? | violated: after a dropped frame |
| `presence_owner` | is every owner an open socket? `presence.ts` says a socket owns a name until its own close | violated: the first of two names stays owned after close |
| `reminders_retry` | does a fire whose answer was lost move on? | violated: the retry's content differs, SEND_CONFLICT for ever |
| `reminders_stuck` | is every `firing` row one the scan awaits? | violated: a second reminder takes its key meanwhile |
| `keys_silenced` | can a proposal take the last usable key from an identity? `keys.ts` says no | violated: an approval whose key was superseded after it was read |
| `links` | presence: do the five maps agree, is no closed socket routed to, is a proxied route backed, is the whole a `NameRegister`, does the sweep keep its grace, are half-open owners freed? Reminders: is the whole a `ReminderPromise`, is a cancel final, is a row left in `firing` only by a shared key, does every due reminder reach the hub, unless rows no scan moves crowd it out? The daemon: does it keep one socket or timer, and report an outage to each recipient at last and once? | holds, with one name per socket |
| `stores` | keys: do rulings and signing keys last, does the log tell every status, is a torn down identity silent, an approved one admitted, a registered one keyed? The http server: is everyone approved declared, and does a row say what became of its message? Admission: is nothing let in twice and no budget overdrawn? Blobs: are they whole, and there for every committed event? | holds, with the exceptions the properties name |
| `dormancy` | is a dormant identity that sends from an unseen place refused? `sources.ts` and SPEC say so | violated: every road records the place first |
| `deactivated` | does a deactivated account stay unapproved? SPEC and `db.ts` say so | violated: the next start approves it again |

`links` and `stores` check modules that share no variable. A behaviour picks one of them
and only that one steps, so the run's states are the sum of theirs, and the variables of
the others stay as they begin. The theorems are of each module's own specification.

### Bounds

- Mailbox: two messages suffice for every relation the properties speak of (two
  rows of a queue, an old and a new one, a message and the reply to it, one key
  used and reused); `MaxBatch = 1` in `mailbox_steady` makes the page limit bite
  and `2` in `mailbox_faults` lets a page hold both. `MaxSec = 1` gives rows of
  the same second and of different ones. `MaxEvents` caps only events
  recorded for rows that roll back.
- Presence: two sockets and three identities give an owner and a contender, an
  old and a new socket of one name, a proxy and its subject. A socket is opened
  once; reuse of an object is not possible in the code.
- Reminders: two rows give the scanned row and one cancelled, scheduled or failing
  meanwhile; `MaxSlot = 1` lets an interval fire, fail, move on and fire again. One of
  the five requests comes with `MaxScan = 1`, so that a held or conflicting row fills
  its scans; the others with 2, so that none does.
- Keys: three keys give an incumbent, the key a decision names and the proposal
  that supersedes it; two identities let a superseded key be proposed by another
  one. There are no counters, so the state space is whole. Keys and identities
  are symmetric.
- The daemon: two generations give an old socket whose close is late and the current
  one; two outages, one outage reported while the next begins.
- The http server: one plan has a GitHub login and a local account and two tasks at a
  time, so that an onopen and an approval overtake each other; the other has two posts
  of one person, in one millisecond or in two, and one task.
- Admission: four envelopes, one per road and a second on REST, with a window of one
  and a bucket of one token, reach every edge of window and bucket in four instants.
- Audit ingestion: two uploads, under one or two grants, of a blob of two chunks race
  each other, the collector and an append. `FaultPlans` keeps overlapping uploads, which
  `BlobIsWhole` exempts, apart from broken and garbled ones and the death of the server.
- `MaxFrames`, `MaxMilli`, `MaxClock`, `MaxOutages`, `MaxSlot` and `Plans` cut counters.
- No deadlock check: the bounds stop the models, and a hub with no client rests.

### Fairness

- `Mailbox!LiveSpec`: leases end (weak), and a recipient polls and persists again
  and again (strong, since a page can be taken by a replay between). That is the
  loop SPEC describes for a pull client; the hub itself owes nothing.
- `Presence!PresenceFairness`: weak fairness of the sweep, a `setInterval` in `main.ts`.
- `Reminders!RemindersFairness`: the daemon is restarted, registers, scans, takes and
  settles (weak; timers and a run-to-completion loop). Outages end; and the hub
  answers, and accepts a given reminder, if asked for ever (strong). Nothing else
  is assumed of the network: answers may be lost any finite number of times.
- `HubLifecycle!LifecycleFairness`: the faults end, the daemon is started again, and timers, events and
  the recovery work have their turns (weak; an event loop), while the hub answers what
  arrives (weak). `OutageIsReported` then needs no socket to be leaked and no timer to
  be forgotten. A daemon that its caller stopped is exempt.
- `MCLinks!LinksFairness` states these three for the behaviours in which that part
  steps. `MCStores` assumes no fairness.

## 4. Where code and text disagree

The eight violated runs are listed in PROJECT.json under `findings` with the line
that says otherwise. Seen while modelling, and without a run of their own:

- `connect.ts` replays pending rows whether or not a live lease holds them, while
  SPEC says a leased message is invisible until the lease lapses.
- `accept.ts` says a send that did not persist must not move the dormancy clock;
  the clock is in another database and commits first (`SendRolledBack`; with it
  `ClockIsLastSend` fails, so that property is checked without commit failures).
- `receive.ts` records `delivered` events from inside a transaction that may yet
  roll back; the acknowledgement is then repeated and recorded twice
  (`ReceiveRolledBack`; `AuditIsExact` is checked without commit failures).
- `dispatch.ts` drops a connection under the name a request speaks as, which need
  not be the name it is online under; the dead entry stays until a sweep.
- `heartbeat.ts` drops a socket that is online under two names in the very sweep
  that pinged it.
- The scheduler reads `now` once per scan, so a one-shot that grows overdue while
  the scan awaits is fired without the operator's decision.
- `teardown.ts` reads the fingerprints for its events before the transaction that
  revokes: a key proposed in between is revoked without an event, although SPEC
  wants one for every change (`HistoryTells` needs its exception `raced`).
- The hub checks `deleted_at` before it writes a proposal. A teardown in between
  leaves a pending key on a deleted identity, and `approveKey` does not ask, so it
  can be approved (`DeletedIsSilent` needs the same exception).
- Held reminders, and those of `reminders_retry`, stay due and oldest, so a hundred of
  them fill the scan's LIMIT and nothing newer is selected: `DueReachesHub` needs its
  `CrowdedOut`, and fails without it.
- Rows accepted within one second tie in `ORDER BY ts` and are replayed in either
  order; nothing promises one, and the models keep it open.
- `signed.ts:111` spends a nonce "before anything else can fail", so that a request
  refused for its key gets no free replay once the key is approved. `dispatchHttp`
  looks for the key first and spends nothing when it finds none.
- The nonce window is lost on restart: a request let in just before one can be let
  in again after it (`verify.ts:102` accepts that; `NoReplay` exempts it).
- The comment above the alert in the daemon's `main.ts:75` says it is "keyed on the
  outage it reports". The key is a digest of a text with `recovered_at` in it, so a
  second alert of one outage would have another key. What prevents a second one is
  the mark written before the first (`ToldOnce`), at the price of losing an alert
  that dies between the mark, or the deletion of the outage's record, and the frame.
- `audit-blobs.ts:8` promises "never a short blob under a real key". Two uploads at
  once under one grant truncate and write the same `.part`: the one that finishes
  first can rename it while the other still writes. `BlobIsWhole` and
  `CommittedHasBlobs` exempt a blob such uploads overlapped for (`overlapped`).
- `collect-orphan-blobs.ts:20` calls itself safe while the hub is live. It is for
  what is within its grace when the hub finds it; an old orphan that an event comes to
  reference between the collector's check and its unlink is deleted (`overdue`).
- The http server matches an answer to a request by the millisecond it was sent in.
  Two posts of one millisecond take each other's answers (`Shared`). An answer that comes
  after five seconds is not heard, and the row says failed of a message the hub has
  (`gaveUp`).
- `main.ts:2027-2034` tells how rows that stayed `pending` for ever were ended. One whose
  server dies between the insert and the correction still does: nothing looks at it at the
  next start (`orphaned`).
- `db.ts:851-858` gives the reason an account that an operator creates is approved at
  once: one that is not declared has "every message they send refused by entitlement —
  silently". `admitLocalUser` approves and does not declare, nor does the reactivation of
  an account, so that refusal lasts until the next approval, reconnect or restart (`quiet`).
  A deactivated person stays declared until the link is lost.
- Two sockets may declare one proxied identity. The second takes the route, and its close
  removes it while the first is still there (`presence.ts:47`).
- `onopen` goes on after its awaits with whatever socket `hubWs` names by then; if
  that one still connects, `send` throws where nobody catches it (`DeclareThrows`).

## 5. The proofs

Every theorem holds for any identities, sockets, reminders, keys and bounds, and
for every subset of the faults. What is assumed of the constants is named where
they are declared (`IdentitiesAssumption`, `BoundsAssumption`, `NamesAssumption`,
`EntitledAssumption`, `RequestAssumption`, `LimitsAssumption`, ...): the bounds
are natural numbers, the stand-ins for null are no real name, what is permitted
is between identities. TLC evaluates all of them in the passing runs.

`Mailbox_proofs`

- `TypeCorrect`: `TypeOK` is inductive alone.
- `DeliveredKept`, `AuditTrue`: a row that says delivered, or has a `delivered`
  event, is of a message its recipient has or a fault took. Both are inductive
  given the types. The argument is one lemma per family of actions, saying that
  `kept` and `lost` only grow and that a newly settled row is in one of them.
- `RowsRemain`, `SettledFinal`, `DeliveryImplemented`: from the shapes of a step. A
  step appends a row, hands pending rows over and settles some, withdraws a pending
  row, or moves nothing (`StepShape`). With `RowsAreAccepted` (a row is of an accepted
  message, a message without one was withdrawn) each shape keeps what is settled and
  withdrawn, and is a step of `MessageDelivery` or a stutter. No fault is assumed away.
- `AuditNeverDoubles`, `AuditNeverMisses`: the two halves of `AuditIsExact`, each with
  the faults that spoil it and no others. Without a `receive` that rolls back no
  message has two events; without a `send` or `replay` cut after its row no settled
  message is without one. `AuditExact` is their conjunction.
- `KeysNameOne`, `ClockNeverBehind`, `ClockCorrect`: from `StepWrites`; only `accept()`
  writes envelopes, idempotency rows and the clock. The clock is never behind under any
  faults, so that nobody is found dormant too early; that it is exact assumes that no
  send rolls back. Both need `StampsArePast` (no row is from the future).
- `RecallsLapsed`, `RetriesOnlyOverstate`: how far the findings `mailbox_recall` and
  `mailbox_duplicate` go. While no replay is cut, only a message whose lease lapsed can
  be withdrawn after it was handed over (`HandedOnLease`: what left the hub and is not
  settled is, or was, on lease). A retry is told what the original was told, or
  `delivered` where that was `pending` or its answer was cut, and nothing else.

`Presence_proofs`, whatever the clients do (one invariant, `ClaimInv`: what a socket
claimed last is still its own, and the maps that mirror that claim agree on it)

- `TypeCorrect`, `OwnersStay`: `NoEviction`, a name passes on only by its owner's own end.
- `OneSpeaks`: `owners` and `online` never name two sockets for one identity, also after
  `dispatch.ts` dropped a socket under a name that is not the one it is online under.
- `LatestNamesEnd`, `OrphansStay`: the extent of the finding `presence_owner`. The name a
  socket claimed last is free once it closed; one it had left for another is not, and no
  handler, sweep or contender ever frees it, only a restart.

`Presence_proofs`, under `~Rebinding` (with two names on one socket the first is
false, as `presence_owner` shows)

- `MapsAlwaysAgree`, `DeadIsUnrouted`, `RoutesAreBacked`, `OwnersAreOpen`, from one
  invariant: the properties themselves, with `SnapshotHolds` (what a running sweep
  has left of its snapshot is still online; without it a sweep could drop a
  socket that has since been replaced) and `NewOwnsNothing` (a socket that never
  opened owns no name, so its first claim cannot meet itself).
- `RegisterImplemented`: each action is a step of `NameRegister` or a stutter. The agreement
  of the maps is what makes it so: a connect is guarded by `owners` and seen in `online`,
  and a drop releases what `claimed` says while the register frees all a socket holds.
- `GraceGiven`: `GracePeriod`, from that invariant and `Waited` (who is waited for has
  been silent since a sweep started, and since two if the running sweep has still to
  reach it). The snapshot's entries name different sockets because the maps agree.

`Reminders_proofs`

- `TypeCorrect`, `CountedAreSent`, `AbandonedOnlyByKey`, from one invariant that
  ties the three places a fire is known in: `CountIsSlot` (a row that can still
  fire has counted the slots it used), `AwaitMatches` (the awaited row is in
  `firing`, the one awaited request carries its key, an `ok` means that the hub
  accepted it), `DownIsIdle` (a crash ends the await and the scan), `LeftByKey`
  (only a taken key leaves a row in `firing` under a running daemon).
- `CancelStands`: `CancelIsFinal`, from the same invariant; a scan that still
  lists a cancelled row cannot claim it.
- `DistinctKeysAwaited`: where the finding `reminders_stuck` ends. If no caller asks for
  two reminders under one key, no row is ever left in `firing`; it follows from
  `AbandonedByKey`.
- `HubNeverFarAhead`: with `CountedAreSent`, the hub has the fires a row counted and at
  most one more. `SlotsBehind` adds that nothing on the wire, however late, is of a slot
  that has not come.
- `HeldWaits`: a one-shot held as overdue is not sent before the operator says replay.
  `HeldIsLate` ties the hold to the running scan: what is held is late for as long as it
  can fire, and no scan lists it as anything else, also one that began before the hold.

- `PromiseKept`: `Reminders` implements `ReminderPromise`. It needs `SlotsBehind` and
  `NothingLeftToSend`: nothing is on the wire for a row that is not asked for, and a row
  that is over has reached the hub with its last fire, so what a late request can still
  bring is a fire the hub has, or the next one of a row that is running or cancelled.

`KeyLifecycle_proofs`

- `TypeCorrect`, `HistoryTold`, `DeletedSilent`, `ApprovedAdmitted`,
  `RegisteredKeyed`, from one invariant: the properties with `HeldByKnown` (a key's
  holder has a row), `PostRead` (what the hub read of its key and identity stays
  true until it writes, since no decision adds or removes rows) and `RulingRead`
  (what http read stays true of every key that is not `raced`; of a raced one, only
  that it is not ruled on).
- `RulingsStand`, `SignedKept`, `SilencedByRuling`: the action properties, step by
  step from that invariant.
- `KeysAreOne`: an identity never has two approved keys, nor two pending ones. The second
  holds by what a proposal reads inside its transaction; the first needs the index when
  the approved row changed hands after the decision read it.

`HubLifecycle_proofs`, two invariants, the second on top of the first

- `LifecycleTypes`, `OwnsOneSocket`: `Owned` adds to the property that nothing
  outlives the process (`DownIsEmpty`), that a stopped lifecycle is empty, and that
  only an open socket is waited for (`RegisteredIsOpen`).
- `NobodyToldTwice`: `Told` says where the alerts of an outage are. One that is still
  recorded was not told (`RecordedIsUnsaid`), nor one the loop has still to take
  (`ToTellIsUnsaid`), and what is on its way is the first and only one (`SentIsFirst`).

`WebLink_proofs`

- `WebTypes`, from `Linked`, which ties the flags, the timer and the tasks to the link.
- `ApprovedAreDeclared`: while the link is open, everyone who is approved, known and not
  `quiet` is declared, or named in a frame on its way, or in the list of a task, or a task
  has still to read one (`Covered`).
- `RowsTellOutcome`: `FramesAreSent` (a frame or an answer bears the id of the post
  it is of), `AnswersSettle` (an answer says what the hub did) and `RowsFollow`. No fault is
  assumed away, the death between the two commits of a post included.

`AuditIngest_proofs`, from one invariant

- `IngestTypes`, `BlobsAreWhole`, `EventsHaveBlobs`: `Named` (an upload writes its
  temporary file, or one with no name, or has yet to open it), `Alone` and `Received` (without an overlap it
  is alone in it, and the file is what was received), `OldIsQuiet` (nothing is under
  way for an old file), `TargetIsOld`, `FoundIsThere` (what an append found stays) and
  `OrphanIsOrphan` (what the collector found unreferenced stays so, unless overdue).

`Admission_proofs`, from one invariant

- `AdmissionTypes`.
- `NothingReplayed`: `Remembered`, what is to be let in no more is in the window or too
  old. That a refusal adds to it is why a nonce is claimed before the key is looked at.
- `BudgetKept`: `NeverOverdrawn`, the load and the credit that is there after refilling
  fit the bucket together.

Model-checked only: the liveness properties (`QueueDrains`, `HalfOpenFreed`,
`DueReachesHub`, `OutageIsReported`). Liveness under fairness is out of the prover's
reach. Every other property of a passing run is proved. Some theorems state a property no
run checks: they say how far a finding goes, or what holds without an assumption that
the run's property needs. Each was checked on the instances of the runs before its proof.

## 6. Not modelled, and what is left

- `scripts/mutation-check.ts` and the other scripts, test harnesses and operations
  files: tooling over the repository's source, no part of the running system.
  `mutation-check.ts` alone is a quarter of the code.
- `platform-web`, `http/src/ui/*`: pages. Their state is the browser's and what the
  server answers.
- Most of `http/src/main.ts`: routes that check a capability, run one query or one
  statement and answer. Each is a turn of its own with one commit; a model of one
  would restate it. What awaits between two effects there is in `WebLink` and, for key
  decisions, in `KeyLifecycle`.
- Read models and metrics (`audit-query`, `behaviour-metrics`, `chat-audits`), reads
  of the hub (`mesh.history`, lists, health), logging, migrations and opening of
  databases. SQLite's transactions are taken as given.
- Groups, grants, entitlement: pure functions of tables; their outcome is a constant.

For that reason the map covers a small share of the repository's lines: it names the
code whose correctness depends on order, failure or time, and little else has such.

Left to do, where it would show something new:

1. `Hub`: `Presence` and `Mailbox` composed, `live` defined from the maps; a push goes
   to the socket that owns the recipient's name.
2. The http server's poll of the audit log, whose cursor of a second and a random id can
   pass over a row accepted later in that second, and its poll of key proposals, whose
   set of announced fingerprints never forgets one that was deleted and proposed again.
3. A run of the note of section 4 on the scheduler's `now`, and stall records.
