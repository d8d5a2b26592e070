------------------------------ MODULE WebLink ------------------------------
(***************************************************************************)
(* The http server as a client of the hub: one link, redialled when it is  *)
(* lost; the people it declares itself a proxy for, which it provisions    *)
(* first, over REST and with an await for each; the routes that approve,   *)
(* create, deactivate and reactivate them; and the messages it sends for   *)
(* them, each under the millisecond as the id of its request, with a row   *)
(* that is written as pending before and corrected after.                  *)
(***************************************************************************)
EXTENDS Integers, Sequences, FiniteSets

CONSTANTS
    People,        \* GitHub logins and the names of local accounts
    Posts,         \* messages posted to the web routes
    Author,        \* who posts each
    MaxMilli,      \* bound: the last millisecond
    MaxFrames,     \* bound: frames on their way at a time, in each direction
    Plans,         \* bounds of a behaviour: who signs in over GitHub in it,
                   \* who is given a local account, what is posted, and how
                   \* many tasks run at a time
    WebFaults      \* which faults happen

(* cut: the link closes or goes dead.  refuse: the hub does not provision  *)
(* a person, or refuses a connection or a send.  slow: an answer takes     *)
(* more than five seconds.  kill: the http server dies.                    *)
AllWebFaults == {"cut", "refuse", "slow", "kill"}

ASSUME AuthorAssumption == Author \in [Posts -> People]
OpenId == 1          \* the id of the mesh.connect that onopen sends
ASSUME MilliAssumption == MaxMilli \in Nat /\ MaxMilli > OpenId /\ MaxFrames \in Nat
ASSUME PlansAssumption == Plans \subseteq
    [github : SUBSET People, local : SUBSET People, posts : SUBSET Posts, tasks : Nat]
ASSUME WebFaultsAssumption == WebFaults \subseteq AllWebFaults

VARIABLES
    plan,          \* the one of Plans that is followed
    webUp,         \* the http server runs
    milli,         \* Date.now(), which is the id of a request; from 2 on
    link,          \* readyState of hubWs; "gone" when frames no longer pass
    hubConnected,
    redial,        \* the timer of connectToHub
    approved,      \* agent_registry: users with approved = 1
    locals,        \* local_users
    disabled,      \* those with a disabled_at
    quiet,         \* approved by a route that declares nobody, and on no list
                   \* of approved users that was read since
    people,        \* the hub's agents of type human
    tasks,         \* async functions at an await before their mesh.connect
    toHub,         \* frames on the link to the hub
    fromHub,       \* answers on the link back
    known,         \* the hub has the socket online as http-server
    declared,      \* wsProxies of the socket at the hub
    row,           \* status in the http server's own messages table
    waiting,       \* posts with a handler and a timer
    reqId,         \* reqId of a post
    redeclaredAt,  \* ids redeclareProxies used
    accepted,      \* posts the hub accepted
    gaveUp,        \* posts whose answer the server cannot hear any more
    orphaned       \* posts whose handler died with the server

registry == <<approved, locals, disabled, quiet, people>>
wire == <<toHub, fromHub>>
atHub == <<known, declared, accepted>>
posts == <<row, waiting, reqId, gaveUp, orphaned>>
webVars == <<plan, webUp, milli, link, hubConnected, redial, registry, tasks, wire, atHub, posts, redeclaredAt>>

NoPost == "nothing"
ASSUME NoPostAssumption == NoPost \notin Posts

Declare(id, list) == [id |-> id, post |-> NoPost, list |-> list]
Send(id, m) == [id |-> id, post |-> m, list |-> {}]
IsDeclare(f) == f.post = NoPost

WebInit ==
    /\ plan \in Plans
    /\ webUp = FALSE /\ milli = OpenId + 1
    /\ link = "down" /\ hubConnected = FALSE /\ redial = FALSE
    /\ approved = {} /\ locals = {} /\ disabled = {} /\ quiet = {}
    /\ people = {}
    /\ tasks = {}
    /\ toHub = <<>> /\ fromHub = <<>>
    /\ known = FALSE /\ declared = {}
    /\ row = [m \in Posts |-> "none"]
    /\ waiting = {}
    /\ reqId = [m \in Posts |-> 0]
    /\ redeclaredAt = {}
    /\ accepted = {} /\ gaveUp = {} /\ orphaned = {}

----------------------------------------------------------------------------
(* A millisecond that nobody uses makes no difference. *)
Millisecond ==
    /\ webUp /\ milli < MaxMilli
    /\ milli \in redeclaredAt \union {reqId[m] : m \in Posts}
    /\ \E m \in plan.posts : row[m] = "none"
    /\ milli' = milli + 1
    /\ UNCHANGED <<plan, webUp, link, hubConnected, redial, registry, tasks, wire, atHub, posts, redeclaredAt>>

(* The link is lost, with what is on it; the hub drops what it declared.   *)
LosesLink(state) ==
    /\ link' = state
    /\ toHub' = <<>> /\ fromHub' = <<>>
    /\ known' = FALSE /\ declared' = {}
    /\ UNCHANGED accepted

(* What is written to hubWs: nothing passes a link that is gone.           *)
Write(f) == toHub' = IF link = "open" THEN Append(toHub, f) ELSE toHub

(* A task goes on as another, or ends. *)
GoesOn(t, next) == tasks' = (tasks \ {t}) \union next

MayBegin == Cardinality(tasks) < plan.tasks

(* A task is onopen, startup() or the route of an approval, at its first   *)
(* await or at one of provisionAllHumans().                                *)
Begun(from, left) == [from |-> from, stage |-> "begun", list |-> {}, left |-> left]

(* The users approved at this instant, whom it provisions one by one.      *)
Declaring(from, list) == [from |-> from, stage |-> "people", list |-> list, left |-> list]

(* redeclareProxies(): nothing to do without a link; otherwise the list.   *)
Redeclares(t, list) ==
    IF hubConnected
    THEN GoesOn(t, {Declaring(t.from, list)}) /\ quiet' = {}
    ELSE GoesOn(t, {}) /\ UNCHANGED quiet

----------------------------------------------------------------------------
(* The process, and connectToHub(). *)

(* startup() hashes the seed's passwords while the first dial is under way. *)
Serve ==
    /\ ~webUp /\ webUp' = TRUE
    /\ link' = "connecting"
    /\ tasks' = {Begun("startup", {})}
    /\ UNCHANGED <<plan, milli, hubConnected, redial, registry, wire, atHub, posts, redeclaredAt>>

(* seedLocalUsers() ends by approving every row of local_users, and        *)
(* startup() by declaring the approved.                                    *)
Seeds(t) ==
    /\ t \in tasks /\ t.from = "startup" /\ t.stage = "begun"
    /\ approved' = approved \union locals
    /\ Redeclares(t, approved \union locals)
    /\ UNCHANGED <<plan, webUp, milli, link, hubConnected, redial, locals, disabled, people, wire, atHub, posts, redeclaredAt>>

(* The routes are served once startup() has returned.                      *)
Serving == webUp /\ \A t \in tasks : t.from # "startup"

(* Rows that await their answer keep the status they were written with.    *)
Dies ==
    /\ webUp' = FALSE
    /\ hubConnected' = FALSE /\ redial' = FALSE
    /\ tasks' = {} /\ waiting' = {}
    /\ LosesLink("down")
    /\ UNCHANGED <<plan, milli, registry, reqId, redeclaredAt, gaveUp>>

DiesWaiting == Dies /\ orphaned' = orphaned \union waiting /\ UNCHANGED row

WebCrash == "kill" \in WebFaults /\ webUp /\ DiesWaiting

Dials ==
    /\ redial /\ redial' = FALSE
    /\ link' = "connecting"
    /\ UNCHANGED <<plan, webUp, milli, hubConnected, registry, tasks, wire, atHub, posts, redeclaredAt>>

(* onopen: provisionSelf() first. *)
OnOpen ==
    /\ link = "connecting" /\ link' = "open" /\ MayBegin
    /\ hubConnected' = TRUE
    /\ tasks' = tasks \union {Begun("open", {})}
    /\ UNCHANGED <<plan, webUp, milli, redial, registry, wire, atHub, posts, redeclaredAt>>

(* The hub closes the socket, or it goes dead; onclose comes later.        *)
LinkCut ==
    /\ "cut" \in WebFaults
    /\ link \in {"connecting", "open"}
    /\ LosesLink("gone")
    /\ UNCHANGED <<plan, webUp, milli, hubConnected, redial, registry, tasks, posts, redeclaredAt>>

OnClose ==
    /\ link = "gone" /\ link' = "down"
    /\ hubConnected' = FALSE /\ redial' = TRUE
    /\ gaveUp' = gaveUp \union waiting
    /\ UNCHANGED <<plan, webUp, milli, registry, tasks, wire, atHub, row, waiting, reqId, orphaned, redeclaredAt>>

----------------------------------------------------------------------------
(* The routes that decide who is approved.  A login is GitHub's or that of *)
(* a local account.                                                        *)

(* upsertApprovedWebUser(), then the first await: provisionHuman().        *)
Approve(p) ==
    /\ Serving /\ p \in plan.github \ approved /\ MayBegin
    /\ approved' = approved \union {p}
    /\ tasks' = tasks \union {Begun("approval", {p})}
    /\ UNCHANGED <<plan, webUp, milli, link, hubConnected, redial, locals, disabled, quiet, people, wire, atHub, posts, redeclaredAt>>

(* admitLocalUser(): approved, and declared by whoever declares next.      *)
CreateUser(p) ==
    /\ Serving /\ p \in plan.local \ locals
    /\ locals' = locals \union {p}
    /\ approved' = approved \union {p} /\ quiet' = quiet \union {p}
    /\ UNCHANGED <<plan, webUp, milli, link, hubConnected, redial, disabled, people, tasks, wire, atHub, posts, redeclaredAt>>

(* setLocalUserDisabled(): the hub is told neither of this ...             *)
Deactivate(p) ==
    /\ Serving /\ p \in locals
    /\ disabled' = disabled \union {p} /\ approved' = approved \ {p}
    /\ UNCHANGED <<plan, webUp, milli, link, hubConnected, redial, locals, quiet, people, tasks, wire, atHub, posts, redeclaredAt>>

(* ... nor of that.                                                        *)
Reactivate(p) ==
    /\ Serving /\ p \in locals
    /\ disabled' = disabled \ {p}
    /\ approved' = approved \union {p} /\ quiet' = quiet \union ({p} \ approved)
    /\ UNCHANGED <<plan, webUp, milli, link, hubConnected, redial, locals, people, tasks, wire, atHub, posts, redeclaredAt>>

----------------------------------------------------------------------------
(* Declaring the approved. *)

(* The hub answers one POST of a person, or does not. *)
Provisions(p) == people' \in {people \union {p}} \union (IF "refuse" \in WebFaults THEN {people} ELSE {})

ProvisionedSelf(t) ==
    /\ t \in tasks /\ t.from = "open" /\ t.stage = "begun"
    /\ GoesOn(t, {Declaring("open", approved)}) /\ quiet' = {}
    /\ UNCHANGED <<plan, webUp, milli, link, hubConnected, redial, approved, locals, disabled, people, wire, atHub, posts, redeclaredAt>>

ProvisionedApproved(t) ==
    /\ t \in tasks /\ t.from = "approval" /\ t.stage = "begun"
    /\ \E p \in t.left : Provisions(p)
    /\ Redeclares(t, approved)
    /\ UNCHANGED <<plan, webUp, milli, link, hubConnected, redial, approved, locals, disabled, wire, atHub, posts, redeclaredAt>>

ProvisionsNext(t) ==
    /\ t \in tasks /\ t.stage = "people"
    /\ \E p \in t.left :
        /\ Provisions(p)
        /\ GoesOn(t, {[t EXCEPT !.left = @ \ {p}]})
    /\ UNCHANGED <<plan, webUp, milli, link, hubConnected, redial, approved, locals, disabled, quiet, wire, atHub, posts, redeclaredAt>>

(* mesh.connect, on the socket hubWs names by now. *)
DeclaresOn(t) ==
    LET id == IF t.from = "open" THEN OpenId ELSE milli IN
    /\ t \in tasks /\ t.stage = "people" /\ t.left = {}
    /\ link # "connecting" /\ Len(toHub) < MaxFrames
    /\ GoesOn(t, {})
    /\ Write(Declare(id, t.list))
    /\ redeclaredAt' = redeclaredAt \union ({id} \ {OpenId})
    /\ UNCHANGED <<plan, webUp, milli, link, hubConnected, redial, registry, fromHub, atHub, posts>>

(* send() throws on a socket that still connects.  redeclareProxiesOrSay   *)
(* catches it; in onopen nobody does, and whether the process outlives an  *)
(* unhandled rejection is left open.                                       *)
DeclareThrows(t) ==
    /\ t \in tasks /\ t.stage = "people" /\ t.left = {}
    /\ link = "connecting"
    /\ \/ GoesOn(t, {})
          /\ UNCHANGED <<plan, webUp, milli, link, hubConnected, redial, registry, wire, atHub, posts, redeclaredAt>>
       \/ t.from = "open" /\ DiesWaiting

----------------------------------------------------------------------------
(* Posting a message. *)

SaysFailed(m) ==
    /\ row' = [row EXCEPT ![m] = "failed"]
    /\ UNCHANGED <<waiting, reqId, toHub>>

MayPost(m) == Serving /\ m \in plan.posts /\ row[m] = "none" /\ Author[m] \in approved \ disabled

(* insertMessage() and sendViaHub(): without a link it fails at once, and  *)
(* nothing but the end of the process comes between the two.               *)
Post(m) ==
    /\ MayPost(m)
    /\ IF hubConnected
       THEN /\ Len(toHub) < MaxFrames
            /\ row' = [row EXCEPT ![m] = "pending"]
            /\ waiting' = waiting \union {m}
            /\ reqId' = [reqId EXCEPT ![m] = milli]
            /\ Write(Send(milli, m))
       ELSE SaysFailed(m)
    /\ UNCHANGED <<plan, webUp, milli, link, hubConnected, redial, registry, tasks, fromHub, atHub, redeclaredAt, gaveUp, orphaned>>

(* The server dies when insertMessage() has committed the row as pending,  *)
(* before anything is sent or the row is corrected.                        *)
PostCut(m) ==
    /\ "kill" \in WebFaults /\ MayPost(m)
    /\ Dies
    /\ row' = [row EXCEPT ![m] = "pending"]
    /\ orphaned' = orphaned \union waiting \union {m}

(* Mutant: a handler takes the first answer it sees. *)
HearsAny(m, a) == m \in waiting \ gaveUp /\ a.id \in Nat

(* A handler hears an answer to the id it sent, whichever request it was   *)
(* given to; one on a socket that is closed hears nothing.                 *)
Hears(m, a) == m \in waiting \ gaveUp /\ reqId[m] = a.id

(* The handlers of an answer; null, or an answer without a message, is a   *)
(* failure, which is written to the row.                                   *)
Answered ==
    /\ link = "open" /\ fromHub # <<>>
    /\ fromHub' = Tail(fromHub)
    /\ LET a == Head(fromHub)
           heard == {m \in Posts : Hears(m, a)}
       IN /\ waiting' = waiting \ heard
          /\ row' = [m \in Posts |-> IF m \in heard /\ ~a.taken THEN "failed" ELSE row[m]]
    /\ UNCHANGED <<plan, webUp, milli, link, hubConnected, redial, registry, tasks, toHub, atHub, reqId, redeclaredAt, gaveUp, orphaned>>

(* Five seconds passed. *)
GivesUp(m) ==
    /\ m \in waiting
    /\ link = "open" => "slow" \in WebFaults
    /\ waiting' = waiting \ {m}
    /\ row' = [row EXCEPT ![m] = "failed"]
    /\ gaveUp' = gaveUp \union {m}
    /\ UNCHANGED <<plan, webUp, milli, link, hubConnected, redial, registry, tasks, wire, atHub, reqId, redeclaredAt, orphaned>>

----------------------------------------------------------------------------
(* The hub's turn, frame by frame. *)

NextFrame == Head(toHub)
Answer(f, taken) == fromHub' = Append(fromHub, [id |-> f.id, taken |-> taken])

(* Mutant: the last mesh.connect says it all. *)
HubDeclaresAnew ==
    /\ link = "open" /\ toHub # <<>> /\ Len(fromHub) < MaxFrames
    /\ IsDeclare(NextFrame)
    /\ toHub' = Tail(toHub)
    /\ known' = TRUE
    /\ declared' = NextFrame.list \intersect people
    /\ Answer(NextFrame, FALSE)
    /\ UNCHANGED <<plan, webUp, milli, link, hubConnected, redial, registry, tasks, accepted, posts, redeclaredAt>>

(* performConnect(): whom it may not speak for is left out, whom it spoke  *)
(* for already stays.                                                      *)
HubDeclares ==
    /\ link = "open" /\ toHub # <<>> /\ Len(fromHub) < MaxFrames
    /\ IsDeclare(NextFrame)
    /\ toHub' = Tail(toHub)
    /\ known' = TRUE
    /\ declared' = declared \union (NextFrame.list \intersect people)
    /\ Answer(NextFrame, FALSE)
    /\ UNCHANGED <<plan, webUp, milli, link, hubConnected, redial, registry, tasks, accepted, posts, redeclaredAt>>

(* The identity is not registered, or an older socket still owns it: the   *)
(* hub closes this one.                                                    *)
HubRejects ==
    /\ "refuse" \in WebFaults
    /\ link = "open" /\ toHub # <<>> /\ IsDeclare(NextFrame) /\ ~known
    /\ LosesLink("gone")
    /\ UNCHANGED <<plan, webUp, milli, hubConnected, redial, registry, tasks, posts, redeclaredAt>>

MayTake(f) == known /\ Author[f.post] \in declared

HubTakes ==
    /\ link = "open" /\ toHub # <<>> /\ Len(fromHub) < MaxFrames
    /\ ~IsDeclare(NextFrame) /\ MayTake(NextFrame)
    /\ toHub' = Tail(toHub)
    /\ accepted' = accepted \union {NextFrame.post}
    /\ Answer(NextFrame, TRUE)
    /\ UNCHANGED <<plan, webUp, milli, link, hubConnected, redial, registry, tasks, known, declared, posts, redeclaredAt>>

HubRefusesSend ==
    /\ link = "open" /\ toHub # <<>> /\ Len(fromHub) < MaxFrames
    /\ ~IsDeclare(NextFrame) /\ (MayTake(NextFrame) => "refuse" \in WebFaults)
    /\ toHub' = Tail(toHub)
    /\ Answer(NextFrame, FALSE)
    /\ UNCHANGED <<plan, webUp, milli, link, hubConnected, redial, registry, tasks, atHub, posts, redeclaredAt>>

----------------------------------------------------------------------------
WebNext ==
    \/ Millisecond \/ Serve \/ WebCrash \/ Dials \/ OnOpen \/ LinkCut \/ OnClose
    \/ \E p \in People : Approve(p) \/ CreateUser(p) \/ Deactivate(p) \/ Reactivate(p)
    \/ \E t \in tasks :
        \/ Seeds(t) \/ ProvisionedSelf(t) \/ ProvisionedApproved(t) \/ ProvisionsNext(t)
        \/ DeclaresOn(t) \/ DeclareThrows(t)
    \/ \E m \in Posts : Post(m) \/ PostCut(m) \/ GivesUp(m)
    \/ Answered
    \/ HubDeclares \/ HubRejects \/ HubTakes \/ HubRefusesSend

WebSpec == WebInit /\ [][WebNext]_webVars

----------------------------------------------------------------------------
(* Properties. *)

RequestIds == 1..MaxMilli
Frames == [id : RequestIds, post : Posts \union {NoPost}, list : SUBSET People]
Replies == [id : RequestIds, taken : BOOLEAN]
Tasks ==
    [from : {"open", "startup", "approval"}, stage : {"begun", "people"},
     list : SUBSET People, left : SUBSET People]

WebTypeOK ==
    /\ plan \in Plans
    /\ webUp \in BOOLEAN /\ milli \in RequestIds
    /\ link \in {"down", "connecting", "open", "gone"}
    /\ hubConnected \in BOOLEAN /\ redial \in BOOLEAN
    /\ approved \subseteq People /\ locals \subseteq People /\ disabled \subseteq People
    /\ quiet \subseteq People /\ people \subseteq People
    /\ tasks \subseteq Tasks
    /\ toHub \in Seq(Frames) /\ fromHub \in Seq(Replies)
    /\ known \in BOOLEAN /\ declared \subseteq People /\ accepted \subseteq Posts
    /\ row \in [Posts -> {"none", "pending", "failed"}]
    /\ waiting \subseteq Posts /\ gaveUp \subseteq Posts /\ orphaned \subseteq Posts
    /\ reqId \in [Posts -> 0..MaxMilli]
    /\ redeclaredAt \subseteq RequestIds

(* Nobody is about to declare anything. *)
Settled ==
    /\ link = "open" /\ known /\ tasks = {}
    /\ \A k \in 1..Len(toHub) : ~IsDeclare(toHub[k])

(* Once what was begun has ended, the hub lets this server speak for every *)
(* approved person it knows, whichever of an approval, a restart, a        *)
(* reconnect and the awaits of each came first ("re-declaring is the whole *)
(* fix", main.ts redeclareProxies; the list of onopen is older than the    *)
(* one of an approval that overtakes it).  Left out are those the routes   *)
(* of local accounts approved since the last list was read: they declare   *)
(* nobody, and the person waits for the next approval, reconnect or        *)
(* restart.                                                                *)
ApprovedIsDeclared == Settled => (approved \intersect people) \ quiet \subseteq declared

(* Deactivating an account withdraws its approval, and the approval stays  *)
(* withdrawn until the account is reactivated (SPEC 9.2c "Its registry     *)
(* approval is withdrawn", "the mesh identity is the half that comes       *)
(* back"; db.ts setLocalUserDisabled "Both halves, or the account is only  *)
(* half gone").  It does not: the next start approves every local account. *)
DeactivatedIsWithdrawn == approved \intersect disabled = {}

(* Another request went out under the id of this one.                      *)
Shared(m) ==
    \/ reqId[m] \in redeclaredAt
    \/ \E n \in Posts \ {m} : reqId[n] = reqId[m]

(* A row lies in one way for each status: a pending one that nobody waits  *)
(* for, of a message the hub does not have, is a handler that died; a      *)
(* failed one of a message the hub accepted is an answer that came too     *)
(* late to be heard (main.ts sendViaHub, and the write-back of "failed"    *)
(* that keeps a row from staying pending for ever).  Requests that share   *)
(* an id may hear the answer of the other.                                 *)
RowTellsOutcome ==
    \A m \in Posts :
        reqId[m] = 0 \/ ~Shared(m)
        => /\ row[m] = "pending" /\ m \notin waiting \union orphaned => m \in accepted
           /\ row[m] = "failed" /\ m \notin gaveUp => m \notin accepted
=============================================================================
