---------------------------- MODULE WebLink_proofs ---------------------------
(***************************************************************************)
(* What holds of the http server's link for any people, posts, plans and   *)
(* bounds.  Linked is inductive; on it rest Covered, that somebody is      *)
(* about to declare every approved person who is not declared, and         *)
(* Accounted, that a request with an id of its own is on its way to the    *)
(* hub or has been answered for what the hub did with it.                  *)
(***************************************************************************)
EXTENDS WebLink, SequenceTheorems, TLAPS

Linked ==
    /\ WebTypeOK
    /\ milli > OpenId
    /\ link = "open" => hubConnected
    /\ known => link = "open"
    /\ redial => link = "down"
    /\ ~webUp => link = "down" /\ ~redial

(* A task ends in a declaration of a person. *)
Lists(t, p) ==
    \/ t.from = "open" /\ t.stage = "begun"
    \/ t.from = "approval" /\ t.stage = "begun" /\ p \in t.left
    \/ t.stage = "people" /\ p \in t.list

Announced(p) == \E k \in 1..Len(toHub) : IsDeclare(toHub[k]) /\ p \in toHub[k].list

IsDeclared(p) == p \in declared \/ (\E t \in tasks : Lists(t, p)) \/ Announced(p)

Covered == link = "open" => \A p \in (approved \intersect people) \ quiet : IsDeclared(p)

(* What an await may still provision is on the list that follows it. *)
LeftIsListed == \A t \in tasks : t.stage = "people" => t.left \subseteq t.list

(* A frame is a declaration, under its own id, or the only send of a post. *)
Sent(m) == \E k \in 1..Len(toHub) : toHub[k].post = m

FramesAreSent ==
    \A k \in 1..Len(toHub) :
        IF IsDeclare(toHub[k])
        THEN toHub[k].id \in redeclaredAt \union {OpenId}
        ELSE /\ toHub[k].id = reqId[toHub[k].post]
             /\ toHub[k].post \notin accepted
             /\ \A j \in 1..Len(toHub) : toHub[j].post = toHub[k].post => j = k

(* An answer is to a request that was sent.  One that a post shares with   *)
(* no other request says what the hub did with it.                         *)
Settles(m, taken) == (taken <=> m \in accepted) /\ ~Sent(m)

AnswersSettle ==
    \A k \in 1..Len(fromHub) :
        /\ fromHub[k].id \in redeclaredAt \union {OpenId} \union {reqId[n] : n \in Posts}
        /\ \A m \in Posts : reqId[m] = fromHub[k].id /\ ~Shared(m) => Settles(m, fromHub[k].taken)

RowsFollow ==
    \A m \in Posts :
        /\ reqId[m] # 0 => reqId[m] > OpenId
        /\ row[m] = "none" => reqId[m] = 0
        /\ reqId[m] = 0 => m \notin accepted /\ (row[m] = "pending" => m \in orphaned)
        /\ m \in waiting => reqId[m] # 0 /\ row[m] = "pending"
        /\ m \in orphaned => m \notin waiting /\ row[m] = "pending"
        /\ m \in gaveUp \ (waiting \union orphaned) => row[m] = "failed"
        /\ m \notin waiting \union gaveUp \union orphaned /\ reqId[m] # 0 /\ ~Shared(m)
           => Settles(m, row[m] = "pending")

Accounted == FramesAreSent /\ AnswersSettle /\ RowsFollow
----------------------------------------------------------------------------
(* Sequences. *)
LEMMA Appending ==
    ASSUME NEW S, NEW s \in Seq(S), NEW e \in S
    PROVE  /\ Append(s, e) \in Seq(S) /\ Len(Append(s, e)) = Len(s) + 1 /\ Len(s) \in Nat
           /\ \A k \in 1..Len(s) : Append(s, e)[k] = s[k]
           /\ Append(s, e)[Len(s) + 1] = e
BY AppendProperties, LenProperties

LEMMA Dropping ==
    ASSUME NEW S, NEW s \in Seq(S), s # <<>>
    PROVE  /\ Head(s) \in S /\ Head(s) = s[1] /\ 1 \in 1..Len(s) /\ Len(s) \in Nat
           /\ Tail(s) \in Seq(S) /\ Len(Tail(s)) = Len(s) - 1
           /\ \A k \in 1..Len(s) - 1 : Tail(s)[k] = s[k + 1]
BY HeadTailProperties, LenProperties, EmptySeq, ElementOfSeq

----------------------------------------------------------------------------
LEMMA LinkedInit == WebInit => Linked
<1> SUFFICES ASSUME WebInit PROVE Linked
  OBVIOUS
<1>1. milli \in RequestIds /\ milli > OpenId
  BY MilliAssumption DEF WebInit, RequestIds, OpenId
<1>2. reqId \in [Posts -> 0..MaxMilli] /\ row \in [Posts -> {"none", "pending", "failed"}]
  BY MilliAssumption DEF WebInit
<1>3. toHub \in Seq(Frames) /\ fromHub \in Seq(Replies)
  BY EmptySeq DEF WebInit
<1>4. {webUp, hubConnected, redial, known} \subseteq BOOLEAN
  BY DEF WebInit
<1>5. WebTypeOK
  BY <1>1, <1>2, <1>3, <1>4 DEF WebInit, WebTypeOK
<1> QED
  BY <1>1, <1>5 DEF WebInit, Linked

(* The link is lost. *)
LEMMA LinkedLoses ==
    ASSUME Linked, NEW state \in {"down", "gone"}, LosesLink(state),
           webUp' \in BOOLEAN, hubConnected' \in BOOLEAN, redial' \in BOOLEAN,
           redial' => state = "down", ~webUp' => state = "down" /\ ~redial',
           tasks' \subseteq tasks, waiting' \subseteq waiting, gaveUp' \subseteq gaveUp \union waiting,
           orphaned' \subseteq Posts, row' \in [Posts -> {"none", "pending", "failed"}],
           UNCHANGED <<plan, milli, registry, reqId, redeclaredAt>>
    PROVE  Linked'
<1>1. toHub' \in Seq(Frames) /\ fromHub' \in Seq(Replies)
  BY EmptySeq DEF LosesLink
<1>2. link' = state /\ known' = FALSE /\ declared' = {} /\ accepted' = accepted
  BY DEF LosesLink
<1> QED
  BY <1>1, <1>2 DEF Linked, WebTypeOK, registry

(* The server dies. *)
LEMMA LinkedDies ==
    ASSUME Linked, Dies, orphaned' \subseteq Posts, row' \in [Posts -> {"none", "pending", "failed"}]
    PROVE  Linked'
BY LinkedLoses DEF Dies

LEMMA LinkedDiesWaiting ==
    ASSUME Linked, DiesWaiting
    PROVE  Linked'
BY LinkedDies DEF DiesWaiting, Linked, WebTypeOK

LEMMA LinkedGoesOn ==
    ASSUME Linked, UNCHANGED <<plan, webUp, hubConnected, redial, milli, link, locals, disabled, known, declared,
                               accepted, row, waiting, reqId, gaveUp, orphaned, fromHub>>,
           tasks' \subseteq Tasks, people' \subseteq People, redeclaredAt' \subseteq RequestIds,
           approved' \subseteq People, quiet' \subseteq People,
           toHub' \in Seq(Frames)
    PROVE  Linked'
BY DEF Linked, WebTypeOK

(* The tasks that follow an await. *)
LEMMA NextTasks ==
    ASSUME WebTypeOK
    PROVE  /\ \A t \in Tasks, list \in SUBSET People : Declaring(t.from, list) \in Tasks
           /\ \A list \in SUBSET People : Declaring("open", list) \in Tasks
           /\ Begun("open", {}) \in Tasks /\ Begun("startup", {}) \in Tasks
           /\ \A p \in People : Begun("approval", {p}) \in Tasks
           /\ \A t \in Tasks, p \in People : [t EXCEPT !.left = @ \ {p}] \in Tasks
BY DEF WebTypeOK, Declaring, Begun, Tasks

(* Whoever declares the approved puts them all on its list. *)
LEMMA Redeclaring ==
    ASSUME WebTypeOK, NEW t \in tasks, NEW list \in SUBSET People, Redeclares(t, list)
    PROVE  tasks' \subseteq Tasks /\ quiet' \subseteq People
<1>1. t \in Tasks /\ tasks \subseteq Tasks /\ quiet \subseteq People
  BY DEF WebTypeOK
<1> QED
  BY <1>1, NextTasks DEF Redeclares, GoesOn

LEMMA LinkedTasks ==
    ASSUME Linked, NEW t \in tasks,
           Seeds(t) \/ ProvisionedSelf(t) \/ ProvisionedApproved(t) \/ ProvisionsNext(t) \/ DeclaresOn(t) \/ DeclareThrows(t)
    PROVE  Linked'
<1>1. WebTypeOK /\ t \in Tasks /\ tasks \subseteq Tasks
  BY DEF Linked, WebTypeOK
<1>2. t.left \subseteq People /\ t.list \subseteq People
  BY <1>1 DEF Tasks
<1>3. /\ toHub \in Seq(Frames) /\ redeclaredAt \subseteq RequestIds /\ people \subseteq People
      /\ approved \subseteq People /\ locals \subseteq People /\ quiet \subseteq People
  BY <1>1 DEF WebTypeOK
<1>4. CASE ProvisionedSelf(t)
  <2>1. tasks' \subseteq Tasks
    BY <1>1, <1>3, <1>4, NextTasks DEF ProvisionedSelf, GoesOn
  <2> QED
    BY <1>3, <1>4, <2>1, LinkedGoesOn DEF ProvisionedSelf, wire, atHub, posts
<1>5. CASE ProvisionedApproved(t)
  <2>1. tasks' \subseteq Tasks /\ quiet' \subseteq People
    BY <1>1, <1>3, <1>5, Redeclaring DEF ProvisionedApproved
  <2>2. people' \subseteq People
    BY <1>2, <1>3, <1>5 DEF ProvisionedApproved, Provisions
  <2> QED
    BY <1>3, <1>5, <2>1, <2>2, LinkedGoesOn DEF ProvisionedApproved, wire, atHub, posts
<1>9. CASE Seeds(t)
  <2>1. tasks' \subseteq Tasks /\ quiet' \subseteq People
    BY <1>1, <1>3, <1>9, Redeclaring DEF Seeds
  <2> QED
    BY <1>3, <1>9, <2>1, LinkedGoesOn DEF Seeds, wire, atHub, posts
<1>6. CASE ProvisionsNext(t)
  <2>1. PICK p \in t.left : Provisions(p) /\ GoesOn(t, {[t EXCEPT !.left = @ \ {p}]})
    BY <1>6 DEF ProvisionsNext
  <2>2. tasks' \subseteq Tasks
    BY <1>1, <1>2, <2>1, NextTasks DEF GoesOn
  <2>3. people' \subseteq People
    BY <1>2, <1>3, <2>1 DEF Provisions
  <2> QED
    BY <1>3, <1>6, <2>2, <2>3, LinkedGoesOn DEF ProvisionsNext, wire, atHub, posts
<1>7. CASE DeclaresOn(t)
  <2> DEFINE id == IF t.from = "open" THEN OpenId ELSE milli
  <2>1. id \in RequestIds
    BY <1>1, MilliAssumption DEF WebTypeOK, RequestIds, OpenId
  <2>2. tasks' \subseteq Tasks /\ redeclaredAt' \subseteq RequestIds /\ Write(Declare(id, t.list))
    BY <1>1, <1>3, <1>7, <2>1 DEF DeclaresOn, GoesOn
  <2>3. Declare(id, t.list) \in Frames
    BY <1>2, <2>1 DEF Declare, Frames
  <2>4. toHub' \in Seq(Frames)
    BY <1>3, <2>2, <2>3, Appending DEF Write
  <2> QED
    BY <1>3, <1>7, <2>2, <2>4, LinkedGoesOn DEF DeclaresOn, registry, atHub, posts
<1>8. CASE DeclareThrows(t)
  <2>1. CASE DiesWaiting
    BY <2>1, LinkedDiesWaiting
  <2>2. CASE ~DiesWaiting
    <3>1. tasks' \subseteq Tasks
      BY <1>1, <1>8, <2>2 DEF DeclareThrows, GoesOn
    <3> QED
      BY <1>3, <1>8, <2>2, <3>1, LinkedGoesOn DEF DeclareThrows, registry, wire, atHub, posts
  <2> QED
    BY <2>1, <2>2
<1> QED
  BY <1>4, <1>5, <1>6, <1>7, <1>8, <1>9

LEMMA LinkedServer ==
    ASSUME Linked,
           \/ Millisecond \/ Serve \/ WebCrash \/ Dials \/ OnOpen \/ LinkCut \/ OnClose
           \/ \E p \in People : Approve(p) \/ CreateUser(p) \/ Deactivate(p) \/ Reactivate(p)
    PROVE  Linked'
<1>1. WebTypeOK /\ tasks \subseteq Tasks
  BY DEF Linked, WebTypeOK
<1>2. CASE Millisecond
  <2>1. milli' \in RequestIds /\ milli' > OpenId
    BY <1>1, <1>2, MilliAssumption DEF Millisecond, Linked, WebTypeOK, RequestIds, OpenId
  <2> QED
    BY <1>2, <2>1 DEF Millisecond, Linked, WebTypeOK, registry, wire, atHub, posts
<1>3. CASE Serve
  <2>1. webUp' = TRUE /\ link' = "connecting" /\ known = FALSE /\ tasks' \subseteq Tasks
    BY <1>1, <1>3, NextTasks DEF Serve, Linked, WebTypeOK
  <2> QED
    BY <1>3, <2>1 DEF Serve, Linked, WebTypeOK, registry, wire, atHub, posts
<1>4. CASE WebCrash
  BY <1>4, LinkedDiesWaiting DEF WebCrash
<1>5. CASE Dials
  <2>1. redial' = FALSE /\ link' = "connecting" /\ ~known /\ webUp
    BY <1>5 DEF Dials, Linked
  <2> QED
    BY <1>5, <2>1 DEF Dials, Linked, WebTypeOK, registry, wire, atHub, posts
<1>6. CASE OnOpen
  <2>1. tasks' \subseteq Tasks
    BY <1>1, <1>6, NextTasks DEF OnOpen
  <2> QED
    BY <1>6, <2>1 DEF OnOpen, Linked, WebTypeOK, registry, wire, atHub, posts
<1>7. CASE LinkCut
  BY <1>7, <1>1, LinkedLoses DEF LinkCut, posts, Linked, WebTypeOK
<1>8. CASE OnClose
  BY <1>8 DEF OnClose, Linked, WebTypeOK, registry, wire, atHub, posts
<1>9. ASSUME NEW p \in People, Approve(p) PROVE Linked'
  <2>1. tasks' \subseteq Tasks
    BY <1>1, <1>9, NextTasks DEF Approve
  <2> QED
    BY <1>9, <2>1 DEF Approve, Linked, WebTypeOK, wire, atHub, posts
<1>10. ASSUME NEW p \in People, CreateUser(p) \/ Deactivate(p) \/ Reactivate(p) PROVE Linked'
  BY <1>10 DEF CreateUser, Deactivate, Reactivate, Linked, WebTypeOK, wire, atHub, posts
<1> QED
  BY <1>2, <1>3, <1>4, <1>5, <1>6, <1>7, <1>8, <1>9, <1>10

LEMMA LinkedPosts ==
    ASSUME Linked, (\E m \in Posts : Post(m) \/ PostCut(m) \/ GivesUp(m)) \/ Answered
    PROVE  Linked'
<1>1. WebTypeOK
  BY DEF Linked
<1>2. ASSUME NEW m \in Posts, Post(m) PROVE Linked'
  <2>1. CASE hubConnected
    <3>1. Send(milli, m) \in Frames
      BY <1>1 DEF Send, Frames, WebTypeOK
    <3>2. toHub' \in Seq(Frames)
      <4>1. toHub \in Seq(Frames) /\ Append(toHub, Send(milli, m)) \in Seq(Frames)
        BY <1>1, <3>1, AppendProperties DEF WebTypeOK
      <4> QED
        BY <1>2, <2>1, <4>1 DEF Post, Write
    <3>3. reqId' \in [Posts -> 0..MaxMilli]
      BY <1>1, <1>2, <2>1, MilliAssumption DEF Post, WebTypeOK, RequestIds
    <3> QED
      BY <1>2, <2>1, <3>2, <3>3 DEF Post, Linked, WebTypeOK, registry, atHub
  <2>2. CASE ~hubConnected
    BY <1>2, <2>2 DEF Post, SaysFailed, Linked, WebTypeOK, registry, atHub
  <2> QED
    BY <2>1, <2>2
<1>5. ASSUME NEW m \in Posts, PostCut(m) PROVE Linked'
  BY <1>1, <1>5, LinkedDies DEF PostCut, WebTypeOK
<1>3. ASSUME NEW m \in Posts, GivesUp(m) PROVE Linked'
  BY <1>3 DEF GivesUp, Linked, WebTypeOK, registry, wire, atHub
<1>4. CASE Answered
  <2>1. fromHub' \in Seq(Replies)
    BY <1>1, <1>4, Dropping DEF Answered, WebTypeOK
  <2>2. row' \in [Posts -> {"none", "pending", "failed"}] /\ waiting' \subseteq waiting
    BY <1>1, <1>4 DEF Answered, WebTypeOK
  <2> QED
    BY <1>4, <2>1, <2>2 DEF Answered, Linked, WebTypeOK, registry, atHub
<1> QED
  BY <1>2, <1>3, <1>4, <1>5

LEMMA LinkedHub ==
    ASSUME Linked, HubDeclares \/ HubRejects \/ HubTakes \/ HubRefusesSend
    PROVE  Linked'
<1>1. WebTypeOK
  BY DEF Linked
<1>2. CASE HubRejects
  BY <1>1, <1>2, LinkedLoses DEF HubRejects, posts, Linked, WebTypeOK
<1>3. ASSUME HubDeclares \/ HubTakes \/ HubRefusesSend PROVE Linked'
  <2>1. toHub # <<>> /\ NextFrame \in Frames /\ toHub' = Tail(toHub) /\ toHub' \in Seq(Frames)
    BY <1>1, <1>3, Dropping DEF HubDeclares, HubTakes, HubRefusesSend, NextFrame, WebTypeOK
  <2>2. \A taken \in BOOLEAN : [id |-> NextFrame.id, taken |-> taken] \in Replies
    BY <2>1 DEF Frames, Replies
  <2>3. fromHub' \in Seq(Replies)
    <3>1. PICK taken \in BOOLEAN : fromHub' = Append(fromHub, [id |-> NextFrame.id, taken |-> taken])
      BY <1>3 DEF HubDeclares, HubTakes, HubRefusesSend, Answer
    <3> QED
      BY <1>1, <2>2, <3>1, AppendProperties DEF WebTypeOK
  <2>4. declared' \subseteq People /\ known' \in BOOLEAN /\ (known' => link = "open")
    BY <1>1, <1>3 DEF HubDeclares, HubTakes, HubRefusesSend, atHub, Linked, WebTypeOK
  <2>5. accepted' \subseteq Posts
    BY <1>1, <1>3, <2>1 DEF HubDeclares, HubTakes, HubRefusesSend, atHub, IsDeclare, Frames, WebTypeOK
  <2>6. UNCHANGED <<plan, webUp, milli, link, hubConnected, redial, registry, tasks, posts, redeclaredAt>>
    BY <1>3 DEF HubDeclares, HubTakes, HubRefusesSend
  <2> QED
    BY <2>1, <2>3, <2>4, <2>5, <2>6 DEF Linked, WebTypeOK, registry, posts
<1> QED
  BY <1>2, <1>3

LEMMA LinkedStep == Linked /\ [WebNext]_webVars => Linked'
<1>1. ASSUME Linked, UNCHANGED webVars PROVE Linked'
  BY <1>1 DEF webVars, registry, wire, atHub, posts, Linked, WebTypeOK
<1> QED
  BY <1>1, LinkedTasks, LinkedServer, LinkedPosts, LinkedHub DEF WebNext

LEMMA LinkedAlways == WebSpec => []Linked
BY LinkedInit, LinkedStep, PTL DEF WebSpec

(* The http server's link keeps the types of its variables. *)
THEOREM WebTypes == WebSpec => []WebTypeOK
BY LinkedAlways, PTL DEF Linked
----------------------------------------------------------------------------
CoveredInv == Linked /\ LeftIsListed /\ Covered

LEMMA CoveredInit == WebInit => CoveredInv
BY LinkedInit DEF WebInit, CoveredInv, LeftIsListed, Covered

LEMMA AnnouncedAppends ==
    ASSUME Linked, NEW f \in Frames, toHub' = Append(toHub, f), NEW p, Announced(p) \/ (IsDeclare(f) /\ p \in f.list)
    PROVE  Announced(p)'
<1>1. /\ Len(toHub') = Len(toHub) + 1 /\ Len(toHub) \in Nat
      /\ \A k \in 1..Len(toHub) : toHub'[k] = toHub[k]
      /\ toHub'[Len(toHub) + 1] = f
  BY Appending DEF Linked, WebTypeOK
<1>2. CASE Announced(p)
  <2>1. PICK k \in 1..Len(toHub) : IsDeclare(toHub[k]) /\ p \in toHub[k].list
    BY <1>2 DEF Announced
  <2> QED
    BY <1>1, <2>1 DEF Announced, IsDeclare
<1>3. CASE IsDeclare(f) /\ p \in f.list
  <2>1. Len(toHub) + 1 \in 1..Len(toHub')
    BY <1>1
  <2> QED
    BY <1>1, <1>3, <2>1 DEF Announced, IsDeclare
<1> QED
  BY <1>2, <1>3

LEMMA AnnouncedDrops ==
    ASSUME Linked, toHub # <<>>, toHub' = Tail(toHub), NEW p, Announced(p),
           ~(IsDeclare(NextFrame) /\ p \in NextFrame.list)
    PROVE  Announced(p)'
<1>1. /\ NextFrame = toHub[1] /\ Len(toHub) \in Nat /\ Len(toHub') = Len(toHub) - 1
      /\ \A k \in 1..Len(toHub) - 1 : toHub'[k] = toHub[k + 1]
  BY Dropping DEF Linked, WebTypeOK, NextFrame
<1>2. PICK k \in 1..Len(toHub) : IsDeclare(toHub[k]) /\ p \in toHub[k].list
  BY DEF Announced
<1>3. k # 1
  BY <1>1, <1>2
<1>4. k - 1 \in 1..Len(toHub') /\ k - 1 + 1 = k /\ k - 1 \in 1..Len(toHub) - 1
  BY <1>1, <1>2, <1>3
<1> QED
  BY <1>1, <1>2, <1>4 DEF Announced, IsDeclare

(* A step that takes no task, no declaration and no frame away. *)
LEMMA CoveredStays ==
    ASSUME CoveredInv, Linked', link' = "open" => link = "open", declared \subseteq declared',
           UNCHANGED <<tasks, registry>>,
           \A p \in People : Announced(p) => Announced(p)' \/ p \in declared' \/ p \notin people
    PROVE  CoveredInv'
<1>1. LeftIsListed'
  BY DEF CoveredInv, LeftIsListed
<1>2. Covered'
  <2> SUFFICES ASSUME link = "open", NEW p \in (approved \intersect people) \ quiet PROVE IsDeclared(p)'
    BY DEF Covered, registry
  <2>1. IsDeclared(p) /\ p \in People
    BY DEF CoveredInv, Covered, Linked, WebTypeOK
  <2> QED
    BY <2>1 DEF IsDeclared, Lists
<1> QED
  BY <1>1, <1>2 DEF CoveredInv

(* The link is not open, so nobody needs to be declared. *)
LEMMA CoveredClosed ==
    ASSUME CoveredInv, Linked', link' # "open", \A t \in tasks' : t \in tasks \/ t.left \subseteq t.list \/ t.stage # "people"
    PROVE  CoveredInv'
BY DEF CoveredInv, LeftIsListed, Covered

LEMMA CoveredTasks ==
    ASSUME CoveredInv, Linked', NEW t \in tasks,
           Seeds(t) \/ ProvisionedSelf(t) \/ ProvisionedApproved(t) \/ ProvisionsNext(t) \/ DeclaresOn(t) \/ DeclareThrows(t)
    PROVE  CoveredInv'
<1>1. Linked /\ LeftIsListed /\ Covered /\ t \in Tasks /\ tasks \subseteq Tasks /\ WebTypeOK
  BY DEF CoveredInv, Linked, WebTypeOK
<1>2. ASSUME NEW next, GoesOn(t, {next}), next.stage = "people", next.left \subseteq next.list,
             declared' = declared, toHub' = toHub, link' = link,
             link = "open" => \A p \in (approved' \intersect people') \ quiet' :
                                 (p \in (approved \intersect people) \ quiet /\ ~Lists(t, p)) \/ p \in next.list
      PROVE  CoveredInv'
  <2>1. tasks' = (tasks \ {t}) \union {next}
    BY <1>2 DEF GoesOn
  <2>2. LeftIsListed'
    BY <1>1, <1>2, <2>1 DEF LeftIsListed
  <2>3. Covered'
    <3> SUFFICES ASSUME link = "open", NEW p \in (approved' \intersect people') \ quiet' PROVE IsDeclared(p)'
      BY <1>2 DEF Covered
    <3>1. CASE p \in next.list
      BY <1>2, <2>1, <3>1 DEF IsDeclared, Lists
    <3>2. CASE p \in (approved \intersect people) \ quiet /\ ~Lists(t, p)
      <4>1. IsDeclared(p)
        BY <1>1, <3>2 DEF Covered
      <4> QED
        BY <1>2, <2>1, <3>2, <4>1 DEF IsDeclared, Lists, Announced
    <3> QED
      BY <1>2, <3>1, <3>2
  <2> QED
    BY <2>2, <2>3 DEF CoveredInv
<1>3. ASSUME NEW from, NEW list
      PROVE  /\ Declaring(from, list).stage = "people" /\ Declaring(from, list).list = list
             /\ Declaring(from, list).left \subseteq Declaring(from, list).list
  BY DEF Declaring
<1>4. CASE ProvisionedSelf(t)
  <2>1. GoesOn(t, {Declaring("open", approved)}) /\ UNCHANGED <<approved, people, declared, toHub, link>>
    BY <1>4 DEF ProvisionedSelf, atHub, wire
  <2> QED
    BY <1>2, <1>3, <2>1
<1>10. ASSUME approved' \subseteq People, t.stage = "begun", Redeclares(t, approved'),
              UNCHANGED <<declared, toHub, link>>
       PROVE  CoveredInv'
  <2>1. CASE hubConnected
    <3>1. GoesOn(t, {Declaring(t.from, approved')})
      BY <1>10, <2>1 DEF Redeclares
    <3> DEFINE next == Declaring(t.from, approved')
    <3>2. next.stage = "people" /\ next.list = approved' /\ next.left \subseteq next.list
      BY <1>3
    <3> HIDE DEF next
    <3> QED
      BY <1>2, <1>10, <3>1, <3>2 DEF next
  <2>2. CASE ~hubConnected
    <3>1. link' # "open" /\ tasks' \subseteq tasks
      BY <1>1, <1>10, <2>2 DEF Redeclares, GoesOn, Linked
    <3> QED
      BY <3>1, CoveredClosed
  <2> QED
    BY <2>1, <2>2
<1>5. CASE ProvisionedApproved(t) \/ Seeds(t)
  <2>1. /\ t.stage = "begun" /\ Redeclares(t, approved') /\ approved' \subseteq People
        /\ UNCHANGED <<declared, toHub, link>>
    BY <1>1, <1>5 DEF ProvisionedApproved, Seeds, atHub, wire, WebTypeOK
  <2> QED
    BY <1>10, <2>1
<1>6. CASE ProvisionsNext(t)
  <2>1. PICK q \in t.left : Provisions(q) /\ GoesOn(t, {[t EXCEPT !.left = @ \ {q}]})
    BY <1>6 DEF ProvisionsNext
  <2>2. UNCHANGED <<approved, quiet, declared, toHub, link>> /\ t.stage = "people"
    BY <1>6 DEF ProvisionsNext, atHub, wire
  <2> DEFINE next == [t EXCEPT !.left = @ \ {q}]
  <2>3. next.stage = "people" /\ next.list = t.list /\ next.left \subseteq t.left /\ t.left \subseteq t.list
    BY <1>1, <2>2 DEF Tasks, LeftIsListed
  <2>4. \A p \in (approved \intersect people') \ quiet :
           (p \in (approved \intersect people) \ quiet /\ ~Lists(t, p)) \/ p \in next.list
    <3>1. \A p \in people' : p \in people \/ p = q
      BY <2>1 DEF Provisions
    <3> QED
      BY <2>2, <2>3, <3>1 DEF Lists
  <2> HIDE DEF next
  <2> QED
    BY <1>2, <2>1, <2>2, <2>3, <2>4 DEF next
<1>7. CASE DeclaresOn(t)
  <2> DEFINE id == IF t.from = "open" THEN OpenId ELSE milli
  <2>1. /\ GoesOn(t, {}) /\ Write(Declare(id, t.list)) /\ t.stage = "people"
        /\ UNCHANGED <<approved, quiet, people, declared, link>>
    BY <1>7 DEF DeclaresOn, registry, atHub
  <2>2. tasks' = tasks \ {t}
    BY <2>1 DEF GoesOn
  <2>3. CASE link = "open"
    <3>1. Declare(id, t.list) \in Frames /\ IsDeclare(Declare(id, t.list)) /\ Declare(id, t.list).list = t.list
      <4>1. id \in RequestIds /\ t.list \in SUBSET People
        BY <1>1, MilliAssumption DEF WebTypeOK, RequestIds, OpenId, Tasks
      <4> QED
        BY <4>1 DEF Declare, Frames, IsDeclare
    <3>2. \A p \in People : Announced(p) \/ p \in t.list => Announced(p)'
      BY <1>1, <2>1, <2>3, <3>1, AnnouncedAppends DEF Write
    <3>3. LeftIsListed'
      BY <1>1, <2>2 DEF LeftIsListed
    <3>4. Covered'
      <4> SUFFICES ASSUME NEW p \in (approved \intersect people) \ quiet PROVE IsDeclared(p)'
        BY <2>1 DEF Covered
      <4>1. IsDeclared(p) /\ p \in People
        BY <1>1, <2>3 DEF Covered, WebTypeOK
      <4>2. \A x \in tasks : Lists(x, p) => x \in tasks' \/ p \in t.list
        BY <2>1, <2>2 DEF Lists
      <4> QED
        BY <2>1, <3>2, <4>1, <4>2 DEF IsDeclared, Lists
    <3> QED
      BY <3>3, <3>4 DEF CoveredInv
  <2>4. CASE link # "open"
    BY <2>1, <2>2, <2>4, CoveredClosed
  <2> QED
    BY <2>3, <2>4
<1>8. CASE DeclareThrows(t)
  <2>1. link' # "open" /\ tasks' \subseteq tasks
    BY <1>8 DEF DeclareThrows, GoesOn, DiesWaiting, Dies, LosesLink
  <2> QED
    BY <2>1, CoveredClosed
<1> QED
  BY <1>4, <1>5, <1>6, <1>7, <1>8

LEMMA CoveredStep == CoveredInv /\ [WebNext]_webVars => CoveredInv'
<1> SUFFICES ASSUME CoveredInv, [WebNext]_webVars PROVE CoveredInv'
  OBVIOUS
<1>1. Linked /\ Linked'
  BY LinkedStep DEF CoveredInv
<1>2. CASE WebCrash \/ Dials \/ LinkCut \/ OnClose \/ HubRejects \/ (\E m \in Posts : PostCut(m))
  <2>1. link' # "open" /\ tasks' \subseteq tasks
    BY <1>2 DEF WebCrash, DiesWaiting, PostCut, Dies, Dials, LinkCut, OnClose, HubRejects, LosesLink
  <2> QED
    BY <1>1, <2>1, CoveredClosed
<1>8. CASE Serve
  <2>1. link' = "connecting" /\ \A t \in tasks' : t.stage = "begun"
    BY <1>8 DEF Serve, Begun
  <2> QED
    BY <1>1, <2>1, CoveredClosed
<1>3. CASE OnOpen
  <2> DEFINE task == Begun("open", {})
  <2>0. task.from = "open" /\ task.stage = "begun"
    BY DEF Begun
  <2>1. tasks' = tasks \union {task}
    BY <1>3 DEF OnOpen
  <2> HIDE DEF task
  <2>2. \E t \in tasks' : t.from = "open" /\ t.stage = "begun"
    BY <2>0, <2>1
  <2>3. LeftIsListed'
    BY <2>0, <2>1 DEF CoveredInv, LeftIsListed
  <2>4. Covered'
    BY <2>2 DEF Covered, IsDeclared, Lists
  <2> QED
    BY <1>1, <2>3, <2>4 DEF CoveredInv
<1>4. ASSUME NEW q \in People, Approve(q) PROVE CoveredInv'
  <2> DEFINE task == Begun("approval", {q})
  <2>0. task.from = "approval" /\ task.stage = "begun" /\ q \in task.left
    BY DEF Begun
  <2>1. /\ tasks' = tasks \union {task} /\ approved' = approved \union {q}
        /\ UNCHANGED <<link, quiet, people, declared, toHub>>
    BY <1>4 DEF Approve, wire, atHub
  <2> HIDE DEF task
  <2>2. LeftIsListed'
    BY <2>0, <2>1 DEF CoveredInv, LeftIsListed
  <2>3. Covered'
    <3> SUFFICES ASSUME link = "open", NEW p \in ((approved \union {q}) \intersect people) \ quiet PROVE IsDeclared(p)'
      BY <2>1 DEF Covered
    <3>1. CASE p = q
      BY <2>0, <2>1, <3>1 DEF IsDeclared, Lists
    <3>2. CASE p # q
      <4>1. IsDeclared(p)
        BY <3>2 DEF CoveredInv, Covered
      <4> QED
        BY <2>1, <4>1 DEF IsDeclared, Lists, Announced
    <3> QED
      BY <3>1, <3>2
  <2> QED
    BY <1>1, <2>2, <2>3 DEF CoveredInv
<1>5. CASE Millisecond \/ Answered \/ (\E m \in Posts : GivesUp(m)) \/ UNCHANGED webVars
  <2>1. UNCHANGED <<tasks, registry, declared, toHub, link>>
    BY <1>5 DEF Millisecond, Answered, GivesUp, webVars, registry, wire, atHub
  <2>2. \A p \in People : Announced(p) => Announced(p)'
    BY <2>1 DEF Announced
  <2> QED
    BY <1>1, <2>1, <2>2, CoveredStays
<1>9. ASSUME NEW q \in People, CreateUser(q) \/ Deactivate(q) \/ Reactivate(q) PROVE CoveredInv'
  <2>1. /\ UNCHANGED <<tasks, people, declared, toHub, link>>
        /\ approved' \ quiet' \subseteq approved \ quiet
    BY <1>9 DEF CreateUser, Deactivate, Reactivate, wire, atHub
  <2>2. LeftIsListed'
    BY <2>1 DEF CoveredInv, LeftIsListed
  <2>3. Covered'
    BY <2>1 DEF CoveredInv, Covered, IsDeclared, Lists, Announced
  <2> QED
    BY <1>1, <2>2, <2>3 DEF CoveredInv
<1>6. ASSUME NEW m \in Posts, Post(m) PROVE CoveredInv'
  <2>1. UNCHANGED <<tasks, registry, declared, link>>
    BY <1>6 DEF Post, atHub
  <2>2. toHub' = toHub \/ toHub' = Append(toHub, Send(milli, m))
    BY <1>6 DEF Post, SaysFailed, Write
  <2>3. Send(milli, m) \in Frames
    BY <1>1 DEF Send, Frames, Linked, WebTypeOK
  <2>4. \A p \in People : Announced(p) => Announced(p)'
    BY <1>1, <2>2, <2>3, AnnouncedAppends DEF Announced
  <2> QED
    BY <1>1, <2>1, <2>4, CoveredStays
<1>7. CASE HubDeclares \/ HubTakes \/ HubRefusesSend
  <2>1. UNCHANGED <<tasks, registry, link>> /\ toHub # <<>> /\ toHub' = Tail(toHub) /\ declared \subseteq declared'
    BY <1>7 DEF HubDeclares, HubTakes, HubRefusesSend, atHub
  <2>2. \A p \in People : IsDeclare(NextFrame) /\ p \in NextFrame.list => p \in declared' \/ p \notin people
    BY <1>7 DEF HubDeclares, HubTakes, HubRefusesSend
  <2>3. \A p \in People : Announced(p) => Announced(p)' \/ p \in declared' \/ p \notin people
    BY <1>1, <2>1, <2>2, AnnouncedDrops
  <2> QED
    BY <1>1, <2>1, <2>3, CoveredStays
<1> QED
  BY <1>1, <1>2, <1>3, <1>4, <1>5, <1>6, <1>7, <1>8, <1>9, CoveredTasks DEF WebNext

(* Whoever is approved and known to the hub is declared there once nothing *)
(* is under way, unless a route of local accounts approved them since the  *)
(* last list was read, whatever overtook what and however often the link   *)
(* was lost or the server restarted, for any number of people.             *)
THEOREM ApprovedAreDeclared == WebSpec => []ApprovedIsDeclared
<1>1. CoveredInv => ApprovedIsDeclared
  BY DEF CoveredInv, Covered, ApprovedIsDeclared, Settled, IsDeclared, Announced
<1> QED
  BY <1>1, CoveredInit, CoveredStep, PTL DEF WebSpec
----------------------------------------------------------------------------
AccountedInv == Linked /\ Accounted

LEMMA AccountedInit == WebInit => AccountedInv
<1> SUFFICES ASSUME WebInit PROVE Accounted
  BY LinkedInit DEF AccountedInv
<1>1. Len(toHub) = 0 /\ Len(fromHub) = 0
  BY EmptySeq DEF WebInit
<1> QED
  BY <1>1 DEF WebInit, Accounted, FramesAreSent, AnswersSettle, RowsFollow

LEMMA AccountedStays ==
    ASSUME Accounted, UNCHANGED <<toHub, fromHub, accepted, row, waiting, reqId, gaveUp, orphaned, redeclaredAt>>
    PROVE  Accounted'
BY DEF Accounted, FramesAreSent, AnswersSettle, RowsFollow, Settles, Sent, Shared, IsDeclare

(* A post that shares its id goes on sharing it. *)
LEMMA SharedGrows ==
    ASSUME redeclaredAt \subseteq redeclaredAt',
           \A n \in Posts : reqId[n] # 0 => reqId'[n] = reqId[n],
           NEW m \in Posts, reqId[m] # 0, Shared(m)
    PROVE  Shared(m)'
BY DEF Shared

LEMMA AccountedLoses ==
    ASSUME AccountedInv, toHub' = <<>>, fromHub' = <<>>,
           (waiting' = waiting /\ orphaned' = orphaned) \/ (waiting' = {} /\ orphaned' = orphaned \union waiting),
           UNCHANGED <<accepted, row, reqId, gaveUp, redeclaredAt>>
    PROVE  Accounted'
<1>1. Len(toHub') = 0 /\ Len(fromHub') = 0
  BY EmptySeq
<1>2. FramesAreSent' /\ AnswersSettle' /\ \A m \in Posts : ~Sent(m)'
  BY <1>1 DEF FramesAreSent, AnswersSettle, Sent
<1>3. RowsFollow'
  BY <1>2 DEF AccountedInv, Accounted, RowsFollow, Settles, Shared
<1> QED
  BY <1>2, <1>3 DEF Accounted

(* The row of a post that is never sent. *)
LEMMA AccountedCut ==
    ASSUME AccountedInv, NEW m \in Posts, PostCut(m)
    PROVE  Accounted'
<1>1. Linked /\ RowsFollow /\ row[m] = "none" /\ reqId[m] = 0 /\ m \notin accepted
  BY DEF AccountedInv, Accounted, RowsFollow, PostCut, MayPost
<1>2. /\ toHub' = <<>> /\ fromHub' = <<>> /\ waiting' = {} /\ orphaned' = orphaned \union waiting \union {m}
      /\ row' = [row EXCEPT ![m] = "pending"]
      /\ UNCHANGED <<accepted, reqId, gaveUp, redeclaredAt>>
  BY DEF PostCut, Dies, LosesLink
<1>3. row'[m] = "pending" /\ \A n \in Posts \ {m} : row'[n] = row[n]
  BY <1>1, <1>2 DEF Linked, WebTypeOK
<1>4. Len(toHub') = 0 /\ Len(fromHub') = 0
  BY <1>2, EmptySeq
<1>5. FramesAreSent' /\ AnswersSettle' /\ \A n \in Posts : ~Sent(n)'
  BY <1>4 DEF FramesAreSent, AnswersSettle, Sent
<1>6. RowsFollow'
  BY <1>1, <1>2, <1>3, <1>5 DEF RowsFollow, Settles, Shared
<1> QED
  BY <1>5, <1>6 DEF Accounted

LEMMA OnTheWire ==
    ASSUME Linked
    PROVE  /\ \A k \in 1..Len(toHub) : toHub[k] \in Frames
           /\ \A k \in 1..Len(fromHub) : fromHub[k] \in Replies
           /\ \A f \in Frames : f.id # 0
           /\ \A a \in Replies : a.id # 0
<1>1. toHub \in Seq(Frames) /\ fromHub \in Seq(Replies)
  BY DEF Linked, WebTypeOK
<1>2. (\A k \in 1..Len(toHub) : toHub[k] \in Frames) /\ (\A k \in 1..Len(fromHub) : fromHub[k] \in Replies)
  BY <1>1, ElementOfSeq
<1>3. 0 \notin RequestIds
  BY MilliAssumption DEF RequestIds
<1> QED
  BY <1>2, <1>3 DEF Frames, Replies

(* A new frame. *)
LEMMA SentAppends ==
    ASSUME Linked, NEW f \in Frames, toHub' = Append(toHub, f), NEW m \in Posts
    PROVE  Sent(m)' <=> Sent(m) \/ f.post = m
<1>1. /\ Len(toHub') = Len(toHub) + 1 /\ Len(toHub) \in Nat
      /\ \A k \in 1..Len(toHub) : toHub'[k] = toHub[k]
      /\ toHub'[Len(toHub) + 1] = f
  BY Appending DEF Linked, WebTypeOK
<1>2. \A k \in 1..Len(toHub') : k \in 1..Len(toHub) \/ k = Len(toHub) + 1
  BY <1>1
<1>3. Len(toHub) + 1 \in 1..Len(toHub') /\ 1..Len(toHub) \subseteq 1..Len(toHub')
  BY <1>1
<1> QED
  BY <1>1, <1>2, <1>3 DEF Sent

LEMMA AccountedDeclares ==
    ASSUME AccountedInv, NEW id \in RequestIds, NEW list \in SUBSET People,
           toHub' = toHub \/ toHub' = Append(toHub, Declare(id, list)),
           redeclaredAt' = redeclaredAt \union ({id} \ {OpenId}),
           UNCHANGED <<fromHub, accepted, row, waiting, reqId, gaveUp, orphaned>>
    PROVE  Accounted'
<1>1. Linked /\ FramesAreSent /\ AnswersSettle /\ RowsFollow
  BY DEF AccountedInv, Accounted
<1> DEFINE f == Declare(id, list)
<1>2. f \in Frames /\ IsDeclare(f) /\ f.id = id /\ f.post = NoPost
  BY DEF Declare, Frames, IsDeclare
<1> HIDE DEF f
<1>3. \A m \in Posts : Sent(m)' <=> Sent(m)
  <2>1. CASE toHub' = toHub
    BY <2>1 DEF Sent
  <2>2. CASE toHub' = Append(toHub, f)
    BY <1>1, <1>2, <2>2, SentAppends, NoPostAssumption
  <2> QED
    BY <2>1, <2>2 DEF f
<1>4. FramesAreSent'
  <2>1. CASE toHub' = toHub
    BY <1>1, <2>1 DEF FramesAreSent, IsDeclare
  <2>2. CASE toHub' = Append(toHub, f)
    <3>1. /\ Len(toHub') = Len(toHub) + 1 /\ Len(toHub) \in Nat
          /\ \A k \in 1..Len(toHub) : toHub'[k] = toHub[k] /\ toHub[k] \in Frames
          /\ toHub'[Len(toHub) + 1] = f
      BY <1>1, <1>2, <2>2, Appending, ElementOfSeq DEF Linked, WebTypeOK
    <3> SUFFICES ASSUME NEW k \in 1..Len(toHub')
                 PROVE  IF IsDeclare(toHub'[k])
                        THEN toHub'[k].id \in redeclaredAt' \union {OpenId}
                        ELSE /\ toHub'[k].id = reqId[toHub'[k].post]
                             /\ toHub'[k].post \notin accepted
                             /\ \A j \in 1..Len(toHub') : toHub'[j].post = toHub'[k].post => j = k
      BY DEF FramesAreSent, IsDeclare
    <3>2. CASE k = Len(toHub) + 1
      BY <1>2, <3>1, <3>2
    <3>3. CASE k \in 1..Len(toHub)
      <4>1. IF IsDeclare(toHub[k])
            THEN toHub[k].id \in redeclaredAt \union {OpenId}
            ELSE /\ toHub[k].id = reqId[toHub[k].post]
                 /\ toHub[k].post \notin accepted
                 /\ \A j \in 1..Len(toHub) : toHub[j].post = toHub[k].post => j = k
        BY <1>1, <3>3 DEF FramesAreSent
      <4>2. \A j \in 1..Len(toHub') : j \in 1..Len(toHub) \/ toHub'[j].post = NoPost
        BY <1>2, <3>1
      <4> QED
        BY <3>1, <3>3, <4>1, <4>2 DEF IsDeclare
    <3> QED
      BY <3>1, <3>2, <3>3
  <2> QED
    BY <2>1, <2>2 DEF f
<1>5. \A m \in Posts : reqId[m] # 0 /\ ~Shared(m)' => ~Shared(m)
  BY SharedGrows
<1>6. AnswersSettle'
  <2>1. \A k \in 1..Len(fromHub) : fromHub[k].id # 0
    BY <1>1, OnTheWire
  <2> QED
    BY <1>1, <1>3, <1>5, <2>1 DEF AnswersSettle, Settles
<1>7. RowsFollow'
  BY <1>1, <1>3, <1>5 DEF RowsFollow, Settles
<1> QED
  BY <1>4, <1>6, <1>7 DEF Accounted
LEMMA AccountedPosts ==
    ASSUME AccountedInv, NEW m \in Posts, Post(m)
    PROVE  Accounted'
<1>1. Linked /\ FramesAreSent /\ AnswersSettle /\ RowsFollow
  BY DEF AccountedInv, Accounted
<1>2. reqId \in [Posts -> 0..MaxMilli] /\ row \in [Posts -> {"none", "pending", "failed"}]
  BY <1>1 DEF Linked, WebTypeOK
<1>3. row[m] = "none" /\ reqId[m] = 0 /\ m \notin accepted /\ m \notin waiting \union orphaned
  BY <1>1 DEF Post, MayPost, RowsFollow
<1>4. CASE ~hubConnected
  <2>1. /\ UNCHANGED <<toHub, fromHub, accepted, waiting, reqId, gaveUp, orphaned, redeclaredAt>>
        /\ row' = [row EXCEPT ![m] = "failed"]
    BY <1>4 DEF Post, SaysFailed, atHub
  <2>2. FramesAreSent' /\ AnswersSettle'
    BY <1>1, <2>1 DEF FramesAreSent, AnswersSettle, Settles, Sent, Shared, IsDeclare
  <2>3. RowsFollow'
    BY <1>1, <1>2, <1>3, <2>1 DEF RowsFollow, Settles, Sent, Shared
  <2> QED
    BY <2>2, <2>3 DEF Accounted
<1>5. CASE hubConnected
  <2> DEFINE f == Send(milli, m)
  <2>1. f \in Frames /\ f.id = milli /\ f.post = m /\ ~IsDeclare(f)
    BY <1>1, NoPostAssumption DEF Send, Frames, IsDeclare, Linked, WebTypeOK
  <2>2. /\ row' = [row EXCEPT ![m] = "pending"] /\ waiting' = waiting \union {m}
        /\ reqId' = [reqId EXCEPT ![m] = milli]
        /\ toHub' = toHub \/ toHub' = Append(toHub, f)
        /\ UNCHANGED <<fromHub, accepted, gaveUp, orphaned, redeclaredAt>>
    BY <1>5 DEF Post, Write, atHub
  <2> HIDE DEF f
  <2>3. milli > OpenId /\ milli \in Nat /\ milli # 0
    BY <1>1, MilliAssumption DEF Linked, WebTypeOK, RequestIds, OpenId
  <2>4. /\ reqId'[m] = milli /\ row'[m] = "pending"
        /\ \A n \in Posts \ {m} : reqId'[n] = reqId[n] /\ row'[n] = row[n]
    BY <1>2, <2>2
  <2>5. \A k \in 1..Len(toHub) : toHub[k].post # m
    BY <1>1, <1>3, OnTheWire, NoPostAssumption DEF FramesAreSent, IsDeclare
  <2>6. \A n \in Posts \ {m} : Sent(n)' <=> Sent(n)
    <3>1. CASE toHub' = toHub
      BY <3>1 DEF Sent
    <3>2. CASE toHub' = Append(toHub, f)
      BY <1>1, <2>1, <3>2, SentAppends
    <3> QED
      BY <2>2, <3>1, <3>2
  <2>7. \A n \in Posts : reqId[n] # 0 /\ ~Shared(n)' => ~Shared(n)
    BY <1>3, <2>2, <2>4, SharedGrows
  <2>8. FramesAreSent'
    <3>1. \A k \in 1..Len(toHub) :
             IF IsDeclare(toHub[k])
             THEN toHub[k].id \in redeclaredAt \union {OpenId}
             ELSE /\ toHub[k].id = reqId'[toHub[k].post]
                  /\ toHub[k].post \notin accepted
                  /\ \A j \in 1..Len(toHub) : toHub[j].post = toHub[k].post => j = k
      BY <1>1, <2>4, <2>5, OnTheWire DEF FramesAreSent, IsDeclare, Frames
    <3>2. CASE toHub' = toHub
      BY <2>2, <3>1, <3>2 DEF FramesAreSent, IsDeclare
    <3>3. CASE toHub' = Append(toHub, f)
      <4>1. /\ Len(toHub') = Len(toHub) + 1 /\ Len(toHub) \in Nat
            /\ \A k \in 1..Len(toHub) : toHub'[k] = toHub[k]
            /\ toHub'[Len(toHub) + 1] = f
        BY <1>1, <2>1, <3>3, Appending DEF Linked, WebTypeOK
      <4>2. \A k \in 1..Len(toHub') : k \in 1..Len(toHub) \/ k = Len(toHub) + 1
        BY <4>1
      <4> SUFFICES ASSUME NEW k \in 1..Len(toHub')
                   PROVE  IF IsDeclare(toHub'[k])
                          THEN toHub'[k].id \in redeclaredAt' \union {OpenId}
                          ELSE /\ toHub'[k].id = reqId'[toHub'[k].post]
                               /\ toHub'[k].post \notin accepted'
                               /\ \A j \in 1..Len(toHub') : toHub'[j].post = toHub'[k].post => j = k
        BY DEF FramesAreSent, IsDeclare
      <4>3. CASE k = Len(toHub) + 1
        BY <1>3, <2>1, <2>2, <2>4, <2>5, <4>1, <4>2, <4>3 DEF IsDeclare
      <4>4. CASE k \in 1..Len(toHub)
        BY <2>1, <2>2, <2>5, <3>1, <4>1, <4>2, <4>4 DEF IsDeclare
      <4> QED
        BY <4>2, <4>3, <4>4
    <3> QED
      BY <2>2, <3>2, <3>3
  <2>9. AnswersSettle'
    <3> SUFFICES ASSUME NEW k \in 1..Len(fromHub)
                 PROVE  /\ fromHub[k].id \in redeclaredAt \union {OpenId} \union {reqId'[n] : n \in Posts}
                        /\ \A n \in Posts : reqId'[n] = fromHub[k].id /\ ~Shared(n)' => Settles(n, fromHub[k].taken)'
      BY <2>2 DEF AnswersSettle, Settles
    <3>1. fromHub[k].id # 0
      BY <1>1, OnTheWire
    <3>2. /\ fromHub[k].id \in redeclaredAt \union {OpenId} \union {reqId[n] : n \in Posts}
          /\ \A n \in Posts : reqId[n] = fromHub[k].id /\ ~Shared(n) => Settles(n, fromHub[k].taken)
      BY <1>1 DEF AnswersSettle
    <3>3. fromHub[k].id \in redeclaredAt \union {OpenId} \union {reqId'[n] : n \in Posts \ {m}}
      BY <1>3, <2>4, <3>1, <3>2
    <3>4. fromHub[k].id = milli => Shared(m)'
      BY <2>2, <2>3, <2>4, <3>3 DEF Shared
    <3>5. ASSUME NEW n \in Posts \ {m}, reqId'[n] = fromHub[k].id, ~Shared(n)'
          PROVE  Settles(n, fromHub[k].taken)'
      <4>1. Settles(n, fromHub[k].taken)
        BY <2>4, <2>7, <3>1, <3>2, <3>5
      <4> QED
        BY <2>2, <2>6, <4>1 DEF Settles
    <3> QED
      BY <2>4, <3>3, <3>4, <3>5
  <2>10. RowsFollow'
    <3> SUFFICES ASSUME NEW n \in Posts
                 PROVE  /\ reqId'[n] # 0 => reqId'[n] > OpenId
                        /\ row'[n] = "none" => reqId'[n] = 0
                        /\ reqId'[n] = 0 => n \notin accepted' /\ (row'[n] = "pending" => n \in orphaned')
                        /\ n \in waiting' => reqId'[n] # 0 /\ row'[n] = "pending"
                        /\ n \in orphaned' => n \notin waiting' /\ row'[n] = "pending"
                        /\ n \in gaveUp' \ (waiting' \union orphaned') => row'[n] = "failed"
                        /\ n \notin waiting' \union gaveUp' \union orphaned' /\ reqId'[n] # 0 /\ ~Shared(n)'
                           => Settles(n, row[n] = "pending")'
      BY DEF RowsFollow
    <3>1. CASE n = m
      BY <1>3, <2>2, <2>3, <2>4, <3>1
    <3>2. CASE n # m
      <4>1. /\ reqId[n] # 0 => reqId[n] > OpenId
            /\ row[n] = "none" => reqId[n] = 0
            /\ reqId[n] = 0 => n \notin accepted /\ (row[n] = "pending" => n \in orphaned)
            /\ n \in waiting => reqId[n] # 0 /\ row[n] = "pending"
            /\ n \in orphaned => n \notin waiting /\ row[n] = "pending"
            /\ n \in gaveUp \ (waiting \union orphaned) => row[n] = "failed"
            /\ n \notin waiting \union gaveUp \union orphaned /\ reqId[n] # 0 /\ ~Shared(n)
               => Settles(n, row[n] = "pending")
        BY <1>1 DEF RowsFollow
      <4> QED
        BY <2>2, <2>4, <2>6, <2>7, <3>2, <4>1 DEF Settles
    <3> QED
      BY <3>1, <3>2
  <2> QED
    BY <2>8, <2>9, <2>10 DEF Accounted
<1> QED
  BY <1>4, <1>5

LEMMA AccountedGivesUp ==
    ASSUME AccountedInv, NEW m \in Posts, GivesUp(m)
    PROVE  Accounted'
<1>1. Linked /\ FramesAreSent /\ AnswersSettle /\ RowsFollow
  BY DEF AccountedInv, Accounted
<1>2. /\ m \in waiting /\ waiting' = waiting \ {m} /\ gaveUp' = gaveUp \union {m}
      /\ row' = [row EXCEPT ![m] = "failed"]
      /\ UNCHANGED <<toHub, fromHub, accepted, reqId, orphaned, redeclaredAt>>
  BY DEF GivesUp, wire, atHub
<1>3. FramesAreSent' /\ AnswersSettle'
  BY <1>1, <1>2 DEF FramesAreSent, AnswersSettle, Settles, Sent, Shared, IsDeclare
<1>4. row'[m] = "failed" /\ \A n \in Posts \ {m} : row'[n] = row[n]
  BY <1>1, <1>2 DEF Linked, WebTypeOK
<1>5. RowsFollow'
  BY <1>1, <1>2, <1>4 DEF RowsFollow, Settles, Sent, Shared
<1> QED
  BY <1>3, <1>5 DEF Accounted
LEMMA AccountedAnswered ==
    ASSUME AccountedInv, Answered
    PROVE  Accounted'
<1>1. Linked /\ FramesAreSent /\ AnswersSettle /\ RowsFollow
  BY DEF AccountedInv, Accounted
<1> DEFINE a == Head(fromHub)
           heard == {m \in Posts : Hears(m, a)}
<1>2. /\ fromHub # <<>> /\ fromHub' = Tail(fromHub)
      /\ waiting' = waiting \ heard
      /\ row' = [m \in Posts |-> IF m \in heard /\ ~a.taken THEN "failed" ELSE row[m]]
      /\ UNCHANGED <<toHub, accepted, reqId, gaveUp, orphaned, redeclaredAt>>
  BY DEF Answered, atHub
<1>3. /\ a = fromHub[1] /\ 1 \in 1..Len(fromHub) /\ Len(fromHub) \in Nat
      /\ Len(fromHub') = Len(fromHub) - 1
      /\ \A k \in 1..Len(fromHub) - 1 : fromHub'[k] = fromHub[k + 1]
  BY <1>1, <1>2, Dropping DEF Linked, WebTypeOK
<1>4. \A m \in heard : m \in waiting \ gaveUp /\ reqId[m] = a.id
  BY DEF Hears
<1>5. \A m \in Posts : reqId[m] = a.id /\ ~Shared(m) => Settles(m, a.taken)
  BY <1>1, <1>3 DEF AnswersSettle
<1> HIDE DEF a, heard
<1>6. FramesAreSent'
  BY <1>1, <1>2 DEF FramesAreSent, IsDeclare
<1>7. AnswersSettle'
  <2>1. \A k \in 1..Len(fromHub') : k + 1 \in 1..Len(fromHub) /\ fromHub'[k] = fromHub[k + 1]
    BY <1>3
  <2> QED
    BY <1>1, <1>2, <2>1 DEF AnswersSettle, Settles, Sent, Shared
<1>8. RowsFollow'
  <2> SUFFICES ASSUME NEW m \in Posts
               PROVE  /\ row'[m] = "none" => reqId[m] = 0
                      /\ reqId[m] = 0 => (row'[m] = "pending" => m \in orphaned)
                      /\ m \in waiting' => row'[m] = "pending"
                      /\ m \in orphaned => m \notin waiting' /\ row'[m] = "pending"
                      /\ m \in gaveUp \ (waiting' \union orphaned) => row'[m] = "failed"
                      /\ m \notin waiting' \union gaveUp \union orphaned /\ reqId[m] # 0 /\ ~Shared(m)
                         => Settles(m, row'[m] = "pending")
    BY <1>1, <1>2 DEF RowsFollow, Settles, Sent, Shared
  <2>1. /\ row[m] = "none" => reqId[m] = 0
        /\ reqId[m] = 0 => (row[m] = "pending" => m \in orphaned)
        /\ m \in waiting => reqId[m] # 0 /\ row[m] = "pending"
        /\ m \in orphaned => m \notin waiting /\ row[m] = "pending"
        /\ m \in gaveUp \ (waiting \union orphaned) => row[m] = "failed"
        /\ m \notin waiting \union gaveUp \union orphaned /\ reqId[m] # 0 /\ ~Shared(m)
           => Settles(m, row[m] = "pending")
    BY <1>1 DEF RowsFollow
  <2>2. CASE m \in heard
    BY <1>2, <1>4, <1>5, <2>1, <2>2 DEF Settles
  <2>3. CASE m \notin heard
    BY <1>2, <2>1, <2>3
  <2> QED
    BY <2>2, <2>3
<1> QED
  BY <1>6, <1>7, <1>8 DEF Accounted

(* The hub takes the next frame off the wire. *)
LEMMA SentDrops ==
    ASSUME AccountedInv, toHub # <<>>, toHub' = Tail(toHub), UNCHANGED <<reqId, redeclaredAt>>,
           accepted' \subseteq accepted \union ({NextFrame.post} \intersect Posts)
    PROVE  /\ FramesAreSent'
           /\ \A m \in Posts : Sent(m)' => Sent(m) /\ m # NextFrame.post
           /\ NextFrame \in Frames
           /\ IF IsDeclare(NextFrame)
              THEN NextFrame.id \in redeclaredAt \union {OpenId}
              ELSE /\ NextFrame.post \in Posts /\ Sent(NextFrame.post)
                   /\ NextFrame.id = reqId[NextFrame.post] /\ NextFrame.post \notin accepted
<1>1. Linked /\ FramesAreSent
  BY DEF AccountedInv, Accounted
<1>2. /\ NextFrame = toHub[1] /\ NextFrame \in Frames /\ 1 \in 1..Len(toHub)
      /\ Len(toHub) \in Nat /\ Len(toHub') = Len(toHub) - 1
      /\ \A k \in 1..Len(toHub) - 1 : toHub'[k] = toHub[k + 1]
  BY <1>1, Dropping DEF Linked, WebTypeOK, NextFrame
<1>3. \A k \in 1..Len(toHub') :
        k + 1 \in 1..Len(toHub) /\ k + 1 # 1 /\ k \in Nat /\ toHub'[k] = toHub[k + 1]
  BY <1>2
<1>4. \A k \in 1..Len(toHub) : toHub[k].post \in Posts \union {NoPost}
  BY <1>1, OnTheWire DEF Frames
<1>5. \A k \in 1..Len(toHub) : toHub[k].post = NextFrame.post /\ NextFrame.post \in Posts => k = 1
  BY <1>1, <1>2, NoPostAssumption DEF FramesAreSent, IsDeclare
<1>6. \A m \in Posts : Sent(m)' => Sent(m) /\ m # NextFrame.post
  BY <1>3, <1>5 DEF Sent
<1>7. FramesAreSent'
  <2> SUFFICES ASSUME NEW k \in 1..Len(toHub')
               PROVE  IF IsDeclare(toHub'[k])
                      THEN toHub'[k].id \in redeclaredAt \union {OpenId}
                      ELSE /\ toHub'[k].id = reqId[toHub'[k].post]
                           /\ toHub'[k].post \notin accepted'
                           /\ \A j \in 1..Len(toHub') : toHub'[j].post = toHub'[k].post => j = k
    BY DEF FramesAreSent, IsDeclare
  <2>1. IF IsDeclare(toHub[k + 1])
        THEN toHub[k + 1].id \in redeclaredAt \union {OpenId}
        ELSE /\ toHub[k + 1].id = reqId[toHub[k + 1].post]
             /\ toHub[k + 1].post \notin accepted
             /\ \A j \in 1..Len(toHub) : toHub[j].post = toHub[k + 1].post => j = k + 1
    BY <1>1, <1>3 DEF FramesAreSent
  <2>2. toHub[k + 1].post \notin {NextFrame.post} \intersect Posts
    BY <1>3, <1>5
  <2>3. ASSUME ~IsDeclare(toHub[k + 1]), NEW j \in 1..Len(toHub'), toHub'[j].post = toHub'[k].post
        PROVE  j = k
    <3>1. j + 1 = k + 1
      BY <1>3, <2>1, <2>3
    <3> QED
      BY <1>3, <3>1
  <2> QED
    BY <1>3, <2>1, <2>2, <2>3
<1>8. IF IsDeclare(NextFrame)
      THEN NextFrame.id \in redeclaredAt \union {OpenId}
      ELSE /\ NextFrame.post \in Posts /\ Sent(NextFrame.post)
           /\ NextFrame.id = reqId[NextFrame.post] /\ NextFrame.post \notin accepted
  BY <1>1, <1>2, <1>4 DEF FramesAreSent, IsDeclare, Sent
<1> QED
  BY <1>2, <1>6, <1>7, <1>8

LEMMA AccountedHub ==
    ASSUME AccountedInv, HubDeclares \/ HubTakes \/ HubRefusesSend
    PROVE  Accounted'
<1>1. Linked /\ AnswersSettle /\ RowsFollow
  BY DEF AccountedInv, Accounted
<1> DEFINE f == NextFrame
<1>2. PICK taken \in BOOLEAN :
        /\ fromHub' = Append(fromHub, [id |-> f.id, taken |-> taken])
        /\ taken <=> HubTakes
        /\ ~taken => accepted' = accepted
        /\ taken => accepted' = accepted \union {f.post} /\ ~IsDeclare(f)
  <2>1. CASE HubTakes
    BY <2>1 DEF HubTakes, Answer
  <2>2. CASE ~HubTakes
    BY <2>2 DEF HubDeclares, HubRefusesSend, Answer, atHub
  <2> QED
    BY <2>1, <2>2
<1>3. /\ toHub # <<>> /\ toHub' = Tail(toHub)
      /\ UNCHANGED <<row, waiting, reqId, gaveUp, orphaned, redeclaredAt>>
  BY DEF HubDeclares, HubTakes, HubRefusesSend, posts
<1>4. ~IsDeclare(f) => f.post \in Posts
  <2>1. f \in Frames
    BY <1>1, <1>3, Dropping DEF Linked, WebTypeOK, NextFrame
  <2> QED
    BY <2>1 DEF Frames, IsDeclare
<1>5. accepted' \subseteq accepted \union ({f.post} \intersect Posts)
  BY <1>2, <1>4
<1>6. /\ FramesAreSent'
      /\ \A m \in Posts : Sent(m)' => Sent(m) /\ m # f.post
      /\ f \in Frames
      /\ IF IsDeclare(f)
         THEN f.id \in redeclaredAt \union {OpenId}
         ELSE f.post \in Posts /\ Sent(f.post) /\ f.id = reqId[f.post] /\ f.post \notin accepted
  BY <1>3, <1>5, SentDrops
<1> HIDE DEF f
<1> DEFINE a == [id |-> f.id, taken |-> taken]
<1>7. a \in Replies /\ a.id = f.id /\ a.taken = taken /\ f.id # 0
  BY <1>1, <1>6, OnTheWire DEF Frames, Replies
<1>8. /\ Len(fromHub') = Len(fromHub) + 1 /\ Len(fromHub) \in Nat
      /\ \A k \in 1..Len(fromHub) : fromHub'[k] = fromHub[k]
      /\ fromHub'[Len(fromHub) + 1] = a
  BY <1>1, <1>2, <1>7, Appending DEF Linked, WebTypeOK
<1> HIDE DEF a
<1>9. \A m \in Posts : Shared(m)' <=> Shared(m)
  BY <1>3 DEF Shared
(* What held of a post that was not in this frame still holds of it. *)
<1>10. \A m \in Posts, said \in BOOLEAN : Settles(m, said) => (said <=> m \in accepted') /\ ~Sent(m)'
  BY <1>2, <1>6 DEF Settles
<1>11. f.id \in redeclaredAt \union {OpenId} \union {reqId[n] : n \in Posts}
  BY <1>6
<1>12. \A m \in Posts : reqId[m] = f.id /\ ~Shared(m) => (taken <=> m \in accepted') /\ ~Sent(m)'
  <2> SUFFICES ASSUME NEW m \in Posts, reqId[m] = f.id, ~Shared(m)
               PROVE  (taken <=> m \in accepted') /\ ~Sent(m)'
    OBVIOUS
  <2>1. ~IsDeclare(f)
    BY <1>1, <1>6, <1>7 DEF RowsFollow, Shared, OpenId
  <2>2. m = f.post
    BY <1>6, <2>1 DEF Shared
  <2> QED
    BY <1>2, <1>6, <2>1, <2>2
<1>13. AnswersSettle'
  <2> SUFFICES ASSUME NEW k \in 1..Len(fromHub')
               PROVE  /\ fromHub'[k].id \in redeclaredAt \union {OpenId} \union {reqId[n] : n \in Posts}
                      /\ \A m \in Posts : reqId[m] = fromHub'[k].id /\ ~Shared(m)
                                       => (fromHub'[k].taken <=> m \in accepted') /\ ~Sent(m)'
    BY <1>3, <1>9 DEF AnswersSettle, Settles
  <2>1. CASE k = Len(fromHub) + 1
    BY <1>7, <1>8, <1>11, <1>12, <2>1
  <2>2. CASE k \in 1..Len(fromHub)
    <3>1. fromHub'[k] = fromHub[k] /\ fromHub[k].taken \in BOOLEAN
      BY <1>1, <1>8, <2>2, OnTheWire DEF Replies
    <3> QED
      BY <1>1, <1>10, <2>2, <3>1 DEF AnswersSettle
  <2> QED
    BY <1>8, <2>1, <2>2
<1>14. RowsFollow'
  <2> SUFFICES ASSUME NEW m \in Posts
               PROVE  /\ reqId[m] = 0 => m \notin accepted'
                      /\ m \notin waiting \union gaveUp \union orphaned /\ reqId[m] # 0 /\ ~Shared(m)
                         => ((row[m] = "pending") <=> m \in accepted') /\ ~Sent(m)'
    BY <1>1, <1>3, <1>9 DEF RowsFollow, Settles
  <2>1. reqId[m] = 0 => m \notin accepted'
    BY <1>1, <1>2, <1>6, <1>7 DEF RowsFollow
  <2>2. m \notin waiting \union gaveUp \union orphaned /\ reqId[m] # 0 /\ ~Shared(m) => Settles(m, row[m] = "pending")
    BY <1>1 DEF RowsFollow
  <2> QED
    BY <1>10, <2>1, <2>2
<1> QED
  BY <1>6, <1>13, <1>14 DEF Accounted

LEMMA AccountedStep == AccountedInv /\ [WebNext]_webVars => AccountedInv'
<1> SUFFICES ASSUME AccountedInv, [WebNext]_webVars PROVE Accounted'
  BY LinkedStep DEF AccountedInv
<1>1. CASE WebCrash \/ LinkCut \/ HubRejects
  <2>1. /\ toHub' = <<>> /\ fromHub' = <<>>
        /\ (waiting' = waiting /\ orphaned' = orphaned) \/ (waiting' = {} /\ orphaned' = orphaned \union waiting)
        /\ UNCHANGED <<accepted, row, reqId, gaveUp, redeclaredAt>>
    BY <1>1 DEF WebCrash, DiesWaiting, Dies, LinkCut, HubRejects, LosesLink, posts
  <2> QED
    BY <2>1, AccountedLoses
<1>2. CASE OnClose
  BY <1>2 DEF OnClose, wire, atHub, AccountedInv, Accounted, FramesAreSent, AnswersSettle, RowsFollow,
              Settles, Sent, Shared, IsDeclare
<1>3. CASE Millisecond \/ Serve \/ Dials \/ OnOpen \/ UNCHANGED webVars
        \/ (\E p \in People : Approve(p) \/ CreateUser(p) \/ Deactivate(p) \/ Reactivate(p))
  BY <1>3, AccountedStays DEF Millisecond, Serve, Dials, OnOpen, Approve, CreateUser, Deactivate, Reactivate, webVars, wire, atHub, posts, AccountedInv
<1>4. ASSUME NEW t \in tasks, Seeds(t) \/ ProvisionedSelf(t) \/ ProvisionedApproved(t) \/ ProvisionsNext(t)
      PROVE  Accounted'
  BY <1>4, AccountedStays DEF Seeds, ProvisionedSelf, ProvisionedApproved, ProvisionsNext, wire, atHub, posts, AccountedInv
<1>5. ASSUME NEW t \in tasks, DeclaresOn(t) PROVE Accounted'
  <2> DEFINE id == IF t.from = "open" THEN OpenId ELSE milli
  <2>1. id \in RequestIds /\ t.list \in SUBSET People
    BY MilliAssumption DEF AccountedInv, Linked, WebTypeOK, RequestIds, OpenId, Tasks
  <2>2. /\ toHub' = toHub \/ toHub' = Append(toHub, Declare(id, t.list))
        /\ redeclaredAt' = redeclaredAt \union ({id} \ {OpenId})
        /\ UNCHANGED <<fromHub, accepted, row, waiting, reqId, gaveUp, orphaned>>
    BY <1>5 DEF DeclaresOn, Write, atHub, posts
  <2> HIDE DEF id
  <2> QED
    BY <2>1, <2>2, AccountedDeclares
<1>6. ASSUME NEW t \in tasks, DeclareThrows(t) PROVE Accounted'
  <2>1. CASE DiesWaiting
    BY <2>1, AccountedLoses DEF DiesWaiting, Dies, LosesLink
  <2>2. CASE ~DiesWaiting
    BY <1>6, <2>2, AccountedStays DEF DeclareThrows, wire, atHub, posts, AccountedInv
  <2> QED
    BY <2>1, <2>2
<1> QED
  BY <1>1, <1>2, <1>3, <1>4, <1>5, <1>6, AccountedPosts, AccountedCut, AccountedGivesUp, AccountedAnswered, AccountedHub DEF WebNext

(* Of a post whose request shared its id with no other, a pending row that *)
(* nobody waits for is of a message the hub accepted, or its handler died; *)
(* a failed one is of a message it did not accept, or the answer could not *)
(* be heard: whatever links were lost meanwhile, for any number of posts.  *)
THEOREM RowsTellOutcome == WebSpec => []RowTellsOutcome
<1>1. AccountedInv => RowTellsOutcome
  BY DEF AccountedInv, Accounted, RowsFollow, Settles, RowTellsOutcome
<1> QED
  BY <1>1, AccountedInit, AccountedStep, PTL DEF WebSpec
=============================================================================
