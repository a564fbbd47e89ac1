---------------------------- MODULE HubRoute_proofs ----------------------------
(***************************************************************************)
(* What HubRoute promises about sessions, for any tabs and channels and any *)
(* order of restores, joins, connects, moves and loops.  Three facts are    *)
(* kept by every step: who waits for the Hub waits on a port, and a port was*)
(* opened since the last disable closed one (LinkInv); a disable that lists *)
(* the routes has every session on its list, unless a port was opened again *)
(* (ClearInv); and every channel that was fixed for a route is the route's, *)
(* or the route is overtaken (FixInv).                                      *)
(***************************************************************************)
EXTENDS HubRoute, TLAPS

Asks(t) == restore[t].at = "asking" \/ join[t].at = "asking"

LinkInv ==
  /\ \A t \in Tab : Asks(t) => port
  /\ port => reopened

HasSession(t) == routes[t] # None /\ routes[t].hub # None

ClearInv ==
  ~reopened /\ disabling.at # "listing" =>
    \A t \in Tab : HasSession(t) => disabling.at = "looping" /\ t \in disabling.todo

(* A channel that the route t has a session on, or may be given one on.      *)
Names(t, c) ==
  \/ c \in {routes[t].hub, restore[t].channel, join[t].channel}
  \/ \E n \in notices \cup enabling.todo : n.tab = t /\ n.channel = c
OwnOnly(t) == \A c \in Channel : Names(t, c) => c = routes[t].channel
FixInv == \A t \in Present : overtaken[t] \/ OwnOnly(t)

IInv == TypeOK /\ LinkInv /\ ClearInv /\ FixInv

-----------------------------------------------------------------------------
(* Types.                                                                  *)

LEMMA InitInv == Init => IInv
<1> SUFFICES ASSUME Init PROVE IInv
  OBVIOUS
<1>1. TypeOK
  BY DEF Init, TypeOK, Loop, NoLoop, Task, TaskPlaces, Idle, Route, Notice, Dial
<1>2. Present = {}
  BY DEF Init, Present
<1>3. LinkInv
  BY DEF Init, LinkInv, Asks, Idle
<1> QED
  BY <1>1, <1>2, <1>3 DEF IInv, ClearInv, HasSession, FixInv, Init, NoLoop

(* The worker's tasks, one of them changed.                                 *)
LEMMA TaskTypes ==
  ASSUME NEW f \in [Tab -> Task], NEW t \in Tab, NEW c \in Channel \cup {None},
         NEW at \in TaskPlaces
  PROVE  /\ [f EXCEPT ![t].at = at] \in [Tab -> Task]
         /\ [f EXCEPT ![t] = [at |-> at, channel |-> c]] \in [Tab -> Task]
         /\ [f EXCEPT ![t] = Idle] \in [Tab -> Task]
         /\ Rejected(f) \in [Tab -> Task]
  BY DEF Task, TaskPlaces, Idle, Rejected

(* The routes, one of them changed.                                         *)
LEMMA RouteTypes ==
  ASSUME NEW f \in [Tab -> Route \cup {None}], NEW t \in Tab, NEW r \in Route
  PROVE  [f EXCEPT ![t] = r] \in [Tab -> Route \cup {None}]
  OBVIOUS

LEMMA BoolTypes ==
  ASSUME NEW f \in [Tab -> BOOLEAN], NEW t \in Tab, NEW b
  PROVE  /\ [f EXCEPT ![t] = @ \/ b] \in [Tab -> BOOLEAN] 
         /\ [f EXCEPT ![t] = @ /\ b] \in [Tab -> BOOLEAN]
<1> DEFINE x == f[t] \/ b
           y == f[t] /\ b
<1>1. x \in BOOLEAN /\ y \in BOOLEAN
  OBVIOUS
<1> HIDE DEF x, y
<1>2. [f EXCEPT ![t] = x] \in [Tab -> BOOLEAN] /\ [f EXCEPT ![t] = y] \in [Tab -> BOOLEAN]
  BY <1>1
<1> QED
  BY <1>2 DEF x, y

LEMMA SetHubSessionTypes ==
  ASSUME TypeOK, NEW t \in Tab, NEW c \in Channel \cup {None}, NEW others,
         SetHubSession(t, c, others)
  PROVE  routes' \in [Tab -> Route \cup {None}] /\ overtaken' \in [Tab -> BOOLEAN]
<1>1. CASE routes[t] = None
  BY <1>1 DEF SetHubSession, TypeOK
<1>2. CASE routes[t] # None
  <2> DEFINE r == [routes[t] EXCEPT !.hub = c, !.lost = FALSE]
  <2>1. routes' = [routes EXCEPT ![t] = r]
    BY <1>2 DEF SetHubSession
  <2>2. r \in Route
    BY <1>2 DEF TypeOK, Route
  <2>3. PICK b : overtaken' = [overtaken EXCEPT ![t] = @ /\ b]
    BY <1>2 DEF SetHubSession
  <2>4. routes' \in [Tab -> Route \cup {None}]
    <3> HIDE DEF r
    <3> QED
      BY <2>1, <2>2, RouteTypes DEF TypeOK
  <2>5. overtaken' \in [Tab -> BOOLEAN]
    BY <2>3, BoolTypes DEF TypeOK
  <2> QED
    BY <2>4, <2>5
<1> QED
  BY <1>1, <1>2

LEMMA ClearHubSessionTypes ==
  ASSUME TypeOK, NEW t \in Tab, ClearHubSession(t)
  PROVE  routes' \in [Tab -> Route \cup {None}]
<1> DEFINE r == [routes[t] EXCEPT !.hub = None]
<1>1. routes' = routes \/ (routes[t] # None /\ routes' = [routes EXCEPT ![t] = r])
  BY DEF ClearHubSession
<1>2. routes[t] # None => r \in Route
  BY DEF TypeOK, Route
<1> HIDE DEF r
<1> QED
  BY <1>1, <1>2, RouteTypes DEF TypeOK

LEMMA StartRestoreTypes ==
  ASSUME TypeOK, NEW t \in Tab, NEW c \in Channel \cup {None}, StartRestore(t, c)
  PROVE  restore' \in [Tab -> Task]
<1>1. restore \in [Tab -> Task] /\ "starting" \in TaskPlaces
  BY DEF TypeOK, TaskPlaces
<1>2. [restore EXCEPT ![t] = [at |-> "starting", channel |-> c]] \in [Tab -> Task]
  BY <1>1, TaskTypes
<1> QED
  BY <1>1, <1>2 DEF StartRestore

(* A join that is under way has a channel.                                  *)
LEMMA JoinTask ==
  ASSUME TypeOK, NEW t \in Tab, join[t].at # "idle"
  PROVE  join[t].channel \in Channel
  BY DEF TypeOK, Idle

LEMMA JoinChanged ==
  ASSUME TypeOK, NEW t \in Tab, NEW v \in Task, join' = [join EXCEPT ![t] = v],
         v # Idle => v.channel \in Channel
  PROVE  /\ join' \in [Tab -> Task]
         /\ \A s \in Tab : join'[s] # Idle => join'[s].channel \in Channel
  BY DEF TypeOK

(* The document's steps, and the user's.                                    *)
LEMMA DocumentTypes ==
  ASSUME TypeOK, NEW t \in Tab,
         \/ AudioLost(t) \/ RemoveTab(t)
         \/ \E c \in Channel : Move(t, c) \/ AddTab(t, c)
  PROVE  TypeOK'
<1>2. CASE AudioLost(t)
  <2> DEFINE r == [routes[t] EXCEPT !.hub = None, !.lost = TRUE]
  <2>1. routes' = [routes EXCEPT ![t] = r] /\ r \in Route
    BY <1>2 DEF AudioLost, Present, TypeOK, Route
  <2>2. notices' \subseteq Notice
    BY <1>2 DEF AudioLost, TypeOK, Notice
  <2> HIDE DEF r
  <2>3. routes' \in [Tab -> Route \cup {None}]
    BY <2>1, RouteTypes DEF TypeOK
  <2> QED
    BY <1>2, <2>2, <2>3 DEF AudioLost, TypeOK, link, loops
<1>3. CASE RemoveTab(t)
  BY <1>3 DEF RemoveTab, TypeOK, link, loops
<1>4. ASSUME NEW c \in Channel, Move(t, c) PROVE TypeOK'
  <2>1. PICK r \in Route : routes' = [routes EXCEPT ![t] = r]
    <3> DEFINE r == IF routes[t].hub = None THEN [routes[t] EXCEPT !.channel = c]
                    ELSE [channel |-> c, hub |-> None, lost |-> TRUE]
    <3>1. r \in Route /\ routes' = [routes EXCEPT ![t] = r]
      BY <1>4 DEF Move, Present, TypeOK, Route
    <3> QED
      BY <3>1
  <2>2. notices' \subseteq Notice
    BY <1>4 DEF Move, TypeOK, Notice
  <2>3. PICK b : overtaken' = [overtaken EXCEPT ![t] = @ \/ b]
    BY <1>4 DEF Move
  <2>4. overtaken' \in [Tab -> BOOLEAN]
    BY <2>3, BoolTypes DEF TypeOK
  <2> QED
    BY <1>4, <2>1, <2>2, <2>4, RouteTypes DEF Move, TypeOK, link, loops
<1>5. ASSUME NEW c \in Channel, AddTab(t, c) PROVE TypeOK'
  <2> DEFINE v == [at |-> "starting", channel |-> c]
  <2>1. v \in Task /\ v.channel \in Channel
    BY DEF Task, TaskPlaces
  <2>2. join' = [join EXCEPT ![t] = v]
    BY <1>5 DEF AddTab
  <2> HIDE DEF v
  <2>3. join' \in [Tab -> Task] /\ \A s \in Tab : join'[s] # Idle => join'[s].channel \in Channel
    BY <2>1, <2>2, JoinChanged
  <2> QED
    BY <1>5, <2>3 DEF AddTab, TypeOK, link, loops
<1> QED
  BY <1>2, <1>3, <1>4, <1>5

(* The tasks with what was asked given up.                                  *)
LEMMA RejectedTypes ==
  ASSUME TypeOK, restore' = Rejected(restore), join' = Rejected(join)
  PROVE  /\ restore' \in [Tab -> Task] /\ join' \in [Tab -> Task]
         /\ \A t \in Tab :
              /\ restore'[t].channel = restore[t].channel /\ restore'[t].at # "asking"
              /\ join'[t].channel = join[t].channel /\ join'[t].at # "asking"
              /\ join'[t] # Idle => join[t] # Idle
<1>1. restore \in [Tab -> Task] /\ join \in [Tab -> Task]
  BY DEF TypeOK
<1>2. /\ restore' = [t \in Tab |-> IF restore[t].at = "asking" THEN [restore[t] EXCEPT !.at = "failed"]
                                ELSE restore[t]]
      /\ join' = [t \in Tab |-> IF join[t].at = "asking" THEN [join[t] EXCEPT !.at = "failed"]
                             ELSE join[t]]
  BY DEF Rejected
<1>3. restore' \in [Tab -> Task] /\ join' \in [Tab -> Task]
  BY <1>1, <1>2 DEF Task, TaskPlaces
<1>4. ASSUME NEW t \in Tab
      PROVE  restore'[t].channel = restore[t].channel /\ restore'[t].at # "asking"
  BY <1>1, <1>2 DEF Task
<1>5. ASSUME NEW t \in Tab
      PROVE  /\ join'[t].channel = join[t].channel /\ join'[t].at # "asking"
             /\ join'[t] # Idle => join[t] # Idle
  BY <1>1, <1>2 DEF Task, Idle
<1> QED
  BY <1>2, <1>3, <1>4, <1>5

LEMMA RejectedJoin ==
  ASSUME TypeOK, restore' = Rejected(restore), join' = Rejected(join)
  PROVE  \A t \in Tab : join'[t] # Idle => join'[t].channel \in Channel
  BY RejectedTypes DEF TypeOK

(* The calls of connect, one of them changed.                               *)
LEMMA DialTypes ==
  ASSUME TypeOK, NEW c \in Caller, NEW at \in Dial
  PROVE  /\ Called(c, at) \in [Caller -> Dial]
         /\ HungUp(Called(c, at)) \in [Caller -> Dial]
         /\ HungUp(dial) \in [Caller -> Dial]
  BY DEF TypeOK, Called, HungUp, Dial

LEMMA DropLinkTypes ==
  ASSUME TypeOK, NEW calls, DropLink(calls)
  PROVE  /\ restore' = Rejected(restore) /\ join' = Rejected(join)
         /\ restore' \in [Tab -> Task] /\ join' \in [Tab -> Task]
         /\ \A t \in Tab : join'[t] # Idle => join'[t].channel \in Channel
         /\ port' = FALSE /\ connected' = FALSE /\ dial' = HungUp(calls)
  BY RejectedTypes, RejectedJoin DEF DropLink

(* The link, without what hangs on it.                                      *)
LEMMA ConnectTypes ==
  ASSUME TypeOK, NEW c \in Caller, Connect(c)
  PROVE  TypeOK'
<1>1. /\ "idle" \in Dial /\ "opening" \in Dial /\ "greeting" \in Dial
      /\ UNCHANGED <<enabled, routes, notices, enabling, disabling, overtaken>>
  BY DEF Dial, Connect, ReadHubSettings, OpenPort, Greeted, GiveUp, loops
<1> DEFINE Links == port' \in BOOLEAN /\ connected' \in BOOLEAN /\ reopened' \in BOOLEAN
           Calls == dial' \in [Caller -> Dial]
           Tasks == /\ restore' \in [Tab -> Task] /\ join' \in [Tab -> Task]
                    /\ \A t \in Tab : join'[t] # Idle => join'[t].channel \in Channel
<1> SUFFICES Links /\ Calls /\ Tasks
  BY <1>1 DEF TypeOK
<1>2. ASSUME NEW at \in Dial, DropLink(Called(c, at)), UNCHANGED reopened PROVE Links /\ Calls /\ Tasks
  <2>1. Calls
    <3>1. dial' = HungUp(Called(c, at))
      BY <1>2 DEF DropLink
    <3> QED
      BY <3>1, DialTypes
  <2>2. Links
    BY <1>2 DEF DropLink, TypeOK
  <2>3. Tasks
    <3> DEFINE calls == Called(c, at)
    <3>1. DropLink(calls)
      BY <1>2
    <3> HIDE DEF calls
    <3> QED
      BY <3>1, DropLinkTypes
  <2> QED
    BY <2>1, <2>2, <2>3
<1>3. ASSUME UNCHANGED <<port, reopened, restore, join>>, connected' \in {TRUE, FALSE, connected},
             NEW at \in Dial, dial' = Called(c, at)
      PROVE  Links /\ Calls /\ Tasks
  <2>1. Calls
    BY <1>3, DialTypes
  <2>2. Links /\ Tasks
    BY <1>3 DEF TypeOK
  <2> QED
    BY <2>1, <2>2
<1>4. CASE ReadHubSettings(c)
  <2>1. CASE enabled
    <3>1. PICK at \in {"idle", "opening"} : dial' = Called(c, at)
      BY <1>4, <2>1 DEF ReadHubSettings
    <3>2. UNCHANGED <<port, reopened, restore, join>> /\ connected' \in {TRUE, FALSE, connected}
      BY <1>4, <2>1 DEF ReadHubSettings
    <3>3. at \in Dial
      BY <1>1
    <3> HIDE DEF Links, Calls, Tasks
    <3> QED
      BY <1>3, <3>1, <3>2, <3>3
  <2>2. CASE ~enabled
    <3>1. DropLink(Called(c, "idle")) /\ UNCHANGED reopened
      BY <1>4, <2>2 DEF ReadHubSettings
    <3> HIDE DEF Links, Calls, Tasks
    <3> QED
      BY <1>1, <1>2, <3>1
  <2> QED
    BY <2>1, <2>2
<1>5. CASE OpenPort(c)
  <2>1. CASE UNCHANGED <<port, reopened, restore, join>> /\ dial' = Called(c, "idle")
    <3>1. connected' \in {TRUE, FALSE, connected}
      BY <1>5 DEF OpenPort
    <3> HIDE DEF Links, Calls, Tasks
    <3> QED
      BY <1>1, <1>3, <2>1, <3>1
  <2>2. CASE /\ port' = TRUE /\ reopened' = TRUE
             /\ dial' = [d \in Caller |-> IF d = c THEN "greeting"
                                          ELSE IF dial[d] = "greeting" THEN "failing" ELSE dial[d]]
             /\ restore' = Rejected(restore) /\ join' = Rejected(join)
    <3>1. Calls
      BY <2>2 DEF TypeOK, Dial
    <3>2. Links
      BY <1>5, <2>2 DEF OpenPort, TypeOK
    <3>3. Tasks
      BY <2>2, RejectedTypes, RejectedJoin
    <3> QED
      BY <3>1, <3>2, <3>3
  <2> HIDE DEF Links, Calls, Tasks
  <2> QED
    BY <1>5, <2>1, <2>2 DEF OpenPort
<1>6. CASE Greeted(c) \/ GiveUp(c)
  <2>1. \/ DropLink(Called(c, "idle")) /\ UNCHANGED reopened
        \/ /\ UNCHANGED <<port, reopened, restore, join>> /\ connected' \in {TRUE, FALSE, connected}
           /\ dial' = Called(c, "idle")
    BY <1>6 DEF Greeted, GiveUp
  <2> HIDE DEF Links, Calls, Tasks
  <2> QED
    BY <1>1, <1>2, <1>3, <2>1
<1> QED
  BY <1>4, <1>5, <1>6 DEF Connect

(* A restore of the worker.                                                 *)
RestoreTask(t) ==
  \/ ReadRoute(t) \/ ReadStatus(t) \/ CheckLink(t) \/ RequestSession(t)
  \/ Granted(t) \/ Refused(t) \/ RecoveredLocally(t)

LEMMA RestoreTypes ==
  ASSUME TypeOK, NEW t \in Tab, RestoreTask(t)
  PROVE  TypeOK'
<1> DEFINE Rest == UNCHANGED <<enabled, port, reopened, notices, join, enabling, disabling>>
<1>1. Rest
  BY DEF RestoreTask, ReadRoute, ReadStatus, CheckLink, RequestSession, Granted, Refused,
         RecoveredLocally, link, loops
<1>4. connected' \in BOOLEAN
  <2>1. connected' \in {TRUE, FALSE, connected}
    BY DEF RestoreTask, ReadRoute, ReadStatus, CheckLink, RequestSession, Granted, Refused,
           RecoveredLocally, link
  <2> QED
    BY <2>1 DEF TypeOK
<1>5. dial' \in [Caller -> Dial]
  <2>1. dial' \in {dial, Called(t, "reading")}
    BY DEF RestoreTask, ReadRoute, ReadStatus, CheckLink, RequestSession, Granted, Refused,
           RecoveredLocally, link
  <2>2. t \in Caller /\ "reading" \in Dial
    BY DEF Caller, Dial
  <2> QED
    BY <2>1, <2>2, DialTypes DEF TypeOK
<1>2. restore' \in [Tab -> Task]
  <2>1. restore[t].channel \in Channel \cup {None} /\ (routes[t] # None => routes[t].channel \in Channel)
    BY DEF TypeOK, Task, Route
  <2>2. \/ \E at \in {"connecting", "waiting", "falling", "asking", "failed"} :
             restore' = [restore EXCEPT ![t].at = at]
        \/ restore' = [restore EXCEPT ![t] = Idle]
        \/ \E c \in Channel \cup {None} :
             restore' = [restore EXCEPT ![t] = [at |-> "reading", channel |-> c]]
    <3>1. CASE ReadRoute(t)
      BY <2>1, <3>1 DEF ReadRoute, TypeOK
    <3>2. CASE \/ ReadStatus(t) \/ CheckLink(t) \/ RequestSession(t) \/ Granted(t) \/ Refused(t)
               \/ RecoveredLocally(t)
      BY <3>2 DEF ReadStatus, CheckLink, RequestSession, Granted, Refused, RecoveredLocally, Goto,
                  EndRestore
    <3> QED
      BY <3>1, <3>2 DEF RestoreTask
  <2>3. restore \in [Tab -> Task] /\ Idle \in Task
        /\ \A c \in Channel \cup {None} : [at |-> "reading", channel |-> c] \in Task
    BY DEF TypeOK, Task, TaskPlaces, Idle
  <2>4. CASE \E at \in {"connecting", "waiting", "falling", "asking", "failed"} :
               restore' = [restore EXCEPT ![t].at = at]
    BY <2>3, <2>4 DEF Task, TaskPlaces
  <2> QED
    BY <2>2, <2>3, <2>4
<1>3. routes' \in [Tab -> Route \cup {None}] /\ overtaken' \in [Tab -> BOOLEAN]
  <2>1. CASE ReadRoute(t) \/ ReadStatus(t) \/ RequestSession(t)
    BY <2>1 DEF ReadRoute, ReadStatus, RequestSession, TypeOK
  <2>2. CASE CheckLink(t) \/ Refused(t)
    BY <2>2, ClearHubSessionTypes DEF CheckLink, Refused, TypeOK
  <2>3. CASE Granted(t)
    <3>1. restore[t].channel \in Channel \cup {None}
      BY DEF TypeOK, Task
    <3>2. PICK b : SetHubSession(t, restore[t].channel, b)
      BY <2>3 DEF Granted
    <3> QED
      BY <3>1, <3>2, SetHubSessionTypes
  <2>4. CASE RecoveredLocally(t)
    <3> DEFINE r == [routes[t] EXCEPT !.lost = FALSE]
    <3>1. routes' = routes \/ (routes[t] # None /\ routes' = [routes EXCEPT ![t] = r])
      BY <2>4 DEF RecoveredLocally
    <3>2. routes[t] # None => r \in Route
      BY DEF TypeOK, Route
    <3> HIDE DEF r
    <3> QED
      BY <2>4, <3>1, <3>2, RouteTypes DEF TypeOK, RecoveredLocally
  <2> QED
    BY <2>1, <2>2, <2>3, <2>4 DEF RestoreTask
<1> QED
  BY <1>1, <1>2, <1>3, <1>4, <1>5 DEF TypeOK

(* Notices, joins, the link and the loops.                                  *)
LEMMA JoinTypes ==
  ASSUME TypeOK, NEW t \in Tab,
         \/ Captured(t) \/ ReadJoinStatus(t) \/ CheckJoin(t) \/ RequestJoin(t)
         \/ JoinGranted(t) \/ JoinRefused(t)
  PROVE  TypeOK'
<1> DEFINE c == join[t].channel
<1>1. c \in Channel
  BY JoinTask DEF Captured, ReadJoinStatus, CheckJoin, RequestJoin, JoinGranted, JoinRefused
<1>2. /\ join' \in [Tab -> Task]
      /\ \A s \in Tab : join'[s] # Idle => join'[s].channel \in Channel
  <2>1. \/ join' = [join EXCEPT ![t] = Idle]
        \/ \E at \in {"reading", "connecting", "waiting", "asking"} :
             join' = [join EXCEPT ![t] = [@ EXCEPT !.at = at]]
    BY DEF Captured, ReadJoinStatus, CheckJoin, RequestJoin, JoinGranted, JoinRefused, EndJoin
  <2>3. PICK v : /\ join' = [join EXCEPT ![t] = v]
                 /\ \/ v = Idle
                    \/ \E at \in {"reading", "connecting", "waiting", "asking"} :
                         v = [join[t] EXCEPT !.at = at]
    BY <2>1
  <2>2. v \in Task /\ (v # Idle => v.channel \in Channel)
    BY <1>1, <2>3 DEF TypeOK, Task, TaskPlaces, Idle
  <2> QED
    BY <2>3, <2>2, JoinChanged
<1>3. CASE ReadJoinStatus(t) \/ CheckJoin(t) \/ RequestJoin(t)
  BY <1>2, <1>3 DEF ReadJoinStatus, CheckJoin, RequestJoin, TypeOK, link, loops
<1>6. CASE JoinRefused(t)
  <2>1. connected' \in {FALSE, connected}
    BY <1>6 DEF JoinRefused
  <2>2. connected' \in BOOLEAN
    BY <2>1 DEF TypeOK
  <2> QED
    BY <1>2, <1>6, <2>2 DEF JoinRefused, TypeOK, loops
<1>4. CASE JoinGranted(t)
  <2>1. PICK b : SetHubSession(t, c, b)
    BY <1>4 DEF JoinGranted
  <2>2. routes' \in [Tab -> Route \cup {None}] /\ overtaken' \in [Tab -> BOOLEAN]
    BY <1>1, <2>1, SetHubSessionTypes
  <2> QED
    BY <1>2, <1>4, <2>2 DEF JoinGranted, TypeOK, link, loops
<1>5. CASE Captured(t)
  <2> DEFINE r == [channel |-> c, hub |-> None, lost |-> FALSE]
             b == Fixed(t)
  <2>1. r \in Route /\ b \in BOOLEAN
    BY <1>1 DEF Route, Fixed
  <2>2. \/ routes' = [routes EXCEPT ![t] = r] /\ overtaken' = [overtaken EXCEPT ![t] = b]
        \/ routes' = routes /\ overtaken' = overtaken
    BY <1>5 DEF Captured
  <2> HIDE DEF r, b
  <2>3. routes' \in [Tab -> Route \cup {None}] /\ overtaken' \in [Tab -> BOOLEAN]
    BY <2>1, <2>2 DEF TypeOK
  <2> QED
    BY <1>2, <1>5, <2>3 DEF Captured, TypeOK, link, loops
<1> QED
  BY <1>3, <1>4, <1>5, <1>6

LEMMA LoopTypes ==
  ASSUME TypeOK,
         \/ \E n \in notices : HandleNotice(n)
         \/ CloseLink \/ ListDisabled \/ ClearNext \/ Enabled \/ ListEnabled \/ RestoreNext
         \/ LinkLost \/ HubSpeaks \/ Disable \/ Enable \/ Paired
  PROVE  TypeOK'
<1>1. ASSUME NEW n \in notices, HandleNotice(n) PROVE TypeOK'
  <2>1. n.tab \in Tab /\ n.channel \in Channel \cup {None}
    BY DEF TypeOK, Notice
  <2>2. restore' \in [Tab -> Task]
    BY <1>1, <2>1, StartRestoreTypes DEF HandleNotice
  <2> QED
    BY <1>1, <2>2 DEF HandleNotice, TypeOK, link, loops
<1>2. CASE ListDisabled
  BY <1>2 DEF ListDisabled, TypeOK, link, Loop, Present
<1>3. CASE ClearNext
  <2>1. routes' \in [Tab -> Route \cup {None}]
    BY <1>3, ClearHubSessionTypes DEF ClearNext, TypeOK, Loop
  <2>2. disabling' \in Loop(Tab)
    BY <1>3 DEF ClearNext, TypeOK, Loop, NoLoop
  <2> QED
    BY <1>3, <2>1, <2>2 DEF ClearNext, TypeOK, link
<1>4. CASE ListEnabled
  <2>1. \A t \in Present : t \in Tab /\ routes[t].channel \in Channel
    BY DEF Present, TypeOK, Route
  <2>2. enabling' \in Loop(Notice)
    BY <1>4, <2>1 DEF ListEnabled, Loop, Notice
  <2> QED
    BY <1>4, <2>2 DEF ListEnabled, TypeOK, link
<1>5. CASE RestoreNext
  <2>1. enabling' \in Loop(Notice)
    BY <1>5 DEF RestoreNext, TypeOK, Loop, NoLoop
  <2>2. restore' \in [Tab -> Task]
    <3>1. CASE restore' = restore
      BY <3>1 DEF TypeOK
    <3>2. ASSUME NEW n \in enabling.todo, StartRestore(n.tab, n.channel) PROVE restore' \in [Tab -> Task]
      <4>1. n.tab \in Tab /\ n.channel \in Channel \cup {None}
        BY DEF TypeOK, Loop, Notice
      <4> QED
        BY <3>2, <4>1, StartRestoreTypes
    <3> QED
      BY <1>5, <3>1, <3>2 DEF RestoreNext
  <2> QED
    BY <1>5, <2>1, <2>2 DEF RestoreNext, TypeOK, link
<1>6. CASE LinkLost \/ CloseLink
  <2>1. DropLink(dial)
    BY <1>6 DEF LinkLost, CloseLink
  <2>2. disabling' \in Loop(Tab) /\ reopened' \in BOOLEAN
    <3>1. CASE UNCHANGED <<disabling, reopened>>
      BY <3>1 DEF TypeOK
    <3>2. CASE disabling' = [at |-> "listing", todo |-> {}] /\ reopened' = FALSE
      BY <3>2 DEF Loop
    <3> QED
      BY <1>6, <3>1, <3>2 DEF LinkLost, CloseLink, loops
  <2>3. Popup \in Caller /\ "idle" \in Dial
    BY DEF Caller, Dial
  <2>4. dial' \in [Caller -> Dial]
    BY <2>1, <2>3, DialTypes, DropLinkTypes
  <2>5. UNCHANGED <<enabled, routes, notices, enabling, overtaken>>
    BY <1>6 DEF LinkLost, CloseLink, loops
  <2> QED
    BY <2>1, <2>2, <2>4, <2>5, DropLinkTypes DEF TypeOK
<1>7. CASE Disable
  <2>1. disabling' \in Loop(Tab)
    BY <1>7 DEF Disable, Loop
  <2> QED
    BY <1>7, <2>1 DEF Disable, TypeOK
<1>8. CASE Enable
  <2>1. enabling' \in Loop(Notice)
    BY <1>8 DEF Enable, Loop
  <2>2. Popup \in Caller /\ "reading" \in Dial
    BY DEF Caller, Dial
  <2>3. dial' \in [Caller -> Dial]
    BY <1>8, <2>2, DialTypes DEF Enable
  <2> QED
    BY <1>8, <2>1, <2>3 DEF Enable, TypeOK
<1>9. CASE Enabled \/ Paired
  <2>1. enabling' \in Loop(Notice)
    BY <1>9 DEF Enabled, Paired, Loop, NoLoop
  <2> QED
    BY <1>9, <2>1 DEF Enabled, Paired, TypeOK, link
<1>10. CASE HubSpeaks
  BY <1>10 DEF HubSpeaks, TypeOK, loops
<1> QED
  BY <1>1, <1>2, <1>3, <1>4, <1>5, <1>6, <1>7, <1>8, <1>9, <1>10

LEMMA TypeStep == TypeOK /\ [Next]_vars => TypeOK'
<1> SUFFICES ASSUME TypeOK, [Next]_vars PROVE TypeOK'
  OBVIOUS
<1>1. CASE UNCHANGED vars
  BY <1>1 DEF TypeOK, vars
<1>2. CASE Next
  BY <1>2, DocumentTypes, ConnectTypes, RestoreTypes, JoinTypes, LoopTypes DEF Next, Worker, RestoreTask
<1> QED
  BY <1>1, <1>2

-----------------------------------------------------------------------------
(* Who waits for the Hub waits on a port.                                  *)

LEMMA StartRestoreAsks ==
  ASSUME TypeOK, NEW t \in Tab, NEW c, StartRestore(t, c)
  PROVE  \A s \in Tab : restore'[s].at = "asking" => restore[s].at = "asking"
  BY DEF StartRestore, TypeOK

(* The steps that leave the port alone.                                     *)
Quiet ==
  \/ \E n \in notices : HandleNotice(n)
  \/ \E t \in Tab : \/ RestoreTask(t)
                    \/ Captured(t) \/ ReadJoinStatus(t) \/ CheckJoin(t) \/ RequestJoin(t)
                    \/ JoinGranted(t) \/ JoinRefused(t)
                    \/ AudioLost(t) \/ RemoveTab(t)
                    \/ \E c \in Channel : Move(t, c) \/ AddTab(t, c)
  \/ \E c \in Caller : Greeted(c)
  \/ ListDisabled \/ ClearNext \/ Enabled \/ ListEnabled \/ RestoreNext
  \/ HubSpeaks \/ Disable \/ Enable \/ Paired

(* What leaves the port alone asks nothing of it that is not there.         *)
LEMMA QuietAsks ==
  ASSUME TypeOK, Quiet
  PROVE  \A s \in Tab : Asks(s)' => Asks(s) \/ port
<1> USE DEF Asks
<1>1. CASE RestoreNext \/ \E n \in notices : HandleNotice(n)
  <2>1. CASE restore' = restore
    BY <1>1, <2>1 DEF RestoreNext, HandleNotice
  <2>2. CASE \E n \in notices \cup enabling.todo : StartRestore(n.tab, n.channel)
    <3>1. PICK n \in notices \cup enabling.todo : StartRestore(n.tab, n.channel)
      BY <2>2
    <3>2. n.tab \in Tab
      BY DEF TypeOK, Notice, Loop
    <3>3. \A s \in Tab : restore'[s].at = "asking" => restore[s].at = "asking"
      BY <3>1, <3>2, StartRestoreAsks
    <3>4. join' = join
      BY <1>1 DEF RestoreNext, HandleNotice
    <3> QED
      BY <3>3, <3>4
  <2> QED
    BY <1>1, <2>1, <2>2 DEF RestoreNext, HandleNotice
<1>2. CASE \/ ListDisabled \/ ClearNext \/ Enabled \/ ListEnabled \/ HubSpeaks \/ Disable \/ Enable
           \/ Paired \/ \E c \in Caller : Greeted(c)
  BY <1>2 DEF ListDisabled, ClearNext, Enabled, ListEnabled, HubSpeaks, Disable, Enable, Paired, Greeted
<1>3. ASSUME NEW t \in Tab, RestoreTask(t) PROVE \A s \in Tab : Asks(s)' => Asks(s) \/ port
  <2>1. join' = join
    BY <1>3 DEF RestoreTask, ReadRoute, ReadStatus, CheckLink, RequestSession, Granted, Refused,
                RecoveredLocally
  <2>2. restore \in [Tab -> Task] /\ Idle.at = "idle"
    BY DEF TypeOK, Idle
  <2>3. \A s \in Tab : restore'[s].at = "asking" => restore[s].at = "asking" \/ port
    <3>1. ASSUME NEW at, at = "asking" => port, Goto(t, at)
          PROVE  \A s \in Tab : restore'[s].at = "asking" => restore[s].at = "asking" \/ port
      BY <2>2, <3>1 DEF Goto, Task
    <3>2. CASE RequestSession(t)
      BY <3>1, <3>2 DEF RequestSession
    <3>3. CASE ReadRoute(t)
      BY <2>2, <3>3 DEF ReadRoute
    <3>4. CASE ReadStatus(t)
      BY <3>1, <3>4 DEF ReadStatus
    <3>5. CASE CheckLink(t)
      BY <3>1, <3>5 DEF CheckLink
    <3>6. CASE Refused(t)
      BY <3>1, <3>6 DEF Refused
    <3>7. CASE Granted(t) \/ RecoveredLocally(t)
      BY <2>2, <3>7 DEF Granted, RecoveredLocally, EndRestore
    <3> QED
      BY <1>3, <3>2, <3>3, <3>4, <3>5, <3>6, <3>7 DEF RestoreTask
  <2> QED
    BY <2>1, <2>3
<1>4. ASSUME NEW t \in Tab, \/ Captured(t) \/ ReadJoinStatus(t) \/ CheckJoin(t) \/ RequestJoin(t)
                           \/ JoinGranted(t) \/ JoinRefused(t)
      PROVE  \A s \in Tab : Asks(s)' => Asks(s) \/ port
  <2>1. restore' = restore
    BY <1>4 DEF Captured, ReadJoinStatus, CheckJoin, RequestJoin, JoinGranted, JoinRefused
  <2>2. join \in [Tab -> Task] /\ Idle.at = "idle"
    BY DEF TypeOK, Idle
  <2>3. \A s \in Tab : join'[s].at = "asking" => join[s].at = "asking" \/ port
    <3>1. CASE join' = join \/ join' = [join EXCEPT ![t] = Idle]
      BY <2>2, <3>1
    <3>2. CASE \E at \in {"reading", "connecting", "waiting"} :
                 join' = [join EXCEPT ![t] = [@ EXCEPT !.at = at]]
      BY <2>2, <3>2 DEF Task
    <3>3. CASE port
      BY <3>3
    <3> QED
      BY <1>4, <3>1, <3>2, <3>3 DEF Captured, ReadJoinStatus, CheckJoin, RequestJoin, JoinGranted,
                                    JoinRefused, EndJoin
  <2> QED
    BY <2>1, <2>3
<1>5. ASSUME NEW t \in Tab, AudioLost(t) \/ RemoveTab(t) \/ \E c \in Channel : Move(t, c)
      PROVE  \A s \in Tab : Asks(s)' => Asks(s) \/ port
  BY <1>5 DEF AudioLost, RemoveTab, Move
<1>6. ASSUME NEW t \in Tab, NEW c \in Channel, AddTab(t, c)
      PROVE  \A s \in Tab : Asks(s)' => Asks(s) \/ port
  BY <1>6 DEF AddTab, TypeOK
<1> QED
  BY <1>1, <1>2, <1>3, <1>4, <1>5, <1>6 DEF Quiet

LEMMA NextSplit ==
  ASSUME Next
  PROVE  \/ Quiet \/ LinkLost \/ CloseLink
         \/ \E c \in Caller : ReadHubSettings(c) \/ OpenPort(c) \/ GiveUp(c)
  BY DEF Next, Worker, Connect, Quiet, RestoreTask

LEMMA QuietLink == Quiet => UNCHANGED <<port, reopened>>
  BY DEF Quiet, HandleNotice, RestoreTask, ReadRoute, ReadStatus, CheckLink, RequestSession, Granted,
         Refused, RecoveredLocally, Captured, ReadJoinStatus, CheckJoin, RequestJoin, JoinGranted,
         JoinRefused, AudioLost, RemoveTab, Move, AddTab, Greeted, ListDisabled, ClearNext, Enabled,
         ListEnabled, RestoreNext, HubSpeaks, Disable, Enable, Paired, link

(* The steps that do not: the port goes with what waits on it, a new one is *)
(* opened, or nothing happens.                                              *)
LEMMA PortSteps ==
  ASSUME \/ LinkLost \/ CloseLink
         \/ \E c \in Caller : ReadHubSettings(c) \/ OpenPort(c) \/ GiveUp(c)
  PROVE  /\ UNCHANGED <<enabled, routes, notices, enabling, overtaken>>
         /\ CloseLink \/ UNCHANGED disabling
         /\ \/ (\E calls : DropLink(calls)) /\ (CloseLink \/ UNCHANGED reopened)
            \/ port' = TRUE /\ reopened' = TRUE /\ restore' = Rejected(restore) /\ join' = Rejected(join)
            \/ UNCHANGED <<port, reopened, restore, join>>
<1>1. CASE LinkLost
  BY <1>1 DEF LinkLost, loops
<1>2. CASE CloseLink
  BY <1>2 DEF CloseLink
<1>3. ASSUME NEW c \in Caller, ReadHubSettings(c)
      PROVE  /\ UNCHANGED <<enabled, routes, notices, loops, overtaken, reopened>>
             /\ \/ \E calls : DropLink(calls)
                \/ UNCHANGED <<port, restore, join>>
  BY <1>3 DEF ReadHubSettings
<1>4. ASSUME NEW c \in Caller, OpenPort(c)
      PROVE  /\ UNCHANGED <<enabled, routes, notices, loops, overtaken>>
             /\ \/ port' = TRUE /\ reopened' = TRUE /\ restore' = Rejected(restore) /\ join' = Rejected(join)
                \/ UNCHANGED <<port, reopened, restore, join>>
  BY <1>4 DEF OpenPort
<1>5. ASSUME NEW c \in Caller, GiveUp(c)
      PROVE  /\ UNCHANGED <<enabled, routes, notices, loops, overtaken, reopened>>
             /\ \/ \E calls : DropLink(calls)
                \/ UNCHANGED <<port, restore, join>>
  BY <1>5 DEF GiveUp
<1> QED
  BY <1>1, <1>2, <1>3, <1>4, <1>5 DEF loops

LEMMA LinkStep ==
  ASSUME TypeOK, LinkInv, [Next]_vars
  PROVE  LinkInv'
<1>1. CASE UNCHANGED vars
  BY <1>1 DEF LinkInv, Asks, vars
<1>2. CASE Quiet
  <2>1. UNCHANGED <<port, reopened>>
    BY <1>2, QuietLink
  <2>2. \A s \in Tab : Asks(s)' => Asks(s) \/ port
    BY <1>2, QuietAsks
  <2> QED
    BY <2>1, <2>2 DEF LinkInv
<1>3. ASSUME NEW calls, DropLink(calls) PROVE LinkInv'
  <2>1. port' = FALSE /\ restore' = Rejected(restore) /\ join' = Rejected(join)
    BY <1>3 DEF DropLink
  <2>2. \A s \in Tab : ~Asks(s)'
    BY <2>1, RejectedTypes DEF Asks
  <2> QED
    BY <2>1, <2>2 DEF LinkInv
<1>4. CASE port' = TRUE /\ reopened' = TRUE
  BY <1>4 DEF LinkInv
<1>5. CASE UNCHANGED <<port, reopened, restore, join>>
  BY <1>5 DEF LinkInv, Asks
<1> QED
  BY <1>1, <1>2, <1>3, <1>4, <1>5, NextSplit, PortSteps

-----------------------------------------------------------------------------
(* A disable has every session on its list.                                *)

LEMMA SessionChanged ==
  ASSUME TypeOK, NEW t \in Tab, NEW v, routes' = [routes EXCEPT ![t] = v],
         v # None /\ v.hub # None => HasSession(t)
  PROVE  \A s \in Tab : HasSession(s)' => HasSession(s)
  BY DEF HasSession, TypeOK

LEMMA ClearedSession ==
  ASSUME TypeOK, NEW t \in Tab, ClearHubSession(t)
  PROVE  /\ \A s \in Tab : HasSession(s)' => HasSession(s)
         /\ ~HasSession(t)'
<1>1. CASE routes[t] = None
  BY <1>1 DEF ClearHubSession, HasSession
<1>2. CASE routes[t] # None
  <2> DEFINE v == [routes[t] EXCEPT !.hub = None]
  <2>1. routes' = [routes EXCEPT ![t] = v]
    BY <1>2 DEF ClearHubSession
  <2>2. v.hub = None
    BY <1>2 DEF TypeOK, Route
  <2> HIDE DEF v
  <2>3. \A s \in Tab : HasSession(s)' => HasSession(s)
    BY <2>1, <2>2, SessionChanged
  <2>4. routes'[t] = v
    BY <2>1 DEF TypeOK
  <2> QED
    BY <2>2, <2>3, <2>4 DEF HasSession
<1> QED
  BY <1>1, <1>2

(* Only a grant makes a session.                                            *)
LEMMA OnlyGrantsBind ==
  ASSUME TypeOK, [Next]_vars, ~\E t \in Tab : Granted(t) \/ JoinGranted(t)
  PROVE  \A s \in Tab : HasSession(s)' => HasSession(s)
<1> DEFINE Goal == \A s \in Tab : HasSession(s)' => HasSession(s)
<1>1. CASE routes' = routes
  BY <1>1 DEF HasSession
<1>2. ASSUME NEW t \in Tab, ClearHubSession(t) PROVE Goal
  BY <1>2, ClearedSession
<1>3. ASSUME NEW t \in Tab,
             \/ AudioLost(t) \/ RemoveTab(t) \/ RecoveredLocally(t) \/ Captured(t)
             \/ \E c \in Channel : Move(t, c)
      PROVE  Goal
  <2>2. CASE AudioLost(t)
    <3> DEFINE v == [routes[t] EXCEPT !.hub = None, !.lost = TRUE]
    <3>1. routes' = [routes EXCEPT ![t] = v] /\ v.hub = None
      BY <2>2 DEF AudioLost, Present, TypeOK, Route
    <3> HIDE DEF v
    <3> QED
      BY <3>1, SessionChanged
  <2>3. CASE RemoveTab(t)
    BY <2>3, SessionChanged DEF RemoveTab
  <2>4. CASE RecoveredLocally(t) /\ routes[t] # None
    <3> DEFINE v == [routes[t] EXCEPT !.lost = FALSE]
    <3>1. routes' = [routes EXCEPT ![t] = v] /\ v.hub = routes[t].hub
      BY <2>4 DEF RecoveredLocally, TypeOK, Route
    <3>2. v.hub # None => HasSession(t)
      BY <2>4, <3>1 DEF HasSession
    <3> HIDE DEF v
    <3> QED
      BY <3>1, <3>2, SessionChanged
  <2>5. CASE Captured(t) /\ routes' # routes
    <3> DEFINE v == [channel |-> join[t].channel, hub |-> None, lost |-> FALSE]
    <3>1. routes' = [routes EXCEPT ![t] = v] /\ v.hub = None
      BY <2>5 DEF Captured
    <3> HIDE DEF v
    <3> QED
      BY <3>1, SessionChanged
  <2>6. ASSUME NEW c \in Channel, Move(t, c) PROVE Goal
    <3>1. PICK v : routes' = [routes EXCEPT ![t] = v] /\ v.hub = None
      <4> DEFINE v == IF routes[t].hub = None THEN [routes[t] EXCEPT !.channel = c]
                      ELSE [channel |-> c, hub |-> None, lost |-> TRUE]
      <4>1. routes' = [routes EXCEPT ![t] = v] /\ v.hub = None
        BY <2>6 DEF Move, Present, TypeOK, Route
      <4> QED
        BY <4>1
    <3> QED
      BY <3>1, SessionChanged
  <2> QED
    BY <1>1, <1>3, <2>2, <2>3, <2>4, <2>5, <2>6 DEF RecoveredLocally
<1>4. \/ routes' = routes
      \/ \E t \in Tab :
           \/ ClearHubSession(t)
           \/ AudioLost(t) \/ RemoveTab(t) \/ RecoveredLocally(t) \/ Captured(t)
           \/ \E c \in Channel : Move(t, c)
  <2>1. CASE UNCHANGED vars
    BY <2>1 DEF vars
  <2>2. CASE ClearNext
    BY <2>2 DEF ClearNext, TypeOK, Loop
  <2>3. CASE \/ \E n \in notices : HandleNotice(n)
             \/ \E c \in Caller : Greeted(c)
             \/ ListDisabled \/ ListEnabled \/ RestoreNext \/ Enabled \/ HubSpeaks \/ Disable
             \/ Enable \/ Paired
    BY <2>3 DEF HandleNotice, Greeted, ListDisabled, ListEnabled, RestoreNext, Enabled, HubSpeaks,
                Disable, Enable, Paired
  <2>4. ASSUME NEW t \in Tab, \/ ReadRoute(t) \/ ReadStatus(t) \/ RequestSession(t)
                              \/ ReadJoinStatus(t) \/ CheckJoin(t) \/ RequestJoin(t) \/ JoinRefused(t)
                              \/ \E c \in Channel : AddTab(t, c)
        PROVE  routes' = routes
    BY <2>4 DEF ReadRoute, ReadStatus, RequestSession, ReadJoinStatus, CheckJoin, RequestJoin,
                JoinRefused, AddTab
  <2>5. ASSUME NEW t \in Tab, CheckLink(t) \/ Refused(t) PROVE ClearHubSession(t)
    BY <2>5 DEF CheckLink, Refused
  <2>6. CASE \/ LinkLost \/ CloseLink
             \/ \E c \in Caller : ReadHubSettings(c) \/ OpenPort(c) \/ GiveUp(c)
    BY <2>6, PortSteps
  <2>7. CASE Quiet
    BY <2>2, <2>3, <2>4, <2>5, <2>7 DEF Quiet, RestoreTask
  <2> QED
    BY <2>1, <2>6, <2>7, NextSplit
<1> QED
  BY <1>1, <1>2, <1>3, <1>4

(* A grant is heard on a port, so one was opened since the last disable.    *)
LEMMA ClearStep ==
  ASSUME TypeOK, LinkInv, ClearInv, [Next]_vars
  PROVE  ClearInv'
<1>1. ASSUME NEW t \in Tab, Granted(t) \/ JoinGranted(t) PROVE ClearInv'
  <2>1. Asks(t) /\ reopened' = reopened
    BY <1>1 DEF Granted, JoinGranted, Asks
  <2> QED
    BY <2>1 DEF ClearInv, LinkInv
<1>2. CASE ~\E t \in Tab : Granted(t) \/ JoinGranted(t)
  <2>1. \A s \in Tab : HasSession(s)' => HasSession(s)
    BY <1>2, OnlyGrantsBind
  <2>2. CASE Disable
    <3>1. disabling.at = "idle" /\ reopened' = reopened
      BY <2>2 DEF Disable, NoLoop
    <3> QED
      BY <2>1, <3>1 DEF ClearInv
  <2>3. CASE CloseLink
    BY <2>3 DEF CloseLink, ClearInv
  <2>4. CASE ListDisabled
    <3>1. disabling' = [at |-> "looping", todo |-> Present]
      BY <2>4 DEF ListDisabled
    <3>2. \A s \in Tab : HasSession(s) => s \in Present
      BY DEF HasSession, Present
    <3> QED
      BY <2>1, <3>1, <3>2 DEF ClearInv
  <2>5. CASE ClearNext
    <3>1. disabling.at = "looping" /\ reopened' = reopened
      BY <2>5 DEF ClearNext, link
    <3>2. CASE disabling.todo = {}
      <4>1. disabling' = NoLoop
        BY <2>5, <3>2 DEF ClearNext
      <4> QED
        BY <2>1, <3>1, <3>2, <4>1 DEF ClearInv, NoLoop
    <3>3. CASE disabling.todo # {}
      <4>1. PICK t \in disabling.todo :
              ClearHubSession(t) /\ disabling' = [disabling EXCEPT !.todo = @ \ {t}]
        BY <2>5, <3>3 DEF ClearNext
      <4>2. t \in Tab /\ disabling'.at = disabling.at /\ disabling'.todo = disabling.todo \ {t}
        BY <4>1 DEF TypeOK, Loop
      <4>3. ~HasSession(t)'
        BY <4>1, <4>2, ClearedSession
      <4> QED
        BY <2>1, <3>1, <4>2, <4>3 DEF ClearInv
    <3> QED
      BY <3>2, <3>3
  <2>6. CASE reopened' \in {TRUE, reopened} /\ disabling' = disabling
    BY <2>1, <2>6 DEF ClearInv
  <2>7. \/ Disable \/ CloseLink \/ ListDisabled \/ ClearNext
        \/ reopened' \in {TRUE, reopened} /\ disabling' = disabling
    <3>1. CASE UNCHANGED vars
      BY <3>1 DEF vars
    <3>2. CASE Quiet
      <4>1. Disable \/ ListDisabled \/ ClearNext \/ UNCHANGED disabling
        BY <3>2 DEF Quiet, HandleNotice, RestoreTask, ReadRoute, ReadStatus, CheckLink, RequestSession,
                    Granted, Refused, RecoveredLocally, Captured, ReadJoinStatus, CheckJoin,
                    RequestJoin, JoinGranted, JoinRefused, AudioLost, RemoveTab, Move, AddTab, Greeted,
                    Enabled, ListEnabled, RestoreNext, HubSpeaks, Enable, Paired, loops
      <4> QED
        BY <3>2, <4>1, QuietLink
    <3>3. CASE \/ LinkLost \/ CloseLink
               \/ \E c \in Caller : ReadHubSettings(c) \/ OpenPort(c) \/ GiveUp(c)
      BY <3>3, PortSteps
    <3> QED
      BY <3>1, <3>2, <3>3, NextSplit
  <2> QED
    BY <2>2, <2>3, <2>4, <2>5, <2>6, <2>7
<1> QED
  BY <1>1, <1>2

-----------------------------------------------------------------------------
(* Every channel that is named for a route is the route's.                 *)

(* A step that makes up no channel for s and leaves its route where it is.  *)
Calm(s) ==
  /\ routes'[s] # None => /\ routes[s] # None
                          /\ routes'[s].channel = routes[s].channel
                          /\ routes'[s].hub \in {None, routes[s].hub}
  /\ overtaken'[s] = overtaken[s]
  /\ \A c \in Channel : restore'[s].channel = c => Names(s, c) \/ c = routes[s].channel
  /\ \A c \in Channel : join'[s].channel = c => join[s].channel = c
  /\ \A n \in notices' \cup enabling'.todo :
       n.tab = s /\ n.channel # None /\ n \notin notices \cup enabling.todo
         => n.channel = routes[s].channel

LEMMA CalmKeeps ==
  ASSUME TypeOK, FixInv, NEW s \in Tab, Calm(s), s \in Present'
  PROVE  overtaken'[s] \/ OwnOnly(s)'
<1>1. s \in Present
  BY DEF Calm, Present
<1>2. CASE overtaken[s]
  BY <1>2 DEF Calm
<1>3. CASE ~overtaken[s]
  <2>1. OwnOnly(s)
    BY <1>1, <1>3 DEF FixInv
  <2>2. ASSUME NEW c \in Channel, Names(s, c)' PROVE c = routes[s].channel
    <3>1. CASE routes'[s].hub = c
      BY <2>1, <3>1, HubRouteAssumption DEF Calm, Present, OwnOnly, Names
    <3>2. CASE restore'[s].channel = c \/ join'[s].channel = c
      BY <2>1, <3>2 DEF Calm, OwnOnly, Names
    <3>3. CASE \E n \in notices' \cup enabling'.todo : n.tab = s /\ n.channel = c
      <4>1. PICK n \in notices' \cup enabling'.todo : n.tab = s /\ n.channel = c
        BY <3>3
      <4>2. CASE n \in notices \cup enabling.todo
        BY <2>1, <4>1, <4>2 DEF OwnOnly, Names
      <4>3. CASE n \notin notices \cup enabling.todo
        BY <4>1, <4>3, HubRouteAssumption DEF Calm
      <4> QED
        BY <4>2, <4>3
    <3> QED
      BY <2>2, <3>1, <3>2, <3>3 DEF Names
  <2>3. routes'[s].channel = routes[s].channel
    BY DEF Calm, Present
  <2> QED
    BY <2>2, <2>3 DEF OwnOnly
<1> QED
  BY <1>2, <1>3

(* A restore takes over the channel of a notice or of a loop's item.        *)
LEMMA StartRestoreCalm ==
  ASSUME TypeOK, NEW n \in notices \cup enabling.todo, StartRestore(n.tab, n.channel),
         UNCHANGED <<routes, join, overtaken>>,
         notices' \subseteq notices, enabling'.todo \subseteq enabling.todo, NEW s \in Tab
  PROVE  Calm(s)
<1>1. n.tab \in Tab
  BY DEF TypeOK, Notice, Loop
<1>2. \A c \in Channel : restore'[s].channel = c => Names(s, c)
  <2>1. CASE restore' = restore
    BY <2>1 DEF Names
  <2>2. CASE restore' = [restore EXCEPT ![n.tab] = [at |-> "starting", channel |-> n.channel]]
    <3>1. restore'[s] = IF s = n.tab THEN [at |-> "starting", channel |-> n.channel] ELSE restore[s]
      BY <2>2 DEF TypeOK
    <3> QED
      BY <3>1 DEF Names
  <2> QED
    BY <2>1, <2>2 DEF StartRestore
<1> QED
  BY <1>2 DEF Calm

(* One restore changes, without a grant.                                    *)
LEMMA RestoringCalm ==
  ASSUME TypeOK, NEW t \in Tab, NEW s \in Tab,
         \/ ReadRoute(t) \/ ReadStatus(t) \/ CheckLink(t) \/ RequestSession(t) \/ Refused(t)
         \/ RecoveredLocally(t)
  PROVE  Calm(s)
<1>1. UNCHANGED <<notices, join, enabling, overtaken>>
  BY DEF ReadRoute, ReadStatus, CheckLink, RequestSession, Refused, RecoveredLocally, loops
<1>2. PICK v : /\ restore' = [restore EXCEPT ![t] = v]
               /\ v.channel \in {None, restore[t].channel, routes[t].channel}
  <2>1. CASE ReadRoute(t)
    <3> DEFINE v == IF routes[t] = None THEN Idle
                    ELSE [at |-> "reading",
                          channel |-> IF restore[t].channel = None THEN routes[t].channel
                                      ELSE restore[t].channel]
    <3>1. restore' = [restore EXCEPT ![t] = v]
      BY <2>1 DEF ReadRoute, TypeOK
    <3>2. v.channel \in {None, restore[t].channel, routes[t].channel}
      BY DEF Idle
    <3> QED
      BY <3>1, <3>2
  <2>2. CASE RecoveredLocally(t)
    <3>1. Idle.channel = None
      BY DEF Idle
    <3>2. restore' = [restore EXCEPT ![t] = Idle]
      BY <2>2 DEF RecoveredLocally, EndRestore
    <3> QED
      BY <3>1, <3>2
  <2>3. ASSUME NEW at, restore' = [restore EXCEPT ![t].at = at]
        PROVE  /\ restore' = [restore EXCEPT ![t] = [restore[t] EXCEPT !.at = at]]
               /\ [restore[t] EXCEPT !.at = at].channel = restore[t].channel
    BY <2>3 DEF TypeOK, Task
  <2>4. CASE ReadStatus(t) \/ CheckLink(t) \/ RequestSession(t) \/ Refused(t)
    <3>1. PICK at : restore' = [restore EXCEPT ![t].at = at]
      BY <2>4 DEF ReadStatus, CheckLink, RequestSession, Refused, Goto
    <3> QED
      BY <3>1, <2>3
  <2> QED
    BY <2>1, <2>2, <2>4
<1>3. \A c \in Channel : restore'[s].channel = c => Names(s, c) \/ c = routes[s].channel
  BY <1>2, HubRouteAssumption DEF Names, TypeOK
<1>4. routes'[s] # None => /\ routes[s] # None
                           /\ routes'[s].channel = routes[s].channel
                           /\ routes'[s].hub \in {None, routes[s].hub}
  <2>1. CASE routes' = routes
    BY <2>1
  <2>2. CASE routes[t] # None /\ \/ routes' = [routes EXCEPT ![t] = [@ EXCEPT !.hub = None]]
                                 \/ routes' = [routes EXCEPT ![t].lost = FALSE]
    <3>1. PICK r : /\ routes' = [routes EXCEPT ![t] = r]
                   /\ r.channel = routes[t].channel /\ r.hub \in {None, routes[t].hub}
      <4>1. CASE routes' = [routes EXCEPT ![t] = [@ EXCEPT !.hub = None]]
        <5> DEFINE r == [routes[t] EXCEPT !.hub = None]
        <5>1. r.channel = routes[t].channel /\ r.hub = None
          BY <2>2 DEF TypeOK, Route
        <5> QED
          BY <4>1, <5>1
      <4>2. CASE routes' = [routes EXCEPT ![t].lost = FALSE]
        <5> DEFINE r == [routes[t] EXCEPT !.lost = FALSE]
        <5>1. r.channel = routes[t].channel /\ r.hub = routes[t].hub
          BY <2>2 DEF TypeOK, Route
        <5> QED
          BY <4>2, <5>1
      <4> QED
        BY <2>2, <4>1, <4>2
    <3> QED
      BY <2>2, <3>1 DEF TypeOK
  <2> QED
    BY <2>1, <2>2 DEF ReadRoute, ReadStatus, CheckLink, RequestSession, Refused, RecoveredLocally,
                      ClearHubSession
<1> QED
  BY <1>1, <1>3, <1>4 DEF Calm

(* Everything else but joins, grants, moves and captures.                   *)
LEMMA OthersCalm ==
  ASSUME TypeOK, NEW s \in Tab,
         \/ \E n \in notices : HandleNotice(n)
         \/ \E t \in Tab : \/ AudioLost(t) \/ RemoveTab(t)
                           \/ ReadJoinStatus(t) \/ CheckJoin(t) \/ RequestJoin(t) \/ JoinRefused(t)
         \/ \E c \in Caller : Greeted(c)
         \/ ListDisabled \/ ClearNext \/ Enabled \/ ListEnabled \/ RestoreNext
         \/ HubSpeaks \/ Disable \/ Enable \/ Paired
  PROVE  Calm(s)
<1>2. ASSUME NEW n \in notices, HandleNotice(n) PROVE Calm(s)
  BY <1>2, StartRestoreCalm DEF HandleNotice, loops
<1>3. CASE RestoreNext
  <2>1. CASE enabling.todo = {}
    BY <1>3, <2>1 DEF RestoreNext, NoLoop, Calm, Names
  <2>2. CASE enabling.todo # {}
    <3>1. PICK n \in enabling.todo :
            StartRestore(n.tab, n.channel) /\ enabling' = [enabling EXCEPT !.todo = @ \ {n}]
      BY <1>3, <2>2 DEF RestoreNext
    <3>2. enabling'.todo \subseteq enabling.todo
      BY <3>1 DEF TypeOK, Loop
    <3> QED
      BY <1>3, <3>1, <3>2, StartRestoreCalm DEF RestoreNext
  <2> QED
    BY <2>1, <2>2
<1>4. ASSUME NEW t \in Tab, AudioLost(t) \/ RemoveTab(t) PROVE Calm(s)
  <2>1. /\ UNCHANGED <<restore, join, enabling, overtaken>>
        /\ \A n \in notices' : n \in notices \/ n.channel = None
    <3>1. UNCHANGED <<restore, join, enabling, overtaken>>
      BY <1>4 DEF AudioLost, RemoveTab, loops
    <3>2. notices' \subseteq notices \cup {[tab |-> t, channel |-> None]}
      BY <1>4 DEF AudioLost, RemoveTab
    <3> QED
      BY <3>1, <3>2
  <2>2. routes'[s] # None => /\ routes[s] # None
                             /\ routes'[s].channel = routes[s].channel
                             /\ routes'[s].hub \in {None, routes[s].hub}
    <3>2. CASE AudioLost(t)
      BY <3>2 DEF AudioLost, Present, TypeOK, Route
    <3>3. CASE RemoveTab(t)
      BY <3>3 DEF RemoveTab, TypeOK
    <3> QED
      BY <1>4, <3>2, <3>3
  <2> QED
    BY <2>1, <2>2 DEF Calm, Names
<1>5. ASSUME NEW t \in Tab, ReadJoinStatus(t) \/ CheckJoin(t) \/ RequestJoin(t) \/ JoinRefused(t)
      PROVE  Calm(s)
  <2>1. UNCHANGED <<routes, restore, notices, enabling, overtaken>>
    BY <1>5 DEF ReadJoinStatus, CheckJoin, RequestJoin, JoinRefused, loops
  <2>2. \A c \in Channel : join'[s].channel = c => join[s].channel = c
    <3>1. Idle.channel = None
      BY DEF Idle
    <3>2. \/ join' = [join EXCEPT ![t] = Idle]
          \/ \E at : join' = [join EXCEPT ![t] = [@ EXCEPT !.at = at]]
      BY <1>5 DEF ReadJoinStatus, CheckJoin, RequestJoin, JoinRefused, EndJoin
    <3> QED
      BY <3>1, <3>2, HubRouteAssumption DEF TypeOK, Task
  <2> QED
    BY <2>1, <2>2 DEF Calm, Names
<1>6. CASE ClearNext
  <2>1. UNCHANGED <<restore, join, notices, enabling, overtaken>>
    BY <1>6 DEF ClearNext
  <2>2. CASE routes' = routes
    BY <2>1, <2>2 DEF Calm, Names
  <2>3. ASSUME NEW t \in Tab, ClearHubSession(t) PROVE Calm(s)
    <3>1. routes'[s] # None => /\ routes[s] # None
                               /\ routes'[s].channel = routes[s].channel
                               /\ routes'[s].hub \in {None, routes[s].hub}
      BY <2>3 DEF ClearHubSession, TypeOK, Route
    <3> QED
      BY <2>1, <3>1 DEF Calm, Names
  <2> QED
    BY <1>6, <2>2, <2>3 DEF ClearNext, TypeOK, Loop
<1>7. CASE ListEnabled
  <2>1. UNCHANGED <<routes, restore, join, notices, overtaken>>
    BY <1>7 DEF ListEnabled
  <2>2. \A n \in enabling'.todo : n.tab = s => n.channel = routes[s].channel
    BY <1>7 DEF ListEnabled
  <2> QED
    BY <2>1, <2>2 DEF Calm, Names
<1>8. CASE Enable \/ Paired \/ Enabled
  <2>1. UNCHANGED <<routes, restore, join, notices, overtaken>> /\ enabling'.todo = {}
    BY <1>8 DEF Enable, Paired, Enabled, NoLoop
  <2> QED
    BY <2>1 DEF Calm, Names
<1>9. CASE ListDisabled \/ HubSpeaks \/ Disable \/ \E c \in Caller : Greeted(c)
  BY <1>9 DEF ListDisabled, HubSpeaks, Disable, Greeted, loops, Calm, Names
<1> QED
  BY <1>2, <1>3, <1>4, <1>5, <1>6, <1>7, <1>8, <1>9

(* The port opened or gone, and what waits on it given up.                  *)
LEMMA PortCalm ==
  ASSUME TypeOK, NEW s \in Tab,
         \/ LinkLost \/ CloseLink \/ UNCHANGED vars
         \/ \E c \in Caller : ReadHubSettings(c) \/ OpenPort(c) \/ GiveUp(c)
  PROVE  Calm(s)
<1>1. UNCHANGED <<routes, notices, enabling, overtaken>>
  BY PortSteps DEF vars
<1>2. \/ restore' = Rejected(restore) /\ join' = Rejected(join)
      \/ UNCHANGED <<restore, join>>
  BY PortSteps DEF vars, DropLink
<1>3. restore'[s].channel = restore[s].channel /\ join'[s].channel = join[s].channel
  BY <1>2, RejectedTypes
<1> QED
  BY <1>1, <1>3 DEF Calm, Names

(* The steps that bind, move or capture a route.                            *)

(* Another tab's route, tasks and notices are not concerned.                *)
LEMMA BindCalm ==
  ASSUME TypeOK, NEW t \in Tab, NEW s \in Tab, s # t,
         \/ Granted(t) \/ JoinGranted(t) \/ Captured(t)
         \/ \E c \in Channel : Move(t, c) \/ AddTab(t, c)
  PROVE  Calm(s)
<1>1. /\ routes'[s] = routes[s] /\ overtaken'[s] = overtaken[s]
      /\ restore'[s] = restore[s] /\ join'[s] = join[s]
      /\ enabling' = enabling
      /\ \A n \in notices' : n \in notices \/ n.tab = t
  <2>1. CASE Granted(t)
    BY <2>1 DEF Granted, SetHubSession, EndRestore, TypeOK, loops
  <2>2. CASE JoinGranted(t)
    BY <2>2 DEF JoinGranted, SetHubSession, EndJoin, TypeOK, loops
  <2>3. CASE Captured(t)
    BY <2>3 DEF Captured, EndJoin, TypeOK, loops
  <2>4. ASSUME NEW c \in Channel, Move(t, c)
        PROVE  /\ routes'[s] = routes[s] /\ overtaken'[s] = overtaken[s]
               /\ restore'[s] = restore[s] /\ join'[s] = join[s]
               /\ enabling' = enabling
               /\ \A n \in notices' : n \in notices \/ n.tab = t
    <3>1. notices' \subseteq notices \cup {[tab |-> t, channel |-> c]}
      BY <2>4 DEF Move
    <3>2. routes'[s] = routes[s] /\ overtaken'[s] = overtaken[s]
      BY <2>4 DEF Move, TypeOK
    <3> QED
      BY <2>4, <3>1, <3>2 DEF Move, loops
  <2>5. ASSUME NEW c \in Channel, AddTab(t, c)
        PROVE  /\ routes'[s] = routes[s] /\ overtaken'[s] = overtaken[s]
               /\ restore'[s] = restore[s] /\ join'[s] = join[s]
               /\ enabling' = enabling
               /\ \A n \in notices' : n \in notices \/ n.tab = t
    BY <2>5 DEF AddTab, TypeOK, loops
  <2> QED
    BY <2>1, <2>2, <2>3, <2>4, <2>5
<1> QED
  BY <1>1 DEF Calm, Names

(* OwnOnly after a step, part by part.                                      *)
LEMMA OwnOnlyParts ==
  ASSUME NEW t \in Tab, NEW c,
         routes'[t].channel = c, routes'[t].hub \in {None, c},
         restore'[t].channel \in {None, c}, join'[t].channel \in {None, c},
         \A n \in notices' \cup enabling'.todo : n.tab = t => n.channel \in {None, c}
  PROVE  OwnOnly(t)'
  BY HubRouteAssumption DEF OwnOnly, Names

(* ... and before it.                                                       *)
LEMMA OwnOnlyGives ==
  ASSUME TypeOK, NEW t \in Tab, OwnOnly(t), NEW c, routes[t].channel = c
  PROVE  /\ restore[t].channel \in {None, c} /\ join[t].channel \in {None, c}
         /\ \A n \in notices \cup enabling.todo : n.tab = t => n.channel \in {None, c}
<1>1. restore[t].channel \in Channel \cup {None} /\ join[t].channel \in Channel \cup {None}
  BY DEF TypeOK, Task
<1>2. \A n \in notices \cup enabling.todo : n.channel \in Channel \cup {None}
  BY DEF TypeOK, Loop, Notice
<1> QED
  BY <1>1, <1>2 DEF OwnOnly, Names

(* The session that t is given: its channel was named for it, or nothing    *)
(* else is named any more.                                                  *)
LEMMA BoundOwn ==
  ASSUME TypeOK, FixInv, NEW t \in Tab, t \in Present', NEW c \in Channel \cup {None}, NEW others,
         SetHubSession(t, c, others),
         UNCHANGED <<notices, enabling>>,
         Names(t, c),
         restore'[t].channel \in {None, restore[t].channel},
         join'[t].channel \in {None, join[t].channel},
         ~others => /\ restore'[t].channel = None /\ join'[t].channel = None /\ ~Awaited(t)
  PROVE  overtaken'[t] \/ OwnOnly(t)'
<1>1. t \in Present
  BY DEF SetHubSession, Present
<1>2. routes'[t].channel = routes[t].channel /\ routes'[t].hub = c
  <2> DEFINE r == [routes[t] EXCEPT !.hub = c, !.lost = FALSE]
  <2>1. routes' = [routes EXCEPT ![t] = r]
    BY <1>1 DEF SetHubSession, Present
  <2>2. routes[t] \in Route
    BY <1>1 DEF Present, TypeOK
  <2>3. r.channel = routes[t].channel /\ r.hub = c
    BY <2>2 DEF Route
  <2> HIDE DEF r
  <2> QED
    BY <2>1, <2>3 DEF TypeOK
<1>3. overtaken'[t] = (overtaken[t] /\ (others \/ routes[t].channel # c))
  BY <1>1 DEF SetHubSession, Present, TypeOK
<1>4. CASE ~overtaken[t]
  <2>1. OwnOnly(t)
    BY <1>1, <1>4 DEF FixInv
  <2>2. c \in {None, routes[t].channel}
    BY <2>1 DEF OwnOnly
  <2>3. /\ restore[t].channel \in {None, routes[t].channel} /\ join[t].channel \in {None, routes[t].channel}
        /\ \A n \in notices \cup enabling.todo : n.tab = t => n.channel \in {None, routes[t].channel}
    BY <2>1, OwnOnlyGives
  <2> QED
    BY <1>2, <2>2, <2>3, OwnOnlyParts
<1>5. CASE ~others /\ routes[t].channel = c
  <2>1. \A n \in notices \cup enabling.todo : n.tab = t => n.channel = None
    BY <1>5 DEF Awaited
  <2> QED
    BY <1>2, <1>5, <2>1, OwnOnlyParts
<1> QED
  BY <1>3, <1>4, <1>5

LEMMA GrantOwn ==
  ASSUME TypeOK, FixInv, NEW t \in Tab, t \in Present', Granted(t) \/ JoinGranted(t)
  PROVE  overtaken'[t] \/ OwnOnly(t)'
<1>1. Idle.channel = None
  BY DEF Idle
<1>2. CASE Granted(t)
  <2> DEFINE c == restore[t].channel
             others == join[t] # Idle \/ Awaited(t)
  <2>1. /\ SetHubSession(t, c, others) /\ UNCHANGED <<notices, join, enabling>>
        /\ restore' = [restore EXCEPT ![t] = Idle]
    BY <1>2 DEF Granted, EndRestore, loops
  <2>2. c \in Channel \cup {None} /\ Names(t, c)
    BY DEF TypeOK, Task, Names
  <2>3. restore'[t].channel = None /\ join'[t].channel = join[t].channel
    BY <1>1, <2>1 DEF TypeOK
  <2>4. ~others => join'[t].channel = None /\ ~Awaited(t)
    BY <1>1, <2>3
  <2> HIDE DEF c, others
  <2> QED
    BY <2>1, <2>2, <2>3, <2>4, BoundOwn
<1>3. CASE JoinGranted(t)
  <2> DEFINE c == join[t].channel
             others == Fixed(t)
  <2>1. /\ SetHubSession(t, c, others) /\ UNCHANGED <<notices, restore, enabling>>
        /\ join' = [join EXCEPT ![t] = Idle]
    BY <1>3 DEF JoinGranted, EndJoin, loops
  <2>2. c \in Channel \cup {None} /\ Names(t, c)
    BY DEF TypeOK, Task, Names
  <2>3. join'[t].channel = None /\ restore'[t].channel = restore[t].channel
    BY <1>1, <2>1 DEF TypeOK
  <2>4. ~others => restore'[t].channel = None /\ ~Awaited(t)
    BY <2>3 DEF Fixed
  <2> HIDE DEF c, others
  <2> QED
    BY <2>1, <2>2, <2>3, <2>4, BoundOwn
<1> QED
  BY <1>2, <1>3

LEMMA CaptureOwn ==
  ASSUME TypeOK, FixInv, NEW t \in Tab, t \in Present', Captured(t)
  PROVE  overtaken'[t] \/ OwnOnly(t)'
<1> DEFINE c == join[t].channel
<1>1. UNCHANGED <<restore, notices, enabling>>
  BY DEF Captured, loops
<1>2. CASE EndJoin(t) /\ UNCHANGED <<routes, overtaken>>
  <2>1. join'[t].channel = None
    BY <1>2 DEF EndJoin, Idle, TypeOK
  <2>2. Calm(t)
    BY <1>1, <1>2, <2>1, HubRouteAssumption DEF Calm, Names
  <2> QED
    BY <2>2, CalmKeeps
<1>3. CASE /\ routes' = [routes EXCEPT ![t] = [channel |-> c, hub |-> None, lost |-> FALSE]]
           /\ overtaken' = [overtaken EXCEPT ![t] = Fixed(t)]
           /\ join' = [join EXCEPT ![t].at = "reading"]
  <2>1. routes'[t].channel = c /\ routes'[t].hub = None
    BY <1>3 DEF TypeOK
  <2>2. overtaken'[t] = Fixed(t)
    BY <1>3 DEF TypeOK
  <2>3. join'[t].channel = c
    BY <1>3 DEF TypeOK, Task
  <2>4. CASE ~Fixed(t)
    <3>1. restore'[t].channel = None /\ \A n \in notices' \cup enabling'.todo : n.tab = t => n.channel = None
      BY <1>1, <2>4 DEF Fixed, Awaited
    <3> QED
      BY <2>1, <2>3, <3>1, OwnOnlyParts
  <2> QED
    BY <2>2, <2>4
<1> QED
  BY <1>2, <1>3 DEF Captured

LEMMA MoveOwn ==
  ASSUME TypeOK, NEW t \in Tab, NEW c \in Channel, Move(t, c)
  PROVE  overtaken'[t] \/ OwnOnly(t)'
<1>1. UNCHANGED <<restore, join, enabling>>
  BY DEF Move, loops
<1>2. routes'[t].channel = c /\ routes'[t].hub = None
  BY DEF Move, Present, TypeOK, Route
<1>3. overtaken'[t] = (overtaken[t] \/ Fixed(t) \/ join[t] # Idle)
  BY DEF Move, TypeOK
<1>4. CASE ~Fixed(t) /\ join[t] = Idle
  <2>1. restore'[t].channel = None /\ join'[t].channel = None
    BY <1>1, <1>4 DEF Fixed, Idle
  <2>2. notices' \subseteq notices \cup {[tab |-> t, channel |-> c]}
    BY DEF Move
  <2>3. \A n \in notices' \cup enabling'.todo : n.tab = t => n.channel \in {None, c}
    BY <1>1, <1>4, <2>2 DEF Fixed, Awaited
  <2> QED
    BY <1>2, <2>1, <2>3, OwnOnlyParts
<1> QED
  BY <1>3, <1>4

LEMMA FixStep ==
  ASSUME TypeOK, FixInv, [Next]_vars
  PROVE  FixInv'
<1> SUFFICES ASSUME NEW s \in Tab, s \in Present' PROVE overtaken'[s] \/ OwnOnly(s)'
  BY DEF FixInv, Present
<1>1. CASE Calm(s)
  BY <1>1, CalmKeeps
<1>2. ASSUME NEW t \in Tab, Granted(t) \/ JoinGranted(t) PROVE overtaken'[s] \/ OwnOnly(s)'
  BY <1>1, <1>2, BindCalm, GrantOwn
<1>3. ASSUME NEW t \in Tab, Captured(t) PROVE overtaken'[s] \/ OwnOnly(s)'
  BY <1>1, <1>3, BindCalm, CaptureOwn
<1>4. ASSUME NEW t \in Tab, NEW c \in Channel, Move(t, c) PROVE overtaken'[s] \/ OwnOnly(s)'
  BY <1>1, <1>4, BindCalm, MoveOwn
<1>5. ASSUME NEW t \in Tab, NEW c \in Channel, AddTab(t, c) PROVE overtaken'[s] \/ OwnOnly(s)'
  <2>1. CASE s = t
    BY <1>5, <2>1 DEF AddTab, Present
  <2> QED
    BY <1>1, <1>5, <2>1, BindCalm
<1>6. ASSUME NEW t \in Tab,
             \/ ReadRoute(t) \/ ReadStatus(t) \/ CheckLink(t) \/ RequestSession(t) \/ Refused(t)
             \/ RecoveredLocally(t)
      PROVE  overtaken'[s] \/ OwnOnly(s)'
  BY <1>1, <1>6, RestoringCalm
<1>7. CASE \/ \E n \in notices : HandleNotice(n)
           \/ \E t \in Tab : \/ AudioLost(t) \/ RemoveTab(t)
                             \/ ReadJoinStatus(t) \/ CheckJoin(t) \/ RequestJoin(t) \/ JoinRefused(t)
           \/ \E c \in Caller : Greeted(c)
           \/ ListDisabled \/ ClearNext \/ Enabled \/ ListEnabled \/ RestoreNext
           \/ HubSpeaks \/ Disable \/ Enable \/ Paired
  BY <1>1, <1>7, OthersCalm
<1>8. CASE \/ LinkLost \/ CloseLink \/ UNCHANGED vars
           \/ \E c \in Caller : ReadHubSettings(c) \/ OpenPort(c) \/ GiveUp(c)
  BY <1>1, <1>8, PortCalm
<1>9. CASE Quiet
  BY <1>2, <1>3, <1>4, <1>5, <1>6, <1>7, <1>9 DEF Quiet, RestoreTask
<1> QED
  BY <1>8, <1>9, NextSplit

-----------------------------------------------------------------------------
(* Types and places, grants only over a port that was opened since the last *)
(* disable, nothing left of a link that a disable closed, and channels that *)
(* agree with their routes: together they hold in every reachable state     *)
(* (background.js:1005-1080).                                               *)
THEOREM Inductive == Spec => []IInv
<1>1. ASSUME IInv, [Next]_vars PROVE IInv'
  BY <1>1, TypeStep, LinkStep, ClearStep, FixStep DEF IInv
<1> QED
  BY <1>1, InitInv, PTL DEF Spec

(* The types of the routes, tasks, notices, calls and loops.                *)
THEOREM TypeCorrect == Spec => []TypeOK
<1>1. IInv => TypeOK
  BY DEF IInv
<1> QED
  BY <1>1, Inductive, PTL

(* After a disable, and until a port is opened again, no route has a        *)
(* session, whatever was under way: a grant is heard on a port, a port was  *)
(* opened since the link was closed (LinkInv), and the disable's list had   *)
(* every session of before (ClearInv; hub-link.js:212-217,                  *)
(* background.js:979-987).                                                  *)
THEOREM ClosedIsLocalHolds == Spec => []ClosedIsLocal
<1>1. IInv => ClosedIsLocal
  BY DEF IInv, ClearInv, HasSession, ClosedIsLocal, Present, NoLoop
<1> QED
  BY <1>1, Inductive, PTL

(* A route that no move or capture overtook is bridged on its own channel   *)
(* (background.js:1025-1037, offscreen.js:1182-1198).                       *)
THEOREM OnOwnChannelHolds == Spec => []OnOwnChannel
<1>1. ASSUME IInv PROVE OnOwnChannel
  <2>1. \A t \in Present : routes[t].hub \in Channel \cup {None}
    BY <1>1 DEF IInv, TypeOK, Present, Route
  <2> QED
    BY <1>1, <2>1 DEF IInv, FixInv, OwnOnly, Names, OnOwnChannel
<1> QED
  BY <1>1, Inductive, PTL
=============================================================================
