------------------------------- MODULE HubRoute -------------------------------
(***************************************************************************)
(* The Hub sessions of the captured tabs.  The service worker               *)
(* (background.js) asks the Hub for a session on a route's channel and     *)
(* hands it to the offscreen document (offscreen.js), which opens the audio*)
(* socket, drops the session when the socket is lost or the route moves,   *)
(* and says so to the worker.  An action is what runs between two awaits.  *)
(* A message to the document is handled in the turn that sends it, as such *)
(* messages arrive in order; a notice to the worker is delayed at will.  Of*)
(* the link (hub-link.js, HubLink) we keep the setting, whether there is a *)
(* port, and where the calls of connect wait: what was read of the setting *)
(* may be old when the port is opened.                                     *)
(***************************************************************************)
EXTENDS Naturals, FiniteSets

CONSTANTS
  Tab, Channel,
  MaxUnderWay, \* how much is under way when the user does more (a bound)
  Popup,       \* the caller of connect that is not a restore: setEnabled
  None         \* no route, no session, no channel

ASSUME HubRouteAssumption == None \notin Tab \cup Channel /\ Popup \notin Tab

VARIABLES
  enabled,     \* the Hub setting, as stored
  port,        \* is there a port?  (hubPort)
  connected,   \* is hubConnectionState "connected"?
  dial,        \* caller -> where its connectHub waits
  routes,      \* tab -> its route, or None
  notices,     \* HUB_AUDIO_DISCONNECTED, HUB_CHANNEL_CHANGED on their way
  restore,     \* tab -> its running restoreHubRoute (hubRouteRestores)
  join,        \* tab -> its running addTab (a bound: one for each tab)
  enabling,    \* an enable or a pairing, and the routes it has still to restore
  disabling,   \* a disable, and the tabs it has still to clear
  reopened,    \* history: a port was opened since a disable last closed it
  overtaken    \* history: the tab moved while a channel was fixed for it

vars == <<enabled, port, connected, dial, routes, notices, restore, join, enabling,
          disabling, reopened, overtaken>>
link == <<enabled, port, connected, dial, reopened>>
loops == <<enabling, disabling>>

Caller == Tab \cup {Popup}

(* The setting is read, the port is about to be opened, the Hello waits for *)
(* its answer, or for its timeout since another port was opened.            *)
Dial == {"idle", "reading", "opening", "greeting", "failing"}

(* hub: the channel of its session, or None (whether its socket is ready is *)
(* only displayed); lost: since the last session was lost, none came and no *)
(* fallback was completed.                                                  *)
Route == [channel: Channel, hub: Channel \cup {None}, lost: BOOLEAN]

(* A task of the worker, and the channel it will ask for once that is fixed.*)
TaskPlaces == {"idle", "starting", "reading", "connecting", "waiting", "asking", "failed",
               "falling"}
Task == [at: TaskPlaces, channel: Channel \cup {None}]
Idle == [at |-> "idle", channel |-> None]

Notice == [tab: Tab, channel: Channel \cup {None}]
Loop(items) == [at: {"idle", "linking", "listing", "looping"}, todo: SUBSET items]
NoLoop == [at |-> "idle", todo |-> {}]

Init ==
  /\ enabled \in BOOLEAN /\ port = FALSE /\ connected = FALSE
  /\ dial = [c \in Caller |-> "idle"]
  /\ routes = [t \in Tab |-> None]
  /\ notices = {}
  /\ restore = [t \in Tab |-> Idle]
  /\ join = [t \in Tab |-> Idle]
  /\ enabling = NoLoop /\ disabling = NoLoop
  /\ reopened = FALSE
  /\ overtaken = [t \in Tab |-> FALSE]

Present == {t \in Tab : routes[t] # None}

(* A restore of the tab is still to come, or has begun, for a channel that  *)
(* is fixed already.                                                        *)
Awaited(t) == \E n \in notices \cup enabling.todo : n.tab = t /\ n.channel # None
Fixed(t) == restore[t].channel # None \/ Awaited(t)

UnderWay ==
  Cardinality(notices) + Cardinality({t \in Tab : restore[t] # Idle})
    + Cardinality({t \in Tab : join[t] # Idle})
    + (IF enabling = NoLoop THEN 0 ELSE 1) + (IF disabling = NoLoop THEN 0 ELSE 1)
MayAct == UnderWay < MaxUnderWay

-----------------------------------------------------------------------------
(* The offscreen document.                                                 *)

(* setHubSession: a new socket, whatever channel the grant is for; others:  *)
(* another session may be under way.                                        *)
SetHubSession(t, channel, others) ==
  IF routes[t] = None THEN UNCHANGED <<routes, overtaken>>
  ELSE /\ routes' = [routes EXCEPT ![t] =
                       [@ EXCEPT !.hub = channel, !.lost = FALSE]]
       /\ overtaken' = [overtaken EXCEPT ![t] = @ /\ (others \/ routes[t].channel # channel)]

(* clearHubSession; nothing for a tab that has no route.                    *)
ClearHubSession(t) ==
  routes' = IF routes[t] = None THEN routes
            ELSE [routes EXCEPT ![t].hub = None]


(* The socket closes.                                                       *)
AudioLost(t) ==
  /\ t \in Present /\ routes[t].hub # None
  /\ routes' = [routes EXCEPT ![t] = [@ EXCEPT !.hub = None, !.lost = TRUE]]
  /\ notices' = notices \cup {[tab |-> t, channel |-> None]}
  /\ UNCHANGED <<link, restore, join, loops, overtaken>>

(* Mutant: the session goes with the route to the new channel.              *)
MoveWithSession(t, channel) ==
  /\ t \in Present /\ routes[t].channel # channel
  /\ routes' = [routes EXCEPT ![t].channel = channel]
  /\ overtaken' = [overtaken EXCEPT ![t] = @ \/ Fixed(t) \/ join[t] # Idle]
  /\ UNCHANGED <<link, notices, restore, join, loops>>

(* setTabChannel: a session of the old channel is closed first.             *)
Move(t, channel) ==
  /\ t \in Present /\ routes[t].channel # channel
  /\ IF routes[t].hub = None
     THEN /\ routes' = [routes EXCEPT ![t].channel = channel]
          /\ UNCHANGED notices
     ELSE /\ routes' = [routes EXCEPT ![t] = [channel |-> channel, hub |-> None,
                                              lost |-> TRUE]]
          /\ notices' = notices \cup {[tab |-> t, channel |-> channel]}
  /\ overtaken' = [overtaken EXCEPT ![t] = @ \/ Fixed(t) \/ join[t] # Idle]
  /\ UNCHANGED <<link, restore, join, loops>>

(* REMOVE_TAB, STOP_CHANNEL, STOP_ALL, the end of a track, a closed tab.    *)
RemoveTab(t) ==
  /\ t \in Present
  /\ routes' = [routes EXCEPT ![t] = None]
  /\ UNCHANGED <<link, notices, restore, join, loops, overtaken>>

-----------------------------------------------------------------------------
(* The link.  A request is asked on the port there is: once that port is    *)
(* closed or superseded its answer is not heard any more, and it fails.     *)

Rejected(tasks) ==
  [t \in Tab |-> IF tasks[t].at = "asking" THEN [tasks[t] EXCEPT !.at = "failed"]
                 ELSE tasks[t]]

(* closeHubPort, and the disconnect event: what waits for an answer is      *)
(* rejected, and with it the connect that waits for its Hello.              *)
HungUp(calls) ==
  [c \in Caller |-> IF calls[c] \in {"greeting", "failing"} THEN "idle" ELSE calls[c]]

DropLink(calls) ==
  /\ port' = FALSE /\ connected' = FALSE
  /\ dial' = HungUp(calls)
  /\ restore' = Rejected(restore) /\ join' = Rejected(join)

LinkLost ==
  /\ port
  /\ DropLink(dial)
  /\ UNCHANGED <<enabled, routes, notices, loops, reopened, overtaken>>

(* A challenge, an error without a request, a late answer.                  *)
HubSpeaks ==
  /\ port
  /\ connected' = ~connected
  /\ UNCHANGED <<enabled, port, dial, reopened, routes, notices, restore, join, loops, overtaken>>

Called(c, at) == [dial EXCEPT ![c] = at]

(* connectHub has the setting.  With a port it waits for the connect that is*)
(* under way, if there is one; what its caller does then may come at once.  *)
ReadHubSettings(c) ==
  /\ dial[c] = "reading"
  /\ IF enabled
     THEN /\ dial' = Called(c, IF port THEN "idle" ELSE "opening")
          /\ UNCHANGED <<port, connected, restore, join>>
     ELSE DropLink(Called(c, "idle"))
  /\ UNCHANGED <<enabled, reopened, routes, notices, loops, overtaken>>

(* connectHub has the profile id: it opens a port, whether or not there is  *)
(* one now and whatever the setting is now, or fails to.  What waits on the *)
(* port there was will time out.                                            *)
OpenPort(c) ==
  /\ dial[c] = "opening"
  /\ connected' = FALSE
  /\ \/ /\ port' = TRUE /\ reopened' = TRUE
        /\ dial' = [d \in Caller |-> IF d = c THEN "greeting"
                                     ELSE IF dial[d] = "greeting" THEN "failing" ELSE dial[d]]
        /\ restore' = Rejected(restore) /\ join' = Rejected(join)
     \/ /\ dial' = Called(c, "idle")
        /\ UNCHANGED <<port, reopened, restore, join>>
  /\ UNCHANGED <<enabled, routes, notices, loops, overtaken>>

(* The Hello is answered.                                                   *)
Greeted(c) ==
  /\ dial[c] = "greeting"
  /\ connected' = TRUE /\ dial' = Called(c, "idle")
  /\ UNCHANGED <<enabled, port, reopened, routes, notices, restore, join, loops, overtaken>>

(* The Hello is refused or times out: a port that is still the one in use   *)
(* is closed.                                                               *)
GiveUp(c) ==
  /\ \/ dial[c] = "greeting" /\ DropLink(Called(c, "idle"))
     \/ /\ dial[c] = "failing"
        /\ connected' = FALSE /\ dial' = Called(c, "idle")
        /\ UNCHANGED <<port, restore, join>>
  /\ UNCHANGED <<enabled, reopened, routes, notices, loops, overtaken>>

-----------------------------------------------------------------------------
(* restoreHubRoute.                                                        *)

(* A restore that is already running takes the request over.                *)
StartRestore(t, channel) ==
  restore' = IF restore[t] # Idle THEN restore
             ELSE [restore EXCEPT ![t] = [at |-> "starting", channel |-> channel]]

HandleNotice(n) ==
  /\ notices' = notices \ {n}
  /\ StartRestore(n.tab, n.channel)
  /\ UNCHANGED <<link, routes, join, loops, overtaken>>

Goto(t, at) == restore' = [restore EXCEPT ![t].at = at]
EndRestore(t) == restore' = [restore EXCEPT ![t] = Idle]

(* The state of the bridge arrives, and the channel is fixed.               *)
ReadRoute(t) ==
  /\ restore[t].at = "starting"
  /\ restore' = [restore EXCEPT ![t] =
       IF routes[t] = None THEN Idle
       ELSE [at |-> "reading",
             channel |-> IF @.channel = None THEN routes[t].channel ELSE @.channel]]
  /\ UNCHANGED <<link, routes, notices, join, loops, overtaken>>

(* getStatus: connect is called if the Hub is enabled.                      *)
ReadStatus(t) ==
  /\ restore[t].at = "reading"
  /\ Goto(t, "connecting")
  /\ dial' = IF enabled THEN Called(t, "reading") ELSE dial
  /\ UNCHANGED <<enabled, port, connected, reopened, routes, notices, join, loops, overtaken>>

(* Only the state of the link is tested.  The old socket is closed before   *)
(* the Hub is asked for a new session, and also when there is no link.      *)
CheckLink(t) ==
  /\ restore[t].at = "connecting" /\ dial[t] = "idle"
  /\ Goto(t, IF connected THEN "waiting" ELSE "falling")
  /\ ClearHubSession(t)
  /\ UNCHANGED <<link, notices, join, loops, overtaken>>

(* After 100 ms, and with the endpoint id, the request needs a port.        *)
RequestSession(t) ==
  /\ restore[t].at = "waiting"
  /\ Goto(t, IF port THEN "asking" ELSE "failed")
  /\ UNCHANGED <<link, routes, notices, join, loops, overtaken>>

Granted(t) ==
  /\ restore[t].at = "asking"
  /\ SetHubSession(t, restore[t].channel, join[t] # Idle \/ Awaited(t))
  /\ connected' = TRUE
  /\ EndRestore(t)
  /\ UNCHANGED <<enabled, port, dial, reopened, notices, join, loops>>

(* The Hub refuses or does not answer in time, or the link has gone.        *)
Refused(t) ==
  /\ \/ restore[t].at = "asking" /\ connected' \in {FALSE, connected}
     \/ restore[t].at = "failed" /\ UNCHANGED connected
  /\ ClearHubSession(t)
  /\ Goto(t, "falling")
  /\ UNCHANGED <<enabled, port, dial, reopened, notices, join, loops, overtaken>>

(* ENSURE_MICROPHONE has been answered: the route goes on without the Hub.  *)
RecoveredLocally(t) ==
  /\ restore[t].at = "falling"
  /\ routes' = IF routes[t] = None THEN routes ELSE [routes EXCEPT ![t].lost = FALSE]
  /\ EndRestore(t)
  /\ UNCHANGED <<link, notices, join, loops, overtaken>>

-----------------------------------------------------------------------------
(* addTab: the tab is captured and joins the Hub.  (A tab that is captured  *)
(* already is moved or reloaded, or removed first.)                         *)

AddTab(t, channel) ==
  /\ MayAct /\ join[t] = Idle /\ routes[t] = None
  /\ join' = [join EXCEPT ![t] = [at |-> "starting", channel |-> channel]]
  /\ UNCHANGED <<link, routes, notices, restore, loops, overtaken>>

EndJoin(t) == join' = [join EXCEPT ![t] = Idle]

(* A capture that fails ends the call.                                      *)
Captured(t) ==
  /\ join[t].at = "starting"
  /\ \/ /\ routes' = [routes EXCEPT ![t] = [channel |-> join[t].channel, hub |-> None,
                                            lost |-> FALSE]]
        /\ overtaken' = [overtaken EXCEPT ![t] = Fixed(t)]
        /\ join' = [join EXCEPT ![t].at = "reading"]
     \/ EndJoin(t) /\ UNCHANGED <<routes, overtaken>>
  /\ UNCHANGED <<link, notices, restore, loops>>

(* getStatus: the setting, and in a later turn the state.                   *)
ReadJoinStatus(t) ==
  /\ join[t].at = "reading"
  /\ join' = [join EXCEPT ![t] = IF enabled THEN [@ EXCEPT !.at = "connecting"] ELSE Idle]
  /\ UNCHANGED <<link, routes, notices, restore, loops, overtaken>>

CheckJoin(t) ==
  /\ join[t].at = "connecting"
  /\ join' = [join EXCEPT ![t] = IF connected THEN [@ EXCEPT !.at = "waiting"] ELSE Idle]
  /\ UNCHANGED <<link, routes, notices, restore, loops, overtaken>>

RequestJoin(t) ==
  /\ join[t].at = "waiting"
  /\ join' = [join EXCEPT ![t] = IF port THEN [@ EXCEPT !.at = "asking"] ELSE Idle]
  /\ UNCHANGED <<link, routes, notices, restore, loops, overtaken>>

JoinGranted(t) ==
  /\ join[t].at = "asking"
  /\ SetHubSession(t, join[t].channel, Fixed(t))
  /\ connected' = TRUE
  /\ EndJoin(t)
  /\ UNCHANGED <<enabled, port, dial, reopened, notices, restore, loops>>

JoinRefused(t) ==
  /\ \/ join[t].at = "asking" /\ connected' \in {FALSE, connected}
     \/ join[t].at = "failed" /\ UNCHANGED connected
  /\ EndJoin(t)
  /\ UNCHANGED <<enabled, port, dial, reopened, routes, notices, restore, loops, overtaken>>

-----------------------------------------------------------------------------
(* The routes there are when the Hub is enabled, paired or disabled.  The   *)
(* popup offers the other setting, and may be opened anew before the last   *)
(* change is through.                                                       *)

(* setHubEnabledForExistingRoutes(false): the setting is stored, the link is*)
(* closed, then the routes are listed, then they are cleared.               *)
Disable ==
  /\ MayAct /\ enabled /\ disabling = NoLoop
  /\ enabled' = FALSE
  /\ disabling' = [at |-> "linking", todo |-> {}]
  /\ UNCHANGED <<port, connected, dial, reopened, routes, notices, restore, join, enabling,
                 overtaken>>

(* Mutant: the answers to what was asked before are still heard.            *)
CloseLinkUnrejected ==
  /\ disabling.at = "linking"
  /\ port' = FALSE /\ connected' = FALSE /\ reopened' = FALSE
  /\ disabling' = [at |-> "listing", todo |-> {}]
  /\ UNCHANGED <<enabled, dial, routes, notices, restore, join, enabling, overtaken>>

CloseLink ==
  /\ disabling.at = "linking"
  /\ DropLink(dial)
  /\ reopened' = FALSE
  /\ disabling' = [at |-> "listing", todo |-> {}]
  /\ UNCHANGED <<enabled, routes, notices, enabling, overtaken>>

ListDisabled ==
  /\ disabling.at = "listing"
  /\ disabling' = [at |-> "looping", todo |-> Present]
  /\ UNCHANGED <<link, routes, notices, restore, join, enabling, overtaken>>

ClearNext ==
  /\ disabling.at = "looping"
  /\ IF disabling.todo = {} THEN disabling' = NoLoop /\ UNCHANGED routes
     ELSE \E t \in disabling.todo :
            /\ ClearHubSession(t)
            /\ disabling' = [disabling EXCEPT !.todo = @ \ {t}]
  /\ UNCHANGED <<link, notices, restore, join, enabling, overtaken>>

(* setHubEnabledForExistingRoutes(true): the setting is stored and connect  *)
(* called.                                                                  *)
Enable ==
  /\ MayAct /\ ~enabled /\ enabling = NoLoop
  /\ enabled' = TRUE
  /\ dial' = Called(Popup, "reading")
  /\ enabling' = [at |-> "linking", todo |-> {}]
  /\ UNCHANGED <<port, connected, reopened, routes, notices, restore, join, disabling, overtaken>>

(* With the link up and no pairing asked for, the routes there are, with    *)
(* their channels of that moment, are restored one after the other.         *)
Enabled ==
  /\ enabling.at = "linking" /\ dial[Popup] = "idle"
  /\ \/ connected /\ enabling' = [at |-> "listing", todo |-> {}]
     \/ enabling' = NoLoop
  /\ UNCHANGED <<link, routes, notices, restore, join, disabling, overtaken>>

(* confirmHubPairingForExistingRoutes: the Hub says that the Profile is     *)
(* paired.                                                                  *)
Paired ==
  /\ MayAct /\ enabling = NoLoop /\ port
  /\ connected' = TRUE
  /\ enabling' = [at |-> "listing", todo |-> {}]
  /\ UNCHANGED <<enabled, port, dial, reopened, routes, notices, restore, join, disabling,
                 overtaken>>

ListEnabled ==
  /\ enabling.at = "listing"
  /\ enabling' = [at |-> "looping",
                  todo |-> {[tab |-> t, channel |-> routes[t].channel] : t \in Present}]
  /\ UNCHANGED <<link, routes, notices, restore, join, disabling, overtaken>>

(* Each waits for the one before; starting early only adds behaviours.      *)
RestoreNext ==
  /\ enabling.at = "looping"
  /\ IF enabling.todo = {} THEN enabling' = NoLoop /\ UNCHANGED restore
     ELSE \E n \in enabling.todo :
            /\ StartRestore(n.tab, n.channel)
            /\ enabling' = [enabling EXCEPT !.todo = @ \ {n}]
  /\ UNCHANGED <<link, routes, notices, join, disabling, overtaken>>

Connect(c) == ReadHubSettings(c) \/ OpenPort(c) \/ Greeted(c) \/ GiveUp(c)

Worker ==
  \/ \E n \in notices : HandleNotice(n)
  \/ \E c \in Caller : Connect(c)
  \/ \E t \in Tab :
       \/ ReadRoute(t) \/ ReadStatus(t) \/ CheckLink(t) \/ RequestSession(t)
       \/ Granted(t) \/ Refused(t) \/ RecoveredLocally(t)
       \/ Captured(t) \/ ReadJoinStatus(t) \/ CheckJoin(t) \/ RequestJoin(t)
       \/ JoinGranted(t) \/ JoinRefused(t)
  \/ CloseLink \/ ListDisabled \/ ClearNext \/ Enabled \/ ListEnabled \/ RestoreNext

Next ==
  \/ Worker
  \/ \E t \in Tab :
       \/ AudioLost(t) \/ RemoveTab(t)
       \/ \E c \in Channel : Move(t, c) \/ AddTab(t, c)
  \/ LinkLost \/ HubSpeaks \/ Disable \/ Enable \/ Paired

Spec == Init /\ [][Next]_vars

(* Notices arrive, tasks of the worker go on, and requests are answered or  *)
(* time out.  Nobody is obliged to move, add or remove a tab, no socket to  *)
(* become ready or to close, no Hub to answer.                              *)
Restoring(t) ==
  \/ ReadRoute(t) \/ ReadStatus(t) \/ Connect(t) \/ CheckLink(t) \/ RequestSession(t)
  \/ Granted(t) \/ Refused(t) \/ RecoveredLocally(t)

FairSpec ==
  /\ Spec
  /\ \A t \in Tab, c \in Channel \cup {None} :
       WF_vars([tab |-> t, channel |-> c] \in notices /\ HandleNotice([tab |-> t, channel |-> c]))
  /\ \A t \in Tab : WF_vars(Restoring(t))

-----------------------------------------------------------------------------
TypeOK ==
  /\ enabled \in BOOLEAN /\ port \in BOOLEAN /\ connected \in BOOLEAN /\ reopened \in BOOLEAN
  /\ dial \in [Caller -> Dial]
  /\ routes \in [Tab -> Route \cup {None}]
  /\ notices \subseteq Notice
  /\ restore \in [Tab -> Task] /\ join \in [Tab -> Task]
  /\ \A t \in Tab : join[t] # Idle => join[t].channel \in Channel
  /\ enabling \in Loop(Notice) /\ disabling \in Loop(Tab)
  /\ overtaken \in [Tab -> BOOLEAN]

(* A closed link hears nothing: once a disable has closed the link and gone *)
(* through the routes, no route has a session until a port is opened again, *)
(* whatever was read, asked, joined or lost before (hub-link.js:213-214,    *)
(* background.js:977-987).  A connect that read the setting before the      *)
(* disable may open one: DisabledIsLocal.                                   *)
ClosedIsLocal ==
  (~reopened /\ disabling = NoLoop) => \A t \in Present : routes[t].hub = None

(* A disabled Hub hears nothing: after a disable, and until the Hub is      *)
(* enabled again, the tabs are bridged in this profile alone, as the popup  *)
(* says (popup.js:636).  The code does not keep this.                       *)
DisabledIsLocal ==
  (~enabled /\ disabling = NoLoop) => \A t \in Present : routes[t].hub = None

(* A route is bridged on its own channel, unless it was moved, or captured  *)
(* again, after a channel had been fixed for the session it then got        *)
(* (background.js:1025-1037, offscreen.js:1189-1198).                       *)
OnOwnChannel ==
  \A t \in Present : routes[t].hub \in {None, routes[t].channel} \/ overtaken[t]

=============================================================================
