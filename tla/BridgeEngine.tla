----------------------------- MODULE BridgeEngine -----------------------------
(***************************************************************************)
(* The routes and the audio graph of the offscreen document (offscreen.js):*)
(* tabs are captured, moved between channels, muted and removed by message *)
(* handlers that run to completion between awaits and interleave at them.  *)
(* A handler in flight is a call.  Of the graph we keep what a route hears:*)
(* the tabs, the microphone, and whether the microphone's gain is open; and *)
(* which nodes are live, that is, belong to the audioContext of now: the   *)
(* others are stale, and to connect a stale node with a live one throws.   *)
(***************************************************************************)
EXTENDS Naturals, FiniteSets

CONSTANTS
  Tab, Channel,
  Call,        \* handlers that are in flight at once
  None,        \* no route, no tab, no channel
  Sites,       \* which roles the tabs may have, by their sites
  MaxMuted     \* how many switches are on at once (a bound)

(* "page": a meeting whose own microphone is sent here too, as a fallback.  *)
Roles == {"meeting", "page", "source", "receiver"}

ASSUME EngineAssumption == None \notin Tab \cup Channel /\ Sites \subseteq [Tab -> Roles]

VARIABLES
  roleOf,          \* the role that a tab's site gives it
  routes,          \* tab -> its route, or None
  context,         \* audioContext: "none", "open" or "closing"
  microphone,      \* microphoneSource: "none", "live" or "stale"
  wired,           \* history: the last rebuildMixMatrix that was due went through
  selfMuted,       \* the operator's switch
  micMuted,        \* channelMicMuted
  call             \* the handlers in flight

vars == <<roleOf, routes, context, microphone, wired, selfMuted, micMuted, call>>
engine == <<context, microphone>>
switches == <<selfMuted, micMuted>>

isMeeting(role) == role \in {"meeting", "page"}
isOutputRole(role) == role # "source"

(* hears: the tabs among its inputs; mic: which microphone is among them,   *)
(* and open whether that input has gain; live: its own nodes are.           *)
Route == [role: Roles, channel: Channel, live: BOOLEAN, hub: BOOLEAN,
          pageMic: BOOLEAN, hears: SUBSET Tab, mic: {"none", "microphone", "page"}, open: BOOLEAN]

ASSUME NoneAssumption == None \notin Route

Places == {"idle", "micLoading", "micOpening", "micOpened", "loading", "capturing",
           "inserted", "next", "removing", "closing", "moving", "pageTrack", "pageLoading"}

(* current: the context that the call holds is still audioContext; then: a  *)
(* captureTab awaits this ensureMicrophone; todo: the tabs that a removal   *)
(* has still to remove; all: it is a stopAll.                               *)
CallState == [at: Places, tab: Tab \cup {None}, channel: Channel \cup {None},
              then: BOOLEAN, current: BOOLEAN, todo: SUBSET Tab, all: BOOLEAN]

Idle == [at |-> "idle", tab |-> None, channel |-> None, then |-> FALSE,
         current |-> FALSE, todo |-> {}, all |-> FALSE]

Init ==
  /\ roleOf \in Sites
  /\ routes = [t \in Tab |-> None]
  /\ context = "none"
  /\ microphone = "none" /\ wired = TRUE /\ selfMuted = FALSE
  /\ micMuted = [c \in Channel |-> FALSE]
  /\ call = [k \in Call |-> Idle]

-----------------------------------------------------------------------------
(* The mix matrix.                                                         *)

Present(R) == {t \in Tab : R[t] # None}
Outputs(R) == {t \in Present(R) : isOutputRole(R[t].role)}

isMicrophoneMuted(channel) == selfMuted \/ micMuted[channel]

(* Mutant: the matrix forgets the channels.                                 *)
HearsAnyChannel(R, t) == {s \in Present(R) \ {t} : R[s].role # "receiver"}

Hears(R, t) ==
  {s \in Present(R) \ {t} : R[s].role # "receiver" /\ R[s].channel = R[t].channel}

MicInput(route, source) ==
  IF ~isMeeting(route.role) \/ route.hub THEN "none"
  ELSE IF source # "none" THEN "microphone"
  ELSE IF route.pageMic THEN "page" ELSE "none"

(* connectInput throws: the source and the output are not of one context.   *)
(* (The page's microphone of a live route is live.)                         *)
MicRefused(R, source, t) ==
  \/ MicInput(R[t], source) = "microphone" /\ source = "stale"
  \/ MicInput(R[t], source) # "none" /\ ~R[t].live

Joins(R, t, s) == R[t].live /\ R[s].live

Refused(R, source, t) ==
  MicRefused(R, source, t) \/ \E s \in Hears(R, t) : ~Joins(R, t, s)

(* Mutant: a new input is connected with its gain whatever the switches say.*)
WithInputsUnmuted(route, hears, mic) ==
  [route EXCEPT !.hears = hears, !.mic = mic, !.open = mic # "none"]

WithInputs(route, hears, mic) ==
  [route EXCEPT !.hears = hears, !.mic = mic,
                !.open = mic # "none" /\ ~isMicrophoneMuted(route.channel)]

Full(R, source, t) == WithInputs(R[t], Hears(R, t), MicInput(R[t], source))

(* The output t as the throw leaves it: the microphone comes first, then    *)
(* the tabs in the order in which they were captured.                       *)
Broken(R, source, t) ==
  IF MicRefused(R, source, t) THEN {WithInputs(R[t], {}, "none")}
  ELSE {WithInputs(R[t], hears, MicInput(R[t], source)) :
          hears \in SUBSET {s \in Hears(R, t) : Joins(R, t, s)}}

(* rebuildMixMatrix: every output is wired anew, up to the first that cannot*)
(* be.  The order of the outputs is that of their capture, here any.        *)
Rebuild(R, source) ==
  LET failing == {t \in Outputs(R) : Refused(R, source, t)}
      others == Outputs(R) \ failing IN
  /\ wired' = (context # "none" /\ failing = {})
  /\ \/ context = "none" /\ routes' = R
     \/ /\ context # "none" /\ failing = {}
        /\ routes' = [t \in Tab |-> IF t \in Outputs(R) THEN Full(R, source, t) ELSE R[t]]
     \/ /\ context # "none"
        /\ \E f \in failing, done \in SUBSET others :
             \E broken \in Broken(R, source, f) :
               routes' = [t \in Tab |-> IF t = f THEN broken
                                        ELSE IF t \in done THEN Full(R, source, t) ELSE R[t]]

-----------------------------------------------------------------------------
(* ensureAudioContext and ensureMicrophone.                                *)

EnsureContext(k, c, wait) ==
  /\ context' = IF context = "none" THEN "open" ELSE context
  /\ call' = [call EXCEPT ![k] = [c EXCEPT !.at = wait]]

(* The worklets are loaded.  A context that was closed meanwhile is null,   *)
(* and the call ends in a TypeError.                                        *)
Resume(k) ==
  /\ call[k].at \in {"micLoading", "loading"}
  /\ call' = [call EXCEPT ![k] =
       IF context = "none" THEN Idle
       ELSE [@ EXCEPT !.at = IF call[k].at = "loading" THEN "capturing" ELSE "micOpening",
                      !.current = TRUE]]
  /\ UNCHANGED <<routes, engine, wired, switches>>

(* ENSURE_MICROPHONE, or SET_MICROPHONE_DEVICE while one is open.           *)
EnsureMicrophone(k) ==
  /\ call[k].at = "idle"
  /\ EnsureContext(k, Idle, "micLoading")
  /\ UNCHANGED <<routes, microphone, wired, switches>>

(* getUserMedia answers; a refusal leaves an older microphone alone.  The   *)
(* throw of a rebuild is caught and answered as one.                        *)
OpenMicrophone(k) ==
  /\ call[k].at = "micOpening"
  /\ \/ /\ microphone' = IF call[k].current THEN "live" ELSE "stale"
        /\ Rebuild(routes, microphone')
        /\ call' = [call EXCEPT ![k] =
             IF @.then /\ (context = "none" \/ wired')
             THEN [@ EXCEPT !.at = "micOpened", !.current = FALSE] ELSE Idle]
     \/ /\ call' = [call EXCEPT ![k] = Idle]
        /\ UNCHANGED <<routes, microphone, wired>>
  /\ UNCHANGED <<context, switches>>

-----------------------------------------------------------------------------
(* captureTab.                                                             *)

Capture(k, t, channel) ==
  LET c == [Idle EXCEPT !.tab = t, !.channel = channel] IN
  /\ call[k].at = "idle" /\ routes[t] = None
  /\ IF isMeeting(roleOf[t]) /\ microphone = "none"
     THEN EnsureContext(k, [c EXCEPT !.then = TRUE], "micLoading")
     ELSE EnsureContext(k, c, "loading")
  /\ UNCHANGED <<routes, microphone, wired, switches>>

CaptureWithMicrophone(k) ==
  /\ call[k].at = "micOpened"
  /\ EnsureContext(k, [call[k] EXCEPT !.then = FALSE], "loading")
  /\ UNCHANGED <<routes, microphone, wired, switches>>

NewRoute(c) ==
  [role |-> roleOf[c.tab], channel |-> c.channel, live |-> c.current, hub |-> FALSE,
   pageMic |-> FALSE, hears |-> {}, mic |-> "none", open |-> FALSE]

(* The stream arrives, or is refused; routes.set replaces a route that      *)
(* another capture of the tab has inserted.  An output reports its mode     *)
(* before it is wired (a receiver captures no stream but takes this step).   *)
(* If the rebuild throws, the route stays.                                  *)
InsertRoute(k) ==
  LET c == call[k]
      R == [routes EXCEPT ![c.tab] = NewRoute(c)] IN
  /\ c.at = "capturing"
  /\ \/ IF isOutputRole(roleOf[c.tab])
        THEN /\ routes' = R
             /\ call' = [call EXCEPT ![k].at = "inserted", ![k].current = FALSE]
             /\ UNCHANGED wired
        ELSE /\ Rebuild(R, microphone)
             /\ call' = [call EXCEPT ![k] = Idle]
     \/ /\ call' = [call EXCEPT ![k] = Idle]
        /\ UNCHANGED <<routes, wired>>
  /\ UNCHANGED <<context, microphone, switches>>

WireRoute(k) ==
  /\ call[k].at = "inserted"
  /\ Rebuild(routes, microphone)
  /\ call' = [call EXCEPT ![k] = Idle]
  /\ UNCHANGED <<engine, switches>>

-----------------------------------------------------------------------------
(* removeTab, stopChannel, stopAll, releaseEngineIfIdle.                    *)

StartRemoval(k, tabs, all) ==
  /\ call[k].at = "idle"
  /\ call' = [call EXCEPT ![k] = [Idle EXCEPT !.at = "next", !.todo = tabs, !.all = all]]
  /\ UNCHANGED <<routes, engine, wired, switches>>

Remove(k, t) == routes[t] # None /\ StartRemoval(k, {t}, FALSE)   \* or its track ends
StopChannel(k, c) ==
  StartRemoval(k, {t \in Present(routes) : routes[t].channel = c}, FALSE)
StopAll(k) == StartRemoval(k, Present(routes), TRUE)

(* No meeting, no microphone; no tab, no context.  To close a context that  *)
(* is already closing throws.                                               *)
ReleaseEngine(k, R, next) ==
  /\ microphone' = IF \E t \in Present(R) : isMeeting(R[t].role) THEN microphone ELSE "none"
  /\ context' = IF Present(R) = {} /\ context = "open" THEN "closing" ELSE context
  /\ call' = [call EXCEPT ![k] =
       IF Present(R) # {} \/ context = "none" THEN next
       ELSE IF context = "closing" THEN Idle ELSE [next EXCEPT !.at = "closing"]]

(* Mutant: what is left is not wired anew.                                  *)
TeardownUnwired(k, R, next) ==
  routes' = R /\ wired' = wired /\ ReleaseEngine(k, R, next)

(* The rest of removeTab once its page has been told; if the rebuild throws *)
(* it ends there, with the stopChannel or stopAll that called it.           *)
Teardown(k, R, next) ==
  /\ Rebuild(R, microphone)
  /\ IF context = "none" \/ wired' THEN ReleaseEngine(k, R, next)
     ELSE call' = [call EXCEPT ![k] = Idle] /\ UNCHANGED engine

RemoveTab(k, t) ==
  LET R == [routes EXCEPT ![t] = None]
      rest == [call[k] EXCEPT !.todo = @ \ {t}] IN
  /\ call[k].at = "next" /\ t \in call[k].todo
  /\ IF routes[t] # None /\ ~isOutputRole(routes[t].role) THEN Teardown(k, R, rest)
     ELSE /\ routes' = R
          /\ call' = [call EXCEPT ![k] =
                        IF routes[t] = None THEN rest ELSE [rest EXCEPT !.at = "removing"]]
          /\ UNCHANGED <<engine, wired>>
  /\ UNCHANGED switches

FinishRemoval(k) ==
  /\ call[k].at = "removing"
  /\ Teardown(k, routes, [call[k] EXCEPT !.at = "next"])
  /\ UNCHANGED switches

(* Whatever there is, in the routes or in the hands of the calls, is stale. *)
ContextClosed(k) ==
  /\ call[k].at = "closing"
  /\ context' = "none"
  /\ microphone' = IF microphone = "live" THEN "stale" ELSE microphone
  /\ routes' = [t \in Tab |-> IF routes[t] = None THEN None
                              ELSE [routes[t] EXCEPT !.live = FALSE]]
  /\ call' = [j \in Call |->
       IF j # k THEN [call[j] EXCEPT !.current = FALSE]
       ELSE IF call[k].todo = {} /\ ~call[k].all THEN Idle ELSE [call[k] EXCEPT !.at = "next"]]
  /\ UNCHANGED <<wired, switches>>

FinishRemovals(k) ==
  /\ call[k].at = "next" /\ call[k].todo = {}
  /\ IF call[k].all THEN ReleaseEngine(k, routes, Idle)
     ELSE /\ call' = [call EXCEPT ![k] = Idle]
          /\ UNCHANGED engine
  /\ UNCHANGED <<routes, wired, switches>>

-----------------------------------------------------------------------------
(* setTabChannel, Hub sessions, the page's own microphone.                  *)

(* A route with a Hub session is silenced there first and wired when the    *)
(* background has answered.                                                 *)
Move(k, t, channel) ==
  LET moved == [routes EXCEPT ![t].channel = channel, ![t].hub = FALSE] IN
  /\ call[k].at = "idle"
  /\ routes[t] # None /\ routes[t].channel # channel
  /\ IF routes[t].hub
     THEN /\ routes' = moved
          /\ call' = [call EXCEPT ![k] = [Idle EXCEPT !.at = "moving", !.tab = t]]
          /\ UNCHANGED wired
     ELSE /\ Rebuild(moved, microphone)
          /\ UNCHANGED call
  /\ UNCHANGED <<engine, switches>>

(* Mutant: the moved route is not wired anew.                               *)
FinishMoveUnwired(k) ==
  /\ call[k].at = "moving"
  /\ call' = [call EXCEPT ![k] = Idle]
  /\ UNCHANGED <<routes, engine, wired, switches>>

FinishMove(k) ==
  /\ call[k].at = "moving"
  /\ Rebuild(routes, microphone)
  /\ call' = [call EXCEPT ![k] = Idle]
  /\ UNCHANGED <<engine, switches>>

(* setHubSession; clearHubSession and the lost audio connection.  To connect *)
(* the Hub's downlink to a stale output throws, before the matrix is due.   *)
SetHubSession(t) ==
  /\ routes[t] # None
  /\ \E hub \in BOOLEAN : LET R == [routes EXCEPT ![t].hub = hub] IN
       \/ Rebuild(R, microphone)
       \/ hub /\ t \in Outputs(routes) /\ ~routes[t].live /\ routes' = R /\ wired' = FALSE
  /\ UNCHANGED <<engine, switches, call>>

(* handlePageMicSignal: the page's track arrives, which first tells the     *)
(* background; then it is given a context, of the tab's route if it is there*)
(* still.                                                                   *)
PageTrack(k, t) ==
  /\ call[k].at = "idle" /\ routes[t] # None /\ routes[t].role = "page"
  /\ call' = [call EXCEPT ![k] = [Idle EXCEPT !.at = "pageTrack", !.tab = t]]
  /\ UNCHANGED <<routes, engine, wired, switches>>

PageTrackClears(k) ==
  /\ call[k].at = "pageTrack"
  /\ \/ routes[call[k].tab] # None /\ routes' = [routes EXCEPT ![call[k].tab].pageMic = FALSE]
     \/ UNCHANGED routes                       \* it was of a route that is gone
  /\ EnsureContext(k, call[k], "pageLoading")
  /\ UNCHANGED <<microphone, wired, switches>>

(* The track becomes the page's microphone unless it has been superseded,   *)
(* its route has gone, or the context has.                                  *)
PageTrackReady(k) ==
  LET t == call[k].tab IN
  /\ call[k].at = "pageLoading"
  /\ call' = [call EXCEPT ![k] = Idle]
  /\ \/ /\ context # "none" /\ routes[t] # None /\ routes[t].role = "page"
        /\ Rebuild([routes EXCEPT ![t].pageMic = TRUE], microphone)
     \/ UNCHANGED <<routes, wired>>
  /\ UNCHANGED <<engine, switches>>

(* The track ends, or a new offer drops it and leaves the matrix to the new *)
(* one's arrival.                                                           *)
PageMicrophone(t) ==
  /\ routes[t] # None /\ routes[t].pageMic
  /\ LET R == [routes EXCEPT ![t].pageMic = FALSE] IN
     Rebuild(R, microphone) \/ (routes' = R /\ UNCHANGED wired)
  /\ UNCHANGED <<engine, switches, call>>

-----------------------------------------------------------------------------
(* The switches: each handler sets the gains it is about.                   *)

(* The microphone inputs of these tabs get the gain of their channel, which *)
(* is one of the muted or not.                                              *)
Regained(tabs, muted) ==
  [t \in Tab |-> IF t \notin tabs \cap Present(routes) \/ routes[t].mic = "none"
                 THEN routes[t]
                 ELSE [routes[t] EXCEPT !.open = routes[t].channel \notin muted]]

MayMute(muted) ==
  muted \/ Cardinality({c \in Channel : micMuted[c]}) + (IF selfMuted THEN 1 ELSE 0) < MaxMuted

SetSelfMuted ==
  /\ MayMute(selfMuted)
  /\ selfMuted' = ~selfMuted
  /\ routes' = Regained(Tab, {c \in Channel : selfMuted' \/ micMuted[c]})
  /\ UNCHANGED <<engine, wired, micMuted, call>>

SetChannelMicMuted(c) ==
  /\ MayMute(micMuted[c])
  /\ micMuted' = [micMuted EXCEPT ![c] = ~@]
  /\ routes' = Regained({t \in Present(routes) : routes[t].channel = c},
                        {d \in Channel : selfMuted \/ micMuted'[d]})
  /\ UNCHANGED <<engine, wired, selfMuted, call>>

Handler(k) ==
  \/ Resume(k) \/ EnsureMicrophone(k) \/ OpenMicrophone(k)
  \/ \E t \in Tab, c \in Channel : Capture(k, t, c) \/ Move(k, t, c)
  \/ CaptureWithMicrophone(k) \/ InsertRoute(k) \/ WireRoute(k)
  \/ \E t \in Tab : Remove(k, t) \/ RemoveTab(k, t) \/ PageTrack(k, t)
  \/ \E c \in Channel : StopChannel(k, c)
  \/ StopAll(k) \/ FinishRemoval(k) \/ ContextClosed(k) \/ FinishRemovals(k)
  \/ FinishMove(k) \/ PageTrackClears(k) \/ PageTrackReady(k)

Next ==
  /\ UNCHANGED roleOf
  /\ \/ \E k \in Call : Handler(k)
     \/ \E t \in Tab : SetHubSession(t) \/ PageMicrophone(t)
     \/ SetSelfMuted
     \/ \E c \in Channel : SetChannelMicMuted(c)

Spec == Init /\ [][Next]_vars

(* Routes, switches and handlers have the values they should have (offscreen.js:1-75). *)
TypeOK ==
  /\ roleOf \in [Tab -> Roles]
  /\ routes \in [Tab -> Route \cup {None}]
  /\ context \in {"none", "open", "closing"}
  /\ microphone \in {"none", "live", "stale"} /\ wired \in BOOLEAN /\ selfMuted \in BOOLEAN
  /\ micMuted \in [Channel -> BOOLEAN]
  /\ call \in [Call -> CallState]

-----------------------------------------------------------------------------
(* The tabs whose route a call has changed and not yet wired.               *)
Unsettled == {call[k].tab : k \in {j \in Call : call[j].at \in {"inserted", "moving"}}}
Removing == \E k \in Call : call[k].at = "removing"

(* A muted operator is never heard: whatever is captured, moved, removed or *)
(* in flight, a microphone input has gain exactly when neither the operator *)
(* nor the channel the route is now in is muted, unless the wiring has      *)
(* thrown (offscreen.js:412, 428-468).                                      *)
MutedMeansSilent ==
  wired => \A t \in Outputs(routes) :
    routes[t].mic # "none" => (routes[t].open <=> ~isMicrophoneMuted(routes[t].channel))

(* N-1: once the handlers have settled, a meeting hears exactly the other   *)
(* captured tabs of its channel, and the operator's microphone exactly when *)
(* the Hub does not bring it (offscreen.js:618-658).                        *)
MatrixIsNMinusOne ==
  (wired /\ Unsettled = {} /\ ~Removing) =>
    \A t \in Outputs(routes) :
      /\ routes[t].hears = {s \in Present(routes) : /\ s # t
                                                   /\ roleOf[s] # "receiver"
                                                   /\ routes[s].channel = routes[t].channel}
      /\ routes[t].mic = "microphone" <=>
           roleOf[t] \in {"meeting", "page"} /\ microphone # "none" /\ ~routes[t].hub

(* Channels are isolated even while handlers are in flight: what a route    *)
(* hears of another channel is a tab, or the route itself, that is just     *)
(* being moved or captured anew (offscreen.js:1189-1196).                   *)
ChannelsIsolated ==
  wired => \A t \in Outputs(routes) \ Unsettled :
    \A s \in (routes[t].hears \cap Present(routes)) \ Unsettled :
      s # t /\ routes[s].channel = routes[t].channel

(* A matrix that is left half wired heals: whenever the handlers have       *)
(* settled and the wiring is not what it should be, a captured tab or the   *)
(* microphone is still of a closed context, so that once these are removed  *)
(* or opened anew everything is wired again, whatever threw on the way      *)
(* (offscreen.js:371, 1178, 1233, 1251).                                    *)
StaleIsToBlame ==
  (~wired /\ context = "open" /\ Unsettled = {} /\ ~Removing /\ Present(routes) # {}) =>
    \/ \E t \in Present(routes) : ~routes[t].live
    \/ microphone = "stale"

(* What offscreen.js:1354-1355 promises: "Source-only tabs still need the   *)
(* AudioContext for capture and local playback".  The code closes it once   *)
(* there is no route, under the capture of one that is still in flight      *)
(* (offscreen.js:1356-1361, 994, 1112).                                     *)
CapturedIsLive ==
  \A t \in Present(routes) : context = "open" /\ routes[t].live
=============================================================================
