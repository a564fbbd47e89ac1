-------------------------- MODULE BridgeEngine_proofs --------------------------
(***************************************************************************)
(* What BridgeEngine promises, for any tabs, channels and handlers.  Almost *)
(* every step that changes what is captured ends in Rebuild, so the proofs  *)
(* say once what Rebuild leaves, whether it went through or threw (Rebuilt),*)
(* and then treat the few steps that edit routes without it: a capture      *)
(* before it is wired, a removal before it is finished, a move that waits   *)
(* for the Hub, the switches, and the closing of the context.               *)
(***************************************************************************)
EXTENDS BridgeEngine, TLAPS

AnyRoute == Route \cup {None}
Sources == {"none", "live", "stale"}
Contexts == {"none", "open", "closing"}
Mics == {"none", "microphone", "page"}

(* The gains of the routes R under the switches self and muted.             *)
Silent(R, self, muted) ==
  \A t \in Tab : R[t] # None /\ isOutputRole(R[t].role) /\ R[t].mic # "none" =>
    (R[t].open <=> ~(self \/ muted[R[t].channel]))

(* An output that has a microphone is a meeting that the Hub does not serve.*)
Local(R) ==
  \A t \in Tab : R[t] # None /\ isOutputRole(R[t].role) /\ R[t].mic # "none" =>
    isMeeting(R[t].role) /\ ~R[t].hub

Roled(R) == \A t \in Tab : R[t] # None => R[t].role = roleOf[t]

(* No route of R has a live node, and there is a meeting among them.        *)
Dead(R) == \A t \in Tab : R[t] # None => ~R[t].live
Meets(R) == \E t \in Tab : R[t] # None /\ isMeeting(R[t].role)

-----------------------------------------------------------------------------
(* The mix matrix.                                                         *)

(* What wiring leaves alone of a route.                                     *)
Same(r, q) ==
  /\ r.role = q.role /\ r.channel = q.channel /\ r.hub = q.hub /\ r.live = q.live

LEMMA WithInputsType ==
  ASSUME NEW r \in Route, NEW hears \in SUBSET Tab, NEW mic \in Mics
  PROVE  LET w == WithInputs(r, hears, mic) IN
         /\ w \in Route /\ Same(w, r) /\ w.hears = hears /\ w.mic = mic
         /\ w.open <=> mic # "none" /\ ~isMicrophoneMuted(r.channel)
<1> DEFINE open == mic # "none" /\ ~isMicrophoneMuted(r.channel)
           w == [r EXCEPT !.hears = hears, !.mic = mic, !.open = open]
<1>1. open \in BOOLEAN
  OBVIOUS
<1>2. WithInputs(r, hears, mic) = w
  BY DEF WithInputs
<1> HIDE DEF open
<1>3. w \in Route /\ Same(w, r) /\ w.hears = hears /\ w.mic = mic /\ w.open = open
  BY <1>1 DEF Route, Mics, Same
<1> HIDE DEF w
<1> QED
  BY <1>2, <1>3, Zenon DEF open

LEMMA FullType ==
  ASSUME NEW R \in [Tab -> AnyRoute], NEW t \in Tab, R[t] # None, NEW source \in Sources
  PROVE  LET w == Full(R, source, t) IN
         /\ w \in Route /\ Same(w, R[t])
         /\ w.hears = Hears(R, t) /\ w.mic = MicInput(R[t], source)
         /\ w.open <=>
              MicInput(R[t], source) # "none" /\ ~isMicrophoneMuted(R[t].channel)
<1>1. R[t] \in Route
  BY DEF AnyRoute
<1>2. Hears(R, t) \in SUBSET Tab
  BY DEF Hears, Present
<1>3. MicInput(R[t], source) \in Mics
  BY DEF MicInput, Mics
<1> QED
  BY <1>1, <1>2, <1>3, WithInputsType, Zenon DEF Full

LEMMA BrokenType ==
  ASSUME NEW R \in [Tab -> AnyRoute], NEW t \in Tab, R[t] # None, NEW source \in Sources,
         NEW w \in Broken(R, source, t)
  PROVE  w \in Route /\ Same(w, R[t])
<1>1. R[t] \in Route
  BY DEF AnyRoute
<1>2. \E hears \in SUBSET Tab, mic \in Mics : w = WithInputs(R[t], hears, mic)
  <2>1. CASE MicRefused(R, source, t)
    BY <2>1 DEF Broken, Mics
  <2>2. CASE ~MicRefused(R, source, t)
    <3>1. MicInput(R[t], source) \in Mics
      BY DEF MicInput, Mics
    <3>2. PICK hears \in SUBSET {s \in Hears(R, t) : Joins(R, t, s)} :
            w = WithInputs(R[t], hears, MicInput(R[t], source))
      BY <2>2 DEF Broken
    <3>3. hears \in SUBSET Tab
      BY <3>2 DEF Hears, Present
    <3> QED
      BY <3>1, <3>2, <3>3
  <2> QED
    BY <2>1, <2>2
<1>3. PICK hears \in SUBSET Tab, mic \in Mics : w = WithInputs(R[t], hears, mic)
  BY <1>2
<1> QED
  BY <1>1, <1>3, WithInputsType, Zenon

(* After Rebuild the routes are the same.  If it went through, every output *)
(* is wired; if it threw, something stale is to blame.                      *)
LEMMA Rebuilt ==
  ASSUME NEW R \in [Tab -> AnyRoute], NEW source \in Sources, Rebuild(R, source), Roled(R)
  PROVE  /\ routes' \in [Tab -> AnyRoute] /\ wired' \in BOOLEAN
         /\ \A t \in Tab : /\ routes'[t] = None <=> R[t] = None
                           /\ R[t] # None => Same(routes'[t], R[t])
         /\ wired' => \A t \in Tab : R[t] # None /\ isOutputRole(R[t].role) =>
              /\ routes'[t].hears = Hears(R, t) /\ routes'[t].mic = MicInput(R[t], source)
              /\ routes'[t].open <=>
                   MicInput(R[t], source) # "none" /\ ~isMicrophoneMuted(R[t].channel)
         /\ ~wired' /\ context # "none" =>
              \/ \E t \in Tab : R[t] # None /\ ~R[t].live
              \/ source = "stale" /\ Meets(R)
<1> DEFINE failing == {t \in Outputs(R) : Refused(R, source, t)}
<1>1. \/ context = "none" /\ routes' = R
      \/ /\ context # "none" /\ failing = {}
         /\ routes' = [t \in Tab |-> IF t \in Outputs(R) THEN Full(R, source, t) ELSE R[t]]
      \/ /\ context # "none"
         /\ \E f \in failing, done \in SUBSET (Outputs(R) \ failing) :
              \E broken \in Broken(R, source, f) :
                routes' = [t \in Tab |-> IF t = f THEN broken
                                         ELSE IF t \in done THEN Full(R, source, t) ELSE R[t]]
  BY DEF Rebuild
<1>2. (wired' <=> context # "none" /\ failing = {}) /\ wired' \in BOOLEAN
  BY DEF Rebuild
<1>3. failing \subseteq Outputs(R) /\ Outputs(R) \subseteq Tab /\ \A t \in Outputs(R) : R[t] # None
  BY DEF Outputs, Present
<1>4. ASSUME failing # {}
      PROVE  \/ \E t \in Tab : R[t] # None /\ ~R[t].live
             \/ source = "stale" /\ Meets(R)
  <2>1. PICK t \in Outputs(R) : Refused(R, source, t)
    BY <1>4
  <2>2. t \in Tab /\ R[t] # None
    BY <1>3, <2>1
  <2>3. CASE MicRefused(R, source, t)
    BY <2>2, <2>3 DEF MicRefused, MicInput, Meets
  <2>4. CASE \E s \in Hears(R, t) : ~Joins(R, t, s)
    BY <2>2, <2>4 DEF Joins, Hears, Present
  <2> QED
    BY <2>1, <2>3, <2>4 DEF Refused
<1> HIDE DEF failing
<1>5. ASSUME NEW t \in Tab
      PROVE  /\ routes'[t] \in AnyRoute
             /\ routes'[t] = None <=> R[t] = None
             /\ R[t] # None => Same(routes'[t], R[t])
  <2>1. CASE routes'[t] = R[t]
    BY <2>1 DEF Same
  <2>2. CASE R[t] # None /\ routes'[t] = Full(R, source, t)
    <3> DEFINE w == Full(R, source, t)
    <3>1. w \in Route /\ Same(w, R[t])
      BY <2>2, FullType, Zenon
    <3> HIDE DEF w
    <3>2. routes'[t] = w
      BY <2>2 DEF w
    <3> QED
      BY <2>2, <3>1, <3>2, NoneAssumption DEF AnyRoute
  <2>3. CASE R[t] # None /\ routes'[t] \in Broken(R, source, t)
    <3>1. routes'[t] \in Route /\ Same(routes'[t], R[t])
      BY <2>3, BrokenType, Zenon
    <3> QED
      BY <2>3, <3>1, NoneAssumption DEF AnyRoute
  <2>4. \/ routes'[t] = R[t]
        \/ R[t] # None /\ routes'[t] = Full(R, source, t)
        \/ R[t] # None /\ routes'[t] \in Broken(R, source, t)
    <3>1. CASE context = "none" /\ routes' = R
      BY <3>1
    <3>2. CASE routes' = [s \in Tab |-> IF s \in Outputs(R) THEN Full(R, source, s) ELSE R[s]]
      BY <1>3, <3>2
    <3>3. CASE \E f \in failing, done \in SUBSET (Outputs(R) \ failing) :
                 \E broken \in Broken(R, source, f) :
                   routes' = [s \in Tab |-> IF s = f THEN broken
                                            ELSE IF s \in done THEN Full(R, source, s) ELSE R[s]]
      <4>0. PICK f \in failing, done \in SUBSET (Outputs(R) \ failing) :
              \E broken \in Broken(R, source, f) :
                routes' = [s \in Tab |-> IF s = f THEN broken
                                         ELSE IF s \in done THEN Full(R, source, s) ELSE R[s]]
        BY <3>3
      <4>1. PICK broken \in Broken(R, source, f) :
              routes' = [s \in Tab |-> IF s = f THEN broken
                                       ELSE IF s \in done THEN Full(R, source, s) ELSE R[s]]
        BY <4>0
      <4>2. routes'[t] = IF t = f THEN broken
                         ELSE IF t \in done THEN Full(R, source, t) ELSE R[t]
        BY <4>1
      <4>3. R[f] # None /\ \A s \in done : R[s] # None
        BY <1>3, <4>0
      <4> QED
        BY <4>1, <4>2, <4>3
    <3> QED
      BY <1>1, <3>1, <3>2, <3>3
  <2> QED
    BY <2>1, <2>2, <2>3, <2>4
<1>6. routes' = [t \in Tab |-> routes'[t]]
  BY <1>1
<1>7. routes' \in [Tab -> AnyRoute]
  BY <1>5, <1>6
<1>8. ASSUME wired', NEW t \in Tab, R[t] # None, isOutputRole(R[t].role)
      PROVE  /\ routes'[t].hears = Hears(R, t) /\ routes'[t].mic = MicInput(R[t], source)
             /\ routes'[t].open <=>
                  MicInput(R[t], source) # "none" /\ ~isMicrophoneMuted(R[t].channel)
  <2>1. t \in Outputs(R)
    BY <1>8 DEF Outputs, Present
  <2>2. routes'[t] = Full(R, source, t)
    BY <1>1, <1>2, <1>8, <2>1
  <2> QED
    BY <1>8, <2>2, FullType, Zenon
<1> QED
  BY <1>2, <1>4, <1>5, <1>7, <1>8

-----------------------------------------------------------------------------
(* The handlers in flight.                                                 *)

(* A handler knows its tab where it will need it, and holds a context only  *)
(* while it waits for a stream.                                             *)
Knows(c) ==
  /\ c.at \in {"loading", "capturing", "inserted", "micOpened"} \/ c.then =>
       c.tab \in Tab /\ c.channel \in Channel
  /\ c.at \in {"moving", "pageTrack", "pageLoading"} => c.tab \in Tab
  /\ c.current => c.at \in {"micOpening", "capturing"}

GoodCall(c) == c \in CallState /\ Knows(c)
CallInv == /\ call = [k \in Call |-> call[k]]
           /\ \A k \in Call : GoodCall(call[k])
           /\ context = "none" => \A k \in Call : ~call[k].current

(* The calls that have changed the routes and will wire them.               *)
Busy(c) == c.at \in {"inserted", "moving", "removing"}
Stays == \A k \in Call : Busy(call[k]) => call'[k].at = call[k].at /\ call'[k].tab = call[k].tab

LEMMA GoodIdle == GoodCall(Idle) /\ Idle.at = "idle" /\ ~Idle.current
  BY DEF GoodCall, Knows, Idle, CallState, Places

LEMMA MovedOn ==
  ASSUME NEW c, GoodCall(c), NEW at \in Places, ~c.current,
         at \in {"loading", "capturing", "inserted", "micOpened"} =>
           c.tab \in Tab /\ c.channel \in Channel,
         at \in {"moving", "pageTrack", "pageLoading"} => c.tab \in Tab
  PROVE  LET d == [c EXCEPT !.at = at] IN
         GoodCall(d) /\ d.at = at /\ d.tab = c.tab /\ d.todo = c.todo /\ ~d.current
<1> DEFINE d == [c EXCEPT !.at = at]
<1>1. d \in CallState
  BY DEF GoodCall, CallState
<1>2. /\ d.at = at /\ d.tab = c.tab /\ d.channel = c.channel /\ d.then = c.then
      /\ d.todo = c.todo /\ d.current = c.current
  BY DEF GoodCall, CallState
<1> HIDE DEF d
<1>3. GoodCall(d)
  BY <1>1, <1>2 DEF GoodCall, Knows
<1> QED
  BY <1>2, <1>3 DEF d

LEMMA Forgetting ==
  ASSUME NEW c, GoodCall(c)
  PROVE  LET d == [c EXCEPT !.current = FALSE] IN
         GoodCall(d) /\ d.at = c.at /\ d.tab = c.tab /\ d.channel = c.channel /\ ~d.current
<1> DEFINE d == [c EXCEPT !.current = FALSE]
<1>1. d \in CallState
  BY DEF GoodCall, CallState
<1>2. /\ d.at = c.at /\ d.tab = c.tab /\ d.channel = c.channel /\ d.then = c.then
      /\ d.current = FALSE
  BY DEF GoodCall, CallState
<1> HIDE DEF d
<1>3. GoodCall(d)
  BY <1>1, <1>2 DEF GoodCall, Knows
<1> QED
  BY <1>2, <1>3 DEF d

(* The record of a handler that has its stream.                             *)
LEMMA Arrived ==
  ASSUME NEW c, GoodCall(c), NEW at \in {"micOpened", "inserted"},
         c.tab \in Tab /\ c.channel \in Channel
  PROVE  LET d == [c EXCEPT !.at = at, !.current = FALSE] IN
         GoodCall(d) /\ d.at = at /\ d.tab = c.tab /\ ~d.current
<1> DEFINE d == [c EXCEPT !.at = at, !.current = FALSE]
<1>1. d \in CallState
  BY DEF GoodCall, CallState, Places
<1>2. /\ d.at = at /\ d.tab = c.tab /\ d.channel = c.channel /\ d.then = c.then
      /\ d.current = FALSE
  BY DEF GoodCall, CallState
<1> HIDE DEF d
<1>3. GoodCall(d)
  BY <1>1, <1>2 DEF GoodCall, Knows
<1> QED
  BY <1>2, <1>3 DEF d

LEMMA Shortened ==
  ASSUME NEW c, GoodCall(c), NEW todo \in SUBSET Tab
  PROVE  LET d == [c EXCEPT !.todo = todo] IN
         GoodCall(d) /\ d.at = c.at /\ d.current = c.current
<1> DEFINE d == [c EXCEPT !.todo = todo]
<1>1. d \in CallState
  BY DEF GoodCall, CallState
<1>2. /\ d.at = c.at /\ d.tab = c.tab /\ d.channel = c.channel /\ d.then = c.then
      /\ d.current = c.current
  BY DEF GoodCall, CallState
<1> HIDE DEF d
<1>3. GoodCall(d)
  BY <1>1, <1>2 DEF GoodCall, Knows
<1> QED
  BY <1>2, <1>3 DEF d

LEMMA OneCall ==
  ASSUME CallInv, NEW k \in Call, NEW c, GoodCall(c), call' = [call EXCEPT ![k] = c],
         context' = "none" => context = "none" /\ ~c.current
  PROVE  /\ CallInv' /\ call'[k] = c /\ \A j \in Call \ {k} : call'[j] = call[j]
         /\ ~Busy(call[k]) => Stays
  BY DEF CallInv, Stays

-----------------------------------------------------------------------------
(* What a step does to the routes, to the calls and to the switches.        *)

SameSwitches == selfMuted' = selfMuted /\ micMuted' = micMuted

(* What an output of R is given, source, is what there is afterwards, but   *)
(* that it may have gone stale; without a meeting it does not matter.       *)
MicKept(R, source) ==
  /\ microphone' \in Sources /\ (context' = "none" => microphone' # "live")
  /\ Meets(R) => microphone' = source \/ (source = "live" /\ microphone' = "stale")

Rewires ==
  /\ SameSwitches
  /\ context' \in Contexts /\ (context' = "none" <=> context = "none")
  /\ \E R \in [Tab -> AnyRoute], source \in Sources :
       /\ Rebuild(R, source) /\ Roled(R) /\ MicKept(R, source)
       /\ context = "none" => Dead(R)

(* What a route keeps in a step that neither wires nor changes it: only its *)
(* gains, the page's offer, and that it is live may go.                     *)
Alike(t) ==
  /\ routes'[t] = None <=> routes[t] = None
  /\ routes[t] # None =>
       /\ routes'[t].role = routes[t].role /\ routes'[t].hub = routes[t].hub
       /\ routes'[t].mic = routes[t].mic /\ routes'[t].channel = routes[t].channel
       /\ routes'[t].hears = routes[t].hears
       /\ routes'[t].live => routes[t].live

Calm ==
  /\ SameSwitches /\ Stays /\ wired' = wired /\ MicKept(routes, microphone)
  /\ context' \in Contexts /\ (context' = "none" => Dead(routes'))
  /\ routes' \in [Tab -> AnyRoute]
  /\ \A t \in Tab : Alike(t) /\ (routes[t] # None => routes'[t].open = routes[t].open)

(* An output is inserted, dropped or moved, to be wired later by the call k.*)
Apart == SameSwitches /\ Stays /\ wired' = wired /\ UNCHANGED engine
Inserts(k) ==
  /\ Apart
  /\ call[k].tab \in Tab /\ call[k].channel \in Channel
  /\ routes' = [routes EXCEPT ![call[k].tab] = NewRoute(call[k])]
  /\ call'[k].at = "inserted" /\ call'[k].tab = call[k].tab
Drops(k, t) ==
  Apart /\ routes' = [routes EXCEPT ![t] = None] /\ call'[k].at = "removing"
Shifts(k, t, c) ==
  /\ Apart
  /\ routes[t] # None /\ routes[t].hub
  /\ routes' = [routes EXCEPT ![t].channel = c, ![t].hub = FALSE]
  /\ call'[k].at = "moving" /\ call'[k].tab = t

(* A stale output takes a Hub session and throws.                           *)
Breaks(t) ==
  /\ SameSwitches /\ Stays /\ wired' = FALSE /\ UNCHANGED engine
  /\ routes[t] # None /\ ~routes[t].live /\ routes' = [routes EXCEPT ![t].hub = TRUE]

(* The step of a switch: of the tabs whose inputs are set, the new switches *)
(* say what is muted; for the others nothing has changed.                   *)
Switches ==
  /\ Stays /\ wired' = wired /\ UNCHANGED engine
  /\ selfMuted' \in BOOLEAN /\ micMuted' \in [Channel -> BOOLEAN]
  /\ \E tabs, muted :
       /\ routes' = Regained(tabs, muted)
       /\ \A t \in Present(routes) :
            IF t \in tabs
            THEN routes[t].channel \in muted <=> selfMuted' \/ micMuted'[routes[t].channel]
            ELSE selfMuted' \/ micMuted'[routes[t].channel] <=>
                   selfMuted \/ micMuted[routes[t].channel]

Kind ==
  \/ Rewires \/ Calm \/ Switches
  \/ \E k \in Call : \/ Inserts(k)
                      \/ \E t \in Tab : Drops(k, t) \/ \E c \in Channel : Shifts(k, t, c)
  \/ \E t \in Tab : Breaks(t)

(* Without a context nothing is live.                                       *)
Closed == context = "none" => Dead(routes) /\ microphone # "live"

Facts == TypeOK /\ CallInv /\ Roled(routes) /\ Closed

LEMMA Types ==
  ASSUME Facts
  PROVE  /\ routes \in [Tab -> AnyRoute] /\ microphone \in Sources /\ context \in Contexts
         /\ \A t \in Tab : routes[t] # None => routes[t] \in Route
  BY DEF Facts, TypeOK, AnyRoute, Sources, Contexts

(* A step that leaves the routes, the matrix and the switches alone.        *)
LEMMA CalmStep ==
  ASSUME Facts, Stays, routes' = routes, wired' = wired, UNCHANGED switches,
         MicKept(routes, microphone), context' \in Contexts,
         context' = "none" => context = "none"
  PROVE  Calm
  BY Types DEF Calm, Alike, SameSwitches, switches, Facts, Closed

LEMMA MicSame ==
  ASSUME Facts, microphone' = microphone, context' = "none" => context = "none", NEW R
  PROVE  MicKept(R, microphone)
  BY Types DEF MicKept, Facts, Closed

LEMMA EnsureContextCall ==
  ASSUME Facts, NEW k \in Call, NEW c, GoodCall(c), ~c.current,
         NEW wait \in {"micLoading", "loading", "pageLoading"},
         wait = "loading" => c.tab \in Tab /\ c.channel \in Channel,
         wait = "pageLoading" => c.tab \in Tab,
         EnsureContext(k, c, wait)
  PROVE  CallInv' /\ (~Busy(call[k]) => Stays) /\ context' \in Contexts \ {"none"}
<1> DEFINE d == [c EXCEPT !.at = wait]
<1>1. wait \in Places
  BY DEF Places
<1>2. GoodCall(d)
  BY <1>1, MovedOn
<1>3. call' = [call EXCEPT ![k] = d]
  BY DEF EnsureContext
<1>4. context' \in Contexts \ {"none"}
  BY Types DEF EnsureContext, Contexts
<1> HIDE DEF d
<1> QED
  BY <1>2, <1>3, <1>4, OneCall DEF Facts

(* The call is all that changes, or the call and the context that it opens. *)
LEMMA CalmCall ==
  ASSUME Facts, NEW k \in Call, NEW c, GoodCall(c), call' = [call EXCEPT ![k] = c],
         c.current => context # "none", ~Busy(call[k]),
         UNCHANGED <<routes, engine, wired, switches>>
  PROVE  CallInv' /\ Calm
<1>1. UNCHANGED <<routes, context, microphone, wired>> /\ UNCHANGED switches
  BY DEF engine
<1>2. CallInv' /\ Stays
  BY <1>1, OneCall DEF Facts
<1> QED
  BY <1>1, <1>2, CalmStep, MicSame, Types

LEMMA CalmOpening ==
  ASSUME Facts, NEW k \in Call, ~Busy(call[k]), NEW c, GoodCall(c), ~c.current,
         NEW wait \in {"micLoading", "loading", "pageLoading"},
         wait = "loading" => c.tab \in Tab /\ c.channel \in Channel,
         wait = "pageLoading" => c.tab \in Tab,
         EnsureContext(k, c, wait), UNCHANGED <<routes, microphone, wired, switches>>
  PROVE  CallInv' /\ Calm
<1>1. CallInv' /\ Stays /\ context' \in Contexts /\ context' # "none"
  BY EnsureContextCall
<1> QED
  BY <1>1, CalmStep, MicSame

LEMMA ResumeKind ==
  ASSUME Facts, NEW k \in Call, Resume(k)
  PROVE  CallInv' /\ Calm
<1> DEFINE at == IF call[k].at = "loading" THEN "capturing" ELSE "micOpening"
           d == [call[k] EXCEPT !.at = at, !.current = TRUE]
           c == IF context = "none" THEN Idle ELSE d
<1>1. /\ call' = [call EXCEPT ![k] = c] /\ call[k].at \in {"micLoading", "loading"}
      /\ UNCHANGED <<routes, engine, wired, switches>>
  BY DEF Resume
<1>2. GoodCall(c) /\ (c.current => context # "none")
  <2>1. GoodCall(call[k])
    BY DEF Facts, CallInv
  <2>2. CASE context # "none"
    <3>1. at \in {"capturing", "micOpening"} /\ (at = "capturing" => call[k].at = "loading")
      OBVIOUS
    <3>2. at \in Places
      BY DEF Places
    <3> HIDE DEF at
    <3>3. d \in CallState
      BY <2>1, <3>2 DEF GoodCall, CallState
    <3>4. /\ d.at = at /\ d.then = call[k].then
          /\ d.tab = call[k].tab /\ d.channel = call[k].channel
      BY <2>1 DEF GoodCall, CallState
    <3> HIDE DEF d
    <3>5. GoodCall(d)
      BY <2>1, <3>1, <3>3, <3>4 DEF GoodCall, Knows
    <3> QED
      BY <2>2, <3>5
  <2> QED
    BY <2>2, GoodIdle
<1> HIDE DEF c
<1>3. ~Busy(call[k])
  BY <1>1 DEF Busy
<1> QED
  BY <1>1, <1>2, <1>3, CalmCall

LEMMA EnsureMicrophoneKind ==
  ASSUME Facts, NEW k \in Call, EnsureMicrophone(k)
  PROVE  CallInv' /\ Calm
<1>1. ~Busy(call[k])
  BY DEF EnsureMicrophone, Busy
<1>2. EnsureContext(k, Idle, "micLoading") /\ UNCHANGED <<routes, microphone, wired, switches>>
  BY DEF EnsureMicrophone
<1> QED
  BY <1>1, <1>2, GoodIdle, CalmOpening

LEMMA CaptureKind ==
  ASSUME Facts, NEW k \in Call, NEW t \in Tab, NEW channel \in Channel, Capture(k, t, channel)
  PROVE  CallInv' /\ Calm
<1> DEFINE c == [Idle EXCEPT !.tab = t, !.channel = channel]
           d == [c EXCEPT !.then = TRUE]
<1>1. GoodCall(c) /\ ~c.current /\ c.tab = t /\ c.channel = channel
  BY DEF GoodCall, Knows, Idle, CallState, Places
<1>2. GoodCall(d) /\ ~d.current /\ d.tab = t /\ d.channel = channel
  BY DEF GoodCall, Knows, Idle, CallState, Places
<1>3. EnsureContext(k, d, "micLoading") \/ EnsureContext(k, c, "loading")
  BY DEF Capture
<1>4. ~Busy(call[k]) /\ UNCHANGED <<routes, microphone, wired, switches>>
  BY DEF Capture, Busy
<1> HIDE DEF c, d
<1> QED
  BY <1>1, <1>2, <1>3, <1>4, CalmOpening

LEMMA CaptureWithMicrophoneKind ==
  ASSUME Facts, NEW k \in Call, CaptureWithMicrophone(k)
  PROVE  CallInv' /\ Calm
<1> DEFINE c == [call[k] EXCEPT !.then = FALSE]
<1>1. GoodCall(call[k]) /\ call[k].at = "micOpened"
  BY DEF Facts, CallInv, CaptureWithMicrophone
<1>2. c \in CallState
  BY <1>1 DEF GoodCall, CallState
<1>3. /\ c.at = "micOpened" /\ c.then = FALSE /\ c.current = call[k].current
      /\ c.tab = call[k].tab /\ c.channel = call[k].channel
  BY <1>1 DEF GoodCall, CallState
<1>4. EnsureContext(k, c, "loading") /\ UNCHANGED <<routes, microphone, wired, switches>>
  BY DEF CaptureWithMicrophone
<1> HIDE DEF c
<1>5. GoodCall(c) /\ ~c.current /\ c.tab \in Tab /\ c.channel \in Channel
  BY <1>1, <1>2, <1>3 DEF GoodCall, Knows
<1>6. ~Busy(call[k])
  BY <1>1 DEF Busy
<1> QED
  BY <1>4, <1>5, <1>6, CalmOpening

LEMMA OpenMicrophoneKind ==
  ASSUME Facts, NEW k \in Call, OpenMicrophone(k)
  PROVE  CallInv' /\ (Rewires \/ Calm)
<1> DEFINE source == IF call[k].current THEN "live" ELSE "stale"
           d == [call[k] EXCEPT !.at = "micOpened", !.current = FALSE]
<1>1. GoodCall(call[k]) /\ call[k].at = "micOpening" /\ ~Busy(call[k])
  BY DEF Facts, CallInv, OpenMicrophone, Busy
<1>2. context' = context /\ UNCHANGED switches
  BY DEF OpenMicrophone
<1>3. call[k].then => GoodCall(d) /\ ~d.current
  <2>1. call[k].then => call[k].tab \in Tab /\ call[k].channel \in Channel
    BY <1>1 DEF GoodCall, Knows
  <2> QED
    BY <1>1, <2>1, Arrived, Zenon
<1>4. \/ call[k].then /\ call' = [call EXCEPT ![k] = d]
      \/ call' = [call EXCEPT ![k] = Idle]
  BY DEF OpenMicrophone
<1>5. PICK c : GoodCall(c) /\ ~c.current /\ call' = [call EXCEPT ![k] = c]
  <2> HIDE DEF d
  <2> QED
    BY <1>3, <1>4, GoodIdle, Zenon
<1>6. CallInv' /\ Stays
  BY <1>1, <1>2, <1>5, OneCall DEF Facts
<1>7. CASE microphone' = source /\ Rebuild(routes, microphone')
  <2>1. source \in Sources /\ (context = "none" => source # "live")
    BY DEF Facts, CallInv, Sources
  <2>2. Rebuild(routes, source) /\ MicKept(routes, source)
    BY <1>2, <1>7, <2>1 DEF MicKept
  <2> HIDE DEF source
  <2>3. Roled(routes) /\ (context = "none" => Dead(routes))
    BY DEF Facts, Closed
  <2>4. SameSwitches
    BY <1>2 DEF SameSwitches, switches
  <2> QED
    BY <1>2, <1>6, <2>1, <2>2, <2>3, <2>4, Types DEF Rewires
<1>8. CASE UNCHANGED <<routes, microphone, wired>>
  BY <1>2, <1>6, <1>8, CalmStep, MicSame, Types
<1> QED
  BY <1>7, <1>8 DEF OpenMicrophone

LEMMA NewRouteType ==
  ASSUME Facts, NEW k \in Call, call[k].tab \in Tab, call[k].channel \in Channel
  PROVE  /\ NewRoute(call[k]) \in Route /\ NewRoute(call[k]).role = roleOf[call[k].tab]
         /\ NewRoute(call[k]).mic = "none" /\ NewRoute(call[k]).hub = FALSE
         /\ NewRoute(call[k]).channel = call[k].channel /\ NewRoute(call[k]).hears = {}
         /\ context = "none" => ~NewRoute(call[k]).live
<1>1. roleOf[call[k].tab] \in Roles
  BY DEF Facts, TypeOK
<1>2. call[k].current \in BOOLEAN /\ (context = "none" => ~call[k].current)
  BY DEF Facts, CallInv, GoodCall, CallState
<1> QED
  BY <1>1, <1>2 DEF NewRoute, Route

(* One route of the routes is another one.                                  *)
LEMMA OneRoute ==
  ASSUME Facts, NEW t \in Tab, NEW r \in Route, r.role = roleOf[t],
         context = "none" => ~r.live
  PROVE  LET R == [routes EXCEPT ![t] = r] IN
         R \in [Tab -> AnyRoute] /\ Roled(R) /\ (context = "none" => Dead(R))
<1> USE Types
<1>1. routes \in [Tab -> AnyRoute] /\ Roled(routes) /\ (context = "none" => Dead(routes))
  BY DEF Facts, Closed
<1> QED
  BY <1>1 DEF Roled, AnyRoute, Dead

(* A step that wires and keeps the engine as it is.                         *)
LEMMA Wires ==
  ASSUME Facts, NEW R \in [Tab -> AnyRoute], Rebuild(R, microphone), Roled(R),
         context = "none" => Dead(R), UNCHANGED engine, UNCHANGED switches
  PROVE  Rewires
<1>1. context' = context /\ microphone' = microphone
  BY DEF engine
<1>2. MicKept(R, microphone)
  BY <1>1, MicSame
<1>3. SameSwitches
  BY DEF SameSwitches, switches
<1> QED
  BY <1>1, <1>2, <1>3, Types DEF Rewires

LEMMA WiresAgain ==
  ASSUME Facts, Rebuild(routes, microphone), UNCHANGED engine, UNCHANGED switches
  PROVE  Rewires
  BY Wires, Types DEF Facts, Closed

LEMMA InsertRouteKind ==
  ASSUME Facts, NEW k \in Call, InsertRoute(k)
  PROVE  CallInv' /\ (Rewires \/ Calm \/ Inserts(k))
<1> DEFINE r == NewRoute(call[k])
           R == [routes EXCEPT ![call[k].tab] = r]
           c == [call[k] EXCEPT !.at = "inserted", !.current = FALSE]
<1>1. GoodCall(call[k]) /\ call[k].at = "capturing" /\ ~Busy(call[k])
  BY DEF Facts, CallInv, InsertRoute, Busy
<1>2. call[k].tab \in Tab /\ call[k].channel \in Channel
  BY <1>1 DEF GoodCall, Knows
<1>3. GoodCall(c) /\ c.at = "inserted" /\ c.tab = call[k].tab /\ ~c.current
  BY <1>1, <1>2, Arrived
<1>4. R \in [Tab -> AnyRoute] /\ Roled(R) /\ (context = "none" => Dead(R))
  <2>1. r \in Route /\ r.role = roleOf[call[k].tab] /\ (context = "none" => ~r.live)
    BY <1>2, NewRouteType
  <2> HIDE DEF r
  <2> QED
    BY <1>2, <2>1, OneRoute
<1>5. context' = context /\ UNCHANGED engine /\ UNCHANGED switches
  BY DEF InsertRoute, engine
<1>6. CASE routes' = R /\ call' = [call EXCEPT ![k].at = "inserted", ![k].current = FALSE]
           /\ UNCHANGED wired
  <2>1. call' = [call EXCEPT ![k] = c]
    BY <1>1, <1>6 DEF Facts, CallInv
  <2> HIDE DEF c
  <2>2. CallInv' /\ Stays /\ call'[k] = c
    BY <1>1, <1>3, <1>5, <2>1, OneCall DEF Facts
  <2> QED
    BY <1>2, <1>3, <1>5, <1>6, <2>2 DEF Inserts, Apart, SameSwitches, switches
<1>7. CASE call' = [call EXCEPT ![k] = Idle] /\ Rebuild(R, microphone)
  <2>1. CallInv'
    BY <1>5, <1>7, OneCall, GoodIdle DEF Facts
  <2> HIDE DEF R
  <2> QED
    BY <1>4, <1>5, <1>7, <2>1, Wires
<1>8. CASE call' = [call EXCEPT ![k] = Idle] /\ UNCHANGED <<routes, wired>>
  BY <1>1, <1>5, <1>8, GoodIdle, CalmCall
<1> QED
  BY <1>6, <1>7, <1>8 DEF InsertRoute

(* The ends of a capture and of a move that waited.                         *)
LEMMA WireKind ==
  ASSUME Facts, NEW k \in Call, WireRoute(k) \/ FinishMove(k)
  PROVE  CallInv' /\ Rewires
<1>1. call' = [call EXCEPT ![k] = Idle] /\ Rebuild(routes, microphone)
      /\ UNCHANGED engine /\ UNCHANGED switches
  BY DEF WireRoute, FinishMove
<1>2. CallInv'
  BY <1>1, OneCall, GoodIdle DEF Facts, engine
<1> QED
  BY <1>1, <1>2, WiresAgain

(* Releasing the engine stops a microphone that no meeting uses, and closes *)
(* the context that no tab uses.                                            *)
LEMMA ReleaseEngineKind ==
  ASSUME Facts, NEW k \in Call, NEW R, R \in [Tab -> AnyRoute], NEW next,
         GoodCall(next), ~next.current, ReleaseEngine(k, R, next)
  PROVE  /\ CallInv' /\ MicKept(R, microphone)
         /\ ~Busy(call[k]) => Stays
         /\ context' \in Contexts /\ (context' = "none" <=> context = "none")
<1>1. context' \in Contexts /\ (context' = "none" <=> context = "none")
  BY Types DEF ReleaseEngine, Contexts
<1>2. MicKept(R, microphone)
  <2>1. microphone' = microphone \/ (microphone' = "none" /\ ~Meets(R))
    BY DEF ReleaseEngine, Meets, Present
  <2>2. microphone' = microphone => MicKept(R, microphone)
    BY <1>1, MicSame
  <2>3. microphone' = "none" /\ ~Meets(R) => MicKept(R, microphone)
    BY DEF MicKept, Sources
  <2> QED
    BY <2>1, <2>2, <2>3
<1>3. ASSUME NEW c, GoodCall(c), ~c.current, call' = [call EXCEPT ![k] = c]
      PROVE  CallInv' /\ (~Busy(call[k]) => Stays)
  BY <1>1, <1>3, OneCall DEF Facts
<1>4. GoodCall([next EXCEPT !.at = "closing"]) /\ ~[next EXCEPT !.at = "closing"].current
  BY MovedOn DEF Places
<1>5. \E c : GoodCall(c) /\ ~c.current /\ call' = [call EXCEPT ![k] = c]
  <2> DEFINE d == [next EXCEPT !.at = "closing"]
  <2>1. \/ call' = [call EXCEPT ![k] = next]
        \/ call' = [call EXCEPT ![k] = Idle]
        \/ call' = [call EXCEPT ![k] = d]
    BY DEF ReleaseEngine
  <2>2. GoodCall(d) /\ ~d.current
    BY <1>4
  <2> HIDE DEF d
  <2> QED
    BY <2>1, <2>2, GoodIdle, Zenon
<1> QED
  BY <1>1, <1>2, <1>3, <1>5

(* The end of a removal, with the routes R left.                            *)
LEMMA TeardownKind ==
  ASSUME Facts, NEW k \in Call, NEW R \in [Tab -> AnyRoute], Roled(R),
         context = "none" => Dead(R), NEW next, GoodCall(next), ~next.current,
         Teardown(k, R, next), UNCHANGED switches
  PROVE  CallInv' /\ Rewires
<1>1. SameSwitches
  BY DEF SameSwitches, switches
<1>2. CASE ReleaseEngine(k, R, next)
  <2>1. /\ CallInv' /\ MicKept(R, microphone)
        /\ context' \in Contexts /\ (context' = "none" <=> context = "none")
    BY <1>2, ReleaseEngineKind
  <2> QED
    BY <1>1, <2>1, Types DEF Teardown, Rewires
<1>3. CASE call' = [call EXCEPT ![k] = Idle] /\ UNCHANGED engine
  <2>1. CallInv'
    BY <1>3, OneCall, GoodIdle DEF Facts, engine
  <2> QED
    BY <1>3, <2>1, Wires DEF Teardown
<1> QED
  BY <1>2, <1>3 DEF Teardown

LEMMA StartRemovalKind ==
  ASSUME Facts, NEW k \in Call, NEW tabs \in SUBSET Tab, NEW all \in BOOLEAN,
         StartRemoval(k, tabs, all)
  PROVE  CallInv' /\ Calm
<1> DEFINE c == [Idle EXCEPT !.at = "next", !.todo = tabs, !.all = all]
<1>1. GoodCall(c) /\ ~c.current
  BY DEF GoodCall, Knows, Idle, CallState, Places
<1>2. /\ call' = [call EXCEPT ![k] = c] /\ ~Busy(call[k])
      /\ UNCHANGED <<routes, engine, wired, switches>>
  BY DEF StartRemoval, Busy
<1> HIDE DEF c
<1> QED
  BY <1>1, <1>2, CalmCall

(* The routes without one tab.                                              *)
LEMMA WithoutTab ==
  ASSUME Facts, NEW t \in Tab
  PROVE  LET R == [routes EXCEPT ![t] = None] IN
         R \in [Tab -> AnyRoute] /\ Roled(R) /\ (context = "none" => Dead(R))
<1>1. routes \in [Tab -> AnyRoute] /\ Roled(routes) /\ (context = "none" => Dead(routes))
  BY Types DEF Facts, Closed
<1> QED
  BY <1>1 DEF Roled, AnyRoute, Dead

LEMMA RemoveTabKind ==
  ASSUME Facts, NEW k \in Call, NEW t \in Tab, RemoveTab(k, t)
  PROVE  CallInv' /\ (Rewires \/ Calm \/ Drops(k, t))
<1> DEFINE R == [routes EXCEPT ![t] = None]
           todo == call[k].todo \ {t}
           rest == [call[k] EXCEPT !.todo = todo]
           out == [rest EXCEPT !.at = "removing"]
<1>1. GoodCall(call[k]) /\ call[k].at = "next" /\ ~Busy(call[k]) /\ ~call[k].current
  BY DEF Facts, CallInv, RemoveTab, Busy, GoodCall, Knows
<1>2. GoodCall(rest) /\ rest.at = "next" /\ ~rest.current
  <2>1. todo \in SUBSET Tab
    BY <1>1 DEF GoodCall, CallState
  <2> HIDE DEF todo
  <2>2. GoodCall(rest) /\ rest.at = call[k].at /\ rest.current = call[k].current
    BY <1>1, <2>1, Shortened, Zenon
  <2> QED
    BY <1>1, <2>2
<1>3. GoodCall(out) /\ out.at = "removing" /\ ~out.current
  <2> HIDE DEF rest
  <2> QED
    BY <1>2, MovedOn DEF Places
<1>4. UNCHANGED switches
  BY DEF RemoveTab
<1>5. \/ Teardown(k, R, rest)
      \/ /\ routes' = R /\ UNCHANGED engine /\ wired' = wired
         /\ \/ routes[t] = None /\ call' = [call EXCEPT ![k] = rest]
            \/ call' = [call EXCEPT ![k] = out]
  BY DEF RemoveTab
<1>6. R \in [Tab -> AnyRoute] /\ Roled(R) /\ (context = "none" => Dead(R))
  BY WithoutTab
<1>7. routes[t] = None => R = routes
  BY Types
<1> HIDE DEF R, rest, out
<1>8. CASE Teardown(k, R, rest)
  BY <1>2, <1>4, <1>6, <1>8, TeardownKind
<1>9. CASE routes[t] = None /\ call' = [call EXCEPT ![k] = rest] /\ routes' = R
           /\ UNCHANGED engine /\ wired' = wired
  BY <1>1, <1>2, <1>4, <1>7, <1>9, CalmCall
<1>10. CASE call' = [call EXCEPT ![k] = out] /\ routes' = R /\ UNCHANGED engine /\ wired' = wired
  <2>1. CallInv' /\ Stays /\ call'[k] = out
    BY <1>1, <1>3, <1>10, OneCall DEF Facts, engine
  <2> QED
    BY <1>3, <1>4, <1>10, <2>1 DEF Drops, Apart, SameSwitches, switches, R
<1> QED
  BY <1>5, <1>8, <1>9, <1>10

LEMMA FinishRemovalKind ==
  ASSUME Facts, NEW k \in Call, FinishRemoval(k)
  PROVE  CallInv' /\ Rewires
<1> DEFINE c == [call[k] EXCEPT !.at = "next"]
<1>1. GoodCall(call[k]) /\ ~call[k].current
  BY DEF Facts, CallInv, FinishRemoval, GoodCall, Knows
<1>2. GoodCall(c) /\ ~c.current
  BY <1>1, MovedOn DEF Places
<1>3. Teardown(k, routes, c) /\ UNCHANGED switches
  BY DEF FinishRemoval
<1> HIDE DEF c
<1> QED
  BY <1>2, <1>3, TeardownKind, Types DEF Facts, Closed

LEMMA ContextClosedKind ==
  ASSUME Facts, NEW k \in Call, ContextClosed(k)
  PROVE  CallInv' /\ Calm
<1> DEFINE c == IF call[k].todo = {} /\ ~call[k].all THEN Idle
                ELSE [call[k] EXCEPT !.at = "next"]
           e(j) == [call[j] EXCEPT !.current = FALSE]
           stale(t) == [routes[t] EXCEPT !.live = FALSE]
<1>1. GoodCall(call[k]) /\ ~call[k].current /\ ~Busy(call[k])
  BY DEF Facts, CallInv, ContextClosed, GoodCall, Knows, Busy
<1>2. GoodCall(c) /\ ~c.current
  <2> DEFINE d == [call[k] EXCEPT !.at = "next"]
  <2>1. GoodCall(d) /\ ~d.current
    BY <1>1, MovedOn DEF Places
  <2>2. c = Idle \/ c = d
    OBVIOUS
  <2> HIDE DEF c, d
  <2> QED
    BY <2>1, <2>2, GoodIdle, Zenon
<1>3. ASSUME NEW j \in Call
      PROVE  GoodCall(e(j)) /\ e(j).at = call[j].at /\ e(j).tab = call[j].tab /\ ~e(j).current
  <2>1. GoodCall(call[j])
    BY DEF Facts, CallInv
  <2> QED
    BY <2>1, Forgetting, Zenon
<1>4. call' = [j \in Call |-> IF j # k THEN e(j) ELSE c] /\ context' = "none"
  BY DEF ContextClosed
<1>5. routes' = [t \in Tab |-> IF routes[t] = None THEN None ELSE stale(t)]
  BY DEF ContextClosed
<1>6. ASSUME NEW t \in Tab, routes[t] # None
      PROVE  LET r == stale(t) q == routes[t] IN
             /\ r \in Route /\ r.role = q.role /\ r.hub = q.hub /\ r.mic = q.mic
             /\ r.channel = q.channel /\ r.hears = q.hears /\ r.open = q.open /\ ~r.live
  <2>1. routes[t] \in Route
    BY <1>6, Types
  <2> QED
    BY <2>1 DEF Route
<1>7. /\ microphone' \in Sources \ {"live"} /\ wired' = wired /\ SameSwitches
      /\ microphone' = microphone \/ (microphone = "live" /\ microphone' = "stale")
  BY Types DEF ContextClosed, Sources, SameSwitches, switches
<1> HIDE DEF c, e, stale
<1>8. CallInv' /\ Stays
  BY <1>1, <1>2, <1>3, <1>4 DEF CallInv, Stays
<1>9. ASSUME NEW t \in Tab
      PROVE  /\ routes'[t] \in AnyRoute /\ Alike(t)
             /\ routes[t] # None => routes'[t].open = routes[t].open /\ ~routes'[t].live
  <2>1. CASE routes[t] = None
    BY <1>5, <2>1 DEF Alike, AnyRoute
  <2>2. CASE routes[t] # None
    <3>1. routes'[t] = stale(t)
      BY <1>5, <2>2
    <3> QED
      BY <1>6, <2>2, <3>1, NoneAssumption DEF Alike, AnyRoute
  <2> QED
    BY <2>1, <2>2
<1>10. routes' \in [Tab -> AnyRoute] /\ Dead(routes')
  BY <1>5, <1>9 DEF Dead, Alike
<1>11. MicKept(routes, microphone)
  BY <1>7 DEF MicKept
<1> QED
  BY <1>4, <1>7, <1>8, <1>9, <1>10, <1>11 DEF Calm, Contexts

LEMMA FinishRemovalsKind ==
  ASSUME Facts, NEW k \in Call, FinishRemovals(k)
  PROVE  CallInv' /\ Calm
<1>1. ~Busy(call[k]) /\ routes' = routes /\ wired' = wired /\ UNCHANGED switches
  BY DEF FinishRemovals, Busy
<1>2. CASE ReleaseEngine(k, routes, Idle)
  <2>1. /\ CallInv' /\ MicKept(routes, microphone) /\ Stays
        /\ context' \in Contexts /\ (context' = "none" <=> context = "none")
    BY <1>1, <1>2, GoodIdle, ReleaseEngineKind, Types
  <2> QED
    BY <1>1, <2>1, CalmStep
<1>3. CASE call' = [call EXCEPT ![k] = Idle] /\ UNCHANGED engine
  BY <1>1, <1>3, GoodIdle, CalmCall
<1> QED
  BY <1>2, <1>3 DEF FinishRemovals

(* A route of another channel, Hub session or page microphone is a route.   *)
LEMMA ChangedRoute ==
  ASSUME NEW q \in Route, NEW c \in Channel, NEW b \in BOOLEAN
  PROVE  /\ LET r == [q EXCEPT !.channel = c, !.hub = FALSE] IN
            r \in Route /\ r.role = q.role /\ r.live = q.live /\ r.mic = q.mic
         /\ LET r == [q EXCEPT !.hub = b] IN
            r \in Route /\ r.role = q.role /\ r.live = q.live
         /\ LET r == [q EXCEPT !.pageMic = b] IN
            /\ r \in Route /\ r.role = q.role /\ r.live = q.live /\ r.mic = q.mic
            /\ r.channel = q.channel /\ r.hub = q.hub /\ r.hears = q.hears /\ r.open = q.open
  BY DEF Route

LEMMA ChangedRoutes ==
  ASSUME Facts, NEW t \in Tab, routes[t] # None, NEW r \in Route,
         r.role = routes[t].role, r.live = routes[t].live
  PROVE  LET R == [routes EXCEPT ![t] = r] IN
         R \in [Tab -> AnyRoute] /\ Roled(R) /\ (context = "none" => Dead(R))
<1>1. r.role = roleOf[t] /\ (context = "none" => ~r.live)
  BY DEF Facts, Roled, Closed, Dead
<1> QED
  BY <1>1, OneRoute

LEMMA CallsLeft ==
  ASSUME Facts, UNCHANGED call, context' = "none" => context = "none"
  PROVE  CallInv' /\ Stays
  BY DEF Facts, CallInv, Stays

LEMMA MoveKind ==
  ASSUME Facts, NEW k \in Call, NEW t \in Tab, NEW channel \in Channel, Move(k, t, channel)
  PROVE  CallInv' /\ (Rewires \/ Shifts(k, t, channel))
<1> DEFINE r == [routes[t] EXCEPT !.channel = channel, !.hub = FALSE]
           R == [routes EXCEPT ![t] = r]
           moved == [routes EXCEPT ![t].channel = channel, ![t].hub = FALSE]
           c == [Idle EXCEPT !.at = "moving", !.tab = t]
<1>1. /\ ~Busy(call[k]) /\ routes[t] # None
      /\ UNCHANGED engine /\ UNCHANGED switches /\ context' = context
  BY DEF Move, Busy, engine
<1>2. routes \in [Tab -> AnyRoute] /\ routes[t] \in Route
  BY <1>1, Types
<1>3. moved = R
  BY <1>2 DEF Route
<1>4. r \in Route /\ r.role = routes[t].role /\ r.live = routes[t].live
  BY <1>2, ChangedRoute
<1>5. \/ Rebuild(moved, microphone) /\ UNCHANGED call
      \/ /\ routes[t].hub /\ routes' = moved /\ wired' = wired
         /\ call' = [call EXCEPT ![k] = c]
  BY DEF Move
<1>6. GoodCall(c) /\ c.at = "moving" /\ c.tab = t /\ ~c.current
  BY DEF GoodCall, Knows, Idle, CallState, Places
<1> HIDE DEF r, moved, c
<1>7. R \in [Tab -> AnyRoute] /\ Roled(R) /\ (context = "none" => Dead(R))
  BY <1>1, <1>4, ChangedRoutes
<1> HIDE DEF R
<1>8. CASE Rebuild(moved, microphone) /\ UNCHANGED call
  BY <1>1, <1>3, <1>7, <1>8, CallsLeft, Wires
<1>9. CASE /\ routes[t].hub /\ routes' = moved /\ wired' = wired
           /\ call' = [call EXCEPT ![k] = c]
  <2>1. CallInv' /\ Stays /\ call'[k] = c
    BY <1>1, <1>6, <1>9, OneCall DEF Facts
  <2> QED
    BY <1>1, <1>6, <1>9, <2>1 DEF Shifts, Apart, SameSwitches, switches, moved
<1> QED
  BY <1>5, <1>8, <1>9

LEMMA SetHubSessionKind ==
  ASSUME Facts, NEW t \in Tab, SetHubSession(t)
  PROVE  CallInv' /\ (Rewires \/ Breaks(t))
<1>1. routes[t] # None /\ UNCHANGED call /\ UNCHANGED engine /\ UNCHANGED switches
      /\ context' = context
  BY DEF SetHubSession, engine
<1>2. routes[t] \in Route
  BY <1>1, Types
<1>3. CallInv' /\ Stays
  BY <1>1, CallsLeft
<1>4. ASSUME NEW b \in BOOLEAN, Rebuild([routes EXCEPT ![t].hub = b], microphone)
      PROVE  Rewires
  <2> DEFINE r == [routes[t] EXCEPT !.hub = b]
             R == [routes EXCEPT ![t] = r]
  <2>1. r \in Route /\ r.role = routes[t].role /\ r.live = routes[t].live
    BY <1>2 DEF Route
  <2>2. Rebuild(R, microphone)
    BY <1>4
  <2> HIDE DEF r
  <2>3. R \in [Tab -> AnyRoute] /\ Roled(R) /\ (context = "none" => Dead(R))
    BY <1>1, <2>1, ChangedRoutes
  <2> HIDE DEF R
  <2> QED
    BY <1>1, <2>2, <2>3, Wires
<1>5. ASSUME NEW b \in BOOLEAN, b, ~routes[t].live, routes' = [routes EXCEPT ![t].hub = b],
             wired' = FALSE
      PROVE  Breaks(t)
  BY <1>1, <1>3, <1>5 DEF Breaks, SameSwitches, switches
<1>6. \E b \in BOOLEAN :
        \/ Rebuild([routes EXCEPT ![t].hub = b], microphone)
        \/ b /\ ~routes[t].live /\ routes' = [routes EXCEPT ![t].hub = b] /\ wired' = FALSE
  BY DEF SetHubSession
<1> QED
  BY <1>3, <1>4, <1>5, <1>6

(* The page's microphone of one tab is another.                             *)
LEMMA PageTracked ==
  ASSUME Facts, NEW t \in Tab, routes[t] # None, NEW b \in BOOLEAN,
         Rebuild([routes EXCEPT ![t].pageMic = b], microphone),
         UNCHANGED engine, UNCHANGED switches
  PROVE  Rewires
<1> DEFINE r == [routes[t] EXCEPT !.pageMic = b]
           R == [routes EXCEPT ![t] = r]
<1>1. routes[t] \in Route
  BY Types
<1>2. r \in Route /\ r.role = routes[t].role /\ r.live = routes[t].live
  BY <1>1 DEF Route
<1>3. Rebuild(R, microphone)
  OBVIOUS
<1> HIDE DEF r
<1>4. R \in [Tab -> AnyRoute] /\ Roled(R) /\ (context = "none" => Dead(R))
  BY <1>2, ChangedRoutes
<1> HIDE DEF R
<1> QED
  BY <1>3, <1>4, Wires

LEMMA PageDropped ==
  ASSUME Facts, NEW t \in Tab, routes[t] # None, routes' = [routes EXCEPT ![t].pageMic = FALSE],
         UNCHANGED <<microphone, wired, switches>>, context' \in Contexts,
         context' = "none" => context = "none", Stays
  PROVE  Calm
<1> DEFINE r == [routes[t] EXCEPT !.pageMic = FALSE]
<1>1. routes[t] \in Route
  BY Types
<1>2. /\ r \in Route /\ r.role = routes[t].role /\ r.mic = routes[t].mic
      /\ r.channel = routes[t].channel /\ r.hub = routes[t].hub /\ r.hears = routes[t].hears
      /\ r.open = routes[t].open /\ r.live = routes[t].live
  BY <1>1 DEF Route
<1>3. routes' = [routes EXCEPT ![t] = r]
  OBVIOUS
<1> HIDE DEF r
<1>4. routes \in [Tab -> AnyRoute] /\ (context' = "none" => Dead(routes))
  BY Types DEF Facts, Closed
<1>5. /\ routes' \in [Tab -> AnyRoute] /\ (context' = "none" => Dead(routes'))
      /\ \A s \in Tab : Alike(s) /\ (routes[s] # None => routes'[s].open = routes[s].open)
  BY <1>2, <1>3, <1>4, NoneAssumption DEF Alike, AnyRoute, Dead
<1>6. MicKept(routes, microphone)
  BY MicSame
<1> QED
  BY <1>5, <1>6 DEF Calm, SameSwitches, switches

LEMMA PageTrackKind ==
  ASSUME Facts, NEW k \in Call, NEW t \in Tab, PageTrack(k, t)
  PROVE  CallInv' /\ Calm
<1> DEFINE c == [Idle EXCEPT !.at = "pageTrack", !.tab = t]
<1>1. GoodCall(c) /\ ~c.current
  BY DEF GoodCall, Knows, Idle, CallState, Places
<1>2. /\ call' = [call EXCEPT ![k] = c] /\ ~Busy(call[k])
      /\ UNCHANGED <<routes, engine, wired, switches>>
  BY DEF PageTrack, Busy
<1> HIDE DEF c
<1> QED
  BY <1>1, <1>2, CalmCall

LEMMA PageTrackClearsKind ==
  ASSUME Facts, NEW k \in Call, PageTrackClears(k)
  PROVE  CallInv' /\ Calm
<1>1. /\ GoodCall(call[k]) /\ ~call[k].current /\ call[k].tab \in Tab /\ ~Busy(call[k])
      /\ EnsureContext(k, call[k], "pageLoading") /\ UNCHANGED <<microphone, wired, switches>>
  BY DEF Facts, CallInv, PageTrackClears, GoodCall, Knows, Busy
<1>2. CallInv' /\ Stays /\ context' \in Contexts \ {"none"}
  BY <1>1, EnsureContextCall
<1>3. CASE routes' = routes
  BY <1>1, <1>2, <1>3, CalmStep, MicSame
<1>4. CASE routes[call[k].tab] # None
           /\ routes' = [routes EXCEPT ![call[k].tab].pageMic = FALSE]
  BY <1>1, <1>2, <1>4, PageDropped
<1> QED
  BY <1>2, <1>3, <1>4 DEF PageTrackClears

LEMMA PageTrackReadyKind ==
  ASSUME Facts, NEW k \in Call, PageTrackReady(k)
  PROVE  CallInv' /\ (Rewires \/ Calm)
<1>1. /\ call[k].tab \in Tab /\ ~Busy(call[k]) /\ call' = [call EXCEPT ![k] = Idle]
      /\ UNCHANGED engine /\ UNCHANGED switches
  BY DEF Facts, CallInv, PageTrackReady, GoodCall, Knows, Busy
<1>2. CallInv'
  BY <1>1, OneCall, GoodIdle DEF Facts, engine
<1>3. CASE routes[call[k].tab] # None
           /\ Rebuild([routes EXCEPT ![call[k].tab].pageMic = TRUE], microphone)
  <2>1. Rewires
    BY <1>1, <1>3, PageTracked
  <2> QED
    BY <1>2, <2>1
<1>4. CASE UNCHANGED <<routes, wired>>
  BY <1>1, <1>4, GoodIdle, CalmCall
<1> QED
  BY <1>3, <1>4 DEF PageTrackReady

LEMMA PageMicrophoneKind ==
  ASSUME Facts, NEW t \in Tab, PageMicrophone(t)
  PROVE  CallInv' /\ (Rewires \/ Calm)
<1>1. /\ routes[t] # None /\ UNCHANGED call /\ UNCHANGED engine /\ UNCHANGED switches
      /\ context' = context /\ microphone' = microphone
  BY DEF PageMicrophone, engine
<1>2. CallInv' /\ Stays
  BY <1>1, CallsLeft
<1>3. CASE Rebuild([routes EXCEPT ![t].pageMic = FALSE], microphone)
  BY <1>1, <1>2, <1>3, PageTracked
<1>4. CASE routes' = [routes EXCEPT ![t].pageMic = FALSE] /\ wired' = wired
  BY <1>1, <1>2, <1>4, PageDropped, Types
<1> QED
  BY <1>3, <1>4 DEF PageMicrophone

LEMMA SetSelfMutedKind ==
  ASSUME Facts, SetSelfMuted
  PROVE  CallInv' /\ Switches
<1> DEFINE muted == {c \in Channel : selfMuted' \/ micMuted[c]}
<1>1. /\ UNCHANGED call /\ UNCHANGED engine /\ micMuted' = micMuted /\ wired' = wired
      /\ context' = context
      /\ routes' = Regained(Tab, muted)
  BY DEF SetSelfMuted, engine
<1>2. ASSUME NEW t \in Present(routes)
      PROVE  /\ t \in Tab
             /\ routes[t].channel \in muted <=> selfMuted' \/ micMuted'[routes[t].channel]
  <2>1. t \in Tab /\ routes[t] \in Route
    BY Types DEF Present
  <2>2. routes[t].channel \in Channel
    BY <2>1 DEF Route
  <2> QED
    BY <1>1, <2>1, <2>2
<1>3. selfMuted' \in BOOLEAN /\ micMuted' \in [Channel -> BOOLEAN]
  <2> DEFINE b == ~selfMuted
  <2>1. selfMuted' = b /\ b \in BOOLEAN
    BY DEF SetSelfMuted
  <2> HIDE DEF b
  <2> QED
    BY <1>1, <2>1 DEF Facts, TypeOK
<1> HIDE DEF muted
<1> QED
  BY <1>1, <1>2, <1>3, CallsLeft DEF Switches

LEMMA SetChannelMicMutedKind ==
  ASSUME Facts, NEW c \in Channel, SetChannelMicMuted(c)
  PROVE  CallInv' /\ Switches
<1> DEFINE muted == {d \in Channel : selfMuted \/ micMuted'[d]}
           tabs == {t \in Present(routes) : routes[t].channel = c}
<1>1. /\ UNCHANGED call /\ UNCHANGED engine /\ selfMuted' = selfMuted /\ wired' = wired
      /\ context' = context
      /\ routes' = Regained(tabs, muted)
  BY DEF SetChannelMicMuted, engine
<1>2. \A d \in Channel \ {c} : micMuted'[d] = micMuted[d]
  BY DEF SetChannelMicMuted, Facts, TypeOK
<1>3. ASSUME NEW t \in Present(routes)
      PROVE  IF t \in tabs
             THEN routes[t].channel \in muted <=> selfMuted' \/ micMuted'[routes[t].channel]
             ELSE selfMuted' \/ micMuted'[routes[t].channel] <=>
                    selfMuted \/ micMuted[routes[t].channel]
  <2>1. t \in Tab /\ routes[t] \in Route
    BY Types DEF Present
  <2>2. routes[t].channel \in Channel
    BY <2>1 DEF Route
  <2> QED
    BY <1>1, <1>2, <2>1, <2>2
<1>4. selfMuted' \in BOOLEAN /\ micMuted' \in [Channel -> BOOLEAN]
  <2> DEFINE b == ~micMuted[c]
  <2>1. micMuted' = [micMuted EXCEPT ![c] = b] /\ b \in BOOLEAN
    BY DEF SetChannelMicMuted
  <2> HIDE DEF b
  <2> QED
    BY <1>1, <2>1 DEF Facts, TypeOK
<1> HIDE DEF muted, tabs
<1> QED
  BY <1>1, <1>3, <1>4, CallsLeft DEF Switches

LEMMA NextKind ==
  ASSUME Facts, Next
  PROVE  CallInv' /\ Kind /\ roleOf' = roleOf
<1>1. ASSUME NEW k \in Call, Handler(k)
      PROVE  CallInv' /\ Kind
  <2>1. CASE Resume(k) \/ EnsureMicrophone(k) \/ OpenMicrophone(k) \/ CaptureWithMicrophone(k)
    BY <2>1, ResumeKind, EnsureMicrophoneKind, OpenMicrophoneKind, CaptureWithMicrophoneKind
       DEF Kind
  <2>2. CASE InsertRoute(k) \/ WireRoute(k) \/ FinishMove(k)
    BY <2>2, InsertRouteKind, WireKind DEF Kind
  <2>3. CASE FinishRemoval(k) \/ ContextClosed(k) \/ FinishRemovals(k)
    BY <2>3, FinishRemovalKind, ContextClosedKind, FinishRemovalsKind DEF Kind
  <2>4. ASSUME NEW tabs \in SUBSET Tab, NEW all \in BOOLEAN, StartRemoval(k, tabs, all)
        PROVE  CallInv' /\ Kind
    BY <2>4, StartRemovalKind DEF Kind
  <2>5. CASE \E t \in Tab : Remove(k, t)
    BY <2>4, <2>5 DEF Remove
  <2>6. CASE StopAll(k) \/ \E c \in Channel : StopChannel(k, c)
    BY <2>4, <2>6 DEF StopAll, StopChannel, Present
  <2>7. CASE \E t \in Tab : RemoveTab(k, t) \/ PageTrack(k, t)
    BY <2>7, RemoveTabKind, PageTrackKind DEF Kind
  <2>8. CASE \E t \in Tab, c \in Channel : Capture(k, t, c) \/ Move(k, t, c)
    BY <2>8, CaptureKind, MoveKind DEF Kind
  <2>9. CASE PageTrackClears(k) \/ PageTrackReady(k)
    BY <2>9, PageTrackClearsKind, PageTrackReadyKind DEF Kind
  <2> QED
    BY <1>1, <2>1, <2>2, <2>3, <2>5, <2>6, <2>7, <2>8, <2>9, Zenon DEF Handler
<1> SUFFICES CallInv' /\ Kind
  BY DEF Next
<1>2. CASE \E t \in Tab : SetHubSession(t) \/ PageMicrophone(t)
  BY <1>2, SetHubSessionKind, PageMicrophoneKind DEF Kind
<1>3. CASE SetSelfMuted \/ \E c \in Channel : SetChannelMicMuted(c)
  BY <1>3, SetSelfMutedKind, SetChannelMicMutedKind DEF Kind
<1> QED
  BY <1>1, <1>2, <1>3 DEF Next


-----------------------------------------------------------------------------
(* Types, roles and the context, after a step of each kind.                 *)

LEMMA RegainedRoute ==
  ASSUME Facts, NEW tabs, NEW muted, routes' = Regained(tabs, muted), NEW t \in Tab
  PROVE  /\ routes'[t] \in AnyRoute /\ Alike(t)
         /\ routes[t] # None /\ routes[t].mic # "none" =>
              (routes'[t].open <=> IF t \in tabs THEN routes[t].channel \notin muted
                                   ELSE routes[t].open)
<1>1. CASE routes[t] = None
  BY <1>1 DEF Regained, AnyRoute, Present, Alike
<1>2. CASE routes[t] # None
  <2> DEFINE open == routes[t].channel \notin muted
             r == [routes[t] EXCEPT !.open = open]
  <2>1. routes[t] \in Route
    BY <1>2, Types
  <2>2. routes'[t] = IF t \notin tabs \/ routes[t].mic = "none" THEN routes[t] ELSE r
    BY <1>2 DEF Regained, Present
  <2>3. open \in BOOLEAN
    OBVIOUS
  <2>4. open <=> routes[t].channel \notin muted
    OBVIOUS
  <2> HIDE DEF open
  <2>5. /\ r \in Route /\ r.role = routes[t].role /\ r.hub = routes[t].hub
        /\ r.mic = routes[t].mic /\ r.channel = routes[t].channel
        /\ r.hears = routes[t].hears /\ r.open = open /\ r.live = routes[t].live
    BY <2>1, <2>3 DEF Route
  <2> HIDE DEF r
  <2> QED
    BY <1>2, <2>1, <2>2, <2>4, <2>5, NoneAssumption DEF AnyRoute, Alike
<1> QED
  BY <1>1, <1>2

LEMMA SwitchedRoutes ==
  ASSUME Facts, NEW tabs, NEW muted, routes' = Regained(tabs, muted)
  PROVE  routes' \in [Tab -> AnyRoute] /\ \A t \in Tab : Alike(t)
<1>1. routes' = [t \in Tab |-> routes'[t]]
  BY DEF Regained
<1>2. \A t \in Tab : routes'[t] \in AnyRoute /\ Alike(t)
  BY RegainedRoute
<1> QED
  BY <1>1, <1>2

(* What a step of any kind but Rewires does to one tab at most.             *)
LEMMA AloneRoutes ==
  ASSUME Facts, Kind
  PROVE  \/ Rewires
         \/ /\ routes' \in [Tab -> AnyRoute]
            /\ \A t \in Tab : routes'[t] # None =>
                 /\ routes'[t].role = roleOf[t]
                 /\ routes'[t].live => (routes[t] # None /\ routes[t].live) \/ context # "none"
<1>0. routes \in [Tab -> AnyRoute] /\ \A t \in Tab : routes[t] # None => routes[t] \in Route
  BY Types
<1>1. \A t \in Tab : routes[t] # None => routes[t].role = roleOf[t]
  BY DEF Facts, Roled
<1> DEFINE Good == /\ routes' \in [Tab -> AnyRoute]
                   /\ \A t \in Tab : routes'[t] # None =>
                        /\ routes'[t].role = roleOf[t]
                        /\ routes'[t].live => (routes[t] # None /\ routes[t].live)
                                              \/ context # "none"
<1>2. CASE Calm
  BY <1>1, <1>2 DEF Calm, Alike
<1>3. CASE Switches
  BY <1>1, <1>3, SwitchedRoutes DEF Switches, Alike
<1>4. ASSUME NEW t \in Tab, NEW r \in Route, r.role = roleOf[t],
             r.live => (routes[t] # None /\ routes[t].live) \/ context # "none",
             routes' = [routes EXCEPT ![t] = r]
      PROVE  Good
  BY <1>0, <1>1, <1>4 DEF AnyRoute
<1>5. ASSUME NEW k \in Call, Inserts(k) PROVE Good
  <2> DEFINE r == NewRoute(call[k])
  <2>1. /\ r \in Route /\ r.role = roleOf[call[k].tab] /\ call[k].tab \in Tab
        /\ context = "none" => ~r.live
    BY <1>5, NewRouteType DEF Inserts
  <2>2. routes' = [routes EXCEPT ![call[k].tab] = r]
    BY <1>5 DEF Inserts
  <2> HIDE DEF r
  <2> QED
    BY <1>4, <2>1, <2>2
<1>6. ASSUME NEW k \in Call, NEW t \in Tab, Drops(k, t) PROVE Good
  BY <1>0, <1>1, <1>6 DEF Drops, AnyRoute
<1>7. ASSUME NEW k \in Call, NEW t \in Tab, NEW c \in Channel, Shifts(k, t, c) PROVE Good
  <2> DEFINE r == [routes[t] EXCEPT !.channel = c, !.hub = FALSE]
  <2>1. routes[t] # None /\ routes[t] \in Route
    BY <1>0, <1>7 DEF Shifts
  <2>2. r \in Route /\ r.role = routes[t].role /\ r.live = routes[t].live
    BY <2>1, ChangedRoute
  <2>3. routes' = [routes EXCEPT ![t] = r]
    BY <1>0, <1>7, <2>1 DEF Shifts
  <2> HIDE DEF r
  <2> QED
    BY <1>1, <1>4, <2>1, <2>2, <2>3
<1>8. ASSUME NEW t \in Tab, Breaks(t) PROVE Good
  <2> DEFINE r == [routes[t] EXCEPT !.hub = TRUE]
  <2>1. routes[t] # None /\ routes[t] \in Route
    BY <1>0, <1>8 DEF Breaks
  <2>2. r \in Route /\ r.role = routes[t].role /\ r.live = routes[t].live
    BY <2>1 DEF Route
  <2>3. routes' = [routes EXCEPT ![t] = r]
    BY <1>8 DEF Breaks
  <2> HIDE DEF r
  <2> QED
    BY <1>1, <1>4, <2>1, <2>2, <2>3
<1> HIDE DEF Good
<1>9. Rewires \/ Good
  BY <1>2, <1>3, <1>5, <1>6, <1>7, <1>8 DEF Kind, Good
<1> QED
  BY <1>9 DEF Good

LEMMA FactsKept ==
  ASSUME Facts, Kind, CallInv', roleOf' = roleOf
  PROVE  Facts'
<1>1. CASE Rewires
  <2>1. PICK R \in [Tab -> AnyRoute], source \in Sources :
          /\ Rebuild(R, source) /\ Roled(R) /\ MicKept(R, source)
          /\ context = "none" => Dead(R)
    BY <1>1 DEF Rewires
  <2>2. /\ routes' \in [Tab -> AnyRoute] /\ wired' \in BOOLEAN
        /\ \A t \in Tab : routes'[t] # None =>
             R[t] # None /\ routes'[t].role = R[t].role /\ routes'[t].live = R[t].live
    BY <2>1, Rebuilt, Zenon DEF Same
  <2>3. Roled(routes)' /\ (context' = "none" => Dead(routes'))
    BY <1>1, <2>1, <2>2 DEF Roled, Dead, Rewires
  <2>4. /\ microphone' \in Sources /\ context' \in Contexts
        /\ context' = "none" => microphone' # "live"
    BY <1>1, <2>1 DEF Rewires, MicKept
  <2>5. selfMuted' \in BOOLEAN /\ micMuted' \in [Channel -> BOOLEAN]
    BY <1>1 DEF Rewires, SameSwitches, Facts, TypeOK
  <2>6. call' \in [Call -> CallState]
    BY DEF CallInv, GoodCall
  <2>7. TypeOK'
    BY <2>2, <2>4, <2>5, <2>6 DEF Facts, TypeOK, AnyRoute, Sources, Contexts
  <2> QED
    BY <2>3, <2>4, <2>7 DEF Facts, Closed
<1>2. CASE ~Rewires
  <2>1. /\ routes' \in [Tab -> AnyRoute]
        /\ \A t \in Tab : routes'[t] # None =>
             /\ routes'[t].role = roleOf[t]
             /\ routes'[t].live => (routes[t] # None /\ routes[t].live) \/ context # "none"
    BY <1>2, AloneRoutes
  <2>2. /\ Roled(routes)'
    BY <2>1 DEF Roled
  <2>3. \/ Calm
        \/ context' = context /\ microphone' = microphone
    BY <1>2, Zenon DEF Kind, Switches, Inserts, Drops, Shifts, Breaks, Apart, engine
  <2>4. /\ context' \in Contexts /\ microphone' \in Sources
        /\ context' = "none" => Dead(routes') /\ microphone' # "live"
    <3>1. CASE Calm
      BY <3>1 DEF Calm, MicKept
    <3>2. CASE context' = context /\ microphone' = microphone
      BY <2>1, <3>2, Types DEF Facts, Closed, Dead
    <3> QED
      BY <2>3, <3>1, <3>2
  <2>5. wired' \in BOOLEAN
    <3>1. wired' = wired \/ wired' = FALSE
      BY <1>2, Zenon DEF Kind, Calm, Switches, Inserts, Drops, Shifts, Breaks, Apart
    <3> QED
      BY <3>1 DEF Facts, TypeOK
  <2>6. selfMuted' \in BOOLEAN /\ micMuted' \in [Channel -> BOOLEAN]
    <3>1. SameSwitches \/ (selfMuted' \in BOOLEAN /\ micMuted' \in [Channel -> BOOLEAN])
      BY <1>2, Zenon DEF Kind, Calm, Switches, Inserts, Drops, Shifts, Breaks, Apart
    <3> QED
      BY <3>1 DEF SameSwitches, Facts, TypeOK
  <2>7. call' \in [Call -> CallState]
    BY DEF CallInv, GoodCall
  <2>8. TypeOK'
    BY <2>1, <2>4, <2>5, <2>6, <2>7 DEF Facts, TypeOK, AnyRoute, Sources, Contexts
  <2> QED
    BY <2>2, <2>4, <2>8 DEF Facts, Closed
<1> QED
  BY <1>1, <1>2

-----------------------------------------------------------------------------
(* The gains.                                                              *)

Sound == Silent(routes, selfMuted, micMuted) /\ Local(routes)

LEMMA SoundKept ==
  ASSUME Facts, Kind, wired => Sound, wired'
  PROVE  Silent(routes', selfMuted', micMuted') /\ Local(routes')
<1>0. routes \in [Tab -> AnyRoute] /\ \A t \in Tab : routes[t] # None => routes[t] \in Route
  BY Types
<1>1. CASE Rewires
  <2>1. PICK R \in [Tab -> AnyRoute], source \in Sources : Rebuild(R, source) /\ Roled(R)
    BY <1>1 DEF Rewires
  <2>2. ASSUME NEW t \in Tab, routes'[t] # None, isOutputRole(routes'[t].role),
               routes'[t].mic # "none"
        PROVE  /\ routes'[t].open <=> ~(selfMuted' \/ micMuted'[routes'[t].channel])
               /\ isMeeting(routes'[t].role) /\ ~routes'[t].hub
    <3>1. /\ R[t] # None /\ routes'[t].role = R[t].role /\ routes'[t].hub = R[t].hub
          /\ routes'[t].channel = R[t].channel
      BY <2>1, <2>2, Rebuilt, Zenon DEF Same
    <3>2. isOutputRole(R[t].role)
      BY <2>2, <3>1
    <3>3. /\ routes'[t].mic = MicInput(R[t], source)
          /\ routes'[t].open <=>
               MicInput(R[t], source) # "none" /\ ~isMicrophoneMuted(R[t].channel)
      BY <2>1, <3>1, <3>2, Rebuilt, Zenon
    <3>4. isMeeting(R[t].role) /\ ~R[t].hub
      BY <2>2, <3>3 DEF MicInput
    <3> QED
      BY <1>1, <2>2, <3>1, <3>3, <3>4 DEF Rewires, SameSwitches, isMicrophoneMuted
  <2> QED
    BY <2>2 DEF Silent, Local
<1>2. CASE Calm
  <2>1. Sound /\ SameSwitches
    BY <1>2 DEF Calm
  <2> QED
    BY <1>2, <2>1 DEF Calm, Alike, Sound, Silent, Local, SameSwitches
<1>3. CASE Switches
  <2>1. Sound
    BY <1>3 DEF Switches
  <2>2. PICK tabs, muted :
          /\ routes' = Regained(tabs, muted)
          /\ \A t \in Present(routes) :
               IF t \in tabs
               THEN routes[t].channel \in muted <=> selfMuted' \/ micMuted'[routes[t].channel]
               ELSE selfMuted' \/ micMuted'[routes[t].channel] <=>
                      selfMuted \/ micMuted[routes[t].channel]
    BY <1>3 DEF Switches
  <2>3. ASSUME NEW t \in Tab, routes'[t] # None, isOutputRole(routes'[t].role),
               routes'[t].mic # "none"
        PROVE  /\ routes'[t].open <=> ~(selfMuted' \/ micMuted'[routes'[t].channel])
               /\ isMeeting(routes'[t].role) /\ ~routes'[t].hub
    <3>1. /\ Alike(t)
          /\ routes[t] # None /\ routes[t].mic # "none" =>
               (routes'[t].open <=> IF t \in tabs THEN routes[t].channel \notin muted
                                    ELSE routes[t].open)
      BY <2>2, RegainedRoute
    <3>2. /\ routes[t] # None /\ isOutputRole(routes[t].role) /\ routes[t].mic # "none"
          /\ routes'[t].channel = routes[t].channel /\ routes'[t].hub = routes[t].hub
          /\ routes'[t].role = routes[t].role
      BY <2>3, <3>1 DEF Alike
    <3>3. /\ routes[t].open <=> ~(selfMuted \/ micMuted[routes[t].channel])
          /\ isMeeting(routes[t].role) /\ ~routes[t].hub
      BY <2>1, <3>2 DEF Sound, Silent, Local
    <3>4. t \in Present(routes)
      BY <3>2 DEF Present
    <3> QED
      BY <2>2, <3>1, <3>2, <3>3, <3>4
  <2> QED
    BY <2>3 DEF Silent, Local
<1>4. ASSUME Sound, SameSwitches, NEW t \in Tab, NEW r \in Route,
             isOutputRole(r.role) => r.mic = "none", routes' = [routes EXCEPT ![t] = r]
      PROVE  Silent(routes', selfMuted', micMuted') /\ Local(routes')
  BY <1>0, <1>4 DEF Sound, Silent, Local, SameSwitches
<1>5. ASSUME NEW k \in Call, Inserts(k)
      PROVE  Silent(routes', selfMuted', micMuted') /\ Local(routes')
  <2> DEFINE r == NewRoute(call[k])
  <2>1. r \in Route /\ r.mic = "none" /\ call[k].tab \in Tab
    BY <1>5, NewRouteType DEF Inserts
  <2>2. routes' = [routes EXCEPT ![call[k].tab] = r] /\ SameSwitches /\ Sound
    BY <1>5 DEF Inserts, Apart
  <2> HIDE DEF r
  <2> QED
    BY <1>4, <2>1, <2>2
<1>6. ASSUME NEW k \in Call, NEW t \in Tab, Drops(k, t)
      PROVE  Silent(routes', selfMuted', micMuted') /\ Local(routes')
  <2>1. SameSwitches /\ Sound /\ routes' = [routes EXCEPT ![t] = None]
    BY <1>6 DEF Drops, Apart
  <2> QED
    BY <1>0, <2>1 DEF Sound, Silent, Local, SameSwitches
<1>7. ASSUME NEW k \in Call, NEW t \in Tab, NEW c \in Channel, Shifts(k, t, c)
      PROVE  Silent(routes', selfMuted', micMuted') /\ Local(routes')
  <2> DEFINE r == [routes[t] EXCEPT !.channel = c, !.hub = FALSE]
  <2>1. routes[t] # None /\ routes[t] \in Route /\ routes[t].hub /\ SameSwitches /\ Sound
    BY <1>0, <1>7 DEF Shifts, Apart
  <2>2. r \in Route /\ r.role = routes[t].role /\ r.mic = routes[t].mic
    BY <2>1, ChangedRoute
  <2>3. routes' = [routes EXCEPT ![t] = r]
    BY <1>0, <1>7, <2>1 DEF Shifts
  <2>4. isOutputRole(r.role) => r.mic = "none"
    BY <2>1, <2>2 DEF Sound, Local
  <2> HIDE DEF r
  <2> QED
    BY <1>4, <2>1, <2>2, <2>3, <2>4
<1>8. ASSUME NEW t \in Tab, Breaks(t) PROVE FALSE
  BY <1>8 DEF Breaks
<1> QED
  BY <1>1, <1>2, <1>3, <1>5, <1>6, <1>7, <1>8 DEF Kind

-----------------------------------------------------------------------------
(* The matrix.                                                             *)

(* What N-1 says of one output, and when it is due.                         *)
Due == \A k \in Call : ~Busy(call[k])
WiredWell(t) ==
  /\ routes[t].hears = Hears(routes, t)
  /\ routes[t].mic = "microphone" <=>
       isMeeting(routes[t].role) /\ microphone # "none" /\ ~routes[t].hub
Settled == Due => \A t \in Outputs(routes) : WiredWell(t)

Isolation ==
  \A t \in Outputs(routes) \ Unsettled :
    \A s \in (routes[t].hears \cap Present(routes)) \ Unsettled :
      s # t /\ routes[s].channel = routes[t].channel

LEMMA StillUnsettled == ASSUME Stays PROVE Unsettled \subseteq Unsettled'
  BY DEF Stays, Unsettled, Busy

LEMMA StillRemoving == ASSUME Stays, Removing PROVE Removing'
  BY DEF Stays, Removing, Busy

(* A tab that is still to be wired is not looked at.                        *)
LEMMA IsolatedBut ==
  ASSUME Stays, Isolation, NEW t \in Unsettled', \A s \in Tab : routes'[s] = routes[s] \/ s = t
  PROVE  Isolation'
  BY StillUnsettled DEF Isolation, Outputs, Present

LEMMA WasDue == ASSUME Stays, Due' PROVE Due
  BY DEF Stays, Due, Busy

LEMMA AlikeKeeps ==
  ASSUME Stays, MicKept(routes, microphone), \A t \in Tab : Alike(t), Isolation, Settled
  PROVE  Isolation' /\ Settled'
<1>1. Outputs(routes') = Outputs(routes) /\ Present(routes') = Present(routes)
  BY DEF Alike, Outputs, Present
<1>2. Isolation'
  BY <1>1, StillUnsettled DEF Isolation, Alike, Outputs, Present
<1>3. \A t \in Outputs(routes) : Hears(routes', t) = Hears(routes, t)
  BY <1>1 DEF Hears, Alike, Outputs, Present
<1>4. ASSUME Due', NEW t \in Outputs(routes')
      PROVE  WiredWell(t)'
  <2>1. Due
    BY <1>4, WasDue
  <2>2. t \in Tab /\ t \in Outputs(routes) /\ routes[t] # None
    BY <1>1, <1>4 DEF Outputs, Present
  <2>3. WiredWell(t)
    BY <2>1, <2>2 DEF Settled
  <2>4. isMeeting(routes[t].role) => (microphone' # "none" <=> microphone # "none")
    BY <2>2 DEF MicKept, Meets
  <2> QED
    BY <1>3, <2>2, <2>3, <2>4 DEF Alike, WiredWell
<1> QED
  BY <1>2, <1>4 DEF Settled

LEMMA RebuiltOutputs ==
  ASSUME NEW R \in [Tab -> AnyRoute], NEW source \in Sources, Rebuild(R, source), Roled(R),
         wired'
  PROVE  \A t \in Tab : R[t] # None /\ isOutputRole(R[t].role) =>
           routes'[t].hears = Hears(R, t) /\ routes'[t].mic = MicInput(R[t], source)
<1>1. ASSUME NEW t \in Tab, R[t] # None, isOutputRole(R[t].role)
      PROVE  routes'[t].hears = Hears(R, t) /\ routes'[t].mic = MicInput(R[t], source)
  BY <1>1, Rebuilt
<1> QED
  BY <1>1

LEMMA MatrixKept ==
  ASSUME Facts, Kind, wired => Isolation /\ Settled, wired'
  PROVE  Isolation' /\ Settled'
<1>0. routes \in [Tab -> AnyRoute]
  BY Types
<1>1. CASE Rewires
  <2>1. PICK R \in [Tab -> AnyRoute], source \in Sources :
          Rebuild(R, source) /\ Roled(R) /\ MicKept(R, source)
    BY <1>1 DEF Rewires
  <2>2. \A t \in Tab : /\ routes'[t] = None <=> R[t] = None
                       /\ R[t] # None => Same(routes'[t], R[t])
    BY <2>1, Rebuilt, Zenon
  <2>3. \A t \in Tab : R[t] # None /\ isOutputRole(R[t].role) =>
          routes'[t].hears = Hears(R, t) /\ routes'[t].mic = MicInput(R[t], source)
    BY <2>1, RebuiltOutputs
  <2>4. Present(routes') = Present(R) /\ Outputs(routes') = Outputs(R)
    BY <2>2 DEF Outputs, Present, Same
  <2>5. \A t \in Outputs(routes') : Hears(routes', t) = Hears(R, t)
    BY <2>2, <2>4 DEF Hears, Outputs, Present, Same
  <2>6. ASSUME NEW t \in Outputs(routes')
        PROVE  WiredWell(t)'
    <3>1. t \in Tab /\ R[t] # None /\ isOutputRole(R[t].role)
      BY <2>4 DEF Outputs, Present
    <3>2. routes'[t].hears = Hears(routes', t) /\ routes'[t].mic = MicInput(R[t], source)
      BY <2>3, <2>5, <3>1
    <3>3. isMeeting(R[t].role) => (microphone' # "none" <=> source # "none")
      BY <2>1, <3>1 DEF MicKept, Meets
    <3>4. MicInput(R[t], source) = "microphone" <=>
            isMeeting(R[t].role) /\ source # "none" /\ ~R[t].hub
      BY DEF MicInput
    <3> QED
      BY <2>2, <3>1, <3>2, <3>3, <3>4 DEF WiredWell, Same
  <2>7. Isolation'
    BY <2>6 DEF Isolation, Hears, WiredWell
  <2> QED
    BY <2>6, <2>7 DEF Settled
<1>2. CASE Calm
  BY <1>2, AlikeKeeps DEF Calm
<1>3. CASE Switches
  <2>1. \A t \in Tab : Alike(t)
    BY <1>3, SwitchedRoutes DEF Switches
  <2>2. MicKept(routes, microphone)
    BY <1>3, MicSame DEF Switches, engine
  <2> QED
    BY <1>3, <2>1, <2>2, AlikeKeeps DEF Switches
<1>4. ASSUME Isolation, Stays, NEW k \in Call, Busy(call'[k]), NEW t \in Unsettled',
             \A s \in Tab : routes'[s] = routes[s] \/ s = t
      PROVE  Isolation' /\ Settled'
  BY <1>4, IsolatedBut DEF Settled, Due
<1>5. ASSUME NEW k \in Call, Inserts(k) PROVE Isolation' /\ Settled'
  <2>1. call[k].tab \in Unsettled' /\ Busy(call'[k]) /\ Stays /\ Isolation
    BY <1>5 DEF Inserts, Apart, Unsettled, Busy
  <2>2. \A s \in Tab : routes'[s] = routes[s] \/ s = call[k].tab
    BY <1>0, <1>5 DEF Inserts
  <2> QED
    BY <1>4, <2>1, <2>2
<1>6. ASSUME NEW k \in Call, NEW t \in Tab, Drops(k, t) PROVE Isolation' /\ Settled'
  <2>1. Busy(call'[k]) /\ routes'[t] = None /\ Stays /\ Isolation
    BY <1>0, <1>6 DEF Drops, Apart, Busy
  <2>2. \A s \in Tab : routes'[s] = routes[s] \/ s = t
    BY <1>0, <1>6 DEF Drops
  <2>3. Isolation'
    BY <2>1, <2>2, StillUnsettled DEF Isolation, Outputs, Present
  <2>4. Settled'
    BY <2>1 DEF Settled, Due
  <2> QED
    BY <2>3, <2>4
<1>7. ASSUME NEW k \in Call, NEW t \in Tab, NEW c \in Channel, Shifts(k, t, c)
      PROVE  Isolation' /\ Settled'
  <2>1. t \in Unsettled' /\ Busy(call'[k]) /\ Stays /\ Isolation
    BY <1>7 DEF Shifts, Apart, Unsettled, Busy
  <2>2. \A s \in Tab : routes'[s] = routes[s] \/ s = t
    BY <1>0, <1>7 DEF Shifts
  <2> QED
    BY <1>4, <2>1, <2>2
<1>8. ASSUME NEW t \in Tab, Breaks(t) PROVE FALSE
  BY <1>8 DEF Breaks
<1> QED
  BY <1>1, <1>2, <1>3, <1>5, <1>6, <1>7, <1>8 DEF Kind

-----------------------------------------------------------------------------
(* What is to blame for a matrix that is half wired.                        *)

Blamed ==
  \/ \E t \in Tab : routes[t] # None /\ ~routes[t].live
  \/ microphone = "stale" /\ Meets(routes)
  \/ Unsettled # {} \/ Removing

BlameInv == ~wired /\ context # "none" /\ Present(routes) # {} => Blamed

(* What is stale stays so, and what is due stays due.                       *)
LEMMA BlameStays ==
  ASSUME Blamed, Stays, MicKept(routes, microphone), \A t \in Tab : Alike(t)
  PROVE  Blamed'
<1>1. CASE \E t \in Tab : routes[t] # None /\ ~routes[t].live
  <2>1. PICK t \in Tab : routes[t] # None /\ ~routes[t].live
    BY <1>1
  <2>2. ~routes'[t].live => \E s \in Tab : routes'[s] # None /\ ~routes'[s].live
    BY <2>1 DEF Alike
  <2> QED
    BY <2>1, <2>2 DEF Alike, Blamed
<1>2. CASE microphone = "stale" /\ Meets(routes)
  <2>1. Meets(routes')
    BY <1>2 DEF Meets, Alike
  <2> QED
    BY <1>2, <2>1 DEF MicKept, Blamed
<1>3. CASE Unsettled # {}
  BY <1>3, StillUnsettled DEF Blamed
<1>4. CASE Removing
  BY <1>4, StillRemoving DEF Blamed
<1> QED
  BY <1>1, <1>2, <1>3, <1>4 DEF Blamed

LEMMA BlameKept ==
  ASSUME Facts, Kind, BlameInv, ~wired', context' # "none", Present(routes') # {}
  PROVE  Blamed'
<1>1. CASE Rewires
  <2>1. PICK R \in [Tab -> AnyRoute], source \in Sources :
          Rebuild(R, source) /\ Roled(R) /\ MicKept(R, source)
    BY <1>1 DEF Rewires
  <2>2. context # "none"
    BY <1>1 DEF Rewires
  <2>3. \/ \E t \in Tab : R[t] # None /\ ~R[t].live
        \/ source = "stale" /\ Meets(R)
    BY <2>1, <2>2, Rebuilt, Zenon
  <2>4. \A t \in Tab : /\ routes'[t] = None <=> R[t] = None
                       /\ R[t] # None => Same(routes'[t], R[t])
    BY <2>1, Rebuilt, Zenon
  <2>5. CASE \E t \in Tab : R[t] # None /\ ~R[t].live
    BY <2>4, <2>5 DEF Same, Blamed
  <2>6. CASE source = "stale" /\ Meets(R)
    <3>1. microphone' = "stale"
      BY <2>1, <2>6 DEF MicKept
    <3>2. Meets(routes')
      BY <2>4, <2>6 DEF Meets, Same
    <3> QED
      BY <3>1, <3>2 DEF Blamed
  <2> QED
    BY <2>3, <2>5, <2>6
<1>2. CASE Calm
  <2>1. Present(routes') = Present(routes) /\ ~wired
    BY <1>2 DEF Calm, Alike, Present
  <2>2. CASE context = "none"
    <3>1. PICK t \in Tab : routes'[t] # None
      BY DEF Present
    <3>2. routes[t] # None /\ ~routes[t].live
      BY <1>2, <2>2, <3>1 DEF Calm, Alike, Facts, Closed, Dead
    <3>3. ~routes'[t].live
      BY <1>2, <3>2 DEF Calm, Alike
    <3> QED
      BY <3>1, <3>3 DEF Blamed
  <2>3. CASE context # "none"
    BY <1>2, <2>1, <2>3, BlameStays DEF BlameInv, Calm
  <2> QED
    BY <2>2, <2>3
<1>3. CASE Switches
  <2>1. \A t \in Tab : Alike(t)
    BY <1>3, SwitchedRoutes DEF Switches
  <2>2. MicKept(routes, microphone) /\ context' = context
    BY <1>3, MicSame DEF Switches, engine
  <2>3. Present(routes') = Present(routes)
    BY <2>1 DEF Alike, Present
  <2> QED
    BY <1>3, <2>1, <2>2, <2>3, BlameStays DEF BlameInv, Switches
<1>4. ASSUME NEW k \in Call, Inserts(k) PROVE Blamed'
  BY <1>4 DEF Inserts, Unsettled, Blamed
<1>5. ASSUME NEW k \in Call, NEW t \in Tab, Drops(k, t) PROVE Blamed'
  BY <1>5 DEF Drops, Removing, Blamed
<1>6. ASSUME NEW k \in Call, NEW t \in Tab, NEW c \in Channel, Shifts(k, t, c) PROVE Blamed'
  BY <1>6 DEF Shifts, Unsettled, Blamed
<1>7. ASSUME NEW t \in Tab, Breaks(t) PROVE Blamed'
  <2> DEFINE r == [routes[t] EXCEPT !.hub = TRUE]
  <2>1. routes \in [Tab -> AnyRoute] /\ routes[t] \in Route /\ ~routes[t].live
    BY <1>7, Types DEF Breaks
  <2>2. r \in Route /\ ~r.live
    BY <2>1 DEF Route
  <2>3. routes' = [routes EXCEPT ![t] = r]
    BY <1>7 DEF Breaks
  <2> HIDE DEF r
  <2>4. routes'[t] # None /\ ~routes'[t].live
    BY <2>1, <2>2, <2>3, NoneAssumption
  <2> QED
    BY <2>4 DEF Blamed
<1> QED
  BY <1>1, <1>2, <1>3, <1>4, <1>5, <1>6, <1>7 DEF Kind

-----------------------------------------------------------------------------
(* The inductive invariant.                                                *)

IInv == Facts /\ (wired => Sound /\ Isolation /\ Settled) /\ BlameInv

LEMMA InitInv == Init => IInv
<1> SUFFICES ASSUME Init PROVE IInv
  OBVIOUS
<1>1. roleOf \in [Tab -> Roles]
  BY EngineAssumption DEF Init
<1>2. \A t \in Tab : routes[t] = None
  BY DEF Init
<1>3. Present(routes) = {} /\ Outputs(routes) = {}
  BY <1>2 DEF Present, Outputs
<1>4. \A k \in Call : call[k] = Idle
  BY DEF Init
<1>5. Idle \in CallState /\ Idle.at = "idle" /\ GoodCall(Idle) /\ ~Idle.current
  BY GoodIdle DEF GoodCall
<1>6. TypeOK
  BY <1>1, <1>5 DEF Init, TypeOK
<1>7. CallInv
  BY <1>4, <1>5 DEF Init, CallInv
<1>8. Roled(routes) /\ Closed /\ Sound
  BY <1>2 DEF Init, Roled, Closed, Dead, Sound, Silent, Local
<1>9. Isolation /\ Settled /\ BlameInv
  BY <1>3 DEF Isolation, Settled, BlameInv
<1> QED
  BY <1>6, <1>7, <1>8, <1>9 DEF IInv, Facts

LEMMA NextInv == IInv /\ [Next]_vars => IInv'
<1> SUFFICES ASSUME IInv, [Next]_vars PROVE IInv'
  OBVIOUS
<1>0. Facts /\ (wired => Sound) /\ (wired => Isolation /\ Settled) /\ BlameInv
  BY DEF IInv
<1>1. CASE Next
  <2>1. CallInv' /\ Kind /\ roleOf' = roleOf
    BY <1>0, <1>1, NextKind
  <2>2. Facts'
    BY <1>0, <2>1, FactsKept
  <2>3. wired' => Sound'
    BY <1>0, <2>1, SoundKept DEF Sound, Silent, Local
  <2>4. wired' => Isolation' /\ Settled'
    BY <1>0, <2>1, MatrixKept
  <2>5. BlameInv'
    BY <1>0, <2>1, BlameKept DEF BlameInv, Present
  <2> QED
    BY <2>2, <2>3, <2>4, <2>5 DEF IInv
<1>2. CASE UNCHANGED vars
  <2>1. Facts'
    BY <1>0, <1>2 DEF vars, Facts, TypeOK, CallInv, Roled, Closed, Dead
  <2>2. Unsettled' = Unsettled /\ (Removing <=> Removing') /\ Present(routes') = Present(routes)
        /\ routes' = routes /\ Outputs(routes') = Outputs(routes)
    BY <1>2 DEF vars, Unsettled, Outputs, Present, Removing
  <2>3. wired' => Sound'
    BY <1>0, <1>2 DEF vars, Sound, Silent, Local
  <2>4. wired' => Isolation' /\ Settled'
    BY <1>0, <1>2, <2>2 DEF vars, Isolation, Settled, Due, WiredWell
  <2>5. BlameInv'
    BY <1>0, <1>2, <2>2 DEF vars, BlameInv, Blamed, Meets
  <2> QED
    BY <2>1, <2>3, <2>4, <2>5 DEF IInv
<1> QED
  BY <1>1, <1>2

LEMMA Inductive == Spec => []IInv
  BY InitInv, NextInv, PTL DEF Spec

-----------------------------------------------------------------------------
(* The theorems.                                                           *)

(* Routes, switches and handlers always have values of their types          *)
(* (offscreen.js:1-75).                                                    *)
THEOREM TypeCorrect == Spec => []TypeOK
<1>1. IInv => TypeOK
  BY DEF IInv, Facts
<1> QED
  BY <1>1, Inductive, PTL

(* Whatever is captured, moved, removed or in flight, a microphone input    *)
(* has gain exactly when neither the operator nor the channel is muted,     *)
(* unless the last wiring has thrown (offscreen.js:412, 428-468).           *)
THEOREM MutedMeansSilentHolds == Spec => []MutedMeansSilent
<1>1. IInv => MutedMeansSilent
  BY DEF IInv, Sound, Silent, MutedMeansSilent, Outputs, Present, isMicrophoneMuted
<1> QED
  BY <1>1, Inductive, PTL

(* When no handler is between changing and wiring and the wiring has not    *)
(* thrown, every output hears the other captured tabs of its channel, and   *)
(* the operator's microphone when the Hub does not bring it                 *)
(* (offscreen.js:618-658).                                                  *)
THEOREM MatrixIsNMinusOneHolds == Spec => []MatrixIsNMinusOne
<1>1. ASSUME IInv PROVE MatrixIsNMinusOne
  <2>1. ASSUME Unsettled = {}, ~Removing PROVE Due
    BY <2>1 DEF Unsettled, Removing, Busy, Due
  <2>2. Roled(routes) /\ (wired => Settled)
    BY <1>1 DEF IInv, Facts
  <2>3. ASSUME NEW t \in Outputs(routes)
        PROVE  /\ routes[t].role = roleOf[t]
               /\ Hears(routes, t) =
                    {s \in Present(routes) : /\ s # t
                                             /\ roleOf[s] # "receiver"
                                             /\ routes[s].channel = routes[t].channel}
    BY <2>2 DEF Roled, Hears, Outputs, Present
  <2> QED
    BY <2>1, <2>2, <2>3 DEF MatrixIsNMinusOne, Settled, WiredWell, isMeeting
<1> QED
  BY <1>1, Inductive, PTL

(* What a wired route hears is of its own channel, whatever is in flight    *)
(* (offscreen.js:1189-1196).                                                *)
THEOREM ChannelsIsolatedHolds == Spec => []ChannelsIsolated
<1>1. IInv => ChannelsIsolated
  BY DEF IInv, Isolation, ChannelsIsolated
<1> QED
  BY <1>1, Inductive, PTL

(* Whatever was closed under whatever capture, and whatever threw, a matrix *)
(* that is still half wired when the handlers have settled is so because a  *)
(* captured tab or the microphone is of a closed context                    *)
(* (offscreen.js:1356-1361, 371, 1178, 1233, 1251).                         *)
THEOREM StaleIsToBlameHolds == Spec => []StaleIsToBlame
<1>1. IInv => StaleIsToBlame
  BY DEF IInv, BlameInv, Blamed, StaleIsToBlame, Present
<1> QED
  BY <1>1, Inductive, PTL
=============================================================================
