---------------------------- MODULE Settings_proofs ----------------------------
(***************************************************************************)
(* Proofs about Settings, for any number of handlers, channels, microphones*)
(* and actions of the user: who waits in the queues and for what, what the *)
(* popup shows, and that the document obeys the store: the switches of the *)
(* channels, the microphone, and the operator's own switch.                *)
(***************************************************************************)
EXTENDS Settings, FiniteSetTheorems, TLAPS

-----------------------------------------------------------------------------
(* Where a handler can be, and what it can be about there.                  *)
Service == {"storage", "browser", "document"}
PlacesOf ==
  [storage |-> {"read", "toggle", "write", "undo", "add", "getSelf", "getDevice", "clear", "wipe"},
   browser |-> {"has", "ensure", "create", "close"},
   document |-> {"ask", "putSelf", "putMic", "putMonitor", "ensureMic", "capture"}]
Elsewhere == {"idle", "loading", "opening", "reopening", "lost"}
Place == Elsewhere \cup UNION {PlacesOf[s] : s \in Service}

Switch == {"mic", "monitor", "allMonitor"}
Told == Switch \cup {"self", "device"}
KindsAt(at) ==
  CASE at = "idle" -> {"stop"}
    [] at = "read" -> Told \cup {"select"}
    [] at = "toggle" -> {"toggle"}
    [] at = "write" -> Told \cup {"select", "import"}
    [] at \in {"has", "ask", "undo"} -> Told
    [] at \in {"clear", "wipe"} -> {"clear"}
    [] at = "close" -> {"stop", "clear"}
    [] at = "opening" -> {"device", "add"}
    [] at = "lost" -> Told \cup {"add"}
    [] OTHER -> {"add"}

Handler ==
  [at: Place, action: [kind: Kind, value: Channel \cup Device \cup {None}, muted: BOOLEAN], was: Store]
Sound(h) ==
  /\ h.action.kind \in KindsAt(h.at)
  /\ h.action.kind \in {"select", "mic", "monitor"} => h.action.value \in Channel
  /\ h.action.kind = "device" \/ h.at \in {"ensureMic", "opening", "reopening"} => h.action.value \in Device

Popup ==
  [shown: Store \cup {None}, busy: Call \cup {None}, file: Call \cup {None}, asked: 0 .. 2]

RestOK ==
  /\ store \in Store /\ doc \in Document \cup {None, Loading}
  /\ popup \in Popup \cup {None}
  /\ left \in Nat /\ overlapped \in SUBSET {"config", "self"}
  /\ undone \in BOOLEAN /\ replaced \in BOOLEAN /\ behind \in BOOLEAN /\ strayed \in BOOLEAN
TypeOK ==
  /\ RestOK
  /\ calls \in [Call -> Handler] /\ \A c \in Call : Sound(calls[c])
  /\ queue \in [Service -> Seq(Call)]

(* Who waits in a queue waits for that service, and once.                   *)
Queued(q, h) ==
  \A s \in Service : \A i \in DOMAIN q[s] :
    /\ h[q[s][i]].at \in PlacesOf[s]
    /\ \A j \in DOMAIN q[s] : q[s][i] = q[s][j] => i = j

(* The document, and who creates it or waits for it.                        *)
Documents ==
  /\ doc = Loading => \E c \in Call : calls[c].at = "loading"
  /\ doc # None => \A c \in Call : calls[c].at # "lost"
  /\ \A c \in Call : calls[c].at \in {"opening", "reopening"} => Exists
  /\ \A c \in Call : calls[c].at = "create" =>
       doc = None /\ \A d \in Call : calls[d].at = "create" => d = c

Basic == TypeOK /\ Queued(queue, calls) /\ Documents

(* Who is to be heard of at the end.                                        *)
Shows ==
  popup # None /\ ~behind =>
    \/ popup.shown = store \/ popup.asked > 0
    \/ \E c \in Running : calls[c].action.kind \notin {"add", "stop"}

(* As long as no two handlers overlapped there is at most one.              *)
Lone ==
  \A u \in {"config", "self"} \ overlapped : \A c, d \in Call :
    u \in Uses(calls[c].action) /\ u \in Uses(calls[d].action) => c = d

(* What a handler of the configuration knows where it is.                   *)
Says(action) ==
  CASE action.kind = "mic" ->
         /\ store.config.micMuted = [doc.micMuted EXCEPT ![action.value] = action.muted]
         /\ store.config.monitorMuted = doc.monitorMuted
    [] action.kind = "monitor" ->
         /\ store.config.micMuted = doc.micMuted
         /\ store.config.monitorMuted = [doc.monitorMuted EXCEPT ![action.value] = action.muted]
    [] OTHER ->
         /\ store.config.micMuted = doc.micMuted
         /\ store.config.monitorMuted = All(action.muted)

ChannelStep(h) ==
  /\ h.at = "write" /\ h.action.kind \in Switch \cup {"select"} => h.was.config = store.config
  /\ h.at \in {"has", "ask"} /\ h.action.kind \in Switch /\ Exists => Says(h.action)
  /\ h.at \in {"lost", "undo"} /\ h.action.kind \in Switch => doc = None
  /\ h.at \in {"ensure", "create", "loading", "getSelf", "putSelf", "putMic", "putMonitor"} =>
       h.was.config = store.config
  /\ h.at = "putMonitor" /\ Exists => doc.micMuted = store.config.micMuted

ChannelsAgree ==
  /\ doc.micMuted = store.config.micMuted
  /\ doc.monitorMuted = store.config.monitorMuted
Telling(h) ==
  \/ h.at \in {"has", "ask"} /\ h.action.kind \in Switch
  \/ h.at \in {"getSelf", "putSelf", "putMic", "putMonitor"}

Channels ==
  "config" \notin overlapped /\ ~replaced =>
    /\ \A c \in Call : ChannelStep(calls[c])
    /\ Exists => ChannelsAgree \/ \E c \in Call : Telling(calls[c])

(* What a handler that is about the microphone knows.                       *)
Used(device) == Exists /\ doc.active # None => doc.active = device
MicrophoneStep(h) ==
  /\ h.action.kind = "device" =>
       /\ h.at = "write" => h.was.device = store.device
       /\ h.at \in {"has", "ask", "opening"} => h.action.value = store.device
       /\ h.at \in {"has", "ask", "opening", "undo", "lost"} => Used(h.was.device)
  /\ h.at \in {"ensureMic", "opening", "reopening"} => h.action.value = store.device
Choosing(h) == h.action.kind = "device" /\ h.at \in {"has", "ask", "opening", "undo", "lost"}

Microphone ==
  "config" \notin overlapped /\ ~replaced /\ ~strayed =>
    /\ \A c \in Call : MicrophoneStep(calls[c])
    /\ Used(store.device) \/ \E c \in Call : Choosing(calls[c])

(* The last of S in the queue q says v; none of S is in q.                  *)
LastSays(q, S, h, v) ==
  \A i \in DOMAIN q :
    q[i] \in S /\ (\A j \in DOMAIN q : i < j => q[j] \notin S) => h[q[i]].action.muted = v
NoneOf(q, S) == \A i \in DOMAIN q : q[i] \notin S

Asking(h) == {c \in Call : h[c].at = "has" /\ h[c].action.kind = "self"}
Saying(h) ==
  {c \in Call : h[c].at = "putSelf" \/ (h[c].at = "ask" /\ h[c].action.kind = "self")}
Undoing(h) == {c \in Call : h[c].at = "undo" /\ h[c].action.kind = "self"}

(* The changes of the operator's own switch that are on their way end in    *)
(* what is stored; or a new document will be given it.                      *)
OnTheWay ==
  /\ "self" \in overlapped \/ NoneOf(queue["storage"], Undoing(calls))
  /\ NoneOf(queue["browser"], Asking(calls)) =>
       /\ LastSays(queue["document"], Saying(calls), calls, store.selfMuted)
       /\ NoneOf(queue["document"], Saying(calls)) => doc.selfMuted = store.selfMuted

(* Who will give the document what is stored, after those that undo.        *)
Giver(q, h, noted) ==
  \E i \in DOMAIN q :
    /\ h[q[i]].at = "getSelf"
    /\ \A j \in DOMAIN q : q[j] \in Undoing(h) => "self" \in noted \/ j < i
WillBeGiven == Giver(queue["storage"], calls, overlapped)

Excepted == replaced \/ ("self" \in overlapped /\ undone)
SelfSwitch ==
  ~Excepted =>
    /\ LastSays(queue["browser"], Asking(calls), calls, store.selfMuted)
    /\ Exists => OnTheWay \/ WillBeGiven
-----------------------------------------------------------------------------
(* The queues.                                                             *)

Absent(q, c) == \A s \in Service : \A i \in DOMAIN q[s] : q[s][i] # c

LEMMA TailMembers ==
  ASSUME NEW q \in Seq(Call), q # <<>>
  PROVE  /\ Tail(q) \in Seq(Call) /\ Head(q) = q[1] /\ 1 \in DOMAIN q
         /\ \A i \in DOMAIN Tail(q) : i + 1 \in DOMAIN q /\ Tail(q)[i] = q[i + 1]
         /\ \A i \in DOMAIN q : i # 1 => i - 1 \in DOMAIN Tail(q) /\ Tail(q)[i - 1] = q[i]
         /\ DOMAIN q \in SUBSET Nat /\ DOMAIN Tail(q) \in SUBSET Nat
  OBVIOUS

LEMMA AppendMembers ==
  ASSUME NEW q \in Seq(Call), NEW c \in Call
  PROVE  /\ Append(q, c) \in Seq(Call)
         /\ \A i \in DOMAIN q : i \in DOMAIN Append(q, c) /\ Append(q, c)[i] = q[i]
         /\ Len(q) + 1 \in DOMAIN Append(q, c) /\ Append(q, c)[Len(q) + 1] = c
         /\ \A i \in DOMAIN Append(q, c) : i \in DOMAIN q \/ i = Len(q) + 1
         /\ \A i \in DOMAIN q : i < Len(q) + 1
         /\ DOMAIN q \in SUBSET Nat /\ Len(q) \in Nat
  OBVIOUS

(* PlacesOf, spelled out.                                                   *)
LEMMA Places ==
  /\ \A s, t \in Service : \A p \in PlacesOf[s] : p \in PlacesOf[t] => s = t
  /\ \A s \in Service : \A p \in PlacesOf[s] : p \in Place /\ p \notin Elsewhere
  BY DEF Service, PlacesOf, Place, Elsewhere

(* The one who was answered is in no queue any more.                        *)
LEMMA AnsweredQueue ==
  ASSUME queue \in [Service -> Seq(Call)], Queued(queue, calls),
         NEW s \in Service, NEW c \in Call, NEW at \in PlacesOf[s], Turn(s, c, at)
  PROVE  /\ Answered(s) \in [Service -> Seq(Call)]
         /\ Queued(Answered(s), calls)
         /\ Absent(Answered(s), c)
<1> DEFINE q == queue[s]
           r == Tail(queue[s])
<1>1. q \in Seq(Call) /\ q # <<>> /\ Head(q) = c /\ calls[c].at = at
  BY DEF Turn
<1>2. /\ r \in Seq(Call) /\ q[1] = c /\ 1 \in DOMAIN q
      /\ \A i \in DOMAIN r : i + 1 \in DOMAIN q /\ r[i] = q[i + 1]
      /\ DOMAIN r \in SUBSET Nat
  BY <1>1, TailMembers
<1>3. /\ Answered(s) \in [Service -> Seq(Call)]
      /\ Answered(s)[s] = r
      /\ \A t \in Service : t # s => Answered(s)[t] = queue[t]
  BY <1>2 DEF Answered
<1>4. \A t \in Service : \A i \in DOMAIN queue[t] :
        /\ calls[queue[t][i]].at \in PlacesOf[t]
        /\ \A j \in DOMAIN queue[t] : queue[t][i] = queue[t][j] => i = j
  BY DEF Queued
<1>5. \A i \in DOMAIN q : q[i] = c => i = 1
  BY <1>2, <1>4
<1> HIDE DEF r
<1>6. ASSUME NEW i \in DOMAIN r
      PROVE  /\ r[i] # c /\ calls[r[i]].at \in PlacesOf[s]
             /\ \A j \in DOMAIN r : r[i] = r[j] => i = j
  <2>1. i + 1 \in DOMAIN q /\ r[i] = q[i + 1] /\ i \in Nat
    BY <1>2
  <2>2. i + 1 # 1 \/ i = 0
    BY <2>1
  <2>3. i # 0
    <3>1. DOMAIN r = 1 .. Len(r)
      BY <1>2
    <3> QED
      BY <3>1
  <2>4. r[i] # c
    BY <1>5, <2>1, <2>2, <2>3
  <2>5. ASSUME NEW j \in DOMAIN r, r[i] = r[j] PROVE i = j
    <3>1. j + 1 \in DOMAIN q /\ r[j] = q[j + 1] /\ j \in Nat
      BY <1>2
    <3>2. i + 1 = j + 1
      BY <1>4, <2>1, <2>5, <3>1
    <3> QED
      BY <2>1, <3>1, <3>2
  <2> QED
    BY <1>4, <2>1, <2>4, <2>5
<1>7. Queued(Answered(s), calls)
  BY <1>3, <1>4, <1>6 DEF Queued
<1>8. ASSUME NEW t \in Service, t # s, NEW i \in DOMAIN queue[t] PROVE queue[t][i] # c
  BY <1>1, <1>4, <1>8, Places
<1>9. Absent(Answered(s), c)
  BY <1>3, <1>6, <1>8 DEF Absent
<1> QED
  BY <1>3, <1>7, <1>9

(* One who is in no queue joins one.                                        *)
LEMMA RequestedQueue ==
  ASSUME NEW q \in [Service -> Seq(Call)], NEW h, NEW g, Queued(q, h),
         NEW c \in Call, Absent(q, c), \A d \in Call \ {c} : g[d] = h[d],
         NEW s \in Service, g[c].at \in PlacesOf[s]
  PROVE  /\ Request(q, s, c) \in [Service -> Seq(Call)]
         /\ Queued(Request(q, s, c), g)
<1> DEFINE r == Append(q[s], c)
           n == Len(q[s]) + 1
<1>1. /\ r \in Seq(Call)
      /\ \A i \in DOMAIN q[s] : i \in DOMAIN r /\ r[i] = q[s][i]
      /\ r[n] = c
      /\ \A i \in DOMAIN r : i \in DOMAIN q[s] \/ i = n
  BY AppendMembers
<1>2. /\ Request(q, s, c) \in [Service -> Seq(Call)]
      /\ Request(q, s, c)[s] = r
      /\ \A t \in Service : t # s => Request(q, s, c)[t] = q[t]
  BY <1>1 DEF Request
<1> HIDE DEF r, n
<1>3. ASSUME NEW t \in Service, NEW i \in DOMAIN q[t]
      PROVE  /\ q[t][i] # c /\ g[q[t][i]].at \in PlacesOf[t]
             /\ \A j \in DOMAIN q[t] : q[t][i] = q[t][j] => i = j
  <2>1. q[t][i] # c
    BY DEF Absent
  <2>2. q[t][i] \in Call
    BY q[t] \in Seq(Call)
  <2> QED
    BY <2>1, <2>2 DEF Queued
<1>4. ASSUME NEW i \in DOMAIN r
      PROVE  /\ g[r[i]].at \in PlacesOf[s]
             /\ \A j \in DOMAIN r : r[i] = r[j] => i = j
  BY <1>1, <1>3
<1> QED
  BY <1>2, <1>3, <1>4 DEF Queued

(* One who is in no queue goes elsewhere.                                   *)
LEMMA LeftQueue ==
  ASSUME NEW q \in [Service -> Seq(Call)], NEW h, NEW g, Queued(q, h),
         NEW c \in Call, Absent(q, c), \A d \in Call \ {c} : g[d] = h[d]
  PROVE  Queued(q, g)
<1>1. ASSUME NEW t \in Service, NEW i \in DOMAIN q[t]
      PROVE  g[q[t][i]].at \in PlacesOf[t]
  <2>1. q[t][i] # c
    BY DEF Absent
  <2>2. q[t][i] \in Call
    BY q[t] \in Seq(Call)
  <2> QED
    BY <2>1, <2>2 DEF Queued
<1> QED
  BY <1>1 DEF Queued

LEMMA ElsewhereAbsent ==
  ASSUME Queued(queue, calls), NEW c \in Call, calls[c].at \in Elsewhere
  PROVE  Absent(queue, c)
  BY Places DEF Queued, Absent

(* A handler is answered and asks somebody, or nobody.                      *)
LEMMA TurnQueue ==
  ASSUME queue \in [Service -> Seq(Call)], Queued(queue, calls),
         NEW s \in Service, NEW c \in Call, NEW at \in PlacesOf[s], Turn(s, c, at),
         \A d \in Call \ {c} : calls'[d] = calls[d],
         \/ queue' = Answered(s)
         \/ \E t \in Service : calls'[c].at \in PlacesOf[t] /\ queue' = Request(Answered(s), t, c)
  PROVE  queue' \in [Service -> Seq(Call)] /\ Queued(queue', calls')
<1>1. /\ Answered(s) \in [Service -> Seq(Call)]
      /\ Queued(Answered(s), calls) /\ Absent(Answered(s), c)
  BY AnsweredQueue
<1>2. CASE queue' = Answered(s)
  BY <1>1, <1>2, LeftQueue, Zenon
<1>3. ASSUME NEW t \in Service, calls'[c].at \in PlacesOf[t], queue' = Request(Answered(s), t, c)
      PROVE  queue' \in [Service -> Seq(Call)] /\ Queued(queue', calls')
  BY <1>1, <1>3, RequestedQueue, Zenon
<1> QED
  BY <1>2, <1>3
-----------------------------------------------------------------------------
(* Types.                                                                  *)

ActionType == [kind: Kind, value: Channel \cup Device \cup {None}, muted: BOOLEAN]

(* c, and nobody else, is now there, with that.                             *)
Now(c, at, action, was) ==
  /\ calls' \in [Call -> Handler]
  /\ calls'[c].at = at /\ calls'[c].action = action /\ calls'[c].was = was
  /\ \A d \in Call \ {c} : calls'[d] = calls[d]

LEMMA HandlerFields ==
  ASSUME NEW h \in Handler
  PROVE  h.at \in Place /\ h.action \in ActionType /\ h.was \in Store
  BY DEF Handler, ActionType

LEMMA ActionFields ==
  ASSUME NEW a \in ActionType
  PROVE  a.kind \in Kind /\ a.value \in Channel \cup Device \cup {None} /\ a.muted \in BOOLEAN
  BY DEF ActionType

LEMMA NowAt ==
  ASSUME calls \in [Call -> Handler], NEW c \in Call, NEW p \in Place,
         calls' = [calls EXCEPT ![c].at = p]
  PROVE  Now(c, p, calls[c].action, calls[c].was)
<1> DEFINE h == [calls[c] EXCEPT !.at = p]
<1>1. calls[c] \in Handler
  OBVIOUS
<1>2. h \in Handler /\ h.at = p /\ h.action = calls[c].action /\ h.was = calls[c].was
  BY <1>1 DEF Handler
<1>3. calls' = [calls EXCEPT ![c] = h]
  OBVIOUS
<1> HIDE DEF h
<1> QED
  BY <1>2, <1>3 DEF Now

LEMMA NowAtWas ==
  ASSUME calls \in [Call -> Handler], NEW c \in Call, NEW p \in Place, NEW w \in Store,
         \/ calls' = [calls EXCEPT ![c].at = p, ![c].was = w]
         \/ calls' = [calls EXCEPT ![c] = [calls[c] EXCEPT !.at = p, !.was = w]]
  PROVE  Now(c, p, calls[c].action, w)
<1> DEFINE h == [calls[c] EXCEPT !.at = p, !.was = w]
<1>1. calls[c] \in Handler
  OBVIOUS
<1>2. h \in Handler /\ h.at = p /\ h.action = calls[c].action /\ h.was = w
  BY <1>1 DEF Handler
<1>3. calls' = [calls EXCEPT ![c] = h]
  OBVIOUS
<1> HIDE DEF h
<1> QED
  BY <1>2, <1>3 DEF Now

LEMMA NowAtAction ==
  ASSUME calls \in [Call -> Handler], NEW c \in Call, NEW p \in Place, NEW a \in ActionType,
         calls' = [calls EXCEPT ![c] = [calls[c] EXCEPT !.at = p, !.action = a]]
  PROVE  Now(c, p, a, calls[c].was)
<1> DEFINE h == [calls[c] EXCEPT !.at = p, !.action = a]
<1>1. calls[c] \in Handler
  OBVIOUS
<1>2. h \in Handler /\ h.at = p /\ h.action = a /\ h.was = calls[c].was
  BY <1>1 DEF Handler, ActionType
<1>3. calls' = [calls EXCEPT ![c] = h]
  OBVIOUS
<1> HIDE DEF h
<1> QED
  BY <1>2, <1>3 DEF Now

LEMMA NowAtMuted ==
  ASSUME calls \in [Call -> Handler], NEW c \in Call, NEW p \in Place, NEW m \in BOOLEAN,
         calls' = [calls EXCEPT ![c].at = p, ![c].action.muted = m]
  PROVE  /\ Now(c, p, [calls[c].action EXCEPT !.muted = m], calls[c].was)
         /\ [calls[c].action EXCEPT !.muted = m] \in ActionType
<1> DEFINE a == [calls[c].action EXCEPT !.muted = m]
           h == [calls[c] EXCEPT !.at = p, !.action = a]
<1>1. calls[c] \in Handler /\ calls[c].action \in ActionType
  BY HandlerFields
<1>2. a \in ActionType
  BY <1>1 DEF ActionType
<1>3. calls' = [calls EXCEPT ![c] = h]
  OBVIOUS
<1> HIDE DEF a
<1>4. h \in Handler /\ h.at = p /\ h.action = a /\ h.was = calls[c].was
  BY <1>1, <1>2 DEF Handler, ActionType
<1> HIDE DEF h
<1>5. Now(c, p, a, calls[c].was)
  BY <1>3, <1>4 DEF Now
<1> QED
  BY <1>2, <1>5 DEF a

LEMMA NowAtValue ==
  ASSUME calls \in [Call -> Handler], NEW c \in Call, NEW p \in Place, NEW d \in Device,
         calls' = [calls EXCEPT ![c].at = p, ![c].action.value = d]
  PROVE  /\ Now(c, p, [calls[c].action EXCEPT !.value = d], calls[c].was)
         /\ [calls[c].action EXCEPT !.value = d] \in ActionType
<1> DEFINE a == [calls[c].action EXCEPT !.value = d]
           h == [calls[c] EXCEPT !.at = p, !.action = a]
<1>1. calls[c] \in Handler /\ calls[c].action \in ActionType
  BY HandlerFields
<1>2. a \in ActionType
  BY <1>1 DEF ActionType
<1>3. calls' = [calls EXCEPT ![c] = h]
  OBVIOUS
<1> HIDE DEF a
<1>4. h \in Handler /\ h.at = p /\ h.action = a /\ h.was = calls[c].was
  BY <1>1, <1>2 DEF Handler, ActionType
<1> HIDE DEF h
<1>5. Now(c, p, a, calls[c].was)
  BY <1>3, <1>4 DEF Now
<1> QED
  BY <1>2, <1>5 DEF a

(* The settings there are: all are stores, and a new document is one.       *)
LEMMA StoreTypes ==
  /\ DefaultConfig \in Config /\ DefaultStore \in Store /\ NewDocument \in Document
  /\ File \in Store
  /\ Idle \in Handler /\ Sound(Idle) /\ Idle.at = "idle" /\ Idle.action.kind = "stop"
<1>1. \A m \in BOOLEAN : All(m) \in Switches
  BY DEF All, Switches
<1>2. DefaultConfig \in Config
  BY <1>1, SettingsAssumption DEF DefaultConfig, Config
<1>3. DefaultStore \in Store
  BY <1>2, SettingsAssumption DEF DefaultStore, Store
<1>4. NewDocument \in Document
  BY <1>1, SettingsAssumption DEF NewDocument, Document
<1>5. File \in Store
  <2> DEFINE monitor == [DefaultConfig.monitorMuted EXCEPT ![First] = TRUE]
             config == [DefaultConfig EXCEPT !.micMuted = All(FALSE), !.monitorMuted = monitor]
  <2>1. DefaultConfig.monitorMuted \in Switches
    BY <1>2 DEF Config
  <2>2. monitor \in Switches
    BY <2>1 DEF Switches
  <2>3. File.config = config
    BY DEF File
  <2> HIDE DEF monitor
  <2>4. config \in Config
    BY <1>1, <1>2, <2>2 DEF Config
  <2> HIDE DEF config
  <2>5. File = [config |-> config, selfMuted |-> TRUE, device |-> Other]
    BY <2>3 DEF File
  <2> QED
    BY <2>4, <2>5, SettingsAssumption DEF Store
<1>6. Idle \in Handler /\ Sound(Idle) /\ Idle.at = "idle" /\ Idle.action.kind = "stop"
  BY <1>3 DEF Idle, Handler, Sound, Action, Kind, Place, Elsewhere, KindsAt
<1> QED
  BY <1>2, <1>3, <1>4, <1>5, <1>6

LEMMA NowIdle ==
  ASSUME NEW h \in [Call -> Handler], NEW c \in Call, calls' = [h EXCEPT ![c] = Idle]
  PROVE  /\ calls' \in [Call -> Handler] /\ calls'[c] = Idle
         /\ \A d \in Call \ {c} : calls'[d] = h[d]
  BY StoreTypes

LEMMA RefreshedType ==
  ASSUME NEW p \in Popup \cup {None}
  PROVE  Refreshed(p) \in Popup \cup {None}
<1>1. CASE p = None
  BY <1>1 DEF Refreshed
<1>2. CASE p # None
  <2> DEFINE n == IF p.asked = 2 THEN 2 ELSE p.asked + 1
  <2>1. p \in Popup /\ p.asked \in 0 .. 2
    BY <1>2 DEF Popup
  <2>2. n \in 0 .. 2
    BY <2>1
  <2>3. Refreshed(p) = [p EXCEPT !.asked = n]
    BY <1>2 DEF Refreshed
  <2> HIDE DEF n
  <2> QED
    BY <2>1, <2>2, <2>3 DEF Popup
<1> QED
  BY <1>1, <1>2

LEMMA GivenBackType ==
  ASSUME NEW p \in Popup, NEW c
  PROVE  GivenBack(p, c) \in Popup
  BY DEF GivenBack, Popup

LEMMA EndType ==
  ASSUME TypeOK, NEW c \in Call, NEW h \in [Call -> Handler], NEW q, NEW how, End(c, h, q, how)
  PROVE  /\ calls' \in [Call -> Handler] /\ calls'[c] = Idle
         /\ \A d \in Call \ {c} : calls'[d] = h[d]
         /\ queue' = q /\ left' = left /\ overlapped' = overlapped
         /\ popup' \in Popup \cup {None} /\ behind' \in BOOLEAN
<1>1. calls' = [h EXCEPT ![c] = Idle] /\ queue' = q /\ left' = left /\ overlapped' = overlapped
  BY DEF End
<1>2. popup' \in Popup \cup {None}
  <2>1. CASE Own(c)
    <3>1. popup \in Popup
      BY <2>1 DEF Own, TypeOK, RestOK
    <3> QED
      BY <2>1, <3>1, GivenBackType, RefreshedType, Zenon DEF End
  <2>2. CASE ~Own(c)
    BY <2>2, RefreshedType, Zenon DEF End, TypeOK, RestOK
  <2> QED
    BY <2>1, <2>2
<1>3. behind' \in BOOLEAN
  BY DEF End, TypeOK, RestOK
<1> QED
  BY <1>1, <1>2, <1>3, NowIdle
-----------------------------------------------------------------------------
(* The first invariant: types, queues and documents.                       *)

LEMMA DocumentIs ==
  ASSUME RestOK
  PROVE  /\ Exists <=> doc \in Document
         /\ doc = None => ~Exists
         /\ doc = Loading => ~Exists /\ doc # None
  BY DocumentAssumption DEF Exists, RestOK

(* A handler whose turn it was moves on; the document may be told something.*)
LEMMA BasicTurn ==
  ASSUME Basic, NEW c \in Call, NEW s \in Service, NEW at \in PlacesOf[s], Turn(s, c, at),
         calls' \in [Call -> Handler], Sound(calls'[c]), \A d \in Call \ {c} : calls'[d] = calls[d],
         \/ queue' = Answered(s)
         \/ \E t \in Service : calls'[c].at \in PlacesOf[t] /\ queue' = Request(Answered(s), t, c),
         RestOK',
         doc' = doc \/ (Exists /\ doc' \in Document),
         calls'[c].at # "lost",
         calls'[c].at \in {"opening", "reopening"} => Exists,
         calls'[c].at = "create" => doc = None /\ \A d \in Call : calls[d].at # "create"
  PROVE  Basic'
<1>1. TypeOK /\ RestOK /\ Queued(queue, calls) /\ Documents
  BY DEF Basic, TypeOK
<1>2. queue' \in [Service -> Seq(Call)] /\ Queued(queue', calls')
  BY <1>1, TurnQueue DEF TypeOK
<1>3. \A d \in Call : Sound(calls'[d])
  BY <1>1 DEF TypeOK
<1>4. TypeOK'
  BY <1>2, <1>3 DEF TypeOK
<1>5. calls[c].at = at /\ at \notin Elsewhere
  BY Places DEF Turn
<1>6. Documents'
  <2>1. /\ Exists <=> doc \in Document
        /\ Exists' <=> doc' \in Document
        /\ doc = None => ~Exists
    BY <1>1, DocumentIs, DocumentAssumption DEF Exists, RestOK
  <2>2. Exists => Exists'
    BY <2>1
  <2>3. doc' = Loading => \E d \in Call : calls'[d].at = "loading"
    <3>1. doc' = Loading => doc = Loading
      BY DocumentAssumption
    <3>2. \A d \in Call : calls[d].at = "loading" => calls'[d].at = "loading"
      BY <1>5 DEF Elsewhere
    <3> QED
      BY <1>1, <3>1, <3>2 DEF Documents
  <2>4. doc' # None => \A d \in Call : calls'[d].at # "lost"
    <3>1. doc' # None => doc # None
      BY <2>1
    <3> QED
      BY <1>1, <3>1 DEF Documents
  <2>5. \A d \in Call : calls'[d].at \in {"opening", "reopening"} => Exists'
    BY <1>1, <2>2 DEF Documents
  <2>6. \A d \in Call : calls'[d].at = "create" =>
          doc' = None /\ \A e \in Call : calls'[e].at = "create" => e = d
    BY <1>1, <2>1 DEF Documents
  <2> QED
    BY <2>3, <2>4, <2>5, <2>6 DEF Documents
<1> QED
  BY <1>2, <1>4, <1>6 DEF Basic

(* It ends.                                                                 *)
LEMMA BasicEnd ==
  ASSUME Basic, NEW c \in Call, NEW s \in Service, NEW at \in PlacesOf[s], Turn(s, c, at),
         NEW how, End(c, calls, Answered(s), how),
         store' \in Store, doc' = doc \/ (Exists /\ doc' \in Document),
         undone' \in BOOLEAN, replaced' \in BOOLEAN, strayed' \in BOOLEAN
  PROVE  Basic'
<1>1. TypeOK /\ RestOK /\ calls \in [Call -> Handler]
  BY DEF Basic, TypeOK
<1>2. /\ calls' \in [Call -> Handler] /\ calls'[c] = Idle
      /\ \A d \in Call \ {c} : calls'[d] = calls[d]
      /\ queue' = Answered(s) /\ left' = left /\ overlapped' = overlapped
      /\ popup' \in Popup \cup {None} /\ behind' \in BOOLEAN
  BY <1>1, EndType
<1>3. RestOK'
  BY <1>1, <1>2 DEF RestOK
<1>4. Sound(calls'[c]) /\ calls'[c].at = "idle"
  BY <1>2, StoreTypes
<1> QED
  BY <1>2, <1>3, <1>4, BasicTurn

(* It asks the next service.                                                *)
LEMMA BasicGoto ==
  ASSUME Basic, NEW c \in Call, NEW s \in Service, NEW t \in Service, NEW at \in PlacesOf[s],
         Turn(s, c, at), NEW to \in PlacesOf[t], NEW action \in ActionType, NEW was \in Store,
         Now(c, to, action, was), Sound([at |-> to, action |-> action, was |-> was]),
         queue' = Request(Answered(s), t, c),
         RestOK', doc' = doc \/ (Exists /\ doc' \in Document),
         to = "create" => doc = None /\ \A d \in Call : calls[d].at # "create"
  PROVE  Basic'
<1>1. /\ calls' \in [Call -> Handler] /\ \A d \in Call \ {c} : calls'[d] = calls[d]
      /\ calls'[c].at = to /\ calls'[c].action = action /\ calls'[c].was = was
  BY DEF Now
<1>2. Sound(calls'[c])
  BY <1>1 DEF Sound
<1>3. to \notin {"lost", "opening", "reopening"}
  BY Places DEF Elsewhere
<1> QED
  BY <1>1, <1>2, <1>3, BasicTurn
-----------------------------------------------------------------------------
(* One lemma for each handler's step: what it does, and that it keeps Basic.*)

LEMMA SoundMove ==
  ASSUME NEW h, Sound(h), NEW to, NEW w, h.action.kind \in KindsAt(to),
         to \in {"ensureMic", "opening", "reopening"} => h.action.value \in Device
  PROVE  Sound([at |-> to, action |-> h.action, was |-> w])
  BY DEF Sound

LEMMA BasicFacts ==
  ASSUME Basic, NEW c \in Call
  PROVE  /\ TypeOK /\ RestOK /\ calls \in [Call -> Handler] /\ Sound(calls[c])
         /\ calls[c].action \in ActionType /\ calls[c].was \in Store /\ calls[c].at \in Place
         /\ calls[c].action.kind \in KindsAt(calls[c].at)
         /\ store \in Store
  BY HandlerFields DEF Basic, TypeOK, RestOK, Sound

LEMMA ReadBasic ==
  ASSUME Basic, NEW c \in Call, Read(c)
  PROVE  /\ Basic' /\ Now(c, "write", calls[c].action, store)
         /\ UNCHANGED <<store, doc, popup, left, overlapped, undone, replaced, strayed, behind>>
<1>1. /\ Turn("storage", c, "read") /\ calls[c].at = "read"
      /\ queue' = Request(Answered("storage"), "storage", c)
      /\ UNCHANGED <<store, doc, popup, left, overlapped, undone, replaced, strayed, behind>>
      /\ calls' = [calls EXCEPT ![c] = [calls[c] EXCEPT !.at = "write", !.was = store]]
  BY DEF Read, Reread, Turn
<1>2. "write" \in PlacesOf["storage"] /\ "read" \in PlacesOf["storage"] /\ "storage" \in Service
      /\ "write" \in Place
  BY DEF PlacesOf, Service, Place
<1>3. Now(c, "write", calls[c].action, store)
  BY <1>1, <1>2, BasicFacts, NowAtWas
<1>4. Sound([at |-> "write", action |-> calls[c].action, was |-> store])
  <2>1. calls[c].action.kind \in KindsAt("write")
    BY <1>1, BasicFacts DEF KindsAt
  <2> QED
    BY <2>1, BasicFacts, SoundMove
<1>5. RestOK'
  BY <1>1, BasicFacts DEF RestOK
<1>6. Basic'
  BY <1>1, <1>2, <1>3, <1>4, <1>5, BasicFacts, BasicGoto
<1> QED
  BY <1>1, <1>3, <1>6

LEMMA ReadToggleBasic ==
  ASSUME Basic, NEW c \in Call, ReadToggle(c)
  PROVE  /\ Basic' /\ Now(c, "read", Action("self", None, ~store.selfMuted), calls[c].was)
         /\ UNCHANGED <<store, doc, popup, left, overlapped, undone, replaced, strayed, behind>>
<1> DEFINE a == Action("self", None, ~store.selfMuted)
<1>1. /\ Turn("storage", c, "toggle") /\ calls[c].at = "toggle"
      /\ queue' = Request(Answered("storage"), "storage", c)
      /\ UNCHANGED <<store, doc, popup, left, overlapped, undone, replaced, strayed, behind>>
      /\ calls' = [calls EXCEPT ![c] = [calls[c] EXCEPT !.at = "read", !.action = a]]
  BY DEF ReadToggle, Reread, Turn
<1>2. "toggle" \in PlacesOf["storage"] /\ "read" \in PlacesOf["storage"] /\ "storage" \in Service
      /\ "read" \in Place
  BY DEF PlacesOf, Service, Place
<1>3. a \in ActionType /\ a.kind = "self"
  BY DEF Action, ActionType, Kind
<1> HIDE DEF a
<1>4. Now(c, "read", a, calls[c].was)
  BY <1>1, <1>2, <1>3, BasicFacts, NowAtAction
<1>5. Sound([at |-> "read", action |-> a, was |-> calls[c].was])
  BY <1>3 DEF Sound, KindsAt, Told
<1>6. RestOK'
  BY <1>1, BasicFacts DEF RestOK
<1>7. Basic'
  BY <1>1, <1>2, <1>3, <1>4, <1>5, <1>6, BasicFacts, BasicGoto
<1> QED
  BY <1>1, <1>4, <1>7 DEF a

(* What Changed and Restored make is a configuration.                       *)
LEMMA ChangedType ==
  ASSUME NEW action \in ActionType, NEW config \in Config,
         action.kind \in Switch \cup {"select"},
         action.kind \in {"select", "mic", "monitor"} => action.value \in Channel
  PROVE  Changed(action, config) \in Config
<1>1. /\ action.muted \in BOOLEAN /\ config.monitorMuted \in Switches /\ config.micMuted \in Switches
      /\ config.monitorAllMuted \in BOOLEAN /\ config.selected \in Channel
  BY DEF ActionType, Config
<1>2. CASE action.kind = "select"
  BY <1>1, <1>2 DEF Changed, Config
<1>3. CASE action.kind = "mic"
  <2> DEFINE mic == [config.micMuted EXCEPT ![action.value] = action.muted]
  <2>1. mic \in Switches
    BY <1>1 DEF Switches
  <2>2. Changed(action, config) = [config EXCEPT !.micMuted = mic]
    BY <1>3 DEF Changed
  <2> HIDE DEF mic
  <2> QED
    BY <2>1, <2>2 DEF Config
<1>4. CASE action.kind = "monitor"
  <2> DEFINE monitor == [config.monitorMuted EXCEPT ![action.value] = action.muted]
             all == AllMuted(monitor)
  <2>1. monitor \in Switches
    BY <1>1 DEF Switches
  <2>2. all \in BOOLEAN
    BY DEF AllMuted
  <2>3. Changed(action, config) = [config EXCEPT !.monitorMuted = monitor, !.monitorAllMuted = all]
    BY <1>4 DEF Changed
  <2> HIDE DEF monitor, all
  <2> QED
    BY <2>1, <2>2, <2>3 DEF Config
<1>5. CASE action.kind = "allMonitor"
  <2>1. All(action.muted) \in Switches
    BY <1>1 DEF All, Switches
  <2>2. Changed(action, config) =
          [config EXCEPT !.monitorMuted = All(action.muted), !.monitorAllMuted = action.muted]
    BY <1>5 DEF Changed
  <2> QED
    BY <1>1, <2>1, <2>2 DEF Config
<1> QED
  BY <1>2, <1>3, <1>4, <1>5 DEF Switch

LEMMA StoreFields ==
  ASSUME NEW s \in Store
  PROVE  s.config \in Config /\ s.selfMuted \in BOOLEAN /\ s.device \in Device
  BY DEF Store

LEMMA StoreExcept ==
  ASSUME NEW s \in Store
  PROVE  /\ \A m \in BOOLEAN : LET t == [s EXCEPT !.selfMuted = m] IN
              t \in Store /\ t.selfMuted = m /\ t.config = s.config /\ t.device = s.device
         /\ \A d \in Device : LET t == [s EXCEPT !.device = d] IN
              t \in Store /\ t.selfMuted = s.selfMuted /\ t.config = s.config /\ t.device = d
         /\ \A k \in Config : LET t == [s EXCEPT !.config = k] IN
              t \in Store /\ t.selfMuted = s.selfMuted /\ t.config = k /\ t.device = s.device
  BY DEF Store

(* What the store becomes when a change is written, by kind.                *)
Written(action, was) ==
  /\ action.kind = "self" =>
       store'.selfMuted = action.muted /\ store'.config = store.config /\ store'.device = store.device
  /\ action.kind = "device" =>
       store'.selfMuted = store.selfMuted /\ store'.config = store.config /\ store'.device = action.value
  /\ action.kind \in Switch \cup {"select"} =>
       /\ store'.selfMuted = store.selfMuted /\ store'.device = store.device
       /\ store'.config = Changed(action, was.config)

LEMMA WriteStore ==
  ASSUME Basic, NEW c \in Call, Write(c)
  PROVE  store' \in Store /\ Written(calls[c].action, calls[c].was)
<1> DEFINE a == calls[c].action
           w == calls[c].was
<1>1. store' = CASE a.kind = "self" -> [store EXCEPT !.selfMuted = a.muted]
                 [] a.kind = "device" -> [store EXCEPT !.device = a.value]
                 [] a.kind = "import" -> File
                 [] OTHER -> [store EXCEPT !.config = Changed(a, w.config)]
  BY DEF Write
<1>2. /\ a \in ActionType /\ w.config \in Config /\ store \in Store /\ a.muted \in BOOLEAN
      /\ a.kind \in Told \cup {"select", "import"}
      /\ a.kind \in {"select", "mic", "monitor"} => a.value \in Channel
      /\ a.kind = "device" => a.value \in Device
  BY BasicFacts, StoreFields, ActionFields DEF Sound, KindsAt, Write, Turn
<1> SUFFICES store' \in Store /\ Written(a, w)
  OBVIOUS
<1> HIDE DEF a, w
<1>3. CASE a.kind = "self"
  <2>1. store' = [store EXCEPT !.selfMuted = a.muted]
    BY <1>1, <1>3
  <2> QED
    BY <1>2, <1>3, <2>1, StoreExcept DEF Written, Switch
<1>4. CASE a.kind = "device"
  <2>1. store' = [store EXCEPT !.device = a.value]
    BY <1>1, <1>4
  <2> QED
    BY <1>2, <1>4, <2>1, StoreExcept DEF Written, Switch
<1>5. CASE a.kind = "import"
  BY <1>1, <1>5, StoreTypes DEF Written, Switch
<1>6. CASE a.kind \in Switch \cup {"select"}
  <2>1. store' = [store EXCEPT !.config = Changed(a, w.config)]
    BY <1>1, <1>6 DEF Switch
  <2>2. Changed(a, w.config) \in Config
    BY <1>2, <1>6, ChangedType
  <2> QED
    BY <1>2, <1>6, <2>1, <2>2, StoreExcept DEF Written, Switch
<1> QED
  BY <1>2, <1>3, <1>4, <1>5, <1>6 DEF Told

LEMMA WriteBasic ==
  ASSUME Basic, NEW c \in Call, Write(c)
  PROVE  /\ Basic' /\ Turn("storage", c, "write")
         /\ \/ /\ calls[c].action.kind \in {"select", "import"}
               /\ End(c, calls, Answered("storage"), "silent")
            \/ /\ calls[c].action.kind \in Told
               /\ Now(c, "has", calls[c].action, calls[c].was)
               /\ queue' = Request(Answered("storage"), "browser", c)
               /\ UNCHANGED <<popup, left, overlapped, behind>>
         /\ UNCHANGED <<doc, undone, strayed>>
         /\ replaced' = (replaced \/ (calls[c].action.kind = "import" /\ InUse))
<1>1. /\ Turn("storage", c, "write") /\ calls[c].at = "write"
      /\ UNCHANGED <<doc, undone, strayed>>
      /\ replaced' = (replaced \/ (calls[c].action.kind = "import" /\ InUse))
  BY DEF Write, Turn
<1>2. "write" \in PlacesOf["storage"] /\ "has" \in PlacesOf["browser"] /\ "storage" \in Service
      /\ "browser" \in Service /\ "has" \in Place
  BY DEF PlacesOf, Service, Place
<1>3. store' \in Store /\ replaced' \in BOOLEAN /\ undone' \in BOOLEAN /\ strayed' \in BOOLEAN
  BY <1>1, WriteStore, BasicFacts DEF RestOK
<1>4. CASE calls[c].action.kind \in {"select", "import"}
  <2>1. End(c, calls, Answered("storage"), "silent")
    BY <1>4 DEF Write
  <2>2. Basic'
    BY <1>1, <1>2, <1>3, <2>1, BasicEnd
  <2> QED
    BY <1>1, <1>4, <2>1, <2>2
<1>5. CASE calls[c].action.kind \notin {"select", "import"}
  <2>1. Goto(c, "storage", "browser", "has")
    BY <1>5 DEF Write
  <2>2. calls[c].action.kind \in KindsAt("has")
    BY <1>1, <1>5, BasicFacts DEF KindsAt
  <2>3. Now(c, "has", calls[c].action, calls[c].was)
    BY <1>2, <2>1, BasicFacts, NowAt DEF Goto
  <2>4. Sound([at |-> "has", action |-> calls[c].action, was |-> calls[c].was])
    BY <2>2, BasicFacts, SoundMove
  <2>5. RestOK'
    BY <1>1, <1>3, <2>1, BasicFacts DEF RestOK, Goto
  <2>6. queue' = Request(Answered("storage"), "browser", c)
    BY <2>1 DEF Goto
  <2>7. Basic'
    BY <1>1, <1>2, <2>3, <2>4, <2>5, <2>6, BasicFacts, BasicGoto
  <2>8. calls[c].action.kind \in Told /\ UNCHANGED <<popup, left, overlapped, behind>>
    BY <2>1, <2>2 DEF Goto, KindsAt
  <2> QED
    BY <1>1, <2>3, <2>6, <2>7, <2>8
<1> QED
  BY <1>4, <1>5

LEMMA RestoredType ==
  ASSUME NEW action \in ActionType, NEW config \in Config, action.kind \in Switch,
         action.kind \in {"mic", "monitor"} => action.value \in Channel
  PROVE  Restored(action, config) \in Config
<1>1. CASE action.kind = "monitor"
  <2>1. Changed(action, config) \in Config
    BY <1>1, ChangedType DEF Switch
  <2> DEFINE all == Changed(action, config).monitorAllMuted
  <2>2. all \in BOOLEAN
    BY <2>1 DEF Config
  <2>3. Restored(action, config) = [config EXCEPT !.monitorAllMuted = all]
    BY <1>1 DEF Restored
  <2> HIDE DEF all
  <2> QED
    BY <2>2, <2>3 DEF Config
<1>2. CASE action.kind # "monitor"
  BY <1>2 DEF Restored
<1> QED
  BY <1>1, <1>2

(* What the store becomes when a change is undone.                          *)
Undone(action, was) ==
  /\ action.kind = "self" =>
       store'.selfMuted = was.selfMuted /\ store'.config = store.config /\ store'.device = store.device
  /\ action.kind = "device" =>
       store'.selfMuted = store.selfMuted /\ store'.config = store.config /\ store'.device = was.device
  /\ action.kind \in Switch => store'.selfMuted = store.selfMuted /\ store'.device = store.device

LEMMA UndoStore ==
  ASSUME Basic, NEW c \in Call, Undo(c)
  PROVE  store' \in Store /\ Undone(calls[c].action, calls[c].was)
<1> DEFINE a == calls[c].action
           w == calls[c].was
<1>1. store' = CASE a.kind = "self" -> [store EXCEPT !.selfMuted = w.selfMuted]
                 [] a.kind = "device" -> [store EXCEPT !.device = w.device]
                 [] OTHER -> [store EXCEPT !.config = Restored(a, w.config)]
  BY DEF Undo
<1>2. /\ a \in ActionType /\ w \in Store /\ store \in Store
      /\ w.config \in Config /\ w.selfMuted \in BOOLEAN /\ w.device \in Device
      /\ a.kind \in Told
      /\ a.kind \in {"mic", "monitor"} => a.value \in Channel
  BY BasicFacts, StoreFields, ActionFields DEF Sound, KindsAt, Undo, Turn
<1> SUFFICES store' \in Store /\ Undone(a, w)
  OBVIOUS
<1> HIDE DEF a, w
<1>3. CASE a.kind = "self"
  <2>1. store' = [store EXCEPT !.selfMuted = w.selfMuted]
    BY <1>1, <1>3
  <2> QED
    BY <1>2, <1>3, <2>1, StoreExcept DEF Undone, Switch
<1>4. CASE a.kind = "device"
  <2>1. store' = [store EXCEPT !.device = w.device]
    BY <1>1, <1>4
  <2> QED
    BY <1>2, <1>4, <2>1, StoreExcept DEF Undone, Switch
<1>5. CASE a.kind \in Switch
  <2>1. store' = [store EXCEPT !.config = Restored(a, w.config)]
    BY <1>1, <1>5 DEF Switch
  <2>2. Restored(a, w.config) \in Config
    BY <1>2, <1>5, RestoredType
  <2> QED
    BY <1>2, <1>5, <2>1, <2>2, StoreExcept DEF Undone, Switch
<1> QED
  BY <1>2, <1>3, <1>4, <1>5 DEF Told

LEMMA UndoBasic ==
  ASSUME Basic, NEW c \in Call, Undo(c)
  PROVE  Basic'
<1>1. /\ Turn("storage", c, "undo") /\ End(c, calls, Answered("storage"), "silent")
      /\ UNCHANGED <<doc, replaced, strayed>>
      /\ undone' = (undone \/ calls[c].action.kind = "self")
  BY DEF Undo
<1>2. "undo" \in PlacesOf["storage"] /\ "storage" \in Service
  BY DEF PlacesOf, Service
<1>3. store' \in Store /\ undone' \in BOOLEAN /\ replaced' \in BOOLEAN /\ strayed' \in BOOLEAN
  BY <1>1, UndoStore, BasicFacts DEF RestOK
<1> QED
  BY <1>1, <1>2, <1>3, BasicEnd

LEMMA ClearStorageBasic ==
  ASSUME Basic, NEW c \in Call, ClearStorage(c)
  PROVE  Basic'
<1>1. /\ Turn("storage", c, "wipe") /\ End(c, calls, Answered("storage"), "silent")
      /\ UNCHANGED <<doc, undone, strayed>> /\ store' = DefaultStore
      /\ replaced' = (replaced \/ InUse)
  BY DEF ClearStorage
<1>2. "wipe" \in PlacesOf["storage"] /\ "storage" \in Service
  BY DEF PlacesOf, Service
<1>3. store' \in Store /\ undone' \in BOOLEAN /\ replaced' \in BOOLEAN /\ strayed' \in BOOLEAN
  BY <1>1, StoreTypes, BasicFacts DEF RestOK
<1> QED
  BY <1>1, <1>2, <1>3, BasicEnd

LEMMA AddTabBasic ==
  ASSUME Basic, NEW c \in Call, AddTab(c)
  PROVE  /\ Basic' /\ Now(c, "ensure", calls[c].action, store)
         /\ UNCHANGED <<store, doc, popup, left, overlapped, undone, replaced, strayed, behind>>
<1>1. /\ Turn("storage", c, "add") /\ calls[c].at = "add"
      /\ queue' = Request(Answered("storage"), "browser", c)
      /\ UNCHANGED <<store, doc, popup, left, overlapped, undone, replaced, strayed, behind>>
      /\ calls' = [calls EXCEPT ![c].at = "ensure", ![c].was = store]
  BY DEF AddTab, Turn
<1>2. "add" \in PlacesOf["storage"] /\ "ensure" \in PlacesOf["browser"] /\ "storage" \in Service
      /\ "browser" \in Service /\ "ensure" \in Place
  BY DEF PlacesOf, Service, Place
<1>3. Now(c, "ensure", calls[c].action, store)
  BY <1>1, <1>2, BasicFacts, NowAtWas
<1>4. Sound([at |-> "ensure", action |-> calls[c].action, was |-> store])
  <2>1. calls[c].action.kind \in KindsAt("ensure")
    BY <1>1, BasicFacts DEF KindsAt
  <2> QED
    BY <2>1, BasicFacts, SoundMove
<1>5. RestOK'
  BY <1>1, BasicFacts DEF RestOK
<1>6. Basic'
  BY <1>1, <1>2, <1>3, <1>4, <1>5, BasicFacts, BasicGoto
<1> QED
  BY <1>1, <1>3, <1>6

LEMMA ReadRulesBasic ==
  ASSUME Basic, NEW c \in Call, ReadRules(c)
  PROVE  /\ Basic' /\ Now(c, "close", calls[c].action, calls[c].was)
         /\ UNCHANGED <<store, doc, popup, left, overlapped, undone, replaced, strayed, behind>>
<1>1. /\ Turn("storage", c, "clear") /\ calls[c].at = "clear"
      /\ queue' = Request(Answered("storage"), "browser", c)
      /\ UNCHANGED <<store, doc, popup, left, overlapped, undone, replaced, strayed, behind>>
      /\ calls' = [calls EXCEPT ![c].at = "close"]
  BY DEF ReadRules, Turn
<1>2. "clear" \in PlacesOf["storage"] /\ "close" \in PlacesOf["browser"] /\ "storage" \in Service
      /\ "browser" \in Service /\ "close" \in Place
  BY DEF PlacesOf, Service, Place
<1>3. Now(c, "close", calls[c].action, calls[c].was)
  BY <1>1, <1>2, BasicFacts, NowAt
<1>4. Sound([at |-> "close", action |-> calls[c].action, was |-> calls[c].was])
  <2>1. calls[c].action.kind \in KindsAt("close")
    BY <1>1, BasicFacts DEF KindsAt
  <2> QED
    BY <2>1, BasicFacts, SoundMove
<1>5. RestOK'
  BY <1>1, BasicFacts DEF RestOK
<1>6. Basic'
  BY <1>1, <1>2, <1>3, <1>4, <1>5, BasicFacts, BasicGoto
<1> QED
  BY <1>1, <1>3, <1>6

LEMMA GetSelfMutedBasic ==
  ASSUME Basic, NEW c \in Call, GetSelfMuted(c)
  PROVE  /\ Basic'
         /\ Now(c, "putSelf", [calls[c].action EXCEPT !.muted = store.selfMuted], calls[c].was)
         /\ calls[c].action.kind = "add" /\ calls'[c].action.kind = "add"
         /\ calls'[c].action.muted = store.selfMuted
         /\ UNCHANGED <<store, doc, popup, left, overlapped, undone, replaced, strayed, behind>>
<1> DEFINE a == [calls[c].action EXCEPT !.muted = store.selfMuted]
<1>1. /\ Turn("storage", c, "getSelf") /\ calls[c].at = "getSelf"
      /\ queue' = Request(Answered("storage"), "document", c)
      /\ UNCHANGED <<store, doc, popup, left, overlapped, undone, replaced, strayed, behind>>
      /\ calls' = [calls EXCEPT ![c].at = "putSelf", ![c].action.muted = store.selfMuted]
  BY DEF GetSelfMuted, Turn
<1>2. "getSelf" \in PlacesOf["storage"] /\ "putSelf" \in PlacesOf["document"] /\ "storage" \in Service
      /\ "document" \in Service /\ "putSelf" \in Place
  BY DEF PlacesOf, Service, Place
<1>3. store.selfMuted \in BOOLEAN /\ calls[c].action \in ActionType /\ calls[c].action.kind = "add"
  BY <1>1, BasicFacts, StoreFields DEF KindsAt
<1>4. Now(c, "putSelf", a, calls[c].was) /\ a \in ActionType
  BY <1>1, <1>2, <1>3, BasicFacts, NowAtMuted
<1>5. a.kind = "add" /\ a.muted = store.selfMuted
  BY <1>3 DEF ActionType
<1> HIDE DEF a
<1>6. Sound([at |-> "putSelf", action |-> a, was |-> calls[c].was])
  BY <1>5 DEF Sound, KindsAt
<1>7. RestOK'
  BY <1>1, BasicFacts DEF RestOK
<1>8. Basic'
  BY <1>1, <1>2, <1>4, <1>6, <1>7, BasicFacts, BasicGoto
<1>9. calls'[c].action = a
  BY <1>4 DEF Now
<1> QED
  BY <1>1, <1>3, <1>4, <1>5, <1>8, <1>9 DEF a

LEMMA GetDeviceBasic ==
  ASSUME Basic, NEW c \in Call, GetDevice(c)
  PROVE  /\ Basic'
         /\ Now(c, "ensureMic", [calls[c].action EXCEPT !.value = store.device], calls[c].was)
         /\ calls[c].action.kind = "add" /\ calls'[c].action.kind = "add"
         /\ calls'[c].action.value = store.device
         /\ UNCHANGED <<store, doc, popup, left, overlapped, undone, replaced, strayed, behind>>
<1> DEFINE a == [calls[c].action EXCEPT !.value = store.device]
<1>1. /\ Turn("storage", c, "getDevice") /\ calls[c].at = "getDevice"
      /\ queue' = Request(Answered("storage"), "document", c)
      /\ UNCHANGED <<store, doc, popup, left, overlapped, undone, replaced, strayed, behind>>
      /\ calls' = [calls EXCEPT ![c].at = "ensureMic", ![c].action.value = store.device]
  BY DEF GetDevice, Turn
<1>2. "getDevice" \in PlacesOf["storage"] /\ "ensureMic" \in PlacesOf["document"] /\ "storage" \in Service
      /\ "document" \in Service /\ "ensureMic" \in Place
  BY DEF PlacesOf, Service, Place
<1>3. store.device \in Device /\ calls[c].action \in ActionType /\ calls[c].action.kind = "add"
  BY <1>1, BasicFacts, StoreFields DEF KindsAt
<1>4. Now(c, "ensureMic", a, calls[c].was) /\ a \in ActionType
  BY <1>1, <1>2, <1>3, BasicFacts, NowAtValue
<1>5. a.kind = "add" /\ a.value = store.device
  BY <1>3 DEF ActionType
<1> HIDE DEF a
<1>6. Sound([at |-> "ensureMic", action |-> a, was |-> calls[c].was])
  BY <1>3, <1>5 DEF Sound, KindsAt
<1>7. RestOK'
  BY <1>1, BasicFacts DEF RestOK
<1>8. Basic'
  BY <1>1, <1>2, <1>4, <1>6, <1>7, BasicFacts, BasicGoto
<1>9. calls'[c].action = a
  BY <1>4 DEF Now
<1> QED
  BY <1>1, <1>3, <1>4, <1>5, <1>8, <1>9 DEF a

LEMMA HasDocumentBasic ==
  ASSUME Basic, NEW c \in Call, HasDocument(c)
  PROVE  /\ Basic' /\ Turn("browser", c, "has") /\ calls[c].action.kind \in Told
         /\ \/ doc = None /\ End(c, calls, Answered("browser"), "silent")
            \/ /\ doc # None /\ Now(c, "ask", calls[c].action, calls[c].was)
               /\ queue' = Request(Answered("browser"), "document", c)
               /\ UNCHANGED <<popup, left, overlapped, behind>>
         /\ UNCHANGED <<store, doc, undone, replaced, strayed>>
<1>1. /\ Turn("browser", c, "has") /\ calls[c].at = "has"
      /\ UNCHANGED <<store, doc, undone, replaced, strayed>>
  BY DEF HasDocument, Turn
<1>2. "has" \in PlacesOf["browser"] /\ "ask" \in PlacesOf["document"] /\ "browser" \in Service
      /\ "document" \in Service /\ "ask" \in Place
  BY DEF PlacesOf, Service, Place
<1>3. store' \in Store /\ replaced' \in BOOLEAN /\ undone' \in BOOLEAN /\ strayed' \in BOOLEAN
  BY <1>1, BasicFacts DEF RestOK
<1>6. calls[c].action.kind \in Told
  BY <1>1, BasicFacts DEF KindsAt
<1>4. CASE doc = None
  <2>1. End(c, calls, Answered("browser"), "silent")
    BY <1>4 DEF HasDocument
  <2>2. Basic'
    BY <1>1, <1>2, <1>3, <2>1, BasicEnd
  <2> QED
    BY <1>1, <1>4, <1>6, <2>1, <2>2
<1>5. CASE doc # None
  <2>1. Goto(c, "browser", "document", "ask")
    BY <1>5 DEF HasDocument
  <2>2. calls[c].action.kind \in KindsAt("ask")
    BY <1>1, BasicFacts DEF KindsAt
  <2>3. Now(c, "ask", calls[c].action, calls[c].was)
    BY <1>2, <2>1, BasicFacts, NowAt DEF Goto
  <2>4. Sound([at |-> "ask", action |-> calls[c].action, was |-> calls[c].was])
    BY <2>2, BasicFacts, SoundMove
  <2>5. RestOK'
    BY <1>1, <1>3, <2>1, BasicFacts DEF RestOK, Goto
  <2>6. queue' = Request(Answered("browser"), "document", c)
    BY <2>1 DEF Goto
  <2>7. Basic'
    BY <1>1, <1>2, <2>3, <2>4, <2>5, <2>6, BasicFacts, BasicGoto
  <2>8. UNCHANGED <<popup, left, overlapped, behind>>
    BY <2>1 DEF Goto
  <2> QED
    BY <1>1, <1>5, <1>6, <2>3, <2>6, <2>7, <2>8
<1> QED
  BY <1>4, <1>5

(* Where ensureOffscreenDocument takes a handler.                           *)
LEMMA EnsureDocumentBasic ==
  ASSUME Basic, NEW c \in Call, EnsureDocument(c)
  PROVE  /\ Basic'
         /\ \E to \in {"getSelf", "create", "loading"} :
              /\ Now(c, to, calls[c].action, calls[c].was)
              /\ to # "getSelf" => doc = None
         /\ UNCHANGED <<store, doc, popup, left, overlapped, undone, replaced, strayed, behind>>
<1>1. /\ Turn("browser", c, "ensure") /\ calls[c].at = "ensure"
      /\ UNCHANGED <<store, doc, popup, left, overlapped, undone, replaced, strayed, behind>>
  BY DEF EnsureDocument, Turn, Goto
<1>2. /\ "ensure" \in PlacesOf["browser"] /\ "getSelf" \in PlacesOf["storage"]
      /\ "create" \in PlacesOf["browser"] /\ {"browser", "storage"} \subseteq Service
      /\ {"getSelf", "create", "loading"} \subseteq Place /\ "loading" \in Elsewhere
  BY DEF PlacesOf, Service, Place, Elsewhere
<1>3. RestOK'
  BY <1>1, BasicFacts DEF RestOK
<1>4. ASSUME NEW to \in {"getSelf", "create", "loading"} 
      PROVE  Sound([at |-> to, action |-> calls[c].action, was |-> calls[c].was])
  <2>1. calls[c].action.kind \in KindsAt(to)
    BY <1>1, BasicFacts DEF KindsAt
  <2> QED
    BY <2>1, BasicFacts, SoundMove
<1>5. CASE doc # None
  <2>1. calls' = [calls EXCEPT ![c].at = "getSelf"] /\ queue' = Request(Answered("browser"), "storage", c)
    BY <1>5 DEF EnsureDocument, Goto
  <2>2. Now(c, "getSelf", calls[c].action, calls[c].was)
    BY <1>2, <2>1, BasicFacts, NowAt
  <2>3. Basic'
    BY <1>1, <1>2, <1>3, <1>4, <2>1, <2>2, BasicFacts, BasicGoto
  <2> QED
    BY <1>1, <2>2, <2>3
<1>6. CASE doc = None /\ Creating = {}
  <2>1. calls' = [calls EXCEPT ![c].at = "create"] /\ queue' = Request(Answered("browser"), "browser", c)
    BY <1>6 DEF EnsureDocument, Goto
  <2>2. Now(c, "create", calls[c].action, calls[c].was)
    BY <1>2, <2>1, BasicFacts, NowAt
  <2>3. \A d \in Call : calls[d].at # "create"
    BY <1>6 DEF Creating
  <2>4. Basic'
    BY <1>1, <1>2, <1>3, <1>4, <1>6, <2>1, <2>2, <2>3, BasicFacts, BasicGoto
  <2> QED
    BY <1>1, <1>6, <2>2, <2>4
<1>7. CASE doc = None /\ Creating # {}
  <2>1. calls' = [calls EXCEPT ![c].at = "loading"] /\ queue' = Answered("browser")
    BY <1>7 DEF EnsureDocument
  <2>2. Now(c, "loading", calls[c].action, calls[c].was)
    BY <1>2, <2>1, BasicFacts, NowAt
  <2>3. Sound(calls'[c])
    BY <1>4, <2>2 DEF Now, Sound
  <2>4. Basic'
    BY <1>1, <1>2, <1>3, <2>1, <2>2, <2>3, BasicTurn DEF Now
  <2> QED
    BY <1>1, <1>7, <2>2, <2>4
<1> QED
  BY <1>5, <1>6, <1>7

LEMMA CreateDocumentBasic ==
  ASSUME Basic, NEW c \in Call, CreateDocument(c)
  PROVE  /\ Basic' /\ doc = None /\ doc' = Loading
         /\ Now(c, "loading", calls[c].action, calls[c].was)
         /\ UNCHANGED <<store, popup, left, overlapped, undone, replaced, strayed, behind>>
<1>1. /\ Turn("browser", c, "create") /\ calls[c].at = "create"
      /\ \A d \in Call : calls[d].at # "lost"
      /\ doc' = Loading /\ calls' = [calls EXCEPT ![c].at = "loading"]
      /\ queue' = Answered("browser")
      /\ UNCHANGED <<store, popup, left, overlapped, undone, replaced, strayed, behind>>
  BY DEF CreateDocument, Turn
<1>2. "create" \in PlacesOf["browser"] /\ "browser" \in Service /\ "loading" \in Place
  BY DEF PlacesOf, Service, Place, Elsewhere
<1>3. Now(c, "loading", calls[c].action, calls[c].was)
  BY <1>1, <1>2, BasicFacts, NowAt
<1>4. Sound(calls'[c])
  <2>1. calls[c].action.kind \in KindsAt("loading")
    BY <1>1, BasicFacts DEF KindsAt
  <2> QED
    BY <1>3, <2>1, BasicFacts DEF Now, Sound
<1>5. RestOK' /\ queue' \in [Service -> Seq(Call)] /\ Queued(queue', calls')
  <2>1. RestOK'
    BY <1>1, BasicFacts DEF RestOK
  <2> QED
    BY <1>1, <1>2, <1>3, <2>1, TurnQueue DEF Now, Basic, TypeOK
<1>6. TypeOK'
  BY <1>3, <1>4, <1>5 DEF TypeOK, Basic, Now
<1>7. doc = None /\ ~Exists /\ \A d \in Call : calls[d].at = "create" => d = c
  BY <1>1 DEF Basic, Documents, Exists
<1>8. Documents'
  <2>1. \A d \in Call : calls'[d].at # "create" /\ calls'[d].at # "lost"
    BY <1>1, <1>3, <1>7 DEF Now
  <2>2. \A d \in Call : calls'[d].at \notin {"opening", "reopening"}
    BY <1>3, <1>7 DEF Now, Basic, Documents
  <2>3. calls'[c].at = "loading"
    BY <1>3 DEF Now
  <2> QED
    BY <2>1, <2>2, <2>3 DEF Documents
<1> QED
  BY <1>1, <1>3, <1>5, <1>6, <1>7, <1>8 DEF Basic

(* All who waited for the document read the store.                          *)
Waiting == {c \in Call : calls[c].at = "loading"}

LEMMA ConcatMembers ==
  ASSUME NEW q \in Seq(Call), NEW r \in Seq(Call)
  PROVE  /\ q \o r \in Seq(Call)
         /\ \A i \in DOMAIN q : i \in DOMAIN (q \o r) /\ (q \o r)[i] = q[i]
         /\ \A i \in DOMAIN r : Len(q) + i \in DOMAIN (q \o r) /\ (q \o r)[Len(q) + i] = r[i]
         /\ \A i \in DOMAIN (q \o r) : i \in DOMAIN q \/ (i > Len(q) /\ i - Len(q) \in DOMAIN r)
         /\ \A i \in DOMAIN q : i <= Len(q)
         /\ Len(q) \in Nat /\ DOMAIN q \in SUBSET Nat /\ DOMAIN r \in SUBSET Nat
         /\ DOMAIN (q \o r) \in SUBSET Nat
  OBVIOUS

LEMMA LoadedDoes ==
  ASSUME Basic, DocumentLoaded
  PROVE  /\ doc = Loading /\ doc' = NewDocument
         /\ UNCHANGED <<store, popup, left, overlapped, undone, replaced, strayed, behind>>
         /\ calls' \in [Call -> Handler]
         /\ \A d \in Call \ Waiting : calls'[d] = calls[d]
         /\ \A d \in Waiting : /\ calls'[d].at = "getSelf"
                               /\ calls'[d].action = calls[d].action /\ calls'[d].was = calls[d].was
         /\ \E order \in Seq(Call) :
              /\ queue' = [queue EXCEPT !["storage"] = queue["storage"] \o order]
              /\ 1 \in DOMAIN order /\ \A i \in DOMAIN order : order[i] \in Waiting
              /\ \A i, j \in DOMAIN order : order[i] = order[j] => i = j
<1>1. /\ doc = Loading /\ doc' = NewDocument
      /\ UNCHANGED <<store, popup, left, overlapped, undone, replaced, strayed, behind>>
      /\ calls' = [c \in Call |-> IF calls[c].at = "loading" THEN [calls[c] EXCEPT !.at = "getSelf"]
                                  ELSE calls[c]]
  BY DEF DocumentLoaded
<1>2. calls \in [Call -> Handler] /\ "getSelf" \in Place
  BY DEF Basic, TypeOK, PlacesOf, Service, Place
<1>3. ASSUME NEW h \in Handler
      PROVE  LET g == [h EXCEPT !.at = "getSelf"] IN
             g \in Handler /\ g.at = "getSelf" /\ g.action = h.action /\ g.was = h.was
  BY <1>2 DEF Handler
<1>4. \A d \in Call : calls'[d] = IF calls[d].at = "loading" THEN [calls[d] EXCEPT !.at = "getSelf"]
                                  ELSE calls[d]
  BY <1>1
<1>5. \A d \in Call : calls[d] \in Handler
  BY <1>2
<1>6. \A d \in Waiting : /\ calls'[d].at = "getSelf"
                         /\ calls'[d].action = calls[d].action /\ calls'[d].was = calls[d].was
  <2>1. ASSUME NEW d \in Waiting
        PROVE  /\ calls'[d].at = "getSelf"
               /\ calls'[d].action = calls[d].action /\ calls'[d].was = calls[d].was
    <3>1. d \in Call /\ calls[d].at = "loading" /\ calls[d] \in Handler
      BY <1>5 DEF Waiting
    <3>2. calls'[d] = [calls[d] EXCEPT !.at = "getSelf"]
      BY <1>4, <3>1
    <3> QED
      BY <1>3, <3>1, <3>2
  <2> QED
    BY <2>1
<1>7. \A d \in Call \ Waiting : calls'[d] = calls[d]
  BY <1>4 DEF Waiting
<1>8. \A d \in Call : calls'[d] \in Handler
  BY <1>3, <1>4, <1>5
<1>9. calls' \in [Call -> Handler]
  BY <1>1, <1>8
<1>10. PICK order \in SetToSeqs(Waiting) : queue' = [queue EXCEPT !.storage = @ \o order]
  BY DEF DocumentLoaded, Waiting
<1>11. Waiting # {} /\ IsFiniteSet(Waiting)
  <2>1. Waiting # {}
    BY <1>1 DEF Basic, Documents, Waiting
  <2> QED
    BY <2>1, SettingsAssumption, FS_Subset DEF Waiting
<1>12. Cardinality(Waiting) \in Nat /\ Cardinality(Waiting) # 0
  BY <1>11, FS_CardinalityType, FS_EmptySet
<1> DEFINE n == Cardinality(Waiting)
<1>13. order \in [1 .. n -> Waiting] /\ \A i, j \in 1 .. n : i # j => order[i] # order[j]
  BY DEF SetToSeqs
<1> HIDE DEF n
<1>14. n \in Nat /\ n # 0 /\ Waiting \subseteq Call
  BY <1>12 DEF n, Waiting
<1>15. order \in Seq(Call) /\ DOMAIN order = 1 .. n
  BY <1>13, <1>14
<1>16. 1 \in DOMAIN order /\ (\A i \in DOMAIN order : order[i] \in Waiting)
       /\ \A i, j \in DOMAIN order : order[i] = order[j] => i = j
  BY <1>13, <1>14, <1>15
<1> QED
  BY <1>1, <1>6, <1>7, <1>9, <1>10, <1>15, <1>16

LEMMA LoadedBasic ==
  ASSUME Basic, DocumentLoaded
  PROVE  Basic'
<1>1. /\ doc = Loading /\ doc' = NewDocument
      /\ UNCHANGED <<store, popup, left, overlapped, undone, replaced, strayed, behind>>
      /\ calls' \in [Call -> Handler]
      /\ \A d \in Call \ Waiting : calls'[d] = calls[d]
      /\ \A d \in Waiting : /\ calls'[d].at = "getSelf"
                            /\ calls'[d].action = calls[d].action /\ calls'[d].was = calls[d].was
  BY LoadedDoes
<1>2. PICK order \in Seq(Call) :
        /\ queue' = [queue EXCEPT !["storage"] = queue["storage"] \o order]
        /\ 1 \in DOMAIN order /\ \A i \in DOMAIN order : order[i] \in Waiting
        /\ \A i, j \in DOMAIN order : order[i] = order[j] => i = j
  BY LoadedDoes
<1> DEFINE q == queue["storage"]
           r == q \o order
<1>3. "storage" \in Service /\ queue \in [Service -> Seq(Call)] /\ q \in Seq(Call)
      /\ "getSelf" \in PlacesOf["storage"]
  BY DEF Basic, TypeOK, Service, PlacesOf
<1>4. /\ r \in Seq(Call)
      /\ \A i \in DOMAIN q : i \in DOMAIN r /\ r[i] = q[i]
      /\ \A i \in DOMAIN order : r[Len(q) + i] = order[i]
      /\ \A i \in DOMAIN r : i \in DOMAIN q \/ (i > Len(q) /\ i - Len(q) \in DOMAIN order)
      /\ Len(q) \in Nat /\ DOMAIN r \in SUBSET Nat
  BY <1>3, ConcatMembers
<1>5. /\ queue' \in [Service -> Seq(Call)] /\ queue'["storage"] = r
      /\ \A t \in Service : t # "storage" => queue'[t] = queue[t]
  BY <1>2, <1>3, <1>4
<1>6. Queued(queue, calls)
  BY DEF Basic
<1>7. \A d \in Waiting : \A t \in Service : \A i \in DOMAIN queue[t] : queue[t][i] # d
  BY <1>6, Places DEF Queued, Waiting, Elsewhere
<1>8. \A t \in Service : \A i \in DOMAIN queue[t] : queue[t][i] \in Call \ Waiting
  <2>1. ASSUME NEW t \in Service, NEW i \in DOMAIN queue[t] PROVE queue[t][i] \in Call
    BY <1>3, queue[t] \in Seq(Call)
  <2> QED
    BY <1>7, <2>1
<1> HIDE DEF r
<1>9. ASSUME NEW i \in DOMAIN r
      PROVE  (i \in DOMAIN q /\ r[i] = q[i])
             \/ (i - Len(q) \in DOMAIN order /\ r[i] = order[i - Len(q)])
  <2>1. CASE i \in DOMAIN q
    BY <1>4, <2>1
  <2>2. CASE i > Len(q) /\ i - Len(q) \in DOMAIN order
    <3>1. Len(q) + (i - Len(q)) = i
      BY <1>4
    <3>2. r[Len(q) + (i - Len(q))] = order[i - Len(q)]
      BY <1>4, <2>2
    <3> QED
      BY <2>2, <3>1, <3>2
  <2> QED
    BY <1>4, <2>1, <2>2
<1>10. ASSUME NEW i \in DOMAIN r
       PROVE  /\ calls'[r[i]].at \in PlacesOf["storage"]
              /\ \A j \in DOMAIN r : r[i] = r[j] => i = j
  <2>0. \A k \in DOMAIN q : q[k] \in Call \ Waiting /\ calls[q[k]].at \in PlacesOf["storage"]
    BY <1>3, <1>6, <1>8 DEF Queued
  <2>1. calls'[r[i]].at \in PlacesOf["storage"]
    BY <1>1, <1>2, <1>3, <1>9, <2>0
  <2>2. ASSUME NEW j \in DOMAIN r, r[i] = r[j] PROVE i = j
    <3>1. (i \in DOMAIN q /\ r[i] = q[i]) \/ (i - Len(q) \in DOMAIN order /\ r[i] = order[i - Len(q)])
      BY <1>9
    <3>2. (j \in DOMAIN q /\ r[j] = q[j]) \/ (j - Len(q) \in DOMAIN order /\ r[j] = order[j - Len(q)])
      BY <1>9
    <3>3. CASE i \in DOMAIN q /\ r[i] = q[i] /\ j \in DOMAIN q /\ r[j] = q[j]
      BY <1>3, <1>6, <2>2, <3>3 DEF Queued
    <3>4. CASE i - Len(q) \in DOMAIN order /\ r[i] = order[i - Len(q)] /\ j - Len(q) \in DOMAIN order
               /\ r[j] = order[j - Len(q)]
      <4>1. i - Len(q) = j - Len(q)
        BY <1>2, <2>2, <3>4
      <4>2. i \in Nat /\ j \in Nat /\ Len(q) \in Nat
        BY <1>4
      <4> QED
        BY <4>1, <4>2
    <3>5. ~(i \in DOMAIN q /\ r[i] = q[i] /\ j - Len(q) \in DOMAIN order /\ r[j] = order[j - Len(q)])
      BY <1>2, <2>0, <2>2
    <3>6. ~(j \in DOMAIN q /\ r[j] = q[j] /\ i - Len(q) \in DOMAIN order /\ r[i] = order[i - Len(q)])
      BY <1>2, <2>0, <2>2
    <3> QED
      BY <3>1, <3>2, <3>3, <3>4, <3>5, <3>6
  <2> QED
    BY <2>1, <2>2
<1>11. ASSUME NEW t \in Service, t # "storage", NEW i \in DOMAIN queue'[t]
       PROVE  /\ calls'[queue'[t][i]].at \in PlacesOf[t]
              /\ \A j \in DOMAIN queue'[t] : queue'[t][i] = queue'[t][j] => i = j
  BY <1>1, <1>5, <1>6, <1>8, <1>11 DEF Queued
<1>12. Queued(queue', calls')
  BY <1>5, <1>10, <1>11 DEF Queued
<1>13. \A d \in Call : Sound(calls'[d])
  <2>1. ASSUME NEW d \in Waiting PROVE Sound(calls'[d])
    <3>1. d \in Call /\ calls[d].at = "loading"
      BY DEF Waiting
    <3>2. calls[d].action.kind \in KindsAt("getSelf") /\ Sound(calls[d])
      BY <3>1, BasicFacts DEF KindsAt
    <3> QED
      BY <1>1, <3>2 DEF Sound
  <2> QED
    BY <1>1, <2>1 DEF Basic, TypeOK
<1>14. RestOK'
  BY <1>1, StoreTypes DEF RestOK, Basic, TypeOK
<1>15. Documents'
  <2>1. doc' \in Document /\ doc' # Loading /\ doc' # None /\ Exists'
    BY <1>1, StoreTypes, DocumentAssumption DEF Exists
  <2>2. \A d \in Call : calls[d].at # "lost" /\ calls[d].at # "create"
    BY <1>1, DocumentAssumption DEF Basic, Documents
  <2>3. \A d \in Call : calls'[d].at # "lost" /\ calls'[d].at # "create"
    BY <1>1, <2>2 DEF Waiting
  <2> QED
    BY <2>1, <2>3 DEF Documents
<1> QED
  BY <1>1, <1>5, <1>12, <1>13, <1>14, <1>15 DEF Basic, TypeOK

(* What is told to the document changes one thing in it.                    *)
LEMMA SelfExcept ==
  ASSUME NEW k \in Document, NEW m \in BOOLEAN, NEW t, t = [k EXCEPT !.selfMuted = m]
  PROVE  /\ t \in Document /\ t.selfMuted = m /\ t.micMuted = k.micMuted
         /\ t.monitorMuted = k.monitorMuted /\ t.device = k.device /\ t.active = k.active
  BY DEF Document

LEMMA MicExcept ==
  ASSUME NEW k \in Document, NEW m \in Switches, NEW t, t = [k EXCEPT !.micMuted = m]
  PROVE  /\ t \in Document /\ t.selfMuted = k.selfMuted /\ t.micMuted = m
         /\ t.monitorMuted = k.monitorMuted /\ t.device = k.device /\ t.active = k.active
  BY DEF Document

LEMMA MonitorExcept ==
  ASSUME NEW k \in Document, NEW m \in Switches, NEW t, t = [k EXCEPT !.monitorMuted = m]
  PROVE  /\ t \in Document /\ t.selfMuted = k.selfMuted /\ t.micMuted = k.micMuted
         /\ t.monitorMuted = m /\ t.device = k.device /\ t.active = k.active
  BY DEF Document

LEMMA DeviceExcept ==
  ASSUME NEW k \in Document, NEW d \in Device, NEW t, t = [k EXCEPT !.device = d]
  PROVE  /\ t \in Document /\ t.selfMuted = k.selfMuted /\ t.micMuted = k.micMuted
         /\ t.monitorMuted = k.monitorMuted /\ t.device = d /\ t.active = k.active
  BY DEF Document

(* What the document becomes when it is told of a change, by kind.          *)
Obeyed(action) ==
  /\ doc'.selfMuted = IF action.kind = "self" THEN action.muted ELSE doc.selfMuted
  /\ doc'.micMuted = IF action.kind = "mic" THEN [doc.micMuted EXCEPT ![action.value] = action.muted]
                     ELSE doc.micMuted
  /\ doc'.monitorMuted = IF action.kind = "monitor"
                         THEN [doc.monitorMuted EXCEPT ![action.value] = action.muted]
                         ELSE IF action.kind = "allMonitor" THEN All(action.muted)
                         ELSE doc.monitorMuted
  /\ doc'.active = doc.active

LEMMA AskDocument ==
  ASSUME Basic, NEW c \in Call, Ask(c), Exists
  PROVE  doc' \in Document /\ Obeyed(calls[c].action)
<1> DEFINE a == calls[c].action
<1>1. /\ a.kind = "device" => doc' = [doc EXCEPT !.device = a.value]
      /\ a.kind = "self" => doc' = [doc EXCEPT !.selfMuted = a.muted]
      /\ a.kind = "mic" => doc' = [doc EXCEPT !.micMuted[a.value] = a.muted]
      /\ a.kind = "monitor" => doc' = [doc EXCEPT !.monitorMuted[a.value] = a.muted]
      /\ a.kind = "allMonitor" => doc' = [doc EXCEPT !.monitorMuted = All(a.muted)]
  BY DEF Ask
<1>2. /\ a.kind \in Told /\ a.muted \in BOOLEAN
      /\ a.kind = "device" => a.value \in Device
  BY BasicFacts, ActionFields DEF Sound, KindsAt, Ask, Turn
<1>3. doc \in Document
  BY BasicFacts, DocumentIs
<1>4. doc.micMuted \in Switches /\ doc.monitorMuted \in Switches
  BY <1>3 DEF Document
<1> SUFFICES doc' \in Document /\ Obeyed(a)
  OBVIOUS
<1> HIDE DEF a
<1>5. CASE a.kind = "device"
  BY <1>1, <1>2, <1>3, <1>5, DeviceExcept DEF Obeyed
<1>6. CASE a.kind = "self"
  BY <1>1, <1>2, <1>3, <1>6, SelfExcept DEF Obeyed
<1>7. CASE a.kind = "mic"
  <2> DEFINE mic == [doc.micMuted EXCEPT ![a.value] = a.muted]
  <2>1. mic \in Switches
    BY <1>2, <1>4 DEF Switches
  <2>2. doc' = [doc EXCEPT !.micMuted = mic]
    BY <1>1, <1>7
  <2>3. mic = [doc.micMuted EXCEPT ![a.value] = a.muted]
    OBVIOUS
  <2> HIDE DEF mic
  <2> QED
    BY <1>3, <1>7, <2>1, <2>2, <2>3, MicExcept DEF Obeyed
<1>8. CASE a.kind = "monitor"
  <2> DEFINE monitor == [doc.monitorMuted EXCEPT ![a.value] = a.muted]
  <2>1. monitor \in Switches
    BY <1>2, <1>4 DEF Switches
  <2>2. doc' = [doc EXCEPT !.monitorMuted = monitor]
    BY <1>1, <1>8
  <2>3. monitor = [doc.monitorMuted EXCEPT ![a.value] = a.muted]
    OBVIOUS
  <2> HIDE DEF monitor
  <2> QED
    BY <1>3, <1>8, <2>1, <2>2, <2>3, MonitorExcept DEF Obeyed
<1>9. CASE a.kind = "allMonitor"
  <2>1. All(a.muted) \in Switches
    BY <1>2 DEF All, Switches
  <2> QED
    BY <1>1, <1>3, <1>9, <2>1, MonitorExcept DEF Obeyed
<1> QED
  BY <1>2, <1>5, <1>6, <1>7, <1>8, <1>9 DEF Told, Switch

LEMMA AskBasic ==
  ASSUME Basic, NEW c \in Call, Ask(c)
  PROVE  /\ Basic' /\ Turn("document", c, "ask") /\ calls[c].action.kind \in Told
         /\ \/ /\ ~Exists /\ doc' = doc /\ Now(c, "undo", calls[c].action, calls[c].was)
               /\ queue' = Request(Answered("document"), "storage", c)
               /\ UNCHANGED <<popup, left, overlapped, behind>>
            \/ /\ Exists /\ (calls[c].action.kind = "device" => doc.active = None)
               /\ \E how \in {"silent", "told"} : End(c, calls, Answered("document"), how)
            \/ /\ Exists /\ calls[c].action.kind = "device"
               /\ Now(c, "opening", calls[c].action, calls[c].was)
               /\ queue' = Answered("document")
               /\ UNCHANGED <<popup, left, overlapped, behind>>
         /\ UNCHANGED <<store, undone, replaced, strayed>>
<1>1. /\ Turn("document", c, "ask") /\ calls[c].at = "ask"
      /\ UNCHANGED <<store, undone, replaced, strayed>>
  BY DEF Ask, Turn
<1>2. /\ "ask" \in PlacesOf["document"] /\ "undo" \in PlacesOf["storage"] /\ {"document", "storage"} \subseteq Service
      /\ {"undo", "opening"} \subseteq Place
  BY DEF PlacesOf, Service, Place, Elsewhere
<1>3. store' \in Store /\ replaced' \in BOOLEAN /\ undone' \in BOOLEAN /\ strayed' \in BOOLEAN
  BY <1>1, BasicFacts DEF RestOK
<1>8. calls[c].action.kind \in Told
  BY <1>1, BasicFacts DEF KindsAt
<1>4. CASE ~Exists
  <2>1. Goto(c, "document", "storage", "undo") /\ UNCHANGED doc
    BY <1>4 DEF Ask
  <2>2. calls[c].action.kind \in KindsAt("undo")
    BY <1>1, BasicFacts DEF KindsAt
  <2>3. Now(c, "undo", calls[c].action, calls[c].was)
    BY <1>2, <2>1, BasicFacts, NowAt DEF Goto
  <2>4. Sound([at |-> "undo", action |-> calls[c].action, was |-> calls[c].was])
    BY <2>2, BasicFacts, SoundMove
  <2>5. RestOK'
    BY <1>1, <1>3, <2>1, BasicFacts DEF RestOK, Goto
  <2>6. queue' = Request(Answered("document"), "storage", c)
    BY <2>1 DEF Goto
  <2>7. Basic'
    BY <1>1, <1>2, <2>1, <2>3, <2>4, <2>5, <2>6, BasicFacts, BasicGoto
  <2>8. UNCHANGED <<popup, left, overlapped, behind>>
    BY <2>1 DEF Goto
  <2> QED
    BY <1>1, <1>4, <1>8, <2>1, <2>3, <2>6, <2>7, <2>8
<1>5. CASE /\ Exists /\ (calls[c].action.kind = "device" => doc.active = None)
           /\ \E how \in {"silent", "told"} : End(c, calls, Answered("document"), how)
  <2>1. PICK how \in {"silent", "told"} : End(c, calls, Answered("document"), how)
    BY <1>5
  <2>2. Basic'
    BY <1>1, <1>2, <1>3, <1>5, <2>1, AskDocument, BasicEnd
  <2> QED
    BY <1>1, <1>5, <1>8, <2>2
<1>7. CASE /\ Exists /\ calls[c].action.kind = "device"
           /\ calls' = [calls EXCEPT ![c].at = "opening"]
           /\ queue' = Answered("document")
           /\ UNCHANGED <<popup, left, overlapped, behind>>
  <2>1. Now(c, "opening", calls[c].action, calls[c].was)
    BY <1>2, <1>7, BasicFacts, NowAt
  <2>2. Sound(calls'[c])
    BY <1>1, <1>7, <2>1, BasicFacts DEF Now, Sound, KindsAt
  <2>3. doc' \in Document
    BY <1>7, AskDocument
  <2>4. RestOK'
    BY <1>1, <1>3, <1>7, <2>3, BasicFacts DEF RestOK
  <2>5. Basic'
    BY <1>1, <1>2, <1>7, <2>1, <2>2, <2>3, <2>4, BasicTurn DEF Now
  <2> QED
    BY <1>1, <1>7, <1>8, <2>1, <2>5
<1> QED
  BY <1>4, <1>5, <1>7 DEF Ask

(* The new document is given one kind of switches, and asked for the next.  *)
LEMMA PutBasic ==
  ASSUME Basic, NEW c \in Call, NEW at \in {"putSelf", "putMic", "putMonitor"}, NEW copy,
         NEW to \in {"putMic", "putMonitor", "getDevice", "capture"}, NEW t \in Service,
         to \in PlacesOf[t], Exists => copy \in Document,
         Put(c, at, copy, [service |-> t, at |-> to])
  PROVE  /\ Basic'
         /\ ~Exists => calls'[c] = Idle /\ doc' = doc /\ End(c, calls, Answered("document"), "silent")
         /\ Exists => /\ Now(c, to, calls[c].action, calls[c].was) /\ doc' = copy
                      /\ queue' = Request(Answered("document"), t, c)
                      /\ popup' = Refreshed(popup) /\ UNCHANGED <<left, overlapped, behind>>
         /\ \A d \in Call \ {c} : calls'[d] = calls[d]
         /\ UNCHANGED <<store, undone, replaced, strayed>>
<1>1. /\ Turn("document", c, at) /\ calls[c].at = at
      /\ UNCHANGED <<store, undone, replaced, strayed>>
  BY DEF Put, Turn
<1>2. /\ at \in PlacesOf["document"] /\ "document" \in Service /\ to \in Place
  BY DEF PlacesOf, Service, Place, Elsewhere
<1>3. store' \in Store /\ replaced' \in BOOLEAN /\ undone' \in BOOLEAN /\ strayed' \in BOOLEAN
  BY <1>1, BasicFacts DEF RestOK
<1>4. CASE ~Exists
  <2>1. End(c, calls, Answered("document"), "silent") /\ UNCHANGED doc
    BY <1>4 DEF Put
  <2>2. calls'[c] = Idle /\ \A d \in Call \ {c} : calls'[d] = calls[d]
    BY <2>1, BasicFacts, EndType
  <2> QED
    BY <1>1, <1>2, <1>3, <1>4, <2>1, <2>2, BasicEnd
<1>5. CASE Exists
  <2>1. /\ doc' = copy /\ calls' = [calls EXCEPT ![c].at = to]
        /\ queue' = Request(Answered("document"), t, c)
        /\ popup' = Refreshed(popup) /\ UNCHANGED <<left, overlapped, behind>>
    BY <1>5 DEF Put
  <2>2. calls[c].action.kind \in KindsAt(to)
    BY <1>1, BasicFacts DEF KindsAt
  <2>3. Now(c, to, calls[c].action, calls[c].was)
    BY <1>2, <2>1, BasicFacts, NowAt
  <2>4. Sound([at |-> to, action |-> calls[c].action, was |-> calls[c].was])
    BY <2>2, BasicFacts, SoundMove
  <2>5. popup' \in Popup \cup {None}
    BY <2>1, BasicFacts, RefreshedType DEF RestOK
  <2>6. RestOK'
    BY <1>1, <1>5, <1>3, <2>1, <2>5, BasicFacts DEF RestOK
  <2>7. Basic'
    BY <1>1, <1>2, <1>5, <2>1, <2>3, <2>4, <2>6, BasicFacts, BasicGoto
  <2> QED
    BY <1>1, <1>5, <2>1, <2>3, <2>7 DEF Now
<1> QED
  BY <1>4, <1>5

(* What PutSettings puts, by where the handler is.                          *)
Given(h) ==
  /\ doc' \in Document
  /\ doc'.selfMuted = IF h.at = "putSelf" THEN h.action.muted ELSE doc.selfMuted
  /\ doc'.micMuted = IF h.at = "putMic" THEN h.was.config.micMuted ELSE doc.micMuted
  /\ doc'.monitorMuted = IF h.at = "putMonitor" THEN h.was.config.monitorMuted ELSE doc.monitorMuted
  /\ doc'.active = doc.active

LEMMA PutSettingsBasic ==
  ASSUME Basic, NEW c \in Call, PutSettings(c)
  PROVE  /\ Basic'
         /\ ~Exists => calls'[c] = Idle /\ doc' = doc /\ End(c, calls, Answered("document"), "silent")
         /\ Exists =>
              /\ Given(calls[c])
              /\ \E at \in {"putMic", "putMonitor", "getDevice", "capture"}, s \in Service :
                   /\ Now(c, at, calls[c].action, calls[c].was)
                   /\ at \in PlacesOf[s] /\ queue' = Request(Answered("document"), s, c)
                   /\ calls[c].at = "putSelf" => at = "putMic"
                   /\ calls[c].at = "putMic" => at = "putMonitor"
                   /\ calls[c].at = "putMonitor" => at \in {"getDevice", "capture"}
              /\ popup' = Refreshed(popup) /\ UNCHANGED <<left, overlapped, behind>>
         /\ Turn("document", c, calls[c].at) /\ calls[c].at \in {"putSelf", "putMic", "putMonitor"}
         /\ \A d \in Call \ {c} : calls'[d] = calls[d]
         /\ UNCHANGED <<store, undone, replaced, strayed>>
<1> DEFINE w == calls[c].was.config
<1>1. /\ w.micMuted \in Switches /\ w.monitorMuted \in Switches
      /\ calls[c].action.muted \in BOOLEAN
  BY BasicFacts, StoreFields, ActionFields DEF Config
<1>2. Exists => doc \in Document
  BY BasicFacts, DocumentIs
<1>3. /\ {"document", "storage"} \subseteq Service
      /\ {"putMic", "putMonitor", "capture"} \subseteq PlacesOf["document"]
      /\ "getDevice" \in PlacesOf["storage"]
  BY DEF Service, PlacesOf
<1>4. CASE Put(c, "putSelf", [doc EXCEPT !.selfMuted = calls[c].action.muted],
               [service |-> "document", at |-> "putMic"])
  <2> DEFINE copy == [doc EXCEPT !.selfMuted = calls[c].action.muted]
  <2>1. calls[c].at = "putSelf" /\ Turn("document", c, calls[c].at)
    BY <1>4 DEF Put, Turn
  <2>2. Exists => /\ copy \in Document /\ copy.selfMuted = calls[c].action.muted
                  /\ copy.micMuted = doc.micMuted /\ copy.monitorMuted = doc.monitorMuted
                  /\ copy.active = doc.active
    BY <1>1, <1>2, SelfExcept
  <2>3. Put(c, "putSelf", copy, [service |-> "document", at |-> "putMic"])
    BY <1>4
  <2> HIDE DEF copy
  <2> QED
    BY <1>3, <2>1, <2>2, <2>3, PutBasic DEF Given
<1>5. CASE Put(c, "putMic", [doc EXCEPT !.micMuted = w.micMuted],
               [service |-> "document", at |-> "putMonitor"])
  <2> DEFINE copy == [doc EXCEPT !.micMuted = w.micMuted]
  <2>1. calls[c].at = "putMic" /\ Turn("document", c, calls[c].at)
    BY <1>5 DEF Put, Turn
  <2>2. Exists => /\ copy \in Document /\ copy.selfMuted = doc.selfMuted
                  /\ copy.micMuted = w.micMuted /\ copy.monitorMuted = doc.monitorMuted
                  /\ copy.active = doc.active
    BY <1>1, <1>2, MicExcept
  <2>3. Put(c, "putMic", copy, [service |-> "document", at |-> "putMonitor"])
    BY <1>5
  <2> HIDE DEF copy
  <2> QED
    BY <1>3, <2>1, <2>2, <2>3, PutBasic DEF Given
<1>6. ASSUME NEW t \in Service, NEW to \in {"getDevice", "capture"}, to \in PlacesOf[t],
             Put(c, "putMonitor", [doc EXCEPT !.monitorMuted = w.monitorMuted],
                 [service |-> t, at |-> to])
      PROVE  /\ Basic'
             /\ ~Exists => calls'[c] = Idle /\ doc' = doc /\ End(c, calls, Answered("document"), "silent")
             /\ Exists => /\ Given(calls[c]) /\ Now(c, to, calls[c].action, calls[c].was)
                          /\ queue' = Request(Answered("document"), t, c)
                          /\ popup' = Refreshed(popup) /\ UNCHANGED <<left, overlapped, behind>>
             /\ Turn("document", c, calls[c].at) /\ calls[c].at = "putMonitor"
             /\ \A d \in Call \ {c} : calls'[d] = calls[d]
             /\ UNCHANGED <<store, undone, replaced, strayed>>
  <2> DEFINE copy == [doc EXCEPT !.monitorMuted = w.monitorMuted]
  <2>1. calls[c].at = "putMonitor" /\ Turn("document", c, calls[c].at)
    BY <1>6 DEF Put, Turn
  <2>2. Exists => /\ copy \in Document /\ copy.selfMuted = doc.selfMuted
                  /\ copy.micMuted = doc.micMuted /\ copy.monitorMuted = w.monitorMuted
                  /\ copy.active = doc.active
    BY <1>1, <1>2, MonitorExcept
  <2>3. Put(c, "putMonitor", copy, [service |-> t, at |-> to])
    BY <1>6
  <2> HIDE DEF copy
  <2> QED
    BY <1>3, <1>6, <2>1, <2>2, <2>3, PutBasic DEF Given
<1>7. CASE \E next \in {[service |-> "storage", at |-> "getDevice"],
                        [service |-> "document", at |-> "capture"]} :
             Put(c, "putMonitor", [doc EXCEPT !.monitorMuted = w.monitorMuted], next)
  <2>1. \E t \in Service, to \in {"getDevice", "capture"} :
          /\ to \in PlacesOf[t]
          /\ Put(c, "putMonitor", [doc EXCEPT !.monitorMuted = w.monitorMuted],
                 [service |-> t, at |-> to])
    BY <1>3, <1>7
  <2>2. PICK t \in Service, to \in {"getDevice", "capture"} :
          /\ to \in PlacesOf[t]
          /\ Put(c, "putMonitor", [doc EXCEPT !.monitorMuted = w.monitorMuted],
                 [service |-> t, at |-> to])
    BY <2>1
  <2>3. /\ Basic'
        /\ ~Exists => calls'[c] = Idle /\ doc' = doc /\ End(c, calls, Answered("document"), "silent")
        /\ Exists => /\ Given(calls[c]) /\ Now(c, to, calls[c].action, calls[c].was)
                     /\ queue' = Request(Answered("document"), t, c)
                     /\ popup' = Refreshed(popup) /\ UNCHANGED <<left, overlapped, behind>>
        /\ Turn("document", c, calls[c].at) /\ calls[c].at = "putMonitor"
        /\ \A d \in Call \ {c} : calls'[d] = calls[d]
        /\ UNCHANGED <<store, undone, replaced, strayed>>
    BY <1>6, <2>2
  <2> QED
    BY <2>2, <2>3
<1> QED
  BY <1>4, <1>5, <1>7 DEF PutSettings

LEMMA EnsureMicrophoneBasic ==
  ASSUME Basic, NEW c \in Call, EnsureMicrophone(c)
  PROVE  /\ Basic' /\ Turn("document", c, "ensureMic")
         /\ ~Exists => End(c, calls, Answered("document"), "silent")
         /\ Exists => \E at \in {"capture", "opening"} :
              /\ Now(c, at, calls[c].action, calls[c].was)
              /\ UNCHANGED <<popup, left, overlapped, behind>>
              /\ \/ queue' = Answered("document")
                 \/ queue' = Request(Answered("document"), "document", c)
         /\ UNCHANGED <<store, doc, undone, replaced, strayed>>
<1>1. /\ Turn("document", c, "ensureMic") /\ calls[c].at = "ensureMic"
      /\ UNCHANGED <<store, doc, undone, replaced, strayed>>
  BY DEF EnsureMicrophone, Turn
<1>2. /\ {"ensureMic", "capture"} \subseteq PlacesOf["document"] /\ "document" \in Service
      /\ {"capture", "opening"} \subseteq Place
  BY DEF PlacesOf, Service, Place, Elsewhere
<1>3. store' \in Store /\ replaced' \in BOOLEAN /\ undone' \in BOOLEAN /\ strayed' \in BOOLEAN
  BY <1>1, BasicFacts DEF RestOK
<1>4. calls[c].action.kind = "add" /\ calls[c].action.value \in Device
  BY <1>1, BasicFacts DEF Sound, KindsAt
<1>5. CASE ~Exists
  <2>1. End(c, calls, Answered("document"), "silent")
    BY <1>5 DEF EnsureMicrophone
  <2>2. Basic'
    BY <1>1, <1>2, <1>3, <2>1, BasicEnd
  <2> QED
    BY <1>1, <1>5, <2>1, <2>2
<1>6. CASE Exists /\ Goto(c, "document", "document", "capture")
  <2>1. Now(c, "capture", calls[c].action, calls[c].was)
    BY <1>2, <1>6, BasicFacts, NowAt DEF Goto
  <2>2. calls[c].action.kind \in KindsAt("capture")
    BY <1>4 DEF KindsAt
  <2>3. Sound([at |-> "capture", action |-> calls[c].action, was |-> calls[c].was])
    BY <1>4, <2>2, BasicFacts, SoundMove
  <2>4. RestOK'
    BY <1>1, <1>3, <1>6, BasicFacts DEF RestOK, Goto
  <2>5. queue' = Request(Answered("document"), "document", c) /\ UNCHANGED <<popup, left, overlapped, behind>>
    BY <1>6 DEF Goto
  <2>6. Basic'
    BY <1>1, <1>2, <2>1, <2>3, <2>4, <2>5, BasicFacts, BasicGoto
  <2> QED
    BY <1>1, <1>6, <2>1, <2>5, <2>6
<1>7. CASE /\ Exists /\ calls' = [calls EXCEPT ![c].at = "opening"]
           /\ queue' = Answered("document")
           /\ UNCHANGED <<popup, left, overlapped, behind>>
  <2>1. Now(c, "opening", calls[c].action, calls[c].was)
    BY <1>2, <1>7, BasicFacts, NowAt
  <2>2. Sound(calls'[c])
    BY <1>4, <2>1, BasicFacts DEF Now, Sound, KindsAt
  <2>3. RestOK'
    BY <1>1, <1>3, <1>7, BasicFacts DEF RestOK
  <2>4. Basic'
    BY <1>1, <1>2, <1>7, <2>1, <2>2, <2>3, BasicTurn DEF Now
  <2> QED
    BY <1>1, <1>7, <2>1, <2>4
<1> QED
  BY <1>5, <1>6, <1>7 DEF EnsureMicrophone

LEMMA CaptureTabBasic ==
  ASSUME Basic, NEW c \in Call, CaptureTab(c)
  PROVE  /\ Basic' /\ Turn("document", c, "capture") /\ calls[c].action.kind = "add"
         /\ UNCHANGED <<store, doc, undone, replaced>>
         /\ \/ /\ \E how \in {"added", "silent"} : End(c, calls, Answered("document"), how)
               /\ strayed' = strayed
            \/ /\ Exists /\ doc.device \in Device
               /\ Now(c, "reopening", [calls[c].action EXCEPT !.value = doc.device], calls[c].was)
               /\ calls'[c].action.kind = "add" /\ calls'[c].action.value = doc.device
               /\ strayed' = (strayed \/ doc.device # store.device)
               /\ queue' = Answered("document")
               /\ UNCHANGED <<popup, left, overlapped, behind>>
<1>1. /\ Turn("document", c, "capture") /\ calls[c].at = "capture"
      /\ UNCHANGED <<store, doc, undone, replaced>>
  BY DEF CaptureTab, Turn
<1>2. /\ "capture" \in PlacesOf["document"] /\ "document" \in Service /\ "reopening" \in Place
  BY DEF PlacesOf, Service, Place, Elsewhere
<1>3. calls[c].action.kind = "add" /\ calls[c].action \in ActionType
  BY <1>1, BasicFacts DEF KindsAt
<1>4. CASE /\ \E how \in IF Exists THEN {"added", "silent"} ELSE {"silent"} :
                End(c, calls, Answered("document"), how)
           /\ UNCHANGED strayed
  <2>1. PICK how \in {"added", "silent"} : End(c, calls, Answered("document"), how)
    BY <1>4
  <2>2. store' \in Store /\ replaced' \in BOOLEAN /\ undone' \in BOOLEAN /\ strayed' \in BOOLEAN
    BY <1>1, <1>4, BasicFacts DEF RestOK
  <2>3. Basic'
    BY <1>1, <1>2, <2>1, <2>2, BasicEnd
  <2> QED
    BY <1>1, <1>3, <1>4, <2>1, <2>3
<1>5. CASE /\ Exists
           /\ calls' = [calls EXCEPT ![c].at = "reopening", ![c].action.value = doc.device]
           /\ queue' = Answered("document")
           /\ strayed' = (strayed \/ doc.device # store.device)
           /\ UNCHANGED <<popup, left, overlapped, behind>>
  <2> DEFINE a == [calls[c].action EXCEPT !.value = doc.device]
  <2>1. doc.device \in Device
    BY <1>5, BasicFacts, DocumentIs DEF Document
  <2>2. Now(c, "reopening", a, calls[c].was)
    BY <1>2, <1>5, <2>1, BasicFacts, NowAtValue
  <2>3. a.kind = "add" /\ a.value = doc.device
    BY <1>3 DEF ActionType
  <2>4. a = [calls[c].action EXCEPT !.value = doc.device]
    OBVIOUS
  <2> HIDE DEF a
  <2>5. calls'[c].action = a /\ calls'[c].at = "reopening" /\ calls' \in [Call -> Handler]
        /\ \A d \in Call \ {c} : calls'[d] = calls[d]
    BY <2>2 DEF Now
  <2>6. Sound(calls'[c])
    BY <2>1, <2>3, <2>5 DEF Sound, KindsAt
  <2>7. RestOK'
    <3>1. strayed' \in BOOLEAN
      BY <1>5, BasicFacts DEF RestOK
    <3> QED
      BY <1>1, <1>5, <3>1, BasicFacts DEF RestOK
  <2>8. Basic'
    BY <1>1, <1>2, <1>5, <2>5, <2>6, <2>7, BasicTurn
  <2> QED
    BY <1>1, <1>3, <1>5, <2>1, <2>2, <2>3, <2>4, <2>5, <2>8
<1> QED
  BY <1>4, <1>5 DEF CaptureTab

-----------------------------------------------------------------------------
(* Steps of those who wait for no service.                                  *)

LEMMA JumpQueue ==
  ASSUME queue \in [Service -> Seq(Call)], Queued(queue, calls),
         NEW c \in Call, calls[c].at \in Elsewhere,
         \A d \in Call \ {c} : calls'[d] = calls[d],
         \/ queue' = queue
         \/ \E t \in Service : calls'[c].at \in PlacesOf[t] /\ queue' = Request(queue, t, c)
  PROVE  queue' \in [Service -> Seq(Call)] /\ Queued(queue', calls')
<1>1. Absent(queue, c)
  BY ElsewhereAbsent
<1>2. CASE queue' = queue
  BY <1>1, <1>2, LeftQueue, Zenon
<1>3. ASSUME NEW t \in Service, calls'[c].at \in PlacesOf[t], queue' = Request(queue, t, c)
      PROVE  queue' \in [Service -> Seq(Call)] /\ Queued(queue', calls')
  BY <1>1, <1>3, RequestedQueue, Zenon
<1> QED
  BY <1>2, <1>3

LEMMA BasicJump ==
  ASSUME Basic, NEW c \in Call, calls[c].at \in Elsewhere \ {"loading"},
         calls' \in [Call -> Handler], Sound(calls'[c]), \A d \in Call \ {c} : calls'[d] = calls[d],
         \/ queue' = queue
         \/ \E t \in Service : calls'[c].at \in PlacesOf[t] /\ queue' = Request(queue, t, c),
         RestOK',
         doc' = doc \/ (Exists /\ doc' \in Document),
         calls'[c].at \notin {"lost", "opening", "reopening", "create"}
  PROVE  Basic'
<1>1. TypeOK /\ RestOK /\ Queued(queue, calls) /\ Documents
  BY DEF Basic, TypeOK
<1>2. queue' \in [Service -> Seq(Call)] /\ Queued(queue', calls')
  BY <1>1, JumpQueue DEF TypeOK
<1>3. \A d \in Call : Sound(calls'[d])
  BY <1>1 DEF TypeOK
<1>4. TypeOK'
  BY <1>2, <1>3 DEF TypeOK
<1>5. Documents'
  <2>1. /\ Exists <=> doc \in Document
        /\ Exists' <=> doc' \in Document
        /\ doc = None => ~Exists
    BY <1>1, DocumentIs, DocumentAssumption DEF Exists, RestOK
  <2>2. Exists => Exists'
    BY <2>1
  <2>3. doc' = Loading => \E d \in Call : calls'[d].at = "loading"
    <3>1. doc' = Loading => doc = Loading
      BY DocumentAssumption
    <3> QED
      BY <1>1, <3>1 DEF Documents
  <2>4. doc' # None => \A d \in Call : calls'[d].at # "lost"
    <3>1. doc' # None => doc # None
      BY <2>1
    <3> QED
      BY <1>1, <3>1 DEF Documents
  <2>5. \A d \in Call : calls'[d].at \in {"opening", "reopening"} => Exists'
    BY <1>1, <2>2 DEF Documents
  <2>6. \A d \in Call : calls'[d].at = "create" =>
          doc' = None /\ \A e \in Call : calls'[e].at = "create" => e = d
    BY <1>1, <2>1 DEF Documents
  <2> QED
    BY <2>3, <2>4, <2>5, <2>6 DEF Documents
<1> QED
  BY <1>2, <1>4, <1>5 DEF Basic

LEMMA BasicJumpEnd ==
  ASSUME Basic, NEW c \in Call, calls[c].at \in Elsewhere \ {"loading"},
         NEW how, End(c, calls, queue, how),
         doc' = doc \/ (Exists /\ doc' \in Document),
         UNCHANGED <<store, undone, replaced, strayed>>
  PROVE  Basic'
<1>1. TypeOK /\ RestOK /\ calls \in [Call -> Handler]
  BY DEF Basic, TypeOK
<1>2. /\ calls' \in [Call -> Handler] /\ calls'[c] = Idle
      /\ \A d \in Call \ {c} : calls'[d] = calls[d]
      /\ queue' = queue /\ left' = left /\ overlapped' = overlapped
      /\ popup' \in Popup \cup {None} /\ behind' \in BOOLEAN
  BY <1>1, EndType
<1>3. RestOK'
  BY <1>1, <1>2 DEF RestOK
<1>4. Sound(calls'[c]) /\ calls'[c].at = "idle"
  BY <1>2, StoreTypes
<1> QED
  BY <1>2, <1>3, <1>4, BasicJump

LEMMA MicrophoneOpenedBasic ==
  ASSUME Basic, NEW c \in Call, MicrophoneOpened(c)
  PROVE  /\ Basic' /\ Exists /\ calls[c].at \in {"opening", "reopening"}
         /\ calls[c].action.value \in Device
         /\ doc' \in Document /\ doc'.selfMuted = doc.selfMuted /\ doc'.micMuted = doc.micMuted
         /\ doc'.monitorMuted = doc.monitorMuted /\ doc'.active = calls[c].action.value
         /\ \/ /\ calls[c].at = "opening" /\ calls[c].action.kind = "add"
               /\ Now(c, "capture", calls[c].action, calls[c].was)
               /\ queue' = Request(queue, "document", c) /\ popup' = Refreshed(popup)
               /\ UNCHANGED <<left, overlapped, behind>>
            \/ /\ calls[c].at = "opening" => calls[c].action.kind = "device"
               /\ \E how \in {"added", "told"} : End(c, calls, queue, how)
         /\ UNCHANGED <<store, undone, replaced, strayed>>
<1>1. /\ calls[c].at \in {"opening", "reopening"}
      /\ doc' = [doc EXCEPT !.device = calls[c].action.value, !.active = calls[c].action.value]
      /\ UNCHANGED <<store, undone, replaced, strayed>>
  BY DEF MicrophoneOpened
<1>2. Exists /\ doc \in Document /\ calls[c].action.value \in Device
      /\ calls[c].action.kind \in {"device", "add"}
  BY <1>1, BasicFacts, DocumentIs DEF Basic, Documents, Sound, KindsAt
<1>3. /\ doc' \in Document /\ doc'.selfMuted = doc.selfMuted /\ doc'.micMuted = doc.micMuted
      /\ doc'.monitorMuted = doc.monitorMuted /\ doc'.active = calls[c].action.value
  <2> DEFINE d == calls[c].action.value
  <2>1. d \in Device /\ doc' = [doc EXCEPT !.device = d, !.active = d]
    BY <1>1, <1>2
  <2> SUFFICES /\ doc' \in Document /\ doc'.selfMuted = doc.selfMuted /\ doc'.micMuted = doc.micMuted
               /\ doc'.monitorMuted = doc.monitorMuted /\ doc'.active = d
    OBVIOUS
  <2> HIDE DEF d
  <2> QED
    BY <1>2, <2>1 DEF Document
<1>4. /\ "capture" \in PlacesOf["document"] /\ "document" \in Service /\ "capture" \in Place
      /\ calls[c].at \in Elsewhere \ {"loading"}
  BY <1>1 DEF PlacesOf, Service, Place, Elsewhere
<1>5. CASE calls[c].at = "opening" /\ calls[c].action.kind = "add"
  <2>1. /\ calls' = [calls EXCEPT ![c].at = "capture"]
        /\ queue' = Request(queue, "document", c) /\ popup' = Refreshed(popup)
        /\ UNCHANGED <<left, overlapped, behind>>
    BY <1>5 DEF MicrophoneOpened
  <2>2. Now(c, "capture", calls[c].action, calls[c].was)
    BY <1>4, <2>1, BasicFacts, NowAt
  <2>3. Sound(calls'[c])
    BY <1>2, <1>5, <2>2 DEF Now, Sound, KindsAt
  <2>4. popup' \in Popup \cup {None}
    BY <2>1, BasicFacts, RefreshedType DEF RestOK
  <2>5. RestOK'
    BY <1>1, <1>3, <2>1, <2>4, BasicFacts DEF RestOK
  <2>6. Basic'
    BY <1>2, <1>3, <1>4, <2>1, <2>2, <2>3, <2>5, BasicJump DEF Now
  <2> QED
    BY <1>1, <1>2, <1>3, <1>5, <2>1, <2>2, <2>6
<1>6. CASE ~(calls[c].at = "opening" /\ calls[c].action.kind = "add")
  <2>1. End(c, calls, queue, IF calls[c].action.kind = "add" THEN "added" ELSE "told")
    BY <1>6 DEF MicrophoneOpened
  <2>2. PICK how \in {"added", "told"} : End(c, calls, queue, how)
    BY <2>1
  <2>3. Basic'
    BY <1>1, <1>2, <1>3, <1>4, <2>2, BasicJumpEnd
  <2> QED
    BY <1>1, <1>2, <1>3, <1>6, <2>2, <2>3
<1> QED
  BY <1>5, <1>6

LEMMA FailedBasic ==
  ASSUME Basic, NEW c \in Call, Failed(c)
  PROVE  /\ Basic' /\ calls[c].at \in {"opening", "reopening", "lost"}
         /\ \/ /\ calls[c].action.kind = "add"
               /\ \E how : End(c, calls, queue, how)
            \/ /\ calls[c].action.kind \in Told
               /\ Now(c, "undo", calls[c].action, calls[c].was)
               /\ queue' = Request(queue, "storage", c)
               /\ popup' \in {Refreshed(popup), popup}
               /\ UNCHANGED <<left, overlapped, behind>>
         /\ UNCHANGED <<store, doc, undone, replaced, strayed>>
<1>1. /\ calls[c].at \in {"opening", "reopening", "lost"}
      /\ UNCHANGED <<store, doc, undone, replaced, strayed>>
  BY DEF Failed
<1>2. /\ "undo" \in PlacesOf["storage"] /\ "storage" \in Service /\ "undo" \in Place
      /\ calls[c].at \in Elsewhere \ {"loading"}
  BY <1>1 DEF PlacesOf, Service, Place, Elsewhere
<1>3. calls[c].action.kind \in Told \cup {"add"}
  BY <1>1, BasicFacts DEF KindsAt, Told
<1>4. CASE calls[c].action.kind = "add"
  <2>1. PICK how : End(c, calls, queue, how)
    BY <1>4 DEF Failed
  <2>2. Basic'
    BY <1>1, <1>2, <2>1, BasicJumpEnd
  <2> QED
    BY <1>1, <1>4, <2>1, <2>2
<1>5. CASE calls[c].action.kind \in Told
  <2>1. /\ calls' = [calls EXCEPT ![c].at = "undo"]
        /\ queue' = Request(queue, "storage", c)
        /\ popup' \in {Refreshed(popup), popup}
        /\ UNCHANGED <<left, overlapped, behind>>
    BY <1>5 DEF Failed, Told, Switch
  <2>2. Now(c, "undo", calls[c].action, calls[c].was)
    BY <1>2, <2>1, BasicFacts, NowAt
  <2>3. calls'[c].at = "undo" /\ Sound(calls'[c])
    BY <1>5, <2>2, BasicFacts DEF Now, Sound, KindsAt
  <2>4. popup' \in Popup \cup {None}
    BY <2>1, BasicFacts, RefreshedType DEF RestOK
  <2>5. RestOK'
    BY <1>1, <2>1, <2>4, BasicFacts DEF RestOK
  <2>6. Basic'
    BY <1>1, <1>2, <2>1, <2>2, <2>3, <2>5, BasicJump DEF Now
  <2> QED
    BY <1>1, <1>5, <2>1, <2>2, <2>6
<1> QED
  BY <1>3, <1>4, <1>5

(* The document is closed: who waits for it is lost.                        *)
Waits(c) ==
  \/ \E i \in DOMAIN queue["document"] : queue["document"][i] = c
  \/ calls[c].at \in {"loading", "opening", "reopening"}

LEMMA RejectedDoes ==
  ASSUME Basic
  PROVE  /\ Rejected \in [Call -> Handler]
         /\ \A c \in Call : /\ Waits(c) => Rejected[c].at = "lost"
                            /\ ~Waits(c) => Rejected[c] = calls[c]
                            /\ Rejected[c].action = calls[c].action /\ Rejected[c].was = calls[c].was
                            /\ Sound(Rejected[c])
         /\ \A c \in Call : Waits(c) =>
              calls[c].at \in PlacesOf["document"] \cup {"loading", "opening", "reopening"}
<1>1. calls \in [Call -> Handler] /\ "lost" \in Place /\ "document" \in Service
  BY DEF Basic, TypeOK, Place, Elsewhere, Service
<1>2. ASSUME NEW h \in Handler
      PROVE  LET g == [h EXCEPT !.at = "lost"] IN
             g \in Handler /\ g.at = "lost" /\ g.action = h.action /\ g.was = h.was
  BY <1>1 DEF Handler
<1>3. Rejected = [c \in Call |-> IF Waits(c) THEN [calls[c] EXCEPT !.at = "lost"] ELSE calls[c]]
  BY DEF Rejected, Waits
<1>4. ASSUME NEW c \in Call
      PROVE  /\ Rejected[c] \in Handler
             /\ Waits(c) => Rejected[c].at = "lost"
             /\ ~Waits(c) => Rejected[c] = calls[c]
             /\ Rejected[c].action = calls[c].action /\ Rejected[c].was = calls[c].was
  <2>1. calls[c] \in Handler /\ Rejected[c] = IF Waits(c) THEN [calls[c] EXCEPT !.at = "lost"] ELSE calls[c]
    BY <1>1, <1>3
  <2> QED
    BY <1>2, <2>1
<1>5. ASSUME NEW c \in Call, Waits(c)
      PROVE  calls[c].at \in PlacesOf["document"] \cup {"loading", "opening", "reopening"}
  <2>1. ASSUME NEW i \in DOMAIN queue["document"], queue["document"][i] = c
        PROVE  calls[c].at \in PlacesOf["document"]
    BY <1>1, <2>1 DEF Basic, Queued
  <2> QED
    BY <1>5, <2>1 DEF Waits
<1>6. ASSUME NEW c \in Call
      PROVE  Sound(Rejected[c])
  <2>1. CASE ~Waits(c)
    BY <1>4, <2>1, BasicFacts
  <2>2. CASE Waits(c)
    <3>1. calls[c].at \in {"ask", "putSelf", "putMic", "putMonitor", "ensureMic", "capture",
                           "loading", "opening", "reopening"}
      BY <1>5, <2>2 DEF PlacesOf
    <3>2. calls[c].action.kind \in KindsAt("lost") /\ Sound(calls[c])
      BY <3>1, BasicFacts DEF KindsAt, Told
    <3> QED
      BY <1>4, <2>2, <3>2 DEF Sound
  <2> QED
    BY <2>1, <2>2
<1>7. Rejected \in [Call -> Handler]
  BY <1>3, <1>4
<1> QED
  BY <1>4, <1>5, <1>6, <1>7

(* The queues afterwards; c asked for it, and is answered.                  *)
LEMMA CutQueue ==
  ASSUME NEW a \in [Service -> Seq(Call)], NEW q, q = [a EXCEPT !.document = <<>>]
  PROVE  /\ q \in [Service -> Seq(Call)] /\ q["document"] = <<>>
         /\ q["browser"] = a["browser"] /\ q["storage"] = a["storage"]
<1>1. q = [a EXCEPT !["document"] = <<>>]
  OBVIOUS
<1>3. <<>> \in Seq(Call)
  OBVIOUS
<1>2. {"storage", "browser", "document"} \subseteq Service
  BY DEF Service
<1> QED
  BY <1>1, <1>2, <1>3

Closed(q) ==
  /\ q \in [Service -> Seq(Call)] /\ q["document"] = <<>>
  /\ q["browser"] = Tail(queue["browser"]) /\ q["storage"] = queue["storage"]

LEMMA ClosedIs ==
  ASSUME Basic, NEW c \in Call, Turn("browser", c, "close")
  PROVE  Closed([Answered("browser") EXCEPT !.document = <<>>])
<1>1. /\ {"storage", "browser", "document"} = Service /\ "close" \in PlacesOf["browser"]
      /\ queue \in [Service -> Seq(Call)] /\ Queued(queue, calls)
  BY DEF Service, PlacesOf, Basic, TypeOK
<1>2. Answered("browser") \in [Service -> Seq(Call)]
  BY <1>1, AnsweredQueue
<1>3. Answered("browser")["browser"] = Tail(queue["browser"])
      /\ Answered("browser")["storage"] = queue["storage"]
  BY <1>1 DEF Answered
<1> QED
  BY <1>2, <1>3, CutQueue DEF Closed

LEMMA ClosedQueue ==
  ASSUME Basic, NEW c \in Call, Turn("browser", c, "close"), NEW q, Closed(q),
         NEW h, \A d \in Call \ {c} : h[d] = Rejected[d]
  PROVE  /\ Queued(q, h) /\ Absent(q, c) /\ ~Waits(c)
         /\ \A s \in {"storage", "browser"} : \A i \in DOMAIN q[s] :
              q[s][i] \in Call \ {c} /\ ~Waits(q[s][i]) /\ h[q[s][i]] = calls[q[s][i]]
<1>1. /\ {"storage", "browser", "document"} = Service /\ "close" \in PlacesOf["browser"]
      /\ calls[c].at = "close"
      /\ queue \in [Service -> Seq(Call)] /\ Queued(queue, calls)
  BY DEF Service, PlacesOf, Basic, TypeOK, Turn
<1> DEFINE a == Answered("browser")
<1>2. a \in [Service -> Seq(Call)] /\ Queued(a, calls) /\ Absent(a, c)
  BY <1>1, AnsweredQueue
<1>3. /\ q \in [Service -> Seq(Call)] /\ q["document"] = <<>>
      /\ q["browser"] = a["browser"] /\ q["storage"] = a["storage"]
  BY <1>1 DEF Answered, Closed
<1> HIDE DEF a
<1>4. \A s \in Service : s = "document" \/ (s # "document" /\ q[s] = a[s])
  BY <1>1, <1>3
<1>5. ASSUME NEW s \in Service, s # "document", NEW i \in DOMAIN q[s]
      PROVE  /\ q[s][i] \in Call \ {c} /\ calls[q[s][i]].at \in PlacesOf[s]
             /\ \A j \in DOMAIN q[s] : q[s][i] = q[s][j] => i = j
             /\ ~Waits(q[s][i]) /\ h[q[s][i]] = calls[q[s][i]]
  <2>1. q[s] = a[s] /\ q[s] \in Seq(Call)
    BY <1>2, <1>3, <1>4, <1>5
  <2>2. q[s][i] \in Call
    BY <2>1
  <2>3. q[s][i] # c /\ calls[q[s][i]].at \in PlacesOf[s]
        /\ \A j \in DOMAIN q[s] : q[s][i] = q[s][j] => i = j
    BY <1>2, <2>1 DEF Queued, Absent
  <2>4. ~Waits(q[s][i])
    <3>1. calls[q[s][i]].at \notin PlacesOf["document"]
      BY <1>1, <1>5, <2>3, Places
    <3>2. calls[q[s][i]].at \notin {"loading", "opening", "reopening"}
      BY <2>3, Places DEF Elsewhere
    <3> QED
      BY <2>2, <3>1, <3>2, RejectedDoes
  <2> QED
    BY <2>2, <2>3, <2>4, RejectedDoes
<1>6. \A s \in Service : s # "document" => \A i \in DOMAIN q[s] :
         /\ q[s][i] \in Call \ {c} /\ calls[q[s][i]].at \in PlacesOf[s]
         /\ \A j \in DOMAIN q[s] : q[s][i] = q[s][j] => i = j
         /\ ~Waits(q[s][i]) /\ h[q[s][i]] = calls[q[s][i]]
  BY <1>5
<1>7. \A i \in DOMAIN q["document"] : FALSE
  BY <1>3
<1>8. Queued(q, h)
  BY <1>6, <1>7, Zenon DEF Queued
<1>9. Absent(q, c)
  BY <1>6, <1>7, Zenon DEF Absent
<1>10. ~Waits(c)
  BY <1>1, RejectedDoes DEF PlacesOf
<1>11. \A s \in {"storage", "browser"} : s \in Service /\ s # "document"
  BY <1>1
<1> QED
  BY <1>6, <1>8, <1>9, <1>10, <1>11

(* c ends or asks the storage, and there is no document any more.           *)
LEMMA BasicClosed ==
  ASSUME Basic, NEW c \in Call, Turn("browser", c, "close"), doc' = None,
         calls' \in [Call -> Handler], Sound(calls'[c]), calls'[c].at \in {"idle", "wipe"},
         \A d \in Call \ {c} : calls'[d] = Rejected[d],
         queue' \in [Service -> Seq(Call)], Queued(queue', calls'),
         Exists \/ doc' = None, RestOK'
  PROVE  Basic'
<1>1. TypeOK'
  BY RejectedDoes DEF TypeOK
<1>2. ~Exists'
  BY DEF Exists
<1>3. doc' # Loading
  BY DocumentAssumption
<1>4. \A d \in Call \ {c} : \/ calls'[d].at = "lost"
                            \/ calls'[d] = calls[d] /\ calls'[d].at \notin {"loading", "opening", "reopening"}
  BY RejectedDoes DEF Waits
<1>5. \A d \in Call : calls'[d].at \notin {"opening", "reopening"}
  BY <1>4
<1>6. \A d, e \in Call : calls'[d].at = "create" /\ calls'[e].at = "create" => e = d
  <2>1. \A d \in Call : calls'[d].at = "create" => calls[d].at = "create"
    BY <1>4
  <2> QED
    BY <2>1 DEF Basic, Documents
<1>7. Documents'
  BY <1>3, <1>5, <1>6 DEF Documents
<1> QED
  BY <1>1, <1>7 DEF Basic

LEMMA StopAllBasic ==
  ASSUME Basic, NEW c \in Call, StopAll(c)
  PROVE  /\ Basic' /\ Turn("browser", c, "close") /\ calls[c].action.kind = "stop"
         /\ \/ /\ Exists /\ doc' = None
               /\ End(c, Rejected, [Answered("browser") EXCEPT !.document = <<>>], "told")
            \/ /\ ~Exists /\ doc' = doc
               /\ End(c, calls, Answered("browser"), "silent")
         /\ UNCHANGED <<store, undone, replaced, strayed>>
<1>1. /\ Turn("browser", c, "close") /\ calls[c].action.kind = "stop"
      /\ UNCHANGED <<store, undone, replaced, strayed>>
  BY DEF StopAll
<1>2. "close" \in PlacesOf["browser"] /\ "browser" \in Service
  BY DEF PlacesOf, Service
<1>3. store' \in Store /\ replaced' \in BOOLEAN /\ undone' \in BOOLEAN /\ strayed' \in BOOLEAN
  BY <1>1, BasicFacts DEF RestOK
<1>4. CASE Exists
  <2> DEFINE q == [Answered("browser") EXCEPT !.document = <<>>]
  <2>1. doc' = None /\ End(c, Rejected, q, "told")
    BY <1>4 DEF StopAll
  <2>2. Rejected \in [Call -> Handler] /\ TypeOK
    BY RejectedDoes DEF Basic
  <2>3. q = [Answered("browser") EXCEPT !.document = <<>>] /\ Closed(q)
    BY <1>1, ClosedIs
  <2> HIDE DEF q
  <2>4. /\ calls' \in [Call -> Handler] /\ calls'[c] = Idle
        /\ \A d \in Call \ {c} : calls'[d] = Rejected[d]
        /\ queue' = q /\ left' = left /\ overlapped' = overlapped
        /\ popup' \in Popup \cup {None} /\ behind' \in BOOLEAN
    BY <2>1, <2>2, EndType
  <2>5. q \in [Service -> Seq(Call)] /\ Queued(q, calls')
    BY <1>1, <2>3, <2>4, ClosedQueue DEF Closed
  <2>6. Sound(calls'[c]) /\ calls'[c].at = "idle"
    BY <2>4, StoreTypes
  <2>7. RestOK'
    BY <1>1, <1>3, <2>1, <2>4, BasicFacts DEF RestOK
  <2>8. Basic'
    BY <1>1, <2>1, <2>4, <2>5, <2>6, <2>7, BasicClosed
  <2> QED
    BY <1>1, <1>4, <2>1, <2>3, <2>8
<1>5. CASE ~Exists
  <2>1. doc' = doc /\ End(c, calls, Answered("browser"), "silent")
    BY <1>5 DEF StopAll
  <2>2. Basic'
    BY <1>1, <1>2, <1>3, <2>1, BasicEnd
  <2> QED
    BY <1>1, <1>5, <2>1, <2>2
<1> QED
  BY <1>4, <1>5

LEMMA CloseDocumentBasic ==
  ASSUME Basic, NEW c \in Call, CloseDocument(c)
  PROVE  /\ Basic' /\ Turn("browser", c, "close") /\ calls[c].action.kind = "clear" /\ doc' = None
         /\ calls'[c].at = "wipe" /\ calls'[c].action = calls[c].action
         /\ \A d \in Call \ {c} : calls'[d] = Rejected[d]
         /\ queue' = Request([Answered("browser") EXCEPT !.document = <<>>], "storage", c)
         /\ UNCHANGED <<store, popup, left, overlapped, undone, replaced, strayed, behind>>
<1> DEFINE q == [Answered("browser") EXCEPT !.document = <<>>]
<1>1. /\ Turn("browser", c, "close") /\ calls[c].action.kind = "clear" /\ doc' = None
      /\ calls' = [Rejected EXCEPT ![c].at = "wipe"]
      /\ queue' = Request(q, "storage", c)
      /\ UNCHANGED <<store, popup, left, overlapped, undone, replaced, strayed, behind>>
  BY DEF CloseDocument
<1>2. q = [Answered("browser") EXCEPT !.document = <<>>] /\ Closed(q)
  BY <1>1, ClosedIs
<1> HIDE DEF q
<1>3. /\ Rejected \in [Call -> Handler] /\ Rejected[c].action = calls[c].action
      /\ "wipe" \in Place /\ "wipe" \in PlacesOf["storage"] /\ "storage" \in Service
  BY RejectedDoes DEF Place, PlacesOf, Service
<1>4. /\ calls' \in [Call -> Handler] /\ calls'[c].at = "wipe" /\ calls'[c].action = calls[c].action
      /\ \A d \in Call \ {c} : calls'[d] = Rejected[d]
  <2> DEFINE h == [Rejected[c] EXCEPT !.at = "wipe"]
  <2>1. h \in Handler /\ h.at = "wipe" /\ h.action = Rejected[c].action
    BY <1>3 DEF Handler
  <2>2. calls' = [Rejected EXCEPT ![c] = h]
    BY <1>1
  <2> HIDE DEF h
  <2> QED
    BY <1>3, <2>1, <2>2
<1>5. Sound(calls'[c])
  BY <1>1, <1>4 DEF Sound, KindsAt
<1>6. /\ q \in [Service -> Seq(Call)] /\ Queued(q, calls') /\ Absent(q, c)
  BY <1>1, <1>2, <1>4, ClosedQueue DEF Closed
<1>7. queue' \in [Service -> Seq(Call)] /\ Queued(queue', calls')
  <2>1. calls'[c].at \in PlacesOf["storage"] /\ (\A d \in Call \ {c} : calls'[d] = calls'[d])
    BY <1>3, <1>4
  <2> QED
    BY <1>1, <1>3, <1>6, <2>1, RequestedQueue
<1>8. RestOK'
  BY <1>1, BasicFacts DEF RestOK
<1>9. Basic'
  BY <1>1, <1>4, <1>5, <1>7, <1>8, BasicClosed
<1> QED
  BY <1>1, <1>2, <1>4, <1>9

-----------------------------------------------------------------------------
(* The user, and the popup.                                                *)

Selecting == {Action("select", c, FALSE) : c \in Channel}
Switching == {Action(k, c, m) : k \in {"mic", "monitor"}, c \in Channel, m \in BOOLEAN}
SwitchingAll == {Action(k, None, m) : k \in {"allMonitor", "self"}, m \in BOOLEAN}
Applying == {Action("device", d, FALSE) : d \in Device}
Others == {Action(k, None, FALSE) : k \in {"toggle", "add", "clear", "stop", "import"}}

LEMMA AskedIs == Asked = Selecting \cup Switching \cup SwitchingAll \cup Applying \cup Others
  BY DEF Asked, Selecting, Switching, SwitchingAll, Applying, Others

LEMMA AskedActions ==
  ASSUME NEW a \in Asked
  PROVE  /\ a \in ActionType
         /\ a.kind \in {"select", "mic", "monitor"} => a.value \in Channel
         /\ a.kind = "device" => a.value \in Device
<1>1. a \in Selecting \/ a \in Switching \/ a \in SwitchingAll \/ a \in Applying \/ a \in Others
  BY AskedIs
<1>2. ASSUME NEW k \in Kind, NEW v \in Channel \cup Device \cup {None}, NEW m \in BOOLEAN,
             a = Action(k, v, m)
      PROVE  a \in ActionType /\ a.kind = k /\ a.value = v
  BY <1>2 DEF Action, ActionType
<1>3. {"select", "mic", "monitor", "allMonitor", "self", "device", "toggle", "add", "clear",
       "stop", "import"} \subseteq Kind
  BY DEF Kind
<1>4. CASE a \in Selecting
  <2>1. PICK c \in Channel : a = Action("select", c, FALSE)
    BY <1>4 DEF Selecting
  <2> QED
    BY <1>2, <1>3, <2>1
<1>5. CASE a \in Switching
  <2>1. PICK k \in {"mic", "monitor"}, c \in Channel, m \in BOOLEAN : a = Action(k, c, m)
    BY <1>5 DEF Switching
  <2> QED
    BY <1>2, <1>3, <2>1
<1>6. CASE a \in SwitchingAll
  <2>1. PICK k \in {"allMonitor", "self"}, m \in BOOLEAN : a = Action(k, None, m)
    BY <1>6 DEF SwitchingAll
  <2> QED
    BY <1>2, <1>3, <2>1
<1>7. CASE a \in Applying
  <2>1. PICK d \in Device : a = Action("device", d, FALSE)
    BY <1>7 DEF Applying
  <2> QED
    BY <1>2, <1>3, <2>1
<1>8. CASE a \in Others
  <2>1. PICK k \in {"toggle", "add", "clear", "stop", "import"} : a = Action(k, None, FALSE)
    BY <1>8 DEF Others
  <2> QED
    BY <1>2, <1>3, <2>1
<1> QED
  BY <1>1, <1>4, <1>5, <1>6, <1>7, <1>8

(* An action is taken up by a handler that was idle; the popup may note it. *)
SameShown ==
  \/ popup' = popup
  \/ /\ popup # None /\ popup' \in Popup
     /\ popup'.shown = popup.shown /\ popup'.asked = popup.asked

TakenUp(c, a) ==
  /\ a \in Asked /\ calls[c].at = "idle" /\ calls[c].action.kind = "stop" /\ SameShown
  /\ Now(c, StartsAt(a.kind), a, DefaultStore)
  /\ queue' = Request(queue, IF a.kind = "stop" THEN "browser" ELSE "storage", c)
  /\ overlapped' = overlapped \cup (Uses(a) \cap UNION {Uses(calls[d].action) : d \in Running})
  /\ UNCHANGED <<store, doc, undone, replaced, strayed, behind>>

LEMMA BeginBasic ==
  ASSUME Basic, NEW c \in Call, NEW a \in Asked, Begin(c, a), SameShown
  PROVE  Basic' /\ TakenUp(c, a)
<1> DEFINE service == IF a.kind = "stop" THEN "browser" ELSE "storage"
           h == [at |-> StartsAt(a.kind), action |-> a, was |-> DefaultStore]
<1>1. /\ left > 0 /\ left' = left - 1 /\ calls' = [calls EXCEPT ![c] = h]
      /\ queue' = Request(queue, service, c)
      /\ overlapped' = overlapped \cup (Uses(a) \cap UNION {Uses(calls[d].action) : d \in Running})
      /\ UNCHANGED <<store, doc, undone, replaced, strayed, behind>>
  BY DEF Begin
<1>2. calls[c].at = "idle" /\ calls[c].action.kind = "stop"
  <2>1. c \notin Running
    <3>1. \E d \in Call : d \notin Running
      BY DEF Begin, Running
    <3> QED
      BY <3>1 DEF Begin
  <2>2. calls[c].at = "idle"
    BY <2>1 DEF Running
  <2> QED
    BY <2>2, BasicFacts DEF KindsAt
<1>3. /\ a \in ActionType
      /\ a.kind \in {"select", "mic", "monitor"} => a.value \in Channel
      /\ a.kind = "device" => a.value \in Device
  BY AskedActions
<1>4. /\ service \in Service /\ StartsAt(a.kind) \in PlacesOf[service] /\ StartsAt(a.kind) \in Place
      /\ StartsAt(a.kind) \notin {"ensureMic", "opening", "reopening", "lost", "create"}
      /\ a.kind \in KindsAt(StartsAt(a.kind))
  <2>1. a.kind \in Kind
    BY <1>3, ActionFields
  <2>2. /\ "storage" \in Service /\ "browser" \in Service
        /\ {"toggle", "add", "clear", "write", "read"} \subseteq PlacesOf["storage"]
        /\ "close" \in PlacesOf["browser"]
        /\ {"toggle", "add", "clear", "write", "read", "close"} \subseteq Place
    BY DEF Service, PlacesOf, Place
  <2>3. CASE a.kind \in {"toggle", "add", "clear"}
    BY <2>2, <2>3 DEF StartsAt, KindsAt
  <2>4. CASE a.kind \in {"stop", "import"}
    BY <2>2, <2>4 DEF StartsAt, KindsAt
  <2>5. CASE a.kind \in Told \cup {"select"}
    <3>1. StartsAt(a.kind) = "read" /\ a.kind # "stop"
      BY <2>5 DEF StartsAt, Told, Switch
    <3> QED
      BY <2>2, <2>5, <3>1 DEF KindsAt
  <2> QED
    BY <2>1, <2>3, <2>4, <2>5 DEF Kind, Told, Switch
<1>5. h \in Handler /\ Sound(h) /\ h.at = StartsAt(a.kind) /\ h.action = a /\ h.was = DefaultStore
  BY <1>3, <1>4, StoreTypes DEF Handler, ActionType, Sound
<1>6. Now(c, StartsAt(a.kind), a, DefaultStore)
  <2> HIDE DEF h
  <2> QED
    BY <1>1, <1>5, BasicFacts DEF Now
<1>7. TakenUp(c, a)
  BY <1>1, <1>2, <1>6 DEF TakenUp
<1> HIDE DEF h
<1>8. calls'[c] = h /\ calls' \in [Call -> Handler] /\ \A d \in Call \ {c} : calls'[d] = calls[d]
  BY <1>1, <1>5, BasicFacts
<1>9. RestOK'
  <2>1. popup' \in Popup \cup {None}
    BY BasicFacts DEF SameShown, RestOK
  <2>2. left' \in Nat
    BY <1>1, BasicFacts DEF RestOK
  <2>3. overlapped' \in SUBSET {"config", "self"}
    <3>1. Uses(a) \subseteq {"config", "self"}
      BY DEF Uses
    <3> QED
      BY <1>1, <3>1, BasicFacts DEF RestOK
  <2> QED
    BY <1>1, <2>1, <2>2, <2>3, BasicFacts DEF RestOK
<1> HIDE DEF service
<1>10. calls[c].at \in Elsewhere \ {"loading"}
  BY <1>2 DEF Elsewhere
<1>11. Basic'
  BY <1>1, <1>4, <1>5, <1>8, <1>9, <1>10, BasicJump
<1> QED
  BY <1>7, <1>11

LEMMA UserBasic ==
  ASSUME Basic, NEW c \in Call,
         \/ \E action \in Asked : Click(c, action)
         \/ ImportSettings(c) \/ Command(c)
         \/ \E device \in Device : ApplySelectedDevice(c, device)
  PROVE  Basic' /\ \E a \in Asked : TakenUp(c, a)
<1>1. popup \in Popup \cup {None}
  BY BasicFacts DEF RestOK
<1>2. ASSUME NEW a \in Asked, Click(c, a) PROVE Basic' /\ TakenUp(c, a)
  <2>1. popup # None /\ popup' = [popup EXCEPT !.busy = c] /\ popup \in Popup /\ Begin(c, a)
    BY <1>1, <1>2 DEF Click
  <2>2. popup' \in Popup /\ popup'.shown = popup.shown /\ popup'.asked = popup.asked
    BY <2>1 DEF Popup
  <2>4. SameShown
    BY <2>1, <2>2 DEF SameShown
  <2> QED
    BY <2>1, <2>4, BeginBasic
<1>3. ASSUME ImportSettings(c) PROVE Basic' /\ \E a \in Asked : TakenUp(c, a)
  <2>1. /\ popup # None /\ popup' = [popup EXCEPT !.file = c] /\ popup \in Popup
        /\ Begin(c, Action("import", None, FALSE))
    BY <1>1, <1>3 DEF ImportSettings
  <2>2. popup' \in Popup /\ popup'.shown = popup.shown /\ popup'.asked = popup.asked
    BY <2>1 DEF Popup
  <2>4. SameShown
    BY <2>1, <2>2 DEF SameShown
  <2>5. Action("import", None, FALSE) \in Others
    BY DEF Others
  <2> QED
    BY <2>1, <2>4, <2>5, AskedIs, BeginBasic
<1>4. ASSUME Command(c) PROVE Basic' /\ \E a \in Asked : TakenUp(c, a)
  <2>1. PICK kind \in {"toggle", "add"} : Begin(c, Action(kind, None, FALSE))
    BY <1>4 DEF Command
  <2>2. SameShown
    BY <1>4 DEF Command, SameShown
  <2>3. Action(kind, None, FALSE) \in Others
    BY DEF Others
  <2> QED
    BY <2>1, <2>2, <2>3, AskedIs, BeginBasic
<1>5. ASSUME NEW device \in Device, ApplySelectedDevice(c, device)
      PROVE  Basic' /\ \E a \in Asked : TakenUp(c, a)
  <2>1. Begin(c, Action("device", device, FALSE))
    BY <1>5 DEF ApplySelectedDevice
  <2>2. SameShown
    BY <1>5 DEF ApplySelectedDevice, SameShown
  <2>3. Action("device", device, FALSE) \in Applying
    BY DEF Applying
  <2> QED
    BY <2>1, <2>2, <2>3, AskedIs, BeginBasic
<1> QED
  BY <1>2, <1>3, <1>4, <1>5

(* Steps of the popup only.                                                 *)
LEMMA StillBasic ==
  ASSUME Basic, popup' \in Popup \cup {None}, behind' \in BOOLEAN,
         UNCHANGED <<store, doc, calls, queue, left, overlapped, undone, replaced, strayed>>
  PROVE  Basic'
<1>1. TypeOK'
  BY DEF Basic, TypeOK, RestOK
<1>2. Queued(queue', calls') /\ Documents'
  BY DEF Basic, Documents, Exists
<1> QED
  BY <1>1, <1>2 DEF Basic

LEMMA PopupBasic ==
  ASSUME Basic, OpenPopup \/ ClosePopup \/ Render
  PROVE  Basic'
<1>1. popup \in Popup \cup {None} /\ store \in Store /\ behind \in BOOLEAN
  BY DEF Basic, TypeOK, RestOK
<1>2. CASE OpenPopup
  <2>1. popup' \in Popup
    BY <1>2 DEF OpenPopup, Popup
  <2> QED
    BY <1>2, <2>1, StillBasic DEF OpenPopup
<1>3. CASE ClosePopup
  BY <1>1, <1>3, StillBasic DEF ClosePopup
<1>4. CASE Render
  <2>1. popup \in Popup /\ popup.asked \in 0 .. 2 /\ popup.asked > 0
    BY <1>1, <1>4 DEF Render, Popup
  <2> DEFINE n == popup.asked - 1
  <2>2. n \in 0 .. 2
    BY <2>1
  <2>3. popup' = [popup EXCEPT !.shown = store, !.asked = n]
    BY <1>4 DEF Render
  <2> HIDE DEF n
  <2>4. popup' \in Popup
    BY <1>1, <2>1, <2>2, <2>3 DEF Popup
  <2> QED
    BY <1>4, <2>4, StillBasic DEF Render
<1> QED
  BY <1>2, <1>3, <1>4

LEMMA BasicInit ==
  ASSUME Init
  PROVE  Basic
<1>1. store \in Store
  BY StoreTypes DEF Init
<1>2. doc \in {None} \cup Document
  <2>1. /\ store.selfMuted \in BOOLEAN /\ store.device \in Device
        /\ store.config.micMuted \in Switches /\ store.config.monitorMuted \in Switches
    BY <1>1, StoreFields DEF Config
  <2> QED
    BY <2>1 DEF Init, Document
<1>3. RestOK
  BY <1>1, <1>2, SettingsAssumption DEF Init, RestOK
<1>4. calls \in [Call -> Handler] /\ \A c \in Call : calls[c] = Idle
  BY StoreTypes DEF Init
<1>5. queue \in [Service -> Seq(Call)] /\ \A s \in Service : queue[s] = <<>>
  <2>1. queue = [s \in Service |-> <<>>] /\ <<>> \in Seq(Call)
    BY DEF Init, Service
  <2> QED
    BY <2>1
<1>6. Queued(queue, calls)
  BY <1>5 DEF Queued
<1>7. Documents
  <2>1. doc # Loading
    BY <1>2, DocumentAssumption
  <2>2. \A c \in Call : calls[c].at = "idle"
    BY <1>4, StoreTypes
  <2> QED
    BY <2>1, <2>2 DEF Documents
<1>8. TypeOK
  BY <1>3, <1>4, <1>5, StoreTypes DEF TypeOK
<1> QED
  BY <1>6, <1>7, <1>8 DEF Basic

(* The types hold, whoever waits in a queue waits for that service and only *)
(* once, and those who create the document or lost it are accounted for.    *)
LEMMA BasicStep ==
  ASSUME Basic, [Next]_vars
  PROVE  Basic'
<1>1. CASE UNCHANGED vars
  BY <1>1, StillBasic DEF vars, Basic, TypeOK, RestOK
<1>2. ASSUME NEW c \in Call,
             \/ Read(c) \/ ReadToggle(c) \/ Write(c) \/ Undo(c) \/ AddTab(c) \/ GetSelfMuted(c)
             \/ GetDevice(c) \/ ReadRules(c) \/ ClearStorage(c)
      PROVE  Basic'
  BY <1>2, ReadBasic, ReadToggleBasic, WriteBasic, UndoBasic, AddTabBasic, GetSelfMutedBasic,
     GetDeviceBasic, ReadRulesBasic, ClearStorageBasic
<1>3. ASSUME NEW c \in Call,
             \/ HasDocument(c) \/ EnsureDocument(c) \/ CreateDocument(c) \/ StopAll(c)
             \/ CloseDocument(c)
      PROVE  Basic'
  BY <1>3, HasDocumentBasic, EnsureDocumentBasic, CreateDocumentBasic, StopAllBasic,
     CloseDocumentBasic
<1>4. ASSUME NEW c \in Call,
             \/ Ask(c) \/ PutSettings(c) \/ EnsureMicrophone(c) \/ CaptureTab(c)
             \/ MicrophoneOpened(c) \/ Failed(c)
      PROVE  Basic'
  BY <1>4, AskBasic, PutSettingsBasic, EnsureMicrophoneBasic, CaptureTabBasic,
     MicrophoneOpenedBasic, FailedBasic
<1>5. CASE DocumentLoaded
  BY <1>5, LoadedBasic
<1>6. CASE OpenPopup \/ ClosePopup \/ Render
  BY <1>6, PopupBasic
<1>7. ASSUME NEW c \in Call,
             \/ \E action \in Asked : Click(c, action)
             \/ ImportSettings(c) \/ Command(c)
             \/ \E device \in Device : ApplySelectedDevice(c, device)
      PROVE  Basic'
  BY <1>7, UserBasic
<1> QED
  BY <1>1, <1>2, <1>3, <1>4, <1>5, <1>6, <1>7 DEF Next, Storage, Browser, Offscreen

(* Whatever handlers overlap, each waits in one queue at most, once, and for*)
(* what its place says; one handler creates a document, and only when there *)
(* is none; while it loads somebody waits for it, a microphone is opened for*)
(* a document that exists, and who lost a document never meets the next one *)
(* (background.js:485-513, offscreen.js:321-373).                           *)
THEOREM BasicHolds == Spec => []Basic
<1>1. Init => Basic
  BY BasicInit
<1>2. Basic /\ [Next]_vars => Basic'
  BY BasicStep
<1> QED
  BY <1>1, <1>2, PTL DEF Spec

-----------------------------------------------------------------------------
(* The second invariant: who is still to be heard of.                      *)

RefreshOnly == popup' = popup \/ popup' = Refreshed(popup) \/ SameShown

LEMMA RefreshedAsked ==
  ASSUME NEW p \in Popup \cup {None}, p # None
  PROVE  Refreshed(p) \in Popup /\ Refreshed(p).asked > 0 /\ Refreshed(p).shown = p.shown
<1> DEFINE n == IF p.asked = 2 THEN 2 ELSE p.asked + 1
<1>1. p \in Popup /\ p.asked \in 0 .. 2
  BY DEF Popup
<1>2. n \in 0 .. 2 /\ n > 0
  BY <1>1
<1>3. Refreshed(p) = [p EXCEPT !.asked = n]
  BY DEF Refreshed
<1> HIDE DEF n
<1> QED
  BY <1>1, <1>2, <1>3 DEF Popup

(* Nobody that is to be heard of goes away.                                 *)
LEMMA ShowsKept ==
  ASSUME Basic, Shows, store' = store, RefreshOnly, behind' = behind,
         \A d \in Call : calls[d].at # "idle" /\ calls[d].action.kind \notin {"add", "stop"} =>
           calls'[d].at # "idle" /\ calls'[d].action.kind \notin {"add", "stop"}
  PROVE  Shows'
<1> SUFFICES ASSUME popup' # None, ~behind'
             PROVE  \/ popup'.shown = store' \/ popup'.asked > 0
                    \/ \E d \in Call : calls'[d].at # "idle" /\ calls'[d].action.kind \notin {"add", "stop"}
  BY DEF Shows, Running
<1>1. popup # None
  BY DEF RefreshOnly, Refreshed, SameShown
<1>2. popup'.asked > 0 \/ (popup'.shown = popup.shown /\ popup'.asked = popup.asked)
  BY <1>1, RefreshedAsked DEF RefreshOnly, SameShown, Basic, TypeOK, RestOK
<1>3. \/ popup.shown = store \/ popup.asked > 0
      \/ \E d \in Call : calls[d].at # "idle" /\ calls[d].action.kind \notin {"add", "stop"}
  BY <1>1 DEF Shows, Running
<1> QED
  BY <1>2, <1>3

LEMMA ShowsMove ==
  ASSUME Basic, Shows, NEW c \in Call, NEW to, NEW action, NEW was, Now(c, to, action, was),
         to # "idle",
         calls[c].at = "idle" \/ calls[c].action.kind \in {"add", "stop"}
           \/ action.kind \notin {"add", "stop"},
         store' = store \/ action.kind \notin {"add", "stop"},
         RefreshOnly, behind' = behind
  PROVE  Shows'
<1>1. calls'[c].at = to /\ calls'[c].action = action /\ \A d \in Call \ {c} : calls'[d] = calls[d]
  BY DEF Now
<1>2. CASE action.kind \notin {"add", "stop"}
  BY <1>1, <1>2 DEF Shows, Running
<1>3. CASE store' = store /\ action.kind \in {"add", "stop"}
  BY <1>1, <1>3, ShowsKept
<1> QED
  BY <1>2, <1>3

(* One that ends is heard of, or the popup is behind.                       *)
LEMMA ShowsEnd ==
  ASSUME Basic, Shows, NEW c \in Call, NEW h \in [Call -> Handler], NEW q, NEW how,
         End(c, h, q, how),
         \A d \in Call \ {c} : /\ h[d].action = calls[d].action
                               /\ calls[d].at # "idle" => h[d].at # "idle",
         calls[c].action.kind \in {"add", "stop"} => store' = store
  PROVE  Shows'
<1> SUFFICES ASSUME popup' # None, ~behind' PROVE Shows'
  BY DEF Shows
<1>1. popup \in Popup \cup {None} /\ behind \in BOOLEAN
  BY DEF Basic, TypeOK, RestOK
<1>2. /\ behind' = (behind \/ Missed(c, how))
      /\ popup' = IF Own(c) /\ how = "added" THEN None
                  ELSE IF Own(c) THEN Refreshed(GivenBack(popup, c))
                  ELSE IF how # "silent" THEN Refreshed(popup)
                  ELSE popup
  BY DEF End
<1>3. ~behind /\ ~Missed(c, how)
  BY <1>2
<1>4. CASE Own(c)
  <2>1. popup \in Popup /\ popup' = Refreshed(GivenBack(popup, c))
    BY <1>1, <1>2, <1>4 DEF Own
  <2>2. GivenBack(popup, c) \in Popup
    BY <2>1, GivenBackType
  <2>3. GivenBack(popup, c) # None
    BY <2>1 DEF Refreshed
  <2>4. popup'.asked > 0
    BY <2>1, <2>2, <2>3, RefreshedAsked
  <2> QED
    BY <2>4 DEF Shows
<1>5. CASE ~Own(c) /\ how # "silent"
  <2>1. popup' = Refreshed(popup)
    BY <1>2, <1>5
  <2>2. popup # None
    BY <2>1 DEF Refreshed
  <2>3. popup'.asked > 0
    BY <1>1, <2>1, <2>2, RefreshedAsked
  <2> QED
    BY <2>3 DEF Shows
<1>6. CASE ~Own(c) /\ how = "silent"
  <2>1. popup' = popup
    BY <1>2, <1>6
  <2>2. calls[c].action.kind \in {"add", "stop"}
    BY <1>3, <1>6, <2>1 DEF Missed
  <2>3. store' = store /\ behind' = behind
    BY <1>1, <1>2, <1>3, <2>2
  <2>4. \A d \in Call \ {c} : calls'[d] = h[d]
    BY EndType DEF Basic
  <2> QED
    BY <2>1, <2>2, <2>3, <2>4, ShowsKept DEF RefreshOnly
<1> QED
  BY <1>4, <1>5, <1>6

(* A step of one handler that ends, with the others as they were.           *)
LEMMA ShowsEnds ==
  ASSUME Basic, Shows, NEW c \in Call, NEW q, NEW how, End(c, calls, q, how),
         calls[c].action.kind \in {"add", "stop"} => store' = store
  PROVE  Shows'
<1>1. calls \in [Call -> Handler]
  BY BasicFacts
<1> QED
  BY <1>1, ShowsEnd

LEMMA ShowsStorage ==
  ASSUME Basic, Shows, NEW c \in Call,
         \/ Read(c) \/ ReadToggle(c) \/ Write(c) \/ Undo(c) \/ AddTab(c) \/ GetSelfMuted(c)
         \/ GetDevice(c) \/ ReadRules(c) \/ ClearStorage(c)
  PROVE  Shows'
<1>1. CASE Read(c)
  BY <1>1, ReadBasic, ShowsMove, Zenon DEF RefreshOnly
<1>2. CASE ReadToggle(c)
  <2>1. Action("self", None, ~store.selfMuted).kind \notin {"add", "stop"}
    BY DEF Action
  <2> QED
    BY <1>2, <2>1, ReadToggleBasic, ShowsMove DEF RefreshOnly
<1>3. CASE Write(c)
  <2>1. CASE /\ calls[c].action.kind \in {"select", "import"}
             /\ End(c, calls, Answered("storage"), "silent")
    BY <2>1, ShowsEnds
  <2>2. CASE /\ calls[c].action.kind \in Told
             /\ Now(c, "has", calls[c].action, calls[c].was)
             /\ UNCHANGED <<popup, left, overlapped, behind>>
    <3>1. calls[c].action.kind \notin {"add", "stop"}
      BY <2>2 DEF Told, Switch
    <3> QED
      BY <2>2, <3>1, ShowsMove DEF RefreshOnly
  <2> QED
    BY <1>3, <2>1, <2>2, WriteBasic
<1>4. CASE Undo(c)
  <2>1. calls[c].at = "undo" /\ End(c, calls, Answered("storage"), "silent")
    BY <1>4 DEF Undo, Turn
  <2>2. calls[c].action.kind \notin {"add", "stop"}
    BY <2>1, BasicFacts DEF KindsAt, Told, Switch
  <2> QED
    BY <2>1, <2>2, ShowsEnds
<1>5. CASE AddTab(c)
  BY <1>5, AddTabBasic, ShowsMove DEF RefreshOnly
<1>6. CASE GetSelfMuted(c)
  BY <1>6, GetSelfMutedBasic, ShowsMove DEF RefreshOnly
<1>7. CASE GetDevice(c)
  BY <1>7, GetDeviceBasic, ShowsMove DEF RefreshOnly
<1>8. CASE ReadRules(c)
  BY <1>8, ReadRulesBasic, ShowsMove DEF RefreshOnly
<1>9. CASE ClearStorage(c)
  <2>1. calls[c].at = "wipe" /\ End(c, calls, Answered("storage"), "silent")
    BY <1>9 DEF ClearStorage, Turn
  <2>2. calls[c].action.kind \notin {"add", "stop"}
    BY <2>1, BasicFacts DEF KindsAt
  <2> QED
    BY <2>1, <2>2, ShowsEnds
<1> QED
  BY <1>1, <1>2, <1>3, <1>4, <1>5, <1>6, <1>7, <1>8, <1>9

LEMMA ShowsBrowser ==
  ASSUME Basic, Shows, NEW c \in Call,
         \/ HasDocument(c) \/ EnsureDocument(c) \/ CreateDocument(c) \/ StopAll(c)
         \/ CloseDocument(c)
  PROVE  Shows'
<1>0. Rejected \in [Call -> Handler]
      /\ \A d \in Call : /\ Rejected[d].action = calls[d].action
                         /\ calls[d].at # "idle" => Rejected[d].at # "idle"
  BY RejectedDoes
<1>1. CASE HasDocument(c)
  <2>1. UNCHANGED store /\ calls[c].action.kind \in Told
    BY <1>1, HasDocumentBasic
  <2>2. CASE End(c, calls, Answered("browser"), "silent")
    BY <2>1, <2>2, ShowsEnds
  <2>3. CASE /\ Now(c, "ask", calls[c].action, calls[c].was)
             /\ UNCHANGED <<popup, left, overlapped, behind>>
    <3>1. calls[c].action.kind \notin {"add", "stop"}
      BY <2>1 DEF Told, Switch
    <3> QED
      BY <2>3, <3>1, ShowsMove DEF RefreshOnly
  <2> QED
    BY <1>1, <2>2, <2>3, HasDocumentBasic
<1>2. CASE EnsureDocument(c)
  <2>1. PICK to \in {"getSelf", "create", "loading"} : Now(c, to, calls[c].action, calls[c].was)
    BY <1>2, EnsureDocumentBasic
  <2> QED
    BY <1>2, <2>1, EnsureDocumentBasic, ShowsMove DEF RefreshOnly
<1>3. CASE CreateDocument(c)
  BY <1>3, CreateDocumentBasic, ShowsMove DEF RefreshOnly
<1>4. CASE StopAll(c)
  <2>1. UNCHANGED store
    BY <1>4 DEF StopAll
  <2>2. CASE End(c, Rejected, [Answered("browser") EXCEPT !.document = <<>>], "told")
    <3> DEFINE q == [Answered("browser") EXCEPT !.document = <<>>]
    <3>1. End(c, Rejected, q, "told")
      BY <2>2
    <3> HIDE DEF q
    <3> QED
      BY <1>0, <2>1, <3>1, ShowsEnd
  <2>3. CASE End(c, calls, Answered("browser"), "silent")
    BY <2>1, <2>3, ShowsEnds
  <2> QED
    BY <1>4, <2>2, <2>3, StopAllBasic
<1>5. CASE CloseDocument(c)
  <2>1. /\ calls'[c].at = "wipe" /\ calls'[c].action = calls[c].action
        /\ \A d \in Call \ {c} : calls'[d] = Rejected[d]
        /\ UNCHANGED <<store, popup, behind>>
    BY <1>5, CloseDocumentBasic
  <2> QED
    BY <1>0, <2>1, ShowsKept DEF RefreshOnly
<1> QED
  BY <1>1, <1>2, <1>3, <1>4, <1>5

LEMMA ShowsOffscreen ==
  ASSUME Basic, Shows, NEW c \in Call,
         \/ Ask(c) \/ PutSettings(c) \/ EnsureMicrophone(c) \/ CaptureTab(c)
         \/ MicrophoneOpened(c) \/ Failed(c)
  PROVE  Shows'
<1>1. CASE Ask(c)
  <2>1. UNCHANGED store /\ calls[c].action.kind \notin {"add", "stop"}
    BY <1>1, AskBasic DEF Told, Switch
  <2>2. CASE \E how \in {"silent", "told"} : End(c, calls, Answered("document"), how)
    BY <2>1, <2>2, ShowsEnds
  <2>3. CASE /\ \E to \in {"undo", "opening"} : Now(c, to, calls[c].action, calls[c].was)
             /\ UNCHANGED <<popup, left, overlapped, behind>>
    BY <2>1, <2>3, ShowsMove DEF RefreshOnly
  <2> QED
    BY <1>1, <2>2, <2>3, AskBasic
<1>2. CASE PutSettings(c)
  <2>1. UNCHANGED store
    BY <1>2, PutSettingsBasic
  <2>2. CASE ~Exists
    BY <1>2, <2>1, <2>2, PutSettingsBasic, ShowsEnds
  <2>3. CASE Exists
    <3>1. PICK at \in {"putMic", "putMonitor", "getDevice", "capture"} :
            Now(c, at, calls[c].action, calls[c].was)
      BY <1>2, <2>3, PutSettingsBasic
    <3>2. popup' = Refreshed(popup) /\ behind' = behind
      BY <1>2, <2>3, PutSettingsBasic
    <3> QED
      BY <2>1, <3>1, <3>2, ShowsMove DEF RefreshOnly
  <2> QED
    BY <2>2, <2>3
<1>3. CASE EnsureMicrophone(c)
  <2>1. UNCHANGED store
    BY <1>3, EnsureMicrophoneBasic
  <2>2. CASE ~Exists
    BY <1>3, <2>1, <2>2, EnsureMicrophoneBasic, ShowsEnds
  <2>3. CASE Exists
    <3>1. PICK at \in {"capture", "opening"} : Now(c, at, calls[c].action, calls[c].was)
      BY <1>3, <2>3, EnsureMicrophoneBasic
    <3>2. popup' = popup /\ behind' = behind
      BY <1>3, <2>3, EnsureMicrophoneBasic
    <3> QED
      BY <2>1, <3>1, <3>2, ShowsMove DEF RefreshOnly
  <2> QED
    BY <2>2, <2>3
<1>4. CASE CaptureTab(c)
  <2>1. UNCHANGED store /\ calls[c].action.kind = "add"
    BY <1>4, CaptureTabBasic
  <2>2. CASE \E how \in {"added", "silent"} : End(c, calls, Answered("document"), how)
    BY <2>1, <2>2, ShowsEnds
  <2>3. CASE /\ \E a : Now(c, "reopening", a, calls[c].was)
             /\ UNCHANGED <<popup, left, overlapped, behind>>
    BY <2>1, <2>3, ShowsMove DEF RefreshOnly
  <2> QED
    BY <1>4, <2>2, <2>3, CaptureTabBasic
<1>5. CASE MicrophoneOpened(c)
  <2>1. UNCHANGED store
    BY <1>5, MicrophoneOpenedBasic
  <2>2. CASE \E how \in {"added", "told"} : End(c, calls, queue, how)
    BY <2>1, <2>2, ShowsEnds
  <2>3. CASE /\ Now(c, "capture", calls[c].action, calls[c].was)
             /\ popup' = Refreshed(popup) /\ UNCHANGED <<left, overlapped, behind>>
    BY <2>1, <2>3, ShowsMove DEF RefreshOnly
  <2> QED
    BY <1>5, <2>2, <2>3, MicrophoneOpenedBasic
<1>6. CASE Failed(c)
  <2>1. UNCHANGED store
    BY <1>6, FailedBasic
  <2>2. CASE \E how : End(c, calls, queue, how)
    BY <2>1, <2>2, ShowsEnds
  <2>3. CASE /\ Now(c, "undo", calls[c].action, calls[c].was)
             /\ popup' \in {Refreshed(popup), popup} /\ UNCHANGED <<left, overlapped, behind>>
    BY <2>1, <2>3, ShowsMove DEF RefreshOnly
  <2> QED
    BY <1>6, <2>2, <2>3, FailedBasic
<1> QED
  BY <1>1, <1>2, <1>3, <1>4, <1>5, <1>6

LEMMA ShowsStep ==
  ASSUME Basic, Shows, [Next]_vars
  PROVE  Shows'
<1>1. CASE UNCHANGED vars
  BY <1>1, ShowsKept DEF vars, RefreshOnly
<1>2. CASE DocumentLoaded
  <2>1. \A d \in Call : calls'[d].action = calls[d].action /\ (calls[d].at # "idle" => calls'[d].at # "idle")
    BY <1>2, LoadedDoes
  <2>2. UNCHANGED <<store, popup, behind>>
    BY <1>2, LoadedDoes
  <2> QED
    BY <2>1, <2>2, ShowsKept DEF RefreshOnly
<1>3. CASE OpenPopup
  <2>1. popup'.asked = 1
    BY <1>3 DEF OpenPopup
  <2> QED
    BY <2>1 DEF Shows
<1>4. CASE ClosePopup
  BY <1>4 DEF ClosePopup, Shows
<1>5. CASE Render
  <2>1. popup \in Popup /\ store' = store
    BY <1>5 DEF Render, Basic, TypeOK, RestOK
  <2>2. popup'.shown = store
    BY <1>5, <2>1 DEF Render, Popup
  <2> QED
    BY <2>1, <2>2 DEF Shows
<1>6. ASSUME NEW c \in Call, NEW a \in Asked, TakenUp(c, a)
      PROVE  Shows'
  <2>1. StartsAt(a.kind) # "idle"
    BY DEF StartsAt
  <2>2. Now(c, StartsAt(a.kind), a, DefaultStore) /\ SameShown /\ UNCHANGED <<store, behind>>
        /\ calls[c].at = "idle"
    BY <1>6 DEF TakenUp
  <2> QED
    BY <2>1, <2>2, ShowsMove DEF RefreshOnly
<1> QED
  BY <1>1, <1>2, <1>3, <1>4, <1>5, <1>6, ShowsStorage, ShowsBrowser, ShowsOffscreen, UserBasic
     DEF Next, Storage, Browser, Offscreen

(* A popup that waits for nothing shows what is stored, unless the last     *)
(* change was made elsewhere and told to nobody: whatever handlers overlap, *)
(* and whatever becomes of them (popup.js:425-437, 746-752).                *)
THEOREM PopupShowsStoreHolds == Spec => []PopupShowsStore
<1>1. Init => Basic /\ Shows
  BY BasicInit DEF Init, Shows
<1>2. Basic /\ Shows /\ [Next]_vars => Basic' /\ Shows'
  BY BasicStep, ShowsStep
<1>3. Basic /\ Shows => PopupShowsStore
  <2> SUFFICES ASSUME Basic, Shows, Quiet, popup # None, popup.asked = 0, ~behind
               PROVE  popup.shown = store
    BY DEF PopupShowsStore
  <2> QED
    BY DEF Shows, Quiet
<1> QED
  BY <1>1, <1>2, <1>3, PTL DEF Spec

-----------------------------------------------------------------------------
(* The third invariant: handlers that overlapped are noted.                *)

LEMMA LoneKept ==
  ASSUME Lone, overlapped \subseteq overlapped',
         \A d \in Call : Uses(calls'[d].action) \subseteq Uses(calls[d].action)
  PROVE  Lone'
  BY Zenon DEF Lone

(* c goes on with what it is about, or ends; the others are about the same. *)
OthersStay(c) == \A d \in Call \ {c} : calls'[d].action = calls[d].action

LEMMA LoneMove ==
  ASSUME Lone, NEW c \in Call, overlapped' = overlapped, OthersStay(c),
         calls'[c] = Idle \/ Uses(calls'[c].action) = Uses(calls[c].action)
  PROVE  Lone'
<1>1. Uses(Idle.action) = {}
  BY StoreTypes DEF Uses
<1>2. \A d \in Call : Uses(calls'[d].action) \subseteq Uses(calls[d].action)
  BY <1>1 DEF OthersStay
<1> QED
  BY <1>2, LoneKept

LEMMA UsesKind ==
  ASSUME NEW a, NEW b, a.kind = b.kind
  PROVE  Uses(a) = Uses(b)
  BY DEF Uses

LEMMA NowStays ==
  ASSUME NEW c \in Call, NEW at, NEW action, NEW was, Now(c, at, action, was)
  PROVE  OthersStay(c) /\ calls'[c].action = action /\ calls'[c].at = at /\ calls'[c].was = was
  BY DEF Now, OthersStay

LEMMA EndStays ==
  ASSUME Basic, NEW c \in Call, NEW q, NEW how, End(c, calls, q, how)
  PROVE  OthersStay(c) /\ calls'[c] = Idle /\ overlapped' = overlapped
         /\ \A d \in Call \ {c} : calls'[d] = calls[d]
<1>1. calls \in [Call -> Handler] /\ TypeOK
  BY BasicFacts
<1> QED
  BY <1>1, EndType DEF OthersStay

(* A step of the handler c, but for its beginning.                          *)
Step(c) ==
  \/ Read(c) \/ ReadToggle(c) \/ Write(c) \/ Undo(c) \/ AddTab(c) \/ GetSelfMuted(c)
  \/ GetDevice(c) \/ ReadRules(c) \/ ClearStorage(c)
  \/ HasDocument(c) \/ EnsureDocument(c) \/ CreateDocument(c) \/ StopAll(c) \/ CloseDocument(c)
  \/ Ask(c) \/ PutSettings(c) \/ EnsureMicrophone(c) \/ CaptureTab(c)
  \/ MicrophoneOpened(c) \/ Failed(c)

(* What all these have in common.                                           *)
Goes(c) ==
  /\ OthersStay(c) /\ overlapped' = overlapped
  /\ calls'[c] = Idle \/ Uses(calls'[c].action) = Uses(calls[c].action)

LEMMA GoesNow ==
  ASSUME NEW c \in Call, NEW at, NEW action, NEW was, Now(c, at, action, was),
         Uses(action) = Uses(calls[c].action), overlapped' = overlapped
  PROVE  Goes(c)
  BY NowStays DEF Goes

LEMMA GoesEnd ==
  ASSUME Basic, NEW c \in Call, NEW q, NEW how, End(c, calls, q, how)
  PROVE  Goes(c)
  BY EndStays DEF Goes

LEMMA StorageGoes ==
  ASSUME Basic, NEW c \in Call,
         \/ Read(c) \/ ReadToggle(c) \/ Write(c) \/ Undo(c) \/ AddTab(c) \/ GetSelfMuted(c)
         \/ GetDevice(c) \/ ReadRules(c) \/ ClearStorage(c)
  PROVE  Goes(c)
<1>1. CASE Read(c)
  BY <1>1, ReadBasic, GoesNow
<1>2. CASE ReadToggle(c)
  <2>1. calls[c].action.kind = "toggle" /\ Action("self", None, ~store.selfMuted).kind = "self"
    BY <1>2, BasicFacts DEF KindsAt, ReadToggle, Turn, Action
  <2>2. Uses(Action("self", None, ~store.selfMuted)) = Uses(calls[c].action)
    BY <2>1 DEF Uses
  <2> QED
    BY <1>2, <2>2, ReadToggleBasic, GoesNow
<1>3. CASE Write(c)
  BY <1>3, WriteBasic, GoesNow, GoesEnd
<1>4. CASE Undo(c)
  BY <1>4, GoesEnd DEF Undo
<1>5. CASE AddTab(c)
  BY <1>5, AddTabBasic, GoesNow
<1>6. CASE GetSelfMuted(c)
  <2>1. Uses(calls'[c].action) = Uses(calls[c].action)
    BY <1>6, GetSelfMutedBasic, UsesKind
  <2> QED
    BY <1>6, <2>1, GetSelfMutedBasic, NowStays DEF Goes
<1>7. CASE GetDevice(c)
  <2>1. Uses(calls'[c].action) = Uses(calls[c].action)
    BY <1>7, GetDeviceBasic, UsesKind
  <2> QED
    BY <1>7, <2>1, GetDeviceBasic, NowStays DEF Goes
<1>8. CASE ReadRules(c)
  BY <1>8, ReadRulesBasic, GoesNow
<1>9. CASE ClearStorage(c)
  BY <1>9, GoesEnd DEF ClearStorage
<1> QED
  BY <1>1, <1>2, <1>3, <1>4, <1>5, <1>6, <1>7, <1>8, <1>9

LEMMA BrowserGoes ==
  ASSUME Basic, NEW c \in Call,
         \/ HasDocument(c) \/ EnsureDocument(c) \/ CreateDocument(c) \/ StopAll(c)
         \/ CloseDocument(c)
  PROVE  Goes(c)
<1>0. Rejected \in [Call -> Handler] /\ \A d \in Call : Rejected[d].action = calls[d].action
  BY RejectedDoes
<1>1. CASE HasDocument(c)
  BY <1>1, HasDocumentBasic, GoesNow, GoesEnd
<1>2. CASE EnsureDocument(c)
  BY <1>2, EnsureDocumentBasic, GoesNow
<1>3. CASE CreateDocument(c)
  BY <1>3, CreateDocumentBasic, GoesNow
<1>4. CASE StopAll(c)
  <2>1. CASE End(c, Rejected, [Answered("browser") EXCEPT !.document = <<>>], "told")
    <3> DEFINE q == [Answered("browser") EXCEPT !.document = <<>>]
    <3>1. End(c, Rejected, q, "told") /\ TypeOK
      BY <2>1 DEF Basic
    <3> HIDE DEF q
    <3>2. /\ calls'[c] = Idle /\ overlapped' = overlapped
          /\ \A d \in Call \ {c} : calls'[d] = Rejected[d]
      BY <1>0, <3>1, EndType
    <3> QED
      BY <1>0, <3>2 DEF Goes, OthersStay
  <2> QED
    BY <1>4, <2>1, StopAllBasic, GoesEnd
<1>5. CASE CloseDocument(c)
  <2>1. /\ calls'[c].action = calls[c].action /\ overlapped' = overlapped
        /\ \A d \in Call \ {c} : calls'[d] = Rejected[d]
    BY <1>5, CloseDocumentBasic
  <2> QED
    BY <1>0, <2>1 DEF Goes, OthersStay
<1> QED
  BY <1>1, <1>2, <1>3, <1>4, <1>5

LEMMA OffscreenGoes ==
  ASSUME Basic, NEW c \in Call,
         \/ Ask(c) \/ PutSettings(c) \/ EnsureMicrophone(c) \/ CaptureTab(c)
         \/ MicrophoneOpened(c) \/ Failed(c)
  PROVE  Goes(c)
<1>1. CASE Ask(c)
  BY <1>1, AskBasic, GoesNow, GoesEnd
<1>2. CASE PutSettings(c)
  <2>1. CASE Exists
    <3>1. PICK at \in {"putMic", "putMonitor", "getDevice", "capture"} :
            Now(c, at, calls[c].action, calls[c].was)
      BY <1>2, <2>1, PutSettingsBasic
    <3>2. overlapped' = overlapped
      BY <1>2, <2>1, PutSettingsBasic
    <3> QED
      BY <3>1, <3>2, GoesNow
  <2>2. CASE ~Exists
    BY <1>2, <2>2, PutSettingsBasic, GoesEnd
  <2> QED
    BY <2>1, <2>2
<1>3. CASE EnsureMicrophone(c)
  <2>1. CASE Exists
    <3>1. PICK at \in {"capture", "opening"} :
            Now(c, at, calls[c].action, calls[c].was) /\ overlapped' = overlapped
      BY <1>3, <2>1, EnsureMicrophoneBasic
    <3> QED
      BY <3>1, GoesNow
  <2>2. CASE ~Exists
    BY <1>3, <2>2, EnsureMicrophoneBasic, GoesEnd
  <2> QED
    BY <2>1, <2>2
<1>4. CASE CaptureTab(c)
  <2>1. CASE \E how \in {"added", "silent"} : End(c, calls, Answered("document"), how)
    BY <2>1, GoesEnd
  <2>2. CASE /\ Now(c, "reopening", [calls[c].action EXCEPT !.value = doc.device], calls[c].was)
             /\ calls[c].action.kind = "add" /\ calls'[c].action.kind = "add"
             /\ UNCHANGED <<popup, left, overlapped, behind>>
    <3>1. Uses(calls'[c].action) = Uses(calls[c].action)
      BY <2>2, UsesKind
    <3> QED
      BY <2>2, <3>1, NowStays DEF Goes
  <2> QED
    BY <1>4, <2>1, <2>2, CaptureTabBasic
<1>5. CASE MicrophoneOpened(c)
  BY <1>5, MicrophoneOpenedBasic, GoesNow, GoesEnd
<1>6. CASE Failed(c)
  BY <1>6, FailedBasic, GoesNow, GoesEnd
<1> QED
  BY <1>1, <1>2, <1>3, <1>4, <1>5, <1>6

LEMMA StepGoes ==
  ASSUME Basic, NEW c \in Call, Step(c)
  PROVE  Goes(c)
  BY StorageGoes, BrowserGoes, OffscreenGoes DEF Step

(* The steps there are.                                                     *)
LEMMA Steps ==
  ASSUME Basic, [Next]_vars
  PROVE  \/ UNCHANGED <<store, doc, calls, queue, left, overlapped, undone, replaced, strayed>>
         \/ DocumentLoaded
         \/ \E c \in Call : Step(c)
         \/ \E c \in Call, a \in Asked : TakenUp(c, a)
<1>1. CASE OpenPopup \/ ClosePopup \/ Render \/ UNCHANGED vars
  BY <1>1 DEF OpenPopup, ClosePopup, Render, vars
<1>2. ASSUME NEW c \in Call,
             \/ \E action \in Asked : Click(c, action)
             \/ ImportSettings(c) \/ Command(c)
             \/ \E device \in Device : ApplySelectedDevice(c, device)
      PROVE  \E a \in Asked : TakenUp(c, a)
  BY <1>2, UserBasic
<1>3. CASE Storage \/ Browser \/ Offscreen
  BY <1>3 DEF Storage, Browser, Offscreen, Step
<1> QED
  BY <1>1, <1>2, <1>3 DEF Next

LEMMA LoneStep ==
  ASSUME Basic, Lone, [Next]_vars
  PROVE  Lone'
<1>1. CASE UNCHANGED <<store, doc, calls, queue, left, overlapped, undone, replaced, strayed>>
  BY <1>1, LoneKept
<1>2. CASE DocumentLoaded
  <2>1. \A d \in Call : calls'[d].action = calls[d].action
    BY <1>2, LoadedDoes
  <2>2. overlapped' = overlapped
    BY <1>2, LoadedDoes
  <2> QED
    BY <2>1, <2>2, LoneKept
<1>3. ASSUME NEW c \in Call, Step(c) PROVE Lone'
  BY <1>3, StepGoes, LoneMove DEF Goes
<1>4. ASSUME NEW c \in Call, NEW a \in Asked, TakenUp(c, a) PROVE Lone'
  <2>1. /\ calls'[c].action = a /\ \A d \in Call \ {c} : calls'[d] = calls[d]
        /\ overlapped' = overlapped \cup (Uses(a) \cap UNION {Uses(calls[d].action) : d \in Running})
    BY <1>4 DEF TakenUp, Now
  <2>2. ASSUME NEW d \in Call \ {c}, NEW u, u \in Uses(a), u \in Uses(calls[d].action)
        PROVE  u \in overlapped'
    <3>1. calls[d].at # "idle"
      <4>1. calls[d].at = "idle" => calls[d].action.kind = "stop"
        BY BasicFacts DEF KindsAt
      <4> QED
        BY <2>2, <4>1 DEF Uses
    <3>2. d \in Running
      BY <3>1 DEF Running
    <3> QED
      BY <2>1, <2>2, <3>2
  <2>3. ASSUME NEW u \in {"config", "self"} \ overlapped', NEW d \in Call, NEW e \in Call,
               u \in Uses(calls'[d].action), u \in Uses(calls'[e].action)
        PROVE  d = e
    <3>1. CASE d = c \/ e = c
      BY <2>1, <2>2, <2>3, <3>1
    <3>2. CASE d # c /\ e # c
      BY <2>1, <2>3, <3>2 DEF Lone
    <3> QED
      BY <3>1, <3>2
  <2> QED
    BY <2>3 DEF Lone
<1> QED
  BY <1>1, <1>2, <1>3, <1>4, Steps

-----------------------------------------------------------------------------
(* The fourth invariant: the switches of the channels and the microphone.   *)

(* Who does not use the configuration knows nothing of it.                  *)
LEMMA Free ==
  ASSUME NEW h, h.action.kind \in KindsAt(h.at), "config" \notin Uses(h.action)
  PROVE  /\ h.action.kind \notin Switch \cup {"select", "device", "import", "add", "clear"}
         /\ h.at \notin {"ensure", "create", "loading", "getSelf", "putSelf", "putMic", "putMonitor",
                         "ensureMic", "opening", "reopening", "getDevice", "capture"}
<1>1. h.action.kind \in {"self", "toggle", "stop"}
  BY DEF Uses
<1> QED
  BY <1>1 DEF KindsAt, Switch, Told

LEMMA FreeSteps ==
  ASSUME NEW h, h.action.kind \in KindsAt(h.at), "config" \notin Uses(h.action)
  PROVE  ChannelStep(h) /\ MicrophoneStep(h) /\ ~Telling(h) /\ ~Choosing(h)
<1>1. /\ h.action.kind \notin Switch \cup {"select", "device"}
      /\ h.at \notin {"ensure", "create", "loading", "getSelf", "putSelf", "putMic", "putMonitor",
                      "ensureMic", "opening", "reopening"}
  BY Free
<1> QED
  BY <1>1 DEF ChannelStep, MicrophoneStep, Telling, Choosing

(* The one that uses it, and what it knows.                                 *)
Only(c) ==
  /\ c \in Call /\ "config" \in Uses(calls[c].action) /\ "config" \notin overlapped /\ ~replaced

LEMMA OnlyOthers ==
  ASSUME Basic, Lone, NEW c \in Call, Only(c), NEW d \in Call \ {c}
  PROVE  "config" \notin Uses(calls[d].action)
  BY DEF Only, Lone

LEMMA OnlyNow ==
  ASSUME Basic, Lone, Channels, Microphone, NEW c \in Call, Only(c)
  PROVE  /\ ChannelStep(calls[c])
         /\ Exists /\ ~Telling(calls[c]) => ChannelsAgree
         /\ ~strayed => MicrophoneStep(calls[c]) /\ (~Choosing(calls[c]) => Used(store.device))
         /\ doc = Loading => calls[c].at = "loading"
<1>1. ASSUME NEW d \in Call \ {c}
      PROVE  ~Telling(calls[d]) /\ ~Choosing(calls[d]) /\ calls[d].at # "loading"
  <2>1. "config" \notin Uses(calls[d].action) /\ calls[d].action.kind \in KindsAt(calls[d].at)
    BY OnlyOthers, BasicFacts
  <2> QED
    BY <2>1, Free, FreeSteps
<1>2. doc = Loading => calls[c].at = "loading"
  BY <1>1 DEF Basic, Documents
<1> QED
  BY <1>1, <1>2, Zenon DEF Channels, Microphone, Only

(* It is enough to look at that one.                                        *)
Passed(c) ==
  /\ ChannelStep(calls[c])' /\ (Exists' => ChannelsAgree' \/ Telling(calls[c])')
  /\ ~strayed' => MicrophoneStep(calls[c])' /\ (Used(store.device)' \/ Choosing(calls[c])')

LEMMA Alone ==
  ASSUME Basic, Basic', Lone, NEW c \in Call, "config" \in Uses(calls[c].action), Goes(c),
         replaced => replaced', strayed => strayed',
         Only(c) /\ ~replaced' => Passed(c)
  PROVE  Channels' /\ Microphone'
<1>1. overlapped' = overlapped /\ \A d \in Call \ {c} : calls'[d].action = calls[d].action
  BY DEF Goes, OthersStay
<1> SUFFICES ASSUME "config" \notin overlapped, ~replaced' PROVE Channels' /\ Microphone'
  BY <1>1 DEF Channels, Microphone
<1>2. Only(c)
  BY DEF Only
<1>3. \A d \in Call : calls'[d].action.kind \in KindsAt(calls'[d].at)
  BY DEF Basic, TypeOK, Sound
<1>4. ASSUME NEW d \in Call \ {c}
      PROVE  ChannelStep(calls[d])' /\ MicrophoneStep(calls[d])'
  <2>1. "config" \notin Uses(calls'[d].action) /\ calls'[d].action.kind \in KindsAt(calls'[d].at)
    BY <1>1, <1>2, <1>3, OnlyOthers
  <2>2. /\ calls'[d].action.kind \notin Switch \cup {"select", "device"}
        /\ calls'[d].at \notin {"ensure", "create", "loading", "getSelf", "putSelf", "putMic", "putMonitor",
                                "ensureMic", "opening", "reopening"}
    BY <2>1, Free
  <2> QED
    BY <2>2 DEF ChannelStep, MicrophoneStep
<1>5. \A d \in Call : ChannelStep(calls[d])'
  BY <1>2, <1>4 DEF Passed
<1>6. ~strayed' => \A d \in Call : MicrophoneStep(calls[d])'
  BY <1>2, <1>4 DEF Passed
<1> QED
  BY <1>2, <1>5, <1>6, Zenon DEF Channels, Microphone, Passed

(* One that does not use it moves on beside it.                             *)
SameDocument ==
  \/ doc' = doc
  \/ /\ Exists /\ Exists' /\ doc'.micMuted = doc.micMuted /\ doc'.monitorMuted = doc.monitorMuted
     /\ doc'.active = doc.active

LEMMA Beside ==
  ASSUME Basic, Basic', Channels, Microphone, NEW c \in Call, "config" \notin Uses(calls[c].action),
         Goes(c), \A d \in Call \ {c} : calls'[d] = calls[d],
         store'.config = store.config, store'.device = store.device, SameDocument,
         replaced' = replaced, strayed' = strayed
  PROVE  Channels' /\ Microphone'
<1>1. overlapped' = overlapped
  BY DEF Goes
<1> SUFFICES ASSUME "config" \notin overlapped, ~replaced PROVE Channels' /\ Microphone'
  BY <1>1 DEF Channels, Microphone
<1>2. "config" \notin Uses(calls'[c].action) /\ calls'[c].action.kind \in KindsAt(calls'[c].at)
  <2>1. "config" \notin Uses(Idle.action)
    BY StoreTypes DEF Uses
  <2>2. "config" \notin Uses(calls'[c].action)
    BY <2>1 DEF Goes
  <2> QED
    BY <2>2 DEF Basic, TypeOK, Sound
<1>3. ChannelStep(calls[c])' /\ MicrophoneStep(calls[c])'
  <2>1. /\ calls'[c].action.kind \notin Switch \cup {"select", "device"}
        /\ calls'[c].at \notin {"ensure", "create", "loading", "getSelf", "putSelf", "putMic", "putMonitor",
                                "ensureMic", "opening", "reopening"}
    BY <1>2, Free
  <2> QED
    BY <2>1 DEF ChannelStep, MicrophoneStep
<1>4. ~Telling(calls[c]) /\ ~Choosing(calls[c])
  BY FreeSteps, BasicFacts
<1>5. /\ Exists' <=> Exists
      /\ Exists => /\ doc'.micMuted = doc.micMuted /\ doc'.monitorMuted = doc.monitorMuted
                   /\ doc'.active = doc.active
      /\ doc = None => doc' = None
  BY DEF SameDocument, Exists
<1>6. ASSUME NEW d \in Call \ {c}
      PROVE  /\ ChannelStep(calls[d]) => ChannelStep(calls[d])'
             /\ MicrophoneStep(calls[d]) => MicrophoneStep(calls[d])'
             /\ Telling(calls[d]) => Telling(calls[d])'
             /\ Choosing(calls[d]) => Choosing(calls[d])'
  <2>1. calls'[d] = calls[d]
    OBVIOUS
  <2>2. ChannelStep(calls[d]) => ChannelStep(calls[d])'
    BY <1>5, <2>1 DEF ChannelStep, Says
  <2>3. MicrophoneStep(calls[d]) => MicrophoneStep(calls[d])'
    BY <1>5, <2>1 DEF MicrophoneStep, Used
  <2> QED
    BY <2>1, <2>2, <2>3 DEF Telling, Choosing
<1>7. (Exists /\ ChannelsAgree => ChannelsAgree') /\ (Used(store.device) => Used(store.device)')
  BY <1>5 DEF ChannelsAgree, Used
<1>8. Channels'
  <2>1. \A d \in Call : ChannelStep(calls[d])'
    BY <1>3, <1>6 DEF Channels
  <2>2. Exists' => ChannelsAgree' \/ \E d \in Call : Telling(calls[d])'
    BY <1>4, <1>5, <1>6, <1>7 DEF Channels
  <2> QED
    BY <2>1, <2>2 DEF Channels
<1>9. Microphone'
  <2> SUFFICES ASSUME ~strayed PROVE Microphone'
    BY DEF Microphone
  <2>1. \A d \in Call : MicrophoneStep(calls[d])'
    BY <1>3, <1>6 DEF Microphone
  <2>2. Used(store.device)' \/ \E d \in Call : Choosing(calls[d])'
    BY <1>4, <1>6, <1>7 DEF Microphone
  <2> QED
    BY <2>1, <2>2 DEF Microphone
<1> QED
  BY <1>8, <1>9

(* A step that changes neither the store nor the document.                  *)
LEMMA PassedStill ==
  ASSUME Basic, Lone, Channels, Microphone, NEW c \in Call, Only(c),
         UNCHANGED <<store, doc, strayed>>, ~Telling(calls[c]), ~Choosing(calls[c]),
         ChannelStep(calls[c])', ~strayed => MicrophoneStep(calls[c])'
  PROVE  Passed(c)
<1>1. Exists' <=> Exists
  BY DEF Exists
<1>2. Exists => ChannelsAgree'
  <2>1. Exists => ChannelsAgree
    BY OnlyNow
  <2> QED
    BY <2>1 DEF ChannelsAgree
<1>3. ~strayed => Used(store.device)'
  <2>1. ~strayed => Used(store.device)
    BY OnlyNow
  <2> QED
    BY <1>1, <2>1 DEF Used
<1> QED
  BY <1>1, <1>2, <1>3 DEF Passed

(* At a place that neither the channels nor the microphone are about.       *)
LEMMA Elsewhen ==
  ASSUME NEW h, \/ h.at \in {"idle", "read", "getDevice", "capture", "close", "wipe", "toggle", "add", "clear"}
                \/ h.at \in {"ask", "has", "lost", "undo", "opening"} /\ h.action.kind \notin Switch \cup {"device"}
                     /\ h.at # "opening"
  PROVE  ChannelStep(h) /\ MicrophoneStep(h) /\ ~Telling(h) /\ ~Choosing(h)
  BY DEF ChannelStep, MicrophoneStep, Telling, Choosing

LEMMA ReadAgrees ==
  ASSUME Basic, Lone, Channels, Microphone, NEW c \in Call, Read(c)
  PROVE  Channels' /\ Microphone'
<1>1. /\ Basic' /\ Now(c, "write", calls[c].action, store)
      /\ UNCHANGED <<store, doc, replaced, strayed>> /\ calls[c].at = "read" /\ Goes(c)
  BY ReadBasic, StorageGoes DEF Read, Turn
<1>2. /\ calls'[c].at = "write" /\ calls'[c].was = store /\ calls'[c].action = calls[c].action
      /\ \A d \in Call \ {c} : calls'[d] = calls[d]
  BY <1>1 DEF Now
<1>3. CASE "config" \notin Uses(calls[c].action)
  BY <1>1, <1>2, <1>3, Beside DEF SameDocument
<1>4. CASE "config" \in Uses(calls[c].action)
  <2>1. ASSUME Only(c) PROVE Passed(c)
    <3>1. ChannelStep(calls[c])' /\ MicrophoneStep(calls[c])'
      BY <1>1, <1>2 DEF ChannelStep, MicrophoneStep
    <3>2. ~Telling(calls[c]) /\ ~Choosing(calls[c])
      BY <1>1 DEF Telling, Choosing
    <3> QED
      BY <1>1, <2>1, <3>1, <3>2, PassedStill
  <2> QED
    BY <1>1, <1>4, <2>1, Alone
<1> QED
  BY <1>3, <1>4

LEMMA ReadToggleAgrees ==
  ASSUME Basic, Lone, Channels, Microphone, NEW c \in Call, ReadToggle(c)
  PROVE  Channels' /\ Microphone'
<1>1. /\ Basic' /\ UNCHANGED <<store, doc, replaced, strayed>> /\ calls[c].at = "toggle" /\ Goes(c)
      /\ \A d \in Call \ {c} : calls'[d] = calls[d]
  BY ReadToggleBasic, StorageGoes DEF ReadToggle, Turn, Now
<1>2. "config" \notin Uses(calls[c].action)
  BY <1>1, BasicFacts DEF KindsAt, Uses
<1> QED
  BY <1>1, <1>2, Beside DEF SameDocument

(* What becomes of the switches of a configuration.                         *)
LEMMA ChangedSwitches ==
  ASSUME NEW action \in ActionType, NEW config \in Config
  PROVE  /\ action.kind = "select" =>
              /\ Changed(action, config).micMuted = config.micMuted
              /\ Changed(action, config).monitorMuted = config.monitorMuted
         /\ action.kind = "mic" =>
              /\ Changed(action, config).micMuted = [config.micMuted EXCEPT ![action.value] = action.muted]
              /\ Changed(action, config).monitorMuted = config.monitorMuted
         /\ action.kind = "monitor" =>
              /\ Changed(action, config).micMuted = config.micMuted
              /\ Changed(action, config).monitorMuted =
                   [config.monitorMuted EXCEPT ![action.value] = action.muted]
         /\ action.kind = "allMonitor" =>
              /\ Changed(action, config).micMuted = config.micMuted
              /\ Changed(action, config).monitorMuted = All(action.muted)
<1>1. CASE action.kind = "select"
  BY <1>1 DEF Changed, Config
<1>2. CASE action.kind = "mic"
  <2> DEFINE mic == [config.micMuted EXCEPT ![action.value] = action.muted]
  <2>1. Changed(action, config) = [config EXCEPT !.micMuted = mic]
    BY <1>2 DEF Changed
  <2>2. mic = [config.micMuted EXCEPT ![action.value] = action.muted]
    OBVIOUS
  <2> HIDE DEF mic
  <2>3. Changed(action, config).micMuted = mic /\ Changed(action, config).monitorMuted = config.monitorMuted
    BY <2>1 DEF Config
  <2> QED
    BY <1>2, <2>2, <2>3
<1>3. CASE action.kind = "monitor"
  <2> DEFINE monitor == [config.monitorMuted EXCEPT ![action.value] = action.muted]
             all == AllMuted(monitor)
  <2>1. Changed(action, config) = [config EXCEPT !.monitorMuted = monitor, !.monitorAllMuted = all]
    BY <1>3 DEF Changed
  <2>2. monitor = [config.monitorMuted EXCEPT ![action.value] = action.muted]
    OBVIOUS
  <2> HIDE DEF monitor, all
  <2>3. Changed(action, config).micMuted = config.micMuted /\ Changed(action, config).monitorMuted = monitor
    BY <2>1 DEF Config
  <2> QED
    BY <1>3, <2>2, <2>3
<1>4. CASE action.kind = "allMonitor"
  <2> DEFINE all == All(action.muted)
  <2>1. Changed(action, config) = [config EXCEPT !.monitorMuted = all, !.monitorAllMuted = action.muted]
    BY <1>4 DEF Changed
  <2>2. all = All(action.muted)
    OBVIOUS
  <2> HIDE DEF all
  <2>3. Changed(action, config).micMuted = config.micMuted /\ Changed(action, config).monitorMuted = all
    BY <2>1 DEF Config
  <2> QED
    BY <1>4, <2>2, <2>3
<1> QED
  BY <1>1, <1>2, <1>3, <1>4

LEMMA WriteAgrees ==
  ASSUME Basic, Lone, Channels, Microphone, NEW c \in Call, Write(c)
  PROVE  Channels' /\ Microphone'
<1> DEFINE a == calls[c].action
<1>1. /\ Basic' /\ UNCHANGED <<doc, strayed>> /\ calls[c].at = "write" /\ Goes(c)
      /\ \A d \in Call \ {c} : calls'[d] = calls[d]
      /\ replaced' = (replaced \/ (a.kind = "import" /\ InUse))
      /\ \/ a.kind \in {"select", "import"} /\ calls'[c] = Idle
         \/ /\ a.kind \in Told /\ calls'[c].at = "has" /\ calls'[c].action = a
            /\ calls'[c].was = calls[c].was
  <2>1. /\ Basic' /\ UNCHANGED <<doc, strayed>> /\ calls[c].at = "write" /\ Goes(c)
        /\ replaced' = (replaced \/ (a.kind = "import" /\ InUse))
    BY WriteBasic, StorageGoes DEF Write, Turn
  <2>2. CASE a.kind \in {"select", "import"} /\ End(c, calls, Answered("storage"), "silent")
    BY <2>1, <2>2, EndStays
  <2>3. CASE a.kind \in Told /\ Now(c, "has", a, calls[c].was)
    BY <2>1, <2>3 DEF Now
  <2> QED
    BY <2>2, <2>3, WriteBasic
<1>2. Written(a, calls[c].was) /\ a \in ActionType /\ store.config \in Config
      /\ calls[c].was \in Store /\ a.kind \in KindsAt("write")
  BY <1>1, WriteStore, BasicFacts, StoreFields
<1>3. /\ Exists' <=> Exists
      /\ replaced => replaced'
  BY <1>1 DEF Exists
<1>4. ~Telling(calls[c]) /\ ~Choosing(calls[c])
  BY <1>1 DEF Telling, Choosing
<1>5. ChannelStep(Idle) /\ MicrophoneStep(Idle)
  BY StoreTypes, Elsewhen
<1>6. CASE "config" \notin Uses(a)
  <2>1. a.kind = "self"
    BY <1>2, <1>6 DEF Uses, KindsAt, Told, Switch
  <2>2. store'.config = store.config /\ store'.device = store.device /\ replaced' = replaced
    BY <1>1, <1>2, <2>1, BasicFacts DEF Written, RestOK
  <2> QED
    BY <1>1, <1>6, <2>2, Beside DEF SameDocument
<1>7. CASE "config" \in Uses(a)
  <2>1. ASSUME Only(c), ~replaced' PROVE Passed(c)
    <3>1. /\ Exists => ChannelsAgree
          /\ ~strayed => Used(store.device)
          /\ a.kind \in Switch \cup {"select"} => calls[c].was.config = store.config
          /\ ~strayed /\ a.kind = "device" => calls[c].was.device = store.device
      BY <1>1, <1>4, <2>1, OnlyNow DEF ChannelStep, MicrophoneStep
    <3>2. CASE a.kind = "import"
      <4>1. doc = None /\ ~Exists
        BY <1>1, <2>1, <3>2 DEF InUse, Exists
      <4>2. calls'[c].at = "idle"
        BY <1>1, <3>2, StoreTypes DEF Told, Switch
      <4> QED
        BY <1>3, <4>1, <4>2 DEF Passed, Used, ChannelStep, MicrophoneStep
    <3>3. CASE a.kind = "select"
      <4>1. store'.config.micMuted = store.config.micMuted /\ store'.device = store.device
            /\ store'.config.monitorMuted = store.config.monitorMuted
        <5>1. store'.config = Changed(a, store.config) /\ store'.device = store.device
          BY <1>2, <3>1, <3>3 DEF Written
        <5>2. /\ Changed(a, store.config).micMuted = store.config.micMuted
              /\ Changed(a, store.config).monitorMuted = store.config.monitorMuted
          BY <1>2, <3>3, ChangedSwitches
        <5> QED
          BY <5>1, <5>2
      <4>2. calls'[c].at = "idle"
        BY <1>1, <3>3, StoreTypes DEF Told, Switch
      <4>3. (Exists' => ChannelsAgree') /\ (~strayed' => Used(store.device)')
        BY <1>1, <1>3, <3>1, <4>1 DEF ChannelsAgree, Used
      <4> QED
        BY <4>2, <4>3 DEF Passed, ChannelStep, MicrophoneStep
    <3>4. CASE a.kind = "device"
      <4>1. store'.config = store.config /\ store'.device = a.value
        BY <1>2, <3>4 DEF Written
      <4>2. calls'[c].at = "has" /\ calls'[c].action.kind = "device" /\ calls'[c].action.value = a.value
            /\ calls'[c].was = calls[c].was
        BY <1>1, <3>4
      <4>3. Exists' => ChannelsAgree'
        BY <1>1, <1>3, <3>1, <4>1 DEF ChannelsAgree
      <4>4. ChannelStep(calls[c])'
        BY <4>2 DEF ChannelStep, Switch
      <4>5. ~strayed => MicrophoneStep(calls[c])' /\ Choosing(calls[c])'
        <5>1. ~strayed => Used(calls[c].was.device)'
          BY <1>1, <1>3, <3>1, <3>4, <4>2 DEF Used
        <5>2. Choosing(calls[c])'
          BY <4>2 DEF Choosing
        <5>3. calls'[c].action.value = store'.device
          BY <4>1, <4>2
        <5> QED
          BY <4>2, <5>1, <5>2, <5>3 DEF MicrophoneStep
      <4> QED
        BY <1>1, <4>3, <4>4, <4>5 DEF Passed
    <3>5. CASE a.kind \in Switch
      <4>1. store'.device = store.device /\ store'.config = Changed(a, store.config)
        BY <1>2, <3>1, <3>5 DEF Written
      <4>2. calls'[c].at = "has" /\ calls'[c].action = a /\ a.kind # "device"
        BY <1>1, <3>5 DEF Switch
      <4>3. Exists => Says(a)'
        <5>1. CASE a.kind = "mic"
          BY <1>1, <1>2, <3>1, <4>1, <5>1, ChangedSwitches DEF Says, ChannelsAgree
        <5>2. CASE a.kind = "monitor"
          BY <1>1, <1>2, <3>1, <4>1, <5>2, ChangedSwitches DEF Says, ChannelsAgree
        <5>3. CASE a.kind = "allMonitor"
          BY <1>1, <1>2, <3>1, <4>1, <5>3, ChangedSwitches DEF Says, ChannelsAgree
        <5> QED
          BY <3>5, <5>1, <5>2, <5>3 DEF Switch
      <4>4. Says(calls[c].action)' <=> Says(a)'
        BY <4>2 DEF Says
      <4>5. ChannelStep(calls[c])' /\ Telling(calls[c])'
        BY <1>3, <3>5, <4>2, <4>3, <4>4 DEF ChannelStep, Telling
      <4>6. ~strayed => Used(store.device)' /\ MicrophoneStep(calls[c])'
        BY <1>1, <1>3, <3>1, <4>1, <4>2 DEF MicrophoneStep, Used
      <4> QED
        BY <1>1, <4>5, <4>6 DEF Passed
    <3> QED
      BY <1>2, <1>7, <3>2, <3>3, <3>4, <3>5 DEF KindsAt, Told, Uses
  <2> QED
    BY <1>1, <1>3, <1>7, <2>1, Alone
<1> QED
  BY <1>6, <1>7

LEMMA UndoAgrees ==
  ASSUME Basic, Lone, Channels, Microphone, NEW c \in Call, Undo(c)
  PROVE  Channels' /\ Microphone'
<1> DEFINE a == calls[c].action
<1>1. /\ Basic' /\ UNCHANGED <<doc, replaced, strayed>> /\ calls[c].at = "undo" /\ Goes(c)
      /\ calls'[c] = Idle /\ \A d \in Call \ {c} : calls'[d] = calls[d]
  BY UndoBasic, StorageGoes, EndStays DEF Undo, Turn
<1>2. Undone(a, calls[c].was) /\ a.kind \in Told
  BY <1>1, UndoStore, BasicFacts DEF KindsAt
<1>3. Exists' <=> Exists
  BY <1>1 DEF Exists
<1>4. calls'[c].at = "idle"
  BY <1>1, StoreTypes
<1>5. ~Telling(calls[c])
  BY <1>1 DEF Telling
<1>6. CASE a.kind = "self"
  <2>1. "config" \notin Uses(a) /\ store'.config = store.config /\ store'.device = store.device
    BY <1>2, <1>6 DEF Uses, Undone
  <2> QED
    BY <1>1, <2>1, Beside DEF SameDocument
<1>7. CASE a.kind # "self"
  <2>1. "config" \in Uses(a)
    BY <1>2, <1>7 DEF Uses, Told, Switch
  <2>2. ASSUME Only(c), ~replaced' PROVE Passed(c)
    <3>1. CASE a.kind \in Switch
      <4>1. doc = None
        BY <1>1, <2>2, <3>1, OnlyNow DEF ChannelStep
      <4>2. ~Exists'
        BY <1>3, <4>1 DEF Exists
      <4> QED
        BY <1>4, <4>2 DEF Passed, ChannelStep, MicrophoneStep, Used
    <3>2. CASE a.kind = "device"
      <4>1. store'.config = store.config /\ store'.device = calls[c].was.device
        BY <1>2, <3>2 DEF Undone
      <4>2. /\ Exists => ChannelsAgree
            /\ ~strayed => Used(calls[c].was.device)
        BY <1>1, <1>5, <2>2, <3>2, OnlyNow DEF MicrophoneStep
      <4>3. Exists' => ChannelsAgree'
        BY <1>1, <1>3, <4>1, <4>2 DEF ChannelsAgree
      <4>4. ~strayed' => Used(store.device)'
        BY <1>1, <1>3, <4>1, <4>2 DEF Used
      <4> QED
        BY <1>4, <4>3, <4>4 DEF Passed, ChannelStep, MicrophoneStep
    <3> QED
      BY <1>2, <1>7, <3>1, <3>2 DEF Told
  <2> QED
    BY <1>1, <2>1, <2>2, Alone
<1> QED
  BY <1>6, <1>7

(* Steps of addTab that read.                                               *)
LEMMA AddingAgrees ==
  ASSUME Basic, Lone, Channels, Microphone, NEW c \in Call,
         AddTab(c) \/ GetSelfMuted(c) \/ GetDevice(c) \/ ReadRules(c)
  PROVE  Channels' /\ Microphone'
<1>1. CASE AddTab(c)
  <2>1. /\ Basic' /\ calls[c].at = "add" /\ Goes(c) /\ calls[c].action.kind = "add"
        /\ UNCHANGED <<store, doc, replaced, strayed>>
        /\ calls'[c].at = "ensure" /\ calls'[c].action = calls[c].action /\ calls'[c].was = store
    BY <1>1, AddTabBasic, StorageGoes, BasicFacts DEF AddTab, Turn, Now, KindsAt
  <2>2. "config" \in Uses(calls[c].action)
    BY <2>1 DEF Uses
  <2>3. ASSUME Only(c) PROVE Passed(c)
    <3>1. ChannelStep(calls[c])' /\ MicrophoneStep(calls[c])'
      BY <2>1 DEF ChannelStep, MicrophoneStep
    <3>2. ~Telling(calls[c]) /\ ~Choosing(calls[c])
      BY <2>1 DEF Telling, Choosing
    <3> QED
      BY <2>1, <2>3, <3>1, <3>2, PassedStill
  <2> QED
    BY <2>1, <2>2, <2>3, Alone
<1>2. CASE GetSelfMuted(c)
  <2>1. /\ Basic' /\ calls[c].at = "getSelf" /\ Goes(c) /\ calls[c].action.kind = "add"
        /\ UNCHANGED <<store, doc, replaced, strayed>>
        /\ calls'[c].at = "putSelf" /\ calls'[c].action.kind = "add" /\ calls'[c].was = calls[c].was
    BY <1>2, GetSelfMutedBasic, StorageGoes DEF GetSelfMuted, Turn, Now
  <2>2. "config" \in Uses(calls[c].action)
    BY <2>1 DEF Uses
  <2>3. ASSUME Only(c) PROVE Passed(c)
    <3>1. calls[c].was.config = store.config /\ (~strayed => Used(store.device))
      BY <2>1, <2>3, OnlyNow DEF ChannelStep, Choosing
    <3>2. ChannelStep(calls[c])' /\ MicrophoneStep(calls[c])' /\ Telling(calls[c])'
      BY <2>1, <3>1 DEF ChannelStep, MicrophoneStep, Telling, Switch
    <3>3. ~strayed => Used(store.device)'
      BY <2>1, <3>1 DEF Used, Exists
    <3> QED
      BY <2>1, <3>2, <3>3 DEF Passed
  <2> QED
    BY <2>1, <2>2, <2>3, Alone
<1>3. CASE GetDevice(c)
  <2>1. /\ Basic' /\ calls[c].at = "getDevice" /\ Goes(c) /\ calls[c].action.kind = "add"
        /\ UNCHANGED <<store, doc, replaced, strayed>>
        /\ calls'[c].at = "ensureMic" /\ calls'[c].action.kind = "add" /\ calls'[c].was = calls[c].was
        /\ calls'[c].action.value = store.device
    BY <1>3, GetDeviceBasic, StorageGoes DEF GetDevice, Turn, Now
  <2>2. "config" \in Uses(calls[c].action)
    BY <2>1 DEF Uses
  <2>3. ASSUME Only(c) PROVE Passed(c)
    <3>1. ChannelStep(calls[c])' /\ MicrophoneStep(calls[c])'
      BY <2>1 DEF ChannelStep, MicrophoneStep
    <3>2. ~Telling(calls[c]) /\ ~Choosing(calls[c])
      BY <2>1 DEF Telling, Choosing
    <3> QED
      BY <2>1, <2>3, <3>1, <3>2, PassedStill
  <2> QED
    BY <2>1, <2>2, <2>3, Alone
<1>4. CASE ReadRules(c)
  <2>1. /\ Basic' /\ calls[c].at = "clear" /\ Goes(c) /\ calls[c].action.kind = "clear"
        /\ UNCHANGED <<store, doc, replaced, strayed>>
        /\ calls'[c].at = "close" /\ calls'[c].action = calls[c].action
    BY <1>4, ReadRulesBasic, StorageGoes, BasicFacts DEF ReadRules, Turn, Now, KindsAt
  <2>2. "config" \in Uses(calls[c].action)
    BY <2>1 DEF Uses
  <2>3. ASSUME Only(c) PROVE Passed(c)
    <3>1. ChannelStep(calls[c])' /\ MicrophoneStep(calls[c])'
      BY <2>1 DEF ChannelStep, MicrophoneStep
    <3>2. ~Telling(calls[c]) /\ ~Choosing(calls[c])
      BY <2>1 DEF Telling, Choosing
    <3> QED
      BY <2>1, <2>3, <3>1, <3>2, PassedStill
  <2> QED
    BY <2>1, <2>2, <2>3, Alone
<1> QED
  BY <1>1, <1>2, <1>3, <1>4

LEMMA ClearStorageAgrees ==
  ASSUME Basic, Lone, Channels, Microphone, NEW c \in Call, ClearStorage(c)
  PROVE  Channels' /\ Microphone'
<1>1. /\ Basic' /\ UNCHANGED <<doc, strayed>> /\ calls[c].at = "wipe" /\ Goes(c)
      /\ calls'[c] = Idle /\ replaced' = (replaced \/ InUse)
  BY ClearStorageBasic, StorageGoes, EndStays DEF ClearStorage, Turn
<1>2. "config" \in Uses(calls[c].action)
  BY <1>1, BasicFacts DEF KindsAt, Uses
<1>3. ASSUME ~replaced' PROVE Passed(c)
  <2>1. doc' = None /\ calls'[c].at = "idle"
    BY <1>1, <1>3, StoreTypes DEF InUse
  <2>2. ~Exists'
    BY <2>1 DEF Exists
  <2> QED
    BY <2>1, <2>2 DEF Passed, ChannelStep, MicrophoneStep, Used
<1> QED
  BY <1>1, <1>2, <1>3, Alone

LEMMA HasDocumentAgrees ==
  ASSUME Basic, Lone, Channels, Microphone, NEW c \in Call, HasDocument(c)
  PROVE  Channels' /\ Microphone'
<1> DEFINE a == calls[c].action
<1>1. /\ Basic' /\ UNCHANGED <<store, doc, replaced, strayed>> /\ calls[c].at = "has" /\ Goes(c)
      /\ a.kind \in Told /\ \A d \in Call \ {c} : calls'[d] = calls[d]
      /\ \/ doc = None /\ calls'[c] = Idle
         \/ calls'[c].at = "ask" /\ calls'[c].action = a /\ calls'[c].was = calls[c].was
  <2>1. /\ Basic' /\ UNCHANGED <<store, doc, replaced, strayed>> /\ calls[c].at = "has" /\ Goes(c)
        /\ a.kind \in Told
    BY HasDocumentBasic, BrowserGoes DEF HasDocument, Turn
  <2>2. CASE doc = None /\ End(c, calls, Answered("browser"), "silent")
    BY <2>1, <2>2, EndStays
  <2>3. CASE Now(c, "ask", a, calls[c].was)
    BY <2>1, <2>3 DEF Now
  <2> QED
    BY <2>2, <2>3, HasDocumentBasic
<1>2. CASE "config" \notin Uses(a)
  BY <1>1, <1>2, Beside DEF SameDocument
<1>3. CASE "config" \in Uses(a)
  <2>1. ASSUME Only(c) PROVE Passed(c)
    <3>1. CASE doc = None /\ calls'[c] = Idle
      <4>1. ~Exists' /\ calls'[c].at = "idle"
        BY <1>1, <3>1, StoreTypes DEF Exists
      <4> QED
        BY <4>1 DEF Passed, ChannelStep, MicrophoneStep, Used
    <3>2. CASE calls'[c].at = "ask" /\ calls'[c].action = a /\ calls'[c].was = calls[c].was
      <4>1. /\ ChannelStep(calls[c]) /\ (Exists /\ ~Telling(calls[c]) => ChannelsAgree)
            /\ ~strayed => MicrophoneStep(calls[c]) /\ (~Choosing(calls[c]) => Used(store.device))
        BY <2>1, OnlyNow
      <4>2. Exists' <=> Exists
        BY <1>1 DEF Exists
      <4>3. ChannelStep(calls[c])'
        BY <1>1, <3>2, <4>1, <4>2 DEF ChannelStep, Says
      <4>4. Exists => ChannelsAgree' \/ Telling(calls[c])'
        BY <1>1, <3>2, <4>1 DEF Telling, ChannelsAgree
      <4>5. ~strayed => MicrophoneStep(calls[c])' /\ (Used(store.device)' \/ Choosing(calls[c])')
        BY <1>1, <3>2, <4>1, <4>2 DEF MicrophoneStep, Choosing, Used
      <4> QED
        BY <1>1, <4>2, <4>3, <4>4, <4>5 DEF Passed
    <3> QED
      BY <1>1, <3>1, <3>2
  <2> QED
    BY <1>1, <1>3, <2>1, Alone
<1> QED
  BY <1>2, <1>3

LEMMA EnsureDocumentAgrees ==
  ASSUME Basic, Lone, Channels, Microphone, NEW c \in Call, EnsureDocument(c)
  PROVE  Channels' /\ Microphone'
<1>1. /\ Basic' /\ UNCHANGED <<store, doc, replaced, strayed>> /\ calls[c].at = "ensure" /\ Goes(c)
      /\ calls[c].action.kind = "add"
  BY EnsureDocumentBasic, BrowserGoes, BasicFacts DEF EnsureDocument, Turn, KindsAt
<1>2. PICK to \in {"getSelf", "create", "loading"} : Now(c, to, calls[c].action, calls[c].was)
  BY EnsureDocumentBasic
<1>3. calls'[c].at = to /\ calls'[c].action = calls[c].action /\ calls'[c].was = calls[c].was
  BY <1>2 DEF Now
<1>4. "config" \in Uses(calls[c].action)
  BY <1>1 DEF Uses
<1>5. ASSUME Only(c) PROVE Passed(c)
  <2>1. calls[c].was.config = store.config
    BY <1>1, <1>5, OnlyNow DEF ChannelStep
  <2>2. ChannelStep(calls[c])' /\ MicrophoneStep(calls[c])'
    BY <1>1, <1>3, <2>1 DEF ChannelStep, MicrophoneStep, Switch
  <2>3. ~Telling(calls[c]) /\ ~Choosing(calls[c])
    BY <1>1 DEF Telling, Choosing
  <2> QED
    BY <1>1, <1>5, <2>2, <2>3, PassedStill
<1> QED
  BY <1>1, <1>4, <1>5, Alone

LEMMA CreateDocumentAgrees ==
  ASSUME Basic, Lone, Channels, Microphone, NEW c \in Call, CreateDocument(c)
  PROVE  Channels' /\ Microphone'
<1>1. /\ Basic' /\ UNCHANGED <<store, replaced, strayed>> /\ calls[c].at = "create" /\ Goes(c)
      /\ calls[c].action.kind = "add" /\ doc' = Loading
      /\ calls'[c].at = "loading" /\ calls'[c].action = calls[c].action /\ calls'[c].was = calls[c].was
  BY CreateDocumentBasic, BrowserGoes, BasicFacts DEF CreateDocument, Turn, KindsAt, Now
<1>2. "config" \in Uses(calls[c].action)
  BY <1>1 DEF Uses
<1>3. ASSUME Only(c) PROVE Passed(c)
  <2>1. calls[c].was.config = store.config
    BY <1>1, <1>3, OnlyNow DEF ChannelStep
  <2>2. ~Exists'
    BY <1>1 DEF Exists
  <2>3. ChannelStep(calls[c])' /\ MicrophoneStep(calls[c])'
    BY <1>1, <2>1 DEF ChannelStep, MicrophoneStep, Switch
  <2> QED
    BY <2>2, <2>3 DEF Passed, Used
<1> QED
  BY <1>1, <1>2, <1>3, Alone

(* The document is closed by c.                                             *)
LEMMA ClosedAgrees ==
  ASSUME Basic, Basic', Channels, Microphone, NEW c \in Call, doc' = None,
         UNCHANGED <<store, replaced, strayed, overlapped>>,
         \A d \in Call \ {c} : calls'[d] = Rejected[d],
         calls'[c].at \in {"idle", "wipe"}
  PROVE  Channels' /\ Microphone'
<1> SUFFICES ASSUME "config" \notin overlapped, ~replaced PROVE Channels' /\ Microphone'
  BY DEF Channels, Microphone
<1>1. ~Exists'
  BY DEF Exists
<1>2. ASSUME NEW d \in Call \ {c}
      PROVE  /\ calls'[d].action = calls[d].action /\ calls'[d].was = calls[d].was
             /\ calls'[d].at = calls[d].at \/ calls'[d].at = "lost"
  BY RejectedDoes
<1>3. \A d \in Call : ChannelStep(calls[d])'
  <2>1. ASSUME NEW d \in Call \ {c} PROVE ChannelStep(calls[d])'
    <3>1. ChannelStep(calls[d])
      BY DEF Channels
    <3> QED
      BY <1>1, <1>2, <3>1 DEF ChannelStep
  <2>2. ChannelStep(calls[c])'
    BY DEF ChannelStep
  <2> QED
    BY <2>1, <2>2
<1>4. ~strayed => \A d \in Call : MicrophoneStep(calls[d])'
  <2>1. ASSUME NEW d \in Call \ {c}, ~strayed PROVE MicrophoneStep(calls[d])'
    <3>1. MicrophoneStep(calls[d])
      BY <2>1 DEF Microphone
    <3> QED
      BY <1>1, <1>2, <3>1 DEF MicrophoneStep, Used
  <2>2. MicrophoneStep(calls[c])'
    BY DEF MicrophoneStep
  <2> QED
    BY <2>1, <2>2
<1> QED
  BY <1>1, <1>3, <1>4 DEF Channels, Microphone, Used

LEMMA StopAllAgrees ==
  ASSUME Basic, Lone, Channels, Microphone, NEW c \in Call, StopAll(c)
  PROVE  Channels' /\ Microphone'
<1>1. /\ Basic' /\ UNCHANGED <<store, replaced, strayed>> /\ Goes(c) /\ calls[c].action.kind = "stop"
  BY StopAllBasic, BrowserGoes
<1>2. CASE /\ Exists /\ doc' = None
           /\ End(c, Rejected, [Answered("browser") EXCEPT !.document = <<>>], "told")
  <2> DEFINE q == [Answered("browser") EXCEPT !.document = <<>>]
  <2>1. End(c, Rejected, q, "told") /\ TypeOK /\ Rejected \in [Call -> Handler]
    BY <1>2, RejectedDoes DEF Basic
  <2> HIDE DEF q
  <2>2. /\ calls'[c] = Idle /\ overlapped' = overlapped
        /\ \A d \in Call \ {c} : calls'[d] = Rejected[d]
    BY <2>1, EndType
  <2>3. calls'[c].at = "idle"
    BY <2>2, StoreTypes
  <2> QED
    BY <1>1, <1>2, <2>2, <2>3, ClosedAgrees
<1>3. CASE doc' = doc /\ End(c, calls, Answered("browser"), "silent")
  <2>1. \A d \in Call \ {c} : calls'[d] = calls[d]
    BY <1>3, EndStays
  <2>2. "config" \notin Uses(calls[c].action)
    BY <1>1 DEF Uses
  <2> QED
    BY <1>1, <1>3, <2>1, <2>2, Beside DEF SameDocument
<1> QED
  BY <1>2, <1>3, StopAllBasic

LEMMA CloseDocumentAgrees ==
  ASSUME Basic, Lone, Channels, Microphone, NEW c \in Call, CloseDocument(c)
  PROVE  Channels' /\ Microphone'
  BY CloseDocumentBasic, ClosedAgrees

LEMMA AskAgrees ==
  ASSUME Basic, Lone, Channels, Microphone, NEW c \in Call, Ask(c)
  PROVE  Channels' /\ Microphone'
<1> DEFINE a == calls[c].action
<1>1. /\ Basic' /\ UNCHANGED <<store, replaced, strayed>> /\ calls[c].at = "ask" /\ Goes(c)
      /\ a.kind \in Told
      /\ Exists => doc' \in Document /\ Obeyed(a)
  BY AskBasic, OffscreenGoes, AskDocument DEF Ask, Turn
<1>2. \/ /\ ~Exists /\ doc' = doc /\ calls'[c].at = "undo" /\ calls'[c].action = a
         /\ calls'[c].was = calls[c].was
      \/ /\ Exists /\ (a.kind = "device" => doc.active = None) /\ calls'[c] = Idle
      \/ /\ Exists /\ a.kind = "device" /\ calls'[c].at = "opening" /\ calls'[c].action = a
         /\ calls'[c].was = calls[c].was
  <2>1. CASE ~Exists /\ doc' = doc /\ Now(c, "undo", a, calls[c].was)
    BY <2>1 DEF Now
  <2>2. CASE /\ Exists /\ (a.kind = "device" => doc.active = None)
             /\ \E how \in {"silent", "told"} : End(c, calls, Answered("document"), how)
    BY <2>2, EndStays
  <2>3. CASE Exists /\ a.kind = "device" /\ Now(c, "opening", a, calls[c].was)
    BY <2>3 DEF Now
  <2> QED
    BY <2>1, <2>2, <2>3, AskBasic
<1>3. \A d \in Call \ {c} : calls'[d] = calls[d]
  <2>1. CASE \E how \in {"silent", "told"} : End(c, calls, Answered("document"), how)
    BY <2>1, EndStays
  <2>2. CASE \E at \in {"undo", "opening"} : Now(c, at, a, calls[c].was)
    BY <2>2 DEF Now
  <2> QED
    BY <2>1, <2>2, AskBasic
<1>4. Exists => Exists'
  BY <1>1, DocumentAssumption DEF Exists
<1>5. CASE "config" \notin Uses(a)
  <2>1. a.kind = "self"
    BY <1>1, <1>5 DEF Uses, Told, Switch
  <2>2. SameDocument
    BY <1>1, <1>2, <1>4, <2>1 DEF SameDocument, Obeyed
  <2> QED
    BY <1>1, <1>3, <1>5, <2>2, Beside
<1>6. CASE "config" \in Uses(a)
  <2>1. ASSUME Only(c) PROVE Passed(c)
    <3>1. /\ ChannelStep(calls[c]) /\ (Exists /\ ~Telling(calls[c]) => ChannelsAgree)
          /\ ~strayed => MicrophoneStep(calls[c]) /\ (~Choosing(calls[c]) => Used(store.device))
          /\ doc # Loading
      BY <1>1, <2>1, OnlyNow
    <3>2. CASE /\ ~Exists /\ doc' = doc /\ calls'[c].at = "undo" /\ calls'[c].action = a
               /\ calls'[c].was = calls[c].was
      <4>1. doc' = None /\ ~Exists'
        BY <3>1, <3>2 DEF Exists
      <4> QED
        BY <3>2, <4>1 DEF Passed, ChannelStep, MicrophoneStep, Used
    <3>3. CASE Exists /\ a.kind = "device"
      <4>1. ChannelsAgree
        BY <1>1, <3>1, <3>3 DEF Telling, Switch
      <4>2. doc'.micMuted = doc.micMuted /\ doc'.monitorMuted = doc.monitorMuted /\ doc'.active = doc.active
        BY <1>1, <3>3 DEF Obeyed
      <4>3. ChannelsAgree'
        BY <1>1, <4>1, <4>2 DEF ChannelsAgree
      <4>4. CASE calls'[c] = Idle /\ doc.active = None
        <5>1. calls'[c].at = "idle"
          BY <4>4, StoreTypes
        <5> QED
          BY <4>2, <4>3, <4>4, <5>1 DEF Passed, ChannelStep, MicrophoneStep, Used
      <4>5. CASE /\ calls'[c].at = "opening" /\ calls'[c].action = a /\ calls'[c].was = calls[c].was
        <5>1. ChannelStep(calls[c])' /\ Choosing(calls[c])'
          BY <3>3, <4>5 DEF ChannelStep, Choosing, Switch
        <5>2. ~strayed => Used(calls[c].was.device)' /\ a.value = store'.device
          BY <1>1, <1>4, <3>1, <3>3, <4>2, <4>5 DEF MicrophoneStep, Used
        <5>3. ~strayed => MicrophoneStep(calls[c])'
          BY <3>3, <4>5, <5>2 DEF MicrophoneStep
        <5> QED
          BY <1>1, <4>3, <5>1, <5>3 DEF Passed
      <4> QED
        BY <1>2, <3>3, <4>4, <4>5
    <3>4. CASE Exists /\ a.kind \in Switch
      <4>1. Says(a) /\ calls'[c] = Idle /\ a.kind # "device"
        BY <1>1, <1>2, <3>1, <3>4 DEF ChannelStep, Switch
      <4>2. calls'[c].at = "idle"
        BY <4>1, StoreTypes
      <4>3. ChannelsAgree'
        <5>1. CASE a.kind = "mic"
          BY <1>1, <3>4, <4>1, <5>1 DEF Says, Obeyed, ChannelsAgree
        <5>2. CASE a.kind = "monitor"
          BY <1>1, <3>4, <4>1, <5>2 DEF Says, Obeyed, ChannelsAgree
        <5>3. CASE a.kind = "allMonitor"
          BY <1>1, <3>4, <4>1, <5>3 DEF Says, Obeyed, ChannelsAgree
        <5> QED
          BY <3>4, <5>1, <5>2, <5>3 DEF Switch
      <4>4. ~strayed => Used(store.device)'
        <5>1. ~strayed => Used(store.device)
          BY <3>1, <4>1 DEF Choosing
        <5>2. doc'.active = doc.active
          BY <1>1, <3>4 DEF Obeyed
        <5> QED
          BY <1>1, <1>4, <3>4, <5>1, <5>2 DEF Used
      <4> QED
        BY <1>1, <4>2, <4>3, <4>4 DEF Passed, ChannelStep, MicrophoneStep
    <3> QED
      BY <1>1, <1>2, <1>6, <3>2, <3>3, <3>4 DEF Told, Uses
  <2> QED
    BY <1>1, <1>6, <2>1, Alone
<1> QED
  BY <1>5, <1>6

LEMMA PutSettingsAgrees ==
  ASSUME Basic, Lone, Channels, Microphone, NEW c \in Call, PutSettings(c)
  PROVE  Channels' /\ Microphone'
<1>1. /\ Basic' /\ Goes(c) /\ UNCHANGED <<store, replaced, strayed>>
      /\ calls[c].at \in {"putSelf", "putMic", "putMonitor"} /\ calls[c].action.kind = "add"
  BY PutSettingsBasic, OffscreenGoes, BasicFacts DEF KindsAt
<1>2. "config" \in Uses(calls[c].action)
  BY <1>1 DEF Uses
<1>3. ASSUME Only(c) PROVE Passed(c)
  <2>1. /\ ChannelStep(calls[c]) /\ (~strayed => Used(store.device))
    BY <1>1, <1>3, OnlyNow DEF Choosing
  <2>2. CASE ~Exists
    <3>1. calls'[c].at = "idle" /\ ~Exists'
      BY <2>2, PutSettingsBasic, StoreTypes DEF Exists
    <3> QED
      BY <3>1 DEF Passed, ChannelStep, MicrophoneStep, Used
  <2>3. CASE Exists
    <3>1. Given(calls[c])
      BY <2>3, PutSettingsBasic
    <3>2. PICK at \in {"putMic", "putMonitor", "getDevice", "capture"} :
            /\ Now(c, at, calls[c].action, calls[c].was)
            /\ calls[c].at = "putSelf" => at = "putMic"
            /\ calls[c].at = "putMic" => at = "putMonitor"
            /\ calls[c].at = "putMonitor" => at \in {"getDevice", "capture"}
      BY <2>3, PutSettingsBasic
    <3>3. calls'[c].at = at /\ calls'[c].action = calls[c].action /\ calls'[c].was = calls[c].was
      BY <3>2 DEF Now
    <3>4. Exists'
      BY <3>1, DocumentAssumption DEF Given, Exists
    <3>5. ~strayed => Used(store.device)'
      BY <1>1, <2>1, <2>3, <3>1 DEF Used, Given
    <3>6. MicrophoneStep(calls[c])'
      BY <1>1, <3>3 DEF MicrophoneStep
    <3>7. calls[c].was.config = store.config
      BY <1>1, <2>1 DEF ChannelStep
    <3>8. calls[c].at = "putMonitor" => doc.micMuted = store.config.micMuted
      BY <2>1, <2>3 DEF ChannelStep
    <3>9. ChannelStep(calls[c])'
      BY <1>1, <3>1, <3>2, <3>3, <3>7 DEF ChannelStep, Given, Switch
    <3>10. ChannelsAgree' \/ Telling(calls[c])'
      BY <1>1, <3>1, <3>2, <3>3, <3>7, <3>8 DEF ChannelsAgree, Telling, Given
    <3> QED
      BY <1>1, <3>5, <3>6, <3>9, <3>10 DEF Passed
  <2> QED
    BY <2>2, <2>3
<1> QED
  BY <1>1, <1>2, <1>3, Alone


LEMMA EnsureMicrophoneAgrees ==
  ASSUME Basic, Lone, Channels, Microphone, NEW c \in Call, EnsureMicrophone(c)
  PROVE  Channels' /\ Microphone'
<1>1. /\ Basic' /\ Goes(c) /\ UNCHANGED <<store, doc, replaced, strayed>>
      /\ calls[c].at = "ensureMic" /\ calls[c].action.kind = "add"
  BY EnsureMicrophoneBasic, OffscreenGoes, BasicFacts DEF Turn, KindsAt
<1>2. "config" \in Uses(calls[c].action)
  BY <1>1 DEF Uses
<1>3. ASSUME Only(c) PROVE Passed(c)
  <2>1. ~Telling(calls[c]) /\ ~Choosing(calls[c])
    BY <1>1 DEF Telling, Choosing
  <2>2. ~strayed => calls[c].action.value = store.device
    BY <1>1, <1>3, OnlyNow DEF MicrophoneStep
  <2>3. \/ calls'[c] = Idle
        \/ calls'[c].at \in {"capture", "opening"} /\ calls'[c].action = calls[c].action
    <3>1. CASE ~Exists
      BY <3>1, EnsureMicrophoneBasic, EndStays
    <3>2. CASE Exists
      <4>1. PICK at \in {"capture", "opening"} : Now(c, at, calls[c].action, calls[c].was)
        BY <3>2, EnsureMicrophoneBasic
      <4> QED
        BY <4>1 DEF Now
    <3> QED
      BY <3>1, <3>2
  <2>4. ChannelStep(calls[c])' /\ (~strayed => MicrophoneStep(calls[c])')
    <3>1. CASE calls'[c] = Idle
      BY <3>1, StoreTypes DEF ChannelStep, MicrophoneStep
    <3>2. CASE calls'[c].at \in {"capture", "opening"} /\ calls'[c].action = calls[c].action
      BY <1>1, <2>2, <3>2 DEF ChannelStep, MicrophoneStep
    <3> QED
      BY <2>3, <3>1, <3>2
  <2> QED
    BY <1>1, <1>3, <2>1, <2>4, PassedStill
<1> QED
  BY <1>1, <1>2, <1>3, Alone

LEMMA CaptureTabAgrees ==
  ASSUME Basic, Lone, Channels, Microphone, NEW c \in Call, CaptureTab(c)
  PROVE  Channels' /\ Microphone'
<1>1. /\ Basic' /\ Goes(c) /\ UNCHANGED <<store, doc, replaced>>
      /\ calls[c].at = "capture" /\ calls[c].action.kind = "add"
      /\ strayed => strayed'
  BY CaptureTabBasic, OffscreenGoes DEF Turn
<1>2. "config" \in Uses(calls[c].action)
  BY <1>1 DEF Uses
<1>3. ASSUME Only(c) PROVE Passed(c)
  <2>1. ~Telling(calls[c]) /\ ~Choosing(calls[c])
    BY <1>1 DEF Telling, Choosing
  <2>2. (Exists => ChannelsAgree) /\ (~strayed => Used(store.device))
    BY <1>3, <2>1, OnlyNow
  <2>3. (Exists' => ChannelsAgree') /\ (~strayed' => Used(store.device)')
    BY <1>1, <2>2 DEF Exists, ChannelsAgree, Used
  <2>4. ChannelStep(calls[c])' /\ (~strayed' => MicrophoneStep(calls[c])')
    <3>1. CASE \E how \in {"added", "silent"} : End(c, calls, Answered("document"), how)
      <4>1. calls'[c] = Idle
        BY <3>1, EndStays
      <4> QED
        BY <4>1, StoreTypes DEF ChannelStep, MicrophoneStep
    <3>2. CASE /\ Now(c, "reopening", [calls[c].action EXCEPT !.value = doc.device], calls[c].was)
               /\ calls'[c].action.kind = "add" /\ calls'[c].action.value = doc.device
               /\ strayed' = (strayed \/ doc.device # store.device)
      <4>1. calls'[c].at = "reopening"
        BY <3>2, NowStays
      <4>2. ~strayed' => calls'[c].action.value = store'.device
        BY <1>1, <3>2
      <4> QED
        BY <3>2, <4>1, <4>2 DEF ChannelStep, MicrophoneStep
    <3> QED
      BY <3>1, <3>2, CaptureTabBasic
  <2> QED
    BY <2>3, <2>4 DEF Passed
<1> QED
  BY <1>1, <1>2, <1>3, Alone

LEMMA MicrophoneOpenedAgrees ==
  ASSUME Basic, Lone, Channels, Microphone, NEW c \in Call, MicrophoneOpened(c)
  PROVE  Channels' /\ Microphone'
<1>1. /\ Basic' /\ Goes(c) /\ UNCHANGED <<store, replaced, strayed>> /\ Exists
      /\ calls[c].at \in {"opening", "reopening"} /\ calls[c].action.kind \in {"add", "device"}
      /\ doc'.micMuted = doc.micMuted /\ doc'.monitorMuted = doc.monitorMuted
      /\ doc'.active = calls[c].action.value
  BY MicrophoneOpenedBasic, OffscreenGoes, BasicFacts DEF KindsAt
<1>2. "config" \in Uses(calls[c].action)
  BY <1>1 DEF Uses
<1>3. ASSUME Only(c) PROVE Passed(c)
  <2>1. /\ ~Telling(calls[c])
        /\ ~strayed => calls[c].action.value = store.device
    BY <1>1, <1>3, OnlyNow DEF Telling, MicrophoneStep
  <2>2. ChannelsAgree
    BY <1>1, <1>3, <2>1, OnlyNow
  <2>3. ChannelsAgree' /\ (~strayed => Used(store.device)')
    BY <1>1, <2>1, <2>2 DEF ChannelsAgree, Used
  <2>4. calls'[c].at \in {"capture", "idle"}
    <3>1. CASE Now(c, "capture", calls[c].action, calls[c].was)
      BY <3>1, NowStays
    <3>2. CASE \E how \in {"added", "told"} : End(c, calls, queue, how)
      BY <3>2, EndStays, StoreTypes
    <3> QED
      BY <3>1, <3>2, MicrophoneOpenedBasic
  <2>5. ChannelStep(calls[c])' /\ MicrophoneStep(calls[c])'
    BY <2>4 DEF ChannelStep, MicrophoneStep
  <2> QED
    BY <1>1, <2>3, <2>5 DEF Passed
<1> QED
  BY <1>1, <1>2, <1>3, Alone

LEMMA FailedAgrees ==
  ASSUME Basic, Lone, Channels, Microphone, NEW c \in Call, Failed(c)
  PROVE  Channels' /\ Microphone'
<1> DEFINE a == calls[c].action
<1>1. /\ Basic' /\ Goes(c) /\ UNCHANGED <<store, doc, replaced, strayed>>
      /\ calls[c].at \in {"opening", "reopening", "lost"} /\ a.kind \in KindsAt(calls[c].at)
  BY FailedBasic, OffscreenGoes, BasicFacts
<1>2. /\ \A d \in Call \ {c} : calls'[d] = calls[d]
      /\ \/ a.kind = "add" /\ calls'[c] = Idle
         \/ /\ a.kind \in Told /\ calls'[c].at = "undo" /\ calls'[c].action = a
            /\ calls'[c].was = calls[c].was
  <2>1. CASE a.kind = "add" /\ \E how : End(c, calls, queue, how)
    BY <2>1, EndStays
  <2>2. CASE a.kind \in Told /\ Now(c, "undo", a, calls[c].was)
    BY <2>2 DEF Now
  <2> QED
    BY <2>1, <2>2, FailedBasic
<1>3. CASE "config" \notin Uses(a)
  BY <1>1, <1>2, <1>3, Beside DEF SameDocument
<1>4. CASE "config" \in Uses(a)
  <2>1. ASSUME Only(c) PROVE Passed(c)
    <3>1. /\ ChannelStep(calls[c]) /\ ~Telling(calls[c]) /\ (Exists => ChannelsAgree)
          /\ ~strayed => MicrophoneStep(calls[c]) /\ (~Choosing(calls[c]) => Used(store.device))
      BY <1>1, <2>1, OnlyNow DEF Telling
    <3>2. (Exists' <=> Exists) /\ (Exists' => ChannelsAgree')
      BY <1>1, <3>1 DEF Exists, ChannelsAgree
    <3>3. CASE a.kind = "add"
      <4>1. calls'[c].at = "idle"
        BY <1>2, <3>3, StoreTypes DEF Told, Switch
      <4>2. ~strayed => Used(store.device)'
        BY <1>1, <3>1, <3>2, <3>3 DEF Choosing, Used
      <4> QED
        BY <1>1, <3>2, <4>1, <4>2 DEF Passed, ChannelStep, MicrophoneStep
    <3>4. CASE a.kind = "device"
      <4>1. calls'[c].at = "undo" /\ calls'[c].action.kind = "device" /\ calls'[c].was = calls[c].was
            /\ calls[c].at \in {"opening", "lost"}
        BY <1>1, <1>2, <3>4 DEF KindsAt
      <4>2. ~strayed => Used(calls[c].was.device)'
        BY <1>1, <3>1, <3>2, <3>4, <4>1 DEF MicrophoneStep, Used
      <4> QED
        BY <1>1, <3>2, <3>4, <4>1, <4>2 DEF Passed, ChannelStep, MicrophoneStep, Choosing, Switch
    <3>5. CASE a.kind \in Switch
      <4>1. calls'[c].at = "undo" /\ calls'[c].action.kind = a.kind /\ calls[c].at = "lost"
        BY <1>1, <1>2, <3>5 DEF KindsAt, Switch
      <4>2. doc' = None /\ ~Exists'
        BY <1>1, <3>1, <3>5, <4>1 DEF ChannelStep, Exists
      <4> QED
        BY <3>5, <4>1, <4>2 DEF Passed, ChannelStep, MicrophoneStep, Used, Switch
    <3> QED
      BY <1>2, <1>4, <3>3, <3>4, <3>5 DEF Told, Uses
  <2> QED
    BY <1>1, <1>4, <2>1, Alone
<1> QED
  BY <1>3, <1>4

LEMMA LoadedAgrees ==
  ASSUME Basic, Lone, Channels, Microphone, DocumentLoaded
  PROVE  Channels' /\ Microphone'
<1>1. /\ Basic' /\ doc' = NewDocument /\ UNCHANGED <<store, overlapped, replaced, strayed>>
      /\ \A d \in Call : calls'[d].action = calls[d].action
      /\ \E c \in Call : calls[c].at = "loading"
      /\ \A c \in Waiting : calls'[c].at = "getSelf" /\ calls'[c].was = calls[c].was
  BY LoadedBasic, LoadedDoes DEF Basic, Documents
<1>2. PICK c \in Call : calls[c].at = "loading"
  BY <1>1
<1>3. c \in Waiting /\ calls[c].action.kind = "add"
  BY <1>2, BasicFacts DEF Waiting, KindsAt
<1>4. "config" \in Uses(calls[c].action) /\ Goes(c)
  BY <1>1, <1>3 DEF Uses, Goes, OthersStay
<1>5. ASSUME Only(c) PROVE Passed(c)
  <2>1. calls[c].was.config = store.config
    BY <1>2, <1>5, OnlyNow DEF ChannelStep
  <2>2. calls'[c].at = "getSelf" /\ calls'[c].was = calls[c].was /\ calls'[c].action.kind = "add"
    BY <1>1, <1>3
  <2>3. NewDocument.active = None
    BY DEF NewDocument
  <2> QED
    BY <1>1, <2>1, <2>2, <2>3 DEF Passed, ChannelStep, MicrophoneStep, Telling, Used, Switch
<1> QED
  BY <1>1, <1>4, <1>5, Alone

LEMMA TakenUpAgrees ==
  ASSUME Basic, Basic', Channels, Microphone, NEW c \in Call, NEW a \in Asked, TakenUp(c, a)
  PROVE  Channels' /\ Microphone'
<1>1. /\ calls[c].at = "idle" /\ UNCHANGED <<store, doc, replaced, strayed>>
      /\ overlapped \subseteq overlapped'
      /\ calls'[c].at = StartsAt(a.kind) /\ calls'[c].action = a
      /\ \A d \in Call \ {c} : calls'[d] = calls[d]
  BY DEF TakenUp, Now
<1> SUFFICES ASSUME "config" \notin overlapped, ~replaced PROVE Channels' /\ Microphone'
  BY <1>1 DEF Channels, Microphone
<1>2. ChannelStep(calls[c])' /\ MicrophoneStep(calls[c])'
  <2>1. \/ calls'[c].at \in {"toggle", "add", "clear", "close", "read"}
        \/ calls'[c].at = "write" /\ calls'[c].action.kind = "import"
    BY <1>1 DEF StartsAt
  <2> QED
    BY <2>1 DEF ChannelStep, MicrophoneStep, Switch
<1>3. ~Telling(calls[c]) /\ ~Choosing(calls[c])
  BY <1>1 DEF Telling, Choosing
<1>4. (Exists' <=> Exists) /\ (ChannelsAgree => ChannelsAgree') /\ (Used(store.device) => Used(store.device)')
  BY <1>1 DEF Exists, ChannelsAgree, Used
<1>5. ASSUME NEW d \in Call \ {c}
      PROVE  /\ ChannelStep(calls[d]) => ChannelStep(calls[d])'
             /\ MicrophoneStep(calls[d]) => MicrophoneStep(calls[d])'
             /\ Telling(calls[d]) => Telling(calls[d])'
             /\ Choosing(calls[d]) => Choosing(calls[d])'
  <2>1. calls'[d] = calls[d]
    BY <1>1
  <2>2. ChannelStep(calls[d]) => ChannelStep(calls[d])'
    BY <1>1, <1>4, <2>1 DEF ChannelStep, Says
  <2>3. MicrophoneStep(calls[d]) => MicrophoneStep(calls[d])'
    BY <1>1, <1>4, <2>1 DEF MicrophoneStep, Used
  <2> QED
    BY <2>1, <2>2, <2>3 DEF Telling, Choosing
<1>6. Channels'
  <2>1. \A d \in Call : ChannelStep(calls[d])'
    BY <1>2, <1>5 DEF Channels
  <2>2. Exists' => ChannelsAgree' \/ \E d \in Call : Telling(calls[d])'
    BY <1>3, <1>4, <1>5 DEF Channels
  <2> QED
    BY <2>1, <2>2 DEF Channels
<1>7. ASSUME ~strayed PROVE Microphone'
  <2>1. \A d \in Call : MicrophoneStep(calls[d])'
    BY <1>2, <1>5, <1>7 DEF Microphone
  <2>2. Used(store.device)' \/ \E d \in Call : Choosing(calls[d])'
    BY <1>3, <1>4, <1>5, <1>7 DEF Microphone
  <2> QED
    BY <2>1, <2>2 DEF Microphone
<1> QED
  BY <1>1, <1>6, <1>7 DEF Microphone


LEMMA StepAgrees ==
  ASSUME Basic, Lone, Channels, Microphone, NEW c \in Call, Step(c)
  PROVE  Channels' /\ Microphone'
<1>1. CASE \/ Read(c) \/ ReadToggle(c) \/ Write(c) \/ Undo(c) \/ AddTab(c) \/ GetSelfMuted(c)
           \/ GetDevice(c) \/ ReadRules(c) \/ ClearStorage(c)
  BY <1>1, ReadAgrees, ReadToggleAgrees, WriteAgrees, UndoAgrees, AddingAgrees, ClearStorageAgrees
<1>2. CASE \/ HasDocument(c) \/ EnsureDocument(c) \/ CreateDocument(c) \/ StopAll(c)
           \/ CloseDocument(c)
  BY <1>2, HasDocumentAgrees, EnsureDocumentAgrees, CreateDocumentAgrees, StopAllAgrees,
     CloseDocumentAgrees
<1>3. CASE \/ Ask(c) \/ PutSettings(c) \/ EnsureMicrophone(c) \/ CaptureTab(c)
           \/ MicrophoneOpened(c) \/ Failed(c)
  BY <1>3, AskAgrees, PutSettingsAgrees, EnsureMicrophoneAgrees, CaptureTabAgrees,
     MicrophoneOpenedAgrees, FailedAgrees
<1> QED
  BY <1>1, <1>2, <1>3 DEF Step

LEMMA AgreesStep ==
  ASSUME Basic, Lone, Channels, Microphone, [Next]_vars
  PROVE  Channels' /\ Microphone'
<1>1. CASE UNCHANGED <<store, doc, calls, queue, left, overlapped, undone, replaced, strayed>>
  <2>1. UNCHANGED <<store, doc, calls, overlapped, replaced, strayed>>
    BY <1>1
  <2> QED
    BY <2>1 DEF Channels, Microphone, ChannelStep, MicrophoneStep, Says, ChannelsAgree, Telling, Used,
       Choosing, Exists
<1>2. CASE DocumentLoaded
  BY <1>2, LoadedAgrees
<1>3. ASSUME NEW c \in Call, Step(c) PROVE Channels' /\ Microphone'
  BY <1>3, StepAgrees
<1>4. ASSUME NEW c \in Call, NEW a \in Asked, TakenUp(c, a) PROVE Channels' /\ Microphone'
  BY <1>4, BasicStep, TakenUpAgrees
<1> QED
  BY <1>1, <1>2, <1>3, <1>4, Steps

(* A document that was given these settings.                                *)
LEMMA GivenDocument ==
  ASSUME Init, doc # None
  PROVE  /\ doc.selfMuted = store.selfMuted /\ doc.micMuted = store.config.micMuted
         /\ doc.monitorMuted = store.config.monitorMuted /\ doc.active = store.device
  BY DEF Init

LEMMA AgreesInit ==
  ASSUME Init
  PROVE  Lone /\ Channels /\ Microphone
<1>1. calls = [c \in Call |-> Idle]
  BY DEF Init
<1>2. \A c \in Call : calls[c] = Idle
  BY <1>1
<1>3. Idle.at = "idle" /\ Idle.action.kind = "stop"
  BY StoreTypes
<1>4. ASSUME NEW c \in Call
      PROVE  ChannelStep(calls[c]) /\ MicrophoneStep(calls[c]) /\ Uses(calls[c].action) = {}
  BY <1>2, <1>3 DEF ChannelStep, MicrophoneStep, Uses
<1>5. Exists => ChannelsAgree
  BY GivenDocument DEF Exists, ChannelsAgree
<1>6. Used(store.device)
  BY GivenDocument DEF Exists, Used
<1> QED
  BY <1>4, <1>5, <1>6 DEF Lone, Channels, Microphone

(* Who creates it, who is alone, who knows what: kept by every step.        *)
Agreed == Basic /\ Lone /\ Channels /\ Microphone

LEMMA AgreedAlways == Spec => []Agreed
<1>1. Init => Agreed
  BY BasicInit, AgreesInit DEF Agreed
<1>2. Agreed /\ [Next]_vars => Agreed'
  BY BasicStep, LoneStep, AgreesStep DEF Agreed
<1> QED
  BY <1>1, <1>2, PTL DEF Spec

LEMMA QuietHandlers ==
  ASSUME Quiet, NEW c \in Call
  PROVE  ~Telling(calls[c]) /\ ~Choosing(calls[c])
<1>1. calls[c].at = "idle"
  BY DEF Quiet, Running
<1> QED
  BY <1>1 DEF Telling, Choosing

(* For any number of handlers, channels and microphones: a microphone that  *)
(* could not be opened is not the stored one; what is in use when all has   *)
(* ended is stored, unless a meeting was given the choice of the document   *)
(* itself (background.js:682-703, offscreen.js:988, 1403-1413).             *)
THEOREM MicrophoneIsStoredHolds == Spec => []MicrophoneIsStored
<1>1. Agreed => MicrophoneIsStored
  <2> SUFFICES ASSUME Agreed, Quiet, Exists, ~replaced, "config" \notin overlapped, ~strayed,
                      doc.active # None
               PROVE  doc.active = store.device
    BY DEF MicrophoneIsStored
  <2>1. \A c \in Call : ~Choosing(calls[c])
    BY QuietHandlers
  <2> QED
    BY <2>1 DEF Agreed, Microphone, Used
<1> QED
  BY <1>1, AgreedAlways, PTL


-----------------------------------------------------------------------------
(* The last invariant: the operator's own switch.                           *)

(* r is q with c taken from its head, or not in it, and perhaps put at its  *)
(* end.                                                                     *)
Passes(q, r, c) ==
  \E k \in {0, 1}, n \in Nat :
    /\ DOMAIN q = 1 .. (n + k) /\ (k = 1 => q[1] = c)
    /\ \A i \in 1 .. n : q[i + k] # c /\ r[i] = q[i + k]
    /\ DOMAIN r = 1 .. n \/ (DOMAIN r = 1 .. (n + 1) /\ r[n + 1] = c)

LEMMA PassesUntaken ==
  ASSUME NEW q \in Seq(Call), NEW c \in Call, \A i \in DOMAIN q : q[i] # c
  PROVE  Passes(q, q, c) /\ Passes(q, Append(q, c), c)
<1> DEFINE n == Len(q)
           r == Append(q, c)
<1>1. n \in Nat /\ n + 0 = n /\ DOMAIN q = 1 .. n /\ \A i \in 1 .. n : i + 0 = i
  OBVIOUS
<1>2. DOMAIN r = 1 .. (n + 1) /\ r[n + 1] = c /\ \A i \in 1 .. n : r[i] = q[i]
  OBVIOUS
<1> HIDE DEF n, r
<1>3. Passes(q, q, c)
  BY <1>1 DEF Passes
<1>4. Passes(q, r, c)
  BY <1>1, <1>2 DEF Passes
<1> QED
  BY <1>3, <1>4 DEF r

LEMMA PassesTaken ==
  ASSUME NEW q \in Seq(Call), NEW c \in Call, q # <<>>, Head(q) = c,
         \A i \in DOMAIN Tail(q) : Tail(q)[i] # c
  PROVE  Passes(q, Tail(q), c) /\ Passes(q, Append(Tail(q), c), c)
<1> DEFINE t == Tail(q)
           n == Len(Tail(q))
           r == Append(Tail(q), c)
<1>1. n \in Nat /\ DOMAIN q = 1 .. (n + 1) /\ q[1] = c /\ DOMAIN t = 1 .. n
      /\ \A i \in 1 .. n : t[i] = q[i + 1]
  OBVIOUS
<1>2. DOMAIN r = 1 .. (n + 1) /\ r[n + 1] = c /\ \A i \in 1 .. n : r[i] = t[i]
  OBVIOUS
<1>3. \A i \in 1 .. n : t[i] # c
  BY <1>1
<1> HIDE DEF n, r, t
<1>4. Passes(q, t, c)
  BY <1>1, <1>3 DEF Passes
<1>5. Passes(q, r, c)
  BY <1>1, <1>2, <1>3 DEF Passes
<1> QED
  BY <1>4, <1>5 DEF r, t

(* Where their members were.                                                *)
Placed(q, r, c, k, n) ==
  /\ k <= 1
  /\ \A i \in 1 .. n : /\ i + k \in DOMAIN q /\ i \in DOMAIN r /\ r[i] = q[i + k]
                      /\ r[i] \in Call \ {c}
  /\ \A j \in DOMAIN q : \/ q[j] = c /\ j <= k
                         \/ q[j] # c /\ j - k \in 1 .. n /\ (j - k) + k = j
  /\ \A i \in DOMAIN r : i \in 1 .. n \/ r[i] = c
  /\ DOMAIN q \in SUBSET Nat /\ DOMAIN r \in SUBSET Nat

LEMMA PassesMembers ==
  ASSUME NEW q \in Seq(Call), NEW r \in Seq(Call), NEW c \in Call, Passes(q, r, c)
  PROVE  \E k \in Nat, n \in Nat : Placed(q, r, c, k, n)
<1>1. DOMAIN q \in SUBSET Nat /\ DOMAIN r \in SUBSET Nat /\ \A i \in DOMAIN q : q[i] \in Call
  OBVIOUS
<1>2. CASE \E n \in Nat :
             /\ DOMAIN q = 1 .. n
             /\ \A i \in 1 .. n : q[i] # c /\ r[i] = q[i]
             /\ DOMAIN r = 1 .. n \/ (DOMAIN r = 1 .. (n + 1) /\ r[n + 1] = c)
  <2>1. PICK n \in Nat :
             /\ DOMAIN q = 1 .. n
             /\ \A i \in 1 .. n : q[i] # c /\ r[i] = q[i]
             /\ DOMAIN r = 1 .. n \/ (DOMAIN r = 1 .. (n + 1) /\ r[n + 1] = c)
    BY <1>2
  <2>2. \A i \in 1 .. n : /\ i + 0 \in DOMAIN q /\ i \in DOMAIN r /\ r[i] = q[i + 0]
                          /\ r[i] \in Call \ {c}
    BY <1>1, <2>1
  <2>3. \A j \in DOMAIN q : q[j] # c /\ j - 0 \in 1 .. n /\ (j - 0) + 0 = j
    BY <2>1
  <2>4. \A i \in DOMAIN r : i \in 1 .. n \/ r[i] = c
    BY <2>1
  <2>5. 0 \in Nat /\ 0 <= 1
    OBVIOUS
  <2> QED
    BY <1>1, <2>2, <2>3, <2>4, <2>5 DEF Placed
<1>3. CASE \E n \in Nat :
             /\ DOMAIN q = 1 .. (n + 1) /\ q[1] = c
             /\ \A i \in 1 .. n : q[i + 1] # c /\ r[i] = q[i + 1]
             /\ DOMAIN r = 1 .. n \/ (DOMAIN r = 1 .. (n + 1) /\ r[n + 1] = c)
  <2>1. PICK n \in Nat :
             /\ DOMAIN q = 1 .. (n + 1) /\ q[1] = c
             /\ \A i \in 1 .. n : q[i + 1] # c /\ r[i] = q[i + 1]
             /\ DOMAIN r = 1 .. n \/ (DOMAIN r = 1 .. (n + 1) /\ r[n + 1] = c)
    BY <1>3
  <2>2. \A i \in 1 .. n : /\ i + 1 \in DOMAIN q /\ i \in DOMAIN r /\ r[i] = q[i + 1]
                          /\ r[i] \in Call \ {c}
    BY <1>1, <2>1
  <2>3. ASSUME NEW j \in DOMAIN q
        PROVE  \/ q[j] = c /\ j <= 1
               \/ q[j] # c /\ j - 1 \in 1 .. n /\ (j - 1) + 1 = j
    <3>1. CASE j = 1
      BY <2>1, <3>1
    <3>2. CASE j # 1
      <4>1. j - 1 \in 1 .. n /\ (j - 1) + 1 = j
        BY <2>1, <3>2
      <4> QED
        BY <2>1, <4>1
    <3> QED
      BY <3>1, <3>2
  <2>4. \A i \in DOMAIN r : i \in 1 .. n \/ r[i] = c
    BY <2>1
  <2>5. 1 \in Nat /\ 1 <= 1
    OBVIOUS
  <2> QED
    BY <1>1, <2>2, <2>3, <2>4, <2>5 DEF Placed
<1>4. PICK k \in {0, 1}, n \in Nat :
        /\ DOMAIN q = 1 .. (n + k) /\ (k = 1 => q[1] = c)
        /\ \A i \in 1 .. n : q[i + k] # c /\ r[i] = q[i + k]
        /\ DOMAIN r = 1 .. n \/ (DOMAIN r = 1 .. (n + 1) /\ r[n + 1] = c)
  BY DEF Passes
<1>5. CASE k = 0
  <2>1. n + 0 = n /\ \A i \in 1 .. n : i + 0 = i
    OBVIOUS
  <2> QED
    BY <1>2, <1>4, <1>5, <2>1
<1>6. CASE k = 1
  BY <1>3, <1>4, <1>6
<1> QED
  BY <1>4, <1>5, <1>6

(* What the queues say then; S and T: who has said something, before and    *)
(* after.                                                                   *)
LEMMA PassesNone ==
  ASSUME NEW q \in Seq(Call), NEW r \in Seq(Call), NEW c \in Call, Passes(q, r, c),
         NEW S, NEW T, \A d \in Call \ {c} : d \in S <=> d \in T
  PROVE  /\ c \notin T /\ NoneOf(q, S) => NoneOf(r, T)
         /\ c \notin S /\ NoneOf(r, T) => NoneOf(q, S)
<1>0. PICK k \in Nat, n \in Nat : Placed(q, r, c, k, n)
  BY PassesMembers, Zenon
<1>1. /\ \A i \in 1 .. n : /\ i + k \in DOMAIN q /\ i \in DOMAIN r /\ r[i] = q[i + k]
                          /\ r[i] \in Call \ {c}
      /\ \A j \in DOMAIN q : \/ q[j] = c /\ j <= k
                             \/ q[j] # c /\ j - k \in 1 .. n /\ (j - k) + k = j
      /\ \A i \in DOMAIN r : i \in 1 .. n \/ r[i] = c
  BY <1>0 DEF Placed
<1>2. ASSUME c \notin T, NoneOf(q, S) PROVE NoneOf(r, T)
  <2>1. ASSUME NEW i \in DOMAIN r PROVE r[i] \notin T
    <3>1. CASE i \in 1 .. n
      BY <1>1, <1>2, <3>1 DEF NoneOf
    <3>2. CASE r[i] = c
      BY <1>2, <3>2
    <3> QED
      BY <1>1, <3>1, <3>2
  <2> QED
    BY <2>1 DEF NoneOf
<1>3. ASSUME c \notin S, NoneOf(r, T) PROVE NoneOf(q, S)
  <2>1. ASSUME NEW j \in DOMAIN q PROVE q[j] \notin S
    <3>1. CASE q[j] = c
      BY <1>3, <3>1
    <3>2. CASE q[j] # c
      <4>1. j - k \in 1 .. n /\ (j - k) + k = j
        BY <1>1, <3>2
      <4>2. j - k \in DOMAIN r /\ r[j - k] = q[j] /\ r[j - k] \in Call \ {c}
        BY <1>1, <4>1
      <4> QED
        BY <1>3, <4>2 DEF NoneOf
    <3> QED
      BY <3>1, <3>2
  <2> QED
    BY <2>1 DEF NoneOf
<1> QED
  BY <1>2, <1>3

LEMMA PassesLast ==
  ASSUME NEW q \in Seq(Call), NEW r \in Seq(Call), NEW c \in Call, Passes(q, r, c),
         NEW S, NEW T, \A d \in Call \ {c} : d \in S <=> d \in T,
         NEW h, NEW g, \A d \in Call \ {c} : g[d] = h[d], NEW v, LastSays(q, S, h, v), c \notin T
  PROVE  /\ LastSays(r, T, g, v)
         /\ q # <<>> /\ Head(q) = c /\ c \in S /\ NoneOf(r, T) => h[c].action.muted = v
<1>0. PICK k \in Nat, n \in Nat : Placed(q, r, c, k, n)
  BY PassesMembers, Zenon
<1>1. /\ k <= 1
      /\ \A i \in 1 .. n : /\ i + k \in DOMAIN q /\ i \in DOMAIN r /\ r[i] = q[i + k]
                          /\ r[i] \in Call \ {c}
      /\ \A j \in DOMAIN q : \/ q[j] = c /\ j <= k
                             \/ q[j] # c /\ j - k \in 1 .. n /\ (j - k) + k = j
      /\ \A i \in DOMAIN r : i \in 1 .. n \/ r[i] = c
      /\ DOMAIN q \in SUBSET Nat /\ DOMAIN r \in SUBSET Nat
  BY <1>0 DEF Placed
<1>2. ASSUME NEW i \in DOMAIN r, r[i] \in T, \A j \in DOMAIN r : i < j => r[j] \notin T
      PROVE  g[r[i]].action.muted = v
  <2>1. i \in 1 .. n
    BY <1>1, <1>2
  <2>2. i + k \in DOMAIN q /\ r[i] = q[i + k] /\ r[i] \in S /\ g[r[i]] = h[r[i]]
    BY <1>1, <1>2, <2>1
  <2>3. ASSUME NEW j \in DOMAIN q, i + k < j PROVE q[j] \notin S
    <3>1. j \in Nat /\ ~(j <= k)
      BY <1>1, <2>1, <2>3
    <3>2. j - k \in 1 .. n /\ (j - k) + k = j
      BY <1>1, <3>1
    <3>3. j - k \in DOMAIN r /\ r[j - k] = q[j] /\ r[j - k] \in Call \ {c}
      BY <1>1, <3>2
    <3>4. i < j - k
      BY <1>1, <2>1, <2>3, <3>1
    <3> QED
      BY <1>2, <3>3, <3>4
  <2> QED
    BY <2>2, <2>3 DEF LastSays
<1>3. ASSUME q # <<>>, Head(q) = c, c \in S, NoneOf(r, T) PROVE h[c].action.muted = v
  <2>1. 1 \in DOMAIN q /\ q[1] = c
    BY <1>3
  <2>2. ASSUME NEW j \in DOMAIN q, 1 < j PROVE q[j] \notin S
    <3>1. j \in Nat /\ ~(j <= k)
      BY <1>1, <2>2
    <3>2. j - k \in 1 .. n /\ (j - k) + k = j
      BY <1>1, <3>1
    <3>3. j - k \in DOMAIN r /\ r[j - k] = q[j] /\ r[j - k] \in Call \ {c}
      BY <1>1, <3>2
    <3> QED
      BY <1>3, <3>3 DEF NoneOf
  <2> QED
    BY <1>3, <2>1, <2>2 DEF LastSays
<1> QED
  BY <1>2, <1>3 DEF LastSays

(* c puts itself at the end and says v.                                     *)
LEMMA PassesSaid ==
  ASSUME NEW b \in Seq(Call), NEW c \in Call, NEW T, c \in T, NEW g, NEW v, g[c].action.muted = v
  PROVE  LastSays(Append(b, c), T, g, v) /\ ~NoneOf(Append(b, c), T)
<1> DEFINE r == Append(b, c)
           n == Len(b) + 1
<1>1. n \in DOMAIN r /\ r[n] = c /\ \A i \in DOMAIN r : i < n \/ i = n
  OBVIOUS
<1> HIDE DEF r, n
<1>2. LastSays(r, T, g, v) /\ ~NoneOf(r, T)
  BY <1>1 DEF LastSays, NoneOf
<1> QED
  BY <1>2 DEF r

LEMMA PassesGiver ==
  ASSUME NEW q \in Seq(Call), NEW r \in Seq(Call), NEW c \in Call, Passes(q, r, c),
         NEW h, NEW g, \A d \in Call \ {c} : g[d] = h[d],
         NEW noted, NEW noted1, "self" \in noted => "self" \in noted1,
         Giver(q, h, noted), c \notin Undoing(g)
  PROVE  \/ Giver(r, g, noted1)
         \/ h[c].at = "getSelf" /\ ("self" \in noted1 \/ NoneOf(r, Undoing(g)))
<1>0. PICK k \in Nat, n \in Nat : Placed(q, r, c, k, n)
  BY PassesMembers, Zenon
<1>1. /\ k <= 1
      /\ \A i \in 1 .. n : /\ i + k \in DOMAIN q /\ i \in DOMAIN r /\ r[i] = q[i + k]
                          /\ r[i] \in Call \ {c}
      /\ \A j \in DOMAIN q : \/ q[j] = c /\ j <= k
                             \/ q[j] # c /\ j - k \in 1 .. n /\ (j - k) + k = j
      /\ \A i \in DOMAIN r : i \in 1 .. n \/ r[i] = c
      /\ DOMAIN q \in SUBSET Nat /\ DOMAIN r \in SUBSET Nat
  BY <1>0 DEF Placed
<1>2. \A d \in Call \ {c} : d \in Undoing(g) <=> d \in Undoing(h)
  BY DEF Undoing
<1>3. PICK i \in DOMAIN q :
        /\ h[q[i]].at = "getSelf"
        /\ \A j \in DOMAIN q : q[j] \in Undoing(h) => "self" \in noted \/ j < i
  BY DEF Giver
<1>4. CASE q[i] # c
  <2>1. i - k \in 1 .. n /\ (i - k) + k = i
    BY <1>1, <1>4
  <2>2. i - k \in DOMAIN r /\ r[i - k] = q[i] /\ r[i - k] \in Call \ {c}
    BY <1>1, <2>1
  <2>3. ASSUME NEW j \in DOMAIN r, r[j] \in Undoing(g) PROVE "self" \in noted1 \/ j < i - k
    <3>1. j \in 1 .. n
      BY <1>1, <2>3
    <3>2. j + k \in DOMAIN q /\ q[j + k] \in Undoing(h)
      BY <1>1, <1>2, <2>3, <3>1
    <3>3. "self" \in noted \/ j + k < i
      BY <1>3, <3>2
    <3>4. j \in Nat /\ i \in Nat
      BY <1>1, <3>1
    <3>5. j + k < i => j < i - k
      BY <3>4
    <3> QED
      BY <3>3, <3>5
  <2>4. g[r[i - k]].at = "getSelf"
    BY <1>3, <2>2
  <2> QED
    BY <2>2, <2>3, <2>4 DEF Giver
<1>5. CASE q[i] = c
  <2>1. i <= k /\ i \in Nat
    BY <1>1, <1>5
  <2>2. ASSUME "self" \notin noted1, NEW j \in DOMAIN r PROVE r[j] \notin Undoing(g)
    <3>1. CASE r[j] = c
      BY <3>1
    <3>2. CASE j \in 1 .. n
      <4>0. j \in Nat /\ 1 <= j
        BY <3>2
      <4>1. j + k \in DOMAIN q /\ r[j] = q[j + k] /\ r[j] \in Call \ {c}
        BY <1>1, <3>2
      <4>2. ~(j + k < i)
        BY <2>1, <4>0
      <4>3. q[j + k] \notin Undoing(h)
        BY <1>3, <2>2, <4>1, <4>2
      <4> QED
        BY <1>2, <4>1, <4>3
    <3> QED
      BY <1>1, <3>1, <3>2
  <2> QED
    BY <1>3, <1>5, <2>2 DEF NoneOf
<1> QED
  BY <1>4, <1>5

(* c goes on, alone, through the queues.                                    *)
PassesBy(c) ==
  /\ \A d \in Call \ {c} : calls'[d] = calls[d]
  /\ \A s \in Service : Passes(queue[s], queue'[s], c)

LEMMA TurnPasses ==
  ASSUME queue \in [Service -> Seq(Call)], Queued(queue, calls),
         NEW s \in Service, NEW c \in Call, NEW at \in PlacesOf[s], Turn(s, c, at),
         \/ queue' = Answered(s)
         \/ \E t \in Service : queue' = Request(Answered(s), t, c)
  PROVE  \A u \in Service : Passes(queue[u], queue'[u], c)
<1> DEFINE q == queue[s]
           r == Tail(queue[s])
<1>1. q \in Seq(Call) /\ q # <<>> /\ Head(q) = c
  BY DEF Turn
<1>2. /\ Answered(s) \in [Service -> Seq(Call)] /\ Absent(Answered(s), c)
  BY AnsweredQueue
<1>3. /\ Answered(s)[s] = r
      /\ \A t \in Service : t # s => Answered(s)[t] = queue[t]
  BY DEF Answered
<1>4. \A i \in DOMAIN r : r[i] # c
  BY <1>2, <1>3 DEF Absent
<1>5. Passes(q, r, c) /\ Passes(q, Append(r, c), c)
  BY <1>1, <1>4, PassesTaken
<1>6. ASSUME NEW t \in Service, t # s
      PROVE  Passes(queue[t], queue[t], c) /\ Passes(queue[t], Append(queue[t], c), c)
  <2>1. \A i \in DOMAIN queue[t] : queue[t][i] # c
    BY <1>2, <1>3, <1>6 DEF Absent
  <2> QED
    BY <2>1, PassesUntaken
<1>7. ASSUME NEW u \in Service
      PROVE  Passes(queue[u], Answered(s)[u], c) /\ Passes(queue[u], Append(Answered(s)[u], c), c)
  BY <1>3, <1>5, <1>6
<1> HIDE DEF q, r
<1>8. ASSUME NEW t \in Service, queue' = Request(Answered(s), t, c), NEW u \in Service
      PROVE  Passes(queue[u], queue'[u], c)
  <2>1. queue'[u] = IF u = t THEN Append(Answered(s)[u], c) ELSE Answered(s)[u]
    BY <1>2, <1>8 DEF Request
  <2> QED
    BY <1>7, <2>1
<1> QED
  BY <1>7, <1>8

LEMMA JumpPasses ==
  ASSUME queue \in [Service -> Seq(Call)], Queued(queue, calls),
         NEW c \in Call, calls[c].at \in Elsewhere,
         queue' = queue \/ \E t \in Service : queue' = Request(queue, t, c)
  PROVE  \A u \in Service : Passes(queue[u], queue'[u], c)
<1>1. Absent(queue, c)
  BY ElsewhereAbsent
<1>2. ASSUME NEW u \in Service
      PROVE  Passes(queue[u], queue[u], c) /\ Passes(queue[u], Append(queue[u], c), c)
  <2>1. \A i \in DOMAIN queue[u] : queue[u][i] # c
    BY <1>1 DEF Absent
  <2> QED
    BY <2>1, PassesUntaken
<1>3. ASSUME NEW t \in Service, queue' = Request(queue, t, c), NEW u \in Service
      PROVE  Passes(queue[u], queue'[u], c)
  <2>1. queue'[u] = IF u = t THEN Append(queue[u], c) ELSE queue[u]
    BY <1>3 DEF Request
  <2> QED
    BY <1>2, <2>1
<1> QED
  BY <1>2, <1>3

(* One that says nothing about the switch.                                  *)
Plain(h) == h.at # "putSelf" /\ (h.at \in {"has", "ask", "undo"} => h.action.kind # "self")

LEMMA PlainSays ==
  ASSUME NEW h, NEW c \in Call, Plain(h[c])
  PROVE  c \notin Asking(h) /\ c \notin Saying(h) /\ c \notin Undoing(h)
  BY DEF Plain, Asking, Saying, Undoing

LEMMA OthersSay ==
  ASSUME NEW h, NEW g, NEW c \in Call, \A d \in Call \ {c} : g[d] = h[d]
  PROVE  \A d \in Call \ {c} : /\ d \in Asking(h) <=> d \in Asking(g)
                               /\ d \in Saying(h) <=> d \in Saying(g)
                               /\ d \in Undoing(h) <=> d \in Undoing(g)
  BY DEF Asking, Saying, Undoing

LEMMA PassesAsking ==
  ASSUME NEW q \in Seq(Call), NEW r \in Seq(Call), NEW c \in Call, Passes(q, r, c),
         NEW h, NEW g, \A d \in Call \ {c} : g[d] = h[d]
  PROVE  /\ c \notin Asking(h) /\ NoneOf(r, Asking(g)) => NoneOf(q, Asking(h))
         /\ \A v : c \notin Asking(g) /\ LastSays(q, Asking(h), h, v) =>
              /\ LastSays(r, Asking(g), g, v)
              /\ q # <<>> /\ Head(q) = c /\ c \in Asking(h) /\ NoneOf(r, Asking(g))
                   => h[c].action.muted = v
<1> DEFINE S == Asking(h)
           T == Asking(g)
<1>1. \A d \in Call \ {c} : d \in S <=> d \in T
  BY OthersSay
<1> HIDE DEF S, T
<1>2. c \notin S /\ NoneOf(r, T) => NoneOf(q, S)
  BY <1>1, PassesNone, Zenon
<1>3. ASSUME NEW v, c \notin T, LastSays(q, S, h, v)
      PROVE  /\ LastSays(r, T, g, v)
             /\ q # <<>> /\ Head(q) = c /\ c \in S /\ NoneOf(r, T) => h[c].action.muted = v
  BY <1>1, <1>3, PassesLast, Zenon
<1> QED
  BY <1>2, <1>3, Zenon DEF S, T

LEMMA PassesSaying ==
  ASSUME NEW q \in Seq(Call), NEW r \in Seq(Call), NEW c \in Call, Passes(q, r, c),
         NEW h, NEW g, \A d \in Call \ {c} : g[d] = h[d]
  PROVE  /\ c \notin Saying(h) /\ NoneOf(r, Saying(g)) => NoneOf(q, Saying(h))
         /\ \A v : c \notin Saying(g) /\ LastSays(q, Saying(h), h, v) =>
              /\ LastSays(r, Saying(g), g, v)
              /\ q # <<>> /\ Head(q) = c /\ c \in Saying(h) /\ NoneOf(r, Saying(g))
                   => h[c].action.muted = v
<1> DEFINE S == Saying(h)
           T == Saying(g)
<1>1. \A d \in Call \ {c} : d \in S <=> d \in T
  BY OthersSay
<1> HIDE DEF S, T
<1>2. c \notin S /\ NoneOf(r, T) => NoneOf(q, S)
  BY <1>1, PassesNone, Zenon
<1>3. ASSUME NEW v, c \notin T, LastSays(q, S, h, v)
      PROVE  /\ LastSays(r, T, g, v)
             /\ q # <<>> /\ Head(q) = c /\ c \in S /\ NoneOf(r, T) => h[c].action.muted = v
  BY <1>1, <1>3, PassesLast, Zenon
<1> QED
  BY <1>2, <1>3, Zenon DEF S, T

LEMMA PassesUndoing ==
  ASSUME NEW q \in Seq(Call), NEW r \in Seq(Call), NEW c \in Call, Passes(q, r, c),
         NEW h, NEW g, \A d \in Call \ {c} : g[d] = h[d], c \notin Undoing(g),
         NoneOf(q, Undoing(h))
  PROVE  NoneOf(r, Undoing(g))
<1> DEFINE S == Undoing(h)
           T == Undoing(g)
<1>1. \A d \in Call \ {c} : d \in S <=> d \in T
  BY OthersSay
<1>2. NoneOf(q, S) /\ c \notin T
  OBVIOUS
<1> SUFFICES NoneOf(r, T)
  OBVIOUS
<1> HIDE DEF S, T
<1> QED
  BY <1>1, <1>2, PassesNone, Zenon

LEMMA QueueTypes ==
  ASSUME Basic
  PROVE  /\ \A s \in Service : queue[s] \in Seq(Call)
         /\ queue["storage"] \in Seq(Call) /\ queue["browser"] \in Seq(Call)
         /\ queue["document"] \in Seq(Call)
         /\ {"storage", "browser", "document"} = Service
  BY DEF Basic, TypeOK, Service

(* What was noted stays noted.                                              *)
Noted ==
  overlapped \subseteq overlapped' /\ (replaced => replaced') /\ (undone => undone')

LEMMA StillNotExcepted ==
  ASSUME Noted, ~Excepted'
  PROVE  ~Excepted /\ ("self" \in overlapped => "self" \in overlapped')
  BY DEF Noted, Excepted

(* What the three queues say after a step of c.                             *)
LEMMA QueuesSay ==
  ASSUME Basic, Basic', NEW c \in Call, PassesBy(c)
  PROVE  /\ /\ c \notin Asking(calls) /\ NoneOf(queue'["browser"], Asking(calls'))
               => NoneOf(queue["browser"], Asking(calls))
            /\ \A v : c \notin Asking(calls') /\ LastSays(queue["browser"], Asking(calls), calls, v) =>
                 /\ LastSays(queue'["browser"], Asking(calls'), calls', v)
                 /\ /\ queue["browser"] # <<>> /\ Head(queue["browser"]) = c /\ c \in Asking(calls)
                    /\ NoneOf(queue'["browser"], Asking(calls'))
                    => calls[c].action.muted = v
         /\ /\ c \notin Saying(calls) /\ NoneOf(queue'["document"], Saying(calls'))
               => NoneOf(queue["document"], Saying(calls))
            /\ \A v : c \notin Saying(calls') /\ LastSays(queue["document"], Saying(calls), calls, v) =>
                 /\ LastSays(queue'["document"], Saying(calls'), calls', v)
                 /\ /\ queue["document"] # <<>> /\ Head(queue["document"]) = c /\ c \in Saying(calls)
                    /\ NoneOf(queue'["document"], Saying(calls'))
                    => calls[c].action.muted = v
         /\ c \notin Undoing(calls') /\ NoneOf(queue["storage"], Undoing(calls))
              => NoneOf(queue'["storage"], Undoing(calls'))
         /\ c \notin Undoing(calls') /\ WillBeGiven /\ ("self" \in overlapped => "self" \in overlapped') =>
              \/ WillBeGiven'
              \/ /\ calls[c].at = "getSelf"
                 /\ "self" \in overlapped' \/ NoneOf(queue'["storage"], Undoing(calls'))
<1> DEFINE h == calls
           g == calls'
           qb == queue["browser"]
           rb == queue'["browser"]
           qd == queue["document"]
           rd == queue'["document"]
           qs == queue["storage"]
           rs == queue'["storage"]
           o == overlapped
           o1 == overlapped'
<1>1. /\ qb \in Seq(Call) /\ rb \in Seq(Call) /\ Passes(qb, rb, c)
      /\ qd \in Seq(Call) /\ rd \in Seq(Call) /\ Passes(qd, rd, c)
      /\ qs \in Seq(Call) /\ rs \in Seq(Call) /\ Passes(qs, rs, c)
  BY DEF Basic, TypeOK, Service, PassesBy
<1>2. \A d \in Call \ {c} : g[d] = h[d]
  BY DEF PassesBy
<1>3. WillBeGiven => Giver(qs, h, o)
  BY DEF WillBeGiven
<1>4. Giver(rs, g, o1) => WillBeGiven'
  BY DEF WillBeGiven
<1> HIDE DEF h, g, qb, rb, qd, rd, qs, rs, o, o1
<1>5. /\ c \notin Asking(h) /\ NoneOf(rb, Asking(g)) => NoneOf(qb, Asking(h))
      /\ \A v : c \notin Asking(g) /\ LastSays(qb, Asking(h), h, v) =>
           /\ LastSays(rb, Asking(g), g, v)
           /\ qb # <<>> /\ Head(qb) = c /\ c \in Asking(h) /\ NoneOf(rb, Asking(g))
                => h[c].action.muted = v
  BY <1>1, <1>2, PassesAsking, Zenon
<1>6. /\ c \notin Saying(h) /\ NoneOf(rd, Saying(g)) => NoneOf(qd, Saying(h))
      /\ \A v : c \notin Saying(g) /\ LastSays(qd, Saying(h), h, v) =>
           /\ LastSays(rd, Saying(g), g, v)
           /\ qd # <<>> /\ Head(qd) = c /\ c \in Saying(h) /\ NoneOf(rd, Saying(g))
                => h[c].action.muted = v
  BY <1>1, <1>2, PassesSaying, Zenon
<1>7. c \notin Undoing(g) /\ NoneOf(qs, Undoing(h)) => NoneOf(rs, Undoing(g))
  BY <1>1, <1>2, PassesUndoing, Zenon
<1>8. ASSUME c \notin Undoing(g), Giver(qs, h, o), "self" \in o => "self" \in o1
      PROVE  \/ Giver(rs, g, o1)
             \/ h[c].at = "getSelf" /\ ("self" \in o1 \/ NoneOf(rs, Undoing(g)))
  <2>1. qs \in Seq(Call) /\ rs \in Seq(Call) /\ Passes(qs, rs, c)
    BY <1>1
  <2> QED
    BY <1>2, <1>8, <2>1, PassesGiver, Zenon
<1>9. c \notin Undoing(g) /\ WillBeGiven /\ ("self" \in o => "self" \in o1) =>
        \/ WillBeGiven'
        \/ h[c].at = "getSelf" /\ ("self" \in o1 \/ NoneOf(rs, Undoing(g)))
  BY <1>3, <1>4, <1>8
<1> USE DEF h, g, qb, rb, qd, rd, qs, rs, o, o1
<1> QED
  BY <1>5, <1>6, <1>7, <1>9, Zenon

(* What the queue of the browser says, when c does not join it to say more. *)
LEMMA BrowserKept ==
  ASSUME Basic, Basic', SelfSwitch, NEW c \in Call, PassesBy(c), ~Excepted,
         c \notin Asking(calls'), store'.selfMuted = store.selfMuted
  PROVE  LastSays(queue'["browser"], Asking(calls'), calls', store'.selfMuted)
<1>1. LastSays(queue["browser"], Asking(calls), calls, store.selfMuted)
  BY DEF SelfSwitch
<1>2. LastSays(queue'["browser"], Asking(calls'), calls', store.selfMuted)
  BY <1>1, QueuesSay
<1> QED
  BY <1>2

(* No document after the step.                                              *)
LEMMA SelfAbsent ==
  ASSUME Basic, Basic', SelfSwitch, NEW c \in Call, PassesBy(c), Noted,
         c \notin Asking(calls'), store'.selfMuted = store.selfMuted, ~Exists'
  PROVE  SelfSwitch'
<1> SUFFICES ASSUME ~Excepted' PROVE SelfSwitch'
  BY DEF SelfSwitch
<1>1. LastSays(queue'["browser"], Asking(calls'), calls', store'.selfMuted)
  BY StillNotExcepted, BrowserKept
<1> QED
  BY <1>1 DEF SelfSwitch

(* c has nothing to do with the switch.                                     *)
LEMMA SelfKept ==
  ASSUME Basic, Basic', SelfSwitch, NEW c \in Call, PassesBy(c), Noted,
         Plain(calls[c]), Plain(calls'[c]), calls[c].at # "getSelf",
         store'.selfMuted = store.selfMuted, Exists' => Exists /\ doc'.selfMuted = doc.selfMuted
  PROVE  SelfSwitch'
<1> SUFFICES ASSUME ~Excepted' PROVE SelfSwitch'
  BY DEF SelfSwitch
<1>1. /\ ~Excepted /\ ("self" \in overlapped => "self" \in overlapped')
      /\ c \notin Asking(calls) /\ c \notin Saying(calls) /\ c \notin Undoing(calls)
      /\ c \notin Asking(calls') /\ c \notin Saying(calls') /\ c \notin Undoing(calls')
      /\ calls[c].at # "getSelf"
  BY StillNotExcepted, PlainSays
<1>2. LastSays(queue'["browser"], Asking(calls'), calls', store'.selfMuted)
  BY <1>1, BrowserKept
<1>3. ASSUME Exists, OnTheWay, doc'.selfMuted = doc.selfMuted PROVE OnTheWay'
  <2>1. "self" \in overlapped' \/ NoneOf(queue'["storage"], Undoing(calls'))
    <3>1. NoneOf(queue["storage"], Undoing(calls)) => NoneOf(queue'["storage"], Undoing(calls'))
      BY <1>1, QueuesSay
    <3> QED
      BY <1>1, <1>3, <3>1 DEF OnTheWay
  <2>2. NoneOf(queue'["browser"], Asking(calls')) => NoneOf(queue["browser"], Asking(calls))
    BY <1>1, QueuesSay
  <2>3. LastSays(queue["document"], Saying(calls), calls, store.selfMuted)
          => LastSays(queue'["document"], Saying(calls'), calls', store.selfMuted)
    BY <1>1, QueuesSay
  <2>4. NoneOf(queue'["document"], Saying(calls')) => NoneOf(queue["document"], Saying(calls))
    BY <1>1, QueuesSay
  <2> QED
    BY <1>3, <2>1, <2>2, <2>3, <2>4 DEF OnTheWay
<1>4. ASSUME WillBeGiven PROVE WillBeGiven'
  BY <1>1, <1>4, QueuesSay
<1>5. Exists' => OnTheWay' \/ WillBeGiven'
  BY <1>1, <1>3, <1>4 DEF SelfSwitch
<1> QED
  BY <1>2, <1>5 DEF SelfSwitch

(* Every step of a handler but the closing of the document.                 *)
LEMMA PassesTurn ==
  ASSUME Basic, NEW s \in Service, NEW c \in Call, NEW at \in PlacesOf[s], Turn(s, c, at),
         \A d \in Call \ {c} : calls'[d] = calls[d],
         queue' = Answered(s) \/ \E t \in Service : queue' = Request(Answered(s), t, c)
  PROVE  PassesBy(c)
<1>1. queue \in [Service -> Seq(Call)] /\ Queued(queue, calls)
  BY DEF Basic, TypeOK
<1>2. \A u \in Service : Passes(queue[u], queue'[u], c)
  BY <1>1, TurnPasses, Zenon
<1> QED
  BY <1>2 DEF PassesBy

LEMMA PassesJump ==
  ASSUME Basic, NEW c \in Call, calls[c].at \in Elsewhere,
         \A d \in Call \ {c} : calls'[d] = calls[d],
         queue' = queue \/ \E t \in Service : queue' = Request(queue, t, c)
  PROVE  PassesBy(c)
<1>1. queue \in [Service -> Seq(Call)] /\ Queued(queue, calls)
  BY DEF Basic, TypeOK
<1>2. \A u \in Service : Passes(queue[u], queue'[u], c)
  BY <1>1, JumpPasses, Zenon
<1> QED
  BY <1>2 DEF PassesBy

LEMMA PassesEnd ==
  ASSUME Basic, NEW s \in Service, NEW c \in Call, NEW at \in PlacesOf[s], Turn(s, c, at),
         NEW how, End(c, calls, Answered(s), how)
  PROVE  PassesBy(c)
<1>1. \A d \in Call \ {c} : calls'[d] = calls[d]
  BY EndStays
<1>2. queue' = Answered(s)
  BY DEF End
<1> QED
  BY <1>1, <1>2, PassesTurn

LEMMA StoragePasses ==
  ASSUME Basic, NEW c \in Call,
         \/ Read(c) \/ ReadToggle(c) \/ Write(c) \/ Undo(c) \/ AddTab(c) \/ GetSelfMuted(c)
         \/ GetDevice(c) \/ ReadRules(c) \/ ClearStorage(c)
  PROVE  PassesBy(c)
<1>0. /\ {"storage", "browser", "document"} \subseteq Service
      /\ {"read", "toggle", "write", "undo", "add", "getSelf", "getDevice", "clear", "wipe"}
           \subseteq PlacesOf["storage"]
  BY DEF Service, PlacesOf
<1>1. CASE Read(c)
  <2>1. Turn("storage", c, "read") /\ queue' = Request(Answered("storage"), "storage", c)
    BY <1>1 DEF Read, Reread
  <2> QED
    BY <1>0, <1>1, <2>1, PassesTurn, ReadBasic DEF Now
<1>2. CASE ReadToggle(c)
  <2>1. Turn("storage", c, "toggle") /\ queue' = Request(Answered("storage"), "storage", c)
    BY <1>2 DEF ReadToggle, Reread
  <2> QED
    BY <1>0, <1>2, <2>1, PassesTurn, ReadToggleBasic DEF Now
<1>3. CASE Write(c)
  <2>1. Turn("storage", c, "write")
    BY <1>3, WriteBasic
  <2>2. CASE End(c, calls, Answered("storage"), "silent")
    BY <1>0, <2>1, <2>2, PassesEnd
  <2>3. CASE /\ Now(c, "has", calls[c].action, calls[c].was)
             /\ queue' = Request(Answered("storage"), "browser", c)
    BY <1>0, <2>1, <2>3, PassesTurn DEF Now
  <2> QED
    BY <1>3, <2>2, <2>3, WriteBasic
<1>4. CASE Undo(c)
  BY <1>0, <1>4, PassesEnd DEF Undo
<1>5. CASE AddTab(c)
  <2>1. Turn("storage", c, "add") /\ queue' = Request(Answered("storage"), "browser", c)
    BY <1>5 DEF AddTab
  <2> QED
    BY <1>0, <1>5, <2>1, PassesTurn, AddTabBasic DEF Now
<1>6. CASE GetSelfMuted(c)
  <2>1. Turn("storage", c, "getSelf") /\ queue' = Request(Answered("storage"), "document", c)
    BY <1>6 DEF GetSelfMuted
  <2> QED
    BY <1>0, <1>6, <2>1, PassesTurn, GetSelfMutedBasic DEF Now
<1>7. CASE GetDevice(c)
  <2>1. Turn("storage", c, "getDevice") /\ queue' = Request(Answered("storage"), "document", c)
    BY <1>7 DEF GetDevice
  <2> QED
    BY <1>0, <1>7, <2>1, PassesTurn, GetDeviceBasic DEF Now
<1>8. CASE ReadRules(c)
  <2>1. Turn("storage", c, "clear") /\ queue' = Request(Answered("storage"), "browser", c)
    BY <1>8 DEF ReadRules
  <2> QED
    BY <1>0, <1>8, <2>1, PassesTurn, ReadRulesBasic DEF Now
<1>9. CASE ClearStorage(c)
  BY <1>0, <1>9, PassesEnd DEF ClearStorage
<1> QED
  BY <1>1, <1>2, <1>3, <1>4, <1>5, <1>6, <1>7, <1>8, <1>9

LEMMA BrowserPasses ==
  ASSUME Basic, NEW c \in Call,
         \/ HasDocument(c) \/ EnsureDocument(c) \/ CreateDocument(c) \/ (StopAll(c) /\ ~Exists)
  PROVE  PassesBy(c)
<1>0. /\ {"storage", "browser", "document"} \subseteq Service
      /\ {"has", "ensure", "create", "close"} \subseteq PlacesOf["browser"]
  BY DEF Service, PlacesOf
<1>1. CASE HasDocument(c)
  <2>1. Turn("browser", c, "has")
    BY <1>1, HasDocumentBasic
  <2>2. CASE End(c, calls, Answered("browser"), "silent")
    BY <1>0, <2>1, <2>2, PassesEnd
  <2>3. CASE /\ Now(c, "ask", calls[c].action, calls[c].was)
             /\ queue' = Request(Answered("browser"), "document", c)
    BY <1>0, <2>1, <2>3, PassesTurn DEF Now
  <2> QED
    BY <1>1, <2>2, <2>3, HasDocumentBasic
<1>2. CASE EnsureDocument(c)
  <2>1. /\ Turn("browser", c, "ensure")
        /\ queue' = Answered("browser") \/ \E t \in Service : queue' = Request(Answered("browser"), t, c)
    BY <1>0, <1>2 DEF EnsureDocument, Goto
  <2>2. \A d \in Call \ {c} : calls'[d] = calls[d]
    BY <1>2, EnsureDocumentBasic DEF Now
  <2> QED
    BY <1>0, <2>1, <2>2, PassesTurn
<1>3. CASE CreateDocument(c)
  <2>1. Turn("browser", c, "create") /\ queue' = Answered("browser")
    BY <1>3 DEF CreateDocument
  <2> QED
    BY <1>0, <1>3, <2>1, PassesTurn, CreateDocumentBasic DEF Now
<1>4. CASE StopAll(c) /\ ~Exists
  <2>1. Turn("browser", c, "close") /\ End(c, calls, Answered("browser"), "silent")
    BY <1>4, StopAllBasic
  <2> QED
    BY <1>0, <2>1, PassesEnd
<1> QED
  BY <1>1, <1>2, <1>3, <1>4

LEMMA OffscreenPasses ==
  ASSUME Basic, NEW c \in Call,
         \/ Ask(c) \/ PutSettings(c) \/ EnsureMicrophone(c) \/ CaptureTab(c)
         \/ MicrophoneOpened(c) \/ Failed(c)
  PROVE  PassesBy(c)
<1>0. /\ {"storage", "browser", "document"} \subseteq Service
      /\ {"ask", "putSelf", "putMic", "putMonitor", "ensureMic", "capture"} \subseteq PlacesOf["document"]
      /\ {"opening", "reopening", "lost"} \subseteq Elsewhere
  BY DEF Service, PlacesOf, Elsewhere
<1>1. CASE Ask(c)
  <2>1. Turn("document", c, "ask")
    BY <1>1, AskBasic
  <2>2. CASE \E how \in {"silent", "told"} : End(c, calls, Answered("document"), how)
    BY <1>0, <2>1, <2>2, PassesEnd
  <2>3. CASE /\ \E to \in {"undo", "opening"} : Now(c, to, calls[c].action, calls[c].was)
             /\ queue' = Answered("document") \/ queue' = Request(Answered("document"), "storage", c)
    BY <1>0, <2>1, <2>3, PassesTurn DEF Now
  <2> QED
    BY <1>1, <2>2, <2>3, AskBasic
<1>2. CASE PutSettings(c)
  <2>1. /\ Turn("document", c, calls[c].at) /\ calls[c].at \in PlacesOf["document"]
        /\ \A d \in Call \ {c} : calls'[d] = calls[d]
    BY <1>0, <1>2, PutSettingsBasic
  <2>2. CASE ~Exists
    <3>1. End(c, calls, Answered("document"), "silent")
      BY <1>2, <2>2, PutSettingsBasic
    <3> QED
      BY <1>0, <2>1, <3>1, PassesEnd
  <2>3. CASE Exists
    <3>1. \E t \in Service : queue' = Request(Answered("document"), t, c)
      BY <1>2, <2>3, PutSettingsBasic
    <3> QED
      BY <1>0, <2>1, <3>1, PassesTurn
  <2> QED
    BY <2>2, <2>3
<1>3. CASE EnsureMicrophone(c)
  <2>1. Turn("document", c, "ensureMic")
    BY <1>3, EnsureMicrophoneBasic
  <2>2. CASE ~Exists
    <3>1. End(c, calls, Answered("document"), "silent")
      BY <1>3, <2>2, EnsureMicrophoneBasic
    <3> QED
      BY <1>0, <2>1, <3>1, PassesEnd
  <2>3. CASE Exists
    <3>1. /\ \A d \in Call \ {c} : calls'[d] = calls[d]
          /\ \/ queue' = Answered("document")
             \/ queue' = Request(Answered("document"), "document", c)
      BY <1>3, <2>3, EnsureMicrophoneBasic DEF Now
    <3> QED
      BY <1>0, <2>1, <3>1, PassesTurn
  <2> QED
    BY <2>2, <2>3
<1>4. CASE CaptureTab(c)
  <2>1. Turn("document", c, "capture")
    BY <1>4, CaptureTabBasic
  <2>2. CASE \E how \in {"added", "silent"} : End(c, calls, Answered("document"), how)
    BY <1>0, <2>1, <2>2, PassesEnd
  <2>3. CASE /\ Now(c, "reopening", [calls[c].action EXCEPT !.value = doc.device], calls[c].was)
             /\ queue' = Answered("document")
    <3>1. \A d \in Call \ {c} : calls'[d] = calls[d]
      BY <2>3 DEF Now
    <3> QED
      BY <1>0, <2>1, <2>3, <3>1, PassesTurn
  <2> QED
    BY <1>4, <2>2, <2>3, CaptureTabBasic
<1>5. CASE MicrophoneOpened(c)
  <2>1. calls[c].at \in Elsewhere
    BY <1>0, <1>5, MicrophoneOpenedBasic
  <2>2. /\ \A d \in Call \ {c} : calls'[d] = calls[d]
        /\ queue' = queue \/ queue' = Request(queue, "document", c)
    <3>1. CASE \E how \in {"added", "told"} : End(c, calls, queue, how)
      BY <3>1, EndStays DEF End
    <3>2. CASE Now(c, "capture", calls[c].action, calls[c].was) /\ queue' = Request(queue, "document", c)
      BY <3>2 DEF Now
    <3> QED
      BY <1>5, <3>1, <3>2, MicrophoneOpenedBasic
  <2> QED
    BY <1>0, <2>1, <2>2, PassesJump
<1>6. CASE Failed(c)
  <2>1. calls[c].at \in Elsewhere
    BY <1>0, <1>6, FailedBasic
  <2>2. /\ \A d \in Call \ {c} : calls'[d] = calls[d]
        /\ queue' = queue \/ queue' = Request(queue, "storage", c)
    <3>1. CASE \E how : End(c, calls, queue, how)
      BY <3>1, EndStays DEF End
    <3>2. CASE Now(c, "undo", calls[c].action, calls[c].was) /\ queue' = Request(queue, "storage", c)
      BY <3>2 DEF Now
    <3> QED
      BY <1>6, <3>1, <3>2, FailedBasic
  <2> QED
    BY <1>0, <2>1, <2>2, PassesJump
<1> QED
  BY <1>1, <1>2, <1>3, <1>4, <1>5, <1>6

(* What the steps do to what the document hears of the switch.              *)
LEMMA SelfReads ==
  ASSUME Basic, SelfSwitch, NEW c \in Call,
         Read(c) \/ ReadToggle(c) \/ AddTab(c) \/ GetDevice(c) \/ ReadRules(c)
  PROVE  SelfSwitch'
<1>1. PassesBy(c)
  BY StoragePasses
<1>2. /\ Basic' /\ UNCHANGED <<store, doc, overlapped, replaced, undone>>
      /\ calls[c].at \in {"read", "toggle", "add", "getDevice", "clear"}
      /\ calls'[c].at \in {"write", "read", "ensure", "ensureMic", "close"}
  BY ReadBasic, ReadToggleBasic, AddTabBasic, GetDeviceBasic, ReadRulesBasic
     DEF Now, Read, ReadToggle, AddTab, GetDevice, ReadRules, Turn
<1>3. /\ Plain(calls[c]) /\ Plain(calls'[c]) /\ calls[c].at # "getSelf" /\ Noted
      /\ store'.selfMuted = store.selfMuted /\ (Exists' => Exists /\ doc'.selfMuted = doc.selfMuted)
  BY <1>2 DEF Plain, Noted, Exists
<1> QED
  BY <1>1, <1>2, <1>3, SelfKept

(* Nobody was to tell the document anything.                                *)
LEMMA SelfReplaced ==
  ASSUME Basic, NEW c \in Call, \A d \in Call \ {c} : calls'[d] = calls[d], calls'[c] = Idle,
         doc' = doc, ~InUse
  PROVE  SelfSwitch'
<1>1. ~Exists'
  BY DEF InUse, Exists
<1>2. ASSUME NEW d \in Asking(calls') PROVE FALSE
  <2>1. d # c
    BY <1>2, StoreTypes DEF Asking
  <2>2. d \in Call /\ calls[d].at = "has" /\ calls[d].action.kind = "self"
    BY <1>2, <2>1 DEF Asking
  <2>3. d \in Running /\ "self" \in Uses(calls[d].action)
    BY <2>2 DEF Running, Uses
  <2> QED
    BY <2>3 DEF InUse
<1>3. LastSays(queue'["browser"], Asking(calls'), calls', store'.selfMuted)
  BY <1>2 DEF LastSays
<1> QED
  BY <1>1, <1>3 DEF SelfSwitch

LEMMA OnlySelf ==
  ASSUME Basic, Lone, NEW c \in Call, "self" \notin overlapped, "self" \in Uses(calls[c].action),
         NEW d \in Call \ {c}
  PROVE  d \notin Asking(calls) /\ d \notin Undoing(calls)
<1>1. "self" \notin Uses(calls[d].action)
  BY DEF Lone
<1>2. calls[d].action.kind # "self"
  BY <1>1 DEF Uses
<1> QED
  BY <1>2 DEF Asking, Undoing

(* c asks another service than the one that answered.                       *)
LEMMA PutAtEnd ==
  ASSUME Basic, NEW s \in Service, NEW t \in Service, NEW c \in Call, NEW at \in PlacesOf[s],
         Turn(s, c, at), queue' = Request(Answered(s), t, c)
  PROVE  \E b \in Seq(Call) : queue'[t] = Append(b, c)
<1>1. Answered(s) \in [Service -> Seq(Call)]
  BY AnsweredQueue DEF Basic, TypeOK
<1>2. queue'[t] = Append(Answered(s)[t], c) /\ Answered(s)[t] \in Seq(Call)
  BY <1>1 DEF Request
<1> QED
  BY <1>2

LEMMA SelfWrite ==
  ASSUME Basic, Lone, SelfSwitch, NEW c \in Call, Write(c)
  PROVE  SelfSwitch'
<1> DEFINE a == calls[c].action
<1>1. /\ Basic' /\ Turn("storage", c, "write") /\ UNCHANGED <<doc, undone>>
      /\ replaced' = (replaced \/ (a.kind = "import" /\ InUse)) /\ PassesBy(c)
      /\ Written(a, calls[c].was) /\ calls[c].at = "write" /\ overlapped' = overlapped
      /\ a.kind \in KindsAt("write")
  BY WriteBasic, WriteStore, StoragePasses, StorageGoes, BasicFacts DEF Turn, Goes
<1>2. \/ a.kind \in {"select", "import"} /\ End(c, calls, Answered("storage"), "silent")
      \/ /\ a.kind \in Told /\ calls'[c].at = "has" /\ calls'[c].action = a
         /\ queue' = Request(Answered("storage"), "browser", c)
  BY WriteBasic DEF Now
<1>3. \A d \in Call \ {c} : calls'[d] = calls[d]
  BY <1>1 DEF PassesBy
<1> SUFFICES ASSUME ~Excepted' PROVE SelfSwitch'
  BY DEF SelfSwitch
<1>4. CASE a.kind = "import"
  <2>1. calls'[c] = Idle
    BY <1>2, <1>4, EndStays DEF Told, Switch
  <2>2. ~InUse
    BY <1>1, <1>4 DEF Excepted
  <2> QED
    BY <1>1, <1>3, <2>1, <2>2, SelfReplaced
<1>5. CASE a.kind = "self"
  <2>1. /\ calls'[c].at = "has" /\ calls'[c].action = a /\ store'.selfMuted = a.muted
        /\ queue' = Request(Answered("storage"), "browser", c)
    BY <1>1, <1>2, <1>5 DEF Written
  <2>2. "storage" \in Service /\ "browser" \in Service /\ "write" \in PlacesOf["storage"]
    BY DEF Service, PlacesOf
  <2>3. PICK b \in Seq(Call) : queue'["browser"] = Append(b, c)
    BY <1>1, <2>1, <2>2, PutAtEnd
  <2>4. c \in Asking(calls') /\ calls'[c].action.muted = store'.selfMuted
    BY <1>5, <2>1 DEF Asking
  <2>5. /\ LastSays(queue'["browser"], Asking(calls'), calls', store'.selfMuted)
        /\ ~NoneOf(queue'["browser"], Asking(calls'))
    BY <2>3, <2>4, PassesSaid
  <2>6. "self" \in overlapped' \/ NoneOf(queue'["storage"], Undoing(calls'))
    <3>1. ASSUME "self" \notin overlapped, NEW d \in Undoing(calls') PROVE FALSE
      <4>1. d # c /\ d \in Call
        BY <2>1, <3>1 DEF Undoing
      <4>2. d \in Undoing(calls)
        BY <1>3, <3>1, <4>1 DEF Undoing
      <4>3. "self" \in Uses(a)
        BY <1>5 DEF Uses
      <4> QED
        BY <3>1, <4>1, <4>2, <4>3, OnlySelf
    <3> QED
      BY <1>1, <3>1 DEF NoneOf
  <2>7. OnTheWay'
    BY <2>5, <2>6 DEF OnTheWay
  <2> QED
    BY <2>5, <2>7 DEF SelfSwitch
<1>6. CASE a.kind \notin {"import", "self"}
  <2>1. store'.selfMuted = store.selfMuted
    BY <1>1, <1>6 DEF Written, KindsAt, Told
  <2>2. Plain(calls[c]) /\ Plain(calls'[c])
    <3>1. Plain(calls[c])
      BY <1>1 DEF Plain
    <3>2. CASE calls'[c].at = "has" /\ calls'[c].action = a
      BY <1>6, <3>1, <3>2 DEF Plain
    <3>3. CASE End(c, calls, Answered("storage"), "silent")
      <4>1. calls'[c].at = "idle"
        BY <3>3, EndStays, StoreTypes
      <4> QED
        BY <3>1, <4>1 DEF Plain
    <3> QED
      BY <1>2, <3>1, <3>2, <3>3
  <2>3. Noted /\ (Exists' => Exists /\ doc'.selfMuted = doc.selfMuted) /\ calls[c].at # "getSelf"
    BY <1>1 DEF Noted, Exists
  <2> QED
    BY <1>1, <2>1, <2>2, <2>3, SelfKept
<1> QED
  BY <1>4, <1>5, <1>6

LEMMA SelfUndo ==
  ASSUME Basic, Lone, SelfSwitch, NEW c \in Call, Undo(c)
  PROVE  SelfSwitch'
<1> DEFINE a == calls[c].action
<1>1. /\ Basic' /\ Turn("storage", c, "undo") /\ UNCHANGED <<doc, replaced>> /\ PassesBy(c)
      /\ undone' = (undone \/ a.kind = "self")
      /\ calls[c].at = "undo" /\ a.kind \in KindsAt("undo")
      /\ Undone(a, calls[c].was)
      /\ calls'[c] = Idle /\ overlapped' = overlapped
  BY UndoBasic, UndoStore, StoragePasses, EndStays, BasicFacts DEF Undo, Turn
<1>2. calls'[c].at = "idle" /\ Plain(calls'[c]) /\ c \notin Undoing(calls') /\ c \notin Asking(calls')
  BY <1>1, StoreTypes DEF Plain, Undoing, Asking
<1>3. undone => undone'
  BY <1>1
<1>4. Noted /\ (Exists' => Exists /\ doc'.selfMuted = doc.selfMuted) /\ calls[c].at # "getSelf"
  BY <1>1, <1>3 DEF Noted, Exists
<1>5. CASE a.kind # "self"
  <2>1. store'.selfMuted = store.selfMuted /\ Plain(calls[c])
    BY <1>1, <1>5 DEF Undone, KindsAt, Told, Plain
  <2> QED
    BY <1>1, <1>2, <1>4, <2>1, SelfKept
<1>6. CASE a.kind = "self"
  <2> SUFFICES ASSUME ~Excepted' PROVE SelfSwitch'
    BY DEF SelfSwitch
  <2>1. undone' /\ "self" \notin overlapped' /\ "self" \notin overlapped /\ ~Excepted
    BY <1>1, <1>4, <1>6, StillNotExcepted DEF Excepted
  <2>2. "self" \in Uses(a) /\ c \in Undoing(calls)
    BY <1>1, <1>6 DEF Uses, Undoing
  <2>3. ASSUME NEW d \in Asking(calls') PROVE FALSE
    <3>1. d # c /\ d \in Call
      BY <1>2, <2>3 DEF Asking
    <3>2. d \in Asking(calls)
      BY <1>1, <2>3, <3>1 DEF Asking, PassesBy
    <3> QED
      BY <2>1, <2>2, <3>1, <3>2, OnlySelf
  <2>4. LastSays(queue'["browser"], Asking(calls'), calls', store'.selfMuted)
    BY <2>3 DEF LastSays
  <2>5. ~OnTheWay
    <3>1. 1 \in DOMAIN queue["storage"] /\ queue["storage"][1] = c
      BY <1>1, QueueTypes, TailMembers DEF Turn
    <3> QED
      BY <2>1, <2>2, <3>1 DEF OnTheWay, NoneOf
  <2>6. WillBeGiven => WillBeGiven'
    BY <1>1, <1>2, <2>1, QueuesSay
  <2>7. Exists' => WillBeGiven'
    BY <1>4, <2>1, <2>5, <2>6 DEF SelfSwitch
  <2> QED
    BY <2>4, <2>7 DEF SelfSwitch
<1> QED
  BY <1>5, <1>6

LEMMA SelfGiven ==
  ASSUME Basic, SelfSwitch, NEW c \in Call, GetSelfMuted(c)
  PROVE  SelfSwitch'
<1>1. /\ Basic' /\ Turn("storage", c, "getSelf") /\ calls[c].at = "getSelf" /\ PassesBy(c)
      /\ calls'[c].at = "putSelf" /\ calls'[c].action.muted = store.selfMuted
      /\ UNCHANGED <<store, doc, overlapped, replaced, undone>>
      /\ queue' = Request(Answered("storage"), "document", c)
  BY GetSelfMutedBasic, StoragePasses DEF GetSelfMuted, Turn, Now
<1> SUFFICES ASSUME ~Excepted' PROVE SelfSwitch'
  BY DEF SelfSwitch
<1>2. /\ ~Excepted /\ c \notin Asking(calls) /\ c \notin Asking(calls')
      /\ c \notin Undoing(calls') /\ c \in Saying(calls')
  BY <1>1 DEF Excepted, Asking, Undoing, Saying
<1>3. LastSays(queue'["browser"], Asking(calls'), calls', store'.selfMuted)
  BY <1>1, <1>2, BrowserKept
<1>4. "storage" \in Service /\ "document" \in Service /\ "getSelf" \in PlacesOf["storage"]
  BY DEF Service, PlacesOf
<1>5. PICK b \in Seq(Call) : queue'["document"] = Append(b, c)
  BY <1>1, <1>4, PutAtEnd
<1>6. /\ LastSays(queue'["document"], Saying(calls'), calls', store'.selfMuted)
      /\ ~NoneOf(queue'["document"], Saying(calls'))
  BY <1>1, <1>2, <1>5, PassesSaid
<1>7. "self" \in overlapped' \/ NoneOf(queue'["storage"], Undoing(calls')) => OnTheWay'
  BY <1>6 DEF OnTheWay
<1>8. OnTheWay => OnTheWay'
  <2>1. NoneOf(queue["storage"], Undoing(calls)) => NoneOf(queue'["storage"], Undoing(calls'))
    BY <1>1, <1>2, QueuesSay
  <2> QED
    BY <1>1, <1>7, <2>1 DEF OnTheWay
<1>9. WillBeGiven => WillBeGiven' \/ OnTheWay'
  BY <1>1, <1>2, <1>7, QueuesSay
<1>10. Exists' => OnTheWay' \/ WillBeGiven'
  BY <1>1, <1>2, <1>8, <1>9 DEF SelfSwitch, Exists
<1> QED
  BY <1>3, <1>10 DEF SelfSwitch

LEMMA SelfCleared ==
  ASSUME Basic, SelfSwitch, NEW c \in Call, ClearStorage(c)
  PROVE  SelfSwitch'
<1>1. /\ calls'[c] = Idle /\ doc' = doc /\ replaced' = (replaced \/ InUse)
      /\ \A d \in Call \ {c} : calls'[d] = calls[d]
  BY EndStays DEF ClearStorage
<1> SUFFICES ASSUME ~Excepted' PROVE SelfSwitch'
  BY DEF SelfSwitch
<1>2. ~InUse
  BY <1>1 DEF Excepted
<1> QED
  BY <1>1, <1>2, SelfReplaced

LEMMA SelfHas ==
  ASSUME Basic, SelfSwitch, NEW c \in Call, HasDocument(c)
  PROVE  SelfSwitch'
<1> DEFINE a == calls[c].action
<1>1. /\ Basic' /\ Turn("browser", c, "has") /\ calls[c].at = "has" /\ PassesBy(c)
      /\ UNCHANGED <<store, doc, overlapped, replaced, undone>>
  BY HasDocumentBasic, BrowserPasses, BrowserGoes DEF Turn, Goes
<1>2. Noted /\ (Exists' <=> Exists)
  BY <1>1 DEF Noted, Exists
<1>3. CASE doc = None /\ End(c, calls, Answered("browser"), "silent")
  <2>1. c \notin Asking(calls')
    BY <1>3, EndStays, StoreTypes DEF Asking
  <2>2. ~Exists'
    BY <1>1, <1>3 DEF Exists
  <2> QED
    BY <1>1, <1>2, <2>1, <2>2, SelfAbsent
<1>4. CASE /\ calls'[c].at = "ask" /\ calls'[c].action = a
           /\ queue' = Request(Answered("browser"), "document", c)
  <2>1. CASE a.kind # "self"
    <3>1. Plain(calls[c]) /\ Plain(calls'[c])
      BY <1>1, <1>4, <2>1 DEF Plain
    <3> QED
      BY <1>1, <1>2, <3>1, SelfKept
  <2>2. CASE a.kind = "self"
    <3> SUFFICES ASSUME ~Excepted' PROVE SelfSwitch'
      BY DEF SelfSwitch
    <3>1. /\ ~Excepted /\ c \in Asking(calls) /\ c \notin Asking(calls')
          /\ c \notin Undoing(calls') /\ c \in Saying(calls')
      BY <1>1, <1>4, <2>2 DEF Excepted, Asking, Undoing, Saying
    <3>2. LastSays(queue["browser"], Asking(calls), calls, store.selfMuted)
      BY <3>1 DEF SelfSwitch
    <3>3. queue["browser"] # <<>> /\ Head(queue["browser"]) = c
      BY <1>1 DEF Turn
    <3>4. /\ LastSays(queue'["browser"], Asking(calls'), calls', store.selfMuted)
          /\ NoneOf(queue'["browser"], Asking(calls')) => a.muted = store.selfMuted
      BY <1>1, <3>1, <3>2, <3>3, QueuesSay
    <3>5. "browser" \in Service /\ "document" \in Service /\ "has" \in PlacesOf["browser"]
      BY DEF Service, PlacesOf
    <3>6. PICK b \in Seq(Call) : queue'["document"] = Append(b, c)
      BY <1>1, <1>4, <3>5, PutAtEnd
    <3>7. NoneOf(queue'["browser"], Asking(calls')) =>
            /\ LastSays(queue'["document"], Saying(calls'), calls', store'.selfMuted)
            /\ ~NoneOf(queue'["document"], Saying(calls'))
      BY <1>1, <1>4, <3>1, <3>4, <3>6, PassesSaid
    <3>8. OnTheWay => OnTheWay'
      <4>1. NoneOf(queue["storage"], Undoing(calls)) => NoneOf(queue'["storage"], Undoing(calls'))
        BY <1>1, <3>1, QueuesSay
      <4> QED
        BY <1>1, <3>7, <4>1 DEF OnTheWay
    <3>9. WillBeGiven => WillBeGiven'
      BY <1>1, <3>1, QueuesSay
    <3>10. Exists' => OnTheWay' \/ WillBeGiven'
      BY <1>2, <3>1, <3>8, <3>9 DEF SelfSwitch
    <3>11. LastSays(queue'["browser"], Asking(calls'), calls', store'.selfMuted)
      BY <1>1, <3>4
    <3> QED
      BY <3>10, <3>11 DEF SelfSwitch
  <2> QED
    BY <2>1, <2>2
<1> QED
  BY <1>3, <1>4, HasDocumentBasic DEF Now

LEMMA SelfCreates ==
  ASSUME Basic, SelfSwitch, NEW c \in Call, EnsureDocument(c) \/ CreateDocument(c)
  PROVE  SelfSwitch'
<1>1. PassesBy(c)
  BY BrowserPasses
<1>2. /\ Basic' /\ UNCHANGED <<store, overlapped, replaced, undone>>
      /\ calls[c].at \in {"ensure", "create"} /\ (doc' = doc \/ doc' = Loading)
      /\ calls'[c].at \in {"getSelf", "create", "loading"}
  BY EnsureDocumentBasic, CreateDocumentBasic DEF Now, EnsureDocument, CreateDocument, Turn
<1>3. /\ Plain(calls[c]) /\ Plain(calls'[c]) /\ calls[c].at # "getSelf" /\ Noted
      /\ store'.selfMuted = store.selfMuted /\ (Exists' => Exists /\ doc'.selfMuted = doc.selfMuted)
  BY <1>2 DEF Plain, Noted, Exists
<1> QED
  BY <1>1, <1>2, <1>3, SelfKept

(* What is to be asked of the browser when the document has been closed.    *)
LEMMA SelfClosed ==
  ASSUME Basic, SelfSwitch, NEW c \in Call, Turn("browser", c, "close"), doc' = None,
         UNCHANGED <<store, overlapped, replaced, undone>>,
         \A d \in Call \ {c} : calls'[d] = Rejected[d],
         NEW q, Closed(q), queue'["browser"] = q["browser"],
         q["browser"] = Tail(queue["browser"])
  PROVE  SelfSwitch'
<1>1. ~Exists'
  BY DEF Exists
<1> SUFFICES ASSUME ~Excepted' PROVE SelfSwitch'
  BY DEF SelfSwitch
<1>2. ~Excepted
  BY DEF Excepted
<1> DEFINE b == queue["browser"]
           t == Tail(queue["browser"])
<1>3. /\ b \in Seq(Call) /\ b # <<>> /\ t \in Seq(Call)
      /\ \A i \in DOMAIN t : i + 1 \in DOMAIN b /\ t[i] = b[i + 1]
      /\ \A i \in DOMAIN b : i # 1 => i - 1 \in DOMAIN t /\ t[i - 1] = b[i]
      /\ DOMAIN b \in SUBSET Nat /\ DOMAIN t \in SUBSET Nat
  BY QueueTypes, TailMembers DEF Turn
<1>4. \A i \in DOMAIN t : t[i] \in Call \ {c} /\ calls'[t[i]] = calls[t[i]]
  <2> DEFINE h == calls'
  <2>1. \A d \in Call \ {c} : h[d] = Rejected[d]
    OBVIOUS
  <2> HIDE DEF h
  <2>2. \A s \in {"storage", "browser"} : \A i \in DOMAIN q[s] :
          q[s][i] \in Call \ {c} /\ ~Waits(q[s][i]) /\ h[q[s][i]] = calls[q[s][i]]
    BY <2>1, ClosedQueue
  <2>3. \A i \in DOMAIN q["browser"] :
          q["browser"][i] \in Call \ {c} /\ h[q["browser"][i]] = calls[q["browser"][i]]
    BY <2>2
  <2>4. q["browser"] = t
    OBVIOUS
  <2> QED
    BY <2>3, <2>4 DEF h
<1>5. LastSays(b, Asking(calls), calls, store.selfMuted)
  BY <1>2 DEF SelfSwitch
<1> HIDE DEF b, t
<1>6. \A i \in DOMAIN t : t[i] \in Asking(calls) <=> t[i] \in Asking(calls')
  BY <1>4 DEF Asking
<1>7. ASSUME NEW i \in DOMAIN t, t[i] \in Asking(calls'),
             \A j \in DOMAIN t : i < j => t[j] \notin Asking(calls')
      PROVE  calls'[t[i]].action.muted = store.selfMuted
  <2>1. i + 1 \in DOMAIN b /\ b[i + 1] = t[i] /\ t[i] \in Asking(calls) /\ i \in Nat
    BY <1>3, <1>6, <1>7
  <2>2. ASSUME NEW j \in DOMAIN b, i + 1 < j PROVE b[j] \notin Asking(calls)
    <3>1. j \in Nat /\ j # 1 /\ i < j - 1
      BY <1>3, <2>1, <2>2
    <3>2. j - 1 \in DOMAIN t /\ t[j - 1] = b[j]
      BY <1>3, <3>1
    <3> QED
      BY <1>6, <1>7, <3>1, <3>2
  <2>3. calls[b[i + 1]].action.muted = store.selfMuted
    BY <1>5, <2>1, <2>2 DEF LastSays
  <2> QED
    BY <1>4, <2>1, <2>3
<1>8. LastSays(t, Asking(calls'), calls', store.selfMuted)
  BY <1>7 DEF LastSays
<1>9. queue'["browser"] = t
  BY DEF t
<1> QED
  BY <1>1, <1>8, <1>9 DEF SelfSwitch

LEMMA ClosedBrowser ==
  ASSUME Basic, NEW q, q = [Answered("browser") EXCEPT !.document = <<>>]
  PROVE  \/ q["browser"] = Tail(queue["browser"]) /\ q \in [Service -> Seq(Call)]
         \/ queue["browser"] = <<>>
<1>1. queue \in [Service -> Seq(Call)] /\ {"browser", "document"} \subseteq Service
  BY DEF Basic, TypeOK, Service
<1> SUFFICES ASSUME queue["browser"] # <<>> PROVE q["browser"] = Tail(queue["browser"]) /\ q \in [Service -> Seq(Call)]
  OBVIOUS
<1> DEFINE t == Tail(queue["browser"])
<1>2. t \in Seq(Call)
  BY <1>1
<1>3. q = [[queue EXCEPT !["browser"] = t] EXCEPT !["document"] = <<>>]
  BY DEF Answered
<1>4. <<>> \in Seq(Call)
  OBVIOUS
<1> HIDE DEF t
<1>5. q["browser"] = t /\ q \in [Service -> Seq(Call)]
  BY <1>1, <1>2, <1>3, <1>4
<1> QED
  BY <1>5 DEF t

LEMMA SelfStops ==
  ASSUME Basic, SelfSwitch, NEW c \in Call, StopAll(c) \/ CloseDocument(c)
  PROVE  SelfSwitch'
<1> DEFINE q == [Answered("browser") EXCEPT !.document = <<>>]
<1>1. Turn("browser", c, "close") /\ UNCHANGED <<store, replaced, undone>> /\ overlapped' = overlapped
  BY StopAllBasic, CloseDocumentBasic, BrowserGoes DEF Goes
<1>2. Closed(q)
  BY <1>1, ClosedIs
<1>3. q["browser"] = Tail(queue["browser"]) /\ q \in [Service -> Seq(Call)]
  BY <1>1, ClosedBrowser DEF Turn
<1>4. (End(c, Rejected, q, "told") => queue' = q)
  BY DEF End
<1>5. /\ StopAll(c) => \/ Exists /\ doc' = None /\ End(c, Rejected, q, "told")
                       \/ ~Exists /\ doc' = doc /\ End(c, calls, Answered("browser"), "silent")
      /\ CloseDocument(c) => /\ doc' = None /\ queue' = Request(q, "storage", c)
                             /\ \A d \in Call \ {c} : calls'[d] = Rejected[d]
  BY StopAllBasic, CloseDocumentBasic
<1> HIDE DEF q
<1>6. CASE StopAll(c) /\ Exists
  <2>1. doc' = None /\ End(c, Rejected, q, "told") /\ queue'["browser"] = q["browser"]
    BY <1>4, <1>5, <1>6
  <2>2. \A d \in Call \ {c} : calls'[d] = Rejected[d]
    BY <2>1, RejectedDoes, EndType DEF Basic
  <2> QED
    BY <1>1, <1>2, <1>3, <2>1, <2>2, SelfClosed
<1>7. CASE StopAll(c) /\ ~Exists
  <2>1. /\ Basic' /\ PassesBy(c) /\ doc' = doc /\ End(c, calls, Answered("browser"), "silent")
    BY <1>5, <1>7, StopAllBasic, BrowserPasses
  <2>2. c \notin Asking(calls')
    BY <2>1, EndStays, StoreTypes DEF Asking
  <2>3. ~Exists' /\ Noted
    BY <1>1, <1>7, <2>1 DEF Exists, Noted
  <2> QED
    BY <1>1, <2>1, <2>2, <2>3, SelfAbsent
<1>8. CASE CloseDocument(c)
  <2>1. /\ doc' = None /\ \A d \in Call \ {c} : calls'[d] = Rejected[d]
        /\ queue' = Request(q, "storage", c)
    BY <1>5, <1>8
  <2>2. "browser" \in Service /\ "browser" # "storage"
    BY DEF Service
  <2>3. queue'["browser"] = q["browser"]
    BY <1>3, <2>1, <2>2 DEF Request
  <2> QED
    BY <1>1, <1>2, <1>3, <2>1, <2>3, SelfClosed
<1> QED
  BY <1>6, <1>7, <1>8

(* The document is told by c what the switch is.                            *)
LEMMA SelfTold ==
  ASSUME Basic, Basic', SelfSwitch, NEW c \in Call, PassesBy(c), Noted, overlapped' = overlapped,
         c \in Saying(calls), Plain(calls'[c]),
         queue["document"] # <<>>, Head(queue["document"]) = c, store' = store,
         Exists, doc'.selfMuted = calls[c].action.muted
  PROVE  SelfSwitch'
<1> SUFFICES ASSUME ~Excepted' PROVE SelfSwitch'
  BY DEF SelfSwitch
<1>1. /\ ~Excepted /\ c \notin Asking(calls) /\ calls[c].at # "getSelf"
      /\ c \notin Asking(calls') /\ c \notin Saying(calls') /\ c \notin Undoing(calls')
  BY StillNotExcepted, PlainSays DEF Saying, Asking
<1>2. LastSays(queue'["browser"], Asking(calls'), calls', store'.selfMuted)
  BY <1>1, BrowserKept
<1>3. ASSUME OnTheWay PROVE OnTheWay'
  <2>1. "self" \in overlapped' \/ NoneOf(queue'["storage"], Undoing(calls'))
    <3>1. NoneOf(queue["storage"], Undoing(calls)) => NoneOf(queue'["storage"], Undoing(calls'))
      BY <1>1, QueuesSay
    <3> QED
      BY <1>3, <3>1 DEF OnTheWay
  <2>2. NoneOf(queue'["browser"], Asking(calls')) => NoneOf(queue["browser"], Asking(calls))
    BY <1>1, QueuesSay
  <2>3. LastSays(queue["document"], Saying(calls), calls, store.selfMuted) =>
          /\ LastSays(queue'["document"], Saying(calls'), calls', store.selfMuted)
          /\ NoneOf(queue'["document"], Saying(calls')) => calls[c].action.muted = store.selfMuted
    BY <1>1, QueuesSay
  <2> QED
    BY <1>3, <2>1, <2>2, <2>3 DEF OnTheWay
<1>4. WillBeGiven => WillBeGiven'
  BY <1>1, QueuesSay
<1>5. OnTheWay' \/ WillBeGiven'
  BY <1>1, <1>3, <1>4 DEF SelfSwitch
<1> QED
  BY <1>2, <1>5 DEF SelfSwitch

LEMMA SelfAsked ==
  ASSUME Basic, SelfSwitch, NEW c \in Call, Ask(c)
  PROVE  SelfSwitch'
<1> DEFINE a == calls[c].action
<1>1. /\ Basic' /\ Turn("document", c, "ask") /\ calls[c].at = "ask" /\ PassesBy(c)
      /\ UNCHANGED <<store, overlapped, replaced, undone>> /\ a.kind \in Told
      /\ Exists => doc' \in Document /\ Obeyed(a)
  BY AskBasic, OffscreenPasses, OffscreenGoes, AskDocument DEF Turn, Goes
<1>2. Noted /\ (Exists => Exists')
  BY <1>1, DocumentAssumption DEF Noted, Exists
<1>3. \/ /\ ~Exists /\ doc' = doc /\ calls'[c].at = "undo"
      \/ /\ Exists /\ calls'[c].at = "idle"
      \/ /\ Exists /\ a.kind = "device" /\ calls'[c].at = "opening"
  <2>1. CASE \E how \in {"silent", "told"} : End(c, calls, Answered("document"), how)
    <3>1. calls'[c].at = "idle"
      BY <2>1, EndStays, StoreTypes
    <3> QED
      BY <2>1, <3>1, AskBasic DEF Now
  <2>2. CASE ~(\E how \in {"silent", "told"} : End(c, calls, Answered("document"), how))
    BY <2>2, AskBasic DEF Now
  <2> QED
    BY <2>1, <2>2
<1>4. CASE ~Exists
  <2>1. ~Exists' /\ c \notin Asking(calls')
    BY <1>3, <1>4 DEF Exists, Asking
  <2> QED
    BY <1>1, <1>2, <2>1, SelfAbsent
<1>5. CASE Exists /\ a.kind = "self"
  <2>1. /\ Plain(calls'[c]) /\ c \in Saying(calls) /\ doc'.selfMuted = a.muted
        /\ queue["document"] # <<>> /\ Head(queue["document"]) = c
    BY <1>1, <1>3, <1>5 DEF Plain, Saying, Obeyed, Turn
  <2> QED
    BY <1>1, <1>2, <1>5, <2>1, SelfTold
<1>6. CASE Exists /\ a.kind # "self"
  <2>1. /\ Plain(calls[c]) /\ Plain(calls'[c]) /\ calls[c].at # "getSelf"
        /\ doc'.selfMuted = doc.selfMuted
    BY <1>1, <1>3, <1>6 DEF Plain, Obeyed
  <2> QED
    BY <1>1, <1>2, <1>6, <2>1, SelfKept
<1> QED
  BY <1>4, <1>5, <1>6

LEMMA SelfPut ==
  ASSUME Basic, SelfSwitch, NEW c \in Call, PutSettings(c)
  PROVE  SelfSwitch'
<1>1. /\ Basic' /\ PassesBy(c) /\ UNCHANGED <<store, overlapped, replaced, undone>>
      /\ Turn("document", c, calls[c].at) /\ calls[c].at \in {"putSelf", "putMic", "putMonitor"}
  BY PutSettingsBasic, OffscreenPasses, OffscreenGoes DEF Goes
<1>2. Noted
  BY <1>1 DEF Noted
<1>3. CASE ~Exists
  <2>1. calls'[c].at = "idle" /\ doc' = doc
    BY <1>3, PutSettingsBasic, StoreTypes
  <2>2. ~Exists' /\ c \notin Asking(calls')
    BY <1>3, <2>1 DEF Exists, Asking
  <2> QED
    BY <1>1, <1>2, <2>2, SelfAbsent
<1>4. CASE Exists
  <2>1. Given(calls[c])
    BY <1>4, PutSettingsBasic
  <2>2. calls'[c].at \in {"putMic", "putMonitor", "getDevice", "capture"}
    <3>1. PICK at \in {"putMic", "putMonitor", "getDevice", "capture"} :
            Now(c, at, calls[c].action, calls[c].was)
      BY <1>4, PutSettingsBasic
    <3> QED
      BY <3>1 DEF Now
  <2>3. Plain(calls'[c])
    BY <2>2 DEF Plain
  <2>4. CASE calls[c].at = "putSelf"
    <3>1. /\ c \in Saying(calls) /\ doc'.selfMuted = calls[c].action.muted
          /\ queue["document"] # <<>> /\ Head(queue["document"]) = c
      BY <1>1, <2>1, <2>4 DEF Saying, Given, Turn
    <3> QED
      BY <1>1, <1>2, <1>4, <2>3, <3>1, SelfTold
  <2>5. CASE calls[c].at # "putSelf"
    <3>1. Plain(calls[c]) /\ calls[c].at # "getSelf" /\ doc'.selfMuted = doc.selfMuted
      BY <1>1, <2>1, <2>5 DEF Plain, Given
    <3> QED
      BY <1>1, <1>2, <1>4, <2>3, <3>1, SelfKept
  <2> QED
    BY <2>4, <2>5
<1> QED
  BY <1>3, <1>4

LEMMA SelfMicrophone ==
  ASSUME Basic, SelfSwitch, NEW c \in Call,
         EnsureMicrophone(c) \/ CaptureTab(c) \/ MicrophoneOpened(c) \/ Failed(c)
  PROVE  SelfSwitch'
<1>1. /\ Basic' /\ PassesBy(c) /\ UNCHANGED <<store, overlapped, replaced, undone>>
      /\ calls[c].at \in {"ensureMic", "capture", "opening", "reopening", "lost"}
  BY EnsureMicrophoneBasic, CaptureTabBasic, MicrophoneOpenedBasic, FailedBasic, OffscreenPasses,
     OffscreenGoes DEF Turn, Goes
<1>2. Noted /\ Plain(calls[c]) /\ calls[c].at # "getSelf"
  BY <1>1 DEF Noted, Plain
<1>3. CASE EnsureMicrophone(c) \/ CaptureTab(c) \/ MicrophoneOpened(c)
  <2>1. /\ Exists' => Exists /\ doc'.selfMuted = doc.selfMuted
    BY <1>3, EnsureMicrophoneBasic, CaptureTabBasic, MicrophoneOpenedBasic DEF Exists
  <2>2. Idle.at = "idle"
    BY StoreTypes
  <2>3. CASE EnsureMicrophone(c)
    <3>1. CASE Exists
      <4>1. calls'[c].at \in {"capture", "opening"}
        BY <2>3, <3>1, EnsureMicrophoneBasic DEF Now
      <4>2. Plain(calls'[c])
        BY <4>1 DEF Plain
      <4> QED
        BY <1>1, <1>2, <2>1, <4>2, SelfKept
    <3>2. CASE ~Exists
      <4>1. calls'[c] = Idle
        BY <2>3, <3>2, EnsureMicrophoneBasic, EndStays
      <4>2. Plain(calls'[c])
        BY <2>2, <4>1 DEF Plain
      <4> QED
        BY <1>1, <1>2, <2>1, <4>2, SelfKept
    <3> QED
      BY <3>1, <3>2
  <2>4. CASE CaptureTab(c) \/ MicrophoneOpened(c)
    <3>1. calls'[c] = Idle \/ calls'[c].at \in {"capture", "reopening"}
      BY <2>4, CaptureTabBasic, MicrophoneOpenedBasic, EndStays DEF Now
    <3>2. Plain(calls'[c])
      BY <2>2, <3>1 DEF Plain
    <3> QED
      BY <1>1, <1>2, <2>1, <3>2, SelfKept
  <2> QED
    BY <1>3, <2>3, <2>4
<1>4. CASE Failed(c)
  <2>1. doc' = doc /\ (Exists' <=> Exists)
    BY <1>4, FailedBasic DEF Exists
  <2>2. \/ calls'[c].at = "idle"
        \/ calls'[c].at = "undo" /\ calls'[c].action = calls[c].action
    <3>1. CASE \E how : End(c, calls, queue, how)
      BY <3>1, EndStays, StoreTypes
    <3>2. CASE Now(c, "undo", calls[c].action, calls[c].was)
      BY <3>2 DEF Now
    <3> QED
      BY <1>4, <3>1, <3>2, FailedBasic
  <2>3. CASE calls[c].action.kind = "self"
    <3>1. calls[c].at = "lost"
      BY <1>4, <2>3, FailedBasic, BasicFacts DEF KindsAt
    <3>2. ~Exists
      BY <3>1 DEF Basic, Documents, Exists
    <3>3. c \notin Asking(calls')
      BY <2>2 DEF Asking
    <3> QED
      BY <1>1, <1>2, <2>1, <3>2, <3>3, SelfAbsent
  <2>4. CASE calls[c].action.kind # "self"
    <3>1. Plain(calls'[c])
      BY <2>2, <2>4 DEF Plain
    <3> QED
      BY <1>1, <1>2, <2>1, <3>1, SelfKept
  <2> QED
    BY <2>3, <2>4
<1> QED
  BY <1>3, <1>4

LEMMA SelfTakenUp ==
  ASSUME Basic, Basic', SelfSwitch, NEW c \in Call, NEW a \in Asked, TakenUp(c, a)
  PROVE  SelfSwitch'
<1>1. /\ calls[c].at = "idle" /\ UNCHANGED <<store, doc, replaced, undone>>
      /\ overlapped \subseteq overlapped'
      /\ calls'[c].at = StartsAt(a.kind)
      /\ \A d \in Call \ {c} : calls'[d] = calls[d]
      /\ queue' = Request(queue, IF a.kind = "stop" THEN "browser" ELSE "storage", c)
  BY DEF TakenUp, Now
<1>2. calls'[c].at \in {"read", "toggle", "write", "add", "clear", "close"}
  BY <1>1 DEF StartsAt
<1>3. /\ Plain(calls[c]) /\ Plain(calls'[c]) /\ calls[c].at # "getSelf" /\ Noted
      /\ store'.selfMuted = store.selfMuted /\ (Exists' => Exists /\ doc'.selfMuted = doc.selfMuted)
  BY <1>1, <1>2 DEF Plain, Noted, Exists
<1>4. PassesBy(c)
  BY <1>1, PassesJump DEF Elsewhere, Service
<1> QED
  BY <1>3, <1>4, SelfKept

(* The first of those who waited for the document gives it the switch.      *)
LEMMA SelfLoaded ==
  ASSUME Basic, SelfSwitch, DocumentLoaded
  PROVE  SelfSwitch'
<1>1. /\ UNCHANGED <<store, overlapped, replaced, undone>>
      /\ \A d \in Call \ Waiting : calls'[d] = calls[d]
      /\ \A d \in Waiting : calls'[d].at = "getSelf"
  BY LoadedDoes
<1>2. PICK order \in Seq(Call) :
        /\ queue' = [queue EXCEPT !["storage"] = queue["storage"] \o order]
        /\ 1 \in DOMAIN order /\ \A i \in DOMAIN order : order[i] \in Waiting
  BY LoadedDoes
<1> DEFINE q == queue["storage"]
           b == queue["browser"]
<1>3. /\ queue \in [Service -> Seq(Call)] /\ q \in Seq(Call) /\ b \in Seq(Call)
      /\ "storage" \in Service /\ "browser" \in Service /\ "storage" # "browser"
  BY QueueTypes DEF Basic, TypeOK, Service
<1>4. queue'["storage"] = q \o order /\ queue'["browser"] = b
  BY <1>2, <1>3
<1> SUFFICES ASSUME ~Excepted' PROVE SelfSwitch'
  BY DEF SelfSwitch
<1>5. LastSays(b, Asking(calls), calls, store.selfMuted)
  BY <1>1 DEF SelfSwitch, Excepted
<1>6. \A i \in DOMAIN b : b[i] \in Call /\ calls'[b[i]] = calls[b[i]]
  <2>1. ASSUME NEW i \in DOMAIN b PROVE b[i] \in Call /\ calls'[b[i]] = calls[b[i]]
    <3>1. calls[b[i]].at \in PlacesOf["browser"] /\ b[i] \in Call
      BY <1>3 DEF Basic, Queued
    <3>2. b[i] \notin Waiting
      BY <3>1 DEF PlacesOf, Waiting
    <3> QED
      BY <1>1, <3>1, <3>2
  <2> QED
    BY <2>1
<1>7. /\ q \o order \in Seq(Call)
      /\ \A i \in DOMAIN order : Len(q) + i \in DOMAIN (q \o order) /\ (q \o order)[Len(q) + i] = order[i]
      /\ \A i \in DOMAIN (q \o order) : i \in DOMAIN q \/ (i > Len(q) /\ i - Len(q) \in DOMAIN order)
      /\ \A i \in DOMAIN q : i <= Len(q)
      /\ Len(q) \in Nat /\ DOMAIN q \in SUBSET Nat /\ DOMAIN (q \o order) \in SUBSET Nat
  BY <1>3, ConcatMembers
<1> DEFINE r == q \o order
           n == Len(q)
<1> HIDE DEF q, b, r, n
<1>8. \A i \in DOMAIN b : b[i] \in Asking(calls) <=> b[i] \in Asking(calls')
  BY <1>6 DEF Asking
<1>9. LastSays(b, Asking(calls'), calls', store.selfMuted)
  BY <1>5, <1>6, <1>8 DEF LastSays
<1>10. Giver(r, calls', overlapped')
  <2>1. n + 1 \in DOMAIN r /\ r[n + 1] = order[1] /\ n \in Nat
    BY <1>2, <1>7 DEF r, n
  <2>2. calls'[r[n + 1]].at = "getSelf"
    BY <1>1, <1>2, <2>1
  <2>3. ASSUME NEW j \in DOMAIN r, r[j] \in Undoing(calls') PROVE j < n + 1
    <3>1. j \in DOMAIN q \/ (j > n /\ j - n \in DOMAIN order)
      BY <1>7 DEF r, n
    <3>2. CASE j \in DOMAIN q
      <4>1. j <= n /\ j \in Nat
        BY <1>7, <3>2 DEF n
      <4> QED
        BY <2>1, <4>1
    <3>3. CASE j > n /\ j - n \in DOMAIN order
      <4>1. n + (j - n) = j
        BY <1>7, <2>1 DEF r
      <4>2. r[n + (j - n)] = order[j - n]
        BY <1>7, <3>3 DEF r, n
      <4>3. r[j] \in Waiting
        BY <1>2, <3>3, <4>1, <4>2
      <4> QED
        BY <1>1, <2>3, <4>3 DEF Undoing
    <3> QED
      BY <3>1, <3>2, <3>3
  <2> QED
    BY <2>1, <2>2, <2>3 DEF Giver
<1>11. LastSays(queue'["browser"], Asking(calls'), calls', store'.selfMuted)
  BY <1>1, <1>4, <1>9
<1>12. WillBeGiven'
  BY <1>4, <1>10 DEF WillBeGiven, r
<1> QED
  BY <1>11, <1>12 DEF SelfSwitch

LEMMA SelfStep ==
  ASSUME Basic, Lone, SelfSwitch, [Next]_vars
  PROVE  SelfSwitch'
<1>1. CASE UNCHANGED <<store, doc, calls, queue, left, overlapped, undone, replaced, strayed>>
  <2>1. UNCHANGED <<store, doc, calls, queue, overlapped, undone, replaced>>
    BY <1>1
  <2> QED
    BY <2>1 DEF SelfSwitch, Excepted, OnTheWay, WillBeGiven, Exists
<1>2. CASE DocumentLoaded
  BY <1>2, SelfLoaded
<1>3. ASSUME NEW c \in Call, Step(c) PROVE SelfSwitch'
  <2>1. CASE Read(c) \/ ReadToggle(c) \/ AddTab(c) \/ GetDevice(c) \/ ReadRules(c)
    BY <2>1, SelfReads
  <2>2. CASE Write(c) \/ Undo(c) \/ GetSelfMuted(c) \/ ClearStorage(c)
    BY <2>2, SelfWrite, SelfUndo, SelfGiven, SelfCleared
  <2>3. CASE HasDocument(c) \/ EnsureDocument(c) \/ CreateDocument(c) \/ StopAll(c) \/ CloseDocument(c)
    BY <2>3, SelfHas, SelfCreates, SelfStops
  <2>4. CASE Ask(c) \/ PutSettings(c)
    BY <2>4, SelfAsked, SelfPut
  <2>5. CASE EnsureMicrophone(c) \/ CaptureTab(c) \/ MicrophoneOpened(c) \/ Failed(c)
    BY <2>5, SelfMicrophone
  <2> QED
    BY <1>3, <2>1, <2>2, <2>3, <2>4, <2>5 DEF Step
<1>4. ASSUME NEW c \in Call, NEW a \in Asked, TakenUp(c, a) PROVE SelfSwitch'
  BY <1>4, BasicStep, SelfTakenUp
<1> QED
  BY <1>1, <1>2, <1>3, <1>4, Steps

LEMMA SelfInit ==
  ASSUME Init
  PROVE  SelfSwitch
<1>1. queue["storage"] = <<>> /\ queue["browser"] = <<>> /\ queue["document"] = <<>>
  BY DEF Init
<1>2. DOMAIN queue["storage"] = {} /\ DOMAIN queue["browser"] = {} /\ DOMAIN queue["document"] = {}
  BY <1>1
<1>3. Exists => doc.selfMuted = store.selfMuted
  BY GivenDocument DEF Exists
<1> QED
  BY <1>2, <1>3 DEF SelfSwitch, OnTheWay, LastSays, NoneOf

(* When all have ended nobody waits for anything.                           *)
LEMMA QuietQueues ==
  ASSUME Basic, Quiet, NEW s \in Service, NEW i \in DOMAIN queue[s]
  PROVE  FALSE
<1>1. queue[s][i] \in Call /\ calls[queue[s][i]].at \in PlacesOf[s]
  BY QueueTypes DEF Basic, Queued
<1>2. calls[queue[s][i]].at = "idle"
  BY <1>1 DEF Quiet, Running
<1> QED
  BY <1>1, <1>2, Places DEF Elsewhere

(* For any number of handlers, channels and microphones: whatever overlaps, *)
(* fails or finds the document being created, when all have ended the       *)
(* document mutes the operator if and only if the store says so, unless two *)
(* changes of that switch overlapped and one was undone; and it obeys the   *)
(* switches of the channels unless two handlers of the configuration        *)
(* overlapped (background.js:227-297, 527-541, 815-821).                    *)
THEOREM SwitchesAgreeHolds == Spec => []SwitchesAgree
<1>1. Init => SelfSwitch
  BY SelfInit
<1>2. Agreed /\ SelfSwitch /\ [Next]_vars => SelfSwitch'
  BY SelfStep DEF Agreed
<1>3. Agreed /\ SelfSwitch => SwitchesAgree
  <2> SUFFICES ASSUME Agreed, SelfSwitch, Quiet, Exists, ~replaced
               PROVE  /\ ~("self" \in overlapped /\ undone) => doc.selfMuted = store.selfMuted
                      /\ "config" \notin overlapped =>
                           /\ doc.micMuted = store.config.micMuted
                           /\ doc.monitorMuted = store.config.monitorMuted
    BY DEF SwitchesAgree
  <2>1. ASSUME ~("self" \in overlapped /\ undone) PROVE doc.selfMuted = store.selfMuted
    <3>1. \A s \in Service : \A i \in DOMAIN queue[s] : FALSE
      BY QuietQueues DEF Agreed
    <3>2. /\ \A i \in DOMAIN queue["storage"] : FALSE
          /\ \A i \in DOMAIN queue["browser"] : FALSE
          /\ \A i \in DOMAIN queue["document"] : FALSE
      BY <3>1 DEF Service
    <3>3. ~WillBeGiven
      BY <3>2 DEF WillBeGiven, Giver
    <3>4. OnTheWay
      BY <2>1, <3>3 DEF SelfSwitch, Excepted
    <3> QED
      BY <3>2, <3>4 DEF OnTheWay, NoneOf
  <2>2. ASSUME "config" \notin overlapped PROVE ChannelsAgree
    BY <2>2, QuietHandlers DEF Agreed, Channels
  <2> QED
    BY <2>1, <2>2 DEF ChannelsAgree
<1> QED
  BY <1>1, <1>2, <1>3, AgreedAlways, PTL DEF Spec
=============================================================================
