------------------------------- MODULE Settings -------------------------------
(***************************************************************************)
(* The settings of the extension.  They live in chrome.storage, which the  *)
(* service worker (background.js) reads, changes and writes back with an   *)
(* await for each step, in the offscreen document (offscreen.js), which has*)
(* a copy of the switches that the audio obeys, and in the popup           *)
(* (popup.js), which shows what it read last and sends the opposite.       *)
(*                                                                         *)
(* A handler waits for one of three services at a time: the storage, the   *)
(* browser (is there a document?  create it, close it) and the document.   *)
(* Each answers in the order it was asked, and what follows an answer, up  *)
(* to the next request, is one action.  The creation of a document and the *)
(* opening of a microphone take as long as they like.                      *)
(***************************************************************************)
EXTENDS Naturals, SequencesExt

CONSTANTS
  Channel,
  First,       \* the channel that is selected by default
  Call,        \* the handlers that can run at once (a bound)
  Device,      \* the microphones
  Default,     \* the one of the system, "" in the code
  Other,       \* another one
  None, Loading,
  MaxActions   \* bound: how many actions the user takes

ASSUME SettingsAssumption ==
  /\ IsFiniteSet(Call)
  /\ First \in Channel /\ {Default, Other} \subseteq Device /\ MaxActions \in Nat
  /\ None \notin Channel \cup Call \cup Device

VARIABLES
  store,       \* chrome.storage.local
  doc,         \* the offscreen document: None, Loading, or its copy
  popup,       \* None, or what it shows, the actions it waits for (busy,
               \* file) and how many GET_POPUP_DATA it has asked
  calls,       \* the running handlers
  queue,       \* service -> the requests it has to answer
  left,        \* how many actions the user has left
  overlapped,  \* history: what two handlers used at once, "config" or "self"
  undone,      \* history: a change of the operator's own switch was undone
  replaced,    \* history: the store was replaced under a document or a change
  behind,      \* history: another's change ended and the popup was not told
  strayed      \* history: a meeting was given another microphone than is stored

vars == <<store, doc, popup, calls, queue, left, overlapped, undone, replaced, behind, strayed>>

Switches == [Channel -> BOOLEAN]
Config == [selected: Channel, micMuted: Switches, monitorMuted: Switches,
           monitorAllMuted: BOOLEAN]
Store == [config: Config, selfMuted: BOOLEAN, device: Device]
Document == [selfMuted: BOOLEAN, micMuted: Switches, monitorMuted: Switches,
             device: Device,                  \* microphoneDeviceId
             active: Device \cup {None}]      \* activeMicrophoneDeviceId

ASSUME DocumentAssumption == Loading # None /\ {None, Loading} \cap Document = {}

All(muted) == [c \in Channel |-> muted]

(* getChannelConfig of an empty store, and a new document's own values.    *)
DefaultConfig ==
  [selected |-> First, micMuted |-> All(TRUE), monitorMuted |-> All(FALSE),
   monitorAllMuted |-> FALSE]
DefaultStore == [config |-> DefaultConfig, selfMuted |-> FALSE, device |-> Default]
NewDocument ==
  [selfMuted |-> FALSE, micMuted |-> All(FALSE), monitorMuted |-> All(FALSE),
   device |-> Default, active |-> None]

(* What the user asks for; value: the channel, device or store it is about.*)
Kind == {"select", "mic", "monitor", "allMonitor", "self", "toggle", "device", "add",
         "clear", "stop", "import"}
Action(kind, value, muted) == [kind |-> kind, value |-> value, muted |-> muted]

(* A file that can be imported, of another profile's settings.              *)
File == [config |-> [DefaultConfig EXCEPT !.micMuted = All(FALSE), !.monitorMuted[First] = TRUE],
         selfMuted |-> TRUE, device |-> Other]

Asked ==
  {Action("select", c, FALSE) : c \in Channel}
  \cup {Action(k, c, m) : k \in {"mic", "monitor"}, c \in Channel, m \in BOOLEAN}
  \cup {Action(k, None, m) : k \in {"allMonitor", "self"}, m \in BOOLEAN}
  \cup {Action("device", d, FALSE) : d \in Device}
  \cup {Action(k, None, FALSE) : k \in {"toggle", "add", "clear", "stop", "import"}}

Idle == [at |-> "idle", action |-> Action("stop", None, FALSE), was |-> DefaultStore]

(* The store of earlier sessions: a new one, or one like the file.  There is*)
(* no document yet, or one that was given these settings.                   *)
Init ==
  /\ store \in {DefaultStore, File}
  /\ popup = None
  /\ doc \in {None, [selfMuted |-> store.selfMuted, micMuted |-> store.config.micMuted,
                     monitorMuted |-> store.config.monitorMuted,
                     device |-> store.device, active |-> store.device]}
  /\ calls = [c \in Call |-> Idle]
  /\ queue = [s \in {"storage", "browser", "document"} |-> <<>>]
  /\ left = MaxActions
  /\ overlapped = {} /\ undone = FALSE /\ replaced = FALSE /\ behind = FALSE /\ strayed = FALSE

Running == {c \in Call : calls[c].at # "idle"}
Exists == doc \notin {None, Loading}

-----------------------------------------------------------------------------
(* Requests and answers.                                                   *)

Turn(service, c, at) ==
  queue[service] # <<>> /\ Head(queue[service]) = c /\ calls[c].at = at

Answered(service) == [queue EXCEPT ![service] = Tail(@)]
Request(requests, service, c) == [requests EXCEPT ![service] = Append(@, c)]

(* STATE_CHANGED, or the end of an action: the popup reads everything anew. *)
(* One reading that waits behind another is as good as more.                *)
Refreshed(p) ==
  IF p = None THEN None ELSE [p EXCEPT !.asked = IF @ = 2 THEN 2 ELSE @ + 1]

(* c was answered by one service and asks another one.                      *)
Goto(c, from, to, at) ==
  /\ calls' = [calls EXCEPT ![c].at = at]
  /\ queue' = Request(Answered(from), to, c)
  /\ UNCHANGED <<popup, left, overlapped, behind>>

(* withBusy: an action that ends, well or badly, is followed by a refresh;  *)
(* a tab that was added closes the popup.  how: "silent", or the popup has  *)
(* been "told", also that a tab was "added".                                *)
Own(c) == popup # None /\ c \in {popup.busy, popup.file}
GivenBack(p, c) ==
  [p EXCEPT !.busy = IF @ = c THEN None ELSE @, !.file = IF @ = c THEN None ELSE @]

Missed(c, how) ==
  popup # None /\ ~Own(c) /\ how = "silent" /\ calls[c].action.kind \notin {"add", "stop"}

(* Mutant: a failed action does not give the popup back.                    *)
EndBusy(c, handlers, requests, how) ==
  /\ calls' = [handlers EXCEPT ![c] = Idle]
  /\ queue' = requests
  /\ behind' = (behind \/ Missed(c, how))
  /\ popup' = IF Own(c) /\ how # "silent" THEN Refreshed(GivenBack(popup, c)) ELSE Refreshed(popup)
  /\ UNCHANGED <<left, overlapped>>

(* Mutant: the popup is not read anew.                                      *)
EndUnread(c, handlers, requests, how) ==
  /\ calls' = [handlers EXCEPT ![c] = Idle]
  /\ queue' = requests
  /\ behind' = (behind \/ Missed(c, how))
  /\ popup' = IF Own(c) THEN GivenBack(popup, c) ELSE popup
  /\ UNCHANGED <<left, overlapped>>

End(c, handlers, requests, how) ==
  /\ calls' = [handlers EXCEPT ![c] = Idle]
  /\ queue' = requests
  /\ behind' = (behind \/ Missed(c, how))
  /\ popup' = IF Own(c) /\ how = "added" THEN None
              ELSE IF Own(c) THEN Refreshed(GivenBack(popup, c))
              ELSE IF how # "silent" THEN Refreshed(popup)
              ELSE popup
  /\ UNCHANGED <<left, overlapped>>

-----------------------------------------------------------------------------
(* The user.                                                               *)

Uses(action) ==
  CASE action.kind \in {"self", "toggle"} -> {"self"}
    [] action.kind = "stop" -> {}
    [] OTHER -> {"config"}

(* Where the handler of a message starts: it waits for its first answer.    *)
StartsAt(kind) ==
  CASE kind \in {"toggle", "add", "clear"} -> kind
    [] kind = "stop" -> "close"
    [] kind = "import" -> "write"
    [] OTHER -> "read"

Begin(c, action) ==
  /\ left > 0 /\ Running # Call
  /\ c = CHOOSE d \in Call : d \notin Running
  /\ left' = left - 1
  /\ calls' = [calls EXCEPT ![c] =
                 [at |-> StartsAt(action.kind), action |-> action, was |-> DefaultStore]]
  /\ queue' = Request(queue, IF action.kind = "stop" THEN "browser" ELSE "storage", c)
  /\ overlapped' = overlapped \cup (Uses(action) \cap UNION {Uses(calls[d].action) : d \in Running})
  /\ UNCHANGED <<store, doc, undone, replaced, strayed, behind>>

OpenPopup ==
  /\ popup = None
  /\ popup' = [shown |-> None, busy |-> None, file |-> None, asked |-> 1]
  /\ behind' = FALSE
  /\ UNCHANGED <<store, doc, calls, queue, left, overlapped, undone, replaced, strayed>>

(* It loses the focus; its actions go on, what it asked nobody hears.       *)
ClosePopup ==
  /\ popup # None
  /\ popup' = None
  /\ UNCHANGED <<store, doc, calls, queue, left, overlapped, undone, replaced, strayed, behind>>

(* refresh, render.  GET_POPUP_DATA reads the store when it likes: it has   *)
(* other things to ask.                                                     *)
Render ==
  /\ popup # None /\ popup.asked > 0
  /\ popup' = [popup EXCEPT !.shown = store, !.asked = @ - 1]
  /\ behind' = FALSE
  /\ UNCHANGED <<store, doc, calls, queue, left, overlapped, undone, replaced, strayed>>

(* What a switch sends: the opposite of what is shown, muted at first.      *)
Shown(action) ==
  LET config == popup.shown.config IN
  CASE action.kind = "mic" -> config.micMuted[action.value]
    [] action.kind = "monitor" -> config.monitorMuted[action.value]
    [] action.kind = "allMonitor" -> config.monitorAllMuted
    [] action.kind = "self" -> popup.shown.selfMuted
    [] OTHER -> TRUE

Offered(action) ==
  /\ action.kind \in Kind \ {"toggle", "device", "import"}
  /\ action.muted = IF popup.shown = None THEN action.kind \in {"mic", "monitor", "allMonitor", "self"}
                    ELSE ~Shown(action)
  /\ action.kind = "mic" /\ popup.shown # None => ~popup.shown.selfMuted

Click(c, action) ==
  /\ popup # None /\ popup.busy = None /\ Offered(action)
  /\ Begin(c, action)
  /\ popup' = [popup EXCEPT !.busy = c]

(* Not under withBusy.                                                      *)
ImportSettings(c) ==
  /\ popup # None /\ popup.file = None
  /\ Begin(c, Action("import", None, FALSE))
  /\ popup' = [popup EXCEPT !.file = c]

(* toggle-self-mute, capture-active-meeting.                                *)
Command(c) ==
  /\ \E kind \in {"toggle", "add"} : Begin(c, Action(kind, None, FALSE))
  /\ UNCHANGED popup

(* mic.js: its button is disabled until the answer.                         *)
ApplySelectedDevice(c, device) ==
  /\ \A d \in Running : calls[d].action.kind # "device"
  /\ Begin(c, Action("device", device, FALSE))
  /\ UNCHANGED popup

-----------------------------------------------------------------------------
(* A setting is read, changed and written; the document is told; a failure  *)
(* is written back.                                                        *)

AllMuted(muted) == \A c \in Channel : muted[c]

(* selectChannel (renameChannel alike), setChannelMicMuted,                 *)
(* setChannelMonitorMuted, setAllMonitorMuted.                              *)
Changed(action, config) ==
  LET monitorMuted == [config.monitorMuted EXCEPT ![action.value] = action.muted] IN
  CASE action.kind = "select" -> [config EXCEPT !.selected = action.value]
    [] action.kind = "mic" -> [config EXCEPT !.micMuted[action.value] = action.muted]
    [] action.kind = "monitor" ->
         [config EXCEPT !.monitorMuted = monitorMuted, !.monitorAllMuted = AllMuted(monitorMuted)]
    [] action.kind = "allMonitor" ->
         [config EXCEPT !.monitorMuted = All(action.muted), !.monitorAllMuted = action.muted]

(* A failed monitor switch keeps the new value of monitorAllMuted.          *)
Restored(action, config) ==
  IF action.kind = "monitor"
  THEN [config EXCEPT !.monitorAllMuted = Changed(action, config).monitorAllMuted]
  ELSE config

(* The handler waits for the storage again: its next step is at.            *)
Reread(c, record) ==
  /\ calls' = [calls EXCEPT ![c] = record]
  /\ queue' = Request(Answered("storage"), "storage", c)
  /\ UNCHANGED <<store, doc, popup, left, overlapped, undone, replaced, strayed, behind>>

Read(c) ==
  /\ Turn("storage", c, "read")
  /\ Reread(c, [calls[c] EXCEPT !.at = "write", !.was = store])

(* toggle-self-mute: getSelfMuted, then setSelfMuted, which reads it again. *)
ReadToggle(c) ==
  /\ Turn("storage", c, "toggle")
  /\ Reread(c, [calls[c] EXCEPT !.at = "read", !.action = Action("self", None, ~store.selfMuted)])

(* What is replaced as a whole was in the document, or half changed.        *)
InUse == doc # None \/ \E d \in Running : "self" \in Uses(calls[d].action)

Write(c) ==
  /\ Turn("storage", c, "write")
  /\ LET action == calls[c].action IN
     /\ store' = CASE action.kind = "self" -> [store EXCEPT !.selfMuted = action.muted]
                   [] action.kind = "device" -> [store EXCEPT !.device = action.value]
                   [] action.kind = "import" -> File
                   [] OTHER -> [store EXCEPT !.config = Changed(action, calls[c].was.config)]
     /\ replaced' = (replaced \/ (action.kind = "import" /\ InUse))
     /\ IF action.kind \in {"select", "import"} THEN End(c, calls, Answered("storage"), "silent")
        ELSE Goto(c, "storage", "browser", "has")
  /\ UNCHANGED <<doc, undone, strayed>>

HasDocument(c) ==
  /\ Turn("browser", c, "has")
  /\ IF doc = None THEN End(c, calls, Answered("browser"), "silent")
     ELSE Goto(c, "browser", "document", "ask")
  /\ UNCHANGED <<store, doc, undone, replaced, strayed>>

(* The document is told.  It has no listener before it is loaded.           *)
Ask(c) ==
  /\ Turn("document", c, "ask")
  /\ LET action == calls[c].action IN
     IF ~Exists THEN Goto(c, "document", "storage", "undo") /\ UNCHANGED doc
     ELSE IF action.kind = "device"
     THEN /\ doc' = [doc EXCEPT !.device = action.value]
          /\ \/ /\ doc.active = None
                /\ End(c, calls, Answered("document"), "silent")
             \/ /\ calls' = [calls EXCEPT ![c].at = "opening"]
                /\ queue' = Answered("document")
                /\ UNCHANGED <<popup, left, overlapped, behind>>
     ELSE /\ doc' = CASE action.kind = "self" -> [doc EXCEPT !.selfMuted = action.muted]
                      [] action.kind = "mic" -> [doc EXCEPT !.micMuted[action.value] = action.muted]
                      [] action.kind = "monitor" -> [doc EXCEPT !.monitorMuted[action.value] = action.muted]
                      [] OTHER -> [doc EXCEPT !.monitorMuted = All(action.muted)]
          /\ End(c, calls, Answered("document"), "told")
  /\ UNCHANGED <<store, undone, replaced, strayed>>

(* Mutant: a failed change is kept.                                         *)
UndoNothing(c) ==
  /\ Turn("storage", c, "undo")
  /\ End(c, calls, Answered("storage"), "silent")
  /\ UNCHANGED <<store, doc, undone, replaced, strayed>>

Undo(c) ==
  /\ Turn("storage", c, "undo")
  /\ LET action == calls[c].action
         was == calls[c].was
     IN store' = CASE action.kind = "self" -> [store EXCEPT !.selfMuted = was.selfMuted]
                   [] action.kind = "device" -> [store EXCEPT !.device = was.device]
                   [] OTHER -> [store EXCEPT !.config = Restored(action, was.config)]
  /\ undone' = (undone \/ calls[c].action.kind = "self")
  /\ End(c, calls, Answered("storage"), "silent")
  /\ UNCHANGED <<doc, replaced, strayed>>

-----------------------------------------------------------------------------
(* addTab: the document is created when there is none and given the         *)
(* settings; then the tab is captured.                                      *)

(* The configuration is read first and used at the end.                     *)
AddTab(c) ==
  /\ Turn("storage", c, "add")
  /\ calls' = [calls EXCEPT ![c].at = "ensure", ![c].was = store]
  /\ queue' = Request(Answered("storage"), "browser", c)
  /\ UNCHANGED <<store, doc, popup, left, overlapped, undone, replaced, strayed, behind>>

Creating == {c \in Call : calls[c].at \in {"create", "loading"}}

(* ensureOffscreenDocument; a creation under way is shared.                 *)
EnsureDocument(c) ==
  /\ Turn("browser", c, "ensure")
  /\ IF doc # None THEN Goto(c, "browser", "storage", "getSelf")
     ELSE IF Creating = {} THEN Goto(c, "browser", "browser", "create")
     ELSE /\ calls' = [calls EXCEPT ![c].at = "loading"]
          /\ queue' = Answered("browser")
          /\ UNCHANGED <<popup, left, overlapped, behind>>
  /\ UNCHANGED <<store, doc, undone, replaced, strayed>>

(* By then whatever waited for an earlier document has been rejected.       *)
CreateDocument(c) ==
  /\ Turn("browser", c, "create") /\ \A d \in Call : calls[d].at # "lost"
  /\ doc' = Loading
  /\ calls' = [calls EXCEPT ![c].at = "loading"]
  /\ queue' = Answered("browser")
  /\ UNCHANGED <<store, popup, left, overlapped, undone, replaced, strayed, behind>>

(* Those who waited go on, in any order.                                    *)
DocumentLoaded ==
  /\ doc = Loading
  /\ doc' = NewDocument
  /\ calls' = [c \in Call |-> IF calls[c].at = "loading" THEN [calls[c] EXCEPT !.at = "getSelf"]
                              ELSE calls[c]]
  /\ \E order \in SetToSeqs({c \in Call : calls[c].at = "loading"}) :
       queue' = [queue EXCEPT !.storage = @ \o order]
  /\ UNCHANGED <<store, popup, left, overlapped, undone, replaced, strayed, behind>>

(* Mutant: the document is not given the self-mute switch of the store.     *)
GetSelfMutedOld(c) ==
  /\ Turn("storage", c, "getSelf")
  /\ calls' = [calls EXCEPT ![c].at = "putSelf", ![c].action.muted = calls[c].was.selfMuted]
  /\ queue' = Request(Answered("storage"), "document", c)
  /\ UNCHANGED <<store, doc, popup, left, overlapped, undone, replaced, strayed, behind>>

GetSelfMuted(c) ==
  /\ Turn("storage", c, "getSelf")
  /\ calls' = [calls EXCEPT ![c].at = "putSelf", ![c].action.muted = store.selfMuted]
  /\ queue' = Request(Answered("storage"), "document", c)
  /\ UNCHANGED <<store, doc, popup, left, overlapped, undone, replaced, strayed, behind>>

(* A request that the document does not answer ends the call.               *)
Put(c, at, copy, next) ==
  /\ Turn("document", c, at)
  /\ IF ~Exists THEN End(c, calls, Answered("document"), "silent") /\ UNCHANGED doc
     ELSE /\ doc' = copy
          /\ calls' = [calls EXCEPT ![c].at = next.at]
          /\ queue' = Request(Answered("document"), next.service, c)
          /\ popup' = Refreshed(popup)
          /\ UNCHANGED <<left, overlapped, behind>>
  /\ UNCHANGED <<store, undone, replaced, strayed>>

(* Mutant: the channels' microphones keep the values of a new document.     *)
PutSettingsFew(c) ==
  LET config == calls[c].was.config IN
  \/ Put(c, "putSelf", [doc EXCEPT !.selfMuted = calls[c].action.muted],
         [service |-> "document", at |-> "putMonitor"])
  \/ \E next \in {[service |-> "storage", at |-> "getDevice"],
                  [service |-> "document", at |-> "capture"]} :
       Put(c, "putMonitor", [doc EXCEPT !.monitorMuted = config.monitorMuted], next)

(* SET_SELF_MUTED, SET_CHANNEL_MIC_STATES and SET_CHANNEL_MONITOR_STATES. A *)
(* meeting without the Hub's microphone opens one before it is captured.    *)
PutSettings(c) ==
  LET config == calls[c].was.config IN
  \/ Put(c, "putSelf", [doc EXCEPT !.selfMuted = calls[c].action.muted],
         [service |-> "document", at |-> "putMic"])
  \/ Put(c, "putMic", [doc EXCEPT !.micMuted = config.micMuted],
         [service |-> "document", at |-> "putMonitor"])
  \/ \E next \in {[service |-> "storage", at |-> "getDevice"],
                  [service |-> "document", at |-> "capture"]} :
       Put(c, "putMonitor", [doc EXCEPT !.monitorMuted = config.monitorMuted], next)

GetDevice(c) ==
  /\ Turn("storage", c, "getDevice")
  /\ calls' = [calls EXCEPT ![c].at = "ensureMic", ![c].action.value = store.device]
  /\ queue' = Request(Answered("storage"), "document", c)
  /\ UNCHANGED <<store, doc, popup, left, overlapped, undone, replaced, strayed, behind>>

(* ensureMicrophone: nothing to do when that microphone is open.            *)
EnsureMicrophone(c) ==
  /\ Turn("document", c, "ensureMic")
  /\ IF ~Exists THEN End(c, calls, Answered("document"), "silent")
     ELSE IF doc.active = calls[c].action.value THEN Goto(c, "document", "document", "capture")
     ELSE /\ calls' = [calls EXCEPT ![c].at = "opening"]
          /\ queue' = Answered("document")
          /\ UNCHANGED <<popup, left, overlapped, behind>>
  /\ UNCHANGED <<store, doc, undone, replaced, strayed>>

(* captureTab; for a meeting ensureMicrophone again, without a device.      *)
CaptureTab(c) ==
  /\ Turn("document", c, "capture")
  /\ \/ /\ \E how \in IF Exists THEN {"added", "silent"} ELSE {"silent"} :
             End(c, calls, Answered("document"), how)
        /\ UNCHANGED strayed
     \/ /\ Exists /\ doc.active # doc.device
        /\ calls' = [calls EXCEPT ![c].at = "reopening", ![c].action.value = doc.device]
        /\ queue' = Answered("document")
        /\ strayed' = (strayed \/ doc.device # store.device)
        /\ UNCHANGED <<popup, left, overlapped, behind>>
  /\ UNCHANGED <<store, doc, undone, replaced>>

(* getUserMedia answers.                                                    *)
MicrophoneOpened(c) ==
  /\ calls[c].at \in {"opening", "reopening"}
  /\ doc' = [doc EXCEPT !.device = calls[c].action.value, !.active = calls[c].action.value]
  /\ IF calls[c].at = "opening" /\ calls[c].action.kind = "add"
     THEN /\ calls' = [calls EXCEPT ![c].at = "capture"]
          /\ queue' = Request(queue, "document", c)
          /\ popup' = Refreshed(popup)
          /\ UNCHANGED <<left, overlapped, behind>>
     ELSE End(c, calls, queue, IF calls[c].action.kind = "add" THEN "added" ELSE "told")
  /\ UNCHANGED <<store, undone, replaced, strayed>>

(* It fails, or the document has gone: a change of the store is undone.     *)
Failed(c) ==
  /\ calls[c].at \in {"opening", "reopening", "lost"}
  /\ LET told == calls[c].at # "lost" IN
     IF calls[c].action.kind \in {"add", "clear", "stop"}
     THEN End(c, calls, queue, IF told THEN "told" ELSE "silent")
     ELSE /\ calls' = [calls EXCEPT ![c].at = "undo"]
          /\ queue' = Request(queue, "storage", c)
          /\ popup' = IF told THEN Refreshed(popup) ELSE popup
          /\ UNCHANGED <<left, overlapped, behind>>
  /\ UNCHANGED <<store, doc, undone, replaced, strayed>>

-----------------------------------------------------------------------------
(* stopAll and clearAllLocalData: the document is closed.                   *)

ReadRules(c) ==
  /\ Turn("storage", c, "clear")
  /\ calls' = [calls EXCEPT ![c].at = "close"]
  /\ queue' = Request(Answered("storage"), "browser", c)
  /\ UNCHANGED <<store, doc, popup, left, overlapped, undone, replaced, strayed, behind>>

(* What waits for the document is rejected.                                 *)
Rejected ==
  [c \in Call |-> IF \/ \E i \in DOMAIN queue.document : queue.document[i] = c
                     \/ calls[c].at \in {"loading", "opening", "reopening"}
                  THEN [calls[c] EXCEPT !.at = "lost"] ELSE calls[c]]

(* A document that is loading cannot be told to stop.                       *)
StopAll(c) ==
  /\ Turn("browser", c, "close") /\ calls[c].action.kind = "stop"
  /\ IF Exists
     THEN /\ doc' = None
          /\ End(c, Rejected, [Answered("browser") EXCEPT !.document = <<>>], "told")
     ELSE /\ End(c, calls, Answered("browser"), "silent")
          /\ UNCHANGED doc
  /\ UNCHANGED <<store, undone, replaced, strayed>>

(* clearAllLocalData closes it all the same.                                *)
CloseDocument(c) ==
  /\ Turn("browser", c, "close") /\ calls[c].action.kind = "clear"
  /\ doc' = None
  /\ calls' = [Rejected EXCEPT ![c].at = "wipe"]
  /\ queue' = Request([Answered("browser") EXCEPT !.document = <<>>], "storage", c)
  /\ UNCHANGED <<store, popup, left, overlapped, undone, replaced, strayed, behind>>

ClearStorage(c) ==
  /\ Turn("storage", c, "wipe")
  /\ store' = DefaultStore
  /\ replaced' = (replaced \/ InUse)
  /\ End(c, calls, Answered("storage"), "silent")
  /\ UNCHANGED <<doc, undone, strayed>>

-----------------------------------------------------------------------------
Storage ==
  \E c \in Call :
    \/ Read(c) \/ ReadToggle(c) \/ Write(c) \/ Undo(c) \/ AddTab(c) \/ GetSelfMuted(c)
    \/ GetDevice(c) \/ ReadRules(c) \/ ClearStorage(c)

Browser ==
  \/ DocumentLoaded
  \/ \E c \in Call :
       \/ HasDocument(c) \/ EnsureDocument(c) \/ CreateDocument(c) \/ StopAll(c)
       \/ CloseDocument(c)

Offscreen ==
  \E c \in Call :
    \/ Ask(c) \/ PutSettings(c) \/ EnsureMicrophone(c) \/ CaptureTab(c)
    \/ MicrophoneOpened(c) \/ Failed(c)

Next ==
  \/ Storage \/ Browser \/ Offscreen
  \/ OpenPopup \/ ClosePopup \/ Render
  \/ \E c \in Call :
       \/ \E action \in Asked : Click(c, action)
       \/ ImportSettings(c) \/ Command(c)
       \/ \E device \in Device : ApplySelectedDevice(c, device)

Spec == Init /\ [][Next]_vars

(* The services answer, a document loads, getUserMedia ends.  The user does *)
(* what it likes.                                                          *)
FairSpec ==
  /\ Spec
  /\ WF_vars(Storage) /\ WF_vars(Browser) /\ WF_vars(Render)
  /\ \A c \in Call :
       WF_vars(Ask(c) \/ PutSettings(c) \/ EnsureMicrophone(c) \/ CaptureTab(c) \/ Failed(c))

-----------------------------------------------------------------------------
Quiet == Running = {}

(* Whatever handlers overlap, fail or find the document being created, when *)
(* all have ended the document mutes the operator if and only if the store  *)
(* says so, unless two changes of that switch overlapped and one was undone;*)
(* and, as long as no two handlers of the configuration overlapped, it obeys*)
(* the switches of the channels (background.js:227-297, 527-541, 815-821).  *)
(* A store that was replaced as a whole, under them, is excepted.           *)
SwitchesAgree ==
  (Quiet /\ Exists /\ ~replaced) =>
    /\ ~("self" \in overlapped /\ undone) => doc.selfMuted = store.selfMuted
    /\ "config" \notin overlapped =>
         /\ doc.micMuted = store.config.micMuted
         /\ doc.monitorMuted = store.config.monitorMuted

(* A microphone that could not be opened is not the stored one: what is in  *)
(* use is stored, unless a meeting was given the choice of the document     *)
(* itself (background.js:682-703, offscreen.js:988, 1403-1413).             *)
MicrophoneIsStored ==
  (Quiet /\ Exists /\ ~replaced /\ "config" \notin overlapped /\ ~strayed /\ doc.active # None)
    => doc.active = store.device

(* A popup that waits for nothing shows what is stored, unless the last     *)
(* change was made elsewhere and told to nobody (popup.js:425-437, 746-752).*)
PopupShowsStore ==
  (Quiet /\ popup # None /\ popup.asked = 0 /\ ~behind) => popup.shown = store

(* The popup is given back: every action ends, also when the document is    *)
(* closed under it or was never there (popup.js:425-437).                   *)
PopupGivenBack ==
  \A c \in Call : (popup # None /\ popup.busy = c) ~> (popup = None \/ popup.busy # c)
=============================================================================
