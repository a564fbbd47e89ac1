------------------------------- MODULE PagePeer -------------------------------
(***************************************************************************)
(* The way of the mixed sound into a meeting page.  The offscreen document *)
(* (offscreen.js) offers a peer connection whenever the tab says it is     *)
(* ready; the service worker and the content script pass configuration,    *)
(* descriptions and candidates on; the page's script (main-world.js)       *)
(* answers, makes a track of the sound, gives it to the site that asks for a*)
(* microphone, and replaces it under the site's sender when the connection *)
(* is made anew.  An action is what runs between two awaits.  One tab with *)
(* a shared microphone.  A description names the connection it was made by:*)
(* the page makes one connection for every offer, so both ends go by the   *)
(* number of the offer.  The path to the tab keeps the order of messages, as*)
(* does the one of the signals back; a PAGE_READY, which awaits less, may  *)
(* overtake signals.  A document that is not listening loses its messages. *)
(***************************************************************************)
EXTENDS Naturals, Sequences, FiniteSets

CONSTANTS
  MaxJoins,    \* bound: how often the user adds the tab; each add reloads it
  MaxRestarts  \* bound: how often besides the page is loaded anew, or another
               \* frame of the tab announces itself

ASSUME PagePeerAssumption == MaxJoins \in Nat /\ MaxRestarts \in Nat

VARIABLES
  route,       \* has the document a route for the tab?
  joining,     \* addTab is still to reload the page
  pc,          \* the route's connection, 0 for none
  made,        \* how many connections the document has made
  rtc,         \* connection -> its state at the document
  run,         \* connection -> where its startPeer stands
  pending,     \* candidates kept until the answer is applied
  removed,     \* connections of removed routes that are still to be closed
  gathered,    \* connections of the document that have found a candidate
  heard,       \* connections of which one end knows a candidate of the other
  toTab, fromTab, ready,   \* what is under way
  page,        \* the document in the tab's top frame
  left         \* what is left of the bounds

vars == <<route, joining, pc, made, rtc, run, pending, removed, gathered, heard,
          toTab, fromTab, ready, page, left>>
document == <<route, joining, pc, made, rtc, run, pending, removed, gathered>>
paths == <<toTab, fromTab, ready>>

Connection == 1 .. (MaxJoins + MaxRestarts)
NoTrack == [of |-> 0, kind |-> "none"]
Track(k, kind) == [of |-> k, kind |-> kind]

NewPage ==
  [main |-> FALSE, content |-> FALSE, posts |-> {}, sent |-> FALSE,
   active |-> FALSE, configKnown |-> FALSE,
   outputPC |-> 0, peer |-> "none", early |-> {}, gathered |-> FALSE,
   pcm |-> "none", modules |-> {}, track |-> NoTrack, waiters |-> {},
   gum |-> "none", sender |-> NoTrack, bound |-> FALSE, replaces |-> <<>>]

(* A page that was loaded before the tab is added: there is no route for it.*)
Init ==
  /\ route = FALSE /\ joining = FALSE
  /\ pc = 0 /\ made = 0
  /\ rtc = [k \in Connection |-> "none"] /\ run = [k \in Connection |-> "none"]
  /\ pending = {} /\ removed = {} /\ gathered = {} /\ heard = {}
  /\ toTab = <<>> /\ fromTab = <<>> /\ ready = 0
  /\ page = [NewPage EXCEPT !.main = TRUE, !.content = TRUE, !.sent = TRUE, !.configKnown = TRUE]
  /\ left = [joins |-> MaxJoins, restarts |-> MaxRestarts]

Config(active, k) == [kind |-> "config", active |-> active, of |-> k]
Signal(kind, k) == [kind |-> kind, of |-> k]
Told(k) == ~\E i \in 1 .. Len(toTab) : toTab[i].kind = "config" /\ toTab[i].of = k

-----------------------------------------------------------------------------
(* The page: what the parts of its script make of it.                      *)

HasRemote(p) == p.peer \in {"answering", "up", "failed"}

(* closeOutput.  modules: what still waits for its worklet is not recalled. *)
CloseOutput(p) ==
  [p EXCEPT !.outputPC = 0, !.peer = "none", !.early = {}, !.gathered = FALSE,
            !.pcm = "none", !.track = NoTrack]

(* settle with an error, closePage and closeOutput: the sender keeps what it*)
(* has and is no longer looked after.                                       *)
Stop(p) ==
  [CloseOutput(p) EXCEPT !.waiters = {}, !.bound = FALSE, !.replaces = <<>>,
                         !.gum = IF @ = "waiting" THEN "failed" ELSE @]

(* Mutant: senders that were given an earlier track are not refreshed.      *)
SelectUnrefreshed(p, track) ==
  LET waits == "gum" \in p.waiters IN
  [p EXCEPT !.track = track, !.waiters = {},
            !.gum = IF waits THEN "bridge" ELSE @,
            !.sender = IF waits THEN track ELSE @,
            !.replaces = IF "attach" \in p.waiters THEN Append(@, track) ELSE @]

(* selectOutputTrack: those who wait get the track, and a sender that is    *)
(* looked after is given a clone of it.                                     *)
Select(p, track) ==
  LET waits == "gum" \in p.waiters IN
  [p EXCEPT !.track = track, !.waiters = {},
            !.gum = IF waits THEN "bridge" ELSE @,
            !.sender = IF waits THEN track ELSE @,
            !.replaces = IF p.bound /\ p.active THEN Append(@, track) ELSE @]

(* createOutput up to its first await; a candidate that came first, or with *)
(* the offer, is for the new connection.                                    *)
CreateOutput(p, offer) ==
  [CloseOutput(p) EXCEPT !.outputPC = offer.of, !.peer = "remote",
     !.early = p.early \cup (IF offer.found THEN {offer.of} ELSE {})]

(* Mutant: who waits for the track is not told that there will be none.     *)
BridgeConfigUnsettled(p, active) ==
  LET known == [p EXCEPT !.active = active, !.configKnown = TRUE] IN
  IF active THEN known
  ELSE [Stop(known) EXCEPT !.waiters = p.waiters, !.gum = p.gum]

BridgeConfig(p, active) ==
  LET known == [p EXCEPT !.active = active, !.configKnown = TRUE]
  IN  IF active THEN known ELSE Stop(known)

(* getUserMedia, once it has waited for the configuration.                  *)
Ask(p) ==
  IF ~p.active THEN [p EXCEPT !.gum = "native"]
  ELSE IF p.track # NoTrack THEN [p EXCEPT !.gum = "bridge", !.sender = p.track]
  ELSE [p EXCEPT !.gum = "waiting", !.waiters = @ \cup {"gum"}]

-----------------------------------------------------------------------------
(* The offscreen document.                                                 *)

(* startPeer up to its first await: whatever connection there was is closed.*)
StartPeer ==
  LET k == made + 1 IN
  /\ made' = k /\ pc' = k
  /\ rtc' = [j \in Connection |-> IF j = k THEN "new" ELSE IF j = pc THEN "closed" ELSE rtc[j]]
  /\ run' = [run EXCEPT ![k] = "config"]
  /\ pending' = {}
  /\ toTab' = Append(toTab, Config(TRUE, k))

(* PAGE_READY: the connection is made anew, or there is none to make.       *)
TabReady ==
  /\ ready > 0 /\ ready' = ready - 1
  /\ IF route THEN StartPeer
     ELSE /\ toTab' = Append(toTab, Config(FALSE, 0))
          /\ UNCHANGED <<pc, made, rtc, run, pending>>
  /\ UNCHANGED <<route, joining, removed, gathered, heard, fromTab, page, left>>

(* The worker has passed the configuration on, or there was nobody to take  *)
(* it: createOffer, setLocalDescription.  On a closed connection they fail. *)
Offer(k) ==
  /\ run[k] = "config" /\ Told(k)
  /\ IF rtc[k] = "new"
     THEN rtc' = [rtc EXCEPT ![k] = "offered"] /\ run' = [run EXCEPT ![k] = "status"]
     ELSE run' = [run EXCEPT ![k] = "none"] /\ UNCHANGED rtc
  /\ UNCHANGED <<route, joining, pc, made, pending, removed, gathered, heard, paths, page, left>>

(* The popup has been told: the offer goes out, also of a connection that   *)
(* has been closed meanwhile.  Its description has the candidates found.    *)
SendOffer(k) ==
  /\ run[k] = "status" /\ \A j \in 1 .. k - 1 : run[j] # "status"
  /\ run' = [run EXCEPT ![k] = "none"]
  /\ toTab' = Append(toTab, [kind |-> "offer", of |-> k, found |-> k \in gathered])
  /\ UNCHANGED <<route, joining, pc, made, rtc, pending, removed, gathered, heard,
                 fromTab, ready, page, left>>

Gather(k) ==
  /\ rtc[k] \in {"offered", "applying", "answered", "deaf", "misled"} /\ k \notin gathered
  /\ gathered' = gathered \cup {k}
  /\ toTab' = Append(toTab, Signal("candidate", k))
  /\ UNCHANGED <<route, joining, pc, made, rtc, run, pending, removed, heard,
                 fromTab, ready, page, left>>

(* handleSignalFromTab: an answer is applied to the connection there is; it *)
(* is refused when that one has no offer out.                               *)
Take(signal) ==
  IF ~route \/ pc = 0 THEN UNCHANGED <<rtc, pending, heard>>
  ELSE IF signal.kind = "answer"
  THEN /\ rtc' = IF rtc[pc] # "offered" THEN rtc
                 ELSE [rtc EXCEPT ![pc] = IF signal.of = pc THEN "applying" ELSE "misled"]
       /\ UNCHANGED <<pending, heard>>
  ELSE IF rtc[pc] \in {"answered", "deaf", "misled"}
  THEN /\ heard' = IF signal.of = pc THEN heard \cup {pc} ELSE heard
       /\ UNCHANGED <<rtc, pending>>
  ELSE pending' = pending \cup {signal.of} /\ UNCHANGED <<rtc, heard>>

HandleSignalFromTab ==
  /\ fromTab # <<>> /\ fromTab' = Tail(fromTab)
  /\ Take(Head(fromTab))
  /\ UNCHANGED <<route, joining, pc, made, run, removed, gathered, toTab, ready, page, left>>

(* The answer is in place, and with it the candidates that were kept.  One  *)
(* of an earlier connection is refused or ignored, as the browser has it;   *)
(* refused, it takes those behind it with it: the list is empty by then.    *)
Applied(k) ==
  LET kept == IF k = pc THEN pending ELSE {} IN
  /\ rtc[k] = "applying"
  /\ \/ /\ rtc' = [rtc EXCEPT ![k] = "answered"]
        /\ heard' = heard \cup (kept \cap {k})
     \/ /\ kept \ {k} # {}
        /\ rtc' = [rtc EXCEPT ![k] = "deaf"]
        /\ UNCHANGED heard
  /\ pending' = pending \ kept
  /\ UNCHANGED <<route, joining, pc, made, run, removed, gathered, paths, page, left>>

(* addTab: a route without a connection, and a page to be loaded anew.      *)
AddTab ==
  /\ ~route /\ ~joining /\ left.joins > 0
  /\ route' = TRUE /\ joining' = TRUE
  /\ left' = [left EXCEPT !.joins = @ - 1]
  /\ UNCHANGED <<pc, made, rtc, run, pending, removed, gathered, heard, paths, page>>

(* removeTab: the page is told, and only then the connection is closed.     *)
RemoveTab ==
  /\ route /\ route' = FALSE
  /\ removed' = IF pc = 0 THEN removed ELSE removed \cup {pc}
  /\ pc' = 0 /\ pending' = {}
  /\ toTab' = Append(toTab, Config(FALSE, pc))
  /\ UNCHANGED <<joining, made, rtc, run, gathered, heard, fromTab, ready, page, left>>

(* Mutant: the connection of a removed route is left open.                  *)
CloseRemovedNot(k) ==
  /\ k \in removed /\ Told(k)
  /\ removed' = removed \ {k}
  /\ UNCHANGED <<route, joining, pc, made, rtc, run, pending, gathered, heard, paths, page, left>>

CloseRemoved(k) ==
  /\ k \in removed /\ Told(k)
  /\ removed' = removed \ {k}
  /\ rtc' = [rtc EXCEPT ![k] = "closed"]
  /\ UNCHANGED <<route, joining, pc, made, run, pending, gathered, heard, paths, page, left>>

-----------------------------------------------------------------------------
(* The tab.                                                                *)

(* pagehide closes everything, the next document begins with nothing.       *)
Load == page' = NewPage /\ UNCHANGED <<pc, made, rtc, run, pending, removed, gathered, heard, paths>>

JoinReloads == joining /\ joining' = FALSE /\ Load /\ UNCHANGED <<route, left>>

Reload ==
  /\ left.restarts > 0 /\ left' = [left EXCEPT !.restarts = @ - 1]
  /\ Load /\ UNCHANGED <<route, joining>>

(* The content scripts run in every frame; the worker answers to the top one.*)
FrameReady ==
  /\ left.restarts > 0 /\ left' = [left EXCEPT !.restarts = @ - 1]
  /\ ready' = ready + 1
  /\ UNCHANGED <<document, heard, toTab, fromTab, page>>

InPage == UNCHANGED <<document, heard, paths, left>>

(* The two scripts of a document are run in either order.                   *)
RunMain ==
  /\ ~page.main /\ InPage
  /\ page' = [page EXCEPT !.main = TRUE, !.posts = @ \cup {"MAIN_READY"}]

(* Mutant: the content script does not announce itself.                     *)
RunContentQuietly == ~page.content /\ InPage /\ page' = [page EXCEPT !.content = TRUE]

RunContent ==
  /\ ~page.content /\ InPage
  /\ page' = [page EXCEPT !.content = TRUE, !.posts = @ \cup {"EXTENSION_READY"}]

(* What is posted to a script that has not run yet is lost.                 *)
ExtensionReady ==
  /\ "EXTENSION_READY" \in page.posts /\ InPage
  /\ page' = [page EXCEPT !.posts = (@ \ {"EXTENSION_READY"}) \cup
                                    (IF page.main THEN {"MAIN_READY"} ELSE {})]

MainReady ==
  /\ "MAIN_READY" \in page.posts
  /\ page' = [page EXCEPT !.posts = @ \ {"MAIN_READY"}, !.sent = @ \/ page.content]
  /\ ready' = IF page.content /\ ~page.sent THEN ready + 1 ELSE ready
  /\ UNCHANGED <<document, heard, toTab, fromTab, left>>

-----------------------------------------------------------------------------
(* The page's script at work.                                              *)

Receive(message) ==
  IF ~page.main \/ ~page.content THEN UNCHANGED <<page, heard>>
  ELSE CASE message.kind = "config" ->
              page' = BridgeConfig(page, message.active) /\ UNCHANGED heard
         [] message.kind = "offer" ->
              page' = CreateOutput(page, message) /\ UNCHANGED heard
         [] message.kind = "candidate" ->
              IF HasRemote(page)
              THEN /\ heard' = IF message.of = page.outputPC THEN heard \cup {message.of} ELSE heard
                   /\ UNCHANGED page
              ELSE /\ page' = [page EXCEPT !.early = @ \cup {message.of}]
                   /\ UNCHANGED heard

ReceiveInTab ==
  /\ toTab # <<>> /\ toTab' = Tail(toTab)
  /\ Receive(Head(toTab))
  /\ UNCHANGED <<document, fromTab, ready, left>>

(* The offer is in place: its audio track is there, and the early candidates*)
(* are added.  One of another connection is refused or ignored, as the      *)
(* browser has it; refused, it takes createOutput with it.                  *)
RemoteSet ==
  /\ page.peer = "remote"
  /\ LET k == page.outputPC
         set == Select([page EXCEPT !.early = {}], Track(k, "remote"))
     IN  /\ \/ page' = [set EXCEPT !.peer = "answering"]
            \/ /\ page.early \ {k} # {}
               /\ page' = [set EXCEPT !.peer = "failed"]
         /\ heard' = IF k \in page.early THEN heard \cup {k} ELSE heard
  /\ UNCHANGED <<document, paths, left>>

SendAnswer ==
  /\ page.peer = "answering"
  /\ page' = [page EXCEPT !.peer = "up"]
  /\ fromTab' = Append(fromTab, Signal("answer", page.outputPC))
  /\ UNCHANGED <<document, heard, toTab, ready, left>>

GatherInPage ==
  /\ page.peer = "up" /\ ~page.gathered
  /\ page' = [page EXCEPT !.gathered = TRUE]
  /\ fromTab' = Append(fromTab, Signal("candidate", page.outputPC))
  /\ UNCHANGED <<document, heard, toTab, ready, left>>

(* The ends find each other and the data channel opens: createPcmPageOutput.*)
Connected ==
  page.peer = "up" /\ rtc[page.outputPC] \in {"answered", "deaf"} /\ page.outputPC \in heard
DataChannel ==
  /\ page.outputPC # 0 /\ Connected /\ page.pcm = "none" /\ InPage
  /\ page' = [page EXCEPT !.pcm = "loading", !.modules = @ \cup {page.outputPC}]

(* Mutant: what was closed under the await is not looked at again.          *)
ModuleLoadedUnchecked(k) ==
  /\ k \in page.modules /\ InPage
  /\ LET done == [page EXCEPT !.modules = @ \ {k}]
     IN  page' = Select([done EXCEPT !.pcm = "ready"], Track(k, "pcm"))

(* addModule has ended, well or badly: the worklet, or the legacy processor,*)
(* gives the track, unless its state was closed.                            *)
ModuleLoaded(k) ==
  /\ k \in page.modules /\ InPage
  /\ LET done == [page EXCEPT !.modules = @ \ {k}]
     IN  page' = IF page.outputPC = k /\ page.pcm = "loading"
                 THEN Select([done EXCEPT !.pcm = "ready"], Track(k, "pcm")) ELSE done

(* The site asks for a microphone, once for each document.                  *)
Gum ==
  /\ page.main /\ page.gum = "none" /\ InPage
  /\ page' = IF page.configKnown THEN Ask(page) ELSE [page EXCEPT !.gum = "config"]

(* The configuration is there, or 2.5 seconds are over.                     *)
GumConfigured == page.gum = "config" /\ InPage /\ page' = Ask(page)

(* The site sends the track it was given: bindSharedSender, attachSharedMix.*)
AddTrack ==
  /\ page.gum = "bridge" /\ InPage
  /\ page' = LET sent == [page EXCEPT !.gum = "sent"] IN
       IF ~page.active THEN sent
       ELSE IF page.track = NoTrack
       THEN [sent EXCEPT !.bound = TRUE, !.waiters = @ \cup {"attach"}]
       ELSE [sent EXCEPT !.bound = TRUE, !.replaces = Append(@, page.track)]

ReplaceTrack ==
  /\ page.replaces # <<>> /\ InPage
  /\ page' = [page EXCEPT !.sender = Head(page.replaces), !.replaces = Tail(@)]

(* waitOutput gives up after 20 seconds; a sender is then given up too.     *)
WaitTimeout(w) ==
  /\ w \in page.waiters /\ InPage
  /\ page' = [page EXCEPT !.waiters = @ \ {w},
                          !.gum = IF w = "gum" THEN "failed" ELSE @,
                          !.bound = @ /\ w # "attach"]

-----------------------------------------------------------------------------
Next ==
  \/ TabReady \/ HandleSignalFromTab \/ AddTab \/ RemoveTab
  \/ \E k \in Connection :
       Offer(k) \/ SendOffer(k) \/ Gather(k) \/ Applied(k) \/ CloseRemoved(k) \/ ModuleLoaded(k)
  \/ JoinReloads \/ Reload \/ FrameReady
  \/ RunMain \/ RunContent \/ ExtensionReady \/ MainReady
  \/ ReceiveInTab \/ RemoteSet \/ SendAnswer \/ GatherInPage \/ DataChannel
  \/ Gum \/ GumConfigured \/ AddTrack \/ ReplaceTrack
  \/ \E w \in {"gum", "attach"} : WaitTimeout(w)

Spec == Init /\ [][Next]_vars

(* The browser runs the scripts of a document, delivers what was sent, and  *)
(* settles its promises.  Nothing is owed by the user, the site, the other  *)
(* frames and the timers, nor is a second candidate.                        *)
Fairness ==
  /\ WF_vars(TabReady) /\ WF_vars(HandleSignalFromTab) /\ WF_vars(ReceiveInTab)
  /\ \A k \in Connection :
       WF_vars(Offer(k)) /\ WF_vars(SendOffer(k)) /\ WF_vars(Applied(k))
       /\ WF_vars(CloseRemoved(k)) /\ WF_vars(ModuleLoaded(k))
  /\ WF_vars(JoinReloads) /\ WF_vars(RunMain) /\ WF_vars(RunContent)
  /\ WF_vars(ExtensionReady) /\ WF_vars(MainReady)
  /\ WF_vars(RemoteSet) /\ WF_vars(SendAnswer) /\ WF_vars(GatherInPage) /\ WF_vars(DataChannel)
  /\ WF_vars(ReplaceTrack)

FairSpec == Spec /\ Fairness

-----------------------------------------------------------------------------
(* The page never gives out the track of a connection it has closed: what   *)
(* comes back from an await after a restart or a stop is dropped            *)
(* (main-world.js:116, 169).                                                *)
TrackOfPeer == page.track # NoTrack => page.track.of = page.outputPC

(* Whoever waits for the track waits for a reason: the bridge is on and     *)
(* there is no track yet (main-world.js:59-60, 227).                        *)
WaitersHaveReason == page.waiters # {} => page.active /\ page.track = NoTrack

(* A sender the bridge looks after carries the current track or is about to,*)
(* however restarts, refreshes and replacements overlap                     *)
(* (main-world.js:152-154).                                                 *)
SenderFollows ==
  page.bound /\ page.track # NoTrack =>
    IF page.replaces = <<>> THEN page.sender = page.track
    ELSE page.replaces[Len(page.replaces)] = page.track

(* A page that does not know it is bridged holds no live connection to the  *)
(* document, unless it has yet to announce itself: offers may overtake a    *)
(* reload or a removal, and are of a connection that is closed by then      *)
(* (offscreen.js:1148-1160, main-world.js:227).                             *)
InactiveIsAlone ==
  page.outputPC # 0 /\ ~page.active =>
    \/ ~page.sent \/ ready > 0 \/ page.outputPC \in removed
    \/ rtc[page.outputPC] = "closed"

(* A tab that stays in the bridge ends up with a page whose track is that of*)
(* the document's connection, however its two scripts were injected and     *)
(* however its frames restart the connection (content-bridge.js:118-120,    *)
(* background.js:1061-1063): unless an answer, or a candidate, of an earlier*)
(* connection was taken for one of this.                                    *)
Hears == page.active /\ pc # 0 /\ page.track = Track(pc, "pcm")
Misled ==
  \/ page.peer = "failed"
  \/ pc # 0 /\ (rtc[pc] = "misled" \/ (rtc[pc] = "deaf" /\ pc \notin heard))
JoinedHears == <>[](route /\ ~joining) => <>[](Hears \/ Misled)
=============================================================================
