---------------------------- MODULE PagePeer_proofs ----------------------------
(***************************************************************************)
(* What PagePeer promises about a page's track, those who wait for it and  *)
(* the site's sender, for any number of joins and restarts.  The first     *)
(* part's argument needs only the page: PageInv is kept by every operator  *)
(* that the actions apply to the page's record, whatever message the       *)
(* document sends and whenever it arrives.  The second part, on pages that *)
(* are not told of their bridge, is about both ends and what is on the way.*)
(***************************************************************************)
EXTENDS PagePeer, TLAPS

ATrack == [of: Nat, kind: {"none", "remote", "pcm"}]

Page ==
  [main: BOOLEAN, content: BOOLEAN, posts: SUBSET {"MAIN_READY", "EXTENSION_READY"}, sent: BOOLEAN,
   active: BOOLEAN, configKnown: BOOLEAN,
   outputPC: Nat, peer: {"none", "remote", "answering", "up", "failed"}, early: SUBSET Nat,
   gathered: BOOLEAN, pcm: {"none", "loading", "ready"}, modules: SUBSET Nat, track: ATrack,
   waiters: SUBSET {"gum", "attach"},
   gum: {"none", "config", "native", "waiting", "bridge", "sent", "failed"},
   sender: ATrack, bound: BOOLEAN, replaces: Seq(ATrack)]

Message ==
  [kind: {"config"}, active: BOOLEAN, of: Nat]
  \cup [kind: {"offer"}, of: Nat, found: BOOLEAN]
  \cup [kind: {"candidate"}, of: Nat]

TypeOK ==
  /\ pc \in Nat /\ made \in Nat
  /\ toTab \in Seq(Message)
  /\ page \in Page

(* The three invariants, of a page p; a sender is looked after only while   *)
(* the bridge is on, or Select would leave it out.                          *)
OwnTrack(p) == p.track # NoTrack => p.track.of = p.outputPC
Reason(p) == p.waiters # {} => p.active /\ p.track = NoTrack
Follows(p) ==
  p.bound /\ p.track # NoTrack =>
    IF p.replaces = <<>> THEN p.sender = p.track
    ELSE p.replaces[Len(p.replaces)] = p.track
PageInv(p) ==
  /\ p \in Page
  /\ OwnTrack(p) /\ Reason(p) /\ Follows(p)
  /\ p.bound => p.active

IInv == pc \in Nat /\ made \in Nat /\ toTab \in Seq(Message) /\ PageInv(page)

-----------------------------------------------------------------------------
(* The page's operators.                                                   *)

(* The record of a page whose output was closed.                           *)
LEMMA CloseOutputKeeps ==
  ASSUME NEW p \in Page, PageInv(p)
  PROVE  PageInv(CloseOutput(p)) /\ CloseOutput(p).track = NoTrack
<1> DEFINE q == CloseOutput(p)
<1>1. NoTrack \in ATrack
  BY DEF NoTrack, ATrack
<1>2. q \in Page
  BY <1>1 DEF CloseOutput, Page
<1>3. q.track = NoTrack /\ q.waiters = p.waiters /\ q.active = p.active /\ q.bound = p.bound
  BY DEF CloseOutput, Page
<1> QED
  BY <1>2, <1>3 DEF PageInv, OwnTrack, Reason, Follows

LEMMA EmptyTracks == <<>> \in Seq(ATrack)
  OBVIOUS

LEMMA Forgotten ==
  ASSUME NEW p \in Page
  PROVE  [p EXCEPT !.waiters = {}, !.bound = FALSE, !.replaces = <<>>,
                   !.gum = IF @ = "waiting" THEN "failed" ELSE @] \in Page
<1> DEFINE gum == IF p.gum = "waiting" THEN "failed" ELSE p.gum
<1>1. gum \in {"none", "config", "native", "waiting", "bridge", "sent", "failed"}
  BY DEF Page
<1> HIDE DEF gum
<1>2. [p EXCEPT !.waiters = {}, !.bound = FALSE, !.replaces = <<>>, !.gum = gum] \in Page
  BY <1>1, EmptyTracks DEF Page
<1> QED
  BY <1>2 DEF gum

(* The last of what is still to be put into the sender.                     *)
LEMMA LastAppended ==
  ASSUME NEW s \in Seq(ATrack), NEW t \in ATrack
  PROVE  /\ Append(s, t) \in Seq(ATrack)
         /\ Append(s, t) # <<>>
         /\ Append(s, t)[Len(Append(s, t))] = t
  OBVIOUS

LEMMA FirstTaken ==
  ASSUME NEW s \in Seq(ATrack), s # <<>>
  PROVE  /\ Head(s) \in ATrack /\ Tail(s) \in Seq(ATrack)
         /\ Tail(s) = <<>> => Head(s) = s[Len(s)]
         /\ Tail(s) # <<>> => Tail(s)[Len(Tail(s))] = s[Len(s)]
<1>1. Head(s) \in ATrack /\ Tail(s) \in Seq(ATrack) /\ Len(s) \in Nat \ {0} /\ Head(s) = s[1]
  OBVIOUS
<1>2. Len(Tail(s)) = Len(s) - 1
  OBVIOUS
<1>3. CASE Tail(s) = <<>>
  BY <1>1, <1>2, <1>3
<1>4. CASE Tail(s) # <<>>
  <2>1. Len(Tail(s)) \in 1 .. Len(Tail(s))
    BY <1>1, <1>2, <1>4
  <2>2. \A i \in 1 .. Len(Tail(s)) : Tail(s)[i] = s[i + 1]
    OBVIOUS
  <2> QED
    BY <1>1, <1>2, <1>4, <2>1, <2>2
<1> QED
  BY <1>1, <1>3, <1>4

(* The parts of the page that PageInv is about.                             *)
LEMMA Untouched ==
  ASSUME NEW p \in Page, PageInv(p), NEW q \in Page,
         q.outputPC = p.outputPC, q.track = p.track, q.waiters = p.waiters, q.active = p.active,
         q.bound = p.bound, q.sender = p.sender, q.replaces = p.replaces
  PROVE  PageInv(q)
  BY DEF PageInv, OwnTrack, Reason, Follows

(* Whoever is given the page's own track, PageInv lives on.                 *)
LEMMA SelectKeeps ==
  ASSUME NEW p \in Page, PageInv(p), NEW t \in ATrack, t.of = p.outputPC
  PROVE  PageInv(Select(p, t))
<1> DEFINE q == Select(p, t)
<1>1. q \in Page
  <2> DEFINE waits == "gum" \in p.waiters
             gum == IF waits THEN "bridge" ELSE p.gum
             sender == IF waits THEN t ELSE p.sender
             more == IF p.bound /\ p.active THEN Append(p.replaces, t) ELSE p.replaces
  <2>1. gum \in {"none", "config", "native", "waiting", "bridge", "sent", "failed"} /\ sender \in ATrack
    BY DEF Page
  <2>2. more \in Seq(ATrack)
    BY LastAppended DEF Page
  <2>3. q = [p EXCEPT !.track = t, !.waiters = {}, !.gum = gum, !.sender = sender, !.replaces = more]
    BY DEF Select
  <2> HIDE DEF waits, gum, sender, more, q
  <2> QED
    BY <2>1, <2>2, <2>3 DEF Page
<1>2. /\ q.track = t /\ q.outputPC = p.outputPC /\ q.waiters = {}
      /\ q.bound = p.bound /\ q.active = p.active
  BY DEF Select, Page
<1>3. ASSUME p.bound PROVE q.replaces = Append(p.replaces, t)
  BY <1>3 DEF Select, Page, PageInv
<1>4. Follows(q)
  BY <1>2, <1>3, LastAppended DEF Follows, Page
<1> QED
  BY <1>1, <1>2, <1>4 DEF PageInv, OwnTrack, Reason

LEMMA CreateOutputKeeps ==
  ASSUME NEW p \in Page, PageInv(p), NEW offer \in Message, offer.kind = "offer"
  PROVE  PageInv(CreateOutput(p, offer))
<1>1. offer.of \in Nat
  BY DEF Message
<1>2. PageInv(CloseOutput(p)) /\ CloseOutput(p).track = NoTrack
  BY CloseOutputKeeps
<1> DEFINE c == CloseOutput(p)
           early == p.early \cup (IF offer.found THEN {offer.of} ELSE {})
           q == CreateOutput(p, offer)
<1>3. early \subseteq Nat
  BY <1>1 DEF Page
<1>4. q = [c EXCEPT !.outputPC = offer.of, !.peer = "remote", !.early = early] /\ c \in Page
  BY <1>2 DEF CreateOutput, PageInv
<1> HIDE DEF c, early, q
<1>5. q \in Page
  BY <1>1, <1>3, <1>4 DEF Page
<1>6. /\ q.track = c.track /\ q.waiters = c.waiters /\ q.active = c.active /\ q.bound = c.bound
  BY <1>4 DEF Page
<1>7. c.track = NoTrack /\ PageInv(c)
  BY <1>2 DEF c
<1> QED
  BY <1>5, <1>6, <1>7 DEF PageInv, OwnTrack, Reason, Follows, q

LEMMA BridgeConfigKeeps ==
  ASSUME NEW p \in Page, PageInv(p), NEW on \in BOOLEAN
  PROVE  PageInv(BridgeConfig(p, on))
<1> DEFINE known == [p EXCEPT !.active = on, !.configKnown = TRUE]
<1>1. CASE on
  BY <1>1 DEF BridgeConfig, PageInv, Page, OwnTrack, Reason, Follows
<1>2. CASE ~on
  <2>1. BridgeConfig(p, on) = Stop(known)
    BY <1>2 DEF BridgeConfig
  <2> DEFINE q == Stop(known)
  <2>2. q \in Page
    <3>1. known \in Page
      BY DEF Page
    <3>2. NoTrack \in ATrack
      BY DEF NoTrack, ATrack
    <3> HIDE DEF known
    <3>3. CloseOutput(known) \in Page
      BY <3>1, <3>2 DEF CloseOutput, Page
    <3> QED
      BY <3>3, Forgotten DEF Stop
  <2>3. q.track = NoTrack /\ q.waiters = {} /\ q.bound = FALSE
    BY DEF Stop, CloseOutput, Page
  <2> QED
    BY <2>1, <2>2, <2>3 DEF PageInv, OwnTrack, Reason, Follows
<1> QED
  BY <1>1, <1>2

(* A page's record with the sets of its values named, so that a proof need   *)
(* not look into them.                                                     *)
Post == {"MAIN_READY", "EXTENSION_READY"}
PeerState == {"none", "remote", "answering", "up", "failed"}
PcmState == {"none", "loading", "ready"}
Waiter == {"gum", "attach"}
GumState == {"none", "config", "native", "waiting", "bridge", "sent", "failed"}
NamedPage ==
  [main : BOOLEAN, content : BOOLEAN, posts : SUBSET Post, sent : BOOLEAN, active : BOOLEAN,
   configKnown : BOOLEAN, outputPC : Nat, peer : PeerState, early : SUBSET Nat,
   gathered : BOOLEAN, pcm : PcmState, modules : SUBSET Nat, track : ATrack,
   waiters : SUBSET Waiter, gum : GumState, sender : ATrack, bound : BOOLEAN,
   replaces : Seq(ATrack)]

LEMMA PageIsNamed == Page = NamedPage
  BY Zenon DEF Page, NamedPage, Post, PeerState, PcmState, Waiter, GumState

(* The two records a request of the microphone may leave.                  *)
LEMMA AskedPages ==
  ASSUME NEW p \in Page, NEW w, w \subseteq Waiter, NEW s \in ATrack
  PROVE  /\ [p EXCEPT !.gum = "waiting", !.waiters = w] \in Page
         /\ [p EXCEPT !.gum = "bridge", !.sender = s] \in Page
<1>1. p \in NamedPage /\ "waiting" \in GumState /\ "bridge" \in GumState
  BY PageIsNamed DEF GumState
<1>2. [p EXCEPT !.gum = "waiting", !.waiters = w] \in NamedPage
  BY <1>1 DEF NamedPage
<1>3. [p EXCEPT !.gum = "bridge", !.sender = s] \in NamedPage
  BY <1>1 DEF NamedPage
<1> QED
  BY <1>2, <1>3, PageIsNamed, Zenon

LEMMA AskKeeps ==
  ASSUME NEW p \in Page, PageInv(p)
  PROVE  PageInv(Ask(p))
<1>1. CASE ~p.active
  <2>1. Ask(p) = [p EXCEPT !.gum = "native"]
    BY <1>1 DEF Ask
  <2> QED
    BY <2>1, Untouched DEF Page
<1>2. CASE p.active /\ p.track # NoTrack
  <2>1. Ask(p) = [p EXCEPT !.gum = "bridge", !.sender = p.track]
    BY <1>2 DEF Ask
  <2>2. Ask(p) \in Page
    <3>1. p.track \in ATrack
      BY DEF Page
    <3> QED
      BY <2>1, <3>1, AskedPages, Zenon
  <2>3. /\ Ask(p).outputPC = p.outputPC /\ Ask(p).track = p.track /\ Ask(p).waiters = p.waiters
        /\ Ask(p).active = p.active /\ Ask(p).bound = p.bound /\ Ask(p).replaces = p.replaces
        /\ Ask(p).sender = p.track
    BY <2>1 DEF Page
  <2> QED
    BY <2>2, <2>3 DEF PageInv, OwnTrack, Reason, Follows
<1>3. CASE p.active /\ p.track = NoTrack
  <2> DEFINE more == p.waiters \cup {"gum"}
  <2>1. Ask(p) = [p EXCEPT !.gum = "waiting", !.waiters = more]
    BY <1>3 DEF Ask
  <2>2. Ask(p) \in Page
    <3>1. more \subseteq Waiter
      BY PageIsNamed DEF NamedPage, Waiter
    <3>2. NoTrack \in ATrack
      BY DEF NoTrack, ATrack
    <3> HIDE DEF more
    <3> QED
      BY <2>1, <3>1, <3>2, AskedPages, Zenon
  <2>3. Ask(p).track = p.track /\ Ask(p).active = p.active /\ Ask(p).bound = p.bound
    BY <2>1 DEF Page
  <2> QED
    BY <1>3, <2>2, <2>3 DEF PageInv, OwnTrack, Reason, Follows
<1> QED
  BY <1>1, <1>2, <1>3

-----------------------------------------------------------------------------
(* The steps.                                                              *)

LEMMA NewPageInv == PageInv(NewPage)
<1>1. NewPage \in Page
  BY EmptyTracks DEF NewPage, Page, NoTrack, ATrack
<1> QED
  BY <1>1 DEF NewPage, PageInv, OwnTrack, Reason, Follows

LEMMA InitInv == Init => IInv
<1> SUFFICES ASSUME Init PROVE IInv
  OBVIOUS
<1>1. NewPage \in Page /\ PageInv(NewPage)
  BY NewPageInv DEF PageInv
<1>2. PageInv(page)
  <2>1. page = [NewPage EXCEPT !.main = TRUE, !.content = TRUE, !.sent = TRUE, !.configKnown = TRUE]
    BY DEF Init
  <2> HIDE DEF NewPage
  <2> QED
    BY <1>1, <2>1 DEF PageInv, Page, OwnTrack, Reason, Follows
<1> QED
  BY <1>2 DEF Init, IInv

(* What is sent to the tab is a message.                                    *)
LEMMA Sent ==
  ASSUME NEW s \in Seq(Message), NEW k \in Nat, NEW b \in BOOLEAN
  PROVE  /\ Append(s, Config(b, k)) \in Seq(Message)
         /\ Append(s, Signal("candidate", k)) \in Seq(Message)
         /\ Append(s, [kind |-> "offer", of |-> k, found |-> b]) \in Seq(Message)
  BY DEF Message, Config, Signal

LEMMA ConnectionNat == Connection \subseteq Nat
  BY PagePeerAssumption DEF Connection

(* The document, the worker and the other frames leave the page alone.      *)
LEMMA DocumentStep ==
  ASSUME IInv,
         \/ TabReady \/ HandleSignalFromTab \/ AddTab \/ RemoveTab \/ FrameReady
         \/ \E k \in Connection :
              Offer(k) \/ SendOffer(k) \/ Gather(k) \/ Applied(k) \/ CloseRemoved(k)
  PROVE  IInv'
<1>1. page' = page
  BY DEF TabReady, HandleSignalFromTab, AddTab, RemoveTab, FrameReady, Offer, SendOffer, Gather,
         Applied, CloseRemoved
<1>2. pc' \in Nat /\ made' \in Nat /\ toTab' \in Seq(Message)
  <2> USE ConnectionNat, Sent DEF IInv
  <2>1. CASE TabReady
    <3>1. CASE route
      <4>1. made + 1 \in Nat /\ Append(toTab, Config(TRUE, made + 1)) \in Seq(Message)
        <5>1. made + 1 \in Nat
          BY DEF IInv
        <5>2. ASSUME NEW k \in Nat PROVE Append(toTab, Config(TRUE, k)) \in Seq(Message)
          BY Sent DEF IInv
        <5> QED
          BY <5>1, <5>2, Zenon
      <4>2. pc' = made + 1 /\ made' = made + 1 /\ toTab' = Append(toTab, Config(TRUE, made + 1))
        <5>1. StartPeer
          BY <2>1, <3>1 DEF TabReady
        <5> QED
          BY <5>1, Zenon DEF StartPeer
      <4> QED
        BY <4>1, <4>2
    <3>2. CASE ~route
      BY <2>1, <3>2 DEF TabReady
    <3> QED
      BY <3>1, <3>2
  <2>2. CASE HandleSignalFromTab \/ AddTab \/ FrameReady
    BY <2>2 DEF HandleSignalFromTab, AddTab, FrameReady, paths, document
  <2>3. CASE RemoveTab
    BY <2>3 DEF RemoveTab
  <2>4. ASSUME NEW k \in Connection, Offer(k) \/ Applied(k) \/ CloseRemoved(k)
        PROVE  pc' \in Nat /\ made' \in Nat /\ toTab' \in Seq(Message)
    BY <2>4 DEF Offer, Applied, CloseRemoved, paths
  <2>5. ASSUME NEW k \in Connection, SendOffer(k) \/ Gather(k)
        PROVE  pc' \in Nat /\ made' \in Nat /\ toTab' \in Seq(Message)
    <3>1. pc' = pc /\ made' = made
      BY <2>5 DEF SendOffer, Gather
    <3>2. k \in Nat /\ (k \in gathered) \in BOOLEAN
      BY ConnectionNat
    <3> QED
      BY <2>5, <3>1, <3>2 DEF SendOffer, Gather
  <2> QED
    BY <2>1, <2>2, <2>3, <2>4, <2>5
<1> QED
  BY <1>1, <1>2 DEF IInv, PageInv

(* The page takes the next message, whatever it is.                         *)
LEMMA ReceiveStep ==
  ASSUME IInv, ReceiveInTab
  PROVE  IInv'
<1> DEFINE message == Head(toTab)
<1>1. /\ toTab # <<>> /\ toTab' = Tail(toTab) /\ Receive(message)
      /\ pc' = pc /\ made' = made
  BY DEF ReceiveInTab, document
<1>2. message \in Message /\ Tail(toTab) \in Seq(Message)
  BY <1>1 DEF IInv
<1>3. page \in Page /\ PageInv(page)
  BY DEF IInv, PageInv
<1>4. PageInv(page')
  <2>1. CASE page' = page
    BY <2>1, <1>3
  <2>2. CASE message.kind = "config" /\ page' = BridgeConfig(page, message.active)
    <3>1. message.active \in BOOLEAN
      BY <1>2, <2>2 DEF Message
    <3> QED
      BY <2>2, <3>1, <1>3, BridgeConfigKeeps
  <2>3. CASE message.kind = "offer" /\ page' = CreateOutput(page, message)
    BY <2>3, <1>2, <1>3, CreateOutputKeeps
  <2>4. CASE page' = [page EXCEPT !.early = @ \cup {message.of}]
    <3>1. message.of \in Nat
      BY <1>2 DEF Message
    <3> QED
      BY <2>4, <3>1, <1>3 DEF PageInv, Page, OwnTrack, Reason, Follows
  <2>5. message.kind \in {"config", "offer", "candidate"}
    BY <1>2 DEF Message
  <2> QED
    BY <1>1, <2>1, <2>2, <2>3, <2>4, <2>5 DEF Receive
<1> QED
  BY <1>1, <1>2, <1>4 DEF IInv, PageInv

(* The steps of the page's script, and the next document.                   *)
LEMMA PageStep ==
  ASSUME IInv,
         \/ JoinReloads \/ Reload \/ RunMain \/ RunContent \/ ExtensionReady \/ MainReady
         \/ RemoteSet \/ SendAnswer \/ GatherInPage \/ DataChannel
         \/ \E k \in Connection : ModuleLoaded(k)
         \/ Gum \/ GumConfigured \/ AddTrack \/ ReplaceTrack
         \/ \E w \in {"gum", "attach"} : WaitTimeout(w)
  PROVE  IInv'
<1>1. UNCHANGED <<pc, made, toTab>>
  BY DEF JoinReloads, Reload, Load, RunMain, RunContent, ExtensionReady, MainReady, RemoteSet,
         SendAnswer, GatherInPage, DataChannel, ModuleLoaded, Gum, GumConfigured, AddTrack,
         ReplaceTrack, WaitTimeout, InPage, document, paths
<1>2. page \in Page /\ PageInv(page)
  BY DEF IInv, PageInv
<1> SUFFICES PageInv(page')
  BY <1>1 DEF IInv, PageInv, OwnTrack, Reason, Follows
<1>3. CASE JoinReloads \/ Reload
  <2>1. page' = NewPage
    BY <1>3 DEF JoinReloads, Reload, Load
  <2> QED
    BY <2>1, NewPageInv
<1>4. CASE RunMain \/ RunContent \/ ExtensionReady \/ MainReady
  <2>1. CASE RunMain
    <3>1. page' = [page EXCEPT !.main = TRUE, !.posts = @ \cup {"MAIN_READY"}]
      BY <2>1 DEF RunMain
    <3> QED
      BY <3>1, <1>2, Untouched DEF Page
  <2>2. CASE RunContent
    <3>1. page' = [page EXCEPT !.content = TRUE, !.posts = @ \cup {"EXTENSION_READY"}]
      BY <2>2 DEF RunContent
    <3> QED
      BY <3>1, <1>2, Untouched DEF Page
  <2>3. CASE ExtensionReady
    <3> DEFINE posts == (page.posts \ {"EXTENSION_READY"}) \cup
                        (IF page.main THEN {"MAIN_READY"} ELSE {})
    <3>1. page' = [page EXCEPT !.posts = posts]
      BY <2>3 DEF ExtensionReady
    <3>2. posts \in SUBSET {"MAIN_READY", "EXTENSION_READY"}
      BY <1>2 DEF Page
    <3> HIDE DEF posts
    <3> QED
      BY <3>1, <3>2, <1>2, Untouched DEF Page
  <2>4. CASE MainReady
    <3>1. page' = [page EXCEPT !.posts = @ \ {"MAIN_READY"}, !.sent = @ \/ page.content]
      BY <2>4 DEF MainReady
    <3> DEFINE told == page.sent \/ page.content
    <3>2. told \in BOOLEAN
      OBVIOUS
    <3>3. page' = [page EXCEPT !.posts = @ \ {"MAIN_READY"}, !.sent = told]
      BY <3>1, <1>2 DEF Page
    <3> HIDE DEF told
    <3> QED
      BY <3>2, <3>3, <1>2, Untouched DEF Page
  <2> QED
    BY <1>4, <2>1, <2>2, <2>3, <2>4
<1>5. CASE RemoteSet
  <2> DEFINE p == [page EXCEPT !.early = {}]
             t == Track(page.outputPC, "remote")
             q == Select(p, t)
  <2>1. p \in Page /\ PageInv(p) /\ p.outputPC = page.outputPC
    BY <1>2 DEF PageInv, Page, OwnTrack, Reason, Follows
  <2>2. t \in ATrack /\ t.of = page.outputPC
    BY <1>2 DEF ATrack, Track, Page
  <2>3. PageInv(q)
    BY <2>1, <2>2, SelectKeeps
  <2>4. page' = [q EXCEPT !.peer = "answering"] \/ page' = [q EXCEPT !.peer = "failed"]
    BY <1>5 DEF RemoteSet
  <2> HIDE DEF q
  <2> QED
    BY <2>3, <2>4 DEF PageInv, Page, OwnTrack, Reason, Follows
<1>6. CASE SendAnswer \/ GatherInPage
  <2>1. page' = [page EXCEPT !.peer = "up"] \/ page' = [page EXCEPT !.gathered = TRUE]
    BY <1>6 DEF SendAnswer, GatherInPage
  <2>2. CASE page' = [page EXCEPT !.peer = "up"]
    <3>1. page' \in Page
      BY <2>2, <1>2 DEF Page
    <3> QED
      BY <2>2, <3>1, <1>2, Untouched DEF Page
  <2>3. CASE page' = [page EXCEPT !.gathered = TRUE]
    BY <2>3, <1>2, Untouched DEF Page
  <2> QED
    BY <2>1, <2>2, <2>3
<1>7. CASE DataChannel
  <2>1. page' = [page EXCEPT !.pcm = "loading", !.modules = @ \cup {page.outputPC}]
    BY <1>7 DEF DataChannel
  <2>2. page' \in Page
    BY <2>1, <1>2 DEF Page
  <2> QED
    BY <2>1, <2>2, <1>2, Untouched DEF Page
<1>8. ASSUME NEW k \in Connection, ModuleLoaded(k) PROVE PageInv(page')
  <2> DEFINE done == [page EXCEPT !.modules = @ \ {k}]
             p == [done EXCEPT !.pcm = "ready"]
             t == Track(k, "pcm")
  <2>1. /\ done \in Page /\ PageInv(done)
        /\ p \in Page /\ PageInv(p) /\ p.outputPC = page.outputPC
    <3>1. done \in Page /\ p \in Page
      BY <1>2 DEF Page
    <3>2. /\ done.outputPC = page.outputPC /\ done.track = page.track /\ done.waiters = page.waiters
          /\ done.active = page.active /\ done.bound = page.bound /\ done.sender = page.sender
          /\ done.replaces = page.replaces
      BY <1>2 DEF Page
    <3>3. /\ p.outputPC = page.outputPC /\ p.track = page.track /\ p.waiters = page.waiters
          /\ p.active = page.active /\ p.bound = page.bound /\ p.sender = page.sender
          /\ p.replaces = page.replaces
      BY <1>2 DEF Page
    <3> HIDE DEF p, done
    <3> QED
      BY <3>1, <3>2, <3>3, <1>2, Untouched
  <2>2. t \in ATrack /\ t.of = k
    BY ConnectionNat DEF ATrack, Track
  <2>3. \/ page.outputPC = k /\ page' = Select(p, t)
        \/ page' = done
    BY <1>8 DEF ModuleLoaded
  <2> HIDE DEF p, t, done
  <2> QED
    BY <2>1, <2>2, <2>3, SelectKeeps
<1>9. CASE Gum \/ GumConfigured
  <2>1. page' = Ask(page) \/ page' = [page EXCEPT !.gum = "config"]
    BY <1>9 DEF Gum, GumConfigured
  <2> QED
    BY <2>1, <1>2, AskKeeps, Untouched DEF Page
<1>10. CASE AddTrack
  <2> DEFINE sent == [page EXCEPT !.gum = "sent"]
  <2>1. sent \in Page /\ PageInv(sent)
    BY <1>2 DEF PageInv, Page, OwnTrack, Reason, Follows
  <2>2. CASE ~page.active
    BY <1>10, <2>1, <2>2 DEF AddTrack
  <2>3. CASE page.active /\ page.track = NoTrack
    <3>1. page' = [sent EXCEPT !.bound = TRUE, !.waiters = @ \cup {"attach"}]
      BY <1>10, <2>3 DEF AddTrack
    <3> QED
      BY <2>1, <2>3, <3>1 DEF PageInv, Page, OwnTrack, Reason, Follows
  <2>4. CASE page.active /\ page.track # NoTrack
    <3>1. page' = [sent EXCEPT !.bound = TRUE, !.replaces = Append(@, page.track)]
      BY <1>10, <2>4 DEF AddTrack
    <3>2. page.track \in ATrack /\ page.replaces \in Seq(ATrack)
      BY <1>2 DEF Page
    <3> DEFINE more == Append(page.replaces, page.track)
    <3>3. more \in Seq(ATrack) /\ more # <<>> /\ more[Len(more)] = page.track
      BY <3>2, LastAppended
    <3>4. page' = [page EXCEPT !.gum = "sent", !.bound = TRUE, !.replaces = more]
      BY <3>1, <1>2 DEF Page
    <3> HIDE DEF more
    <3>5. page' \in Page
      BY <3>4, <3>3, <1>2 DEF Page
    <3>6. /\ page'.replaces = more /\ page'.track = page.track /\ page'.outputPC = page.outputPC
          /\ page'.waiters = page.waiters /\ page'.active = page.active
      BY <3>4, <1>2 DEF Page
    <3> QED
      BY <3>3, <3>5, <3>6, <2>4, <1>2 DEF PageInv, OwnTrack, Reason, Follows
  <2> QED
    BY <2>2, <2>3, <2>4
<1>11. CASE ReplaceTrack
  <2>1. page' = [page EXCEPT !.sender = Head(page.replaces), !.replaces = Tail(@)] /\ page.replaces # <<>>
    BY <1>11 DEF ReplaceTrack
  <2> DEFINE t == Head(page.replaces)
             rest == Tail(page.replaces)
  <2>2. page.replaces \in Seq(ATrack)
    BY <1>2 DEF Page
  <2>3. /\ t \in ATrack /\ rest \in Seq(ATrack)
        /\ rest = <<>> => t = page.replaces[Len(page.replaces)]
        /\ rest # <<>> => rest[Len(rest)] = page.replaces[Len(page.replaces)]
    BY <2>1, <2>2, FirstTaken
  <2>4. page' = [page EXCEPT !.sender = t, !.replaces = rest]
    BY <2>1
  <2> HIDE DEF t, rest
  <2>5. page' \in Page
    BY <2>3, <2>4, <1>2 DEF Page
  <2>6. /\ page'.sender = t /\ page'.replaces = rest /\ page'.track = page.track
        /\ page'.outputPC = page.outputPC /\ page'.waiters = page.waiters
        /\ page'.active = page.active /\ page'.bound = page.bound
    BY <2>4, <1>2 DEF Page
  <2> QED
    BY <2>1, <2>3, <2>5, <2>6, <1>2 DEF PageInv, OwnTrack, Reason, Follows
<1>12. ASSUME NEW w \in {"gum", "attach"}, WaitTimeout(w) PROVE PageInv(page')
  <2> DEFINE gum == IF w = "gum" THEN "failed" ELSE page.gum
             bound == page.bound /\ w # "attach"
  <2>1. page' = [page EXCEPT !.waiters = @ \ {w}, !.gum = gum, !.bound = bound]
    BY <1>12 DEF WaitTimeout
  <2>2. gum \in {"none", "config", "native", "waiting", "bridge", "sent", "failed"}
    BY <1>2 DEF Page
  <2>3. bound \in BOOLEAN /\ (bound => page.bound)
    BY <1>2 DEF Page
  <2> HIDE DEF gum, bound
  <2>4. page' \in Page
    BY <2>1, <2>2, <2>3, <1>2 DEF Page
  <2>5. /\ page'.outputPC = page.outputPC /\ page'.track = page.track /\ page'.waiters \subseteq page.waiters
        /\ page'.active = page.active /\ page'.bound = bound /\ page'.sender = page.sender
        /\ page'.replaces = page.replaces
    BY <2>1, <1>2 DEF Page
  <2> QED
    BY <2>3, <2>4, <2>5, <1>2 DEF PageInv, OwnTrack, Reason, Follows
<1> QED
  BY <1>3, <1>4, <1>5, <1>6, <1>7, <1>8, <1>9, <1>10, <1>11, <1>12

-----------------------------------------------------------------------------
(* Whatever the document sends, the page's track is of the connection in    *)
(* use, its waiters have a reason and its sender follows (main-world.js's   *)
(* output, waiters and sender bindings).                                    *)
THEOREM Inductive == Spec => []IInv
<1>1. ASSUME IInv, [Next]_vars PROVE IInv'
  <2>1. CASE UNCHANGED vars
    BY <1>1, <2>1 DEF IInv, PageInv, OwnTrack, Reason, Follows, vars
  <2>2. CASE Next
    BY <1>1, <2>2, DocumentStep, ReceiveStep, PageStep DEF Next
  <2> QED
    BY <1>1, <2>1, <2>2
<1> QED
  BY <1>1, InitInv, PTL DEF Spec

(* The types that the argument needs: the page's, and those of what is sent *)
(* to it (PagePeer's Init, Receive and the operators of the page).          *)
THEOREM TypeCorrect == Spec => []TypeOK
<1>1. IInv => TypeOK
  BY DEF IInv, PageInv, TypeOK
<1> QED
  BY <1>1, Inductive, PTL

(* No track of a closed connection is ever the page's track.                *)
THEOREM TrackOfPeerHolds == Spec => []TrackOfPeer
<1>1. IInv => TrackOfPeer
  BY DEF IInv, PageInv, OwnTrack, TrackOfPeer
<1> QED
  BY <1>1, Inductive, PTL

(* Nobody waits while there is a track, or while the bridge is off.         *)
THEOREM WaitersHaveReasonHolds == Spec => []WaitersHaveReason
<1>1. IInv => WaitersHaveReason
  BY DEF IInv, PageInv, Reason, WaitersHaveReason
<1> QED
  BY <1>1, Inductive, PTL

(* The site's sender carries the page's track or is about to.               *)
THEOREM SenderFollowsHolds == Spec => []SenderFollows
<1>1. IInv => SenderFollows
  BY DEF IInv, PageInv, Follows, SenderFollows
<1> QED
  BY <1>1, Inductive, PTL
-----------------------------------------------------------------------------
(* Both ends.  Whether a page that is not told of its bridge can hold a live*)
(* connection depends on what the document has, what is on the way, and what*)
(* the page has announced.                                                  *)
RtcState == {"none", "new", "offered", "applying", "answered", "deaf", "misled",
             "closed"}
RunState == {"none", "config", "status"}

EndsType ==
  /\ rtc \in [Connection -> RtcState] /\ run \in [Connection -> RunState]
  /\ ready \in Nat /\ removed \in SUBSET Nat
  /\ route \in BOOLEAN /\ joining \in BOOLEAN
  /\ left \in [joins : Nat, restarts : Nat]

(* Every connection answers one PAGE_READY, and those are few: one for a    *)
(* load of the page or another frame of it.                                 *)
One(b) == IF b THEN 1 ELSE 0
Budget ==
  made + ready + One(~page.sent) + One(joining) + left.joins + left.restarts
    <= MaxJoins + MaxRestarts

(* A page that has announced itself hears what is posted to it.             *)
Scripts ==
  /\ page.sent => page.main /\ page.content
  /\ "MAIN_READY" \in page.posts => page.main

(* Nobody speaks of a connection that was not made.                         *)
Numbered ==
  /\ pc <= made /\ page.outputPC <= made
  /\ pc # 0 => route
  /\ \A i \in 1 .. Len(toTab) : toTab[i].of <= made
  /\ \A k \in Connection : run[k] # "none" \/ rtc[k] # "none" => k <= made
  /\ \A k \in removed : k <= made

(* All connections but the current one are closed, or about to be.          *)
OthersClosed == \A j \in 1 .. made : j = pc \/ j \in removed \/ rtc[j] = "closed"

(* The configuration of the current connection goes before its offer, and   *)
(* after every message that says that there is none.                        *)
IsConfig(m, k) == m.kind = "config" /\ m.of = k
ToldIn(q, k) == \A i \in 1 .. Len(q) : ~IsConfig(q[i], k)
Ahead(q, k, place, output) ==
  /\ \A i \in 1 .. Len(q) : IsConfig(q[i], k) => q[i].active
  /\ \A i \in 1 .. Len(q) : q[i].kind = "config" /\ ~q[i].active =>
       \E j \in 1 .. Len(q) : i < j /\ IsConfig(q[j], k)
  /\ ~ToldIn(q, k) =>
       /\ place = "config" /\ output # k
       /\ \A i \in 1 .. Len(q) : ~(q[i].kind = "offer" /\ q[i].of = k)

TellsFirst == pc # 0 => Ahead(toTab, pc, run[pc], page.outputPC)

(* A page that was told after it had announced itself knows.                *)
Knows == pc # 0 /\ ToldIn(toTab, pc) /\ ~page.active => ~page.sent \/ ready > 0

EndsInv == EndsType /\ Budget /\ Scripts /\ Numbered /\ OthersClosed /\ TellsFirst /\ Knows

(* What the messages on the way say when one is added or taken.             *)
LEMMA AheadAppend ==
  ASSUME NEW q \in Seq(Message), NEW m \in Message, NEW k, NEW place, NEW output,
         Ahead(q, k, place, output), m.kind # "config",
         m.kind = "offer" /\ m.of = k => ToldIn(q, k)
  PROVE  /\ Ahead(Append(q, m), k, place, output)
         /\ ToldIn(Append(q, m), k) <=> ToldIn(q, k)
<1> DEFINE r == Append(q, m)
<1>1. /\ Len(q) \in Nat /\ Len(r) = Len(q) + 1
      /\ \A i \in 1 .. Len(q) : r[i] = q[i]
      /\ r[Len(q) + 1] = m
  OBVIOUS
<1> HIDE DEF r
<1>2. \A i \in 1 .. Len(r) : i \in 1 .. Len(q) \/ (i = Len(q) + 1 /\ r[i] = m)
  BY <1>1
<1>3. \A i \in 1 .. Len(q) : i \in 1 .. Len(r)
  BY <1>1
<1>4. ToldIn(r, k) <=> ToldIn(q, k)
  BY <1>1, <1>2, <1>3 DEF ToldIn, IsConfig
<1>5. Ahead(r, k, place, output)
  <2>1. \A i \in 1 .. Len(r) : IsConfig(r[i], k) => r[i].active
    BY <1>1, <1>2 DEF Ahead, IsConfig
  <2>2. ASSUME NEW i \in 1 .. Len(r), r[i].kind = "config", ~r[i].active
        PROVE  \E j \in 1 .. Len(r) : i < j /\ IsConfig(r[j], k)
    <3>1. i \in 1 .. Len(q) /\ r[i] = q[i]
      BY <1>1, <1>2, <2>2
    <3>2. PICK j \in 1 .. Len(q) : i < j /\ IsConfig(q[j], k)
      BY <2>2, <3>1 DEF Ahead
    <3> QED
      BY <1>1, <1>3, <3>2
  <2>3. ~ToldIn(r, k) => \A i \in 1 .. Len(r) : ~(r[i].kind = "offer" /\ r[i].of = k)
    BY <1>1, <1>2, <1>4 DEF Ahead
  <2> QED
    BY <1>4, <2>1, <2>2, <2>3 DEF Ahead
<1> QED
  BY <1>4, <1>5 DEF r

LEMMA AheadStart ==
  ASSUME NEW q \in Seq(Message), NEW k \in Nat, NEW output,
         \A i \in 1 .. Len(q) : q[i].of # k, output # k
  PROVE  /\ Ahead(Append(q, Config(TRUE, k)), k, "config", output)
         /\ ~ToldIn(Append(q, Config(TRUE, k)), k)
<1> DEFINE m == Config(TRUE, k)
           r == Append(q, m)
<1>0. m \in Message /\ m.kind = "config" /\ m.of = k /\ m.active = TRUE
  BY DEF Config, Message
<1> HIDE DEF m
<1>1. /\ Len(q) \in Nat /\ Len(r) = Len(q) + 1
      /\ \A i \in 1 .. Len(q) : r[i] = q[i]
      /\ r[Len(q) + 1] = m
  BY <1>0
<1> HIDE DEF r
<1>2. \A i \in 1 .. Len(r) : i \in 1 .. Len(q) \/ (i = Len(q) + 1 /\ r[i] = m)
  BY <1>1
<1>3. Len(r) \in 1 .. Len(r) /\ IsConfig(r[Len(r)], k)
  BY <1>0, <1>1 DEF IsConfig
<1>4. \A i \in 1 .. Len(r) : IsConfig(r[i], k) => r[i].active
  BY <1>0, <1>1, <1>2 DEF IsConfig
<1>5. ASSUME NEW i \in 1 .. Len(r), r[i].kind = "config", ~r[i].active
      PROVE  \E j \in 1 .. Len(r) : i < j /\ IsConfig(r[j], k)
  <2>1. i < Len(r)
    BY <1>0, <1>1, <1>2, <1>5
  <2> QED
    BY <1>3, <2>1
<1>6. \A i \in 1 .. Len(r) : ~(r[i].kind = "offer" /\ r[i].of = k)
  BY <1>0, <1>1, <1>2
<1>7. Ahead(r, k, "config", output) /\ ~ToldIn(r, k)
  BY <1>3, <1>4, <1>5, <1>6 DEF Ahead, ToldIn
<1> QED
  BY <1>7 DEF r, m

LEMMA AheadTail ==
  ASSUME NEW q \in Seq(Message), q # <<>>, NEW k, NEW place, NEW output,
         Ahead(q, k, place, output)
  PROVE  /\ \A other : (~ToldIn(Tail(q), k) => other # k) => Ahead(Tail(q), k, place, other)
         /\ ToldIn(q, k) => ToldIn(Tail(q), k)
         /\ Head(q).kind = "config" /\ ~Head(q).active => ~ToldIn(Tail(q), k)
         /\ ~ToldIn(q, k) => output # k /\ ~(Head(q).kind = "offer" /\ Head(q).of = k)
         /\ ToldIn(Tail(q), k) /\ ~ToldIn(q, k) => Head(q).kind = "config" /\ Head(q).active
<1> DEFINE r == Tail(q)
           m == Head(q)
<1>1. /\ Len(q) \in Nat \ {0} /\ Len(r) = Len(q) - 1 /\ m = q[1]
      /\ \A i \in 1 .. Len(r) : r[i] = q[i + 1]
  OBVIOUS
<1> HIDE DEF r, m
<1>2. \A i \in 1 .. Len(q) : i = 1 \/ (i - 1 \in 1 .. Len(r) /\ r[i - 1] = q[i])
  BY <1>1
<1>3. 1 \in 1 .. Len(q) /\ \A i \in 1 .. Len(r) : i + 1 \in 1 .. Len(q)
  BY <1>1
<1>4. ToldIn(q, k) => ToldIn(r, k)
  BY <1>1, <1>3 DEF ToldIn
<1>5. ASSUME m.kind = "config", ~m.active PROVE ~ToldIn(r, k)
  <2>1. PICK j \in 1 .. Len(q) : 1 < j /\ IsConfig(q[j], k)
    BY <1>1, <1>3, <1>5 DEF Ahead
  <2>2. j - 1 \in 1 .. Len(r) /\ r[j - 1] = q[j]
    BY <1>2, <2>1
  <2> QED
    BY <2>1, <2>2 DEF ToldIn
<1>6. ~ToldIn(q, k) => output # k /\ ~(m.kind = "offer" /\ m.of = k)
  BY <1>1, <1>3 DEF Ahead
<1>7. ASSUME ToldIn(r, k), ~ToldIn(q, k) PROVE m.kind = "config" /\ m.active
  <2>1. PICK i \in 1 .. Len(q) : IsConfig(q[i], k)
    BY <1>7 DEF ToldIn
  <2>2. i = 1
    BY <1>2, <1>7, <2>1 DEF ToldIn
  <2>3. IsConfig(m, k) /\ m.active
    BY <1>1, <2>1, <2>2 DEF Ahead
  <2> QED
    BY <2>3 DEF IsConfig
<1>8. ASSUME NEW other, ~ToldIn(r, k) => other # k PROVE Ahead(r, k, place, other)
  <2>1. \A i \in 1 .. Len(r) : IsConfig(r[i], k) => r[i].active
    BY <1>1, <1>3 DEF Ahead
  <2>2. ASSUME NEW i \in 1 .. Len(r), r[i].kind = "config", ~r[i].active
        PROVE  \E j \in 1 .. Len(r) : i < j /\ IsConfig(r[j], k)
    <3>1. i + 1 \in 1 .. Len(q) /\ r[i] = q[i + 1]
      BY <1>1, <1>3
    <3>2. PICK j \in 1 .. Len(q) : i + 1 < j /\ IsConfig(q[j], k)
      BY <2>2, <3>1 DEF Ahead
    <3>3. j - 1 \in 1 .. Len(r) /\ r[j - 1] = q[j] /\ i < j - 1
      BY <1>2, <3>2
    <3> QED
      BY <3>2, <3>3
  <2>3. ~ToldIn(r, k) =>
          place = "config" /\ \A i \in 1 .. Len(r) : ~(r[i].kind = "offer" /\ r[i].of = k)
    BY <1>1, <1>3, <1>4 DEF Ahead
  <2> QED
    BY <1>8, <2>1, <2>2, <2>3 DEF Ahead
<1> QED
  BY <1>4, <1>5, <1>6, <1>7, <1>8 DEF r, m

LEMMA AppendMembers ==
  ASSUME NEW q \in Seq(Message), NEW m \in Message, NEW r, r = Append(q, m)
  PROVE  \A i \in 1 .. Len(r) : (i \in 1 .. Len(q) /\ r[i] = q[i]) \/ r[i] = m
<1>1. /\ Len(q) \in Nat /\ Len(r) = Len(q) + 1
      /\ \A i \in 1 .. Len(q) : r[i] = q[i]
      /\ r[Len(q) + 1] = m
  OBVIOUS
<1> QED
  BY <1>1

LEMMA ToldIs == \A k : Told(k) <=> ToldIn(toTab, k)
  BY DEF Told, ToldIn, IsConfig

-----------------------------------------------------------------------------
(* The steps, at both ends.                                                 *)
LEMMA Fits ==
  ASSUME IInv, EndsInv
  PROVE  /\ made \in Nat /\ pc \in Nat /\ page.outputPC \in Nat /\ page \in Page
         /\ 1 .. made \subseteq Connection
         /\ ready > 0 => made + 1 \in Connection
<1>1. /\ made \in Nat /\ ready \in Nat /\ left.joins \in Nat /\ left.restarts \in Nat
      /\ One(~page.sent) \in Nat /\ One(joining) \in Nat
  BY DEF IInv, EndsInv, EndsType, One
<1>2. made + ready <= MaxJoins + MaxRestarts
  BY <1>1, PagePeerAssumption DEF EndsInv, Budget
<1>3. page.outputPC \in Nat /\ page \in Page /\ pc \in Nat
  BY DEF IInv, PageInv, Page
<1> QED
  BY <1>1, <1>2, <1>3, PagePeerAssumption DEF Connection

(* What the page does by itself leaves what the ends know of each other.    *)
LEMMA EndsQuiet ==
  ASSUME EndsInv, UNCHANGED <<document, toTab, ready, left>>,
         page'.sent = page.sent, page'.active = page.active, page'.outputPC = page.outputPC,
         page.main => page'.main, page.content => page'.content,
         "MAIN_READY" \in page'.posts => page'.main
  PROVE  EndsInv'
<1> USE DEF document
<1>1. EndsType' /\ Budget' /\ Scripts'
  BY DEF EndsInv, EndsType, Budget, One, Scripts
<1>2. Numbered' /\ OthersClosed'
  BY DEF EndsInv, Numbered, OthersClosed
<1>3. TellsFirst' /\ Knows'
  BY DEF EndsInv, TellsFirst, Knows
<1> QED
  BY <1>1, <1>2, <1>3 DEF EndsInv

(* What the other end may know of a page, which the site, the worklets and  *)
(* the answer of the page do not touch.                                     *)
Kept(p, q) ==
  /\ q.sent = p.sent /\ q.active = p.active /\ q.outputPC = p.outputPC
  /\ q.main = p.main /\ q.content = p.content /\ q.posts = p.posts

LEMMA KeptTransitive ==
  ASSUME NEW p, NEW q, NEW r, Kept(p, q), Kept(q, r)
  PROVE  Kept(p, r)
BY DEF Kept

Fields(p) ==
  /\ "sent" \in DOMAIN p /\ "active" \in DOMAIN p /\ "outputPC" \in DOMAIN p
  /\ "main" \in DOMAIN p /\ "content" \in DOMAIN p /\ "posts" \in DOMAIN p

LEMMA PageFields == \A p \in Page : Fields(p)
  BY DEF Page, Fields

LEMMA KeptBySelect ==
  ASSUME NEW p \in Page, NEW t
  PROVE  Kept(p, Select(p, t))
<1>1. Fields(p)
  BY PageFields
<1> DEFINE waits == "gum" \in p.waiters
           gum == IF waits THEN "bridge" ELSE p.gum
           sender == IF waits THEN t ELSE p.sender
           more == IF p.bound /\ p.active THEN Append(p.replaces, t) ELSE p.replaces
<1>2. Select(p, t) =
        [p EXCEPT !.track = t, !.waiters = {}, !.gum = gum, !.sender = sender, !.replaces = more]
  BY DEF Select
<1> HIDE DEF waits, gum, sender, more
<1> QED
  BY <1>1, <1>2 DEF Kept, Fields

LEMMA EndsPage ==
  ASSUME IInv, IInv', EndsInv,
         \/ RunMain \/ RunContent \/ ExtensionReady
         \/ RemoteSet \/ SendAnswer \/ GatherInPage \/ DataChannel
         \/ \E k \in Connection : ModuleLoaded(k)
         \/ Gum \/ GumConfigured \/ AddTrack \/ ReplaceTrack
         \/ \E w \in {"gum", "attach"} : WaitTimeout(w)
  PROVE  EndsInv'
<1>1. UNCHANGED <<document, toTab, ready, left>>
  BY DEF RunMain, RunContent, ExtensionReady, RemoteSet, SendAnswer, GatherInPage, DataChannel,
         ModuleLoaded, Gum, GumConfigured, AddTrack, ReplaceTrack, WaitTimeout, InPage, paths
<1>2. page \in Page /\ ("MAIN_READY" \in page.posts => page.main)
  BY DEF IInv, PageInv, EndsInv, Scripts
<1>0. Fields(page)
  BY <1>2, PageFields
<1>3. ASSUME Kept(page, page') PROVE EndsInv'
  BY <1>1, <1>2, <1>3, EndsQuiet DEF Kept
<1>4. CASE RunMain \/ RunContent \/ ExtensionReady
  <2>1. CASE RunMain
    <3>1. page' = [page EXCEPT !.main = TRUE, !.posts = @ \cup {"MAIN_READY"}]
      BY <2>1 DEF RunMain
    <3>2. /\ page'.sent = page.sent /\ page'.active = page.active /\ page'.outputPC = page.outputPC
          /\ page'.main = TRUE /\ page'.content = page.content
      BY <1>2, <3>1 DEF Page
    <3> QED
      BY <1>1, <3>2, EndsQuiet
  <2>2. CASE RunContent
    <3>1. page' = [page EXCEPT !.content = TRUE, !.posts = @ \cup {"EXTENSION_READY"}]
      BY <2>2 DEF RunContent
    <3>2. /\ page'.sent = page.sent /\ page'.active = page.active /\ page'.outputPC = page.outputPC
          /\ page'.main = page.main /\ page'.content = TRUE
          /\ page'.posts = page.posts \cup {"EXTENSION_READY"}
      BY <1>2, <3>1 DEF Page
    <3> QED
      BY <1>1, <1>2, <3>2, EndsQuiet
  <2>3. CASE ExtensionReady
    <3> DEFINE posts == (page.posts \ {"EXTENSION_READY"}) \cup
                        (IF page.main THEN {"MAIN_READY"} ELSE {})
    <3>1. page' = [page EXCEPT !.posts = posts]
      BY <2>3 DEF ExtensionReady
    <3>2. "MAIN_READY" \in posts => page.main
      BY <1>2
    <3> HIDE DEF posts
    <3>3. /\ page'.sent = page.sent /\ page'.active = page.active /\ page'.outputPC = page.outputPC
          /\ page'.main = page.main /\ page'.content = page.content
          /\ page'.posts = posts
      BY <1>2, <3>1 DEF Page
    <3> QED
      BY <1>1, <3>2, <3>3, EndsQuiet
  <2> QED
    BY <1>4, <2>1, <2>2, <2>3
<1>5. ASSUME RemoteSet PROVE Kept(page, page')
  <2> DEFINE p == [page EXCEPT !.early = {}]
             q == Select(p, Track(page.outputPC, "remote"))
  <2>1. p \in Page
    BY <1>2 DEF Page
  <2>2. q \in Page
    <3>1. PageInv(p) /\ p.outputPC = page.outputPC
      BY <2>1 DEF IInv, PageInv, Page, OwnTrack, Reason, Follows
    <3>2. Track(page.outputPC, "remote") \in ATrack /\ Track(page.outputPC, "remote").of = page.outputPC
      BY <1>2 DEF ATrack, Track, Page
    <3> HIDE DEF p
    <3>3. PageInv(Select(p, Track(page.outputPC, "remote")))
      BY <2>1, <3>1, <3>2, SelectKeeps
    <3> QED
      BY <3>3 DEF PageInv
  <2>3. page' = [q EXCEPT !.peer = "answering"] \/ page' = [q EXCEPT !.peer = "failed"]
    BY <1>5 DEF RemoteSet
  <2>4. Kept(page, p)
    BY <1>0 DEF Kept, Fields
  <2>5. Kept(p, q)
    BY <2>1, KeptBySelect, Zenon
  <2> HIDE DEF p, q
  <2>6. Kept(q, page')
    BY <2>2, <2>3, PageFields DEF Kept, Fields
  <2> QED
    BY <2>4, <2>5, <2>6, KeptTransitive
<1>6. ASSUME SendAnswer \/ GatherInPage PROVE Kept(page, page')
  <2>1. page' = [page EXCEPT !.peer = "up"] \/ page' = [page EXCEPT !.gathered = TRUE]
    BY <1>6 DEF SendAnswer, GatherInPage
  <2> QED
    BY <1>0, <2>1 DEF Kept, Fields
<1>7. ASSUME DataChannel PROVE Kept(page, page')
  <2>1. page' = [page EXCEPT !.pcm = "loading", !.modules = page.modules \cup {page.outputPC}]
    BY <1>7 DEF DataChannel
  <2> QED
    BY <1>0, <2>1 DEF Kept, Fields
<1>8. ASSUME NEW k \in Connection, ModuleLoaded(k) PROVE Kept(page, page')
  <2> DEFINE done == [page EXCEPT !.modules = page.modules \ {k}]
             p == [done EXCEPT !.pcm = "ready"]
  <2>1. done \in Page /\ p \in Page
    BY <1>2 DEF Page
  <2>2. Kept(page, done) /\ Kept(done, p)
    BY <1>0, <2>1 DEF Kept, Fields
  <2>3. page' = Select(p, Track(k, "pcm")) \/ page' = done
    BY <1>8 DEF ModuleLoaded
  <2>4. Kept(p, Select(p, Track(k, "pcm")))
    BY <2>1, KeptBySelect, Zenon
  <2> HIDE DEF done, p
  <2> QED
    BY <2>2, <2>3, <2>4, KeptTransitive
<1>9. ASSUME Gum \/ GumConfigured PROVE Kept(page, page')
  <2>1. \/ page' = [page EXCEPT !.gum = "native"]
        \/ page' = [page EXCEPT !.gum = "bridge", !.sender = page.track]
        \/ page' = [page EXCEPT !.gum = "waiting", !.waiters = page.waiters \cup {"gum"}]
        \/ page' = [page EXCEPT !.gum = "config"]
    BY <1>9 DEF Gum, GumConfigured, Ask
  <2> QED
    BY <1>0, <2>1 DEF Kept, Fields
<1>10. ASSUME AddTrack PROVE Kept(page, page')
  <2> DEFINE sent == [page EXCEPT !.gum = "sent"]
  <2>1. sent \in Page /\ Kept(page, sent)
    <3>1. sent \in Page
      BY <1>2 DEF Page
    <3> QED
      BY <1>0, <3>1 DEF Kept, Fields
  <2>2. \/ page' = sent
        \/ page' = [sent EXCEPT !.bound = TRUE, !.waiters = sent.waiters \cup {"attach"}]
        \/ page' = [sent EXCEPT !.bound = TRUE, !.replaces = Append(sent.replaces, page.track)]
    BY <1>10 DEF AddTrack
  <2> HIDE DEF sent
  <2>3. page' = sent \/ Kept(sent, page')
    BY <2>1, <2>2, PageFields DEF Kept, Fields
  <2> QED
    BY <2>1, <2>3, KeptTransitive
<1>11. ASSUME ReplaceTrack PROVE Kept(page, page')
  <2>1. page' = [page EXCEPT !.sender = Head(page.replaces), !.replaces = Tail(page.replaces)]
    BY <1>11 DEF ReplaceTrack
  <2> QED
    BY <1>0, <2>1 DEF Kept, Fields
<1>12. ASSUME NEW w \in {"gum", "attach"}, WaitTimeout(w) PROVE Kept(page, page')
  <2> DEFINE gum == IF w = "gum" THEN "failed" ELSE page.gum
             bound == page.bound /\ w # "attach"
             waiters == page.waiters \ {w}
  <2>1. page' = [page EXCEPT !.waiters = waiters, !.gum = gum, !.bound = bound]
    BY <1>12 DEF WaitTimeout
  <2> HIDE DEF gum, bound, waiters
  <2> QED
    BY <1>0, <2>1 DEF Kept, Fields
<1> QED
  BY <1>3, <1>4, <1>5, <1>6, <1>7, <1>8, <1>9, <1>10, <1>11, <1>12

(* The next document knows nothing, has announced nothing and holds nothing.*)
LEMMA EndsLoad ==
  ASSUME IInv, EndsInv, JoinReloads \/ Reload
  PROVE  EndsInv'
<1>1. /\ page' = NewPage /\ UNCHANGED <<pc, made, rtc, run, removed, toTab, ready, route>>
      /\ \/ joining /\ ~joining' /\ left' = left
         \/ joining' = joining /\ left.restarts > 0 /\ left' = [left EXCEPT !.restarts = @ - 1]
  BY DEF JoinReloads, Reload, Load, paths
<1>2. /\ page'.sent = FALSE /\ page'.active = FALSE /\ page'.outputPC = 0 /\ page'.posts = {}
  BY <1>1 DEF NewPage
<1>3. EndsType'
  <2>1. CASE joining' = joining /\ left.restarts > 0 /\ left' = [left EXCEPT !.restarts = @ - 1]
    BY <1>1, <2>1 DEF EndsInv, EndsType
  <2>2. CASE JoinReloads
    BY <1>1, <2>2 DEF EndsInv, EndsType, JoinReloads
  <2> QED
    BY <2>1, <2>2 DEF JoinReloads, Reload
<1>4. Budget'
  <2>1. /\ made \in Nat /\ ready \in Nat /\ left.joins \in Nat /\ left.restarts \in Nat
        /\ left'.joins \in Nat /\ left'.restarts \in Nat
    BY <1>3 DEF IInv, EndsInv, EndsType
  <2>2. left'.joins = left.joins /\ (One(joining') + left'.restarts + 1 = One(joining) + left.restarts)
    BY <1>1, <2>1 DEF One, EndsInv, EndsType
  <2> QED
    BY <1>1, <1>2, <2>1, <2>2, PagePeerAssumption DEF EndsInv, Budget, One
<1>5. Scripts' /\ Knows'
  BY <1>2 DEF Scripts, Knows
<1>6. Numbered' /\ OthersClosed'
  BY <1>1, <1>2, Fits DEF EndsInv, Numbered, OthersClosed
<1>7. TellsFirst'
  <2>1. ASSUME pc # 0, Ahead(toTab, pc, run[pc], page.outputPC)
        PROVE  Ahead(toTab, pc, run[pc], 0)
    BY <2>1 DEF Ahead
  <2> QED
    BY <1>1, <1>2, <2>1 DEF EndsInv, TellsFirst
<1> QED
  BY <1>3, <1>4, <1>5, <1>6, <1>7 DEF EndsInv

(* The page announces itself; another frame of its tab does.                *)
LEMMA EndsReady ==
  ASSUME IInv, EndsInv, MainReady \/ FrameReady
  PROVE  EndsInv'
<1>1. UNCHANGED <<document, toTab>>
  BY DEF MainReady, FrameReady
<1>2. /\ made \in Nat /\ ready \in Nat /\ left.joins \in Nat /\ left.restarts \in Nat /\ page \in Page
  BY Fits DEF EndsInv, EndsType
<1>3. /\ page'.active = page.active /\ page'.outputPC = page.outputPC
      /\ page'.main = page.main /\ page'.content = page.content
      /\ "MAIN_READY" \in page'.posts => "MAIN_READY" \in page.posts
      /\ ready' \in Nat /\ ready <= ready'
      /\ page'.sent => page.sent \/ (page.main /\ page.content /\ ready' > 0)
  <2>1. CASE MainReady
    <3>1. page' = [page EXCEPT !.posts = @ \ {"MAIN_READY"}, !.sent = @ \/ page.content]
      BY <2>1 DEF MainReady
    <3>2. /\ page'.active = page.active /\ page'.outputPC = page.outputPC
          /\ page'.main = page.main /\ page'.content = page.content
          /\ page'.sent = (page.sent \/ page.content)
          /\ page'.posts = page.posts \ {"MAIN_READY"}
      <4> DEFINE told == page.sent \/ page.content
                 rest == page.posts \ {"MAIN_READY"}
      <4>1. page' = [page EXCEPT !.posts = rest, !.sent = told]
        BY <3>1
      <4>2. Fields(page)
        BY <1>2, PageFields
      <4> HIDE DEF told, rest
      <4>3. /\ page'.active = page.active /\ page'.outputPC = page.outputPC
            /\ page'.main = page.main /\ page'.content = page.content
            /\ page'.sent = told /\ page'.posts = rest
        BY <4>1, <4>2 DEF Fields
      <4> QED
        BY <4>3 DEF told, rest
    <3>3. ready' = (IF page.content /\ ~page.sent THEN ready + 1 ELSE ready) /\ page.main
      BY <2>1 DEF MainReady, EndsInv, Scripts
    <3>4. ready' \in Nat /\ ready <= ready'
      BY <1>2, <3>3
    <3>5. ASSUME page'.sent PROVE page.sent \/ (page.main /\ page.content /\ ready' > 0)
      <4>1. page.sent \/ page.content
        BY <3>2, <3>5, Zenon
      <4>2. CASE page.content /\ ~page.sent
        <5>1. ready' = ready + 1
          BY <3>3, <4>2, Zenon
        <5> QED
          BY <1>2, <3>3, <4>2, <5>1
      <4> QED
        BY <4>1, <4>2
    <3>6. "MAIN_READY" \in page'.posts => "MAIN_READY" \in page.posts
      BY <3>2
    <3> QED
      BY <3>2, <3>4, <3>5, <3>6
  <2>2. CASE FrameReady
    <3>1. page' = page /\ ready' = ready + 1
      BY <2>2 DEF FrameReady
    <3> QED
      BY <1>2, <3>1
  <2> QED
    BY <2>1, <2>2
<1>4. EndsType'
  <2>1. left' \in [joins : Nat, restarts : Nat]
    BY <1>2 DEF MainReady, FrameReady, EndsInv, EndsType
  <2> QED
    BY <1>1, <1>3, <2>1 DEF EndsInv, EndsType, document
<1>5. Budget'
  <2> DEFINE more == One(~page'.sent)
             had == One(~page.sent)
  <2>1. more \in Nat /\ had \in Nat /\ One(joining) \in Nat
    BY DEF One
  <2>2. /\ left'.joins = left.joins /\ left'.restarts \in Nat
        /\ ready' + more + left'.restarts <= ready + had + left.restarts
    <3>1. CASE MainReady
      <4>1. page' = [page EXCEPT !.posts = @ \ {"MAIN_READY"}, !.sent = @ \/ page.content]
        BY <3>1 DEF MainReady
      <4>2. page'.sent = (page.sent \/ page.content) /\ page.sent \in BOOLEAN /\ page.content \in BOOLEAN
        BY <1>2, <4>1 DEF Page
      <4>3. left' = left /\ ready' = (IF page.content /\ ~page.sent THEN ready + 1 ELSE ready)
        BY <3>1 DEF MainReady
      <4> QED
        BY <1>2, <4>2, <4>3 DEF One
    <3>2. CASE FrameReady
      <4>1. left' = [left EXCEPT !.restarts = @ - 1] /\ ready' = ready + 1 /\ page' = page
            /\ left.restarts > 0
        BY <3>2 DEF FrameReady
      <4>2. left'.joins = left.joins /\ left'.restarts = left.restarts - 1
        BY <4>1 DEF EndsInv, EndsType
      <4> QED
        BY <1>2, <2>1, <4>1, <4>2
    <3> QED
      BY <3>1, <3>2
  <2>3. made' = made /\ joining' = joining /\ One(joining') = One(joining)
    BY <1>1 DEF document
  <2> HIDE DEF more, had
  <2>4. made + ready + had + One(joining) + left.joins + left.restarts <= MaxJoins + MaxRestarts
    BY DEF EndsInv, Budget, had
  <2>5. made + ready' + more + One(joining) + left'.joins + left'.restarts <= MaxJoins + MaxRestarts
    BY <1>2, <1>3, <2>1, <2>2, <2>4, PagePeerAssumption
  <2> QED
    BY <2>3, <2>5 DEF Budget, more
<1>6. Scripts'
  BY <1>3 DEF EndsInv, Scripts
<1>7. Numbered' /\ OthersClosed' /\ TellsFirst'
  BY <1>1, <1>3 DEF document, EndsInv, Numbered, OthersClosed, TellsFirst
<1>8. Knows'
  BY <1>1, <1>2, <1>3 DEF document, EndsInv, Knows
<1> QED
  BY <1>4, <1>5, <1>6, <1>7, <1>8 DEF EndsInv

(* The user adds the tab; the document's connections move on.               *)
LEMMA EndsQuietDocument ==
  ASSUME IInv, EndsInv,
         \/ AddTab \/ HandleSignalFromTab
         \/ \E k \in Connection : Offer(k) \/ Applied(k) \/ CloseRemoved(k)
  PROVE  EndsInv'
<1>1. UNCHANGED <<pc, made, toTab, ready, page>>
  BY DEF AddTab, HandleSignalFromTab, Offer, Applied, CloseRemoved, paths
<1>2. \A j \in Connection : rtc[j] = "closed" => rtc'[j] = "closed"
  BY DEF AddTab, HandleSignalFromTab, Take, Offer, Applied, CloseRemoved, EndsInv, EndsType
<1>3. EndsType'
  <2>1. rtc' \in [Connection -> RtcState]
    BY DEF AddTab, HandleSignalFromTab, Take, Offer, Applied, CloseRemoved, EndsInv, EndsType, RtcState
  <2>2. run' \in [Connection -> RunState]
    BY DEF AddTab, HandleSignalFromTab, Offer, Applied, CloseRemoved, EndsInv, EndsType, RunState
  <2>3. removed' \in SUBSET Nat /\ route' \in BOOLEAN /\ joining' \in BOOLEAN
    BY DEF AddTab, HandleSignalFromTab, Offer, Applied, CloseRemoved, EndsInv, EndsType
  <2>4. left' \in [joins : Nat, restarts : Nat]
    BY DEF AddTab, HandleSignalFromTab, Offer, Applied, CloseRemoved, EndsInv, EndsType
  <2> QED
    BY <1>1, <2>1, <2>2, <2>3, <2>4 DEF EndsInv, EndsType
<1>4. Budget'
  <2>1. CASE AddTab
    <3>1. ~joining /\ joining' /\ left' = [left EXCEPT !.joins = @ - 1]
      BY <2>1 DEF AddTab
    <3>2. left'.joins = left.joins - 1 /\ left'.restarts = left.restarts
          /\ left.joins \in Nat /\ left.restarts \in Nat /\ ready \in Nat /\ made \in Nat
      BY <3>1 DEF EndsInv, EndsType, IInv
    <3>3. One(joining') = One(joining) + 1 /\ One(joining) \in Nat /\ One(~page.sent) \in Nat
      BY <3>1 DEF One
    <3> QED
      BY <1>1, <3>2, <3>3, PagePeerAssumption DEF EndsInv, Budget
  <2>2. CASE ~AddTab
    <3>1. UNCHANGED <<joining, left>>
      BY <2>2 DEF HandleSignalFromTab, Offer, Applied, CloseRemoved
    <3> QED
      BY <1>1, <3>1 DEF EndsInv, Budget
  <2> QED
    BY <2>1, <2>2
<1>5. Scripts' /\ Knows'
  BY <1>1 DEF EndsInv, Scripts, Knows
<1>6. \A k \in Connection : run'[k] = run[k] \/ (run[k] = "config" /\ ToldIn(toTab, k))
  BY ToldIs DEF AddTab, HandleSignalFromTab, Offer, Applied, CloseRemoved, EndsInv, EndsType
<1>7. Numbered'
  <2>1. route => route'
    BY DEF AddTab, HandleSignalFromTab, Offer, Applied, CloseRemoved
  <2>2. \A k \in Connection : rtc'[k] = rtc[k] \/ rtc[k] # "none" \/ k \in removed
    BY DEF AddTab, HandleSignalFromTab, Take, Offer, Applied, CloseRemoved, EndsInv, EndsType
  <2>3. removed' \subseteq removed
    BY DEF AddTab, HandleSignalFromTab, Offer, Applied, CloseRemoved
  <2> QED
    BY <1>1, <1>6, <2>1, <2>2, <2>3 DEF EndsInv, Numbered
<1>8. OthersClosed'
  <2>1. ASSUME NEW j \in 1 .. made, j \in removed, j \notin removed' PROVE rtc'[j] = "closed"
    <3>1. PICK k \in Connection : CloseRemoved(k)
      BY <2>1 DEF AddTab, HandleSignalFromTab, Offer, Applied
    <3>2. j = k
      BY <2>1, <3>1 DEF CloseRemoved
    <3> QED
      BY <3>1, <3>2 DEF CloseRemoved, EndsInv, EndsType
  <2> QED
    BY <1>1, <1>2, <2>1, Fits DEF EndsInv, OthersClosed
<1>9. TellsFirst'
  <2> SUFFICES ASSUME pc # 0 PROVE Ahead(toTab, pc, run'[pc], page.outputPC)
    BY <1>1 DEF TellsFirst
  <2>1. Ahead(toTab, pc, run[pc], page.outputPC)
    BY DEF EndsInv, TellsFirst
  <2>2. pc \in Connection
    <3>1. pc \in 1 .. made
      BY Fits DEF EndsInv, Numbered
    <3> QED
      BY <3>1, Fits
  <2>3. CASE run'[pc] = run[pc]
    BY <2>1, <2>3
  <2>4. CASE ToldIn(toTab, pc)
    BY <2>1, <2>4 DEF Ahead
  <2> QED
    BY <1>6, <2>2, <2>3, <2>4
<1> QED
  BY <1>3, <1>4, <1>5, <1>7, <1>8, <1>9 DEF EndsInv

(* An offer goes out, or a candidate.                                       *)
LEMMA EndsSend ==
  ASSUME IInv, EndsInv, NEW k \in Connection, SendOffer(k) \/ Gather(k)
  PROVE  EndsInv'
<1>1. /\ UNCHANGED <<pc, made, rtc, removed, ready, page, route, joining, left>>
      /\ run' = run \/ run' = [run EXCEPT ![k] = "none"]
      /\ run'[k] = "none" \/ run' = run
  BY DEF SendOffer, Gather, EndsInv, EndsType
<1>2. PICK m \in Message :
        /\ toTab' = Append(toTab, m) /\ m.kind # "config" /\ m.of = k
        /\ m.kind = "offer" => run[k] = "status" /\ run' = [run EXCEPT ![k] = "none"]
  <2>1. k \in Nat
    BY ConnectionNat
  <2>2. CASE SendOffer(k)
    <3> DEFINE m == [kind |-> "offer", of |-> k, found |-> k \in gathered]
    <3>1. m \in Message /\ m.kind = "offer" /\ m.of = k
      BY <2>1 DEF Message
    <3>2. toTab' = Append(toTab, m) /\ run[k] = "status" /\ run' = [run EXCEPT ![k] = "none"]
      BY <2>2 DEF SendOffer
    <3> HIDE DEF m
    <3> QED
      BY <3>1, <3>2
  <2>3. CASE Gather(k)
    <3> DEFINE m == Signal("candidate", k)
    <3>1. m \in Message /\ m.kind = "candidate" /\ m.of = k
      BY <2>1 DEF Message, Signal
    <3>2. toTab' = Append(toTab, m)
      BY <2>3 DEF Gather
    <3> HIDE DEF m
    <3> QED
      BY <3>1, <3>2
  <2> QED
    BY <2>2, <2>3
<1>3. toTab \in Seq(Message) /\ made \in Nat /\ pc \in Nat
  BY DEF IInv
<1>4. EndsType' /\ Budget' /\ Scripts' /\ OthersClosed'
  BY <1>1 DEF EndsInv, EndsType, RunState, Budget, Scripts, OthersClosed
<1>5. Numbered'
  <2>1. k <= made
    <3>1. CASE SendOffer(k)
      BY <3>1 DEF SendOffer, EndsInv, Numbered
    <3>2. CASE Gather(k)
      BY <3>2 DEF Gather, EndsInv, Numbered
    <3> QED
      BY <3>1, <3>2
  <2>2. \A i \in 1 .. Len(toTab') : toTab'[i].of <= made
    <3>1. \A i \in 1 .. Len(toTab) : toTab[i].of <= made
      BY DEF EndsInv, Numbered
    <3>2. \A i \in 1 .. Len(toTab') : (i \in 1 .. Len(toTab) /\ toTab'[i] = toTab[i]) \/ toTab'[i] = m
      BY <1>2, <1>3
    <3> QED
      BY <1>2, <2>1, <3>1, <3>2
  <2>3. \A j \in Connection : run'[j] # "none" => run[j] # "none"
    BY <1>1 DEF EndsInv, EndsType
  <2> QED
    BY <1>1, <2>2, <2>3 DEF EndsInv, Numbered
<1>6. ASSUME pc # 0
      PROVE  /\ Ahead(toTab', pc, run'[pc], page.outputPC)
             /\ ToldIn(toTab', pc) <=> ToldIn(toTab, pc)
  <2>1. Ahead(toTab, pc, run[pc], page.outputPC)
    BY <1>6 DEF EndsInv, TellsFirst
  <2>2. pc \in Connection
    <3>1. pc \in 1 .. made
      BY <1>6, Fits DEF EndsInv, Numbered
    <3> QED
      BY <3>1, Fits
  <2>3. run[pc] # "config" => ToldIn(toTab, pc)
    BY <2>1 DEF Ahead
  <2>4. m.kind = "offer" /\ m.of = pc => ToldIn(toTab, pc)
    BY <1>2, <2>3
  <2>5. run'[pc] = run[pc] \/ (run[pc] = "status" /\ pc = k)
    BY <1>1, <1>2, <2>2 DEF SendOffer, Gather, EndsInv, EndsType
  <2>6. Ahead(toTab, pc, run'[pc], page.outputPC)
    BY <2>1, <2>3, <2>5 DEF Ahead
  <2> QED
    BY <1>2, <1>3, <2>4, <2>6, AheadAppend
<1>7. TellsFirst' /\ Knows'
  BY <1>1, <1>6 DEF EndsInv, TellsFirst, Knows
<1> QED
  BY <1>4, <1>5, <1>7 DEF EndsInv

(* The tab leaves: its page is told before its connection is closed.        *)
LEMMA EndsRemove ==
  ASSUME IInv, EndsInv, RemoveTab
  PROVE  EndsInv'
<1>1. /\ UNCHANGED <<made, rtc, run, ready, page, joining, left>>
      /\ route' = FALSE /\ pc' = 0 /\ toTab' = Append(toTab, Config(FALSE, pc))
      /\ removed' = IF pc = 0 THEN removed ELSE removed \cup {pc}
  BY DEF RemoveTab
<1>2. toTab \in Seq(Message) /\ made \in Nat /\ pc \in Nat /\ pc <= made
  BY DEF IInv, EndsInv, Numbered
<1>3. EndsType' /\ Budget' /\ Scripts' /\ OthersClosed'
  BY <1>1, <1>2 DEF EndsInv, EndsType, Budget, Scripts, OthersClosed
<1>4. TellsFirst' /\ Knows'
  BY <1>1 DEF TellsFirst, Knows
<1>5. Numbered'
  <2> DEFINE m == Config(FALSE, pc)
  <2>1. m \in Message /\ m.of = pc
    BY <1>2 DEF Message, Config
  <2>0. toTab' = Append(toTab, m)
    BY <1>1
  <2> HIDE DEF m
  <2>2. \A i \in 1 .. Len(toTab') : (i \in 1 .. Len(toTab) /\ toTab'[i] = toTab[i]) \/ toTab'[i] = m
    BY <1>2, <2>0, <2>1, AppendMembers
  <2>3. \A i \in 1 .. Len(toTab') : toTab'[i].of <= made
    BY <1>2, <2>1, <2>2 DEF EndsInv, Numbered
  <2>4. \A k \in removed' : k <= made'
    BY <1>1, <1>2 DEF EndsInv, Numbered
  <2>5. /\ page'.outputPC <= made'
        /\ \A k \in Connection : run'[k] # "none" \/ rtc'[k] # "none" => k <= made'
    BY <1>1 DEF EndsInv, Numbered
  <2>6. pc' <= made' /\ pc' = 0
    BY <1>1, <1>2
  <2>7. \A i \in 1 .. Len(toTab') : toTab'[i].of <= made'
    BY <1>1, <2>3
  <2> QED
    BY <2>4, <2>5, <2>6, <2>7 DEF Numbered
<1> QED
  BY <1>3, <1>4, <1>5 DEF EndsInv

(* A page is ready, or another frame: a new connection, whose configuration *)
(* goes first, or the news that there is none.                              *)
LEMMA EndsTabReady ==
  ASSUME IInv, EndsInv, TabReady
  PROVE  EndsInv'
<1>0. /\ toTab \in Seq(Message) /\ made \in Nat /\ pc \in Nat /\ ready \in Nat /\ ready > 0
      /\ page.outputPC \in Nat
  BY Fits DEF TabReady, IInv, EndsInv, EndsType
<1>1. UNCHANGED <<route, joining, removed, page, left>> /\ ready' = ready - 1 /\ ready' \in Nat
  BY <1>0 DEF TabReady
<1>2. CASE ~route
  <2>1. UNCHANGED <<pc, made, rtc, run>> /\ toTab' = Append(toTab, Config(FALSE, 0)) /\ pc = 0
    BY <1>2 DEF TabReady, EndsInv, Numbered
  <2>2. EndsType' /\ Scripts' /\ OthersClosed'
    BY <1>1, <2>1 DEF EndsInv, EndsType, Scripts, OthersClosed
  <2>3. Budget'
    <3> DEFINE fresh == One(~page.sent)
               join == One(joining)
               spent == MaxJoins + MaxRestarts
    <3>1. fresh' = fresh /\ join' = join /\ left' = left /\ made' = made /\ spent' = spent
      BY <1>1, <2>1 DEF One
    <3>2. fresh \in Nat /\ join \in Nat /\ left.joins \in Nat /\ left.restarts \in Nat /\ spent \in Nat
      BY PagePeerAssumption DEF One, EndsInv, EndsType
    <3>3. made + ready + fresh + join + left.joins + left.restarts <= spent
      BY DEF EndsInv, Budget
    <3> HIDE DEF fresh, join, spent
    <3>4. made + ready' + fresh + join + left.joins + left.restarts <= spent
      BY <1>0, <1>1, <3>2, <3>3
    <3>5. made' + ready' + fresh' + join' + left'.joins + left'.restarts <= spent'
      BY <3>1, <3>4
    <3> QED
      BY <3>5 DEF Budget, fresh, join, spent
  <2>4. TellsFirst' /\ Knows'
    BY <2>1 DEF TellsFirst, Knows
  <2>5. Numbered'
    <3> DEFINE m == Config(FALSE, 0)
    <3>1. m \in Message /\ m.of = 0
      BY DEF Message, Config
    <3>0. toTab' = Append(toTab, m)
      BY <2>1
    <3> HIDE DEF m
    <3>2. \A i \in 1 .. Len(toTab') : (i \in 1 .. Len(toTab) /\ toTab'[i] = toTab[i]) \/ toTab'[i] = m
      BY <1>0, <3>0, <3>1, AppendMembers
    <3>3. \A i \in 1 .. Len(toTab') : toTab'[i].of <= made
      BY <1>0, <3>1, <3>2 DEF EndsInv, Numbered
    <3> QED
      BY <1>1, <2>1, <3>3 DEF EndsInv, Numbered
  <2> QED
    BY <2>2, <2>3, <2>4, <2>5 DEF EndsInv
<1>3. CASE route
  <2> DEFINE k == made + 1
  <2>1. /\ made' = k /\ pc' = k /\ run' = [run EXCEPT ![k] = "config"]
        /\ rtc' = [j \in Connection |-> IF j = k THEN "new" ELSE IF j = pc THEN "closed" ELSE rtc[j]]
        /\ toTab' = Append(toTab, Config(TRUE, k))
    BY <1>3, Zenon DEF TabReady, StartPeer
  <2>2. k \in Nat \ {0} /\ k \in Connection /\ 1 .. made \subseteq Connection
    BY <1>0, Fits
  <2>3. \A i \in 1 .. Len(toTab) : toTab[i].of <= made
    BY DEF EndsInv, Numbered
  <2>4. \A i \in 1 .. Len(toTab) : toTab[i] \in Message /\ toTab[i].of \in Nat
    BY <1>0 DEF Message
  <2> HIDE DEF k
  <2>5. EndsType'
    <3>1. rtc' \in [Connection -> RtcState]
      BY <2>1 DEF EndsInv, EndsType, RtcState
    <3>2. run' \in [Connection -> RunState]
      BY <2>1 DEF EndsInv, EndsType, RunState
    <3> QED
      BY <1>1, <3>1, <3>2 DEF EndsInv, EndsType
  <2>6. Budget'
    <3> DEFINE fresh == One(~page.sent)
               join == One(joining)
               spent == MaxJoins + MaxRestarts
    <3>1. fresh' = fresh /\ join' = join /\ left' = left /\ spent' = spent
      BY <1>1 DEF One
    <3>2. fresh \in Nat /\ join \in Nat /\ left.joins \in Nat /\ left.restarts \in Nat /\ spent \in Nat
      BY PagePeerAssumption DEF One, EndsInv, EndsType
    <3>3. made + ready + fresh + join + left.joins + left.restarts <= spent
      BY DEF EndsInv, Budget
    <3>4. made' + ready' = made + ready /\ made' \in Nat /\ ready' \in Nat
      BY <1>0, <1>1, <2>1 DEF k
    <3> HIDE DEF fresh, join, spent
    <3>5. made' + ready' + fresh + join + left.joins + left.restarts <= spent
      BY <1>0, <3>2, <3>3, <3>4
    <3>6. made' + ready' + fresh' + join' + left'.joins + left'.restarts <= spent'
      BY <3>1, <3>5
    <3> QED
      BY <3>6 DEF Budget, fresh, join, spent
  <2>7. Scripts'
    BY <1>1 DEF EndsInv, Scripts
  <2>8. page.outputPC # k /\ \A i \in 1 .. Len(toTab) : toTab[i].of # k
    BY <1>0, <2>3, <2>4 DEF EndsInv, Numbered, k
  <2>9. Ahead(toTab', k, "config", page.outputPC) /\ ~ToldIn(toTab', k)
    BY <1>0, <2>1, <2>2, <2>8, AheadStart
  <2>10. TellsFirst' /\ Knows'
    <3>1. run'[k] = "config"
      BY <2>1, <2>2 DEF EndsInv, EndsType
    <3> QED
      BY <1>1, <2>1, <2>9, <3>1 DEF TellsFirst, Knows
  <2>11. Numbered'
    <3> DEFINE m == Config(TRUE, k)
    <3>1. m \in Message /\ m.of = k
      BY <2>2 DEF Message, Config
    <3>0. toTab' = Append(toTab, m)
      BY <2>1
    <3> HIDE DEF m
    <3>2. \A i \in 1 .. Len(toTab') : (i \in 1 .. Len(toTab) /\ toTab'[i] = toTab[i]) \/ toTab'[i] = m
      BY <1>0, <3>0, <3>1, AppendMembers
    <3>3. \A i \in 1 .. Len(toTab') : toTab'[i].of <= k
      BY <1>0, <2>2, <2>3, <2>4, <3>1, <3>2 DEF k
    <3>4. \A j \in Connection : j \in Nat
      BY ConnectionNat
    <3>5. \A j \in Connection : run'[j] # "none" \/ rtc'[j] # "none" => j <= k
      BY <1>0, <2>1, <2>2, <3>4 DEF k, EndsInv, EndsType, Numbered
    <3>6. page.outputPC <= k /\ \A j \in removed : j <= k
      BY <1>0 DEF k, EndsInv, EndsType, Numbered
    <3> QED
      BY <1>1, <1>3, <2>1, <2>2, <3>3, <3>5, <3>6 DEF Numbered
  <2>12. OthersClosed'
    <3> SUFFICES ASSUME NEW j \in 1 .. k, j # k
                 PROVE  j \in removed \/ rtc'[j] = "closed"
      BY <1>1, <2>1 DEF OthersClosed
    <3>1. j \in 1 .. made /\ j \in Connection
      BY <1>0, <2>2 DEF k
    <3> QED
      BY <2>1, <3>1 DEF EndsInv, OthersClosed
  <2> QED
    BY <2>5, <2>6, <2>7, <2>10, <2>11, <2>12 DEF EndsInv
<1> QED
  BY <1>2, <1>3

(* What a message makes of a page, as far as the other end may know.        *)
Becomes(p, m, q) ==
  \/ q = p
  \/ m.kind = "config" /\ q = BridgeConfig(p, m.active)
  \/ m.kind = "offer" /\ q = CreateOutput(p, m)
  \/ m.kind = "candidate" /\ q = [p EXCEPT !.early = p.early \cup {m.of}]

Learns(p, m, q) ==
  /\ q.sent = p.sent /\ q.main = p.main /\ q.content = p.content /\ q.posts = p.posts
  /\ q.active = p.active \/ (m.kind = "config" /\ q.active = m.active)
  /\ q.outputPC = p.outputPC \/ q.outputPC = 0 \/ (m.kind = "offer" /\ q.outputPC = m.of)

LEMMA Received ==
  ASSUME NEW p \in Page, NEW m \in Message, NEW q, Becomes(p, m, q)
  PROVE  Learns(p, m, q)
<1> USE DEF Learns
<1>1. Fields(p)
  BY PageFields
<1>2. CASE m.kind = "config" /\ q = BridgeConfig(p, m.active)
  <2> DEFINE known == [p EXCEPT !.active = m.active, !.configKnown = TRUE]
             closed == CloseOutput(known)
             gum == IF closed.gum = "waiting" THEN "failed" ELSE closed.gum
  <2>1. /\ known.sent = p.sent /\ known.main = p.main /\ known.content = p.content
        /\ known.posts = p.posts /\ known.active = m.active /\ known.outputPC = p.outputPC
        /\ Fields(known)
    BY <1>1 DEF Fields
  <2>2. q = known \/ q = [closed EXCEPT !.waiters = {}, !.bound = FALSE, !.replaces = <<>>, !.gum = gum]
    BY <1>2 DEF BridgeConfig, Stop
  <2> HIDE DEF known, gum
  <2>3. /\ closed.sent = known.sent /\ closed.main = known.main /\ closed.content = known.content
        /\ closed.posts = known.posts /\ closed.active = known.active /\ closed.outputPC = 0
        /\ Fields(closed)
    BY <2>1 DEF CloseOutput, Fields
  <2> HIDE DEF closed
  <2> QED
    BY <1>2, <2>1, <2>2, <2>3 DEF Fields
<1>3. CASE m.kind = "offer" /\ q = CreateOutput(p, m)
  <2> DEFINE closed == CloseOutput(p)
             early == p.early \cup (IF m.found THEN {m.of} ELSE {})
  <2>1. /\ closed.sent = p.sent /\ closed.main = p.main /\ closed.content = p.content
        /\ closed.posts = p.posts /\ closed.active = p.active
        /\ Fields(closed)
    BY <1>1 DEF CloseOutput, Fields
  <2>2. q = [closed EXCEPT !.outputPC = m.of, !.peer = "remote", !.early = early]
    BY <1>3 DEF CreateOutput
  <2> HIDE DEF closed, early
  <2> QED
    BY <1>3, <2>1, <2>2 DEF Fields
<1>4. CASE m.kind = "candidate" /\ q = [p EXCEPT !.early = p.early \cup {m.of}]
  <2> DEFINE early == p.early \cup {m.of}
  <2>1. q = [p EXCEPT !.early = early]
    BY <1>4
  <2> HIDE DEF early
  <2> QED
    BY <1>1, <2>1 DEF Fields
<1> QED
  BY <1>2, <1>3, <1>4 DEF Becomes

LEMMA EndsReceive ==
  ASSUME IInv, EndsInv, ReceiveInTab
  PROVE  EndsInv'
<1> DEFINE m == Head(toTab)
           rest == Tail(toTab)
<1>1. /\ UNCHANGED <<document, ready, left>> /\ toTab # <<>> /\ toTab' = rest /\ Receive(m)
      /\ toTab \in Seq(Message)
  BY DEF ReceiveInTab, IInv
<1>2. /\ m \in Message /\ m.of \in Nat /\ m = toTab[1] /\ 1 \in 1 .. Len(toTab)
      /\ rest \in Seq(Message) /\ Len(rest) = Len(toTab) - 1
      /\ \A i \in 1 .. Len(rest) : rest[i] = toTab[i + 1] /\ i + 1 \in 1 .. Len(toTab)
  <2>1. m \in Message /\ m = toTab[1] /\ 1 \in 1 .. Len(toTab)
    BY <1>1
  <2>2. /\ rest \in Seq(Message) /\ Len(rest) = Len(toTab) - 1
        /\ \A i \in 1 .. Len(rest) : rest[i] = toTab[i + 1] /\ i + 1 \in 1 .. Len(toTab)
    BY <1>1
  <2>3. m.of \in Nat
    BY <2>1 DEF Message
  <2> QED
    BY <2>1, <2>2, <2>3
<1> HIDE DEF m, rest
<1>3. /\ page \in Page /\ page.outputPC \in Nat /\ pc \in Nat /\ made \in Nat
      /\ 1 .. made \subseteq Connection
  BY Fits
<1>4. m.kind \in {"config", "offer", "candidate"}
  BY <1>2 DEF Message
<1>5. /\ page'.sent = page.sent /\ page'.main = page.main /\ page'.content = page.content
      /\ page'.posts = page.posts
      /\ page'.active = page.active \/ (m.kind = "config" /\ page'.active = m.active)
      /\ page'.outputPC = page.outputPC \/ page'.outputPC = 0
         \/ (m.kind = "offer" /\ page'.outputPC = m.of)
  <2>1. Becomes(page, m, page')
    BY <1>1, <1>4 DEF Receive, Becomes
  <2>2. Learns(page, m, page')
    BY <1>2, <1>3, <2>1, Received, Zenon
  <2> QED
    BY <2>2, Zenon DEF Learns
<1>6. EndsType' /\ Budget' /\ Scripts' /\ OthersClosed'
  BY <1>1, <1>5 DEF document, EndsInv, EndsType, Budget, Scripts, OthersClosed
<1>7. Numbered'
  <2>1. m.of <= made /\ \A i \in 1 .. Len(rest) : rest[i].of <= made
    BY <1>2 DEF EndsInv, Numbered
  <2>2. page'.outputPC <= made
    BY <1>3, <1>5, <2>1 DEF EndsInv, Numbered
  <2> QED
    BY <1>1, <2>1, <2>2 DEF document, EndsInv, Numbered
<1>8. ASSUME pc # 0
      PROVE  /\ Ahead(rest, pc, run[pc], page'.outputPC)
             /\ ToldIn(toTab, pc) => ToldIn(rest, pc)
             /\ m.kind = "config" /\ ~m.active => ~ToldIn(rest, pc)
             /\ ToldIn(rest, pc) /\ ~ToldIn(toTab, pc) => m.kind = "config" /\ m.active
  <2>1. Ahead(toTab, pc, run[pc], page.outputPC)
    BY <1>8 DEF EndsInv, TellsFirst
  <2>2. /\ \A other : (~ToldIn(rest, pc) => other # pc) => Ahead(rest, pc, run[pc], other)
        /\ ToldIn(toTab, pc) => ToldIn(rest, pc)
        /\ m.kind = "config" /\ ~m.active => ~ToldIn(rest, pc)
        /\ ~ToldIn(toTab, pc) => page.outputPC # pc /\ ~(m.kind = "offer" /\ m.of = pc)
        /\ ToldIn(rest, pc) /\ ~ToldIn(toTab, pc) => m.kind = "config" /\ m.active
    BY <1>1, <2>1, AheadTail DEF m, rest
  <2>3. ~ToldIn(rest, pc) => page'.outputPC # pc
    BY <1>5, <1>8, <2>2
  <2> QED
    BY <2>2, <2>3
<1>9. TellsFirst'
  BY <1>1, <1>8 DEF document, TellsFirst
<1>10. Knows'
  <2> SUFFICES ASSUME pc # 0, ToldIn(rest, pc), ~page'.active, page.sent PROVE ready > 0
    BY <1>1, <1>5 DEF document, Knows
  <2>1. CASE ToldIn(toTab, pc)
    <3>1. ~(m.kind = "config" /\ ~m.active)
      BY <1>8
    <3>2. ASSUME page.active PROVE FALSE
      <4>1. page'.active # page.active
        BY <3>2
      <4>2. m.kind = "config" /\ page'.active = m.active
        BY <1>5, <4>1, Zenon
      <4> QED
        BY <3>1, <4>2
    <3> QED
      BY <2>1, <3>2 DEF EndsInv, Knows
  <2>2. CASE ~ToldIn(toTab, pc)
    <3>1. m.kind = "config" /\ m.active
      BY <1>8, <2>2
    <3>2. page.main /\ page.content
      BY DEF EndsInv, Scripts
    <3>3. page' = BridgeConfig(page, m.active)
      BY <1>1, <3>1, <3>2 DEF Receive
    <3>4. page'.active = m.active
      BY <1>3, <3>1, <3>3 DEF BridgeConfig, Page
    <3> QED
      BY <3>1, <3>4
  <2> QED
    BY <2>1, <2>2
<1> QED
  BY <1>6, <1>7, <1>9, <1>10 DEF EndsInv

LEMMA EndsInit == Init => EndsInv
<1> SUFFICES ASSUME Init PROVE EndsInv
  OBVIOUS
<1>1. /\ page.sent = TRUE /\ page.main = TRUE /\ page.content = TRUE /\ page.posts = {}
      /\ page.outputPC = 0 /\ page.active = FALSE
  BY DEF Init, NewPage
<1>2. EndsType
  <2>1. rtc \in [Connection -> RtcState] /\ run \in [Connection -> RunState]
    BY DEF Init, RtcState, RunState
  <2>2. left \in [joins : Nat, restarts : Nat]
    BY PagePeerAssumption DEF Init
  <2> QED
    BY <2>1, <2>2 DEF Init, EndsType
<1>3. Budget
  BY <1>1, PagePeerAssumption DEF Init, Budget, One
<1>4. Scripts /\ OthersClosed /\ TellsFirst /\ Knows
  BY <1>1 DEF Init, Scripts, OthersClosed, TellsFirst, Knows
<1>5. Numbered
  BY <1>1 DEF Init, Numbered
<1> QED
  BY <1>2, <1>3, <1>4, <1>5 DEF EndsInv

LEMMA EndsStep == IInv /\ IInv' /\ EndsInv /\ [Next]_vars => EndsInv'
<1> SUFFICES ASSUME IInv, IInv', EndsInv, [Next]_vars PROVE EndsInv'
  OBVIOUS
<1>1. CASE UNCHANGED vars
  BY <1>1, EndsQuiet DEF vars, document, EndsInv, Scripts
<1>2. CASE Next
  BY <1>2, EndsPage, EndsLoad, EndsReady, EndsQuietDocument, EndsSend, EndsRemove, EndsTabReady,
     EndsReceive DEF Next
<1> QED
  BY <1>1, <1>2

(* A page that holds a connection of the document and does not know that it *)
(* is bridged is about to announce itself, or the connection is closed or   *)
(* about to be: an offer of the current connection never reaches a page that*)
(* its configuration has passed by.                                         *)
THEOREM InactiveIsAloneHolds == Spec => []InactiveIsAlone
<1>1. IInv /\ EndsInv => InactiveIsAlone
  <2> SUFFICES ASSUME IInv, EndsInv, page.outputPC # 0, ~page.active, page.sent, ~(ready > 0),
                      page.outputPC \notin removed
               PROVE  rtc[page.outputPC] = "closed"
    BY DEF InactiveIsAlone
  <2> DEFINE k == page.outputPC
  <2>1. k \in 1 .. made
    BY Fits DEF EndsInv, Numbered
  <2>2. k # pc
    <3> SUFFICES ASSUME k = pc PROVE FALSE
      OBVIOUS
    <3>1. ~ToldIn(toTab, pc)
      BY DEF EndsInv, Knows
    <3> QED
      BY <3>1 DEF EndsInv, TellsFirst, Ahead
  <2> QED
    BY <2>1, <2>2 DEF EndsInv, OthersClosed
<1> QED
  BY <1>1, Inductive, EndsInit, EndsStep, PTL DEF Spec
=============================================================================
