--------------------------- MODULE HubLink_proofs ---------------------------
(***************************************************************************)
(* Proofs about HubLink for any number of calls: its types, that only the  *)
(* port in use makes the link "connected", and that no request waits on a  *)
(* link that is gone.                                                      *)
(***************************************************************************)
EXTENDS HubLink, SequenceTheorems, TLAPS

Request == [id : Call, kind : {"Hello", "SessionRequest", "PairDecision"}, by : Call]

(* The types of a step's parts, in the shapes that the actions share.       *)
LEMMA SettledType ==
  ASSUME TypeOK, NEW calls
  PROVE  Settled(calls) \in [Call -> Running \cup {"idle", "returned"}]
  BY DEF TypeOK, Settled, Running

LEMMA DisarmedType ==
  ASSUME TypeOK, NEW calls
  PROVE  Disarmed(calls) \in [Call -> Call \cup {None}]
  BY DEF TypeOK, Disarmed

LEMMA RejectType ==
  ASSUME TypeOK, NEW more, RejectPending(more)
  PROVE  /\ pending' \in [Call -> Call \cup {None}]
         /\ timer' \in [Call -> Call \cup {None}]
         /\ pc' \in [Call -> Running \cup {"idle", "returned"}]
         /\ Waiting' = {}
  BY SettledType, DisarmedType DEF RejectPending, Waiting

LEMMA DropType ==
  ASSUME TypeOK, NEW status \in {"closed", "exited"}, DropPort(status)
  PROVE  /\ link' \in [Call -> {"unused", "open", "closed", "exited"}]
         /\ wire' \in [Call -> Seq(Request)]
<1>1. <<>> \in Seq(Request)
  BY EmptySeq
<1> QED
  BY <1>1 DEF TypeOK, DropPort, Request

LEMMA SendType ==
  ASSUME TypeOK, NEW c \in Call, NEW port \in Call, NEW id \in Call,
         NEW kind \in {"Hello", "SessionRequest", "PairDecision"},
         NEW label \in Running, SendHubRequest(c, port, id, kind, label)
  PROVE  /\ pending' \in [Call -> Call \cup {None}]
         /\ timer' \in [Call -> Call \cup {None}]
         /\ pc' \in [Call -> Running \cup {"idle", "returned"}]
         /\ wire' \in [Call -> Seq(Request)]
<1> DEFINE r == [id |-> id, kind |-> kind, by |-> c]
<1>1. wire \in [Call -> Seq(Request)] /\ r \in Request
  BY DEF TypeOK, Request
<1>2. Append(wire[port], r) \in Seq(Request)
  BY <1>1, AppendProperties
<1>3. wire' \in [Call -> Seq(Request)]
  BY <1>1, <1>2 DEF SendHubRequest, Post
<1> QED
  BY <1>3 DEF SendHubRequest, Goto, TypeOK

LEMMA TypeInit == Init => TypeOK
<1>1. <<>> \in Seq([id : Call, kind : {"Hello", "SessionRequest", "PairDecision"}, by : Call])
  BY EmptySeq
<1> QED
  BY <1>1 DEF Init, TypeOK, Running

LEMMA StateAfterType ==
  ASSUME NEW rejected, NEW otherwise \in {"disabled", "connecting", "connected", "disconnected", "error"}
  PROVE  StateAfter(rejected, otherwise)
           \in {"disabled", "connecting", "connected", "disconnected", "error"}
  BY DEF StateAfter

LEMMA MessageType == ASSUME TypeOK, NEW p \in Call, HubMessage(p) PROVE TypeOK'
<1>1. wire[p] \in Seq(Request) /\ wire[p] # <<>>
  BY DEF TypeOK, HubMessage, Request
<1>2. wire[p][1] \in Request /\ Tail(wire[p]) \in Seq(Request)
  <2>1. Len(wire[p]) \in Nat /\ Len(wire[p]) # 0
    BY <1>1, EmptySeq
  <2>2. 1 \in 1..Len(wire[p])
    BY <2>1
  <2> QED
    BY <1>1, <2>2, ElementOfSeq, HeadTailProperties
<1>3. wire[p][1].id \in Call
  BY <1>2 DEF Request
<1>4. /\ heard' \in [Call -> {"nothing", "ok", "error"}]
      /\ paired' \in BOOLEAN
      /\ hubState' \in {"disabled", "connecting", "connected", "disconnected", "error"}
      /\ challenge' \in Call \cup {None}
  BY <1>3 DEF HubMessage, TypeOK
<1>5. /\ pending' \in [Call -> Call \cup {None}]
      /\ timer' \in [Call -> Call \cup {None}]
      /\ pc' \in [Call -> Running \cup {"idle", "returned"}]
      /\ hubPort' \in Call \cup {None}
      /\ link' \in [Call -> {"unused", "open", "closed", "exited"}]
      /\ wire' \in [Call -> Seq(Request)]
  <2>1. PICK response \in Response(wire[p][1]) :
          LET id == wire[p][1].id
              asker == IF Ignored(p) \/ response = "Unavailable" THEN None ELSE pending[id]
              failed == asker # None /\ pc[asker] = "hello" /\ response = "Error"
          IN  IF failed /\ hubPort = asker
              THEN RejectPending({asker}) /\ DropPort("closed") /\ hubPort' = None
              ELSE /\ pending' = IF asker = None THEN pending ELSE [pending EXCEPT ![id] = None]
                   /\ timer' = Disarmed({asker})
                   /\ pc' = Settled({asker})
                   /\ wire' = [wire EXCEPT ![p] = Tail(@)]
                   /\ UNCHANGED <<hubPort, link>>
    BY DEF HubMessage
  <2> DEFINE id == wire[p][1].id
             asker == IF Ignored(p) \/ response = "Unavailable" THEN None ELSE pending[id]
  <2>2. CASE RejectPending({asker}) /\ DropPort("closed") /\ hubPort' = None
    BY <2>2, RejectType, DropType
  <2>3. CASE /\ pending' = IF asker = None THEN pending ELSE [pending EXCEPT ![id] = None]
             /\ timer' = Disarmed({asker})
             /\ pc' = Settled({asker})
             /\ wire' = [wire EXCEPT ![p] = Tail(@)]
             /\ UNCHANGED <<hubPort, link>>
    <3>1. wire' \in [Call -> Seq(Request)]
      BY <1>2, <2>3 DEF TypeOK, Request
    <3>2. pending' \in [Call -> Call \cup {None}]
      BY <1>3, <2>3 DEF TypeOK
    <3>3. hubPort' \in Call \cup {None} /\ link' \in [Call -> {"unused", "open", "closed", "exited"}]
      BY <2>3 DEF TypeOK
    <3> QED
      BY <2>3, <3>1, <3>2, <3>3, SettledType, DisarmedType
  <2> QED
    BY <2>1, <2>2, <2>3
<1>6. UNCHANGED <<enabled, promise, saw, joined, code>>
  BY DEF HubMessage, local
<1> QED
  BY <1>4, <1>5, <1>6 DEF TypeOK, Request

LEMMA TimeoutType == ASSUME TypeOK, NEW c \in Call, Timeout(c) PROVE TypeOK'
<1>1. UNCHANGED <<enabled, promise, challenge, saw, joined, code, heard, paired>>
  BY DEF Timeout, local
<1>2. hubState' \in {"disabled", "connecting", "connected", "disconnected", "error"}
  BY StateAfterType DEF Timeout, TypeOK
<1>3. CASE MustClose(c)
  <2>1. RejectPending({c}) /\ DropPort("closed") /\ hubPort' = None
    BY <1>3 DEF Timeout
  <2> QED
    BY <1>1, <1>2, <2>1, RejectType, DropType DEF TypeOK, Request
<1>4. CASE ~MustClose(c)
  <2>1. /\ timer[c] \in Call
        /\ pending' = [pending EXCEPT ![timer[c]] = None]
        /\ timer' = Disarmed({c})
        /\ pc' = Settled({c})
        /\ UNCHANGED <<hubPort, link, wire>>
    BY <1>4 DEF Timeout, TypeOK
  <2> QED
    BY <1>1, <1>2, <2>1, SettledType, DisarmedType DEF TypeOK
<1> QED
  BY <1>3, <1>4

LEMMA DisconnectType == ASSUME TypeOK, NEW p \in Call, HubDisconnect(p) PROVE TypeOK'
<1>1. UNCHANGED <<enabled, challenge, saw, joined, code, heard, paired>>
  BY DEF HubDisconnect, local
<1>2. /\ link' \in [Call -> {"unused", "open", "closed", "exited"}]
      /\ wire' \in [Call -> Seq(Request)]
  <2>1. <<>> \in Seq(Request)
    BY EmptySeq
  <2> QED
    BY <2>1 DEF HubDisconnect, TypeOK, Request
<1>3. CASE Ignored(p)
  BY <1>1, <1>2, <1>3 DEF HubDisconnect, TypeOK, Request
<1>4. CASE ~Ignored(p)
  <2>1. RejectPending({}) /\ hubPort' = None /\ promise' = None
    BY <1>4 DEF HubDisconnect
  <2>2. hubState' \in {"disabled", "connecting", "connected", "disconnected", "error"}
    BY <1>4, StateAfterType DEF HubDisconnect
  <2> QED
    BY <1>1, <1>2, <2>1, <2>2, RejectType DEF TypeOK, Request
<1> QED
  BY <1>3, <1>4

LEMMA TypeStep == TypeOK /\ [Next]_vars => TypeOK'
<1> SUFFICES ASSUME TypeOK, [Next]_vars PROVE TypeOK'
  OBVIOUS
<1>1. ASSUME NEW c \in Call, Enable(c) \/ Disable(c) \/ RequestSession(c) \/ FinishConnect(c)
                             \/ FinishJoin(c) \/ StartConnect(c)
      PROVE  TypeOK'
  BY <1>1 DEF Enable, Disable, RequestSession, FinishConnect, FinishJoin, StartConnect,
              Goto, local, TypeOK, Running
<1>2. ASSUME NEW c \in Call, ReadHubSettings(c) PROVE TypeOK'
  BY <1>2 DEF ReadHubSettings, Goto, TypeOK, Running
<1>3. ASSUME NEW c \in Call, JoinConnect(c) PROVE TypeOK'
  BY <1>3 DEF JoinConnect, Goto, TypeOK, Running
<1>4. ASSUME NEW c \in Call, ConfirmPairing(c) PROVE TypeOK'
  BY <1>4 DEF ConfirmPairing, Goto, TypeOK, Running
<1>5. ASSUME NEW c \in Call, CloseDisabled(c) PROVE TypeOK'
  <2>1. hubState' \in {"disabled", "connecting", "connected", "disconnected", "error"}
    BY <1>5, StateAfterType DEF CloseDisabled
  <2>2. /\ RejectPending({c})
        /\ DropPort("closed")
        /\ hubPort' = None
        /\ UNCHANGED <<enabled, promise, challenge, saw, joined, code, heard, paired>>
    BY <1>5 DEF CloseDisabled, local
  <2> QED
    BY <2>1, <2>2, RejectType, DropType DEF TypeOK, Request
<1>6. ASSUME NEW c \in Call, OpenPort(c) PROVE TypeOK'
  <2>1. SendHubRequest(c, c, c, "Hello", "hello") /\ "hello" \in Running
    BY <1>6 DEF OpenPort, Running
  <2>2. /\ UNCHANGED <<enabled, promise, challenge, saw, joined, code, heard, paired>>
        /\ hubPort' = c
        /\ hubState' = "connecting"
        /\ link' = [link EXCEPT ![c] = "open"]
    BY <1>6 DEF OpenPort, local
  <2> QED
    BY <2>1, <2>2, SendType DEF TypeOK, Request
<1>7. ASSUME NEW c \in Call, AskSession(c) \/ SendDecision(c) PROVE TypeOK'
  <2>1. UNCHANGED <<enabled, hubPort, hubState, promise, challenge, saw, joined, code, link, heard, paired>>
    BY <1>7 DEF AskSession, SendDecision, local
  <2>2. CASE Goto(c, "returned") /\ UNCHANGED <<pending, timer, wire>>
    BY <2>1, <2>2 DEF Goto, TypeOK
  <2>3. CASE hubPort # None /\ SendHubRequest(c, hubPort, c, "SessionRequest", "asking")
    <3>1. hubPort \in Call /\ "asking" \in Running
      BY <2>3 DEF TypeOK, Running
    <3> QED
      BY <2>1, <2>3, <3>1, SendType DEF TypeOK, Request
  <2>4. CASE hubPort # None /\ challenge # None
             /\ SendHubRequest(c, hubPort, challenge, "PairDecision", "deciding")
    <3>1. hubPort \in Call /\ challenge \in Call /\ "deciding" \in Running
      BY <2>4 DEF TypeOK, Running
    <3> QED
      BY <2>1, <2>4, <3>1, SendType DEF TypeOK, Request
  <2> QED
    BY <1>7, <2>2, <2>3, <2>4 DEF AskSession, SendDecision
<1>8. ASSUME NEW c \in Call, Timeout(c) \/ HubMessage(c) \/ HubDisconnect(c) PROVE TypeOK'
  BY <1>8, TimeoutType, MessageType, DisconnectType
<1>9. CASE UNCHANGED vars
  BY <1>9 DEF vars, local, TypeOK
<1> QED
  BY <1>1, <1>2, <1>3, <1>4, <1>5, <1>6, <1>7, <1>8, <1>9 DEF Next, Begin, Continue

(* Every behaviour of the link keeps its types.                             *)
THEOREM TypeCorrect == Spec => []TypeOK
  BY TypeInit, TypeStep, PTL DEF Spec
-----------------------------------------------------------------------------
(* Both invariants are inductive, given the types: the listeners' guard      *)
(* makes a message speak only for the port in use, and every path that drops *)
(* that port rejects what waits on it.                                       *)
LinkInv == ConnectedMeansGreeted /\ NothingWaitsOnNoLink

LEMMA ClosedLink ==
  ASSUME hubPort' = None, Waiting' = {}, hubState' # "connected"
  PROVE  LinkInv'
  BY DEF LinkInv, ConnectedMeansGreeted, NothingWaitsOnNoLink

LEMMA WaitingSame == ASSUME pending' = pending PROVE Waiting' = Waiting
  BY DEF Waiting

LEMMA StateAfterConnected ==
  ASSUME NEW rejected, NEW otherwise, StateAfter(rejected, otherwise) = "connected"
  PROVE  otherwise = "connected"
  BY DEF StateAfter

LEMMA MessageKeepsLinkInv == ASSUME TypeOK, LinkInv, NEW p \in Call, HubMessage(p) PROVE LinkInv'
<1>1. PICK response \in Response(wire[p][1]) :
        LET id == wire[p][1].id
            asker == IF Ignored(p) \/ response = "Unavailable" THEN None ELSE pending[id]
            failed == asker # None /\ pc[asker] = "hello" /\ response = "Error"
        IN
        /\ heard' = [heard EXCEPT ![p] = IF IsError(response) THEN "error" ELSE "ok"]
        /\ IF Ignored(p)
           THEN UNCHANGED <<hubState, challenge>>
           ELSE hubState' = IF IsError(response) THEN "error" ELSE "connected"
        /\ IF failed /\ hubPort = asker
           THEN RejectPending({asker}) /\ DropPort("closed") /\ hubPort' = None
           ELSE /\ pending' = IF asker = None THEN pending ELSE [pending EXCEPT ![id] = None]
                /\ UNCHANGED <<hubPort, link>>
  BY DEF HubMessage
<1> DEFINE id == wire[p][1].id
           asker == IF Ignored(p) \/ response = "Unavailable" THEN None ELSE pending[id]
           failed == asker # None /\ pc[asker] = "hello" /\ response = "Error"
<1>2. CASE failed /\ hubPort = asker
  <2>1. RejectPending({asker}) /\ hubPort' = None
    BY <1>1, <1>2
  <2>2. ~Ignored(p)
    BY <1>2
  <2>3. hubState' = "error"
    BY <1>1, <1>2, <2>2 DEF IsError
  <2> QED
    BY <2>1, <2>3, RejectType, ClosedLink
<1>3. CASE ~(failed /\ hubPort = asker)
  <2>1. /\ pending' = IF asker = None THEN pending ELSE [pending EXCEPT ![id] = None]
        /\ hubPort' = hubPort
        /\ link' = link
    BY <1>1, <1>3
  <2>2. CASE Ignored(p)
    <3>1. pending' = pending /\ hubState' = hubState
      BY <1>1, <2>1, <2>2
    <3>2. hubPort # None => heard'[hubPort] = heard[hubPort]
      BY <1>1, <2>2 DEF Ignored, TypeOK
    <3> QED
      BY <2>1, <3>1, <3>2, WaitingSame DEF LinkInv, ConnectedMeansGreeted, NothingWaitsOnNoLink
  <2>3. CASE ~Ignored(p)
    <3>1. hubPort = p /\ p # None
      BY <2>3, CallAssumption DEF Ignored
    <3>2. hubState' = "connected" => heard'[p] = "ok"
      BY <1>1, <2>3 DEF TypeOK
    <3> QED
      BY <2>1, <3>1, <3>2 DEF LinkInv, ConnectedMeansGreeted, NothingWaitsOnNoLink
  <2> QED
    BY <2>2, <2>3
<1> QED
  BY <1>2, <1>3

LEMMA LinkStep == TypeOK /\ LinkInv /\ [Next]_vars => LinkInv'
<1> SUFFICES ASSUME TypeOK, LinkInv, [Next]_vars PROVE LinkInv'
  OBVIOUS
<1>1. ASSUME UNCHANGED <<hubPort, hubState, pending, link, heard>> PROVE LinkInv'
  BY <1>1, WaitingSame DEF LinkInv, ConnectedMeansGreeted, NothingWaitsOnNoLink
<1>2. ASSUME NEW c \in Call, Begin(c) PROVE LinkInv'
  BY <1>1, <1>2 DEF Begin, Enable, Disable, ReadHubSettings, RequestSession, ConfirmPairing
<1>3. ASSUME NEW c \in Call, ReadHubSettings(c) \/ JoinConnect(c) \/ StartConnect(c)
                             \/ FinishConnect(c) \/ FinishJoin(c)
      PROVE  LinkInv'
  BY <1>1, <1>3 DEF ReadHubSettings, JoinConnect, StartConnect, FinishConnect, FinishJoin
<1>4. ASSUME NEW c \in Call, CloseDisabled(c) PROVE LinkInv'
  <2>1. RejectPending({c}) /\ hubPort' = None /\ hubState' = StateAfter(Waiting, "disabled")
    BY <1>4 DEF CloseDisabled
  <2> QED
    BY <2>1, RejectType, ClosedLink, StateAfterConnected
<1>5. ASSUME NEW c \in Call, OpenPort(c) PROVE LinkInv'
  <2>1. hubPort' = c /\ c # None /\ hubState' = "connecting" /\ link'[c] = "open"
    BY <1>5, CallAssumption DEF OpenPort, TypeOK
  <2> QED
    BY <2>1 DEF LinkInv, ConnectedMeansGreeted, NothingWaitsOnNoLink
<1>6. ASSUME NEW c \in Call, AskSession(c) \/ SendDecision(c) PROVE LinkInv'
  <2>1. UNCHANGED <<hubPort, hubState, link, heard>>
    BY <1>6 DEF AskSession, SendDecision
  <2>2. hubPort = None => pending' = pending
    BY <1>6 DEF AskSession, SendDecision
  <2> QED
    BY <2>1, <2>2, WaitingSame DEF LinkInv, ConnectedMeansGreeted, NothingWaitsOnNoLink
<1>7. ASSUME NEW c \in Call, Timeout(c) PROVE LinkInv'
  <2>1. hubState' = StateAfter({c}, hubState) /\ heard' = heard
    BY <1>7 DEF Timeout
  <2>2. CASE MustClose(c)
    <3>1. RejectPending({c}) /\ hubPort' = None
      BY <1>7, <2>2 DEF Timeout
    <3>2. hubState' = "error"
      BY <2>1, <2>2 DEF StateAfter, MustClose
    <3> QED
      BY <3>1, <3>2, RejectType, ClosedLink
  <2>3. CASE ~MustClose(c)
    <3>1. pending' = [pending EXCEPT ![timer[c]] = None] /\ UNCHANGED <<hubPort, link>>
      BY <1>7, <2>3 DEF Timeout
    <3>2. Waiting' \subseteq Waiting
      BY <3>1 DEF Waiting, TypeOK
    <3>3. hubState' = "connected" => hubState = "connected"
      BY <2>1, StateAfterConnected
    <3> QED
      BY <2>1, <3>1, <3>2, <3>3 DEF LinkInv, ConnectedMeansGreeted, NothingWaitsOnNoLink
  <2> QED
    BY <2>2, <2>3
<1>8. ASSUME NEW p \in Call, HubDisconnect(p) PROVE LinkInv'
  <2>1. heard' = heard /\ link' = [link EXCEPT ![p] = "exited"]
    BY <1>8 DEF HubDisconnect
  <2>2. CASE Ignored(p)
    <3>1. UNCHANGED <<hubPort, hubState, pending>>
      BY <1>8, <2>2 DEF HubDisconnect
    <3>2. hubPort # None => link'[hubPort] = link[hubPort]
      BY <2>1, <2>2 DEF Ignored, TypeOK
    <3> QED
      BY <2>1, <3>1, <3>2, WaitingSame DEF LinkInv, ConnectedMeansGreeted, NothingWaitsOnNoLink
  <2>3. CASE ~Ignored(p)
    <3>1. RejectPending({}) /\ hubPort' = None /\ hubState' = StateAfter(Waiting, "disconnected")
      BY <1>8, <2>3 DEF HubDisconnect
    <3> QED
      BY <3>1, RejectType, ClosedLink, StateAfterConnected
  <2> QED
    BY <2>2, <2>3
<1>9. CASE UNCHANGED vars
  BY <1>1, <1>9 DEF vars
<1> QED
  BY <1>2, <1>3, <1>4, <1>5, <1>6, <1>7, <1>8, <1>9, MessageKeepsLinkInv DEF Next, Continue

LEMMA LinkInit == Init => LinkInv
  BY DEF Init, LinkInv, ConnectedMeansGreeted, NothingWaitsOnNoLink, Waiting

(* The link is called connected only on the word of the host behind the port*)
(* in use, however calls, hosts, timeouts and superseded ports interleave.   *)
THEOREM ConnectedMeansGreetedHolds == Spec => []ConnectedMeansGreeted
<1>1. LinkInv => ConnectedMeansGreeted
  BY DEF LinkInv
<1> QED
  BY <1>1, LinkInit, LinkStep, TypeCorrect, PTL DEF Spec

(* Whenever the port is dropped, every request that waits is rejected.       *)
THEOREM NothingWaitsOnNoLinkHolds == Spec => []NothingWaitsOnNoLink
<1>1. LinkInv => NothingWaitsOnNoLink
  BY DEF LinkInv
<1> QED
  BY <1>1, LinkInit, LinkStep, TypeCorrect, PTL DEF Spec
-----------------------------------------------------------------------------
LEMMA OnlyHelloCloses ==
  ASSUME TypeOK, NEW c \in Call, Timeout(c) \/ HubMessage(c), NEW p \in Call,
         link[p] = "open", link'[p] = "closed"
  PROVE  pc[p] = "hello"
<1>1. link' # link
  OBVIOUS
<1>2. CASE Timeout(c)
  <2>1. MustClose(c) /\ DropPort("closed")
    BY <1>1, <1>2 DEF Timeout
  <2> QED
    BY <2>1 DEF MustClose, DropPort, TypeOK
<1>3. CASE HubMessage(c)
  <2>1. \E asker : pc[asker] = "hello" /\ hubPort = asker /\ DropPort("closed")
    BY <1>1, <1>3 DEF HubMessage
  <2> QED
    BY <2>1 DEF DropPort, TypeOK
<1> QED
  BY <1>2, <1>3

(* A link that works is never closed by another call's failure: only by a    *)
(* caller that has been told that the Hub is disabled.                       *)
THEOREM GreetedLinkKeptHolds == Spec => GreetedLinkKept
<1>1. TypeOK /\ [Next]_vars =>
        [\A p \in Call :
           pc[p] \in {"status", "returned"} /\ heard[p] = "ok" /\ link[p] = "open"
           /\ link'[p] = "closed" => \E c \in Call : pc[c] \in {"disabling", "gate"}
                                                    /\ pc'[c] = "returned"]_vars
  <2> SUFFICES ASSUME TypeOK, Next, NEW p \in Call, pc[p] \in {"status", "returned"},
                      link[p] = "open", link'[p] = "closed"
               PROVE  \E c \in Call : pc[c] \in {"disabling", "gate"} /\ pc'[c] = "returned"
    OBVIOUS
  <2>1. PICK c \in Call : Begin(c) \/ Continue(c) \/ Timeout(c) \/ HubMessage(c) \/ HubDisconnect(c)
    BY DEF Next
  <2>2. ~(Timeout(c) \/ HubMessage(c))
    BY OnlyHelloCloses
  <2>3. ~HubDisconnect(c)
    BY DEF HubDisconnect, TypeOK
  <2>4. ~Begin(c)
    BY DEF Begin, Enable, Disable, ReadHubSettings, RequestSession, ConfirmPairing
  <2>5. CloseDisabled(c)
    BY <2>1, <2>2, <2>3, <2>4
       DEF Continue, ReadHubSettings, JoinConnect, StartConnect, OpenPort, FinishConnect, FinishJoin,
           AskSession, SendDecision, TypeOK
  <2>6. pc[c] \in {"disabling", "gate"} /\ pc' = Settled(Waiting \cup {c})
    BY <2>5 DEF CloseDisabled, RejectPending
  <2>7. pc'[c] = "returned"
    BY <2>6 DEF Settled
  <2> QED
    BY <2>6, <2>7
<1> QED
  BY <1>1, TypeCorrect, PTL DEF Spec, GreetedLinkKept
=============================================================================
