------------------------------- MODULE HubLink -------------------------------
(***************************************************************************)
(* The extension's link to the Hub (hub-link.js): one native-messaging     *)
(* port, shared by every caller of connect, setEnabled, requestSession and *)
(* confirmPairing in the service worker.                                   *)
(*                                                                         *)
(* JavaScript runs to completion, so an action is what runs between two    *)
(* awaits that leave the event loop: storage, the host's answer, a timer.  *)
(* The continuations of a promise that an event settles run before the next*)
(* event and belong to its action.  A call is one invocation: it opens at  *)
(* most one port and posts at most one request, which bear its name.       *)
(***************************************************************************)
EXTENDS Naturals, Sequences, FiniteSets

CONSTANTS
  Call,      \* the invocations of the link's functions
  None       \* null: no port, no promise, no challenge, no pending call

ASSUME CallAssumption == IsFiniteSet(Call) /\ None \notin Call

VARIABLES
  enabled,     \* the stored setting
  hubPort,     \* the port in use, named by the call that opened it
  hubState,    \* hubConnectionState
  promise,     \* hubConnectPromise, named by its call
  challenge,   \* hubPairChallenge, named by the Hello it answers
  pending,     \* hubPendingRequests: request id -> the call that awaits it
  timer,       \* the armed request timeouts: call -> the id it will delete
  pc,          \* where each call is
  saw,         \* the setting that a call of connect has read
  joined,      \* the promise that a call of connect awaits
  code,        \* the challenge whose code a confirming user has typed
  link,        \* each port: "unused", "open", "closed" by us, "exited"
  wire,        \* the requests posted on each port and not answered, in order
  heard,       \* the last thing each port's host has said: "nothing", "ok", "error"
  paired       \* whether the Hub has this profile paired

local == <<saw, joined, code>>
vars == <<enabled, hubPort, hubState, promise, challenge, pending, timer, pc,
          local, link, wire, heard, paired>>

Running == {"storing", "disabling", "gate", "profile", "hello", "status", "joining",
            "sessionProfile", "asking", "confirmProfile", "deciding"}

Init ==
  /\ enabled \in BOOLEAN
  /\ hubPort = None
  /\ hubState = "disabled"
  /\ promise = None
  /\ challenge = None
  /\ pending = [id \in Call |-> None]
  /\ timer = [c \in Call |-> None]
  /\ pc = [c \in Call |-> "idle"]
  /\ saw = [c \in Call |-> FALSE]
  /\ joined = [c \in Call |-> None]
  /\ code = [c \in Call |-> None]
  /\ link = [p \in Call |-> "unused"]
  /\ wire = [p \in Call |-> <<>>]
  /\ heard = [p \in Call |-> "nothing"]
  /\ paired \in BOOLEAN

Goto(c, label) == pc' = [pc EXCEPT ![c] = label]

-----------------------------------------------------------------------------
(* Requests.                                                               *)

Waiting == {pending[id] : id \in Call} \ {None}

Post(c, port, id, kind) ==
  wire' = [wire EXCEPT ![port] = Append(@, [id |-> id, kind |-> kind, by |-> c])]

(* Mutant: the request has no timeout.                                      *)
SendHubRequestUntimed(c, port, id, kind, label) ==
  /\ pending' = [pending EXCEPT ![id] = c]
  /\ Post(c, port, id, kind)
  /\ Goto(c, label)
  /\ UNCHANGED timer

(* sendHubRequest, on an open port; a request whose id is in use replaces   *)
(* the entry of that id and leaves the timeout of its call armed.           *)
SendHubRequest(c, port, id, kind, label) ==
  /\ pending' = [pending EXCEPT ![id] = c]
  /\ timer' = [timer EXCEPT ![c] = id]
  /\ Post(c, port, id, kind)
  /\ Goto(c, label)

(* Where a call goes when its request is answered or rejected: a task of    *)
(* connect still reads the status, the others return.                       *)
Settled(calls) ==
  [c \in Call |-> IF c \notin calls THEN pc[c]
                  ELSE IF pc[c] = "hello" THEN "status" ELSE "returned"]

Disarmed(calls) == [c \in Call |-> IF c \in calls THEN None ELSE timer[c]]

(* Mutant: the requests that wait on the port are left to their timers.     *)
RejectPendingNot(more) ==
  /\ UNCHANGED pending
  /\ timer' = Disarmed(more)
  /\ pc' = Settled(more)

(* rejectPendingHubRequests, and closeHubPort around it.                    *)
RejectPending(more) ==
  /\ pending' = [id \in Call |-> None]
  /\ timer' = Disarmed(Waiting \cup more)
  /\ pc' = Settled(Waiting \cup more)

DropPort(status) ==
  IF hubPort = None THEN UNCHANGED <<link, wire>>
  ELSE /\ link' = [link EXCEPT ![hubPort] = status]
       /\ wire' = [wire EXCEPT ![hubPort] = <<>>]

(* The state that an event leaves: a rejected Hello ends in connect's catch,*)
(* which runs last and says "error".                                        *)
StateAfter(rejected, otherwise) ==
  IF \E c \in rejected : pc[c] = "hello" THEN "error" ELSE otherwise

-----------------------------------------------------------------------------
(* setHubEnabled and connectHub.                                           *)

Enable(c) ==
  /\ pc[c] = "idle"
  /\ enabled' = TRUE
  /\ Goto(c, "storing")
  /\ UNCHANGED <<hubPort, hubState, promise, challenge, pending, timer, local, link,
                 wire, heard, paired>>

Disable(c) ==
  /\ pc[c] = "idle"
  /\ enabled' = FALSE
  /\ Goto(c, "disabling")
  /\ UNCHANGED <<hubPort, hubState, promise, challenge, pending, timer, local, link,
                 wire, heard, paired>>

ReadHubSettings(c) ==
  /\ pc[c] \in {"idle", "storing"}
  /\ saw' = [saw EXCEPT ![c] = enabled]
  /\ Goto(c, "gate")
  /\ UNCHANGED <<enabled, hubPort, hubState, promise, challenge, pending, timer, joined,
                 code, link, wire, heard, paired>>

(* setHubEnabled(false) after its storage call, and connectHub when it has  *)
(* read a disabled setting.                                                 *)
CloseDisabled(c) ==
  /\ pc[c] = "disabling" \/ (pc[c] = "gate" /\ ~saw[c])
  /\ RejectPending({c})
  /\ DropPort("closed")
  /\ hubPort' = None
  /\ hubState' = StateAfter(Waiting, "disabled")
  /\ UNCHANGED <<enabled, promise, challenge, local, heard, paired>>

(* A port is already there: await the task that opened it, or return.       *)
JoinConnect(c) ==
  /\ pc[c] = "gate"
  /\ saw[c]
  /\ hubPort # None
  /\ IF promise # None
     THEN joined' = [joined EXCEPT ![c] = promise] /\ Goto(c, "joining")
     ELSE Goto(c, "returned") /\ UNCHANGED joined
  /\ UNCHANGED <<enabled, hubPort, hubState, promise, challenge, pending, timer, saw,
                 code, link, wire, heard, paired>>

StartConnect(c) ==
  /\ pc[c] = "gate"
  /\ saw[c]
  /\ hubPort = None
  /\ promise' = c
  /\ Goto(c, "profile")
  /\ UNCHANGED <<enabled, hubPort, hubState, challenge, pending, timer, local, link, wire,
                 heard, paired>>

(* The profile id is there: open the port and say Hello.                    *)
OpenPort(c) ==
  /\ pc[c] = "profile"
  /\ hubPort' = c
  /\ hubState' = "connecting"
  /\ link' = [link EXCEPT ![c] = "open"]
  /\ SendHubRequest(c, c, c, "Hello", "hello")
  /\ UNCHANGED <<enabled, promise, challenge, local, heard, paired>>

(* The task of connect has its status: its promise resolves.                *)
FinishConnect(c) ==
  /\ pc[c] = "status"
  /\ promise' = IF promise = c THEN None ELSE promise
  /\ Goto(c, "returned")
  /\ UNCHANGED <<enabled, hubPort, hubState, challenge, pending, timer, local, link, wire,
                 heard, paired>>

FinishJoin(c) ==
  /\ pc[c] = "joining"
  /\ pc[joined[c]] = "returned"
  /\ Goto(c, "returned")
  /\ UNCHANGED <<enabled, hubPort, hubState, promise, challenge, pending, timer, local,
                 link, wire, heard, paired>>

-----------------------------------------------------------------------------
(* requestSession and confirmPairing.                                      *)

RequestSession(c) ==
  /\ pc[c] = "idle"
  /\ Goto(c, "sessionProfile")
  /\ UNCHANGED <<enabled, hubPort, hubState, promise, challenge, pending, timer, local,
                 link, wire, heard, paired>>

AskSession(c) ==
  /\ pc[c] = "sessionProfile"
  /\ IF hubPort = None
     THEN Goto(c, "returned") /\ UNCHANGED <<pending, timer, wire>>
     ELSE SendHubRequest(c, hubPort, c, "SessionRequest", "asking")
  /\ UNCHANGED <<enabled, hubPort, hubState, promise, challenge, local, link, heard, paired>>

(* The user types the code on display; with another code the call throws.   *)
ConfirmPairing(c) ==
  /\ pc[c] = "idle"
  /\ hubPort # None
  /\ challenge # None
  /\ code' = [code EXCEPT ![c] = challenge]
  /\ Goto(c, "confirmProfile")
  /\ UNCHANGED <<enabled, hubPort, hubState, promise, challenge, pending, timer, saw,
                 joined, link, wire, heard, paired>>

(* The challenge is read again after the await: it may be another, or null. *)
SendDecision(c) ==
  /\ pc[c] = "confirmProfile"
  /\ IF hubPort = None \/ challenge = None
     THEN Goto(c, "returned") /\ UNCHANGED <<pending, timer, wire>>
     ELSE SendHubRequest(c, hubPort, challenge, "PairDecision", "deciding")
  /\ UNCHANGED <<enabled, hubPort, hubState, promise, challenge, local, link, heard, paired>>

-----------------------------------------------------------------------------
(* The host (the broker and the Hub behind it) answers the requests of a   *)
(* port one at a time, and correctly; an "Unavailable" carries no id.      *)

Response(r) ==
  {"Unavailable"} \cup
  CASE r.kind = "Hello" -> {"Error", IF paired THEN "Paired" ELSE "PairChallenge"}
    [] r.kind = "SessionRequest" -> {"Error"} \cup (IF paired THEN {"SessionGrant"} ELSE {})
    [] OTHER -> {"NotPaired"} \cup (IF code[r.by] = r.id /\ ~paired THEN {"Paired"} ELSE {})

IsError(response) == response \in {"Unavailable", "Error"}

(* Mutant: the listener does not ask whether its port is still in use.      *)
IgnoredNever(p) == FALSE

Ignored(p) == hubPort # p

(* onMessage, with the continuation of the call whose request it answers.   *)
HubMessage(p) ==
  /\ link[p] = "open"
  /\ wire[p] # <<>>
  /\ \E response \in Response(wire[p][1]) :
       LET id == wire[p][1].id
           asker == IF Ignored(p) \/ response = "Unavailable" THEN None ELSE pending[id]
           failed == asker # None /\ pc[asker] = "hello" /\ response = "Error"
       IN
       /\ paired' = (paired \/ response = "Paired")
       /\ heard' = [heard EXCEPT ![p] = IF IsError(response) THEN "error" ELSE "ok"]
       /\ IF Ignored(p)
          THEN UNCHANGED <<hubState, challenge>>
          ELSE /\ hubState' = IF IsError(response) THEN "error" ELSE "connected"
               /\ challenge' = CASE response = "PairChallenge" -> id
                                 [] response = "Paired" -> None
                                 [] OTHER -> challenge
       /\ IF failed /\ hubPort = asker
          THEN RejectPending({asker}) /\ DropPort("closed") /\ hubPort' = None
          ELSE /\ pending' = IF asker = None THEN pending ELSE [pending EXCEPT ![id] = None]
               /\ timer' = Disarmed({asker})
               /\ pc' = Settled({asker})
               /\ wire' = [wire EXCEPT ![p] = Tail(@)]
               /\ UNCHANGED <<hubPort, link>>
  /\ UNCHANGED <<enabled, promise, local>>

(* The host exits, or Chrome cannot start it.                               *)
HubDisconnect(p) ==
  /\ link[p] = "open"
  /\ link' = [link EXCEPT ![p] = "exited"]
  /\ wire' = [wire EXCEPT ![p] = <<>>]
  /\ IF Ignored(p)
     THEN UNCHANGED <<hubPort, hubState, promise, pending, timer, pc>>
     ELSE /\ hubPort' = None
          /\ promise' = None
          /\ hubState' = StateAfter(Waiting, "disconnected")
          /\ RejectPending({})
  /\ UNCHANGED <<enabled, challenge, local, heard, paired>>

(* Mutant: the catch of connect closes whatever port is in use.             *)
MustCloseAny(c) == pc[c] = "hello" /\ hubPort # None

MustClose(c) == pc[c] = "hello" /\ hubPort = c

(* The request's timeout: it deletes the entry of its id, whoever's it is.  *)
Timeout(c) ==
  /\ timer[c] # None
  /\ hubState' = StateAfter({c}, hubState)
  /\ IF MustClose(c)
     THEN RejectPending({c}) /\ DropPort("closed") /\ hubPort' = None
     ELSE /\ pending' = [pending EXCEPT ![timer[c]] = None]
          /\ timer' = Disarmed({c})
          /\ pc' = Settled({c})
          /\ UNCHANGED <<hubPort, link, wire>>
  /\ UNCHANGED <<enabled, promise, challenge, local, heard, paired>>

-----------------------------------------------------------------------------
Begin(c) ==
  Enable(c) \/ Disable(c) \/ (pc[c] = "idle" /\ ReadHubSettings(c))
  \/ RequestSession(c) \/ ConfirmPairing(c)

(* What a call does when storage calls back.                                *)
Continue(c) ==
  \/ pc[c] = "storing" /\ ReadHubSettings(c)
  \/ CloseDisabled(c) \/ JoinConnect(c) \/ StartConnect(c) \/ OpenPort(c)
  \/ FinishConnect(c) \/ FinishJoin(c) \/ AskSession(c) \/ SendDecision(c)

Next ==
  \E c \in Call :
    Begin(c) \/ Continue(c) \/ Timeout(c) \/ HubMessage(c) \/ HubDisconnect(c)

Spec == Init /\ [][Next]_vars

(* Storage calls back and armed timers fire; the host owes nothing.         *)
FairSpec == Spec /\ \A c \in Call : WF_vars(Continue(c)) /\ WF_vars(Timeout(c))

-----------------------------------------------------------------------------
TypeOK ==
  /\ enabled \in BOOLEAN
  /\ hubPort \in Call \cup {None}
  /\ hubState \in {"disabled", "connecting", "connected", "disconnected", "error"}
  /\ promise \in Call \cup {None}
  /\ challenge \in Call \cup {None}
  /\ pending \in [Call -> Call \cup {None}]
  /\ timer \in [Call -> Call \cup {None}]
  /\ pc \in [Call -> Running \cup {"idle", "returned"}]
  /\ saw \in [Call -> BOOLEAN]
  /\ joined \in [Call -> Call \cup {None}]
  /\ code \in [Call -> Call \cup {None}]
  /\ link \in [Call -> {"unused", "open", "closed", "exited"}]
  /\ wire \in [Call -> Seq([id : Call, kind : {"Hello", "SessionRequest", "PairDecision"},
                            by : Call])]
  /\ heard \in [Call -> {"nothing", "ok", "error"}]
  /\ paired \in BOOLEAN

(* "connected" is said of a link only on the word of its own host: not on a *)
(* superseded port's, and never without a port.                             *)
ConnectedMeansGreeted ==
  hubState = "connected" => hubPort # None /\ heard[hubPort] = "ok"

(* No request waits on a link that is gone, and the port in use is open.    *)
NothingWaitsOnNoLink ==
  /\ hubPort = None => Waiting = {}
  /\ hubPort # None => link[hubPort] = "open"

(* The extension gives up a link whose Hello was accepted only when it is   *)
(* told that the Hub is disabled: no late failure of another call does.     *)
GreetedLinkKept ==
  [][\A p \in Call :
       pc[p] \in {"status", "returned"} /\ heard[p] = "ok" /\ link[p] = "open"
       /\ link'[p] = "closed" => \E c \in Call : pc[c] \in {"disabling", "gate"}
                                                /\ pc'[c] = "returned"]_vars

(* Every call settles, whatever the host does: storage and timers suffice.  *)
EveryCallReturns == \A c \in Call : (pc[c] \in Running) ~> (pc[c] = "returned")
=============================================================================
