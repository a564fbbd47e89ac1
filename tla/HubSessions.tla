---------------------------- MODULE HubSessions -----------------------------
(***************************************************************************)
(* The hub's session table and the audio connections that use it           *)
(* (crates/hub-core/src/service.rs): admission, revocation, the emergency  *)
(* stop, authentication of a WebSocket, its reader and writer, the mix     *)
(* tick, and the registrations and input queues of the mixer.              *)
(*                                                                         *)
(* A session record never changes after admission, so the HashMap is split *)
(* into grant, every record ever handed out, and live, its current keys.   *)
(* A connection's clone of a record (taken under the lock in authenticate  *)
(* and used after the unlock) is grant[sid[c]]; it is stale exactly when   *)
(* sid[c] has left live.  Each action is one critical section, or the code *)
(* between two awaits; everything else may interleave between two actions. *)
(***************************************************************************)
EXTENDS Naturals, FiniteSets

CONSTANTS
  Profile,       \* browser profiles that are paired with the hub
  Endpoint,      \* endpoint ids the extension makes, one per meeting tab
  NilEndpoint,   \* the nil id, under which the hub's microphone is mixed
  Channel,       \* the valid channels
  BadChannel,    \* a channel outside the contract, as a request may carry
  Sid,           \* session ids, Uuid::new_v4: each is used once
  Conn,          \* audio WebSockets, in the order they are accepted
  MaxSessions,   \* HubConfig.max_sessions
  NoGrant, NoConn

SessionRecord == [profile : Profile, endpoint : Endpoint, channel : Channel]

MixEndpoint == (Endpoint \cup {NilEndpoint}) \X Channel

MicEndpoints == {NilEndpoint} \X Channel

ASSUME SessionsAssumption ==
  /\ IsFiniteSet(Sid)
  /\ MaxSessions \in Nat
  /\ NilEndpoint \notin Endpoint
  /\ BadChannel \notin Channel
  /\ NoGrant \notin SessionRecord \cup [profile : Profile, channel : Channel]
  /\ NoConn \notin Conn

VARIABLES
  grant,     \* session id -> the record it was admitted with, or NoGrant
  live,      \* the keys of the sessions map
  expired,   \* the sessions whose expires_at has passed
  clients,   \* the audio_clients map: session id -> connection, or NoConn
  mixer,     \* the MixEndpoints registered with the ClockedMixer
  queued,    \* MixEndpoint -> the sessions whose frames its input queue holds
  sweep,     \* the ids revoke_all_sessions has still to revoke
  pc,        \* where each connection's handler stands
  sid,       \* the session it authenticated as, NoGrant before that
  closed,    \* the connections whose DownlinkQueue has been closed
  inbox,     \* the connections whose DownlinkQueue holds a frame
  count      \* metrics.authenticated_audio_connections

tableVars == <<live, clients, mixer, queued, closed, inbox>>
vars == <<grant, live, expired, clients, mixer, queued, sweep,
          pc, sid, closed, inbox, count>>

-----------------------------------------------------------------------------
(* The handler of a connection holds an audio client in these states; the  *)
(* status counter includes it in the Counted ones.  Streaming is the select*)
(* of reader and writer: "waiting" and "sending" are the writer's awaits.  *)

Streaming == {"waiting", "took", "sending"}
Counted == {"greeting"} \cup Streaming \cup {"closing"}
Serving == {"inserted"} \cup Counted \cup {"revoking"}
Place == {"idle", "expired", "authenticated", "done"} \cup Serving

Ep(s) == <<grant[s].endpoint, grant[s].channel>>

Init ==
  /\ grant = [s \in Sid |-> NoGrant]
  /\ live = {}
  /\ expired = {}
  /\ clients = [s \in Sid |-> NoConn]
  /\ mixer = MicEndpoints
  /\ queued = [m \in MixEndpoint |-> {}]
  /\ sweep = {}
  /\ pc = [c \in Conn |-> "idle"]
  /\ sid = [c \in Conn |-> NoGrant]
  /\ closed = {}
  /\ inbox = {}
  /\ count = 0

-----------------------------------------------------------------------------
(* The part of a removal that revoke_session and the replacement loop of   *)
(* admit_session share: for each session of S the client is dropped and its*)
(* queue closed and cleared, and its endpoint leaves the mixer with its    *)
(* input queue.                                                            *)

QueuesOf(S) == {clients[s] : s \in S} \ {NoConn}

(* Mutant: the client is dropped and its queue cleared, but never closed.   *)
DropSessionsLeavingQueuesOpen(S) ==
  /\ clients' = [s \in Sid |-> IF s \in S THEN NoConn ELSE clients[s]]
  /\ inbox' = inbox \ QueuesOf(S)
  /\ queued' = [m \in MixEndpoint |-> IF \E s \in S : m = Ep(s) THEN {} ELSE queued[m]]
  /\ UNCHANGED closed

DropSessions(S) ==
  /\ clients' = [s \in Sid |-> IF s \in S THEN NoConn ELSE clients[s]]
  /\ closed' = closed \cup QueuesOf(S)
  /\ inbox' = inbox \ QueuesOf(S)
  /\ queued' = [m \in MixEndpoint |-> IF \E s \in S : m = Ep(s) THEN {} ELSE queued[m]]

Unregistered(S) == mixer \ {Ep(s) : s \in S}

RevokeSession(s) ==
  IF s \in live
  THEN /\ DropSessions({s})
       /\ live' = live \ {s}
       /\ mixer' = Unregistered({s})
  ELSE UNCHANGED tableVars

-----------------------------------------------------------------------------
(* Admission: one critical section of the sessions lock.                   *)

(* Mutant: any profile may renew an endpoint.                               *)
EndpointConflictForgotten(p, e) == e = NilEndpoint

EndpointConflict(p, e) ==
  \/ e = NilEndpoint
  \/ \E s \in live : grant[s].endpoint = e /\ grant[s].profile # p

(* Mutant: a new session replaces every session of its profile.             *)
ReplacedByProfile(p, e) == {s \in live : grant[s].profile = p}

Replaced(p, e) == {s \in live : grant[s].profile = p /\ grant[s].endpoint = e}

(* Mutant: the limit is compared with the sessions before the replacement.  *)
CapacityReachedEarly(p, e) ==
  /\ Cardinality(live) >= MaxSessions
  /\ live' = live \ Replaced(p, e)
  /\ mixer' = Unregistered(Replaced(p, e))
  /\ UNCHANGED grant

CapacityReached(p, e) ==
  /\ Cardinality(live \ Replaced(p, e)) >= MaxSessions
  /\ live' = live \ Replaced(p, e)
  /\ mixer' = Unregistered(Replaced(p, e))
  /\ UNCHANGED grant

(* Mutant: the new endpoint is registered before the old one is removed.    *)
AdmittedThenUnregistered(p, e, ch, s) ==
  /\ Cardinality(live \ Replaced(p, e)) < MaxSessions
  /\ grant[s] = NoGrant
  /\ grant' = [grant EXCEPT ![s] = [profile |-> p, endpoint |-> e, channel |-> ch]]
  /\ live' = (live \ Replaced(p, e)) \cup {s}
  /\ mixer' = (mixer \cup {<<e, ch>>}) \ {Ep(t) : t \in Replaced(p, e)}

Admitted(p, e, ch, s) ==
  /\ Cardinality(live \ Replaced(p, e)) < MaxSessions
  /\ grant[s] = NoGrant
  /\ grant' = [grant EXCEPT ![s] = [profile |-> p, endpoint |-> e, channel |-> ch]]
  /\ live' = (live \ Replaced(p, e)) \cup {s}
  /\ mixer' = Unregistered(Replaced(p, e)) \cup {<<e, ch>>}

(* Mutant: the channel of the request is not validated.                     *)
AdmitAnyChannel(p, e, ch) ==
  /\ ~EndpointConflict(p, e)
  /\ DropSessions(Replaced(p, e))
  /\ \/ CapacityReached(p, e)
     \/ \E s \in Sid : Admitted(p, e, ch, s)
  /\ UNCHANGED <<expired, sweep, pc, sid, count>>

AdmitSession(p, e, ch) ==
  /\ ch # BadChannel
  /\ ~EndpointConflict(p, e)
  /\ DropSessions(Replaced(p, e))
  /\ \/ CapacityReached(p, e)
     \/ \E s \in Sid : Admitted(p, e, ch, s)
  /\ UNCHANGED <<expired, sweep, pc, sid, count>>

(* The 30 minutes of SESSION_TTL pass; nothing in the hub reacts to it.    *)
Expire(s) ==
  /\ s \in live \ expired
  /\ expired' = expired \cup {s}
  /\ UNCHANGED <<grant, tableVars, sweep, pc, sid, count>>

-----------------------------------------------------------------------------
(* The emergency stop reads the keys under the lock and then revokes them  *)
(* one by one, taking the lock again for each.                             *)

RevokeAllSessions ==
  /\ sweep = {}
  /\ sweep' = live
  /\ UNCHANGED <<grant, expired, tableVars, pc, sid, count>>

(* Mutant: the loop ends after the first session it revokes.                *)
RevokeFirst ==
  \E s \in sweep :
    /\ RevokeSession(s)
    /\ sweep' = {}
    /\ UNCHANGED <<grant, expired, pc, sid, count>>

RevokeNext ==
  \E s \in sweep :
    /\ RevokeSession(s)
    /\ sweep' = sweep \ {s}
    /\ UNCHANGED <<grant, expired, pc, sid, count>>

-----------------------------------------------------------------------------
(* An audio connection.  authenticate clones the record under the lock and *)
(* judges it after the unlock; the expired branch takes the lock again.    *)
(* An unknown id or a wrong secret, like a handshake that fails, ends the  *)
(* connection and changes nothing else.                                    *)

Goto(c, place) == pc' = [pc EXCEPT ![c] = place]

Authenticate(c, s, secretMatches) ==
  /\ pc[c] = "idle"
  /\ IF s \in live
     THEN /\ sid' = [sid EXCEPT ![c] = s]
          /\ IF s \in expired THEN Goto(c, "expired")
             ELSE IF secretMatches THEN Goto(c, "authenticated")
             ELSE Goto(c, "done")
     ELSE Goto(c, "done") /\ UNCHANGED sid
  /\ UNCHANGED <<grant, tableVars, expired, sweep, count>>

RevokeExpired(c) ==
  /\ pc[c] = "expired"
  /\ RevokeSession(sid[c])
  /\ Goto(c, "done")
  /\ UNCHANGED <<grant, expired, sweep, sid, count>>

(* Under the sessions and clients locks: the session may have gone since   *)
(* authenticate, and another connection may already serve it.              *)
(* Mutants: the session is not looked up again; a second client is let in.  *)
MayInsertUnchecked(c) == clients[sid[c]] = NoConn
MayInsertTwice(c) == sid[c] \in live

MayInsert(c) == sid[c] \in live /\ clients[sid[c]] = NoConn

InsertClient(c) ==
  /\ pc[c] = "authenticated"
  /\ IF MayInsert(c)
     THEN /\ clients' = [clients EXCEPT ![sid[c]] = c]
          /\ Goto(c, "inserted")
     ELSE Goto(c, "done") /\ UNCHANGED clients
  /\ UNCHANGED <<grant, live, expired, mixer, queued, sweep, sid, closed, inbox, count>>

CountConnection(c) ==
  /\ pc[c] = "inserted"
  /\ count' = count + 1
  /\ Goto(c, "greeting")
  /\ UNCHANGED <<grant, expired, tableVars, sweep, sid>>

(* Sending AUDIO_READY: a failure leaves handle_connection through `?`.    *)
Greet(c) ==
  /\ pc[c] = "greeting"
  /\ \/ Goto(c, "waiting")
     \/ Goto(c, "done")
  /\ UNCHANGED <<grant, expired, tableVars, sweep, sid, count>>

(* The reader runs while the writer awaits.  process_audio_frame judges a  *)
(* frame against the clone, then checks the session under the lock and     *)
(* enqueues for the clone's endpoint if the mixer knows it.                *)
(* Mutant: the session is not looked up again under the lock.               *)
ProcessAudioFrameUnchecked(c) ==
  /\ pc[c] \in {"waiting", "sending"}
  /\ Ep(sid[c]) \in mixer
  /\ queued' = [queued EXCEPT ![Ep(sid[c])] = @ \cup {sid[c]}]
  /\ UNCHANGED <<grant, live, expired, clients, mixer, sweep, pc, sid, closed, inbox, count>>

ProcessAudioFrame(c) ==
  /\ pc[c] \in {"waiting", "sending"}
  /\ sid[c] \in live
  /\ Ep(sid[c]) \in mixer
  /\ queued' = [queued EXCEPT ![Ep(sid[c])] = @ \cup {sid[c]}]
  /\ UNCHANGED <<grant, live, expired, clients, mixer, sweep, pc, sid, closed, inbox, count>>

ReaderEnds(c) ==
  /\ pc[c] \in {"waiting", "sending"}
  /\ Goto(c, "closing")
  /\ UNCHANGED <<grant, expired, tableVars, sweep, sid, count>>

(* The writer: recv yields a frame, or None once the queue is closed.      *)
Recv(c) ==
  /\ pc[c] = "waiting"
  /\ \/ /\ c \in inbox
        /\ \E drained \in SUBSET {c} : inbox' = inbox \ drained
        /\ Goto(c, "took")
     \/ /\ c \notin inbox
        /\ c \in closed
        /\ Goto(c, "closing")
        /\ UNCHANGED inbox
  /\ UNCHANGED <<grant, live, expired, clients, mixer, queued, sweep, sid, closed, count>>

CheckSession(c) ==
  /\ pc[c] = "took"
  /\ Goto(c, IF sid[c] \in live THEN "sending" ELSE "closing")
  /\ UNCHANGED <<grant, expired, tableVars, sweep, sid, count>>

(* The send completes, or fails, or runs into its 250 ms timeout.          *)
Send(c) ==
  /\ pc[c] = "sending"
  /\ \/ Goto(c, "waiting")
     \/ Goto(c, "closing")
  /\ UNCHANGED <<grant, expired, tableVars, sweep, sid, count>>

(* After the select: the counter, then the session this handler was for.   *)
UncountConnection(c) ==
  /\ pc[c] = "closing"
  /\ count' = IF count > 0 THEN count - 1 ELSE 0
  /\ Goto(c, "revoking")
  /\ UNCHANGED <<grant, expired, tableVars, sweep, sid>>

(* Mutants: the count is lowered a second time; the session is kept.        *)
RevokeOwnAndUncount(c) ==
  /\ pc[c] = "revoking"
  /\ RevokeSession(sid[c])
  /\ count' = IF count > 0 THEN count - 1 ELSE 0
  /\ Goto(c, "done")
  /\ UNCHANGED <<grant, expired, sweep, sid>>

KeepOwn(c) ==
  /\ pc[c] = "revoking"
  /\ Goto(c, "done")
  /\ UNCHANGED <<grant, expired, tableVars, sweep, sid, count>>

RevokeOwn(c) ==
  /\ pc[c] = "revoking"
  /\ RevokeSession(sid[c])
  /\ Goto(c, "done")
  /\ UNCHANGED <<grant, expired, sweep, sid, count>>

-----------------------------------------------------------------------------
(* mix_tick, under the sessions, clients and mixer locks: every client of a*)
(* live session is sent a frame, which a closed queue ignores; advancing   *)
(* the inputs may empty any of their queues.                               *)
Listeners == {clients[s] : s \in {t \in live : clients[t] # NoConn}}

MixTick ==
  /\ inbox' = inbox \cup (Listeners \ closed)
  /\ \E drained \in SUBSET {m \in mixer : queued[m] # {}} :
       queued' = [m \in MixEndpoint |-> IF m \in drained THEN {} ELSE queued[m]]
  /\ UNCHANGED <<grant, live, expired, clients, mixer, sweep, pc, sid, closed, count>>

-----------------------------------------------------------------------------
Writer(c) == Recv(c) \/ CheckSession(c) \/ Send(c)

Handler(c) ==
  \/ RevokeExpired(c) \/ InsertClient(c) \/ CountConnection(c) \/ Greet(c)
  \/ Writer(c)
  \/ UncountConnection(c) \/ RevokeOwn(c)

Next ==
  \/ \E p \in Profile, e \in Endpoint \cup {NilEndpoint}, ch \in Channel \cup {BadChannel} :
       AdmitSession(p, e, ch)
  \/ \E s \in Sid : Expire(s)
  \/ RevokeAllSessions
  \/ RevokeNext
  \/ \E c \in Conn, s \in Sid, ok \in BOOLEAN : Authenticate(c, s, ok)
  \/ \E c \in Conn : Handler(c) \/ ProcessAudioFrame(c) \/ ReaderEnds(c)
  \/ MixTick

Spec == Init /\ [][Next]_vars

(* A handler that can go on does: its steps are code between awaits of the *)
(* runtime, a write to a socket that completes or fails, and a send that   *)
(* its timeout ends.  So does the loop of the emergency stop.  Nobody is   *)
(* obliged to request a session, to connect, to speak or to hang up.       *)
FairSpec ==
  /\ Spec
  /\ \A c \in Conn : WF_vars(Handler(c))
  /\ WF_vars(RevokeNext)
-----------------------------------------------------------------------------
(* Types.  Live sessions have a record, and a handler past authentication  *)
(* knows the session it is for.                                            *)
TypeOK ==
  /\ grant \in [Sid -> SessionRecord \cup {NoGrant}]
  /\ live \subseteq {s \in Sid : grant[s] # NoGrant}
  /\ expired \in SUBSET Sid
  /\ clients \in [Sid -> Conn \cup {NoConn}]
  /\ mixer \in SUBSET MixEndpoint
  /\ queued \in [MixEndpoint -> SUBSET Sid]
  /\ sweep \in SUBSET Sid
  /\ pc \in [Conn -> Place]
  /\ sid \in [Conn -> Sid \cup {NoGrant}]
  /\ \A c \in Conn :
       pc[c] \in Serving \cup {"expired", "authenticated"} =>
         sid[c] \in Sid /\ grant[sid[c]] # NoGrant
  /\ closed \in SUBSET Conn
  /\ inbox \in SUBSET Conn
  /\ count \in Nat

(* Two live sessions never share an endpoint, whoever asked for them in    *)
(* whatever order: so a tab is mixed once, and has one owner               *)
(* (admit_session's conflict test and replacement).                        *)
EndpointOwnership ==
  \A s, t \in live : grant[s].endpoint = grant[t].endpoint => s = t

(* The mixer knows exactly the live sessions' endpoints and the three      *)
(* microphone endpoints: a replacement, a late cleanup of an old connection*)
(* or a revocation neither leaves a dead participant in the mix nor takes  *)
(* a live one (or the microphone) out of it.                               *)
MixerMatchesSessions == mixer = MicEndpoints \cup {Ep(s) : s \in live}

(* A client entry belongs to a live session, and is the connection that    *)
(* authenticated for it; the queue of a connection is closed exactly when  *)
(* its session has been removed, so no removed session keeps a connection  *)
(* that nothing will ever wake.                                            *)
ClientTableConsistent ==
  /\ \A s \in Sid : clients[s] # NoConn =>
       s \in live /\ sid[clients[s]] = s /\ clients[s] \notin closed
  /\ \A c \in Conn : pc[c] \in Serving =>
       IF sid[c] \in live THEN clients[sid[c]] = c ELSE c \in closed

(* Two handlers never serve one session, although they authenticate before *)
(* either takes the lock to insert its client.                             *)
OneConnectionPerSession ==
  \A c, d \in Conn :
    pc[c] \in Serving /\ pc[d] \in Serving /\ sid[c] = sid[d] => c = d

(* An input queue of the mixer holds only frames of the live session that  *)
(* owns the endpoint: a reader that still runs for a replaced session does *)
(* not speak into its successor's queue, and a removal discards what was   *)
(* pending.                                                                *)
QueuesHoldLiveAudio ==
  \A m \in MixEndpoint : \A s \in queued[m] : s \in live /\ Ep(s) = m

(* The status count never reports fewer connections than are being served, *)
(* so its saturating subtraction never saturates.                          *)
CountCoversConnections ==
  Cardinality({c \in Conn : pc[c] \in Counted}) <= count

(* max_sessions is never exceeded.                                         *)
CapacityRespected == Cardinality(live) <= MaxSessions

(* An admission that changes anything admits a session: the capacity error *)
(* is never returned after the replacement loop has removed the caller's   *)
(* previous session.                                                       *)
FailedAdmissionChangesNothing ==
  [][(\E p \in Profile, e \in Endpoint, ch \in Channel : AdmitSession(p, e, ch))
       => live' \ live # {}]_vars

(* The session table implements the registry of bridges.                   *)
BridgeOf(e) ==
  IF \E s \in live : grant[s].endpoint = e
  THEN LET s == CHOOSE t \in live : grant[t].endpoint = e
       IN [profile |-> grant[s].profile, channel |-> grant[s].channel]
  ELSE NoGrant

Registry == INSTANCE BridgeRegistry WITH
  MaxBridges <- MaxSessions,
  NoBridge <- NoGrant,
  bridge <- [e \in Endpoint |-> BridgeOf(e)],
  listening <- {grant[s].endpoint : s \in {t \in live : clients[t] # NoConn}}

(* Every behaviour of admissions, connections, revocations and emergency   *)
(* stops is one of grants, listeners and releases of single endpoints: an  *)
(* endpoint changes owner only through a release, and a renewal always     *)
(* ends the connection of the session it replaces.                         *)
RegistryImplemented == Registry!Spec

(* A connection whose session was removed (replaced, revoked, stopped)     *)
(* ends: its queue was closed, so its writer wakes and sees it.            *)
RevokedConnectionCloses ==
  \A c \in Conn : (pc[c] \in Serving /\ sid[c] \notin live) ~> pc[c] = "done"

(* Every session that was live when the emergency stop was pressed goes,   *)
(* whatever is admitted, replaced or revoked while its loop runs.          *)
SweepRevokesAll == \A s \in Sid : s \in sweep ~> s \notin live

(* When the reader or the writer of a connection ends, its session is      *)
(* released and its endpoint leaves the mix.                               *)
HangUpReleasesSession ==
  \A c \in Conn : pc[c] = "closing" ~> sid[c] \notin live

(* What tests/websocket_audio.rs says of the hub: "closed audio sockets    *)
(* must release mixer sessions".                                           *)
ClosedSocketReleasesSession ==
  \A s \in Sid : clients[s] # NoConn => pc[clients[s]] # "done"
=============================================================================
