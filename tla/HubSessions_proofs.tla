------------------------- MODULE HubSessions_proofs -------------------------
(***************************************************************************)
(* Proofs about HubSessions for every value of its constants: its types,   *)
(* the inductive invariant from which the ownership of endpoints, the      *)
(* contents of the mixer and of its queues and the consistency of the      *)
(* client table follow, the capacity bound, the count of connections, and  *)
(* that the session table implements BridgeRegistry.                       *)
(***************************************************************************)
EXTENDS HubSessions, FiniteSetTheorems, TLAPS

(* The shape of DropSessions' effect on types, used by every removal.       *)
LEMMA DropSessionsType ==
  ASSUME TypeOK, NEW S \in SUBSET Sid, DropSessions(S)
  PROVE  /\ clients' \in [Sid -> Conn \cup {NoConn}]
         /\ closed' \in SUBSET Conn
         /\ inbox' \in SUBSET Conn
         /\ queued' \in [MixEndpoint -> SUBSET Sid]
<1>1. QueuesOf(S) \in SUBSET Conn
  BY DEF TypeOK, QueuesOf
<1> QED
  BY <1>1 DEF TypeOK, DropSessions

(* revoke_session keeps the types of everything it touches.                 *)
LEMMA RevokeSessionType ==
  ASSUME TypeOK, NEW s \in Sid, RevokeSession(s), UNCHANGED grant
  PROVE  /\ live' \subseteq {t \in Sid : grant[t] # NoGrant}
         /\ clients' \in [Sid -> Conn \cup {NoConn}]
         /\ closed' \in SUBSET Conn
         /\ inbox' \in SUBSET Conn
         /\ queued' \in [MixEndpoint -> SUBSET Sid]
         /\ mixer' \in SUBSET MixEndpoint
<1>1. CASE s \in live
  BY <1>1, DropSessionsType, {s} \in SUBSET Sid DEF RevokeSession, TypeOK, Unregistered
<1>2. CASE s \notin live
  BY <1>2 DEF RevokeSession, TypeOK, tableVars
<1> QED
  BY <1>1, <1>2

LEMMA TypeInit == Init => TypeOK
  BY SessionsAssumption
  DEF Init, TypeOK, Place, Serving, Counted, Streaming, MixEndpoint, MicEndpoints

LEMMA TypeStep == TypeOK /\ [Next]_vars => TypeOK'
<1> SUFFICES ASSUME TypeOK, [Next]_vars PROVE TypeOK'
  OBVIOUS
<1> USE DEF Place, Serving, Counted, Streaming
<1>1. ASSUME NEW p \in Profile, NEW e \in Endpoint \cup {NilEndpoint},
             NEW ch \in Channel \cup {BadChannel}, AdmitSession(p, e, ch)
      PROVE  TypeOK'
  <2>1. Replaced(p, e) \in SUBSET Sid /\ Replaced(p, e) \subseteq live
    BY DEF Replaced, TypeOK
  <2>2. e \in Endpoint /\ ch \in Channel
    BY <1>1 DEF AdmitSession, EndpointConflict
  <2>3. CASE CapacityReached(p, e)
    BY <1>1, <2>1, <2>3, DropSessionsType
    DEF AdmitSession, CapacityReached, TypeOK, Unregistered
  <2>4. ASSUME NEW s \in Sid, Admitted(p, e, ch, s)
        PROVE  TypeOK'
    <3>1. grant' \in [Sid -> SessionRecord \cup {NoGrant}]
      BY <2>2, <2>4 DEF Admitted, TypeOK, SessionRecord
    <3>2. \A t \in Sid : grant[t] # NoGrant => grant'[t] # NoGrant
      BY <2>2, <2>4, SessionsAssumption DEF Admitted, TypeOK, SessionRecord
    <3>3. grant'[s] # NoGrant
      BY <2>2, <2>4, SessionsAssumption DEF Admitted, TypeOK, SessionRecord
    <3>4. live' \subseteq {t \in Sid : grant'[t] # NoGrant}
      BY <2>4, <3>2, <3>3 DEF Admitted, TypeOK
    <3>5. mixer' \in SUBSET MixEndpoint
      BY <2>2, <2>4 DEF Admitted, TypeOK, Unregistered, MixEndpoint
    <3>6. \A c \in Conn : pc'[c] \in Serving \cup {"expired", "authenticated"} =>
            sid'[c] \in Sid /\ grant'[sid'[c]] # NoGrant
      BY <1>1, <3>2 DEF AdmitSession, TypeOK
    <3> QED
      BY <1>1, <2>1, <3>1, <3>4, <3>5, <3>6, DropSessionsType DEF AdmitSession, TypeOK
  <2> QED
    BY <1>1, <2>3, <2>4 DEF AdmitSession
<1>2. ASSUME NEW s \in Sid, Expire(s) PROVE TypeOK'
  BY <1>2 DEF Expire, TypeOK, tableVars
<1>3. CASE RevokeAllSessions
  BY <1>3 DEF RevokeAllSessions, TypeOK, tableVars
<1>4. CASE RevokeNext
  BY <1>4, RevokeSessionType DEF RevokeNext, TypeOK
<1>5. ASSUME NEW c \in Conn, NEW s \in Sid, NEW ok \in BOOLEAN, Authenticate(c, s, ok)
      PROVE  TypeOK'
  BY <1>5 DEF Authenticate, Goto, TypeOK, tableVars
<1>6. ASSUME NEW c \in Conn, RevokeExpired(c) PROVE TypeOK'
  BY <1>6, RevokeSessionType DEF RevokeExpired, Goto, TypeOK
<1>7. ASSUME NEW c \in Conn, InsertClient(c) PROVE TypeOK'
  BY <1>7 DEF InsertClient, MayInsert, Goto, TypeOK
<1>8. ASSUME NEW c \in Conn, CountConnection(c) PROVE TypeOK'
  BY <1>8 DEF CountConnection, Goto, TypeOK, tableVars
<1>9. ASSUME NEW c \in Conn, Greet(c) PROVE TypeOK'
  BY <1>9 DEF Greet, Goto, TypeOK, tableVars
<1>10. ASSUME NEW c \in Conn, Writer(c) PROVE TypeOK'
  BY <1>10 DEF Writer, Recv, CheckSession, Send, Goto, TypeOK, tableVars
<1>11. ASSUME NEW c \in Conn, UncountConnection(c) PROVE TypeOK'
  BY <1>11 DEF UncountConnection, Goto, TypeOK, tableVars
<1>12. ASSUME NEW c \in Conn, RevokeOwn(c) PROVE TypeOK'
  BY <1>12, RevokeSessionType DEF RevokeOwn, Goto, TypeOK
<1>13. ASSUME NEW c \in Conn, ProcessAudioFrame(c) PROVE TypeOK'
  BY <1>13 DEF ProcessAudioFrame, TypeOK
<1>14. ASSUME NEW c \in Conn, ReaderEnds(c) PROVE TypeOK'
  BY <1>14 DEF ReaderEnds, Goto, TypeOK, tableVars
<1>15. CASE MixTick
  BY <1>15 DEF MixTick, Listeners, TypeOK
<1>16. CASE UNCHANGED vars
  BY <1>16 DEF vars, tableVars, TypeOK
<1> QED
  BY <1>1, <1>2, <1>3, <1>4, <1>5, <1>6, <1>7, <1>8, <1>9, <1>10, <1>11,
     <1>12, <1>13, <1>14, <1>15, <1>16
  DEF Next, Handler

(* Every reachable state is well typed: in particular no session is ever    *)
(* admitted for the nil endpoint or for a channel outside the contract, and *)
(* no handler uses a session id before it authenticated.                    *)
THEOREM TypeCorrect == Spec => []TypeOK
  BY TypeInit, TypeStep, PTL DEF Spec
-----------------------------------------------------------------------------
(* The inductive invariant has two halves.  The table half relates live,    *)
(* mixer and queued; the client half relates clients, closed and the places *)
(* of the handlers.  HandlerOrder is the strengthening that makes the client*)
(* half inductive: only a handler that got as far as inserting its client   *)
(* can be in the map or have its queue closed.                              *)
TableInv == EndpointOwnership /\ MixerMatchesSessions /\ QueuesHoldLiveAudio

HandlerOrder ==
  /\ \A s \in Sid : clients[s] # NoConn => pc[clients[s]] \in Serving \cup {"done"}
  /\ \A c \in Conn : pc[c] \notin Serving \cup {"done"} => c \notin closed

ClientInv == ClientTableConsistent /\ OneConnectionPerSession /\ HandlerOrder

IInv == TypeOK /\ TableInv /\ ClientInv

(* Live sessions are mixed under distinct endpoints, never the microphone's.*)
LEMMA LiveEndpointsDistinct ==
  ASSUME TypeOK, EndpointOwnership
  PROVE  /\ \A s \in live : Ep(s) \in MixEndpoint /\ Ep(s) \notin MicEndpoints
         /\ \A s, t \in live : Ep(s) = Ep(t) => s = t
<1>1. \A s \in live : grant[s] \in SessionRecord
  BY DEF TypeOK
<1>2. \A s \in live : grant[s].endpoint \in Endpoint /\ grant[s].channel \in Channel
  BY <1>1 DEF SessionRecord
<1>3. \A s, t \in live : Ep(s) = Ep(t) => grant[s].endpoint = grant[t].endpoint
  BY DEF Ep
<1> QED
  BY <1>2, <1>3, SessionsAssumption DEF EndpointOwnership, Ep, MixEndpoint, MicEndpoints

(* Removing live sessions keeps the table half: each takes only its own     *)
(* registration and its own queue away.                                     *)
LEMMA RemovalKeepsTable ==
  ASSUME TypeOK, TableInv, NEW S \in SUBSET live, DropSessions(S),
         live' = live \ S, mixer' = Unregistered(S), UNCHANGED grant
  PROVE  TableInv'
<1>1. \A s \in Sid : Ep(s)' = Ep(s)
  BY DEF Ep
<1>2. EndpointOwnership'
  BY DEF TableInv, EndpointOwnership
<1>3. MixerMatchesSessions'
  <2>1. mixer' = MicEndpoints \cup {Ep(s) : s \in live'}
    BY LiveEndpointsDistinct DEF TableInv, MixerMatchesSessions, Unregistered
  <2> QED
    BY <2>1 DEF MixerMatchesSessions, Ep, MicEndpoints
<1>4. QueuesHoldLiveAudio'
  <2> SUFFICES ASSUME NEW m \in MixEndpoint, NEW s \in queued'[m]
               PROVE  s \in live' /\ Ep(s)' = m
    BY DEF QueuesHoldLiveAudio, MixEndpoint
  <2>1. s \in queued[m] /\ ~(\E t \in S : m = Ep(t))
    BY DEF DropSessions
  <2> QED
    BY <2>1, <1>1 DEF TableInv, QueuesHoldLiveAudio, TypeOK
<1> QED
  BY <1>2, <1>3, <1>4 DEF TableInv

(* It keeps the client half too, while handlers stay or finish.             *)
LEMMA RemovalKeepsClients ==
  ASSUME TypeOK, ClientInv, NEW S \in SUBSET live, DropSessions(S),
         live' = live \ S, UNCHANGED sid,
         \A c \in Conn : pc'[c] = pc[c] \/ pc'[c] = "done"
  PROVE  ClientInv'
<1> USE DEF Serving, Counted, Streaming
<1>1. \A c \in Conn : c \in closed' <=> c \in closed \/ (\E s \in S : clients[s] = c)
  BY SessionsAssumption DEF DropSessions, QueuesOf
<1>2. \A s \in Sid : clients'[s] # NoConn => s \notin S /\ clients'[s] = clients[s]
  BY DEF DropSessions
<1>3. ClientTableConsistent'
  <2>1. \A s \in Sid : clients'[s] # NoConn =>
          s \in live' /\ sid'[clients'[s]] = s /\ clients'[s] \notin closed'
    BY <1>1, <1>2 DEF ClientInv, ClientTableConsistent, TypeOK
  <2>2. ASSUME NEW c \in Conn, pc'[c] \in Serving
        PROVE  IF sid'[c] \in live' THEN clients'[sid'[c]] = c ELSE c \in closed'
    <3>1. pc[c] \in Serving /\ sid[c] \in Sid
      BY <2>2 DEF TypeOK
    <3>2. CASE sid[c] \in live \ S
      BY <3>1, <3>2 DEF ClientInv, ClientTableConsistent, DropSessions
    <3>3. CASE sid[c] \in S
      BY <3>1, <3>3, <1>1 DEF ClientInv, ClientTableConsistent
    <3>4. CASE sid[c] \notin live
      BY <3>1, <3>4, <1>1 DEF ClientInv, ClientTableConsistent
    <3> QED
      BY <3>2, <3>3, <3>4
  <2> QED
    BY <2>1, <2>2 DEF ClientTableConsistent
<1>4. OneConnectionPerSession'
  BY DEF ClientInv, OneConnectionPerSession
<1>5. HandlerOrder'
  <2>1. \A s \in Sid : clients'[s] # NoConn => pc'[clients'[s]] \in Serving \cup {"done"}
    BY <1>2 DEF ClientInv, HandlerOrder, TypeOK
  <2>2. \A s \in S : s \in Sid
    BY DEF TypeOK
  <2>3. \A c \in Conn : pc'[c] \notin Serving \cup {"done"} => c \notin closed'
    BY <1>1, <2>2, SessionsAssumption DEF ClientInv, HandlerOrder
  <2> QED
    BY <2>1, <2>3 DEF HandlerOrder
<1> QED
  BY <1>3, <1>4, <1>5 DEF ClientInv

(* A handler that already serves its session may move on or finish.         *)
LEMMA ServingMoveKeepsClients ==
  ASSUME TypeOK, ClientInv, UNCHANGED <<live, clients, closed, sid>>,
         \A c \in Conn : pc'[c] = pc[c]
           \/ (pc[c] \in Serving /\ pc'[c] \in Serving \cup {"done"})
  PROVE  ClientInv'
  BY DEF ClientInv, ClientTableConsistent, OneConnectionPerSession, HandlerOrder,
         Serving, Counted, Streaming, TypeOK

LEMMA PlacesUnchanged ==
  ASSUME ClientInv, UNCHANGED <<live, clients, closed, sid, pc>>
  PROVE  ClientInv'
  BY DEF ClientInv, ClientTableConsistent, OneConnectionPerSession, HandlerOrder

(* The same for one handler c, whose place is known before and after.       *)
LEMMA OneServingMove ==
  ASSUME TypeOK, ClientInv, UNCHANGED <<live, clients, closed, sid>>,
         NEW c \in Conn, NEW place \in Serving \cup {"done"}, Goto(c, place),
         pc[c] \in Serving
  PROVE  ClientInv'
<1>1. pc'[c] = place /\ \A d \in Conn \ {c} : pc'[d] = pc[d]
  BY DEF Goto, TypeOK
<1>2. \A d \in Conn : pc'[d] = pc[d]
        \/ (pc[d] \in Serving /\ pc'[d] \in Serving \cup {"done"})
  BY <1>1
<1> QED
  BY <1>2, ServingMoveKeepsClients

LEMMA TableUnchanged ==
  ASSUME TableInv, UNCHANGED <<grant, live, mixer, queued>>
  PROVE  TableInv'
  BY DEF TableInv, EndpointOwnership, MixerMatchesSessions, QueuesHoldLiveAudio, Ep

(* revoke_session, whoever calls it and whether or not the session is live. *)
LEMMA RevokeKeepsInv ==
  ASSUME TypeOK, TableInv, ClientInv, NEW s \in Sid, RevokeSession(s),
         UNCHANGED <<grant, sid>>,
         \A c \in Conn : pc'[c] = pc[c] \/ pc'[c] = "done"
  PROVE  TableInv' /\ ClientInv'
<1>1. CASE s \in live
  BY <1>1, RemovalKeepsTable, RemovalKeepsClients, {s} \in SUBSET live DEF RevokeSession
<1>2. CASE s \notin live
  <2>1. UNCHANGED tableVars
    BY <1>2 DEF RevokeSession
  <2>2. TableInv'
    BY <2>1, TableUnchanged DEF tableVars
  <2>3. ClientInv'
    BY <2>1 DEF tableVars, ClientInv, ClientTableConsistent, OneConnectionPerSession,
                HandlerOrder, Serving, Counted, Streaming, TypeOK
  <2> QED
    BY <2>2, <2>3
<1> QED
  BY <1>1, <1>2

(* A new session joins the table with a fresh id, an endpoint that nobody   *)
(* else holds once the replaced sessions are gone, and no client yet.       *)
LEMMA AdmittedKeepsInv ==
  ASSUME TypeOK, TableInv, ClientInv,
         NEW p \in Profile, NEW e \in Endpoint, NEW ch \in Channel, NEW s \in Sid,
         ~EndpointConflict(p, e), DropSessions(Replaced(p, e)), Admitted(p, e, ch, s),
         UNCHANGED <<pc, sid>>
  PROVE  TableInv' /\ ClientInv'
<1> DEFINE S == Replaced(p, e)
           new == [profile |-> p, endpoint |-> e, channel |-> ch]
<1>1. S \in SUBSET live /\ S \in SUBSET Sid
  BY DEF Replaced, TypeOK
<1>2. s \notin live
  BY DEF Admitted, TypeOK
<1>3. grant'[s] = new /\ \A t \in Sid \ {s} : grant'[t] = grant[t]
  BY DEF Admitted, TypeOK
<1>4. Ep(s)' = <<e, ch>> /\ \A t \in live : Ep(t)' = Ep(t)
  BY <1>2, <1>3 DEF Ep, TypeOK
<1>5. \A t \in live \ S : grant[t].endpoint # e
  BY DEF Replaced, EndpointConflict
<1>6. live' = (live \ S) \cup {s}
  BY DEF Admitted
<1>7. EndpointOwnership'
  BY <1>2, <1>3, <1>5, <1>6 DEF TableInv, EndpointOwnership, TypeOK
<1>8. MixerMatchesSessions'
  <2>1. mixer' = MicEndpoints \cup {Ep(t) : t \in live \ S} \cup {<<e, ch>>}
    BY LiveEndpointsDistinct, <1>1
    DEF TableInv, MixerMatchesSessions, Admitted, Unregistered
  <2>2. mixer' = MicEndpoints \cup {Ep(t)' : t \in live'}
    BY <2>1, <1>4, <1>6
  <2> QED
    BY <2>2 DEF MixerMatchesSessions, Ep, MicEndpoints
<1>9. QueuesHoldLiveAudio'
  <2> SUFFICES ASSUME NEW m \in MixEndpoint, NEW t \in queued'[m]
               PROVE  t \in live' /\ Ep(t)' = m
    BY DEF QueuesHoldLiveAudio, MixEndpoint
  <2>1. t \in queued[m] /\ ~(\E u \in S : m = Ep(u))
    BY DEF DropSessions
  <2>2. t \in live /\ Ep(t) = m
    BY <2>1 DEF TableInv, QueuesHoldLiveAudio
  <2> QED
    BY <2>1, <2>2, <1>4, <1>6
<1>10. TableInv'
  BY <1>7, <1>8, <1>9 DEF TableInv
<1>11. clients[s] = NoConn /\ \A c \in Conn : pc[c] \in Serving => sid[c] # s
  BY <1>2 DEF ClientInv, ClientTableConsistent, TypeOK, Admitted
<1>12. ClientInv'
  <2> USE DEF Serving, Counted, Streaming
  <2>1. \A c \in Conn : c \in closed' <=> c \in closed \/ (\E t \in S : clients[t] = c)
    BY SessionsAssumption DEF DropSessions, QueuesOf
  <2>2. \A t \in Sid : clients'[t] # NoConn => t \notin S /\ clients'[t] = clients[t]
    BY DEF DropSessions
  <2>3. \A t \in Sid : clients'[t] # NoConn =>
          t \in live' /\ sid'[clients'[t]] = t /\ clients'[t] \notin closed'
    <3>1. \A t \in Sid : clients'[t] # NoConn =>
            t \in live \ S /\ sid[clients[t]] = t /\ clients[t] \notin closed
      BY <2>2 DEF ClientInv, ClientTableConsistent
    <3>2. \A t \in Sid : clients'[t] # NoConn => \A u \in S : clients[u] # clients[t]
      BY <3>1, <2>2, <1>1 DEF ClientInv, ClientTableConsistent
    <3> QED
      BY <3>1, <3>2, <1>6, <2>1, <2>2 DEF TypeOK
  <2>4. ASSUME NEW c \in Conn, pc'[c] \in Serving
        PROVE  IF sid'[c] \in live' THEN clients'[sid'[c]] = c ELSE c \in closed'
    <3>1. pc[c] \in Serving /\ sid[c] \in Sid /\ sid[c] # s
      BY <2>4, <1>11 DEF TypeOK
    <3>2. CASE sid[c] \in live \ S
      BY <3>1, <3>2, <1>6 DEF ClientInv, ClientTableConsistent, DropSessions
    <3>3. CASE sid[c] \in S
      BY <3>1, <3>3, <1>1, <1>6, <2>1 DEF ClientInv, ClientTableConsistent
    <3>4. CASE sid[c] \notin live
      BY <3>1, <3>4, <1>6, <2>1 DEF ClientInv, ClientTableConsistent
    <3> QED
      BY <3>2, <3>3, <3>4
  <2>5. ClientTableConsistent'
    BY <2>3, <2>4 DEF ClientTableConsistent
  <2>6. OneConnectionPerSession'
    BY DEF ClientInv, OneConnectionPerSession
  <2>7. HandlerOrder'
    BY <2>1, <2>2, <1>1, SessionsAssumption DEF ClientInv, HandlerOrder
  <2> QED
    BY <2>5, <2>6, <2>7 DEF ClientInv
<1> QED
  BY <1>10, <1>12

-----------------------------------------------------------------------------
LEMMA InvInit == Init => IInv
<1> SUFFICES ASSUME Init PROVE IInv
  OBVIOUS
<1>1. TypeOK
  BY TypeInit
<1>2. TableInv
  BY DEF Init, TableInv, EndpointOwnership, MixerMatchesSessions, QueuesHoldLiveAudio
<1>3. ClientInv
  BY DEF Init, ClientInv, ClientTableConsistent, OneConnectionPerSession, HandlerOrder,
         Serving, Counted, Streaming
<1> QED
  BY <1>1, <1>2, <1>3 DEF IInv

LEMMA InvStep == IInv /\ [Next]_vars => IInv'
<1> SUFFICES ASSUME TypeOK, TableInv, ClientInv, [Next]_vars
             PROVE  TableInv' /\ ClientInv'
  BY TypeStep DEF IInv
<1>1. ASSUME NEW p \in Profile, NEW e \in Endpoint \cup {NilEndpoint},
             NEW ch \in Channel \cup {BadChannel}, AdmitSession(p, e, ch)
      PROVE  TableInv' /\ ClientInv'
  <2>1. Replaced(p, e) \in SUBSET live
    BY DEF Replaced
  <2>2. e \in Endpoint /\ ch \in Channel
    BY <1>1 DEF AdmitSession, EndpointConflict
  <2>3. CASE CapacityReached(p, e)
    BY <1>1, <2>1, <2>3, RemovalKeepsTable, RemovalKeepsClients
    DEF AdmitSession, CapacityReached
  <2>4. CASE \E s \in Sid : Admitted(p, e, ch, s)
    BY <1>1, <2>2, <2>4, AdmittedKeepsInv DEF AdmitSession
  <2> QED
    BY <1>1, <2>3, <2>4 DEF AdmitSession
<1>2. ASSUME NEW s \in Sid, Expire(s) PROVE TableInv' /\ ClientInv'
  BY <1>2, TableUnchanged, PlacesUnchanged DEF Expire, tableVars
<1>3. CASE RevokeAllSessions
  BY <1>3, TableUnchanged, PlacesUnchanged DEF RevokeAllSessions, tableVars
<1>4. CASE RevokeNext
  BY <1>4, RevokeKeepsInv DEF RevokeNext, TypeOK
<1>5. ASSUME NEW c \in Conn, NEW s \in Sid, NEW ok \in BOOLEAN, Authenticate(c, s, ok)
      PROVE  TableInv' /\ ClientInv'
  <2>1. TableInv'
    BY <1>5, TableUnchanged DEF Authenticate, tableVars
  <2>2. c \notin closed /\ \A t \in Sid : clients[t] # c
    BY <1>5, SessionsAssumption
    DEF Authenticate, ClientInv, HandlerOrder, Serving, Counted, Streaming
  <2>3. pc'[c] \in {"expired", "authenticated", "done"}
    BY <1>5 DEF Authenticate, Goto, TypeOK
  <2>4. \A d \in Conn \ {c} : pc'[d] = pc[d] /\ sid'[d] = sid[d]
    BY <1>5 DEF Authenticate, Goto, TypeOK
  <2>5. UNCHANGED <<live, clients, closed>>
    BY <1>5 DEF Authenticate, tableVars
  <2>6. ClientInv'
    BY <2>2, <2>3, <2>4, <2>5
    DEF ClientInv, ClientTableConsistent, OneConnectionPerSession, HandlerOrder,
        Serving, Counted, Streaming, TypeOK
  <2> QED
    BY <2>1, <2>6
<1>6. ASSUME NEW c \in Conn, RevokeExpired(c) PROVE TableInv' /\ ClientInv'
  BY <1>6, RevokeKeepsInv DEF RevokeExpired, Goto, TypeOK
<1>7. ASSUME NEW c \in Conn, InsertClient(c) PROVE TableInv' /\ ClientInv'
  <2>1. TableInv'
    BY <1>7, TableUnchanged DEF InsertClient
  <2>2. c \notin closed /\ \A t \in Sid : clients[t] # c
    BY <1>7, SessionsAssumption
    DEF InsertClient, ClientInv, HandlerOrder, Serving, Counted, Streaming
  <2>3. CASE MayInsert(c)
    <3>1. \A d \in Conn : pc[d] \in Serving => sid[d] # sid[c]
      BY <2>3, SessionsAssumption DEF MayInsert, ClientInv, ClientTableConsistent
    <3>2. clients' = [clients EXCEPT ![sid[c]] = c] /\ sid[c] \in Sid
      BY <1>7, <2>3 DEF InsertClient, MayInsert, TypeOK
    <3>3. pc' = [pc EXCEPT ![c] = "inserted"] /\ UNCHANGED <<live, sid, closed>>
      BY <1>7, <2>3 DEF InsertClient, Goto
    <3>4. ClientTableConsistent'
      BY <2>2, <2>3, <3>1, <3>2, <3>3
      DEF ClientInv, ClientTableConsistent, MayInsert, TypeOK
    <3>5. OneConnectionPerSession'
      BY <3>1, <3>3 DEF ClientInv, OneConnectionPerSession, TypeOK
    <3>6. HandlerOrder'
      BY <2>2, <3>2, <3>3
      DEF ClientInv, HandlerOrder, Serving, Counted, Streaming, TypeOK
    <3> QED
      BY <2>1, <3>4, <3>5, <3>6 DEF ClientInv
  <2>4. CASE ~MayInsert(c)
    BY <1>7, <2>1, <2>2, <2>4
    DEF InsertClient, Goto, ClientInv, ClientTableConsistent, OneConnectionPerSession,
        HandlerOrder, Serving, Counted, Streaming, TypeOK
  <2> QED
    BY <2>3, <2>4
<1>8. ASSUME NEW c \in Conn, CountConnection(c) \/ Greet(c) \/ UncountConnection(c)
                             \/ ReaderEnds(c) \/ CheckSession(c) \/ Send(c)
      PROVE  TableInv' /\ ClientInv'
  <2>1. UNCHANGED <<grant, tableVars, sid>>
    BY <1>8 DEF CountConnection, Greet, UncountConnection, ReaderEnds, CheckSession, Send
  <2>2. pc[c] \in Serving
    BY <1>8 DEF CountConnection, Greet, UncountConnection, ReaderEnds, CheckSession, Send,
                Serving, Counted, Streaming
  <2>3. \E place \in Serving \cup {"done"} : Goto(c, place)
    BY <1>8 DEF CountConnection, Greet, UncountConnection, ReaderEnds, CheckSession, Send,
                Serving, Counted, Streaming
  <2> QED
    BY <2>1, <2>2, <2>3, TableUnchanged, OneServingMove DEF tableVars
<1>9. ASSUME NEW c \in Conn, Recv(c) PROVE TableInv' /\ ClientInv'
  <2>1. pc[c] \in Serving /\ \E place \in Serving \cup {"done"} : Goto(c, place)
    BY <1>9 DEF Recv, Serving, Counted, Streaming
  <2> QED
    BY <1>9, <2>1, TableUnchanged, OneServingMove DEF Recv
<1>10. ASSUME NEW c \in Conn, RevokeOwn(c) PROVE TableInv' /\ ClientInv'
  <2>1. sid[c] \in Sid
    BY <1>10 DEF RevokeOwn, TypeOK, Serving
  <2> QED
    BY <1>10, <2>1, RevokeKeepsInv DEF RevokeOwn, Goto, TypeOK
<1>11. ASSUME NEW c \in Conn, ProcessAudioFrame(c) PROVE TableInv' /\ ClientInv'
  <2>1. ClientInv'
    BY <1>11, PlacesUnchanged DEF ProcessAudioFrame
  <2>2. \A m \in MixEndpoint : \A s \in queued'[m] :
          s \in queued[m] \/ (s = sid[c] /\ m = Ep(s))
    BY <1>11 DEF ProcessAudioFrame, TypeOK
  <2>3. TableInv'
    BY <1>11, <2>2
    DEF ProcessAudioFrame, TableInv, EndpointOwnership, MixerMatchesSessions,
        QueuesHoldLiveAudio, Ep, TypeOK
  <2> QED
    BY <2>1, <2>3
<1>12. CASE MixTick
  <2>1. ClientInv'
    BY <1>12, PlacesUnchanged DEF MixTick
  <2>2. \A m \in MixEndpoint : queued'[m] \subseteq queued[m]
    BY <1>12 DEF MixTick, TypeOK
  <2>3. TableInv'
    BY <1>12, <2>2
    DEF MixTick, TableInv, EndpointOwnership, MixerMatchesSessions, QueuesHoldLiveAudio, Ep
  <2> QED
    BY <2>1, <2>3
<1>13. CASE UNCHANGED vars
  BY <1>13, TableUnchanged, PlacesUnchanged DEF vars, tableVars
<1> QED
  BY <1>1, <1>2, <1>3, <1>4, <1>5, <1>6, <1>7, <1>8, <1>9, <1>10, <1>11, <1>12, <1>13
  DEF Next, Handler, Writer

(* Types, tables, clients and the places of the handlers agree in every     *)
(* reachable state: a replacement, a late cleanup and an emergency stop each*)
(* find the tables as the others left them (service.rs, the locks of        *)
(* admit_session, handle_connection and revoke_session).                    *)
THEOREM InductiveInvariant == Spec => []IInv
  BY InvInit, InvStep, PTL DEF Spec

(* No two live sessions share an endpoint, under any interleaving of        *)
(* requests, connections, cleanups and emergency stops.                     *)
THEOREM EndpointOwnershipHolds == Spec => []EndpointOwnership
<1>1. IInv => EndpointOwnership
  BY DEF IInv, TableInv
<1> QED
  BY <1>1, InductiveInvariant, PTL

(* The mixer holds the live sessions' endpoints and the microphone's, and   *)
(* nothing else.                                                            *)
THEOREM MixerMatchesSessionsHolds == Spec => []MixerMatchesSessions
<1>1. IInv => MixerMatchesSessions
  BY DEF IInv, TableInv
<1> QED
  BY <1>1, InductiveInvariant, PTL

(* No input queue ever holds a frame of a session that was removed, or of   *)
(* another endpoint.                                                        *)
THEOREM QueuesHoldLiveAudioHolds == Spec => []QueuesHoldLiveAudio
<1>1. IInv => QueuesHoldLiveAudio
  BY DEF IInv, TableInv
<1> QED
  BY <1>1, InductiveInvariant, PTL

(* The client map, the sessions map and the closed queues agree.            *)
THEOREM ClientTableConsistentHolds == Spec => []ClientTableConsistent
<1>1. IInv => ClientTableConsistent
  BY DEF IInv, ClientInv
<1> QED
  BY <1>1, InductiveInvariant, PTL

(* At most one handler serves a session.                                    *)
THEOREM OneConnectionPerSessionHolds == Spec => []OneConnectionPerSession
<1>1. IInv => OneConnectionPerSession
  BY DEF IInv, ClientInv
<1> QED
  BY <1>1, InductiveInvariant, PTL
-----------------------------------------------------------------------------
(* Capacity.  The test of admit_session counts what the replacement leaves, *)
(* and the table only shrinks elsewhere.                                    *)
LEMMA LiveFinite ==
  ASSUME TypeOK
  PROVE  IsFiniteSet(live) /\ Cardinality(live) \in Nat
<1>1. live \subseteq Sid
  BY DEF TypeOK
<1> QED
  BY <1>1, SessionsAssumption, FS_Subset, FS_CardinalityType

LEMMA ShrinkKeepsCapacity ==
  ASSUME TypeOK, CapacityRespected, live' \subseteq live
  PROVE  CapacityRespected'
<1>1. Cardinality(live') \in Nat /\ Cardinality(live') <= Cardinality(live)
  BY LiveFinite, FS_Subset, FS_CardinalityType
<1> QED
  BY <1>1, LiveFinite, SessionsAssumption DEF CapacityRespected

LEMMA CapacityStep == TypeOK /\ CapacityRespected /\ [Next]_vars => CapacityRespected'
<1> SUFFICES ASSUME TypeOK, CapacityRespected, [Next]_vars PROVE CapacityRespected'
  OBVIOUS
<1>1. ASSUME NEW p \in Profile, NEW e \in Endpoint \cup {NilEndpoint},
             NEW ch \in Channel \cup {BadChannel}, AdmitSession(p, e, ch)
      PROVE  CapacityRespected'
  <2>1. CASE CapacityReached(p, e)
    BY <2>1, ShrinkKeepsCapacity DEF CapacityReached
  <2>2. ASSUME NEW s \in Sid, Admitted(p, e, ch, s) PROVE CapacityRespected'
    <3> DEFINE rest == live \ Replaced(p, e)
    <3>0. rest \in SUBSET live
      OBVIOUS
    <3>1. IsFiniteSet(rest) /\ Cardinality(rest) \in Nat
      BY <3>0, LiveFinite, FS_Subset, FS_CardinalityType
    <3>2. Cardinality(rest \cup {s}) =
            IF s \in rest THEN Cardinality(rest) ELSE Cardinality(rest) + 1
      BY <3>1, FS_AddElement, Zenon
    <3>3. IsFiniteSet(rest \cup {s}) /\ Cardinality(rest \cup {s}) \in Nat
      BY <3>1, FS_AddElement, FS_CardinalityType
    <3>4. live' = rest \cup {s} /\ Cardinality(rest) < MaxSessions
      BY <2>2 DEF Admitted
    <3> QED
      BY <3>1, <3>2, <3>3, <3>4, SessionsAssumption DEF CapacityRespected
  <2> QED
    BY <1>1, <2>1, <2>2 DEF AdmitSession
<1>2. ASSUME NEW s \in Sid, RevokeSession(s) PROVE CapacityRespected'
  BY <1>2, ShrinkKeepsCapacity DEF RevokeSession, tableVars
<1>3. ASSUME UNCHANGED live PROVE CapacityRespected'
  BY <1>3, ShrinkKeepsCapacity
<1>4. CASE RevokeNext
  BY <1>4, <1>2 DEF RevokeNext, TypeOK
<1>5. ASSUME NEW c \in Conn, RevokeExpired(c) \/ RevokeOwn(c) PROVE CapacityRespected'
  <2>1. sid[c] \in Sid
    BY <1>5 DEF RevokeExpired, RevokeOwn, TypeOK, Serving
  <2> QED
    BY <1>5, <2>1, <1>2 DEF RevokeExpired, RevokeOwn
<1>6. ASSUME NEW c \in Conn,
             InsertClient(c) \/ CountConnection(c) \/ Greet(c) \/ Writer(c)
               \/ UncountConnection(c) \/ ProcessAudioFrame(c) \/ ReaderEnds(c)
      PROVE  CapacityRespected'
  BY <1>6, <1>3 DEF InsertClient, CountConnection, Greet, Writer, Recv, CheckSession, Send,
                    UncountConnection, ProcessAudioFrame, ReaderEnds, tableVars
<1>7. CASE RevokeAllSessions \/ MixTick \/ UNCHANGED vars
  BY <1>7, <1>3 DEF RevokeAllSessions, MixTick, vars, tableVars
<1>8. ASSUME NEW s \in Sid, Expire(s) PROVE CapacityRespected'
  BY <1>8, <1>3 DEF Expire, tableVars
<1>9. ASSUME NEW c \in Conn, NEW s \in Sid, NEW ok \in BOOLEAN, Authenticate(c, s, ok)
      PROVE  CapacityRespected'
  BY <1>9, <1>3 DEF Authenticate, tableVars
<1> QED
  BY <1>1, <1>4, <1>5, <1>6, <1>7, <1>8, <1>9 DEF Next, Handler

(* The table never holds more than max_sessions sessions.                   *)
THEOREM CapacityRespectedHolds == Spec => []CapacityRespected
<1>1. Init => CapacityRespected
  BY FS_EmptySet, SessionsAssumption DEF Init, CapacityRespected
<1> QED
  BY <1>1, CapacityStep, TypeCorrect, PTL DEF Spec

(* An admission that fails for want of capacity had nothing to replace: the *)
(* table was full of other endpoints' sessions.                             *)
LEMMA AdmissionFails ==
  ASSUME TypeOK, CapacityRespected, NEW p \in Profile, NEW e, DropSessions(Replaced(p, e)),
         CapacityReached(p, e)
  PROVE  UNCHANGED <<grant, tableVars>>
<1> DEFINE rest == live \ Replaced(p, e)
<1>1. rest \in SUBSET live
  OBVIOUS
<1>2. Cardinality(rest) \in Nat /\ Cardinality(rest) <= Cardinality(live)
  BY <1>1, LiveFinite, FS_Subset, FS_CardinalityType
<1>3. Cardinality(rest) >= MaxSessions
  BY DEF CapacityReached
<1>4. Cardinality(live) = Cardinality(rest)
  BY <1>2, <1>3, LiveFinite, SessionsAssumption DEF CapacityRespected
<1>5. live = rest
  BY <1>1, <1>4, LiveFinite, FS_Subset
<1>6. Replaced(p, e) = {}
  BY <1>5 DEF Replaced
<1>7. clients' = clients /\ closed' = closed /\ inbox' = inbox /\ queued' = queued
  BY <1>6 DEF DropSessions, QueuesOf, TypeOK
<1>8. live' = live /\ mixer' = mixer /\ grant' = grant
  BY <1>6 DEF CapacityReached, Unregistered
<1> QED
  BY <1>7, <1>8 DEF tableVars

(* An admission that returns the capacity error leaves every session,       *)
(* client and queue as it was, in every reachable state.                    *)
THEOREM FailedAdmissionHolds == Spec => FailedAdmissionChangesNothing
<1>1. ASSUME TypeOK, CapacityRespected,
             NEW p \in Profile, NEW e \in Endpoint, NEW ch \in Channel, AdmitSession(p, e, ch)
      PROVE  live' \ live # {} \/ UNCHANGED vars
  <2>1. CASE CapacityReached(p, e)
    BY <1>1, <2>1, AdmissionFails DEF AdmitSession, vars, tableVars
  <2>2. ASSUME NEW s \in Sid, Admitted(p, e, ch, s) PROVE live' \ live # {}
    BY <1>1, <2>2 DEF Admitted, TypeOK
  <2> QED
    BY <1>1, <2>1, <2>2 DEF AdmitSession
<1>2. TypeOK /\ CapacityRespected /\ [Next]_vars =>
        [(\E p \in Profile, e \in Endpoint, ch \in Channel : AdmitSession(p, e, ch))
           => live' \ live # {}]_vars
  <2> SUFFICES ASSUME TypeOK, CapacityRespected,
                      NEW p \in Profile, NEW e \in Endpoint, NEW ch \in Channel,
                      AdmitSession(p, e, ch), ~(UNCHANGED vars)
               PROVE  live' \ live # {}
    OBVIOUS
  <2> QED
    BY <1>1
<1> QED
  BY <1>2, TypeCorrect, CapacityRespectedHolds, PTL DEF Spec, FailedAdmissionChangesNothing
-----------------------------------------------------------------------------
(* The status count.  Only finitely many handlers are ever counted at once, *)
(* although nothing bounds the connections the hub accepts; the count is    *)
(* raised with the handler that enters the Counted states and lowered with  *)
(* the one that leaves them, unless that one failed to greet.               *)
Held == {c \in Conn : pc[c] \in Counted}

CountInv == IsFiniteSet(Held) /\ CountCoversConnections

(* The handlers counted, when none or one of them moves.                    *)
LEMMA HeldSame ==
  ASSUME TypeOK, CountInv, Held' = Held, count' = count
  PROVE  CountInv'
BY DEF CountInv, CountCoversConnections, Held

LEMMA HeldEntered ==
  ASSUME TypeOK, CountInv, NEW c, c \notin Held, Held' = Held \cup {c}, count' = count + 1
  PROVE  CountInv'
<1>1. IsFiniteSet(Held') /\ Cardinality(Held') = Cardinality(Held) + 1
  BY FS_AddElement DEF CountInv
<1>2. Cardinality(Held) \in Nat /\ Cardinality(Held) <= count /\ count \in Nat
  BY FS_CardinalityType DEF CountInv, CountCoversConnections, Held, TypeOK
<1>3. Cardinality(Held') <= count'
  BY <1>1, <1>2
<1> QED
  BY <1>1, <1>3 DEF CountInv, CountCoversConnections, Held

LEMMA HeldLeft ==
  ASSUME TypeOK, CountInv, NEW c, c \in Held, Held' = Held \ {c},
         count' = count \/ count' = IF count > 0 THEN count - 1 ELSE 0
  PROVE  CountInv'
<1>1. IsFiniteSet(Held') /\ Cardinality(Held') = Cardinality(Held) - 1
  BY FS_RemoveElement DEF CountInv
<1>2. Cardinality(Held) \in Nat /\ Cardinality(Held) <= count /\ count \in Nat
  BY FS_CardinalityType DEF CountInv, CountCoversConnections, Held, TypeOK
<1>3. Cardinality(Held') \in Nat
  BY <1>1, FS_CardinalityType
<1>4. Cardinality(Held') <= count'
  BY <1>1, <1>2, <1>3
<1> QED
  BY <1>1, <1>4 DEF CountInv, CountCoversConnections, Held

(* One handler moves from a place to a place.                               *)
LEMMA HeldMove ==
  ASSUME TypeOK, NEW c \in Conn, NEW place, Goto(c, place)
  PROVE  /\ place \in Counted => Held' = Held \cup {c}
         /\ place \notin Counted => Held' = Held \ {c}
<1>1. \A d \in Conn : pc'[d] = IF d = c THEN place ELSE pc[d]
  BY DEF TypeOK, Goto
<1> QED
  BY <1>1 DEF Held

(* A move between two counted places, or between two that are not.          *)
LEMMA HeldMoveSame ==
  ASSUME TypeOK, CountInv, NEW c \in Conn, NEW place, Goto(c, place), count' = count,
         pc[c] \in Counted <=> place \in Counted
  PROVE  CountInv'
<1>1. Held' = Held
  BY HeldMove DEF Held
<1> QED
  BY <1>1, HeldSame

LEMMA CountStep == TypeOK /\ CountInv /\ [Next]_vars => CountInv'
<1> SUFFICES ASSUME TypeOK, CountInv, [Next]_vars PROVE CountInv'
  OBVIOUS
<1>1. ASSUME UNCHANGED <<pc, count>> PROVE CountInv'
  BY <1>1, HeldSame DEF Held
<1>2. ASSUME NEW c \in Conn, NEW s \in Sid, NEW ok \in BOOLEAN, Authenticate(c, s, ok)
      PROVE  CountInv'
  <2>1. PICK place \in {"expired", "authenticated", "done"} : Goto(c, place)
    BY <1>2 DEF Authenticate
  <2>2. pc[c] = "idle" /\ count' = count
    BY <1>2 DEF Authenticate
  <2> QED
    BY <2>1, <2>2, HeldMoveSame DEF Counted, Streaming
<1>3. ASSUME NEW c \in Conn, RevokeExpired(c) \/ RevokeOwn(c) PROVE CountInv'
  <2>1. Goto(c, "done") /\ pc[c] \in {"expired", "revoking"} /\ count' = count
    BY <1>3 DEF RevokeExpired, RevokeOwn
  <2> QED
    BY <2>1, HeldMoveSame DEF Counted, Streaming
<1>4. ASSUME NEW c \in Conn, InsertClient(c) PROVE CountInv'
  <2>1. PICK place \in {"inserted", "done"} : Goto(c, place)
    BY <1>4 DEF InsertClient
  <2>2. pc[c] = "authenticated" /\ count' = count
    BY <1>4 DEF InsertClient
  <2> QED
    BY <2>1, <2>2, HeldMoveSame DEF Counted, Streaming
<1>5. ASSUME NEW c \in Conn, CountConnection(c) PROVE CountInv'
  <2>1. pc[c] = "inserted" /\ Goto(c, "greeting") /\ count' = count + 1
    BY <1>5 DEF CountConnection
  <2>2. c \notin Held /\ Held' = Held \cup {c}
    BY <2>1, HeldMove DEF Held, Counted, Streaming
  <2> QED
    BY <2>1, <2>2, HeldEntered
<1>6. ASSUME NEW c \in Conn, Greet(c) PROVE CountInv'
  <2>1. pc[c] = "greeting" /\ count' = count
    BY <1>6 DEF Greet
  <2>2. CASE Goto(c, "waiting")
    BY <2>1, <2>2, HeldMoveSame DEF Counted, Streaming
  <2>3. CASE Goto(c, "done")
    <3>1. c \in Held /\ Held' = Held \ {c}
      BY <2>1, <2>3, HeldMove DEF Held, Counted, Streaming
    <3> QED
      BY <2>1, <3>1, HeldLeft
  <2> QED
    BY <1>6, <2>2, <2>3 DEF Greet
<1>7. ASSUME NEW c \in Conn, Writer(c) \/ ReaderEnds(c) PROVE CountInv'
  <2>1. PICK place \in Streaming \cup {"closing"} : Goto(c, place)
    BY <1>7 DEF Writer, Recv, CheckSession, Send, ReaderEnds, Streaming
  <2>2. pc[c] \in Streaming /\ count' = count
    BY <1>7 DEF Writer, Recv, CheckSession, Send, ReaderEnds, Streaming
  <2> QED
    BY <2>1, <2>2, HeldMoveSame DEF Counted
<1>8. ASSUME NEW c \in Conn, UncountConnection(c) PROVE CountInv'
  <2>1. pc[c] = "closing" /\ Goto(c, "revoking")
    BY <1>8 DEF UncountConnection
  <2>2. c \in Held /\ Held' = Held \ {c}
    BY <2>1, HeldMove DEF Held, Counted, Streaming
  <2> QED
    BY <1>8, <2>2, HeldLeft DEF UncountConnection
<1>9. ASSUME NEW p \in Profile, NEW e \in Endpoint \cup {NilEndpoint},
             NEW ch \in Channel \cup {BadChannel}, AdmitSession(p, e, ch)
      PROVE  CountInv'
  BY <1>9, <1>1 DEF AdmitSession
<1>10. CASE \/ \E s \in Sid : Expire(s)
            \/ RevokeAllSessions \/ RevokeNext \/ MixTick \/ UNCHANGED vars
            \/ \E c \in Conn : ProcessAudioFrame(c)
  BY <1>10, <1>1 DEF Expire, RevokeAllSessions, RevokeNext, MixTick, ProcessAudioFrame, vars
<1> QED
  BY <1>2, <1>3, <1>4, <1>5, <1>6, <1>7, <1>8, <1>9, <1>10 DEF Next, Handler

(* The reported count covers the connections being served, however many are *)
(* accepted, so that lowering it never has to saturate.                     *)
THEOREM CountCoversConnectionsHolds == Spec => []CountCoversConnections
<1>1. Init => CountInv
  <2> SUFFICES ASSUME Init PROVE CountInv
    OBVIOUS
  <2>1. Held = {} /\ count = 0
    BY DEF Init, Held, Counted, Streaming
  <2> QED
    BY <2>1, FS_EmptySet DEF CountInv, CountCoversConnections, Held
<1>2. CountInv => CountCoversConnections
  BY DEF CountInv
<1> QED
  BY <1>1, <1>2, CountStep, TypeCorrect, PTL DEF Spec
-----------------------------------------------------------------------------
(* Refinement.  Under EndpointOwnership the CHOOSE of BridgeOf has one      *)
(* candidate, so the bridge of an endpoint is the record of its session.    *)
BridgeFacts ==
  /\ \A e : \A s \in live : grant[s].endpoint = e =>
       BridgeOf(e) = [profile |-> grant[s].profile, channel |-> grant[s].channel]
  /\ \A e : (\A s \in live : grant[s].endpoint # e) => BridgeOf(e) = NoGrant

Listening == {grant[s].endpoint : s \in {t \in live : clients[t] # NoConn}}

LEMMA BridgeOfSession == EndpointOwnership => BridgeFacts
<1> SUFFICES ASSUME EndpointOwnership PROVE BridgeFacts
  OBVIOUS
<1>1. ASSUME NEW e, NEW s \in live, grant[s].endpoint = e
      PROVE  BridgeOf(e) = [profile |-> grant[s].profile, channel |-> grant[s].channel]
  <2>1. (CHOOSE t \in live : grant[t].endpoint = e) = s
    BY <1>1 DEF EndpointOwnership
  <2> QED
    BY <1>1, <2>1 DEF BridgeOf
<1>2. ASSUME NEW e, \A s \in live : grant[s].endpoint # e
      PROVE  BridgeOf(e) = NoGrant
  BY <1>2 DEF BridgeOf
<1> QED
  BY <1>1, <1>2 DEF BridgeFacts

LEMMA RecordTypes ==
  ASSUME TypeOK
  PROVE  \A s \in live : /\ grant[s].endpoint \in Endpoint
                         /\ grant[s].profile \in Profile
                         /\ grant[s].channel \in Channel
<1>1. \A s \in live : grant[s] \in SessionRecord
  BY DEF TypeOK
<1> QED
  BY <1>1 DEF SessionRecord

LEMMA BridgeIsRecord ==
  ASSUME TypeOK, EndpointOwnership, NEW s \in live
  PROVE  BridgeOf(grant[s].endpoint) # NoGrant
<1> DEFINE b == [profile |-> grant[s].profile, channel |-> grant[s].channel]
<1>1. b \in [profile : Profile, channel : Channel]
  BY RecordTypes
<1>2. BridgeOf(grant[s].endpoint) = b
  BY BridgeOfSession DEF BridgeFacts
<1>3. NoGrant \notin [profile : Profile, channel : Channel]
  BY SessionsAssumption
<1> QED
  BY <1>1, <1>2, <1>3

(* Nothing the registry sees moves.                                         *)
LEMMA SameTableStutters ==
  ASSUME UNCHANGED <<grant, live, clients>>
  PROVE  UNCHANGED Registry!vars
<1>1. \A e : BridgeOf(e)' = BridgeOf(e)
  BY DEF BridgeOf
<1> QED
  BY <1>1 DEF Registry!vars

(* The removal of one live session releases the bridge of its endpoint.     *)
LEMMA RemovalReleases ==
  ASSUME TypeOK, EndpointOwnership, EndpointOwnership',
         NEW s \in live, DropSessions({s}), live' = live \ {s}, UNCHANGED grant
  PROVE  Registry!Release(grant[s].endpoint)
<1> DEFINE f == grant[s].endpoint
<1>1. BridgeFacts /\ BridgeFacts'
  BY BridgeOfSession, PTL
<1>2. f \in Endpoint /\ grant[s].profile \in Profile /\ grant[s].channel \in Channel
  BY RecordTypes
<1>3. BridgeOf(f) # NoGrant
  BY BridgeIsRecord
<1>4. BridgeOf(f)' = NoGrant
  <2>1. \A t \in live' : grant'[t].endpoint # f
    BY DEF EndpointOwnership
  <2> QED
    BY <1>1, <2>1 DEF BridgeFacts
<1>5. ASSUME NEW e \in Endpoint, e # f PROVE BridgeOf(e)' = BridgeOf(e)
  <2>1. CASE \E t \in live : grant[t].endpoint = e
    <3>1. PICK t \in live : grant[t].endpoint = e
      BY <2>1
    <3>2. t \in live' /\ grant'[t] = grant[t]
      BY <3>1, <1>5
    <3> QED
      BY <1>1, <3>1, <3>2 DEF BridgeFacts
  <2>2. CASE \A t \in live : grant[t].endpoint # e
    BY <1>1, <2>2 DEF BridgeFacts
  <2> QED
    BY <2>1, <2>2
<1>6. Listening' = Listening \ {f}
  <2>1. \A t \in live : t # s => grant[t].endpoint # f
    BY DEF EndpointOwnership
  <2>2. \A t \in live' : clients'[t] = clients[t] /\ grant'[t] = grant[t]
    BY DEF DropSessions, TypeOK
  <2>3. \A t \in live' : t \in live /\ t # s
    OBVIOUS
  <2> QED
    BY <2>1, <2>2, <2>3 DEF Listening
<1> QED
  BY <1>2, <1>3, <1>4, <1>5, <1>6 DEF Registry!Release, Registry!Bridged, Listening

LEMMA RevokeImplements ==
  ASSUME TypeOK, EndpointOwnership, EndpointOwnership',
         NEW s \in Sid, RevokeSession(s), UNCHANGED grant
  PROVE  [Registry!Next]_(Registry!vars)
<1>1. CASE s \in live
  <2>1. Registry!Release(grant[s].endpoint) /\ grant[s].endpoint \in Endpoint
    BY <1>1, RemovalReleases, RecordTypes DEF RevokeSession
  <2> QED
    BY <2>1 DEF Registry!Next, Registry!Release
<1>2. CASE s \notin live
  BY <1>2, SameTableStutters DEF RevokeSession, tableVars
<1> QED
  BY <1>1, <1>2

(* The endpoints that keep a bridge beside e are those of the sessions that *)
(* a renewal of e leaves, at most as many.                                  *)
LEMMA BridgedBound ==
  ASSUME TypeOK, EndpointOwnership, NEW p \in Profile, NEW e \in Endpoint,
         ~EndpointConflict(p, e)
  PROVE  Cardinality(Registry!Bridged \ {e}) <= Cardinality(live \ Replaced(p, e))
<1> DEFINE rest == live \ Replaced(p, e)
           others == Registry!Bridged \ {e}
           g == [s \in rest |-> grant[s].endpoint]
<1>1. IsFiniteSet(rest)
  <2>1. rest \in SUBSET live
    OBVIOUS
  <2> QED
    BY <2>1, LiveFinite, FS_Subset
<1>2. \A s \in rest : g[s] \in others
  <2> SUFFICES ASSUME NEW s \in rest PROVE grant[s].endpoint \in others
    OBVIOUS
  <2>1. grant[s].endpoint \in Endpoint /\ grant[s].endpoint # e
    BY RecordTypes DEF Replaced, EndpointConflict
  <2>2. BridgeOf(grant[s].endpoint) # NoGrant
    BY BridgeIsRecord
  <2> QED
    BY <2>1, <2>2 DEF Registry!Bridged
<1>3. ASSUME NEW f \in others PROVE \E s \in rest : g[s] = f
  <2>1. f \in Endpoint /\ f # e /\ BridgeOf(f) # NoGrant
    BY <1>3 DEF Registry!Bridged
  <2>2. PICK s \in live : grant[s].endpoint = f
    BY <2>1, BridgeOfSession DEF BridgeFacts
  <2> QED
    BY <2>1, <2>2 DEF Replaced
<1>4. g \in Surjection(rest, others)
  BY <1>2, <1>3 DEF Surjection
<1> QED
  BY <1>1, <1>4, FS_Surjection

LEMMA BridgedFinite ==
  ASSUME TypeOK, EndpointOwnership, NEW e
  PROVE  Cardinality(Registry!Bridged \ {e}) \in Nat
<1> DEFINE g == [s \in live |-> grant[s].endpoint]
<1>1. \A f \in Registry!Bridged : \E s \in live : g[s] = f
  BY BridgeOfSession DEF BridgeFacts, Registry!Bridged
<1>2. \A s \in live : g[s] \in Registry!Bridged
  BY BridgeIsRecord, RecordTypes DEF Registry!Bridged
<1>3. g \in Surjection(live, Registry!Bridged)
  BY <1>1, <1>2 DEF Surjection
<1>4. IsFiniteSet(Registry!Bridged)
  BY <1>3, LiveFinite, FS_Surjection
<1> QED
  BY <1>4, FS_RemoveElement, FS_CardinalityType

(* An admission grants the bridge of its endpoint.                          *)
LEMMA AdmittedGrants ==
  ASSUME TypeOK, EndpointOwnership, EndpointOwnership',
         NEW p \in Profile, NEW e \in Endpoint, NEW ch \in Channel, NEW s \in Sid,
         ~EndpointConflict(p, e), DropSessions(Replaced(p, e)), Admitted(p, e, ch, s),
         clients[s] = NoConn
  PROVE  Registry!Grant(e, p, ch)
<1> DEFINE S == Replaced(p, e)
           rec == [profile |-> p, endpoint |-> e, channel |-> ch]
<1>1. BridgeFacts /\ BridgeFacts'
  BY BridgeOfSession, PTL
<1>2. s \notin live /\ live' = (live \ S) \cup {s}
  BY DEF Admitted, TypeOK
<1>3. grant'[s] = rec /\ \A t \in Sid \ {s} : grant'[t] = grant[t]
  BY DEF Admitted, TypeOK
<1>4. \A t \in live : t \in Sid /\ t # s /\ grant'[t] = grant[t]
  BY <1>2, <1>3 DEF TypeOK
<1>5. \A t \in live : grant[t].endpoint = e <=> t \in S
  BY DEF Replaced, EndpointConflict
<1>6. BridgeOf(e) # NoGrant => BridgeOf(e).profile = p
  <2> SUFFICES ASSUME BridgeOf(e) # NoGrant PROVE BridgeOf(e).profile = p
    OBVIOUS
  <2>1. PICK t \in live : grant[t].endpoint = e
    BY <1>1 DEF BridgeFacts
  <2>2. grant[t].profile = p
    BY <2>1, <1>5 DEF Replaced
  <2> QED
    BY <1>1, <2>1, <2>2 DEF BridgeFacts
<1>7. Cardinality(Registry!Bridged \ {e}) < MaxSessions
  <2>1. Cardinality(live \ S) \in Nat /\ Cardinality(live \ S) < MaxSessions
    <3>1. (live \ S) \in SUBSET live
      OBVIOUS
    <3> QED
      BY <3>1, LiveFinite, FS_Subset, FS_CardinalityType DEF Admitted
  <2>2. Cardinality(Registry!Bridged \ {e}) \in Nat
    BY BridgedFinite
  <2> QED
    BY <2>1, <2>2, BridgedBound, SessionsAssumption
<1>8. BridgeOf(e)' = [profile |-> p, channel |-> ch]
  <2>1. s \in live' /\ grant'[s].endpoint = e
    BY <1>2, <1>3
  <2> QED
    BY <1>1, <1>3, <2>1 DEF BridgeFacts
<1>9. ASSUME NEW f \in Endpoint, f # e PROVE BridgeOf(f)' = BridgeOf(f)
  <2>1. CASE \E t \in live : grant[t].endpoint = f
    <3>1. PICK t \in live : grant[t].endpoint = f
      BY <2>1
    <3>2. t \in live' /\ grant'[t] = grant[t]
      BY <3>1, <1>2, <1>4, <1>5, <1>9
    <3> QED
      BY <1>1, <3>1, <3>2 DEF BridgeFacts
  <2>2. CASE \A t \in live : grant[t].endpoint # f
    <3>1. \A t \in live' : grant'[t].endpoint # f
      BY <2>2, <1>2, <1>3, <1>4, <1>9
    <3> QED
      BY <1>1, <2>2, <3>1 DEF BridgeFacts
  <2> QED
    BY <2>1, <2>2
<1>10. Listening' = Listening \ {e}
  <2>1. clients'[s] = NoConn
    BY DEF DropSessions
  <2>2. \A t \in live \ S : clients'[t] = clients[t] /\ grant'[t] = grant[t]
    BY <1>4 DEF DropSessions
  <2>3. \A t \in live \ S : grant[t].endpoint # e
    BY <1>5
  <2>4. Listening' = {grant'[t].endpoint : t \in {u \in live' : clients'[u] # NoConn}}
    BY DEF Listening
  <2>5. {u \in live' : clients'[u] # NoConn} = {u \in live \ S : clients[u] # NoConn}
    BY <1>2, <2>1, <2>2
  <2>6. Listening' = {grant[t].endpoint : t \in {u \in live \ S : clients[u] # NoConn}}
    BY <2>2, <2>4, <2>5
  <2> QED
    BY <2>3, <2>6, <1>5 DEF Listening
<1> DEFINE b == [f \in Endpoint |-> BridgeOf(f)]
<1>11. b' = [b EXCEPT ![e] = [profile |-> p, channel |-> ch]]
  BY <1>8, <1>9
<1>12. b[e] # NoGrant => b[e].profile = p
  BY <1>6
<1>13. Registry!Cardinality(Registry!Bridged \ {e}) = Cardinality(Registry!Bridged \ {e})
  BY DEF Registry!Cardinality, Cardinality, Registry!IsFiniteSet, IsFiniteSet
<1> QED
  BY <1>7, <1>10, <1>11, <1>12, <1>13 DEF Registry!Grant, Listening

(* Inserting a client makes the bridge of its session listening.            *)
LEMMA InsertListens ==
  ASSUME TypeOK, EndpointOwnership, NEW c \in Conn, InsertClient(c), MayInsert(c)
  PROVE  Registry!Listen(grant[sid[c]].endpoint)
<1> DEFINE s == sid[c]
           e == grant[s].endpoint
<1>1. s \in live /\ clients[s] = NoConn /\ s \in Sid
  BY DEF MayInsert, TypeOK
<1>2. clients' = [clients EXCEPT ![s] = c] /\ live' = live /\ grant' = grant
  BY DEF InsertClient
<1>3. e \in Endpoint /\ BridgeOf(e) # NoGrant
  BY <1>1, RecordTypes, BridgeIsRecord
<1>4. e \notin Listening
  <2>1. \A t \in live : clients[t] # NoConn => grant[t].endpoint # e
    BY <1>1 DEF EndpointOwnership
  <2> QED
    BY <2>1 DEF Listening
<1>5. Listening' = Listening \cup {e}
  <2>1. clients'[s] = c /\ c # NoConn /\ \A t \in live : t # s => clients'[t] = clients[t]
    BY <1>1, <1>2, SessionsAssumption DEF TypeOK
  <2>2. {t \in live' : clients'[t] # NoConn} = {t \in live : clients[t] # NoConn} \cup {s}
    BY <1>1, <1>2, <2>1
  <2>3. Listening' = {grant[t].endpoint : t \in {u \in live' : clients'[u] # NoConn}}
    BY <1>2 DEF Listening
  <2> QED
    BY <2>2, <2>3 DEF Listening
<1>6. \A f : BridgeOf(f)' = BridgeOf(f)
  BY <1>2 DEF BridgeOf
<1> QED
  BY <1>3, <1>4, <1>5, <1>6 DEF Registry!Listen, Registry!Bridged, Listening

LEMMA RegistryInit == Init => Registry!Init
<1> SUFFICES ASSUME Init PROVE Registry!Init
  OBVIOUS
<1>1. live = {}
  BY DEF Init
<1>2. \A e : BridgeOf(e) = NoGrant
  BY <1>1 DEF BridgeOf
<1> QED
  BY <1>1, <1>2 DEF Registry!Init

LEMMA RegistryStep ==
  IInv /\ IInv' /\ CapacityRespected /\ [Next]_vars => [Registry!Next]_(Registry!vars)
<1> SUFFICES ASSUME IInv, IInv', CapacityRespected, [Next]_vars
             PROVE  [Registry!Next]_(Registry!vars)
  OBVIOUS
<1>1. /\ TypeOK /\ TableInv /\ ClientInv
      /\ EndpointOwnership /\ EndpointOwnership'
  BY DEF IInv, TableInv
<1>2. ASSUME NEW p \in Profile, NEW e \in Endpoint \cup {NilEndpoint},
             NEW ch \in Channel \cup {BadChannel}, AdmitSession(p, e, ch)
      PROVE  [Registry!Next]_(Registry!vars)
  <2>1. e \in Endpoint /\ ch \in Channel /\ ~EndpointConflict(p, e)
    BY <1>2 DEF AdmitSession, EndpointConflict
  <2>2. CASE CapacityReached(p, e)
    <3>1. UNCHANGED <<grant, tableVars>>
      BY <1>1, <1>2, <2>1, <2>2, AdmissionFails DEF AdmitSession
    <3> QED
      BY <3>1, SameTableStutters DEF tableVars
  <2>3. ASSUME NEW s \in Sid, Admitted(p, e, ch, s)
        PROVE  [Registry!Next]_(Registry!vars)
    <3>1. clients[s] = NoConn
      BY <1>1, <2>3 DEF Admitted, TypeOK, ClientInv, ClientTableConsistent
    <3>2. Registry!Grant(e, p, ch)
      BY <1>1, <1>2, <2>1, <2>3, <3>1, AdmittedGrants DEF AdmitSession
    <3> QED
      BY <2>1, <3>2 DEF Registry!Next
  <2> QED
    BY <1>2, <2>2, <2>3 DEF AdmitSession
<1>3. CASE \E s \in Sid : Expire(s)
  BY <1>3, SameTableStutters DEF Expire, tableVars
<1>4. CASE RevokeAllSessions
  BY <1>4, SameTableStutters DEF RevokeAllSessions, tableVars
<1>5. CASE RevokeNext
  <2>1. PICK s \in sweep : RevokeSession(s)
    BY <1>5 DEF RevokeNext
  <2>2. s \in Sid /\ grant' = grant
    BY <1>1, <1>5 DEF TypeOK, RevokeNext
  <2> QED
    BY <1>1, <2>1, <2>2, RevokeImplements
<1>6. CASE \E c \in Conn, s \in Sid, ok \in BOOLEAN : Authenticate(c, s, ok)
  BY <1>6, SameTableStutters DEF Authenticate, tableVars
<1>7. ASSUME NEW c \in Conn, RevokeExpired(c) \/ RevokeOwn(c)
      PROVE  [Registry!Next]_(Registry!vars)
  <2>1. sid[c] \in Sid /\ RevokeSession(sid[c]) /\ grant' = grant
    BY <1>1, <1>7 DEF RevokeExpired, RevokeOwn, TypeOK, Serving
  <2> QED
    BY <1>1, <2>1, RevokeImplements
<1>8. ASSUME NEW c \in Conn, InsertClient(c)
      PROVE  [Registry!Next]_(Registry!vars)
  <2>1. CASE MayInsert(c)
    <3>1. grant[sid[c]].endpoint \in Endpoint
      BY <1>1, <2>1, RecordTypes DEF MayInsert
    <3>2. Registry!Listen(grant[sid[c]].endpoint)
      BY <1>1, <1>8, <2>1, InsertListens
    <3> QED
      BY <3>1, <3>2 DEF Registry!Next, Registry!Listen
  <2>2. CASE ~MayInsert(c)
    BY <1>8, <2>2, SameTableStutters DEF InsertClient
  <2> QED
    BY <2>1, <2>2
<1>9. ASSUME NEW c \in Conn,
             \/ CountConnection(c) \/ Greet(c) \/ Writer(c) \/ UncountConnection(c)
             \/ ProcessAudioFrame(c) \/ ReaderEnds(c)
      PROVE  [Registry!Next]_(Registry!vars)
  <2>1. UNCHANGED <<grant, live, clients>>
    BY <1>9 DEF CountConnection, Greet, Writer, Recv, CheckSession, Send,
         UncountConnection, ProcessAudioFrame, ReaderEnds, tableVars
  <2> QED
    BY <2>1, SameTableStutters
<1>10. CASE MixTick
  BY <1>10, SameTableStutters DEF MixTick
<1>11. CASE UNCHANGED vars
  BY <1>11, SameTableStutters DEF vars
<1> QED
  BY <1>2, <1>3, <1>4, <1>5, <1>6, <1>7, <1>8, <1>9, <1>10, <1>11 DEF Next, Handler

(* The session table implements the registry of bridges, for any number of  *)
(* profiles, tabs, sessions and connections.                                *)
THEOREM HubSessionsImplementRegistry == Spec => RegistryImplemented
<1>1. Spec => Registry!Init
  BY RegistryInit DEF Spec
<1> QED
  BY <1>1, InductiveInvariant, CapacityRespectedHolds, RegistryStep, PTL
     DEF Spec, RegistryImplemented, Registry!Spec
=============================================================================
