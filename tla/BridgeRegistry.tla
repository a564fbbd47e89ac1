--------------------------- MODULE BridgeRegistry ---------------------------
(***************************************************************************)
(* What the hub promises about audio bridges, without session ids, secrets,*)
(* sockets or locks: an endpoint (one meeting tab) has at most one bridge, *)
(* owned by one profile and bound to one channel; only the owner may renew *)
(* it; a bridge has at most one listening audio connection, and renewing   *)
(* or releasing the bridge always ends that connection; and there are never*)
(* more than MaxBridges bridges.  HubSessions implements this module.      *)
(***************************************************************************)
EXTENDS Naturals, FiniteSets

CONSTANTS
  Profile,      \* browser profiles
  Endpoint,     \* meeting tabs
  Channel,      \* the channels of the three-channel contract
  MaxBridges,   \* HubConfig.max_sessions
  NoBridge      \* an endpoint that has no bridge

VARIABLES
  bridge,       \* [Endpoint -> [profile, channel] or NoBridge]
  listening     \* the endpoints whose bridge has an audio connection

vars == <<bridge, listening>>

Bridge == [profile : Profile, channel : Channel]

Bridged == {e \in Endpoint : bridge[e] # NoBridge}

Init ==
  /\ bridge = [e \in Endpoint |-> NoBridge]
  /\ listening = {}

(* The first grant of an endpoint, or a renewal by the profile that owns it.  *)
Grant(e, p, ch) ==
  /\ bridge[e] # NoBridge => bridge[e].profile = p
  /\ Cardinality(Bridged \ {e}) < MaxBridges
  /\ bridge' = [bridge EXCEPT ![e] = [profile |-> p, channel |-> ch]]
  /\ listening' = listening \ {e}

Listen(e) ==
  /\ e \in Bridged \ listening
  /\ listening' = listening \cup {e}
  /\ UNCHANGED bridge

Release(e) ==
  /\ e \in Bridged
  /\ bridge' = [bridge EXCEPT ![e] = NoBridge]
  /\ listening' = listening \ {e}

Next ==
  \E e \in Endpoint :
    \/ \E p \in Profile, ch \in Channel : Grant(e, p, ch)
    \/ Listen(e)
    \/ Release(e)

Spec == Init /\ [][Next]_vars
=============================================================================
