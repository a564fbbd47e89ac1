---------------------------- MODULE MCBridgeEngine ----------------------------
(* BridgeEngine with interchangeable tabs, channels and handlers.           *)
EXTENDS BridgeEngine, TLC

Symmetry == Permutations(Tab) \cup Permutations(Channel) \cup Permutations(Call)

(* Two meetings and a tab that is only heard, or one and two that only hear.*)
SiteMixes ==
  {f \in [Tab -> Roles] : \E t \in Tab :
     /\ f[t] \in {"source", "meeting"}
     /\ \A s \in Tab \ {t} : f[s] = IF f[t] = "source" THEN "page" ELSE "receiver"}

(* One tab that is only heard.                                              *)
OneSource == {[t \in Tab |-> "source"]}

Switched == Cardinality({c \in Channel : micMuted[c]}) + (IF selfMuted THEN 1 ELSE 0)
Served ==
  Cardinality({t \in Present(routes) : routes[t].hub}) +
  Cardinality({t \in Present(routes) : routes[t].pageMic})
Stale ==
  Cardinality({t \in Present(routes) : ~routes[t].live}) +
  (IF microphone = "stale" THEN 1 ELSE 0)

InFlight == Cardinality({k \in Call : call[k].at # "idle"})

(* A bound on what is unusual at once: a switch that is on, a tab with a Hub*)
(* session or a page's microphone, something stale.  One of them is followed*)
(* further; two, or one that is stale, only while at most one handler is in *)
(* flight.                                                                  *)
Few ==
  /\ Switched + Stale <= 1 /\ Served + Stale <= 1
  /\ Stale = 1 \/ Switched + Served = 2 => InFlight <= 1
=============================================================================
