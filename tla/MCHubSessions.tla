--------------------------- MODULE MCHubSessions ----------------------------
EXTENDS HubSessions, TLC
Symmetry ==
  Permutations(Profile) \cup Permutations(Endpoint) \cup Permutations(Sid)
    \cup Permutations(Conn)
=============================================================================
