SPECIFICATION Spec
CONSTANTS
  Profile = {p1, p2}
  Endpoint = {e1, e2}
  NilEndpoint = nil
  Channel = {ch1}
  BadChannel = bad
  Sid = {s1, s2, s3}
  Conn = {c1, c2}
  MaxSessions = 2
  NoGrant = NoGrant
  NoConn = NoConn
SYMMETRY Symmetry
INVARIANTS
  TypeOK
  EndpointOwnership
  ClientTableConsistent
  OneConnectionPerSession
  QueuesHoldLiveAudio
  CountCoversConnections
