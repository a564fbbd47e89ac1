SPECIFICATION Spec
CONSTANTS
  Profile = {p1}
  Endpoint = {e1}
  NilEndpoint = nil
  Channel = {ch1}
  BadChannel = bad
  Sid = {s1}
  Conn = {c1}
  MaxSessions = 1
  NoGrant = NoGrant
  NoConn = NoConn
INVARIANT
  ClosedSocketReleasesSession
