SPECIFICATION FairSpec
CONSTANTS
  Profile = {p1}
  Endpoint = {e1, e2, e3}
  NilEndpoint = nil
  Channel = {ch1, ch2}
  BadChannel = bad
  Sid = {s1, s2}
  Conn = {c1}
  MaxSessions = 2
  NoGrant = NoGrant
  NoConn = NoConn
INVARIANT
  MixerMatchesSessions
PROPERTIES
  RegistryImplemented
  FailedAdmissionChangesNothing
  RevokedConnectionCloses
  SweepRevokesAll
  HangUpReleasesSession
