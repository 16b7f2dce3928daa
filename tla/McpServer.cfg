SPECIFICATION ServerSpec
CONSTANTS
  Users = {u1}
  Clients = {c1, c2}
  Uris = {loopback, plain}
  AllowedUris = {loopback}
  Challenges = {k1}
  ScopeNames = {"claims:read", "claims:write"}
  UnknownScope = "other"
  Tools = {"extract"}
  CodeTtl = 1
  AccessTtl = 1
  RefreshTtl = 1
  SessionTtl = 1
  MaxClock = 1
  MaxSessions = 1
  MaxCodes = 2
  MaxPairs = 3
  MaxApprovals = 2
  MaxFlight = 1
SYMMETRY ClientSymmetry
CHECK_DEADLOCK FALSE
INVARIANTS
  ServerTypeOK
  DeadFamiliesStayDead
  LiveFamiliesHaveOneHeir
  TokensTraceToCodes
  DecisionFollowsScreen
  CallsTraceToApproval
PROPERTIES
  CodesNeedApproval
  NoCallEntersAfterRevocation
