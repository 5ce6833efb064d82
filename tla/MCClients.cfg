SPECIFICATION MCSpec
CONSTANTS
  s1 = s1
  s2 = s2
  i1 = i1
  i2 = i2
  alice = alice
  bob = bob
  acme = acme
  shop = shop
  Terminal = {t1, t2}
  Issuer = {i1, i2}
  Server = {s1, s2}
  NoServer = NoServer
  NoIssuer = NoIssuer
  NoTerminal = NoTerminal
  NoToken = NoToken
  NoSelection = NoSelection
  Torn = Torn
  Reach <- MCReach
  MaxCommands = 2
  MaxAging = 1
  MaxRedirects = 3
  Command = {c1, c2}
  User = {alice, bob}
  Caller = {bob}
  Offered = {bob}
  Tenant = {acme}
  Project = {shop}
  TenantWide = TenantWide
  Nobody = Nobody
  NoTenant = NoTenant
  NoGrant = NoGrant
  Seeds <- MCSeeds
  Remembered <- MCRemembered
  MaxRequests = 2
  MaxClusters = 2
INVARIANTS
  RemembersLast
  ActsWhereSaid
  SessionInv
  SelfServiceInv
SYMMETRY TerminalSymmetry
CHECK_DEADLOCK FALSE
