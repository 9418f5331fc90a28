SPECIFICATION TokenSpec
CONSTANTS
  b1 = b1  s1 = s1  s2 = s2  s3 = s3  r1 = r1  r2 = r2  r3 = r3  r4 = r4
  u1 = u1  u2 = u2  c1 = c1  c2 = c2  app = app  shop = shop
  host = host  proxy = proxy
  NULL = NULL  Gone = Gone  Empty = Empty
  Browsers = {b1}
  Sessions = {s1, s2}
  Values = {u1}
  Launches <- MCLaunches
  RefreshTokens <- MCRefreshTokens
  RandomToken <- MCRandomToken
  StoreRaces = FALSE
  Requests = {r1, r2, r3}
  Clients = {c1, c2}
  RedirectUris = {app, shop}
  BaseUrls = {host}
  Instants = {0, 7201}
  Overlapping = {c2}
  ParserOutcomes = {"claims", "exception"}
  Restarts = TRUE
  LosesResponses = TRUE
SYMMETRY Interchangeable
INVARIANTS TokenTypeOK AwaitedRefreshStored RefreshConsumedOnce AnsweredAsIssued
CHECK_DEADLOCK FALSE
