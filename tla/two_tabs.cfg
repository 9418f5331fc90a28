SPECIFICATION Spec
CONSTANTS
  b1 = b1  b2 = b2  t1 = t1  t2 = t2  t3 = t3  s1 = s1  s2 = s2  s3 = s3
  email = email  bsn = bsn  e1 = e1  n1 = n1  e2 = e2  n2 = n2
  app = app  shop = shop  portal = portal  c1 = c1  c2 = c2  st1 = st1  st2 = st2
  NULL = NULL  Gone = Gone  Empty = Empty
  Browsers = {b1, b2}
  Tabs = {t1, t2}
  BrowserOf <- MCBrowserOf
  DesktopTabs = {t1}
  LaunchesOf <- AnyLaunch
  Sessions = {s1, s2}
  RequestorTokens = {k1, k2}
  Values = {e1, n1, e2, n2}
  Attributes = {email, bsn}
  Wallet <- MCWallet
  DefaultAttribute = email
  AllowedAttributes = {email, bsn}
  ValidateAttribute = TRUE
  AllowedUris = {portal, shop}
  ValidateRedirectDomain = FALSE
  Launches <- VisitLaunches
  RefreshTokens <- MCRefreshTokens
  RandomToken <- MCRandomToken
  StoreRaces = FALSE
  Faults = {}

INVARIANTS SubjectIdentified

