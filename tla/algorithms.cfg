SPECIFICATION InputSpec
CONSTANTS
  edia = edia  nl = nl  localhost = localhost
  email = email  bsn = bsn  v1 = v1  v2 = v2
  EmptyLabel = EmptyLabel  NoHost = NoHost  EmptyString = EmptyString
  Labels <- MCLabels
  Domains <- MCDomains
  PatternChars = {"a", "b", ".", "*"}
  AttributeChars = {"a", "b", "."}
  Disclosures <- MCDisclosures
  Asked = email
  UriParts = {"?", "&", "#", "part"}
  Ports <- MCPorts
  LineChars = {"x", ":", "+", "%", "2", "B"}
  expectedPassword <- MCExpectedPassword
  unescaped <- MCUnescaped
  MaxLine = 6
  MaxLabels = 4
  MaxChars = 4
  MaxConjunctions = 3
  MaxDisclosures = 2
  MaxParts = 6
INVARIANTS AcceptsHostsOfAllowedDomains AcceptsSpelledAttributes ReturnsDisclosedValue ParametersArrive BaseUrlIsOrigin LetsInOwnCredentials
CHECK_DEADLOCK FALSE
