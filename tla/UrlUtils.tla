------------------------------ MODULE UrlUtils ------------------------------
(***************************************************************************)
(* utils/UrlUtils.java: the base URL a request was sent to.  It is the     *)
(* audience of the tokens of /oauth2/token and the issuer that             *)
(* .well-known/openid-configuration advertises.  Scheme, host and port are *)
(* those of the request; a port of -1 is a port that was not given.        *)
(***************************************************************************)
EXTENDS Integers

\* Mutant: 80 and 443 are left out whatever the scheme.
isDefaultOfAnyScheme(serverPort, scheme) == serverPort \in {-1, 443, 80}

isDefault(serverPort, scheme) ==
  \/ serverPort = -1
  \/ serverPort = 443 /\ scheme = "https"
  \/ serverPort = 80 /\ scheme = "http"

getBaseUrl(request) ==
  IF isDefault(request.port, request.scheme)
  THEN <<request.scheme, request.host>>
  ELSE <<request.scheme, request.host, request.port>>
=============================================================================
