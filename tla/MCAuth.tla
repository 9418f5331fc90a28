------------------------------- MODULE MCAuth -------------------------------
(***************************************************************************)
(* A small instance of the whole authorization server for TLC: one browser *)
(* logs in through /oauth2/authorize, the other visits /.                  *)
(***************************************************************************)
EXTENDS AuthProperties, TLC

CONSTANTS
  b1, b2, t1, t3, s1, s2, r1, r2, email, bsn, e1, n1, e2, n2,
  app, shop, portal, c1, c2, st1, st2, host

Uuid(s) == <<"uuid", s>>
MCRandomToken == [s \in Sessions |-> Uuid(s)]
MCRefreshTokens == {Uuid(s) : s \in Sessions} \cup
  {<<"jwt", v, a, i>> : v \in Values \cup {Empty, NULL}, a \in BaseUrls, i \in Instants}

MCBrowserOf == [t \in Tabs |-> IF t = t1 THEN b1 ELSE b2]
MCWallet == [b \in Browsers |-> [a \in Attributes |->
              {CASE b = b1 /\ a = email -> e1 [] b = b1 /\ a = bsn -> n1
                 [] b = b2 /\ a = email -> e2 [] b = b2 /\ a = bsn -> n2}]]

Authorization(client, uri, st, attribute) ==
  [kind |-> "authorize", responseType |-> "code", clientId |-> client,
   redirectUri |-> uri, state |-> st, attribute |-> attribute]
Visit(uri, attribute) ==
  [kind |-> "index", responseType |-> NULL, clientId |-> NULL,
   redirectUri |-> uri, state |-> NULL, attribute |-> attribute]

OfApp    == Authorization(c1, app, st1, email)
OfShop   == Authorization(c2, shop, st2, bsn)
ToPortal == Visit(portal, email)

MCLaunches   == {OfApp, OfShop, ToPortal}
MCLaunchesOf == [t \in Tabs |-> IF t = t1 THEN {OfApp, OfShop} ELSE {ToPortal}]

Interchangeable ==
  Permutations(Sessions) \cup Permutations(RequestorTokens) \cup Permutations(Requests)
=============================================================================
