------------------------------ MODULE MCLogin ------------------------------
(***************************************************************************)
(* Small instances of the login flow for TLC.                              *)
(***************************************************************************)
EXTENDS LoginProperties, TLC

CONSTANTS
  b1, b2, t1, t2, t3, s1, s2, s3, email, bsn, e1, n1, e2, n2,
  app, shop, portal, c1, c2, st1, st2

\* In STORE_REFRESH_TOKEN the login flow only ever puts the random tokens.
Uuid(s) == <<"uuid", s>>
MCRefreshTokens == {Uuid(s) : s \in Sessions}
MCRandomToken == [s \in Sessions |-> Uuid(s)]

MCBrowserOf == [t \in Tabs |-> IF t = t3 THEN b2 ELSE b1]
MCWallet == [b \in Browsers |-> [a \in Attributes |->
              {CASE b = b1 /\ a = email -> e1 [] b = b1 /\ a = bsn -> n1
                 [] b = b2 /\ a = email -> e2 [] b = b2 /\ a = bsn -> n2}]]

Authorization(client, uri, st, attribute) ==
  [kind |-> "authorize", responseType |-> "code", clientId |-> client,
   redirectUri |-> uri, state |-> st, attribute |-> attribute]
Visit(uri, attribute) ==
  [kind |-> "index", responseType |-> NULL, clientId |-> NULL,
   redirectUri |-> uri, state |-> NULL, attribute |-> attribute]

OfApp  == Authorization(c1, app, st1, NULL)      \* the default attribute
OfShop == Authorization(c2, shop, st2, bsn)
Implicit == [OfShop EXCEPT !.responseType = "token"]
ToPortal == Visit(portal, email)
ToShop   == Visit(shop, bsn)

MixedLaunches == {OfApp, ToShop}
OauthLaunches == {OfApp, OfShop, Implicit}
VisitLaunches == {ToPortal, ToShop}
AllLaunches   == OauthLaunches \cup VisitLaunches

\* Each browser keeps to one way of logging in, or everybody follows any link.
OneWayEach == [t \in Tabs |-> IF t = t3 THEN VisitLaunches ELSE OauthLaunches]
AnyLaunch  == [t \in Tabs |-> Launches]

Interchangeable == Permutations(Sessions) \cup Permutations(RequestorTokens)
=============================================================================
