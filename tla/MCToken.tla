------------------------------ MODULE MCToken ------------------------------
(***************************************************************************)
(* Small instances of the token endpoint for TLC.                          *)
(***************************************************************************)
EXTENDS TokenProperties, TLC

CONSTANTS b1, s1, s2, s3, r1, r2, r3, r4, u1, u2, c1, c2, app, shop, host, proxy

Uuid(s) == <<"uuid", s>>
MCRandomToken == [s \in Sessions |-> Uuid(s)]
MCRefreshTokens == {Uuid(s) : s \in Sessions} \cup
  {<<"jwt", v, a, i>> : v \in Values \cup {Empty, NULL}, a \in BaseUrls, i \in Instants}

Authorization(client, uri) == [clientId |-> client, redirectUri |-> uri]
MCLaunches == {Authorization(c1, app), Authorization(c2, shop)}
OneClient == {Authorization(c1, app)}

Interchangeable == Permutations(Sessions) \cup Permutations(Requests)
                     \cup Permutations(Values)
=============================================================================
