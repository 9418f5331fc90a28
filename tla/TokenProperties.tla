-------------------------- MODULE TokenProperties --------------------------
(***************************************************************************)
(* What TokenEndpoint must guarantee.                                      *)
(***************************************************************************)
EXTENDS TokenEndpoint, FiniteSets

\* Every variable of the token endpoint has the type its Java field has.
TokenTypeOK ==
  /\ ServiceTypeOK
  /\ now \in Instants
  /\ req \in [Requests -> Request]

Issues(r, token) == req[r].refreshToken = token

\* Request r has taken token out of the map, and found a session with it.
Consumes(r, token) == req[r].presented = token /\ req[r].session # NULL

\* What reached a client: tokens of a session the server still has.
Answered(r) == req[r].at = "answered" /\ Live(req[r].session)
HandedOut(r) == Answered(r) /\ req[r].refreshToken # NULL

(***************************************************************************)
(* A refresh token names nothing but user, audience and second, so two     *)
(* sessions of one user can be issued the same one.                        *)
(***************************************************************************)
Shared(token) ==
  \E r, q \in Requests :
    /\ Issues(r, token) /\ Issues(q, token)
    /\ req[r].session # req[q].session

(***************************************************************************)
(* A client that presents only tokens that nobody else was issued, and     *)
(* whose tokens nobody else presents.                                      *)
(***************************************************************************)
KeepsToItself(client) ==
  \A r, q \in Requests :
    (req[r].presented # NULL /\ Issues(q, req[r].presented)) =>
      (req[r].client = client <=> req[q].client = client)

(***************************************************************************)
(* A client that awaits each answer before it sends again, and keeps to    *)
(* its own tokens.  Other clients may do as they like.                     *)
(***************************************************************************)
Awaits(client) == client \notin Overlapping /\ KeepsToItself(client)

(***************************************************************************)
(* A client's refresh token stays in STORE_REFRESH_TOKEN, for the session  *)
(* it was issued for (unless another session shares it), until tokenRefresh*)
(* takes it out -- for good, whatever becomes of that request.  That holds *)
(* for clients that await their answers, and not when the requests of one  *)
(* client overlap.                                                         *)
(***************************************************************************)
Stored(r) ==
  LET token == req[r].refreshToken IN
  \/ storeRefresh[token] = req[r].session
  \/ \E q \in Requests : Consumes(q, token)
  \/ Shared(token)

IssuedRefreshStored == \A r \in Requests : HandedOut(r) => Stored(r)

AwaitedRefreshStored ==
  \A r \in Requests : HandedOut(r) /\ Awaits(req[r].client) => Stored(r)

(***************************************************************************)
(* A refresh token is found at most once for each time it was issued, also *)
(* when a response was lost and the client sends it again: the put after   *)
(* setRefreshToken never brings a consumed token back.                     *)
(***************************************************************************)
RefreshConsumedOnce ==
  \A token \in Jwts :
    (\A r \in Requests : Issues(r, token) => Awaits(req[r].client)) =>
      Cardinality({r \in Requests : Consumes(r, token)})
        <= Cardinality({r \in Requests : Issues(r, token)})

(***************************************************************************)
(* A code is only answered to the client of its session.  A refresh is     *)
(* answered, to whichever client sends it, for a session that the token    *)
(* was issued for -- however requests overlap, and although store() reads  *)
(* the token from an object that other requests write.                     *)
(***************************************************************************)
AnsweredAsIssued ==
  \A r \in Requests :
    Answered(r) =>
      LET s == req[r].session IN
      IF req[r].presented = NULL
      THEN heap[s].request.clientId = req[r].client
      ELSE \E q \in Requests \ {r} : Issues(q, req[r].presented) /\ req[q].session = s
=============================================================================
