-------------------------- MODULE AuthProperties --------------------------
(***************************************************************************)
(* What AuthService must guarantee: from a wallet to the tokens of a       *)
(* relying party, across the login flow and the token endpoint.            *)
(***************************************************************************)
EXTENDS AuthService

\* The subjects of the id and the access token that request r has made.
Subject(r) == {req[r].idSubject, req[r].accessSubject} \ {NULL}

\* Request r is answered for the session whose code went out with d.
AnswersFor(r, d) == req[r].session # NULL /\ d.code = Code(req[r].session)

(***************************************************************************)
(* A token that a client gets for a code names somebody whom the user of   *)
(* the browser that brought the code has disclosed before (or nobody),     *)
(* however tabs, logins of one session, exchanges and refreshes overlap:   *)
(* CreateIdToken and CreateAccessToken read what stopSession writes.       *)
(***************************************************************************)
TokensNameDiscloser ==
  \A r \in Requests, d \in delivered :
    AnswersFor(r, d) => Subject(r) \subseteq Disclosed(d.browser) \cup {Empty}

(***************************************************************************)
(* While no browser has two tabs and none mixes /oauth2/authorize with /,  *)
(* every token of a session, first or refreshed, names the person whom the *)
(* page that brought the code has identified: an id token and an access    *)
(* token never disagree.                                                   *)
(***************************************************************************)
TokensAgree ==
  \A r \in Requests, d \in delivered : AnswersFor(r, d) => Subject(r) \subseteq {d.subject}
=============================================================================
