--------------------------- MODULE SessionAnswer ---------------------------
(***************************************************************************)
(* The url that irma/controller/SessionController.stopSession answers with.*)
(* A url is a sequence of parts: "?", "&", "#" where they occur, anything  *)
(* else in between.                                                        *)
(***************************************************************************)
EXTENDS SequencesExt

\* Mutant: always a "?".
appendWithQuestionMark(url, parameter) == url \o <<"?", parameter>>

appendToUrl(url, parameter) ==
  url \o (IF Contains(url, "?") THEN <<"&", parameter>> ELSE <<"?", parameter>>)

codeAnswer(redirectUri, code, state) ==
  appendToUrl(appendToUrl(redirectUri, code), state)

tokenAnswer(redirectUri, token) == appendToUrl(redirectUri, token)

(***************************************************************************)
(* How whoever is redirected reads a url (external): the parameters are    *)
(* between the first "?" and the fragment, separated by "&".               *)
(***************************************************************************)
firstOf(url, part) == Min({i \in DOMAIN url : url[i] = part})

beforeFragment(url) ==
  IF Contains(url, "#") THEN SubSeq(url, 1, firstOf(url, "#") - 1) ELSE url

\* The parameters that are read up to each part of a query.
separated(query) ==
  LET upTo[k \in 0..Len(query)] ==
        IF k = 0 THEN <<>>
        ELSE IF query[k] = "&" THEN upTo[k - 1]
        ELSE Append(upTo[k - 1], query[k])
  IN  upTo

parameters(url) ==
  LET sent  == beforeFragment(url)
      query == SubSeq(sent, firstOf(sent, "?") + 1, Len(sent))
  IN  IF Contains(sent, "?") THEN separated(query)[Len(query)] ELSE <<>>
=============================================================================
