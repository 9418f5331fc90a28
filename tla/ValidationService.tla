------------------------- MODULE ValidationService -------------------------
(***************************************************************************)
(* irma/services/ValidationService.java: which attributes may be asked for *)
(* and to which hosts a result may go.  Each operator says what is         *)
(* accepted; the code throws a ValidationException on the rest.            *)
(*                                                                         *)
(* A host is the sequence of its labels, a trailing dot being an empty     *)
(* last label.  Patterns and attributes are sequences of characters.       *)
(***************************************************************************)
EXTENDS Naturals, Sequences

CONSTANTS
  EmptyLabel,
  NoHost       \* URI.getHost() of a URI that has none

-----------------------------------------------------------------------------
\* Mutant: a pattern without the optional group for further labels.
getDomainOfTwoLabels(host) == host

\* The regular expression (.*\.)?([^.]+\.[^.]+): its second group, or the host.
getDomainFromHost(host) ==
  LET n == Len(host) IN
  IF n >= 2 /\ EmptyLabel \notin {host[n - 1], host[n]}
  THEN SubSeq(host, n - 1, n) ELSE host

\* A URI without a host is refused even where domains are not validated.
validateRedirectUri(allowedDomains, validate, host) ==
  /\ host # NoHost
  /\ getDomainFromHost(host) \in allowedDomains \/ ~validate

-----------------------------------------------------------------------------
(***************************************************************************)
(* java.util.regex on an allowed attribute whose every "*" has become ".*".*)
(* upTo[i]: how many of the first characters of the text the first i of    *)
(* the pattern can consume.  A dot that was in the pattern is any character*)
(***************************************************************************)
consumes(character, text, from, to) ==
  \/ character = "*" /\ from <= to
  \/ character # "*" /\ to = from + 1 /\ character \in {".", text[to]}

consumeNext(character, text, starts) ==
  {to \in 0..Len(text) : \E from \in starts : consumes(character, text, from, to)}

consumed(pattern, text) ==
  LET upTo[i \in 0..Len(pattern)] ==
        IF i = 0 THEN {0} ELSE consumeNext(pattern[i], text, upTo[i - 1])
  IN  upTo

regexMatches(pattern, text) == Len(text) \in consumed(pattern, text)[Len(pattern)]

\* Mutant: Matcher.find() where the code has Pattern.matches().
findsAttribute(pattern, attribute) ==
  \E i \in 1..Len(attribute) + 1, j \in 0..Len(attribute) :
    i <= j + 1 /\ regexMatches(pattern, SubSeq(attribute, i, j))

matchesAttribute(pattern, attribute) == regexMatches(pattern, attribute)

validateAttribute(allowedAttributes, validate, attribute) ==
  (\E pattern \in allowedAttributes : matchesAttribute(pattern, attribute)) \/ ~validate
=============================================================================
