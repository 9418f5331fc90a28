---------------------------- MODULE IrmaService ----------------------------
(***************************************************************************)
(* What irma/services/IrmaService.endSession makes of the disclosed        *)
(* attributes of a session result: disclosed is a sequence of conjunctions,*)
(* each a sequence of [id, rawvalue].                                      *)
(***************************************************************************)
EXTENDS Sequences, FiniteSetsExt

CONSTANT EmptyString

ofAttribute(conjunction, attribute) ==
  {j \in DOMAIN conjunction : conjunction[j].id = attribute}

\* Mutant: no break, the last match of a conjunction wins.
matchWithoutBreak(userIdentification, conjunction, attribute) ==
  LET matches == ofAttribute(conjunction, attribute) IN
  IF matches = {} THEN userIdentification ELSE conjunction[Max(matches)].rawvalue

\* The inner loop: its first match, which breaks it, replaces what was found.
matchConjunction(userIdentification, conjunction, attribute) ==
  LET matches == ofAttribute(conjunction, attribute) IN
  IF matches = {} THEN userIdentification ELSE conjunction[Min(matches)].rawvalue

\* The outer loop goes on to the last conjunction: what is found up to each one.
foundIn(disclosed, attribute) ==
  LET upTo[i \in 0..Len(disclosed)] ==
        IF i = 0 THEN EmptyString
        ELSE matchConjunction(upTo[i - 1], disclosed[i], attribute)
  IN  upTo

endSession(disclosed, attribute) == foundIn(disclosed, attribute)[Len(disclosed)]
=============================================================================
