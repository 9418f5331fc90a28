---------------------------- MODULE MCAlgorithms ----------------------------
(***************************************************************************)
(* Bounded inputs of the pure algorithms for TLC.                          *)
(***************************************************************************)
EXTENDS AlgorithmProperties, TLC

CONSTANTS edia, nl, localhost, email, bsn, v1, v2

MCLabels == {edia, nl, localhost}
\* Two labels, one label, and three, which no host can match.
MCDomains == {<<edia, nl>>, <<localhost>>, <<localhost, edia, nl>>}
MCDisclosures == [id : {email, bsn}, rawvalue : {v1, v2}]
MCPorts == {-1, 80, 443, 8080}
\* Ids with a colon, none, and passwords of base64 with an escape for "+".
MCExpectedPassword ==
  <<"x">> :> <<"x", "+">> @@ <<"x", ":", "x">> :> <<"+">> @@ <<":">> :> <<"+">>
  @@ <<>> :> <<"x">>
MCUnescaped ==
  [escape \in {<<"%", c, d>> : c, d \in {"2", "B"}} |->
     IF escape = <<"%", "2", "B">> THEN "+" ELSE "other"]
=============================================================================
