--------------------- MODULE ClientCredentialValidator ---------------------
(***************************************************************************)
(* Basic authentication of a client at the token endpoint: Oauth2Controller*)
(* .validateAuthorization and oauth/service/ClientCredentialValidator.java.*)
(* Texts are sequences of characters; "blank" is the blank.  The password  *)
(* of a client is base64 of an MD5 over the secret and its id.             *)
(***************************************************************************)
EXTENDS Sequences, FiniteSetsExt

CONSTANTS
  expectedPassword,  \* of each client id
  unescaped          \* what "%" and two hexadecimal digits stand for

\* Base64 of 16 bytes: not empty, and no colon in it.
ASSUME PasswordAssumption ==
  \A clientId \in DOMAIN expectedPassword :
    LET password == expectedPassword[clientId] IN
    /\ clientId \in Seq(Range(clientId))
    /\ password \in Seq(Range(password) \ {":"}) \ {<<>>}

ASSUME EscapeAssumption ==
  \A escape \in DOMAIN unescaped :
    /\ escape \in Seq(Range(escape)) /\ Len(escape) = 3
    /\ escape[1] = "%" /\ ":" \notin Range(escape)

\* Where the regular expression (.+):(.+) can split a text.
splits(line) == {i \in 2..Len(line) - 1 : line[i] = ":"}

\* Mutant: reluctant groups.
splitAtFirst(line) == Min(splits(line))

\* The first group is greedy.
splitAt(line) == Max(splits(line))

(***************************************************************************)
(* java.net.URLDecoder (external), a character at a time: what it has      *)
(* decoded, and a "%" with what follows it until that is an escape.  One   *)
(* that never becomes an escape makes it throw.                            *)
(***************************************************************************)
decodeNext(decoder, c) ==
  LET escape == Append(decoder.escape, c) IN
  IF decoder.escape = <<>> /\ c # "%"
  THEN [decoder EXCEPT !.decoded = Append(@, IF c = "+" THEN "blank" ELSE c)]
  ELSE IF escape \in DOMAIN unescaped
  THEN [decoded |-> Append(decoder.decoded, unescaped[escape]), escape |-> <<>>]
  ELSE [decoder EXCEPT !.escape = escape]

urlDecoder(text) ==
  LET after[i \in 0..Len(text)] ==
        IF i = 0 THEN [decoded |-> <<>>, escape |-> <<>>]
        ELSE decodeNext(after[i - 1], text[i])
  IN  after

validateCredentials(clientId, userName, password) ==
  userName = clientId /\ password = expectedPassword[clientId]

\* A password that cannot be decoded is refused.
validateAuthorization(authorization, clientId) ==
  /\ authorization.scheme = "Basic"
  /\ splits(authorization.line) # {}
  /\ LET line     == authorization.line
         userName == SubSeq(line, 1, splitAt(line) - 1)
         password == SubSeq(line, splitAt(line) + 1, Len(line))
         decoder  == urlDecoder(password)[Len(password)]
     IN  \/ validateCredentials(clientId, userName, password)
         \/ /\ decoder.escape = <<>>
            /\ validateCredentials(clientId, userName, decoder.decoded)
=============================================================================
