------------------------ MODULE AlgorithmProperties ------------------------
(***************************************************************************)
(* The pure algorithms of the login flow, each against a reference         *)
(* definition, over inputs that grow a piece at a time.                    *)
(***************************************************************************)
EXTENDS ValidationService, IrmaService, SessionAnswer, UrlUtils, ClientCredentialValidator

CONSTANTS
  Labels, Domains,          \* of hosts, and the allowed domains
  PatternChars, AttributeChars,
  Disclosures, Asked,       \* what can be disclosed, the attribute asked for
  UriParts,
  Ports,                    \* that a request can name, or -1
  LineChars,                \* of the credentials a client sends
  \* bounds
  MaxLabels, MaxChars, MaxConjunctions, MaxDisclosures, MaxParts, MaxLine

\* No label is empty, and no allowed domain.
ASSUME InputAssumption ==
  /\ EmptyLabel \notin Labels
  /\ Domains \subseteq Seq(Labels) \ {<<>>}
  /\ NoHost \notin Seq(Labels \cup {EmptyLabel})
  /\ MaxLabels \in Nat

VARIABLE input

inputVars == <<input>>

Host(labels) == [of |-> "host", host |-> labels]
Text(pattern, attribute) == [of |-> "text", pattern |-> pattern, attribute |-> attribute]
Result(disclosed) == [of |-> "result", disclosed |-> disclosed]
Uri(parts) == [of |-> "uri", parts |-> parts]
Requests == [scheme : {"http", "https"}, host : {"app", "proxy"}, port : Ports]
Origin(request) == [of |-> "origin", request |-> request]
Credentials(scheme, line) == [of |-> "credentials", scheme |-> scheme, line |-> line]

InputInit ==
  input \in {Host(NoHost), Text(<<>>, <<>>), Result(<<>>), Uri(<<"path">>)}
            \cup {Origin(r) : r \in Requests}
            \cup {Credentials(s, <<>>) : s \in {"Basic", "Bearer"}}
            \cup {Host(<<l>>) : l \in Labels} \cup {Host(<<l, EmptyLabel>>) : l \in Labels}

AddLabel ==
  /\ input.of = "host" /\ input.host # NoHost /\ Len(input.host) < MaxLabels
  /\ \E l \in Labels : input' = Host(<<l>> \o input.host)

AddPatternChar ==
  /\ input.of = "text" /\ Len(input.pattern) < MaxChars
  /\ \E c \in PatternChars : input' = Text(Append(input.pattern, c), input.attribute)

AddAttributeChar ==
  /\ input.of = "text" /\ Len(input.attribute) < MaxChars
  /\ \E c \in AttributeChars : input' = Text(input.pattern, Append(input.attribute, c))

AddConjunction ==
  /\ input.of = "result" /\ Len(input.disclosed) < MaxConjunctions
  /\ input' = Result(Append(input.disclosed, <<>>))

AddDisclosure ==
  /\ input.of = "result" /\ input.disclosed # <<>>
  /\ LET last == Len(input.disclosed) IN
     /\ Len(input.disclosed[last]) < MaxDisclosures
     /\ \E d \in Disclosures :
          input' = Result([input.disclosed EXCEPT ![last] = Append(@, d)])

AddPart ==
  /\ input.of = "uri" /\ Len(input.parts) < MaxParts
  /\ \E p \in UriParts : input' = Uri(Append(input.parts, p))

AddLineChar ==
  /\ input.of = "credentials" /\ Len(input.line) < MaxLine
  /\ \E c \in LineChars : input' = Credentials(input.scheme, Append(input.line, c))

InputNext ==
  \/ AddLabel \/ AddPatternChar \/ AddAttributeChar
  \/ AddConjunction \/ AddDisclosure \/ AddPart \/ AddLineChar

InputSpec == InputInit /\ [][InputNext]_inputVars

-----------------------------------------------------------------------------
EndsIn(host, domain) ==
  /\ Len(domain) <= Len(host)
  /\ domain = SubSeq(host, Len(host) - Len(domain) + 1, Len(host))

(***************************************************************************)
(* validateRedirectUri accepts exactly the hosts that end, label by label, *)
(* in an allowed domain of two labels, and a host that is itself an        *)
(* allowed name of one label -- never one that only ends in its letters,   *)
(* and with validation off any host, but still not a URI without a host.   *)
(***************************************************************************)
AcceptsHostsOfAllowedDomains ==
  input.of = "host" =>
    /\ validateRedirectUri(Domains, FALSE, input.host) <=> input.host # NoHost
    /\ validateRedirectUri(Domains, TRUE, input.host) <=>
         /\ input.host # NoHost
         /\ \E domain \in Domains :
              \/ Len(domain) = 2 /\ EndsIn(input.host, domain)
              \/ Len(domain) = 1 /\ input.host = domain

(***************************************************************************)
(* validateAttribute accepts exactly the attributes that some way of       *)
(* cutting them into pieces spells as the pattern: a piece for each of its *)
(* characters, of any length for "*" and otherwise one character, the same *)
(* one, except that anything may stand where the pattern has a dot.        *)
(***************************************************************************)
Spells(pattern, attribute) ==
  \E upTo \in [0..Len(pattern) -> 0..Len(attribute)] :
    /\ upTo[0] = 0 /\ upTo[Len(pattern)] = Len(attribute)
    /\ \A i \in DOMAIN pattern :
         \/ pattern[i] = "*" /\ upTo[i - 1] <= upTo[i]
         \/ /\ pattern[i] # "*" /\ upTo[i] = upTo[i - 1] + 1
            /\ pattern[i] \in {".", attribute[upTo[i]]}

AcceptsSpelledAttributes ==
  input.of = "text" =>
    (validateAttribute({input.pattern}, TRUE, input.attribute)
       <=> Spells(input.pattern, input.attribute))

(***************************************************************************)
(* endSession returns a value that was disclosed of the attribute asked    *)
(* for -- the first one in the last conjunction that has any -- and the    *)
(* empty string exactly when none was.                                     *)
(***************************************************************************)
Discloses(conjunction) == {j \in DOMAIN conjunction : conjunction[j].id = Asked}

ReturnsDisclosedValue ==
  input.of = "result" =>
    LET value == endSession(input.disclosed, Asked)
        with == {i \in DOMAIN input.disclosed : Discloses(input.disclosed[i]) # {}}
    IN  \/ with = {} /\ value = EmptyString
        \/ \E i \in with : \E j \in Discloses(input.disclosed[i]) :
             /\ \A k \in with : k <= i
             /\ \A k \in Discloses(input.disclosed[i]) : j <= k
             /\ value = input.disclosed[i][j].rawvalue

(***************************************************************************)
(* Whatever parameters a redirect_uri has (but no fragment), the relying   *)
(* party reads them unchanged, followed by the code and the state, or by   *)
(* the token.                                                              *)
(***************************************************************************)
ParametersArrive ==
  (input.of = "uri" /\ beforeFragment(input.parts) = input.parts) =>
    /\ parameters(codeAnswer(input.parts, "code", "state"))
         = parameters(input.parts) \o <<"code", "state">>
    /\ parameters(tokenAnswer(input.parts, "token"))
         = parameters(input.parts) \o <<"token">>

(***************************************************************************)
(* Two requests get the same base URL exactly when they were sent to the   *)
(* same origin, so a client that addresses the server one way finds its    *)
(* audience in its tokens, and one that addresses it another way does not. *)
(***************************************************************************)
PortOf(request) ==
  IF request.port # -1 THEN request.port
  ELSE IF request.scheme = "https" THEN 443 ELSE 80

BaseUrlIsOrigin ==
  input.of = "origin" =>
    \A other \in Requests :
      getBaseUrl(other) = getBaseUrl(input.request) <=>
        /\ other.scheme = input.request.scheme
        /\ other.host = input.request.host
        /\ PortOf(other) = PortOf(input.request)

(***************************************************************************)
(* A client is let in on its id and its password, also when the id has a   *)
(* colon in it, with the password as it is or as any text that URL-decodes *)
(* to it -- one that can be cut into pieces, each of them a character of   *)
(* the password or an escape for it; on nothing else, only with Basic      *)
(* authentication, and without an id never.                                *)
(***************************************************************************)
IsPiece(text, i, j, c) ==
  \/ /\ j = i + 1 /\ text[j] # "%"
     /\ c = IF text[j] = "+" THEN "blank" ELSE text[j]
  \/ LET escape == <<text[i + 1], text[i + 2], text[i + 3]>> IN
     j = i + 3 /\ escape \in DOMAIN unescaped /\ c = unescaped[escape]

DecodesTo(text, word) ==
  \E upTo \in [0..Len(word) -> 0..Len(text)] :
    /\ upTo[0] = 0 /\ upTo[Len(word)] = Len(text)
    /\ \A k \in DOMAIN word : IsPiece(text, upTo[k - 1], upTo[k], word[k])

LetsInOwnCredentials ==
  input.of = "credentials" =>
    \A clientId \in DOMAIN expectedPassword :
      LET password == expectedPassword[clientId]
          start    == Len(clientId) + 1
          rest     == SubSeq(input.line, start + 1, Len(input.line))
      IN  validateAuthorization(input, clientId) <=>
            /\ input.scheme = "Basic" /\ clientId # <<>>
            /\ start <= Len(input.line)
            /\ SubSeq(input.line, 1, start) = Append(clientId, ":")
            /\ rest = password \/ DecodesTo(rest, password)
=============================================================================
