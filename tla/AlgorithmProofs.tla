-------------------------- MODULE AlgorithmProofs --------------------------
(***************************************************************************)
(* What the pure algorithms of the login flow do, for inputs of any length.*)
(* Where one is recursive, its recursion is first shown to have a solution *)
(* (the one that its reference definition gives, or one that grows from    *)
(* the start); what is said of the solution then holds at every place,     *)
(* because the least place where it did not would not be the least.        *)
(***************************************************************************)
EXTENDS AlgorithmProperties, WellFoundedInduction, TLAPS

(***************************************************************************)
(* Inputs of every kind, grown to any length.                              *)
(***************************************************************************)
Hosts == Seq(Labels \cup {EmptyLabel}) \ {<<>>}

InputInv ==
  /\ input.of = "host" => input.host \in Hosts \cup {NoHost}
  /\ input.of = "text" => /\ input.pattern \in Seq(PatternChars)
                         /\ input.attribute \in Seq(AttributeChars)
  /\ input.of = "result" => input.disclosed \in Seq(Seq(Disclosures))
  /\ input.of = "uri" => input.parts \in Seq(UriParts \cup {"path"})
  /\ input.of = "origin" => input.request \in Requests
  /\ input.of = "credentials" => input.line \in Seq(LineChars)

LEMMA InputInvariance == InputSpec => []InputInv
<1>1. InputInit => InputInv
  <2> SUFFICES ASSUME InputInit PROVE InputInv
    OBVIOUS
  <2>1. CASE input = Host(NoHost) \/ input = Text(<<>>, <<>>) \/ input = Result(<<>>)
    <3>1. <<>> \in Seq(PatternChars) /\ <<>> \in Seq(AttributeChars)
          /\ <<>> \in Seq(Seq(Disclosures))
      OBVIOUS
    <3>2. CASE input = Host(NoHost)
      BY <3>2 DEF Host, InputInv
    <3>3. CASE input = Text(<<>>, <<>>)
      BY <3>1, <3>3 DEF Text, InputInv
    <3>4. CASE input = Result(<<>>)
      BY <3>1, <3>4 DEF Result, InputInv
    <3> QED
      BY <2>1, <3>2, <3>3, <3>4
  <2>2. ASSUME NEW l \in Labels, input \in {Host(<<l>>), Host(<<l, EmptyLabel>>)}
        PROVE  InputInv
    <3>1. <<l>> \in Hosts /\ <<l, EmptyLabel>> \in Hosts
      BY DEF Hosts
    <3> QED
      BY <2>2, <3>1 DEF Host, InputInv
  <2>3. CASE input = Uri(<<"path">>)
    <3>1. <<"path">> \in Seq(UriParts \cup {"path"})
      OBVIOUS
    <3> QED
      BY <2>3, <3>1 DEF Uri, InputInv
  <2>4. ASSUME NEW r \in Requests, input = Origin(r)
        PROVE  InputInv
    BY <2>4 DEF Origin, InputInv
  <2>5. ASSUME NEW s, input = Credentials(s, <<>>)
        PROVE  InputInv
    <3>1. <<>> \in Seq(LineChars)
      OBVIOUS
    <3> QED
      BY <2>5, <3>1 DEF Credentials, InputInv
  <2> QED
    BY <2>1, <2>2, <2>3, <2>4, <2>5 DEF InputInit
<1>2. InputInv /\ [InputNext]_inputVars => InputInv'
  <2> SUFFICES ASSUME InputInv, [InputNext]_inputVars PROVE InputInv'
    OBVIOUS
  <2>1. CASE AddLabel
    <3>1. PICK l \in Labels : input' = Host(<<l>> \o input.host)
      BY <2>1 DEF AddLabel
    <3>2. input.host \in Hosts
      BY <2>1 DEF AddLabel, InputInv
    <3>3. <<l>> \o input.host \in Hosts
      BY <3>2 DEF Hosts
    <3> QED
      BY <3>1, <3>3 DEF InputInv, Host
  <2>2. CASE AddPatternChar
    <3>1. PICK c \in PatternChars : input' = Text(Append(input.pattern, c), input.attribute)
      BY <2>2 DEF AddPatternChar
    <3> QED
      BY <2>2, <3>1 DEF AddPatternChar, InputInv, Text
  <2>3. CASE AddAttributeChar
    <3>1. PICK c \in AttributeChars : input' = Text(input.pattern, Append(input.attribute, c))
      BY <2>3 DEF AddAttributeChar
    <3> QED
      BY <2>3, <3>1 DEF AddAttributeChar, InputInv, Text
  <2>4. CASE AddConjunction
    <3>1. Append(input.disclosed, <<>>) \in Seq(Seq(Disclosures))
      BY <2>4 DEF AddConjunction, InputInv
    <3> QED
      BY <2>4, <3>1 DEF AddConjunction, InputInv, Result
  <2>5. CASE AddDisclosure
    <3> DEFINE last == Len(input.disclosed)
    <3>1. PICK d \in Disclosures :
            input' = Result([input.disclosed EXCEPT ![last] = Append(@, d)])
      BY <2>5 DEF AddDisclosure
    <3>2. input.disclosed \in Seq(Seq(Disclosures)) /\ last \in 1..last
      BY <2>5 DEF AddDisclosure, InputInv
    <3>3. Append(input.disclosed[last], d) \in Seq(Disclosures)
      BY <3>2
    <3>4. [input.disclosed EXCEPT ![last] = Append(@, d)] \in Seq(Seq(Disclosures))
      BY <3>2, <3>3
    <3> QED
      BY <3>1, <3>4 DEF InputInv, Result
  <2>6. CASE AddPart
    <3>1. PICK p \in UriParts : input' = Uri(Append(input.parts, p))
      BY <2>6 DEF AddPart
    <3> QED
      BY <2>6, <3>1 DEF AddPart, InputInv, Uri
  <2>7. CASE AddLineChar
    <3>1. PICK c \in LineChars : input' = Credentials(input.scheme, Append(input.line, c))
      BY <2>7 DEF AddLineChar
    <3> QED
      BY <2>7, <3>1 DEF AddLineChar, InputInv, Credentials
  <2>8. CASE UNCHANGED inputVars
    BY <2>8 DEF InputInv, inputVars
  <2> QED
    BY <2>1, <2>2, <2>3, <2>4, <2>5, <2>6, <2>7, <2>8 DEF InputNext
<1> QED
  BY <1>1, <1>2, PTL DEF InputSpec

-----------------------------------------------------------------------------
(***************************************************************************)
(* getDomainFromHost returns an allowed domain just for the hosts that end *)
(* in one of two labels or are one of a single label.                      *)
(***************************************************************************)
LEMMA DomainOfHost ==
  ASSUME NEW host \in Hosts
  PROVE  getDomainFromHost(host) \in Domains <=>
           \E domain \in Domains :
             \/ Len(domain) = 2 /\ EndsIn(host, domain)
             \/ Len(domain) = 1 /\ host = domain
<1> DEFINE n == Len(host)
           tail == SubSeq(host, n - 1, n)
<1>1. /\ n \in Nat /\ n >= 1
      /\ \A i \in 1..n : host[i] \in Labels \cup {EmptyLabel}
  BY DEF Hosts
<1>2. \A domain \in Domains :
        /\ domain \in Seq(Labels) /\ Len(domain) >= 1
        /\ \A i \in 1..Len(domain) : domain[i] # EmptyLabel
  BY InputAssumption
<1>3. n >= 2 => /\ tail \in Seq(Labels \cup {EmptyLabel})
                /\ Len(tail) = 2
                /\ tail[1] = host[n - 1] /\ tail[2] = host[n]
  BY <1>1 DEF Hosts
<1>4. CASE n >= 2 /\ EmptyLabel \notin {host[n - 1], host[n]}
  <2>1. getDomainFromHost(host) = tail
    BY <1>4 DEF getDomainFromHost
  <2>2. ASSUME tail \in Domains
        PROVE  Len(tail) = 2 /\ EndsIn(host, tail)
    BY <1>1, <1>3, <1>4 DEF EndsIn
  <2>3. ASSUME NEW domain \in Domains, Len(domain) = 2, EndsIn(host, domain)
        PROVE  domain = tail
    BY <1>1, <2>3 DEF EndsIn
  <2>4. ASSUME NEW domain \in Domains, Len(domain) = 1 
        PROVE  host # domain
    BY <1>4, <2>4
  <2> QED
    BY <2>1, <2>2, <2>3, <2>4
<1>5. CASE ~(n >= 2 /\ EmptyLabel \notin {host[n - 1], host[n]})
  <2>1. getDomainFromHost(host) = host
    BY <1>5 DEF getDomainFromHost
  <2>2. ASSUME host \in Domains PROVE n = 1
    <3>1. \A i \in 1..n : host[i] # EmptyLabel
      BY <1>2, <2>2
    <3>2. n >= 2 => n - 1 \in 1..n /\ n \in 1..n
      BY <1>1
    <3>3. ASSUME n >= 2 PROVE FALSE
      <4>1. host[n - 1] # EmptyLabel /\ host[n] # EmptyLabel
        BY <3>1, <3>2, <3>3
      <4> HIDE DEF n
      <4> QED
        BY <4>1, <3>3, <1>5
    <3> HIDE DEF n
    <3> QED
      BY <1>1, <3>3
  <2>3. ASSUME NEW domain \in Domains, Len(domain) = 2, EndsIn(host, domain)
        PROVE  FALSE
    <3>1. n >= 2 /\ domain = tail
      BY <1>1, <2>3 DEF EndsIn
    <3>2. tail[1] # EmptyLabel /\ tail[2] # EmptyLabel
      <4>1. domain[1] # EmptyLabel /\ domain[2] # EmptyLabel
        BY <1>2, <2>3
      <4> HIDE DEF tail
      <4> QED
        BY <4>1, <3>1
    <3>3. host[n - 1] # EmptyLabel /\ host[n] # EmptyLabel
      BY <3>1, <3>2, <1>3
    <3> HIDE DEF n
    <3> QED
      BY <3>1, <3>3, <1>5
  <2> QED
    BY <2>1, <2>2, <2>3
<1> QED
  BY <1>4, <1>5

(***************************************************************************)
(* validateRedirectUri accepts exactly the hosts of the allowed domains,   *)
(* however many labels a host has.                                         *)
(***************************************************************************)
THEOREM HostsOfAllowedDomains == InputSpec => []AcceptsHostsOfAllowedDomains
<1>1. InputInv => AcceptsHostsOfAllowedDomains
  <2> SUFFICES ASSUME InputInv, input.of = "host"
               PROVE  /\ validateRedirectUri(Domains, FALSE, input.host)
                           <=> input.host # NoHost
                      /\ validateRedirectUri(Domains, TRUE, input.host) <=>
                           /\ input.host # NoHost
                           /\ \E domain \in Domains :
                                \/ Len(domain) = 2 /\ EndsIn(input.host, domain)
                                \/ Len(domain) = 1 /\ input.host = domain
    BY DEF AcceptsHostsOfAllowedDomains
  <2>1. CASE input.host = NoHost
    BY <2>1 DEF validateRedirectUri
  <2>2. CASE input.host # NoHost
    <3>1. input.host \in Hosts
      BY <2>2 DEF InputInv
    <3> QED
      BY <2>2, <3>1, DomainOfHost DEF validateRedirectUri
  <2> QED
    BY <2>1, <2>2
<1> QED
  BY <1>1, InputInvariance, PTL

(***************************************************************************)
(* Induction, without an operator for what is proved: the least number of  *)
(* a set (of counterexamples, in what follows).                            *)
(***************************************************************************)
LEMMA LeastNumber ==
  ASSUME NEW T \in SUBSET Nat, T # {}
  PROVE  \E x \in T : \A y \in T : x <= y
<1> DEFINE R == {p \in Nat \X Nat : p[1] < p[2]}
<1>1. IsWellFoundedOn(R, Nat)
  BY NatLessThanWellFounded DEF OpToRel
<1>2. PICK x \in T : \A y \in T : ~ (<<y, x>> \in R)
  <2> HIDE DEF R
  <2> QED
    BY <1>1, WFMin
<1>3. \A y \in T : ~ (y < x)
  BY <1>2
<1> QED
  BY <1>3

-----------------------------------------------------------------------------
(***************************************************************************)
(* A pattern and a text: the first i characters of the pattern are spelled *)
(* by the first j of the text.                                             *)
(***************************************************************************)
Cuts(pattern, text, i, j, upTo) ==
  /\ upTo \in [0..i -> 0..Len(text)]
  /\ upTo[0] = 0 /\ upTo[i] = j
  /\ \A k \in 1..i : consumes(pattern[k], text, upTo[k - 1], upTo[k])

Spelled(pattern, text, i, j) == \E upTo : Cuts(pattern, text, i, j, upTo)

LEMMA SpelledNext ==
  ASSUME NEW pattern, NEW text, Len(text) \in Nat,
         NEW i \in Nat \ {0}, NEW j \in 0..Len(text)
  PROVE  Spelled(pattern, text, i, j) <=>
           \E from \in 0..Len(text) :
             Spelled(pattern, text, i - 1, from) /\ consumes(pattern[i], text, from, j)
<1>1. ASSUME Spelled(pattern, text, i, j)
      PROVE  \E from \in 0..Len(text) :
               Spelled(pattern, text, i - 1, from) /\ consumes(pattern[i], text, from, j)
  <2>1. PICK upTo : Cuts(pattern, text, i, j, upTo)
    BY <1>1 DEF Spelled
  <2> DEFINE shorter == [k \in 0..i - 1 |-> upTo[k]]
  <2>2. Cuts(pattern, text, i - 1, upTo[i - 1], shorter)
    BY <2>1 DEF Cuts
  <2>3. upTo[i - 1] \in 0..Len(text) /\ consumes(pattern[i], text, upTo[i - 1], j)
    BY <2>1 DEF Cuts
  <2> QED
    BY <2>2, <2>3 DEF Spelled
<1>2. ASSUME NEW from \in 0..Len(text), Spelled(pattern, text, i - 1, from),
             consumes(pattern[i], text, from, j)
      PROVE  Spelled(pattern, text, i, j)
  <2>1. PICK upTo : Cuts(pattern, text, i - 1, from, upTo)
    BY <1>2 DEF Spelled
  <2> DEFINE longer == [k \in 0..i |-> IF k = i THEN j ELSE upTo[k]]
  <2>2. longer \in [0..i -> 0..Len(text)] /\ longer[0] = 0 /\ longer[i] = j
    BY <2>1 DEF Cuts
  <2>3. ASSUME NEW k \in 1..i
        PROVE  consumes(pattern[k], text, longer[k - 1], longer[k])
    <3>1. CASE k = i
      BY <1>2, <2>1, <3>1 DEF Cuts
    <3>2. CASE k # i
      BY <2>1, <3>2 DEF Cuts
    <3> QED
      BY <3>1, <3>2
  <2> QED
    BY <2>2, <2>3 DEF Spelled, Cuts
<1> QED
  BY <1>1, <1>2

\* What the loop over the pattern computes.
Row(pattern, text, i) == {j \in 0..Len(text) : Spelled(pattern, text, i, j)}

LEMMA FirstRow ==
  ASSUME NEW pattern, NEW text, Len(text) \in Nat
  PROVE  Row(pattern, text, 0) = {0}
<1> DEFINE none == [k \in 0..0 |-> 0]
<1>1. Cuts(pattern, text, 0, 0, none)
  BY DEF Cuts
<1>2. \A j : Spelled(pattern, text, 0, j) => j = 0
  BY DEF Spelled, Cuts
<1> QED
  BY <1>1, <1>2 DEF Row, Spelled

LEMMA NextRow ==
  ASSUME NEW pattern, NEW text, Len(text) \in Nat, NEW i \in Nat \ {0}
  PROVE  Row(pattern, text, i) = consumeNext(pattern[i], text, Row(pattern, text, i - 1))
BY SpelledNext DEF Row, consumeNext

\* consumed satisfies its recursive definition, because rows do.
LEMMA ConsumedRecursively ==
  ASSUME NEW pattern, NEW text, Len(pattern) \in Nat, Len(text) \in Nat
  PROVE  consumed(pattern, text) =
           [i \in 0..Len(pattern) |->
              IF i = 0 THEN {0}
              ELSE consumeNext(pattern[i], text, consumed(pattern, text)[i - 1])]
<1> DEFINE Solves(f) ==
             f = [i \in 0..Len(pattern) |->
                    IF i = 0 THEN {0} ELSE consumeNext(pattern[i], text, f[i - 1])]
           rows == [i \in 0..Len(pattern) |-> Row(pattern, text, i)]
<1>1. consumed(pattern, text) = CHOOSE f : Solves(f)
  BY DEF consumed
<1>2. Solves(rows)
  <2>1. ASSUME NEW i \in 0..Len(pattern)
        PROVE  Row(pattern, text, i) =
                 IF i = 0 THEN {0} ELSE consumeNext(pattern[i], text, rows[i - 1])
    <3>1. CASE i = 0
      BY <3>1, FirstRow
    <3>2. CASE i # 0
      <4>1. i \in Nat \ {0} /\ rows[i - 1] = Row(pattern, text, i - 1)
        BY <3>2
      <4> QED
        BY <3>2, <4>1, NextRow
    <3> QED
      BY <3>1, <3>2
  <2> QED
    BY <2>1
<1> HIDE DEF Solves
<1>3. Solves(consumed(pattern, text))
  BY <1>1, <1>2
<1> QED
  BY <1>3 DEF Solves

LEMMA ConsumedIsRow ==
  ASSUME NEW pattern, NEW text, Len(pattern) \in Nat, Len(text) \in Nat,
         NEW i \in 0..Len(pattern)
  PROVE  consumed(pattern, text)[i] = Row(pattern, text, i)
<1> DEFINE f == consumed(pattern, text)
           Differ == {k \in 0..Len(pattern) : f[k] # Row(pattern, text, k)}
<1>1. \A k \in 0..Len(pattern) :
        f[k] = IF k = 0 THEN {0} ELSE consumeNext(pattern[k], text, f[k - 1])
  <2> HIDE DEF f
  <2>1. f = [k \in 0..Len(pattern) |->
               IF k = 0 THEN {0} ELSE consumeNext(pattern[k], text, f[k - 1])]
    BY ConsumedRecursively DEF f
  <2> QED
    BY <2>1
<1> HIDE DEF f
<1>2. ASSUME Differ # {} PROVE FALSE
  <2>1. PICK least \in Differ : \A k \in Differ : least <= k
    <3>1. Differ \in SUBSET Nat
      OBVIOUS
    <3> HIDE DEF Differ
    <3> QED
      BY <1>2, <3>1, LeastNumber
  <2>2. least # 0
    BY <1>1, <2>1, FirstRow
  <2>3. f[least - 1] = Row(pattern, text, least - 1)
    BY <2>1, <2>2
  <2>4. f[least] = Row(pattern, text, least)
    <3>1. /\ least \in Nat \ {0}
          /\ f[least] = consumeNext(pattern[least], text, f[least - 1])
      BY <1>1, <2>1, <2>2
    <3> QED
      BY <2>3, <3>1, NextRow
  <2> QED
    BY <2>1, <2>4
<1> QED
  BY <1>2 DEF f

\* validateAttribute on one pattern.
LEMMA MatchesSpelled ==
  ASSUME NEW pattern, NEW attribute, Len(pattern) \in Nat, Len(attribute) \in Nat,
         DOMAIN pattern = 1..Len(pattern)
  PROVE  matchesAttribute(pattern, attribute) <=> Spells(pattern, attribute)
<1> DEFINE n == Len(pattern)
           m == Len(attribute)
<1>1. matchesAttribute(pattern, attribute) <=> Spelled(pattern, attribute, n, m)
  BY ConsumedIsRow DEF matchesAttribute, regexMatches, Row
<1>2. ASSUME NEW upTo \in [0..n -> 0..m]
      PROVE  Cuts(pattern, attribute, n, m, upTo) <=>
               /\ upTo[0] = 0 /\ upTo[n] = m
               /\ \A i \in DOMAIN pattern :
                    \/ pattern[i] = "*" /\ upTo[i - 1] <= upTo[i]
                    \/ /\ pattern[i] # "*" /\ upTo[i] = upTo[i - 1] + 1
                       /\ pattern[i] \in {".", attribute[upTo[i]]}
  BY DEF Cuts, consumes
<1> QED
  BY <1>1, <1>2 DEF Spelled, Spells, Cuts

(***************************************************************************)
(* validateAttribute accepts exactly the attributes that a pattern spells, *)
(* for patterns and attributes of any length, over any characters.         *)
(***************************************************************************)
THEOREM AttributesSpelled == InputSpec => []AcceptsSpelledAttributes
<1>1. InputInv => AcceptsSpelledAttributes
  <2> SUFFICES ASSUME InputInv, input.of = "text"
               PROVE  validateAttribute({input.pattern}, TRUE, input.attribute)
                        <=> Spells(input.pattern, input.attribute)
    BY DEF AcceptsSpelledAttributes
  <2>1. /\ Len(input.pattern) \in Nat /\ Len(input.attribute) \in Nat
        /\ DOMAIN input.pattern = 1..Len(input.pattern)
    BY DEF InputInv
  <2> QED
    BY <2>1, MatchesSpelled DEF validateAttribute
<1> QED
  BY <1>1, InputInvariance, PTL

-----------------------------------------------------------------------------
(***************************************************************************)
(* UrlUtils.getBaseUrl tells origins apart, and nothing else: for every    *)
(* port, named or left out.                                                *)
(***************************************************************************)
THEOREM BaseUrlsAreOrigins == InputSpec => []BaseUrlIsOrigin
<1>1. InputInv => BaseUrlIsOrigin
  <2> SUFFICES ASSUME InputInv, input.of = "origin", NEW other \in Requests
               PROVE  getBaseUrl(other) = getBaseUrl(input.request) <=>
                        /\ other.scheme = input.request.scheme
                        /\ other.host = input.request.host
                        /\ PortOf(other) = PortOf(input.request)
    BY DEF BaseUrlIsOrigin
  <2>1. PICK this \in Requests : this = input.request
    BY DEF InputInv
  <2>2. ASSUME NEW r \in Requests
        PROVE  /\ isDefault(r.port, r.scheme) =>
                    PortOf(r) = IF r.scheme = "https" THEN 443 ELSE 80
               /\ ~isDefault(r.port, r.scheme) =>
                    PortOf(r) = r.port /\ PortOf(r) # (IF r.scheme = "https" THEN 443 ELSE 80)
    BY DEF isDefault, PortOf, Requests
  <2>3. CASE isDefault(this.port, this.scheme) /\ isDefault(other.port, other.scheme)
    BY <2>1, <2>2, <2>3 DEF getBaseUrl
  <2>4. CASE ~isDefault(this.port, this.scheme) /\ ~isDefault(other.port, other.scheme)
    BY <2>1, <2>2, <2>4 DEF getBaseUrl
  <2>5. CASE ~(isDefault(this.port, this.scheme) <=> isDefault(other.port, other.scheme))
    <3>1. getBaseUrl(other) # getBaseUrl(this)
      BY <2>5 DEF getBaseUrl
    <3>2. this.scheme = other.scheme => PortOf(this) # PortOf(other)
      BY <2>2, <2>5
    <3> QED
      BY <2>1, <3>1, <3>2
  <2> QED
    BY <2>3, <2>4, <2>5
<1> QED
  BY <1>1, InputInvariance, PTL

-----------------------------------------------------------------------------
\* A recursion over the numbers up to n has a solution.
LEMMA RecursionSolved ==
  ASSUME NEW Values, NEW first \in Values, NEW n \in Nat,
         NEW next \in [1..n -> [Values -> Values]]
  PROVE  \E f \in [0..n -> Values] :
           f[0] = first /\ \A i \in 1..n : f[i] = next[i][f[i - 1]]
<1> DEFINE Solves(f, k) ==
             /\ f \in [0..k -> Values]
             /\ f[0] = first
             /\ \A i \in 1..k : f[i] = next[i][f[i - 1]]
           unsolved == {k \in 0..n : \A f : ~ Solves(f, k)}
<1>1. unsolved = {}
  <2> SUFFICES ASSUME unsolved # {} PROVE FALSE
    OBVIOUS
  <2>1. unsolved \in SUBSET Nat
    OBVIOUS
  <2>2. PICK k \in unsolved : \A other \in unsolved : k <= other
    <3> HIDE DEF unsolved
    <3> QED
      BY <2>1, LeastNumber
  <2>3. CASE k = 0
    <3> DEFINE f == [i \in 0..0 |-> first]
    <3>1. Solves(f, 0)
      OBVIOUS
    <3> QED
      BY <2>3, <3>1
  <2>4. CASE k # 0
    <3>1. k - 1 \in 0..n /\ k - 1 \notin unsolved
      <4>1. k \in 0..n
        BY <2>2
      <4>2. k - 1 \in 0..n /\ ~ (k <= k - 1)
        BY <2>4, <4>1
      <4> HIDE DEF unsolved
      <4> QED
        BY <2>2, <4>2
    <3>2. PICK f : Solves(f, k - 1)
      BY <3>1
    <3>3. k \in 1..n /\ f[k - 1] \in Values
      BY <2>2, <2>4, <3>2
    <3> DEFINE longer == [i \in 0..k |-> IF i = k THEN next[k][f[k - 1]] ELSE f[i]]
    <3>4. longer \in [0..k -> Values] /\ longer[0] = first
      <4>1. next[k][f[k - 1]] \in Values
        BY <3>3
      <4>2. \A i \in 0..k : i # k => f[i] \in Values
        BY <3>2, <3>3
      <4> QED
        BY <3>2, <3>3, <4>1, <4>2
    <3>5. ASSUME NEW i \in 1..k PROVE longer[i] = next[i][longer[i - 1]]
      BY <3>2, <3>3
    <3> QED
      BY <2>2, <3>4, <3>5
  <2> QED
    BY <2>3, <2>4
<1>2. n \notin unsolved
  BY <1>1
<1> QED
  BY <1>2

-----------------------------------------------------------------------------
(***************************************************************************)
(* URL-decoding: what the decoder has read is cut into pieces, which spell *)
(* what it has decoded.                                                    *)
(***************************************************************************)
\* What the decoder is after each character.
Decoder(chars) == [decoded : Seq(chars), escape : Seq(chars)]

LEMMA DecoderType ==
  ASSUME NEW chars, "blank" \in chars, NEW c \in chars, NEW d \in Decoder(chars),
         \A escape \in DOMAIN unescaped : unescaped[escape] \in chars
  PROVE  decodeNext(d, c) \in Decoder(chars)
<1> DEFINE escape == Append(d.escape, c)
<1>1. /\ d.decoded \in Seq(chars) /\ escape \in Seq(chars)
      /\ d = [decoded |-> d.decoded, escape |-> d.escape]
  BY DEF Decoder
<1>2. CASE d.escape = <<>> /\ c # "%"
  <2>1. Append(d.decoded, IF c = "+" THEN "blank" ELSE c) \in Seq(chars)
    BY <1>1
  <2> QED
    BY <1>2, <2>1 DEF decodeNext, Decoder
<1>3. CASE ~ (d.escape = <<>> /\ c # "%") /\ escape \in DOMAIN unescaped
  <2>1. Append(d.decoded, unescaped[escape]) \in Seq(chars) /\ <<>> \in Seq(chars)
    BY <1>1, <1>3
  <2> QED
    BY <1>3, <2>1 DEF decodeNext, Decoder
<1>4. CASE ~ (d.escape = <<>> /\ c # "%") /\ escape \notin DOMAIN unescaped
  BY <1>1, <1>4 DEF decodeNext, Decoder
<1> QED
  BY <1>2, <1>3, <1>4

LEMMA DecoderRecursively ==
  ASSUME NEW text, Len(text) \in Nat
  PROVE  LET after == urlDecoder(text) IN
         /\ after[0] = [decoded |-> <<>>, escape |-> <<>>]
         /\ \A i \in 1..Len(text) : after[i] = decodeNext(after[i - 1], text[i])
<1> DEFINE n == Len(text)
           fresh == [decoded |-> <<>>, escape |-> <<>>]
           Solves(f) ==
             f = [i \in 0..n |-> IF i = 0 THEN fresh ELSE decodeNext(f[i - 1], text[i])]
           chars == {text[i] : i \in 1..n} \cup {"blank"} \cup Range(unescaped)
           next == [i \in 1..n |-> [d \in Decoder(chars) |-> decodeNext(d, text[i])]]
<1>1. urlDecoder(text) = CHOOSE f : Solves(f)
  BY DEF urlDecoder
<1>2. next \in [1..n -> [Decoder(chars) -> Decoder(chars)]]
  <2>1. ASSUME NEW i \in 1..n, NEW d \in Decoder(chars)
        PROVE  decodeNext(d, text[i]) \in Decoder(chars)
    <3>1. /\ text[i] \in chars /\ "blank" \in chars
          /\ \A escape \in DOMAIN unescaped : unescaped[escape] \in chars
      BY DEF Range
    <3> HIDE DEF chars
    <3> QED
      BY <3>1, DecoderType
  <2> QED
    BY <2>1
<1>3. PICK f \in [0..n -> Decoder(chars)] :
        f[0] = fresh /\ \A i \in 1..n : f[i] = next[i][f[i - 1]]
  <2>1. fresh \in Decoder(chars)
    <3> HIDE DEF chars
    <3> QED
      BY DEF Decoder
  <2>2. n \in Nat
    OBVIOUS
  <2> HIDE DEF next, chars, n, fresh
  <2> QED
    BY <1>2, <2>1, <2>2, RecursionSolved, SMTT(30)
<1>4. Solves(f)
  <2>1. ASSUME NEW i \in 1..n
        PROVE  f[i] = decodeNext(f[i - 1], text[i])
    <3>1. f[i - 1] \in Decoder(chars)
      BY <1>3
    <3> HIDE DEF chars
    <3> QED
      BY <1>3, <3>1
  <2>2. f[0] = fresh /\ f = [i \in 0..n |-> f[i]]
    BY <1>3
  <2> HIDE DEF next, fresh
  <2>3. ASSUME NEW i \in 0..n
        PROVE  f[i] = IF i = 0 THEN fresh ELSE decodeNext(f[i - 1], text[i])
    <3>1. CASE i = 0
      BY <2>2, <3>1
    <3>2. CASE i # 0
      <4>1. i \in 1..n
        BY <3>2
      <4> QED
        BY <2>1, <3>2, <4>1
    <3> QED
      BY <3>1, <3>2
  <2> QED
    BY <2>2, <2>3
<1> DEFINE after == urlDecoder(text)
<1> HIDE DEF Solves, after
<1>5. Solves(after)
  BY <1>1, <1>4 DEF after
<1> HIDE DEF fresh
<1>6. after = [i \in 0..n |-> IF i = 0 THEN fresh ELSE decodeNext(after[i - 1], text[i])]
  BY <1>5 DEF Solves
<1>7. after[0] = fresh /\ \A i \in 1..n : after[i] = decodeNext(after[i - 1], text[i])
  BY <1>6
<1> QED
  BY <1>7 DEF after, fresh

LEMMA Element ==
  ASSUME NEW S, NEW text \in Seq(S), NEW i \in 1..Len(text)
  PROVE  text[i] \in S
OBVIOUS

\* Three characters are added to a "%", one after the other.
LEMMA ThreeAppended ==
  ASSUME NEW S, NEW a \in S, NEW b \in S, NEW c \in S, NEW one, NEW two, NEW three,
         one = Append(<<>>, a), two = Append(one, b), three = Append(two, c)
  PROVE  /\ one \in Seq(S) /\ Len(one) = 1 /\ one # <<>>
         /\ two \in Seq(S) /\ Len(two) = 2 /\ two # <<>>
         /\ three \in Seq(S) /\ Len(three) = 3
         /\ three[1] = a /\ three[2] = b /\ three[3] = c
<1>1. one \in Seq(S) /\ Len(one) = 1 /\ one # <<>> /\ one[1] = a
  OBVIOUS
<1>2. two \in Seq(S) /\ Len(two) = 2 /\ two # <<>> /\ two[1] = a /\ two[2] = b
  BY <1>1
<1> QED
  BY <1>1, <1>2

LEMMA ThreeLong ==
  ASSUME NEW S, NEW three \in Seq(S), Len(three) = 3
  PROVE  /\ three = <<three[1], three[2], three[3]>>
         /\ three[1] \in S /\ three[2] \in S /\ three[3] \in S
<1>1. three[1] \in S /\ three[2] \in S /\ three[3] \in S
  <2>1. \A i \in 1..3 : three[i] \in S
    BY Element, Zenon
  <2> QED
    BY <2>1
<1> DEFINE t == <<three[1], three[2], three[3]>>
<1>2. t \in Seq(S) /\ Len(t) = 3
  BY <1>1
<1>3. t[1] = three[1] /\ t[2] = three[2] /\ t[3] = three[3]
  OBVIOUS
<1>4. \A i \in 1..3 : t[i] = three[i]
  BY <1>3
<1> HIDE DEF t
<1>5. three = t
  BY <1>2, <1>4
<1> QED
  BY <1>1, <1>5 DEF t

\* The first at characters of a text can be cut into pieces that spell a word.
Cut(text, word, at) ==
  \E upTo \in [0..Len(word) -> 0..Len(text)] :
    /\ upTo[0] = 0 /\ upTo[Len(word)] = at
    /\ \A j \in 1..Len(word) : IsPiece(text, upTo[j - 1], upTo[j], word[j])

LEMMA NothingCut ==
  ASSUME NEW text, Len(text) \in Nat
  PROVE  Cut(text, <<>>, 0)
<1> DEFINE upTo == [j \in 0..0 |-> 0]
<1>1. upTo \in [0..0 -> 0..Len(text)] /\ upTo[0] = 0
  OBVIOUS
<1>2. Len(<<>>) = 0 /\ \A j \in 1..0 : FALSE
  OBVIOUS
<1> HIDE DEF upTo
<1> QED
  BY <1>1, <1>2 DEF Cut

LEMMA PieceCut ==
  ASSUME NEW chars, NEW text, Len(text) \in Nat, NEW word \in Seq(chars), NEW c \in chars,
         NEW at \in 0..Len(text), NEW i \in 0..Len(text),
         Cut(text, word, at), IsPiece(text, at, i, c)
  PROVE  Cut(text, Append(word, c), i)
<1> DEFINE k == Len(word)
           more == Append(word, c)
<1>1. PICK upTo \in [0..k -> 0..Len(text)] :
        /\ upTo[0] = 0 /\ upTo[k] = at
        /\ \A j \in 1..k : IsPiece(text, upTo[j - 1], upTo[j], word[j])
  BY DEF Cut
<1> DEFINE longer == [j \in 0..k + 1 |-> IF j = k + 1 THEN i ELSE upTo[j]]
<1>2. /\ k \in Nat /\ Len(more) = k + 1
      /\ more[k + 1] = c /\ \A j \in 1..k : more[j] = word[j]
  OBVIOUS
<1>3. /\ longer \in [0..k + 1 -> 0..Len(text)]
      /\ longer[0] = 0 /\ longer[k + 1] = i /\ longer[k] = at
      /\ \A j \in 0..k : longer[j] = upTo[j]
  BY <1>1, <1>2
<1> HIDE DEF longer, more
<1>4. ASSUME NEW j \in 1..k + 1
      PROVE  IsPiece(text, longer[j - 1], longer[j], more[j])
  <2>1. CASE j = k + 1
    BY <1>2, <1>3, <2>1
  <2>2. CASE j # k + 1
    <3>1. j \in 1..k /\ j - 1 \in 0..k /\ j \in 0..k
      BY <1>2, <2>2
    <3> QED
      BY <1>1, <1>2, <1>3, <3>1
  <2> QED
    BY <2>1, <2>2
<1> HIDE DEF k
<1>5. Cut(text, more, i)
  BY <1>2, <1>3, <1>4 DEF Cut
<1> QED
  BY <1>5 DEF more

\* What has been decoded of the first i characters of a text, and the rest of them.
Reads(text, d, i) ==
  LET at == i - Len(d.escape) IN
  /\ at \in 0..i
  /\ \A j \in 1..Len(d.escape) : d.escape[j] = text[at + j]
  /\ Cut(text, d.decoded, at)

LEMMA NothingRead ==
  ASSUME NEW text, Len(text) \in Nat
  PROVE  Reads(text, [decoded |-> <<>>, escape |-> <<>>], 0)
<1> DEFINE d == [decoded |-> <<>>, escape |-> <<>>]
<1>1. d.decoded = <<>> /\ Len(d.escape) = 0 /\ 0 - 0 \in 0..0 /\ 0 - 0 = 0
  OBVIOUS
<1> HIDE DEF d
<1>2. \A j \in 1..0 : FALSE
  OBVIOUS
<1>3. Reads(text, d, 0)
  BY <1>1, <1>2, NothingCut DEF Reads
<1> QED
  BY <1>3 DEF d

LEMMA ReadsNext ==
  ASSUME NEW chars, NEW text, NEW n \in Nat, n = Len(text), NEW i \in 1..n,
         "blank" \in chars, text[i] \in chars,
         \A escape \in DOMAIN unescaped : unescaped[escape] \in chars,
         NEW d \in Decoder(chars), Reads(text, d, i - 1)
  PROVE  Reads(text, decodeNext(d, text[i]), i)
<1> DEFINE e == Len(d.escape)
           at == i - 1 - e
           c == text[i]
           escape == Append(d.escape, c)
<1>1. /\ d.decoded \in Seq(chars) /\ d.escape \in Seq(chars)
      /\ d = [decoded |-> d.decoded, escape |-> d.escape]
      /\ e \in Nat
  BY DEF Decoder
<1>2. /\ at \in 0..i - 1
      /\ \A j \in 1..e : d.escape[j] = text[at + j]
      /\ Cut(text, d.decoded, at)
  BY DEF Reads
<1>3. /\ escape \in Seq(chars) /\ Len(escape) = e + 1 /\ escape[e + 1] = c
      /\ \A j \in 1..e : escape[j] = d.escape[j]
  BY <1>1
<1>4. e \in Nat /\ at \in Nat /\ i = at + e + 1 /\ at \in 0..n /\ i \in 0..n
  BY <1>1, <1>2
<1> HIDE DEF e, at, escape
<1>5. \A j \in 1..e + 1 : escape[j] = text[at + j]
  <2> SUFFICES ASSUME NEW j \in 1..e + 1 PROVE escape[j] = text[at + j]
    OBVIOUS
  <2>1. CASE j = e + 1
    BY <1>3, <1>4, <2>1
  <2>2. CASE j # e + 1
    <3>1. j \in 1..e
      BY <1>4, <2>2
    <3> QED
      BY <1>2, <1>3, <3>1
  <2> QED
    BY <2>1, <2>2
<1>6. ASSUME NEW decoded \in chars, IsPiece(text, at, i, decoded)
      PROVE  Reads(text, [decoded |-> Append(d.decoded, decoded), escape |-> <<>>], i)
  <2> DEFINE more == Append(d.decoded, decoded)
             new == [decoded |-> more, escape |-> <<>>]
  <2>1. Cut(text, more, i)
    BY <1>1, <1>2, <1>4, <1>6, PieceCut
  <2>2. new.decoded = more /\ Len(new.escape) = 0 /\ i - 0 = i /\ i \in 0..i
    BY <1>4
  <2> HIDE DEF more, new
  <2>3. Reads(text, new, i)
    BY <2>1, <2>2 DEF Reads
  <2> QED
    BY <2>3 DEF more, new
<1>7. CASE d.escape = <<>> /\ c # "%"
  <2> DEFINE decoded == IF c = "+" THEN "blank" ELSE c
  <2>1. decoded \in chars /\ i = at + 1
    BY <1>4, <1>7 DEF e
  <2>2. IsPiece(text, at, i, decoded)
    BY <1>7, <2>1 DEF IsPiece
  <2>3. decodeNext(d, c) = [decoded |-> Append(d.decoded, decoded), escape |-> <<>>]
    BY <1>1, <1>7 DEF decodeNext
  <2> HIDE DEF decoded, c
  <2> QED
    BY <1>6, <2>1, <2>2, <2>3 DEF c
<1>8. CASE ~ (d.escape = <<>> /\ c # "%") /\ escape \in DOMAIN unescaped
  <2>1. Len(escape) = 3
    BY <1>8, EscapeAssumption
  <2>2. e = 2 /\ i = at + 3
    <3>1. e + 1 = 3
      BY <1>3, <2>1
    <3> QED
      BY <1>4, <3>1
  <2>3. escape[1] = text[at + 1] /\ escape[2] = text[at + 2] /\ escape[3] = text[at + 3]
    BY <1>5, <2>2
  <2>4. escape = <<text[at + 1], text[at + 2], text[at + 3]>>
    BY <1>3, <2>1, <2>3, ThreeLong
  <2>5. IsPiece(text, at, i, unescaped[escape]) /\ unescaped[escape] \in chars
    BY <1>8, <2>2, <2>4 DEF IsPiece
  <2>6. decodeNext(d, c) = [decoded |-> Append(d.decoded, unescaped[escape]), escape |-> <<>>]
    BY <1>8 DEF decodeNext, escape
  <2> HIDE DEF c
  <2> QED
    BY <1>6, <2>5, <2>6 DEF c
<1>9. CASE ~ (d.escape = <<>> /\ c # "%") /\ escape \notin DOMAIN unescaped
  <2> DEFINE longer == [decoded |-> d.decoded, escape |-> escape]
  <2>1. decodeNext(d, c) = longer
    BY <1>1, <1>9 DEF decodeNext, escape
  <2>2. longer.decoded = d.decoded /\ longer.escape = escape
    OBVIOUS
  <2>3. i - Len(escape) = at /\ at \in 0..i
    <3>1. i - (e + 1) = at /\ at \in 0..i
      BY <1>4
    <3> QED
      BY <1>3, <3>1
  <2> HIDE DEF longer
  <2>4. Reads(text, longer, i)
    BY <1>2, <1>3, <1>5, <2>2, <2>3 DEF Reads
  <2> QED
    BY <2>1, <2>4
<1> QED
  BY <1>7, <1>8, <1>9

LEMMA DecoderReads ==
  ASSUME NEW text, Len(text) \in Nat, NEW i \in 0..Len(text)
  PROVE  Reads(text, urlDecoder(text)[i], i)
<1> DEFINE n == Len(text)
           after == urlDecoder(text)
           chars == {text[j] : j \in 1..n} \cup {"blank"} \cup Range(unescaped)
           Good(j) == after[j] \in Decoder(chars) /\ Reads(text, after[j], j)
           bad == {j \in 0..n : ~Good(j)}
<1>1. /\ after[0] = [decoded |-> <<>>, escape |-> <<>>]
      /\ \A j \in 1..n : after[j] = decodeNext(after[j - 1], text[j])
  BY DecoderRecursively
<1>2. /\ \A j \in 1..n : text[j] \in chars
      /\ "blank" \in chars
      /\ \A escape \in DOMAIN unescaped : unescaped[escape] \in chars
  BY DEF Range
<1> HIDE DEF chars, after
<1>3. Good(0)
  <2>1. after[0] \in Decoder(chars)
    BY <1>1 DEF Decoder
  <2>2. Reads(text, after[0], 0)
    BY <1>1, NothingRead
  <2> QED
    BY <2>1, <2>2
<1>4. ASSUME NEW j \in 1..n, Good(j - 1) PROVE Good(j)
  BY <1>1, <1>2, <1>4, DecoderType, ReadsNext
<1> HIDE DEF Good
<1>5. bad = {}
  <2> SUFFICES ASSUME bad # {} PROVE FALSE
    OBVIOUS
  <2>1. PICK least \in bad : \A j \in bad : least <= j
    <3>1. bad \in SUBSET Nat
      OBVIOUS
    <3> HIDE DEF bad
    <3> QED
      BY <3>1, LeastNumber
  <2>2. least \in 1..n /\ least - 1 \in 0..n /\ least - 1 \notin bad
    BY <1>3, <2>1
  <2> QED
    BY <1>4, <2>1, <2>2
<1> QED
  BY <1>5 DEF Good, after

LEMMA PrefixGrows ==
  ASSUME NEW words, NEW word \in Seq(words)
  PROVE  /\ SubSeq(word, 1, 0) = <<>> /\ SubSeq(word, 1, Len(word)) = word
         /\ \A k \in 1..Len(word) :
              SubSeq(word, 1, k) = Append(SubSeq(word, 1, k - 1), word[k])
OBVIOUS

\* What a text can be cut into is what the decoder makes of it.
LEMMA DecoderSpells ==
  ASSUME NEW words, NEW word \in Seq(words),
         NEW chars, NEW text \in Seq(chars), NEW n \in Nat, n = Len(text),
         NEW upTo \in [0..Len(word) -> 0..n], upTo[0] = 0,
         \A k \in 1..Len(word) : IsPiece(text, upTo[k - 1], upTo[k], word[k])
  PROVE  urlDecoder(text)[upTo[Len(word)]] = [decoded |-> word, escape |-> <<>>]
<1> DEFINE after == urlDecoder(text)
           SpelledSoFar(k) == after[upTo[k]] = [decoded |-> SubSeq(word, 1, k), escape |-> <<>>]
           bad == {k \in 0..Len(word) : ~SpelledSoFar(k)}
<1>1. /\ after[0] = [decoded |-> <<>>, escape |-> <<>>]
      /\ \A j \in 1..n : after[j] = decodeNext(after[j - 1], text[j])
  BY DecoderRecursively
<1> HIDE DEF after
<1>2. SpelledSoFar(0)
  <2>1. SubSeq(word, 1, 0) = <<>>
    BY PrefixGrows, Zenon
  <2> QED
    BY <1>1, <2>1
<1>3. ASSUME NEW k \in 1..Len(word), SpelledSoFar(k - 1) PROVE SpelledSoFar(k)
  <2> DEFINE at == upTo[k - 1]
             before == SubSeq(word, 1, k - 1)
  <2>1. at \in 0..n /\ upTo[k] \in 0..n /\ IsPiece(text, at, upTo[k], word[k])
    <3>1. k \in 0..Len(word) /\ k - 1 \in 0..Len(word)
      OBVIOUS
    <3> QED
      BY <3>1
  <2>2. SubSeq(word, 1, k) = Append(before, word[k])
    BY PrefixGrows, Zenon
  <2>3. after[at] = [decoded |-> before, escape |-> <<>>]
    BY <1>3
  <2> HIDE DEF at, before
  <2>4. CASE upTo[k] = at + 1 /\ text[at + 1] # "%"
              /\ word[k] = IF text[at + 1] = "+" THEN "blank" ELSE text[at + 1]
    <3>1. at + 1 \in 1..n /\ (at + 1) - 1 = at
      BY <2>1, <2>4
    <3>2. after[at + 1] = decodeNext(after[at], text[at + 1])
      BY <1>1, <3>1
    <3> DEFINE new == [decoded |-> before, escape |-> <<>>]
    <3>3. decodeNext(new, text[at + 1]) = [decoded |-> Append(before, word[k]), escape |-> <<>>]
      BY <2>4 DEF decodeNext
    <3> QED
      BY <2>2, <2>3, <2>4, <3>2, <3>3
  <2> DEFINE escape == <<text[at + 1], text[at + 2], text[at + 3]>>
  <2>5. CASE upTo[k] = at + 3 /\ escape \in DOMAIN unescaped /\ word[k] = unescaped[escape]
    <3> DEFINE one == Append(<<>>, text[at + 1])
               two == Append(one, text[at + 2])
               three == Append(two, text[at + 3])
    <3>1. /\ at + 1 \in 1..n /\ at + 2 \in 1..n /\ at + 3 \in 1..n
          /\ (at + 1) - 1 = at /\ (at + 2) - 1 = at + 1 /\ (at + 3) - 1 = at + 2
      <4>1. at \in Nat /\ at + 3 \in 0..n
        BY <2>1, <2>5
      <4> QED
        BY <4>1
    <3>2. text[at + 1] \in chars /\ text[at + 2] \in chars /\ text[at + 3] \in chars
      BY <3>1, Element, Zenon
    <3>3. /\ Len(one) = 1 /\ one # <<>> /\ Len(two) = 2 /\ two # <<>>
          /\ three \in Seq(chars) /\ Len(three) = 3
          /\ three[1] = text[at + 1] /\ three[2] = text[at + 2] /\ three[3] = text[at + 3]
      <4> HIDE DEF one, two, three
      <4> QED
        BY <3>2, ThreeAppended DEF one, two, three
    <3> HIDE DEF one, two, three
    <3>4. three = escape
      BY <3>3, ThreeLong
    <3> HIDE DEF escape
    <3>5. /\ one \notin DOMAIN unescaped /\ two \notin DOMAIN unescaped
          /\ three[1] = "%"
      <4>1. Len(one) # 3 /\ Len(two) # 3
        BY <3>3
      <4> QED
        BY <2>5, <3>4, <4>1, EscapeAssumption, Zenon
    <3>6. after[at + 1] = [decoded |-> before, escape |-> one]
      <4>1. after[at + 1] = decodeNext(after[at], text[at + 1])
        BY <1>1, <3>1
      <4>2. text[at + 1] = "%"
        BY <3>3, <3>5
      <4> QED
        BY <2>3, <3>5, <4>1, <4>2 DEF decodeNext, one
    <3>7. after[at + 2] = [decoded |-> before, escape |-> two]
      <4>1. after[at + 2] = decodeNext(after[at + 1], text[at + 2])
        BY <1>1, <3>1
      <4>2. decodeNext([decoded |-> before, escape |-> one], text[at + 2])
              = [decoded |-> before, escape |-> two]
        BY <3>3, <3>5 DEF decodeNext, two
      <4> QED
        BY <3>6, <4>1, <4>2
    <3>8. after[at + 3] = [decoded |-> Append(before, word[k]), escape |-> <<>>]
      <4>1. after[at + 3] = decodeNext(after[at + 2], text[at + 3])
        BY <1>1, <3>1
      <4>2. decodeNext([decoded |-> before, escape |-> two], text[at + 3])
              = [decoded |-> Append(before, word[k]), escape |-> <<>>]
        BY <2>5, <3>3, <3>4 DEF decodeNext, three
      <4> QED
        BY <3>7, <4>1, <4>2
    <3> QED
      BY <2>2, <2>5, <3>8
  <2> QED
    BY <2>1, <2>4, <2>5 DEF IsPiece
<1> HIDE DEF SpelledSoFar
<1>4. bad = {}
  <2> SUFFICES ASSUME bad # {} PROVE FALSE
    OBVIOUS
  <2>1. PICK least \in bad : \A k \in bad : least <= k
    <3>1. bad \in SUBSET Nat
      OBVIOUS
    <3> HIDE DEF bad
    <3> QED
      BY <3>1, LeastNumber
  <2>2. least \in 1..Len(word) /\ least - 1 \in 0..Len(word) /\ least - 1 \notin bad
    BY <1>2, <2>1
  <2> QED
    BY <1>3, <2>1, <2>2
<1>5. SpelledSoFar(Len(word))
  BY <1>4
<1>6. SubSeq(word, 1, Len(word)) = word
  BY PrefixGrows, Zenon
<1> QED
  BY <1>5, <1>6 DEF SpelledSoFar, after

\* Nothing but what a password can be cut from decodes to it.
LEMMA Decoding ==
  ASSUME NEW words, NEW word \in Seq(words),
         NEW chars, NEW text \in Seq(chars), NEW n \in Nat, n = Len(text)
  PROVE  urlDecoder(text)[n].escape = <<>> /\ word = urlDecoder(text)[n].decoded
           <=> DecodesTo(text, word)
<1> DEFINE decoder == urlDecoder(text)[n]
<1>1. DOMAIN word = 1..Len(word)
  OBVIOUS
<1>2. ASSUME DecodesTo(text, word)
      PROVE  decoder.escape = <<>> /\ word = decoder.decoded
  <2>1. PICK upTo \in [0..Len(word) -> 0..n] :
          /\ upTo[0] = 0 /\ upTo[Len(word)] = n
          /\ \A k \in 1..Len(word) : IsPiece(text, upTo[k - 1], upTo[k], word[k])
    BY <1>1, <1>2 DEF DecodesTo
  <2>2. urlDecoder(text)[upTo[Len(word)]] = [decoded |-> word, escape |-> <<>>]
    BY <2>1, DecoderSpells
  <2> QED
    BY <2>1, <2>2
<1>3. ASSUME decoder.escape = <<>>, word = decoder.decoded
      PROVE  DecodesTo(text, word)
  <2>1. Reads(text, decoder, n)
    BY DecoderReads
  <2> HIDE DEF decoder
  <2>2. Len(decoder.escape) = 0 /\ n - 0 = n
    BY <1>3
  <2>3. Cut(text, word, n)
    BY <1>3, <2>1, <2>2 DEF Reads
  <2>4. PICK upTo \in [0..Len(word) -> 0..n] :
          /\ upTo[0] = 0 /\ upTo[Len(word)] = n
          /\ \A j \in 1..Len(word) : IsPiece(text, upTo[j - 1], upTo[j], word[j])
    BY <2>3 DEF Cut
  <2> QED
    BY <1>1, <2>4 DEF DecodesTo
<1> QED
  BY <1>2, <1>3

\* No piece of a text has a colon in it, if what it decodes to has none.
LEMMA NoColon ==
  ASSUME NEW words, NEW word \in Seq(words \ {":"}), NEW text, NEW n \in Nat, n = Len(text),
         DecodesTo(text, word), NEW p \in 1..n
  PROVE  text[p] # ":"
<1>1. PICK upTo \in [0..Len(word) -> 0..n] :
        /\ upTo[0] = 0 /\ upTo[Len(word)] = n
        /\ \A k \in 1..Len(word) : IsPiece(text, upTo[k - 1], upTo[k], word[k])
  <2>1. DOMAIN word = 1..Len(word)
    OBVIOUS
  <2> QED
    BY <2>1 DEF DecodesTo
<1>2. Len(word) \in Nat /\ \A k \in 1..Len(word) : word[k] # ":"
  OBVIOUS
<1> DEFINE reaching == {k \in 0..Len(word) : p <= upTo[k]}
<1>3. PICK k \in reaching : \A j \in reaching : k <= j
  <2>1. reaching \in SUBSET Nat /\ reaching # {}
    BY <1>1, <1>2
  <2> HIDE DEF reaching
  <2> QED
    BY <2>1, LeastNumber
<1>4. k \in 1..Len(word) /\ upTo[k - 1] < p /\ p <= upTo[k]
  <2>1. k # 0 /\ k \in 0..Len(word)
    BY <1>1, <1>3
  <2>2. k - 1 \in 0..Len(word) /\ k - 1 \notin reaching
    BY <1>2, <1>3, <2>1
  <2>3. upTo[k - 1] \in 0..n
    BY <1>1, <2>2
  <2> QED
    BY <1>3, <2>1, <2>2, <2>3
<1> DEFINE at == upTo[k - 1]
<1>5. at \in 0..n /\ upTo[k] \in 0..n /\ IsPiece(text, at, upTo[k], word[k])
  <2>1. k \in 0..Len(word) /\ k - 1 \in 0..Len(word)
    BY <1>2, <1>4
  <2> QED
    BY <1>1, <1>4, <2>1
<1> HIDE DEF at, reaching
<1>6. CASE upTo[k] = at + 1 /\ word[k] = IF text[at + 1] = "+" THEN "blank" ELSE text[at + 1]
  <2>1. p = at + 1
    BY <1>4, <1>5, <1>6 DEF at
  <2>2. word[k] # ":"
    BY <1>2, <1>4
  <2>3. ":" # "+"
    OBVIOUS
  <2> QED
    BY <1>6, <2>1, <2>2, <2>3
<1> DEFINE escape == <<text[at + 1], text[at + 2], text[at + 3]>>
<1>7. CASE upTo[k] = at + 3 /\ escape \in DOMAIN unescaped
  <2>1. p \in {at + 1, at + 2, at + 3}
    <3>1. at \in Nat /\ p \in Nat /\ at < p /\ p <= at + 3
      BY <1>4, <1>5, <1>7 DEF at
    <3> QED
      BY <3>1
  <2>2. DOMAIN escape = 1..3
    OBVIOUS
  <2>3. escape[1] \in Range(escape) /\ escape[2] \in Range(escape) /\ escape[3] \in Range(escape)
    BY <2>2 DEF Range
  <2>4. text[p] \in Range(escape)
    BY <2>1, <2>3
  <2> QED
    BY <1>7, <2>4, EscapeAssumption
<1> QED
  BY <1>5, <1>6, <1>7 DEF IsPiece

-----------------------------------------------------------------------------
\* The greedy first group of (.+):(.+) ends before the last colon.
LEMMA SplitAtLast ==
  ASSUME NEW chars, NEW line \in Seq(chars), splits(line) # {}
  PROVE  /\ splitAt(line) \in splits(line)
         /\ \A i \in splits(line) : i <= splitAt(line)
<1> DEFINE n == Len(line)
           rest == {n - i : i \in splits(line)}
<1>1. \A i \in splits(line) : i \in Nat /\ n - i \in Nat
  BY DEF splits
<1>2. rest \in SUBSET Nat /\ rest # {}
  BY <1>1
<1>3. PICK least \in rest : \A k \in rest : least <= k
  <2> HIDE DEF rest
  <2> QED
    BY <1>2, LeastNumber
<1>4. PICK last \in splits(line) : least = n - last
  BY DEF rest
<1>5. \A i \in splits(line) : last >= i
  <2> SUFFICES ASSUME NEW i \in splits(line) PROVE last >= i
    OBVIOUS
  <2>1. n - last <= n - i
    BY <1>3, <1>4
  <2> QED
    BY <1>1, <2>1
<1>6. /\ splitAt(line) \in splits(line)
      /\ \A i \in splits(line) : splitAt(line) >= i
  BY <1>5 DEF splitAt, Max
<1> QED
  BY <1>1, <1>6

\* A name and what follows a colon are read back, if no colon follows.
LEMMA LastColon ==
  ASSUME NEW chars, NEW line \in Seq(chars), NEW at \in 2..Len(line) - 1, line[at] = ":",
         \A i \in at + 1..Len(line) : line[i] # ":"
  PROVE  splits(line) # {} /\ splitAt(line) = at
<1>1. at \in splits(line)
  BY DEF splits
<1>2. \A i \in splits(line) : i <= at
  BY DEF splits
<1>3. splitAt(line) \in splits(line) /\ \A i \in splits(line) : i <= splitAt(line)
  BY <1>1, SplitAtLast
<1>4. splitAt(line) \in Nat
  BY <1>3 DEF splits
<1> QED
  BY <1>1, <1>2, <1>3, <1>4

\* A line that starts with a client id and a colon.
LEMMA StartsWithId ==
  ASSUME NEW chars, NEW line \in Seq(chars), NEW ids, NEW id \in Seq(ids),
         NEW at \in 1..Len(line)
  PROVE  Append(id, ":") = SubSeq(line, 1, at)
           <=> id = SubSeq(line, 1, at - 1) /\ line[at] = ":"
<1> DEFINE start == SubSeq(line, 1, at)
           before == SubSeq(line, 1, at - 1)
           longer == Append(id, ":")
<1>1. /\ at \in Nat \ {0} /\ Len(line) \in Nat /\ at <= Len(line)
      /\ \A i \in 1..Len(line) : line[i] \in chars
  OBVIOUS
<1>2. /\ start \in Seq(chars) /\ Len(start) = at /\ \A i \in 1..at : start[i] = line[i]
      /\ before \in Seq(chars) /\ Len(before) = at - 1
      /\ \A i \in 1..at - 1 : before[i] = line[i]
  BY <1>1
<1>3. /\ longer \in Seq(ids \cup {":"}) /\ Len(longer) = Len(id) + 1
      /\ longer[Len(id) + 1] = ":"
      /\ \A i \in 1..Len(id) : longer[i] = id[i]
      /\ Len(id) \in Nat
  OBVIOUS
<1> HIDE DEF start, before, longer
<1>4. ASSUME longer = start PROVE id = before /\ line[at] = ":"
  <2>1. Len(id) = at - 1
    BY <1>1, <1>2, <1>3, <1>4
  <2>2. \A i \in 1..at - 1 : id[i] = before[i]
    BY <1>1, <1>2, <1>3, <1>4, <2>1
  <2>3. id = before
    BY <1>2, <2>1, <2>2
  <2> QED
    BY <1>1, <1>2, <1>3, <1>4, <2>1, <2>3
<1>5. ASSUME id = before, line[at] = ":" PROVE longer = start
  <2>1. Len(id) = at - 1 /\ Len(longer) = Len(start)
    BY <1>1, <1>2, <1>3, <1>5
  <2>2. ASSUME NEW i \in 1..at PROVE longer[i] = start[i]
    <3>1. CASE i = at
      BY <1>1, <1>2, <1>3, <1>5, <2>1, <3>1
    <3>2. CASE i # at
      <4>1. i \in 1..Len(id) /\ i \in 1..at - 1
        BY <1>1, <2>1, <3>2
      <4> QED
        BY <1>2, <1>3, <1>5, <4>1
    <3> QED
      BY <3>1, <3>2
  <2> QED
    BY <1>2, <1>3, <2>1, <2>2
<1> QED
  BY <1>4, <1>5 DEF start, before, longer

(***************************************************************************)
(* ClientCredentialValidator lets a client in on its own id and password,  *)
(* the latter in any spelling that URL-decodes to it, and on nothing else: *)
(* for credentials, ids and passwords of any length, and any escapes.      *)
(***************************************************************************)
THEOREM OwnCredentialsOnly == InputSpec => []LetsInOwnCredentials
<1>1. InputInv => LetsInOwnCredentials
  <2>0. SUFFICES ASSUME InputInv, input.of = "credentials",
                      NEW clientId \in DOMAIN expectedPassword,
                      NEW password, password = expectedPassword[clientId],
                      NEW line, line = input.line,
                      NEW start, start = Len(clientId) + 1,
                      NEW rest, rest = SubSeq(line, start + 1, Len(line))
               PROVE  validateAuthorization(input, clientId) <=>
                        /\ input.scheme = "Basic" /\ clientId # <<>>
                        /\ start <= Len(line)
                        /\ SubSeq(line, 1, start) = Append(clientId, ":")
                        /\ rest = password \/ DecodesTo(rest, password)
    BY DEF LetsInOwnCredentials
  <2>1. /\ clientId \in Seq(Range(clientId))
        /\ password \in Seq(Range(password) \ {":"}) \ {<<>>}
        /\ line \in Seq(LineChars) /\ Len(line) \in Nat
        /\ Len(clientId) \in Nat /\ Len(password) \in Nat \ {0}
        /\ clientId # <<>> <=> Len(clientId) # 0
    BY <2>0, PasswordAssumption DEF InputInv
  <2>2. /\ rest \in Seq(LineChars) /\ Len(rest) \in Nat
        /\ start <= Len(line) => /\ Len(rest) = Len(line) - start
                                 /\ \A i \in 1..Len(rest) : rest[i] = line[start + i]
    BY <2>0, <2>1
  <2> DEFINE at == splitAt(line)
             decoder == urlDecoder(rest)[Len(rest)]
  <2> DEFINE words == Range(password) \ {":"}
  <2> HIDE DEF words
  <2>3. /\ password \in Seq(words)
        /\ \A i \in 1..Len(password) : password[i] # ":"
    BY <2>1, Element DEF words
  <2>8. decoder.escape = <<>> /\ password = decoder.decoded <=> DecodesTo(rest, password)
    <3> DEFINE n == Len(rest)
    <3>1. n \in Nat /\ n = Len(rest) /\ rest \in Seq(LineChars) /\ password \in Seq(words)
      BY <2>2, <2>3
    <3> HIDE DEF n
    <3>2. urlDecoder(rest)[n].escape = <<>> /\ password = urlDecoder(rest)[n].decoded
            <=> DecodesTo(rest, password)
      BY <3>1, Decoding
    <3> QED
      BY <3>1, <3>2 DEF decoder
  <2>4. validateAuthorization(input, clientId) <=>
          /\ input.scheme = "Basic" /\ splits(line) # {}
          /\ SubSeq(line, 1, at - 1) = clientId
          /\ LET sent == SubSeq(line, at + 1, Len(line))
                 decoded == urlDecoder(sent)[Len(sent)]
             IN  sent = password \/ (decoded.escape = <<>> /\ decoded.decoded = password)
    BY <2>0 DEF validateAuthorization, validateCredentials
  <2> HIDE DEF decoder, at
  <2>5. ASSUME at = start
        PROVE  LET sent == SubSeq(line, at + 1, Len(line))
                   decoded == urlDecoder(sent)[Len(sent)]
               IN  sent = password \/ (decoded.escape = <<>> /\ decoded.decoded = password)
                     <=> rest = password \/ DecodesTo(rest, password)
    BY <2>0, <2>5, <2>8 DEF decoder
  <2>6. ASSUME splits(line) # {}, SubSeq(line, 1, at - 1) = clientId
        PROVE  at = start /\ clientId # <<>> /\ start <= Len(line)
               /\ SubSeq(line, 1, start) = Append(clientId, ":")
    <3>1. at \in 2..Len(line) - 1 /\ line[at] = ":"
      BY <2>1, <2>6, SplitAtLast DEF splits, at
    <3>2. Len(clientId) = at - 1
      BY <2>1, <2>6, <3>1
    <3>3. at = start /\ at \in 1..Len(line) /\ clientId # <<>>
      BY <2>0, <2>1, <3>1, <3>2
    <3> QED
      <4>1. line \in Seq(LineChars) /\ clientId \in Seq(Range(clientId))
        BY <2>1
      <4>2. clientId = SubSeq(line, 1, at - 1)
        BY <2>6
      <4>3. Append(clientId, ":") = SubSeq(line, 1, at)
        BY <3>1, <3>3, <4>1, <4>2, StartsWithId
      <4> QED
        BY <3>1, <3>3, <4>3
  <2>7. ASSUME clientId # <<>>, start <= Len(line),
               SubSeq(line, 1, start) = Append(clientId, ":"),
               rest = password \/ DecodesTo(rest, password)
        PROVE  splits(line) # {} /\ at = start /\ SubSeq(line, 1, at - 1) = clientId
    <3>1. start \in 1..Len(line) /\ start >= 2
      BY <2>0, <2>1, <2>7
    <3>2. SubSeq(line, 1, start - 1) = clientId /\ line[start] = ":"
      <4>1. line \in Seq(LineChars) /\ clientId \in Seq(Range(clientId))
        BY <2>1
      <4>2. Append(clientId, ":") = SubSeq(line, 1, start)
        BY <2>7
      <4> QED
        BY <3>1, <4>1, <4>2, StartsWithId
    <3>3. Len(rest) # 0
      <4>1. CASE rest = password
        BY <2>1, <4>1
      <4>2. ASSUME DecodesTo(rest, password), Len(rest) = 0 PROVE FALSE
        <5>1. DOMAIN password = 1..Len(password) /\ 1 \in 1..Len(password)
          BY <2>1
        <5>2. PICK upTo \in [0..Len(password) -> 0..0] :
                IsPiece(rest, upTo[1 - 1], upTo[1], password[1])
          BY <4>2, <5>1 DEF DecodesTo
        <5>3. upTo[0] = 0 /\ upTo[1] = 0
          BY <5>1, <5>2
        <5> QED
          BY <5>2, <5>3 DEF IsPiece
      <4> QED
        BY <2>7, <4>1, <4>2
    <3>4. \A i \in 1..Len(rest) : rest[i] # ":"
      <4>1. CASE rest = password
        BY <2>3, <4>1
      <4>2. CASE DecodesTo(rest, password)
        <5> DEFINE n == Len(rest)
        <5>1. n \in Nat /\ n = Len(rest) /\ password \in Seq(words \ {":"})
          <6>1. words = words \ {":"}
            BY DEF words
          <6> QED
            BY <2>2, <2>3, <6>1
        <5> HIDE DEF n
        <5> QED
          BY <4>2, <5>1, NoColon, Zenon
      <4> QED
        BY <2>7, <4>1, <4>2
    <3>5. start \in 2..Len(line) - 1
      BY <2>1, <2>2, <3>1, <3>3
    <3>6. ASSUME NEW i \in start + 1..Len(line) PROVE line[i] # ":"
      <4>1. i - start \in 1..Len(rest) /\ start + (i - start) = i
        BY <2>1, <2>2, <3>1
      <4> QED
        <5>1. rest[i - start] = line[start + (i - start)]
          BY <2>2, <3>1, <4>1
        <5> QED
          BY <3>4, <4>1, <5>1
    <3>7. splits(line) # {} /\ at = start
      BY <2>1, <3>2, <3>5, <3>6, LastColon DEF at
    <3> QED
      BY <3>2, <3>7
  <2> QED
    BY <2>4, <2>5, <2>6, <2>7
<1> QED
  BY <1>1, InputInvariance, PTL

-----------------------------------------------------------------------------
LEMMA FirstMatch ==
  ASSUME NEW T \in SUBSET Nat, T # {}
  PROVE  Min(T) \in T /\ \A i \in T : Min(T) <= i
<1>1. PICK least \in T : \A i \in T : least <= i
  BY LeastNumber
<1> QED
  BY <1>1 DEF Min

\* What the outer loop has found after each conjunction.
LEMMA FoundRecursively ==
  ASSUME NEW attribute, NEW disclosed, Len(disclosed) \in Nat
  PROVE  LET found == foundIn(disclosed, attribute) IN
         /\ found[0] = EmptyString
         /\ \A i \in 1..Len(disclosed) :
              found[i] = matchConjunction(found[i - 1], disclosed[i], attribute)
<1> DEFINE n == Len(disclosed)
           Solves(f) ==
             f = [i \in 0..n |->
                    IF i = 0 THEN EmptyString
                    ELSE matchConjunction(f[i - 1], disclosed[i], attribute)]
           first(i) == disclosed[i][Min(ofAttribute(disclosed[i], attribute))].rawvalue
           Values == {EmptyString} \cup {first(i) : i \in 1..n}
           next == [i \in 1..n |->
                      [v \in Values |-> matchConjunction(v, disclosed[i], attribute)]]
<1>1. foundIn(disclosed, attribute) = CHOOSE f : Solves(f)
  BY DEF foundIn
<1>2. next \in [1..n -> [Values -> Values]]
  <2>1. ASSUME NEW i \in 1..n, NEW v \in Values
        PROVE  matchConjunction(v, disclosed[i], attribute) \in Values
    BY DEF matchConjunction
  <2> QED
    BY <2>1
<1>3. PICK f \in [0..n -> Values] :
        f[0] = EmptyString /\ \A i \in 1..n : f[i] = next[i][f[i - 1]]
  <2> HIDE DEF next
  <2>1. EmptyString \in Values
    OBVIOUS
  <2>2. n \in Nat
    OBVIOUS
  <2> HIDE DEF Values, n
  <2> QED
    BY <1>2, <2>1, <2>2, RecursionSolved, SMTT(30)
<1>4. Solves(f)
  <2>1. ASSUME NEW i \in 1..n
        PROVE  f[i] = matchConjunction(f[i - 1], disclosed[i], attribute)
    <3>1. f[i - 1] \in Values
      BY <1>3
    <3> HIDE DEF Values
    <3> QED
      BY <1>3, <3>1
  <2>2. f[0] = EmptyString /\ f = [i \in 0..n |-> f[i]]
    BY <1>3
  <2> HIDE DEF Values, next
  <2>3. ASSUME NEW i \in 0..n
        PROVE  f[i] = IF i = 0 THEN EmptyString
                      ELSE matchConjunction(f[i - 1], disclosed[i], attribute)
    <3>1. CASE i = 0
      BY <2>2, <3>1
    <3>2. CASE i # 0
      <4>1. i \in 1..n
        BY <3>2
      <4> QED
        BY <2>1, <3>2, <4>1
    <3> QED
      BY <3>1, <3>2
  <2> QED
    BY <2>2, <2>3
<1> HIDE DEF Solves
<1>5. Solves(foundIn(disclosed, attribute))
  BY <1>1, <1>4
<1> DEFINE found == foundIn(disclosed, attribute)
<1> HIDE DEF found
<1>6. found = [i \in 0..n |->
                 IF i = 0 THEN EmptyString
                 ELSE matchConjunction(found[i - 1], disclosed[i], attribute)]
  BY <1>5 DEF Solves, found
<1>7. found[0] = EmptyString
  BY <1>6
<1>8. \A i \in 1..n : found[i] = matchConjunction(found[i - 1], disclosed[i], attribute)
  BY <1>6
<1> QED
  BY <1>7, <1>8 DEF found

\* Which one that is: the first match of the last conjunction with one.
LEMMA FoundIsFirstOfLast ==
  ASSUME NEW disclosed \in Seq(Seq(Disclosures)), NEW n \in 0..Len(disclosed)
  PROVE  LET value == foundIn(disclosed, Asked)[n]
             with  == {i \in 1..n : Discloses(disclosed[i]) # {}}
         IN  \/ with = {} /\ value = EmptyString
             \/ \E i \in with : \E j \in Discloses(disclosed[i]) :
                  /\ \A k \in with : k <= i
                  /\ \A k \in Discloses(disclosed[i]) : j <= k
                  /\ value = disclosed[i][j].rawvalue
<1> DEFINE found == foundIn(disclosed, Asked)
           with(m) == {i \in 1..m : Discloses(disclosed[i]) # {}}
           First(value, i) ==
             \E j \in Discloses(disclosed[i]) :
               /\ \A k \in Discloses(disclosed[i]) : j <= k
               /\ value = disclosed[i][j].rawvalue
           Holds(m) ==
             \/ with(m) = {} /\ found[m] = EmptyString
             \/ \E i \in with(m) : (\A k \in with(m) : k <= i) /\ First(found[m], i)
           wrong == {m \in 0..Len(disclosed) : ~ Holds(m)}
<1>1. /\ Len(disclosed) \in Nat
      /\ found[0] = EmptyString
      /\ \A i \in 1..Len(disclosed) :
           found[i] = matchConjunction(found[i - 1], disclosed[i], Asked)
  BY FoundRecursively
<1>2. ASSUME NEW i \in 1..Len(disclosed)
      PROVE  /\ Discloses(disclosed[i]) = {} => found[i] = found[i - 1]
             /\ Discloses(disclosed[i]) # {} => First(found[i], i)
  <2>1. Discloses(disclosed[i]) = ofAttribute(disclosed[i], Asked)
    BY DEF Discloses, ofAttribute
  <2>2. found[i] = matchConjunction(found[i - 1], disclosed[i], Asked)
    BY <1>1
  <2>3. Discloses(disclosed[i]) \in SUBSET Nat
    <3>1. disclosed[i] \in Seq(Disclosures)
      OBVIOUS
    <3> QED
      BY <3>1 DEF Discloses
  <2> HIDE DEF found
  <2>4. CASE Discloses(disclosed[i]) = {}
    BY <2>1, <2>2, <2>4 DEF matchConjunction
  <2>5. CASE Discloses(disclosed[i]) # {}
    <3>1. /\ Min(Discloses(disclosed[i])) \in Discloses(disclosed[i])
          /\ \A k \in Discloses(disclosed[i]) : Min(Discloses(disclosed[i])) <= k
      BY <2>3, <2>5, FirstMatch
    <3>2. found[i] = disclosed[i][Min(Discloses(disclosed[i]))].rawvalue
      BY <2>1, <2>2, <2>5 DEF matchConjunction
    <3> QED
      BY <2>5, <3>1, <3>2
  <2> QED
    BY <2>4, <2>5
<1> HIDE DEF found, First
<1>3. Holds(0)
  BY <1>1
<1>4. ASSUME NEW m \in 1..Len(disclosed), Holds(m - 1) PROVE Holds(m)
  <2>1. CASE Discloses(disclosed[m]) = {}
    <3>1. with(m) = with(m - 1)
      BY <1>1, <2>1
    <3>2. found[m] = found[m - 1]
      BY <1>2, <2>1
    <3> HIDE DEF with
    <3> QED
      BY <1>4, <3>1, <3>2
  <2>2. CASE Discloses(disclosed[m]) # {}
    <3>1. m \in with(m) /\ \A k \in with(m) : k <= m
      BY <1>1, <2>2
    <3>2. First(found[m], m)
      BY <1>2, <2>2
    <3> HIDE DEF with
    <3> QED
      BY <3>1, <3>2
  <2> QED
    BY <2>1, <2>2
<1>5. wrong = {}
  <2> SUFFICES ASSUME wrong # {} PROVE FALSE
    OBVIOUS
  <2>1. wrong \in SUBSET Nat
    BY <1>1
  <2>2. PICK m \in wrong : \A other \in wrong : m <= other
    <3> HIDE DEF wrong
    <3> QED
      BY <2>1, LeastNumber
  <2> HIDE DEF Holds
  <2>3. m \in 1..Len(disclosed)
    BY <1>1, <1>3, <2>2
  <2>4. m - 1 \in 0..Len(disclosed) /\ ~ (m <= m - 1)
    BY <1>1, <2>3
  <2>5. Holds(m - 1)
    BY <2>2, <2>4
  <2> QED
    BY <1>4, <2>2, <2>3, <2>5
<1>6. Holds(n)
  <2> HIDE DEF Holds
  <2> QED
    BY <1>5
<1> QED
  BY <1>6 DEF found, First

(***************************************************************************)
(* endSession returns the first value of the last conjunction that has the *)
(* attribute asked for, of any number of conjunctions of any length.       *)
(***************************************************************************)
THEOREM DisclosedValueReturned == InputSpec => []ReturnsDisclosedValue
<1>1. InputInv => ReturnsDisclosedValue
  <2> SUFFICES ASSUME InputInv, input.of = "result" PROVE ReturnsDisclosedValue
    BY DEF ReturnsDisclosedValue
  <2>1. PICK disclosed \in Seq(Seq(Disclosures)) : disclosed = input.disclosed
    BY DEF InputInv
  <2>2. Len(disclosed) \in 0..Len(disclosed) /\ DOMAIN disclosed = 1..Len(disclosed)
    BY <2>1
  <2> DEFINE value == endSession(disclosed, Asked)
             with  == {i \in 1..Len(disclosed) : Discloses(disclosed[i]) # {}}
  <2>3. \/ with = {} /\ value = EmptyString
        \/ \E i \in with : \E j \in Discloses(disclosed[i]) :
             /\ \A k \in with : k <= i
             /\ \A k \in Discloses(disclosed[i]) : j <= k
             /\ value = disclosed[i][j].rawvalue
    BY <2>2, FoundIsFirstOfLast DEF endSession
  <2> QED
    BY <2>1, <2>2, <2>3 DEF ReturnsDisclosedValue
<1> QED
  BY <1>1, InputInvariance, PTL

-----------------------------------------------------------------------------
\* What is read up to each part of a query.
LEMMA SeparatedRecursively ==
  ASSUME NEW parts, NEW query, Len(query) \in Nat,
         \A k \in 1..Len(query) : query[k] \in parts
  PROVE  LET read == separated(query) IN
         /\ read[0] = <<>>
         /\ \A k \in 1..Len(query) :
              read[k] = IF query[k] = "&" THEN read[k - 1] ELSE Append(read[k - 1], query[k])
         /\ \A k \in 0..Len(query) : read[k] \in Seq(parts)
<1> DEFINE n == Len(query)
           Values == Seq(parts)
           step(r, k) == IF query[k] = "&" THEN r ELSE Append(r, query[k])
           Solves(f) == f = [k \in 0..n |-> IF k = 0 THEN <<>> ELSE step(f[k - 1], k)]
           next == [k \in 1..n |-> [r \in Values |-> step(r, k)]]
           read == separated(query)
<1>1. read = CHOOSE f : Solves(f)
  BY DEF separated
<1>2. /\ <<>> \in Values /\ n \in Nat
      /\ \A k \in 1..n : \A r \in Values : step(r, k) \in Values
  OBVIOUS
<1> HIDE DEF Values, step, n, read
<1>3. next \in [1..n -> [Values -> Values]]
  BY <1>2
<1>4. PICK f \in [0..n -> Values] :
        f[0] = <<>> /\ \A k \in 1..n : f[k] = next[k][f[k - 1]]
  <2> DEFINE nothing == <<>>
  <2>1. nothing \in Values
    BY <1>2
  <2>2. n \in Nat
    BY <1>2
  <2> HIDE DEF next, nothing
  <2>3. \E f \in [0..n -> Values] :
          f[0] = nothing /\ \A i \in 1..n : f[i] = next[i][f[i - 1]]
    BY <1>3, <2>1, <2>2, RecursionSolved
  <2> QED
    BY <2>3 DEF nothing
<1>5. \A k \in 1..n : f[k] = step(f[k - 1], k)
  <2> SUFFICES ASSUME NEW k \in 1..n PROVE f[k] = step(f[k - 1], k)
    OBVIOUS
  <2>1. f[k - 1] \in Values
    BY <1>2, <1>4
  <2> QED
    BY <1>4, <2>1
<1> HIDE DEF next
<1>6. Solves(f)
  <2>1. \A k \in 0..n : f[k] = IF k = 0 THEN <<>> ELSE step(f[k - 1], k)
    BY <1>2, <1>4, <1>5
  <2> QED
    BY <1>4, <2>1
<1> HIDE DEF Solves
<1>7. Solves(read)
  BY <1>1, <1>6
<1>8. read = [k \in 0..n |-> IF k = 0 THEN <<>> ELSE step(read[k - 1], k)]
  BY <1>7 DEF Solves
<1>9. read[0] = <<>> /\ \A k \in 1..n : read[k] = step(read[k - 1], k)
  <2>1. \A k \in 0..n : read[k] = IF k = 0 THEN <<>> ELSE step(read[k - 1], k)
    BY <1>8
  <2> QED
    BY <1>2, <2>1
<1>10. \A k \in 0..n : read[k] \in Values
  <2> DEFINE wrong == {k \in 0..n : read[k] \notin Values}
  <2> SUFFICES ASSUME wrong # {} PROVE FALSE
    OBVIOUS
  <2>1. wrong \in SUBSET Nat
    BY <1>2
  <2>2. PICK k \in wrong : \A other \in wrong : k <= other
    <3> HIDE DEF wrong
    <3> QED
      BY <2>1, LeastNumber
  <2>3. k \in 1..n
    BY <1>2, <1>9, <2>2
  <2>4. read[k - 1] \in Values
    BY <1>2, <2>2, <2>3
  <2> QED
    BY <1>2, <1>9, <2>2, <2>3, <2>4
<1> QED
  BY <1>9, <1>10 DEF Values, step, n, read

\* One part more is read last, unless it only separates.
LEMMA SeparatedAppend ==
  ASSUME NEW parts, NEW query \in Seq(parts), NEW part \in parts
  PROVE  LET before == separated(query)[Len(query)]
             longer == Append(query, part)
         IN  separated(longer)[Len(longer)] =
               IF part = "&" THEN before ELSE Append(before, part)
<1> DEFINE n == Len(query)
           longer == Append(query, part)
           read == separated(query)
           reads == separated(longer)
<1>1. /\ n \in Nat /\ longer \in Seq(parts) /\ Len(longer) = n + 1
      /\ longer[n + 1] = part
      /\ \A k \in 1..n : longer[k] = query[k]
  OBVIOUS
<1>2. /\ read[0] = <<>>
      /\ \A k \in 1..n :
           read[k] = IF query[k] = "&" THEN read[k - 1] ELSE Append(read[k - 1], query[k])
  BY SeparatedRecursively
<1> HIDE DEF longer
<1>3. /\ reads[0] = <<>>
      /\ \A k \in 1..n + 1 :
           reads[k] = IF longer[k] = "&" THEN reads[k - 1] ELSE Append(reads[k - 1], longer[k])
  BY <1>1, SeparatedRecursively
<1> HIDE DEF read, reads, n
<1>4. reads[n] = read[n]
  <2> DEFINE wrong == {k \in 0..n : reads[k] # read[k]}
  <2> SUFFICES ASSUME wrong # {} PROVE FALSE
    BY <1>1
  <2>1. wrong \in SUBSET Nat
    BY <1>1
  <2>2. PICK k \in wrong : \A other \in wrong : k <= other
    <3> HIDE DEF wrong
    <3> QED
      BY <2>1, LeastNumber
  <2>3. k \in 1..n
    BY <1>1, <1>2, <1>3, <2>2
  <2>4. reads[k - 1] = read[k - 1]
    BY <1>1, <2>2, <2>3
  <2>5. longer[k] = query[k] /\ k \in 1..n + 1
    BY <1>1, <2>3
  <2>6. reads[k] = read[k]
    BY <1>2, <1>3, <2>3, <2>4, <2>5
  <2> QED
    BY <2>2, <2>6
<1>5. reads[n + 1] = IF part = "&" THEN reads[n] ELSE Append(reads[n], part)
  BY <1>1, <1>3
<1> QED
  BY <1>1, <1>4, <1>5 DEF read, reads, longer, n

\* A url that two parts are appended to, and what follows its m-th part.
LEMMA TwoAppended ==
  ASSUME NEW parts, NEW url \in Seq(parts), NEW mark \in parts, NEW p \in parts,
         NEW longer, longer = url \o <<mark, p>>
  PROVE  /\ longer \in Seq(parts) /\ Len(longer) = Len(url) + 2
         /\ longer[Len(url) + 1] = mark /\ longer[Len(url) + 2] = p
         /\ \A i \in 1..Len(url) : longer[i] = url[i]
OBVIOUS

LEMMA Suffix ==
  ASSUME NEW parts, NEW url \in Seq(parts), NEW m \in 0..Len(url)
  PROVE  LET rest == SubSeq(url, m + 1, Len(url)) IN
         /\ rest \in Seq(parts) /\ Len(rest) = Len(url) - m
         /\ \A i \in 1..Len(url) - m : rest[i] = url[m + i]
OBVIOUS

LEMMA Appended ==
  ASSUME NEW parts, NEW query \in Seq(parts), NEW p \in parts
  PROVE  LET longer == Append(query, p) IN
         /\ longer \in Seq(parts) /\ Len(longer) = Len(query) + 1
         /\ longer[Len(query) + 1] = p
         /\ \A i \in 1..Len(query) : longer[i] = query[i]
OBVIOUS

LEMMA SameParts ==
  ASSUME NEW parts, NEW url \in Seq(parts), NEW other \in Seq(parts),
         Len(url) = Len(other), \A i \in 1..Len(url) : url[i] = other[i]
  PROVE  url = other
OBVIOUS

LEMMA LastPart ==
  ASSUME NEW parts, NEW url \in Seq(parts), NEW n \in Nat, Len(url) = n
  PROVE  n > 0 => SubSeq(url, n, n) = Append(<<>>, url[n])
<1> SUFFICES ASSUME n > 0 PROVE SubSeq(url, n, n) = Append(<<>>, url[n])
  OBVIOUS
<1> DEFINE rest == SubSeq(url, n - 1 + 1, n)
           one == Append(<<>>, url[n])
<1>1. n - 1 \in 0..n /\ n - 1 + 1 = n /\ url[n] \in parts
  OBVIOUS
<1>2. /\ rest \in Seq(parts) /\ Len(rest) = n - (n - 1)
      /\ \A i \in 1..n - (n - 1) : rest[i] = url[n - 1 + i]
  BY <1>1, Suffix
<1>3. one \in Seq(parts) /\ Len(one) = 1 /\ one[1] = url[n]
  BY <1>1
<1> HIDE DEF rest, one
<1>4. Len(rest) = 1 /\ rest[1] = url[n]
  BY <1>1, <1>2
<1>5. rest = one
  BY <1>2, <1>3, <1>4, SameParts
<1> QED
  BY <1>1, <1>5 DEF rest, one

LEMMA QueryAppended ==
  ASSUME NEW parts, NEW query \in Seq(parts), NEW mark \in parts, NEW p \in parts,
         NEW rest \in Seq(parts), Len(rest) = Len(query) + 2,
         rest[Len(query) + 1] = mark, rest[Len(query) + 2] = p,
         \A i \in 1..Len(query) : rest[i] = query[i]
  PROVE  rest = Append(Append(query, mark), p)
<1> DEFINE n == Len(query)
           one == Append(query, mark)
           both == Append(one, p)
<1>1. /\ one \in Seq(parts) /\ Len(one) = n + 1 /\ one[n + 1] = mark
      /\ \A i \in 1..n : one[i] = query[i]
  BY Appended
<1> HIDE DEF one
<1>2. /\ both \in Seq(parts) /\ Len(both) = Len(one) + 1 /\ both[Len(one) + 1] = p
      /\ \A i \in 1..Len(one) : both[i] = one[i]
  BY <1>1, Appended
<1>3. n \in Nat
  OBVIOUS
<1> HIDE DEF both, n
<1>4. Len(both) = n + 2 /\ Len(rest) = n + 2
  BY <1>1, <1>2, <1>3 DEF n
<1>5. ASSUME NEW i \in 1..n + 2 PROVE rest[i] = both[i]
  <2>1. CASE i \in 1..n
    BY <1>1, <1>2, <1>3, <2>1 DEF n
  <2>2. CASE i = n + 1
    BY <1>1, <1>2, <1>3, <2>2 DEF n
  <2>3. CASE i = n + 2
    BY <1>1, <1>2, <1>3, <2>3 DEF n
  <2> QED
    BY <1>3, <2>1, <2>2, <2>3
<1>6. rest = both
  BY <1>2, <1>4, <1>5, SameParts
<1> QED
  BY <1>6 DEF both, one

\* A parameter that is appended to a url is read last, after the others.
LEMMA ParameterAppended ==
  ASSUME NEW parts, "?" \in parts, "&" \in parts,
         NEW url \in Seq(parts), ~ Contains(url, "#"),
         NEW p \in parts, p # "?", p # "&", p # "#",
         NEW longer, longer = appendToUrl(url, p)
  PROVE  /\ longer \in Seq(parts) /\ ~ Contains(longer, "#")
         /\ parameters(longer) = Append(parameters(url), p)
<1> DEFINE n == Len(url)
           mark == IF Contains(url, "?") THEN "&" ELSE "?"
<1>1. mark \in parts /\ mark # "#" /\ longer = url \o <<mark, p>>
  BY DEF appendToUrl
<1> HIDE DEF mark
<1>2. /\ longer \in Seq(parts) /\ Len(longer) = n + 2
      /\ longer[n + 1] = mark /\ longer[n + 2] = p
      /\ \A i \in 1..n : longer[i] = url[i]
  BY <1>1, TwoAppended
<1>3. n \in Nat /\ DOMAIN url = 1..n /\ DOMAIN longer = 1..n + 2
  BY <1>2
<1> HIDE DEF n
<1>4. \A i \in 1..n : url[i] # "#"
  BY DEF Contains, n
<1>5. ~ Contains(longer, "#")
  BY <1>1, <1>2, <1>3, <1>4 DEF Contains
<1>6. beforeFragment(url) = url /\ beforeFragment(longer) = longer
  BY <1>5 DEF beforeFragment
<1>7. CASE Contains(url, "?")
  <2> DEFINE m == firstOf(url, "?")
             query == SubSeq(url, m + 1, n)
             separator == Append(query, "&")
             queries == SubSeq(longer, firstOf(longer, "?") + 1, Len(longer))
  <2>1. mark = "&"
    BY <1>7 DEF mark
  <2>2. {i \in DOMAIN longer : longer[i] = "?"} = {i \in DOMAIN url : url[i] = "?"}
    BY <1>2, <1>3, <2>1
  <2>3. firstOf(longer, "?") = m
    BY <2>2 DEF firstOf
  <2>4. m \in 1..n
    <3>1. {i \in DOMAIN url : url[i] = "?"} # {}
      BY <1>3, <1>7 DEF Contains, n
    <3>2. {i \in DOMAIN url : url[i] = "?"} \in SUBSET Nat
      BY <1>3
    <3> QED
      BY <1>3, <3>1, <3>2, FirstMatch DEF firstOf
  <2> HIDE DEF m
  <2>5. queries = Append(separator, p)
    <3>1. /\ query \in Seq(parts) /\ Len(query) = n - m
          /\ \A i \in 1..n - m : query[i] = url[m + i]
      BY <2>4, Suffix DEF n
    <3>2. /\ queries \in Seq(parts) /\ Len(queries) = n + 2 - m
          /\ \A i \in 1..n + 2 - m : queries[i] = longer[m + i]
      <4>1. m \in 0..Len(longer) /\ Len(longer) - m = n + 2 - m
        BY <1>2, <1>3, <2>4
      <4> DEFINE rest == SubSeq(longer, m + 1, Len(longer))
      <4>2. /\ rest \in Seq(parts) /\ Len(rest) = Len(longer) - m
            /\ \A i \in 1..Len(longer) - m : rest[i] = longer[m + i]
        <5>1. longer \in Seq(parts) /\ m \in 0..Len(longer)
          BY <1>2, <4>1
        <5> QED
          BY <5>1, Suffix
      <4>3. queries = rest
        BY <2>3
      <4> HIDE DEF rest, queries
      <4> QED
        BY <4>1, <4>2, <4>3
    <3> HIDE DEF query, queries
    <3>3. /\ Len(queries) = Len(query) + 2
          /\ queries[Len(query) + 1] = "&" /\ queries[Len(query) + 2] = p
      <4>1. /\ n - m + 1 \in 1..n + 2 - m /\ m + (n - m + 1) = n + 1
            /\ n - m + 2 \in 1..n + 2 - m /\ m + (n - m + 2) = n + 2
        BY <1>3, <2>4
      <4> QED
        BY <1>2, <1>3, <2>1, <2>4, <3>1, <3>2, <4>1
    <3>4. \A i \in 1..Len(query) : queries[i] = query[i]
      <4>1. \A i \in 1..n - m : i \in 1..n + 2 - m /\ m + i \in 1..n
        BY <1>3, <2>4
      <4> QED
        BY <1>2, <3>1, <3>2, <4>1
    <3> QED
      BY <3>1, <3>2, <3>3, <3>4, QueryAppended
  <2>6. query \in Seq(parts) /\ separator \in Seq(parts)
    BY <1>3, <2>4 DEF n
  <2> HIDE DEF query, queries, separator
  <2>7. separated(separator)[Len(separator)] = separated(query)[Len(query)]
    BY <2>6, SeparatedAppend DEF separator
  <2>8. separated(queries)[Len(queries)] = Append(separated(query)[Len(query)], p)
    BY <2>5, <2>6, <2>7, SeparatedAppend
  <2>9. Contains(longer, "?")
    BY <1>2, <1>3, <1>7 DEF Contains, n
  <2>10. parameters(url) = separated(query)[Len(query)]
    BY <1>6, <1>7 DEF parameters, query, m, n
  <2>11. parameters(longer) = separated(queries)[Len(queries)]
    BY <1>6, <2>9 DEF parameters, queries
  <2> QED
    BY <1>2, <1>5, <2>8, <2>10, <2>11
<1>8. CASE ~ Contains(url, "?")
  <2>1. mark = "?"
    BY <1>8 DEF mark
  <2>2. parameters(url) = <<>>
    BY <1>6, <1>8 DEF parameters
  <2>3. \A i \in 1..n : url[i] # "?"
    BY <1>8 DEF Contains, n
  <2>4. {i \in DOMAIN longer : longer[i] = "?"} = {n + 1}
    BY <1>2, <1>3, <2>1, <2>3
  <2>5. firstOf(longer, "?") = n + 1
    <3>1. {n + 1} \in SUBSET Nat /\ {n + 1} # {}
      BY <1>3
    <3>2. Min({n + 1}) \in {n + 1}
      BY <3>1, FirstMatch
    <3> QED
      BY <2>4, <3>2 DEF firstOf
  <2> DEFINE query == SubSeq(longer, n + 2, n + 2)
  <2>6. query = Append(<<>>, p)
    BY <1>2, <1>3, LastPart
  <2> HIDE DEF query
  <2>7. separated(query)[Len(query)] = Append(<<>>, p)
    <3> DEFINE nothing == <<>>
    <3>1. nothing \in Seq(parts) /\ Len(nothing) = 0
      OBVIOUS
    <3> HIDE DEF nothing
    <3>2. separated(nothing)[0] = <<>>
      BY <3>1, SeparatedRecursively
    <3>3. separated(Append(nothing, p))[Len(Append(nothing, p))] = Append(<<>>, p)
      BY <3>1, <3>2, SeparatedAppend
    <3> QED
      BY <2>6, <3>3 DEF nothing
  <2>9. Contains(longer, "?")
    BY <1>2, <1>3, <2>1 DEF Contains
  <2>10. n + 1 + 1 = n + 2
    BY <1>3
  <2>11. parameters(longer) = separated(query)[Len(query)]
    BY <1>2, <1>6, <2>5, <2>9, <2>10 DEF parameters, query
  <2> QED
    BY <1>2, <1>5, <2>2, <2>7, <2>11
<1> QED
  BY <1>7, <1>8

LEMMA ParametersAreParts ==
  ASSUME NEW parts, NEW url \in Seq(parts), ~ Contains(url, "#")
  PROVE  parameters(url) \in Seq(parts)
<1>1. beforeFragment(url) = url
  BY DEF beforeFragment
<1>2. CASE ~ Contains(url, "?")
  BY <1>1, <1>2 DEF parameters
<1>3. CASE Contains(url, "?")
  <2> DEFINE m == firstOf(url, "?")
             query == SubSeq(url, m + 1, Len(url))
  <2>1. m \in 0..Len(url)
    <3>1. {i \in DOMAIN url : url[i] = "?"} # {}
      BY <1>3 DEF Contains
    <3>2. {i \in DOMAIN url : url[i] = "?"} \in SUBSET Nat
      OBVIOUS
    <3>3. m \in {i \in DOMAIN url : url[i] = "?"}
      BY <3>1, <3>2, FirstMatch DEF firstOf
    <3> HIDE DEF m
    <3> QED
      BY <3>3
  <2> HIDE DEF m
  <2>2. query \in Seq(parts)
    BY <2>1, Suffix
  <2> HIDE DEF query
  <2>3. Len(query) \in 0..Len(query) /\ \A k \in 1..Len(query) : query[k] \in parts
    BY <2>2
  <2>4. separated(query)[Len(query)] \in Seq(parts)
    BY <2>3, SeparatedRecursively
  <2> QED
    BY <1>1, <1>3, <2>4 DEF parameters, query, m
<1> QED
  BY <1>2, <1>3

LEMMA AppendIsConcatenation ==
  ASSUME NEW parts, NEW read \in Seq(parts), NEW p \in parts, NEW q \in parts
  PROVE  /\ Append(read, p) = read \o <<p>>
         /\ Append(Append(read, p), q) = read \o <<p, q>>
OBVIOUS

LEMMA NoFragment ==
  ASSUME NEW parts, NEW url \in Seq(parts), beforeFragment(url) = url
  PROVE  ~ Contains(url, "#")
<1> SUFFICES ASSUME Contains(url, "#") PROVE FALSE
  OBVIOUS
<1> DEFINE marks == {i \in DOMAIN url : url[i] = "#"}
           first == firstOf(url, "#")
<1>1. marks \in SUBSET Nat /\ marks # {}
  BY DEF Contains
<1>2. first \in marks
  BY <1>1, FirstMatch DEF firstOf
<1>3. first \in 1..Len(url)
  BY <1>2
<1>4. url = SubSeq(url, 1, first - 1)
  BY DEF beforeFragment
<1> HIDE DEF first
<1>5. Len(SubSeq(url, 1, first - 1)) = first - 1
  BY <1>3
<1>6. Len(url) = first - 1
  BY <1>4, <1>5
<1> QED
  BY <1>3, <1>6

(***************************************************************************)
(* The parameters of a redirect_uri without a fragment reach the relying   *)
(* party in front of the code and the state, or the token, however many    *)
(* there are.                                                              *)
(***************************************************************************)
THEOREM ParametersReachClient == InputSpec => []ParametersArrive
<1>1. InputInv => ParametersArrive
  <2> SUFFICES ASSUME InputInv, input.of = "uri",
                      beforeFragment(input.parts) = input.parts
               PROVE  ParametersArrive
    BY DEF ParametersArrive
  <2> DEFINE parts == UriParts \cup {"path", "?", "&", "code", "state", "token"}
  <2>1. PICK url : url = input.parts
    OBVIOUS
  <2>2. url \in Seq(parts)
    <3>1. url \in Seq(UriParts \cup {"path"})
      BY <2>1 DEF InputInv
    <3>2. UriParts \cup {"path"} \subseteq parts
      OBVIOUS
    <3> HIDE DEF parts
    <3> QED
      BY <3>1, <3>2
  <2>3. \A p \in {"code", "state", "token"} :
          p \in parts /\ p # "?" /\ p # "&" /\ p # "#"
    OBVIOUS
  <2>4. "?" \in parts /\ "&" \in parts
    OBVIOUS
  <2> HIDE DEF parts
  <2>5. ~ Contains(url, "#")
    BY <2>1, <2>2, NoFragment
  <2> DEFINE coded == appendToUrl(url, "code")
             stated == appendToUrl(coded, "state")
             tokened == appendToUrl(url, "token")
  <2>6. /\ coded \in Seq(parts) /\ ~ Contains(coded, "#")
        /\ parameters(coded) = Append(parameters(url), "code")
    BY <2>2, <2>3, <2>4, <2>5, ParameterAppended
  <2>7. parameters(tokened) = Append(parameters(url), "token")
    BY <2>2, <2>3, <2>4, <2>5, ParameterAppended
  <2> HIDE DEF coded
  <2>8. parameters(stated) = Append(parameters(coded), "state")
    <3>1. "state" \in parts /\ "state" # "?" /\ "state" # "&" /\ "state" # "#"
      BY <2>3
    <3> QED
      BY <2>4, <2>6, <3>1, ParameterAppended
  <2>9. parameters(url) \in Seq(parts)
    BY <2>2, <2>5, ParametersAreParts
  <2> DEFINE read == parameters(url)
  <2>10. /\ Append(Append(read, "code"), "state") = read \o <<"code", "state">>
         /\ Append(read, "token") = read \o <<"token">>
    <3> HIDE DEF read
    <3> QED
      BY <2>3, <2>9, AppendIsConcatenation DEF read
  <2> QED
    BY <2>1, <2>6, <2>7, <2>8, <2>10 DEF ParametersArrive, codeAnswer, tokenAnswer, coded
<1> QED
  BY <1>1, InputInvariance, PTL
=============================================================================
