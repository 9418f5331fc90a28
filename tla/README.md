# A TLA+ model of the GIDS IRMA/Yivi authentication server

This directory specifies, model-checks and proves properties of the server in
this repository: a Spring Boot application that lets a browser identify its
user with an IRMA (Yivi) wallet and hands the result to a relying party, either
as a JWT in a redirect or through an OAuth 2 code exchange.

Java files are named below without their common prefix
`src/main/java/nl/gids/poc/auth/`.

- [The system](#the-system)
- [Modules](#modules)
- [How the code became actions](#how-the-code-became-actions)
- [Runs](#runs)
- [What the runs found](#what-the-runs-found)
- [Proofs](#proofs)
- [Not modelled](#not-modelled)
- [Plan](#plan)

## The system

| Component | State | Operations |
|---|---|---|
| OAuth session store (`oauth/service/OauthSessionService`, `oauth/valueobject/OauthSession`) | `OauthSession` objects; three plain `HashMap`s from id, code and refresh token to them | `store` (three puts), `retrieveById`, `retrieveByCode`, `consumeRefreshToken` |
| Login flow (`Oauth2Controller.authorize`, `IndexController`, `SessionController`, `IrmaService`, `templates/yivi.html`) | attributes `oauthSession`, `redirectUri`, `attribute` of each browser's `HttpSession`; what each page shows; sessions at the IRMA server | open the page through `/oauth2/authorize` or `/`, start an IRMA session, fetch its result, answer a redirect |
| Token endpoint (`Oauth2Controller.token`, `AuthenticationService`, `ClientCredentialValidator`) | the request in progress; `refreshToken` of an `OauthSession`; the refresh-token map | exchange a code for tokens or for an id token, redeem a refresh token |
| Validation (`irma/services/ValidationService`) | none | `validateAttribute`, `validateRedirectUri` |
| Signing keys (`AuthenticationService.init`, `JwksController`, `PublicKeyController`, `PemUtils`, `KeyUtils`, `tools/keygen.sh`) | two settings, two files, the loaded pair | generate, load and validate, sign, publish |
| The login page (`templates/yivi.html`, bundled `public/js/yivi.js`) | a state machine, listeners with event sources and poll loops, requests and timers under way | start and restart a session, show it, follow its status, pair, cancel, post for its result |
| Configuration beans, error answers, build | read once, or none | not modelled |

The parts meet in shared state rather than in calls. All tabs of one browser
share one `HttpSession`, without a lock. All request threads share the three
maps and the `OauthSession`s in them, without a lock. Everything but the key
files is in memory, so a restart loses it. The calls to the IRMA server are
remote: they take time, during which other requests run, and they fail.

The page runs one JavaScript task at a time, but its requests, event sources and
timers outlive the attempt that made them, and their callbacks act on whatever
state the page is in by then.

What is hard here is therefore interleaving (of tabs, of token requests for one
session, of a login with an exchange), data read before a remote call and used
with data read after it, attributes left over from an earlier request, answers
and timers of an earlier attempt, restarts, lost answers, and the retries that
follow those. `PROJECT.json` lists each place under `hazards`, with
the properties that cover it.

What makes each component correct:

- **Login flow**: what a relying party is told was disclosed by the user of
  that browser; a code goes to the browser, redirect URI and state that asked
  for it; a page is answered for its own launch; no page waits for ever for an
  answer, nor, on a desktop without pairing, for the wallet.
- **Token endpoint**: a code is answered to the client of its session only; a
  refresh token leads to a session that it was issued for, is in the map until it is
  consumed, and is consumed once for each time it was issued. (That it also works
  until it expires is what its lifetime promises, and not so: see below.)
- **Session store**: an id or code that was handed out is found until a restart.
- **The whole server**: the tokens a client gets for a code name the person whom
  the login that brought the code has identified.
- **The page**: it posts only once a session it has shown is completed, and is left
  only with the result of such a session; on a desktop it never waits without
  listening, leaves no session open, and ends where its user can try again or with
  a result.
- **Keys**: whoever gets a token can verify it with the published key.
- **Algorithms**: hosts, attributes, disclosed values, URL parameters, base URLs
  and credentials are judged as their reference definitions say.

## Modules

| Module | What it is |
|---|---|
| `OauthSessionService` | The objects, the maps, races on the maps, a restart. Extended by the next two. |
| `LoginFlow` | Browsers, tabs, `HttpSession`s, IRMA sessions; the whole login. |
| `LoginProperties` | Its properties, and the refinement mapping to `LoginContract`. |
| `LoginContract` | The abstract promise: relying parties are told what was disclosed in that browser, or nothing. |
| `LoginFlowProofs`, `LaunchProofs` | Theorems about `LoginFlow`, in general and for undisturbed use. |
| `TokenEndpoint` | `POST /oauth2/token`; `Login` stands for what the login flow leaves behind. |
| `TokenProperties`, `TokenEndpointProofs` | Its properties and theorems. |
| `AuthService` | The composition of `LoginFlow` and `TokenEndpoint` over one heap and one set of maps. |
| `AuthProperties`, `AuthProofs` | Properties that cross the two, and theorems about them. |
| `YiviStateMachine` | The table of states and transitions of the bundled library. |
| `StatusListener` | Its listener on the status of a session: event sources, connect timers, the poll loop. |
| `YiviPage` | The page: session client, state client and buttons, on top of those two. |
| `PageContract` | The abstract promise of the page to the rest of the login flow. |
| `YiviProperties`, `YiviProofs`, `DesktopProofs` | The properties of the page, the refinement mapping to `PageContract`, and theorems. |
| `KeyConfiguration` | Settings, `keygen.sh`, the server's start, signing, publication. |
| `KeyProperties`, `KeyProofs` | Its properties and theorems. |
| `ValidationService`, `IrmaService`, `SessionAnswer`, `UrlUtils`, `ClientCredentialValidator` | The pure algorithms, as operators and recursive functions. |
| `AlgorithmProperties`, `AlgorithmProofs` | Reference definitions, a specification whose inputs grow a piece at a time, and a theorem for each algorithm. |
| `MCLogin`, `MCToken`, `MCAuth`, `MCYivi`, `MCKeys`, `MCAlgorithms` | Values for the constants. |

Beside a definition stands, where a property needs one, a *mutant*: the same
definition with a plausible bug, under a comment that begins with `Mutant`.
`PROJECT.json` says which property fails when it takes the definition's place;
every checked property has at least one.

## How the code became actions

A handler is one action per access to state that another thread can reach: an
`HttpSession` attribute, a field of an `OauthSession`, a map. What lies between
two accesses is local, and kept in the record of the tab (`tab[t]`) or of the
request (`req[r]`), whose field `at` says which access comes next.

**Login flow.** `authorize` is `AuthorizeRefused`, or `AuthorizeStore` and then
`AuthorizeSetSession`, `AuthorizeSetRedirect`, `AuthorizeSetAttribute`.
`IndexController.index` is `IndexSetRedirect` and `IndexSetAttribute`, the
second of which also validates: the order in the code is to set first and to
validate afterwards, and the model keeps it. `SessionController.startSession`
is `StartSession` or `StartSessionFails`. `stopSession` is `EndSession`, which
reads the attribute before the remote call; `EndFetchResult` or `EndFetchFails`,
the remote call and the read of `oauthSession` after it; and one of four
answers: `EndAnswerCode`, `EndAnswerUnknown` (`retrieveById` returned null and
is dereferenced), `EndAnswerToken`, `EndAnswerNowhere`. `delivered` is history:
the redirects browsers followed. Of the page, `LoginFlow` has what `PageContract`
promises: it starts a session and waits (`StartSession`), stops whenever it likes
(`PageStops`), posts for the result of a session that is done (`EndSession`), and
follows the url of the answer.

**The page.** `public/js/yivi.js` is the bundle of `yivi-frontend`; all of its
code is on line 8, so that is the line every definition of it maps to. It runs
one task at a time, each with the promise callbacks that it resolves, so an
action of `YiviPage` is a task: an answer (`StartAnswered`, `PollAnswers`,
`ResultAnswered`, `OptionsUpdated`, `PairingCompleted`), a failure of a request
(`StartFails`, ...), an event of an `EventSource` (`SourceOpens`, `SourceTells`,
`SourceFails`), a timer (`ConnectTimer`, `PollInterval`, `PairingRejected`) or a
click (`Restart`, `ChooseQR`, `CodeEntered`, `Cancel`, `CheckUserAgent` by a
resize of the window). Within a task, every transition asked for by
`selectTransition` is taken if the table allows it in the state of that moment
and is dropped if not (`Select`). Listeners are kept per session, with their event
sources and timers, because a closed listener is not gone: its poll loop finishes,
its timers fire, and its errors are still reported. `startSession` of the server
passes the IRMA server's answer through, so whether pairing is asked for is the
IRMA server's choice (`PairingHint`).

**Token endpoint.** `token()` is `Exchange`, `Refresh` or `Refuse`;
`tokenRefresh` is `Consume`, which takes the token out of the map *before*
parsing it; `getOidcToken` is `CreateIdToken`, `CreateAccessToken`,
`CreateRefreshToken`, `SetRefreshToken`, `StoreSession` (which reads the field
back) and `Respond`. A refresh token has no claim that is its own, so it is the
tuple of its subject, audience and second of issue, and two sessions of one user
can be issued equal ones.

`token()` authenticates a client against the session of the code it sends, and
compares nothing with the refresh token it sends along: `PostCode` lets any client
with a code of its own present any refresh token that was ever handed to anybody,
also one that has been presented before.

What parsing a refresh token does is up to the JWT library. jjwt 0.9.1 (`pom.xml`),
given a key as a text, throws at every token that is signed with RSA, before it
looks at the expiry, and `tokenRefresh` catches only `ExpiredJwtException`: with
`ParserOutcomes = {"exception"}` every refresh ends there, *after* the token has left
the map. `{"claims"}` is a library that takes the key, and finds a token too old or
reads its audience. `token_endpoint` has both outcomes, `refresh_token_lost` only the
first; `auth_service` only the second, since it asks what tokens say.

**The composition.** A step of `AuthService` is a step of one of the two parts
that leaves the variables of the other alone, or a restart of both. A client posts
with a code that a redirect has brought it (`Delivered`), in place of the sessions
that `Login` of `TokenEndpoint` leaves behind.

**Maps.** `HashMap` has no defined behaviour under concurrent use. With
`StoreRaces`, every `get` may miss: an entry that a race lost is an entry that
later gets miss. Without it, maps are functions.

**Restarts.** Objects become `Gone`, the maps and `HttpSession`s empty, requests
in progress fail. Pages, IRMA sessions, tokens clients hold and key files stay.

**Keys.** A setting is a PEM (an element of `Keys`), `FileName` or `Absent`.
`AuthenticationService.init` is `AssertConfigured`, `LoadPublicKey`,
`LoadPrivateKey`, `validate`; `keygen.sh` writes each file in two steps, between
which others read `Incomplete`. Keys are compared as pairs.

**Algorithms.** A host is its sequence of labels, a URL or a line of credentials
the sequence of the characters that matter. The regular expressions are modelled
by what they match: `regexMatches` is a table over prefixes, `splitAt` the last
colon that leaves both groups non-empty, `urlDecoder` reads a text a character at a
time, with the escape it is in; an escape that is never completed, at which
`URLDecoder` throws and the code refuses, leaves that escape behind.

## Runs

States are distinct states; times are on two cores.

| Run | Specification and bounds | Result |
|---|---|---|
| `one_tab_each` | `LoginFlow`, fair; 2 browsers with a tab each, one on a desktop that only uses `/oauth2/authorize` and one elsewhere that only uses `/`, 2 OAuth sessions, 2 IRMA sessions, 5 links, domain validation, all faults | 373,390 states, 2 min; `TypeOK`, `DeliveredAsLaunched`, `DeliveredCodeUsable`, `OpenSessionsKnown`, `IdentificationFinal`, `PagesSettle`, `PostedResultRedirects` hold |
| `shared_session` | `LoginFlow`; 2 tabs of one browser and 1 of another, both ways to open a page, races on the maps | 478,952 states, 45 s; `OwnDisclosuresOnly`, `CodeMatchesRequest`, `KeepsContract` hold |
| `token_endpoint` | `TokenEndpoint`; 2 sessions, 2 clients, one that awaits its answers and one that does not, 3 requests, instants 0 and 7201, restarts, lost responses, a parser that succeeds or fails | 282,552 states, 45 s; `TokenTypeOK`, `AwaitedRefreshStored`, `RefreshConsumedOnce`, `AnsweredAsIssued` hold |
| `auth_service` | `AuthService`; 2 browsers with a tab each, 2 OAuth sessions, 2 IRMA sessions, 2 overlapping token requests, instants 0 and 1, restarts | 843,796 states, 2 min; `TokensNameDiscloser`, `TokensAgree` hold |
| `yivi_desktop` | `YiviPage`, fair; a desktop, no pairing, 3 IRMA sessions | 273,633 states, 3 min; `WatchesWhileWaiting`, `NoSessionLeftOpen`, `PostsForCompleted`, `YiviSettles`, `KeepsPageContract` hold |
| `yivi_pairing` | `YiviPage`; desktop and phone, pairing, 2 IRMA sessions | 896,000 states, 1 min; `YiviTypeOK`, `OneListenerRuns` hold |
| `key_pair` | `KeyConfiguration`; 3 key pairs, every pair of settings | 386,965 states; `KeyTypeOK`, `TokensVerify`, `PemKeyPublished` hold |
| `algorithms` | inputs up to 4 labels, 4 characters, 3 conjunctions of 2, 6 url parts, 6 characters of credentials | 164,500 states; six properties hold |
| `stale_oauth_session` | `LoginFlow`; 1 tab, both ways to open a page | `DeliveredAsLaunched` violated |
| `two_tabs` | `LoginFlow`; 2 tabs of one browser | `SubjectIdentified` violated |
| `refresh_token_lost` | `TokenEndpoint`; overlapping requests, instants 0 and 1, the parser of the build | `IssuedRefreshStored` violated |
| `key_file` | `KeyConfiguration`; both keys in files | `ConfiguredKeyPublished` violated |

Why the bounds are enough for the cases that matter. Two browsers is what it
takes for an identity to cross from one to the other, a second tab for two
requests to share an `HttpSession`, two sessions and two IRMA sessions for one
browser to have an earlier login to be confused with. Three token requests
suffice for an exchange, a refresh and a competitor, for two issues of one token,
and for a token that is sent again after its response was lost; at 7201 a token
issued at 0 has expired, at 1 it is fresh, and the two issues differ. In
`auth_service` two requests overlap a login that ends a second time. Of the page's
sessions, one is shown, one was shown before the restart, and a third is answered too
late: the page posts for that one if the one it shows is then completed. Credentials of
six characters hold an id with a colon, and an escape in the password, whole, broken
off, or of another character. An
event source per session (`SlotsOf`) is enough on a desktop, where a new one is
opened only after the old one is closed and its timer has fired or been cleared;
with one, resizes within two seconds of each other are left out (`DesktopProofs`
covers them). On a phone, in `yivi_pairing`, it also leaves out the second source
that "show QR code" opens beside one that is open or whose timer runs (two sources
make more than 5.8 million states); `YiviProofs` covers that. Two configured
key pairs and one new one are a match, a mismatch and a rotation. What depends on larger
numbers is proved, where it is proved, without a bound. Symmetry is used over
interchangeable model values, and never in a run that checks liveness.

Some properties are claims under a condition, and fail without it:

- `DeliveredAsLaunched`, `IdentificationFinal`, `PostedResultRedirects` and
  `TokensAgree` are about undisturbed use: one tab per browser, one way to open
  pages. `stale_oauth_session` and `two_tabs` show what happens otherwise.
  `OwnDisclosuresOnly` and `TokensNameDiscloser` hold in general.
- `DeliveredCodeUsable` and `OpenSessionsKnown` say that the maps have an entry; a
  racing `get` may miss it.
- `AwaitedRefreshStored` and `RefreshConsumedOnce` are about clients that await each
  answer (a lost response included) and whose tokens only they present; other clients
  may do as they like. `refresh_token_lost` shows what a client that overlaps its
  requests risks. Both count a token as consumed once it has left the map, whether or
  not the request got anything for it: a request that fails in the parser has used the
  token up, in the code as in the model.
- `PagesSettle` is about every page where it waits for the server, and about pages on a
  desktop (`DesktopTabs`) where it waits for the wallet.
- `WatchesWhileWaiting`, `NoSessionLeftOpen`, `PostsForCompleted` and `YiviSettles` are
  about pages on a desktop without pairing. On a phone, "show QR code" opens a second event source
  beside the first, which is never closed: it may close the listener of a later
  session. Where pairing options are being set, a final status is dropped, since
  no transition of the `Preparing` states takes it, and the page then shows a
  session that is over; and a request for them that fails leaves the session open,
  because its listener was not running yet. `YiviPage` has all those steps, and
  the theorems `OneListener` and `PageKeepsContract` hold with them.

**Deadlock** is not checked in runs that end by running out of requests,
sessions, instants or input; in the login flow and the key configuration it is.

**Fairness** (`LoginFlow!Fairness`): a request thread goes on until it has
answered (the container schedules threads, the loops are finite); a page on a desktop
learns that its IRMA session is done or over, or gives up; the IRMA server ends a
session that no wallet completes, by its timeout. Of a page on a phone, or one that
asks for pairing, the second is not assumed, since it may miss the last status of its
session. Nothing is assumed of users, who
may leave any page, and nothing of faults. Every remote call is supposed to return
or fail. The second of these is what `YiviSettles` says of such a page, under
`YiviPage!YiviFairness`: requests are answered or fail, timers fire, the IRMA
server times sessions out and ends the events of those that are over. It is not
assumed that an open event source tells anything, nor that a wallet or a user does
anything. The ending of events is a strong fairness, since every resize of the
window closes one source and opens another, and a page that asks for the events of
a forgotten session again and again is refused in the end.

## What the runs found

1. *A page opened through `/` is answered with an OAuth code*
   (`stale_oauth_session`). `SessionController.stopSession` (line 49) looks at
   `oauthSession` first, and `IndexController` never clears what an earlier
   authorization request left there. README line 13 promises the `redirect_uri`
   of the visit.
2. *An empty subject* (`two_tabs`). The attribute that a second tab puts into the
   `HttpSession` replaces the first tab's; the result of the first is searched
   for it, nothing matches, and a token with the subject `""` goes out. README
   line 15 has applications authenticate the user with that subject.
3. *A refresh token that was never stored* (`refresh_token_lost`). Two requests
   for one session set its `refreshToken` one after the other before either calls
   `store`, which reads the field: both puts use the second token. The first is missing
   one second after it was issued, although nobody has sent it, and would be refused as
   not found for the rest of its two hours.
4. *Keys in files are not published* (`key_file`). README line 79 allows a file
   name; `jwks.json` parses the name itself and fails, `public_key.txt` shows it.

Also met, and not the subject of a run. With the jjwt of the build no refresh ever
succeeds: the parser throws, the request fails, and the token is gone from the map, so
that the "2 Hours" of `AuthenticationService.java:34` are never honoured
(`TokenEndpoint!Consume`, the branch `"exception"`). A start of the page that is
answered too late replaces the session token that `yivi.html:71` posts with: when the
session on the screen is completed after that, the page asks for the result of the
late one, gets none, and the disclosure is lost (the second half of
`PostsForCompleted`). Smaller ones: `expires_in` is 3600
(`OidcTokenResponse.java:16`) while `TOKEN_EXPIRY` lets an access token live 60
seconds (`AuthenticationService.java:33`); README line 82 promises a key pair
generated at startup when none is configured, and `AuthenticationService.init`
refuses to start (`AssertConfigured`); the advertised issuer is the base URL of
the request while `iss` is the configured issuer; `state` is appended to the
redirect URI without URL-encoding; an allowed domain of three labels matches no
host (`AcceptsHostsOfAllowedDomains` states which do).

## Proofs

Checked by `tlapm` to the last leaf, for every value of the constants that
satisfies the named assumptions (`SessionServiceAssumption`, `ObjectAssumption`,
`LoginAssumption`, `IrmaAssumption`, `TokenAssumption`, `YiviAssumption`,
`KeyAssumption`, `InputAssumption`, `PasswordAssumption`, `EscapeAssumption`). These say that model values are distinct, that UUIDs and JWTs are different strings,
that constants have their types, that the password of a client, being base64 of an
MD5, is not empty and has no colon, and that an escape of `URLDecoder` is a percent
sign and two characters that are no colon.

**`LoginFlowProofs`** — any browsers, tabs, sessions, launches and wallets, all
faults, races on the maps. The invariant `LoginInv` is needed because the
properties speak of what was delivered, while the reasons lie in what is under
way: `HttpSessionInv` (an `HttpSession` has an `OauthSession` of its own browser
only), `PageInv` (the IRMA session of a page is its browser's; the result a
handler holds was disclosed there), `HeapInv` (so is every identification in an
object), `DeliveredInv` (the properties themselves, with the sessions of earlier
processes excepted). From it follow `LoginTypeCorrect`, `OwnDisclosures`,
`CodesMatchRequests`, and `LoginKeepsContract`: each step of `LoginFlow` is a
`DiscloseTo`, an `Assert` or a stuttering step of `LoginContract`. A second, small
invariant, `IndexInv` (whatever has been given an id is in the maps under it, until
a restart), gives `CodesUsable` and `SessionsKnown`.

**`LaunchProofs`** — the properties of undisturbed use, under the hypothesis
`Undisturbed`: no browser has two tabs (`OneTabEach`) and no tab follows links of
both kinds (`OneWayEach`). Number of browsers, sessions, launches, faults and races
are arbitrary. `LaunchInv` adds to `LoginInv` what the `HttpSession` of a page holds
at each stage of its launch (`FlowInv`: from the moment the page has loaded,
attribute, redirect URI and OAuth session are those of its launch, unless the
`HttpSession` was lost) and, for `IdentificationsFinal`, that the session of a code
that has gone out is out of reach: an `HttpSession` may still hold its id, but no
page holds it or can fetch it before the next launch replaces it (`SettledInv`). `ResultsRedirect` also assumes that launches
name a redirect URI (`WithRedirect`): for those that do not, the answer is an empty
url on purpose.

**`AuthProofs`** — the whole server, for any constants. A step of the token endpoint
writes only `refreshToken` fields and map entries, so `LoginInv` survives it
(`TokenTurn`), and with it the contract (`AuthKeepsContract`). `AuthInv` adds that a request works for
a session of the running process only (`CallInv`, and `RefreshLive` for those that a
refresh token leads to), and that the subject of a token it has made was disclosed
in the browser that opened that session (`NamesOwn`); that gives `TokensNameOwn`.
`TokensAgreeing` is about undisturbed use again, under the hypothesis of
`LaunchProofs`. Its invariant `AgreeInv` is `AuthInv`, `LaunchInv` and three facts
that lean on each other: a session that a request works for, or a refresh token leads
to, has had its code delivered (`Called`); the identification of such a session is
still the one it was delivered with (`NamedAsDelivered`, which is where `LaunchInv`'s
`SettledInv` comes in: only a login could write it, and none reaches the session any
more); so each token gets that subject (`TokensAgree` itself). After a restart the
sessions of earlier processes are gone and nobody works for them.

**`YiviProofs`** — any sessions, event sources, devices, pairing or not. The
invariant `YiviInv` relates the state of the page to its listeners and its sessions:
only the watched listener runs, and only while the page waits; a listener is new
until its session's start is answered; what waits watches such a session; and a
session that a wallet has taken up has been shown. `YiviTypeCorrect`, `OneListener` and
`PageKeepsContract`, the refinement of `PageContract`, follow.

**`DesktopProofs`** — desktops without pairing (the hypothesis `OnDesktop`), any
sessions and any number of event sources, so also resizes in quick succession, whose
earlier connect timers are still running. What a listener does next depends on its
past, so `DesktopInv` adds to `YiviInv` that every listener is `Sound`: only a running
one has a source that is not closed, only the one it remembers, and then it hears of
its session and its poll loop has not failed. Each operation of `StatusListener`
keeps that, but for a loop that fails for good, and that one ends the page
(`FailSound`). With what `DesktopInv` says of the sessions that are not shown,
`DesktopWatches` and `DesktopLeavesNoneOpen` follow. `DesktopPosts` needs one more
invariant, `PostInv`: the session token that the page posts with is that of the session
on the screen, or of one that was answered too late (`TooLate`: never shown, and asked
to be cancelled), and so is every session whose result is waited for, once it is not
that of a completed one.

**`TokenEndpointProofs`** — any sessions, clients, requests and instants,
overlapping or not, with races, restarts and lost responses, any client presenting any
token that was handed out. The invariant `TokenInv` traces where refresh tokens come
from: the map and the objects hold a JWT only for a session that it was issued for
(`RefreshInv`), although `store` reads it from an object that other requests write; and
a request works for the session of its own client's code, or for one that the token it
presents was issued for (`Authorized`). That is `AnswersAsIssued`. It does not say that
the client that presents a token is the one it was issued to, since `tokenRefresh`
compares nothing.

The other theorems are about clients that await their answers and keep to their own
tokens (`Awaits`). `AwaitInv` adds to `TokenInv` that two of their requests are never
under way together (`OneAtATime`), and hence that the token that `setRefreshToken` wrote
is still the one `store` reads (`Learnt`) -- what `refresh_token_lost` breaks. That no
other client reaches their sessions (`Own`) is not assumed but proved: who works for a
session has its code or presents a token of it, and their tokens
only they present. `AwaitedStored` follows by one more invariant, `Kept`: a
token stays in the map until it is consumed, since the put of another session replaces
its entry only if the two share the token. It assumes `~StoreRaces`: where a `get` can
miss an entry, TLC finds that it fails, because `consumeRefreshToken` then forgets a
token it has not found. `ConsumedOnce` holds with races too. It counts (`Balanced`): the
requests that have consumed a token, and the entry that may still be consumed, are
together no more than the requests that were issued it and have put it; a put adds one
to both sides, a consumption moves one on the left. Its only hypothesis is that the
requests of a history are finitely many, without which `Cardinality` says nothing.

**`KeyProofs`** — any keys and settings. `KeyInv` says what each stage of the
start has read. `KeyTypeCorrect`, `TokensAlwaysVerify` and `PemKeyAlwaysPublished`
follow.

**`AlgorithmProofs`** — every pure algorithm against its reference definition, for
inputs of any length over any characters. `InputInv` says what the inputs are; what
is proved of the operators needs no induction over the specification.

- `HostsOfAllowedDomains` and `BaseUrlsAreOrigins` are by cases.
- `AttributesSpelled`: the characters of an attribute that a prefix of the pattern
  consumes (`consumed`, one row per character of the pattern) are those it can spell
  (`Row`). `OwnCredentialsOnly`: the decoder turns a text into exactly what the text
  spells when it is cut into single characters and escapes (`Decoding`: `Reads` follows
  the decoder along such a cut, `DecoderSpells` finds the cut of a text that decodes);
  no spelling of a password has a colon (`NoColon`), so the last colon of the
  credentials is the one before it (`SplitAtLast`, `LastColon`).
- `DisclosedValueReturned` and `ParametersReachClient` follow the loop (`foundIn`) and
  the reader of a URL (`separated`) a step at a time. A parameter that is appended to
  a URL is read last (`ParameterAppended`), which is then used twice for a code and a
  state.

The library's induction theorems take an operator, which the provers cannot
instantiate. The first-order consequence of one of them, that a nonempty set of numbers
has a least one (`LeastNumber`), does instead: a recursive function is shown to have a
solution (`RecursionSolved`, or a closed form as in `ConsumedRecursively`), and the set
of places where that solution is not as claimed to have no least number.

Only model-checked: liveness (`PagesSettle`, `YiviSettles`), which rests on fairness
and `ENABLED`, both outside what the prover handles. Every invariant and every other
action property of the passing runs is a theorem, some under the hypotheses named
above.

## Not modelled

- The cookie of the `HttpSession`: two first requests of a browser at once may
  get a session each. A browser has one session here.
- A disclosed attribute whose `rawvalue` is null, and the verification of the
  IRMA server's result JWT with the IRMA key.
- A racing `put` that was to replace another session's entry for a shared
  refresh token; a race in which two `consumeRefreshToken` calls both return the
  session.
- Nothing is ever removed from the maps, codes are never invalidated. The number
  of sessions is a bound of the model, not a limit of the code.
- The `X-Forwarded-*` headers that `UrlUtils.getBaseUrl` (line 17) honours: a request
  is its scheme, host and port as the framework resolved them.
- Escapes of characters that take several bytes: an escape is a character.
- Redirect URIs without a host in `LoginFlow` (they are refused, see
  `ValidationService`), and encodings and fragments in `SessionAnswer`.
- Of `yivi.js`: rendering and texts, the polyfills (a server-sent event is what the
  browser's own `EventSource` makes of it), chained sessions, statuses that the
  protocol does not name, plugins that `yivi.html` does not use (popup, console, old
  browsers) and `abort()`, which nobody calls. A page that is closed or reloaded is
  simply gone.
- JSON, JWT and PEM formats, HTTP status codes, logging, pages, the build.

## Plan

1. Done: the session store, the login flow with its contract, the token endpoint,
   their composition, the login page with its contract, the key configuration, the
   pure algorithms, and the theorems above.
2. *An abstract token service*: sessions, and the tokens issued for them and not yet
   consumed, which `TokenEndpoint` implements for clients that await their answers.
3. *Phones*: what of `WatchesWhileWaiting` and `NoSessionLeftOpen` still holds there.
4. *Algorithms*: encodings and fragments of redirect URIs.
