----------------------------- MODULE KeyProofs -----------------------------
(***************************************************************************)
(* What holds of KeyConfiguration for any number of key pairs and for all  *)
(* settings, whenever keygen.sh runs or is interrupted.                    *)
(***************************************************************************)
EXTENDS KeyProperties, TLAPS

(***************************************************************************)
(* The inductive invariant: the start has read what its stage says, and    *)
(* what it read of a PEM is that PEM.                                      *)
(***************************************************************************)
LoadedInv ==
  /\ server \in {"reading private key", "validating", "running"} => publicKey \in Keys
  /\ server \in {"validating", "running"} => privateKey \in Keys
  /\ server = "running" => publicKey = privateKey
  /\ (jwtPublicKey \in Keys /\ publicKey # NULL) => publicKey = jwtPublicKey

KeyInv == KeyTypeOK /\ LoadedInv /\ TokensVerify /\ PemKeyPublished

-----------------------------------------------------------------------------
LEMMA KeyInitially == KeyInit => KeyInv
BY KeyAssumption
   DEF KeyInit, KeyInv, KeyTypeOK, LoadedInv, TokensVerify, PemKeyPublished

\* keygen.sh only changes the files, which hold keys or nothing of use.
LEMMA KeygenStep ==
  ASSUME KeyInv, Keygen
  PROVE  KeyInv'
<1>1. UNCHANGED <<settings, loaded, history>>
  BY DEF Keygen, GeneratePrivateKey, PrivateKeyWritten, ExportPublicKey,
         PublicKeyWritten, KeygenInterrupted, RemoveFiles
<1>2. /\ {publicFile', privateFile'} \subseteq Keys \cup {NULL, Incomplete}
      /\ keygen' \in {"idle", "writing private key", "public key", "writing public key"}
  BY DEF KeyInv, KeyTypeOK, Keygen, GeneratePrivateKey, PrivateKeyWritten, ExportPublicKey,
         PublicKeyWritten, KeygenInterrupted, RemoveFiles
<1> QED
  BY <1>1, <1>2 DEF KeyInv, KeyTypeOK, LoadedInv, TokensVerify, PemKeyPublished,
                    settings, loaded, history

\* The start: a PEM is read as it is, and only a matching pair gets through.
LEMMA StartStep ==
  ASSUME KeyInv, Start
  PROVE  KeyInv'
<1>1. UNCHANGED <<settings, files, history>>
  BY DEF Start, AssertConfigured, LoadPublicKey, LoadPrivateKey, validate, Stop
<1>2. KeyTypeOK'
  BY <1>1 DEF KeyInv, KeyTypeOK, settings, files, history,
              Start, AssertConfigured, LoadPublicKey, LoadPrivateKey, validate, Stop
<1>3. LoadedInv'
  <2>1. CASE AssertConfigured
    BY <1>1, <2>1 DEF AssertConfigured, KeyInv, LoadedInv, settings
  <2>2. CASE LoadPublicKey
    <3>1. jwtPublicKey \in Keys =>
            readPemKeyFromFileOrValue(jwtPublicKey, publicFile) = jwtPublicKey
      BY KeyAssumption DEF readPemKeyFromFileOrValue
    <3> QED
      BY <1>1, <2>2, <3>1 DEF LoadPublicKey, KeyInv, LoadedInv, settings
  <2>3. CASE LoadPrivateKey
    BY <1>1, <2>3 DEF LoadPrivateKey, KeyInv, LoadedInv, settings
  <2>4. CASE validate
    BY <1>1, <2>4 DEF validate, KeyInv, LoadedInv, settings
  <2>5. CASE Stop
    BY <1>1, <2>5 DEF Stop, LoadedInv, settings
  <2> QED
    BY <2>1, <2>2, <2>3, <2>4, <2>5 DEF Start
<1> QED
  BY <1>1, <1>2, <1>3 DEF KeyInv, TokensVerify, PemKeyPublished, settings, history

\* The endpoints use the loaded pair, or read the setting anew.
LEMMA UseStep ==
  ASSUME KeyInv, Use
  PROVE  KeyInv'
<1>1. /\ server = "running" /\ publicKey \in Keys /\ privateKey = publicKey
      /\ jwtPublicKey \in Keys => publicKey = jwtPublicKey
      /\ UNCHANGED <<settings, files, loaded>>
  BY KeyAssumption DEF KeyInv, LoadedInv, Use, CreateToken, GetJwks, GetPublicKey, Authorize, Serve
<1>2. LoadedInv'
  BY <1>1 DEF KeyInv, LoadedInv, settings, loaded
<1>3. CASE CreateToken
  <2>1. answers' = answers
        /\ tokens' = tokens \cup {[kid |-> publicKey, signedWith |-> privateKey]}
    BY <1>3 DEF CreateToken
  <2>2. tokens' \subseteq Token
    <3>1. [kid |-> publicKey, signedWith |-> privateKey] \in Token
      BY <1>1 DEF Token
    <3> QED
      BY <2>1, <3>1 DEF KeyInv, KeyTypeOK
  <2>3. KeyTypeOK'
    BY <1>1, <2>1, <2>2 DEF KeyInv, KeyTypeOK, settings, files, loaded
  <2>4. TokensVerify' /\ PemKeyPublished'
    BY <1>1, <2>1 DEF KeyInv, TokensVerify, PemKeyPublished, settings
  <2> QED
    BY <1>2, <2>3, <2>4 DEF KeyInv
<1>4. ASSUME NEW from \in {"jwks.json", "public_key.txt", "token"},
             NEW key \in Keys \cup {FileName, Absent, Incomplete, NULL},
             jwtPublicKey \in Keys => key = jwtPublicKey,
             Serve(from, key)
      PROVE  KeyInv'
  <2>1. tokens' = tokens /\ answers' = answers \cup {[from |-> from, key |-> key]}
    BY <1>4 DEF Serve
  <2>2. answers' \subseteq Answer
    <3>1. [from |-> from, key |-> key] \in Answer
      BY <1>4 DEF Answer
    <3> QED
      BY <2>1, <3>1 DEF KeyInv, KeyTypeOK
  <2>3. KeyTypeOK'
    BY <1>1, <2>1, <2>2 DEF KeyInv, KeyTypeOK, settings, files, loaded
  <2>4. TokensVerify' /\ PemKeyPublished'
    BY <1>1, <1>4, <2>1 DEF KeyInv, TokensVerify, PemKeyPublished, settings
  <2> QED
    BY <1>2, <2>3, <2>4 DEF KeyInv
<1>5. /\ readPemKeyString(jwtPublicKey) \in Keys \cup {NULL}
      /\ jwtPublicKey \in Keys \cup {FileName, Absent}
      /\ readPemKeyFromFileOrValue(jwtPublicKey, publicFile) \in Keys \cup {NULL, Incomplete}
      /\ jwtPublicKey \in Keys =>
           /\ readPemKeyString(jwtPublicKey) = jwtPublicKey
           /\ readPemKeyFromFileOrValue(jwtPublicKey, publicFile) = jwtPublicKey
  BY KeyAssumption
     DEF KeyInv, KeyTypeOK, readPemKeyString, readPemKeyFromFileOrValue
<1>6. CASE GetJwks
  BY <1>4, <1>5, <1>6 DEF GetJwks
<1>7. CASE GetPublicKey
  BY <1>4, <1>5, <1>7 DEF GetPublicKey
<1>8. CASE Authorize
  BY <1>4, <1>5, <1>8 DEF Authorize
<1> QED
  BY <1>3, <1>6, <1>7, <1>8 DEF Use

-----------------------------------------------------------------------------
(***************************************************************************)
(* The stages of AuthenticationService.init, its key pair, and what has    *)
(* been signed and answered with it.                                       *)
(***************************************************************************)
THEOREM KeyInvariance == KeySpec => []KeyInv
<1>1. KeyInv /\ [KeyNext]_keyVars => KeyInv'
  <2> SUFFICES ASSUME KeyInv, [KeyNext]_keyVars PROVE KeyInv'
    OBVIOUS
  <2>1. CASE UNCHANGED keyVars
    BY <2>1 DEF keyVars, settings, files, loaded, history, KeyInv, KeyTypeOK, LoadedInv,
                TokensVerify, PemKeyPublished
  <2> QED
    BY <2>1, KeygenStep, StartStep, UseStep DEF KeyNext
<1> QED
  BY <1>1, KeyInitially, PTL DEF KeySpec

\* Settings, key files and the loaded pair keep the type of their Java fields.
THEOREM KeyTypeCorrect == KeySpec => []KeyTypeOK
<1>1. KeyInv => KeyTypeOK
  BY DEF KeyInv
<1> QED
  BY <1>1, KeyInvariance, PTL

(***************************************************************************)
(* validate() in AuthenticationService.init is enough: no token is signed  *)
(* that the key its kid names does not verify.                             *)
(***************************************************************************)
THEOREM TokensAlwaysVerify == KeySpec => []TokensVerify
<1>1. KeyInv => TokensVerify
  BY DEF KeyInv
<1> QED
  BY <1>1, KeyInvariance, PTL

(***************************************************************************)
(* JwksController, PublicKeyController and the token endpoint agree with   *)
(* AuthenticationService on a public key that is configured as a PEM.      *)
(***************************************************************************)
THEOREM PemKeyAlwaysPublished == KeySpec => []PemKeyPublished
<1>1. KeyInv => PemKeyPublished
  BY DEF KeyInv
<1> QED
  BY <1>1, KeyInvariance, PTL
=============================================================================
