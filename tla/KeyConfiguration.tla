-------------------------- MODULE KeyConfiguration --------------------------
(***************************************************************************)
(* Where the RSA key pair that signs the tokens comes from, and who gets   *)
(* to see which key.                                                       *)
(*                                                                         *)
(* The public and the private key are each configured as a PEM or as the   *)
(* name of a file.  tools/keygen.sh makes the files.  Authentication-      *)
(* Service.init reads both once, when the server starts; the token         *)
(* endpoint reads the public key again for every request; jwks.json and    *)
(* public_key.txt only look at the configured string.                      *)
(*                                                                         *)
(* A key pair is one element of Keys: a public and a private key match     *)
(* when they are of the same pair.                                         *)
(***************************************************************************)

CONSTANTS
  Keys,             \* the key pairs there can be (bound)
  FileName, Absent, \* the settings that are no PEM
  PublicSettings, PrivateSettings,
  Incomplete,       \* what a file has that is still being written
  NULL              \* no file, or nothing in it; Java's null

ASSUME KeyAssumption ==
  /\ PublicSettings \cup PrivateSettings \subseteq Keys \cup {FileName, Absent}
  /\ {FileName, Absent, Incomplete, NULL} \cap Keys = {}
  /\ FileName # Absent /\ NULL # Incomplete

VARIABLES
  jwtPublicKey, jwtPrivateKey,  \* ServerConfiguration
  publicFile, privateFile,      \* what the files contain
  keygen,                       \* how far tools/keygen.sh is
  server,                       \* how far the server's start is
  publicKey, privateKey,        \* AuthenticationService's fields
  tokens,                       \* history: which key signed, which the kid names
  answers                       \* history: the keys that requests were served with

settings == <<jwtPublicKey, jwtPrivateKey>>
files    == <<publicFile, privateFile, keygen>>
loaded   == <<server, publicKey, privateKey>>
history  == <<tokens, answers>>
keyVars  == <<settings, files, loaded, history>>

Token  == [kid: Keys, signedWith: Keys]
Answer == [from: {"jwks.json", "public_key.txt", "token"},
           key: Keys \cup {FileName, Absent, Incomplete, NULL}]

-----------------------------------------------------------------------------
\* PemUtils: what comes out is a key only if it is in Keys.
\* Mutant: a file, when there is one, goes before the configured PEM.
readPemKeyFromFileFirst(setting, file) ==
  IF file \in Keys THEN file ELSE IF setting \in Keys THEN setting ELSE NULL

readPemKeyFromFileOrValue(setting, file) ==
  IF setting = FileName THEN file ELSE IF setting \in Keys THEN setting ELSE NULL

\* Base64 that is no PEM decodes to bytes that are no key.
readPemKeyString(setting) == IF setting \in Keys THEN setting ELSE NULL

-----------------------------------------------------------------------------
(***************************************************************************)
(* tools/keygen.sh: files that are there are left alone; openssl writes    *)
(* while others may read.  The operator can interrupt it, and removes      *)
(* files (external) to have them made anew.                                *)
(***************************************************************************)
Unused(k) ==
  /\ k \notin {jwtPublicKey, jwtPrivateKey, publicFile, publicKey, privateKey}
  /\ \A t \in tokens : k # t.kid

GeneratePrivateKey ==
  /\ keygen = "idle"
  /\ IF privateFile = NULL
     THEN privateFile' = Incomplete /\ keygen' = "writing private key"
     ELSE keygen' = "public key" /\ UNCHANGED privateFile
  /\ UNCHANGED <<settings, publicFile, loaded, history>>

PrivateKeyWritten ==
  /\ keygen = "writing private key"
  /\ \E k \in Keys : Unused(k) /\ privateFile' = k
  /\ keygen' = "public key"
  /\ UNCHANGED <<settings, publicFile, loaded, history>>

ExportPublicKey ==
  /\ keygen = "public key"
  /\ IF publicFile = NULL /\ privateFile \in Keys
     THEN publicFile' = Incomplete /\ keygen' = "writing public key"
     ELSE keygen' = "idle" /\ UNCHANGED publicFile
  /\ UNCHANGED <<settings, privateFile, loaded, history>>

PublicKeyWritten ==
  /\ keygen = "writing public key"
  /\ publicFile' = privateFile
  /\ keygen' = "idle"
  /\ UNCHANGED <<settings, privateFile, loaded, history>>

KeygenInterrupted ==
  /\ keygen # "idle"
  /\ keygen' = "idle"
  /\ UNCHANGED <<settings, publicFile, privateFile, loaded, history>>

RemoveFiles ==
  /\ keygen = "idle"
  /\ publicFile' \in {publicFile, NULL} /\ privateFile' \in {privateFile, NULL}
  /\ UNCHANGED <<settings, keygen, loaded, history>>

-----------------------------------------------------------------------------
(***************************************************************************)
(* AuthenticationService.init.  An exception ends the start.               *)
(***************************************************************************)
AssertConfigured ==
  /\ server = "stopped"
  /\ server' = IF Absent \in {jwtPublicKey, jwtPrivateKey} THEN "failed"
               ELSE "reading public key"
  /\ UNCHANGED <<settings, files, publicKey, privateKey, history>>

\* Mutant: whatever was read is taken for a key.
LoadAsPublicKey ==
  /\ server = "reading public key"
  /\ publicKey' = readPemKeyFromFileOrValue(jwtPublicKey, publicFile)
  /\ server' = "reading private key"
  /\ UNCHANGED <<settings, files, privateKey, history>>

LoadPublicKey ==
  LET key == readPemKeyFromFileOrValue(jwtPublicKey, publicFile) IN
  /\ server = "reading public key"
  /\ IF key \in Keys THEN publicKey' = key /\ server' = "reading private key"
     ELSE server' = "failed" /\ UNCHANGED publicKey
  /\ UNCHANGED <<settings, files, privateKey, history>>

LoadPrivateKey ==
  LET key == readPemKeyFromFileOrValue(jwtPrivateKey, privateFile) IN
  /\ server = "reading private key"
  /\ IF key \in Keys THEN privateKey' = key /\ server' = "validating"
     ELSE server' = "failed" /\ UNCHANGED privateKey
  /\ UNCHANGED <<settings, files, publicKey, history>>

\* Mutant: the key pair is not tried out.
validateNothing ==
  /\ server = "validating"
  /\ server' = "running"
  /\ UNCHANGED <<settings, files, publicKey, privateKey, history>>

\* validate(): a challenge signed with the private key is verified.
validate ==
  /\ server = "validating"
  /\ server' = IF publicKey = privateKey THEN "running" ELSE "failed"
  /\ UNCHANGED <<settings, files, publicKey, privateKey, history>>

Stop ==
  /\ server # "stopped"
  /\ server' = "stopped" /\ publicKey' = NULL /\ privateKey' = NULL
  /\ UNCHANGED <<settings, files, history>>

-----------------------------------------------------------------------------
\* createIdToken, createAccessToken, createRefreshToken.
CreateToken ==
  /\ server = "running"
  /\ tokens' = tokens \cup {[kid |-> publicKey, signedWith |-> privateKey]}
  /\ UNCHANGED <<settings, files, loaded, answers>>

Serve(from, key) ==
  /\ server = "running"
  /\ answers' = answers \cup {[from |-> from, key |-> key]}
  /\ UNCHANGED <<settings, files, loaded, tokens>>

\* GET .well-known/jwks.json: an exception, when there is no key.
GetJwks == Serve("jwks.json", readPemKeyString(jwtPublicKey))

\* GET public_key.txt
GetPublicKey == Serve("public_key.txt", jwtPublicKey)

\* POST oauth2/token: validateAuthorization parses the public key.
Authorize ==
  Serve("token", readPemKeyFromFileOrValue(jwtPublicKey, publicFile))

-----------------------------------------------------------------------------
KeyInit ==
  /\ jwtPublicKey \in PublicSettings /\ jwtPrivateKey \in PrivateSettings
  /\ publicFile = NULL /\ privateFile = NULL /\ keygen = "idle"
  /\ server = "stopped" /\ publicKey = NULL /\ privateKey = NULL
  /\ tokens = {} /\ answers = {}

Keygen ==
  \/ GeneratePrivateKey \/ PrivateKeyWritten \/ ExportPublicKey \/ PublicKeyWritten
  \/ KeygenInterrupted \/ RemoveFiles

Start == AssertConfigured \/ LoadPublicKey \/ LoadPrivateKey \/ validate \/ Stop

Use == CreateToken \/ GetJwks \/ GetPublicKey \/ Authorize

KeyNext == Keygen \/ Start \/ Use

KeySpec == KeyInit /\ [][KeyNext]_keyVars
=============================================================================
