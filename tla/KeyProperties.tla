--------------------------- MODULE KeyProperties ---------------------------
(***************************************************************************)
(* What KeyConfiguration must guarantee.                                   *)
(***************************************************************************)
EXTENDS KeyConfiguration

\* Every variable of the key configuration has the type its Java field has.
KeyTypeOK ==
  /\ jwtPublicKey \in PublicSettings /\ jwtPrivateKey \in PrivateSettings
  /\ {publicFile, privateFile} \subseteq Keys \cup {NULL, Incomplete}
  /\ keygen \in {"idle", "writing private key", "public key", "writing public key"}
  /\ server \in {"stopped", "reading public key", "reading private key",
                 "validating", "running", "failed"}
  /\ {publicKey, privateKey} \subseteq Keys \cup {NULL}
  /\ tokens \subseteq Token
  /\ answers \subseteq Answer

(***************************************************************************)
(* A token verifies with the key that its kid names, however keygen.sh,    *)
(* its interruptions and removed files interleave with the two reads of    *)
(* AuthenticationService.init.                                             *)
(***************************************************************************)
TokensVerify == \A t \in tokens : t.signedWith = t.kid

(***************************************************************************)
(* A public key that is configured as a PEM is the one that every endpoint *)
(* shows or uses, and it verifies every token that any run of the server   *)
(* ever signed, wherever the private key comes from.                       *)
(***************************************************************************)
PemKeyPublished ==
  jwtPublicKey \in Keys =>
    /\ \A a \in answers : a.key = jwtPublicKey
    /\ \A t \in tokens : t.signedWith = jwtPublicKey

(***************************************************************************)
(* README: the public key "can be a PEM encoded string or file".  Then     *)
(* whoever asks jwks.json or public_key.txt for it is given a key.         *)
(***************************************************************************)
ConfiguredKeyPublished ==
  \A a \in answers : a.from # "token" => a.key \in Keys
=============================================================================
