---------------------------- MODULE KeyMaterial ----------------------------
(***************************************************************************)
(* What the environment names as certificates and keys (pem.py), and the   *)
(* key pair that signs login tokens (signing.py, config.py).  A certificate *)
(* is identified with the key it certifies; a text is the sequence of its  *)
(* PEM blocks, a file is such a text or something else.                    *)
(***************************************************************************)
EXTENDS Naturals, Sequences

CONSTANTS
    Keys,      \* private keys
    RsaKeys,   \* those that are RSA keys
    Tree,      \* what is in each file
    Unset, Blank, None, Broken, Secret

ASSUME KeyMaterialAssumption ==
    /\ RsaKeys \subseteq Keys
    /\ Keys \cap {Unset, Blank, None, Broken, Secret} = {}

Certificate(key) == [kind |-> "CERTIFICATE", key |-> key]
PrivateKey(key, lock) == [kind |-> "PRIVATE KEY", key |-> key, lock |-> lock]
Text(blocks) == [type |-> "text", blocks |-> blocks]

\* A value of a variable is a text itself or the path of a file.
Inline(blocks) == <<"text", blocks>>
At(path) == <<"path", path>>
-----------------------------------------------------------------------------
(* pem.py *)

\* Only spaces count as unset.
EnvValue(value) == IF value = Blank THEN Unset ELSE value

\* A file that is not UTF-8 text raises an error that nobody catches: like None, it ends
\* the start.
ReadMaterial(value) ==
    IF value[1] = "text" THEN value[2]
    ELSE IF value[2] \in DOMAIN Tree /\ Tree[value[2]].type = "text"
         THEN Tree[value[2]].blocks
         ELSE None

\* The empty sequence stands for None.
LoadCertificates(blocks) ==
    LET found == SelectSeq(blocks, LAMBDA b : b.kind = "CERTIFICATE")
    IN  IF \E i \in DOMAIN found : found[i].key = Broken
        THEN <<>>
        ELSE [i \in DOMAIN found |-> found[i].key]

\* With the password, if there is one, and then without.
LoadPrivateKey(blocks, password) ==
    LET found == SelectSeq(blocks, LAMBDA b : b.kind = "PRIVATE KEY")
    IN  IF found # <<>> /\ found[1].lock \in {password, Unset} THEN found[1].key ELSE None

PrivateKeyMatches(certificate, key) == certificate = key

IsRsaPair(certificate, key) == {certificate, key} \subseteq RsaKeys
-----------------------------------------------------------------------------
(* signing.py *)

Hmac == [kind |-> "hmac"]
Invalid == [kind |-> "invalid"]

\* Mutant: a half that is missing leaves the HMAC secret in use.
LoadJwtSigningOrHmac(env) ==
    LET cert == EnvValue(env.jwt_cert)
        key == EnvValue(env.jwt_key)
    IN  IF cert = Unset \/ key = Unset THEN Hmac
        ELSE IF ReadMaterial(cert) = None \/ ReadMaterial(key) = None THEN Invalid
        ELSE LET certificates == LoadCertificates(ReadMaterial(cert))
                 private == LoadPrivateKey(ReadMaterial(key), EnvValue(env.jwt_password))
             IN  IF /\ certificates # <<>>
                    /\ private \in RsaKeys
                    /\ PrivateKeyMatches(certificates[1], private)
                 THEN [kind |-> "certificate", certificate |-> certificates[1], key |-> private]
                 ELSE Invalid

LoadJwtSigning(env) ==
    LET cert == EnvValue(env.jwt_cert)
        key == EnvValue(env.jwt_key)
    IN  IF cert = Unset /\ key = Unset THEN Hmac
        ELSE IF Unset \in {cert, key} \/ None \in {ReadMaterial(cert), ReadMaterial(key)}
        THEN Invalid
        ELSE LET certificates == LoadCertificates(ReadMaterial(cert))
                 private == LoadPrivateKey(ReadMaterial(key), EnvValue(env.jwt_password))
             IN  IF /\ certificates # <<>>
                    /\ private \in RsaKeys
                    /\ PrivateKeyMatches(certificates[1], private)
                    /\ IsRsaPair(certificates[1], private)
                 THEN [kind |-> "certificate", certificate |-> certificates[1], key |-> private]
                 ELSE Invalid
-----------------------------------------------------------------------------
(* config.py *)

Half(signing, half) == IF signing.kind = "certificate" THEN signing[half] ELSE None

\* The part of AppConfig that tokens depend on.
AppConfig(signing) ==
    [jwt_secret |-> Secret,
     jwt_certificate |-> Half(signing, "certificate"), jwt_private_key |-> Half(signing, "key")]

SigningKey(config) ==
    LET certificate == config.jwt_certificate
        key == config.jwt_private_key
    IN  IF certificate = None /\ key = None THEN <<"HS256", config.jwt_secret>>
        ELSE IF /\ None \notin {certificate, key}
                /\ IsRsaPair(certificate, key)
                /\ PrivateKeyMatches(certificate, key)
        THEN <<"RS256", key>>
        ELSE None

\* A public key is named by its private key.
VerifyKey(config) ==
    LET signing == SigningKey(config)
    IN  IF signing = None \/ signing[1] = "HS256" THEN signing
        ELSE <<"RS256", config.jwt_certificate>>
=============================================================================
