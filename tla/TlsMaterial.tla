---------------------------- MODULE TlsMaterial ----------------------------
(***************************************************************************)
(* The HTTPS certificate (tls.py): a PEM pair or a keystore, read at the   *)
(* start.  Every way to name one but not to provide it ends the start;     *)
(* only an environment that names none leaves the server on HTTP alone.    *)
(***************************************************************************)
EXTENDS KeyMaterial, SequencesExt

CONSTANTS
    KeystorePaths,  \* paths that end in .p12, .pfx or .jks
    JksPaths,       \* those that end in .jks
    Folded          \* the case-folded form of each alias

HTTP_PORT == 8080
DEFAULT_HTTPS_PORT == 8443
KEY_ALIAS_DEFAULT == "version-server"

\* Files that are not text.  An entry has an alias, a key and the certificates of its
\* chain; a PKCS#12 file has one, and further certificates, each with a name or Unset.
Pkcs12(password, entry, extras) ==
    [type |-> "p12", password |-> password, entry |-> entry, extras |-> extras]
Jks(password, entries) == [type |-> "jks", password |-> password, entries |-> entries]
Entry(alias, key, lock, chain) == [alias |-> alias, key |-> key, lock |-> lock, chain |-> chain]
-----------------------------------------------------------------------------
(* None if VERSION_SERVER_HTTPS_PORT is not a number, or not a port for HTTPS. *)
HttpsPort(env) ==
    LET raw == EnvValue(env.port)
    IN  IF raw = Unset THEN DEFAULT_HTTPS_PORT
        ELSE IF raw \in 1 .. 65535 \ {HTTP_PORT} THEN raw ELSE None

IsKeystorePath(value) == value[1] = "path" /\ value[2] \in KeystorePaths

\* The certificate of the key, and those that come with it.
OpenPkcs12(file, password) ==
    IF file.type # "p12" \/ file.password # password \/ None \in {file.entry.key, file.entry.chain}
    THEN None
    ELSE LET names == [i \in DOMAIN file.extras |-> file.extras[i].name]
             friendly == IF file.entry.alias = Unset THEN KEY_ALIAS_DEFAULT ELSE file.entry.alias
         IN  [key |-> file.entry.key,
              certificates |-> file.entry.chain
                               \o [i \in DOMAIN file.extras |-> file.extras[i].certificate],
              aliases |-> <<friendly>>
                          \o SelectSeq(names, LAMBDA n : n \notin {Unset, friendly})]

\* Only the first private key is looked at.
OpenJks(file, password) ==
    IF \/ file.type # "jks" \/ file.password # password \/ file.entries = <<>>
       \/ file.entries[1].lock # password \/ file.entries[1].chain = <<>>
    THEN None
    ELSE LET entry == file.entries[1]
         IN  [key |-> entry.key, certificates |-> entry.chain, aliases |-> <<entry.alias>>]

OpenKeystore(path, password) ==
    IF path \in JksPaths THEN OpenJks(Tree[path], password) ELSE OpenPkcs12(Tree[path], password)

\* The alias itself, or the first that differs only in case; the requested one if none does.
MatchingAlias(aliases, requested) ==
    LET alike == SelectSeq(aliases, LAMBDA a : Folded[a] = Folded[requested])
    IN  IF requested = Unset THEN aliases[1]
        ELSE IF requested \in ToSet(aliases) \/ alike = <<>> THEN requested
        ELSE alike[1]

ReadyTls(key, certificates, alias, port) ==
    [kind |-> "ready", key |-> key, certificates |-> certificates, alias |-> alias, port |-> port]

LoadKeystoreTls(value, env, port) ==
    LET password == IF EnvValue(env.keystore_password) # Unset
                    THEN EnvValue(env.keystore_password) ELSE EnvValue(env.key_password)
        loaded == OpenKeystore(value[2], password)
        alias == MatchingAlias(loaded.aliases, EnvValue(env.alias))
    IN  IF value[1] = "text" \/ value[2] \notin DOMAIN Tree THEN Invalid
        ELSE IF loaded = None THEN Invalid
        ELSE IF alias \notin ToSet(loaded.aliases) THEN Invalid
        ELSE ReadyTls(loaded.key, loaded.certificates, alias, port)

LoadPemTls(cert, key, env, port) ==
    IF None \in {ReadMaterial(cert), ReadMaterial(key)} THEN Invalid
    ELSE LET certificates == LoadCertificates(ReadMaterial(cert))
             private == LoadPrivateKey(ReadMaterial(key), EnvValue(env.key_password))
         IN  IF /\ certificates # <<>> /\ private # None
                /\ PrivateKeyMatches(certificates[1], private)
             THEN ReadyTls(private, certificates, KEY_ALIAS_DEFAULT, port) ELSE Invalid

Missing == [kind |-> "missing"]

\* Mutant: a half of the pair that is missing leaves the server on HTTP.
LoadServerTlsOrHttp(env) ==
    LET cert == EnvValue(env.tls_cert)
        key == EnvValue(env.tls_key)
        keystore == EnvValue(env.tls_keystore)
        file == IF keystore # Unset THEN keystore ELSE cert
    IN  IF keystore = Unset /\ Unset \in {cert, key} THEN Missing
        ELSE IF HttpsPort(env) = None THEN Invalid
        ELSE IF keystore # Unset /\ {cert, key} # {Unset} THEN Invalid
        ELSE IF keystore # Unset \/ IsKeystorePath(cert)
        THEN IF key # Unset THEN Invalid ELSE LoadKeystoreTls(file, env, HttpsPort(env))
        ELSE LoadPemTls(cert, key, env, HttpsPort(env))

LoadServerTls(env) ==
    LET cert == EnvValue(env.tls_cert)
        key == EnvValue(env.tls_key)
        keystore == EnvValue(env.tls_keystore)
        file == IF keystore # Unset THEN keystore ELSE cert
    IN  IF {cert, key, keystore} = {Unset} THEN Missing
        ELSE IF HttpsPort(env) = None THEN Invalid
        ELSE IF keystore # Unset /\ {cert, key} # {Unset} THEN Invalid
        ELSE IF keystore # Unset \/ (cert # Unset /\ IsKeystorePath(cert))
        THEN IF key # Unset THEN Invalid ELSE LoadKeystoreTls(file, env, HttpsPort(env))
        ELSE IF Unset \in {cert, key} THEN Invalid
        ELSE LoadPemTls(cert, key, env, HttpsPort(env))
=============================================================================
