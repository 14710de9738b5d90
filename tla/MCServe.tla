------------------------------ MODULE MCServe ------------------------------
(* Small instances of Serve for TLC: every environment of two tables.      *)
EXTENDS Serve, TLC

CONSTANTS k1, k2, ec, pw, other

MCKeys == {k1, k2, ec}
MCRsaKeys == {k1, k2}

MCTree ==
    ("pair" :> Text(<<Certificate(k1), PrivateKey(k1, Unset)>>)) @@
    ("chain" :> Text(<<Certificate(k1), Certificate(k2)>>)) @@
    ("locked" :> Text(<<PrivateKey(k1, pw), PrivateKey(k2, Unset)>>)) @@
    ("broken" :> Text(<<Certificate(k1), Certificate(Broken)>>)) @@
    ("binary" :> [type |-> "binary"]) @@
    ("a.p12" :> Pkcs12(pw, Entry(Unset, k1, pw, <<k1>>), <<[name |-> "ca", certificate |-> k2]>>)) @@
    ("c.pfx" :> Pkcs12(Unset, Entry("Web", None, pw, <<k1>>), <<>>)) @@
    ("b.jks" :> Jks(pw, <<Entry("Web", k1, pw, <<k1, k2>>), Entry("old", k2, pw, <<k2>>)>>)) @@
    ("m.jks" :> Jks(pw, <<Entry("Web", k1, pw, <<k2>>)>>))

MCKeystorePaths == {"a.p12", "c.pfx", "b.jks", "m.jks"}
MCJksPaths == {"b.jks", "m.jks"}
MCFolded == [a \in {"version-server", "ca", "Web", "web", "old"} |-> IF a = "Web" THEN "web" ELSE a]

NoTls == [tls_cert |-> Unset, tls_key |-> Unset, tls_keystore |-> Unset, port |-> Unset,
          key_password |-> Unset, keystore_password |-> Unset, alias |-> Unset]
NoJwt == [jwt_cert |-> Unset, jwt_key |-> Blank, jwt_password |-> Unset]
EcPair == Inline(<<Certificate(ec), PrivateKey(ec, Unset)>>)

JwtEnvironments ==
    [jwt_cert : {Unset, Blank, At("pair"), At("chain"), At("broken"), At("gone"), EcPair},
     jwt_key : {Unset, At("pair"), At("locked"), At("chain"), Inline(<<PrivateKey(k2, Unset)>>), EcPair},
     jwt_password : {Unset, pw, other}]

PemEnvironments ==
    [tls_cert : {Unset, Blank, At("pair"), At("chain"), At("broken"), At("binary"), EcPair},
     tls_key : {Unset, At("pair"), At("locked"), At("gone"), Inline(<<PrivateKey(k2, Unset)>>), EcPair},
     tls_keystore : {Unset}, port : {Unset, 0, HTTP_PORT, 9443, 65536}, key_password : {Unset, pw},
     keystore_password : {Unset}, alias : {Unset}]

KeystoreEnvironments ==
    [tls_cert : {Unset, At("a.p12"), At("b.jks"), EcPair}, tls_key : {Unset, At("pair")},
     tls_keystore : {Unset, EcPair} \cup {At(p) : p \in {"a.p12", "c.pfx", "b.jks", "m.jks", "gone"}},
     port : {Unset}, key_password : {Unset, pw}, keystore_password : {Blank, pw, other},
     alias : {Unset, "web", "ca", "old"}]

MCEnvironments ==
    {e @@ NoTls : e \in JwtEnvironments} \cup {e @@ NoJwt : e \in PemEnvironments \cup KeystoreEnvironments}
=============================================================================
