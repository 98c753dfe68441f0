--------------------------- MODULE MCCertificates ---------------------------
(* Two connections; the extracted files hold a leaf, an intermediate, an    *)
(* expired self-signed certificate, a malformed one, two that raise when    *)
(* they are read, and a client's.  The leaf has more names than are kept.   *)
EXTENDS Certificates

Name(labels) == [kind |-> "dns", name |-> labels]
Address == [kind |-> "ip", name |-> <<"192.0.2.1">>]
Key1(algorithm, size) == [algorithm |-> algorithm, size |-> size, fixed |-> 0]

Cert(der, nb, na, subject, issuer, san, key) ==
  [der |-> der, not_before |-> nb, not_after |-> na, subject |-> subject,
   issuer |-> issuer, san |-> san, key |-> key]

MCCerts ==
  [c \in {"leaf", "inter", "self", "junk", "nokey", "noext", "client", "lost"} |->
   CASE c = "leaf" -> Cert("ok", 1, 5, "mail", "ca",
                           <<Name(<<"*", "Example", "org">>), Name(<<"mx", "", "org">>),
                             Name(<<"m*", "test">>), Address, Name(<<"mx", "test">>)>>,
                           Key1("RSA", 2048))
     [] c = "inter" -> Cert("ok", 0, 9, "ca", "root", << >>, Key1("ECDSA", 256))
     [] c = "self" -> Cert("ok", 4, 5, "self", "self", <<Name(<<"mx", "example", "org", "">>)>>,
                           Key1("RSA", 1023))
     [] c = "junk" -> Cert("malformed", 0, 0, None, None, << >>, Key1(None, 0))
     [] c = "nokey" -> Cert("badFacts", 0, 9, "mail", "ca", << >>, Key1(None, 0))
     [] c = "noext" -> Cert("badExtensions", 0, 9, "mail", "ca", << >>, Key1("RSA", 2048))
     [] OTHER -> Cert("ok", 0, 9, "user", "root", << >>, Key1("DSA", 1024))]

MCFuids == [c \in {"leaf", "inter", "self", "junk", "nokey", "noext", "client"} |->
              CASE c = "leaf" -> "f1" [] c = "self" -> "f2" [] c = "inter" -> "f3"
                [] c = "client" -> "f4" [] OTHER -> None]

File(name, uid, conns, cert, fuid, source, truncated) ==
  [log |-> name, uid |-> uid, conn_uids |-> conns, cert |-> cert, fuid |-> fuid,
   source |-> source, truncated |-> truncated]

MCFileRows ==
  <<File("sm_cert.log", "u1", {}, "leaf", "f1", None, FALSE),
    File("sm_cert.log", "u2", {}, "lost", "f2", None, TRUE),
    File("files.log", None, {"u1"}, "inter", "f3", "SSL", FALSE),
    File("files.log", None, {"U2"}, "self", "f2", "SSL", FALSE),
    File("files.log", "u2", {}, "client", "f4", "HTTP", FALSE)>>

SslRow(uid, ts, server, client, history, name) ==
  [uid |-> uid, ts |-> ts, serverFps |-> server, clientFps |-> client,
   history |-> history, serverCertificate |-> "x" \in history, server_name |-> name]

Names ==
  {NoId, Address, Name(<<"mx", "example", "ORG">>), Name(<<"a", "mx", "example", "org">>),
   Name(<<"mx", "", "org">>), Name(<<"mx", "test">>), Name(<<"example", "org">>)}

MCSslRows ==
  {SslRow("u1", ts, server, client, {"s", "x", "X"}, name) :
     ts \in {NoTime, 0, 3}, client \in {<< >>, <<"client">>}, name \in Names,
     server \in {<< >>, <<"leaf", "inter">>, <<"leaf", "lost">>, <<"self">>, <<"junk", "inter">>,
                <<"noext">>}}
  \cup {SslRow("u2", ts, server, << >>, history, NoId) :
          ts \in {7},
          server \in {<< >>, <<"lost", "inter">>, <<"leaf", "inter">>, <<"leaf", "nokey">>},
          history \in {{"s"}, {"s", "x"}}}

Letters == {"mx", "a", "m*", "Example", "example", "ORG", "org", "test", "", "u1", "U2", "u2"}
MCLower == [l \in Letters |-> CASE l = "Example" -> "example" [] l = "ORG" -> "org"
                                [] l = "U2" -> "u2" [] l = "" -> "bad" [] OTHER -> l]
=============================================================================
