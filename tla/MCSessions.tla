----------------------------- MODULE MCSessions -----------------------------
(* Three connections: mail on port 25, and two on an implicit-TLS port that  *)
(* share their address pair, so that their frames cannot be told apart.      *)
EXTENDS Sessions

MCFlows ==
  [u1 |-> [conn |-> "c1", orig |-> 40000, resp |-> 25],
   u2 |-> [conn |-> "c2", orig |-> 40001, resp |-> 993],
   u3 |-> [conn |-> "c2", orig |-> 40001, resp |-> 993]]

Ev(kind, command, reply, token, dir) ==
  [kind |-> kind, command |-> command, reply |-> reply, token |-> token,
   tag |-> NoTag, frame |-> NoFrame, dir |-> dir]

Row(uid, ts, p, e) == [uid |-> uid, ts |-> ts, protocol |-> p, event |-> e]

StartTlsRequest == Ev("request", "starttls", None, FALSE, "orig")
Credential == Ev("request", "credential", None, FALSE, "orig")
Accepted == Ev("reply", None, "accept", FALSE, "resp")

MCRows ==
  {Row("u1", ts, "smtp", StartTlsRequest) : ts \in {1, 3}}
  \cup {Row("u1", ts, "smtp", Credential) : ts \in {2, 5}}
  \cup {Row("u1", 2, "smtp", Accepted),
        Row("u1", 1, "smtp", Ev("capability", None, None, TRUE, "resp")),
        Row("u1", 4, "smtp", Ev("capability", None, None, TRUE, "resp")),
        Row("u1", 3, "imap", Ev("confirmation", None, None, FALSE, "orig")),
        Row("u2", 1, None, Ev("ambiguous_banner", None, None, FALSE, "resp")),
        Row("u4", 1, "smtp", Credential)}

Silent == [p \in MailProtocol |-> None]

Frame(conn, ts) ==
  [conn |-> conn, ts |-> ts, numbered |-> TRUE, hello |-> FALSE,
   request |-> Silent, reply |-> Silent, tag |-> NoTag]
Command(conn, ts, p, c) == [Frame(conn, ts) EXCEPT !.request[p] = c]
Answer(conn, ts, p, r) == [Frame(conn, ts) EXCEPT !.reply[p] = r]

\* The last but one is a frame two dissectors claim.
MCFrameShapes ==
  {Command("c1", 1, "smtp", "star"),
   Command("c1", 2, "smtp", "credential"),
   Command("c1", 4, "smtp", "credential"),
   Answer("c1", 2, "smtp", "accept"),
   Answer("c1", 2, "smtp", "not_a_code"),
   Command("c1", 3, "pop3", "other"),
   [Frame("c1", 6) EXCEPT !.hello = TRUE],
   [Command("c1", 5, "smtp", "star") EXCEPT !.numbered = FALSE],
   [Command("c1", 5, "smtp", "credential") EXCEPT !.reply["imap"] = "accept", !.tag = "a1"],
   Command("c2", 2, "imap", "credential")}

MCSsl ==
  {[u1 |-> NoSsl, u2 |-> NoSsl, u3 |-> NoSsl],
   [u1 |-> [present |-> TRUE, hello |-> TRUE, alpn |-> "imap"], u2 |-> NoSsl,
    u3 |-> [present |-> TRUE, hello |-> TRUE, alpn |-> None]],
   [u1 |-> NoSsl, u2 |-> [present |-> TRUE, hello |-> TRUE, alpn |-> "imap"], u3 |-> NoSsl]}
=============================================================================
