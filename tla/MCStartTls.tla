----------------------------- MODULE MCStartTls -----------------------------
(* Transcripts of up to MaxEvents events over the observations below: one   *)
(* of each kind the machines tell apart, two IMAP tags, and credentials     *)
(* with and without a known frame.                                          *)
EXTENDS StartTls

Obs(kind, command, reply, token, tag) ==
  [kind |-> kind, command |-> command, reply |-> reply, token |-> token, tag |-> tag,
   framed |-> TRUE]

MCObservations ==
  {Obs("request", c, None, FALSE, NoTag) :
     c \in {None, "capability", "credential", "harmless", "other"}}
  \cup {[Obs("request", "credential", None, FALSE, NoTag) EXCEPT !.framed = FALSE],
        Obs("request", "starttls", None, FALSE, NoTag),
        Obs("request", "starttls", None, FALSE, "a"),
        Obs("reply", None, "accept", FALSE, "a"),
        Obs("reply", None, "accept", FALSE, "b"),
        Obs("reply", None, "refuse", FALSE, "a"),
        Obs("reply", None, "refuse", FALSE, NoTag),
        Obs("reply", None, "other", FALSE, NoTag),
        Obs("reply", "starttls", "done250", FALSE, NoTag),
        Obs("reply", "capability", "done250", TRUE, NoTag),
        Obs("capability", "capability", None, FALSE, NoTag),
        Obs("capability", "starttls", None, TRUE, NoTag),
        Obs("starttls", "starttls", None, FALSE, NoTag),
        Obs("unexpected", None, None, FALSE, NoTag)}
=============================================================================
