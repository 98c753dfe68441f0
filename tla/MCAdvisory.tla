----------------------------- MODULE MCAdvisory -----------------------------
(* Two responders and a session whose flow is unknown.  Limits are scaled    *)
(* down in their order: history < training windows < stored windows.         *)
EXTENDS Advisory

Session(e, port, version, issuer) ==
  [endpoint |-> e, port |-> port, protocol |-> "imap", incomplete |-> FALSE, upgrade |-> None,
   handshake |-> version # None, established |-> TRUE, alert |-> FALSE, hidden |-> FALSE,
   version |-> version, secrecy |-> "present", issuer |-> issuer]

Good(e) == Session(e, 25, "TLSv12", "iss_a")
Weak(e) == [Session(e, 25, "TLSv10", "iss_b") EXCEPT !.upgrade = "accepted"]
Cut(e) == [Good(e) EXCEPT !.incomplete = TRUE]
Lone == Session(9, 0, None, None)

\* Usual traffic of one and of both responders, a change of version and issuer, a
\* capture with lost segments, and a capture too thin for the second responder.
MCCaptures ==
  {<<Good(1), Good(1)>>,
   <<Good(2), Good(1), Good(2), Good(1)>>,
   <<Weak(1), Weak(1), Good(2)>>,
   <<Weak(2), Cut(1), Good(1), Weak(2), Lone>>}
=============================================================================
