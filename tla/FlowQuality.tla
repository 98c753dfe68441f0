---------------------------- MODULE FlowQuality -----------------------------
(***************************************************************************)
(* How completely a TCP connection was reconstructed: the loop of          *)
(* normalize_flows over a connection's sm_tcp_recon.log events and         *)
(* classify_reconstruction.                                                *)
(*                                                                         *)
(* A byte range keeps its start, its length and whether it is exact; the   *)
(* direction is left out.  A connection's history is the set of letters    *)
(* the classifier asks for.                                                *)
(***************************************************************************)
EXTENDS EvidenceStates, SequencesExt

CONSTANT MaxEventsPerFlow   \* _MAX_EVENTS_PER_FLOW

ASSUME EventBoundAssumption == MaxEventsPerFlow \in Nat

Nothing == "nothing"        \* a field of a log record that is not set
NoRanges == << >>

RangeBytes(ranges) == SumFunction([i \in DOMAIN ranges |-> ranges[i].len])

\* A range needs a length; without a start it begins at 0 and is not exact.
byte_range(ev, exact) ==
  IF ev.len = 0 THEN NoRanges
  ELSE <<[start |-> ev.seq, len |-> ev.len, exact |-> exact /\ ev.seq > 0]>>

NoRecon ==
  [gaps |-> NoRanges, overlaps |-> NoRanges, rexmits |-> NoRanges, conflict |-> Nothing,
   conflictLen |-> 0, outOfOrder |-> FALSE, duplicates |-> FALSE]

\* Mutant: a gap replaces the gaps before it.
LastGapOnly(r, ev) ==
  CASE ev.type = "seq_gap" -> [r EXCEPT !.gaps = byte_range(ev, TRUE)]
    [] ev.type = "out_of_order" -> [r EXCEPT !.outOfOrder = TRUE]
    [] ev.type = "rexmit_inconsistency" ->
         [r EXCEPT !.conflict = "seen", !.conflictLen = ev.len]
    [] OTHER -> [r EXCEPT !.duplicates = TRUE]

\* One event of the connection.
ReconEvent(r, ev) ==
  CASE ev.type = "seq_gap" -> [r EXCEPT !.gaps = @ \o byte_range(ev, TRUE)]
    [] ev.type = "out_of_order" -> [r EXCEPT !.outOfOrder = TRUE]
    [] ev.type = "duplicate" -> [r EXCEPT !.duplicates = TRUE]
    [] ev.type = "overlap" -> [r EXCEPT !.overlaps = @ \o byte_range(ev, TRUE)]
    [] ev.type = "rexmit" ->
         [r EXCEPT !.duplicates = TRUE, !.rexmits = @ \o byte_range(ev, TRUE)]
    [] ev.type = "rexmit_inconsistency" ->
         [r EXCEPT !.conflict = "seen", !.conflictLen = ev.len]
    [] OTHER -> r

\* Mutant: only overlapping segments can conflict.
OverlapsOnly(r) == IF r.conflict = Nothing THEN NoRanges ELSE r.overlaps

\* The length of an inconsistency is always logged (tcp-reconstruction.zeek).
ConflictingRanges(r) ==
  CASE r.conflict = Nothing -> NoRanges
    [] r.conflict # Nothing /\ r.overlaps # NoRanges -> r.overlaps
    [] r.conflict # Nothing /\ r.overlaps = NoRanges /\ r.rexmits # NoRanges -> r.rexmits
    [] OTHER -> <<[start |-> 0, len |-> r.conflictLen, exact |-> FALSE]>>

\* The event that follows n events of its connection; those beyond the bound are dropped.
KeepEvent(r, n, ev) == IF n < MaxEventsPerFlow THEN ReconEvent(r, ev) ELSE r

-----------------------------------------------------------------------------

Unresolved(c, r) == c.missed > 0 \/ r.gaps # NoRanges
GapBytes(c, r) == IF c.missed > 0 THEN c.missed ELSE RangeBytes(r.gaps)
EstablishedConn(c) == c.history \cap {"h", "D", "d", "A"} # {}
Ended(c) == c.history \cap {"F", "f", "R", "r"} # {}

\* Quality and primary reason of connection c (a conn.log row) with recon facts r;
\* truncated and losses are facts of the whole capture.
classify_reconstruction(c, r, truncated, losses) ==
  LET verdict(q, why, gap, exact) ==
        [quality |-> q, reason |-> why, gap_bytes |-> gap, exact |-> exact,
         conflicts |-> IF q = "conflicting" THEN ConflictingRanges(r) ELSE NoRanges,
         conditions |-> (IF r.outOfOrder THEN {"out_of_order_segments"} ELSE {})
                        \cup (IF r.duplicates /\ q # "conflicting"
                              THEN {"duplicate_segments"} ELSE {}),
         evidence_state |-> CASE q = "complete" -> "observed" [] OTHER -> q]
  IN  IF c.proto # "tcp"
      THEN IF truncated THEN verdict("incomplete", "snaplen_truncation", 0, FALSE)
           ELSE verdict("complete", Nothing, 0, TRUE)
      ELSE IF ConflictingRanges(r) # NoRanges
      THEN verdict("conflicting", "overlapping_retransmission_conflict", 0, TRUE)
      ELSE IF truncated
      THEN verdict("incomplete", "snaplen_truncation", GapBytes(c, r), GapBytes(c, r) > 0)
      ELSE IF Unresolved(c, r)
      THEN verdict("incomplete",
                   IF "S" \notin c.history \/ \E i \in DOMAIN r.gaps : r.gaps[i].start <= 1
                   THEN "midstream_start" ELSE "segment_gap",
                   GapBytes(c, r),
                   c.missed > 0 \/ \A i \in DOMAIN r.gaps : r.gaps[i].exact)
      ELSE IF losses > 0 THEN verdict("incomplete", "capture_loss", 0, FALSE)
      ELSE IF "S" \notin c.history THEN verdict("incomplete", "missing_syn", 0, TRUE)
      ELSE IF EstablishedConn(c) /\ ~Ended(c)
      THEN verdict("incomplete", "missing_fin", 0, TRUE)
      ELSE verdict("complete", Nothing, 0, TRUE)

=============================================================================
