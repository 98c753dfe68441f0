-------------------------- MODULE Handshakes_proofs --------------------------
(***************************************************************************)
(* What is said of a connection's stream, of its handshake messages and of *)
(* its forward secrecy, for logs, frames and histories of any length.      *)
(***************************************************************************)
EXTENDS Handshakes, FiniteSetTheorems, NaturalsInduction, WellFoundedInduction, TLAPS

-----------------------------------------------------------------------------
(* The stream: what normalize_flows keeps of the recon events.             *)

\* Byte ranges that events can leave, and what the loop can have collected.
ReconRange ==
  {[start |-> ev.seq, len |-> ev.len, exact |-> e] : ev \in ReconShapes, e \in BOOLEAN}

ReconFacts ==
  [gaps : Seq(ReconRange), overlaps : Seq(ReconRange), rexmits : Seq(ReconRange),
   conflict : {Nothing, "seen"}, conflictLen : {0} \cup {ev.len : ev \in ReconShapes},
   outOfOrder : BOOLEAN, duplicates : BOOLEAN]

\* The loop's facts show every harmful event among the first events of the log.
Shown(log, r) ==
  \A i \in DOMAIN log : i <= MaxEventsPerFlow =>
    /\ log[i].type = "rexmit_inconsistency" => r.conflict # Nothing
    /\ log[i].type = "seq_gap" => r.gaps # NoRanges

\* A classified stream was classified by those facts.
FlowInv ==
  /\ recon \in Seq(ReconShapes)
  /\ facts \in ReconFacts
  /\ Shown(recon, facts)
  /\ phase \in {"flow", "classified"} => conn \in ConnRows /\ losses \in {0, 2}
  /\ phase = "classified" => flow = classify_reconstruction(conn, facts, truncated, losses)

LEMMA RangeType ==
  ASSUME NEW ev \in ReconShapes
  PROVE  /\ byte_range(ev, TRUE) \in Seq(ReconRange)
         /\ ev.type = "seq_gap" => byte_range(ev, TRUE) # NoRanges
<1> DEFINE x == [start |-> ev.seq, len |-> ev.len, exact |-> TRUE /\ ev.seq > 0]
<1>1. x \in ReconRange
  <2> DEFINE e == TRUE /\ ev.seq > 0
  <2>1. e \in BOOLEAN
    OBVIOUS
  <2> HIDE DEF e
  <2>2. [start |-> ev.seq, len |-> ev.len, exact |-> e] \in ReconRange
    BY <2>1 DEF ReconRange
  <2> QED BY <2>2 DEF e
<1> HIDE DEF x
<1>2. byte_range(ev, TRUE) = IF ev.len = 0 THEN NoRanges ELSE <<x>>
  BY DEF byte_range, x
<1>3. <<x>> \in Seq(ReconRange) /\ << >> \in Seq(ReconRange) /\ <<x>> # << >>
  BY <1>1
<1>4. ev.type = "seq_gap" => ev.len # 0
  BY RowAssumption
<1> QED BY <1>2, <1>3, <1>4 DEF NoRanges

\* One event of the loop: what was shown stays shown, and the event is shown.
LEMMA EventIsShown ==
  ASSUME NEW r \in ReconFacts, NEW ev \in ReconShapes
  PROVE  LET q == ReconEvent(r, ev)
         IN  /\ q \in ReconFacts
             /\ r.conflict # Nothing \/ ev.type = "rexmit_inconsistency" => q.conflict # Nothing
             /\ r.gaps # NoRanges \/ ev.type = "seq_gap" => q.gaps # NoRanges
<1> DEFINE b == byte_range(ev, TRUE)
           q == ReconEvent(r, ev)
<1>1. b \in Seq(ReconRange) /\ (ev.type = "seq_gap" => b # NoRanges)
  BY RangeType
<1> HIDE DEF b
<1>2. \A s \in Seq(ReconRange) :
        s \o b \in Seq(ReconRange) /\ (s # NoRanges \/ b # NoRanges => s \o b # NoRanges)
  <2> TAKE s \in Seq(ReconRange)
  <2>1. s \o b \in Seq(ReconRange) /\ Len(s \o b) = Len(s) + Len(b)
    BY <1>1
  <2>2. Len(s) \in Nat /\ Len(b) \in Nat /\ (s # << >> => Len(s) > 0) /\ (b # << >> => Len(b) > 0)
    BY <1>1
  <2> QED BY <2>1, <2>2 DEF NoRanges
<1>3. r.gaps \in Seq(ReconRange) /\ r.overlaps \in Seq(ReconRange) /\ r.rexmits \in Seq(ReconRange)
  BY DEF ReconFacts
<1>4. CASE ev.type = "seq_gap"
  <2>1. q = [r EXCEPT !.gaps = r.gaps \o b]
    BY <1>4 DEF ReconEvent, b
  <2> QED BY <1>1, <1>2, <1>3, <1>4, <2>1 DEF ReconFacts
<1>5. CASE ev.type = "out_of_order"
  BY <1>5 DEF ReconEvent, ReconFacts
<1>6. CASE ev.type = "duplicate"
  BY <1>6 DEF ReconEvent, ReconFacts
<1>7. CASE ev.type = "overlap"
  <2>1. q = [r EXCEPT !.overlaps = r.overlaps \o b]
    BY <1>7 DEF ReconEvent, b
  <2> QED BY <1>2, <1>3, <1>7, <2>1 DEF ReconFacts
<1>8. CASE ev.type = "rexmit"
  <2>1. q = [r EXCEPT !.duplicates = TRUE, !.rexmits = r.rexmits \o b]
    BY <1>8 DEF ReconEvent, b
  <2> QED BY <1>2, <1>3, <1>8, <2>1 DEF ReconFacts
<1>9. CASE ev.type = "rexmit_inconsistency"
  BY <1>9 DEF ReconEvent, ReconFacts, Nothing
<1>10. CASE ev.type \notin {"seq_gap", "out_of_order", "duplicate", "overlap", "rexmit",
                            "rexmit_inconsistency"}
  <2>1. q = r
    BY <1>10 DEF ReconEvent
  <2> QED BY <1>10, <2>1
<1> QED BY <1>4, <1>5, <1>6, <1>7, <1>8, <1>9, <1>10

\* A logged event is shown, unless it is beyond the bound.
LEMMA LogKeepsShown ==
  ASSUME FlowInv, NEW ev \in ReconShapes, LogRecon(ev)
  PROVE  FlowInv'
<1> DEFINE q == ReconEvent(facts, ev)
<1>1. /\ recon \in Seq(ReconShapes) /\ facts \in ReconFacts /\ Shown(recon, facts)
      /\ recon' = Append(recon, ev)
      /\ facts' = IF Len(recon) < MaxEventsPerFlow THEN q ELSE facts
  BY DEF FlowInv, LogRecon, KeepEvent
<1>2. /\ q \in ReconFacts
      /\ facts.conflict # Nothing \/ ev.type = "rexmit_inconsistency" => q.conflict # Nothing
      /\ facts.gaps # NoRanges \/ ev.type = "seq_gap" => q.gaps # NoRanges
  BY <1>1, EventIsShown
<1> HIDE DEF q
<1>3. /\ recon' \in Seq(ReconShapes) /\ Len(recon) \in Nat
      /\ DOMAIN recon' = 1..(Len(recon) + 1) /\ DOMAIN recon = 1..Len(recon)
      /\ recon'[Len(recon) + 1] = ev
      /\ \A i \in 1..Len(recon) : recon'[i] = recon[i]
  BY <1>1
<1>4. Shown(recon', facts')
  <2> SUFFICES ASSUME NEW i \in 1..(Len(recon) + 1), i <= MaxEventsPerFlow
               PROVE  /\ recon'[i].type = "rexmit_inconsistency" => facts'.conflict # Nothing
                      /\ recon'[i].type = "seq_gap" => facts'.gaps # NoRanges
    BY <1>3 DEF Shown
  <2>1. CASE i \in 1..Len(recon)
    BY <1>1, <1>2, <1>3, <2>1 DEF Shown
  <2>2. CASE i = Len(recon) + 1
    <3>1. facts' = q
      BY <1>1, <1>3, <2>2, EventBoundAssumption
    <3> QED BY <1>2, <1>3, <2>2, <3>1
  <2> QED BY <1>3, <2>1, <2>2
<1>5. facts' \in ReconFacts
  BY <1>1, <1>2
<1> QED BY <1>3, <1>4, <1>5 DEF FlowInv, LogRecon

\* FlowInv is inductive.
LEMMA FlowStep == FlowInv /\ [Next]_vars => FlowInv'
<1> SUFFICES ASSUME FlowInv, [Next]_vars PROVE FlowInv'
  OBVIOUS
<1>1. CASE \E ev \in ReconShapes : LogRecon(ev)
  BY <1>1, LogKeepsShown
<1>2. CASE NormalizeFlow
  BY <1>2 DEF FlowInv, NormalizeFlow, flowVars
<1>3. CASE \E joined \in BOOLEAN : JoinFlow(joined)
  <2>1. recon' = << >> /\ facts' = NoRecon /\ phase' = "row"
    BY <1>3 DEF JoinFlow
  <2>2. NoRecon \in ReconFacts
    BY DEF NoRecon, ReconFacts, NoRanges
  <2> QED BY <2>1, <2>2 DEF FlowInv, Shown
<1>4. CASE UNCHANGED <<flowVars, phase, flow>>
  BY <1>4 DEF FlowInv, flowVars
<1>5. CASE UNCHANGED flowVars /\ phase' \notin {"flow", "classified"}
  BY <1>5 DEF FlowInv, flowVars
<1>6. CASE \E r \in SslRows : ReadSslRow(r)
  BY <1>5, <1>6 DEF ReadSslRow
<1>7. CASE \E f \in HelloFrames : ReadFrame(f)
  BY <1>4, <1>7 DEF ReadFrame
<1>8. CASE AttachNext
  BY <1>4, <1>8 DEF AttachNext
<1>9. CASE NormalizeHandshake
  BY <1>5, <1>9 DEF NormalizeHandshake
<1>10. CASE UNCHANGED vars
  BY <1>4, <1>10 DEF vars
<1> QED BY <1>1, <1>2, <1>3, <1>6, <1>7, <1>8, <1>9, <1>10 DEF Next

\* CompleteMeansWhole for every log: whatever order the events come in and however many
\* there are, a conflict among those that are kept is reported, and a stream is complete
\* only if none of them, the counters or the history say otherwise (normalize_flows,
\* classify_reconstruction).
THEOREM CompleteStreamsAreWhole == Spec => []CompleteMeansWhole
<1>1. Init => FlowInv
  <2>1. NoRecon \in ReconFacts
    BY DEF NoRecon, ReconFacts, NoRanges
  <2> QED BY <2>1 DEF Init, FlowInv, Shown
<1>2. FlowInv => CompleteMeansWhole
  <2> SUFFICES ASSUME FlowInv, phase = "classified", conn.proto = "tcp"
               PROVE  /\ (\E i \in DOMAIN recon : /\ i <= MaxEventsPerFlow
                                                  /\ recon[i].type = "rexmit_inconsistency")
                           => flow.quality = "conflicting"
                      /\ flow.quality = "complete" =>
                           /\ ~truncated /\ losses = 0 /\ conn.missed = 0
                           /\ \A i \in DOMAIN recon : i <= MaxEventsPerFlow =>
                                recon[i].type \notin {"seq_gap", "rexmit_inconsistency"}
                           /\ "S" \in conn.history /\ (EstablishedConn(conn) => Ended(conn))
    BY DEF CompleteMeansWhole, Classified
  <2>1. /\ flow = classify_reconstruction(conn, facts, truncated, losses)
        /\ conn.missed \in Nat /\ losses \in {0, 2} /\ Shown(recon, facts)
    BY RowAssumption DEF FlowInv
  <2>2. facts.conflict # Nothing => ConflictingRanges(facts) # NoRanges
    BY DEF ConflictingRanges, NoRanges
  <2>3. ConflictingRanges(facts) # NoRanges => flow.quality = "conflicting"
    BY <2>1 DEF classify_reconstruction
  <2>4. flow.quality = "complete" =>
          /\ ConflictingRanges(facts) = NoRanges /\ ~truncated /\ ~Unresolved(conn, facts)
          /\ ~(losses > 0) /\ "S" \in conn.history /\ (EstablishedConn(conn) => Ended(conn))
    BY <2>1 DEF classify_reconstruction
  <2> QED BY <2>1, <2>2, <2>3, <2>4 DEF Shown, Unresolved
<1> QED BY <1>1, <1>2, FlowStep, PTL DEF Spec

-----------------------------------------------------------------------------
(* Sums.  A function on the subsets of a set that adds one element at a     *)
(* time, whichever it is, is the sum, and every finite set has one.        *)

LEMMA LeastExists ==
  ASSUME NEW S \in SUBSET Nat, S # {}
  PROVE  \E m \in S : \A x \in S : m <= x
<1>1. PICK m \in S : \A x \in S : ~(<<x, m>> \in OpToRel(<, Nat))
  BY NatLessThanWellFounded, WFMin
<1>2. \A x \in S : ~(x < m)
  BY <1>1 DEF OpToRel
<1> QED BY <1>2

AddsUp(g, f, S) ==
  /\ g \in [SUBSET S -> Nat] /\ g[{}] = 0
  /\ \A s \in SUBSET S : \A x \in s : g[s] = f[x] + g[s \ {x}]

LEMMA SumIs ==
  ASSUME NEW S, IsFiniteSet(S), NEW f, NEW g, AddsUp(g, f, S)
  PROVE  SumFunctionOnSet(f, S) = g[S]
<1> DEFINE Is(h) == h = [s \in SUBSET S |-> IF s = {} THEN 0
                            ELSE f[CHOOSE x \in s : TRUE] + h[s \ {CHOOSE x \in s : TRUE}]]
           iter == CHOOSE h : Is(h)
<1>1. SumFunctionOnSet(f, S) = iter[S]
  BY DEF SumFunctionOnSet, FoldFunctionOnSet, MapThenFoldSet
<1>2. Is(g)
  <2>1. \A s \in SUBSET S : g[s] = IF s = {} THEN 0
                            ELSE f[CHOOSE x \in s : TRUE] + g[s \ {CHOOSE x \in s : TRUE}]
    BY DEF AddsUp
  <2> QED BY <2>1 DEF AddsUp
<1>3. Is(iter)
  BY <1>2
<1> HIDE DEF iter
<1>4. \A s \in SUBSET S : iter[s] = IF s = {} THEN 0
                            ELSE f[CHOOSE x \in s : TRUE] + iter[s \ {CHOOSE x \in s : TRUE}]
  BY <1>3
<1> HIDE DEF Is
<1>5. \A s \in SUBSET S : iter[s] = g[s]
  <2> SUFFICES ASSUME \E s \in SUBSET S : iter[s] # g[s] PROVE FALSE
    OBVIOUS
  <2> DEFINE bad == {Cardinality(s) : s \in {t \in SUBSET S : iter[t] # g[t]}}
  <2>1. bad \in SUBSET Nat /\ bad # {}
    BY FS_Subset, FS_CardinalityType
  <2>2. PICK m \in bad : \A x \in bad : m <= x
    BY <2>1, LeastExists
  <2>3. PICK s \in SUBSET S : iter[s] # g[s] /\ Cardinality(s) = m
    BY <2>2
  <2>4. s # {}
    BY <1>4, <2>3 DEF AddsUp
  <2> DEFINE x == CHOOSE x \in s : TRUE
  <2>5. x \in s
    BY <2>4
  <2>6. iter[s] = f[x] + iter[s \ {x}]
    BY <1>4, <2>4
  <2> HIDE DEF x
  <2>7. g[s] = f[x] + g[s \ {x}]
    BY <2>5 DEF AddsUp
  <2>8. IsFiniteSet(s) /\ Cardinality(s) \in Nat /\ Cardinality(s \ {x}) = Cardinality(s) - 1
    BY <2>5, FS_Subset, FS_CardinalityType, FS_RemoveElement
  <2>9. s \ {x} \in SUBSET S /\ iter[s \ {x}] # g[s \ {x}]
    BY <2>3, <2>6, <2>7
  <2>10. Cardinality(s \ {x}) \in bad
    BY <2>9
  <2> HIDE DEF bad
  <2> QED BY <2>2, <2>3, <2>8, <2>10
<1> QED BY <1>1, <1>5

LEMMA SumExists ==
  ASSUME NEW S, IsFiniteSet(S), NEW f, \A x \in S : f[x] \in Nat
  PROVE  \E g : AddsUp(g, f, S)
<1> DEFINE Has(t) == \E g : AddsUp(g, f, t)
<1> SUFFICES ASSUME ~Has(S) PROVE FALSE
  OBVIOUS
<1> DEFINE bad == {Cardinality(s) : s \in {t \in SUBSET S : ~Has(t)}}
<1>1. bad \in SUBSET Nat /\ bad # {}
  <2> HIDE DEF Has
  <2> QED BY FS_Subset, FS_CardinalityType
<1>2. PICK m \in bad : \A x \in bad : m <= x
  BY <1>1, LeastExists
<1>3. PICK s \in SUBSET S : ~Has(s) /\ Cardinality(s) = m
  BY <1>2
<1>4. s # {}
  <2> DEFINE g == [t \in SUBSET {} |-> 0]
  <2>1. AddsUp(g, f, {})
    BY DEF AddsUp
  <2> QED BY <1>3, <2>1
<1>5. PICK y \in s : TRUE
  BY <1>4
<1> DEFINE r == s \ {y}
<1>6. IsFiniteSet(s) /\ Cardinality(s) \in Nat /\ Cardinality(r) = Cardinality(s) - 1
  BY <1>5, FS_Subset, FS_CardinalityType, FS_RemoveElement
<1>7. r \in SUBSET S
  OBVIOUS
<1>8. Has(r)
  <2> SUFFICES ASSUME ~Has(r) PROVE FALSE
    OBVIOUS
  <2> HIDE DEF Has, r
  <2>1. Cardinality(r) \in bad
    BY <1>7
  <2> HIDE DEF bad
  <2> QED BY <1>2, <1>3, <1>6, <2>1
<1>9. PICK g : AddsUp(g, f, r)
  BY <1>8
<1> DEFINE h == [t \in SUBSET s |-> IF y \in t THEN f[y] + g[t \ {y}] ELSE g[t]]
<1>10. /\ \A t \in SUBSET s : t \ {y} \in SUBSET r /\ (y \notin t => t \in SUBSET r)
       /\ g \in [SUBSET r -> Nat] /\ f[y] \in Nat /\ g[{}] = 0
       /\ \A t \in SUBSET r : \A x \in t : g[t] = f[x] + g[t \ {x}]
  BY <1>5, <1>9 DEF AddsUp
<1>11. h \in [SUBSET s -> Nat] /\ h[{}] = 0
  <2> HIDE DEF r
  <2> QED BY <1>10
<1>12. ASSUME NEW t \in SUBSET s, NEW x \in t PROVE h[t] = f[x] + h[t \ {x}]
  <2> HIDE DEF r
  <2>1. CASE x = y
    BY <2>1
  <2>2. CASE x # y /\ y \in t
    <3>1. x \in t \ {y} /\ t \ {y} \in SUBSET r /\ f[x] \in Nat
      BY <1>10, <2>2
    <3>2. g[t \ {y}] = f[x] + g[(t \ {y}) \ {x}]
      BY <1>10, <3>1
    <3>3. (t \ {y}) \ {x} = (t \ {x}) \ {y} /\ (t \ {y}) \ {x} \in SUBSET r
      BY <3>1
    <3>4. h[t] = f[y] + g[t \ {y}] /\ h[t \ {x}] = f[y] + g[(t \ {x}) \ {y}]
      BY <2>2
    <3>5. g[(t \ {x}) \ {y}] \in Nat
      BY <1>10, <3>3
    <3> DEFINE q == g[(t \ {x}) \ {y}]
    <3>6. h[t] = f[y] + (f[x] + q) /\ h[t \ {x}] = f[y] + q
      BY <3>2, <3>3, <3>4
    <3>7. q \in Nat /\ f[x] \in Nat /\ f[y] \in Nat
      BY <1>10, <3>1, <3>5
    <3> HIDE DEF h, q
    <3> QED BY <3>6, <3>7
  <2>3. CASE x # y /\ y \notin t
    BY <1>10, <2>3
  <2> QED BY <2>1, <2>2, <2>3
<1>13. AddsUp(h, f, s)
  BY <1>11, <1>12 DEF AddsUp
<1> QED BY <1>3, <1>13

\* A sum is a number, depends only on what is added, and grows by what is added to it.
LEMMA SumFacts ==
  ASSUME NEW S, IsFiniteSet(S), NEW f, \A x \in S : f[x] \in Nat
  PROVE  /\ SumFunctionOnSet(f, S) \in Nat
         /\ \A h : (\A x \in S : h[x] = f[x]) => SumFunctionOnSet(h, S) = SumFunctionOnSet(f, S)
         /\ \A y : y \notin S /\ f[y] \in Nat =>
              SumFunctionOnSet(f, S \cup {y}) = SumFunctionOnSet(f, S) + f[y]
<1>1. PICK g : AddsUp(g, f, S)
  BY SumExists
<1>2. SumFunctionOnSet(f, S) = g[S] /\ g[S] \in Nat
  <2>1. SumFunctionOnSet(f, S) = g[S]
    BY <1>1, SumIs
  <2>2. g[S] \in Nat
    BY <1>1 DEF AddsUp
  <2> QED BY <2>1, <2>2
<1>3. ASSUME NEW h, \A x \in S : h[x] = f[x]
      PROVE  SumFunctionOnSet(h, S) = SumFunctionOnSet(f, S)
  <2>1. AddsUp(g, h, S)
    BY <1>1, <1>3 DEF AddsUp
  <2> QED BY <1>2, <2>1, SumIs
<1>4. ASSUME NEW y, y \notin S, f[y] \in Nat
      PROVE  SumFunctionOnSet(f, S \cup {y}) = SumFunctionOnSet(f, S) + f[y]
  <2> DEFINE T == S \cup {y}
  <2>1. IsFiniteSet(T) /\ \A x \in T : f[x] \in Nat
    BY <1>4, FS_AddElement
  <2>2. PICK k : AddsUp(k, f, T)
    <3> HIDE DEF T
    <3> QED BY <2>1, SumExists
  <2>3. SumFunctionOnSet(f, T) = k[T]
    <3> HIDE DEF T
    <3> QED BY <2>1, <2>2, SumIs
  <2>4. T \ {y} = S /\ T \in SUBSET T /\ y \in T /\ S \in SUBSET T
    BY <1>4
  <2>5. k[T] = f[y] + k[S] /\ k[S] \in Nat
    BY <2>2, <2>4 DEF AddsUp
  <2> DEFINE l == [s \in SUBSET S |-> k[s]]
  <2>6. AddsUp(l, f, S)
    BY <2>2 DEF AddsUp
  <2>7. SumFunctionOnSet(f, S) = k[S]
    <3>1. SumFunctionOnSet(f, S) = l[S]
      BY <2>6, SumIs
    <3> QED BY <3>1
  <2> QED BY <1>4, <2>3, <2>5, <2>7
<1> QED BY <1>2, <1>3, <1>4

LEMMA SumOfNothing == \A f : SumFunctionOnSet(f, {}) = 0
<1> TAKE f
<1> DEFINE g == [s \in SUBSET {} |-> 0]
<1>1. AddsUp(g, f, {})
  BY DEF AddsUp
<1>2. SumFunctionOnSet(f, {}) = g[{}]
  BY <1>1, SumIs, FS_EmptySet
<1> QED BY <1>2

\* The order does not matter.
LEMMA SumPermuted ==
  ASSUME NEW S, IsFiniteSet(S), NEW f, \A x \in S : f[x] \in Nat,
         NEW p \in Bijection(S, S), NEW h, \A x \in S : h[x] = f[p[x]]
  PROVE  SumFunctionOnSet(h, S) = SumFunctionOnSet(f, S)
<1>1. PICK g : AddsUp(g, f, S)
  BY SumExists
<1>2. /\ p \in [S -> S]
      /\ \A x, y \in S : p[x] = p[y] => x = y
      /\ \A y \in S : \E x \in S : p[x] = y
  BY DEF Bijection, Injection, Surjection, IsInjective
<1> DEFINE image(s) == {p[x] : x \in s}
           k == [s \in SUBSET S |-> g[image(s)]]
<1>3. \A s \in SUBSET S : image(s) \in SUBSET S
  BY <1>2
<1>4. image({}) = {} /\ image(S) = S
  BY <1>2
<1>5. ASSUME NEW s \in SUBSET S, NEW x \in s PROVE k[s] = h[x] + k[s \ {x}]
  <2>1. image(s \ {x}) = image(s) \ {p[x]} /\ p[x] \in image(s)
    BY <1>2
  <2> HIDE DEF image
  <2>2. g[image(s)] = f[p[x]] + g[image(s) \ {p[x]}]
    BY <1>1, <1>3, <2>1 DEF AddsUp
  <2>3. s \ {x} \in SUBSET S /\ h[x] = f[p[x]]
    OBVIOUS
  <2> QED BY <2>1, <2>2, <2>3
<1>6. k \in [SUBSET S -> Nat] /\ k[{}] = 0
  <2> HIDE DEF image
  <2> QED BY <1>1, <1>3, <1>4 DEF AddsUp
<1>7. AddsUp(k, h, S)
  <2> HIDE DEF k
  <2> QED BY <1>5, <1>6 DEF AddsUp
<1>8. SumFunctionOnSet(h, S) = k[S]
  <2> HIDE DEF k
  <2> QED BY <1>7, SumIs
<1>9. SumFunctionOnSet(f, S) = g[S]
  BY <1>1, SumIs
<1> QED BY <1>4, <1>8, <1>9

-----------------------------------------------------------------------------
(* The order of the recon events.                                          *)

\* The bytes each event reports as a gap.
GapLens(events) == [i \in DOMAIN events |-> IF events[i].type = "seq_gap" THEN events[i].len ELSE 0]

\* What the classifier asks of the facts, said of the first n events.
FlagsOf(events, n, r) ==
  /\ r.conflict # Nothing <=> \E i \in 1..n : events[i].type = "rexmit_inconsistency"
  /\ r.outOfOrder <=> \E i \in 1..n : events[i].type = "out_of_order"
  /\ r.duplicates <=> \E i \in 1..n : events[i].type \in {"duplicate", "rexmit"}

GapsOf(events, n, gaps) ==
  /\ gaps # NoRanges <=> \E i \in 1..n : events[i].type = "seq_gap"
  /\ (\E i \in DOMAIN gaps : gaps[i].start <= 1)
       <=> \E i \in 1..n : events[i].type = "seq_gap" /\ events[i].seq <= 1
  /\ (\A i \in DOMAIN gaps : gaps[i].exact)
       <=> \A i \in 1..n : events[i].type = "seq_gap" => events[i].seq > 0
  /\ RangeBytes(gaps) = SumFunctionOnSet(GapLens(events), 1..n)

Described(events, n, r) == FlagsOf(events, n, r) /\ GapsOf(events, n, r.gaps)

LEMMA RangesAddUp ==
  ASSUME NEW s \in Seq(ReconRange), NEW x \in ReconRange
  PROVE  RangeBytes(s \o <<x>>) = RangeBytes(s) + x.len
<1> DEFINE t == s \o <<x>>
           f == [i \in DOMAIN s |-> s[i].len]
           h == [i \in DOMAIN t |-> t[i].len]
           S == 1..Len(s)
           n == Len(s) + 1
<1>1. Len(s) \in Nat /\ DOMAIN s = S /\ \A i \in S : s[i] \in ReconRange
  OBVIOUS
<1>2. DOMAIN t = 1..n /\ t[n] = x /\ \A i \in S : t[i] = s[i]
  BY <1>1
<1>3. \A y \in ReconRange : y.len \in Nat
  BY RowAssumption DEF ReconRange
<1>4. IsFiniteSet(S) /\ n \notin S /\ S \cup {n} = 1..n
  <2>1. IsFiniteSet(S)
    BY <1>1, FS_Interval
  <2>2. n \notin S /\ S \cup {n} = 1..n
    BY <1>1
  <2> QED BY <2>1, <2>2
<1> HIDE DEF t, S
<1>5. /\ \A i \in S : f[i] \in Nat /\ h[i] = f[i]
      /\ h[n] = x.len /\ h[n] \in Nat /\ \A i \in S : h[i] \in Nat
  <2>1. \A i \in S : i \in DOMAIN t
    BY <1>2, <1>4
  <2>2. n \in DOMAIN t
    BY <1>1, <1>2
  <2> QED BY <1>1, <1>2, <1>3, <2>1, <2>2
<1>6. RangeBytes(s) = SumFunctionOnSet(f, S)
  BY <1>1 DEF RangeBytes, SumFunction
<1>7. RangeBytes(t) = SumFunctionOnSet(h, S \cup {n})
  BY <1>2, <1>4 DEF RangeBytes, SumFunction
<1> HIDE DEF f, h, n
<1>8. SumFunctionOnSet(h, S \cup {n}) = SumFunctionOnSet(h, S) + h[n]
  BY <1>4, <1>5, SumFacts
<1>9. SumFunctionOnSet(h, S) = SumFunctionOnSet(f, S)
  BY <1>4, <1>5, SumFacts
<1> QED BY <1>5, <1>6, <1>7, <1>8, <1>9 DEF t

\* One event of the loop.
LEMMA DescribeOne ==
  ASSUME NEW events \in Seq(ReconShapes), NEW n \in Nat, n + 1 \in DOMAIN events,
         NEW r \in ReconFacts, Described(events, n, r)
  PROVE  Described(events, n + 1, ReconEvent(r, events[n + 1]))
<1> DEFINE ev == events[n + 1]
           q == ReconEvent(r, ev)
           b == byte_range(ev, TRUE)
           f == GapLens(events)
<1>1. ev \in ReconShapes /\ 1..(n + 1) = (1..n) \cup {n + 1}
  OBVIOUS
<1>2. /\ q.conflict = IF ev.type = "rexmit_inconsistency" THEN "seen" ELSE r.conflict
      /\ q.outOfOrder = IF ev.type = "out_of_order" THEN TRUE ELSE r.outOfOrder
      /\ q.duplicates = IF ev.type \in {"duplicate", "rexmit"} THEN TRUE ELSE r.duplicates
      /\ q.gaps = IF ev.type = "seq_gap" THEN r.gaps \o b ELSE r.gaps
  <2> HIDE DEF ev, b
  <2> QED BY DEF ReconEvent, ReconFacts, b
<1>3. FlagsOf(events, n + 1, q)
  <2>1. \A T : (\E i \in 1..(n + 1) : events[i].type \in T)
                 <=> ev.type \in T \/ \E i \in 1..n : events[i].type \in T
    BY <1>1
  <2>2. /\ (\E i \in 1..(n + 1) : events[i].type = "rexmit_inconsistency")
              <=> ev.type = "rexmit_inconsistency"
                  \/ \E i \in 1..n : events[i].type = "rexmit_inconsistency"
        /\ (\E i \in 1..(n + 1) : events[i].type = "out_of_order")
              <=> ev.type = "out_of_order" \/ \E i \in 1..n : events[i].type = "out_of_order"
    BY <1>1
  <2> HIDE DEF ev, q
  <2>3. q.conflict # Nothing <=> ev.type = "rexmit_inconsistency" \/ r.conflict # Nothing
    BY <1>2 DEF Nothing
  <2>4. q.outOfOrder <=> ev.type = "out_of_order" \/ r.outOfOrder
    BY <1>2 DEF ReconFacts
  <2>5. q.duplicates <=> ev.type \in {"duplicate", "rexmit"} \/ r.duplicates
    BY <1>2 DEF ReconFacts
  <2> QED BY <2>1, <2>2, <2>3, <2>4, <2>5 DEF FlagsOf, Described
<1>4. r.gaps \in Seq(ReconRange) /\ GapsOf(events, n, r.gaps)
  BY DEF ReconFacts, Described
<1>5. /\ IsFiniteSet(1..n) /\ n + 1 \notin 1..n
      /\ \A i \in 1..(n + 1) : i \in DOMAIN events /\ events[i] \in ReconShapes
      /\ \A i \in 1..(n + 1) : f[i] \in Nat
      /\ f[n + 1] = IF ev.type = "seq_gap" THEN ev.len ELSE 0
  <2>1. \A i \in 1..(n + 1) : i \in DOMAIN events /\ events[i] \in ReconShapes
    OBVIOUS
  <2>2. \A i \in 1..(n + 1) : f[i] = IF events[i].type = "seq_gap" THEN events[i].len ELSE 0
    BY <2>1 DEF GapLens
  <2>3. \A i \in 1..(n + 1) : events[i].len \in Nat
    BY <2>1, RowAssumption
  <2>4. IsFiniteSet(1..n)
    BY FS_Interval
  <2> QED BY <2>1, <2>2, <2>3, <2>4
<1>6. SumFunctionOnSet(f, 1..(n + 1)) = SumFunctionOnSet(f, 1..n) + f[n + 1]
      /\ SumFunctionOnSet(f, 1..n) \in Nat
  <2> HIDE DEF f
  <2>1. \A i \in 1..n : f[i] \in Nat
    BY <1>5
  <2>2. f[n + 1] \in Nat
    BY <1>5
  <2>3. SumFunctionOnSet(f, (1..n) \cup {n + 1}) = SumFunctionOnSet(f, 1..n) + f[n + 1]
    <3> DEFINE S == 1..n
               k == n + 1
    <3>1. IsFiniteSet(S) /\ k \notin S /\ f[k] \in Nat /\ \A i \in S : f[i] \in Nat
      BY <1>5, <2>1, <2>2
    <3> HIDE DEF S, k
    <3>2. SumFunctionOnSet(f, S \cup {k}) = SumFunctionOnSet(f, S) + f[k]
      BY <3>1, SumFacts
    <3> QED BY <3>2 DEF S, k
  <2>4. SumFunctionOnSet(f, 1..n) \in Nat
    BY <1>5, <2>1, SumFacts
  <2> QED BY <1>1, <2>3, <2>4
<1>7. CASE ev.type # "seq_gap"
  <2>1. q.gaps = r.gaps
    BY <1>2, <1>7
  <2>2. /\ (\E i \in 1..(n + 1) : events[i].type = "seq_gap")
              <=> \E i \in 1..n : events[i].type = "seq_gap"
        /\ (\E i \in 1..(n + 1) : events[i].type = "seq_gap" /\ events[i].seq <= 1)
              <=> \E i \in 1..n : events[i].type = "seq_gap" /\ events[i].seq <= 1
        /\ (\A i \in 1..(n + 1) : events[i].type = "seq_gap" => events[i].seq > 0)
              <=> \A i \in 1..n : events[i].type = "seq_gap" => events[i].seq > 0
    BY <1>1, <1>7
  <2>3. SumFunctionOnSet(f, 1..(n + 1)) = SumFunctionOnSet(f, 1..n)
    BY <1>5, <1>6, <1>7
  <2>4. GapsOf(events, n + 1, q.gaps)
    BY <1>4, <2>1, <2>2, <2>3 DEF GapsOf
  <2> QED BY <1>3, <2>4 DEF Described
<1>8. CASE ev.type = "seq_gap"
  <2> DEFINE x == [start |-> ev.seq, len |-> ev.len, exact |-> TRUE /\ ev.seq > 0]
             s == r.gaps
             t == q.gaps
             m == Len(s) + 1
  <2>1. b = <<x>>
    BY <1>1, <1>8, RowAssumption DEF byte_range
  <2>2. x.start = ev.seq /\ x.len = ev.len /\ (x.exact <=> ev.seq > 0)
    OBVIOUS
  <2>3. x \in ReconRange
    <3> DEFINE e == TRUE /\ ev.seq > 0
    <3>1. e \in BOOLEAN
      OBVIOUS
    <3> HIDE DEF e
    <3>2. [start |-> ev.seq, len |-> ev.len, exact |-> e] \in ReconRange
      BY <1>1, <3>1 DEF ReconRange
    <3> QED BY <3>2 DEF e
  <2> HIDE DEF x, ev
  <2>4. t = s \o <<x>>
    BY <1>2, <1>8, <2>1
  <2> HIDE DEF t, s
  <2>5. /\ s \in Seq(ReconRange) /\ Len(s) \in Nat /\ DOMAIN s = 1..Len(s)
        /\ DOMAIN t = 1..m /\ t[m] = x /\ \A i \in 1..Len(s) : t[i] = s[i]
    BY <1>4, <2>3, <2>4 DEF s
  <2>6. DOMAIN t = DOMAIN s \cup {m} /\ t # NoRanges
    BY <2>5 DEF NoRanges
  <2>7. /\ (\E i \in DOMAIN t : t[i].start <= 1) <=> (\E i \in DOMAIN s : s[i].start <= 1) \/ ev.seq <= 1
        /\ (\A i \in DOMAIN t : t[i].exact) <=> (\A i \in DOMAIN s : s[i].exact) /\ ev.seq > 0
    BY <2>2, <2>5, <2>6
  <2>8. /\ \E i \in 1..(n + 1) : events[i].type = "seq_gap"
        /\ (\E i \in 1..(n + 1) : events[i].type = "seq_gap" /\ events[i].seq <= 1)
              <=> ev.seq <= 1 \/ \E i \in 1..n : events[i].type = "seq_gap" /\ events[i].seq <= 1
        /\ (\A i \in 1..(n + 1) : events[i].type = "seq_gap" => events[i].seq > 0)
              <=> ev.seq > 0 /\ \A i \in 1..n : events[i].type = "seq_gap" => events[i].seq > 0
    BY <1>1, <1>8 DEF ev
  <2>9. RangeBytes(t) = SumFunctionOnSet(f, 1..(n + 1))
    <3>1. RangeBytes(t) = RangeBytes(s) + ev.len
      BY <2>2, <2>3, <2>4, <2>5, RangesAddUp
    <3>2. RangeBytes(s) = SumFunctionOnSet(f, 1..n)
      BY <1>4 DEF GapsOf, s
    <3> HIDE DEF f
    <3> QED BY <1>5, <1>6, <1>8, <3>1, <3>2
  <2>10. GapsOf(events, n + 1, t)
    BY <1>4, <2>6, <2>7, <2>8, <2>9 DEF GapsOf, s
  <2> QED BY <1>3, <2>10 DEF Described, t, ev
<1> QED BY <1>7, <1>8

\* Before the first event.
LEMMA NothingDescribed ==
  ASSUME NEW events
  PROVE  NoRecon \in ReconFacts /\ Described(events, 0, NoRecon)
<1>1. NoRecon \in ReconFacts
  BY DEF NoRecon, ReconFacts, NoRanges
<1>2. FlagsOf(events, 0, NoRecon)
  BY DEF FlagsOf, NoRecon
<1>3. GapsOf(events, 0, << >>)
  <2>1. RangeBytes(<< >>) = 0
    <3> DEFINE f == [i \in DOMAIN << >> |-> << >>[i].len]
    <3>1. RangeBytes(<< >>) = SumFunctionOnSet(f, {})
      BY DEF RangeBytes, SumFunction
    <3> HIDE DEF f
    <3> QED BY <3>1, SumOfNothing
  <2>2. 1..0 = {}
    OBVIOUS
  <2>3. SumFunctionOnSet(GapLens(events), 1..0) = 0
    BY <2>2, SumOfNothing
  <2> QED BY <2>1, <2>3 DEF GapsOf, NoRanges
<1> QED BY <1>1, <1>2, <1>3 DEF Described, NoRecon, NoRanges

\* The loop over a whole log that is not cut off.
LEMMA ReconOfIsDescribed ==
  ASSUME NEW events \in Seq(ReconShapes), Len(events) <= MaxEventsPerFlow
  PROVE  ReconOf(events) \in ReconFacts /\ Described(events, Len(events), ReconOf(events))
<1> DEFINE N == Len(events)
           Is(a, n) == /\ DOMAIN a = 0..n /\ a[0] = NoRecon
                       /\ \A m \in 1..n : a[m] = ReconEvent(a[m - 1], events[m])
           Loop(a) == a = [n \in 0..N |-> IF n = 0 THEN NoRecon
                                          ELSE KeepEvent(a[n - 1], n - 1, events[n])]
           after == CHOOSE a : Loop(a)
<1>1. N \in Nat /\ DOMAIN events = 1..N /\ \A i \in 1..N : events[i] \in ReconShapes
  OBVIOUS
<1>2. ReconOf(events) = after[N]
  BY DEF ReconOf
<1>3. \A n \in 0..N : \E a : Is(a, n)
  <2> DEFINE bad == {n \in 0..N : ~\E a : Is(a, n)}
  <2> SUFFICES ASSUME bad # {} PROVE FALSE
    OBVIOUS
  <2>1. bad \in SUBSET Nat
    OBVIOUS
  <2>2. PICK n \in bad : \A x \in bad : n <= x
    BY <2>1, LeastExists
  <2>3. n # 0
    <3> DEFINE a == [k \in 0..0 |-> NoRecon]
    <3>1. Is(a, 0)
      OBVIOUS
    <3> QED BY <2>2, <3>1
  <2>4. n \in 0..N /\ n - 1 \in 0..N /\ ~(n <= n - 1)
    BY <1>1, <2>2, <2>3
  <2>5. PICK a : Is(a, n - 1)
    BY <2>2, <2>4
  <2> DEFINE c == [k \in 0..n |-> IF k = n THEN ReconEvent(a[n - 1], events[n]) ELSE a[k]]
  <2>6. Is(c, n)
    <3>1. DOMAIN c = 0..n /\ c[0] = NoRecon
      BY <2>3, <2>4, <2>5
    <3>2. ASSUME NEW m \in 1..n PROVE c[m] = ReconEvent(c[m - 1], events[m])
      <4>1. m \in 0..n /\ m - 1 \in 0..n /\ m - 1 # n
        BY <2>4
      <4>2. c[m - 1] = a[m - 1] /\ c[m] = IF m = n THEN ReconEvent(a[n - 1], events[n]) ELSE a[m]
        BY <4>1
      <4>3. CASE m = n
        BY <4>2, <4>3
      <4>4. CASE m # n
        <5>1. m \in 1..(n - 1)
          BY <2>4, <4>4
        <5>2. a[m] = ReconEvent(a[m - 1], events[m])
          BY <2>5, <5>1
        <5> QED BY <4>2, <4>4, <5>2
      <4> QED BY <4>3, <4>4
    <3> HIDE DEF c
    <3> QED BY <3>1, <3>2
  <2> QED BY <2>2, <2>6
<1>4. PICK b : Is(b, N)
  BY <1>1, <1>3
<1>5. ASSUME NEW a, NEW n \in 1..N
      PROVE  KeepEvent(a[n - 1], n - 1, events[n]) = ReconEvent(a[n - 1], events[n])
  BY <1>1, EventBoundAssumption DEF KeepEvent
<1>6. Loop([n \in 0..N |-> b[n]])
  <2> DEFINE d == [n \in 0..N |-> b[n]]
  <2>1. ASSUME NEW n \in 0..N
        PROVE  d[n] = IF n = 0 THEN NoRecon ELSE KeepEvent(d[n - 1], n - 1, events[n])
    <3>1. CASE n = 0
      BY <1>4, <3>1
    <3>2. CASE n # 0
      <4>1. n \in 1..N /\ n - 1 \in 0..N
        BY <1>1, <3>2
      <4>2. b[n] = ReconEvent(b[n - 1], events[n])
        BY <1>4, <4>1
      <4>3. KeepEvent(b[n - 1], n - 1, events[n]) = ReconEvent(b[n - 1], events[n])
        BY <1>5, <4>1
      <4> QED BY <3>2, <4>1, <4>2, <4>3
    <3> QED BY <3>1, <3>2
  <2> QED BY <2>1
<1>7. Loop(after)
  <2> HIDE DEF Loop
  <2> QED BY <1>6
<1> HIDE DEF after, Is
<1>8. after[0] = NoRecon /\ \A n \in 1..N : after[n] = ReconEvent(after[n - 1], events[n])
  <2>1. \A n \in 0..N : after[n] = IF n = 0 THEN NoRecon
                                    ELSE KeepEvent(after[n - 1], n - 1, events[n])
    BY <1>7
  <2> HIDE DEF Loop
  <2>2. 0 \in 0..N /\ \A n \in 1..N : n \in 0..N /\ n # 0
    BY <1>1
  <2> QED BY <1>5, <2>1, <2>2
<1> HIDE DEF Loop
<1>9. NoRecon \in ReconFacts /\ Described(events, 0, NoRecon)
  BY NothingDescribed
<1>10. \A n \in 0..N : after[n] \in ReconFacts /\ Described(events, n, after[n])
  <2> DEFINE Good(n) == after[n] \in ReconFacts /\ Described(events, n, after[n])
             bad == {n \in 0..N : ~Good(n)}
  <2> SUFFICES ASSUME bad # {} PROVE FALSE
    OBVIOUS
  <2>1. bad \in SUBSET Nat
    OBVIOUS
  <2>2. PICK n \in bad : \A x \in bad : n <= x
    BY <2>1, LeastExists
  <2>3. n # 0
    BY <1>8, <1>9, <2>2
  <2>4. /\ n \in 1..N /\ n - 1 \in 0..N /\ ~(n <= n - 1)
        /\ n - 1 \in Nat /\ (n - 1) + 1 = n /\ n \in DOMAIN events
    BY <1>1, <2>2, <2>3
  <2>5. Good(n - 1)
    BY <2>2, <2>4
  <2>6. after[n] = ReconEvent(after[n - 1], events[n]) /\ events[n] \in ReconShapes
    BY <1>1, <1>8, <2>4
  <2>7. after[n] \in ReconFacts
    BY <2>5, <2>6, EventIsShown
  <2>8. Described(events, (n - 1) + 1, ReconEvent(after[n - 1], events[(n - 1) + 1]))
    BY <2>4, <2>5, DescribeOne
  <2>9. Described(events, n, after[n])
    BY <2>4, <2>6, <2>8
  <2> QED BY <2>2, <2>7, <2>9
<1> QED BY <1>1, <1>2, <1>10

\* Facts the classifier cannot tell apart.
SameFacts(r, q) ==
  /\ (r.conflict # Nothing) <=> (q.conflict # Nothing)
  /\ (r.gaps # NoRanges) <=> (q.gaps # NoRanges)
  /\ (\E i \in DOMAIN r.gaps : r.gaps[i].start <= 1) <=> (\E i \in DOMAIN q.gaps : q.gaps[i].start <= 1)
  /\ (\A i \in DOMAIN r.gaps : r.gaps[i].exact) <=> (\A i \in DOMAIN q.gaps : q.gaps[i].exact)
  /\ RangeBytes(r.gaps) = RangeBytes(q.gaps)
  /\ r.outOfOrder = q.outOfOrder /\ r.duplicates = q.duplicates

LEMMA SameVerdict ==
  ASSUME NEW r \in ReconFacts, NEW q \in ReconFacts, SameFacts(r, q), NEW c, NEW t, NEW l
  PROVE  LET v == classify_reconstruction(c, r, t, l)
             w == classify_reconstruction(c, q, t, l)
         IN  /\ v.quality = w.quality /\ v.reason = w.reason /\ v.gap_bytes = w.gap_bytes
             /\ v.exact = w.exact /\ v.conditions = w.conditions
<1>1. \A x \in {r, q} : ConflictingRanges(x) # NoRanges <=> x.conflict # Nothing
  BY DEF ConflictingRanges, NoRanges
<1>2. ConflictingRanges(r) # NoRanges <=> ConflictingRanges(q) # NoRanges
  BY <1>1 DEF SameFacts
<1>3. GapBytes(c, r) = GapBytes(c, q) /\ (Unresolved(c, r) <=> Unresolved(c, q))
  BY DEF SameFacts, GapBytes, Unresolved
<1> DEFINE early(x) == \E i \in DOMAIN x.gaps : x.gaps[i].start <= 1
           exact(x) == \A i \in DOMAIN x.gaps : x.gaps[i].exact
<1>4. (early(r) <=> early(q)) /\ (exact(r) <=> exact(q))
  BY DEF SameFacts
<1>5. r.outOfOrder = q.outOfOrder /\ r.duplicates = q.duplicates
  BY DEF SameFacts
<1> QED BY <1>2, <1>3, <1>4, <1>5, Zenon DEF classify_reconstruction

\* What is said of a whole log does not change with its order.
LEMMA OrderIsForgotten ==
  ASSUME NEW events \in Seq(ReconShapes),
         NEW p \in Bijection(DOMAIN events, DOMAIN events),
         NEW r \in ReconFacts, Described(events, Len(events), r),
         NEW q \in ReconFacts,
         Described([i \in DOMAIN events |-> events[p[i]]], Len(events), q)
  PROVE  SameFacts(r, q)
<1> DEFINE N == Len(events)
           D == 1..N
           other == [i \in DOMAIN events |-> events[p[i]]]
<1>1. N \in Nat /\ DOMAIN events = D /\ DOMAIN other = D /\ \A i \in D : events[i] \in ReconShapes
  OBVIOUS
<1>2. /\ p \in [D -> D] /\ \A i \in D : \E j \in D : p[j] = i
      /\ p \in Bijection(D, D)
  BY <1>1 DEF Bijection, Surjection
<1>3. \A i \in D : other[i] = events[p[i]]
  BY <1>1
<1> HIDE DEF other
<1>4. /\ \A i \in D : \E j \in D : other[i] = events[j]
      /\ \A i \in D : \E j \in D : events[i] = other[j]
  <2> HIDE DEF D
  <2> QED BY <1>2, <1>3
<1>5. /\ (\E i \in D : events[i].type = "rexmit_inconsistency")
           <=> \E i \in D : other[i].type = "rexmit_inconsistency"
      /\ (\E i \in D : events[i].type = "out_of_order")
           <=> \E i \in D : other[i].type = "out_of_order"
      /\ (\E i \in D : events[i].type \in {"duplicate", "rexmit"})
           <=> \E i \in D : other[i].type \in {"duplicate", "rexmit"}
      /\ (\E i \in D : events[i].type = "seq_gap") <=> \E i \in D : other[i].type = "seq_gap"
      /\ (\E i \in D : events[i].type = "seq_gap" /\ events[i].seq <= 1)
           <=> \E i \in D : other[i].type = "seq_gap" /\ other[i].seq <= 1
      /\ (\A i \in D : events[i].type = "seq_gap" => events[i].seq > 0)
           <=> \A i \in D : other[i].type = "seq_gap" => other[i].seq > 0
  <2> HIDE DEF D
  <2>1. \A T : (\E i \in D : events[i] \in T) <=> (\E i \in D : other[i] \in T)
    BY <1>4
  <2> DEFINE R == {e \in ReconShapes : e.type = "rexmit_inconsistency"}
             Q == {e \in ReconShapes : e.type = "out_of_order"}
             A == {e \in ReconShapes : e.type \in {"duplicate", "rexmit"}}
             G == {e \in ReconShapes : e.type = "seq_gap"}
             E == {e \in ReconShapes : e.type = "seq_gap" /\ e.seq <= 1}
             Z == {e \in ReconShapes : e.type = "seq_gap" /\ ~(e.seq > 0)}
  <2>2. /\ (\E i \in D : events[i] \in R) <=> (\E i \in D : other[i] \in R)
        /\ (\E i \in D : events[i] \in Q) <=> (\E i \in D : other[i] \in Q)
        /\ (\E i \in D : events[i] \in A) <=> (\E i \in D : other[i] \in A)
        /\ (\E i \in D : events[i] \in G) <=> (\E i \in D : other[i] \in G)
        /\ (\E i \in D : events[i] \in E) <=> (\E i \in D : other[i] \in E)
        /\ (\E i \in D : events[i] \in Z) <=> (\E i \in D : other[i] \in Z)
    <3> HIDE DEF R, Q, A, G, E, Z
    <3> QED BY <2>1
  <2>3. \A i \in D : events[i] \in ReconShapes /\ other[i] \in ReconShapes
    BY <1>1, <1>4
  <2> QED BY <2>2, <2>3
<1>6. SumFunctionOnSet(GapLens(other), D) = SumFunctionOnSet(GapLens(events), D)
  <2> DEFINE f == GapLens(events)
             h == GapLens(other)
  <2>1. IsFiniteSet(D)
    BY <1>1, FS_Interval
  <2>2. \A i \in D : f[i] = IF events[i].type = "seq_gap" THEN events[i].len ELSE 0
    BY <1>1 DEF GapLens
  <2>3. \A i \in D : h[i] = IF other[i].type = "seq_gap" THEN other[i].len ELSE 0
    BY <1>1 DEF GapLens
  <2>4. \A i \in D : f[i] \in Nat
    BY <1>1, <2>2, RowAssumption
  <2> HIDE DEF f, h, D
  <2>5. \A i \in D : h[i] = f[p[i]]
    BY <1>2, <1>3, <2>2, <2>3
  <2>6. SumFunctionOnSet(h, D) = SumFunctionOnSet(f, D)
    BY <1>2, <2>1, <2>4, <2>5, SumPermuted
  <2> QED BY <2>6 DEF f, h
<1>7. FlagsOf(events, N, r) /\ FlagsOf(other, N, q) /\ GapsOf(events, N, r.gaps) /\ GapsOf(other, N, q.gaps)
  BY DEF Described, other
<1>8. /\ (r.conflict # Nothing) <=> (q.conflict # Nothing)
      /\ r.outOfOrder <=> q.outOfOrder
      /\ r.duplicates <=> q.duplicates
  BY <1>5, <1>7 DEF FlagsOf
<1>9. r.outOfOrder = q.outOfOrder /\ r.duplicates = q.duplicates
  <2>1. /\ r.outOfOrder \in BOOLEAN /\ q.outOfOrder \in BOOLEAN
        /\ r.duplicates \in BOOLEAN /\ q.duplicates \in BOOLEAN
    BY DEF ReconFacts
  <2> QED BY <1>8, <2>1
<1>10. /\ (r.gaps # NoRanges) <=> (q.gaps # NoRanges)
       /\ (\E i \in DOMAIN r.gaps : r.gaps[i].start <= 1)
            <=> (\E i \in DOMAIN q.gaps : q.gaps[i].start <= 1)
       /\ (\A i \in DOMAIN r.gaps : r.gaps[i].exact) <=> (\A i \in DOMAIN q.gaps : q.gaps[i].exact)
       /\ RangeBytes(r.gaps) = RangeBytes(q.gaps)
  BY <1>5, <1>6, <1>7 DEF GapsOf
<1> QED BY <1>8, <1>9, <1>10 DEF SameFacts

\* What the loop has collected so far describes the log, as long as it is not cut off.
DescribedInv ==
  phase \in {"flow", "classified"} /\ Len(recon) <= MaxEventsPerFlow =>
    Described(recon, Len(recon), facts)

\* The rest of the log does not matter.
LEMMA DescribedPrefix ==
  ASSUME NEW events \in Seq(ReconShapes), NEW ev \in ReconShapes, NEW r,
         Described(events, Len(events), r)
  PROVE  Described(Append(events, ev), Len(events), r)
<1> DEFINE N == Len(events)
           longer == Append(events, ev)
<1>1. /\ N \in Nat /\ DOMAIN events = 1..N /\ DOMAIN longer = 1..(N + 1)
      /\ \A i \in 1..N : longer[i] = events[i] /\ i \in DOMAIN longer /\ events[i] \in ReconShapes
  OBVIOUS
<1> HIDE DEF longer
<1>2. SumFunctionOnSet(GapLens(longer), 1..N) = SumFunctionOnSet(GapLens(events), 1..N)
  <2> DEFINE f == GapLens(events)
             h == GapLens(longer)
             S == 1..N
  <2>1. \A i \in S : f[i] \in Nat /\ h[i] = f[i]
    BY <1>1, RowAssumption DEF GapLens
  <2>2. IsFiniteSet(S)
    BY <1>1, FS_Interval
  <2> HIDE DEF f, h, S
  <2>3. SumFunctionOnSet(h, S) = SumFunctionOnSet(f, S)
    BY <2>1, <2>2, SumFacts
  <2> QED BY <2>3 DEF f, h, S
<1>3. FlagsOf(longer, N, r)
  BY <1>1 DEF Described, FlagsOf
<1>4. GapsOf(longer, N, r.gaps)
  BY <1>1, <1>2 DEF Described, GapsOf
<1> QED BY <1>3, <1>4 DEF Described, longer

LEMMA DescribedStep == FlowInv /\ DescribedInv /\ [Next]_vars => DescribedInv'
<1> SUFFICES ASSUME FlowInv, DescribedInv, [Next]_vars,
                    phase' \in {"flow", "classified"}, Len(recon') <= MaxEventsPerFlow
             PROVE  Described(recon', Len(recon'), facts')
  BY DEF DescribedInv
<1>1. recon \in Seq(ReconShapes) /\ facts \in ReconFacts
  BY DEF FlowInv
<1>2. CASE \E ev \in ReconShapes : LogRecon(ev)
  <2>1. PICK ev \in ReconShapes : LogRecon(ev)
    BY <1>2
  <2>2. /\ phase = "flow" /\ recon' = Append(recon, ev)
        /\ facts' = KeepEvent(facts, Len(recon), ev)
    BY <2>1 DEF LogRecon
  <2> DEFINE N == Len(recon)
  <2>3. /\ N \in Nat /\ Len(recon') = N + 1 /\ recon' \in Seq(ReconShapes)
        /\ N + 1 \in DOMAIN recon' /\ recon'[N + 1] = ev
        /\ N < MaxEventsPerFlow /\ N <= MaxEventsPerFlow
    BY <1>1, <2>2, EventBoundAssumption
  <2>4. Described(recon, N, facts)
    BY <2>2, <2>3 DEF DescribedInv
  <2>5. Described(recon', N, facts)
    BY <1>1, <2>2, <2>4, DescribedPrefix
  <2>6. Described(recon', N + 1, ReconEvent(facts, recon'[N + 1]))
    <3> HIDE DEF N
    <3> QED BY <1>1, <2>3, <2>5, DescribeOne
  <2>7. facts' = ReconEvent(facts, recon'[N + 1])
    BY <2>2, <2>3 DEF KeepEvent
  <2> QED BY <2>3, <2>6, <2>7
<1>3. CASE phase \in {"flow", "classified"} /\ UNCHANGED <<recon, facts>>
  BY <1>3 DEF DescribedInv
<1>4. CASE NormalizeFlow
  BY <1>3, <1>4 DEF NormalizeFlow, flowVars
<1>5. CASE \E joined \in BOOLEAN : JoinFlow(joined)
  BY <1>5 DEF JoinFlow
<1>6. CASE \E r \in SslRows : ReadSslRow(r)
  BY <1>6 DEF ReadSslRow
<1>7. CASE \E f \in HelloFrames : ReadFrame(f)
  BY <1>7 DEF ReadFrame
<1>8. CASE AttachNext
  BY <1>8 DEF AttachNext
<1>9. CASE NormalizeHandshake
  BY <1>9 DEF NormalizeHandshake
<1>10. CASE UNCHANGED vars
  BY <1>3, <1>10 DEF vars, flowVars
<1> QED BY <1>2, <1>4, <1>5, <1>6, <1>7, <1>8, <1>9, <1>10 DEF Next

\* VerdictIgnoresEventOrder for every log that is not cut off, of any length and in any
\* order: the verdict on a stream is a verdict on what was seen, not on when Zeek wrote
\* it down (normalize_flows, classify_reconstruction).
THEOREM VerdictsIgnoreOrder == Spec => []VerdictIgnoresEventOrder
<1>1. Init => FlowInv /\ DescribedInv
  <2> SUFFICES ASSUME Init PROVE FlowInv /\ DescribedInv
    OBVIOUS
  <2>1. recon = << >> /\ facts = NoRecon
    BY DEF Init
  <2>2. << >> \in Seq(ReconShapes) /\ Len(<< >>) = 0 /\ 0 <= MaxEventsPerFlow
    BY EventBoundAssumption
  <2>3. NoRecon \in ReconFacts /\ Described(<< >>, 0, NoRecon)
    BY NothingDescribed
  <2> QED BY <2>1, <2>2, <2>3 DEF Init, FlowInv, DescribedInv, Shown
<1>2. FlowInv /\ DescribedInv => VerdictIgnoresEventOrder
  <2> SUFFICES ASSUME FlowInv, DescribedInv, phase = "classified", Len(recon) <= MaxEventsPerFlow,
                      NEW p \in Bijection(DOMAIN recon, DOMAIN recon)
               PROVE  LET other == classify_reconstruction(conn,
                                     ReconOf([i \in DOMAIN recon |-> recon[p[i]]]), truncated, losses)
                      IN  /\ other.quality = flow.quality /\ other.reason = flow.reason
                          /\ other.gap_bytes = flow.gap_bytes /\ other.exact = flow.exact
                          /\ other.conditions = flow.conditions
    BY DEF VerdictIgnoresEventOrder, Classified
  <2> DEFINE events == [i \in DOMAIN recon |-> recon[p[i]]]
  <2>1. /\ recon \in Seq(ReconShapes) /\ facts \in ReconFacts
        /\ Described(recon, Len(recon), facts)
        /\ flow = classify_reconstruction(conn, facts, truncated, losses)
    BY DEF FlowInv, DescribedInv
  <2>2. events \in Seq(ReconShapes) /\ Len(events) = Len(recon)
    <3>1. p \in [DOMAIN recon -> DOMAIN recon]
      BY DEF Bijection, Surjection
    <3>2. DOMAIN recon = 1..Len(recon) /\ Len(recon) \in Nat
      BY <2>1
    <3>3. events \in [1..Len(recon) -> ReconShapes]
      BY <2>1, <3>1, <3>2
    <3> QED BY <3>2, <3>3
  <2>3. ReconOf(events) \in ReconFacts /\ Described(events, Len(recon), ReconOf(events))
    <3> HIDE DEF events
    <3> QED BY <2>2, ReconOfIsDescribed
  <2>4. SameFacts(facts, ReconOf(events))
    BY <2>1, <2>3, OrderIsForgotten
  <2> HIDE DEF events
  <2>5. LET other == classify_reconstruction(conn, ReconOf(events), truncated, losses)
        IN  /\ flow.quality = other.quality /\ flow.reason = other.reason
            /\ flow.gap_bytes = other.gap_bytes /\ flow.exact = other.exact
            /\ flow.conditions = other.conditions
    BY <2>1, <2>3, <2>4, SameVerdict
  <2> QED BY <2>5 DEF events
<1> QED BY <1>1, <1>2, FlowStep, DescribedStep, PTL DEF Spec

-----------------------------------------------------------------------------
(* Forward secrecy.                                                        *)

\* A stream with losses is incomplete; a finished handshake is the row's.
HandshakeInv ==
  /\ flow.reason \in TruncationReasons => flow.quality = "incomplete"
  /\ phase = "done" => \E m : handshake = handshake_from_row(row, flow, frames, m)

\* The reasons classify_reconstruction gives for an incomplete stream are given for no
\* other.
LEMMA LossIsIncomplete ==
  ASSUME NEW c, NEW r, NEW t, NEW l
  PROVE  LET f == classify_reconstruction(c, r, t, l)
         IN  f.reason \in TruncationReasons => f.quality = "incomplete"
BY DEF classify_reconstruction, TruncationReasons, Nothing

\* HandshakeInv is inductive.
LEMMA HandshakeStep == HandshakeInv /\ [Next]_vars => HandshakeInv'
<1> SUFFICES ASSUME HandshakeInv, [Next]_vars PROVE HandshakeInv'
  OBVIOUS
<1>1. CASE NormalizeFlow
  <2>1. flow' = classify_reconstruction(conn, facts, truncated, losses) /\ phase' # "done"
    BY <1>1 DEF NormalizeFlow
  <2> QED BY <2>1, LossIsIncomplete DEF HandshakeInv
<1>2. CASE \E joined \in BOOLEAN : JoinFlow(joined)
  BY <1>2 DEF HandshakeInv, JoinFlow, NoFlow, TruncationReasons, Nothing
<1>3. CASE NormalizeHandshake
  BY <1>3 DEF HandshakeInv, NormalizeHandshake
<1>4. CASE flow' = flow /\ phase' # "done"
  BY <1>4 DEF HandshakeInv
<1>5. CASE \E ev \in ReconShapes : LogRecon(ev)
  BY <1>4, <1>5 DEF LogRecon
<1>6. CASE \E r \in SslRows : ReadSslRow(r)
  BY <1>4, <1>6 DEF ReadSslRow
<1>7. CASE \E f \in HelloFrames : ReadFrame(f)
  BY <1>4, <1>7 DEF ReadFrame
<1>8. CASE AttachNext
  BY <1>4, <1>8 DEF AttachNext
<1>9. CASE UNCHANGED vars
  BY <1>9 DEF HandshakeInv, vars
<1> QED BY <1>1, <1>2, <1>3, <1>5, <1>6, <1>7, <1>8, <1>9 DEF Next

\* The mechanism of a key exchange and what was logged of it (classify_key_exchange).
LEMMA MechanismIsLogged ==
  ASSUME NEW r, NEW selected, selected # None
  PROVE  LET kx == key_exchange_evidence(r, selected)
         IN  /\ selected # "TLSv13" /\ kx.mechanism \in {"RSA", "DH", "ECDH", "ECDHE", "DHE"}
                  => r.cipher = kx.mechanism
             /\ selected = "TLSv13" /\ kx.mechanism \in {"ECDHE", "DHE", "(EC)DHE", "PSK-(EC)DHE"}
                  => r.group # NoGroup \/ r.curve # None
<1> DEFINE name == IF r.group \in DOMAIN GroupNames THEN GroupNames[r.group] ELSE r.curve
           keyShare == r.group # NoGroup \/ r.curve # None
           kx == key_exchange_evidence(r, selected)
<1>1. CASE selected = "TLSv13"
  <2>1. kx = classify_tls13(r, name)
    BY <1>1 DEF key_exchange_evidence, classify_key_exchange, None
  <2>2. ~keyShare => classify_tls13(r, name).mechanism \in {"PSK", None}
    <3> HIDE DEF keyShare, name
    <3>1. CASE r.resumed
      BY <3>1 DEF classify_tls13, KX, keyShare
    <3>2. CASE ~r.resumed
      BY <3>2 DEF classify_tls13, KX, keyShare
    <3> QED BY <3>1, <3>2
  <2> QED BY <1>1, <2>1, <2>2 DEF None
<1>2. CASE selected # "TLSv13"
  <2>1. kx = classify_tls12(r)
    BY <1>2 DEF key_exchange_evidence, classify_key_exchange
  <2> QED BY <1>2, <2>1 DEF classify_tls12, KX, None
<1> QED BY <1>1, <1>2

\* SecrecyIsGrounded for every row: forward secrecy is judged only of a handshake the
\* server answered on a stream that shows it whole, and by the key exchange that was
\* logged (assess_forward_secrecy, _handshake_evidence_state).
THEOREM SecrecyHasGrounds == Spec => []SecrecyIsGrounded
<1>1. Init => HandshakeInv
  BY DEF Init, HandshakeInv, NoFlow, TruncationReasons, Nothing
<1>2. HandshakeInv => SecrecyIsGrounded
  <2> SUFFICES ASSUME HandshakeInv, phase = "done",
                      assess_forward_secrecy(handshake) # "indeterminate"
               PROVE  SecrecyIsGrounded
    BY DEF SecrecyIsGrounded, Done
  <2> DEFINE version == resolve_selected_version(row)
             kx == key_exchange_evidence(row, version.selected)
  <2>1. /\ handshake.version = version
        /\ handshake.kx = kx
        /\ handshake.evidence_state = handshake_evidence_state(flow, version, row.established)
    BY DEF HandshakeInv, handshake_from_row
  <2> HIDE DEF version, kx
  <2>2. /\ handshake.evidence_state \notin {"incomplete", "conflicting"}
        /\ version.selected # None /\ kx.mechanism # None
    BY <2>1 DEF assess_forward_secrecy
  <2>3. has_server_hello(row.history)
    BY <2>2 DEF version, resolve_selected_version
  <2>4. flow.quality # "conflicting" /\ (row.established \/ flow.reason \notin TruncationReasons)
    BY <2>1, <2>2 DEF handshake_evidence_state, HandshakeInv
  <2>5. CASE assess_forward_secrecy(handshake) = "absent"
    <3>1. /\ version.selected \in {"TLSv12", "TLSv11", "TLSv10", "SSLv3"}
          /\ kx.mechanism \in {"RSA", "DH", "ECDH"}
      BY <2>1, <2>5 DEF assess_forward_secrecy
    <3>2. row.cipher = kx.mechanism
      BY <2>2, <3>1, MechanismIsLogged DEF kx
    <3> QED BY <2>1, <2>3, <2>4, <2>5, <3>1, <3>2 DEF SecrecyIsGrounded
  <2>6. CASE assess_forward_secrecy(handshake) # "absent"
    <3>1. CASE version.selected = "TLSv13"
      <4>1. kx.mechanism \in {"ECDHE", "DHE", "(EC)DHE", "PSK-(EC)DHE"}
        BY <2>1, <3>1 DEF assess_forward_secrecy
      <4>2. row.group # NoGroup \/ row.curve # None
        BY <2>2, <3>1, <4>1, MechanismIsLogged DEF kx
      <4> QED BY <2>1, <2>3, <2>4, <2>6, <3>1, <4>2 DEF SecrecyIsGrounded
    <3>2. CASE version.selected # "TLSv13"
      <4>1. /\ version.selected \in {"TLSv12", "TLSv11", "TLSv10", "SSLv3"}
            /\ kx.mechanism \in {"ECDHE", "DHE"}
        BY <2>1, <2>6, <3>2 DEF assess_forward_secrecy
      <4>2. row.cipher = kx.mechanism
        BY <2>2, <3>2, <4>1, MechanismIsLogged DEF kx
      <4> QED BY <2>1, <2>3, <2>4, <2>6, <3>2, <4>1, <4>2 DEF SecrecyIsGrounded
    <3> QED BY <3>1, <3>2
  <2> QED BY <2>5, <2>6
<1> QED BY <1>1, <1>2, HandshakeStep, PTL DEF Spec

-----------------------------------------------------------------------------
(* Frames and messages.                                                    *)

\* The handshake types of frames and the kinds messages can have.
HandshakeType == UNION {Letters(f.types) : f \in HelloFrames}
MessageKind ==
  {HISTORY_KIND[l] : l \in DOMAIN HISTORY_KIND} \cup HandshakeType \cup {"hello_retry_request"}

Message == [kind : MessageKind, frame : Nat, evidence_state : {"observed", "inferred"}]
Attachment == [original : Seq(Message), messages : Seq(Message), taken : SUBSET Nat]

AttachedTo(acc, n) == {i \in DOMAIN acc.messages : acc.messages[i].frame = n}

\* A message that was not taken is as the history has it; one that was keeps its kind or
\* is a retry request that stands in the history as a ServerHello.
Named(acc) ==
  /\ acc.taken \subseteq DOMAIN acc.messages
  /\ \A i \in DOMAIN acc.messages :
       /\ i \notin acc.taken => acc.messages[i].frame = 0
       /\ i \notin acc.taken => acc.messages[i].kind = acc.original[i].kind
       /\ acc.messages[i].kind # "hello_retry_request"
            => acc.messages[i].kind = acc.original[i].kind

\* A message that was taken has the number of a frame that carries its kind.
Sourced(acc, fs) ==
  \A i \in acc.taken :
    /\ acc.messages[i].frame \in DOMAIN fs
    /\ \E t \in Letters(fs[acc.messages[i].frame].types) :
         acc.messages[i].kind = TypeKind(t, fs[acc.messages[i].frame])

\* Messages of one kind are taken from the oldest on.
InOrder(acc) ==
  \A i, j \in DOMAIN acc.messages :
    i < j /\ acc.original[i].kind = acc.original[j].kind /\ j \in acc.taken =>
      i \in acc.taken /\ acc.messages[i].frame <= acc.messages[j].frame

\* A frame has no more messages than types, those still queued counted in.
Counted(acc, fs, q) ==
  \A n \in DOMAIN fs :
    Cardinality(AttachedTo(acc, n)) + (IF n = Len(fs) THEN Len(q) ELSE 0) <= Len(fs[n].types)

\* What is queued are types of the last frame.
Queued(fs, q) ==
  /\ q \in Seq(HandshakeType)
  /\ q # << >> => fs # << >> /\ \A k \in DOMAIN q : q[k] \in Letters(fs[Len(fs)].types)

FramesInv ==
  /\ frames \in Seq(HelloFrames)
  /\ Queued(frames, queue)
  /\ phase \in {"flow", "classified", "row"} => frames = << >> /\ queue = << >>
  /\ phase \in {"frames", "done"} =>
       /\ row \in SslRows
       /\ attach \in Attachment
       /\ Len(attach.original) = Len(row.history) /\ Len(attach.messages) = Len(row.history)
       /\ Named(attach) /\ Sourced(attach, frames) /\ InOrder(attach) /\ Counted(attach, frames, queue)
  /\ phase = "done" => handshake.messages = attach.messages

\* A set of natural numbers that is not empty has a least member.
LEMMA MinIsLeast ==
  ASSUME NEW S \in SUBSET Nat, S # {}
  PROVE  Min(S) \in S /\ \A x \in S : Min(S) <= x
<1>1. PICK m \in S : \A x \in S : ~(<<x, m>> \in OpToRel(<, Nat))
  BY NatLessThanWellFounded, WFMin
<1>2. \A x \in S : ~(x < m)
  BY <1>1 DEF OpToRel
<1>3. \A x \in S : m <= x
  BY <1>2
<1> QED BY <1>3 DEF Min

\* A frame's types are handshake types.
LEMMA TypesAreTypes ==
  ASSUME NEW f \in HelloFrames
  PROVE  f.types \in Seq(HandshakeType) /\ Len(f.types) \in Nat
<1>1. f.types \in Seq(STRING)
  BY RowAssumption
<1>2. Letters(f.types) \subseteq HandshakeType
  BY DEF HandshakeType
<1>3. \A i \in DOMAIN f.types : f.types[i] \in HandshakeType
  BY <1>2 DEF Letters
<1> QED BY <1>1, <1>3

\* The messages of a frame can be counted.
LEMMA AttachedIsFinite ==
  ASSUME NEW acc \in Attachment, NEW n
  PROVE  IsFiniteSet(AttachedTo(acc, n)) /\ Cardinality(AttachedTo(acc, n)) \in Nat
<1>1. DOMAIN acc.messages = 1..Len(acc.messages) /\ Len(acc.messages) \in Nat
  BY DEF Attachment
<1>2. IsFiniteSet(1..Len(acc.messages))
  BY <1>1, FS_Interval
<1>3. AttachedTo(acc, n) \subseteq 1..Len(acc.messages)
  BY <1>1 DEF AttachedTo
<1>4. IsFiniteSet(AttachedTo(acc, n))
  BY <1>2, <1>3, FS_Subset
<1> QED BY <1>4, FS_CardinalityType

\* Message x, the oldest of its kind that waits, takes frame n as a message of a kind.
Takes(acc, new, x, kind, n) ==
  /\ new.original = acc.original
  /\ new.taken = acc.taken \cup {x}
  /\ new.messages = [acc.messages EXCEPT ![x] =
                       [kind |-> kind, frame |-> n, evidence_state |-> "observed"]]
  /\ new \in Attachment
  /\ kind \in {acc.original[x].kind, "hello_retry_request"}
  /\ \A i \in DOMAIN acc.messages \ acc.taken :
       acc.original[i].kind = acc.original[x].kind => x <= i

\* One type: either nothing waits for it, or the oldest waiting message of a kind takes
\* the frame (_attach_frames).
LEMMA AttachOne ==
  ASSUME NEW acc \in Attachment, NEW type \in HandshakeType, NEW f, NEW n \in Nat,
         Len(acc.original) = Len(acc.messages)
  PROVE  \/ AttachType(acc, type, f, n) = acc
         \/ \E x \in DOMAIN acc.messages \ acc.taken :
              Takes(acc, AttachType(acc, type, f, n), x, TypeKind(type, f), n)
<1> DEFINE new == AttachType(acc, type, f, n)
           kind == TypeKind(type, f)
           target == Target(acc.original, acc.taken, kind)
           m == [kind |-> kind, frame |-> n, evidence_state |-> "observed"]
<1>1. kind \in MessageKind
  BY DEF TypeKind, MessageKind
<1>2. CASE target = {}
  BY <1>2 DEF AttachType
<1>3. CASE target # {}
  <2>1. PICK k : /\ target = Pending(acc.original, acc.taken, k)
                 /\ kind \in {k, "hello_retry_request"}
    BY DEF Target
  <2>2. target = {i \in DOMAIN acc.messages \ acc.taken : acc.original[i].kind = k}
    <3>1. DOMAIN acc.original = DOMAIN acc.messages
      BY DEF Attachment
    <3> QED BY <2>1, <3>1 DEF Pending
  <2>3. target \in SUBSET Nat
    BY <2>2 DEF Attachment
  <2> DEFINE x == Min(target)
  <2> HIDE DEF target, kind
  <2>4. x \in target /\ \A i \in target : x <= i
    BY <1>3, <2>3, MinIsLeast
  <2>5. new = [acc EXCEPT !.taken = @ \cup {x}, !.messages[x] = m]
    BY <1>3 DEF AttachType, target, kind
  <2> HIDE DEF x, new
  <2>6. m \in Message
    BY <1>1 DEF Message
  <2> HIDE DEF m
  <2>7. /\ new.original = acc.original
        /\ new.taken = acc.taken \cup {x}
        /\ new.messages = [acc.messages EXCEPT ![x] = m]
    BY <2>5 DEF Attachment
  <2>8. x \in DOMAIN acc.messages \ acc.taken /\ acc.original[x].kind = k
    BY <2>2, <2>4
  <2>9. [acc.messages EXCEPT ![x] = m] \in Seq(Message)
    BY <2>6, <2>8 DEF Attachment
  <2>10. new \in Attachment
    <3>1. x \in Nat
      BY <2>3, <2>4
    <3>2. acc.taken \cup {x} \in SUBSET Nat
      BY <3>1 DEF Attachment
    <3> QED BY <2>5, <2>9, <3>2 DEF Attachment
  <2>11. \A i \in DOMAIN acc.messages \ acc.taken :
           acc.original[i].kind = acc.original[x].kind => x <= i
    BY <2>2, <2>4, <2>8
  <2>12. Takes(acc, new, x, kind, n)
    BY <2>1, <2>7, <2>8, <2>10, <2>11 DEF m, Takes
  <2> QED BY <2>8, <2>12 DEF new, kind
<1> QED BY <1>2, <1>3

\* A new frame has no message yet, and leaves the others theirs.
LEMMA FrameKeepsFrames ==
  ASSUME FramesInv, NEW f \in HelloFrames, ReadFrame(f)
  PROVE  FramesInv'
<1>1. /\ phase = "frames" /\ phase' = "frames" /\ queue = << >> /\ frames' = Append(frames, f)
      /\ queue' = IF f.numbered THEN f.types ELSE << >>
      /\ row' = row /\ attach' = attach
  BY DEF ReadFrame
<1>2. /\ frames \in Seq(HelloFrames) /\ attach \in Attachment
      /\ Named(attach) /\ Sourced(attach, frames) /\ InOrder(attach) /\ Counted(attach, frames, queue)
  BY <1>1 DEF FramesInv
<1>3. f.types \in Seq(HandshakeType)
  BY TypesAreTypes
<1>4. /\ frames' \in Seq(HelloFrames) /\ Len(frames) \in Nat /\ Len(frames') = Len(frames) + 1
      /\ DOMAIN frames = 1..Len(frames) /\ DOMAIN frames' = 1..(Len(frames) + 1)
      /\ frames'[Len(frames) + 1] = f
      /\ \A n \in DOMAIN frames : frames'[n] = frames[n]
  BY <1>1, <1>2
<1>5. Queued(frames', queue')
  <2>1. << >> \in Seq(HandshakeType) /\ queue' \in Seq(HandshakeType)
    BY <1>1, <1>3
  <2>2. frames' # << >>
    BY <1>4
  <2>3. \A k \in DOMAIN queue' : queue'[k] \in Letters(f.types)
    BY <1>1 DEF Letters
  <2> QED BY <1>4, <2>1, <2>2, <2>3 DEF Queued
<1>6. Sourced(attach, frames')
  BY <1>2, <1>4 DEF Sourced
<1>7. Counted(attach, frames', queue')
  <2> SUFFICES ASSUME NEW n \in 1..(Len(frames) + 1)
               PROVE  Cardinality(AttachedTo(attach, n))
                        + (IF n = Len(frames') THEN Len(queue') ELSE 0) <= Len(frames'[n].types)
    BY <1>4 DEF Counted
  <2>1. CASE n = Len(frames) + 1
    <3>1. AttachedTo(attach, n) = {}
      BY <1>2, <1>4, <2>1 DEF AttachedTo, Named, Sourced
    <3>2. Len(queue') <= Len(f.types) /\ Len(queue') \in Nat
      BY <1>1, <1>3
    <3>3. Cardinality(AttachedTo(attach, n)) = 0
      BY <3>1, FS_EmptySet
    <3> QED BY <1>4, <2>1, <3>2, <3>3
  <2>2. CASE n \in DOMAIN frames
    <3> DEFINE c == Cardinality(AttachedTo(attach, n))
    <3> HIDE DEF c
    <3>1. c + (IF n = Len(frames) THEN Len(queue) ELSE 0) <= Len(frames[n].types)
      BY <1>2, <2>2 DEF Counted, c
    <3>2. Len(queue) = 0
      BY <1>1
    <3>3. frames'[n] = frames[n] /\ n # Len(frames')
      BY <1>4, <2>2
    <3> QED BY <3>1, <3>2, <3>3 DEF c
  <2> QED BY <1>4, <2>1, <2>2
<1> QED BY <1>1, <1>2, <1>4, <1>5, <1>6, <1>7 DEF FramesInv

\* Attaching a type keeps the kinds, the order and the count.
LEMMA AttachKeepsFrames ==
  ASSUME FramesInv, AttachNext
  PROVE  FramesInv'
<1> PICK n : n = Len(frames)
  OBVIOUS
<1>1. /\ phase = "frames" /\ phase' = "frames" /\ queue # << >>
      /\ queue' = Tail(queue) /\ row' = row /\ frames' = frames
      /\ attach' = AttachType(attach, Head(queue), frames[n], n)
  BY DEF AttachNext
<1>2. /\ frames \in Seq(HelloFrames) /\ row \in SslRows /\ attach \in Attachment
      /\ Len(attach.original) = Len(row.history) /\ Len(attach.messages) = Len(row.history)
      /\ Named(attach) /\ Sourced(attach, frames) /\ InOrder(attach) /\ Counted(attach, frames, queue)
      /\ Queued(frames, queue)
  BY <1>1 DEF FramesInv
<1>3. /\ queue \in Seq(HandshakeType) /\ Tail(queue) \in Seq(HandshakeType) /\ Head(queue) \in HandshakeType
      /\ Len(queue) \in Nat /\ Len(Tail(queue)) = Len(queue) - 1
      /\ n \in Nat /\ n \in DOMAIN frames
      /\ Head(queue) \in Letters(frames[n].types)
      /\ \A k \in DOMAIN Tail(queue) : Tail(queue)[k] \in Letters(frames[n].types)
  <2>1. queue \in Seq(HandshakeType) /\ frames # << >>
        /\ \A k \in DOMAIN queue : queue[k] \in Letters(frames[n].types)
    BY <1>1, <1>2 DEF Queued
  <2>2. /\ Tail(queue) \in Seq(HandshakeType) /\ Head(queue) = queue[1] /\ 1 \in DOMAIN queue
        /\ Len(queue) \in Nat /\ Len(Tail(queue)) = Len(queue) - 1
        /\ \A k \in DOMAIN Tail(queue) : k + 1 \in DOMAIN queue /\ Tail(queue)[k] = queue[k + 1]
    BY <1>1, <2>1
  <2>3. n \in Nat /\ n \in DOMAIN frames
    BY <1>2, <2>1
  <2> QED BY <2>1, <2>2, <2>3
<1>4. Queued(frames', queue')
  BY <1>1, <1>2, <1>3 DEF Queued
<1> DEFINE kind == TypeKind(Head(queue), frames[n])
           m == [kind |-> kind, frame |-> n, evidence_state |-> "observed"]
<1>5. CASE attach' = attach
  <2>1. Counted(attach, frames, Tail(queue))
    <3> SUFFICES ASSUME NEW k \in DOMAIN frames
                 PROVE  Cardinality(AttachedTo(attach, k))
                          + (IF k = Len(frames) THEN Len(Tail(queue)) ELSE 0)
                          <= Len(frames[k].types)
      BY DEF Counted
    <3> DEFINE c == Cardinality(AttachedTo(attach, k))
    <3>2. c \in Nat
      BY <1>2, AttachedIsFinite
    <3> HIDE DEF c
    <3>3. c + (IF k = Len(frames) THEN Len(queue) ELSE 0) <= Len(frames[k].types)
      BY <1>2 DEF Counted, c
    <3>4. Len(frames[k].types) \in Nat
      BY <1>2, TypesAreTypes
    <3> QED BY <1>3, <3>2, <3>3, <3>4 DEF c
  <2> QED BY <1>1, <1>2, <1>4, <1>5, <2>1 DEF FramesInv
<1>6. CASE attach' # attach
  <2>1. PICK x \in DOMAIN attach.messages \ attach.taken :
          /\ attach'.original = attach.original
          /\ attach'.taken = attach.taken \cup {x}
          /\ attach'.messages = [attach.messages EXCEPT ![x] = m]
          /\ attach' \in Attachment
          /\ kind \in {attach.original[x].kind, "hello_retry_request"}
          /\ \A i \in DOMAIN attach.messages \ attach.taken :
               attach.original[i].kind = attach.original[x].kind => x <= i
    <3> DEFINE new == AttachType(attach, Head(queue), frames[n], n)
    <3>1. attach' = new /\ Len(attach.original) = Len(attach.messages)
      BY <1>1, <1>2
    <3>2. new = attach \/ \E x \in DOMAIN attach.messages \ attach.taken :
                             Takes(attach, new, x, kind, n)
      BY <1>2, <1>3, <3>1, AttachOne
    <3> HIDE DEF new, kind
    <3>3. PICK x \in DOMAIN attach.messages \ attach.taken : Takes(attach, new, x, kind, n)
      BY <1>6, <3>1, <3>2
    <3> WITNESS x \in DOMAIN attach.messages \ attach.taken
    <3> QED BY <3>1, <3>3 DEF Takes
  <2> HIDE DEF kind
  <2>2. /\ DOMAIN attach'.messages = DOMAIN attach.messages
        /\ attach'.messages[x] = m
        /\ \A i \in DOMAIN attach.messages : i # x => attach'.messages[i] = attach.messages[i]
        /\ Len(attach'.messages) = Len(attach.messages)
        /\ DOMAIN attach.messages \subseteq Nat
    BY <1>2, <2>1 DEF Attachment
  <2>3. Named(attach')
    <3>1. m.kind = kind /\ m.frame = n
      OBVIOUS
    <3> HIDE DEF m
    <3> QED BY <1>2, <2>1, <2>2, <3>1 DEF Named
  <2>4. Sourced(attach', frames)
    <3>1. m.kind = kind /\ m.frame = n
      OBVIOUS
    <3>2. \E t \in Letters(frames[n].types) : kind = TypeKind(t, frames[n])
      BY <1>3 DEF kind
    <3> SUFFICES ASSUME NEW i \in attach.taken \cup {x}
                 PROVE  /\ attach'.messages[i].frame \in DOMAIN frames
                        /\ \E t \in Letters(frames[attach'.messages[i].frame].types) :
                             attach'.messages[i].kind = TypeKind(t, frames[attach'.messages[i].frame])
      BY <2>1 DEF Sourced
    <3> HIDE DEF m
    <3>3. CASE i = x
      BY <1>3, <2>2, <3>1, <3>2, <3>3
    <3>4. CASE i # x
      <4>1. i \in attach.taken /\ attach'.messages[i] = attach.messages[i]
        BY <1>2, <2>2, <3>4 DEF Named
      <4> QED BY <1>2, <4>1 DEF Sourced
    <3> QED BY <3>3, <3>4
  <2>5. InOrder(attach')
    <3> SUFFICES ASSUME NEW i \in DOMAIN attach.messages, NEW j \in DOMAIN attach.messages,
                        i < j, attach.original[i].kind = attach.original[j].kind,
                        j \in attach.taken \cup {x}
                 PROVE  /\ i \in attach.taken \cup {x}
                        /\ attach'.messages[i].frame <= attach'.messages[j].frame
      BY <2>1, <2>2 DEF InOrder
    <3>1. CASE j # x
      <4>1. i \in attach.taken /\ attach.messages[i].frame <= attach.messages[j].frame
        BY <1>2, <3>1 DEF InOrder
      <4>2. i # x
        BY <2>1, <4>1
      <4> QED BY <2>2, <3>1, <4>1, <4>2
    <3>2. CASE j = x
      <4>1. i # x /\ i \in attach.taken
        BY <2>1, <2>2, <3>2
      <4>2. attach.messages[i].frame \in DOMAIN frames
        BY <1>2, <4>1 DEF Sourced
      <4>3. attach.messages[i].frame <= n
        BY <1>2, <4>2
      <4> QED BY <2>2, <3>2, <4>1, <4>3
    <3> QED BY <3>1, <3>2
  <2>6. Counted(attach', frames, Tail(queue))
    <3> SUFFICES ASSUME NEW k \in DOMAIN frames
                 PROVE  Cardinality(AttachedTo(attach', k))
                          + (IF k = Len(frames) THEN Len(Tail(queue)) ELSE 0)
                          <= Len(frames[k].types)
      BY DEF Counted
    <3> DEFINE c == Cardinality(AttachedTo(attach, k))
               d == Cardinality(AttachedTo(attach', k))
    <3>1. IsFiniteSet(AttachedTo(attach, k))
      BY <1>2, AttachedIsFinite
    <3>2. c \in Nat
      BY <1>2, AttachedIsFinite
    <3>3. c + (IF k = Len(frames) THEN Len(queue) ELSE 0) <= Len(frames[k].types)
      BY <1>2 DEF Counted
    <3>4. Len(frames[k].types) \in Nat
      BY <1>2, TypesAreTypes
    <3>5. attach.messages[x].frame # k
      BY <1>2, <2>1 DEF Named
    <3>6. CASE k = n
      <4>1. AttachedTo(attach', k) = AttachedTo(attach, k) \cup {x}
        BY <2>1, <2>2, <3>6 DEF AttachedTo
      <4>2. x \notin AttachedTo(attach, k)
        BY <3>5 DEF AttachedTo
      <4>3. d = c + 1
        BY <3>1, <4>1, <4>2, FS_AddElement
      <4> HIDE DEF c, d
      <4> QED BY <1>3, <3>2, <3>3, <3>4, <3>6, <4>3 DEF d
    <3>7. CASE k # n
      <4>1. AttachedTo(attach', k) = AttachedTo(attach, k)
        BY <2>1, <2>2, <3>5, <3>7 DEF AttachedTo
      <4> QED BY <3>3, <3>7, <4>1
    <3> QED BY <3>6, <3>7
  <2> QED BY <1>1, <1>2, <1>4, <2>1, <2>2, <2>3, <2>4, <2>5, <2>6 DEF FramesInv
<1> QED BY <1>5, <1>6

\* The history's letters make the messages, none with a frame
\* (messages_from_ssl_history).
LEMMA RowStartsFrames ==
  ASSUME FramesInv, NEW r \in SslRows, ReadSslRow(r)
  PROVE  FramesInv'
<1> DEFINE h == messages_from_ssl_history(r.history)
<1>1. /\ phase = "row" /\ phase' = "frames" /\ row' = r /\ attach' = NoFrames(h)
      /\ frames' = frames /\ queue' = queue
  BY DEF ReadSslRow
<1>2. frames = << >> /\ queue = << >>
  BY <1>1 DEF FramesInv
<1>3. r.history \in Seq(DOMAIN HISTORY_KIND)
  BY RowAssumption
<1>4. \A l \in DOMAIN HISTORY_KIND : HISTORY_KIND[l] \in MessageKind
  BY DEF MessageKind
<1>5. h \in Seq(Message) /\ Len(h) = Len(r.history) /\ \A i \in DOMAIN h : h[i].frame = 0
  <2>1. \A i \in DOMAIN r.history :
          [kind |-> HISTORY_KIND[r.history[i]], frame |-> 0,
           evidence_state |-> IF r.history[i] = "flip" THEN "observed" ELSE "inferred"] \in Message
    <3> TAKE i \in DOMAIN r.history
    <3>1. HISTORY_KIND[r.history[i]] \in MessageKind
      BY <1>3, <1>4
    <3> QED BY <3>1 DEF Message
  <2>2. h = [i \in DOMAIN r.history |->
               [kind |-> HISTORY_KIND[r.history[i]], frame |-> 0,
                evidence_state |-> IF r.history[i] = "flip" THEN "observed" ELSE "inferred"]]
    BY DEF messages_from_ssl_history
  <2> HIDE DEF h
  <2>3. DOMAIN r.history = 1..Len(r.history) /\ Len(r.history) \in Nat
    BY <1>3
  <2>4. h \in [1..Len(r.history) -> Message] /\ \A i \in DOMAIN h : h[i].frame = 0
    BY <2>1, <2>2, <2>3
  <2>5. h \in Seq(Message) /\ Len(h) = Len(r.history)
    BY <2>3, <2>4
  <2> QED BY <2>4, <2>5
<1> HIDE DEF h
<1>6. attach' = [original |-> h, messages |-> h, taken |-> {}]
  BY <1>1 DEF NoFrames
<1>7. attach' \in Attachment
  BY <1>5, <1>6 DEF Attachment
<1>8. Named(attach') /\ Sourced(attach', frames) /\ InOrder(attach') /\ Counted(attach', frames, queue)
  BY <1>2, <1>5, <1>6 DEF Named, Sourced, InOrder, Counted
<1> QED BY <1>1, <1>2, <1>5, <1>6, <1>7, <1>8 DEF FramesInv

\* FramesInv is inductive.
LEMMA FramesStep == FramesInv /\ [Next]_vars => FramesInv'
<1> SUFFICES ASSUME FramesInv, [Next]_vars PROVE FramesInv'
  OBVIOUS
<1>1. CASE \E f \in HelloFrames : ReadFrame(f)
  BY <1>1, FrameKeepsFrames
<1>2. CASE AttachNext
  BY <1>2, AttachKeepsFrames
<1>3. CASE \E r \in SslRows : ReadSslRow(r)
  BY <1>3, RowStartsFrames
<1>4. CASE NormalizeHandshake
  BY <1>4 DEF FramesInv, NormalizeHandshake, handshake_from_row
<1>5. CASE \E ev \in ReconShapes : LogRecon(ev)
  BY <1>5 DEF FramesInv, LogRecon
<1>6. CASE NormalizeFlow
  BY <1>6 DEF FramesInv, NormalizeFlow
<1>7. CASE \E joined \in BOOLEAN : JoinFlow(joined)
  BY <1>7 DEF FramesInv, JoinFlow
<1>8. CASE UNCHANGED vars
  BY <1>8 DEF FramesInv, vars
<1> QED BY <1>1, <1>2, <1>3, <1>4, <1>5, <1>6, <1>7, <1>8 DEF Next

\* FramesFollowMessages for every history and any number of frames: a frame is the
\* evidence of no more messages than it carries, each of a kind it carries, and frames
\* never go back in a history (_attach_frames).
THEOREM FramesAreInOrder == Spec => []FramesFollowMessages
<1>1. Init => FramesInv
  BY DEF Init, FramesInv, Queued
<1>2. FramesInv => FramesFollowMessages
  <2> SUFFICES ASSUME FramesInv, phase = "done"
               PROVE  FramesFollowMessages
    BY DEF FramesFollowMessages, Done
  <2> DEFINE m == attach.messages
             o == attach.original
             attached(n) == {i \in DOMAIN m : m[i].frame = n}
  <2>1. /\ handshake.messages = m /\ attach \in Attachment /\ row \in SslRows
        /\ frames \in Seq(HelloFrames) /\ queue \in Seq(HandshakeType)
        /\ Len(o) = Len(row.history) /\ Len(m) = Len(row.history)
        /\ Named(attach) /\ Sourced(attach, frames) /\ InOrder(attach) /\ Counted(attach, frames, queue)
    BY DEF FramesInv, Queued
  <2>2. ASSUME NEW n \in DOMAIN frames
        PROVE  Cardinality(attached(n)) <= Len(frames[n].types)
    <3> DEFINE c == Cardinality(attached(n))
    <3>1. c + (IF n = Len(frames) THEN Len(queue) ELSE 0) <= Len(frames[n].types)
      BY <2>1 DEF Counted, AttachedTo
    <3>3. c \in Nat
      BY <2>1, AttachedIsFinite DEF AttachedTo
    <3>4. Len(frames[n].types) \in Nat /\ Len(queue) \in Nat
      BY <2>1, TypesAreTypes
    <3> HIDE DEF c
    <3> QED BY <3>1, <3>3, <3>4 DEF c
  <2>3. ASSUME NEW n \in DOMAIN frames, NEW i \in attached(n)
        PROVE  \E t \in Letters(frames[n].types) : m[i].kind = TypeKind(t, frames[n])
    <3>1. n # 0
      BY <2>1
    <3>2. i \in attach.taken
      BY <2>1, <3>1 DEF Named
    <3> QED BY <2>1, <3>2 DEF Sourced
  <2>4. ASSUME NEW i \in DOMAIN m, NEW j \in DOMAIN m,
               i < j, m[i].kind = m[j].kind, m[i].kind # "hello_retry_request", m[j].frame # 0
        PROVE  m[i].frame # 0 /\ m[i].frame <= m[j].frame
    <3>1. j \in attach.taken
      BY <2>1, <2>4 DEF Named
    <3>2. o[i].kind = m[i].kind /\ o[j].kind = m[j].kind
      BY <2>1, <2>4 DEF Named
    <3>3. i \in attach.taken /\ m[i].frame <= m[j].frame
      BY <2>1, <2>4, <3>1, <3>2 DEF InOrder
    <3>4. m[i].frame \in DOMAIN frames
      BY <2>1, <3>3 DEF Sourced
    <3>5. m[i].frame # 0
      BY <2>1, <3>4
    <3> QED BY <3>3, <3>5
  <2> HIDE DEF m
  <2> QED BY <2>1, <2>2, <2>3, <2>4 DEF FramesFollowMessages
<1> QED BY <1>1, <1>2, FramesStep, PTL DEF Spec

=============================================================================
