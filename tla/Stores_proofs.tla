----------------------------- MODULE Stores_proofs -----------------------------
(***************************************************************************)
(* The two stores that a run leaves to later runs: the report catalog and  *)
(* the window history of the advisory stage.                               *)
(*                                                                         *)
(* ReportCatalog.  For any set of cases, any readers and any number of     *)
(* publications: until the machine loses power, the catalog is readable    *)
(* between any two steps of publish_report, no reader fails, and what was  *)
(* published is served; and a catalog that a power loss has damaged is     *)
(* never silently replaced.                                                *)
(*                                                                         *)
(* Advisory.  For any captures, any limits in their order and any number   *)
(* of runs and deletions: windows.jsonl holds the newest of the windows    *)
(* appended, an anomaly has a history behind it, and a report never knows  *)
(* less history than the one before it.                                    *)
(***************************************************************************)
EXTENDS ReportCatalog, Advisory, FiniteSetTheorems, SequenceTheorems,
        WellFoundedInduction, NaturalsInduction, TLAPS

CatalogInv == TypeOK /\ CatalogIsReadable /\ PublisherInv /\ ReaderInv
                /\ ReadersNeverFail /\ PublishedIsServed

(* What the type of pub says at each control point. *)
LEMMA PubTypes ==
    ASSUME pub \in {Idle} \cup Publishing
    PROVE  /\ pub.at \in {"idle", "report", "load", "catalog"}
           /\ pub.at = "idle" <=> pub = Idle
           /\ pub.at # "idle" => pub.case \in Cases /\ pub.n \in 1..MaxPublishes
           /\ pub.at \in {"report", "load"} =>
                pub = [at |-> pub.at, case |-> pub.case, n |-> pub.n]
           /\ pub.at = "catalog" => pub.items \in SUBSET Cases
  <1>1. CASE pub = Idle
    BY <1>1 DEF Idle
  <1>2. CASE pub \in [at : {"report", "load"}, case : Cases, n : 1..MaxPublishes]
    BY <1>2 DEF Idle
  <1>3. CASE pub \in [at : {"catalog"}, case : Cases, n : 1..MaxPublishes, items : SUBSET Cases]
    BY <1>3 DEF Idle
  <1> QED
    BY <1>1, <1>2, <1>3 DEF Publishing

(* What the type of a reader says at each control point. *)
LEMMA ReadTypes ==
    ASSUME NEW x \in {Idle} \cup Reading \cup Done
    PROVE  /\ x.at = "report" => x.case \in Cases /\ x.floor \in 0..MaxPublishes
           /\ x.at = "sizes" => x.paths \in SUBSET Cases /\ x.floor \in SUBSET Cases
           /\ x.at = "got" => x.content \in Contents /\ x.floor \in 0..MaxPublishes
           /\ x.at = "listed" => x.cases \in SUBSET Cases /\ x.floor \in SUBSET Cases
  <1>1. CASE x = Idle
    BY <1>1 DEF Idle
  <1>2. CASE x \in [at : {"report"}, case : Cases, floor : 0..MaxPublishes]
    BY <1>2
  <1>3. CASE x \in [at : {"sizes"}, paths : SUBSET Cases, floor : SUBSET Cases]
    BY <1>3
  <1>4. CASE x \in [at : {"got"}, content : Contents, floor : 0..MaxPublishes]
    BY <1>4
  <1>5. CASE x \in [at : {"listed"}, cases : SUBSET Cases, floor : SUBSET Cases]
    BY <1>5
  <1>6. CASE x \in [at : {"error"}]
    BY <1>6
  <1> QED
    BY <1>1, <1>2, <1>3, <1>4, <1>5, <1>6 DEF Reading, Done

(* The empty catalog of a fresh report root satisfies everything. *)
LEMMA InitCatalog == Init => CatalogInv
  <1> SUFFICES ASSUME Init PROVE CatalogInv
    OBVIOUS
  <1> USE BoundsAssumption
  <1>1. Cardinality({}) = 0
    BY FS_EmptySet
  <1>2. TypeOK
    BY DEF Init, TypeOK, Contents, NoReport, CatalogFile, EmptyCatalog
  <1>3. CatalogIsReadable
    BY <1>1 DEF Init, CatalogIsReadable, _load_catalog_paths, EmptyCatalog
  <1>4. PublisherInv /\ ReaderInv /\ ReadersNeverFail /\ PublishedIsServed
    BY DEF Init, PublisherInv, ReaderInv, ReadersNeverFail, PublishedIsServed, Idle, NoReport
  <1> QED
    BY <1>2, <1>3, <1>4 DEF CatalogInv

(* Every step keeps the types, a power loss included. *)
LEMMA TypeStep == TypeOK /\ [Next]_vars => TypeOK'
  <1> SUFFICES ASSUME TypeOK, [Next]_vars PROVE TypeOK'
    OBVIOUS
  <1> USE BoundsAssumption DEF TypeOK
  <1>1. pub \in {Idle} \cup Publishing /\ catalog \in CatalogFile
    OBVIOUS
  <1>2. ASSUME NEW c \in Cases, StartPublish(c) PROVE TypeOK'
    BY <1>2 DEF StartPublish, Publishing
  <1>3. CASE ReplaceReport
    <2>1. /\ pub.case \in Cases /\ pub.n \in 1..MaxPublishes
          /\ pub = [at |-> "report", case |-> pub.case, n |-> pub.n]
      BY <1>1, <1>3, PubTypes DEF ReplaceReport
    <2>2. pub' = [at |-> "load", case |-> pub.case, n |-> pub.n]
      BY <1>3, <2>1 DEF ReplaceReport
    <2>3. pub' \in Publishing
      BY <2>1, <2>2 DEF Publishing
    <2> QED
      BY <1>3, <2>1, <2>3 DEF ReplaceReport, Contents
  <1>4. CASE LoadItems
    <2>1. pub.case \in Cases /\ pub.n \in 1..MaxPublishes
      BY <1>1, <1>4, PubTypes DEF LoadItems
    <2> QED
      BY <1>1, <1>4, <2>1 DEF LoadItems, Publishing, Items, CatalogFile
  <1>5. CASE ReplaceCatalog
    <2>1. pub.case \in Cases /\ pub.n \in 1..MaxPublishes /\ pub.items \in SUBSET Cases
      BY <1>1, <1>5, PubTypes DEF ReplaceCatalog
    <2> QED
      BY <1>5, <2>1 DEF ReplaceCatalog, CatalogFile
  <1>6. CASE StopPublish
    BY <1>6 DEF StopPublish
  <1>7. ASSUME NEW r \in Readers, NEW a \in {Idle} \cup Reading \cup Done, Answer(r, a)
        PROVE  TypeOK'
    BY <1>7 DEF Answer
  <1>8. [at |-> "error"] \in Done
    BY DEF Done
  <1>9. ASSUME NEW r \in Readers, NEW c \in Cases, get_report(r, c) PROVE TypeOK'
    <2>1. [at |-> "report", case |-> c, floor |-> acked[c]] \in Reading
      BY DEF Reading
    <2>2. [at |-> "got", content |-> NoReport, floor |-> acked[c]] \in Done
      BY DEF Done, Contents, NoReport
    <2> QED
      BY <1>7, <1>9, <2>1, <2>2 DEF get_report
  <1>10. ASSUME NEW r \in Readers, CatalogRaises(r) PROVE TypeOK'
    BY <1>7, <1>8, <1>10 DEF CatalogRaises
  <1>11. ASSUME NEW r \in Readers, ReadReport(r) PROVE TypeOK'
    <2>1. read[r].case \in Cases /\ read[r].floor \in 0..MaxPublishes
      BY <1>11, ReadTypes DEF ReadReport
    <2>2. [at |-> "got", content |-> report[read[r].case], floor |-> read[r].floor] \in Done
      BY <2>1 DEF Done
    <2> QED
      BY <1>7, <1>8, <1>11, <2>2 DEF ReadReport
  <1>12. ASSUME NEW r \in Readers, list_reports(r) PROVE TypeOK'
    <2>1. [at |-> "sizes", paths |-> catalog.cases, floor |-> {c \in Cases : acked[c] > 0}]
             \in Reading
      BY <1>1 DEF Reading, CatalogFile
    <2> QED
      BY <1>7, <1>12, <2>1 DEF list_reports
  <1>13. ASSUME NEW r \in Readers, SafeSizes(r) PROVE TypeOK'
    <2>1. read[r].paths \in SUBSET Cases /\ read[r].floor \in SUBSET Cases
      BY <1>13, ReadTypes DEF SafeSizes
    <2>2. [at |-> "listed", cases |-> read[r].paths, floor |-> read[r].floor] \in Done
      BY <2>1 DEF Done
    <2> QED
      BY <1>7, <1>8, <1>13, <2>2 DEF SafeSizes
  <1>14. ASSUME NEW r \in Readers, NextRequest(r) PROVE TypeOK'
    BY <1>7, <1>14 DEF NextRequest
  <1>15. CASE Writeback
    BY <1>15 DEF Writeback
  <1>16. CASE PowerLoss
    <2>1. report' \in [Cases -> Contents]
      BY <1>16 DEF PowerLoss
    <2>2. catalog' \in CatalogFile
      <3>1. catalog' \in {disk.catalog, catalog, Garbage}
        BY <1>16 DEF PowerLoss, Survivors
      <3>2. disk.catalog \in CatalogFile /\ Garbage \in CatalogFile
        BY DEF Garbage, CatalogFile
      <3> QED
        BY <1>1, <3>1, <3>2
    <2> QED
      BY <1>16, <2>1, <2>2 DEF PowerLoss
  <1>17. CASE UNCHANGED vars
    BY <1>17 DEF vars
  <1> QED
    BY <1>2, <1>3, <1>4, <1>5, <1>6, <1>9, <1>10, <1>11, <1>12, <1>13, <1>14, <1>15, <1>16, <1>17
       DEF Next

(* Power losses are counted, so the invariant asks nothing after the first. *)
LEMMA LossesStay == TypeOK /\ [Next]_vars /\ losses # 0 => losses' # 0
  <1>1. TypeOK /\ PowerLoss => losses' # 0
    BY BoundsAssumption DEF TypeOK, PowerLoss
  <1>2. [Next]_vars => PowerLoss \/ losses' = losses
    BY DEF Next, vars, StartPublish, ReplaceReport, LoadItems, ReplaceCatalog, StopPublish,
           get_report, CatalogRaises, ReadReport, list_reports, SafeSizes, NextRequest, Answer,
           Writeback
  <1> QED
    BY <1>1, <1>2

(* A step that changes nothing. *)
LEMMA CatalogStutter == CatalogInv /\ UNCHANGED vars => CatalogInv'
  BY DEF CatalogInv, vars, TypeOK, CatalogIsReadable, _load_catalog_paths, PublisherInv,
         Items, ReaderInv, ReadersNeverFail, PublishedIsServed

(* publish_report keeps the invariant at each of its steps. *)
LEMMA PublisherStep ==
    ASSUME CatalogInv, losses = 0,
           \/ \E c \in Cases : StartPublish(c)
           \/ ReplaceReport \/ LoadItems \/ ReplaceCatalog \/ StopPublish
    PROVE  CatalogInv'
  <1> USE BoundsAssumption DEF CatalogInv
  <1>1. pub \in {Idle} \cup Publishing
    BY DEF TypeOK
  <1>2. /\ report \in [Cases -> Contents] /\ acked \in [Cases -> 0..MaxPublishes]
        /\ issued \in 0..MaxPublishes /\ catalog \in CatalogFile
    BY DEF TypeOK
  <1>3. \A r \in Readers : read[r] \in {Idle} \cup Reading \cup Done
    BY DEF TypeOK
  <1>4. ASSUME NEW c \in Cases, StartPublish(c) PROVE CatalogInv'
    <2>1. TypeOK'
      BY <1>4, <1>1, <1>2 DEF StartPublish, TypeOK, Publishing
    <2>2. PublisherInv'
      BY <1>4, <1>2 DEF StartPublish, PublisherInv, Contents, Idle
    <2> QED
      BY <1>4, <2>1, <2>2 DEF StartPublish, CatalogIsReadable, _load_catalog_paths, ReaderInv,
                              ReadersNeverFail, PublishedIsServed
  <1>5. CASE ReplaceReport
    <2>1. /\ pub.case \in Cases /\ pub.n \in 1..MaxPublishes /\ pub.n = issued
          /\ pub = [at |-> "report", case |-> pub.case, n |-> pub.n]
      BY <1>1, <1>5, PubTypes DEF ReplaceReport, PublisherInv, Idle
    <2>2. pub' = [at |-> "load", case |-> pub.case, n |-> pub.n]
      BY <1>5, <2>1 DEF ReplaceReport
    <2>3. \A c \in Cases : report'[c] \in Contents /\ report[c] <= report'[c]
                           /\ report'[c] <= issued /\ (c = pub.case => report'[c] = issued)
      BY <1>5, <1>2, <2>1 DEF ReplaceReport, PublisherInv, Contents
    <2>4. report' \in [Cases -> Contents]
      BY <1>5, <1>2, <2>1 DEF ReplaceReport, Contents
    <2>5. TypeOK'
      BY <1>5, <2>1, <2>2, <2>4 DEF ReplaceReport, TypeOK, Publishing
    <2>6. CatalogIsReadable'
      BY <1>5, <1>2, <2>3 DEF ReplaceReport, CatalogIsReadable, _load_catalog_paths, Contents,
                              CatalogFile
    <2>7. PublisherInv'
      BY <1>5, <2>1, <2>2, <2>3 DEF ReplaceReport, PublisherInv, Idle
    <2>8. ReaderInv'
      <3> SUFFICES ASSUME NEW r \in Readers
                   PROVE  /\ read[r].at = "report" => /\ read[r].case \in catalog.cases
                                                      /\ read[r].floor <= report'[read[r].case]
                          /\ read[r].at = "sizes" => /\ read[r].paths \subseteq catalog.cases
                                                     /\ read[r].floor \subseteq read[r].paths
        BY <1>5 DEF ReplaceReport, ReaderInv
      <3>1. CASE read[r].at = "report"
        <4>1. read[r].case \in Cases /\ read[r].floor \in 0..MaxPublishes
          BY <3>1, <1>3, ReadTypes
        <4>2. report[read[r].case] \in Int /\ report'[read[r].case] \in Int
          BY <4>1, <1>2, <2>3 DEF Contents
        <4> QED
          BY <3>1, <4>1, <4>2, <2>3 DEF ReaderInv
      <3> QED
        BY <3>1 DEF ReaderInv
    <2> QED
      BY <1>5, <2>5, <2>6, <2>7, <2>8 DEF ReplaceReport, ReadersNeverFail, PublishedIsServed
  <1>6. CASE LoadItems
    <2>1. pub.case \in Cases /\ pub.n \in 1..MaxPublishes /\ pub.n = issued
      BY <1>1, <1>6, PubTypes DEF LoadItems, PublisherInv, Idle
    <2>2. Items \in SUBSET Cases
      BY <1>2, <2>1 DEF Items, CatalogFile
    <2>3. /\ pub'.at = "catalog" /\ pub'.case = pub.case /\ pub'.n = pub.n
          /\ pub'.items = Items /\ Items' = Items
      BY <1>6 DEF LoadItems, Items
    <2>4. TypeOK'
      BY <1>6, <2>1, <2>2 DEF LoadItems, TypeOK, Publishing
    <2>5. PublisherInv'
      BY <1>6, <2>1, <2>3 DEF LoadItems, PublisherInv
    <2> QED
      BY <1>6, <2>4, <2>5 DEF LoadItems, CatalogIsReadable, _load_catalog_paths, ReaderInv,
                              ReadersNeverFail, PublishedIsServed
  <1>7. CASE ReplaceCatalog
    <2>1. /\ pub.case \in Cases /\ pub.n \in 1..MaxPublishes /\ pub.n = issued
          /\ pub.items \in SUBSET Cases /\ pub.items = catalog.cases \cup {pub.case}
          /\ Cardinality(pub.items) <= MaxReports /\ report[pub.case] = pub.n
      BY <1>1, <1>7, PubTypes DEF ReplaceCatalog, PublisherInv, Idle, Items
    <2>2. catalog'.valid /\ catalog'.cases = catalog.cases \cup {pub.case}
      BY <1>7, <2>1 DEF ReplaceCatalog
    <2>3. \A c \in Cases : acked'[c] = IF c = pub.case THEN issued ELSE acked[c]
      BY <1>7, <1>2, <2>1 DEF ReplaceCatalog
    <2>4. TypeOK'
      BY <1>7, <1>2, <2>1 DEF ReplaceCatalog, TypeOK, CatalogFile
    <2>5. CatalogIsReadable'
      BY <1>7, <1>2, <2>1, <2>2, <2>3
         DEF ReplaceCatalog, CatalogIsReadable, _load_catalog_paths, CatalogFile
    <2>6. PublisherInv'
      BY <1>7, <1>2, <2>3 DEF ReplaceCatalog, PublisherInv, Idle
    <2>7. ReaderInv'
      BY <1>7, <2>2 DEF ReplaceCatalog, ReaderInv
    <2> QED
      BY <1>7, <2>4, <2>5, <2>6, <2>7 DEF ReplaceCatalog, ReadersNeverFail, PublishedIsServed
  <1>8. CASE StopPublish
    <2>1. TypeOK' /\ PublisherInv'
      BY <1>8 DEF StopPublish, TypeOK, PublisherInv, Idle
    <2> QED
      BY <1>8, <2>1 DEF StopPublish, CatalogIsReadable, _load_catalog_paths, ReaderInv,
                        ReadersNeverFail, PublishedIsServed
  <1> QED
    BY <1>4, <1>5, <1>6, <1>7, <1>8

(* A reader changes its own local state only, so it is enough to look at it. *)
LEMMA AnswerStep ==
    ASSUME CatalogInv, losses = 0, NEW r \in Readers, NEW a, Answer(r, a),
           a \in {Idle} \cup Reading \cup Done,
           a.at # "error",
           a.at = "got" => a.content >= a.floor,
           a.at = "listed" => a.floor \subseteq a.cases,
           a.at = "report" => a.case \in catalog.cases /\ a.floor <= report[a.case],
           a.at = "sizes" => a.paths \subseteq catalog.cases /\ a.floor \subseteq a.paths
    PROVE  CatalogInv'
  <1> USE DEF CatalogInv
  <1>1. \A q \in Readers : read'[q] = IF q = r THEN a ELSE read[q]
    BY DEF Answer, TypeOK
  <1>2. TypeOK'
    BY DEF Answer, TypeOK
  <1>3. CatalogIsReadable' /\ PublisherInv'
    BY DEF Answer, CatalogIsReadable, _load_catalog_paths, PublisherInv, Items
  <1>4. ReaderInv'
    BY <1>1 DEF Answer, ReaderInv
  <1>5. ReadersNeverFail' /\ PublishedIsServed'
    BY <1>1 DEF ReadersNeverFail, PublishedIsServed
  <1> QED
    BY <1>2, <1>3, <1>4, <1>5

(* get_report and list_reports keep the invariant at each of their steps. *)
LEMMA ReaderStep ==
    ASSUME CatalogInv, losses = 0, NEW r \in Readers,
           \/ \E c \in Cases : get_report(r, c)
           \/ CatalogRaises(r) \/ ReadReport(r) \/ list_reports(r) \/ SafeSizes(r)
           \/ NextRequest(r)
    PROVE  CatalogInv'
  <1> USE BoundsAssumption
  <1>1. /\ report \in [Cases -> Contents] /\ acked \in [Cases -> 0..MaxPublishes]
        /\ catalog \in CatalogFile /\ read[r] \in {Idle} \cup Reading \cup Done
    BY DEF CatalogInv, TypeOK
  <1>2. _load_catalog_paths /\ \A c \in catalog.cases : report[c] >= 1 /\ report[c] >= acked[c]
    BY DEF CatalogInv, CatalogIsReadable
  <1>3. \A c \in Cases : acked[c] > 0 => c \in catalog.cases
    BY DEF CatalogInv, CatalogIsReadable
  <1>4. catalog.cases \in SUBSET Cases
    BY <1>1 DEF CatalogFile
  <1>5. ASSUME NEW c \in Cases, get_report(r, c) PROVE CatalogInv'
    <2>1. CASE c \in catalog.cases /\ Answer(r, [at |-> "report", case |-> c, floor |-> acked[c]])
      <3> DEFINE a == [at |-> "report", case |-> c, floor |-> acked[c]]
      <3>1. a \in Reading /\ a.at = "report" /\ a.case = c /\ a.floor = acked[c]
        BY <1>1 DEF Reading
      <3>2. acked[c] <= report[c]
        BY <1>1, <1>2, <2>1 DEF Contents
      <3> HIDE DEF a
      <3> QED
        BY <2>1, <3>1, <3>2, AnswerStep DEF a
    <2>2. CASE c \notin catalog.cases
               /\ Answer(r, [at |-> "got", content |-> NoReport, floor |-> acked[c]])
      <3> DEFINE a == [at |-> "got", content |-> NoReport, floor |-> acked[c]]
      <3>1. a \in Done /\ a.at = "got" /\ a.content = 0 /\ a.floor = acked[c]
        BY <1>1 DEF Done, Contents, NoReport
      <3>2. acked[c] = 0
        BY <1>1, <1>3, <2>2
      <3> HIDE DEF a
      <3> QED
        BY <2>2, <3>1, <3>2, AnswerStep DEF a
    <2> QED
      BY <1>5, <2>1, <2>2 DEF get_report
  <1>6. CASE CatalogRaises(r)
    BY <1>2, <1>6 DEF CatalogRaises
  <1>7. CASE ReadReport(r)
    <2> DEFINE c == read[r].case
               a == [at |-> "got", content |-> report[c], floor |-> read[r].floor]
    <2>1. /\ c \in Cases /\ c \in catalog.cases
          /\ read[r].floor \in 0..MaxPublishes /\ read[r].floor <= report[c]
      BY <1>7, <1>1, ReadTypes DEF ReadReport, CatalogInv, ReaderInv
    <2>2. report[c] \in Contents /\ report[c] >= 1
      BY <1>1, <1>2, <2>1
    <2>3. a \in Done /\ a.at = "got" /\ a.content = report[c] /\ a.floor = read[r].floor
      BY <2>1, <2>2 DEF Done
    <2>4. a.content >= a.floor
      BY <2>1, <2>2, <2>3 DEF Contents
    <2>5. Answer(r, a)
      BY <1>7, <2>2 DEF ReadReport, NoReport, Contents
    <2> HIDE DEF a
    <2> QED
      BY <2>3, <2>4, <2>5, AnswerStep
  <1>8. CASE list_reports(r)
    <2> DEFINE f == {c \in Cases : acked[c] > 0}
               a == [at |-> "sizes", paths |-> catalog.cases, floor |-> f]
    <2>1. f \subseteq catalog.cases
      BY <1>3
    <2>2. a \in Reading /\ a.at = "sizes" /\ a.paths = catalog.cases /\ a.floor = f
      BY <1>4 DEF Reading
    <2>3. Answer(r, a)
      BY <1>8 DEF list_reports
    <2> HIDE DEF a
    <2> QED
      BY <2>1, <2>2, <2>3, AnswerStep
  <1>9. CASE SafeSizes(r)
    <2> DEFINE a == [at |-> "listed", cases |-> read[r].paths, floor |-> read[r].floor]
    <2>1. /\ read[r].paths \in SUBSET Cases /\ read[r].floor \in SUBSET Cases
          /\ read[r].paths \subseteq catalog.cases /\ read[r].floor \subseteq read[r].paths
      BY <1>9, <1>1, ReadTypes DEF SafeSizes, CatalogInv, ReaderInv
    <2>2. {c \in read[r].paths : report[c] = NoReport} = {}
      BY <1>1, <1>2, <2>1 DEF Contents, NoReport
    <2>3. a \in Done /\ a.at = "listed" /\ a.cases = read[r].paths /\ a.floor = read[r].floor
      BY <2>1 DEF Done
    <2>4. Answer(r, a)
      BY <1>9, <2>2 DEF SafeSizes
    <2> HIDE DEF a
    <2> QED
      BY <2>1, <2>3, <2>4, AnswerStep
  <1>10. CASE NextRequest(r)
    <2>1. Idle.at = "idle"
      BY DEF Idle
    <2> QED
      BY <1>10, <2>1, AnswerStep DEF NextRequest
  <1> QED
    BY <1>5, <1>6, <1>7, <1>8, <1>9, <1>10

(* Writeback changes nothing a process can see. *)
LEMMA WritebackStep == CatalogInv /\ Writeback => CatalogInv'
  <1> SUFFICES ASSUME CatalogInv, Writeback PROVE CatalogInv'
    OBVIOUS
  <1> USE DEF CatalogInv
  <1>1. TypeOK'
    BY DEF Writeback, TypeOK
  <1> QED
    BY <1>1 DEF Writeback, CatalogIsReadable, _load_catalog_paths, PublisherInv, Items,
                ReaderInv, ReadersNeverFail, PublishedIsServed

(* Every step keeps the invariant. *)
LEMMA CatalogSteps == Spec => []CatalogInv
  <1>1. CatalogInv /\ [Next]_vars => CatalogInv'
    <2> SUFFICES ASSUME CatalogInv, [Next]_vars PROVE CatalogInv'
      OBVIOUS
    <2>1. TypeOK'
      BY TypeStep DEF CatalogInv
    <2>2. CASE losses' # 0
      BY <2>1, <2>2 DEF CatalogInv, CatalogIsReadable, PublisherInv, ReaderInv,
                        ReadersNeverFail, PublishedIsServed
    <2>3. CASE losses' = 0
      <3>1. losses = 0
        BY <2>3, LossesStay DEF CatalogInv
      <3>2. ~ PowerLoss
        BY <2>3, <3>1 DEF PowerLoss
      <3> QED
        BY <3>1, <3>2, PublisherStep, ReaderStep, WritebackStep, CatalogStutter DEF Next
    <2> QED
      BY <2>2, <2>3
  <1> QED
    BY <1>1, InitCatalog, PTL DEF Spec

(* While the machine stays up, catalog.json is valid, within its limit and    *)
(* names only complete report files, between any two steps of publish_report  *)
(* and after any crash of the worker.                                         *)
THEOREM CatalogAlwaysReadable == Spec => []CatalogIsReadable
  <1>1. CatalogInv => CatalogIsReadable
    BY DEF CatalogInv
  <1> QED
    BY <1>1, CatalogSteps, PTL

(* While the machine stays up, no get_report or list_reports fails.           *)
THEOREM ReadsSucceed == Spec => []ReadersNeverFail
  <1>1. CatalogInv => ReadersNeverFail
    BY DEF CatalogInv
  <1> QED
    BY <1>1, CatalogSteps, PTL

(* While the machine stays up, a read that starts after publish_report        *)
(* returned serves what it published, or something newer of the same case.    *)
THEOREM ReadsSeePublications == Spec => []PublishedIsServed
  <1>1. CatalogInv => PublishedIsServed
    BY DEF CatalogInv
  <1> QED
    BY <1>1, CatalogSteps, PTL

(* publish_report is past loading the catalog only if that was valid, and     *)
(* only a power loss, which ends the call, can make it invalid.               *)
LoadedWasValid == pub.at = "catalog" => catalog.valid

(* Every step keeps it. *)
LEMMA LoadedSteps == Spec => []LoadedWasValid
  <1>1. Init => LoadedWasValid
    BY DEF Init, LoadedWasValid, Idle
  <1>2. TypeOK /\ LoadedWasValid /\ [Next]_vars => LoadedWasValid'
    <2> SUFFICES ASSUME TypeOK, LoadedWasValid, [Next]_vars PROVE LoadedWasValid'
      OBVIOUS
    <2>1. CASE ReplaceReport
      <3>1. pub = [at |-> "report", case |-> pub.case, n |-> pub.n]
        BY <2>1, PubTypes DEF ReplaceReport, TypeOK
      <3>2. pub'.at = "load"
        BY <2>1, <3>1 DEF ReplaceReport
      <3> QED
        BY <3>2 DEF LoadedWasValid
    <2>2. CASE PowerLoss
      BY <2>2 DEF PowerLoss, LoadedWasValid, Idle
    <2>3. CASE ~ ReplaceReport /\ ~ PowerLoss
      BY <2>3 DEF LoadedWasValid, Next, vars, StartPublish, LoadItems, ReplaceCatalog, StopPublish,
                  Idle, get_report, CatalogRaises, ReadReport, list_reports, SafeSizes,
                  NextRequest, Answer, Writeback
    <2> QED
      BY <2>1, <2>2, <2>3
  <1>3. CatalogInv => TypeOK
    BY DEF CatalogInv
  <1> QED
    BY <1>1, <1>2, <1>3, CatalogSteps, PTL DEF Spec

(* An invalid catalog.json stays as it is until it is repaired: publish_report *)
(* raises and never puts a catalog in its place that has lost older cases.     *)
THEOREM DamageStaysVisible == Spec => DamageIsNeverHidden
  <1>1. LoadedWasValid /\ [Next]_vars =>
            [~ catalog.valid => catalog' = catalog \/ losses' # losses]_vars
    <2> SUFFICES ASSUME LoadedWasValid, Next, ~ catalog.valid, losses' = losses,
                        catalog' # catalog
                 PROVE  FALSE
      OBVIOUS
    <2>1. CASE ReplaceCatalog
      BY <2>1 DEF ReplaceCatalog, LoadedWasValid
    <2>2. CASE PowerLoss
      BY <2>2 DEF PowerLoss
    <2> QED
      BY <2>1, <2>2 DEF Next, StartPublish, ReplaceReport, LoadItems, StopPublish, get_report,
                        CatalogRaises, ReadReport, list_reports, SafeSizes, NextRequest, Answer,
                        Writeback
  <1> QED
    BY <1>1, LoadedSteps, PTL DEF Spec, DamageIsNeverHidden

-----------------------------------------------------------------------------
(* The advisory stage: the least member of a set of numbers.              *)

LEMMA LeastExists ==
  ASSUME NEW S \in SUBSET Nat, S # {}
  PROVE  \E m \in S : \A x \in S : m <= x
<1>1. PICK m \in S : \A x \in S : ~(<<x, m>> \in OpToRel(<, Nat))
  BY NatLessThanWellFounded, WFMin
<1>2. \A x \in S : ~(x < m)
  BY <1>1 DEF OpToRel
<1> QED BY <1>2

-----------------------------------------------------------------------------
(* The newest windows of a list.                                           *)

\* A place and a responder for each window.
Stamped(s) == \A i \in DOMAIN s : s[i].day \in Nat /\ s[i].endpoint \in Nat

\* Oldest first, and one window of a responder per day.
Rising(s) == \A i, j \in DOMAIN s : i < j => Older(s[i], s[j])

\* How many of N windows are too many.
Excess(N, n) == IF N <= n THEN 0 ELSE N - n

LEMMA NewestIs ==
  ASSUME NEW W, NEW s \in Seq(W), NEW n \in Nat
  PROVE  /\ Newest(s, n) \in Seq(W) /\ Excess(Len(s), n) \in 0..Len(s)
         /\ Len(Newest(s, n)) = Len(s) - Excess(Len(s), n)
         /\ \A i \in 1..(Len(s) - Excess(Len(s), n)) : Newest(s, n)[i] = s[Excess(Len(s), n) + i]
<1>1. Len(s) \in Nat /\ \A i \in 1..Len(s) : s[i] \in W
  OBVIOUS
<1>2. CASE Len(s) <= n
  BY <1>1, <1>2 DEF Newest, Excess
<1>3. CASE ~(Len(s) <= n)
  <2> DEFINE N == Len(s)
             m == N - n + 1
             t == SubSeq(s, m, N)
  <2>1. N \in Nat /\ m \in Int /\ m >= 1 /\ Excess(N, n) = N - n /\ Excess(N, n) \in 0..N
    BY <1>1, <1>3 DEF Excess
  <2>2. \A i \in m..N : s[i] \in W
    BY <1>1, <2>1
  <2>3. Newest(s, n) = t
    BY <1>3 DEF Newest
  <2> HIDE DEF N
  <2>4. /\ t \in Seq(W) /\ Len(t) = (IF m <= N THEN N - m + 1 ELSE 0)
        /\ \A i \in 1..(N - m + 1) : t[i] = s[m + i - 1]
    BY <2>1, <2>2, SubSeqProperties
  <2> HIDE DEF t
  <2>5. Len(t) = N - Excess(N, n)
    BY <2>1, <2>4
  <2>6. ASSUME NEW i \in 1..(N - Excess(N, n)) PROVE t[i] = s[Excess(N, n) + i]
    <3>1. i \in 1..(N - m + 1) /\ m + i - 1 = Excess(N, n) + i
      BY <2>1
    <3> QED BY <2>4, <3>1
  <2> QED BY <2>1, <2>3, <2>4, <2>5, <2>6 DEF N
<1> QED BY <1>2, <1>3

\* Cutting a history before and after more windows come is the same as cutting it once
\* (append_windows).
LEMMA NewestAgain ==
  ASSUME NEW W, NEW s \in Seq(W), NEW t \in Seq(W), NEW n \in Nat
  PROVE  Newest(Newest(s, n) \o t, n) = Newest(s \o t, n)
<1> DEFINE a == Newest(s, n)
           l == a \o t
           r == s \o t
           ca == Excess(Len(s), n)
           cl == Excess(Len(l), n)
           cr == Excess(Len(r), n)
<1>1. /\ a \in Seq(W) /\ Len(a) = Len(s) - ca
      /\ \A i \in 1..(Len(s) - ca) : a[i] = s[ca + i]
  BY NewestIs
<1> HIDE DEF a
<1>2. l \in Seq(W) /\ Len(l) = Len(a) + Len(t)
      /\ \A i \in 1..(Len(a) + Len(t)) : l[i] = IF i <= Len(a) THEN a[i] ELSE t[i - Len(a)]
  BY <1>1, ConcatProperties
<1>3. r \in Seq(W) /\ Len(r) = Len(s) + Len(t)
      /\ \A i \in 1..(Len(s) + Len(t)) : r[i] = IF i <= Len(s) THEN s[i] ELSE t[i - Len(s)]
  BY ConcatProperties
<1> HIDE DEF l, r
<1>4. /\ Newest(l, n) \in Seq(W) /\ Len(Newest(l, n)) = Len(l) - cl
      /\ \A i \in 1..(Len(l) - cl) : Newest(l, n)[i] = l[cl + i]
  <2>1. l \in Seq(W)
    BY <1>2
  <2> QED BY <2>1, NewestIs
<1>5. /\ Newest(r, n) \in Seq(W) /\ Len(Newest(r, n)) = Len(r) - cr
      /\ \A i \in 1..(Len(r) - cr) : Newest(r, n)[i] = r[cr + i]
  <2>1. r \in Seq(W)
    BY <1>3
  <2> QED BY <2>1, NewestIs
<1>6. Len(s) \in Nat /\ Len(t) \in Nat /\ Len(a) \in Nat /\ Len(l) \in Nat /\ Len(r) \in Nat
  BY <1>1, <1>2, <1>3
<1>7. Len(l) - cl = Len(r) - cr /\ cr = cl + ca /\ cl \in Nat /\ ca \in Nat /\ cr \in Nat
  <2>1. Len(a) = Len(s) - ca /\ Len(l) = Len(a) + Len(t) /\ Len(r) = Len(s) + Len(t)
    BY <1>1, <1>2, <1>3
  <2>2. ca = IF Len(s) <= n THEN 0 ELSE Len(s) - n
    BY DEF Excess
  <2>3. cl = IF Len(l) <= n THEN 0 ELSE Len(l) - n
    BY DEF Excess
  <2>4. cr = IF Len(r) <= n THEN 0 ELSE Len(r) - n
    BY DEF Excess
  <2> HIDE DEF ca, cl, cr
  <2>5. ca \in Nat /\ cl \in Nat /\ cr \in Nat
    BY <1>6, <2>2, <2>3, <2>4
  <2>6. CASE Len(s) <= n
    BY <1>6, <2>1, <2>2, <2>3, <2>4, <2>5, <2>6
  <2>7. CASE ~(Len(s) <= n)
    <3>1. Len(a) = n /\ ca = Len(s) - n /\ cl = Len(l) - n /\ cr = Len(r) - n
      BY <1>6, <2>1, <2>2, <2>3, <2>4, <2>5, <2>7
    <3>2. cl = Len(t) /\ cr = Len(s) + Len(t) - n
      BY <1>6, <2>1, <3>1
    <3>3. cr = cl + ca
      BY <1>6, <3>1, <3>2
    <3>4. Len(l) - cl = n /\ Len(r) - cr = n
      BY <1>6, <2>1, <3>1, <3>2
    <3> QED BY <2>5, <3>3, <3>4
  <2> QED BY <2>6, <2>7
<1>8. cr <= Len(r)
  BY <1>6 DEF Excess
<1> HIDE DEF ca, cl, cr
<1>9. ASSUME NEW i \in 1..(Len(r) - cr) PROVE l[cl + i] = r[cr + i]
  <2>1. cl + i \in 1..(Len(a) + Len(t)) /\ cr + i \in 1..(Len(s) + Len(t))
    BY <1>2, <1>3, <1>6, <1>7, <1>8
  <2>2. Len(a) = Len(s) - ca
    BY <1>1
  <2>3. CASE cl + i <= Len(a)
    <3>1. cl + i \in 1..(Len(s) - ca) /\ cr + i <= Len(s) /\ ca + (cl + i) = cr + i
      BY <1>6, <1>7, <2>2, <2>3
    <3>2. l[cl + i] = a[cl + i] /\ r[cr + i] = s[cr + i]
      BY <1>2, <1>3, <2>1, <2>3, <3>1
    <3>3. a[cl + i] = s[ca + (cl + i)]
      BY <1>1, <3>1
    <3> QED BY <3>1, <3>2, <3>3
  <2>4. CASE ~(cl + i <= Len(a))
    <3>1. ~(cr + i <= Len(s)) /\ (cl + i) - Len(a) = (cr + i) - Len(s)
      BY <1>6, <1>7, <2>2, <2>4
    <3>2. l[cl + i] = t[(cl + i) - Len(a)] /\ r[cr + i] = t[(cr + i) - Len(s)]
      BY <1>2, <1>3, <2>1, <2>4, <3>1
    <3> QED BY <3>1, <3>2
  <2> QED BY <2>3, <2>4
<1>10. \A i \in 1..Len(Newest(l, n)) : Newest(l, n)[i] = Newest(r, n)[i]
  BY <1>4, <1>5, <1>7, <1>9
<1>11. Len(Newest(l, n)) = Len(Newest(r, n))
  BY <1>4, <1>5, <1>7
<1>12. Newest(l, n) = Newest(r, n)
  BY <1>4, <1>5, <1>10, <1>11, SeqEqual
<1> QED BY <1>12 DEF l, r, a

LEMMA NewestRises ==
  ASSUME NEW W, NEW s \in Seq(W), NEW n \in Nat, Rising(s), Stamped(s)
  PROVE  Rising(Newest(s, n)) /\ Stamped(Newest(s, n))
<1> DEFINE cut == Excess(Len(s), n)
           a == Newest(s, n)
<1>1. a \in Seq(W) /\ Len(a) = Len(s) - cut /\ \A i \in 1..(Len(s) - cut) : a[i] = s[cut + i]
  BY NewestIs
<1> HIDE DEF a
<1>3. cut \in 0..Len(s) /\ Len(s) \in Nat
  <2>1. Len(s) \in Nat
    OBVIOUS
  <2> QED BY <2>1 DEF Excess
<1> HIDE DEF cut
<1>2. \A i \in DOMAIN a : cut + i \in DOMAIN s /\ a[i] = s[cut + i] /\ i \in Int
  <2>1. DOMAIN a = 1..(Len(s) - cut) /\ DOMAIN s = 1..Len(s)
    BY <1>1
  <2> QED BY <1>1, <1>3, <2>1
<1> QED BY <1>2, <1>3 DEF Rising, Stamped, a

LEMMA RisesOn ==
  ASSUME NEW W, NEW s \in Seq(W), NEW t \in Seq(W), Rising(s), Rising(t), Stamped(s), Stamped(t),
         \A i \in DOMAIN s : \A j \in DOMAIN t : s[i].day < t[j].day
  PROVE  Rising(s \o t) /\ Stamped(s \o t)
<1> DEFINE r == s \o t
<1>1. /\ Len(s) \in Nat /\ Len(t) \in Nat /\ DOMAIN r = 1..(Len(s) + Len(t))
      /\ \A i \in DOMAIN r : IF i \in 1..Len(s) THEN i \in DOMAIN s /\ r[i] = s[i]
                             ELSE i - Len(s) \in DOMAIN t /\ r[i] = t[i - Len(s)]
  OBVIOUS
<1> HIDE DEF r
<1>2. Stamped(r)
  BY <1>1 DEF Stamped
<1>3. ASSUME NEW i \in DOMAIN r, NEW j \in DOMAIN r, i < j PROVE Older(r[i], r[j])
  <2>1. CASE j \in 1..Len(s)
    <3>1. i \in 1..Len(s)
      BY <1>1, <1>3, <2>1
    <3> QED BY <1>1, <1>3, <2>1, <3>1 DEF Rising
  <2>2. CASE i \in 1..Len(s) /\ j \notin 1..Len(s)
    <3>1. i \in DOMAIN s /\ r[i] = s[i] /\ j - Len(s) \in DOMAIN t /\ r[j] = t[j - Len(s)]
      BY <1>1, <2>2
    <3> QED BY <3>1 DEF Older
  <2>3. CASE i \notin 1..Len(s) /\ j \notin 1..Len(s)
    <3>1. /\ i - Len(s) \in DOMAIN t /\ r[i] = t[i - Len(s)]
          /\ j - Len(s) \in DOMAIN t /\ r[j] = t[j - Len(s)]
          /\ i - Len(s) < j - Len(s)
      BY <1>1, <1>3, <2>3
    <3> QED BY <3>1 DEF Rising
  <2>4. i \notin 1..Len(s) => j \notin 1..Len(s)
    BY <1>1, <1>3
  <2> QED BY <2>1, <2>2, <2>3, <2>4
<1> QED BY <1>2, <1>3 DEF Rising, r

-----------------------------------------------------------------------------
(* Sorting, days and responders.                                           *)

\* Sorting a list that rises changes nothing (load_windows).
LEMMA SortedAlready ==
  ASSUME NEW W, NEW s \in Seq(W), Rising(s), Stamped(s)
  PROVE  [k \in DOMAIN s |-> s[CHOOSE i \in DOMAIN s : Place(s, i) = k]] = s
<1> DEFINE N == Len(s)
<1>1. N \in Nat /\ DOMAIN s = 1..N /\ s = [k \in 1..N |-> s[k]]
  OBVIOUS
<1> HIDE DEF N
<1>2. ASSUME NEW i \in 1..N PROVE Place(s, i) = i
  <2> DEFINE B == {j \in DOMAIN s : Older(s[j], s[i]) \/ (~Older(s[i], s[j]) /\ j < i)}
  <2>1. ASSUME NEW j \in 1..N PROVE j \in B <=> j < i
    <3>1. j < i => Older(s[j], s[i])
      BY <1>1 DEF Rising
    <3>2. i < j => Older(s[i], s[j])
      BY <1>1 DEF Rising
    <3>3. /\ s[i].day \in Nat /\ s[i].endpoint \in Nat
          /\ s[j].day \in Nat /\ s[j].endpoint \in Nat
      BY <1>1 DEF Stamped
    <3>4. ~(Older(s[i], s[j]) /\ Older(s[j], s[i])) /\ ~Older(s[i], s[i])
      BY <3>3 DEF Older
    <3>5. i = j => j \notin B
      BY <3>4
    <3> QED BY <1>1, <3>1, <3>2, <3>4, <3>5
  <2>2. B = 1..(i - 1)
    <3>1. B \subseteq 1..N
      BY <1>1
    <3> HIDE DEF B
    <3>2. \A j \in B : j \in 1..(i - 1)
      BY <1>1, <2>1, <3>1
    <3>3. \A j \in 1..(i - 1) : j \in B
      BY <1>1, <2>1
    <3> QED BY <3>2, <3>3
  <2>3. Place(s, i) = Cardinality(B) + 1
    BY DEF Place
  <2>4. Cardinality(1..(i - 1)) = i - 1
    BY FS_Interval
  <2> HIDE DEF B
  <2> QED BY <2>2, <2>3, <2>4
<1>3. ASSUME NEW k \in 1..N PROVE (CHOOSE i \in DOMAIN s : Place(s, i) = k) = k
  BY <1>1, <1>2
<1>4. [k \in DOMAIN s |-> s[CHOOSE i \in DOMAIN s : Place(s, i) = k]] = [k \in 1..N |-> s[k]]
  BY <1>1, <1>3
<1> QED BY <1>1, <1>4

LEMMA LoadedAsWritten ==
  ASSUME NEW W, NEW a \in Seq(W), Rising(a), Stamped(a), MaxWindows \in Nat,
         NEW f, f = Newest(a, MaxWindows)
  PROVE  load_windows(f) = f
<1>1. f \in Seq(W) /\ Len(f) = Len(a) - Excess(Len(a), MaxWindows) /\ Len(a) \in Nat
  BY NewestIs
<1>2. Rising(f) /\ Stamped(f)
  BY NewestRises
<1>3. [k \in DOMAIN f |-> f[CHOOSE i \in DOMAIN f : Place(f, i) = k]] = f
  BY <1>1, <1>2, SortedAlready
<1>4. Len(f) <= MaxWindows
  BY <1>1 DEF Excess
<1>5. load_windows(f) = Newest(f, MaxWindows)
  BY <1>3 DEF load_windows
<1> QED BY <1>4, <1>5 DEF Newest

\* The day of the next windows is later than any day of the history, also of the part
\* that was cut off.
LEMMA DayIsNew ==
  ASSUME NEW W, NEW a \in Seq(W), Rising(a), Stamped(a), MaxWindows \in Nat \ {0},
         NEW f, f = Newest(a, MaxWindows)
  PROVE  /\ next_day(f) \in Nat
         /\ \A i \in DOMAIN a : a[i].day < next_day(f)
         /\ \A i \in DOMAIN f : f[i].day < next_day(f)
<1> DEFINE c == Excess(Len(a), MaxWindows)
<1>1. /\ f \in Seq(W) /\ Len(f) = Len(a) - c /\ Len(a) \in Nat
      /\ \A i \in 1..(Len(a) - c) : f[i] = a[c + i]
  <2> DEFINE g == Newest(a, MaxWindows)
  <2>1. /\ g \in Seq(W) /\ Len(g) = Len(a) - c /\ Len(a) \in Nat
        /\ \A i \in 1..(Len(a) - c) : g[i] = a[c + i]
    <3>1. MaxWindows \in Nat
      OBVIOUS
    <3>2. Len(a) \in Nat
      OBVIOUS
    <3> QED BY ONLY <3>1, <3>2, a \in Seq(W), NewestIs
  <2>2. g = f
    OBVIOUS
  <2> HIDE DEF g, c
  <2> QED BY <2>1, <2>2
<1>2. CASE f = << >>
  <2>1. Len(a) = 0
    BY <1>1, <1>2 DEF Excess
  <2> QED BY <1>1, <1>2, <2>1 DEF next_day
<1>3. CASE f # << >>
  <2> DEFINE N == Len(f)
             D == {f[i].day : i \in DOMAIN f}
  <2>1. /\ N \in 1..Len(a) /\ N = Len(a) - c /\ c \in Nat /\ f[N] = a[Len(a)]
        /\ DOMAIN f = 1..N /\ DOMAIN a = 1..Len(a)
    <3>1. Len(f) \in Nat /\ Len(f) # 0 /\ DOMAIN f = 1..Len(f) /\ DOMAIN a = 1..Len(a)
      BY <1>1, <1>3
    <3>2. c \in Nat
      BY <1>1 DEF Excess
    <3> HIDE DEF c
    <3>3. N \in 1..(Len(a) - c) /\ c + N = Len(a)
      BY <1>1, <3>1, <3>2
    <3> QED BY <1>1, <3>1, <3>2, <3>3
  <2> HIDE DEF N, c
  <2>2. \A i \in DOMAIN a : a[i].day \in Nat /\ a[i].day <= a[Len(a)].day
    <3> SUFFICES ASSUME NEW i \in DOMAIN a PROVE a[i].day \in Nat /\ a[i].day <= a[Len(a)].day
      OBVIOUS
    <3>1. Len(a) \in DOMAIN a /\ (i < Len(a) \/ i = Len(a))
      BY <1>1, <2>1
    <3>2. a[i].day \in Nat /\ a[Len(a)].day \in Nat
      BY <3>1 DEF Stamped
    <3>3. i < Len(a) => Older(a[i], a[Len(a)])
      BY <3>1 DEF Rising
    <3> QED BY <3>1, <3>2, <3>3 DEF Older
  <2>3. ASSUME NEW i \in DOMAIN f PROVE f[i].day \in Nat /\ f[i].day <= f[N].day
    <3>1. i \in 1..(Len(a) - c) /\ c + i \in DOMAIN a
      BY <1>1, <2>1
    <3> QED BY <1>1, <2>1, <2>2, <3>1
  <2>4. f[N].day \in D /\ \A d \in D : d \in Nat /\ f[N].day >= d
    BY <2>1, <2>3
  <2> HIDE DEF D
  <2>5. Max(D) = f[N].day
    BY <2>4 DEF Max
  <2>6. next_day(f) = f[N].day + 1
    BY <1>3, <2>5 DEF next_day, D
  <2> QED BY <2>1, <2>2, <2>3, <2>6
<1> QED BY <1>2, <1>3

\* Each member of a finite set of numbers has its place.
LEMMA MembersRise ==
  ASSUME NEW S \in SUBSET Nat, IsFiniteSet(S)
  PROVE  /\ Cardinality(S) \in Nat
         /\ \A k \in 1..Cardinality(S) : Member(S, k) \in S
         /\ \A k, l \in 1..Cardinality(S) : k < l => Member(S, k) < Member(S, l)
<1> DEFINE N == Cardinality(S)
           D == 1..N
           below(e) == {d \in S : d < e}
           c(e) == Cardinality(below(e))
           f == [e \in S |-> c(e) + 1]
<1>1. N \in Nat /\ IsFiniteSet(D) /\ Cardinality(D) = N
  <2>1. N \in Nat
    BY FS_CardinalityType
  <2> HIDE DEF N
  <2> QED BY <2>1, FS_Interval
<1>2. ASSUME NEW e \in S PROVE c(e) \in Nat /\ c(e) + 1 \in D
  <2>1. below(e) \in SUBSET (S \ {e})
    OBVIOUS
  <2> HIDE DEF below
  <2>2. IsFiniteSet(S \ {e}) /\ Cardinality(S \ {e}) = N - 1
    BY FS_RemoveElement
  <2>3. IsFiniteSet(below(e)) /\ c(e) <= N - 1
    BY <2>1, <2>2, FS_Subset
  <2>4. c(e) \in Nat
    BY <2>3, FS_CardinalityType
  <2> HIDE DEF c, N
  <2> QED BY <1>1, <2>3, <2>4
<1>3. ASSUME NEW d \in S, NEW e \in S, d < e PROVE c(d) < c(e)
  <2>0. d \in Nat /\ e \in Nat /\ \A x \in S : x < d => x < e
    BY <1>3
  <2>1. below(d) \in SUBSET below(e) /\ d \in below(e) /\ d \notin below(d) /\ below(e) \in SUBSET S
    <3>1. \A x \in below(d) : x \in below(e)
      BY <2>0
    <3>2. d \in below(e) /\ d \notin below(d) /\ \A x \in below(e) : x \in S
      BY <1>3, <2>0
    <3> HIDE DEF below
    <3> QED BY <3>1, <3>2
  <2> HIDE DEF below
  <2>2. IsFiniteSet(below(e))
    BY <2>1, FS_Subset
  <2>3. c(d) <= c(e) /\ c(d) # c(e)
    BY <2>1, <2>2, FS_Subset
  <2>4. c(d) \in Nat /\ c(e) \in Nat
    BY <1>2
  <2> HIDE DEF c
  <2> QED BY <2>3, <2>4
<1>4. f \in Surjection(S, D)
  <2> HIDE DEF c
  <2>1. f \in [S -> D]
    BY <1>2
  <2>2. ASSUME NEW d \in S, NEW e \in S, f[d] = f[e] PROVE d = e
    <3>1. c(d) = c(e) /\ c(d) \in Nat /\ c(e) \in Nat
      <4>1. c(d) + 1 = c(e) + 1
        BY <2>2
      <4>2. c(d) \in Nat /\ c(e) \in Nat
        BY <1>2
      <4> QED BY <4>1, <4>2
    <3>2. ~(d < e) /\ ~(e < d) /\ d \in Nat /\ e \in Nat
      BY <1>3, <3>1
    <3> QED BY <3>2
  <2> HIDE DEF f
  <2>3. f \in Injection(S, D)
    BY <2>1, <2>2 DEF Injection, IsInjective
  <2> HIDE DEF D
  <2> QED BY <1>1, <2>3, FS_Injection
<1>5. ASSUME NEW k \in D PROVE Member(S, k) \in S /\ c(Member(S, k)) = k - 1
  <2>1. \E e \in S : f[e] = k
    <3> HIDE DEF f, D
    <3> QED BY <1>4, <1>5 DEF Surjection
  <2>2. \E e \in S : c(e) = k - 1
    <3>1. PICK e \in S : f[e] = k
      BY <2>1
    <3>2. c(e) + 1 = k /\ c(e) \in Nat
      BY <1>2, <3>1
    <3> HIDE DEF c
    <3> QED BY <3>2
  <2>3. Member(S, k) = CHOOSE e \in S : c(e) = k - 1
    BY DEF Member
  <2> HIDE DEF c
  <2> QED BY <2>2, <2>3
<1> HIDE DEF c
<1>6. ASSUME NEW k \in D, NEW l \in D, k < l PROVE Member(S, k) < Member(S, l)
  <2>1. /\ Member(S, k) \in S /\ Member(S, l) \in S
        /\ c(Member(S, k)) = k - 1 /\ c(Member(S, l)) = l - 1 /\ k \in Nat /\ l \in Nat
    BY <1>5
  <2>2. Member(S, k) # Member(S, l)
    BY <1>6, <2>1
  <2>4. ~(Member(S, l) < Member(S, k))
    <3> SUFFICES ASSUME Member(S, l) < Member(S, k) PROVE FALSE
      OBVIOUS
    <3>1. c(Member(S, l)) < c(Member(S, k))
      BY <1>3, <2>1
    <3> QED BY <1>6, <2>1, <3>1
  <2>3. Member(S, k) \in Nat /\ Member(S, l) \in Nat
    BY <2>1
  <2> QED BY <2>2, <2>3, <2>4
<1> QED BY <1>1, <1>5, <1>6

-----------------------------------------------------------------------------
(* The windows of a capture.                                               *)

CapturedOn(c, d) == assign_day_index(extract_endpoint_windows(c), d)

\* The windows of all captures, on any day.
Windows == UNION {ToSet(CapturedOn(c, d)) : c \in Captures, d \in Nat}

LEMMA WindowIs ==
  ASSUME NEW e, NEW rows, NEW d
  PROVE  LET w == [Window(e, rows) EXCEPT !.day = d]
         IN  w.day = d /\ w.endpoint = e /\ w.sessions = Cardinality(DOMAIN rows)
BY DEF Window

\* A capture has one window per responder, in the order of the responders.
LEMMA CapturedIs ==
  ASSUME NEW c \in Captures, NEW d \in Nat
  PROVE  /\ CapturedOn(c, d) \in Seq(Windows) /\ Rising(CapturedOn(c, d))
         /\ \A i \in DOMAIN CapturedOn(c, d) :
              /\ CapturedOn(c, d)[i].day = d /\ CapturedOn(c, d)[i].endpoint \in Nat
              /\ CapturedOn(c, d)[i].sessions \in Nat
<1> DEFINE E == {c[i].endpoint : i \in DOMAIN c}
           N == Cardinality(E)
           rows(e) == Restrict(c, {i \in DOMAIN c : c[i].endpoint = e})
           w == CapturedOn(c, d)
<1>1. c \in Seq(ToSet(c)) /\ \A i \in DOMAIN c : c[i].endpoint \in Nat
  BY CaptureAssumption
<1>2. Len(c) \in Nat /\ DOMAIN c = 1..Len(c) /\ IsFiniteSet(DOMAIN c)
  <2>1. Len(c) \in Nat /\ DOMAIN c = 1..Len(c)
    BY <1>1
  <2> QED BY <2>1, FS_Interval
<1>3. E \in SUBSET Nat /\ IsFiniteSet(E)
  <2> DEFINE f == [i \in DOMAIN c |-> c[i].endpoint]
  <2>1. f \in Surjection(DOMAIN c, E)
    BY DEF Surjection
  <2> HIDE DEF f
  <2>2. IsFiniteSet(E)
    BY <1>2, <2>1, FS_Surjection
  <2> QED BY <1>1, <2>2
<1> HIDE DEF E
<1>4. /\ N \in Nat /\ \A k \in 1..N : Member(E, k) \in E
      /\ \A k, l \in 1..N : k < l => Member(E, k) < Member(E, l)
  BY <1>3, MembersRise
<1>5. ASSUME NEW e PROVE Cardinality(DOMAIN rows(e)) \in Nat
  <2>1. DOMAIN rows(e) \in SUBSET DOMAIN c
    BY DEF Restrict
  <2> HIDE DEF rows
  <2> QED BY <1>2, <2>1, FS_Subset, FS_CardinalityType
<1>6. w = [k \in 1..N |-> [Window(Member(E, k), rows(Member(E, k))) EXCEPT !.day = d]]
  BY DEF CapturedOn, assign_day_index, extract_endpoint_windows, E
<1> HIDE DEF N, rows
<1>7. ASSUME NEW k \in 1..N
      PROVE w[k].day = d /\ w[k].endpoint = Member(E, k) /\ w[k].sessions \in Nat
  <2> DEFINE v == [Window(Member(E, k), rows(Member(E, k))) EXCEPT !.day = d]
  <2>1. w[k] = v
    BY <1>6
  <2>2. v.day = d /\ v.endpoint = Member(E, k) /\ v.sessions = Cardinality(DOMAIN rows(Member(E, k)))
    BY WindowIs
  <2> HIDE DEF v, w
  <2> QED BY <1>5, <2>1, <2>2
<1>8. DOMAIN w = 1..N /\ w = [k \in 1..N |-> w[k]]
  BY <1>6
<1>9. \A k \in 1..N : w[k] \in Windows
  <2>1. \A k \in 1..N : w[k] \in ToSet(w)
    BY <1>8 DEF ToSet
  <2> QED BY <2>1 DEF Windows
<1> HIDE DEF w
<1>10. w \in Seq(Windows)
  <2>1. w \in [1..N -> Windows]
    BY <1>8, <1>9
  <2> QED BY <1>4, <2>1, SeqDef
<1>11. Rising(w)
  BY <1>4, <1>7, <1>8 DEF Rising, Older
<1>12. \A i \in DOMAIN w : w[i].day = d /\ w[i].endpoint \in Nat /\ w[i].sessions \in Nat
  BY <1>3, <1>4, <1>7, <1>8
<1> QED BY <1>10, <1>11, <1>12 DEF w

LEMMA WindowsTyped ==
  ASSUME NEW w \in Windows
  PROVE  w.day \in Nat /\ w.endpoint \in Nat /\ w.sessions \in Nat
<1>1. PICK c \in Captures, d \in Nat : w \in ToSet(CapturedOn(c, d))
  BY DEF Windows
<1>2. \A i \in DOMAIN CapturedOn(c, d) :
        /\ CapturedOn(c, d)[i].day = d /\ CapturedOn(c, d)[i].endpoint \in Nat
        /\ CapturedOn(c, d)[i].sessions \in Nat
  BY CapturedIs
<1> QED BY <1>1, <1>2 DEF ToSet

LEMMA HistoriesStamped ==
  ASSUME NEW s \in Seq(Windows)
  PROVE  Stamped(s) /\ \A i \in DOMAIN s : s[i] \in Windows
<1>1. \A i \in DOMAIN s : s[i] \in Windows
  OBVIOUS
<1> QED BY <1>1, WindowsTyped DEF Stamped

-----------------------------------------------------------------------------
(* Who is reported.                                                        *)

LEMMA NotSkipped ==
  ASSUME NEW ws, NEW w, w.sessions \in Nat, IsFiniteSet(History(ws, w)),
         skip_reason(ws, w) = None
  PROVE  /\ w.sessions >= MinSessions /\ Cardinality(History(ws, w)) >= MinHistory
         /\ w.incomplete <= Gate
<1>1. Cardinality(History(ws, w)) \in Nat
  BY FS_CardinalityType
<1>2. MinSessions \in Nat /\ MinHistory \in Nat
  BY LimitsAssumption
<1> QED BY <1>1, <1>2 DEF skip_reason, None

\* The windows that came before today's are those of the history.
LEMMA EarlierIsLoaded ==
  ASSUME NEW W, NEW old \in Seq(W), NEW cur \in Seq(W), NEW d \in Nat,
         \A i \in DOMAIN old : old[i].day < d, \A i \in DOMAIN cur : cur[i].day = d,
         NEW w, w.day = d
  PROVE  /\ Earlier(old \o cur, w) = Earlier(old, w) /\ Earlier(old, w) = DOMAIN old
         /\ History(old \o cur, w) = History(old, w)
         /\ \A i \in DOMAIN old : (old \o cur)[i] = old[i]
<1> DEFINE all == old \o cur
<1>1. /\ DOMAIN old = 1..Len(old) /\ DOMAIN all = 1..(Len(old) + Len(cur))
      /\ Len(old) \in Nat /\ Len(cur) \in Nat
      /\ \A i \in 1..Len(old) : all[i] = old[i]
      /\ \A i \in DOMAIN all : i \notin DOMAIN old => i - Len(old) \in DOMAIN cur /\ all[i] = cur[i - Len(old)]
  OBVIOUS
<1> HIDE DEF all
<1>2. \A i \in DOMAIN all : all[i].day < d <=> i \in DOMAIN old
  BY <1>1
<1>3. DOMAIN old \subseteq DOMAIN all
  BY <1>1
<1>4. Earlier(all, w) = DOMAIN old
  BY <1>2, <1>3 DEF Earlier
<1>5. Earlier(old, w) = DOMAIN old
  BY DEF Earlier
<1>6. History(all, w) = History(old, w)
  BY <1>1, <1>4, <1>5 DEF History
<1> QED BY <1>1, <1>4, <1>5, <1>6 DEF all

\* A forest is only fitted on windows that had their own history, the first of them too:
\* that history is not among the windows it is fitted on.
LEMMA FittedHistory ==
  ASSUME NEW ws \in Seq(Windows), NEW w, w.day \in Nat, Fitted(ws, w)
  PROVE  Cardinality(Earlier(ws, w)) >= MinTrain + MinHistory
<1> DEFINE P == Earlier(ws, w)
           T == {i \in P : skip_reason(ws, ws[i]) = None}
           days == {ws[i].day : i \in T}
<1>1. MinTrain \in Nat \ {0} /\ MinHistory \in Nat
  BY LimitsAssumption
<1>2. P \in SUBSET DOMAIN ws /\ IsFiniteSet(DOMAIN ws)
  <2>1. P \in SUBSET DOMAIN ws
    BY DEF Earlier
  <2>2. DOMAIN ws = 1..Len(ws) /\ Len(ws) \in Nat
    OBVIOUS
  <2> HIDE DEF P
  <2> QED BY <2>1, <2>2, FS_Interval
<1>3. T \in SUBSET P
  OBVIOUS
<1>4. IsFiniteSet(P) /\ IsFiniteSet(T)
  <2> HIDE DEF P, T
  <2>1. IsFiniteSet(P)
    BY <1>2, FS_Subset
  <2> QED BY <1>3, <2>1, FS_Subset
<1>5. Cardinality(T) >= MinTrain
  BY DEF Fitted
<1>6. \A i \in T : ws[i] \in Windows /\ ws[i].day \in Nat /\ ws[i].sessions \in Nat /\ i \in P
                   /\ skip_reason(ws, ws[i]) = None
  <2>1. \A i \in DOMAIN ws : ws[i] \in Windows
    BY HistoriesStamped
  <2> QED BY <1>2, <1>3, <2>1, WindowsTyped
<1>7. PICK x \in T : \A i \in T : ws[x].day <= ws[i].day
  <2>1. T # {}
    <3> HIDE DEF T
    <3>1. Cardinality({}) = 0
      BY FS_EmptySet
    <3>2. T = {} => Cardinality(T) = 0
      BY <3>1
    <3> QED BY <1>1, <1>5, <3>2
  <2>2. days \in SUBSET Nat /\ days # {}
    <3> HIDE DEF T
    <3> QED BY <1>6, <2>1
  <2> HIDE DEF T
  <2>3. PICK m \in days : \A y \in days : m <= y
    <3> HIDE DEF days
    <3> QED BY <2>2, LeastExists
  <2> QED BY <2>3
<1> HIDE DEF T
<1> DEFINE H == History(ws, ws[x])
<1>8. H \in SUBSET P /\ H \cap T = {}
  <2>1. \A i \in H : i \in DOMAIN ws /\ ws[i].day < ws[x].day /\ ws[i].day \in Nat
    BY HistoriesStamped DEF History, Earlier, Stamped
  <2>2. x \in P /\ ws[x].day < w.day /\ ws[x].day \in Nat
    BY <1>6 DEF Earlier
  <2>3. H \in SUBSET P
    BY <2>1, <2>2 DEF Earlier
  <2>4. ASSUME NEW i \in H PROVE i \notin T
    BY <1>6, <1>7, <2>1, <2>2, <2>4
  <2> QED BY <2>3, <2>4
<1> HIDE DEF P, H
<1>9. IsFiniteSet(H)
  BY <1>4, <1>8, FS_Subset
<1>10. Cardinality(H) >= MinHistory
  BY <1>6, <1>9, NotSkipped DEF H
<1>11. Cardinality(T \cup H) = Cardinality(T) + Cardinality(H)
  <2>1. T \cap H = {} /\ Cardinality({}) = 0
    BY <1>8, FS_EmptySet
  <2>2. Cardinality(T) \in Nat /\ Cardinality(H) \in Nat
    BY <1>4, <1>9, FS_CardinalityType
  <2>3. Cardinality(T \cup H) = Cardinality(T) + Cardinality(H) - Cardinality(T \cap H)
    BY <1>4, <1>9, FS_Union
  <2>4. Cardinality(T \cap H) = 0
    BY <2>1
  <2> QED BY <2>2, <2>3, <2>4
<1>12. Cardinality(T \cup H) <= Cardinality(P)
  BY <1>3, <1>4, <1>8, FS_Subset
<1>13. Cardinality(T) \in Nat /\ Cardinality(H) \in Nat /\ Cardinality(P) \in Nat
  BY <1>4, <1>9, FS_CardinalityType
<1> QED BY <1>1, <1>5, <1>10, <1>11, <1>12, <1>13 DEF P

\* What the history of a run shows about a window of today that is reported.
Reported(old, w, a) ==
  /\ w.endpoint = a.endpoint /\ w.day = a.day
  /\ w.sessions >= MinSessions /\ w.incomplete <= Gate
  /\ Cardinality(History(old, w)) >= MinHistory
  /\ a.detector = "isolation_forest" => Cardinality(Earlier(old, w)) >= MinTrain + MinHistory

\* Only windows of today that are not skipped are reported (score_windows).
LEMMA AlertsAreGrounded ==
  ASSUME NEW old \in Seq(Windows), NEW cur \in Seq(Windows), NEW d \in Nat,
         \A i \in DOMAIN old : old[i].day < d, \A i \in DOMAIN cur : cur[i].day = d,
         NEW a \in PossibleAlerts(old \o cur, d)
  PROVE  \E w \in ToSet(cur) : Reported(old, w, a)
<1> DEFINE all == old \o cur
<1>1. /\ all \in Seq(Windows) /\ Len(old) \in Nat /\ Len(cur) \in Nat
      /\ DOMAIN all = 1..(Len(old) + Len(cur))
      /\ \A i \in DOMAIN all : i \in DOMAIN old => all[i] = old[i]
      /\ \A i \in DOMAIN all : i \notin DOMAIN old => i - Len(old) \in DOMAIN cur /\ all[i] = cur[i - Len(old)]
  OBVIOUS
<1>2. PICK w \in ScoredOn(all, d), det \in {"baseline", "isolation_forest"} :
        a = Alert(w, det) /\ (det = "isolation_forest" => Fitted(all, w))
  BY DEF PossibleAlerts, CertainAlerts
<1> HIDE DEF all
<1>3. w \in ToSet(all) /\ w.day = d /\ skip_reason(all, w) = None
  BY DEF ScoredOn
<1>4. PICK i \in DOMAIN all : w = all[i]
  BY <1>3 DEF ToSet
<1>5. i \notin DOMAIN old
  BY <1>1, <1>3, <1>4
<1>6. w \in ToSet(cur)
  BY <1>1, <1>4, <1>5 DEF ToSet
<1>7. w \in Windows /\ w.sessions \in Nat
  <2>1. w \in Windows
    BY <1>1, <1>4
  <2> QED BY <2>1, WindowsTyped
<1>8. Earlier(all, w) = Earlier(old, w) /\ Earlier(old, w) = DOMAIN old /\ History(all, w) = History(old, w)
  BY <1>3, EarlierIsLoaded DEF all
<1>9. IsFiniteSet(History(all, w))
  <2>1. IsFiniteSet(DOMAIN old)
    BY <1>1, FS_Interval, LenProperties
  <2>2. History(old, w) \in SUBSET DOMAIN old
    BY <1>8 DEF History
  <2> QED BY <1>8, <2>1, <2>2, FS_Subset
<1>10. /\ w.sessions >= MinSessions /\ Cardinality(History(all, w)) >= MinHistory
       /\ w.incomplete <= Gate
  BY <1>3, <1>7, <1>9, NotSkipped
<1>11. det = "isolation_forest" => Cardinality(Earlier(all, w)) >= MinTrain + MinHistory
  BY <1>1, <1>2, <1>3, FittedHistory
<1>12. a.endpoint = w.endpoint /\ a.day = w.day /\ a.detector = det
  BY <1>2 DEF Alert
<1> QED BY <1>6, <1>8, <1>10, <1>11, <1>12 DEF Reported

LEMMA AlertsAreFinite ==
  ASSUME NEW W, NEW ws \in Seq(W), NEW d
  PROVE  IsFiniteSet(PossibleAlerts(ws, d)) /\ CertainAlerts(ws, d) \subseteq PossibleAlerts(ws, d)
<1> DEFINE f(det) == [i \in DOMAIN ws |-> Alert(ws[i], det)]
           R(det) == {Alert(ws[i], det) : i \in DOMAIN ws}
<1>1. IsFiniteSet(DOMAIN ws)
  <2>1. DOMAIN ws = 1..Len(ws) /\ Len(ws) \in Nat
    OBVIOUS
  <2> QED BY <2>1, FS_Interval
<1>2. ASSUME NEW det PROVE IsFiniteSet(R(det))
  <2>1. f(det) \in Surjection(DOMAIN ws, R(det))
    BY DEF Surjection
  <2> HIDE DEF f, R
  <2> QED BY <1>1, <2>1, FS_Surjection
<1>3. PossibleAlerts(ws, d) \in SUBSET (R("baseline") \cup R("isolation_forest"))
  BY DEF PossibleAlerts, CertainAlerts, ScoredOn, ToSet
<1>4. CertainAlerts(ws, d) \subseteq PossibleAlerts(ws, d)
  BY DEF PossibleAlerts
<1> HIDE DEF R
<1>5. IsFiniteSet(R("baseline") \cup R("isolation_forest"))
  BY <1>2, FS_Union
<1> QED BY <1>3, <1>4, <1>5, FS_Subset

\* A section reports no more than its alerts, and no more than fits.
LEMMA SectionIs ==
  ASSUME NEW count, NEW alerts, IsFiniteSet(alerts),
         NEW s \in advisory_section_for_history(count, alerts)
  PROVE  /\ s.notice = NoticeOf(count) /\ s.anomalies \in SUBSET alerts
         /\ Cardinality(s.anomalies) <= MaxItems
<1> DEFINE notice == NoticeOf(count)
           room == IF notice = None THEN MaxItems ELSE MaxItems - 1
           cut(t) == kSubset(Min({room, Cardinality(t)}), t)
           shown == IF notice = "insufficient_history" THEN {{}}
                    ELSE UNION {cut(t) : t \in anomalies_from_scores(alerts)}
<1>1. PICK t \in shown : s = [notice |-> notice, anomalies |-> t]
  BY DEF advisory_section_for_history
<1>2. room \in Nat /\ room <= MaxItems /\ MaxItems \in Nat
  BY LimitsAssumption
<1> HIDE DEF room, notice
<1>3. t \in SUBSET alerts /\ Cardinality(t) <= room
  <2>1. CASE t = {}
    BY <1>2, <2>1, FS_EmptySet
  <2>2. CASE \E u \in anomalies_from_scores(alerts) : t \in cut(u)
    <3>1. PICK u \in SUBSET alerts : t \in cut(u)
      BY <2>2 DEF anomalies_from_scores
    <3>2. t \in SUBSET u /\ Cardinality(t) = Min({room, Cardinality(u)})
      BY <3>1 DEF kSubset
    <3>3. Cardinality(u) \in Nat
      BY FS_Subset, FS_CardinalityType
    <3> DEFINE m == Cardinality(u)
    <3> HIDE DEF m
    <3>4. Min({room, m}) <= room
      <4>1. m \in Nat
        BY <3>3 DEF m
      <4>2. \E y \in {room, m} : \A z \in {room, m} : y <= z
        BY <1>2, <4>1
      <4> QED BY <4>2 DEF Min
    <3> QED BY <3>2, <3>4 DEF m
  <2> QED BY <1>1, <2>1, <2>2
<1>4. Cardinality(t) \in Nat
  BY <1>3, FS_Subset, FS_CardinalityType
<1> QED BY <1>1, <1>2, <1>3, <1>4 DEF notice

-----------------------------------------------------------------------------
(* The history store.                                                      *)

Days(s, t) == \A i \in DOMAIN s : \A j \in DOMAIN t : s[i].day < t[j].day

\* The history holds the newest of what was appended, oldest first, and the windows of
\* the run that is about to append are newer.  A run scores against the history there
\* is, unless that was deleted since.
StoreInv ==
  /\ epoch \in Nat
  /\ appended \in Seq(Windows) /\ Rising(appended)
  /\ file = Newest(appended, MaxWindows)
  /\ pc = "loaded" => capture \in Captures
  /\ pc \in {"loaded", "advised", "opened", "written"} =>
       /\ loaded \in Seq(Windows) /\ Rising(loaded) /\ Len(loaded) <= MaxWindows
       /\ section.epoch = epoch => loaded = file
       /\ section.epoch # epoch => appended = << >>
  /\ pc \in {"loaded", "advised", "opened", "written", "appended"} =>
       section.epoch \in Nat /\ section.epoch <= epoch
  /\ pc \in {"advised", "opened", "written"} =>
       current \in Seq(Windows) /\ Rising(current) /\ Days(appended, current)
  /\ pc \in {"opened", "written"} => retained = Newest(file \o current, MaxWindows)
  /\ pc = "written" => tmp = retained

LEMMA StoreInit == AdvisoryInit => StoreInv
<1> SUFFICES ASSUME AdvisoryInit PROVE StoreInv
  OBVIOUS
<1>1. MaxWindows \in Nat
  BY LimitsAssumption
<1>2. appended = << >> /\ << >> \in Seq(Windows) /\ DOMAIN << >> = {} /\ Len(<< >>) = 0
  BY DEF AdvisoryInit
<1>3. Newest(<< >>, MaxWindows) = << >>
  BY <1>1, <1>2 DEF Newest
<1> QED BY <1>2, <1>3 DEF AdvisoryInit, StoreInv, Rising

LEMMA LimitTypes ==
  MaxWindows \in Nat /\ MaxWindows # 0 /\ MaxWindows \in Nat \ {0}
BY LimitsAssumption

LEMMA StoreLoad ==
  ASSUME StoreInv, NEW c \in Captures, Load(c)
  PROVE  StoreInv'
<1>1. appended \in Seq(Windows) /\ Rising(appended) /\ file = Newest(appended, MaxWindows) /\ epoch \in Nat
  BY DEF StoreInv
<1>2. Stamped(appended)
  BY <1>1, HistoriesStamped
<1>3. load_windows(file) = file
  BY <1>1, <1>2, LoadedAsWritten, LimitTypes
<1>4. Rising(file)
  BY <1>1, <1>2, NewestRises, LimitTypes
<1>5. file \in Seq(Windows) /\ Len(file) <= MaxWindows
  <2>1. MaxWindows \in Nat /\ Len(appended) \in Nat
    BY <1>1, LimitTypes
  <2>2. Newest(appended, MaxWindows) \in Seq(Windows)
        /\ Len(Newest(appended, MaxWindows)) = Len(appended) - Excess(Len(appended), MaxWindows)
    BY <1>1, <2>1, NewestIs
  <2>3. Len(appended) - Excess(Len(appended), MaxWindows) <= MaxWindows
    BY <2>1 DEF Excess
  <2> QED BY <1>1, <2>2, <2>3
<1>6. section' = [NoSection EXCEPT !.epoch = epoch] /\ section'.epoch = epoch
  BY DEF Load, NoSection
<1>7. /\ pc' = "loaded" /\ capture' = c /\ loaded' = file /\ file' = file
      /\ appended' = appended /\ epoch' = epoch
  BY <1>3 DEF Load
<1>8. epoch <= epoch
  BY <1>1
<1> QED BY <1>1, <1>4, <1>5, <1>6, <1>7, <1>8 DEF StoreInv

\* Today comes after every day of the history, and after every day appended.
LEMMA TodayIsNew ==
  ASSUME StoreInv, pc = "loaded"
  PROVE  /\ next_day(loaded) \in Nat /\ capture \in Captures
         /\ \A i \in DOMAIN loaded : loaded[i].day < next_day(loaded)
         /\ \A i \in DOMAIN appended : appended[i].day < next_day(loaded)
<1>1. /\ loaded \in Seq(Windows) /\ Rising(loaded) /\ Len(loaded) <= MaxWindows
      /\ appended \in Seq(Windows) /\ Rising(appended) /\ file = Newest(appended, MaxWindows)
      /\ section.epoch = epoch => loaded = file
      /\ section.epoch # epoch => appended = << >>
      /\ capture \in Captures
  BY DEF StoreInv
<1>2. Stamped(loaded) /\ Stamped(appended)
  BY <1>1, HistoriesStamped
<1>3. loaded = Newest(loaded, MaxWindows)
  BY <1>1 DEF Newest
<1>4. next_day(loaded) \in Nat /\ \A i \in DOMAIN loaded : loaded[i].day < next_day(loaded)
  BY <1>1, <1>2, <1>3, DayIsNew, LimitTypes
<1>5. section.epoch = epoch => \A i \in DOMAIN appended : appended[i].day < next_day(loaded)
  BY <1>1, <1>2, DayIsNew, LimitTypes
<1>6. section.epoch # epoch => DOMAIN appended = {}
  BY <1>1
<1> QED BY <1>1, <1>4, <1>5, <1>6

LEMMA StoreAdvise ==
  ASSUME StoreInv, attach_advisories_with_history
  PROVE  StoreInv'
<1> DEFINE d == next_day(loaded)
<1>1. /\ pc = "loaded" /\ pc' = "advised" /\ current' = CapturedOn(capture, d)
      /\ section'.epoch = section.epoch
      /\ UNCHANGED <<capture, loaded, file, appended, epoch>>
  BY DEF attach_advisories_with_history, CapturedOn
<1>2. /\ d \in Nat /\ capture \in Captures
      /\ \A i \in DOMAIN appended : appended[i].day < d
  BY <1>1, TodayIsNew
<1> HIDE DEF d
<1>3. /\ CapturedOn(capture, d) \in Seq(Windows) /\ Rising(CapturedOn(capture, d))
      /\ \A i \in DOMAIN CapturedOn(capture, d) : CapturedOn(capture, d)[i].day = d
  BY <1>2, CapturedIs
<1>4. Days(appended, CapturedOn(capture, d))
  BY <1>2, <1>3 DEF Days
<1> QED BY <1>1, <1>3, <1>4 DEF StoreInv

LEMMA StoreOpen ==
  ASSUME StoreInv, OpenTmp
  PROVE  StoreInv'
<1>1. appended \in Seq(Windows) /\ Rising(appended) /\ file = Newest(appended, MaxWindows)
  BY DEF StoreInv
<1>2. Stamped(appended)
  BY <1>1, HistoriesStamped
<1>3. load_windows(file) = file
  BY <1>1, <1>2, LoadedAsWritten, LimitTypes
<1>4. /\ pc = "advised" /\ pc' = "opened" /\ retained' = Newest(file \o current, MaxWindows)
      /\ UNCHANGED <<capture, loaded, current, section, file, appended, epoch>>
  BY <1>3 DEF OpenTmp
<1> QED BY <1>4 DEF StoreInv

LEMMA StoreReplace ==
  ASSUME StoreInv, ReplaceFile
  PROVE  StoreInv'
<1>1. /\ pc = "written" /\ pc' = "appended" /\ file' = tmp /\ appended' = appended \o current
      /\ UNCHANGED <<section, epoch>>
  BY DEF ReplaceFile, run
<1>2. /\ appended \in Seq(Windows) /\ Rising(appended) /\ file = Newest(appended, MaxWindows)
      /\ current \in Seq(Windows) /\ Rising(current) /\ Days(appended, current)
      /\ tmp = Newest(file \o current, MaxWindows)
      /\ section.epoch \in Nat /\ section.epoch <= epoch /\ epoch \in Nat
  BY <1>1 DEF StoreInv
<1>3. Stamped(appended) /\ Stamped(current)
  BY <1>2, HistoriesStamped
<1>4. Rising(appended \o current)
  BY <1>2, <1>3, RisesOn DEF Days
<1>5. Newest(file \o current, MaxWindows) = Newest(appended \o current, MaxWindows)
  BY <1>2, NewestAgain, LimitTypes
<1>6. appended \o current \in Seq(Windows)
  BY <1>2
<1> QED BY <1>1, <1>2, <1>4, <1>5, <1>6 DEF StoreInv

LEMMA StoreDeleted ==
  ASSUME StoreInv, HistoryDeleted
  PROVE  StoreInv'
<1>1. /\ pc \notin {"opened", "written"} /\ file' = << >> /\ appended' = << >>
      /\ epoch' = epoch + 1 /\ UNCHANGED <<pc, capture, loaded, current, section, retained, tmp>>
  BY DEF HistoryDeleted, run
<1>2. << >> \in Seq(Windows) /\ DOMAIN << >> = {} /\ Len(<< >>) = 0
  OBVIOUS
<1>3. << >> = Newest(<< >>, MaxWindows)
  BY <1>2, LimitTypes DEF Newest
<1>4. Rising(<< >>) /\ Days(<< >>, current)
  BY <1>2 DEF Rising, Days
<1>5. epoch \in Nat /\ epoch + 1 \in Nat
  BY DEF StoreInv
<1>6. pc \in {"loaded", "advised", "appended"} =>
        section.epoch \in Nat /\ section.epoch <= epoch + 1 /\ section.epoch # epoch + 1
  BY <1>5 DEF StoreInv
<1> QED BY <1>1, <1>2, <1>3, <1>4, <1>5, <1>6 DEF StoreInv

LEMMA StoreStep ==
  ASSUME StoreInv, [AdvisoryNext]_AdvisoryVars
  PROVE  StoreInv'
<1>1. ASSUME NEW c \in Captures, Load(c) PROVE StoreInv'
  BY <1>1, StoreLoad
<1>2. CASE attach_advisories_with_history
  BY <1>2, StoreAdvise
<1>3. CASE OpenTmp
  BY <1>3, StoreOpen
<1>4. CASE WriteTmp
  BY <1>4 DEF WriteTmp, StoreInv, run
<1>5. CASE ReplaceFile
  BY <1>5, StoreReplace
<1>6. CASE Publish
  BY <1>6 DEF Publish, EndRun, StoreInv
<1>7. CASE Abort
  BY <1>7 DEF Abort, EndRun, StoreInv
<1>8. CASE HistoryDeleted
  BY <1>8, StoreDeleted
<1>9. CASE UNCHANGED AdvisoryVars
  BY <1>9 DEF AdvisoryVars, run, StoreInv
<1> QED BY <1>1, <1>2, <1>3, <1>4, <1>5, <1>6, <1>7, <1>8, <1>9 DEF AdvisoryNext

\* append_windows with any crashes, cancels and deletions loses and repeats no window:
\* windows.jsonl always holds the newest of those appended.
THEOREM HistoryKeepsTheNewest == AdvisorySpec => []HistoryIsTheNewest
<1>1. AdvisoryInit => StoreInv
  BY StoreInit
<1>2. StoreInv /\ [AdvisoryNext]_AdvisoryVars => StoreInv'
  BY StoreStep
<1>3. StoreInv => HistoryIsTheNewest
  BY DEF StoreInv, HistoryIsTheNewest
<1> QED BY <1>1, <1>2, <1>3, PTL DEF AdvisorySpec

-----------------------------------------------------------------------------
(* The section of a run.                                                   *)

\* What a run has written into its section once it is advised.
LEMMA AdvisedSection ==
  ASSUME StoreInv, attach_advisories_with_history
  PROVE  /\ section'.notice = NoticeOf(Len(loaded)) /\ section'.epoch = section.epoch
         /\ Cardinality(section'.anomalies) <= MaxItems
         /\ \A a \in section'.anomalies : \E w \in ToSet(current') : Reported(loaded, w, a)
<1> DEFINE d == next_day(loaded)
           cur == CapturedOn(capture, d)
           all == loaded \o cur
<1>1. pc = "loaded" /\ current' = cur
  BY DEF attach_advisories_with_history, CapturedOn
<1>2. /\ d \in Nat /\ capture \in Captures
      /\ \A i \in DOMAIN loaded : loaded[i].day < d
  BY <1>1, TodayIsNew
<1> DEFINE made(s) ==
      section' = [notice |-> s.notice, anomalies |-> s.anomalies, epoch |-> section.epoch]
<1>3a. PICK others \in SUBSET (PossibleAlerts(all, d) \ CertainAlerts(all, d)) :
         \E s \in advisory_section_for_history(Len(loaded), CertainAlerts(all, d) \cup others) : made(s)
  BY <1>1 DEF attach_advisories_with_history, CapturedOn
<1>3. PICK s \in advisory_section_for_history(Len(loaded), CertainAlerts(all, d) \cup others) : made(s)
  BY <1>3a
<1> HIDE DEF d
<1>4. /\ cur \in Seq(Windows) /\ \A i \in DOMAIN cur : cur[i].day = d
  BY <1>2, CapturedIs
<1>5. loaded \in Seq(Windows)
  BY <1>1 DEF StoreInv
<1> HIDE DEF cur
<1>6. all \in Seq(Windows)
  BY <1>4, <1>5
<1>7. IsFiniteSet(PossibleAlerts(all, d)) /\ CertainAlerts(all, d) \subseteq PossibleAlerts(all, d)
  BY <1>6, AlertsAreFinite
<1> DEFINE alerts == CertainAlerts(all, d) \cup others
<1>8. alerts \in SUBSET PossibleAlerts(all, d)
  BY <1>7
<1> HIDE DEF alerts, all
<1>9. IsFiniteSet(alerts)
  BY <1>7, <1>8, FS_Subset
<1>10. /\ s.notice = NoticeOf(Len(loaded)) /\ s.anomalies \in SUBSET alerts
       /\ Cardinality(s.anomalies) <= MaxItems
  <2>1. s \in advisory_section_for_history(Len(loaded), alerts)
    BY DEF alerts
  <2> QED BY <1>9, <2>1, SectionIs
<1>11. ASSUME NEW a \in s.anomalies PROVE \E w \in ToSet(cur) : Reported(loaded, w, a)
  <2>1. a \in PossibleAlerts(loaded \o cur, d)
    BY <1>8, <1>10 DEF all
  <2> QED BY <1>2, <1>4, <1>5, <2>1, AlertsAreGrounded
<1>12. section'.notice = s.notice /\ section'.anomalies = s.anomalies /\ section'.epoch = section.epoch
  BY <1>3
<1> QED BY <1>1, <1>10, <1>11, <1>12

LEMMA AnomalyStep ==
  ASSUME StoreInv, AnomaliesHaveHistory, [AdvisoryNext]_AdvisoryVars
  PROVE  AnomaliesHaveHistory'
<1>1. ASSUME NEW c \in Captures, Load(c) PROVE AnomaliesHaveHistory'
  BY <1>1 DEF Load, AnomaliesHaveHistory
<1>2. CASE attach_advisories_with_history
  <2> SUFFICES ASSUME section'.epoch = epoch' PROVE AnomaliesHaveHistory'
    BY DEF AnomaliesHaveHistory
  <2>1. /\ section'.epoch = section.epoch /\ Cardinality(section'.anomalies) <= MaxItems
        /\ \A a \in section'.anomalies : \E w \in ToSet(current') : Reported(loaded, w, a)
    BY <1>2, AdvisedSection
  <2>2. pc = "loaded" /\ epoch' = epoch /\ appended' = appended
    BY <1>2 DEF attach_advisories_with_history
  <2>3. loaded = Newest(appended', MaxWindows)
    BY <2>1, <2>2 DEF StoreInv
  <2> QED BY <2>1, <2>3 DEF AnomaliesHaveHistory, Reported, Known, KnownOf
<1>3. CASE OpenTmp
  BY <1>3 DEF OpenTmp, AnomaliesHaveHistory
<1>4. CASE WriteTmp
  BY <1>4 DEF WriteTmp, AnomaliesHaveHistory
<1>5. CASE ReplaceFile
  BY <1>5 DEF ReplaceFile, AnomaliesHaveHistory
<1>6. CASE Publish
  BY <1>6 DEF Publish, EndRun, AnomaliesHaveHistory
<1>7. CASE Abort
  BY <1>7 DEF Abort, EndRun, AnomaliesHaveHistory
<1>8. CASE HistoryDeleted
  <2>1. pc' = pc /\ section' = section /\ epoch' = epoch + 1
    BY <1>8 DEF HistoryDeleted, run
  <2>2. pc = "advised" => section.epoch \in Nat /\ section.epoch <= epoch /\ epoch \in Nat
    BY DEF StoreInv
  <2>3. pc = "advised" => section.epoch # epoch + 1
    BY <2>2
  <2> QED BY <2>1, <2>3 DEF AnomaliesHaveHistory
<1>9. CASE UNCHANGED AdvisoryVars
  BY <1>9 DEF AdvisoryVars, run, AnomaliesHaveHistory, Known, KnownOf
<1> QED BY <1>1, <1>2, <1>3, <1>4, <1>5, <1>6, <1>7, <1>8, <1>9 DEF AdvisoryNext

\* An anomaly is only ever reported about a responder of the capture with enough sessions,
\* a good reconstruction and a history of its own (skip_reason, score_windows).
THEOREM AnomaliesAreGrounded == AdvisorySpec => []AnomaliesHaveHistory
<1>1. AdvisoryInit => StoreInv
  BY StoreInit
<1>2. StoreInv /\ [AdvisoryNext]_AdvisoryVars => StoreInv'
  BY StoreStep
<1>3. AdvisoryInit => AnomaliesHaveHistory
  BY DEF AdvisoryInit, AnomaliesHaveHistory
<1>4. StoreInv /\ AnomaliesHaveHistory /\ [AdvisoryNext]_AdvisoryVars => AnomaliesHaveHistory'
  BY AnomalyStep
<1> QED BY <1>1, <1>2, <1>3, <1>4, PTL DEF AdvisorySpec

-----------------------------------------------------------------------------
(* Warming up.                                                             *)

Notices == {"insufficient_history", "forest_warming", None}

\* The maturity of a section that was written from n windows.
Warmth(n) == Maturity([notice |-> NoticeOf(n)])

LEMMA WarmthRises ==
  ASSUME NEW m \in Nat, NEW n \in Nat, m <= n
  PROVE  Warmth(m) <= Warmth(n) /\ NoticeOf(m) \in Notices
<1>1. MinHistory \in Nat /\ MinTrain \in Nat /\ MinHistory <= MinTrain
  BY LimitsAssumption
<1> QED BY <1>1 DEF Warmth, NoticeOf, Maturity, Notices, None

LEMMA MaturityTyped ==
  ASSUME NEW s, s.notice \in Notices
  PROVE  Maturity(s) \in 0..2
BY DEF Maturity, Notices, None

Advised == {"advised", "opened", "written", "appended"}

\* No report of this epoch was written from more windows than there are, or than the run
\* in progress has loaded.
WarmInv ==
  /\ published.notice \in Notices /\ published.epoch \in Int /\ published.epoch <= epoch
  /\ published.epoch = epoch => Maturity(published) <= Warmth(Len(file))
  /\ pc = "loaded" /\ published.epoch = section.epoch => Maturity(published) <= Warmth(Len(loaded))
  /\ pc \in Advised => section.notice \in Notices
  /\ pc \in Advised /\ published.epoch = section.epoch => Maturity(published) <= Maturity(section)
  /\ pc \in Advised \ {"appended"} => Maturity(section) = Warmth(Len(loaded))
  /\ pc = "appended" /\ section.epoch = epoch => Maturity(section) <= Warmth(Len(file))

LEMMA WarmInit == AdvisoryInit => WarmInv
BY DEF AdvisoryInit, WarmInv, NoSection, Notices, Advised

LEMMA WarmStep ==
  ASSUME StoreInv, WarmInv, [AdvisoryNext]_AdvisoryVars
  PROVE  WarmInv'
<1> USE DEF Advised
<1>0. /\ epoch \in Nat /\ appended \in Seq(Windows) /\ file = Newest(appended, MaxWindows)
      /\ MaxWindows \in Nat
  BY LimitTypes DEF StoreInv
<1>1. ASSUME NEW c \in Captures, Load(c) PROVE WarmInv'
  <2>1. StoreInv'
    BY <1>1, StoreLoad
  <2>2. /\ pc' = "loaded" /\ section'.epoch = epoch
        /\ UNCHANGED <<file, published, epoch, appended>>
    BY <1>1 DEF Load, NoSection
  <2>3. loaded' = file
    BY <2>1, <2>2 DEF StoreInv
  <2> QED BY <2>2, <2>3 DEF WarmInv
<1>2. CASE attach_advisories_with_history
  <2>1. section'.notice = NoticeOf(Len(loaded)) /\ section'.epoch = section.epoch
    BY <1>2, AdvisedSection
  <2>2. pc = "loaded" /\ pc' = "advised" /\ UNCHANGED <<loaded, file, published, epoch>>
    BY <1>2 DEF attach_advisories_with_history
  <2>3. Len(loaded) \in Nat
    BY <2>2 DEF StoreInv
  <2>4. section'.notice \in Notices
    BY <2>1, <2>3, WarmthRises
  <2>5. Maturity(section') = Warmth(Len(loaded))
    BY <2>1 DEF Maturity, Warmth
  <2> QED BY <2>1, <2>2, <2>4, <2>5 DEF WarmInv
<1>3. CASE OpenTmp
  BY <1>3 DEF OpenTmp, WarmInv
<1>4. CASE WriteTmp
  BY <1>4 DEF WriteTmp, WarmInv, run
<1>5. CASE ReplaceFile
  <2>1. /\ pc = "written" /\ pc' = "appended" /\ UNCHANGED <<section, published, epoch, loaded>>
        /\ appended' = appended \o current
    BY <1>5 DEF ReplaceFile, run
  <2>2. StoreInv'
    BY <1>5, StoreReplace
  <2>3. file' = Newest(appended', MaxWindows) /\ appended' \in Seq(Windows)
    BY <2>2 DEF StoreInv
  <2>4. current \in Seq(Windows)
    BY <2>1 DEF StoreInv
  <2>5. Len(appended) \in Nat /\ Len(appended') \in Nat /\ Len(appended) <= Len(appended')
    BY <1>0, <2>1, <2>4
  <2>6. Len(file) = Len(appended) - Excess(Len(appended), MaxWindows)
    BY <1>0, NewestIs
  <2>7. Len(file') = Len(appended') - Excess(Len(appended'), MaxWindows)
    BY <1>0, <2>3, NewestIs
  <2>8. Len(file) \in Nat /\ Len(file') \in Nat /\ Len(file) <= Len(file')
    BY <1>0, <2>5, <2>6, <2>7 DEF Excess
  <2>9. Warmth(Len(file)) <= Warmth(Len(file')) /\ NoticeOf(Len(file)) \in Notices
    BY <2>8, WarmthRises
  <2>10. NoticeOf(Len(file')) \in Notices
    BY <2>8, WarmthRises
  <2>11. Warmth(Len(file)) \in 0..2 /\ Warmth(Len(file')) \in 0..2
    BY <2>9, <2>10, MaturityTyped DEF Warmth
  <2>12. Maturity(published) \in 0..2
    BY MaturityTyped DEF WarmInv
  <2>13. published.epoch = epoch => Maturity(published) <= Warmth(Len(file'))
    BY <2>9, <2>11, <2>12 DEF WarmInv
  <2>14. section.epoch = epoch => Maturity(section) = Warmth(Len(file))
    BY <2>1 DEF StoreInv, WarmInv
  <2>15. section.epoch = epoch => Maturity(section) <= Warmth(Len(file'))
    BY <2>9, <2>11, <2>14
  <2> QED BY <2>1, <2>13, <2>15 DEF WarmInv
<1>6. CASE Publish
  <2>1. pc = "appended" /\ pc' = "idle" /\ published' = section /\ UNCHANGED <<file, epoch>>
    BY <1>6 DEF Publish, EndRun
  <2>2. section.epoch \in Nat /\ section.epoch <= epoch
    BY <2>1 DEF StoreInv
  <2> QED BY <2>1, <2>2 DEF WarmInv
<1>7. CASE Abort
  BY <1>7 DEF Abort, EndRun, WarmInv
<1>8. CASE HistoryDeleted
  <2>1. epoch' = epoch + 1 /\ UNCHANGED <<pc, section, loaded, published>>
    BY <1>8 DEF HistoryDeleted, run
  <2>2. published.epoch \in Int /\ published.epoch <= epoch + 1 /\ published.epoch # epoch + 1
    BY <1>0 DEF WarmInv
  <2>3. pc = "appended" => section.epoch # epoch + 1
    BY <1>0 DEF StoreInv
  <2> QED BY <2>1, <2>2, <2>3 DEF WarmInv
<1>9. CASE UNCHANGED AdvisoryVars
  BY <1>9 DEF AdvisoryVars, run, WarmInv
<1> QED BY <1>1, <1>2, <1>3, <1>4, <1>5, <1>6, <1>7, <1>8, <1>9 DEF AdvisoryNext

\* A published report never calls the history shorter than an earlier one did, as long as
\* nobody deletes it, although runs die while they append (append_windows).
THEOREM WarmupIsMonotone == AdvisorySpec => WarmupNeverRegresses
<1>1. AdvisoryInit => StoreInv /\ WarmInv
  BY StoreInit, WarmInit
<1>2. StoreInv /\ WarmInv /\ [AdvisoryNext]_AdvisoryVars => StoreInv' /\ WarmInv'
  BY StoreStep, WarmStep
<1>3. WarmInv /\ [AdvisoryNext]_AdvisoryVars =>
        [published' # published /\ published'.epoch = published.epoch
           => Maturity(published') >= Maturity(published)]_AdvisoryVars
  <2> SUFFICES ASSUME WarmInv, AdvisoryNext, published' # published, published'.epoch = published.epoch
               PROVE  Maturity(published') >= Maturity(published)
    OBVIOUS
  <2>1. Publish
    BY DEF AdvisoryNext, Load, attach_advisories_with_history, OpenTmp, WriteTmp, ReplaceFile, Abort, HistoryDeleted
  <2>2. pc = "appended" /\ published' = section
    BY <2>1 DEF Publish
  <2>3. Maturity(published) <= Maturity(section)
    BY <2>2 DEF WarmInv, Advised
  <2>4. Maturity(published') = Maturity(section)
    BY <2>2 DEF Maturity
  <2>5. section.notice \in Notices /\ published.notice \in Notices
    BY <2>2 DEF WarmInv, Advised
  <2>6. Maturity(section) \in 0..2 /\ Maturity(published) \in 0..2
    BY <2>5, MaturityTyped
  <2> QED BY <2>3, <2>4, <2>6
<1> QED BY <1>1, <1>2, <1>3, PTL DEF AdvisorySpec, WarmupNeverRegresses

=============================================================================
