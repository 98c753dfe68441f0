---------------------------- MODULE ReportCatalog ----------------------------
(***************************************************************************)
(* The report root: {case_id}.report.json files and catalog.json, written  *)
(* by FilesystemCatalogPublisher.publish_report in the worker and read by  *)
(* FilesystemReportRepository in the API process, without a lock.          *)
(*                                                                         *)
(* There is one publisher: the worker runs one job at a time, and more     *)
(* than one worker on a report root is documented as unsupported.  Its     *)
(* temporary files are read by nobody, so writing one is part of the step  *)
(* before its os.replace.  A report is identified by the number of the     *)
(* publish_report call that wrote it.                                      *)
(***************************************************************************)
EXTENDS Integers, FiniteSets

CONSTANTS
    Cases,          \* case ids
    Readers,        \* API requests that read the catalog
    MaxReports,     \* max_report_count of publisher and repository
    MaxPublishes,   \* bound: calls of publish_report
    MaxPowerLosses  \* bound: times the machine loses power

ASSUME CasesAssumption == IsFiniteSet(Cases)
ASSUME BoundsAssumption == /\ MaxReports \in Nat \ {0}
                           /\ MaxPublishes \in Nat /\ MaxPowerLosses \in Nat

NoReport == 0
Torn == -1                          \* zero length or partly written
Contents == -1..MaxPublishes

CatalogFile == [valid : BOOLEAN, cases : SUBSET Cases]
EmptyCatalog == [valid |-> TRUE, cases |-> {}]     \* also what no file reads as
Garbage == [valid |-> FALSE, cases |-> {}]

VARIABLES
    report,     \* report[c]: what {c}.report.json holds
    catalog,    \* what catalog.json holds
    disk,       \* the part of both that has reached stable storage
    pub,        \* local state of publish_report
    issued,     \* calls of publish_report so far
    acked,      \* acked[c]: the last call for c that returned
    read,       \* read[r]: local state and result of a read
    losses      \* power losses so far

vars == <<report, catalog, disk, pub, issued, acked, read, losses>>

Idle == [at |-> "idle"]

Publishing == [at : {"report", "load"}, case : Cases, n : 1..MaxPublishes]
    \cup [at : {"catalog"}, case : Cases, n : 1..MaxPublishes, items : SUBSET Cases]

Reading ==
    [at : {"report"}, case : Cases, floor : 0..MaxPublishes]
    \cup [at : {"sizes"}, paths : SUBSET Cases, floor : SUBSET Cases]

Done ==
    [at : {"got"}, content : Contents, floor : 0..MaxPublishes]
    \cup [at : {"listed"}, cases : SUBSET Cases, floor : SUBSET Cases]
    \cup [at : {"error"}]

TypeOK ==
    /\ report \in [Cases -> Contents]
    /\ catalog \in CatalogFile
    /\ disk \in [report : [Cases -> Contents], catalog : CatalogFile]
    /\ pub \in {Idle} \cup Publishing
    /\ issued \in 0..MaxPublishes
    /\ acked \in [Cases -> 0..MaxPublishes]
    /\ read \in [Readers -> {Idle} \cup Reading \cup Done]
    /\ losses \in 0..MaxPowerLosses

Init ==
    /\ report = [c \in Cases |-> NoReport]
    /\ catalog = EmptyCatalog
    /\ disk = [report |-> report, catalog |-> catalog]
    /\ pub = Idle
    /\ issued = 0
    /\ acked = [c \in Cases |-> 0]
    /\ read = [r \in Readers |-> Idle]
    /\ losses = 0

-----------------------------------------------------------------------------
(* publish_report *)

(* The call, its checks and the temporary report file. *)
StartPublish(c) ==
    /\ pub = Idle
    /\ issued < MaxPublishes
    /\ issued' = issued + 1
    /\ pub' = [at |-> "report", case |-> c, n |-> issued + 1]
    /\ UNCHANGED <<report, catalog, disk, acked, read, losses>>

(* Mutant: the catalog is updated first, the report file afterwards. *)
ReplaceReportLast ==
    /\ pub.at = "report"
    /\ catalog' = [valid |-> TRUE, cases |-> catalog.cases \cup {pub.case}]
    /\ pub' = [at |-> "load", case |-> pub.case, n |-> pub.n]
    /\ UNCHANGED <<report, disk, issued, acked, read, losses>>

ReplaceReport ==
    /\ pub.at = "report"
    /\ report' = [report EXCEPT ![pub.case] = pub.n]
    /\ pub' = [pub EXCEPT !.at = "load"]
    /\ UNCHANGED <<catalog, disk, issued, acked, read, losses>>

(* Mutant: the entries of other cases are not carried over. *)
ItemsOfThisCase == {pub.case}

(* The items read from catalog.json, with this case replaced or added. *)
Items == catalog.cases \cup {pub.case}

(* Mutant: the number of entries is compared before the new one is appended. *)
LoadItemsCountsOld ==
    /\ pub.at = "load"
    /\ catalog.valid
    /\ Cardinality(catalog.cases) <= MaxReports
    /\ pub' = [at |-> "catalog", case |-> pub.case, n |-> pub.n, items |-> Items]
    /\ UNCHANGED <<report, catalog, disk, issued, acked, read, losses>>

(* Mutant: an invalid catalog.json is read as an empty one. *)
LoadItemsIgnoresDamage ==
    /\ pub.at = "load"
    /\ Cardinality(Items) <= MaxReports
    /\ pub' = [at |-> "catalog", case |-> pub.case, n |-> pub.n, items |-> Items]
    /\ UNCHANGED <<report, catalog, disk, issued, acked, read, losses>>

LoadItems ==
    /\ pub.at = "load"
    /\ catalog.valid
    /\ Cardinality(Items) <= MaxReports
    /\ pub' = [at |-> "catalog", case |-> pub.case, n |-> pub.n, items |-> Items]
    /\ UNCHANGED <<report, catalog, disk, issued, acked, read, losses>>

ReplaceCatalog ==
    /\ pub.at = "catalog"
    /\ catalog' = [valid |-> TRUE, cases |-> pub.items]
    /\ acked' = [acked EXCEPT ![pub.case] = pub.n]
    /\ pub' = Idle
    /\ UNCHANGED <<report, disk, issued, read, losses>>

(* publish_report raises (catalog.json invalid or full, a file that cannot be *)
(* written), or the worker process dies: nothing is rolled back.              *)
StopPublish ==
    /\ pub # Idle
    /\ pub' = Idle
    /\ UNCHANGED <<report, catalog, disk, issued, acked, read, losses>>

-----------------------------------------------------------------------------
(* get_report and list_reports: catalog.json first, then the files it names. *)

_load_catalog_paths == catalog.valid /\ Cardinality(catalog.cases) <= MaxReports

Answer(r, a) ==
    /\ read' = [read EXCEPT ![r] = a]
    /\ UNCHANGED <<report, catalog, disk, pub, issued, acked, losses>>

CatalogRaises(r) ==
    /\ read[r] = Idle
    /\ ~ _load_catalog_paths
    /\ Answer(r, [at |-> "error"])

get_report(r, c) ==
    /\ read[r] = Idle
    /\ _load_catalog_paths
    /\ \/ c \in catalog.cases /\ Answer(r, [at |-> "report", case |-> c, floor |-> acked[c]])
       \/ c \notin catalog.cases
            /\ Answer(r, [at |-> "got", content |-> NoReport, floor |-> acked[c]])

ReadReport(r) ==
    /\ read[r].at = "report"
    /\ \/ report[read[r].case] = NoReport /\ Answer(r, [at |-> "error"])
       \/ report[read[r].case] # NoReport
            /\ Answer(r, [at |-> "got", content |-> report[read[r].case], floor |-> read[r].floor])

list_reports(r) ==
    /\ read[r] = Idle
    /\ _load_catalog_paths
    /\ Answer(r, [at |-> "sizes", paths |-> catalog.cases, floor |-> {c \in Cases : acked[c] > 0}])

SafeSizes(r) ==
    LET missing == {c \in read[r].paths : report[c] = NoReport}
    IN  /\ read[r].at = "sizes"
        /\ \/ missing # {} /\ Answer(r, [at |-> "error"])
           \/ missing = {}
                /\ Answer(r, [at |-> "listed", cases |-> read[r].paths, floor |-> read[r].floor])

NextRequest(r) ==
    /\ read[r] \in Done
    /\ Answer(r, Idle)

-----------------------------------------------------------------------------
(* External: the kernel writes pages back when it likes; after a power loss  *)
(* a file replaced without fsync is the old one, the new one or empty.       *)
Writeback ==
    /\ disk # [report |-> report, catalog |-> catalog]
    /\ disk' = [report |-> report, catalog |-> catalog]
    /\ UNCHANGED <<report, catalog, pub, issued, acked, read, losses>>

Survivors(old, new, lost) == IF old = new THEN {old} ELSE {old, new, lost}

PowerLoss ==
    /\ losses < MaxPowerLosses
    /\ losses' = losses + 1
    /\ report' \in {f \in [Cases -> Contents] :
                        \A c \in Cases : f[c] \in Survivors(disk.report[c], report[c], Torn)}
    /\ catalog' \in Survivors(disk.catalog, catalog, Garbage)
    /\ disk' = [report |-> report', catalog |-> catalog']
    /\ pub' = Idle
    /\ read' = [r \in Readers |-> Idle]
    /\ UNCHANGED <<issued, acked>>

Next ==
    \/ \E c \in Cases : StartPublish(c)
    \/ ReplaceReport \/ LoadItems \/ ReplaceCatalog \/ StopPublish
    \/ \E r \in Readers :
        \/ \E c \in Cases : get_report(r, c)
        \/ CatalogRaises(r) \/ ReadReport(r) \/ list_reports(r) \/ SafeSizes(r) \/ NextRequest(r)
    \/ Writeback \/ PowerLoss

Spec == Init /\ [][Next]_vars

-----------------------------------------------------------------------------
(* Readers hold no lock, yet while the machine stays up no request ever      *)
(* meets an invalid or overfull catalog or a report that is missing.         *)
ReadersNeverFail == losses = 0 => \A r \in Readers : read[r].at # "error"

(* While the machine stays up, a read that starts after publish_report(c)    *)
(* returned serves that report or a later one of c, and a listing has every  *)
(* case published before it began, however the read interleaves with the     *)
(* next publication.                                                         *)
PublishedIsServed ==
    losses = 0 => \A r \in Readers :
        /\ read[r].at = "got" => read[r].content >= read[r].floor
        /\ read[r].at = "listed" => read[r].floor \subseteq read[r].cases

(* Between any two steps of publish_report, every entry of catalog.json      *)
(* names a complete report file and the catalog is one the repository reads. *)
CatalogIsReadable ==
    losses = 0 =>
        /\ _load_catalog_paths
        /\ \A c \in catalog.cases : report[c] >= 1 /\ report[c] >= acked[c]
        /\ \A c \in Cases : acked[c] > 0 => c \in catalog.cases

(* What makes the three hold step by step, while the machine stays up: where  *)
(* publish_report is, and what a reader that has loaded the catalog relies on. *)
PublisherInv ==
    losses = 0 =>
        /\ \A c \in Cases : report[c] <= issued /\ acked[c] <= issued
        /\ pub # Idle => pub.n = issued
        /\ pub.at \in {"load", "catalog"} => report[pub.case] = pub.n
        /\ pub.at = "catalog" => pub.items = Items /\ Cardinality(pub.items) <= MaxReports

ReaderInv ==
    losses = 0 => \A r \in Readers :
        /\ read[r].at = "report" => /\ read[r].case \in catalog.cases
                                   /\ read[r].floor <= report[read[r].case]
        /\ read[r].at = "sizes" => /\ read[r].paths \subseteq catalog.cases
                                  /\ read[r].floor \subseteq read[r].paths

(* A damaged catalog.json is never papered over: until somebody repairs it,  *)
(* no publication replaces it by a catalog that has lost the older cases.    *)
DamageIsNeverHidden ==
    [][~ catalog.valid => catalog' = catalog \/ losses' # losses]_vars
==============================================================================
