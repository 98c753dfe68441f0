--------------------------- MODULE MCReportCatalog ---------------------------
(* Small instances of ReportCatalog for TLC. *)
EXTENDS ReportCatalog, TLC

CaseSymmetry == Permutations(Cases)
==============================================================================
