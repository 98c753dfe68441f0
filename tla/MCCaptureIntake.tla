--------------------------- MODULE MCCaptureIntake ---------------------------
(* Four uploads drawn from captures of none to four chunks: an empty one, one *)
(* whose first bytes are wrong, a small one, one the data root cannot take    *)
(* although its size is allowed, and one over the limit of a capture.         *)
EXTENDS CaptureIntake, TLC

CONSTANTS u1, u2, u3, u4, empty, wrong, small, large, huge

MCSizes == [i \in Identities |-> CASE i \in {small, wrong} -> 1 [] i = large -> 3
                                   [] i = huge -> 4 [] OTHER -> 0]
UploadSymmetry == Permutations(Uploads)
==============================================================================
