---------------------------- MODULE MCExportJobs ----------------------------
(* Instances of ExportJobs for TLC: which database each job exports.       *)
EXTENDS ExportJobs, TLC

SameDb == [j \in Jobs |-> "db"]

RequestSymmetry == Permutations(Requests)
=============================================================================
