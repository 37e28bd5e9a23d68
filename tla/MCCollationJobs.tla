--------------------------- MODULE MCCollationJobs ---------------------------
(* Two databases and a job on each, planned alone or in a batch.             *)
(* A change of the inventory changes the plan of the whole selection.        *)
EXTENDS CollationJobs, TLC

CONSTANTS j1, j2, d1, d2

MCOrder == <<j1, j2>>
MCDb == (j1 :> d1) @@ (j2 :> d2)
MCPlan == "all" :> (0 :> "all0" @@ 1 :> "all1")
=============================================================================
