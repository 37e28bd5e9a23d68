---------------------------- MODULE MCCloneBatch ----------------------------
(* Instances of CloneBatch for TLC: one target to create, the others there *)
(* already.                                                                *)
EXTENDS CloneBatch, TLC

CONSTANTS created

MixedMode == [d \in Dbs |-> IF d = created THEN "new" ELSE "existing"]

(* Nothing but CreateBatch and RetryFailed tells two batches apart, and    *)
(* those take any two.                                                     *)
BatchSymmetry == Permutations(Batches)
=============================================================================
