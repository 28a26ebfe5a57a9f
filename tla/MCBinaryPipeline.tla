-------------------------- MODULE MCBinaryPipeline --------------------------
(* A small instance of BinaryPipeline for TLC: two runs for two commits, one  *)
(* of which may be re-run.                                                    *)
EXTENDS BinaryPipeline

CONSTANTS run1, run2, nobody

TwoRuns == {run1, run2}
OneTarget == {"linux"}
MCCommits == {"c1", "c2"}
MCAttempts == [r \in TwoRuns |-> IF r = run1 THEN 2 ELSE 1]
MCCommitOf == [r \in TwoRuns |-> IF r = run1 THEN "c1" ELSE "c2"]

=============================================================================
