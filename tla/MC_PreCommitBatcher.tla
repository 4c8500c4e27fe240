------------------------ MODULE MC_PreCommitBatcher -------------------------
(* Model-checking instance of PreCommitBatcher: two sectors, two         *)
(* AddPreCommit calls (which may pre-commit the same sector, as an FSM     *)
(* retry does while the first caller is still parked), one Flush, batches *)
(* of two.                                                                 *)
EXTENDS PreCommitBatcher

CONSTANTS s1, s2, c1, c2, f1

MCSectors == {s1, s2}
MCCallers == {c1, c2}
MCFlushers == {f1}

\* A cutoff epoch already behind the head (clamped to now by
\* getPreCommitCutoff) and one two epochs ahead.
MCCutoffDistances == {-3, 2}

\* The liveness runs leave Flush out; the safety run covers it.
MCNoFlushers == {}

\* Symmetry of sectors and calls, used only by the safety runs.
MCSymmetry == Permutations(MCSectors) \cup Permutations(MCCallers)
=============================================================================
