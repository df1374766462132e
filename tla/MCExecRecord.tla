----------------------------- MODULE MCExecRecord -----------------------------
(* Small directories for TLC: one daemon alone, or a daemon and a command.  *)
EXTENDS ExecRecord, TLC

CONSTANTS srv, dbg, cmd, r1, r2, a1, e1

Symmetry == Permutations(Call) \cup Permutations(Gateway)
=============================================================================
