----------------------------- MODULE MCDebugLog -----------------------------
(* Instance of DebugLog for TLC: at most two files, an interval of two     *)
(* units.                                                                  *)
EXTENDS DebugLog, TLC

CONSTANTS p, q

FewFiles == {{}, {0, 1}}

EitherWay == Permutations(Process)
=============================================================================
