----------------------------- MODULE MCAvUpdate -----------------------------
(* Two updaters, one in C and one in Python; two temporary names; the       *)
(* original database, a newer one, and one that only the Python parser      *)
(* accepts.  A one-unit prefix of the newer database parses too, so that    *)
(* the parser alone would not keep a torn file out.                         *)
EXTENDS AvUpdate, TLC

CONSTANTS old, new, dup

MCSize == [c \in Contents |-> IF c = new THEN 2 ELSE 1]
MCAcceptedC == {<<old, 1>>, <<new, 1>>, <<new, 2>>}
TempNames == Permutations(Temps)
MCAcceptedPy == MCAcceptedC \cup {<<dup, 1>>}
=============================================================================
