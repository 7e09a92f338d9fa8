----------------------------- MODULE MCAvScan -----------------------------
(* A tree of two files at two depths, which may become directories and be   *)
(* too deep; a name that may appear and be one entry too many; and a path   *)
(* that is too long.  The files may be one inode.                           *)
EXTENDS AvScan

CONSTANTS root, a, sub, b, late, far

MCParent == [n \in {a, sub, b, late, far} |-> IF n \in {a, sub} THEN root ELSE sub]
MCKind0  == [n \in Nodes |-> CASE n \in {root, sub} -> {"dir"}
                              [] n \in {a, b}      -> {"file"}
                              [] n = late          -> {"absent"}
                              [] n = far           -> {"absent", "file"}]
=============================================================================
