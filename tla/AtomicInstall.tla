--------------------------- MODULE AtomicInstall ---------------------------
(***************************************************************************)
(* What `antivermis --update-db` promises the readers of a signature       *)
(* database: the destination only ever changes from one complete database  *)
(* to another.  An install puts in place a whole database that a manifest  *)
(* approved and a parser accepted; a power loss may take the destination   *)
(* back to something it held before, never to a mixture.                   *)
(***************************************************************************)
CONSTANTS Contents,    \* the bytes a database file may hold
          Acceptable,  \* the contents at least one parser accepts whole
          Foreign      \* what else can be at the path: absent, a symlink...

VARIABLES installed,   \* what the destination path names
          past,        \* everything it may return to after a power loss
          approved     \* the contents some published manifest named

vars == <<installed, past, approved>>

Init == /\ installed \in Contents \cup Foreign
        /\ past = {installed}
        /\ approved \in SUBSET Contents

Approve(c) == /\ approved' = approved \cup {c}
              /\ UNCHANGED <<installed, past>>

Install(c) == /\ c \in approved \cap Acceptable
              /\ installed' = c
              /\ past' = past \cup {c}
              /\ UNCHANGED approved

Replace(x) == /\ installed' = x
              /\ past' = past \cup {x}
              /\ UNCHANGED approved

PowerLoss == /\ installed' \in past
             /\ past' = {installed'}
             /\ UNCHANGED approved

Next == \/ \E c \in Contents : Approve(c) \/ Install(c)
        \/ \E x \in Foreign : Replace(x)
        \/ PowerLoss

Spec == Init /\ [][Next]_vars
============================================================================
