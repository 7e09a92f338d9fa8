------------------------------- MODULE SigDb -------------------------------
(***************************************************************************)
(* What the two scanners make of the text of a signature database:         *)
(* load_database and signature_label of c/antivermis.c, parse_database of  *)
(* antivermis.py and the lookup in its scan.  A database is a sequence of  *)
(* names of lines, as Python's splitlines breaks it, and Line says what    *)
(* such a line consists of.  C breaks lines only at LF: it ignores what    *)
(* follows a CR, and reads on over form feeds and other controls at which  *)
(* Python breaks.  The case of hex digits and blanks before a line are     *)
(* left out, and a label is known by its length.                           *)
(***************************************************************************)
EXTENDS BoundedRead, FiniteSetsExt

CONSTANTS Line,            \* what each line consists of
          FileSizes,       \* sizes of the files that are looked up
          MaxSignatures,   \* AV_MAX_SIGNATURES, MAX_SIGNATURES
          LabelSize,       \* AV_LABEL_SIZE
          PyLabelSize      \* the longest label that Python allows

(* A record is a digest and a label, or a ClamAV line with a size between   *)
(* them: "*", digits, digits too many for 64 bits, digits with a sign, or   *)
(* anything else.  sizes are those of the files it fits.                    *)
RecordKinds == {"plain", "any", "digits", "huge", "signed", "junk"}

(* A line ends with LF or CR LF ("nl"), with a CR alone ("cr"), or with     *)
(* another control that is a line break for Python only ("control").        *)
LineEnds == {"nl", "cr", "control"}

(* label is without the blanks behind it, of which there are blanks; length *)
(* is that of the whole line.                                               *)
ASSUME LineAssumption ==
  /\ {MaxSignatures, LabelSize, PyLabelSize} \subseteq Nat
  /\ LabelSize <= PyLabelSize + 1
  /\ \A n \in DOMAIN Line :
       /\ Line[n].kind \in RecordKinds \cup {"blank", "comment", "nul", "header", "nocolon"}
       /\ Line[n].end \in LineEnds /\ Line[n].length \in Nat
       /\ Line[n].kind \in RecordKinds => /\ {Line[n].label, Line[n].blanks} \subseteq Nat
                                          /\ Line[n].sizes \subseteq FileSizes
       /\ Line[n].kind \in {"plain", "any"} => Line[n].sizes = FileSizes

RecordsOf(db) == {i \in DOMAIN db : Line[db[i]].kind \in RecordKinds}

-----------------------------------------------------------------------------
(* C *)

(* The lines at whose start strtok_r puts C, and the records among them. *)
CStarts(db) == {i \in DOMAIN db : i = 1 \/ Line[db[i - 1]].end = "nl"}
CRecords(db) == RecordsOf(db) \cap CStarts(db)

(* The further lines that C takes for the rest of line i. *)
RunsOn(db, i) == {j \in i + 1 .. Len(db) : \A k \in i .. j - 1 : Line[db[k]].end = "control"}

(* How many characters those have, with the controls between. *)
Appended(db, i) ==
  LET Size(j) == Line[db[j]].length + (IF Line[db[j]].end = "control" THEN 1 ELSE 0)
  IN 1 + MapThenSumSet(Size, RunsOn(db, i))

(* What the label of record i has in C behind it: blanks, which only Python *)
(* strips, and all that follows up to a CR or LF.                           *)
Behind(db, i) ==
  Line[db[i]].blanks + (IF Line[db[i]].end = "control" THEN Appended(db, i) ELSE 0)

(* The lines that load_database refuses.  It takes the header for a record  *)
(* with a bad digest, and so a control at the start of a line.              *)
CRefuses(db, i) ==
  LET l == Line[db[i]]
  IN \/ l.kind \in {"header", "nocolon", "huge", "junk"}
     \/ l.kind = "blank" /\ l.end = "control"
     \/ l.kind \in RecordKinds /\ (l.hash = "bad" \/ l.label + Behind(db, i) \notin 1..LabelSize - 1)

Doubled(db) == \E i, j \in CRecords(db) : i # j /\ Line[db[i]].hash = Line[db[j]].hash

CLoads(db) ==
  /\ \A i \in DOMAIN db : Line[db[i]].kind # "nul"
  /\ \A i \in CStarts(db) : ~CRefuses(db, i)
  /\ Cardinality(CRecords(db)) <= MaxSignatures
  /\ ~Doubled(db)

(* Mutant of CFinds: the size of the file is not compared. *)
CFindsAnySize(db, hash, size) ==
  LET found == {i \in CRecords(db) : Line[db[i]].hash = hash}
  IN IF found # {} THEN {CHOOSE i \in found : TRUE} ELSE {}

(* signature_label: the record that bsearch finds, if its size fits. *)
CFinds(db, hash, size) ==
  LET found == {i \in CRecords(db) : Line[db[i]].hash = hash}
      match == CHOOSE i \in found : TRUE
  IN IF found # {} /\ size \in Line[db[match]].sizes THEN {match} ELSE {}

(* Its label, and what is behind that. *)
CLabels(db, hash, size) ==
  {<<Line[db[i]].label, Behind(db, i)>> : i \in CFinds(db, hash, size)}

-----------------------------------------------------------------------------
(* Python *)

PyRefuses(l) ==
  \/ l.kind \in {"nul", "nocolon", "signed", "junk"}
  \/ l.kind \in RecordKinds /\ (l.hash = "bad" \/ l.label = 0 \/ l.label > PyLabelSize)

PyLoads(db) ==
  /\ \A i \in DOMAIN db : ~PyRefuses(Line[db[i]])
  /\ Cardinality(RecordsOf(db)) <= MaxSignatures

(* scan of antivermis.py: every record of the digest whose size fits. *)
PyFinds(db, hash, size) ==
  {i \in RecordsOf(db) : Line[db[i]].hash = hash /\ size \in Line[db[i]].sizes}

(* Their labels, and the blanks that strip removed behind them. *)
PyLabels(db, hash, size) ==
  {<<Line[db[i]].label, Line[db[i]].blanks>> : i \in PyFinds(db, hash, size)}

-----------------------------------------------------------------------------
(* Safety *)

(* README.md, "signature database": digest and short label, or a ClamAV     *)
(* line with a size or "*"; no more records than the limit, and here no two *)
(* with one digest, which only C minds.                                     *)
Documented(db) ==
  /\ \A i \in DOMAIN db :
       /\ Line[db[i]].end = "nl"
       /\ \/ Line[db[i]].kind \in {"blank", "comment"}
          \/ /\ Line[db[i]].kind \in {"plain", "any", "digits"}
             /\ Line[db[i]].hash # "bad"
             /\ Line[db[i]].label > 0 /\ Line[db[i]].label + Line[db[i]].blanks < LabelSize
  /\ Cardinality(RecordsOf(db)) <= MaxSignatures
  /\ ~Doubled(db)

(* No line ends with one of these. *)
Without(db, ends) == \A i \in DOMAIN db : Line[db[i]].end \notin ends

(* How far the two parsers, which were written apart, agree on the database *)
(* that was read.  Both load it if it has the documented format.  If both   *)
(* load it, a file that C reports is reported by Python; if no control but  *)
(* CR and LF breaks a line, under C's label, but for blanks behind it; and  *)
(* if no CR alone does, under no other, and Python reports no file that C   *)
(* does not.                                                                *)
SignaturesAgree ==
  (result = "read" /\ program \in DbPrograms /\ \A i \in DOMAIN buffer : buffer[i] \in DOMAIN Line) =>
    /\ Documented(buffer) => CLoads(buffer) /\ PyLoads(buffer)
    /\ CLoads(buffer) /\ PyLoads(buffer) =>
         \A i \in RecordsOf(buffer), size \in FileSizes :
           LET hash == Line[buffer[i]].hash
               inC == CLabels(buffer, hash, size)
               inPython == PyLabels(buffer, hash, size)
           IN /\ inC # {} => inPython # {}
              /\ Without(buffer, {"control"}) => inC \subseteq inPython
              /\ Without(buffer, {"control", "cr"}) => inPython = inC
=============================================================================
