------------------------- MODULE BoundedReadProofs -------------------------
(***************************************************************************)
(* Proofs about BoundedRead, for any files, limits, chunks and changes,    *)
(* about what SigDb says of a database that was read, about what FileHash  *)
(* makes of the pieces in which a file is read, for any size of them, and  *)
(* about the validator of JsonFormat: for any text, and any limit on       *)
(* nesting, it accepts what the grammar of JsonGrammar allows.             *)
(***************************************************************************)
EXTENDS ReadJson, SigDb, SequenceTheorems, WellFoundedInduction, TLAPS

(* As long as nobody changes the file, what was read of it is its start.    *)
Kept ==
  ~changed => /\ Len(buffer) <= Len(file)
              /\ \A i \in 1..Len(buffer) : buffer[i] = file[i]

(* What is known by the time the reader is at each step. *)
Phases ==
  /\ pc \in {"open", "read", "check", "close"} => result = "none"
  /\ pc = "open" => Len(buffer) = 0
  /\ pc = "print" => result = "read" /\ program \in CPrograms
  /\ pc = "exit" => result = "printed" /\ program \in CPrograms
  /\ pc = "close" => program \in CPrograms
  /\ pc = "check" => program \notin CPrograms
  /\ pc = "done" => result # "none"
  /\ Reading => kind \in Supported
  /\ pc \in {"check", "close"} /\ ~changed => Len(file) <= Len(buffer)

(* Where the size that was seen counts, it is that of the file, until that  *)
(* changes.                                                                 *)
Sized ==
  /\ program \in DbPrograms \cup ShaPrograms /\ Reading /\ ~changed => capacity = Len(file)
  /\ program \in DbPrograms /\ pc = "check" => Len(buffer) = capacity

Inv == ReadTypeOK /\ Kept /\ Phases /\ Sized /\ ReadsWhole /\ RefusalHasCause

-----------------------------------------------------------------------------

(* The bounds are numbers. *)
LEMMA Bounds ==
  /\ MaxInput \in Nat /\ MaxInput > 0 /\ Initial \in Nat /\ Initial > 0 /\ Events \in Nat
  /\ Limit \in Nat /\ Limit >= MaxInput
  /\ Smaller(Initial, MaxInput) \in 0..MaxInput
<1>1. MaxInput \in Nat /\ MaxInput > 0 /\ Initial \in Nat /\ Initial > 0 /\ Events \in Nat
  BY ReadAssumption
<1> QED
  BY <1>1 DEF Limit, Smaller

(* Nothing has been read at the start. *)
LEMMA InitInv == ReadInit => Inv
<1> SUFFICES ASSUME ReadInit PROVE Inv
  OBVIOUS
<1> USE DEF ReadInit
<1>1. file \in Seq(Characters) /\ buffer \in Seq(Characters) /\ Len(buffer) = 0
  BY ReadAssumption, EmptySeq
<1>2. ReadTypeOK
  <2>1. program \in CPrograms \cup DbPrograms \cup PyPrograms \cup ShaPrograms
    OBVIOUS
  <2>2. capacity \in 0..Limit /\ Len(buffer) <= capacity
    BY <1>1, Bounds
  <2>3. events \in 0..Events
    <3>1. events = Events \/ events = 0
      OBVIOUS
    <3> QED
      BY <3>1, Bounds
  <2> QED
    BY <1>1, <2>1, <2>2, <2>3 DEF ReadTypeOK
<1>3. Kept
  BY <1>1 DEF Kept
<1>4. Phases /\ Sized
  BY <1>1 DEF Phases, Sized, Reading
<1>5. ReadsWhole /\ RefusalHasCause
  BY DEF ReadsWhole, RefusalHasCause
<1> QED
  BY <1>2, <1>3, <1>4, <1>5 DEF Inv

(* One read of n characters goes on with the file where the last one ended. *)
LEMMA ReadAppends ==
  ASSUME Inv, NEW n \in 1..Smaller(Left, Wanted), Read(n)
  PROVE  /\ buffer' \in Seq(Characters)
         /\ Len(buffer') = Len(buffer) + n
         /\ program \notin ShaPrograms => Len(buffer') <= capacity
         /\ Len(buffer') <= Len(file)
         /\ ~changed => \A i \in 1..Len(buffer') : buffer'[i] = file[i]
<1> DEFINE more == SubSeq(file, Len(buffer) + 1, Len(buffer) + n)
<1>1. /\ file \in Seq(Characters) /\ buffer \in Seq(Characters)
      /\ Len(file) \in Nat /\ Len(buffer) \in Nat /\ capacity \in Nat
  BY LenProperties, ReadAssumption DEF Inv, ReadTypeOK, Limit
<1>2. /\ n \in Nat /\ n >= 1 /\ n <= Len(file) - Len(buffer)
      /\ program \notin ShaPrograms => n <= capacity - Len(buffer)
  BY <1>1, ReadAssumption DEF Smaller, Wanted, Left
<1>3. \A i \in Len(buffer) + 1 .. Len(buffer) + n : file[i] \in Characters
  BY <1>1, <1>2, ElementOfSeq
<1>4. /\ more \in Seq(Characters)
      /\ Len(more) = n
      /\ \A i \in 1..n : more[i] = file[Len(buffer) + i]
  <2>1. Len(buffer) + 1 \in Int /\ Len(buffer) + n \in Int
    BY <1>1
  <2>2. /\ more \in Seq(Characters)
        /\ Len(more) = IF Len(buffer) + 1 <= Len(buffer) + n
                       THEN (Len(buffer) + n) - (Len(buffer) + 1) + 1 ELSE 0
        /\ \A i \in 1 .. (Len(buffer) + n) - (Len(buffer) + 1) + 1 :
             more[i] = file[Len(buffer) + 1 + i - 1]
    BY <1>3, <2>1, SubSeqProperties
  <2>3. (Len(buffer) + n) - (Len(buffer) + 1) + 1 = n
    BY <1>1
  <2>4. \A i \in 1..n : Len(buffer) + 1 + i - 1 = Len(buffer) + i
    BY <1>1
  <2> HIDE DEF more
  <2> QED
    BY <1>1, <2>2, <2>3, <2>4
<1>5. buffer' = buffer \o more
  BY DEF Read
<1> HIDE DEF more
<1>6. /\ buffer' \in Seq(Characters)
      /\ Len(buffer') = Len(buffer) + n
      /\ \A i \in 1..Len(buffer) + n :
           buffer'[i] = IF i <= Len(buffer) THEN buffer[i] ELSE more[i - Len(buffer)]
  BY <1>1, <1>4, <1>5, ConcatProperties
<1>7. ~changed => \A i \in 1..Len(buffer') : buffer'[i] = file[i]
  <2> SUFFICES ASSUME ~changed, NEW i \in 1..Len(buffer') PROVE buffer'[i] = file[i]
    OBVIOUS
  <2>1. CASE i <= Len(buffer)
    BY <1>1, <1>6, <2>1 DEF Inv, Kept
  <2>2. CASE i > Len(buffer)
    <3>1. i - Len(buffer) \in 1..n /\ Len(buffer) + (i - Len(buffer)) = i
      BY <1>1, <1>6, <2>2
    <3> QED
      BY <1>1, <1>4, <1>6, <2>2, <3>1
  <2> QED
    BY <1>1, <1>6, <2>1, <2>2
<1> QED
  BY <1>1, <1>2, <1>6, <1>7

(* A buffer as long as the file it is a start of is that file. *)
LEMMA WholeFile ==
  ASSUME file \in Seq(Characters), buffer \in Seq(Characters),
         Kept, ~changed, Len(file) <= Len(buffer)
  PROVE  buffer = file
<1>1. Len(buffer) = Len(file)
  BY LenProperties DEF Kept
<1> QED
  BY <1>1, SeqEqual DEF Kept

(* Every step of the reader keeps the invariant. *)
LEMMA ReaderInv == ASSUME Inv, Reader PROVE Inv'
<1> USE ReadAssumption
<1>1. Len(file) \in Nat /\ Len(buffer) \in Nat
  BY LenProperties DEF Inv, ReadTypeOK
<1>2. CASE Open
  <2>1. CASE kind \notin Supported \/ TooLarge
    BY <1>1, <1>2, <2>1 DEF Open, TooLarge, End, Inv, ReadTypeOK, Kept, Phases, Sized, ReadsWhole,
       RefusalHasCause, Reading, Supported, inputVars, worldVars, Limit
  <2>2. CASE ~(kind \notin Supported \/ TooLarge)
    <3>1. /\ pc = "open" /\ pc' = "read" /\ kind \in Supported
          /\ UNCHANGED <<inputVars, worldVars, buffer, result>>
      BY <1>2, <2>2 DEF Open
    <3>2. /\ capacity' \in 0..Limit
          /\ program \in DbPrograms \cup ShaPrograms => capacity' = Len(file)
      <4>1. capacity' = Room
        BY <1>2, <2>2 DEF Open
      <4>2. kind = "regular" /\ program \notin PyPrograms => Len(file) <= MaxInput
        BY <1>1, <2>2, Bounds, ReadAssumption DEF TooLarge
      <4>3. program \in DbPrograms \cup ShaPrograms => kind = "regular"
        BY <3>1 DEF Supported
      <4> QED
        BY <1>1, <4>1, <4>2, <4>3, Bounds DEF Room, Limit
    <3> QED
      BY <1>1, <3>1, <3>2 DEF Inv, ReadTypeOK, Kept, Phases, Sized, ReadsWhole,
         RefusalHasCause, Reading, Supported, inputVars, worldVars, Limit
  <2> QED
    BY <2>1, <2>2
<1>3. CASE Grow
  BY <1>1, <1>3 DEF Grow, Inv, ReadTypeOK, Kept, Phases, Sized, ReadsWhole,
     RefusalHasCause, Reading, Supported, inputVars, worldVars, Limit, Smaller
<1>4. ASSUME NEW n \in 1..Smaller(Left, Wanted), Read(n) PROVE Inv'
  <2>1. /\ buffer' \in Seq(Characters)
        /\ Len(buffer') = Len(buffer) + n
        /\ program \notin ShaPrograms => Len(buffer') <= capacity
        /\ Len(buffer') <= Len(file)
        /\ ~changed => \A i \in 1..Len(buffer') : buffer'[i] = file[i]
    BY <1>4, ReadAppends
  <2>2. ReadTypeOK'
    <3>1. events' \in 0..Events
      BY <1>4, Bounds DEF Read, Inv, ReadTypeOK
    <3>2. /\ pc' \in {"read", "done"} /\ result' \in {result, "unread"}
          /\ UNCHANGED <<inputVars, capacity, file, changed, fault>>
      BY <1>4 DEF Read, End
    <3> QED
      BY <2>1, <3>1, <3>2 DEF Inv, ReadTypeOK, inputVars, Limit
  <2>3. Kept' /\ Phases' /\ Sized'
    BY <1>1, <1>4, <2>1 DEF Read, End, Inv, ReadTypeOK, Kept, Phases, Sized, Reading,
       Supported, inputVars
  <2>4. ReadsWhole' /\ RefusalHasCause'
    BY <1>1, <1>4, <2>1 DEF Read, End, Inv, ReadTypeOK, Phases, ReadsWhole, RefusalHasCause,
       Supported, inputVars
  <2> QED
    BY <2>2, <2>3, <2>4 DEF Inv
<1>5. CASE ReadEof
  <2>1. UNCHANGED <<inputVars, worldVars, buffer, capacity>> /\ pc = "read" /\ Left <= 0
    BY <1>5 DEF ReadEof
  <2>2. CASE program \in CPrograms
    <3>1. pc' = "close" /\ result' = result
      BY <1>5, <2>2 DEF ReadEof
    <3> QED
      BY <1>1, <2>1, <2>2, <3>1 DEF Inv, ReadTypeOK, Kept, Phases, Sized, ReadsWhole,
         RefusalHasCause, Reading, Supported, inputVars, worldVars, Limit, Left
  <2>3. CASE program \in DbPrograms
    <3>1. pc' = "done" /\ result' = "unread" /\ Len(buffer) < capacity
      <4>1. Wanted = capacity - Len(buffer) /\ capacity \in Nat
        BY <2>3, Bounds DEF Wanted, Inv, ReadTypeOK
      <4> QED
        BY <1>1, <1>5, <2>3, <4>1 DEF ReadEof, End
    <3>2. changed
      BY <1>1, <2>1, <2>3, <3>1 DEF Inv, ReadTypeOK, Sized, Reading, Left, Limit
    <3> QED
      BY <1>1, <2>1, <2>3, <3>1, <3>2 DEF Inv, ReadTypeOK, Kept, Phases, Sized, ReadsWhole,
         RefusalHasCause, Reading, Supported, inputVars, worldVars, Limit
  <2>4. CASE program \in PyPrograms \cup ShaPrograms
    <3>1. pc' = "check" /\ result' = result
      BY <1>5, <2>4 DEF ReadEof
    <3> QED
      BY <1>1, <2>1, <2>4, <3>1 DEF Inv, ReadTypeOK, Kept, Phases, Sized, ReadsWhole,
         RefusalHasCause, Reading, Supported, inputVars, worldVars, Limit, Left
  <2> QED
    BY <2>2, <2>3, <2>4 DEF Inv, ReadTypeOK
<1>6. CASE ReadExtra
  BY <1>1, <1>6 DEF ReadExtra, End, Inv, ReadTypeOK, Kept, Phases, Sized, ReadsWhole,
     RefusalHasCause, Reading, Supported, inputVars, worldVars, Limit, Left
<1>7. CASE ReadOneMore
  BY <1>1, <1>7 DEF ReadOneMore, End, Inv, ReadTypeOK, Kept, Phases, Sized, ReadsWhole,
     RefusalHasCause, Reading, Supported, inputVars, worldVars, Limit, Left
<1>8. CASE Check
  <2>1. ~changed => buffer = file
    BY <1>8, WholeFile DEF Check, Inv, ReadTypeOK, Phases
  <2> QED
    <3>1. /\ pc = "check" /\ pc' = "done"
          /\ UNCHANGED <<inputVars, worldVars, buffer, capacity>>
      BY <1>8 DEF Check, End
    <3>2. CASE result' = "unread"
      <4>1. Differs => changed
        BY <1>1, <3>1 DEF Differs, Inv, ReadTypeOK, Kept, Phases, Sized, Reading
      <4>2. changed
        BY <1>8, <3>2, <4>1 DEF Check, End
      <4> QED
        BY <3>1, <3>2, <4>2 DEF Inv, ReadTypeOK, Kept, Phases, Sized, ReadsWhole,
           RefusalHasCause, Reading, Supported, inputVars, worldVars, Limit
    <3>3. CASE result' = "read" /\ ~Differs
      <4>1. result' = "read"
        BY <3>3
      <4>2. program \in PyPrograms => ~changed
        BY <3>3 DEF Differs
      <4>3. program \in DbPrograms \cup ShaPrograms => Len(buffer) = capacity /\ Len(file) = capacity
        BY <3>1, <3>3, ReadAssumption DEF Differs, Inv, Sized
      <4> QED
        BY <2>1, <3>1, <4>1, <4>2, <4>3 DEF Inv, ReadTypeOK, Kept, Phases, Sized, ReadsWhole,
           RefusalHasCause, Reading, Supported, inputVars, worldVars, Limit
    <3> QED
      BY <1>8, <3>2, <3>3 DEF Check, End
<1>9. CASE Close
  <2>1. ~changed => buffer = file
    BY <1>9, WholeFile DEF Close, Inv, ReadTypeOK, Phases
  <2> QED
    BY <1>1, <1>9, <2>1 DEF Close, Inv, ReadTypeOK, Kept, Phases, Sized,
       ReadsWhole, RefusalHasCause, Reading, Supported, inputVars, worldVars, Limit
<1>10. CASE ReadFails
  BY <1>1, <1>10 DEF ReadFails, End, Inv, ReadTypeOK, Kept, Phases, Sized, ReadsWhole,
     RefusalHasCause, Reading, Supported, inputVars, Limit
<1> QED
  BY <1>2, <1>3, <1>4, <1>5, <1>6, <1>7, <1>8, <1>9, <1>10 DEF Reader

(* A change by others leaves a file that is still a sequence of characters. *)
LEMMA OthersInv == ASSUME Inv, Others PROVE Inv'
<1>1. file' \in Seq(Characters)
  <2>1. ASSUME NEW c \in NewText, file' = Append(file, c) PROVE file' \in Seq(Characters)
    BY <2>1, ReadAssumption DEF Inv, ReadTypeOK
  <2>2. ASSUME NEW n \in 0..Len(file), file' = SubSeq(file, 1, n)
        PROVE  file' \in Seq(Characters)
    <3>1. \A i \in 1..n : file[i] \in Characters
      BY LenProperties, ElementOfSeq DEF Inv, ReadTypeOK
    <3> QED
      BY <2>2, <3>1, SubSeqProperties
  <2>3. ASSUME NEW i \in DOMAIN file, NEW c \in NewText, file' = [file EXCEPT ![i] = c]
        PROVE  file' \in Seq(Characters)
    BY <2>3, ReadAssumption, LenProperties, ExceptSeq DEF Inv, ReadTypeOK
  <2> QED
    BY <2>1, <2>2, <2>3 DEF Others
<1>2. /\ Reading /\ changed' = TRUE
      /\ UNCHANGED <<program, kind, pc, buffer, capacity, result, fault>>
  BY DEF Others, inputVars, readVars
<1>3. events' \in 0..Events
  BY Bounds DEF Others, Inv, ReadTypeOK
<1>4. ReadTypeOK'
  BY <1>1, <1>2, <1>3 DEF Inv, ReadTypeOK, Limit
<1>5. Phases' /\ Sized'
  BY <1>2 DEF Inv, Phases, Sized, Reading, Supported
<1>6. result = "none"
  BY <1>2 DEF Inv, Phases, Reading
<1> QED
  BY <1>2, <1>4, <1>5, <1>6 DEF Inv, Kept, ReadsWhole, RefusalHasCause

(* The inductive invariant. *)
THEOREM ReadInvariance == ReadSpec => []Inv
<1>1. Inv /\ [ReadNext]_fileVars => Inv'
  <2>1. ASSUME Inv, UNCHANGED fileVars PROVE Inv'
    BY <2>1 DEF fileVars, inputVars, readVars, worldVars, Inv, ReadTypeOK, Kept, Phases,
       Sized, ReadsWhole, RefusalHasCause, Reading, Supported, Limit
  <2> QED
    BY <2>1, ReaderInv, OthersInv DEF ReadNext
<1> QED
  BY InitInv, <1>1, PTL DEF ReadSpec

(* c/common.c, pycommon.py: no buffer is written beyond its end, or made    *)
(* larger than the limit, however the file grows.                           *)
THEOREM ReadsWithinBounds == ReadSpec => []ReadTypeOK
<1>1. Inv => ReadTypeOK
  BY DEF Inv
<1> QED
  BY ReadInvariance, <1>1, PTL

(* What is made of a file is all of it at one time: in Python always, in C  *)
(* unless it was changed.                                                   *)
THEOREM AlwaysReadsWhole == ReadSpec => []ReadsWhole
<1>1. Inv => ReadsWhole
  BY DEF Inv
<1> QED
  BY ReadInvariance, <1>1, PTL

(* A file is only refused for a failed call, its type, its size or a change. *)
THEOREM RefusalAlwaysCaused == ReadSpec => []RefusalHasCause
<1>1. Inv => RefusalHasCause
  BY DEF Inv
<1> QED
  BY ReadInvariance, <1>1, PTL

-----------------------------------------------------------------------------
(* The signature database *)

(* What the documentation asks of a line, both parsers take. *)
LEMMA DocumentedLine ==
  ASSUME NEW db, \A i \in DOMAIN db : db[i] \in DOMAIN Line, Documented(db), NEW i \in DOMAIN db
  PROVE  ~CRefuses(db, i) /\ ~PyRefuses(Line[db[i]]) /\ Line[db[i]].kind # "nul"
<1> DEFINE l == Line[db[i]]
<1>1. l.end = "nl" /\ LabelSize \in Nat /\ PyLabelSize \in Nat /\ LabelSize <= PyLabelSize + 1
  BY LineAssumption DEF Documented
<1>2. CASE l.kind \in {"blank", "comment"}
  BY <1>1, <1>2 DEF CRefuses, PyRefuses, RecordKinds
<1>3. CASE l.kind \in {"plain", "any", "digits"}
  <2>1. l.hash # "bad" /\ l.label > 0 /\ l.label + l.blanks < LabelSize
    BY <1>3 DEF Documented
  <2>2. l.label \in Nat /\ l.blanks \in Nat
    BY <1>3, LineAssumption DEF RecordKinds
  <2>3. Behind(db, i) = l.blanks
    BY <1>1, <2>2 DEF Behind
  <2>4. l.label # 0 /\ ~(l.label > PyLabelSize) /\ l.label + l.blanks \in 1..LabelSize - 1
    BY <1>1, <2>1, <2>2
  <2> QED BY <1>3, <2>1, <2>3, <2>4 DEF CRefuses, PyRefuses
<1> QED BY <1>2, <1>3 DEF Documented

LEMMA DocumentedLoads ==
  ASSUME NEW db \in Seq(Characters), \A i \in DOMAIN db : db[i] \in DOMAIN Line, Documented(db)
  PROVE  CLoads(db) /\ PyLoads(db)
<1>1. \A i \in DOMAIN db : ~CRefuses(db, i) /\ ~PyRefuses(Line[db[i]]) /\ Line[db[i]].kind # "nul"
  BY DocumentedLine
<1>2. CStarts(db) = DOMAIN db
  <2>1. ASSUME NEW i \in DOMAIN db, i # 1 PROVE i - 1 \in DOMAIN db
    BY <2>1
  <2> QED BY <2>1 DEF CStarts, Documented
<1>3. CRecords(db) = RecordsOf(db)
  BY <1>2 DEF CRecords, RecordsOf
<1> QED BY <1>1, <1>2, <1>3 DEF Documented, CLoads, PyLoads

(* In a database that C loads a digest has one record of C's, which bsearch *)
(* finds.                                                                   *)
LEMMA OneRecord ==
  ASSUME NEW db, CLoads(db), NEW i \in CRecords(db), NEW size
  PROVE  CFinds(db, Line[db[i]].hash, size) = IF size \in Line[db[i]].sizes THEN {i} ELSE {}
<1> DEFINE found == {j \in CRecords(db) : Line[db[j]].hash = Line[db[i]].hash}
<1>1. found = {i}
  BY DEF CLoads, Doubled
<1>2. (CHOOSE j \in found : TRUE) = i
  BY <1>1
<1> QED BY <1>1, <1>2 DEF CFinds

(* A record that C finds, Python finds. *)
LEMMA FoundByBoth ==
  ASSUME NEW db, NEW hash, NEW size PROVE CFinds(db, hash, size) \subseteq PyFinds(db, hash, size)
<1> DEFINE found == {j \in CRecords(db) : Line[db[j]].hash = hash}
<1>1. CASE found = {}
  BY <1>1 DEF CFinds
<1>2. CASE found # {}
  <2>1. (CHOOSE j \in found : TRUE) \in found
    BY <1>2
  <2> QED BY <2>1 DEF CFinds, PyFinds, CRecords
<1> QED BY <1>1, <1>2

(* Where lines end with CR and LF alone, its label is the same in both. *)
LEMMA LabelsAgree ==
  ASSUME NEW db, \A i \in DOMAIN db : db[i] \in DOMAIN Line, Without(db, {"control"}),
         NEW hash, NEW size
  PROVE  CLabels(db, hash, size) \subseteq PyLabels(db, hash, size)
<1>1. ASSUME NEW i \in RecordsOf(db) PROVE Behind(db, i) = Line[db[i]].blanks
  <2>1. i \in DOMAIN db /\ Line[db[i]].kind \in RecordKinds
    BY DEF RecordsOf
  <2>2. Line[db[i]].blanks \in Nat /\ Line[db[i]].end # "control"
    BY <2>1, LineAssumption DEF Without
  <2> QED BY <2>2 DEF Behind
<1>2. \A i \in PyFinds(db, hash, size) : i \in RecordsOf(db)
  BY DEF PyFinds
<1> QED BY <1>1, <1>2, FoundByBoth DEF CLabels, PyLabels

(* Where all end with LF, Python finds no more records than C. *)
LEMMA NoOthers ==
  ASSUME NEW db \in Seq(Characters), \A i \in DOMAIN db : db[i] \in DOMAIN Line, CLoads(db),
         Without(db, {"control", "cr"}), NEW hash, NEW size
  PROVE  PyFinds(db, hash, size) \subseteq CFinds(db, hash, size)
<1> SUFFICES ASSUME NEW i \in PyFinds(db, hash, size) PROVE i \in CFinds(db, hash, size)
  OBVIOUS
<1>1. i \in RecordsOf(db) /\ Line[db[i]].hash = hash /\ size \in Line[db[i]].sizes
  BY DEF PyFinds
<1>2. i \in CStarts(db)
  <2>1. i \in DOMAIN db
    BY <1>1 DEF RecordsOf
  <2>2. CASE i # 1
    <3>1. i - 1 \in DOMAIN db
      BY <2>1, <2>2
    <3>2. Line[db[i - 1]].end = "nl"
      BY <3>1, LineAssumption DEF Without, LineEnds
    <3> QED BY <2>1, <3>2 DEF CStarts
  <2> QED BY <2>1, <2>2 DEF CStarts
<1> QED BY <1>1, <1>2, OneRecord DEF CRecords

(* antivermis.c and antivermis.py on every database, of any lines and any   *)
(* length: both load it if it has the documented format; and if both load   *)
(* it, Python reports what C reports, under the same label where no control *)
(* but CR and LF breaks a line, and under no other, and nothing else, where *)
(* no CR alone does.                                                        *)
THEOREM SignaturesAlwaysAgree == ReadSpec => []SignaturesAgree
<1>1. Inv => SignaturesAgree
  <2> SUFFICES ASSUME Inv, \A i \in DOMAIN buffer : buffer[i] \in DOMAIN Line
               PROVE  SignaturesAgree
    BY DEF SignaturesAgree
  <2>1. buffer \in Seq(Characters)
    BY DEF Inv, ReadTypeOK
  <2>2. Documented(buffer) => CLoads(buffer) /\ PyLoads(buffer)
    BY <2>1, DocumentedLoads
  <2>3. ASSUME CLoads(buffer), NEW hash, NEW size
        PROVE  /\ CLabels(buffer, hash, size) # {} => PyLabels(buffer, hash, size) # {}
               /\ Without(buffer, {"control"}) =>
                    CLabels(buffer, hash, size) \subseteq PyLabels(buffer, hash, size)
               /\ Without(buffer, {"control", "cr"}) =>
                    PyLabels(buffer, hash, size) = CLabels(buffer, hash, size)
    <3>1. CFinds(buffer, hash, size) \subseteq PyFinds(buffer, hash, size)
      BY FoundByBoth
    <3>2. CLabels(buffer, hash, size) # {} => PyLabels(buffer, hash, size) # {}
      BY <3>1 DEF CLabels, PyLabels
    <3>3. Without(buffer, {"control"}) => CLabels(buffer, hash, size) \subseteq PyLabels(buffer, hash, size)
      BY LabelsAgree
    <3>4. ASSUME Without(buffer, {"control", "cr"})
          PROVE  PyLabels(buffer, hash, size) = CLabels(buffer, hash, size)
      <4>1. PyFinds(buffer, hash, size) = CFinds(buffer, hash, size)
        BY <2>1, <2>3, <3>1, <3>4, NoOthers
      <4>2. Without(buffer, {"control"})
        BY <3>4 DEF Without
      <4>3. ASSUME NEW i \in PyFinds(buffer, hash, size) PROVE Behind(buffer, i) = Line[buffer[i]].blanks
        <5>1. i \in DOMAIN buffer /\ Line[buffer[i]].kind \in RecordKinds
          BY DEF PyFinds, RecordsOf
        <5>2. Line[buffer[i]].blanks \in Nat /\ Line[buffer[i]].end # "control"
          BY <4>2, <5>1, LineAssumption DEF Without
        <5> QED BY <5>2 DEF Behind
      <4> QED BY <4>1, <4>3 DEF CLabels, PyLabels
    <3> QED BY <3>2, <3>3, <3>4
  <2> QED BY <2>2, <2>3 DEF SignaturesAgree
<1> QED BY <1>1, ReadInvariance, PTL

-----------------------------------------------------------------------------
(* Loops, and parts of sequences *)

(* What holds of 0, and of n + 1 if of n, holds of every natural number. *)
LEMMA Counting ==
  ASSUME NEW T, 0 \in T, \A n \in Nat : n \in T => n + 1 \in T
  PROVE  Nat \subseteq T
<1>1. SUFFICES ASSUME Nat \ T # {} PROVE FALSE
  OBVIOUS
<1>2. IsWellFoundedOn(OpToRel(<, Nat), Nat)
  BY NatLessThanWellFounded
<1>3. \E x \in Nat \ T : \A y \in Nat \ T : <<y, x>> \notin OpToRel(<, Nat)
  <2>1. Nat \ T \subseteq Nat
    OBVIOUS
  <2> QED BY <1>1, <1>2, <2>1, WFMin, Zenon
<1>4. PICK x \in Nat \ T : \A y \in Nat \ T : <<y, x>> \notin OpToRel(<, Nat)
  BY <1>3
<1>5. x - 1 \in Nat /\ x - 1 < x /\ (x - 1) + 1 = x
  <2>1. x # 0
    OBVIOUS
  <2> QED BY <2>1
<1>6. x - 1 \notin T
  BY <1>5
<1>7. <<x - 1, x>> \in OpToRel(<, Nat)
  BY <1>5 DEF OpToRel
<1> QED BY <1>4, <1>5, <1>6, <1>7

(* The states of a loop that starts at s, one after the other. *)
IsLoop(h, S, step, s, n) ==
  h \in [0..n -> S] /\ h[0] = s /\ \A k \in 1..n : h[k] = step[h[k - 1]]

(* A loop that stays among its states can be run as often as one likes. *)
LEMMA LoopExists ==
  ASSUME NEW S, NEW step \in [S -> S], NEW s \in S, NEW n \in Nat
  PROVE  \E h : IsLoop(h, S, step, s, n)
<1> DEFINE U == {m \in Nat : \E h \in [0..m -> S] :
                   h[0] = s /\ \A k \in 1..m : h[k] = step[h[k - 1]]}
<1>1. 0 \in U
  <2> DEFINE h == [k \in 0..0 |-> s]
  <2>1. h \in [0..0 -> S] /\ h[0] = s
    OBVIOUS
  <2>2. \A k \in 1..0 : h[k] = step[h[k - 1]]
    OBVIOUS
  <2> HIDE DEF h
  <2> QED BY <2>1, <2>2
<1>2. ASSUME NEW m \in Nat, m \in U PROVE m + 1 \in U
  <2>1. PICK h \in [0..m -> S] : h[0] = s /\ \A k \in 1..m : h[k] = step[h[k - 1]]
    BY <1>2
  <2> DEFINE g == [k \in 0..m + 1 |-> IF k = m + 1 THEN step[h[m]] ELSE h[k]]
  <2>2. g \in [0..m + 1 -> S]
    OBVIOUS
  <2>3. g[0] = s
    BY <2>1
  <2>4. ASSUME NEW k \in 1..m + 1 PROVE g[k] = step[g[k - 1]]
    <3>1. CASE k = m + 1
      BY <3>1
    <3>2. CASE k \in 1..m
      <4>1. g[k] = h[k] /\ g[k - 1] = h[k - 1]
        BY <3>2
      <4> QED BY <2>1, <3>2, <4>1
    <3> QED BY <3>1, <3>2
  <2> HIDE DEF g
  <2> QED BY <2>2, <2>3, <2>4
<1>3. Nat \subseteq U
  <2> HIDE DEF U
  <2> QED BY <1>1, <1>2, Counting
<1> QED BY <1>3 DEF IsLoop

(* A part of a sequence, also an empty one. *)
LEMMA PartOf ==
  ASSUME NEW S, NEW s \in Seq(S), NEW a \in Nat, NEW b \in Nat,
         1 <= a, a <= b + 1, b <= Len(s)
  PROVE  /\ SubSeq(s, a, b) \in Seq(S)
         /\ Len(SubSeq(s, a, b)) = b - a + 1
         /\ \A i \in 1..b - a + 1 : SubSeq(s, a, b)[i] = s[a + i - 1]
<1>1. Len(s) \in Nat
  BY LenProperties
<1>2. \A i \in a..b : s[i] \in S
  <2> SUFFICES ASSUME NEW i \in a..b PROVE s[i] \in S
    OBVIOUS
  <2>1. i \in 1..Len(s)
    BY <1>1
  <2> QED BY <2>1, ElementOfSeq
<1>3. /\ SubSeq(s, a, b) \in Seq(S)
      /\ Len(SubSeq(s, a, b)) = IF a <= b THEN b - a + 1 ELSE 0
      /\ \A i \in 1..b - a + 1 : SubSeq(s, a, b)[i] = s[a + i - 1]
  BY <1>2, SubSeqProperties
<1> QED BY <1>3

(* A part of a part is a part. *)
LEMMA PartOfPart ==
  ASSUME NEW S, NEW s \in Seq(S), NEW a \in Nat, NEW b \in Nat,
         1 <= a, a <= b + 1, b <= Len(s),
         NEW c \in Nat, NEW d \in Nat, 1 <= c, c <= d + 1, d <= b - a + 1
  PROVE  SubSeq(SubSeq(s, a, b), c, d) = SubSeq(s, a + c - 1, a + d - 1)
<1> DEFINE p == SubSeq(s, a, b)
           q == SubSeq(p, c, d)
           r == SubSeq(s, a + c - 1, a + d - 1)
<1>1. /\ p \in Seq(S) /\ Len(p) = b - a + 1
      /\ \A i \in 1..b - a + 1 : p[i] = s[a + i - 1]
  BY PartOf
<1>2. Len(s) \in Nat /\ Len(p) \in Nat /\ a + c - 1 \in Nat /\ a + d - 1 \in Nat
  BY <1>1, LenProperties
<1>3. /\ q \in Seq(S) /\ Len(q) = d - c + 1
      /\ \A i \in 1..d - c + 1 : q[i] = p[c + i - 1]
  <2> HIDE DEF p
  <2> QED BY <1>1, <1>2, PartOf
<1>4. /\ r \in Seq(S) /\ Len(r) = (a + d - 1) - (a + c - 1) + 1
      /\ \A i \in 1..(a + d - 1) - (a + c - 1) + 1 : r[i] = s[(a + c - 1) + i - 1]
  <2> HIDE DEF r
  <2>1. 1 <= a + c - 1 /\ a + c - 1 <= (a + d - 1) + 1 /\ a + d - 1 <= Len(s)
    BY <1>2
  <2> QED BY <1>2, <2>1, PartOf DEF r
<1>5. ASSUME NEW i \in 1..d - c + 1 PROVE q[i] = r[i]
  <2>1. c + i - 1 \in 1..b - a + 1 /\ a + (c + i - 1) - 1 = (a + c - 1) + i - 1
    OBVIOUS
  <2>2. q[i] = s[a + (c + i - 1) - 1]
    <3> HIDE DEF p, q
    <3> QED BY <1>1, <1>3, <2>1
  <2>3. r[i] = s[(a + c - 1) + i - 1]
    <3> HIDE DEF r
    <3> QED BY <1>4
  <2> QED BY <2>1, <2>2, <2>3
<1> HIDE DEF q, r
<1>6. Len(q) = Len(r) /\ \A i \in 1..Len(q) : q[i] = r[i]
  BY <1>3, <1>4, <1>5
<1>7. q = r
  BY <1>3, <1>4, <1>6, SeqEqual
<1> QED BY <1>7 DEF q, r

(* The start of a concatenation, also an empty one. *)
LEMMA PartOfStart ==
  ASSUME NEW S, NEW s \in Seq(S), NEW t \in Seq(S), NEW a \in Nat, NEW b \in Nat,
         1 <= a, a <= b + 1, b <= Len(s)
  PROVE  SubSeq(s \o t, a, b) = SubSeq(s, a, b)
<1> DEFINE u == s \o t
           p == SubSeq(u, a, b)
           q == SubSeq(s, a, b)
<1>1. /\ u \in Seq(S) /\ Len(u) = Len(s) + Len(t)
      /\ \A i \in 1..Len(s) + Len(t) : u[i] = IF i <= Len(s) THEN s[i] ELSE t[i - Len(s)]
  BY ConcatProperties
<1>2. Len(s) \in Nat /\ Len(t) \in Nat
  BY LenProperties
<1>3. q \in Seq(S) /\ Len(q) = b - a + 1 /\ \A i \in 1..b - a + 1 : q[i] = s[a + i - 1]
  BY PartOf
<1> HIDE DEF u
<1>4. p \in Seq(S) /\ Len(p) = b - a + 1 /\ \A i \in 1..b - a + 1 : p[i] = u[a + i - 1]
  BY <1>1, <1>2, PartOf
<1> HIDE DEF p, q
<1>5. ASSUME NEW i \in 1..b - a + 1 PROVE p[i] = q[i]
  <2>1. a + i - 1 \in 1..Len(s) + Len(t) /\ a + i - 1 <= Len(s)
    BY <1>2
  <2> QED BY <1>1, <1>3, <1>4, <2>1
<1>6. p = q
  <2>1. Len(p) = Len(q) /\ \A i \in 1..Len(p) : p[i] = q[i]
    BY <1>3, <1>4, <1>5
  <2> QED BY <1>3, <1>4, <2>1, SeqEqual
<1> QED BY <1>6 DEF p, q, u

(* What is left of a concatenation is the second of the two. *)
LEMMA RestOfConcat ==
  ASSUME NEW S, NEW s \in Seq(S), NEW t \in Seq(S)
  PROVE  SubSeq(s \o t, Len(s) + 1, Len(s \o t)) = t
<1> DEFINE u == s \o t
           p == SubSeq(u, Len(s) + 1, Len(u))
<1>1. /\ u \in Seq(S) /\ Len(u) = Len(s) + Len(t)
      /\ \A i \in 1..Len(s) + Len(t) : u[i] = IF i <= Len(s) THEN s[i] ELSE t[i - Len(s)]
  BY ConcatProperties
<1>2. Len(s) \in Nat /\ Len(t) \in Nat
  BY LenProperties
<1> HIDE DEF u
<1>3. /\ p \in Seq(S) /\ Len(p) = Len(u) - (Len(s) + 1) + 1
      /\ \A i \in 1..Len(u) - (Len(s) + 1) + 1 : p[i] = u[(Len(s) + 1) + i - 1]
  BY <1>1, <1>2, PartOf
<1> HIDE DEF p
<1>4. Len(p) = Len(t)
  BY <1>1, <1>2, <1>3
<1>5. ASSUME NEW i \in 1..Len(p) PROVE p[i] = t[i]
  <2>1. (Len(s) + 1) + i - 1 = Len(s) + i /\ Len(s) + i \in 1..Len(s) + Len(t)
        /\ ~(Len(s) + i <= Len(s)) /\ (Len(s) + i) - Len(s) = i
    BY <1>2, <1>4
  <2>2. i \in 1..Len(u) - (Len(s) + 1) + 1
    BY <1>3
  <2> QED BY <1>1, <1>3, <2>1, <2>2
<1>6. p = t
  BY <1>3, <1>4, <1>5, SeqEqual
<1> QED BY <1>6 DEF p, u

-----------------------------------------------------------------------------
(* av_sha256_update: what a context knows of what it was given *)

(* What a context is once it has been given the first m characters of       *)
(* text: q blocks of it are done with.                                      *)
Cut(c, text, m, q) ==
  /\ Len(c.blocks) = q
  /\ \A i \in 1..q : c.blocks[i] = SubSeq(text, (i - 1) * Block + 1, i * Block)
  /\ c.block = SubSeq(text, q * Block + 1, m)
  /\ q * Block <= m /\ m < q * Block + Block
  /\ c.bits = 8 * m

(* It has been given all of the text. *)
Given(c, text) == \E q \in Nat : Cut(c, text, Len(text), q)

(* A context, and one with the data that it still has to be given. *)
Contexts(S) == [blocks : Seq(Seq(S)), block : Seq(S), bits : Nat]
States(S) == {s \in [blocks : Seq(Seq(S)), block : Seq(S), bits : Nat, data : Seq(S)] :
                Len(s.block) < Block}

(* The bounds of the digest are numbers, and a length fits in a block. *)
LEMMA Sizes == /\ Block \in Nat /\ Block > 1 /\ LengthSize \in Nat /\ LengthSize > 0
               /\ LengthSize < Block /\ Keep \in Nat
<1>1. Block \in Nat /\ LengthSize \in 1..Block - 1 /\ Keep \in Nat
  BY HashAssumption
<1> QED BY <1>1

(* One round takes a character, if there is one, from the data to the       *)
(* blocks.                                                                  *)
LEMMA RoundType ==
  ASSUME NEW S, NEW s \in States(S)
  PROVE  /\ Round(s) \in States(S)
         /\ Len(s.data) \in Nat /\ Len(Round(s).data) \in Nat
         /\ Len(Round(s).data) <= Len(s.data)
         /\ Len(s.data) > 0 => Len(Round(s).data) < Len(s.data)
<1> DEFINE amount == Smaller(Len(s.data), Block - Len(s.block))
           head   == SubSeq(s.data, 1, amount)
           filled == s.block \o head
           rest   == SubSeq(s.data, amount + 1, Len(s.data))
<1>1. /\ s.blocks \in Seq(Seq(S)) /\ s.block \in Seq(S) /\ s.bits \in Nat /\ s.data \in Seq(S)
      /\ Len(s.block) < Block
  <2>1. /\ s \in [blocks : Seq(Seq(S)), block : Seq(S), bits : Nat, data : Seq(S)]
        /\ Len(s.block) < Block
    BY DEF States
  <2> QED BY <2>1
<1>2. Len(s.block) \in Nat /\ Len(s.data) \in Nat
  BY <1>1, LenProperties
<1>3. /\ amount \in Nat /\ amount <= Len(s.data) /\ amount <= Block - Len(s.block)
      /\ Len(s.data) > 0 => amount > 0
  <2>1. Block - Len(s.block) \in Nat /\ Block - Len(s.block) > 0
    BY <1>1, <1>2, Sizes
  <2> QED BY <1>2, <2>1 DEF Smaller
<1> HIDE DEF amount
<1>4. head \in Seq(S) /\ Len(head) = amount
  <2>1. /\ 1 <= amount + 1
        /\ SubSeq(s.data, 1, amount) \in Seq(S) /\ Len(SubSeq(s.data, 1, amount)) = amount - 1 + 1
    BY <1>1, <1>3, PartOf
  <2> QED BY <1>3, <2>1
<1>5. rest \in Seq(S) /\ Len(rest) = Len(s.data) - amount
  <2>1. 1 <= amount + 1 /\ amount + 1 <= Len(s.data) + 1 /\ amount + 1 \in Nat
    BY <1>2, <1>3
  <2>2. rest \in Seq(S) /\ Len(rest) = Len(s.data) - (amount + 1) + 1
    BY <1>1, <1>2, <2>1, PartOf
  <2> QED BY <1>2, <1>3, <2>2
<1> HIDE DEF head
<1>6. filled \in Seq(S) /\ Len(filled) = Len(s.block) + amount
  BY <1>1, <1>4, ConcatProperties
<1> HIDE DEF filled, rest
<1>7. Round(s) = [blocks |-> IF Len(filled) = Block THEN Append(s.blocks, filled) ELSE s.blocks,
                  block  |-> IF Len(filled) = Block THEN <<>> ELSE filled,
                  bits   |-> s.bits + 8 * amount,
                  data   |-> rest]
  BY DEF Round, amount, head, filled, rest
<1>8. Append(s.blocks, filled) \in Seq(Seq(S))
  BY <1>1, <1>6, AppendProperties
<1>13. Round(s).bits = s.bits + 8 * amount /\ s.bits + 8 * amount \in Nat
  BY <1>1, <1>3, <1>7
<1>9. /\ Round(s).blocks \in Seq(Seq(S)) /\ Round(s).block \in Seq(S) /\ Round(s).bits \in Nat
      /\ Len(Round(s).block) < Block
  <2>1. Round(s).blocks \in Seq(Seq(S))
    BY <1>1, <1>7, <1>8
  <2>2. CASE Len(filled) = Block
    <3>1. Round(s).block = <<>>
      BY <1>7, <2>2
    <3> QED BY <1>13, <2>1, <3>1, EmptySeq, Sizes
  <2>3. CASE Len(filled) # Block
    <3>1. Round(s).block = filled
      BY <1>7, <2>3
    <3>2. Len(filled) < Block
      BY <1>2, <1>3, <1>6, <2>3, Sizes
    <3> QED BY <1>6, <1>13, <2>1, <3>1, <3>2
  <2> QED BY <2>2, <2>3
<1>10. Round(s).data = rest
  BY <1>7
<1>11. Round(s) \in States(S)
  <2>1. Round(s) \in [blocks : Seq(Seq(S)), block : Seq(S), bits : Nat, data : Seq(S)]
    BY <1>5, <1>7, <1>9, <1>10
  <2> QED BY <1>9, <2>1 DEF States
<1> QED BY <1>2, <1>3, <1>5, <1>10, <1>11

(* Whoever goes on where the data begins has been given a part more of the  *)
(* text after a round, as long as there is one.                             *)
LEMMA RoundCuts ==
  ASSUME NEW S, NEW s \in States(S), NEW text \in Seq(S), NEW m \in Nat, m <= Len(text),
         NEW q \in Nat, Cut(s, text, m, q), s.data = SubSeq(text, m + 1, Len(text))
  PROVE  \E n \in Nat, r \in Nat :
           /\ m <= n /\ n <= Len(text) /\ (m < Len(text) => m < n)
           /\ Cut(Round(s), text, n, r) /\ Round(s).data = SubSeq(text, n + 1, Len(text))
<1> DEFINE amount == Smaller(Len(s.data), Block - Len(s.block))
           head   == SubSeq(s.data, 1, amount)
           filled == s.block \o head
           rest   == SubSeq(s.data, amount + 1, Len(s.data))
           n == m + amount
           base == q * Block
<1>1. /\ s.blocks \in Seq(Seq(S)) /\ s.block \in Seq(S) /\ s.bits \in Nat /\ s.data \in Seq(S)
      /\ Len(s.block) < Block /\ Len(text) \in Nat
  <2>1. /\ s \in [blocks : Seq(Seq(S)), block : Seq(S), bits : Nat, data : Seq(S)]
        /\ Len(s.block) < Block
    BY DEF States
  <2> QED BY <2>1, LenProperties
<1>2. base \in Nat /\ base <= m /\ m < base + Block
  BY Sizes DEF Cut
<1>3. s.block = SubSeq(text, base + 1, m) /\ s.bits = 8 * m
  BY DEF Cut
<1> HIDE DEF base
<1>4. Len(s.data) = Len(text) - m
  <2>1. Len(s.data) = Len(text) - (m + 1) + 1
    BY <1>1, PartOf
  <2> QED BY <1>1, <2>1
<1>5. Len(s.block) = m - base
  <2>1. base + 1 \in Nat /\ 1 <= base + 1 /\ base + 1 <= m + 1
    BY <1>2
  <2>2. Len(s.block) = m - (base + 1) + 1
    BY <1>3, <2>1, PartOf
  <2> QED BY <1>2, <2>2
<1>6. /\ amount \in Nat /\ amount <= Len(text) - m /\ amount <= base + Block - m
      /\ m < Len(text) => amount > 0
      /\ amount = Len(text) - m \/ amount = base + Block - m
  BY <1>1, <1>2, <1>4, <1>5, Sizes DEF Smaller
<1> HIDE DEF amount
<1>7. /\ n \in Nat /\ m <= n /\ n <= Len(text) /\ n <= base + Block /\ (m < Len(text) => m < n)
  BY <1>1, <1>2, <1>6, Sizes
<1>8. head = SubSeq(text, m + 1, n)
  <2>1. m + 1 \in Nat /\ 1 <= m + 1 /\ m + 1 <= Len(text) + 1 /\ 1 <= amount + 1
        /\ amount <= Len(text) - (m + 1) + 1 /\ (m + 1) + 1 - 1 = m + 1 /\ (m + 1) + amount - 1 = n
    BY <1>1, <1>6
  <2>2. SubSeq(SubSeq(text, m + 1, Len(text)), 1, amount)
          = SubSeq(text, (m + 1) + 1 - 1, (m + 1) + amount - 1)
    BY <1>1, <1>6, <2>1, PartOfPart
  <2> QED BY <2>1, <2>2
<1>9. rest = SubSeq(text, n + 1, Len(text))
  <2>1. m + 1 \in Nat /\ 1 <= m + 1 /\ m + 1 <= Len(text) + 1 /\ 1 <= amount + 1
        /\ amount + 1 \in Nat /\ amount + 1 <= (Len(text) - m) + 1 /\ Len(text) - m \in Nat
        /\ Len(text) - m <= Len(text) - (m + 1) + 1
        /\ (m + 1) + (amount + 1) - 1 = n + 1 /\ (m + 1) + (Len(text) - m) - 1 = Len(text)
    BY <1>1, <1>6
  <2>2. SubSeq(SubSeq(text, m + 1, Len(text)), amount + 1, Len(text) - m)
          = SubSeq(text, (m + 1) + (amount + 1) - 1, (m + 1) + (Len(text) - m) - 1)
    <3> DEFINE c == amount + 1
               d == Len(text) - m
    <3>1. /\ c \in Nat /\ d \in Nat /\ 1 <= c /\ c <= d + 1 /\ d <= Len(text) - (m + 1) + 1
          /\ m + 1 \in Nat /\ 1 <= m + 1 /\ m + 1 <= Len(text) + 1 /\ Len(text) \in Nat
          /\ Len(text) <= Len(text)
      BY <1>1, <2>1
    <3> HIDE DEF c, d
    <3>2. SubSeq(SubSeq(text, m + 1, Len(text)), c, d) = SubSeq(text, (m + 1) + c - 1, (m + 1) + d - 1)
      BY <3>1, PartOfPart
    <3> QED BY <3>2 DEF c, d
  <2> QED BY <1>4, <2>1, <2>2
<1> HIDE DEF head, rest, n
<1>10. filled = SubSeq(text, base + 1, n)
  <2>1. base + 1 \in 1..Len(text) + 1 /\ m \in (base + 1) - 1..Len(text) /\ n \in m..Len(text)
    BY <1>1, <1>2, <1>7
  <2>2. SubSeq(text, base + 1, m) \o SubSeq(text, m + 1, n) = SubSeq(text, base + 1, n)
    BY <2>1, ConcatAdjacentSubSeq
  <2> QED BY <1>3, <1>8, <2>2
<1>11. filled \in Seq(S) /\ Len(filled) = n - base
  <2>1. base + 1 \in Nat /\ 1 <= base + 1 /\ base + 1 <= n + 1
    BY <1>2, <1>7
  <2>2. filled \in Seq(S) /\ Len(filled) = n - (base + 1) + 1
    BY <1>7, <1>10, <2>1, PartOf
  <2> QED BY <1>2, <1>7, <2>2
<1> HIDE DEF filled
<1>12. Round(s) = [blocks |-> IF Len(filled) = Block THEN Append(s.blocks, filled) ELSE s.blocks,
                   block  |-> IF Len(filled) = Block THEN <<>> ELSE filled,
                   bits   |-> s.bits + 8 * amount,
                   data   |-> rest]
  BY DEF Round, amount, head, filled, rest
<1>13. Round(s).bits = 8 * n
  BY <1>3, <1>6, <1>12 DEF n
<1>16. Round(s).data = rest
  BY <1>12
<1>14. CASE Len(filled) = Block
  <2>1. n = base + Block
    BY <1>2, <1>7, <1>11, <1>14, Sizes
  <2>2. (q + 1) * Block = base + Block /\ ((q + 1) - 1) * Block = base
    BY Sizes DEF base
  <2>3. Round(s).blocks = Append(s.blocks, filled) /\ Round(s).block = <<>>
    BY <1>12, <1>14
  <2>4. Len(s.blocks) = q /\ \A i \in 1..q : s.blocks[i] = SubSeq(text, (i - 1) * Block + 1, i * Block)
    BY DEF Cut
  <2>5. /\ Len(Append(s.blocks, filled)) = q + 1
        /\ \A i \in 1..q : Append(s.blocks, filled)[i] = s.blocks[i]
        /\ Append(s.blocks, filled)[q + 1] = filled
    <3>1. /\ Len(Append(s.blocks, filled)) = Len(s.blocks) + 1
          /\ \A i \in 1..Len(s.blocks) : Append(s.blocks, filled)[i] = s.blocks[i]
          /\ Append(s.blocks, filled)[Len(s.blocks) + 1] = filled
      BY <1>1, <1>11, AppendProperties
    <3> QED BY <2>4, <3>1
  <2>6. ASSUME NEW i \in 1..q + 1
        PROVE  Round(s).blocks[i] = SubSeq(text, (i - 1) * Block + 1, i * Block)
    <3>1. CASE i \in 1..q
      BY <2>3, <2>4, <2>5, <3>1
    <3>2. CASE i = q + 1
      <4>1. Round(s).blocks[i] = SubSeq(text, base + 1, n)
        BY <1>10, <2>3, <2>5, <3>2
      <4> QED BY <2>1, <2>2, <3>2, <4>1
    <3> QED BY <3>1, <3>2
  <2>7. SubSeq(text, (q + 1) * Block + 1, n) = <<>>
    <3>1. (q + 1) * Block + 1 \in Int /\ n < (q + 1) * Block + 1
      BY <1>2, <2>1, <2>2, Sizes
    <3> QED BY <1>7, <3>1, SubSeqEmpty
  <2>8. (q + 1) * Block <= n /\ n < (q + 1) * Block + Block
    BY <1>2, <2>1, <2>2, Sizes
  <2>9. Cut(Round(s), text, n, q + 1)
    BY <1>13, <2>3, <2>5, <2>6, <2>7, <2>8 DEF Cut
  <2>10. Round(s).data = SubSeq(text, n + 1, Len(text))
    BY <1>9, <1>16
  <2>11. q + 1 \in Nat
    OBVIOUS
  <2> QED BY <1>7, <2>9, <2>10, <2>11
<1>15. CASE Len(filled) # Block
  <2>1. n < base + Block
    BY <1>2, <1>7, <1>11, <1>15, Sizes
  <2>2. Round(s).blocks = s.blocks /\ Round(s).block = filled
    BY <1>12, <1>15
  <2>3. Cut(Round(s), text, n, q)
    BY <1>2, <1>7, <1>10, <1>13, <2>1, <2>2 DEF Cut, base
  <2>4. Round(s).data = SubSeq(text, n + 1, Len(text))
    BY <1>9, <1>16
  <2> QED BY <1>7, <2>3, <2>4
<1> QED BY <1>14, <1>15

(* An update is as many rounds as it is given characters. *)
LEMMA UpdateUnfolds ==
  ASSUME NEW S, NEW c \in Contexts(S), Len(c.block) < Block, NEW data \in Seq(S)
  PROVE  \E f : LET s == f[Len(data)] IN
           /\ f[0] = [blocks |-> c.blocks, block |-> c.block, bits |-> c.bits, data |-> data]
           /\ \A k \in 1..Len(data) : f[k] = Round(f[k - 1])
           /\ Update(c, data) = [blocks |-> s.blocks, block |-> s.block, bits |-> s.bits]
<1> DEFINE start == [blocks |-> c.blocks, block |-> c.block, bits |-> c.bits, data |-> data]
           step == [s \in States(S) |-> Round(s)]
           n == Len(data)
           after == CHOOSE g : g = [k \in 0..n |-> IF k = 0 THEN start ELSE Round(g[k - 1])]
<1>1. n \in Nat
  BY LenProperties
<1>2. start \in States(S)
  <2>1. c.blocks \in Seq(Seq(S)) /\ c.block \in Seq(S) /\ c.bits \in Nat
    BY DEF Contexts
  <2>2. start \in [blocks : Seq(Seq(S)), block : Seq(S), bits : Nat, data : Seq(S)]
    BY <2>1
  <2>3. start.block = c.block
    OBVIOUS
  <2> HIDE DEF start
  <2> QED BY <2>2, <2>3 DEF States
<1>3. step \in [States(S) -> States(S)]
  BY RoundType
<1>4. Update(c, data) = [blocks |-> after[n].blocks, block |-> after[n].block, bits |-> after[n].bits]
  BY DEF Update
<1> HIDE DEF start, step, n
<1>5. PICK h \in [0..n -> States(S)] : h[0] = start /\ \A k \in 1..n : h[k] = step[h[k - 1]]
  <2>1. \E h : IsLoop(h, States(S), step, start, n)
    BY <1>1, <1>2, <1>3, LoopExists
  <2> QED BY <2>1 DEF IsLoop
<1>6. \A k \in 1..n : h[k] = Round(h[k - 1])
  <2> SUFFICES ASSUME NEW k \in 1..n PROVE h[k] = Round(h[k - 1])
    OBVIOUS
  <2>1. h[k - 1] \in States(S)
    BY <1>1
  <2> QED BY <1>5, <2>1 DEF step
<1>7. h = [k \in 0..n |-> IF k = 0 THEN start ELSE Round(h[k - 1])]
  BY <1>5, <1>6
<1>8. after = [k \in 0..n |-> IF k = 0 THEN start ELSE Round(after[k - 1])]
  <2>1. \E g : g = [k \in 0..n |-> IF k = 0 THEN start ELSE Round(g[k - 1])]
    BY <1>7, Zenon
  <2> QED BY <2>1, Zenon
<1> HIDE DEF after
<1>9. after[0] = start /\ \A k \in 1..n : after[k] = Round(after[k - 1])
  <2> DEFINE g == [k \in 0..n |-> IF k = 0 THEN start ELSE Round(after[k - 1])]
  <2>1. g[0] = start /\ \A k \in 1..n : g[k] = Round(after[k - 1])
    BY <1>1
  <2>2. after = g
    BY <1>8
  <2> HIDE DEF g
  <2> QED BY <2>1, <2>2
<1> QED BY <1>4, <1>9 DEF start, n

(* What a context knows of a text, and is given more of, it knows of both. *)
LEMMA UpdateCuts ==
  ASSUME NEW S, NEW c \in Contexts(S), NEW text \in Seq(S), NEW data \in Seq(S), Given(c, text)
  PROVE  Update(c, data) \in Contexts(S) /\ Given(Update(c, data), text \o data)
<1> DEFINE full == text \o data
           m == Len(text)
           n == Len(data)
<1>1. PICK q \in Nat : Cut(c, text, m, q)
  BY DEF Given
<1>2. m \in Nat /\ n \in Nat /\ full \in Seq(S) /\ Len(full) = m + n
  BY LenProperties, ConcatProperties
<1>3. SubSeq(full, m + 1, Len(full)) = data
  BY RestOfConcat
<1>4. c.blocks \in Seq(Seq(S)) /\ c.block \in Seq(S) /\ c.bits \in Nat
  BY DEF Contexts
<1>5. q * Block \in Nat /\ q * Block <= m /\ m < q * Block + Block
  BY <1>1, Sizes DEF Cut
<1>6. Len(c.block) < Block
  <2> DEFINE base == q * Block
  <2>1. base + 1 \in Nat /\ 1 <= base + 1 /\ base + 1 <= m + 1
    BY <1>5
  <2>2. Len(c.block) = m - (base + 1) + 1
    BY <1>1, <1>2, <2>1, PartOf DEF Cut
  <2> HIDE DEF base
  <2> QED BY <1>2, <1>5, <2>1, <2>2, Sizes DEF base
<1>7. Cut(c, full, m, q)
  <2>1. SubSeq(full, q * Block + 1, m) = SubSeq(text, q * Block + 1, m)
    <3> DEFINE a == q * Block + 1
    <3>1. a \in Nat /\ 1 <= a /\ a <= m + 1
      BY <1>5
    <3> HIDE DEF a
    <3>2. SubSeq(full, a, m) = SubSeq(text, a, m)
      BY <1>2, <3>1, PartOfStart
    <3> QED BY <3>2 DEF a
  <2>2. ASSUME NEW i \in 1..q
        PROVE  SubSeq(full, (i - 1) * Block + 1, i * Block) = SubSeq(text, (i - 1) * Block + 1, i * Block)
    <3> DEFINE a == (i - 1) * Block
               b == i * Block
    <3>1. a \in Nat /\ b = a + Block
      BY Sizes
    <3>2. b <= q * Block
      <4>1. q - i \in Nat /\ (q - i) * Block \in Nat /\ q * Block = b + (q - i) * Block
        BY Sizes
      <4> QED BY <3>1, <4>1, Sizes
    <3> HIDE DEF a, b
    <3>3. a + 1 \in Nat /\ b \in Nat /\ 1 <= a + 1 /\ a + 1 <= b + 1 /\ b <= m
      BY <1>2, <1>5, <3>1, <3>2, Sizes
    <3>4. SubSeq(full, a + 1, b) = SubSeq(text, a + 1, b)
      BY <3>3, PartOfStart
    <3> QED BY <3>4 DEF a, b
  <2> QED BY <1>1, <2>1, <2>2 DEF Cut
<1> HIDE DEF full, m, n
<1>8. PICK f : LET s == f[n] IN
        /\ f[0] = [blocks |-> c.blocks, block |-> c.block, bits |-> c.bits, data |-> data]
        /\ \A k \in 1..n : f[k] = Round(f[k - 1])
        /\ Update(c, data) = [blocks |-> s.blocks, block |-> s.block, bits |-> s.bits]
  BY <1>6, UpdateUnfolds DEF n
<1> DEFINE Known(s, j) == /\ s \in States(S)
                          /\ \E k \in Nat, r \in Nat :
                               /\ j <= k /\ k <= m + n
                               /\ Cut(s, full, k, r) /\ s.data = SubSeq(full, k + 1, m + n)
           T == {k \in Nat : k <= n => Known(f[k], m + k)}
<1>9. 0 \in T
  <2>1. /\ f[0].blocks = c.blocks /\ f[0].block = c.block /\ f[0].bits = c.bits
        /\ f[0].data = data
    BY <1>8
  <2>2. f[0] \in States(S)
    <3>1. f[0] \in [blocks : Seq(Seq(S)), block : Seq(S), bits : Nat, data : Seq(S)]
      BY <1>4, <1>8
    <3> QED BY <1>6, <2>1, <3>1 DEF States
  <2>3. Cut(f[0], full, m, q)
    BY <1>7, <2>1 DEF Cut
  <2>4. f[0].data = SubSeq(full, m + 1, m + n)
    BY <1>2, <1>3, <2>1
  <2>5. Known(f[0], m)
    BY <1>2, <2>2, <2>3, <2>4
  <2> HIDE DEF Known
  <2> QED BY <1>2, <2>5
<1>10. ASSUME NEW k \in Nat, k \in T PROVE k + 1 \in T
  <2> SUFFICES ASSUME k + 1 <= n PROVE Known(f[k + 1], m + (k + 1))
    BY DEF T
  <2>1. Known(f[k], m + k)
    <3> HIDE DEF Known
    <3> QED BY <1>2, <1>10
  <2>2. PICK i \in Nat, r \in Nat :
          /\ m + k <= i /\ i <= m + n
          /\ Cut(f[k], full, i, r) /\ f[k].data = SubSeq(full, i + 1, m + n)
    BY <2>1
  <2>3. f[k + 1] = Round(f[k])
    <3>1. k + 1 \in 1..n /\ (k + 1) - 1 = k
      BY <1>2
    <3> QED BY <1>8, <3>1
  <2>4. PICK j \in Nat, t \in Nat :
          /\ i <= j /\ j <= m + n /\ (i < m + n => i < j)
          /\ Cut(Round(f[k]), full, j, t) /\ Round(f[k]).data = SubSeq(full, j + 1, m + n)
    <3>1. f[k] \in States(S)
      BY <2>1
    <3>2. i <= Len(full) /\ f[k].data = SubSeq(full, i + 1, Len(full))
      BY <1>2, <2>2
    <3> HIDE DEF Known, T
    <3>3. \E j \in Nat, t \in Nat :
            /\ i <= j /\ j <= Len(full) /\ (i < Len(full) => i < j)
            /\ Cut(Round(f[k]), full, j, t) /\ Round(f[k]).data = SubSeq(full, j + 1, Len(full))
      BY <1>2, <2>2, <3>1, <3>2, RoundCuts
    <3> QED BY <1>2, <3>3
  <2>5. m + (k + 1) <= j
    BY <1>2, <2>2, <2>4
  <2>6. Round(f[k]) \in States(S)
    BY <2>1, RoundType
  <2> QED BY <2>3, <2>4, <2>5, <2>6
<1>11. Known(f[n], m + n)
  <2>1. Nat \subseteq T
    <3> HIDE DEF T
    <3> QED BY <1>9, <1>10, Counting
  <2> HIDE DEF Known
  <2> QED BY <1>2, <2>1
<1>12. PICK i \in Nat, r \in Nat : m + n <= i /\ i <= m + n /\ Cut(f[n], full, i, r)
  BY <1>11
<1>13. i = m + n
  BY <1>2, <1>12
<1>14. f[n] \in States(S)
  BY <1>11
<1>15. f[n].blocks \in Seq(Seq(S)) /\ f[n].block \in Seq(S) /\ f[n].bits \in Nat
  <2>1. f[n] \in [blocks : Seq(Seq(S)), block : Seq(S), bits : Nat, data : Seq(S)]
    BY <1>14 DEF States
  <2> QED BY <2>1
<1>16. /\ Update(c, data).blocks = f[n].blocks /\ Update(c, data).block = f[n].block
       /\ Update(c, data).bits = f[n].bits
  BY <1>8
<1>17. Update(c, data) \in Contexts(S)
  BY <1>8, <1>15 DEF Contexts
<1>18. Cut(Update(c, data), full, Len(full), r)
  BY <1>2, <1>12, <1>13, <1>16 DEF Cut
<1> QED BY <1>17, <1>18 DEF Given, full

-----------------------------------------------------------------------------
(* av_sha256_final: the padding *)

(* Division with a remainder. *)
LEMMA Quotient ==
  ASSUME NEW b \in Nat \ {0}, NEW q \in Int, NEW r \in 0..b - 1
  PROVE  (q * b + r) \div b = q /\ (q * b + r) % b = r
OBVIOUS

(* A multiple leaves nothing over. *)
LEMMA NoRemainder ==
  ASSUME NEW b \in Nat \ {0}, NEW q \in Int
  PROVE  (q * b) \div b = q /\ (q * b) % b = 0
<1> DEFINE r == 0
<1>1. r \in 0..b - 1 /\ r = 0 /\ q * b \in Int
  OBVIOUS
<1> HIDE DEF r
<1>2. (q * b + r) \div b = q /\ (q * b + r) % b = r
  BY <1>1, Quotient
<1>3. q * b + r = q * b
  BY <1>1
<1> QED BY <1>1, <1>2, <1>3

(* A sequence of one element. *)
LEMMA Single ==
  ASSUME NEW S, NEW e \in S
  PROVE  <<e>> \in Seq(S) /\ Len(<<e>>) = 1 /\ <<e>>[1] = e
OBVIOUS

(* The first byte of the padding. *)
One == <<"byte128">>

(* What the blocks are made of. *)
Bytes == Characters \cup {"byte128", "byte0"}
           \cup UNION {{LengthBytes(b)[i] : i \in 1..LengthSize} : b \in Nat}

(* The three pieces that are appended to the data, and their lengths. *)
LEMMA Pieces ==
  /\ One \in Seq(Bytes) /\ Len(One) = 1
  /\ \A n \in Nat : Zeros(n) \in Seq(Bytes) /\ Len(Zeros(n)) = n
  /\ \A b \in Nat : LengthBytes(b) \in Seq(Bytes) /\ Len(LengthBytes(b)) = LengthSize
<1>1. One \in Seq(Bytes) /\ Len(One) = 1
  <2>1. "byte128" \in Bytes
    BY DEF Bytes
  <2> QED BY <2>1, Single DEF One
<1>2. ASSUME NEW n \in Nat PROVE Zeros(n) \in Seq(Bytes) /\ Len(Zeros(n)) = n
  <2>1. "byte0" \in Bytes
    BY DEF Bytes
  <2>2. Zeros(n) \in [1..n -> Bytes]
    BY <2>1 DEF Zeros
  <2> QED BY <2>2, SeqDef
<1>3. ASSUME NEW b \in Nat PROVE LengthBytes(b) \in Seq(Bytes) /\ Len(LengthBytes(b)) = LengthSize
  <2>1. DOMAIN LengthBytes(b) = 1..LengthSize /\ LengthBytes(b) = [i \in 1..LengthSize |-> LengthBytes(b)[i]]
    BY DEF LengthBytes
  <2>2. ASSUME NEW i \in 1..LengthSize PROVE LengthBytes(b)[i] \in Bytes
    <3>1. LengthBytes(b)[i] \in {LengthBytes(b)[j] : j \in 1..LengthSize}
      OBVIOUS
    <3>2. LengthBytes(b)[i] \in UNION {{LengthBytes(a)[j] : j \in 1..LengthSize} : a \in Nat}
      BY <3>1
    <3> QED BY <3>2 DEF Bytes
  <2>3. LengthBytes(b) \in [1..LengthSize -> Bytes]
    BY <2>1, <2>2
  <2> QED BY <2>3, Sizes, SeqDef
<1> QED BY <1>1, <1>2, <1>3

(* The number of zeros is the one that fills the last block. *)
LEMMA ZerosFill ==
  ASSUME NEW x \in Nat, NEW z \in 0..Block - 1, NEW k \in Nat, x + z = k * Block
  PROVE  (CHOOSE n \in 0..Block - 1 : (x + n) % Block = 0) = z
<1> Block \in Nat \ {0} /\ k \in Int
  BY Sizes
<1>1. (x + z) % Block = 0
  <2>1. (k * Block) % Block = 0
    BY NoRemainder
  <2> QED BY <2>1
<1>2. ASSUME NEW n \in 0..Block - 1, (x + n) % Block = 0 PROVE n = z
  <2>1. CASE n > z
    <3> DEFINE r == n - z
    <3>1. r \in 0..Block - 1 /\ r > 0 /\ x + n = (x + z) + r
      BY <2>1, Sizes
    <3> HIDE DEF r
    <3>2. (k * Block + r) % Block = r
      BY <3>1, Quotient
    <3> QED BY <1>2, <3>1, <3>2
  <2>2. CASE n < z
    <3> DEFINE r == Block + n - z
               j == k - 1
    <3>1. r \in 0..Block - 1 /\ r > 0 /\ j \in Int
      BY <2>2, Sizes
    <3>2. j * Block = k * Block - Block
      BY Sizes
    <3>3. x + n = j * Block + r
      BY <3>2, Sizes
    <3> HIDE DEF r, j
    <3>4. (j * Block + r) % Block = r
      BY <3>1, Quotient
    <3> QED BY <1>2, <3>1, <3>3, <3>4
  <2> QED BY <2>1, <2>2
<1> QED BY <1>1, <1>2

(* What is appended to the data in the end. *)
LEMMA PaddingIs ==
  ASSUME NEW k \in 1..Block
  PROVE  SubSeq(One \o Zeros(Block), 1, k) = One \o Zeros(k - 1)
<1> DEFINE long == One \o Zeros(Block)
           short == One \o Zeros(k - 1)
           part == SubSeq(long, 1, k)
<1>1. /\ One \in Seq(Bytes) /\ Len(One) = 1 /\ One[1] = "byte128"
      /\ Zeros(Block) \in Seq(Bytes) /\ Len(Zeros(Block)) = Block
      /\ Zeros(k - 1) \in Seq(Bytes) /\ Len(Zeros(k - 1)) = k - 1
  <2>1. k - 1 \in Nat
    OBVIOUS
  <2>2. One[1] = "byte128"
    BY DEF One
  <2> QED BY <2>1, <2>2, Pieces, Sizes
<1>2. /\ long \in Seq(Bytes) /\ Len(long) = Block + 1
      /\ \A i \in 1..Block + 1 : long[i] = IF i <= 1 THEN One[i] ELSE Zeros(Block)[i - 1]
  <2>1. /\ long \in Seq(Bytes) /\ Len(long) = Len(One) + Len(Zeros(Block))
        /\ \A i \in 1..Len(One) + Len(Zeros(Block)) :
             long[i] = IF i <= Len(One) THEN One[i] ELSE Zeros(Block)[i - Len(One)]
    BY <1>1, ConcatProperties
  <2>2. Len(One) + Len(Zeros(Block)) = Block + 1
    BY <1>1, Sizes
  <2> HIDE DEF long
  <2> QED BY <1>1, <2>1, <2>2
<1>3. /\ short \in Seq(Bytes) /\ Len(short) = k
      /\ \A i \in 1..k : short[i] = IF i <= 1 THEN One[i] ELSE Zeros(k - 1)[i - 1]
  <2>1. /\ short \in Seq(Bytes) /\ Len(short) = Len(One) + Len(Zeros(k - 1))
        /\ \A i \in 1..Len(One) + Len(Zeros(k - 1)) :
             short[i] = IF i <= Len(One) THEN One[i] ELSE Zeros(k - 1)[i - Len(One)]
    BY <1>1, ConcatProperties
  <2>2. Len(One) + Len(Zeros(k - 1)) = k
    BY <1>1
  <2> HIDE DEF short
  <2> QED BY <1>1, <2>1, <2>2
<1> HIDE DEF long, short
<1>4. part \in Seq(Bytes) /\ Len(part) = k /\ \A i \in 1..k : part[i] = long[i]
  <2>1. k <= Len(long)
    BY <1>2, Sizes
  <2>2. /\ part \in Seq(Bytes) /\ Len(part) = k - 1 + 1
        /\ \A i \in 1..k - 1 + 1 : part[i] = long[1 + i - 1]
    BY <1>2, <2>1, PartOf
  <2> HIDE DEF part
  <2> QED BY <2>2
<1> HIDE DEF part
<1>5. ASSUME NEW i \in 1..k PROVE part[i] = short[i]
  <2>1. i \in 1..Block + 1
    BY Sizes
  <2>2. CASE i = 1
    BY <1>2, <1>3, <1>4, <2>1, <2>2
  <2>3. CASE i # 1
    <3>1. Zeros(Block)[i - 1] = "byte0" /\ Zeros(k - 1)[i - 1] = "byte0"
      BY <2>3, Sizes DEF Zeros
    <3>2. ~(i <= 1)
      BY <2>3
    <3> QED BY <1>2, <1>3, <1>4, <2>1, <3>1, <3>2
  <2> QED BY <2>2, <2>3
<1>6. part = short
  BY <1>3, <1>4, <1>5, SeqEqual
<1> QED BY <1>6 DEF part, short, long

(* A text that fills its blocks is known by them. *)
LEMMA GivenBlocks ==
  ASSUME NEW S, NEW c \in Contexts(S), NEW text \in Seq(S), Given(c, text),
         NEW k \in Nat, Len(text) = k * Block
  PROVE  c.blocks = InBlocks(text)
<1>1. PICK q \in Nat : Cut(c, text, Len(text), q)
  BY DEF Given
<1>2. q = k
  <2>1. q * Block <= k * Block /\ k * Block < q * Block + Block
    BY <1>1 DEF Cut
  <2>2. CASE q < k
    <3>1. k - q - 1 \in Nat /\ (k - q - 1) * Block \in Nat
          /\ k * Block = q * Block + Block + (k - q - 1) * Block
      BY <2>2, Sizes
    <3>2. q * Block \in Int
      BY Sizes
    <3> QED BY <2>1, <3>1, <3>2, Sizes
  <2>3. CASE q > k
    <3>1. q - k - 1 \in Nat /\ (q - k - 1) * Block \in Nat
          /\ q * Block = k * Block + Block + (q - k - 1) * Block
      BY <2>3, Sizes
    <3>2. k * Block \in Int
      BY Sizes
    <3> QED BY <2>1, <3>1, <3>2, Sizes
  <2> QED BY <2>2, <2>3
<1>3. Len(text) \div Block = k
  BY NoRemainder, Sizes
<1>4. c.blocks \in Seq(Seq(S))
  BY DEF Contexts
<1>5. c.blocks = [i \in 1..k |-> SubSeq(text, (i - 1) * Block + 1, i * Block)]
  <2>1. Len(c.blocks) = k
    BY <1>1, <1>2 DEF Cut
  <2>2. \A i \in 1..k : c.blocks[i] = SubSeq(text, (i - 1) * Block + 1, i * Block)
    BY <1>1, <1>2 DEF Cut
  <2>3. c.blocks = [i \in 1..k |-> c.blocks[i]]
    BY <1>4, <2>1, LenProperties
  <2> QED BY <2>2, <2>3
<1> QED BY <1>3, <1>5 DEF InBlocks

(* The digest of what a context was given is that of the padded text. *)
LEMMA FinalIsPadded ==
  ASSUME NEW c \in Contexts(Bytes), NEW text \in Seq(Bytes), Given(c, text)
  PROVE  Final(c) = InBlocks(Padded(text))
<1> DEFINE room == Block - LengthSize
           used == Len(c.block)
           padding == IF used < room THEN room - used ELSE room + Block - used
           pad == SubSeq(One \o Zeros(Block), 1, padding)
           len == LengthBytes(c.bits)
           m == Len(text)
           first == Update(c, pad)
           last == Update(first, len)
<1>1. PICK q \in Nat : Cut(c, text, m, q)
  BY DEF Given
<1>2. m \in Nat
  BY LenProperties
<1>3. q * Block \in Nat /\ q * Block <= m /\ m < q * Block + Block /\ c.bits = 8 * m
  BY <1>1, Sizes DEF Cut
<1>4. used = m - q * Block
  <2> DEFINE base == q * Block
  <2>1. base \in Nat /\ base + 1 \in Nat /\ 1 <= base + 1 /\ base + 1 <= m + 1
    BY <1>2, <1>3
  <2>2. Len(c.block) = m - (base + 1) + 1
    BY <1>1, <1>2, <2>1, PartOf DEF Cut
  <2> HIDE DEF base
  <2>3. Len(c.block) = m - base
    BY <1>2, <2>1, <2>2
  <2> QED BY <2>3 DEF base
<1> HIDE DEF m, used
<1>5. room \in 1..Block /\ used \in 0..Block - 1
  BY <1>2, <1>3, <1>4, Sizes
<1>6. /\ padding \in 1..Block
      /\ used + padding + LengthSize = Block \/ used + padding + LengthSize = Block + Block
  <2>1. CASE used < room
    BY <1>5, <2>1, Sizes
  <2>2. CASE ~(used < room)
    BY <1>5, <2>2, Sizes
  <2> QED BY <2>1, <2>2
<1> HIDE DEF padding
<1>7. \E k \in Nat : m + padding + LengthSize = k * Block
  <2>1. (q + 1) * Block = q * Block + Block /\ (q + 2) * Block = q * Block + Block + Block
    BY Sizes
  <2>2. m + padding + LengthSize = q * Block + (used + padding + LengthSize)
    BY <1>2, <1>3, <1>4, <1>6, Sizes
  <2>3. \/ m + padding + LengthSize = (q + 1) * Block
        \/ m + padding + LengthSize = (q + 2) * Block
    BY <1>3, <1>6, <2>1, <2>2, Sizes
  <2>4. q + 1 \in Nat /\ q + 2 \in Nat
    OBVIOUS
  <2> QED BY <2>3, <2>4
<1>8. PICK k \in Nat : m + padding + LengthSize = k * Block
  BY <1>7
<1>9. pad = One \o Zeros(padding - 1)
  BY <1>6, PaddingIs
<1>10. /\ One \in Seq(Bytes) /\ Len(One) = 1
       /\ Zeros(padding - 1) \in Seq(Bytes) /\ Len(Zeros(padding - 1)) = padding - 1
       /\ len \in Seq(Bytes) /\ Len(len) = LengthSize
  <2>1. padding - 1 \in Nat /\ c.bits \in Nat
    BY <1>2, <1>3, <1>6
  <2> QED BY <2>1, Pieces
<1>11. pad \in Seq(Bytes) /\ Len(pad) = padding
  <2>1. /\ One \o Zeros(padding - 1) \in Seq(Bytes)
        /\ Len(One \o Zeros(padding - 1)) = Len(One) + Len(Zeros(padding - 1))
    BY <1>10, ConcatProperties
  <2>2. Len(One) + Len(Zeros(padding - 1)) = padding
    BY <1>6, <1>10, Sizes
  <2> QED BY <1>9, <2>1, <2>2
<1>12. Padded(text) = (text \o pad) \o len
  <2>1. (CHOOSE n \in 0..Block - 1 : (m + 1 + n + LengthSize) % Block = 0) = padding - 1
    <3> DEFINE x == m + 1 + LengthSize
    <3>1. x \in Nat /\ x + (padding - 1) = k * Block /\ padding - 1 \in 0..Block - 1
      BY <1>2, <1>6, <1>8, Sizes
    <3>2. \A n \in 0..Block - 1 : m + 1 + n + LengthSize = x + n
      BY <1>2, Sizes
    <3> HIDE DEF x
    <3>3. (CHOOSE n \in 0..Block - 1 : (x + n) % Block = 0) = padding - 1
      BY <3>1, ZerosFill
    <3>4. \A n : (n \in 0..Block - 1 /\ (m + 1 + n + LengthSize) % Block = 0)
                   <=> (n \in 0..Block - 1 /\ (x + n) % Block = 0)
      BY <3>2
    <3> QED BY <3>3, <3>4
  <2>2. Padded(text) = text \o One \o Zeros(padding - 1) \o LengthBytes(8 * m)
    BY <2>1 DEF Padded, m, One
  <2>3. (text \o One) \o Zeros(padding - 1) = text \o pad
    <3> DEFINE zeros == Zeros(padding - 1)
    <3>1. One \in Seq(Bytes) /\ zeros \in Seq(Bytes)
      BY <1>10
    <3> HIDE DEF zeros
    <3>2. (text \o One) \o zeros = text \o (One \o zeros)
      BY <3>1, ConcatAssociative
    <3> USE DEF zeros
    <3> QED BY <1>9, <3>2
  <2> QED BY <1>3, <2>2, <2>3
<1>13. Final(c) = last.blocks
  BY DEF Final, used, padding, One
<1> HIDE DEF pad, len, room
<1>14. first \in Contexts(Bytes) /\ Given(first, text \o pad)
  BY <1>11, UpdateCuts
<1>15. text \o pad \in Seq(Bytes) /\ Len(text \o pad) = m + padding
  BY <1>11, ConcatProperties DEF m
<1> HIDE DEF first
<1>16. last \in Contexts(Bytes) /\ Given(last, (text \o pad) \o len)
  BY <1>10, <1>14, <1>15, UpdateCuts
<1>17. (text \o pad) \o len \in Seq(Bytes) /\ Len((text \o pad) \o len) = m + padding + LengthSize
  <2> DEFINE both == text \o pad
  <2>1. both \in Seq(Bytes) /\ Len(both) = m + padding
    BY <1>15
  <2> HIDE DEF both
  <2>2. both \o len \in Seq(Bytes) /\ Len(both \o len) = Len(both) + Len(len)
    BY <1>10, <2>1, ConcatProperties
  <2>3. Len(both) + Len(len) = m + padding + LengthSize
    BY <1>10, <2>1
  <2>4. both \o len \in Seq(Bytes) /\ Len(both \o len) = m + padding + LengthSize
    BY <2>2, <2>3
  <2> QED BY <2>4 DEF both
<1> HIDE DEF last
<1>18. last.blocks = InBlocks((text \o pad) \o len)
  BY <1>8, <1>16, <1>17, GivenBlocks
<1> QED BY <1>12, <1>13, <1>18

-----------------------------------------------------------------------------
(* inspect_text: the window *)

(* The character that inspect_text sees for one of the file. *)
Seen(c) == IF c \in Unprinted THEN " " ELSE c

(* A text is normalized character by character. *)
LEMMA NormalizedIs ==
  ASSUME NEW text \in Seq(Characters)
  PROVE  /\ Normalized(text) \in Seq(Characters \cup {" "})
         /\ Len(Normalized(text)) = Len(text)
         /\ \A i \in 1..Len(text) : Normalized(text)[i] = Seen(text[i])
<1>1. Len(text) \in Nat /\ DOMAIN text = 1..Len(text) /\ \A i \in 1..Len(text) : text[i] \in Characters
  BY LenProperties, ElementOfSeq
<1>2. Normalized(text) = [i \in 1..Len(text) |-> Seen(text[i])]
  <2>1. Normalized(text) = [i \in DOMAIN text |-> Seen(text[i])]
    BY Zenon DEF Normalized, Seen
  <2> QED BY <1>1, <2>1
<1> DEFINE S == Characters \cup {" "}
<1>3. \A c \in Characters : Seen(c) \in S
  BY Zenon DEF Seen
<1> HIDE DEF S
<1>4. Normalized(text) \in [1..Len(text) -> S]
  BY <1>1, <1>2, <1>3
<1>5. Normalized(text) \in Seq(S) /\ Len(Normalized(text)) = Len(text)
  BY <1>1, <1>4, SeqDef
<1> QED BY <1>2, <1>5 DEF S

(* p stands in text behind the first i characters. *)
StandsAt(p, text, i) == \A j \in 1..Len(p) : Seen(text[i + j]) = p[j]

(* A text that is looked for occurs where it stands character by character. *)
LEMMA OccursStands ==
  ASSUME NEW text \in Seq(Characters), NEW p \in Indicators
  PROVE  /\ Len(p) \in Nat /\ Len(p) >= 1 /\ Len(p) <= Keep + 1
         /\ Occurs(p, Normalized(text)) <=> \E i \in 0..Len(text) - Len(p) : StandsAt(p, text, i)
<1> DEFINE S == Characters \cup {" "}
           t == Normalized(text)
<1>1. p \in Seq(S) /\ Len(p) \in Nat /\ Len(p) >= 1 /\ Len(p) <= Keep + 1
  <2>1. p \in Seq(Characters) /\ Len(p) \in 1..Keep + 1 /\ Keep \in Nat
    BY HashAssumption, Sizes
  <2>2. Characters \subseteq S
    OBVIOUS
  <2> HIDE DEF S
  <2>3. p \in Seq(S)
    BY <2>1, <2>2, SeqMonotonic
  <2> QED BY <2>1, <2>3
<1>2. /\ t \in Seq(S) /\ Len(t) = Len(text) /\ Len(text) \in Nat
      /\ \A i \in 1..Len(text) : t[i] = Seen(text[i])
  BY NormalizedIs, LenProperties
<1> HIDE DEF S, t
<1>3. ASSUME NEW i \in 0..Len(text) - Len(p)
      PROVE  SubSeq(t, i + 1, i + Len(p)) = p <=> StandsAt(p, text, i)
  <2> DEFINE part == SubSeq(t, i + 1, i + Len(p))
             a == i + 1
             b == i + Len(p)
  <2>1. a \in Nat /\ b \in Nat /\ 1 <= a /\ a <= b + 1 /\ b <= Len(t) /\ b - a + 1 = Len(p)
    BY <1>1, <1>2
  <2>2. /\ SubSeq(t, a, b) \in Seq(S) /\ Len(SubSeq(t, a, b)) = b - a + 1
        /\ \A j \in 1..b - a + 1 : SubSeq(t, a, b)[j] = t[a + j - 1]
    <3> HIDE DEF a, b
    <3> QED BY <1>2, <2>1, PartOf
  <2>3. \A j \in 1..Len(p) : a + j - 1 = i + j /\ i + j \in 1..Len(text)
    BY <1>1, <1>2
  <2>4. part \in Seq(S) /\ Len(part) = Len(p) /\ \A j \in 1..Len(p) : part[j] = Seen(text[i + j])
    <3> HIDE DEF a, b
    <3>1. part = SubSeq(t, a, b)
      BY DEF a, b
    <3> HIDE DEF part
    <3>2. \A j \in 1..Len(p) : part[j] = t[i + j]
      BY <2>1, <2>2, <2>3, <3>1
    <3> QED BY <1>2, <2>1, <2>2, <2>3, <3>1, <3>2
  <2> HIDE DEF part
  <2>5. ASSUME StandsAt(p, text, i) PROVE part = p
    <3>1. \A j \in 1..Len(part) : part[j] = p[j]
      BY <2>4, <2>5 DEF StandsAt
    <3> QED BY <1>1, <2>4, <3>1, SeqEqual
  <2>6. ASSUME part = p PROVE StandsAt(p, text, i)
    BY <2>4, <2>6 DEF StandsAt
  <2>7. part = p <=> StandsAt(p, text, i)
    BY <2>5, <2>6
  <2> QED BY <2>7 DEF part
<1>4. Occurs(p, t) <=> \E i \in 0..Len(text) - Len(p) : SubSeq(t, i + 1, i + Len(p)) = p
  BY <1>2 DEF Occurs
<1> QED BY <1>1, <1>3, <1>4 DEF t

(* What is kept is the last k characters. *)
LEMMA TheEndIs ==
  ASSUME NEW S, NEW s \in Seq(S)
  PROVE  LET k == Smaller(Keep, Len(s)) IN
         /\ k \in 0..Len(s) /\ (k = Keep \/ k = Len(s)) /\ k <= Keep
         /\ TheEnd(s) = SubSeq(s, Len(s) - k + 1, Len(s))
         /\ TheEnd(s) \in Seq(S) /\ Len(TheEnd(s)) = k
<1> DEFINE k == Smaller(Keep, Len(s))
<1>1. Len(s) \in Nat
  BY LenProperties
<1>2. k \in 0..Len(s) /\ (k = Keep \/ k = Len(s)) /\ k <= Keep
  BY <1>1, Sizes DEF Smaller
<1>3. TheEnd(s) = SubSeq(s, Len(s) - k + 1, Len(s))
  BY DEF TheEnd
<1> HIDE DEF k
<1>4. TheEnd(s) \in Seq(S) /\ Len(TheEnd(s)) = k
  <2> DEFINE a == Len(s) - k + 1
  <2>1. a \in Nat /\ 1 <= a /\ a <= Len(s) + 1 /\ Len(s) <= Len(s) /\ Len(s) - a + 1 = k
    BY <1>1, <1>2
  <2> HIDE DEF a
  <2>2. SubSeq(s, a, Len(s)) \in Seq(S) /\ Len(SubSeq(s, a, Len(s))) = Len(s) - a + 1
    BY <1>1, <2>1, PartOf
  <2> QED BY <1>3, <2>1, <2>2 DEF a
<1> QED BY <1>2, <1>3, <1>4 DEF k

(* What is kept of the pieces before, and one more piece, is the end of     *)
(* what has been read with it.                                              *)
LEMMA WindowIs ==
  ASSUME NEW S, NEW s \in Seq(S), NEW t \in Seq(S)
  PROVE  LET k == Smaller(Keep, Len(s)) IN
         /\ TheEnd(s) \o t \in Seq(S) /\ Len(TheEnd(s) \o t) = k + Len(t)
         /\ TheEnd(s) \o t = SubSeq(s \o t, Len(s) - k + 1, Len(s \o t))
<1> DEFINE k == Smaller(Keep, Len(s))
           e == TheEnd(s)
           w == e \o t
           u == s \o t
           a == Len(s) - k + 1
           v == SubSeq(u, a, Len(u))
<1>1. /\ k \in 0..Len(s)
      /\ e = SubSeq(s, a, Len(s)) /\ e \in Seq(S) /\ Len(e) = k
  BY TheEndIs
<1>2. Len(s) \in Nat /\ Len(t) \in Nat
  BY LenProperties
<1> HIDE DEF k, e
<1>3. a \in Nat /\ 1 <= a /\ a <= Len(s) + 1 /\ Len(s) - a + 1 = k
  BY <1>1, <1>2
<1>4. /\ w \in Seq(S) /\ Len(w) = Len(e) + Len(t)
      /\ \A i \in 1..Len(e) + Len(t) : w[i] = IF i <= Len(e) THEN e[i] ELSE t[i - Len(e)]
  BY <1>1, ConcatProperties
<1>5. /\ u \in Seq(S) /\ Len(u) = Len(s) + Len(t)
      /\ \A i \in 1..Len(s) + Len(t) : u[i] = IF i <= Len(s) THEN s[i] ELSE t[i - Len(s)]
  BY ConcatProperties
<1> HIDE DEF a, w, u
<1>6. \A i \in 1..k : e[i] = s[a + i - 1]
  <2>1. \A i \in 1..Len(s) - a + 1 : SubSeq(s, a, Len(s))[i] = s[a + i - 1]
    BY <1>2, <1>3, PartOf
  <2> QED BY <1>1, <1>3, <2>1
<1>7. /\ v \in Seq(S) /\ Len(v) = Len(u) - a + 1
      /\ \A i \in 1..Len(u) - a + 1 : v[i] = u[a + i - 1]
  <2>1. a <= Len(u) + 1 /\ Len(u) <= Len(u) /\ Len(u) \in Nat
    BY <1>2, <1>3, <1>5
  <2> QED BY <1>3, <1>5, <2>1, PartOf
<1> HIDE DEF v
<1>8. Len(v) = k + Len(t) /\ Len(w) = k + Len(t) /\ Len(u) - a + 1 = k + Len(t)
  <2>1. Len(u) = Len(s) + Len(t) /\ Len(w) = Len(e) + Len(t) /\ Len(e) = k /\ Len(v) = Len(u) - a + 1
    BY <1>1, <1>4, <1>5, <1>7
  <2>2. k \in Nat /\ Len(s) \in Nat /\ Len(t) \in Nat /\ a \in Nat /\ Len(s) - a + 1 = k
    BY <1>1, <1>2, <1>3
  <2>3. \A m, n, b, l \in Nat : m - b + 1 = l => (m + n) - b + 1 = l + n
    OBVIOUS
  <2>4. (Len(s) + Len(t)) - a + 1 = k + Len(t)
    BY ONLY <2>2, <2>3
  <2> QED
    BY ONLY <2>1, <2>4
<1>12. /\ \A i \in 1..k + Len(t) : w[i] = IF i <= k THEN e[i] ELSE t[i - k]
       /\ \A i \in 1..k + Len(t) : v[i] = u[a + i - 1]
  <2>1. Len(e) = k
    BY <1>1
  <2>2. Len(u) - a + 1 = k + Len(t)
    BY <1>8
  <2>3. \A i \in 1..Len(e) + Len(t) : w[i] = IF i <= Len(e) THEN e[i] ELSE t[i - Len(e)]
    BY <1>4
  <2>4. \A i \in 1..Len(u) - a + 1 : v[i] = u[a + i - 1]
    BY <1>7
  <2>5. \A i \in 1..k + Len(t) : w[i] = IF i <= k THEN e[i] ELSE t[i - k]
    BY ONLY <2>1, <2>3
  <2>6. \A i \in 1..k + Len(t) : v[i] = u[a + i - 1]
    BY ONLY <2>2, <2>4
  <2> QED
    BY <2>5, <2>6
<1>13. \A j \in 1..Len(s) + Len(t) : /\ j <= Len(s) => u[j] = s[j]
                                     /\ ~(j <= Len(s)) => u[j] = t[j - Len(s)]
  BY <1>5
<1>9. ASSUME NEW i \in 1..k + Len(t) PROVE w[i] = v[i]
  <2> k \in Nat /\ i \in Nat /\ a = Len(s) - k + 1
    BY <1>1, <1>2, <1>3
  <2>1. PICK j \in 1..Len(s) + Len(t) : j = a + i - 1
    <3>1. a + i - 1 \in 1..Len(s) + Len(t)
      BY <1>2, <1>3
    <3> QED BY <3>1
  <2>2. v[i] = u[j]
    BY <1>12, <2>1
  <2>3. CASE i <= k
    <3>1. j <= Len(s)
      BY <1>2, <2>1, <2>3
    <3>2. w[i] = e[i] /\ e[i] = s[j]
      BY <1>6, <1>12, <2>1, <2>3
    <3>3. u[j] = s[j]
      BY <1>13, <3>1
    <3> QED BY <2>2, <3>2, <3>3
  <2>4. CASE ~(i <= k)
    <3>1. ~(j <= Len(s)) /\ j - Len(s) = i - k
      BY <1>2, <2>1, <2>4
    <3>2. w[i] = t[i - k]
      BY <1>12, <2>4
    <3>3. u[j] = t[j - Len(s)]
      BY <1>13, <3>1
    <3> QED BY <2>2, <3>1, <3>2, <3>3
  <2> QED BY <2>3, <2>4
<1>10. w = v
  <2>1. Len(w) = Len(v) /\ \A i \in 1..Len(w) : w[i] = v[i]
    BY <1>8, <1>9
  <2> QED BY <1>4, <1>7, <2>1, SeqEqual
<1> QED BY <1>4, <1>8, <1>10 DEF w, v, u, a, e, k

(* What is kept does not depend on where the pieces meet. *)
LEMMA EndOfWindow ==
  ASSUME NEW S, NEW s \in Seq(S), NEW t \in Seq(S)
  PROVE  TheEnd(TheEnd(s) \o t) = TheEnd(s \o t)
<1> DEFINE k == Smaller(Keep, Len(s))
           w == TheEnd(s) \o t
           u == s \o t
           a == Len(s) - k + 1
           i == Smaller(Keep, Len(w))
           j == Smaller(Keep, Len(u))
<1>1. Len(s) \in Nat /\ Len(t) \in Nat
  BY LenProperties
<1>2. k \in 0..Len(s) /\ (k = Keep \/ k = Len(s)) /\ k <= Keep
  BY TheEndIs
<1>3. w \in Seq(S) /\ Len(w) = k + Len(t) /\ w = SubSeq(u, a, Len(u))
  BY WindowIs
<1>4. u \in Seq(S) /\ Len(u) = Len(s) + Len(t)
  BY ConcatProperties
<1> HIDE DEF w, u, k
<1>5. i \in 0..Len(w) /\ (i = Keep \/ i = Len(w)) /\ i <= Keep /\ TheEnd(w) = SubSeq(w, Len(w) - i + 1, Len(w))
  BY <1>3, TheEndIs
<1>6. j \in 0..Len(u) /\ (j = Keep \/ j = Len(u)) /\ j <= Keep /\ TheEnd(u) = SubSeq(u, Len(u) - j + 1, Len(u))
  BY <1>4, TheEndIs
<1> HIDE DEF i, j
<1>7. i = j
  BY <1>1, <1>2, <1>3, <1>4, <1>5, <1>6, Sizes
<1> DEFINE c == Len(w) - i + 1
           d == Len(w)
           n == Len(u)
<1>8. /\ a \in Nat /\ n \in Nat /\ c \in Nat /\ d \in Nat
      /\ 1 <= a /\ a <= n + 1 /\ n <= Len(u) /\ 1 <= c /\ c <= d + 1 /\ d <= n - a + 1
      /\ a + c - 1 = Len(u) - j + 1 /\ a + d - 1 = Len(u)
  BY <1>1, <1>2, <1>3, <1>4, <1>5, <1>6, <1>7
<1> HIDE DEF a, c, d, n
<1>9. SubSeq(SubSeq(u, a, n), c, d) = SubSeq(u, a + c - 1, a + d - 1)
  BY <1>4, <1>8, PartOfPart
<1>10. TheEnd(w) = TheEnd(u)
  BY <1>3, <1>5, <1>6, <1>8, <1>9 DEF c, d, n
<1> QED BY <1>10 DEF w, u

(* No text is missed where two pieces meet, as what is kept of the first is *)
(* as long as a text but for one character; and none is found twice over.   *)
LEMMA WindowFinds ==
  ASSUME NEW s \in Seq(Characters), NEW t \in Seq(Characters)
  PROVE  InspectText(s \o t) = InspectText(s) \cup InspectText(TheEnd(s) \o t)
<1> DEFINE k == Smaller(Keep, Len(s))
           w == TheEnd(s) \o t
           u == s \o t
           a == Len(s) - k
<1>1. Len(s) \in Nat /\ Len(t) \in Nat
  BY LenProperties
<1>2. k \in 0..Len(s) /\ (k = Keep \/ k = Len(s)) /\ k <= Keep
  BY TheEndIs
<1>3. w \in Seq(Characters) /\ Len(w) = k + Len(t) /\ w = SubSeq(u, a + 1, Len(u))
  BY WindowIs
<1>4. /\ u \in Seq(Characters) /\ Len(u) = Len(s) + Len(t)
      /\ \A i \in 1..Len(s) + Len(t) : u[i] = IF i <= Len(s) THEN s[i] ELSE t[i - Len(s)]
  BY ConcatProperties
<1> HIDE DEF w, u, k
<1>5. a \in Nat /\ a + 1 <= Len(u) + 1 /\ Len(u) = a + Len(w)
  BY <1>1, <1>2, <1>3, <1>4
<1>6. \A i \in 1..Len(w) : w[i] = u[a + i]
  <2> DEFINE b == a + 1
  <2>1. b \in Nat /\ 1 <= b /\ b <= Len(u) + 1 /\ Len(u) \in Nat /\ Len(u) <= Len(u)
        /\ Len(u) - b + 1 = Len(w)
    BY <1>1, <1>2, <1>3, <1>4, <1>5
  <2>2. \A i \in 1..Len(w) : b + i - 1 = a + i
    BY <1>5
  <2> HIDE DEF b
  <2>3. \A i \in 1..Len(u) - b + 1 : SubSeq(u, b, Len(u))[i] = u[b + i - 1]
    BY <1>4, <2>1, PartOf
  <2>4. w = SubSeq(u, b, Len(u))
    BY <1>3 DEF b
  <2> QED BY <2>1, <2>2, <2>3, <2>4
<1>7. \A i \in 1..Len(s) : s[i] = u[i]
  BY <1>1, <1>4
<1> HIDE DEF a
<1> SUFFICES ASSUME NEW p \in Indicators
             PROVE  Occurs(p, Normalized(u)) <=> Occurs(p, Normalized(s)) \/ Occurs(p, Normalized(w))
  BY DEF InspectText, u, w
<1>8. /\ Len(p) \in Nat /\ Len(p) >= 1 /\ Len(p) <= Keep + 1
      /\ Occurs(p, Normalized(u)) <=> \E i \in 0..Len(u) - Len(p) : StandsAt(p, u, i)
      /\ Occurs(p, Normalized(s)) <=> \E i \in 0..Len(s) - Len(p) : StandsAt(p, s, i)
      /\ Occurs(p, Normalized(w)) <=> \E i \in 0..Len(w) - Len(p) : StandsAt(p, w, i)
  BY <1>3, <1>4, OccursStands
<1>9. ASSUME NEW i \in 0..Len(u) - Len(p), StandsAt(p, u, i)
      PROVE  \/ \E j \in 0..Len(s) - Len(p) : StandsAt(p, s, j)
             \/ \E j \in 0..Len(w) - Len(p) : StandsAt(p, w, j)
  <2>1. CASE i + Len(p) <= Len(s)
    <3>1. i \in 0..Len(s) - Len(p)
      BY <1>1, <1>8, <2>1
    <3>2. \A j \in 1..Len(p) : s[i + j] = u[i + j]
      BY <1>1, <1>7, <1>8, <2>1
    <3> QED BY <1>9, <3>1, <3>2 DEF StandsAt
  <2>2. CASE ~(i + Len(p) <= Len(s))
    <3>1. i >= a
      BY <1>1, <1>2, <1>8, <2>2, Sizes DEF a
    <3>2. i - a \in 0..Len(w) - Len(p)
      BY <1>1, <1>2, <1>3, <1>5, <1>8, <3>1
    <3>3. \A j \in 1..Len(p) : w[(i - a) + j] = u[i + j]
      <4>1. i \in Int /\ a \in Int /\ Len(p) \in Int /\ Len(w) \in Int
        BY <1>1, <1>2, <1>3, <1>5, <1>8
      <4>2. i - a >= 0 /\ (i - a) + Len(p) <= Len(w)
        BY <1>8, <3>2, <4>1
      <4>3. \A j \in 1..Len(p) : (i - a) + j \in 1..Len(w) /\ a + ((i - a) + j) = i + j
        BY <4>1, <4>2
      <4> QED BY <1>6, <4>3
    <3>4. StandsAt(p, w, i - a)
      BY <1>9, <3>3 DEF StandsAt
    <3> QED BY <3>2, <3>4
  <2> QED BY <2>1, <2>2
<1>10. ASSUME NEW i \in 0..Len(s) - Len(p), StandsAt(p, s, i)
       PROVE  \E j \in 0..Len(u) - Len(p) : StandsAt(p, u, j)
  <2>1. i \in 0..Len(u) - Len(p)
    BY <1>1, <1>4, <1>8
  <2>2. \A j \in 1..Len(p) : s[i + j] = u[i + j]
    BY <1>1, <1>7, <1>8
  <2> QED BY <1>10, <2>1, <2>2 DEF StandsAt
<1>11. ASSUME NEW i \in 0..Len(w) - Len(p), StandsAt(p, w, i)
       PROVE  \E j \in 0..Len(u) - Len(p) : StandsAt(p, u, j)
  <2>1. a + i \in 0..Len(u) - Len(p)
    BY <1>1, <1>2, <1>3, <1>5, <1>8
  <2>2. \A j \in 1..Len(p) : w[i + j] = u[(a + i) + j]
    <3>1. \A j \in 1..Len(p) : i + j \in 1..Len(w) /\ a + (i + j) = (a + i) + j
      BY <1>1, <1>2, <1>3, <1>5, <1>8
    <3> QED BY <1>6, <3>1
  <2>3. StandsAt(p, u, a + i)
    BY <1>11, <2>2 DEF StandsAt
  <2> QED BY <2>1, <2>3
<1> QED BY <1>8, <1>9, <1>10, <1>11

-----------------------------------------------------------------------------
(* The digest and the texts of a file that is read in pieces *)

(* Until a file is refused, the context and the window know all that has    *)
(* been read of it.                                                         *)
Fed ==
  program \in ShaPrograms /\ result \in {"none", "read"} =>
    /\ sha \in Contexts(Bytes) /\ Given(sha, buffer)
    /\ program \in Scanners => carry = TheEnd(buffer) /\ seen = InspectText(buffer)

(* Nothing has been fed at the start. *)
LEMMA InitFed == HashInit => Fed
<1> SUFFICES ASSUME HashInit PROVE Fed
  OBVIOUS
<1>1. buffer = <<>> /\ sha = [blocks |-> <<>>, block |-> <<>>, bits |-> 0] /\ carry = <<>> /\ seen = {}
  BY DEF HashInit, ReadInit
<1>2. sha \in Contexts(Bytes)
  <2>1. <<>> \in Seq(Bytes) /\ <<>> \in Seq(Seq(Bytes))
    BY EmptySeq
  <2> QED BY <1>1, <2>1 DEF Contexts
<1>3. Given(sha, buffer)
  <2>1. Len(buffer) = 0 /\ Len(sha.blocks) = 0 /\ sha.block = <<>> /\ sha.bits = 0
    BY <1>1
  <2>2. 0 * Block = 0
    BY Sizes
  <2>3. SubSeq(buffer, 0 * Block + 1, 0) = <<>>
    <3>1. 0 * Block + 1 \in Int /\ 0 < 0 * Block + 1
      BY <2>2
    <3> QED BY <3>1, SubSeqEmpty
  <2>4. Cut(sha, buffer, 0, 0)
    BY <2>1, <2>2, <2>3, Sizes DEF Cut
  <2> QED BY <2>1, <2>4 DEF Given
<1>4. carry = TheEnd(buffer)
  <2>1. buffer \in Seq(Characters) /\ Len(buffer) = 0
    BY <1>1, EmptySeq
  <2>2. TheEnd(buffer) \in Seq(Characters) /\ Len(TheEnd(buffer)) = 0
    <3>1. /\ Smaller(Keep, Len(buffer)) \in 0..Len(buffer)
          /\ TheEnd(buffer) \in Seq(Characters) /\ Len(TheEnd(buffer)) = Smaller(Keep, Len(buffer))
      BY <2>1, TheEndIs
    <3> QED BY <2>1, <3>1
  <2>3. TheEnd(buffer) = <<>>
    BY <2>2, EmptySeq
  <2> QED BY <1>1, <2>3
<1>5. seen = InspectText(buffer)
  <2>1. buffer \in Seq(Characters) /\ Len(buffer) = 0
    BY <1>1, EmptySeq
  <2>2. ASSUME NEW p \in Indicators PROVE ~Occurs(p, Normalized(buffer))
    <3>1. /\ Len(p) \in Nat /\ Len(p) >= 1
          /\ Occurs(p, Normalized(buffer)) <=> \E i \in 0..Len(buffer) - Len(p) : StandsAt(p, buffer, i)
      BY <2>1, OccursStands
    <3>2. ~ \E i \in 0..Len(buffer) - Len(p) : TRUE
      BY <2>1, <3>1
    <3> QED BY <3>1, <3>2
  <2> QED BY <1>1, <2>2 DEF InspectText
<1> QED BY <1>2, <1>3, <1>4, <1>5 DEF Fed

(* What a file is made of is among what blocks are made of. *)
LEMMA CharactersAreBytes == ASSUME NEW s \in Seq(Characters) PROVE s \in Seq(Bytes)
<1>1. Characters \subseteq Bytes
  BY DEF Bytes
<1> QED BY <1>1, SeqMonotonic

(* A step that reads nothing feeds nothing. *)
LEMMA NothingFed ==
  ASSUME Inv, Fed, Feed, UNCHANGED <<program, buffer>>, result' \in {result, "read", "unread"},
         result' = "read" => result \in {"none", "read"}
  PROVE  Fed'
<1>1. SubSeq(buffer', Len(buffer) + 1, Len(buffer')) = <<>>
  <2>1. Len(buffer) \in Nat /\ buffer' = buffer
    BY LenProperties DEF Inv, ReadTypeOK
  <2>2. Len(buffer) + 1 \in Int /\ Len(buffer) \in Int /\ Len(buffer) < Len(buffer) + 1
    BY <2>1
  <2>3. SubSeq(buffer, Len(buffer) + 1, Len(buffer)) = <<>>
    BY <2>2, SubSeqEmpty
  <2> QED BY <2>1, <2>3
<1>2. UNCHANGED <<sha, carry, seen>>
  BY <1>1 DEF Feed, hashVars
<1>3. result' \in {"none", "read"} => result \in {"none", "read"}
  OBVIOUS
<1> QED BY <1>2, <1>3 DEF Fed

(* One read is fed to both. *)
LEMMA ReadFed ==
  ASSUME Inv, Fed, Feed, NEW n \in 1..Smaller(Left, Wanted), Read(n)
  PROVE  Fed'
<1> DEFINE piece == SubSeq(file, Len(buffer) + 1, Len(buffer) + n)
           fresh == SubSeq(buffer', Len(buffer) + 1, Len(buffer'))
<1>1. /\ program' = program /\ result = "none" /\ result' \in {"none", "unread"}
      /\ buffer' = buffer \o piece
  BY DEF Read, Inv, Phases, inputVars, End
<1>2. SUFFICES ASSUME program \in ShaPrograms, result' = "none" PROVE Fed'
  BY <1>1 DEF Fed
<1>3. file \in Seq(Characters) /\ buffer \in Seq(Characters) /\ Len(file) \in Nat /\ Len(buffer) \in Nat
  BY LenProperties DEF Inv, ReadTypeOK
<1>4. n \in Nat /\ n >= 1 /\ n <= Len(file) - Len(buffer)
  BY <1>2, <1>3, ReadAssumption DEF Smaller, Wanted, Left
<1>5. piece \in Seq(Characters) /\ Len(piece) = n
  <2> DEFINE a == Len(buffer) + 1
             b == Len(buffer) + n
  <2>1. a \in Nat /\ b \in Nat /\ 1 <= a /\ a <= b + 1 /\ b <= Len(file) /\ b - a + 1 = n
    BY <1>3, <1>4
  <2> HIDE DEF a, b
  <2>2. SubSeq(file, a, b) \in Seq(Characters) /\ Len(SubSeq(file, a, b)) = b - a + 1
    BY <1>3, <2>1, PartOf
  <2> QED BY <2>1, <2>2 DEF a, b
<1> HIDE DEF piece
<1>6. fresh = piece
  <2>1. SubSeq(buffer \o piece, Len(buffer) + 1, Len(buffer \o piece)) = piece
    BY <1>3, <1>5, RestOfConcat
  <2> QED BY <1>1, <2>1
<1>7. piece # <<>>
  BY <1>4, <1>5, EmptySeq
<1>8. /\ sha' = Update(sha, piece)
      /\ program \in Scanners => seen' = seen \cup InspectText(carry \o piece)
                                 /\ carry' = TheEnd(carry \o piece)
  BY <1>2, <1>6, <1>7 DEF Feed
<1> HIDE DEF fresh
<1>9. /\ sha \in Contexts(Bytes) /\ Given(sha, buffer)
      /\ program \in Scanners => carry = TheEnd(buffer) /\ seen = InspectText(buffer)
  BY <1>1, <1>2 DEF Fed
<1>10. sha' \in Contexts(Bytes) /\ Given(sha', buffer')
  <2>1. buffer \in Seq(Bytes) /\ piece \in Seq(Bytes)
    BY <1>3, <1>5, CharactersAreBytes
  <2>2. Update(sha, piece) \in Contexts(Bytes) /\ Given(Update(sha, piece), buffer \o piece)
    BY <1>9, <2>1, UpdateCuts
  <2> QED BY <1>1, <1>8, <2>2
<1>11. ASSUME program \in Scanners PROVE carry' = TheEnd(buffer') /\ seen' = InspectText(buffer')
  <2>1. TheEnd(TheEnd(buffer) \o piece) = TheEnd(buffer \o piece)
    BY <1>3, <1>5, EndOfWindow
  <2>2. InspectText(buffer \o piece) = InspectText(buffer) \cup InspectText(TheEnd(buffer) \o piece)
    BY <1>3, <1>5, WindowFinds
  <2> QED BY <1>1, <1>8, <1>9, <1>11, <2>1, <2>2
<1> QED BY <1>1, <1>10, <1>11 DEF Fed

(* Every step keeps what both know. *)
LEMMA NextFed ==
  ASSUME Inv, Fed, ReadNext, Feed
  PROVE  Fed'
<1>1. CASE \E n \in 1..Smaller(Left, Wanted) : Read(n)
  BY <1>1, ReadFed
<1>2. CASE Open \/ Grow \/ ReadEof \/ ReadExtra \/ ReadOneMore \/ Check \/ Close \/ ReadFails
  <2>1. UNCHANGED <<program, buffer>> /\ result' \in {result, "read", "unread"}
    BY <1>2 DEF Open, Grow, ReadEof, ReadExtra, ReadOneMore, Check, Close, ReadFails, End, inputVars
  <2>2. result' = "read" => result \in {"none", "read"}
    BY <1>2 DEF Open, Grow, ReadEof, ReadExtra, ReadOneMore, Check, Close, ReadFails, End, inputVars,
                Inv, Phases
  <2> QED BY <2>1, <2>2, NothingFed
<1>3. CASE Others
  <2>1. UNCHANGED <<program, buffer, result>>
    BY <1>3 DEF Others, inputVars, readVars
  <2> QED BY <2>1, NothingFed
<1> QED BY <1>1, <1>2, <1>3 DEF ReadNext, Reader

(* Whoever knows all of a file has its digest and its texts. *)
LEMMA FedDigests == ASSUME Inv, Fed PROVE PiecesDoNotMatter
<1> SUFFICES ASSUME result = "read", program \in ShaPrograms
             PROVE  /\ Final(sha) = InBlocks(Padded(buffer))
                    /\ program \in Scanners => seen = InspectText(buffer)
  BY DEF PiecesDoNotMatter
<1>1. buffer \in Seq(Bytes)
  BY CharactersAreBytes DEF Inv, ReadTypeOK
<1>2. sha \in Contexts(Bytes) /\ Given(sha, buffer) /\ (program \in Scanners => seen = InspectText(buffer))
  BY DEF Fed
<1> QED BY <1>1, <1>2, FinalIsPadded

(* c/av_sha256.c, scan_file: into whatever pieces the reads cut a file, and *)
(* for any size of a block, of a length and of a text that is looked for,   *)
(* the digest is that of the padded file as a whole, and the texts that are *)
(* found are those that stand in it.                                        *)
THEOREM PiecesNeverMatter == HashSpec => []PiecesDoNotMatter
<1>1. HashInit => Inv /\ Fed
  BY InitInv, InitFed DEF HashInit
<1>2. Inv /\ Fed /\ [HashNext]_<<fileVars, hashVars>> => Inv' /\ Fed'
  <2>1. ASSUME Inv, Fed, HashNext PROVE Inv' /\ Fed'
    BY <2>1, ReaderInv, OthersInv, NextFed DEF HashNext, ReadNext
  <2>2. ASSUME Inv, Fed, UNCHANGED <<fileVars, hashVars>> PROVE Inv' /\ Fed'
    <3>1. Inv'
      BY <2>2 DEF fileVars, inputVars, readVars, worldVars, Inv, ReadTypeOK, Kept, Phases,
         Sized, ReadsWhole, RefusalHasCause, Reading, Supported, Limit
    <3>2. UNCHANGED <<program, result, buffer, sha, carry, seen>>
      BY <2>2 DEF fileVars, inputVars, readVars, hashVars
    <3> QED BY <2>2, <3>1, <3>2 DEF Fed
  <2> QED BY <2>1, <2>2
<1>3. Inv /\ Fed => PiecesDoNotMatter
  BY FedDigests
<1> QED BY <1>1, <1>2, <1>3, PTL DEF HashSpec

-----------------------------------------------------------------------------
(* A recursion from the end of an interval down to its start *)

(* What a step makes of a function at j, it makes of its values beyond j.   *)
Descends(step, lo, hi, S) ==
  /\ step \in [[lo..hi -> S] -> [lo..hi -> S]]
  /\ \A g, h \in [lo..hi -> S] : \A j \in lo..hi :
       (\A k \in lo..hi : j < k => g[k] = h[k]) => step[g][j] = step[h][j]

(* A recursion whose steps look only further on has a solution.             *)
LEMMA DescentExists ==
  ASSUME NEW lo \in Nat, NEW hi \in Nat, NEW S, NEW s \in S, NEW step, Descends(step, lo, hi, S)
  PROVE  \E f \in [lo..hi -> S] : f = step[f]
<1> DEFINE D == lo..hi
           F == [D -> S]
           After(m) == {j \in D : hi - m < j}
           U == {m \in Nat : \E f \in F : \A j \in After(m) : f[j] = step[f][j]}
<1>1. \A g \in F : step[g] \in F
  BY DEF Descends
<1>2. \A g, h \in F : \A j \in D : (\A k \in D : j < k => g[k] = h[k]) => step[g][j] = step[h][j]
  BY DEF Descends
<1>3. 0 \in U
  <2>1. [j \in D |-> s] \in F /\ After(0) = {}
    OBVIOUS
  <2> QED BY <2>1
<1>4. ASSUME NEW m \in Nat, m \in U PROVE m + 1 \in U
  <2> HIDE DEF F
  <2>1. PICK f \in F : \A j \in After(m) : f[j] = step[f][j]
    BY <1>4
  <2> DEFINE g == step[f]
  <2>2. g \in F
    BY <1>1
  <2>3. ASSUME NEW j \in After(m + 1) PROVE g[j] = step[g][j]
    <3>1. j \in D /\ hi - (m + 1) < j
      OBVIOUS
    <3>2. ASSUME NEW k \in D, j < k PROVE f[k] = g[k]
      <4>1. k \in After(m)
        BY <3>1, <3>2
      <4> QED BY <2>1, <4>1
    <3> HIDE DEF g
    <3>3. step[f][j] = step[g][j]
      BY <1>2, <2>2, <3>1, <3>2
    <3> QED BY <3>3 DEF g
  <2> HIDE DEF g
  <2> QED BY <2>2, <2>3
<1>5. Nat \subseteq U
  <2> HIDE DEF U
  <2> QED BY <1>3, <1>4, Counting
<1>6. PICK f \in F : \A j \in After(hi + 1) : f[j] = step[f][j]
  <2>1. hi + 1 \in U
    <3> HIDE DEF U
    <3> QED BY <1>5
  <2> QED BY <2>1
<1>7. After(hi + 1) = D
  OBVIOUS
<1>8. \A j \in D : f[j] = step[f][j]
  BY <1>6, <1>7
<1>9. step[f] \in F
  BY <1>1
<1>10. f = step[f]
  <2> HIDE DEF D, After, U
  <2> QED BY <1>8, <1>9
<1> QED BY <1>10

-----------------------------------------------------------------------------
(* Texts and what stands at their positions *)

(* A text, of any characters but the one that At gives for its end.         *)
Text(t) == Len(t) \in Nat /\ DOMAIN t = 1..Len(t) /\ \A i \in DOMAIN t : t[i] # "end"

(* The positions in a text, and the one behind it.                          *)
Places(t) == 1..Len(t) + 1

(* The end is where there is no character.                                  *)
LEMMA AtIs ==
  ASSUME NEW t, Text(t), NEW i \in Int
  PROVE  /\ i \in 1..Len(t) <=> At(t, i) # "end"
         /\ i \in 1..Len(t) => At(t, i) = t[i]
BY DEF Text, At

(* What is skipped is in S, and what comes next is not.                     *)
LEMMA SkipIs ==
  ASSUME NEW t, Text(t), NEW i \in Places(t), NEW S, "end" \notin S
  PROVE  /\ Skip(t, i, S) \in Places(t) /\ i <= Skip(t, i, S)
         /\ At(t, Skip(t, i, S)) \notin S
         /\ \A j \in i..Skip(t, i, S) - 1 : At(t, j) \in S /\ t[j] \in S
<1> DEFINE Stops == {j \in i..Len(t) + 1 : At(t, j) \notin S}
           m == CHOOSE j \in Stops : \A k \in Stops : j <= k
<1>1. Len(t) \in Nat /\ i \in 1..Len(t) + 1
  BY DEF Text, Places
<1>2. Len(t) + 1 \in Stops
  <2>1. At(t, Len(t) + 1) = "end"
    BY <1>1 DEF At, Text
  <2> QED BY <1>1, <2>1
<1>3. \E j \in Stops : \A k \in Stops : j <= k
  <2> DEFINE T == {n \in Nat : \A j \in Stops : i + n <= j}
  <2>1. SUFFICES ASSUME \A j \in Stops : \E k \in Stops : ~(j <= k) PROVE FALSE
    OBVIOUS
  <2>2. 0 \in T
    BY <1>1
  <2>3. ASSUME NEW n \in Nat, n \in T PROVE n + 1 \in T
    <3>1. i + n \notin Stops
      BY <2>1, <2>3
    <3>2. \A j \in Stops : j \in Nat /\ i + n <= j /\ j # i + n
      BY <1>1, <2>3, <3>1
    <3> QED BY <1>1, <3>2
  <2>4. Nat \subseteq T
    <3> HIDE DEF T
    <3> QED BY <2>2, <2>3, Counting
  <2>5. Len(t) + 1 \in T
    BY <1>1, <2>4
  <2> QED BY <1>1, <1>2, <2>5
<1>4. m \in Stops /\ \A k \in Stops : m <= k
  BY <1>3
<1>5. Skip(t, i, S) = m
  BY DEF Skip, Min
<1> HIDE DEF m
<1>6. m \in i..Len(t) + 1 /\ At(t, m) \notin S
  BY <1>4
<1>7. ASSUME NEW j \in i..m - 1 PROVE At(t, j) \in S /\ t[j] \in S
  <2>1. j \in i..Len(t) + 1 /\ j \in 1..Len(t) /\ j < m
    BY <1>1, <1>6
  <2>2. At(t, j) \in S
    BY <1>4, <1>1, <2>1
  <2> QED BY <2>1, <2>2 DEF At, Text
<1> QED BY <1>1, <1>5, <1>6, <1>7 DEF Places

(* There is only one first position. *)
LEMMA SkipOnly ==
  ASSUME NEW t, Text(t), NEW i \in Places(t), NEW S, "end" \notin S,
         NEW j \in Places(t), i <= j, At(t, j) \notin S, \A k \in i..j - 1 : t[k] \in S
  PROVE  Skip(t, i, S) = j
<1> DEFINE m == Skip(t, i, S)
<1>1. Len(t) \in Nat /\ i \in 1..Len(t) + 1 /\ j \in 1..Len(t) + 1
  BY DEF Text, Places
<1>2. /\ m \in 1..Len(t) + 1 /\ i <= m /\ At(t, m) \notin S
      /\ \A k \in i..m - 1 : At(t, k) \in S
  BY SkipIs DEF Places
<1> HIDE DEF m
<1>3. ~(j < m)
  BY <1>1, <1>2
<1>4. ~(m < j)
  <2> SUFFICES ASSUME m < j PROVE FALSE
    OBVIOUS
  <2>1. m \in 1..Len(t) /\ t[m] \in S
    BY <1>1, <1>2
  <2> QED BY <1>2, <2>1 DEF At, Text
<1> QED BY <1>1, <1>2, <1>3, <1>4 DEF m

(* Going down from the last position. *)
LEMMA Downwards ==
  ASSUME NEW n \in Nat, NEW T,
         \A i \in 1..n : (\A j \in 1..n : i < j => j \in T) => i \in T
  PROVE  \A i \in 1..n : i \in T
<1> DEFINE U == {m \in Nat : \A i \in 1..n : n - m < i => i \in T}
<1>1. 0 \in U
  OBVIOUS
<1>2. ASSUME NEW m \in Nat, m \in U PROVE m + 1 \in U
  <2>1. ASSUME NEW i \in 1..n, n - (m + 1) < i PROVE i \in T
    <3>1. \A j \in 1..n : i < j => n - m < j
      BY <2>1
    <3> QED BY <1>2, <3>1
  <2> QED BY <2>1
<1>3. n \in U
  <2> HIDE DEF U
  <2>1. Nat \subseteq U
    BY <1>1, <1>2, Counting
  <2> QED BY <2>1
<1> QED BY <1>3

-----------------------------------------------------------------------------
(* Strings *)

(* What stands in a string only behind a backslash.                         *)
Quotes == {"quote", "nl", "nul", "ctl"}

(* Starts is where escapes start in a text from a to b. *)
Escaping(t, a, b, Starts) ==
  /\ Starts \subseteq {i \in a..b - 1 : t[i] = "\\"}
  /\ \A i \in a..b - 1 : t[i] = "\\" => (i \in Starts <=> i - 1 \notin Starts)
  /\ \A i \in Starts :
       /\ i + 1 < b
       /\ \/ t[i + 1] \in ShortEscapes
          \/ /\ t[i + 1] = "u"
             /\ i + 1 + HexDigits < b
             /\ \A k \in 1..HexDigits : t[i + 1 + k] \in Hex
  /\ \A i \in a..b - 1 : t[i] \in Quotes => i - 1 \in Starts

(* The same set of starts as in the grammar.                                *)
LEMMA EscapingIs ==
  ASSUME NEW t, NEW a, NEW b
  PROVE  Grammar!IsCharacters(t, a, b) <=> \E Starts : Escaping(t, a, b, Starts)
<1>1. Grammar!Digit \cup {"e"} = Hex
  BY DEF Grammar!Digit, Hex
<1> QED BY <1>1 DEF Grammar!IsCharacters, Escaping, ShortEscapes, Quotes

(* From j to k there is one character of a string, or one escape. *)
Unit(t, j, k) ==
  \/ k = j + 1 /\ t[j] \notin Quotes \cup {"\\"}
  \/ k = j + 2 /\ t[j] = "\\" /\ t[j + 1] \in ShortEscapes
  \/ k = j + 2 + HexDigits /\ t[j] = "\\" /\ t[j + 1] = "u" /\ \A i \in 1..HexDigits : t[j + 1 + i] \in Hex

(* No digit of an escape is special in a string.                            *)
LEMMA HexIsPlain ==
  /\ Hex \cap (Quotes \cup {"\\"}) = {} /\ "u" \notin Quotes \cup {"\\"}
  /\ ShortEscapes \cap {"nl", "ctl", "u"} = {}
BY DEF Hex, Quotes, ShortEscapes

(* A unit before characters of a string makes characters of a string.       *)
LEMMA UnitBefore ==
  ASSUME NEW t, NEW j \in Int, NEW k \in Int, NEW b \in Int, k <= b, Unit(t, j, k), Grammar!IsCharacters(t, k, b)
  PROVE  Grammar!IsCharacters(t, j, b)
<1>1. HexDigits \in Nat /\ HexDigits > 0
  BY JsonAssumption
<1>2. PICK Old : Escaping(t, k, b, Old)
  BY EscapingIs
<1> DEFINE Starts == IF t[j] = "\\" THEN Old \cup {j} ELSE Old
<1>3. j < k /\ Old \subseteq k..b - 1
  BY <1>1, <1>2 DEF Unit, Escaping
<1>4. \A i \in j + 1..k - 1 : t[i] \in {"\\"} \cup Quotes => t[j] = "\\" /\ i = j + 1
  <2>1. SUFFICES ASSUME NEW i \in j + 1..k - 1, t[i] \in {"\\"} \cup Quotes, i # j + 1 PROVE FALSE
    BY DEF Unit
  <2>2. k = j + 2 + HexDigits /\ \A n \in 1..HexDigits : t[j + 1 + n] \in Hex
    BY <2>1 DEF Unit
  <2>3. t[j + 1 + (i - (j + 1))] \in Hex
    BY <1>1, <2>1, <2>2
  <2>4. t[i] \in Hex
    BY <2>1, <2>3
  <2> QED BY <2>1, <2>4, HexIsPlain
<1>5. Starts \subseteq {i \in j..b - 1 : t[i] = "\\"}
  BY <1>2, <1>3 DEF Escaping
<1>6. ASSUME NEW i \in j..b - 1, t[i] = "\\" PROVE i \in Starts <=> i - 1 \notin Starts
  <2>1. CASE i = j
    BY <1>3, <1>6, <2>1
  <2>2. CASE i \in j + 1..k - 1
    <3>1. i = j + 1 /\ t[j] = "\\"
      BY <1>4, <1>6, <2>2
    <3> QED BY <1>3, <2>2, <3>1
  <2>3. CASE i \in k..b - 1
    <3>1. i \in Old <=> i - 1 \notin Old
      BY <1>2, <1>6, <2>3 DEF Escaping
    <3>2. i \in Starts <=> i \in Old
      BY <1>3, <2>3
    <3>3. i - 1 = j => t[j] # "\\"
      BY <1>3, <2>3, <1>1 DEF Unit
    <3> QED BY <3>1, <3>2, <3>3
  <2> QED BY <1>3, <2>1, <2>2, <2>3
<1>7. ASSUME NEW i \in Starts
      PROVE  /\ i + 1 < b
             /\ \/ t[i + 1] \in ShortEscapes
                \/ /\ t[i + 1] = "u"
                   /\ i + 1 + HexDigits < b
                   /\ \A n \in 1..HexDigits : t[i + 1 + n] \in Hex
  <2>1. CASE i \in Old
    BY <1>2, <2>1 DEF Escaping
  <2>2. CASE i \notin Old
    <3>1. i = j /\ t[j] = "\\"
      BY <1>7, <2>2
    <3> HIDE DEF Starts
    <3> QED BY <1>1, <3>1 DEF Unit
  <2> QED BY <2>1, <2>2
<1>8. ASSUME NEW i \in j..b - 1, t[i] \in Quotes PROVE i - 1 \in Starts
  <2>1. i # j
    BY <1>8, HexIsPlain DEF Unit, Quotes
  <2>2. CASE i \in j + 1..k - 1
    BY <1>4, <1>8, <2>2
  <2>3. CASE i \in k..b - 1
    BY <1>2, <1>8, <2>3 DEF Escaping
  <2> QED BY <1>3, <2>1, <2>2, <2>3
<1> HIDE DEF Starts
<1>9. Escaping(t, j, b, Starts)
  BY <1>5, <1>6, <1>7, <1>8 DEF Escaping
<1> QED BY <1>9, EscapingIs

(* Characters of a string begin with a unit, if there are any.              *)
LEMMA UnitAfter ==
  ASSUME NEW t, NEW j \in Int, NEW b \in Int, j < b, Grammar!IsCharacters(t, j, b)
  PROVE  \E k \in j + 1..b : Unit(t, j, k) /\ Grammar!IsCharacters(t, k, b)
<1>1. HexDigits \in Nat /\ HexDigits > 0
  BY JsonAssumption
<1>2. PICK Old : Escaping(t, j, b, Old)
  BY EscapingIs
<1> DEFINE Starts == Old \ {j}
<1>3. Old \subseteq j..b - 1 /\ t[j] \notin Quotes /\ (j \in Old <=> t[j] = "\\")
  <2>1. Old \subseteq j..b - 1 /\ j - 1 \notin Old
    BY <1>2 DEF Escaping
  <2> QED BY <1>2, <2>1 DEF Escaping
<1>4. PICK k \in j + 1..b : Unit(t, j, k)
  <2>1. CASE t[j] # "\\"
    <3>1. Unit(t, j, j + 1)
      BY <1>3, <2>1 DEF Unit
    <3> QED BY <3>1
  <2>2. CASE t[j] = "\\"
    <3>1. j \in Old
      BY <1>3, <2>2
    <3>2. CASE t[j + 1] \in ShortEscapes
      <4>1. Unit(t, j, j + 2) /\ j + 1 < b
        BY <1>2, <2>2, <3>1, <3>2 DEF Unit, Escaping
      <4> QED BY <4>1
    <3>3. CASE t[j + 1] \notin ShortEscapes
      <4>1. Unit(t, j, j + 2 + HexDigits) /\ j + 1 + HexDigits < b
        BY <1>2, <2>2, <3>1, <3>3 DEF Unit, Escaping
      <4> QED BY <1>1, <4>1
    <3> QED BY <3>2, <3>3
  <2> QED BY <2>1, <2>2
<1>5. k - 1 \in Old => k = j + 1 /\ t[j] = "\\"
  <2>1. SUFFICES ASSUME k - 1 \in Old PROVE k = j + 1
    BY <1>2 DEF Escaping
  <2>2. t[k - 1] = "\\"
    BY <1>2, <2>1 DEF Escaping
  <2>3. k # j + 2
    <3> SUFFICES ASSUME k = j + 2 PROVE FALSE
      OBVIOUS
    <3>1. t[j] = "\\" /\ t[j + 1] = "\\" /\ j + 1 \in Old
      BY <1>1, <2>1, <2>2, <1>4 DEF Unit
    <3>2. j \in Old /\ j + 1 \in j..b - 1
      BY <1>3, <3>1
    <3>3. j + 1 \in Old <=> (j + 1) - 1 \notin Old
      BY <1>2, <3>1, <3>2 DEF Escaping
    <3> QED BY <3>1, <3>2, <3>3
  <2>4. ~(k = j + 2 + HexDigits /\ \A i \in 1..HexDigits : t[j + 1 + i] \in Hex)
    <3> SUFFICES ASSUME k = j + 2 + HexDigits, \A i \in 1..HexDigits : t[j + 1 + i] \in Hex PROVE FALSE
      OBVIOUS
    <3>1. t[j + 1 + HexDigits] \in Hex /\ j + 1 + HexDigits = k - 1
      BY <1>1
    <3> QED BY <2>2, <3>1, HexIsPlain
  <2> QED BY <1>4, <2>3, <2>4 DEF Unit
<1>6. k = j + 1 => t[j] # "\\"
  BY <1>1, <1>4 DEF Unit
<1>7. k - 1 \notin Old
  BY <1>5, <1>6
<1>8. \A i \in Old \ {j} : i \in k..b - 1
  <2>1. SUFFICES ASSUME NEW i \in Old, i # j, i \notin k..b - 1 PROVE FALSE
    OBVIOUS
  <2>2. i \in j + 1..k - 1 /\ t[i] = "\\"
    BY <1>2, <1>3, <2>1 DEF Escaping
  <2>3. i # k - 1
    BY <1>7, <2>1
  <2>4. k = j + 2 + HexDigits /\ t[j + 1] = "u" /\ \A n \in 1..HexDigits : t[j + 1 + n] \in Hex
    BY <1>4, <2>2, <2>3 DEF Unit
  <2>5. i # j + 1
    BY <2>2, <2>4
  <2>6. t[j + 1 + (i - (j + 1))] \in Hex
    <3>1. i - (j + 1) \in 1..HexDigits
      BY <1>1, <2>2, <2>4, <2>5
    <3> QED BY <2>4, <3>1
  <2>7. t[i] \in Hex
    BY <2>2, <2>6
  <2> QED BY <2>2, <2>7, HexIsPlain
<1>9. Escaping(t, k, b, Starts)
  <2>1. Starts \subseteq {i \in k..b - 1 : t[i] = "\\"}
    BY <1>2, <1>8 DEF Escaping
  <2>2. ASSUME NEW i \in k..b - 1 PROVE i \in j..b - 1 /\ (i \in Old <=> i \in Starts) /\ (i - 1 \in Old <=> i - 1 \in Starts)
    <3>1. i - 1 = j => j \notin Old
      BY <1>7, <2>2
    <3> QED BY <2>2, <3>1
  <2>3. \A i \in k..b - 1 : t[i] = "\\" => (i \in Starts <=> i - 1 \notin Starts)
    BY <1>2, <2>2 DEF Escaping
  <2>4. \A i \in k..b - 1 : t[i] \in Quotes => i - 1 \in Starts
    BY <1>2, <2>2 DEF Escaping
  <2>5. \A i \in Starts :
          /\ i + 1 < b
          /\ \/ t[i + 1] \in ShortEscapes
             \/ /\ t[i + 1] = "u"
                /\ i + 1 + HexDigits < b
                /\ \A n \in 1..HexDigits : t[i + 1 + n] \in Hex
    BY <1>2 DEF Escaping
  <2> HIDE DEF Starts
  <2> QED BY <2>1, <2>3, <2>4, <2>5 DEF Escaping
<1>10. Grammar!IsCharacters(t, k, b)
  BY <1>9, EscapingIs
<1> QED BY <1>4, <1>10

-----------------------------------------------------------------------------
(* What is parsed of a string that ends: where it ends, and else 0.         *)

(* What a parsing operator may return.                                      *)
Ends(t) == 0..Len(t) + 1

(* What StringEnd makes at j of its values beyond j. *)
StringStep(t, end, j) ==
  CASE At(t, j) \in Control \cup {"end"} -> 0
    [] At(t, j) = "quote" -> j + 1
    [] At(t, j) = "\\" ->
         CASE At(t, j + 1) \in ShortEscapes -> end[j + 2]
           [] /\ At(t, j + 1) = "u"
              /\ \A k \in 1..HexDigits : At(t, j + 1 + k) \in Hex
                -> end[j + 2 + HexDigits]
           [] OTHER -> 0
    [] OTHER -> end[j + 1]

(* The end of the text, the quote, a unit and the rest, or a wrong escape.  *)
LEMMA StringStepIs ==
  ASSUME NEW t, Text(t), NEW j \in Places(t), NEW end \in [Places(t) -> Ends(t)]
  PROVE  \/ At(t, j) \in Control \cup {"end"} /\ StringStep(t, end, j) = 0
         \/ At(t, j) = "quote" /\ j + 1 \in Places(t) /\ StringStep(t, end, j) = j + 1
         \/ \E k \in Places(t) : j < k /\ Unit(t, j, k) /\ StringStep(t, end, j) = end[k]
         \/ /\ At(t, j) = "\\" /\ StringStep(t, end, j) = 0
            /\ At(t, j + 1) \notin ShortEscapes
            /\ ~(At(t, j + 1) = "u" /\ \A k \in 1..HexDigits : At(t, j + 1 + k) \in Hex)
<1>1. HexDigits \in Nat /\ HexDigits > 0 /\ Len(t) \in Nat /\ j \in 1..Len(t) + 1
  BY JsonAssumption DEF Text, Places
<1>2. \A i \in Int : At(t, i) # "end" => i \in 1..Len(t) /\ At(t, i) = t[i]
  BY AtIs
<1>3. /\ "\\" \notin Control \cup {"end", "quote"} /\ "quote" \notin Control \cup {"end"}
      /\ "end" \notin ShortEscapes \cup Hex /\ Quotes \subseteq Control \cup {"quote"} /\ "u" \notin ShortEscapes
  BY DEF Control, ShortEscapes, Hex, Quotes
<1>4. CASE At(t, j) \in Control \cup {"end"}
  BY <1>3, <1>4 DEF StringStep
<1>5. CASE At(t, j) = "quote"
  <2>1. StringStep(t, end, j) = j + 1
    BY <1>3, <1>5 DEF StringStep
  <2>2. j \in 1..Len(t)
    BY <1>1, <1>2, <1>5
  <2> QED BY <1>1, <1>5, <2>1, <2>2 DEF Places
<1>6. CASE At(t, j) = "\\"
  <2>1. t[j] = "\\" /\ j \in 1..Len(t)
    BY <1>1, <1>2, <1>6
  <2>2. CASE At(t, j + 1) \in ShortEscapes
    <3>1. t[j + 1] \in ShortEscapes /\ j + 1 \in 1..Len(t)
      BY <1>1, <1>2, <1>3, <2>2
    <3>2. Unit(t, j, j + 2) /\ j + 2 \in Places(t) /\ j < j + 2
      BY <1>1, <2>1, <3>1 DEF Unit, Places
    <3>3. StringStep(t, end, j) = end[j + 2]
      BY <1>3, <1>6, <2>2 DEF StringStep
    <3> QED BY <3>2, <3>3
  <2>3. CASE At(t, j + 1) = "u" /\ \A k \in 1..HexDigits : At(t, j + 1 + k) \in Hex
    <3>1. ASSUME NEW k \in 1..HexDigits PROVE t[j + 1 + k] \in Hex /\ j + 1 + k \in 1..Len(t)
      <4>1. At(t, j + 1 + k) \in Hex
        BY <2>3
      <4>2. At(t, j + 1 + k) # "end"
        BY <4>1 DEF Hex
      <4>3. j + 1 + k \in Int
        BY <1>1
      <4> QED BY <1>2, <4>1, <4>2, <4>3
    <3>2. t[j + 1] = "u" /\ j + 1 + HexDigits \in 1..Len(t)
      BY <1>1, <1>2, <2>3, <3>1
    <3>3. Unit(t, j, j + 2 + HexDigits)
      BY <2>1, <3>1, <3>2 DEF Unit
    <3>5. j + 2 + HexDigits \in Places(t) /\ j < j + 2 + HexDigits
      BY <1>1, <3>2 DEF Places
    <3>4. StringStep(t, end, j) = end[j + 2 + HexDigits]
      BY <1>3, <1>6, <2>3 DEF StringStep
    <3> QED BY <3>3, <3>4, <3>5
  <2>4. CASE At(t, j + 1) \notin ShortEscapes /\ ~(At(t, j + 1) = "u" /\ \A k \in 1..HexDigits : At(t, j + 1 + k) \in Hex)
    <3>1. StringStep(t, end, j) = 0
      BY <1>3, <1>6, <2>4 DEF StringStep
    <3> QED BY <1>6, <2>4, <3>1
  <2> QED BY <2>2, <2>3, <2>4
<1>7. CASE At(t, j) \notin Control \cup {"end", "quote", "\\"}
  <2>1. StringStep(t, end, j) = end[j + 1]
    BY <1>7 DEF StringStep
  <2>2. t[j] = At(t, j) /\ j \in 1..Len(t)
    BY <1>1, <1>2, <1>7
  <2>3. Unit(t, j, j + 1) /\ j + 1 \in Places(t) /\ j < j + 1
    BY <1>1, <1>3, <1>7, <2>2 DEF Unit, Places
  <2> QED BY <2>1, <2>3
<1> QED BY <1>4, <1>5, <1>6, <1>7

(* The step looks only further on.                                          *)
LEMMA StringStepsAgree ==
  ASSUME NEW t, Text(t), NEW j \in Places(t), NEW g, NEW h,
         \A k \in Places(t) : j < k => g[k] = h[k]
  PROVE  StringStep(t, g, j) = StringStep(t, h, j)
<1>1. HexDigits \in Nat /\ Len(t) \in Nat /\ j \in 1..Len(t) + 1
  BY JsonAssumption DEF Text, Places
<1>2. \A i \in Int : At(t, i) # "end" => i \in 1..Len(t)
  BY AtIs
<1>3. At(t, j) # "end" => g[j + 1] = h[j + 1]
  BY <1>1, <1>2 DEF Places
<1>4. At(t, j + 1) \in ShortEscapes => g[j + 2] = h[j + 2]
  <2>1. At(t, j + 1) \in ShortEscapes => j + 2 \in Places(t) /\ j < j + 2
    BY <1>1, <1>2 DEF Places, ShortEscapes
  <2> QED BY <2>1
<1>5. (\A k \in 1..HexDigits : At(t, j + 1 + k) \in Hex) => g[j + 2 + HexDigits] = h[j + 2 + HexDigits]
  <2> SUFFICES ASSUME \A k \in 1..HexDigits : At(t, j + 1 + k) \in Hex PROVE g[j + 2 + HexDigits] = h[j + 2 + HexDigits]
    OBVIOUS
  <2>1. HexDigits \in 1..HexDigits
    BY JsonAssumption
  <2>2. At(t, j + 1 + HexDigits) # "end"
    BY <2>1 DEF Hex
  <2>3. j + 2 + HexDigits \in Places(t) /\ j < j + 2 + HexDigits
    BY <1>1, <1>2, <2>2 DEF Places
  <2> QED BY <2>3
<1> QED BY <1>3, <1>4, <1>5 DEF StringStep

(* Hence StringEnd is a function that the step leaves as it is.             *)
LEMMA StringEndUnfolds ==
  ASSUME NEW t, Text(t)
  PROVE  \E end \in [Places(t) -> Ends(t)] : \A j \in Places(t) :
           end[j] = StringStep(t, end, j) /\ StringEnd(t, j) = end[j]
<1> DEFINE lo == 1
           hi == Len(t) + 1
           F == [lo..hi -> Ends(t)]
           step == [g \in F |-> [j \in lo..hi |-> StringStep(t, g, j)]]
<1>1. hi \in Nat /\ lo \in Nat /\ 0 \in Ends(t) /\ Places(t) = lo..hi
  BY DEF Text, Ends, Places
<1>2. ASSUME NEW g \in F, NEW j \in lo..hi PROVE StringStep(t, g, j) \in Ends(t)
  <2>1. j \in Places(t) /\ g \in [Places(t) -> Ends(t)] /\ 0 \in Ends(t)
    BY <1>1
  <2>2. \A k \in Places(t) : k \in Ends(t) /\ g[k] \in Ends(t)
    BY <2>1 DEF Places, Ends
  <2> HIDE DEF lo, hi, F, step
  <2> QED BY <2>1, <2>2, StringStepIs
<1>3. ASSUME NEW g, NEW h, NEW j \in lo..hi, \A k \in lo..hi : j < k => g[k] = h[k]
      PROVE  StringStep(t, g, j) = StringStep(t, h, j)
  <2>1. /\ j \in Places(t)
        /\ \A k \in Places(t) : j < k => g[k] = h[k]
    BY <1>1, <1>3
  <2> HIDE DEF lo, hi, F, step
  <2> QED BY <2>1, StringStepsAgree
<1>4. Descends(step, lo, hi, Ends(t))
  <2>1. step \in [F -> F]
    BY <1>2
  <2>2. \A g, h \in F : \A j \in lo..hi : (\A k \in lo..hi : j < k => g[k] = h[k]) => step[g][j] = step[h][j]
    BY <1>3
  <2> HIDE DEF step, lo, hi
  <2> QED BY <2>1, <2>2 DEF Descends
<1>5. \E f \in F : f = step[f]
  <2> HIDE DEF step, lo, hi
  <2> QED BY <1>1, <1>4, DescentExists
<1>6. PICK f \in F : f = [j \in lo..hi |-> StringStep(t, f, j)]
  BY <1>5
<1> DEFINE G(g) == [j \in lo..hi |-> StringStep(t, g, j)]
           end == CHOOSE g : g = G(g)
<1>7. end = G(end)
  <2> HIDE DEF G
  <2> QED BY <1>6 DEF G
<1>8. ASSUME NEW j \in Places(t) PROVE StringEnd(t, j) = end[j]
  BY <1>1, <1>8 DEF StringEnd, StringStep
<1> HIDE DEF end
<1>9. \A j \in lo..hi : end[j] = StringStep(t, end, j) /\ f[j] = StringStep(t, f, j)
  BY <1>6, <1>7
<1>10. \A j \in lo..hi : end[j] = f[j]
  <2> DEFINE T == {j \in lo..hi : end[j] = f[j]}
  <2>1. ASSUME NEW i \in 1..hi, \A j \in 1..hi : i < j => j \in T PROVE i \in T
    <3>1. \A k \in lo..hi : i < k => end[k] = f[k]
      BY <2>1
    <3> HIDE DEF hi, G
    <3> QED BY <1>3, <1>9, <3>1
  <2>2. \A i \in 1..hi : i \in T
    <3> HIDE DEF T, hi
    <3> QED BY <1>1, <2>1, Downwards
  <2> QED BY <2>2
<1>11. end = f
  <2> HIDE DEF F, hi
  <2> QED BY <1>6, <1>7, <1>10
<1> HIDE DEF G, F
<1> QED BY <1>1, <1>8, <1>9, <1>11 DEF F

(* Only one unit starts at a position.                                      *)
LEMMA UnitOnly ==
  ASSUME NEW t, NEW j, NEW k, NEW l, Unit(t, j, k), Unit(t, j, l)
  PROVE  k = l
BY HexIsPlain DEF Unit

(* There may be nothing between the quotes.                                 *)
LEMMA NoCharacters == ASSUME NEW t, NEW j \in Int PROVE Grammar!IsCharacters(t, j, j)
<1>1. j..j - 1 = {}
  OBVIOUS
<1>2. Escaping(t, j, j, {})
  BY <1>1 DEF Escaping
<1> QED BY <1>2, EscapingIs

(* StringEnd finds the one quote that ends characters of a string.          *)
LEMMA StringEndsAt ==
  ASSUME NEW t, Text(t), NEW end \in [Places(t) -> Ends(t)],
         \A j \in Places(t) : end[j] = StringStep(t, end, j)
  PROVE  \A j \in Places(t) : \A b \in Places(t) :
           end[j] = b <=> j < b /\ t[b - 1] = "quote" /\ Grammar!IsCharacters(t, j, b - 1)
<1> DEFINE Good(j, b) == j < b /\ t[b - 1] = "quote" /\ Grammar!IsCharacters(t, j, b - 1)
           T == {j \in Places(t) : \A b \in Places(t) : end[j] = b <=> Good(j, b)}
           n == Len(t) + 1
<1>1. n \in Nat /\ Places(t) = 1..n
  BY DEF Text, Places
<1>2. HexDigits \in Nat /\ HexDigits > 0
  BY JsonAssumption
<1>3. \A i \in 1..Len(t) : At(t, i) = t[i]
  BY AtIs
<1>4. ASSUME NEW j \in 1..n, \A k \in 1..n : j < k => k \in T PROVE j \in T
  <2>1. \A k \in Places(t) : j < k => \A b \in Places(t) : end[k] = b <=> Good(k, b)
    BY <1>1, <1>4
  <2> HIDE DEF T
  <2>2. j \in Places(t)
    BY <1>1
  <2>3. ASSUME NEW b \in Places(t), end[j] = b PROVE Good(j, b)
    <3>1. b # 0 /\ b \in Int /\ j \in Int
      BY <2>2 DEF Places
    <3>2. CASE At(t, j) = "quote" /\ end[j] = j + 1
      <4>1. t[j] = "quote" /\ b - 1 = j /\ j < b
        BY <2>3, <3>1, <3>2, AtIs
      <4> QED BY <3>1, <4>1, NoCharacters
    <3>3. ASSUME NEW k \in Places(t), j < k, Unit(t, j, k), end[j] = end[k] PROVE Good(j, b)
      <4>1. Good(k, b)
        BY <2>1, <2>3, <3>3
      <4>2. k \in Int /\ k <= b - 1 /\ j < b
        BY <3>1, <3>3, <4>1 DEF Places
      <4> QED BY <3>1, <3>3, <4>1, <4>2, UnitBefore
    <3> QED BY <2>2, <2>3, <3>1, <3>2, <3>3, StringStepIs
  <2>4. ASSUME NEW b \in Places(t), Good(j, b) PROVE end[j] = b
    <3>1. j \in 1..Len(t) /\ b \in Int /\ b - 1 \in 1..Len(t) /\ j \in Int
      BY <2>4, <1>1 DEF Places, Text
    <3>2. At(t, j) = t[j] /\ At(t, j) # "end"
      BY <3>1, AtIs
    <3>3. CASE j = b - 1
      <4>1. At(t, j) = "quote"
        BY <2>4, <3>2, <3>3
      <4>2. StringStep(t, end, j) = j + 1
        BY <4>1 DEF StringStep, Control
      <4> QED BY <2>2, <3>1, <3>3, <4>2
    <3>4. CASE j # b - 1
      <4>1. j < b - 1 /\ b - 1 \in Int
        BY <2>4, <3>1, <3>4
      <4>2. PICK k \in j + 1..b - 1 : Unit(t, j, k) /\ Grammar!IsCharacters(t, k, b - 1)
        BY <2>4, <3>1, <4>1, UnitAfter
      <4>3. k \in Places(t) /\ j < k /\ k < b
        BY <3>1, <4>2 DEF Places
      <4>4. Good(k, b)
        BY <2>4, <4>2, <4>3
      <4>5. end[k] = b
        BY <2>1, <4>3, <4>4
      <4>6. At(t, j) \notin Control \cup {"end", "quote"}
        BY <3>2, <4>2 DEF Unit, Control, Quotes
      <4>7. \A l \in Places(t) : Unit(t, j, l) => l = k
        BY <4>2, UnitOnly
      <4>8. CASE At(t, j) = "\\" /\ t[j + 1] \in ShortEscapes
        <5>1. At(t, j + 1) \in ShortEscapes
          <6>1. j + 1 \in 1..Len(t)
            BY <3>1, <4>1
          <6> QED BY <1>3, <4>8, <6>1
        <5> QED BY <2>2, <4>5, <4>6, <4>7, <5>1, StringStepIs
      <4>9. CASE At(t, j) = "\\" /\ t[j + 1] = "u" /\ k = j + 2 + HexDigits
                 /\ \A i \in 1..HexDigits : t[j + 1 + i] \in Hex
        <5>1. At(t, j + 1) = "u"
          <6>1. j + 1 \in 1..Len(t)
            BY <3>1, <4>1
          <6> QED BY <1>3, <4>9, <6>1
        <5>2. ASSUME NEW i \in 1..HexDigits PROVE At(t, j + 1 + i) \in Hex
          <6>1. j + 1 + i \in 1..Len(t)
            BY <1>2, <3>1, <4>3, <4>9
          <6> QED BY <1>3, <4>9, <6>1
        <5> QED BY <2>2, <4>5, <4>6, <4>7, <5>1, <5>2, StringStepIs
      <4>10. CASE At(t, j) # "\\"
        BY <2>2, <4>5, <4>6, <4>7, <4>10, StringStepIs
      <4> QED BY <3>2, <4>2, <4>8, <4>9, <4>10 DEF Unit
    <3> QED BY <3>3, <3>4
  <2> QED BY <2>2, <2>3, <2>4 DEF T
<1>5. \A j \in 1..n : j \in T
  <2> HIDE DEF T, n
  <2> QED BY <1>1, <1>4, Downwards
<1> QED BY <1>1, <1>5

(* The parser of strings finds the strings of the grammar, and no others. *)
LEMMA ParsesStrings ==
  ASSUME NEW t, Text(t), NEW i \in Places(t)
  PROVE  /\ ParseString(t, i) \in Ends(t)
         /\ \A b \in Places(t) : ParseString(t, i) = b <=> Grammar!IsString(t, i, b)
<1>1. PICK end \in [Places(t) -> Ends(t)] : \A j \in Places(t) :
        end[j] = StringStep(t, end, j) /\ StringEnd(t, j) = end[j]
  BY StringEndUnfolds
<1>2. \A j \in Places(t) : \A b \in Places(t) :
        end[j] = b <=> j < b /\ t[b - 1] = "quote" /\ Grammar!IsCharacters(t, j, b - 1)
  BY <1>1, StringEndsAt
<1>3. Len(t) \in Nat /\ i \in 1..Len(t) + 1 /\ i \in Int
  BY DEF Text, Places
<1>4. i \in 1..Len(t) <=> At(t, i) # "end"
  BY <1>3, AtIs
<1>5. CASE At(t, i) = "quote"
  <2>1. i \in 1..Len(t) /\ t[i] = "quote" /\ i + 1 \in Places(t)
    BY <1>3, <1>4, <1>5, AtIs DEF Places
  <2>2. ParseString(t, i) = end[i + 1]
    BY <1>1, <1>5, <2>1 DEF ParseString
  <2> QED BY <1>1, <1>2, <2>1, <2>2 DEF Grammar!IsString
<1>6. CASE At(t, i) # "quote"
  <2>1. ParseString(t, i) = 0
    BY <1>6 DEF ParseString
  <2>2. ASSUME NEW b \in Places(t), Grammar!IsString(t, i, b) PROVE FALSE
    <3>1. i + 1 < b /\ t[i] = "quote"
      BY <2>2 DEF Grammar!IsString
    <3>2. i \in 1..Len(t)
      BY <1>3, <3>1 DEF Places
    <3> QED BY <1>3, <1>6, <3>1, <3>2, AtIs
  <2>3. \A b \in Places(t) : b # 0
    BY DEF Places
  <2> QED BY <1>3, <2>1, <2>2, <2>3 DEF Ends
<1> QED BY <1>5, <1>6

-----------------------------------------------------------------------------
(* Numbers *)

(* The digits are those of the grammar, and no other part of a number.      *)
LEMMA DigitIs == Grammar!Digit = Digits /\ "end" \notin Digits /\ {".", "e", "-", "+"} \cap Digits = {}
BY DEF Grammar!Digit, Digits

(* SomeDigits finds the end of all digits that are there.                   *)
LEMMA ParsesDigits ==
  ASSUME NEW t, Text(t), NEW i \in Places(t)
  PROVE  /\ SomeDigits(t, i) \in Ends(t)
         /\ \A b \in Places(t) : SomeDigits(t, i) = b <=> Grammar!IsDigits(t, i, b) /\ At(t, b) \notin Digits
<1> DEFINE e == Skip(t, i, Digits)
<1>1. Len(t) \in Nat /\ i \in 1..Len(t) + 1 /\ "end" \notin Digits
  BY DigitIs DEF Text, Places
<1>2. /\ e \in 1..Len(t) + 1 /\ i <= e /\ At(t, e) \notin Digits
      /\ \A j \in i..e - 1 : t[j] \in Digits
  BY <1>1, SkipIs DEF Places
<1>3. ASSUME NEW b \in Places(t), Grammar!IsDigits(t, i, b)
      PROVE  /\ At(t, i) \in Digits /\ i < b /\ b \in 1..Len(t) + 1
             /\ At(t, b) \notin Digits => e = b
  <2>1. i < b /\ b \in 1..Len(t) + 1 /\ \A j \in i..b - 1 : t[j] \in Digits
    BY <1>3, DigitIs DEF Grammar!IsDigits, Grammar!All, Places
  <2>2. i \in 1..Len(t) /\ i \in i..b - 1
    BY <1>1, <2>1
  <2>3. At(t, i) = t[i] /\ t[i] \in Digits
    BY <2>1, <2>2, AtIs
  <2>4. At(t, b) \notin Digits => e = b
    <3>1. i <= b
      BY <1>1, <2>1
    <3> QED BY <1>1, <2>1, <3>1, SkipOnly
  <2> QED BY <2>1, <2>3, <2>4
<1> HIDE DEF e
<1>4. CASE At(t, i) \in Digits
  <2>1. SomeDigits(t, i) = e
    BY <1>4 DEF SomeDigits, e
  <2>2. i # e
    BY <1>2, <1>4
  <2>3. Grammar!IsDigits(t, i, e)
    BY <1>1, <1>2, <2>2, DigitIs DEF Grammar!IsDigits, Grammar!All
  <2> QED BY <1>1, <1>2, <1>3, <2>1, <2>3 DEF Ends
<1>5. CASE At(t, i) \notin Digits
  <2>1. SomeDigits(t, i) = 0
    BY <1>5 DEF SomeDigits
  <2>2. \A b \in Places(t) : b # 0
    BY DEF Places
  <2> QED BY <1>1, <1>3, <1>5, <2>1, <2>2 DEF Ends
<1> QED BY <1>4, <1>5

(* So does WholePart, but for digits behind a 0.                            *)
LEMMA ParsesWhole ==
  ASSUME NEW t, Text(t), NEW i \in Places(t)
  PROVE  /\ WholePart(t, i) \in Ends(t)
         /\ \A b \in Places(t) : WholePart(t, i) = b => Grammar!IsWhole(t, i, b)
         /\ \A b \in Places(t) : Grammar!IsWhole(t, i, b) /\ At(t, b) \notin Digits => WholePart(t, i) = b
<1>1. Len(t) \in Nat /\ i \in 1..Len(t) + 1
  BY DEF Text, Places
<1>2. \A b \in Places(t) : Grammar!IsDigits(t, i, b) => i \in 1..Len(t)
  BY <1>1 DEF Grammar!IsDigits, Places
<1>3. i \in 1..Len(t) => At(t, i) = t[i]
  BY AtIs
<1>4. CASE At(t, i) = "0"
  <2>1. WholePart(t, i) = i + 1
    BY <1>4 DEF WholePart
  <2>2. i \in 1..Len(t) /\ t[i] = "0"
    BY <1>1, <1>4, AtIs
  <2>3. Grammar!IsWhole(t, i, i + 1)
    BY <2>2 DEF Grammar!IsWhole, Grammar!IsDigits, Grammar!All, Grammar!Digit
  <2> QED BY <1>1, <2>1, <2>2, <2>3 DEF Grammar!IsWhole, Ends
<1>5. CASE At(t, i) # "0"
  <2>1. WholePart(t, i) = SomeDigits(t, i)
    BY <1>5 DEF WholePart
  <2>2. \A b \in Places(t) : Grammar!IsDigits(t, i, b) => Grammar!IsWhole(t, i, b)
    BY <1>2, <1>3, <1>5 DEF Grammar!IsWhole
  <2>3. \A b \in Places(t) : Grammar!IsWhole(t, i, b) => Grammar!IsDigits(t, i, b)
    BY DEF Grammar!IsWhole
  <2> QED BY <2>1, <2>2, <2>3, ParsesDigits
<1> QED BY <1>4, <1>5

(* A fraction, or none.                                                     *)
LEMMA ParsesFraction ==
  ASSUME NEW t, Text(t), NEW i \in Places(t)
  PROVE  /\ Fraction(t, i) \in Ends(t)
         /\ \A b \in Places(t) : Fraction(t, i) = b => i = b \/ Grammar!IsFraction(t, i, b)
         /\ \A b \in Places(t) :
              (i = b \/ Grammar!IsFraction(t, i, b)) /\ At(t, b) \notin Digits \cup {"."} => Fraction(t, i) = b
<1>1. Len(t) \in Nat /\ i \in 1..Len(t) + 1 /\ i # 0
  BY DEF Text, Places
<1>2. \A b \in Places(t) : Grammar!IsFraction(t, i, b) => i \in 1..Len(t) /\ At(t, i) = "."
  <2>1. \A b \in Places(t) : Grammar!IsFraction(t, i, b) => i \in 1..Len(t) /\ t[i] = "."
    BY <1>1 DEF Grammar!IsFraction, Places
  <2> QED BY <2>1, AtIs
<1>3. CASE At(t, i) = "."
  <2>1. Fraction(t, i) = SomeDigits(t, i + 1)
    BY <1>1, <1>3 DEF Fraction
  <2>2. i \in 1..Len(t) /\ t[i] = "."
    BY <1>1, <1>3, AtIs
  <2>3. i + 1 \in Places(t)
    BY <2>2 DEF Places
  <2>4. \A b \in Places(t) : Grammar!IsDigits(t, i + 1, b) <=> Grammar!IsFraction(t, i, b)
    BY <1>1, <2>2 DEF Grammar!IsFraction, Grammar!IsDigits, Places
  <2> QED BY <1>3, <2>1, <2>3, <2>4, ParsesDigits
<1>4. CASE At(t, i) # "."
  <2>1. Fraction(t, i) = i
    BY <1>4 DEF Fraction
  <2> QED BY <1>1, <1>2, <1>4, <2>1 DEF Ends
<1> QED BY <1>3, <1>4

(* An exponent, or none.                                                    *)
LEMMA ParsesExponent ==
  ASSUME NEW t, Text(t), NEW i \in Places(t)
  PROVE  /\ Exponent(t, i) \in Ends(t)
         /\ \A b \in Places(t) : Exponent(t, i) = b => i = b \/ Grammar!IsExponent(t, i, b)
         /\ \A b \in Places(t) :
              (i = b \/ Grammar!IsExponent(t, i, b)) /\ At(t, b) \notin Digits \cup {"e"} => Exponent(t, i) = b
<1>1. Len(t) \in Nat /\ i \in 1..Len(t) + 1 /\ i # 0
  BY DEF Text, Places
<1>2. \A b \in Places(t) : Grammar!IsExponent(t, i, b) => i \in 1..Len(t) /\ At(t, i) = "e"
  <2>1. \A b \in Places(t) : Grammar!IsExponent(t, i, b) => i \in 1..Len(t) /\ t[i] = "e"
    BY <1>1 DEF Grammar!IsExponent, Places
  <2> QED BY <2>1, AtIs
<1>3. CASE At(t, i) = "e"
  <2>1. i \in 1..Len(t) /\ t[i] = "e"
    BY <1>1, <1>3, AtIs
  <2>2. i + 1 \in Places(t) /\ i + 1 \in Int
    BY <2>1 DEF Places
  <2>3. i + 1 \in 1..Len(t) => At(t, i + 1) = t[i + 1]
    BY AtIs
  <2>4. CASE At(t, i + 1) \in {"+", "-"}
    <3>1. Exponent(t, i) = SomeDigits(t, i + 2)
      BY <1>1, <1>3, <2>4 DEF Exponent
    <3>2. i + 1 \in 1..Len(t) /\ t[i + 1] \in {"+", "-"}
      BY <2>2, <2>4, AtIs
    <3>3. i + 2 \in Places(t)
      BY <3>2 DEF Places
    <3>4. t[i + 1] \notin Grammar!Digit
      BY <3>2 DEF Grammar!Digit
    <3>5. \A b \in Places(t) : Grammar!IsExponent(t, i, b) => Grammar!IsDigits(t, i + 2, b)
      BY <1>1, <2>1, <3>2, <3>4 DEF Grammar!IsExponent, Grammar!IsDigits, Grammar!All, Places
    <3>6. \A b \in Places(t) : Grammar!IsDigits(t, i + 2, b) => Grammar!IsExponent(t, i, b)
      BY <1>1, <2>1, <3>2 DEF Grammar!IsExponent, Grammar!IsDigits, Places
    <3> QED BY <1>3, <3>1, <3>3, <3>5, <3>6, ParsesDigits
  <2>5. CASE At(t, i + 1) \notin {"+", "-"}
    <3>1. Exponent(t, i) = SomeDigits(t, i + 1)
      BY <1>1, <1>3, <2>5 DEF Exponent
    <3>2. \A b \in Places(t) : Grammar!IsExponent(t, i, b) => Grammar!IsDigits(t, i + 1, b)
      <4>1. \A b \in Places(t) : Grammar!IsExponent(t, i, b) => i + 1 \in 1..Len(t)
        BY <1>1 DEF Grammar!IsExponent, Places
      <4> QED BY <2>3, <2>5, <4>1 DEF Grammar!IsExponent
    <3>3. \A b \in Places(t) : Grammar!IsDigits(t, i + 1, b) => Grammar!IsExponent(t, i, b)
      BY <1>1, <2>1 DEF Grammar!IsExponent, Grammar!IsDigits, Places
    <3> QED BY <1>3, <2>2, <3>1, <3>2, <3>3, ParsesDigits
  <2> QED BY <2>4, <2>5
<1>4. CASE At(t, i) # "e"
  <2>1. Exponent(t, i) = i
    BY <1>4 DEF Exponent
  <2> QED BY <1>1, <1>2, <1>4, <2>1 DEF Ends
<1> QED BY <1>3, <1>4

(* What may follow a number in a JSON text. *)
LEMMA ParsesUnsigned ==
  ASSUME NEW t, Text(t), NEW i \in Places(t)
  PROVE  LET n == Exponent(t, Fraction(t, WholePart(t, i))) IN
         /\ n \in Ends(t)
         /\ \A b \in Places(t) : n = b => Grammar!IsUnsigned(t, i, b)
         /\ \A b \in Places(t) :
              Grammar!IsUnsigned(t, i, b) /\ At(t, b) \notin Digits \cup {".", "e"} => n = b
<1> DEFINE w == WholePart(t, i)
           f == Fraction(t, w)
           n == Exponent(t, f)
<1>1. Len(t) \in Nat /\ i \in 1..Len(t) + 1
  BY DEF Text, Places
<1>2. Ends(t) = {0} \cup Places(t) /\ 0 \notin Places(t)
  BY <1>1 DEF Ends, Places
<1>3. w \in Ends(t) /\ (w \in Places(t) => Grammar!IsWhole(t, i, w))
  BY ParsesWhole
<1>4. f \in Ends(t) /\ (f \in Places(t) => w \in Places(t) /\ (w = f \/ Grammar!IsFraction(t, w, f)))
  <2>1. CASE w = 0
    <3>1. f = 0
      BY <2>1 DEF Fraction
    <3> QED BY <1>2, <3>1
  <2>2. CASE w \in Places(t)
    BY <2>2, ParsesFraction
  <2> QED BY <1>2, <1>3, <2>1, <2>2
<1>5. n \in Ends(t) /\ (n \in Places(t) => f \in Places(t) /\ (f = n \/ Grammar!IsExponent(t, f, n)))
  <2>1. CASE f = 0
    <3>1. n = 0
      BY <2>1 DEF Exponent
    <3> QED BY <1>2, <3>1
  <2>2. CASE f \in Places(t)
    BY <2>2, ParsesExponent
  <2> QED BY <1>2, <1>4, <2>1, <2>2
<1>6. ASSUME NEW b \in Places(t), n = b PROVE Grammar!IsUnsigned(t, i, b)
  <2> HIDE DEF w, f, n
  <2>1. w \in Places(t) /\ f \in Places(t) /\ Grammar!IsWhole(t, i, w)
    BY <1>3, <1>4, <1>5, <1>6
  <2>2. w = f \/ Grammar!IsFraction(t, w, f)
    BY <1>4, <2>1
  <2>3. f = b \/ Grammar!IsExponent(t, f, b)
    BY <1>5, <1>6
  <2>4. i <= w /\ w <= f /\ f <= b
    BY <1>1, <2>1, <2>2, <2>3 DEF Grammar!IsWhole, Grammar!IsDigits, Grammar!IsFraction, Grammar!IsExponent, Places
  <2>5. w \in i..b /\ f \in i..b
    BY <1>1, <2>1, <2>4 DEF Places
  <2> QED BY <2>1, <2>2, <2>3, <2>4, <2>5 DEF Grammar!IsUnsigned
<1>7. ASSUME NEW b \in Places(t), Grammar!IsUnsigned(t, i, b), At(t, b) \notin Digits \cup {".", "e"} PROVE n = b
  <2>1. PICK k \in i..b, l \in i..b :
          /\ k <= l /\ Grammar!IsWhole(t, i, k)
          /\ k = l \/ Grammar!IsFraction(t, k, l)
          /\ l = b \/ Grammar!IsExponent(t, l, b)
    BY <1>7 DEF Grammar!IsUnsigned
  <2>2. k \in Places(t) /\ l \in Places(t)
    BY <1>1, <2>1 DEF Places
  <2>3. At(t, l) \notin Digits \cup {"."}
    <3>1. CASE l = b
      BY <1>7, <3>1
    <3>2. CASE Grammar!IsExponent(t, l, b)
      <4>1. t[l] = "e" /\ l \in 1..Len(t)
        BY <1>1, <2>2, <3>2 DEF Grammar!IsExponent, Places
      <4> QED BY <4>1, AtIs, DigitIs
    <3> QED BY <2>1, <3>1, <3>2
  <2>4. At(t, k) \notin Digits
    <3>1. CASE k = l
      BY <2>3, <3>1
    <3>2. CASE Grammar!IsFraction(t, k, l)
      <4>1. t[k] = "." /\ k \in 1..Len(t)
        BY <1>1, <2>2, <3>2 DEF Grammar!IsFraction, Places
      <4> QED BY <4>1, AtIs, DigitIs
    <3> QED BY <2>1, <3>1, <3>2
  <2>5. w = k
    BY <2>1, <2>2, <2>4, ParsesWhole
  <2>6. Fraction(t, k) = l
    BY <2>1, <2>2, <2>3, ParsesFraction
  <2>7. Exponent(t, l) = b
    BY <1>7, <2>1, <2>2, ParsesExponent
  <2> QED BY <2>5, <2>6, <2>7
<1> QED BY <1>5, <1>6, <1>7

(* Of a number that ends where no more of one can follow, the parser finds  *)
(* the end; what it finds is a number.                                      *)
LEMMA ParsesNumbers ==
  ASSUME NEW t, Text(t), NEW i \in Places(t)
  PROVE  /\ ParseNumber(t, i) \in Ends(t)
         /\ \A b \in Places(t) : ParseNumber(t, i) = b => Grammar!IsNumber(t, i, b)
         /\ \A b \in Places(t) :
              Grammar!IsNumber(t, i, b) /\ At(t, b) \notin Digits \cup {".", "e"} => ParseNumber(t, i) = b
<1>1. Len(t) \in Nat /\ i \in 1..Len(t) + 1
  BY DEF Text, Places
<1>2. \A b \in Places(t) : Grammar!IsUnsigned(t, i, b) => i \in 1..Len(t) /\ t[i] \in Digits
  <2>1. ASSUME NEW b \in Places(t), Grammar!IsUnsigned(t, i, b) PROVE i \in 1..Len(t) /\ t[i] \in Digits
    <3>1. PICK k \in i..b : Grammar!IsDigits(t, i, k)
      BY <2>1 DEF Grammar!IsUnsigned, Grammar!IsWhole
    <3>2. i < k /\ i \in 1..Len(t) /\ i \in i..k - 1
      BY <1>1, <3>1 DEF Grammar!IsDigits, Places
    <3> QED BY <3>1, <3>2, DigitIs DEF Grammar!IsDigits, Grammar!All
  <2> QED BY <2>1
<1>3. \A b \in Places(t) : i < b => i \in 1..Len(t)
  BY <1>1 DEF Places
<1>4. i \in 1..Len(t) => At(t, i) = t[i]
  BY AtIs
<1>5. CASE At(t, i) = "-"
  <2>1. i \in 1..Len(t) /\ t[i] = "-"
    BY <1>1, <1>5, AtIs
  <2>2. i + 1 \in Places(t)
    BY <2>1 DEF Places
  <2>3. ParseNumber(t, i) = Exponent(t, Fraction(t, WholePart(t, i + 1)))
    BY <1>5 DEF ParseNumber
  <2>4. \A b \in Places(t) : Grammar!IsUnsigned(t, i + 1, b) => i < b
    <3>1. \A b \in Places(t) : Grammar!IsUnsigned(t, i + 1, b) => \E k \in i + 1..b : TRUE
      BY DEF Grammar!IsUnsigned
    <3> QED BY <1>1, <3>1 DEF Places
  <2>5. \A b \in Places(t) : Grammar!IsNumber(t, i, b) <=> Grammar!IsUnsigned(t, i + 1, b)
    BY <1>2, <2>1, <2>4, DigitIs DEF Grammar!IsNumber
  <2> QED BY <2>2, <2>3, <2>5, ParsesUnsigned
<1>6. CASE At(t, i) # "-"
  <2>1. ParseNumber(t, i) = Exponent(t, Fraction(t, WholePart(t, i)))
    BY <1>6 DEF ParseNumber
  <2>2. \A b \in Places(t) : Grammar!IsNumber(t, i, b) <=> Grammar!IsUnsigned(t, i, b)
    BY <1>3, <1>4, <1>6 DEF Grammar!IsNumber
  <2> QED BY <2>1, <2>2, ParsesUnsigned
<1> QED BY <1>5, <1>6

-----------------------------------------------------------------------------
(* White space, and the string and the colon before a member *)

(* White space is that of the grammar.                                      *)
LEMMA BlankIs == Grammar!White = Blank /\ "end" \notin Blank
BY DEF Grammar!White, Blank

(* SkipSpace skips white space.                                             *)
LEMMA SpaceIs ==
  ASSUME NEW t, Text(t), NEW i \in Places(t)
  PROVE  /\ SkipSpace(t, i) \in Places(t) /\ i <= SkipSpace(t, i) /\ At(t, SkipSpace(t, i)) \notin Blank
         /\ Grammar!All(t, i, SkipSpace(t, i), Grammar!White)
BY SkipIs, BlankIs DEF SkipSpace, Grammar!All

(* It skips all of it.                                                      *)
LEMMA SpaceOnly ==
  ASSUME NEW t, Text(t), NEW i \in Places(t), NEW j \in Places(t), i <= j, At(t, j) \notin Blank,
         Grammar!All(t, i, j, Grammar!White)
  PROVE  SkipSpace(t, i) = j
BY SkipOnly, BlankIs DEF SkipSpace, Grammar!All

(* All of two parts is all of each.                                         *)
LEMMA AllOfBoth ==
  ASSUME NEW t, NEW a \in Int, NEW b \in Int, NEW c \in Int, NEW S, a <= b, b <= c
  PROVE  Grammar!All(t, a, c, S) <=> Grammar!All(t, a, b, S) /\ Grammar!All(t, b, c, S)
<1>1. \A i : i \in a..c - 1 <=> i \in a..b - 1 \/ i \in b..c - 1
  OBVIOUS
<1> QED BY <1>1 DEF Grammar!All

(* ParseKey finds a string with a colon behind it.                          *)
LEMMA ParsesKeys ==
  ASSUME NEW t, Text(t), NEW j \in Places(t)
  PROVE  /\ ParseKey(t, j) \in Ends(t)
         /\ ParseKey(t, j) \in Places(t) =>
              \E s \in Places(t), c \in 1..Len(t) :
                /\ ParseKey(t, j) = c + 1 /\ t[c] = ":" /\ s <= c /\ j < s
                /\ Grammar!IsString(t, j, s) /\ Grammar!All(t, s, c, Grammar!White)
         /\ \A s \in Places(t), c \in 1..Len(t) :
              t[c] = ":" /\ s <= c /\ Grammar!IsString(t, j, s) /\ Grammar!All(t, s, c, Grammar!White)
                => ParseKey(t, j) = c + 1
<1>1. Len(t) \in Nat /\ j \in 1..Len(t) + 1 /\ Ends(t) = {0} \cup Places(t) /\ 0 \notin Places(t)
  BY DEF Text, Places, Ends
<1> DEFINE s0 == ParseString(t, j)
           c0 == SkipSpace(t, s0)
<1>2. s0 \in Ends(t) /\ \A b \in Places(t) : s0 = b <=> Grammar!IsString(t, j, b)
  BY ParsesStrings
<1>3. ParseKey(t, j) = IF s0 # 0 /\ At(t, c0) = ":" THEN c0 + 1 ELSE 0
  BY DEF ParseKey
<1>4. s0 # 0 => c0 \in Places(t) /\ s0 <= c0 /\ Grammar!All(t, s0, c0, Grammar!White)
  BY <1>1, <1>2, SpaceIs
<1> HIDE DEF s0, c0
<1>5. CASE s0 # 0 /\ At(t, c0) = ":"
  <2>1. s0 \in Places(t) /\ Grammar!IsString(t, j, s0) /\ c0 \in 1..Len(t) /\ t[c0] = ":"
    <3>1. s0 \in Places(t) /\ c0 \in Int
      BY <1>1, <1>2, <1>4, <1>5 DEF Places
    <3> QED BY <1>2, <1>5, <3>1, AtIs
  <2>2. j < s0 /\ c0 + 1 \in Ends(t)
    BY <1>1, <2>1 DEF Grammar!IsString, Places, Ends
  <2>3. ASSUME NEW s \in Places(t), NEW c \in 1..Len(t), t[c] = ":", s <= c,
               Grammar!IsString(t, j, s), Grammar!All(t, s, c, Grammar!White)
        PROVE  c = c0
    <3>1. s = s0 /\ c \in Places(t) /\ At(t, c) = ":" /\ ":" \notin Blank
      BY <1>1, <1>2, <2>3, AtIs DEF Places, Blank
    <3>2. SkipSpace(t, s) = c
      BY <2>3, <3>1, SpaceOnly
    <3> QED BY <3>1, <3>2 DEF c0
  <2> QED BY <1>3, <1>4, <1>5, <2>1, <2>2, <2>3
<1>6. CASE ~(s0 # 0 /\ At(t, c0) = ":")
  <2>1. ParseKey(t, j) = 0
    BY <1>3, <1>6
  <2>2. ASSUME NEW s \in Places(t), NEW c \in 1..Len(t), t[c] = ":", s <= c,
               Grammar!IsString(t, j, s), Grammar!All(t, s, c, Grammar!White)
        PROVE  FALSE
    <3>1. s = s0 /\ c \in Places(t) /\ At(t, c) = ":" /\ ":" \notin Blank
      BY <1>1, <1>2, <2>2, AtIs DEF Places, Blank
    <3>2. SkipSpace(t, s) = c
      BY <2>2, <3>1, SpaceOnly
    <3> QED BY <1>1, <1>6, <3>1, <3>2 DEF c0
  <2> QED BY <1>1, <2>1, <2>2
<1> QED BY <1>5, <1>6

-----------------------------------------------------------------------------
(* A series of parts is one part, or a part, a comma and a series. *)

(* (The backends take some one-character strings badly.)                    *)
Comma == ","

(* The cuts make a series of parts.                                         *)
Serial(t, a, b, open, Values, Cuts) ==
  /\ Cuts \subseteq {i \in a..b - 1 : t[i] = Comma}
  /\ \A p \in Cuts \cup {a - 1}, q \in Cuts \cup {b} :
       p < q /\ (\A c \in Cuts : c <= p \/ q <= c) => Grammar!IsPart(t, p + 1, q, open, Values)

(* The same cuts as in the grammar.                                         *)
LEMMA SerialIs ==
  ASSUME NEW t, NEW a, NEW b, NEW open, NEW Values
  PROVE  Grammar!IsSeries(t, a, b, open, Values) <=> \E Cuts : Serial(t, a, b, open, Values, Cuts)
<1>1. {i \in a..b - 1 : t[i] = ","} = {i \in a..b - 1 : t[i] = Comma}
  BY Zenon DEF Comma
<1> DEFINE S == {i \in a..b - 1 : t[i] = Comma}
<1>2. Grammar!IsSeries(t, a, b, open, Values) <=>
        \E Cuts \in SUBSET S :
          \A p \in Cuts \cup {a - 1}, q \in Cuts \cup {b} :
            p < q /\ (\A c \in Cuts : c <= p \/ q <= c) => Grammar!IsPart(t, p + 1, q, open, Values)
  BY <1>1, Zenon DEF Grammar!IsSeries
<1> HIDE DEF S
<1> QED BY <1>2, Zenon DEF Serial, S

(* Cuts are commas inside.                                                  *)
LEMMA CutsIn ==
  ASSUME NEW t, NEW a \in Int, NEW b \in Int, NEW open, NEW Values, NEW Cuts, Serial(t, a, b, open, Values, Cuts)
  PROVE  \A i \in Cuts : i \in Int /\ a <= i /\ i < b /\ i \in a..b - 1 /\ t[i] = Comma
<1> SUFFICES ASSUME NEW i \in Cuts PROVE i \in Int /\ a <= i /\ i < b /\ i \in a..b - 1 /\ t[i] = Comma
  OBVIOUS
<1>1. Cuts \subseteq {j \in a..b - 1 : t[j] = Comma}
  BY DEF Serial
<1>2. i \in a..b - 1 /\ t[i] = Comma
  BY <1>1
<1> QED BY <1>2

(* A part is a series.                                                      *)
LEMMA OnePart ==
  ASSUME NEW t, NEW a \in Int, NEW b \in Int, NEW open, NEW Values, Grammar!IsPart(t, a, b, open, Values)
  PROVE  Grammar!IsSeries(t, a, b, open, Values)
<1>1. (a - 1) + 1 = a
  OBVIOUS
<1>2. Serial(t, a, b, open, Values, {})
  BY <1>1 DEF Serial
<1> QED BY <1>2, SerialIs

(* So are a part, a comma and a series.                                     *)
LEMMA PartBefore ==
  ASSUME NEW t, NEW a \in Int, NEW q \in Int, NEW b \in Int, NEW open, NEW Values,
         a <= q, q < b, t[q] = Comma,
         Grammar!IsPart(t, a, q, open, Values), Grammar!IsSeries(t, q + 1, b, open, Values)
  PROVE  Grammar!IsSeries(t, a, b, open, Values)
<1>1. PICK Old : Serial(t, q + 1, b, open, Values, Old)
  BY SerialIs
<1> DEFINE Cuts == Old \cup {q}
<1>2. (a - 1) + 1 = a /\ (q + 1) - 1 = q /\ \A i \in Old : i \in Int /\ q + 1 <= i /\ i < b /\ t[i] = Comma
  BY <1>1, CutsIn
<1>3. Cuts \subseteq {i \in a..b - 1 : t[i] = Comma}
  BY <1>2
<1>4. ASSUME NEW p \in Cuts \cup {a - 1}, NEW r \in Cuts \cup {b},
             p < r, \A c \in Cuts : c <= p \/ r <= c
      PROVE  Grammar!IsPart(t, p + 1, r, open, Values)
  <2>1. CASE p = a - 1
    <3>1. r = q
      <4>1. r \in Int /\ (r # q => q < r)
        BY <1>2, <1>4
      <4>2. q <= p \/ r <= q
        BY <1>4
      <4> QED BY <2>1, <4>1, <4>2
    <3> QED BY <1>2, <2>1, <3>1
  <2>2. CASE p # a - 1
    <3>1. p \in Old \cup {q} /\ r # q
      <4>1. p \in Old \cup {q}
        BY <1>4, <2>2
      <4>2. p \in Int /\ q <= p
        BY <1>2, <4>1
      <4> QED BY <1>4, <4>1, <4>2
    <3>2. r \in Old \cup {b} /\ \A c \in Old : c <= p \/ r <= c
      BY <1>4, <3>1
    <3> QED BY <1>1, <1>2, <1>4, <3>1, <3>2 DEF Serial
  <2> QED BY <2>1, <2>2
<1> HIDE DEF Cuts
<1>5. Serial(t, a, b, open, Values, Cuts)
  BY <1>3, <1>4 DEF Serial
<1> QED BY <1>5, SerialIs

(* A set of numbers with a lower bound has a least one. *)
LEMMA LeastOf ==
  ASSUME NEW a \in Int, NEW S, S # {}, \A n \in S : n \in Int /\ a <= n
  PROVE  \E m \in S : \A n \in S : m <= n
<1> DEFINE T == {n \in Nat : \A k \in S : a + n <= k}
<1>1. SUFFICES ASSUME \A m \in S : \E n \in S : ~(m <= n) PROVE FALSE
  OBVIOUS
<1>2. 0 \in T
  OBVIOUS
<1>3. ASSUME NEW n \in Nat, n \in T PROVE n + 1 \in T
  <2>1. a + n \notin S
    BY <1>1, <1>3
  <2> QED BY <1>3, <2>1
<1>4. Nat \subseteq T
  <2> HIDE DEF T
  <2> QED BY <1>2, <1>3, Counting
<1>5. PICK k : k \in S
  OBVIOUS
<1>6. k - a + 1 \in Nat
  BY <1>5
<1>7. a + (k - a + 1) <= k
  BY <1>4, <1>5, <1>6
<1> QED BY <1>5, <1>7

(* And nothing else is.                                                     *)
LEMMA PartsAre ==
  ASSUME NEW t, NEW a \in Int, NEW b \in Int, NEW open, NEW Values, a <= b,
         Grammar!IsSeries(t, a, b, open, Values)
  PROVE  \/ Grammar!IsPart(t, a, b, open, Values)
         \/ \E q \in a..b - 1 : /\ t[q] = Comma /\ Grammar!IsPart(t, a, q, open, Values)
                                /\ Grammar!IsSeries(t, q + 1, b, open, Values)
<1>1. PICK Old : Serial(t, a, b, open, Values, Old)
  BY SerialIs
<1>2. (a - 1) + 1 = a /\ \A i \in Old : i \in Int /\ a <= i /\ i < b /\ i \in a..b - 1 /\ t[i] = Comma
  BY <1>1, CutsIn
<1>5. \A p \in Old \cup {a - 1}, q \in Old \cup {b} :
        p < q /\ (\A c \in Old : c <= p \/ q <= c) => Grammar!IsPart(t, p + 1, q, open, Values)
  BY <1>1 DEF Serial
<1>3. CASE Old = {}
  <2>1. Grammar!IsPart(t, (a - 1) + 1, b, open, Values)
    BY <1>3, <1>5
  <2> QED BY <1>2, <2>1
<1>4. CASE Old # {}
  <2>1. PICK q \in Old : \A n \in Old : q <= n
    <3>1. \A n \in Old : n \in Int /\ a <= n
      BY <1>2
    <3> QED BY <1>4, <3>1, LeastOf
  <2>2. q \in a..b - 1 /\ t[q] = Comma /\ (q + 1) - 1 = q
    BY <1>2, <2>1
  <2>3. Grammar!IsPart(t, a, q, open, Values)
    <3>1. Grammar!IsPart(t, (a - 1) + 1, q, open, Values)
      BY <1>5, <2>1, <2>2
    <3> QED BY <1>2, <3>1
  <2> DEFINE Cuts == Old \ {q}
  <2>4. Cuts \subseteq {i \in q + 1..b - 1 : t[i] = Comma}
    BY <1>2, <2>1, <2>2
  <2>5. ASSUME NEW p \in Cuts \cup {q}, NEW r \in Cuts \cup {b}, p < r, \A c \in Cuts : c <= p \/ r <= c
        PROVE  Grammar!IsPart(t, p + 1, r, open, Values)
    <3>1. q <= p
      BY <2>1, <2>2
    <3>2. \A c \in Old : c <= p \/ r <= c
      BY <2>5, <3>1
    <3> QED BY <1>5, <2>1, <2>5, <3>2
  <2> HIDE DEF Cuts
  <2>6. Serial(t, q + 1, b, open, Values, Cuts)
    BY <2>2, <2>4, <2>5 DEF Serial
  <2>7. Grammar!IsSeries(t, q + 1, b, open, Values)
    BY <2>6, SerialIs
  <2> QED BY <2>2, <2>3, <2>7
<1> QED BY <1>3, <1>4

-----------------------------------------------------------------------------
(* The members of an array or an object *)

(* What may follow a value inside a text, and what a value begins with.     *)
Delimiters == Blank \cup Closing \cup {Comma, "end"}
Beginnings == Digits \cup Opening \cup {"quote", "true", "-"}

(* The brackets match.                                                      *)
LEMMA BracketIs ==
  ASSUME NEW open \in Opening
  PROVE  /\ Match(open) \in Closing /\ Match(open) \notin Blank /\ Match(open) # Comma /\ Match(open) # "end"
         /\ open \in {"[", "{"} /\ Match("[") = "]" /\ Match("{") = "}"
<1>1. CASE open = "{"
  <2>1. Match(open) = "}"
    BY <1>1, Zenon DEF Match
  <2> QED BY <1>1, <2>1, Zenon DEF Match, Closing, Blank, Comma
<1>2. CASE open = "["
  <2>1. Match(open) = "]"
    BY <1>2, Zenon DEF Match
  <2> QED BY <1>2, <2>1, Zenon DEF Match, Closing, Blank, Comma
<1> QED BY <1>1, <1>2, Zenon DEF Opening

(* A comma is neither white space nor the end, nor part of a number.        *)
LEMMA CommaIs == Comma \notin Blank /\ Comma # "end" /\ Comma \notin Digits \cup {".", "e"}
BY Zenon DEF Comma, Blank, Digits

(* A delimiter begins nothing.                                              *)
LEMMA DelimiterIs ==
  /\ Delimiters \cap (Digits \cup {".", "e"}) = {} /\ Delimiters \cap Beginnings = {} /\ Beginnings \cap Blank = {}
BY Zenon DEF Delimiters, Beginnings, Blank, Closing, Opening, Comma, Digits

(* What is parsed of the values in a compound: none ends before it starts. *)
Advancing(t) == {f \in [Places(t) -> Ends(t)] : \A i \in Places(t) : f[i] # 0 => i < f[i]}

(* The last member, one more member, or neither.                            *)
LEMMA AfterMemberIs ==
  ASSUME NEW t, NEW open \in Opening, NEW rest, NEW e
  PROVE  LET n == SkipSpace(t, e) IN
         /\ e # 0 /\ At(t, n) = Match(open) => AfterMember(t, e, open, rest) = n + 1
         /\ e # 0 /\ At(t, n) = Comma => AfterMember(t, e, open, rest) = rest[SkipSpace(t, n + 1)]
         /\ e = 0 \/ At(t, n) \notin {Match(open), Comma} => AfterMember(t, e, open, rest) = 0
BY BracketIs, Zenon DEF AfterMember, Comma

(* A member advances, and so does what follows it.                          *)
LEMMA MemberIs ==
  ASSUME NEW t, Text(t), NEW open \in Opening, NEW inner \in Advancing(t), NEW j \in Places(t)
  PROVE  LET e == ParseMember(t, j, open, inner)
             n == SkipSpace(t, e)
         IN /\ e \in Ends(t)
            /\ e # 0 => /\ e \in Places(t) /\ j < e /\ n \in Places(t) /\ e <= n
                        /\ Grammar!All(t, e, n, Grammar!White)
            /\ e # 0 /\ At(t, n) \in {Match(open), Comma} =>
                 /\ n \in 1..Len(t) /\ t[n] = At(t, n) /\ n + 1 \in Places(t)
                 /\ SkipSpace(t, n + 1) \in Places(t) /\ n + 1 <= SkipSpace(t, n + 1)
                 /\ Grammar!All(t, n + 1, SkipSpace(t, n + 1), Grammar!White)
<1> DEFINE e == ParseMember(t, j, open, inner)
           n == SkipSpace(t, e)
           s == IF open = "{" THEN ParseKey(t, j) ELSE j
<1>1. Len(t) \in Nat /\ j \in 1..Len(t) + 1 /\ Ends(t) = {0} \cup Places(t) /\ 0 \notin Places(t)
  BY DEF Text, Places, Ends
<1>2. s \in Ends(t) /\ (s # 0 => s \in Places(t) /\ j <= s)
  <2>1. s = j \/ s = ParseKey(t, j)
    BY Zenon
  <2>2. ParseKey(t, j) \in Ends(t)
    BY ParsesKeys
  <2>3. ParseKey(t, j) \in Places(t) => j <= ParseKey(t, j)
    BY <1>1, ParsesKeys DEF Places
  <2> HIDE DEF s, e, n
  <2> QED BY <1>1, <2>1, <2>2, <2>3
<1>3. e = IF s = 0 THEN 0 ELSE inner[s]
  BY Zenon DEF ParseMember
<1> HIDE DEF s, e
<1>4. e \in Ends(t) /\ (e # 0 => e \in Places(t) /\ j < e)
  <2>1. CASE s = 0
    BY <1>1, <1>3, <2>1
  <2>2. CASE s # 0
    <3>1. s \in Places(t) /\ j <= s /\ e = inner[s]
      BY <1>2, <1>3, <2>2
    <3>2. e \in Ends(t) /\ (e # 0 => s < e)
      BY <3>1 DEF Advancing
    <3> QED BY <1>1, <3>1, <3>2 DEF Places
  <2> QED BY <2>1, <2>2
<1>5. e # 0 => n \in Places(t) /\ e <= n /\ Grammar!All(t, e, n, Grammar!White)
  BY <1>4, SpaceIs
<1>6. ASSUME e # 0, At(t, n) \in {Match(open), Comma}
      PROVE  /\ n \in 1..Len(t) /\ t[n] = At(t, n) /\ n + 1 \in Places(t)
             /\ SkipSpace(t, n + 1) \in Places(t) /\ n + 1 <= SkipSpace(t, n + 1)
             /\ Grammar!All(t, n + 1, SkipSpace(t, n + 1), Grammar!White)
  <2>1. At(t, n) # "end"
    BY <1>6, BracketIs, CommaIs
  <2>2. n \in Int
    BY <1>5, <1>6 DEF Places
  <2>3. n \in 1..Len(t) /\ t[n] = At(t, n)
    BY <2>1, <2>2, AtIs
  <2>4. n + 1 \in Places(t)
    BY <1>1, <2>3 DEF Places
  <2> HIDE DEF n
  <2> QED BY <2>3, <2>4, SpaceIs
<1> QED BY <1>4, <1>5, <1>6 DEF e

(* ParseMembers is a function that its step leaves as it is.                *)
LEMMA MembersUnfold ==
  ASSUME NEW t, Text(t), NEW open \in Opening, NEW inner \in Advancing(t)
  PROVE  \E rest \in [Places(t) -> Ends(t)] : \A j \in Places(t) :
           /\ rest[j] = AfterMember(t, ParseMember(t, j, open, inner), open, rest)
           /\ ParseMembers(t, j, open, inner) = rest[j]
<1> DEFINE lo == 1
           hi == Len(t) + 1
           F == [lo..hi -> Ends(t)]
           E(j) == ParseMember(t, j, open, inner)
           N(j) == SkipSpace(t, E(j))
           Step(g, j) == AfterMember(t, E(j), open, g)
           step == [g \in F |-> [j \in lo..hi |-> Step(g, j)]]
<1>1. hi \in Nat /\ lo \in Nat /\ 0 \in Ends(t) /\ Places(t) = lo..hi /\ Places(t) \subseteq Ends(t)
  BY DEF Text, Ends, Places
<1>2. ASSUME NEW j \in Places(t)
      PROVE  \/ \A g : Step(g, j) = 0
             \/ N(j) + 1 \in Places(t) /\ \A g : Step(g, j) = N(j) + 1
             \/ \E k \in Places(t) : j < k /\ \A g : Step(g, j) = g[k]
  <2>1. CASE E(j) = 0 \/ At(t, N(j)) \notin {Match(open), Comma}
    BY <2>1, AfterMemberIs
  <2>2. CASE E(j) # 0 /\ At(t, N(j)) = Match(open)
    BY <2>2, AfterMemberIs, MemberIs
  <2>3. CASE E(j) # 0 /\ At(t, N(j)) = Comma
    <3>1. N(j) \in 1..Len(t) /\ j < E(j) /\ E(j) \in Places(t) /\ E(j) <= N(j)
      BY <2>3, MemberIs
    <3>2. SkipSpace(t, N(j) + 1) \in Places(t) /\ N(j) + 1 <= SkipSpace(t, N(j) + 1)
      BY <2>3, MemberIs
    <3>3. j < SkipSpace(t, N(j) + 1)
      <4> HIDE DEF N, E
      <4> QED BY <3>1, <3>2 DEF Places
    <3>4. \A g : Step(g, j) = g[SkipSpace(t, N(j) + 1)]
      BY <2>3, AfterMemberIs
    <3> QED BY <3>2, <3>3, <3>4
  <2> QED BY <2>1, <2>2, <2>3
<1> HIDE DEF Step, N, E
<1>3. ASSUME NEW g \in F, NEW j \in lo..hi PROVE Step(g, j) \in Ends(t)
  BY <1>1, <1>2
<1>4. ASSUME NEW g, NEW h, NEW j \in lo..hi, \A k \in lo..hi : j < k => g[k] = h[k]
      PROVE  Step(g, j) = Step(h, j)
  BY <1>1, <1>2, <1>4
<1>5. Descends(step, lo, hi, Ends(t))
  <2>1. step \in [F -> F]
    BY <1>3
  <2>2. \A g, h \in F : \A j \in lo..hi : (\A k \in lo..hi : j < k => g[k] = h[k]) => step[g][j] = step[h][j]
    BY <1>4
  <2> HIDE DEF step, lo, hi
  <2> QED BY <2>1, <2>2 DEF Descends
<1>6. \E f \in F : f = step[f]
  <2> DEFINE S == Ends(t)
  <2>1. lo \in Nat /\ hi \in Nat /\ 0 \in S /\ Descends(step, lo, hi, S)
    BY <1>1, <1>5
  <2> HIDE DEF step, lo, hi, S
  <2>2. \E f \in [lo..hi -> S] : f = step[f]
    BY <2>1, DescentExists
  <2> QED BY <2>2 DEF S
<1>7. PICK f \in F : f = [j \in lo..hi |-> Step(f, j)]
  BY <1>6
<1> DEFINE G(g) == [j \in lo..hi |-> Step(g, j)]
           all == CHOOSE g : g = G(g)
<1>8. all = G(all)
  <2> HIDE DEF G
  <2> QED BY <1>7 DEF G
<1>9. ASSUME NEW j \in Places(t) PROVE ParseMembers(t, j, open, inner) = all[j]
  BY DEF ParseMembers, Step, E
<1> HIDE DEF all
<1>10. \A j \in lo..hi : all[j] = Step(all, j) /\ f[j] = Step(f, j)
  BY <1>7, <1>8
<1>11. \A j \in lo..hi : all[j] = f[j]
  <2> DEFINE T == {j \in lo..hi : all[j] = f[j]}
  <2>1. ASSUME NEW i \in 1..hi, \A j \in 1..hi : i < j => j \in T PROVE i \in T
    <3>1. \A k \in lo..hi : i < k => all[k] = f[k]
      BY <2>1
    <3> HIDE DEF hi, G
    <3> QED BY <1>4, <1>10, <3>1
  <2>2. \A i \in 1..hi : i \in T
    <3> HIDE DEF T, hi
    <3> QED BY <1>1, <2>1, Downwards
  <2> QED BY <2>2
<1>12. all = f
  <2> HIDE DEF F, hi
  <2> QED BY <1>7, <1>8, <1>11
<1> HIDE DEF G, F
<1> QED BY <1>1, <1>9, <1>10, <1>12 DEF F, Step, E

(* The parser inside an array or an object, and the values that may stand   *)
(* there: what it finds is a value, and of a value with a delimiter behind  *)
(* it finds the end.                                                        *)
Agrees(t, inner, Values) ==
  /\ inner \in Advancing(t)
  /\ \A x \in Places(t), y \in Places(t) : <<x, y>> \in Values => x < y /\ t[x] \in Beginnings
  /\ \A i \in Places(t), y \in Places(t) : inner[i] = y => <<SkipSpace(t, i), y>> \in Values
  /\ \A x \in Places(t), y \in Places(t) : <<x, y>> \in Values /\ At(t, y) \in Delimiters =>
       \A i \in Places(t) : SkipSpace(t, i) = x => inner[i] = y

Brace == "{"

(* A part is a value, or a string, a colon and a value.                     *)
LEMMA PartIs ==
  ASSUME NEW t, NEW a, NEW b, NEW open \in Opening, NEW Values
  PROVE  \/ open = "[" /\ (Grammar!IsPart(t, a, b, open, Values) <=> Grammar!Padded(t, a, b, Values))
         \/ open = Brace /\ (Grammar!IsPart(t, a, b, open, Values) <=>
                               \E i \in a..b - 1 : /\ t[i] = ":" /\ Grammar!Padded(t, a, i, Grammar!Strings(t))
                                                   /\ Grammar!Padded(t, i + 1, b, Values))
BY Zenon DEF Opening, Brace, Grammar!IsPart

(* The strings of a text.                                                   *)
LEMMA StringsAre ==
  ASSUME NEW t, NEW x, NEW y
  PROVE  <<x, y>> \in Grammar!Strings(t) <=> x \in Places(t) /\ y \in Places(t) /\ Grammar!IsString(t, x, y)
BY DEF Grammar!Strings, Places

(* A member of an array, and one of an object.                              *)
LEMMA MemberParses ==
  ASSUME NEW t, NEW open \in Opening, NEW inner, NEW j
  PROVE  /\ open = "[" => ParseMember(t, j, open, inner) = IF j = 0 THEN 0 ELSE inner[j]
         /\ open = Brace => ParseMember(t, j, open, inner) = IF ParseKey(t, j) = 0 THEN 0 ELSE inner[ParseKey(t, j)]
<1> DEFINE start == IF open = Brace THEN ParseKey(t, j) ELSE j
<1>1. ParseMember(t, j, open, inner) = IF start = 0 THEN 0 ELSE inner[start]
  BY Zenon DEF ParseMember, Brace
<1>2. "[" # Brace
  BY Zenon DEF Brace
<1> QED BY <1>1, <1>2

(* What is parsed as a member is a part.                                    *)
LEMMA MemberSound ==
  ASSUME NEW t, Text(t), NEW open \in Opening, NEW inner, NEW Values, Agrees(t, inner, Values),
         NEW j \in Places(t), NEW p \in Places(t), p <= j, Grammar!All(t, p, j, Grammar!White),
         ParseMember(t, j, open, inner) # 0
  PROVE  Grammar!IsPart(t, p, SkipSpace(t, ParseMember(t, j, open, inner)), open, Values)
<1> DEFINE e == ParseMember(t, j, open, inner)
           n == SkipSpace(t, e)
<1>1. Len(t) \in Nat /\ j \in 1..Len(t) + 1 /\ p \in 1..Len(t) + 1 /\ 0 \notin Places(t) /\ inner \in Advancing(t)
  BY DEF Text, Places, Agrees
<1>2. e \in Places(t) /\ j < e /\ n \in Places(t) /\ e <= n /\ Grammar!All(t, e, n, Grammar!White)
  BY <1>1, MemberIs
<1> HIDE DEF n
<1>3. ASSUME NEW a \in Places(t), NEW s \in Places(t), a <= s, Grammar!All(t, a, s, Grammar!White), e = inner[s]
      PROVE  Grammar!Padded(t, a, n, Values)
  <2> DEFINE x == SkipSpace(t, s)
  <2>1. x \in Places(t) /\ s <= x /\ Grammar!All(t, s, x, Grammar!White)
    BY SpaceIs
  <2>2. <<x, e>> \in Values /\ x < e
    <3>1. <<x, e>> \in Values
      BY <1>2, <1>3 DEF Agrees
    <3> HIDE DEF x, e
    <3> QED BY <1>2, <2>1, <3>1 DEF Agrees
  <2> HIDE DEF x, e
  <2>3. Grammar!All(t, a, x, Grammar!White)
    BY <1>3, <2>1, AllOfBoth DEF Places
  <2>4. x \in a..n /\ e \in a..n /\ x <= e
    BY <1>2, <1>3, <2>1, <2>2 DEF Places
  <2> QED BY <1>2, <2>2, <2>3, <2>4 DEF Grammar!Padded
<1>4. CASE open = "["
  <2>1. e = inner[j]
    <3>1. e = IF j = 0 THEN 0 ELSE inner[j]
      BY <1>4, MemberParses
    <3> HIDE DEF e
    <3> QED BY <1>1, <3>1
  <2>2. Grammar!Padded(t, p, n, Values)
    BY <1>3, <2>1
  <2> QED BY <1>4, <2>2, PartIs, Zenon DEF Brace, n
<1>5. CASE open = Brace
  <2>1. ParseKey(t, j) # 0 /\ e = inner[ParseKey(t, j)]
    <3>1. e = IF ParseKey(t, j) = 0 THEN 0 ELSE inner[ParseKey(t, j)]
      BY <1>5, MemberParses
    <3>2. e # 0
      OBVIOUS
    <3> HIDE DEF e
    <3> QED BY <3>1, <3>2
  <2>2. ParseKey(t, j) \in Places(t)
    BY <2>1, ParsesKeys DEF Ends, Places
  <2>3. PICK s \in Places(t), c \in 1..Len(t) :
          /\ ParseKey(t, j) = c + 1 /\ t[c] = ":" /\ s <= c /\ j < s
          /\ Grammar!IsString(t, j, s) /\ Grammar!All(t, s, c, Grammar!White)
    BY <2>2, ParsesKeys
  <2>4. Grammar!Padded(t, p, c, Grammar!Strings(t))
    <3>1. <<j, s>> \in Grammar!Strings(t)
      BY <2>3, StringsAre
    <3>2. j \in p..c /\ s \in p..c /\ j <= s
      BY <2>3 DEF Places
    <3> QED BY <2>3, <3>1, <3>2 DEF Grammar!Padded
  <2>5. c + 1 \in Places(t) /\ Grammar!All(t, c + 1, c + 1, Grammar!White)
    BY <2>2, <2>3 DEF Grammar!All
  <2>6. Grammar!Padded(t, c + 1, n, Values)
    BY <1>3, <2>1, <2>3, <2>5
  <2>7. c \in p..n - 1
    <3>1. c + 1 < e
      <4>1. e \in Ends(t) /\ (e # 0 => c + 1 < e)
        BY <1>1, <2>1, <2>3, <2>5 DEF Advancing
      <4> QED BY <1>2, <1>1, <4>1
    <3> HIDE DEF e
    <3> QED BY <1>2, <2>3, <3>1 DEF Places
  <2>8. \E i \in p..n - 1 : /\ t[i] = ":" /\ Grammar!Padded(t, p, i, Grammar!Strings(t))
                            /\ Grammar!Padded(t, i + 1, n, Values)
    BY <2>3, <2>4, <2>6, <2>7
  <2> QED BY <1>5, <2>8, PartIs, Zenon DEF Brace, n
<1> QED BY <1>4, <1>5, BracketIs, Zenon DEF Brace

(* What is parsed as members is a series, with a bracket behind it.         *)
LEMMA MembersSound ==
  ASSUME NEW t, Text(t), NEW open \in Opening, NEW inner, NEW Values, Agrees(t, inner, Values)
  PROVE  \A j \in Places(t), b \in Places(t), p \in Places(t) :
           ParseMembers(t, j, open, inner) = b /\ p <= j /\ Grammar!All(t, p, j, Grammar!White) =>
             j < b - 1 /\ t[b - 1] = Match(open) /\ Grammar!IsSeries(t, p, b - 1, open, Values)
<1>1. inner \in Advancing(t) /\ Len(t) + 1 \in Nat /\ Places(t) = 1..Len(t) + 1 /\ 0 \notin Places(t)
  BY DEF Agrees, Text, Places
<1>2. PICK rest \in [Places(t) -> Ends(t)] : \A j \in Places(t) :
        /\ rest[j] = AfterMember(t, ParseMember(t, j, open, inner), open, rest)
        /\ ParseMembers(t, j, open, inner) = rest[j]
  BY <1>1, MembersUnfold
<1> DEFINE Good(j, b, p) == j < b - 1 /\ t[b - 1] = Match(open) /\ Grammar!IsSeries(t, p, b - 1, open, Values)
           Before(p, j) == p <= j /\ Grammar!All(t, p, j, Grammar!White)
           T == {j \in Places(t) : \A b \in Places(t), p \in Places(t) : rest[j] = b /\ Before(p, j) => Good(j, b, p)}
<1>3. ASSUME NEW j \in Places(t), \A k \in Places(t) : j < k => k \in T PROVE j \in T
  <2>1. \A k \in Places(t) : j < k =>
          \A b \in Places(t), p \in Places(t) : rest[k] = b /\ Before(p, k) => Good(k, b, p)
    BY <1>3
  <2> SUFFICES ASSUME NEW b \in Places(t), NEW p \in Places(t), rest[j] = b, Before(p, j) PROVE Good(j, b, p)
    OBVIOUS
  <2> HIDE DEF T
  <2> DEFINE e == ParseMember(t, j, open, inner)
             n == SkipSpace(t, e)
  <2>2. b # 0 /\ b = AfterMember(t, e, open, rest)
    BY <1>1, <1>2
  <2>3. e # 0 /\ At(t, n) \in {Match(open), Comma}
    <3> HIDE DEF e
    <3> QED BY <2>2, AfterMemberIs
  <2>4. /\ e \in Places(t) /\ j < e /\ n \in Places(t) /\ e <= n
        /\ n \in 1..Len(t) /\ t[n] = At(t, n) /\ n + 1 \in Places(t)
        /\ SkipSpace(t, n + 1) \in Places(t) /\ n + 1 <= SkipSpace(t, n + 1)
        /\ Grammar!All(t, n + 1, SkipSpace(t, n + 1), Grammar!White)
    BY <1>1, <2>3, MemberIs
  <2>5. Grammar!IsPart(t, p, n, open, Values)
    BY <2>3, MemberSound
  <2> HIDE DEF e, n
  <2>6. j < n /\ p <= n /\ p \in Int /\ n \in Int /\ j \in Int /\ b \in Int
    BY <2>4 DEF Places
  <2>7. CASE At(t, n) = Match(open)
    <3>1. b = n + 1
      BY <2>2, <2>3, <2>7, AfterMemberIs DEF n
    <3>2. b - 1 = n
      BY <2>6, <3>1
    <3>3. Grammar!IsSeries(t, p, n, open, Values)
      BY <2>5, <2>6, OnePart
    <3> QED BY <2>4, <2>6, <2>7, <3>2, <3>3
  <2>8. CASE At(t, n) = Comma
    <3>1. b = rest[SkipSpace(t, n + 1)]
      BY <2>2, <2>3, <2>8, AfterMemberIs DEF n
    <3>2. j < SkipSpace(t, n + 1) /\ SkipSpace(t, n + 1) \in Int
      BY <2>4, <2>6 DEF Places
    <3>3. Good(SkipSpace(t, n + 1), b, n + 1)
      BY <2>1, <2>4, <3>1, <3>2
    <3>4. n < b - 1 /\ b - 1 \in Int /\ j < b - 1
      BY <2>4, <2>6, <3>2, <3>3
    <3>5. Grammar!IsSeries(t, p, b - 1, open, Values)
      <4>1. t[n] = Comma
        BY <2>4, <2>8
      <4> QED BY <2>5, <2>6, <3>3, <3>4, <4>1, PartBefore
    <3> QED BY <3>3, <3>4, <3>5
  <2> QED BY <2>3, <2>7, <2>8
<1>4. \A j \in 1..Len(t) + 1 : j \in T
  <2> HIDE DEF T
  <2>1. \A j \in 1..Len(t) + 1 : (\A k \in 1..Len(t) + 1 : j < k => k \in T) => j \in T
    BY <1>1, <1>3
  <2> QED BY <1>1, <2>1, Downwards
<1> QED BY <1>1, <1>2, <1>4

(* Of a part with a comma or a bracket behind it the end is found.          *)
LEMMA MemberComplete ==
  ASSUME NEW t, Text(t), NEW open \in Opening, NEW inner, NEW Values, Agrees(t, inner, Values),
         NEW a \in Places(t), NEW q \in 1..Len(t), t[q] \in {Comma, Match(open)},
         Grammar!IsPart(t, a, q, open, Values)
  PROVE  LET j == SkipSpace(t, a)
             e == ParseMember(t, j, open, inner)
         IN At(t, j) \in Beginnings /\ e # 0 /\ SkipSpace(t, e) = q
<1> DEFINE j == SkipSpace(t, a)
           e == ParseMember(t, j, open, inner)
<1>1. Len(t) \in Nat /\ a \in 1..Len(t) + 1 /\ 0 \notin Places(t) /\ q \in Places(t)
  BY DEF Text, Places
<1>2. At(t, q) = t[q] /\ At(t, q) \notin Blank /\ At(t, q) \in Delimiters
  <2>1. At(t, q) = t[q]
    BY AtIs
  <2>2. At(t, q) \in Closing \cup {Comma} /\ At(t, q) \notin Blank
    BY <2>1, BracketIs, CommaIs
  <2>3. Closing \cup {Comma} \subseteq Delimiters
    BY Zenon DEF Delimiters
  <2> QED BY <2>1, <2>2, <2>3
<1>3. ASSUME NEW s \in Places(t), Grammar!Padded(t, s, q, Values)
      PROVE  /\ SkipSpace(t, s) \in 1..Len(t) /\ t[SkipSpace(t, s)] \in Beginnings
             /\ \A i \in Places(t) : SkipSpace(t, i) = SkipSpace(t, s) => inner[i] # 0 /\ SkipSpace(t, inner[i]) = q
  <2>1. PICK x \in s..q, y \in s..q :
          /\ x <= y /\ Grammar!All(t, s, x, Grammar!White) /\ <<x, y>> \in Values /\ Grammar!All(t, y, q, Grammar!White)
    BY <1>3 DEF Grammar!Padded
  <2>2. x \in Places(t) /\ y \in Places(t) /\ s <= x /\ y <= q
    BY <1>1, <2>1 DEF Places
  <2>3. x < y /\ t[x] \in Beginnings
    BY <2>1, <2>2 DEF Agrees
  <2>4. x \in 1..Len(t) /\ At(t, x) = t[x] /\ At(t, x) \notin Blank
    <3>1. x \in 1..Len(t)
      BY <2>2, <2>3 DEF Places
    <3> QED BY <2>3, <3>1, AtIs, DelimiterIs
  <2>5. SkipSpace(t, s) = x
    BY <2>1, <2>2, <2>4, SpaceOnly
  <2>6. At(t, y) \in Delimiters
    <3>1. CASE y = q
      BY <1>2, <3>1
    <3>2. CASE y # q
      <4>1. y \in y..q - 1 /\ y \in 1..Len(t)
        BY <1>1, <2>2, <3>2 DEF Places
      <4>2. At(t, y) \in Blank
        BY <2>1, <4>1, AtIs, BlankIs DEF Grammar!All
      <4>3. Blank \subseteq Delimiters
        BY Zenon DEF Delimiters
      <4> QED BY <4>2, <4>3
    <3> QED BY <3>1, <3>2
  <2>7. ASSUME NEW i \in Places(t), SkipSpace(t, i) = x PROVE inner[i] # 0 /\ SkipSpace(t, inner[i]) = q
    <3>1. inner[i] = y
      BY <2>1, <2>2, <2>6, <2>7 DEF Agrees
    <3>2. SkipSpace(t, y) = q
      BY <1>1, <1>2, <2>1, <2>2, SpaceOnly
    <3> QED BY <1>1, <2>2, <3>1, <3>2
  <2> QED BY <2>3, <2>4, <2>5, <2>7
<1>4. j \in Places(t) /\ \A i \in Places(t) : SkipSpace(t, i) \in Places(t)
  BY SpaceIs
<1>5. CASE open = "["
  <2>1. Grammar!Padded(t, a, q, Values)
    BY <1>5, PartIs, Zenon DEF Brace
  <2>2. /\ j \in 1..Len(t) /\ t[j] \in Beginnings
        /\ \A i \in Places(t) : SkipSpace(t, i) = j => inner[i] # 0 /\ SkipSpace(t, inner[i]) = q
    BY <1>3, <2>1
  <2>3. SkipSpace(t, j) = j
    <3> HIDE DEF j
    <3>1. At(t, j) \notin Blank /\ Grammar!All(t, j, j, Grammar!White)
      BY <2>2, AtIs, DelimiterIs DEF Grammar!All
    <3>2. j <= j
      BY <2>2
    <3> QED BY <1>4, <3>1, <3>2, SpaceOnly
  <2>4. e = IF j = 0 THEN 0 ELSE inner[j]
    BY <1>5, MemberParses
  <2>5. At(t, j) \in Beginnings
    BY <2>2, AtIs
  <2> HIDE DEF e, j
  <2>6. e = inner[j]
    BY <2>2, <2>4
  <2>7. e # 0 /\ SkipSpace(t, e) = q
    BY <1>4, <2>2, <2>3, <2>6
  <2> QED BY <2>5, <2>7 DEF e, j
<1>6. CASE open = Brace
  <2>1. PICK c \in a..q - 1 : /\ t[c] = ":" /\ Grammar!Padded(t, a, c, Grammar!Strings(t))
                              /\ Grammar!Padded(t, c + 1, q, Values)
    <3>1. \E i \in a..q - 1 : /\ t[i] = ":" /\ Grammar!Padded(t, a, i, Grammar!Strings(t))
                              /\ Grammar!Padded(t, i + 1, q, Values)
      BY <1>6, PartIs, Zenon DEF Brace
    <3> QED BY <3>1
  <2>2. c \in 1..Len(t) /\ c \in Places(t) /\ c + 1 \in Places(t)
    BY <1>1, <2>1 DEF Places
  <2>3. PICK x \in a..c, y \in a..c :
          /\ x <= y /\ Grammar!All(t, a, x, Grammar!White) /\ <<x, y>> \in Grammar!Strings(t)
          /\ Grammar!All(t, y, c, Grammar!White)
    BY <2>1 DEF Grammar!Padded
  <2>4. x \in Places(t) /\ y \in Places(t) /\ Grammar!IsString(t, x, y) /\ a <= x /\ y <= c
    BY <2>3, StringsAre DEF Places
  <2>5. x \in 1..Len(t) /\ t[x] = "quote" /\ "quote" \in Beginnings
    BY <1>1, <2>4 DEF Grammar!IsString, Places, Beginnings
  <2>6. At(t, x) = "quote" /\ At(t, x) \notin Blank
    BY <2>5, AtIs, DelimiterIs
  <2>7. j = x
    BY <2>3, <2>4, <2>6, SpaceOnly
  <2>8. ParseKey(t, x) = c + 1
    BY <2>1, <2>2, <2>3, <2>4, ParsesKeys
  <2>9. inner[c + 1] # 0 /\ SkipSpace(t, inner[c + 1]) = q
    BY <1>3, <2>1, <2>2
  <2>10. e = inner[c + 1]
    <3>1. e = IF ParseKey(t, j) = 0 THEN 0 ELSE inner[ParseKey(t, j)]
      BY <1>6, MemberParses
    <3> HIDE DEF e, j
    <3>2. c + 1 # 0
      BY <2>2
    <3> QED BY <2>7, <2>8, <3>1, <3>2
  <2> HIDE DEF e, j
  <2>11. At(t, j) \in Beginnings /\ e # 0 /\ SkipSpace(t, e) = q
    BY <2>5, <2>6, <2>7, <2>9, <2>10
  <2> QED BY <2>11 DEF e, j
<1> QED BY <1>5, <1>6, BracketIs, Zenon DEF Brace

(* Of a series with a bracket behind it the end is found.                   *)
LEMMA MembersComplete ==
  ASSUME NEW t, Text(t), NEW open \in Opening, NEW inner, NEW Values, Agrees(t, inner, Values),
         NEW b \in 1..Len(t), t[b] = Match(open)
  PROVE  \A a \in Places(t) : a <= b /\ Grammar!IsSeries(t, a, b, open, Values) =>
           At(t, SkipSpace(t, a)) \in Beginnings /\ ParseMembers(t, SkipSpace(t, a), open, inner) = b + 1
<1>1. /\ inner \in Advancing(t) /\ Len(t) + 1 \in Nat /\ Len(t) \in Nat /\ Places(t) = 1..Len(t) + 1
      /\ b \in Int /\ At(t, b) = Match(open)
  BY AtIs DEF Agrees, Text, Places
<1>2. PICK rest \in [Places(t) -> Ends(t)] : \A j \in Places(t) :
        /\ rest[j] = AfterMember(t, ParseMember(t, j, open, inner), open, rest)
        /\ ParseMembers(t, j, open, inner) = rest[j]
  BY <1>1, MembersUnfold
<1> DEFINE Good(a) == At(t, SkipSpace(t, a)) \in Beginnings /\ rest[SkipSpace(t, a)] = b + 1
           T == {a \in Places(t) : a <= b /\ Grammar!IsSeries(t, a, b, open, Values) => Good(a)}
<1>3. ASSUME NEW a \in Places(t), \A k \in Places(t) : a < k => k \in T PROVE a \in T
  <2>1. \A k \in Places(t) : a < k => (k <= b /\ Grammar!IsSeries(t, k, b, open, Values) => Good(k))
    BY <1>3
  <2> SUFFICES ASSUME a <= b, Grammar!IsSeries(t, a, b, open, Values) PROVE Good(a)
    OBVIOUS
  <2> HIDE DEF T
  <2> DEFINE j == SkipSpace(t, a)
             e == ParseMember(t, j, open, inner)
  <2>2. a \in Int /\ j \in Places(t)
    BY <1>1, SpaceIs
  <2>3. rest[j] = AfterMember(t, e, open, rest)
    BY <1>2, <2>2
  <2>4. CASE Grammar!IsPart(t, a, b, open, Values)
    <3>1. At(t, j) \in Beginnings /\ e # 0 /\ SkipSpace(t, e) = b
      BY <2>4, MemberComplete
    <3> HIDE DEF e, j
    <3>2. rest[j] = b + 1
      BY <1>1, <2>3, <3>1, AfterMemberIs
    <3> QED BY <3>1, <3>2 DEF j
  <2>5. ASSUME NEW q \in a..b - 1, t[q] = Comma, Grammar!IsPart(t, a, q, open, Values),
               Grammar!IsSeries(t, q + 1, b, open, Values)
        PROVE  Good(a)
    <3>1. q \in 1..Len(t) /\ q \in Int /\ q + 1 \in Places(t) /\ a < q + 1 /\ q + 1 <= b
      BY <1>1, <2>2 DEF Places
    <3>2. At(t, j) \in Beginnings /\ e # 0 /\ SkipSpace(t, e) = q
      BY <2>5, <3>1, MemberComplete
    <3>3. rest[SkipSpace(t, q + 1)] = b + 1
      BY <2>1, <2>5, <3>1
    <3>4. At(t, q) = Comma
      BY <2>5, <3>1, AtIs
    <3> HIDE DEF e, j
    <3>5. rest[j] = rest[SkipSpace(t, q + 1)]
      BY <2>3, <3>2, <3>4, AfterMemberIs
    <3> QED BY <3>2, <3>3, <3>5 DEF j
  <2> QED BY <1>1, <2>2, <2>4, <2>5, PartsAre
<1>4. \A a \in 1..Len(t) + 1 : a \in T
  <2> HIDE DEF T
  <2>1. \A a \in 1..Len(t) + 1 : (\A k \in 1..Len(t) + 1 : a < k => k \in T) => a \in T
    BY <1>1, <1>3
  <2> QED BY <1>1, <2>1, Downwards
<1>5. ASSUME NEW a \in Places(t), a <= b, Grammar!IsSeries(t, a, b, open, Values)
      PROVE  At(t, SkipSpace(t, a)) \in Beginnings /\ ParseMembers(t, SkipSpace(t, a), open, inner) = b + 1
  <2>1. a \in T
    BY <1>1, <1>4
  <2>2. Good(a)
    BY <1>5, <2>1
  <2>3. SkipSpace(t, a) \in Places(t)
    BY SpaceIs
  <2> HIDE DEF T
  <2> QED BY <1>2, <2>2, <2>3
<1> QED BY <1>5

(* Members advance.                                                         *)
LEMMA MembersAdvance ==
  ASSUME NEW t, Text(t), NEW open \in Opening, NEW inner \in Advancing(t)
  PROVE  \A j \in Places(t) : LET b == ParseMembers(t, j, open, inner) IN b \in Ends(t) /\ (b # 0 => j < b)
<1>1. Len(t) + 1 \in Nat /\ Places(t) = 1..Len(t) + 1
  BY DEF Text, Places
<1>2. PICK rest \in [Places(t) -> Ends(t)] : \A j \in Places(t) :
        /\ rest[j] = AfterMember(t, ParseMember(t, j, open, inner), open, rest)
        /\ ParseMembers(t, j, open, inner) = rest[j]
  BY MembersUnfold
<1> DEFINE T == {j \in Places(t) : rest[j] # 0 => j < rest[j]}
<1>3. ASSUME NEW j \in Places(t), \A k \in Places(t) : j < k => k \in T PROVE j \in T
  <2> SUFFICES ASSUME rest[j] # 0 PROVE j < rest[j]
    OBVIOUS
  <2>1. \A k \in Places(t) : j < k => (rest[k] # 0 => k < rest[k])
    BY <1>3
  <2> HIDE DEF T
  <2> DEFINE e == ParseMember(t, j, open, inner)
             n == SkipSpace(t, e)
  <2>2. rest[j] = AfterMember(t, e, open, rest)
    BY <1>2
  <2>3. e # 0 /\ At(t, n) \in {Match(open), Comma}
    <3> HIDE DEF e
    <3> QED BY <2>2, AfterMemberIs
  <2>4. /\ e \in Places(t) /\ j < e /\ e <= n /\ n \in 1..Len(t)
        /\ SkipSpace(t, n + 1) \in Places(t) /\ n + 1 <= SkipSpace(t, n + 1)
    BY <2>3, MemberIs
  <2> HIDE DEF e, n
  <2>5. rest[j] = n + 1 \/ rest[j] = rest[SkipSpace(t, n + 1)]
    BY <2>2, <2>3, AfterMemberIs DEF n
  <2>6. j < n + 1 /\ j < SkipSpace(t, n + 1) /\ j \in Int /\ SkipSpace(t, n + 1) \in Int
    BY <2>4 DEF Places
  <2>7. CASE rest[j] = rest[SkipSpace(t, n + 1)]
    <3>1. SkipSpace(t, n + 1) < rest[j] /\ rest[j] \in Int
      BY <2>1, <2>4, <2>6, <2>7 DEF Ends
    <3> QED BY <2>6, <3>1
  <2> QED BY <2>5, <2>6, <2>7
<1>4. \A j \in 1..Len(t) + 1 : j \in T
  <2> HIDE DEF T
  <2>1. \A j \in 1..Len(t) + 1 : (\A k \in 1..Len(t) + 1 : j < k => k \in T) => j \in T
    BY <1>1, <1>3
  <2> QED BY <1>1, <2>1, Downwards
<1> QED BY <1>1, <1>2, <1>4

(* An array or an object is a bracket, the members, and the other bracket.  *)
LEMMA CompoundIs ==
  ASSUME NEW t, NEW a \in Int, NEW b \in Int, NEW Values
  PROVE  Grammar!IsCompound(t, a, b, Values) <=>
           /\ a + 1 < b /\ t[a] \in Opening /\ t[b - 1] = Match(t[a])
           /\ Grammar!All(t, a + 1, b - 1, Grammar!White) \/ Grammar!IsSeries(t, a + 1, b - 1, t[a], Values)
<1>1. ASSUME NEW x, NEW y
      PROVE <<x, y>> \in {<<"[", "]">>, <<"{", "}">>} <=> x \in Opening /\ y = Match(x)
  <2>1. <<x, y>> \in {<<"[", "]">>, <<"{", "}">>} <=> (x = "[" /\ y = "]") \/ (x = "{" /\ y = "}")
    BY Zenon
  <2>2. "[" \in Opening /\ "{" \in Opening /\ \A z \in Opening : z = "[" \/ z = "{"
    BY Zenon DEF Opening
  <2>3. Match("[") = "]" /\ Match("{") = "}"
    BY <2>2, BracketIs, Zenon
  <2> QED BY <2>1, <2>2, <2>3, Zenon
<1>2. <<t[a], t[b - 1]>> \in {<<"[", "]">>, <<"{", "}">>} <=> t[a] \in Opening /\ t[b - 1] = Match(t[a])
  BY <1>1, Zenon
<1> QED BY <1>2, Zenon DEF Grammar!IsCompound

(* Too deep, nothing inside, or members.                                    *)
LEMMA ParseCompoundIs ==
  ASSUME NEW t, NEW i, NEW depth, NEW inner
  PROVE  LET first == SkipSpace(t, i + 1) IN
         /\ depth >= MaxDepth => ParseCompound(t, i, depth, inner) = 0
         /\ ~(depth >= MaxDepth) /\ At(t, first) = Match(t[i]) => ParseCompound(t, i, depth, inner) = first + 1
         /\ ~(depth >= MaxDepth) /\ At(t, first) # Match(t[i]) =>
              ParseCompound(t, i, depth, inner) = ParseMembers(t, first, t[i], inner)
BY Zenon DEF ParseCompound

(* An array or an object advances.                                          *)
LEMMA CompoundAdvances ==
  ASSUME NEW t, Text(t), NEW i \in 1..Len(t), t[i] \in Opening, NEW depth \in 0..MaxDepth, NEW inner,
         depth # MaxDepth => inner \in Advancing(t)
  PROVE  LET b == ParseCompound(t, i, depth, inner) IN b \in Ends(t) /\ (b # 0 => i < b)
<1> DEFINE first == SkipSpace(t, i + 1)
           b == ParseCompound(t, i, depth, inner)
<1>1. i + 1 \in Places(t) /\ Len(t) \in Nat /\ MaxDepth \in Nat
  BY JsonAssumption DEF Places, Text
<1>2. first \in Places(t) /\ i + 1 <= first
  BY <1>1, SpaceIs
<1>3. CASE depth >= MaxDepth
  BY <1>1, <1>3, ParseCompoundIs DEF Ends
<1>4. CASE ~(depth >= MaxDepth) /\ At(t, first) = Match(t[i])
  <2>1. b = first + 1
    BY <1>4, ParseCompoundIs
  <2>2. first \in Int /\ At(t, first) # "end"
    <3> HIDE DEF first
    <3>1. Match(t[i]) # "end"
      BY BracketIs
    <3> QED BY <1>2, <1>4, <3>1 DEF Places
  <2>3. first \in 1..Len(t)
    BY <2>2, AtIs
  <2> HIDE DEF first, b
  <2> QED BY <1>2, <2>1, <2>3 DEF Ends, b
<1>5. CASE ~(depth >= MaxDepth) /\ At(t, first) # Match(t[i])
  <2>1. b = ParseMembers(t, first, t[i], inner)
    BY <1>5, ParseCompoundIs
  <2>2. inner \in Advancing(t)
    BY <1>1, <1>5
  <2> HIDE DEF first, b
  <2>3. b \in Ends(t) /\ (b # 0 => first < b)
    BY <1>2, <2>1, <2>2, MembersAdvance
  <2>4. b # 0 => i < b
    BY <1>2, <2>3 DEF Places, Ends
  <2> QED BY <2>3, <2>4 DEF b
<1> QED BY <1>3, <1>4, <1>5

(* The parser finds the arrays and the objects of the grammar.              *)
LEMMA ParsesCompounds ==
  ASSUME NEW t, Text(t), NEW i \in 1..Len(t), t[i] \in Opening, NEW depth \in Nat, depth < MaxDepth,
         NEW inner, NEW Values, Agrees(t, inner, Values), NEW b \in Places(t)
  PROVE  ParseCompound(t, i, depth, inner) = b <=> Grammar!IsCompound(t, i, b, Values)
<1> DEFINE first == SkipSpace(t, i + 1)
<1>1. /\ i + 1 \in Places(t) /\ Len(t) \in Nat /\ MaxDepth \in Nat /\ ~(depth >= MaxDepth)
      /\ i \in Int /\ b \in Int /\ b \in 1..Len(t) + 1 /\ i \in Places(t)
  BY JsonAssumption DEF Places, Text
<1>2. first \in Places(t) /\ i + 1 <= first /\ Grammar!All(t, i + 1, first, Grammar!White) /\ first \in Int
  <2>1. first \in Places(t) /\ i + 1 <= first /\ Grammar!All(t, i + 1, first, Grammar!White)
    BY <1>1, SpaceIs
  <2> QED BY <2>1 DEF Places
<1>3. ASSUME ParseCompound(t, i, depth, inner) = b PROVE Grammar!IsCompound(t, i, b, Values)
  <2>1. CASE At(t, first) = Match(t[i])
    <3>1. b = first + 1
      BY <1>1, <1>3, <2>1, ParseCompoundIs
    <3>2. At(t, first) # "end"
      BY <2>1, BracketIs
    <3>3. first \in 1..Len(t) /\ t[first] = Match(t[i])
      BY <1>2, <2>1, <3>2, AtIs
    <3> HIDE DEF first
    <3>4. i + 1 < b /\ b - 1 = first
      BY <1>1, <1>2, <3>1
    <3> QED BY <1>1, <1>2, <3>3, <3>4, CompoundIs
  <2>2. CASE At(t, first) # Match(t[i])
    <3>1. ParseMembers(t, first, t[i], inner) = b
      BY <1>1, <1>3, <2>2, ParseCompoundIs
    <3> HIDE DEF first
    <3>2. first < b - 1 /\ t[b - 1] = Match(t[i]) /\ Grammar!IsSeries(t, i + 1, b - 1, t[i], Values)
      BY <1>1, <1>2, <3>1, MembersSound
    <3>3. i + 1 < b
      BY <1>1, <1>2, <3>2
    <3> QED BY <1>1, <3>2, <3>3, CompoundIs
  <2> QED BY <2>1, <2>2
<1>4. ASSUME Grammar!IsCompound(t, i, b, Values) PROVE ParseCompound(t, i, depth, inner) = b
  <2>1. /\ i + 1 < b /\ t[b - 1] = Match(t[i])
        /\ Grammar!All(t, i + 1, b - 1, Grammar!White) \/ Grammar!IsSeries(t, i + 1, b - 1, t[i], Values)
    BY <1>1, <1>4, CompoundIs
  <2>2. b - 1 \in 1..Len(t) /\ b - 1 \in Places(t) /\ i + 1 <= b - 1 /\ (b - 1) + 1 = b
    BY <1>1, <2>1 DEF Places
  <2>3. At(t, b - 1) = Match(t[i]) /\ At(t, b - 1) \notin Blank
    <3>1. At(t, b - 1) = t[b - 1]
      BY <2>2, AtIs
    <3>2. Match(t[i]) \notin Blank
      BY BracketIs
    <3> QED BY <2>1, <3>1, <3>2
  <2>4. CASE Grammar!All(t, i + 1, b - 1, Grammar!White)
    <3>1. first = b - 1
      BY <1>1, <2>2, <2>3, <2>4, SpaceOnly
    <3> QED BY <1>1, <2>2, <2>3, <3>1, ParseCompoundIs
  <2>5. CASE Grammar!IsSeries(t, i + 1, b - 1, t[i], Values)
    <3>1. At(t, first) \in Beginnings /\ ParseMembers(t, first, t[i], inner) = b
      BY <1>1, <2>1, <2>2, <2>5, MembersComplete
    <3>2. At(t, first) # Match(t[i])
      <4>1. Closing \subseteq Delimiters
        BY Zenon DEF Delimiters
      <4> HIDE DEF first
      <4> QED BY <3>1, <4>1, BracketIs, DelimiterIs
    <3> QED BY <1>1, <3>1, <3>2, ParseCompoundIs
  <2> QED BY <2>1, <2>4, <2>5
<1> QED BY <1>3, <1>4

-----------------------------------------------------------------------------
(* Values *)

(* What a value is parsed as depends on how it begins.                      *)
LEMMA ParseValueIs ==
  ASSUME NEW t, NEW from, NEW depth, NEW inner
  PROVE  LET i == SkipSpace(t, from)
             v == ParseValue(t, from, depth, inner)
         IN /\ At(t, i) = "quote" => v = ParseString(t, i)
            /\ At(t, i) \in Opening => v = ParseCompound(t, i, depth, inner)
            /\ At(t, i) = "true" => v = i + 1
            /\ At(t, i) \notin Opening \cup {"quote", "true"} => v = ParseNumber(t, i)
<1>1. "quote" \notin Opening /\ "true" \notin Opening
  BY Zenon DEF Opening
<1> HIDE DEF SkipSpace
<1> QED BY <1>1 DEF ParseValue

(* A number begins with a digit or a minus.                                 *)
LEMMA NumberStarts ==
  ASSUME NEW t, NEW a \in Int, NEW b \in Int, Grammar!IsNumber(t, a, b)
  PROVE  a < b /\ t[a] \in Digits \cup {"-"}
<1>1. ASSUME NEW c \in Int, Grammar!IsUnsigned(t, c, b) PROVE c < b /\ t[c] \in Digits
  <2>1. PICK k \in c..b : Grammar!IsDigits(t, c, k)
    BY <1>1 DEF Grammar!IsUnsigned, Grammar!IsWhole
  <2>2. c < k /\ c \in c..k - 1
    BY <2>1 DEF Grammar!IsDigits
  <2> QED BY <2>1, <2>2, DigitIs DEF Grammar!IsDigits, Grammar!All
<1> QED BY <1>1 DEF Grammar!IsNumber

(* A value advances.                                                        *)
LEMMA ValueAdvances ==
  ASSUME NEW t, Text(t), NEW from \in Places(t), NEW depth \in 0..MaxDepth, NEW inner,
         depth # MaxDepth => inner \in Advancing(t)
  PROVE  LET v == ParseValue(t, from, depth, inner) IN v \in Ends(t) /\ (v # 0 => from < v)
<1> DEFINE i == SkipSpace(t, from)
           v == ParseValue(t, from, depth, inner)
<1>1. /\ i \in Places(t) /\ from <= i /\ Len(t) \in Nat /\ Ends(t) = {0} \cup Places(t) /\ 0 \notin Places(t)
      /\ i \in Int /\ from \in Int
  <2>1. i \in Places(t) /\ from <= i
    BY SpaceIs
  <2> QED BY <2>1 DEF Places, Ends, Text
<1>2. At(t, i) # "end" => i \in 1..Len(t) /\ t[i] = At(t, i)
  BY <1>1, AtIs
<1>3. CASE At(t, i) = "quote"
  <2>1. v = ParseString(t, i)
    BY <1>3, ParseValueIs
  <2>2. v \in Ends(t) /\ (v \in Places(t) => Grammar!IsString(t, i, v))
    BY <1>1, <2>1, ParsesStrings
  <2> HIDE DEF v, i
  <2>3. v \in Places(t) => from < v
    BY <1>1, <2>2 DEF Grammar!IsString, Places
  <2> QED BY <1>1, <2>2, <2>3 DEF v
<1>4. CASE At(t, i) \in Opening
  <2>1. "end" \notin Opening
    BY Zenon DEF Opening
  <2>2. i \in 1..Len(t) /\ t[i] \in Opening
    BY <1>2, <1>4, <2>1
  <2>3. v = ParseCompound(t, i, depth, inner)
    BY <1>4, ParseValueIs
  <2> HIDE DEF v, i
  <2>4. v \in Ends(t) /\ (v # 0 => i < v)
    BY <2>2, <2>3, CompoundAdvances
  <2> QED BY <1>1, <2>4 DEF v, Places, Ends
<1>5. CASE At(t, i) = "true"
  <2>1. v = i + 1 /\ i \in 1..Len(t)
    BY <1>2, <1>5, ParseValueIs
  <2> HIDE DEF v, i
  <2> QED BY <1>1, <2>1 DEF Ends, v
<1>6. CASE At(t, i) \notin Opening \cup {"quote", "true"}
  <2>1. v = ParseNumber(t, i)
    BY <1>6, ParseValueIs
  <2>2. v \in Ends(t) /\ (v \in Places(t) => Grammar!IsNumber(t, i, v))
    BY <1>1, <2>1, ParsesNumbers
  <2> HIDE DEF v, i
  <2>3. v \in Places(t) => from < v
    BY <1>1, <2>2, NumberStarts DEF Places
  <2> QED BY <1>1, <2>2, <2>3 DEF v
<1> QED BY <1>3, <1>4, <1>5, <1>6

(* The values at one depth, given those one deeper. *)
ValuesAt(t, depth, Values) ==
  {s \in Places(t) \X Places(t) :
     Grammar!IsScalar(t, s[1], s[2]) \/ (depth < MaxDepth /\ Grammar!IsCompound(t, s[1], s[2], Values))}

(* If the parser agrees with the grammar one deeper, it does here.          *)
LEMMA ParsesValues ==
  ASSUME NEW t, Text(t), NEW depth \in 0..MaxDepth, NEW inner, NEW Values,
         depth # MaxDepth => Agrees(t, inner, Values)
  PROVE  Agrees(t, [i \in Places(t) |-> ParseValue(t, i, depth, inner)], ValuesAt(t, depth, Values))
<1> DEFINE value == [i \in Places(t) |-> ParseValue(t, i, depth, inner)]
           These == ValuesAt(t, depth, Values)
<1>1. Len(t) \in Nat /\ Places(t) = 1..Len(t) + 1 /\ MaxDepth \in Nat
  BY JsonAssumption DEF Text, Places
<1>2. value \in Advancing(t)
  <2>1. depth # MaxDepth => inner \in Advancing(t)
    BY DEF Agrees
  <2>2. \A i \in Places(t) : value[i] \in Ends(t) /\ (value[i] # 0 => i < value[i])
    BY <2>1, ValueAdvances
  <2> QED BY <2>2 DEF Advancing
<1>3. \A x \in Places(t), y \in Places(t) : <<x, y>> \in These <=>
        Grammar!IsScalar(t, x, y) \/ (depth < MaxDepth /\ Grammar!IsCompound(t, x, y, Values))
  BY DEF ValuesAt
<1>4. ASSUME NEW x \in Places(t), NEW y \in Places(t)
      PROVE  \/ y = x + 1 /\ t[x] = "true"
             \/ Grammar!IsString(t, x, y) /\ x < y /\ t[x] = "quote"
             \/ Grammar!IsNumber(t, x, y) /\ x < y /\ t[x] \in Digits \cup {"-"}
             \/ depth < MaxDepth /\ Grammar!IsCompound(t, x, y, Values) /\ x < y /\ t[x] \in Opening
             \/ <<x, y>> \notin These
  <2>1. x \in Int /\ y \in Int
    BY DEF Places
  <2>2. Grammar!IsString(t, x, y) => x < y /\ t[x] = "quote"
    BY <2>1 DEF Grammar!IsString
  <2>3. Grammar!IsNumber(t, x, y) => x < y /\ t[x] \in Digits \cup {"-"}
    BY <2>1, NumberStarts
  <2>4. Grammar!IsCompound(t, x, y, Values) => x < y /\ t[x] \in Opening
    <3>1. Grammar!IsCompound(t, x, y, Values) => x + 1 < y /\ t[x] \in Opening
      BY <2>1, CompoundIs
    <3> QED BY <2>1, <3>1
  <2> QED BY <1>3, <2>2, <2>3, <2>4 DEF Grammar!IsScalar
<1>5. ASSUME NEW x \in Places(t), NEW y \in Places(t), <<x, y>> \in These PROVE x < y /\ t[x] \in Beginnings
  <2>1. Digits \cup Opening \cup {"quote", "true", "-"} \subseteq Beginnings
    BY Zenon DEF Beginnings
  <2>2. x < x + 1
    BY DEF Places
  <2> QED BY <1>4, <1>5, <2>1, <2>2
<1>6. \A i \in Int : At(t, i) # "end" => i \in 1..Len(t) /\ t[i] = At(t, i)
  BY AtIs
<1>7. ASSUME NEW i \in Places(t), NEW y \in Places(t), value[i] = y PROVE <<SkipSpace(t, i), y>> \in These
  <2> DEFINE x == SkipSpace(t, i)
  <2>1. x \in Places(t) /\ x \in Int /\ y # 0 /\ y = ParseValue(t, i, depth, inner)
    <3>1. x \in Places(t)
      BY SpaceIs
    <3> QED BY <1>7, <3>1 DEF Places
  <2>2. CASE At(t, x) = "quote"
    <3>1. y = ParseString(t, x)
      BY <2>1, <2>2, ParseValueIs
    <3>2. Grammar!IsString(t, x, y)
      BY <2>1, <3>1, ParsesStrings
    <3> QED BY <1>3, <2>1, <3>2 DEF Grammar!IsScalar
  <2>3. CASE At(t, x) \in Opening
    <3>1. "end" \notin Opening
      BY Zenon DEF Opening
    <3>2. x \in 1..Len(t) /\ t[x] \in Opening
      BY <1>6, <2>1, <2>3, <3>1
    <3>3. y = ParseCompound(t, x, depth, inner)
      BY <2>1, <2>3, ParseValueIs
    <3> HIDE DEF x, These
    <3>4. ~(depth >= MaxDepth)
      BY <2>1, <3>3, ParseCompoundIs
    <3>5. depth < MaxDepth /\ depth \in Nat /\ depth # MaxDepth
      BY <1>1, <3>4
    <3>6. Grammar!IsCompound(t, x, y, Values)
      BY <3>2, <3>3, <3>5, ParsesCompounds
    <3> QED BY <1>3, <2>1, <3>5, <3>6 DEF x
  <2>4. CASE At(t, x) = "true"
    <3>1. y = x + 1 /\ t[x] = "true"
      BY <1>6, <2>1, <2>4, ParseValueIs
    <3> QED BY <1>3, <2>1, <3>1 DEF Grammar!IsScalar
  <2>5. CASE At(t, x) \notin Opening \cup {"quote", "true"}
    <3>1. y = ParseNumber(t, x)
      BY <2>1, <2>5, ParseValueIs
    <3>2. Grammar!IsNumber(t, x, y)
      BY <2>1, <3>1, ParsesNumbers
    <3> QED BY <1>3, <2>1, <3>2 DEF Grammar!IsScalar
  <2> QED BY <2>2, <2>3, <2>4, <2>5
<1>8. ASSUME NEW x \in Places(t), NEW y \in Places(t), <<x, y>> \in These, At(t, y) \in Delimiters,
             NEW i \in Places(t), SkipSpace(t, i) = x
      PROVE  value[i] = y
  <2>1. value[i] = ParseValue(t, i, depth, inner) /\ x \in Int /\ x < y
    BY <1>5, <1>8 DEF Places
  <2>2. x \in 1..Len(t) /\ At(t, x) = t[x]
    <3>1. x \in 1..Len(t)
      BY <2>1 DEF Places
    <3> QED BY <3>1, AtIs
  <2>3. "quote" \notin Opening /\ "true" \notin Opening /\ (Digits \cup {"-"}) \cap (Opening \cup {"quote", "true"}) = {}
    BY Zenon DEF Opening, Digits
  <2>4. CASE y = x + 1 /\ t[x] = "true"
    BY <1>8, <2>1, <2>2, <2>4, ParseValueIs
  <2>5. CASE Grammar!IsString(t, x, y) /\ t[x] = "quote"
    <3>1. ParseString(t, x) = y
      BY <2>5, ParsesStrings
    <3> QED BY <1>8, <2>1, <2>2, <2>5, <3>1, ParseValueIs
  <2>6. CASE Grammar!IsNumber(t, x, y) /\ t[x] \in Digits \cup {"-"}
    <3>1. At(t, y) \notin Digits \cup {".", "e"}
      BY <1>8, DelimiterIs
    <3>2. ParseNumber(t, x) = y
      BY <2>6, <3>1, ParsesNumbers
    <3>3. At(t, x) \notin Opening \cup {"quote", "true"}
      BY <2>2, <2>3, <2>6
    <3> QED BY <1>8, <2>1, <3>2, <3>3, ParseValueIs
  <2>7. CASE depth < MaxDepth /\ Grammar!IsCompound(t, x, y, Values) /\ t[x] \in Opening
    <3>1. depth \in Nat /\ depth # MaxDepth
      BY <1>1, <2>7
    <3>2. ParseCompound(t, x, depth, inner) = y
      BY <2>2, <2>7, <3>1, ParsesCompounds
    <3> QED BY <1>8, <2>1, <2>2, <2>7, <3>2, ParseValueIs
  <2> HIDE DEF value, These
  <2> QED BY <1>4, <1>8, <2>4, <2>5, <2>6, <2>7
<1> HIDE DEF value, These
<1>9. Agrees(t, value, These)
  BY <1>2, <1>5, <1>7, <1>8 DEF Agrees
<1> QED BY <1>9 DEF value, These

-----------------------------------------------------------------------------
(* Texts *)

(* The parser at one depth is that one deeper, and one step.                *)
LEMMA ParseUnfolds ==
  ASSUME NEW t, Text(t)
  PROVE  \E value : /\ Parse(t) = value[0]
                    /\ \A depth \in 0..MaxDepth :
                         value[depth] = [i \in Places(t) |-> ParseValue(t, i, depth, value[depth + 1])]
<1> DEFINE lo == 0
           hi == MaxDepth
           S == Advancing(t)
           F == [lo..hi -> S]
           Step(g, depth) == [i \in Places(t) |-> ParseValue(t, i, depth, g[depth + 1])]
           step == [g \in F |-> [depth \in lo..hi |-> Step(g, depth)]]
<1>1. hi \in Nat /\ lo \in Nat
  BY JsonAssumption
<1>2. [i \in Places(t) |-> 0] \in S
  BY DEF Advancing, Ends, Text
<1>3. ASSUME NEW g \in F, NEW depth \in lo..hi PROVE Step(g, depth) \in S
  <2>1. depth # MaxDepth => g[depth + 1] \in Advancing(t)
    <3>1. depth # MaxDepth => depth + 1 \in lo..hi
      BY <1>1
    <3> QED BY <3>1
  <2>2. \A i \in Places(t) : LET v == ParseValue(t, i, depth, g[depth + 1]) IN v \in Ends(t) /\ (v # 0 => i < v)
    BY <2>1, ValueAdvances
  <2> QED BY <2>2 DEF Advancing
<1>4. ASSUME NEW g, NEW h, NEW depth \in lo..hi, \A k \in lo..hi : depth < k => g[k] = h[k]
      PROVE  Step(g, depth) = Step(h, depth)
  <2>1. CASE depth # MaxDepth
    <3>1. depth + 1 \in lo..hi /\ depth < depth + 1
      BY <1>1, <2>1
    <3>2. g[depth + 1] = h[depth + 1]
      BY <1>4, <3>1
    <3> QED BY <3>2
  <2>2. CASE depth = MaxDepth
    <3>1. \A i, inner : ParseCompound(t, i, depth, inner) = 0
      <4>1. depth >= MaxDepth
        BY <1>1, <2>2
      <4> QED BY <4>1, ParseCompoundIs
    <3>2. \A i : ParseValue(t, i, depth, g[depth + 1]) = ParseValue(t, i, depth, h[depth + 1])
      <4> SUFFICES ASSUME NEW i
                   PROVE  ParseValue(t, i, depth, g[depth + 1]) = ParseValue(t, i, depth, h[depth + 1])
        OBVIOUS
      <4>1. PICK x, y : x = g[depth + 1] /\ y = h[depth + 1]
        OBVIOUS
      <4>2. ParseValue(t, i, depth, x) = ParseValue(t, i, depth, y)
        BY <3>1, ParseValueIs
      <4> QED BY <4>1, <4>2
    <3> QED BY <3>2
  <2> QED BY <2>1, <2>2
<1>5. \A g \in F : step[g] \in F /\ \A depth \in lo..hi : step[g][depth] = Step(g, depth)
  BY <1>3
<1> HIDE DEF Step
<1>6. Descends(step, lo, hi, S)
  <2>1. step \in [F -> F]
    BY <1>3
  <2>2. \A g, h \in F : \A j \in lo..hi : (\A k \in lo..hi : j < k => g[k] = h[k]) => step[g][j] = step[h][j]
    <3> SUFFICES ASSUME NEW g \in F, NEW h \in F, NEW j \in lo..hi, \A k \in lo..hi : j < k => g[k] = h[k]
                 PROVE  step[g][j] = step[h][j]
      OBVIOUS
    <3> HIDE DEF step, F, lo, hi
    <3>1. step[g][j] = Step(g, j) /\ step[h][j] = Step(h, j)
      BY <1>5
    <3>2. Step(g, j) = Step(h, j)
      BY <1>4
    <3> QED BY <3>1, <3>2
  <2> HIDE DEF step, lo, hi, S
  <2> QED BY <2>1, <2>2 DEF Descends
<1>7. \E f \in F : f = step[f]
  <2> HIDE DEF step, lo, hi, S
  <2> QED BY <1>1, <1>2, <1>6, DescentExists
<1>8. PICK f \in F : f = [depth \in lo..hi |-> Step(f, depth)]
  BY <1>7
<1> DEFINE G(g) == [depth \in lo..hi |-> Step(g, depth)]
           value == CHOOSE g : g = G(g)
<1>9. value = G(value)
  <2> HIDE DEF G
  <2> QED BY <1>8 DEF G
<1>10. Parse(t) = value[0]
  BY DEF Parse, Step, Places
<1> HIDE DEF value
<1>11. \A depth \in 0..MaxDepth : value[depth] = Step(value, depth)
  BY <1>9
<1> QED BY <1>10, <1>11 DEF Step

(* So are the values of the grammar.                                        *)
LEMMA NestedUnfolds ==
  ASSUME NEW t, Text(t)
  PROVE  \E values : /\ Grammar!Nested(t, MaxDepth) = values[0]
                     /\ \A depth \in 0..MaxDepth : values[depth] = ValuesAt(t, depth, values[depth + 1])
<1> DEFINE lo == 0
           hi == MaxDepth
           S == SUBSET (Places(t) \X Places(t))
           F == [lo..hi -> S]
           Step(g, depth) == ValuesAt(t, depth, g[depth + 1])
           step == [g \in F |-> [depth \in lo..hi |-> Step(g, depth)]]
<1>1. hi \in Nat /\ lo \in Nat
  BY JsonAssumption
<1>2. {} \in S
  OBVIOUS
<1>3. ASSUME NEW g \in F, NEW depth \in lo..hi PROVE Step(g, depth) \in S
  BY DEF ValuesAt
<1>4. ASSUME NEW g, NEW h, NEW depth \in lo..hi, \A k \in lo..hi : depth < k => g[k] = h[k]
      PROVE  Step(g, depth) = Step(h, depth)
  <2>1. CASE depth # MaxDepth
    <3>1. depth + 1 \in lo..hi /\ depth < depth + 1
      BY <1>1, <2>1
    <3>2. g[depth + 1] = h[depth + 1]
      BY <1>4, <3>1
    <3> QED BY <3>2
  <2>2. CASE depth = MaxDepth
    <3>1. ~(depth < MaxDepth)
      BY <1>1, <2>2
    <3> QED BY <3>1 DEF ValuesAt
  <2> QED BY <2>1, <2>2
<1>5. \A g \in F : step[g] \in F /\ \A depth \in lo..hi : step[g][depth] = Step(g, depth)
  BY <1>3
<1> HIDE DEF Step
<1>6. Descends(step, lo, hi, S)
  <2>1. step \in [F -> F]
    BY <1>3
  <2>2. \A g, h \in F : \A j \in lo..hi : (\A k \in lo..hi : j < k => g[k] = h[k]) => step[g][j] = step[h][j]
    <3> SUFFICES ASSUME NEW g \in F, NEW h \in F, NEW j \in lo..hi, \A k \in lo..hi : j < k => g[k] = h[k]
                 PROVE  step[g][j] = step[h][j]
      OBVIOUS
    <3> HIDE DEF step, F, lo, hi
    <3>1. step[g][j] = Step(g, j) /\ step[h][j] = Step(h, j)
      BY <1>5
    <3>2. Step(g, j) = Step(h, j)
      BY <1>4
    <3> QED BY <3>1, <3>2
  <2> HIDE DEF step, lo, hi, S
  <2> QED BY <2>1, <2>2 DEF Descends
<1>7. \E f \in F : f = step[f]
  <2> HIDE DEF step, lo, hi, S
  <2> QED BY <1>1, <1>2, <1>6, DescentExists
<1>8. PICK f \in F : f = [depth \in lo..hi |-> Step(f, depth)]
  BY <1>7
<1> DEFINE G(g) == [depth \in lo..hi |-> Step(g, depth)]
           values == CHOOSE g : g = G(g)
<1>9. values = G(values)
  <2> HIDE DEF G
  <2> QED BY <1>8 DEF G
<1>10. Grammar!Nested(t, MaxDepth) = values[0]
  BY DEF Grammar!Nested, ValuesAt, Step, Places
<1> HIDE DEF values
<1>11. \A depth \in 0..MaxDepth : values[depth] = Step(values, depth)
  BY <1>9
<1> QED BY <1>10, <1>11 DEF Step

(* Hence the parser agrees with the grammar, from the limit up.             *)
LEMMA ParseAgrees == ASSUME NEW t, Text(t) PROVE Agrees(t, Parse(t), Grammar!Nested(t, MaxDepth))
<1>1. MaxDepth \in Nat
  BY JsonAssumption
<1>2. PICK value : /\ Parse(t) = value[0]
                   /\ \A depth \in 0..MaxDepth :
                        value[depth] = [i \in Places(t) |-> ParseValue(t, i, depth, value[depth + 1])]
  BY ParseUnfolds
<1>3. PICK values : /\ Grammar!Nested(t, MaxDepth) = values[0]
                    /\ \A depth \in 0..MaxDepth : values[depth] = ValuesAt(t, depth, values[depth + 1])
  BY NestedUnfolds
<1> DEFINE T == {n \in Nat : Agrees(t, value[n - 1], values[n - 1])}
           last == MaxDepth + 1
<1>4. ASSUME NEW n \in 1..last, \A m \in 1..last : n < m => m \in T PROVE n \in T
  <2> DEFINE depth == n - 1
  <2>1. depth \in 0..MaxDepth /\ (depth + 1) - 1 = depth /\ n = depth + 1
    BY <1>1
  <2>2. depth # MaxDepth => Agrees(t, value[depth + 1], values[depth + 1])
    <3> SUFFICES ASSUME depth # MaxDepth PROVE Agrees(t, value[depth + 1], values[depth + 1])
      OBVIOUS
    <3>1. n + 1 \in 1..last /\ n < n + 1 /\ (n + 1) - 1 = depth + 1
      BY <1>1, <2>1
    <3>2. n + 1 \in T
      BY <1>4, <3>1
    <3>3. Agrees(t, value[(n + 1) - 1], values[(n + 1) - 1])
      BY <3>2
    <3> HIDE DEF depth, T
    <3> QED BY <3>1, <3>3
  <2> HIDE DEF depth
  <2>3. Agrees(t, value[depth], values[depth])
    <3>1. Agrees(t, [i \in Places(t) |-> ParseValue(t, i, depth, value[depth + 1])],
                    ValuesAt(t, depth, values[depth + 1]))
      BY <2>1, <2>2, ParsesValues
    <3> QED BY <1>2, <1>3, <2>1, <3>1
  <2> QED BY <2>3, <1>1 DEF depth
<1>5. 1 \in T
  <2> HIDE DEF T
  <2>1. \A n \in 1..last : n \in T
    BY <1>1, <1>4, Downwards
  <2> QED BY <1>1, <2>1
<1>6. Agrees(t, value[0], values[0])
  <2>1. Agrees(t, value[1 - 1], values[1 - 1]) /\ 1 - 1 = 0
    BY <1>5
  <2> QED BY <2>1
<1> QED BY <1>2, <1>3, <1>6

(* The validator accepts the texts of the grammar, and no others. *)
LEMMA ValidIsText == ASSUME NEW t, Text(t) PROVE Valid(t) <=> Grammar!IsText(t, MaxDepth)
<1> DEFINE Values == Grammar!Nested(t, MaxDepth)
           last == Len(t) + 1
           e == Parse(t)[1]
           x0 == SkipSpace(t, 1)
<1>1. Agrees(t, Parse(t), Values) /\ Parse(t) \in Advancing(t)
  BY ParseAgrees DEF Agrees
<1>2. /\ Len(t) \in Nat /\ last \in Places(t) /\ 1 \in Places(t) /\ 0 \notin Places(t) /\ last \in Int
      /\ At(t, last) = "end" /\ At(t, last) \notin Blank
  <2>1. Len(t) \in Nat /\ last \in Places(t) /\ 1 \in Places(t) /\ 0 \notin Places(t) /\ last \in Int
    BY DEF Text, Places
  <2>2. At(t, last) = "end"
    BY <2>1, AtIs
  <2> QED BY <2>1, <2>2, BlankIs
<1>3. x0 \in Places(t) /\ 1 <= x0 /\ Grammar!All(t, 1, x0, Grammar!White)
  BY <1>2, SpaceIs
<1>4. e \in Ends(t)
  BY <1>1, <1>2 DEF Advancing
<1> HIDE DEF e, x0, Values
<1>5. ASSUME Valid(t) PROVE Grammar!IsText(t, MaxDepth)
  <2>1. e # 0 /\ SkipSpace(t, e) = last
    BY <1>5 DEF Valid, e
  <2>2. e \in Places(t)
    BY <1>4, <2>1 DEF Ends, Places
  <2>3. <<x0, e>> \in Values
    BY <1>1, <1>2, <2>2 DEF Agrees, e, x0
  <2>4. x0 < e
    BY <1>1, <1>3, <2>2, <2>3 DEF Agrees
  <2>5. e <= last /\ Grammar!All(t, e, last, Grammar!White)
    BY <2>1, <2>2, SpaceIs
  <2>6. x0 \in 1..last /\ e \in 1..last /\ x0 <= e
    BY <1>3, <2>2, <2>4 DEF Places
  <2>7. Grammar!Padded(t, 1, last, Values)
    BY <1>3, <2>3, <2>5, <2>6 DEF Grammar!Padded
  <2> QED BY <2>7 DEF Grammar!IsText, Values
<1>6. ASSUME Grammar!IsText(t, MaxDepth) PROVE Valid(t)
  <2>1. Grammar!Padded(t, 1, last, Values)
    BY <1>6 DEF Grammar!IsText, Values
  <2>2. PICK x \in 1..last, y \in 1..last :
          /\ x <= y /\ Grammar!All(t, 1, x, Grammar!White) /\ <<x, y>> \in Values
          /\ Grammar!All(t, y, last, Grammar!White)
    BY <2>1 DEF Grammar!Padded
  <2>3. x \in Places(t) /\ y \in Places(t) /\ 1 <= x /\ y <= last
    BY <2>2 DEF Places
  <2>4. x < y /\ t[x] \in Beginnings
    BY <1>1, <2>2, <2>3 DEF Agrees
  <2>5. At(t, x) \notin Blank
    <3>1. x \in 1..Len(t)
      BY <1>2, <2>3, <2>4 DEF Places
    <3> QED BY <2>4, <3>1, AtIs, DelimiterIs
  <2>6. SkipSpace(t, 1) = x
    BY <1>2, <2>2, <2>3, <2>5, SpaceOnly
  <2>7. At(t, y) \in Delimiters
    <3>1. Blank \cup {"end"} \subseteq Delimiters
      BY Zenon DEF Delimiters
    <3>2. CASE y = last
      BY <1>2, <3>1, <3>2
    <3>3. CASE y # last
      <4>1. y \in y..last - 1 /\ y \in 1..Len(t)
        BY <1>2, <2>3, <3>3 DEF Places
      <4>2. At(t, y) \in Blank
        BY <2>2, <4>1, AtIs, BlankIs DEF Grammar!All
      <4> QED BY <3>1, <4>2
    <3> QED BY <3>2, <3>3
  <2>8. e = y
    BY <1>1, <1>2, <2>2, <2>3, <2>6, <2>7 DEF Agrees, e
  <2>9. SkipSpace(t, y) = last
    BY <1>2, <2>2, <2>3, SpaceOnly
  <2>10. y # 0
    BY <1>2, <2>3
  <2> QED BY <2>8, <2>9, <2>10 DEF Valid, e
<1> QED BY <1>5, <1>6

-----------------------------------------------------------------------------
(* The programs that print a text *)

(* Once a text was judged the program has no more to do than to exit, and   *)
(* it was judged right.                                                     *)
Judged ==
  /\ result \in {"invalid", "toolong", "unprinted", "printed"} => pc \in {"exit", "done"}
  /\ result = "invalid" => ~Valid(buffer)
  /\ result \in {"toolong", "unprinted", "printed"} => Valid(buffer)

(* No step of the reader judges a text, and none follows when one was.      *)
LEMMA NextJudged == ASSUME Inv, Judged, ReadNext PROVE Judged'
<1>1. /\ pc \notin {"exit", "done"}
      /\ result' \in {result, "read", "unread"}
  <2>1. CASE \E n \in 1..Smaller(Left, Wanted) : Read(n)
    BY <2>1 DEF Read, End
  <2>2. CASE Open \/ Grow \/ ReadEof \/ ReadExtra \/ ReadOneMore \/ Check \/ Close \/ ReadFails
    BY <2>2 DEF Open, Grow, ReadEof, ReadExtra, ReadOneMore, Check, Close, ReadFails, End, Reading
  <2>3. CASE Others
    BY <2>3 DEF Others, readVars, Reading
  <2> QED BY <2>1, <2>2, <2>3 DEF ReadNext, Reader
<1>2. result \notin {"invalid", "toolong", "unprinted", "printed"}
  BY <1>1 DEF Judged
<1>3. result' \in {result, "read", "unread"}
  BY <1>1
<1>4. result' \notin {"invalid", "toolong", "unprinted", "printed"}
  BY <1>2, <1>3
<1> QED BY <1>4 DEF Judged

(* The last steps of a program that prints keep what the others know.       *)
LEMMA PrintInv ==
  ASSUME Inv, Fed, Judged, PrintJson \/ PrintFails \/ Exit \/ ExitFails
  PROVE  Inv' /\ Fed' /\ Judged'
<1>1. /\ pc \in {"print", "exit"} /\ pc' \in {"exit", "done"}
      /\ pc' = "exit" => result' = "printed"
      /\ UNCHANGED <<program, kind, file, changed, buffer, capacity>>
      /\ events' \in {events, events - 1} /\ (events' # events => events > 0)
      /\ fault' \in {fault, TRUE}
  BY DEF PrintJson, PrintFails, Exit, ExitFails, End, inputVars, worldVars
<1>2. /\ result' \in {"invalid", "toolong", "unprinted", "printed"}
      /\ result' = "invalid" => ~Valid(buffer)
      /\ result' # "invalid" => Valid(buffer)
  <2>1. CASE PrintJson \/ PrintFails
    BY <2>1 DEF PrintJson, PrintFails, End, Outcome
  <2>2. CASE Exit \/ ExitFails
    BY <2>2 DEF Exit, ExitFails, Inv, Phases, Judged
  <2> QED BY <2>1, <2>2
<1>3. result \in {"read", "printed"} /\ program \in CPrograms
  BY <1>1 DEF Inv, Phases
<1>4. Judged'
  BY <1>1, <1>2 DEF Judged
<1>5. Fed'
  BY <1>1, <1>2 DEF Fed
<1>6. ReadTypeOK'
  <2>1. events' \in 0..Events
    BY <1>1, Bounds DEF Inv, ReadTypeOK
  <2>2. fault' \in BOOLEAN
    BY <1>1 DEF Inv, ReadTypeOK
  <2> QED BY <1>1, <1>2, <2>1, <2>2 DEF Inv, ReadTypeOK, Limit
<1>7. Kept' /\ Phases' /\ Sized'
  BY <1>1, <1>2, <1>3 DEF Inv, Kept, Phases, Sized, Reading
<1>8. ReadsWhole' /\ RefusalHasCause'
  <2>1. ReadsWhole'
    BY <1>1, <1>3 DEF Inv, ReadsWhole
  <2>2. RefusalHasCause'
    BY <1>2 DEF RefusalHasCause
  <2> QED BY <2>1, <2>2
<1> QED BY <1>4, <1>5, <1>6, <1>7, <1>8 DEF Inv

(* The inductive invariant of all programs that read, and print or hash.    *)
THEOREM PrintInvariance == Spec => [](Inv /\ Fed /\ Judged)
<1>1. Init => Inv /\ Fed /\ Judged
  <2> SUFFICES ASSUME Init PROVE Inv /\ Fed /\ Judged
    OBVIOUS
  <2>1. Inv /\ Fed
    BY InitInv, InitFed DEF Init, HashInit
  <2>2. Judged
    BY DEF Init, HashInit, ReadInit, Judged
  <2> QED BY <2>1, <2>2
<1>2. Inv /\ Fed /\ Judged /\ [Next]_vars => Inv' /\ Fed' /\ Judged'
  <2>1. ASSUME Inv, Fed, Judged, HashNext PROVE Inv' /\ Fed' /\ Judged'
    BY <2>1, ReaderInv, OthersInv, NextFed, NextJudged DEF HashNext, ReadNext
  <2>2. ASSUME Inv, Fed, Judged, PrintJson \/ PrintFails \/ Exit \/ ExitFails
        PROVE  Inv' /\ Fed' /\ Judged'
    BY <2>2, PrintInv
  <2>3. ASSUME Inv, Fed, Judged, UNCHANGED vars PROVE Inv' /\ Fed' /\ Judged'
    <3>1. UNCHANGED <<fileVars, hashVars>>
      BY <2>3 DEF vars
    <3>2. Inv'
      BY <2>3, <3>1 DEF fileVars, inputVars, readVars, worldVars, Inv, ReadTypeOK, Kept, Phases,
         Sized, ReadsWhole, RefusalHasCause, Reading, Supported, Limit
    <3>3. UNCHANGED <<program, result, buffer, pc, sha, carry, seen>>
      BY <3>1 DEF fileVars, inputVars, readVars, hashVars
    <3> QED BY <2>3, <3>2, <3>3 DEF Fed, Judged
  <2> QED BY <2>1, <2>2, <2>3 DEF Next
<1> QED BY <1>1, <1>2, PTL DEF Spec

(* What a file holds is a text. *)
LEMMA BufferIsText == ASSUME Inv PROVE Text(buffer)
<1>1. buffer \in Seq(Characters)
  BY DEF Inv, ReadTypeOK
<1>2. Len(buffer) \in Nat /\ DOMAIN buffer = 1..Len(buffer) /\ \A i \in 1..Len(buffer) : buffer[i] \in Characters
  BY <1>1, LenProperties, ElementOfSeq
<1>3. "end" \notin Characters
  BY PrintAssumption
<1> QED BY <1>2, <1>3 DEF Text

(* c/jsonfmt.c: of any text, nested to any depth, and with any limit on     *)
(* that, readjson and rdr2dot0 print it, or find it too long to print, just *)
(* if the grammar allows it within the limit.                               *)
THEOREM PrintsAlwaysExactlyJson == Spec => []PrintsExactlyJson
<1>1. Inv /\ Judged => PrintsExactlyJson
  <2> SUFFICES ASSUME Inv, Judged PROVE PrintsExactlyJson
    OBVIOUS
  <2>1. Valid(buffer) <=> Grammar!IsText(buffer, MaxDepth)
    BY BufferIsText, ValidIsText
  <2> QED BY <2>1 DEF Judged, PrintsExactlyJson
<1> QED BY <1>1, PrintInvariance, PTL

(* With the programs that print composed with those that only read or hash, *)
(* what is judged and printed, too, is what the file held, all of it at one *)
(* time unless it was changed; a refusal has its cause; and pieces do not   *)
(* matter.                                                                  *)
THEOREM PrintedWasRead == Spec => [](ReadsWhole /\ RefusalHasCause /\ PiecesDoNotMatter)
<1>1. Inv /\ Fed => ReadsWhole /\ RefusalHasCause /\ PiecesDoNotMatter
  BY FedDigests DEF Inv
<1> QED BY <1>1, PrintInvariance, PTL
=============================================================================
