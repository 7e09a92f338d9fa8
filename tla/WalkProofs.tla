----------------------------- MODULE WalkProofs -----------------------------
(* Proofs about AvScan and PathWalk: the limits hold for any tree, any      *)
(* sizes and any changes, what is read is what was looked at, no walk that  *)
(* shows neither an error nor a limit has missed anything, and the sizes a  *)
(* listing shows are whole.                                                 *)
EXTENDS PathWalk, SummationProofs, FunctionTheorems, SequenceTheorems

Walk == {"enter", "open", "read", "finish", "list", "done"}

(* The walk stops at a limit: it enters nothing any more. *)
Limited == limited => pc \in {"list", "done"}

(* While a file is read it fits in what is left of the total. *)
Fits ==
  /\ bytes \in Nat /\ total \in Nat
  /\ total <= MaxFileBytes /\ bytes <= TotalBytes
  /\ pc \in {"read", "finish"} => bytes + total <= TotalBytes

Counted ==
  /\ entries \in Nat /\ entries <= MaxFiles + 1
  /\ entries > MaxFiles => limited
  /\ findings \in Nat /\ findings <= MaxFindings

ScanInv == pc \in Walk /\ limited \in BOOLEAN /\ Limited /\ Fits /\ Counted /\ ReadsWhatItSaw

LEMMA Bounds == /\ MaxFiles \in Nat /\ MaxFileBytes \in Nat /\ TotalBytes \in Nat
                /\ MaxFindings \in Nat /\ MaxSize \in Nat
BY ScanAssumption

LEMMA ScanInit == Init => ScanInv
<1> SUFFICES ASSUME Init PROVE ScanInv
  OBVIOUS
<1>1. /\ pc = "enter" /\ total = 0 /\ entries = 0 /\ bytes = 0 /\ findings = 0 /\ limited = FALSE
  BY DEF Init
<1>2. Fits /\ entries \in Nat /\ entries <= MaxFiles + 1 /\ ~(entries > MaxFiles)
      /\ findings \in Nat /\ findings <= MaxFindings
  BY <1>1, Bounds DEF Fits
<1>3. pc \in Walk /\ limited \in BOOLEAN /\ Limited /\ ReadsWhatItSaw
  BY <1>1 DEF Walk, Limited, ReadsWhatItSaw
<1> QED BY <1>2, <1>3 DEF ScanInv, Counted

-----------------------------------------------------------------------------
(* The steps of the walk *)

LEMMA EnterKeeps == ScanInv /\ Enter => ScanInv'
<1> SUFFICES ASSUME ScanInv, Enter PROVE ScanInv'
  OBVIOUS
<1>1. ~limited /\ entries <= MaxFiles /\ entries \in Nat /\ entries' = entries + 1
  BY Bounds DEF Enter, ScanInv, Limited, Counted
<1>2. CASE entries >= MaxFiles /\ HitsLimit
  BY <1>1, <1>2, Bounds DEF Enter, HitsLimit, Leave, ScanInv, Walk, Limited, Fits, Counted,
     ReadsWhatItSaw
<1>3. CASE entries < MaxFiles /\ (Fails(stack) \/ Leave(stack)) /\ UNCHANGED <<bytes, findings, limited>>
  BY <1>1, <1>3, Bounds DEF Enter, Fails, Leave, ScanInv, Walk, Limited, Fits, Counted,
     ReadsWhatItSaw
<1>4. CASE entries < MaxFiles /\ pc' = "open" /\ UNCHANGED <<bytes, findings, limited>>
  BY <1>1, <1>4, Bounds DEF Enter, ScanInv, Walk, Limited, Fits, Counted, ReadsWhatItSaw
<1> QED BY <1>1, <1>2, <1>3, <1>4 DEF Enter, Fails

LEMMA OpenKeeps == ScanInv /\ Open => ScanInv'
<1> SUFFICES ASSUME ScanInv, Open PROVE ScanInv'
  OBVIOUS
<1>1. CASE Opened /\ OpenFile
  BY <1>1, Bounds, SMT DEF Open, Opened, OpenFile, Fails, Leave, ScanInv, Walk, Limited, Fits, Counted,
     ReadsWhatItSaw, diskVars
<1>2. CASE Opened /\ OpenDir
  <2>1. pc' \in {"list", "done"} /\ UNCHANGED <<entries, bytes, findings, total>>
    BY <1>2 DEF Open, OpenDir, HitsLimit, Leave
  <2>2. limited' = limited \/ limited' = TRUE
    BY <1>2 DEF OpenDir, HitsLimit
  <2> QED BY <2>1, <2>2 DEF ScanInv, Walk, Limited, Fits, Counted, ReadsWhatItSaw
<1>3. CASE Fails(stack) /\ UNCHANGED <<opened, size0, total, saw>>
  BY <1>3, Bounds, SMT DEF Open, Fails, Leave, ScanInv, Walk, Limited, Fits, Counted, ReadsWhatItSaw,
     diskVars
<1> QED BY <1>1, <1>2, <1>3 DEF Open, Opened

LEMMA ReadFileKeeps == ScanInv /\ ReadFile => ScanInv'
<1> SUFFICES ASSUME ScanInv, ReadFile PROVE ScanInv'
  OBVIOUS
<1>1. CASE Fails(stack)
  BY <1>1, Bounds, SMT DEF ReadFile, Fails, Leave, ScanInv, Walk, Limited, Fits, Counted, ReadsWhatItSaw,
     diskVars
<1>2. CASE \E n \in 1..MaxSize :
             /\ n <= MaxFileBytes - total /\ n <= TotalBytes - bytes - total
             /\ total' = total + n
             /\ UNCHANGED <<pc, stack, bytes, findings, errors, limited, reported>>
  BY <1>2, Bounds, SMT DEF ReadFile, ScanInv, Walk, Limited, Fits, Counted, ReadsWhatItSaw, diskVars
<1> QED BY <1>1, <1>2 DEF ReadFile

LEMMA ReadEndKeeps == ScanInv /\ ReadEnd => ScanInv'
BY Bounds, SMT DEF ReadEnd, ScanInv, Walk, Limited, Fits, Counted, ReadsWhatItSaw, countVars, diskVars

LEMMA FinishKeeps == ScanInv /\ Finish => ScanInv'
<1> SUFFICES ASSUME ScanInv, Finish PROVE ScanInv'
  OBVIOUS
<1>1. pc = "finish" /\ pc' \in {"list", "done"} /\ UNCHANGED <<entries, total>>
  BY DEF Finish, Fails, Leave
<1>2. CASE bytes' = bytes + total /\ Report
  <2>1. findings' \in Nat /\ findings' <= MaxFindings
    BY <1>2, Bounds DEF Report, ScanInv, Counted
  <2>2. limited' = limited \/ limited' = TRUE
    BY <1>2 DEF Report
  <2>3. Fits'
    BY <1>1, <1>2, Bounds DEF ScanInv, Fits
  <2> QED BY <1>1, <2>1, <2>2, <2>3 DEF ScanInv, Walk, Limited, Counted, ReadsWhatItSaw
<1>3. CASE Fails(stack)
  BY <1>1, <1>3 DEF Fails, ScanInv, Walk, Limited, Fits, Counted, ReadsWhatItSaw
<1> QED BY <1>2, <1>3 DEF Finish

LEMMA ListEntryKeeps == ScanInv /\ ListEntry => ScanInv'
BY Bounds, SMT DEF ListEntry, ScanInv, Walk, Limited, Fits, Counted, ReadsWhatItSaw, countVars, diskVars

LEMMA ListEndKeeps == ScanInv /\ ListEnd => ScanInv'
BY Bounds, SMT DEF ListEnd, Fails, Leave, ScanInv, Walk, Limited, Fits, Counted, ReadsWhatItSaw, diskVars

-----------------------------------------------------------------------------

LEMMA ScanNext == ScanInv /\ [Next]_vars => ScanInv'
<1> SUFFICES ASSUME ScanInv, [Next]_vars PROVE ScanInv'
  OBVIOUS
<1>1. CASE Scanner
  BY <1>1, EnterKeeps, OpenKeeps, ReadFileKeeps, ReadEndKeeps, FinishKeeps, ListEntryKeeps,
     ListEndKeeps DEF Scanner
<1>2. CASE Others
  <2>1. UNCHANGED <<scanVars, countVars>>
    BY <1>2 DEF Others, Resize, Replace, Change
  <2> QED BY <2>1 DEF scanVars, countVars, ScanInv, Walk, Limited, Fits, Counted, ReadsWhatItSaw
<1>3. CASE UNCHANGED vars
  BY <1>3 DEF vars, scanVars, countVars, ScanInv, Walk, Limited, Fits, Counted, ReadsWhatItSaw
<1> QED BY <1>1, <1>2, <1>3 DEF Next

(* ScanInv is an invariant of the scanner. *)
THEOREM ScanInvariance == Spec => []ScanInv
<1>1. ScanInv /\ [Next]_vars => ScanInv'
  BY ScanNext
<1> QED BY ScanInit, <1>1, PTL DEF Spec

(* README.md: "caps per-file, total-byte, recursion, signature, and finding *)
(* work", also of files that grow while they are read.                      *)
THEOREM AlwaysWithinLimits == Spec => []WithinLimits
<1>1. ScanInv => WithinLimits
  BY DEF ScanInv, Fits, Counted, WithinLimits
<1> QED BY ScanInvariance, <1>1, PTL

(* README.md: "never follows symlinks or reads special files": whatever its *)
(* path is given to, only a regular file is read, and the one that fstatat  *)
(* saw.                                                                     *)
THEOREM AlwaysReadsWhatItSaw == Spec => []ReadsWhatItSaw
<1>1. ScanInv => ReadsWhatItSaw
  BY DEF ScanInv
<1> QED BY ScanInvariance, <1>1, PTL

-----------------------------------------------------------------------------
(* The tree *)

Above(n, S) == n \in S /\ \A x \in S \ {Root} : Parent[x] \in S

LEMMA UpClosed == ASSUME NEW n \in Nodes PROVE Up[n] \in SUBSET Nodes /\ Above(n, Up[n])
<1>1. Up[n] = {m \in Nodes : \A S \in SUBSET Nodes : Above(n, S) => m \in S}
  BY DEF Up, Above
<1>2. n \in Up[n]
  BY <1>1 DEF Above
<1>3. ASSUME NEW x \in Up[n] \ {Root} PROVE Parent[x] \in Up[n]
  <2>1. x \in Nodes \ {Root} /\ Parent[x] \in Nodes
    BY <1>1, <1>3, ScanAssumption
  <2>2. ASSUME NEW S \in SUBSET Nodes, Above(n, S) PROVE Parent[x] \in S
    BY <1>1, <1>3, <2>2 DEF Above
  <2> QED BY <1>1, <2>1, <2>2
<1> QED BY <1>1, <1>2, <1>3 DEF Above

LEMMA UpLeast ==
  ASSUME NEW n \in Nodes, NEW S \in SUBSET Nodes, Above(n, S)
  PROVE  Up[n] \subseteq S
BY DEF Up, Above

(* Whatever is above n has, if it is not n, a child that is above n, too. *)
LEMMA ChildOnTheWay ==
  ASSUME NEW n \in Nodes, NEW m \in Up[n], m # n
  PROVE  \E c \in Children(m) : c \in Up[n]
<1> SUFFICES ASSUME \A c \in Children(m) : c \notin Up[n] PROVE FALSE
  OBVIOUS
<1>1. Up[n] \in SUBSET Nodes /\ Above(n, Up[n])
  BY UpClosed
<1>2. Above(n, Up[n] \ {m})
  BY <1>1 DEF Above, Children
<1>3. Up[n] \subseteq Up[n] \ {m}
  BY <1>1, <1>2, UpLeast
<1> QED BY <1>3

(* Only the root is above the root, and what is above a child is the child  *)
(* or above its directory.                                                  *)
LEMMA UpOfRoot == Up[Root] = {Root}
<1>1. Root \in Nodes /\ {Root} \in SUBSET Nodes /\ Above(Root, {Root})
  BY ScanAssumption DEF Above
<1>2. Up[Root] \subseteq {Root}
  BY <1>1, UpLeast
<1>3. Root \in Up[Root]
  BY <1>1, UpClosed DEF Above
<1> QED BY <1>2, <1>3

LEMMA UpOfChild ==
  ASSUME NEW n \in Nodes \ {Root}
  PROVE  Parent[n] \in Nodes /\ Up[n] \subseteq {n} \cup Up[Parent[n]]
<1>1. Parent[n] \in Nodes
  BY ScanAssumption
<1>2. Up[Parent[n]] \in SUBSET Nodes /\ Above(Parent[n], Up[Parent[n]])
  BY <1>1, UpClosed
<1>3. Above(n, {n} \cup Up[Parent[n]])
  BY <1>2 DEF Above
<1> QED BY <1>1, <1>2, <1>3, UpLeast

LEMMA BelowIsAbove == \A m, n : n \in Below(m) <=> n \in Nodes /\ m \in Up[n]
BY DEF Below

-----------------------------------------------------------------------------
(* The inodes *)

(* Each path has a number of its own. *)
LEMMA Numbers ==
  /\ Cardinality(Nodes) \in Nat
  /\ Number \in [Nodes -> 1..Cardinality(Nodes)]
  /\ \A m, n \in Nodes : Number[m] = Number[n] => m = n
<1> DEFINE k == Cardinality(Nodes)
<1>1. k \in Nat /\ ExistsBijection(1..k, Nodes)
  BY ScanAssumption, FS_CardinalityType, Zenon
<1>2. PICK g : g \in Bijection(Nodes, 1..k)
  <2>1. ExistsBijection(Nodes, 1..k)
    BY <1>1, Fun_ExistsBijSymmetric
  <2> HIDE DEF k
  <2>2. Bijection(Nodes, 1..k) # {}
    BY <2>1, Fun_ExistsBij
  <2> QED BY <2>2
<1>3. g \in [Nodes -> 1..k] /\ \A m, n \in Nodes : g[m] = g[n] => m = n
  <2> HIDE DEF k
  <2>1. g \in Injection(Nodes, 1..k)
    BY <1>2, Fun_BijectionProperties
  <2> QED BY <2>1, Fun_InjectionProperties
<1>4. \E f \in [Nodes -> 1..k] : \A m, n \in Nodes : f[m] = f[n] => m = n
  BY <1>3
<1> QED BY <1>1, <1>4 DEF Number

LEMMA LinkedNumbers == Linked \in [Nodes -> 1..Cardinality(Nodes)] /\ Twin \in 1..Cardinality(Nodes)
<1>1. (CHOOSE n \in Twins : TRUE) \in Nodes
  BY ScanAssumption
<1> QED BY <1>1, Numbers DEF Linked, Twin

(* What the paths name, and that a file with something in it is not empty. *)
DiskInv ==
  /\ entry \in [Nodes -> Entry] /\ disk \in [Inodes -> Inode]
  /\ events \in 0..Events
  /\ \A i \in Inodes : disk[i].bad => disk[i].size > 0
  /\ \A n \in Nodes : entry[n].ino <= Cardinality(Nodes) + (Events - events)
  /\ tainted \subseteq {n \in Nodes : Infected(n)}

LEMMA DiskInit == Init => DiskInv
<1> SUFFICES ASSUME Init PROVE DiskInv
  OBVIOUS
<1>1. Events \in Nat /\ MaxSize \in Nat
  BY ScanAssumption
<1>2. PICK kind \in [Nodes -> Kinds], number \in {Number, Linked} :
        entry = [n \in Nodes |-> [kind |-> kind[n], ino |-> number[n]]]
  BY DEF Init
<1>3. number \in [Nodes -> 1..Cardinality(Nodes)]
  BY <1>2, Numbers, LinkedNumbers
<1>4. entry \in [Nodes -> Entry] /\ \A n \in Nodes : entry[n].ino \in 1..Cardinality(Nodes)
  BY <1>1, <1>2, <1>3, Numbers DEF Entry, Inodes
<1>5. disk \in [Inodes -> Inode] /\ \A i \in Inodes : disk[i].bad => disk[i].size > 0
  <2> DEFINE files == {entry[n].ino : n \in {m \in Nodes : entry[m].kind = "file"}}
  <2>1. PICK content \in [files -> {i \in Inode : i.bad => i.size > 0}] :
          disk = [i \in Inodes |-> IF i \in files THEN content[i] ELSE Empty]
    BY DEF Init
  <2>2. Empty \in Inode /\ (Empty.bad => Empty.size > 0)
    BY <1>1 DEF Empty, Inode
  <2> HIDE DEF files
  <2>3. ASSUME NEW i \in Inodes PROVE disk[i] \in {x \in Inode : x.bad => x.size > 0}
    BY <2>1, <2>2
  <2> QED BY <2>1, <2>3
<1>6. events = Events /\ tainted = {n \in Nodes : Infected(n)}
  BY DEF Init
<1> QED BY <1>1, <1>4, <1>5, <1>6, Numbers DEF DiskInv

LEMMA NumberOfEntry ==
  ASSUME DiskInv, NEW m \in Nodes
  PROVE  entry[m].ino \in Nat /\ entry[m].ino <= Cardinality(Nodes) + (Events - events)
<1>1. entry[m] \in Entry /\ entry[m].ino <= Cardinality(Nodes) + (Events - events)
  BY DEF DiskInv
<1>2. Inodes \in SUBSET Nat
  BY Numbers, ScanAssumption DEF Inodes
<1>3. entry[m].ino \in Inodes
  BY <1>1 DEF Entry
<1> QED BY <1>1, <1>2, <1>3

LEMMA ResizeKeepsDisk ==
  ASSUME DiskInv, NEW n \in Nodes, Resize(n)
  PROVE  DiskInv' /\ tainted' \subseteq tainted
<1>1. entry' = entry /\ entry[n].ino \in Inodes /\ events' = events - 1 /\ events > 0
  BY DEF DiskInv, Resize, Change, Entry
<1>2. PICK s \in 0..MaxSize :
        disk' = [disk EXCEPT ![entry[n].ino] = [size |-> s, bad |-> @.bad /\ s > 0]]
  BY DEF Resize
<1>3. ASSUME NEW i \in Inodes PROVE disk'[i] \in Inode /\ (disk'[i].bad => disk'[i].size > 0)
  BY <1>1, <1>2 DEF DiskInv, Inode
<1>4. disk' \in [Inodes -> Inode]
  BY <1>2, <1>3 DEF DiskInv
<1>5. tainted' \subseteq tainted /\ tainted' \subseteq {m \in Nodes : Infected(m)'}
  BY DEF Resize, StillTainted, DiskInv
<1>6. ASSUME NEW m \in Nodes PROVE entry'[m].ino <= Cardinality(Nodes) + (Events - events')
  <2>1. entry[m].ino \in Nat /\ entry[m].ino <= Cardinality(Nodes) + (Events - events)
    BY NumberOfEntry
  <2> DEFINE last == Cardinality(Nodes)
             old == entry[m].ino
  <2>2. last \in Nat /\ Events \in Nat /\ events \in Int /\ entry'[m].ino = old
    BY <1>1, Numbers, ScanAssumption DEF DiskInv
  <2> HIDE DEF last, old
  <2>3. old \in Nat /\ old <= last + (Events - events)
    BY <2>1 DEF last, old
  <2>4. old <= last + (Events - events')
    BY <1>1, <2>2, <2>3
  <2> QED BY <2>2, <2>4 DEF last
<1> QED BY <1>1, <1>3, <1>4, <1>5, <1>6, ScanAssumption DEF DiskInv

LEMMA ReplaceKeepsDisk ==
  ASSUME DiskInv, NEW n \in Nodes, Replace(n)
  PROVE  DiskInv' /\ tainted' \subseteq tainted
<1>1. events' = events - 1 /\ events > 0
  BY DEF Replace, Change
<1>2. PICK e \in Entry, i \in Inode :
        /\ e.ino = Cardinality(Nodes) + Events - events + 1
        /\ i.bad => i.size > 0
        /\ entry' = [entry EXCEPT ![n] = e] /\ disk' = [disk EXCEPT ![e.ino] = i]
  BY DEF Replace
<1>3. entry' \in [Nodes -> Entry] /\ disk' \in [Inodes -> Inode]
  BY <1>2 DEF DiskInv
<1>4. \A j \in Inodes : disk'[j].bad => disk'[j].size > 0
  BY <1>2 DEF DiskInv
<1>5. tainted' \subseteq tainted /\ tainted' \subseteq {m \in Nodes : Infected(m)'}
  BY DEF Replace, StillTainted, DiskInv
<1>6. ASSUME NEW m \in Nodes PROVE entry'[m].ino <= Cardinality(Nodes) + (Events - events')
  <2>1. entry[m].ino \in Nat /\ entry[m].ino <= Cardinality(Nodes) + (Events - events)
    BY NumberOfEntry
  <2> DEFINE last == Cardinality(Nodes)
             old == entry[m].ino
             new == entry'[m].ino
  <2>2. last \in Nat /\ Events \in Nat /\ events \in Int
    BY Numbers, ScanAssumption DEF DiskInv
  <2>3. new = old \/ new = last + Events - events + 1
    BY <1>2 DEF DiskInv
  <2> HIDE DEF last, old, new
  <2>4. old \in Nat /\ old <= last + (Events - events)
    BY <2>1 DEF last, old
  <2>5. new <= last + (Events - events')
    BY <1>1, <2>2, <2>3, <2>4
  <2> QED BY <2>5 DEF last, new
<1> QED BY <1>1, <1>3, <1>4, <1>5, <1>6, ScanAssumption DEF DiskInv

(* What is on the way to a tainted path: directories, then a file. *)
LEMMA OnTheWay ==
  ASSUME DiskInv, NEW t \in tainted, NEW c \in Up[t]
  PROVE  c \in Nodes /\ entry[c].kind = IF c = t THEN "file" ELSE "dir"
<1>1. t \in Nodes /\ Infected(t)
  BY DEF DiskInv
<1> QED BY <1>1, UpClosed DEF Infected

-----------------------------------------------------------------------------
(* The C scanner misses nothing that is tainted: at every moment it has     *)
(* failed, or has reported it or passed over it, or it is ahead: at hand,   *)
(* below what is at hand, or below a name that an open directory still has. *)

Frame == [dir: Nodes, listed: SUBSET Nodes]

InFrame(t, f) == \E c \in Children(f.dir) \ f.listed : c \in Up[t]
InStack(t, s) == \E i \in DOMAIN s : InFrame(t, s[i])

Ahead(t) ==
  \/ pc \in {"enter", "open"} /\ cur \in Up[t]
  \/ pc \in {"read", "finish"} /\ cur = t
  \/ InStack(t, stack)

Accounted == \A t \in tainted : errors \/ limited \/ t \in reported \cup blind \/ Ahead(t)

Sees ==
  pc \in {"read", "finish"} /\ cur \in tainted =>
    /\ disk[opened.ino].bad
    /\ total # 0 \/ pc = "finish" => saw

FrameInv ==
  /\ stack \in Seq(Frame) /\ cur \in Nodes /\ info \in Entry /\ opened \in Entry
  /\ pc = "list" => stack # << >>
  /\ pc = "done" => stack = << >>

CoverInv == DiskInv /\ FrameInv /\ Sees /\ Accounted

LEMMA Pushed ==
  ASSUME NEW s \in Seq(Frame), NEW f \in Frame, NEW t
  PROVE  Append(s, f) \in Seq(Frame) /\ (InStack(t, Append(s, f)) <=> InStack(t, s) \/ InFrame(t, f))
<1> DEFINE r == Append(s, f)
<1>1. r \in Seq(Frame) /\ Len(r) = Len(s) + 1 /\ r[Len(s) + 1] = f /\ \A i \in 1..Len(s) : r[i] = s[i]
  OBVIOUS
<1>2. DOMAIN s = 1..Len(s) /\ DOMAIN r = 1..(Len(s) + 1) /\ Len(s) \in Nat
  BY <1>1
<1>3. \A i \in DOMAIN r : i \in DOMAIN s \/ i = Len(s) + 1
  BY <1>2
<1>4. DOMAIN s \subseteq DOMAIN r /\ Len(s) + 1 \in DOMAIN r
  BY <1>2
<1> QED BY <1>1, <1>2, <1>3, <1>4 DEF InStack

LEMMA Popped ==
  ASSUME stack \in Seq(Frame), stack # << >>, NEW t
  PROVE  /\ Pop \in Seq(Frame) /\ Top \in Frame
         /\ InStack(t, stack) <=> InStack(t, Pop) \/ InFrame(t, Top)
<1>1. Len(stack) \in Nat \ {0}
  OBVIOUS
<1>2. Pop \in Seq(Frame) /\ Top \in Frame /\ stack = Append(Pop, Top)
  BY <1>1 DEF Pop, Top
<1> QED BY <1>2, Pushed

(* Where the walk goes when it returns to a directory. *)
LEMMA Left ==
  ASSUME NEW dirs \in Seq(Frame), Leave(dirs)
  PROVE  /\ pc' \in {"list", "done"} /\ stack' = dirs
         /\ pc' = "list" => stack' # << >>
         /\ pc' = "done" => stack' = << >>
BY DEF Leave

LEMMA CoverInit == Init => CoverInv
<1> SUFFICES ASSUME Init PROVE CoverInv
  OBVIOUS
<1>1. DiskInv
  BY DiskInit
<1>2. pc = "enter" /\ cur = Root /\ stack = << >> /\ info = entry[Root] /\ opened = entry[Root]
  BY DEF Init
<1>3. FrameInv
  BY <1>1, <1>2, ScanAssumption DEF FrameInv, DiskInv
<1>4. Accounted
  BY <1>1, <1>2, TreeAssumption DEF Accounted, Ahead, DiskInv
<1> QED BY <1>1, <1>2, <1>3, <1>4 DEF CoverInv, Sees

LEMMA EnterCovers == CoverInv /\ Enter => CoverInv'
<1> SUFFICES ASSUME CoverInv, Enter PROVE CoverInv'
  OBVIOUS
<1>0. FrameInv /\ DiskInv /\ Accounted /\ stack \in Seq(Frame) /\ pc = "enter"
  BY DEF CoverInv, FrameInv, Enter
<1>1. UNCHANGED <<cur, opened, size0, total, saw, entry, disk, events, tainted, blind, reported>>
  BY DEF Enter, Fails, HitsLimit, diskVars
<1>2. DiskInv'
  BY <1>0, <1>1 DEF DiskInv, Infected
<1>3. \A t \in tainted : Ahead(t) => cur \in Up[t] \/ InStack(t, stack)
  BY <1>0 DEF Ahead
<1>4. CASE (HitsLimit \/ Fails(stack)) /\ UNCHANGED info
  <2>1. Leave(stack) /\ (errors' \/ limited')
    BY <1>4 DEF HitsLimit, Fails
  <2> QED BY <1>0, <1>1, <1>2, <1>4, <2>1, Left DEF CoverInv, FrameInv, Sees, Accounted
<1>5. CASE entry[cur].kind = "special" /\ Leave(stack) /\ UNCHANGED <<info, errors, limited>>
  <2>1. \A t \in tainted : cur \notin Up[t]
    BY <1>0, <1>5, OnTheWay
  <2>2. Accounted'
    BY <1>0, <1>1, <1>3, <1>5, <2>1, Left DEF Accounted, Ahead
  <2> QED BY <1>0, <1>1, <1>2, <1>5, <2>2, Left DEF CoverInv, FrameInv, Sees
<1>6. CASE info' = entry[cur] /\ pc' = "open" /\ UNCHANGED <<stack, errors, limited>>
  <2>1. Accounted'
    BY <1>0, <1>1, <1>3, <1>6 DEF Accounted, Ahead
  <2> QED BY <1>0, <1>1, <1>2, <1>6, <2>1 DEF CoverInv, FrameInv, Sees, DiskInv
<1> QED BY <1>4, <1>5, <1>6 DEF Enter

LEMMA OpenCovers == CoverInv /\ Open => CoverInv'
<1> SUFFICES ASSUME CoverInv, Open PROVE CoverInv'
  OBVIOUS
<1>0. FrameInv /\ DiskInv /\ Accounted /\ stack \in Seq(Frame) /\ pc = "open" /\ cur \in Nodes
  BY DEF CoverInv, FrameInv, Open
<1>1. UNCHANGED <<cur, info, entry, disk, events, tainted, blind, reported>>
  BY DEF Open, Opened, OpenFile, OpenDir, Fails, HitsLimit, diskVars
<1>2. DiskInv'
  BY <1>0, <1>1 DEF DiskInv, Infected
<1>3. \A t \in tainted : Ahead(t) => cur \in Up[t] \/ InStack(t, stack)
  BY <1>0 DEF Ahead
<1>4. opened' \in Entry
  BY <1>0 DEF Open, Opened, FrameInv, DiskInv
<1>5. CASE HitsLimit \/ Fails(stack)
  <2>1. Leave(stack) /\ (errors' \/ limited')
    BY <1>5 DEF HitsLimit, Fails
  <2> QED BY <1>0, <1>1, <1>2, <1>4, <2>1, Left DEF CoverInv, FrameInv, Sees, Accounted
<1>6. CASE Opened /\ OpenFile /\ pc' = "read" /\ UNCHANGED <<stack, errors, limited>>
  <2>1. opened' = entry[cur] /\ entry[cur].kind = "file" /\ total' = 0
    BY <1>6 DEF Opened, OpenFile
  <2>2. \A t \in tainted : cur \in Up[t] => cur = t
    BY <1>0, <2>1, OnTheWay
  <2>3. Accounted'
    BY <1>0, <1>1, <1>3, <1>6, <2>2 DEF Accounted, Ahead
  <2>4. Sees'
    BY <1>0, <1>1, <1>6, <2>1 DEF Sees, DiskInv, Infected
  <2> QED BY <1>0, <1>1, <1>2, <1>4, <1>6, <2>3, <2>4 DEF CoverInv, FrameInv
<1>7. CASE Opened /\ OpenDir /\ pc' = "list" /\ UNCHANGED <<errors, limited>>
           /\ stack' = Append(stack, [dir |-> cur, listed |-> {}])
  <2>1. entry[cur].kind = "dir" /\ [dir |-> cur, listed |-> {}] \in Frame
    BY <1>0, <1>7 DEF Opened, OpenDir, Frame
  <2>2. ASSUME NEW t \in tainted, cur \in Up[t] PROVE InFrame(t, [dir |-> cur, listed |-> {}])
    <3>1. cur # t /\ t \in Nodes
      BY <1>0, <2>1, <2>2, OnTheWay DEF DiskInv
    <3> QED BY <2>2, <3>1, ChildOnTheWay DEF InFrame
  <2>3. Accounted'
    BY <1>0, <1>1, <1>3, <1>7, <2>1, <2>2, Pushed DEF Accounted, Ahead
  <2>4. stack' \in Seq(Frame) /\ stack' # << >>
    BY <1>0, <1>7, <2>1
  <2> QED BY <1>0, <1>1, <1>2, <1>4, <1>7, <2>3, <2>4 DEF CoverInv, FrameInv, Sees
<1> QED BY <1>5, <1>6, <1>7 DEF Open, Opened, OpenFile, OpenDir

LEMMA ReadFileCovers == CoverInv /\ ReadFile => CoverInv'
<1> SUFFICES ASSUME CoverInv, ReadFile PROVE CoverInv'
  OBVIOUS
<1>0. FrameInv /\ DiskInv /\ Accounted /\ Sees /\ stack \in Seq(Frame) /\ pc = "read"
  BY DEF CoverInv, FrameInv, ReadFile
<1>1. UNCHANGED <<cur, info, opened, entry, disk, events, tainted, blind, reported>>
  BY DEF ReadFile, Fails, diskVars
<1>2. DiskInv'
  BY <1>0, <1>1 DEF DiskInv, Infected
<1>3. CASE Fails(stack)
  <2>1. Leave(stack) /\ errors'
    BY <1>3 DEF Fails
  <2> QED BY <1>0, <1>1, <1>2, <2>1, Left DEF CoverInv, FrameInv, Sees, Accounted
<1>4. CASE /\ saw' = IF total = 0 THEN disk[opened.ino].bad ELSE saw
           /\ UNCHANGED <<pc, stack, errors, limited>>
  <2>1. Accounted'
    BY <1>0, <1>1, <1>4 DEF Accounted, Ahead
  <2>2. Sees'
    BY <1>0, <1>1, <1>4 DEF Sees
  <2> QED BY <1>0, <1>1, <1>2, <1>4, <2>1, <2>2 DEF CoverInv, FrameInv
<1> QED BY <1>3, <1>4 DEF ReadFile

LEMMA ReadEndCovers == CoverInv /\ ReadEnd => CoverInv'
<1> SUFFICES ASSUME CoverInv, ReadEnd PROVE CoverInv'
  OBVIOUS
<1>0. FrameInv /\ DiskInv /\ Accounted /\ Sees /\ pc = "read" /\ pc' = "finish"
  BY DEF CoverInv, ReadEnd
<1>1. UNCHANGED <<cur, info, opened, total, saw, stack, errors, limited, entry, disk, events, tainted,
                  blind, reported>>
  BY DEF ReadEnd, diskVars, countVars, ghostVars
<1>2. DiskInv'
  BY <1>0, <1>1 DEF DiskInv, Infected
<1>3. Accounted' /\ FrameInv'
  BY <1>0, <1>1 DEF Accounted, Ahead, FrameInv
<1>4. ASSUME cur \in tainted PROVE total # 0
  <2>1. disk[opened.ino] \in Inode /\ disk[opened.ino].size > 0
    BY <1>0, <1>4 DEF Sees, FrameInv, DiskInv, Entry
  <2> QED BY <2>1, ScanAssumption DEF ReadEnd, Inode
<1>5. Sees'
  BY <1>0, <1>1, <1>4 DEF Sees
<1> QED BY <1>2, <1>3, <1>5 DEF CoverInv

LEMMA FinishCovers == CoverInv /\ Finish => CoverInv'
<1> SUFFICES ASSUME CoverInv, Finish PROVE CoverInv'
  OBVIOUS
<1>0. FrameInv /\ DiskInv /\ Accounted /\ Sees /\ stack \in Seq(Frame) /\ pc = "finish"
  BY DEF CoverInv, FrameInv, Finish
<1>1. UNCHANGED <<cur, info, opened, entry, disk, events, tainted, blind>> /\ Leave(stack)
  BY DEF Finish, Fails, diskVars
<1>2. DiskInv'
  BY <1>0, <1>1 DEF DiskInv, Infected
<1>3. FrameInv' /\ Sees'
  BY <1>0, <1>1, Left DEF FrameInv, Sees
<1>4. CASE Fails(stack)
  BY <1>2, <1>3, <1>4 DEF Fails, CoverInv, Accounted
<1>5. CASE Report /\ UNCHANGED errors
  <2>1. reported \subseteq reported' /\ (limited => limited')
    BY <1>5 DEF Report
  <2>2. ASSUME cur \in tainted PROVE limited' \/ cur \in reported'
    BY <1>0, <1>5, <2>2 DEF Sees, Report
  <2>3. Accounted'
    BY <1>0, <1>1, <1>5, <2>1, <2>2 DEF Accounted, Ahead, Leave
  <2> QED BY <1>2, <1>3, <2>3 DEF CoverInv
<1> QED BY <1>4, <1>5 DEF Finish

LEMMA ListEntryCovers == CoverInv /\ ListEntry => CoverInv'
<1> SUFFICES ASSUME CoverInv, ListEntry PROVE CoverInv'
  OBVIOUS
<1>0. /\ FrameInv /\ DiskInv /\ Accounted /\ pc = "list" /\ stack # << >>
      /\ Pop \in Seq(Frame) /\ Top \in Frame
  BY Popped DEF CoverInv, FrameInv, ListEntry
<1>1. UNCHANGED <<info, opened, errors, limited, entry, disk, events, tainted, reported>>
  BY DEF ListEntry, diskVars, countVars
<1>2. DiskInv'
  BY <1>0, <1>1 DEF DiskInv, Infected
<1>3. PICK n \in Children(Top.dir) \ Top.listed :
        /\ stack' = Append(Pop, [Top EXCEPT !.listed = @ \cup {n}])
        /\ \/ blind' = blind \cup Below(n) /\ UNCHANGED <<pc, cur>>
           \/ pc' = "enter" /\ cur' = n /\ UNCHANGED blind
  BY DEF ListEntry
<1> DEFINE f == [Top EXCEPT !.listed = @ \cup {n}]
<1>4. n \in Nodes /\ f \in Frame /\ f.dir = Top.dir /\ f.listed = Top.listed \cup {n}
  BY <1>0 DEF Children, Frame
<1> HIDE DEF f
<1>5. stack' \in Seq(Frame) /\ stack' # << >> /\ \A t : InStack(t, stack') <=> InStack(t, Pop) \/ InFrame(t, f)
  <2>1. stack' = Append(Pop, f)
    BY <1>3 DEF f
  <2>2. stack' # << >>
    BY <1>0, <2>1
  <2> QED BY <1>0, <1>4, <2>1, <2>2, Pushed
<1>6. FrameInv' /\ Sees'
  BY <1>0, <1>1, <1>3, <1>4, <1>5 DEF FrameInv, Sees
<1>7. ASSUME NEW t \in tainted, Ahead(t) PROVE t \in blind' \/ Ahead(t)'
  <2>1. InStack(t, Pop) \/ InFrame(t, Top)
    BY <1>0, <1>7, Popped DEF Ahead, FrameInv
  <2>2. CASE InStack(t, Pop)
    BY <1>5, <2>2 DEF Ahead
  <2>3. CASE InFrame(t, Top)
    <3>1. PICK c \in Children(Top.dir) \ Top.listed : c \in Up[t]
      BY <2>3 DEF InFrame
    <3>2. CASE c # n
      <4>1. InFrame(t, f)
        BY <1>4, <3>1, <3>2 DEF InFrame
      <4> QED BY <1>5, <4>1 DEF Ahead
    <3>3. CASE c = n
      BY <1>0, <1>3, <3>1, <3>3 DEF Below, DiskInv, Ahead
    <3> QED BY <3>2, <3>3
  <2> QED BY <2>1, <2>2, <2>3
<1>8. blind \subseteq blind'
  BY <1>3
<1>9. Accounted'
  BY <1>0, <1>1, <1>7, <1>8 DEF Accounted
<1> QED BY <1>2, <1>6, <1>9 DEF CoverInv

LEMMA ListEndCovers == CoverInv /\ ListEnd => CoverInv'
<1> SUFFICES ASSUME CoverInv, ListEnd PROVE CoverInv'
  OBVIOUS
<1>0. /\ FrameInv /\ DiskInv /\ Accounted /\ pc = "list" /\ stack # << >>
      /\ Pop \in Seq(Frame) /\ Top \in Frame
  BY Popped DEF CoverInv, FrameInv, ListEnd
<1>1. UNCHANGED <<cur, info, opened, limited, entry, disk, events, tainted, reported>> /\ Leave(Pop)
      /\ (errors => errors')
  BY DEF ListEnd, Fails, diskVars
<1>2. DiskInv'
  BY <1>0, <1>1 DEF DiskInv, Infected
<1>3. FrameInv' /\ Sees'
  BY <1>0, <1>1, Left DEF FrameInv, Sees
<1>4. ASSUME ~limited, NEW t \in tainted, InFrame(t, Top) PROVE t \in blind'
  <2>1. PICK c \in Children(Top.dir) \ Top.listed : c \in Up[t]
    BY <1>4 DEF InFrame
  <2>2. entry[c].kind # "absent" /\ t \in Below(c)
    BY <1>0, <2>1, OnTheWay DEF Below, DiskInv
  <2>3. blind' = blind \cup UNION {Below(n) : n \in {m \in Children(Top.dir) \ Top.listed : entry[m].kind # "absent"}}
    BY <1>4 DEF ListEnd
  <2> QED BY <2>1, <2>2, <2>3
<1>5. ASSUME NEW t \in tainted, Ahead(t) PROVE limited \/ t \in blind' \/ Ahead(t)'
  <2>1. InStack(t, Pop) \/ InFrame(t, Top)
    BY <1>0, <1>5, Popped DEF Ahead, FrameInv
  <2> QED BY <1>1, <1>4, <2>1 DEF Ahead, Leave
<1>6. blind \subseteq blind'
  BY DEF ListEnd
<1>7. Accounted'
  BY <1>0, <1>1, <1>5, <1>6 DEF Accounted
<1> QED BY <1>2, <1>3, <1>7 DEF CoverInv

LEMMA OthersCover == CoverInv /\ Others => CoverInv'
<1> SUFFICES ASSUME CoverInv, Others PROVE CoverInv'
  OBVIOUS
<1>0. DiskInv /\ FrameInv /\ Accounted /\ Sees
  BY DEF CoverInv
<1>1. UNCHANGED <<scanVars, countVars, ghostVars>>
  BY DEF Others, Resize, Replace, Change
<1>2. DiskInv' /\ tainted' \subseteq tainted
  BY <1>0, ResizeKeepsDisk, ReplaceKeepsDisk DEF Others
<1>3. FrameInv' /\ Accounted'
  BY <1>0, <1>1, <1>2 DEF FrameInv, Accounted, Ahead, scanVars, countVars, ghostVars
<1>4. \A m \in tainted' : StillTainted(m)'
  BY DEF Others, Resize, Replace
<1>5. Sees'
  BY <1>0, <1>1, <1>2, <1>4 DEF Sees, StillTainted, scanVars
<1> QED BY <1>2, <1>3, <1>5 DEF CoverInv

LEMMA CoverNext == CoverInv /\ [Next]_vars => CoverInv'
<1> SUFFICES ASSUME CoverInv, [Next]_vars PROVE CoverInv'
  OBVIOUS
<1>1. CASE Scanner
  BY <1>1, EnterCovers, OpenCovers, ReadFileCovers, ReadEndCovers, FinishCovers, ListEntryCovers,
     ListEndCovers DEF Scanner
<1>2. CASE UNCHANGED vars
  BY <1>2 DEF vars, scanVars, countVars, diskVars, ghostVars, CoverInv, DiskInv, Infected, FrameInv,
     Sees, Accounted, Ahead
<1> QED BY <1>1, <1>2, OthersCover DEF Next

(* CoverInv is an invariant of the scanner. *)
THEOREM CoverInvariance == Spec => []CoverInv
<1>1. CoverInv /\ [Next]_vars => CoverInv'
  BY CoverNext
<1> QED BY CoverInit, <1>1, PTL DEF Spec

(* README.md:183, exit status 0 "means a complete scan with no findings":   *)
(* of any tree, under any changes, a scan that exits 0 or 1 has reported    *)
(* all that was infected all along and not passed over.                     *)
THEOREM AlwaysCompleteUnlessBlind == Spec => []CompleteUnlessBlind
<1>1. CoverInv => CompleteUnlessBlind
  <2> SUFFICES ASSUME CoverInv, pc = "done", ExitStatus # 2, NEW t \in tainted
               PROVE  t \in reported \cup blind
    BY DEF CompleteUnlessBlind
  <2>1. ~errors /\ ~limited
    BY DEF ExitStatus
  <2>2. ~Ahead(t)
    BY DEF CoverInv, FrameInv, Ahead, InStack
  <2> QED BY <2>1, <2>2 DEF CoverInv, Accounted
<1> QED BY CoverInvariance, <1>1, PTL

(* In PathWalk the C scanner is the one of AvScan: the theorems above hold  *)
(* of it there, too.                                                        *)
THEOREM ScannerImplementsAvScan == WalkSpec /\ walker = "antivermis" => Spec
<1>1. WalkInit => Init
  BY DEF WalkInit
<1>2. [WalkNext]_<<vars, walkVars>> /\ walker = "antivermis" => (walker = "antivermis")'
  BY DEF WalkNext, TreeChanges, walkVars
<1>3. [WalkNext]_<<vars, walkVars>> /\ walker = "antivermis" => [Next]_vars
  BY DEF WalkNext, CScanner, PyScanner, ListersAndSearches, Lsx, LsxPy, Linkscan, LinkscanPy,
     TreeChanges, Next, Others
<1> QED BY <1>1, <1>2, <1>3, PTL DEF WalkSpec, Spec

-----------------------------------------------------------------------------
(* The Python scanner misses nothing that is tainted, and passes nothing    *)
(* over: what is ahead of it is at hand, below what is at hand, or below a  *)
(* path on its stack.                                                       *)

InTodo(t, s) == \E i \in DOMAIN s : s[i] \in Up[t]

PyAhead(t) ==
  \/ pc \in {"list", "open"} /\ cur \in Up[t]
  \/ pc = "hash" /\ cur = t
  \/ InTodo(t, todo)

PyAccounted == \A t \in tainted : errors \/ limited \/ t \in reported \/ PyAhead(t)

(* What is being hashed has been infected all along or written into since.  *)
PySees ==
  pc = "hash" =>
    /\ opened \in Entry /\ opened.ino <= Cardinality(Nodes) + (Events - events)
    /\ stamp <= mtime[opened.ino]
    /\ cur \in tainted /\ mtime[opened.ino] = stamp => disk[opened.ino].bad

Flags == errors \in BOOLEAN /\ limited \in BOOLEAN

PyFrame ==
  /\ todo \in Seq(Nodes) /\ cur \in Nodes /\ entries \in Nat
  /\ mtime \in [Inodes -> Nat] /\ stamp \in Nat
  /\ Flags
  /\ pc \in {"enter", "list", "open", "hash", "done"}
  /\ pc = "done" => limited \/ todo = << >>

PyInv == DiskInv /\ (walker = "antivermis.py" => PyFrame /\ PySees /\ PyAccounted)

LEMMA KidsAreAll ==
  ASSUME NEW S \in SUBSET Nodes, NEW kids \in SetToSeqs(S)
  PROVE  kids \in Seq(Nodes) /\ \A n \in S : \E i \in DOMAIN kids : kids[i] = n
<1> DEFINE k == Cardinality(S)
<1>1. IsFiniteSet(S) /\ k \in Nat
  <2>1. IsFiniteSet(S)
    BY ScanAssumption, FS_Subset
  <2> QED BY <2>1, FS_CardinalityType
<1>2. kids \in [1..k -> S] /\ \A i, j \in 1..k : i # j => kids[i] # kids[j]
  BY DEF SetToSeqs
<1>3. IsFiniteSet(1..k) /\ Cardinality(1..k) = k
  BY <1>1, FS_Interval
<1> HIDE DEF k
<1>4. kids \in Injection(1..k, S)
  BY <1>2, Fun_IsInj
<1>5. kids \in Surjection(1..k, S)
  BY <1>1, <1>3, <1>4, FS_Injection DEF k
<1>6. \A n \in S : \E i \in 1..k : kids[i] = n
  BY <1>5 DEF Surjection
<1>7. kids \in Seq(Nodes) /\ DOMAIN kids = 1..k
  BY <1>1, <1>2
<1> QED BY <1>6, <1>7

LEMMA UptoAll ==
  ASSUME NEW s \in Seq(Nodes), NEW k \in Int
  PROVE  Upto(s, k) \in Seq(Nodes) /\ (Len(s) <= k => Upto(s, k) = s)
<1>1. Len(s) \in Nat /\ Min({k, Len(s)}) = IF Len(s) <= k THEN Len(s) ELSE k
  BY DEF Min
<1>2. Upto(s, k) \in Seq(Nodes)
  <2> DEFINE n == Min({k, Len(s)})
  <2>0. n \in Int /\ n <= Len(s)
    BY <1>1
  <2> HIDE DEF n
  <2>1. \A i \in 1..n : s[i] \in Nodes
    BY <1>1, <2>0
  <2>2. SubSeq(s, 1, n) \in Seq(Nodes)
    BY <2>0, <2>1, SubSeqProperties
  <2> QED BY <2>2 DEF Upto, n
<1>3. Len(s) <= k => Upto(s, k) = s
  BY <1>1 DEF Upto
<1> QED BY <1>2, <1>3

LEMMA LastTaken ==
  ASSUME NEW s \in Seq(Nodes), s # << >>, NEW t
  PROVE  /\ Last(s) \in Nodes /\ Front(s) \in Seq(Nodes)
         /\ InTodo(t, s) => Last(s) \in Up[t] \/ InTodo(t, Front(s))
<1>1. Len(s) \in Nat \ {0} /\ DOMAIN s = 1..Len(s)
  OBVIOUS
<1>2. Last(s) = s[Len(s)] /\ Last(s) \in Nodes
  BY <1>1 DEF Last
<1>3. Front(s) \in Seq(Nodes) /\ Len(Front(s)) = Len(s) - 1 /\ \A i \in 1..(Len(s) - 1) : Front(s)[i] = s[i]
  BY <1>1 DEF Front
<1>4. ASSUME NEW i \in DOMAIN s, s[i] \in Up[t] PROVE Last(s) \in Up[t] \/ InTodo(t, Front(s))
  <2>1. i = Len(s) \/ i \in 1..(Len(s) - 1)
    BY <1>1
  <2>2. DOMAIN Front(s) = 1..(Len(s) - 1)
    BY <1>1, <1>3
  <2> QED BY <1>2, <1>3, <1>4, <2>1, <2>2 DEF InTodo
<1> QED BY <1>2, <1>3, <1>4 DEF InTodo

LEMMA Joined ==
  ASSUME NEW s \in Seq(Nodes), NEW r \in Seq(Nodes), NEW t
  PROVE  s \o r \in Seq(Nodes) /\ (InTodo(t, s) \/ InTodo(t, r) => InTodo(t, s \o r))
<1>1. /\ s \o r \in Seq(Nodes) /\ Len(s \o r) = Len(s) + Len(r) /\ Len(s) \in Nat /\ Len(r) \in Nat
      /\ \A i \in 1..Len(s) : (s \o r)[i] = s[i]
      /\ \A i \in 1..Len(r) : (s \o r)[Len(s) + i] = r[i]
  OBVIOUS
<1>2. DOMAIN s = 1..Len(s) /\ DOMAIN r = 1..Len(r) /\ DOMAIN (s \o r) = 1..(Len(s) + Len(r))
  BY <1>1
<1>3. InTodo(t, s) => InTodo(t, s \o r)
  <2> SUFFICES ASSUME NEW i \in 1..Len(s), s[i] \in Up[t] PROVE InTodo(t, s \o r)
    BY <1>2 DEF InTodo
  <2>1. i \in 1..(Len(s) + Len(r))
    BY <1>1
  <2> QED BY <1>1, <1>2, <2>1 DEF InTodo
<1>4. InTodo(t, r) => InTodo(t, s \o r)
  <2> SUFFICES ASSUME NEW i \in 1..Len(r), r[i] \in Up[t] PROVE InTodo(t, s \o r)
    BY <1>2 DEF InTodo
  <2>1. Len(s) + i \in 1..(Len(s) + Len(r))
    BY <1>1
  <2> QED BY <1>1, <1>2, <2>1 DEF InTodo
<1> QED BY <1>1, <1>3, <1>4

LEMMA PyInit == WalkInit => PyInv
<1> SUFFICES ASSUME WalkInit PROVE PyInv
  OBVIOUS
<1>1. Init /\ todo = <<Root>> /\ stamp = 0 /\ mtime = [i \in Inodes |-> 0]
  BY DEF WalkInit
<1>2. DiskInv /\ pc = "enter" /\ cur = Root /\ entries = 0 /\ errors = FALSE /\ limited = FALSE
  BY <1>1, DiskInit DEF Init
<1>0. Flags
  BY <1>2 DEF Flags
<1>3. PyFrame /\ PySees
  BY <1>0, <1>1, <1>2, ScanAssumption DEF PyFrame, PySees
<1>4. ASSUME NEW t \in tainted PROVE InTodo(t, todo)
  <2>1. Root \in Up[t] /\ 1 \in DOMAIN todo /\ todo[1] = Root
    BY <1>1, <1>2, TreeAssumption DEF DiskInv
  <2> QED BY <2>1 DEF InTodo
<1> QED BY <1>2, <1>3, <1>4 DEF PyInv, PyAccounted, PyAhead

LEMMA PyTakeKeeps ==
  ASSUME DiskInv, PyFrame, PySees, PyAccounted, PyTake, UNCHANGED <<diskVars, mtime>>
  PROVE  PyFrame' /\ PySees' /\ PyAccounted'
<1>1. /\ pc = "enter" /\ cur' = Last(todo) /\ todo' = Front(todo) /\ todo # << >> /\ entries' = entries + 1
      /\ UNCHANGED <<reported, opened, stamp, entry, disk, events, tainted, mtime>>
  BY DEF PyTake, diskVars
<1>0. pc' \in {"enter", "list", "open", "done"} /\ (pc' = "done" => limited')
  BY DEF PyTake
<1>6. (limited => limited') /\ (errors => errors')
  <2>1. /\ limited' = limited \/ limited' = TRUE \/ \E x : limited' = (limited \/ x)
        /\ errors' = errors \/ errors' = TRUE
    BY Zenon DEF PyTake
  <2> QED BY <2>1 DEF PyFrame, Flags
<1>7. Flags'
  BY Zenon DEF PyTake, PyFrame, Flags
<1>2. PyFrame' /\ PySees'
  BY <1>0, <1>1, <1>7, LastTaken DEF PyFrame, PySees
<1>3. ASSUME NEW t \in tainted, cur' \in Up[t] PROVE errors' \/ limited' \/ pc' \in {"list", "open"}
  BY <1>1, <1>3, OnTheWay DEF PyTake, IsDir
<1>4. ASSUME NEW t \in tainted, PyAhead(t) PROVE cur' \in Up[t] \/ InTodo(t, todo')
  BY <1>1, <1>4, LastTaken DEF PyAhead, PyFrame
<1>5. PyAccounted'
  BY <1>0, <1>1, <1>3, <1>4, <1>6 DEF PyAccounted, PyAhead
<1> QED BY <1>2, <1>5

LEMMA PyListKeeps ==
  ASSUME DiskInv, PyFrame, PySees, PyAccounted, PyList, UNCHANGED <<diskVars, mtime>>
  PROVE  PyFrame' /\ PySees' /\ PyAccounted'
<1>1. /\ pc = "list" /\ pc' = "enter"
      /\ UNCHANGED <<cur, entries, reported, opened, stamp, entry, disk, events, tainted, mtime>>
  BY DEF PyList, diskVars
<1>2. CASE errors' = TRUE /\ UNCHANGED <<todo, limited>>
  BY <1>1, <1>2 DEF PyFrame, Flags, PySees, PyAccounted
<1> DEFINE room == MaxFiles - Len(todo) - entries
<1>3. CASE /\ There(cur) /\ IsDir(cur) /\ UNCHANGED errors
           /\ \E links \in LinksIn(ThereIn(cur)) : \E kids \in SetToSeqs(ThereIn(cur) \ links) :
                /\ todo' = todo \o Upto(kids, room)
                /\ \/ limited' = (limited \/ Len(kids) > room)
                   \/ Len(kids) = room /\ links # {} /\ limited' = TRUE
  <2>0. PICK links \in LinksIn(ThereIn(cur)) : \E kids \in SetToSeqs(ThereIn(cur) \ links) :
          /\ todo' = todo \o Upto(kids, room)
          /\ \/ limited' = (limited \/ Len(kids) > room)
             \/ Len(kids) = room /\ links # {} /\ limited' = TRUE
    BY <1>3
  <2>1. PICK kids \in SetToSeqs(ThereIn(cur) \ links) :
          /\ todo' = todo \o Upto(kids, room)
          /\ \/ limited' = (limited \/ Len(kids) > room)
             \/ Len(kids) = room /\ links # {} /\ limited' = TRUE
    BY <2>0
  <2>2. Flags' /\ (limited => limited') /\ (~limited' => ~(Len(kids) > room))
    BY <1>3, <2>1 DEF PyFrame, Flags
  <2>3. room \in Int
    BY ScanAssumption DEF PyFrame
  <2>4. kids \in Seq(Nodes) /\ \A n \in ThereIn(cur) \ links : \E i \in DOMAIN kids : kids[i] = n
    <3>1. ThereIn(cur) \ links \in SUBSET Nodes
      BY DEF ThereIn, Children
    <3> QED BY <3>1, KidsAreAll
  <2>5. Upto(kids, room) \in Seq(Nodes) /\ (Len(kids) <= room => Upto(kids, room) = kids)
    BY <2>3, <2>4, UptoAll
  <2>6. todo' \in Seq(Nodes)
    BY <2>1, <2>5, Joined DEF PyFrame
  <2>7. PyFrame' /\ PySees'
    BY <1>1, <1>3, <2>2, <2>6 DEF PyFrame, PySees
  <2>8. ASSUME NEW t \in tainted, PyAhead(t), ~limited' PROVE InTodo(t, todo')
    <3>1. Upto(kids, room) = kids
      <4>1. Len(kids) \in Nat
        BY <2>4
      <4> QED BY <2>2, <2>3, <2>5, <2>8, <4>1
    <3>2. CASE InTodo(t, todo)
      BY <2>1, <2>5, <3>2, Joined DEF PyFrame
    <3>3. CASE cur \in Up[t]
      <4>1. t \in Nodes /\ cur # t
        BY <1>3, <3>3, OnTheWay DEF DiskInv, IsDir
      <4>2. PICK c \in Children(cur) : c \in Up[t]
        BY <3>3, <4>1, ChildOnTheWay
      <4>3. entry[c].kind \in {"dir", "file"} /\ c \in ThereIn(cur) \ links
        BY <2>0, <4>2, OnTheWay DEF ThereIn, LinksIn
      <4>4. InTodo(t, kids)
        BY <2>4, <4>2, <4>3 DEF InTodo
      <4> QED BY <2>1, <2>4, <3>1, <4>4, Joined DEF PyFrame
    <3> QED BY <1>1, <2>8, <3>2, <3>3 DEF PyAhead
  <2> QED BY <1>1, <1>3, <2>2, <2>7, <2>8 DEF PyAccounted, PyAhead
<1> QED BY <1>2, <1>3 DEF PyList

LEMMA PyOpenKeeps ==
  ASSUME DiskInv, PyFrame, PySees, PyAccounted, PyOpen, UNCHANGED <<diskVars, mtime>>
  PROVE  PyFrame' /\ PySees' /\ PyAccounted'
<1>1. /\ pc = "open"
      /\ UNCHANGED <<cur, todo, entries, limited, reported, entry, disk, events, tainted, mtime>>
  BY DEF PyOpen, diskVars
<1>2. CASE errors' = TRUE /\ pc' = "enter" /\ UNCHANGED <<opened, stamp>>
  BY <1>1, <1>2 DEF PyFrame, Flags, PySees, PyAccounted
<1>3. CASE /\ There(cur) /\ entry[cur].kind = "file" /\ pc' = "hash" /\ UNCHANGED errors
           /\ opened' = entry[cur] /\ stamp' = mtime[entry[cur].ino]
  <2>1. entry[cur] \in Entry /\ entry[cur].ino \in Inodes /\ stamp' \in Nat /\ cur \in Nodes
    BY <1>3 DEF PyFrame, DiskInv, Entry
  <2>2. PyFrame'
    BY <1>1, <1>3, <2>1 DEF PyFrame, Flags
  <2>3. cur \in tainted => disk[entry[cur].ino].bad
    BY DEF DiskInv, Infected
  <2>4. PySees'
    BY <1>1, <1>3, <2>1, <2>3 DEF PySees, DiskInv
  <2>5. \A t \in tainted : cur \in Up[t] => cur = t
    BY <1>3, OnTheWay
  <2> QED BY <1>1, <1>3, <2>2, <2>4, <2>5 DEF PyAccounted, PyAhead
<1> QED BY <1>2, <1>3 DEF PyOpen

LEMMA PyHashKeeps ==
  ASSUME DiskInv, PyFrame, PySees, PyAccounted, PyHash, UNCHANGED <<diskVars, mtime>>
  PROVE  PyFrame' /\ PySees' /\ PyAccounted'
<1>1. /\ pc = "hash"
      /\ UNCHANGED <<cur, todo, entries, opened, stamp, entry, disk, events, tainted, mtime>>
      /\ (errors => errors') /\ reported \subseteq reported'
  BY DEF PyHash, PyFinds, diskVars
<1>0. pc' \in {"enter", "done"} /\ (pc' = "done" => limited') /\ (limited => limited')
  BY DEF PyHash, PyFinds, PyFrame, Flags
<1>4. Flags'
  BY DEF PyHash, PyFinds, PyFrame, Flags
<1>2. PyFrame' /\ PySees'
  BY <1>0, <1>1, <1>4 DEF PyFrame, PySees
<1>3. ASSUME cur \in tainted PROVE errors' \/ cur \in reported'
  BY <1>1, <1>3 DEF PySees, PyHash, PyFinds
<1> QED BY <1>0, <1>1, <1>2, <1>3 DEF PyAccounted, PyAhead

LEMMA PyEndKeeps ==
  ASSUME DiskInv, PyFrame, PySees, PyAccounted, PyEnd, UNCHANGED <<diskVars, mtime>>
  PROVE  PyFrame' /\ PySees' /\ PyAccounted'
BY DEF PyEnd, diskVars, PyFrame, Flags, PySees, PyAccounted, PyAhead, InTodo

LEMMA ScannerKeepsDisk == DiskInv /\ UNCHANGED diskVars => DiskInv'
BY DEF DiskInv, Infected, diskVars

(* What is written into while it is hashed gets another time; what takes    *)
(* its path is another inode.                                               *)
LEMMA PyTreeKeeps ==
  ASSUME DiskInv, PyFrame, PySees, PyAccounted, TreeChanges
  PROVE  PyFrame' /\ PySees' /\ PyAccounted'
<1>1. PICK n \in Nodes : \/ Resize(n) /\ mtime' = [mtime EXCEPT ![entry[n].ino] = @ + 1]
                         \/ Replace(n) /\ UNCHANGED mtime
  BY DEF TreeChanges
<1>2. DiskInv' /\ tainted' \subseteq tainted
  BY <1>1, ResizeKeepsDisk, ReplaceKeepsDisk
<1>3. UNCHANGED <<todo, stamp, pc, cur, opened, stack, entries, errors, limited, reported>>
      /\ events' = events - 1
  BY <1>1 DEF TreeChanges, Resize, Replace, Change, scanVars, countVars, ghostVars
<1>4. mtime' \in [Inodes -> Nat] /\ \A i \in Inodes : mtime[i] <= mtime'[i]
  BY <1>1 DEF PyFrame
<1>5. PyFrame' /\ PyAccounted'
  BY <1>2, <1>3, <1>4 DEF PyFrame, Flags, PyAccounted, PyAhead
<1>6. ASSUME pc = "hash" PROVE opened.ino \in Inodes /\ opened.ino <= Cardinality(Nodes) + (Events - events)
  BY <1>6 DEF PySees, Entry
<1>7. ASSUME pc = "hash" PROVE opened.ino <= Cardinality(Nodes) + (Events - events')
  <2> DEFINE last == Cardinality(Nodes)
             ino == opened.ino
  <2>1. last \in Nat /\ Events \in Nat /\ events \in Int
    BY Numbers, ScanAssumption DEF DiskInv
  <2>2. ino \in Int /\ ino <= last + (Events - events)
    BY <1>6, <1>7, <2>1 DEF Inodes
  <2> HIDE DEF last, ino
  <2>3. ino <= last + (Events - events')
    BY <1>3, <2>1, <2>2
  <2> QED BY <2>3 DEF last, ino
<1>8. ASSUME pc = "hash", cur \in tainted, mtime'[opened.ino] = stamp PROVE disk'[opened.ino].bad
  <2>1. mtime[opened.ino] = stamp /\ disk[opened.ino].bad
    BY <1>4, <1>6, <1>8 DEF PySees, PyFrame
  <2>2. CASE Resize(n) /\ mtime' = [mtime EXCEPT ![entry[n].ino] = @ + 1]
    <3>1. entry[n].ino # opened.ino
      BY <1>6, <1>8, <2>1, <2>2 DEF PyFrame
    <3> QED BY <1>6, <1>8, <2>1, <2>2, <3>1 DEF Resize, DiskInv
  <2>3. CASE Replace(n)
    <3>1. PICK e \in Entry, i \in Inode :
            /\ e.ino = Cardinality(Nodes) + Events - events + 1 /\ disk' = [disk EXCEPT ![e.ino] = i]
      BY <2>3 DEF Replace
    <3>2. e.ino # opened.ino
      <4> DEFINE last == Cardinality(Nodes)
                 new == e.ino
                 ino == opened.ino
      <4>1. last \in Nat /\ Events \in Nat /\ events \in Int
        BY Numbers, ScanAssumption DEF DiskInv
      <4>2. ino \in Int /\ ino <= last + (Events - events) /\ new = last + Events - events + 1
        BY <1>6, <1>8, <3>1, <4>1 DEF Inodes
      <4> HIDE DEF last, new, ino
      <4>3. new # ino
        BY <4>1, <4>2
      <4> QED BY <4>3 DEF new, ino
    <3> QED BY <1>6, <1>8, <2>1, <3>1, <3>2 DEF DiskInv
  <2> QED BY <1>1, <2>2, <2>3
<1>9. PySees'
  <2> SUFFICES ASSUME pc = "hash"
               PROVE  /\ opened \in Entry /\ opened.ino <= Cardinality(Nodes) + (Events - events')
                      /\ stamp <= mtime'[opened.ino]
                      /\ cur \in tainted' /\ mtime'[opened.ino] = stamp => disk'[opened.ino].bad
    BY <1>3 DEF PySees
  <2>1. stamp <= mtime'[opened.ino]
    BY <1>4, <1>6 DEF PySees, PyFrame
  <2> QED BY <1>2, <1>7, <1>8, <2>1 DEF PySees
<1> QED BY <1>5, <1>9

LEMMA PyNext == PyInv /\ [WalkNext]_<<vars, walkVars>> => PyInv'
<1> SUFFICES ASSUME PyInv, [WalkNext]_<<vars, walkVars>> PROVE PyInv'
  OBVIOUS
<1>1. DiskInv /\ (walker = "antivermis.py" => PyFrame /\ PySees /\ PyAccounted)
  BY DEF PyInv
<1>2. UNCHANGED walker
  BY DEF WalkNext, TreeChanges, walkVars
<1>3. DiskInv'
  <2>1. CASE TreeChanges
    BY <1>1, <2>1, ResizeKeepsDisk, ReplaceKeepsDisk DEF TreeChanges
  <2>2. CASE Scanner
    BY <1>1, <2>2, ScannerKeepsDisk DEF Scanner, Enter, Open, ReadFile, ReadEnd, Finish, ListEntry, ListEnd
  <2>3. CASE UNCHANGED diskVars
    BY <1>1, <2>3, ScannerKeepsDisk
  <2> QED BY <2>1, <2>2, <2>3 DEF WalkNext, CScanner, vars
<1>4. ASSUME walker = "antivermis.py" PROVE PyFrame' /\ PySees' /\ PyAccounted'
  <2>1. CASE TreeChanges
    BY <1>1, <1>4, <2>1, PyTreeKeeps
  <2>2. CASE PyScanner /\ UNCHANGED <<walker, diskVars, mtime>>
    BY <1>1, <1>4, <2>2, PyTakeKeeps, PyListKeeps, PyOpenKeeps, PyHashKeeps, PyEndKeeps DEF PyScanner
  <2>3. CASE UNCHANGED <<vars, walkVars>>
    BY <1>1, <1>4, <2>3 DEF vars, scanVars, countVars, diskVars, ghostVars, walkVars, PyFrame, Flags,
       PySees, PyAccounted, PyAhead
  <2> QED BY <1>4, <2>1, <2>2, <2>3 DEF WalkNext, CScanner, ListersAndSearches, Lsx, LsxPy, Linkscan,
             LinkscanPy
<1> QED BY <1>2, <1>3, <1>4 DEF PyInv

(* PyInv is an invariant of all the walkers, and says something of antivermis.py. *)
THEOREM PyInvariance == WalkSpec => []PyInv
<1>1. PyInv /\ [WalkNext]_<<vars, walkVars>> => PyInv'
  BY PyNext
<1> QED BY PyInit, <1>1, PTL DEF WalkSpec

(* README.md:183, of the Python scanner: of any tree, under any changes, a  *)
(* scan that exits 0 or 1 has reported all that was infected all along.     *)
THEOREM PyExitAlwaysMeansComplete == WalkSpec => []PyExitMeansComplete
<1>1. PyInv => PyExitMeansComplete
  <2> SUFFICES ASSUME PyInv, walker = "antivermis.py", pc = "done", ~errors, ~limited, NEW t \in tainted
               PROVE  t \in reported
    BY DEF PyExitMeansComplete
  <2>1. todo = << >>
    BY DEF PyInv, PyFrame
  <2>2. ~PyAhead(t)
    BY <2>1 DEF PyAhead, InTodo
  <2> QED BY <2>2 DEF PyInv, PyAccounted
<1> QED BY PyInvariance, <1>1, PTL

-----------------------------------------------------------------------------
(* The listings and the searches: a name that was there all along is in its *)
(* place to be looked at, or in a row, or found, or the failure shows.      *)

(* A name of the target is a file, and one that was there from the start.   *)
TargetInv ==
  \A n \in Nodes : entry[n].ino = Target => n \in Twins /\ entry[n].kind \in {"absent", "file"}

Named(n)   == \E r \in rows : r.name = n
Measured   == pc = "open" \/ (pc = "list" /\ Len(stack) > 1)

Row == [name: Nodes, size: Nat, star: BOOLEAN, seen: SUBSET (Nodes \cup Inodes)]

LsxFrame ==
  /\ pc \in {"enter", "open", "list", "done"} /\ stack \in Seq(Frame) /\ cur \in Nodes /\ row \in Row
  /\ pc \in {"open", "list"} => stack # << >> /\ stack[1].dir = Root

LsxAccounted ==
  \A n \in Children(Root) \cap Steady :
    \/ errors \/ Named(n) \/ pc = "enter"
    \/ pc \in {"open", "list"} /\ n \notin stack[1].listed
    \/ Measured /\ row.name = n

LsxPyAccounted ==
  /\ row \in Row /\ names \subseteq Nodes /\ todo \in Seq(Nodes)
  /\ pc \in {"enter", "list", "enter row", "open row", "done"}
  /\ pc = "done" => errors \/ limited \/ names = {}
  /\ \A n \in Children(Root) \cap Steady :
       \/ errors \/ limited \/ Named(n) \/ pc = "enter" \/ n \in names
       \/ pc \in {"enter row", "open row"} /\ row.name = n

NamesTarget(t) == t \in Steady /\ entry[t].ino = Target

LinkFrame ==
  /\ pc \in {"enter", "open", "list", "done"} /\ stack \in Seq(Frame) /\ cur \in Nodes
  /\ pc = "list" => stack # << >>
  /\ pc = "done" => errors \/ limited \/ stack = << >>

LinkAhead(t) ==
  \/ pc = "enter" /\ cur \in Up[t]
  \/ pc = "open" /\ cur \in Up[t] \ {t}
  \/ InStack(t, stack)

LinkAccounted ==
  \A t \in Nodes : NamesTarget(t) => errors \/ limited \/ t \in reported \cup blind \/ LinkAhead(t)

InWalk(t, s) == \E i \in DOMAIN s : s[i] \in Up[t] \ {t}

LinkPyFrame ==
  /\ pc \in {"enter", "list", "done"} /\ todo \in Seq(Nodes)
  /\ pc = "done" => limited \/ todo = << >>

LinkPyAccounted ==
  \A t \in Nodes : NamesTarget(t) =>
    limited \/ t \in reported \cup blind \/ (pc = "list" /\ t \in names) \/ InWalk(t, todo)

ListInv ==
  /\ DiskInv /\ TargetInv
  /\ walker = "lsx" => LsxFrame /\ LsxAccounted
  /\ walker = "lsx.py" => LsxPyAccounted
  /\ walker = "linkscan" => LinkFrame /\ LinkAccounted
  /\ walker = "linkscan.py" /\ Root \notin Twins => LinkPyFrame /\ LinkPyAccounted

LEMMA TargetInit == Init => TargetInv
<1> SUFFICES ASSUME Init, NEW n \in Nodes, entry[n].ino = Target
             PROVE  n \in Twins /\ entry[n].kind \in {"absent", "file"}
  BY DEF TargetInv
<1>1. PICK kind \in [Nodes -> Kinds], number \in {Number, Linked} :
        /\ \A m \in Nodes : kind[m] \in Kind0[m]
        /\ entry = [m \in Nodes |-> [kind |-> kind[m], ino |-> number[m]]]
  BY DEF Init
<1> DEFINE twin == CHOOSE m \in Twins : TRUE
<1>2. twin \in Twins /\ twin \in Nodes /\ Twin = Number[twin]
  BY ScanAssumption DEF Twin
<1>3. entry[n].ino = number[n] /\ entry[n].kind = kind[n]
  BY <1>1
<1> HIDE DEF twin
<1>4. n \in Twins
  BY <1>1, <1>2, <1>3, Numbers DEF Target, Linked
<1>5. Kind0[n] \subseteq {"absent", "file"}
  BY <1>4, ScanAssumption
<1> QED BY <1>1, <1>3, <1>4, <1>5

LEMMA NumberOfNodes == Cardinality(Nodes) \in Nat /\ Target \in 1..Cardinality(Nodes) /\ Events \in Nat
BY Numbers, LinkedNumbers, ScanAssumption DEF Target

(* What takes a path has a number that no path had from the start. *)
LEMMA ReplacedIsNew ==
  ASSUME DiskInv, NEW n \in Nodes, Replace(n)
  PROVE  /\ entry'[n].ino > Cardinality(Nodes) /\ entry'[n].ino # Target
         /\ \A m \in Nodes \ {n} : entry'[m] = entry[m]
<1>1. PICK e \in Entry :
        e.ino = Cardinality(Nodes) + Events - events + 1 /\ entry' = [entry EXCEPT ![n] = e]
  BY DEF Replace
<1>2. entry'[n] = e /\ \A m \in Nodes \ {n} : entry'[m] = entry[m]
  BY <1>1 DEF DiskInv
<1>3. e.ino > Cardinality(Nodes)
  BY <1>1, NumberOfNodes DEF DiskInv
<1> QED BY <1>2, <1>3, NumberOfNodes

LEMMA TargetKept == DiskInv /\ TargetInv /\ (TreeChanges \/ UNCHANGED diskVars) => TargetInv'
<1> SUFFICES ASSUME DiskInv, TargetInv, TreeChanges, NEW n \in Nodes, Replace(n) PROVE TargetInv'
  BY DEF TargetInv, diskVars, TreeChanges, Resize
<1> QED BY ReplacedIsNew DEF TargetInv

(* A name that was there all along has named the same all along. *)
LEMMA SteadyShrinks ==
  ASSUME DiskInv, TreeChanges \/ UNCHANGED diskVars, NEW t \in Steady'
  PROVE  t \in Steady /\ t \in Nodes /\ entry'[t] = entry[t]
<1>1. t \in Nodes /\ Up[t] \in SUBSET Nodes /\ t \in Up[t]
  BY UpClosed DEF Steady, Above
<1>2. There(t)' /\ \A m \in Up[t] : entry'[m].ino <= Cardinality(Nodes)
  BY DEF Steady
<1>3. \A m \in Up[t] : entry'[m] = entry[m]
  <2>1. CASE UNCHANGED entry
    BY <2>1
  <2>2. ASSUME NEW n \in Nodes, Replace(n) PROVE \A m \in Up[t] : entry'[m] = entry[m]
    <3>1. n \notin Up[t]
      <4>1. SUFFICES ASSUME n \in Up[t] PROVE FALSE
        OBVIOUS
      <4>2. entry'[n].ino <= Cardinality(Nodes) /\ entry'[n].ino > Cardinality(Nodes)
        BY <1>2, <2>2, <4>1, ReplacedIsNew
      <4>3. entry'[n].ino \in Nat
        BY <2>2, ReplaceKeepsDisk DEF DiskInv, Entry, Inodes
      <4> QED BY <4>2, <4>3, NumberOfNodes
    <3> QED BY <1>1, <2>2, <3>1, ReplacedIsNew
  <2> QED BY <2>1, <2>2 DEF TreeChanges, Resize, diskVars
<1> QED BY <1>1, <1>2, <1>3 DEF Steady, There, Resolves

LEMMA TargetSteady ==
  ASSUME DiskInv, TreeChanges \/ UNCHANGED diskVars, NEW t, NamesTarget(t)'
  PROVE  NamesTarget(t) /\ t \in Nodes
BY SteadyShrinks DEF NamesTarget

(* On the way to it are directories. *)
LEMMA OnTheWayThere ==
  ASSUME NEW t \in Steady, NEW c \in Up[t]
  PROVE  c \in Nodes /\ t \in Nodes /\ entry[c].kind # "absent" /\ (c # t => entry[c].kind = "dir")
<1>1. t \in Nodes /\ There(t)
  BY DEF Steady
<1> QED BY <1>1, UpClosed DEF There, Resolves

-----------------------------------------------------------------------------
(* linkscan *)

LEMMA LinkEnterKeeps ==
  ASSUME DiskInv, LinkFrame, LinkAccounted, LinkEnter, UNCHANGED diskVars
  PROVE  LinkFrame' /\ LinkAccounted'
<1>0. pc = "enter" /\ UNCHANGED <<cur, entry>> /\ stack \in Seq(Frame) /\ cur \in Nodes
  BY DEF LinkEnter, diskVars, LinkFrame
<1>1. \A t \in Nodes : NamesTarget(t)' => NamesTarget(t)
  BY TargetSteady
<1>2. \A t : LinkAhead(t) => cur \in Up[t] \/ InStack(t, stack)
  BY <1>0 DEF LinkAhead
<1>3. CASE limited' = TRUE /\ pc' = "done" /\ UNCHANGED stack
  BY <1>0, <1>3 DEF LinkFrame, LinkAccounted
<1>4. CASE Aborts
  BY <1>0, <1>4 DEF Aborts, LinkFrame, LinkAccounted
<1>5. CASE Leave(stack) /\ blind' = blind \cup Below(cur) /\ UNCHANGED <<limited, errors, reported>>
  <2>1. \A t \in Nodes : cur \in Up[t] => t \in blind'
    BY <1>5 DEF Below
  <2> QED BY <1>0, <1>1, <1>2, <1>5, <2>1, Left DEF LinkFrame, LinkAccounted, LinkAhead
<1>6. CASE /\ There(cur) /\ Matches(cur) /\ UNCHANGED <<limited, errors>>
           /\ \/ ~IsDir(cur) /\ Leave(stack) /\ UNCHANGED blind
              \/ Leave(stack) /\ blind' = blind \cup (Below(cur) \ {cur})
              \/ pc' = "open" /\ UNCHANGED <<stack, blind>>
  <2>1. \A t \in Nodes : NamesTarget(t) /\ cur = t => t \in reported'
    BY <1>6 DEF Matches, NamesTarget
  <2>2. \A t \in Nodes : NamesTarget(t) /\ cur \in Up[t] /\ cur # t => entry[cur].kind = "dir"
    BY OnTheWayThere DEF NamesTarget
  <2>3. reported \subseteq reported'
    BY <1>6 DEF Matches
  <2>4. CASE ~IsDir(cur) /\ Leave(stack) /\ UNCHANGED blind
    BY <1>0, <1>1, <1>2, <1>6, <2>1, <2>2, <2>3, <2>4, Left DEF IsDir, LinkFrame, LinkAccounted, LinkAhead
  <2>5. CASE Leave(stack) /\ blind' = blind \cup (Below(cur) \ {cur})
    <3>1. \A t \in Nodes : cur \in Up[t] /\ cur # t => t \in blind'
      BY <2>5 DEF Below
    <3> QED BY <1>0, <1>1, <1>2, <1>6, <2>1, <2>3, <2>5, <3>1, Left DEF LinkFrame, LinkAccounted, LinkAhead
  <2>6. CASE pc' = "open" /\ UNCHANGED <<stack, blind>>
    BY <1>0, <1>1, <1>2, <1>6, <2>1, <2>3, <2>6 DEF LinkFrame, LinkAccounted, LinkAhead
  <2> QED BY <1>6, <2>4, <2>5, <2>6
<1> QED BY <1>3, <1>4, <1>5, <1>6 DEF LinkEnter

LEMMA LinkOpenKeeps ==
  ASSUME DiskInv, LinkFrame, LinkAccounted, LinkOpen, UNCHANGED diskVars
  PROVE  LinkFrame' /\ LinkAccounted'
<1>0. pc = "open" /\ UNCHANGED <<cur, entry, reported>> /\ stack \in Seq(Frame) /\ cur \in Nodes
  BY DEF LinkOpen, diskVars, LinkFrame
<1>1. \A t \in Nodes : NamesTarget(t)' => NamesTarget(t)
  BY TargetSteady
<1>2. \A t : LinkAhead(t) => cur \in Up[t] \ {t} \/ InStack(t, stack)
  BY <1>0 DEF LinkAhead
<1>3. CASE Aborts
  BY <1>0, <1>3 DEF Aborts, LinkFrame, LinkAccounted
<1>4. CASE Leave(stack) /\ blind' = blind \cup (Below(cur) \ {cur}) /\ UNCHANGED <<limited, errors>>
  <2>1. \A t \in Nodes : cur \in Up[t] \ {t} => t \in blind'
    BY <1>4 DEF Below
  <2> QED BY <1>0, <1>1, <1>2, <1>4, <2>1, Left DEF LinkFrame, LinkAccounted, LinkAhead
<1>5. CASE /\ pc' = "list" /\ stack' = Append(stack, [dir |-> cur, listed |-> {}])
           /\ UNCHANGED <<limited, errors, blind>>
  <2>1. [dir |-> cur, listed |-> {}] \in Frame
    BY <1>0 DEF Frame
  <2>2. \A t \in Nodes : cur \in Up[t] \ {t} => InFrame(t, [dir |-> cur, listed |-> {}])
    BY ChildOnTheWay DEF InFrame
  <2>3. stack' \in Seq(Frame) /\ stack' # << >>
    BY <1>0, <1>5, <2>1
  <2>4. LinkAccounted'
    BY <1>0, <1>1, <1>2, <1>5, <2>1, <2>2, Pushed DEF LinkAccounted, LinkAhead
  <2> QED BY <1>0, <1>5, <2>3, <2>4 DEF LinkFrame
<1> QED BY <1>3, <1>4, <1>5 DEF LinkOpen

LEMMA LinkNameKeeps ==
  ASSUME DiskInv, LinkFrame, LinkAccounted, LinkName, UNCHANGED diskVars
  PROVE  LinkFrame' /\ LinkAccounted'
<1>0. /\ pc = "list" /\ stack \in Seq(Frame) /\ stack # << >> /\ cur \in Nodes
      /\ UNCHANGED <<entry, reported, limited, errors>>
  BY DEF LinkName, diskVars, LinkFrame
<1>1. \A t \in Nodes : NamesTarget(t)' => NamesTarget(t)
  BY TargetSteady
<1>2. Pop \in Seq(Frame) /\ Top \in Frame
  BY <1>0, Popped
<1>3. PICK n \in Children(Top.dir) \ Top.listed :
        /\ stack' = Append(Pop, [Top EXCEPT !.listed = @ \cup {n}])
        /\ \/ blind' = blind \cup Below(n) /\ UNCHANGED <<pc, cur>>
           \/ pc' = "enter" /\ cur' = n /\ UNCHANGED blind
  BY DEF LinkName, ThereIn, Marked
<1> DEFINE f == [Top EXCEPT !.listed = @ \cup {n}]
<1>4. n \in Nodes /\ f \in Frame /\ f.dir = Top.dir /\ f.listed = Top.listed \cup {n}
  BY <1>2 DEF Children, Frame
<1>5. stack' = Append(Pop, f)
  BY <1>3
<1> HIDE DEF f
<1>6. stack' \in Seq(Frame) /\ stack' # << >> /\ \A t : InStack(t, stack') <=> InStack(t, Pop) \/ InFrame(t, f)
  <2>1. stack' # << >>
    BY <1>2, <1>5
  <2> QED BY <1>2, <1>4, <1>5, <2>1, Pushed
<1>7. LinkFrame'
  BY <1>0, <1>3, <1>4, <1>6 DEF LinkFrame
<1>8. ASSUME NEW t \in Nodes, LinkAhead(t) PROVE t \in blind' \/ LinkAhead(t)'
  <2>1. InStack(t, Pop) \/ InFrame(t, Top)
    BY <1>0, <1>8, Popped DEF LinkAhead
  <2>2. CASE InStack(t, Pop)
    BY <1>6, <2>2 DEF LinkAhead
  <2>3. CASE InFrame(t, Top)
    <3>1. PICK c \in Children(Top.dir) \ Top.listed : c \in Up[t]
      BY <2>3 DEF InFrame
    <3>2. CASE c # n
      <4>1. InFrame(t, f)
        BY <1>4, <3>1, <3>2 DEF InFrame
      <4> QED BY <1>6, <4>1 DEF LinkAhead
    <3>3. CASE c = n
      BY <1>0, <1>3, <3>1, <3>3 DEF Below, LinkAhead
    <3> QED BY <3>2, <3>3
  <2> QED BY <2>1, <2>2, <2>3
<1>9. blind \subseteq blind'
  BY <1>3
<1> QED BY <1>0, <1>1, <1>7, <1>8, <1>9 DEF LinkAccounted

LEMMA LinkEndKeeps ==
  ASSUME DiskInv, LinkFrame, LinkAccounted, LinkEnd, UNCHANGED diskVars
  PROVE  LinkFrame' /\ LinkAccounted'
<1>0. /\ pc = "list" /\ stack \in Seq(Frame) /\ stack # << >> /\ cur \in Nodes
      /\ UNCHANGED <<cur, entry, reported>>
  BY DEF LinkEnd, diskVars, LinkFrame
<1>1. \A t \in Nodes : NamesTarget(t)' => NamesTarget(t)
  BY TargetSteady
<1>2. Pop \in Seq(Frame)
  BY <1>0, Popped
<1>3. CASE Aborts
  BY <1>0, <1>3 DEF Aborts, LinkFrame, LinkAccounted
<1>4. CASE /\ Leave(Pop) /\ UNCHANGED <<limited, errors>>
           /\ blind' = blind \cup UNION {Below(n) : n \in ThereIn(Top.dir) \ Top.listed}
  <2>1. ASSUME NEW t \in Nodes, NamesTarget(t), InFrame(t, Top) PROVE t \in blind'
    <3>1. PICK c \in Children(Top.dir) \ Top.listed : c \in Up[t]
      BY <2>1 DEF InFrame
    <3>2. c \in ThereIn(Top.dir) \ Top.listed /\ t \in Below(c)
      BY <2>1, <3>1, OnTheWayThere DEF Below, ThereIn, NamesTarget
    <3> QED BY <1>4, <3>2
  <2>2. ASSUME NEW t \in Nodes, NamesTarget(t), LinkAhead(t) PROVE t \in blind' \/ LinkAhead(t)'
    <3>1. InStack(t, Pop) \/ InFrame(t, Top)
      BY <1>0, <2>2, Popped DEF LinkAhead
    <3> QED BY <1>4, <2>1, <2>2, <3>1 DEF LinkAhead, Leave
  <2>3. LinkFrame'
    BY <1>0, <1>2, <1>4, Left DEF LinkFrame
  <2>4. blind \subseteq blind'
    BY <1>4
  <2> QED BY <1>0, <1>1, <1>4, <2>2, <2>3, <2>4 DEF LinkAccounted
<1> QED BY <1>3, <1>4 DEF LinkEnd

-----------------------------------------------------------------------------
(* linkscan.py *)

LEMMA WalkDirKeeps ==
  ASSUME DiskInv, TargetInv, LinkPyFrame, LinkPyAccounted, WalkDir, UNCHANGED diskVars
  PROVE  LinkPyFrame' /\ LinkPyAccounted'
<1>0. pc = "enter" /\ UNCHANGED <<limited, reported, entry>> /\ todo \in Seq(Nodes)
  BY DEF WalkDir, diskVars, LinkPyFrame
<1>1. \A t \in Nodes : NamesTarget(t)' => NamesTarget(t)
  BY TargetSteady
<1>2. CASE todo = << >> /\ pc' = "done" /\ UNCHANGED <<todo, names, blind>>
  BY <1>0, <1>1, <1>2 DEF LinkPyFrame, LinkPyAccounted
<1>3. ASSUME todo # << >>, cur' = Last(todo)
      PROVE  /\ cur' \in Nodes /\ Front(todo) \in Seq(Nodes)
             /\ \A t : InWalk(t, todo) => cur' \in Up[t] \ {t} \/ InWalk(t, Front(todo))
  <2>1. Len(todo) \in Nat \ {0} /\ DOMAIN todo = 1..Len(todo)
    BY <1>0, <1>3
  <2>2. /\ Front(todo) \in Seq(Nodes) /\ Len(Front(todo)) = Len(todo) - 1
        /\ \A i \in 1..(Len(todo) - 1) : Front(todo)[i] = todo[i]
    BY <1>0, <2>1 DEF Front
  <2>3. cur' = todo[Len(todo)] /\ cur' \in Nodes
    BY <1>0, <1>3, <2>1 DEF Last
  <2>4. ASSUME NEW t, NEW i \in DOMAIN todo, todo[i] \in Up[t] \ {t}
        PROVE  cur' \in Up[t] \ {t} \/ InWalk(t, Front(todo))
    <3>1. i = Len(todo) \/ i \in 1..(Len(todo) - 1)
      BY <2>1
    <3>2. DOMAIN Front(todo) = 1..(Len(todo) - 1)
      BY <2>1, <2>2
    <3> QED BY <2>2, <2>3, <2>4, <3>1, <3>2 DEF InWalk
  <2> QED BY <2>2, <2>3, <2>4 DEF InWalk
<1>4. CASE /\ todo # << >> /\ cur' = Last(todo) /\ todo' = Front(todo)
           /\ blind' = blind \cup (Below(cur') \ {cur'}) /\ UNCHANGED <<pc, names>>
  <2>1. \A t \in Nodes : cur' \in Up[t] \ {t} => t \in blind'
    BY <1>4 DEF Below
  <2> QED BY <1>0, <1>1, <1>3, <1>4, <2>1 DEF LinkPyFrame, LinkPyAccounted
<1>5. CASE /\ todo # << >> /\ cur' = Last(todo) /\ pc' = "list" /\ UNCHANGED blind
           /\ \E links \in LinksIn(ThereIn(cur')) : names' = ThereIn(cur') \ links
           /\ \E dirs \in SetToSeqs({n \in ThereIn(cur') : IsDir(n)}) :
                todo' = Front(todo) \o dirs
  <2> DEFINE ds == {n \in ThereIn(cur') : IsDir(n)}
  <2>1. PICK links \in LinksIn(ThereIn(cur')) : names' = ThereIn(cur') \ links
    BY <1>5
  <2>2. PICK dirs \in SetToSeqs(ds) : todo' = Front(todo) \o dirs
    BY <1>5
  <2>3. ds \in SUBSET Nodes
    BY DEF ThereIn, Children
  <2> HIDE DEF ds
  <2>4. dirs \in Seq(Nodes) /\ \A n \in ds : \E i \in DOMAIN dirs : dirs[i] = n
    BY <2>3, KidsAreAll
  <2>5. /\ todo' \in Seq(Nodes)
        /\ \A t : InWalk(t, Front(todo)) \/ InWalk(t, dirs) => InWalk(t, todo')
    <3>1. Front(todo) \in Seq(Nodes)
      BY <1>3, <1>5
    <3>2. /\ todo' \in Seq(Nodes)
          /\ \A i \in DOMAIN Front(todo) : i \in DOMAIN todo' /\ todo'[i] = Front(todo)[i]
          /\ \A i \in DOMAIN dirs : Len(Front(todo)) + i \in DOMAIN todo' /\ todo'[Len(Front(todo)) + i] = dirs[i]
      BY <2>2, <2>4, <3>1
    <3> QED BY <3>2 DEF InWalk
  <2>6. ASSUME NEW t \in Nodes, NamesTarget(t), cur' \in Up[t] \ {t}
        PROVE  t \in names' \/ InWalk(t, dirs)
    <3>1. PICK c \in Children(cur') : c \in Up[t]
      BY <2>6, ChildOnTheWay
    <3>2. entry[c].kind # "absent" /\ (c # t => entry[c].kind = "dir") /\ c \in ThereIn(cur')
      BY <2>6, <3>1, OnTheWayThere DEF NamesTarget, ThereIn
    <3>3. CASE c = t
      <4>1. entry[t].kind # "special"
        BY <2>6 DEF NamesTarget, TargetInv
      <4> QED BY <2>1, <3>2, <3>3, <4>1 DEF LinksIn
    <3>4. CASE c # t
      BY <2>4, <3>1, <3>2, <3>4 DEF ds, IsDir, InWalk
    <3> QED BY <3>3, <3>4
  <2> QED BY <1>0, <1>1, <1>3, <1>5, <2>5, <2>6 DEF LinkPyFrame, LinkPyAccounted
<1> QED BY <1>2, <1>4, <1>5 DEF WalkDir

LEMMA WalkNameKeeps ==
  ASSUME DiskInv, LinkPyFrame, LinkPyAccounted, WalkName, UNCHANGED diskVars
  PROVE  LinkPyFrame' /\ LinkPyAccounted'
<1>0. pc = "list" /\ UNCHANGED <<todo, entry>>
  BY DEF WalkName, diskVars
<1>1. \A t \in Nodes : NamesTarget(t)' => NamesTarget(t)
  BY TargetSteady
<1>2. CASE names = {} /\ pc' = "enter" /\ UNCHANGED <<names, limited, reported, blind>>
  BY <1>0, <1>1, <1>2 DEF LinkPyFrame, LinkPyAccounted
<1>3. CASE \E n \in names :
             /\ names' = names \ {n}
             /\ \/ limited' = TRUE /\ pc' = "done" /\ UNCHANGED <<reported, blind>>
                \/ blind' = blind \cup {n} /\ UNCHANGED <<pc, limited, reported>>
                \/ Matches(n) /\ UNCHANGED <<pc, limited, blind>>
  <2>1. PICK n \in names :
             /\ names' = names \ {n}
             /\ \/ limited' = TRUE /\ pc' = "done" /\ UNCHANGED <<reported, blind>>
                \/ blind' = blind \cup {n} /\ UNCHANGED <<pc, limited, reported>>
                \/ Matches(n) /\ UNCHANGED <<pc, limited, blind>>
    BY <1>3
  <2> QED BY <1>0, <1>1, <2>1 DEF LinkPyFrame, LinkPyAccounted, Matches, NamesTarget
<1> QED BY <1>2, <1>3 DEF WalkName

-----------------------------------------------------------------------------
(* lsx *)

LEMMA AllButLast ==
  ASSUME NEW s \in Seq(Frame), Len(s) > 0
  PROVE  /\ SubSeq(s, 1, Len(s) - 1) \in Seq(Frame) /\ Len(SubSeq(s, 1, Len(s) - 1)) = Len(s) - 1
         /\ \A i \in 1..(Len(s) - 1) : SubSeq(s, 1, Len(s) - 1)[i] = s[i]
<1> DEFINE k == Len(s) - 1
<1>1. k \in Nat /\ k <= Len(s) /\ \A i \in 1..k : s[i] \in Frame
  OBVIOUS
<1> HIDE DEF k
<1>2. /\ SubSeq(s, 1, k) \in Seq(Frame)
      /\ Len(SubSeq(s, 1, k)) = IF 1 <= k THEN k - 1 + 1 ELSE 0
      /\ \A i \in 1..(k - 1 + 1) : SubSeq(s, 1, k)[i] = s[1 + i - 1]
  BY <1>1, SubSeqProperties
<1>3. Len(SubSeq(s, 1, k)) = k
  BY <1>1, <1>2
<1>4. \A i \in 1..k : SubSeq(s, 1, k)[i] = s[i]
  <2>1. k - 1 + 1 = k /\ \A i \in 1..k : 1 + i - 1 = i
    BY <1>1
  <2> QED BY <1>2, <2>1
<1> QED BY <1>2, <1>3, <1>4 DEF k

LEMMA MarkedStack ==
  ASSUME stack \in Seq(Frame), stack # << >>, NEW n \in Nodes
  PROVE  /\ Marked(n) \in Seq(Frame) /\ Len(Marked(n)) = Len(stack) /\ Marked(n)[1].dir = stack[1].dir
         /\ Len(stack) = 1 => Marked(n)[1].listed = stack[1].listed \cup {n}
         /\ Len(stack) > 1 => Marked(n)[1] = stack[1]
<1>1. Len(stack) \in Nat \ {0} /\ Top = stack[Len(stack)] /\ Top \in Frame
  BY DEF Top
<1>2. /\ Pop \in Seq(Frame) /\ Len(Pop) = Len(stack) - 1
      /\ \A i \in 1..(Len(stack) - 1) : Pop[i] = stack[i]
  <2>1. Len(stack) > 0
    BY <1>1
  <2> QED BY <2>1, AllButLast DEF Pop
<1> DEFINE f == [Top EXCEPT !.listed = @ \cup {n}]
<1>3. f \in Frame /\ f.dir = Top.dir /\ f.listed = Top.listed \cup {n}
  BY <1>1 DEF Frame
<1>4. Marked(n) = Append(Pop, f)
  BY DEF Marked
<1> HIDE DEF f
<1>5. /\ Append(Pop, f) \in Seq(Frame) /\ Len(Append(Pop, f)) = Len(stack)
      /\ Append(Pop, f)[Len(stack)] = f
      /\ \A i \in 1..(Len(stack) - 1) : Append(Pop, f)[i] = stack[i]
  BY <1>1, <1>2, <1>3
<1> QED BY <1>1, <1>3, <1>4, <1>5

LEMMA PoppedStack ==
  ASSUME stack \in Seq(Frame), Len(stack) > 1
  PROVE  Pop \in Seq(Frame) /\ Pop # << >> /\ Len(Pop) = Len(stack) - 1 /\ Pop[1] = stack[1]
<1>1. Len(stack) \in Nat
  OBVIOUS
<1>2. /\ Pop \in Seq(Frame) /\ Len(Pop) = Len(stack) - 1
      /\ \A i \in 1..(Len(stack) - 1) : Pop[i] = stack[i]
  BY <1>1 DEF Pop
<1> QED BY <1>1, <1>2

(* What is left of PATH to look at. *)
Waits(n) ==
  \/ pc \in {"open", "list"} /\ n \notin stack[1].listed
  \/ Measured /\ row.name = n

(* A size is known, and the walk returns to a directory of the same PATH. *)
LEMMA SizeKeeps ==
  ASSUME NEW r \in Row, NEW dirs \in Seq(Frame), dirs # << >>, SizeIs(r, dirs)
  PROVE  /\ pc' = "list" /\ stack' = dirs /\ cur' = cur /\ row' = r
         /\ \A n : Named(n) => Named(n)'
         /\ Named(r.name)' \/ Waits(r.name)'
<1>1. Len(dirs) = 1 \/ Len(dirs) > 1
  <2>1. \A k \in Nat : k # 0 => k = 1 \/ k > 1
    OBVIOUS
  <2>2. Len(dirs) \in Nat /\ Len(dirs) # 0
    OBVIOUS
  <2> QED BY ONLY <2>1, <2>2
<1>2. pc' = "list" /\ stack' = dirs /\ cur' = cur /\ row' = r /\ rows \subseteq rows'
  BY DEF SizeIs
<1>3. CASE Len(dirs) = 1
  <2>1. r \in rows'
    BY <1>3 DEF SizeIs
  <2> QED BY <1>2, <2>1 DEF Named
<1>4. CASE Len(dirs) > 1
  <2>1. Waits(r.name)'
    BY <1>2, <1>4 DEF Waits, Measured
  <2> QED BY <1>2, <2>1 DEF Named
<1> QED BY <1>1, <1>3, <1>4

LEMMA MeasureKeeps ==
  ASSUME DiskInv, NEW m \in Nodes, NEW r \in Row, NEW dirs \in Seq(Frame), dirs # << >>,
         cur \in Nodes, Measure(m, r, dirs)
  PROVE  /\ pc' \in {"open", "list"} /\ stack' = dirs /\ cur' \in Nodes /\ row' \in Row
         /\ \A n : Named(n) => Named(n)'
         /\ Named(r.name)' \/ Waits(r.name)'
<1>1. CASE SizeIs([r EXCEPT !.size = @ + SizeOf(m)], dirs)
  <2>1. SizeOf(m) \in Nat
    BY ScanAssumption DEF SizeOf, DiskInv, Entry, Inode
  <2>2. [r EXCEPT !.size = @ + SizeOf(m)] \in Row /\ [r EXCEPT !.size = @ + SizeOf(m)].name = r.name
    BY <2>1 DEF Row
  <2> QED BY <1>1, <2>2, SizeKeeps
<1>2. CASE pc' = "open" /\ cur' = m /\ row' = r /\ stack' = dirs /\ UNCHANGED rows
  BY <1>2 DEF Named, Waits, Measured
<1> QED BY <1>1, <1>2 DEF Measure

LEMMA LsxStartKeeps ==
  ASSUME DiskInv, LsxFrame, LsxAccounted, LsxStart, UNCHANGED diskVars
  PROVE  LsxFrame' /\ LsxAccounted'
<1>1. CASE pc' = "list" /\ stack' = <<[dir |-> Root, listed |-> {}]>> /\ UNCHANGED <<cur, row>>
  <2>1. [dir |-> Root, listed |-> {}] \in Frame
    BY ScanAssumption DEF Frame
  <2>2. stack' \in Seq(Frame) /\ stack' # << >> /\ stack'[1] = [dir |-> Root, listed |-> {}]
    BY <1>1, <2>1
  <2> QED BY <1>1, <2>2 DEF LsxFrame, LsxAccounted
<1>2. CASE pc' = "done" /\ errors' = TRUE /\ UNCHANGED <<cur, row, stack>>
  BY <1>2 DEF LsxFrame, LsxAccounted
<1> QED BY <1>1, <1>2 DEF LsxStart

LEMMA SteadyKept ==
  ASSUME DiskInv, UNCHANGED diskVars PROVE Steady' = Steady
BY DEF Steady, There, Resolves, diskVars

LEMMA LsxRowKeeps ==
  ASSUME DiskInv, LsxFrame, LsxAccounted, LsxRow, UNCHANGED diskVars
  PROVE  LsxFrame' /\ LsxAccounted'
<1>0. /\ pc = "list" /\ stack \in Seq(Frame) /\ stack # << >> /\ Len(stack) = 1 /\ cur \in Nodes
      /\ row \in Row /\ stack[1].dir = Root
  BY DEF LsxRow, LsxFrame
<1>1. Steady' = Steady
  BY SteadyKept
<1>2. PICK n \in ThereIn(Root) \ Top.listed :
       \/ errors' = TRUE /\ pc' = "done" /\ UNCHANGED <<cur, stack, row, rows>>
       \/ errors' = TRUE /\ stack' = Marked(n) /\ UNCHANGED <<pc, cur, row, rows>>
       \/ /\ Measure(n, [name |-> n, size |-> 0, star |-> FALSE, seen |-> {}], Marked(n))
          /\ UNCHANGED errors
  BY DEF LsxRow
<1>3. n \in Nodes
  BY DEF ThereIn, Children
<1>4. /\ Marked(n) \in Seq(Frame) /\ Marked(n) # << >> /\ Marked(n)[1].dir = Root
      /\ Marked(n)[1].listed = stack[1].listed \cup {n}
  BY <1>0, <1>3, MarkedStack
<1>5. CASE errors' = TRUE /\ pc' = "done" /\ UNCHANGED <<cur, stack, row, rows>>
  BY <1>0, <1>5 DEF LsxFrame, LsxAccounted
<1>6. CASE errors' = TRUE /\ stack' = Marked(n) /\ UNCHANGED <<pc, cur, row, rows>>
  BY <1>0, <1>4, <1>6 DEF LsxFrame, LsxAccounted
<1>7. CASE /\ Measure(n, [name |-> n, size |-> 0, star |-> FALSE, seen |-> {}], Marked(n))
           /\ UNCHANGED errors
  <2> DEFINE r == [name |-> n, size |-> 0, star |-> FALSE, seen |-> {}]
  <2>1. r \in Row /\ r.name = n
    BY <1>3 DEF Row
  <2> HIDE DEF r
  <2>2. Measure(n, r, Marked(n))
    BY <1>7 DEF r
  <2>3. /\ pc' \in {"open", "list"} /\ stack' = Marked(n) /\ cur' \in Nodes /\ row' \in Row
        /\ \A m : Named(m) => Named(m)'
        /\ Named(r.name)' \/ Waits(r.name)'
    BY <1>0, <1>3, <1>4, <2>1, <2>2, MeasureKeeps
  <2>4. LsxFrame'
    BY <1>4, <2>3 DEF LsxFrame
  <2>5. Named(n)' \/ Waits(n)'
    BY <2>1, <2>3
  <2>6. ASSUME NEW m \in Children(Root) \cap Steady PROVE errors' \/ Named(m)' \/ Waits(m)'
    <3>1. errors \/ Named(m) \/ m \notin stack[1].listed
      BY <1>0 DEF LsxAccounted, Measured
    <3>2. m \notin stack[1].listed /\ m # n => Waits(m)'
      BY <1>4, <2>3 DEF Waits
    <3> QED BY <1>7, <2>3, <2>5, <3>1, <3>2
  <2> QED BY <1>1, <2>4, <2>6 DEF LsxAccounted, Waits
<1> QED BY <1>2, <1>5, <1>6, <1>7

(* Below PATH, the row at hand stays at hand until it is complete. *)
LEMMA LsxReturns ==
  ASSUME DiskInv, LsxFrame, LsxAccounted, UNCHANGED <<diskVars, errors>>, Measured,
         NEW r \in Row, r.name = row.name, NEW dirs \in Seq(Frame), dirs # << >>, dirs[1] = stack[1],
         pc' \in {"open", "list"}, stack' = dirs, cur' \in Nodes, row' \in Row,
         \A n : Named(n) => Named(n)', Named(r.name)' \/ Waits(r.name)'
  PROVE  LsxFrame' /\ LsxAccounted'
<1>1. pc \in {"open", "list"} /\ Steady' = Steady /\ stack[1].dir = Root
  BY SteadyKept DEF Measured, LsxFrame
<1>2. LsxFrame'
  BY <1>1 DEF LsxFrame
<1>3. ASSUME NEW n \in Children(Root) \cap Steady PROVE errors' \/ Named(n)' \/ Waits(n)'
  <2>1. errors \/ Named(n) \/ n \notin stack[1].listed \/ n = r.name
    BY <1>1 DEF LsxAccounted
  <2>2. n \notin stack[1].listed => Waits(n)'
    BY DEF Waits
  <2> QED BY <2>1, <2>2
<1> QED BY <1>1, <1>2, <1>3 DEF LsxAccounted, Waits

LEMMA LsxOpenKeeps ==
  ASSUME DiskInv, LsxFrame, LsxAccounted, LsxOpen, UNCHANGED diskVars
  PROVE  LsxFrame' /\ LsxAccounted'
<1>0. /\ pc = "open" /\ Measured /\ stack \in Seq(Frame) /\ stack # << >> /\ cur \in Nodes
      /\ row \in Row /\ UNCHANGED errors
  BY DEF LsxOpen, LsxFrame, Measured
<1>1. CASE pc' = "list" /\ stack' = Append(stack, [dir |-> cur, listed |-> {}]) /\ UNCHANGED <<cur, row, rows>>
  <2>1. [dir |-> cur, listed |-> {}] \in Frame
    BY <1>0 DEF Frame
  <2>2. stack' \in Seq(Frame) /\ stack' # << >> /\ stack'[1] = stack[1] /\ Len(stack') > 1
    <3>1. Len(stack) \in Nat /\ Len(stack) >= 1
      BY <1>0
    <3> QED BY <1>0, <1>1, <2>1, <3>1
  <2>3. Waits(row.name)'
    BY <1>1, <2>2 DEF Waits, Measured
  <2>4. \A n : Named(n) => Named(n)'
    BY <1>1 DEF Named
  <2> QED BY <1>0, <1>1, <2>2, <2>3, <2>4, LsxReturns
<1>2. CASE SizeIs(Starred(row), stack)
  <2>0. Starred(row) \in Row /\ Starred(row).name = row.name
    BY <1>0 DEF Starred, Row
  <2>1. PICK r \in Row : r = Starred(row) /\ r.name = row.name
    BY <2>0
  <2>2. /\ pc' = "list" /\ stack' = stack /\ cur' = cur /\ row' = r
        /\ \A n : Named(n) => Named(n)'
        /\ Named(r.name)' \/ Waits(r.name)'
    BY <1>0, <1>2, <2>1, SizeKeeps
  <2> QED BY <1>0, <2>1, <2>2, LsxReturns
<1> QED BY <1>1, <1>2 DEF LsxOpen

LEMMA LsxChildKeeps ==
  ASSUME DiskInv, LsxFrame, LsxAccounted, LsxChild, UNCHANGED diskVars
  PROVE  LsxFrame' /\ LsxAccounted'
<1>0. /\ pc = "list" /\ Len(stack) > 1 /\ Measured /\ stack \in Seq(Frame) /\ stack # << >>
      /\ cur \in Nodes /\ row \in Row /\ UNCHANGED errors
  BY DEF LsxChild, LsxFrame, Measured
<1> DEFINE s(n) == [row EXCEPT !.seen = @ \cup {n}]
<1>1. PICK n \in ThereIn(Top.dir) \ Top.listed :
        \/ SizeIs(Starred(s(n)), Pop)
        \/ SizeIs(Starred(s(n)), Marked(n))
        \/ Measure(n, s(n), Marked(n))
  BY DEF LsxChild
<1>2. n \in Nodes
  BY DEF ThereIn, Children
<1>3. s(n) \in Row /\ s(n).name = row.name /\ Starred(s(n)) \in Row /\ Starred(s(n)).name = row.name
  BY <1>0, <1>2 DEF Row, Starred
<1>4. PICK r \in Row : r = s(n) /\ r.name = row.name
  BY <1>3
<1>5. PICK starred \in Row : starred = Starred(s(n)) /\ starred.name = row.name
  BY <1>3
<1> HIDE DEF s
<1>6. Pop \in Seq(Frame) /\ Pop # << >> /\ Pop[1] = stack[1]
  BY <1>0, PoppedStack
<1>7. Marked(n) \in Seq(Frame) /\ Marked(n) # << >> /\ Marked(n)[1] = stack[1]
  BY <1>0, <1>2, MarkedStack
<1>8. ASSUME NEW dirs \in {Pop, Marked(n)}, SizeIs(starred, dirs) PROVE LsxFrame' /\ LsxAccounted'
  <2>1. dirs \in Seq(Frame) /\ dirs # << >> /\ dirs[1] = stack[1]
    BY <1>6, <1>7, <1>8
  <2>2. /\ pc' = "list" /\ stack' = dirs /\ cur' = cur /\ row' = starred
        /\ \A m : Named(m) => Named(m)'
        /\ Named(starred.name)' \/ Waits(starred.name)'
    BY <1>8, <2>1, SizeKeeps
  <2> QED BY <1>0, <1>5, <2>1, <2>2, LsxReturns
<1>9. CASE Measure(n, r, Marked(n))
  <2>1. PICK dirs \in Seq(Frame) : dirs = Marked(n)
    BY <1>7
  <2>2. /\ pc' \in {"open", "list"} /\ stack' = dirs /\ cur' \in Nodes /\ row' \in Row
        /\ \A m : Named(m) => Named(m)'
        /\ Named(r.name)' \/ Waits(r.name)'
    BY <1>0, <1>2, <1>7, <1>9, <2>1, MeasureKeeps
  <2> QED BY <1>0, <1>4, <1>7, <2>1, <2>2, LsxReturns
<1> QED BY <1>1, <1>4, <1>5, <1>8, <1>9

LEMMA LsxEndKeeps ==
  ASSUME DiskInv, LsxFrame, LsxAccounted, LsxEnd, UNCHANGED diskVars
  PROVE  LsxFrame' /\ LsxAccounted'
<1>0. pc = "list" /\ stack \in Seq(Frame) /\ stack # << >> /\ cur \in Nodes /\ row \in Row
  BY DEF LsxEnd, LsxFrame
<1>1. PICK starred \in Row : starred = Starred(row) /\ starred.name = row.name
  <2>1. Starred(row) \in Row /\ Starred(row).name = row.name
    BY <1>0 DEF Starred, Row
  <2> QED BY <2>1
<1>2. PICK same \in Row : same = row
  BY <1>0
<1>3. ASSUME Len(stack) > 1, UNCHANGED errors, NEW r \in Row, r.name = row.name, SizeIs(r, Pop)
      PROVE  LsxFrame' /\ LsxAccounted'
  <2>1. Pop \in Seq(Frame) /\ Pop # << >> /\ Pop[1] = stack[1] /\ Measured
    BY <1>0, <1>3, PoppedStack DEF Measured
  <2>2. PICK dirs \in Seq(Frame) : dirs = Pop
    BY <2>1
  <2>3. /\ pc' = "list" /\ stack' = dirs /\ cur' = cur /\ row' = r
        /\ \A m : Named(m) => Named(m)'
        /\ Named(r.name)' \/ Waits(r.name)'
    BY <1>3, <2>1, <2>2, SizeKeeps
  <2> QED BY <1>0, <1>3, <2>1, <2>2, <2>3, LsxReturns
<1>4. CASE /\ Len(stack) = 1 /\ pc' = "done" /\ UNCHANGED <<cur, stack, row, rows>>
           /\ (AllListed /\ UNCHANGED errors) \/ errors' = TRUE
  <2>1. LsxFrame'
    BY <1>0, <1>4 DEF LsxFrame
  <2>2. CASE errors' = TRUE
    BY <2>1, <2>2 DEF LsxAccounted
  <2>3. CASE AllListed /\ UNCHANGED errors
    <3>1. Top = stack[1] /\ Top.dir = Root
      BY <1>0, <1>4 DEF Top, LsxFrame
    <3>2. ASSUME NEW n \in Children(Root) \cap Steady PROVE n \in stack[1].listed
      <4>1. n \in ThereIn(Top.dir)
        BY <3>1 DEF ThereIn, Steady, There
      <4> QED BY <2>3, <3>1, <4>1 DEF AllListed
    <3>3. \A n \in Children(Root) \cap Steady : errors \/ Named(n)
      BY <1>0, <1>4, <3>2 DEF LsxAccounted, Measured
    <3>4. Steady' = Steady /\ \A n : Named(n) => Named(n)'
      BY <1>4, SteadyKept DEF Named
    <3> QED BY <2>1, <2>3, <3>3, <3>4 DEF LsxAccounted
  <2> QED BY <1>4, <2>2, <2>3
<1> QED BY <1>1, <1>2, <1>3, <1>4 DEF LsxEnd

-----------------------------------------------------------------------------
(* lsx.py *)

LEMMA PyRowsStartKeeps ==
  ASSUME DiskInv, LsxPyAccounted, PyRowsStart, UNCHANGED diskVars
  PROVE  LsxPyAccounted'
<1>1. Steady' = Steady
  BY SteadyKept
<1>2. ThereIn(Root) \subseteq Nodes /\ \A n \in Children(Root) \cap Steady : n \in ThereIn(Root)
  BY DEF Steady, There, ThereIn, Children
<1> QED BY <1>1, <1>2 DEF PyRowsStart, LsxPyAccounted

LEMMA PyRowKeeps ==
  ASSUME DiskInv, LsxPyAccounted, PyRow, UNCHANGED diskVars
  PROVE  LsxPyAccounted'
<1>0. pc = "list" /\ Steady' = Steady /\ UNCHANGED <<limited, rows>> /\ \A n : Named(n) => Named(n)'
  BY SteadyKept DEF PyRow, Named
<1>1. CASE names = {} /\ pc' = "done" /\ UNCHANGED <<names, todo, row, errors>>
  BY <1>0, <1>1 DEF LsxPyAccounted
<1>2. CASE \E n \in names : /\ names' = names \ {n} /\ errors' = TRUE /\ pc' = "done"
                            /\ UNCHANGED <<todo, row>>
  BY <1>0, <1>2 DEF LsxPyAccounted
<1>3. CASE \E n \in names :
             /\ names' = names \ {n} /\ pc' = "enter row" /\ todo' = <<n>> /\ UNCHANGED errors
             /\ row' = [name |-> n, size |-> 0, star |-> FALSE, seen |-> {}]
  <2>1. PICK n \in names :
             /\ names' = names \ {n} /\ pc' = "enter row" /\ todo' = <<n>> /\ UNCHANGED errors
             /\ row' = [name |-> n, size |-> 0, star |-> FALSE, seen |-> {}]
    BY <1>3
  <2>2. n \in Nodes /\ names' \subseteq Nodes
    BY <2>1 DEF LsxPyAccounted
  <2>3. row' \in Row /\ row'.name = n
    BY <2>1, <2>2 DEF Row
  <2>4. todo' \in Seq(Nodes)
    <3>1. <<n>> \in Seq(Nodes)
      BY <2>2
    <3> QED BY <2>1, <3>1
  <2> QED BY <1>0, <2>1, <2>2, <2>3, <2>4 DEF LsxPyAccounted
<1> QED BY <1>1, <1>2, <1>3 DEF PyRow

LEMMA PySizeKeeps ==
  ASSUME DiskInv, LsxPyAccounted, PySize, UNCHANGED diskVars
  PROVE  LsxPyAccounted'
<1>0. /\ pc = "enter row" /\ Steady' = Steady /\ UNCHANGED <<names, errors>>
      /\ row \in Row /\ todo \in Seq(Nodes)
  BY SteadyKept DEF PySize, LsxPyAccounted
<1>1. CASE rows' = rows \cup {row} /\ pc' = "list" /\ UNCHANGED <<todo, row, limited>>
  BY <1>0, <1>1 DEF LsxPyAccounted, Named
<1>2. CASE todo # << >> /\ cur' = Last(todo) /\ todo' = Front(todo) /\ UNCHANGED rows
  <2>1. cur' \in Nodes /\ todo' \in Seq(Nodes)
    BY <1>0, <1>2, LastTaken
  <2>2. row' \in Row /\ row'.name = row.name
    <3>1. entry[cur'].ino \in Inodes /\ SizeOf(cur') \in Nat
      <4>1. PICK c \in Nodes : c = cur'
        BY <2>1
      <4>2. entry[c].ino \in Inodes /\ SizeOf(c) \in Nat
        BY ScanAssumption DEF SizeOf, DiskInv, Entry, Inode
      <4> QED BY <4>1, <4>2
    <3>2. CASE UNCHANGED row
      BY <1>0, <3>2
    <3>3. CASE row' = [row EXCEPT !.seen = @ \cup {entry[cur'].ino}, !.size = @ + SizeOf(cur')]
      <4>1. PICK i \in Inodes, k \in Nat : i = entry[cur'].ino /\ k = SizeOf(cur')
        BY <3>1
      <4>2. row' = [row EXCEPT !.seen = @ \cup {i}, !.size = @ + k]
        BY <3>3, <4>1
      <4> DEFINE r == [row EXCEPT !.seen = @ \cup {i}]
      <4>3. r \in Row /\ r.name = row.name
        BY <1>0 DEF Row
      <4>4. row' = [r EXCEPT !.size = @ + k]
        BY <1>0, <4>2 DEF Row
      <4> HIDE DEF r
      <4> QED BY <4>3, <4>4 DEF Row
    <3> QED BY <1>2, <3>2, <3>3 DEF PySize
  <2>3. \/ pc' \in {"enter row", "open row"} /\ limited' = limited
        \/ pc' = "done" /\ limited' = TRUE
    <3>1. \/ UNCHANGED <<pc, limited>>
          \/ limited' = TRUE /\ pc' = "done"
          \/ pc' = "open row" /\ UNCHANGED limited
      BY <1>2 DEF PySize
    <3> QED BY <1>0, <3>1
  <2>4. \A n : Named(n) => Named(n)'
    BY <1>2 DEF Named
  <2>5. CASE pc' \in {"enter row", "open row"} /\ limited' = limited
    BY <1>0, <2>1, <2>2, <2>4, <2>5 DEF LsxPyAccounted
  <2>6. CASE pc' = "done" /\ limited' = TRUE
    BY <1>0, <2>1, <2>2, <2>6 DEF LsxPyAccounted
  <2> QED BY <2>3, <2>5, <2>6
<1> QED BY <1>1, <1>2 DEF PySize

LEMMA PySizeOpenKeeps ==
  ASSUME DiskInv, LsxPyAccounted, PySizeOpen, UNCHANGED diskVars
  PROVE  LsxPyAccounted'
<1>0. /\ pc = "open row" /\ Steady' = Steady /\ UNCHANGED <<names, row, rows, errors>>
      /\ row \in Row /\ todo \in Seq(Nodes)
  BY SteadyKept DEF PySizeOpen, LsxPyAccounted
<1>1. PICK some \in SUBSET ThereIn(cur) : \E links \in LinksIn(some) :
        \/ limited' = TRUE /\ pc' = "done" /\ UNCHANGED todo
        \/ /\ \E kids \in SetToSeqs(some \ links) : todo' = todo \o kids
           /\ pc' = "enter row" /\ UNCHANGED limited
  BY DEF PySizeOpen
<1>2. \A links : some \ links \in SUBSET Nodes
  BY <1>1 DEF ThereIn, Children
<1>3. CASE limited' = TRUE /\ pc' = "done" /\ UNCHANGED todo
  BY <1>0, <1>3 DEF LsxPyAccounted, Named
<1>4. CASE /\ \E links : \E kids \in SetToSeqs(some \ links) : todo' = todo \o kids
           /\ pc' = "enter row" /\ UNCHANGED limited
  <2>1. PICK links : \E kids \in SetToSeqs(some \ links) : todo' = todo \o kids
    BY <1>4
  <2>2. PICK kids \in SetToSeqs(some \ links) : todo' = todo \o kids
    BY <2>1
  <2>3. kids \in Seq(Nodes)
    BY <1>2, KidsAreAll
  <2>4. todo' \in Seq(Nodes)
    BY <1>0, <2>2, <2>3, Joined
  <2> QED BY <1>0, <1>4, <2>4 DEF LsxPyAccounted, Named
<1> QED BY <1>1, <1>3, <1>4

-----------------------------------------------------------------------------

LEMMA ListInit == WalkInit => ListInv
<1> SUFFICES ASSUME WalkInit PROVE ListInv
  OBVIOUS
<1>1. Init /\ todo = <<Root>> /\ row = [name |-> Root, size |-> 0, star |-> FALSE, seen |-> {}] /\ names = {}
  BY DEF WalkInit
<1>2. DiskInv /\ TargetInv /\ pc = "enter" /\ cur = Root /\ stack = << >> /\ Root \in Nodes
  BY <1>1, DiskInit, TargetInit, ScanAssumption DEF Init
<1>3. row \in Row /\ todo \in Seq(Nodes)
  <2>1. row \in Row
    BY <1>1, <1>2 DEF Row
  <2>2. <<Root>> \in Seq(Nodes)
    BY <1>2
  <2> QED BY <1>1, <2>1, <2>2
<1>4. LsxFrame /\ LsxAccounted /\ LsxPyAccounted /\ LinkFrame /\ LinkPyFrame
  BY <1>1, <1>2, <1>3 DEF LsxFrame, LsxAccounted, LsxPyAccounted, LinkFrame, LinkPyFrame
<1>5. LinkAccounted
  BY <1>2, TreeAssumption DEF LinkAccounted, LinkAhead
<1>6. ASSUME Root \notin Twins, NEW t \in Nodes, NamesTarget(t) PROVE InWalk(t, todo)
  <2>1. t # Root /\ Root \in Up[t]
    BY <1>2, <1>6, TreeAssumption DEF NamesTarget, TargetInv
  <2>2. 1 \in DOMAIN todo /\ todo[1] = Root
    BY <1>1
  <2> QED BY <2>1, <2>2 DEF InWalk
<1> QED BY <1>2, <1>4, <1>5, <1>6 DEF ListInv, LinkPyAccounted

(* A change of the tree takes nothing from what a walk has yet to look at. *)
LEMMA ListsTreeKeeps ==
  ASSUME DiskInv, TreeChanges
  PROVE  /\ LsxFrame /\ LsxAccounted => LsxFrame' /\ LsxAccounted'
         /\ LsxPyAccounted => LsxPyAccounted'
         /\ LinkFrame /\ LinkAccounted => LinkFrame' /\ LinkAccounted'
         /\ LinkPyFrame /\ LinkPyAccounted => LinkPyFrame' /\ LinkPyAccounted'
<1>1. /\ UNCHANGED <<todo, names, row, rows>>
      /\ UNCHANGED <<pc, cur, stack, errors, limited, reported, blind>>
  BY DEF TreeChanges, Resize, Replace, Change, scanVars, countVars, ghostVars
<1>2. Steady' \subseteq Steady
  BY SteadyShrinks
<1>3. \A t \in Nodes : NamesTarget(t)' => NamesTarget(t)
  BY TargetSteady
<1>4. \A n : Named(n)' <=> Named(n)
  BY <1>1 DEF Named
<1>5. LsxFrame /\ LsxAccounted => LsxFrame' /\ LsxAccounted'
  BY <1>1, <1>2, <1>4 DEF LsxFrame, LsxAccounted, Measured
<1>6. LsxPyAccounted => LsxPyAccounted'
  BY <1>1, <1>2, <1>4 DEF LsxPyAccounted
<1>7. LinkFrame /\ LinkAccounted => LinkFrame' /\ LinkAccounted'
  BY <1>1, <1>3 DEF LinkFrame, LinkAccounted, LinkAhead
<1>8. LinkPyFrame /\ LinkPyAccounted => LinkPyFrame' /\ LinkPyAccounted'
  BY <1>1, <1>3 DEF LinkPyFrame, LinkPyAccounted
<1> QED BY <1>5, <1>6, <1>7, <1>8

(* Nor does a step that changes nothing of the walk. *)
LEMMA ListsStutter ==
  ASSUME DiskInv, UNCHANGED <<vars, walkVars>>
  PROVE  /\ LsxFrame /\ LsxAccounted => LsxFrame' /\ LsxAccounted'
         /\ LsxPyAccounted => LsxPyAccounted'
         /\ LinkFrame /\ LinkAccounted => LinkFrame' /\ LinkAccounted'
         /\ LinkPyFrame /\ LinkPyAccounted => LinkPyFrame' /\ LinkPyAccounted'
<1>1. UNCHANGED <<todo, names, row, rows>> /\ UNCHANGED <<pc, cur, stack, errors, limited, reported, blind, entry>>
  BY DEF vars, walkVars, scanVars, countVars, ghostVars, diskVars
<1>2. Steady' = Steady
  BY SteadyKept DEF vars
<1>3. \A t \in Nodes : NamesTarget(t)' => NamesTarget(t)
  BY <1>1, <1>2 DEF NamesTarget
<1>4. \A n : Named(n)' <=> Named(n)
  BY <1>1 DEF Named
<1>5. LsxFrame /\ LsxAccounted => LsxFrame' /\ LsxAccounted'
  BY <1>1, <1>2, <1>4 DEF LsxFrame, LsxAccounted, Measured
<1>6. LsxPyAccounted => LsxPyAccounted'
  BY <1>1, <1>2, <1>4 DEF LsxPyAccounted
<1>7. LinkFrame /\ LinkAccounted => LinkFrame' /\ LinkAccounted'
  BY <1>1, <1>3 DEF LinkFrame, LinkAccounted, LinkAhead
<1>8. LinkPyFrame /\ LinkPyAccounted => LinkPyFrame' /\ LinkPyAccounted'
  BY <1>1, <1>3 DEF LinkPyFrame, LinkPyAccounted
<1> QED BY <1>5, <1>6, <1>7, <1>8

LEMMA ListNext == ListInv /\ [WalkNext]_<<vars, walkVars>> => ListInv'
<1> SUFFICES ASSUME ListInv, [WalkNext]_<<vars, walkVars>> PROVE ListInv'
  OBVIOUS
<1>1. DiskInv /\ TargetInv
  BY DEF ListInv
<1>2. UNCHANGED walker
  BY DEF WalkNext, TreeChanges, walkVars
<1>3. TreeChanges \/ UNCHANGED diskVars
  BY DEF WalkNext, CScanner, Scanner, Enter, Open, ReadFile, ReadEnd, Finish, ListEntry, ListEnd, vars
<1>4. DiskInv' /\ TargetInv'
  <2>1. CASE TreeChanges
    BY <1>1, <2>1, ResizeKeepsDisk, ReplaceKeepsDisk, TargetKept DEF TreeChanges
  <2> QED BY <1>1, <1>3, <2>1, ScannerKeepsDisk, TargetKept
<1>5. \/ TreeChanges
      \/ ListersAndSearches /\ UNCHANGED diskVars
      \/ UNCHANGED <<vars, walkVars>>
      \/ walker \in Scanners
  BY DEF WalkNext, CScanner, PyScanner, Scanners
<1>6. walker = "lsx" => LsxFrame' /\ LsxAccounted'
  <2> SUFFICES ASSUME walker = "lsx" PROVE LsxFrame' /\ LsxAccounted'
    OBVIOUS
  <2>1. LsxFrame /\ LsxAccounted
    BY DEF ListInv
  <2>2. CASE ListersAndSearches /\ UNCHANGED diskVars
    <3>1. LsxStart \/ LsxRow \/ LsxOpen \/ LsxChild \/ LsxEnd
      BY <2>2 DEF ListersAndSearches, Lsx, LsxPy, Linkscan, LinkscanPy
    <3> QED BY <1>1, <2>1, <2>2, <3>1, LsxStartKeeps, LsxRowKeeps, LsxOpenKeeps, LsxChildKeeps, LsxEndKeeps
  <2> QED BY <1>1, <1>5, <2>1, <2>2, ListsTreeKeeps, ListsStutter DEF Scanners
<1>7. walker = "lsx.py" => LsxPyAccounted'
  <2> SUFFICES ASSUME walker = "lsx.py" PROVE LsxPyAccounted'
    OBVIOUS
  <2>1. LsxPyAccounted
    BY DEF ListInv
  <2>2. CASE ListersAndSearches /\ UNCHANGED diskVars
    <3>1. PyRowsStart \/ PyRow \/ PySize \/ PySizeOpen
      BY <2>2 DEF ListersAndSearches, Lsx, LsxPy, Linkscan, LinkscanPy
    <3> QED BY <1>1, <2>1, <2>2, <3>1, PyRowsStartKeeps, PyRowKeeps, PySizeKeeps, PySizeOpenKeeps
  <2> QED BY <1>1, <1>5, <2>1, <2>2, ListsTreeKeeps, ListsStutter DEF Scanners
<1>8. walker = "linkscan" => LinkFrame' /\ LinkAccounted'
  <2> SUFFICES ASSUME walker = "linkscan" PROVE LinkFrame' /\ LinkAccounted'
    OBVIOUS
  <2>1. LinkFrame /\ LinkAccounted
    BY DEF ListInv
  <2>2. CASE ListersAndSearches /\ UNCHANGED diskVars
    <3>1. LinkEnter \/ LinkOpen \/ LinkName \/ LinkEnd
      BY <2>2 DEF ListersAndSearches, Lsx, LsxPy, Linkscan, LinkscanPy
    <3> QED BY <1>1, <2>1, <2>2, <3>1, LinkEnterKeeps, LinkOpenKeeps, LinkNameKeeps, LinkEndKeeps
  <2> QED BY <1>1, <1>5, <2>1, <2>2, ListsTreeKeeps, ListsStutter DEF Scanners
<1>9. walker = "linkscan.py" /\ Root \notin Twins => LinkPyFrame' /\ LinkPyAccounted'
  <2> SUFFICES ASSUME walker = "linkscan.py", Root \notin Twins PROVE LinkPyFrame' /\ LinkPyAccounted'
    OBVIOUS
  <2>1. LinkPyFrame /\ LinkPyAccounted
    BY DEF ListInv
  <2>2. CASE ListersAndSearches /\ UNCHANGED diskVars
    <3>1. WalkDir \/ WalkName
      BY <2>2 DEF ListersAndSearches, Lsx, LsxPy, Linkscan, LinkscanPy
    <3> QED BY <1>1, <2>1, <2>2, <3>1, WalkDirKeeps, WalkNameKeeps
  <2> QED BY <1>1, <1>5, <2>1, <2>2, ListsTreeKeeps, ListsStutter DEF Scanners
<1> QED BY <1>2, <1>4, <1>6, <1>7, <1>8, <1>9 DEF ListInv

(* ListInv is an invariant of the listings and the searches. *)
THEOREM ListInvariance == WalkSpec => []ListInv
<1>1. ListInv /\ [WalkNext]_<<vars, walkVars>> => ListInv'
  BY ListNext
<1> QED BY ListInit, <1>1, PTL DEF WalkSpec

(* README.md:78, "every hard link", and the listing's exit status: of any   *)
(* tree, under any changes, what a listing or search that shows no failure  *)
(* has left out was not there all along, or was passed over as the code     *)
(* says.  The search begins at a directory: linkscan.py, given the linked   *)
(* file itself as SEARCH_ROOT, finds nothing, where linkscan finds it.      *)
THEOREM ListsAlwaysEverything == Root \notin Twins /\ WalkSpec => []ListsEverything
<1> SUFFICES ASSUME Root \notin Twins PROVE WalkSpec => []ListsEverything
  OBVIOUS
<1>1. ListInv => ListsEverything
  <2> SUFFICES ASSUME ListInv, pc = "done", ~errors, ~limited PROVE ListsEverything
    BY DEF ListsEverything
  <2>1. ASSUME walker \in Listings, NEW n \in Children(Root) \cap Steady PROVE Named(n)
    BY <2>1 DEF ListInv, Listings, LsxAccounted, LsxPyAccounted, Measured
  <2>2. ASSUME walker \in Searches, NEW t \in Nodes, NamesTarget(t) PROVE t \in reported \cup blind
    <3>1. CASE walker = "linkscan"
      <4>1. ~LinkAhead(t)
        BY <3>1 DEF ListInv, LinkFrame, LinkAhead, InStack
      <4> QED BY <2>2, <3>1, <4>1 DEF ListInv, LinkAccounted
    <3>2. CASE walker = "linkscan.py"
      <4>1. ~InWalk(t, todo)
        BY <3>2 DEF ListInv, LinkPyFrame, InWalk
      <4> QED BY <2>2, <3>2, <4>1 DEF ListInv, LinkPyAccounted
    <3> QED BY <2>2, <3>1, <3>2 DEF Searches
  <2>3. walker \in Listings => Children(Root) \cap Steady \subseteq {r.name : r \in rows}
    BY <2>1 DEF Named
  <2>4. walker \in Searches => {n \in Steady : entry[n].ino = Target} \subseteq reported \cup blind
    BY <2>2 DEF NamesTarget, Steady
  <2> QED BY <2>3, <2>4 DEF ListsEverything
<1> QED BY ListInvariance, <1>1, PTL

-----------------------------------------------------------------------------
(* The sizes of the listings.  What is above something above n is above n; *)
(* a tree has no cycles, and nothing is below two children of a directory.  *)
LEMMA UpAbove ==
  ASSUME NEW n \in Nodes, NEW m \in Up[n]
  PROVE  m \in Nodes /\ Up[m] \subseteq Up[n]
<1>1. Up[n] \in SUBSET Nodes /\ Above(n, Up[n])
  BY UpClosed
<1>2. m \in Nodes /\ Above(m, Up[n])
  BY <1>1 DEF Above
<1> QED BY <1>1, <1>2, UpLeast

(* A child is not above its own directory. *)
LEMMA NoCycle ==
  ASSUME NEW c \in Nodes \ {Root}
  PROVE  c \notin Up[Parent[c]]
<1> SUFFICES ASSUME c \in Up[Parent[c]] PROVE FALSE
  OBVIOUS
<1> DEFINE S == {x \in Nodes : c \in Up[x]}
<1>1. c \in S
  BY UpClosed DEF Above
<1>2. ASSUME NEW x \in S \ {Root} PROVE Parent[x] \in S
  <2>1. Parent[x] \in Nodes /\ Up[x] \subseteq {x} \cup Up[Parent[x]]
    BY UpOfChild
  <2>2. c \in Up[Parent[x]]
    BY <2>1
  <2> QED BY <2>1, <2>2
<1>3. Above(c, S) /\ S \in SUBSET Nodes
  BY <1>1, <1>2 DEF Above
<1>4. Root \in S
  <2> HIDE DEF S
  <2>1. Up[c] \subseteq S
    BY <1>3, UpLeast
  <2> QED BY <2>1, TreeAssumption
<1> QED BY <1>4, UpOfRoot

(* No two paths are above each other. *)
LEMMA UpOneWay ==
  ASSUME NEW n \in Nodes, NEW m \in Up[n], n \in Up[m]
  PROVE  m = n
<1> SUFFICES ASSUME m # n PROVE FALSE
  OBVIOUS
<1>1. m \in Nodes /\ Up[n] \subseteq Up[m]
  BY UpAbove
<1>2. PICK c \in Children(m) : c \in Up[n]
  BY ChildOnTheWay
<1> QED BY <1>1, <1>2, NoCycle DEF Children

(* Of two paths above n, one is above the other. *)
LEMMA UpLinear ==
  ASSUME NEW n \in Nodes, NEW x \in Up[n], NEW y \in Up[n]
  PROVE  x \in Up[y] \/ y \in Up[x]
<1> DEFINE S == {z \in Nodes : x \in Up[z] \/ z \in Up[x]}
<1>1. x \in Nodes /\ n \in S
  BY UpAbove
<1>2. ASSUME NEW z \in S \ {Root} PROVE Parent[z] \in S
  <2>1. Parent[z] \in Nodes /\ Up[z] \subseteq {z} \cup Up[Parent[z]]
    BY UpOfChild
  <2>2. Above(x, Up[x])
    BY <1>1, UpClosed
  <2>3. z \in Up[x] => Parent[z] \in Up[x]
    BY <2>2 DEF Above
  <2>4. x \in Up[z] => x \in Up[Parent[z]] \/ (z = x /\ z \in Up[x])
    BY <2>1, <2>2 DEF Above
  <2> QED BY <2>1, <2>3, <2>4
<1>3. Above(n, S) /\ S \in SUBSET Nodes
  BY <1>1, <1>2 DEF Above
<1>4. y \in S
  <2> HIDE DEF S
  <2> QED BY <1>3, UpLeast
<1> QED BY <1>4

(* What is below a directory's child is below the directory, and is not the *)
(* directory; two children have nothing below both of them.                 *)
LEMMA BelowChild ==
  ASSUME NEW d, NEW c \in Children(d)
  PROVE  c \in Nodes /\ c # Root /\ Parent[c] = d /\ d \in Nodes /\ Below(c) \subseteq Below(d) \ {d}
<1>1. c \in Nodes \ {Root} /\ Parent[c] = d /\ d \in Nodes
  BY ScanAssumption DEF Children
<1>2. ASSUME NEW t \in Below(c) PROVE t \in Nodes /\ d \in Up[t] /\ t # d
  <2>1. t \in Nodes /\ c \in Up[t] /\ Above(t, Up[t])
    BY UpClosed, BelowIsAbove
  <2> QED BY <1>1, <2>1, NoCycle DEF Above
<1> QED BY <1>1, <1>2, BelowIsAbove

LEMMA Apart ==
  ASSUME NEW d, NEW b \in Children(d), NEW c \in Children(d), b # c
  PROVE  Below(b) \cap Below(c) = {}
<1>1. /\ b \in Nodes \ {Root} /\ Parent[b] = d
      /\ c \in Nodes \ {Root} /\ Parent[c] = d
  BY DEF Children
<1>2. b \notin Up[c] /\ c \notin Up[b]
  BY <1>1, UpOfChild, NoCycle
<1>3. ASSUME NEW t \in Below(b) \cap Below(c) PROVE FALSE
  BY <1>2, UpLinear, BelowIsAbove
<1> QED BY <1>3

(* A directory is below itself, and with it what is below its children.     *)
LEMMA BelowDirectory ==
  ASSUME NEW d \in Nodes
  PROVE  Below(d) = {d} \cup UNION {Below(c) : c \in Children(d)} /\ d \notin UNION {Below(c) : c \in Children(d)}
<1>1. d \in Below(d)
  BY UpClosed, BelowIsAbove DEF Above
<1>2. ASSUME NEW t \in Below(d), t # d PROVE \E c \in Children(d) : t \in Below(c)
  BY <1>2, ChildOnTheWay, BelowIsAbove
<1>3. \A c \in Children(d) : Below(c) \subseteq Below(d) \ {d}
  BY BelowChild
<1> QED BY <1>1, <1>2, <1>3

-----------------------------------------------------------------------------
(* What two paths name is a file; and as long as nothing has changed, every *)
(* path names what it has named from the start.                             *)
TreeInv ==
  /\ mtime \in [Inodes -> Nat]
  /\ \A m, n \in Nodes : m # n /\ entry[m].ino = entry[n].ino => entry[m].kind \in {"absent", "file"}
  /\ events = Events => /\ \A i \in Inodes : mtime[i] = 0
                        /\ \A n \in Nodes : entry[n].ino <= Cardinality(Nodes)

LEMMA TreeInit == WalkInit => TreeInv
<1> SUFFICES ASSUME WalkInit PROVE TreeInv
  OBVIOUS
<1>1. Init /\ mtime = [i \in Inodes |-> 0]
  BY DEF WalkInit
<1>2. PICK kind \in [Nodes -> Kinds], number \in {Number, Linked} :
        /\ \A m \in Nodes : kind[m] \in Kind0[m]
        /\ entry = [m \in Nodes |-> [kind |-> kind[m], ino |-> number[m]]]
  BY <1>1 DEF Init
<1> DEFINE twin == CHOOSE m \in Twins : TRUE
<1>3. twin \in Twins /\ twin \in Nodes /\ Twin = Number[twin]
  BY ScanAssumption DEF Twin
<1> HIDE DEF twin
<1>4. ASSUME NEW m \in Nodes, NEW n \in Nodes, m # n, entry[m].ino = entry[n].ino
      PROVE  entry[m].kind \in {"absent", "file"}
  <2>1. entry[m].kind = kind[m] /\ number[m] = number[n]
    BY <1>2, <1>4
  <2>2. m \in Twins
    BY <1>3, <1>4, <2>1, Numbers DEF Linked
  <2>3. Kind0[m] \subseteq {"absent", "file"}
    BY <2>2, ScanAssumption
  <2> QED BY <1>2, <2>1, <2>3
<1>5. ASSUME NEW n \in Nodes PROVE entry[n].ino <= Cardinality(Nodes)
  <2>1. entry[n].ino = number[n] /\ number[n] \in 1..Cardinality(Nodes)
    BY <1>2, Numbers, LinkedNumbers
  <2> QED BY <2>1, Numbers
<1>6. mtime \in [Inodes -> Nat]
  BY <1>1
<1> QED BY <1>1, <1>4, <1>5, <1>6 DEF TreeInv

LEMMA ReplaceKeepsTree ==
  ASSUME DiskInv, TreeInv, NEW n \in Nodes, Replace(n), UNCHANGED mtime
  PROVE  TreeInv'
<1>1. PICK e \in Entry :
        e.ino = Cardinality(Nodes) + Events - events + 1 /\ entry' = [entry EXCEPT ![n] = e]
  BY DEF Replace
<1>2. entry'[n] = e /\ \A m \in Nodes \ {n} : entry'[m] = entry[m]
  BY <1>1 DEF DiskInv
<1>3. events' = events - 1 /\ events \in 0..Events /\ Events \in Nat
  BY NumberOfNodes DEF Replace, Change, DiskInv
<1>4. events' # Events
  BY <1>3
<1>5. ASSUME NEW m \in Nodes \ {n} PROVE entry'[m].ino # entry'[n].ino
  <2>1. entry[m].ino \in Nat /\ entry[m].ino <= Cardinality(Nodes) + (Events - events)
    BY NumberOfEntry
  <2> DEFINE last == Cardinality(Nodes)
             old == entry[m].ino
             new == e.ino
  <2>2. last \in Nat /\ new = last + Events - events + 1 /\ old \in Nat /\ old <= last + (Events - events)
    BY <1>1, <2>1, NumberOfNodes
  <2>3. entry'[m].ino = old /\ entry'[n].ino = new
    BY <1>2
  <2> HIDE DEF last, old, new
  <2>4. old # new
    BY <1>3, <2>2
  <2> QED BY <2>3, <2>4
<1>6. ASSUME NEW l \in Nodes, NEW m \in Nodes, l # m, entry'[l].ino = entry'[m].ino
      PROVE  entry'[l].kind \in {"absent", "file"}
  <2>1. l # n /\ m # n
    BY <1>5, <1>6
  <2> QED BY <1>2, <1>6, <2>1 DEF TreeInv
<1> QED BY <1>4, <1>6 DEF TreeInv

LEMMA TreeKept == DiskInv /\ TreeInv /\ (TreeChanges \/ UNCHANGED <<diskVars, mtime>>) => TreeInv'
<1> SUFFICES ASSUME DiskInv, TreeInv, TreeChanges \/ UNCHANGED <<diskVars, mtime>> PROVE TreeInv'
  OBVIOUS
<1>1. CASE UNCHANGED <<diskVars, mtime>>
  BY <1>1 DEF TreeInv, diskVars
<1>2. ASSUME NEW n \in Nodes, Resize(n), mtime' = [mtime EXCEPT ![entry[n].ino] = @ + 1] PROVE TreeInv'
  <2>1. entry' = entry /\ events' = events - 1 /\ events \in 0..Events /\ Events \in Nat
    BY <1>2, NumberOfNodes DEF Resize, Change, DiskInv
  <2>2. events' # Events
    BY <2>1
  <2>3. entry[n].ino \in Inodes
    BY DEF DiskInv, Entry
  <2>4. mtime' \in [Inodes -> Nat]
    BY <1>2, <2>3 DEF TreeInv
  <2> QED BY <2>1, <2>2, <2>4 DEF TreeInv
<1>3. ASSUME NEW n \in Nodes, Replace(n), UNCHANGED mtime PROVE TreeInv'
  BY <1>3, ReplaceKeepsTree
<1> QED BY <1>1, <1>2, <1>3 DEF TreeChanges

-----------------------------------------------------------------------------
(* The files below a row that are as they were, and what they add up to *)

Fixed(S)  == {n \in S : Untouched(n) /\ entry[n].kind = "file"}
Sizes     == [n \in Nodes |-> SizeOf(n)]
Weight(S) == Sum(Sizes, Fixed(S))

(* A size of the files below S is whole: see SizesWhole. *)
Whole(k, S) == k \in Nat /\ Weight(S) <= k /\ (events = Events => k = Weight(S))

LEMMA FixedIsFinite ==
  ASSUME DiskInv, NEW S
  PROVE  /\ Fixed(S) \in SUBSET Nodes /\ IsFiniteSet(Fixed(S)) /\ Weight(S) \in Nat
         /\ \A n \in Nodes : Sizes[n] = SizeOf(n) /\ SizeOf(n) \in Nat
<1>1. Fixed(S) \in SUBSET Nodes
  BY DEF Fixed, Untouched, Steady
<1>2. IsFiniteSet(Fixed(S))
  BY <1>1, ScanAssumption, FS_Subset
<1>3. ASSUME NEW n \in Nodes PROVE Sizes[n] = SizeOf(n) /\ SizeOf(n) \in Nat
  <2>1. SizeOf(n) \in Nat
    BY ScanAssumption DEF SizeOf, DiskInv, Entry, Inode
  <2> QED BY <2>1 DEF Sizes
<1>4. \A n \in Fixed(S) : Sizes[n] \in Nat
  BY <1>1, <1>3
<1>5. Sum(Sizes, Fixed(S)) \in Nat
  BY <1>2, <1>4, SumNatural
<1> QED BY <1>1, <1>2, <1>3, <1>5 DEF Weight

LEMMA WholeAdds ==
  ASSUME DiskInv, NEW S, NEW R, S \cap R = {}, NEW k, NEW l, Whole(k, S), Whole(l, R)
  PROVE  Whole(k + l, S \cup R)
<1>1. Fixed(S \cup R) = Fixed(S) \cup Fixed(R) /\ Fixed(S) \cap Fixed(R) = {}
  BY DEF Fixed
<1>2. IsFiniteSet(Fixed(S)) /\ IsFiniteSet(Fixed(R)) /\ \A n \in Fixed(S) \cup Fixed(R) : Sizes[n] \in Int
  BY FixedIsFinite
<1>3. Sum(Sizes, Fixed(S) \cup Fixed(R)) = Sum(Sizes, Fixed(S)) + Sum(Sizes, Fixed(R))
  BY <1>1, <1>2, SumDisjoint
<1>4. Weight(S \cup R) = Weight(S) + Weight(R) /\ Weight(S) \in Nat /\ Weight(R) \in Nat
  BY <1>1, <1>3, FixedIsFinite DEF Weight
<1>5. k \in Nat /\ l \in Nat /\ Weight(S) <= k /\ Weight(R) <= l
  BY DEF Whole
<1>6. events = Events => k = Weight(S) /\ l = Weight(R)
  BY DEF Whole
<1> QED BY <1>4, <1>5, <1>6 DEF Whole

LEMMA WholeSame ==
  ASSUME NEW S, NEW R, Fixed(S) = Fixed(R), NEW k, Whole(k, S)
  PROVE  Whole(k, R)
BY DEF Whole, Weight

LEMMA WholeNothing == ASSUME NEW S, Fixed(S) = {} PROVE Whole(0, S)
<1>1. Weight(S) = 0
  BY SumEmpty DEF Weight
<1> QED BY <1>1 DEF Whole

(* A file or the like, whose size lstat says. *)
LEMMA WholeLeaf ==
  ASSUME DiskInv, TreeInv, NEW n \in Nodes, There(n), ~IsDir(n)
  PROVE  Fixed(Below(n)) \subseteq {n} /\ Whole(SizeOf(n), Below(n))
<1>1. n \in Below(n)
  BY UpClosed, BelowIsAbove DEF Above
<1>2. ASSUME NEW m \in Fixed(Below(n)) PROVE m = n
  BY <1>2, BelowIsAbove, OnTheWayThere DEF Fixed, Untouched, IsDir
<1>3. SizeOf(n) \in Nat /\ Sizes[n] = SizeOf(n)
  BY FixedIsFinite
<1>4. CASE n \in Fixed(Below(n))
  <2>1. Fixed(Below(n)) = {n}
    BY <1>2, <1>4
  <2>2. Sum(Sizes, {n}) = Sizes[n]
    <3>1. Sizes[n] \in Int
      BY <1>3
    <3> QED BY <3>1, SumOfOne
  <2>3. Weight(Below(n)) = SizeOf(n)
    BY <1>3, <2>1, <2>2 DEF Weight
  <2> QED BY <1>2, <1>3, <2>3 DEF Whole
<1>5. CASE n \notin Fixed(Below(n))
  <2>1. Fixed(Below(n)) = {}
    BY <1>2, <1>5
  <2>2. Weight(Below(n)) = 0
    BY <2>1, SumEmpty DEF Weight
  <2>3. ASSUME events = Events PROVE SizeOf(n) = 0
    <3>1. n \in Steady
      BY <2>3, UpClosed DEF TreeInv, Steady
    <3>2. mtime[entry[n].ino] = 0
      BY <2>3 DEF TreeInv, DiskInv, Entry
    <3>3. entry[n].kind # "file"
      BY <1>1, <1>5, <3>1, <3>2 DEF Fixed, Untouched
    <3> QED BY <3>3 DEF SizeOf
  <2> QED BY <1>2, <1>3, <2>2, <2>3 DEF Whole
<1> QED BY <1>4, <1>5

(* Who changes the tree makes no file more, nor one another. *)
LEMMA FixedShrinks ==
  ASSUME DiskInv, TreeInv, TreeChanges \/ UNCHANGED <<diskVars, mtime>>, NEW S, NEW n \in Fixed(S)'
  PROVE  n \in Fixed(S) /\ entry'[n] = entry[n] /\ disk'[entry[n].ino] = disk[entry[n].ino]
<1>1. n \in S /\ Untouched(n)' /\ entry'[n].kind = "file"
  BY DEF Fixed
<1>2. n \in Steady' /\ mtime'[entry'[n].ino] = 0
  BY <1>1 DEF Untouched
<1>3. TreeChanges \/ UNCHANGED diskVars
  OBVIOUS
<1>4. n \in Steady /\ n \in Nodes /\ entry'[n] = entry[n]
  BY <1>2, <1>3, SteadyShrinks
<1>5. entry[n].ino \in Inodes /\ entry[n].ino <= Cardinality(Nodes)
  BY <1>4, UpClosed DEF DiskInv, Entry, Steady, Above
<1>6. mtime[entry[n].ino] = 0 /\ disk'[entry[n].ino] = disk[entry[n].ino]
  <2>1. CASE UNCHANGED <<diskVars, mtime>>
    BY <1>2, <1>4, <2>1 DEF diskVars
  <2>2. ASSUME NEW m \in Nodes, Resize(m), mtime' = [mtime EXCEPT ![entry[m].ino] = @ + 1]
        PROVE  mtime[entry[n].ino] = 0 /\ disk'[entry[n].ino] = disk[entry[n].ino]
    <3>1. mtime \in [Inodes -> Nat] /\ entry[m].ino \in Inodes
      BY DEF TreeInv, DiskInv, Entry
    <3>2. entry[m].ino # entry[n].ino
      BY <1>2, <1>4, <2>2, <3>1
    <3>3. mtime'[entry[n].ino] = mtime[entry[n].ino]
      BY <1>5, <2>2, <3>1, <3>2
    <3>4. disk'[entry[n].ino] = disk[entry[n].ino]
      BY <1>5, <2>2, <3>2 DEF Resize, DiskInv
    <3> QED BY <1>2, <1>4, <3>3, <3>4
  <2>3. ASSUME NEW m \in Nodes, Replace(m), UNCHANGED mtime
        PROVE  mtime[entry[n].ino] = 0 /\ disk'[entry[n].ino] = disk[entry[n].ino]
    <3>1. PICK e \in Entry, i \in Inode :
            /\ e.ino = Cardinality(Nodes) + Events - events + 1
            /\ disk' = [disk EXCEPT ![e.ino] = i]
      BY <2>3 DEF Replace
    <3>2. e.ino # entry[n].ino
      <4>1. entry[n].ino \in Nat
        BY <1>4, NumberOfEntry
      <4>2. events \in 0..Events
        BY DEF DiskInv
      <4> DEFINE old == entry[n].ino
                 last == Cardinality(Nodes)
      <4> HIDE DEF old, last
      <4>3. old \in Nat /\ old <= last /\ last \in Nat /\ Events \in Nat
        BY <1>5, <4>1, NumberOfNodes DEF old, last
      <4>4. e.ino = last + Events - events + 1
        BY <3>1 DEF last
      <4>5. e.ino # old
        BY <4>2, <4>3, <4>4
      <4> QED BY <4>5 DEF old
    <3>3. disk'[entry[n].ino] = disk[entry[n].ino]
      BY <1>5, <3>1, <3>2 DEF DiskInv
    <3> QED BY <1>2, <1>4, <2>3, <3>3
  <2> QED BY <2>1, <2>2, <2>3 DEF TreeChanges
<1> QED BY <1>1, <1>4, <1>6 DEF Fixed, Untouched

LEMMA WholeKept ==
  ASSUME DiskInv, DiskInv', TreeInv, TreeChanges, NEW k, NEW S, Whole(k, S)
  PROVE  Whole(k, S)'
<1>1. events' # Events
  <2>1. events' = events - 1 /\ events \in 0..Events /\ Events \in Nat
    BY NumberOfNodes DEF TreeChanges, Resize, Replace, Change, DiskInv
  <2> QED BY <2>1
<1>2. PICK g, F : g = Sizes' /\ F = Fixed(S)'
  OBVIOUS
<1>3. F \subseteq Fixed(S) /\ \A n \in F : g[n] = Sizes[n] /\ n \in Nodes
  <2> SUFFICES ASSUME NEW n \in F PROVE n \in Fixed(S) /\ g[n] = Sizes[n] /\ n \in Nodes
    OBVIOUS
  <2>1. n \in Fixed(S) /\ entry'[n] = entry[n] /\ disk'[entry[n].ino] = disk[entry[n].ino]
    BY <1>2, FixedShrinks
  <2>2. n \in Nodes
    BY <2>1, FixedIsFinite
  <2> QED BY <1>2, <2>1, <2>2 DEF Sizes, SizeOf
<1>4. IsFiniteSet(Fixed(S)) /\ IsFiniteSet(F) /\ (\A n \in Fixed(S) : Sizes[n] \in Nat) /\ Weight(S) \in Nat
  BY <1>3, FixedIsFinite, FS_Subset
<1>5. Sum(g, F) = Sum(Sizes, F)
  <2>1. \A n \in F : g[n] \in Int /\ g[n] = Sizes[n]
    BY <1>3, <1>4
  <2> QED BY <1>4, <2>1, SumEqual
<1>6. Sum(Sizes, F) <= Sum(Sizes, Fixed(S)) /\ Sum(Sizes, F) \in Nat
  <2>1. \A n \in F : Sizes[n] \in Nat
    BY <1>3, <1>4
  <2> QED BY <1>3, <1>4, <2>1, SumSubset, SumNatural
<1>7. Weight(S)' = Sum(Sizes, F)
  BY <1>2, <1>5 DEF Weight
<1>8. k \in Nat /\ Weight(S) <= k /\ Weight(S) = Sum(Sizes, Fixed(S))
  BY DEF Whole, Weight
<1>9. Weight(S)' <= k
  <2> DEFINE w == Weight(S)
             w2 == Sum(Sizes, F)
  <2>1. w2 \in Nat /\ w \in Nat /\ w2 <= w /\ w <= k /\ k \in Nat
    BY <1>4, <1>6, <1>8
  <2> HIDE DEF w, w2
  <2>2. w2 <= k
    BY <2>1
  <2> QED BY <1>7, <2>2 DEF w2
<1> QED BY <1>1, <1>8, <1>9 DEF Whole

-----------------------------------------------------------------------------
(* lsx: what is still to be measured for the row at hand is below what has  *)
(* not been listed of the directories that are open below PATH, or at hand. *)

Unlisted(f) == {t \in Nodes : InFrame(t, f)}
Rest(s)     == UNION {Unlisted(s[i]) : i \in 2..Len(s)}
ToSize      == IF pc = "open" THEN Rest(stack) \cup Below(cur) ELSE Rest(stack)

(* An open directory was listed in the one before it. *)
Nested(s) ==
  \A i, j \in 2..Len(s) : i < j => Below(s[j].dir) \cap Unlisted(s[i]) = {}

LEMMA UnlistedIsBelow ==
  ASSUME NEW f \in Frame
  PROVE  /\ Unlisted(f) = UNION {Below(c) : c \in Children(f.dir) \ f.listed}
         /\ Unlisted(f) \subseteq Below(f.dir) \ {f.dir}
<1>1. Unlisted(f) = UNION {Below(c) : c \in Children(f.dir) \ f.listed}
  BY BelowIsAbove DEF Unlisted, InFrame
<1>2. \A c \in Children(f.dir) : Below(c) \subseteq Below(f.dir) \ {f.dir}
  BY BelowChild
<1> QED BY <1>1, <1>2

(* To go down into a directory is to have its children left. *)
LEMMA PushedRest ==
  ASSUME stack \in Seq(Frame), stack # << >>, Nested(stack), NEW d \in Nodes, Below(d) \cap Rest(stack) = {},
         NEW s, s = Append(stack, [dir |-> d, listed |-> {}])
  PROVE  Nested(s) /\ Rest(s) \cup {d} = Rest(stack) \cup Below(d) /\ d \notin Rest(s)
<1> DEFINE f == [dir |-> d, listed |-> {}]
           k == Len(stack)
<1>1. f \in Frame /\ f.dir = d /\ f.listed = {}
  BY DEF Frame
<1>2. Unlisted(f) = UNION {Below(c) : c \in Children(d)}
  BY <1>1, UnlistedIsBelow
<1>3. Unlisted(f) \cup {d} = Below(d) /\ d \notin Unlisted(f)
  BY <1>2, BelowDirectory
<1>4. k \in Nat /\ k >= 1
  OBVIOUS
<1> HIDE DEF f
<1>5. Len(s) = k + 1 /\ s[k + 1] = f /\ \A i \in 1..k : s[i] = stack[i]
  BY <1>1, <1>4 DEF f
<1>5a. Len(stack) = k
  OBVIOUS
<1> HIDE DEF k
<1>5b. \A i \in 2..(k + 1) : i = k + 1 \/ (i \in 2..k /\ i \in 1..k /\ s[i] = stack[i])
  BY <1>4, <1>5
<1>6. Rest(s) = Rest(stack) \cup Unlisted(f)
  <2>1. \A t \in Rest(s) : t \in Rest(stack) \/ t \in Unlisted(f)
    <3> SUFFICES ASSUME NEW i \in 2..(k + 1), NEW t \in Unlisted(s[i])
                 PROVE  t \in Rest(stack) \/ t \in Unlisted(f)
      BY <1>5 DEF Rest
    <3> QED BY <1>5, <1>5a, <1>5b DEF Rest
  <2>2. Unlisted(f) \subseteq Rest(s)
    <3>1. k + 1 \in 2..Len(s)
      BY <1>4, <1>5
    <3> QED BY <1>5, <3>1 DEF Rest
  <2>3. Rest(stack) \subseteq Rest(s)
    <3> SUFFICES ASSUME NEW i \in 2..k PROVE i \in 2..Len(s) /\ s[i] = stack[i]
      BY <1>5a DEF Rest
    <3> QED BY <1>4, <1>5
  <2> QED BY <2>1, <2>2, <2>3
<1>7. Nested(s)
  <2> SUFFICES ASSUME NEW i \in 2..Len(s), NEW j \in 2..Len(s), i < j
               PROVE  Below(s[j].dir) \cap Unlisted(s[i]) = {}
    BY DEF Nested
  <2>1. i \in 2..k /\ s[i] = stack[i]
    BY <1>4, <1>5
  <2>2. CASE j = k + 1
    <3>1. Unlisted(stack[i]) \subseteq Rest(stack)
      BY <1>5a, <2>1 DEF Rest
    <3> QED BY <1>1, <1>5, <2>1, <2>2, <3>1
  <2>3. CASE j \in 2..k
    <3>1. s[j] = stack[j] /\ j \in 2..Len(stack) /\ i \in 2..Len(stack)
      BY <1>5a, <1>5b, <1>5, <2>1, <2>3
    <3> QED BY <2>1, <3>1 DEF Nested
  <2> QED BY <1>5, <1>5b, <2>2, <2>3
<1>8. d \in Below(d)
  BY <1>3
<1> QED BY <1>3, <1>6, <1>7, <1>8

(* To take the next name is to have what is below it no more. *)
LEMMA MarkedRest ==
  ASSUME stack \in Seq(Frame), Len(stack) > 1, Nested(stack), NEW n \in Children(Top.dir) \ Top.listed,
         NEW s, s = Marked(n)
  PROVE  /\ Nested(s) /\ Rest(stack) = Rest(s) \cup Below(n) /\ Rest(s) \cap Below(n) = {}
         /\ s \in Seq(Frame) /\ Len(s) = Len(stack)
<1> DEFINE k == Len(stack)
<1>1. k \in Nat /\ k > 1 /\ Top = stack[k] /\ Top \in Frame /\ n \in Nodes
  BY DEF Top, Children
<1>2. /\ Pop \in Seq(Frame) /\ Len(Pop) = k - 1
      /\ \A i \in 1..(k - 1) : Pop[i] = stack[i]
  BY <1>1, AllButLast DEF Pop
<1> DEFINE f == [Top EXCEPT !.listed = @ \cup {n}]
<1>3. f \in Frame /\ f.dir = Top.dir /\ f.listed = Top.listed \cup {n}
  BY <1>1 DEF Frame
<1>4. s = Append(Pop, f)
  BY DEF Marked
<1> HIDE DEF f
<1>5. s \in Seq(Frame) /\ Len(s) = k /\ s[k] = f /\ \A i \in 1..(k - 1) : s[i] = stack[i]
  BY <1>1, <1>2, <1>3, <1>4
<1>6. Unlisted(Top) = Unlisted(f) \cup Below(n) /\ Unlisted(f) \cap Below(n) = {}
  <2>1. /\ Unlisted(Top) = UNION {Below(c) : c \in Children(Top.dir) \ Top.listed}
        /\ Unlisted(f) = UNION {Below(c) : c \in Children(Top.dir) \ f.listed}
    BY <1>1, <1>3, UnlistedIsBelow
  <2>2. \A c \in Children(Top.dir) \ f.listed : Below(c) \cap Below(n) = {}
    <3> SUFFICES ASSUME NEW c \in Children(Top.dir) \ f.listed PROVE Below(c) \cap Below(n) = {}
      OBVIOUS
    <3>1. c # n /\ c \in Children(Top.dir) /\ n \in Children(Top.dir)
      BY <1>3
    <3> QED BY <3>1, Apart
  <2> QED BY <1>3, <2>1, <2>2
<1>7. Below(n) \subseteq Below(stack[k].dir)
  <2>1. n \in Children(Top.dir)
    OBVIOUS
  <2> QED BY <1>1, <2>1, BelowChild
<1>8. \A i \in 2..(k - 1) : Below(n) \cap Unlisted(stack[i]) = {} /\ s[i] = stack[i]
  <2> SUFFICES ASSUME NEW i \in 2..(k - 1) PROVE Below(n) \cap Unlisted(stack[i]) = {} /\ s[i] = stack[i]
    OBVIOUS
  <2>1. i \in 2..k /\ k \in 2..k /\ i < k /\ i \in 1..(k - 1)
    BY <1>1
  <2>2. Below(stack[k].dir) \cap Unlisted(stack[i]) = {}
    BY <2>1 DEF Nested
  <2> QED BY <1>5, <1>7, <2>1, <2>2
<1>9. Rest(stack) = Rest(s) \cup Below(n)
  <2>1. ASSUME NEW i \in 2..k PROVE Unlisted(stack[i]) \subseteq Rest(s) \cup Below(n)
    <3>1. Unlisted(s[i]) \subseteq Rest(s)
      BY <1>5 DEF Rest
    <3>2. i = k \/ i \in 2..(k - 1)
      BY <1>1
    <3> QED BY <1>1, <1>5, <1>6, <1>8, <3>1, <3>2
  <2>2. ASSUME NEW i \in 2..k PROVE Unlisted(s[i]) \subseteq Rest(stack)
    <3>1. Unlisted(stack[i]) \subseteq Rest(stack)
      BY DEF Rest
    <3>2. i = k \/ i \in 2..(k - 1)
      BY <1>1
    <3> QED BY <1>1, <1>5, <1>6, <1>8, <3>1, <3>2
  <2>3. Below(n) \subseteq Rest(stack)
    <3>1. k \in 2..Len(stack)
      BY <1>1
    <3>2. Unlisted(stack[k]) \subseteq Rest(stack)
      BY <3>1 DEF Rest
    <3> QED BY <1>1, <1>6, <3>2
  <2>4. Rest(stack) \subseteq Rest(s) \cup Below(n)
    BY <2>1 DEF Rest
  <2>5. Rest(s) \subseteq Rest(stack)
    BY <1>5, <2>2 DEF Rest
  <2> QED BY <2>3, <2>4, <2>5
<1>10. Rest(s) \cap Below(n) = {}
  <2> SUFFICES ASSUME NEW i \in 2..k PROVE Unlisted(s[i]) \cap Below(n) = {}
    BY <1>5 DEF Rest
  <2>1. i = k \/ i \in 2..(k - 1)
    BY <1>1
  <2> QED BY <1>1, <1>5, <1>6, <1>8, <2>1
<1>11. Nested(s)
  <2> SUFFICES ASSUME NEW i \in 2..k, NEW j \in 2..k, i < j
               PROVE  Below(s[j].dir) \cap Unlisted(s[i]) = {}
    BY <1>5 DEF Nested
  <2>1. i \in 2..(k - 1) /\ s[i] = stack[i]
    BY <1>1, <1>8
  <2>2. s[j].dir = stack[j].dir
    <3>1. j = k \/ j \in 1..(k - 1)
      BY <1>1
    <3> QED BY <1>1, <1>3, <1>5, <3>1
  <2> QED BY <2>1, <2>2 DEF Nested
<1> QED BY <1>5, <1>9, <1>10, <1>11

(* To leave a directory is to give up what was left of it. *)
LEMMA PoppedRest ==
  ASSUME stack \in Seq(Frame), Len(stack) > 1, Nested(stack), NEW s, s = Pop
  PROVE  Nested(s) /\ Rest(stack) = Rest(s) \cup Unlisted(Top)
<1> DEFINE k == Len(stack)
<1>1. k \in Nat /\ k > 1 /\ Top = stack[k]
  BY DEF Top
<1>2. Len(s) = k - 1 /\ \A i \in 1..(k - 1) : s[i] = stack[i]
  BY <1>1, AllButLast DEF Pop
<1>3. \A i \in 2..(k - 1) : i \in 2..k /\ s[i] = stack[i]
  BY <1>1, <1>2
<1>4. Rest(stack) = Rest(s) \cup Unlisted(Top)
  <2>1. ASSUME NEW i \in 2..k PROVE Unlisted(stack[i]) \subseteq Rest(s) \cup Unlisted(Top)
    <3>1. i = k \/ i \in 2..(k - 1)
      BY <1>1
    <3>2. i \in 2..(k - 1) => Unlisted(s[i]) \subseteq Rest(s)
      BY <1>2 DEF Rest
    <3> QED BY <1>1, <1>3, <3>1, <3>2
  <2>2. Rest(s) \subseteq Rest(stack)
    BY <1>2, <1>3 DEF Rest
  <2>3. Unlisted(Top) \subseteq Rest(stack)
    <3>1. k \in 2..Len(stack)
      BY <1>1
    <3> QED BY <1>1, <3>1 DEF Rest
  <2>4. Rest(stack) \subseteq Rest(s) \cup Unlisted(Top)
    BY <2>1 DEF Rest
  <2> QED BY <2>2, <2>3, <2>4
<1>5. Nested(s)
  BY <1>2, <1>3 DEF Nested
<1> QED BY <1>4, <1>5

-----------------------------------------------------------------------------
(* Every row is whole, and the row at hand is for what is measured of it.   *)
LsxSizes ==
  /\ blind = {}
  /\ \A r \in rows : r.star \/ Whole(r.size, Below(r.name))
  /\ Measured =>
       /\ Nested(stack) /\ ToSize \subseteq Below(row.name)
       /\ pc = "open" => Below(cur) \cap Rest(stack) = {}
       /\ row.star \/ Whole(row.size, Below(row.name) \ ToSize)

(* What leads to a name that was there all along was there all along. *)
LEMMA SteadyAbove == ASSUME NEW t \in Steady, NEW c \in Up[t] PROVE c \in Steady
<1>1. t \in Nodes /\ c \in Nodes /\ entry[c].kind # "absent" /\ Up[c] \subseteq Up[t]
  BY OnTheWayThere, UpAbove
<1>2. ASSUME NEW m \in Up[c] \ {c} PROVE entry[m].kind = "dir"
  <2>1. m # t
    BY <1>1, <1>2, UpOneWay
  <2> QED BY <1>1, <1>2, <2>1, OnTheWayThere
<1> QED BY <1>1, <1>2 DEF Steady, There, Resolves

LEMMA WholeStays ==
  ASSUME UNCHANGED <<diskVars, mtime>>, NEW k, NEW S
  PROVE  Whole(k, S)' <=> Whole(k, S)
<1>1. entry' = entry /\ disk' = disk /\ events' = events /\ mtime' = mtime
  BY DEF diskVars
<1>2. Fixed(S)' = Fixed(S)
  BY <1>1 DEF Fixed, Untouched, Steady, There, Resolves
<1>3. Sizes' = Sizes
  BY <1>1 DEF Sizes, SizeOf
<1> QED BY <1>1, <1>2, <1>3 DEF Whole, Weight

(* What becomes of a row. *)
LEMMA RowAdds ==
  ASSUME NEW r \in Row, NEW k \in Nat
  PROVE  \E x \in Row : /\ x = [r EXCEPT !.size = @ + k]
                        /\ x.name = r.name /\ x.star = r.star /\ x.size = r.size + k
<1>1. [r EXCEPT !.size = @ + k] \in Row
  BY DEF Row
<1>2. /\ [r EXCEPT !.size = @ + k].name = r.name /\ [r EXCEPT !.size = @ + k].star = r.star
      /\ [r EXCEPT !.size = @ + k].size = r.size + k
  BY DEF Row
<1> QED BY <1>1, <1>2, Zenon

LEMMA RowSees ==
  ASSUME NEW r \in Row, NEW i \in Nodes \cup Inodes
  PROVE  \E x \in Row : /\ x = [r EXCEPT !.seen = @ \cup {i}]
                        /\ x.name = r.name /\ x.star = r.star /\ x.size = r.size
                        /\ x.seen = r.seen \cup {i}
<1>1. r.seen \cup {i} \in SUBSET (Nodes \cup Inodes)
  BY DEF Row
<1>2. [r EXCEPT !.seen = @ \cup {i}] \in Row
  BY <1>1 DEF Row
<1>3. /\ [r EXCEPT !.seen = @ \cup {i}].name = r.name /\ [r EXCEPT !.seen = @ \cup {i}].star = r.star
      /\ [r EXCEPT !.seen = @ \cup {i}].size = r.size /\ [r EXCEPT !.seen = @ \cup {i}].seen = r.seen \cup {i}
  BY DEF Row
<1> QED BY <1>2, <1>3, Zenon

LEMMA RowStars ==
  ASSUME NEW r \in Row
  PROVE  \E x \in Row : x = Starred(r) /\ x.name = r.name /\ x.star = TRUE
<1>1. [r EXCEPT !.star = TRUE] \in Row
  BY DEF Row
<1>2. [r EXCEPT !.star = TRUE].name = r.name /\ [r EXCEPT !.star = TRUE].star = TRUE
  BY DEF Row
<1> QED BY <1>1, <1>2, Zenon DEF Starred

LEMMA RestOfOne == ASSUME NEW s, Len(s) = 1 PROVE Nested(s) /\ Rest(s) = {}
<1>1. 2..1 = {}
  OBVIOUS
<1> QED BY <1>1 DEF Nested, Rest

LEMMA SizedRow ==
  ASSUME LsxSizes, UNCHANGED <<diskVars, mtime, blind>>,
         NEW r \in Row, NEW dirs \in Seq(Frame), dirs # << >>, SizeIs(r, dirs),
         Nested(dirs), Rest(dirs) \subseteq Below(r.name),
         r.star \/ Whole(r.size, Below(r.name) \ Rest(dirs))
  PROVE  LsxSizes'
<1>1. pc' = "list" /\ stack' = dirs /\ row' = r /\ rows' = IF Len(dirs) = 1 THEN rows \cup {r} ELSE rows
  BY DEF SizeIs
<1>2. blind' = {}
  BY DEF LsxSizes
<1>3. ASSUME NEW x \in rows' PROVE x.star \/ Whole(x.size, Below(x.name))
  <2>1. CASE x \in rows
    BY <2>1 DEF LsxSizes
  <2>2. CASE x = r /\ Len(dirs) = 1
    <3>1. Below(r.name) \ Rest(dirs) = Below(r.name)
      BY <2>2, RestOfOne
    <3>2. r.star \/ Whole(r.size, Below(r.name))
      BY <3>1, Zenon
    <3> QED BY <2>2, <3>2
  <2> QED BY <1>1, <1>3, <2>1, <2>2
<1>4. \A x \in rows' : x.star \/ Whole(x.size, Below(x.name))'
  BY <1>3, WholeStays
<1>5. ToSize' = Rest(dirs)
  BY <1>1 DEF ToSize
<1>6. r.star \/ Whole(r.size, Below(r.name) \ Rest(dirs))'
  BY WholeStays
<1>7. row'.star \/ Whole(row.size, Below(row.name) \ ToSize)'
  BY <1>1, <1>5, <1>6
<1>8. Nested(stack)' /\ ToSize' \subseteq Below(row'.name)
  BY <1>1, <1>5
<1> QED BY <1>1, <1>2, <1>4, <1>7, <1>8 DEF LsxSizes

LEMMA MeasuredRow ==
  ASSUME DiskInv, TreeInv, LsxSizes, UNCHANGED <<diskVars, mtime, blind>>,
         NEW n \in Nodes, There(n), NEW r \in Row, NEW dirs \in Seq(Frame), dirs # << >>, Measure(n, r, dirs),
         Nested(dirs), Rest(dirs) \cap Below(n) = {}, Rest(dirs) \cup Below(n) \subseteq Below(r.name),
         r.star \/ Whole(r.size, Below(r.name) \ (Rest(dirs) \cup Below(n)))
  PROVE  LsxSizes'
<1>1. CASE ~IsDir(n) /\ SizeIs([r EXCEPT !.size = @ + SizeOf(n)], dirs)
  <2>1. SizeOf(n) \in Nat
    BY FixedIsFinite
  <2>2. PICK x \in Row : /\ x = [r EXCEPT !.size = @ + SizeOf(n)]
                         /\ x.name = r.name /\ x.star = r.star /\ x.size = r.size + SizeOf(n)
    BY <2>1, RowAdds, Zenon
  <2>3. x.name = r.name /\ x.star = r.star /\ x.size = r.size + SizeOf(n)
    BY <2>2
  <2>4. ASSUME ~r.star PROVE Whole(x.size, Below(x.name) \ Rest(dirs))
    <3> DEFINE S == Below(r.name) \ (Rest(dirs) \cup Below(n))
               k == r.size
               l == SizeOf(n)
    <3>1. Whole(k, S) /\ Whole(l, Below(n)) /\ S \cap Below(n) = {}
      BY <1>1, <2>4, WholeLeaf
    <3>2. S \cup Below(n) = Below(x.name) \ Rest(dirs)
      BY <2>3
    <3>3. x.size = k + l
      BY <2>3
    <3> HIDE DEF S, k, l
    <3>4. Whole(k + l, S \cup Below(n))
      BY <3>1, WholeAdds
    <3> QED BY <3>2, <3>3, <3>4, Zenon
  <2> QED BY <1>1, <2>2, <2>3, <2>4, SizedRow
<1>2. CASE IsDir(n) /\ pc' = "open" /\ cur' = n /\ row' = r /\ stack' = dirs /\ UNCHANGED rows
  <2>1. blind' = {} /\ \A x \in rows' : x.star \/ Whole(x.size, Below(x.name))'
    BY <1>2, WholeStays DEF LsxSizes
  <2>2. ToSize' = Rest(dirs) \cup Below(n)
    BY <1>2 DEF ToSize
  <2>3. r.star \/ Whole(r.size, Below(r.name) \ (Rest(dirs) \cup Below(n)))'
    BY WholeStays
  <2>4. row'.star \/ Whole(row.size, Below(row.name) \ ToSize)'
    BY <1>2, <2>2, <2>3
  <2>5. Nested(stack)' /\ ToSize' \subseteq Below(row'.name) /\ Below(cur') \cap Rest(stack') = {}
    BY <1>2, <2>2
  <2> QED BY <1>2, <2>1, <2>4, <2>5 DEF LsxSizes
<1> QED BY <1>1, <1>2 DEF Measure

LEMMA LsxRowSizes ==
  ASSUME DiskInv, TreeInv, LsxFrame, LsxSizes, LsxRow, UNCHANGED <<diskVars, mtime, blind>>
  PROVE  LsxSizes'
<1>0. pc = "list" /\ stack \in Seq(Frame) /\ stack # << >> /\ Len(stack) = 1
  BY DEF LsxRow, LsxFrame
<1>1. PICK n \in ThereIn(Root) \ Top.listed :
       \/ pc' = "done" /\ UNCHANGED rows
       \/ stack' = Marked(n) /\ UNCHANGED <<pc, rows>>
       \/ Resolves(n) /\ Measure(n, [name |-> n, size |-> 0, star |-> FALSE, seen |-> {}], Marked(n))
  BY DEF LsxRow
<1>2. n \in Nodes /\ entry[n].kind # "absent"
  BY DEF ThereIn, Children
<1>3. PICK dirs \in Seq(Frame) : dirs = Marked(n) /\ Len(dirs) = 1 /\ dirs # << >>
  BY <1>0, <1>2, MarkedStack
<1>4. ASSUME UNCHANGED rows, ~Measured' PROVE LsxSizes'
  BY <1>4, WholeStays DEF LsxSizes
<1>5. CASE Resolves(n) /\ Measure(n, [name |-> n, size |-> 0, star |-> FALSE, seen |-> {}], Marked(n))
  <2>1. PICK r \in Row : r = [name |-> n, size |-> 0, star |-> FALSE, seen |-> {}]
    BY <1>2 DEF Row
  <2>2. Nested(dirs) /\ Rest(dirs) = {}
    BY <1>3, RestOfOne
  <2>3. Below(r.name) \ (Rest(dirs) \cup Below(n)) = {}
    BY <2>1
  <2>4. Whole(0, {})
    BY WholeNothing DEF Fixed
  <2>5. Whole(r.size, Below(r.name) \ (Rest(dirs) \cup Below(n)))
    BY <2>1, <2>3, <2>4
  <2>6. There(n) /\ Measure(n, r, dirs)
    BY <1>2, <1>3, <1>5, <2>1 DEF There
  <2>7. Rest(dirs) \cap Below(n) = {} /\ Rest(dirs) \cup Below(n) \subseteq Below(r.name)
    BY <2>1, <2>2
  <2> QED BY <1>2, <1>3, <2>2, <2>5, <2>6, <2>7, MeasuredRow
<1>6. CASE pc' = "done" /\ UNCHANGED rows
  BY <1>4, <1>6 DEF Measured
<1>7. CASE stack' = Marked(n) /\ UNCHANGED <<pc, rows>>
  <2>1. ~(Len(stack') > 1)
    <3>1. stack' = dirs
      BY <1>3, <1>7
    <3>2. Len(stack') = 1
      BY <1>3, <3>1
    <3> QED BY <3>2
  <2> QED BY <1>0, <1>4, <1>7, <2>1 DEF Measured
<1> QED BY <1>1, <1>5, <1>6, <1>7

LEMMA LsxOpenSizes ==
  ASSUME DiskInv, LsxFrame, LsxSizes, LsxOpen, UNCHANGED <<diskVars, mtime, blind>>
  PROVE  LsxSizes'
<1>0. /\ pc = "open" /\ Measured /\ stack \in Seq(Frame) /\ stack # << >> /\ cur \in Nodes /\ row \in Row
  BY DEF LsxOpen, LsxFrame, Measured
<1>1. /\ Nested(stack) /\ Rest(stack) \cup Below(cur) \subseteq Below(row.name)
      /\ Below(cur) \cap Rest(stack) = {}
      /\ row.star \/ Whole(row.size, Below(row.name) \ (Rest(stack) \cup Below(cur)))
  BY <1>0 DEF LsxSizes, ToSize
<1>2. CASE /\ IsDir(cur) /\ pc' = "list" /\ UNCHANGED <<row, rows>>
           /\ stack' = Append(stack, [dir |-> cur, listed |-> {}])
  <2>1. PICK s, d, x : s = stack' /\ d = cur /\ x = row
    OBVIOUS
  <2>2. Nested(s) /\ Rest(s) \cup {d} = Rest(stack) \cup Below(d) /\ d \notin Rest(s) /\ d \in Below(d)
    <3>1. d \in Nodes /\ Below(d) \cap Rest(stack) = {} /\ s = Append(stack, [dir |-> d, listed |-> {}])
      BY <1>0, <1>1, <1>2, <2>1
    <3>2. d \in Below(d)
      BY <3>1, BelowDirectory
    <3> QED BY <1>0, <1>1, <3>1, <3>2, PushedRest
  <2>3. ToSize' = Rest(s)
    BY <1>2, <2>1 DEF ToSize
  <2>4. d \notin Fixed(Below(x.name)) /\ d \notin Fixed({d})
    BY <1>2, <2>1 DEF Fixed, IsDir
  <2>5. Fixed(Below(x.name) \ (Rest(stack) \cup Below(d))) = Fixed(Below(x.name) \ Rest(s))
    BY <2>2, <2>4 DEF Fixed
  <2>6. PICK S : S = Below(x.name) \ (Rest(stack) \cup Below(d))
    OBVIOUS
  <2>7. x.star \/ Whole(x.size, S)
    BY <1>1, <2>1, <2>6
  <2>8. x.star \/ Whole(x.size, Below(x.name) \ Rest(s))
    BY <2>5, <2>6, <2>7, WholeSame
  <2>9. x.star \/ Whole(x.size, Below(x.name) \ Rest(s))'
    BY <2>8, WholeStays
  <2>10. row' = x /\ stack' = s
    BY <1>2, <2>1
  <2>11. row'.star \/ Whole(row.size, Below(row.name) \ ToSize)'
    BY <2>3, <2>9, <2>10
  <2>12. Nested(stack)' /\ ToSize' \subseteq Below(row'.name)
    BY <1>1, <2>1, <2>2, <2>3, <2>10
  <2>13. blind' = {} /\ \A r \in rows' : r.star \/ Whole(r.size, Below(r.name))'
    BY <1>2, WholeStays DEF LsxSizes
  <2> QED BY <1>2, <2>11, <2>12, <2>13 DEF LsxSizes
<1>3. CASE SizeIs(Starred(row), stack)
  <2>1. PICK r \in Row : r = Starred(row) /\ r.name = row.name /\ r.star = TRUE
    BY <1>0, RowStars, Zenon
  <2>2. PICK dirs \in Seq(Frame) : dirs = stack
    BY <1>0
  <2> QED BY <1>0, <1>1, <1>3, <2>1, <2>2, SizedRow
<1> QED BY <1>2, <1>3 DEF LsxOpen

LEMMA LsxChildSizes ==
  ASSUME DiskInv, TreeInv, LsxFrame, LsxSizes, LsxChild, UNCHANGED <<diskVars, mtime, blind>>
  PROVE  LsxSizes'
<1>0. /\ pc = "list" /\ Len(stack) > 1 /\ stack \in Seq(Frame) /\ stack # << >> /\ row \in Row
      /\ Nested(stack) /\ Rest(stack) \subseteq Below(row.name)
      /\ row.star \/ Whole(row.size, Below(row.name) \ Rest(stack))
  BY DEF LsxChild, LsxFrame, LsxSizes, Measured, ToSize
<1> DEFINE seen(n) == [row EXCEPT !.seen = @ \cup {n}]
<1>1. PICK n \in ThereIn(Top.dir) \ Top.listed :
        \/ SizeIs(Starred(seen(n)), Pop)
        \/ SizeIs(Starred(seen(n)), Marked(n))
        \/ Resolves(n) /\ Measure(n, seen(n), Marked(n))
  BY DEF LsxChild
<1>2. n \in Nodes /\ entry[n].kind # "absent" /\ n \in Children(Top.dir) \ Top.listed
  BY DEF ThereIn, Children
<1>3. PICK r \in Row : r = seen(n) /\ r.name = row.name /\ r.size = row.size /\ r.star = row.star
  BY <1>0, <1>2, RowSees
<1>4. PICK starred \in Row : starred = Starred(seen(n)) /\ starred.name = row.name /\ starred.star = TRUE
  <2> HIDE DEF seen
  <2> QED BY <1>3, RowStars
<1> HIDE DEF seen
<1>5. PICK marked \in Seq(Frame) :
        /\ marked = Marked(n) /\ Len(marked) = Len(stack) /\ Nested(marked)
        /\ Rest(stack) = Rest(marked) \cup Below(n) /\ Rest(marked) \cap Below(n) = {}
  BY <1>0, <1>2, MarkedRest
<1>6. PICK popped \in Seq(Frame) : popped = Pop /\ popped # << >>
  BY <1>0, PoppedStack
<1>7. CASE SizeIs(Starred(seen(n)), Pop)
  <2>1. Nested(popped) /\ Rest(popped) \subseteq Rest(stack)
    BY <1>0, <1>6, PoppedRest
  <2> QED BY <1>0, <1>4, <1>6, <1>7, <2>1, SizedRow
<1>8. CASE SizeIs(Starred(seen(n)), Marked(n))
  <2>1. marked # << >>
    BY <1>0, <1>5
  <2> QED BY <1>0, <1>4, <1>5, <1>8, <2>1, SizedRow
<1>9. CASE Resolves(n) /\ Measure(n, seen(n), Marked(n))
  <2>1. marked # << >>
    BY <1>0, <1>5
  <2>2. There(n) /\ Measure(n, r, marked)
    BY <1>2, <1>3, <1>5, <1>9 DEF There
  <2>3. r.star \/ Whole(r.size, Below(r.name) \ (Rest(marked) \cup Below(n)))
    BY <1>0, <1>3, <1>5, Zenon
  <2>4. Rest(marked) \cup Below(n) \subseteq Below(r.name)
    BY <1>0, <1>3, <1>5
  <2> QED BY <1>2, <1>5, <2>1, <2>2, <2>3, <2>4, MeasuredRow
<1> QED BY <1>1, <1>7, <1>8, <1>9

LEMMA LsxEndSizes ==
  ASSUME DiskInv, LsxFrame, LsxSizes, LsxEnd, UNCHANGED <<diskVars, mtime, blind>>
  PROVE  LsxSizes'
<1>0. pc = "list" /\ stack \in Seq(Frame) /\ stack # << >> /\ row \in Row
  BY DEF LsxEnd, LsxFrame
<1>1. ASSUME Len(stack) > 1
      PROVE  /\ Nested(stack) /\ Rest(stack) \subseteq Below(row.name)
             /\ row.star \/ Whole(row.size, Below(row.name) \ Rest(stack))
  BY <1>0, <1>1 DEF LsxSizes, Measured, ToSize
<1>2. ASSUME Len(stack) > 1
      PROVE  \E s \in Seq(Frame) : s = Pop /\ s # << >> /\ Nested(s) /\ Rest(stack) = Rest(s) \cup Unlisted(Top)
  BY <1>0, <1>1, <1>2, PoppedStack, PoppedRest
<1>3. CASE Len(stack) > 1 /\ AllListed /\ SizeIs(row, Pop)
  <2>1. PICK s \in Seq(Frame) : s = Pop /\ s # << >> /\ Nested(s) /\ Rest(stack) = Rest(s) \cup Unlisted(Top)
    BY <1>2, <1>3
  <2>2. PICK r \in Row : r = row
    BY <1>0
  <2>3. ASSUME NEW t \in Nodes, t \in Unlisted(Top) PROVE ~Untouched(t) \/ entry[t].kind # "file"
    <3> SUFFICES ASSUME t \in Steady, entry[t].kind = "file" PROVE FALSE
      BY DEF Untouched
    <3>1. PICK c \in Children(Top.dir) \ Top.listed : c \in Up[t]
      BY <2>3 DEF Unlisted, InFrame
    <3>2. c \in Steady /\ c \in ThereIn(Top.dir)
      BY <3>1, SteadyAbove DEF ThereIn, Steady, There
    <3> QED BY <1>3, <3>1, <3>2 DEF AllListed
  <2>4. Fixed(Below(r.name) \ Rest(stack)) = Fixed(Below(r.name) \ Rest(s))
    <3>1. Unlisted(Top) \subseteq Nodes
      BY DEF Unlisted
    <3> QED BY <2>1, <2>3, <3>1 DEF Fixed
  <2>5. PICK S : S = Below(r.name) \ Rest(stack)
    OBVIOUS
  <2>6. r.star \/ Whole(r.size, S)
    BY <1>1, <1>3, <2>2, <2>5
  <2>7. r.star \/ Whole(r.size, Below(r.name) \ Rest(s))
    BY <2>4, <2>5, <2>6, WholeSame
  <2>8. Rest(s) \subseteq Below(r.name)
    BY <1>1, <1>3, <2>1, <2>2
  <2> QED BY <1>3, <2>1, <2>2, <2>7, <2>8, SizedRow
<1>4. CASE Len(stack) > 1 /\ SizeIs(Starred(row), Pop)
  <2>1. PICK s \in Seq(Frame) : s = Pop /\ s # << >> /\ Nested(s) /\ Rest(stack) = Rest(s) \cup Unlisted(Top)
    BY <1>2, <1>4
  <2>2. PICK r \in Row : r = Starred(row) /\ r.name = row.name /\ r.star = TRUE
    BY <1>0, RowStars, Zenon
  <2>3. Rest(s) \subseteq Below(r.name)
    BY <1>1, <1>4, <2>1, <2>2
  <2> QED BY <1>4, <2>1, <2>2, <2>3, SizedRow
<1>5. CASE pc' = "done" /\ UNCHANGED rows
  <2>1. ~Measured'
    BY <1>5 DEF Measured
  <2> QED BY <1>5, <2>1, WholeStays DEF LsxSizes
<1> QED BY <1>3, <1>4, <1>5 DEF LsxEnd

LEMMA LsxStartSizes ==
  ASSUME LsxSizes, LsxStart, UNCHANGED <<diskVars, mtime, blind>>
  PROVE  LsxSizes'
<1>1. ~Measured'
  <2>1. CASE stack' = <<[dir |-> Root, listed |-> {}]>> /\ pc' = "list"
    <3>1. Len(stack') = 1
      BY <2>1
    <3> QED BY <2>1, <3>1 DEF Measured
  <2>2. CASE pc' = "done"
    BY <2>2 DEF Measured
  <2> QED BY <2>1, <2>2 DEF LsxStart
<1>2. rows' = rows
  BY DEF LsxStart
<1> QED BY <1>1, <1>2, WholeStays DEF LsxSizes

LEMMA LsxTreeSizes ==
  ASSUME DiskInv, DiskInv', TreeInv, LsxSizes, TreeChanges
  PROVE  LsxSizes'
<1>1. UNCHANGED <<row, rows, pc, cur, stack, blind>>
  BY DEF TreeChanges, Resize, Replace, Change, scanVars, countVars, ghostVars
<1>2. \A r \in rows : r.star \/ Whole(r.size, Below(r.name))'
  BY WholeKept DEF LsxSizes
<1>3. ToSize' = ToSize /\ Measured' = Measured
  BY <1>1 DEF ToSize, Measured
<1>4. ASSUME Measured PROVE row'.star \/ Whole(row.size, Below(row.name) \ ToSize)'
  <2>1. PICK r, S : r = row /\ S = Below(row.name) \ ToSize
    OBVIOUS
  <2>2. r.star \/ Whole(r.size, S)
    BY <1>4, <2>1 DEF LsxSizes
  <2>3. r.star \/ Whole(r.size, S)'
    BY <2>2, WholeKept
  <2>4. row' = r /\ (Below(row.name) \ ToSize)' = S
    BY <1>1, <1>3, <2>1
  <2> QED BY <2>3, <2>4
<1> QED BY <1>1, <1>2, <1>3, <1>4 DEF LsxSizes

-----------------------------------------------------------------------------
(* lsx.py: an inode counts once.  The row at hand is for the inodes of      *)
(* fixed files it has seen; those below its name that are neither waiting   *)
(* in the queue nor hidden (passed over) are among them.                    *)

Inos(S) == {entry[n].ino : n \in S}
Load(I) == Sum([i \in Inodes |-> disk[i].size], I)

Holds(k, I) == k \in Nat /\ Load(I) <= k /\ (events = Events => k = Load(I))

RowHolds(name, size, seen, hidden, queue) ==
  LET fixed == Inos(Fixed(Below(name) \ (hidden \cup queue)))
      known == seen \cap Inos(Fixed(Nodes))
  IN /\ Holds(size, known) /\ fixed \subseteq seen
     /\ events = Events => known \subseteq fixed
     /\ queue \subseteq Below(name) \ hidden
     /\ \A n \in Steady \cap queue : IsDir(n) => entry[n].ino \notin seen

LEMMA InosAreFinite ==
  ASSUME DiskInv, NEW I, I \subseteq Inos(Fixed(Nodes))
  PROVE  /\ I \in SUBSET Inodes /\ IsFiniteSet(I) /\ Load(I) \in Nat
         /\ \A i \in Inodes : disk[i].size \in Nat /\ [j \in Inodes |-> disk[j].size][i] = disk[i].size
<1>1. I \in SUBSET Inodes
  BY FixedIsFinite DEF Inos, DiskInv, Entry
<1>2. IsFiniteSet(Inodes)
  <2>1. 1 \in Int /\ Cardinality(Nodes) + Events \in Int
    BY NumberOfNodes
  <2> QED BY <2>1, FS_Interval DEF Inodes
<1>3. IsFiniteSet(I)
  BY <1>1, <1>2, FS_Subset
<1>4. \A i \in Inodes : disk[i].size \in Nat
  BY ScanAssumption DEF DiskInv, Inode
<1>5. PICK f : f = [i \in Inodes |-> disk[i].size]
  OBVIOUS
<1>6. \A i \in I : f[i] \in Nat
  BY <1>1, <1>4, <1>5
<1>7. Sum(f, I) \in Nat
  BY <1>3, <1>6, SumNatural
<1> QED BY <1>1, <1>3, <1>4, <1>5, <1>7 DEF Load

LEMMA LoadGrows ==
  ASSUME DiskInv, NEW I, I \subseteq Inos(Fixed(Nodes)), NEW J \in SUBSET I
  PROVE  Load(J) <= Load(I)
<1>1. PICK f : f = [i \in Inodes |-> disk[i].size]
  OBVIOUS
<1>2. IsFiniteSet(I) /\ \A i \in I : f[i] \in Nat
  BY <1>1, InosAreFinite
<1>3. Sum(f, J) <= Sum(f, I)
  BY <1>2, SumSubset
<1> QED BY <1>1, <1>3 DEF Load

LEMMA LoadAdds ==
  ASSUME DiskInv, NEW I, NEW i, i \notin I, I \cup {i} \subseteq Inos(Fixed(Nodes))
  PROVE  Load(I \cup {i}) = Load(I) + disk[i].size
<1>1. PICK f : f = [j \in Inodes |-> disk[j].size]
  OBVIOUS
<1>2. PICK J : J = I \cup {i}
  OBVIOUS
<1>3. IsFiniteSet(J) /\ (\A j \in J : f[j] \in Int) /\ f[i] = disk[i].size
  <2>1. J \in SUBSET Inodes /\ IsFiniteSet(J) /\ \A j \in Inodes : disk[j].size \in Nat /\ f[j] = disk[j].size
    BY <1>1, <1>2, InosAreFinite
  <2> QED BY <1>2, <2>1
<1>4. Sum(f, J) = f[i] + Sum(f, J \ {i})
  BY <1>2, <1>3, SumStep
<1>5. J \ {i} = I
  BY <1>2
<1>6. Load(I) \in Nat /\ disk[i].size \in Nat
  <2>1. I \subseteq Inos(Fixed(Nodes)) /\ i \in Inodes
    BY InosAreFinite
  <2> QED BY <2>1, InosAreFinite
<1>7. Sum(f, J) = f[i] + Sum(f, I)
  BY <1>4, <1>5, Zenon
<1>8. Load(J) = disk[i].size + Load(I)
  BY <1>1, <1>3, <1>7 DEF Load
<1> QED BY <1>2, <1>6, <1>8

(* A row begins with all below its name waiting, *)
LEMMA RowBegins ==
  ASSUME NEW n, NEW hidden, Below(n) \cap hidden = {}
  PROVE  RowHolds(n, 0, {}, hidden, Below(n))
<1>1. Below(n) \ (hidden \cup Below(n)) = {} /\ {} \cap Inos(Fixed(Nodes)) = {}
  OBVIOUS
<1>2. Inos(Fixed({})) = {}
  BY DEF Inos, Fixed
<1>3. Load({}) = 0
  BY SumEmpty DEF Load
<1>4. Holds(0, {})
  BY <1>3 DEF Holds
<1>5. Holds(0, {} \cap Inos(Fixed(Nodes))) /\ Inos(Fixed(Below(n) \ (hidden \cup Below(n)))) = {}
  BY <1>1, <1>2, <1>4, Zenon
<1> QED BY <1>5 DEF RowHolds

(* and is complete when nothing is. *)
LEMMA RowEnds ==
  ASSUME DiskInv, NEW name, NEW size, NEW seen, NEW hidden, RowHolds(name, size, seen, hidden, {})
  PROVE  Holds(size, Inos(Fixed(Below(name) \ hidden)))
<1>1. PICK I, J : I = seen \cap Inos(Fixed(Nodes)) /\ J = Inos(Fixed(Below(name) \ hidden))
  OBVIOUS
<1>2. hidden \cup {} = hidden
  OBVIOUS
<1>3. Holds(size, I) /\ J \subseteq seen /\ (events = Events => I \subseteq J)
  BY <1>1, <1>2 DEF RowHolds
<1>4. J \subseteq Inos(Fixed(Nodes))
  BY <1>1, FixedIsFinite DEF Inos, Fixed
<1>5. J \subseteq I
  BY <1>1, <1>3, <1>4
<1>6. Load(J) <= Load(I) /\ Load(I) \in Nat /\ Load(J) \in Nat
  BY <1>1, <1>4, <1>5, LoadGrows, InosAreFinite
<1>7. events = Events => I = J
  BY <1>3, <1>5
<1>8. Holds(size, J)
  BY <1>3, <1>6, <1>7 DEF Holds
<1> QED BY <1>1, <1>8

(* What waits may be passed over, *)
LEMMA RowHides ==
  ASSUME NEW name, NEW size, NEW seen, NEW hidden, NEW queue, RowHolds(name, size, seen, hidden, queue),
         NEW H \in SUBSET queue
  PROVE  RowHolds(name, size, seen, hidden \cup H, queue \ H)
<1>1. (hidden \cup H) \cup (queue \ H) = hidden \cup queue
  OBVIOUS
<1>2. queue \ H \subseteq Below(name) \ (hidden \cup H)
  BY DEF RowHolds
<1> QED BY <1>1, <1>2 DEF RowHolds

(* be of no account, *)
LEMMA RowDrops ==
  ASSUME NEW name, NEW size, NEW seen, NEW hidden, NEW queue, RowHolds(name, size, seen, hidden, queue),
         NEW D, Inos(Fixed(D)) \subseteq seen, NEW rest, rest = queue \ D
  PROVE  RowHolds(name, size, seen, hidden, rest)
<1>1. Fixed(Below(name) \ (hidden \cup rest)) \subseteq Fixed(Below(name) \ (hidden \cup queue)) \cup Fixed(D)
  BY DEF Fixed
<1>2. Fixed(Below(name) \ (hidden \cup queue)) \subseteq Fixed(Below(name) \ (hidden \cup rest))
  BY DEF Fixed
<1>3. Inos(Fixed(Below(name) \ (hidden \cup rest))) \subseteq seen
  BY <1>1 DEF Inos, RowHolds
<1>4. Inos(Fixed(Below(name) \ (hidden \cup queue))) \subseteq Inos(Fixed(Below(name) \ (hidden \cup rest)))
  BY <1>2 DEF Inos
<1> QED BY <1>3, <1>4 DEF RowHolds

(* be another name of an inode that has been seen,                          *)
LEMMA RowSkips ==
  ASSUME NEW name, NEW size, NEW seen, NEW hidden, NEW queue, RowHolds(name, size, seen, hidden, queue),
         NEW c \in Nodes, Below(c) \subseteq queue, entry[c].ino \in seen
  PROVE  RowHolds(name, size, seen, hidden, queue \ Below(c))
<1>1. ASSUME NEW n \in Fixed(Below(c)) PROVE n = c
  <2>1. n \in Steady /\ entry[n].kind = "file" /\ c \in Up[n]
    BY <1>1, BelowIsAbove DEF Fixed, Untouched
  <2>2. c \in Steady /\ (c # n => IsDir(c))
    BY <2>1, SteadyAbove, OnTheWayThere DEF IsDir
  <2>3. c \in queue
    BY BelowDirectory
  <2> QED BY <2>2, <2>3 DEF RowHolds
<1>2. Inos(Fixed(Below(c))) \subseteq seen
  BY <1>1 DEF Inos
<1> QED BY <1>2, RowDrops

(* a file, *)
LEMMA RowTakesFile ==
  ASSUME DiskInv, TreeInv, NEW name, NEW size, NEW seen, NEW hidden, NEW queue,
         RowHolds(name, size, seen, hidden, queue),
         NEW c \in Nodes, There(c), ~IsDir(c), Below(c) \subseteq queue, NEW i, i = entry[c].ino, i \notin seen
  PROVE  RowHolds(name, size + SizeOf(c), seen \cup {i}, hidden, queue \ Below(c))
<1>1. c \in Below(c) /\ c \in Below(name) \ hidden
  BY BelowDirectory DEF RowHolds
<1>2. Fixed(Below(c)) \subseteq {c} /\ Whole(SizeOf(c), Below(c))
  BY WholeLeaf
<1>3. PICK I, F, G : /\ I = Inos(Fixed(Nodes)) /\ F = Inos(Fixed(Below(name) \ (hidden \cup queue)))
                     /\ G = Inos(Fixed(Below(name) \ (hidden \cup (queue \ Below(c)))))
  OBVIOUS
<1>4. /\ Holds(size, seen \cap I) /\ F \subseteq seen /\ (events = Events => seen \cap I \subseteq F)
      /\ queue \subseteq Below(name) \ hidden
      /\ \A n \in Steady \cap queue : IsDir(n) => entry[n].ino \notin seen
  BY <1>3 DEF RowHolds
<1>5. SizeOf(c) \in Nat /\ size \in Nat /\ seen \cap I \subseteq Inos(Fixed(Nodes)) /\ Load(seen \cap I) \in Nat
  <2>1. seen \cap I \subseteq Inos(Fixed(Nodes))
    BY <1>3
  <2> QED BY <1>4, <2>1, FixedIsFinite, InosAreFinite DEF Holds
<1>6. Holds(size + SizeOf(c), (seen \cup {i}) \cap I)
  <2>1. CASE i \in I
    <3>1. PICK n \in Nodes : entry[n].ino = i /\ entry[n].kind = "file"
      BY <1>3, <2>1 DEF Inos, Fixed
    <3>2. entry[c].kind = "file"
      BY <3>1 DEF TreeInv, There
    <3>3. SizeOf(c) = disk[i].size
      BY <3>2 DEF SizeOf
    <3>4. (seen \cup {i}) \cap I = (seen \cap I) \cup {i} /\ i \notin seen \cap I
      BY <2>1
    <3>5. Load((seen \cap I) \cup {i}) = Load(seen \cap I) + disk[i].size
      <4>1. (seen \cap I) \cup {i} \subseteq Inos(Fixed(Nodes))
        BY <1>3, <2>1
      <4> QED BY <3>4, <4>1, LoadAdds
    <3>6. Load((seen \cup {i}) \cap I) = Load(seen \cap I) + SizeOf(c)
      BY <3>3, <3>4, <3>5, Zenon
    <3> QED BY <1>4, <1>5, <3>6 DEF Holds
  <2>2. CASE i \notin I
    <3>1. (seen \cup {i}) \cap I = seen \cap I
      BY <2>2
    <3>2. c \notin Fixed(Below(c))
      BY <1>3, <2>2 DEF Inos, Fixed
    <3>3. Fixed(Below(c)) = {}
      BY <1>2, <3>2
    <3>4. Weight(Below(c)) = 0
      BY <3>3, SumEmpty DEF Weight
    <3>5. events = Events => SizeOf(c) = 0
      BY <1>2, <3>4 DEF Whole
    <3>6. Holds(size + SizeOf(c), seen \cap I)
      BY <1>4, <1>5, <3>5 DEF Holds
    <3> QED BY <3>1, <3>6, Zenon
  <2> QED BY <2>1, <2>2
<1>7. G \subseteq seen \cup {i}
  <2>1. Fixed(Below(name) \ (hidden \cup (queue \ Below(c)))) \subseteq Fixed(Below(name) \ (hidden \cup queue)) \cup {c}
    BY <1>2 DEF Fixed
  <2>2. G \subseteq F \cup {i}
    BY <1>3, <2>1 DEF Inos
  <2> QED BY <1>4, <2>2
<1>8. ASSUME events = Events PROVE (seen \cup {i}) \cap I \subseteq G
  <2>1. F \subseteq G
    BY <1>3 DEF Inos, Fixed
  <2>2. ASSUME i \in I PROVE i \in G
    <3>1. PICK n \in Nodes : entry[n].ino = i /\ entry[n].kind = "file"
      BY <1>3, <2>2 DEF Inos, Fixed
    <3>2. entry[c].kind = "file"
      BY <3>1 DEF TreeInv, There
    <3>3. c \in Steady
      BY <1>8, UpClosed DEF TreeInv, Steady
    <3>4. mtime[i] = 0
      BY <1>8 DEF TreeInv, DiskInv, Entry
    <3>5. c \in Fixed(Below(name) \ (hidden \cup (queue \ Below(c))))
      BY <1>1, <3>2, <3>3, <3>4 DEF Fixed, Untouched
    <3> QED BY <1>3, <3>5 DEF Inos
  <2> QED BY <1>4, <1>8, <2>1, <2>2
<1>9. ASSUME NEW n \in Steady \cap (queue \ Below(c)), IsDir(n) PROVE entry[n].ino \notin seen \cup {i}
  <2>1. n \in Nodes /\ n # c /\ entry[n].ino \notin seen
    BY <1>1, <1>4, <1>9 DEF Steady
  <2>2. entry[n].ino # i
    BY <1>9, <2>1 DEF TreeInv, IsDir
  <2> QED BY <2>1, <2>2
<1>10. queue \ Below(c) \subseteq Below(name) \ hidden
  BY <1>4
<1> QED BY <1>3, <1>6, <1>7, <1>8, <1>9, <1>10 DEF RowHolds

(* or a directory, which counts nothing. *)
LEMMA RowTakesDir ==
  ASSUME DiskInv, TreeInv, NEW name, NEW size, NEW seen, NEW hidden, NEW queue,
         RowHolds(name, size, seen, hidden, queue),
         NEW c \in queue, c \in Nodes, IsDir(c), NEW i, i = entry[c].ino, i \notin seen
  PROVE  RowHolds(name, size, seen \cup {i}, hidden, queue \ {c})
<1>1. i \notin Inos(Fixed(Nodes))
  <2> SUFFICES ASSUME NEW n \in Fixed(Nodes), entry[n].ino = i PROVE FALSE
    BY DEF Inos
  <2>1. n \in Nodes /\ entry[n].kind = "file" /\ entry[c].kind = "dir"
    BY DEF Fixed, IsDir
  <2> QED BY <2>1 DEF TreeInv
<1>2. (seen \cup {i}) \cap Inos(Fixed(Nodes)) = seen \cap Inos(Fixed(Nodes))
  BY <1>1
<1>3. Fixed(Below(name) \ (hidden \cup (queue \ {c}))) = Fixed(Below(name) \ (hidden \cup queue))
  BY DEF Fixed, IsDir
<1>4. ASSUME NEW n \in Steady \cap (queue \ {c}), IsDir(n) PROVE entry[n].ino \notin seen \cup {i}
  <2>1. n \in Nodes /\ n # c /\ entry[n].ino \notin seen
    BY <1>4 DEF Steady, RowHolds
  <2>2. entry[n].ino # i
    BY <1>4, <2>1 DEF TreeInv, IsDir
  <2> QED BY <2>1, <2>2
<1> QED BY <1>2, <1>3, <1>4 DEF RowHolds

(* A step of the listing takes nothing from what a row holds. *)
LEMMA RowStays ==
  ASSUME UNCHANGED <<diskVars, mtime>>
  PROVE  /\ \A k, S : Holds(k, Inos(Fixed(S))) => Holds(k, Inos(Fixed(S)))'
         /\ \A name, size, seen, hidden, queue :
              RowHolds(name, size, seen, hidden, queue) => RowHolds(name, size, seen, hidden, queue)'
<1>1. entry' = entry /\ disk' = disk /\ events' = events /\ mtime' = mtime
  BY DEF diskVars
<1>2. Steady' = Steady
  BY <1>1 DEF Steady, There, Resolves
<1>3. \A S : Inos(Fixed(S))' = Inos(Fixed(S))
  BY <1>1, <1>2 DEF Inos, Fixed, Untouched
<1>4. \A k, I : Holds(k, I)' <=> Holds(k, I)
  BY <1>1 DEF Holds, Load
<1>5. \A k, S : Holds(k, Inos(Fixed(S))) => Holds(k, Inos(Fixed(S)))'
  BY <1>3, <1>4
<1>6. ASSUME NEW name, NEW size, NEW seen, NEW hidden, NEW queue, RowHolds(name, size, seen, hidden, queue)
      PROVE  RowHolds(name, size, seen, hidden, queue)'
  <2>1. PICK I, F : I = seen \cap Inos(Fixed(Nodes)) /\ F = Inos(Fixed(Below(name) \ (hidden \cup queue)))
    OBVIOUS
  <2>2. I = (seen \cap Inos(Fixed(Nodes)))' /\ F = Inos(Fixed(Below(name) \ (hidden \cup queue)))'
    BY <1>3, <2>1
  <2>3. Holds(size, I)' /\ F \subseteq seen /\ (events' = Events => I \subseteq F)
    BY <1>1, <1>4, <1>6, <2>1 DEF RowHolds
  <2>4. \A n \in Steady' \cap queue : IsDir(n)' => entry'[n].ino \notin seen
    BY <1>1, <1>2, <1>6 DEF RowHolds, IsDir
  <2> QED BY <1>6, <2>2, <2>3, <2>4 DEF RowHolds
<1> QED BY <1>5, <1>6

(* Who changes the tree takes inodes of fixed files away, and gives none.   *)
LEMMA InosShrink ==
  ASSUME DiskInv, TreeInv, TreeChanges, NEW S
  PROVE  /\ Inos(Fixed(S))' \subseteq Inos(Fixed(S))
         /\ \A i \in Inos(Fixed(S))' : disk'[i] = disk[i]
<1> SUFFICES ASSUME NEW i \in Inos(Fixed(S))' PROVE i \in Inos(Fixed(S)) /\ disk'[i] = disk[i]
  OBVIOUS
<1>1. PICK n \in Fixed(S)' : i = entry'[n].ino
  BY DEF Inos
<1>2. n \in Fixed(S) /\ entry'[n] = entry[n] /\ disk'[entry[n].ino] = disk[entry[n].ino]
  BY <1>1, FixedShrinks
<1> QED BY <1>1, <1>2 DEF Inos

(* So what holds goes on holding: an inode less makes the least size less.  *)
LEMMA HoldsKept ==
  ASSUME DiskInv, DiskInv', TreeInv, TreeChanges, NEW k, NEW I, I \subseteq Inos(Fixed(Nodes)), Holds(k, I),
         NEW J, J \subseteq I, J \subseteq Inos(Fixed(Nodes))'
  PROVE  Holds(k, J)'
<1>1. events' # Events
  <2>1. events' = events - 1 /\ events \in 0..Events /\ Events \in Nat
    BY NumberOfNodes DEF TreeChanges, Resize, Replace, Change, DiskInv
  <2> QED BY <2>1
<1>2. PICK f, g : f = [i \in Inodes |-> disk[i].size] /\ g = [i \in Inodes |-> disk'[i].size]
  OBVIOUS
<1>3. J \subseteq Inos(Fixed(Nodes)) /\ J \in SUBSET Inodes /\ IsFiniteSet(J) /\ \A i \in J : f[i] \in Int
  <2>1. J \subseteq Inos(Fixed(Nodes))
    OBVIOUS
  <2>2. J \in SUBSET Inodes /\ IsFiniteSet(J)
    BY <2>1, InosAreFinite
  <2>3. \A i \in Inodes : disk[i].size \in Nat
    BY <2>1, InosAreFinite
  <2>4. \A i \in J : f[i] \in Int
    BY <1>2, <2>2, <2>3
  <2> QED BY <2>1, <2>2, <2>4
<1>4. \A i \in J : f[i] = g[i]
  BY <1>2, <1>3, InosShrink
<1>5. Sum(f, J) = Sum(g, J)
  BY <1>3, <1>4, SumEqual
<1>6. Load(J)' = Load(J)
  BY <1>2, <1>5 DEF Load
<1>7. Load(J) <= Load(I) /\ Load(I) \in Nat /\ Load(J) \in Nat /\ k \in Nat /\ Load(I) <= k
  BY <1>3, LoadGrows, InosAreFinite DEF Holds
<1> QED BY <1>1, <1>6, <1>7 DEF Holds

LEMMA RowKept ==
  ASSUME DiskInv, DiskInv', TreeInv, TreeChanges,
         NEW name, NEW size, NEW seen, NEW hidden, NEW queue, RowHolds(name, size, seen, hidden, queue)
  PROVE  RowHolds(name, size, seen, hidden, queue)'
<1>1. PICK I, F, J, G :
        /\ I = seen \cap Inos(Fixed(Nodes)) /\ F = Inos(Fixed(Below(name) \ (hidden \cup queue)))
        /\ J = (seen \cap Inos(Fixed(Nodes)))' /\ G = Inos(Fixed(Below(name) \ (hidden \cup queue)))'
  OBVIOUS
<1>2. Holds(size, I) /\ F \subseteq seen /\ queue \subseteq Below(name) \ hidden
  BY <1>1 DEF RowHolds
<1>3. G \subseteq F /\ J \subseteq I /\ I \subseteq Inos(Fixed(Nodes)) /\ J \subseteq Inos(Fixed(Nodes))'
  BY <1>1, InosShrink
<1>4. Holds(size, J)'
  BY <1>2, <1>3, HoldsKept
<1>5. events' # Events
  <2>1. events' = events - 1 /\ events \in 0..Events /\ Events \in Nat
    BY NumberOfNodes DEF TreeChanges, Resize, Replace, Change, DiskInv
  <2> QED BY <2>1
<1>6. ASSUME NEW n \in Steady' \cap queue, IsDir(n)' PROVE entry'[n].ino \notin seen
  <2>1. n \in Steady /\ entry'[n] = entry[n]
    BY SteadyShrinks
  <2> QED BY <1>6, <2>1 DEF RowHolds, IsDir
<1> QED BY <1>1, <1>2, <1>3, <1>4, <1>5, <1>6 DEF RowHolds

-----------------------------------------------------------------------------
(* The queue: no path waits twice *)

Pending(s)  == UNION {Below(s[i]) : i \in DOMAIN s}
Separate(s) == \A i, j \in DOMAIN s : i # j => Below(s[i]) \cap Below(s[j]) = {}

LEMMA TakenPending ==
  ASSUME NEW s \in Seq(Nodes), s # << >>, Separate(s)
  PROVE  /\ Last(s) \in Nodes /\ Front(s) \in Seq(Nodes) /\ Separate(Front(s))
         /\ Pending(s) = Pending(Front(s)) \cup Below(Last(s))
         /\ Pending(Front(s)) \cap Below(Last(s)) = {}
<1> DEFINE k == Len(s)
<1>1. k \in Nat \ {0} /\ DOMAIN s = 1..k
  OBVIOUS
<1>2. Last(s) = s[k] /\ Last(s) \in Nodes
  BY <1>1 DEF Last
<1>3. PICK r : r = Front(s)
  OBVIOUS
<1>4. r \in Seq(Nodes) /\ Len(r) = k - 1 /\ \A i \in 1..(k - 1) : r[i] = s[i]
  BY <1>1, <1>3 DEF Front
<1>5. DOMAIN r = 1..(k - 1)
  BY <1>1, <1>4
<1> HIDE DEF k
<1>6. \A i \in 1..k : i = k \/ i \in 1..(k - 1)
  BY <1>1
<1>7. \A i \in 1..(k - 1) : i \in 1..k /\ k \in 1..k /\ i # k
  BY <1>1
<1>8. Separate(r)
  BY <1>1, <1>4, <1>5, <1>7 DEF Separate
<1>9. Pending(s) = Pending(r) \cup Below(s[k])
  <2>1. \A i \in 1..k : Below(s[i]) \subseteq Pending(r) \cup Below(s[k])
    BY <1>4, <1>5, <1>6 DEF Pending
  <2>2. \A i \in 1..(k - 1) : Below(r[i]) \subseteq Pending(s)
    BY <1>1, <1>4, <1>7 DEF Pending
  <2>3. Below(s[k]) \subseteq Pending(s)
    <3>1. k \in 1..k
      BY <1>1
    <3> QED BY <1>1, <3>1 DEF Pending
  <2>4. Pending(s) \subseteq Pending(r) \cup Below(s[k])
    BY <1>1, <2>1 DEF Pending
  <2>5. Pending(r) \subseteq Pending(s)
    BY <1>5, <2>2 DEF Pending
  <2> QED BY <2>3, <2>4, <2>5
<1>10. Pending(r) \cap Below(s[k]) = {}
  <2> SUFFICES ASSUME NEW i \in 1..(k - 1) PROVE Below(r[i]) \cap Below(s[k]) = {}
    BY <1>5 DEF Pending
  <2> QED BY <1>1, <1>4, <1>7 DEF Separate
<1> QED BY <1>2, <1>3, <1>4, <1>8, <1>9, <1>10

LEMMA JoinedPending ==
  ASSUME NEW s \in Seq(Nodes), NEW r \in Seq(Nodes), Separate(s), Separate(r), Pending(s) \cap Pending(r) = {}
  PROVE  Separate(s \o r) /\ Pending(s \o r) = Pending(s) \cup Pending(r)
<1> DEFINE k == Len(s)
           l == Len(r)
<1>1. PICK q : q = s \o r
  OBVIOUS
<1>2. /\ k \in Nat /\ l \in Nat /\ Len(q) = k + l /\ DOMAIN q = 1..(k + l) /\ DOMAIN s = 1..k /\ DOMAIN r = 1..l
      /\ \A i \in 1..k : q[i] = s[i]
      /\ \A i \in 1..l : q[k + i] = r[i]
  BY <1>1
<1> HIDE DEF k, l
<1>3. \A i \in 1..(k + l) : i \in 1..k \/ (i - k \in 1..l /\ k + (i - k) = i)
  BY <1>2
<1>4. \A i \in 1..(k + l) : /\ i \in 1..k => q[i] = s[i]
                            /\ i \notin 1..k => i - k \in 1..l /\ q[i] = r[i - k]
  BY <1>2, <1>3
<1>5. \A i \in 1..k : i \in 1..(k + l)
  BY <1>2
<1>6. \A i \in 1..l : k + i \in 1..(k + l)
  BY <1>2
<1>7. Pending(q) = Pending(s) \cup Pending(r)
  <2>1. \A i \in 1..(k + l) : Below(q[i]) \subseteq Pending(s) \cup Pending(r)
    BY <1>2, <1>4 DEF Pending
  <2>2. \A i \in 1..k : Below(s[i]) \subseteq Pending(q)
    BY <1>2, <1>5 DEF Pending
  <2>3. \A i \in 1..l : Below(r[i]) \subseteq Pending(q)
    BY <1>2, <1>6 DEF Pending
  <2>4. Pending(q) \subseteq Pending(s) \cup Pending(r)
    BY <1>2, <2>1 DEF Pending
  <2>5. Pending(s) \subseteq Pending(q)
    BY <1>2, <2>2 DEF Pending
  <2>6. Pending(r) \subseteq Pending(q)
    BY <1>2, <2>3 DEF Pending
  <2> QED BY <2>4, <2>5, <2>6
<1>8. Separate(q)
  <2> SUFFICES ASSUME NEW i \in 1..(k + l), NEW j \in 1..(k + l), i # j
               PROVE  Below(q[i]) \cap Below(q[j]) = {}
    BY <1>2 DEF Separate
  <2>1. CASE i \in 1..k /\ j \in 1..k
    BY <1>2, <2>1 DEF Separate
  <2>2. CASE i \notin 1..k /\ j \notin 1..k
    <3>1. i - k \in 1..l /\ j - k \in 1..l /\ q[i] = r[i - k] /\ q[j] = r[j - k]
      BY <1>4, <2>2
    <3>2. i - k # j - k
      BY <1>2
    <3> QED BY <1>2, <3>1, <3>2 DEF Separate
  <2>3. CASE i \in 1..k /\ j \notin 1..k
    <3>1. j - k \in 1..l /\ q[i] = s[i] /\ q[j] = r[j - k]
      BY <1>4, <2>3
    <3>2. Below(q[i]) \subseteq Pending(s) /\ Below(q[j]) \subseteq Pending(r)
      BY <1>2, <2>3, <3>1 DEF Pending
    <3> QED BY <3>2
  <2>4. CASE i \notin 1..k /\ j \in 1..k
    <3>1. i - k \in 1..l /\ q[i] = r[i - k] /\ q[j] = s[j]
      BY <1>4, <2>4
    <3>2. Below(q[i]) \subseteq Pending(r) /\ Below(q[j]) \subseteq Pending(s)
      BY <1>2, <2>4, <3>1 DEF Pending
    <3> QED BY <3>2
  <2> QED BY <2>1, <2>2, <2>3, <2>4
<1> QED BY <1>1, <1>7, <1>8

LEMMA KidsPending ==
  ASSUME NEW d, NEW S \in SUBSET Children(d), NEW kids \in SetToSeqs(S)
  PROVE  kids \in Seq(Nodes) /\ Separate(kids) /\ Pending(kids) = UNION {Below(c) : c \in S}
<1>1. S \in SUBSET Nodes
  BY DEF Children
<1>2. kids \in Seq(Nodes) /\ \A n \in S : \E i \in DOMAIN kids : kids[i] = n
  BY <1>1, KidsAreAll
<1>3. /\ \A i \in DOMAIN kids : kids[i] \in S
      /\ \A i, j \in DOMAIN kids : i # j => kids[i] # kids[j]
  BY DEF SetToSeqs
<1>4. Separate(kids)
  <2> SUFFICES ASSUME NEW i \in DOMAIN kids, NEW j \in DOMAIN kids, i # j
               PROVE  Below(kids[i]) \cap Below(kids[j]) = {}
    BY DEF Separate
  <2>1. kids[i] \in Children(d) /\ kids[j] \in Children(d) /\ kids[i] # kids[j]
    BY <1>3
  <2> QED BY <2>1, Apart
<1>5. Pending(kids) = UNION {Below(c) : c \in S}
  BY <1>2, <1>3 DEF Pending
<1> QED BY <1>2, <1>4, <1>5

-----------------------------------------------------------------------------
(* The listing of lsx.py *)

InRow == pc \in {"enter row", "open row"}
Queue == Pending(todo) \cup (IF pc = "open row" THEN Below(cur) \ {cur} ELSE {})

RowsHold ==
  /\ pc = "enter" => rows = {} /\ blind = {}
  /\ names \subseteq Children(Root)
  /\ \A n \in names : Below(n) \cap blind = {}
  /\ \A r \in rows : /\ r.name \in Children(Root) \ names /\ (InRow => r.name # row.name)
                     /\ Holds(r.size, Inos(Fixed(Below(r.name) \ blind)))

AtRow ==
  /\ row.name \in Children(Root) \ names /\ Separate(todo)
  /\ pc = "open row" => cur \in Nodes /\ Below(cur) \cap Pending(todo) = {} /\ Below(cur) \subseteq Below(row.name)
  /\ RowHolds(row.name, row.size, row.seen, blind, Queue)

PySizes == RowsHold /\ (InRow => AtRow)

LEMMA PySizesInit == WalkInit => PySizes
<1> SUFFICES ASSUME WalkInit PROVE PySizes
  OBVIOUS
<1>1. pc = "enter" /\ blind = {} /\ rows = {} /\ names = {}
  BY DEF WalkInit, Init
<1> QED BY <1>1 DEF PySizes, RowsHold, InRow

(* A row keeps what it holds, whatever of another one is passed over. *)
LEMMA RowsGoOn ==
  ASSUME RowsHold, AtRow, InRow, UNCHANGED <<diskVars, mtime, names, rows>>,
         blind' \subseteq blind \cup Below(row.name), blind \subseteq blind',
         pc' # "enter", InRow' => row'.name = row.name
  PROVE  RowsHold'
<1>1. row.name \in Children(Root) /\ row.name \notin names /\ names' = names /\ rows' = rows
  BY DEF AtRow
<1>2. ASSUME NEW n \in names' PROVE Below(n) \cap blind' = {}
  <2>1. n \in Children(Root) /\ n # row.name /\ Below(n) \cap blind = {}
    BY <1>1, <1>2 DEF RowsHold
  <2>2. Below(n) \cap Below(row.name) = {}
    BY <1>1, <2>1, Apart
  <2> QED BY <2>1, <2>2
<1>3. ASSUME NEW r \in rows'
      PROVE  /\ r.name \in Children(Root) \ names' /\ (InRow' => r.name # row'.name)
             /\ Holds(r.size, Inos(Fixed(Below(r.name) \ blind)))'
  <2>1. /\ r.name \in Children(Root) \ names /\ r.name # row.name
        /\ Holds(r.size, Inos(Fixed(Below(r.name) \ blind)))
    BY <1>1, <1>3 DEF RowsHold
  <2>2. Below(r.name) \cap Below(row.name) = {}
    BY <1>1, <2>1, Apart
  <2>3. PICK S : S = Below(r.name) \ blind
    OBVIOUS
  <2>4. S = Below(r.name) \ blind'
    BY <2>2, <2>3
  <2>5. Holds(r.size, Inos(Fixed(S)))'
    BY <2>1, <2>3, RowStays
  <2> QED BY <1>1, <2>1, <2>4, <2>5
<1> QED BY <1>1, <1>2, <1>3 DEF RowsHold

(* The row goes on. *)
LEMMA RowGoesOn ==
  ASSUME UNCHANGED <<diskVars, mtime>>,
         NEW name, NEW size, NEW seen, NEW hidden, NEW queue, RowHolds(name, size, seen, hidden, queue),
         row'.name = name, row'.size = size, row'.seen = seen, blind' = hidden, Queue' = queue,
         name \in Children(Root) \ names', Separate(todo)',
         pc' = "open row" =>
           cur' \in Nodes /\ Below(cur') \cap Pending(todo') = {} /\ Below(cur') \subseteq Below(name)
  PROVE  AtRow'
<1>1. RowHolds(name, size, seen, hidden, queue)'
  BY RowStays
<1>2. RowHolds(row.name, row.size, row.seen, blind, Queue)'
  BY <1>1
<1>3. (Below(cur) \cap Pending(todo))' = Below(cur') \cap Pending(todo')
  BY DEF Pending
<1> QED BY <1>2, <1>3 DEF AtRow

LEMMA PyRowsStartSizes ==
  ASSUME PySizes, PyRowsStart, UNCHANGED <<diskVars, mtime>>
  PROVE  PySizes'
<1>1. rows' = {} /\ blind' = {} /\ names \subseteq Children(Root)
  BY DEF PyRowsStart, PySizes, RowsHold
<1>2. ThereIn(Root) \subseteq Children(Root)
  BY DEF ThereIn
<1>3. names' \subseteq Children(Root)
  BY <1>1, <1>2 DEF PyRowsStart
<1>4. pc' \in {"list", "done"}
  BY DEF PyRowsStart
<1> QED BY <1>1, <1>3, <1>4 DEF PySizes, RowsHold, InRow

LEMMA PyRowSizes ==
  ASSUME PySizes, PyRow, UNCHANGED <<diskVars, mtime>>
  PROVE  PySizes'
<1>1. pc = "list" /\ RowsHold /\ blind' = blind /\ rows' = rows /\ ~InRow
  BY DEF PyRow, PySizes, InRow
<1>2. names' \subseteq names /\ (InRow' => row'.name \in names \ names')
  <2>1. CASE \E n \in names : /\ names' = names \ {n} /\ pc' = "enter row"
                              /\ row' = [name |-> n, size |-> 0, star |-> FALSE, seen |-> {}]
    <3>1. PICK n \in names : /\ names' = names \ {n}
                             /\ row' = [name |-> n, size |-> 0, star |-> FALSE, seen |-> {}]
      BY <2>1
    <3>2. row'.name = n
      BY <3>1
    <3> QED BY <3>1, <3>2
  <2>2. CASE names' \subseteq names /\ pc' = "done"
    BY <2>2 DEF InRow
  <2> QED BY <2>1, <2>2 DEF PyRow
<1>3. ASSUME NEW r \in rows'
      PROVE  /\ r.name \in Children(Root) \ names' /\ (InRow' => r.name # row'.name)
             /\ Holds(r.size, Inos(Fixed(Below(r.name) \ blind)))'
  <2>1. r.name \in Children(Root) \ names /\ Holds(r.size, Inos(Fixed(Below(r.name) \ blind)))
    BY <1>1, <1>3 DEF RowsHold
  <2>2. PICK S : S = Below(r.name) \ blind
    OBVIOUS
  <2>3. Holds(r.size, Inos(Fixed(S)))'
    BY <2>1, <2>2, RowStays
  <2> QED BY <1>1, <1>2, <2>1, <2>2, <2>3
<1>4. pc' # "enter" /\ RowsHold'
  <2>1. pc' # "enter"
    BY DEF PyRow
  <2> QED BY <1>1, <1>2, <1>3, <2>1 DEF RowsHold
<1>5. ASSUME InRow' PROVE AtRow'
  <2>1. PICK n \in names :
          /\ names' = names \ {n} /\ pc' = "enter row" /\ todo' = <<n>>
          /\ row' = [name |-> n, size |-> 0, star |-> FALSE, seen |-> {}]
    BY <1>5 DEF PyRow, InRow
  <2>2. row'.name = n /\ row'.size = 0 /\ row'.seen = {}
    BY <2>1
  <2>3. RowHolds(n, 0, {}, blind, Below(n))
    BY <1>1, RowBegins DEF RowsHold
  <2>4. Queue' = Below(n) /\ Separate(todo)'
    <3>1. Pending(<<n>>) = Below(n) /\ Separate(<<n>>)
      BY DEF Pending, Separate
    <3> QED BY <2>1, <3>1 DEF Queue
  <2>5. PICK hidden : hidden = blind
    OBVIOUS
  <2>6. n \in Children(Root) \ names'
    BY <1>1, <2>1 DEF RowsHold
  <2> QED BY <1>1, <2>1, <2>2, <2>3, <2>4, <2>5, <2>6, RowGoesOn
<1> QED BY <1>4, <1>5 DEF PySizes

-----------------------------------------------------------------------------

LEMMA NonePending == Pending(<< >>) = {}
<1>1. << >> \in Seq(Nodes) /\ Len(<< >>) = 0
  BY EmptySeq
<1>2. DOMAIN << >> = 1..0
  BY <1>1, LenProperties
<1>3. \A i \in 1..0 : FALSE
  OBVIOUS
<1> QED BY <1>2, <1>3, Zenon DEF Pending

(* The row at hand is complete. *)
LEMMA RowDone ==
  ASSUME DiskInv, PySizes, pc = "enter row", todo = << >>, rows' = rows \cup {row}, pc' = "list",
         UNCHANGED <<diskVars, mtime, names, blind>>
  PROVE  PySizes'
<1>1. RowsHold /\ AtRow /\ ~InRow' /\ Queue = {}
  BY NonePending DEF PySizes, InRow, Queue
<1>2. Holds(row.size, Inos(Fixed(Below(row.name) \ blind)))
  BY <1>1, RowEnds DEF AtRow
<1>3. ASSUME NEW r \in rows'
      PROVE  r.name \in Children(Root) \ names' /\ Holds(r.size, Inos(Fixed(Below(r.name) \ blind)))'
  <2>1. r.name \in Children(Root) \ names /\ Holds(r.size, Inos(Fixed(Below(r.name) \ blind)))
    <3>1. CASE r \in rows
      BY <1>1, <3>1 DEF RowsHold
    <3>2. CASE r = row
      BY <1>1, <1>2, <3>2 DEF AtRow
    <3> QED BY <1>3, <3>1, <3>2
  <2>2. PICK S : S = Below(r.name) \ blind
    OBVIOUS
  <2>3. Holds(r.size, Inos(Fixed(S)))'
    BY <2>1, <2>2, RowStays
  <2> QED BY <2>1, <2>2, <2>3
<1> QED BY <1>1, <1>3 DEF PySizes, RowsHold

LEMMA PySizeSizes ==
  ASSUME DiskInv, TreeInv, LsxPyAccounted, PySizes, PySize, UNCHANGED <<diskVars, mtime>>
  PROVE  PySizes'
<1>1. /\ pc = "enter row" /\ InRow /\ RowsHold /\ AtRow /\ Queue = Pending(todo) /\ UNCHANGED names
      /\ todo \in Seq(Nodes) /\ row \in Row
  BY DEF PySize, PySizes, InRow, Queue, LsxPyAccounted
<1>2. CASE todo = << >>
  BY <1>1, <1>2, RowDone DEF PySize
<1> SUFFICES ASSUME todo # << >> PROVE PySizes'
  BY <1>2
<1>3. cur' = Last(todo) /\ todo' = Front(todo) /\ UNCHANGED rows
  BY DEF PySize
<1>4. PICK c, Q, B, q, h, x : /\ c = cur' /\ Q = Pending(todo') /\ B = Below(cur') /\ q = Pending(todo)
                              /\ h = blind /\ x = row
  OBVIOUS
<1>5. c \in Nodes /\ Separate(todo)' /\ B = Below(c) /\ q = Q \cup B /\ Q \cap B = {} /\ Q = q \ B
  BY <1>1, <1>3, <1>4, TakenPending DEF AtRow
<1>6. /\ x \in Row /\ x.name \in Children(Root) \ names' /\ RowHolds(x.name, x.size, x.seen, h, q)
      /\ B \subseteq Below(x.name) /\ B \subseteq q
  BY <1>1, <1>4, <1>5 DEF AtRow, RowHolds
<1>7. CASE blind' = blind \cup Below(cur') /\ UNCHANGED <<pc, row>>
  <2>1. RowHolds(x.name, x.size, x.seen, h \cup B, Q)
    <3>1. RowHolds(x.name, x.size, x.seen, h \cup B, q \ B)
      BY <1>6, RowHides
    <3> QED BY <1>5, <3>1, Zenon
  <2>2. Queue' = Q /\ blind' = h \cup B /\ row' = x
    BY <1>1, <1>4, <1>7 DEF Queue
  <2>3. AtRow'
    BY <1>1, <1>5, <1>6, <1>7, <2>1, <2>2, RowGoesOn
  <2>4. RowsHold'
    BY <1>1, <1>3, <1>4, <1>6, <1>7, RowsGoOn DEF AtRow
  <2> QED BY <2>3, <2>4 DEF PySizes
<1>8. CASE There(cur') /\ entry[cur'].ino \in row.seen /\ UNCHANGED <<pc, row, blind>>
  <2>1. RowHolds(x.name, x.size, x.seen, h, Q)
    <3>1. entry[c].ino \in x.seen
      BY <1>4, <1>8
    <3> QED BY <1>5, <1>6, <3>1, RowSkips
  <2>2. Queue' = Q /\ blind' = h /\ row' = x
    BY <1>1, <1>4, <1>8 DEF Queue
  <2>3. AtRow'
    BY <1>1, <1>5, <1>6, <1>8, <2>1, <2>2, RowGoesOn
  <2>4. RowsHold'
    BY <1>1, <1>3, <1>8, RowsGoOn
  <2> QED BY <2>3, <2>4 DEF PySizes
<1>9. CASE /\ There(cur') /\ entry[cur'].ino \notin row.seen /\ UNCHANGED blind
           /\ row' = [row EXCEPT !.seen = @ \cup {entry[cur'].ino}, !.size = @ + SizeOf(cur')]
           /\ \/ ~IsDir(cur') /\ UNCHANGED pc
              \/ IsDir(cur') /\ pc' = "done"
              \/ IsDir(cur') /\ pc' = "open row"
  <2>1. PICK i \in Inodes, k \in Nat : i = entry[c].ino /\ k = SizeOf(c)
    <3>1. entry[c].ino \in Inodes /\ SizeOf(c) \in Nat
      BY <1>5, ScanAssumption DEF SizeOf, DiskInv, Entry, Inode
    <3> QED BY <3>1
  <2>2. row'.name = x.name /\ row'.size = x.size + k /\ row'.seen = x.seen \cup {i}
    <3>1. row' = [x EXCEPT !.seen = @ \cup {i}, !.size = @ + k]
      BY <1>4, <1>9, <2>1
    <3>2. PICK y \in Row : /\ y = [x EXCEPT !.seen = @ \cup {i}]
                           /\ y.name = x.name /\ y.star = x.star /\ y.size = x.size /\ y.seen = x.seen \cup {i}
      BY <1>6, RowSees
    <3>3. row' = [y EXCEPT !.size = @ + k]
      BY <1>6, <3>1, <3>2 DEF Row
    <3> QED BY <3>2, <3>3 DEF Row
  <2>3. RowsHold'
    BY <1>1, <1>3, <1>4, <1>9, <2>2, RowsGoOn
  <2>4. blind' = h /\ There(c) /\ i \notin x.seen
    BY <1>4, <1>9, <2>1
  <2>5. CASE ~IsDir(cur') /\ UNCHANGED pc
    <3>1. RowHolds(x.name, x.size + k, x.seen \cup {i}, h, Q)
      <4>1. ~IsDir(c)
        BY <1>4, <2>5
      <4>2. RowHolds(x.name, x.size + SizeOf(c), x.seen \cup {i}, h, q \ Below(c))
        BY <1>5, <1>6, <2>1, <2>4, <4>1, RowTakesFile
      <4> QED BY <1>5, <2>1, <4>2, Zenon
    <3>2. Queue' = Q
      BY <1>1, <1>4, <2>5 DEF Queue
    <3>3. AtRow'
      BY <1>1, <1>5, <1>6, <2>2, <2>4, <2>5, <3>1, <3>2, RowGoesOn
    <3> QED BY <2>3, <3>3 DEF PySizes
  <2>6. CASE IsDir(cur') /\ pc' = "done"
    BY <2>3, <2>6 DEF PySizes, InRow
  <2>7. CASE IsDir(cur') /\ pc' = "open row"
    <3>1. c \in B /\ IsDir(c) /\ k = 0
      BY <1>4, <1>5, <2>1, <2>7, BelowDirectory DEF IsDir, SizeOf
    <3>2. c \in q /\ q \ {c} = Q \cup (B \ {c})
      BY <1>5, <3>1
    <3>3. RowHolds(x.name, x.size, x.seen \cup {i}, h, Q \cup (B \ {c}))
      <4>1. RowHolds(x.name, x.size, x.seen \cup {i}, h, q \ {c})
        BY <1>5, <1>6, <2>1, <2>4, <3>1, <3>2, RowTakesDir
      <4> QED BY <3>2, <4>1, Zenon
    <3>4. Queue' = Q \cup (B \ {c})
      BY <1>4, <2>7 DEF Queue
    <3>5. row'.size = x.size
      BY <1>6, <2>2, <3>1 DEF Row
    <3>6. cur' \in Nodes /\ Below(cur') \cap Pending(todo') = {} /\ Below(cur') \subseteq Below(x.name)
      BY <1>4, <1>5, <1>6
    <3>7. AtRow'
      BY <1>1, <1>5, <1>6, <2>2, <2>4, <3>3, <3>4, <3>5, <3>6, RowGoesOn
    <3> QED BY <2>3, <3>7 DEF PySizes
  <2> QED BY <1>9, <2>5, <2>6, <2>7
<1> QED BY <1>7, <1>8, <1>9 DEF PySize

(* Nothing below a link counts. *)
LEMMA LinkHasNothing ==
  ASSUME NEW n \in Nodes, entry[n].kind = "special"
  PROVE  Fixed(Below(n)) = {}
<1> SUFFICES ASSUME NEW t \in Fixed(Below(n)) PROVE FALSE
  OBVIOUS
<1>1. t \in Steady /\ n \in Up[t] /\ entry[t].kind = "file"
  BY BelowIsAbove DEF Fixed, Untouched
<1> QED BY <1>1, OnTheWayThere

(* The children that are pushed are what waits below the directory, but for *)
(* those that are passed over and the links.                                *)
Spread(S) == UNION {Below(n) : n \in S}

LEMMA BelowSplits ==
  ASSUME NEW c, c \in Nodes, NEW some, some \subseteq Children(c), NEW links, links \subseteq some
  PROVE  /\ Below(c) \ {c} = Spread(Children(c) \ some) \cup Spread(links) \cup Spread(some \ links)
         /\ Spread(Children(c) \ some) \cap Spread(links) = {}
         /\ Spread(Children(c) \ some) \cap Spread(some \ links) = {}
         /\ Spread(links) \cap Spread(some \ links) = {}
<1>1. Below(c) \ {c} = Spread(Children(c))
  BY BelowDirectory DEF Spread
<1>2. Children(c) = (Children(c) \ some) \cup links \cup (some \ links)
  OBVIOUS
<1>3. Spread(Children(c)) = Spread(Children(c) \ some) \cup Spread(links) \cup Spread(some \ links)
  BY <1>2 DEF Spread
<1>4. ASSUME NEW S \in SUBSET Children(c), NEW R \in SUBSET Children(c), S \cap R = {}
      PROVE  Spread(S) \cap Spread(R) = {}
  <2> SUFFICES ASSUME NEW s \in S, NEW r \in R PROVE Below(s) \cap Below(r) = {}
    BY DEF Spread
  <2>1. s \in Children(c) /\ r \in Children(c) /\ s # r
    BY <1>4
  <2> QED BY <2>1, Apart
<1>5. /\ links \in SUBSET Children(c) /\ some \ links \in SUBSET Children(c)
      /\ Children(c) \ some \in SUBSET Children(c)
  OBVIOUS
<1>6. Spread(Children(c) \ some) \cap Spread(links) = {}
  <2>1. (Children(c) \ some) \cap links = {}
    OBVIOUS
  <2> QED BY <1>4, <1>5, <2>1
<1>7. Spread(Children(c) \ some) \cap Spread(some \ links) = {}
  <2>1. (Children(c) \ some) \cap (some \ links) = {}
    OBVIOUS
  <2> QED BY <1>4, <1>5, <2>1
<1>8. Spread(links) \cap Spread(some \ links) = {}
  <2>1. links \cap (some \ links) = {}
    OBVIOUS
  <2> QED BY <1>4, <1>5, <2>1
<1> QED BY <1>1, <1>3, <1>6, <1>7, <1>8, Zenon

(* What is listed of a directory takes its place in the queue. *)
LEMMA PySizeOpenSizes ==
  ASSUME DiskInv, LsxPyAccounted, PySizes, PySizeOpen, UNCHANGED <<diskVars, mtime>>
  PROVE  PySizes'
<1>1. /\ pc = "open row" /\ InRow /\ RowsHold /\ AtRow /\ todo \in Seq(Nodes)
      /\ UNCHANGED <<cur, names, row, rows>>
  BY DEF PySizeOpen, PySizes, InRow, LsxPyAccounted
<1>2. CASE UNCHANGED blind /\ pc' = "done"
  BY <1>1, <1>2, RowsGoOn DEF PySizes, InRow
<1>3. ASSUME NEW some \in SUBSET ThereIn(cur), NEW links \in LinksIn(some),
             NEW kids \in SetToSeqs(some \ links), todo' = todo \o kids,
             blind' = blind \cup UNION {Below(n) : n \in Children(cur) \ some}, pc' = "enter row"
      PROVE  PySizes'
  <2>1. PICK c, P, h, x : c = cur /\ P = Pending(todo) /\ h = blind /\ x = row
    OBVIOUS
  <2>2. c \in Nodes /\ some \subseteq Children(c) /\ links \subseteq some
    BY <1>1, <2>1 DEF AtRow, ThereIn, LinksIn
  <2>3. PICK H, D, K : H = Spread(Children(c) \ some) /\ D = Spread(links) /\ K = Spread(some \ links)
    OBVIOUS
  <2>4. Below(c) \ {c} = H \cup D \cup K /\ H \cap D = {} /\ H \cap K = {} /\ D \cap K = {}
    <3>1. Below(c) \ {c} = Spread(Children(c) \ some) \cup Spread(links) \cup Spread(some \ links)
      BY <2>2, BelowSplits
    <3>2. /\ Spread(Children(c) \ some) \cap Spread(links) = {}
          /\ Spread(Children(c) \ some) \cap Spread(some \ links) = {}
          /\ Spread(links) \cap Spread(some \ links) = {}
      BY <2>2, BelowSplits
    <3> QED BY <2>3, <3>1, <3>2, Zenon
  <2>5. /\ x.name \in Children(Root) \ names' /\ RowHolds(x.name, x.size, x.seen, h, P \cup (Below(c) \ {c}))
        /\ Below(c) \cap P = {} /\ Below(c) \subseteq Below(x.name) /\ Separate(todo)
    BY <1>1, <2>1 DEF AtRow, Queue
  <2>6. RowHolds(x.name, x.size, x.seen, h \cup H, P \cup D \cup K)
    <3>1. H \subseteq P \cup (Below(c) \ {c}) /\ (P \cup (Below(c) \ {c})) \ H = P \cup D \cup K
      BY <2>4, <2>5
    <3>2. RowHolds(x.name, x.size, x.seen, h \cup H, (P \cup (Below(c) \ {c})) \ H)
      BY <2>5, <3>1, RowHides
    <3> QED BY <3>1, <3>2, Zenon
  <2>7. RowHolds(x.name, x.size, x.seen, h \cup H, P \cup K)
    <3>1. Fixed(D) = {}
      <4> SUFFICES ASSUME NEW t \in Fixed(D) PROVE FALSE
        OBVIOUS
      <4>1. PICK n \in links : t \in Fixed(Below(n))
        BY <2>3 DEF Fixed, Spread
      <4>2. n \in Nodes /\ entry[n].kind = "special"
        BY <2>2 DEF LinksIn, Children
      <4> QED BY <4>1, <4>2, LinkHasNothing
    <3>2. Inos(Fixed(D)) \subseteq x.seen
      BY <3>1 DEF Inos
    <3>3. P \cup K = (P \cup D \cup K) \ D
      BY <2>4, <2>5
    <3> QED BY <2>6, <3>2, <3>3, RowDrops
  <2>8. kids \in Seq(Nodes) /\ Separate(kids) /\ Pending(kids) = K
    BY <2>2, <2>3, KidsPending DEF Spread
  <2>9. Separate(todo)' /\ Pending(todo)' = P \cup K
    <3>1. Pending(todo) \cap Pending(kids) = {}
      BY <2>1, <2>4, <2>5, <2>8
    <3>2. Separate(todo \o kids) /\ Pending(todo \o kids) = Pending(todo) \cup Pending(kids)
      BY <1>1, <2>5, <2>8, <3>1, JoinedPending
    <3>3. Separate(todo') /\ Pending(todo') = P \cup K
      BY <1>3, <2>1, <2>8, <3>2
    <3> QED BY <3>3 DEF Separate, Pending
  <2>10. Queue' = P \cup K /\ blind' = h \cup H /\ row' = x
    BY <1>1, <1>3, <2>1, <2>3, <2>9 DEF Queue, Spread
  <2>11. AtRow'
    BY <1>1, <1>3, <2>5, <2>7, <2>9, <2>10, RowGoesOn
  <2>12. H \subseteq Below(row.name)
    BY <2>1, <2>4, <2>5
  <2>13. RowsHold'
    BY <1>1, <1>3, <2>1, <2>10, <2>12, RowsGoOn
  <2> QED BY <2>11, <2>13 DEF PySizes
<1>4. \E some \in SUBSET ThereIn(cur) : \E links \in LinksIn(some) :
        \/ UNCHANGED blind /\ pc' = "done"
        \/ /\ \E kids \in SetToSeqs(some \ links) : todo' = todo \o kids
           /\ blind' = blind \cup UNION {Below(n) : n \in Children(cur) \ some}
           /\ pc' = "enter row"
  BY DEF PySizeOpen
<1> QED BY <1>2, <1>3, <1>4

-----------------------------------------------------------------------------

LEMMA PyTreeSizes ==
  ASSUME DiskInv, DiskInv', TreeInv, PySizes, TreeChanges
  PROVE  PySizes'
<1>1. UNCHANGED <<pc, cur, todo, names, row, rows, blind>>
  BY DEF TreeChanges, Resize, Replace, Change, scanVars, countVars, ghostVars
<1>2. InRow' = InRow /\ Queue' = Queue /\ Separate(todo)' = Separate(todo)
  BY <1>1 DEF InRow, Queue, Separate, Pending
<1>3. ASSUME NEW r \in rows PROVE Holds(r.size, Inos(Fixed(Below(r.name) \ blind)))'
  <2>1. PICK S, I, J : S = Below(r.name) \ blind /\ I = Inos(Fixed(S)) /\ J = Inos(Fixed(S))'
    OBVIOUS
  <2>2. Holds(r.size, I) /\ I \subseteq Inos(Fixed(Nodes))
    <3>1. Holds(r.size, I)
      BY <2>1 DEF PySizes, RowsHold
    <3>2. I \subseteq Inos(Fixed(Nodes))
      BY <2>1, FixedIsFinite DEF Inos, Fixed
    <3> QED BY <3>1, <3>2
  <2>3. J \subseteq I /\ J \subseteq Inos(Fixed(Nodes))'
    <3>1. J \subseteq I
      BY <2>1, InosShrink
    <3>2. J \subseteq Inos(Fixed(Nodes))'
      BY <2>1 DEF Inos, Fixed, Untouched, Steady
    <3> QED BY <3>1, <3>2
  <2>4. Holds(r.size, J)'
    BY <2>2, <2>3, HoldsKept
  <2>5. (Below(r.name) \ blind)' = S
    BY <1>1, <2>1
  <2> QED BY <2>1, <2>4, <2>5
<1>4. RowsHold'
  BY <1>1, <1>2, <1>3 DEF PySizes, RowsHold
<1>5. ASSUME InRow PROVE AtRow'
  <2>1. AtRow
    BY <1>5 DEF PySizes
  <2>2. PICK x, h, q : x = row /\ h = blind /\ q = Queue
    OBVIOUS
  <2>3. RowHolds(x.name, x.size, x.seen, h, q)'
    BY <2>1, <2>2, RowKept DEF AtRow
  <2>4. RowHolds(row.name, row.size, row.seen, blind, Queue)'
    BY <1>1, <1>2, <2>2, <2>3
  <2> QED BY <1>1, <1>2, <2>1, <2>4 DEF AtRow, Pending
<1> QED BY <1>2, <1>4, <1>5 DEF PySizes

-----------------------------------------------------------------------------
(* The sizes of the listings *)

SizeInv ==
  /\ ListInv /\ TreeInv
  /\ walker = "lsx" => LsxSizes
  /\ walker = "lsx.py" => PySizes

LEMMA SizeInit == WalkInit => SizeInv
<1> SUFFICES ASSUME WalkInit PROVE LsxSizes
  BY ListInit, TreeInit, PySizesInit DEF SizeInv
<1>1. pc = "enter" /\ blind = {} /\ rows = {}
  BY DEF WalkInit, Init
<1> QED BY <1>1 DEF LsxSizes, Measured

LEMMA SizesStutter ==
  ASSUME UNCHANGED <<vars, walkVars>>
  PROVE  (LsxSizes => LsxSizes') /\ (PySizes => PySizes')
<1>1. /\ UNCHANGED <<pc, cur, stack, blind, todo, names, row, rows>>
      /\ UNCHANGED <<diskVars, mtime>>
  BY DEF vars, walkVars, scanVars, countVars, ghostVars, diskVars
<1>2. LsxSizes => LsxSizes'
  <2> SUFFICES ASSUME LsxSizes PROVE LsxSizes'
    OBVIOUS
  <2>1. ToSize' = ToSize /\ Measured' = Measured
    BY <1>1 DEF ToSize, Measured
  <2>2. \A r \in rows : r.star \/ Whole(r.size, Below(r.name))'
    BY <1>1, WholeStays DEF LsxSizes
  <2>3. ASSUME Measured PROVE row'.star \/ Whole(row.size, Below(row.name) \ ToSize)'
    <3>1. PICK r, S : r = row /\ S = Below(row.name) \ ToSize
      OBVIOUS
    <3>2. r.star \/ Whole(r.size, S)'
      BY <1>1, <2>3, <3>1, WholeStays DEF LsxSizes
    <3>3. row' = r /\ (Below(row.name) \ ToSize)' = S
      BY <1>1, <2>1, <3>1
    <3> QED BY <3>2, <3>3
  <2> QED BY <1>1, <2>1, <2>2, <2>3 DEF LsxSizes
<1>3. PySizes => PySizes'
  <2> SUFFICES ASSUME PySizes PROVE PySizes'
    OBVIOUS
  <2>1. InRow' = InRow /\ Queue' = Queue /\ Separate(todo)' = Separate(todo)
    BY <1>1 DEF InRow, Queue, Separate, Pending
  <2>2. ASSUME NEW r \in rows PROVE Holds(r.size, Inos(Fixed(Below(r.name) \ blind)))'
    <3>1. PICK S : S = Below(r.name) \ blind
      OBVIOUS
    <3>2. Holds(r.size, Inos(Fixed(S)))'
      BY <1>1, <3>1, RowStays DEF PySizes, RowsHold
    <3>3. (Below(r.name) \ blind)' = S
      BY <1>1, <3>1
    <3> QED BY <3>2, <3>3
  <2>3. RowsHold'
    BY <1>1, <2>1, <2>2 DEF PySizes, RowsHold
  <2>4. ASSUME InRow PROVE AtRow'
    <3>1. AtRow
      BY <2>4 DEF PySizes
    <3>2. PICK x, h, q : x = row /\ h = blind /\ q = Queue
      OBVIOUS
    <3>3. RowHolds(x.name, x.size, x.seen, h, q)'
      BY <1>1, <3>1, <3>2, RowStays DEF AtRow
    <3>4. RowHolds(row.name, row.size, row.seen, blind, Queue)'
      BY <1>1, <2>1, <3>2, <3>3
    <3> QED BY <1>1, <2>1, <3>1, <3>4 DEF AtRow, Pending
  <2> QED BY <2>1, <2>3, <2>4 DEF PySizes
<1> QED BY <1>2, <1>3

LEMMA SizeNext == SizeInv /\ [WalkNext]_<<vars, walkVars>> => SizeInv'
<1> SUFFICES ASSUME SizeInv, [WalkNext]_<<vars, walkVars>> PROVE SizeInv'
  OBVIOUS
<1>1. ListInv /\ TreeInv /\ DiskInv
  BY DEF SizeInv, ListInv
<1>2. ListInv' /\ DiskInv'
  <2>1. ListInv'
    BY <1>1, ListNext
  <2> QED BY <2>1 DEF ListInv
<1>3. UNCHANGED walker
  BY DEF WalkNext, TreeChanges, walkVars
<1>4. TreeChanges \/ UNCHANGED <<diskVars, mtime>>
  BY DEF WalkNext, CScanner, Scanner, Enter, Open, ReadFile, ReadEnd, Finish, ListEntry, ListEnd, vars, walkVars
<1>5. TreeInv'
  BY <1>1, <1>4, TreeKept
<1>6. \/ TreeChanges
      \/ ListersAndSearches /\ UNCHANGED <<diskVars, mtime>>
      \/ UNCHANGED <<vars, walkVars>>
      \/ walker \in Scanners
  BY DEF WalkNext, CScanner, PyScanner, Scanners
<1>7. walker = "lsx" => LsxSizes'
  <2> SUFFICES ASSUME walker = "lsx" PROVE LsxSizes'
    OBVIOUS
  <2>1. LsxFrame /\ LsxSizes
    BY DEF SizeInv, ListInv
  <2>2. CASE ListersAndSearches /\ UNCHANGED <<diskVars, mtime>>
    <3>1. (LsxStart \/ LsxRow \/ LsxOpen \/ LsxChild \/ LsxEnd) /\ UNCHANGED blind
      BY <2>2 DEF ListersAndSearches, Lsx, LsxPy, Linkscan, LinkscanPy
    <3> QED BY <1>1, <2>1, <2>2, <3>1, LsxStartSizes, LsxRowSizes, LsxOpenSizes, LsxChildSizes, LsxEndSizes
  <2> QED BY <1>1, <1>2, <1>6, <2>1, <2>2, LsxTreeSizes, SizesStutter DEF Scanners
<1>8. walker = "lsx.py" => PySizes'
  <2> SUFFICES ASSUME walker = "lsx.py" PROVE PySizes'
    OBVIOUS
  <2>1. LsxPyAccounted /\ PySizes
    BY DEF SizeInv, ListInv
  <2>2. CASE ListersAndSearches /\ UNCHANGED <<diskVars, mtime>>
    <3>1. PyRowsStart \/ PyRow \/ PySize \/ PySizeOpen
      BY <2>2 DEF ListersAndSearches, Lsx, LsxPy, Linkscan, LinkscanPy
    <3> QED BY <1>1, <2>1, <2>2, <3>1, PyRowsStartSizes, PyRowSizes, PySizeSizes, PySizeOpenSizes
  <2> QED BY <1>1, <1>2, <1>6, <2>1, <2>2, PyTreeSizes, SizesStutter DEF Scanners
<1> QED BY <1>2, <1>3, <1>5, <1>7, <1>8 DEF SizeInv

LEMMA SizesAreWhole == SizeInv => SizesWhole
<1> SUFFICES ASSUME SizeInv, walker \in Listings, NEW r \in rows, ~r.star,
                    NEW files, files = {n \in Below(r.name) \ blind : Untouched(n) /\ entry[n].kind = "file"},
                    NEW least, least = IF walker = "lsx"
                                       THEN Sum([n \in Nodes |-> SizeOf(n)], files)
                                       ELSE Sum([i \in Inodes |-> disk[i].size], {entry[n].ino : n \in files})
             PROVE  r.size >= least /\ (events = Events => r.size = least)
  BY DEF SizesWhole
<1>1. DiskInv /\ files = Fixed(Below(r.name) \ blind)
  BY DEF SizeInv, ListInv, Fixed
<1>2. CASE walker = "lsx"
  <2>1. blind = {} /\ Whole(r.size, Below(r.name))
    BY <1>2 DEF SizeInv, LsxSizes
  <2>2. Below(r.name) \ blind = Below(r.name)
    BY <2>1
  <2>3. files = Fixed(Below(r.name))
    BY <1>1, <2>2, Zenon
  <2>4. least = Weight(Below(r.name))
    BY <1>2, <2>3 DEF Weight, Sizes
  <2>5. Weight(Below(r.name)) \in Nat
    BY <1>1, FixedIsFinite
  <2> QED BY <2>1, <2>4, <2>5 DEF Whole
<1>3. CASE walker # "lsx"
  <2>1. Holds(r.size, Inos(files))
    BY <1>1, <1>3 DEF SizeInv, PySizes, RowsHold, Listings
  <2>2. least = Load(Inos(files))
    BY <1>3 DEF Load, Inos
  <2>3. Load(Inos(files)) \in Nat
    <3>1. Inos(files) \subseteq Inos(Fixed(Nodes))
      BY <1>1, FixedIsFinite DEF Inos, Fixed
    <3> QED BY <1>1, <3>1, InosAreFinite
  <2> QED BY <2>1, <2>2, <2>3 DEF Holds
<1> QED BY <1>2, <1>3

(* README.md:88: of any tree, under any changes, a size without a star is   *)
(* no less than the files below the name that nobody touched, and is        *)
(* exactly that if nothing was changed.                                     *)
THEOREM SizesAlwaysWhole == WalkSpec => []SizesWhole
<1>1. SizeInv /\ [WalkNext]_<<vars, walkVars>> => SizeInv'
  BY SizeNext
<1> QED BY SizeInit, <1>1, SizesAreWhole, PTL DEF WalkSpec

=============================================================================
