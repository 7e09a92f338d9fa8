------------------------------- MODULE AvScan -------------------------------
(***************************************************************************)
(* The walk of the C scanner (scan_path_at, scan_file and main of          *)
(* c/antivermis.c) over one tree, while others change the tree.  Each path *)
(* names an inode; a regular file has a size, in units of one read, and    *)
(* may carry in its first unit what one of the content rules looks for;    *)
(* some files may be names of one inode.  Which rules there are, and       *)
(* counters that are only printed, are left out; errors counts as zero or  *)
(* more.  A directory that takes the place of another has the same names   *)
(* in it.                                                                  *)
(***************************************************************************)
EXTENDS Naturals, Sequences, FiniteSets

CONSTANTS Nodes,         \* the paths there may be
          Root,          \* the path on the command line
          Parent,        \* the directory of each other path
          Overlong,      \* paths of AV_PATH_SIZE bytes or more
          Kind0,         \* what each path may be when the scan begins
          Twins,         \* paths that may be names of one inode
          MaxFiles,      \* max_files
          MaxDepth,      \* AV_MAX_DEPTH
          MaxFileBytes,  \* max_file_bytes
          TotalBytes,    \* AV_TOTAL_BYTES
          MaxFindings,   \* AV_MAX_FINDINGS
          MaxSize,       \* bound on the size of a file
          Events         \* bound on the changes others make

ASSUME ScanAssumption ==
  /\ Root \in Nodes
  /\ Parent \in [Nodes \ {Root} -> Nodes]
  /\ Overlong \in SUBSET (Nodes \ {Root})
  /\ Kind0 \in [Nodes -> SUBSET {"absent", "file", "dir", "special"}]
  /\ Twins \in SUBSET {n \in Nodes : Kind0[n] \subseteq {"absent", "file"}} /\ Twins # {}
  /\ IsFiniteSet(Nodes)
  /\ {MaxFiles, MaxDepth, MaxFileBytes, TotalBytes, MaxFindings, MaxSize, Events} \subseteq Nat
  /\ MaxFileBytes <= TotalBytes

VARIABLES pc,        \* "enter", "open", "read", "finish", "list" or "done"
          cur,       \* the path at hand
          info,      \* what fstatat said of it
          opened,    \* what openat opened
          size0,     \* its size when it was opened
          total,     \* units read of it
          saw,       \* a rule has matched in them
          stack,     \* open directories, with the names readdir has returned
          entries,   \* entries looked at
          bytes,     \* units of the files read to the end
          findings,  \* findings reported
          errors,    \* errors > 0
          limited,   \* limit_hit
          entry,     \* what each path names
          disk,      \* the inodes
          events,    \* changes still to come
          tainted,   \* paths that have named an infected file all along
          reported,  \* paths with a finding
          blind      \* paths the walk has passed over with neither error nor limit

scanVars  == <<pc, cur, info, opened, size0, total, saw, stack>>
countVars == <<entries, bytes, findings, errors, limited>>
diskVars  == <<entry, disk, events, tainted>>
ghostVars == <<reported, blind>>
vars      == <<scanVars, countVars, diskVars, ghostVars>>

Kinds  == {"absent", "file", "dir", "special"}
Inodes == 1..(Cardinality(Nodes) + Events)
Entry  == [kind: Kinds, ino: Inodes]
Inode  == [size: 0..MaxSize, bad: BOOLEAN]

Empty  == [size |-> 0, bad |-> FALSE]
Number == CHOOSE f \in [Nodes -> 1..Cardinality(Nodes)] :
            \A m, n \in Nodes : f[m] = f[n] => m = n
Twin   == Number[CHOOSE n \in Twins : TRUE]
Linked == [n \in Nodes |-> IF n \in Twins THEN Twin ELSE Number[n]]

Children(d) == {n \in Nodes \ {Root} : Parent[n] = d}

(* A path and the directories above it: what is in every set of paths that  *)
(* holds it, and with a path its directory.                                 *)
Up == [n \in Nodes |-> {m \in Nodes : \A S \in SUBSET Nodes :
                          n \in S /\ (\A x \in S \ {Root} : Parent[x] \in S) => m \in S}]

(* The paths are a tree: every path is below the root. *)
ASSUME TreeAssumption == \A n \in Nodes : Root \in Up[n]

Below(m) == {n \in Nodes : m \in Up[n]}
Top == stack[Len(stack)]
Pop == SubSeq(stack, 1, Len(stack) - 1)

(* scan_path_at returns to the directory it was called for, or to main. *)
Leave(dirs) ==
  /\ pc' = IF dirs = << >> THEN "done" ELSE "list"
  /\ stack' = dirs

Fails(dirs) ==
  /\ errors' = TRUE
  /\ Leave(dirs)
  /\ UNCHANGED <<bytes, findings, limited, reported>>

HitsLimit ==
  /\ limited' = TRUE
  /\ Leave(stack)
  /\ UNCHANGED <<bytes, findings, errors, reported>>

-----------------------------------------------------------------------------
(* scan_path_at *)

Enter ==
  /\ pc = "enter"
  /\ entries' = entries + 1
  /\ \/ /\ entries >= MaxFiles
        /\ HitsLimit
        /\ UNCHANGED info
     \/ /\ entries < MaxFiles
        /\ Fails(stack)
        /\ UNCHANGED info
     \/ /\ entries < MaxFiles /\ entry[cur].kind = "special"
        /\ Leave(stack)
        /\ UNCHANGED <<info, bytes, findings, errors, limited, reported>>
     \/ /\ entries < MaxFiles /\ entry[cur].kind \in {"file", "dir"}
        /\ info' = entry[cur]
        /\ pc' = "open"
        /\ UNCHANGED <<stack, bytes, findings, errors, limited, reported>>
  /\ UNCHANGED <<cur, opened, size0, total, saw, diskVars, blind>>

(* A regular file, unless it is too large, is read. *)
OpenFile ==
  /\ opened'.kind = "file"
  /\ size0' = disk[opened'.ino].size
  /\ total' = 0 /\ saw' = FALSE
  /\ \/ /\ size0' > MaxFileBytes \/ bytes > TotalBytes - size0'
        /\ Fails(stack)
     \/ /\ size0' <= MaxFileBytes /\ bytes <= TotalBytes - size0'
        /\ pc' = "read"
        /\ UNCHANGED <<stack, bytes, findings, errors, limited, reported>>

(* A directory is listed, unless it is too deep. *)
OpenDir ==
  /\ opened'.kind = "dir"
  /\ \/ /\ Len(stack) >= MaxDepth
        /\ HitsLimit
     \/ /\ Len(stack) < MaxDepth
        /\ pc' = "list"
        /\ stack' = Append(stack, [dir |-> cur, listed |-> {}])
        /\ UNCHANGED <<bytes, findings, errors, limited, reported>>
  /\ UNCHANGED <<size0, total, saw>>

(* Mutant of Opened: openat's answer is not compared with fstatat's. *)
OpenedBlindly ==
  /\ entry[cur].kind # "absent"
  /\ opened' = entry[cur]
  /\ \/ OpenFile \/ OpenDir
     \/ /\ opened'.kind = "special"
        /\ size0' = 0 /\ total' = 0 /\ saw' = FALSE
        /\ pc' = "read"
        /\ UNCHANGED <<stack, bytes, findings, errors, limited, reported>>

(* openat and fstat: what is opened must be the inode fstatat saw. *)
Opened ==
  /\ entry[cur] = info
  /\ opened' = entry[cur]
  /\ OpenFile \/ OpenDir

(* Or openat, a check of identity, or fdopendir fails. *)
Open ==
  /\ pc = "open"
  /\ \/ Opened
     \/ Fails(stack) /\ UNCHANGED <<opened, size0, total, saw>>
  /\ UNCHANGED <<cur, info, entries, diskVars, blind>>

-----------------------------------------------------------------------------
(* scan_file *)

(* Mutant of ReadFile: a file that grows is held to no limit. *)
ReadFileOn ==
  /\ pc = "read"
  /\ \E n \in 1..MaxSize :
       /\ total + n <= disk[opened.ino].size
       /\ saw' = IF total = 0 THEN disk[opened.ino].bad ELSE saw
       /\ total' = total + n
  /\ UNCHANGED <<cur, info, opened, size0, pc, stack, bytes, findings, errors, limited, reported,
                 entries, diskVars, blind>>

(* The descriptor keeps the inode, whatever its path names by now. *)
ReadFile ==
  /\ pc = "read"
  /\ \/ \E n \in 1..MaxSize :
          /\ total + n <= disk[opened.ino].size
          /\ saw' = IF total = 0 THEN disk[opened.ino].bad ELSE saw
          /\ \/ /\ n > MaxFileBytes - total \/ n > TotalBytes - bytes - total
                /\ Fails(stack)
                /\ UNCHANGED total
             \/ /\ n <= MaxFileBytes - total /\ n <= TotalBytes - bytes - total
                /\ total' = total + n
                /\ UNCHANGED <<pc, stack, bytes, findings, errors, limited, reported>>
     \/ Fails(stack) /\ UNCHANGED <<total, saw>>
  /\ UNCHANGED <<cur, info, opened, size0, entries, diskVars, blind>>

ReadEnd ==
  /\ pc = "read"
  /\ total >= disk[opened.ino].size
  /\ pc' = "finish"
  /\ UNCHANGED <<cur, info, opened, size0, total, saw, stack, countVars, diskVars, ghostVars>>

(* Mutant of Report: a finding over the limit is dropped. *)
ReportDropped ==
  \/ ~saw /\ UNCHANGED <<findings, limited, reported>>
  \/ saw /\ findings >= MaxFindings /\ UNCHANGED <<findings, limited, reported>>
  \/ /\ saw /\ findings < MaxFindings
     /\ findings' = findings + 1
     /\ reported' = reported \cup {cur}
     /\ UNCHANGED limited

(* finding *)
Report ==
  \/ ~saw /\ UNCHANGED <<findings, limited, reported>>
  \/ saw /\ findings >= MaxFindings /\ limited' = TRUE /\ UNCHANGED <<findings, reported>>
  \/ /\ saw /\ findings < MaxFindings
     /\ findings' = findings + 1
     /\ reported' = reported \cup {cur}
     /\ UNCHANGED limited

(* The file must have the size it had, and all of it must have been read. *)
Finish ==
  /\ pc = "finish"
  /\ \/ /\ disk[opened.ino].size = size0 /\ total = size0
        /\ bytes' = bytes + total
        /\ Report
        /\ Leave(stack)
        /\ UNCHANGED errors
     \/ Fails(stack)
  /\ UNCHANGED <<cur, info, opened, size0, total, saw, entries, diskVars, blind>>

-----------------------------------------------------------------------------
(* The directory loop *)

(* readdir returns a name that is there; too long a path is passed over. *)
ListEntry ==
  /\ pc = "list" /\ ~limited
  /\ \E n \in Children(Top.dir) \ Top.listed :
       /\ entry[n].kind # "absent"
       /\ stack' = Append(Pop, [Top EXCEPT !.listed = @ \cup {n}])
       /\ \/ /\ n \in Overlong
             /\ blind' = blind \cup Below(n)
             /\ UNCHANGED <<pc, cur>>
          \/ /\ n \notin Overlong
             /\ pc' = "enter" /\ cur' = n
             /\ UNCHANGED blind
  /\ UNCHANGED <<info, opened, size0, total, saw, countVars, diskVars, reported>>

(* readdir returns NULL: at the end, where a name that was put there after  *)
(* the directory was opened may be missing, or for an error, which the loop *)
(* takes for the end.                                                       *)
ListEnd ==
  /\ pc = "list"
  /\ LET unseen == {n \in Children(Top.dir) \ Top.listed : entry[n].kind # "absent"}
     IN blind' = IF limited THEN blind ELSE blind \cup UNION {Below(n) : n \in unseen}
  /\ \/ /\ Leave(Pop)
        /\ UNCHANGED <<bytes, findings, errors, limited, reported>>
     \/ Fails(Pop)
  /\ UNCHANGED <<cur, info, opened, size0, total, saw, entries, diskVars>>

Scanner == \/ Enter \/ Open \/ ReadFile \/ ReadEnd \/ Finish \/ ListEntry \/ ListEnd

(* main *)
ExitStatus == IF errors \/ limited THEN 2 ELSE IF findings > 0 THEN 1 ELSE 0

-----------------------------------------------------------------------------
(* Others *)

Infected(n) ==
  /\ entry[n].kind = "file" /\ disk[entry[n].ino].bad
  /\ \A m \in Up[n] \ {n} : entry[m].kind = "dir"

(* A path stays tainted while it names an infected file, and the file that  *)
(* is being read under it, should that be another by now, is infected too.  *)
StillTainted(m) ==
  /\ Infected(m)
  /\ m = cur /\ pc \in {"read", "finish"} => disk[opened.ino].bad

Change ==
  /\ pc # "done"
  /\ events > 0 /\ events' = events - 1
  /\ UNCHANGED <<scanVars, countVars, ghostVars>>

Resize(n) ==
  /\ Change
  /\ entry[n].kind = "file"
  /\ \E s \in 0..MaxSize :
       disk' = [disk EXCEPT ![entry[n].ino] = [size |-> s, bad |-> @.bad /\ s > 0]]
  /\ UNCHANGED entry
  /\ tainted' = {m \in tainted : StillTainted(m)'}

(* Another inode, or none, takes the path. *)
Replace(n) ==
  /\ Change
  /\ \E e \in Entry, i \in Inode :
       /\ e.ino = Cardinality(Nodes) + Events - events + 1
       /\ i.bad => i.size > 0
       /\ e.kind # "file" => i = Empty
       /\ entry' = [entry EXCEPT ![n] = e]
       /\ disk' = [disk EXCEPT ![e.ino] = i]
  /\ tainted' = {m \in tainted : StillTainted(m)'}

Others == \E n \in Nodes \ {Root} : Resize(n) \/ Replace(n)

-----------------------------------------------------------------------------

(* The files have any sizes, and any of them that is not empty is infected. *)
Init ==
  /\ pc = "enter" /\ cur = Root
  /\ size0 = 0 /\ total = 0 /\ saw = FALSE /\ stack = << >>
  /\ entries = 0 /\ bytes = 0 /\ findings = 0 /\ errors = FALSE /\ limited = FALSE
  /\ \E kind \in [Nodes -> Kinds], number \in {Number, Linked} :
       /\ \A n \in Nodes : kind[n] \in Kind0[n]
       /\ entry = [n \in Nodes |-> [kind |-> kind[n], ino |-> number[n]]]
  /\ info = entry[Root] /\ opened = entry[Root]
  /\ LET files == {entry[n].ino : n \in {m \in Nodes : entry[m].kind = "file"}}
     IN \E content \in [files -> {i \in Inode : i.bad => i.size > 0}] :
          disk = [i \in Inodes |-> IF i \in files THEN content[i] ELSE Empty]
  /\ events = Events
  /\ tainted = {n \in Nodes : Infected(n)}
  /\ reported = {} /\ blind = {}

Next == Scanner \/ Others

Spec == Init /\ [][Next]_vars

-----------------------------------------------------------------------------
(* Type invariant. *)

TypeOK ==
  /\ pc \in {"enter", "open", "read", "finish", "list", "done"}
  /\ cur \in Nodes
  /\ info \in Entry /\ opened \in Entry
  /\ size0 \in 0..MaxSize /\ total \in 0..MaxSize /\ saw \in BOOLEAN
  /\ stack \in Seq([dir: Nodes, listed: SUBSET Nodes]) /\ Len(stack) <= MaxDepth
  /\ entries \in Nat /\ bytes \in Nat /\ findings \in Nat
  /\ errors \in BOOLEAN /\ limited \in BOOLEAN
  /\ entry \in [Nodes -> Entry] /\ disk \in [Inodes -> Inode]
  /\ events \in 0..Events
  /\ tainted \in SUBSET Nodes /\ reported \in SUBSET Nodes /\ blind \in SUBSET Nodes

-----------------------------------------------------------------------------
(* Safety *)

(* README.md: "caps per-file, total-byte, recursion, signature, and finding *)
(* work": however the files grow while they are read, no more than          *)
(* max_file_bytes of one and AV_TOTAL_BYTES of all that were read to the    *)
(* end; and no more than one entry is looked at beyond max_files.           *)
WithinLimits ==
  /\ total <= MaxFileBytes
  /\ bytes <= TotalBytes
  /\ pc \in {"read", "finish"} => bytes + total <= TotalBytes
  /\ findings <= MaxFindings
  /\ entries <= MaxFiles + 1
  /\ entries > MaxFiles => limited

(* README.md: "never follows symlinks or reads special files, revalidates   *)
(* opened objects": what is read is a regular file and is the inode that    *)
(* fstatat saw, although its path may have been given to another since.     *)
ReadsWhatItSaw ==
  pc \in {"read", "finish"} => opened = info /\ opened.kind = "file"

(* README.md: exit status 0 "means a complete scan with no findings", 2     *)
(* "incomplete coverage": a scan that exits 0 or 1 has reported each path   *)
(* that named an infected file all along, through every limit and every     *)
(* change made meanwhile, but for those beneath a path too long for the     *)
(* buffer or beyond an error of readdir, which the loop does not notice     *)
(* (and see StillTainted: a file may be written into through another of its *)
(* names while it is read under this one).                                  *)
CompleteUnlessBlind ==
  pc = "done" /\ ExitStatus # 2 => tainted \subseteq reported \cup blind

(* What README.md:183 says of the exit status, with no exception. *)
ExitMeansComplete ==
  pc = "done" /\ ExitStatus # 2 => tainted \subseteq reported

=============================================================================
