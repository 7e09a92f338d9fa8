------------------------------ MODULE PathWalk ------------------------------
(***************************************************************************)
(* The other programs that walk a tree: the Python scanner (antivermis.py),*)
(* the listings with recursive sizes (c/lsx.c, lsx.py) and the searches    *)
(* for hard links (c/linkscan.c, linkscan.py).  They share the tree, those *)
(* who change it and most variables with AvScan, the C scanner, but reach  *)
(* every object by its path.  cur is the path at hand, stack the open      *)
(* directories of a C program, reported the files or links found, errors   *)
(* and limited how a program fails.  Rows are listed as with -a, and their *)
(* order and the sizes of directories and links are left out.  No          *)
(* directory gives its place to a link to another one.                     *)
(***************************************************************************)
EXTENDS AvScan, FiniteSetsExt, SequencesExt, Summation

CONSTANTS Walkers,  \* the programs that are looked at
          Limit,    \* what a listing or search counts its entries up to
          Depth,    \* its greatest depth
          MaxRows,  \* MAX_LIST_ENTRIES
          PyMaxFindings  \* MAX_FINDINGS of antivermis.py

Scanners == {"antivermis", "antivermis.py"}
Listings == {"lsx", "lsx.py"}
Searches == {"linkscan", "linkscan.py"}

ASSUME WalkAssumption ==
  /\ Walkers \subseteq Scanners \cup Listings \cup Searches
  /\ Limit \in [Listings \cup Searches -> Nat]
  /\ Depth \in [Listings \cup {"linkscan"} -> Nat]
  /\ {MaxRows, PyMaxFindings} \subseteq Nat

VARIABLES walker,  \* the program that runs
          todo,    \* the stack of a Python program
          names,   \* children it has listed and not yet looked at
          row,     \* the row of a listing at hand
          rows,    \* the rows that will be printed
          stamp,   \* st_mtime_ns when antivermis.py opened the file
          mtime    \* how often each inode has been written

walkVars == <<walker, todo, names, row, rows, stamp, mtime>>

Resolves(n) == \A m \in Up[n] \ {n} : entry[m].kind = "dir"
There(n)    == entry[n].kind # "absent" /\ Resolves(n)
ThereIn(d)  == {n \in Children(d) : entry[n].kind # "absent"}
IsDir(n)    == entry[n].kind = "dir"
SizeOf(n)   == IF entry[n].kind = "file" THEN disk[entry[n].ino].size ELSE 0
Level(n)    == Cardinality(Up[n]) - 1

(* Paths that have named one inode from the start. *)
Steady == {n \in Nodes : There(n) /\ \A m \in Up[n] : entry[m].ino <= Cardinality(Nodes)}

-----------------------------------------------------------------------------
(* scan and hash_file of antivermis.py *)

(* With one path to scan, no entry taken is one too many: see PyList. *)
PyTake ==
  /\ pc = "enter" /\ todo # << >>
  /\ cur' = Last(todo) /\ todo' = Front(todo) /\ entries' = entries + 1
  /\ \/ errors' = TRUE /\ UNCHANGED <<pc, limited>>
     \/ /\ There(cur') /\ UNCHANGED errors
        /\ \/ entry[cur'].kind = "special" /\ UNCHANGED <<pc, limited>>
           \/ IsDir(cur') /\ Level(cur') >= MaxDepth /\ limited' = TRUE /\ UNCHANGED pc
           \/ IsDir(cur') /\ Level(cur') < MaxDepth /\ pc' = "list" /\ UNCHANGED limited
           \/ /\ entry[cur'].kind = "file"
              /\ limited' = (limited \/ bytes + SizeOf(cur') > TotalBytes)
              /\ pc' = IF bytes + SizeOf(cur') > TotalBytes THEN "done" ELSE "open"
  /\ UNCHANGED <<bytes, reported, names, opened, size0, stamp>>

Upto(s, k) == SubSeq(s, 1, Min({k, Len(s)}))

(* Links among the names, which os.scandir tells from other special files. *)
LinksIn(ns) == SUBSET {n \in ns : entry[n].kind = "special"}

(* Either all of a directory is pushed, or as much as the limit leaves. *)
PyList ==
  /\ pc = "list"
  /\ \/ /\ There(cur) /\ IsDir(cur)
        /\ LET room == MaxFiles - Len(todo) - entries
           IN \E links \in LinksIn(ThereIn(cur)) : \E kids \in SetToSeqs(ThereIn(cur) \ links) :
                /\ todo' = todo \o Upto(kids, room)
                /\ \/ limited' = (limited \/ Len(kids) > room)
                   \/ Len(kids) = room /\ links # {} /\ limited' = TRUE
        /\ UNCHANGED errors
     \/ errors' = TRUE /\ UNCHANGED <<todo, limited>>
  /\ pc' = "enter"
  /\ UNCHANGED <<cur, entries, bytes, reported, names, opened, size0, stamp>>

(* os.open takes what the path names by now, and fstat its size and time. *)
PyOpen ==
  /\ pc = "open"
  /\ \/ /\ There(cur) /\ entry[cur].kind = "file"
        /\ SizeOf(cur) <= MaxFileBytes /\ SizeOf(cur) <= TotalBytes - bytes
        /\ opened' = entry[cur] /\ size0' = SizeOf(cur) /\ stamp' = mtime[entry[cur].ino]
        /\ pc' = "hash" /\ UNCHANGED errors
     \/ errors' = TRUE /\ pc' = "enter" /\ UNCHANGED <<opened, size0, stamp>>
  /\ UNCHANGED <<cur, todo, names, entries, bytes, limited, reported>>

PyFinds(bad) ==
  LET found == IF bad THEN reported \cup {cur} ELSE reported
      full  == Cardinality(found) >= PyMaxFindings
  IN /\ reported' = found
     /\ limited' = (limited \/ full)
     /\ pc' = IF full THEN "done" ELSE "enter"

(* Mutant of PyHash: the second fstat looks at the size only. *)
PyHashSameSize ==
  /\ pc = "hash"
  /\ \/ errors' = TRUE /\ pc' = "enter" /\ UNCHANGED <<bytes, limited, reported>>
     \/ /\ disk[opened.ino].size = size0
        /\ bytes' = bytes + size0
        /\ PyFinds(disk[opened.ino].bad /\ mtime[opened.ino] = stamp)
        /\ UNCHANGED errors
  /\ UNCHANGED <<cur, todo, names, entries, opened, size0, stamp>>

(* What was written into between the two calls of fstat, and so may have    *)
(* been read in part, is an error.                                          *)
PyHash ==
  /\ pc = "hash"
  /\ \/ errors' = TRUE /\ pc' = "enter" /\ UNCHANGED <<bytes, limited, reported>>
     \/ /\ disk[opened.ino].size = size0 /\ mtime[opened.ino] = stamp
        /\ bytes' = bytes + size0
        /\ PyFinds(disk[opened.ino].bad)
        /\ UNCHANGED errors
  /\ UNCHANGED <<cur, todo, names, entries, opened, size0, stamp>>

PyEnd ==
  /\ pc = "enter" /\ todo = << >> /\ pc' = "done"
  /\ UNCHANGED <<cur, todo, names, entries, bytes, errors, limited, reported, opened, size0, stamp>>

PyScanner ==
  /\ walker = "antivermis.py"
  /\ PyTake \/ PyList \/ PyOpen \/ PyHash \/ PyEnd
  /\ UNCHANGED <<info, findings, total, saw, stack, blind, row, rows>>

-----------------------------------------------------------------------------
(* c/lsx.c: a row is [name, size, star, seen], and stack[1] is PATH. *)

Starred(r)  == [r EXCEPT !.star = TRUE]
Marked(n)   == Append(Pop, [Top EXCEPT !.listed = @ \cup {n}])
AllListed   == ThereIn(Top.dir) \cap Steady \subseteq Top.listed

(* apparent_size returns to dirs; in list_directory the row is complete. *)
SizeIs(r, dirs) ==
  /\ row' = r /\ stack' = dirs /\ pc' = "list"
  /\ rows' = IF Len(dirs) = 1 THEN rows \cup {r} ELSE rows
  /\ UNCHANGED cur

(* lstat says what is at n: a directory is measured from dirs. *)
Measure(n, r, dirs) ==
  \/ ~IsDir(n) /\ SizeIs([r EXCEPT !.size = @ + SizeOf(n)], dirs)
  \/ IsDir(n) /\ pc' = "open" /\ cur' = n /\ row' = r /\ stack' = dirs /\ UNCHANGED rows

LsxStart ==
  /\ pc = "enter"
  /\ \/ IsDir(Root) /\ pc' = "list" /\ stack' = <<[dir |-> Root, listed |-> {}]>> /\ UNCHANGED errors
     \/ pc' = "done" /\ errors' = TRUE /\ UNCHANGED stack
  /\ UNCHANGED <<cur, row, rows>>

(* The next name in PATH: one too many, one lstat fails on, or a row. *)
LsxRow ==
  /\ pc = "list" /\ Len(stack) = 1
  /\ \E n \in ThereIn(Root) \ Top.listed :
       \/ /\ Cardinality(rows) >= MaxRows
          /\ errors' = TRUE /\ pc' = "done" /\ UNCHANGED <<cur, stack, row, rows>>
       \/ /\ Cardinality(rows) < MaxRows
          /\ errors' = TRUE /\ stack' = Marked(n) /\ UNCHANGED <<pc, cur, row, rows>>
       \/ /\ Cardinality(rows) < MaxRows /\ Resolves(n)
          /\ Measure(n, [name |-> n, size |-> 0, star |-> FALSE, seen |-> {}], Marked(n))
          /\ UNCHANGED errors

(* apparent_size of a directory: it is opened, or is too deep, or one after *)
(* too many entries, or opendir fails.                                      *)
LsxOpen ==
  /\ pc = "open"
  /\ \/ /\ Len(stack) - 1 < Depth["lsx"] /\ Cardinality(row.seen) < Limit["lsx"]
        /\ There(cur) /\ IsDir(cur) /\ pc' = "list"
        /\ stack' = Append(stack, [dir |-> cur, listed |-> {}])
        /\ UNCHANGED <<cur, row, rows>>
     \/ SizeIs(Starred(row), stack)
  /\ UNCHANGED errors

(* Mutant of LsxChild: what lstat fails on is passed over. *)
LsxChildSkips ==
  /\ pc = "list" /\ Len(stack) > 1
  /\ \E n \in ThereIn(Top.dir) \ Top.listed : SizeIs([row EXCEPT !.seen = @ \cup {n}], Marked(n))
  /\ UNCHANGED errors

(* The next name in a directory below: one too many, which ends the         *)
(* directory, one lstat fails on, or one that is measured.                  *)
LsxChild ==
  /\ pc = "list" /\ Len(stack) > 1
  /\ \E n \in ThereIn(Top.dir) \ Top.listed :
       LET r == [row EXCEPT !.seen = @ \cup {n}]
           over == Cardinality(r.seen) > Limit["lsx"]
       IN \/ over /\ SizeIs(Starred(r), Pop)
          \/ ~over /\ SizeIs(Starred(r), Marked(n))
          \/ ~over /\ Resolves(n) /\ Measure(n, r, Marked(n))
  /\ UNCHANGED errors

(* readdir ends or fails, or closedir fails. *)
LsxEnd ==
  /\ pc = "list"
  /\ \/ Len(stack) > 1 /\ AllListed /\ SizeIs(row, Pop) /\ UNCHANGED errors
     \/ Len(stack) > 1 /\ SizeIs(Starred(row), Pop) /\ UNCHANGED errors
     \/ /\ Len(stack) = 1 /\ pc' = "done"
        /\ \/ AllListed /\ UNCHANGED errors
           \/ errors' = TRUE
        /\ UNCHANGED <<cur, stack, row, rows>>

Lsx ==
  /\ walker = "lsx"
  /\ LsxStart \/ LsxRow \/ LsxOpen \/ LsxChild \/ LsxEnd
  /\ UNCHANGED <<entries, limited, blind, todo, names, reported>>

-----------------------------------------------------------------------------
(* lsx.py: seen holds inodes, and what cannot be read is passed over. *)

PyRowsStart ==
  /\ pc = "enter"
  /\ \/ IsDir(Root) /\ pc' = "list" /\ names' = ThereIn(Root) /\ UNCHANGED errors
     \/ pc' = "done" /\ errors' = TRUE /\ UNCHANGED names
  /\ UNCHANGED <<cur, limited, blind, todo, row, rows>>

PyRow ==
  /\ pc = "list"
  /\ \/ names = {} /\ pc' = "done" /\ UNCHANGED <<names, todo, row, errors>>
     \/ \E n \in names :
          /\ names' = names \ {n}
          /\ \/ errors' = TRUE /\ pc' = "done" /\ UNCHANGED <<todo, row>>
             \/ /\ There(n) /\ pc' = "enter row" /\ todo' = <<n>>
                /\ row' = [name |-> n, size |-> 0, star |-> FALSE, seen |-> {}]
                /\ UNCHANGED errors
  /\ UNCHANGED <<cur, limited, blind, rows>>

(* real_size takes the next path; an inode it has seen counts once. *)
PySize ==
  /\ pc = "enter row"
  /\ \/ /\ todo = << >> /\ rows' = rows \cup {row} /\ pc' = "list"
        /\ UNCHANGED <<cur, todo, row, limited, blind>>
     \/ /\ todo # << >> /\ cur' = Last(todo) /\ todo' = Front(todo) /\ UNCHANGED rows
        /\ \/ blind' = blind \cup Below(cur') /\ UNCHANGED <<pc, row, limited>>
           \/ /\ There(cur') /\ entry[cur'].ino \in row.seen /\ UNCHANGED <<pc, row, limited, blind>>
           \/ /\ There(cur') /\ entry[cur'].ino \notin row.seen /\ UNCHANGED blind
              /\ row' = [row EXCEPT !.seen = @ \cup {entry[cur'].ino}, !.size = @ + SizeOf(cur')]
              /\ \/ ~IsDir(cur') /\ UNCHANGED <<pc, limited>>
                 \/ /\ IsDir(cur') /\ Level(cur') - Level(row.name) >= Depth["lsx.py"]
                    /\ limited' = TRUE /\ pc' = "done"
                 \/ /\ IsDir(cur') /\ Level(cur') - Level(row.name) < Depth["lsx.py"]
                    /\ pc' = "open row" /\ UNCHANGED limited
  /\ UNCHANGED <<names, errors>>

(* os.scandir fails at once or after some names, or returns them all. *)
PySizeOpen ==
  /\ pc = "open row"
  /\ \E some \in SUBSET ThereIn(cur) : \E links \in LinksIn(some) :
       LET used == Cardinality(row.seen) + Len(todo) + Cardinality(some \ links)
       IN /\ some # {} => There(cur) /\ IsDir(cur)
          /\ \/ /\ used > Limit["lsx.py"] \/ (used = Limit["lsx.py"] /\ links # {})
                /\ limited' = TRUE /\ pc' = "done" /\ UNCHANGED <<todo, blind>>
             \/ /\ used <= Limit["lsx.py"]
                /\ \E kids \in SetToSeqs(some \ links) : todo' = todo \o kids
                /\ blind' = blind \cup UNION {Below(n) : n \in Children(cur) \ some}
                /\ pc' = "enter row" /\ UNCHANGED limited
  /\ UNCHANGED <<cur, names, row, rows, errors>>

LsxPy ==
  /\ walker = "lsx.py"
  /\ PyRowsStart \/ PyRow \/ PySize \/ PySizeOpen
  /\ UNCHANGED <<entries, stack, reported>>

-----------------------------------------------------------------------------
(* c/linkscan.c *)

Target == Twin

Matches(n) == reported' = IF entry[n].ino = Target THEN reported \cup {n} ELSE reported

Aborts == errors' = TRUE /\ pc' = "done" /\ UNCHANGED <<stack, limited, blind>>

(* Mutant of LinkEnter: one entry too many ends the directory only. *)
LinkEnterLeaves ==
  /\ pc = "enter" /\ entries' = entries + 1
  /\ Leave(stack)
  /\ IF entries >= Limit["linkscan"] THEN UNCHANGED reported ELSE Matches(cur)
  /\ UNCHANGED <<cur, limited, errors, blind>>

(* scan; a directory that is too deep is passed over. *)
LinkEnter ==
  /\ pc = "enter" /\ entries' = entries + 1
  /\ \/ /\ entries >= Limit["linkscan"] /\ limited' = TRUE /\ pc' = "done"
        /\ UNCHANGED <<stack, errors, blind, reported>>
     \/ /\ entries < Limit["linkscan"] /\ Aborts /\ UNCHANGED reported
     \/ /\ entries < Limit["linkscan"] /\ Leave(stack) /\ blind' = blind \cup Below(cur)
        /\ UNCHANGED <<limited, errors, reported>>
     \/ /\ entries < Limit["linkscan"] /\ There(cur) /\ Matches(cur) /\ UNCHANGED <<limited, errors>>
        /\ \/ ~IsDir(cur) /\ Leave(stack) /\ UNCHANGED blind
           \/ /\ IsDir(cur) /\ Len(stack) >= Depth["linkscan"]
              /\ Leave(stack) /\ blind' = blind \cup (Below(cur) \ {cur})
           \/ IsDir(cur) /\ Len(stack) < Depth["linkscan"] /\ pc' = "open" /\ UNCHANGED <<stack, blind>>
  /\ UNCHANGED cur

LinkOpen ==
  /\ pc = "open"
  /\ \/ /\ There(cur) /\ IsDir(cur) /\ pc' = "list"
        /\ stack' = Append(stack, [dir |-> cur, listed |-> {}])
        /\ UNCHANGED <<limited, errors, blind>>
     \/ Leave(stack) /\ blind' = blind \cup (Below(cur) \ {cur}) /\ UNCHANGED <<limited, errors>>
     \/ Aborts
  /\ UNCHANGED <<cur, entries, reported>>

LinkName ==
  /\ pc = "list"
  /\ \E n \in ThereIn(Top.dir) \ Top.listed :
       /\ stack' = Marked(n)
       /\ \/ n \in Overlong /\ blind' = blind \cup Below(n) /\ UNCHANGED <<pc, cur>>
          \/ n \notin Overlong /\ pc' = "enter" /\ cur' = n /\ UNCHANGED blind
  /\ UNCHANGED <<entries, limited, errors, reported>>

(* readdir ends, or fails unnoticed; then closedir. *)
LinkEnd ==
  /\ pc = "list"
  /\ \/ /\ Leave(Pop) /\ UNCHANGED <<limited, errors>>
        /\ blind' = blind \cup UNION {Below(n) : n \in ThereIn(Top.dir) \ Top.listed}
     \/ Aborts
  /\ UNCHANGED <<cur, entries, reported>>

Linkscan ==
  /\ walker = "linkscan"
  /\ LinkEnter \/ LinkOpen \/ LinkName \/ LinkEnd
  /\ UNCHANGED <<todo, names, row, rows>>

-----------------------------------------------------------------------------
(* find_links of linkscan.py, over os.walk, which passes over a directory   *)
(* it cannot list                                                           *)

WalkDir ==
  /\ pc = "enter"
  /\ \/ todo = << >> /\ pc' = "done" /\ UNCHANGED <<cur, todo, names, blind>>
     \/ /\ todo # << >> /\ cur' = Last(todo)
        /\ \/ /\ todo' = Front(todo) /\ blind' = blind \cup (Below(cur') \ {cur'})
              /\ UNCHANGED <<pc, names>>
           \/ /\ There(cur') /\ IsDir(cur') /\ pc' = "list"
              /\ \E links \in LinksIn(ThereIn(cur')) : names' = ThereIn(cur') \ links
              /\ \E dirs \in SetToSeqs({n \in ThereIn(cur') : IsDir(n)}) :
                   todo' = Front(todo) \o dirs
              /\ UNCHANGED blind
  /\ UNCHANGED <<entries, limited, reported>>

WalkName ==
  /\ pc = "list"
  /\ \/ /\ names = {} /\ pc' = "enter"
        /\ UNCHANGED <<names, entries, limited, reported, blind>>
     \/ \E n \in names :
          /\ names' = names \ {n} /\ entries' = entries + 1
          /\ \/ /\ entries >= Limit["linkscan.py"] /\ limited' = TRUE /\ pc' = "done"
                /\ UNCHANGED <<reported, blind>>
             \/ /\ entries < Limit["linkscan.py"] /\ blind' = blind \cup {n}
                /\ UNCHANGED <<pc, limited, reported>>
             \/ /\ entries < Limit["linkscan.py"] /\ There(n) /\ Matches(n)
                /\ UNCHANGED <<pc, limited, blind>>
  /\ UNCHANGED <<cur, todo>>

LinkscanPy ==
  /\ walker = "linkscan.py"
  /\ WalkDir \/ WalkName
  /\ UNCHANGED <<stack, errors, row, rows>>

-----------------------------------------------------------------------------

ListersAndSearches ==
  /\ Lsx \/ LsxPy \/ Linkscan \/ LinkscanPy
  /\ UNCHANGED <<info, opened, size0, total, saw, bytes, findings, stamp>>

CScanner ==
  /\ walker = "antivermis" /\ Scanner
  /\ UNCHANGED <<todo, names, row, rows, stamp>>

(* Writing into a file, even over what was there, sets its time. *)
TreeChanges ==
  /\ \E n \in Nodes \ {Root} :
       \/ Resize(n) /\ mtime' = [mtime EXCEPT ![entry[n].ino] = @ + 1]
       \/ Replace(n) /\ UNCHANGED mtime
  /\ UNCHANGED <<walker, todo, names, row, rows, stamp>>

WalkInit ==
  /\ Init
  /\ walker \in Walkers
  /\ todo = <<Root>> /\ names = {} /\ rows = {} /\ stamp = 0
  /\ row = [name |-> Root, size |-> 0, star |-> FALSE, seen |-> {}]
  /\ mtime = [i \in Inodes |-> 0]

WalkNext ==
  \/ CScanner /\ UNCHANGED <<walker, mtime>>
  \/ PyScanner /\ UNCHANGED <<walker, diskVars, mtime>>
  \/ ListersAndSearches /\ UNCHANGED <<walker, diskVars, mtime>>
  \/ TreeChanges

WalkSpec == WalkInit /\ [][WalkNext]_<<vars, walkVars>>

-----------------------------------------------------------------------------
(* Safety *)

(* README.md:183: what CompleteUnlessBlind says of the C scanner with its   *)
(* exceptions, antivermis.py keeps without any: when it exits 0 or 1, each  *)
(* path that named an infected file all along has been reported, although   *)
(* the tree changed and files were written into while they were read.       *)
PyExitMeansComplete ==
  walker = "antivermis.py" /\ pc = "done" /\ ~errors /\ ~limited => tainted \subseteq reported

Untouched(n) == n \in Steady /\ mtime[entry[n].ino] = 0

(* README.md:88, "totals directory contents recursively": a size without a  *)
(* star is no less than the files below the name that nobody touched, one   *)
(* inode counted for each of its names by lsx and once by lsx.py, and is    *)
(* exactly that if nothing was changed; but for what lsx.py cannot read,    *)
(* which it passes over.                                                    *)
SizesWhole ==
  walker \in Listings =>
    \A r \in {x \in rows : ~x.star} :
      LET files == {n \in Below(r.name) \ blind : Untouched(n) /\ entry[n].kind = "file"}
          least == IF walker = "lsx"
                   THEN Sum([n \in Nodes |-> SizeOf(n)], files)
                   ELSE Sum([i \in Inodes |-> disk[i].size], {entry[n].ino : n \in files})
      IN r.size >= least /\ (events = Events => r.size = least)

(* README.md:78, "every hard link", and the listing's exit status: when no  *)
(* failure and no limit is shown, each name that was there all along has a  *)
(* row, and each that names the target all along is found, but for what a   *)
(* search passes over: directories and names it may not read, paths that    *)
(* are too long, directories that are too deep.                             *)
ListsEverything ==
  pc = "done" /\ ~errors /\ ~limited =>
    /\ walker \in Listings => Children(Root) \cap Steady \subseteq {r.name : r \in rows}
    /\ walker \in Searches => {n \in Steady : entry[n].ino = Target} \subseteq reported \cup blind

=============================================================================
