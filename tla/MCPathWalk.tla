----------------------------- MODULE MCPathWalk -----------------------------
(* The tree of MCAvScan for every program that walks one, with limits for   *)
(* the listings and searches that it exceeds.                               *)
EXTENDS PathWalk, MCAvScan

MCLimit == [w \in Listings \cup Searches |->
              CASE w = "lsx" -> 2 [] w = "lsx.py" -> 3 [] OTHER -> 4]
MCDepth == [w \in Listings \cup {"linkscan"} |-> IF w = "linkscan" THEN 2 ELSE 1]

(* A scanner is not concerned with names of one inode, and finds something  *)
(* in a path that is too long; a listing or a search is not concerned with  *)
(* what a file contains, nor a search with its size.                        *)
MCInit ==
  /\ WalkInit
  /\ IF walker \in Scanners
     THEN /\ \A n \in Twins : entry[n].ino = Number[n]
          /\ \A n \in Overlong : entry[n].kind = "file" => disk[entry[n].ino] = [size |-> 1, bad |-> TRUE]
     ELSE \A i \in Inodes : ~disk[i].bad /\ disk[i].size <= IF walker \in Listings THEN 2 ELSE 0

MCSpec == MCInit /\ [][WalkNext]_<<vars, walkVars>>
=============================================================================
