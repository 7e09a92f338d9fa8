------------------------------ MODULE AvUpdate ------------------------------
(***************************************************************************)
(* The signature-database updaters: av_update_database and                 *)
(* av_check_database_update of c/av_update.c and update_database of        *)
(* antivermis.py.  Several updater processes, written in C or in Python,   *)
(* work on one destination file while the publisher replaces the manifest  *)
(* and the database, an administrator changes what is at the destination,  *)
(* system calls fail, processes are killed, and the machine loses power.   *)
(*                                                                         *)
(* A database is the model value of its bytes, and stands for its SHA-256  *)
(* digest too.  A file is a prefix of a database, in the page cache only or *)
(* made durable on disk by fsync.                                          *)
(***************************************************************************)
EXTENDS Naturals, FiniteSets

CONSTANTS Updaters,    \* updater processes
          Python,      \* those that run antivermis.py; the others run c/
          Temps,       \* the names mkstemp can make beside the destination
          Contents,    \* database bytes, and so SHA-256 digests
          Original,    \* the database in place at the start
          Published,   \* the databases the publisher puts out
          Size,        \* length of each database, in write units
          AcceptedC,   \* <<content, length>> the C parser accepts
          AcceptedPy,  \* <<content, length>> the Python parser accepts
          Dest,        \* the destination path
          Events,      \* bound on the events of the environment
          None         \* no content, no temporary name

ASSUME UpdateAssumption ==
  /\ Python \subseteq Updaters
  /\ Original \in Contents
  /\ Published \subseteq Contents
  /\ Size \in [Contents -> Nat]
  /\ AcceptedC \subseteq Contents \X Nat
  /\ AcceptedPy \subseteq Contents \X Nat
  /\ <<Original, Size[Original]>> \in AcceptedC \cup AcceptedPy
  /\ Events \in Nat
  /\ Dest \notin Temps
  /\ None \notin Contents \cup Temps

VARIABLES pc,         \* what each updater does next
          mode,       \* "update" or "check"
          want,       \* sha256 of the manifest an updater fetched
          got,        \* the database it downloaded
          temp,       \* its temporary file
          report,     \* what its last run printed
          fs,         \* what each path names
          past,       \* entries the destination may show after a power loss
          abandoned,  \* temporary files no process will remove
          manifest,   \* sha256 the publisher's manifest names now
          served,     \* bytes the publisher's database URL serves now
          approved,   \* every digest a manifest has named
          events      \* events of the environment still to come

procVars   == <<pc, mode, want, got, temp, report>>
diskVars   == <<fs, past, abandoned>>
publicVars == <<manifest, served, approved, events>>
vars       == <<procVars, diskVars, publicVars>>

-----------------------------------------------------------------------------
(* Types *)

Paths == {Dest} \cup Temps
Kinds == {"absent", "regular", "symlink", "directory"}
Entry == [kind: Kinds, db: Contents \cup {None}, len: Nat, on: {"cache", "disk"}]

Regular(c, n, o) == [kind |-> "regular", db |-> c, len |-> n, on |-> o]
Special(k) == [kind |-> k, db |-> None, len |-> 0, on |-> "disk"]
Absent == Special("absent")

(* Steps that hold no temporary file, and those that hold one. *)
EarlySteps == {"manifest", "current", "inspect", "fetch", "verify", "parse", "create"}
TempSteps  == {"write", "sync", "close", "validate", "rename"}
Steps      == {"idle"} \cup EarlySteps \cup TempSteps
Verdicts   == {"none", "failed", "current", "available", "updated"}
NoReport   == [what |-> "none", db |-> None]

Accepted(u) == IF u \in Python THEN AcceptedPy ELSE AcceptedC
Whole(c) == Regular(c, Size[c], "disk")

-----------------------------------------------------------------------------
(* Control flow.  The C updater hashes the download, looks at the           *)
(* destination, and lets the validator read the temporary file; the Python  *)
(* one first compares the destination, and parses the bytes in memory.      *)

CAfter  == [fetch |-> "verify", verify |-> "inspect", inspect |-> "create",
            write |-> "sync", sync |-> "close", close |-> "validate"]
PyAfter == [inspect |-> "fetch", fetch |-> "verify", verify |-> "parse",
            write |-> "sync", sync |-> "close", close |-> "rename"]
After(u, step) == IF u \in Python THEN PyAfter[step] ELSE CAfter[step]

GoTo(u, step) == pc' = [pc EXCEPT ![u] = step]

(* The process leaves the handler: its memory and its descriptor are gone. *)
Return(u, verdict) ==
  /\ GoTo(u, "idle")
  /\ report' = [report EXCEPT ![u] = [what |-> verdict, db |-> want[u]]]
  /\ want' = [want EXCEPT ![u] = None]
  /\ got' = [got EXCEPT ![u] = None]
  /\ temp' = [temp EXCEPT ![u] = None]
  /\ mode' = [mode EXCEPT ![u] = "update"]

-----------------------------------------------------------------------------
(* One action per step of the updater *)

Start(u, m) ==
  /\ pc[u] = "idle"
  /\ GoTo(u, "manifest")
  /\ mode' = [mode EXCEPT ![u] = m]
  /\ report' = [report EXCEPT ![u] = NoReport]
  /\ UNCHANGED <<want, got, temp, diskVars, publicVars>>

FetchManifest(u) ==
  /\ pc[u] = "manifest"
  /\ want' = [want EXCEPT ![u] = manifest]
  /\ GoTo(u, IF u \in Python \/ mode[u] = "check" THEN "current" ELSE "fetch")
  /\ UNCHANGED <<mode, got, temp, report, diskVars, publicVars>>

(* The destination already holds the manifest's database.  The open file is *)
(* one inode, so a rename during the read cannot mix two databases.         *)
IsCurrent(u) ==
  /\ pc[u] = "current"
  /\ fs[Dest].kind = "regular"
  /\ fs[Dest].db = want[u]
  /\ fs[Dest].len = Size[want[u]]
  /\ Return(u, "current")
  /\ UNCHANGED <<diskVars, publicVars>>

(* The destination differs, or cannot be read, which counts as different. *)
IsOutdated(u) ==
  /\ pc[u] = "current"
  /\ \/ mode[u] = "check" /\ Return(u, "available")
     \/ mode[u] = "update" /\ GoTo(u, "inspect")
                           /\ UNCHANGED <<mode, want, got, temp, report>>
  /\ UNCHANGED <<diskVars, publicVars>>

FetchDatabase(u) ==
  /\ pc[u] = "fetch"
  /\ got' = [got EXCEPT ![u] = served]
  /\ GoTo(u, After(u, "fetch"))
  /\ UNCHANGED <<mode, want, temp, report, diskVars, publicVars>>

VerifyHash(u) ==
  /\ pc[u] = "verify"
  /\ \/ got[u] = want[u] /\ GoTo(u, After(u, "verify"))
                         /\ UNCHANGED <<mode, want, got, temp, report>>
     \/ got[u] # want[u] /\ Return(u, "failed")
  /\ UNCHANGED <<diskVars, publicVars>>

(* parse_database on the downloaded bytes (antivermis.py) *)
ParseDownload(u) ==
  /\ pc[u] = "parse"
  /\ \/ /\ <<got[u], Size[got[u]]>> \in Accepted(u)
        /\ GoTo(u, "create")
        /\ UNCHANGED <<mode, want, got, temp, report>>
     \/ /\ <<got[u], Size[got[u]]>> \notin Accepted(u)
        /\ Return(u, "failed")
  /\ UNCHANGED <<diskVars, publicVars>>

(* lstat: a destination that exists must be a regular file. *)
Inspect(u) ==
  /\ pc[u] = "inspect"
  /\ \/ fs[Dest].kind \in {"absent", "regular"}
        /\ GoTo(u, After(u, "inspect"))
        /\ UNCHANGED <<mode, want, got, temp, report>>
     \/ fs[Dest].kind \notin {"absent", "regular"}
        /\ Return(u, "failed")
  /\ UNCHANGED <<diskVars, publicVars>>

(* mkstemp: an unused name, opened O_EXCL. *)
CreateTemp(u) ==
  /\ pc[u] = "create"
  /\ \E t \in Temps :
       /\ fs[t].kind = "absent"
       /\ fs' = [fs EXCEPT ![t] = Regular(got[u], 0, "cache")]
       /\ temp' = [temp EXCEPT ![u] = t]
  /\ GoTo(u, "write")
  /\ UNCHANGED <<mode, want, got, report, past, abandoned, publicVars>>

(* Mutant of Write: a short write is taken for a whole one. *)
WriteOnce(u) ==
  /\ pc[u] = "write"
  /\ \E n \in 1..Size[got[u]] :
       fs' = [fs EXCEPT ![temp[u]] = Regular(got[u], n, "cache")]
  /\ GoTo(u, After(u, "write"))
  /\ UNCHANGED <<mode, want, got, temp, report, past, abandoned, publicVars>>

(* One write(2), which may be short; the loop ends at the full length. *)
Write(u) ==
  /\ pc[u] = "write"
  /\ \/ /\ fs[temp[u]].len < Size[got[u]]
        /\ \E n \in (fs[temp[u]].len + 1)..Size[got[u]] :
             fs' = [fs EXCEPT ![temp[u]] = Regular(got[u], n, "cache")]
        /\ UNCHANGED pc
     \/ /\ fs[temp[u]].len = Size[got[u]]
        /\ GoTo(u, After(u, "write"))
        /\ UNCHANGED fs
  /\ UNCHANGED <<mode, want, got, temp, report, past, abandoned, publicVars>>

(* Mutant of Sync: the file is closed without fsync. *)
SyncSkipped(u) ==
  /\ pc[u] = "sync"
  /\ GoTo(u, After(u, "sync"))
  /\ UNCHANGED <<mode, want, got, temp, report, diskVars, publicVars>>

Sync(u) ==
  /\ pc[u] = "sync"
  /\ fs' = [fs EXCEPT ![temp[u]] = Regular(@.db, @.len, "disk")]
  /\ GoTo(u, After(u, "sync"))
  /\ UNCHANGED <<mode, want, got, temp, report, past, abandoned, publicVars>>

CloseTemp(u) ==
  /\ pc[u] = "close"
  /\ GoTo(u, After(u, "close"))
  /\ UNCHANGED <<mode, want, got, temp, report, diskVars, publicVars>>

Unlink(u) ==
  /\ fs' = [fs EXCEPT ![temp[u]] = Absent]
  /\ Return(u, "failed")
  /\ UNCHANGED <<past, abandoned>>

Abandon(u) ==
  /\ abandoned' = abandoned \cup {temp[u]}
  /\ Return(u, "failed")
  /\ UNCHANGED <<fs, past>>

(* unlink(temporary), which may fail in turn, then the error return. *)
Discard(u) == Unlink(u) \/ Abandon(u)

(* Mutant of Validate: a rejected file is not unlinked. *)
ValidateLeaks(u) ==
  /\ pc[u] = "validate"
  /\ \/ GoTo(u, "rename") /\ UNCHANGED <<mode, want, got, temp, report>>
     \/ Return(u, "failed")
  /\ UNCHANGED <<diskVars, publicVars>>

(* The validator loads the temporary file by its path (c/antivermis.c). *)
Validate(u) ==
  /\ pc[u] = "validate"
  /\ LET accepted == <<fs[temp[u]].db, fs[temp[u]].len>> \in Accepted(u)
     IN \/ accepted /\ GoTo(u, "rename")
                    /\ UNCHANGED <<mode, want, got, temp, report, diskVars>>
        \/ ~accepted /\ Discard(u)
  /\ UNCHANGED publicVars

(* Mutant of Rename: its result is ignored. *)
RenameUnchecked(u) ==
  /\ pc[u] = "rename"
  /\ IF fs[Dest].kind # "directory"
     THEN /\ fs' = [fs EXCEPT ![Dest] = fs[temp[u]], ![temp[u]] = Absent]
          /\ past' = past \cup {fs[temp[u]]}
     ELSE UNCHANGED <<fs, past>>
  /\ Return(u, "updated")
  /\ UNCHANGED <<abandoned, publicVars>>

(* rename replaces whatever the destination names, but not a directory.     *)
(* The unlink in the Python finally clause then finds nothing: mkstemp's    *)
(* random names are taken not to come back.                                 *)
Rename(u) ==
  /\ pc[u] = "rename"
  /\ fs[Dest].kind # "directory"
  /\ fs' = [fs EXCEPT ![Dest] = fs[temp[u]], ![temp[u]] = Absent]
  /\ past' = past \cup {fs[temp[u]]}
  /\ Return(u, "updated")
  /\ UNCHANGED <<abandoned, publicVars>>

(* A call fails before there is a temporary file: transfer error, time-out, *)
(* HTTP status, size limit, malformed manifest, lstat, path too long...     *)
FailEarly(u) ==
  /\ \/ pc[u] \in {"manifest", "inspect", "fetch", "create"}
     \/ pc[u] = "current" /\ u \in Python
  /\ Return(u, "failed")
  /\ UNCHANGED <<diskVars, publicVars>>

(* fchmod, write, fsync, close (in C), the validator's own I/O or rename    *)
(* fails, and the temporary file is unlinked.                               *)
FailLate(u) ==
  /\ pc[u] \in TempSteps
  /\ pc[u] = "close" => u \notin Python
  /\ Discard(u)
  /\ UNCHANGED publicVars

(* Python's finally clause closes the descriptor before it unlinks.  When   *)
(* that close fails the file stays: it may fail after fchmod, write or      *)
(* fsync did, and is sure to when the first os.close failed, which leaves   *)
(* the number of a descriptor that is closed.                               *)
CloseFails(u) ==
  /\ u \in Python
  /\ pc[u] \in {"write", "sync", "close"}
  /\ Abandon(u)
  /\ UNCHANGED publicVars

Program(u) ==
  \/ FetchManifest(u) \/ IsCurrent(u) \/ IsOutdated(u) \/ FetchDatabase(u)
  \/ VerifyHash(u) \/ ParseDownload(u) \/ Inspect(u) \/ CreateTemp(u)
  \/ Write(u) \/ Sync(u) \/ CloseTemp(u) \/ Validate(u) \/ Rename(u)
  \/ FailEarly(u) \/ FailLate(u) \/ CloseFails(u)

-----------------------------------------------------------------------------
(* The environment, for which Events bounds the number of crashes, power    *)
(* losses, foreign changes of the destination and publications.             *)

Happens == events > 0 /\ events' = events - 1

(* SIGKILL, a fault or the user's interrupt. *)
Crash(u) ==
  /\ Happens
  /\ pc[u] # "idle"
  /\ Return(u, "failed")
  /\ abandoned' = abandoned \cup ({temp[u]} \ {None})
  /\ UNCHANGED <<fs, past, manifest, served, approved>>

(* What may be left of a file's unsynced data after a power loss. *)
Survivors(f) == IF f.on = "disk" THEN {f} ELSE {Regular(f.db, n, "disk") : n \in 0..f.len}

(* No directory is ever synced: the destination may name anything it named  *)
(* since the last restart, and a temporary name may be lost.  What is left  *)
(* in a temporary file matters to nobody.                                   *)
PowerLoss ==
  /\ Happens
  /\ \E f \in past : \E e \in Survivors(f), kept \in SUBSET Temps :
       /\ fs' = [p \in Paths |-> IF p = Dest THEN e ELSE
                                 IF p \in kept THEN fs[p] ELSE Absent]
       /\ past' = {e}
       /\ abandoned' = {t \in kept : fs[t].kind # "absent"}
  /\ pc' = [u \in Updaters |-> "idle"]
  /\ want' = [u \in Updaters |-> None]
  /\ got' = [u \in Updaters |-> None]
  /\ temp' = [u \in Updaters |-> None]
  /\ report' = [u \in Updaters |-> NoReport]
  /\ mode' = [u \in Updaters |-> "update"]
  /\ UNCHANGED <<manifest, served, approved>>

(* An administrator removes the destination or puts something else there. *)
Outside(k) ==
  /\ Happens
  /\ fs' = [fs EXCEPT ![Dest] = Special(k)]
  /\ past' = past \cup {Special(k)}
  /\ UNCHANGED <<procVars, abandoned, manifest, served, approved>>

CleanTemp(t) ==
  /\ t \in abandoned
  /\ fs' = [fs EXCEPT ![t] = Absent]
  /\ abandoned' = abandoned \ {t}
  /\ UNCHANGED <<procVars, past, publicVars>>

(* The publisher changes the two URLs one at a time. *)
PublishManifest(c) ==
  /\ Happens
  /\ manifest' = c
  /\ approved' = approved \cup {c}
  /\ UNCHANGED <<procVars, diskVars, served>>

PublishDatabase(c) ==
  /\ Happens
  /\ served' = c
  /\ UNCHANGED <<procVars, diskVars, manifest, approved>>

Environment ==
  \/ \E u \in Updaters : Crash(u)
  \/ PowerLoss
  \/ \E k \in Kinds \ {"regular"} : Outside(k)
  \/ \E t \in Temps : CleanTemp(t)
  \/ \E c \in Published : PublishManifest(c) \/ PublishDatabase(c)

-----------------------------------------------------------------------------

Init ==
  /\ pc = [u \in Updaters |-> "idle"]
  /\ mode = [u \in Updaters |-> "update"]
  /\ want = [u \in Updaters |-> None]
  /\ got = [u \in Updaters |-> None]
  /\ temp = [u \in Updaters |-> None]
  /\ report = [u \in Updaters |-> NoReport]
  /\ \E e \in {Absent, Whole(Original)} :
       fs = [p \in Paths |-> IF p = Dest THEN e ELSE Absent]
  /\ past = {fs[Dest]}
  /\ abandoned = {}
  /\ manifest \in Published
  /\ served \in Published
  /\ approved = {Original, manifest}
  /\ events = Events

Next ==
  \/ \E u \in Updaters, m \in {"update", "check"} : Start(u, m)
  \/ \E u \in Updaters : Program(u)
  \/ Environment

Spec == Init /\ [][Next]_vars

-----------------------------------------------------------------------------
(* Type invariant.  A running step holds what it needs: the digest, the     *)
(* download, the temporary name.                                            *)

WellFormed(f) ==
  f \in Entry /\ (f.kind # "regular" => f = Special(f.kind))

ProcessesOK ==
  /\ pc \in [Updaters -> Steps]
  /\ mode \in [Updaters -> {"update", "check"}]
  /\ want \in [Updaters -> Contents \cup {None}]
  /\ got \in [Updaters -> Contents \cup {None}]
  /\ temp \in [Updaters -> Temps \cup {None}]
  /\ report \in [Updaters -> [what: Verdicts, db: Contents \cup {None}]]
  /\ \A u \in Updaters :
       /\ pc[u] \notin {"idle", "manifest"} => want[u] \in Contents
       /\ pc[u] \in {"verify", "parse", "create"} \cup TempSteps => got[u] \in Contents
       /\ pc[u] = "current" /\ mode[u] = "update" => u \in Python
       /\ pc[u] = "inspect" /\ u \notin Python => got[u] \in Contents
       /\ pc[u] \in TempSteps <=> temp[u] # None

DiskOK ==
  /\ fs \in [Paths -> Entry]
  /\ \A p \in Paths : WellFormed(fs[p])
  /\ \A f \in past : WellFormed(f)
  /\ abandoned \in SUBSET Temps

PublicOK ==
  /\ manifest \in approved
  /\ served \in Contents
  /\ approved \in SUBSET Contents
  /\ events \in 0..Events

TypeOK == ProcessesOK /\ DiskOK /\ PublicOK

-----------------------------------------------------------------------------
(* Safety *)

(* A file that a scanner may load: every byte of it, on disk, named by a    *)
(* published manifest and accepted by the parser of the installing program. *)
Sound(f) ==
  f.kind = "regular" =>
    /\ f.db \in approved
    /\ f.len = Size[f.db]
    /\ f.on = "disk"
    /\ <<f.db, f.len>> \in AcceptedC \cup AcceptedPy

(* Whatever the updaters, the publisher, crashes and power losses do, the   *)
(* destination never holds a partial, unverified or unparsed database, and  *)
(* a power loss cannot bring one back.                                      *)
DestinationSound == \A f \in past \cup {fs[Dest]} : Sound(f)

(* A temporary file belongs to one running updater, or to a run that was    *)
(* killed, could not unlink it or, in Python, could not close it: no other  *)
(* path leaks one, and no two updaters write the same file.                 *)
TempsAccounted ==
  /\ \A t \in Temps : fs[t].kind # "absent" =>
       t \in abandoned \/ \E u \in Updaters : pc[u] \in TempSteps /\ temp[u] = t
  /\ \A u, v \in Updaters : temp[u] = temp[v] /\ temp[u] # None => u = v

(* What a run printed is true: "updated" and "current" name a database that *)
(* was whole at the destination since the machine last started.             *)
ReportTruthful ==
  \A u \in Updaters :
    report[u].what \in {"updated", "current"} => Whole(report[u].db) \in past

-----------------------------------------------------------------------------
(* Refinement: the updaters implement the atomic replacement of the         *)
(* destination by whole, approved, parsed databases.                        *)

Shown(f) ==
  IF f.kind # "regular" THEN f.kind
  ELSE IF f.on = "disk" /\ f.len = Size[f.db] THEN f.db ELSE "torn"

Abstract == INSTANCE AtomicInstall WITH
  Contents <- Contents,
  Acceptable <- {c \in Contents : <<c, Size[c]>> \in AcceptedC \cup AcceptedPy},
  Foreign <- Kinds \ {"regular"},
  installed <- Shown(fs[Dest]),
  past <- {Shown(f) : f \in past},
  approved <- approved

InstallsAtomically == Abstract!Spec
=============================================================================
