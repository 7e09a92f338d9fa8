---------------------------- MODULE BoundedRead ----------------------------
(***************************************************************************)
(* How the tools read a file into memory: read_file_bounded of c/common.c, *)
(* with a buffer that doubles up to a limit; read_database of              *)
(* c/antivermis.c, which wants the size it has seen, no more and no less;  *)
(* read_bytes of pycommon.py and _bounded_hash of pydev_ai/collectors.py,  *)
(* which read on to one byte past the limit and then ask whether the file  *)
(* is as it was; and hash_local_database of c/av_update.c and scan_file of *)
(* c/antivermis.c, which keep no more than a piece of the file at a time:  *)
(* for them, buffer is all that was read.  Others append to the file,      *)
(* truncate it or write into it between two reads.                         *)
(***************************************************************************)
EXTENDS Integers, Sequences

CONSTANTS CPrograms,   \* programs that call read_file_bounded
          DbPrograms,  \* programs that call read_database
          PyPrograms,  \* programs that call read_bytes or _bounded_hash
          PyHashers,   \* those of them that call _bounded_hash
          ShaPrograms, \* programs that feed a file to av_sha256.c
          Scanners,    \* those of them that run scan_file
          Characters,  \* what a file is made of
          NewText,     \* characters that others write
          Texts,       \* what files hold that nobody changes
          Streams,     \* what files hold that others may change
          MaxInput,    \* MAX_INPUT_SIZE, MAX_INPUT
          Initial,     \* INITIAL_CAPACITY
          Chunk,       \* 65_536 or 8192, the most that is read at once
          Events       \* bound on short reads, failed calls and changes

ASSUME ReadAssumption ==
  /\ CPrograms \cap (DbPrograms \cup PyPrograms \cup ShaPrograms) = {}
  /\ DbPrograms \cap (PyPrograms \cup ShaPrograms) = {} /\ PyPrograms \cap ShaPrograms = {}
  /\ PyHashers \subseteq PyPrograms /\ Scanners \subseteq ShaPrograms
  /\ Texts \cup Streams \subseteq Seq(Characters)
  /\ NewText \subseteq Characters
  /\ {MaxInput, Initial, Chunk} \subseteq Nat \ {0}
  /\ Events \in Nat

VARIABLES program,   \* the program that reads
          kind,      \* of the file: "regular", "device" or "other"
          file,      \* what it holds
          pc,        \* "open", "read", "check", "close", "print", "exit" or "done"
          buffer,    \* what was read
          capacity,  \* of the buffer; in Python the most that is ever read,
                     \* for av_sha256 the size that fstat gave
          changed,   \* the file has changed since it was opened
          fault,     \* a call has failed
          events,    \* events still to come
          result     \* "none", "read", "unread", or what became of the text

inputVars == <<program, kind>>
readVars  == <<pc, buffer, capacity, result>>
worldVars == <<file, changed, fault, events>>
fileVars  == <<inputVars, readVars, worldVars>>

Smaller(a, b) == IF a < b THEN a ELSE b
Left == Len(file) - Len(buffer)
Reading == pc \in {"read", "check", "close"}

-----------------------------------------------------------------------------
(* The reader *)

End(verdict) == pc' = "done" /\ result' = verdict

Supported == IF program \in CPrograms THEN {"regular", "device"} ELSE {"regular"}

(* The size to start with. *)
Room ==
  IF program \in PyPrograms THEN MaxInput + 1
  ELSE IF program \in DbPrograms \cup ShaPrograms \/ (kind = "regular" /\ Len(file) > 0) THEN Len(file)
  ELSE Smaller(Initial, MaxInput)

TooLarge == kind = "regular" /\ Len(file) > MaxInput /\ program \notin PyHashers

(* open and fstat: the type and, of a regular file, the size, which         *)
(* _bounded_hash does not look at.                                          *)
Open ==
  /\ pc = "open"
  /\ IF kind \notin Supported \/ TooLarge
     THEN End("unread") /\ UNCHANGED capacity
     ELSE /\ pc' = "read"
          /\ capacity' = Room
          /\ UNCHANGED result
  /\ UNCHANGED <<inputVars, worldVars, buffer>>

(* realloc of a full buffer *)
Grow ==
  /\ pc = "read" /\ program \in CPrograms
  /\ Len(buffer) = capacity /\ capacity < MaxInput
  /\ capacity' = Smaller(2 * capacity, MaxInput)
  /\ UNCHANGED <<inputVars, worldVars, pc, buffer, result>>

(* The most that one read asks for. *)
Wanted == IF program \in ShaPrograms THEN Chunk
          ELSE IF program \in PyPrograms THEN Smaller(Chunk, capacity - Len(buffer))
          ELSE capacity - Len(buffer)

(* One read of n; Python and scan_file compare the total with the limit.    *)
Read(n) ==
  /\ pc = "read"
  /\ n < Smaller(Left, Wanted) => events > 0
  /\ events' = IF n < Smaller(Left, Wanted) THEN events - 1 ELSE events
  /\ buffer' = buffer \o SubSeq(file, Len(buffer) + 1, Len(buffer) + n)
  /\ IF program \in PyPrograms \cup Scanners /\ Len(buffer') > MaxInput
     THEN End("unread")
     ELSE UNCHANGED <<pc, result>>
  /\ UNCHANGED <<inputVars, capacity, file, changed, fault>>

(* The end of the file, which read_database does not expect yet. *)
ReadEof ==
  /\ pc = "read" /\ Wanted > 0 /\ Left <= 0
  /\ \/ program \in CPrograms  /\ pc' = "close" /\ UNCHANGED result
     \/ program \in DbPrograms /\ End("unread")
     \/ program \in PyPrograms \cup ShaPrograms /\ pc' = "check" /\ UNCHANGED result
  /\ UNCHANGED <<inputVars, worldVars, buffer, capacity>>

(* Mutant of ReadExtra: a buffer that is full to the limit is too much. *)
ReadNoExtra ==
  /\ pc = "read" /\ program \in CPrograms
  /\ Len(buffer) = capacity /\ capacity = MaxInput
  /\ End("unread")
  /\ UNCHANGED <<inputVars, worldVars, buffer, capacity>>

(* The buffer is as large as it may be: one more byte would be too much. *)
ReadExtra ==
  /\ pc = "read" /\ program \in CPrograms
  /\ Len(buffer) = capacity /\ capacity = MaxInput
  /\ IF Left > 0 THEN End("unread") ELSE pc' = "close" /\ UNCHANGED result
  /\ UNCHANGED <<inputVars, worldVars, buffer, capacity>>

(* read_database has what it wants: there must be no more. *)
ReadOneMore ==
  /\ pc = "read" /\ program \in DbPrograms /\ Len(buffer) = capacity
  /\ IF Left > 0 THEN End("unread") ELSE pc' = "check" /\ UNCHANGED result
  /\ UNCHANGED <<inputVars, worldVars, buffer, capacity>>

(* Mutant of Check: the second fstat is left out. *)
CheckNothing ==
  /\ pc = "check" /\ End("read")
  /\ UNCHANGED <<inputVars, worldVars, buffer, capacity>>

(* fstat again: the size and, for Python, the modification time must be as  *)
(* they were; av_sha256 must have had all of it.                            *)
Differs == IF program \in PyPrograms THEN changed
           ELSE Len(file) # capacity \/ (program \in ShaPrograms /\ Len(buffer) # capacity)

(* hash_local_database looks at the time too, but only at its seconds.      *)
Check ==
  /\ pc = "check"
  /\ \/ End(IF Differs THEN "unread" ELSE "read")
     \/ program \in ShaPrograms \ Scanners /\ changed /\ End("unread")
  /\ UNCHANGED <<inputVars, worldVars, buffer, capacity>>

Close ==
  /\ pc = "close" /\ pc' = "print" /\ result' = "read"
  /\ UNCHANGED <<inputVars, worldVars, buffer, capacity>>

(* open, fstat, malloc, realloc, read or close fails. *)
ReadFails ==
  /\ pc = "open" \/ Reading
  /\ events > 0 /\ events' = events - 1
  /\ fault' = TRUE /\ End("unread")
  /\ UNCHANGED <<inputVars, file, changed, buffer, capacity>>

Reader ==
  \/ Open \/ Grow \/ ReadEof \/ ReadExtra \/ ReadOneMore \/ Check \/ Close \/ ReadFails
  \/ \E n \in 1..Smaller(Left, Wanted) : Read(n)

-----------------------------------------------------------------------------
(* Others append a character, truncate the file or write into it.  Whatever *)
(* they do shows in the modification time.                                  *)
Others ==
  /\ Reading /\ events > 0 /\ events' = events - 1
  /\ \/ \E c \in NewText : file' = Append(file, c)
     \/ \E n \in 0..Len(file) : n < Len(file) /\ file' = SubSeq(file, 1, n)
     \/ \E i \in DOMAIN file, c \in NewText : file' = [file EXCEPT ![i] = c]
  /\ changed' = TRUE
  /\ UNCHANGED <<inputVars, readVars, fault>>

ReadInit ==
  /\ program \in CPrograms \cup DbPrograms \cup PyPrograms \cup ShaPrograms
  /\ kind \in {"regular", "device", "other"}
  /\ file \in Texts \cup Streams
  /\ events = IF file \in Streams THEN Events ELSE 0
  /\ pc = "open" /\ buffer = <<>> /\ capacity = 0
  /\ changed = FALSE /\ fault = FALSE /\ result = "none"

ReadNext == Reader \/ Others

ReadSpec == ReadInit /\ [][ReadNext]_fileVars

-----------------------------------------------------------------------------
(* Type invariant.  A buffer never holds more than it has room for, and has *)
(* room for no more than the limit, and one character more in Python.       *)

Limit == IF program \in PyPrograms THEN MaxInput + 1 ELSE MaxInput

ReadTypeOK ==
  /\ program \in CPrograms \cup DbPrograms \cup PyPrograms \cup ShaPrograms
  /\ kind \in {"regular", "device", "other"}
  /\ file \in Seq(Characters) /\ buffer \in Seq(Characters)
  /\ pc \in {"open", "read", "check", "close", "print", "exit", "done"}
  /\ capacity \in 0..Limit /\ (program \notin ShaPrograms => Len(buffer) <= capacity)
  /\ changed \in BOOLEAN /\ fault \in BOOLEAN
  /\ events \in 0..Events
  /\ result \in {"none", "read", "unread", "invalid", "toolong", "unprinted", "printed"}

-----------------------------------------------------------------------------
(* Safety *)

(* What is made of a file is what the file held, all of it and at one time: *)
(* in Python whatever others do meanwhile, in C if they do nothing; and     *)
(* what is loaded or hashed as a whole has the length the file had at the   *)
(* first look and the last.                                                 *)
ReadsWhole ==
  result \notin {"none", "unread"} =>
    /\ program \in PyPrograms \/ ~changed => buffer = file
    /\ program \in DbPrograms \cup ShaPrograms => Len(buffer) = capacity /\ Len(file) = capacity

(* A file is refused for a reason: a failed call, its type, a size beyond   *)
(* the limit, or a change.  One that is exactly as large as the limit is    *)
(* read.                                                                    *)
RefusalHasCause ==
  result = "unread" => \/ fault \/ changed
                       \/ kind \notin Supported
                       \/ Len(file) > MaxInput
=============================================================================
