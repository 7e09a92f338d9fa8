------------------------------ MODULE ReadJson ------------------------------
(***************************************************************************)
(* The JSON viewers: readjson, which formats its input, rdr2dot0, which    *)
(* prints it as it is, and the Python programs, whose parser is the        *)
(* library's.  All read a bounded file first, as do the programs that only *)
(* hash one.                                                               *)
(***************************************************************************)
EXTENDS FileHash, JsonFormat

CONSTANTS Pretties,   \* the C programs that format
          MaxOutput,  \* MAX_JSON_OUTPUT
          Stdio       \* what stdout buffers

\* "end" is what At gives for the end of a text.
ASSUME PrintAssumption ==
  Pretties \subseteq CPrograms /\ {MaxOutput, Stdio} \subseteq Nat /\ "end" \notin Characters

VARIABLE output       \* what has left the program

vars == <<fileVars, hashVars, output>>

-----------------------------------------------------------------------------

Formatted == IF program \in Pretties THEN Pretty(buffer) ELSE Append(buffer, "nl")

(* print_json validates, counts what the formatter would print, then prints *)
(* it to stdout, whose buffer may keep the end of it.                       *)
Outcome == IF ~Valid(buffer) THEN "invalid"
           ELSE IF program \in Pretties /\ Len(Formatted) > MaxOutput THEN "toolong"
           ELSE "printed"

PrintJson ==
  /\ pc = "print"
  /\ IF Outcome = "printed"
     THEN /\ pc' = "exit" /\ result' = "printed"
          /\ \E n \in 0..Len(Formatted) : /\ Len(Formatted) <= n + Stdio
                                         /\ output' = SubSeq(Formatted, 1, n)
     ELSE End(Outcome) /\ output' = <<>>
  /\ UNCHANGED <<inputVars, worldVars, buffer, capacity, hashVars>>

(* A write fails while print_json still looks: what stdout held is lost. *)
PrintFails ==
  /\ pc = "print" /\ Outcome = "printed" /\ End("unprinted")
  /\ events > 0 /\ events' = events - 1
  /\ fault' = TRUE
  /\ \E n \in 0..Len(Formatted) - 1 : output' = SubSeq(Formatted, 1, n)
  /\ UNCHANGED <<inputVars, file, changed, buffer, capacity, hashVars>>

(* main returns 0, and the rest leaves the buffer of stdout behind it. *)
Exit ==
  /\ pc = "exit" /\ pc' = "done"
  /\ output' = Formatted
  /\ UNCHANGED <<inputVars, worldVars, buffer, capacity, result, hashVars>>

(* Neither program has flushed stdout: a write that fails now goes unseen. *)
ExitFails ==
  /\ pc = "exit" /\ pc' = "done"
  /\ events > 0 /\ events' = events - 1
  /\ fault' = TRUE
  /\ \E n \in Len(output)..Len(Formatted) - 1 : output' = SubSeq(Formatted, 1, n)
  /\ UNCHANGED <<inputVars, file, changed, buffer, capacity, result, hashVars>>

Init == HashInit /\ output = <<>>

Next == \/ HashNext /\ UNCHANGED output
        \/ PrintJson
        \/ PrintFails
        \/ Exit
        \/ ExitFails

Spec == Init /\ [][Next]_vars

-----------------------------------------------------------------------------
(* Type invariant. *)
TypeOK == ReadTypeOK /\ output \in Seq(Characters)

-----------------------------------------------------------------------------
(* Safety *)

(* RFC 8259, with NUL among the escapes. *)
Grammar == INSTANCE JsonGrammar WITH Escapes <- {"quote", "\\", "n", "nul"}

(* README.md: "JSON is grammar-validated before output" and "nesting is     *)
(* capped": exactly the texts of the grammar, nested no deeper than the     *)
(* limit, get as far as being printed, except that a backslash before a NUL *)
(* counts as an escape.                                                     *)
PrintsExactlyJson ==
  /\ result = "invalid" => ~Grammar!IsText(buffer, MaxDepth)
  /\ result \in {"printed", "unprinted", "toolong"} => Grammar!IsText(buffer, MaxDepth)

(* What there is to print is what was read, but for white space that is in  *)
(* no string; to format it again changes nothing; and it is within the      *)
(* limit.  What leaves the program is that, from its start: all of it after *)
(* exit 0 if no write failed, and otherwise no less than all but what       *)
(* stdout may hold unwritten when print_json returns.  Nothing is printed   *)
(* of a text that is refused.                                               *)
OutputFaithful ==
  /\ output # <<>> => result \in {"printed", "unprinted"}
  /\ result \in {"printed", "unprinted"} =>
       /\ Grammar!Squeeze(Formatted) = Grammar!Squeeze(buffer)
       /\ program \in Pretties => Pretty(Formatted) = Formatted /\ Len(Formatted) <= MaxOutput
       /\ program \notin Pretties => IsStrictPrefix(buffer, Formatted)
       /\ IsPrefix(output, Formatted)
  /\ result = "printed" =>
       /\ Len(Formatted) <= Len(output) + Stdio
       /\ pc = "done" /\ ~fault => output = Formatted
=============================================================================
