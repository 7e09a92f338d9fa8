----------------------------- MODULE JsonFormat -----------------------------
(***************************************************************************)
(* c/jsonfmt.c: the validator, a parser by recursive descent with a limit  *)
(* on nesting, and the formatter, a single pass that never looks at the    *)
(* grammar again.  A text is a sequence of characters.  One character      *)
(* stands for those the code treats alike: "1" for the digits but 0, "e"   *)
(* for the letters of an exponent, " " for the blank, "nl" for the other   *)
(* white space, "ctl" for the control characters that are not NUL, "n" for *)
(* the escapes of one letter, and "true" for the three literal names.      *)
(***************************************************************************)
EXTENDS Naturals, Sequences, SequencesExt, FiniteSetsExt

CONSTANTS MaxDepth,   \* MAX_JSON_DEPTH
          HexDigits   \* digits of a \u escape

ASSUME JsonAssumption == MaxDepth \in Nat /\ HexDigits \in Nat \ {0}

Blank   == {" ", "nl"}
Digits  == {"0", "1"}
Hex     == {"0", "1", "e"}
Control == {"nl", "nul", "ctl"}
Opening == {"{", "["}
Closing == {"}", "]"}
Match(c) == CASE c = "{" -> "}" [] c = "[" -> "]" [] c = "}" -> "{" [] c = "]" -> "["

(* strchr also finds the NUL that ends its string. *)
ShortEscapes == {"quote", "\\", "n", "nul"}

-----------------------------------------------------------------------------
(* The validator.  A parsing operator takes the position it starts at and   *)
(* returns the one after what it has parsed, or 0.                          *)

At(t, i) == IF i \in DOMAIN t THEN t[i] ELSE "end"

(* The first position from i on that is not one of S. *)
Skip(t, i, S) == Min({j \in i..Len(t) + 1 : At(t, j) \notin S})

SkipSpace(t, i) == Skip(t, i, Blank)

(* The rest of a string, from i on. *)
StringEnd(t, i) ==
  LET end[j \in 1..Len(t) + 1] ==
        CASE At(t, j) \in Control \cup {"end"} -> 0
          [] At(t, j) = "quote" -> j + 1
          [] At(t, j) = "\\" ->
               CASE At(t, j + 1) \in ShortEscapes -> end[j + 2]
                 [] /\ At(t, j + 1) = "u"
                    /\ \A k \in 1..HexDigits : At(t, j + 1 + k) \in Hex
                      -> end[j + 2 + HexDigits]
                 [] OTHER -> 0
          [] OTHER -> end[j + 1]
  IN end[i]

ParseString(t, i) == IF At(t, i) = "quote" THEN StringEnd(t, i + 1) ELSE 0

(* One digit or more. *)
SomeDigits(t, i) == IF At(t, i) \in Digits THEN Skip(t, i, Digits) ELSE 0

WholePart(t, i) == IF At(t, i) = "0" THEN i + 1 ELSE SomeDigits(t, i)
Fraction(t, i) == IF i # 0 /\ At(t, i) = "." THEN SomeDigits(t, i + 1) ELSE i
Exponent(t, i) ==
  IF i # 0 /\ At(t, i) = "e"
  THEN SomeDigits(t, IF At(t, i + 1) \in {"+", "-"} THEN i + 2 ELSE i + 1)
  ELSE i

ParseNumber(t, i) ==
  Exponent(t, Fraction(t, WholePart(t, IF At(t, i) = "-" THEN i + 1 ELSE i)))

(* The string and the colon before a member of an object. *)
ParseKey(t, i) ==
  LET s == ParseString(t, i)
      c == SkipSpace(t, s)
  IN IF s # 0 /\ At(t, c) = ":" THEN c + 1 ELSE 0

(* One member; inner[i] is where a value in an array or an object that      *)
(* starts at i has its end.                                                 *)
ParseMember(t, i, open, inner) ==
  LET start == IF open = "{" THEN ParseKey(t, i) ELSE i
  IN IF start = 0 THEN 0 ELSE inner[start]

(* What follows a member with this end: rest[i] is where the members from i *)
(* on have theirs.                                                          *)
AfterMember(t, end, open, rest) ==
  LET next == SkipSpace(t, end)
  IN CASE end # 0 /\ At(t, next) = Match(open) -> next + 1
       [] end # 0 /\ At(t, next) = "," -> rest[SkipSpace(t, next + 1)]
       [] OTHER -> 0

(* The loop over the members. *)
ParseMembers(t, i, open, inner) ==
  LET rest[j \in 1..Len(t) + 1] == AfterMember(t, ParseMember(t, j, open, inner), open, rest)
  IN rest[i]

(* Mutant of ParseCompound: the limit is checked off by one. *)
ParseCompoundSooner(t, i, depth, inner) ==
  LET first == SkipSpace(t, i + 1)
  IN IF depth + 1 >= MaxDepth THEN 0
     ELSE IF At(t, first) = Match(t[i]) THEN first + 1
     ELSE ParseMembers(t, first, t[i], inner)

ParseCompound(t, i, depth, inner) ==
  LET first == SkipSpace(t, i + 1)
  IN IF depth >= MaxDepth THEN 0
     ELSE IF At(t, first) = Match(t[i]) THEN first + 1
     ELSE ParseMembers(t, first, t[i], inner)

ParseValue(t, from, depth, inner) ==
  LET i == SkipSpace(t, from)
  IN CASE At(t, i) = "quote" -> ParseString(t, i)
       [] At(t, i) \in Opening -> ParseCompound(t, i, depth, inner)
       [] At(t, i) = "true" -> i + 1
       [] OTHER -> ParseNumber(t, i)

(* The recursion: a value at one depth is parsed by way of those one deeper. *)
Parse(t) ==
  LET value[depth \in 0..MaxDepth] ==
        [i \in 1..Len(t) + 1 |-> ParseValue(t, i, depth, value[depth + 1])]
  IN value[0]

(* validate_json: one value, and nothing but white space after it. *)
Valid(t) ==
  LET end == Parse(t)[1]
  IN end # 0 /\ SkipSpace(t, end) = Len(t) + 1

-----------------------------------------------------------------------------
(* The formatter *)

NewLine(depth) == <<"nl">> \o [k \in 1..2 * depth |-> " "]

(* What follows an opening bracket at i, unless nothing is inside. *)
AfterOpen(t, i, depth) ==
  IF At(t, SkipSpace(t, i + 1)) \in {"end", Match(t[i])} THEN <<>> ELSE NewLine(depth + 1)

(* What precedes a closing bracket at i, unless nothing is inside. *)
BeforeClose(t, i, depth) ==
  LET inside == {j \in 1..i - 1 : t[j] \notin Blank}
  IN IF inside = {} \/ t[Max(inside)] = Match(t[i]) THEN <<>> ELSE NewLine(depth - 1)

(* What is printed for the character at i, outside a string. *)
Layout(t, i, depth) ==
  CASE t[i] \in Opening -> <<t[i]>> \o AfterOpen(t, i, depth)
    [] t[i] \in Closing -> BeforeClose(t, i, depth) \o <<t[i]>>
    [] t[i] = "," -> <<",">> \o NewLine(depth)
    [] t[i] = ":" -> <<":", " ">>
    [] t[i] \in Blank -> <<>>
    [] OTHER -> <<t[i]>>

DepthAfter(c, depth) ==
  CASE c \in Opening -> depth + 1 [] c \in Closing -> depth - 1 [] OTHER -> depth

(* Mutant of Emit: any quote ends a string. *)
EmitBlind(t, s, i) ==
  IF s.string
  THEN [s EXCEPT !.out = Append(@, t[i]), !.string = t[i] # "quote"]
  ELSE [s EXCEPT !.out = @ \o Layout(t, i, s.depth),
                 !.depth = DepthAfter(t[i], @),
                 !.string = t[i] = "quote"]

(* The state of the pass: what it has printed, the depth, and whether it is *)
(* in a string and behind a backslash there.                                *)
Emit(t, s, i) ==
  IF s.string
  THEN [s EXCEPT !.out = Append(@, t[i]),
                 !.escaped = ~s.escaped /\ t[i] = "\\",
                 !.string = s.escaped \/ t[i] # "quote"]
  ELSE [s EXCEPT !.out = @ \o Layout(t, i, s.depth),
                 !.depth = DepthAfter(t[i], @),
                 !.string = t[i] = "quote"]

Pretty(t) ==
  LET start == [out |-> <<>>, depth |-> 0, string |-> FALSE, escaped |-> FALSE]
  IN Append(FoldLeftDomain(LAMBDA s, i : Emit(t, s, i), start, t).out, "nl")
=============================================================================
