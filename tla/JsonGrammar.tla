---------------------------- MODULE JsonGrammar ----------------------------
(***************************************************************************)
(* What a JSON text is (RFC 8259), stated over the ways to cut a text into *)
(* parts, with no idea of an order of parsing.  The characters are those   *)
(* of JsonFormat.                                                          *)
(***************************************************************************)
EXTENDS Naturals, Sequences, FiniteSets

CONSTANTS Escapes,    \* what may follow a backslash, but for u
          HexDigits   \* digits of a \u escape

Digit == {"0", "1"}
White == {" ", "nl"}

(* A part of a text is named by where it begins and where the rest begins. *)
All(t, a, b, S) == \A i \in a..b - 1 : t[i] \in S

(* Starts is where the escapes of the characters between the quotes start. *)
IsCharacters(t, a, b) ==
  \E Starts \in SUBSET {i \in a..b - 1 : t[i] = "\\"} :
    /\ \A i \in a..b - 1 : t[i] = "\\" => (i \in Starts <=> i - 1 \notin Starts)
    /\ \A i \in Starts :
         /\ i + 1 < b
         /\ \/ t[i + 1] \in Escapes
            \/ /\ t[i + 1] = "u"
               /\ i + 1 + HexDigits < b
               /\ \A k \in 1..HexDigits : t[i + 1 + k] \in Digit \cup {"e"}
    /\ \A i \in a..b - 1 : t[i] \in {"quote", "nl", "nul", "ctl"} => i - 1 \in Starts

IsString(t, a, b) ==
  a + 1 < b /\ t[a] = "quote" /\ t[b - 1] = "quote" /\ IsCharacters(t, a + 1, b - 1)

IsDigits(t, a, b) == a < b /\ All(t, a, b, Digit)
IsWhole(t, a, b) == IsDigits(t, a, b) /\ (t[a] = "0" => b = a + 1)
IsFraction(t, a, b) == a < b /\ t[a] = "." /\ IsDigits(t, a + 1, b)
IsExponent(t, a, b) ==
  /\ a + 1 < b /\ t[a] = "e"
  /\ \/ IsDigits(t, a + 1, b)
     \/ t[a + 1] \in {"+", "-"} /\ IsDigits(t, a + 2, b)

IsUnsigned(t, a, b) ==
  \E i \in a..b, j \in a..b :
    /\ i <= j
    /\ IsWhole(t, a, i)
    /\ i = j \/ IsFraction(t, i, j)
    /\ j = b \/ IsExponent(t, j, b)

IsNumber(t, a, b) == IsUnsigned(t, a, b) \/ (a < b /\ t[a] = "-" /\ IsUnsigned(t, a + 1, b))

IsScalar(t, a, b) == (b = a + 1 /\ t[a] = "true") \/ IsString(t, a, b) \/ IsNumber(t, a, b)

(* From a to b there is one of Parts, with white space around it. *)
Padded(t, a, b, Parts) ==
  \E x \in a..b, y \in a..b :
    x <= y /\ All(t, a, x, White) /\ <<x, y>> \in Parts /\ All(t, y, b, White)

Strings(t) == {s \in (1..Len(t) + 1) \X (1..Len(t) + 1) : IsString(t, s[1], s[2])}

(* What stands between two commas of an array or an object. *)
IsPart(t, a, b, open, Values) ==
  \/ open = "[" /\ Padded(t, a, b, Values)
  \/ /\ open = "{"
     /\ \E i \in a..b - 1 :
          t[i] = ":" /\ Padded(t, a, i, Strings(t)) /\ Padded(t, i + 1, b, Values)

(* Cuts are the commas that are not further inside. *)
IsSeries(t, a, b, open, Values) ==
  \E Cuts \in SUBSET {i \in a..b - 1 : t[i] = ","} :
    \A p \in Cuts \cup {a - 1}, q \in Cuts \cup {b} :
      p < q /\ (\A c \in Cuts : c <= p \/ q <= c) => IsPart(t, p + 1, q, open, Values)

IsCompound(t, a, b, Values) ==
  /\ a + 1 < b /\ <<t[a], t[b - 1]>> \in {<<"[", "]">>, <<"{", "}">>}
  /\ All(t, a + 1, b - 1, White) \/ IsSeries(t, a + 1, b - 1, t[a], Values)

(* The values whose arrays and objects are nested no deeper than d, by way  *)
(* of those that may stand inside n arrays and objects.                     *)
Nested(t, d) ==
  LET values[n \in 0..d] ==
        {s \in (1..Len(t) + 1) \X (1..Len(t) + 1) :
           IsScalar(t, s[1], s[2]) \/ (n < d /\ IsCompound(t, s[1], s[2], values[n + 1]))}
  IN values[0]

IsText(t, d) == Padded(t, 1, Len(t) + 1, Nested(t, d))

(* A text without the white space that is in no string.  In a JSON text a   *)
(* backslash is always in a string.                                         *)
EndsString(s, i) ==
  /\ s[i] = "quote"
  /\ Cardinality({j \in 1..i - 1 : All(s, j, i, {"\\"})}) % 2 = 0

InString(s, i) == Cardinality({j \in 1..i - 1 : EndsString(s, j)}) % 2 = 1

Squeeze(s) ==
  LET kept == {i \in DOMAIN s : s[i] \notin White \/ InString(s, i)}
  IN [k \in 1..Cardinality(kept) |->
        s[CHOOSE i \in kept : Cardinality({j \in kept : j <= i}) = k]]
=============================================================================
