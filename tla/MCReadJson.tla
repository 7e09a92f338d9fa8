----------------------------- MODULE MCReadJson -----------------------------
(* All short texts over the characters of brackets, of numbers, of strings  *)
(* and of everything, longer ones of brackets alone, and a few of members   *)
(* of objects and of strings in structures; some of them change while they  *)
(* are read.  All signature databases of up to three lines.                 *)
EXTENDS ReadJson, SigDb

Ended(k, end, length) == [kind |-> k, end |-> end, length |-> length]
Other(k) == Ended(k, "nl", 1)
Written(k, h, sizes, label, blanks, end) ==
  [kind |-> k, hash |-> h, sizes |-> sizes, label |-> label, blanks |-> blanks, end |-> end,
   length |-> label + blanks + 1]
Record(k, h, sizes, label) == Written(k, h, sizes, label, 0, "nl")

(* A label of four is one too long for C, one of five for both. *)
MCLine ==
  "blank" :> Other("blank") @@ "nul line" :> Other("nul") @@ "header" :> Other("header")
    @@ "no colon" :> Other("nocolon")
    @@ "h1 label" :> Record("plain", "h1", FileSizes, 1)
    @@ "h2 label" :> Record("plain", "h2", FileSizes, 1)
    @@ "bad label" :> Record("plain", "bad", FileSizes, 1)
    @@ "h1 long" :> Record("plain", "h1", FileSizes, 4)
    @@ "h2 longer" :> Record("plain", "h2", FileSizes, 5)
    @@ "h1:*:" :> Record("any", "h1", FileSizes, 0)
    @@ "h3:*:label" :> Record("any", "h3", FileSizes, 1)
    @@ "h1:1:label" :> Record("digits", "h1", {1}, 1)
    @@ "h2:9..9:label" :> Record("huge", "h2", {}, 1)
    @@ "h2:+1:label" :> Record("signed", "h2", {1}, 1)
    @@ "h2:x:label" :> Record("junk", "h2", {}, 1)
    @@ "h2 label blank" :> Written("plain", "h2", FileSizes, 1, 1, "nl")
    @@ "h3 long blank" :> Written("plain", "h3", FileSizes, 3, 1, "nl")
    @@ "h1:1:label cr" :> Written("digits", "h1", {1}, 1, 0, "cr")
    @@ "h1 label ff" :> Written("plain", "h1", FileSizes, 1, 0, "control")
    @@ "comment cr" :> Ended("comment", "cr", 1)
    @@ "nothing ff" :> Ended("blank", "control", 0)

MCCharacters == {"{", "}", "[", "]", ":", ",", "quote", "\\", "u", "n", "e", "0", "1",
                 "-", "+", ".", "true", "nul", "ctl", " ", "nl"} \cup DOMAIN MCLine
Json == MCCharacters \ DOMAIN MCLine

Quoted(s) == <<"quote">> \o s \o <<"quote">>
Member == <<"quote", "quote", ":", "1">>
Member2 == <<"[", "1", ",", " ", "[", "]", " ", "nl", "]">>

(* One text is longer than all that scan_file keeps. *)
MCIndicators == {<<"[", "]">>, <<"quote", "1">>, <<",", "1", " ">>}

MCStreams == {<<"[", "1", "]">>, <<"1", " ", "1">>, <<>>, <<"{">> \o Member \o <<"}">>,
              <<"[">> \o Member2 \o <<"]">>}

MCTexts ==
  BoundedSeq(Json, 3)
    \cup BoundedSeq(DOMAIN MCLine, 3)
    \cup BoundedSeq({"[", "]", "{", "}", ",", "quote", ":", "1"}, 4)
    \cup BoundedSeq({"[", "]"}, 7)
    \cup BoundedSeq({"[", "]", ",", "1", " "}, 5)
    \cup BoundedSeq({"-", "+", "0", "1", ".", "e"}, 5)
    \cup {Quoted(s) : s \in BoundedSeq({"quote", "\\", "u", "n", "e", "nul", " "}, 4)}
    \cup {<<"[">> \o Quoted(s) \o <<"]">> : s \in BoundedSeq({"quote", "\\", "]", "n", " "}, 3)}
    \cup {<<"{">> \o s \o Member \o t \o <<"}">> :
            s \in BoundedSeq({" ", ",", "1"}, 1) \cup {Member \o <<",">>},
            t \in BoundedSeq({" ", ",", "nl"}, 2) \cup {<<",">> \o Member}}
=============================================================================
