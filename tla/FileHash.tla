------------------------------ MODULE FileHash ------------------------------
(***************************************************************************)
(* What hash_local_database and scan_file make of the pieces in which they *)
(* read a file: SHA-256 of c/av_sha256.c, as far as it collects blocks and *)
(* pads the last one, and the window in which inspect_text looks for its   *)
(* texts.  A digest is known by the blocks that were transformed for it.   *)
(***************************************************************************)
EXTENDS BoundedRead, TLC

CONSTANTS Block,       \* 64
          LengthSize,  \* 8, what the length takes of a block
          Keep,        \* 256, what scan_file keeps of one piece for the next
          Indicators,  \* the texts inspect_text looks for
          Unprinted    \* the characters that it takes for a space

ASSUME HashAssumption ==
  /\ {Block, Keep} \subseteq Nat /\ LengthSize \in 1..Block - 1
  /\ Indicators \subseteq Seq(Characters) /\ Unprinted \subseteq Characters
  /\ \A p \in Indicators : Len(p) \in 1..Keep + 1

VARIABLES sha,    \* the context: blocks transformed, the next one, bits
          carry,  \* the end of what scan_file has read
          seen    \* its flags

hashVars == <<sha, carry, seen>>

-----------------------------------------------------------------------------
(* av_sha256_update and av_sha256_final *)

(* One round of the loop: as much as the block has room for. *)
Round(s) ==
  LET amount == Smaller(Len(s.data), Block - Len(s.block))
      filled == s.block \o SubSeq(s.data, 1, amount)
      full   == Len(filled) = Block
  IN [blocks |-> IF full THEN Append(s.blocks, filled) ELSE s.blocks,
      block  |-> IF full THEN <<>> ELSE filled,
      bits   |-> s.bits + 8 * amount,
      data   |-> SubSeq(s.data, amount + 1, Len(s.data))]

(* Each round takes a character at least, and one that finds none changes   *)
(* nothing: no more rounds than characters are needed.                      *)
Update(context, data) ==
  LET start == [blocks |-> context.blocks, block |-> context.block,
                bits |-> context.bits, data |-> data]
      after[n \in 0..Len(data)] == IF n = 0 THEN start ELSE Round(after[n - 1])
      end == after[Len(data)]
  IN [blocks |-> end.blocks, block |-> end.block, bits |-> end.bits]

Zeros(n) == [i \in 1..n |-> "byte0"]

(* The length, with the highest byte first. *)
LengthBytes(bits) ==
  [i \in 1..LengthSize |-> "byte" \o ToString((bits \div 256^(LengthSize - i)) % 256)]

(* Mutant of Final: a block with just enough room for the length counts as  *)
(* one with room for a byte more.                                           *)
FinalTight(context) ==
  LET room == Block - LengthSize
      used == Len(context.block)
      padding == IF used <= room THEN room - used ELSE room + Block - used
  IN Update(Update(context, SubSeq(<<"byte128">> \o Zeros(Block), 1, padding)),
            LengthBytes(context.bits)).blocks

(* The padding counts as data, but the length is that of the data alone. *)
Final(context) ==
  LET room == Block - LengthSize
      used == Len(context.block)
      padding == IF used < room THEN room - used ELSE room + Block - used
  IN Update(Update(context, SubSeq(<<"byte128">> \o Zeros(Block), 1, padding)),
            LengthBytes(context.bits)).blocks

-----------------------------------------------------------------------------
(* inspect_text, over what is left of the pieces before and this one *)

Normalized(text) == [i \in DOMAIN text |-> IF text[i] \in Unprinted THEN " " ELSE text[i]]

Occurs(p, text) == \E i \in 0..Len(text) - Len(p) : SubSeq(text, i + 1, i + Len(p)) = p

InspectText(text) == {p \in Indicators : Occurs(p, Normalized(text))}

TheEnd(text) == SubSeq(text, Len(text) - Smaller(Keep, Len(text)) + 1, Len(text))

-----------------------------------------------------------------------------

(* The piece that was read last, unless it was too much. *)
Feed ==
  LET piece == SubSeq(buffer', Len(buffer) + 1, Len(buffer'))
  IN IF program \in ShaPrograms /\ result' = "none" /\ piece # <<>>
     THEN /\ sha' = Update(sha, piece)
          /\ IF program \in Scanners
             THEN seen' = seen \cup InspectText(carry \o piece) /\ carry' = TheEnd(carry \o piece)
             ELSE UNCHANGED <<seen, carry>>
     ELSE UNCHANGED hashVars

HashInit ==
  /\ ReadInit
  /\ sha = [blocks |-> <<>>, block |-> <<>>, bits |-> 0]
  /\ carry = <<>> /\ seen = {}

HashNext == ReadNext /\ Feed

HashSpec == HashInit /\ [][HashNext]_<<fileVars, hashVars>>

-----------------------------------------------------------------------------
(* Safety *)

(* FIPS 180-4: the data, a bit, zeros up to a multiple of the block, and    *)
(* the length of the data.                                                  *)
Padded(text) ==
  LET zeros == CHOOSE n \in 0..Block - 1 : (Len(text) + 1 + n + LengthSize) % Block = 0
  IN text \o <<"byte128">> \o Zeros(zeros) \o LengthBytes(8 * Len(text))

InBlocks(text) == [i \in 1..Len(text) \div Block |-> SubSeq(text, (i - 1) * Block + 1, i * Block)]

(* However the reads cut a file in pieces, the digest is of the blocks of   *)
(* the padded file, and each text inspect_text looks for is found, where    *)
(* two pieces meet too, and none that is not there.                         *)
PiecesDoNotMatter ==
  result = "read" /\ program \in ShaPrograms =>
    /\ Final(sha) = InBlocks(Padded(buffer))
    /\ program \in Scanners => seen = InspectText(buffer)
=============================================================================
