----------------------------- MODULE BinlogName -----------------------------
(***************************************************************************)
(* The relay log file name codec of the BinlogReader (src/unnamed/part_000)*)
(* at the level of characters: the suffixed name constructBinlogName       *)
(* builds when the reader switches sub directory or renames a rotate       *)
(* event, and extractPos, which takes such a name apart again.             *)
(*                                                                         *)
(* A name is a sequence of one-character strings.  The binlog base name is *)
(* one character (it is the same in every name of one upstream), numbers   *)
(* are Width decimal digits, zero padded, like the 6 digits of the code.   *)
(* parseBinlogFile, constructBinlogFilename, SuffixIntToStr and            *)
(* GetUUIDBySuffix are not in the source tree; they follow spec.md         *)
(* sections 3 and 6: "<baseName>[|<epochSuffix>].<sequenceNumber>".        *)
(*                                                                         *)
(* The variables are the inputs: the length of the UUID index and two      *)
(* positions <<epoch suffix (0: none), file sequence number>>.             *)
(***************************************************************************)
EXTENDS Naturals, Sequences
LOCAL INSTANCE SequencesExt

CONSTANTS
  Width,      \* digits of a suffix and of a sequence number
  MaxSuffix,  \* bound on the UUID index length and the epoch suffixes
  MaxSeq      \* bound on the file sequence numbers

ASSUME /\ Width \in Nat \ {0}
       /\ MaxSuffix \in 1..10^Width - 1 /\ MaxSeq \in 1..10^Width - 1

VARIABLES n, a, b
vars == <<n, a, b>>

\* A separator that sorts below baseSeqSeparator.
DashSeparator == "-"
posUUIDSuffixSeparator == "|"
baseSeqSeparator == "."
BaseName == <<"b">>

DigitChar == <<"0", "1", "2", "3", "4", "5", "6", "7", "8", "9">>

\* The bytes the characters are encoded as: Go compares strings byte-wise.
Byte(c) ==
  CASE c = "-" -> 45 [] c = "." -> 46 [] c = "b" -> 98 [] c = "|" -> 124
    [] OTHER -> 48 + CHOOSE d \in 0..9 : DigitChar[d + 1] = c

RECURSIVE Decimal(_, _)
\* n in w decimal digits, zero padded (fmt "%0wd" for n < 10^w).
Decimal(k, w) == IF w = 0 THEN <<>> ELSE Decimal(k \div 10, w - 1) \o <<DigitChar[(k % 10) + 1]>>

SuffixIntToStr(k) == Decimal(k, Width)

constructBinlogFilename(base, seq) == base \o <<baseSeqSeparator>> \o seq

\* parseBinlogFile: split at the separator of base name and sequence number.
parseBinlogFile(name) ==
  LET i == SelectLastInSeq(name, LAMBDA c : c = baseSeqSeparator) IN
  [baseName |-> SubSeq(name, 1, i - 1), seq |-> SubSeq(name, i + 1, Len(name))]

\* GetUUIDBySuffix: the index entry (1..k) whose suffix is sfx, 0 if none.
GetUUIDBySuffix(k, sfx) ==
  IF \E u \in 1..k : SuffixIntToStr(u) = sfx
    THEN CHOOSE u \in 1..k : SuffixIntToStr(u) = sfx ELSE 0

constructBinlogName(originalName, uuidSuffix) ==
  originalName.baseName \o <<posUUIDSuffixSeparator>> \o uuidSuffix
    \o <<baseSeqSeparator>> \o originalName.seq

\* The name of a position: the relay file's own name, or, once the reader
\* has moved to sub directory e, the suffixed name parseRelay builds from it.
RealName(s) == constructBinlogFilename(BaseName, Decimal(s, Width))
Name(p) ==
  IF p[1] = 0 THEN RealName(p[2])
  ELSE constructBinlogName(parseBinlogFile(RealName(p[2])), SuffixIntToStr(p[1]))

NotFound == [uuid |-> 0, real |-> <<>>]

\* extractPos, the real base name cut one character late.
extractPosKeepSep(k, name) ==
  LET parsed == parseBinlogFile(name)
      sepIdx == SelectInSeq(parsed.baseName, LAMBDA c : c = posUUIDSuffixSeparator) - 1
  IN IF k = 0 THEN NotFound
     ELSE IF sepIdx > 0 /\ sepIdx + 1 < Len(parsed.baseName)
       THEN LET u == GetUUIDBySuffix(k, SubSeq(parsed.baseName, sepIdx + 2, Len(parsed.baseName)))
            IN IF u > 0
                 THEN [uuid |-> u, real |-> constructBinlogFilename(SubSeq(parsed.baseName, 1, sepIdx + 1), parsed.seq)]
                 ELSE NotFound
       ELSE [uuid |-> k, real |-> name]

\* extractPos: with an index of k entries, the sub directory a name belongs
\* to (0: not found) and the name inside it.  sepIdx is Go's 0-based
\* strings.Index (-1 when absent); a name without a suffix, or with the
\* separator first or last in its base name, belongs to the latest one.
extractPos(k, name) ==
  LET parsed == parseBinlogFile(name)
      sepIdx == SelectInSeq(parsed.baseName, LAMBDA c : c = posUUIDSuffixSeparator) - 1
  IN IF k = 0 THEN NotFound
     ELSE IF sepIdx > 0 /\ sepIdx + 1 < Len(parsed.baseName)
       THEN LET u == GetUUIDBySuffix(k, SubSeq(parsed.baseName, sepIdx + 2, Len(parsed.baseName)))
            IN IF u > 0
                 THEN [uuid |-> u, real |-> constructBinlogFilename(SubSeq(parsed.baseName, 1, sepIdx), parsed.seq)]
                 ELSE NotFound
       ELSE [uuid |-> k, real |-> name]

RECURSIVE StrLess(_, _)
\* Go's s < t on strings: byte-wise, a proper prefix first.
StrLess(s, t) ==
  IF s = <<>> THEN t # <<>>
  ELSE IF t = <<>> THEN FALSE
  ELSE IF Byte(Head(s)) # Byte(Head(t)) THEN Byte(Head(s)) < Byte(Head(t))
  ELSE StrLess(Tail(s), Tail(t))

-----------------------------------------------------------------------------
(* The inputs: every index length and every pair of positions.             *)

Pos == (0..MaxSuffix) \X (1..MaxSeq)

Init == n = 0 /\ a = <<0, 1>> /\ b = <<0, 1>>

\* Another index length.
Reindex == \E k \in 0..MaxSuffix : n' = k /\ UNCHANGED <<a, b>>

\* Another position, compared with the one before it.
Shift == \E p \in Pos : a' = p /\ b' = a /\ UNCHANGED n

Next == Reindex \/ Shift

Spec == Init /\ [][Next]_vars

-----------------------------------------------------------------------------
(* Properties.                                                             *)

\* extractPos undoes the suffix constructBinlogName adds (spec.md section 8):
\* a suffixed name is found in the sub directory of its suffix under its
\* own file name, a name without one in the latest sub directory as it is,
\* and a suffix the index does not list, or an empty index, is not found.
\* This is the abstraction RelayReader makes of names as <<epoch, file>>.
ExtractPosRoundTrip ==
  LET r == extractPos(n, Name(a)) IN
  IF n = 0 \/ a[1] > n THEN r = NotFound
  ELSE r = [uuid |-> IF a[1] = 0 THEN n ELSE a[1], real |-> RealName(a[2])]

\* Positions compare by their names (mysql.Position compares Name as a
\* string): a name with a suffix sorts after every name without one, and
\* suffixed names sort by sub directory, then by file, as the comment on
\* posUUIDSuffixSeparator requires ("with UUIDSuffix's pos should always >
\* without UUIDSuffix's pos").  It rests on "|" sorting after "." and on
\* the zero padding of both numbers.
NameOrderIsPositionOrder ==
  StrLess(Name(a), Name(b)) <=> (a[1] < b[1] \/ (a[1] = b[1] /\ a[2] < b[2]))

=============================================================================
