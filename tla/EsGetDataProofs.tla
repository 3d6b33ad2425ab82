--------------------------- MODULE EsGetDataProofs ----------------------------
(***************************************************************************)
(* SQLGetData, for any rows, buffer lengths and limits: its offset is      *)
(* always one of the value it is applied to, a piece stays in the          *)
(* application's buffer, the lengths it reports add up, a loop of calls    *)
(* for more ends, and the pieces put together are the value (Pieces).      *)
(*                                                                         *)
(* The argument has three parts.  The encoded text of a value grows with   *)
(* every character by 1 to 3 bytes: by induction on the character, taken   *)
(* through the least natural number for which it fails.  So a transfer     *)
(* that no limit cut leaves in the buffer just the characters it counts,   *)
(* and not all bytes of the next (Exact).  And while a value is read the   *)
(* offset, the last answer and what the application has tell of each other *)
(* (Reading): a call that does not resume starts at 0, one that does finds *)
(* the offset that the last call on this value left, since a fetch or a    *)
(* failure resets all of the state.                                        *)
(***************************************************************************)
EXTENDS EsGetData, NaturalsInduction, WellFoundedInduction, TLAPS

-----------------------------------------------------------------------------
(* Induction, by the least natural number for which it would fail, and the *)
(* sums that a recursive function makes up.                                *)

Before == {pair \in Nat \X Nat : pair[1] < pair[2]}

\* A set of natural numbers has a least member.
LEMMA LeastNatural ==
  ASSUME NEW T, T \subseteq Nat, T # {}
  PROVE  \E k \in T : \A j \in T : k <= j
<1>1. IsWellFoundedOn(Before, Nat)
  BY NatLessThanWellFounded DEF OpToRel, Before
<1>2. PICK k \in T : \A j \in T : <<j, k>> \notin Before
  BY <1>1, WFMin
<1>3. \A j \in T : k <= j
  <2> SUFFICES ASSUME NEW j \in T PROVE k <= j
    OBVIOUS
  <2>1. k \in Nat /\ j \in Nat /\ <<j, k>> \notin Before
    BY <1>2
  <2> QED BY <2>1 DEF Before
<1> QED BY <1>3

\* Induction, of membership in a set.
LEMMA InductionOnSet ==
  ASSUME NEW S, 0 \in S, \A n \in Nat : n \in S => n + 1 \in S
  PROVE  Nat \subseteq S
<1> SUFFICES ASSUME Nat \ S # {} PROVE FALSE
  OBVIOUS
<1>1. PICK k \in Nat \ S : \A j \in Nat \ S : k <= j
  BY LeastNatural
<1>2. k - 1 \in Nat /\ k - 1 \in S
  BY <1>1
<1> QED BY <1>1, <1>2

\* The running sums of w exist for every length.
LEMMA SumExists ==
  ASSUME NEW w
  PROVE  \A n \in Nat : \E o : o = [i \in 0..n |-> IF i = 0 THEN 0 ELSE o[i - 1] + w[i]]
<1> DEFINE Sum(n, o) == o = [i \in 0..n |-> IF i = 0 THEN 0 ELSE o[i - 1] + w[i]]
           S == {n \in Nat : \E o : Sum(n, o)}
<1>1. 0 \in S
  <2>1. Sum(0, [i \in 0..0 |-> 0])
    OBVIOUS
  <2> QED BY <2>1
<1>2. ASSUME NEW n \in Nat, n \in S
      PROVE  n + 1 \in S
  <2>1. PICK p : Sum(n, p)
    BY <1>2
  <2> DEFINE o == [i \in 0..(n + 1) |-> IF i = n + 1 THEN p[n] + w[n + 1] ELSE p[i]]
  <2>2. ASSUME NEW i \in 0..(n + 1)
        PROVE  o[i] = IF i = 0 THEN 0 ELSE o[i - 1] + w[i]
    <3>1. CASE i = n + 1
      BY <3>1
    <3>2. CASE i \in 0..n
      BY <2>1, <3>2
    <3> QED BY <3>1, <3>2
  <2>3. Sum(n + 1, o)
    BY <2>2
  <2> HIDE DEF o, Sum
  <2>4. \E q : Sum(n + 1, q)
    BY <2>3
  <2> QED BY <2>4
<1>3. Nat \subseteq S
  BY <1>1, <1>2, InductionOnSet
<1> QED BY <1>3

-----------------------------------------------------------------------------
(* The bytes that the characters of a text take.                           *)

\* Octets is the function that its definition asks for.
LEMMA OctetsIs ==
  ASSUME NEW s, Len(s) \in Nat, NEW t
  PROVE  Octets(s, t) = [i \in 0..(Len(s) + 1) |->
           IF i = 0 THEN 0 ELSE Octets(s, t)[i - 1] + Width(s, t, i)]
<1> DEFINE w == [i \in Nat |-> Width(s, t, i)]
<1> HIDE DEF w
<1>1. \E o : o = [i \in 0..(Len(s) + 1) |->
                    IF i = 0 THEN 0 ELSE o[i - 1] + Width(s, t, i)]
  <2>1. PICK o : o = [i \in 0..(Len(s) + 1) |-> IF i = 0 THEN 0 ELSE o[i - 1] + w[i]]
    <3>1. Len(s) + 1 \in Nat
      OBVIOUS
    <3> QED BY <3>1, SumExists, Zenon
  <2>2. \A i \in 0..(Len(s) + 1) : w[i] = Width(s, t, i)
    BY DEF w
  <2> QED BY <2>1, <2>2
<1>2. Octets(s, t) = CHOOSE o : o = [i \in 0..(Len(s) + 1) |->
                       IF i = 0 THEN 0 ELSE o[i - 1] + Width(s, t, i)]
  BY Zenon DEF Octets
<1> QED BY <1>1, <1>2, Zenon

\* A character takes one byte at least.
LEMMA WidthRange ==
  ASSUME NEW s \in Seq(1..3), NEW t, NEW i \in 1..(Len(s) + 1)
  PROVE  Width(s, t, i) \in 1..3
<1>1. i <= Len(s) => s[i] \in 1..3
  OBVIOUS
<1> QED BY <1>1 DEF Width, CharSize

\* The terminator is one character, of one unit.
LEMMA OctetsStep ==
  ASSUME NEW s \in Seq(1..3), NEW t
  PROVE  /\ Octets(s, t)[0] = 0
         /\ \A i \in 1..(Len(s) + 1) : Octets(s, t)[i] = Octets(s, t)[i - 1] + Width(s, t, i)
         /\ Width(s, t, Len(s) + 1) = CharSize(t)
<1> DEFINE o == Octets(s, t)
<1>1. Len(s) \in Nat
  OBVIOUS
<1>2. o = [i \in 0..(Len(s) + 1) |-> IF i = 0 THEN 0 ELSE o[i - 1] + Width(s, t, i)]
  BY <1>1, OctetsIs
<1> HIDE DEF o
<1>3. o[0] = 0 /\ \A i \in 1..(Len(s) + 1) : o[i] = o[i - 1] + Width(s, t, i)
  BY <1>1, <1>2
<1>4. Width(s, t, Len(s) + 1) = CharSize(t)
  BY <1>1 DEF Width
<1> QED BY <1>3, <1>4 DEF o

\* More characters take more bytes, by one each at least.
LEMMA OctetsGrow ==
  ASSUME NEW s \in Seq(1..3), NEW t
  PROVE  /\ \A j \in 0..(Len(s) + 1) : Octets(s, t)[j] \in Nat
         /\ \A i, j \in 0..(Len(s) + 1) :
              i <= j => Octets(s, t)[i] + (j - i) <= Octets(s, t)[j]
<1> DEFINE o == Octets(s, t)
           S == {j \in Nat : j <= Len(s) + 1 =>
                   /\ o[j] \in Nat
                   /\ \A i \in 0..j : o[i] \in Nat /\ o[i] + (j - i) <= o[j]}
<1>0. Len(s) \in Nat
  OBVIOUS
<1>1. o[0] = 0 /\ \A i \in 1..(Len(s) + 1) : o[i] = o[i - 1] + Width(s, t, i)
  BY OctetsStep
<1> HIDE DEF o
<1>2. 0 \in S
  BY <1>1
<1>3. ASSUME NEW j \in Nat, j \in S
      PROVE  j + 1 \in S
  <2> SUFFICES ASSUME j + 1 <= Len(s) + 1
               PROVE  /\ o[j + 1] \in Nat
                      /\ \A i \in 0..(j + 1) : o[i] \in Nat /\ o[i] + (j + 1 - i) <= o[j + 1]
    OBVIOUS
  <2>1. /\ o[j] \in Nat
        /\ \A i \in 0..j : o[i] \in Nat /\ o[i] + (j - i) <= o[j]
    BY <1>0, <1>3
  <2>2. Width(s, t, j + 1) \in 1..3
    BY <1>0, WidthRange
  <2>3. o[j + 1] = o[j] + Width(s, t, j + 1)
    BY <1>0, <1>1
  <2>4. o[j + 1] \in Nat /\ o[j] + 1 <= o[j + 1]
    BY <2>1, <2>2, <2>3
  <2>5. ASSUME NEW i \in 0..(j + 1)
        PROVE  o[i] \in Nat /\ o[i] + (j + 1 - i) <= o[j + 1]
    BY <2>1, <2>4
  <2> QED BY <2>4, <2>5
<1>4. Nat \subseteq S
  BY <1>2, <1>3, InductionOnSet
<1>5. \A j \in 0..(Len(s) + 1) : o[j] \in Nat /\ \A i \in 0..j : o[i] + (j - i) <= o[j]
  BY <1>0, <1>4
<1> QED BY <1>0, <1>5 DEF o

\* Where every character takes one unit, so do the characters that were counted.
LEMMA OctetsUniform ==
  ASSUME NEW s \in Seq(1..3), NEW t, \A i \in 1..Len(s) : Width(s, t, i) = CharSize(t)
  PROVE  \A i \in 0..(Len(s) + 1) : Octets(s, t)[i] = i * CharSize(t)
<1> DEFINE o == Octets(s, t)
           S == {j \in Nat : j <= Len(s) + 1 => o[j] = j * CharSize(t)}
<1>0. Len(s) \in Nat /\ CharSize(t) \in {1, 2}
  BY DEF CharSize
<1>1. o[0] = 0 /\ \A i \in 1..(Len(s) + 1) : o[i] = o[i - 1] + Width(s, t, i)
  BY OctetsStep
<1>2. \A i \in 1..(Len(s) + 1) : Width(s, t, i) = CharSize(t)
  BY <1>0, OctetsStep
<1> HIDE DEF o
<1>3. 0 \in S
  BY <1>0, <1>1
<1>4. ASSUME NEW j \in Nat, j \in S
      PROVE  j + 1 \in S
  <2> SUFFICES ASSUME j + 1 <= Len(s) + 1
               PROVE  o[j + 1] = (j + 1) * CharSize(t)
    OBVIOUS
  <2>1. o[j + 1] = o[j] + CharSize(t) /\ o[j] = j * CharSize(t)
    BY <1>0, <1>1, <1>2, <1>4
  <2> QED BY <1>0, <2>1
<1>5. Nat \subseteq S
  BY <1>3, <1>4, InductionOnSet
<1> QED BY <1>0, <1>5 DEF o

-----------------------------------------------------------------------------
(* Texts, and what the transfers do to a buffer.                           *)

\* A row's columns have values.
LEMMA ValueOfRow ==
  ASSUME NEW r \in Rows, NEW c \in 1..Len(r)
  PROVE  r[c] \in Value
  BY RowsAssumption

\* A limit on characters leaves the first of them.
LEMMA ShownText ==
  ASSUME NEW v \in Value
  PROVE  /\ Shown(v) \in Seq(1..3) /\ Len(Shown(v)) \in Nat
         /\ Len(Shown(v)) <= Len(v.text)
         /\ \A i \in 1..Len(Shown(v)) : Shown(v)[i] = v.text[i]
<1>1. v.text \in Seq(1..3) /\ Len(v.text) \in Nat
  BY DEF Value
<1> DEFINE limited(n) == IF VarcharLimit > 0 THEN Least(VarcharLimit, n) ELSE n
           kept == IF v.kind = "TEXT" THEN limited(Len(v.text))
                   ELSE IF v.kind = "TIMESTAMP" THEN limited(Len(v.text) + 1) - 1
                   ELSE Len(v.text)
<1>2. Shown(v) = SubSeq(v.text, 1, kept)
  BY DEF Shown
<1>3. kept \in 0..Len(v.text)
  <2>1. limited(Len(v.text)) \in 0..Len(v.text)
    BY <1>1, LengthsAssumption DEF Least
  <2>2. limited(Len(v.text) + 1) \in 1..(Len(v.text) + 1)
    BY <1>1, LengthsAssumption DEF Least
  <2> HIDE DEF limited
  <2> QED BY <1>1, <2>1, <2>2
<1> HIDE DEF kept
<1>4. /\ Len(SubSeq(v.text, 1, kept)) = kept
      /\ \A i \in 1..kept : SubSeq(v.text, 1, kept)[i] = v.text[i]
  BY <1>1, <1>3
<1>5. SubSeq(v.text, 1, kept) \in Seq(1..3)
  BY <1>1, <1>3, <1>4
<1> QED BY <1>1, <1>2, <1>3, <1>4, <1>5

\* SQL_ATTR_MAX_LENGTH, or no limit.
LEMMA MaxLengthType == ASSUME attr.max_length \in Nat, NEW v PROVE MaxLength(v) \in Nat
  BY DEF MaxLength

\* The bytes to copy are whole units that fit into the buffer; without a limit,
\* they are all there are unless the buffer is too small, which is told.
SizeFits(b, avail, unit, room, max) ==
  /\ b.cut \in BOOLEAN /\ b.size \in 0..room /\ b.size <= avail
  /\ b.size % unit = 0
  /\ max = 0 => IF b.cut THEN b.size < avail ELSE b.size = avail

\* buff_octet_size() does not go beyond the buffer or the text.
LEMMA BuffOctetSizes ==
  ASSUME NEW unit \in {1, 2}, NEW avail \in Nat \ {0}, avail % unit = 0,
         NEW room \in Nat, NEW max \in Nat
  PROVE  SizeFits(BuffOctetSize(avail, unit, room, max), avail, unit, room, max)
<1> DEFINE max_copy == IF max \in 1..(avail - 1) THEN max ELSE avail
           size == Least(max_copy, room)
           b == BuffOctetSize(avail, unit, room, max)
<1>1. max_copy \in Nat /\ max_copy <= avail /\ (max = 0 => max_copy = avail)
  OBVIOUS
<1>2. b.size = size - (size % unit) /\ b.cut = (room < max_copy)
  BY DEF BuffOctetSize
<1>3. /\ size \in Nat /\ size <= room /\ size <= max_copy
      /\ max = 0 /\ ~(room < max_copy) => size = avail
      /\ max = 0 /\ room < max_copy => size < avail
  BY <1>1 DEF Least
<1> HIDE DEF max_copy, size, b
<1>4. size % unit \in Nat /\ size % unit <= size /\ (size - (size % unit)) % unit = 0
  <2>1. CASE unit = 1
    BY <1>3, <2>1
  <2>2. CASE unit = 2
    BY <1>3, <2>2
  <2> QED BY <2>1, <2>2
<1>5. b.size \in Nat /\ b.size <= size /\ b.size % unit = 0
  BY <1>2, <1>3, <1>4
<1>6. b.cut \in BOOLEAN
  BY <1>2
<1>7. ASSUME max = 0, b.cut
      PROVE  b.size < avail
  <2>1. size < avail
    BY <1>2, <1>3, <1>7
  <2> QED BY <1>3, <1>5, <2>1
<1>8. ASSUME max = 0, ~b.cut
      PROVE  b.size = avail
  <2>1. size = avail
    BY <1>2, <1>3, <1>8
  <2> QED BY <1>2, <2>1
<1>9. b.size \in 0..room /\ b.size <= avail
  BY <1>1, <1>3, <1>5
<1> QED BY <1>5, <1>6, <1>7, <1>8, <1>9 DEF b, SizeFits

\* What a transfer tells of itself; it goes by the byte in front of the buffer only
\* where the buffer or the limit has no room for the widest character.
Sound(v, room, r) ==
  /\ r.xfed \in Nat /\ r.bytes \in Nat /\ r.written \in 0..room
  /\ r.term \in BOOLEAN /\ r.cut \in BOOLEAN /\ r.astray \in BOOLEAN
  /\ r.before \in BOOLEAN
  /\ r.before => room \in 1..2 \/ MaxLength(v) \in 1..2

\* The bytes after off complete the character k, and no further one.
Completes(v, t, off, bytes, k) ==
  LET o == Octets(Shown(v), t)
  IN  o[k] <= o[off] + bytes /\ \A i \in (k + 1)..Len(Shown(v)) : o[off] + bytes < o[i]

\* A transfer that no limit cut: the buffer ends with the terminator, what was
\* counted is all that was left or less, as the answer tells, and the buffer has
\* the characters counted and not all bytes of the next one.
Exact(v, t, off, r) ==
  LET left == Len(Shown(v)) - off
  IN  /\ r.written > 0 => r.term
      /\ IF r.cut THEN r.xfed < left \/ (r.xfed = 0 /\ r.written = 0)
                  ELSE r.xfed = left /\ r.written > 0
      /\ Completes(v, t, off, r.bytes, off + r.xfed)

\* A call without room copies nothing, and says that there is more.
LEMMA NothingIsExact ==
  ASSUME NEW v \in Value, NEW t, NEW off \in 0..Len(Shown(v)), NEW room \in Nat
  PROVE  Sound(v, room, NothingCopied(TRUE)) /\ Exact(v, t, off, NothingCopied(TRUE))
<1>1. Len(Shown(v)) \in Nat /\ Shown(v) \in Seq(1..3)
  BY ShownText
<1>2. /\ Octets(Shown(v), t)[off] \in Nat
      /\ \A i \in (off + 1)..Len(Shown(v)) :
           Octets(Shown(v), t)[off] + (i - off) <= Octets(Shown(v), t)[i]
           /\ Octets(Shown(v), t)[i] \in Nat
  BY <1>1, OctetsGrow
<1> QED BY <1>1, <1>2 DEF Sound, Exact, Completes, NothingCopied, Copied

\* transfer_xstr0(), for a text each character of which takes one unit.
LEMMA XstrExact ==
  ASSUME NEW v \in Value, NEW t \in {"CHAR", "WCHAR"}, NEW off \in 0..Len(Shown(v)),
         NEW room \in Nat, attr.max_length \in Nat,
         t = "CHAR" => v.kind = "INTEGER", v.kind # "TEXT" => \A i \in 1..Len(v.text) : v.text[i] = 1,
         NEW r \in TransferXstr0(v, t, off, room)
  PROVE  Sound(v, room, r) /\ (MaxLength(v) = 0 => Exact(v, t, off, r))
<1> DEFINE len == Len(Shown(v))
           o == Octets(Shown(v), t)
           cnt == Len(Shown(v)) - off
           sz == CharSize(t)
           max == MaxLength(v)
           avail == (cnt + 1) * sz
           b == BuffOctetSize(avail, sz, room, max)
           chars == b.size \div sz - 1
           term == b.cut \/ chars = cnt
<1>1. sz \in {1, 2} /\ len \in Nat /\ cnt \in Nat /\ off + cnt = len /\ max \in Nat
  BY ShownText, MaxLengthType DEF CharSize
<1>2. \A i \in 0..(len + 1) : o[i] = i * sz
  <2>1. \A i \in 1..len : Width(Shown(v), t, i) = CharSize(t)
    <3>1. CASE t = "WCHAR"
      BY <3>1 DEF Width, CharSize
    <3>2. CASE t = "CHAR"
      <4>1. \A i \in 1..len : i \in 1..Len(v.text) /\ Shown(v)[i] = v.text[i]
        <5>1. Len(v.text) \in Nat
          BY DEF Value
        <5> QED BY <5>1, ShownText
      <4>2. \A i \in 1..len : Shown(v)[i] = 1
        BY <3>2, <4>1
      <4> QED BY <3>2, <4>2 DEF Width, CharSize
    <3> QED BY <3>1, <3>2
  <2> QED BY <2>1, ShownText, OctetsUniform
<1>3. r \in IF b.size = 0 THEN {NothingCopied(b.cut)}
            ELSE {Copied(chars, IF term THEN chars * sz ELSE b.size, b.size, term, b.cut)}
  BY DEF TransferXstr0
<1> HIDE DEF sz, o, max
<1>4. /\ b.cut \in BOOLEAN /\ b.size \in 0..room /\ b.size <= avail
      /\ b.size % sz = 0
      /\ max = 0 => IF b.cut THEN b.size < avail ELSE b.size = avail
  <2>1. avail \in Nat \ {0} /\ avail % sz = 0
    <3>1. CASE sz = 1
      BY <1>1, <3>1
    <3>2. CASE sz = 2
      BY <1>1, <3>2
    <3> QED BY <1>1, <3>1, <3>2
  <2> HIDE DEF avail
  <2>2. SizeFits(b, avail, sz, room, max)
    BY <1>1, <2>1, BuffOctetSizes
  <2> QED BY <2>2 DEF SizeFits
<1> HIDE DEF b, cnt, len
<1>5. PICK n \in 0..(cnt + 1) : b.size = n * sz
  <2>1. CASE sz = 1
    BY <1>1, <1>4, <2>1
  <2>2. CASE sz = 2
    <3>1. b.size \div 2 \in 0..(cnt + 1) /\ b.size = (b.size \div 2) * 2
      BY <1>1, <1>4, <2>2
    <3> QED BY <2>2, <3>1
  <2> QED BY <1>1, <2>1, <2>2
<1>6. CASE b.size = 0
  <2>1. r = NothingCopied(b.cut)
    BY <1>3, <1>6
  <2>2. max = 0 => b.cut = TRUE
    BY <1>1, <1>4, <1>6
  <2>3. Sound(v, room, r)
    BY <1>4, <2>1 DEF Sound, NothingCopied, Copied
  <2> QED BY <2>1, <2>2, <2>3, NothingIsExact DEF max
<1>7. CASE b.size # 0
  <2>1. r = Copied(chars, IF term THEN chars * sz ELSE b.size, b.size, term, b.cut)
    BY <1>3, <1>7
  <2>2. n \in 1..(cnt + 1) /\ chars = n - 1
    <3>1. n # 0
      BY <1>1, <1>5, <1>7
    <3>2. CASE sz = 1
      BY <1>1, <1>5, <3>1, <3>2
    <3>3. CASE sz = 2
      BY <1>1, <1>5, <3>1, <3>3
    <3> QED BY <1>1, <3>2, <3>3
  <2> HIDE DEF chars
  <2>3. /\ r.xfed = chars /\ r.written = b.size /\ r.term = term /\ r.cut = b.cut
        /\ r.astray = FALSE /\ r.before = FALSE
        /\ r.bytes = IF term THEN chars * sz ELSE b.size
    BY <2>1 DEF Copied
  <2>4. chars \in Nat /\ chars <= cnt /\ chars * sz \in Nat
    BY <1>1, <2>2
  <2>5. Sound(v, room, r)
    <3>1. /\ r.term \in BOOLEAN /\ r.cut \in BOOLEAN /\ r.astray \in BOOLEAN
          /\ r.before \in BOOLEAN /\ ~r.before
      BY <1>4, <2>3, Zenon
    <3>2. r.xfed \in Nat /\ r.bytes \in Nat /\ r.written \in 0..room
      BY <1>4, <2>3, <2>4
    <3> QED BY <3>1, <3>2 DEF Sound
  <2>6. ASSUME max = 0
        PROVE  Exact(v, t, off, r)
    <3>1. IF b.cut THEN chars < cnt ELSE chars = cnt
      <4>1. IF b.cut THEN n * sz < (cnt + 1) * sz ELSE n * sz = (cnt + 1) * sz
        BY <1>4, <1>5, <2>6
      <4>2. CASE sz = 1
        BY <1>1, <1>4, <2>2, <4>1, <4>2
      <4>3. CASE sz = 2
        BY <1>1, <1>4, <2>2, <4>1, <4>3
      <4> QED BY <1>1, <4>2, <4>3
    <3>2. term /\ r.bytes = chars * sz
      BY <2>3, <3>1, <1>4
    <3>3. o[off] + r.bytes = (off + chars) * sz /\ o[off + chars] = (off + chars) * sz
      <4>1. off \in 0..(len + 1) /\ off + chars \in 0..(len + 1)
        BY <1>1, <2>4 DEF len
      <4>2. o[off] = off * sz /\ o[off + chars] = (off + chars) * sz
        BY <1>2, <4>1
      <4>3. off * sz + chars * sz = (off + chars) * sz
        BY <1>1, <2>4
      <4> QED BY <3>2, <4>2, <4>3
    <3>4. \A i \in (off + chars + 1)..len : (off + chars) * sz < o[i]
      <4> SUFFICES ASSUME NEW i \in (off + chars + 1)..len
                   PROVE  (off + chars) * sz < o[i]
        OBVIOUS
      <4>1. i \in 0..(len + 1) /\ i > off + chars
        BY <1>1, <2>4 DEF len
      <4>2. o[i] = i * sz
        BY <1>2, <4>1
      <4> QED BY <1>1, <2>4, <4>1, <4>2
    <3>5. r.written > 0
      BY <1>4, <1>7, <2>3
    <3>6. (off + chars) * sz \in Int
      BY <1>1, <2>4
    <3>7. IF r.cut THEN r.xfed < cnt ELSE r.xfed = cnt
      BY <2>3, <3>1
    <3>8. /\ o[off + r.xfed] <= o[off] + r.bytes
          /\ \A i \in (off + r.xfed + 1)..len : o[off] + r.bytes < o[i]
      BY <2>3, <3>3, <3>4, <3>6
    <3>9. r.term
      BY <2>3, <3>2
    <3> QED BY <3>5, <3>7, <3>8, <3>9, Zenon DEF Exact, Completes, o, cnt, len
  <2> QED BY <2>5, <2>6 DEF max
<1> QED BY <1>6, <1>7

\* wstr_to_cstr(): the terminator takes the place of a last byte, and so of the
\* character it belongs to.
LEMMA WstrExact ==
  ASSUME NEW v \in Value, NEW off \in 0..Len(Shown(v)), NEW room \in Nat,
         attr.max_length \in Nat, NEW r \in WstrToCstr(v, off, room)
  PROVE  Sound(v, room, r) /\ (MaxLength(v) = 0 /\ ~r.astray => Exact(v, "CHAR", off, r))
<1> DEFINE len == Len(Shown(v))
           o == Octets(Shown(v), "CHAR")
           cnt == Len(Shown(v)) - off
           max == MaxLength(v)
           avail == o[off + cnt + 1] - o[off]
           b == BuffOctetSize(avail, 1, room, max)
           fit == {c \in 1..(cnt + 1) : o[off + c] - o[off] <= b.size}
           bytes(c) == o[off + c] - o[off]
           all(c) == Copied(cnt, bytes(c) - 1, bytes(c), TRUE, b.cut)
           some(c) == Copied(c - 1, bytes(c) - 1, bytes(c), TRUE, TRUE)
<1>1. /\ len \in Nat /\ cnt \in Nat /\ off \in Nat /\ off + cnt = len /\ max \in Nat
      /\ Shown(v) \in Seq(1..3)
  BY ShownText, MaxLengthType
<1>2. /\ \A j \in 0..(len + 1) : o[j] \in Nat
      /\ \A i, j \in 0..(len + 1) : i <= j => o[i] + (j - i) <= o[j]
  BY <1>1, OctetsGrow
<1>3. o[len + 1] = o[len] + 1
  <2>1. /\ \A i \in 1..(Len(Shown(v)) + 1) : o[i] = o[i - 1] + Width(Shown(v), "CHAR", i)
        /\ Width(Shown(v), "CHAR", Len(Shown(v)) + 1) = CharSize("CHAR")
    BY <1>1, OctetsStep
  <2>2. CharSize("CHAR") = 1
    BY DEF CharSize
  <2>3. len + 1 \in 1..(len + 1) /\ len + 1 - 1 = len
    BY <1>1
  <2> QED BY <2>1, <2>2, <2>3
<1>4. r \in IF b.size = 0 THEN {NothingCopied(b.cut)}
            ELSE IF fit = {} THEN {Astray(0, b.cut, FALSE), Astray(cnt, TRUE, TRUE)}
            ELSE {IF c = cnt + 1 THEN all(c) ELSE some(c)
                    : c \in {n \in fit : \A m \in fit : m <= n}}
  BY DEF WstrToCstr
<1> HIDE DEF o, max
<1>5. /\ avail \in Nat \ {0} /\ avail = (o[len] + 1) - o[off]
      /\ \A c \in 1..(cnt + 1) : bytes(c) \in Nat \ {0} /\ off + c \in 0..(len + 1)
  <2>1. off + cnt + 1 = len + 1 /\ off \in 0..(len + 1) /\ len + 1 \in 0..(len + 1)
    BY <1>1
  <2>2. ASSUME NEW c \in 1..(cnt + 1)
        PROVE  off + c \in 0..(len + 1) /\ bytes(c) \in Nat \ {0}
    <3>1. off + c \in 0..(len + 1) /\ off <= off + c
      BY <1>1, <2>1
    <3>2. o[off] \in Nat /\ o[off + c] \in Nat /\ o[off] + (off + c - off) <= o[off + c]
      BY <1>2, <2>1, <3>1
    <3> QED BY <1>1, <3>1, <3>2
  <2>3. cnt + 1 \in 1..(cnt + 1) /\ off + (cnt + 1) = off + cnt + 1
    BY <1>1
  <2>4. avail = bytes(cnt + 1)
    BY <2>3
  <2> HIDE DEF bytes
  <2>5. avail \in Nat \ {0}
    BY <2>2, <2>3, <2>4
  <2> HIDE DEF cnt, len
  <2>6. avail = (o[len] + 1) - o[off]
    BY <1>3, <2>1, Zenon DEF avail
  <2> QED BY <2>2, <2>5, <2>6
<1> HIDE DEF avail, bytes, len
<1>6. SizeFits(b, avail, 1, room, max)
  <2>1. avail % 1 = 0
    BY <1>5
  <2> QED BY <1>1, <1>5, <2>1, BuffOctetSizes
<1>7. /\ b.cut \in BOOLEAN /\ b.size \in 0..room /\ b.size <= avail
      /\ max = 0 => IF b.cut THEN b.size < avail ELSE b.size = avail
  BY <1>6 DEF SizeFits
<1> HIDE DEF b, cnt
<1>8. CASE b.size = 0
  <2>1. r = NothingCopied(b.cut)
    BY <1>4, <1>8
  <2>2. max = 0 => b.cut = TRUE
    BY <1>5, <1>7, <1>8
  <2>3. Sound(v, room, r)
    BY <1>7, <2>1 DEF Sound, NothingCopied, Copied
  <2> QED BY <2>1, <2>2, <2>3, NothingIsExact DEF max
<1>9. CASE b.size # 0 /\ fit = {}
  <2>1. r = Astray(0, b.cut, FALSE) \/ r = Astray(cnt, TRUE, TRUE)
    BY <1>4, <1>9
  <2>2. room \in 1..2 \/ max \in 1..2
    <3>1. 1 \in 1..(cnt + 1) /\ ~(o[off + 1] - o[off] <= b.size)
      <4>1. 1 \in 1..(cnt + 1)
        BY <1>1
      <4>2. 1 \notin fit
        BY <1>9
      <4> QED BY <4>1, <4>2
    <3>2. b.size < bytes(1) /\ bytes(1) \in Nat /\ off + 1 \in 1..(len + 1)
      BY <1>1, <1>5, <1>7, <3>1 DEF bytes
    <3>3. bytes(1) \in 1..3
      <4>1. Width(Shown(v), "CHAR", off + 1) \in 1..3
        BY <1>1, <3>2, WidthRange DEF len
      <4>2. o[off + 1] = o[off + 1 - 1] + Width(Shown(v), "CHAR", off + 1)
        BY <1>1, <3>2, OctetsStep DEF len, o
      <4>3. off + 1 - 1 = off /\ off \in 0..(len + 1)
        BY <1>1, <3>2
      <4>4. o[off] \in Nat
        BY <1>2, <4>3
      <4> QED BY <4>1, <4>2, <4>3, <4>4 DEF bytes
    <3>4. b.size \in 1..2
      BY <1>7, <1>9, <3>2, <3>3
    <3>5. bytes(1) <= avail
      <4>1. off + cnt + 1 = len + 1 /\ off + 1 \in 0..(len + 1) /\ len + 1 \in 0..(len + 1)
            /\ off + 1 <= len + 1 /\ off \in 0..(len + 1)
        BY <1>1, <3>2
      <4>2. /\ o[off + 1] + ((len + 1) - (off + 1)) <= o[len + 1]
            /\ o[off + 1] \in Nat /\ o[len + 1] \in Nat /\ o[off] \in Nat
        BY <1>2, <4>1
      <4>3. o[off + 1] <= o[len + 1]
        BY <4>1, <4>2
      <4> QED BY <4>1, <4>2, <4>3 DEF bytes, avail
    <3>6. b.size < avail
      BY <1>5, <3>2, <3>4, <3>5
    <3>7. b.size = room \/ b.size = max
      <4>1. b.size = Least(IF max \in 1..(avail - 1) THEN max ELSE avail, room)
        BY <1>1, <1>5 DEF b, BuffOctetSize, Least
      <4> QED BY <1>1, <1>5, <3>6, <4>1 DEF Least
    <3> QED BY <3>4, <3>7
  <2>3. Sound(v, room, r) /\ r.astray
    <3>1. \A n \in Nat, c \in BOOLEAN, w \in BOOLEAN :
            Sound(v, room, Astray(n, c, w)) /\ Astray(n, c, w).astray
      BY <2>2 DEF Sound, Astray, max
    <3> QED BY <1>1, <1>7, <2>1, <3>1
  <2> QED BY <2>3
<1>10. CASE b.size # 0 /\ fit # {}
  <2>1. PICK c \in {n \in fit : \A m \in fit : m <= n} :
          r = IF c = cnt + 1 THEN all(c) ELSE some(c)
    <3> HIDE DEF all, some, fit
    <3> QED BY <1>4, <1>10
  <2>2. /\ c \in 1..(cnt + 1) /\ o[off + c] - o[off] <= b.size
        /\ \A m \in 1..(cnt + 1) : o[off + m] - o[off] <= b.size => m <= c
    BY <2>1
  <2> HIDE DEF fit
  <2>3. bytes(c) \in Nat \ {0} /\ bytes(c) <= b.size /\ off + c \in 0..(len + 1)
    BY <1>5, <2>2 DEF bytes
  <2>4. /\ r.bytes = bytes(c) - 1 /\ r.written = bytes(c) /\ r.term = TRUE /\ r.astray = FALSE
        /\ r.before = FALSE
        /\ IF c = cnt + 1 THEN r.xfed = cnt /\ r.cut = b.cut
                          ELSE r.xfed = c - 1 /\ r.cut = TRUE
    BY <2>1 DEF Copied
  <2> HIDE DEF all, some
  <2>5. r.xfed = c - 1 /\ r.xfed \in Nat /\ r.xfed <= cnt
    <3>1. IF c = cnt + 1 THEN r.xfed = cnt ELSE r.xfed = c - 1
      BY <2>4
    <3> QED BY <1>1, <2>2, <3>1
  <2>6. Sound(v, room, r)
    <3>1. r.term \in BOOLEAN /\ r.astray \in BOOLEAN /\ r.before \in BOOLEAN /\ ~r.before
      BY <2>4
    <3>2. r.cut \in BOOLEAN
      BY <1>7, <2>4
    <3>3. r.xfed \in Nat /\ r.bytes \in Nat /\ r.written \in 0..room
      BY <1>7, <2>3, <2>4, <2>5
    <3> QED BY <3>1, <3>2, <3>3 DEF Sound
  <2>7. ASSUME max = 0
        PROVE  Exact(v, "CHAR", off, r)
    <3>1. IF r.cut THEN r.xfed < cnt ELSE r.xfed = cnt
      <4>1. CASE c = cnt + 1
        <5>1. bytes(c) = avail
          BY <1>1, <4>1 DEF bytes, avail
        <5>2. ~b.cut
          BY <1>5, <1>7, <2>3, <2>7, <5>1
        <5> QED BY <2>4, <4>1, <5>2
      <4>2. CASE c # cnt + 1
        BY <1>1, <2>2, <2>4, <4>2
      <4> QED BY <4>1, <4>2
    <3>2. off \in 0..(len + 1) /\ off + c - 1 \in 0..(len + 1) /\ off + r.xfed = off + c - 1
      BY <1>1, <2>3, <2>2, <2>5
    <3>3. /\ o[off] \in Nat /\ o[off + c] \in Nat /\ o[off + c - 1] \in Nat
          /\ o[off + c - 1] + 1 <= o[off + c]
      <4> DEFINE j == off + c
                 k == off + c - 1
      <4>1. k <= j /\ j - k = 1 /\ j \in 0..(len + 1) /\ k \in 0..(len + 1)
        BY <1>1, <2>2, <2>3, <3>2
      <4> HIDE DEF j, k
      <4>2. o[k] + 1 <= o[j] /\ o[j] \in Nat /\ o[k] \in Nat
        BY <1>2, <4>1
      <4> QED BY <1>2, <3>2, <4>2 DEF j, k
    <3>4. o[off] + r.bytes = o[off + c] - 1
      BY <2>4, <3>3 DEF bytes
    <3>5. o[off + r.xfed] <= o[off] + r.bytes
      BY <3>2, <3>3, <3>4
    <3>6. \A i \in (off + r.xfed + 1)..len : o[off] + r.bytes < o[i]
      <4> SUFFICES ASSUME NEW i \in (off + r.xfed + 1)..len
                   PROVE  o[off + c] - 1 < o[i]
        BY <3>4
      <4>1. i \in 0..(len + 1) /\ off + c <= i
        BY <1>1, <2>2, <2>5
      <4>2. o[i] \in Nat /\ o[off + c] + (i - (off + c)) <= o[i]
        BY <1>2, <2>3, <4>1
      <4>3. i - (off + c) \in Nat
        BY <1>1, <2>2, <4>1
      <4> QED BY <3>3, <4>2, <4>3
    <3>7. r.written > 0 /\ r.term
      BY <2>3, <2>4
    <3> QED BY <3>1, <3>5, <3>6, <3>7, Zenon DEF Exact, Completes, o, cnt, len
  <2> QED BY <2>6, <2>7 DEF max
<1> QED BY <1>8, <1>9, <1>10

\* The transfers of the values that are read in pieces.
LEMMA TransfersExact ==
  ASSUME NEW rw \in Rows, NEW c \in 1..Len(rw), NEW t \in CTypes, IsPieced(rw[c], t),
         NEW off \in 0..Len(Shown(rw[c])), NEW room \in Nat, attr.max_length \in Nat,
         NEW r \in Transfers(rw[c], t, off, room)
  PROVE  /\ Sound(rw[c], room, r)
         /\ MaxLength(rw[c]) = 0 /\ ~r.astray => Exact(rw[c], t, off, r)
<1>1. rw[c] \in Value /\ t \in {"CHAR", "WCHAR"}
  BY ValueOfRow DEF IsPieced, CTypes
<1>2. rw[c].kind # "TEXT" => \A i \in 1..Len(rw[c].text) : rw[c].text[i] = 1
  BY RowsAssumption
<1>3. CASE t = "CHAR" /\ rw[c].kind # "INTEGER"
  BY <1>1, <1>3, WstrExact DEF Transfers
<1>4. CASE ~(t = "CHAR" /\ rw[c].kind # "INTEGER")
  <2>1. r \in TransferXstr0(rw[c], t, off, room)
    BY <1>4 DEF Transfers
  <2>2. t = "CHAR" => rw[c].kind = "INTEGER"
    BY <1>4
  <2> QED BY <1>1, <1>2, <2>1, <2>2, XstrExact
<1> QED BY <1>3, <1>4

-----------------------------------------------------------------------------
(* What a piece does to the offset, and to what the application has.       *)

\* The characters that a number of bytes completes are found.
LEMMA PutTogetherType ==
  ASSUME NEW v \in Value, NEW t, NEW off \in 0..Len(Shown(v)), NEW bytes \in Nat,
         NEW from \in {Garbled} \cup Nat
  PROVE  PutTogether(v, t, from, off, bytes) \in {Garbled} \cup Nat
<1> DEFINE len == Len(Shown(v))
           o == Octets(Shown(v), t)
           whole == {i \in off..len : o[i] <= o[off] + bytes}
           behind == {len - i : i \in whole}
<1>1. len \in Nat /\ off \in Nat /\ Shown(v) \in Seq(1..3)
  BY ShownText
<1>2. o[off] \in Nat
  BY <1>1, OctetsGrow
<1> HIDE DEF o
<1>3. off \in whole
  BY <1>1, <1>2
<1>4. behind \subseteq Nat /\ behind # {}
  BY <1>1, <1>3
<1>5. PICK k \in behind : \A j \in behind : k <= j
  <2> HIDE DEF behind
  <2> QED BY <1>4, LeastNatural
<1>6. \E i \in whole : \A j \in whole : j <= i
  <2>1. PICK i \in whole : k = len - i
    BY <1>5
  <2>2. ASSUME NEW j \in whole PROVE j <= i
    <3>1. k <= len - j
      BY <1>5, <2>2
    <3> QED BY <1>1, <2>1, <2>2, <3>1
  <2> QED BY <2>1, <2>2
<1>7. (CHOOSE i \in whole : \A j \in whole : j <= i) \in Nat
  <2>1. (CHOOSE i \in whole : \A j \in whole : j <= i) \in whole
    <3> HIDE DEF whole
    <3> QED BY <1>6
  <2>2. whole \subseteq Nat
    BY <1>1
  <2> QED BY <2>1, <2>2
<1> QED BY <1>7 DEF PutTogether, Garbled, o

\* The application has the characters that the bytes complete.
LEMMA PutTogetherIs ==
  ASSUME NEW v \in Value, NEW t, NEW off \in 0..Len(Shown(v)), NEW bytes \in Nat,
         NEW k \in off..Len(Shown(v)), Completes(v, t, off, bytes, k)
  PROVE  PutTogether(v, t, off, off, bytes) = k
<1> DEFINE len == Len(Shown(v))
           o == Octets(Shown(v), t)
           whole == {i \in off..len : o[i] <= o[off] + bytes}
<1>1. len \in Nat /\ off \in Nat /\ k \in Nat /\ Shown(v) \in Seq(1..3)
  BY ShownText
<1>2. /\ \A i \in 0..(len + 1) : o[i] \in Nat
      /\ \A i, j \in 0..(len + 1) : i <= j => o[i] + (j - i) <= o[j]
  BY <1>1, OctetsGrow
<1>3. o[k] <= o[off] + bytes /\ \A i \in (k + 1)..len : o[off] + bytes < o[i]
  BY DEF Completes
<1> HIDE DEF o
<1>4. CASE bytes = 0
  <2>1. o[off] + (k - off) <= o[k] /\ o[off] \in Nat /\ o[k] \in Nat
    BY <1>1, <1>2
  <2>2. k = off
    BY <1>1, <1>3, <1>4, <2>1
  <2> QED BY <1>4, <2>2 DEF PutTogether
<1>5. CASE bytes # 0
  <2>1. k \in whole
    BY <1>1, <1>3
  <2>2. ASSUME NEW i \in whole PROVE i <= k
    <3>1. i \in off..len /\ o[i] <= o[off] + bytes /\ o[i] \in Nat /\ o[off] \in Nat
      BY <1>1, <1>2, <2>2
    <3>2. i \notin (k + 1)..len
      BY <1>3, <3>1
    <3> QED BY <1>1, <3>1, <3>2
  <2>3. \A i \in whole : (\A j \in whole : j <= i) => i = k
    <3> SUFFICES ASSUME NEW i \in whole, \A j \in whole : j <= i
                 PROVE  i = k
      OBVIOUS
    <3>1. i <= k /\ k <= i /\ i \in Int
      BY <1>1, <2>1, <2>2
    <3> QED BY <1>1, <3>1
  <2>4. (CHOOSE i \in whole : \A j \in whole : j <= i) = k
    <3> HIDE DEF whole
    <3> QED BY <2>1, <2>2, <2>3
  <2> QED BY <1>5, <2>4 DEF PutTogether, o
<1> QED BY <1>4, <1>5

\* What is left has a length.
LEMMA OctetLengthType ==
  ASSUME NEW v \in Value, NEW t, NEW off \in 0..Len(Shown(v)), attr.max_length \in Nat
  PROVE  /\ OctetLength(v, t, off) \in Nat
         /\ MaxLength(v) = 0 =>
              Octets(Shown(v), t)[off] + OctetLength(v, t, off)
                = Octets(Shown(v), t)[Len(Shown(v))]
<1> DEFINE len == Len(Shown(v))
           o == Octets(Shown(v), t)
<1>1. len \in Nat /\ off \in Nat /\ Shown(v) \in Seq(1..3) /\ MaxLength(v) \in Nat
  BY ShownText, MaxLengthType
<1>2. /\ \A i \in 0..(len + 1) : o[i] \in Nat
      /\ \A i, j \in 0..(len + 1) : i <= j => o[i] + (j - i) <= o[j]
  BY <1>1, OctetsGrow
<1>3. OctetLength(v, t, off) = IF MaxLength(v) > 0 THEN MaxLength(v) ELSE o[len] - o[off]
  BY DEF OctetLength
<1> HIDE DEF o, len
<1>4. len - off \in Nat /\ off \in 0..(len + 1) /\ len \in 0..(len + 1)
  BY <1>1 DEF len
<1>5. o[off] \in Nat /\ o[len] \in Nat /\ o[off] + (len - off) <= o[len]
  BY <1>1, <1>2, <1>4
<1> QED BY <1>1, <1>3, <1>4, <1>5 DEF o, len

Length(c) == Len(Shown(row[c]))

\* A piece moves the offset by less than what was left, or ends the value; the
\* application has what the offset says, unless a limit spoilt it.
Moved(c, t, from, off, r, n, g) ==
  /\ n \in {Exhausted} \cup (0..Length(c))
  /\ off < Length(c) \/ off = 0 => n <= 0 \/ n < Length(c)
  /\ g \in {Garbled} \cup Nat
  /\ MaxLength(row[c]) = 0 /\ ~r.astray =>
       /\ r.written > 0 => r.term
       /\ IF r.cut THEN n \in off..Length(c) /\ (n < Length(c) \/ n = off) ELSE n = Exhausted
       /\ from = off => g = IF r.cut THEN n ELSE Length(c)

\* gd_offset_update(), after any transfer.
LEMMA PieceMoves ==
  ASSUME row \in Rows, NEW c \in 1..Len(row), NEW t \in CTypes, IsPieced(row[c], t),
         NEW off \in 0..Length(c), NEW room \in Nat, attr.max_length \in Nat,
         NEW from \in {Garbled} \cup Nat, NEW r \in Transfers(row[c], t, off, room)
  PROVE  /\ Sound(row[c], room, r)
         /\ Moved(c, t, from, off, r, GdOffsetUpdate(row[c], off, r),
                  PutTogether(row[c], t, from, off, r.bytes))
<1> DEFINE v == row[c]
           len == Length(c)
           n == GdOffsetUpdate(v, off, r)
           g == PutTogether(v, t, from, off, r.bytes)
<1>1. v \in Value /\ len \in Nat /\ off \in Nat /\ off <= len /\ len = Len(Shown(v))
  BY ValueOfRow, ShownText DEF Length
<1>2. Sound(v, room, r) /\ (MaxLength(v) = 0 /\ ~r.astray => Exact(v, t, off, r))
  BY <1>1, TransfersExact
<1>3. r.xfed \in Nat /\ r.bytes \in Nat /\ r.written \in Nat
  BY <1>2 DEF Sound
<1>4. n = IF r.written = 0 /\ r.xfed = 0 THEN off
          ELSE IF len - off <= r.xfed THEN Exhausted ELSE off + r.xfed
  BY <1>1 DEF GdOffsetUpdate
<1>5. g \in {Garbled} \cup Nat
  BY <1>1, <1>3, PutTogetherType
<1> HIDE DEF n, g, v, len
<1>6. n \in {Exhausted} \cup (0..len) /\ (off < len \/ off = 0 => n <= 0 \/ n < len)
  BY <1>1, <1>3, <1>4 DEF Exhausted
<1>7. ASSUME MaxLength(v) = 0, ~r.astray
      PROVE  /\ r.written > 0 => r.term
             /\ IF r.cut THEN n \in off..len /\ (n < len \/ n = off) ELSE n = Exhausted
             /\ from = off => g = IF r.cut THEN n ELSE len
  <2>1. Exact(v, t, off, r)
    BY <1>2, <1>7
  <2>2. /\ r.written > 0 => r.term
        /\ IF r.cut THEN r.xfed < len - off \/ (r.xfed = 0 /\ r.written = 0)
                    ELSE r.xfed = len - off /\ r.written > 0
        /\ Completes(v, t, off, r.bytes, off + r.xfed)
    BY <1>1, <2>1, Zenon DEF Exact
  <2>3. IF r.cut THEN n = off + r.xfed ELSE n = Exhausted /\ off + r.xfed = len
    BY <1>1, <1>3, <1>4, <2>2
  <2>4. IF r.cut THEN n \in off..len /\ (n < len \/ n = off) ELSE n = Exhausted
    BY <1>1, <1>3, <2>2, <2>3
  <2>5. off + r.xfed \in off..len
    BY <1>1, <1>3, <2>3, <2>4
  <2>6. ASSUME from = off PROVE g = off + r.xfed
    <3>1. PutTogether(v, t, off, off, r.bytes) = off + r.xfed
      <4>1. off \in 0..Len(Shown(v)) /\ off + r.xfed \in off..Len(Shown(v))
        BY <1>1, <2>5
      <4> QED BY <1>1, <1>3, <2>2, <4>1, PutTogetherIs
    <3> QED BY <2>6, <3>1 DEF g
  <2> QED BY <2>2, <2>3, <2>4, <2>6
<1> QED BY <1>2, <1>5, <1>6, <1>7 DEF Moved, n, g, v, len

-----------------------------------------------------------------------------
(* The invariant.                                                          *)

\* The state as a whole: none, or of a column of this row.
GdOfRow ==
  \/ gd = NoGd
  \/ /\ gd.col \in 1..Len(row) /\ gd.ctype \in CTypes
     /\ gd.offt \in {Exhausted} \cup (0..Length(gd.col))

NothingRead == gd = NoGd => got = 0 /\ ~spoilt /\ last.answer \in {"none", "error"}

\* While a value is read the last answer tells how far: it is "some" for as long
\* as there is more, and the offset is what the application has put together.
Reading ==
  gd # NoGd =>
    /\ gd.offt <= 0 \/ gd.offt < Length(gd.col)
    /\ IF IsPieced(row[gd.col], gd.ctype)
       THEN /\ last.answer \in {"some", "all", "no data"}
            /\ ~spoilt => (last.answer = "some" <=> gd.offt # Exhausted)
       ELSE last.answer = "fixed" /\ gd.offt = 0
    /\ ~spoilt => got = IF gd.offt = Exhausted THEN Length(gd.col) ELSE gd.offt

Inv ==
  /\ TypeOK /\ row \in Rows /\ GdOfRow /\ NothingRead /\ Reading
  /\ PieceInBuffer /\ LengthAddsUp

PieceType == [room : Nat, max : Nat, bytes : Nat, written : Nat, term : BOOLEAN,
              before : BOOLEAN, octets : Nat, from : {Garbled} \cup Nat]
LastType == [answer : {"none", "no data", "error", "fixed", "some", "all"}, piece : PieceType]

\* A column's text has a length.
LEMMA LengthType == ASSUME row \in Rows, NEW c \in 1..Len(row) PROVE Length(c) \in Nat
  BY ValueOfRow, ShownText DEF Length

\* No column has the number of none.
LEMMA ColumnRange ==
  ASSUME row \in Rows, NEW c \in 1..Len(row) PROVE c \in Nat /\ c # -1
<1>1. row \in Seq(Value)
  BY RowsAssumption
<1>2. Len(row) \in Nat
  BY <1>1
<1> QED BY <1>2

\* A call that hands over no piece writes nothing.
LEMMA NoPieceType ==
  NoPiece \in PieceType /\ NoPiece.written = 0 /\ NoPiece.room = 0 /\ ~NoPiece.before
  BY DEF NoPiece, PieceType

\* Column c is read as t, up to offset n: the answer is a, with the piece p.
ReadUpTo(c, t, n, a, p) ==
  /\ row' = row /\ attr' = attr
  /\ gd' = [col |-> c, ctype |-> t, offt |-> n]
  /\ last' = [answer |-> a, piece |-> p]
  /\ got' \in {Garbled} \cup Nat /\ spoilt' \in BOOLEAN

OffsetAfter(c, t, n, a) ==
  /\ n \in {Exhausted} \cup (0..Length(c))
  /\ n <= 0 \/ n < Length(c)
  /\ IF IsPieced(row[c], t)
     THEN /\ a \in {"some", "all", "no data"}
          /\ ~spoilt' => (a = "some" <=> n # Exhausted)
     ELSE a = "fixed" /\ n = 0
  /\ ~spoilt' => got' = IF n = Exhausted THEN Length(c) ELSE n

PieceAfter(c, t, a, p) ==
  /\ p \in PieceType
  /\ p.written <= p.room
  /\ p.written > 0 /\ ~spoilt' => p.term
  /\ p.before => p.room \in 1..2 \/ p.max \in 1..2
  /\ a \in {"some", "all"} /\ ~spoilt' =>
       Octets(Shown(row[c]), t)[p.from] + p.octets = Octets(Shown(row[c]), t)[Length(c)]

\* A call that reads a column leaves its three members of the state together.
LEMMA ReadKeepsInv ==
  ASSUME Inv, NEW c \in 1..Len(row), NEW t \in CTypes, NEW n, NEW a, NEW p,
         ReadUpTo(c, t, n, a, p), OffsetAfter(c, t, n, a), PieceAfter(c, t, a, p)
  PROVE  Inv'
<1>1. /\ gd'.col = c /\ gd'.ctype = t /\ gd'.offt = n
      /\ last'.answer = a /\ last'.piece = p
  BY DEF ReadUpTo
<1>2. row' = row /\ row \in Rows /\ TypeOK /\ attr' = attr
  BY DEF ReadUpTo, Inv
<1>3. Length(c)' = Length(c) /\ row'[c] = row[c] /\ Length(c) \in Nat
  BY <1>2, LengthType DEF Length
<1>4. c \in Nat /\ c # -1 /\ gd' # NoGd
  BY <1>1, <1>2, ColumnRange DEF NoGd
<1>5. TypeOK'
  <2>1. gd' \in [col : {-1} \cup 1..Len(row'), ctype : CTypes \cup {"none"},
                 offt : {Exhausted} \cup Nat]
    <3>1. n \in {Exhausted} \cup Nat
      <4>1. n \in {Exhausted} \cup (0..Length(c)) /\ Length(c) \in Nat
        BY <1>3, Zenon DEF OffsetAfter
      <4> QED BY <4>1
    <3>2. gd' = [col |-> c, ctype |-> t, offt |-> n]
      BY DEF ReadUpTo
    <3> QED BY <1>2, <3>1, <3>2
  <2>2. t # "none"
    BY DEF CTypes
  <2>3. last' \in LastType
    <3>1. a \in {"none", "no data", "error", "fixed", "some", "all"}
      BY DEF OffsetAfter
    <3> QED BY <3>1 DEF LastType, ReadUpTo, PieceAfter
  <2>4. got' \in {Garbled} \cup Nat /\ spoilt' \in BOOLEAN
    BY DEF ReadUpTo
  <2> QED BY <1>1, <1>2, <1>4, <2>1, <2>2, <2>3, <2>4 DEF TypeOK, LastType, PieceType
<1>6. GdOfRow'
  BY <1>1, <1>2, <1>3 DEF GdOfRow, OffsetAfter
<1>7. NothingRead'
  BY <1>4 DEF NothingRead
<1>8. Reading'
  BY <1>1, <1>3 DEF Reading, OffsetAfter
<1>9. PieceInBuffer'
  BY <1>1 DEF PieceInBuffer, PieceAfter
<1>10. LengthAddsUp'
  BY <1>1, <1>3 DEF LengthAddsUp, IsPiece, Encoded, Being, Length, PieceAfter
<1> QED BY <1>2, <1>5, <1>6, <1>7, <1>8, <1>9, <1>10 DEF Inv

\* Everything is reset, by a failure or by the next row.
LEMMA ResetKeepsInv ==
  ASSUME Inv, row' \in Rows, attr' = attr, gd' = NoGd, got' = 0, spoilt' = FALSE,
         NEW a \in {"none", "error"}, last' = Answer(a)
  PROVE  Inv'
<1>1. last'.answer = a /\ last'.piece = NoPiece /\ last' \in LastType
  BY NoPieceType DEF Answer, LastType
<1>2. TypeOK'
  <2>1. gd' \in [col : {-1} \cup 1..Len(row'), ctype : CTypes \cup {"none"},
                 offt : {Exhausted} \cup Nat]
        /\ gd'.col = -1 /\ gd'.ctype = "none"
    BY DEF NoGd
  <2> QED BY <1>1, <2>1 DEF Inv, TypeOK, LastType, PieceType
<1>3. NothingRead' /\ Reading' /\ GdOfRow'
  BY <1>1 DEF NothingRead, Reading, GdOfRow
<1>4. PieceInBuffer' /\ LengthAddsUp'
  BY <1>1, NoPieceType DEF PieceInBuffer, LengthAddsUp, IsPiece
<1> QED BY <1>2, <1>3, <1>4 DEF Inv

\* A failed call, whatever made it fail, leaves nothing behind.
LEMMA FailsKeepsInv == ASSUME Inv, Fails PROVE Inv'
  BY ResetKeepsInv DEF Inv, Fails

-----------------------------------------------------------------------------
(* The calls.                                                              *)

\* The offset that a call starts from is one of the value it reads, and what the
\* application has put together ends there.
LEMMA StartInValue ==
  ASSUME Inv, NEW c, NEW t \in CTypes, Available(c, t)
  PROVE  /\ c \in 1..Len(row)
         /\ Offset(c, t) \in 0..Length(c)
         /\ Offset(c, t) < Length(c) \/ Offset(c, t) = 0
         /\ ~IsPieced(row[c], t) => Offset(c, t) = 0
         /\ From(c, t) \in {Garbled} \cup Nat
         /\ WasSpoilt(c, t) \in BOOLEAN
         /\ ~WasSpoilt(c, t) => From(c, t) = Offset(c, t)
<1>1. c \in 1..Len(row) /\ row \in Rows
  BY DEF Available, Inv
<1>2. Length(c) \in Nat
  BY <1>1, LengthType
<1>3. got \in {Garbled} \cup Nat /\ spoilt \in BOOLEAN
  BY DEF Inv, TypeOK
<1>4. CASE Resuming(c, t)
  <2>1. gd # NoGd /\ gd.col = c /\ gd.ctype = t /\ gd.offt # Exhausted
    BY <1>4 DEF Resuming, NoGd, CTypes, Available
  <2>2. gd.offt \in 0..Length(c)
    BY <2>1 DEF Inv, GdOfRow
  <2>3. /\ gd.offt <= 0 \/ gd.offt < Length(c)
        /\ ~IsPieced(row[c], t) => gd.offt = 0
        /\ ~spoilt => got = gd.offt
    BY <2>1 DEF Inv, Reading
  <2>4. Offset(c, t) = gd.offt /\ From(c, t) = got /\ WasSpoilt(c, t) = spoilt
    BY <1>3, <1>4 DEF Offset, From, WasSpoilt
  <2> QED BY <1>1, <1>2, <1>3, <2>2, <2>3, <2>4
<1>5. CASE ~Resuming(c, t)
  BY <1>1, <1>2, <1>5 DEF Offset, From, WasSpoilt
<1> QED BY <1>4, <1>5

\* Nor does SQLFetch().
LEMMA FetchKeepsInv == ASSUME Inv, Fetch PROVE Inv'
  BY ResetKeepsInv DEF Fetch

\* The attributes are not those that the value was read under.
LEMMA SetAttrKeepsInv == ASSUME Inv, SetAttr PROVE Inv'
<1>1. attr' \in [max_length : MaxLengths \cup {0}, array_size : {1, 2}]
  BY DEF Inv, TypeOK, SetAttr
<1>2. UNCHANGED <<row, gd, last, got, spoilt>>
  BY DEF SetAttr
<1>3. TypeOK'
  BY <1>1, <1>2 DEF Inv, TypeOK
<1>4. (GdOfRow /\ NothingRead /\ Reading)'
  BY <1>2 DEF Inv, GdOfRow, NothingRead, Reading, Length, IsPieced, Shown
<1>5. (PieceInBuffer /\ LengthAddsUp)'
  BY <1>2 DEF Inv, PieceInBuffer, LengthAddsUp, IsPiece, Encoded, Being
<1> QED BY <1>2, <1>3, <1>4, <1>5 DEF Inv

\* SQL_NO_DATA leaves the state as it is.
LEMMA ExhaustedKeepsInv ==
  ASSUME Inv, NEW c \in 0..Len(row), NEW t \in CTypes, GetDataExhausted(c, t)
  PROVE  Inv'
<1>1. gd.col = c /\ gd.ctype = t /\ gd.offt = Exhausted
  BY DEF GetDataExhausted, Resuming
<1>2. last' = Answer("no data") /\ UNCHANGED <<row, gd, attr, got, spoilt>>
  BY DEF GetDataExhausted
<1>3. gd # NoGd
  BY <1>1 DEF NoGd, CTypes
<1>4. last'.answer = "no data" /\ last'.piece = NoPiece /\ last' \in LastType
  BY <1>2, NoPieceType DEF Answer, LastType
<1>5. TypeOK'
  BY <1>2, <1>4 DEF Inv, TypeOK, LastType, PieceType
<1>6. GdOfRow'
  BY <1>2 DEF Inv, GdOfRow, Length
<1>7. NothingRead'
  BY <1>2, <1>3 DEF NothingRead
<1>8. Reading'
  <2>1. IsPieced(row[gd.col], gd.ctype)
    <3>1. ~IsPieced(row[gd.col], gd.ctype) => gd.offt = 0
      BY <1>3, Zenon DEF Inv, Reading
    <3> QED BY <1>1, <3>1 DEF Exhausted
  <2>2. ~spoilt => got = Length(gd.col)
    BY <1>1, <1>3, Zenon DEF Inv, Reading
  <2>3. IsPieced(row'[gd'.col], gd'.ctype) /\ gd'.offt = Exhausted /\ Exhausted <= 0
    <3>1. IsPieced(row'[gd'.col], gd'.ctype) /\ gd'.offt = Exhausted
      BY <1>1, <1>2, <2>1, Zenon
    <3> QED BY <3>1 DEF Exhausted
  <2>4. ~spoilt' => got' = Length(gd.col)'
    BY <1>2, <2>2, Zenon DEF Length
  <2>5. last'.answer # "some"
    BY <1>4
  <2> QED BY <1>4, <2>3, <2>4, <2>5, Zenon DEF Reading
<1>9. PieceInBuffer' /\ LengthAddsUp'
  <2>1. last'.answer \notin {"some", "all"}
    BY <1>4
  <2>2. /\ last'.piece.written <= last'.piece.room /\ ~(last'.piece.written > 0)
        /\ ~last'.piece.before
    <3>1. last'.piece.written = 0 /\ last'.piece.room = 0 /\ ~last'.piece.before
      BY <1>4, NoPieceType, Zenon
    <3> QED BY <3>1
  <2> QED BY <2>1, <2>2, Zenon DEF PieceInBuffer, LengthAddsUp, IsPiece
<1> QED BY <1>2, <1>5, <1>6, <1>7, <1>8, <1>9 DEF Inv

\* A number starts at 0 each time, and so never ends.
LEMMA FixedKeepsInv ==
  ASSUME Inv, NEW c, NEW t \in CTypes, NEW ind \in BOOLEAN, GetDataFixed(c, t, ind)
  PROVE  Inv'
<1>1. Available(c, t) /\ ~IsPieced(row[c], t)
  BY DEF GetDataFixed
<1>2. c \in 1..Len(row) /\ Offset(c, t) = 0 /\ From(c, t) \in {Garbled} \cup Nat
  BY <1>1, StartInValue
<1>3. WasSpoilt(c, t) \in BOOLEAN /\ (~WasSpoilt(c, t) => From(c, t) = 0)
  BY <1>1, <1>2, StartInValue, Zenon
<1>4. /\ row' = row /\ attr' = attr /\ gd' = [col |-> c, ctype |-> t, offt |-> Offset(c, t)]
      /\ last' = Answer("fixed") /\ got' = From(c, t) /\ spoilt' = WasSpoilt(c, t)
  BY DEF GetDataFixed
<1>5. 0 \in 0..Length(c) /\ 0 # Exhausted /\ 0 <= 0
  BY <1>2, LengthType DEF Inv, Exhausted
<1>6. ReadUpTo(c, t, 0, "fixed", NoPiece)
  BY <1>2, <1>3, <1>4, Zenon DEF ReadUpTo, Answer
<1>7. OffsetAfter(c, t, 0, "fixed")
  BY <1>1, <1>3, <1>4, <1>5, Zenon DEF OffsetAfter
<1>8. PieceAfter(c, t, "fixed", NoPiece)
  <2>1. "fixed" \notin {"some", "all"} /\ NoPiece.written <= NoPiece.room
        /\ ~(NoPiece.written > 0) /\ ~NoPiece.before
    BY NoPieceType
  <2> QED BY <2>1, NoPieceType, Zenon DEF PieceAfter
<1> QED BY <1>2, <1>6, <1>7, <1>8, ReadKeepsInv

\* Limits and buffers have lengths.
LEMMA RoomType ==
  ASSUME Inv, NEW room \in BufferLengths
  PROVE  attr.max_length \in Nat /\ room \in Nat
<1>1. MaxLengths \cup {0} \subseteq Nat /\ BufferLengths \subseteq Nat
  BY LengthsAssumption
<1>2. attr \in [max_length : MaxLengths \cup {0}, array_size : {1, 2}]
  BY DEF Inv, TypeOK
<1>3. attr.max_length \in MaxLengths \cup {0}
  BY <1>2
<1> QED BY <1>1, <1>3

\* What a call that hands over a piece leaves behind; it does not go back.
PieceRead(c, t) ==
  \E n, a, p :
    /\ ReadUpTo(c, t, n, a, p) /\ OffsetAfter(c, t, n, a) /\ PieceAfter(c, t, a, p)
    /\ a \in {"some", "all"}
    /\ ~spoilt' => /\ ~WasSpoilt(c, t) /\ From(c, t) = Offset(c, t)
                   /\ got' \in Offset(c, t)..Length(c)

\* A piece does what its transfer does, or the call fails.
LEMMA PieceIsRead ==
  ASSUME Inv, NEW c, NEW t \in CTypes, NEW room \in BufferLengths,
         GetDataPiece(c, t, room)
  PROVE  Fails \/ PieceRead(c, t)
<1> DEFINE v == row[c]
           off == Offset(c, t)
           from == From(c, t)
<1>1. /\ Available(c, t) /\ IsPieced(v, t) /\ row \in Rows
      /\ attr.max_length \in Nat /\ room \in Nat
  <2>1. Available(c, t) /\ IsPieced(v, t)
    BY Zenon DEF GetDataPiece
  <2> QED BY <2>1, RoomType, Zenon DEF Inv
<1>2. /\ c \in 1..Len(row) /\ off \in 0..Length(c) /\ (off < Length(c) \/ off = 0)
      /\ from \in {Garbled} \cup Nat
  BY <1>1, StartInValue
<1>3. ~WasSpoilt(c, t) => from = off
  BY <1>1, StartInValue, Zenon
<1>4. PICK r \in Transfers(v, t, off, room) :
        IF r.cut /\ TooShort(v, t, room) THEN Fails
        ELSE /\ gd' = [col |-> c, ctype |-> t, offt |-> GdOffsetUpdate(v, off, r)]
             /\ last' = [answer |-> IF r.cut THEN "some" ELSE "all",
                         piece |-> [room |-> room, max |-> MaxLength(v),
                                    bytes |-> r.bytes, written |-> r.written,
                                    term |-> r.term, before |-> r.before,
                                    octets |-> OctetLength(v, t, off), from |-> from]]
             /\ got' = PutTogether(v, t, from, off, r.bytes)
             /\ spoilt' = (WasSpoilt(c, t) \/ MaxLength(v) > 0 \/ r.astray)
             /\ UNCHANGED <<row, attr>>
  BY Zenon DEF GetDataPiece
<1> DEFINE n == GdOffsetUpdate(v, off, r)
           g == PutTogether(v, t, from, off, r.bytes)
           a == IF r.cut THEN "some" ELSE "all"
           p == [room |-> room, max |-> MaxLength(v), bytes |-> r.bytes,
                 written |-> r.written, term |-> r.term, before |-> r.before,
                 octets |-> OctetLength(v, t, off), from |-> from]
<1>5. Sound(v, room, r) /\ Moved(c, t, from, off, r, n, g)
  BY <1>1, <1>2, PieceMoves
<1>6. /\ OctetLength(v, t, off) \in Nat
      /\ MaxLength(v) = 0 =>
           Octets(Shown(v), t)[off] + OctetLength(v, t, off) = Octets(Shown(v), t)[Length(c)]
  <2>1. v \in Value /\ off \in 0..Len(Shown(v))
    BY <1>1, <1>2, ValueOfRow DEF Length
  <2> QED BY <1>1, <2>1, OctetLengthType DEF Length
<1>7. MaxLength(v) \in Nat
  BY <1>1, MaxLengthType
<1>8. CASE r.cut /\ TooShort(v, t, room)
  BY <1>4, <1>8
<1>9. CASE ~(r.cut /\ TooShort(v, t, room))
  <2>1. /\ gd' = [col |-> c, ctype |-> t, offt |-> n]
        /\ last' = [answer |-> a, piece |-> p] /\ got' = g
        /\ spoilt' = (WasSpoilt(c, t) \/ MaxLength(v) > 0 \/ r.astray)
        /\ row' = row /\ attr' = attr
    BY <1>4, <1>9, Zenon
  <2>2. ~spoilt' => from = off /\ ~r.astray /\ ~(MaxLength(v) > 0)
    BY <1>3, <2>1, Zenon
  <2>3. ~spoilt' => from = off /\ ~r.astray /\ MaxLength(v) = 0
    BY <1>7, <2>2
  <2>4. spoilt' \in BOOLEAN
    BY <2>1, Zenon
  <2>5. g \in {Garbled} \cup Nat
    BY <1>5 DEF Moved
  <2>6. ReadUpTo(c, t, n, a, p)
    BY <2>1, <2>4, <2>5, Zenon DEF ReadUpTo
  <2> HIDE DEF v, off, from, n, g
  <2>7. OffsetAfter(c, t, n, a)
    <3>1. n \in {Exhausted} \cup (0..Length(c)) /\ (n <= 0 \/ n < Length(c))
      BY <1>2, <1>5 DEF Moved
    <3>2. ~spoilt' =>
            /\ IF r.cut THEN n \in off..Length(c) /\ (n < Length(c) \/ n = off) ELSE n = Exhausted
            /\ g = IF r.cut THEN n ELSE Length(c)
      BY <1>5, <2>3, Zenon DEF Moved, v
    <3>3. off..Length(c) \subseteq Nat /\ Exhausted \notin Nat
      BY <1>2 DEF Exhausted
    <3>4. ~spoilt' => (a = "some" <=> n # Exhausted)
                      /\ g = IF n = Exhausted THEN Length(c) ELSE n
      BY <3>2, <3>3, Zenon
    <3>5. a \in {"some", "all"}
      OBVIOUS
    <3> QED BY <1>1, <2>1, <3>1, <3>4, <3>5, Zenon DEF OffsetAfter, v
  <2>8. PieceAfter(c, t, a, p)
    <3>1. p \in PieceType
      BY <1>1, <1>2, <1>5, <1>6, <1>7 DEF PieceType, Sound
    <3>2. p.written = r.written /\ p.room = room /\ p.term = r.term /\ p.from = from
          /\ p.before = r.before /\ p.max = MaxLength(v)
          /\ p.octets = OctetLength(v, t, off)
      OBVIOUS
    <3>3. r.written <= room
      BY <1>1, <1>5 DEF Sound
    <3>4. ~spoilt' => (r.written > 0 => r.term)
      BY <1>5, <2>3, Zenon DEF Moved, v
    <3>5. ~spoilt' => Octets(Shown(v), t)[from] + OctetLength(v, t, off)
                        = Octets(Shown(v), t)[Length(c)]
      BY <1>6, <2>3, Zenon
    <3>6. r.before => room \in 1..2 \/ MaxLength(v) \in 1..2
      BY <1>5, Zenon DEF Sound
    <3> HIDE DEF p, a
    <3> QED BY <3>1, <3>2, <3>3, <3>4, <3>5, <3>6, Zenon DEF PieceAfter, v
  <2>9. a \in {"some", "all"}
    OBVIOUS
  <2>10. ~spoilt' => ~WasSpoilt(c, t) /\ from = off /\ got' \in off..Length(c)
    <3>1. ASSUME ~spoilt' PROVE g \in off..Length(c)
      <4>1. IF r.cut THEN n \in off..Length(c) ELSE n = Exhausted
        BY <1>5, <2>3, <3>1, Zenon DEF Moved, v
      <4>2. g = IF r.cut THEN n ELSE Length(c)
        BY <1>5, <2>3, <3>1, Zenon DEF Moved, v
      <4>3. Length(c) \in off..Length(c)
        BY <1>1, <1>2, LengthType
      <4> QED BY <4>1, <4>2, <4>3, Zenon
    <3> QED BY <2>1, <2>3, <3>1, Zenon
  <2> HIDE DEF a, p
  <2> QED BY <2>6, <2>7, <2>8, <2>9, <2>10, Zenon DEF PieceRead, from, off
<1> QED BY <1>8, <1>9

\* A piece leaves an offset that the next one may start from.
LEMMA PieceKeepsInv ==
  ASSUME Inv, NEW c, NEW t \in CTypes, NEW room \in BufferLengths,
         GetDataPiece(c, t, room)
  PROVE  Inv'
<1>1. CASE Fails
  BY <1>1, FailsKeepsInv
<1>2. CASE PieceRead(c, t)
  <2>1. PICK n, a, p : ReadUpTo(c, t, n, a, p) /\ OffsetAfter(c, t, n, a)
                       /\ PieceAfter(c, t, a, p)
    BY <1>2, Zenon DEF PieceRead
  <2>2. c \in 1..Len(row)
    BY DEF GetDataPiece, Available
  <2> QED BY <2>1, <2>2, ReadKeepsInv
<1> QED BY <1>1, <1>2, PieceIsRead

\* Every call, fetch and change of an attribute keeps the offset, the answer and
\* what the application has in line (EsSQLGetData, EsSQLFetch, gd_offset_update).
THEOREM GdInvInductive == Inv /\ [Next]_vars => Inv'
<1> SUFFICES ASSUME Inv, [Next]_vars PROVE Inv'
  OBVIOUS
<1>1. ASSUME NEW c \in 0..Len(row), NEW t \in CTypes, GetDataRefused(c, t)
      PROVE  Inv'
  BY <1>1, FailsKeepsInv DEF GetDataRefused
<1>2. ASSUME NEW c \in 0..Len(row), NEW t \in CTypes, NEW ind \in BOOLEAN,
             GetDataFails(c, t, ind)
      PROVE  Inv'
  BY <1>2, FailsKeepsInv DEF GetDataFails
<1>3. CASE UNCHANGED vars
  <2>1. UNCHANGED <<row, gd, attr, last, got, spoilt>>
    BY <1>3 DEF vars
  <2>2. TypeOK'
    BY <2>1 DEF Inv, TypeOK
  <2>3. (GdOfRow /\ NothingRead /\ Reading)'
    BY <2>1 DEF Inv, GdOfRow, NothingRead, Reading, Length, IsPieced, Shown
  <2>4. (PieceInBuffer /\ LengthAddsUp)'
    BY <2>1 DEF Inv, PieceInBuffer, LengthAddsUp, IsPiece, Encoded, Being
  <2> QED BY <2>1, <2>2, <2>3, <2>4 DEF Inv
<1> QED BY <1>1, <1>2, <1>3, FetchKeepsInv, SetAttrKeepsInv, ExhaustedKeepsInv,
           FixedKeepsInv, PieceKeepsInv, Zenon DEF Next

\* A new statement has read nothing (STMT_GD_RESET in init_stmt).
THEOREM InitGdInv == Init => Inv
<1> SUFFICES ASSUME Init PROVE Inv
  OBVIOUS
<1>1. /\ row \in Rows /\ gd = NoGd /\ attr = [max_length |-> 0, array_size |-> 1]
      /\ last = Answer("none") /\ got = 0 /\ spoilt = FALSE
  BY DEF Init
<1>2. last.answer = "none" /\ last.piece = NoPiece /\ last \in LastType
  BY <1>1, NoPieceType DEF Answer, LastType
<1>3. TypeOK
  <2>1. gd \in [col : {-1} \cup 1..Len(row), ctype : CTypes \cup {"none"},
                offt : {Exhausted} \cup Nat]
        /\ gd.col = -1 /\ gd.ctype = "none"
    BY <1>1 DEF NoGd
  <2>2. attr \in [max_length : MaxLengths \cup {0}, array_size : {1, 2}]
    BY <1>1
  <2> QED BY <1>1, <1>2, <2>1, <2>2 DEF TypeOK, LastType, PieceType
<1>4. NothingRead /\ Reading /\ GdOfRow
  BY <1>1, <1>2 DEF NothingRead, Reading, GdOfRow
<1>5. PieceInBuffer /\ LengthAddsUp
  BY <1>2, NoPieceType DEF PieceInBuffer, LengthAddsUp, IsPiece
<1> QED BY <1>1, <1>3, <1>4, <1>5 DEF Inv

\* The offset, the answer and what the application has are in line after any
\* sequence of calls of EsSQLGetData(), EsSQLFetch() and EsSQLSetStmtAttrW().
THEOREM GdInvariant == Spec => []Inv
  BY InitGdInv, GdInvInductive, PTL DEF Spec

\* The offset is in the value it is for.
LEMMA InvOffset == Inv => OffsetInValue
<1> SUFFICES ASSUME Inv PROVE OffsetInValue
  OBVIOUS
<1>1. CASE gd = NoGd
  BY <1>1 DEF OffsetInValue, NoGd
<1>2. CASE gd # NoGd
  <2>1. /\ gd.col \in 1..Len(row) /\ row \in Rows
        /\ gd.offt \in {Exhausted} \cup (0..Length(gd.col))
    BY <1>2 DEF Inv, GdOfRow
  <2>2. Length(gd.col) \in Nat /\ gd.col # -1
    BY <2>1, LengthType, ColumnRange
  <2> QED BY <2>1, <2>2 DEF OffsetInValue, Length
<1> QED BY <1>1, <1>2

\* The assertions of gd_offset_apply() hold for every sequence of calls: the
\* offset is not behind the end of the text it is applied to.
THEOREM OffsetAlwaysInValue == Spec => []OffsetInValue
  BY GdInvariant, InvOffset, PTL

\* The members of SQLGetData's state are set and reset together (STMT_GD_RESET),
\* and every length written out is one.
THEOREM GetDataTyped == Spec => []TypeOK
<1>1. Inv => TypeOK
  BY DEF Inv
<1> QED BY <1>1, GdInvariant, PTL

\* No piece goes beyond the application's buffer, and it ends with a terminator
\* (buff_octet_size, transfer_xstr0, wstr_to_cstr); the byte in front of the buffer
\* is kept unless the buffer or the limit is of one or two bytes (convert.c:1516).
THEOREM PieceAlwaysInBuffer == Spec => []PieceInBuffer
<1>1. Inv => PieceInBuffer
  BY DEF Inv
<1> QED BY <1>1, GdInvariant, PTL

\* The length that write_out_octets() reports is what is left of the value, whatever
\* the application has read of it.
THEOREM LengthAlwaysAddsUp == Spec => []LengthAddsUp
<1>1. Inv => LengthAddsUp
  BY DEF Inv
<1> QED BY <1>1, GdInvariant, PTL

-----------------------------------------------------------------------------
(* A loop of calls for more comes to an end.                               *)

\* A transfer that is cut has its room full of characters (transfer_xstr0).
LEMMA XstrAdvances ==
  ASSUME NEW v \in Value, NEW t \in {"CHAR", "WCHAR"}, NEW off \in 0..Len(Shown(v)),
         NEW room \in Nat, room >= 6, MaxLength(v) = 0,
         NEW r \in TransferXstr0(v, t, off, room), r.cut
  PROVE  0 < r.xfed
<1> DEFINE cnt == Len(Shown(v)) - off
           sz == CharSize(t)
           avail == (cnt + 1) * sz
           b == BuffOctetSize(avail, sz, room, 0)
           chars == b.size \div sz - 1
           term == b.cut \/ chars = cnt
<1>1. sz \in {1, 2} /\ cnt \in Nat
  BY ShownText DEF CharSize
<1>2. avail \in Nat
  BY <1>1
<1>3. r \in IF b.size = 0 THEN {NothingCopied(b.cut)}
            ELSE {Copied(chars, IF term THEN chars * sz ELSE b.size, b.size, term, b.cut)}
  BY DEF TransferXstr0
<1> HIDE DEF sz, avail
<1>4. b.cut = (room < avail) /\ (room < avail => b.size = room - (room % sz))
  BY <1>2 DEF BuffOctetSize, Least
<1> HIDE DEF b
<1>5. room < avail /\ (b.size # 0 => r.xfed = chars)
  <2>1. b.cut = TRUE /\ (b.size # 0 => r.xfed = chars)
    BY <1>3, <1>4 DEF NothingCopied, Copied
  <2> QED BY <1>4, <2>1
<1>6. b.size # 0 /\ 0 < chars
  <2>1. CASE sz = 1
    BY <1>4, <1>5, <2>1
  <2>2. CASE sz = 2
    BY <1>4, <1>5, <2>2
  <2> QED BY <1>1, <2>1, <2>2
<1> QED BY <1>5, <1>6

\* Where two characters fit, the terminator takes the place of the second at most
\* (wstr_to_cstr).
LEMMA WstrAdvances ==
  ASSUME NEW v \in Value, NEW off \in 0..Len(Shown(v)), NEW room \in Nat, room >= 6,
         MaxLength(v) = 0, NEW r \in WstrToCstr(v, off, room), r.cut, ~r.astray
  PROVE  0 < r.xfed
<1> DEFINE len == Len(Shown(v))
           o == Octets(Shown(v), "CHAR")
           cnt == Len(Shown(v)) - off
           bytes(c) == o[off + c] - o[off]
           avail == o[off + cnt + 1] - o[off]
           b == BuffOctetSize(avail, 1, room, 0)
           fit == {c \in 1..(cnt + 1) : o[off + c] - o[off] <= b.size}
           all(c) == Copied(cnt, bytes(c) - 1, bytes(c), TRUE, b.cut)
           some(c) == Copied(c - 1, bytes(c) - 1, bytes(c), TRUE, TRUE)
<1>1. /\ len \in Nat /\ cnt \in Nat /\ off \in Nat /\ off + cnt = len
      /\ Shown(v) \in Seq(1..3)
  BY ShownText
<1>2. /\ \A j \in 0..(len + 1) : o[j] \in Nat
      /\ \A i, j \in 0..(len + 1) : i <= j => o[i] + (j - i) <= o[j]
  BY <1>1, OctetsGrow
<1>3. \A i \in 1..(len + 1) : o[i] = o[i - 1] + Width(Shown(v), "CHAR", i)
                              /\ Width(Shown(v), "CHAR", i) \in 1..3
  BY <1>1, OctetsStep, WidthRange
<1>4. r \in IF b.size = 0 THEN {NothingCopied(b.cut)}
            ELSE IF fit = {} THEN {Astray(0, b.cut, FALSE), Astray(cnt, TRUE, TRUE)}
            ELSE {IF c = cnt + 1 THEN all(c) ELSE some(c)
                    : c \in {n \in fit : \A m \in fit : m <= n}}
  BY DEF WstrToCstr
<1> HIDE DEF o
<1>5. avail \in Nat
  <2>1. off + cnt + 1 = len + 1 /\ off \in 0..(len + 1) /\ len + 1 \in 0..(len + 1)
        /\ off <= len + 1
    BY <1>1
  <2>2. o[off] + ((len + 1) - off) <= o[len + 1] /\ o[off] \in Nat /\ o[len + 1] \in Nat
    BY <1>2, <2>1
  <2>3. avail = o[len + 1] - o[off]
    BY <2>1
  <2> QED BY <1>1, <2>2, <2>3
<1>6. avail = bytes(cnt + 1)
  BY <1>1
<1> HIDE DEF avail, bytes, len
<1>7. b.size = Least(avail, room) /\ b.cut = (room < avail)
  BY <1>5 DEF BuffOctetSize, Least
<1> HIDE DEF b
<1>8. b.size = (IF room < avail THEN room ELSE avail) /\ (b.cut => room < avail)
  <2>1. b.size = (IF room < avail THEN room ELSE avail)
    <3>1. Least(avail, room) = (IF room < avail THEN room ELSE avail)
      BY <1>5 DEF Least
    <3> QED BY <1>7, <3>1
  <2> QED BY <1>7, <2>1, Zenon
<1>9. b.size # 0
  <2> SUFFICES ASSUME b.size = 0 PROVE FALSE
    OBVIOUS
  <2>1. b.cut
    <3>1. r = NothingCopied(b.cut)
      BY <1>4
    <3>2. r.cut = b.cut
      BY <3>1 DEF NothingCopied, Copied
    <3> QED BY <3>2, Zenon
  <2>2. room < avail
    BY <1>8, <2>1
  <2> QED BY <1>8, <2>2
<1>10. fit # {}
  BY <1>4, <1>9 DEF Astray, NothingCopied, Copied
<1>11. PICK c \in {n \in fit : \A m \in fit : m <= n} :
         r = IF c = cnt + 1 THEN all(c) ELSE some(c)
  <2> HIDE DEF all, some, fit
  <2> QED BY <1>4, <1>9, <1>10
<1>12. /\ c \in 1..(cnt + 1) /\ bytes(c) <= b.size
       /\ \A m \in 1..(cnt + 1) : bytes(m) <= b.size => m <= c
  BY <1>11 DEF bytes
<1>13. IF c = cnt + 1 THEN r.cut = b.cut ELSE r.xfed = c - 1
  BY <1>11 DEF Copied
<1> HIDE DEF fit, all, some
<1>14. c # cnt + 1
  <2> SUFFICES ASSUME c = cnt + 1 PROVE FALSE
    OBVIOUS
  <2>1. b.cut
    BY <1>13
  <2>2. avail <= b.size
    BY <1>6, <1>12
  <2> QED BY <1>5, <1>8, <2>1, <2>2
<1>15. room < avail
  <2> SUFFICES ASSUME ~(room < avail) PROVE FALSE
    OBVIOUS
  <2>1. bytes(cnt + 1) <= b.size
    BY <1>5, <1>6, <1>8
  <2>2. cnt + 1 <= c
    BY <1>1, <1>12, <2>1
  <2> QED BY <1>1, <1>12, <1>14, <2>2
<1>16. bytes(2) <= b.size /\ 2 \in 1..(cnt + 1)
  <2>1. 2 \in 1..(cnt + 1)
    BY <1>1, <1>12, <1>14
  <2>2. off \in 0..(len + 1) /\ off + 1 \in 1..(len + 1) /\ off + 2 \in 1..(len + 1)
        /\ (off + 1) - 1 = off /\ (off + 2) - 1 = off + 1
    BY <1>1, <2>1
  <2>3. /\ o[off + 1] = o[off] + Width(Shown(v), "CHAR", off + 1)
        /\ o[off + 2] = o[off + 1] + Width(Shown(v), "CHAR", off + 2)
        /\ Width(Shown(v), "CHAR", off + 1) \in 1..3
        /\ Width(Shown(v), "CHAR", off + 2) \in 1..3
    BY <1>3, <2>2
  <2>4. o[off] \in Nat
    BY <1>2, <2>2
  <2>5. bytes(2) <= 6
    BY <2>3, <2>4 DEF bytes
  <2>6. bytes(2) \in Int
    BY <2>3, <2>4 DEF bytes
  <2> QED BY <1>8, <1>15, <2>1, <2>5, <2>6
<1>17. 2 <= c
  BY <1>12, <1>16
<1>18. r.xfed = c - 1
  BY <1>13, <1>14
<1> QED BY <1>1, <1>12, <1>17, <1>18

\* A piece that is cut moves the offset, and the application has more than before.
LEMMA PieceMovesOn ==
  ASSUME row \in Rows, NEW c \in 1..Len(row), NEW t \in CTypes, IsPieced(row[c], t),
         NEW off \in 0..Length(c), NEW room \in Nat, attr.max_length \in Nat,
         NEW r \in Transfers(row[c], t, off, room),
         MaxLength(row[c]) = 0, ~r.astray, r.cut, room >= 6
  PROVE  PutTogether(row[c], t, off, off, r.bytes) > off
<1> DEFINE v == row[c]
           n == GdOffsetUpdate(v, off, r)
           g == PutTogether(v, t, off, off, r.bytes)
<1>1. v \in Value /\ t \in {"CHAR", "WCHAR"} /\ Length(c) \in Nat
  BY ValueOfRow, LengthType DEF IsPieced, CTypes
<1>2. off \in 0..Len(Shown(v)) /\ off \in Nat
  BY <1>1 DEF Length
<1>3. off \in {Garbled} \cup Nat
  BY <1>2
<1>4. Sound(v, room, r) /\ Moved(c, t, off, off, r, n, g)
  BY <1>3, PieceMoves
<1>5. 0 < r.xfed /\ r.xfed \in Nat
  <2>1. CASE t = "CHAR" /\ v.kind # "INTEGER"
    BY <1>1, <1>2, <1>4, <2>1, WstrAdvances DEF Transfers, Sound
  <2>2. CASE ~(t = "CHAR" /\ v.kind # "INTEGER")
    BY <1>1, <1>2, <1>4, <2>2, XstrAdvances DEF Transfers, Sound
  <2> QED BY <2>1, <2>2
<1>6. g = n /\ n \in off..Length(c)
  <2> HIDE DEF v, n, g
  <2> QED BY <1>4, Zenon DEF Moved, v
<1>7. n = Exhausted \/ n = off + r.xfed
  BY <1>5 DEF GdOffsetUpdate
<1> HIDE DEF n, g, v
<1>8. n > off
  BY <1>2, <1>5, <1>6, <1>7 DEF Exhausted
<1> QED BY <1>6, <1>8 DEF g, n, v

\* Every call keeps it: only a piece is an answer that there is more.
LEMMA AdvancesInductive == Inv /\ PieceAdvances /\ [Next]_vars => PieceAdvances'
<1> SUFFICES ASSUME Inv, PieceAdvances, [Next]_vars PROVE PieceAdvances'
  OBVIOUS
<1>1. ASSUME last'.answer # "some" PROVE PieceAdvances'
  BY <1>1 DEF PieceAdvances
<1>2. CASE Fails \/ Fetch
  BY <1>1, <1>2 DEF Fails, Fetch, Answer
<1>3. CASE UNCHANGED <<last, got, spoilt>>
  BY <1>3 DEF PieceAdvances
<1>4. ASSUME NEW c \in 0..Len(row), NEW t \in CTypes,
             \/ GetDataExhausted(c, t) \/ GetDataRefused(c, t)
             \/ \E ind \in BOOLEAN : GetDataFails(c, t, ind) \/ GetDataFixed(c, t, ind)
      PROVE  PieceAdvances'
  <2>1. Fails \/ last' = Answer("no data") \/ last' = Answer("fixed")
    BY <1>4, Zenon DEF GetDataExhausted, GetDataRefused, GetDataFails, GetDataFixed
  <2>2. ASSUME NEW a \in {"no data", "fixed"}, last' = Answer(a) PROVE last'.answer # "some"
    BY <2>2 DEF Answer
  <2> QED BY <1>1, <1>2, <2>1, <2>2, Zenon
<1>5. ASSUME NEW c \in 0..Len(row), NEW t \in CTypes, NEW room \in BufferLengths,
             GetDataPiece(c, t, room)
      PROVE  PieceAdvances'
  <2> DEFINE v == row[c]
             off == Offset(c, t)
             from == From(c, t)
  <2>1. /\ Available(c, t) /\ IsPieced(v, t) /\ row \in Rows
        /\ attr.max_length \in Nat /\ room \in Nat
    <3>1. Available(c, t) /\ IsPieced(v, t)
      BY <1>5, Zenon DEF GetDataPiece
    <3> QED BY <3>1, RoomType, Zenon DEF Inv
  <2>2. c \in 1..Len(row) /\ off \in 0..Length(c)
    BY <2>1, StartInValue
  <2>3. ~WasSpoilt(c, t) => from = off
    BY <2>1, StartInValue, Zenon
  <2>4. PICK r \in Transfers(v, t, off, room) :
          IF r.cut /\ TooShort(v, t, room) THEN Fails
          ELSE /\ last' = [answer |-> IF r.cut THEN "some" ELSE "all",
                           piece |-> [room |-> room, max |-> MaxLength(v),
                                      bytes |-> r.bytes, written |-> r.written,
                                      term |-> r.term, before |-> r.before,
                                      octets |-> OctetLength(v, t, off), from |-> from]]
               /\ got' = PutTogether(v, t, from, off, r.bytes)
               /\ spoilt' = (WasSpoilt(c, t) \/ MaxLength(v) > 0 \/ r.astray)
    BY <1>5, Zenon DEF GetDataPiece
  <2>5. MaxLength(v) \in Nat
    BY <2>1, MaxLengthType
  <2>6. CASE ~(r.cut /\ TooShort(v, t, room))
    <3>1. /\ last'.answer = (IF r.cut THEN "some" ELSE "all")
          /\ last'.piece.room = room /\ last'.piece.from = from
      BY <2>4, <2>6
    <3>2. /\ got' = PutTogether(v, t, from, off, r.bytes)
          /\ spoilt' = (WasSpoilt(c, t) \/ MaxLength(v) > 0 \/ r.astray)
      BY <2>4, <2>6, Zenon
    <3>3. SUFFICES ASSUME last'.answer = "some", ~spoilt', last'.piece.room >= 6
                   PROVE  got' > last'.piece.from
      BY DEF PieceAdvances
    <3>4. from = off /\ ~r.astray /\ ~(MaxLength(v) > 0)
      BY <2>3, <3>2, <3>3, Zenon
    <3>5. MaxLength(v) = 0
      BY <2>5, <3>4
    <3>6. r.cut
      BY <3>1, <3>3
    <3>7. room >= 6
      BY <3>1, <3>3
    <3>8. PutTogether(v, t, off, off, r.bytes) > off
      <4> HIDE DEF off
      <4> QED BY <2>1, <2>2, <3>4, <3>5, <3>6, <3>7, PieceMovesOn
    <3> HIDE DEF v, off, from
    <3> QED BY <3>1, <3>2, <3>4, <3>8
  <2> QED BY <1>2, <2>4, <2>6
<1> QED BY <1>2, <1>3, <1>4, <1>5 DEF Next, SetAttr, vars

\* An application that asks for more, with room for two of the widest characters,
\* is never given nothing: its loop over SQLGetData ends (gd_offset_update).
THEOREM PieceAlwaysAdvances == Spec => []PieceAdvances
<1>1. Init => PieceAdvances
  BY DEF Init, Answer, PieceAdvances
<1> QED BY <1>1, GdInvariant, AdvancesInductive, PTL DEF Spec

-----------------------------------------------------------------------------
(* The pieces put together are the value (module Pieces).                  *)

Item == <<gd.col, gd.ctype>>
Total == IF IsPiece \/ last.answer = "no data" THEN Len(Shown(Being)) ELSE 0

\* What the actions of Pieces say of this module's state.
LEMMA Mapped ==
  /\ Whole!Init <=> /\ Item = <<-1, "none">> /\ Total = 0 /\ got = 0
                    /\ last.answer = "none" /\ ~spoilt
  /\ Whole!StartOver <=> /\ Item' = <<-1, "none">> /\ Total' = 0 /\ got' = 0
                         /\ last'.answer \in {"error", "none"}
  /\ Whole!WholeValue <=> /\ Item' # <<-1, "none">> /\ last'.answer = "fixed"
                          /\ (Item' = Item => last.answer = "fixed")
  /\ Whole!NoMoreData <=> /\ last.answer \in {"all", "no data"}
                          /\ last'.answer = "no data"
                          /\ UNCHANGED <<Item, Total, got>>
  /\ \A n : Whole!HandOver(n) <=>
       /\ got' \in n..Total'
       /\ \/ last'.answer = "all" /\ got' = Total'
          \/ last'.answer = "some" /\ (got' < Total' \/ Total' = 0)
  /\ Whole!FirstPiece <=> /\ Item' # Item /\ Item' # <<-1, "none">> /\ Total' \in Nat
                          /\ Whole!HandOver(0)
  /\ Whole!NextPiece <=> /\ Item # <<-1, "none">> /\ last.answer = "some"
                         /\ UNCHANGED <<Item, Total>> /\ Whole!HandOver(got)
  BY Zenon DEF Whole!Init, Whole!StartOver, Whole!WholeValue, Whole!NoMoreData,
               Whole!HandOver, Whole!FirstPiece, Whole!NextPiece, Item, Total

\* What StartOver asks for: a reset state maps to one in which nothing is read.
LEMMA ResetMapped ==
  ASSUME gd' = NoGd, got' = 0, NEW a \in {"none", "error"}, last' = Answer(a)
  PROVE  Whole!StartOver
<1>1. Item' = <<-1, "none">>
  BY DEF Item, NoGd
<1>2. last'.answer = a
  BY DEF Answer
<1>3. Total' = 0
  BY <1>2 DEF Total, IsPiece
<1> QED BY <1>1, <1>2, <1>3, Mapped

\* A number is handed over as a whole.
LEMMA FixedMapped ==
  ASSUME Inv, NEW c \in 0..Len(row), NEW t \in CTypes, NEW ind \in BOOLEAN,
         GetDataFixed(c, t, ind)
  PROVE  Whole!WholeValue
<1>1. /\ gd' = [col |-> c, ctype |-> t, offt |-> Offset(c, t)]
      /\ last' = Answer("fixed") /\ ~IsPieced(row[c], t)
  BY DEF GetDataFixed
<1>2. Item' = <<c, t>> /\ last'.answer = "fixed"
  BY <1>1 DEF Item, Answer
<1>3. Item' # <<-1, "none">>
  BY <1>2 DEF CTypes
<1>4. ASSUME Item' = Item PROVE last.answer = "fixed"
  <2>1. gd.col = c /\ gd.ctype = t
    BY <1>2, <1>4 DEF Item
  <2>2. gd # NoGd
    BY <2>1 DEF NoGd, CTypes
  <2> QED BY <1>1, <2>1, <2>2, Zenon DEF Inv, Reading
<1> QED BY <1>2, <1>3, <1>4, Mapped

\* After the last piece there is no more data.
LEMMA ExhaustedMapped ==
  ASSUME Inv, NEW c \in 0..Len(row), NEW t \in CTypes, GetDataExhausted(c, t)
  PROVE  Whole!NoMoreData \/ spoilt'
<1> SUFFICES ASSUME ~spoilt' PROVE Whole!NoMoreData
  OBVIOUS
<1>1. gd.col = c /\ gd.ctype = t /\ gd.offt = Exhausted
  BY DEF GetDataExhausted, Resuming
<1>2. last' = Answer("no data") /\ UNCHANGED <<row, gd, attr, got, spoilt>>
  BY DEF GetDataExhausted
<1>3. gd # NoGd
  BY <1>1 DEF NoGd, CTypes
<1>4. last.answer \in {"all", "no data"}
  <2>1. ~spoilt
    BY <1>2, Zenon
  <2>2. gd.offt # 0
    BY <1>1 DEF Exhausted
  <2>3. last.answer \in {"some", "all", "no data"} /\ last.answer # "some"
    BY <1>1, <1>3, <2>1, <2>2, Zenon DEF Inv, Reading
  <2> QED BY <2>3
<1>5. last'.answer = "no data"
  BY <1>2 DEF Answer
<1>6. Item' = Item /\ Total' = Total
  BY <1>2, <1>4, <1>5, Zenon DEF Item, Total, IsPiece, Being, Shown
<1> QED BY <1>2, <1>4, <1>5, <1>6, Mapped

\* A piece is the first, or the next one.
LEMMA PieceMapped ==
  ASSUME Inv, NEW c, NEW t \in CTypes, PieceRead(c, t), Available(c, t),
         IsPieced(row[c], t), ~spoilt'
  PROVE  Whole!FirstPiece \/ Whole!NextPiece
<1> DEFINE off == Offset(c, t)
           len == Length(c)
<1>1. PICK n, a, p : /\ ReadUpTo(c, t, n, a, p) /\ OffsetAfter(c, t, n, a)
                     /\ a \in {"some", "all"} /\ got' \in off..len
  BY Zenon DEF PieceRead
<1>2. c \in 1..Len(row) /\ off \in 0..len /\ len \in Nat /\ c # -1
  BY StartInValue, LengthType, ColumnRange DEF Inv
<1>3. gd'.col = c /\ gd'.ctype = t /\ last'.answer = a /\ row' = row
  BY <1>1 DEF ReadUpTo
<1>4. Item' = <<c, t>> /\ Item' # <<-1, "none">>
  BY <1>2, <1>3 DEF Item, CTypes
<1>5. Total' = len
  BY <1>1, <1>3, Zenon DEF Total, IsPiece, Being, Length
<1>6. \A k : k = off => Whole!HandOver(k)
  <2>1. (a = "some" <=> n # Exhausted) /\ got' = IF n = Exhausted THEN len ELSE n
    BY <1>1, Zenon DEF OffsetAfter
  <2>2. n \in {Exhausted} \cup (0..len) /\ (n <= 0 \/ n < len)
    BY <1>1, Zenon DEF OffsetAfter
  <2> HIDE DEF off, len
  <2>3. CASE a = "all"
    <3>1. got' = len
      BY <2>1, <2>3, Zenon
    <3> QED BY <1>1, <1>3, <1>5, <2>3, <3>1, Mapped, Zenon
  <2>4. CASE a = "some"
    <3>1. got' = n /\ n # Exhausted
      BY <2>1, <2>4, Zenon
    <3>2. got' < len \/ len = 0
      BY <1>2, <2>2, <3>1 DEF Exhausted
    <3> QED BY <1>1, <1>3, <1>5, <2>4, <3>2, Mapped, Zenon
  <2> QED BY <1>1, <2>3, <2>4
<1>7. CASE Resuming(c, t)
  <2>1. gd.col = c /\ gd.ctype = t /\ gd.offt # Exhausted /\ gd # NoGd
    BY <1>7 DEF Resuming, Available, NoGd, CTypes
  <2>2. Item = <<c, t>>
    BY <2>1 DEF Item
  <2>3. From(c, t) = off /\ From(c, t) = got
    BY <1>7, Zenon DEF PieceRead, From
  <2>4. ~spoilt
    <3>1. ~WasSpoilt(c, t)
      BY Zenon DEF PieceRead
    <3> QED BY <1>7, <3>1, Zenon DEF WasSpoilt
  <2>5. last.answer = "some"
    BY <2>1, <2>4, Zenon DEF Inv, Reading
  <2>6. Total = len
    BY <2>1, <2>5, Zenon DEF Total, IsPiece, Being, Length
  <2> QED BY <1>4, <1>5, <1>6, <2>2, <2>3, <2>5, <2>6, Mapped, Zenon
<1>8. CASE ~Resuming(c, t)
  <2>1. off = 0 /\ Item' # Item
    BY <1>4, <1>8 DEF Offset, Resuming, Item
  <2> QED BY <1>2, <1>4, <1>5, <1>6, <2>1, Mapped, Zenon
<1> QED BY <1>7, <1>8

\* No character is lost between two calls of SQLGetData, the return code tells
\* the last piece, and there is no data after it, for any values, buffers and
\* limits: EsSQLGetData implements module Pieces.
THEOREM PiecesKept == Spec => ImplementsPieces
<1>1. Init => Whole!Init
  <2> SUFFICES ASSUME Init PROVE Whole!Init
    OBVIOUS
  <2>1. gd = NoGd /\ last = Answer("none") /\ got = 0 /\ spoilt = FALSE
    BY DEF Init
  <2>2. Item = <<-1, "none">> /\ last.answer = "none"
    BY <2>1 DEF Item, NoGd, Answer
  <2>3. Total = 0
    BY <2>2 DEF Total, IsPiece
  <2> QED BY <2>1, <2>2, <2>3, Mapped, Zenon
<1>2. Inv /\ [Next]_vars => [Whole!Next]_Whole!vars
  <2> SUFFICES ASSUME Inv, [Next]_vars, ~spoilt'
               PROVE  \/ Whole!FirstPiece \/ Whole!NextPiece \/ Whole!NoMoreData
                      \/ Whole!WholeValue \/ Whole!StartOver \/ UNCHANGED Whole!vars
    BY Zenon DEF Whole!Next
  <2>1. CASE SetAttr \/ UNCHANGED vars
    <3>1. UNCHANGED <<row, gd, last, got, spoilt>>
      BY <2>1 DEF SetAttr, vars
    <3> QED BY <3>1, Zenon DEF Whole!vars, IsPiece, Being, Shown
  <2>2. CASE Fetch
    BY <2>2, ResetMapped DEF Fetch
  <2>3. Fails => Whole!StartOver
    BY ResetMapped DEF Fails
  <2>4. ASSUME NEW c \in 0..Len(row), NEW t \in CTypes, NEW room \in BufferLengths,
               GetDataPiece(c, t, room)
        PROVE  Whole!FirstPiece \/ Whole!NextPiece \/ Whole!StartOver
    <3>1. Available(c, t) /\ IsPieced(row[c], t)
      BY <2>4, Zenon DEF GetDataPiece
    <3> QED BY <2>3, <2>4, <3>1, PieceIsRead, PieceMapped
  <2> QED BY <2>1, <2>2, <2>3, <2>4, FixedMapped, ExhaustedMapped, Zenon
          DEF Next, GetDataRefused, GetDataFails
<1> QED BY <1>1, <1>2, GdInvariant, PTL DEF Spec, ImplementsPieces, Whole!Spec

=============================================================================
