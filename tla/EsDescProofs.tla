----------------------------- MODULE EsDescProofs -----------------------------
(***************************************************************************)
(* Proofs about EsDesc, for any number of columns, types, buffers and      *)
(* precisions.                                                             *)
(*                                                                         *)
(* Every operation on records is shown to disturb one column at most, and  *)
(* to leave it checked if it succeeds: first for a change of the count,    *)
(* then for one field, for a sequence of fields, and for SQLBindCol.  The  *)
(* same path then gives what it does to the columns as an application sees *)
(* them, and that the statement implements Bindings.                       *)
(***************************************************************************)
EXTENDS EsDesc, TLAPS, WellFoundedInduction

RecSeqs == {s \in Seq(Rec) : Len(s) <= MaxCount}
Outcomes == [recs : RecSeqs, ok : BOOLEAN]

\* Whether v is a value of field f.
Fits(f, v) ==
  /\ f = "CONCISE_TYPE" => v \in CTypes \cup {UnknownType}
  /\ f = "PRECISION" => v \in Int
  /\ f = "DATETIME_INTERVAL_CODE" => v \in BOOLEAN
  /\ f = "DATA_PTR" => v \in Bufs \cup {Null}

\* Records other than c's are those found, or new.
Spares(recs, c, s) ==
  \A i \in 1..Len(s) : i # c => s[i] = InitRec \/ (i <= Len(recs) /\ s[i] = recs[i])

Accepted(r) == r.data # Null => ConsistencyCheck(r)
ChecksOwn(c, o) == o.ok /\ c <= Len(o.recs) => Accepted(o.recs[c])

-----------------------------------------------------------------------------
(* Records.                                                                *)

LEMMA InitRecType == InitRec \in Rec /\ InitRec.data = Null
  BY DataAssumption DEF InitRec, Rec, LenPtrs

LEMMA DefPrecisionType == ASSUME NEW t \in DOMAIN DefPrecision PROVE DefPrecision[t] \in Int
  BY DEF DefPrecision

\* Setting any field but the data pointer gives a record that is not bound to a
\* data buffer.
LEMMA AssignType ==
  ASSUME NEW r \in Rec, NEW f, NEW v, Fits(f, v)
  PROVE  Assign(r, f, v) \in Rec /\ Assign(r, f, v).data = Null
<1> DEFINE u == [r EXCEPT !.data = Null]
<1>1. u \in Rec /\ u.data = Null
  BY DEF Rec
<1>2. CASE f = "CONCISE_TYPE"
  <2>1. v \in CTypes \cup {UnknownType}
    BY <1>2 DEF Fits
  <2> DEFINE p == IF v \in DOMAIN DefPrecision THEN DefPrecision[v] ELSE u.prec
  <2>2. p \in Int
    BY <1>1, DefPrecisionType DEF Rec
  <2>3. SetType(u, v) = [u EXCEPT !.ctype = v, !.agree = TRUE, !.prec = p]
    BY DEF SetType
  <2> HIDE DEF p, u
  <2>4. SetType(u, v) \in Rec /\ SetType(u, v).data = Null
    BY <1>1, <2>1, <2>2, <2>3 DEF Rec
  <2>5. Assign(r, f, v) = SetType(u, v)
    BY <1>2 DEF Assign, LenPtrs, u
  <2> QED BY <2>4, <2>5
<1>3. CASE f = "PRECISION"
  BY <1>3 DEF Assign, Fits, Rec
<1>4. CASE f = "DATETIME_INTERVAL_CODE"
  BY <1>4 DEF Assign, Fits, Rec
<1>5. CASE f \in LenPtrs
  BY <1>5 DEF Assign, LenPtrs, Rec
<1>6. CASE f \notin {"CONCISE_TYPE", "PRECISION", "DATETIME_INTERVAL_CODE"} \cup LenPtrs
  BY <1>1, <1>6 DEF Assign
<1> QED BY <1>2, <1>3, <1>4, <1>5, <1>6

-----------------------------------------------------------------------------
(* Changing the count.                                                     *)

LEMMA ResizedType ==
  ASSUME NEW recs \in RecSeqs, NEW n \in 0..MaxCount
  PROVE  /\ Resized(recs, n) \in RecSeqs /\ Len(Resized(recs, n)) = n
         /\ \A i \in 1..n : Resized(recs, n)[i] =
                              IF i <= Len(recs) THEN recs[i] ELSE InitRec
  BY CountsAssumption, InitRecType DEF Resized, RecSeqs

\* Whatever the count is set to, the records that stay are untouched.
LEMMA UpdateRecCountSpares ==
  ASSUME NEW recs \in RecSeqs, NEW n, NEW c, NEW o \in UpdateRecCount(recs, n)
  PROVE  o \in Outcomes /\ Spares(recs, c, o.recs)
         /\ (\A i \in 1..Len(o.recs) :
               o.recs[i] = InitRec \/ (i <= Len(recs) /\ o.recs[i] = recs[i]))
         /\ (o.ok => n \in 0..MaxCount /\ Len(o.recs) = n)
<1>1. CASE o = Out(recs, FALSE)
  <2>1. o.recs = recs /\ o.ok = FALSE /\ o \in Outcomes
    BY <1>1 DEF Out, Outcomes
  <2> QED BY <2>1 DEF Spares
<1>2. CASE n \in 0..MaxCount /\ o = Out(Resized(recs, n), TRUE)
  <2> DEFINE s == Resized(recs, n)
  <2>1. /\ s \in RecSeqs /\ Len(s) = n
        /\ \A i \in 1..n : s[i] = IF i <= Len(recs) THEN recs[i] ELSE InitRec
    BY <1>2, ResizedType
  <2> HIDE DEF s
  <2>2. o.recs = s /\ o.ok = TRUE /\ o \in Outcomes
    BY <1>2, <2>1 DEF Out, Outcomes, s
  <2> QED BY <1>2, <2>1, <2>2 DEF Spares
<1> QED BY <1>1, <1>2 DEF UpdateRecCount

LEMMA GetRecordSpares ==
  ASSUME NEW recs \in RecSeqs, NEW c \in Nat \ {0}, NEW o \in GetRecord(recs, c)
  PROVE  o \in Outcomes /\ Spares(recs, c, o.recs) /\ (o.ok => c <= Len(o.recs))
<1>1. CASE Len(recs) < c
  <2>1. o \in UpdateRecCount(recs, c)
    BY <1>1 DEF GetRecord
  <2>2. /\ o \in Outcomes /\ Spares(recs, c, o.recs)
        /\ o.ok => c \in 0..MaxCount /\ Len(o.recs) = c
    BY <2>1, UpdateRecCountSpares
  <2> QED BY <2>2
<1>2. CASE ~(Len(recs) < c)
  <2>1. o = Out(recs, TRUE)
    BY <1>2 DEF GetRecord
  <2>2. o.recs = recs /\ o \in Outcomes
    BY <2>1 DEF Out, Outcomes
  <2>3. c <= Len(recs)
    BY <1>2 DEF RecSeqs
  <2> QED BY <2>2, <2>3 DEF Spares
<1> QED BY <1>1, <1>2

-----------------------------------------------------------------------------
(* Setting fields.                                                         *)

LEMMA SparesTransitive ==
  ASSUME NEW r \in RecSeqs, NEW s \in RecSeqs, NEW t \in RecSeqs, NEW c,
         Spares(r, c, s), Spares(s, c, t)
  PROVE  Spares(r, c, t)
  BY DEF Spares, RecSeqs

LEMMA ReplaceSpares ==
  ASSUME NEW recs \in RecSeqs, NEW c \in 1..Len(recs), NEW r \in Rec
  PROVE  /\ [recs EXCEPT ![c] = r] \in RecSeqs
         /\ Len([recs EXCEPT ![c] = r]) = Len(recs)
         /\ [recs EXCEPT ![c] = r][c] = r
         /\ Spares(recs, c, [recs EXCEPT ![c] = r])
  BY DEF RecSeqs, Spares

LEMMA SetDataPtrSpares ==
  ASSUME NEW recs \in RecSeqs, NEW c \in 1..Len(recs), NEW v \in Bufs \cup {Null},
         NEW o \in SetDataPtr(recs, c, v)
  PROVE  o \in Outcomes /\ Spares(recs, c, o.recs) /\ ChecksOwn(c, o)
<1> DEFINE r == [recs[c] EXCEPT !.data = v]
           set == [recs EXCEPT ![c] = r]
<1>0. recs[c] \in Rec
  BY DEF RecSeqs
<1>1. r \in Rec /\ r.data = v
  BY <1>0 DEF Rec
<1>2. [recs EXCEPT ![c].data = v] = set
  OBVIOUS
<1>3. set \in RecSeqs /\ Len(set) = Len(recs) /\ set[c] = r /\ Spares(recs, c, set)
  BY <1>1, ReplaceSpares
<1> HIDE DEF r, set
<1>4. CASE v # Null
  <2>1. o = Out(set, ConsistencyCheck(set[c]))
    BY <1>2, <1>4 DEF SetDataPtr
  <2>2. ConsistencyCheck(set[c]) \in BOOLEAN
    BY <1>1, <1>3 DEF ConsistencyCheck, Rec
  <2> QED BY <1>3, <2>1, <2>2 DEF Out, Outcomes, ChecksOwn, Accepted
<1>5. CASE v = Null /\ ~RecIsBound(set[c]) /\ c = Len(set)
  <2>1. o \in UpdateRecCount(set, CountBound(set))
    BY <1>2, <1>5 DEF SetDataPtr
  <2>2. /\ o \in Outcomes /\ Spares(set, c, o.recs)
        /\ \A i \in 1..Len(o.recs) :
             o.recs[i] = InitRec \/ (i <= Len(set) /\ o.recs[i] = set[i])
    BY <1>3, <2>1, UpdateRecCountSpares
  <2>3. o.recs \in RecSeqs
    BY <2>2 DEF Outcomes
  <2>4. Spares(recs, c, o.recs)
    BY <1>3, <2>2, <2>3, SparesTransitive
  <2>5. c <= Len(o.recs) => o.recs[c] = InitRec \/ o.recs[c] = set[c]
    BY <2>2, <2>3 DEF RecSeqs
  <2>6. c <= Len(o.recs) => o.recs[c].data = Null
    BY <1>1, <1>3, <1>5, <2>5, InitRecType
  <2> QED BY <2>2, <2>4, <2>6 DEF ChecksOwn, Accepted
<1>6. CASE v = Null /\ ~(~RecIsBound(set[c]) /\ c = Len(set))
  <2>1. o = Out(set, TRUE)
    BY <1>2, <1>6 DEF SetDataPtr
  <2> QED BY <1>1, <1>3, <1>6, <2>1 DEF Out, Outcomes, ChecksOwn, Accepted
<1> QED BY <1>4, <1>5, <1>6

LEMMA SetRecFieldSpares ==
  ASSUME NEW recs \in RecSeqs, NEW c \in 1..Len(recs), NEW f, NEW v, Fits(f, v),
         NEW o \in SetRecField(recs, c, f, v)
  PROVE  o \in Outcomes /\ Spares(recs, c, o.recs) /\ ChecksOwn(c, o)
<1>1. CASE f = "DATA_PTR"
  BY <1>1, SetDataPtrSpares DEF SetRecField, Fits
<1>2. CASE f # "DATA_PTR"
  <2> DEFINE r == Assign(recs[c], f, v)
             set == [recs EXCEPT ![c] = r]
  <2>1. recs[c] \in Rec
    BY DEF RecSeqs
  <2>2. r \in Rec /\ r.data = Null
    BY <2>1, AssignType
  <2>3. [recs EXCEPT ![c] = Assign(@, f, v)] = set
    OBVIOUS
  <2>4. o = Out(set, f # "CONCISE_TYPE" \/ v # UnknownType)
    BY <1>2, <2>3 DEF SetRecField
  <2> HIDE DEF r
  <2>5. set \in RecSeqs /\ set[c] = r /\ Spares(recs, c, set)
    BY <2>2, ReplaceSpares
  <2> QED BY <2>2, <2>4, <2>5 DEF Out, Outcomes, ChecksOwn, Accepted
<1> QED BY <1>1, <1>2

LEMMA SetDescFieldSpares ==
  ASSUME NEW recs \in RecSeqs, NEW c \in Nat \ {0}, NEW f, NEW v, Fits(f, v),
         NEW o \in SetDescField(recs, c, f, v)
  PROVE  o \in Outcomes /\ Spares(recs, c, o.recs) /\ ChecksOwn(c, o)
<1>1. PICK p \in GetRecord(recs, c) :
        o \in (IF p.ok THEN SetRecField(p.recs, c, f, v) ELSE {p})
  BY DEF SetDescField
<1>2. p \in Outcomes /\ Spares(recs, c, p.recs) /\ (p.ok => c <= Len(p.recs))
  BY GetRecordSpares
<1>3. p.recs \in RecSeqs
  BY <1>2 DEF Outcomes
<1>4. CASE p.ok
  <2>1. c \in 1..Len(p.recs)
    BY <1>2, <1>3, <1>4 DEF RecSeqs
  <2>2. o \in SetRecField(p.recs, c, f, v)
    BY <1>1, <1>4
  <2>3. o \in Outcomes /\ Spares(p.recs, c, o.recs) /\ ChecksOwn(c, o)
    BY <1>3, <2>1, <2>2, SetRecFieldSpares
  <2>4. o.recs \in RecSeqs
    BY <2>3 DEF Outcomes
  <2> QED BY <1>2, <1>3, <2>3, <2>4, SparesTransitive
<1>5. CASE ~p.ok
  BY <1>1, <1>2, <1>5 DEF ChecksOwn
<1> QED BY <1>4, <1>5

\* A set of outcomes, each of which spares the other columns.
Spare(outs, recs, c) == \A o \in outs : o \in Outcomes /\ Spares(recs, c, o.recs)

LEMMA ThenSetSpares ==
  ASSUME NEW recs \in RecSeqs, NEW c \in Nat \ {0}, NEW f, NEW v, Fits(f, v),
         NEW outs, Spare(outs, recs, c), NEW o \in ThenSet(outs, c, f, v)
  PROVE  o \in Outcomes /\ Spares(recs, c, o.recs) /\ ChecksOwn(c, o)
<1>1. PICK p \in outs : o \in (IF p.ok THEN SetDescField(p.recs, c, f, v) ELSE {p})
  BY DEF ThenSet
<1>2. p \in Outcomes /\ p.recs \in RecSeqs /\ Spares(recs, c, p.recs)
  BY DEF Spare, Outcomes
<1>3. CASE p.ok
  <2>1. o \in SetDescField(p.recs, c, f, v)
    BY <1>1, <1>3
  <2>2. o \in Outcomes /\ Spares(p.recs, c, o.recs) /\ ChecksOwn(c, o)
    BY <1>2, <2>1, SetDescFieldSpares
  <2>3. o.recs \in RecSeqs
    BY <2>2 DEF Outcomes
  <2> QED BY <1>2, <2>2, <2>3, SparesTransitive
<1>4. CASE ~p.ok
  BY <1>1, <1>2, <1>4 DEF ChecksOwn
<1> QED BY <1>3, <1>4

LEMMA FieldsSetSpares ==
  ASSUME NEW recs \in RecSeqs, NEW c \in Nat \ {0}, NEW t \in CTypes \cup {UnknownType},
         NEW b \in Bufs \cup {Null}, NEW lens \in BOOLEAN,
         NEW o \in FieldsSet(recs, c, t, b, lens)
  PROVE  o \in Outcomes /\ Spares(recs, c, o.recs) /\ ChecksOwn(c, o)
<1> DEFINE got == GetRecord(recs, c)
           typed == ThenSet(got, c, "CONCISE_TYPE", t)
           sized == ThenSet(typed, c, "OCTET_LENGTH", 0)
           ind == ThenSet(sized, c, "INDICATOR_PTR", lens)
           len == ThenSet(ind, c, "OCTET_LENGTH_PTR", lens)
<1>1. o \in ThenSet(len, c, "DATA_PTR", b)
  BY DEF FieldsSet
<1>2. /\ Fits("CONCISE_TYPE", t) /\ Fits("OCTET_LENGTH", 0) /\ Fits("DATA_PTR", b)
      /\ Fits("INDICATOR_PTR", lens) /\ Fits("OCTET_LENGTH_PTR", lens)
  BY DEF Fits
<1>3. Spare(got, recs, c)
  BY GetRecordSpares DEF Spare
<1> HIDE DEF got
<1>4. Spare(typed, recs, c)
  BY <1>2, <1>3, ThenSetSpares DEF Spare
<1> HIDE DEF typed
<1>5. Spare(sized, recs, c)
  BY <1>2, <1>4, ThenSetSpares DEF Spare
<1> HIDE DEF sized
<1>6. Spare(ind, recs, c)
  BY <1>2, <1>5, ThenSetSpares DEF Spare
<1> HIDE DEF ind
<1>7. Spare(len, recs, c)
  BY <1>2, <1>6, ThenSetSpares DEF Spare
<1> HIDE DEF len
<1> QED BY <1>1, <1>2, <1>7, ThenSetSpares

\* SQLBindCol disturbs its own column only, and a success leaves a buffer that
\* was checked.
LEMMA BindRecSpares ==
  ASSUME NEW recs \in RecSeqs, NEW c \in Nat \ {0}, NEW t \in CTypes \cup {UnknownType},
         NEW b \in Bufs \cup {Null}, NEW lens \in BOOLEAN,
         NEW o \in BindRec(recs, c, t, b, lens)
  PROVE  o \in Outcomes /\ Spares(recs, c, o.recs) /\ ChecksOwn(c, o)
<1>1. PICK p \in FieldsSet(recs, c, t, b, lens) : o \in Restored(recs, c, p)
  BY DEF BindRec
<1>2. p \in Outcomes /\ Spares(recs, c, p.recs) /\ ChecksOwn(c, p)
  BY FieldsSetSpares
<1>3. CASE o = p
  BY <1>2, <1>3
<1>4. CASE \E q \in UpdateRecCount(p.recs, Len(recs)) : o = Out(q.recs, FALSE)
  <2>1. PICK q \in UpdateRecCount(p.recs, Len(recs)) : o = Out(q.recs, FALSE)
    BY <1>4
  <2>2. p.recs \in RecSeqs
    BY <1>2 DEF Outcomes
  <2>3. q \in Outcomes /\ Spares(p.recs, c, q.recs)
    BY <2>1, <2>2, UpdateRecCountSpares
  <2>4. q.recs \in RecSeqs
    BY <2>3 DEF Outcomes
  <2>5. Spares(recs, c, q.recs)
    BY <1>2, <2>2, <2>3, <2>4, SparesTransitive
  <2> QED BY <2>1, <2>4, <2>5 DEF Out, Outcomes, ChecksOwn
<1> QED BY <1>1, <1>3, <1>4 DEF Restored

-----------------------------------------------------------------------------
(* Bindings: what a call does to the columns as the application sees them. *)

\* The binding of a column, as ImplementsBindings maps it.
Bnd(recs, d) == IF d <= Len(recs) THEN Binding(recs[d]) ELSE NoBinding

\* Only c's binding may be another one.
OnlyOwn(recs, c, s) == \A d \in 1..MaxCount : d # c => Bnd(s, d) = Bnd(recs, d)

LEMMA InitRecBinding == Binding(InitRec) = NoBinding
  BY DEF Binding, RecIsBound, InitRec

\* Lowering the count unbinds what is above it, raising it binds nothing.
LEMMA ResizedBindings ==
  ASSUME NEW recs \in RecSeqs, NEW n \in 0..MaxCount, NEW d \in 1..MaxCount
  PROVE  Bnd(Resized(recs, n), d) = IF d <= n THEN Bnd(recs, d) ELSE NoBinding
<1> DEFINE s == Resized(recs, n)
<1>1. /\ Len(s) = n
      /\ \A i \in 1..n : s[i] = IF i <= Len(recs) THEN recs[i] ELSE InitRec
  BY ResizedType
<1>2. n \in Nat /\ d \in Nat \ {0}
  BY CountsAssumption
<1> HIDE DEF s
<1>3. CASE d <= n
  <2>1. s[d] = IF d <= Len(recs) THEN recs[d] ELSE InitRec
    BY <1>1, <1>2, <1>3
  <2> QED BY <1>1, <1>3, <2>1, InitRecBinding DEF Bnd, s
<1>4. CASE ~(d <= n)
  BY <1>1, <1>4 DEF Bnd, s
<1> QED BY <1>3, <1>4

\* The count is refused, or set; growing may fail.
LEMMA UpdateRecCountCases ==
  ASSUME NEW recs, NEW n, NEW o \in UpdateRecCount(recs, n)
  PROVE  \/ o = Out(recs, FALSE) /\ (n \notin 0..MaxCount \/ n > Len(recs))
         \/ o = Out(Resized(recs, n), TRUE) /\ n \in 0..MaxCount
<1>1. CASE n \notin 0..MaxCount
  <2>1. UpdateRecCount(recs, n) = {Out(recs, FALSE)}
    BY <1>1, Zenon DEF UpdateRecCount
  <2> QED BY <1>1, <2>1
<1>2. CASE n \in 0..MaxCount
  <2> DEFINE grown == Out(Resized(recs, n), TRUE)
             kept == Out(recs, FALSE)
  <2>1. UpdateRecCount(recs, n) = {grown} \cup (IF n > Len(recs) THEN {kept} ELSE {})
    BY <1>2, Zenon DEF UpdateRecCount
  <2> HIDE DEF grown, kept
  <2>2. o = grown \/ (n > Len(recs) /\ o = kept)
    BY <2>1
  <2> QED BY <1>2, <2>2 DEF grown, kept
<1> QED BY <1>1, <1>2

Before == {pair \in Nat \X Nat : pair[1] < pair[2]}

\* There is a highest record that is bound, or none (count_bound).
LEMMA HighestBound ==
  ASSUME NEW recs \in RecSeqs
  PROVE  LET n == CountBound(recs) IN
         /\ n \in 0..Len(recs) /\ (n > 0 => RecIsBound(recs[n]))
         /\ \A i \in (n + 1)..Len(recs) : ~RecIsBound(recs[i])
<1>0. Len(recs) \in Nat
  BY DEF RecSeqs
<1>1. \E n \in 0..Len(recs) :
        /\ n > 0 => RecIsBound(recs[n])
        /\ \A i \in (n + 1)..Len(recs) : ~RecIsBound(recs[i])
  <2> DEFINE above == {k \in 0..(Len(recs) - 1) : RecIsBound(recs[Len(recs) - k])}
  <2>1. CASE above = {}
    <3>1. ASSUME NEW i \in 1..Len(recs), RecIsBound(recs[i])
          PROVE  FALSE
      <4>1. Len(recs) - i \in 0..(Len(recs) - 1) /\ Len(recs) - (Len(recs) - i) = i
        BY <1>0
      <4> QED BY <2>1, <3>1, <4>1
    <3> QED BY <1>0, <3>1
  <2>2. CASE above # {}
    <3>1. IsWellFoundedOn(Before, Nat)
      BY NatLessThanWellFounded DEF OpToRel, Before
    <3>2. above \subseteq Nat
      BY <1>0
    <3>3. PICK k \in above : \A j \in above : <<j, k>> \notin Before
      BY <2>2, <3>1, <3>2, WFMin
    <3>4. k \in 0..(Len(recs) - 1) /\ RecIsBound(recs[Len(recs) - k])
      BY <3>3
    <3>5. ASSUME NEW i \in (Len(recs) - k + 1)..Len(recs), RecIsBound(recs[i])
          PROVE  FALSE
      <4>1. /\ Len(recs) - i \in 0..(Len(recs) - 1) /\ Len(recs) - i < k
            /\ Len(recs) - (Len(recs) - i) = i
        BY <1>0, <3>4
      <4>2. Len(recs) - i \in above
        BY <3>5, <4>1
      <4>3. <<Len(recs) - i, k>> \in Before
        BY <3>4, <4>1 DEF Before
      <4> QED BY <3>3, <4>2, <4>3
    <3>6. Len(recs) - k \in 0..Len(recs)
      BY <1>0, <3>4
    <3> QED BY <3>4, <3>5, <3>6
  <2> QED BY <2>1, <2>2
<1> QED BY <1>1 DEF CountBound

\* Setting the data pointer changes its own column; a trimming drops columns
\* that are not bound, down to one that is.
LEMMA SetDataPtrOwn ==
  ASSUME NEW recs \in RecSeqs, NEW c \in 1..Len(recs), NEW v \in Bufs \cup {Null},
         NEW o \in SetDataPtr(recs, c, v)
  PROVE  /\ OnlyOwn(recs, c, o.recs) /\ Len(o.recs) <= Len(recs)
         /\ o.ok => Bnd(o.recs, c) = Binding([recs[c] EXCEPT !.data = v])
         /\ ~RecIsBound([recs[c] EXCEPT !.data = v]) /\ v = Null /\ c = Len(recs) =>
              Len(o.recs) = 0 \/ RecIsBound(o.recs[Len(o.recs)])
<1> DEFINE r == [recs[c] EXCEPT !.data = v]
           set == [recs EXCEPT ![c] = r]
<1>0. recs[c] \in Rec /\ c \in Nat /\ Len(recs) \in Nat /\ Len(recs) <= MaxCount
  BY DEF RecSeqs
<1>1. r \in Rec /\ r.data = v
  BY <1>0 DEF Rec
<1>2. [recs EXCEPT ![c].data = v] = set
  OBVIOUS
<1>3. set \in RecSeqs /\ Len(set) = Len(recs) /\ set[c] = r
  BY <1>1, ReplaceSpares
<1>4. \A d \in 1..Len(recs) : d # c => set[d] = recs[d]
  OBVIOUS
<1> HIDE DEF r, set
<1>5. OnlyOwn(recs, c, set)
  BY <1>3, <1>4 DEF OnlyOwn, Bnd
<1>6. Bnd(set, c) = Binding(r)
  BY <1>0, <1>3 DEF Bnd
<1>7. CASE o.recs = set /\ (v # Null \/ ~(~RecIsBound(r) /\ c = Len(recs)))
  BY <1>0, <1>3, <1>5, <1>6, <1>7 DEF r
<1>8. CASE v = Null /\ ~RecIsBound(r) /\ c = Len(recs)
  <2> DEFINE n == CountBound(set)
  <2>1. /\ n \in 0..Len(set) /\ (n > 0 => RecIsBound(set[n]))
        /\ \A i \in (n + 1)..Len(set) : ~RecIsBound(set[i])
    BY <1>3, HighestBound
  <2>2. o \in UpdateRecCount(set, n)
    BY <1>2, <1>3, <1>8 DEF SetDataPtr
  <2> HIDE DEF n
  <2>3. n \in 0..MaxCount /\ n <= Len(set)
    BY <1>0, <1>3, <2>1, CountsAssumption
  <2>4. o = Out(Resized(set, n), TRUE)
    <3>1. ~(n \notin 0..MaxCount \/ n > Len(set))
      BY <1>0, <1>3, <2>3
    <3> QED BY <2>2, <3>1, UpdateRecCountCases
  <2>5. /\ o.recs = Resized(set, n) /\ Len(o.recs) = n
        /\ \A i \in 1..n : o.recs[i] = IF i <= Len(set) THEN set[i] ELSE InitRec
    BY <1>3, <2>3, <2>4, ResizedType DEF Out
  <2>6. \A d \in 1..MaxCount : Bnd(o.recs, d) = Bnd(set, d)
    <3> SUFFICES ASSUME NEW d \in 1..MaxCount PROVE Bnd(o.recs, d) = Bnd(set, d)
      OBVIOUS
    <3>1. Bnd(o.recs, d) = IF d <= n THEN Bnd(set, d) ELSE NoBinding
      BY <1>3, <2>3, <2>5, ResizedBindings
    <3>2. ASSUME ~(d <= n)
          PROVE  Bnd(set, d) = NoBinding
      <4>1. d <= Len(set) => ~RecIsBound(set[d])
        BY <1>0, <1>3, <2>1, <3>2, CountsAssumption
      <4> QED BY <4>1 DEF Bnd, Binding
    <3> QED BY <3>1, <3>2
  <2>7. n > 0 => RecIsBound(o.recs[n])
    BY <1>0, <1>3, <2>1, <2>5
  <2>8. c \in 1..MaxCount
    BY <1>0, CountsAssumption
  <2>9. OnlyOwn(recs, c, o.recs)
    BY <1>5, <2>6 DEF OnlyOwn
  <2>10. n \in Nat /\ n <= Len(recs)
    BY <1>0, <1>3, <2>1
  <2> QED BY <1>6, <2>5, <2>6, <2>7, <2>8, <2>9, <2>10 DEF r
<1>9. CASE v # Null
  <2>1. o = Out(set, ConsistencyCheck(set[c]))
    BY <1>2, <1>9 DEF SetDataPtr
  <2>2. o.recs = set
    BY <2>1 DEF Out
  <2> QED BY <1>7, <1>9, <2>2
<1>10. CASE v = Null /\ ~(~RecIsBound(r) /\ c = Len(recs))
  <2>1. o = Out(set, TRUE)
    BY <1>2, <1>3, <1>10 DEF SetDataPtr
  <2>2. o.recs = set
    BY <2>1 DEF Out
  <2> QED BY <1>7, <1>10, <2>2
<1> QED BY <1>8, <1>9, <1>10

\* Any other field changes nothing but its record.
LEMMA SetAttribute ==
  ASSUME NEW recs \in RecSeqs, NEW c \in 1..Len(recs), NEW f, f # "DATA_PTR",
         NEW v, Fits(f, v), NEW o \in SetRecField(recs, c, f, v)
  PROVE  /\ o.recs \in RecSeqs /\ o.ok \in BOOLEAN
         /\ Len(o.recs) = Len(recs) /\ o.recs[c] = Assign(recs[c], f, v)
         /\ OnlyOwn(recs, c, o.recs)
<1> DEFINE r == Assign(recs[c], f, v)
           set == [recs EXCEPT ![c] = r]
<1>1. r \in Rec
  BY AssignType DEF RecSeqs
<1>2. [recs EXCEPT ![c] = Assign(@, f, v)] = set
  OBVIOUS
<1>3. o.recs = set /\ o.ok = (f # "CONCISE_TYPE" \/ v # UnknownType)
  BY <1>2 DEF SetRecField, Out
<1> HIDE DEF r
<1>4. set \in RecSeqs /\ Len(set) = Len(recs) /\ set[c] = r
  BY <1>1, ReplaceSpares
<1>5. \A d \in 1..Len(recs) : d # c => set[d] = recs[d]
  OBVIOUS
<1> HIDE DEF set
<1>6. OnlyOwn(recs, c, set)
  BY <1>4, <1>5 DEF OnlyOwn, Bnd
<1> QED BY <1>3, <1>4, <1>6 DEF r

\* Getting a record binds nothing, and lengthens the records up to it at most.
LEMMA GetRecordOwn ==
  ASSUME NEW recs \in RecSeqs, NEW c \in Nat \ {0}, NEW o \in GetRecord(recs, c)
  PROVE  /\ o \in Outcomes /\ OnlyOwn(recs, c, o.recs)
         /\ c <= Len(recs) => o.ok /\ o.recs = recs
         /\ o.ok => Len(o.recs) = IF c <= Len(recs) THEN Len(recs) ELSE c
         /\ ~o.ok => o.recs = recs
<1>0. o \in Outcomes /\ Len(recs) \in Nat
  BY GetRecordSpares DEF RecSeqs
<1>1. CASE c <= Len(recs)
  <2>1. ~(Len(recs) < c)
    BY <1>0, <1>1
  <2>2. o = Out(recs, TRUE)
    BY <2>1 DEF GetRecord
  <2> QED BY <1>0, <1>1, <2>2 DEF Out, OnlyOwn
<1>2. CASE ~(c <= Len(recs)) /\ o = Out(recs, FALSE)
  BY <1>0, <1>2 DEF Out, OnlyOwn
<1>3. CASE ~(c <= Len(recs)) /\ c \in 0..MaxCount /\ o = Out(Resized(recs, c), TRUE)
  <2>1. Len(Resized(recs, c)) = c /\ o.recs = Resized(recs, c) /\ o.ok = TRUE
    BY <1>3, ResizedType DEF Out
  <2>2. ASSUME NEW d \in 1..MaxCount PROVE Bnd(o.recs, d) = Bnd(recs, d)
    <3>1. Bnd(o.recs, d) = IF d <= c THEN Bnd(recs, d) ELSE NoBinding
      BY <1>3, <2>1, ResizedBindings
    <3>2. ~(d <= c) => ~(d <= Len(recs))
      BY <1>0, <1>3, CountsAssumption
    <3> QED BY <3>1, <3>2 DEF Bnd
  <2> QED BY <1>0, <1>3, <2>1, <2>2 DEF OnlyOwn
<1>4. \/ c <= Len(recs)
      \/ ~(c <= Len(recs)) /\ o = Out(recs, FALSE)
      \/ ~(c <= Len(recs)) /\ c \in 0..MaxCount /\ o = Out(Resized(recs, c), TRUE)
  <2>1. CASE Len(recs) < c
    <3>1. o \in UpdateRecCount(recs, c)
      BY <2>1 DEF GetRecord
    <3>2. ~(c <= Len(recs))
      BY <1>0, <2>1
    <3>3. \/ o = Out(recs, FALSE)
          \/ o = Out(Resized(recs, c), TRUE) /\ c \in 0..MaxCount
      BY <3>1, UpdateRecCountCases
    <3> QED BY <3>2, <3>3
  <2>2. CASE ~(Len(recs) < c)
    <3>1. c \in Nat
      OBVIOUS
    <3>2. c <= Len(recs)
      BY <1>0, <2>2, <3>1
    <3> QED BY <3>2
  <2> QED BY <2>1, <2>2
<1> QED BY <1>1, <1>2, <1>3, <1>4

LEMMA OnlyOwnTransitive ==
  ASSUME NEW r, NEW s, NEW t, NEW c, OnlyOwn(r, c, s), OnlyOwn(s, c, t)
  PROVE  OnlyOwn(r, c, t)
  BY DEF OnlyOwn

\* SQLSetDescField changes its own column's binding only.
LEMMA SetDescFieldOwn ==
  ASSUME NEW recs \in RecSeqs, NEW c \in Nat \ {0}, NEW f, NEW v, Fits(f, v),
         NEW o \in SetDescField(recs, c, f, v)
  PROVE  OnlyOwn(recs, c, o.recs) /\ (o.ok => c <= MaxCount)
<1>1. PICK p \in GetRecord(recs, c) :
        o \in (IF p.ok THEN SetRecField(p.recs, c, f, v) ELSE {p})
  BY DEF SetDescField
<1>2. /\ p \in Outcomes /\ OnlyOwn(recs, c, p.recs)
      /\ p.ok => Len(p.recs) = IF c <= Len(recs) THEN Len(recs) ELSE c
  BY GetRecordOwn
<1>3. CASE p.ok
  <2>1. p.recs \in RecSeqs
    BY <1>2 DEF Outcomes
  <2>2. c \in 1..Len(p.recs) /\ c <= MaxCount
    BY <1>2, <1>3, <2>1, CountsAssumption DEF RecSeqs
  <2>3. o \in SetRecField(p.recs, c, f, v)
    BY <1>1, <1>3
  <2>4. OnlyOwn(p.recs, c, o.recs)
    <3>1. CASE f = "DATA_PTR"
      <4>1. o \in SetDataPtr(p.recs, c, v) /\ v \in Bufs \cup {Null}
        BY <2>3, <3>1 DEF SetRecField, Fits
      <4> QED BY <2>1, <2>2, <4>1, SetDataPtrOwn
    <3>2. CASE f # "DATA_PTR"
      BY <2>1, <2>2, <2>3, <3>2, SetAttribute
    <3> QED BY <3>1, <3>2
  <2> QED BY <1>2, <2>2, <2>4, OnlyOwnTransitive
<1>4. CASE ~p.ok
  BY <1>1, <1>2, <1>4
<1> QED BY <1>3, <1>4

\* What is known of SQLBindCol after each field but the last: the other columns'
\* bindings are those found, and the records reach up to its own.
Stage(recs, c, o) ==
  /\ o \in Outcomes /\ OnlyOwn(recs, c, o.recs)
  /\ c <= Len(recs) => Len(o.recs) = Len(recs)
  /\ o.ok => Len(o.recs) = IF c <= Len(recs) THEN Len(recs) ELSE c

\* The next field: it is set in the record that the fields before it left.
LEMMA ThenField ==
  ASSUME NEW recs \in RecSeqs, NEW c \in Nat \ {0}, NEW f, NEW v,
         NEW outs, \A p \in outs : Stage(recs, c, p), NEW o \in ThenSet(outs, c, f, v)
  PROVE  \/ o \in outs /\ ~o.ok
         \/ \E p \in outs : p.ok /\ c \in 1..Len(p.recs) /\ o \in SetRecField(p.recs, c, f, v)
<1>1. PICK p \in outs : o \in (IF p.ok THEN SetDescField(p.recs, c, f, v) ELSE {p})
  BY DEF ThenSet
<1>2. CASE ~p.ok
  BY <1>1, <1>2
<1>3. CASE p.ok
  <2>1. p.recs \in RecSeqs /\ Len(p.recs) \in Nat /\ Len(recs) \in Nat
    BY DEF Stage, Outcomes, RecSeqs
  <2>2. c \in 1..Len(p.recs)
    BY <1>3, <2>1 DEF Stage
  <2>3. PICK q \in GetRecord(p.recs, c) :
          o \in (IF q.ok THEN SetRecField(q.recs, c, f, v) ELSE {q})
    BY <1>1, <1>3 DEF SetDescField
  <2>4. q.ok /\ q.recs = p.recs
    BY <2>1, <2>2, <2>3, GetRecordOwn
  <2> QED BY <1>3, <2>2, <2>3, <2>4
<1> QED BY <1>2, <1>3

LEMMA ThenAttribute ==
  ASSUME NEW recs \in RecSeqs, NEW c \in Nat \ {0}, NEW f, f # "DATA_PTR",
         NEW v, Fits(f, v), NEW outs, \A p \in outs : Stage(recs, c, p),
         NEW o \in ThenSet(outs, c, f, v)
  PROVE  /\ Stage(recs, c, o)
         /\ o.ok => /\ o.recs[c] \in Rec
                    /\ \E p \in outs : /\ p.ok /\ p.recs[c] \in Rec
                                       /\ o.recs[c] = Assign(p.recs[c], f, v)
<1>1. CASE o \in outs /\ ~o.ok
  BY <1>1
<1>2. CASE \E p \in outs :
             p.ok /\ c \in 1..Len(p.recs) /\ o \in SetRecField(p.recs, c, f, v)
  <2>1. PICK p \in outs :
          p.ok /\ c \in 1..Len(p.recs) /\ o \in SetRecField(p.recs, c, f, v)
    BY <1>2
  <2>2. p.recs \in RecSeqs /\ OnlyOwn(recs, c, p.recs)
    BY DEF Stage, Outcomes
  <2>3. /\ o.recs \in RecSeqs /\ o.ok \in BOOLEAN /\ Len(o.recs) = Len(p.recs)
        /\ o.recs[c] = Assign(p.recs[c], f, v) /\ OnlyOwn(p.recs, c, o.recs)
    BY <2>1, <2>2, SetAttribute
  <2>4. o \in Outcomes
    BY <2>1, <2>2, SetRecFieldSpares
  <2>5. p.recs[c] \in Rec /\ o.recs[c] \in Rec
    BY <2>1, <2>2, <2>3 DEF RecSeqs
  <2>6. OnlyOwn(recs, c, o.recs)
    BY <2>2, <2>3, OnlyOwnTransitive
  <2>7. Stage(recs, c, o)
    BY <2>1, <2>3, <2>4, <2>6 DEF Stage
  <2> QED BY <2>1, <2>3, <2>5, <2>7
<1> QED BY <1>1, <1>2, ThenField

\* What each field of SQLBindCol leaves in the record.
LEMMA AssignedType ==
  ASSUME NEW r \in Rec, NEW t \in CTypes \cup {UnknownType}
  PROVE  Assign(r, "CONCISE_TYPE", t).ctype = t
<1> DEFINE u == [r EXCEPT !.data = Null]
           p == IF t \in DOMAIN DefPrecision THEN DefPrecision[t] ELSE u.prec
<1>1. u \in Rec
  BY DEF Rec
<1>2. Assign(r, "CONCISE_TYPE", t) = SetType(u, t)
  BY Zenon DEF Assign, LenPtrs
<1>3. SetType(u, t) = [u EXCEPT !.ctype = t, !.agree = TRUE, !.prec = p]
  BY DEF SetType
<1> HIDE DEF u, p
<1> QED BY <1>1, <1>2, <1>3 DEF Rec

LEMMA AssignedLength ==
  ASSUME NEW r \in Rec
  PROVE  Assign(r, "OCTET_LENGTH", 0).ctype = r.ctype
  BY DEF Assign, LenPtrs, Rec

LEMMA AssignedLens ==
  ASSUME NEW r \in Rec, NEW f \in LenPtrs, NEW v \in BOOLEAN
  PROVE  /\ Assign(r, f, v).ctype = r.ctype
         /\ v => Assign(r, f, v).lens = r.lens \cup {f}
         /\ ~v => Assign(r, f, v).lens = r.lens \ {f}
<1>1. f \notin {"CONCISE_TYPE", "PRECISION", "DATETIME_INTERVAL_CODE"}
  BY DEF LenPtrs
<1> DEFINE u == [r EXCEPT !.data = Null]
           l == IF v THEN u.lens \cup {f} ELSE u.lens \ {f}
<1>2. u \in Rec /\ u.ctype = r.ctype /\ u.lens = r.lens
  BY DEF Rec
<1>3. Assign(r, f, v) = [u EXCEPT !.lens = l]
  BY <1>1 DEF Assign
<1>4. (v => l = r.lens \cup {f}) /\ (~v => l = r.lens \ {f})
  BY <1>2
<1> HIDE DEF u, l
<1> QED BY <1>2, <1>3, <1>4 DEF Rec

\* The records before SQLBindCol's last field: its own holds the type and the
\* length pointers asked for.
LEMMA FieldsButLast ==
  ASSUME NEW recs \in RecSeqs, NEW c \in Nat \ {0}, NEW t \in CTypes \cup {UnknownType},
         NEW lens \in BOOLEAN,
         NEW o \in ThenSet(ThenSet(ThenSet(ThenSet(GetRecord(recs, c), c, "CONCISE_TYPE", t),
                                           c, "OCTET_LENGTH", 0),
                                   c, "INDICATOR_PTR", lens),
                           c, "OCTET_LENGTH_PTR", lens)
  PROVE  /\ Stage(recs, c, o)
         /\ o.ok => /\ o.recs[c] \in Rec /\ o.recs[c].ctype = t
                    /\ o.recs[c].lens = IF lens THEN LenPtrs ELSE {}
<1> DEFINE got == GetRecord(recs, c)
           typed == ThenSet(got, c, "CONCISE_TYPE", t)
           sized == ThenSet(typed, c, "OCTET_LENGTH", 0)
           ind == ThenSet(sized, c, "INDICATOR_PTR", lens)
           len == ThenSet(ind, c, "OCTET_LENGTH_PTR", lens)
<1>1. /\ Fits("CONCISE_TYPE", t) /\ Fits("OCTET_LENGTH", 0)
      /\ Fits("INDICATOR_PTR", lens) /\ Fits("OCTET_LENGTH_PTR", lens)
  BY DEF Fits
<1>2. o \in len
  OBVIOUS
<1>3. \A p \in got : Stage(recs, c, p)
  BY GetRecordOwn DEF Stage
<1> HIDE DEF got
<1>4. ASSUME NEW p \in typed
      PROVE  /\ Stage(recs, c, p)
             /\ p.ok => p.recs[c] \in Rec /\ p.recs[c].ctype = t
  <2>1. /\ Stage(recs, c, p)
        /\ p.ok => /\ p.recs[c] \in Rec
                   /\ \E q \in got : /\ q.ok /\ q.recs[c] \in Rec
                                     /\ p.recs[c] = Assign(q.recs[c], "CONCISE_TYPE", t)
    BY <1>1, <1>3, <1>4, ThenAttribute
  <2> QED BY <2>1, AssignedType
<1> HIDE DEF typed
<1>5. ASSUME NEW p \in sized
      PROVE  /\ Stage(recs, c, p)
             /\ p.ok => p.recs[c] \in Rec /\ p.recs[c].ctype = t
  <2>1. /\ Stage(recs, c, p)
        /\ p.ok => /\ p.recs[c] \in Rec
                   /\ \E q \in typed : /\ q.ok /\ q.recs[c] \in Rec
                                       /\ p.recs[c] = Assign(q.recs[c], "OCTET_LENGTH", 0)
    BY <1>1, <1>4, <1>5, ThenAttribute
  <2> QED BY <1>4, <2>1, AssignedLength
<1> HIDE DEF sized
<1>6. ASSUME NEW p \in ind
      PROVE  /\ Stage(recs, c, p)
             /\ p.ok => /\ p.recs[c] \in Rec /\ p.recs[c].ctype = t
                        /\ lens => "INDICATOR_PTR" \in p.recs[c].lens
                        /\ ~lens => "INDICATOR_PTR" \notin p.recs[c].lens
  <2>1. /\ Stage(recs, c, p)
        /\ p.ok => /\ p.recs[c] \in Rec
                   /\ \E q \in sized : /\ q.ok /\ q.recs[c] \in Rec
                                       /\ p.recs[c] = Assign(q.recs[c], "INDICATOR_PTR", lens)
    BY <1>1, <1>5, <1>6, ThenAttribute
  <2>2. "INDICATOR_PTR" \in LenPtrs
    BY DEF LenPtrs
  <2>3. ASSUME NEW q \in sized, q.ok, q.recs[c] \in Rec,
               p.recs[c] = Assign(q.recs[c], "INDICATOR_PTR", lens)
        PROVE  /\ p.recs[c].ctype = t
               /\ lens => "INDICATOR_PTR" \in p.recs[c].lens
               /\ ~lens => "INDICATOR_PTR" \notin p.recs[c].lens
    <3>1. q.recs[c].ctype = t
      BY <1>5, <2>3
    <3>2. /\ p.recs[c].ctype = q.recs[c].ctype
          /\ lens => p.recs[c].lens = q.recs[c].lens \cup {"INDICATOR_PTR"}
          /\ ~lens => p.recs[c].lens = q.recs[c].lens \ {"INDICATOR_PTR"}
      BY <2>2, <2>3, AssignedLens
    <3> QED BY <3>1, <3>2
  <2> QED BY <2>1, <2>3
<1> HIDE DEF ind
<1>7. /\ Stage(recs, c, o)
      /\ o.ok => /\ o.recs[c] \in Rec
                 /\ \E q \in ind : /\ q.ok /\ q.recs[c] \in Rec
                                   /\ o.recs[c] = Assign(q.recs[c], "OCTET_LENGTH_PTR", lens)
  BY <1>1, <1>2, <1>6, ThenAttribute
<1>8. ASSUME o.ok
      PROVE  /\ o.recs[c] \in Rec /\ o.recs[c].ctype = t
             /\ o.recs[c].lens = IF lens THEN LenPtrs ELSE {}
  <2>1. PICK q \in ind : /\ q.ok /\ q.recs[c] \in Rec
                         /\ o.recs[c] = Assign(q.recs[c], "OCTET_LENGTH_PTR", lens)
    BY <1>7, <1>8
  <2>2. /\ q.recs[c].ctype = t
        /\ lens => "INDICATOR_PTR" \in q.recs[c].lens
        /\ ~lens => "INDICATOR_PTR" \notin q.recs[c].lens
    BY <1>6, <2>1
  <2>3. "OCTET_LENGTH_PTR" \in LenPtrs
    BY DEF LenPtrs
  <2>4. /\ o.recs[c].ctype = t
        /\ lens => o.recs[c].lens = q.recs[c].lens \cup {"OCTET_LENGTH_PTR"}
        /\ ~lens => o.recs[c].lens = q.recs[c].lens \ {"OCTET_LENGTH_PTR"}
    BY <2>1, <2>2, <2>3, AssignedLens
  <2>5. q.recs[c].lens \subseteq {"INDICATOR_PTR", "OCTET_LENGTH_PTR"}
    BY <2>1 DEF Rec, LenPtrs
  <2> QED BY <1>7, <1>8, <2>2, <2>4, <2>5 DEF LenPtrs
<1> QED BY <1>7, <1>8

\* The records end at a bound one, if there are any.
Trimmed(recs) == Len(recs) = 0 \/ RecIsBound(recs[Len(recs)])

LEMMA AskedBinding ==
  ASSUME NEW r \in Rec, NEW c, NEW b \in Bufs \cup {Null}, NEW lens \in BOOLEAN,
         r.lens = IF lens THEN LenPtrs ELSE {}
  PROVE  /\ Binding([r EXCEPT !.data = b]) = Binding(Asked(c, r.ctype, b, lens))
         /\ RecIsBound([r EXCEPT !.data = b]) = RecIsBound(Asked(c, r.ctype, b, lens))
         /\ ~RecIsBound(Asked(c, r.ctype, b, lens)) => b = Null
<1> DEFINE u == [r EXCEPT !.data = b]
           w == Asked(c, r.ctype, b, lens)
<1>1. u.data = b /\ u.ctype = r.ctype /\ u.lens = r.lens
  BY DEF Rec
<1>2. w.data = b /\ w.ctype = r.ctype /\ w.lens = r.lens
  BY DEF Asked, InitRec
<1> HIDE DEF u, w
<1>3. RecIsBound(u) = RecIsBound(w)
  BY <1>1, <1>2 DEF RecIsBound
<1>4. Binding(u) = Binding(w)
  BY <1>1, <1>2, <1>3 DEF Binding
<1>5. ~RecIsBound(w) => b = Null
  BY <1>2 DEF RecIsBound
<1> QED BY <1>3, <1>4, <1>5 DEF u, w

\* A call that was asked to bind c as in record want did so, and left other
\* columns alone; what it unbound at the end was trimmed.
BoundAs(recs, c, want, o) ==
  /\ o \in Outcomes /\ OnlyOwn(recs, c, o.recs)
  /\ o.ok => c <= MaxCount /\ Bnd(o.recs, c) = Binding(want)
  /\ o.ok /\ c >= Len(recs) /\ ~RecIsBound(want) => Trimmed(o.recs)

\* All of SQLBindCol's fields: a success binds as asked, and unbinding the
\* highest column trims the records.
LEMMA FieldsSetOwn ==
  ASSUME NEW recs \in RecSeqs, NEW c \in Nat \ {0}, NEW t \in CTypes \cup {UnknownType},
         NEW b \in Bufs \cup {Null}, NEW lens \in BOOLEAN,
         NEW o \in FieldsSet(recs, c, t, b, lens)
  PROVE  /\ BoundAs(recs, c, Asked(c, t, b, lens), o)
         /\ c <= Len(recs) => Len(o.recs) <= Len(recs)
<1> DEFINE want == Asked(c, t, b, lens)
<1> DEFINE len == ThenSet(ThenSet(ThenSet(ThenSet(GetRecord(recs, c), c, "CONCISE_TYPE", t),
                                          c, "OCTET_LENGTH", 0),
                                  c, "INDICATOR_PTR", lens),
                          c, "OCTET_LENGTH_PTR", lens)
<1>1. o \in ThenSet(len, c, "DATA_PTR", b)
  BY DEF FieldsSet
<1>2. \A p \in len : /\ Stage(recs, c, p)
                     /\ p.ok => /\ p.recs[c] \in Rec /\ p.recs[c].ctype = t
                                /\ p.recs[c].lens = IF lens THEN LenPtrs ELSE {}
  BY FieldsButLast
<1> HIDE DEF len
<1>3. o \in Outcomes /\ Len(recs) \in Nat
  BY FieldsSetSpares DEF RecSeqs
<1>4. CASE o \in len /\ ~o.ok
  <2>1. Stage(recs, c, o)
    BY <1>2, <1>4
  <2> HIDE DEF want
  <2> QED BY <1>3, <1>4, <2>1 DEF Stage, BoundAs, want
<1>5. CASE \E p \in len :
             p.ok /\ c \in 1..Len(p.recs) /\ o \in SetRecField(p.recs, c, "DATA_PTR", b)
  <2>1. PICK p \in len :
          p.ok /\ c \in 1..Len(p.recs) /\ o \in SetRecField(p.recs, c, "DATA_PTR", b)
    BY <1>5
  <2>2. /\ Stage(recs, c, p) /\ p.recs[c] \in Rec /\ p.recs[c].ctype = t
        /\ p.recs[c].lens = IF lens THEN LenPtrs ELSE {}
    BY <1>2, <2>1
  <2>3. o \in SetDataPtr(p.recs, c, b)
    BY <2>1 DEF SetRecField
  <2>4. p.recs \in RecSeqs /\ Len(p.recs) \in Nat /\ Len(p.recs) <= MaxCount
    BY <2>2 DEF Stage, Outcomes, RecSeqs
  <2>5. /\ OnlyOwn(p.recs, c, o.recs) /\ Len(o.recs) <= Len(p.recs)
        /\ o.ok => Bnd(o.recs, c) = Binding([p.recs[c] EXCEPT !.data = b])
        /\ ~RecIsBound([p.recs[c] EXCEPT !.data = b]) /\ b = Null /\ c = Len(p.recs)
             => Trimmed(o.recs)
    BY <2>1, <2>3, <2>4, SetDataPtrOwn DEF Trimmed
  <2>6. /\ Binding([p.recs[c] EXCEPT !.data = b]) = Binding(want)
        /\ RecIsBound([p.recs[c] EXCEPT !.data = b]) = RecIsBound(want)
        /\ ~RecIsBound(want) => b = Null
    BY <2>2, AskedBinding
  <2>7. OnlyOwn(recs, c, o.recs)
    BY <2>2, <2>5, OnlyOwnTransitive DEF Stage
  <2>8. c <= Len(recs) => Len(o.recs) <= Len(recs)
    BY <2>2, <2>5 DEF Stage
  <2>9. c <= MaxCount
    BY <2>1, <2>4, CountsAssumption
  <2>10. c >= Len(recs) => c = Len(p.recs)
    BY <1>3, <2>1, <2>2, <2>4 DEF Stage
  <2> HIDE DEF want
  <2>11. BoundAs(recs, c, want, o)
    BY <1>3, <2>5, <2>6, <2>7, <2>9, <2>10 DEF BoundAs
  <2> QED BY <2>8, <2>11 DEF want
<1>6. (o \in len /\ ~o.ok)
      \/ \E p \in len :
           p.ok /\ c \in 1..Len(p.recs) /\ o \in SetRecField(p.recs, c, "DATA_PTR", b)
  BY <1>1, <1>2, ThenField
<1> QED BY <1>4, <1>5, <1>6

\* SQLBindCol changes its own column's binding only; a success binds as asked
\* and a failure gives the count back, unless it was 0.
LEMMA BindRecOwn ==
  ASSUME NEW recs \in RecSeqs, NEW c \in Nat \ {0}, NEW t \in CTypes \cup {UnknownType},
         NEW b \in Bufs \cup {Null}, NEW lens \in BOOLEAN,
         NEW o \in BindRec(recs, c, t, b, lens)
  PROVE  /\ BoundAs(recs, c, Asked(c, t, b, lens), o)
         /\ ~o.ok /\ Len(recs) > 0 => Len(o.recs) <= Len(recs)
<1> DEFINE want == Asked(c, t, b, lens)
<1>1. Len(recs) \in 0..MaxCount /\ Len(recs) \in Nat /\ o \in Outcomes
  <2>1. o \in Outcomes
    BY BindRecSpares
  <2> QED BY <2>1, CountsAssumption DEF RecSeqs
<1>2. PICK p \in FieldsSet(recs, c, t, b, lens) : o \in Restored(recs, c, p)
  BY DEF BindRec
<1>3. BoundAs(recs, c, want, p) /\ (c <= Len(recs) => Len(p.recs) <= Len(recs))
  BY FieldsSetOwn
<1> HIDE DEF want
<1>4. /\ p \in Outcomes /\ p.recs \in RecSeqs /\ Len(p.recs) \in Nat
      /\ OnlyOwn(recs, c, p.recs)
  BY <1>3 DEF BoundAs, Outcomes, RecSeqs
<1>5. \A m, n \in Nat : n > m => m <= n
  OBVIOUS
<1>6. CASE ~(~p.ok /\ Len(recs) \in 1..(c - 1))
  <2>1. o = p
    BY <1>2, <1>6 DEF Restored
  <2>2. ~o.ok /\ Len(recs) > 0 => c <= Len(recs)
    BY <1>1, <1>6, <2>1
  <2> QED BY <1>3, <2>1, <2>2 DEF want
<1>7. CASE ~p.ok /\ Len(recs) \in 1..(c - 1)
  <2>1. PICK q \in UpdateRecCount(p.recs, Len(recs)) : o = Out(q.recs, FALSE)
    BY <1>2, <1>7 DEF Restored
  <2>2. o.recs = q.recs /\ o.ok = FALSE
    BY <2>1 DEF Out
  <2>3. Len(o.recs) <= Len(recs) /\ OnlyOwn(recs, c, o.recs)
    <3>1. CASE q = Out(p.recs, FALSE) /\ Len(recs) > Len(p.recs)
      <4>1. Len(recs) > Len(p.recs) /\ o.recs = p.recs
        BY <2>2, <3>1 DEF Out
      <4> QED BY <1>1, <1>4, <1>5, <4>1
    <3>2. CASE q = Out(Resized(p.recs, Len(recs)), TRUE)
      <4>1. q.recs = Resized(p.recs, Len(recs)) /\ Len(q.recs) = Len(recs)
        BY <1>1, <1>4, <3>2, ResizedType DEF Out
      <4>2. ASSUME NEW d \in 1..MaxCount, d # c
            PROVE  Bnd(q.recs, d) = Bnd(recs, d)
        <5>1. Bnd(q.recs, d) = IF d <= Len(recs) THEN Bnd(p.recs, d) ELSE NoBinding
          BY <1>1, <1>4, <4>1, ResizedBindings
        <5>2. Bnd(p.recs, d) = Bnd(recs, d)
          BY <1>4, <4>2 DEF OnlyOwn
        <5>3. ~(d <= Len(recs)) => Bnd(recs, d) = NoBinding
          BY DEF Bnd
        <5> QED BY <5>1, <5>2, <5>3
      <4> QED BY <1>1, <2>2, <4>1, <4>2 DEF OnlyOwn
    <3>3. ~(Len(recs) \notin 0..MaxCount)
      BY <1>1
    <3> QED BY <2>1, <3>1, <3>2, <3>3, UpdateRecCountCases
  <2>4. BoundAs(recs, c, want, o)
    BY <1>1, <2>2, <2>3 DEF BoundAs
  <2> QED BY <2>3, <2>4 DEF want
<1> QED BY <1>6, <1>7

-----------------------------------------------------------------------------
(* The statement.                                                          *)

\* Between calls the statement has the application's ARD, in which every buffer
\* was checked or its binding refused.
Inv == TypeOK /\ stmt.ard = "own" /\ AcceptedAreConsistent

LEMMA InitInv == Init => Inv
<1> SUFFICES ASSUME Init PROVE Inv
  OBVIOUS
<1>1. /\ stmt = [ard |-> "own", recs |-> [a \in Ards |-> <<>>]] /\ refused = {}
      /\ last = [op |-> "none", col |-> 0, ok |-> TRUE, want |-> InitRec]
  BY DEF Init
<1>2. <<>> \in Seq(Rec) /\ Len(<<>>) = 0
  OBVIOUS
<1>3. stmt \in [ard : Ards, recs : [Ards -> Seq(Rec)]]
  BY <1>1, <1>2 DEF Ards
<1>4. \A a \in Ards : Len(stmt.recs[a]) <= MaxCount
  BY <1>1, <1>2, CountsAssumption
<1>5. last \in [op : {"none", "bind", "set", "count", "get"}, col : 0..(MaxCount + 1),
                ok : BOOLEAN, want : Rec]
  BY <1>1, InitRecType, CountsAssumption
<1>6. Len(Recs) = 0
  BY <1>1, <1>2 DEF Recs, Ards
<1> QED BY <1>1, <1>3, <1>4, <1>5, <1>6 DEF Inv, TypeOK, AcceptedAreConsistent

LEMMA RecsType == ASSUME Inv PROVE Recs \in RecSeqs /\ stmt.recs["own"] = Recs
  BY DEF Inv, TypeOK, Recs, RecSeqs, Ards

\* New records in the application's ARD.
LEMMA StoresType ==
  ASSUME Inv, NEW recs \in RecSeqs, Stores(recs)
  PROVE  /\ stmt' \in [ard : Ards, recs : [Ards -> Seq(Rec)]]
         /\ \A a \in Ards : Len(stmt'.recs[a]) <= MaxCount
         /\ stmt'.ard = "own" /\ Recs' = recs
<1>1. /\ stmt.ard = "own" /\ stmt \in [ard : Ards, recs : [Ards -> Seq(Rec)]]
      /\ \A a \in Ards : Len(stmt.recs[a]) <= MaxCount
  BY DEF Inv, TypeOK
<1>2. recs \in Seq(Rec) /\ Len(recs) <= MaxCount
  BY DEF RecSeqs
<1>3. stmt' = [stmt EXCEPT !.recs = [stmt.recs EXCEPT !["own"] = recs]]
  BY <1>1 DEF Stores
<1>4. stmt'.ard = "own" /\ stmt'.recs = [stmt.recs EXCEPT !["own"] = recs]
  BY <1>1, <1>3
<1>5. stmt' \in [ard : Ards, recs : [Ards -> Seq(Rec)]]
  BY <1>1, <1>2, <1>3
<1>6. Recs' = recs
  BY <1>1, <1>4 DEF Recs, Ards
<1>7. \A a \in Ards : Len(stmt'.recs[a]) <= MaxCount
  BY <1>1, <1>2, <1>4
<1> QED BY <1>4, <1>5, <1>6, <1>7

\* A call that spares the other columns and checks its own keeps the invariant.
LEMMA CallKeepsInv ==
  ASSUME Inv, NEW c \in 1..(MaxCount + 1), NEW want \in Rec, NEW op \in {"bind", "set"},
         NEW o \in Outcomes, Spares(Recs, c, o.recs), ChecksOwn(c, o),
         Stores(o.recs), Returns(op, c, want, o)
  PROVE  Inv'
<1>1. o.recs \in RecSeqs /\ o.ok \in BOOLEAN
  BY DEF Outcomes
<1>2. /\ stmt' \in [ard : Ards, recs : [Ards -> Seq(Rec)]]
      /\ \A a \in Ards : Len(stmt'.recs[a]) <= MaxCount
      /\ stmt'.ard = "own" /\ Recs' = o.recs
  BY <1>1, StoresType
<1>3. refused' = (IF o.ok THEN refused \ {c} ELSE refused \cup {c}) \cap (1..Len(o.recs))
  BY DEF Returns
<1>4. refused' \subseteq 1..MaxCount
  BY <1>1, <1>3, CountsAssumption DEF RecSeqs
<1>5. last' = [op |-> op, col |-> c, ok |-> o.ok, want |-> want]
  BY DEF Returns
<1>6. last' \in [op : {"none", "bind", "set", "count", "get"}, col : 0..(MaxCount + 1),
                 ok : BOOLEAN, want : Rec]
  BY <1>1, <1>5, CountsAssumption
<1>7. ASSUME NEW i \in 1..Len(o.recs), o.recs[i].data # Null
      PROVE  ConsistencyCheck(o.recs[i]) \/ i \in refused'
  <2>1. CASE i = c
    BY <1>1, <1>3, <1>7, <2>1 DEF ChecksOwn, Accepted
  <2>2. CASE i # c
    <3>1. i \in 1..Len(Recs) /\ o.recs[i] = Recs[i]
      BY <1>1, <1>7, <2>2, InitRecType, RecsType DEF Spares, RecSeqs
    <3>2. ConsistencyCheck(Recs[i]) \/ i \in refused
      BY <1>7, <3>1 DEF Inv, AcceptedAreConsistent
    <3> QED BY <1>3, <2>2, <3>1, <3>2
  <2> QED BY <2>1, <2>2
<1>8. AcceptedAreConsistent'
  BY <1>2, <1>7 DEF AcceptedAreConsistent
<1> QED BY <1>2, <1>4, <1>6, <1>8 DEF Inv, TypeOK

LEMMA BindColInv ==
  ASSUME Inv, NEW c \in 1..(MaxCount + 1), NEW t \in CTypes \cup {UnknownType},
         NEW b \in Bufs \cup {Null}, NEW lens \in BOOLEAN, BindCol(c, t, b, lens)
  PROVE  Inv'
<1>1. PICK o \in BindRec(Recs, c, t, b, lens) :
        Stores(o.recs) /\ Returns("bind", c, Asked(c, t, b, lens), o)
  BY DEF BindCol
<1>2. c \in Nat \ {0}
  BY CountsAssumption
<1>3. o \in Outcomes /\ Spares(Recs, c, o.recs) /\ ChecksOwn(c, o)
  BY <1>2, RecsType, BindRecSpares
<1>4. Asked(c, t, b, lens) \in Rec
  BY InitRecType DEF Asked, Rec
<1> QED BY <1>1, <1>3, <1>4, CallKeepsInv

LEMMA SetFieldInv ==
  ASSUME Inv, NEW c \in 1..(MaxCount + 1), NEW f \in Fields, SetField(c, f)
  PROVE  Inv'
<1>1. PICK v \in Values(f) : \E o \in SetDescField(Recs, c, f, v) :
        Stores(o.recs) /\ Returns("set", c, InitRec, o)
  BY DEF SetField
<1>2. PICK o \in SetDescField(Recs, c, f, v) :
        Stores(o.recs) /\ Returns("set", c, InitRec, o)
  BY <1>1
<1>3. Fits(f, v)
  BY DataAssumption DEF Values, Fits
<1>4. c \in Nat \ {0}
  BY CountsAssumption
<1>5. o \in Outcomes /\ Spares(Recs, c, o.recs) /\ ChecksOwn(c, o)
  BY <1>3, <1>4, RecsType, SetDescFieldSpares
<1> QED BY <1>2, <1>5, InitRecType, CallKeepsInv

LEMMA SetCountInv ==
  ASSUME Inv, NEW n, SetCount(n)
  PROVE  Inv'
<1>1. PICK o \in UpdateRecCount(Recs, n) :
        /\ Stores(o.recs)
        /\ last' = [op |-> "count", col |-> 0, ok |-> o.ok, want |-> InitRec]
        /\ refused' = refused \cap (1..Len(o.recs))
  BY DEF SetCount
<1>2. /\ o \in Outcomes
      /\ \A i \in 1..Len(o.recs) :
           o.recs[i] = InitRec \/ (i <= Len(Recs) /\ o.recs[i] = Recs[i])
  BY RecsType, UpdateRecCountSpares
<1>3. o.recs \in RecSeqs /\ o.ok \in BOOLEAN
  BY <1>2 DEF Outcomes
<1>4. /\ stmt' \in [ard : Ards, recs : [Ards -> Seq(Rec)]]
      /\ \A a \in Ards : Len(stmt'.recs[a]) <= MaxCount
      /\ stmt'.ard = "own" /\ Recs' = o.recs
  BY <1>1, <1>3, StoresType
<1>5. last' \in [op : {"none", "bind", "set", "count", "get"}, col : 0..(MaxCount + 1),
                 ok : BOOLEAN, want : Rec]
  BY <1>1, <1>3, InitRecType, CountsAssumption
<1>6. refused' \subseteq 1..MaxCount
  BY <1>1 DEF Inv, TypeOK
<1>7. ASSUME NEW i \in 1..Len(o.recs), o.recs[i].data # Null
      PROVE  ConsistencyCheck(o.recs[i]) \/ i \in refused'
  <2>1. i \in 1..Len(Recs) /\ o.recs[i] = Recs[i]
    BY <1>2, <1>3, <1>7, InitRecType, RecsType DEF RecSeqs
  <2>2. ConsistencyCheck(Recs[i]) \/ i \in refused
    BY <1>7, <2>1 DEF Inv, AcceptedAreConsistent
  <2> QED BY <1>1, <2>1, <2>2
<1>8. AcceptedAreConsistent'
  BY <1>4, <1>7 DEF AcceptedAreConsistent
<1> QED BY <1>4, <1>5, <1>6, <1>8 DEF Inv, TypeOK

\* SQLGetData works on an ARD of its own and puts the application's back.
LEMMA GetDataInv ==
  ASSUME Inv, NEW c \in 1..(MaxCount + 1), NEW t, NEW b, NEW lens, GetData(c, t, b, lens)
  PROVE  Inv'
<1> DEFINE s == GetdataSetArd(stmt, c)
<1>1. PICK o \in BindRec(s.recs[s.ard], c, t, b, lens), converted \in BOOLEAN :
        /\ stmt' = GetdataResetArd(GetDataBinds(s, o))
        /\ last' = [op |-> "get", col |-> 0, ok |-> o.ok /\ converted, want |-> InitRec]
        /\ UNCHANGED refused
  BY DEF GetData
<1>2. /\ stmt.ard = "own" /\ stmt \in [ard : Ards, recs : [Ards -> Seq(Rec)]]
      /\ \A a \in Ards : Len(stmt.recs[a]) <= MaxCount
  BY DEF Inv, TypeOK
<1> DEFINE gd == IF c < GdCount THEN [i \in 1..c |-> InitRec] ELSE <<>>
<1>3. stmt = [ard |-> "own", recs |-> stmt.recs]
  BY <1>2
<1> DEFINE r == stmt.recs
           r1 == [r EXCEPT !["gd"] = gd]
           r2 == [r1 EXCEPT !["gd"] = o.recs]
           r3 == [r2 EXCEPT !["gd"] = <<>>]
<1>4. s = [ard |-> "gd", recs |-> r1]
  BY <1>2, <1>3, Zenon DEF GetdataSetArd
<1> HIDE DEF gd, s
<1>5. GetDataBinds(s, o) = [ard |-> "gd", recs |-> r2]
  BY <1>4 DEF GetDataBinds
<1>6. stmt' = [ard |-> "own", recs |-> r3]
  BY <1>1, <1>5 DEF GetdataResetArd
<1>7. r3 \in [Ards -> Seq(Rec)] /\ r3["own"] = stmt.recs["own"] /\ r3["gd"] = <<>>
  BY <1>2 DEF Ards
<1>8. Len(r3["own"]) <= MaxCount /\ Len(r3["gd"]) = 0
  BY <1>2, <1>7 DEF Ards
<1> HIDE DEF r3
<1>9. stmt' \in [ard : Ards, recs : [Ards -> Seq(Rec)]] /\ stmt'.ard = "own"
  BY <1>6, <1>7 DEF Ards
<1>10. \A a \in Ards : Len(stmt'.recs[a]) <= MaxCount
  BY <1>6, <1>8, CountsAssumption DEF Ards
<1>11. Recs' = Recs
  BY <1>2, <1>6, <1>7 DEF Recs
<1>12. last' \in [op : {"none", "bind", "set", "count", "get"}, col : 0..(MaxCount + 1),
                 ok : BOOLEAN, want : Rec]
  <2>1. (o.ok /\ converted) \in BOOLEAN
    OBVIOUS
  <2> QED BY <1>1, <2>1, InitRecType, CountsAssumption
<1>13. refused' \subseteq 1..MaxCount /\ AcceptedAreConsistent'
  BY <1>1, <1>11 DEF Inv, TypeOK, AcceptedAreConsistent
<1> QED BY <1>9, <1>10, <1>12, <1>13 DEF Inv, TypeOK

LEMMA BindColRefusedInv == ASSUME Inv, BindColRefused PROVE Inv'
<1>1. /\ last' = [op |-> "bind", col |-> 0, ok |-> FALSE, want |-> InitRec]
      /\ UNCHANGED <<stmt, refused>>
  BY DEF BindColRefused
<1>2. last' \in [op : {"none", "bind", "set", "count", "get"}, col : 0..(MaxCount + 1),
                 ok : BOOLEAN, want : Rec]
  BY <1>1, InitRecType, CountsAssumption
<1> QED BY <1>1, <1>2 DEF Inv, TypeOK, AcceptedAreConsistent, Recs

\* Every call keeps the invariant: the records are records, and those bound are
\* checked as far as consistency_check() checks (handles.c:2249), which is the
\* precision of numbers and seconds of intervals, and not that of a timestamp.
THEOREM InvInductive == Inv /\ [Next]_vars => Inv'
<1> SUFFICES ASSUME Inv, [Next]_vars PROVE Inv'
  OBVIOUS
<1>1. CASE BindColRefused
  BY <1>1, BindColRefusedInv
<1>2. ASSUME NEW c \in 1..(MaxCount + 1), NEW t \in CTypes \cup {UnknownType},
             NEW lens \in BOOLEAN, NEW b \in Bufs \cup {Null}, BindCol(c, t, b, lens)
      PROVE  Inv'
  BY <1>2, BindColInv
<1>3. ASSUME NEW c \in 1..(MaxCount + 1), NEW t, NEW lens, NEW b, GetData(c, t, b, lens)
      PROVE  Inv'
  BY <1>3, GetDataInv
<1>4. ASSUME NEW c \in 1..(MaxCount + 1), NEW f \in Fields, SetField(c, f)
      PROVE  Inv'
  BY <1>4, SetFieldInv
<1>5. ASSUME NEW n, SetCount(n) PROVE Inv'
  BY <1>5, SetCountInv
<1>6. CASE UNCHANGED vars
  BY <1>6 DEF vars, Inv, TypeOK, AcceptedAreConsistent, Recs
<1> QED BY <1>1, <1>2, <1>3, <1>4, <1>5, <1>6 DEF Next

\* The records of an ARD are records, no more of them than the limit.
THEOREM DescTypeCorrect == Spec => []TypeOK
<1>1. Inv => TypeOK
  BY DEF Inv
<1> QED BY <1>1, InitInv, InvInductive, PTL DEF Spec

\* A buffer bound by a call that succeeded was checked with the type it is bound
\* with, and with its precision if the code bounds that type's (handles.c:2331).
THEOREM BoundAreChecked == Spec => []AcceptedAreConsistent
<1>1. Inv => AcceptedAreConsistent
  BY DEF Inv
<1> QED BY <1>1, InitInv, InvInductive, PTL DEF Spec

-----------------------------------------------------------------------------
(* The bindings an application sees.                                       *)

\* What a call did to the columns, in the terms of Bindings.
LEMMA KeptBind ==
  ASSUME NEW c \in 1..MaxCount, last'.op = "bind", last'.col = c, last'.ok,
         OnlyOwn(Recs, c, Recs'), Bnd(Recs', c) = Binding(last'.want)
  PROVE  Kept!Bind(c)
  BY DEF Kept!Bind, OnlyOwn, Bnd

LEMMA KeptDisturb ==
  ASSUME NEW c \in 1..MaxCount, last'.op = "set" \/ (last'.op = "bind" /\ ~last'.ok),
         last'.col = c, OnlyOwn(Recs, c, Recs')
  PROVE  Kept!Disturb(c)
  BY DEF Kept!Disturb, Kept!OnlyChanges, Kept!Cols, OnlyOwn, Bnd

LEMMA KeptLower ==
  ASSUME NEW n \in 0..MaxCount, last'.op = "count", last'.ok,
         \A d \in 1..MaxCount : Bnd(Recs', d) = IF d <= n THEN Bnd(Recs, d) ELSE NoBinding
  PROVE  Kept!Lower(n)
  BY CountsAssumption DEF Kept!Lower, Kept!Cols, Bnd

LEMMA KeptKeep ==
  ASSUME last'.op = "get" \/ ~last'.ok, \A d \in 1..MaxCount : Bnd(Recs', d) = Bnd(Recs, d)
  PROVE  Kept!Keep
  BY DEF Kept!Keep, Bnd

LEMMA InitKept == Init => Kept!Init
<1> SUFFICES ASSUME Init PROVE Kept!Init
  OBVIOUS
<1>1. Recs = <<>> /\ last.op = "none"
  BY DEF Init, Recs, Ards
<1>2. \A c \in 1..MaxCount : ~(c <= Len(Recs))
  BY <1>1
<1> QED BY <1>1, <1>2 DEF Kept!Init, Kept!Cols

\* What SQLBindCol shows of itself, and what it did to the records.
LEMMA BindColOwn ==
  ASSUME Inv, NEW c \in 1..(MaxCount + 1), NEW t \in CTypes \cup {UnknownType},
         NEW b \in Bufs \cup {Null}, NEW lens \in BOOLEAN, BindCol(c, t, b, lens)
  PROVE  /\ last'.op = "bind" /\ last'.col = c /\ last'.want = Asked(c, t, b, lens)
         /\ OnlyOwn(Recs, c, Recs')
         /\ ~last'.ok /\ Len(Recs) > 0 => Len(Recs') <= Len(Recs)
         /\ last'.ok => c <= MaxCount /\ Bnd(Recs', c) = Binding(last'.want)
         /\ last'.ok /\ c >= Len(Recs) /\ ~RecIsBound(last'.want) => Trimmed(Recs')
<1>1. PICK o \in BindRec(Recs, c, t, b, lens) :
        Stores(o.recs) /\ Returns("bind", c, Asked(c, t, b, lens), o)
  BY DEF BindCol
<1>2. c \in Nat \ {0} /\ Recs \in RecSeqs
  BY CountsAssumption, RecsType
<1> DEFINE want == Asked(c, t, b, lens)
<1>3. /\ BoundAs(Recs, c, want, o)
      /\ ~o.ok /\ Len(Recs) > 0 => Len(o.recs) <= Len(Recs)
  BY <1>2, BindRecOwn
<1>4. last' = [op |-> "bind", col |-> c, ok |-> o.ok, want |-> Asked(c, t, b, lens)]
  BY <1>1 DEF Returns
<1>5. Recs' = o.recs
  BY <1>1, <1>3, StoresType DEF BoundAs, Outcomes
<1> HIDE DEF want
<1>6. last'.op = "bind" /\ last'.col = c /\ last'.ok = o.ok /\ last'.want = want
  BY <1>4 DEF want
<1> QED BY <1>3, <1>5, <1>6 DEF BoundAs, want

LEMMA BindColKept ==
  ASSUME Inv, NEW c \in 1..(MaxCount + 1), NEW t \in CTypes \cup {UnknownType},
         NEW b \in Bufs \cup {Null}, NEW lens \in BOOLEAN, BindCol(c, t, b, lens)
  PROVE  Kept!Next
<1>1. /\ last'.op = "bind" /\ last'.col = c /\ OnlyOwn(Recs, c, Recs')
      /\ last'.ok => c <= MaxCount /\ Bnd(Recs', c) = Binding(last'.want)
  BY BindColOwn
<1>2. CASE last'.ok
  <2>1. c \in 1..MaxCount
    BY <1>1, <1>2, CountsAssumption
  <2> QED BY <1>1, <1>2, <2>1, KeptBind DEF Kept!Next, Kept!Cols
<1>3. CASE ~last'.ok /\ c \in 1..MaxCount
  BY <1>1, <1>3, KeptDisturb DEF Kept!Next, Kept!Cols
<1>4. CASE ~last'.ok /\ c \notin 1..MaxCount
  BY <1>1, <1>4, KeptKeep DEF Kept!Next, OnlyOwn
<1> QED BY <1>2, <1>3, <1>4

LEMMA SetFieldKept ==
  ASSUME Inv, NEW c \in 1..(MaxCount + 1), NEW f \in Fields, SetField(c, f)
  PROVE  Kept!Next
<1>1. PICK v \in Values(f) : \E o \in SetDescField(Recs, c, f, v) :
        Stores(o.recs) /\ Returns("set", c, InitRec, o)
  BY DEF SetField
<1>2. PICK o \in SetDescField(Recs, c, f, v) :
        Stores(o.recs) /\ Returns("set", c, InitRec, o)
  BY <1>1
<1>3. Fits(f, v)
  BY DataAssumption DEF Values, Fits
<1>4. c \in Nat \ {0} /\ Recs \in RecSeqs
  BY CountsAssumption, RecsType
<1>5. o \in Outcomes /\ OnlyOwn(Recs, c, o.recs) /\ (o.ok => c <= MaxCount)
  BY <1>3, <1>4, SetDescFieldSpares, SetDescFieldOwn
<1>6. Recs' = o.recs
  BY <1>2, <1>5, StoresType DEF Outcomes
<1>7. last'.op = "set" /\ last'.col = c /\ last'.ok = o.ok
  BY <1>2 DEF Returns
<1>8. OnlyOwn(Recs, c, Recs')
  BY <1>5, <1>6
<1>9. CASE c \in 1..MaxCount
  BY <1>7, <1>8, <1>9, KeptDisturb DEF Kept!Next, Kept!Cols
<1>10. CASE c \notin 1..MaxCount
  <2>1. ~last'.ok
    BY <1>5, <1>7, <1>10, CountsAssumption
  <2> QED BY <1>8, <1>10, <2>1, KeptKeep DEF Kept!Next, OnlyOwn
<1> QED BY <1>9, <1>10

LEMMA SetCountKept == ASSUME Inv, NEW n, SetCount(n) PROVE Kept!Next
<1>1. PICK o \in UpdateRecCount(Recs, n) :
        /\ Stores(o.recs)
        /\ last' = [op |-> "count", col |-> 0, ok |-> o.ok, want |-> InitRec]
  BY DEF SetCount
<1>2. Recs \in RecSeqs /\ o \in Outcomes
  BY <1>1, RecsType, UpdateRecCountSpares
<1>3. Recs' = o.recs
  BY <1>1, <1>2, StoresType DEF Outcomes
<1>4. last'.op = "count" /\ last'.ok = o.ok
  BY <1>1
<1>5. CASE o = Out(Recs, FALSE)
  BY <1>3, <1>4, <1>5, KeptKeep DEF Out, Kept!Next
<1>6. CASE o = Out(Resized(Recs, n), TRUE) /\ n \in 0..MaxCount
  <2>1. o.recs = Resized(Recs, n) /\ o.ok
    BY <1>6 DEF Out
  <2>2. \A d \in 1..MaxCount : Bnd(Recs', d) = IF d <= n THEN Bnd(Recs, d) ELSE NoBinding
    BY <1>2, <1>3, <1>6, <2>1, ResizedBindings
  <2> QED BY <1>4, <1>6, <2>1, <2>2, KeptLower DEF Kept!Next
<1> QED BY <1>1, <1>5, <1>6, UpdateRecCountCases

LEMMA GetDataKept ==
  ASSUME Inv, Inv', NEW c \in 1..(MaxCount + 1), NEW t, NEW b, NEW lens,
         GetData(c, t, b, lens)
  PROVE  Kept!Next /\ last'.op = "get"
<1> DEFINE s == GetdataSetArd(stmt, c)
<1>1. PICK o \in BindRec(s.recs[s.ard], c, t, b, lens), converted \in BOOLEAN :
        /\ stmt' = GetdataResetArd(GetDataBinds(s, o))
        /\ last' = [op |-> "get", col |-> 0, ok |-> o.ok /\ converted, want |-> InitRec]
  BY DEF GetData
<1>2. stmt'.recs["own"] = stmt.recs["own"]
  BY <1>1 DEF GetdataResetArd, GetDataBinds, GetdataSetArd, Inv, TypeOK, Ards
<1>3. Recs' = Recs
  BY <1>2, RecsType DEF Inv, Recs
<1>4. last'.op = "get"
  BY <1>1
<1> QED BY <1>3, <1>4, KeptKeep DEF Kept!Next

LEMMA BindColRefusedKept == ASSUME BindColRefused PROVE Kept!Next
<1>1. ~last'.ok /\ Recs' = Recs
  BY DEF BindColRefused, Recs
<1> QED BY <1>1, KeptKeep DEF Kept!Next

\* Every call changes the bindings as an application may rely on.
THEOREM BindingsKept == Spec => ImplementsBindings
<1>1. ASSUME Inv, Inv', Next PROVE Kept!Next
  <2>1. CASE BindColRefused
    BY <2>1, BindColRefusedKept
  <2>2. ASSUME NEW c \in 1..(MaxCount + 1), NEW t \in CTypes \cup {UnknownType},
               NEW lens \in BOOLEAN, NEW b \in Bufs \cup {Null}, BindCol(c, t, b, lens)
        PROVE  Kept!Next
    BY <1>1, <2>2, BindColKept
  <2>3. ASSUME NEW c \in 1..(MaxCount + 1), NEW t, NEW lens, NEW b, GetData(c, t, b, lens)
        PROVE  Kept!Next
    BY <1>1, <2>3, GetDataKept
  <2>4. ASSUME NEW c \in 1..(MaxCount + 1), NEW f \in Fields, SetField(c, f)
        PROVE  Kept!Next
    BY <1>1, <2>4, SetFieldKept
  <2>5. ASSUME NEW n, SetCount(n) PROVE Kept!Next
    BY <1>1, <2>5, SetCountKept
  <2> QED BY <1>1, <2>1, <2>2, <2>3, <2>4, <2>5 DEF Next
<1>2. UNCHANGED vars => UNCHANGED Kept!vars
  BY DEF vars, Kept!vars, Recs
<1>3. Inv /\ Inv' /\ [Next]_vars => [Kept!Next]_(Kept!vars)
  BY <1>1, <1>2
<1> QED BY <1>3, InitInv, InvInductive, InitKept, PTL DEF Spec, ImplementsBindings, Kept!Spec

\* What the last call was, when the step is one of a bound kind.
LEMMA OnlyBindColBinds ==
  ASSUME Inv, Inv', Next, last'.op = "bind"
  PROVE  \/ BindColRefused
         \/ \E c \in 1..(MaxCount + 1), t \in CTypes \cup {UnknownType}, lens \in BOOLEAN,
               b \in Bufs \cup {Null} : BindCol(c, t, b, lens)
<1>1. ASSUME NEW c \in 1..(MaxCount + 1), NEW t, NEW lens, NEW b, GetData(c, t, b, lens)
      PROVE  FALSE
  BY <1>1, GetDataKept
<1>2. ASSUME NEW c \in 1..(MaxCount + 1), NEW f \in Fields, SetField(c, f)
      PROVE  FALSE
  BY <1>2 DEF SetField, Returns
<1>3. ASSUME NEW n, SetCount(n) PROVE FALSE
  BY <1>3 DEF SetCount
<1> QED BY <1>1, <1>2, <1>3 DEF Next

\* Unbinding the highest column leaves the count at a bound column, or at 0.
THEOREM TrimsKept == Spec => UnbindTrims
<1> DEFINE Trims == last'.op = "bind" /\ last'.ok /\ last'.col >= Len(Recs)
                    /\ last'.want.data = Null /\ last'.want.lens = {} => Trimmed(Recs')
<1>1. ASSUME Inv, NEW c \in 1..(MaxCount + 1), NEW t \in CTypes \cup {UnknownType},
             NEW lens \in BOOLEAN, NEW b \in Bufs \cup {Null}, BindCol(c, t, b, lens)
      PROVE  Trims
  <2>1. /\ last'.op = "bind" /\ last'.col = c /\ last'.want = Asked(c, t, b, lens)
        /\ OnlyOwn(Recs, c, Recs')
        /\ ~last'.ok /\ Len(Recs) > 0 => Len(Recs') <= Len(Recs)
        /\ last'.ok => c <= MaxCount /\ Bnd(Recs', c) = Binding(last'.want)
        /\ last'.ok /\ c >= Len(Recs) /\ ~RecIsBound(last'.want) => Trimmed(Recs')
    BY <1>1, BindColOwn
  <2> QED BY <2>1 DEF RecIsBound
<1>2. ASSUME Inv, Inv', Next PROVE Trims
  <2>1. BindColRefused => Trims
    BY DEF BindColRefused
  <2> HIDE DEF Trims
  <2>2. last'.op # "bind" => Trims
    BY DEF Trims
  <2> QED BY <1>1, <1>2, <2>1, <2>2, OnlyBindColBinds
<1>3. Inv /\ Inv' /\ [Next]_vars => [Trims]_vars
  BY <1>2
<1> QED BY <1>3, InitInv, InvInductive, PTL DEF Spec, UnbindTrims, Trimmed

\* A failed SQLBindCol that found records leaves no more of them behind.
THEOREM NoneAdded == Spec => FailedBindAddsNone
<1> DEFINE AddsNone == last'.op = "bind" /\ ~last'.ok /\ Len(Recs) > 0 =>
                         Len(Recs') <= Len(Recs)
<1>1. ASSUME Inv, Inv', Next PROVE AddsNone
  <2> SUFFICES ASSUME last'.op = "bind", ~last'.ok, Len(Recs) > 0
               PROVE  Len(Recs') <= Len(Recs)
    OBVIOUS
  <2>1. CASE BindColRefused
    <3>1. Recs' = Recs /\ Len(Recs) \in Nat
      BY <1>1, <2>1, RecsType DEF BindColRefused, Recs, RecSeqs
    <3> QED BY <3>1
  <2>2. CASE ~BindColRefused
    BY <1>1, <2>2, OnlyBindColBinds, BindColOwn
  <2> QED BY <2>1, <2>2
<1>2. Inv /\ Inv' /\ [Next]_vars => [AddsNone]_vars
  BY <1>1
<1> QED BY <1>2, InitInv, InvInductive, PTL DEF Spec, FailedBindAddsNone

=============================================================================
