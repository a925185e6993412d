---------------------------- MODULE CsvFeedProofs ----------------------------
(***************************************************************************)
(* Proofs about CsvFeed: for every content and every size of the arrays,   *)
(* names, values and rows stay inside them, a failed call leaves no        *)
(* mixture of an old row and a new one, and a good row is decoded as it    *)
(* stands, into the place that is its number, whatever its neighbours are. *)
(***************************************************************************)
EXTENDS CsvFeed, SequenceTheorems, FiniteSetTheorems, WellFoundedInduction, TLAPS

LEMMA MinOfNats ==
  ASSUME NEW S, S \subseteq Nat, S # {}
  PROVE  Min(S) \in S /\ \A y \in S : Min(S) <= y
<1> DEFINE R == OpToRel(<, Nat)
<1>1. IsWellFoundedOn(R, Nat)
  BY NatLessThanWellFounded
<1>2. \A y, x \in Nat : <<y, x>> \in R <=> y < x
  BY DEF OpToRel
<1> HIDE DEF R
<1>3. PICK x \in S : \A y \in S : ~(<<y, x>> \in R)
  BY <1>1, WFMin
<1>4. ASSUME NEW y \in S PROVE x <= y
  <2>1. x \in Nat /\ y \in Nat /\ ~(y < x)
    BY <1>2, <1>3
  <2>2. QED BY <2>1
<1>5. QED BY <1>3, <1>4 DEF Min

LEMMA MinOfTwo ==
  ASSUME NEW a \in Int, NEW b \in Int
  PROVE  Min({a, b}) = IF a <= b THEN a ELSE b
  BY DEF Min

LEMMA SizesTyped ==
    /\ MaxStreams \in Nat \ {0} /\ NameSize \in Nat \ {0} /\ ValueSize \in Nat \ {0}
    /\ Contents \subseteq Seq(Symbols)
  BY CsvAssumption DEF CsvAssumption

\* What strstr finds lies in the text, behind the place it starts from.
LEMMA FindTyped ==
  ASSUME text \in Seq(Symbols), NEW from \in Nat \ {0}, NEW symbol
  PROVE  Find(symbol, from) \in {0} \cup from .. Len(text)
<1> DEFINE at == {i \in from .. Len(text) : text[i] = symbol}
<1>1. at \subseteq Nat
  OBVIOUS
<1>2. CASE at = {}
  BY <1>2 DEF Find
<1>3. CASE at # {}
  BY <1>1, <1>3, MinOfNats DEF Find
<1>4. QED BY <1>2, <1>3

LEMMA PieceTyped ==
  ASSUME text \in Seq(Symbols), NEW m \in Nat \ {0}, NEW n \in Int, n <= Len(text)
  PROVE  /\ SubSeq(text, m, n) \in Seq(Symbols)
         /\ Len(SubSeq(text, m, n)) = IF m <= n THEN n - m + 1 ELSE 0
<1>1. \A i \in m .. n : text[i] \in Symbols
  BY ElementOfSeq
<1>2. QED BY <1>1, SubSeqProperties

\* A name fits its array, terminator included.
LEMMA NameTyped ==
  ASSUME text \in Seq(Symbols), NEW from \in Nat \ {0}, NEW comma \in from .. Len(text)
  PROVE  Name(from, comma) \in Seq(Symbols) /\ Len(Name(from, comma)) < NameSize
<1> DEFINE last == IF comma - 1 <= from + NameSize - 2 THEN comma - 1 ELSE from + NameSize - 2
<1>1. Name(from, comma) = SubSeq(text, from, last)
  BY MinOfTwo, SizesTyped DEF Name
<1>2. last \in Int /\ last <= Len(text) /\ last - from + 1 < NameSize
  BY SizesTyped
<1>3. QED
  BY <1>1, <1>2, PieceTyped, SizesTyped

LEMMA ValueTyped ==
  ASSUME text \in Seq(Symbols), NEW from \in Nat \ {0}
  PROVE  SubSeq(text, from, LineEnd(from)) \in Seq(Symbols)
<1>1. LineEnd(from) \in Int /\ LineEnd(from) <= Len(text)
  BY FindTyped DEF LineEnd
<1>2. QED BY <1>1, PieceTyped

LEMMA CutTyped ==
  ASSUME NEW s \in Seq(Symbols), Len(s) > ValueSize - 1
  PROVE  /\ SubSeq(s, 1, ValueSize - 1) \in Seq(Symbols)
         /\ Len(SubSeq(s, 1, ValueSize - 1)) < ValueSize
<1>1. \A i \in 1 .. ValueSize - 1 : s[i] \in Symbols
  BY ElementOfSeq, SizesTyped
<1>2. QED BY <1>1, SubSeqProperties, SizesTyped

-----------------------------------------------------------------------------
\* Nothing is returned while rows are being decoded.
Running == stage = "rows" => result = "none"

CsvInv == TypeOK /\ NoHalfRows /\ Running

\* A row that fits its place.
Fitting(s) == s \in Streams /\ Len(s.id) < NameSize /\ Len(s.value) < ValueSize

LEMMA ErrsTyped ==
    NoErr \in Errs /\ "XI_CSV_DECODE_FEED_PARSER_ERROR" \in Errs
  BY DEF Errs, DecodeErrs

LEMMA TypeParts ==
  ASSUME TypeOK
  PROVE  /\ counter \in 0 .. MaxStreams
         /\ stage = "rows" => counter < MaxStreams
         /\ current \in 1 .. Len(text) + 1
         /\ stage \in {"idle", "rows"} /\ result \in {"none", "feed", "null"} /\ err \in Errs
  BY DEF TypeOK

\* There is a place for the row that is being decoded.
LEMMA RowHasPlace ==
  ASSUME TypeOK, stage = "rows"
  PROVE  counter \in Nat /\ counter + 1 \in 1 .. MaxStreams
<1>1. counter \in 0 .. MaxStreams /\ counter < MaxStreams
  BY TypeParts
<1>2. QED BY <1>1, SizesTyped

LEMMA RowFailsTyped ==
  ASSUME TypeOK, NoHalfRows, stage = "rows", NEW s, Fitting(s), s.count = 0, RowFails(s)
  PROVE  CsvInv'
<1>1. counter + 1 \in 1 .. MaxStreams
  BY RowHasPlace
<1>2. feed' = [feed EXCEPT !.streams = [feed.streams EXCEPT ![counter + 1] = s]]
  BY DEF RowFails
<1>3. /\ feed'.streams = [feed.streams EXCEPT ![counter + 1] = s]
      /\ feed'.count = feed.count
      /\ feed' \in [count : 0 .. MaxStreams, streams : [1 .. MaxStreams -> Streams]]
  BY <1>1, <1>2 DEF TypeOK, Fitting
<1>4. \A i \in 1 .. MaxStreams : Len(feed'.streams[i].id) < NameSize
                                  /\ Len(feed'.streams[i].value) < ValueSize
  BY <1>1, <1>3 DEF TypeOK, Fitting
<1>5. TypeOK'
  BY <1>3, <1>4, ErrsTyped DEF TypeOK, RowFails
<1>6. NoHalfRows'
  <2>1. \A i \in 1 .. MaxStreams : /\ i # counter + 1 => feed'.streams[i] = feed.streams[i]
                                   /\ i = counter + 1 => feed'.streams[i].count = 0
    BY <1>1, <1>3 DEF TypeOK
  <2>2. counter' = counter /\ given' = given
    BY DEF RowFails
  <2>3. QED BY <1>3, <2>1, <2>2 DEF NoHalfRows
<1>7. QED
  BY <1>5, <1>6 DEF CsvInv, Running, RowFails

LEMMA TextTyped ==
  ASSUME TypeOK
  PROVE  text \in Seq(Symbols)
<1>1. text \in Contents \/ text = <<>>
  BY DEF TypeOK
<1>2. <<>> \in Seq(Symbols)
  OBVIOUS
<1>3. QED BY <1>1, <1>2, SizesTyped

LEMMA CsvStep ==
  ASSUME CsvInv, [Next]_vars
  PROVE  CsvInv'
<1>0. /\ TypeOK /\ NoHalfRows /\ Running
      /\ text \in Seq(Symbols) /\ current \in Nat \ {0} /\ counter \in Nat
  BY TextTyped, TypeParts DEF CsvInv
<1>1. ASSUME NEW t \in Contents, Decode(t) PROVE CsvInv'
  <2>1. t \in Seq(Symbols)
    BY SizesTyped
  <2>2. 1 \in 1 .. Len(t) + 1
    BY <2>1
  <2>3. QED BY <1>0, <1>1, <2>2, SizesTyped DEF Decode, CsvInv, TypeOK, NoHalfRows, Running
<1>2. CASE GetLastError
  BY <1>0, <1>2, ErrsTyped DEF GetLastError, CsvInv, TypeOK, NoHalfRows, Running
<1>3. CASE NoName
  <2> DEFINE s == Broken(feed.streams[counter + 1].id, FALSE, <<>>)
  <2>1. stage = "rows" /\ RowFails(s)
    BY <1>3 DEF NoName
  <2>2. counter + 1 \in 1 .. MaxStreams
    BY <1>0, <2>1, RowHasPlace
  <2>3. Fitting(s) /\ s.count = 0
    BY <1>0, <2>2, SizesTyped DEF Fitting, Broken, TypeOK, Streams
  <2>4. QED BY <1>0, <2>1, <2>3, RowFailsTyped
<1>4. CASE NoDatapoint
  <2> DEFINE comma == Find(Comma, current)
             before == Find(Comma, comma + 1)
             name == Name(current, comma)
             value == SubSeq(text, before + 1, LineEnd(before + 1))
  <2>1. stage = "rows" /\ comma # 0
    BY <1>4 DEF NoDatapoint
  <2>2. comma \in current .. Len(text)
    BY <1>0, <2>1, FindTyped
  <2>3. name \in Seq(Symbols) /\ Len(name) < NameSize
    BY <1>0, <2>2, NameTyped
  <2>4. before \in Nat
    BY <1>0, <2>2, FindTyped
  <2>5. value \in Seq(Symbols)
    BY <1>0, <2>4, ValueTyped
  <2> HIDE DEF comma, before, name, value
  <2>6. CASE RowFails(Broken(name, FALSE, <<>>))
    <3>1. Fitting(Broken(name, FALSE, <<>>)) /\ Broken(name, FALSE, <<>>).count = 0
      BY <2>3, SizesTyped DEF Fitting, Broken, Streams
    <3>2. QED BY <1>0, <2>1, <2>6, <3>1, RowFailsTyped
  <2>7. CASE Len(value) > ValueSize - 1
             /\ RowFails(Broken(name, TRUE, SubSeq(value, 1, ValueSize - 1)))
    <3> DEFINE cut == SubSeq(value, 1, ValueSize - 1)
    <3>1. cut \in Seq(Symbols) /\ Len(cut) < ValueSize
      BY <2>5, <2>7, CutTyped
    <3> HIDE DEF cut
    <3>2. Fitting(Broken(name, TRUE, cut)) /\ Broken(name, TRUE, cut).count = 0
      BY <2>3, <3>1 DEF Fitting, Broken, Streams
    <3>3. RowFails(Broken(name, TRUE, cut))
      BY <2>7 DEF cut
    <3>4. QED BY <1>0, <2>1, <3>2, <3>3, RowFailsTyped
  <2>8. QED
    BY <1>4, <2>6, <2>7 DEF NoDatapoint, comma, before, name, value
<1>5. CASE DecodeRow
  <2> DEFINE comma == Find(Comma, current)
             before == Find(Comma, comma + 1)
             end == RowEnd(current, before)
             name == Name(current, comma)
             value == SubSeq(text, before + 1, LineEnd(before + 1))
             row == SetRow(feed.streams[counter + 1], name, value)
             rows == [feed.streams EXCEPT ![counter + 1] = row]
  <2>1. /\ stage = "rows" /\ comma # 0 /\ Len(value) <= ValueSize - 1
        /\ counter' = counter + 1 /\ current' = end + 1 /\ text' = text
    BY <1>5 DEF DecodeRow
  <2>2. comma \in current .. Len(text)
    BY <1>0, <2>1, FindTyped
  <2>3. name \in Seq(Symbols) /\ Len(name) < NameSize
    BY <1>0, <2>2, NameTyped
  <2>4. before \in Nat /\ end \in 0 .. Len(text)
    BY <1>0, <2>2, FindTyped DEF RowEnd
  <2>5. value \in Seq(Symbols) /\ Len(value) < ValueSize
    <3>1. value \in Seq(Symbols)
      BY <1>0, <2>4, ValueTyped
    <3> HIDE DEF value
    <3>2. QED BY <2>1, <3>1, SizesTyped
  <2>6. /\ \/ feed' = [feed EXCEPT !.streams = rows]
           \/ feed' = [count |-> counter', streams |-> rows]
        /\ stage' = "rows" => counter' # MaxStreams
        /\ stage' \in {"idle", "rows"} /\ result' \in {"none", "feed", "null"}
        /\ result' = "null" => counter' = MaxStreams
        /\ stage' = "rows" => result' = "none"
        /\ err' \in Errs
    <3>1. \/ /\ TooMany(counter') /\ feed' = [feed EXCEPT !.streams = rows]
             /\ stage' = "idle" /\ result' = "null"
             /\ err' = "XI_CSV_DECODE_FEED_PARSER_ERROR"
          \/ /\ ~TooMany(counter') /\ feed' = [count |-> counter', streams |-> rows]
             /\ stage' = "idle" /\ result' = "feed" /\ err' = err
          \/ /\ ~TooMany(counter') /\ feed' = [feed EXCEPT !.streams = rows]
             /\ stage' = stage /\ result' = result /\ err' = err
      BY <1>5 DEF DecodeRow
    <3> HIDE DEF rows
    <3>2. QED
      BY <2>1, <1>0, <3>1, ErrsTyped, TypeParts DEF TooMany, Running
  <2>6a. stage' = "rows" \/ result' = "null" => feed' = [feed EXCEPT !.streams = rows]
    <3> HIDE DEF rows
    <3>1. \/ feed' = [feed EXCEPT !.streams = rows]
          \/ stage' = "idle" /\ result' = "feed"
      BY <1>5 DEF DecodeRow, rows
    <3>2. QED BY <3>1
  <2>7. counter \in Nat /\ counter + 1 \in 1 .. MaxStreams
    BY <1>0, <2>1, RowHasPlace
  <2> HIDE DEF comma, before, end, name, value
  <2>8. Fitting(row)
    BY <2>3, <2>5 DEF Fitting, SetRow, Streams
  <2> HIDE DEF row
  <2>9. rows \in [1 .. MaxStreams -> Streams]
    BY <1>0, <2>7, <2>8 DEF TypeOK, Fitting
  <2>10. \A i \in 1 .. MaxStreams : Len(rows[i].id) < NameSize /\ Len(rows[i].value) < ValueSize
    BY <1>0, <2>7, <2>8 DEF TypeOK, Fitting
  <2>11a. \A i \in 1 .. MaxStreams : i # counter + 1 => rows[i] = feed.streams[i]
    BY <1>0, <2>7 DEF TypeOK
  <2> HIDE DEF rows
  <2>11. /\ feed' \in [count : 0 .. MaxStreams, streams : [1 .. MaxStreams -> Streams]]
         /\ feed'.streams = rows
    BY <1>0, <2>1, <2>6, <2>7, <2>9 DEF TypeOK
  <2>12. /\ counter' \in 0 .. MaxStreams
         /\ stage' = "rows" => counter' < MaxStreams
    BY <2>1, <2>6, <2>7, SizesTyped
  <2>13. current' \in 1 .. Len(text') + 1
    <3>1. Len(text) \in Nat
      BY <1>0
    <3>2. QED BY <2>1, <2>4, <3>1
  <2>14. text' \in Contents \cup {<<>>}
    BY <1>0, <2>1 DEF TypeOK
  <2>15. TypeOK'
    BY <2>6, <2>10, <2>11, <2>12, <2>13, <2>14 DEF TypeOK
  <2>16. NoHalfRows'
    <3>1. stage' = "rows" \/ result' = "null" => feed'.count = feed.count
      BY <1>0, <2>6a DEF TypeOK
    <3>2. \A i \in 1 .. MaxStreams : i > counter' => feed'.streams[i] = feed.streams[i]
      BY <1>0, <2>1, <2>7, <2>11, <2>11a
    <3>3. given' = given /\ counter' = counter + 1
      BY <1>5 DEF DecodeRow
    <3>4. \A i \in 1 .. MaxStreams : i > counter' => i > counter
      BY <1>0, <3>3
    <3>5. QED BY <1>0, <2>1, <3>1, <3>2, <3>3, <3>4 DEF NoHalfRows
  <2>17. QED
    BY <2>1, <2>6, <2>15, <2>16, SizesTyped DEF CsvInv, Running
<1>6. CASE UNCHANGED vars
  BY <1>0, <1>6 DEF vars, CsvInv, TypeOK, NoHalfRows, Running
<1>7. QED
  BY <1>1, <1>2, <1>3, <1>4, <1>5, <1>6 DEF Next

LEMMA CsvInit == Init => CsvInv
<1> SUFFICES ASSUME Init PROVE CsvInv
  OBVIOUS
<1>1. EmptyStream \in Streams /\ Len(EmptyStream.id) = 0 /\ Len(EmptyStream.value) = 0
  BY DEF EmptyStream, Streams
<1>2. feed.streams \in [1 .. MaxStreams -> Streams]
      /\ \A i \in 1 .. MaxStreams : feed.streams[i] = EmptyStream
  BY <1>1 DEF Init
<1>3. QED
  BY <1>1, <1>2, ErrsTyped, SizesTyped DEF Init, CsvInv, TypeOK, NoHalfRows, Running

\* Whatever content arrives, names, values and rows stay inside their arrays
\* (csv_data.c:281-375).
THEOREM CsvTypeCorrect == Spec => []TypeOK
<1>1. CsvInv /\ [Next]_vars => CsvInv'
  BY CsvStep
<1>2. CsvInv => TypeOK /\ NoHalfRows
  BY DEF CsvInv
<1>3. QED BY CsvInit, <1>1, <1>2, PTL DEF Spec

\* Whatever content arrives, a failed call leaves the feed its number of rows,
\* and every row it did not complete as it was before the call or without a
\* datapoint (csv_data.c:294-296).
THEOREM CsvNoHalfRows == Spec => []NoHalfRows
<1>1. CsvInv /\ [Next]_vars => CsvInv'
  BY CsvStep
<1>2. CsvInv => TypeOK /\ NoHalfRows
  BY DEF CsvInv
<1>3. QED BY CsvInit, <1>1, <1>2, PTL DEF Spec

-----------------------------------------------------------------------------
(***************************************************************************)
(* The lines of a text, their order and their number.                      *)
(***************************************************************************)
Ends(t) == {i \in DOMAIN t : t[i] = Newline} \cup {Len(t) + 1}

\* Where the lines of a text begin and end.
LEMMA LineParts ==
  ASSUME NEW t \in Seq(Symbols)
  PROVE  /\ Len(t) \in Nat /\ DOMAIN t = 1 .. Len(t)
         /\ \A l \in Lines(t) :
              /\ l = <<l[1], l[2]>>
              /\ l[1] \in 1 .. Len(t) + 1
              /\ l[2] \in l[1] .. Len(t) + 1
              /\ l[1] = 1 \/ (l[1] - 1 \in 1 .. Len(t) /\ t[l[1] - 1] = Newline)
              /\ l[2] = Len(t) + 1 \/ t[l[2]] = Newline
              /\ \A i \in l[1] .. l[2] - 1 : i \in 1 .. Len(t) /\ t[i] # Newline
<1>1. Len(t) \in Nat /\ DOMAIN t = 1 .. Len(t)
  BY LenProperties
<1>2. ASSUME NEW l \in Lines(t)
      PROVE  /\ l = <<l[1], l[2]>>
             /\ l[1] \in 1 .. Len(t) + 1
             /\ l[2] \in Ends(t) /\ l[2] >= l[1]
             /\ l[1] = 1 \/ t[l[1] - 1] = Newline
             /\ \A k \in Ends(t) : k >= l[1] => l[2] <= k
  BY <1>1 DEF Lines, Ends
<1>3. \A i \in Ends(t) : i \in 1 .. Len(t) + 1 /\ (i = Len(t) + 1 \/ t[i] = Newline)
  BY <1>1 DEF Ends
<1>4. ASSUME NEW l \in Lines(t), NEW i \in l[1] .. l[2] - 1
      PROVE  i \in 1 .. Len(t) /\ t[i] # Newline
  <2>1. i \in 1 .. Len(t)
    BY <1>1, <1>2, <1>3
  <2>2. t[i] = Newline => i \in Ends(t)
    BY <1>1, <2>1 DEF Ends
  <2>3. QED BY <1>1, <1>2, <1>3, <2>1, <2>2
<1>5. ASSUME NEW l \in Lines(t)
      PROVE  l[1] = 1 \/ (l[1] - 1 \in 1 .. Len(t) /\ t[l[1] - 1] = Newline)
  BY <1>1, <1>2
<1>6. QED BY <1>1, <1>2, <1>3, <1>4, <1>5

\* A line is known by where it begins.
LEMMA LineUnique ==
  ASSUME NEW t \in Seq(Symbols), NEW l \in Lines(t), NEW k \in Lines(t), l[1] = k[1]
  PROVE  l = k
<1>1. /\ l = <<l[1], l[2]>> /\ k = <<k[1], k[2]>>
      /\ l[1] \in Nat /\ l[2] \in Nat /\ k[2] \in Nat /\ Len(t) \in Nat
      /\ l[2] \in l[1] .. Len(t) + 1 /\ k[2] \in k[1] .. Len(t) + 1
  BY LineParts
<1>2. /\ l[2] = Len(t) + 1 \/ t[l[2]] = Newline
      /\ k[2] = Len(t) + 1 \/ t[k[2]] = Newline
      /\ \A i \in l[1] .. l[2] - 1 : t[i] # Newline
      /\ \A i \in k[1] .. k[2] - 1 : t[i] # Newline
  BY LineParts
<1>3. l[2] = k[2]
  BY <1>1, <1>2
<1>4. QED BY <1>1, <1>3

\* A line begins at the beginning and behind every line end.
LEMMA LineFrom ==
  ASSUME NEW t \in Seq(Symbols), NEW a \in 1 .. Len(t) + 1, a = 1 \/ t[a - 1] = Newline
  PROVE  \E l \in Lines(t) : l[1] = a
<1> DEFINE S == {k \in Ends(t) : k >= a}
<1>1. Len(t) \in Nat /\ DOMAIN t = 1 .. Len(t)
  BY LenProperties
<1>2. S \subseteq Nat /\ S # {} /\ Ends(t) \subseteq Nat
  BY <1>1 DEF Ends
<1>3. Min(S) \in S /\ \A k \in S : Min(S) <= k
  BY <1>2, MinOfNats
<1> DEFINE m == Min(S)
<1>4. m \in Ends(t) /\ m >= a /\ \A k \in Ends(t) : k >= a => m <= k
  BY <1>3
<1> HIDE DEF m
<1>5. <<a, m>> \in Lines(t)
  BY <1>1, <1>4 DEF Lines, Ends
<1>6. QED BY <1>5

LEMMA LinesFinite ==
  ASSUME NEW t \in Seq(Symbols)
  PROVE  IsFiniteSet(Lines(t))
<1>1. Len(t) \in Nat
  BY LenProperties
<1> DEFINE N == 1 .. Len(t) + 1
<1>2. IsFiniteSet(N)
  BY <1>1, FS_Interval
<1>3. \A l \in Lines(t) : l = <<l[1], l[2]>> /\ l[1] \in N /\ l[2] \in N
  BY <1>1, LineParts
<1> HIDE DEF N
<1>4. Lines(t) \subseteq N \X N
  BY <1>3
<1>5. IsFiniteSet(N \X N)
  BY <1>2, FS_Product
<1>6. QED BY <1>4, <1>5, FS_Subset

\* The lines before a place and the lines up to it.
Before(t, a) == {k \in Lines(t) : k[1] < a}
UpTo(t, a) == {k \in Lines(t) : k[1] <= a}

LEMMA LineCounts ==
  ASSUME NEW t \in Seq(Symbols), NEW a
  PROVE  /\ IsFiniteSet(Before(t, a)) /\ IsFiniteSet(UpTo(t, a))
         /\ Cardinality(Before(t, a)) \in Nat /\ Cardinality(UpTo(t, a)) \in Nat
         /\ Cardinality(Lines(t)) \in Nat
         /\ Cardinality(UpTo(t, a)) <= Cardinality(Lines(t))
<1>1. Before(t, a) \in SUBSET Lines(t) /\ UpTo(t, a) \in SUBSET Lines(t)
  BY DEF Before, UpTo
<1>2. QED BY <1>1, LinesFinite, FS_Subset, FS_CardinalityType

\* A line is one more than the lines before it.
LEMMA LineAdds ==
  ASSUME NEW t \in Seq(Symbols), NEW l \in Lines(t)
  PROVE  Cardinality(UpTo(t, l[1])) = Cardinality(Before(t, l[1])) + 1
<1>1. \A k \in Lines(t) : k[1] \in Nat /\ (k[1] = l[1] => k = l)
  BY LineParts, LineUnique
<1>2. UpTo(t, l[1]) = Before(t, l[1]) \cup {l} /\ l \notin Before(t, l[1])
  BY <1>1 DEF UpTo, Before
<1>3. QED BY <1>2, LineCounts, FS_AddElement

\* Two lines do not have the same number.
LEMMA LineNumbers ==
  ASSUME NEW t \in Seq(Symbols), NEW l \in Lines(t), NEW k \in Lines(t),
         Cardinality(UpTo(t, l[1])) = Cardinality(UpTo(t, k[1]))
  PROVE  l = k
<1>1. \A i, j \in Lines(t) :
        i[1] <= j[1] /\ Cardinality(UpTo(t, i[1])) = Cardinality(UpTo(t, j[1])) => i[1] = j[1]
  <2> SUFFICES ASSUME NEW i \in Lines(t), NEW j \in Lines(t), i[1] <= j[1],
                      Cardinality(UpTo(t, i[1])) = Cardinality(UpTo(t, j[1]))
               PROVE  i[1] = j[1]
    OBVIOUS
  <2>1. \A m \in Lines(t) : m[1] \in Nat
    BY LineParts
  <2>2. UpTo(t, i[1]) \in SUBSET UpTo(t, j[1])
    BY <2>1 DEF UpTo
  <2>3. UpTo(t, j[1]) = UpTo(t, i[1])
    BY <2>2, LineCounts, FS_Subset
  <2>4. j \in UpTo(t, j[1])
    BY <2>1 DEF UpTo
  <2>5. QED BY <2>1, <2>3, <2>4 DEF UpTo
<1>2. l[1] \in Nat /\ k[1] \in Nat
  BY LineParts
<1>3. l[1] = k[1]
  BY <1>1, <1>2
<1>4. QED BY <1>3, LineUnique

\* Behind a line end the next line begins.
LEMMA NextLine ==
  ASSUME NEW t \in Seq(Symbols), NEW l \in Lines(t), l[2] <= Len(t)
  PROVE  /\ \E k \in Lines(t) : k[1] = l[2] + 1
         /\ Before(t, l[2] + 1) = UpTo(t, l[1])
<1>1. /\ Len(t) \in Nat /\ l[1] \in Nat \ {0} /\ l[2] \in Nat \ {0} /\ l[1] <= l[2]
      /\ t[l[2]] = Newline
      /\ \A i \in l[1] .. l[2] - 1 : t[i] # Newline
  BY LineParts
<1>2. l[2] + 1 \in 1 .. Len(t) + 1 /\ (l[2] + 1) - 1 = l[2]
  BY <1>1
<1>3. \E k \in Lines(t) : k[1] = l[2] + 1
  BY <1>1, <1>2, LineFrom
<1>4. ASSUME NEW k \in Lines(t) PROVE k[1] < l[2] + 1 <=> k[1] <= l[1]
  <2>1. k[1] \in Nat /\ (k[1] = 1 \/ t[k[1] - 1] = Newline)
    BY LineParts
  <2>2. QED BY <1>1, <2>1
<1>5. QED BY <1>3, <1>4 DEF Before, UpTo

\* Behind the last line nothing begins.
LEMMA LastLine ==
  ASSUME NEW t \in Seq(Symbols), NEW l \in Lines(t), l[2] = Len(t) + 1
  PROVE  Lines(t) = UpTo(t, l[1])
<1>1. /\ Len(t) \in Nat /\ l[1] \in Nat \ {0}
      /\ \A i \in l[1] .. Len(t) : t[i] # Newline
  BY LineParts
<1>2. ASSUME NEW k \in Lines(t) PROVE k[1] <= l[1]
  <2>1. k[1] \in 1 .. Len(t) + 1 /\ (k[1] = 1 \/ t[k[1] - 1] = Newline)
    BY LineParts
  <2>2. QED BY <1>1, <2>1
<1>3. QED BY <1>2 DEF UpTo

LEMMA FirstLine ==
  ASSUME NEW t \in Seq(Symbols)
  PROVE  /\ \E l \in Lines(t) : l[1] = 1
         /\ Cardinality(Before(t, 1)) = 0
<1>1. 1 \in 1 .. Len(t) + 1
  BY LenProperties
<1>2. Before(t, 1) = {}
  BY LineParts DEF Before
<1>3. QED BY <1>1, <1>2, LineFrom, FS_EmptySet

-----------------------------------------------------------------------------
\* strstr finds the first.
LEMMA FindIs ==
  ASSUME text \in Seq(Symbols), NEW symbol, NEW from \in Nat \ {0},
         NEW p \in from .. Len(text), text[p] = symbol,
         \A i \in from .. p - 1 : text[i] # symbol
  PROVE  Find(symbol, from) = p
<1> DEFINE at == {i \in from .. Len(text) : text[i] = symbol}
<1>1. Len(text) \in Nat
  BY LenProperties
<1>2. at \subseteq Nat /\ p \in at /\ \A y \in at : y >= p
  BY <1>1
<1>3. Min(at) \in at /\ \A y \in at : Min(at) <= y
  BY <1>2, MinOfNats
<1> HIDE DEF at
<1>4. Min(at) = p
  <2> DEFINE m == Min(at)
  <2>1. m \in Nat /\ p \in Nat /\ m <= p /\ m >= p
    BY <1>2, <1>3
  <2> HIDE DEF m
  <2>2. m = p
    BY <2>1
  <2>3. QED BY <2>2 DEF m
<1>5. QED BY <1>2, <1>4 DEF Find, at

LEMMA FindNone ==
  ASSUME text \in Seq(Symbols), NEW symbol, NEW from \in Nat \ {0},
         \A i \in from .. Len(text) : text[i] # symbol
  PROVE  Find(symbol, from) = 0
  BY DEF Find

\* From within a line strstr finds the end of the line.
LEMMA FindLineEnd ==
  ASSUME text \in Seq(Symbols), NEW l \in Lines(text), NEW from \in l[1] .. l[2]
  PROVE  /\ Find(Newline, from) = IF l[2] = Len(text) + 1 THEN 0 ELSE l[2]
         /\ LineEnd(from) = l[2] - 1
<1>1. /\ Len(text) \in Nat /\ l[1] \in Nat \ {0} /\ l[2] \in 1 .. Len(text) + 1
      /\ l[2] = Len(text) + 1 \/ text[l[2]] = Newline
      /\ \A i \in l[1] .. l[2] - 1 : text[i] # Newline
  BY LineParts
<1>2. from \in Nat \ {0} /\ \A i \in from .. l[2] - 1 : text[i] # Newline
  BY <1>1
<1>3. CASE l[2] = Len(text) + 1
  <2>1. \A i \in from .. Len(text) : text[i] # Newline
    BY <1>1, <1>2, <1>3
  <2>2. QED BY <1>1, <1>2, <1>3, <2>1, FindNone DEF LineEnd
<1>4. CASE l[2] # Len(text) + 1
  <2>1. l[2] \in from .. Len(text) /\ text[l[2]] = Newline
    BY <1>1, <1>2, <1>4
  <2>2. Find(Newline, from) = l[2]
    BY <1>2, <2>1, FindIs
  <2>3. QED BY <1>1, <1>4, <2>2 DEF LineEnd
<1>5. QED BY <1>3, <1>4

\* The length of a row and of what is behind its name and its two commas.
LEMMA PartsAdd ==
  ASSUME NEW row \in Nat, NEW name \in Nat, NEW value \in Nat, value = row - name - 3,
         NEW i \in 1 .. row
  PROVE  i \in Nat /\ i >= 1 /\ i <= row /\ i \in 1 .. (name + 3) + value
  OBVIOUS

\* A good line is found as it stands, by what decodes it.
LEMMA GoodRowFound ==
  ASSUME text \in Seq(Symbols), NEW l \in Lines(text), GoodRow(LineOf(text, l)),
         NEW comma, comma = Find(Comma, l[1]),
         NEW before, before = Find(Comma, comma + 1),
         NEW value, value = SubSeq(text, before + 1, LineEnd(before + 1))
  PROVE  /\ comma # 0 /\ before # 0 /\ StampAt(comma + 1)
         /\ Len(value) <= ValueSize - 1
         /\ \A old : IsRow(LineOf(text, l), SetRow(old, Name(l[1], comma), value))
<1> DEFINE line == LineOf(text, l)
           a == l[1]
           e == l[2]
<1>1. /\ Len(text) \in Nat /\ a \in Nat \ {0} /\ e \in Nat /\ a <= e /\ e <= Len(text) + 1
      /\ \A i \in 1 .. Len(text) : text[i] \in Symbols
      /\ \A i \in a .. e - 1 : i \in 1 .. Len(text)
  BY LineParts, ElementOfSeq
<1>2. /\ line \in Seq(Symbols) /\ Len(line) = e - a
      /\ \A i \in 1 .. e - a : line[i] = text[a + i - 1]
  <2> HIDE DEF a, e
  <2>1. line = SubSeq(text, a, e - 1)
    BY DEF LineOf, a, e
  <2>2. a \in Int /\ e - 1 \in Int /\ \A i \in a .. e - 1 : text[i] \in Symbols
    BY <1>1
  <2> HIDE DEF line
  <2>3. /\ SubSeq(text, a, e - 1) \in Seq(Symbols)
        /\ Len(SubSeq(text, a, e - 1)) = IF a <= e - 1 THEN (e - 1) - a + 1 ELSE 0
        /\ \A i \in 1 .. (e - 1) - a + 1 : SubSeq(text, a, e - 1)[i] = text[a + i - 1]
    BY <2>2, SubSeqProperties
  <2>4. QED BY <1>1, <2>1, <2>3
<1> HIDE DEF line, a, e
<1>3. PICK n \in 1 .. Len(line) - 3 :
        /\ n < NameSize /\ Len(line) - n - 3 < ValueSize
        /\ SubSeq(line, n + 1, n + 3) = <<Comma, Stamp, Comma>>
        /\ \A i \in 1 .. n : line[i] \in Letters
  BY DEF GoodRow, line
<1>4. n \in Nat \ {0} /\ a + n + 3 <= e
  BY <1>1, <1>2, <1>3
<1>5. line[n + 1] = Comma /\ line[n + 2] = Stamp /\ line[n + 3] = Comma
  <2>1. n + 1 \in Int /\ n + 3 \in Int /\ \A i \in n + 1 .. n + 3 : line[i] \in Symbols
    BY <1>1, <1>2, <1>4, ElementOfSeq
  <2>2. \A i \in 1 .. (n + 3) - (n + 1) + 1 : SubSeq(line, n + 1, n + 3)[i] = line[(n + 1) + i - 1]
    BY <2>1, SubSeqProperties
  <2> DEFINE piece == SubSeq(line, n + 1, n + 3)
  <2>3. piece[1] = Comma /\ piece[2] = Stamp /\ piece[3] = Comma
    <3>1. piece = <<Comma, Stamp, Comma>>
      BY <1>3
    <3> HIDE DEF piece
    <3>2. QED BY <3>1
  <2> HIDE DEF piece
  <2>4. \A i \in 1 .. 3 : piece[i] = line[n + i]
    <3>1. (n + 3) - (n + 1) + 1 = 3 /\ \A i \in 1 .. 3 : (n + 1) + i - 1 = n + i
      BY <1>4
    <3>2. QED BY <2>2, <3>1 DEF piece
  <2>5. QED BY <2>3, <2>4
<1>6. /\ text[a + n] = Comma /\ text[a + n + 1] = Stamp /\ text[a + n + 2] = Comma
      /\ \A i \in a .. a + n - 1 : text[i] # Comma
  <2>0. \A i \in 1 .. n + 3 : i \in 1 .. e - a /\ line[i] = text[a + i - 1]
    BY <1>1, <1>2, <1>4
  <2>1. text[a + n] = line[n + 1] /\ text[a + n + 1] = line[n + 2] /\ text[a + n + 2] = line[n + 3]
    <3>1. /\ n + 1 \in 1 .. n + 3 /\ n + 2 \in 1 .. n + 3 /\ n + 3 \in 1 .. n + 3
          /\ a + (n + 1) - 1 = a + n /\ a + (n + 2) - 1 = a + n + 1 /\ a + (n + 3) - 1 = a + n + 2
      BY <1>1, <1>4
    <3>2. QED BY <2>0, <3>1
  <2>2. \A i \in 1 .. n : text[a + i - 1] \in Letters
    <3>1. \A i \in 1 .. n : i \in 1 .. n + 3
      BY <1>4
    <3>2. QED BY <1>3, <2>0, <3>1
  <2>3. ASSUME NEW i \in a .. a + n - 1 PROVE text[i] \in Letters
    <3>1. i - a + 1 \in 1 .. n /\ a + (i - a + 1) - 1 = i
      BY <1>1, <1>4
    <3>2. QED BY <2>2, <3>1
  <2>4. QED BY <1>5, <2>1, <2>3, CsvAssumption DEF CsvAssumption
<1>7. comma = a + n
  <2>1. Find(Comma, a) = a + n
    BY <1>1, <1>4, <1>6, FindIs
  <2>2. QED BY <2>1 DEF a
<1>8. before = a + n + 2
  <2>1. Stamp # Comma
    BY DEF Stamp, Comma
  <2>2. \A i \in a + n + 1 .. (a + n + 2) - 1 : text[i] # Comma
    BY <1>1, <1>4, <1>6, <2>1
  <2>3. a + n + 2 \in a + n + 1 .. Len(text) /\ a + n + 1 \in Nat \ {0}
    BY <1>1, <1>4
  <2>4. Find(Comma, a + n + 1) = a + n + 2
    BY <1>6, <2>2, <2>3, FindIs
  <2>5. QED BY <1>7, <2>4
<1>9. StampAt(comma + 1)
  <2>1. a + n + 1 \in a + n + 1 .. Len(text) /\ \A j \in a + n + 1 .. (a + n + 1) - 1 : text[j] = Newline
    BY <1>1, <1>4
  <2>2. QED BY <1>6, <1>7, <2>1 DEF StampAt
<1>10. LineEnd(before + 1) = e - 1
  <2>1. before + 1 \in l[1] .. l[2]
    BY <1>1, <1>4, <1>8 DEF a, e
  <2>2. QED BY <2>1, FindLineEnd DEF e
<1>11. /\ value \in Seq(Symbols) /\ Len(value) = (e - a) - n - 3
       /\ \A i \in 1 .. (e - a) - n - 3 : value[i] = text[a + n + 2 + i]
  <2>1. value = SubSeq(text, a + n + 3, e - 1)
    BY <1>1, <1>4, <1>8, <1>10
  <2>2. a + n + 3 \in Int /\ e - 1 \in Int /\ \A i \in a + n + 3 .. e - 1 : text[i] \in Symbols
    BY <1>1, <1>4
  <2>3. /\ SubSeq(text, a + n + 3, e - 1) \in Seq(Symbols)
        /\ Len(SubSeq(text, a + n + 3, e - 1)) = IF a + n + 3 <= e - 1 THEN (e - 1) - (a + n + 3) + 1 ELSE 0
        /\ \A i \in 1 .. (e - 1) - (a + n + 3) + 1 :
              SubSeq(text, a + n + 3, e - 1)[i] = text[(a + n + 3) + i - 1]
    BY <2>2, SubSeqProperties
  <2>4. /\ (IF a + n + 3 <= e - 1 THEN (e - 1) - (a + n + 3) + 1 ELSE 0) = (e - a) - n - 3
        /\ (e - 1) - (a + n + 3) + 1 = (e - a) - n - 3
        /\ \A i \in 1 .. (e - a) - n - 3 : (a + n + 3) + i - 1 = a + n + 2 + i
    BY <1>1, <1>4
  <2>5. QED BY <2>1, <2>3, <2>4
<1>12. Len(value) <= ValueSize - 1
  <2>1. Len(line) - n - 3 = Len(value) /\ Len(value) \in Int
    BY <1>1, <1>2, <1>4, <1>11
  <2>2. Len(value) < ValueSize
    BY <1>3, <2>1
  <2>3. \A k \in Int : k < ValueSize => k <= ValueSize - 1
    BY SizesTyped
  <2>4. QED BY <2>1, <2>2, <2>3, Zenon
<1> DEFINE name == Name(a, comma)
<1>13. /\ name \in Seq(Symbols) /\ Len(name) = n
       /\ \A i \in 1 .. n : name[i] = text[a + i - 1]
  <2>1. Min({comma - 1, a + NameSize - 2}) = a + n - 1
    <3>1. comma - 1 \in Int /\ a + NameSize - 2 \in Int /\ comma - 1 = a + n - 1
          /\ comma - 1 <= a + NameSize - 2
      BY <1>1, <1>3, <1>4, <1>7, SizesTyped
    <3>2. QED BY <3>1, MinOfTwo
  <2>2. name = SubSeq(text, a, a + n - 1)
    BY <2>1 DEF Name
  <2>3. a \in Int /\ a + n - 1 \in Int /\ \A i \in a .. a + n - 1 : text[i] \in Symbols
    BY <1>1, <1>4
  <2>4. /\ SubSeq(text, a, a + n - 1) \in Seq(Symbols)
        /\ Len(SubSeq(text, a, a + n - 1)) = IF a <= a + n - 1 THEN (a + n - 1) - a + 1 ELSE 0
        /\ \A i \in 1 .. (a + n - 1) - a + 1 : SubSeq(text, a, a + n - 1)[i] = text[a + i - 1]
    BY <2>3, SubSeqProperties
  <2> HIDE DEF name
  <2>5. QED BY <1>1, <1>4, <2>2, <2>4
<1> HIDE DEF name
<1> DEFINE mid == <<Comma, Stamp, Comma>>
<1>14. mid \in Seq(Symbols) /\ Len(mid) = 3 /\ mid[1] = Comma /\ mid[2] = Stamp /\ mid[3] = Comma
  BY DEF Symbols
<1> HIDE DEF mid
<1> DEFINE left == name \o mid
<1>15. /\ left \in Seq(Symbols) /\ Len(left) = n + 3
       /\ \A i \in 1 .. n + 3 : left[i] = IF i <= n THEN name[i] ELSE mid[i - n]
  <2> HIDE DEF left
  <2>1. left = name \o mid
    BY DEF left
  <2>2. /\ name \o mid \in Seq(Symbols) /\ Len(name \o mid) = Len(name) + Len(mid)
        /\ \A i \in 1 .. Len(name) + Len(mid) :
             (name \o mid)[i] = IF i <= Len(name) THEN name[i] ELSE mid[i - Len(name)]
    BY <1>13, <1>14, ConcatProperties
  <2>3. QED BY <1>4, <1>13, <1>14, <2>1, <2>2
<1> HIDE DEF left
<1> DEFINE whole == left \o value
<1>16. /\ whole \in Seq(Symbols) /\ Len(whole) = (n + 3) + Len(value)
       /\ \A i \in 1 .. (n + 3) + Len(value) :
             whole[i] = IF i <= n + 3 THEN left[i] ELSE value[i - (n + 3)]
  BY <1>11, <1>15, ConcatProperties, SMTT(30)
<1> HIDE DEF whole
<1>17. line = whole
  <2>1. Len(line) = Len(whole) /\ Len(line) = e - a
    BY <1>1, <1>2, <1>4, <1>11, <1>16
  <2>2. ASSUME NEW i \in 1 .. Len(line) PROVE line[i] = whole[i]
    <3>0. i \in Nat /\ i >= 1 /\ i <= e - a /\ i \in 1 .. (n + 3) + Len(value)
      <4>1. Len(line) \in Nat /\ Len(value) \in Nat /\ n \in Nat
        BY <1>2, <1>4, <1>11
      <4>2. Len(value) = Len(line) - n - 3
        BY <1>11, <2>1
      <4>3. i \in Nat /\ i >= 1 /\ i <= Len(line) /\ i \in 1 .. (n + 3) + Len(value)
        BY <4>1, <4>2, PartsAdd
      <4>4. QED BY <2>1, <4>3
    <3>5. whole[i] = IF i <= n + 3 THEN left[i] ELSE value[i - (n + 3)]
      BY <1>16, <3>0
    <3>6. i <= n + 3 => left[i] = IF i <= n THEN name[i] ELSE mid[i - n]
      BY <1>4, <1>15, <3>0
    <3>1. CASE i <= n
      <4>1. line[i] = text[a + i - 1] /\ name[i] = text[a + i - 1]
        BY <1>2, <1>4, <1>13, <3>0, <3>1
      <4>2. left[i] = name[i] /\ whole[i] = left[i]
        BY <1>4, <3>0, <3>1, <3>5, <3>6
      <4>3. QED BY <4>1, <4>2
    <3>2. CASE i > n /\ i <= n + 3
      <4>1. i - n \in {1, 2, 3}
        BY <1>4, <3>0, <3>2
      <4>2. left[i] = mid[i - n] /\ whole[i] = left[i]
        BY <1>4, <3>0, <3>2, <3>5, <3>6
      <4>3. line[i] = mid[i - n]
        <5>1. i = n + 1 \/ i = n + 2 \/ i = n + 3
          BY <1>4, <3>0, <4>1
        <5>2. QED BY <1>4, <1>5, <1>14, <4>1, <5>1
      <4>4. QED BY <4>2, <4>3
    <3>3. CASE i > n + 3
      <4>1. whole[i] = value[i - (n + 3)]
        <5>1. ~(i <= n + 3)
          BY <1>4, <3>0, <3>3
        <5>2. QED BY <3>5, <5>1
      <4>2. i - (n + 3) \in 1 .. (e - a) - n - 3 /\ a + n + 2 + (i - (n + 3)) = a + i - 1
        BY <1>1, <1>4, <3>0, <3>3
      <4>3. line[i] = text[a + i - 1]
        BY <1>2, <2>1
      <4>4. QED BY <1>11, <4>1, <4>2, <4>3
    <3>4. QED BY <1>4, <3>0, <3>1, <3>2, <3>3
  <2>3. QED BY <1>2, <1>16, <2>1, <2>2, SeqEqual
<1>18. ASSUME NEW old PROVE IsRow(line, SetRow(old, name, value))
  BY <1>17 DEF IsRow, SetRow, whole, left, mid
<1>19. comma # 0 /\ before # 0
  BY <1>1, <1>4, <1>7, <1>8
<1>20. QED BY <1>9, <1>12, <1>18, <1>19 DEF line, name, a

-----------------------------------------------------------------------------
(***************************************************************************)
(* What is decoded so far: a place of the feed per line.                   *)
(***************************************************************************)
\* The row that is decoded begins where a line begins, and is the one behind
\* the rows that were.
RowsInv ==
    stage = "rows" =>
        \E l \in Lines(text) :
            l[1] = current /\ Cardinality(Before(text, current)) = counter

RowsDecoded == \A i \in 1 .. counter : feed.streams[i].count = 1

Returned ==
    result = "feed" =>
        feed.count = counter /\ counter = Cardinality(Lines(text)) /\ counter < MaxStreams

Refused == result = "null" => Cardinality(Lines(text)) >= MaxStreams \/ ~Good(text)

FeedInv == RowsInv /\ RowsDecoded /\ GoodRowsSurvive /\ Returned /\ Refused

\* A line and its number.
Number(t, l) == Cardinality(UpTo(t, l[1]))

LEMMA Survive ==
    GoodRowsSurvive <=>
        \A l \in Lines(text) :
            Number(text, l) <= counter /\ GoodRow(LineOf(text, l)) =>
                /\ IsRow(LineOf(text, l), feed.streams[Number(text, l)])
                /\ feed.streams[Number(text, l)].count = 1
  BY DEF GoodRowsSurvive, Number, UpTo

LEMMA NumberTyped ==
  ASSUME NEW t \in Seq(Symbols), NEW l \in Lines(t)
  PROVE  Number(t, l) \in Nat \ {0}
<1>1. Cardinality(Before(t, l[1])) \in Nat
  BY LineCounts
<1>2. QED BY <1>1, LineAdds DEF Number

\* The place of a row that failed lies behind the rows that were decoded.
LEMMA RowFailsKeeps ==
  ASSUME TypeOK, stage = "rows", FeedInv, NEW s, RowFails(s), ~Good(text)
  PROVE  FeedInv'
<1>1. counter \in Nat /\ text \in Seq(Symbols)
  BY TextTyped, TypeParts
<1>2. /\ feed'.streams = [feed.streams EXCEPT ![counter + 1] = s]
      /\ text' = text /\ counter' = counter /\ stage' = "idle" /\ result' = "null"
  <2>1. feed' = [feed EXCEPT !.streams = [feed.streams EXCEPT ![counter + 1] = s]]
    BY DEF RowFails
  <2>2. feed'.streams = [feed.streams EXCEPT ![counter + 1] = s]
    BY <2>1 DEF TypeOK
  <2>3. QED BY <2>2 DEF RowFails
<1>3. ASSUME NEW i \in 1 .. counter PROVE feed'.streams[i] = feed.streams[i]
  <2>1. i # counter + 1
    BY <1>1
  <2>2. i \in 1 .. MaxStreams
    BY <1>1, TypeParts, SizesTyped
  <2>3. QED BY <1>2, <2>1, <2>2 DEF TypeOK
<1>4. RowsInv' /\ Returned' /\ Refused'
  BY <1>2 DEF RowsInv, Returned, Refused
<1>5. RowsDecoded'
  BY <1>1, <1>2, <1>3 DEF RowsDecoded, FeedInv
<1>6. GoodRowsSurvive'
  <2>1. ASSUME NEW l \in Lines(text), Number(text, l) <= counter, GoodRow(LineOf(text, l))
        PROVE  /\ IsRow(LineOf(text, l), feed'.streams[Number(text, l)])
               /\ feed'.streams[Number(text, l)].count = 1
    <3>1. Number(text, l) \in 1 .. counter
      BY <1>1, <2>1, NumberTyped
    <3>2. QED BY <1>3, <2>1, <3>1, Survive DEF FeedInv
  <2>2. QED BY <1>2, <2>1 DEF GoodRowsSurvive, Number, UpTo
<1>7. QED BY <1>4, <1>5, <1>6 DEF FeedInv

\* A row that cannot be decoded is not a good one.
LEMMA FailingText ==
  ASSUME CsvInv, FeedInv, NoName \/ NoDatapoint
  PROVE  stage = "rows" /\ ~Good(text)
<1> DEFINE comma == Find(Comma, current)
           before == Find(Comma, comma + 1)
           value == SubSeq(text, before + 1, LineEnd(before + 1))
<1>1. stage = "rows"
  BY DEF NoName, NoDatapoint
<1>2. text \in Seq(Symbols)
  BY TextTyped DEF CsvInv
<1>3. PICK l \in Lines(text) : l[1] = current
  BY <1>1 DEF FeedInv, RowsInv
<1>4. SUFFICES ASSUME GoodRow(LineOf(text, l)) PROVE FALSE
  BY <1>1, <1>3 DEF Good
<1>5. comma # 0 /\ before # 0 /\ StampAt(comma + 1) /\ Len(value) <= ValueSize - 1
  BY <1>2, <1>3, <1>4, GoodRowFound
<1>6. CASE NoName
  BY <1>5, <1>6 DEF NoName
<1>7. CASE NoDatapoint
  <2> HIDE DEF value
  <2>1. Len(value) > ValueSize - 1
    BY <1>5, <1>7 DEF NoDatapoint, value
  <2>2. Len(value) \in Int
    <3>1. before \in Nat
      <4>1. current \in Nat \ {0}
        BY TypeParts DEF CsvInv
      <4>2. comma \in Nat
        BY <1>2, <4>1, FindTyped
      <4>3. QED BY <1>2, <4>2, FindTyped
    <3>2. value \in Seq(Symbols)
      BY <1>2, <3>1, ValueTyped DEF value
    <3>3. QED BY <3>2
  <2>3. QED BY <1>5, <2>1, <2>2, SizesTyped
<1>8. QED BY <1>6, <1>7

\* A row that is decoded is the line it begins with.
LEMMA DecodeRowKeeps ==
  ASSUME CsvInv, FeedInv, DecodeRow
  PROVE  FeedInv'
<1> DEFINE comma == Find(Comma, current)
           before == Find(Comma, comma + 1)
           end == Find(Newline, current)
           value == SubSeq(text, before + 1, LineEnd(before + 1))
           row == SetRow(feed.streams[counter + 1], Name(current, comma), value)
           rows == [feed.streams EXCEPT ![counter + 1] = row]
<1>1. /\ stage = "rows" /\ counter' = counter + 1 /\ current' = end + 1 /\ text' = text
      /\ \/ /\ TooMany(counter') /\ feed' = [feed EXCEPT !.streams = rows]
            /\ stage' = "idle" /\ result' = "null"
         \/ /\ ~TooMany(counter') /\ end = 0 /\ feed' = [count |-> counter', streams |-> rows]
            /\ stage' = "idle" /\ result' = "feed"
         \/ /\ ~TooMany(counter') /\ end # 0 /\ feed' = [feed EXCEPT !.streams = rows]
            /\ stage' = stage /\ result' = result
  BY DEF DecodeRow, RowEnd
<1>2. /\ text \in Seq(Symbols) /\ counter \in Nat /\ counter + 1 \in 1 .. MaxStreams
      /\ counter < MaxStreams /\ result = "none" /\ TypeOK
  BY <1>1, TextTyped, RowHasPlace, TypeParts DEF CsvInv, Running
<1>3. PICK l \in Lines(text) : l[1] = current /\ Cardinality(Before(text, current)) = counter
  BY <1>1 DEF FeedInv, RowsInv
<1>4. Number(text, l) = counter + 1
  BY <1>2, <1>3, LineAdds DEF Number
<1>5. /\ Len(text) \in Nat /\ l[1] \in Nat \ {0} /\ l[2] \in l[1] .. Len(text) + 1
  BY <1>2, LineParts
<1>6. end = IF l[2] = Len(text) + 1 THEN 0 ELSE l[2]
  <2>1. current \in l[1] .. l[2]
    BY <1>3, <1>5
  <2>2. QED BY <1>2, <2>1, FindLineEnd
<1>7. GoodRow(LineOf(text, l)) => IsRow(LineOf(text, l), row)
  BY <1>2, <1>3, GoodRowFound
<1>8. row.count = 1
  BY DEF SetRow
<1> HIDE DEF comma, before, end, value, row
<1>9. /\ feed'.streams = rows
      /\ rows[counter + 1] = row
      /\ \A i \in 1 .. counter : i \in 1 .. MaxStreams /\ i # counter + 1 /\ rows[i] = feed.streams[i]
  <2>1. feed'.streams = rows
    BY <1>1, <1>2 DEF TypeOK
  <2>2. feed.streams \in [1 .. MaxStreams -> Streams]
    BY <1>2 DEF TypeOK
  <2>3. \A i \in 1 .. counter : i \in 1 .. MaxStreams /\ i # counter + 1
    BY <1>2, SizesTyped
  <2>4. QED BY <1>2, <2>1, <2>2, <2>3
<1> HIDE DEF rows
<1>10. RowsDecoded'
  <2>1. ASSUME NEW i \in 1 .. counter + 1 PROVE feed'.streams[i].count = 1
    <3>1. CASE i = counter + 1
      BY <1>8, <1>9, <3>1
    <3>2. CASE i # counter + 1
      <4>1. i \in 1 .. counter
        BY <1>2, <3>2
      <4>2. QED BY <1>9, <4>1 DEF FeedInv, RowsDecoded
    <3>3. QED BY <3>1, <3>2
  <2>2. QED BY <1>1, <2>1 DEF RowsDecoded
<1>11. GoodRowsSurvive'
  <2>1. ASSUME NEW k \in Lines(text), Number(text, k) <= counter + 1, GoodRow(LineOf(text, k))
        PROVE  /\ IsRow(LineOf(text, k), feed'.streams[Number(text, k)])
               /\ feed'.streams[Number(text, k)].count = 1
    <3>1. CASE Number(text, k) = counter + 1
      <4>1. k = l
        BY <1>2, <1>4, <3>1, LineNumbers DEF Number
      <4>2. QED BY <1>7, <1>8, <1>9, <2>1, <3>1, <4>1
    <3>2. CASE Number(text, k) # counter + 1
      <4>1. Number(text, k) \in 1 .. counter
        BY <1>2, <2>1, <3>2, NumberTyped
      <4>2. Number(text, k) <= counter
        BY <4>1, <1>2
      <4>3. QED BY <1>9, <2>1, <4>1, <4>2, Survive DEF FeedInv
    <3>3. QED BY <3>1, <3>2
  <2>2. QED BY <1>1, <2>1 DEF GoodRowsSurvive, Number, UpTo
<1>12. Cardinality(Lines(text)) \in Nat /\ counter + 1 <= Cardinality(Lines(text))
  BY <1>2, <1>4, LineCounts DEF Number
<1>13. RowsInv'
  <2> SUFFICES ASSUME stage' = "rows" PROVE RowsInv'
    BY DEF RowsInv
  <2>1. end # 0
    BY <1>1
  <2>2. l[2] <= Len(text) /\ current' = l[2] + 1
    BY <1>1, <1>5, <1>6, <2>1
  <2>3. \E k \in Lines(text) : k[1] = l[2] + 1
    BY <1>2, <2>2, NextLine
  <2>4. Cardinality(Before(text, l[2] + 1)) = counter + 1
    BY <1>2, <1>4, <2>2, NextLine DEF Number
  <2>5. QED BY <1>1, <2>2, <2>3, <2>4 DEF RowsInv
<1>14. Returned'
  <2> SUFFICES ASSUME result' = "feed" PROVE Returned'
    BY DEF Returned
  <2>1. /\ ~TooMany(counter') /\ end = 0 /\ feed' = [count |-> counter', streams |-> rows]
    BY <1>1, <1>2
  <2>2. l[2] = Len(text) + 1
    BY <1>5, <1>6, <2>1
  <2>3. Cardinality(Lines(text)) = counter + 1
    BY <1>2, <1>4, <2>2, LastLine DEF Number
  <2>4. counter + 1 < MaxStreams
    BY <1>1, <1>2, <2>1, SizesTyped DEF TooMany
  <2>5. feed'.count = counter'
    BY <2>1
  <2>6. QED BY <1>1, <2>3, <2>4, <2>5 DEF Returned
<1>15. Refused'
  <2> SUFFICES ASSUME result' = "null" PROVE Refused'
    BY DEF Refused
  <2>1. counter + 1 = MaxStreams
    BY <1>1, <1>2 DEF TooMany
  <2>2. Cardinality(Lines(text)) >= MaxStreams
    BY <1>12, <2>1, SizesTyped
  <2>3. QED BY <1>1, <2>2 DEF Refused
<1>16. QED BY <1>10, <1>11, <1>13, <1>14, <1>15 DEF FeedInv

LEMMA FeedStep ==
  ASSUME CsvInv, FeedInv, [Next]_vars
  PROVE  FeedInv'
<1>1. ASSUME NEW t \in Contents, Decode(t) PROVE FeedInv'
  <2>1. t \in Seq(Symbols)
    BY SizesTyped
  <2>2. text' = t /\ stage' = "rows" /\ current' = 1 /\ counter' = 0 /\ result' = "none"
    BY <1>1 DEF Decode
  <2>3. RowsInv'
    BY <2>1, <2>2, FirstLine DEF RowsInv
  <2>4. GoodRowsSurvive'
    <3>1. \A l \in Lines(t) : ~(Number(t, l) <= 0)
      BY <2>1, NumberTyped
    <3>2. QED BY <2>2, <3>1 DEF GoodRowsSurvive, Number, UpTo
  <2>5. RowsDecoded' /\ Returned' /\ Refused'
    BY <2>2 DEF RowsDecoded, Returned, Refused
  <2>6. QED BY <2>3, <2>4, <2>5 DEF FeedInv
<1>2. CASE GetLastError
  BY <1>2 DEF GetLastError, FeedInv, RowsInv, RowsDecoded, GoodRowsSurvive, Returned, Refused
<1>3. CASE NoName
  BY <1>3, FailingText, RowFailsKeeps DEF NoName, CsvInv
<1>4. CASE NoDatapoint
  <2>1. stage = "rows" /\ ~Good(text) /\ \E s : RowFails(s)
    BY <1>4, FailingText DEF NoDatapoint
  <2>2. QED BY <2>1, RowFailsKeeps DEF CsvInv
<1>5. CASE DecodeRow
  BY <1>5, DecodeRowKeeps
<1>6. CASE UNCHANGED vars
  BY <1>6 DEF vars, FeedInv, RowsInv, RowsDecoded, GoodRowsSurvive, Returned, Refused
<1>7. QED BY <1>1, <1>2, <1>3, <1>4, <1>5, <1>6 DEF Next

LEMMA FeedInit == Init => FeedInv
<1> SUFFICES ASSUME Init PROVE FeedInv
  OBVIOUS
<1>1. text = <<>> /\ stage = "idle" /\ counter = 0 /\ result = "none"
  BY DEF Init
<1>2. text \in Seq(Symbols)
  BY <1>1
<1>3. \A l \in Lines(text) : ~(Number(text, l) <= 0)
  BY <1>2, NumberTyped
<1>4. GoodRowsSurvive
  BY <1>1, <1>3, Survive
<1>5. QED BY <1>1, <1>4 DEF FeedInv, RowsInv, RowsDecoded, Returned, Refused

LEMMA FeedDecodes ==
  ASSUME CsvInv, FeedInv
  PROVE  DecodesFeeds /\ OneRowPerLine
<1>1. text \in Seq(Symbols) /\ counter \in Nat /\ result \in {"none", "feed", "null"}
  BY TextTyped, TypeParts DEF CsvInv
<1>2. /\ result = "feed" => feed.count = counter /\ counter = Cardinality(Lines(text)) /\ counter < MaxStreams
      /\ result = "null" => Cardinality(Lines(text)) >= MaxStreams \/ ~Good(text)
  BY DEF FeedInv, Returned, Refused
<1>3. OneRowPerLine
  BY <1>2 DEF OneRowPerLine, FeedInv, RowsDecoded
<1>4. ASSUME result = "feed", Good(text), NEW l \in Lines(text)
      PROVE  /\ IsRow(LineOf(text, l), feed.streams[Number(text, l)])
             /\ feed.streams[Number(text, l)].count = 1
  <2>1. Number(text, l) <= counter
    BY <1>1, <1>2, <1>4, LineCounts DEF Number
  <2>2. QED BY <1>4, <2>1, Survive DEF FeedInv, Good
<1>5. DecodesFeeds
  <2> SUFFICES ASSUME stage = "idle", result # "none", Good(text)
               PROVE  /\ result = "feed" <=> Cardinality(Lines(text)) < MaxStreams
                      /\ result = "feed" =>
                           /\ feed.count = Cardinality(Lines(text))
                           /\ \A l \in Lines(text) :
                                /\ IsRow(LineOf(text, l), feed.streams[Number(text, l)])
                                /\ feed.streams[Number(text, l)].count = 1
    BY DEF DecodesFeeds, Number, UpTo
  <2>1. Cardinality(Lines(text)) \in Nat
    BY <1>1, LineCounts
  <2>2. result = "feed" <=> Cardinality(Lines(text)) < MaxStreams
    BY <1>1, <1>2, <2>1, SizesTyped
  <2>3. QED BY <1>2, <1>4, <2>2
<1>6. QED BY <1>3, <1>5

LEMMA CsvFeedInv == Spec => [](CsvInv /\ FeedInv)
<1>1. Init => CsvInv /\ FeedInv
  BY CsvInit, FeedInit
<1>2. CsvInv /\ FeedInv /\ [Next]_vars => (CsvInv /\ FeedInv)'
  BY CsvStep, FeedStep
<1>3. QED BY <1>1, <1>2, PTL DEF Spec

\* Whatever the content is, a good line is decoded as it stands, though the
\* commas of a row are looked for beyond the end of its line (csv_data.c:301,
\* 340), and a later row that fails takes nothing from it.
THEOREM CsvGoodRowsSurvive == Spec => []GoodRowsSurvive
<1>1. CsvInv /\ FeedInv => GoodRowsSurvive
  BY DEF FeedInv
<1>2. QED BY <1>1, CsvFeedInv, PTL

\* A feed of good rows is decoded if it has fewer of them than the array has
\* places, refused if it has not, and then has its rows in their order and
\* nothing of what an earlier call left there (csv_data.c:281-375).
THEOREM CsvDecodesFeeds == Spec => []DecodesFeeds
<1>1. CsvInv /\ FeedInv => DecodesFeeds
  BY FeedDecodes
<1>2. QED BY <1>1, CsvFeedInv, PTL

\* Whatever the content is, a feed that is returned has one datapoint for
\* every line of it: the row ends where the line ends in which it began.
THEOREM CsvOneRowPerLine == Spec => []OneRowPerLine
<1>1. CsvInv /\ FeedInv => OneRowPerLine
  BY FeedDecodes
<1>2. QED BY <1>1, CsvFeedInv, PTL
=============================================================================
