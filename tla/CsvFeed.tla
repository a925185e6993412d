------------------------------ MODULE CsvFeed ------------------------------
(***************************************************************************)
(* csv_decode_feed and csv_decode_datapoint (csv_data.c): the content of a *)
(* reply, one datastream per line, is decoded into the feed the program    *)
(* gave, which may hold the rows of an earlier call.  One action is one    *)
(* turn of the loop.                                                       *)
(*                                                                         *)
(* A text is a sequence of symbols: "," and newline, Stamp for the 27      *)
(* characters of a time that converts, and letters for everything else.    *)
(***************************************************************************)
EXTENDS XiErr, Naturals, SequencesExt

CONSTANTS
    MaxStreams,  \* XI_MAX_DATASTREAMS
    NameSize,    \* XI_MAX_DATASTREAM_NAME
    ValueSize,   \* XI_VALUE_STRING_MAX_SIZE
    Letters,     \* symbols of names and values
    Contents     \* the texts that are decoded

Comma == ","
Newline == "\n"
Stamp == "T"
Symbols == Letters \cup {Comma, Newline, Stamp}

ASSUME CsvAssumption ==
    /\ MaxStreams \in Nat \ {0} /\ NameSize \in Nat \ {0} /\ ValueSize \in Nat \ {0}
    /\ Letters \cap {Comma, Newline, Stamp} = {}
    /\ Contents \subseteq Seq(Symbols)

VARIABLES
    text,      \* the content being decoded, or decoded last
    stage,     \* "idle" or "rows"
    current,   \* where the next row begins
    counter,   \* rows decoded
    feed,      \* the caller's feed
    result,    \* what csv_decode_feed returned; "none" once 0 is explained
    err,       \* the error register
    given      \* history: the feed as the call found it

vars == <<text, stage, current, counter, feed, result, err, given>>

\* A datastream: its id, datapoint_count and the first of its datapoints.
EmptyStream == [id |-> <<>>, count |-> 0, stamped |-> FALSE, value |-> <<>>]

Init ==
    /\ text = <<>>
    /\ stage = "idle"
    /\ current = 1
    /\ counter = 0
    /\ feed = [count |-> 0, streams |-> [i \in 1 .. MaxStreams |-> EmptyStream]]
    /\ result = "none"
    /\ err = NoErr
    /\ given = feed

-----------------------------------------------------------------------------
\* strstr( text + from, symbol ), 0 if there is none.
Find(symbol, from) ==
    LET at == {i \in from .. Len(text) : text[i] = symbol}
    IN  IF at = {} THEN 0 ELSE Min(at)

\* xi_str_copy_untiln: a name that is too long is cut and taken.
Name(from, comma) ==
    SubSeq(text, from, Min({comma - 1, from + NameSize - 2}))

\* csv_decode_value reads to the end of the line, commas included.
LineEnd(from) == IF Find(Newline, from) = 0 THEN Len(text) ELSE Find(Newline, from) - 1

\* sscanf skips blanks, line ends too, in front of the year.
StampAt(from) ==
    \E i \in from .. Len(text) :
        /\ text[i] = Stamp
        /\ \A j \in from .. i - 1 : text[j] = Newline

Decode(t) ==
    /\ stage = "idle"
    /\ text' = t
    /\ stage' = "rows"
    /\ current' = 1
    /\ counter' = 0
    /\ result' = "none"
    /\ given' = feed
    /\ UNCHANGED <<feed, err>>

\* The program reads the register.
GetLastError ==
    /\ stage = "idle"
    /\ err' = NoErr
    /\ result' = "none"
    /\ given' = feed
    /\ UNCHANGED <<text, stage, current, counter, feed>>

\* Mutant: datapoint_count is only written when the row is complete.
RowFailsKeepingCount(stream) ==
    /\ feed' = [feed EXCEPT !.streams[counter + 1] = [stream EXCEPT !.count = @ + feed.streams[counter + 1].count]]
    /\ stage' = "idle"
    /\ result' = "null"
    /\ err' = "XI_CSV_DECODE_FEED_PARSER_ERROR"
    /\ UNCHANGED <<text, current, counter, given>>

RowFails(stream) ==
    /\ feed' = [feed EXCEPT !.streams[counter + 1] = stream]
    /\ stage' = "idle"
    /\ result' = "null"
    /\ err' = "XI_CSV_DECODE_FEED_PARSER_ERROR"
    /\ UNCHANGED <<text, current, counter, given>>

\* A row that is left half-way has no datapoint.
Broken(name, stamped, value) ==
    [id |-> name, count |-> 0, stamped |-> stamped, value |-> value]

\* The name of the row goes to the comma, wherever that is.
NoName ==
    /\ stage = "rows"
    /\ Find(Comma, current) = 0
    /\ RowFails(Broken(feed.streams[counter + 1].id, FALSE, <<>>))

\* What csv_decode_datapoint makes of the row: no comma before a value, no
\* stamp, a value that is too long, or a datapoint.
NoDatapoint ==
    LET comma == Find(Comma, current)
        before == Find(Comma, comma + 1)
        name == Name(current, comma)
        value == SubSeq(text, before + 1, LineEnd(before + 1))
    IN  /\ stage = "rows"
        /\ comma # 0
        /\ \/ /\ before = 0 \/ ~StampAt(comma + 1)
              /\ RowFails(Broken(name, FALSE, <<>>))
           \/ /\ before # 0 /\ StampAt(comma + 1) /\ Len(value) > ValueSize - 1
              /\ RowFails(Broken(name, TRUE, SubSeq(value, 1, ValueSize - 1)))

\* Mutant: the feed may be filled, and a row more begun.
TooManyStrict(n) == n > MaxStreams

\* The last place of the feed is written, and then is one too many.
TooMany(n) == n = MaxStreams

\* Mutant: the count of an earlier call is added to.
AddRow(old, name, value) ==
    [id |-> name, count |-> old.count + 1, stamped |-> TRUE, value |-> value]

\* Mutant: the rest of the longer value of an earlier call stays.
OverRow(old, name, value) ==
    [id |-> name, count |-> 1, stamped |-> TRUE,
     value |-> value \o SubSeq(old.value, Len(value) + 1, Len(old.value))]

SetRow(old, name, value) ==
    [id |-> name, count |-> 1, stamped |-> TRUE, value |-> value]

\* Mutant: the row ends where the value ends that was found for it.
RowEndOfValue(from, value) == Find(Newline, value)

\* The row ends with its line, wherever its value was found.
RowEnd(from, value) == Find(Newline, from)

DecodeRow ==
    LET comma == Find(Comma, current)
        before == Find(Comma, comma + 1)
        end == RowEnd(current, before)
        value == SubSeq(text, before + 1, LineEnd(before + 1))
        rows == [feed.streams EXCEPT ![counter + 1] = SetRow(@, Name(current, comma), value)]
    IN  /\ stage = "rows"
        /\ comma # 0 /\ before # 0 /\ StampAt(comma + 1) /\ Len(value) <= ValueSize - 1
        /\ counter' = counter + 1
        /\ current' = end + 1
        /\ IF TooMany(counter')
           THEN /\ feed' = [feed EXCEPT !.streams = rows]
                /\ stage' = "idle" /\ result' = "null"
                /\ err' = "XI_CSV_DECODE_FEED_PARSER_ERROR"
           ELSE IF end = 0
           THEN /\ feed' = [count |-> counter', streams |-> rows]
                /\ stage' = "idle" /\ result' = "feed"
                /\ UNCHANGED err
           ELSE /\ feed' = [feed EXCEPT !.streams = rows]
                /\ UNCHANGED <<stage, result, err>>
        /\ UNCHANGED <<text, given>>

Next ==
    \/ \E t \in Contents : Decode(t)
    \/ NoName \/ NoDatapoint \/ DecodeRow
    \/ GetLastError

Spec == Init /\ [][Next]_vars
-----------------------------------------------------------------------------
(***************************************************************************)
(* Properties                                                              *)
(***************************************************************************)
Streams == [id : Seq(Symbols), count : {0, 1}, stamped : BOOLEAN, value : Seq(Symbols)]

\* Includes that names and values fit their arrays, and rows the feed.
TypeOK ==
    /\ text \in Contents \cup {<<>>}
    /\ stage \in {"idle", "rows"}
    /\ current \in 1 .. Len(text) + 1
    /\ counter \in 0 .. MaxStreams
    /\ stage = "rows" => counter < MaxStreams
    /\ feed \in [count : 0 .. MaxStreams, streams : [1 .. MaxStreams -> Streams]]
    /\ \A i \in 1 .. MaxStreams : /\ Len(feed.streams[i].id) < NameSize
                                  /\ Len(feed.streams[i].value) < ValueSize
    /\ result \in {"none", "feed", "null"}
    /\ err \in Errs

\* The lines of a text, by where they begin and end.
Lines(t) ==
    LET ends == {i \in DOMAIN t : t[i] = Newline} \cup {Len(t) + 1}
    IN  {l \in (1 .. Len(t) + 1) \X ends :
           /\ l[1] = 1 \/ t[l[1] - 1] = Newline
           /\ \A k \in ends : k >= l[1] => l[2] <= k
           /\ l[2] >= l[1]}

\* The n-th line holds the row of stream s.
IsRow(line, s) == line = s.id \o <<Comma, Stamp, Comma>> \o s.value

\* A row an encoder of the server writes: a name, a stamp and a value.
GoodRow(line) ==
    \E n \in 1 .. Len(line) - 3 :
        /\ n < NameSize /\ Len(line) - n - 3 < ValueSize
        /\ SubSeq(line, n + 1, n + 3) = <<Comma, Stamp, Comma>>
        /\ \A i \in 1 .. n : line[i] \in Letters

LineOf(t, l) == SubSeq(t, l[1], l[2] - 1)

Good(t) == \A l \in Lines(t) : GoodRow(LineOf(t, l))

\* A feed of good rows that has fewer of them than the feed has places is
\* decoded, and the feed then has these rows, in their order, and no trace of
\* what it held before.
DecodesFeeds ==
    stage = "idle" /\ result # "none" /\ Good(text) =>
        /\ result = "feed" <=> Cardinality(Lines(text)) < MaxStreams
        /\ result = "feed" =>
              /\ feed.count = Cardinality(Lines(text))
              /\ \A l \in Lines(text) :
                   LET n == Cardinality({k \in Lines(text) : k[1] <= l[1]})
                   IN  IsRow(LineOf(text, l), feed.streams[n]) /\ feed.streams[n].count = 1

\* The commas of a row are looked for beyond the end of its line
\* (csv_data.c:301, 340), so a broken line takes its name or its value from the
\* lines after it.  It takes nothing away from them: a good line is decoded as
\* it stands whatever its neighbours are, and stays so if a later one fails.
GoodRowsSurvive ==
    \A l \in Lines(text) :
        LET n == Cardinality({k \in Lines(text) : k[1] <= l[1]})
        IN  n <= counter /\ GoodRow(LineOf(text, l)) =>
              IsRow(LineOf(text, l), feed.streams[n]) /\ feed.streams[n].count = 1

\* Whatever the text is, a feed that is returned has as many rows as the text
\* has lines, and each has its one datapoint.
OneRowPerLine ==
    result = "feed" =>
        /\ feed.count = Cardinality(Lines(text))
        /\ \A i \in 1 .. feed.count : feed.streams[i].count = 1

\* What a failed call leaves is no mixture: the feed still has the number of
\* rows it had, and a row the call did not complete is as it was before the
\* call or has no datapoint.  A program meets such a feed in a response that
\* says that all is well (xively.c:283).
NoHalfRows ==
    /\ stage = "rows" \/ result = "null" => feed.count = given.count
    /\ \A i \in 1 .. MaxStreams :
         i > counter => feed.streams[i] = given.streams[i] \/ feed.streams[i].count = 0
=============================================================================
