----------------------------- MODULE Datapoint -----------------------------
(***************************************************************************)
(* A program's xi_datapoint_t: the setters and getters of xively.c, the    *)
(* line csv_encode_datapoint_in_place makes of it, and what                *)
(* csv_decode_datapoint makes of a line (csv_data.c), its time included.   *)
(*                                                                         *)
(* A text is a sequence of characters.  A line is its stamp, if it has one *)
(* that sscanf reads, as the seven fields it reads, and the text of the    *)
(* value.                                                                  *)
(* The program's clock ticks between the calls.                            *)
(***************************************************************************)
EXTENDS XiErr, XiTime, SequencesExt

CONSTANTS
    ValueSize,   \* XI_VALUE_STRING_MAX_SIZE
    NumberSize,  \* sizeof( int32_t ), sizeof( float )
    FracDigits,  \* of %f
    YearMax,     \* the largest year of %04d, 9999
    MicroMax,    \* the largest number sscanf reads by %06d, 999999
    Unknown,     \* a byte or a number nobody has written as such
    Clock,       \* the times the program's clock may show
    ClockStarts, \* and those it may start with
    BusyTimes,   \* those at which it does more than stamp a number
    Micros,      \* the microseconds the program stamps with
    Ints, Units, Texts, \* what the setters are given; units of 10^-FracDigits
    Lines,       \* the lines that are received
    SomeLines,   \* those that are received into a datapoint that is in use
    Dates        \* the dates of ClockStarts, by the calendar

NUL == "0x00"
VT == "0x0B"
Digits == <<"0", "1", "2", "3", "4", "5", "6", "7", "8", "9">>
LineEnds == {"\n", "\r", NUL}
IsText(t) == t \in Seq(ToSet(t))

\* What sscanf reads of a stamp.
StampFields == [year : Int, mon : Int, mday : Int, hour : Int, min : Int, sec : Int, micro : Int]

ASSUME DatapointAssumption ==
    /\ {NumberSize, FracDigits} \subseteq Nat \ {0} /\ ValueSize \in Nat
    /\ NumberSize < ValueSize
    /\ YearMax \in Int /\ MicroMax \in Nat
    /\ ClockStarts \subseteq Clock /\ Clock \subseteq 0 .. LongMax
    /\ Ints \subseteq -IntMax - 1 .. IntMax /\ Units \cup Micros \subseteq Int
    /\ \A t \in Texts : IsText(t) /\ NUL \notin ToSet(t)
    /\ SomeLines \subseteq Lines
    /\ \A l \in Lines : /\ l.stamped \in BOOLEAN /\ l.stamp \in StampFields
                         /\ IsText(l.text) /\ (l.stamped \/ l.text # <<>>)
                         /\ l.stamp.year <= YearMax

VARIABLES
    now,     \* the program's clock
    p,       \* the datapoint
    line,    \* the text in the buffer; NoLine once the program is done with it
    result,  \* of csv_decode_datapoint for this line: "none" before it is
             \* called, then XI_NO_ERR, or the code set in the error register
    put,     \* history: what was put into p last; how = "none" if unknown
    sent     \* history: what p held when the line was encoded, if it was

vars == <<now, p, line, result, put, sent>>

NoStamp == [year |-> 0, mon |-> 0, mday |-> 0, hour |-> 0, min |-> 0, sec |-> 0, micro |-> 0]
NoLine == [stamped |-> FALSE, stamp |-> NoStamp, text |-> <<>>]
Put(how, num, text) == [how |-> how, num |-> num, text |-> text]
Nothing == Put("none", 0, <<>>)
NotSent == [value |-> Nothing, stamp |-> 0, micro |-> 0]

Bytes(cell) == [i \in 1 .. ValueSize |-> cell]

\* After memset, and on the stack.
Zero == [bytes |-> Bytes(NUL), num |-> 0, tag |-> "I32", stamp |-> 0, micro |-> 0]
Garbage == [bytes |-> Bytes(Unknown), num |-> Unknown, tag |-> "I32", stamp |-> 0, micro |-> 0]

Init ==
    /\ now \in ClockStarts
    /\ p = Garbage
    /\ line = NoLine
    /\ result = "none"
    /\ put = Nothing
    /\ sent = NotSent

-----------------------------------------------------------------------------
(***************************************************************************)
(* The union: a number lies over the first bytes of the string.            *)
(***************************************************************************)
WithNumber(q, tag, n) ==
    [bytes |-> [i \in 1 .. ValueSize |-> IF i <= NumberSize THEN Unknown ELSE q.bytes[i]],
     num |-> n, tag |-> tag, stamp |-> q.stamp, micro |-> q.micro]

WithBytes(q, bytes, tag) ==
    [bytes |-> bytes, num |-> Unknown, tag |-> tag, stamp |-> q.stamp, micro |-> q.micro]

WithTime(q, stamp, micro) ==
    [bytes |-> q.bytes, num |-> q.num, tag |-> q.tag, stamp |-> stamp, micro |-> micro]

\* The characters over what there was, and the terminator behind the n-th.
Over(bytes, text) ==
    [i \in 1 .. ValueSize |-> IF i <= Len(text) THEN text[i] ELSE bytes[i]]

Terminated(bytes, n) == [bytes EXCEPT ![n + 1] = NUL]

Cut(text) == SubSeq(text, 1, IF Len(text) < ValueSize THEN Len(text) ELSE ValueSize - 1)

\* The first of some characters in a text; 0 if there is none.
FirstIn(chars, text) ==
    LET at == {i \in DOMAIN text : text[i] \in chars}
    IN  IF at = {} THEN 0 ELSE Min(at)

\* A program works on p when it is done with the last line.  The bound is that
\* it goes on to use a datapoint it decoded, other than by encoding or clearing
\* it, after some lines only.
Done == line = NoLine \/ result # "none"
Free == line = NoLine \/ (result # "none" /\ line \in SomeLines)

Changed(q, what) ==
    /\ Free
    /\ p' = q
    /\ put' = what
    /\ line' = NoLine /\ result' = "none" /\ sent' = NotSent
    /\ UNCHANGED now

xi_set_value_i32(n) == Changed(WithNumber(p, "I32", n), Put("I32", n, <<>>))

xi_set_value_f32(u) == Changed(WithNumber(p, "F32", u), Put("F32", u, <<>>))

\* The copy ends where the array ends, so the test for the size never fails.
SetText(q, text) ==
    LET cut == Cut(text)
    IN  WithBytes(q, Terminated(Over(q.bytes, cut), Len(cut)), "STR")

xi_set_value_str(text) == Changed(SetText(p, text), Put("STR", 0, text))

\* The program stamps its datapoint.
Stamp(micro) ==
    /\ Free
    /\ p' = WithTime(p, now, micro)
    /\ line' = NoLine /\ result' = "none" /\ sent' = NotSent
    /\ UNCHANGED <<now, put>>

\* memset, as csv_decode_feed and the tests do; a line may be waiting.
Clear ==
    /\ p' = Zero
    /\ put' = Nothing
    /\ IF result = "none" THEN UNCHANGED <<line, sent>> ELSE line' = NoLine /\ sent' = NotSent
    /\ result' = "none"
    /\ UNCHANGED now

Fresh == p \in {Zero, Garbage} /\ line = NoLine

\* The clock goes on; the bound is that it does so between two datapoints.
Tick ==
    /\ Fresh
    /\ now + 1 \in Clock
    /\ now' = now + 1
    /\ UNCHANGED <<p, line, result, put, sent>>

-----------------------------------------------------------------------------
(***************************************************************************)
(* Encoding                                                                *)
(***************************************************************************)
Decimal[n \in Nat] ==
    IF n < 10 THEN <<Digits[n + 1]>> ELSE Append(Decimal[n \div 10], Digits[(n % 10) + 1])

Ten[n \in Nat] == IF n = 0 THEN 1 ELSE 10 * Ten[n - 1]

Sign(n) == IF n < 0 THEN <<"-">> ELSE <<>>
Magnitude(n) == IF n < 0 THEN -n ELSE n

\* %f: at least one digit in front of the dot, FracDigits behind it.
Fixed(u) ==
    LET d == Decimal[Magnitude(u) + Ten[FracDigits + 1]]  \* a leading 1 pads
        n == IF Magnitude(u) < Ten[FracDigits + 1] THEN Tail(d) ELSE Decimal[Magnitude(u)]
    IN  Sign(u) \o SubSeq(n, 1, Len(n) - FracDigits) \o <<".">>
          \o SubSeq(n, Len(n) - FracDigits + 1, Len(n))

\* The string that begins at the first byte.
CString(bytes) == SubSeq(bytes, 1, FirstIn({NUL}, bytes) - 1)

\* xi_get_value_type and what the getter of that type returns.
Getters(q) ==
    [how |-> q.tag, num |-> IF q.tag = "STR" THEN 0 ELSE q.num,
     text |-> IF q.tag = "STR" THEN CString(q.bytes) ELSE <<>>]

csv_encode_value(q) ==
    CASE q.tag = "I32" -> Sign(q.num) \o Decimal[Magnitude(q.num)]
      [] q.tag = "F32" -> Fixed(q.num)
      [] q.tag = "STR" -> CString(q.bytes)

\* snprintf makes a field at least as wide as its format, sscanf reads no more
\* than that: of a number that is wider, its sign included, the first digits.
InMicroField(n) == n \in -(MicroMax \div 10) .. MicroMax

MicroRead[n \in Int] ==
    IF InMicroField(n) THEN n
    ELSE MicroRead[IF n < 0 THEN -((-n) \div 10) ELSE n \div 10]

\* Mutant: months are written as the calendar counts them, from 0.
WrittenFromZero(tm, micro) ==
    [year |-> tm.year + YEAR0, mon |-> tm.mon, mday |-> tm.mday, hour |-> tm.hour,
     min |-> tm.min, sec |-> tm.sec, micro |-> MicroRead[Wrapped(micro, IntMax)]]

\* The fields written, and read; the microseconds are written as an int.
Written(tm, micro) ==
    [year |-> tm.year + YEAR0, mon |-> tm.mon + 1, mday |-> tm.mday, hour |-> tm.hour,
     min |-> tm.min, sec |-> tm.sec, micro |-> MicroRead[Wrapped(micro, IntMax)]]

\* A year that is too wide leaves a digit where sscanf looks for the hyphen.
HasStamp(time) == time # 0 /\ xi_gmtime(time).year + YEAR0 <= YearMax

\* A program encodes a datapoint it has put a value in; one with a byte or a
\* number nobody wrote (see VT) is left out.
Readable ==
    /\ put.how # "none"
    /\ IF p.tag = "STR" THEN Unknown \notin ToSet(CString(p.bytes)) ELSE p.num # Unknown

\* csv_encode_datapoint.  That the line fits its buffer is HttpEncode's.
Encode ==
    /\ Done
    /\ Readable
    /\ line' = [stamped |-> HasStamp(p.stamp),
                stamp |-> IF p.stamp = 0 THEN NoStamp ELSE Written(xi_gmtime(p.stamp), p.micro),
                text |-> Append(csv_encode_value(p), "\n")]
    /\ sent' = [value |-> Getters(p), stamp |-> p.stamp, micro |-> p.micro]
    /\ result' = "none"
    /\ UNCHANGED <<now, p, put>>

\* A line from the server, and which there may be now.
Receive(l) ==
    /\ Free
    /\ line' = l
    /\ result' = "none"
    /\ sent' = NotSent
    /\ UNCHANGED <<now, p, put>>

Receivable == IF Fresh THEN Lines ELSE SomeLines

-----------------------------------------------------------------------------
(***************************************************************************)
(* Decoding                                                                *)
(***************************************************************************)
csv_classify_char(c) ==
    CASE c \in ToSet(Digits) -> "NUMBER"
      [] c = "."             -> "DOT"
      [] c = "-"             -> "MINUS"
      [] c = VT              -> "NEWLINE"
      [] OTHER               -> "OTHER"   \* letters, blanks and the rest

\* Mutant: a dot is as good as the digits behind it.
NextDotEnds(s, ct) ==
    IF ct = "NEWLINE" THEN "INITIAL"
    ELSE IF ct = "NUMBER" /\ s \in {"INITIAL", "MINUS", "NUMBER"} THEN "NUMBER"
    ELSE IF ct = "NUMBER" /\ s \in {"FLOAT", "DOT"} THEN "FLOAT"
    ELSE IF ct = "DOT" /\ s \in {"INITIAL", "MINUS", "NUMBER"} THEN "FLOAT"
    ELSE IF ct = "MINUS" /\ s = "INITIAL" THEN "MINUS"
    ELSE "STRING"

\* states[ ct ][ s ].
NextState(s, ct) ==
    IF ct = "NEWLINE" THEN "INITIAL"
    ELSE IF ct = "NUMBER" /\ s \in {"INITIAL", "MINUS", "NUMBER"} THEN "NUMBER"
    ELSE IF ct = "NUMBER" /\ s \in {"FLOAT", "DOT"} THEN "FLOAT"
    ELSE IF ct = "DOT" /\ s \in {"INITIAL", "MINUS", "NUMBER"} THEN "DOT"
    ELSE IF ct = "MINUS" /\ s = "INITIAL" THEN "MINUS"
    ELSE "STRING"

\* The loop over the characters; the state it ends in.
StateAfter(read) ==
    LET after[i \in 0 .. Len(read)] ==
            IF i = 0 THEN "INITIAL" ELSE NextState(after[i - 1], csv_classify_char(read[i]))
    IN  after[Len(read)]

\* What is read of a text.
LineOf(text) ==
    LET end == FirstIn(LineEnds, text)
    IN  IF end = 0 THEN text ELSE SubSeq(text, 1, end - 1)

DigitOf(c) == (CHOOSE i \in 1 .. 10 : Digits[i] = c) - 1

Number(digits) ==
    LET upto[i \in 0 .. Len(digits)] ==
            IF i = 0 THEN 0 ELSE 10 * upto[i - 1] + DigitOf(digits[i])
    IN  upto[Len(digits)]

Unsigned(text) == IF text # <<>> /\ text[1] = "-" THEN Tail(text) ELSE text
Signed(text, n) == IF text[1] = "-" THEN -n ELSE n

\* Mutant: the value of strtol is kept.
AtoiLong(text) == Signed(text, Number(Unsigned(text)))

\* The value of strtol, which stops at the limits of long, as an int.
Atoi(text) ==
    LET n == Signed(text, Number(Unsigned(text)))
    IN  Wrapped(IF n > LongMax THEN LongMax ELSE IF n < -LongMax - 1 THEN -LongMax - 1 ELSE n,
                IntMax)

\* In units; the rounding of a float is left out, digits behind the last of
\* %f with it.
Atof(text) ==
    LET dot == FirstIn({"."}, text)
        frac == SubSeq(text, dot + 1, Min({Len(text), dot + FracDigits}))
        digits == Unsigned(SubSeq(text, 1, dot - 1) \o frac)
    IN  Signed(text, Number(digits) * Ten[FracDigits - Len(frac)])

\* Mutant: the array is not terminated first.
UnguardedBytes(bytes) == bytes

\* XI_GUARD_EOS.
Guarded(bytes) == [bytes EXCEPT ![ValueSize] = NUL]

\* A vertical tab is counted and not stored: the byte stays as it was.
Stored(bytes, text) == [i \in DOMAIN text |-> IF text[i] = VT THEN bytes[i] ELSE text[i]]

\* What atoi and atof make of the byte a vertical tab left is not followed.
csv_decode_value(q, text) ==
    LET read == LineOf(text)
        state == StateAfter(read)
        bytes == Guarded(q.bytes)
        whole == VT \notin ToSet(read)
        written == Over(bytes, Stored(bytes, Cut(read)))
        stored == WithBytes(q, Terminated(written, Len(read)), "STR")
    IN  IF Len(read) > ValueSize - 1 THEN [ret |-> 0, p |-> WithBytes(q, written, q.tag)]
        ELSE [ret |-> 1,
              p |-> CASE state = "NUMBER" ->
                           WithNumber(stored, "I32", IF whole THEN Atoi(read) ELSE Unknown)
                      [] state = "FLOAT" ->
                           WithNumber(stored, "F32", IF whole THEN Atof(read) ELSE Unknown)
                      [] OTHER -> stored]

\* The fields as xi_mktime takes them.
TimeInfo(s) ==
    [year |-> s.year - YEAR0, mon |-> s.mon - 1, mday |-> s.mday,
     hour |-> s.hour, min |-> s.min, sec |-> s.sec]

Refuse(q, code, what) ==
    /\ p' = q /\ put' = what
    /\ result' = code

\* csv_decode_datapoint: time and value go to p one after the other.
Decode ==
    /\ line # NoLine /\ result = "none"
    /\ IF ~line.stamped
       THEN Refuse(p, "XI_CSV_DECODE_DATAPOINT_PARSER_ERROR", put)
       ELSE LET time == xi_mktime(TimeInfo(line.stamp))
                q == WithTime(p, time, line.stamp.micro)
                r == csv_decode_value(q, line.text)
            IN  IF Wrapped(time, IntMax) = -1
                THEN Refuse(p, "XI_CSV_TIME_CONVERTION_ERROR", put)
                ELSE IF r.ret = 0
                THEN Refuse(r.p, "XI_CSV_DECODE_DATAPOINT_PARSER_ERROR", Nothing)
                ELSE /\ p' = r.p /\ put' = Put("line", 0, LineOf(line.text))
                     /\ result' = NoErr
    /\ UNCHANGED <<now, line, sent>>

Next ==
    \/ \E n \in Ints : xi_set_value_i32(n)
    \/ \E m \in Micros : Stamp(m)
    \/ Clear \/ Tick \/ Encode \/ Decode
    \/ /\ now \in BusyTimes
       /\ \/ \E u \in Units : xi_set_value_f32(u)
          \/ \E t \in Texts : xi_set_value_str(t)
          \/ \E l \in Receivable : Receive(l)

Spec == Init /\ [][Next]_vars
-----------------------------------------------------------------------------
(***************************************************************************)
(* Properties                                                              *)
(***************************************************************************)
LongRange == -LongMax - 1 .. LongMax
IntRange == -IntMax - 1 .. IntMax

\* Includes that a number is one of its type.
TypeOK ==
    /\ now \in Clock
    /\ p.num # Unknown /\ p.tag = "I32" => p.num \in IntRange
    /\ p.tag \in {"I32", "F32", "STR"}
    /\ DOMAIN p.bytes = 1 .. ValueSize
    /\ p.stamp \in LongRange
    /\ result \in Errs \cup {"none"}
    /\ put.how \in {"none", "I32", "F32", "STR", "line"}
    /\ sent.value.how \in {"none", "I32", "F32", "STR"}

\* What a text is, by what it looks like.
SignLen(text) == IF text # <<>> /\ text[1] = "-" THEN 1 ELSE 0
AreDigits(text, i, j) == \A k \in i .. j : text[k] \in ToSet(Digits)
IsInt(text) == SignLen(text) < Len(text) /\ AreDigits(text, SignLen(text) + 1, Len(text))
IsPoint(text, i) ==
    /\ text[i] = "." /\ SignLen(text) < i /\ i < Len(text)
    /\ AreDigits(text, SignLen(text) + 1, i - 1) /\ AreDigits(text, i + 1, Len(text))
IsFloat(text) == \E i \in DOMAIN text : IsPoint(text, i)

\* The value of the digits of a text between two places, from the last to the
\* first; and what an integer and a decimal say, the latter in units of its
\* last digit.
Places(text, i, j) ==
    LET last[n \in 0 .. j - i + 1] ==
            IF n = 0 THEN 0 ELSE last[n - 1] + DigitOf(text[j + 1 - n]) * Ten[n - 1]
    IN  last[j - i + 1]
Saying(text, n) == IF SignLen(text) = 1 THEN -n ELSE n
IntOf(text) == Saying(text, Places(text, SignLen(text) + 1, Len(text)))
FloatOf(text, i) ==
    Saying(text, Places(text, SignLen(text) + 1, i - 1) * Ten[Len(text) - i]
                   + Places(text, i + 1, Len(text)))

AfterTab(text) == SubSeq(text, Max({0} \cup {i \in DOMAIN text : text[i] = VT}) + 1, Len(text))

ReadsLine(text) ==
    LET plain == VT \notin ToSet(text)
        last == AfterTab(text)
    IN  IF IsInt(last)
        THEN p.tag = "I32" /\ (plain /\ IntOf(text) \in IntRange => p.num = IntOf(text))
        ELSE IF IsFloat(last)
        THEN /\ p.tag = "F32"
             /\ \A i \in DOMAIN text :
                    LET behind == Len(text) - i
                    IN  plain /\ IsPoint(text, i) /\ behind <= FracDigits =>
                          p.num = FloatOf(text, i) * Ten[FracDigits - behind]
        ELSE /\ p.tag = "STR"
             /\ \A i \in DOMAIN text : text[i] # VT => p.bytes[i] = text[i]
             /\ p.bytes[Len(text) + 1] = NUL

\* The getter of the datapoint's type returns what was put into it last, by a
\* setter or by a line that was decoded, whatever it held before and also after
\* a line was refused for its time.  A line is an integer, a decimal or a
\* string by its look (csv_data.c:118-203); a string is cut to its array
\* (tests/core.c:657-659).  An integer beyond int is not looked at.
ReadsWhatWasPut ==
    CASE put.how \in {"I32", "F32"} -> Getters(p) = put
      [] put.how = "STR"  -> Getters(p) = [put EXCEPT !.text = Cut(@)]
      [] put.how = "line" -> ReadsLine(put.text)
      [] OTHER            -> TRUE

\* A string ends within its array, also when a line that was refused has been
\* written over it half-way (csv_data.c:126, 150-154).
StringEnds == p.tag = "STR" => NUL \in ToSet(p.bytes)

Shown == [t \in Clock |-> xi_gmtime(t)]

Cal == INSTANCE Calendar WITH date <- Shown[now], Starts <- Dates

\* What xi_gmtime makes of the time, second after second, is what a calendar
\* shows (xi_time.c:117-151).
CalendarSpec == Cal!Spec

\* The seconds from 1970 to a stamp whose fields may be anything sscanf reads,
\* by the years and days of the calendar.
Leaps(year) == year \div 4 - year \div 100 + year \div 400
DaysBeforeMonth == <<0, 31, 59, 90, 120, 151, 181, 212, 243, 273, 304, 334>>
Seconds(s) ==
    LET year == s.year + (s.mon - 1) \div 12
        month == (s.mon - 1) % 12
        days == 365 * (year - 1970) + Leaps(year - 1) - Leaps(1969)
                  + DaysBeforeMonth[month + 1]
                  + (IF month > 1 /\ Cal!IsLeap(year - 1900) THEN 1 ELSE 0)
                  + s.mday - 1
    IN  ((days * HoursPerDay + s.hour) * MinsPerHour + s.min) * SecsPerMin + s.sec

\* The time of a decoded line is the time its fields say, carried over where
\* they are out of range; or it is negative, where long is too narrow.  A line
\* is refused for its time only if that lies before 1970, does not fit, or
\* is a -1 to the test for an error (csv_data.c:367-369).
StampIsTrue ==
    line.stamped /\ result # "none" =>
        LET t == Seconds(line.stamp)
        IN  /\ result = NoErr => IF t <= LongMax THEN p.stamp = t ELSE p.stamp < 0
            /\ result = "XI_CSV_TIME_CONVERTION_ERROR" =>
                  t < 0 \/ t > ULongMax - SECS_DAY \/ Wrapped(t, IntMax) = -1

\* A datapoint that is encoded and decoded again comes back with its time and
\* its value.  It is refused only for a time that is none, whose year is wider
\* than its field, or that is a -1 to the test for an error, or a value that is
\* too long for the array; microseconds that are wider than their field, and a
\* string that looks like a number or holds the end of a line, do not come back.
ComesBack ==
    LET value == sent.value
    IN  value.how # "none" /\ result # "none" =>
          /\ result = NoErr <=> /\ sent.stamp # 0 /\ line.stamp.year <= YearMax
                               /\ Wrapped(sent.stamp, IntMax) # -1
                               /\ Len(LineOf(line.text)) < ValueSize
          /\ result = NoErr =>
                /\ p.stamp = sent.stamp
                /\ sent.micro \in IntRange /\ InMicroField(sent.micro) => p.micro = sent.micro
                /\ \/ Getters(p) = value
                   \/ /\ value.how = "STR"
                      /\ \/ IsInt(value.text) \/ IsFloat(value.text)
                         \/ ToSet(value.text) \cap (LineEnds \cup {VT}) # {}
=============================================================================
