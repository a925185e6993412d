---------------------------- MODULE MCDatapoint ----------------------------
(* Datapoint with days of 12 seconds, over the days around leap days and   *)
(* turns of years, on lines with fields in and out of range and with all   *)
(* texts of up to three characters.                                        *)
EXTENDS Datapoint

D(t, year, mon, mday, wday, yday) ==
    [at |-> t,
     date |-> [year |-> year, mon |-> mon, mday |-> mday, wday |-> wday, yday |-> yday,
               hour |-> 0, min |-> 0, sec |-> 0]]

Days == {D(0, 70, 0, 1, 4, 0),           \* 1970-01-01, a Thursday
         D(9456, 72, 1, 28, 1, 58),      \* 1972-02-28
         D(13128, 72, 11, 30, 6, 364),   \* 1972-12-30
         D(131472, 99, 11, 31, 5, 364),  \* 1999-12-31
         D(132180, 100, 1, 28, 1, 58),   \* 2000-02-28
         D(136572, 101, 1, 28, 3, 58),   \* 2001-02-28
         D(569772, 199, 11, 31, 4, 364), \* 2099-12-31
         D(570480, 200, 1, 28, 0, 58)}   \* 2100-02-28

MCDates == {d.date : d \in Days}
MCClockStarts == {d.at : d \in Days}
MCClock == UNION {d.at .. d.at + 25 : d \in Days}

S(year, mon, mday, hour, min, sec) ==
    [year |-> year, mon |-> mon, mday |-> mday, hour |-> hour, min |-> min, sec |-> sec,
     micro |-> 7]

OneDay == S(2013, 1, 1, 1, 1, 2)
AllOnes == S(1977, 6, 23, 1, 0, 1)     \* 2^15 - 1 seconds
LastSecond == S(2209, 3, 30, 0, 1, 0)  \* 2^20 - 1 seconds
Stamps == {S(y, mo, d, h, m, s) : y \in {213, 1969, 1970, 1972, 2000, 2099, 2100, 2440, 2441},
                                  mo \in {0, 1, 3, 12, 99}, d \in {-9, 0, 1, 30, 99},
                                  h \in {-1, 5}, m \in {0, 3}, s \in {-1, 61}}
            \cup {AllOnes, LastSecond, [LastSecond EXCEPT !.sec = 1], [OneDay EXCEPT !.year = 2441]}

L(stamp, text) == [stamped |-> TRUE, stamp |-> stamp, text |-> text]

Short == BoundedSeq({"1", ".", "-", "a", VT}, 3)
Long == {<<"1", "2", "3", "4", "5", "6", "7", "8">>,      \* beyond int and long
         <<"-", "1", "6", "3", "8", "4">>, <<"1", "6", "3", "8", "4">>,
         <<"-", "1", "2", ".", "5">>, <<"7", "0", ".", "2", "5">>,
         <<"1", "2", ".", "5", "\n", "9">>, <<"7", "\r", "\n">>, <<"1", "2", "a", "\n">>, <<"a", VT, "b">>,
         <<"1", "2", "3", "4", "5", "6", "7", "8", "9">>} \* too long

MCSomeLines == {L(OneDay, t) : t \in Long}
MCLines == {L(s, <<"1">>) : s \in Stamps} \cup {L(OneDay, t) : t \in Short}
             \cup MCSomeLines \cup {[NoLine EXCEPT !.text = <<"1", ",", "1">>]}

MCMicros == {5, 1234, -120}
MCInts == {0, -120, 16383}
MCUnits == {5, -1250, 12345678}
MCTexts == {<<>>, <<"a", "b">>, <<"1", "2">>, <<"1", "\n", "2">>,
            <<"a", "b", "c", "d", "e", "f", "g", "h", "i">>}
=============================================================================
