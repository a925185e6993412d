----------------------------- MODULE MCCsvFeed -----------------------------
(* CsvFeed on all texts of up to three lines of four kinds, on four rows,  *)
(* and on lines with a name or a value that is too long.                   *)
EXTENDS CsvFeed

T == Stamp
Kinds == {<<"a", ",", T, ",", "v">>,            \* a row
          <<"b", ",", T, ",", "v", "v">>,       \* another
          <<"a", ",", T>>,                      \* its value is missing
          <<>>}                                 \* an empty line

LongLines == {<<"a", "b", "a", ",", T, ",", "v">>, <<"a", ",", T, ",", "v", "v", "v", "v">>,
              <<"a", ",", "v", ",", "v">>}

Join(lines) ==
    FlattenSeq([i \in DOMAIN lines |-> IF i = 1 THEN lines[i] ELSE <<Newline>> \o lines[i]])

FourRows == Join([i \in 1 .. 4 |-> <<"a", ",", T, ",", "v">>])

ThreeLines == {Join(lines) : lines \in SeqOf(Kinds, 3)} \cup LongLines \cup {FourRows}
=============================================================================
