---------------------------- MODULE MCHttpParser ----------------------------
(* HttpParser on all heads of up to four lines, two more than fit, and on  *)
(* all short replies that are incomplete or whose line is of any kind.     *)
EXTENDS HttpParser, SequencesExt

\* "date" and "connection" have types of their own, "age" has none.
Lines == [name : {"date", "age"}, flaw : {"none"}]
           \cup [name : {"connection"}, flaw : {"no blank"}]
           \cup [name : {"date"}, flaw : {"no value", "no colon"}]

Flawed == [name : {"date"}, flaw : Flaws]

SmallReplies ==
    [status : {"good"}, lines : SeqOf(Lines, MaxHeaders + 1), blank : {TRUE},
     content : {"body"}]
      \cup
    [status : Statuses, lines : SeqOf(Flawed, 1), blank : BOOLEAN,
     content : {"", "body"}]
=============================================================================
