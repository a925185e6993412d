---------------------------- MODULE MCHttpEncode ----------------------------
(* HttpEncode with rows on both sides of the limit of every buffer.        *)
EXTENDS HttpEncode

R(i, s, v) == [id |-> i, stamp |-> s, value |-> v]

FeedCalls ==
    [op : FeedOps, key : {35}, feed : {3},
     rows : {<<>>, <<R(4, 0, 3)>>, <<R(4, 1, 3), R(15, 0, 3)>>,
             <<R(4, 1, 3), R(15, 2, 3)>>, <<R(30, 0, 3), R(20, 0, 3)>>,
             <<R(30, 0, 3), R(30, 0, 3)>>}]

StreamCalls ==
    [op : {"datastream_get"}, key : {35, 125}, feed : {3}, rows : {<<R(4, 0, 0)>>}]
      \cup
    [op : {"datastream_delete"}, key : {35}, feed : {3}, rows : {<<R(4, 0, 0)>>, <<R(96, 0, 0)>>}]

WriteCalls ==
    [op : {"datastream_create"}, key : {35, 79}, feed : {3}, rows : {<<R(15, 0, 31)>>}]
      \cup
    [op : {"datastream_update"}, key : {35}, feed : {3}, rows : {<<R(15, 1, 4)>>, <<R(15, 1, 36)>>}]

\* With a key of 6 the shortest range just fits, with one of 7 it does not.
DeleteCalls ==
    [op : DeleteOps, key : {6, 7}, feed : {1},
     rows : {<<R(i, 1, 3), R(i, 2, 3)>> : i \in {1, 160, 270}}]

SmallCalls == FeedCalls \cup StreamCalls \cup WriteCalls \cup DeleteCalls

\* One call for the states in which nothing has been encoded yet.
NoRows == [op |-> "feed_get", key |-> 6, feed |-> 3, rows |-> <<>>]

\* The shortest range there is.
ShortestRange ==
    {NoRows, [op |-> "datapoint_delete_range", key |-> 6, feed |-> 1,
              rows |-> <<R(1, 1, 0), R(1, 2, 0)>>]}
=============================================================================
