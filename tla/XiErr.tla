------------------------------- MODULE XiErr -------------------------------
(***************************************************************************)
(* The error codes of libxively (xi_err.h) and the groups of them the rest *)
(* of the development distinguishes.  A code is the name of its            *)
(* enumerator; the library keeps the last one in one global register.      *)
(***************************************************************************)
EXTENDS Integers, Sequences

NoErr == "XI_NO_ERR"

\* Set by open_connection: nothing has been written to the network yet.
OpenErrs == {"XI_OUT_OF_MEMORY", "XI_SOCKET_INITIALIZATION_ERROR",
             "XI_SOCKET_GETHOSTBYNAME_ERROR", "XI_SOCKET_CONNECTION_ERROR"}

\* Set by close_connection, after the outcome of the call is settled.
CloseErrs == {"XI_SOCKET_SHUTDOWN_ERROR", "XI_SOCKET_CLOSE_ERROR"}

\* Set while the request is put together, before open_connection.
EncodeErrs == {"XI_HTTP_CONSTRUCT_REQUEST_BUFFER_OVERRUN",
               "XI_HTTP_CONSTRUCT_CONTENT_BUFFER_OVERRUN",
               "XI_HTTP_ENCODE_CREATE_DATASTREAM",
               "XI_HTTP_ENCODE_UPDATE_FEED",
               "XI_HTTP_ENCODE_DELETE_DATAPOINT",
               "XI_HTTP_ENCODE_DELETE_RANGE_DATAPOINT",
               "XI_CSV_ENCODE_DATAPOINT_BUFFER_OVERRUN",
               "XI_CSV_ENCODE_DATASTREAM_BUFFER_OVERRUN"}

\* Set by parse_http on a text it rejects.
ParseErrs == {"XI_HTTP_PARSE_ERROR", "XI_HTTP_HEADER_PARSE_ERROR"}

\* Set by csv_decode_feed and csv_decode_datapoint.
DecodeErrs == {"XI_CSV_DECODE_FEED_PARSER_ERROR",
               "XI_CSV_DECODE_DATAPOINT_PARSER_ERROR",
               "XI_CSV_TIME_CONVERTION_ERROR"}

TransferErrs == {"XI_SOCKET_WRITE_ERROR", "XI_SOCKET_READ_ERROR"}

Errs == {NoErr} \cup OpenErrs \cup CloseErrs \cup EncodeErrs
          \cup ParseErrs \cup DecodeErrs \cup TransferErrs

-----------------------------------------------------------------------------
(***************************************************************************)
(* Codes as numbers and as strings: two lists kept by hand, in the header  *)
(* and in the source file.                                                 *)
(***************************************************************************)
\* The enumerators in their order.
xi_err_t ==
    << "XI_NO_ERR", "XI_OUT_OF_MEMORY",
       "XI_HTTP_STATUS_PARSE_ERROR", "XI_HTTP_HEADER_PARSE_ERROR", "XI_HTTP_PARSE_ERROR",
       "XI_HTTP_ENCODE_CREATE_DATASTREAM", "XI_HTTP_ENCODE_UPDATE_DATASTREAM",
       "XI_HTTP_ENCODE_GET_DATASTREAM", "XI_HTTP_ENCODE_DELETE_DATASTREAM",
       "XI_HTTP_ENCODE_DELETE_DATAPOINT", "XI_HTTP_ENCODE_DELETE_RANGE_DATAPOINT",
       "XI_HTTP_ENCODE_UPDATE_FEED",
       "XI_HTTP_CONSTRUCT_REQUEST_BUFFER_OVERRUN",
       "XI_HTTP_CONSTRUCT_CONTENT_BUFFER_OVERRUN",
       "XI_CSV_ENCODE_DATAPOINT_BUFFER_OVERRUN", "XI_CSV_ENCODE_DATASTREAM_BUFFER_OVERRUN",
       "XI_CSV_DECODE_FEED_PARSER_ERROR", "XI_CSV_DECODE_DATAPOINT_PARSER_ERROR",
       "XI_CSV_TIME_CONVERTION_ERROR",
       "XI_SOCKET_INITIALIZATION_ERROR", "XI_SOCKET_GETHOSTBYNAME_ERROR",
       "XI_SOCKET_CONNECTION_ERROR", "XI_SOCKET_SHUTDOWN_ERROR", "XI_SOCKET_WRITE_ERROR",
       "XI_SOCKET_READ_ERROR", "XI_SOCKET_CLOSE_ERROR",
       "XI_DATAPOINT_VALUE_BUFFER_OVERFLOW" >>

XI_ERR_COUNT == Len(xi_err_t)

\* The strings; each is the name of the enumerator it is meant for.
xi_err_string ==
    << "XI_NO_ERR", "XI_OUT_OF_MEMORY",
       "XI_HTTP_STATUS_PARSE_ERROR", "XI_HTTP_HEADER_PARSE_ERROR", "XI_HTTP_PARSE_ERROR",
       "XI_HTTP_ENCODE_CREATE_DATASTREAM", "XI_HTTP_ENCODE_UPDATE_DATASTREAM",
       "XI_HTTP_ENCODE_GET_DATASTREAM", "XI_HTTP_ENCODE_DELETE_DATASTREAM",
       "XI_HTTP_ENCODE_DELETE_DATAPOINT", "XI_HTTP_ENCODE_DELETE_RANGE_DATAPOINT",
       "XI_HTTP_ENCODE_UPDATE_FEED",
       "XI_HTTP_CONSTRUCT_REQUEST_BUFFER_OVERRUN",
       "XI_HTTP_CONSTRUCT_CONTENT_BUFFER_OVERRUN",
       "XI_CSV_ENCODE_DATAPOINT_BUFFER_OVERRUN", "XI_CSV_ENCODE_DATASTREAM_BUFFER_OVERRUN",
       "XI_CSV_DECODE_FEED_PARSER_ERROR", "XI_CSV_DECODE_DATAPOINT_PARSER_ERROR",
       "XI_CSV_TIME_CONVERTION_ERROR",
       "XI_SOCKET_INITIALIZATION_ERROR", "XI_SOCKET_GETHOSTBYNAME_ERROR",
       "XI_SOCKET_CONNECTION_ERROR", "XI_SOCKET_SHUTDOWN_ERROR", "XI_SOCKET_WRITE_ERROR",
       "XI_SOCKET_READ_ERROR", "XI_SOCKET_CLOSE_ERROR",
       "XI_DATAPOINT_VALUE_BUFFER_OVERFLOW" >>

\* The value of an enumerator.
ErrNumber(code) == CHOOSE n \in 0 .. XI_ERR_COUNT - 1 : xi_err_t[n + 1] = code

\* The string of the n-th code; everything beyond the table has the last one.
xi_get_error_string(n) ==
    xi_err_string[1 + IF n < XI_ERR_COUNT - 1 THEN n ELSE XI_ERR_COUNT - 1]
=============================================================================
