# A verification development for libxively

TLA+ specifications of libxively (`src/src/libxively`, the C client library of
the Xively service), TLC runs that check them on small instances, and TLAPS
proofs of the main results for every value of the constants. All paths below
without a directory are in `src/src/libxively/`.

## 1. The system

A program includes `xively.h`, creates a context (API key and feed id) and calls
one of eight request functions. Each call is synchronous and runs through four
layers, each an interface of function pointers with one or more implementations:

    program
      |  xi_feed_get, xi_datastream_update, ...            xively.c
      |    encode -> open -> send -> read -> decode -> close
      +-- transport layer (transport_layer.h)              http_transport_layer.c
      |      +-- request text                              http_layer_queries.c
      |      +-- reply text                                http_layer_parser.c
      |      +-- data layer (data_layer.h)                 csv_data.c, xi_time.c
      +-- communication layer (comm_layer.h)               comm_layers/{posix,mbed,nq,dummy}
      |
    network, Xively server

There are no threads and no locks in the library. What makes it hard is that
almost everything is static and shared: one error register for all failures,
one reply object, a handful of text buffers. And a call ends in a network that
may carry out a request, or answer it, after the call has given up.

### Components

| Component | State it keeps | Operations | Interacts with | What is hard | What makes it correct |
|---|---|---|---|---|---|
| Error register, `xi_err.c` | one global code | set (every failing step), `xi_get_last_error` (reads **and clears**), `xi_set_err`, `xi_get_error_string` | everything | a code outlives its call; a later failure overwrites an earlier one; the parser reads it; codes and strings are two lists kept by hand | NULL is never returned without a code; the code is that of the call, and so is its string |
| Communication layer interface, `comm_layer.h`, `connection.h` | one connection | open, send, read, close | request functions | partial opens | open gives a connection or nothing; close gives all back |
| POSIX layer, `comm_layers/posix` | three heap blocks and a descriptor per connection | as above | OS, error register | eight places where open stops, each with its own clean-up; a failing shutdown or close | a live connection owns all its parts; a closed one none |
| Request functions and context, `xively.c` | context, local `conn`, `response`, buffer, network timeout | `xi_feed_get` .. `xi_datapoint_delete_range`, `xi_create_context`, `xi_delete_context`, `xi_set_network_timeout` | all layers | one epilogue for five failing exits; replies in pieces; server acting after a timeout; a content that does not decode | what a call reports is, and stays, true of the server; nothing open between calls; every call returns |
| HTTP reply parser, `http_layer_parser.c` | one static response: header list, checklist by type, content | `parse_http`, `parse_http_header`, `classify_header` | error register | the list's limit; lines without a blank or a value; leftovers of an earlier reply; duplicate headers; the register as a flag | exactly the replies that fit are accepted, and with all headers |
| HTTP transport layer and request construction, `http_transport_layer.c`, `http_layer_queries.c` | five static buffers of four sizes | eight `http_encode_*`, `http_decode_reply` | CSV layer, time | leftovers of an earlier request; one buffer as source and target; two times from one static structure; limits of nested buffers | a returned request is the whole request, with its own two times; 0 only if a buffer is too small |
| CSV layer, `csv_data.c` | one static buffer; writes the caller's feed | encoders of a datapoint and a datastream, `csv_decode_feed`, `csv_decode_datapoint`, `csv_decode_value` | time, helpers | rows of an earlier call under the new ones; the count at its limit; a row that fails half-way | a decoded feed has exactly the rows of the text; a failed call leaves no mixture |
| Time, `xi_time.c` | one static `struct xi_tm` | `xi_gmtime`, `xi_mktime` | CSV layer, delete requests | leap years and turns of centuries, fields out of range, overflow, -1 as time and as error | a clock shown by `xi_gmtime` is a calendar; `xi_mktime` gives the time the fields say; the two are inverse |
| Datapoint value helpers, `xively.c:91-207` | the caller's datapoint: a union of a number and a string, with a type | `xi_set_value_*`, `xi_get_value_*` | CSV layer | number and string share bytes; a datapoint is used again; a line is refused half-way | the getter of the type returns what was put in last; a string ends in its array |
| mbed, nq and dummy layers, `comm_layers/{mbed,nq,dummy}` | per connection three heap blocks and a socket object, a TCP connection or nothing | as the interface | error register, their platforms | failed opens that follow an unset pointer or miss an error code; an assertion that only some builds have; a close that frees only when it fails | as the POSIX layer |
| String helpers, globals, allocator, macros, debug | network timeout | `xi_str_copy_untiln`, `xi_str_dup`, `xi_replace_with`, `xi_set_network_timeout` | everything | truncation in `xi_str_copy_untiln` | a copy ends in its array |
| Tests, examples, imported code | - | - | the library's interface | a program that reads the register twice | - |

`PROJECT.json` lists the same components with their status, and under `hazards`
each hard point at its line with the properties that cover it.

## 2. The modules

| Module | Models | Kind |
|---|---|---|
| `XiErr` | the codes of `xi_err.h`, grouped by the step that sets them, their numbers and their strings | definitions |
| `CommLayer` | what `comm_layer.h` promises: a connection is idle, open, or lost for good, the last only by the calls in `Losses` | abstract |
| `PosixComm` | `posix_comm.c`; refines `CommLayer` with `Losses = {"open"}` | detailed |
| `CommState` | the state the other layers share: blocks, network resource, register, and whether the build has assertions | definitions |
| `DummyComm`, `MbedComm`, `NqComm` | `dummy_comm.c`, `mbed_comm.cpp`, `nq_comm.c`, one action per exit of a call | detailed |
| `EmbeddedComm` | the three layers behind `get_comm_layer`; each refines `CommLayer` with losses of its own | composition |
| `RemoteCall` | what a request function promises: calls one after the other, each with an outcome true of the server | abstract |
| `XiSession` | `xively.c` + `PosixComm` (by `INSTANCE`) + program + network + server; refines `RemoteCall` | composition |
| `HttpParser` | `parse_http` | detailed |
| `HttpEncode` | the encoders of `http_transport_layer.c`, `http_layer_queries.c`, `csv_data.c` over the static buffers | detailed |
| `CsvFeed` | `csv_decode_feed` | detailed |
| `XiTime` | `xi_mktime`, `xi_gmtime` as operators, their loops as recursive functions | pure |
| `Calendar` | a clock with a calendar that only knows how to tick | abstract |
| `Datapoint` | the value helpers of `xively.c`, `csv_encode_datapoint`, `csv_decode_datapoint`, `csv_decode_value`, composed with `XiTime`; refines `Calendar` | detailed |
| `MC*` | constants of the TLC runs | instances |
| `PosixCommProofs`, `EmbeddedCommProofs`, `XiSessionProofs`, `HttpParserProofs`, `HttpEncodeProofs`, `CsvFeedProofs`, `DatapointProofs` | theorems | proofs |
| `Recursion` | induction and recursion over the natural numbers, as lemmas about sets and functions | proofs |

Definitions whose comment begins with *Mutant:* are plausible wrong versions of
the definition they precede. They are never used by a specification; they show
that each property fails when the code has that bug.

### How state and actions correspond to the code

**PosixComm.** `live`, `heap[c]`, `sock` are the connections handed out, the
blocks (`posix_comm_layer_data_specific_t`, `connection_t`, the copied address)
and descriptors not given back. One action is one call of the layer. An open
that stops at step *s* has run all steps before *s* (`HeapBefore`) and then its
own exit: an allocation failure and every step after `socket()` go to
`err_handling`, which frees the blocks; a failing `socket()` returns on the
spot. `Close` may set a code for `shutdown` or `close`, but always releases.

**EmbeddedComm.** One build links one layer: `layer` is chosen at the start and
never changes, and so is `asserts`, whether `XI_DEBUG_ASSERT` was defined: without
it an `assert` is nothing (`xi_debug.h:34-42`), and that is how the `Makefile`
builds the nanoqplus layer (lines 11-16). `sock` is the platform's resource: a
`TCPSocketConnection` object in mbed, a TCP connection in nanoqplus, nothing in the
dummy. Two facts of the code need a state of their own. `wild`: an mbed open that
runs out of memory after its first block deletes through `socket_ptr`, which nobody
has set yet (`mbed_comm.cpp:87`); what the allocator left there is a choice of the
model, and so is whether the process survives it. `halted`: the process was stopped,
by that or by the assertion behind `tcp_connect` (`nq_comm.c:74`), which the second
of the function's two error codes reaches. Without assertions that error code is
handed out as a connection (`OpenIsMinusOne`).

**XiSession.** One variable per local or static of the request functions: `stage` is
the point reached in `XI_FUNCTION_GET_RESPONSE`; `response` is the local pointer;
`tmp` the static reply of `http_decode_reply`; `text` what one `read` delivered
(nothing, a piece without a whole head, a whole head with a piece of the content,
everything, or a malformed text); `decoded` what became of the caller's structure;
`timeout` is zero or not. `Begin` is the prologue with the encoding, then one action
per step of the macro; `Epilogue` closes, may thereby overwrite the register, and
returns. The environment acts at any time: `Serve(n)` carries a written request out
or refuses it, also long after call *n* returned; `PeerResets`, `PeerCloses` and
pieces of a reply are its other choices. Its replies are malformed or good as a
whole: the header lines of this server have a blank and a value, and other lines are
`HttpParser`'s. The program is sequential and reads the register as `Polls` says:
before every call ("always"), at least after every NULL ("on NULL"), or never.
`outcome[n]` is what the program can conclude: *ok* or *refused* from the status,
*unsent* from a code that belongs to a step up to the write, else *unknown*.
`fault[n]` is history: the step that failed first, or *stale* if none did and the
register was not clear when the call began.

**HttpParser.** A head is a status line (good, without reason, bad) and a sequence
of named lines of six kinds: as they should be, without the blank behind the colon,
with nothing there, without a colon, with a name or a value too long.
`parse_http_header` always skips two characters from the colon on. Without the blank
that costs the value its first character; with nothing behind the colon the length
becomes -1, passes the test, and is the size of a `memcpy`, from which the parser
does not come back (`HeaderWithoutValue`, stage `gone`). One action per iteration of
the header loop; the response persists from call to call as the static object does;
the register is asked at the end as in the code, and may hold an error from before.
`http_content` is as large as the buffer that is parsed, so the content always fits.

**HttpEncode.** A text is a sequence of pieces with widths; `snprintf` and the
checks after it look at nothing else. `Partial` is the text of a buffer whose
construction stopped half-way. One action per buffer that is filled, in the
order of the encoders: CSV text, feed content, path, query (with
`XI_ID_BUFFER` inside), content headers, concatenation. The two times of a range
go through the one static structure of `xi_gmtime`; `stm` and `etm` are the copies
the encoder makes of it. A time is 27 characters, which holds for years of four
digits and microseconds of up to six.

**CsvFeed.** Character by character, because the two `strstr` searches of
a row do not stop at the end of a line; letters stand for all characters that
are neither comma, newline nor a time stamp. One action per row; what
`csv_decode_datapoint` makes of the row is its return value and its value text
here, and the rest of it is `Datapoint`. The feed is the caller's: it starts
with whatever an earlier call left. `given` is history: the feed as the call found
it.

**Datapoint.** `p` is a program's `xi_datapoint_t`. The string of the value is an
array of `ValueSize` bytes; a number lies over the first `NumberSize` of them, so
setting one makes these bytes `Unknown` and storing a string makes the number
`Unknown`. `csv_decode_value` is the automaton of `csv_data.c:108-143` run over the
characters of a line, with `XI_GUARD_EOS` first and one byte stored after the other;
a vertical tab, the only character the table calls a newline, is counted and not
stored. `csv_decode_datapoint` writes the time, then the value, and a refusal leaves
what it had written. A line is the stamp's seven fields, as `sscanf` reads them, and
a text. What `%06d` writes of microseconds that are wider than that is read back as
their first digits (`MicroRead`); a year wider than `%04d` leaves a line without a
stamp (`HasStamp`). The program's clock ticks between its calls; `xi_gmtime` of it
is what `Calendar` must recognise as a calendar.

**XiTime.** The loops over months and years are recursive functions, the C
divisions with their corrections are `\div` and `%`, and `Wrapped` puts the sum
into a `long`, and a time into the `int` that `csv_data.c:369` compares with -1.
Signed overflow is undefined in C; wrapping is what builds of this code do.

## 3. Runs

| Run | Checks | Instance and why it is enough |
|---|---|---|
| `posix_comm` | types; a live connection owns its socket and blocks; a failed open keeps all blocks or the descriptor, never both; closing frees all; `PosixComm` implements `CommLayer` with losses in an open only | 3 connections, 2 descriptors: more connections than descriptors, so exhaustion happens; connections do not otherwise interact |
| `embedded_comm` | types; a connection handed out is whole; what each layer leaves behind; each implements `CommLayer` with its own losses | the three layers, each built with assertions and without, 3 connections, every exit of every call. A connection nanoqplus hands out is whole with assertions only: `LiveIsWhole` says so |
| `session` | types; nothing open between calls; NULL implies a code; a response is this call's reply; residue only from failed opens; outcomes are true of the server, now and later; the register and its string name the fault of this call; NULL comes only from a failed step or a register that was not clear; refinement of `RemoteCall`; every call returns when a timeout is set | all eight functions, 2 calls, 1 descriptor, a program that reads the register at least after each NULL. A late action of the server, a stale code and the overwritten static reply all need exactly two calls. One descriptor makes a leaked one matter in the second call |
| `http_parser` | types with the array bound; no mixing of replies; checklist exact; a response exactly for what fits, no return exactly for what loses the parser; NULL implies a code | list of 3 (so 2 fit), all heads of up to 4 lines over three known or unknown names, with and without blank, value and colon, and all short replies with each of the six kinds of line, in any order |
| `http_encode` | a returned request is the whole one; NULL implies a code, and only if a buffer is too small | buffer sizes chosen so that for every check a text just fits and one just does not, the shortest range among them; all eight functions one after the other over the same buffers |
| `csv_feed` | feeds of good rows decode exactly; a good row survives whatever its neighbours are; one row per line; a failed call keeps the count and leaves each row it did not complete as it was or without a datapoint | 3 places, names of 3 and values of 4 characters; all texts of up to 3 lines of four kinds, 4 rows, too long names and values; any order into the same feed |
| `datapoint` | types; the getter returns what was put in last; strings end; a stamp is the time its fields say; an encoded datapoint comes back; `xi_gmtime` shows a calendar | a clock around eight dates: the epoch, ends of February and December of ordinary years, leap years, 2000 and 2100; stamps with every field in and out of range, and at the limits of `int` and `long`; years and microseconds on both sides of their fields' widths; all texts of up to three characters out of five classes, and ten long ones |
| `stale_error`, `decode_failure`, `cut_reply`, `delete_range`, `nq_close` | one violated statement each, see section 5 | smallest instance that shows it; `delete_range` uses the real default `XI_ID_BUFFER_SIZE` of 64 |

Deadlock is checked in every run but those of `EmbeddedComm`, where an assertion
or a stray pointer really stops the process, and of `HttpParser`, where a `memcpy`
without an end does.

**Fairness.** `FairSpec` has weak fairness of `LibraryStep` only: the one thread
that is inside the library is scheduled, and every system call returns except a
`read` on a socket without a timeout; with `timeout # 0` the socket has
`SO_RCVTIMEO` (`posix_comm.c:73-95`), which is the action `ReadTimesOut`.
A build with `XI_COMM_LAYER_POSIX_DISABLE_TIMEOUT` is a program that sets the
timeout to 0 before anything else.
Neither the peer nor the server nor the program is assumed to do anything.
`CallReturns` is the only liveness property; without a timeout it is false, and
the code does not promise it. The default timeout (`xi_globals.c:12`) is 1.5 s.

**Bounds.** `MaxCalls` bounds the requests of a program (`Begin` is disabled after
it), `MaxFds` is the descriptor limit, `MaxHeaders`, `MaxStreams`, `NameSize`,
`ValueSize` and the buffer sizes are the library's compile-time limits, scaled. In
`Datapoint` a minute has 3 seconds, an hour 2 minutes and a day 2 hours, `int` has
15 bits and `long` 21, so that the centuries in which leap years are skipped fit
TLC's integers and `long` overflows in the year 2209, `YearMax` is 2441 in place of
9999, and `MicroMax` 999 in place of 999999; months, years and leap years are the
real ones. `%f` has 2 digits instead of 6. `Clock` is the 26 seconds after each of
the eight dates. Three guards bound how the program's activities mix: the clock
ticks only while the datapoint is fresh (`Tick`), strings, floats and received lines
are used at the times in `BusyTimes` only, and a datapoint that was decoded is used
on, other than by encoding or clearing it, only after lines in `SomeLines`. What is
lost is a mix of dates and values that the code keeps apart as well: nothing it does
with values depends on the time. No other bound is in the modules.

## 4. Proofs

Checked by TLAPS for all values of the constants that satisfy the module's
assumption (`PosixAssumption`, `SessionAssumption`, `ParserAssumption`,
`EncodeAssumption`, `CsvAssumption`, `TimeAssumption`, `DatapointAssumption`:
sizes are naturals, buffers not empty, functions are among the eight, replies,
requests and lines have their shapes). TLC evaluates every one of them on its
instance. Every invariant a run checks has a theorem, and so have the two
refinements of the communication layers, that of the request functions, that of
the calendar, and `CloseFreesAll`.

* `PosixCommProofs`: `CommInv` = types, `LiveIsWhole` and `ResidueIsKnown`,
  inductive together, because an open starts from a connection that owns
  nothing. From it `CloseFreesAll` and the refinement `ImplementsCommLayer`:
  only a failed open of an idle connection maps to the abstract loss.
* `EmbeddedCommProofs`: `LayersInv`, the same three properties for the layers
  together, in builds with assertions and without. Each step of each layer is one of
  six kinds of step, whatever the platform (one lemma per layer); the invariant and
  the refinement `LayersImplementCommLayer` are argued once over the six kinds.
* `XiSessionProofs`: the inductive `SessionInv`. Its parts, and why the
  properties alone are not inductive:
  - `CommTyped`, `SessionTyped` - types; `Fresh` - a call not made yet has left
    no trace, so `Begin` starts from nothing;
  - `StageLive` - the stage says whether the connection is held. `Quiescent`
    needs it: the epilogue closes only what it knows to be open;
  - `ResponseOk`, `ServerOk`, `WireOk` - a response pointer implies a complete
    parse of an answer of this connection, an answer *ok* implies execution,
    execution implies a wholly written request;
  - `OutcomeOk`, `ErrOk` - the heart of `OutcomeIsTrue`: a code that says "not
    sent" is in the register only while nothing was written, or after a NULL the
    program has not looked at yet; and what was not written can never be
    executed. This needs a program that reads the register after NULL
    (`Polls # "never"`), else a code of an earlier call would be believed;
  - `NullErr` - NULL is never on its way without a code; `Residue` - what is
    held without being live stems from an open that failed.

  The theorems are `TypeCorrect`, `SessionQuiescent`, `SessionNullMeansError`,
  `SessionOwnReply`, `SessionResidue`, `SessionOutcome`, and
  `ImplementsRemoteCall`: each step maps to a step of `RemoteCall` or a stutter.
  In the same module, on top of `SessionInv`: `FaultInv`, for
  `SessionNullMeansFault` and `SessionErrorNamesFault`. Its parts: a call that
  fails nowhere and did not begin with a stale code has a clear register until
  the reply is parsed (`ClearOrStale`); a call on its way to NULL has a fault
  (`NullHasFault`) and the register holds a code of that fault or of a failing
  close (`NullIsNamed`); and what a call that returned a response can leave in
  the register is a code of the decoder or of a close (`ResponseLeaves`), which
  is all a stale register can hold for a program with `Polls # "never"`. That
  string and code agree is `StringOfCode`.
* `HttpParserProofs`: `ParserInv` = the run's five invariants with `LoopInv` (in the
  loop the list is the part of the head already read, all of it lines the parser
  takes, and the register is clear exactly if it was at the call) and `ForwardInv`
  (after the loop the register tells acceptable replies from others, and the reply
  was not a losing one). `ParserAcceptsExactly` is for replies with lines of all six
  kinds: it names those that get a response and those from which the parser does not
  come back.
* `HttpEncodeProofs`: `EncodeNullMeansError` holds by what `Store` and
  `ReturnNull` do, and is inductive as it stands.
  `EncodeRequestIsWhole` needs `EncodeInv`: what each buffer holds once its stage
  is done is the text of this call. It is proved under `HeadersFit`, that the two
  content headers fit their buffer. The encoders ignore the 0 of
  `http_construct_content` (section 5), and without the assumption a request would
  go out without its content; with the library's buffer of 64 characters for
  headers of some 50 the assumption holds. `EncodeTypeCorrect` follows from
  `EncodeInv`, since each of these texts is a text of known pieces.
  `EncodeNullMeansTooLarge` needs arithmetic besides: the width of two texts is
  the sum of their widths (`WidthConcat`), so no part of a request is wider than
  the request (`RequestIsWidest`), and a text that failed to fit shows that the
  request of this call is too large, whatever an earlier call had left.
* `CsvFeedProofs`: `CsvInv` = `TypeOK`, `NoHalfRows` and, while rows are decoded, a
  place left for the next one and a result that is not NULL: only the last row of a
  call can have failed, and the rows behind it are as the call found them. Texts are
  of any length. On top of it `FeedInv` for `CsvGoodRowsSurvive`, `CsvDecodesFeeds`
  and `CsvOneRowPerLine`: the row being decoded begins where a line of the text
  begins, and as many rows have been decoded as there are lines in front of it
  (`RowsInv`); the two searches of a good row end in its own line (`GoodRowFound`),
  so its neighbours do not matter; and a refusal means a row that is not good or one
  too many.
* `DatapointProofs`, in three parts.
  - *Time.* The loops of `xi_time.c` keep the number of days since the beginning
    of the calendar (`DayCount`) while they bring a day into its month, and a date
    is determined by that number (`DateUnique`). From this: `xi_gmtime` shows the
    day and second of its time; `ShowsCalendar`, because the next number of
    days is the date a calendar carries to; `MktimeIs`, which also needs that the
    leap days `xi_mktime` counts with remainders are those of the calendar
    (`LeapDaysAre`) and that its tests for an overflow find exactly the times that
    do not fit (`OverflowIs`); `TimeComesBack`, that the two are inverse on every
    `long`. `ShowsCalendar` assumes that the clock's first dates are dates
    (`Dates`), which TLC checks with the refinement; `EpochDate` is where the
    calendar is tied to history.
  - *Texts.* What a pass of the automaton says of the characters read so far
    (`Says`) is kept by one character more, so its last state tells integers,
    decimals and strings apart by their look (`PlainState`, `StateRestarts`). The
    digits `%d` and `%f` write are the ones `atoi` and `atof` read (`DecimalIs`,
    `PlacesIs`, `IntText`, `FloatText`), for numbers of any size.
    Microseconds that fit `%06d` are read back (`MicroComesBack`).
  - *The datapoint.* `IInv` adds to the types that a float is a number, that the
    line that waits is a line, and that a string ends in its array, which is what
    decoding needs of the datapoint it writes into; from it `DatapointTypes` and
    `StringEndsInArray`. `DecodedStampIsTrue` and `DatapointReads` are inductive
    with it. `DatapointComesBack` needs `SentInv`: while a line is remembered as
    sent, it is the text of what was encoded, so that decoding it is decoding
    what `csv_encode_value` wrote; times, years and microseconds beyond their fields
    are its stated exceptions. `IInv` and `SentInv` also pass as invariants
    of the run `datapoint`.

  `TimeAssumption` asks of the units that a day has at least 3 seconds, for
  `OverflowIs`, and that `long` is as wide as `int` or wider by some bits, so that the
  `int` of a `long` keeps its low bits; C's types are like that. The proofs need no
  bound: `int`, `long`, the array and the number of digits of `%f` are of any size.
* `Recursion`: the library's induction theorems take an operator, which the provers
  cannot instantiate. Here induction is stated for sets (a set of numbers with 0
  and every successor has them all), proved from the well-foundedness of `<`, and
  with it that a recursive function exists whose calls go down in a measure
  (`RecursionExists`, `LoopExists`, `IntervalRecursion`). Everything proved about
  sums of widths, digits, passes of the automaton and loops over months rests on
  it; it is why the models write recursion as functions.

Only model-checked: `CallReturns`, because liveness under fairness and `ENABLED`
are outside the prover's reach. The violations of section 5 are counterexamples of
TLC's, and that the instances reach the interesting cases is shown by TLC only.

## 5. Where the code and its documentation disagree

Each of these is a run that ends in a counterexample; `PROJECT.json` quotes the
lines.

* `stale_error`: `parse_http` decides by the global register
  (`http_layer_parser.c:186`). If closing failed after a good reply, the next
  good reply becomes NULL, with the old code, although every step of that call
  succeeded.
* `decode_failure`: `xi_feed_get` and `xi_datastream_get` return the response
  although the content did not decode (`xively.c:283`, `321`).
* `cut_reply`: the reply is read once and its length never compared with
  Content-Length; part of a value is reported as the value.
* `delete_range`: the path of a range needs 93 characters, `XI_ID_BUFFER` has 64.
* `nq_close`: the nanoqplus layer returns in front of the frees when closing
  succeeded (`nq_comm.c:158`), so only a failing close gives the blocks back.

Seen while modelling, without a counterexample of their own; where a property has
to make an exception for one, it is named:

* `tcp_connect` of nanoqplus fails with the number of connections or with -1
  (`tcp-api.h:67`). The layer tests for the first and asserts for the second
  (`nq_comm.c:65-76`), so a build without assertions hands out a connection that
  has no TCP connection, where `comm_layer.h:41` says 0 (`LiveIsWhole`).
* Of a header without a blank behind its colon the first character of the value is
  lost (`http_layer_parser.c:107`; `OnlyThisReply`).
* A header with nothing behind its colon, which HTTP allows, has length -1 at
  `http_layer_parser.c:112`, and the copy of that length does not end (`Losing` in
  `AcceptsExactly`).
* In the POSIX layer a failing `socket()` keeps the blocks, a failing later step
  keeps the descriptor (`posix_comm.c:70`, `133-139`), and nothing can free them:
  `ResidueIsKnown` and the losses of the refinement say exactly this.
* The mbed layer keeps the socket object when the first block does not fit, and
  deletes through an unset pointer when a later one does not.
* A feed with exactly `XI_MAX_DATASTREAMS` rows is refused (`csv_data.c:319`);
  `DecodesFeeds` says fewer.
* A vertical tab in a value is counted and not stored (`csv_data.c:166`): the byte
  below it is what the datapoint held before. And it resets the automaton, so
  the type is that of what follows it.
* `csv_data.c:369` puts the time into an `int` and takes -1 for an error: a time
  whose low bits are all ones is refused. `StampIsTrue` and `ComesBack` name it.
* A string that looks like a number comes back as a number, one with the end of
  a line in it comes back cut; `ComesBack` is about the others.
* The last test of `xi_mktime` compares a `long` with itself, so a time beyond
  `long` comes back negative.
* `examples/datastream_update.c:65` reads the register twice in one argument list:
  one of number and string is always "no error". `datastream_get.c` prints a
  structure that was not filled if the call failed, and does not look.
* `classify_header` stops at index `XI_HTTP_HEADER_COUNT - 1`, and the enumerators
  and the names are in different orders (`http_layer_parser.c:34-35`), so *age*
  and *vary* headers are of unknown type. `HttpParser!classify_header` is the code.
* The last place of the header list is never usable; a reply without headers is
  always rejected.
* A row without a value takes the text after the next comma, of the next row
  (`csv_data.c:340`); the model has it, and `GoodRowsSurvive` says what it spares.
* The request of `tests/core.c:269-278` has 145 characters with the POSIX user
  agent, more than the default `XI_QUERY_BUFFER_SIZE`.
* The caller's code overwrites `XI_DATAPOINT_VALUE_BUFFER_OVERFLOW`; a datastream
  name that is too long is cut without an error (`csv_data.c:308-311`), and so is
  a string value in `xi_set_value_str`, whose test for the size never fails.
* A range with one end NULL copies from the null pointer before testing it
  (`http_transport_layer.c:347`); with both NULL the test at 390 fails without a
  code. `RequestShape` leaves these inputs out.
* `http_construct_request_datapoint` has no caller; `http_construct_content` may
  return 0, which the encoders do not test (modelled: `RequestText`).
* The mbed layer's read uses a fixed timeout; the byte counters of a connection
  start undefined; `tcp_send` of nanoqplus has codes that are taken for counts.

## 6. Not modelled

Formatting, wording, debug output and the choice of allocator: no property is about
them. The rounding of floats: `Atof` and `Fixed` are exact, so nothing is said about
a value whose digits a `float` does not hold. What a number is when a vertical tab
left an old byte in its text. One-sided ranges of datapoints, whose behaviour is
undefined in C. `http_construct_request_datapoint` and `xi_replace_with`, which
nothing calls. Two threads in the library: nothing in the code supports them. The -1
of `csv_encode_value` for a type that is none (`csv_data.c:40`): a row has a type a
setter gave it. The status line's `sscanf` reads a string of one character more than
its array has room for beside the terminator (`http_layer_parser.c:21`), which a
status as long as that would show; no server's is. A reply that fills the buffer of
`read` to its last byte, and has no terminator, appears as a cut reply only. Years
beyond `int` in `xi_gmtime`. The hardware tables and headers of the nanoqplus
platform, the unit tests and their imported harness are not part of the library; the
example programs are where the models take a program's calls from.

## 7. Plan

Done, in order of importance: error register, POSIX layer and its abstract
interface; request functions, network and server with their abstract remote
call; reply parser; encoders; feed decoder; the other communication layers;
datapoints, their text and their time; proofs of every invariant the runs check
and of all refinements.

What would come next: `XiSession` over a layer chosen like `EmbeddedComm`'s, to
show what `ResidueOnlyFromOpen` becomes when closing loses connections; the
range of the fields `xi_gmtime` returns for the real lengths of a day, as
corollary of `GmtimeShows`; and `EncodeRequestIsWhole` without `HeadersFit`, as a
theorem about which requests are sent without their content.
