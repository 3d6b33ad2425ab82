# The Elasticsearch ODBC driver in TLA+

A verification project for `elasticsearch-sql-odbc`, the ODBC driver that sends
SQL to Elasticsearch over HTTP and hands the answers to an application row by
row. The modules here model the driver's control flow as it is in `src/driver/`:
statements and their paged results, the transport they share, descriptors, row
sets, SQLGetData, connecting, and the handles under several threads. TLC checks
each on a small instance; TLAPS proves, for all instances, every invariant and
action property that the passing runs check, and the four refinements (those of the
stream for a server that the runs assume, too).

```
tlc -workers 2 -config EsStmt.cfg MCEsStmt.tla     # a model checking run
tlapm EsStmtProofs.tla                             # the proofs of a module
```

## The system

An application loads the driver through the ODBC Driver Manager (DM) and works
on *handles*: environments, connections (DBC), statements (STMT) and
descriptors (DESC). Everything below lives in `src/driver/`.

| Component | State | Operations | Talks to |
|---|---|---|---|
| Statement execution, paging, fetching (`queries.c`, `handles.h`) | the query (`u8sql`), the attached answer and its cursor (`rset`), the early execution flag, rows counted (`tv_rows`), the conversion check's flag, SQLGetData's column, type and offset | SQLPrepare, SQLExecute, SQLExecDirect, SQLFetch, SQLGetData, SQLBindCol, SQLCloseCursor, SQLFreeStmt, SQLRowCount, SQLDescribeCol, parameters | transport (`curl_post`), descriptors, conversion |
| Connection transport (`connect.c`) | one libcurl handle, the URL it is set for, the answer buffer, the connection's timeout and diagnostic, `curl_mux` | `curl_post`, `dbc_curl_init`, `dbc_curl_set_url`, `dbc_curl_add_post_body`, `dbc_curl_perform`, `write_callback`, `cleanup_curl` | libcurl, the server; calls back `attach_answer`, `attach_error`, `close_es_answ_handler` |
| Handles (`handles.c`) | per type: links to the parent, attributes, a mutex, a diagnostic | SQLAllocHandle, SQLFreeHandle, SQLFreeStmt, SQL(Set/Get)(Env/Connect/Stmt)Attr | descriptors, statement |
| Descriptors (`handles.c`) | header fields, an array of records and its count | SQLSetDescField, SQLGetDescField, SQLSetDescRec, record allocation, consistency check | statement (implicit descriptors), fetch |
| Row sets (`queries.c`) | status array, rows-processed pointer, per-row diagnostics, bind offset and type | the copy loop of SQLFetch | descriptors, conversion |
| SQLGetData chunking (`convert.c`, `queries.c`) | `gd_col`, `gd_ctype`, `gd_offt` | `gd_offset_apply`, `gd_offset_update`, `gd_checks` | statement |
| Connecting (`connect.c`, `dsn.c`, `setup.c`) | connection attributes, the loaded ES types | SQLDriverConnect, SQLConnect, SQLDisconnect, version check, `load_es_types` | transport, a throw-away statement |
| Conversion (`convert.c`) | none (a per-thread current date) | C to SQL and SQL to C, `convertability_check` | row sets, SQLGetData, parameters |
| Catalogue functions (`catalogue.c`) | the connection's current catalog | SQLTables, SQLColumns, SQLSpecialColumns, ...: each builds a `SYS ...` query and executes it | statement |
| Driver information (`info.c`) | none | SQLGetInfo, SQLGetFunctions, SQLGetDiagField/Rec, SQLGetTypeInfo | |
| API entry points (`odbc.c`) | none | take the handle's mutex, call the `EsSQL...` function, release it | all |
| Logging (`log.c`), utilities (`util.c`, `error.c`, `tinycbor.c`) | log buffers | | all |
| DSN editor, installer, tests | | user interface, packaging, `src/test` | |

### What is hard

* **A result set is paged, and the application does not see it.** A SQLFetch of
  a row set may use up a page, ask for the next one through the same function
  that executes a query, and go on; the request can fail at any point, the
  answer can be unusable, the next page may be in another encapsulation. Rows
  must be delivered once and in order, and the end reported only at the end.
* **State that caches other state.** The conversion flag (columns against
  bindings), the IRD's pointers into the attached answer, the early execution
  flag, SQLGetData's offset, the libcurl handle's URL and timeout, the
  connection's diagnostic: each must be reset by every operation that makes it
  stale, and those are far apart.
* **One transport, many threads.** Calls on different statements run
  concurrently; each locks its own mutex. The connection's transport has one
  mutex of its own; the connection handle has another.
* **Server-side resources.** A cursor holds a search context open in
  Elasticsearch until it is read to the end or closed by a request.
* **Failures in the middle.** libcurl fails before, during or after a transfer;
  an answer may come too late, too large, empty, with an error code, or
  unparsable.
* **Sequences of legal calls** over several handles: re-preparing, closing with
  or without dropping the query, freeing descriptors in use.

`PROJECT.json` lists each such place (`hazards`) with its line and the
properties aimed at it, or why there is none yet.

### What makes each part correct

* Statement: the delivered rows are the query's rows, in order and none twice, and
  one is missing only if it failed itself or in a call that returned SQL_ERROR
  (`ImplementsStream`); the counters and the cursor agree (`CursorFollowsPage`); nothing is read through a
  stale pointer or flag (`RowValuesLive`, `FetchOnlyConvertible`,
  `GetDataOnCurrentRow`, `EarlyResultUntouched`); no search context leaks
  (`ServerContextHeld`); a prepared query survives (`PreparedKeepsQuery`); a
  fetch comes to an end (`EveryFetchReturns`).
* Transport: a statement gets the whole answer to its own request or an error
  (`ImplementsTransport`, `BufferHoldsAnswer`), under its timeout
  or a longer one (`QueryTimeoutInForce`, `TimedRequestEnds`), with a diagnostic of its own
  (`DiagNotOfOthers`), and leaves the connection usable (`FailedHandleDropped`).
* Descriptors: a call changes its own column's binding only, through growing,
  trimming and undoing (`ImplementsBindings`, `UnbindTrims`,
  `FailedBindAddsNone`); a buffer that is bound was checked as it is bound
  (`AcceptedAreConsistent`).
* Row sets: the status array says of each row what became of it
  (`StatusTellsRow`), return code, row count and diagnostic agree with the rows
  (`AnswerTellsRows`), each row is in the buffers at its own position
  (`CellsHoldRows`), rows follow each other across pages and failures
  (`RowsFollow`), and nothing else of the application's memory is written
  (`WritesOwnOnly`).
* SQLGetData: the pieces put together are the value, whatever the buffers
  (`ImplementsPieces`); the offset is one of the value it is applied to
  (`OffsetInValue`), the reported lengths add up (`LengthAddsUp`), a piece
  stays in its buffer, if that has room for a character (`PieceInBuffer`), and a
  loop of calls for more ends (`PieceAdvances`).
* Connecting: an open connection is the work of one attempt, however many failed
  before it (`OneAttempt`); the types are all loaded, up to the most the driver
  has room for (`TypesAreAll`); nothing is left of what connecting allocated for itself (`ScratchFreed`); the catalog is
  one in both encodings (`CatalogAgrees`, which is proved only).
* Handles: what a call found of a statement and its own descriptor stays until it
  returns (`FoundStays`).

## The modules

| Module | What it is |
|---|---|
| `EsStmt` | one statement against a server: prepare, execute, page, fetch, bind, SQLGetData, close, free |
| `ResultStream` | abstract: the stream of rows that `EsStmt` implements |
| `EsStmtProofs` | the inductive invariant of `EsStmt`, for any server |
| `EsStmtStreamProofs` | the refinement of `ResultStream`, for an orderly server |
| `EsCurl` | the libcurl handle shared by the statements of a connection |
| `Transport` | abstract: requests and answers, which `EsCurl` implements |
| `EsCurlProofs` | the invariant of `EsCurl` and the refinement of `Transport` |
| `EsDesc` | the records of an application row descriptor and the calls that change them |
| `Bindings` | abstract: one binding for each column, which `EsDesc` implements |
| `EsDescProofs` | the invariant of `EsDesc` and the refinement of `Bindings` |
| `EsRowset` | SQLFetch of a row set into the application's memory |
| `EsRowsetProofs` | the invariant of `EsRowset` |
| `EsGetData` | SQLGetData of the columns of a row, piece by piece |
| `Pieces` | abstract: a value handed over in pieces, which `EsGetData` implements |
| `EsGetDataProofs` | what the transfers do to a buffer, the inductive invariant of `EsGetData`, and the refinement of `Pieces` |
| `EsConnect` | connecting attempt by attempt, disconnecting, the connection's attributes |
| `EsConnectProofs` | the invariants of `EsConnect` |
| `EsHandles` | which mutex a call takes and which descriptor it works on, while others allocate, associate and free |
| `EsHandlesProofs` | the inductive invariant of `EsHandles` |
| `MCEsStmt`, `MCEsCurl`, `MCEsDesc`, `MCEsRowset`, `MCEsGetData`, `MCEsConnect`, `MCEsHandles` | the instances for TLC |

`map` in `PROJECT.json` gives, for each definition, the lines it models.

How the modules meet. Each is one component with the others reduced to what it
sees of them. `EsStmt` has a request as a set of outcomes; that these are all is
`Transport`, which `EsCurl` implements: the whole answer to the own request, or
an error. `EsStmt` counts the rows it copies; `EsRowset` copies them. `EsStmt`
and `EsRowset` have a column bound or not; `EsDesc` says what a call does to it.
`EsStmt`, `EsRowset`, `EsDesc` and `EsGetData` take a call on a statement as one step
since the statement's mutex is held; `EsHandles` is about that mutex, and about
descriptors it does not cover.

### EsStmt

State. `stmt` is `esodbc_stmt_st` with the part of its descriptors that these
calls depend on. `stmt.ird` stands for the IRD's records: the columns' type
(one column stands for all), whether the names in the records point into the
answer that is attached, and whether the values do. `stmt.bound` is the C type
the ARD has the column bound as. `stmt.rset` is the attached answer: the rows of
the page that are left, `(lo, hi]`, the cursor, and `forced` for an empty page. All
answers are of one encapsulation here; `EsRowset` has both. `dm` is the DM's state of the statement,
`srv` the server (rows of the query, whether a search context is open), `call`
the locals of a SQLFetch that is running, `app` what the application got.

Data. A row is its ordinal in the result; the conversion is
the outcome of `convertability_check()` for a pair of types (`Conv`) and, for a
row, success or failure (`RowOutcomes`): a row that cannot be unpacked or converted is
taken off the page and counted as an error, and not delivered. A cursor is the number of rows sent before it. A
pointer into the answer is `"none"`, `"live"` or `"stale"`.

Actions. One for each entry point and outcome class. Entry points hold the
statement's mutex (`odbc.c`), so a call is one step, except SQLFetch: its loop
is modelled row by row and page by page (`FetchBegin`, `FetchRow`, `FetchTurn`,
`FetchEnd`), because what matters happens between its iterations. A request is a set
of outcomes (`Request`): refused before it changed anything; served by the
server with the answer lost or unusable (`Late`); or answered, with every page
the server may cut (`Served`). `AttachAnswer` and `ClearResultset` are the
functions of that name. SQLExecute and SQLFetch's page turn share
`Execute`, as they do in the code.

Environment, and what is assumed of it:

* The DM lets a call through only in the states the ODBC specification allows;
  the driver relies on it and does not check again. `dm.st` has S0, S1, S3, S5
  and S6.
* The server's pages have at most `FetchSize` rows. Asking twice with a cursor
  gives the same page twice. A page may come
  with a cursor though it is the last with rows. What else a server can do is in
  `Faults`: an answer that does not parse, columns that fail to attach, none in
  the first page, columns again in a later one, an empty page with a cursor, rows
  that are no rows.
* The build is a release build: assertions do nothing.

The row set and its status array are counted, not filled (`EsRowset` fills
them); parameters, SQLRowCount, SQLDescribeCol and the text of anything are left
out.

### ResultStream

What an application may rely on: a result set is a stream of rows `1..total`;
a fetch begins (`Begin`) and goes over the next ones, each of which it takes (`Take`)
or, if the row itself fails, passes over (`Skip`). It returns when the row set is filled
or the rows end: with what it took (`Deliver`), with an error if all its rows failed
(`AllFailed`), with the end (`End`) if there were none; or it fails with the page it could
not get (`PageFails`), which loses what it took and may lose the rest (`cut`). A row that
failed by itself is lost to the application even if the call returns SQL_SUCCESS,
which is how `EsSQLFetch()` has it: it counts the error, and makes SQL_ERROR of it only if
all rows failed. The refinement mapping (`Stream` in `EsStmt`): the stream's
position is `tv_rows`, what is being copied is `call.rows`, the rows passed over are
`call.errors`, and the rest is lost when the cursor is gone while the server has rows
the page does not.

### EsCurl

State. `dbc` has the members under `curl_mux` (and the mutex, as the statement
that holds it) and the connection's diagnostic, as the statement on whose behalf
it was posted; `curl` is the libcurl handle: the URL, timeout and body that it
is set for; `th` the locals of `curl_post()` for each thread, with a program
counter; `net` the request the server works on and how much of the answer it
sent; `app` the result and timeout of each statement.

Actions follow `curl_post()` from its lock to its release, one action per call
that can fail or that another thread could see the middle of. The transfer is a
sequence of `write_callback()`s (`Chunk`) of any size. It ends with a
response code, a failure, a timeout, a refused chunk, or an error after the
response code was had (`LateError`), when the answer is there but is not used.
A pointer the code reads uninitialised (`cont_type`, without a
body) makes `content_type_supported()` a free choice. `SetTimeout` stands for
the calls on the connection handle: they run under another mutex, at any moment.

Not in it: the connect-time requests, which are made before the application has
statements and are in `EsConnect`; failure of `realloc` in `write_callback()`, which ends the transfer as
`TransferFails` does.

### Transport

What a statement may rely on: it asks a URL, the server serves the request at
most once, the call returns that whole answer or an error. `EsCurl` maps the
request that runs to `served` the moment libcurl sends it, so that an answer
under way, in the buffer or in a local is the same abstract answer.

### EsDesc

State. `stmt.ard` is the statement's current ARD, the application's (`"own"`) or
SQLGetData's (`"gd"`), `stmt.recs` the records of each. A record has its type, a
precision, whether verbose type and code agree with the concise type, the buffer,
and which of the two length pointers are set. `refused` and `last` are history:
the columns on which the last call failed, and the last call.

An operation on records (`UpdateRecCount`, `GetRecord`, `SetDescField`,
`BindRec`) is a *set of outcomes*, since a growing `realloc()` can fail in each
of them. SQLBindCol is composed of the field changes it makes, in their order
(`FieldsSet`), with the undoing of its end (`Restored`). Actions are the calls:
`BindCol`, `SetField`, `SetCount` (SQL_UNBIND too) and `GetData`, which puts
its own ARD in place, binds in it, and puts the application's back.

Data. A type is a name; what matters of it is the precision that setting it
sets (`DefPrecision`) and the one the check allows (`MaxPrecision`), which is none for a
timestamp, as the code has it. The scale and the leading precision of an interval
(`datetime_interval_precision`), which are checked alike, are left out, and so are
fields that only unbind (`"OCTET_LENGTH"` stands for them). The descriptor is the statement's own one,
so its mutex is the statement's and a call is one step. Assumed: a
`realloc()` to a smaller size succeeds and stays in place (the code reads the
old block afterwards).

### Bindings

A function from columns to bindings. A successful SQLBindCol binds what was asked
(`Bind`); a failed one, or another field, may do anything to its own column
(`Disturb`); the count drops columns above it (`Lower`); SQLGetData and refused
calls change nothing (`Keep`).

### EsRowset

State. `stmt` has the attached page and `tv_rows`; a page's `stuck` is the row that
the iterator cannot leave. `call.json` is the encapsulation that SQLFetch finds when it
begins and reads every page in. `ird` has which of the two pointers are set, `ard`
the array size, the orientation, the bind offset and what each column is bound
as (without an indicator, too). `mem` is the application's memory: the status
array, the count of rows, and a cell for each column, offset and position;
`call.rows` the rows read by the running SQLFetch, or the last one; `last` and
`diag` what it answered and posted.

Actions. SQLFetch is `FetchBegin`, `FetchRow`, `FetchTurn`, `FetchEnd`, as its
loop is; the others are calls. A turn may be to a page of the other encapsulation than
`call.json`: to a call that reads CBOR the rows of a JSON page are not there (`LooksEmpty`),
and one that reads JSON gets from a CBOR page whatever its iterator makes of other
memory (`FetchAstray`: any row, of no number). `CopyOneRow` stands for `copy_one_row_json()` and
`copy_one_row_cbor()`, `UnpackOneRow` for what is checked before; they differ in
what they do with a row of the wrong length. A column of a row is copied, copied
cut (`"info"`), copied as NULL, fails in its conversion (`"bad"`) or is no
value (`"alien"`). The columns are copied in order up to the first that fails, and
`DeferredAddress` says where to. `GetData` copies with the same functions, into
a descriptor of its own. The application writes its memory before each call
(`Untouched`), so whatever differs from it afterwards is the call's.

Left out: what a value looks like (that is conversion), and the rest of the
diagnostic.

### EsGetData

`EsStmt` knows of SQLGetData which row it is on; this module is about one value.

State. `row` has the values of the current row, `gd` the statement's `gd_col`,
`gd_ctype` and `gd_offt`, `attr` the two statement attributes that SQLGetData looks at.
`last` is the last call: its answer and what it left in the buffer. `got` and
`spoilt` are history: the characters the application has put together from the pieces,
and whether one of them was read in a way that promises it nothing (under
SQL_ATTR_MAX_LENGTH, which cuts data as specified, or into a buffer that does not
hold one character).

Data. A text is the sequence of the widths its UTF-16 units have in UTF-8: that is
all its pieces depend on. What a buffer holds is a range of bytes of the encoded
text. Offsets count units, as in the code, so `wstr_to_cstr()`, which fills a
buffer with bytes and moves by units, is translated with both. Where it
asserts that at least one character fits, a release build reads the byte in front
of the buffer, and overwrites it with 0 if it is not that already: both outcomes are
there (`Astray`). A timestamp's text is the one it is translated to; the varchar
limit cuts the ISO text, which has one character more, before it is translated (`Shown`),
and one that is cut too short fails (`Translatable`).

Actions. `EsSQLGetData()` by its exits: all read before (`GetDataExhausted`),
refused by `gd_checks()`, failed in the conversion, a value of fixed length
(`GetDataFixed`), a piece of a text (`GetDataPiece`); a fetch of one row; and the two
attributes, which may change between pieces.

Left out: surrogate pairs (a pair that straddles the end of a buffer fails the
call), doubles (cut in front of the decimal point or not at all), intervals.
Assumed of the DM: it refuses a NULL target and a negative length.

### Pieces

Each call hands over the next characters; the answer tells whether that was all;
after that there is no more data; a failure or a fetch starts over.

### EsConnect

State. Attempts are numbered, and a member of the connection has the number of the
attempt that set it, so that a member that survived its attempt shows. `curl` has
the credentials that libcurl's handle was set up with, `heap` what else is
allocated, `srv` the number of types of the server that answered, `open` the DM's
idea of the connection, `call` the program counter of the connect call.

Actions follow `do_connect()` and what it calls, one for each step that can fail:
`Cleanup`, `Configure`, `InitCurl`, `RequestVersion`, `CheckVersion`, then
`load_es_types()` with a statement of the driver's own (`LoadArrays` to `LoadEnd`),
`AttachTypes`, `Finish`. A failure returns, or goes back to the dialog (`Prompt`)
for another attempt on the same handle. Between connects: `Disconnect`, the login
timeout, the current catalog (set, and read with a request to the server), and a
request of a statement, which may drop libcurl's handle.

Left out: parsing and writing of connection strings, DSNs in the registry, the
URL's text, TLS and proxy settings. The calls hold the connection's mutex.

### EsHandles

State. `live` are the allocated handles, `ard` the descriptor each statement uses,
`recs` what is bound in a descriptor, `mux` who has each mutex, `th` the call of
each thread, with the descriptor it works on and what it found there. A statement and
the descriptor allocated with it have one name, since they share a mutex.

Actions: a call begins (`Call`), takes its mutex (`Lock`; `TryLock` in
SQLFreeHandle), does its work (`Read`, `Write`, `SetArd`, `FreeHandle`) and
releases it. `LockOf` is what `HND_LOCK` resolves to: a call on a descriptor
takes the mutex of `hdr.stmt`, which for a descriptor that the application
allocated is the connection; a call on a statement takes the statement's,
whichever descriptor the statement uses. Allocation takes none.

Assumed of the application: it frees no handle that it has just passed to
another call. Memory of a freed handle may be reused. Left out: SQLGetData's temporary
descriptor (`EsDesc`), SQLDisconnect, and SQLFreeHandle's error exits, which are for
types of handles that are not in the model (and keep the mutex).

## The runs

| Run | Instance | Shows |
|---|---|---|
| `stmt` | up to 3 rows in pages of at most 2, row sets of 1 and 2, 2 column types, 2 C types, early execution on and off, bad answers, rows that fail | the properties of `EsStmt` hold, fetches end, the stream is implemented |
| `names` | the same, a well-behaved server | **violation**: column names dangle from the second page on |
| `curl` | 2 statements, timeouts 0 to 2, answers of 0, 3 and 4 bytes, a limit of 3, a first buffer of 1 byte | the properties of `EsCurl` hold, timed requests end, `Transport` is implemented |
| `timeout` | the same | **violation**: a request runs under an earlier one's timeout |
| `desc` | 2 columns, of which SQLGetData has the first on the stack; a type whose default precision is above what another one allows, and a timestamp, with no bound | the properties of `EsDesc` hold, `Bindings` is implemented |
| `rowset` | up to 3 rows of 2 columns, of seven kinds, in pages of at most 2, each of either encapsulation; row sets of 1 and 2, two bind offsets | the properties of `EsRowset` hold |
| `rowerror` | the same | **violation**: a row that failed to convert is not marked |
| `getdata` | three rows of two or three columns: texts with characters of 1 to 3 bytes, an empty one, an integer, three timestamps (whole, cut by the limit, too short), a NULL; buffers of 0 to 6 bytes; a limit on texts and SQL_ATTR_MAX_LENGTH | the properties of `EsGetData` hold, `Pieces` is implemented |
| `whole` | the same, buffers of 6 bytes, no limits | **violation**: a piece ends in the middle of a character |
| `connect` | 3 data sources (a user, a key, neither), up to 3 attempts, servers with 0 to 3 types, room for 2 | the properties of `EsConnect` hold |
| `types` | the same | **violation**: a second connection finds the pointers of the first |
| `handles` | 2 threads, 2 statements, a descriptor that they can share, 2 bindings | the properties of `EsHandles` hold |

Why the bounds are enough. *Three rows in pages of two*: a row set of two then
lies within a page, ends with it, and spans two pages; a result has none, one,
two or three pages with rows, and a last one without. Two column types and two C types give a
pair that converts and one that does not, and let re-execution change the
columns under a binding. One column stands for all since the code treats
columns in a loop, and only the worst outcome counts. *Two statements*: the
transport has one mutex and no queue; a third thread can only do to two what one does
to the other. *Timeouts 0 to 2*: none, and two that compare either way. *Answers
of 0, 3 and 4 bytes, from a 1-byte buffer with a limit of 3*: no growth, growth by
one doubling and by several in one chunk, growth past the limit that is capped
and fits, that is capped and does not, and growth at the limit. *Two columns*: a
record to grow past, to trim past when unbound, to keep when bound, and a column
number above the limit. The run `desc` has a VIEW without `last`, which no action
reads; TLC checks action properties on every step all the same.
*Buffers of 0 to 6 bytes*: too small for anything, for one character and the
terminator, odd for UTF-16, and two of the widest characters, from which on a piece
is sure to move (`PieceAdvances`; with 4 bytes the text that begins with two characters
of three bytes has none). In buffers of one and two bytes none of those characters
fits, nor under a limit of two, which is the case of `Astray`. A text of five units
then takes one to several pieces,
whose ends fall before, in and after a character of two or three bytes.

*A row set of two over three rows in pages of two*: it is full within a page, spans a
page turn, and is cut short by the end. The seven kinds of rows are each way a row can
fail in each of the columns and two that succeed; columns 1 to 3 of two can be bound, one
too many. A call begins with up to two rows counted (`MaxVisited`; three in
`rowerror`), so that the row number is 0 and more, and a call can begin on any page. *Three attempts*: one that fails, one that is left behind
open, and one more on the same handle; the data sources are one for each kind of
credentials. *Room for two types of three*: one page or two, exactly full, and too many.
*Two threads, two statements, one descriptor*: each hazard there is between a call and a
second one; statements, threads and bindings are symmetric, as no action tells them
apart.

The passing run `stmt` leaves out three faults. `badcols` and `nocols` (a first
page whose columns cannot be attached, or are not there) leave a cursor behind
that a second execution would continue from: the stream is then cut in front,
which `ResultStream` does not allow for, and `CursorFollowsPage` fails. With
`emptypage` an empty page that has a cursor ends the result set early, which
`ResultStream` does not allow for either. The server, as far as is known, never
answers so. `Orderly` in the proofs is the same assumption; the theorems of
`EsStmtProofs` do not need it.

### Fairness

* `EsStmt`: weak fairness of `FetchStep`. A SQLFetch that has begun goes on: it
  loops in one thread, and each request in it returns, since the server answers
  or libcurl gives up. The driver sets a timeout only if the application asks
  for one, so against a silent server the assumption is the application's.
* `EsCurl`: weak fairness of `TimesOut` (libcurl enforces CURLOPT_TIMEOUT) and
  of what `curl_post()` does after a transfer, per statement. None of
  the server, of the application, or of getting the mutex: a Windows SRW lock
  is not fair, so `TimedRequestEnds` speaks of a request that is under way.

No run switches deadlock checking off.

## What is proved

Each theorem is for every value of the constants that meets the module's
assumptions: any number of rows, columns, statements, threads, attempts, any page
and row set sizes.

| Module | Theorem | States |
|---|---|---|
| `EsStmtProofs` | `ConsistentInductive` | `Consistent /\ [Next]_vars => Consistent'` |
| | `TypeCorrect` | `Spec => []TypeOK` |
| | `QueryKept` | `Spec => []PreparedKeepsQuery` |
| | `EarlyUntouched` | `Spec => []EarlyResultUntouched` |
| | `ContextHeld` | `Spec => []ServerContextHeld` |
| | `GetDataCurrent` | `Spec => []GetDataOnCurrentRow` |
| | `ValuesLive` | `Spec => []RowValuesLive` |
| `EsStmtStreamProofs` | `StreamingInductive` | `Streaming` is inductive, and each step one of `ResultStream` or none, if `Orderly` |
| | `StreamKept` | `Orderly => (Spec => ImplementsStream)` |
| | `CursorFollows` | `Orderly => (Spec => []CursorFollowsPage)` |
| | `FetchConvertible` | `Orderly => (Spec => []FetchOnlyConvertible)` |
| `EsCurlProofs` | `HandleInOrder` | `Spec => []CurlInv` |
| | `CurlTypeCorrect` | `Spec => []TypeOK` |
| | `AnswerInBuffer` | `Spec => []BufferHoldsAnswer` |
| | `GrownFits` | the doubled size holds what it is for, and is the old one or less than twice of it |
| | `TimeoutInForce` | `Spec => []QueryTimeoutInForce` |
| | `OwnDiagnostics` | `Spec => []DiagNotOfOthers` |
| | `FailedDropped` | `Spec => FailedHandleDropped` |
| | `TransportKept` | `Spec => ImplementsTransport` |
| `EsDescProofs` | `InvInductive` | `Inv /\ [Next]_vars => Inv'` |
| | `DescTypeCorrect` | `Spec => []TypeOK` |
| | `BoundAreChecked` | `Spec => []AcceptedAreConsistent` |
| | `BindingsKept` | `Spec => ImplementsBindings` |
| | `TrimsKept` | `Spec => UnbindTrims` |
| | `NoneAdded` | `Spec => FailedBindAddsNone` |
| `EsRowsetProofs` | `RowsetKnown` | `Spec => []RowsetInv` |
| | `RowsetTypeCorrect` | `Spec => []TypeOK` |
| | `StatusTrue` | `Spec => []StatusTellsRow` |
| | `AnswerTrue` | `Spec => []AnswerTellsRows` |
| | `CellsTrue` | `Spec => []CellsHoldRows` |
| | `RowsInOrder` | `Spec => []RowsFollow` |
| | `WritesConfined` | `Spec => WritesOwnOnly` |
| `EsGetDataProofs` | `GdInvInductive` | `Inv /\ [Next]_vars => Inv'` |
| | `OffsetAlwaysInValue` | `Spec => []OffsetInValue`, what `gd_offset_apply()` asserts |
| | `GetDataTyped` | `Spec => []TypeOK` |
| | `PieceAlwaysInBuffer` | `Spec => []PieceInBuffer` |
| | `LengthAlwaysAddsUp` | `Spec => []LengthAddsUp` |
| | `PieceAlwaysAdvances` | `Spec => []PieceAdvances` |
| | `PiecesKept` | `Spec => ImplementsPieces` |
| `EsConnectProofs` | `ConnectTypeCorrect` | `Spec => []TypeOK` |
| | `CatalogKept` | `Spec => []CatalogAgrees` |
| | `OneConnection` | `Spec => []OneAttempt` |
| | `NothingLeft` | `Spec => []ScratchFreed` |
| | `TypesLoaded` | `Spec => []TypesAreAll` |
| `EsHandlesProofs` | `HandlesInductive` | `Inv /\ [Next]_vars => Inv'` |
| | `HandlesTypeCorrect` | `Spec => []TypeOK` |
| | `FoundUnchanged` | `Spec => []FoundStays` |

`Orderly == Faults \subseteq {"garbage", "colsagain", "badrow"}` is what the run `stmt` is
checked with, too.

**`EsStmt`.** None of the six invariants is inductive by itself. That
SQLGetData's state is of the current row, for one, needs to know that it is
reset whenever a fetch begins, which needs the DM's state to agree with the
statement's. The inductive invariant `Consistent` adds to them: `WellFormed` (a
page's interval and cursor are ordered, and nothing is set without an answer),
`Unopened` (what a statement looks like before it is executed), `StatesAgree`
(what each DM state implies of the statement's members) and `ReadsAgree` (what a
running fetch and the row the application is on imply). `WellFormed` and the type
of a statement are first shown of every helper (`ClearResultset`,
`AttachAnswer`, `Execute`, ...), as lemmas cited by name; then there is one lemma
per action or family of actions.

**The stream.** `Streaming` adds to `Consistent` that the page and the counted rows
meet (`PagesAgree`): a page is `Whole` (it begins at the rows counted and ends at
its cursor, or at the query's end without one) or `Broken` (an answer that did not
parse left nothing, and the rest of the stream is lost); a prepared statement that
was not executed early has no page. The refinement then goes action by action:
`FetchRow` maps to `Take` or `Skip`, `FetchTurn` to no step, `PageFails` or the return of
the call, `FetchEnd` to `Deliver`, `End` or `AllFailed`. The
last part, `FlagInv`, says that the conversion flag, when it says that the columns
convert, agrees with the columns attached and the binding.

**`EsCurl`.** The thread that has `curl_mux` is the only one past the lock, so
`CurlInv` has what is known of the libcurl handle as a fact about that thread's
program counter (`ThreadInv`: the URL set is its URL, the body is its body, the
answer in the buffer is to its request). Two lemmas carry this over: a step of the
holder leaves the other threads as they were (`HolderStep`), and a step of a thread
without the mutex leaves the handle (`FreeStep`). The refinement follows, since
`served` is a function of what `ThreadInv` speaks of. The buffer's size is found by a
loop that doubles; `GrownFits` says of it, by induction on its rounds, that it ends with
enough room: after `i` rounds the size is more than `i`, or is enough already. A size
beyond the limit is cut to it or refused, so that every chunk keeps `DbcTyped`.

**`EsDesc`.** `Inv` adds to the two invariants that between calls the
application's ARD is in place. Of each operation, from a change of the count up to
SQLBindCol, a lemma shows for all its outcomes that records of other columns are
those found or new ones (`Spares`), and that a success leaves the column's own
record checked (`ChecksOwn`); the relation is transitive, so a sequence of fields
has it too. For the refinement the same path is taken with bindings for records
(`OnlyOwn`). It needs more: that a trimming drops no bound column, which is that
`CountBound` is the highest bound record (`HighestBound`, by the well-foundedness
of `<`); that each field finds the record that the one before left (`Stage`,
`ThenField`), so that type, length pointers and buffer are those asked for at the end
(`BoundAs`); and that what a failure grew is given back to a count the columns
above which were unbound before (`BindRecOwn`).

**`EsRowset`.** Copying a row touches what is at its position only, and leaves there
what tells the row; `Told` relates row, status entry and cells, and holds of every
position below `Pos` for as long as the call runs, while the positions behind are as the
application had them. `Iterator` says which row the page's iterator is stuck on, and that
no row read has a number above the page's next one, which `RowsFollow` depends on.

**`EsGetData`.** `Inv` says that the three members are either all reset or of one
column of this row, the offset within its text (`GdOfRow`, `NothingRead`); and that,
while a value is read, the offset is the number of characters the application has put
together, and the last answer says whether there are more (`Reading`). A call that does
not resume a value starts at 0; one that does finds the offset that was left on this
very value, since a fetch and every failure reset all three (`StartInValue`). A piece
moves it by what was taken for transferred (`PieceMoves`), and everything rests on that
being what the bytes in the buffer complete (`TransfersExact`): for
`transfer_xstr0()` since each character takes one unit, for `wstr_to_cstr()` since
the byte that the terminator replaces is one of the character that is not counted.
Bytes are sums of widths, of which `OctetsGrow` has by induction that no character is
without one. That a piece is of at least one character (`PieceAdvances`) is then that two
characters fit into its bytes (`WstrAdvances`, `XstrAdvances`). In `PiecesKept` a
piece is `FirstPiece` or `NextPiece`, by whether the call resumes; a refused or
failed one is `StartOver`.

**`EsConnect`.** `StageInv` says at each program counter what of the attempt is
there: cleaning up leaves nothing that the configuration does not set again for
the attempt, but for the API key, which a user goes before; every further step
adds its own part, any failure leaves. libcurl's handle sends what the members
say, since these change only while there is none. `HeapInv` bounds what is allocated
by the program counter, `LoadInv` the rows taken by those the server has.

**`EsHandles`.** TypeOK has that a mutex is that of exactly one call that runs. A call
on a statement's own descriptor has that statement's mutex whichever handle it
came by, and an application's descriptor is never another statement's
(`OwnOrGiven`); so who changes it is who has the mutex. That a statement is
not freed under a call needs that nobody waits for a handle being freed (`FreedAlone`)
and that what is waited for is allocated (`WaitsForLive`).

## What is only model-checked

* Liveness (`EveryFetchReturns`, `TimedRequestEnds`): out of the prover's reach,
  as is ENABLED, and with it fairness.

Everything else that a passing run checks has a theorem. The library's induction
theorems take an operator, which the provers at hand cannot instantiate. Where a proof
needs induction (`Octets`, `Grown`, the highest bound record) it has a set of natural
numbers instead, and the least one outside it, from the well-foundedness of `<`; that a
recursive function exists at all is shown in the same way (`SumExists`,
`DoubledExists`).

No module has a RECURSIVE operator.

## What the runs found

Five disagreements between the code and what its comments and assertions say
have a run; `findings` in `PROJECT.json` has each with the lines quoted.

1. `names`: `clear_resultset()` frees what the IRD's names point at, and keeps the
   records; from the second page on column names are read from freed memory.
2. `timeout`: CURLOPT_TIMEOUT is never reset on the shared handle.
3. `whole`: where a piece ends with a character of several bytes, the terminator
   replaces the last of them only; the others stay in the piece, and the character
   is in the next one again.
4. `rowerror`: a row whose conversion failed is not marked in the status array.
5. `types`: disconnecting leaves pointers into the freed array of types, which the next
   connection follows.

Others were met while modelling. The models have them as the code does; the
properties are stated so as to hold beside them.

* Statement: the conversion flag is reset by SQLBindCol, and not by SQLSetDescField,
  SQL_UNBIND or another ARD (`queries.c`), nor by a SQLBindCol that fails; SQLFetch
  decides once how to read rows (`queries.c:1890`), before a page turn that may bring the
  other encapsulation: a call that began with CBOR sees a JSON page as empty, so
  that its rows are passed over for the next page's, or the result set ends, without an
  error, and one that began with JSON reads what is no JSON iterator (`RowsFollow` and
  `AnswerTellsRows` exempt what lies behind such a turn, and only that); an empty page
  with a cursor is taken for the end, so that a call may end in SQL_NO_DATA in the middle
  of a result set (`"emptypage"`); SQL_CLOSE re-initialises the IRD's header and drops the
  application's status and rows-fetched pointers (`handles.c:144`); a row number in
  a diagnostic falls to operator precedence (`queries.c:1333`, `RowNo`); SQL_ARD_TYPE
  falls through (`queries.c:2048`); SQLCancel waits for the statement's mutex
  (`queries.c:2406`).
* SQLGetData: into a buffer with room for one character, but not for it and
  the terminator or the next one, a call writes, reports truncation and moves no
  further (`convert.c:1518`), so that a loop of such calls does not end. Into one without
  room for one, a release build reads the byte in front of the buffer, against the
  assertion of `convert.c:1513`; if it is not 0 it is overwritten with 0
  (`convert.c:1516`), the count of characters becomes -1, and the value is taken for
  exhausted. `PieceInBuffer` names the buffers and limits of one and two bytes where this
  happens, and holds of all others. The varchar limit is applied to a timestamp's ISO text, so
  that a limit in its fraction costs one digit more than it says, and one of less than 20
  makes every timestamp fail (`convert.c:3391`, `3199`). The early return of
  EsSQLGetData after `getdata_set_ard()` (`queries.c:2126`) skips the reset that all
  other failures do; the call in it cannot fail for the descriptor it is given, so the model
  has no such step.
* Descriptors: the comment of `handles.c:2321` has the precision of a time or
  timestamp checked, as `ESODBC_MAX_SEC_PRECISION` bounds that of an interval; the condition
  below it, `SQL_INTERVAL_MONTH < rec->concise_type` (`handles.c:2331`), is false of
  SQL_TYPE_TIME and SQL_TYPE_TIMESTAMP, so that a buffer may be bound as a timestamp
  of any precision (`AcceptedAreConsistent` is of what the code checks). Setting a type leaves precision and scale of most numeric types as the
  previous type had them, so that rebinding a column from SQL_C_NUMERIC to an
  integer type fails with HY021.
* Connection: its diagnostic is shared by two mutexes; the API key is never reset
  (`OneAttempt` allows for it); a catalog set again to the same name leaks, and for want of
  memory keeps a length without a string (`Broken`); a catalog set before connecting
  is lost, a timeout overwritten (`connect.c:1426`); the version request runs without a
  timeout (`connect.c:1957`); a server with more than 64 types over several pages loses
  the rest silently (`TypesAreAll` speaks of those with fewer); a failure after the
  types were attached leaves them; SQLGetConnectAttr of the catalog can succeed
  without a value (`connect.c:3604` against `catalogue.c:139`).
* Handles: `odbc.c:422` says that explicit descriptors are locked by the
  connection's mutex, and statements that use them by their own, so that the two
  exclude nothing; SQLGetDiagField and SQLGetDiagRec lock a descriptor's own mutex
  (`odbc.c:1014`), which else only SQLFreeHandle tries (`odbc.c:1411`), so that an
  explicit descriptor is never found in use; a freed descriptor stays in its
  statements (`handles.c:376`); freeing a statement clears the explicit
  descriptor that it uses, shared or not, and not its own (`handles.c:366`);
  SQLDisconnect drops no statements (`connect.c:3373` says it does).

## What is not modelled

See `components` in `PROJECT.json`. Conversion, catalogue queries, connection
strings and request bodies are matters of text and arithmetic on single values;
SQLGetInfo answers constants; logging is output; the DSN editor and the installer
are user interface and packaging. Most of the C code of the repository is vendored
under `src/libs` (curl, zlib, the JSON and CBOR parsers, c-timestamp): it is not the driver,
and shows in the models by its outcomes, so that the map covers a small share of
the repository and a larger one of `src/driver/`.

Of what is modelled, parameters and their descriptors, the IRD's records, doubles and
intervals in SQLGetData, and SQLDisconnect beside running statements are missing.

## Plan

1. Parameters: SQLBindParameter and the records of the APD and IPD, which go by the same
   functions as the ARD in `EsDesc`, and are read by `serialize_statement()`.
2. A descriptor shared by statements (`EsHandles`) put together with the records it
   holds (`EsDesc`), so that two calls may interleave within SQLBindCol.
3. `EsGetData`: doubles, intervals and surrogate pairs.
4. `EsStmt` with `badcols` and `nocols`: what an application may still rely on when a first
   page cannot be attached.
5. Algorithms: `convertability_check`'s table, integer ranges.
