----------------------------- MODULE EsConnect -----------------------------
(***************************************************************************)
(* Connecting: what SQLDriverConnect makes of a connection handle, attempt *)
(* by attempt, and what SQLDisconnect leaves of it (do_connect(),          *)
(* config_dbc(), cleanup_dbc(), dbc_curl_init(), check_server_version(),   *)
(* load_es_types() in src/driver/connect.c, the catalog functions in       *)
(* catalogue.c).                                                           *)
(*                                                                         *)
(* Attempts are numbered.  A member that an attempt sets has its number,   *)
(* 0 is NULL; a pointer has the number of the attempt that allocated what  *)
(* it points into.  Calls on the handle hold its mutex: one at a time.     *)
(***************************************************************************)
EXTENDS Integers

CONSTANTS
  Dsns,          \* the data sources that can be asked for
  Credentials,   \* what a data source says of them
  DsnCatalog,    \* and of the catalog
  DsnTimeout,    \* and of the timeout
  Catalogs,      \* bound: the names given to SQL_ATTR_CURRENT_CATALOG
  Timeouts,      \* bound: the values given to SQL_ATTR_LOGIN_TIMEOUT
  MaxAttempts,   \* bound: the attempts at connecting
  MaxNoTypes,    \* ESODBC_MAX_NO_TYPES
  MaxTypes       \* bound: the types a server has

NoName == ""
Broken == "BROKEN"        \* a length without a string
Unwritten == "UNWRITTEN"  \* what the caller's buffer had

ASSUME ConnectAssumption ==
  /\ Credentials \in [Dsns -> {"user", "key", "none"}]
  /\ {NoName, Broken, Unwritten} \cap Catalogs = {}
  /\ NoName \notin Dsns
  /\ DsnCatalog \in [Dsns -> Catalogs \cup {NoName}]
  /\ DsnTimeout \in [Dsns -> Nat]
  /\ Timeouts \subseteq Nat
  /\ MaxAttempts \in Nat /\ MaxNoTypes \in Nat \ {0} /\ MaxTypes \in Nat \ {0}

VARIABLES
  dbc,    \* the connection handle
  curl,   \* its libcurl handle, and the credentials that has
  heap,   \* what else is allocated
  srv,    \* the types the server has, as the last answer had them
  open,   \* the data source the Driver Manager has it open to
  call,   \* the connect call that runs
  last    \* the last call and what it returned

vars == <<dbc, curl, heap, srv, open, call, last>>

Unset == 0
NoTypes == [of |-> Unset, rows |-> 0]
NoCatalog == [w |-> NoName, c |-> NoName]
NoCurl == [on |-> FALSE, auth |-> [kind |-> "none", of |-> Unset]]
NoLoad == [got |-> 0, ok |-> FALSE]
NoCall == [pc |-> "idle", prompts |-> FALSE, dsn |-> NoName, load |-> NoLoad]

\* EsSQLAllocHandle() of a connection.
NewDbc ==
  [url |-> Unset, user |-> Unset, key |-> Unset, ver |-> Unset, dsn |-> Unset,
   types |-> NoTypes, max_type |-> Unset, catalog |-> NoCatalog, timeout |-> 0,
   diag |-> "none", attempts |-> 0]

n == dbc.attempts
At(pc) == call.pc = pc
Idle == At("idle")

-----------------------------------------------------------------------------
(* The handle's members.                                                   *)

\* free_current_catalog(): without a string the length stays.
FreeCurrentCatalog(catalog) ==
  [w |-> IF catalog.w = Broken THEN Broken ELSE NoName, c |-> NoName]

\* set_current_catalog(), with what the allocations it makes may do.
SetCurrentCatalog(catalog, name) ==
  LET freed == IF catalog.w # NoName /\ catalog.w # name
               THEN FreeCurrentCatalog(catalog) ELSE catalog
  IN  IF name = NoName THEN {[catalog |-> freed, ok |-> TRUE]}
      ELSE {[catalog |-> [w |-> name, c |-> name], ok |-> TRUE],
            [catalog |-> [freed EXCEPT !.w = IF freed.w = NoName
                                             THEN NoName ELSE Broken],
             ok |-> FALSE],
            [catalog |-> NoCatalog, ok |-> FALSE]}

\* Mutant: the user name stays.
CleanupKeepsUser(d) ==
  [d EXCEPT !.url = Unset, !.ver = Unset, !.dsn = Unset,
            !.types = NoTypes, !.catalog = FreeCurrentCatalog(d.catalog)]

\* cleanup_dbc(): the API key and the pointers into the types stay.
CleanupDbc(d) ==
  [d EXCEPT !.url = Unset, !.user = Unset, !.ver = Unset, !.dsn = Unset,
            !.types = NoTypes, !.catalog = FreeCurrentCatalog(d.catalog)]

\* The members that config_dbc() sets before the catalog.
Configured(d, dsn) ==
  [d EXCEPT !.url = n, !.timeout = DsnTimeout[dsn],
            !.user = IF Credentials[dsn] = "user" THEN n ELSE @,
            !.key = IF Credentials[dsn] = "key" THEN n ELSE @]

\* config_dbc(): a setting is bad before anything is set or after; the memory
\* for the fetch size is missing, which is not cleaned up; or all is well.
ConfigDbc(d, dsn) ==
  LET set == Configured(d, dsn)
      named == IF DsnCatalog[dsn] = NoName
               THEN {[catalog |-> set.catalog, ok |-> TRUE]}
               ELSE SetCurrentCatalog(set.catalog, DsnCatalog[dsn])
  IN  {[dbc |-> CleanupDbc(d), ok |-> FALSE],
       [dbc |-> CleanupDbc(set), ok |-> FALSE],
       [dbc |-> set, ok |-> FALSE]}
      \cup {[dbc |-> IF r.ok THEN [set EXCEPT !.catalog = r.catalog]
                     ELSE CleanupDbc([set EXCEPT !.catalog = r.catalog]),
             ok |-> r.ok] : r \in named}

\* The credentials of dbc_curl_init(): a user goes before a key.
Authentication ==
  IF dbc.user # Unset THEN [kind |-> "user", of |-> dbc.user]
  ELSE IF dbc.key # Unset THEN [kind |-> "key", of |-> dbc.key]
  ELSE [kind |-> "none", of |-> Unset]

\* dbc_curl_init(): a handle, or the error posted and no handle.
CurlInit == [on |-> TRUE, auth |-> Authentication]

Post(state) == dbc' = [dbc EXCEPT !.diag = state]

-----------------------------------------------------------------------------
(* SQLDriverConnect.                                                       *)

Init ==
  /\ dbc = NewDbc
  /\ curl = NoCurl
  /\ heap = {}
  /\ srv = 0
  /\ open = NoName
  /\ call = NoCall
  /\ last = [op |-> "none", rc |-> "SUCCESS", value |-> Unwritten]

Returns(op, rc) ==
  /\ call' = NoCall
  /\ last' = [op |-> op, rc |-> rc, value |-> Unwritten]

Goto(pc) ==
  /\ call' = [call EXCEPT !.pc = pc]
  /\ UNCHANGED last

\* do_connect() has failed: without a dialog that is the call's result.
AttemptFails ==
  IF call.prompts
  THEN call' = [call EXCEPT !.pc = "prompt", !.load = NoLoad] /\ UNCHANGED last
  ELSE Returns("connect", "ERROR")

\* EsSQLDriverConnectW() up to the first attempt; SQLConnect is a call of it.
DriverConnect ==
  /\ Idle /\ open = NoName /\ n < MaxAttempts
  /\ \E dsn \in Dsns, pc \in {"config", "prompt"}, prompts \in BOOLEAN :
       /\ pc = "prompt" => prompts
       /\ call' = [NoCall EXCEPT !.pc = pc, !.prompts = prompts, !.dsn = dsn]
  /\ UNCHANGED <<dbc, curl, heap, srv, open, last>>

\* The connection string cannot be parsed, or names no data source.
DriverConnectRefused ==
  /\ Idle /\ open = NoName
  /\ Post("error")
  /\ Returns("connect", "ERROR")
  /\ UNCHANGED <<curl, heap, srv, open>>

\* prompt_user_config(): the user fills in the form, cancels, or there is none.
Prompt ==
  /\ At("prompt")
  /\ \/ /\ n < MaxAttempts
        /\ \E dsn \in Dsns : call' = [call EXCEPT !.pc = "config", !.dsn = dsn]
        /\ UNCHANGED <<dbc, last>>
     \/ Returns("connect", "NO_DATA") /\ UNCHANGED dbc
     \/ Returns("connect", "ERROR") /\ Post("error")
  /\ UNCHANGED <<curl, heap, srv, open>>

\* do_connect(): the handle is cleaned up, libcurl's with it ...
Cleanup ==
  /\ At("config")
  /\ dbc' = [CleanupDbc(dbc) EXCEPT !.attempts = n + 1]
  /\ curl' = NoCurl
  /\ Goto("configured")
  /\ UNCHANGED <<heap, srv, open>>

\* ... and set up for the data source.
Configure ==
  /\ At("configured")
  /\ \E r \in ConfigDbc(dbc, call.dsn) :
       /\ dbc' = [r.dbc EXCEPT !.diag = IF r.ok THEN @ ELSE "error"]
       /\ IF r.ok THEN Goto("curl") ELSE AttemptFails
  /\ UNCHANGED <<curl, heap, srv, open>>

\* dbc_curl_init().
InitCurl ==
  /\ At("curl")
  /\ \/ curl' = CurlInit /\ Goto("version") /\ UNCHANGED dbc
     \/ curl' = NoCurl /\ AttemptFails /\ Post("error")
  /\ UNCHANGED <<heap, srv, open>>

-----------------------------------------------------------------------------
(* The two requests of an attempt.                                         *)

Min2(a, b) == IF a < b THEN a ELSE b

\* check_server_version() up to the answer; libcurl's failure drops its handle.
RequestVersion ==
  /\ At("version")
  /\ \/ heap' = heap \cup {"reply"} /\ Post("none") /\ Goto("check")
        /\ UNCHANGED curl
     \/ curl' = NoCurl /\ Post("error") /\ AttemptFails /\ UNCHANGED heap
  /\ UNCHANGED <<srv, open>>

\* The rest of check_server_version(): an answer that is no version, or one of
\* a server that is too old, or of one that will do.
CheckVersion ==
  /\ At("check")
  /\ heap' = heap \ {"reply"}
  /\ \/ dbc' = [dbc EXCEPT !.diag = "error"] /\ AttemptFails
     \/ dbc' = [dbc EXCEPT !.ver = n, !.diag = "error"] /\ AttemptFails
     \/ dbc' = [dbc EXCEPT !.ver = n, !.diag = "none"] /\ Goto("arrays")
  /\ UNCHANGED <<curl, srv, open>>

\* curl_post() of one of the connection's statements.  An answer that is an
\* error is the statement's, a failure to get one is the connection's too.
Answered ==
  /\ curl' = IF curl.on THEN curl ELSE CurlInit
  /\ Post("none")
Unanswered ==
  /\ curl' = NoCurl
  /\ \E state \in {"none", "error"} : Post(state)

\* load_es_types(): what it allocates for itself.
LoadArrays ==
  /\ At("arrays")
  /\ \/ heap' = heap \cup {"arrays"} /\ Goto("stmt") /\ UNCHANGED dbc
     \/ AttemptFails /\ Post("error") /\ UNCHANGED heap
  /\ UNCHANGED <<curl, srv, open>>

LoadStmt ==
  /\ At("stmt")
  /\ \/ heap' = heap \cup {"stmt"} /\ Goto("query") /\ UNCHANGED dbc
     \/ heap' = heap \ {"arrays"} /\ AttemptFails /\ Post("error")
  /\ UNCHANGED <<curl, srv, open>>

LoadGoto(pc, load) ==
  /\ call' = [call EXCEPT !.pc = pc, !.load = load]
  /\ UNCHANGED last

\* EsSQLRowCount() has the rows of the first page.
Refused(rows) == rows = 0 \/ rows > MaxNoTypes

\* The query, the checks on its columns and rows, and the bindings.
LoadQuery ==
  /\ At("query")
  /\ \/ Unanswered /\ Goto("end") /\ UNCHANGED srv
     \/ /\ Answered
        /\ srv' \in 0..MaxTypes
        /\ \/ Goto("end")
           \/ \E first \in 1..srv' :
                /\ ~Refused(first)
                /\ LoadGoto("fetch", [NoLoad EXCEPT !.got = first])
  /\ UNCHANGED <<heap, open>>

\* Mutant: the row set has no size.
TakenAll(got, page) == got + page

Taken(got, page) == Min2(got + page, MaxNoTypes)

\* Mutant: the page is never turned.
TurnsNever(got) == FALSE

Turns(got) == got < MaxNoTypes /\ got < srv

\* EsSQLFetch(): the row set is filled from the pages there are.
FetchPage ==
  /\ At("fetch") /\ Turns(call.load.got)
  /\ \/ Unanswered /\ Goto("end")
     \/ /\ Answered
        /\ \E page \in 1..(srv - call.load.got) :
             LoadGoto("fetch", [call.load EXCEPT !.got = Taken(@, page)])
  /\ UNCHANGED <<heap, srv, open>>

\* A row may have a status other than SQL_ROW_SUCCESS; then the memory.
FetchEnd ==
  /\ At("fetch") /\ ~Turns(call.load.got)
  /\ \/ Goto("end") /\ UNCHANGED heap
     \/ Goto("copy") /\ heap' = heap \cup {"types"}
  /\ UNCHANGED <<dbc, curl, srv, open>>

\* copy_types_rows(): a type's name may be unknown to the driver.
CopyTypes ==
  /\ At("copy")
  /\ \E ok \in BOOLEAN : LoadGoto("end", [call.load EXCEPT !.ok = ok])
  /\ UNCHANGED <<dbc, curl, heap, srv, open>>

\* Mutant: the types of a load that failed are not freed.
FreedOnFailureLess == {"stmt", "arrays"}

FreedOnFailure == {"stmt", "types", "arrays"}

\* The function's end.
LoadEnd ==
  /\ At("end")
  /\ IF call.load.ok
     THEN Goto("attach") /\ heap' = heap \ {"stmt"} /\ UNCHANGED dbc
     ELSE AttemptFails /\ heap' = heap \ FreedOnFailure /\ Post("error")
  /\ UNCHANGED <<curl, srv, open>>

\* set_es_types(): a pointer that is not NULL is read for the size to exceed;
\* what it points into may be freed memory.
AttachTypes ==
  /\ At("attach")
  /\ \E max \in IF dbc.max_type = Unset THEN {n} ELSE {n, dbc.max_type} :
       dbc' = [dbc EXCEPT !.types = [of |-> n, rows |-> call.load.got],
                          !.max_type = max]
  /\ heap' = heap \ {"types", "arrays"}
  /\ Goto("finish")
  /\ UNCHANGED <<curl, srv, open>>

\* The DSN is stored, then the connection string returned; each may fail, and
\* leaves what has been set up.
Finish ==
  /\ At("finish")
  /\ \/ /\ \E dsn \in {Unset, n} :
             dbc' = [dbc EXCEPT !.dsn = dsn, !.diag = "error"]
        /\ Returns("connect", "ERROR")
        /\ UNCHANGED open
     \/ /\ dbc' = [dbc EXCEPT !.dsn = n]
        /\ Returns("connect", "SUCCESS")
        /\ open' = call.dsn
  /\ UNCHANGED <<curl, heap, srv>>

-----------------------------------------------------------------------------
(* The other calls on the handle.                                          *)

\* EsSQLDisconnect().
Disconnect ==
  /\ Idle /\ open # NoName
  /\ dbc' = CleanupDbc(dbc)
  /\ curl' = NoCurl
  /\ open' = NoName
  /\ Returns("disconnect", "SUCCESS")
  /\ UNCHANGED <<heap, srv>>

RetCode(state) ==
  CASE state = "none" -> "SUCCESS"
    [] state = "info" -> "SUCCESS_WITH_INFO"
    [] state = "error" -> "ERROR"

\* EsSQLSetConnectAttrW(SQL_ATTR_LOGIN_TIMEOUT): 0 does not replace another.
SetTimeout ==
  /\ Idle
  /\ \E value \in Timeouts :
       IF dbc.timeout # 0 /\ value = 0
       THEN Post("info") /\ Returns("settimeout", RetCode("info"))
       ELSE /\ dbc' = [dbc EXCEPT !.timeout = value]
            /\ Returns("settimeout", "SUCCESS")
  /\ UNCHANGED <<curl, heap, srv, open>>

\* EsSQLSetConnectAttrW(SQL_ATTR_CURRENT_CATALOG).
SetCatalog ==
  /\ Idle
  /\ \E name \in Catalogs \cup {NoName} :
       \E r \in SetCurrentCatalog(dbc.catalog, name) :
         /\ dbc' = [dbc EXCEPT !.catalog = r.catalog,
                               !.diag = IF r.ok THEN @ ELSE "error"]
         /\ Returns("setcatalog", IF r.ok THEN "SUCCESS" ELSE "ERROR")
  /\ UNCHANGED <<curl, heap, srv, open>>

ReturnsValue(rc, value) ==
  /\ call' = NoCall
  /\ last' = [op |-> "getcatalog", rc |-> rc, value |-> value]

\* EsSQLGetConnectAttrW(SQL_ATTR_CURRENT_CATALOG): no connection; the name
\* that was set; else fetch_server_attr(), which can fail before its request,
\* for want of an answer, for what the answer is, or on the answer's value.
\* A name of which only the length is left cannot be copied out.
GetCatalog ==
  /\ Idle /\ dbc.catalog.w # Broken
  /\ IF dbc.types.of = Unset
     THEN /\ Post("error") /\ ReturnsValue("ERROR", Unwritten)
          /\ UNCHANGED curl
     ELSE IF dbc.catalog.w # NoName
     THEN /\ ReturnsValue("SUCCESS", dbc.catalog.w)
          /\ UNCHANGED <<dbc, curl>>
     ELSE \/ /\ ReturnsValue(RetCode(dbc.diag), Unwritten)
             /\ UNCHANGED <<dbc, curl>>
          \/ Unanswered /\ ReturnsValue(RetCode(dbc'.diag), Unwritten)
          \/ Answered /\ ReturnsValue(RetCode(dbc'.diag), Unwritten)
          \/ /\ Answered
             /\ \E value \in Catalogs \cup {NoName} :
                  ReturnsValue("SUCCESS", value)
  /\ UNCHANGED <<heap, srv, open>>

\* A request of one of the application's statements.
StatementRequest ==
  /\ Idle /\ open # NoName
  /\ Answered \/ Unanswered
  /\ UNCHANGED <<heap, srv, open, call, last>>

Connecting ==
  \/ DriverConnect \/ DriverConnectRefused \/ Prompt \/ Cleanup \/ Configure
  \/ InitCurl \/ RequestVersion \/ CheckVersion
  \/ LoadArrays \/ LoadStmt \/ LoadQuery \/ FetchPage \/ FetchEnd
  \/ CopyTypes \/ LoadEnd \/ AttachTypes \/ Finish

Next ==
  \/ Connecting
  \/ Disconnect \/ SetTimeout \/ SetCatalog \/ GetCatalog \/ StatementRequest

Spec == Init /\ [][Next]_vars

-----------------------------------------------------------------------------
(* Properties.                                                             *)

Attempts == 0..MaxAttempts
Pcs == {"idle", "prompt", "config", "configured", "curl", "version", "check",
        "arrays", "stmt", "query", "fetch", "copy", "end", "attach", "finish"}
DbcStates ==
  [url : Attempts, user : Attempts, key : Attempts, ver : Attempts,
   dsn : Attempts, types : [of : Attempts, rows : 0..MaxNoTypes],
   max_type : Attempts,
   catalog : [w : Catalogs \cup {NoName, Broken}, c : Catalogs \cup {NoName}],
   timeout : Nat, diag : {"none", "info", "error"}, attempts : Attempts]

\* Every part has a value of its kind: the array of types (connect.c:3059) is
\* never said to have more rows than the row set has room for.
TypeOK ==
  /\ dbc \in DbcStates
  /\ curl \in [on : BOOLEAN,
              auth : [kind : {"user", "key", "none"}, of : Attempts]]
  /\ heap \subseteq {"reply", "arrays", "stmt", "types"}
  /\ srv \in 0..MaxTypes
  /\ open \in Dsns \cup {NoName}
  /\ call \in [pc : Pcs, prompts : BOOLEAN, dsn : Dsns \cup {NoName},
              load : [got : 0..MaxNoTypes, ok : BOOLEAN]]
  /\ last.value \in Catalogs \cup {NoName, Unwritten}

\* An open connection is the work of one attempt at it: URL, version, types,
\* name and the credentials that libcurl sends are those of the last one,
\* whatever earlier attempts got to (connect.c:2058).  A data source without
\* credentials may be sent the API key of an earlier one: that is not reset.
OneAttempt ==
  open # NoName =>
    /\ {dbc.url, dbc.ver, dbc.types.of, dbc.dsn} = {n}
    /\ curl.on => IF Credentials[open] = "none"
                  THEN curl.auth.kind # "user"
                  ELSE curl.auth = [kind |-> Credentials[open], of |-> n]

\* The types that an open connection knows are all that the server has, in
\* however many pages it sent them, up to ESODBC_MAX_NO_TYPES (connect.c:2993).
\* Nothing is said of a server with more: the code drops the rest silently.
TypesAreAll ==
  open # NoName /\ srv <= MaxNoTypes => dbc.types.rows = srv /\ srv > 0

\* Between calls nothing is left of what connecting allocated for itself,
\* whichever step of which attempt failed (connect.c:3059, 2028).
ScratchFreed == Idle => heap = {}

\* What an assertion says (connect.c:2822): types are attached to a handle
\* that points to none.
AttachedAnew == At("attach") => dbc.max_type = Unset

=============================================================================
