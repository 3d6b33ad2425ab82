-------------------------------- MODULE EsCurl --------------------------------
(***************************************************************************)
(* One connection's libcurl handle, shared by the statements that run on   *)
(* it: curl_post(), what it calls and libcurl's write call-back, in        *)
(* concurrent threads, with the application setting connection attributes  *)
(* meanwhile (src/driver/connect.c).                                       *)
(*                                                                         *)
(* A statement's own mutex lets one thread at a time work on it, so a      *)
(* thread is named by its statement.  The connection's members are shared: *)
(* curl_post() works on them under curl_mux, the calls on the connection   *)
(* handle under that handle's mutex, which is another one.                 *)
(***************************************************************************)
EXTENDS Integers

CONSTANTS
  Stmts, NoStmt,
  Timeouts,   \* the timeouts, in seconds, the application sets; 0 is none
  Bodies,     \* bound: the sizes, in bytes, of the server's answers
  AMax,       \* the MaxBodySizeMB setting, in bytes; 0 is no limit
  StartSize   \* ESODBC_BODY_BUF_START_SIZE

ASSUME SizesAssumption ==
  /\ Bodies \subseteq Nat /\ AMax \in Nat /\ StartSize \in Nat \ {0}
  /\ Timeouts \subseteq Nat /\ 0 \in Timeouts

Urls == {"query", "close"}  \* ESODBC_CURL_QUERY, ESODBC_CURL_CLOSE
NoUrl == "none"             \* ESODBC_CURL_NONE
NoDiag == "none"
AppDiag == "app"            \* posted by a call on the connection handle

ASSUME StmtsAssumption == {NoStmt, NoDiag, AppDiag} \cap Stmts = {}

VARIABLES
  dbc,   \* the connection's members
  curl,  \* the libcurl handle
  th,    \* curl_post()'s locals, for each statement
  net,   \* the server: the request it works on
  app    \* what each statement's last call gave the application

vars == <<dbc, curl, th, net, app>>

-----------------------------------------------------------------------------

NoHandle == [on |-> FALSE, url |-> NoUrl, tout |-> 0, body |-> NoStmt]
NewHandle == [NoHandle EXCEPT !.on = TRUE]
NoAnswer == [of |-> NoStmt, url |-> NoUrl, size |-> 0]
Quiet == [of |-> NoStmt, url |-> NoUrl, total |-> 0, sent |-> 0]
NoThread == [pc |-> "idle", url |-> NoUrl, want |-> 0, code |-> "none",
             curl_err |-> "ok", body |-> NoAnswer]

Init ==
  /\ dbc = [mux |-> NoStmt, crr_url |-> NoUrl, timeout |-> 0, diag |-> NoDiag,
            alen |-> 0, apos |-> 0]
  /\ curl = NoHandle
  /\ th = [s \in Stmts |-> NoThread]
  /\ net = Quiet
  /\ app = [s \in Stmts |-> [rc |-> "none", diag |-> NoDiag, qt |-> 0,
                             answer |-> NoAnswer]]

At(s, pc) == th[s].pc = pc
Goes(s, pc) == th' = [th EXCEPT ![s].pc = pc]

\* The connection's diagnostic, as thread s posts it.
Posts(s) == dbc' = [dbc EXCEPT !.diag = s]

-----------------------------------------------------------------------------
(* The application's calls.                                                *)

\* EsSQLSetStmtAttrW(SQL_ATTR_QUERY_TIMEOUT).
SetQueryTimeout(s) ==
  /\ At(s, "idle")
  /\ \E t \in Timeouts \ {app[s].qt} : app' = [app EXCEPT ![s].qt = t]
  /\ UNCHANGED <<dbc, curl, th, net>>

\* EsSQLExecute() or close_es_cursor() calls curl_post().
Call(s) ==
  /\ At(s, "idle")
  /\ \E u \in Urls : th' = [th EXCEPT ![s] = [NoThread EXCEPT !.pc = "lock", !.url = u]]
  /\ app' = [app EXCEPT ![s].rc = "none", ![s].diag = NoDiag, ![s].answer = NoAnswer]
  /\ UNCHANGED <<dbc, curl, net>>

\* EsSQLSetConnectAttrW(SQL_ATTR_CONNECTION_TIMEOUT, SQL_ATTR_LOGIN_TIMEOUT):
\* a timeout that was set is kept when 0 is set, with 01S02.
SetTimeout ==
  /\ \E t \in Timeouts :
       dbc' = IF t = 0 /\ dbc.timeout # 0 THEN [dbc EXCEPT !.diag = AppDiag]
                                          ELSE [dbc EXCEPT !.timeout = t]
  /\ UNCHANGED <<curl, th, net, app>>

-----------------------------------------------------------------------------
(* curl_post(), under the mutex.                                           *)

Lock(s) ==
  /\ At(s, "lock") /\ dbc.mux = NoStmt
  /\ dbc' = [dbc EXCEPT !.mux = s]
  /\ Goes(s, "init")
  /\ UNCHANGED <<curl, net, app>>

\* dbc_curl_init(), if there is no handle, and the reset of the connection's
\* diagnostic.
InitHandle(s) ==
  /\ At(s, "init")
  /\ curl' = IF curl.on THEN curl ELSE NewHandle
  /\ dbc' = [dbc EXCEPT !.diag = NoDiag]
  /\ Goes(s, "url")
  /\ UNCHANGED <<net, app>>

InitHandleFails(s) ==
  /\ At(s, "init") /\ ~curl.on
  /\ Posts(s)
  /\ Goes(s, "err")
  /\ UNCHANGED <<curl, net, app>>

\* dbc_curl_set_url(), when the handle is set for another URL.
SetUrl(s) ==
  /\ At(s, "url")
  /\ IF dbc.crr_url = th[s].url THEN UNCHANGED <<curl, dbc>>
     ELSE /\ curl' = [curl EXCEPT !.url = th[s].url]
          /\ dbc' = [dbc EXCEPT !.crr_url = th[s].url]
  /\ Goes(s, "opts")
  /\ UNCHANGED <<net, app>>

\* Its failure posts the diagnostic and drops the handle.
SetUrlFails(s) ==
  /\ At(s, "url") /\ dbc.crr_url # th[s].url
  /\ dbc' = [dbc EXCEPT !.diag = s, !.crr_url = NoUrl]
  /\ curl' = NoHandle
  /\ Goes(s, "err")
  /\ UNCHANGED <<net, app>>

\* Mutants: the connection's setting only, or whenever there is one.
ToutOfConnection(s) == dbc.timeout
ToutConnectionFirst(s) == IF dbc.timeout > 0 THEN dbc.timeout ELSE app[s].qt

\* "maximum between connection and statement value"
Tout(s) == IF dbc.timeout < app[s].qt THEN app[s].qt ELSE dbc.timeout

\* dbc_curl_add_post_body(): a timeout is only set when there is one.  With the
\* body set, dbc_curl_perform() has libcurl send the request.
Perform(s) ==
  /\ At(s, "opts")
  /\ curl' = [curl EXCEPT !.tout = IF 0 < Tout(s) THEN Tout(s) ELSE @, !.body = s]
  /\ th' = [th EXCEPT ![s].pc = "transfer", ![s].want = Tout(s)]
  /\ \E n \in Bodies :
       net' = [of |-> curl'.body, url |-> curl'.url, total |-> n, sent |-> 0]
  /\ UNCHANGED <<dbc, app>>

PerformFails(s) ==
  /\ At(s, "opts")
  /\ Posts(s)
  /\ Goes(s, "drop")
  /\ UNCHANGED <<curl, net, app>>

-----------------------------------------------------------------------------
(* The transfer: libcurl calls write_callback() for each chunk.            *)

\* Mutant: the new size is doubled once, needed or not.
GrownOnce(alen, n) == IF alen = 0 THEN StartSize ELSE 2 * alen

\* The buffer's size, or its first one, doubled until n bytes fit: n times are
\* enough.
Grown(alen, n) ==
  LET need[i \in 0..n] ==
        IF i = 0 THEN IF alen = 0 THEN StartSize ELSE alen
        ELSE IF need[i - 1] < n THEN 2 * need[i - 1] ELSE need[i - 1]
  IN  need[n]

Capped(n) == AMax > 0 /\ AMax < Grown(dbc.alen, n)

\* The buffer's size once it takes n bytes.
Room(n) == IF n <= dbc.alen THEN dbc.alen
           ELSE IF Capped(n) THEN AMax ELSE Grown(dbc.alen, n)

\* Growing to n bytes is refused at the limit, or if the limit is too little.
Refuses(n) == n > dbc.alen /\ Capped(n) /\ (AMax <= dbc.alen \/ AMax < n)

Chunk(s) ==
  /\ At(s, "transfer")
  /\ \E have \in 1..(net.total - net.sent) :
       /\ ~Refuses(dbc.apos + have)
       /\ dbc' = [dbc EXCEPT !.alen = Room(dbc.apos + have), !.apos = @ + have]
       /\ net' = [net EXCEPT !.sent = @ + have]
  /\ UNCHANGED <<curl, th, app>>

\* dbc_curl_perform() is left with what the buffer holds, and clears it.
Received == [of |-> net.of, url |-> net.url, size |-> dbc.apos]

Leaves(s, pc, code, err, diag) ==
  /\ th' = [th EXCEPT ![s].pc = pc, ![s].code = code, ![s].curl_err = err,
                      ![s].body = Received]
  /\ dbc' = [dbc EXCEPT !.alen = 0, !.apos = 0, !.diag = diag]
  /\ net' = Quiet
  /\ UNCHANGED <<curl, app>>

TransferEnds(s) ==
  /\ At(s, "transfer") /\ net.sent = net.total
  /\ \E code \in {"200", "other"} : Leaves(s, "check", code, "ok", dbc.diag)

\* The connection breaks, or a response code cannot be had.
TransferFails(s) ==
  At(s, "transfer") /\ Leaves(s, "drop", "none", "other", s)

\* The response code was had, the content type could not.
LateError(s) ==
  /\ At(s, "transfer") /\ net.sent = net.total /\ net.total > 0
  /\ \E code \in {"200", "other"} : Leaves(s, "drop", code, "other", s)

TimesOut(s) ==
  At(s, "transfer") /\ curl.tout > 0 /\ Leaves(s, "drop", "none", "timeout", s)

\* write_callback() refuses a chunk.
TooLarge(s) ==
  /\ At(s, "transfer")
  /\ \E have \in 1..(net.total - net.sent) : Refuses(dbc.apos + have)
  /\ Leaves(s, "drop", "none", "write", s)

-----------------------------------------------------------------------------
(* The rest of curl_post().                                                *)

\* Mutants: the mutex stays locked; the failure is not posted.
CheckOkKeepsMux(s) ==
  /\ At(s, "check") /\ th[s].code = "200" /\ th[s].body.size > 0
  /\ Goes(s, "answer")
  /\ UNCHANGED <<dbc, curl, net, app>>
CheckUnsupportedSilent(s) ==
  /\ At(s, "check")
  /\ th' = [th EXCEPT ![s].pc = "drop", ![s].code = "none"]
  /\ UNCHANGED <<dbc, curl, net, app>>

\* content_type_supported(), of a pointer that is not set when there is no
\* body: it may find anything.  A 200 with a body releases the mutex.
CheckOk(s) ==
  /\ At(s, "check") /\ th[s].code = "200" /\ th[s].body.size > 0
  /\ dbc' = [dbc EXCEPT !.mux = NoStmt]
  /\ Goes(s, "answer")
  /\ UNCHANGED <<curl, net, app>>

CheckUnsupported(s) ==
  /\ At(s, "check")
  /\ Posts(s)
  /\ th' = [th EXCEPT ![s].pc = "drop", ![s].code = "none"]
  /\ UNCHANGED <<curl, net, app>>

CheckEmpty(s) ==
  /\ At(s, "check") /\ th[s].code = "200" /\ th[s].body.size = 0
  /\ Posts(s)
  /\ Goes(s, "drop")
  /\ UNCHANGED <<curl, net, app>>

CheckHttpError(s) ==
  /\ At(s, "check") /\ th[s].code = "other"
  /\ Goes(s, "drop")
  /\ UNCHANGED <<dbc, curl, net, app>>

\* Mutant: the handle goes, the note of the URL it was set for stays.
DropKeepsUrl(s) ==
  /\ At(s, "drop")
  /\ curl' = NoHandle
  /\ Goes(s, "err")
  /\ UNCHANGED <<dbc, net, app>>

\* Mutant: a handle that timed out is kept.
DropUnlessTimedOut(s) ==
  /\ At(s, "drop")
  /\ IF th[s].curl_err = "timeout" THEN UNCHANGED <<curl, dbc>>
     ELSE curl' = NoHandle /\ dbc' = [dbc EXCEPT !.crr_url = NoUrl]
  /\ Goes(s, "err")
  /\ UNCHANGED <<net, app>>

\* cleanup_curl().
Drop(s) ==
  /\ At(s, "drop")
  /\ curl' = NoHandle
  /\ dbc' = [dbc EXCEPT !.crr_url = NoUrl]
  /\ Goes(s, "err")
  /\ UNCHANGED <<net, app>>

\* An error answer becomes the statement's diagnostic, else the connection's
\* is copied to it; then the mutex is released and the answer freed.
Err(s) ==
  /\ At(s, "err")
  /\ app' = [app EXCEPT ![s].rc = "ERROR",
               ![s].diag = IF th[s].code # "none" THEN s
                           ELSE IF dbc.diag # NoDiag THEN dbc.diag ELSE @]
  /\ dbc' = [dbc EXCEPT !.mux = NoStmt]
  /\ th' = [th EXCEPT ![s] = NoThread]
  /\ UNCHANGED <<curl, net>>

\* attach_answer(), close_es_answ_handler(): the answer can be used or not.
Answer(s) ==
  /\ At(s, "answer")
  /\ \/ app' = [app EXCEPT ![s].rc = "SUCCESS", ![s].answer = th[s].body]
     \/ app' = [app EXCEPT ![s].rc = "ERROR", ![s].diag = s]
  /\ th' = [th EXCEPT ![s] = NoThread]
  /\ UNCHANGED <<dbc, curl, net>>

-----------------------------------------------------------------------------
Step(s) ==
  \/ Lock(s) \/ InitHandle(s) \/ InitHandleFails(s) \/ SetUrl(s) \/ SetUrlFails(s)
  \/ Perform(s) \/ PerformFails(s)
  \/ Chunk(s) \/ TransferEnds(s) \/ TransferFails(s) \/ LateError(s) \/ TimesOut(s)
  \/ TooLarge(s)
  \/ CheckOk(s) \/ CheckUnsupported(s) \/ CheckEmpty(s) \/ CheckHttpError(s)
  \/ Drop(s) \/ Err(s) \/ Answer(s)

Next ==
  \/ SetTimeout
  \/ \E s \in Stmts : SetQueryTimeout(s) \/ Call(s) \/ Step(s)

Spec == Init /\ [][Next]_vars

\* libcurl ends a transfer that a timeout is set for; what curl_post() does
\* when it is over runs to the end.  The server need not answer, and a thread
\* need not get the mutex: the operating system's lock is not a fair one.
Finishes(s) ==
  TimesOut(s) \/ CheckOk(s) \/ CheckUnsupported(s) \/ CheckEmpty(s)
  \/ CheckHttpError(s) \/ Drop(s) \/ Err(s) \/ Answer(s)

FairSpec == Spec /\ \A s \in Stmts : WF_vars(Finishes(s))

-----------------------------------------------------------------------------
(* Types.                                                                  *)

AnswerType == [of : Stmts \cup {NoStmt}, url : Urls \cup {NoUrl}, size : Nat]
Diags == Stmts \cup {NoDiag, AppDiag}
Pcs == {"idle", "lock", "init", "url", "opts", "transfer", "check", "drop", "err",
        "answer"}

\* Every member keeps its type, and the statement that holds the mutex is the
\* one whose thread is between its lock and its release (curl_mux).
TypeOK ==
  /\ dbc \in [mux : Stmts \cup {NoStmt}, crr_url : Urls \cup {NoUrl},
              timeout : Nat, diag : Diags, alen : Nat, apos : Nat]
  /\ curl \in [on : BOOLEAN, url : Urls \cup {NoUrl}, tout : Nat,
               body : Stmts \cup {NoStmt}]
  /\ th \in [Stmts -> [pc : Pcs, url : Urls \cup {NoUrl}, want : Nat,
                       code : {"none", "200", "other"},
                       curl_err : {"ok", "other", "timeout", "write"},
                       body : AnswerType]]
  /\ net \in [of : Stmts \cup {NoStmt}, url : Urls \cup {NoUrl}, total : Nat,
              sent : Nat]
  /\ app \in [Stmts -> [rc : {"none", "SUCCESS", "ERROR"}, diag : Diags, qt : Nat,
                        answer : AnswerType]]
  /\ \A s \in Stmts : dbc.mux = s <=> th[s].pc \notin {"idle", "lock", "answer"}

-----------------------------------------------------------------------------
(* Safety.                                                                 *)

\* During a transfer the buffer holds exactly what the server sent so far, in
\* a size that neither falls short of it nor passes the limit (write_callback).
BufferHoldsAnswer ==
  \A s \in Stmts : At(s, "transfer") =>
    /\ dbc.apos = net.sent /\ dbc.apos <= dbc.alen
    /\ AMax > 0 => dbc.alen <= AMax

\* A request runs under a timeout that is at least its statement's, whatever
\* other statements ran with on the same handle, and whether the handle is new
\* or not.  It may be a longer one that another statement left (TimeoutIsMaximum).
QueryTimeoutInForce ==
  \A s \in Stmts : At(s, "transfer") => app[s].qt <= curl.tout

\* A call that fails leaves a diagnostic on its statement, and never another
\* statement's: the connection's is copied before the mutex is released.
DiagNotOfOthers ==
  \A s \in Stmts : app[s].rc = "ERROR" => app[s].diag \in {s, AppDiag}

\* When a call that failed after its lock releases the mutex, no libcurl handle
\* stays behind that the next call would go on with (cleanup_curl).
FailedHandleDropped ==
  [][\A s \in Stmts : At(s, "err") /\ th'[s].pc = "idle" =>
       curl' = NoHandle /\ dbc'.crr_url = NoUrl]_vars

\* The request of a statement with a timeout ends, and its call returns with
\* the mutex released, though the server never answers.
TimedRequestEnds ==
  \A s \in Stmts : At(s, "transfer") /\ app[s].qt > 0 ~> At(s, "idle")

-----------------------------------------------------------------------------
(* What the statements are promised.                                       *)

Asked(s) == IF th[s].pc \in {"idle", "drop", "err"} THEN NoUrl ELSE th[s].url
Served(s) ==
  IF At(s, "transfer") THEN [of |-> net.of, url |-> net.url, size |-> net.total]
  ELSE IF th[s].pc \in {"check", "answer"} THEN th[s].body
  ELSE NoAnswer

Promised == INSTANCE Transport WITH
  asked <- [s \in Stmts |-> Asked(s)],
  served <- [s \in Stmts |-> Served(s)],
  got <- [s \in Stmts |-> app[s].answer]

\* Each statement gets the whole answer to its own request at its own URL, or
\* an error, however the threads interleave on the one handle.
ImplementsTransport == Promised!Spec

-----------------------------------------------------------------------------
(* What a comment of the code says, and the code does not do.              *)

\* "set timeout as maximum between connection and statement value".
TimeoutIsMaximum ==
  \A s \in Stmts : At(s, "transfer") => curl.tout = th[s].want

=============================================================================
