-------------------------- MODULE EsConnectProofs --------------------------
(***************************************************************************)
(* What an open connection is made of, for any data sources, number of     *)
(* attempts and number of types.                                           *)
(*                                                                         *)
(* The argument: cleaning up leaves nothing that the configuration does    *)
(* not set again for the attempt, but for the API key, which a user goes   *)
(* before; from then on every step of the attempt adds its own part, and   *)
(* any failure leaves the attempt.  What libcurl's handle sends is always  *)
(* what the connection's members say, since these change only while there  *)
(* is no such handle.                                                      *)
(***************************************************************************)
EXTENDS EsConnect, TLAPS

Cats == [w : Catalogs \cup {NoName, Broken}, c : Catalogs \cup {NoName}]
Agrees(catalog) == catalog.w # Broken => catalog.w = catalog.c

\* The members have the credentials of the data source, set by attempt a.
CredentialsOf(d, dsn, a) ==
  /\ Credentials[dsn] = "user" => d.user = a
  /\ Credentials[dsn] # "user" => d.user = Unset
  /\ Credentials[dsn] = "key" => d.key = a

-----------------------------------------------------------------------------
(* The helpers on the handle.                                              *)

LEMMA FreedCatalog ==
  ASSUME NEW c \in Cats, Agrees(c)
  PROVE  FreeCurrentCatalog(c) \in Cats /\ Agrees(FreeCurrentCatalog(c))
BY DEF Cats, Agrees, FreeCurrentCatalog

\* Setting the current catalog keeps its two strings together.
LEMMA SetCatalogAgrees ==
  ASSUME NEW c \in Cats, Agrees(c), NEW name \in Catalogs \cup {NoName},
         NEW r \in SetCurrentCatalog(c, name)
  PROVE  r.catalog \in Cats /\ Agrees(r.catalog) /\ r.ok \in BOOLEAN
<1> DEFINE freed == IF c.w # NoName /\ c.w # name
                    THEN FreeCurrentCatalog(c) ELSE c
<1>1. freed \in Cats /\ Agrees(freed)
  BY FreedCatalog
<1>2. name # Broken
  BY ConnectAssumption DEF NoName, Broken
<1>3. CASE name = NoName
  <2>1. r = [catalog |-> freed, ok |-> TRUE]
    BY <1>3 DEF SetCurrentCatalog
  <2> QED BY <1>1, <2>1
<1>4. CASE name # NoName
  <2>1. CASE r = [catalog |-> [w |-> name, c |-> name], ok |-> TRUE]
    BY <2>1 DEF Cats, Agrees
  <2>2. CASE r = [catalog |-> [freed EXCEPT !.w = IF freed.w = NoName
                                                  THEN NoName ELSE Broken],
                  ok |-> FALSE]
    BY <1>1, <2>2 DEF Cats, Agrees
  <2>3. CASE r = [catalog |-> NoCatalog, ok |-> FALSE]
    BY <2>3 DEF Cats, Agrees, NoCatalog
  <2> HIDE DEF freed
  <2> QED BY <1>4, <2>1, <2>2, <2>3 DEF SetCurrentCatalog, freed
<1> QED BY <1>3, <1>4

\* cleanup_dbc() keeps the attempts and the key, and leaves no user.
LEMMA CleanupLeaves ==
  ASSUME NEW d \in DbcStates, Agrees(d.catalog)
  PROVE  /\ CleanupDbc(d) \in DbcStates
         /\ Agrees(CleanupDbc(d).catalog)
         /\ CleanupDbc(d).user = Unset
         /\ CleanupDbc(d).attempts = d.attempts
<1>1. d.catalog \in Cats
  BY DEF DbcStates, Cats
<1>2. FreeCurrentCatalog(d.catalog) \in Cats
      /\ Agrees(FreeCurrentCatalog(d.catalog))
  BY <1>1, FreedCatalog
<1>3. Unset \in Attempts /\ NoTypes \in [of : Attempts, rows : 0..MaxNoTypes]
  BY ConnectAssumption DEF Unset, NoTypes, Attempts
<1> QED BY <1>2, <1>3 DEF CleanupDbc, DbcStates, Cats

\* config_dbc() on a handle that was cleaned up: what it accepts has the
\* credentials of the data source, of this attempt.
LEMMA ConfigSets ==
  ASSUME dbc \in DbcStates, Agrees(dbc.catalog), dbc.user = Unset,
         NEW dsn \in Dsns, NEW r \in ConfigDbc(dbc, dsn)
  PROVE  /\ r.dbc \in DbcStates
         /\ Agrees(r.dbc.catalog)
         /\ r.ok \in BOOLEAN
         /\ r.dbc.attempts = n
         /\ r.ok => r.dbc.url = n /\ CredentialsOf(r.dbc, dsn, n)
<1> DEFINE set == Configured(dbc, dsn)
           name == DsnCatalog[dsn]
           named == IF name = NoName
                    THEN {[catalog |-> set.catalog, ok |-> TRUE]}
                    ELSE SetCurrentCatalog(set.catalog, name)
<1>1. name \in Catalogs \cup {NoName} /\ DsnTimeout[dsn] \in Nat
  BY ConnectAssumption
<1>2. /\ set \in DbcStates /\ set.catalog = dbc.catalog
      /\ set.attempts = n /\ set.url = n /\ CredentialsOf(set, dsn, n)
  BY <1>1 DEF Configured, DbcStates, CredentialsOf, n
<1>3. set.catalog \in Cats
  BY <1>2 DEF DbcStates, Cats
<1>4. ASSUME NEW c \in named
      PROVE  c.catalog \in Cats /\ Agrees(c.catalog) /\ c.ok \in BOOLEAN
  <2>1. CASE name = NoName
    <3>1. c = [catalog |-> set.catalog, ok |-> TRUE]
      BY <1>4, <2>1
    <3>2. Agrees(set.catalog)
      BY <1>2
    <3> HIDE DEF set
    <3> QED BY <1>3, <3>1, <3>2
  <2>2. CASE name # NoName
    BY <1>1, <1>2, <1>3, <1>4, <2>2, SetCatalogAgrees
  <2> QED BY <2>1, <2>2
<1> HIDE DEF set, name
<1>5. CASE r = [dbc |-> CleanupDbc(dbc), ok |-> FALSE]
  BY <1>5, CleanupLeaves DEF n
<1>6. CASE r = [dbc |-> CleanupDbc(set), ok |-> FALSE]
  BY <1>2, <1>6, CleanupLeaves
<1>7. CASE r = [dbc |-> set, ok |-> FALSE]
  BY <1>2, <1>7
<1>8. ASSUME NEW c \in named,
             r = [dbc |-> IF c.ok THEN [set EXCEPT !.catalog = c.catalog]
                          ELSE CleanupDbc([set EXCEPT !.catalog = c.catalog]),
                  ok |-> c.ok]
      PROVE  /\ r.dbc \in DbcStates
             /\ Agrees(r.dbc.catalog)
             /\ r.ok \in BOOLEAN
             /\ r.dbc.attempts = n
             /\ r.ok => r.dbc.url = n /\ CredentialsOf(r.dbc, dsn, n)
  <2> DEFINE d == [set EXCEPT !.catalog = c.catalog]
  <2>1. c.catalog \in Cats /\ Agrees(c.catalog) /\ c.ok \in BOOLEAN
    BY <1>4
  <2>2. /\ d \in DbcStates /\ d.catalog = c.catalog
        /\ d.attempts = n /\ d.url = n /\ CredentialsOf(d, dsn, n)
    BY <1>2, <2>1 DEF DbcStates, Cats, CredentialsOf
  <2> HIDE DEF d
  <2>3. CASE c.ok
    <3>1. r = [dbc |-> d, ok |-> c.ok]
      BY <1>8, <2>3 DEF d
    <3> QED BY <2>1, <2>2, <3>1
  <2>4. CASE ~c.ok
    <3>1. r = [dbc |-> CleanupDbc(d), ok |-> c.ok]
      BY <1>8, <2>4 DEF d
    <3> QED BY <2>1, <2>2, <2>4, <3>1, CleanupLeaves
  <2> QED BY <2>1, <2>3, <2>4
<1> HIDE DEF named
<1>9. \/ r = [dbc |-> CleanupDbc(dbc), ok |-> FALSE]
      \/ r = [dbc |-> CleanupDbc(set), ok |-> FALSE]
      \/ r = [dbc |-> set, ok |-> FALSE]
      \/ \E c \in named :
           r = [dbc |-> IF c.ok THEN [set EXCEPT !.catalog = c.catalog]
                        ELSE CleanupDbc([set EXCEPT !.catalog = c.catalog]),
                ok |-> c.ok]
  BY DEF ConfigDbc, set, named, name
<1> QED BY <1>5, <1>6, <1>7, <1>8, <1>9

-----------------------------------------------------------------------------
(* Types, and the parts that go with them.                                 *)

TypeInv ==
  /\ TypeOK
  /\ At("config") => n < MaxAttempts
  /\ call.pc \in {"config", "configured"} => call.dsn \in Dsns
  /\ At("configured") => dbc.user = Unset
  /\ Agrees(dbc.catalog)

CallType == [pc : Pcs, prompts : BOOLEAN, dsn : Dsns \cup {NoName},
             load : [got : 0..MaxNoTypes, ok : BOOLEAN]]

CurlType == [on : BOOLEAN,
             auth : [kind : {"user", "key", "none"}, of : Attempts]]
Values == Catalogs \cup {NoName, Unwritten}
Heap == {"reply", "arrays", "stmt", "types"}

LEMMA NoCallType ==
  NoCall \in CallType /\ NoCall.pc = "idle" /\ NoCall.load.ok = FALSE
BY ConnectAssumption DEF CallType, NoCall, NoLoad, Pcs

LEMMA ReturnsType ==
  ASSUME NEW op, NEW rc, NEW value \in Values,
         Returns(op, rc) \/ ReturnsValue(rc, value)
  PROVE  /\ call' \in CallType /\ call'.pc = "idle" /\ ~call'.load.ok
         /\ last'.value \in Values
<1>1. call' = NoCall
  BY DEF Returns, ReturnsValue
<1>2. last'.value = Unwritten \/ last'.value = value
  BY DEF Returns, ReturnsValue
<1> QED BY <1>1, <1>2, NoCallType DEF Values

\* An attempt that fails leaves a call of its kind.
LEMMA FailsType ==
  ASSUME call \in CallType, last.value \in Values,
         AttemptFails
  PROVE  /\ call' \in CallType
         /\ last'.value \in Values
         /\ call'.pc \in {"idle", "prompt"}
         /\ ~call'.load.ok
<1>1. NoLoad \in [got : 0..MaxNoTypes, ok : BOOLEAN] /\ NoLoad.ok = FALSE
  BY ConnectAssumption DEF NoLoad
<1>2. CASE call.prompts
  BY <1>1, <1>2 DEF AttemptFails, CallType, Pcs
<1>3. CASE ~call.prompts
  <2>1. Returns("connect", "ERROR")
    BY <1>3 DEF AttemptFails
  <2> QED BY <2>1, ReturnsType
<1> QED BY <1>2, <1>3

LEMMA GotoType ==
  ASSUME call \in CallType, last.value \in Values,
         NEW pc \in Pcs, Goto(pc)
  PROVE  /\ call' \in CallType /\ call'.pc = pc
         /\ call'.dsn = call.dsn /\ call'.load = call.load
         /\ last'.value \in Values
BY DEF Goto, CallType

\* What a request leaves of the connection.
LEMMA RequestType ==
  ASSUME dbc \in DbcStates, Answered \/ Unanswered,
         curl \in CurlType
  PROVE  /\ dbc' \in DbcStates
         /\ \E diag \in {"none", "error"} : dbc' = [dbc EXCEPT !.diag = diag]
         /\ curl' \in CurlType
         /\ curl' = curl \/ curl' = CurlInit \/ ~curl'.on
<1>1. \E diag \in {"none", "error"} : dbc' = [dbc EXCEPT !.diag = diag]
  BY DEF Answered, Unanswered, Post
<1>2. dbc' \in DbcStates
  BY <1>1 DEF DbcStates
<1>3. CurlInit \in CurlType
  BY ConnectAssumption DEF CurlType, CurlInit, Authentication, DbcStates, Attempts, Unset
<1>4. NoCurl \in CurlType /\ ~NoCurl.on
  BY ConnectAssumption DEF CurlType, NoCurl, Attempts, Unset
<1>5. curl' \in {curl, CurlInit, NoCurl}
  BY DEF Answered, Unanswered
<1> QED BY <1>1, <1>2, <1>3, <1>4, <1>5

LEMMA PostType ==
  ASSUME dbc \in DbcStates, NEW state \in {"none", "info", "error"}, Post(state)
  PROVE  /\ dbc' \in DbcStates /\ dbc'.catalog = dbc.catalog
         /\ dbc'.attempts = dbc.attempts
BY DEF Post, DbcStates

LEMMA TypeInductive == TypeInv /\ [Next]_vars => TypeInv'
<1> SUFFICES ASSUME TypeInv, [Next]_vars PROVE TypeInv'
  OBVIOUS
<1> DEFINE Okay == /\ dbc' \in DbcStates /\ curl' \in CurlType
                   /\ heap' \in SUBSET Heap /\ srv' \in 0..MaxTypes
                   /\ open' \in Dsns \cup {NoName}
                   /\ call' \in CallType /\ last'.value \in Values
                   /\ call'.pc = "config" => dbc'.attempts < MaxAttempts
                   /\ call'.pc \in {"config", "configured"} => call'.dsn \in Dsns
                   /\ call'.pc = "configured" => dbc'.user = Unset
                   /\ Agrees(dbc'.catalog)
<1>a. SUFFICES Okay
  BY DEF TypeInv, TypeOK, CurlType, Heap, CallType, Values, At, n
<1>b. /\ dbc \in DbcStates /\ curl \in CurlType /\ heap \in SUBSET Heap
      /\ srv \in 0..MaxTypes /\ open \in Dsns \cup {NoName}
      /\ call \in CallType /\ last.value \in Values
      /\ call.pc = "config" => dbc.attempts < MaxAttempts
      /\ call.pc \in {"config", "configured"} => call.dsn \in Dsns
      /\ call.pc = "configured" => dbc.user = Unset
      /\ Agrees(dbc.catalog)
      /\ dbc.attempts \in 0..MaxAttempts
  BY DEF TypeInv, TypeOK, CurlType, Heap, CallType, Values, At, n, DbcStates,
         Attempts
<1>c. NoCurl \in CurlType /\ CurlInit \in CurlType
  BY <1>b, ConnectAssumption DEF CurlType, NoCurl, CurlInit, Authentication,
     Attempts, Unset, DbcStates
<1>d. /\ MaxTypes \in Nat /\ MaxNoTypes \in Nat \ {0} /\ MaxAttempts \in Nat
  BY ConnectAssumption
<1> USE DEF At, Idle
<1>1. CASE DriverConnect
  <2>1. call' \in CallType /\ UNCHANGED <<dbc, curl, heap, srv, open, last>>
        /\ dbc.attempts < MaxAttempts
        /\ call'.dsn \in Dsns /\ call'.pc # "configured"
    BY <1>b, <1>1, NoCallType DEF DriverConnect, CallType, Pcs, n
  <2> QED BY <1>b, <2>1
<1>2. CASE DriverConnectRefused
  BY <1>b, <1>2, PostType, ReturnsType DEF DriverConnectRefused, Values
<1>3. CASE Prompt
  <2>1. CASE /\ n < MaxAttempts /\ UNCHANGED <<dbc, last>>
             /\ \E dsn \in Dsns :
                  call' = [call EXCEPT !.pc = "config", !.dsn = dsn]
    BY <1>b, <1>3, <2>1 DEF Prompt, CallType, Pcs, n
  <2>2. CASE Returns("connect", "NO_DATA") /\ UNCHANGED dbc
    BY <1>b, <1>3, <2>2, ReturnsType DEF Prompt, Values
  <2>3. CASE Returns("connect", "ERROR") /\ Post("error")
    BY <1>b, <1>3, <2>3, PostType, ReturnsType DEF Prompt, Values
  <2> QED BY <1>3, <2>1, <2>2, <2>3 DEF Prompt
<1>4. CASE Cleanup
  <2>1. CleanupDbc(dbc) \in DbcStates /\ Agrees(CleanupDbc(dbc).catalog)
        /\ CleanupDbc(dbc).attempts = dbc.attempts /\ CleanupDbc(dbc).user = Unset
    BY <1>b, CleanupLeaves
  <2>2. n + 1 \in Attempts
    BY <1>b, <1>d, <1>4 DEF Cleanup, Attempts, n
  <2>3. dbc' \in DbcStates /\ dbc'.catalog = CleanupDbc(dbc).catalog
        /\ dbc'.user = Unset
    <3> HIDE DEF At
    <3> QED BY <1>4, <2>1, <2>2 DEF Cleanup, DbcStates
  <2>4. Goto("configured") /\ curl' = NoCurl /\ UNCHANGED <<heap, srv, open>>
    BY <1>4 DEF Cleanup
  <2>5. call' \in CallType /\ call'.pc = "configured"
        /\ call'.dsn = call.dsn /\ last'.value \in Values
    BY <1>b, <2>4, GotoType DEF Pcs
  <2>6. call.dsn \in Dsns
    BY <1>b, <1>4 DEF Cleanup
  <2> QED BY <1>b, <1>c, <2>1, <2>3, <2>4, <2>5, <2>6
<1>5. CASE Configure
  <2>1. PICK r \in ConfigDbc(dbc, call.dsn) :
          /\ dbc' = [r.dbc EXCEPT !.diag = IF r.ok THEN @ ELSE "error"]
          /\ IF r.ok THEN Goto("curl") ELSE AttemptFails
    BY <1>5 DEF Configure
  <2>2. dbc.user = Unset /\ call.dsn \in Dsns
    BY <1>b, <1>5 DEF Configure
  <2>3. r.dbc \in DbcStates /\ Agrees(r.dbc.catalog) /\ r.ok \in BOOLEAN
    BY <1>b, <2>2, ConfigSets
  <2>4. dbc' \in DbcStates /\ dbc'.catalog = r.dbc.catalog
    BY <2>1, <2>3 DEF DbcStates
  <2>5. /\ call' \in CallType /\ call'.pc \notin {"config", "configured"} /\ last'.value \in Values
    BY <1>b, <2>1, <2>3, GotoType, FailsType DEF Pcs
  <2>6. UNCHANGED <<curl, heap, srv, open>>
    BY <1>5 DEF Configure
  <2> QED BY <1>b, <2>3, <2>4, <2>5, <2>6
<1>6. CASE InitCurl
  <2>1. CASE curl' = CurlInit /\ Goto("version") /\ UNCHANGED dbc
    BY <1>b, <1>c, <1>6, <2>1, GotoType DEF InitCurl, Pcs
  <2>2. CASE curl' = NoCurl /\ AttemptFails /\ Post("error")
    BY <1>b, <1>c, <1>6, <2>2, FailsType, PostType DEF InitCurl
  <2> QED BY <1>6, <2>1, <2>2 DEF InitCurl
<1>7. CASE RequestVersion
  <2>1. CASE /\ heap' = heap \cup {"reply"} /\ Post("none") /\ Goto("check")
             /\ UNCHANGED curl
    <3>1. call' \in CallType /\ call'.pc = "check" /\ last'.value \in Values
      BY <1>b, <2>1, GotoType DEF Pcs
    <3> QED BY <1>b, <1>7, <2>1, <3>1, PostType DEF RequestVersion, Heap
  <2>2. CASE curl' = NoCurl /\ Post("error") /\ AttemptFails /\ UNCHANGED heap
    BY <1>b, <1>c, <1>7, <2>2, FailsType, PostType DEF RequestVersion
  <2> QED BY <1>7, <2>1, <2>2 DEF RequestVersion
<1>8. CASE CheckVersion
  <2>1. dbc' \in DbcStates /\ dbc'.catalog = dbc.catalog
    <3> HIDE DEF At
    <3> QED BY <1>b, <1>8 DEF CheckVersion, DbcStates, Attempts, n
  <2>2. AttemptFails \/ Goto("arrays")
    BY <1>8 DEF CheckVersion
  <2>3. call' \in CallType /\ call'.pc \notin {"config", "configured"} /\ last'.value \in Values
    BY <1>b, <2>2, FailsType, GotoType DEF Pcs
  <2>4. heap' = heap \ {"reply"} /\ UNCHANGED <<curl, srv, open>>
    BY <1>8 DEF CheckVersion
  <2> QED BY <1>b, <2>1, <2>3, <2>4
<1>9. CASE LoadArrays
  <2>1. CASE heap' = heap \cup {"arrays"} /\ Goto("stmt") /\ UNCHANGED dbc
    <3>1. call' \in CallType /\ call'.pc = "stmt" /\ last'.value \in Values
      BY <1>b, <2>1, GotoType DEF Pcs
    <3> QED BY <1>b, <1>9, <2>1, <3>1 DEF LoadArrays, Heap
  <2>2. CASE AttemptFails /\ Post("error") /\ UNCHANGED heap
    BY <1>b, <1>9, <2>2, FailsType, PostType DEF LoadArrays
  <2> QED BY <1>9, <2>1, <2>2 DEF LoadArrays
<1>10. CASE LoadStmt
  <2>1. CASE heap' = heap \cup {"stmt"} /\ Goto("query") /\ UNCHANGED dbc
    <3>1. call' \in CallType /\ call'.pc = "query" /\ last'.value \in Values
      BY <1>b, <2>1, GotoType DEF Pcs
    <3> QED BY <1>b, <1>10, <2>1, <3>1 DEF LoadStmt, Heap
  <2>2. CASE heap' = heap \ {"arrays"} /\ AttemptFails /\ Post("error")
    BY <1>b, <1>10, <2>2, FailsType, PostType DEF LoadStmt
  <2> QED BY <1>10, <2>1, <2>2 DEF LoadStmt
<1>11. CASE LoadQuery
  <2>1. /\ Answered \/ Unanswered
        /\ srv' \in 0..MaxTypes /\ UNCHANGED <<heap, open>>
    BY <1>b, <1>11 DEF LoadQuery
  <2>2. /\ dbc' \in DbcStates /\ curl' \in CurlType /\ dbc'.catalog = dbc.catalog
    BY <1>b, <2>1, RequestType DEF DbcStates
  <2>3. \/ Goto("end")
        \/ \E first \in 1..srv' :
             ~Refused(first) /\ LoadGoto("fetch", [NoLoad EXCEPT !.got = first])
    BY <1>11 DEF LoadQuery
  <2>4. CASE Goto("end")
    BY <1>b, <2>1, <2>2, <2>4, GotoType DEF Pcs
  <2>5. ASSUME NEW first \in 1..srv', ~Refused(first),
               LoadGoto("fetch", [NoLoad EXCEPT !.got = first])
        PROVE  call' \in CallType /\ call'.pc = "fetch" /\ last' = last
    <3>1. first \in 0..MaxNoTypes
      BY <1>d, <2>1, <2>5 DEF Refused
    <3>2. [NoLoad EXCEPT !.got = first] \in [got : 0..MaxNoTypes, ok : BOOLEAN]
      BY <3>1 DEF NoLoad
    <3> QED BY <1>b, <2>5, <3>2 DEF LoadGoto, CallType, Pcs
  <2> QED BY <1>b, <2>1, <2>2, <2>3, <2>4, <2>5
<1>12. CASE FetchPage
  <2>1. /\ Answered \/ Unanswered
        /\ UNCHANGED <<heap, srv, open>>
    BY <1>b, <1>12 DEF FetchPage
  <2>2. /\ dbc' \in DbcStates /\ curl' \in CurlType /\ dbc'.catalog = dbc.catalog
    BY <1>b, <2>1, RequestType DEF DbcStates
  <2>3. \/ Goto("end")
        \/ \E page \in 1..(srv - call.load.got) :
             LoadGoto("fetch", [call.load EXCEPT !.got = Taken(@, page)])
    BY <1>12 DEF FetchPage
  <2>4. CASE Goto("end")
    BY <1>b, <2>1, <2>2, <2>4, GotoType DEF Pcs
  <2>5. ASSUME NEW page \in 1..(srv - call.load.got),
               LoadGoto("fetch", [call.load EXCEPT !.got = Taken(@, page)])
        PROVE  call' \in CallType /\ call'.pc = "fetch" /\ last' = last
    <3>1. call.load \in [got : 0..MaxNoTypes, ok : BOOLEAN]
      BY <1>b DEF CallType
    <3>2. Taken(call.load.got, page) \in 0..MaxNoTypes
      BY <1>b, <1>d, <2>5, <3>1 DEF Taken, Min2
    <3> QED BY <1>b, <2>5, <3>1, <3>2 DEF LoadGoto, CallType, Pcs
  <2> QED BY <1>b, <2>1, <2>2, <2>3, <2>4, <2>5
<1>13. CASE FetchEnd
  <2>1. Goto("end") \/ Goto("copy")
    BY <1>13 DEF FetchEnd
  <2>2. call' \in CallType /\ call'.pc \notin {"config", "configured"} /\ last'.value \in Values
    BY <1>b, <2>1, GotoType DEF Pcs
  <2> QED BY <1>b, <1>13, <2>2 DEF FetchEnd, Heap
<1>14. CASE CopyTypes
  <2>1. call.load \in [got : 0..MaxNoTypes, ok : BOOLEAN]
    BY <1>b DEF CallType
  <2>2. PICK ok \in BOOLEAN : LoadGoto("end", [call.load EXCEPT !.ok = ok])
    BY <1>14 DEF CopyTypes
  <2>3. call' \in CallType /\ call'.pc = "end" /\ last' = last
    BY <1>b, <2>1, <2>2 DEF LoadGoto, CallType, Pcs
  <2> QED BY <1>b, <1>14, <2>3 DEF CopyTypes
<1>15. CASE LoadEnd
  <2>1. CASE call.load.ok
    <3>1. Goto("attach") /\ heap' = heap \ {"stmt"}
          /\ UNCHANGED <<dbc, curl, srv, open>>
      BY <1>15, <2>1 DEF LoadEnd
    <3> QED BY <1>b, <3>1, GotoType DEF Pcs
  <2>2. CASE ~call.load.ok
    <3>1. AttemptFails /\ heap' = heap \ FreedOnFailure /\ Post("error")
          /\ UNCHANGED <<curl, srv, open>>
      BY <1>15, <2>2 DEF LoadEnd
    <3> QED BY <1>b, <3>1, FailsType, PostType
  <2> QED BY <2>1, <2>2
<1>16. CASE AttachTypes
  <2>1. PICK max \in IF dbc.max_type = Unset THEN {n} ELSE {n, dbc.max_type} :
          dbc' = [dbc EXCEPT !.types = [of |-> n, rows |-> call.load.got],
                             !.max_type = max]
    BY <1>16 DEF AttachTypes
  <2>2. max \in Attempts /\ n \in Attempts
    BY <1>b DEF DbcStates, n
  <2>3. call.load.got \in 0..MaxNoTypes
    BY <1>b DEF CallType
  <2>4. dbc' \in DbcStates /\ dbc'.catalog = dbc.catalog
    BY <1>b, <2>1, <2>2, <2>3 DEF DbcStates
  <2>5. Goto("finish") /\ heap' = heap \ {"types", "arrays"}
        /\ UNCHANGED <<curl, srv, open>>
    BY <1>16 DEF AttachTypes
  <2> QED BY <1>b, <2>4, <2>5, GotoType DEF Pcs
<1>17. CASE Finish
  <2>1. Unset \in Attempts /\ n \in Attempts
    BY <1>b, <1>d DEF DbcStates, Attempts, Unset, n
  <2>2. dbc' \in DbcStates /\ dbc'.catalog = dbc.catalog
    <3>1. \/ \E dsn \in {Unset, n} :
               dbc' = [dbc EXCEPT !.dsn = dsn, !.diag = "error"]
          \/ dbc' = [dbc EXCEPT !.dsn = n]
      BY <1>17 DEF Finish
    <3>2. CASE dbc' = [dbc EXCEPT !.dsn = n]
      BY <1>b, <2>1, <3>2 DEF DbcStates
    <3>3. ASSUME NEW dsn \in {Unset, n},
                 dbc' = [dbc EXCEPT !.dsn = dsn, !.diag = "error"]
          PROVE  dbc' \in DbcStates /\ dbc'.catalog = dbc.catalog
      <4>1. dsn \in Attempts
        BY <2>1
      <4> QED BY <1>b, <3>3, <4>1 DEF DbcStates
    <3> QED BY <3>1, <3>2, <3>3
  <2>3. Returns("connect", "ERROR") \/ Returns("connect", "SUCCESS")
    BY <1>17 DEF Finish
  <2>4. /\ open' = open \/ open' = call.dsn
        /\ UNCHANGED <<curl, heap, srv>>
    BY <1>17 DEF Finish
  <2>5. call.dsn \in Dsns \cup {NoName}
    BY <1>b DEF CallType
  <2> QED BY <1>b, <2>2, <2>3, <2>4, <2>5, ReturnsType DEF Values
<1>18. CASE Disconnect
  BY <1>b, <1>c, <1>18, CleanupLeaves, ReturnsType DEF Disconnect, Values
<1>19. CASE SetTimeout
  <2>1. dbc' \in DbcStates /\ dbc'.catalog = dbc.catalog
    <3> HIDE DEF At, Idle
    <3> QED BY <1>b, <1>19, ConnectAssumption DEF SetTimeout, Post, DbcStates
  <2>2. \E rc \in {"SUCCESS", RetCode("info")} : Returns("settimeout", rc)
    BY <1>19 DEF SetTimeout
  <2>3. UNCHANGED <<curl, heap, srv, open>>
    BY <1>19 DEF SetTimeout
  <2> QED BY <1>b, <2>1, <2>2, <2>3, ReturnsType DEF Values
<1>20. CASE SetCatalog
  <2>1. PICK name \in Catalogs \cup {NoName} :
          \E r \in SetCurrentCatalog(dbc.catalog, name) :
            /\ dbc' = [dbc EXCEPT !.catalog = r.catalog,
                                  !.diag = IF r.ok THEN @ ELSE "error"]
            /\ Returns("setcatalog", IF r.ok THEN "SUCCESS" ELSE "ERROR")
    BY <1>20 DEF SetCatalog
  <2>2. PICK r \in SetCurrentCatalog(dbc.catalog, name) :
          /\ dbc' = [dbc EXCEPT !.catalog = r.catalog,
                                !.diag = IF r.ok THEN @ ELSE "error"]
          /\ Returns("setcatalog", IF r.ok THEN "SUCCESS" ELSE "ERROR")
    BY <2>1
  <2>3. dbc.catalog \in Cats
    BY <1>b DEF DbcStates, Cats
  <2>4. r.catalog \in Cats /\ Agrees(r.catalog) /\ r.ok \in BOOLEAN
    BY <1>b, <2>3, SetCatalogAgrees
  <2>5. dbc' \in DbcStates /\ dbc'.catalog = r.catalog
    BY <1>b, <2>2, <2>4 DEF DbcStates, Cats
  <2>6. UNCHANGED <<curl, heap, srv, open>>
    BY <1>20 DEF SetCatalog
  <2> QED BY <1>b, <2>2, <2>4, <2>5, <2>6, ReturnsType DEF Values
<1>21. CASE GetCatalog
  <2>1. /\ dbc' \in DbcStates /\ dbc'.catalog = dbc.catalog
        /\ curl' \in CurlType
    <3>1. \/ UNCHANGED <<dbc, curl>>
          \/ Post("error") /\ UNCHANGED curl
          \/ Answered \/ Unanswered
      BY <1>21 DEF GetCatalog
    <3> QED BY <1>b, <3>1, PostType, RequestType DEF DbcStates
  <2>2. dbc.catalog.w \in Values \/ dbc.catalog.w = Broken
    BY <1>b DEF DbcStates, Values
  <2>3. \E rc, value : value \in Values /\ ReturnsValue(rc, value)
    BY <1>21, <2>2 DEF GetCatalog, Values
  <2>4. UNCHANGED <<heap, srv, open>>
    BY <1>21 DEF GetCatalog
  <2> QED BY <1>b, <2>1, <2>3, <2>4, ReturnsType DEF Values
<1>22. CASE StatementRequest
  <2>1. /\ dbc' \in DbcStates /\ dbc'.catalog = dbc.catalog /\ curl' \in CurlType
        /\ dbc'.attempts = dbc.attempts
    BY <1>b, <1>22, RequestType DEF StatementRequest, DbcStates
  <2> QED BY <1>b, <1>22, <2>1 DEF StatementRequest
<1>23. CASE UNCHANGED vars
  BY <1>b, <1>23 DEF vars
<1> QED
  BY <1>1, <1>2, <1>3, <1>4, <1>5, <1>6, <1>7, <1>8, <1>9, <1>10, <1>11,
     <1>12, <1>13, <1>14, <1>15, <1>16, <1>17, <1>18, <1>19, <1>20, <1>21, <1>22, <1>23
  DEF Next, Connecting

LEMMA TypeInitial == Init => TypeInv
<1> SUFFICES ASSUME Init PROVE TypeInv
  OBVIOUS
<1>1. NewDbc \in DbcStates /\ NewDbc.catalog = NoCatalog
  BY ConnectAssumption DEF NewDbc, NoTypes, NoCatalog, Unset, DbcStates, Attempts
<1>2. Agrees(NoCatalog)
  BY DEF Agrees, NoCatalog
<1>3. NoCurl \in CurlType
  BY ConnectAssumption DEF NoCurl, CurlType, Unset, Attempts
<1>4. /\ dbc = NewDbc /\ curl = NoCurl /\ heap = {} /\ srv = 0 /\ open = NoName
      /\ call = NoCall /\ last.value = Unwritten
  BY DEF Init
<1> QED BY <1>1, <1>2, <1>3, <1>4, NoCallType, ConnectAssumption
        DEF TypeInv, TypeOK, At, CurlType, CallType

\* The connection handle, libcurl's and the call are what they are declared to
\* be, and there are never more types than the array of them has room for
\* (connect.c:2949, 3059).
THEOREM ConnectTypeCorrect == Spec => []TypeOK
<1>1. TypeInv => TypeOK
  BY DEF TypeInv
<1> QED BY TypeInitial, TypeInductive, <1>1, PTL DEF Spec

\* The two encodings of the current catalog are of the same name, or both
\* absent (catalogue.c:90): one is measured, the other is sent.
CatalogAgrees == dbc.catalog.w # Broken => dbc.catalog.w = dbc.catalog.c

\* The two strings of the current catalog are kept together by every call that
\* sets or frees them, failures included (catalogue.c:90).
THEOREM CatalogKept == Spec => []CatalogAgrees
<1>1. TypeInv => CatalogAgrees
  BY DEF TypeInv, Agrees, CatalogAgrees
<1> QED BY TypeInitial, TypeInductive, <1>1, PTL DEF Spec

-----------------------------------------------------------------------------
(* An attempt, part by part.                                               *)

SetUp == {"curl", "version", "check", "arrays", "stmt", "query", "fetch",
          "copy", "end", "attach", "finish"}
Checked == SetUp \ {"curl", "version", "check"}

\* What is there of the attempt once the configuration has been accepted.
Part(d, dsn) ==
  d.attempts # Unset /\ d.url = d.attempts /\ CredentialsOf(d, dsn, d.attempts)

StageInv ==
  /\ open # NoName => Idle
  /\ call.pc \notin {"idle", "prompt"} => n # Unset \/ At("config")
  /\ curl.on => curl.auth = Authentication
  /\ At("configured") => ~curl.on
  /\ call.pc \in SetUp => call.dsn \in Dsns /\ Part(dbc, call.dsn)
  /\ call.pc \in Checked => dbc.ver = n
  /\ At("finish") => dbc.types.of = n
  /\ open # NoName => /\ Part(dbc, open)
                      /\ dbc.ver = n /\ dbc.types.of = n /\ dbc.dsn = n

\* A connection that is open is of one attempt.
LEMMA StageImplies == TypeInv /\ StageInv => OneAttempt
<1> SUFFICES ASSUME TypeInv, StageInv, open # NoName PROVE OneAttempt
  BY DEF OneAttempt
<1>1. open \in Dsns /\ Credentials[open] \in {"user", "key", "none"}
  BY ConnectAssumption DEF TypeInv, TypeOK
<1>2. {dbc.url, dbc.ver, dbc.types.of, dbc.dsn} = {n}
  BY DEF StageInv, Part, n
<1>3. CASE ~curl.on
  BY <1>2, <1>3 DEF OneAttempt
<1>4. CASE curl.on
  <2>1. curl.auth = Authentication /\ Part(dbc, open)
    BY <1>4 DEF StageInv
  <2>2. CASE Credentials[open] = "none"
    BY <1>2, <2>1, <2>2 DEF OneAttempt, Part, CredentialsOf, Authentication, n
  <2>3. CASE Credentials[open] = "user"
    BY <1>2, <2>1, <2>3 DEF OneAttempt, Part, CredentialsOf, Authentication, n
  <2>4. CASE Credentials[open] = "key"
    BY <1>2, <2>1, <2>4 DEF OneAttempt, Part, CredentialsOf, Authentication, n
  <2> QED BY <1>1, <2>2, <2>3, <2>4
<1> QED BY <1>3, <1>4

\* The members that an attempt's parts are told by.
Kept == /\ dbc'.url = dbc.url /\ dbc'.user = dbc.user
        /\ dbc'.key = dbc.key /\ dbc'.attempts = dbc.attempts

CurlStep == curl' = curl \/ curl' = CurlInit \/ ~curl'.on

LEMMA KeptParts ==
  ASSUME Kept
  PROVE  /\ n' = n /\ Authentication' = Authentication
         /\ \A dsn : Part(dbc', dsn) <=> Part(dbc, dsn)
BY DEF Kept, n, Authentication, Part, CredentialsOf

LEMMA CurlKept ==
  ASSUME StageInv, Kept, CurlStep
  PROVE  curl'.on => curl'.auth = Authentication'
BY KeptParts DEF StageInv, CurlStep, CurlInit

\* A step of an attempt, once the configuration has been accepted.
LEMMA AttemptStep ==
  ASSUME TypeInv, StageInv, Kept, CurlStep, open' = open, call.pc \in SetUp,
         \/ call'.pc \in {"idle", "prompt"}
         \/ /\ call'.pc \in SetUp /\ call'.dsn = call.dsn
            /\ call'.pc \in Checked => dbc'.ver = n
            /\ call'.pc = "finish" => dbc'.types.of = n
  PROVE  StageInv'
<1>1. open' = NoName /\ n # Unset
  BY DEF StageInv, At, Idle, SetUp, Part, n
<1>2. n' = n /\ (curl'.on => curl'.auth = Authentication')
  BY KeptParts, CurlKept
<1>3. call'.pc \in SetUp => call'.dsn \in Dsns /\ Part(dbc', call'.dsn)
  BY KeptParts DEF StageInv, SetUp
<1>4. call'.pc # "configured"
  BY DEF SetUp
<1> QED BY <1>1, <1>2, <1>3, <1>4 DEF StageInv, At, Idle, SetUp, Checked

\* A call that leaves the members, and is over.
LEMMA MembersStep ==
  ASSUME TypeInv, StageInv, Kept, CurlStep, open' = open,
         dbc'.ver = dbc.ver, dbc'.types = dbc.types, dbc'.dsn = dbc.dsn,
         call'.pc = "idle"
  PROVE  StageInv'
<1>1. n' = n /\ (curl'.on => curl'.auth = Authentication')
  BY KeptParts, CurlKept
<1>2. open # NoName => Part(dbc', open')
  BY KeptParts DEF StageInv
<1> QED BY <1>1, <1>2 DEF StageInv, At, Idle, SetUp, Checked

\* Kept by what posts a diagnostic, or makes a request.
LEMMA PostKeeps ==
  ASSUME dbc \in DbcStates,
         \E diag \in {"none", "info", "error"} : dbc' = [dbc EXCEPT !.diag = diag]
  PROVE  Kept /\ dbc'.ver = dbc.ver /\ dbc'.types = dbc.types /\ dbc'.dsn = dbc.dsn
BY DEF DbcStates, Kept

LEMMA RequestKeeps ==
  ASSUME TypeInv, Answered \/ Unanswered
  PROVE  /\ Kept /\ dbc'.ver = dbc.ver /\ dbc'.types = dbc.types
         /\ dbc'.dsn = dbc.dsn /\ CurlStep
<1>1. dbc \in DbcStates /\ curl \in CurlType
  BY DEF TypeInv, TypeOK, CurlType
<1> QED BY <1>1, RequestType, PostKeeps DEF CurlStep

LEMMA StageInductive == TypeInv /\ StageInv /\ [Next]_vars => StageInv'
<1> SUFFICES ASSUME TypeInv, StageInv, [Next]_vars PROVE StageInv'
  OBVIOUS
<1>a. /\ dbc \in DbcStates /\ curl \in CurlType /\ call \in CallType
      /\ last.value \in Values
  BY DEF TypeInv, TypeOK, CurlType, CallType, Values
<1>b. ~NoCurl.on /\ NoCall.pc = "idle"
  BY DEF NoCurl, NoCall
<1>c. UNCHANGED dbc => Kept
  BY DEF Kept
<1>d. UNCHANGED curl => CurlStep
  BY DEF CurlStep
<1>e. curl' = NoCurl => CurlStep
  BY <1>b DEF CurlStep
<1>f. ASSUME NEW state \in {"none", "info", "error"}, Post(state)
      PROVE  Kept /\ dbc'.ver = dbc.ver /\ dbc'.types = dbc.types /\ dbc'.dsn = dbc.dsn
  BY <1>a, <1>f, PostKeeps DEF Post
<1>1. CASE DriverConnect
  <2>1. /\ UNCHANGED <<dbc, curl, open>> /\ open = NoName
        /\ call'.pc \in {"config", "prompt"}
    BY <1>1 DEF DriverConnect, NoCall
  <2>2. n' = n /\ (curl'.on => curl'.auth = Authentication')
    BY <1>c, <1>d, <2>1, KeptParts, CurlKept
  <2> QED BY <2>1, <2>2 DEF StageInv, At, Idle, SetUp, Checked
<1>2. CASE DriverConnectRefused
  <2>1. Post("error") /\ Returns("connect", "ERROR") /\ UNCHANGED <<curl, open>>
    BY <1>2 DEF DriverConnectRefused
  <2>2. call'.pc = "idle"
    BY <1>b, <2>1 DEF Returns
  <2> QED BY <1>d, <1>f, <2>1, <2>2, MembersStep
<1>3. CASE Prompt
  <2>1. UNCHANGED <<curl, open>> /\ (UNCHANGED dbc \/ Post("error"))
    BY <1>3 DEF Prompt
  <2>2. Kept /\ dbc'.ver = dbc.ver /\ dbc'.types = dbc.types /\ dbc'.dsn = dbc.dsn
    BY <1>c, <1>f, <2>1
  <2>3. CASE call' = NoCall
    BY <1>b, <1>d, <2>1, <2>2, <2>3, MembersStep
  <2>4. CASE call' # NoCall
    <3>1. call'.pc = "config" /\ open = NoName
      BY <1>a, <1>3, <2>4 DEF Prompt, Returns, CallType, StageInv, At, Idle
    <3>2. n' = n /\ (curl'.on => curl'.auth = Authentication')
      BY <1>d, <2>1, <2>2, KeptParts, CurlKept
    <3> QED BY <2>1, <3>1, <3>2 DEF StageInv, At, Idle, SetUp, Checked
  <2> QED BY <2>3, <2>4
<1>4. CASE Cleanup
  <2>1. /\ call'.pc = "configured" /\ curl' = NoCurl /\ open' = NoName
    BY <1>a, <1>4 DEF Cleanup, Goto, CallType, StageInv, At, Idle
  <2>2. n' # Unset
    <3>1. n \in 0..MaxAttempts
      BY <1>a DEF DbcStates, Attempts, n
    <3>2. CleanupDbc(dbc) \in DbcStates
      BY <1>a, CleanupLeaves DEF TypeInv
    <3>3. dbc'.attempts = n + 1
      BY <1>4, <3>2 DEF Cleanup, DbcStates
    <3> QED BY <3>1, <3>3, ConnectAssumption DEF n, Unset
  <2> QED BY <1>b, <2>1, <2>2 DEF StageInv, At, Idle, SetUp, Checked
<1>5. CASE Configure
  <2>1. PICK r \in ConfigDbc(dbc, call.dsn) :
          /\ dbc' = [r.dbc EXCEPT !.diag = IF r.ok THEN @ ELSE "error"]
          /\ IF r.ok THEN Goto("curl") ELSE AttemptFails
    BY <1>5 DEF Configure
  <2>2. dbc.user = Unset /\ call.dsn \in Dsns /\ Agrees(dbc.catalog)
    BY <1>5 DEF Configure, TypeInv, At
  <2>3. /\ r.dbc \in DbcStates /\ r.ok \in BOOLEAN /\ r.dbc.attempts = n
        /\ r.ok => r.dbc.url = n /\ CredentialsOf(r.dbc, call.dsn, n)
    BY <1>a, <2>2, ConfigSets
  <2>4. /\ dbc'.attempts = n /\ dbc'.url = r.dbc.url
        /\ dbc'.user = r.dbc.user /\ dbc'.key = r.dbc.key
    BY <2>1, <2>3 DEF DbcStates
  <2>5. /\ ~curl'.on /\ open' = NoName /\ n' = n /\ n # Unset
    BY <1>5, <2>4 DEF Configure, StageInv, At, Idle, n
  <2>6. CASE r.ok
    <3>1. call'.pc = "curl" /\ call'.dsn = call.dsn
      BY <1>a, <2>1, <2>6, GotoType DEF Pcs
    <3>2. Part(dbc', call'.dsn)
      BY <2>3, <2>4, <2>5, <2>6, <3>1 DEF Part, CredentialsOf, n
    <3> QED BY <2>2, <2>5, <3>1, <3>2 DEF StageInv, At, Idle, SetUp, Checked
  <2>7. CASE ~r.ok
    <3>1. call'.pc \in {"idle", "prompt"}
      BY <1>a, <2>1, <2>7, FailsType
    <3> QED BY <2>5, <3>1 DEF StageInv, At, Idle, SetUp, Checked
  <2> QED BY <2>6, <2>7
<1>6. CASE InitCurl
  <2>1. call.pc \in SetUp /\ open' = open
    BY <1>6 DEF InitCurl, At, SetUp
  <2>2. CASE curl' = CurlInit /\ Goto("version") /\ UNCHANGED dbc
    BY <1>a, <1>c, <2>1, <2>2, GotoType, AttemptStep DEF Pcs, SetUp, Checked, CurlStep
  <2>3. CASE curl' = NoCurl /\ AttemptFails /\ Post("error")
    BY <1>a, <1>e, <1>f, <2>1, <2>3, FailsType, AttemptStep
  <2> QED BY <1>6, <2>2, <2>3 DEF InitCurl
<1>7. CASE RequestVersion
  <2>1. call.pc \in SetUp /\ open' = open
    BY <1>7 DEF RequestVersion, At, SetUp
  <2>2. CASE Post("none") /\ Goto("check") /\ UNCHANGED curl
    BY <1>a, <1>d, <1>f, <2>1, <2>2, GotoType, AttemptStep DEF Pcs, SetUp, Checked
  <2>3. CASE curl' = NoCurl /\ AttemptFails /\ Post("error")
    BY <1>a, <1>e, <1>f, <2>1, <2>3, FailsType, AttemptStep
  <2> QED BY <1>7, <2>2, <2>3 DEF RequestVersion
<1>8. CASE CheckVersion
  <2>1. call.pc \in SetUp /\ UNCHANGED <<curl, open>>
    BY <1>8 DEF CheckVersion, At, SetUp
  <2>2. Kept
    BY <1>a, <1>8 DEF CheckVersion, DbcStates, Kept
  <2>3. CASE AttemptFails
    BY <1>a, <1>d, <2>1, <2>2, <2>3, FailsType, AttemptStep
  <2>4. CASE ~AttemptFails
    <3>1. dbc' = [dbc EXCEPT !.ver = n, !.diag = "none"] /\ Goto("arrays")
      BY <1>8, <2>4 DEF CheckVersion
    <3>2. dbc'.ver = n
      BY <1>a, <3>1 DEF DbcStates
    <3> QED BY <1>a, <1>d, <2>1, <2>2, <3>1, <3>2, GotoType, AttemptStep
            DEF Pcs, SetUp, Checked
  <2> QED BY <2>3, <2>4
<1>9. CASE LoadArrays
  <2>1. call.pc \in Checked /\ call.pc \in SetUp /\ UNCHANGED <<curl, open>>
        /\ dbc.ver = n
    BY <1>9 DEF LoadArrays, At, SetUp, Checked, StageInv
  <2>2. CASE Goto("stmt") /\ UNCHANGED dbc
    BY <1>a, <1>c, <1>d, <2>1, <2>2, GotoType, AttemptStep DEF Pcs, SetUp, Checked
  <2>3. CASE AttemptFails /\ Post("error")
    BY <1>a, <1>d, <1>f, <2>1, <2>3, FailsType, AttemptStep
  <2> QED BY <1>9, <2>2, <2>3 DEF LoadArrays
<1>10. CASE LoadStmt
  <2>1. call.pc \in Checked /\ call.pc \in SetUp /\ UNCHANGED <<curl, open>>
        /\ dbc.ver = n
    BY <1>10 DEF LoadStmt, At, SetUp, Checked, StageInv
  <2>2. CASE Goto("query") /\ UNCHANGED dbc
    BY <1>a, <1>c, <1>d, <2>1, <2>2, GotoType, AttemptStep DEF Pcs, SetUp, Checked
  <2>3. CASE AttemptFails /\ Post("error")
    BY <1>a, <1>d, <1>f, <2>1, <2>3, FailsType, AttemptStep
  <2> QED BY <1>10, <2>2, <2>3 DEF LoadStmt
<1>11. CASE LoadQuery
  <2>1. call.pc \in SetUp /\ open' = open /\ dbc.ver = n
    BY <1>11 DEF LoadQuery, At, SetUp, Checked, StageInv
  <2>2. Answered \/ Unanswered
    BY <1>11 DEF LoadQuery
  <2>3. call'.pc \in {"fetch", "end"} /\ call'.dsn = call.dsn
    BY <1>a, <1>11 DEF LoadQuery, Goto, LoadGoto, CallType
  <2>4. Kept /\ CurlStep /\ dbc'.ver = n
    BY <2>1, <2>2, RequestKeeps
  <2> QED BY <2>1, <2>3, <2>4, AttemptStep DEF SetUp, Checked
<1>12. CASE FetchPage
  <2>1. call.pc \in SetUp /\ open' = open /\ dbc.ver = n
    BY <1>12 DEF FetchPage, At, SetUp, Checked, StageInv
  <2>2. Answered \/ Unanswered
    BY <1>12 DEF FetchPage
  <2>3. call'.pc \in {"fetch", "end"} /\ call'.dsn = call.dsn
    BY <1>a, <1>12 DEF FetchPage, Goto, LoadGoto, CallType
  <2>4. Kept /\ CurlStep /\ dbc'.ver = n
    BY <2>1, <2>2, RequestKeeps
  <2> QED BY <2>1, <2>3, <2>4, AttemptStep DEF SetUp, Checked
<1>13. CASE FetchEnd
  <2>1. call.pc \in SetUp /\ UNCHANGED <<dbc, curl, open>> /\ dbc.ver = n
    BY <1>13 DEF FetchEnd, At, SetUp, Checked, StageInv
  <2>2. call'.pc \in {"end", "copy"} /\ call'.dsn = call.dsn
    BY <1>a, <1>13 DEF FetchEnd, Goto, LoadGoto, CallType
  <2> QED BY <1>c, <1>d, <2>1, <2>2, AttemptStep DEF SetUp, Checked
<1>14. CASE CopyTypes
  <2>1. call.pc \in SetUp /\ UNCHANGED <<dbc, curl, open>> /\ dbc.ver = n
    BY <1>14 DEF CopyTypes, At, SetUp, Checked, StageInv
  <2>2. call'.pc \in {"end"} /\ call'.dsn = call.dsn
    BY <1>a, <1>14 DEF CopyTypes, Goto, LoadGoto, CallType
  <2> QED BY <1>c, <1>d, <2>1, <2>2, AttemptStep DEF SetUp, Checked
<1>15. CASE LoadEnd
  <2>1. call.pc \in Checked /\ call.pc \in SetUp /\ UNCHANGED <<curl, open>>
        /\ dbc.ver = n
    BY <1>15 DEF LoadEnd, At, SetUp, Checked, StageInv
  <2>2. CASE Goto("attach") /\ UNCHANGED dbc
    BY <1>a, <1>c, <1>d, <2>1, <2>2, GotoType, AttemptStep DEF Pcs, SetUp, Checked
  <2>3. CASE AttemptFails /\ Post("error")
    BY <1>a, <1>d, <1>f, <2>1, <2>3, FailsType, AttemptStep
  <2> QED BY <1>15, <2>2, <2>3 DEF LoadEnd
<1>16. CASE AttachTypes
  <2>1. PICK max \in IF dbc.max_type = Unset THEN {n} ELSE {n, dbc.max_type} :
          dbc' = [dbc EXCEPT !.types = [of |-> n, rows |-> call.load.got],
                             !.max_type = max]
    BY <1>16 DEF AttachTypes
  <2>2. Kept /\ dbc'.types.of = n /\ dbc'.ver = dbc.ver
    BY <1>a, <2>1 DEF DbcStates, Kept
  <2>3. call.pc \in SetUp /\ UNCHANGED <<curl, open>> /\ dbc.ver = n
        /\ Goto("finish")
    BY <1>16 DEF AttachTypes, At, SetUp, Checked, StageInv
  <2>4. call'.pc = "finish" /\ call'.dsn = call.dsn
    BY <1>a, <2>3, GotoType DEF Pcs
  <2> QED BY <1>d, <2>2, <2>3, <2>4, AttemptStep DEF SetUp, Checked
<1>17. CASE Finish
  <2>1. /\ call.pc = "finish" /\ call.dsn \in Dsns /\ Part(dbc, call.dsn)
        /\ dbc.ver = n /\ dbc.types.of = n /\ open = NoName /\ UNCHANGED curl
    BY <1>17 DEF Finish, At, Idle, SetUp, Checked, StageInv
  <2>2. CASE Returns("connect", "ERROR") /\ UNCHANGED open
             /\ \E dsn \in {Unset, n} :
                  dbc' = [dbc EXCEPT !.dsn = dsn, !.diag = "error"]
    <3>1. Kept /\ call'.pc = "idle"
      BY <1>a, <1>b, <2>2 DEF DbcStates, Kept, Returns
    <3> QED BY <1>d, <2>1, <2>2, <3>1, AttemptStep DEF SetUp
  <2>3. CASE dbc' = [dbc EXCEPT !.dsn = n] /\ Returns("connect", "SUCCESS")
             /\ open' = call.dsn
    <3>1. /\ Kept /\ dbc'.ver = n /\ dbc'.types.of = n /\ dbc'.dsn = n
          /\ call'.pc = "idle"
      BY <1>a, <1>b, <2>1, <2>3 DEF DbcStates, Kept, Returns
    <3>2. n' = n /\ (curl'.on => curl'.auth = Authentication') /\ Part(dbc', open')
      BY <1>d, <2>1, <2>3, <3>1, KeptParts, CurlKept
    <3> QED BY <3>1, <3>2 DEF StageInv, At, Idle, SetUp, Checked
  <2> QED BY <1>17, <2>2, <2>3 DEF Finish
<1>18. CASE Disconnect
  <2>1. ~curl'.on /\ open' = NoName /\ call'.pc = "idle"
    BY <1>b, <1>18 DEF Disconnect, Returns
  <2> QED BY <2>1 DEF StageInv, At, Idle, SetUp, Checked
<1>19. CASE SetTimeout
  <2>1. /\ Kept /\ dbc'.ver = dbc.ver /\ dbc'.types = dbc.types
        /\ dbc'.dsn = dbc.dsn
    BY <1>a, <1>19 DEF SetTimeout, Post, DbcStates, Kept
  <2>2. call'.pc = "idle" /\ UNCHANGED <<curl, open>>
    BY <1>b, <1>19 DEF SetTimeout, Returns
  <2> QED BY <1>d, <2>1, <2>2, MembersStep
<1>20. CASE SetCatalog
  <2>1. /\ Kept /\ dbc'.ver = dbc.ver /\ dbc'.types = dbc.types
        /\ dbc'.dsn = dbc.dsn
    BY <1>a, <1>20 DEF SetCatalog, Post, DbcStates, Kept
  <2>2. call'.pc = "idle" /\ UNCHANGED <<curl, open>>
    BY <1>b, <1>20 DEF SetCatalog, Returns
  <2> QED BY <1>d, <2>1, <2>2, MembersStep
<1>21. CASE GetCatalog
  <2>1. \/ UNCHANGED <<dbc, curl>>
        \/ Post("error") /\ UNCHANGED curl
        \/ Answered \/ Unanswered
    BY <1>21 DEF GetCatalog
  <2>2. /\ Kept /\ dbc'.ver = dbc.ver /\ dbc'.types = dbc.types
        /\ dbc'.dsn = dbc.dsn /\ CurlStep
    BY <1>c, <1>d, <1>f, <2>1, RequestKeeps
  <2>3. call'.pc = "idle" /\ UNCHANGED open
    BY <1>b, <1>21 DEF GetCatalog, ReturnsValue
  <2> QED BY <2>2, <2>3, MembersStep
<1>22. CASE StatementRequest
  <2>1. (Answered \/ Unanswered) /\ call'.pc = "idle" /\ UNCHANGED open
    BY <1>22 DEF StatementRequest, At, Idle
  <2> QED BY <2>1, RequestKeeps, MembersStep
<1>23. CASE UNCHANGED vars
  <2>1. UNCHANGED <<dbc, curl, open, call>>
    BY <1>23 DEF vars
  <2>2. n' = n /\ (curl'.on => curl'.auth = Authentication')
        /\ \A dsn : Part(dbc', dsn) <=> Part(dbc, dsn)
    BY <1>c, <1>d, <2>1, KeptParts, CurlKept
  <2> QED BY <2>1, <2>2 DEF StageInv, At, Idle, SetUp, Checked
<1> QED
  BY <1>1, <1>2, <1>3, <1>4, <1>5, <1>6, <1>7, <1>8, <1>9, <1>10, <1>11,
     <1>12, <1>13, <1>14, <1>15, <1>16, <1>17, <1>18, <1>19, <1>20, <1>21, <1>22, <1>23
  DEF Next, Connecting

LEMMA StageInitial == Init => StageInv
<1> SUFFICES ASSUME Init PROVE StageInv
  OBVIOUS
<1>1. /\ ~curl.on /\ open = NoName /\ call.pc = "idle"
  BY DEF Init, NoCurl, NoCall
<1> QED BY <1>1 DEF StageInv, At, SetUp, Checked

\* do_connect() leaves of an earlier attempt, whichever of its steps failed,
\* nothing in a connection that opens (connect.c:2053, 1659): the members and
\* the credentials that libcurl sends are those of the last attempt, but for a
\* data source without credentials, which may be sent an earlier one's API key.
THEOREM OneConnection == Spec => []OneAttempt
BY TypeInitial, TypeInductive, StageInitial, StageInductive, StageImplies, PTL
DEF Spec

-----------------------------------------------------------------------------
(* What connecting allocates for itself.                                   *)

\* What may be allocated while a step is to be taken.
Scratch(pc) ==
  CASE pc = "check" -> {"reply"}
    [] pc = "stmt" -> {"arrays"}
    [] pc \in {"query", "fetch", "copy", "end"} -> FreedOnFailure
    [] pc = "attach" -> {"types", "arrays"}
    [] OTHER -> {}

HeapInv == heap \subseteq Scratch(call.pc)

LEMMA HeapInductive == TypeInv /\ HeapInv /\ [Next]_vars => HeapInv'
<1> SUFFICES ASSUME TypeInv, HeapInv, [Next]_vars PROVE HeapInv'
  OBVIOUS
<1>a. call \in CallType /\ last.value \in Values
  BY DEF TypeInv, TypeOK, CallType, Values
<1>b. NoCall.pc = "idle"
  BY DEF NoCall
<1>c. ASSUME AttemptFails PROVE call'.pc \in {"idle", "prompt"}
  BY <1>a, <1>c, FailsType
<1>d. ASSUME NEW pc \in Pcs, Goto(pc) PROVE call'.pc = pc
  BY <1>a, <1>d, GotoType
<1>1. CASE DriverConnect
  BY <1>a, <1>b, <1>c, <1>d, <1>1 DEF DriverConnect, HeapInv, Scratch, At, Idle, Pcs, NoCall
<1>2. CASE DriverConnectRefused
  BY <1>a, <1>b, <1>c, <1>d, <1>2 DEF DriverConnectRefused, HeapInv, Scratch, At, Idle, Pcs, Returns
<1>3. CASE Prompt
  BY <1>a, <1>b, <1>c, <1>d, <1>3 DEF Prompt, HeapInv, Scratch, At, Idle, Pcs, Returns, CallType
<1>4. CASE Cleanup
  BY <1>a, <1>b, <1>c, <1>d, <1>4 DEF Cleanup, HeapInv, Scratch, At, Idle, Pcs
<1>5. CASE Configure
  BY <1>a, <1>b, <1>c, <1>d, <1>5 DEF Configure, HeapInv, Scratch, At, Idle, Pcs
<1>6. CASE InitCurl
  BY <1>a, <1>b, <1>c, <1>d, <1>6 DEF InitCurl, HeapInv, Scratch, At, Idle, Pcs
<1>7. CASE RequestVersion
  BY <1>a, <1>b, <1>c, <1>d, <1>7 DEF RequestVersion, HeapInv, Scratch, At, Idle, Pcs
<1>8. CASE CheckVersion
  BY <1>a, <1>b, <1>c, <1>d, <1>8 DEF CheckVersion, HeapInv, Scratch, At, Idle, Pcs
<1>9. CASE LoadArrays
  BY <1>a, <1>b, <1>c, <1>d, <1>9 DEF LoadArrays, HeapInv, Scratch, At, Idle, Pcs
<1>10. CASE LoadStmt
  BY <1>a, <1>b, <1>c, <1>d, <1>10 DEF LoadStmt, HeapInv, Scratch, At, Idle, Pcs, FreedOnFailure
<1>11. CASE LoadQuery
  BY <1>a, <1>b, <1>c, <1>d, <1>11 DEF LoadQuery, HeapInv, Scratch, At, Idle, Pcs, LoadGoto, CallType, FreedOnFailure
<1>12. CASE FetchPage
  BY <1>a, <1>b, <1>c, <1>d, <1>12 DEF FetchPage, HeapInv, Scratch, At, Idle, Pcs, LoadGoto, CallType, FreedOnFailure
<1>13. CASE FetchEnd
  BY <1>a, <1>b, <1>c, <1>d, <1>13 DEF FetchEnd, HeapInv, Scratch, At, Idle, Pcs, FreedOnFailure
<1>14. CASE CopyTypes
  BY <1>a, <1>b, <1>c, <1>d, <1>14 DEF CopyTypes, HeapInv, Scratch, At, Idle, Pcs, LoadGoto, CallType, FreedOnFailure
<1>15. CASE LoadEnd
  BY <1>a, <1>b, <1>c, <1>d, <1>15 DEF LoadEnd, HeapInv, Scratch, At, Idle, Pcs, FreedOnFailure
<1>16. CASE AttachTypes
  BY <1>a, <1>b, <1>c, <1>d, <1>16 DEF AttachTypes, HeapInv, Scratch, At, Idle, Pcs
<1>17. CASE Finish
  BY <1>a, <1>b, <1>c, <1>d, <1>17 DEF Finish, HeapInv, Scratch, At, Idle, Pcs, Returns
<1>18. CASE Disconnect
  BY <1>a, <1>b, <1>c, <1>d, <1>18 DEF Disconnect, HeapInv, Scratch, At, Idle, Pcs, Returns
<1>19. CASE SetTimeout
  BY <1>a, <1>b, <1>c, <1>d, <1>19 DEF SetTimeout, HeapInv, Scratch, At, Idle, Pcs, Returns
<1>20. CASE SetCatalog
  BY <1>a, <1>b, <1>c, <1>d, <1>20 DEF SetCatalog, HeapInv, Scratch, At, Idle, Pcs, Returns
<1>21. CASE GetCatalog
  BY <1>a, <1>b, <1>c, <1>d, <1>21 DEF GetCatalog, HeapInv, Scratch, At, Idle, Pcs, ReturnsValue
<1>22. CASE StatementRequest
  BY <1>a, <1>b, <1>c, <1>d, <1>22 DEF StatementRequest, HeapInv, Scratch, At, Idle, Pcs
<1>23. CASE UNCHANGED vars
  BY <1>23 DEF vars, HeapInv
<1> QED
  BY <1>1, <1>2, <1>3, <1>4, <1>5, <1>6, <1>7, <1>8, <1>9, <1>10, <1>11,
     <1>12, <1>13, <1>14, <1>15, <1>16, <1>17, <1>18, <1>19, <1>20, <1>21, <1>22, <1>23
  DEF Next, Connecting

\* load_es_types() and check_server_version() free what they allocate at
\* whichever step they fail (connect.c:3059, 2028).
THEOREM NothingLeft == Spec => []ScratchFreed
<1>1. Init => HeapInv
  BY DEF Init, HeapInv
<1>2. HeapInv => ScratchFreed
  BY DEF HeapInv, ScratchFreed, Scratch, Idle, At
<1> QED BY TypeInitial, TypeInductive, HeapInductive, <1>1, <1>2, PTL DEF Spec

-----------------------------------------------------------------------------
(* The types.                                                              *)

All(rows) == rows = Min2(srv, MaxNoTypes) /\ 1 <= srv

LoadInv ==
  /\ call.load.ok => call.pc \in {"end", "attach", "finish"}
  /\ call.pc \in {"attach", "finish"} => call.load.ok
  /\ At("fetch") => 1 <= call.load.got /\ call.load.got <= srv
  /\ At("copy") \/ call.load.ok => All(call.load.got)
  /\ At("finish") => dbc.types.rows = call.load.got
  /\ open # NoName => All(dbc.types.rows)

\* A step that leaves the connection closed, and no load under way.
LEMMA NoLoadStep ==
  ASSUME open' = NoName, ~call'.load.ok,
         call'.pc \notin {"fetch", "copy", "attach", "finish"}
  PROVE  LoadInv'
BY DEF LoadInv, At

\* A step that leaves the types, and no load under way.
LEMMA TypesStep ==
  ASSUME LoadInv, open' = open, srv' = srv, dbc'.types = dbc.types,
         ~call'.load.ok, call'.pc \notin {"fetch", "copy", "attach", "finish"}
  PROVE  LoadInv'
BY DEF LoadInv, At, All

LEMMA LoadInductive == TypeInv /\ StageInv /\ LoadInv /\ [Next]_vars => LoadInv'
<1> SUFFICES ASSUME TypeInv, StageInv, LoadInv, [Next]_vars PROVE LoadInv'
  OBVIOUS
<1>a. /\ dbc \in DbcStates /\ curl \in CurlType /\ call \in CallType
      /\ last.value \in Values /\ srv \in Nat
      /\ MaxNoTypes \in Nat \ {0} /\ MaxTypes \in Nat
  BY ConnectAssumption DEF TypeInv, TypeOK, CurlType, CallType, Values
<1>b. NoCall.pc = "idle" /\ ~NoCall.load.ok
  BY DEF NoCall, NoLoad
<1>c. ASSUME AttemptFails PROVE call'.pc \in {"idle", "prompt"} /\ ~call'.load.ok
  BY <1>a, <1>c, FailsType
<1>d. ASSUME NEW pc \in Pcs, Goto(pc) PROVE call'.pc = pc /\ call'.load = call.load
  BY <1>a, <1>d, GotoType
<1>e. ~Idle => open = NoName
  BY DEF StageInv
<1>f. ASSUME NEW state \in {"none", "info", "error"}, Post(state)
      PROVE  dbc'.types = dbc.types
  BY <1>a, <1>f, PostKeeps DEF Post
<1>1. CASE DriverConnect
  <2>1. open' = NoName /\ ~call'.load.ok /\ call'.pc \in {"config", "prompt"}
    BY <1>b, <1>1 DEF DriverConnect, NoCall
  <2> QED BY <2>1, NoLoadStep
<1>2. CASE DriverConnectRefused
  <2>1. open' = NoName /\ call' = NoCall
    BY <1>2 DEF DriverConnectRefused, Returns
  <2> QED BY <1>b, <2>1, NoLoadStep
<1>3. CASE Prompt
  <2>1. open' = NoName /\ ~call.load.ok
    BY <1>e, <1>3 DEF Prompt, At, Idle, LoadInv
  <2>2. ~call'.load.ok /\ call'.pc \in {"idle", "config"}
    BY <1>a, <1>b, <1>3, <2>1 DEF Prompt, Returns, CallType
  <2> QED BY <2>1, <2>2, NoLoadStep
<1>4. CASE Cleanup
  <2>1. open' = NoName /\ ~Idle /\ ~call.load.ok
    BY <1>e, <1>4 DEF Cleanup, At, Idle, LoadInv
  <2>2. ~call'.load.ok /\ call'.pc \notin {"fetch", "copy", "attach", "finish"}
    BY <1>c, <1>d, <1>4, <2>1 DEF Cleanup, Pcs
  <2> QED BY <2>1, <2>2, NoLoadStep
<1>5. CASE Configure
  <2>1. open' = NoName /\ ~Idle /\ ~call.load.ok
    BY <1>e, <1>5 DEF Configure, At, Idle, LoadInv
  <2>2. ~call'.load.ok /\ call'.pc \notin {"fetch", "copy", "attach", "finish"}
    BY <1>c, <1>d, <1>5, <2>1 DEF Configure, Pcs
  <2> QED BY <2>1, <2>2, NoLoadStep
<1>6. CASE InitCurl
  <2>1. open' = NoName /\ ~Idle /\ ~call.load.ok
    BY <1>e, <1>6 DEF InitCurl, At, Idle, LoadInv
  <2>2. ~call'.load.ok /\ call'.pc \notin {"fetch", "copy", "attach", "finish"}
    BY <1>c, <1>d, <1>6, <2>1 DEF InitCurl, Pcs
  <2> QED BY <2>1, <2>2, NoLoadStep
<1>7. CASE RequestVersion
  <2>1. open' = NoName /\ ~Idle /\ ~call.load.ok
    BY <1>e, <1>7 DEF RequestVersion, At, Idle, LoadInv
  <2>2. ~call'.load.ok /\ call'.pc \notin {"fetch", "copy", "attach", "finish"}
    BY <1>c, <1>d, <1>7, <2>1 DEF RequestVersion, Pcs
  <2> QED BY <2>1, <2>2, NoLoadStep
<1>8. CASE CheckVersion
  <2>1. open' = NoName /\ ~Idle /\ ~call.load.ok
    BY <1>e, <1>8 DEF CheckVersion, At, Idle, LoadInv
  <2>2. ~call'.load.ok /\ call'.pc \notin {"fetch", "copy", "attach", "finish"}
    BY <1>c, <1>d, <1>8, <2>1 DEF CheckVersion, Pcs
  <2> QED BY <2>1, <2>2, NoLoadStep
<1>9. CASE LoadArrays
  <2>1. open' = NoName /\ ~Idle /\ ~call.load.ok
    BY <1>e, <1>9 DEF LoadArrays, At, Idle, LoadInv
  <2>2. ~call'.load.ok /\ call'.pc \notin {"fetch", "copy", "attach", "finish"}
    BY <1>c, <1>d, <1>9, <2>1 DEF LoadArrays, Pcs
  <2> QED BY <2>1, <2>2, NoLoadStep
<1>10. CASE LoadStmt
  <2>1. open' = NoName /\ ~Idle /\ ~call.load.ok
    BY <1>e, <1>10 DEF LoadStmt, At, Idle, LoadInv
  <2>2. ~call'.load.ok /\ call'.pc \notin {"fetch", "copy", "attach", "finish"}
    BY <1>c, <1>d, <1>10, <2>1 DEF LoadStmt, Pcs
  <2> QED BY <2>1, <2>2, NoLoadStep
<1>11. CASE LoadQuery
  <2>1. open' = NoName /\ ~call.load.ok
    BY <1>e, <1>11 DEF LoadQuery, At, Idle, LoadInv
  <2>2. CASE Goto("end")
    BY <1>d, <2>1, <2>2, NoLoadStep DEF Pcs
  <2>3. CASE ~Goto("end")
    <3>1. PICK first \in 1..srv' :
            /\ ~Refused(first) /\ srv' \in 0..MaxTypes
            /\ LoadGoto("fetch", [NoLoad EXCEPT !.got = first])
      BY <1>11, <2>3 DEF LoadQuery
    <3>2. call'.pc = "fetch" /\ call'.load.got = first /\ ~call'.load.ok
      BY <1>a, <3>1 DEF LoadGoto, NoLoad, CallType
    <3> QED BY <2>1, <3>1, <3>2 DEF LoadInv, At
  <2> QED BY <2>2, <2>3
<1>12. CASE FetchPage
  <2>1. open' = NoName /\ ~call.load.ok /\ srv' = srv /\ Turns(call.load.got)
    BY <1>e, <1>12 DEF FetchPage, At, Idle, LoadInv
  <2>2. CASE Goto("end")
    BY <1>d, <2>1, <2>2, NoLoadStep DEF Pcs
  <2>3. CASE ~Goto("end")
    <3>1. PICK page \in 1..(srv - call.load.got) :
            LoadGoto("fetch", [call.load EXCEPT !.got = Taken(@, page)])
      BY <1>12, <2>3 DEF FetchPage
    <3>2. /\ call'.pc = "fetch" /\ ~call'.load.ok
          /\ call'.load.got = Taken(call.load.got, page)
      BY <1>a, <2>1, <3>1 DEF LoadGoto, CallType
    <3>3. call.load.got \in 0..MaxNoTypes
      BY <1>a DEF CallType
    <3>4. 1 <= call'.load.got /\ call'.load.got <= srv
      BY <1>a, <2>1, <3>1, <3>2, <3>3 DEF Turns, Taken, Min2
    <3> QED BY <2>1, <3>2, <3>4 DEF LoadInv, At
  <2> QED BY <2>2, <2>3
<1>13. CASE FetchEnd
  <2>1. /\ open' = NoName /\ ~call.load.ok /\ srv' = srv /\ ~Turns(call.load.got)
        /\ 1 <= call.load.got /\ call.load.got <= srv
    BY <1>e, <1>13 DEF FetchEnd, At, Idle, LoadInv
  <2>2. CASE Goto("end")
    BY <1>d, <2>1, <2>2, NoLoadStep DEF Pcs
  <2>3. CASE Goto("copy")
    <3>1. call'.pc = "copy" /\ call'.load = call.load
      BY <1>d, <2>3 DEF Pcs
    <3>2. call.load.got \in 0..MaxNoTypes
      BY <1>a DEF CallType
    <3>3. All(call.load.got)
      BY <1>a, <2>1, <3>2 DEF All, Turns, Min2
    <3> QED BY <2>1, <3>1, <3>3 DEF LoadInv, At, All
  <2> QED BY <1>13, <2>2, <2>3 DEF FetchEnd
<1>14. CASE CopyTypes
  <2>1. open' = NoName /\ srv' = srv /\ All(call.load.got)
    BY <1>e, <1>14 DEF CopyTypes, At, Idle, LoadInv
  <2>2. call'.pc = "end" /\ call'.load.got = call.load.got
    BY <1>a, <1>14 DEF CopyTypes, LoadGoto, CallType
  <2> QED BY <2>1, <2>2 DEF LoadInv, At, All
<1>15. CASE LoadEnd
  <2>1. open' = NoName /\ srv' = srv
    BY <1>e, <1>15 DEF LoadEnd, At, Idle
  <2>2. CASE call.load.ok
    <3>1. call'.pc = "attach" /\ call'.load = call.load
      BY <1>d, <1>15, <2>2 DEF LoadEnd, Pcs
    <3> QED BY <2>1, <2>2, <3>1 DEF LoadInv, At, All
  <2>3. CASE ~call.load.ok
    BY <1>c, <1>15, <2>1, <2>3, NoLoadStep DEF LoadEnd
  <2> QED BY <2>2, <2>3
<1>16. CASE AttachTypes
  <2>1. /\ open' = NoName /\ srv' = srv /\ call.load.ok
        /\ call'.pc = "finish" /\ call'.load = call.load
    BY <1>d, <1>e, <1>16 DEF AttachTypes, At, Idle, LoadInv, Pcs
  <2>2. dbc'.types.rows = call.load.got
    BY <1>a, <1>16 DEF AttachTypes, DbcStates
  <2> QED BY <2>1, <2>2 DEF LoadInv, At, All
<1>17. CASE Finish
  <2>1. /\ call' = NoCall /\ srv' = srv /\ open = NoName
        /\ dbc.types.rows = call.load.got /\ call.load.ok
    BY <1>e, <1>17 DEF Finish, At, Idle, LoadInv, Returns
  <2>2. dbc'.types = dbc.types
    BY <1>a, <1>17 DEF Finish, DbcStates
  <2> QED BY <1>b, <2>1, <2>2 DEF LoadInv, At, All
<1>18. CASE Disconnect
  <2>1. open' = NoName /\ call' = NoCall
    BY <1>18 DEF Disconnect, Returns
  <2> QED BY <1>b, <2>1, NoLoadStep
<1>19. CASE SetTimeout
  <2>1. dbc'.types = dbc.types
    BY <1>a, <1>19 DEF SetTimeout, Post, DbcStates
  <2>2. UNCHANGED <<srv, open>> /\ call' = NoCall
    BY <1>19 DEF SetTimeout, Returns
  <2> QED BY <1>b, <2>1, <2>2, TypesStep
<1>20. CASE SetCatalog
  <2>1. dbc'.types = dbc.types
    BY <1>a, <1>20 DEF SetCatalog, Post, DbcStates
  <2>2. UNCHANGED <<srv, open>> /\ call' = NoCall
    BY <1>20 DEF SetCatalog, Returns
  <2> QED BY <1>b, <2>1, <2>2, TypesStep
<1>21. CASE GetCatalog
  <2>1. \/ UNCHANGED dbc \/ Post("error") \/ Answered \/ Unanswered
    BY <1>21 DEF GetCatalog
  <2>2. dbc'.types = dbc.types
    BY <1>f, <2>1, RequestKeeps
  <2>3. UNCHANGED <<srv, open>> /\ call' = NoCall
    BY <1>21 DEF GetCatalog, ReturnsValue
  <2> QED BY <1>b, <2>2, <2>3, TypesStep
<1>22. CASE StatementRequest
  <2>1. (Answered \/ Unanswered) /\ UNCHANGED <<srv, open, call>> /\ Idle
    BY <1>22 DEF StatementRequest
  <2>2. ~call.load.ok /\ call.pc = "idle"
    BY <2>1 DEF LoadInv, Idle, At
  <2> QED BY <2>1, <2>2, RequestKeeps, TypesStep
<1>23. CASE UNCHANGED vars
  BY <1>23 DEF vars, LoadInv, At, All
<1> QED
  BY <1>1, <1>2, <1>3, <1>4, <1>5, <1>6, <1>7, <1>8, <1>9, <1>10, <1>11,
     <1>12, <1>13, <1>14, <1>15, <1>16, <1>17, <1>18, <1>19, <1>20, <1>21, <1>22, <1>23
  DEF Next, Connecting

\* load_es_types() has the types of all pages that the server answers with, up to
\* the size of its row set, or fails (connect.c:2993).  Where a server has more
\* types than ESODBC_MAX_NO_TYPES the rest is dropped and the connection opens.
THEOREM TypesLoaded == Spec => []TypesAreAll
<1>1. Init => LoadInv
  BY DEF Init, LoadInv, NoCall, NoLoad, At
<1>2. TypeInv /\ LoadInv => TypesAreAll
  <2> SUFFICES ASSUME TypeInv, LoadInv, open # NoName, srv <= MaxNoTypes
               PROVE  dbc.types.rows = srv /\ srv > 0
    BY DEF TypesAreAll
  <2>1. srv \in Nat /\ MaxNoTypes \in Nat
    BY ConnectAssumption DEF TypeInv, TypeOK
  <2> QED BY <2>1 DEF LoadInv, All, Min2
<1> QED BY TypeInitial, TypeInductive, StageInitial, StageInductive,
           LoadInductive, <1>1, <1>2, PTL DEF Spec

=============================================================================
