----------------------------- MODULE EsHandles -----------------------------
(***************************************************************************)
(* The handles of one connection under calls of several threads: which     *)
(* mutex a call takes (src/driver/odbc.c), which descriptor it then works  *)
(* on, and what allocating, associating and freeing handles does to it     *)
(* (src/driver/handles.c).                                                 *)
(*                                                                         *)
(* A statement and the application row descriptor allocated with it        *)
(* (i_ard) go by one name: as a statement, and as a descriptor.            *)
(***************************************************************************)
CONSTANTS
  Threads,   \* the application's threads
  Dbc,       \* the connection
  Stmts,     \* its statements
  Descs,     \* descriptors that the application allocates
  Bindings,  \* what can be bound in a descriptor's records
  None

Handles == Stmts \cup Descs

ASSUME HandlesAssumption ==
  /\ Stmts \cap Descs = {} /\ Dbc \notin Handles
  /\ None \notin Threads \cup Handles \cup Bindings

VARIABLES
  live,  \* the handles that are allocated
  ard,   \* the row descriptor that each statement uses
  kind,  \* the type of each descriptor that the application allocated
  recs,  \* what is bound in each descriptor
  mux,   \* the thread that has each mutex
  th     \* the call that each thread is in

vars == <<live, ard, kind, recs, mux, th>>

OnStmt == {"fetch", "bind", "setard"}
OnDesc == {"getfield", "setfield"}
Idle == [pc |-> "idle", op |-> "none", h |-> None, on |-> None, saw |-> None]
Asked(op, h) == [pc |-> "wait", op |-> op, h |-> h, on |-> None, saw |-> None]

-----------------------------------------------------------------------------
(* Mutexes.                                                                *)

\* Mutant: every descriptor is initialised with the connection.
HdrDbc(d) == Dbc

\* hdr.stmt of a descriptor: its statement; of one that the application
\* allocates init_desc() makes it the connection.
HdrStmt(d) == IF d \in Stmts THEN d ELSE Dbc

\* The mutex that an entry point takes.
LockOf(op, h) == IF op \in OnDesc THEN HdrStmt(h) ELSE h

\* What the call works on once it has the mutex.
WorksOn(op, h) ==
  CASE op \in {"fetch", "bind"} -> ard[h]
    [] op \in OnDesc -> h
    [] OTHER -> None

\* Mutant: the call returns with the mutex.
Kept(t) == mux

Released(t) == [mux EXCEPT ![LockOf(th[t].op, th[t].h)] = None]

Return(t) == th' = [th EXCEPT ![t] = Idle]

Runs(t, op) == th[t].pc = "run" /\ th[t].op = op

-----------------------------------------------------------------------------
(* Calls.                                                                  *)

Init ==
  /\ live = {}
  /\ ard = [s \in Stmts |-> s]
  /\ kind = [d \in Descs |-> "ANON"]
  /\ recs = [d \in Handles |-> None]
  /\ mux = [h \in Handles \cup {Dbc} |-> None]
  /\ th = [t \in Threads |-> Idle]

\* The calls of other threads that are on a handle, or wait for its mutex.
Waiting(h) == {t \in Threads : th[t].pc = "wait" /\ th[t].h = h}
Freeing(h) == {t \in Threads : th[t].op = "free" /\ th[t].h = h}

\* The application makes a call.  It frees no handle that it has just passed to
\* another call, and uses none that it frees.
Call(t) ==
  /\ th[t].pc = "idle"
  /\ \E op \in OnStmt \cup OnDesc \cup {"diag", "free"} :
     \E h \in live :
       /\ op \in OnStmt => h \in Stmts
       /\ Freeing(h) = {}
       /\ op = "free" => Waiting(h) = {}
       /\ th' = [th EXCEPT ![t] = Asked(op, h)]
  /\ UNCHANGED <<live, ard, kind, recs, mux>>

Holds(t) ==
  LET op == th[t].op
      h == th[t].h
      on == WorksOn(op, h)
  IN  /\ mux' = [mux EXCEPT ![LockOf(op, h)] = t]
      /\ th' = [th EXCEPT ![t].pc = "run", ![t].on = on,
                          ![t].saw = IF on = None THEN None ELSE recs[on]]

\* HND_LOCK().
Lock(t) ==
  /\ th[t].pc = "wait" /\ th[t].op # "free"
  /\ mux[LockOf(th[t].op, th[t].h)] = None
  /\ Holds(t)
  /\ UNCHANGED <<live, ard, kind, recs>>

\* HND_TRYLOCK() of SQLFreeHandle(): a handle in use is not freed.
TryLock(t) ==
  /\ th[t].pc = "wait" /\ th[t].op = "free"
  /\ IF mux[th[t].h] = None THEN Holds(t) ELSE Return(t) /\ UNCHANGED mux
  /\ UNCHANGED <<live, ard, kind, recs>>

\* SQLFetch(), SQLGetDescField(), SQLGetDiagRec() and the like.
Read(t) ==
  /\ \E op \in {"fetch", "getfield", "diag"} : Runs(t, op)
  /\ mux' = Released(t) /\ Return(t)
  /\ UNCHANGED <<live, ard, kind, recs>>

\* check_access(): a descriptor that no statement was given has no fields.
Accessible(d) == d \in live /\ (d \in Descs => kind[d] = "ARD")

\* SQLBindCol(), SQL_UNBIND, SQLSetDescField().  Of a descriptor that was freed
\* meanwhile, or that its statement was left with, nothing is known.
Write(t) ==
  /\ \E op \in {"bind", "setfield"} : Runs(t, op)
  /\ \/ /\ Accessible(th[t].on)
        /\ \E b \in Bindings \cup {None} : recs' = [recs EXCEPT ![th[t].on] = b]
     \/ UNCHANGED recs
  /\ mux' = Released(t) /\ Return(t)
  /\ UNCHANGED <<live, ard, kind>>

\* EsSQLSetStmtAttrW(SQL_ATTR_APP_ROW_DESC): the statement's own descriptor or
\* none; one that the application allocated; or one that is refused.
SetArd(t) ==
  /\ Runs(t, "setard")
  /\ \/ /\ ard' = [ard EXCEPT ![th[t].h] = th[t].h]
        /\ UNCHANGED kind
     \/ \E d \in Descs \cap live :
          /\ ard' = [ard EXCEPT ![th[t].h] = d]
          /\ kind' = [kind EXCEPT ![d] = "ARD"]
     \/ UNCHANGED <<ard, kind>>
  /\ mux' = Released(t) /\ Return(t)
  /\ UNCHANGED <<live, recs>>

-----------------------------------------------------------------------------
(* Allocating and freeing.                                                 *)

\* EsSQLAllocHandle(), which takes no mutex; the memory may be that of a handle
\* which was freed.
AllocStmt(t) ==
  /\ th[t].pc = "idle"
  /\ \E s \in Stmts \ live :
       /\ live' = live \cup {s}
       /\ ard' = [ard EXCEPT ![s] = s]
       /\ recs' = [recs EXCEPT ![s] = None]
  /\ UNCHANGED <<kind, mux, th>>

AllocDesc(t) ==
  /\ th[t].pc = "idle"
  /\ \E d \in Descs \ live :
       /\ live' = live \cup {d}
       /\ kind' = [kind EXCEPT ![d] = "ANON"]
       /\ recs' = [recs EXCEPT ![d] = None]
  /\ UNCHANGED <<ard, mux, th>>

\* EsSQLFreeHandle() of a statement clears the descriptor that it uses, be it
\* its own or not; of a descriptor it clears that.  Statements that use it do
\* not revert to their own.
Cleared(h) == IF h \in Stmts THEN ard[h] ELSE h

FreeHandle(t) ==
  /\ Runs(t, "free")
  /\ live' = live \ {th[t].h}
  /\ recs' = [recs EXCEPT ![Cleared(th[t].h)] = None]
  /\ mux' = Released(t) /\ Return(t)
  /\ UNCHANGED <<ard, kind>>

Next ==
  \E t \in Threads :
    \/ Call(t) \/ Lock(t) \/ TryLock(t)
    \/ Read(t) \/ Write(t) \/ SetArd(t)
    \/ AllocStmt(t) \/ AllocDesc(t) \/ FreeHandle(t)

Spec == Init /\ [][Next]_vars

-----------------------------------------------------------------------------
(* Properties.                                                             *)

Calls ==
  [pc : {"idle", "wait", "run"},
   op : OnStmt \cup OnDesc \cup {"diag", "free", "none"},
   h : Handles \cup {None}, on : Handles \cup {None},
   saw : Bindings \cup {None}]

\* Every part has a value of its kind, and the mutexes (odbc.c) are those of
\* calls that run: none is left behind, and none given to two calls.
TypeOK ==
  /\ live \subseteq Handles
  /\ ard \in [Stmts -> Handles]
  /\ kind \in [Descs -> {"ANON", "ARD"}]
  /\ recs \in [Handles -> Bindings \cup {None}]
  /\ mux \in [Handles \cup {Dbc} -> Threads \cup {None}]
  /\ th \in [Threads -> Calls]
  /\ \A h \in Handles \cup {Dbc}, t \in Threads :
       mux[h] = t <=> th[t].pc = "run" /\ LockOf(th[t].op, th[t].h) = h

\* What a call finds of a statement and of the descriptor allocated with it is
\* there until it returns, whatever other threads do to the statement, to its
\* descriptor by its own handle, and to other statements: bound buffers are not
\* exchanged under a fetch, nor the statement freed (odbc.c:422, 1408).  Of
\* descriptors that the application allocated this is not so: calls on them hold
\* the connection's mutex, calls on statements that use them do not.
FoundStays ==
  \A t \in Threads : th[t].pc = "run" =>
    /\ th[t].h \in Stmts => th[t].h \in live
    /\ th[t].on \in Stmts => recs[th[t].on] = th[t].saw

=============================================================================
