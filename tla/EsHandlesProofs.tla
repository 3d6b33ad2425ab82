-------------------------- MODULE EsHandlesProofs --------------------------
(***************************************************************************)
(* The invariants of EsHandles, for any number of threads, statements and  *)
(* descriptors.                                                            *)
(***************************************************************************)
EXTENDS EsHandles, TLAPS

\* A call is of a kind of handle that it can be made on, and works on what
\* that handle leads to.
CallAgrees(c) ==
  /\ c.pc = "idle" => c = Idle
  /\ c.pc # "idle" => c.h \in Handles /\ c.op # "none"
  /\ c.op \in OnStmt => c.h \in Stmts
  /\ c.pc = "run" /\ c.op \in {"fetch", "bind"} => c.on \in {c.h} \cup Descs
  /\ c.pc = "run" /\ c.op \in OnDesc => c.on = c.h
  /\ c.op \in {"setard", "diag", "free"} => c.on = None

CallsAgree == \A t \in Threads : CallAgrees(th[t])

\* A statement uses its own descriptor or one that the application allocated:
\* never another statement's.
OwnOrGiven == \A s \in Stmts : ard[s] \in {s} \cup Descs

\* A statement that a call waits for is allocated.
WaitsForLive ==
  \A t \in Threads :
    th[t].pc = "wait" /\ th[t].h \in Stmts => th[t].h \in live

\* No call waits for a handle that another is there to free.
FreedAlone ==
  \A t, u \in Threads :
    t # u /\ th[t].op = "free" /\ th[u].h = th[t].h =>
      th[u].pc # "wait" /\ th[u].op # "free"

Inv ==
  /\ TypeOK
  /\ FoundStays
  /\ CallsAgree
  /\ OwnOrGiven
  /\ WaitsForLive
  /\ FreedAlone

-----------------------------------------------------------------------------
(* Mutexes.                                                                *)

\* A mutex is that of a handle, or the connection's.
LEMMA LockKind ==
  ASSUME NEW op, NEW h \in Handles
  PROVE  LockOf(op, h) \in Handles \cup {Dbc}
  BY DEF LockOf, HdrStmt, Handles

\* Two calls do not have one mutex.
LEMMA OneHolder ==
  ASSUME Inv, NEW t \in Threads, NEW u \in Threads,
         th[t].pc = "run", th[u].pc = "run",
         LockOf(th[t].op, th[t].h) = LockOf(th[u].op, th[u].h)
  PROVE  t = u
  <1>1. th[t].h \in Handles
    BY DEF Inv, CallsAgree, CallAgrees
  <1>2. LockOf(th[t].op, th[t].h) \in Handles \cup {Dbc}
    BY <1>1, LockKind
  <1> QED
    BY <1>2 DEF Inv, TypeOK

\* A call that works on a statement's own descriptor has the statement's mutex.
LEMMA OwnIsLocked ==
  ASSUME Inv, NEW t \in Threads, th[t].pc = "run", th[t].on \in Stmts
  PROVE  th[t].h = th[t].on /\ LockOf(th[t].op, th[t].h) = th[t].on
  <1>1. th[t].on # None /\ th[t].on \notin Descs
    BY HandlesAssumption DEF Handles
  <1>2. th[t].op \in {"fetch", "bind"} \cup OnDesc
    BY <1>1 DEF Inv, TypeOK, Calls, CallsAgree, CallAgrees, OnStmt
  <1>3. th[t].h = th[t].on
    BY <1>1, <1>2 DEF Inv, CallsAgree, CallAgrees
  <1> QED
    BY <1>3 DEF LockOf, HdrStmt

\* A call on a statement or on its descriptor has the statement's mutex.
LEMMA StmtIsLocked ==
  ASSUME NEW op, NEW s \in Stmts
  PROVE  LockOf(op, s) = s
  BY DEF LockOf, HdrStmt

-----------------------------------------------------------------------------
(* The steps.                                                              *)

\* Returning gives one mutex back, and leaves the other calls.
LEMMA Returns ==
  ASSUME Inv, NEW t \in Threads, th[t].pc = "run",
         mux' = Released(t), Return(t)
  PROVE  /\ th' \in [Threads -> Calls]
         /\ mux' \in [Handles \cup {Dbc} -> Threads \cup {None}]
         /\ th'[t] = Idle
         /\ \A u \in Threads \ {t} : th'[u] = th[u]
         /\ \A h \in Handles \cup {Dbc}, u \in Threads :
              mux'[h] = u <=> th'[u].pc = "run" /\ LockOf(th'[u].op, th'[u].h) = h
  <1>1. Idle \in Calls
    BY DEF Idle, Calls
  <1>2. th' \in [Threads -> Calls] /\ th'[t] = Idle
        /\ \A u \in Threads \ {t} : th'[u] = th[u]
    BY <1>1 DEF Inv, TypeOK, Return
  <1>3. LockOf(th[t].op, th[t].h) \in Handles \cup {Dbc}
    BY LockKind DEF Inv, CallsAgree, CallAgrees
  <1>4. mux' \in [Handles \cup {Dbc} -> Threads \cup {None}]
    BY <1>3 DEF Inv, TypeOK, Released
  <1>5. ASSUME NEW h \in Handles \cup {Dbc}, NEW u \in Threads
        PROVE  mux'[h] = u <=>
                 th'[u].pc = "run" /\ LockOf(th'[u].op, th'[u].h) = h
    <2>1. CASE u = t
      <3>1. mux'[h] # t
        BY HandlesAssumption, <1>3 DEF Inv, TypeOK, Released
      <3> QED
        BY <2>1, <3>1, <1>2 DEF Idle
    <2>2. CASE u # t
      <3>1. CASE h = LockOf(th[t].op, th[t].h)
        <4>1. mux'[h] = None
          BY <3>1, <1>3 DEF Inv, TypeOK, Released
        <4>2. mux[h] = t
          BY <3>1 DEF Inv, TypeOK
        <4> QED
          BY <4>1, <4>2, <2>2, <1>2, HandlesAssumption DEF Inv, TypeOK
      <3>2. CASE h # LockOf(th[t].op, th[t].h)
        <4>1. mux'[h] = mux[h]
          BY <3>2 DEF Inv, TypeOK, Released
        <4> QED
          BY <4>1, <2>2, <1>2 DEF Inv, TypeOK
      <3> QED
        BY <3>1, <3>2
    <2> QED
      BY <2>1, <2>2
  <1> QED
    BY <1>2, <1>4, <1>5

\* A call that returns leaves the facts about calls.
LEMMA ReturnsAgree ==
  ASSUME Inv, NEW t \in Threads, th'[t] = Idle,
         \A u \in Threads \ {t} : th'[u] = th[u]
  PROVE  CallsAgree' /\ FreedAlone'
  <1>1. CallsAgree'
    BY DEF Inv, CallsAgree, CallAgrees, Idle, OnStmt, OnDesc
  <1>2. FreedAlone'
    BY DEF Inv, FreedAlone, Idle
  <1> QED
    BY <1>1, <1>2

LEMMA CallKeeps ==
  ASSUME Inv, NEW t \in Threads, Call(t)
  PROVE  Inv'
  <1>1. PICK op \in OnStmt \cup OnDesc \cup {"diag", "free"}, h \in live :
          /\ op \in OnStmt => h \in Stmts
          /\ Freeing(h) = {}
          /\ op = "free" => Waiting(h) = {}
          /\ th' = [th EXCEPT ![t] = Asked(op, h)]
    BY DEF Call
  <1> DEFINE c == Asked(op, h)
  <1>2. h \in Handles
    BY DEF Inv, TypeOK
  <1>3. c \in Calls
    BY <1>2 DEF Calls, Asked
  <1>4. /\ th[t].pc = "idle"
        /\ UNCHANGED <<live, ard, kind, recs, mux>>
    BY DEF Call
  <1>5. /\ th' \in [Threads -> Calls]
        /\ th'[t] = c
        /\ \A u \in Threads \ {t} : th'[u] = th[u]
    BY <1>1, <1>3 DEF Inv, TypeOK
  <1> HIDE DEF c
  <1>6. c.pc = "wait" /\ c.op = op /\ c.h = h /\ c.on = None
    BY DEF c, Asked
  <1>7. TypeOK'
    <2>1. \A g \in Handles \cup {Dbc} : mux[g] # t
      BY <1>4 DEF Inv, TypeOK
    <2>2. ASSUME NEW g \in Handles \cup {Dbc}, NEW u \in Threads
          PROVE  mux'[g] = u <=>
                   th'[u].pc = "run" /\ LockOf(th'[u].op, th'[u].h) = g
      BY <2>1, <1>4, <1>5, <1>6 DEF Inv, TypeOK
    <2> QED
      BY <2>2, <1>4, <1>5 DEF Inv, TypeOK
  <1>8. FoundStays'
    BY <1>4, <1>5, <1>6 DEF Inv, FoundStays
  <1>9. CallsAgree'
    BY <1>1, <1>2, <1>5, <1>6 DEF Inv, CallsAgree, CallAgrees, OnStmt, OnDesc
  <1>10. OwnOrGiven' /\ WaitsForLive'
    BY <1>4, <1>5, <1>6 DEF Inv, OwnOrGiven, WaitsForLive
  <1>11. FreedAlone'
    <2> SUFFICES ASSUME NEW u \in Threads, NEW v \in Threads, u # v,
                        th'[u].op = "free", th'[v].h = th'[u].h
                 PROVE  th'[v].pc # "wait" /\ th'[v].op # "free"
      BY DEF FreedAlone
    <2>1. CASE u # t /\ v # t
      BY <2>1, <1>5 DEF Inv, FreedAlone
    <2>2. CASE v = t
      BY <2>2, <1>1, <1>5, <1>6 DEF Freeing
    <2>3. CASE u = t
      BY <2>3, <1>1, <1>5, <1>6 DEF Freeing, Waiting
    <2> QED
      BY <2>1, <2>2, <2>3
  <1> QED
    BY <1>7, <1>8, <1>9, <1>10, <1>11 DEF Inv

\* A call that gets its mutex finds what it works on.
LEMMA HoldsKeeps ==
  ASSUME Inv, NEW t \in Threads, th[t].pc = "wait",
         mux[LockOf(th[t].op, th[t].h)] = None,
         Holds(t), UNCHANGED <<live, ard, kind, recs>>
  PROVE  Inv'
  <1> DEFINE op == th[t].op
             h == th[t].h
             on == WorksOn(op, h)
             saw == IF on = None THEN None ELSE recs[on]
             lock == LockOf(op, h)
  <1>1. h \in Handles /\ op \in OnStmt \cup OnDesc \cup {"diag", "free"}
    BY DEF Inv, TypeOK, Calls, CallsAgree, CallAgrees
  <1>2. lock \in Handles \cup {Dbc}
    BY <1>1, LockKind
  <1>3. on \in Handles \cup {None}
    BY <1>1 DEF WorksOn, Inv, TypeOK, CallsAgree, CallAgrees, OnStmt, OnDesc
  <1>4. saw \in Bindings \cup {None}
    BY <1>3 DEF Inv, TypeOK
  <1>5. /\ th'[t] = [th[t] EXCEPT !.pc = "run", !.on = on, !.saw = saw]
        /\ \A u \in Threads \ {t} : th'[u] = th[u]
        /\ mux' = [mux EXCEPT ![lock] = t]
        /\ th' = [th EXCEPT ![t] = th'[t]]
    <2>1. /\ mux' = [mux EXCEPT ![lock] = t]
          /\ th' = [th EXCEPT ![t].pc = "run", ![t].on = on, ![t].saw = saw]
      BY DEF Holds
    <2> HIDE DEF on, saw, lock
    <2>2. th \in [Threads -> Calls]
      BY DEF Inv, TypeOK
    <2>3. th' = [th EXCEPT ![t] = [th[t] EXCEPT !.pc = "run", !.on = on, !.saw = saw]]
      BY <2>1, <2>2
    <2> QED
      BY <2>1, <2>2, <2>3
  <1>6. th[t] \in Calls
    BY DEF Inv, TypeOK
  <1> HIDE DEF on, saw
  <1>7. /\ th'[t] \in Calls
        /\ th'[t].pc = "run" /\ th'[t].op = op /\ th'[t].h = h
        /\ th'[t].on = on /\ th'[t].saw = saw
    BY <1>3, <1>4, <1>5, <1>6 DEF Calls
  <1>8. TypeOK'
    <2>1. ASSUME NEW g \in Handles \cup {Dbc}, NEW u \in Threads
          PROVE  mux'[g] = u <=>
                   th'[u].pc = "run" /\ LockOf(th'[u].op, th'[u].h) = g
      <3>1. CASE u = t
        <4>1. mux[g] # t
          BY DEF Inv, TypeOK
        <4> QED
          BY <3>1, <4>1, <1>2, <1>5, <1>7 DEF Inv, TypeOK
      <3>2. CASE u # t
        <4>1. mux[lock] # u
          BY HandlesAssumption
        <4> QED
          BY <3>2, <4>1, <1>2, <1>5 DEF Inv, TypeOK
      <3> QED
        BY <3>1, <3>2
    <2>2. th' \in [Threads -> Calls]
      BY <1>5, <1>7 DEF Inv, TypeOK
    <2>3. mux' \in [Handles \cup {Dbc} -> Threads \cup {None}]
      BY <1>2, <1>5 DEF Inv, TypeOK
    <2> QED
      BY <2>1, <2>2, <2>3 DEF Inv, TypeOK
  <1>9. FoundStays'
    <2>1. on \in Stmts => saw = recs[on]
      BY HandlesAssumption DEF saw, Handles
    <2>2. h \in Stmts => h \in live
      BY DEF Inv, WaitsForLive
    <2> SUFFICES ASSUME NEW u \in Threads, th'[u].pc = "run"
                 PROVE  /\ th'[u].h \in Stmts => th'[u].h \in live
                        /\ th'[u].on \in Stmts => recs[th'[u].on] = th'[u].saw
      BY DEF FoundStays
    <2>3. CASE u = t
      BY <2>1, <2>2, <2>3, <1>7
    <2>4. CASE u # t
      BY <2>4, <1>5 DEF Inv, FoundStays
    <2> QED
      BY <2>3, <2>4
  <1>10. CallsAgree'
    <2>1. op \in {"fetch", "bind"} => on \in {h} \cup Descs
      BY DEF on, WorksOn, Inv, OwnOrGiven, CallsAgree, CallAgrees, OnStmt
    <2>2. op \in OnDesc => on = h
      BY DEF on, WorksOn, OnDesc
    <2>3. op \in {"setard", "diag", "free"} => on = None
      BY DEF on, WorksOn, OnDesc
    <2>4. op \in OnStmt => h \in Stmts
      BY DEF Inv, CallsAgree, CallAgrees
    <2> SUFFICES ASSUME NEW u \in Threads
                 PROVE  CallAgrees(th'[u])
      BY DEF CallsAgree, CallAgrees
    <2>5. CASE u = t
      BY <2>1, <2>2, <2>3, <2>4, <2>5, <1>1, <1>7 DEF CallAgrees, OnStmt, OnDesc
    <2>6. CASE u # t
      BY <2>6, <1>5 DEF Inv, CallsAgree, CallAgrees
    <2> QED
      BY <2>5, <2>6
  <1>11. OwnOrGiven'
    BY DEF Inv, OwnOrGiven
  <1>12. WaitsForLive'
    BY <1>5, <1>7 DEF Inv, WaitsForLive
  <1>13. FreedAlone'
    <2> SUFFICES ASSUME NEW u \in Threads, NEW v \in Threads, u # v,
                        th'[u].op = "free", th'[v].h = th'[u].h
                 PROVE  th'[v].pc # "wait" /\ th'[v].op # "free"
      BY DEF FreedAlone
    <2>1. \A w \in Threads : th'[w].op = th[w].op /\ th'[w].h = th[w].h
      BY <1>5, <1>7
    <2>2. th'[v].pc = "wait" => th[v].pc = "wait"
      BY <1>5, <1>7
    <2> QED
      BY <2>1, <2>2 DEF Inv, FreedAlone
  <1> QED
    BY <1>8, <1>9, <1>10, <1>11, <1>12, <1>13 DEF Inv

-----------------------------------------------------------------------------
(* The steps of calls that run.                                            *)

\* Nothing is written to what another call works on: for that takes the mutex
\* which the other call has.
LEMMA OthersKeep ==
  ASSUME Inv, NEW t \in Threads, NEW d \in Handles,
         \A u \in Threads \ {t} : th'[u] = th[u], th'[t] = Idle,
         \A u \in Threads \ {t} : th[u].pc = "run" /\ th[u].h \in Stmts =>
            th[u].h \in live',
         \A x \in Handles \ {d} : recs'[x] = recs[x],
         \A u \in Threads \ {t} : th[u].pc = "run" => th[u].on \notin {d} \cap Stmts
  PROVE  FoundStays'
  <1> SUFFICES ASSUME NEW u \in Threads, th'[u].pc = "run"
               PROVE  /\ th'[u].h \in Stmts => th'[u].h \in live'
                      /\ th'[u].on \in Stmts => recs'[th'[u].on] = th'[u].saw
    BY DEF FoundStays
  <1>1. u # t /\ th'[u] = th[u]
    BY DEF Idle
  <1>2. ASSUME th[u].on \in Stmts
        PROVE  recs'[th[u].on] = th[u].saw
    <2>1. th[u].on \in Handles \ {d}
      BY <1>1, <1>2 DEF Handles
    <2> QED
      BY <1>1, <1>2, <2>1 DEF Inv, FoundStays
  <1> QED
    BY <1>1, <1>2

\* A statement's own descriptor is the descriptor of one call that runs.
LEMMA OwnIsAlone ==
  ASSUME Inv, NEW t \in Threads, th[t].pc = "run",
         NEW s \in Stmts, LockOf(th[t].op, th[t].h) = s,
         NEW u \in Threads \ {t}, th[u].pc = "run"
  PROVE  th[u].on # s /\ th[u].h # s
  <1>1. LockOf(th[u].op, th[u].h) # s
    BY OneHolder
  <1>2. th[u].on # s
    BY <1>1, OwnIsLocked
  <1>3. th[u].h # s
    BY <1>1, StmtIsLocked
  <1> QED
    BY <1>2, <1>3

LEMMA ReadKeeps ==
  ASSUME Inv, NEW t \in Threads, Read(t)
  PROVE  Inv'
  <1>1. /\ th[t].pc = "run" /\ mux' = Released(t) /\ Return(t)
        /\ UNCHANGED <<live, ard, kind, recs>>
    BY DEF Read, Runs
  <1>2. TypeOK'
    BY <1>1, Returns DEF Inv, TypeOK
  <1>3. th'[t] = Idle /\ \A u \in Threads \ {t} : th'[u] = th[u]
    BY <1>1, Returns
  <1>4. FoundStays'
    BY <1>1, <1>3 DEF Inv, FoundStays, Idle
  <1>5. OwnOrGiven' /\ WaitsForLive'
    BY <1>1, <1>3 DEF Inv, OwnOrGiven, WaitsForLive, Idle
  <1> QED
    BY <1>2, <1>3, <1>4, <1>5, ReturnsAgree DEF Inv

LEMMA WriteKeeps ==
  ASSUME Inv, NEW t \in Threads, Write(t)
  PROVE  Inv'
  <1>1. /\ th[t].pc = "run" /\ mux' = Released(t) /\ Return(t)
        /\ UNCHANGED <<live, ard, kind>>
    BY DEF Write, Runs
  <1>2. th'[t] = Idle /\ \A u \in Threads \ {t} : th'[u] = th[u]
    BY <1>1, Returns
  <1>3. OwnOrGiven' /\ WaitsForLive'
    BY <1>1, <1>2 DEF Inv, OwnOrGiven, WaitsForLive, Idle
  <1>4. recs' \in [Handles -> Bindings \cup {None}]
    BY DEF Write, Inv, TypeOK
  <1>5. TypeOK'
    BY <1>1, <1>4, Returns DEF Inv, TypeOK
  <1>6. FoundStays'
    <2>1. CASE recs' = recs
      BY <1>1, <1>2, <2>1 DEF Inv, FoundStays, Idle
    <2>2. CASE recs' # recs
      <3> DEFINE d == th[t].on
      <3>1. d \in Handles /\ \A x \in Handles \ {d} : recs'[x] = recs[x]
        BY <2>2 DEF Write, Accessible, Inv, TypeOK
      <3>2. ASSUME NEW u \in Threads \ {t}, th[u].pc = "run"
            PROVE  th[u].on \notin {d} \cap Stmts
        BY <1>1, <3>2, OwnIsLocked, OwnIsAlone
      <3>3. \A u \in Threads \ {t} :
              th[u].pc = "run" /\ th[u].h \in Stmts => th[u].h \in live'
        BY <1>1 DEF Inv, FoundStays
      <3> HIDE DEF d
      <3> QED
        BY <1>2, <3>1, <3>2, <3>3, OthersKeep
    <2> QED
      BY <2>1, <2>2
  <1> QED
    BY <1>2, <1>3, <1>5, <1>6, ReturnsAgree DEF Inv

LEMMA SetArdKeeps ==
  ASSUME Inv, NEW t \in Threads, SetArd(t)
  PROVE  Inv'
  <1>1. /\ th[t].pc = "run" /\ mux' = Released(t) /\ Return(t)
        /\ UNCHANGED <<live, recs>>
    BY DEF SetArd, Runs
  <1>2. th'[t] = Idle /\ \A u \in Threads \ {t} : th'[u] = th[u]
    BY <1>1, Returns
  <1>3. th[t].h \in Stmts
    BY DEF SetArd, Runs, OnStmt, Inv, CallsAgree, CallAgrees
  <1>4. ard' \in [Stmts -> Handles] /\ kind' \in [Descs -> {"ANON", "ARD"}]
    BY <1>3 DEF SetArd, Inv, TypeOK, Handles
  <1>5. TypeOK'
    BY <1>1, <1>4, Returns DEF Inv, TypeOK
  <1>6. FoundStays'
    BY <1>1, <1>2 DEF Inv, FoundStays, Idle
  <1>7. OwnOrGiven'
    BY <1>3 DEF SetArd, Inv, TypeOK, OwnOrGiven
  <1>8. WaitsForLive'
    BY <1>1, <1>2 DEF Inv, WaitsForLive, Idle
  <1> QED
    BY <1>2, <1>5, <1>6, <1>7, <1>8, ReturnsAgree DEF Inv

\* A handle is freed by the one call that has its mutex.
LEMMA FreeKeeps ==
  ASSUME Inv, NEW t \in Threads, FreeHandle(t)
  PROVE  Inv'
  <1> DEFINE h == th[t].h
             d == Cleared(h)
  <1>1. /\ th[t].pc = "run" /\ th[t].op = "free"
        /\ mux' = Released(t) /\ Return(t)
        /\ live' = live \ {h}
        /\ recs' = [recs EXCEPT ![d] = None]
        /\ UNCHANGED <<ard, kind>>
    BY DEF FreeHandle, Runs
  <1>2. th'[t] = Idle /\ \A u \in Threads \ {t} : th'[u] = th[u]
    BY <1>1, Returns
  <1>3. h \in Handles /\ LockOf(th[t].op, h) = h
    BY <1>1 DEF Inv, CallsAgree, CallAgrees, LockOf, OnDesc
  <1>4. d \in Handles /\ (d \in Stmts => d = h)
    BY <1>3, HandlesAssumption DEF Cleared, Handles, Inv, OwnOrGiven
  <1>5. recs' \in [Handles -> Bindings \cup {None}]
    BY <1>1 DEF Inv, TypeOK
  <1>6. TypeOK'
    BY <1>1, <1>5, Returns DEF Inv, TypeOK
  <1>7. FoundStays'
    <2>1. \A x \in Handles \ {d} : recs'[x] = recs[x]
      BY <1>1 DEF Inv, TypeOK
    <2>2. ASSUME NEW u \in Threads \ {t}, th[u].pc = "run"
          PROVE  /\ th[u].on \notin {d} \cap Stmts
                 /\ th[u].h \in Stmts => th[u].h \in live'
      <3>1. h \in Stmts => th[u].on # h /\ th[u].h # h
        BY <1>1, <1>3, <2>2, OwnIsAlone
      <3>2. th[u].h \in Stmts => th[u].h \in live
        BY <2>2 DEF Inv, FoundStays
      <3> QED
        BY <1>1, <1>4, <3>1, <3>2
    <2> HIDE DEF d, h
    <2> QED
      BY <1>2, <1>4, <2>1, <2>2, OthersKeep
  <1>8. OwnOrGiven'
    BY <1>1 DEF Inv, OwnOrGiven
  <1>9. WaitsForLive'
    BY <1>1, <1>2 DEF Inv, WaitsForLive, FreedAlone, Idle
  <1> QED
    BY <1>2, <1>6, <1>7, <1>8, <1>9, ReturnsAgree DEF Inv

-----------------------------------------------------------------------------
(* Allocating, and the invariant.                                          *)

LEMMA AllocKeeps ==
  ASSUME Inv, NEW t \in Threads, AllocStmt(t) \/ AllocDesc(t)
  PROVE  Inv'
  <1>1. PICK d \in Handles \ live :
          /\ live' = live \cup {d}
          /\ recs' = [recs EXCEPT ![d] = None]
          /\ d \in Stmts => ard' = [ard EXCEPT ![d] = d]
          /\ d \notin Stmts => ard' = ard
    BY HandlesAssumption DEF AllocStmt, AllocDesc, Handles
  <1>2. UNCHANGED <<mux, th>>
    BY DEF AllocStmt, AllocDesc
  <1>3. TypeOK'
    <2>1. kind' \in [Descs -> {"ANON", "ARD"}]
      BY DEF AllocStmt, AllocDesc, Inv, TypeOK
    <2> QED
      BY <1>1, <1>2, <2>1 DEF Inv, TypeOK, Handles
  <1>4. FoundStays'
    <2> SUFFICES ASSUME NEW u \in Threads, th[u].pc = "run"
                 PROVE  /\ th[u].h \in Stmts => th[u].h \in live'
                        /\ th[u].on \in Stmts => recs'[th[u].on] = th[u].saw
      BY <1>2 DEF FoundStays
    <2>1. th[u].h \in Stmts => th[u].h \in live
      BY DEF Inv, FoundStays
    <2>2. ASSUME th[u].on \in Stmts
          PROVE  recs'[th[u].on] = th[u].saw
      <3>1. th[u].on = th[u].h
        BY <2>2, OwnIsLocked
      <3>2. th[u].on # d
        BY <2>1, <2>2, <3>1
      <3> QED
        BY <1>1, <2>2, <3>2 DEF Inv, TypeOK, FoundStays, Handles
    <2> QED
      BY <1>1, <2>1, <2>2
  <1>5. CallsAgree' /\ FreedAlone'
    BY <1>2 DEF Inv, CallsAgree, FreedAlone
  <1>6. OwnOrGiven'
    BY <1>1 DEF Inv, TypeOK, OwnOrGiven
  <1>7. WaitsForLive'
    BY <1>1, <1>2 DEF Inv, WaitsForLive
  <1> QED
    BY <1>3, <1>4, <1>5, <1>6, <1>7 DEF Inv

LEMMA Initially == Init => Inv
  <1> SUFFICES ASSUME Init PROVE Inv
    OBVIOUS
  <1>1. Idle \in Calls
    BY DEF Idle, Calls
  <1>2. \A t \in Threads : th[t] = Idle
    BY DEF Init
  <1>3. TypeOK
    <2>1. \A h \in Handles \cup {Dbc}, t \in Threads :
            mux[h] # t /\ th[t].pc # "run"
      BY <1>2, HandlesAssumption DEF Init, Idle
    <2> QED
      BY <1>1, <2>1 DEF Init, TypeOK, Handles
  <1>4. FoundStays /\ WaitsForLive /\ FreedAlone
    BY <1>2 DEF FoundStays, WaitsForLive, FreedAlone, Idle
  <1>5. CallsAgree
    <2>1. CallAgrees(Idle)
      <3>1. Idle.pc = "idle" /\ Idle.op = "none"
        BY DEF Idle
      <3> QED
        BY <3>1 DEF CallAgrees, OnStmt, OnDesc
    <2> QED
      BY <1>2, <2>1 DEF CallsAgree
  <1>6. OwnOrGiven
    BY DEF Init, OwnOrGiven
  <1> QED
    BY <1>3, <1>4, <1>5, <1>6 DEF Inv

\* Every step of every thread (odbc.c) keeps the invariant.
THEOREM HandlesInductive == Inv /\ [Next]_vars => Inv'
  <1> SUFFICES ASSUME Inv, [Next]_vars PROVE Inv'
    OBVIOUS
  <1>1. ASSUME NEW t \in Threads, Lock(t) PROVE Inv'
    BY <1>1, HoldsKeeps DEF Lock
  <1>2. ASSUME NEW t \in Threads, TryLock(t) PROVE Inv'
    <2>1. CASE mux[th[t].h] = None
      <3>1. LockOf(th[t].op, th[t].h) = th[t].h
        BY <1>2 DEF TryLock, LockOf, OnDesc
      <3> QED
        BY <1>2, <2>1, <3>1, HoldsKeeps DEF TryLock
    <2>2. CASE mux[th[t].h] # None
      <3>1. th[t].pc = "wait" /\ Return(t) /\ UNCHANGED <<live, ard, kind, recs, mux>>
        BY <1>2, <2>2 DEF TryLock
      <3>2. th'[t] = Idle /\ \A u \in Threads \ {t} : th'[u] = th[u]
        BY <3>1 DEF Return, Inv, TypeOK
      <3>3. Idle \in Calls
        BY DEF Idle, Calls
      <3>4. TypeOK'
        <4>1. ASSUME NEW g \in Handles \cup {Dbc}, NEW u \in Threads
              PROVE  mux[g] = u <=>
                       th'[u].pc = "run" /\ LockOf(th'[u].op, th'[u].h) = g
          BY <3>1, <3>2 DEF Inv, TypeOK, Idle
        <4> QED
          BY <3>1, <3>3, <4>1 DEF Inv, TypeOK, Return
      <3>5. FoundStays' /\ OwnOrGiven' /\ WaitsForLive'
        BY <3>1, <3>2 DEF Inv, FoundStays, OwnOrGiven, WaitsForLive, Idle
      <3> QED
        BY <3>2, <3>4, <3>5, ReturnsAgree DEF Inv
    <2> QED
      BY <2>1, <2>2
  <1>3. CASE UNCHANGED vars
    BY <1>3 DEF vars, Inv, TypeOK, FoundStays, CallsAgree, OwnOrGiven,
                WaitsForLive, FreedAlone
  <1> QED
    BY <1>1, <1>2, <1>3, CallKeeps, ReadKeeps, WriteKeeps, SetArdKeeps,
       AllocKeeps, FreeKeeps DEF Next

\* Parts have values of their kinds, and the mutexes those of the calls that
\* run: no call (odbc.c) leaves one behind.
THEOREM HandlesTypeCorrect == Spec => []TypeOK
  <1>1. Inv => TypeOK
    BY DEF Inv
  <1> QED
    BY <1>1, Initially, HandlesInductive, PTL DEF Spec

\* The statement and the implicit descriptor that a call finds are there until
\* it returns (odbc.c:422, 1408).
THEOREM FoundUnchanged == Spec => []FoundStays
  <1>1. Inv => FoundStays
    BY DEF Inv
  <1> QED
    BY <1>1, Initially, HandlesInductive, PTL DEF Spec

=============================================================================
