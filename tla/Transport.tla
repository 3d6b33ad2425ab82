------------------------------- MODULE Transport ------------------------------
(***************************************************************************)
(* What a connection promises the statements that share it: each request   *)
(* is served at most once, and a call that succeeds hands its statement    *)
(* the whole answer to its own request, at the URL it asked.               *)
(***************************************************************************)
CONSTANTS
  Stmts, Urls, NoUrl, NoAnswer,
  Bodies  \* the sizes of the server's answers

Answers == [of : Stmts, url : Urls, size : Bodies]

VARIABLES
  asked,   \* the URL each statement's running call asks, or NoUrl
  served,  \* the answer the server gives to it, or NoAnswer
  got      \* the answer each statement's last call returned, or NoAnswer

vars == <<asked, served, got>>

Init ==
  /\ asked = [s \in Stmts |-> NoUrl]
  /\ served = [s \in Stmts |-> NoAnswer]
  /\ got = [s \in Stmts |-> NoAnswer]

Ask(s) ==
  /\ asked[s] = NoUrl
  /\ \E u \in Urls : asked' = [asked EXCEPT ![s] = u]
  /\ got' = [got EXCEPT ![s] = NoAnswer]
  /\ UNCHANGED served

Serve(s) ==
  /\ asked[s] # NoUrl /\ served[s] = NoAnswer
  /\ \E a \in Answers : /\ a.of = s /\ a.url = asked[s]
                        /\ served' = [served EXCEPT ![s] = a]
  /\ UNCHANGED <<asked, got>>

Answered(s) ==
  /\ served[s] # NoAnswer
  /\ got' = [got EXCEPT ![s] = served[s]]
  /\ served' = [served EXCEPT ![s] = NoAnswer]
  /\ asked' = [asked EXCEPT ![s] = NoUrl]

Failed(s) ==
  /\ asked[s] # NoUrl
  /\ asked' = [asked EXCEPT ![s] = NoUrl]
  /\ served' = [served EXCEPT ![s] = NoAnswer]
  /\ UNCHANGED got

Next == \E s \in Stmts : Ask(s) \/ Serve(s) \/ Answered(s) \/ Failed(s)

Spec == Init /\ [][Next]_vars

=============================================================================
