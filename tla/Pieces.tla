-------------------------------- MODULE Pieces --------------------------------
(***************************************************************************)
(* What an application may rely on when it reads a value with several      *)
(* calls of SQLGetData: every call hands over the next characters, none is *)
(* skipped, the return code tells whether that was all of the value, and   *)
(* afterwards there is no more data until another value is asked for.      *)
(***************************************************************************)
EXTENDS Integers

CONSTANT None  \* no value is being read

VARIABLES
  item,    \* the value being read: its column and the type asked for, or None
  total,   \* its length in characters
  got,     \* the characters handed over so far
  answer,  \* the last call's: "some", "all", "no data", "fixed", "error" or "none"
  spoilt   \* a piece was cut by SQL_ATTR_MAX_LENGTH, or the buffer did not hold one
           \* character: nothing is promised

vars == <<item, total, got, answer, spoilt>>

Init == item = None /\ total = 0 /\ got = 0 /\ answer = "none" /\ ~spoilt

\* A piece, after the first n characters: all that is left, or less than that.
HandOver(n) ==
  /\ got' \in n..total'
  /\ \/ answer' = "all" /\ got' = total'
     \/ answer' = "some" /\ (got' < total' \/ total' = 0)

FirstPiece == item' # item /\ item' # None /\ total' \in Nat /\ HandOver(0)

NextPiece ==
  /\ item # None /\ answer = "some"
  /\ UNCHANGED <<item, total>> /\ HandOver(got)

NoMoreData == answer \in {"all", "no data"} /\ answer' = "no data" /\ UNCHANGED <<item, total, got>>

\* A value of fixed length, or NULL: handed over each time it is asked for.
WholeValue == item' # None /\ answer' = "fixed" /\ (item' = item => answer = "fixed")

\* A call fails, or the cursor moves: what was read before is forgotten.
StartOver == item' = None /\ total' = 0 /\ got' = 0 /\ answer' \in {"error", "none"}

Next ==
  \/ spoilt' \/ FirstPiece \/ NextPiece \/ NoMoreData \/ WholeValue \/ StartOver

Spec == Init /\ [][Next]_vars

=============================================================================
