--------------------------- MODULE MessageReader ---------------------------
(***************************************************************************)
(* What the DAP client relies on when it reads the stream of the debugger  *)
(* adapter: a call takes one message or several, whole and in their order, *)
(* and puts them into the queue.  It may begin when the adapter has sent   *)
(* nothing; once it has taken a message, it goes on only for another that  *)
(* the adapter has sent, or has begun to send.                             *)
(***************************************************************************)
EXTENDS Sequences

CONSTANT Supplies   \* the sequences of messages an adapter may send

VARIABLES
    ahead,     \* the messages that have not been taken
    taken,     \* those that have
    calling    \* a call is under way

vars == <<ahead, taken, calling>>

Init ==
    /\ ahead \in Supplies
    /\ taken = <<>>
    /\ calling = FALSE

Call ==
    /\ ~calling
    /\ calling' = TRUE
    /\ UNCHANGED <<ahead, taken>>

\* The call returns after this message, or has another one to take.
Take ==
    /\ calling
    /\ ahead # <<>>
    /\ taken' = Append(taken, Head(ahead))
    /\ ahead' = Tail(ahead)
    /\ calling' \in BOOLEAN
    /\ calling' => ahead' # <<>>

Next == Call \/ Take

Spec == Init /\ [][Next]_vars

=============================================================================
