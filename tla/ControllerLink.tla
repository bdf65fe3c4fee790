--------------------------- MODULE ControllerLink ---------------------------
(***************************************************************************)
(* The only way a thread of the library is told to stop: a REQ socket of   *)
(* the thread that tells, connected to the REP "controller" socket of the  *)
(* thread that is told.  Such a pair carries one request or one reply at a *)
(* time.                                                                   *)
(***************************************************************************)
VARIABLE link   \* the controller link of each thread that can be stopped

\* What travels on it.  zmq_msg_send empties the message it is given, and
\* stop_channels sends the same message to every thread: only the first of its
\* requests carries the word.
Body == {"stop", "empty", "json"}

\* Nothing under way, request unread, request read, reply unread.
Link == [phase : {"idle", "request", "serving", "reply"}, body : Body]

IdleLink == [phase |-> "idle", body |-> "empty"]

Send(t, b) == link' = [link EXCEPT ![t] = [phase |-> "request", body |-> b]]

Answer(t, b) == link' = [link EXCEPT ![t] = [phase |-> "reply", body |-> b]]

Collect(t) ==
    /\ link[t].phase = "reply"
    /\ link' = [link EXCEPT ![t].phase = "idle"]

Requested(t) == link[t].phase = "request"

=============================================================================
