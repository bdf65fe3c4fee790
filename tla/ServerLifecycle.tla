-------------------------- MODULE ServerLifecycle --------------------------
(***************************************************************************)
(* What every server of the library promises about its threads, whatever   *)
(* their number and whatever tells them to stop.                           *)
(*                                                                         *)
(* A worker reads channels, runs listeners and publishes.  A service       *)
(* (publisher, heartbeat) works for the workers and for the clients.  A    *)
(* thread works, then stops working, then is gone.  A service does not     *)
(* stop before every worker has, the server is torn down when every thread *)
(* is gone, messages are accepted only while a worker works, and forwarded *)
(* only while a service does.                                              *)
(***************************************************************************)
EXTENDS Naturals

CONSTANTS Workers, Services

Threads == Workers \union Services

VARIABLES
    life,        \* the life of each thread
    backlog,     \* how many messages have been accepted and not forwarded
    over         \* the sockets are being closed

vars == <<life, backlog, over>>

\* A worker runs on the thread that starts the server.
Init ==
    /\ \E w \in Workers :
          life = [t \in Threads |-> IF t = w THEN "working" ELSE "unborn"]
    /\ backlog = 0
    /\ over = FALSE

Enter(t, from, to) ==
    /\ life[t] = from
    /\ life' = [life EXCEPT ![t] = to]
    /\ over' = over

Start(t) ==
    /\ Enter(t, "unborn", "working")
    /\ backlog' = backlog

Publish ==
    /\ \E w \in Workers : life[w] = "working"
    /\ backlog' = backlog + 1
    /\ UNCHANGED <<life, over>>

Forward ==
    /\ backlog > 0
    /\ \E s \in Services : life[s] = "working"
    /\ backlog' = backlog - 1
    /\ UNCHANGED <<life, over>>

StopWorker(w) ==
    /\ Enter(w, "working", "stopped")
    /\ backlog' = backlog

\* The last thing a service does may be to forward some of what is left.
StopService(s) ==
    /\ \A w \in Workers : life[w] \in {"stopped", "gone"}
    /\ Enter(s, "working", "stopped")
    /\ backlog' \in 0 .. backlog

Leave(t) ==
    /\ Enter(t, "stopped", "gone")
    /\ backlog' = backlog

TearDown ==
    /\ \A t \in Threads : life[t] = "gone"
    /\ over' = TRUE
    /\ UNCHANGED <<life, backlog>>

Next ==
    \/ \E t \in Threads : Start(t) \/ Leave(t)
    \/ \E w \in Workers : StopWorker(w)
    \/ \E s \in Services : StopService(s)
    \/ Publish \/ Forward \/ TearDown

Spec == Init /\ [][Next]_vars

=============================================================================
