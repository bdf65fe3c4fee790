---------------------------- MODULE DebugSession ----------------------------
(***************************************************************************)
(* What the debugger promises the front end.  A session is open from a     *)
(* start that succeeds to a disconnect.  Requests are processed one at a   *)
(* time, and one that is passed on is answered once, by a response to it.  *)
(* While a session is open the debugged program raises events; they are    *)
(* shown once each and in their order, and the stopped threads are those   *)
(* that the events shown so far have left so.  The disconnect is answered  *)
(* when all events of the session have been shown, and it leaves no thread *)
(* behind.                                                                 *)
(***************************************************************************)
EXTENDS Naturals, Sequences

CONSTANTS
    Threads,      \* of the debugged program
    Events,       \* the events it may raise, each with its number
    Commands,     \* the commands of the requests
    MaxRequests   \* how many requests the front end sends

VARIABLES
    asked,      \* how many requests have come
    doing,      \* the command being processed, or "none"
    reply,      \* the command that has been answered, or "none"
    open,       \* a session is open
    underway,   \* the events raised and not shown
    shown,      \* the numbers of the events shown
    stopped     \* the threads known to be stopped

requestVars == <<asked, doing, reply>>
eventVars == <<underway, shown, stopped>>
vars == <<requestVars, open, eventVars>>

Init ==
    /\ asked = 0
    /\ doing = "none"
    /\ reply = "none"
    /\ open = FALSE
    /\ underway = <<>>
    /\ shown = <<>>
    /\ stopped = {}

\* The next request is taken.
Ask(c) ==
    /\ doing = "none"
    /\ asked < MaxRequests
    /\ asked' = asked + 1
    /\ doing' = c

AnswerAtOnce ==
    /\ Ask("none")
    /\ UNCHANGED <<reply, open, eventVars>>

Open ==
    /\ ~open
    /\ Ask("initialize")
    /\ open' = TRUE
    /\ UNCHANGED <<reply, eventVars>>

PassOn(c) ==
    /\ open
    /\ Ask(c)
    /\ UNCHANGED <<reply, open, eventVars>>

\* A disconnect without a session.
Quit ==
    /\ ~open
    /\ Ask("disconnect")
    /\ reply' = "disconnect"
    /\ UNCHANGED <<open, eventVars>>

Answer ==
    /\ open
    /\ doing # "none"
    /\ reply = "none"
    /\ doing = "disconnect" => underway = <<>>
    /\ reply' = doing
    /\ UNCHANGED <<asked, doing, open, eventVars>>

Return ==
    /\ doing \notin {"none", "disconnect"}
    /\ reply = doing
    /\ reply' = "none"
    /\ doing' = "none"
    /\ UNCHANGED <<asked, open, eventVars>>

Close ==
    /\ doing = "disconnect"
    /\ reply = doing
    /\ reply' = "none"
    /\ doing' = "none"
    /\ open' = FALSE
    /\ stopped' = {}
    /\ UNCHANGED <<asked, underway, shown>>

\* The last word of a session is the answer to its disconnect.
Raise(e) ==
    /\ open
    /\ reply # "disconnect"
    /\ e.no = Len(shown) + Len(underway) + 1
    /\ underway' = Append(underway, e)
    /\ UNCHANGED <<requestVars, open, shown, stopped>>

Concerns(e, t) ==
    \/ e.kind \in {"all_stopped", "all_continued"}
    \/ e.kind \in {"stopped", "continued"} /\ e.thread = t

Show ==
    /\ open
    /\ underway # <<>>
    /\ LET e == Head(underway) IN
          /\ shown' = Append(shown, e.no)
          /\ stopped' = {t \in Threads : IF Concerns(e, t) THEN e.kind \in {"all_stopped", "stopped"}
                                         ELSE t \in stopped}
    /\ underway' = Tail(underway)
    /\ UNCHANGED <<requestVars, open>>

Next ==
    \/ AnswerAtOnce \/ Open \/ Quit
    \/ \E c \in Commands : PassOn(c)
    \/ Answer \/ Return \/ Close
    \/ \E e \in Events : Raise(e)
    \/ Show

Spec == Init /\ [][Next]_vars

=============================================================================
