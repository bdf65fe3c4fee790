---------------------------- MODULE DebugAdapter ----------------------------
(***************************************************************************)
(* The debug adapter: the process at the other end of the TCP stream of    *)
(* the DAP client.  It is not part of the repository.  What is said of it  *)
(* here is what the DAP client relies on: one response per request, in the *)
(* order of the requests, but that of "attach", which a parallel adapter   *)
(* gives after the configuration; an event when threads of the debugged    *)
(* program stop or go on; nothing after the response to "disconnect".      *)
(* It may refuse to attach, and it may die at any time.                    *)
(***************************************************************************)
EXTENDS Naturals, Sequences

CONSTANTS
    Threads,     \* of the debugged program
    EventKinds,  \* which events the adapter sends by itself
    MaxEvents,   \* how many of them
    MayDie,      \* the adapter may die
    MayRefuse    \* it may refuse to attach, and then sends no "initialized"

ASSUME AdapterBounds ==
    /\ EventKinds \subseteq {"output", "all_stopped", "all_continued", "stopped", "continued"}
    /\ MaxEvents \in Nat
    /\ MayDie \in BOOLEAN
    /\ MayRefuse \in BOOLEAN

VARIABLES
    adapter,      \* the state of the adapter
    halted,       \* the threads it has stopped
    adapterIn,    \* commands on their way to it
    adapterOut,   \* messages it has sent and the DAP client has not read
    raised        \* how many events it has sent by itself

adapterVars == <<adapter, halted, adapterIn, adapterOut, raised>>

AdapterState == {"off", "running", "attaching", "attached", "gone", "dead"}

\* Events carry a number: 0 for "initialized", then the order of sending.
Event(kind, t, n) == [type |-> "event", kind |-> kind, thread |-> t, no |-> n]

Response(c) == [type |-> "response", command |-> c]

Initialized == Event("initialized", "none", 0)

Concerned(kind) == IF kind \in {"stopped", "continued"} THEN Threads ELSE {"none"}

\* The events it sends by itself.
Raised ==
    {m \in [type : {"event"}, kind : EventKinds, thread : Threads \union {"none"}, no : 1 .. MaxEvents] :
        m.thread \in Concerned(m.kind)}

AdapterOK ==
    /\ adapter \in AdapterState
    /\ halted \subseteq Threads
    /\ raised \in 0 .. MaxEvents

AdapterInit ==
    /\ adapter = "off"
    /\ halted = {}
    /\ adapterIn = <<>>
    /\ adapterOut = <<>>
    /\ raised = 0

AdapterStarts ==
    /\ adapter' = "running"
    /\ halted' = {}
    /\ adapterIn' = <<>>
    /\ adapterOut' = <<>>
    /\ UNCHANGED raised

Alive == adapter \in {"running", "attaching", "attached"}

\* Which messages answer the command c, and the state that follows.
Answers(c, parallel) ==
    CASE c = "attach" /\ adapter = "running" ->
            IF parallel THEN [to |-> "attaching", messages |-> {<<Initialized>>}]
                        ELSE [to |-> "attached", messages |-> {<<Initialized, Response(c)>>}]
      [] c = "configurationDone" /\ adapter = "attaching" ->
            [to |-> "attached", messages |-> {<<Response(c), Response("attach")>>,
                                              <<Response("attach"), Response(c)>>}]
      [] c = "disconnect" -> [to |-> "gone", messages |-> {<<Response(c)>>}]
      [] OTHER -> [to |-> adapter, messages |-> {<<Response(c)>>}]

AdapterAnswers(parallel) ==
    /\ Alive
    /\ adapterIn # <<>>
    /\ LET a == Answers(Head(adapterIn), parallel) IN
          /\ adapter' = a.to
          /\ \E m \in a.messages : adapterOut' = adapterOut \o m
          /\ halted' = IF a.to = "gone" THEN {} ELSE halted
    /\ adapterIn' = Tail(adapterIn)
    /\ UNCHANGED raised

\* The attach request is refused by a response, and nothing else has changed.
AdapterRefuses ==
    /\ MayRefuse
    /\ adapter = "running"
    /\ adapterIn # <<>> /\ Head(adapterIn) = "attach"
    /\ adapterIn' = Tail(adapterIn)
    /\ adapterOut' = Append(adapterOut, Response("attach"))
    /\ UNCHANGED <<adapter, halted, raised>>

\* The threads stopped once the event has been raised.
After(kind, t) ==
    CASE kind = "all_stopped"   -> Threads
      [] kind = "stopped"       -> halted \union {t}
      [] kind = "all_continued" -> {}
      [] kind = "continued"     -> halted \ {t}
      [] OTHER                  -> halted

AdapterRaises(kind, t) ==
    /\ adapter = "attached" \/ (kind = "output" /\ Alive)
    /\ kind = "output" \/ After(kind, t) # halted
    /\ raised < MaxEvents
    /\ raised' = raised + 1
    /\ halted' = After(kind, t)
    /\ adapterOut' = Append(adapterOut, Event(kind, t, raised + 1))
    /\ UNCHANGED <<adapter, adapterIn>>

AdapterDies ==
    /\ MayDie
    /\ Alive
    /\ adapter' = "dead"
    /\ UNCHANGED <<halted, adapterIn, adapterOut, raised>>

AdapterStep(parallel) ==
    \/ AdapterAnswers(parallel)
    \/ AdapterRefuses
    \/ \E kind \in EventKinds : \E t \in Concerned(kind) : AdapterRaises(kind, t)
    \/ AdapterDies

=============================================================================
