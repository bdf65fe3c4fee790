------------------------------ MODULE Handshake ------------------------------
(***************************************************************************)
(* The registration of kernels with the launcher: send_connection_info in  *)
(* the constructor of a server, and xhandshake_client_zmq at the other     *)
(* end.                                                                    *)
(*                                                                         *)
(* A kernel sends the ports it has bound, signed, and waits five seconds   *)
(* for the signed word "ACK".  The launcher calls wait_for_configuration   *)
(* once for each kernel it expects; it does not look at signatures, and    *)
(* signs with hmac-sha256 whatever it has been configured with.  Launcher  *)
(* and kernels have the same key.                                          *)
(***************************************************************************)
EXTENDS EndPoints, Functions

VARIABLES
    requests,   \* the registrations in the ROUTER socket of the launcher
    answer,     \* the scheme that the answer to each kernel is signed with
    configs     \* history: the configurations returned, and whose they are

vars == <<portVars, requests, answer, configs>>

Registration == [from : Kernels, ports : [Channels -> Ports \union {NoPort}]]

TypeOK ==
    /\ PortsOK
    /\ requests \subseteq Registration
    /\ answer \in [Kernels -> {"none", "hmac-sha256"}]
    /\ configs \in Seq(Registration)

Init ==
    /\ PortsInit
    /\ requests = {}
    /\ answer = [k \in Kernels |-> "none"]
    /\ configs = <<>>

-----------------------------------------------------------------------------
(* A kernel, once all its sockets are bound.                                *)

Run(k) == state' = [state EXCEPT ![k] = "running"]

\* The configuration of the kernel came with its ports: no registration.
RunAssigned(k) ==
    /\ AllBound(k)
    /\ setup[k].config = "assigned"
    /\ Run(k)
    /\ UNCHANGED <<setup, next, bound, endPoints, assigned, foreign>>
    /\ UNCHANGED <<requests, answer, configs>>

\* Variant: one socket is asked for the port of another.
UpdateConfigOfShell(k) == [c \in Channels |-> bound[k]["shell"]]

\* update_config: the ports as the sockets report them.
UpdateConfig(k) == bound[k]

\* The request of send_connection_info.
SendConnectionInfo(k) ==
    /\ AllBound(k)
    /\ setup[k].config = "registration"
    /\ state' = [state EXCEPT ![k] = "waiting"]
    /\ requests' = requests \union {[from |-> k, ports |-> UpdateConfig(k)]}
    /\ UNCHANGED <<setup, next, bound, endPoints, assigned, foreign, answer, configs>>

\* no_xauthentication accepts any signature, another scheme its own only.
Verifies(k) == setup[k].scheme \in {"none", answer[k]}

ReceiveAnswer(k) ==
    /\ state[k] = "waiting"
    /\ answer[k] # "none"
    /\ IF Verifies(k)
       THEN Run(k) /\ UNCHANGED <<setup, next, bound, endPoints, assigned, foreign>>
       ELSE Fail(k)
    /\ UNCHANGED <<requests, answer, configs>>

\* Variant: the result of the receive stands for that of the verification.
TimeOutRuns(k) ==
    /\ state[k] = "waiting"
    /\ answer[k] = "none"
    /\ Run(k)
    /\ UNCHANGED <<setup, next, bound, endPoints, assigned, foreign>>
    /\ UNCHANGED <<requests, answer, configs>>

\* Variant: the socket has no timeout.
TimeOutNever(k) == FALSE

\* The five seconds are over.  The result of recv is not looked at, and three
\* frames are popped off a message that has none, which is undefined: the
\* process ends there, or what was popped is verified, in vain unless the
\* scheme is "none".
TimeOut(k) ==
    /\ state[k] = "waiting"
    /\ answer[k] = "none"
    /\ \/ Fail(k)
       \/ /\ setup[k].scheme = "none"
          /\ Run(k)
          /\ UNCHANGED <<setup, next, bound, endPoints, assigned, foreign>>
    /\ UNCHANGED <<requests, answer, configs>>

Construct(k) ==
    \/ Bind(k) /\ UNCHANGED <<requests, answer, configs>>
    \/ RunAssigned(k) \/ SendConnectionInfo(k) \/ ReceiveAnswer(k) \/ TimeOut(k)

-----------------------------------------------------------------------------
(* The launcher.                                                            *)

\* The registrations of different kernels arrive in any order.  The answer to a
\* kernel that has gone is dropped by the ROUTER socket; its configuration is
\* returned all the same.
WaitForConfiguration ==
    /\ \E r \in requests :
          /\ configs' = Append(configs, r)
          /\ requests' = requests \ {r}
          /\ answer' = IF state[r.from] = "waiting"
                       THEN [answer EXCEPT ![r.from] = "hmac-sha256"]
                       ELSE answer
    /\ UNCHANGED portVars

-----------------------------------------------------------------------------
Next ==
    \/ \E k \in Kernels : Construct(k)
    \/ WaitForConfiguration
    \/ Environment /\ UNCHANGED <<requests, answer, configs>>

Spec == Init /\ [][Next]_vars

\* The constructors go on, the timeout of recv included.  The launcher may never
\* wait for a configuration.
Fairness == \A k \in Kernels : WF_vars(Construct(k))

FairSpec == Spec /\ Fairness

-----------------------------------------------------------------------------
Configuration(k) == {configs[i] : i \in {i \in DOMAIN configs : configs[i].from = k}}

\* Whoever wants to talk to a kernel that runs knows the ports of its sockets:
\* it holds those of its connection file, or the launcher has been given those
\* it holds.  The exceptions are in the code: an unanswered kernel that checks
\* no signatures (xhandshaking.cpp:77-87).
RunningKernelsAreKnown ==
    \A k \in Kernels :
        state[k] = "running" =>
            \/ setup[k].config = "assigned" /\ bound[k] = assigned[k]
            \/ setup[k].config = "registration" /\ \E r \in Configuration(k) : r.ports = bound[k]
            \/ setup[k].config = "registration" /\ setup[k].scheme = "none" /\ answer[k] = "none"

\* A configuration the launcher has been given, or is about to be, leads to the
\* kernel that sent it and to no other, as long as this kernel has not given up
\* or ended: no port of it is held by anyone else, however many searches, binds
\* and ends of other kernels come in between.
ConfigurationsLeadHome ==
    \A r \in requests \union Range(configs) :
        state[r.from] \in {"waiting", "running"} =>
            /\ r.ports = bound[r.from]
            /\ \A k \in Kernels \ {r.from}, c, d \in Channels :
                  r.ports[c] # NoPort => bound[k][d] # r.ports[c]

\* A context never has two servers whose threads would be stopped through the
\* same end points: of two kernels in one context one fails, before it has
\* registered (xheartbeat.cpp:30, xpublisher.cpp:34-36, xshell.cpp:41).
OneServerPerContext ==
    \A k, l \in Sharing :
        k # l => ~ {state[k], state[l]} \subseteq {"waiting", "running"}

\* The constructor of a server ends, with a kernel that runs or with an
\* exception, whether or not a launcher answers.
ConstructionEnds ==
    \A k \in Kernels : state[k] = "binding" ~> state[k] \in {"running", "failed"}

=============================================================================
