------------------------------ MODULE EndPoints ------------------------------
(***************************************************************************)
(* The end points of a kernel: the ports of its channels and the inproc    *)
(* end points of its controllers and publisher, bound one after another by *)
(* the constructor of its server.                                          *)
(*                                                                         *)
(* A port is free, or held by one socket of one process of the host.  An   *)
(* inproc end point is free, or held within its context.  A search for a   *)
(* port draws from a range whose last value, 65536, is not a port: each    *)
(* search may find any port that is free then, or none.                    *)
(***************************************************************************)
EXTENDS Naturals, Sequences, FiniteSets, Subsequences

CONSTANTS
    Kernels,    \* the servers constructed, one after another or together
    Sockets,    \* the sockets of a server that the instance looks at
    Ports,      \* the ports of the range
    NoPort,     \* the port of a socket that is not bound: the empty string
    Launches,   \* what the kernels may be launched with
    MaxForeign  \* how many ports other processes hold at a time

Channels == {"control", "shell", "stdin", "iopub", "hb"} \intersect Sockets

EndPointNames ==
    {"publisher", "publisher_controller", "heartbeat_controller", "shell_controller"}
        \intersect Sockets

\* What the parts of a server bind, in this order.
ControlSockets == <<"control">>
HeartbeatSockets == <<"hb", "heartbeat_controller">>
PublisherSockets == <<"iopub", "publisher", "publisher_controller">>
ShellSockets == <<"shell", "stdin", "shell_controller">>

\* The order in which the two constructors build their parts.
SplitOrder == ControlSockets \o HeartbeatSockets \o PublisherSockets \o ShellSockets

DefaultOrder == PublisherSockets \o HeartbeatSockets \o <<"shell", "control", "stdin">>

\* variant: the class of the server.  config: ports assigned by the launcher,
\* or registration.  scheme: m_signature_scheme.  context: a ZeroMQ context of its
\* own, or that of all the kernels that share one.
Setup == [variant : {"split", "default"},
          config  : {"assigned", "registration"},
          scheme  : {"hmac-sha256", "hmac-sha512", "none"},
          context : {"own", "shared"}]

\* Both kinds of servers have a publisher and a heartbeat: an instance looks at
\* one of their inproc end points at least.
ASSUME EndPointsAssumption ==
    /\ EndPointNames \ {"shell_controller"} # {}
    /\ Launches \subseteq [Kernels -> Setup]
    /\ NoPort \notin Ports
    /\ MaxForeign \in Nat

VARIABLES
    setup,      \* what each kernel is launched with
    state,      \* where each kernel is
    next,       \* which socket its constructor binds next
    bound,      \* the port of each channel, as get_socket_port reports it
    endPoints,  \* the inproc end points it has bound
    assigned,   \* the ports of its connection file
    foreign     \* ports held by other processes

portVars == <<setup, state, next, bound, endPoints, assigned, foreign>>

KernelState ==
    {"unborn", "binding", "waiting", "running", "failed", "ended"}

Unbound == [c \in Channels |-> NoPort]

PortsOK ==
    /\ setup \in Launches
    /\ state \in [Kernels -> KernelState]
    /\ next \in [Kernels -> Nat]
    /\ bound \in [Kernels -> [Channels -> Ports \union {NoPort}]]
    /\ endPoints \in [Kernels -> SUBSET EndPointNames]
    /\ assigned \in [Kernels -> [Channels -> Ports \union {NoPort}]]
    /\ foreign \subseteq Ports

PortsInit ==
    /\ setup \in Launches
    /\ state = [k \in Kernels |-> "unborn"]
    /\ next = [k \in Kernels |-> 1]
    /\ bound = [k \in Kernels |-> Unbound]
    /\ endPoints = [k \in Kernels |-> {}]
    /\ assigned = [k \in Kernels |-> Unbound]
    /\ foreign = {}

-----------------------------------------------------------------------------
Held == foreign \union {bound[k][c] : k \in Kernels, c \in Channels}

Free == Ports \ Held

\* The sockets of a server, in the order of their binding.
Order(k) == Only(IF setup[k].variant = "split" THEN SplitOrder ELSE DefaultOrder, Sockets)

\* Variant: the last value of the range is taken for a port.
FindFreePortImplPastEnd == Free \union {NoPort, 65536}

\* What find_free_port_impl may return: "" when max_tries draws have failed.
FindFreePortImpl == Free \union {NoPort}

\* The launcher looks for the ports of a connection file.  The socket that has
\* found one is closed again: the port stays free.  A search that fails throws.
FindFreePort(k, c) ==
    /\ state[k] = "unborn"
    /\ setup[k].config = "assigned"
    /\ assigned[k][c] = NoPort
    /\ \E p \in FindFreePortImpl \ {NoPort} : assigned' = [assigned EXCEPT ![k][c] = p]
    /\ UNCHANGED <<setup, state, next, bound, endPoints, foreign>>

\* The process of a kernel is started.
Launch(k) ==
    /\ state[k] = "unborn"
    /\ setup[k].config = "assigned" => \A c \in Channels : assigned[k][c] # NoPort
    /\ state' = [state EXCEPT ![k] = "binding"]
    /\ UNCHANGED <<setup, next, bound, endPoints, assigned, foreign>>

\* The exception leaves the constructor: the members built so far are destroyed,
\* and their sockets closed.
Fail(k) ==
    /\ state' = [state EXCEPT ![k] = "failed"]
    /\ bound' = [bound EXCEPT ![k] = Unbound]
    /\ endPoints' = [endPoints EXCEPT ![k] = {}]
    /\ UNCHANGED <<setup, next, assigned, foreign>>

Binding(k, s) ==
    /\ state[k] = "binding"
    /\ next[k] \in DOMAIN Order(k)
    /\ s = Order(k)[next[k]]

\* init_socket of a channel with an empty port: a search that fails goes unnoticed.
BindFreePort(k, c) ==
    /\ Binding(k, c)
    /\ setup[k].config = "registration"
    /\ \E p \in FindFreePortImpl : bound' = [bound EXCEPT ![k][c] = p]
    /\ next' = [next EXCEPT ![k] = @ + 1]
    /\ UNCHANGED <<setup, state, endPoints, assigned, foreign>>

\* init_socket of a channel with a port: bind throws if the port is held.
BindAssignedPort(k, c) ==
    /\ Binding(k, c)
    /\ setup[k].config = "assigned"
    /\ \/ /\ assigned[k][c] \in Free
          /\ bound' = [bound EXCEPT ![k][c] = assigned[k][c]]
          /\ next' = [next EXCEPT ![k] = @ + 1]
          /\ UNCHANGED <<setup, state, endPoints, assigned, foreign>>
       \/ /\ assigned[k][c] \notin Free
          /\ Fail(k)

Sharing == {l \in Kernels : setup[l].context = "shared"}

\* Variant: the names of the inproc end points are a server's own.
BindEndPointOfServer(k, e) ==
    /\ Binding(k, e)
    /\ endPoints' = [endPoints EXCEPT ![k] = @ \union {e}]
    /\ next' = [next EXCEPT ![k] = @ + 1]
    /\ UNCHANGED <<setup, state, bound, assigned, foreign>>

\* The names of the inproc end points are the same in every server.
BindEndPoint(k, e) ==
    /\ Binding(k, e)
    /\ IF setup[k].context = "shared" /\ \E l \in Sharing : e \in endPoints[l]
       THEN Fail(k)
       ELSE /\ endPoints' = [endPoints EXCEPT ![k] = @ \union {e}]
            /\ next' = [next EXCEPT ![k] = @ + 1]
            /\ UNCHANGED <<setup, state, bound, assigned, foreign>>

AllBound(k) == state[k] = "binding" /\ next[k] > Len(Order(k))

\* A kernel ends, and its sockets are closed.
End(k) ==
    /\ state[k] = "running"
    /\ state' = [state EXCEPT ![k] = "ended"]
    /\ bound' = [bound EXCEPT ![k] = Unbound]
    /\ endPoints' = [endPoints EXCEPT ![k] = {}]
    /\ UNCHANGED <<setup, next, assigned, foreign>>

\* Other processes bind and close sockets of theirs.
OthersBind(p) ==
    /\ p \in Free
    /\ Cardinality(foreign) < MaxForeign
    /\ foreign' = foreign \union {p}
    /\ UNCHANGED <<setup, state, next, bound, endPoints, assigned>>

OthersClose(p) ==
    /\ p \in foreign
    /\ foreign' = foreign \ {p}
    /\ UNCHANGED <<setup, state, next, bound, endPoints, assigned>>

Bind(k) ==
    \/ \E c \in Channels : BindFreePort(k, c) \/ BindAssignedPort(k, c)
    \/ \E e \in EndPointNames : BindEndPoint(k, e)

Environment ==
    \/ \E p \in Ports : OthersBind(p) \/ OthersClose(p)
    \/ \E k \in Kernels : Launch(k) \/ End(k)
    \/ \E k \in Kernels, c \in Channels : FindFreePort(k, c)

=============================================================================
