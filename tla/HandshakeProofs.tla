--------------------------- MODULE HandshakeProofs ---------------------------
(***************************************************************************)
(* The registration of kernels, for any number of kernels, sockets, ports  *)
(* and other processes.                                                    *)
(***************************************************************************)
EXTENDS Handshake, SubsequenceProofs

-----------------------------------------------------------------------------
(* The inductive invariant.                                                 *)

\* No two kernels hold one port.
ExclusiveInv ==
    \A k, l \in Kernels : \A c, d \in Channels :
        k # l /\ bound[k][c] # NoPort => bound[k][c] # bound[l][d]

\* Who has registered has bound all its sockets, and binds no more.
RegisteredInv ==
    \A r \in requests \union Range(configs) :
        /\ state[r.from] \notin {"unborn", "binding"}
        /\ state[r.from] \in {"waiting", "running"} => r.ports = bound[r.from]

IInv == TypeOK /\ ExclusiveInv /\ RegisteredInv

-----------------------------------------------------------------------------
\* What is left when the sockets of a kernel are closed.
LEMMA Closed == Unbound \in [Channels -> Ports \union {NoPort}]
  BY DEF Unbound

\* Every step of a constructor keeps the type of the state.
LEMMA ConstructType ==
    ASSUME TypeOK, NEW k \in Kernels, Construct(k)
    PROVE  TypeOK'
  <1> USE DEF TypeOK, PortsOK, KernelState
  <1>1. ASSUME Fail(k), UNCHANGED <<requests, answer, configs>> PROVE TypeOK'
    BY <1>1, Closed DEF Fail
  <1>2. ASSUME Run(k), UNCHANGED <<setup, next, bound, endPoints, assigned, foreign>>,
               UNCHANGED <<requests, answer, configs>>
        PROVE  TypeOK'
    BY <1>2 DEF Run
  <1>3. ASSUME NEW c \in Channels, BindFreePort(k, c), UNCHANGED <<requests, answer, configs>>
        PROVE  TypeOK'
    <2>1. PICK p \in Ports \union {NoPort} : bound' = [bound EXCEPT ![k][c] = p]
      BY <1>3 DEF BindFreePort, FindFreePortImpl, Free
    <2>2. bound' \in [Kernels -> [Channels -> Ports \union {NoPort}]]
      BY <2>1
    <2>3. next' \in [Kernels -> Nat]
      BY <1>3 DEF BindFreePort
    <2>4. QED
      BY <1>3, <2>2, <2>3 DEF BindFreePort
  <1>4. ASSUME NEW c \in Channels, BindAssignedPort(k, c), UNCHANGED <<requests, answer, configs>>
        PROVE  TypeOK'
    <2>1. CASE Fail(k)
      BY <1>1, <1>4, <2>1
    <2>2. CASE /\ bound' = [bound EXCEPT ![k][c] = assigned[k][c]]
               /\ next' = [next EXCEPT ![k] = @ + 1]
               /\ UNCHANGED <<setup, state, endPoints, assigned, foreign>>
      <3>1. bound' \in [Kernels -> [Channels -> Ports \union {NoPort}]]
        BY <2>2
      <3>2. next' \in [Kernels -> Nat]
        BY <2>2
      <3>3. QED
        BY <1>4, <2>2, <3>1, <3>2
    <2>3. QED
      BY <1>4, <2>1, <2>2 DEF BindAssignedPort
  <1>5. ASSUME NEW e \in EndPointNames, BindEndPoint(k, e), UNCHANGED <<requests, answer, configs>>
        PROVE  TypeOK'
    <2>1. CASE Fail(k)
      BY <1>1, <1>5, <2>1
    <2>2. CASE /\ endPoints' = [endPoints EXCEPT ![k] = @ \union {e}]
               /\ next' = [next EXCEPT ![k] = @ + 1]
               /\ UNCHANGED <<setup, state, bound, assigned, foreign>>
      <3>1. endPoints' \in [Kernels -> SUBSET EndPointNames] /\ next' \in [Kernels -> Nat]
        BY <2>2
      <3>2. QED
        BY <1>5, <2>2, <3>1
    <2>3. QED
      BY <1>5, <2>1, <2>2 DEF BindEndPoint
  <1>6. CASE SendConnectionInfo(k)
    <2>1. [from |-> k, ports |-> bound[k]] \in Registration
      BY DEF Registration
    <2>2. QED
      BY <1>6, <2>1 DEF SendConnectionInfo, UpdateConfig
  <1>7. QED
    BY <1>1, <1>2, <1>3, <1>4, <1>5, <1>6
       DEF Construct, Bind, RunAssigned, ReceiveAnswer, TimeOut

\* So does every other step.
LEMMA OthersType ==
    ASSUME TypeOK,
           \/ WaitForConfiguration
           \/ Environment /\ UNCHANGED <<requests, answer, configs>>
           \/ UNCHANGED vars
    PROVE  TypeOK'
  <1> USE DEF TypeOK, PortsOK, KernelState
  <1>1. CASE WaitForConfiguration
    <2>1. PICK r \in requests :
            /\ configs' = Append(configs, r)
            /\ requests' = requests \ {r}
            /\ answer' = answer \/ answer' = [answer EXCEPT ![r.from] = "hmac-sha256"]
      BY <1>1 DEF WaitForConfiguration
    <2>2. configs' \in Seq(Registration) /\ requests' \subseteq Registration
      BY <2>1
    <2>3. answer' \in [Kernels -> {"none", "hmac-sha256"}]
      BY <2>1
    <2>4. QED
      BY <1>1, <2>2, <2>3 DEF WaitForConfiguration, portVars
  <1>2. ASSUME NEW p \in Ports, OthersBind(p) \/ OthersClose(p), UNCHANGED <<requests, answer, configs>>
        PROVE  TypeOK'
    BY <1>2 DEF OthersBind, OthersClose
  <1>3. ASSUME NEW k \in Kernels, Launch(k), UNCHANGED <<requests, answer, configs>>
        PROVE  TypeOK'
    BY <1>3 DEF Launch
  <1>4. ASSUME NEW k \in Kernels, End(k), UNCHANGED <<requests, answer, configs>>
        PROVE  TypeOK'
    BY <1>4, Closed DEF End
  <1>5. ASSUME NEW k \in Kernels, NEW c \in Channels, FindFreePort(k, c),
               UNCHANGED <<requests, answer, configs>>
        PROVE  TypeOK'
    <2>1. PICK p \in Ports : assigned' = [assigned EXCEPT ![k][c] = p]
      BY <1>5 DEF FindFreePort, FindFreePortImpl, Free
    <2>2. assigned' \in [Kernels -> [Channels -> Ports \union {NoPort}]]
      BY <2>1
    <2>3. QED
      BY <1>5, <2>2 DEF FindFreePort
  <1>6. CASE UNCHANGED vars
    BY <1>6 DEF vars, portVars
  <1>7. QED
    BY <1>1, <1>2, <1>3, <1>4, <1>5, <1>6 DEF Environment

\* Every step keeps the type of the state.
LEMMA TypeStep == TypeOK /\ [Next]_vars => TypeOK'
  BY ConstructType, OthersType DEF Next

-----------------------------------------------------------------------------
(* Ports are held by one kernel.                                            *)

\* Closing the sockets of a kernel, or leaving them as they are, shares no port.
LEMMA ClosingExcludes ==
    ASSUME TypeOK, ExclusiveInv,
           \/ UNCHANGED bound
           \/ \E k \in Kernels : bound' = [bound EXCEPT ![k] = Unbound]
    PROVE  ExclusiveInv'
  <1>1. CASE UNCHANGED bound
    BY <1>1 DEF ExclusiveInv
  <1>2. ASSUME NEW k \in Kernels, bound' = [bound EXCEPT ![k] = Unbound]
        PROVE  ExclusiveInv'
    <2>1. SUFFICES ASSUME NEW l \in Kernels, NEW m \in Kernels, NEW c \in Channels, NEW d \in Channels,
                          l # m, bound'[l][c] # NoPort
                   PROVE  bound'[l][c] # bound'[m][d]
      BY DEF ExclusiveInv
    <2>2. l # k /\ bound'[l] = bound[l]
      BY <1>2, <2>1 DEF TypeOK, PortsOK, Unbound
    <2>3. CASE m = k
      BY <1>2, <2>1, <2>3 DEF TypeOK, PortsOK, Unbound
    <2>4. CASE m # k
      BY <1>2, <2>1, <2>2, <2>4 DEF TypeOK, PortsOK, ExclusiveInv
    <2>5. QED
      BY <2>3, <2>4
  <1>3. QED
    BY <1>1, <1>2

\* bind succeeds with a port that nobody holds (xmiddleware.cpp:77-92).
LEMMA BindingExcludes ==
    ASSUME TypeOK, ExclusiveInv, NEW k \in Kernels, NEW c \in Channels,
           NEW p \in Free \union {NoPort}, bound' = [bound EXCEPT ![k][c] = p]
    PROVE  ExclusiveInv'
  <1>1. \A l \in Kernels : \A d \in Channels : p # NoPort => bound[l][d] # p
    BY DEF Free, Held
  <1>2. \A l \in Kernels : \A d \in Channels :
            bound'[l][d] = IF l = k /\ d = c THEN p ELSE bound[l][d]
    BY DEF TypeOK, PortsOK
  <1>3. QED
    BY <1>1, <1>2 DEF ExclusiveInv

\* No step gives a port to a second kernel: a constructor binds what is free, or
\* throws (xmiddleware.cpp:77-92).
LEMMA ExclusiveStep == TypeOK /\ ExclusiveInv /\ [Next]_vars => ExclusiveInv'
  <1> SUFFICES ASSUME TypeOK, ExclusiveInv, [Next]_vars PROVE ExclusiveInv'
    OBVIOUS
  <1>1. ASSUME NEW k \in Kernels, NEW c \in Channels, BindFreePort(k, c) PROVE ExclusiveInv'
    BY <1>1, BindingExcludes DEF BindFreePort, FindFreePortImpl
  <1>2. ASSUME NEW k \in Kernels, NEW c \in Channels, BindAssignedPort(k, c) PROVE ExclusiveInv'
    BY <1>2, BindingExcludes, ClosingExcludes DEF BindAssignedPort, Fail
  <1>3. ASSUME NEW k \in Kernels, NEW e \in EndPointNames, BindEndPoint(k, e) PROVE ExclusiveInv'
    BY <1>3, ClosingExcludes DEF BindEndPoint, Fail
  <1>4. ASSUME NEW k \in Kernels,
               \/ RunAssigned(k) \/ SendConnectionInfo(k) \/ ReceiveAnswer(k) \/ TimeOut(k)
        PROVE  ExclusiveInv'
    BY <1>4, ClosingExcludes DEF RunAssigned, SendConnectionInfo, ReceiveAnswer, TimeOut, Fail
  <1>5. CASE WaitForConfiguration
    BY <1>5, ClosingExcludes DEF WaitForConfiguration, portVars
  <1>6. CASE Environment
    BY <1>6, ClosingExcludes DEF Environment, OthersBind, OthersClose, Launch, End, FindFreePort
  <1>7. CASE UNCHANGED vars
    BY <1>7, ClosingExcludes DEF vars, portVars
  <1>8. QED
    BY <1>1, <1>2, <1>3, <1>4, <1>5, <1>6, <1>7 DEF Next, Construct, Bind

-----------------------------------------------------------------------------
(* What a registration says remains true.                                   *)

\* A step that registers nobody, and after which the sockets of whoever has
\* registered are as they were, or the kernel has failed or ended.
LEMMA RegisteredKept ==
    ASSUME RegisteredInv,
           requests' \union Range(configs') \subseteq requests \union Range(configs),
           \A k \in Kernels :
              state[k] \notin {"unborn", "binding"} =>
                  /\ state'[k] \notin {"unborn", "binding"}
                  /\ state'[k] \in {"waiting", "running"} =>
                        state[k] \in {"waiting", "running"} /\ bound'[k] = bound[k],
           \A r \in requests \union Range(configs) : r.from \in Kernels
    PROVE  RegisteredInv'
  <1>1. SUFFICES ASSUME NEW r \in requests' \union Range(configs')
                 PROVE  /\ state'[r.from] \notin {"unborn", "binding"}
                        /\ state'[r.from] \in {"waiting", "running"} => r.ports = bound'[r.from]
    BY DEF RegisteredInv
  <1>2. r \in requests \union Range(configs) /\ r.from \in Kernels
    BY <1>1
  <1>3. /\ state[r.from] \notin {"unborn", "binding"}
        /\ state[r.from] \in {"waiting", "running"} => r.ports = bound[r.from]
    BY <1>2 DEF RegisteredInv
  <1>4. QED
    BY <1>2, <1>3

\* Whoever has registered is a kernel.
LEMMA Registrants ==
    ASSUME TypeOK
    PROVE  \A r \in requests \union Range(configs) : r.from \in Kernels
  <1>1. requests \subseteq Registration /\ configs \in Seq(Registration)
    BY DEF TypeOK
  <1>2. \A i \in DOMAIN configs : configs[i] \in Registration
    BY <1>1
  <1>3. Range(configs) \subseteq Registration
    BY <1>2 DEF Range
  <1>4. QED
    BY <1>1, <1>3 DEF Registration

\* What a step of kernel k leaves alone.
LEMMA KernelStep ==
    ASSUME TypeOK, RegisteredInv, NEW k \in Kernels, UNCHANGED <<requests, configs>>,
           \A l \in Kernels \ {k} : state'[l] = state[l] /\ bound'[l] = bound[l],
           \/ state[k] \in {"unborn", "binding"}
           \/ state'[k] \in {"failed", "ended"}
           \/ /\ state[k] = "waiting" /\ state'[k] = "running"
              /\ bound'[k] = bound[k]
           \/ state'[k] = state[k] /\ bound'[k] = bound[k]
    PROVE  RegisteredInv'
  <1>1. ASSUME NEW l \in Kernels, state[l] \notin {"unborn", "binding"}
        PROVE  /\ state'[l] \notin {"unborn", "binding"}
               /\ state'[l] \in {"waiting", "running"} =>
                     state[l] \in {"waiting", "running"} /\ bound'[l] = bound[l]
    BY <1>1
  <1>2. QED
    BY <1>1, Registrants, RegisteredKept

\* No step makes a registration untrue while its kernel waits or runs
\* (xhandshaking.cpp:56-87).
LEMMA RegisteredStep == TypeOK /\ RegisteredInv /\ [Next]_vars => RegisteredInv'
  <1> SUFFICES ASSUME TypeOK, RegisteredInv, [Next]_vars PROVE RegisteredInv'
    OBVIOUS
  <1> USE DEF TypeOK, PortsOK
  <1>1. ASSUME NEW k \in Kernels, Bind(k), UNCHANGED <<requests, answer, configs>>
        PROVE  RegisteredInv'
    <2>1. state[k] = "binding"
      BY <1>1 DEF Bind, BindFreePort, BindAssignedPort, BindEndPoint, Binding
    <2>2. \A l \in Kernels \ {k} : state'[l] = state[l] /\ bound'[l] = bound[l]
      BY <1>1 DEF Bind, BindFreePort, BindAssignedPort, BindEndPoint, Fail
    <2>3. QED
      BY <1>1, <2>1, <2>2, KernelStep
  <1>2. ASSUME NEW k \in Kernels, RunAssigned(k) PROVE RegisteredInv'
    <2>1. state[k] = "binding" /\ \A l \in Kernels \ {k} : state'[l] = state[l] /\ bound'[l] = bound[l]
      BY <1>2 DEF RunAssigned, AllBound, Run
    <2>2. QED
      BY <1>2, <2>1, KernelStep DEF RunAssigned
  <1>3. ASSUME NEW k \in Kernels, SendConnectionInfo(k) PROVE RegisteredInv'
    <2>1. /\ state[k] = "binding" /\ state'[k] = "waiting" /\ bound' = bound /\ configs' = configs
          /\ requests' = requests \union {[from |-> k, ports |-> bound[k]]}
          /\ \A l \in Kernels \ {k} : state'[l] = state[l]
      BY <1>3 DEF SendConnectionInfo, AllBound, UpdateConfig
    <2>2. \A r \in requests \union Range(configs) : r.from \in Kernels /\ r.from # k
      BY <2>1, Registrants DEF RegisteredInv
    <2>3. QED
      BY <2>1, <2>2 DEF RegisteredInv
  <1>4. ASSUME NEW k \in Kernels, ReceiveAnswer(k) \/ TimeOut(k) PROVE RegisteredInv'
    <2>1. /\ \A l \in Kernels \ {k} : state'[l] = state[l] /\ bound'[l] = bound[l]
          /\ \/ state'[k] = "failed"
             \/ state[k] = "waiting" /\ state'[k] = "running" /\ bound'[k] = bound[k]
          /\ UNCHANGED <<requests, configs>>
      BY <1>4 DEF ReceiveAnswer, TimeOut, Run, Fail
    <2>2. QED
      BY <2>1, KernelStep
  <1>5. CASE WaitForConfiguration
    <2>1. PICK r \in requests : configs' = Append(configs, r) /\ requests' = requests \ {r}
      BY <1>5 DEF WaitForConfiguration
    <2>2. Range(configs') \subseteq Range(configs) \union {r}
      <3>1. configs \in Seq(Registration)
        OBVIOUS
      <3>2. ASSUME NEW i \in DOMAIN configs' PROVE configs'[i] \in Range(configs) \union {r}
        BY <2>1, <3>1 DEF Range
      <3>3. QED
        BY <3>2 DEF Range
    <2>3. state' = state /\ bound' = bound
      BY <1>5 DEF WaitForConfiguration, portVars
    <2>4. QED
      BY <2>1, <2>2, <2>3 DEF RegisteredInv
  <1>6. ASSUME NEW k \in Kernels, Launch(k) \/ End(k), UNCHANGED <<requests, answer, configs>>
        PROVE  RegisteredInv'
    <2>1. /\ \A l \in Kernels \ {k} : state'[l] = state[l] /\ bound'[l] = bound[l]
          /\ state[k] = "unborn" \/ state'[k] = "ended"
      BY <1>6 DEF Launch, End
    <2>2. QED
      BY <1>6, <2>1, KernelStep
  <1>7. CASE UNCHANGED <<state, bound, requests, configs>>
    BY <1>7 DEF RegisteredInv
  <1>8. QED
    BY <1>1, <1>2, <1>3, <1>4, <1>5, <1>6, <1>7
       DEF Next, Construct, Environment, OthersBind, OthersClose, FindFreePort, vars, portVars

-----------------------------------------------------------------------------
\* The invariant holds before the first kernel is launched.
LEMMA InitInv == Init => IInv
  <1> SUFFICES ASSUME Init PROVE IInv
    OBVIOUS
  <1>1. TypeOK
    BY Closed DEF Init, PortsInit, TypeOK, PortsOK, KernelState
  <1>2. ExclusiveInv
    BY DEF Init, PortsInit, ExclusiveInv, Unbound
  <1>3. RegisteredInv
    BY DEF Init, RegisteredInv, Range
  <1>4. QED
    BY <1>1, <1>2, <1>3 DEF IInv

\* The inductive invariant of the registration.
THEOREM Invariance == Spec => []IInv
  <1>1. IInv /\ [Next]_vars => IInv'
    BY TypeStep, ExclusiveStep, RegisteredStep DEF IInv
  <1>2. QED
    BY <1>1, InitInv, PTL DEF Spec

\* Launcher and kernels keep to the types of their state.
THEOREM TypeCorrect == Spec => []TypeOK
  BY Invariance, PTL DEF IInv

\* A configuration leads to the kernel that sent it, and to no other, as long as
\* this kernel waits or runs (xhandshaking.cpp:56-87, xmiddleware.cpp:77-92).
THEOREM ConfigurationsAreTrue == Spec => []ConfigurationsLeadHome
  <1>1. IInv => ConfigurationsLeadHome
    <2> SUFFICES ASSUME IInv, NEW r \in requests \union Range(configs),
                        state[r.from] \in {"waiting", "running"}
                 PROVE  /\ r.ports = bound[r.from]
                        /\ \A k \in Kernels \ {r.from}, c, d \in Channels :
                              r.ports[c] # NoPort => bound[k][d] # r.ports[c]
      BY DEF ConfigurationsLeadHome
    <2>1. r.ports = bound[r.from] /\ r.from \in Kernels
      BY Registrants DEF IInv, RegisteredInv
    <2>2. QED
      BY <2>1 DEF IInv, ExclusiveInv
  <1>2. QED
    BY <1>1, Invariance, PTL

-----------------------------------------------------------------------------
(* What the constructor of a server has bound.                              *)

Names == {"control", "shell", "stdin", "iopub", "hb",
          "publisher", "publisher_controller", "heartbeat_controller", "shell_controller"}

\* What a kernel has bound when its constructor has come so far: its end points,
\* and the ports of its connection file.
Progress(k) ==
    /\ state[k] = "unborn" => next[k] = 1
    /\ state[k] \in {"waiting", "running"} => next[k] > Len(Order(k))
    /\ state[k] \in {"binding", "waiting", "running"} =>
          \A i \in 1 .. Len(Order(k)) : i < next[k] =>
              /\ Order(k)[i] \in EndPointNames => Order(k)[i] \in endPoints[k]
              /\ setup[k].config = "assigned" /\ Order(k)[i] \in Channels =>
                    bound[k][Order(k)[i]] = assigned[k][Order(k)[i]]

\* No end point is bound twice in one context.
EndPointInv ==
    \A k, l \in Sharing : k # l => endPoints[k] \intersect endPoints[l] = {}

BindInv == (\A k \in Kernels : Progress(k)) /\ EndPointInv

LEMMA Orders ==
    /\ SplitOrder \in Seq(Names) /\ DefaultOrder \in Seq(Names)
    /\ Range(SplitOrder) = Names
    /\ Range(DefaultOrder) = Names \ {"shell_controller"}
  <1> DEFINE a == ControlSockets
             b == HeartbeatSockets
             c == PublisherSockets
             d == ShellSockets
             e == <<"shell", "control", "stdin">>
  <1>1. /\ a \in Seq(Names) /\ b \in Seq(Names) /\ c \in Seq(Names)
        /\ d \in Seq(Names) /\ e \in Seq(Names)
    BY DEF Names, ControlSockets, HeartbeatSockets, PublisherSockets, ShellSockets
  <1>2. /\ Range(a) = {"control"}
        /\ Range(b) = {"hb", "heartbeat_controller"}
        /\ Range(c) = {"iopub", "publisher", "publisher_controller"}
        /\ Range(d) = {"shell", "stdin", "shell_controller"}
        /\ Range(e) = {"shell", "control", "stdin"}
    BY DEF Range, ControlSockets, HeartbeatSockets, PublisherSockets, ShellSockets
  <1>3. SplitOrder = ((a \o b) \o c) \o d /\ DefaultOrder = (c \o b) \o e
    BY DEF SplitOrder, DefaultOrder
  <1> HIDE DEF a, b, c, d, e
  <1>4. /\ a \o b \in Seq(Names) /\ Range(a \o b) = Range(a) \union Range(b)
        /\ c \o b \in Seq(Names) /\ Range(c \o b) = Range(c) \union Range(b)
    BY <1>1, ConcatProperties, RangeConcatenation
  <1> DEFINE ab == a \o b
             cb == c \o b
  <1>5. ab \in Seq(Names) /\ cb \in Seq(Names)
    BY <1>4
  <1> HIDE DEF ab, cb
  <1>6. /\ ab \o c \in Seq(Names) /\ Range(ab \o c) = Range(ab) \union Range(c)
        /\ cb \o e \in Seq(Names) /\ Range(cb \o e) = Range(cb) \union Range(e)
    BY <1>1, <1>5, ConcatProperties, RangeConcatenation
  <1> DEFINE abc == ab \o c
  <1>7. abc \in Seq(Names)
    BY <1>6
  <1> HIDE DEF abc
  <1>8. abc \o d \in Seq(Names) /\ Range(abc \o d) = Range(abc) \union Range(d)
    BY <1>1, <1>7, ConcatProperties, RangeConcatenation
  <1>9. SplitOrder = abc \o d /\ DefaultOrder = cb \o e
    BY <1>3 DEF ab, abc, cb
  <1>10. Range(abc) = Range(ab) \union Range(c) /\ Range(ab) = Range(a) \union Range(b)
         /\ Range(cb) = Range(c) \union Range(b)
    BY <1>4, <1>6 DEF ab, abc, cb
  <1>11. Range(SplitOrder) = Range(a) \union Range(b) \union Range(c) \union Range(d)
         /\ Range(DefaultOrder) = Range(c) \union Range(b) \union Range(e)
    BY <1>6, <1>8, <1>9, <1>10
  <1>12. QED
    BY <1>2, <1>6, <1>8, <1>9, <1>11 DEF Names

\* The order of a server has its end points and channels, and nothing else.
LEMMA OrderIs ==
    ASSUME NEW k \in Kernels
    PROVE  /\ Order(k) \in Seq(Names) /\ Len(Order(k)) \in Nat
           /\ \A s \in Channels \union (EndPointNames \ {"shell_controller"}) :
                 \E i \in 1 .. Len(Order(k)) : Order(k)[i] = s
  <1> DEFINE all == IF setup[k].variant = "split" THEN SplitOrder ELSE DefaultOrder
  <1>1. all \in Seq(Names) /\ Order(k) = Only(all, Sockets)
        /\ Names \ {"shell_controller"} \subseteq Range(all)
    BY Orders DEF Order
  <1> HIDE DEF all
  <1>2. Order(k) \in Seq(Names)
    BY <1>1, OnlyIsSeq
  <1>3. ASSUME NEW s \in Channels \union (EndPointNames \ {"shell_controller"})
        PROVE  \E i \in 1 .. Len(Order(k)) : Order(k)[i] = s
    <2>1. s \in Names \ {"shell_controller"} /\ s \in Sockets
      BY DEF Names, Channels, EndPointNames
    <2>2. PICK i \in 1 .. Len(all) : all[i] = s
      BY <1>1, <2>1, RangeEquality
    <2>3. QED
      BY <1>1, <2>1, <2>2, OnlyHas
  <1>4. QED
    BY <1>2, <1>3, LenProperties

\* The channels are no end points.
LEMMA Apart == Channels \intersect EndPointNames = {}
  BY DEF Channels, EndPointNames

\* What the steps leave of a kernel that does not move.
LEMMA ProgressFrame ==
    ASSUME NEW k \in Kernels, Progress(k), setup' = setup,
           state'[k] = state[k], next'[k] = next[k], endPoints'[k] = endPoints[k],
           bound'[k] = bound[k], assigned'[k] = assigned[k]
    PROVE  Progress(k)'
  <1>1. Order(k)' = Order(k)
    BY DEF Order
  <1>2. QED
    BY <1>1 DEF Progress

\* A step of kernel k that leaves the others alone.
LEMMA ProgressOfOne ==
    ASSUME TypeOK, BindInv, NEW k \in Kernels, setup' = setup,
           \A l \in Kernels \ {k} :
              /\ state'[l] = state[l] /\ next'[l] = next[l] /\ endPoints'[l] = endPoints[l]
              /\ bound'[l] = bound[l] /\ assigned'[l] = assigned[l],
           Progress(k)'
    PROVE  \A l \in Kernels : Progress(l)'
  BY ProgressFrame DEF BindInv

\* A kernel that has given up or ended has nothing to show.
LEMMA ProgressOver ==
    ASSUME NEW k \in Kernels, state'[k] \in {"failed", "ended"}
    PROVE  Progress(k)'
  BY DEF Progress

\* One more socket is bound: what has been bound before stays bound.
LEMMA ProgressBinds ==
    ASSUME TypeOK, BindInv, NEW k \in Kernels, NEW s, Binding(k, s), setup' = setup,
           state' = state, assigned' = assigned, next' = [next EXCEPT ![k] = @ + 1],
           endPoints[k] \subseteq endPoints'[k],
           s \in EndPointNames => s \in endPoints'[k],
           \/ bound' = bound /\ s \notin Channels
           \/ \E p : /\ bound' = [bound EXCEPT ![k][s] = p]
                     /\ s \in Channels
                     /\ setup[k].config = "assigned" => p = assigned[k][s]
    PROVE  Progress(k)'
  <1> DEFINE q == Order(k)
             n == next[k]
  <1>1. /\ n \in Nat /\ Len(q) \in Nat /\ state[k] = "binding" /\ n \in 1 .. Len(q) /\ s = q[n]
        /\ next'[k] = n + 1 /\ Order(k)' = q /\ state'[k] = "binding"
    <2>1. next \in [Kernels -> Nat] /\ q \in Seq(Names) /\ Len(q) \in Nat
      BY OrderIs DEF TypeOK, PortsOK
    <2>2. state[k] = "binding" /\ n \in DOMAIN q /\ s = q[n]
      BY DEF Binding
    <2>3. DOMAIN q = 1 .. Len(q)
      BY <2>1
    <2>4. Order(k)' = q
      BY DEF Order
    <2>5. QED
      BY <2>1, <2>2, <2>3, <2>4
  <1>2. Progress(k)
    BY DEF BindInv
  <1>3. \A c \in Channels :
            \/ bound'[k][c] = bound[k][c]
            \/ c = s /\ (setup[k].config = "assigned" => bound'[k][c] = assigned[k][c])
    <2>1. CASE bound' = bound
      BY <2>1
    <2>2. ASSUME NEW p, bound' = [bound EXCEPT ![k][s] = p],
                 setup[k].config = "assigned" => p = assigned[k][s], NEW c \in Channels
          PROVE  \/ bound'[k][c] = bound[k][c]
                 \/ c = s /\ (setup[k].config = "assigned" => bound'[k][c] = assigned[k][c])
      <3>1. bound'[k] = [bound[k] EXCEPT ![s] = p] /\ c \in DOMAIN bound[k]
        BY <2>2 DEF TypeOK, PortsOK
      <3>2. QED
        BY <2>2, <3>1
    <2>3. QED
      BY <2>1, <2>2
  <1>4. s \in Channels => (setup[k].config = "assigned" => bound'[k][s] = assigned[k][s])
    BY DEF TypeOK, PortsOK
  <1> HIDE DEF q, n
  <1>5. ASSUME NEW i \in 1 .. Len(q), i < n + 1
        PROVE  /\ q[i] \in EndPointNames => q[i] \in endPoints'[k]
               /\ setup[k].config = "assigned" /\ q[i] \in Channels =>
                    bound'[k][q[i]] = assigned[k][q[i]]
    <2>1. CASE i = n
      BY <1>1, <1>4, <2>1
    <2>2. CASE i # n
      <3>1. i < n
        BY <1>1, <1>5, <2>2
      <3>2. /\ q[i] \in EndPointNames => q[i] \in endPoints[k]
            /\ setup[k].config = "assigned" /\ q[i] \in Channels =>
                  bound[k][q[i]] = assigned[k][q[i]]
        BY <1>1, <1>2, <3>1 DEF Progress, q, n
      <3>3. QED
        BY <1>3, <3>2
    <2>3. QED
      BY <2>1, <2>2
  <1>6. QED
    BY <1>1, <1>5 DEF Progress

\* The constructor of a server binds its sockets one by one, in the order of its
\* parts, and waits or runs when it has bound them all (xmiddleware.cpp:58-92).
LEMMA ProgressStep ==
    TypeOK /\ BindInv /\ [Next]_vars => \A k \in Kernels : Progress(k)'
  <1> SUFFICES ASSUME TypeOK, BindInv, [Next]_vars PROVE \A k \in Kernels : Progress(k)'
    OBVIOUS
  <1>1. ASSUME NEW k \in Kernels, Fail(k) PROVE \A l \in Kernels : Progress(l)'
    <2>1. state'[k] = "failed"
      BY <1>1 DEF Fail, TypeOK, PortsOK
    <2>2. QED
      BY <1>1, <2>1, ProgressOver, ProgressOfOne DEF Fail
  <1>2. ASSUME NEW k \in Kernels, NEW c \in Channels, BindFreePort(k, c)
        PROVE  \A l \in Kernels : Progress(l)'
    <2>1. PICK p : bound' = [bound EXCEPT ![k][c] = p]
      BY <1>2 DEF BindFreePort
    <2>2. Progress(k)'
      BY <1>2, <2>1, Apart, ProgressBinds DEF BindFreePort
    <2>3. QED
      BY <1>2, <2>1, <2>2, ProgressOfOne DEF BindFreePort
  <1>3. ASSUME NEW k \in Kernels, NEW c \in Channels, BindAssignedPort(k, c)
        PROVE  \A l \in Kernels : Progress(l)'
    <2>1. CASE Fail(k)
      BY <1>1, <2>1
    <2>2. CASE /\ bound' = [bound EXCEPT ![k][c] = assigned[k][c]]
               /\ next' = [next EXCEPT ![k] = @ + 1]
               /\ UNCHANGED <<setup, state, endPoints, assigned, foreign>>
      <3>1. Progress(k)'
        BY <1>3, <2>2, Apart, ProgressBinds DEF BindAssignedPort
      <3>2. QED
        BY <2>2, <3>1, ProgressOfOne
    <2>3. QED
      BY <1>3, <2>1, <2>2 DEF BindAssignedPort
  <1>4. ASSUME NEW k \in Kernels, NEW e \in EndPointNames, BindEndPoint(k, e)
        PROVE  \A l \in Kernels : Progress(l)'
    <2>1. CASE Fail(k)
      BY <1>1, <2>1
    <2>2. CASE /\ endPoints' = [endPoints EXCEPT ![k] = @ \union {e}]
               /\ next' = [next EXCEPT ![k] = @ + 1]
               /\ UNCHANGED <<setup, state, bound, assigned, foreign>>
      <3>1. endPoints'[k] = endPoints[k] \union {e}
        BY <2>2 DEF TypeOK, PortsOK
      <3>2. Progress(k)'
        BY <1>4, <2>2, <3>1, Apart, ProgressBinds DEF BindEndPoint
      <3>3. QED
        BY <2>2, <3>2, ProgressOfOne
    <2>3. QED
      BY <1>4, <2>1, <2>2 DEF BindEndPoint
  <1>5. ASSUME NEW k \in Kernels, AllBound(k), state' = [state EXCEPT ![k] = "waiting"]
                                               \/ state' = [state EXCEPT ![k] = "running"],
               UNCHANGED <<setup, next, bound, endPoints, assigned>>
        PROVE  \A l \in Kernels : Progress(l)'
    <2>1. state[k] = "binding" /\ next[k] > Len(Order(k)) /\ state'[k] \in {"waiting", "running"}
          /\ Order(k)' = Order(k)
      BY <1>5 DEF AllBound, TypeOK, PortsOK, Order
    <2>2. Progress(k)'
      BY <1>5, <2>1 DEF BindInv, Progress
    <2>3. \A l \in Kernels \ {k} : state'[l] = state[l]
      BY <1>5 DEF TypeOK, PortsOK
    <2>4. QED
      BY <1>5, <2>2, <2>3, ProgressOfOne
  <1>6. ASSUME NEW k \in Kernels, state[k] = "waiting", Run(k),
               UNCHANGED <<setup, next, bound, endPoints, assigned>>
        PROVE  \A l \in Kernels : Progress(l)'
    <2>1. state'[k] = "running" /\ Order(k)' = Order(k)
      BY <1>6 DEF Run, TypeOK, PortsOK, Order
    <2>2. Progress(k)'
      BY <1>6, <2>1 DEF BindInv, Progress
    <2>3. QED
      BY <1>6, <2>2, ProgressOfOne DEF Run
  <1>7. ASSUME NEW k \in Kernels, Launch(k) PROVE \A l \in Kernels : Progress(l)'
    <2>1. next[k] = 1 /\ state'[k] = "binding" /\ next' = next
      BY <1>7 DEF Launch, TypeOK, PortsOK, BindInv, Progress
    <2>2. Progress(k)'
      BY <2>1, OrderIs DEF Progress
    <2>3. QED
      BY <1>7, <2>2, ProgressOfOne DEF Launch
  <1>8. ASSUME NEW k \in Kernels, End(k) PROVE \A l \in Kernels : Progress(l)'
    <2>1. state'[k] = "ended"
      BY <1>8 DEF End, TypeOK, PortsOK
    <2>2. QED
      BY <1>8, <2>1, ProgressOver, ProgressOfOne DEF End
  <1>9. ASSUME NEW k \in Kernels, NEW c \in Channels, FindFreePort(k, c)
        PROVE  \A l \in Kernels : Progress(l)'
    <2>1. state[k] = "unborn" /\ next[k] = 1 /\ state' = state /\ next' = next
      BY <1>9 DEF FindFreePort, BindInv, Progress
    <2>2. Progress(k)'
      BY <2>1 DEF Progress
    <2>3. QED
      BY <1>9, <2>2, ProgressOfOne DEF FindFreePort
  <1>10. CASE UNCHANGED <<setup, state, next, bound, endPoints, assigned>>
    BY <1>10, ProgressFrame DEF BindInv
  <1>11. QED
    BY <1>1, <1>2, <1>3, <1>4, <1>5, <1>6, <1>7, <1>8, <1>9, <1>10
    DEF Next, Construct, Bind, RunAssigned, SendConnectionInfo, ReceiveAnswer, TimeOut,
        WaitForConfiguration, Environment, OthersBind, OthersClose, Run, vars, portVars

\* An end point that is bound in the context is not bound there again: ZeroMQ
\* refuses it (xheartbeat.cpp:30, xpublisher.cpp:34-36, xshell.cpp:41).
LEMMA EndPointStep == TypeOK /\ EndPointInv /\ [Next]_vars => EndPointInv'
  <1> SUFFICES ASSUME TypeOK, EndPointInv, [Next]_vars PROVE EndPointInv'
    OBVIOUS
  <1>0. setup' = setup /\ Sharing' = Sharing
    BY DEF Next, Construct, Bind, BindFreePort, BindAssignedPort, BindEndPoint, Fail, RunAssigned,
           SendConnectionInfo, ReceiveAnswer, TimeOut, WaitForConfiguration, Environment, OthersBind,
           OthersClose, Launch, End, FindFreePort, Run, vars, portVars, Sharing
  <1>1. ASSUME NEW k \in Kernels, endPoints' = [endPoints EXCEPT ![k] = {}]
        PROVE  EndPointInv'
    BY <1>0, <1>1 DEF TypeOK, PortsOK, EndPointInv, Sharing
  <1>2. ASSUME NEW k \in Kernels, NEW e \in EndPointNames,
               ~ (setup[k].context = "shared" /\ \E l \in Sharing : e \in endPoints[l]),
               endPoints' = [endPoints EXCEPT ![k] = @ \union {e}]
        PROVE  EndPointInv'
    <2>1. \A l \in Kernels : endPoints'[l] = IF l = k THEN endPoints[l] \union {e} ELSE endPoints[l]
      BY <1>2 DEF TypeOK, PortsOK
    <2>2. k \in Sharing => \A l \in Sharing : e \notin endPoints[l]
      BY <1>2 DEF Sharing
    <2>3. ASSUME NEW l \in Sharing, NEW m \in Sharing, l # m
          PROVE  endPoints'[l] \intersect endPoints'[m] = {}
      <3>1. l \in Kernels /\ m \in Kernels /\ endPoints[l] \intersect endPoints[m] = {}
        BY <2>3 DEF Sharing, EndPointInv
      <3>2. QED
        BY <2>1, <2>2, <2>3, <3>1
    <2>4. QED
      BY <1>0, <2>3 DEF EndPointInv
  <1>3. CASE UNCHANGED endPoints
    BY <1>0, <1>3 DEF EndPointInv
  <1>4. QED
    BY <1>1, <1>2, <1>3
    DEF Next, Construct, Bind, BindFreePort, BindAssignedPort, BindEndPoint, Fail, RunAssigned,
        SendConnectionInfo, ReceiveAnswer, TimeOut, WaitForConfiguration, Environment, OthersBind,
        OthersClose, Launch, End, FindFreePort, Run, vars, portVars

\* The construction of all servers keeps its invariant.
THEOREM Construction == Spec => []BindInv
  <1>1. Init => BindInv
    <2> SUFFICES ASSUME Init PROVE BindInv
      OBVIOUS
    <2>1. \A k \in Kernels : Progress(k)
      BY DEF Init, PortsInit, Progress
    <2>2. EndPointInv
      BY DEF Init, PortsInit, EndPointInv, Sharing
    <2>3. QED
      BY <2>1, <2>2 DEF BindInv
  <1>2. TypeOK /\ BindInv /\ [Next]_vars => BindInv'
    BY ProgressStep, EndPointStep DEF BindInv
  <1>3. QED
    BY <1>1, <1>2, TypeCorrect, PTL DEF Spec

\* Of two servers in one context one fails before it has registered: whichever
\* comes second finds an end point of the first bound, since both have a publisher
\* and a heartbeat (xheartbeat.cpp:30, xpublisher.cpp:34-36, xshell.cpp:41).
THEOREM OneServerInAContext == Spec => []OneServerPerContext
  <1>1. TypeOK /\ BindInv => OneServerPerContext
    <2> SUFFICES ASSUME TypeOK, BindInv, NEW k \in Sharing, NEW l \in Sharing, k # l,
                        {state[k], state[l]} \subseteq {"waiting", "running"}
                 PROVE  FALSE
      BY DEF OneServerPerContext
    <2>1. PICK e \in EndPointNames : e # "shell_controller"
      BY EndPointsAssumption
    <2>2. ASSUME NEW m \in {k, l} PROVE e \in endPoints[m]
      <3>1. m \in Kernels /\ state[m] \in {"waiting", "running"} /\ Progress(m)
        BY DEF Sharing, BindInv
      <3>2. PICK i \in 1 .. Len(Order(m)) : Order(m)[i] = e
        BY <2>1, <3>1, OrderIs
      <3>3. next[m] > Len(Order(m)) /\ Len(Order(m)) \in Nat /\ next[m] \in Nat
        BY <3>1, OrderIs DEF Progress, TypeOK, PortsOK
      <3>4. i < next[m]
        BY <3>3
      <3>5. QED
        BY <3>1, <3>2, <3>4 DEF Progress
    <2>3. endPoints[k] \intersect endPoints[l] = {}
      BY DEF BindInv, EndPointInv
    <2>4. QED
      BY <2>2, <2>3
  <1>2. QED
    BY <1>1, TypeCorrect, Construction, PTL

-----------------------------------------------------------------------------
(* Whoever runs is known.                                                   *)

\* The launcher has returned the configuration of whoever it has answered.
AnsweredInv ==
    \A k \in Kernels : answer[k] # "none" => \E r \in Range(configs) : r.from = k

\* Who waits has registered, and who runs was launched with its ports, has been
\* answered, or does not look at answers.
RunningInv ==
    \A k \in Kernels :
        /\ state[k] = "waiting" => setup[k].config = "registration"
        /\ state[k] = "running" =>
              \/ setup[k].config = "assigned"
              \/ /\ setup[k].config = "registration"
                 /\ answer[k] # "none" \/ setup[k].scheme = "none"

KnownInv == AnsweredInv /\ RunningInv

\* The launcher answers with the configuration in its hands (xhandshake_client_zmq.cpp:69-100).
LEMMA AnsweredStep == TypeOK /\ AnsweredInv /\ [Next]_vars => AnsweredInv'
  <1> SUFFICES ASSUME TypeOK, AnsweredInv, [Next]_vars PROVE AnsweredInv'
    OBVIOUS
  <1>1. CASE WaitForConfiguration
    <2>1. PICK r \in requests :
            /\ configs' = Append(configs, r)
            /\ answer' = answer \/ answer' = [answer EXCEPT ![r.from] = "hmac-sha256"]
      BY <1>1 DEF WaitForConfiguration
    <2>2. configs \in Seq(Registration) /\ r \in Registration /\ r.from \in Kernels
      BY DEF TypeOK, Registration
    <2>3. /\ Len(configs') = Len(configs) + 1 /\ configs' \in Seq(Registration)
          /\ \A i \in 1 .. Len(configs) : configs'[i] = configs[i]
          /\ configs'[Len(configs) + 1] = r
      BY <2>1, <2>2, AppendProperties
    <2>4. Range(configs) \subseteq Range(configs') /\ r \in Range(configs')
      BY <2>2, <2>3, RangeEquality
    <2>5. ASSUME NEW k \in Kernels, answer'[k] # "none"
          PROVE  \E q \in Range(configs') : q.from = k
      <3>1. CASE k = r.from
        BY <2>4, <3>1
      <3>2. CASE k # r.from
        <4>1. answer'[k] = answer[k]
          BY <2>1, <3>2 DEF TypeOK
        <4>2. QED
          BY <2>4, <2>5, <4>1 DEF AnsweredInv
      <3>3. QED
        BY <3>1, <3>2
    <2>6. QED
      BY <2>5 DEF AnsweredInv
  <1>2. CASE UNCHANGED <<answer, configs>>
    BY <1>2 DEF AnsweredInv
  <1>3. QED
    BY <1>1, <1>2 DEF Next, Construct, RunAssigned, SendConnectionInfo, ReceiveAnswer, TimeOut, vars

\* What the steps leave of a kernel that neither waits nor runs from then on.
LEMMA RunningOfOne ==
    ASSUME TypeOK, RunningInv, setup' = setup, NEW k \in Kernels,
           \A l \in Kernels \ {k} : state'[l] = state[l] /\ answer'[l] = answer[l],
           /\ state'[k] = "waiting" => setup[k].config = "registration"
           /\ state'[k] = "running" =>
                \/ setup[k].config = "assigned"
                \/ /\ setup[k].config = "registration"
                   /\ answer'[k] # "none" \/ setup[k].scheme = "none"
    PROVE  RunningInv'
  BY DEF RunningInv

\* A kernel that waits runs when it has verified the answer, or does not look at
\* what it has received (xhandshaking.cpp:68-87).
LEMMA RunningStep == TypeOK /\ RunningInv /\ [Next]_vars => RunningInv'
  <1> SUFFICES ASSUME TypeOK, RunningInv, [Next]_vars PROVE RunningInv'
    OBVIOUS
  <1> USE DEF TypeOK, PortsOK
  <1>1. ASSUME NEW k \in Kernels, setup' = setup, answer' = answer,
               NEW s \in KernelState \ {"waiting", "running"}, state' = [state EXCEPT ![k] = s]
        PROVE  RunningInv'
    BY <1>1, RunningOfOne
  <1>2. ASSUME NEW k \in Kernels, RunAssigned(k) \/ SendConnectionInfo(k) \/ ReceiveAnswer(k) \/ TimeOut(k)
        PROVE  RunningInv'
    <2>1. CASE RunAssigned(k)
      BY <2>1, RunningOfOne DEF RunAssigned, Run
    <2>2. CASE SendConnectionInfo(k)
      BY <2>2, RunningOfOne DEF SendConnectionInfo
    <2>3. CASE ReceiveAnswer(k) /\ Run(k)
      <3>1. setup[k].config = "registration" /\ answer[k] # "none" /\ answer' = answer /\ setup' = setup
        BY <2>3 DEF ReceiveAnswer, RunningInv, Fail
      <3>2. QED
        BY <2>3, <3>1, RunningOfOne DEF Run
    <2>4. CASE TimeOut(k) /\ Run(k) /\ setup[k].scheme = "none"
      <3>1. setup[k].config = "registration" /\ answer' = answer /\ setup' = setup
        BY <2>4 DEF TimeOut, RunningInv, Fail
      <3>2. QED
        BY <2>4, <3>1, RunningOfOne DEF Run
    <2>5. CASE (ReceiveAnswer(k) \/ TimeOut(k)) /\ Fail(k)
      BY <1>1, <2>5 DEF ReceiveAnswer, TimeOut, Fail, KernelState
    <2>6. QED
      BY <1>2, <2>1, <2>2, <2>3, <2>4, <2>5 DEF ReceiveAnswer, TimeOut
  <1>3. CASE WaitForConfiguration
    <2>1. setup' = setup /\ state' = state /\ \A k \in Kernels : answer[k] # "none" => answer'[k] # "none"
      BY <1>3 DEF WaitForConfiguration, portVars
    <2>2. QED
      BY <2>1 DEF RunningInv
  <1>4. ASSUME NEW k \in Kernels, Launch(k) \/ End(k), UNCHANGED answer
        PROVE  RunningInv'
    BY <1>1, <1>4 DEF Launch, End, KernelState
  <1>5. CASE UNCHANGED <<setup, state, answer>>
    BY <1>5 DEF RunningInv
  <1>6. ASSUME NEW k \in Kernels, Fail(k), UNCHANGED answer
        PROVE  RunningInv'
    BY <1>1, <1>6 DEF Fail, KernelState
  <1>7. QED
    BY <1>2, <1>3, <1>4, <1>5, <1>6
    DEF Next, Construct, Bind, BindFreePort, BindAssignedPort, BindEndPoint, Environment,
        OthersBind, OthersClose, FindFreePort, vars, portVars

\* Who has been answered is in the list of the launcher.
THEOREM WhoIsAnswered == Spec => []KnownInv
  <1>1. Init => KnownInv
    BY DEF Init, PortsInit, KnownInv, AnsweredInv, RunningInv
  <1>2. TypeOK /\ KnownInv /\ [Next]_vars => KnownInv'
    BY AnsweredStep, RunningStep DEF KnownInv
  <1>3. QED
    BY <1>1, <1>2, TypeCorrect, PTL DEF Spec

\* A kernel that runs can be reached: it holds the ports of its connection file,
\* or the launcher has been given those it holds, unless it has not been answered
\* and checks no signatures (xhandshaking.cpp:56-87, xmiddleware.cpp:58-92).
THEOREM WhoRunsIsKnown == Spec => []RunningKernelsAreKnown
  <1>1. IInv /\ BindInv /\ KnownInv => RunningKernelsAreKnown
    <2> SUFFICES ASSUME IInv, BindInv, KnownInv, NEW k \in Kernels, state[k] = "running"
                 PROVE  \/ setup[k].config = "assigned" /\ bound[k] = assigned[k]
                        \/ setup[k].config = "registration" /\ \E r \in Configuration(k) : r.ports = bound[k]
                        \/ setup[k].config = "registration" /\ setup[k].scheme = "none" /\ answer[k] = "none"
      BY DEF RunningKernelsAreKnown
    <2>1. CASE setup[k].config = "assigned"
      <3>1. ASSUME NEW c \in Channels PROVE bound[k][c] = assigned[k][c]
        <4>1. PICK i \in 1 .. Len(Order(k)) : Order(k)[i] = c
          BY OrderIs
        <4>2. next[k] > Len(Order(k)) /\ Len(Order(k)) \in Nat /\ next[k] \in Nat
          BY OrderIs DEF BindInv, Progress, IInv, TypeOK, PortsOK
        <4>3. i < next[k]
          BY <4>2
        <4>4. QED
          BY <2>1, <4>1, <4>3 DEF BindInv, Progress
      <3>2. bound[k] \in [Channels -> Ports \union {NoPort}]
            /\ assigned[k] \in [Channels -> Ports \union {NoPort}]
        BY DEF IInv, TypeOK, PortsOK
      <3>3. QED
        BY <2>1, <3>1, <3>2
    <2>2. CASE setup[k].config = "registration" /\ answer[k] # "none"
      <3>1. PICK r \in Range(configs) : r.from = k
        BY <2>2 DEF KnownInv, AnsweredInv
      <3>2. r.ports = bound[k]
        BY <3>1 DEF IInv, RegisteredInv
      <3>3. r \in Configuration(k)
        BY <3>1 DEF Configuration, Range
      <3>4. QED
        BY <2>2, <3>2, <3>3
    <2>3. QED
      BY <2>1, <2>2 DEF KnownInv, RunningInv
  <1>2. QED
    BY <1>1, Invariance, Construction, WhoIsAnswered, PTL

=============================================================================
