--------------------------- MODULE SharedMacProofs ---------------------------
(***************************************************************************)
(* The wire format of xzmq_serializer, and the signatures of a server or   *)
(* of a client, for any number of threads, calls and messages.             *)
(***************************************************************************)
EXTENDS SharedMac, SequenceTheorems, WellFoundedInduction, TLAPS

-----------------------------------------------------------------------------
(* The wire format: what is written is read back, for any identities, parts  *)
(* and buffers.                                                             *)

\* b is s, of length k, with t, of length l, behind it.
Joins(b, s, t, k, l) ==
    /\ Len(b) = k + l
    /\ \A i \in 1 .. k : b[i] = s[i]
    /\ \A i \in 1 .. l : b[k + i] = t[i]

\* Putting one sequence behind another.
LEMMA Joined ==
    ASSUME NEW S, NEW s \in Seq(S), NEW t \in Seq(S)
    PROVE  s \o t \in Seq(S) /\ Joins(s \o t, s, t, Len(s), Len(t))
  BY DEF Joins

\* Where each frame of a message is.
InPlace(wire, m, signature, n, l) ==
    /\ Len(wire) = n + 6 + l
    /\ \A i \in 1 .. n : wire[i] = m.ids[i]
    /\ wire[n + 1] = Delimiter
    /\ wire[n + 2] = signature
    /\ \A i \in 1 .. 4 : wire[n + 2 + i] = m.parts[i]
    /\ \A i \in 1 .. l : wire[n + 6 + i] = m.buffers[i]

\* serialize and serialize_iopub put every frame in its place
\* (xzmq_serializer.cpp:47-73, 110-114, 161-168).
LEMMA FramesInPlace ==
    ASSUME NEW F, NEW m \in Messages(F), NEW signature
    PROVE  /\ Serialize(m, signature) \in Seq(F \union {Delimiter, signature})
           /\ InPlace(Serialize(m, signature), m, signature, Len(m.ids), Len(m.buffers))
           /\ Len(m.ids) \in Nat /\ Len(m.buffers) \in Nat
  <1> DEFINE G == F \union {Delimiter, signature}
             middle == <<Delimiter, signature>>
             a == m.ids \o middle
             b == a \o m.parts
             wire == b \o m.buffers
             n == Len(m.ids)
             l == Len(m.buffers)
  <1>1. /\ m.ids \in Seq(G) /\ m.parts \in Seq(G) /\ m.buffers \in Seq(G)
        /\ Len(m.parts) = 4
    BY SeqMonotonic DEF Messages
  <1>2. middle \in Seq(G) /\ Len(middle) = 2 /\ middle[1] = Delimiter /\ middle[2] = signature
    OBVIOUS
  <1>3. n \in Nat /\ l \in Nat
    BY <1>1
  <1> HIDE DEF G, middle, n, l
  <1>4. a \in Seq(G) /\ Joins(a, m.ids, middle, n, 2)
    <2>1. a \in Seq(G) /\ Joins(a, m.ids, middle, Len(m.ids), Len(middle))
      BY <1>1, <1>2, Joined
    <2>2. QED
      BY <1>2, <2>1 DEF n
  <1> HIDE DEF a
  <1>5. b \in Seq(G) /\ Joins(b, a, m.parts, n + 2, 4)
    <2>1. b \in Seq(G) /\ Joins(b, a, m.parts, Len(a), Len(m.parts))
      BY <1>1, <1>4, Joined
    <2>2. Len(a) = n + 2
      BY <1>4 DEF Joins
    <2>3. QED
      BY <1>1, <2>1, <2>2
  <1> HIDE DEF b
  <1>6. wire \in Seq(G) /\ Joins(wire, b, m.buffers, n + 6, l)
    <2>1. wire \in Seq(G) /\ Joins(wire, b, m.buffers, Len(b), Len(m.buffers))
      BY <1>1, <1>5, Joined
    <2>2. Len(b) = n + 6
      BY <1>3, <1>5 DEF Joins
    <2>3. QED
      BY <2>1, <2>2 DEF l
  <1> HIDE DEF wire
  <1>7. \A i \in 1 .. n : wire[i] = m.ids[i]
    BY <1>3, <1>4, <1>5, <1>6 DEF Joins
  <1>8. wire[n + 1] = Delimiter /\ wire[n + 2] = signature
    <2>1. \A i \in 1 .. 2 : n + i \in 1 .. n + 2 /\ n + i \in 1 .. n + 6
      BY <1>3
    <2>2. \A i \in 1 .. 2 : wire[n + i] = b[n + i]
      BY <1>6, <2>1 DEF Joins
    <2>3. \A i \in 1 .. 2 : b[n + i] = a[n + i]
      BY <1>5, <2>1 DEF Joins
    <2>4. \A i \in 1 .. 2 : a[n + i] = middle[i]
      BY <1>4 DEF Joins
    <2>5. QED
      BY <1>2, <2>2, <2>3, <2>4
  <1>9. ASSUME NEW i \in 1 .. 4 PROVE wire[n + 2 + i] = m.parts[i]
    <2>1. n + 2 + i \in 1 .. n + 6
      BY <1>3
    <2>2. wire[n + 2 + i] = b[n + 2 + i]
      BY <1>6, <2>1 DEF Joins
    <2>3. b[n + 2 + i] = m.parts[i]
      BY <1>5 DEF Joins
    <2>4. QED
      BY <2>2, <2>3
  <1>10. Len(wire) = n + 6 + l /\ \A i \in 1 .. l : wire[n + 6 + i] = m.buffers[i]
    BY <1>6 DEF Joins
  <1>11. InPlace(wire, m, signature, n, l)
    BY <1>7, <1>8, <1>9, <1>10 DEF InPlace
  <1>12. QED
    BY <1>3, <1>6, <1>11 DEF Serialize, wire, b, a, middle, n, l, G

\* deserialize_zmq_id stops at the first delimiter (xzmq_serializer.cpp:170-188).
LEMMA FirstDelimiterIsFirst ==
    ASSUME NEW F, NEW wire \in Seq(F), Delimiters(wire) # {}
    PROVE  /\ FirstDelimiter(wire) \in Delimiters(wire)
           /\ \A j \in Delimiters(wire) : FirstDelimiter(wire) <= j
  <1>1. Delimiters(wire) \subseteq Nat
    BY DEF Delimiters
  <1>2. PICK i \in Delimiters(wire) : \A j \in Delimiters(wire) : ~ (<<j, i>> \in OpToRel(<, Nat))
    <2>1. IsWellFoundedOn(OpToRel(<, Nat), Nat)
      BY NatLessThanWellFounded
    <2>2. QED
      BY <1>1, <2>1, WFMin
  <1>3. ASSUME NEW j \in Delimiters(wire) PROVE i <= j
    <2>1. i \in Nat /\ j \in Nat
      BY <1>1
    <2>2. ~ (j < i)
      BY <1>2, <2>1 DEF OpToRel
    <2>3. QED
      BY <2>1, <2>2
  <1>4. QED
    BY <1>3 DEF FirstDelimiter

\* The identities of a message and the topic of a publication are taken off, the
\* delimiter with them, and nothing else (xzmq_serializer.cpp:116-122, 170-188).
LEMMA TakenIsIds ==
    ASSUME NEW F, NEW m \in Messages(F), NEW signature
    PROVE  /\ Taken(m.kind, Serialize(m, signature)) = Len(m.ids) + 1
           /\ Shape(m.kind, Serialize(m, signature)) = "read"
  <1> DEFINE n == Len(m.ids)
             l == Len(m.buffers)
             wire == Serialize(m, signature)
             G == F \union {Delimiter, signature}
  <1>1. wire \in Seq(G) /\ InPlace(wire, m, signature, n, l) /\ n \in Nat /\ l \in Nat
    BY FramesInPlace
  <1>2. DOMAIN m.ids = 1 .. n /\ DOMAIN m.parts = 1 .. 4
    BY DEF Messages
  <1> HIDE DEF wire, n, l, G
  <1>3. DOMAIN wire = 1 .. Len(wire) /\ Len(wire) = n + 6 + l
    BY <1>1 DEF InPlace
  <1>4. n + 1 \in Delimiters(wire)
    <2>1. n + 1 \in DOMAIN wire
      BY <1>1, <1>3
    <2>2. QED
      BY <1>1, <2>1 DEF InPlace, Delimiters
  <1>5. Taken(m.kind, wire) = n + 1
    <2>1. CASE m.kind = "message"
      <3>1. FirstDelimiter(wire) <= n + 1 /\ FirstDelimiter(wire) \in Delimiters(wire)
        BY <1>1, <1>4, FirstDelimiterIsFirst
      <3>2. ASSUME NEW i \in 1 .. n PROVE i \notin Delimiters(wire)
        <4>1. m.ids[i] # Delimiter
          BY <1>2, <2>1 DEF Messages
        <4>2. wire[i] = m.ids[i]
          BY <1>1 DEF InPlace
        <4>3. QED
          BY <4>1, <4>2 DEF Delimiters
      <3>3. FirstDelimiter(wire) \in 1 .. n + 6 + l
        BY <1>3, <3>1 DEF Delimiters
      <3>4. FirstDelimiter(wire) = n + 1
        BY <1>1, <3>1, <3>2, <3>3
      <3>5. QED
        BY <2>1, <3>4 DEF Taken
    <2>2. CASE m.kind = "publication"
      <3>1. n = 1
        BY <2>2 DEF Messages, n
      <3>2. QED
        BY <2>2, <3>1 DEF Taken
    <2>3. QED
      BY <2>1, <2>2 DEF Messages
  <1>6. Shape(m.kind, wire) = "read"
    <2>1. n + 1 # Len(wire) /\ Len(wire) # 0 /\ ~ (Len(wire) < (n + 1) + 5)
      BY <1>1, <1>3
    <2>2. wire # <<>> /\ ~ (Delimiters(wire) \subseteq {Len(wire)})
      BY <1>4, <2>1
    <2>3. ASSUME NEW i \in 2 .. 5 PROVE IsJson(wire[(n + 1) + i])
      <3>1. i - 1 \in 1 .. 4 /\ n + 2 + (i - 1) = (n + 1) + i
        BY <1>1
      <3>2. IsJson(m.parts[i - 1])
        BY <1>2, <3>1 DEF Messages
      <3>3. wire[n + 2 + (i - 1)] = m.parts[i - 1]
        BY <1>1, <3>1 DEF InPlace
      <3>4. QED
        BY <3>1, <3>2, <3>3
    <2>4. QED
      BY <1>5, <2>1, <2>2, <2>3 DEF Shape
  <1>7. QED
    BY <1>5, <1>6 DEF wire, n

\* Four frames stand for the parts, wherever they are.
LEMMA PartsAreFour ==
    ASSUME NEW F, NEW kind \in {"message", "publication"}, NEW wire \in Seq(F),
           Shape(kind, wire) = "read"
    PROVE  /\ Taken(kind, wire) \in Nat
           /\ PartsOf(kind, wire) \in Seq(F)
           /\ Len(PartsOf(kind, wire)) = 4
           /\ \A i \in 1 .. 4 : PartsOf(kind, wire)[i] = wire[Taken(kind, wire) + 1 + i]
  <1> DEFINE t == Taken(kind, wire)
  <1>1. Len(wire) \in Nat /\ DOMAIN wire = 1 .. Len(wire) /\ \A i \in 1 .. Len(wire) : wire[i] \in F
    OBVIOUS
  <1>2. t \in Nat
    <2>1. CASE kind = "message"
      <3>1. Delimiters(wire) # {}
        BY <2>1 DEF Shape
      <3>2. FirstDelimiter(wire) \in Nat
        BY <3>1, <1>1, FirstDelimiterIsFirst DEF Delimiters
      <3>3. QED
        BY <2>1, <3>2 DEF Taken
    <2>2. CASE kind = "publication"
      BY <2>2 DEF Taken
    <2>3. QED
      BY <2>1, <2>2
  <1>3. t + 5 <= Len(wire)
    BY <1>1, <1>2 DEF Shape
  <1> HIDE DEF t
  <1>4. \A i \in t + 2 .. t + 5 : wire[i] \in F
    BY <1>1, <1>2, <1>3
  <1>5. /\ SubSeq(wire, t + 2, t + 5) \in Seq(F)
        /\ Len(SubSeq(wire, t + 2, t + 5)) = IF t + 2 <= t + 5 THEN (t + 5) - (t + 2) + 1 ELSE 0
        /\ \A i \in 1 .. (t + 5) - (t + 2) + 1 : SubSeq(wire, t + 2, t + 5)[i] = wire[(t + 2) + i - 1]
    BY <1>2, <1>4, SubSeqProperties
  <1>6. (t + 5) - (t + 2) + 1 = 4 /\ t + 2 <= t + 5 /\ \A i \in 1 .. 4 : (t + 2) + i - 1 = t + 1 + i
    BY <1>2
  <1>7. QED
    BY <1>2, <1>5, <1>6 DEF t, PartsOf

\* The slice of a sequence that is where another sequence is joined in.
LEMMA SliceIs ==
    ASSUME NEW S, NEW wire \in Seq(S), NEW T, NEW s \in Seq(T),
           NEW k \in Nat, NEW e \in Nat, e = k + Len(s), e <= Len(wire),
           \A i \in 1 .. Len(s) : wire[k + i] = s[i]
    PROVE  SubSeq(wire, k + 1, e) = s
  <1> DEFINE slice == SubSeq(wire, k + 1, e)
             U == S \union T
  <1>1. Len(s) \in Nat /\ s \in Seq(U) /\ wire \in Seq(U)
    BY SeqMonotonic
  <1>2. \A i \in k + 1 .. e : wire[i] \in U
    <2>1. \A i \in 1 .. Len(wire) : wire[i] \in U
      BY <1>1
    <2>2. k + 1 .. e \subseteq 1 .. Len(wire)
      BY <1>1
    <2>3. QED
      BY <2>1, <2>2
  <1>3. /\ slice \in Seq(U)
        /\ Len(slice) = IF k + 1 <= e THEN e - (k + 1) + 1 ELSE 0
        /\ \A i \in 1 .. e - (k + 1) + 1 : slice[i] = wire[(k + 1) + i - 1]
    BY <1>1, <1>2, SubSeqProperties
  <1> HIDE DEF slice, U
  <1>4. Len(slice) = Len(s)
    BY <1>1, <1>3
  <1>5. ASSUME NEW i \in 1 .. Len(s) PROVE slice[i] = s[i]
    <2>1. i \in 1 .. e - (k + 1) + 1 /\ (k + 1) + i - 1 = k + i
      BY <1>1
    <2>2. QED
      BY <1>3, <2>1
  <1>6. slice = s
    BY <1>1, <1>3, <1>4, <1>5, SeqEqual
  <1>7. QED
    BY <1>6 DEF slice

\* What serialize and serialize_iopub write, deserialize and deserialize_iopub read
\* as the same message, with the signature it was given
\* (xzmq_serializer.cpp:47-188).
THEOREM RoundTrip ==
    ASSUME NEW F, NEW m \in Messages(F), NEW signature
    PROVE  /\ Shape(m.kind, Serialize(m, signature)) = "read"
           /\ Deserialize(m.kind, Serialize(m, signature)) = m
           /\ SignatureOf(m.kind, Serialize(m, signature)) = signature
  <1> DEFINE n == Len(m.ids)
             l == Len(m.buffers)
             wire == Serialize(m, signature)
             G == F \union {Delimiter, signature}
             taken == Taken(m.kind, wire)
  <1>1. wire \in Seq(G) /\ InPlace(wire, m, signature, n, l) /\ n \in Nat /\ l \in Nat
    BY FramesInPlace
  <1>2. taken = n + 1 /\ Shape(m.kind, wire) = "read"
    BY TakenIsIds
  <1>3. /\ m = [kind |-> m.kind, ids |-> m.ids, parts |-> m.parts, buffers |-> m.buffers]
        /\ m.ids \in Seq(F) /\ m.parts \in Seq(F) /\ m.buffers \in Seq(F)
        /\ Len(m.parts) = 4
    BY DEF Messages
  <1>4. Len(m.ids) = n /\ Len(m.buffers) = l
    OBVIOUS
  <1> HIDE DEF wire, taken, n, l, G
  <1>5. Len(wire) = n + 6 + l
    BY <1>1 DEF InPlace
  <1>6. SubSeq(wire, 1, n) = m.ids
    <2>1. \A i \in 1 .. Len(m.ids) : wire[0 + i] = m.ids[i]
      BY <1>1, <1>4 DEF InPlace
    <2>2. 0 \in Nat /\ n = 0 + Len(m.ids) /\ n <= Len(wire) /\ 0 + 1 = 1
      BY <1>1, <1>4, <1>5
    <2>3. SubSeq(wire, 0 + 1, n) = m.ids
      BY <1>1, <1>3, <2>1, <2>2, SliceIs
    <2>4. QED
      BY <2>2, <2>3
  <1>7. SubSeq(wire, (n + 2) + 1, n + 6) = m.parts
    <2>1. \A i \in 1 .. Len(m.parts) : wire[(n + 2) + i] = m.parts[i]
      BY <1>1, <1>3 DEF InPlace
    <2>2. /\ n + 2 \in Nat /\ n + 6 \in Nat
          /\ n + 6 = (n + 2) + Len(m.parts) /\ n + 6 <= Len(wire)
      BY <1>1, <1>3, <1>5
    <2>3. QED
      BY <1>1, <1>3, <2>1, <2>2, SliceIs
  <1>8. SubSeq(wire, (n + 6) + 1, Len(wire)) = m.buffers
    <2>1. \A i \in 1 .. Len(m.buffers) : wire[(n + 6) + i] = m.buffers[i]
      BY <1>1, <1>4 DEF InPlace
    <2>2. /\ n + 6 \in Nat /\ Len(wire) \in Nat
          /\ Len(wire) = (n + 6) + Len(m.buffers) /\ Len(wire) <= Len(wire)
      BY <1>1, <1>4, <1>5
    <2>3. QED
      BY <1>1, <1>3, <2>1, <2>2, SliceIs
  <1>9. /\ taken - 1 = n
        /\ taken + 1 = n + 2
        /\ taken + 2 = (n + 2) + 1
        /\ taken + 5 = n + 6
        /\ taken + 6 = (n + 6) + 1
    BY <1>1, <1>2
  <1>10. Deserialize(m.kind, wire) = m
    BY <1>3, <1>6, <1>7, <1>8, <1>9 DEF Deserialize, PartsOf, taken
  <1>11. SignatureOf(m.kind, wire) = signature
    BY <1>1, <1>9 DEF SignatureOf, InPlace, taken
  <1>12. QED
    BY <1>2, <1>10, <1>11 DEF wire

-----------------------------------------------------------------------------
(* The inductive invariant.                                                 *)

\* What a thread may be working on.
Jobs ==
    [call : {"serialize"}, message : Outgoing]
        \union [call : {"deserialize"},
                wire : {w \in Incoming : Shape(w.kind, w.frames) = "read"}]

JobInv ==
    /\ worker \in [Workers -> {"idle", "locking", "feeding"}]
    /\ job \in [Workers -> Jobs \union {NoJob}]
    /\ fed \in [Workers -> 0 .. 4]
    /\ \A t \in Workers : worker[t] # "idle" => job[t] \in Jobs

\* The context has been fed by one thread only, with the first parts of its
\* message and with nothing else.
DigestInv ==
    \A t \in Workers :
        worker[t] = "feeding" =>
            /\ signed
            /\ mutex = t
            /\ digest = SubSeq(Parts(job[t]), 1, fed[t])

MacInv == JobInv /\ DigestInv

-----------------------------------------------------------------------------
\* A message has four parts, whether it is written or read.
LEMMA FourParts ==
    ASSUME NEW j \in Jobs
    PROVE  /\ Parts(j) \in Seq(Frames)
           /\ Len(Parts(j)) = 4
  <1>1. CASE j \in [call : {"serialize"}, message : Outgoing]
    <2>1. j.call = "serialize" /\ j.message \in Messages(Frames)
      BY <1>1, MacMessages
    <2>2. QED
      BY <2>1 DEF Parts, Messages
  <1>2. CASE j \in [call : {"deserialize"},
                    wire : {w \in Incoming : Shape(w.kind, w.frames) = "read"}]
    <2>1. j.call = "deserialize" /\ j.wire \in Incoming /\ Shape(j.wire.kind, j.wire.frames) = "read"
      BY <1>2
    <2>2. j.wire.frames \in Seq(Frames) /\ j.wire.kind \in {"message", "publication"}
      BY <2>1, MacMessages
    <2>3. QED
      BY <2>1, <2>2, PartsAreFour DEF Parts
  <1>3. QED
    BY <1>1, <1>2 DEF Jobs

\* The invariant holds before the first call.
LEMMA MacInitially == MacInit => MacInv
  BY DEF MacInit, MacInv, JobInv, DigestInv

\* A call begins (xzmq_serializer.cpp:47-159).
LEMMA TakesKeeps ==
    ASSUME MacInv, NEW t \in Workers, NEW j \in Jobs, Takes(t, j),
           UNCHANGED <<signed, mutex, digest, fed>>
    PROVE  MacInv'
  <1>1. worker' = [worker EXCEPT ![t] = "locking"] /\ job' = [job EXCEPT ![t] = j]
    BY DEF Takes
  <1>2. JobInv'
    BY <1>1 DEF MacInv, JobInv
  <1>3. DigestInv'
    <2>1. SUFFICES ASSUME NEW u \in Workers, worker'[u] = "feeding"
                   PROVE  /\ signed
                          /\ mutex = u
                          /\ digest = SubSeq(Parts(job'[u]), 1, fed[u])
      BY DEF DigestInv
    <2>2. u # t /\ worker[u] = "feeding" /\ job'[u] = job[u]
      BY <1>1, <2>1 DEF MacInv, JobInv
    <2>3. QED
      BY <2>2 DEF MacInv, DigestInv
  <1>4. QED
    BY <1>2, <1>3 DEF MacInv

\* The lock is free only when no thread feeds the context (xauthentication.cpp:186, 201).
LEMMA InitKeeps ==
    ASSUME MacInv, NEW t \in Workers, InitHexSignature(t)
    PROVE  MacInv'
  <1>1. JobInv'
    BY DEF MacInv, JobInv, InitHexSignature
  <1>2. SUFFICES ASSUME NEW u \in Workers, worker'[u] = "feeding"
                 PROVE  /\ signed'
                        /\ mutex' = u
                        /\ digest' = SubSeq(Parts(job'[u]), 1, fed'[u])
    BY <1>1 DEF MacInv, DigestInv
  <1>3. u = t
    <2>1. CASE u # t
      <3>1. worker[u] = "feeding"
        BY <1>2, <2>1 DEF MacInv, JobInv, InitHexSignature
      <3>2. mutex = u
        BY <3>1 DEF MacInv, DigestInv
      <3>3. QED
        BY <3>2, MacMessages DEF InitHexSignature
    <2>2. QED
      BY <2>1
  <1>4. fed'[t] = 0 /\ mutex' = t /\ digest' = <<>> /\ signed'
    BY DEF MacInv, JobInv, InitHexSignature
  <1>5. SubSeq(Parts(job'[t]), 1, 0) = <<>>
    BY SubSeqEmpty
  <1>6. QED
    BY <1>3, <1>4, <1>5

\* The next part goes to the context (xauthentication.cpp:206-217).
LEMMA UpdateKeeps ==
    ASSUME MacInv, NEW t \in Workers, Update(t)
    PROVE  MacInv'
  <1> DEFINE parts == Parts(job[t])
             n == fed[t]
  <1>1. JobInv'
    BY DEF MacInv, JobInv, Update
  <1>2. n \in 0 .. 3 /\ job[t] \in Jobs /\ worker[t] = "feeding" /\ fed'[t] = n + 1
    BY DEF MacInv, JobInv, Update
  <1>3. signed /\ mutex = t /\ digest = SubSeq(parts, 1, n)
    BY <1>2 DEF MacInv, DigestInv
  <1>4. parts \in Seq(Frames) /\ Len(parts) = 4
    BY <1>2, FourParts
  <1> HIDE DEF parts, n
  <1>5. SubSeq(parts, 1, n + 1) = Append(SubSeq(parts, 1, n), parts[n + 1])
    BY <1>2, <1>4
  <1>6. digest' = Append(digest, parts[n + 1])
    BY DEF Update, parts, n
  <1>7. SUFFICES ASSUME NEW u \in Workers, worker'[u] = "feeding"
                 PROVE  /\ signed'
                        /\ mutex' = u
                        /\ digest' = SubSeq(Parts(job'[u]), 1, fed'[u])
    BY <1>1 DEF MacInv, DigestInv
  <1>8. u = t
    <2>1. worker[u] = "feeding"
      BY <1>7 DEF Update
    <2>2. QED
      BY <2>1, <1>3 DEF MacInv, DigestInv
  <1>9. QED
    BY <1>2, <1>3, <1>5, <1>6, <1>8 DEF Update, parts

\* A call ends: of this thread nothing is left.
LEMMA ReturnKeeps ==
    ASSUME MacInv, NEW t \in Workers, Return(t), UNCHANGED <<signed, digest>>,
           \/ mutex' = mutex
           \/ worker[t] = "feeding" /\ mutex' = "free"
    PROVE  MacInv'
  <1>1. JobInv'
    BY DEF MacInv, JobInv, Return, NoJob
  <1>2. SUFFICES ASSUME NEW u \in Workers, worker'[u] = "feeding"
                 PROVE  /\ signed
                        /\ mutex' = u
                        /\ digest = SubSeq(Parts(job'[u]), 1, fed'[u])
    BY <1>1 DEF MacInv, DigestInv
  <1>3. u # t /\ worker[u] = "feeding" /\ job'[u] = job[u] /\ fed'[u] = fed[u]
    BY <1>2 DEF MacInv, JobInv, Return
  <1>4. worker[t] # "feeding"
    BY <1>3 DEF MacInv, DigestInv
  <1>5. QED
    BY <1>3, <1>4 DEF MacInv, DigestInv

\* Every step of a thread preserves the invariant (xauthentication.cpp:181-251).
LEMMA MacStep == MacInv /\ [MacNext]_macVars => MacInv'
  <1> SUFFICES ASSUME MacInv, [MacNext]_macVars PROVE MacInv'
    OBVIOUS
  <1>1. ASSUME NEW t \in Workers, NEW m \in Outgoing, StartSerialize(t, m) PROVE MacInv'
    <2>1. [call |-> "serialize", message |-> m] \in Jobs
      BY DEF Jobs
    <2>2. QED
      BY <1>1, <2>1, TakesKeeps DEF StartSerialize
  <1>2. ASSUME NEW t \in Workers, NEW w \in Incoming, StartDeserialize(t, w) PROVE MacInv'
    <2>1. [call |-> "deserialize", wire |-> w] \in Jobs
      BY <1>2 DEF Jobs, StartDeserialize
    <2>2. QED
      BY <1>2, <2>1, TakesKeeps DEF StartDeserialize
  <1>3. ASSUME NEW t \in Workers, NEW w \in Incoming, Throw(t, w) PROVE MacInv'
    BY <1>3 DEF MacInv, JobInv, DigestInv, Throw
  <1>4. ASSUME NEW t \in Workers, InitHexSignature(t) PROVE MacInv'
    BY <1>4, InitKeeps
  <1>5. ASSUME NEW t \in Workers, Update(t) PROVE MacInv'
    BY <1>5, UpdateKeeps
  <1>6. ASSUME NEW t \in Workers, FinalizeHexSignature(t) PROVE MacInv'
    BY <1>6, ReturnKeeps DEF FinalizeHexSignature
  <1>7. ASSUME NEW t \in Workers, NoAuthentication(t) PROVE MacInv'
    BY <1>7, ReturnKeeps DEF NoAuthentication
  <1>8. CASE UNCHANGED macVars
    BY <1>8 DEF MacInv, JobInv, DigestInv, macVars
  <1>9. QED
    BY <1>1, <1>2, <1>3, <1>4, <1>5, <1>6, <1>7, <1>8 DEF MacNext

\* The MAC context is fed by one thread at a time, under the mutex, with the parts
\* of its own message in their order (xauthentication.cpp:181-251).
THEOREM ContextIsOwned == MacSpec => []MacInv
  BY MacInitially, MacStep, PTL DEF MacSpec

-----------------------------------------------------------------------------
(* What follows from it.                                                    *)

\* The signature that is made, or compared, is that of the whole message.
LEMMA WholeMessageIsSigned ==
    ASSUME MacInv, NEW t \in Workers, worker[t] = "feeding", fed[t] = 4
    PROVE  digest = Parts(job[t]) /\ signed /\ job[t] \in Jobs
  <1>1. job[t] \in Jobs /\ signed /\ digest = SubSeq(Parts(job[t]), 1, 4)
    BY DEF MacInv, JobInv, DigestInv
  <1>2. Parts(job[t]) \in Seq(Frames) /\ Len(Parts(job[t])) = 4
    BY <1>1, FourParts
  <1>3. SubSeq(Parts(job[t]), 1, 4) = Parts(job[t])
    BY <1>2, SubSeqFull
  <1>4. QED
    BY <1>1, <1>3

\* How a call ends: with a signature of the whole message, or with none.
LEMMA Ending ==
    ASSUME MacInv, NEW t \in Workers, FinalizeHexSignature(t) \/ NoAuthentication(t)
    PROVE  /\ job[t] \in Jobs
           /\ signed' = signed
           /\ Conclude(t, IF signed THEN Mac(Key, Parts(job[t])) ELSE NoSignature)
  <1>1. CASE FinalizeHexSignature(t)
    <2>1. digest = Parts(job[t]) /\ signed /\ job[t] \in Jobs
      BY <1>1, WholeMessageIsSigned DEF FinalizeHexSignature
    <2>2. Conclude(t, Mac(Key, Parts(job[t]))) /\ signed' = signed
      BY <1>1, <2>1 DEF FinalizeHexSignature
    <2>3. QED
      BY <2>1, <2>2
  <1>2. CASE NoAuthentication(t)
    <2>1. worker[t] = "locking" /\ ~signed /\ Conclude(t, NoSignature) /\ signed' = signed
      BY <1>2 DEF NoAuthentication
    <2>2. QED
      BY <2>1 DEF MacInv, JobInv
  <1>3. QED
    BY <1>1, <1>2

\* All that a step may do to what was sent, handed over and refused.
LEMMA Outcomes ==
    ASSUME MacInv, [MacNext]_macVars
    PROVE  /\ signed' = signed
           /\ \/ UNCHANGED <<sent, handed, refused>>
              \/ /\ \E w \in Incoming :
                       Shape(w.kind, w.frames) # "read" /\ refused' = refused \union {w}
                 /\ UNCHANGED <<sent, handed>>
              \/ \E t \in Workers :
                    /\ job[t] \in Jobs
                    /\ Conclude(t, IF signed THEN Mac(Key, Parts(job[t])) ELSE NoSignature)
  <1>1. ASSUME NEW t \in Workers,
               \/ \E m \in Outgoing : StartSerialize(t, m)
               \/ \E w \in Incoming : StartDeserialize(t, w)
               \/ InitHexSignature(t)
               \/ Update(t)
        PROVE  signed' = signed /\ UNCHANGED <<sent, handed, refused>>
    BY <1>1 DEF StartSerialize, StartDeserialize, InitHexSignature, Update
  <1>2. ASSUME NEW t \in Workers, NEW w \in Incoming, Throw(t, w)
        PROVE  /\ signed' = signed
               /\ Shape(w.kind, w.frames) # "read" /\ refused' = refused \union {w}
               /\ UNCHANGED <<sent, handed>>
    BY <1>2 DEF Throw
  <1>3. CASE UNCHANGED macVars
    BY <1>3 DEF macVars
  <1>4. QED
    BY <1>1, <1>2, <1>3, Ending DEF MacNext

\* What is sent is readable (xauthentication.cpp:181-251, xzmq_serializer.cpp:47-73).
LEMMA SentStep ==
    ASSUME MacInv, SentIsReadable, [MacNext]_macVars
    PROVE  SentIsReadable'
  <1>1. CASE UNCHANGED sent
    BY <1>1, Outcomes DEF SentIsReadable
  <1>2. ASSUME NEW t \in Workers, job[t] \in Jobs,
               Conclude(t, IF signed THEN Mac(Key, Parts(job[t])) ELSE NoSignature)
        PROVE  SentIsReadable'
    <2> DEFINE m == job[t].message
               signature == IF signed THEN Mac(Key, Parts(job[t])) ELSE NoSignature
    <2>1. CASE job[t].call # "serialize"
      BY <1>1, <1>2, <2>1 DEF Conclude
    <2>2. CASE job[t].call = "serialize"
      <3>1. m \in Messages(Frames) /\ Parts(job[t]) = m.parts
        BY <1>2, <2>2, MacMessages DEF Jobs, Parts
      <3>2. sent' = sent \union {[message |-> m, wire |-> Serialize(m, signature)]}
        BY <1>2, <2>2 DEF Conclude
      <3>3. /\ Shape(m.kind, Serialize(m, signature)) = "read"
            /\ Deserialize(m.kind, Serialize(m, signature)) = m
            /\ SignatureOf(m.kind, Serialize(m, signature)) = signature
        BY <3>1, RoundTrip
      <3>4. signed => signature = Mac(Key, m.parts)
        BY <3>1
      <3>5. signed' = signed
        BY Outcomes
      <3> HIDE DEF m, signature
      <3>6. QED
        BY <3>2, <3>3, <3>4, <3>5 DEF SentIsReadable
    <2>3. QED
      BY <2>1, <2>2
  <1>3. QED
    BY <1>1, <1>2, Outcomes

\* Only what was signed together reaches a listener (xzmq_serializer.cpp:75-108).
LEMMA HandedStep ==
    ASSUME MacInv, HandedIsGenuine, [MacNext]_macVars
    PROVE  HandedIsGenuine'
  <1>1. CASE UNCHANGED handed
    BY <1>1, Outcomes DEF HandedIsGenuine
  <1>2. ASSUME NEW t \in Workers, job[t] \in Jobs,
               Conclude(t, IF signed THEN Mac(Key, Parts(job[t])) ELSE NoSignature),
               handed' # handed, signed'
        PROVE  HandedIsGenuine'
    <2> DEFINE w == job[t].wire
    <2>1. job[t].call # "serialize" /\ signed /\ signed' = signed
      BY <1>2, Outcomes DEF Conclude
    <2>2. /\ w \in Incoming /\ Shape(w.kind, w.frames) = "read"
          /\ Parts(job[t]) = PartsOf(w.kind, w.frames)
      BY <1>2, <2>1 DEF Jobs, Parts
    <2>3. /\ handed' = handed \union {[wire |-> w, message |-> Deserialize(w.kind, w.frames)]}
          /\ SignatureOf(w.kind, w.frames) = Mac(Key, PartsOf(w.kind, w.frames))
      BY <1>2, <2>1, <2>2 DEF Conclude
    <2>4. PICK g \in Incoming :
            g.origin = Key /\ PartsOf(g.kind, g.frames) = PartsOf(w.kind, w.frames)
      BY <2>2, <2>3, MacUnforgeable
    <2>5. Shape(g.kind, g.frames) = "read"
      BY <2>4, MacUnforgeable
    <2>6. Deserialize(w.kind, w.frames).parts = PartsOf(w.kind, w.frames)
      BY DEF Deserialize
    <2> HIDE DEF w
    <2>7. QED
      BY <2>1, <2>3, <2>4, <2>5, <2>6 DEF HandedIsGenuine
  <1>3. CASE ~signed'
    BY <1>3 DEF HandedIsGenuine
  <1>4. QED
    BY <1>1, <1>2, <1>3, Outcomes

\* A genuine message is not refused (xzmq_serializer.cpp:75-108).
LEMMA RefusedStep ==
    ASSUME MacInv, GenuineIsHanded, [MacNext]_macVars
    PROVE  GenuineIsHanded'
  <1>1. CASE UNCHANGED refused
    BY <1>1 DEF GenuineIsHanded
  <1>2. ASSUME NEW w \in Incoming, Shape(w.kind, w.frames) # "read", refused' = refused \union {w}
        PROVE  GenuineIsHanded'
    BY <1>2, MacUnforgeable DEF GenuineIsHanded
  <1>3. ASSUME NEW t \in Workers, job[t] \in Jobs,
               Conclude(t, IF signed THEN Mac(Key, Parts(job[t])) ELSE NoSignature),
               refused' # refused
        PROVE  GenuineIsHanded'
    <2> DEFINE w == job[t].wire
    <2>1. /\ job[t].call # "serialize" /\ signed
          /\ SignatureOf(w.kind, w.frames) # Mac(Key, Parts(job[t]))
          /\ refused' = refused \union {w}
      BY <1>3 DEF Conclude
    <2>2. w \in Incoming /\ Parts(job[t]) = PartsOf(w.kind, w.frames)
      BY <1>3, <2>1 DEF Jobs, Parts
    <2>3. w.origin # Key
      BY <2>1, <2>2, MacUnforgeable
    <2>4. QED
      BY <2>1, <2>3 DEF GenuineIsHanded
  <1>4. QED
    BY <1>1, <1>2, <1>3, Outcomes

\* Whoever has the key reads what was sent, whatever other threads sign or verify
\* meanwhile with the same context.
THEOREM WhatIsSentIsReadable == MacSpec => []SentIsReadable
  <1>1. MacInit => SentIsReadable
    BY DEF MacInit, SentIsReadable
  <1>2. QED
    BY <1>1, SentStep, ContextIsOwned, PTL DEF MacSpec

\* What reaches a listener was signed with the key, by someone who has it.
THEOREM WhatIsHandedIsGenuine == MacSpec => []HandedIsGenuine
  <1>1. MacInit => HandedIsGenuine
    BY DEF MacInit, HandedIsGenuine
  <1>2. QED
    BY <1>1, HandedStep, ContextIsOwned, PTL DEF MacSpec

\* A message that was signed with the key and is as it was sent is not refused.
THEOREM WhatIsGenuineIsHanded == MacSpec => []GenuineIsHanded
  <1>1. MacInit => GenuineIsHanded
    BY DEF MacInit, GenuineIsHanded
  <1>2. QED
    BY <1>1, RefusedStep, ContextIsOwned, PTL DEF MacSpec

=============================================================================
