--------------------------- MODULE Network_proofs ---------------------------
(***************************************************************************)
(* Proofs about the network: what its buffers hold is counted exactly and  *)
(* fits, every packet under way has one event, whoever waits for a buffer  *)
(* waits for a packet in it, and a busy link carries no more.              *)
(***************************************************************************)
EXTENDS Network, FiniteSetTheorems, LoopLemmas

(* The inductive invariant. *)

Events  == {"try", "output_buffer", "input_buffer", "receive", "received"}
Entries == [who : Messages \cup Packets, event : Events, delay : Nat]

\* The frames of the agenda are in the order of their times.
Sorted(ag) == \A i, j \in DOMAIN ag : i <= j => ag[i].delay <= ag[j].delay

\* No message or packet occurs twice in a sequence of frames.
OnceEach(ag) == \A i, j \in DOMAIN ag : ag[i].who = ag[j].who => i = j

\* The frames of an agenda and of the queues of the buffers: in order, none twice, and
\* a suspended frame has no time.
Queued(q)    == UNION {Range(q[b]) : b \in Buffers}
Frames(ag, q) == Range(ag) \cup Queued(q)
FramesOK(ag, q) ==
    /\ ag \in Seq(Entries) /\ q \in [Buffers -> Seq(Entries)]
    /\ Sorted(ag) /\ OnceEach(ag)
    /\ \A b, c \in Buffers : \A i \in DOMAIN q[b], j \in DOMAIN q[c] :
          q[b][i].who = q[c][j].who => b = c /\ i = j
    /\ \A e \in Range(ag), x \in Queued(q) : e.who # x.who
    /\ \A e \in Queued(q) : e.delay = 0
    /\ \A e \in Range(ag) : e.delay <= MaxDelay

\* The types of what moves, and what is kept of the lanes of a link.
Typed ==
    /\ content \in [Buffers -> Seq(Packets)] /\ count \in [Buffers -> Int]
    /\ read_busy \in [Buffers -> 0 .. MaxDelay] /\ write_busy \in [Buffers -> 0 .. MaxDelay]
    /\ busy \in [Packets -> 0 .. MaxDelay]
    /\ at \in [Packets -> Buffers \cup {None}]
    /\ received \in [Messages -> SUBSET Packets]
    /\ \A m \in Messages : received[m] \subseteq PacketsOf(m)
    /\ in_flight \in Seq(Messages)
LanesOK ==
    /\ DOMAIN lane = Conns
    /\ \A c \in Conns : Kind[c] = "link" =>
          /\ 1 \in DOMAIN lane[c] /\ "busy" \in DOMAIN lane[c][1]
          /\ lane[c][1].busy \in 0 .. MaxDelay

\* The messages under way; no sequence below repeats one.
Flying      == Range(in_flight)
Distinct(s) == \A i, j \in DOMAIN s : s[i] = s[j] => i = j

\* Where the message or packet of a frame is.
Placed(e) ==
    \/ e.event = "try" /\ e.who \in Messages \ Flying
    \/ /\ e.event = "received" /\ e.who \in Flying
       /\ received[e.who] = PacketsOf(e.who)
    \/ /\ e.who \in Packets /\ e.who[1] \in Flying /\ e.who \notin received[e.who[1]]
       /\ \/ e.event = "receive" /\ (Routed(e.who[1]) => Home(at[e.who], e.who[1]))
          \/ e.event = "output_buffer" /\ Routed(e.who[1]) /\ at[e.who] \in OutBuffers
          \/ e.event = "input_buffer" /\ Routed(e.who[1]) /\ at[e.who] \in InBuffers

\* A packet of a message under way has a frame or was received; it is on the way of
\* its message, and at its end once received.
Carried ==
    /\ \A m \in Messages : received[m] # {} => m \in Flying
    /\ \A m \in Flying : \A p \in PacketsOf(m) :
          /\ p \in received[m] \/ \E e \in Frames(agenda, queue) : e.who = p
          /\ Routed(m) => at[p] \in Way(m)
          /\ Routed(m) /\ p \in received[m] => Home(at[p], m)
    /\ Distinct(in_flight)

\* The buffers hold the packets under way, each once.
Held(b) == {p \in Packets : p[1] \in Flying /\ Routed(p[1]) /\ at[p] = b}
Stored  == \A b \in Buffers : Range(content[b]) = Held(b) /\ Distinct(content[b])

AllPlaced == \A e \in Frames(agenda, queue) : Placed(e)
Core   == /\ FramesOK(agenda, queue) /\ Typed /\ AllPlaced /\ Carried /\ Stored
          /\ BuffersHold /\ WaitersHaveAReason
NetInv == Core /\ LanesOK

---------------------------------------------------------------------------
(* Numbers and sequences. *)

\* A finite nonempty set of naturals has a greatest element, found by going through
\* an enumeration of it.
LEMMA GreatestOf ==
    ASSUME NEW S \in SUBSET Nat, IsFiniteSet(S), S # {}
    PROVE  Max(S) \in S /\ \A y \in S : y <= Max(S)
<1>0. PICK n \in Nat : ExistsBijection(1 .. n, S)
  BY FS_NatBijection
<1>1. PICK f : f \in [1 .. n -> S] /\ \A y \in S : \E i \in 1 .. n : f[i] = y
  <2>1. PICK f : f \in Bijection(1 .. n, S)
    BY <1>0 DEF ExistsBijection
  <2> QED
    BY <2>1 DEF Bijection, Surjection, Injection
<1> DEFINE bounded(k) == \E x \in S : \A i \in 1 .. k : f[i] <= x
           bad        == {k \in 0 .. n : ~ bounded(k)}
<1>2. bounded(0)
  <2>1. PICK x \in S : TRUE
    OBVIOUS
  <2>2. \A i \in 1 .. 0 : f[i] <= x
    OBVIOUS
  <2> QED
    BY <2>2
<1>3. ASSUME NEW k \in 1 .. n, bounded(k - 1) PROVE bounded(k)
  <2>1. PICK x \in S : \A i \in 1 .. k - 1 : f[i] <= x
    BY <1>3
  <2>2. \A i \in 1 .. n : f[i] \in S /\ f[i] \in Nat
    BY <1>1
  <2>3. PICK z \in S : x <= z /\ f[k] <= z
    <3>1. f[k] \in S /\ f[k] \in Nat /\ x \in Nat
      BY <2>2
    <3>2. x <= f[k] \/ f[k] <= x
      BY <3>1
    <3>3. x <= x /\ f[k] <= f[k]
      BY <3>1
    <3> QED
      BY <3>1, <3>2, <3>3
  <2>4. ASSUME NEW i \in 1 .. k PROVE f[i] <= z
    <3>1. (i \in 1 .. k - 1 \/ i = k) /\ i \in 1 .. n
      OBVIOUS
    <3>2. f[i] \in Nat /\ x \in Nat /\ z \in Nat
      BY <2>2, <3>1
    <3>3. CASE i = k
      BY <2>3, <3>3
    <3>4. CASE i \in 1 .. k - 1
      <4>1. f[i] <= x
        BY <2>1, <3>4
      <4> QED
        BY <2>3, <3>2, <4>1
    <3> QED
      BY <3>1, <3>3, <3>4
  <2> QED
    BY <2>4
<1> HIDE DEF bounded
<1>4. bad = {}
  <2> SUFFICES ASSUME bad # {} PROVE FALSE
    OBVIOUS
  <2>1. bad \in SUBSET Nat
    OBVIOUS
  <2>2. PICK k \in bad : \A y \in bad : k <= y
    <3> HIDE DEF bad
    <3> QED
      BY <2>1, LeastOf
  <2>3. k \in 0 .. n /\ ~ bounded(k)
    OBVIOUS
  <2>4. k # 0
    BY <1>2, <2>3
  <2>5. k \in 1 .. n /\ k - 1 \in 0 .. n /\ ~ (k <= k - 1)
    BY <2>3, <2>4
  <2>6. bounded(k - 1)
    BY <2>2, <2>5
  <2> QED
    BY <1>3, <2>3, <2>5, <2>6
<1>5. bounded(n)
  BY <1>4
<1>6. PICK x \in S : \A i \in 1 .. n : f[i] <= x
  BY <1>5 DEF bounded
<1>7. \E z \in S : \A y \in S : z >= y
  BY <1>1, <1>6
<1>8. Max(S) \in S /\ \A y \in S : Max(S) >= y
  BY <1>7 DEF Max
<1> QED
  BY <1>8

---------------------------------------------------------------------------
(* Sizes and delays. *)

\* Every message has packets, and they have a size.
LEMMA PacketFacts ==
    ASSUME NEW m \in Messages
    PROVE  /\ SizeOf(m) \in Nat \ {0} /\ NumPackets(m) \in Nat \ {0}
           /\ PacketsOf(m) \subseteq Packets /\ <<m, 1>> \in PacketsOf(m)
           /\ \A p \in PacketsOf(m) : p[1] = m
<1>1. SizeOf(m) \in Nat \ {0} /\ Size[m] \in Nat \ {0}
  BY ConfigAssumption DEF SizeOf
<1>2. \A a, b \in Nat \ {0} : (a - 1) \div b \in Nat
  OBVIOUS
<1>3. NumPackets(m) \in Nat \ {0}
  BY <1>1, <1>2 DEF NumPackets
<1>4. <<m, 1>> \in PacketsOf(m)
  BY <1>3 DEF PacketsOf
<1> QED
  BY <1>1, <1>3, <1>4 DEF PacketsOf, Packets

\* A packet belongs to its message.
LEMMA PacketIsOf ==
    ASSUME NEW p \in Packets
    PROVE  p[1] \in Messages /\ p \in PacketsOf(p[1])
BY DEF Packets, PacketsOf

\* The packets of a message are finitely many.
LEMMA PacketsCount ==
    ASSUME NEW m \in Messages
    PROVE  IsFiniteSet(PacketsOf(m)) /\ Cardinality(PacketsOf(m)) = NumPackets(m)
<1> DEFINE f == [i \in 1 .. NumPackets(m) |-> <<m, i>>]
<1>1. f \in Bijection(1 .. NumPackets(m), PacketsOf(m))
  <2>1. f \in [1 .. NumPackets(m) -> PacketsOf(m)]
    BY DEF PacketsOf
  <2>2. \A t \in PacketsOf(m) : \E i \in 1 .. NumPackets(m) : f[i] = t
    BY DEF PacketsOf
  <2>3. \A i, j \in DOMAIN f : f[i] = f[j] => i = j
    OBVIOUS
  <2> QED
    BY <2>1, <2>2, <2>3 DEF Bijection, Injection, Surjection, IsInjective
<1>2. IsFiniteSet(1 .. NumPackets(m)) /\ Cardinality(1 .. NumPackets(m)) = NumPackets(m)
  <2>1. NumPackets(m) \in Nat \ {0}
    BY PacketFacts
  <2>2. NumPackets(m) \in Int /\ 1 \in Int /\ ~ (1 > NumPackets(m))
    BY <2>1
  <2>3. NumPackets(m) - 1 + 1 = NumPackets(m)
    BY <2>2
  <2> QED
    BY <2>2, <2>3, FS_Interval
<1>3. ExistsBijection(1 .. NumPackets(m), PacketsOf(m))
  BY <1>1 DEF ExistsBijection
<1> QED
  BY <1>2, <1>3, FS_Bijection

LEMMA PacketsFinite == IsFiniteSet(Packets)
<1> DEFINE f == [m \in Messages |-> PacketsOf(m)]
           T == {PacketsOf(m) : m \in Messages}
<1>1. f \in Surjection(Messages, T)
  BY DEF Surjection
<1>2. IsFiniteSet(T)
  BY <1>1, FS_Surjection, ConfigAssumption
<1>3. \A x \in T : IsFiniteSet(x)
  BY PacketsCount
<1> QED
  BY <1>2, <1>3, FS_UNION DEF Packets

\* What a transfer takes is positive.
LEMMA LatencyFacts ==
    ASSUME NEW p \in Packets, NEW x \in Nat \ {0}
    PROVE  Latency(p, x) \in Nat \ {0}
<1>1. SizeOf(p[1]) \in Nat \ {0}
  BY PacketIsOf, PacketFacts
<1>2. \A a, b \in Nat \ {0} : (a - 1) \div b \in Nat
  OBVIOUS
<1> QED
  BY <1>1, <1>2 DEF Latency

\* MaxDelay is the largest of finitely many numbers.
LEMMA MaxDelayFacts ==
    /\ MaxDelay \in Nat /\ 1 <= MaxDelay
    /\ \A p \in Packets, c \in Conns : Latency(p, Bandwidth[c]) <= MaxDelay
    /\ \A p \in Packets, n \in Switches : Latency(p, SwitchBandwidth[n]) <= MaxDelay
    /\ \A m \in Messages : FixLatency[m] <= MaxDelay
<1> DEFINE B1 == {Bandwidth[c] : c \in Conns}
           B2 == {SwitchBandwidth[n] : n \in Switches}
           B  == B1 \cup B2
           L  == {Latency(p, x) : p \in Packets, x \in B}
           F  == {FixLatency[m] : m \in Messages}
           S  == L \cup F \cup {1}
<1>1. IsFiniteSet(B) /\ B \subseteq Nat \ {0}
  <2>1. [c \in Conns |-> Bandwidth[c]] \in Surjection(Conns, B1)
    BY DEF Surjection
  <2>2. [n \in Switches |-> SwitchBandwidth[n]] \in Surjection(Switches, B2)
    BY DEF Surjection
  <2>3. IsFiniteSet(B1) /\ IsFiniteSet(B2)
    BY <2>1, <2>2, FS_Surjection, ConfigAssumption
  <2>4. B1 \subseteq Nat \ {0} /\ B2 \subseteq Nat \ {0}
    BY ConfigAssumption
  <2> HIDE DEF B1, B2
  <2> QED
    BY <2>3, <2>4, FS_Union
<1>2. IsFiniteSet(L) /\ L \subseteq Nat
  <2> HIDE DEF B
  <2>1. IsFiniteSet(Packets \X B)
    BY <1>1, PacketsFinite, FS_Product
  <2>2. [t \in Packets \X B |-> Latency(t[1], t[2])] \in Surjection(Packets \X B, L)
    <3> DEFINE g == [t \in Packets \X B |-> Latency(t[1], t[2])]
    <3>1. g \in [Packets \X B -> L]
      OBVIOUS
    <3>2. ASSUME NEW y \in L PROVE \E t \in Packets \X B : g[t] = y
      <4>1. PICK p \in Packets, x \in B : y = Latency(p, x)
        OBVIOUS
      <4>2. <<p, x>> \in Packets \X B /\ g[<<p, x>>] = y
        BY <4>1
      <4> QED
        BY <4>2
    <3> QED
      BY <3>1, <3>2 DEF Surjection
  <2>3. IsFiniteSet(L)
    BY <2>1, <2>2, FS_Surjection
  <2>4. \A p \in Packets, x \in B : Latency(p, x) \in Nat
    BY <1>1, LatencyFacts
  <2> QED
    BY <2>3, <2>4
<1>3. IsFiniteSet(F) /\ F \subseteq Nat
  <2>1. [m \in Messages |-> FixLatency[m]] \in Surjection(Messages, F)
    BY DEF Surjection
  <2> QED
    BY <2>1, FS_Surjection, ConfigAssumption
<1>4. MaxDelay = Max(S)
  BY DEF MaxDelay
<1>5. IsFiniteSet(S) /\ S \in SUBSET Nat /\ S # {}
  <2> HIDE DEF L, F
  <2>1. IsFiniteSet(L \cup F)
    BY <1>2, <1>3, FS_Union
  <2>2. IsFiniteSet(S)
    BY <2>1, FS_AddElement
  <2> QED
    BY <1>2, <1>3, <2>2
<1>6. MaxDelay \in S /\ \A y \in S : y <= MaxDelay
  <2> HIDE DEF S
  <2> QED
    BY <1>4, <1>5, GreatestOf
<1>7. /\ \A p \in Packets, c \in Conns : Latency(p, Bandwidth[c]) \in S
      /\ \A p \in Packets, n \in Switches : Latency(p, SwitchBandwidth[n]) \in S
      /\ \A m \in Messages : FixLatency[m] \in S
      /\ 1 \in S
  OBVIOUS
<1> HIDE DEF S
<1> QED
  BY <1>5, <1>6, <1>7

---------------------------------------------------------------------------
(* The agenda. *)

\* Two sequences of frames put together.
LEMMA ConcatFacts ==
    ASSUME NEW s \in Seq(Entries), NEW t \in Seq(Entries)
    PROVE  /\ s \o t \in Seq(Entries)
           /\ Len(s \o t) = Len(s) + Len(t)
           /\ \A i \in 1 .. Len(s) : (s \o t)[i] = s[i]
           /\ \A i \in 1 .. Len(t) : (s \o t)[Len(s) + i] = t[i]
<1>1. s \o t \in Seq(Entries)
  OBVIOUS
<1>2. Len(s \o t) = Len(s) + Len(t)
  OBVIOUS
<1>3. \A i \in 1 .. Len(s) : (s \o t)[i] = s[i]
  OBVIOUS
<1>4. \A i \in 1 .. Len(t) : (s \o t)[Len(s) + i] = t[i]
  OBVIOUS
<1> QED
  BY <1>1, <1>2, <1>3, <1>4

\* Frames are scheduled after a position k of the agenda.
LEMMA ScheduledAt ==
    ASSUME NEW ag \in Seq(Entries), NEW d \in Nat, NEW fs \in Seq(Entries)
    PROVE  \E k \in 0 .. Len(ag) :
             /\ Scheduled(ag, d, fs) \in Seq(Entries)
             /\ Len(Scheduled(ag, d, fs)) = Len(ag) + Len(fs)
             /\ \A i \in 1 .. k : Scheduled(ag, d, fs)[i] = ag[i] 
             /\ \A i \in 1 .. Len(fs) : Scheduled(ag, d, fs)[k + i] = fs[i]
             /\ \A i \in k + 1 .. Len(ag) : Scheduled(ag, d, fs)[i + Len(fs)] = ag[i]
             /\ k = 0 \/ ag[k].delay <= d
             /\ \A i \in k + 1 .. Len(ag) : ag[i].delay > d
<1>1. Len(ag) \in Nat /\ \A i \in 1 .. Len(ag) : ag[i] \in Entries /\ ag[i].delay \in Nat
  <2>1. Len(ag) \in Nat /\ \A i \in 1 .. Len(ag) : ag[i] \in Entries
    OBVIOUS
  <2>2. \A e \in Entries : e.delay \in Nat
    BY DEF Entries
  <2> QED
    BY <2>1, <2>2
<1> DEFINE rest(k) == \A i \in k + 1 .. Len(ag) : ag[i].delay > d
           K == {k \in 0 .. Len(ag) : rest(k)}
           k == LastDueIn(ag, d)
<1>2. \E n \in 0 .. Len(ag) : (n = 0 \/ ag[n].delay <= d) /\ rest(n)
  <2>1. Len(ag) \in K
    BY <1>1
  <2>2. K \in SUBSET Nat /\ K # {}
    BY <1>1, <2>1
  <2>3. PICK n \in K : \A x \in K : n <= x
    <3> HIDE DEF K
    <3> QED
      BY <2>2, LeastOf
  <2>4. n \in 0 .. Len(ag) /\ rest(n)
    OBVIOUS
  <2>5. ASSUME n # 0, ag[n].delay > d PROVE FALSE
    <3>1. n - 1 \in 0 .. Len(ag) /\ ~ (n <= n - 1)
      BY <1>1, <2>4, <2>5
    <3>2. rest(n - 1)
      <4>1. ASSUME NEW i \in (n - 1) + 1 .. Len(ag) PROVE ag[i].delay > d
        <5>1. i = n \/ i \in n + 1 .. Len(ag)
          BY <1>1, <2>4
        <5> QED
          BY <2>4, <2>5, <5>1
      <4> QED
        BY <4>1
    <3> QED
      BY <2>3, <3>1, <3>2
  <2>6. n = 0 \/ ag[n].delay <= d
    <3>1. n # 0 => ag[n].delay \in Nat
      BY <1>1, <2>4
    <3> QED
      BY <2>5, <3>1
  <2> QED
    BY <2>4, <2>6
<1>3. k \in 0 .. Len(ag) /\ (k = 0 \/ ag[k].delay <= d) /\ rest(k)
  BY <1>2 DEF LastDueIn
<1> DEFINE s1 == SubSeq(ag, 1, k)
           s2 == SubSeq(ag, k + 1, Len(ag))
           r  == Scheduled(ag, d, fs)
<1>4. r = s1 \o fs \o s2
  BY DEF Scheduled
<1> HIDE DEF k, r
<1>5. /\ s1 \in Seq(Entries) /\ Len(s1) = k /\ \A i \in 1 .. k : s1[i] = ag[i]
      /\ s2 \in Seq(Entries) /\ Len(s2) = Len(ag) - k
      /\ \A i \in 1 .. Len(ag) - k : s2[i] = ag[k + i]
  BY <1>1, <1>3
<1>6. Len(fs) \in Nat
  OBVIOUS
<1> HIDE DEF s1, s2
<1>7. /\ s1 \o fs \in Seq(Entries) /\ Len(s1 \o fs) = k + Len(fs)
      /\ \A i \in 1 .. k : (s1 \o fs)[i] = s1[i]
      /\ \A i \in 1 .. Len(fs) : (s1 \o fs)[k + i] = fs[i]
  <2>0. s1 \in Seq(Entries)
    BY <1>5
  <2>1. /\ s1 \o fs \in Seq(Entries) /\ Len(s1 \o fs) = Len(s1) + Len(fs)
        /\ \A i \in 1 .. Len(s1) : (s1 \o fs)[i] = s1[i]
        /\ \A i \in 1 .. Len(fs) : (s1 \o fs)[Len(s1) + i] = fs[i]
    BY <2>0, ConcatFacts
  <2>2. Len(s1) = k
    BY <1>5
  <2> QED
    BY <2>1, <2>2
<1> DEFINE t == s1 \o fs
<1>8. t \in Seq(Entries) /\ Len(t) = k + Len(fs) /\ r = t \o s2
  BY <1>4, <1>7
<1>9. /\ \A i \in 1 .. k : t[i] = ag[i]
      /\ \A i \in 1 .. Len(fs) : t[k + i] = fs[i]
  BY <1>5, <1>7
<1> HIDE DEF t
<1>10. r \in Seq(Entries) /\ Len(r) = Len(ag) + Len(fs)
  <2>1. r \in Seq(Entries) /\ Len(r) = Len(t) + Len(s2)
    BY <1>5, <1>8, ConcatFacts
  <2>2. Len(t) + Len(s2) = Len(ag) + Len(fs)
    BY <1>1, <1>3, <1>5, <1>6, <1>8
  <2> QED
    BY <2>1, <2>2
<1>11. \A i \in 1 .. k + Len(fs) : r[i] = t[i]
  BY <1>5, <1>8, ConcatFacts
<1>12. \A i \in 1 .. Len(ag) - k : r[k + Len(fs) + i] = s2[i]
  <2>0. s2 \in Seq(Entries) /\ t \in Seq(Entries) /\ r = t \o s2
    BY <1>5, <1>8
  <2>1. \A i \in 1 .. Len(s2) : r[Len(t) + i] = s2[i]
    BY <2>0, ConcatFacts
  <2>2. Len(s2) = Len(ag) - k /\ Len(t) = k + Len(fs)
    BY <1>5, <1>8
  <2> QED
    BY <2>1, <2>2
<1>13. \A i \in 1 .. k : r[i] = ag[i]
  BY <1>3, <1>6, <1>9, <1>11
<1>14. \A i \in 1 .. Len(fs) : r[k + i] = fs[i]
  <2>1. ASSUME NEW i \in 1 .. Len(fs) PROVE r[k + i] = fs[i]
    <3>1. k + i \in 1 .. k + Len(fs)
      BY <1>3, <1>6
    <3> QED
      BY <1>9, <1>11, <3>1
  <2> QED
    BY <2>1
<1>15. \A i \in k + 1 .. Len(ag) : r[i + Len(fs)] = ag[i]
  <2>1. ASSUME NEW i \in k + 1 .. Len(ag) PROVE r[i + Len(fs)] = ag[i]
    <3>1. i - k \in 1 .. Len(ag) - k /\ k + Len(fs) + (i - k) = i + Len(fs) /\ k + (i - k) = i
      BY <1>1, <1>3, <1>6
    <3>2. r[k + Len(fs) + (i - k)] = s2[i - k]
      BY <1>12, <3>1
    <3>3. s2[i - k] = ag[k + (i - k)]
      BY <1>5, <3>1
    <3> QED
      BY <3>1, <3>2, <3>3
  <2> QED
    BY <2>1
<1> QED
  BY <1>3, <1>10, <1>13, <1>14, <1>15 DEF r

\* What is scheduled is what was there and the new frames, each once.
LEMMA ScheduledHolds ==
    ASSUME NEW ag \in Seq(Entries), NEW d \in Nat, NEW fs \in Seq(Entries)
    PROVE  /\ Scheduled(ag, d, fs) \in Seq(Entries)
           /\ Range(Scheduled(ag, d, fs)) = Range(ag) \cup Range(fs)
           /\ /\ OnceEach(ag) /\ OnceEach(fs)
              /\ \A e \in Range(ag), x \in Range(fs) : e.who # x.who
              => OnceEach(Scheduled(ag, d, fs))
<1> DEFINE r == Scheduled(ag, d, fs)
           n == Len(fs)
<1>1. PICK k \in 0 .. Len(ag) :
             /\ r \in Seq(Entries) /\ Len(r) = Len(ag) + n
             /\ \A i \in 1 .. k : r[i] = ag[i]
             /\ \A i \in 1 .. n : r[k + i] = fs[i]
             /\ \A i \in k + 1 .. Len(ag) : r[i + n] = ag[i]
  BY ScheduledAt
<1> HIDE DEF r
<1>2. /\ DOMAIN ag = 1 .. Len(ag) /\ DOMAIN fs = 1 .. n /\ DOMAIN r = 1 .. Len(ag) + n
      /\ n \in Nat /\ Len(ag) \in Nat
  BY <1>1
<1> HIDE DEF n
\* Every position of the result is one of three kinds.
<1> DEFINE first(i) == i \in 1 .. k
           mid(i)   == i - k \in 1 .. n
           last(i)  == i - n \in k + 1 .. Len(ag)
<1>3. \A i \in DOMAIN r : i \in Int /\ (first(i) \/ mid(i) \/ last(i))
  BY <1>1, <1>2
<1>4. ASSUME NEW i \in DOMAIN r
      PROVE  /\ first(i) => i \in DOMAIN ag /\ r[i] = ag[i]
             /\ mid(i) => i - k \in DOMAIN fs /\ r[i] = fs[i - k]
             /\ last(i) => i - n \in DOMAIN ag /\ r[i] = ag[i - n]
  <2>1. i \in Int /\ k \in Int /\ n \in Int
    BY <1>1, <1>2
  <2>2. first(i) => i \in DOMAIN ag /\ r[i] = ag[i]
    BY <1>1, <1>2
  <2>3. mid(i) => i - k \in DOMAIN fs /\ r[i] = fs[i - k]
    <3>1. k + (i - k) = i
      BY <2>1
    <3> QED
      BY <1>1, <1>2, <3>1
  <2>4. last(i) => i - n \in DOMAIN ag /\ r[i] = ag[i - n]
    <3>1. (i - n) + n = i
      BY <2>1
    <3>2. last(i) => i - n \in 1 .. Len(ag)
      BY <1>1, <1>2, <2>1
    <3> QED
      BY <1>1, <1>2, <3>1, <3>2
  <2> QED
    BY <2>2, <2>3, <2>4
<1>5. Range(r) = Range(ag) \cup Range(fs)
  <2>1. ASSUME NEW e \in Range(r) PROVE e \in Range(ag) \cup Range(fs)
    <3>1. PICK i \in DOMAIN r : r[i] = e
      BY DEF Range
    <3> QED
      BY <1>3, <1>4, <3>1 DEF Range
  <2>2. ASSUME NEW e \in Range(ag) PROVE e \in Range(r)
    <3>1. PICK i \in 1 .. Len(ag) : ag[i] = e
      BY <1>2 DEF Range
    <3>2. CASE i \in 1 .. k
      <4>1. i \in DOMAIN r /\ r[i] = e
        BY <1>1, <1>2, <3>1, <3>2
      <4> QED
        BY <4>1 DEF Range
    <3>3. CASE i \in k + 1 .. Len(ag)
      <4>1. i + n \in DOMAIN r /\ r[i + n] = e
        BY <1>1, <1>2, <3>1, <3>3
      <4> QED
        BY <4>1 DEF Range
    <3> QED
      BY <1>1, <1>2, <3>1, <3>2, <3>3
  <2>3. ASSUME NEW e \in Range(fs) PROVE e \in Range(r)
    <3>1. PICK i \in 1 .. n : fs[i] = e
      BY <1>2 DEF Range
    <3>2. k + i \in DOMAIN r /\ r[k + i] = e
      BY <1>1, <1>2, <3>1
    <3> QED
      BY <3>2 DEF Range
  <2> QED
    BY <2>1, <2>2, <2>3
<1>6. ASSUME OnceEach(ag), OnceEach(fs),
             \A e \in Range(ag), x \in Range(fs) : e.who # x.who
      PROVE  OnceEach(r)
  <2> SUFFICES ASSUME NEW i \in DOMAIN r, NEW j \in DOMAIN r, r[i].who = r[j].who
               PROVE  i = j
    BY DEF OnceEach
  <2>1. i \in Int /\ j \in Int /\ n \in Int /\ k \in Int /\ n >= 0
    BY <1>1, <1>2, <1>3
  <2>2. \A x \in DOMAIN ag, y \in DOMAIN fs : ag[x].who # fs[y].who
    BY <1>6 DEF Range
  <2>3. CASE mid(i) /\ mid(j)
    <3>1. i - k = j - k
      BY <1>4, <1>6, <2>3 DEF OnceEach
    <3> QED
      BY <2>1, <3>1
  <2>4. CASE mid(i) /\ ~ mid(j)
    BY <1>3, <1>4, <2>2, <2>4
  <2>5. CASE ~ mid(i) /\ mid(j)
    BY <1>3, <1>4, <2>2, <2>5
  <2>6. CASE first(i) /\ first(j)
    BY <1>4, <1>6, <2>6 DEF OnceEach
  <2>7. CASE last(i) /\ last(j)
    <3>1. i - n = j - n
      BY <1>4, <1>6, <2>7 DEF OnceEach
    <3> QED
      BY <2>1, <3>1
  <2>8. CASE first(i) /\ last(j)
    <3>1. i = j - n
      BY <1>4, <1>6, <2>8 DEF OnceEach
    <3> QED
      BY <2>1, <2>8, <3>1
  <2>9. CASE last(i) /\ first(j)
    <3>1. i - n = j
      BY <1>4, <1>6, <2>9 DEF OnceEach
    <3> QED
      BY <2>1, <2>9, <3>1
  <2> QED
    BY <1>3, <2>3, <2>4, <2>5, <2>6, <2>7, <2>8, <2>9
<1> QED
  BY <1>1, <1>5, <1>6 DEF r

\* The agenda stays in the order of time.
LEMMA ScheduledSorts ==
    ASSUME NEW ag \in Seq(Entries), NEW d \in Nat, NEW fs \in Seq(Entries),
           Sorted(ag), \A x \in Range(fs) : x.delay = d
    PROVE  Sorted(Scheduled(ag, d, fs))
<1> DEFINE r == Scheduled(ag, d, fs)
           n == Len(fs)
<1>1. PICK k \in 0 .. Len(ag) :
             /\ r \in Seq(Entries) /\ Len(r) = Len(ag) + n
             /\ \A i \in 1 .. k : r[i] = ag[i]
             /\ \A i \in 1 .. n : r[k + i] = fs[i]
             /\ \A i \in k + 1 .. Len(ag) : r[i + n] = ag[i]
             /\ k = 0 \/ ag[k].delay <= d
             /\ \A i \in k + 1 .. Len(ag) : ag[i].delay > d
  BY ScheduledAt
<1> HIDE DEF r
<1>2. /\ DOMAIN ag = 1 .. Len(ag) /\ DOMAIN fs = 1 .. n /\ DOMAIN r = 1 .. Len(ag) + n
      /\ n \in Nat /\ Len(ag) \in Nat
  BY <1>1
<1>3. \A i \in 1 .. Len(ag) : ag[i].delay \in Nat
  <2>1. \A e \in Entries : e.delay \in Nat
    BY DEF Entries
  <2> QED
    BY <1>2, <2>1
<1>4. \A i \in 1 .. n : fs[i].delay = d
  BY <1>2 DEF Range
<1> HIDE DEF n
<1> DEFINE t(i) == r[i].delay
<1>5. \A i \in 1 .. k : t(i) = ag[i].delay /\ t(i) \in Nat /\ t(i) <= d
  <2>1. ASSUME NEW i \in 1 .. k PROVE t(i) = ag[i].delay /\ t(i) \in Nat /\ t(i) <= d
    <3>1. t(i) = ag[i].delay
      BY <1>1
    <3>2. i \in DOMAIN ag /\ k \in DOMAIN ag /\ i <= k /\ k # 0
      BY <1>1, <1>2
    <3>3. ag[i].delay <= ag[k].delay /\ ag[k].delay <= d
      BY <1>1, <3>2 DEF Sorted
    <3>4. ag[i].delay \in Nat /\ ag[k].delay \in Nat
      BY <1>2, <1>3, <3>2
    <3> QED
      BY <3>1, <3>3, <3>4
  <2> QED
    BY <2>1
<1>6. \A i \in k + 1 .. k + n : t(i) = d
  <2>1. ASSUME NEW i \in k + 1 .. k + n PROVE t(i) = d
    <3>1. i - k \in 1 .. n /\ k + (i - k) = i
      BY <1>1, <1>2
    <3>2. r[k + (i - k)] = fs[i - k]
      BY <1>1, <3>1
    <3> QED
      BY <1>4, <3>1, <3>2
  <2> QED
    BY <2>1
<1>7. \A i \in k + n + 1 .. Len(ag) + n :
         /\ i - n \in DOMAIN ag /\ t(i) = ag[i - n].delay /\ t(i) \in Nat /\ d < t(i)
  <2>1. ASSUME NEW i \in k + n + 1 .. Len(ag) + n
        PROVE  /\ i - n \in DOMAIN ag /\ t(i) = ag[i - n].delay
               /\ t(i) \in Nat /\ d < t(i)
    <3>1. i - n \in k + 1 .. Len(ag) /\ (i - n) + n = i /\ i - n \in 1 .. Len(ag)
      BY <1>1, <1>2
    <3>2. r[(i - n) + n] = ag[i - n] /\ ag[i - n].delay > d
      BY <1>1, <3>1
    <3>3. ag[i - n].delay \in Nat
      BY <1>3, <3>1
    <3> QED
      BY <1>2, <3>1, <3>2, <3>3
  <2> QED
    BY <2>1
<1>8. ASSUME NEW i \in DOMAIN r, NEW j \in DOMAIN r, i <= j PROVE t(i) <= t(j)
  <2>1. i \in 1 .. Len(ag) + n /\ j \in 1 .. Len(ag) + n /\ k \in Nat
    BY <1>1, <1>2
  <2>2. CASE j \in 1 .. k
    <3>1. i \in 1 .. k /\ i \in DOMAIN ag /\ j \in DOMAIN ag
      BY <1>1, <1>2, <1>8, <2>1, <2>2
    <3>2. ag[i].delay <= ag[j].delay
      BY <1>8, <3>1 DEF Sorted
    <3> QED
      BY <1>5, <2>2, <3>1, <3>2
  <2>3. CASE j \in k + 1 .. k + n
    <3>1. i \in 1 .. k \/ i \in k + 1 .. k + n
      BY <1>2, <1>8, <2>1, <2>3
    <3> QED
      BY <1>5, <1>6, <2>3, <3>1
  <2>4. CASE j \in k + n + 1 .. Len(ag) + n
    <3>1. CASE i \in k + n + 1 .. Len(ag) + n
      <4>1. i - n \in DOMAIN ag /\ j - n \in DOMAIN ag /\ i - n <= j - n
        BY <1>2, <1>7, <1>8, <2>1, <2>4, <3>1
      <4>2. ag[i - n].delay <= ag[j - n].delay
        BY <4>1 DEF Sorted
      <4> QED
        BY <1>7, <2>4, <3>1, <4>2
    <3>2. CASE i \in 1 .. k
      <4>1. t(i) <= d /\ d < t(j) /\ t(i) \in Nat /\ t(j) \in Nat
        BY <1>5, <1>7, <2>4, <3>2
      <4> QED
        BY <4>1
    <3>3. CASE i \in k + 1 .. k + n
      <4>1. t(i) = d /\ d < t(j) /\ t(j) \in Nat
        BY <1>6, <1>7, <2>4, <3>3
      <4> QED
        BY <4>1
    <3> QED
      BY <1>2, <2>1, <3>1, <3>2, <3>3
  <2> QED
    BY <1>2, <2>1, <2>2, <2>3, <2>4
<1> QED
  BY <1>8 DEF Sorted, r

\* The handler's frame leaves the agenda.
LEMMA FrameRuns ==
    ASSUME NEW ag, NEW q, FramesOK(ag, q), ag # <<>>
    PROVE  /\ FramesOK(Tail(ag), q)
           /\ Head(ag) \in Entries /\ Head(ag) \in Frames(ag, q)
           /\ Head(ag).delay <= MaxDelay
           /\ \A e \in Frames(Tail(ag), q) : e \in Frames(ag, q) /\ e.who # Head(ag).who
           /\ \A e \in Frames(ag, q) : e = Head(ag) \/ e \in Frames(Tail(ag), q)
<1> DEFINE t == Tail(ag)
           n == Len(ag)
<1>1. ag \in Seq(Entries) /\ Sorted(ag) /\ OnceEach(ag)
  BY DEF FramesOK
<1>2. /\ t \in Seq(Entries) /\ n \in Nat /\ n > 0
      /\ DOMAIN ag = 1 .. n /\ DOMAIN t = 1 .. n - 1 /\ Head(ag) = ag[1]
      /\ \A i \in 1 .. n - 1 : t[i] = ag[i + 1]
      /\ \A i \in 1 .. n : ag[i] \in Entries
  BY <1>1
<1> HIDE DEF t, n
<1>3. \A e \in Range(t) : e \in Range(ag) /\ e.who # ag[1].who
  <2>1. ASSUME NEW i \in 1 .. n - 1 PROVE t[i] \in Range(ag) /\ t[i].who # ag[1].who
    <3>1. i + 1 \in DOMAIN ag /\ 1 \in DOMAIN ag /\ i + 1 # 1
      BY <1>2
    <3>2. t[i] = ag[i + 1]
      BY <1>2
    <3>3. ag[i + 1].who # ag[1].who
      BY <1>1, <3>1 DEF OnceEach
    <3> QED
      BY <3>1, <3>2, <3>3 DEF Range
  <2> QED
    BY <1>2, <2>1 DEF Range
<1>4. \A e \in Range(ag) : e = ag[1] \/ e \in Range(t)
  <2>1. ASSUME NEW i \in 1 .. n PROVE ag[i] = ag[1] \/ ag[i] \in Range(t)
    <3>1. CASE i # 1
      <4>1. i - 1 \in DOMAIN t /\ (i - 1) + 1 = i
        BY <1>2, <3>1
      <4>2. t[i - 1] = ag[i]
        BY <1>2, <4>1
      <4> QED
        BY <4>1, <4>2 DEF Range
    <3> QED
      BY <3>1
  <2> QED
    BY <1>2, <2>1 DEF Range
<1>5. ag[1] \in Range(ag)
  <2>1. 1 \in DOMAIN ag
    BY <1>2
  <2> QED
    BY <2>1 DEF Range
<1>6. Sorted(t) /\ OnceEach(t)
  <2>1. ASSUME NEW i \in DOMAIN t, NEW j \in DOMAIN t
        PROVE  /\ i \in Int /\ j \in Int /\ i + 1 \in DOMAIN ag /\ j + 1 \in DOMAIN ag
               /\ t[i] = ag[i + 1] /\ t[j] = ag[j + 1]
    BY <1>2
  <2>2. ASSUME NEW i \in DOMAIN t, NEW j \in DOMAIN t, i <= j
        PROVE  t[i].delay <= t[j].delay
    <3>1. i + 1 <= j + 1
      BY <2>1, <2>2
    <3> QED
      BY <1>1, <2>1, <3>1 DEF Sorted
  <2>3. ASSUME NEW i \in DOMAIN t, NEW j \in DOMAIN t, t[i].who = t[j].who
        PROVE  i = j
    <3>1. i + 1 = j + 1
      BY <1>1, <2>1, <2>3 DEF OnceEach
    <3> QED
      BY <2>1, <3>1
  <2> QED
    BY <2>2, <2>3 DEF Sorted, OnceEach
<1>7. FramesOK(t, q)
  BY <1>2, <1>3, <1>6 DEF FramesOK
<1>8. \A e \in Queued(q) : e.who # ag[1].who
  BY <1>5 DEF FramesOK
<1>9. ag[1].delay <= MaxDelay
  BY <1>5 DEF FramesOK
<1>10. /\ \A e \in Frames(t, q) : e \in Frames(ag, q) /\ e.who # ag[1].who
       /\ \A e \in Frames(ag, q) : e = ag[1] \/ e \in Frames(t, q)
       /\ ag[1] \in Frames(ag, q)
  BY <1>3, <1>4, <1>5, <1>8 DEF Frames
<1>11. Head(ag) \in Entries
  BY <1>2
<1> QED
  BY <1>2, <1>7, <1>9, <1>10, <1>11 DEF t

\* New frames are scheduled.
LEMMA FramesScheduled ==
    ASSUME NEW ag, NEW q, FramesOK(ag, q), NEW d \in 0 .. MaxDelay, NEW fs \in Seq(Entries),
           OnceEach(fs), \A x \in Range(fs) : x.delay = d,
           \A e \in Frames(ag, q), x \in Range(fs) : e.who # x.who
    PROVE  /\ FramesOK(Scheduled(ag, d, fs), q)
           /\ Frames(Scheduled(ag, d, fs), q) = Frames(ag, q) \cup Range(fs)
<1> DEFINE r == Scheduled(ag, d, fs)
<1>0. d \in Nat /\ d <= MaxDelay
  BY MaxDelayFacts
<1>1. ag \in Seq(Entries) /\ Sorted(ag) /\ OnceEach(ag)
  BY DEF FramesOK
<1>2. Sorted(r)
  BY <1>0, <1>1, ScheduledSorts
<1>3. r \in Seq(Entries) /\ Range(r) = Range(ag) \cup Range(fs)
  BY <1>0, <1>1, ScheduledHolds
<1>4. \A e \in Range(ag), x \in Range(fs) : e.who # x.who
  BY DEF Frames
<1>5. OnceEach(r)
  BY <1>0, <1>1, <1>4, ScheduledHolds
<1> HIDE DEF r
<1>6. \A e \in Range(r), x \in Queued(q) : e.who # x.who
  <2>1. \A e \in Range(ag), x \in Queued(q) : e.who # x.who
    BY DEF FramesOK
  <2>2. \A e \in Range(fs), x \in Queued(q) : e.who # x.who
    BY DEF Frames
  <2> QED
    BY <1>3, <2>1, <2>2
<1>7. \A e \in Range(r) : e.delay <= MaxDelay
  BY <1>0, <1>3 DEF FramesOK
<1>8. FramesOK(r, q)
  BY <1>2, <1>3, <1>5, <1>6, <1>7 DEF FramesOK
<1>9. Frames(r, q) = Frames(ag, q) \cup Range(fs)
  BY <1>3 DEF Frames
<1> QED
  BY <1>8, <1>9 DEF r

\* One frame is scheduled.
LEMMA FrameInserted ==
    ASSUME NEW ag, NEW q, FramesOK(ag, q), NEW e \in Entries, e.delay <= MaxDelay,
           \A x \in Frames(ag, q) : x.who # e.who
    PROVE  /\ FramesOK(Insert(ag, e), q)
           /\ Frames(Insert(ag, e), q) = Frames(ag, q) \cup {e}
<1> DEFINE fs == <<e>>
<1>1. fs \in Seq(Entries) /\ DOMAIN fs = {1} /\ fs[1] = e
  OBVIOUS
<1>2. e.delay \in 0 .. MaxDelay
  BY MaxDelayFacts DEF Entries
<1>3. Insert(ag, e) = Scheduled(ag, e.delay, fs)
  BY DEF Insert
<1> HIDE DEF fs
<1>4. Range(fs) = {e} /\ OnceEach(fs)
  BY <1>1 DEF Range, OnceEach
<1> QED
  BY <1>1, <1>2, <1>3, <1>4, FramesScheduled

\* The queues when a frame is suspended, and when those of a buffer are woken.
Suspended(q, b, e) == [q EXCEPT ![b] = Append(@, e)]
Woken(q, b)        == [q EXCEPT ![b] = <<>>]

\* A frame is suspended.
LEMMA FrameSuspended ==
    ASSUME NEW ag, NEW q, FramesOK(ag, q), NEW e \in Entries, e.delay = 0, NEW b \in Buffers,
           \A x \in Frames(ag, q) : x.who # e.who
    PROVE  /\ FramesOK(ag, Suspended(q, b, e))
           /\ Frames(ag, Suspended(q, b, e)) = Frames(ag, q) \cup {e}
<1> DEFINE r == [q EXCEPT ![b] = Append(@, e)]
           s == Append(q[b], e)
           n == Len(q[b]) + 1
<1>1. q \in [Buffers -> Seq(Entries)]
  BY DEF FramesOK
<1>2. /\ s \in Seq(Entries) /\ n \in Nat /\ n >= 1
      /\ DOMAIN q[b] = 1 .. n - 1 /\ DOMAIN s = 1 .. n
      /\ s[n] = e /\ \A i \in 1 .. n - 1 : s[i] = q[b][i]
  BY <1>1
<1>3. r \in [Buffers -> Seq(Entries)] /\ r[b] = s /\ \A c \in Buffers \ {b} : r[c] = q[c]
  BY <1>1, <1>2
<1> HIDE DEF r, s, n
<1>4. Range(s) = Range(q[b]) \cup {e}
  <2>1. DOMAIN s = DOMAIN q[b] \cup {n}
    BY <1>2
  <2> QED
    BY <1>2, <2>1 DEF Range
<1>5. Queued(r) = Queued(q) \cup {e}
  <2>1. \A c \in Buffers : Range(r[c]) = IF c = b THEN Range(q[b]) \cup {e} ELSE Range(q[c])
    BY <1>3, <1>4
  <2> QED
    BY <2>1 DEF Queued
<1>6. \A c \in Buffers : \A i \in DOMAIN q[c] : q[c][i] \in Queued(q)
  BY DEF Queued, Range
<1>7. \A c \in Buffers : \A i \in DOMAIN q[c] : q[c][i].who # e.who
  BY <1>6 DEF Frames
<1>8. ASSUME NEW c \in Buffers, NEW i \in DOMAIN r[c]
      PROVE  \/ c = b /\ i = n /\ r[c][i] = e
             \/ i \in DOMAIN q[c] /\ r[c][i] = q[c][i]
  <2>1. CASE c = b
    <3>1. i = n \/ i \in 1 .. n - 1
      BY <1>2, <1>3, <2>1
    <3> QED
      BY <1>2, <1>3, <2>1, <3>1
  <2>2. CASE c # b
    BY <1>3, <2>2
  <2> QED
    BY <2>1, <2>2
<1>9. ASSUME NEW c \in Buffers, NEW d \in Buffers, NEW i \in DOMAIN r[c], NEW j \in DOMAIN r[d],
             r[c][i].who = r[d][j].who
      PROVE  c = d /\ i = j
  <2>1. CASE i \in DOMAIN q[c] /\ r[c][i] = q[c][i] /\ j \in DOMAIN q[d] /\ r[d][j] = q[d][j]
    BY <1>9, <2>1 DEF FramesOK
  <2> QED
    BY <1>7, <1>8, <1>9, <2>1
<1>10. \A x \in Range(ag), y \in Queued(r) : x.who # y.who
  BY <1>5 DEF FramesOK, Frames
<1>11. \A x \in Queued(r) : x.delay = 0
  BY <1>5 DEF FramesOK
<1>12. FramesOK(ag, r)
  BY <1>3, <1>9, <1>10, <1>11 DEF FramesOK
<1>13. Frames(ag, r) = Frames(ag, q) \cup {e}
  BY <1>5 DEF Frames
<1> QED
  BY <1>12, <1>13 DEF r, Suspended

\* The frames suspended in the queue of a buffer are scheduled.
LEMMA FramesWoken ==
    ASSUME NEW ag, NEW q, FramesOK(ag, q), NEW b \in Buffers
    PROVE  /\ FramesOK(WakeUp(ag, q[b]), Woken(q, b))
           /\ Frames(WakeUp(ag, q[b]), Woken(q, b)) = Frames(ag, q)
<1> DEFINE r  == [q EXCEPT ![b] = <<>>]
           fs == q[b]
<1>1. q \in [Buffers -> Seq(Entries)] /\ fs \in Seq(Entries)
  BY DEF FramesOK
<1>2. r \in [Buffers -> Seq(Entries)] /\ r[b] = <<>> /\ \A c \in Buffers \ {b} : r[c] = q[c]
  BY <1>1
<1>3. DOMAIN r[b] = {} /\ Range(r[b]) = {}
  BY <1>2 DEF Range
<1> HIDE DEF r
<1>4. Queued(q) = Queued(r) \cup Range(fs)
  <2>1. \A c \in Buffers : Range(q[c]) = IF c = b THEN Range(fs) ELSE Range(r[c])
    BY <1>2
  <2> QED
    BY <1>3, <2>1 DEF Queued
<1>5. FramesOK(ag, r)
  <2>1. \A c, d \in Buffers : \A i \in DOMAIN r[c], j \in DOMAIN r[d] :
            r[c][i].who = r[d][j].who => c = d /\ i = j
    <3> SUFFICES ASSUME NEW c \in Buffers, NEW d \in Buffers,
                        NEW i \in DOMAIN r[c], NEW j \in DOMAIN r[d], r[c][i].who = r[d][j].who
                 PROVE  c = d /\ i = j
      OBVIOUS
    <3>1. r[c] = q[c] /\ r[d] = q[d]
      BY <1>2, <1>3
    <3> QED
      BY <3>1 DEF FramesOK
  <2> QED
    BY <1>2, <1>4, <2>1 DEF FramesOK
<1>6. OnceEach(fs)
  BY DEF FramesOK, OnceEach
<1>7. \A x \in Range(fs) : x.delay = 0
  BY <1>4 DEF FramesOK
<1>8. \A e \in Frames(ag, r), x \in Range(fs) : e.who # x.who
  <2>1. \A e \in Range(ag), x \in Range(fs) : e.who # x.who
    BY <1>4 DEF FramesOK
  <2>2. \A e \in Queued(r), x \in Range(fs) : e.who # x.who
    <3> SUFFICES ASSUME NEW c \in Buffers, NEW i \in DOMAIN r[c], NEW j \in DOMAIN fs
                 PROVE  r[c][i].who # fs[j].who
      BY DEF Queued, Range
    <3>1. c # b
      BY <1>3
    <3> QED
      BY <1>2, <3>1 DEF FramesOK
  <2> QED
    BY <2>1, <2>2 DEF Frames
<1>9. 0 \in 0 .. MaxDelay
  BY MaxDelayFacts
<1>10. /\ FramesOK(Scheduled(ag, 0, fs), r)
       /\ Frames(Scheduled(ag, 0, fs), r) = Frames(ag, r) \cup Range(fs)
  <2> HIDE DEF fs
  <2> QED
    BY <1>1, <1>5, <1>6, <1>7, <1>8, <1>9, FramesScheduled
<1>11. Frames(ag, r) \cup Range(fs) = Frames(ag, q)
  BY <1>4 DEF Frames
<1> QED
  BY <1>10, <1>11 DEF WakeUp, Woken, r

---------------------------------------------------------------------------
(* What a buffer holds. *)

\* A sequence without repetitions grows at the end,
LEMMA Appended ==
    ASSUME NEW S, NEW s \in Seq(S), NEW x \in S
    PROVE  /\ Append(s, x) \in Seq(S) /\ Append(s, x) # <<>>
           /\ Range(Append(s, x)) = Range(s) \cup {x}
           /\ Distinct(s) /\ x \notin Range(s) => Distinct(Append(s, x))
<1> DEFINE t == Append(s, x)
           n == Len(s)
<1>1. /\ t \in Seq(S) /\ n \in Nat /\ DOMAIN s = 1 .. n /\ DOMAIN t = 1 .. n + 1
      /\ t[n + 1] = x /\ \A i \in 1 .. n : t[i] = s[i]
  OBVIOUS
<1> HIDE DEF t, n
<1>2. t # <<>>
  <2>1. n + 1 \in DOMAIN t
    BY <1>1
  <2> QED
    BY <2>1
<1>3. DOMAIN t = DOMAIN s \cup {n + 1} /\ n + 1 \notin DOMAIN s
  BY <1>1
<1>4. Range(t) = Range(s) \cup {x}
  BY <1>1, <1>3 DEF Range
<1>5. ASSUME Distinct(s), x \notin Range(s) PROVE Distinct(t)
  <2>1. \A i \in DOMAIN s : s[i] # x
    BY <1>5 DEF Range
  <2> QED
    BY <1>1, <1>3, <1>5, <2>1 DEF Distinct
<1> QED
  BY <1>1, <1>2, <1>4, <1>5 DEF t

\* loses its head,
LEMMA HeadTaken ==
    ASSUME NEW S, NEW s \in Seq(S), s # <<>>, Distinct(s)
    PROVE  /\ Tail(s) \in Seq(S) /\ Range(Tail(s)) = Range(s) \ {Head(s)} /\ Distinct(Tail(s))
           /\ Head(s) \in Range(s) /\ Len(Tail(s)) = Len(s) - 1
<1> DEFINE t == Tail(s)
           n == Len(s)
<1>1. /\ t \in Seq(S) /\ n \in Nat /\ n > 0 /\ DOMAIN s = 1 .. n /\ DOMAIN t = 1 .. n - 1
      /\ Head(s) = s[1] /\ Len(t) = n - 1 /\ \A i \in 1 .. n - 1 : t[i] = s[i + 1]
  OBVIOUS
<1> HIDE DEF t, n
<1>2. 1 \in DOMAIN s /\ \A i \in DOMAIN t : i \in Int /\ i + 1 \in DOMAIN s /\ i + 1 # 1 /\ t[i] = s[i + 1]
  BY <1>1
<1>3. \A j \in DOMAIN s : j = 1 \/ (j - 1 \in DOMAIN t /\ t[j - 1] = s[j])
  <2>1. ASSUME NEW j \in DOMAIN s, j # 1 PROVE j - 1 \in DOMAIN t /\ t[j - 1] = s[j]
    <3>1. j - 1 \in 1 .. n - 1 /\ (j - 1) + 1 = j
      BY <1>1, <2>1
    <3> QED
      BY <1>1, <3>1
  <2> QED
    BY <2>1
<1>4. Range(t) = Range(s) \ {s[1]}
  <2>1. ASSUME NEW x \in Range(t) PROVE x \in Range(s) \ {s[1]}
    BY <1>2 DEF Range, Distinct
  <2>2. ASSUME NEW x \in Range(s) \ {s[1]} PROVE x \in Range(t)
    BY <1>3 DEF Range
  <2> QED
    BY <2>1, <2>2
<1>5. Distinct(t)
  <2> SUFFICES ASSUME NEW i \in DOMAIN t, NEW j \in DOMAIN t, t[i] = t[j] PROVE i = j
    BY DEF Distinct
  <2>1. i + 1 = j + 1
    BY <1>2 DEF Distinct
  <2> QED
    BY <1>2, <2>1
<1>6. s[1] \in Range(s)
  BY <1>2 DEF Range
<1> QED
  BY <1>1, <1>4, <1>5, <1>6 DEF t, n

\* or is put in front of another one.
LEMMA PutTogether ==
    ASSUME NEW S, NEW s \in Seq(S), NEW t \in Seq(S), Distinct(s), Distinct(t),
           Range(s) \cap Range(t) = {}
    PROVE  s \o t \in Seq(S) /\ Range(s \o t) = Range(s) \cup Range(t) /\ Distinct(s \o t)
<1> DEFINE r == s \o t
           n == Len(s)
           k == Len(t)
<1>1. /\ r \in Seq(S) /\ n \in Nat /\ k \in Nat
      /\ DOMAIN s = 1 .. n /\ DOMAIN t = 1 .. k /\ DOMAIN r = 1 .. n + k
      /\ \A i \in 1 .. n : r[i] = s[i]
  OBVIOUS
<1>2. \A i \in 1 .. k : r[n + i] = t[i]
  OBVIOUS
<1> HIDE DEF r, n, k
<1>3. ASSUME NEW i \in DOMAIN r
      PROVE  \/ i \in DOMAIN s /\ r[i] = s[i]
             \/ i - n \in DOMAIN t /\ r[i] = t[i - n]
  <2>1. CASE i \in 1 .. n
    BY <1>1, <2>1
  <2>2. CASE i \notin 1 .. n
    <3>1. i - n \in 1 .. k /\ n + (i - n) = i
      BY <1>1, <2>2
    <3> QED
      BY <1>1, <1>2, <3>1
  <2> QED
    BY <2>1, <2>2
<1>4. Range(r) = Range(s) \cup Range(t)
  <2>1. ASSUME NEW x \in Range(r) PROVE x \in Range(s) \cup Range(t)
    BY <1>3 DEF Range
  <2>2. ASSUME NEW x \in Range(s) PROVE x \in Range(r)
    <3>1. PICK i \in DOMAIN s : s[i] = x
      BY DEF Range
    <3>2. i \in DOMAIN r /\ r[i] = x
      BY <1>1, <3>1
    <3> QED
      BY <3>2 DEF Range
  <2>3. ASSUME NEW x \in Range(t) PROVE x \in Range(r)
    <3>1. PICK i \in DOMAIN t : t[i] = x
      BY DEF Range
    <3>2. n + i \in DOMAIN r /\ r[n + i] = x
      BY <1>1, <1>2, <3>1
    <3> QED
      BY <3>2 DEF Range
  <2> QED
    BY <2>1, <2>2, <2>3
<1>5. ASSUME NEW i \in DOMAIN r, NEW j \in DOMAIN r, r[i] = r[j] PROVE i = j
  <2>0. i \in Int /\ j \in Int /\ n \in Int
    BY <1>1
  <2>1. \A x \in DOMAIN s, y \in DOMAIN t : s[x] # t[y]
    BY DEF Range
  <2>2. CASE i \in DOMAIN s /\ r[i] = s[i] /\ j \in DOMAIN s /\ r[j] = s[j]
    BY <1>5, <2>2 DEF Distinct
  <2>3. CASE i - n \in DOMAIN t /\ r[i] = t[i - n] /\ j - n \in DOMAIN t /\ r[j] = t[j - n]
    <3>1. i - n = j - n
      BY <1>5, <2>3 DEF Distinct
    <3> QED
      BY <2>0, <3>1
  <2> QED
    BY <1>3, <1>5, <2>1, <2>2, <2>3
<1> QED
  BY <1>1, <1>4, <1>5 DEF r, Distinct

\* The packets of a message in order.
InPackets(m) == [i \in 1 .. NumPackets(m) |-> <<m, i>>]
LEMMA InPacketsFacts ==
    ASSUME NEW m \in Messages
    PROVE  /\ InPackets(m) \in Seq(Packets) /\ Distinct(InPackets(m))
           /\ Range(InPackets(m)) = PacketsOf(m) /\ InPackets(m) # <<>>
           /\ DOMAIN InPackets(m) = 1 .. NumPackets(m)
<1>1. NumPackets(m) \in Nat \ {0}
  BY PacketFacts
<1>2. Range(InPackets(m)) = PacketsOf(m)
  BY DEF InPackets, PacketsOf, Range
<1>3. Distinct(InPackets(m))
  BY DEF InPackets, Distinct
<1>4. PacketsOf(m) \subseteq Packets
  BY PacketFacts
<1>5. \A i \in 1 .. NumPackets(m) : InPackets(m)[i] \in Packets
  BY <1>4 DEF PacketsOf, InPackets
<1>6. InPackets(m) \in [1 .. NumPackets(m) -> Packets]
  BY <1>5 DEF InPackets
<1>7. InPackets(m) \in Seq(Packets) /\ Len(InPackets(m)) = NumPackets(m)
  BY <1>1, <1>6
<1>8. InPackets(m) # <<>>
  BY <1>1, <1>7
<1> QED
  BY <1>2, <1>3, <1>6, <1>7, <1>8

\* Without is computed along the sequence.
Keeps(f, s, m) == /\ Without(s, m) = f[Len(s)]
                  /\ f[0] = <<>>
                  /\ \A i \in 1 .. Len(s) :
                        f[i] = IF s[i][1] = m THEN f[i - 1] ELSE Append(f[i - 1], s[i])
LEMMA WithoutUnfolds ==
    ASSUME NEW s \in Seq(Packets), NEW m
    PROVE  \E f : Keeps(f, s, m)
<1> DEFINE n == Len(s)
           step(f, i) == IF i = 0 THEN <<>>
                         ELSE IF s[i][1] = m THEN f[i - 1] ELSE Append(f[i - 1], s[i])
           upto(f, k) == f = [i \in 0 .. k |-> step(f, i)]
           exists(k)  == \E f : upto(f, k)
           bad        == {k \in 0 .. n : ~ exists(k)}
           kept       == CHOOSE f : f = [i \in 0 .. n |-> step(f, i)]
<1>1. n \in Nat
  OBVIOUS
<1>2. Without(s, m) = kept[n]
  BY DEF Without
<1> HIDE DEF n
<1>3. exists(0)
  <2> DEFINE f == [i \in 0 .. 0 |-> <<>>]
  <2>1. upto(f, 0)
    OBVIOUS
  <2> QED
    BY <2>1
<1>4. ASSUME NEW k \in 1 .. n, exists(k - 1) PROVE exists(k)
  <2>1. PICK f : upto(f, k - 1)
    BY <1>4
  <2> DEFINE g == [i \in 0 .. k |-> IF i \in 0 .. k - 1 THEN f[i] ELSE step(f, k)]
  <2>2. \A i \in 0 .. k : i \in 0 .. k - 1 \/ i = k
    BY <1>1
  <2>3. \A i \in 0 .. k : g[i] = step(f, i)
    <3>1. k \notin 0 .. k - 1 /\ k # 0
      BY <1>1
    <3> HIDE DEF step
    <3> QED
      BY <2>1, <2>2, <3>1
  <2>4. \A i \in 0 .. k : step(f, i) = step(g, i)
    <3>1. ASSUME NEW i \in 0 .. k, i # 0 PROVE i - 1 \in 0 .. k /\ i - 1 \in 0 .. k - 1
      BY <1>1, <3>1
    <3>2. \A i \in 0 .. k : i # 0 => f[i - 1] = g[i - 1]
      <4> HIDE DEF step
      <4> QED
        BY <3>1
    <3> HIDE DEF g
    <3> QED
      BY <3>2
  <2>5. g = [i \in 0 .. k |-> g[i]]
    OBVIOUS
  <2>6. upto(g, k)
    <3> HIDE DEF g, step
    <3> QED
      BY <2>3, <2>4, <2>5
  <2> HIDE DEF upto
  <2> QED
    BY <2>6
<1> HIDE DEF exists
<1>5. exists(n)
  <2> SUFFICES ASSUME ~ exists(n) PROVE FALSE
    OBVIOUS
  <2>0. n \in 0 .. n /\ 0 .. n \subseteq Nat
    BY <1>1
  <2>1. bad \in SUBSET Nat /\ n \in bad
    BY <2>0, Zenon
  <2>2. PICK k \in bad : \A y \in bad : k <= y
    <3> HIDE DEF bad
    <3> QED
      BY <2>1, LeastOf
  <2>3. k \in 0 .. n /\ ~ exists(k)
    OBVIOUS
  <2>4. k # 0
    BY <1>3, <2>3
  <2>5. k \in 1 .. n /\ k - 1 \in 0 .. n /\ ~ (k <= k - 1)
    BY <1>1, <2>3, <2>4
  <2>6. exists(k - 1)
    BY <2>2, <2>5
  <2> QED
    BY <1>4, <2>3, <2>5, <2>6
<1>6. kept = [i \in 0 .. n |-> step(kept, i)]
  <2>1. PICK f : upto(f, n)
    BY <1>5 DEF exists
  <2>2. \E g : g = [i \in 0 .. n |-> step(g, i)]
    <3> HIDE DEF step
    <3> QED
      BY <2>1
  <2> HIDE DEF step
  <2> QED
    BY <2>2
<1>7. kept[0] = <<>>
  <2>1. 0 \in 0 .. n
    BY <1>1
  <2> HIDE DEF kept
  <2> QED
    BY <1>6, <2>1
<1>8. ASSUME NEW i \in 1 .. n
      PROVE  kept[i] = IF s[i][1] = m THEN kept[i - 1] ELSE Append(kept[i - 1], s[i])
  <2>1. i \in 0 .. n /\ i # 0
    BY <1>1
  <2>2. kept[i] = step(kept, i)
    <3> HIDE DEF step, kept
    <3> QED
      BY <1>6, <2>1
  <2> HIDE DEF kept
  <2> QED
    BY <2>1, <2>2
<1> HIDE DEF kept
<1> QED
  BY <1>2, <1>7, <1>8 DEF n, Keeps

\* RemovePacket for the packets of a message leaves the others, in their order.
LEMMA WithoutFacts ==
    ASSUME NEW s \in Seq(Packets), Distinct(s), NEW m \in Messages
    PROVE  /\ Without(s, m) \in Seq(Packets) /\ Distinct(Without(s, m))
           /\ Range(Without(s, m)) = Range(s) \ PacketsOf(m)
<1> DEFINE n == Len(s)
<1>0. PICK f : Keeps(f, s, m)
  BY WithoutUnfolds
<1>1. /\ Without(s, m) = f[n] /\ f[0] = <<>>
      /\ \A i \in 1 .. n : f[i] = IF s[i][1] = m THEN f[i - 1] ELSE Append(f[i - 1], s[i])
  BY <1>0 DEF Keeps
<1>2. n \in Nat /\ DOMAIN s = 1 .. n /\ \A i \in 1 .. n : s[i] \in Packets
  OBVIOUS
<1> HIDE DEF n
<1> DEFINE left(i) == {s[j] : j \in {x \in 1 .. i : s[x][1] # m}}
           good(i) == f[i] \in Seq(Packets) /\ Range(f[i]) = left(i) /\ Distinct(f[i])
           bad     == {i \in 0 .. n : ~ good(i)}
<1>3. good(0)
  <2>1. left(0) = {}
    OBVIOUS
  <2>2. f[0] \in Seq(Packets) /\ DOMAIN f[0] = {}
    BY <1>1
  <2> HIDE DEF left
  <2> QED
    BY <2>1, <2>2 DEF Range, Distinct
<1>4. ASSUME NEW i \in 1 .. n, good(i - 1) PROVE good(i)
  <2>0. i \in Nat /\ i >= 1 /\ i - 1 \in Nat /\ 1 .. i = (1 .. i - 1) \cup {i}
        /\ i \notin 1 .. i - 1 /\ 1 .. i \subseteq 1 .. n
    BY <1>2
  <2>1. CASE s[i][1] = m
    <3>1. left(i) = left(i - 1)
      BY <2>0, <2>1
    <3>2. f[i] = f[i - 1]
      BY <1>1, <2>1
    <3> QED
      BY <1>4, <3>1, <3>2
  <2>2. CASE s[i][1] # m
    <3>1. left(i) = left(i - 1) \cup {s[i]}
      BY <2>0, <2>2
    <3>2. f[i] = Append(f[i - 1], s[i])
      BY <1>1, <2>2
    <3>3. s[i] \notin left(i - 1)
      BY <1>2, <2>0 DEF Distinct
    <3>4. f[i - 1] \in Seq(Packets) /\ Range(f[i - 1]) = left(i - 1) /\ Distinct(f[i - 1])
      BY <1>4
    <3> HIDE DEF left
    <3>5. s[i] \in Packets
      BY <1>2
    <3> QED
      BY <3>1, <3>2, <3>3, <3>4, <3>5, Appended
  <2> QED
    BY <2>1, <2>2
<1> HIDE DEF good
<1>5. good(n)
  <2> SUFFICES ASSUME ~ good(n) PROVE FALSE
    OBVIOUS
  <2>0. n \in 0 .. n /\ 0 .. n \subseteq Nat
    BY <1>2
  <2>1. bad \in SUBSET Nat /\ n \in bad
    BY <2>0, Zenon
  <2>2. PICK k \in bad : \A y \in bad : k <= y
    <3> HIDE DEF bad
    <3> QED
      BY <2>1, LeastOf
  <2>3. k \in 0 .. n /\ ~ good(k)
    OBVIOUS
  <2>4. k # 0
    BY <1>3, <2>3
  <2>5. k \in 1 .. n /\ k - 1 \in 0 .. n /\ ~ (k <= k - 1)
    BY <1>2, <2>3, <2>4
  <2>6. good(k - 1)
    BY <2>2, <2>5
  <2> QED
    BY <1>4, <2>3, <2>5, <2>6
<1>6. left(n) = Range(s) \ PacketsOf(m)
  <2>1. \A p \in Packets : p[1] = m <=> p \in PacketsOf(m)
    BY PacketIsOf, PacketFacts
  <2> QED
    BY <1>2, <2>1 DEF Range
<1> HIDE DEF left
<1> QED
  BY <1>1, <1>5, <1>6 DEF good

\* The bytes of a set of packets.
BytesOf(X) == UNION {{p} \X (1 .. SizeOf(p[1])) : p \in X}

\* A buffer without repetitions holds the bytes of its packets.
LEMMA BytesFinite ==
    ASSUME NEW X \in SUBSET Packets
    PROVE  IsFiniteSet(BytesOf(X))
<1> DEFINE B(p) == {p} \X (1 .. SizeOf(p[1]))
           f == [p \in X |-> B(p)]
           T == {B(p) : p \in X}
<1>1. f \in Surjection(X, T)
  BY DEF Surjection
<1>2. IsFiniteSet(X)
  BY PacketsFinite, FS_Subset
<1>3. IsFiniteSet(T)
  BY <1>1, <1>2, FS_Surjection
<1>4. ASSUME NEW p \in X PROVE IsFiniteSet(B(p))
  <2>1. SizeOf(p[1]) \in Nat
    BY PacketIsOf, PacketFacts
  <2>2. IsFiniteSet(1 .. SizeOf(p[1]))
    BY <2>1, FS_Interval
  <2>3. IsFiniteSet({p})
    BY FS_Singleton
  <2> QED
    BY <2>2, <2>3, FS_Product
<1>5. \A x \in T : IsFiniteSet(x)
  BY <1>4
<1> HIDE DEF T, B
<1>6. IsFiniteSet(UNION T)
  BY <1>3, <1>5, FS_UNION
<1> QED
  BY <1>6 DEF BytesOf, T, B

LEMMA BytesCounted ==
    ASSUME NEW s \in Seq(Packets), Distinct(s)
    PROVE  Cardinality(Bytes(s)) = Cardinality(BytesOf(Range(s)))
<1> DEFINE X == Range(s)
           f == [t \in Bytes(s) |-> <<s[t[1]], t[2]>>]
<1>1. X \in SUBSET Packets
  BY DEF Range
<1>2. IsFiniteSet(BytesOf(X))
  BY <1>1, BytesFinite
<1>3. \A t : t \in Bytes(s) <=> \E i \in DOMAIN s : \E k \in 1 .. SizeOf(s[i][1]) : t = <<i, k>>
  BY DEF Bytes
<1>4. \A t : t \in BytesOf(X) <=> \E p \in X : \E k \in 1 .. SizeOf(p[1]) : t = <<p, k>>
  BY DEF BytesOf
<1>5. f \in [Bytes(s) -> BytesOf(X)]
  BY <1>3, <1>4 DEF Range
<1>6. \A t, u \in Bytes(s) : f[t] = f[u] => t = u
  <2> SUFFICES ASSUME NEW t \in Bytes(s), NEW u \in Bytes(s), f[t] = f[u] PROVE t = u
    OBVIOUS
  <2>1. PICK i \in DOMAIN s, k \in Int : k \in 1 .. SizeOf(s[i][1]) /\ t = <<i, k>>
    BY <1>3
  <2>2. PICK j \in DOMAIN s, l \in Int : l \in 1 .. SizeOf(s[j][1]) /\ u = <<j, l>>
    BY <1>3
  <2>3. s[i] = s[j] /\ k = l
    BY <2>1, <2>2
  <2> QED
    BY <2>1, <2>2, <2>3 DEF Distinct
<1>7. ASSUME NEW u \in BytesOf(X) PROVE \E t \in Bytes(s) : f[t] = u
  <2>1. PICK p \in X, k \in Int : k \in 1 .. SizeOf(p[1]) /\ u = <<p, k>>
    BY <1>4
  <2>2. PICK i \in DOMAIN s : s[i] = p
    BY DEF Range
  <2>3. <<i, k>> \in Bytes(s)
    BY <1>3, <2>1, <2>2
  <2>4. f[<<i, k>>] = u
    BY <2>1, <2>2, <2>3
  <2> QED
    BY <2>3, <2>4
<1>8. f \in Injection(Bytes(s), BytesOf(X)) /\ f \in Surjection(Bytes(s), BytesOf(X))
  BY <1>5, <1>6, <1>7 DEF Injection, Surjection, IsInjective
<1> QED
  BY <1>2, <1>8, FS_Injection

\* How many bytes packets have.
Load(X) == Cardinality(BytesOf(X))

LEMMA LoadFacts ==
    ASSUME NEW X \in SUBSET Packets
    PROVE  /\ Load(X) \in Nat /\ Load({}) = 0
           /\ \A p \in Packets : Load({p}) = SizeOf(p[1])
           /\ \A m \in Messages : Load(PacketsOf(m)) = NumPackets(m) * SizeOf(m)
           /\ \A Y \in SUBSET Packets : X \cap Y = {} => Load(X \cup Y) = Load(X) + Load(Y)
           /\ \A Y \in SUBSET X : Load(X \ Y) = Load(X) - Load(Y)
<1>1. \A Y \in SUBSET Packets : IsFiniteSet(BytesOf(Y)) /\ Load(Y) \in Nat
  BY BytesFinite, FS_CardinalityType DEF Load
<1>2. \A Y, Z : BytesOf(Y \cup Z) = BytesOf(Y) \cup BytesOf(Z)
  BY DEF BytesOf
<1>3. \A Y, Z : Y \cap Z = {} => BytesOf(Y) \cap BytesOf(Z) = {}
  BY DEF BytesOf
<1>4. BytesOf({}) = {}
  BY DEF BytesOf
<1>5. ASSUME NEW Y \in SUBSET Packets, NEW Z \in SUBSET Packets, Y \cap Z = {}
      PROVE  Load(Y \cup Z) = Load(Y) + Load(Z)
  <2>1. Cardinality(BytesOf(Y) \cup BytesOf(Z))
           = Cardinality(BytesOf(Y)) + Cardinality(BytesOf(Z)) - Cardinality(BytesOf(Y) \cap BytesOf(Z))
    BY <1>1, FS_Union
  <2>2. Cardinality(BytesOf(Y) \cap BytesOf(Z)) = 0
    BY <1>3, <1>5, FS_EmptySet
  <2>3. BytesOf(Y \cup Z) = BytesOf(Y) \cup BytesOf(Z)
    BY <1>2
  <2>4. Load(Y) \in Nat /\ Load(Z) \in Nat
    BY <1>1
  <2>5. Load(Y \cup Z) = Cardinality(BytesOf(Y) \cup BytesOf(Z))
    BY <2>3 DEF Load
  <2>6. Cardinality(BytesOf(Y) \cup BytesOf(Z)) = Load(Y) + Load(Z) - 0
    BY <2>1, <2>2 DEF Load
  <2> QED
    BY <2>4, <2>5, <2>6
<1>6. ASSUME NEW p \in Packets PROVE Load({p}) = SizeOf(p[1])
  <2>1. SizeOf(p[1]) \in Nat \ {0}
    BY PacketIsOf, PacketFacts
  <2>2. BytesOf({p}) = {p} \X (1 .. SizeOf(p[1]))
    BY DEF BytesOf
  <2>3. IsFiniteSet(1 .. SizeOf(p[1])) /\ Cardinality(1 .. SizeOf(p[1])) = SizeOf(p[1])
    <3>1. SizeOf(p[1]) \in Int /\ 1 \in Int /\ ~ (1 > SizeOf(p[1])) /\ SizeOf(p[1]) - 1 + 1 = SizeOf(p[1])
      BY <2>1
    <3> QED
      BY <3>1, FS_Interval
  <2>4. IsFiniteSet({p}) /\ Cardinality({p}) = 1
    BY FS_Singleton
  <2>5. Cardinality({p} \X (1 .. SizeOf(p[1]))) = Cardinality({p}) * Cardinality(1 .. SizeOf(p[1]))
    BY <2>3, <2>4, FS_Product
  <2>6. Load({p}) = Cardinality({p} \X (1 .. SizeOf(p[1])))
    BY <2>2 DEF Load
  <2>7. Load({p}) = 1 * SizeOf(p[1])
    BY <2>3, <2>4, <2>5, <2>6
  <2> QED
    BY <2>1, <2>7
<1>7. ASSUME NEW m \in Messages PROVE Load(PacketsOf(m)) = NumPackets(m) * SizeOf(m)
  <2>1. SizeOf(m) \in Nat \ {0} /\ NumPackets(m) \in Nat
    BY PacketFacts
  <2>2. BytesOf(PacketsOf(m)) = PacketsOf(m) \X (1 .. SizeOf(m))
    <3>1. \A p \in PacketsOf(m) : p[1] = m
      BY PacketFacts
    <3>2. \A t : t \in BytesOf(PacketsOf(m))
                   <=> \E p \in PacketsOf(m) : t \in {p} \X (1 .. SizeOf(p[1]))
      BY DEF BytesOf
    <3>3. \A t : t \in BytesOf(PacketsOf(m)) <=> \E p \in PacketsOf(m) : t \in {p} \X (1 .. SizeOf(m))
      BY <3>1, <3>2
    <3> QED
      BY <3>3
  <2>3. IsFiniteSet(1 .. SizeOf(m)) /\ Cardinality(1 .. SizeOf(m)) = SizeOf(m)
    <3>1. SizeOf(m) \in Int /\ 1 \in Int /\ ~ (1 > SizeOf(m)) /\ SizeOf(m) - 1 + 1 = SizeOf(m)
      BY <2>1
    <3> QED
      BY <3>1, FS_Interval
  <2>4. IsFiniteSet(PacketsOf(m)) /\ Cardinality(PacketsOf(m)) = NumPackets(m)
    BY PacketsCount
  <2>5. Cardinality(PacketsOf(m) \X (1 .. SizeOf(m)))
           = Cardinality(PacketsOf(m)) * Cardinality(1 .. SizeOf(m))
    BY <2>3, <2>4, FS_Product
  <2> QED
    BY <2>2, <2>3, <2>4, <2>5 DEF Load
<1>8. ASSUME NEW Y \in SUBSET X PROVE Load(X \ Y) = Load(X) - Load(Y)
  <2>1. Y \in SUBSET Packets /\ X \ Y \in SUBSET Packets /\ Y \cap (X \ Y) = {} /\ Y \cup (X \ Y) = X
    OBVIOUS
  <2>2. Load(X) = Load(Y) + Load(X \ Y)
    BY <1>5, <2>1
  <2>3. Load(Y) \in Nat /\ Load(X \ Y) \in Nat
    BY <1>1, <2>1
  <2> QED
    BY <2>2, <2>3
<1>9. Load({}) = 0
  BY <1>4, FS_EmptySet DEF Load
<1>10. \A Y \in SUBSET Packets : X \cap Y = {} => Load(X \cup Y) = Load(X) + Load(Y)
  BY <1>5
<1> QED
  BY <1>1, <1>6, <1>7, <1>8, <1>9, <1>10

\* A message leaves the list of those under way.
LEMMA TakenOff ==
    ASSUME NEW S, NEW s \in Seq(S), Distinct(s), NEW x \in Range(s)
    PROVE  LET t == RemoveAt(s, CHOOSE i \in DOMAIN s : s[i] = x)
           IN  t \in Seq(S) /\ Range(t) = Range(s) \ {x} /\ Distinct(t)
<1> DEFINE k == CHOOSE i \in DOMAIN s : s[i] = x
           n == Len(s)
           a == SubSeq(s, 1, k - 1)
           b == SubSeq(s, k + 1, n)
<1>1. k \in DOMAIN s /\ s[k] = x
  BY DEF Range
<1>2. n \in Nat /\ DOMAIN s = 1 .. n
  OBVIOUS
<1> HIDE DEF k
<1>3. k \in 1 .. n
  BY <1>1, <1>2
<1>4. /\ a \in Seq(S) /\ DOMAIN a = 1 .. k - 1 /\ \A i \in 1 .. k - 1 : a[i] = s[i]
      /\ b \in Seq(S) /\ DOMAIN b = 1 .. n - k
  BY <1>2, <1>3
<1>5. \A i \in 1 .. n - k : b[i] = s[k + i]
  BY <1>2, <1>3
<1>6. RemoveAt(s, k) = a \o b
  BY DEF RemoveAt
<1> HIDE DEF a, b, n
<1>7. \A i \in DOMAIN a : i \in Int /\ i \in DOMAIN s /\ i # k /\ a[i] = s[i]
  BY <1>2, <1>3, <1>4
<1>8. \A i \in DOMAIN b : i \in Int /\ k + i \in DOMAIN s /\ k + i # k /\ b[i] = s[k + i]
  BY <1>2, <1>3, <1>4, <1>5
<1>9. Distinct(a)
  BY <1>7 DEF Distinct
<1>10. Distinct(b)
  <2> SUFFICES ASSUME NEW i \in DOMAIN b, NEW j \in DOMAIN b, b[i] = b[j] PROVE i = j
    BY DEF Distinct
  <2>1. k + i = k + j
    BY <1>8 DEF Distinct
  <2> QED
    BY <1>3, <1>8, <2>1
<1>11. Range(a) \cap Range(b) = {}
  <2> SUFFICES ASSUME NEW i \in DOMAIN a, NEW j \in DOMAIN b, a[i] = b[j] PROVE FALSE
    BY DEF Range
  <2>1. i = k + j
    BY <1>7, <1>8 DEF Distinct
  <2> QED
    BY <1>2, <1>3, <1>4, <2>1
<1>12. Range(a) \cup Range(b) = Range(s) \ {x}
  <2>1. ASSUME NEW y \in Range(a) \cup Range(b) PROVE y \in Range(s) \ {x}
    BY <1>1, <1>7, <1>8 DEF Range, Distinct
  <2>2. ASSUME NEW y \in Range(s) \ {x} PROVE y \in Range(a) \cup Range(b)
    <3>1. PICK i \in DOMAIN s : s[i] = y
      BY DEF Range
    <3>2. i # k
      BY <1>1, <3>1
    <3>3. CASE i \in 1 .. k - 1
      BY <1>4, <3>1, <3>3 DEF Range
    <3>4. CASE i \notin 1 .. k - 1
      <4>1. i - k \in 1 .. n - k /\ k + (i - k) = i
        BY <1>2, <1>3, <3>2, <3>4
      <4>2. i - k \in DOMAIN b /\ b[i - k] = y
        BY <1>4, <1>5, <3>1, <4>1
      <4> QED
        BY <4>2 DEF Range
    <3> QED
      BY <3>3, <3>4
  <2> QED
    BY <2>1, <2>2
<1>13. a \o b \in Seq(S) /\ Range(a \o b) = Range(s) \ {x} /\ Distinct(a \o b)
  BY <1>4, <1>9, <1>10, <1>11, <1>12, PutTogether
<1> QED
  BY <1>6, <1>13 DEF k

---------------------------------------------------------------------------
(* The way of a message. *)

\* It begins at the first buffer and is closed under the steps of a packet.
LEMMA WayLeadsOn ==
    ASSUME NEW m \in Messages
    PROVE  /\ Way(m) \subseteq Buffers /\ FirstBuffer(m) \in Way(m)
           /\ \A b \in Way(m) : ~Home(b, m) /\ CanLeave(b, m) /\ NextBuffer(b, m) \in Buffers
                                  => NextBuffer(b, m) \in Way(m)
<1>1. FirstBuffer(m) \in Buffers
  BY TopologyAssumption
<1>2. Way(m) \subseteq Buffers /\ FirstBuffer(m) \in Way(m)
  BY <1>1 DEF Way, WayFrom
<1>3. ASSUME NEW b \in Way(m), ~Home(b, m), CanLeave(b, m), NextBuffer(b, m) \in Buffers
      PROVE  NextBuffer(b, m) \in Way(m)
  <2> SUFFICES ASSUME NEW S \in SUBSET Buffers, FirstBuffer(m) \in S, Closed(S, m)
               PROVE  NextBuffer(b, m) \in S
    BY <1>3 DEF Way, WayFrom
  <2>1. b \in S
    BY DEF Way, WayFrom
  <2> QED
    BY <1>3, <2>1 DEF Closed
<1> QED
  BY <1>2, <1>3

\* The connection of an output buffer leads to an input buffer,
LEMMA OutLeadsIn ==
    ASSUME NEW m \in Messages, Routed(m), NEW b \in Way(m), b \in OutBuffers
    PROVE  /\ ConnOf[b] \in Conns /\ Kind[ConnOf[b]] \in {"link", "bus"}
           /\ \E i \in DOMAIN Sources[ConnOf[b]] : Sources[ConnOf[b]][i] = b
           /\ NextBuffer(b, m) = IF Kind[ConnOf[b]] = "link" THEN LinkDest(ConnOf[b], b)
                                 ELSE BusDest(ConnOf[b], b, m)
           /\ NextBuffer(b, m) \in InBuffers \cap Way(m)
           /\ ~Home(b, m)
<1> DEFINE c == ConnOf[b]
           to == NextBuffer(b, m)
<1>1. PICK d \in Conns : b \in Range(Sources[d])
  BY DEF OutBuffers
<1>2. PICK i \in DOMAIN Sources[d] : Sources[d][i] = b
  BY <1>1 DEF Range
<1>3. c = d
  BY <1>2, TopologyAssumption
<1>4. /\ c \in Conns /\ Kind[c] \in {"link", "bus"} /\ i \in DOMAIN Sources[c] /\ Sources[c][i] = b
      /\ Dests[c] \in Seq(Buffers)
      /\ Kind[c] = "link" => DOMAIN Sources[c] \subseteq DOMAIN Dests[c]
  BY <1>2, <1>3, TopologyAssumption
<1>5. b \notin InBuffers
  BY TopologyAssumption
<1>6. ~Home(b, m) /\ CanLeave(b, m)
  BY <1>5, TopologyAssumption DEF Home
<1>7. to = IF Kind[c] = "link" THEN LinkDest(c, b) ELSE BusDest(c, b, m)
  BY <1>5 DEF NextBuffer
<1>8. \A k \in DOMAIN Dests[c] : Dests[c][k] \in InBuffers
  BY <1>4 DEF InBuffers, Range
<1>9. to \in InBuffers
  <2>1. CASE Kind[c] = "link"
    <3> DEFINE k == CHOOSE j \in DOMAIN Sources[c] : Sources[c][j] = b
    <3>1. k \in DOMAIN Sources[c]
      BY <1>4
    <3>2. k \in DOMAIN Dests[c]
      BY <1>4, <2>1, <3>1
    <3>3. to = Dests[c][k]
      BY <1>7, <2>1 DEF LinkDest
    <3> HIDE DEF k, to
    <3> QED
      BY <1>8, <3>2, <3>3
  <2>2. CASE Kind[c] = "bus"
    <3> DEFINE next == Route[NodeOf[b]][Dst[m]].next
               I == {k \in DOMAIN Dests[c] : NodeOf[Dests[c][k]] = next}
               first(k) == NodeOf[Dests[c][k]] = next /\ \A j \in 1 .. k - 1 : NodeOf[Dests[c][j]] # next
               n == Len(Dests[c])
    <3>1. I # {}
      BY <1>5, <1>6, <2>2 DEF CanLeave
    <3>2. n \in Nat /\ DOMAIN Dests[c] = 1 .. n
      BY <1>4
    <3> HIDE DEF next, n
    <3>3. I \in SUBSET Nat
      BY <3>2
    <3>4. PICK k \in I : \A y \in I : k <= y
      <4> HIDE DEF I
      <4> QED
        BY <3>1, <3>3, LeastOf
    <3>5. k \in 1 .. n /\ NodeOf[Dests[c][k]] = next
      BY <3>2
    <3>6. ASSUME NEW j \in 1 .. k - 1 PROVE NodeOf[Dests[c][j]] # next
      <4>1. j \in DOMAIN Dests[c] /\ ~ (k <= j)
        BY <3>2, <3>5
      <4> QED
        BY <3>4, <4>1
    <3>7. k \in DOMAIN Dests[c] /\ first(k)
      BY <3>2, <3>5, <3>6
    <3>8. to = Dests[c][CHOOSE j \in DOMAIN Dests[c] : first(j)]
      BY <1>7, <2>2 DEF BusDest, next
    <3> HIDE DEF first, to
    <3>9. (CHOOSE j \in DOMAIN Dests[c] : first(j)) \in DOMAIN Dests[c]
      BY <3>7
    <3> QED
      BY <1>8, <3>8, <3>9
  <2> QED
    BY <1>4, <2>1, <2>2
<1>10. to \in Buffers
  BY <1>9, TopologyAssumption
<1>11. to \in Way(m)
  BY <1>6, <1>10, WayLeadsOn
<1> QED
  BY <1>4, <1>6, <1>7, <1>9, <1>11

\* and a switch from an input buffer to an output buffer.
LEMMA InLeadsOut ==
    ASSUME NEW m \in Messages, Routed(m), NEW b \in Way(m), b \in InBuffers, ~Home(b, m)
    PROVE  /\ NodeOf[b] \in Switches
           /\ NextBuffer(b, m) = Route[NodeOf[b]][Dst[m]].buffer
           /\ NextBuffer(b, m) \in OutBuffers \cap Way(m)
<1>1. b \notin OutBuffers
  BY TopologyAssumption
<1>2. CanLeave(b, m) /\ NextBuffer(b, m) \in OutBuffers
  BY TopologyAssumption
<1>3. NodeOf[b] \in Switches
  BY <1>1, <1>2 DEF CanLeave
<1>4. NextBuffer(b, m) = Route[NodeOf[b]][Dst[m]].buffer
  BY DEF NextBuffer
<1>5. NextBuffer(b, m) \in Buffers
  BY <1>2, TopologyAssumption
<1>6. NextBuffer(b, m) \in Way(m)
  BY <1>2, <1>5, WayLeadsOn
<1> QED
  BY <1>2, <1>3, <1>4, <1>6

\* Every buffer of the way is one of the two and can hold a packet.
LEMMA OnTheWay ==
    ASSUME NEW m \in Messages, Routed(m), NEW b \in Way(m)
    PROVE  /\ b \in Buffers /\ (b \in OutBuffers \/ b \in InBuffers)
           /\ SizeOf(m) <= BufSize[b] /\ BufSize[b] \in Nat
           /\ ~Home(b, m) => NextBuffer(b, m) \in Way(m)
<1>1. b \in Buffers /\ SizeOf(m) <= BufSize[b] /\ (Home(b, m) \/ CanLeave(b, m))
  BY WayLeadsOn, TopologyAssumption
<1>2. b \in OutBuffers \/ b \in InBuffers
  BY <1>1 DEF Home, CanLeave
<1>3. BufSize[b] \in Nat
  BY <1>1, ConfigAssumption
<1>4. ~Home(b, m) => NextBuffer(b, m) \in Way(m)
  BY <1>2, OutLeadsIn, InLeadsOut
<1> QED
  BY <1>1, <1>2, <1>3, <1>4

\* The way ends at one buffer.
LEMMA HomeIsOne ==
    ASSUME NEW m \in Messages, Routed(m), NEW g \in Way(m), NEW h \in Way(m),
           Home(g, m), Home(h, m)
    PROVE  g = h
<1> DEFINE X == {b \in Way(m) : g \in WayFrom(b, m)}
<1>0. X \in SUBSET Buffers
  BY WayLeadsOn
<1>1. FirstBuffer(m) \in X
  <2>1. g \in WayFrom(FirstBuffer(m), m)
    BY DEF Way
  <2> QED
    BY <2>1, WayLeadsOn
<1>2. ASSUME NEW b \in X, ~Home(b, m) PROVE NextBuffer(b, m) \in X
  <2>1. NextBuffer(b, m) \in Way(m)
    BY <1>2, OnTheWay
  <2> SUFFICES ASSUME NEW S \in SUBSET Buffers, NextBuffer(b, m) \in S, Closed(S, m)
               PROVE  g \in S
    BY <1>2, <2>1, WayLeadsOn DEF WayFrom
  <2>2. S \cup {b} \in SUBSET Buffers
    BY <1>0
  <2>3. Closed(S \cup {b}, m)
    BY DEF Closed
  <2>4. g \in S \cup {b}
    BY <2>2, <2>3 DEF WayFrom
  <2> QED
    BY <1>2, <2>4
<1>3. Closed(X, m)
  <2> HIDE DEF X
  <2> QED
    BY <1>2 DEF Closed
<1>4. h \in X
  <2> HIDE DEF X
  <2> QED
    BY <1>0, <1>1, <1>3 DEF Way, WayFrom
<1>5. Closed({h}, m)
  BY DEF Closed
<1>6. {h} \in SUBSET Buffers
  BY <1>0, <1>4
<1> QED
  BY <1>4, <1>5, <1>6 DEF WayFrom

---------------------------------------------------------------------------
(* What the handlers do to the frames. *)

\* A handler that moves no packet keeps the invariant when it keeps the frames.
LEMMA NothingMoves ==
    ASSUME Core, Stays, FramesOK(agenda', queue'),
           \A e \in Frames(agenda', queue') : Placed(e),
           \A e \in Frames(agenda, queue) : \E x \in Frames(agenda', queue') : x.who = e.who,
           \A b \in Buffers : queue'[b] # <<>> => content[b] # <<>>
    PROVE  Core'
<1> USE DEF Core
<1>1. Typed'
  BY DEF Typed, Stays
<1>2. Stored' /\ BuffersHold'
  BY DEF Stored, BuffersHold, Held, Flying, Stays
<1>3. AllPlaced'
  <2>1. ASSUME NEW e \in Frames(agenda', queue') PROVE Placed(e)'
    <3>1. Placed(e)
      OBVIOUS
    <3> QED
      BY <3>1 DEF Placed, Flying, Stays
  <2> QED
    BY <2>1 DEF AllPlaced
<1>4. Carried'
  BY DEF Carried, Flying, Stays
<1>5. WaitersHaveAReason'
  BY DEF WaitersHaveAReason, Stays
<1> QED
  BY <1>1, <1>2, <1>3, <1>4, <1>5

\* What the frame of a handler says of its packet or message.
LEMMA PacketRuns ==
    ASSUME Core, NEW e \in Frames(agenda, queue),
           e.event \in {"output_buffer", "input_buffer", "receive"}
    PROVE  /\ e.who \in Packets /\ e.who[1] \in Messages /\ e.who[1] \in Flying
           /\ e.who \in PacketsOf(e.who[1]) /\ e.who \notin received[e.who[1]]
           /\ e.event = "receive" /\ Routed(e.who[1]) => Home(at[e.who], e.who[1])
           /\ e.event # "receive" => Routed(e.who[1])
           /\ e.event = "output_buffer" => at[e.who] \in OutBuffers
           /\ e.event = "input_buffer" => at[e.who] \in InBuffers
           /\ Routed(e.who[1]) => /\ at[e.who] \in Way(e.who[1]) /\ at[e.who] \in Buffers
                                  /\ e.who \in Range(content[at[e.who]])
                                  /\ content[at[e.who]] # <<>>
<1> DEFINE p == e.who
           m == p[1]
<1>1. /\ p \in Packets /\ m \in Flying /\ p \notin received[m]
      /\ e.event = "receive" /\ Routed(m) => Home(at[p], m)
      /\ e.event # "receive" => Routed(m)
      /\ e.event = "output_buffer" => at[p] \in OutBuffers
      /\ e.event = "input_buffer" => at[p] \in InBuffers
  <2>1. Placed(e)
    BY DEF Core, AllPlaced
  <2> QED
    BY <2>1 DEF Placed
<1>2. m \in Messages /\ p \in PacketsOf(m)
  BY <1>1, PacketIsOf
<1>3. ASSUME Routed(m)
      PROVE  /\ at[p] \in Way(m) /\ at[p] \in Buffers /\ p \in Range(content[at[p]])
             /\ content[at[p]] # <<>>
  <2>1. at[p] \in Way(m)
    BY <1>1, <1>2, <1>3 DEF Core, Carried
  <2>2. at[p] \in Buffers
    BY <1>2, <2>1, WayLeadsOn
  <2>3. p \in Range(content[at[p]])
    BY <1>1, <1>3, <2>2 DEF Core, Stored, Held
  <2>4. content[at[p]] # <<>>
    BY <2>3 DEF Range
  <2> QED
    BY <2>1, <2>2, <2>3, <2>4
<1> QED
  BY <1>1, <1>2, <1>3

\* The handler's frame is scheduled again.
LEMMA RetryKeeps ==
    ASSUME Core, agenda # <<>>, NEW n \in 0 .. MaxDelay, RetryIn(n), Stays
    PROVE  Core'
<1> DEFINE t == Tail(agenda)
           h == Current
           e == Entry(h.who, h.event, n)
<1>1. /\ FramesOK(t, queue) /\ h \in Entries /\ h \in Frames(agenda, queue)
      /\ \A x \in Frames(t, queue) : x \in Frames(agenda, queue) /\ x.who # h.who
      /\ \A x \in Frames(agenda, queue) : x = h \/ x \in Frames(t, queue)
  BY FrameRuns DEF Core, Current
<1>2. e \in Entries /\ e.delay <= MaxDelay /\ e.who = h.who /\ e.event = h.event
  BY <1>1, MaxDelayFacts DEF Entries, Entry
<1>3. agenda' = Insert(t, e) /\ queue' = queue
  BY DEF RetryIn
<1> HIDE DEF t, h, e
<1>4. FramesOK(agenda', queue') /\ Frames(agenda', queue') = Frames(t, queue) \cup {e}
  BY <1>1, <1>2, <1>3, FrameInserted
<1>5. \A x \in Frames(agenda, queue) : Placed(x)
  BY DEF Core, AllPlaced
<1>6. Placed(e)
  <2>1. Placed(h)
    BY <1>1, <1>5
  <2> QED
    BY <1>2, <2>1 DEF Placed
<1>7. \A x \in Frames(agenda', queue') : Placed(x)
  BY <1>1, <1>4, <1>5, <1>6
<1>8. \A x \in Frames(agenda, queue) : \E y \in Frames(agenda', queue') : y.who = x.who
  BY <1>1, <1>2, <1>4
<1>9. \A b \in Buffers : queue'[b] # <<>> => content[b] # <<>>
  BY <1>3 DEF Core, WaitersHaveAReason
<1> QED
  BY <1>4, <1>7, <1>8, <1>9, NothingMoves

\* The handler's frame is suspended where a packet is left.
LEMMA WaitKeeps ==
    ASSUME Core, agenda # <<>>, Current.delay = 0, NEW b \in Buffers, content[b] # <<>>,
           WaitFor(b), Stays
    PROVE  Core'
<1> DEFINE t == Tail(agenda)
           h == Current
<1>1. /\ FramesOK(t, queue) /\ h \in Entries /\ h \in Frames(agenda, queue)
      /\ \A x \in Frames(t, queue) : x \in Frames(agenda, queue) /\ x.who # h.who
      /\ \A x \in Frames(agenda, queue) : x = h \/ x \in Frames(t, queue)
  BY FrameRuns DEF Core, Current
<1>2. agenda' = t /\ queue' = Suspended(queue, b, h) /\ h.delay = 0
  BY DEF WaitFor, Suspended
<1> HIDE DEF t, h
<1>3. FramesOK(agenda', queue') /\ Frames(agenda', queue') = Frames(t, queue) \cup {h}
  BY <1>1, <1>2, FrameSuspended
<1>4. \A x \in Frames(agenda', queue') : x \in Frames(agenda, queue)
  BY <1>1, <1>3
<1>5. \A x \in Frames(agenda', queue') : Placed(x)
  BY <1>4 DEF Core, AllPlaced
<1>6. \A x \in Frames(agenda, queue) : \E y \in Frames(agenda', queue') : y.who = x.who
  BY <1>1, <1>3
<1>7. ASSUME NEW c \in Buffers, queue'[c] # <<>> PROVE content[c] # <<>>
  <2>1. c # b => queue'[c] = queue[c]
    BY <1>2, <1>7 DEF Core, FramesOK, Suspended
  <2> QED
    BY <1>7, <2>1 DEF Core, WaitersHaveAReason
<1> QED
  BY <1>3, <1>5, <1>6, <1>7, NothingMoves

\* A buffer without room for what fits an empty one holds a packet.
LEMMA FullIsNotEmpty ==
    ASSUME Core, NEW b \in Buffers, NEW n \in Int, n <= BufSize[b], count[b] + n > BufSize[b]
    PROVE  content[b] # <<>>
<1> SUFFICES ASSUME content[b] = <<>> PROVE FALSE
  OBVIOUS
<1>1. Bytes(content[b]) = {}
  BY DEF Bytes
<1>2. count[b] = 0
  BY <1>1, FS_EmptySet DEF Core, BuffersHold
<1>3. BufSize[b] \in Nat
  BY ConfigAssumption
<1> QED
  BY <1>2, <1>3

\* A packet waits for room in the next buffer of its way.
LEMMA FullKeeps ==
    ASSUME Core, agenda # <<>>, Current.delay = 0, NEW p \in Packets, Routed(p[1]),
           NEW to \in Way(p[1]), ~Fits(p, to), WaitFor(to), Stays
    PROVE  Core'
<1> DEFINE m == p[1]
           n == SizeOf(p[1])
<1>1. m \in Messages
  BY PacketIsOf
<1>2. n \in Nat \ {0}
  BY <1>1, PacketFacts
<1>3. to \in Buffers /\ n <= BufSize[to] /\ BufSize[to] \in Nat
  BY <1>1, OnTheWay
<1>4. count[to] \in Int
  BY <1>3 DEF Core, Typed
<1>5. n \in Int /\ count[to] + n > BufSize[to]
  BY <1>2, <1>3, <1>4 DEF Fits
<1> HIDE DEF n
<1>6. content[to] # <<>>
  BY <1>3, <1>5, FullIsNotEmpty
<1> QED
  BY <1>3, <1>6, WaitKeeps

\* The packet at the head of a buffer moves on to the next buffer of its way.
LEMMA TransferKeeps ==
    ASSUME Core, agenda # <<>>, Current.event \in {"output_buffer", "input_buffer"},
           NEW p, NEW from, NEW to, NEW latency \in 1 .. MaxDelay, NEW event,
           p = Current.who, from = at[p], to # from, to \in Way(p[1]),
           HeadOf(from) = p, Fits(p, to),
           \/ event = "input_buffer" /\ to \in InBuffers
           \/ event = "output_buffer" /\ to \in OutBuffers,
           Transfer(p, from, to, latency, event)
    PROVE  Core'
<1> DEFINE m == p[1]
           t == Tail(agenda)
           h == Current
           e == Entry(p, event, latency)
           size == SizeOf(p[1])
<1>1. /\ FramesOK(t, queue) /\ h \in Frames(agenda, queue)
      /\ \A x \in Frames(t, queue) : x \in Frames(agenda, queue) /\ x.who # p
      /\ \A x \in Frames(agenda, queue) : x = h \/ x \in Frames(t, queue)
  BY FrameRuns DEF Core, Current
<1>2. /\ p \in Packets /\ m \in Messages /\ m \in Flying /\ p \in PacketsOf(m)
      /\ p \notin received[m] /\ Routed(m)
      /\ from \in Way(m) /\ from \in Buffers /\ p \in Range(content[from]) /\ content[from] # <<>>
  BY <1>1, PacketRuns
<1>3. to \in Buffers
  BY <1>2, WayLeadsOn
<1>4. Head(content[from]) = p
  BY <1>2 DEF HeadOf
<1>5. size \in Nat \ {0}
  BY <1>2, PacketFacts
<1>6. /\ content' = [content EXCEPT ![from] = Tail(@), ![to] = Append(@, p)]
      /\ count' = [count EXCEPT ![from] = @ - size, ![to] = @ + size]
      /\ read_busy' = [read_busy EXCEPT ![from] = latency]
      /\ write_busy' = [write_busy EXCEPT ![to] = latency]
      /\ at' = [at EXCEPT ![p] = to]
      /\ busy' = [busy EXCEPT ![p] = latency]
      /\ agenda' = Insert(WakeUp(t, queue[from]), e)
      /\ queue' = Woken(queue, from)
      /\ received' = received /\ in_flight' = in_flight
  BY DEF Transfer, Woken
<1>7. /\ content \in [Buffers -> Seq(Packets)] /\ count \in [Buffers -> Int]
      /\ read_busy \in [Buffers -> 0 .. MaxDelay] /\ write_busy \in [Buffers -> 0 .. MaxDelay]
      /\ busy \in [Packets -> 0 .. MaxDelay] /\ at \in [Packets -> Buffers \cup {None}]
      /\ received \in [Messages -> SUBSET Packets]
      /\ \A k \in Messages : received[k] \subseteq PacketsOf(k)
      /\ in_flight \in Seq(Messages)
  BY DEF Core, Typed
<1>8. \A b \in Buffers : Range(content[b]) = Held(b) /\ Distinct(content[b])
  BY DEF Core, Stored
<1> HIDE DEF m, t, h, e, size
\* The frames.
<1>9. e \in Entries /\ e.delay <= MaxDelay /\ e.who = p /\ e.event = event
  BY <1>2, MaxDelayFacts DEF Entries, Entry, e, Events
<1>10. FramesOK(agenda', queue') /\ Frames(agenda', queue') = Frames(t, queue) \cup {e}
  <2> DEFINE a == WakeUp(t, queue[from])
             q == Woken(queue, from)
  <2>1. FramesOK(a, q) /\ Frames(a, q) = Frames(t, queue)
    BY <1>1, <1>2, FramesWoken
  <2>2. agenda' = Insert(a, e) /\ queue' = q
    BY <1>6
  <2> HIDE DEF a, q
  <2> QED
    BY <1>1, <1>9, <2>1, <2>2, FrameInserted
\* The packets.
<1>11. /\ content'[from] = Tail(content[from]) /\ content'[to] = Append(content[to], p)
       /\ \A b \in Buffers : b # from /\ b # to => content'[b] = content[b]
  BY <1>2, <1>3, <1>6, <1>7
<1>12. /\ count'[from] = count[from] - size /\ count'[to] = count[to] + size
       /\ \A b \in Buffers : b # from /\ b # to => count'[b] = count[b]
  BY <1>2, <1>3, <1>6, <1>7
<1>13. at'[p] = to /\ \A x \in Packets : x # p => at'[x] = at[x]
  BY <1>2, <1>6, <1>7
<1>14. p \in Held(from) /\ p \notin Held(to)
  BY <1>2, <1>3, <1>8 DEF Held
<1>15. ASSUME NEW b \in Buffers
       PROVE  Held(b)' = IF b = from THEN Held(b) \ {p} ELSE IF b = to THEN Held(b) \cup {p} ELSE Held(b)
  BY <1>2, <1>6, <1>13 DEF Held, Flying, m
<1>16. ASSUME NEW b \in Buffers
       PROVE  /\ content'[b] \in Seq(Packets) /\ Range(content'[b]) = Held(b)' /\ Distinct(content'[b])
  <2>0. content[b] \in Seq(Packets) /\ Range(content[b]) = Held(b) /\ Distinct(content[b])
    BY <1>7, <1>8
  <2>1. CASE b = from
    <3>1. content[b] # <<>> /\ Head(content[b]) = p
      BY <1>2, <1>4, <2>1
    <3>2. /\ Tail(content[b]) \in Seq(Packets) /\ Range(Tail(content[b])) = Held(b) \ {p}
          /\ Distinct(Tail(content[b]))
      BY <2>0, <3>1, HeadTaken
    <3>3. content'[b] = Tail(content[b]) /\ Held(b)' = Held(b) \ {p}
      BY <1>11, <1>15, <2>1
    <3> QED
      BY <3>2, <3>3
  <2>2. CASE b = to
    <3>1. p \in Packets /\ p \notin Range(content[b])
      BY <1>2, <1>14, <2>0, <2>2
    <3>2. /\ Append(content[b], p) \in Seq(Packets)
          /\ Range(Append(content[b], p)) = Held(b) \cup {p} /\ Distinct(Append(content[b], p))
      BY <2>0, <3>1, Appended
    <3>3. content'[b] = Append(content[b], p) /\ Held(b)' = Held(b) \cup {p}
      BY <1>11, <1>15, <2>2
    <3> QED
      BY <3>2, <3>3
  <2>3. CASE b # from /\ b # to
    BY <1>11, <1>15, <2>0, <2>3
  <2> QED
    BY <2>1, <2>2, <2>3
<1>17. Stored'
  BY <1>16 DEF Stored
<1>18. ASSUME NEW b \in Buffers
       PROVE  count'[b] = Cardinality(Bytes(content'[b])) /\ count'[b] <= BufSize[b]
  <2>0. Held(b) \in SUBSET Packets
    BY DEF Held
  <2>1. Cardinality(Bytes(content'[b])) = Load(Held(b)')
    BY <1>16, BytesCounted DEF Load
  <2>2. Cardinality(Bytes(content[b])) = Load(Held(b))
    BY <1>7, <1>8, BytesCounted DEF Load
  <2>3. count[b] = Load(Held(b)) /\ count[b] <= BufSize[b] /\ count[b] \in Int /\ BufSize[b] \in Nat
    BY <1>7, <2>2, ConfigAssumption DEF Core, BuffersHold
  <2>4. Load({p}) = size
    BY <1>2, <2>0, LoadFacts DEF size
  <2>5. CASE b = from
    <3>1. Load(Held(b) \ {p}) = Load(Held(b)) - size
      BY <1>14, <2>0, <2>4, <2>5, LoadFacts
    <3>2. Load(Held(b)') = count'[b]
      BY <1>12, <1>15, <2>3, <2>5, <3>1
    <3>3. count'[b] <= BufSize[b]
      BY <1>5, <1>12, <2>3, <2>5
    <3> QED
      BY <2>1, <3>2, <3>3
  <2>6. CASE b = to
    <3>1. Load(Held(b) \cup {p}) = Load(Held(b)) + size
      BY <1>2, <1>14, <2>0, <2>4, <2>6, LoadFacts
    <3>2. Load(Held(b)') = count'[b]
      BY <1>12, <1>15, <2>3, <2>6, <3>1
    <3>3. count'[b] <= BufSize[b]
      BY <1>12, <2>6 DEF Fits, size
    <3> QED
      BY <2>1, <3>2, <3>3
  <2>7. CASE b # from /\ b # to
    BY <1>12, <1>15, <2>1, <2>3, <2>7
  <2> QED
    BY <2>5, <2>6, <2>7
<1>19. BuffersHold'
  BY <1>18 DEF BuffersHold
<1>20. AllPlaced'
  <2>1. ASSUME NEW x \in Frames(t, queue) PROVE Placed(x)'
    <3>1. Placed(x) /\ x.who # p
      BY <1>1 DEF Core, AllPlaced
    <3> QED
      BY <1>6, <1>13, <3>1 DEF Placed, Flying
  <2>2. Placed(e)'
    BY <1>2, <1>6, <1>9, <1>13 DEF Placed, Flying, m
  <2> QED
    BY <1>10, <2>1, <2>2 DEF AllPlaced
<1>21. Carried'
  <2>1. Flying' = Flying
    BY <1>6 DEF Flying
  <2>2. ASSUME NEW k \in Flying, NEW x \in PacketsOf(k)
        PROVE  /\ x \in received'[k] \/ \E y \in Frames(agenda', queue') : y.who = x
               /\ Routed(k) => at'[x] \in Way(k)
               /\ Routed(k) /\ x \in received'[k] => Home(at'[x], k)
    <3>1. k \in Messages
      BY <1>7 DEF Flying, Range
    <3>2. x \in Packets /\ x[1] = k
      BY <3>1, PacketFacts
    <3>3. CASE x = p
      BY <1>2, <1>6, <1>9, <1>10, <1>13, <3>2, <3>3 DEF m
    <3>4. CASE x # p
      <4>1. at'[x] = at[x] /\ received' = received
        BY <1>6, <1>13, <3>2, <3>4
      <4>2. x \in received[k] \/ \E y \in Frames(t, queue) : y.who = x
        <5>1. x \in received[k] \/ \E y \in Frames(agenda, queue) : y.who = x
          BY DEF Core, Carried
        <5>2. h.who # x
          BY <3>4 DEF h
        <5> QED
          BY <1>1, <5>1, <5>2
      <4>3. (Routed(k) => at[x] \in Way(k)) /\ (Routed(k) /\ x \in received[k] => Home(at[x], k))
        BY DEF Core, Carried
      <4> QED
        BY <1>10, <4>1, <4>2, <4>3
    <3> QED
      BY <3>3, <3>4
  <2>3. \A k \in Messages : received'[k] # {} => k \in Flying
    BY <1>6 DEF Core, Carried
  <2>4. Distinct(in_flight)
    BY DEF Core, Carried
  <2> QED
    BY <1>6, <2>1, <2>2, <2>3, <2>4 DEF Carried
<1>22. WaitersHaveAReason'
  <2>1. ASSUME NEW b \in Buffers, queue'[b] # <<>> PROVE content'[b] # <<>>
    <3>0. queue \in [Buffers -> Seq(Entries)]
      BY DEF Core, FramesOK
    <3>1. b # from
      BY <1>2, <1>6, <2>1, <3>0 DEF Woken
    <3>2. queue'[b] = queue[b]
      BY <1>6, <3>0, <3>1 DEF Woken
    <3>3. CASE b = to
      <4>1. content[b] \in Seq(Packets)
        BY <1>7
      <4> QED
        BY <1>2, <1>11, <3>3, <4>1, Appended
    <3>4. CASE b # to
      BY <1>11, <2>1, <3>1, <3>2, <3>4 DEF Core, WaitersHaveAReason
    <3> QED
      BY <3>3, <3>4
  <2> QED
    BY <2>1 DEF WaitersHaveAReason
<1>23. Typed'
  <2>1. latency \in 0 .. MaxDelay
    BY MaxDelayFacts
  <2>2. content' \in [Buffers -> Seq(Packets)]
    <3>1. content' = [b \in Buffers |-> content'[b]]
      BY <1>6, <1>7
    <3> QED
      BY <1>16, <3>1
  <2>3. count' \in [Buffers -> Int]
    <3>1. count' = [b \in Buffers |-> count'[b]]
      BY <1>6, <1>7
    <3>2. ASSUME NEW b \in Buffers PROVE count'[b] \in Int
      <4>1. count[b] \in Int /\ size \in Int
        BY <1>5, <1>7
      <4>2. count[b] - size \in Int /\ count[b] + size \in Int
        BY <4>1
      <4> QED
        BY <1>12, <4>1, <4>2
    <3> QED
      BY <3>1, <3>2
  <2>4. read_busy' \in [Buffers -> 0 .. MaxDelay] /\ write_busy' \in [Buffers -> 0 .. MaxDelay]
    BY <1>6, <1>7, <2>1
  <2>5. busy' \in [Packets -> 0 .. MaxDelay]
    BY <1>6, <1>7, <2>1
  <2>6. at' \in [Packets -> Buffers \cup {None}]
    BY <1>3, <1>6, <1>7
  <2> QED
    BY <1>6, <1>7, <2>2, <2>3, <2>4, <2>5, <2>6 DEF Typed
<1> QED
  BY <1>10, <1>17, <1>19, <1>20, <1>21, <1>22, <1>23 DEF Core

---------------------------------------------------------------------------
(* The handlers, one by one. *)

\* What a link keeps of its lane.
LaneOK(lanes) ==
    1 \in DOMAIN lanes /\ "busy" \in DOMAIN lanes[1] /\ lanes[1].busy \in 0 .. MaxDelay

\* Arbitration does not touch how long a lane is busy.
LEMMA ArbitrateKeeps ==
    ASSUME NEW c, NEW lanes, NEW last, NEW always, LaneOK(lanes)
    PROVE  /\ LaneOK(Arbitrate(c, lanes, last, 1, always).lanes)
           /\ Arbitrate(c, lanes, last, 1, always).lanes[1].busy = lanes[1].busy
<1> DEFINE arb == Arbitrate(c, lanes, last, 1, always)
           k == IF lanes[1].busy > 0 /\ ~always THEN 0 ELSE RoundRobin(c, last)
           b == IF k = 0 THEN None ELSE Sources[c][k]
<1>1. CASE lanes[1].decided
  <2>1. arb.lanes = lanes
    BY <1>1 DEF Arbitrate
  <2> HIDE DEF arb
  <2> QED
    BY <2>1 DEF arb
<1>2. CASE ~lanes[1].decided
  <2>1. arb.lanes = [lanes EXCEPT ![1].decided = TRUE, ![1].buffer = b]
    BY <1>2 DEF Arbitrate
  <2> HIDE DEF arb, b
  <2>2. 1 \in DOMAIN arb.lanes /\ "busy" \in DOMAIN arb.lanes[1] /\ arb.lanes[1].busy = lanes[1].busy
    BY <2>1 DEF LaneOK
  <2> QED
    BY <2>2 DEF LaneOK, arb
<1> QED
  BY <1>1, <1>2

\* The lanes of one connection change.
LEMMA LanesKept ==
    ASSUME LanesOK, NEW c, NEW lanes, Kind[c] = "link" => LaneOK(lanes),
           lane' = [lane EXCEPT ![c] = lanes]
    PROVE  LanesOK'
<1>1. DOMAIN lane' = Conns
  BY DEF LanesOK
<1>2. \A d \in Conns : lane'[d] = IF d = c THEN lanes ELSE lane[d]
  BY DEF LanesOK
<1> QED
  BY <1>1, <1>2 DEF LanesOK, LaneOK

LEMMA LinkTransferKeeps ==
    ASSUME NetInv, Runs("output_buffer"), NEW p, NEW c, p = Current.who, c = ConnOf[at[p]],
           Kind[c] = "link", LinkTransfer(p, c)
    PROVE  NetInv'
<1> DEFINE m    == p[1]
           from == at[p]
           to   == LinkDest(c, from)
           arb  == Arbitrate(c, lane[c], last_index[c], 1, TRUE)
           L    == Latency(p, Bandwidth[c])
<1>0. Core /\ LanesOK /\ agenda # <<>> /\ Current.delay = 0 /\ Current.event = "output_buffer"
  BY DEF NetInv, Runs
<1>1. Current \in Frames(agenda, queue)
  BY <1>0, FrameRuns DEF Core, Current
<1>2. /\ p \in Packets /\ m \in Messages /\ Routed(m) /\ from \in OutBuffers
      /\ from \in Way(m) /\ from \in Buffers /\ content[from] # <<>>
  BY <1>0, <1>1, PacketRuns
<1>3. /\ c \in Conns /\ to \in InBuffers /\ to \in Way(m) /\ to # from
  <2>1. c \in Conns /\ NextBuffer(from, m) = to /\ NextBuffer(from, m) \in InBuffers \cap Way(m)
    BY <1>2, OutLeadsIn
  <2> QED
    BY <1>2, <2>1, TopologyAssumption
<1>4. to \in Buffers
  BY <1>2, <1>3, OnTheWay
<1>6. LaneOK(lane[c])
  BY <1>0, <1>3 DEF LanesOK, LaneOK
<1>7. LaneOK(arb.lanes)
  BY <1>6, ArbitrateKeeps
<1>8. L \in 1 .. MaxDelay
  <2>1. Bandwidth[c] \in Nat \ {0}
    BY <1>3, ConfigAssumption
  <2>2. L \in Nat \ {0} /\ L <= MaxDelay
    BY <1>2, <1>3, <2>1, LatencyFacts, MaxDelayFacts
  <2> QED
    BY <2>2, MaxDelayFacts
<1>9. write_busy[to] \in 0 .. MaxDelay /\ lane[c][1].busy \in 0 .. MaxDelay /\ 1 \in 0 .. MaxDelay
  BY <1>0, <1>4, <1>6, MaxDelayFacts DEF Core, Typed, LaneOK
<1>10. \/ WaitFor(from) /\ Stays /\ UNCHANGED lane
       \/ RetryIn(LinkBusy(c)) /\ Stays /\ UNCHANGED lane
       \/ RetryIn(1) /\ Stays /\ lane' = [lane EXCEPT ![c] = arb.lanes]
       \/ RetryIn(write_busy[to]) /\ Stays /\ lane' = [lane EXCEPT ![c] = arb.lanes]
       \/ ~Fits(p, to) /\ WaitFor(to) /\ Stays /\ lane' = [lane EXCEPT ![c] = arb.lanes]
       \/ /\ HeadOf(from) = p /\ Fits(p, to) /\ Transfer(p, from, to, L, "input_buffer")
          /\ lane' = [lane EXCEPT ![c] = [arb.lanes EXCEPT ![1].busy = L]]
  BY DEF LinkTransfer
<1> HIDE DEF m, from, to, arb, L
<1>11. CASE WaitFor(from) /\ Stays /\ UNCHANGED lane
  <2>1. Core'
    BY <1>0, <1>2, <1>11, WaitKeeps
  <2>2. LanesOK'
    BY <1>0, <1>11 DEF LanesOK
  <2> QED
    BY <2>1, <2>2 DEF NetInv
<1>12. CASE RetryIn(LinkBusy(c)) /\ Stays /\ UNCHANGED lane
  <2>1. Core'
    BY <1>0, <1>9, <1>12, RetryKeeps DEF LinkBusy
  <2>2. LanesOK'
    BY <1>0, <1>12 DEF LanesOK
  <2> QED
    BY <2>1, <2>2 DEF NetInv
<1>13. CASE /\ RetryIn(1) \/ RetryIn(write_busy[to])
            /\ Stays /\ lane' = [lane EXCEPT ![c] = arb.lanes]
  <2>1. Core'
    BY <1>0, <1>9, <1>13, RetryKeeps
  <2>2. LanesOK'
    BY <1>0, <1>7, <1>13, LanesKept
  <2> QED
    BY <2>1, <2>2 DEF NetInv
<1>14. CASE ~Fits(p, to) /\ WaitFor(to) /\ Stays /\ lane' = [lane EXCEPT ![c] = arb.lanes]
  <2>1. Core'
    BY <1>0, <1>2, <1>3, <1>14, FullKeeps DEF m
  <2>2. LanesOK'
    BY <1>0, <1>7, <1>14, LanesKept
  <2> QED
    BY <2>1, <2>2 DEF NetInv
<1>15. CASE /\ HeadOf(from) = p /\ Fits(p, to) /\ Transfer(p, from, to, L, "input_buffer")
            /\ lane' = [lane EXCEPT ![c] = [arb.lanes EXCEPT ![1].busy = L]]
  <2>1. Core'
    <3>1. to \in Way(p[1]) /\ from = at[p]
      BY <1>3 DEF m, from
    <3> QED
      BY <1>0, <1>3, <1>8, <1>15, <3>1, TransferKeeps
  <2>2. LaneOK([arb.lanes EXCEPT ![1].busy = L])
    BY <1>7, <1>8, MaxDelayFacts DEF LaneOK
  <2>3. LanesOK'
    BY <1>0, <1>15, <2>2, LanesKept
  <2> QED
    BY <2>1, <2>3 DEF NetInv
<1> QED
  BY <1>10, <1>11, <1>12, <1>13, <1>14, <1>15

LEMMA BusTransferKeeps ==
    ASSUME NetInv, Runs("output_buffer"), NEW p, NEW c, p = Current.who, c = ConnOf[at[p]],
           Kind[c] = "bus", BusTransfer(p, c)
    PROVE  NetInv'
<1> DEFINE m    == p[1]
           from == at[p]
           to   == BusDest(c, from, m)
           L    == Latency(p, Bandwidth[c])
<1>0. Core /\ LanesOK /\ agenda # <<>> /\ Current.delay = 0 /\ Current.event = "output_buffer"
  BY DEF NetInv, Runs
<1>1. Current \in Frames(agenda, queue)
  BY <1>0, FrameRuns DEF Core, Current
<1>2. /\ p \in Packets /\ m \in Messages /\ Routed(m) /\ from \in OutBuffers
      /\ from \in Way(m) /\ from \in Buffers /\ content[from] # <<>>
  BY <1>0, <1>1, PacketRuns
<1>3. /\ c \in Conns /\ to \in InBuffers /\ to \in Way(m) /\ to # from
  <2>1. c \in Conns /\ NextBuffer(from, m) = to /\ NextBuffer(from, m) \in InBuffers \cap Way(m)
    BY <1>2, OutLeadsIn
  <2> QED
    BY <1>2, <2>1, TopologyAssumption
<1>4. to \in Buffers
  BY <1>2, <1>3, OnTheWay
<1>5. L \in 1 .. MaxDelay
  <2>1. Bandwidth[c] \in Nat \ {0}
    BY <1>3, ConfigAssumption
  <2>2. L \in Nat \ {0} /\ L <= MaxDelay
    BY <1>2, <1>3, <2>1, LatencyFacts, MaxDelayFacts
  <2> QED
    BY <2>2, MaxDelayFacts
<1>6. write_busy[to] \in 0 .. MaxDelay /\ 1 \in 0 .. MaxDelay
  BY <1>0, <1>4, MaxDelayFacts DEF Core, Typed
<1>7. \/ WaitFor(from) /\ Stays
      \/ RetryIn(1) /\ Stays
      \/ RetryIn(write_busy[to]) /\ Stays
      \/ ~Fits(p, to) /\ WaitFor(to) /\ Stays
      \/ HeadOf(from) = p /\ Fits(p, to) /\ Transfer(p, from, to, L, "input_buffer")
  BY DEF BusTransfer
<1>8. UNCHANGED lane \/ \E x : lane' = [lane EXCEPT ![c] = x]
  BY DEF BusTransfer
<1>9. LanesOK'
  <2>1. CASE UNCHANGED lane
    BY <1>0, <2>1 DEF LanesOK
  <2>2. ASSUME NEW x, lane' = [lane EXCEPT ![c] = x] PROVE LanesOK'
    BY <1>0, <2>2, LanesKept
  <2> QED
    BY <1>8, <2>1, <2>2
<1> HIDE DEF m, from, to, L
<1>10. CASE WaitFor(from) /\ Stays
  BY <1>0, <1>2, <1>9, <1>10, WaitKeeps DEF NetInv
<1>11. CASE (RetryIn(1) \/ RetryIn(write_busy[to])) /\ Stays
  BY <1>0, <1>6, <1>9, <1>11, RetryKeeps DEF NetInv
<1>12. CASE ~Fits(p, to) /\ WaitFor(to) /\ Stays
  BY <1>0, <1>2, <1>3, <1>9, <1>12, FullKeeps DEF NetInv, m
<1>13. CASE HeadOf(from) = p /\ Fits(p, to) /\ Transfer(p, from, to, L, "input_buffer")
  <2>1. to \in Way(p[1]) /\ from = at[p]
    BY <1>3 DEF m, from
  <2>2. Core'
    BY <1>0, <1>3, <1>5, <1>13, <2>1, TransferKeeps
  <2> QED
    BY <1>9, <2>2 DEF NetInv
<1> QED
  BY <1>7, <1>10, <1>11, <1>12, <1>13

LEMMA OutputBufferKeeps ==
    ASSUME NetInv, OutputBuffer
    PROVE  NetInv'
<1>1. PICK p, c : p = Current.who /\ c = ConnOf[at[p]]
  OBVIOUS
<1>2. Runs("output_buffer")
  BY DEF OutputBuffer
<1>3. \/ Kind[c] = "link" /\ LinkTransfer(p, c)
      \/ Kind[c] = "bus" /\ BusTransfer(p, c)
  BY <1>1 DEF OutputBuffer
<1> QED
  BY <1>1, <1>2, <1>3, LinkTransferKeeps, BusTransferKeeps

\* A packet arrives at its destination.
LEMMA ArrivalKeeps ==
    ASSUME Core, Runs("input_buffer"), NEW p, p = Current.who, NodeOf[at[p]] = Dst[p[1]],
           agenda' = Insert(Tail(agenda), Entry(p, "receive", 0)), Stays, UNCHANGED queue
    PROVE  Core'
<1> DEFINE t == Tail(agenda)
           h == Current
           e == Entry(p, "receive", 0)
<1>0. agenda # <<>> /\ h.event = "input_buffer"
  BY DEF Runs
<1>1. /\ FramesOK(t, queue) /\ h \in Entries /\ h \in Frames(agenda, queue)
      /\ \A x \in Frames(t, queue) : x \in Frames(agenda, queue) /\ x.who # p
      /\ \A x \in Frames(agenda, queue) : x = h \/ x \in Frames(t, queue)
  BY <1>0, FrameRuns DEF Core, Current
<1>2. /\ p \in Packets /\ p[1] \in Flying /\ p \notin received[p[1]] /\ at[p] \in InBuffers
  BY <1>0, <1>1, PacketRuns
<1>3. e \in Entries /\ e.delay <= MaxDelay /\ e.who = p /\ e.event = "receive"
  BY <1>2, MaxDelayFacts DEF Entries, Entry, Events
<1> HIDE DEF t, h, e
<1>4. FramesOK(agenda', queue') /\ Frames(agenda', queue') = Frames(t, queue) \cup {e}
  BY <1>1, <1>3, FrameInserted DEF t, e
<1>5. Placed(e)
  BY <1>2, <1>3 DEF Placed, Home
<1>6. \A x \in Frames(agenda', queue') : Placed(x)
  BY <1>1, <1>4, <1>5 DEF Core, AllPlaced
<1>7. \A x \in Frames(agenda, queue) : \E y \in Frames(agenda', queue') : y.who = x.who
  BY <1>1, <1>3, <1>4 DEF h
<1>8. \A b \in Buffers : queue'[b] # <<>> => content[b] # <<>>
  BY DEF Core, WaitersHaveAReason
<1> QED
  BY <1>4, <1>6, <1>7, <1>8, NothingMoves

LEMMA InputBufferKeeps ==
    ASSUME NetInv, InputBuffer
    PROVE  NetInv'
<1> DEFINE p    == Current.who
           m    == p[1]
           from == at[p]
           n    == NodeOf[from]
           to   == Route[n][Dst[m]].buffer
           L    == Latency(p, SwitchBandwidth[n])
<1>0. /\ Core /\ LanesOK /\ agenda # <<>> /\ Current.delay = 0 /\ Current.event = "input_buffer"
      /\ Runs("input_buffer")
  BY DEF NetInv, Runs, InputBuffer
<1>1. Current \in Frames(agenda, queue)
  BY <1>0, FrameRuns DEF Core, Current
<1>2. /\ p \in Packets /\ m \in Messages /\ Routed(m) /\ from \in InBuffers
      /\ from \in Way(m) /\ from \in Buffers /\ content[from] # <<>>
  BY <1>0, <1>1, PacketRuns
<1>3. LanesOK'
  BY <1>0 DEF InputBuffer, LanesOK
<1>4. \/ /\ n = Dst[m] /\ Stays /\ UNCHANGED queue
         /\ agenda' = Insert(Tail(agenda), Entry(p, "receive", 0))
      \/ WaitFor(from) /\ Stays
      \/ n # Dst[m] /\ HeadOf(from) = p /\ Forward(p, n)
  BY DEF InputBuffer
<1>5. CASE /\ n = Dst[m] /\ Stays /\ UNCHANGED queue
           /\ agenda' = Insert(Tail(agenda), Entry(p, "receive", 0))
  BY <1>0, <1>3, <1>5, ArrivalKeeps DEF NetInv
<1>6. CASE WaitFor(from) /\ Stays
  <2> HIDE DEF from
  <2> QED
    BY <1>0, <1>2, <1>3, <1>6, WaitKeeps DEF NetInv
<1>7. CASE n # Dst[m] /\ HeadOf(from) = p /\ Forward(p, n)
  <2>1. ~Home(from, m)
    BY <1>7 DEF Home
  <2>2. n \in Switches /\ to \in OutBuffers /\ to \in Way(m)
    BY <1>2, <2>1, InLeadsOut
  <2>3. to \in Buffers /\ to # from
    BY <1>2, <2>2, OnTheWay, TopologyAssumption
  <2>4. L \in 1 .. MaxDelay
    <3>1. SwitchBandwidth[n] \in Nat \ {0}
      BY <2>2, ConfigAssumption
    <3>2. L \in Nat \ {0} /\ L <= MaxDelay
      BY <1>2, <2>2, <3>1, LatencyFacts, MaxDelayFacts
    <3> QED
      BY <3>2, MaxDelayFacts
  <2>5. /\ read_busy[from] \in 0 .. MaxDelay /\ write_busy[to] \in 0 .. MaxDelay /\ 1 \in 0 .. MaxDelay
    <3>1. read_busy \in [Buffers -> 0 .. MaxDelay] /\ write_busy \in [Buffers -> 0 .. MaxDelay]
      BY <1>0 DEF Core, Typed
    <3>2. 1 \in 0 .. MaxDelay
      BY MaxDelayFacts
    <3> HIDE DEF from, to
    <3> QED
      BY <1>2, <2>3, <3>1, <3>2
  <2>6. \/ (RetryIn(1) \/ RetryIn(read_busy[from]) \/ RetryIn(write_busy[to])) /\ Stays
        \/ ~Fits(p, to) /\ WaitFor(to) /\ Stays
        \/ Fits(p, to) /\ Transfer(p, from, to, L, "output_buffer")
    BY <1>7 DEF Forward
  <2>7. to \in Way(p[1]) /\ from = at[p] /\ Routed(p[1]) /\ HeadOf(from) = p
    BY <1>2, <1>7, <2>2
  <2> HIDE DEF p, m, from, n, to, L
  <2>8. CASE (RetryIn(1) \/ RetryIn(read_busy[from]) \/ RetryIn(write_busy[to])) /\ Stays
    BY <1>0, <1>3, <2>5, <2>8, RetryKeeps DEF NetInv
  <2>9. CASE ~Fits(p, to) /\ WaitFor(to) /\ Stays
    BY <1>0, <1>2, <1>3, <2>7, <2>9, FullKeeps DEF NetInv
  <2>10. CASE Fits(p, to) /\ Transfer(p, from, to, L, "output_buffer")
    <3>1. p = Current.who
      BY DEF p
    <3>2. Core'
      BY <1>0, <2>2, <2>3, <2>4, <2>7, <2>10, <3>1, TransferKeeps
    <3> QED
      BY <1>3, <3>2 DEF NetInv
  <2> QED
    BY <2>6, <2>8, <2>9, <2>10
<1> QED
  BY <1>4, <1>5, <1>6, <1>7

\* A packet of a message arrives, and with the last one the message is complete.
LEMMA AssembleKeeps ==
    ASSUME Core, Runs("receive"), NEW p, NEW m, p = Current.who, m = p[1],
           received' = [received EXCEPT ![m] = @ \cup {p}],
           UNCHANGED <<queue, content, count, read_busy, write_busy, at, busy, in_flight>>,
           \/ agenda' = Tail(agenda)
           \/ Complete(p) /\ agenda' = Insert(Tail(agenda), Entry(m, "received", 0))
    PROVE  Core'
<1> DEFINE t == Tail(agenda)
           h == Current
           e == Entry(m, "received", 0)
<1>0. agenda # <<>> /\ h.event = "receive"
  BY DEF Runs
<1>1. /\ FramesOK(t, queue) /\ h \in Entries /\ h \in Frames(agenda, queue)
      /\ \A x \in Frames(t, queue) : x \in Frames(agenda, queue) /\ x.who # p
      /\ \A x \in Frames(agenda, queue) : x = h \/ x \in Frames(t, queue)
  BY <1>0, FrameRuns DEF Core, Current
<1>2. /\ p \in Packets /\ m \in Messages /\ m \in Flying /\ p \in PacketsOf(m)
      /\ p \notin received[m] /\ (Routed(m) => Home(at[p], m))
  BY <1>0, <1>1, PacketRuns
<1> HIDE DEF t, h
<1>3. \A x \in Frames(t, queue) : Placed(x)
  BY <1>1 DEF Core, AllPlaced
<1>4. /\ received \in [Messages -> SUBSET Packets]
      /\ \A k \in Messages : received[k] \subseteq PacketsOf(k)
      /\ in_flight \in Seq(Messages)
  BY DEF Core, Typed
<1>5. received'[m] = received[m] \cup {p} /\ \A k \in Messages : k # m => received'[k] = received[k]
  BY <1>2, <1>4
<1>6. Flying' = Flying
  BY DEF Flying
\* Nobody has a frame for the message yet.
<1>7. \A x \in Frames(t, queue) : x.who # m
  <2> SUFFICES ASSUME NEW x \in Frames(t, queue), x.who = m PROVE FALSE
    OBVIOUS
  <2>1. Placed(x)
    BY <1>3
  <2>2. m \notin Packets /\ received[m] # PacketsOf(m)
    BY <1>2, ConfigAssumption
  <2> QED
    BY <1>2, <2>1, <2>2 DEF Placed
<1>8. /\ FramesOK(agenda', queue')
      /\ \/ Frames(agenda', queue') = Frames(t, queue)
         \/ Complete(p) /\ Frames(agenda', queue') = Frames(t, queue) \cup {e}
  <2>1. CASE agenda' = t
    BY <1>1, <2>1
  <2>2. CASE Complete(p) /\ agenda' = Insert(t, e)
    <3>1. e \in Entries /\ e.delay <= MaxDelay /\ e.who = m
      BY <1>2, MaxDelayFacts DEF Entries, Entry, Events
    <3> HIDE DEF e
    <3>2. FramesOK(Insert(t, e), queue) /\ Frames(Insert(t, e), queue) = Frames(t, queue) \cup {e}
      BY <1>1, <1>7, <3>1, FrameInserted
    <3> QED
      BY <2>2, <3>2
  <2> QED
    BY <2>1, <2>2 DEF t
<1>9. AllPlaced'
  <2>1. ASSUME NEW x \in Frames(t, queue) PROVE Placed(x)'
    <3>1. Placed(x) /\ x.who # p /\ x.who # m
      BY <1>1, <1>3, <1>7
    <3>2. CASE x.event = "try" /\ x.who \in Messages \ Flying
      BY <1>6, <3>2 DEF Placed
    <3>3. CASE /\ x.event = "received" /\ x.who \in Flying
               /\ received[x.who] = PacketsOf(x.who)
      <4>1. x.who \in Messages
        BY <1>4, <3>3 DEF Flying, Range
      <4> QED
        BY <1>5, <1>6, <3>1, <3>3, <4>1 DEF Placed
    <3>4. CASE /\ x.who \in Packets /\ x.who[1] \in Flying /\ x.who \notin received[x.who[1]]
               /\ \/ x.event = "receive" /\ (Routed(x.who[1]) => Home(at[x.who], x.who[1]))
                  \/ x.event = "output_buffer" /\ Routed(x.who[1]) /\ at[x.who] \in OutBuffers
                  \/ x.event = "input_buffer" /\ Routed(x.who[1]) /\ at[x.who] \in InBuffers
      <4>1. x.who[1] \in Messages
        BY <3>4, PacketIsOf
      <4>2. x.who \notin received'[x.who[1]]
        BY <1>5, <3>1, <3>4, <4>1
      <4> QED
        BY <1>6, <3>4, <4>2 DEF Placed
    <3> QED
      BY <3>1, <3>2, <3>3, <3>4 DEF Placed
  <2>2. ASSUME Complete(p) PROVE Placed(e)'
    <3>1. received'[m] = PacketsOf(m)
      BY <1>5, <2>2 DEF Complete
    <3> QED
      BY <1>2, <1>6, <3>1 DEF Placed, Entry
  <2> QED
    BY <1>8, <2>1, <2>2 DEF AllPlaced
<1>10. Carried'
  <2>1. ASSUME NEW k \in Flying, NEW x \in PacketsOf(k)
        PROVE  /\ x \in received'[k] \/ \E y \in Frames(agenda', queue') : y.who = x
               /\ Routed(k) => at[x] \in Way(k)
               /\ Routed(k) /\ x \in received'[k] => Home(at[x], k)
    <3>1. k \in Messages
      BY <1>4 DEF Flying, Range
    <3>2. x \in Packets /\ x[1] = k
      BY <3>1, PacketFacts
    <3>3. /\ x \in received[k] \/ \E y \in Frames(agenda, queue) : y.who = x
          /\ Routed(k) => at[x] \in Way(k)
          /\ Routed(k) /\ x \in received[k] => Home(at[x], k)
      BY DEF Core, Carried
    <3>4. CASE x = p
      BY <1>2, <1>5, <3>2, <3>3, <3>4
    <3>5. CASE x # p
      <4>1. h.who # x
        BY <3>5 DEF h
      <4>2. x \in received'[k] <=> x \in received[k]
        BY <1>5, <3>1, <3>5
      <4>3. x \in received[k] \/ \E y \in Frames(t, queue) : y.who = x
        BY <1>1, <3>3, <4>1
      <4> QED
        BY <1>8, <3>3, <4>2, <4>3
    <3> QED
      BY <3>4, <3>5
  <2>2. \A k \in Messages : received'[k] # {} => k \in Flying
    BY <1>2, <1>5 DEF Core, Carried
  <2>3. Distinct(in_flight)
    BY DEF Core, Carried
  <2> QED
    BY <1>6, <2>1, <2>2, <2>3 DEF Carried
<1>11. Typed'
  <2>1. received' \in [Messages -> SUBSET Packets]
    BY <1>2, <1>4
  <2>2. \A k \in Messages : received'[k] \subseteq PacketsOf(k)
    BY <1>2, <1>4, <1>5
  <2> QED
    BY <2>1, <2>2 DEF Core, Typed
<1>12. Stored' /\ BuffersHold' /\ WaitersHaveAReason'
  BY DEF Core, Stored, Held, Flying, BuffersHold, WaitersHaveAReason
<1> QED
  BY <1>8, <1>9, <1>10, <1>11, <1>12 DEF Core

\* A complete message is taken off.
LEMMA TakeOffKeeps ==
    ASSUME Core, agenda # <<>>, NEW m \in Messages, m \in Flying,
           Current.who \in PacketsOf(m) \cup {m},
           \A x \in Frames(Tail(agenda), queue) : x.who \notin PacketsOf(m) \cup {m},
           Routed(m) => \A p \in PacketsOf(m) : Home(at[p], m),
           TakeOff(m, Tail(agenda))
    PROVE  Core'
<1> DEFINE t == Tail(agenda)
           h == Current
           b == at[<<m, 1>>]
           X == PacketsOf(m)
<1>1. /\ FramesOK(t, queue) /\ \A x \in Frames(t, queue) : x \in Frames(agenda, queue)
      /\ \A x \in Frames(agenda, queue) : x = h \/ x \in Frames(t, queue)
  BY FrameRuns DEF Core, Current
<1>2. /\ content \in [Buffers -> Seq(Packets)] /\ count \in [Buffers -> Int]
      /\ received \in [Messages -> SUBSET Packets]
      /\ \A k \in Messages : received[k] \subseteq PacketsOf(k)
      /\ in_flight \in Seq(Messages) /\ Distinct(in_flight)
  BY DEF Core, Typed, Carried
<1>3. \A c \in Buffers : Range(content[c]) = Held(c) /\ Distinct(content[c])
  BY DEF Core, Stored
<1>4. /\ X \subseteq Packets /\ <<m, 1>> \in X /\ \A p \in X : p[1] = m
      /\ \A p \in Packets : p[1] = m <=> p \in X
  BY PacketFacts, PacketIsOf
<1>5. /\ \/ FixLatency[m] > 0 /\ agenda' = t /\ UNCHANGED <<content, count, queue>>
         \/ /\ FixLatency[m] = 0
            /\ content' = [content EXCEPT ![b] = Without(@, m)]
            /\ count' = [count EXCEPT ![b] = @ - NumPackets(m) * SizeOf(m)]
            /\ agenda' = WakeUp(t, queue[b])
            /\ queue' = Woken(queue, b)
      /\ received' = [received EXCEPT ![m] = {}]
      /\ in_flight' = RemoveAt(in_flight, CHOOSE i \in DOMAIN in_flight : in_flight[i] = m)
      /\ UNCHANGED <<read_busy, write_busy, at, busy>>
  BY DEF TakeOff, Woken
<1>6. in_flight' \in Seq(Messages) /\ Flying' = Flying \ {m} /\ Distinct(in_flight')
  <2>1. m \in Range(in_flight)
    BY DEF Flying
  <2> QED
    BY <1>2, <1>5, <2>1, TakenOff DEF Flying
<1>7. received'[m] = {} /\ \A k \in Messages : k # m => received'[k] = received[k]
  BY <1>2, <1>5
<1>8. at' = at
  BY <1>5
<1> HIDE DEF t, h, X
\* The frames.
<1>9. ASSUME Routed(m) PROVE b \in Buffers /\ \A p \in X : at[p] = b
  <2>1. \A p \in X : at[p] \in Way(m) /\ Home(at[p], m)
    BY <1>9 DEF Core, Carried, X
  <2>2. b \in Way(m) /\ Home(b, m)
    BY <1>4, <2>1
  <2>3. b \in Buffers
    BY <2>2, WayLeadsOn
  <2> HIDE DEF b
  <2> QED
    BY <1>9, <2>1, <2>2, <2>3, HomeIsOne
<1>10. FixLatency[m] > 0 <=> ~Routed(m)
  BY ConfigAssumption DEF Routed
<1>11. /\ Routed(m) => /\ content' = [content EXCEPT ![b] = Without(@, m)]
                        /\ count' = [count EXCEPT ![b] = @ - NumPackets(m) * SizeOf(m)]
       /\ ~Routed(m) => content' = content /\ count' = count
  <2> HIDE DEF b
  <2>1. FixLatency[m] > 0 \/ FixLatency[m] = 0
    BY ConfigAssumption
  <2>2. Routed(m) <=> FixLatency[m] = 0
    BY DEF Routed
  <2> QED
    BY <1>5, <1>10, <2>1, <2>2
<1>12. ASSUME NEW c \in Buffers, ~ (Routed(m) /\ c = b)
       PROVE  content'[c] = content[c] /\ count'[c] = count[c]
  <2> HIDE DEF b
  <2>1. CASE Routed(m)
    BY <1>2, <1>11, <1>12, <2>1
  <2>2. CASE ~Routed(m)
    BY <1>11, <2>2
  <2> QED
    BY <2>1, <2>2
<1>13. FramesOK(agenda', queue') /\ Frames(agenda', queue') = Frames(t, queue)
  <2>1. CASE ~Routed(m)
    BY <1>1, <1>5, <1>10, <2>1
  <2>2. CASE Routed(m)
    <3>1. b \in Buffers /\ agenda' = WakeUp(t, queue[b]) /\ queue' = Woken(queue, b)
      BY <1>5, <1>9, <1>10, <2>2
    <3> HIDE DEF b
    <3> QED
      BY <1>1, <3>1, FramesWoken
  <2> QED
    BY <2>1, <2>2
\* The packets.
<1>14. ASSUME NEW c \in Buffers
       PROVE  Held(c)' = IF Routed(m) /\ c = b THEN Held(c) \ X ELSE Held(c)
  <2>1. Held(c)' = {p \in Packets : p[1] \in Flying \ {m} /\ Routed(p[1]) /\ at[p] = c}
    BY <1>6, <1>8 DEF Held
  <2>2. Held(c)' = Held(c) \ X
    BY <1>4, <2>1 DEF Held
  <2>3. ~ (Routed(m) /\ c = b) => Held(c) \cap X = {}
    BY <1>4, <1>9 DEF Held
  <2> QED
    BY <2>2, <2>3
<1>15. ASSUME NEW c \in Buffers
       PROVE  /\ content'[c] \in Seq(Packets) /\ Range(content'[c]) = Held(c)' /\ Distinct(content'[c])
  <2>0. content[c] \in Seq(Packets) /\ Range(content[c]) = Held(c) /\ Distinct(content[c])
    BY <1>2, <1>3
  <2>1. CASE Routed(m) /\ c = b
    <3>1. content'[c] = Without(content[c], m)
      BY <1>2, <1>5, <1>10, <2>1
    <3>2. /\ Without(content[c], m) \in Seq(Packets) /\ Distinct(Without(content[c], m))
          /\ Range(Without(content[c], m)) = Held(c) \ X
      BY <2>0, WithoutFacts DEF X
    <3>3. Held(c)' = Held(c) \ X
      BY <1>14, <2>1
    <3> QED
      BY <3>1, <3>2, <3>3
  <2>2. CASE ~ (Routed(m) /\ c = b)
    <3>1. content'[c] = content[c]
      BY <1>12, <2>2
    <3>2. Held(c)' = Held(c)
      BY <1>14, <2>2
    <3> QED
      BY <2>0, <3>1, <3>2
  <2> QED
    BY <2>1, <2>2
<1>16. Stored'
  BY <1>15 DEF Stored
<1>17. PICK size \in Nat : size = NumPackets(m) * SizeOf(m) /\ Load(X) = size
  <2>1. Load(X) = NumPackets(m) * SizeOf(m) /\ Load(X) \in Nat
    BY <1>4, LoadFacts DEF X
  <2> QED
    BY <2>1
<1>18. ASSUME NEW c \in Buffers
       PROVE  /\ count'[c] = Cardinality(Bytes(content'[c])) /\ count'[c] <= BufSize[c]
              /\ count'[c] \in Int
  <2>0. Held(c) \in SUBSET Packets
    BY DEF Held
  <2>1. Cardinality(Bytes(content'[c])) = Load(Held(c)')
    BY <1>15, BytesCounted DEF Load
  <2>2. Cardinality(Bytes(content[c])) = Load(Held(c))
    BY <1>2, <1>3, BytesCounted DEF Load
  <2>3. count[c] = Load(Held(c)) /\ count[c] <= BufSize[c] /\ count[c] \in Int /\ BufSize[c] \in Nat
    BY <1>2, <2>2, ConfigAssumption DEF Core, BuffersHold
  <2>4. CASE Routed(m) /\ c = b
    <3>1. count'[c] = count[c] - size
      BY <1>2, <1>5, <1>10, <1>17, <2>4
    <3>2. X \in SUBSET Held(c)
      BY <1>4, <1>9, <2>4 DEF Held
    <3>3. Load(Held(c) \ X) = Load(Held(c)) - size
      BY <1>17, <2>0, <3>2, LoadFacts
    <3>4. Load(Held(c)') = Load(Held(c)) - size
      BY <1>14, <2>4, <3>3
    <3>5. count'[c] = Cardinality(Bytes(content'[c]))
      BY <2>1, <2>3, <3>1, <3>4
    <3>6. count'[c] <= BufSize[c] /\ count'[c] \in Int
      BY <2>3, <3>1
    <3> QED
      BY <3>5, <3>6
  <2>5. CASE ~ (Routed(m) /\ c = b)
    <3>1. count'[c] = count[c]
      BY <1>12, <2>5
    <3>2. Held(c)' = Held(c)
      BY <1>14, <2>5
    <3> QED
      BY <2>1, <2>3, <3>1, <3>2
  <2> QED
    BY <2>4, <2>5
<1>19. BuffersHold'
  BY <1>18 DEF BuffersHold
<1>20. AllPlaced'
  <2>1. ASSUME NEW x \in Frames(t, queue) PROVE Placed(x)'
    <3>1. Placed(x) /\ x.who \notin X /\ x.who # m
      BY <1>1 DEF Core, AllPlaced, t, X
    <3>2. CASE x.event = "try" /\ x.who \in Messages \ Flying
      BY <1>6, <3>2 DEF Placed
    <3>3. CASE /\ x.event = "received" /\ x.who \in Flying
               /\ received[x.who] = PacketsOf(x.who)
      <4>1. x.who \in Messages
        BY <1>2, <3>3 DEF Flying, Range
      <4> QED
        BY <1>6, <1>7, <3>1, <3>3, <4>1 DEF Placed
    <3>4. CASE /\ x.who \in Packets /\ x.who[1] \in Flying /\ x.who \notin received[x.who[1]]
               /\ \/ x.event = "receive" /\ (Routed(x.who[1]) => Home(at[x.who], x.who[1]))
                  \/ x.event = "output_buffer" /\ Routed(x.who[1]) /\ at[x.who] \in OutBuffers
                  \/ x.event = "input_buffer" /\ Routed(x.who[1]) /\ at[x.who] \in InBuffers
      <4>1. x.who[1] \in Messages /\ x.who[1] # m
        BY <1>4, <3>1, <3>4, PacketIsOf
      <4>2. x.who \notin received'[x.who[1]] /\ x.who[1] \in Flying'
        BY <1>6, <1>7, <3>4, <4>1
      <4> QED
        BY <1>8, <3>4, <4>2 DEF Placed
    <3> QED
      BY <3>1, <3>2, <3>3, <3>4 DEF Placed
  <2> QED
    BY <1>13, <2>1 DEF AllPlaced
<1>21. Carried'
  <2>1. ASSUME NEW k \in Flying', NEW x \in PacketsOf(k)
        PROVE  /\ x \in received'[k] \/ \E y \in Frames(agenda', queue') : y.who = x
               /\ Routed(k) => at'[x] \in Way(k)
               /\ Routed(k) /\ x \in received'[k] => Home(at'[x], k)
    <3>0. Flying \subseteq Messages
      BY <1>2 DEF Flying, Range
    <3>1. k \in Messages /\ k \in Flying /\ k # m
      BY <1>6, <3>0
    <3>2. x \in Packets /\ x[1] = k
      BY <3>1, PacketFacts
    <3>3. x \notin X /\ x # m
      BY <1>4, <3>1, <3>2, ConfigAssumption
    <3>4. /\ x \in received[k] \/ \E y \in Frames(agenda, queue) : y.who = x
          /\ Routed(k) => at[x] \in Way(k)
          /\ Routed(k) /\ x \in received[k] => Home(at[x], k)
      BY <3>1 DEF Core, Carried
    <3>5. h.who # x
      BY <3>3 DEF h, X
    <3>6. x \in received[k] \/ \E y \in Frames(t, queue) : y.who = x
      BY <1>1, <3>4, <3>5
    <3>7. received'[k] = received[k]
      BY <1>7, <3>1
    <3> QED
      BY <1>8, <1>13, <3>4, <3>6, <3>7
  <2>2. \A k \in Messages : received'[k] # {} => k \in Flying'
    BY <1>6, <1>7 DEF Core, Carried
  <2> QED
    BY <1>6, <2>1, <2>2 DEF Carried
<1>22. WaitersHaveAReason'
  <2>1. ASSUME NEW c \in Buffers, queue'[c] # <<>> PROVE content'[c] # <<>>
    <3>0. queue \in [Buffers -> Seq(Entries)]
      BY DEF Core, FramesOK
    <3>1. ~ (Routed(m) /\ c = b)
      BY <1>5, <1>10, <2>1, <3>0 DEF Woken
    <3>2. queue'[c] = queue[c]
      BY <1>5, <1>10, <3>0, <3>1 DEF Woken
    <3>3. content'[c] = content[c]
      BY <1>12, <3>1
    <3> QED
      BY <2>1, <3>2, <3>3 DEF Core, WaitersHaveAReason
  <2> QED
    BY <2>1 DEF WaitersHaveAReason
<1>23. Typed'
  <2>1. content' \in [Buffers -> Seq(Packets)]
    <3>1. content' = [c \in Buffers |-> content'[c]]
      BY <1>2, <1>5
    <3> QED
      BY <1>15, <3>1
  <2>2. count' \in [Buffers -> Int]
    <3>1. count' = [c \in Buffers |-> count'[c]]
      BY <1>2, <1>5
    <3> QED
      BY <1>18, <3>1
  <2>3. received' \in [Messages -> SUBSET Packets] /\ \A k \in Messages : received'[k] \subseteq PacketsOf(k)
    BY <1>2, <1>5, <1>7
  <2>4. /\ read_busy' \in [Buffers -> 0 .. MaxDelay] /\ write_busy' \in [Buffers -> 0 .. MaxDelay]
        /\ busy' \in [Packets -> 0 .. MaxDelay] /\ at' \in [Packets -> Buffers \cup {None}]
    BY <1>5 DEF Core, Typed
  <2> QED
    BY <1>6, <2>1, <2>2, <2>3, <2>4 DEF Typed
<1> QED
  BY <1>13, <1>16, <1>19, <1>20, <1>21, <1>22, <1>23 DEF Core

LEMMA ReceiveKeeps ==
    ASSUME NetInv, Receive
    PROVE  NetInv'
<1> DEFINE p == Current.who
           m == p[1]
           t == Tail(agenda)
<1>0. /\ Core /\ LanesOK /\ agenda # <<>> /\ Current.event = "receive" /\ Runs("receive")
  BY DEF NetInv, Runs, Receive
<1>1. /\ Current \in Frames(agenda, queue)
      /\ \A x \in Frames(t, queue) : x \in Frames(agenda, queue) /\ x.who # p
  BY <1>0, FrameRuns DEF Core, Current
<1>2. /\ p \in Packets /\ m \in Messages /\ m \in Flying /\ p \in PacketsOf(m)
      /\ p \notin received[m] /\ (Routed(m) => Home(at[p], m))
  BY <1>0, <1>1, PacketRuns
<1>3. LanesOK'
  BY <1>0 DEF Receive, LanesOK
<1>4. \/ /\ received' = [received EXCEPT ![m] = @ \cup {p}]
         /\ UNCHANGED <<queue, content, count, read_busy, write_busy, at, busy, in_flight>>
         /\ \/ agenda' = t
            \/ Complete(p) /\ agenda' = Insert(t, Entry(m, "received", 0))
      \/ Complete(p) /\ TakeOff(m, t)
  BY DEF Receive
<1>5. CASE /\ received' = [received EXCEPT ![m] = @ \cup {p}]
           /\ UNCHANGED <<queue, content, count, read_busy, write_busy, at, busy, in_flight>>
           /\ \/ agenda' = t
              \/ Complete(p) /\ agenda' = Insert(t, Entry(m, "received", 0))
  BY <1>0, <1>3, <1>5, AssembleKeeps DEF NetInv
<1>6. CASE Complete(p) /\ TakeOff(m, t)
  <2>1. \A x \in PacketsOf(m) : x = p \/ x \in received[m]
    BY <1>6 DEF Complete
  <2>2. Routed(m) => \A x \in PacketsOf(m) : Home(at[x], m)
    BY <1>0, <1>2, <2>1 DEF Core, Carried
  <2>3. ASSUME NEW x \in Frames(t, queue) PROVE x.who \notin PacketsOf(m) \cup {m}
    <3>1. Placed(x) /\ x.who # p
      BY <1>0, <1>1 DEF Core, AllPlaced
    <3>2. m \notin Packets /\ received[m] # PacketsOf(m)
      BY <1>2, ConfigAssumption
    <3>3. x.who # m
      BY <1>2, <3>1, <3>2 DEF Placed
    <3>4. ASSUME x.who \in PacketsOf(m) PROVE FALSE
      <4>1. x.who \in received[m] /\ x.who \in Packets /\ x.who[1] = m /\ x.who \notin Messages
        BY <1>2, <2>1, <3>1, <3>4, PacketFacts, ConfigAssumption
      <4>2. Flying \subseteq Messages
        BY <1>0 DEF Core, Typed, Flying, Range
      <4> QED
        BY <3>1, <4>1, <4>2 DEF Placed
    <3> QED
      BY <3>3, <3>4
  <2> HIDE DEF m
  <2>4. Core'
    BY <1>0, <1>2, <1>6, <2>2, <2>3, TakeOffKeeps
  <2> QED
    BY <1>3, <2>4 DEF NetInv
<1> QED
  BY <1>4, <1>5, <1>6

LEMMA UserReceivesKeeps ==
    ASSUME NetInv, UserReceives
    PROVE  NetInv'
<1> DEFINE m == Current.who
           t == Tail(agenda)
<1>0. /\ Core /\ LanesOK /\ agenda # <<>> /\ Current.event = "received" /\ TakeOff(m, t)
  BY DEF NetInv, Runs, UserReceives
<1>1. /\ Current \in Frames(agenda, queue)
      /\ \A x \in Frames(t, queue) : x \in Frames(agenda, queue) /\ x.who # m
  BY <1>0, FrameRuns DEF Core, Current
<1>2. LanesOK'
  BY <1>0 DEF UserReceives, LanesOK
<1>3. Flying \subseteq Messages
  BY <1>0 DEF Core, Typed, Flying, Range
<1>4. m \in Flying /\ m \in Messages /\ received[m] = PacketsOf(m)
  <2>1. Placed(Current)
    BY <1>0, <1>1 DEF Core, AllPlaced
  <2> QED
    BY <1>0, <1>3, <2>1 DEF Placed
<1>5. Routed(m) => \A x \in PacketsOf(m) : Home(at[x], m)
  BY <1>0, <1>4 DEF Core, Carried
<1>6. ASSUME NEW x \in Frames(t, queue) PROVE x.who \notin PacketsOf(m) \cup {m}
  <2>1. Placed(x) /\ x.who # m
    BY <1>0, <1>1 DEF Core, AllPlaced
  <2>2. ASSUME x.who \in PacketsOf(m) PROVE FALSE
    <3>1. x.who \in received[m] /\ x.who \in Packets /\ x.who[1] = m /\ x.who \notin Messages
      BY <1>4, <2>2, PacketFacts, ConfigAssumption
    <3> QED
      BY <1>3, <2>1, <3>1 DEF Placed
  <2> QED
    BY <2>1, <2>2
<1>7. Core'
  <2>1. Current.who \in PacketsOf(m) \cup {m}
    OBVIOUS
  <2> HIDE DEF m
  <2> QED
    BY <1>0, <1>4, <1>5, <1>6, <2>1, TakeOffKeeps
<1> QED
  BY <1>2, <1>7 DEF NetInv

\* A message is sent: its packets enter the first buffer together, or go round the
\* buffers of a network of fixed latency.
LEMMA SendKeeps ==
    ASSUME Core, Runs("try"), NEW m, m = Current.who, MessageFits(m, FirstBuffer(m)), Send(m)
    PROVE  Core'
<1> DEFINE t     == Tail(agenda)
           h     == Current
           X     == PacketsOf(m)
           b     == FirstBuffer(m)
           delay == IF FixLatency[m] > 0 THEN FixLatency[m] ELSE 1
           event == IF FixLatency[m] > 0 THEN "receive" ELSE "output_buffer"
           fs    == [i \in DOMAIN InPackets(m) |-> Entry(InPackets(m)[i], event, delay)]
<1>0. agenda # <<>> /\ h.event = "try"
  BY DEF Runs
<1>1. /\ FramesOK(t, queue) /\ h \in Frames(agenda, queue)
      /\ \A x \in Frames(t, queue) : x \in Frames(agenda, queue) /\ x.who # m
      /\ \A x \in Frames(agenda, queue) : x = h \/ x \in Frames(t, queue)
  BY <1>0, FrameRuns DEF Core, Current
<1>2. /\ content \in [Buffers -> Seq(Packets)] /\ count \in [Buffers -> Int]
      /\ write_busy \in [Buffers -> 0 .. MaxDelay]
      /\ busy \in [Packets -> 0 .. MaxDelay] /\ at \in [Packets -> Buffers \cup {None}]
      /\ received \in [Messages -> SUBSET Packets]
      /\ \A k \in Messages : received[k] \subseteq PacketsOf(k)
      /\ in_flight \in Seq(Messages) /\ Distinct(in_flight)
  BY DEF Core, Typed, Carried
<1>3. Flying \subseteq Messages
  BY <1>2 DEF Flying, Range
<1>4. m \in Messages /\ m \notin Flying
  <2>1. Placed(h)
    BY <1>1 DEF Core, AllPlaced
  <2> QED
    BY <1>0, <2>1 DEF Placed
<1>5. received[m] = {}
  BY <1>4 DEF Core, Carried
<1>6. b \in Buffers /\ (Routed(m) => b \in OutBuffers /\ b \in Way(m))
  BY <1>4, WayLeadsOn, TopologyAssumption
<1>7. /\ X \subseteq Packets /\ \A p \in X : p[1] = m
      /\ \A p \in Packets : p[1] = m <=> p \in X
  BY <1>4, PacketFacts, PacketIsOf
<1>8. /\ agenda' = Scheduled(t, delay, fs)
      /\ in_flight' = Append(in_flight, m)
      /\ \/ FixLatency[m] > 0 /\ UNCHANGED <<content, count, write_busy, at, busy>>
         \/ /\ ~ (FixLatency[m] > 0)
            /\ content' = [content EXCEPT ![b] = content[b] \o InPackets(m)]
            /\ count' = [count EXCEPT ![b] = @ + NumPackets(m) * SizeOf(m)]
            /\ write_busy' = [write_busy EXCEPT ![b] = 1]
            /\ at' = [p \in Packets |-> IF p[1] = m THEN b ELSE at[p]]
            /\ busy' = [p \in Packets |-> IF p[1] = m THEN 1 ELSE busy[p]]
      /\ UNCHANGED <<queue, read_busy, received>>
  BY DEF Send, InPackets, FirstBuffer, Inserted
<1>9. FixLatency[m] \in Nat /\ (FixLatency[m] > 0 <=> ~Routed(m))
  BY <1>4, ConfigAssumption DEF Routed
<1>10. delay \in 0 .. MaxDelay /\ delay \in Nat
  BY <1>4, <1>9, MaxDelayFacts
<1>11. /\ event \in Events
       /\ Routed(m) => event = "output_buffer"
       /\ ~Routed(m) => event = "receive"
  BY <1>9 DEF Events
<1> HIDE DEF t, h, X, b, delay, event
<1>12. /\ InPackets(m) \in Seq(Packets) /\ Range(InPackets(m)) = X /\ Distinct(InPackets(m))
       /\ DOMAIN InPackets(m) = 1 .. NumPackets(m) /\ NumPackets(m) \in Nat
       /\ \A i \in DOMAIN InPackets(m) : InPackets(m)[i] \in Packets
  <2>1. /\ InPackets(m) \in Seq(Packets) /\ Range(InPackets(m)) = X /\ Distinct(InPackets(m))
        /\ DOMAIN InPackets(m) = 1 .. NumPackets(m)
    BY <1>4, InPacketsFacts DEF X
  <2>2. NumPackets(m) \in Nat
    BY <1>4, PacketFacts
  <2>3. \A i \in DOMAIN InPackets(m) : InPackets(m)[i] \in Packets
    BY <1>7, <2>1 DEF Range
  <2> QED
    BY <2>1, <2>2, <2>3
\* The frames.
<1>13. /\ fs \in Seq(Entries) /\ OnceEach(fs) /\ \A x \in Range(fs) : x.delay = delay
       /\ \A x \in Range(fs) : x.who \in X /\ x.event = event
       /\ \A p \in X : \E x \in Range(fs) : x.who = p
  <2>1. DOMAIN fs = 1 .. NumPackets(m)
    BY <1>12
  <2>2. ASSUME NEW i \in DOMAIN fs
        PROVE  /\ fs[i].who = InPackets(m)[i] /\ fs[i].event = event /\ fs[i].delay = delay
               /\ fs[i] \in Entries /\ fs[i].who \in X
    <3>0. InPackets(m)[i] \in Packets /\ InPackets(m)[i] \in X
      BY <1>12, <2>1 DEF Range
    <3>1. fs[i] = Entry(InPackets(m)[i], event, delay)
      BY <1>12, <2>1
    <3> HIDE DEF fs
    <3> QED
      BY <1>10, <1>11, <3>0, <3>1 DEF Entry, Entries
  <2>3. fs = [i \in 1 .. NumPackets(m) |-> fs[i]]
    BY <1>12
  <2> HIDE DEF fs
  <2>4. fs \in Seq(Entries)
    BY <1>12, <2>1, <2>2, <2>3
  <2>5. OnceEach(fs)
    BY <1>12, <2>1, <2>2 DEF OnceEach, Distinct
  <2>6. \A p \in X : \E x \in Range(fs) : x.who = p
    BY <1>12, <2>1, <2>2 DEF Range
  <2>7. \A x \in Range(fs) : x.delay = delay /\ x.who \in X /\ x.event = event
    BY <2>2 DEF Range
  <2> QED
    BY <2>4, <2>5, <2>6, <2>7
<1> HIDE DEF fs
<1>14. \A x \in Frames(t, queue) : Placed(x) /\ x.who \notin X
  <2> SUFFICES ASSUME NEW x \in Frames(t, queue) PROVE Placed(x) /\ x.who \notin X
    OBVIOUS
  <2>1. Placed(x)
    BY <1>1 DEF Core, AllPlaced
  <2>2. ASSUME x.who \in X PROVE FALSE
    <3>1. x.who \in Packets /\ x.who[1] = m /\ x.who \notin Messages
      BY <1>7, <2>2, ConfigAssumption
    <3> QED
      BY <1>3, <1>4, <2>1, <3>1 DEF Placed
  <2> QED
    BY <2>1, <2>2
<1>15. FramesOK(agenda', queue') /\ Frames(agenda', queue') = Frames(t, queue) \cup Range(fs)
  <2>1. \A e \in Frames(t, queue), x \in Range(fs) : e.who # x.who
    BY <1>13, <1>14
  <2> QED
    BY <1>1, <1>8, <1>10, <1>13, <2>1, FramesScheduled
\* The packets.
<1>16. in_flight' \in Seq(Messages) /\ Flying' = Flying \cup {m} /\ Distinct(in_flight')
  <2>1. m \notin Range(in_flight)
    BY <1>4 DEF Flying
  <2> QED
    BY <1>2, <1>4, <1>8, <2>1, Appended DEF Flying
<1>17. \A p \in Packets : /\ p \notin X => at'[p] = at[p]
                          /\ p \in X /\ Routed(m) => at'[p] = b
  BY <1>7, <1>8, <1>9
<1>18. /\ Routed(m) => /\ content' = [content EXCEPT ![b] = content[b] \o InPackets(m)]
                       /\ count' = [count EXCEPT ![b] = @ + NumPackets(m) * SizeOf(m)]
       /\ ~Routed(m) => content' = content /\ count' = count
  BY <1>8, <1>9
<1>19. ASSUME NEW c \in Buffers
       PROVE  /\ X \cap Held(c) = {}
              /\ Held(c)' = IF Routed(m) /\ c = b THEN Held(c) \cup X ELSE Held(c)
  <2>1. X \cap Held(c) = {}
    BY <1>4, <1>7 DEF Held
  <2>2. Held(c)' = {p \in Packets : p[1] \in Flying \cup {m} /\ Routed(p[1]) /\ at'[p] = c}
    BY <1>16 DEF Held
  <2> QED
    BY <1>4, <1>7, <1>17, <2>1, <2>2 DEF Held
<1>20. ASSUME NEW c \in Buffers, ~ (Routed(m) /\ c = b)
       PROVE  content'[c] = content[c] /\ count'[c] = count[c]
  BY <1>2, <1>18, <1>20
<1>21. ASSUME NEW c \in Buffers
       PROVE  /\ content'[c] \in Seq(Packets) /\ Range(content'[c]) = Held(c)' /\ Distinct(content'[c])
  <2>0. content[c] \in Seq(Packets) /\ Range(content[c]) = Held(c) /\ Distinct(content[c])
    BY <1>2 DEF Core, Stored
  <2>1. CASE Routed(m) /\ c = b
    <3>1. content'[c] = content[c] \o InPackets(m)
      BY <1>2, <1>18, <2>1
    <3>2. Range(content[c]) \cap Range(InPackets(m)) = {}
      BY <1>12, <1>19, <2>0
    <3>3. /\ content[c] \o InPackets(m) \in Seq(Packets) /\ Distinct(content[c] \o InPackets(m))
          /\ Range(content[c] \o InPackets(m)) = Range(content[c]) \cup Range(InPackets(m))
      BY <1>12, <2>0, <3>2, PutTogether
    <3>4. Held(c)' = Range(content[c]) \cup Range(InPackets(m))
      BY <1>12, <1>19, <2>0, <2>1
    <3> QED
      BY <3>1, <3>3, <3>4
  <2>2. CASE ~ (Routed(m) /\ c = b)
    <3>1. content'[c] = content[c]
      BY <1>20, <2>2
    <3>2. Held(c)' = Held(c)
      BY <1>19, <2>2
    <3> QED
      BY <2>0, <3>1, <3>2
  <2> QED
    BY <2>1, <2>2
<1>22. Stored'
  BY <1>21 DEF Stored
<1>23. PICK size \in Nat : size = NumPackets(m) * SizeOf(m) /\ Load(X) = size
  <2>1. Load(X) = NumPackets(m) * SizeOf(m) /\ Load(X) \in Nat
    BY <1>4, <1>7, LoadFacts DEF X
  <2> QED
    BY <2>1
<1>24. ASSUME NEW c \in Buffers
       PROVE  /\ count'[c] = Cardinality(Bytes(content'[c])) /\ count'[c] <= BufSize[c]
              /\ count'[c] \in Int
  <2>0. Held(c) \in SUBSET Packets
    BY DEF Held
  <2>1. Cardinality(Bytes(content'[c])) = Load(Held(c)')
    BY <1>21, BytesCounted DEF Load
  <2>2. Cardinality(Bytes(content[c])) = Load(Held(c))
    BY <1>2, BytesCounted DEF Load, Core, Stored
  <2>3. count[c] = Load(Held(c)) /\ count[c] <= BufSize[c] /\ count[c] \in Int
    BY <1>2, <2>2 DEF Core, BuffersHold
  <2>4. CASE Routed(m) /\ c = b
    <3>1. count'[c] = count[c] + size
      BY <1>2, <1>18, <1>23, <2>4
    <3>2. Load(Held(c) \cup X) = Load(Held(c)) + size
      BY <1>7, <1>19, <1>23, <2>0, LoadFacts
    <3>3. Load(Held(c)') = Load(Held(c)) + size
      BY <1>19, <2>4, <3>2
    <3>4. count'[c] = Cardinality(Bytes(content'[c])) /\ count'[c] \in Int
      BY <2>1, <2>3, <3>1, <3>3
    <3>5. count'[c] <= BufSize[c]
      BY <1>23, <2>4, <3>1 DEF MessageFits, b
    <3> QED
      BY <3>4, <3>5
  <2>5. CASE ~ (Routed(m) /\ c = b)
    <3>1. count'[c] = count[c]
      BY <1>20, <2>5
    <3>2. Held(c)' = Held(c)
      BY <1>19, <2>5
    <3> QED
      BY <2>1, <2>3, <3>1, <3>2
  <2> QED
    BY <2>4, <2>5
<1>25. BuffersHold'
  BY <1>24 DEF BuffersHold
<1>26. AllPlaced'
  <2>1. ASSUME NEW x \in Frames(t, queue) PROVE Placed(x)'
    <3>1. Placed(x) /\ x.who \notin X /\ x.who # m
      BY <1>1, <1>14
    <3>2. received' = received
      BY <1>8
    <3> QED
      BY <1>16, <1>17, <3>1, <3>2 DEF Placed
  <2>2. ASSUME NEW x \in Range(fs) PROVE Placed(x)'
    <3>1. x.who \in X /\ x.who \in Packets /\ x.who[1] = m /\ x.event = event
      BY <1>7, <1>13
    <3>2. m \in Flying' /\ x.who \notin received'[m]
      BY <1>5, <1>8, <1>16
    <3>3. CASE Routed(m)
      BY <1>6, <1>11, <1>17, <3>1, <3>2, <3>3 DEF Placed
    <3>4. CASE ~Routed(m)
      BY <1>11, <3>1, <3>2, <3>4 DEF Placed
    <3> QED
      BY <3>3, <3>4
  <2> QED
    BY <1>15, <2>1, <2>2 DEF AllPlaced
<1>27. Carried'
  <2>1. ASSUME NEW k \in Flying', NEW x \in PacketsOf(k)
        PROVE  /\ x \in received'[k] \/ \E y \in Frames(agenda', queue') : y.who = x
               /\ Routed(k) => at'[x] \in Way(k)
               /\ Routed(k) /\ x \in received'[k] => Home(at'[x], k)
    <3>1. k \in Messages /\ (k = m \/ k \in Flying)
      BY <1>3, <1>4, <1>16
    <3>2. x \in Packets /\ x[1] = k /\ received' = received
      BY <1>8, <3>1, PacketFacts
    <3>3. CASE k = m
      BY <1>5, <1>6, <1>13, <1>15, <1>17, <3>2, <3>3 DEF X
    <3>4. CASE k # m
      <4>1. k \in Flying /\ x \notin X /\ x # m
        BY <1>4, <1>7, <3>1, <3>2, <3>4, ConfigAssumption
      <4>2. /\ x \in received[k] \/ \E y \in Frames(agenda, queue) : y.who = x
            /\ Routed(k) => at[x] \in Way(k)
            /\ Routed(k) /\ x \in received[k] => Home(at[x], k)
        BY <4>1 DEF Core, Carried
      <4>3. h.who # x
        BY <4>1 DEF h
      <4>4. x \in received[k] \/ \E y \in Frames(t, queue) : y.who = x
        BY <1>1, <4>2, <4>3
      <4> QED
        BY <1>15, <1>17, <3>2, <4>1, <4>2, <4>4
    <3> QED
      BY <3>3, <3>4
  <2>2. \A k \in Messages : received'[k] # {} => k \in Flying'
    BY <1>8, <1>16 DEF Core, Carried
  <2> QED
    BY <1>16, <2>1, <2>2 DEF Carried
<1>28. WaitersHaveAReason'
  <2>1. ASSUME NEW c \in Buffers, queue'[c] # <<>> PROVE content'[c] # <<>>
    <3>1. content[c] # <<>> /\ content[c] \in Seq(Packets)
      BY <1>2, <1>8, <2>1 DEF Core, WaitersHaveAReason
    <3>2. Range(content[c]) # {}
      <4>1. 1 \in DOMAIN content[c]
        BY <3>1
      <4> QED
        BY <4>1 DEF Range
    <3>3. Range(content[c]) \subseteq Range(content'[c])
      BY <1>19, <1>21 DEF Core, Stored
    <3> QED
      BY <3>2, <3>3 DEF Range
  <2> QED
    BY <2>1 DEF WaitersHaveAReason
<1>29. Typed'
  <2>1. content' \in [Buffers -> Seq(Packets)]
    <3>1. content' = [c \in Buffers |-> content'[c]]
      BY <1>2, <1>18
    <3> QED
      BY <1>21, <3>1
  <2>2. count' \in [Buffers -> Int]
    <3>1. count' = [c \in Buffers |-> count'[c]]
      BY <1>2, <1>18
    <3> QED
      BY <1>24, <3>1
  <2>3. 1 \in 0 .. MaxDelay
    BY MaxDelayFacts
  <2>4. write_busy' \in [Buffers -> 0 .. MaxDelay] /\ busy' \in [Packets -> 0 .. MaxDelay]
    <3>1. write_busy' \in [Buffers -> 0 .. MaxDelay]
      <4>1. write_busy' = write_busy \/ write_busy' = [write_busy EXCEPT ![b] = 1]
        BY <1>8
      <4> QED
        BY <1>2, <2>3, <4>1
    <3>2. busy' \in [Packets -> 0 .. MaxDelay]
      <4>1. busy' = busy \/ busy' = [p \in Packets |-> IF p[1] = m THEN 1 ELSE busy[p]]
        BY <1>8
      <4> QED
        BY <1>2, <2>3, <4>1
    <3> QED
      BY <3>1, <3>2
  <2>5. at' \in [Packets -> Buffers \cup {None}]
    BY <1>2, <1>6, <1>8
  <2> QED
    BY <1>8, <1>16, <2>1, <2>2, <2>4, <2>5 DEF Core, Typed
<1> QED
  BY <1>15, <1>22, <1>25, <1>26, <1>27, <1>28, <1>29 DEF Core

LEMMA TrySendKeeps ==
    ASSUME NetInv, TrySend
    PROVE  NetInv'
<1> DEFINE m == Current.who
           b == FirstBuffer(m)
<1>0. /\ Core /\ LanesOK /\ agenda # <<>> /\ Current.delay = 0 /\ Current.event = "try"
      /\ Runs("try")
  BY DEF NetInv, Runs, TrySend
<1>1. LanesOK'
  BY <1>0 DEF TrySend, LanesOK
<1>2. \/ RetryIn(write_busy[b]) /\ Stays
      \/ ~MessageFits(m, b) /\ WaitFor(b) /\ Stays
      \/ MessageFits(m, b) /\ Send(m)
  BY DEF TrySend, FirstBuffer
<1>3. m \in Messages
  <2>1. Current \in Frames(agenda, queue)
    BY <1>0, FrameRuns DEF Core, Current
  <2>2. Placed(Current)
    BY <1>0, <2>1 DEF Core, AllPlaced
  <2> QED
    BY <1>0, <2>2 DEF Placed
<1>4. b \in Buffers
  BY <1>3, TopologyAssumption
<1>5. CASE RetryIn(write_busy[b]) /\ Stays
  <2>1. write_busy[b] \in 0 .. MaxDelay
    BY <1>0, <1>4 DEF Core, Typed
  <2> HIDE DEF b
  <2> QED
    BY <1>0, <1>1, <1>5, <2>1, RetryKeeps DEF NetInv
<1>6. CASE ~MessageFits(m, b) /\ WaitFor(b) /\ Stays
  <2>1. PICK size \in Nat : size = NumPackets(m) * SizeOf(m)
    <3>1. NumPackets(m) \in Nat /\ SizeOf(m) \in Nat
      BY <1>3, PacketFacts
    <3>2. \A x, y \in Nat : x * y \in Nat
      OBVIOUS
    <3> QED
      BY <3>1, <3>2
  <2>2. size <= BufSize[b] /\ BufSize[b] \in Nat
    BY <1>3, <1>4, <2>1, FitsAssumption, ConfigAssumption DEF FirstBuffer
  <2>3. count[b] \in Int
    BY <1>0, <1>4 DEF Core, Typed
  <2>4. count[b] + size > BufSize[b]
    BY <1>6, <2>1, <2>2, <2>3 DEF MessageFits
  <2> HIDE DEF b
  <2>5. content[b] # <<>>
    BY <1>0, <1>4, <2>2, <2>4, FullIsNotEmpty
  <2> QED
    BY <1>0, <1>1, <1>4, <1>6, <2>5, WaitKeeps DEF NetInv
<1>7. CASE MessageFits(m, b) /\ Send(m)
  BY <1>0, <1>1, <1>7, SendKeeps DEF NetInv
<1> QED
  BY <1>2, <1>5, <1>6, <1>7

LEMMA UserSendsKeeps ==
    ASSUME NetInv, NEW m \in Messages, UserSends(m)
    PROVE  NetInv'
<1> DEFINE e == Entry(m, "try", 0)
<1>0. Core /\ LanesOK
  BY DEF NetInv
<1>1. /\ ~Underway(m) /\ agenda' = Insert(agenda, e) /\ Stays
      /\ UNCHANGED <<queue, lane>>
  BY DEF UserSends
<1>2. LanesOK'
  BY <1>0, <1>1 DEF LanesOK
<1>3. FramesOK(agenda, queue) /\ in_flight \in Seq(Messages)
  BY <1>0 DEF Core, Typed
<1>4. \A x \in Frames(agenda, queue) : x.who # m
  BY <1>1 DEF Underway, Frames, Queued, Range
<1>5. m \notin Flying
  <2>1. DOMAIN in_flight = 1 .. Len(in_flight)
    BY <1>3
  <2> QED
    BY <1>1, <2>1 DEF Underway, Contains, Flying, Range
<1>6. e \in Entries /\ e.delay <= MaxDelay /\ e.who = m /\ e.event = "try"
  BY MaxDelayFacts DEF Entries, Entry, Events
<1> HIDE DEF e
<1>7. FramesOK(agenda', queue') /\ Frames(agenda', queue') = Frames(agenda, queue) \cup {e}
  BY <1>1, <1>3, <1>4, <1>6, FrameInserted
<1>8. Placed(e)
  BY <1>5, <1>6 DEF Placed
<1>9. \A x \in Frames(agenda', queue') : Placed(x)
  BY <1>0, <1>7, <1>8 DEF Core, AllPlaced
<1>10. \A x \in Frames(agenda, queue) : \E y \in Frames(agenda', queue') : y.who = x.who
  BY <1>7
<1>11. \A c \in Buffers : queue'[c] # <<>> => content[c] # <<>>
  BY <1>0, <1>1 DEF Core, WaitersHaveAReason
<1>12. Core'
  BY <1>0, <1>1, <1>7, <1>9, <1>10, <1>11, NothingMoves
<1> QED
  BY <1>2, <1>12 DEF NetInv

\* A cycle ends when all frames of the agenda are due later.
LEMMA TickKeeps ==
    ASSUME NetInv, Tick
    PROVE  NetInv'
<1> DEFINE n == Len(agenda)
           q == queue
<1>0. /\ Core /\ LanesOK /\ FramesOK(agenda, q) /\ Typed
      /\ agenda \in Seq(Entries) /\ Sorted(agenda) /\ OnceEach(agenda)
  BY DEF NetInv, Core, FramesOK
<1>1. /\ agenda # <<>> => agenda[1].delay > 0
      /\ agenda' = [i \in DOMAIN agenda |-> [agenda[i] EXCEPT !.delay = @ - 1]]
      /\ UNCHANGED <<queue, content, count, at, received, in_flight>>
  BY <1>0 DEF Tick, Current
<1>2. DOMAIN agenda = 1 .. n /\ n \in Nat /\ \A i \in 1 .. n : agenda[i] \in Entries
  BY <1>0
<1> HIDE DEF n
<1>3. MaxDelay \in Nat
  BY MaxDelayFacts
<1>4. ASSUME NEW i \in 1 .. n
      PROVE  /\ agenda'[i].who = agenda[i].who /\ agenda'[i].event = agenda[i].event
             /\ agenda'[i].delay = agenda[i].delay - 1
             /\ agenda[i].delay \in Nat /\ agenda[i].delay > 0 /\ agenda[i].delay <= MaxDelay
             /\ agenda'[i] \in Entries
  <2>1. agenda'[i] = [agenda[i] EXCEPT !.delay = @ - 1]
    BY <1>1, <1>2
  <2>2. agenda[i] \in Entries /\ agenda[1] \in Entries /\ 1 \in DOMAIN agenda /\ 1 <= i
    BY <1>2
  <2>3. agenda[i].delay \in Nat /\ agenda[1].delay \in Nat
    BY <2>2 DEF Entries
  <2>4. agenda[1].delay > 0
    BY <1>1, <2>2
  <2>5. agenda[1].delay <= agenda[i].delay
    BY <1>0, <1>2, <2>2 DEF Sorted
  <2>6. agenda[i].delay > 0
    BY <2>3, <2>4, <2>5
  <2>7. agenda[i].delay <= MaxDelay
    <3>1. agenda[i] \in Range(agenda)
      BY <1>2 DEF Range
    <3> QED
      BY <1>0, <3>1 DEF FramesOK
  <2>8. agenda[i].delay - 1 \in Nat
    BY <2>3, <2>6
  <2>9. /\ agenda'[i].who = agenda[i].who /\ agenda'[i].event = agenda[i].event
        /\ agenda'[i].delay = agenda[i].delay - 1
        /\ agenda'[i] \in Entries
    BY <2>1, <2>2, <2>8 DEF Entries
  <2> QED
    BY <2>3, <2>6, <2>7, <2>9
<1>5. DOMAIN agenda' = 1 .. n /\ agenda' \in Seq(Entries)
  <2>1. agenda' = [i \in 1 .. n |-> agenda'[i]]
    BY <1>1, <1>2
  <2> QED
    BY <1>2, <1>4, <2>1
<1>6. Sorted(agenda') /\ OnceEach(agenda')
  <2>1. ASSUME NEW i \in 1 .. n, NEW j \in 1 .. n, i <= j
        PROVE  agenda'[i].delay <= agenda'[j].delay
    <3>1. agenda[i].delay <= agenda[j].delay
      BY <1>0, <1>2, <2>1 DEF Sorted
    <3> QED
      BY <1>4, <3>1
  <2> QED
    BY <1>0, <1>2, <1>4, <1>5, <2>1 DEF Sorted, OnceEach
<1>7. \A e \in Range(agenda') : \E x \in Range(agenda) : e.who = x.who /\ e.event = x.event
  BY <1>2, <1>4, <1>5 DEF Range
<1>8. \A x \in Range(agenda) : \E e \in Range(agenda') : e.who = x.who
  BY <1>2, <1>4, <1>5 DEF Range
<1>9. \A e \in Range(agenda') : e.delay <= MaxDelay
  <2>1. ASSUME NEW i \in 1 .. n PROVE agenda'[i].delay <= MaxDelay
    BY <1>3, <1>4
  <2> QED
    BY <1>5, <2>1 DEF Range
<1>10. FramesOK(agenda', queue)
  <2>1. \A e \in Range(agenda'), x \in Queued(queue) : e.who # x.who
    BY <1>0, <1>7 DEF FramesOK
  <2> QED
    BY <1>0, <1>5, <1>6, <1>9, <2>1 DEF FramesOK
<1>11. AllPlaced'
  <2>1. ASSUME NEW e, NEW x, Placed(x), e.who = x.who, e.event = x.event PROVE Placed(e)'
    BY <1>1, <2>1 DEF Placed, Flying
  <2>2. \A e \in Frames(agenda', queue') : \E x \in Frames(agenda, queue) : e.who = x.who /\ e.event = x.event
    BY <1>1, <1>7 DEF Frames
  <2> QED
    BY <1>0, <2>1, <2>2 DEF Core, AllPlaced
<1>12. Carried'
  <2>1. \A x \in Frames(agenda, queue) : \E e \in Frames(agenda', queue') : e.who = x.who
    BY <1>1, <1>8 DEF Frames
  <2>2. Flying' = Flying
    BY <1>1 DEF Flying
  <2>3. Distinct(in_flight)' /\ (\A k \in Messages : received'[k] # {} => k \in Flying)
    BY <1>0, <1>1 DEF Core, Carried
  <2>4. received' = received /\ at' = at
    BY <1>1
  <2>5. ASSUME NEW k \in Flying, NEW p \in PacketsOf(k)
        PROVE  /\ p \in received[k] \/ \E e \in Frames(agenda', queue') : e.who = p
               /\ Routed(k) => at[p] \in Way(k)
               /\ Routed(k) /\ p \in received[k] => Home(at[p], k)
    <3>1. /\ p \in received[k] \/ \E e \in Frames(agenda, queue) : e.who = p
          /\ Routed(k) => at[p] \in Way(k)
          /\ Routed(k) /\ p \in received[k] => Home(at[p], k)
      BY <1>0, <2>5 DEF Core, Carried
    <3> QED
      BY <2>1, <3>1
  <2> QED
    BY <2>2, <2>3, <2>4, <2>5 DEF Carried
<1>13. Stored' /\ BuffersHold' /\ WaitersHaveAReason'
  BY <1>0, <1>1 DEF Core, Stored, Held, Flying, BuffersHold, WaitersHaveAReason
<1>14. \A k \in 0 .. MaxDelay : Less(k) \in 0 .. MaxDelay
  BY <1>3 DEF Less
<1>15. Typed'
  <2>1. /\ read_busy' = [b \in Buffers |-> Less(read_busy[b])]
        /\ write_busy' = [b \in Buffers |-> Less(write_busy[b])]
        /\ busy' = [p \in Packets |-> Less(busy[p])]
    BY DEF Tick
  <2>2. read_busy' \in [Buffers -> 0 .. MaxDelay] /\ write_busy' \in [Buffers -> 0 .. MaxDelay]
    BY <1>0, <1>14, <2>1 DEF Typed
  <2>3. busy' \in [Packets -> 0 .. MaxDelay]
    BY <1>0, <1>14, <2>1 DEF Typed
  <2> QED
    BY <1>0, <1>1, <2>2, <2>3 DEF Typed
<1>16. LanesOK'
  <2>1. lane' = [c \in Conns |-> [l \in Lanes(c) |->
                   OutOfDate([lane[c][l] EXCEPT !.busy = Less(@)])]]
    BY DEF Tick
  <2>2. ASSUME NEW c \in Conns, Kind[c] = "link"
        PROVE  /\ 1 \in DOMAIN lane'[c] /\ "busy" \in DOMAIN lane'[c][1]
               /\ lane'[c][1].busy \in 0 .. MaxDelay
    <3>1. 1 \in Lanes(c)
      BY ConfigAssumption DEF Lanes
    <3>2. lane'[c] = [l \in Lanes(c) |-> OutOfDate([lane[c][l] EXCEPT !.busy = Less(@)])]
      BY <2>1
    <3>3. 1 \in DOMAIN lane'[c] /\ lane'[c][1] = OutOfDate([lane[c][1] EXCEPT !.busy = Less(@)])
      BY <3>1, <3>2
    <3>4. "busy" \in DOMAIN lane[c][1] /\ lane[c][1].busy \in 0 .. MaxDelay
      BY <1>0, <2>2 DEF LanesOK
    <3>5. "busy" \in DOMAIN lane'[c][1] /\ lane'[c][1].busy = Less(lane[c][1].busy)
      BY <3>3, <3>4 DEF OutOfDate
    <3> QED
      BY <1>14, <3>3, <3>4, <3>5
  <2>3. DOMAIN lane' = Conns
    BY <2>1
  <2> QED
    BY <2>2, <2>3 DEF LanesOK
<1> QED
  BY <1>1, <1>10, <1>11, <1>12, <1>13, <1>15, <1>16 DEF NetInv, Core

\* At the start there is nothing.
LEMMA NothingAtFirst ==
    ASSUME Init
    PROVE  NetInv
<1>0. 0 \in 0 .. MaxDelay
  BY MaxDelayFacts
<1>1. /\ agenda = <<>> /\ in_flight = <<>>
      /\ queue = [b \in Buffers |-> <<>>]
      /\ content = [b \in Buffers |-> <<>>] /\ count = [b \in Buffers |-> 0]
  BY DEF Init
<1>2. Range(agenda) = {} /\ Queued(queue) = {} /\ Flying = {}
  BY <1>1 DEF Range, Queued, Flying
<1>3. FramesOK(agenda, queue)
  BY <1>1, <1>2 DEF FramesOK, Sorted, OnceEach
<1>4. Typed
  <2>1. content \in [Buffers -> Seq(Packets)] /\ count \in [Buffers -> Int] /\ in_flight \in Seq(Messages)
    BY <1>1
  <2> QED
    BY <1>0, <2>1 DEF Typed, Init
<1>5. AllPlaced
  BY <1>2 DEF AllPlaced, Frames
<1>6. Carried
  BY <1>1, <1>2 DEF Carried, Distinct, Init
<1>7. Stored
  BY <1>1, <1>2 DEF Stored, Held, Distinct, Range
<1>8. BuffersHold
  <2>1. ASSUME NEW b \in Buffers PROVE count[b] = Cardinality(Bytes(content[b])) /\ count[b] <= BufSize[b]
    <3>1. Bytes(content[b]) = {}
      BY <1>1 DEF Bytes
    <3>2. BufSize[b] \in Nat
      BY ConfigAssumption
    <3>3. Cardinality(Bytes(content[b])) = 0
      BY <3>1, FS_EmptySet
    <3>4. count[b] = 0
      BY <1>1
    <3> QED
      BY <3>2, <3>3, <3>4
  <2> QED
    BY <2>1 DEF BuffersHold
<1>9. WaitersHaveAReason
  BY <1>1 DEF WaitersHaveAReason
<1>10. LanesOK
  <2>1. ASSUME NEW c \in Conns PROVE 1 \in Lanes(c)
    BY ConfigAssumption DEF Lanes
  <2> QED
    BY <1>0, <2>1 DEF LanesOK, Init
<1> QED
  BY <1>3, <1>4, <1>5, <1>6, <1>7, <1>8, <1>9, <1>10 DEF NetInv, Core

LEMMA NetInvAlways == Spec => []NetInv
<1>1. Init => NetInv
  BY NothingAtFirst
<1>2. NetInv /\ [Next]_vars => NetInv'
  <2> SUFFICES ASSUME NetInv, [Next]_vars PROVE NetInv'
    OBVIOUS
  <2>1. CASE TrySend
    BY <2>1, TrySendKeeps
  <2>2. CASE OutputBuffer
    BY <2>2, OutputBufferKeeps
  <2>3. CASE InputBuffer
    BY <2>3, InputBufferKeeps
  <2>4. CASE Receive
    BY <2>4, ReceiveKeeps
  <2>5. CASE UserReceives
    BY <2>5, UserReceivesKeeps
  <2>6. CASE Tick
    BY <2>6, TickKeeps
  <2>7. ASSUME NEW m \in Messages, UserSends(m) PROVE NetInv'
    BY <2>7, UserSendsKeeps
  <2>8. CASE UNCHANGED vars
    BY <2>8 DEF vars, NetInv, Core, Typed, LanesOK, AllPlaced, Placed, Carried, Stored, Held, Flying,
                BuffersHold, WaitersHaveAReason
  <2> QED
    BY <2>1, <2>2, <2>3, <2>4, <2>5, <2>6, <2>7, <2>8 DEF Next, Handlers
<1> QED
  BY <1>1, <1>2, PTL DEF Spec

---------------------------------------------------------------------------
(* The results. *)

\* Buffer::count is the number of bytes in the buffer and never more than its size,
\* on every network of the assumptions and for any number of messages: InsertPacket
\* cannot throw "No enough space in buffer".
THEOREM BuffersAlwaysHold == Spec => []BuffersHold
<1>1. NetInv => BuffersHold
  BY DEF NetInv, Core
<1> QED
  BY <1>1, NetInvAlways, PTL

\* A frame is in one place: a packet in a buffer that has not arrived has its frame in
\* the agenda or in one queue, and one that has arrived has none.
LEMMA OneFrameOfEach ==
    ASSUME Core, NEW b \in Buffers, NEW i \in DOMAIN content[b], NEW p, p = content[b][i]
    PROVE  Cardinality({j \in DOMAIN agenda : agenda[j].who = p})
                + Cardinality({e \in Waiting : e.who = p})
              = IF p \in received[p[1]] THEN 0 ELSE 1
<1> DEFINE A == {j \in DOMAIN agenda : agenda[j].who = p}
           W == {e \in Waiting : e.who = p}
           m == p[1]
<1>1. Waiting = Queued(queue)
  BY DEF Waiting, Queued, Range
<1>2. FramesOK(agenda, queue)
  BY DEF Core
<1>3. p \in Packets /\ m \in Flying /\ m \in Messages /\ p \in PacketsOf(m)
  <2>1. p \in Held(b)
    BY DEF Core, Stored, Range
  <2> QED
    BY <2>1, PacketIsOf DEF Held
<1>4. /\ \A j \in A : agenda[j] \in Frames(agenda, queue)
      /\ \A e \in W : e \in Frames(agenda, queue)
  BY <1>1 DEF Frames, Range
<1>5. CASE p \in received[m]
  <2>1. ASSUME NEW e \in Frames(agenda, queue), e.who = p PROVE FALSE
    <3>1. Placed(e)
      BY DEF Core, AllPlaced
    <3>2. Flying \subseteq Messages
      BY DEF Core, Typed, Flying, Range
    <3>3. p \notin Messages
      BY <1>3, ConfigAssumption
    <3> QED
      BY <1>5, <2>1, <3>1, <3>2, <3>3 DEF Placed
  <2>2. A = {} /\ W = {}
    BY <1>4, <2>1
  <2>3. Cardinality(A) = 0 /\ Cardinality(W) = 0
    BY <2>2, FS_EmptySet
  <2> QED
    BY <1>5, <2>3
<1>6. CASE p \notin received[m]
  <2>1. PICK e \in Frames(agenda, queue) : e.who = p
    BY <1>3, <1>6 DEF Core, Carried
  <2>2. \A x \in Range(agenda), y \in Queued(queue) : x.who # y.who
    BY <1>2 DEF FramesOK
  <2>3. CASE e \in Range(agenda)
    <3>1. PICK j \in DOMAIN agenda : agenda[j] = e
      BY <2>3 DEF Range
    <3>2. A = {j}
      BY <1>2, <2>1, <3>1 DEF FramesOK, OnceEach
    <3>3. W = {}
      BY <1>1, <2>1, <2>2, <2>3
    <3>4. Cardinality(A) = 1 /\ Cardinality(W) = 0
      BY <3>2, <3>3, FS_EmptySet, FS_Singleton
    <3> QED
      BY <1>6, <3>4
  <2>4. CASE e \in Queued(queue)
    <3>1. A = {}
      BY <2>1, <2>2, <2>4 DEF Range
    <3>2. ASSUME NEW y \in Queued(queue), y.who = p PROVE y = e
      <4>1. PICK c \in Buffers : e \in Range(queue[c])
        BY <2>4 DEF Queued
      <4>2. PICK d \in Buffers : y \in Range(queue[d])
        BY DEF Queued
      <4>3. PICK j \in DOMAIN queue[c] : queue[c][j] = e
        BY <4>1 DEF Range
      <4>4. PICK k \in DOMAIN queue[d] : queue[d][k] = y
        BY <4>2 DEF Range
      <4>5. c = d /\ j = k
        BY <1>2, <2>1, <3>2, <4>3, <4>4 DEF FramesOK
      <4> QED
        BY <4>3, <4>4, <4>5
    <3>3. W = {e}
      BY <1>1, <2>1, <2>4, <3>2
    <3>4. Cardinality(A) = 0 /\ Cardinality(W) = 1
      BY <3>1, <3>3, FS_EmptySet, FS_Singleton
    <3> QED
      BY <1>6, <3>4
  <2> QED
    BY <2>1, <2>3, <2>4 DEF Frames
<1> QED
  BY <1>5, <1>6

\* No frame is lost or doubled, however packets are retried, suspended, woken and
\* assembled: a packet under way has one event, in the engine or in the queue of one
\* buffer, one that has arrived has none, and nobody waits in the queue of an empty
\* buffer, which nothing would wake.
THEOREM FramesStayInPlace == Spec => []FramesInPlace
<1>1. ASSUME NetInv PROVE TypeOK
  <2>1. Pending = Frames(agenda, queue)
    BY DEF Pending, Waiting, Frames, Queued, Range
  <2>2. FramesOK(agenda, queue) /\ Typed
    BY <1>1 DEF NetInv, Core
  <2>3. ASSUME NEW e \in Frames(agenda, queue)
        PROVE  e \in Entries /\ e.delay <= MaxDelay
    <3>1. CASE e \in Range(agenda)
      BY <2>2, <3>1 DEF FramesOK, Range
    <3>2. CASE e \in Queued(queue)
      <4>1. PICK b \in Buffers : e \in Range(queue[b])
        BY <3>2 DEF Queued
      <4>2. queue[b] \in Seq(Entries) /\ e.delay = 0
        BY <2>2, <3>2 DEF FramesOK
      <4> QED
        BY <4>1, <4>2, MaxDelayFacts DEF Range
    <3> QED
      BY <3>1, <3>2 DEF Frames
  <2>4. ASSUME NEW e \in Frames(agenda, queue)
        PROVE  /\ e.who \in Messages \cup Packets
               /\ e.event \in {"try", "output_buffer", "input_buffer", "receive", "received"}
               /\ e.delay \in 0 .. MaxDelay
    <3>1. e.delay \in Nat /\ e.who \in Messages \cup Packets /\ e.event \in Events
      BY <2>3 DEF Entries
    <3>2. e.delay \in 0 .. MaxDelay
      BY <2>3, <3>1, MaxDelayFacts
    <3> QED
      BY <3>1, <3>2 DEF Events
  <2>5. \A b \in Buffers : read_busy[b] \in 0 .. MaxDelay /\ write_busy[b] \in 0 .. MaxDelay
    BY <2>2 DEF Typed
  <2>6. /\ content \in [Buffers -> Seq(Packets)] /\ at \in [Packets -> Buffers \cup {None}]
        /\ \A m \in Messages : received[m] \subseteq PacketsOf(m)
        /\ in_flight \in Seq(Messages)
    BY <2>2 DEF Typed
  <2> QED
    BY <2>1, <2>4, <2>5, <2>6 DEF TypeOK
<1>2. ASSUME NetInv PROVE OneEventEach
  BY <1>2, OneFrameOfEach DEF OneEventEach, NetInv
<1>3. NetInv => FramesInPlace
  BY <1>1, <1>2 DEF FramesInPlace, NetInv, Core
<1> QED
  BY <1>3, NetInvAlways, PTL

\* Only the buffer a packet leaves gets shorter.
LEMMA OthersDoNotShrink ==
    ASSUME Core, NEW p \in Packets, NEW from, NEW to, NEW latency, NEW event,
           Transfer(p, from, to, latency, event), NEW b \in Buffers, b # from
    PROVE  Len(content'[b]) >= Len(content[b])
<1>1. content \in [Buffers -> Seq(Packets)]
  BY DEF Core, Typed
<1>2. content' = [content EXCEPT ![from] = Tail(@), ![to] = Append(@, p)]
  BY DEF Transfer
<1>3. content[b] \in Seq(Packets)
  BY <1>1
<1>4. content'[b] = content[b] \/ content'[b] = Append(content[b], p)
  BY <1>1, <1>2
<1>5. \A s \in Seq(Packets) : Len(s) >= Len(s) /\ Len(Append(s, p)) >= Len(s)
  OBVIOUS
<1> QED
  BY <1>3, <1>4, <1>5

\* A message is taken off from an input buffer at its end.
LEMMA TakenOffAtHome ==
    ASSUME Core, NEW m \in Messages, NEW ag, TakeOff(m, ag), NEW b \in OutBuffers,
           Routed(m) => \A p \in PacketsOf(m) : Home(at[p], m)
    PROVE  content'[b] = content[b]
<1> DEFINE from == at[<<m, 1>>]
<1>1. content' = content \/ (Routed(m) /\ content' = [content EXCEPT ![from] = Without(@, m)])
  BY DEF TakeOff, Routed
<1>2. Routed(m) => from \in InBuffers
  BY PacketFacts DEF Home
<1>3. b \in Buffers /\ b \notin InBuffers
  BY TopologyAssumption
<1>4. content \in [Buffers -> Seq(Packets)]
  BY DEF Core, Typed
<1> QED
  BY <1>1, <1>2, <1>3, <1>4

\* While a link is busy, a step makes none of its source buffers shorter.
LEMMA BusyLinkKeeps ==
    ASSUME NetInv, Next, NEW c \in Conns, Kind[c] = "link", lane[c][1].busy > 0,
           NEW i \in DOMAIN Sources[c]
    PROVE  Len(content'[Sources[c][i]]) >= Len(content[Sources[c][i]])
<1>1. PICK b : b = Sources[c][i]
  OBVIOUS
<1> SUFFICES Len(content'[b]) >= Len(content[b])
  BY <1>1
<1>2. b \in OutBuffers /\ b \in Buffers /\ b \notin InBuffers /\ ConnOf[b] = c
  <2>1. b \in OutBuffers
    BY <1>1 DEF OutBuffers, Range
  <2> QED
    BY <1>1, <2>1, TopologyAssumption
<1>3. Core /\ LanesOK /\ content \in [Buffers -> Seq(Packets)] /\ content[b] \in Seq(Packets)
  BY <1>2 DEF NetInv, Core, Typed
<1>4. \A s \in Seq(Packets) : Len(s) >= Len(s)
  OBVIOUS
<1>5. content'[b] = content[b] => Len(content'[b]) >= Len(content[b])
  BY <1>3, <1>4
<1>6. Stays => Len(content'[b]) >= Len(content[b])
  BY <1>5 DEF Stays
<1>7. ASSUME agenda # <<>>
      PROVE  Current \in Frames(agenda, queue)
  BY <1>3, <1>7, FrameRuns DEF Core, Current
<1>8. ~(lane[c][1].busy = 0)
  <2>1. lane[c][1].busy \in 0 .. MaxDelay
    BY <1>3 DEF LanesOK
  <2> QED
    BY <2>1
<1>9. CASE TrySend
  <2>1. Stays \/ Send(Current.who)
    BY <1>9 DEF TrySend
  <2>2. ASSUME NEW m, Send(m), m = Current.who
        PROVE  Len(content'[b]) >= Len(content[b])
    <3>1. content' = content \/ content' = [content EXCEPT ![FirstBuffer(m)] = content[FirstBuffer(m)] \o InPackets(m)]
      BY <2>2 DEF Send, Inserted, FirstBuffer, InPackets
    <3>2. m \in Messages
      <4>1. agenda # <<>> /\ Current.event = "try"
        BY <1>9 DEF TrySend, Runs
      <4>2. Placed(Current)
        BY <1>3, <1>7, <4>1 DEF Core, AllPlaced
      <4> QED
        BY <2>2, <4>1, <4>2 DEF Placed
    <3>3. InPackets(m) \in Seq(Packets)
      BY <3>2, InPacketsFacts
    <3>4. content'[b] = content[b] \/ content'[b] = content[b] \o InPackets(m)
      BY <1>2, <1>3, <3>1
    <3>5. \A s, t \in Seq(Packets) : Len(s \o t) >= Len(s)
      OBVIOUS
    <3> QED
      BY <1>3, <1>5, <3>3, <3>4, <3>5
  <2> QED
    BY <1>6, <2>1, <2>2
<1>10. CASE OutputBuffer
  <2>1. PICK p, d : p = Current.who /\ d = ConnOf[at[p]]
    OBVIOUS
  <2>2. agenda # <<>> /\ Current.event = "output_buffer"
    BY <1>10 DEF OutputBuffer, Runs
  <2>3. p \in Packets
    BY <1>3, <1>7, <2>1, <2>2, PacketRuns
  <2>4. \/ Kind[d] = "link" /\ LinkTransfer(p, d)
        \/ Kind[d] = "bus" /\ BusTransfer(p, d)
    BY <1>10, <2>1 DEF OutputBuffer
  <2>5. \/ Stays
        \/ /\ Kind[d] = "link" => lane[d][1].busy = 0
           /\ \E to, latency : Transfer(p, at[p], to, latency, "input_buffer")
    <3>1. CASE Kind[d] = "link" /\ LinkTransfer(p, d)
      BY <3>1 DEF LinkTransfer, LinkBusy
    <3>2. CASE Kind[d] = "bus" /\ BusTransfer(p, d)
      BY <3>2 DEF BusTransfer
    <3> QED
      BY <2>4, <3>1, <3>2
  <2>6. CASE /\ Kind[d] = "link" => lane[d][1].busy = 0
             /\ \E to, latency : Transfer(p, at[p], to, latency, "input_buffer")
    <3>1. at[p] # b
      BY <1>2, <1>8, <2>1, <2>6
    <3> QED
      BY <1>2, <1>3, <2>3, <2>6, <3>1, OthersDoNotShrink
  <2> QED
    BY <1>6, <2>5, <2>6
<1>11. CASE InputBuffer
  <2>1. PICK p : p = Current.who
    OBVIOUS
  <2>2. agenda # <<>> /\ Current.event = "input_buffer"
    BY <1>11 DEF InputBuffer, Runs
  <2>3. p \in Packets /\ at[p] \in InBuffers
    BY <1>3, <1>7, <2>1, <2>2, PacketRuns
  <2>4. Stays \/ Forward(p, NodeOf[at[p]])
    BY <1>11, <2>1 DEF InputBuffer
  <2>5. Stays \/ \E to, latency : Transfer(p, at[p], to, latency, "output_buffer")
    BY <2>4 DEF Forward
  <2>6. CASE \E to, latency : Transfer(p, at[p], to, latency, "output_buffer")
    <3>1. at[p] # b
      BY <1>2, <2>3
    <3> QED
      BY <1>2, <1>3, <2>3, <2>6, <3>1, OthersDoNotShrink
  <2> QED
    BY <1>6, <2>5, <2>6
<1>12. CASE Receive
  <2>1. PICK p, m : p = Current.who /\ m = p[1]
    OBVIOUS
  <2>2. agenda # <<>> /\ Current.event = "receive"
    BY <1>12 DEF Receive, Runs
  <2>3. /\ p \in Packets /\ m \in Messages /\ m \in Flying /\ p \in PacketsOf(m)
        /\ (Routed(m) => Home(at[p], m))
    BY <1>3, <1>7, <2>1, <2>2, PacketRuns
  <2>4. content' = content \/ (Complete(p) /\ TakeOff(m, Tail(agenda)))
    BY <1>12, <2>1 DEF Receive
  <2>5. CASE Complete(p) /\ TakeOff(m, Tail(agenda))
    <3>1. \A x \in PacketsOf(m) : x = p \/ x \in received[m]
      BY <2>1, <2>5 DEF Complete
    <3>2. Routed(m) => \A x \in PacketsOf(m) : Home(at[x], m)
      BY <1>3, <2>3, <3>1 DEF Core, Carried
    <3> QED
      BY <1>2, <1>3, <1>5, <2>3, <2>5, <3>2, TakenOffAtHome
  <2> QED
    BY <1>5, <2>4, <2>5
<1>13. CASE UserReceives
  <2>1. PICK m : m = Current.who
    OBVIOUS
  <2>2. agenda # <<>> /\ Current.event = "received" /\ TakeOff(m, Tail(agenda))
    BY <1>13, <2>1 DEF UserReceives, Runs
  <2>3. m \in Flying /\ m \in Messages /\ received[m] = PacketsOf(m)
    <3>1. Placed(Current)
      BY <1>3, <1>7, <2>2 DEF Core, AllPlaced
    <3>2. Flying \subseteq Messages
      BY <1>3 DEF Core, Typed, Flying, Range
    <3> QED
      BY <2>1, <2>2, <3>1, <3>2 DEF Placed
  <2>4. Routed(m) => \A x \in PacketsOf(m) : Home(at[x], m)
    BY <1>3, <2>3 DEF Core, Carried
  <2> QED
    BY <1>2, <1>3, <1>5, <2>2, <2>3, <2>4, TakenOffAtHome
<1>14. CASE Tick
  BY <1>5, <1>14 DEF Tick
<1>15. ASSUME NEW m \in Messages, UserSends(m)
       PROVE  Len(content'[b]) >= Len(content[b])
  BY <1>6, <1>15 DEF UserSends
<1> QED
  BY <1>9, <1>10, <1>11, <1>12, <1>13, <1>14, <1>15 DEF Next, Handlers

\* A link carries one packet at a time: until the cycle in its busy field is over no
\* packet leaves its source buffers, although a handler of the same cycle may have
\* been scheduled, suspended or woken in any order.
THEOREM BusyLinksAlwaysCarryNoMore == Spec => BusyLinksCarryNoMore
<1>1. ASSUME NetInv, [Next]_vars, NEW c \in Conns, Kind[c] = "link", lane[c][1].busy > 0,
             NEW i \in DOMAIN Sources[c], ~UNCHANGED vars
      PROVE  Len(content'[Sources[c][i]]) >= Len(content[Sources[c][i]])
  BY <1>1, BusyLinkKeeps
<1>2. NetInv /\ [Next]_vars =>
        [\A c \in Conns : Kind[c] = "link" /\ lane[c][1].busy > 0 =>
            \A i \in DOMAIN Sources[c] :
                Len(content'[Sources[c][i]]) >= Len(content[Sources[c][i]])]_vars
  BY <1>1
<1> QED
  BY <1>2, NetInvAlways, PTL DEF Spec, BusyLinksCarryNoMore
=============================================================================
