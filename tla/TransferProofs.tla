--------------------------- MODULE TransferProofs ---------------------------
(***************************************************************************)
(* The programs that pass counted things on, whatever the counts.          *)
(* tcpServer.c and its client never both wait to read with nothing under   *)
(* way; ReadN() and WriteN() of HSocket.c transfer the bytes in order,     *)
(* none lost and none repeated; the producers of prod_no_condvar.c hand    *)
(* main() each unit once, and main() ends only with the last one.  With    *)
(* what ProducerConsumerProofs shows, the run of any of them is safe.      *)
(***************************************************************************)
EXTENDS TransferPrograms, ProducerConsumerProofs, SequenceTheorems, FiniteSetTheorems

-----------------------------------------------------------------------------
(* The echo pair.                                                           *)

\* The counters are natural numbers, and only what the server is about to send
\* back is held.
EchoTypes ==
    /\ left \in Nat /\ nest \in Nat /\ owes \in Nat
    /\ up \in Nat /\ down \in Nat /\ held \in Nat
    /\ srv \in {"start", "accept", "read"} => held = 0

\* A client that has begun to write has bytes under way until it reads.
UnderWay ==
    cli \in {"writing", "read"} /\ srv # "end" => up + held + down + owes > 0

EchoInv == EchoTypes /\ UnderWay

\* Every step of client and server preserves the invariant.
LEMMA EchoStepKeeps ==
    ASSUME EchoInv, [EchoNext]_echoVars
    PROVE  EchoInv'
<1> USE EchoAssumption DEF EchoInv, EchoTypes, UnderWay, wire, handler
<1>1. CASE Connect \/ ConnectUnchecked
  BY <1>1 DEF Connect, ConnectUnchecked
<1>2. ASSUME NEW n \in 0..MaxLine, Line(n) PROVE EchoInv'
  BY <1>2 DEF Line
<1>3. ASSUME NEW k \in 1..MaxLine, Write(k) PROVE EchoInv'
  BY <1>3 DEF Write
<1>4. CASE WriteToNobody
  BY <1>4 DEF WriteToNobody
<1>5. ASSUME NEW k \in 1..Cap, Read(k) PROVE EchoInv'
  BY <1>5 DEF Read
<1>6. CASE ReadEnd
  BY <1>6 DEF ReadEnd
<1>7. CASE Stop
  BY <1>7 DEF Stop
<1>8. ASSUME NEW k \in 1..Password, StopWrite(k) PROVE EchoInv'
  BY <1>8 DEF StopWrite
<1>9. CASE KillClient
  BY <1>9 DEF KillClient
<1>10. CASE Listen
  BY <1>10 DEF Listen
<1>11. CASE Accept
  BY <1>11 DEF Accept
<1>12. ASSUME NEW k \in 1..Cap, ServerRead(k) PROVE EchoInv'
  BY <1>12 DEF ServerRead
<1>13. CASE ServerReadEnd
  BY <1>13 DEF ServerReadEnd
<1>14. ASSUME NEW k \in 1..Cap, ServerWrite(k) PROVE EchoInv'
  BY <1>14 DEF ServerWrite
<1>15. CASE ServerWriteToNobody
  BY <1>15 DEF ServerWriteToNobody
<1>16. CASE KillServer
  BY <1>16 DEF KillServer
<1>17. CASE UNCHANGED echoVars
  BY <1>17 DEF echoVars
<1> QED
  BY <1>1, <1>2, <1>3, <1>4, <1>5, <1>6, <1>7, <1>8, <1>9, <1>10, <1>11, <1>12,
     <1>13, <1>14, <1>15, <1>16, <1>17
  DEF EchoNext, ClientWrite, ClientRead, StopStep, Server

\* tcpServer.c with tcpClient.c or client.c: while the client waits for an
\* answer, some of its bytes are under way or it is itself still sending.
THEOREM NeverStuck == EchoSpec => []EchoNeverStuck
<1>1. EchoInit => EchoInv
  BY DEF EchoInit, EchoInv, EchoTypes, UnderWay
<1>2. EchoInv => EchoNeverStuck
  BY DEF EchoInv, UnderWay, EchoNeverStuck
<1> QED BY <1>1, <1>2, EchoStepKeeps, PTL DEF EchoSpec

-----------------------------------------------------------------------------
(* The wrappers of HSocket.c.                                               *)

\* The sequence s holds the numbers that follow b.
Follows(b, s) == \A i \in 1..Len(s) : s[i] = b + i

\* Every variable has its type.
HTypes ==
    /\ wcall \in {"Write", "WriteN"} /\ rcall \in {"Read", "ReadN"}
    /\ wleft \in 0..SZ /\ rleft \in 0..SZ
    /\ stream \in Seq(Int) /\ got \in Seq(Int)
    /\ wret \in Int /\ rret \in Int

\* The bytes are counted, and each has the place its number says.
Numbered ==
    /\ Len(got) + Len(stream) = SZ - wleft
    /\ rleft = SZ - Len(got)
    /\ Follows(0, got) /\ Follows(Len(got), stream)

\* What the return values say: a short ReadN() comes after the writer's end.
Returned ==
    /\ reader \in {"setup", "accept", "read"} => rret = None
    /\ rret >= 0 => rret = Len(got)
    /\ wret = SZ /\ wcall = "WriteN" => wleft = 0
    /\ rcall = "ReadN" /\ rret \notin {None, -1, SZ} => writer \in Over /\ wleft > 0

HInv == HTypes /\ Numbered /\ Returned

\* Appending the next k numbers, as write() at line 144 of HSocket.c does.
LEMMA AppendFollows ==
    ASSUME NEW b \in Nat, NEW s \in Seq(Int), NEW k \in Nat, NEW t \in Seq(Int),
           Follows(b, s), Len(t) = k, Follows(b + Len(s), t)
    PROVE  /\ s \o t \in Seq(Int) /\ Len(s \o t) = Len(s) + k
           /\ Follows(b, s \o t)
<1> DEFINE u == s \o t
<1>0. /\ u \in Seq(Int) /\ Len(u) = Len(s) + Len(t)
      /\ \A i \in 1..(Len(s) + Len(t)) : u[i] = IF i <= Len(s) THEN s[i] ELSE t[i - Len(s)]
  BY ConcatProperties, Zenon
<1> HIDE DEF u
<1>a. Len(s) \in Nat
  OBVIOUS
<1>1. /\ u \in Seq(Int) /\ Len(u) = Len(s) + k /\ Len(s) \in Nat
      /\ \A i \in 1..(Len(s) + k) : u[i] = IF i <= Len(s) THEN s[i] ELSE t[i - Len(s)]
  BY <1>0, <1>a, Zenon
<1>2. ASSUME NEW i \in 1..Len(u) PROVE u[i] = b + i
  <2>1. i \in 1..(Len(s) + k)
    BY <1>1
  <2>2. CASE i <= Len(s)
    <3>1. i \in 1..Len(s)
      BY <1>1, <2>1, <2>2
    <3>2. s[i] = b + i
      BY <3>1 DEF Follows
    <3> QED BY <1>1, <2>1, <2>2, <3>2
  <2>3. CASE ~(i <= Len(s))
    <3>1. i - Len(s) \in 1..Len(t)
      BY <1>1, <2>1, <2>3
    <3>2. t[i - Len(s)] = b + Len(s) + (i - Len(s))
      BY <3>1 DEF Follows
    <3> QED BY <1>1, <2>1, <2>3, <3>2
  <2> QED BY <2>2, <2>3
<1>3. Follows(b, u)
  BY <1>2 DEF Follows
<1> QED BY <1>1, <1>3 DEF u

\* A part of consecutive numbers, as read() at line 169 takes and leaves.
LEMMA PartFollows ==
    ASSUME NEW b \in Nat, NEW s \in Seq(Int), Follows(b, s),
           NEW m \in Nat, NEW n \in Nat, m <= n, n <= Len(s)
    PROVE  /\ SubSeq(s, m + 1, n) \in Seq(Int) /\ Len(SubSeq(s, m + 1, n)) = n - m
           /\ Follows(b + m, SubSeq(s, m + 1, n))
<1> DEFINE u == SubSeq(s, m + 1, n)
<1>1. Len(s) \in Nat /\ \A i \in (m + 1)..n : s[i] \in Int
  OBVIOUS
<1>2. /\ u \in Seq(Int) /\ Len(u) = IF m + 1 <= n THEN n - (m + 1) + 1 ELSE 0
      /\ \A i \in 1..(n - (m + 1) + 1) : u[i] = s[m + 1 + i - 1]
  BY <1>1, SubSeqProperties
<1> HIDE DEF u
<1>3. Len(u) = n - m
  BY <1>2
<1>4. ASSUME NEW i \in 1..Len(u) PROVE u[i] = b + m + i
  <2>1. i \in 1..(n - (m + 1) + 1) /\ m + i \in 1..Len(s) /\ m + 1 + i - 1 = m + i
    BY <1>1, <1>3
  <2>2. s[m + i] = b + (m + i)
    BY <2>1 DEF Follows
  <2> QED BY <1>2, <2>1, <2>2
<1>5. Follows(b + m, u)
  BY <1>4 DEF Follows
<1> QED BY <1>2, <1>3, <1>5 DEF u

\* HSocket.c, line 144: write() appends the next k bytes of the buffer.
LEMMA WriteKeeps ==
    ASSUME HInv, NEW k \in 1..SZ, WriteSome(k)
    PROVE  HInv'
<1> USE HSocketAssumption
<1> DEFINE new == [i \in 1..k |-> SZ - wleft + i]
<1>1. /\ stream' = stream \o new /\ got' = got
      /\ wleft' = wleft - k /\ rleft' = rleft /\ k <= wleft
      /\ Len(stream) \in Nat /\ Len(got) \in Nat
  BY DEF WriteSome, HInv, HTypes
<1>2. new \in Seq(Int) /\ Len(new) = k
  BY DEF HInv, HTypes
<1>3. Follows(Len(got) + Len(stream), new)
  BY <1>1, <1>2 DEF HInv, HTypes, Numbered, Follows
<1> HIDE DEF new
<1>4. /\ stream \o new \in Seq(Int) /\ Len(stream \o new) = Len(stream) + k
      /\ Follows(Len(got), stream \o new)
  BY <1>1, <1>2, <1>3, AppendFollows DEF HInv, HTypes, Numbered
<1>5. HTypes'
  BY <1>1, <1>4 DEF WriteSome, HInv, HTypes
<1>6. Numbered'
  <2>0. /\ Len(got') = Len(got) /\ Len(stream') = Len(stream) + k
        /\ wleft' = wleft - k /\ rleft' = rleft
    BY <1>1, <1>4, Zenon
  <2> DEFINE g == Len(got)  s == Len(stream)
  <2>a. g \in Nat /\ s \in Nat /\ g + s = SZ - wleft /\ rleft = SZ - g
    BY <1>1, Zenon DEF HInv, Numbered
  <2>b. wleft \in Int /\ rleft \in Int /\ SZ \in Int
    BY DEF HInv, HTypes
  <2> HIDE DEF g, s
  <2>c. g + (s + k) = SZ - (wleft - k)
    BY <2>a, <2>b
  <2>1. Len(got') + Len(stream') = SZ - wleft' /\ rleft' = SZ - Len(got')
    BY <2>0, <2>a, <2>c, Zenon DEF g, s
  <2>2. Follows(0, got')
    BY <1>1, Zenon DEF HInv, Numbered
  <2>3. Follows(Len(got'), stream')
    BY <1>1, <1>4, Zenon
  <2> QED BY <2>1, <2>2, <2>3, Zenon DEF Numbered
<1>7. Returned'
  BY <1>1 DEF WriteSome, HInv, HTypes, Returned, Over, None
<1> QED BY <1>5, <1>6, <1>7 DEF HInv

\* HSocket.c, line 169: read() moves the first k bytes that are there.
LEMMA ReadKeeps ==
    ASSUME HInv, NEW k \in 1..SZ, ReadSome(k)
    PROVE  HInv'
<1> USE HSocketAssumption
<1> DEFINE first == SubSeq(stream, 1, k)
           rest  == SubSeq(stream, k + 1, Len(stream))
<1>1. /\ k <= rleft /\ k <= Len(stream) /\ Len(stream) \in Nat /\ Len(got) \in Nat
      /\ got' = got \o first /\ stream' = rest
      /\ wleft' = wleft /\ rleft' = rleft - k
  BY DEF ReadSome, HInv, HTypes
<1>2. stream \in Seq(Int) /\ got \in Seq(Int) /\ Follows(0, got) /\ Follows(Len(got), stream)
  BY DEF HInv, HTypes, Numbered
<1>3. first \in Seq(Int) /\ Len(first) = k /\ Follows(Len(got), first)
  <2>1. Len(first) = k /\ first \in Seq(Int) /\ \A i \in 1..k : first[i] = stream[i]
    BY <1>1, <1>2
  <2> QED BY <1>1, <1>2, <2>1 DEF Follows
<1>4. /\ rest \in Seq(Int) /\ Len(rest) = Len(stream) - k
      /\ Follows(Len(got) + k, rest)
  BY <1>1, <1>2, PartFollows
<1> HIDE DEF first, rest
<1>5. /\ got \o first \in Seq(Int) /\ Len(got \o first) = Len(got) + k
      /\ Follows(0, got \o first)
  <2>1. Follows(0 + Len(got), first)
    BY <1>1, <1>3
  <2> QED BY <1>1, <1>2, <1>3, <2>1, AppendFollows
<1>6. HTypes'
  <2>1. stream' \in Seq(Int) /\ got' \in Seq(Int)
    BY <1>1, <1>4, <1>5, Zenon
  <2>2. rleft' \in 0..SZ /\ rret' \in Int
    BY <1>1 DEF ReadSome, HInv, HTypes
  <2> QED BY <2>1, <2>2 DEF ReadSome, HInv, HTypes
<1>7. Numbered'
  <2>1. Len(got') = Len(got) + k /\ Len(stream') = Len(stream) - k
    BY <1>1, <1>4, <1>5, Zenon
  <2> DEFINE g == Len(got)  s == Len(stream)
  <2>a. g \in Nat /\ s \in Nat /\ g + s = SZ - wleft /\ rleft = SZ - g
    BY <1>1, Zenon DEF HInv, Numbered
  <2>b. wleft \in Int /\ rleft \in Int /\ SZ \in Int
    BY DEF HInv, HTypes
  <2> HIDE DEF g, s
  <2>c. (g + k) + (s - k) = SZ - wleft /\ rleft - k = SZ - (g + k)
    BY <2>a, <2>b
  <2>2. Len(got') + Len(stream') = SZ - wleft' /\ rleft' = SZ - Len(got')
    BY <1>1, <2>1, <2>c, Zenon DEF g, s
  <2>3. Follows(0, got')
    BY <1>1, <1>5, Zenon
  <2>4. Follows(Len(got'), stream')
    BY <1>1, <1>4, <2>1, Zenon
  <2> QED BY <2>2, <2>3, <2>4, Zenon DEF Numbered
<1>8. Returned'
  BY <1>1, <1>5 DEF ReadSome, HInv, HTypes, Numbered, Returned, Over, None
<1> QED BY <1>6, <1>7, <1>8 DEF HInv

\* Every step of the two callers preserves the invariant.
LEMMA HStepKeeps ==
    ASSUME HInv, [HNext]_hVars
    PROVE  HInv'
<1> USE HSocketAssumption
<1>1. CASE SetupWriter \/ SetupReader \/ HAccept \/ AcceptFails
  BY <1>1 DEF SetupWriter, SetupReader, HAccept, AcceptFails, HInv, HTypes, Numbered,
              Returned, Over
<1>2. CASE WriteInterrupted
  BY <1>2 DEF WriteInterrupted, NwrittenReset, HInv, HTypes, Numbered, Returned
<1>3. CASE WriteBroken \/ WriteFails
  <2>1. HTypes' /\ Numbered'
    <3>1. UNCHANGED <<wcall, rcall, wleft, rleft, stream, got, rret>> /\ wret' \in Int
      BY <1>3 DEF WriteBroken, WriteFails, HInv, HTypes
    <3> QED BY <3>1, Zenon DEF HInv, HTypes, Numbered
  <2>2. writer = "write" /\ (wret' = -1 \/ wret' = wret)
    BY <1>3 DEF WriteBroken, WriteFails
  <2>3. /\ wleft' = wleft /\ wcall' = wcall /\ rcall' = rcall
        /\ reader' = reader /\ got' = got /\ rret' = rret
    BY <1>3 DEF WriteBroken, WriteFails
  <2>4. Returned'
    BY <2>2, <2>3 DEF HInv, HTypes, Returned, Over
  <2> QED BY <2>1, <2>4 DEF HInv
<1>4. CASE ReadEof
  <2>1. Len(stream) = 0 /\ Len(got) = SZ - wleft /\ rret' = Len(got) /\ Len(got) \in Nat
    BY <1>4 DEF ReadEof, HInv, HTypes, Numbered
  <2> QED BY <1>4, <2>1 DEF ReadEof, HInv, HTypes, Numbered, Returned, Over
<1>5. CASE ReadFails
  BY <1>5 DEF ReadFails, HInv, HTypes, Numbered, Returned, None
<1>6. CASE CloseWriter \/ CloseReader
  BY <1>6 DEF CloseWriter, CloseReader, HInv, HTypes, Numbered, Returned, Over
<1>7. CASE UNCHANGED hVars
  BY <1>7 DEF hVars, HInv, HTypes, Numbered, Returned
<1> QED BY <1>1, <1>2, <1>3, <1>4, <1>5, <1>6, <1>7, WriteKeeps, ReadKeeps
        DEF HNext, Writer, Reader, ReadInterrupted

\* ReadN(), WriteN(), Read() and Write() of HSocket.c: the reader's buffer is
\* the writer's from the first byte on, and the return values count it.
THEOREM TransferIntact == HSpec => []StreamIntact
<1>1. HInit => HInv
  <2> SUFFICES ASSUME HInit PROVE HInv
    OBVIOUS
  <2>1. Len(got) = 0 /\ Len(stream) = 0 /\ got \in Seq(Int) /\ stream \in Seq(Int)
    BY DEF HInit
  <2>2. HTypes /\ Returned
    BY <2>1, HSocketAssumption DEF HInit, HTypes, Returned, None
  <2>3. Numbered
    BY <2>1, HSocketAssumption DEF HInit, Numbered, Follows
  <2> QED BY <2>2, <2>3 DEF HInv
<1>2. HInv => StreamIntact
  <2> SUFFICES ASSUME HInv PROVE StreamIntact
    OBVIOUS
  <2> DEFINE ref == [i \in 1..(SZ - wleft) |-> i]
  <2>1. SZ - wleft \in Nat /\ Len(got) \in Nat /\ Len(stream) \in Nat
    BY HSocketAssumption DEF HInv, HTypes
  <2>2. ref \in Seq(Int) /\ Len(ref) = SZ - wleft /\ \A i \in 1..(SZ - wleft) : ref[i] = i
    BY <2>1
  <2>3. /\ got \o stream \in Seq(Int) /\ Len(got \o stream) = SZ - wleft
        /\ Follows(0, got \o stream)
    <3>1. Follows(0 + Len(got), stream)
      BY <2>1 DEF HInv, Numbered
    <3> QED BY <2>1, <3>1, AppendFollows DEF HInv, HTypes, Numbered
  <2>4. \A i \in 1..Len(got \o stream) : (got \o stream)[i] = ref[i]
    BY <2>1, <2>2, <2>3 DEF Follows
  <2>5. got \o stream = ref
    BY <2>2, <2>3, <2>4, SeqEqual, Zenon
  <2> QED BY <2>5, HSocketAssumption DEF StreamIntact, HInv, HTypes, Returned, None
<1> QED BY <1>1, <1>2, HStepKeeps, PTL DEF HSpec

-----------------------------------------------------------------------------
(* Counting units.                                                          *)

\* What is a unit of the producers.
LEMMA UnitsElement ==
    ASSUME NEW f, NEW u
    PROVE  u \in Units(f) <=>
             \E t \in DOMAIN f : \E k \in 1..f[t] : u = <<t, k>>
BY DEF Units

\* Finitely many producers make finitely many units.
LEMMA UnitsFinite ==
    ASSUME NEW n \in Nat, NEW f \in [1..n -> Int]
    PROVE  IsFiniteSet(Units(f)) /\ Cardinality(Units(f)) \in Nat
<1> DEFINE S == {{t} \X (1..f[t]) : t \in 1..n}
           g == [t \in 1..n |-> {t} \X (1..f[t])]
<1>1. g \in Surjection(1..n, S)
  BY DEF Surjection
<1>2. IsFiniteSet(S)
  BY <1>1, FS_Interval, FS_Surjection
<1>3. \A T \in S : IsFiniteSet(T)
  <2> TAKE T \in S
  <2>1. PICK t \in 1..n : T = {t} \X (1..f[t])
    OBVIOUS
  <2>2. IsFiniteSet({t})
    BY FS_Singleton
  <2>3. IsFiniteSet(1..f[t])
    BY FS_Interval
  <2> QED BY <2>1, <2>2, <2>3, FS_Product
<1>4. IsFiniteSet(UNION S)
  BY <1>2, <1>3, FS_UNION
<1>5. Units(f) = UNION S
  BY DEF Units
<1> QED BY <1>4, <1>5, FS_CardinalityType

\* Producers that have made nothing have made no unit.
LEMMA UnitsNone ==
    ASSUME NEW n \in Nat, NEW f \in [1..n -> Int], \A t \in 1..n : f[t] <= 0
    PROVE  Cardinality(Units(f)) = 0
<1>1. Units(f) = {}
  BY UnitsElement
<1> QED BY <1>1, FS_EmptySet

\* One more iteration of one producer is one more unit.
LEMMA UnitsGrow ==
    ASSUME NEW n \in Nat, NEW f \in [1..n -> Int],
           NEW s \in 1..n, f[s] \in Nat
    PROVE  Cardinality(Units([f EXCEPT ![s] = f[s] + 1])) = Cardinality(Units(f)) + 1
<1> DEFINE g == [f EXCEPT ![s] = f[s] + 1]
           x == <<s, f[s] + 1>>
<1>1. g \in [1..n -> Int] /\ g[s] = f[s] + 1 /\ \A t \in 1..n : t # s => g[t] = f[t]
  OBVIOUS
<1> HIDE DEF g
<1>2. x \notin Units(f)
  BY UnitsElement
<1>3. Units(g) = Units(f) \cup {x}
  <2>1. ASSUME NEW u \in Units(g) PROVE u \in Units(f) \cup {x}
    <3>1. PICK t \in 1..n : \E k \in 1..g[t] : u = <<t, k>>
      BY <1>1, UnitsElement
    <3>2. PICK k \in 1..g[t] : u = <<t, k>>
      BY <3>1
    <3>3. u = x \/ k \in 1..f[t]
      BY <1>1, <3>2
    <3> QED BY <3>2, <3>3, UnitsElement
  <2>2. ASSUME NEW u \in Units(f) PROVE u \in Units(g)
    <3>1. PICK t \in 1..n : \E k \in 1..f[t] : u = <<t, k>>
      BY UnitsElement
    <3>2. PICK k \in 1..f[t] : u = <<t, k>>
      BY <3>1
    <3>3. k \in 1..g[t]
      BY <1>1
    <3> QED BY <1>1, <3>2, <3>3, UnitsElement
  <2>3. x \in Units(g)
    BY <1>1, UnitsElement
  <2> QED BY <2>1, <2>2, <2>3
<1> QED BY <1>2, <1>3, UnitsFinite, FS_AddElement DEF g

\* More iterations are not fewer units.
LEMMA UnitsMonotone ==
    ASSUME NEW n \in Nat, NEW f \in [1..n -> Int], NEW g \in [1..n -> Int],
           \A t \in 1..n : f[t] <= 0 \/ f[t] <= g[t]
    PROVE  Cardinality(Units(f)) <= Cardinality(Units(g))
<1>1. Units(f) \in SUBSET Units(g)
  <2>1. ASSUME NEW u \in Units(f) PROVE u \in Units(g)
    <3>1. PICK t \in 1..n : \E k \in 1..f[t] : u = <<t, k>>
      BY UnitsElement
    <3>2. PICK k \in 1..f[t] : u = <<t, k>>
      BY <3>1
    <3>3. k \in 1..g[t]
      OBVIOUS
    <3> QED BY <3>2, <3>3, UnitsElement
  <2> QED BY <2>1
<1> QED BY <1>1, UnitsFinite, FS_Subset

\* One more producer adds the units it is told to make.
LEMMA UnitsAppend ==
    ASSUME NEW n \in Nat, NEW f \in [1..n -> Int],
           NEW g \in [1..(n + 1) -> Int], \A t \in 1..n : g[t] = f[t],
           g[n + 1] \in Nat
    PROVE  Cardinality(Units(g)) = Cardinality(Units(f)) + g[n + 1]
<1> DEFINE s == n + 1
           K == {s} \X (1..g[s])
<1>1. IsFiniteSet(K) /\ Cardinality(K) = g[s]
  <2>1. IsFiniteSet({s}) /\ Cardinality({s}) = 1
    BY FS_Singleton
  <2>2. IsFiniteSet(1..g[s]) /\ Cardinality(1..g[s]) = g[s]
    BY FS_Interval
  <2>3. IsFiniteSet(K) /\ Cardinality(K) = Cardinality({s}) * Cardinality(1..g[s])
    BY <2>1, <2>2, FS_Product
  <2> QED BY <2>1, <2>2, <2>3
<1>2. Units(f) \cap K = {}
  BY UnitsElement
<1>3. Units(g) = Units(f) \cup K
  <2>1. ASSUME NEW u \in Units(g) PROVE u \in Units(f) \cup K
    <3>1. PICK t \in 1..s : \E k \in 1..g[t] : u = <<t, k>>
      BY UnitsElement
    <3>2. PICK k \in 1..g[t] : u = <<t, k>>
      BY <3>1
    <3>3. CASE t \in 1..n
      BY <3>2, <3>3, UnitsElement
    <3>4. CASE t = s
      BY <3>2, <3>4
    <3> QED BY <3>3, <3>4
  <2>2. ASSUME NEW u \in Units(f) PROVE u \in Units(g)
    <3>1. PICK t \in 1..n : \E k \in 1..f[t] : u = <<t, k>>
      BY UnitsElement
    <3>2. PICK k \in 1..g[t] : u = <<t, k>>
      BY <3>1
    <3>3. t \in DOMAIN g
      OBVIOUS
    <3> QED BY <3>2, <3>3, UnitsElement
  <2>3. ASSUME NEW u \in K PROVE u \in Units(g)
    <3>1. s \in DOMAIN g
      OBVIOUS
    <3>2. PICK k \in 1..g[s] : u = <<s, k>>
      OBVIOUS
    <3> QED BY <3>1, <3>2, UnitsElement
  <2> QED BY <2>1, <2>2, <2>3
<1>4. Cardinality(Units(g)) =
        Cardinality(Units(f)) + Cardinality(K) - Cardinality(Units(f) \cap K)
  <2>1. IsFiniteSet(Units(f))
    BY UnitsFinite
  <2> HIDE DEF K
  <2> QED BY <1>1, <1>3, <2>1, FS_Union
<1>5. Cardinality(Units(f)) \in Nat
  BY UnitsFinite
<1>6. Cardinality(Units(f) \cap K) = 0
  BY <1>2, FS_EmptySet
<1>7. g[s] = g[n + 1]
  OBVIOUS
<1> HIDE DEF K, s
<1> QED BY <1>1, <1>4, <1>5, <1>6, <1>7

-----------------------------------------------------------------------------
(* The invariant of the polling program.                                    *)

MadeBy == [t \in Producers |-> ProducedBy(t)]
AskedOf(n) == [t \in 1..n |-> argv[t]]
Points == {"absent", "loop", "produce", "unlock", "done"}

PollTypes ==
    /\ argv \in Seq(Int)
    /\ created \in 0..Len(argv)
    /\ prodAt \in [Producers -> Points]
    /\ jOf \in [Producers -> Nat]
    /\ totalRequired \in Int /\ avail \in Nat /\ numConsumed \in Nat

\* Only the owner of the mutex is between lock and unlock.
PollOwner ==
    /\ mainAt \in {"drain", "unlock"} => pmtx = MAIN
    /\ \A t \in Producers : prodAt[t] \in {"produce", "unlock"} => pmtx = t

\* A producer makes a unit only while its loop condition holds, and none if its
\* count is negative.
LoopBounds ==
    \A t \in Producers :
        /\ prodAt[t] \in {"produce", "unlock"} => jOf[t] < argv[t]
        /\ jOf[t] = 0 \/ jOf[t] <= argv[t]

\* totalRequired adds up what the producers created so far were told to make,
\* and main() polls only after it has created them all.
RequiredInv ==
    /\ NoneNegative /\ mainAt # "exit_fail" =>
          totalRequired = Cardinality(Units(AskedOf(created)))
    /\ mainAt \notin {"create", "exit_fail"} => created = Len(argv)
    /\ \A t \in Producers : t > created => prodAt[t] = "absent"

\* main() leaves its loop only when it has consumed what is required.
DoneInv ==
    /\ mainAt = "create" => done = FALSE
    /\ done = TRUE => numConsumed >= totalRequired
    /\ mainAt = "exit_ok" => done = TRUE
    /\ done \in BOOLEAN

PollInv ==
    /\ PollTypes /\ PollOwner /\ LoopBounds
    /\ RequiredInv /\ DoneInv /\ PollNoUnitLost

\* The counters as functions from 1..Len(argv).
LEMMA PollFunctions ==
    ASSUME PollTypes
    PROVE  /\ Len(argv) \in Nat
           /\ argv \in [1..Len(argv) -> Int]
           /\ MadeBy \in [1..Len(argv) -> Int]
           /\ \A t \in Producers : MadeBy[t] \in Nat
           /\ \A n \in 0..Len(argv) : AskedOf(n) \in [1..n -> Int]
<1>1. Len(argv) \in Nat /\ argv \in [1..Len(argv) -> Int]
  BY LenProperties DEF PollTypes
<1>2. \A t \in Producers : ProducedBy(t) \in Nat
  BY DEF PollTypes, ProducedBy
<1> QED BY <1>1, <1>2 DEF MadeBy, AskedOf, Producers

\* The program starts with nothing made.
LEMMA PollStarts ==
    ASSUME PollInit
    PROVE  PollInv
<1>1. argv \in Seq(Int)
  <2>1. PICK n \in 0..MaxArgs : argv \in [1..n -> ArgValues]
    BY DEF PollInit
  <2>2. n \in Nat
    BY ArgsAssumption
  <2>3. argv \in [1..n -> Int]
    BY <2>1, ArgsAssumption
  <2> QED BY <2>2, <2>3, SeqDef
<1>2. PollTypes
  <2>1. Len(argv) \in Nat
    BY <1>1, LenProperties
  <2> QED BY <1>1, <2>1 DEF PollInit, PollTypes, Points
<1>3. PollOwner
  BY DEF PollInit, PollOwner
<1>4. LoopBounds
  BY DEF PollInit, LoopBounds
<1>5. RequiredInv
  <2>1. AskedOf(0) \in [1..0 -> Int]
    BY <1>2, PollFunctions
  <2>2. Cardinality(Units(AskedOf(0))) = 0
    BY <2>1, UnitsNone
  <2> QED BY <2>2 DEF PollInit, RequiredInv
<1>6. DoneInv
  BY DEF PollInit, DoneInv
<1>7. PollNoUnitLost
  <2>1. \A t \in Producers : MadeBy[t] = 0
    BY DEF PollInit, MadeBy, ProducedBy
  <2>2. Len(argv) \in Nat /\ MadeBy \in [1..Len(argv) -> Int]
    BY <1>2, PollFunctions
  <2>3. \A t \in 1..Len(argv) : MadeBy[t] <= 0
    BY <2>1 DEF Producers
  <2>4. Cardinality(Units(MadeBy)) = 0
    BY <2>2, <2>3, UnitsNone
  <2> QED BY <2>4 DEF PollInit, PollNoUnitLost, PollProduced, MadeBy
<1> QED BY <1>2, <1>3, <1>4, <1>5, <1>6, <1>7 DEF PollInv

\* A step that leaves each producer's count leaves the number of units made.
LEMMA SameMade ==
    ASSUME argv' = argv, \A t \in Producers : ProducedBy(t)' = ProducedBy(t)
    PROVE  PollProduced' = PollProduced
BY DEF PollProduced, Producers

\* avail++ is one more unit made.
LEMMA ProduceMakes ==
    ASSUME PollTypes, NEW t \in Producers, PollProduce(t)
    PROVE  PollProduced' = PollProduced + 1
<1>1. MadeBy' = [MadeBy EXCEPT ![t] = MadeBy[t] + 1]
  BY DEF MadeBy, ProducedBy, PollProduce, Producers, PollTypes
<1>2. Cardinality(Units([MadeBy EXCEPT ![t] = MadeBy[t] + 1])) =
        Cardinality(Units(MadeBy)) + 1
  BY PollFunctions, UnitsGrow DEF Producers
<1> QED BY <1>1, <1>2 DEF PollProduced, MadeBy

\* What main() requires once it has counted one producer more.
LEMMA AskOneMore ==
    ASSUME PollTypes, created < Len(argv), NoneNegative
    PROVE  Cardinality(Units(AskedOf(created + 1))) =
             Cardinality(Units(AskedOf(created))) + argv[created + 1]
<1> DEFINE f == AskedOf(created)
           g == AskedOf(created + 1)
<1>1. created \in Nat /\ created + 1 \in 0..Len(argv) /\ created + 1 \in Producers
  BY PollFunctions DEF PollTypes, Producers
<1>2. f \in [1..created -> Int] /\ g \in [1..(created + 1) -> Int]
  BY <1>1, PollFunctions DEF PollTypes
<1>3. \A t \in 1..created : g[t] = f[t]
  BY <1>1 DEF AskedOf
<1>4. g[created + 1] = argv[created + 1]
  BY <1>1 DEF AskedOf
<1>5. argv[created + 1] \in Nat
  BY <1>1, PollFunctions DEF NoneNegative, Producers
<1> HIDE DEF f, g
<1> QED BY <1>1, <1>2, <1>3, <1>4, <1>5, UnitsAppend DEF f, g

\* The producer main() creates next has made nothing, so creating it makes none.
LEMMA CreateMakesNone ==
    ASSUME PollTypes, RequiredInv, Create
    PROVE  /\ created + 1 \in Producers /\ prodAt[created + 1] = "absent"
           /\ \A t \in Producers : ProducedBy(t)' = ProducedBy(t)
<1>1. created \in Nat /\ created < Len(argv) /\ Len(argv) \in Nat
  BY PollFunctions DEF PollTypes, Create
<1>2. created + 1 \in Producers /\ created + 1 > created
  BY <1>1 DEF Producers
<1>3. prodAt[created + 1] = "absent"
  BY <1>2 DEF RequiredInv
<1>4. /\ jOf' = jOf
      /\ \A t \in Producers : t # created + 1 => prodAt'[t] = prodAt[t]
      /\ prodAt'[created + 1] \in {"absent", "loop"}
  BY <1>2, <1>3 DEF Create, PollTypes
<1>5. ASSUME NEW t \in Producers PROVE ProducedBy(t)' = ProducedBy(t)
  BY <1>3, <1>4 DEF ProducedBy
<1> QED BY <1>2, <1>3, <1>5

\* Every step of main() preserves the invariant.
LEMMA MainKeeps ==
    ASSUME PollInv, PollMain
    PROVE  PollInv'
<1> USE DEF PollInv
<1>0. argv' = argv /\ jOf' = jOf
  BY DEF PollMain, Create, StartPolling, MainLock, MainDrain, MainUnlock, MainTest
<1>1. NoneNegative' = NoneNegative /\ \A n : AskedOf(n)' = AskedOf(n)
  BY <1>0 DEF NoneNegative, Producers, AskedOf
<1>2. Len(argv) \in Nat /\ argv \in [1..Len(argv) -> Int]
  BY PollFunctions
<1>3. CASE Create
  <2>1. created + 1 \in Producers /\ prodAt[created + 1] = "absent"
    BY <1>3, CreateMakesNone
  <2>2. \A t \in Producers : ProducedBy(t)' = ProducedBy(t)
    BY <1>3, CreateMakesNone
  <2>3. PollProduced' = PollProduced
    BY <1>0, <2>2, SameMade
  <2>4. PollTypes'
    <3>1. argv[created + 1] \in Int /\ created \in Nat
      BY <1>2, <2>1 DEF PollTypes, Producers
    <3>2. totalRequired' \in Int /\ created' \in 0..Len(argv)
      BY <1>2, <1>3, <3>1 DEF Create, PollTypes
    <3>3. prodAt' \in [Producers -> Points]
      BY <1>3, <2>1 DEF Create, PollTypes, Points
    <3> QED BY <1>0, <1>3, <3>2, <3>3 DEF Create, PollTypes, Producers
  <2>5. PollOwner'
    BY <1>3, <2>1 DEF Create, PollOwner, PollTypes, Producers
  <2>6. LoopBounds'
    BY <1>3, <2>1 DEF Create, LoopBounds, PollTypes, Producers
  <2>7. RequiredInv'
    <3>1. CASE mainAt' = "exit_fail"
      BY <1>3, <3>1 DEF Create, RequiredInv, Producers
    <3>2. CASE mainAt' # "exit_fail"
      <4>1. created' = created + 1 /\ prodAt' = [prodAt EXCEPT ![created + 1] = "loop"] /\ mainAt' = mainAt
        BY <1>3, <3>2 DEF Create
      <4>2. NoneNegative' => totalRequired' = Cardinality(Units(AskedOf(created + 1)))
        BY <1>1, <1>3, AskOneMore DEF Create, RequiredInv
      <4>3. NoneNegative' => totalRequired' = Cardinality(Units(AskedOf(created)))'
        BY <1>0, <4>1, <4>2 DEF AskedOf
      <4>4. \A t \in Producers' : t > created' => prodAt'[t] = "absent"
        <5>1. SUFFICES ASSUME NEW t \in Producers, t > created + 1
                       PROVE  prodAt'[t] = "absent"
          BY <1>0, <4>1 DEF Producers
        <5>2. t \in Int /\ created \in Int
          BY <1>2 DEF Producers, PollTypes
        <5>3. t > created /\ t # created + 1
          BY <5>1, <5>2
        <5> QED BY <4>1, <5>3 DEF RequiredInv, PollTypes
      <4> QED BY <1>3, <4>1, <4>3, <4>4 DEF RequiredInv, Create
    <3> QED BY <3>1, <3>2
  <2>8. DoneInv'
    BY <1>3 DEF Create, DoneInv
  <2>9. PollNoUnitLost'
    BY <1>3, <2>3 DEF Create, PollNoUnitLost
  <2> QED BY <2>4, <2>5, <2>6, <2>7, <2>8, <2>9
<1>4. CASE StartPolling \/ MainLock \/ MainDrain \/ MainUnlock \/ MainTest
  <2>1. prodAt' = prodAt /\ created' = created /\ totalRequired' = totalRequired
    BY <1>4 DEF StartPolling, MainLock, MainDrain, MainUnlock, MainTest
  <2>2. PollProduced' = PollProduced
    BY <1>0, <2>1, SameMade DEF ProducedBy
  <2>3. PollTypes'
    BY <1>0, <1>4, <2>1
    DEF StartPolling, MainLock, MainDrain, MainUnlock, MainTest, PollTypes, Producers
  <2>4. PollOwner'
    BY <1>0, <1>4, <2>1
    DEF StartPolling, MainLock, MainDrain, MainUnlock, MainTest, PollOwner, Producers,
        Mutex!MutexLock, Mutex!MutexUnlock, MAIN, NoOwner
  <2>5. LoopBounds'
    BY <1>0, <2>1 DEF LoopBounds, Producers
  <2>6. RequiredInv'
    <3>1. Cardinality(Units(AskedOf(created)))' = Cardinality(Units(AskedOf(created)))
      BY <1>0, <2>1 DEF AskedOf
    <3>2. mainAt # "exit_fail"
      BY <1>4 DEF StartPolling, MainLock, MainDrain, MainUnlock, MainTest
    <3>3. mainAt' \notin {"create", "exit_fail"} => created' = Len(argv)'
      <4>1. CASE StartPolling
        <5>1. created = Len(argv)
          <6>1. created >= Len(argv)
            BY <4>1 DEF StartPolling
          <6>2. created \in 0..Len(argv)
            BY DEF PollTypes
          <6>3. \A b \in Nat : \A a \in 0..b : a >= b => a = b
            OBVIOUS
          <6> QED BY <1>2, <6>1, <6>2, <6>3
        <5> QED BY <1>0, <2>1, <5>1
      <4>2. CASE MainLock \/ MainDrain \/ MainUnlock \/ MainTest
        BY <1>0, <2>1, <4>2 DEF MainLock, MainDrain, MainUnlock, MainTest, RequiredInv
      <4> QED BY <1>4, <4>1, <4>2
    <3>4. \A t \in Producers' : t > created' => prodAt'[t] = "absent"
      BY <1>0, <2>1 DEF RequiredInv, Producers
    <3> QED BY <1>1, <2>1, <3>1, <3>2, <3>3, <3>4 DEF RequiredInv
  <2>7. DoneInv'
    <3>1. CASE MainDrain /\ avail > 0
      <4>1. done' = (numConsumed' >= totalRequired) /\ mainAt' = "drain"
        BY <3>1 DEF MainDrain, Enough, PollTypes
      <4>2. done' \in BOOLEAN /\ (done' = TRUE => numConsumed' >= totalRequired)
        <5>1. CASE numConsumed' >= totalRequired
          <6>1. done' = TRUE
            BY <4>1, <5>1, Zenon
          <6> QED BY <5>1, <6>1
        <5>2. CASE ~(numConsumed' >= totalRequired)
          <6>1. (numConsumed' >= totalRequired) = FALSE
            BY <5>2
          <6>2. done' = FALSE
            BY <4>1, <6>1, Zenon
          <6> QED BY <6>2
        <5> QED BY <5>1, <5>2
      <4> QED BY <2>1, <4>1, <4>2 DEF DoneInv
    <3>2. CASE StartPolling \/ MainLock \/ MainUnlock \/ (MainDrain /\ ~(avail > 0))
      BY <2>1, <3>2
      DEF StartPolling, MainLock, MainDrain, MainUnlock, DoneInv
    <3>3. CASE MainTest
      BY <2>1, <3>3 DEF MainTest, DoneInv
    <3> QED BY <1>4, <3>1, <3>2, <3>3
  <2>8. PollNoUnitLost'
    BY <1>4, <2>2
    DEF StartPolling, MainLock, MainDrain, MainUnlock, MainTest, PollNoUnitLost, PollTypes
  <2> QED BY <2>3, <2>4, <2>5, <2>6, <2>7, <2>8
<1> QED BY <1>3, <1>4 DEF PollMain

\* Every step of a producer preserves the invariant.
LEMMA ProducerKeeps ==
    ASSUME PollInv, NEW t \in Producers, PollProducer(t)
    PROVE  PollInv'
<1> USE DEF PollInv
<1>0. UNCHANGED <<argv, mainAt, created, totalRequired, done, numConsumed>>
  BY DEF PollProducer, PollProducerLock, PollProduce, PollProducerUnlock, PollProducerReturn
<1>1. NoneNegative' = NoneNegative /\ Producers' = Producers
  BY <1>0 DEF NoneNegative, Producers
<1>2. Len(argv) \in Nat /\ argv \in [1..Len(argv) -> Int] /\ argv[t] \in Int
  BY PollFunctions DEF Producers
<1>3. PollTypes'
  <2>1. prodAt' \in [Producers -> Points]
    BY DEF PollProducer, PollProducerLock, PollProduce, PollProducerUnlock, PollProducerReturn, PollTypes, Points
  <2>2. jOf' \in [Producers -> Nat]
    BY DEF PollProducer, PollProducerLock, PollProduce, PollProducerUnlock, PollProducerReturn, PollTypes
  <2>3. avail' \in Nat
    BY DEF PollProducer, PollProducerLock, PollProduce, PollProducerUnlock, PollProducerReturn, PollTypes
  <2> QED BY <1>0, <1>1, <2>1, <2>2, <2>3 DEF PollTypes
<1>4. PollOwner'
  BY <1>0, <1>1
  DEF PollProducer, PollProducerLock, PollProduce, PollProducerUnlock, PollProducerReturn, PollTypes,
      PollOwner, Producers, Mutex!MutexLock, Mutex!MutexUnlock, MAIN, NoOwner
<1>5. LoopBounds'
  BY <1>0, <1>1, <1>2
  DEF PollProducer, PollProducerLock, PollProduce, PollProducerUnlock, PollProducerReturn, PollTypes,
      LoopBounds
<1>6. RequiredInv'
  <2>1. Cardinality(Units(AskedOf(created)))' = Cardinality(Units(AskedOf(created)))
    BY <1>0 DEF AskedOf
  <2>2. prodAt[t] # "absent" /\ \A s \in Producers : s # t => prodAt'[s] = prodAt[s]
    BY DEF PollProducer, PollProducerLock, PollProduce, PollProducerUnlock, PollProducerReturn, PollTypes
  <2> QED BY <1>0, <1>1, <2>1, <2>2 DEF RequiredInv
<1>7. DoneInv'
  BY <1>0 DEF DoneInv
<1>8. PollNoUnitLost'
  <2>1. CASE PollProduce(t)
    <3>1. PollProduced' = PollProduced + 1 /\ avail' = avail + 1
      BY <2>1, ProduceMakes DEF PollProduce
    <3> QED BY <1>0, <3>1 DEF PollNoUnitLost, PollTypes
  <2>2. CASE PollProducerLock(t) \/ PollProducerUnlock(t) \/ PollProducerReturn(t)
    <3>1. \A s \in Producers : ProducedBy(s)' = ProducedBy(s)
      BY <2>2 DEF PollProducerLock, PollProducerUnlock, PollProducerReturn, ProducedBy, PollTypes
    <3>2. PollProduced' = PollProduced
      BY <1>0, <3>1, SameMade
    <3>3. avail' = avail
      BY <2>2 DEF PollProducerLock, PollProducerUnlock, PollProducerReturn
    <3> QED BY <1>0, <3>2, <3>3 DEF PollNoUnitLost
  <2> QED BY <2>1, <2>2 DEF PollProducer
<1> QED BY <1>3, <1>4, <1>5, <1>6, <1>7, <1>8

\* Every step preserves the invariant.
LEMMA PollStepKeeps ==
    ASSUME PollInv, [PollNext]_pollVars
    PROVE  PollInv'
<1>1. CASE PollMain
  BY <1>1, MainKeeps
<1>2. ASSUME NEW t \in Producers, PollProducer(t) PROVE PollInv'
  BY <1>2, ProducerKeeps
<1>3. CASE UNCHANGED pollVars
  <2>1. \A n : AskedOf(n)' = AskedOf(n)
    BY <1>3 DEF AskedOf, pollVars
  <2>2. PollProduced' = PollProduced /\ NoneNegative' = NoneNegative
    BY <1>3 DEF PollProduced, NoneNegative, Producers, ProducedBy, pollVars
  <2>3. Cardinality(Units(AskedOf(created)))' = Cardinality(Units(AskedOf(created)))
    BY <1>3 DEF AskedOf, pollVars
  <2> QED BY <1>3, <2>2, <2>3
    DEF pollVars, PollInv, PollTypes, PollOwner, LoopBounds, RequiredInv, DoneInv,
        PollNoUnitLost, Producers
<1> QED BY <1>1, <1>2, <1>3 DEF PollNext, PollTerminated

\* The invariant of prod_no_condvar.c, for every number of producers and every
\* count they are given.
THEOREM PollInvAlways == PollSpec => []PollInv
<1>1. PollInit => PollInv
  BY PollStarts
<1>2. PollInv /\ [PollNext]_pollVars => PollInv'
  BY PollStepKeeps
<1> QED BY <1>1, <1>2, PTL DEF PollSpec

\* Each unit a producer made is available or consumed: no avail++ of
\* prod_no_condvar.c:32 is lost, whoever runs in between.
THEOREM PollConserves == PollSpec => []PollNoUnitLost
<1>1. PollInv => PollNoUnitLost
  BY DEF PollInv
<1> QED BY <1>1, PollInvAlways, PTL

\* No producer changes avail while main() or another producer is between its
\* lock and its unlock, which is why avail++ and avail-- are single steps.
THEOREM PollExclusion ==
    PollSpec => [](\A s \in Producers : prodAt[s] \in {"produce", "unlock"} =>
                  /\ mainAt \notin {"drain", "unlock"}
                  /\ \A t \in Producers : prodAt[t] \in {"produce", "unlock"} => t = s)
<1>1. PollInv => \A s \in Producers : prodAt[s] \in {"produce", "unlock"} =>
                    /\ mainAt \notin {"drain", "unlock"}
                    /\ \A t \in Producers : prodAt[t] \in {"produce", "unlock"} => t = s
  <2>1. ASSUME PollInv PROVE \A s \in Producers : s # MAIN
    BY <2>1, PollFunctions DEF PollInv, Producers, MAIN
  <2> QED BY <2>1 DEF PollInv, PollOwner
<1> QED BY <1>1, PollInvAlways, PTL

\* The producers never make more than they were told to.
LEMMA MadeWithinRequest ==
    ASSUME PollInv
    PROVE  /\ PollProduced \in Nat /\ UnitsRequested \in Nat
           /\ PollProduced <= UnitsRequested
<1>1. /\ Len(argv) \in Nat /\ argv \in [1..Len(argv) -> Int]
      /\ MadeBy \in [1..Len(argv) -> Int]
  BY PollFunctions DEF PollInv
<1>2. \A t \in 1..Len(argv) : MadeBy[t] <= 0 \/ MadeBy[t] <= argv[t]
  <2> TAKE t \in 1..Len(argv)
  <2>1. MadeBy[t] = IF prodAt[t] = "unlock" THEN jOf[t] + 1 ELSE jOf[t]
    BY DEF MadeBy, Producers, ProducedBy
  <2>2. jOf[t] \in Nat /\ argv[t] \in Int
    BY <1>1 DEF PollInv, PollTypes, Producers
  <2>3. /\ prodAt[t] = "unlock" => jOf[t] < argv[t]
        /\ jOf[t] = 0 \/ jOf[t] <= argv[t]
    BY DEF PollInv, LoopBounds, Producers
  <2> QED BY <2>1, <2>2, <2>3
<1>3. Cardinality(Units(MadeBy)) <= Cardinality(Units(argv))
  BY <1>1, <1>2, UnitsMonotone
<1>4. Cardinality(Units(MadeBy)) \in Nat /\ Cardinality(Units(argv)) \in Nat
  BY <1>1, UnitsFinite
<1> QED BY <1>3, <1>4 DEF PollProduced, UnitsRequested, MadeBy

\* No interleaving makes a producer run past the count it was given, so main()
\* never consumes more than was asked for.
THEOREM NoneTooMany == PollSpec => [](PollProduced <= UnitsRequested)
<1>1. PollInv => PollProduced <= UnitsRequested
  BY MadeWithinRequest
<1> QED BY <1>1, PollInvAlways, PTL

\* When main() leaves its loop, nothing is left to make or to consume.
LEMMA DoneMeansAll ==
    ASSUME PollInv, done = TRUE, NoneNegative, mainAt \notin {"create", "exit_fail"}
    PROVE  numConsumed = UnitsRequested /\ avail = 0
<1>1. created = Len(argv) /\ totalRequired = Cardinality(Units(AskedOf(created)))
  BY DEF PollInv, RequiredInv
<1>2. AskedOf(Len(argv)) = argv
  BY PollFunctions DEF PollInv, AskedOf
<1>3. totalRequired = UnitsRequested
  BY <1>1, <1>2 DEF UnitsRequested
<1>4. numConsumed >= totalRequired
  BY DEF PollInv, DoneInv
<1>5. PollProduced = numConsumed + avail /\ numConsumed \in Nat /\ avail \in Nat
  BY DEF PollInv, PollNoUnitLost, PollTypes
<1> QED BY <1>3, <1>4, <1>5, MadeWithinRequest

\* main() returns only after it has consumed all units any producer makes,
\* provided no count is negative (prod_no_condvar.c:52 and 99).
THEOREM ExitComplete == PollSpec => []ExitMeansAllConsumed
<1>1. PollInv => ExitMeansAllConsumed
  <2> SUFFICES ASSUME PollInv, mainAt = "exit_ok", NoneNegative
               PROVE  numConsumed = UnitsRequested /\ avail = 0
    BY DEF ExitMeansAllConsumed
  <2>1. done = TRUE
    BY DEF PollInv, DoneInv
  <2> QED BY <2>1, DoneMeansAll
<1> QED BY <1>1, PollInvAlways, PTL

-----------------------------------------------------------------------------
(* The refinement of UnitTransfer.                                          *)

\* A step that leaves the counts and where main() stands is a stuttering step.
LEMMA PollStutters ==
    ASSUME argv' = argv, PollProduced' = PollProduced, avail' = avail,
           numConsumed' = numConsumed, mainAt' = mainAt \/ (PollRunning /\ PollRunning')
    PROVE  UNCHANGED PollTransfer!utVars
<1>1. UnitsRequested' = UnitsRequested /\ NoneNegative' = NoneNegative
  BY DEF UnitsRequested, NoneNegative, Producers
<1> QED BY <1>1 DEF PollTransfer!utVars, PollRunning

\* Every step is a step of the transfer or leaves it alone.
LEMMA PollStepRefines ==
    ASSUME PollInv, (PollProduced <= UnitsRequested)', [PollNext]_pollVars
    PROVE  [PollTransfer!Next]_PollTransfer!utVars
<1>1. ASSUME NEW t \in Producers, PollProducer(t)
      PROVE  [PollTransfer!Next]_PollTransfer!utVars
  <2>1. UNCHANGED <<argv, mainAt, numConsumed>> /\ PollRunning
    BY <1>1 DEF PollProducer, PollProducerLock, PollProduce, PollProducerUnlock, PollProducerReturn
  <2>2. UnitsRequested' = UnitsRequested /\ PollRunning'
    BY <2>1 DEF UnitsRequested, PollRunning
  <2>3. CASE PollProduce(t)
    <3>1. PollProduced' = PollProduced + 1 /\ avail' = avail + 1
      BY <2>3, ProduceMakes DEF PollProduce, PollInv
    <3>2. PollProduced < UnitsRequested
      BY <2>2, <3>1, MadeWithinRequest
    <3> QED BY <2>1, <2>2, <3>1, <3>2 DEF PollTransfer!Next, PollTransfer!Make
  <2>4. CASE ~PollProduce(t)
    <3>1. \A s \in Producers : ProducedBy(s)' = ProducedBy(s)
      BY <1>1, <2>4
      DEF PollProducer, PollProducerLock, PollProducerUnlock, PollProducerReturn, ProducedBy, PollInv, PollTypes
    <3>2. avail' = avail
      BY <1>1, <2>4 DEF PollProducer, PollProducerLock, PollProducerUnlock, PollProducerReturn
    <3> QED BY <2>1, <3>1, <3>2, SameMade, PollStutters
  <2> QED BY <2>3, <2>4
<1>2. ASSUME PollMain
      PROVE  [PollTransfer!Next]_PollTransfer!utVars
  <2>1. PollRunning /\ argv' = argv
    BY <1>2 DEF PollMain, Create, StartPolling, MainLock, MainDrain, MainUnlock, MainTest,
                PollRunning, PollEnded
  <2>2. UnitsRequested' = UnitsRequested /\ NoneNegative' = NoneNegative
    BY <2>1 DEF UnitsRequested, NoneNegative, Producers
  <2>3. PollProduced' = PollProduced
    <3>1. \A t \in Producers : ProducedBy(t)' = ProducedBy(t)
      <4>1. CASE Create
        BY <4>1, CreateMakesNone DEF PollInv
      <4>2. CASE ~Create
        BY <1>2, <4>2
        DEF PollMain, StartPolling, MainLock, MainDrain, MainUnlock, MainTest, ProducedBy
      <4> QED BY <4>1, <4>2
    <3> QED BY <2>1, <3>1, SameMade
  <2>4. CASE MainDrain /\ avail > 0
    <3>1. avail' = avail - 1 /\ numConsumed' = numConsumed + 1 /\ mainAt' = mainAt
      BY <2>4 DEF MainDrain, PollInv, PollTypes
    <3> QED BY <2>1, <2>2, <2>3, <2>4, <3>1 DEF PollTransfer!Next, PollTransfer!Take, PollRunning
  <2>5. CASE ~(MainDrain /\ avail > 0)
    <3>1. avail' = avail /\ numConsumed' = numConsumed
      BY <1>2, <2>5 DEF PollMain, Create, StartPolling, MainLock, MainDrain, MainUnlock, MainTest
    <3>2. CASE PollRunning'
      BY <2>1, <2>3, <3>1, <3>2, PollStutters
    <3>3. CASE mainAt' = "exit_fail"
      BY <2>1, <2>2, <2>3, <3>1, <3>3 DEF PollTransfer!Next, PollTransfer!GiveUp, PollRunning, PollEnded
    <3>4. CASE mainAt' = "exit_ok"
      <4>1. mainAt = "test" /\ done = TRUE
        BY <1>2, <3>4
        DEF PollMain, Create, StartPolling, MainLock, MainDrain, MainUnlock, MainTest, PollInv, DoneInv
      <4>2. CASE NoneNegative
        <5>1. numConsumed = UnitsRequested
          BY <4>1, <4>2, DoneMeansAll
        <5> QED BY <2>1, <2>2, <2>3, <3>1, <3>4, <4>2, <5>1
          DEF PollTransfer!Next, PollTransfer!Complete, PollRunning, PollEnded
      <4>3. CASE ~NoneNegative
        BY <2>1, <2>2, <2>3, <3>1, <3>4, <4>3
        DEF PollTransfer!Next, PollTransfer!GiveUp, PollRunning, PollEnded
      <4> QED BY <4>2, <4>3
    <3> QED BY <3>2, <3>3, <3>4 DEF PollRunning, PollEnded
  <2> QED BY <2>4, <2>5
<1>3. CASE UNCHANGED pollVars
  <2>1. PollProduced' = PollProduced
    BY <1>3 DEF pollVars, PollProduced, Producers, ProducedBy
  <2> QED BY <1>3, <2>1, PollStutters DEF pollVars
<1> QED BY <1>1, <1>2, <1>3 DEF PollNext, PollTerminated

\* The polling program implements UnitTransfer for every number of producers
\* and every count.
THEOREM PollRefinement == PollSpec => PollImplementsTransfer
<1>1. PollInit => PollTransfer!Init
  <2> SUFFICES ASSUME PollInit PROVE PollTransfer!Init
    OBVIOUS
  <2>1. PollInv
    BY PollStarts
  <2>2. PollProduced = 0
    BY <2>1, MadeWithinRequest DEF PollInit, PollInv, PollNoUnitLost
  <2> QED BY <2>1, <2>2, MadeWithinRequest DEF PollInit, PollTransfer!Init, PollRunning, PollEnded
<1>2. PollInv /\ (PollProduced <= UnitsRequested)' /\ [PollNext]_pollVars =>
        [PollTransfer!Next]_PollTransfer!utVars
  BY PollStepRefines
<1> QED BY <1>1, <1>2, PollInvAlways, NoneTooMany, PTL
  DEF PollSpec, PollImplementsTransfer, PollTransfer!Spec
-----------------------------------------------------------------------------
\* What is proved of each program holds of the run of any of them: the ones
\* that are not run do not move.
THEOREM TransfersSafe ==
    TransferSpec =>
        /\ []TypeOK /\ []NoUnitLost /\ []StrandedBound /\ ImplementsTransfer
        /\ []PollNoUnitLost /\ []ExitMeansAllConsumed /\ PollImplementsTransfer
        /\ []EchoNeverStuck /\ []StreamIntact
<1>1. TransferInit => EchoInit /\ HInit /\ Init /\ PollInit
  BY DEF TransferInit
<1>2. [TransferNext]_transferVars =>
        [EchoNext]_echoVars /\ [HNext]_hVars /\ [Next]_vars /\ [PollNext]_pollVars
  BY DEF TransferNext, transferVars, EchoStep, HStep, CondvarStep, PollingStep, Quiet
<1>3. TransferSpec => EchoSpec /\ HSpec /\ Spec /\ PollSpec
  BY <1>1, <1>2, PTL DEF TransferSpec, EchoSpec, HSpec, Spec, PollSpec
<1>4. EchoSpec /\ HSpec => []EchoNeverStuck /\ []StreamIntact
  BY NeverStuck, TransferIntact
<1>5. Spec => []TypeOK /\ []NoUnitLost /\ []StrandedBound /\ ImplementsTransfer
  BY TypeCorrect, UnitsConserved, StrandedUnits, Refinement
<1>6. PollSpec => []PollNoUnitLost /\ []ExitMeansAllConsumed /\ PollImplementsTransfer
  BY PollConserves, ExitComplete, PollRefinement
<1> QED BY <1>3, <1>4, <1>5, <1>6
=============================================================================
