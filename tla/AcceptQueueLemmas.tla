-------------------------- MODULE AcceptQueueLemmas -------------------------
(***************************************************************************)
(* What the proofs about the three servers need to know of their accept    *)
(* queue, and of the lowest free number of a set.                          *)
(***************************************************************************)
EXTENDS Integers, Sequences, FiniteSetsExt, SequenceTheorems, WellFoundedInduction, TLAPS

\* Client c waits in the accept queue q, and no client waits twice.
InQ(c, q) == \E k \in 1..Len(q) : q[k] = c
Distinct(q) == \A k, l \in 1..Len(q) : q[k] = q[l] => k = l

\* The lowest free descriptor, which accept() returns, or the lowest free process
\* number is a free one.
LEMMA LeastExists ==
    ASSUME NEW S \in SUBSET Nat, S # {}
    PROVE  Min(S) \in S
<1>1. PICK x \in S : \A y \in S : ~(<<y, x>> \in OpToRel(<, Nat))
  BY NatLessThanWellFounded, WFMin, Zenon
<1>2. ASSUME NEW y \in S PROVE x =< y
  <2>1. x \in Nat /\ y \in Nat
    OBVIOUS
  <2>2. <<y, x>> \in Nat \X Nat /\ <<y, x>>[1] = y /\ <<y, x>>[2] = x
    BY <2>1
  <2>3. y < x => <<y, x>>[1] < <<y, x>>[2]
    BY <2>2
  <2>4. y < x => <<y, x>> \in OpToRel(<, Nat)
    BY <2>2, <2>3, Zenon DEF OpToRel
  <2>5. ~(y < x)
    BY <1>1, <2>4, Zenon
  <2> QED BY <2>1, <2>5
<1> QED BY <1>2 DEF Min

\* accept() takes the first connection of the queue.
LEMMA QueueHead ==
    ASSUME NEW C, NEW q \in Seq(C), q # <<>>, Distinct(q)
    PROVE  /\ Head(q) \in C /\ InQ(Head(q), q)
           /\ Tail(q) \in Seq(C) /\ Distinct(Tail(q))
           /\ \A c : InQ(c, Tail(q)) <=> InQ(c, q) /\ c # Head(q)
<1> DEFINE t == Tail(q)
<1>1. /\ Head(q) \in C /\ t \in Seq(C) /\ Len(t) = Len(q) - 1
      /\ \A k \in 1..Len(t) : t[k] = q[k + 1]
  BY HeadTailProperties, Zenon
<1>2. Len(q) \in Nat \ {0} /\ Head(q) = q[1]
  BY EmptySeq
<1> HIDE DEF t
<1>3. Distinct(t)
  BY <1>1, <1>2 DEF Distinct
<1>4. InQ(Head(q), q)
  BY <1>2 DEF InQ
<1>5. ASSUME NEW c, InQ(c, t) PROVE InQ(c, q) /\ c # Head(q)
  <2>1. PICK k \in 1..Len(t) : t[k] = c
    BY <1>5 DEF InQ
  <2>2. k + 1 \in 1..Len(q) /\ 1 \in 1..Len(q) /\ k + 1 # 1 /\ q[k + 1] = c
    BY <1>1, <1>2, <2>1
  <2> QED BY <1>2, <2>2 DEF InQ, Distinct
<1>6. ASSUME NEW c, InQ(c, q), c # Head(q) PROVE InQ(c, t)
  <2>1. PICK k \in 1..Len(q) : q[k] = c
    BY <1>6 DEF InQ
  <2>2. k - 1 \in 1..Len(t) /\ (k - 1) + 1 = k
    BY <1>1, <1>2, <1>6, <2>1
  <2>3. t[k - 1] = c
    BY <1>1, <2>1, <2>2
  <2> QED BY <2>2, <2>3 DEF InQ
<1> QED BY <1>1, <1>3, <1>4, <1>5, <1>6 DEF t

\* connect() puts a connection at the end of the queue.
LEMMA QueueAppend ==
    ASSUME NEW C, NEW q \in Seq(C), NEW c \in C, Distinct(q), ~InQ(c, q)
    PROVE  /\ Append(q, c) \in Seq(C) /\ Distinct(Append(q, c))
           /\ Append(q, c) # <<>>
           /\ \A d : InQ(d, Append(q, c)) <=> InQ(d, q) \/ d = c
<1> DEFINE t == Append(q, c)
<1>1. /\ t \in Seq(C) /\ Len(t) = Len(q) + 1 /\ t[Len(q) + 1] = c
      /\ \A k \in 1..Len(q) : t[k] = q[k]
  BY AppendProperties
<1>2. Len(q) \in Nat
  OBVIOUS
<1> HIDE DEF t
<1>3. \A k \in 1..Len(t) : k = Len(q) + 1 \/ k \in 1..Len(q)
  BY <1>1, <1>2
<1>4. \A k \in 1..Len(q) : q[k] # c
  BY DEF InQ
<1>5. Distinct(t)
  BY <1>1, <1>3, <1>4 DEF Distinct
<1>6. \A d : InQ(d, t) => InQ(d, q) \/ d = c
  BY <1>1, <1>3 DEF InQ
<1>7. \A k \in 1..Len(q) : k \in 1..Len(t)
  BY <1>1, <1>2
<1>8. Len(q) + 1 \in 1..Len(t) /\ Len(t) # 0
  BY <1>1, <1>2
<1>9. \A d : InQ(d, q) \/ d = c => InQ(d, t)
  BY <1>1, <1>7, <1>8 DEF InQ
<1>10. t # <<>>
  BY <1>8
<1> QED BY <1>1, <1>5, <1>6, <1>9, <1>10 DEF t
=============================================================================
