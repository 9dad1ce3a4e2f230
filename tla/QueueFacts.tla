----------------------------- MODULE QueueFacts -----------------------------
(***************************************************************************)
(* What the operations on queues of jobs return: the proofs about          *)
(* JobManager and StackMove rest on these facts.                           *)
(***************************************************************************)
EXTENDS Naturals, Sequences, SequencesExt, SequenceTheorems, TLAPS

\* What taking element i out of a sequence leaves (Cancel of a waiting job).
LEMMA RemoveAtLemma ==
  ASSUME NEW S, NEW s \in Seq(S), NEW i \in DOMAIN s
  PROVE  /\ RemoveAt(s, i) \in Seq(S)
         /\ Len(RemoveAt(s, i)) = Len(s) - 1
         /\ \A k \in 1..(Len(s) - 1) :
              RemoveAt(s, i)[k] = s[IF k < i THEN k ELSE k + 1]
<1> DEFINE a == SubSeq(s, 1, i - 1)
           b == SubSeq(s, i + 1, Len(s))
<1>1. i \in 1..Len(s) /\ Len(s) \in Nat
  OBVIOUS
<1>2. a \in Seq(S) /\ Len(a) = i - 1 /\ \A k \in 1..(i - 1) : a[k] = s[k]
  BY <1>1
<1>3. b \in Seq(S) /\ Len(b) = Len(s) - i /\ \A k \in 1..(Len(s) - i) : b[k] = s[i + k]
  BY <1>1
<1>4. RemoveAt(s, i) = a \o b
  BY DEF RemoveAt
<1> HIDE DEF a, b
<1>5. /\ a \o b \in Seq(S)
      /\ Len(a \o b) = Len(a) + Len(b)
      /\ \A k \in 1..(Len(a) + Len(b)) :
           (a \o b)[k] = IF k <= Len(a) THEN a[k] ELSE b[k - Len(a)]
  BY <1>2, <1>3, ConcatProperties
<1>6. ASSUME NEW k \in 1..(Len(s) - 1)
      PROVE  (a \o b)[k] = s[IF k < i THEN k ELSE k + 1]
  <2>1. (a \o b)[k] = IF k <= Len(a) THEN a[k] ELSE b[k - Len(a)]
    <3>1. k \in 1..(Len(a) + Len(b))
      BY <1>1, <1>2, <1>3
    <3>2. QED
      BY <1>5, <3>1
  <2>2. ASSUME k < i
        PROVE  (a \o b)[k] = s[k]
    BY <1>1, <1>2, <2>1, <2>2
  <2>3. ASSUME ~(k < i)
        PROVE  (a \o b)[k] = s[k + 1]
    <3>1. (a \o b)[k] = b[k - (i - 1)] /\ k - (i - 1) \in 1..(Len(s) - i)
      BY <1>1, <1>2, <2>1, <2>3
    <3>2. i + (k - (i - 1)) = k + 1
      BY <1>1
    <3>3. QED
      BY <1>3, <3>1, <3>2
  <2>4. QED
    BY <2>2, <2>3
<1>7. Len(a) + Len(b) = Len(s) - 1
  BY <1>1, <1>2, <1>3
<1>8. QED
  BY <1>4, <1>5, <1>6, <1>7, Zenon

\* The end of the job at the head of a queue.
LEMMA TailLemma ==
  ASSUME NEW S, NEW s \in Seq(S), s # <<>>
  PROVE  /\ Tail(s) \in Seq(S) /\ Len(Tail(s)) = Len(s) - 1 /\ Len(s) >= 1
         /\ \A k \in DOMAIN Tail(s) : k + 1 \in DOMAIN s /\ Tail(s)[k] = s[k + 1]
<1>1. Len(s) \in Nat /\ Len(s) >= 1 /\ DOMAIN s = 1..Len(s)
  BY EmptySeq, LenProperties
<1>2. /\ Tail(s) \in Seq(S) /\ Len(Tail(s)) = Len(s) - 1
      /\ \A k \in 1..Len(Tail(s)) : Tail(s)[k] = s[k + 1]
  BY HeadTailProperties
<1>3. DOMAIN Tail(s) = 1..(Len(s) - 1)
  BY <1>2, LenProperties
<1>4. QED
  BY <1>1, <1>2, <1>3

\* The job being executed, and behind it those that wait.
LEMMA BehindLemma ==
  ASSUME NEW S, NEW r \in S, NEW s \in Seq(S)
  PROVE  /\ <<r>> \o s \in Seq(S)
         /\ Len(<<r>> \o s) = Len(s) + 1
         /\ (<<r>> \o s)[1] = r
         /\ \A k \in 1..Len(s) : (<<r>> \o s)[k + 1] = s[k]
         /\ Tail(<<r>> \o s) = s
         /\ \A x \in S : <<r>> \o Append(s, x) = Append(<<r>> \o s, x)
<1> DEFINE a == <<r>>
<1>1. a \in Seq(S) /\ Len(a) = 1 /\ a[1] = r
  OBVIOUS
<1> HIDE DEF a
<1>2. /\ a \o s \in Seq(S) /\ Len(a \o s) = Len(a) + Len(s)
      /\ \A i \in 1..(Len(a) + Len(s)) :
           (a \o s)[i] = IF i <= Len(a) THEN a[i] ELSE s[i - Len(a)]
  BY <1>1, ConcatProperties
<1>3. /\ Len(a \o s) = Len(s) + 1 /\ (a \o s)[1] = r
      /\ \A k \in 1..Len(s) : (a \o s)[k + 1] = s[k]
      /\ Len(s) \in Nat
  BY <1>1, <1>2
<1>4. Tail(a \o s) = s
  BY <1>2, <1>3, HeadTailProperties, SeqEqual
<1>5. ASSUME NEW x \in S
      PROVE  a \o Append(s, x) = Append(a \o s, x)
  BY <1>1, <1>2, AppendIsConcat, ConcatAssociative
<1>6. QED
  BY <1>2, <1>3, <1>4, <1>5 DEF a

\* The one that waited longest, and behind it the others, are all of them.
LEMMA AheadLemma ==
  ASSUME NEW S, NEW s \in Seq(S), s # <<>>
  PROVE  Head(s) \in S /\ <<Head(s)>> \o Tail(s) = s
<1> DEFINE t == Tail(s)
           v == <<Head(s)>> \o t
<1>1. /\ Len(s) \in Nat /\ Len(s) >= 1 /\ Head(s) = s[1] /\ Head(s) \in S
      /\ t \in Seq(S) /\ Len(t) = Len(s) - 1
      /\ \A k \in 1..Len(t) : t[k] = s[k + 1]
  BY EmptySeq, LenProperties, HeadTailProperties
<1> HIDE DEF t
<1>2. /\ v \in Seq(S) /\ Len(v) = Len(t) + 1 /\ v[1] = Head(s)
      /\ \A k \in 1..Len(t) : v[k + 1] = t[k]
  BY <1>1, BehindLemma
<1> HIDE DEF v
<1>3. Len(v) = Len(s)
  BY <1>1, <1>2
<1>4. ASSUME NEW k \in 1..Len(s)
      PROVE  v[k] = s[k]
  <2>1. CASE k = 1
    BY <1>1, <1>2, <2>1
  <2>2. CASE k # 1
    <3>1. k - 1 \in 1..Len(t) /\ (k - 1) + 1 = k
      BY <1>1, <2>2
    <3>2. v[(k - 1) + 1] = t[k - 1] /\ t[k - 1] = s[(k - 1) + 1]
      BY <1>1, <1>2, <3>1
    <3>3. QED
      BY <3>1, <3>2
  <2>3. QED
    BY <2>1, <2>2
<1>5. v = s
  BY <1>2, <1>3, <1>4, SeqEqual
<1>6. QED
  BY <1>1, <1>5 DEF v, t

\* Taking out one who waits leaves the one in front of them where it is.
LEMMA RemoveBehindLemma ==
  ASSUME NEW S, NEW r \in S, NEW s \in Seq(S), NEW i \in DOMAIN s
  PROVE  RemoveAt(<<r>> \o s, i + 1) = <<r>> \o RemoveAt(s, i)
<1> DEFINE w == <<r>> \o s
           t == RemoveAt(s, i)
           u == RemoveAt(w, i + 1)
           v == <<r>> \o t
<1>1. i \in 1..Len(s) /\ Len(s) \in Nat
  OBVIOUS
<1>2. /\ w \in Seq(S) /\ Len(w) = Len(s) + 1 /\ w[1] = r
      /\ \A k \in 1..Len(s) : w[k + 1] = s[k]
  BY BehindLemma
<1> HIDE DEF w
<1>3. /\ t \in Seq(S) /\ Len(t) = Len(s) - 1
      /\ \A k \in 1..(Len(s) - 1) : t[k] = s[IF k < i THEN k ELSE k + 1]
  BY RemoveAtLemma
<1> HIDE DEF t
<1>4. /\ v \in Seq(S) /\ Len(v) = Len(t) + 1 /\ v[1] = r
      /\ \A k \in 1..Len(t) : v[k + 1] = t[k]
  BY <1>3, BehindLemma
<1> HIDE DEF v
<1>5. i + 1 \in DOMAIN w
  BY <1>1, <1>2
<1>6. /\ u \in Seq(S) /\ Len(u) = Len(w) - 1
      /\ \A k \in 1..(Len(w) - 1) : u[k] = w[IF k < i + 1 THEN k ELSE k + 1]
  BY <1>2, <1>5, RemoveAtLemma
<1> HIDE DEF u
<1>7. Len(u) = Len(v) /\ Len(u) = Len(s)
  BY <1>1, <1>2, <1>3, <1>4, <1>6
<1>8. ASSUME NEW k \in 1..Len(u)
      PROVE  u[k] = v[k]
  <2>1. k \in 1..(Len(w) - 1) /\ u[k] = w[IF k < i + 1 THEN k ELSE k + 1]
    BY <1>1, <1>2, <1>6, <1>7
  <2>2. CASE k = 1
    BY <1>1, <1>2, <1>4, <2>1, <2>2
  <2>3. CASE k # 1
    <3>1. k - 1 \in 1..(Len(s) - 1) /\ (k - 1) + 1 = k
      BY <1>1, <1>7, <2>3
    <3>2. v[k] = t[k - 1] /\ t[k - 1] = s[IF k - 1 < i THEN k - 1 ELSE (k - 1) + 1]
      BY <1>3, <1>4, <3>1
    <3>3. CASE k < i + 1
      <4>1. k - 1 < i /\ u[k] = w[(k - 1) + 1] /\ k - 1 \in 1..Len(s)
        BY <1>1, <1>7, <2>1, <2>3, <3>1, <3>3
      <4>2. QED
        BY <1>2, <3>2, <4>1
    <3>4. CASE ~(k < i + 1)
      <4>1. ~(k - 1 < i) /\ u[k] = w[k + 1] /\ k \in 1..Len(s)
        BY <1>1, <1>7, <2>1, <3>4
      <4>2. QED
        BY <1>2, <3>1, <3>2, <4>1
    <3>5. QED
      BY <3>3, <3>4
  <2>4. QED
    BY <2>2, <2>3
<1>9. u = v
  BY <1>4, <1>6, <1>7, <1>8, SeqEqual
<1>10. QED
  BY <1>9 DEF u, v, w, t
=============================================================================
