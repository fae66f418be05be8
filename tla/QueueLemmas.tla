----------------------------- MODULE QueueLemmas -----------------------------
(***************************************************************************)
(* What the queue operations of the models do to the elements of a         *)
(* sequence: the facts the proofs about CdpClient and Cluster rest on.     *)
(***************************************************************************)
EXTENDS Integers, Sequences, SequenceTheorems, TLAPS

\* A prefix of a sequence holds the sequence's elements at their places.
LEMMA PrefixProperties ==
  ASSUME NEW S, NEW s \in Seq(S), NEW n \in 0 .. Len(s)
  PROVE  /\ SubSeq(s, 1, n) \in Seq(S)
         /\ Len(SubSeq(s, 1, n)) = n
         /\ \A k \in 1 .. n : SubSeq(s, 1, n)[k] = s[k]
<1>1. \A k \in 1 .. n : s[k] \in S
  OBVIOUS
<1>2. n \in Int /\ 1 \in Int
  OBVIOUS
<1>3. /\ SubSeq(s, 1, n) \in Seq(S)
      /\ Len(SubSeq(s, 1, n)) = IF 1 <= n THEN n - 1 + 1 ELSE 0
      /\ \A k \in 1 .. n - 1 + 1 : SubSeq(s, 1, n)[k] = s[1 + k - 1]
  BY <1>1, <1>2, SubSeqProperties
<1> QED
  BY <1>3

\* What a sequence holds, and that it holds nothing twice.
Elements(s)        == {s[k] : k \in 1 .. Len(s)}
HasNoDuplicates(s) == \A j, k \in 1 .. Len(s) : s[j] = s[k] => j = k

\* Appending a new element adds it and keeps a sequence free of duplicates.
LEMMA AppendElements ==
  ASSUME NEW S, NEW s \in Seq(S), NEW e \in S
  PROVE  /\ Elements(Append(s, e)) = Elements(s) \cup {e}
         /\ HasNoDuplicates(s) /\ e \notin Elements(s) => HasNoDuplicates(Append(s, e))
<1> DEFINE t == Append(s, e)
<1>1. /\ Len(t) = Len(s) + 1
      /\ \A k \in 1 .. Len(s) : t[k] = s[k]
      /\ t[Len(s) + 1] = e
      /\ Len(s) \in Nat
  OBVIOUS
<1> HIDE DEF t
<1>2. Elements(t) = Elements(s) \cup {e}
  BY <1>1 DEF Elements
<1>3. HasNoDuplicates(s) /\ e \notin Elements(s) => HasNoDuplicates(t)
  BY <1>1 DEF Elements, HasNoDuplicates
<1> QED
  BY <1>2, <1>3 DEF t

\* Taking the head of a sequence without duplicates leaves the others.
LEMMA TailElements ==
  ASSUME NEW S, NEW s \in Seq(S), s # << >>
  PROVE  /\ Elements(s) = Elements(Tail(s)) \cup {Head(s)}
         /\ HasNoDuplicates(s) => /\ HasNoDuplicates(Tail(s))
                             /\ Head(s) \notin Elements(Tail(s))
<1> DEFINE t == Tail(s)
<1>1. /\ Len(t) = Len(s) - 1
      /\ \A k \in 1 .. Len(t) : t[k] = s[k + 1]
      /\ Len(s) \in Nat \ {0}
      /\ Head(s) = s[1]
  BY HeadTailProperties
<1> HIDE DEF t
<1>2. Elements(s) = Elements(t) \cup {s[1]}
  <2>1. ASSUME NEW k \in 1 .. Len(s) PROVE s[k] \in Elements(t) \cup {s[1]}
    <3>1. CASE k = 1
      BY <3>1
    <3>2. CASE k # 1
      <4>1. k - 1 \in 1 .. Len(t) /\ t[k - 1] = s[(k - 1) + 1] /\ (k - 1) + 1 = k
        BY <1>1, <3>2
      <4> QED
        BY <4>1 DEF Elements
    <3> QED
      BY <3>1, <3>2
  <2> QED
    BY <1>1, <2>1 DEF Elements
<1>3. HasNoDuplicates(s) => HasNoDuplicates(t) /\ s[1] \notin Elements(t)
  BY <1>1 DEF Elements, HasNoDuplicates
<1> QED
  BY <1>1, <1>2, <1>3 DEF t

\* Popping the last element of a sequence without duplicates leaves the others.
LEMMA FrontElements ==
  ASSUME NEW S, NEW s \in Seq(S), s # << >>
  PROVE  LET t == SubSeq(s, 1, Len(s) - 1) IN
         /\ t \in Seq(S) /\ Len(t) = Len(s) - 1
         /\ Elements(s) = Elements(t) \cup {s[Len(s)]}
         /\ HasNoDuplicates(s) => HasNoDuplicates(t) /\ s[Len(s)] \notin Elements(t)
<1> DEFINE n == Len(s) - 1
           t == SubSeq(s, 1, n)
<1>1. n \in 0 .. Len(s) /\ Len(s) \in Nat \ {0} /\ Len(s) = n + 1
  OBVIOUS
<1>2. t \in Seq(S) /\ Len(t) = n /\ \A k \in 1 .. n : t[k] = s[k]
  BY <1>1, PrefixProperties
<1> HIDE DEF t, n
<1>3. Elements(s) = Elements(t) \cup {s[Len(s)]}
  BY <1>1, <1>2 DEF Elements
<1>4. HasNoDuplicates(s) => HasNoDuplicates(t) /\ s[Len(s)] \notin Elements(t)
  BY <1>1, <1>2 DEF Elements, HasNoDuplicates
<1> QED
  BY <1>1, <1>2, <1>3, <1>4 DEF t, n

\* Taking one element out of the middle leaves the others in their order.
LEMMA RemoveAtElements ==
  ASSUME NEW S, NEW s \in Seq(S), NEW p \in 1 .. Len(s)
  PROVE  LET t == SubSeq(s, 1, p - 1) \o SubSeq(s, p + 1, Len(s)) IN
         /\ t \in Seq(S)
         /\ Elements(s) = Elements(t) \cup {s[p]}
         /\ HasNoDuplicates(s) => HasNoDuplicates(t) /\ s[p] \notin Elements(t)
<1> DEFINE a == SubSeq(s, 1, p - 1)
           b == SubSeq(s, p + 1, Len(s))
           t == a \o b
<1>1. a \in Seq(S) /\ Len(a) = p - 1 /\ \A k \in 1 .. p - 1 : a[k] = s[k]
  BY PrefixProperties
<1>2. /\ b \in Seq(S) /\ Len(b) = Len(s) - p
      /\ \A k \in 1 .. Len(s) - p : b[k] = s[p + k]
  <2>1. \A k \in p + 1 .. Len(s) : s[k] \in S
    OBVIOUS
  <2> HIDE DEF b
  <2>2. /\ b \in Seq(S)
        /\ Len(b) = IF p + 1 <= Len(s) THEN Len(s) - (p + 1) + 1 ELSE 0
        /\ \A k \in 1 .. Len(s) - (p + 1) + 1 : b[k] = s[p + 1 + k - 1]
    BY <2>1, SubSeqProperties DEF b
  <2> QED
    BY <2>2
<1> HIDE DEF a, b
<1>3. /\ t \in Seq(S) /\ Len(t) = Len(s) - 1
      /\ \A k \in 1 .. Len(s) - 1 : t[k] = IF k < p THEN s[k] ELSE s[k + 1]
  <2>1. /\ a \o b \in Seq(S)
        /\ Len(a \o b) = Len(a) + Len(b)
        /\ \A k \in 1 .. Len(a) + Len(b) :
              (a \o b)[k] = IF k <= Len(a) THEN a[k] ELSE b[k - Len(a)]
    BY <1>1, <1>2, ConcatProperties
  <2>2. Len(a) + Len(b) = Len(s) - 1 /\ Len(s) \in Nat
    BY <1>1, <1>2
  <2> HIDE DEF t
  <2>3. ASSUME NEW k \in 1 .. Len(s) - 1
        PROVE  t[k] = IF k < p THEN s[k] ELSE s[k + 1]
    <3>1. CASE k < p
      BY <1>1, <2>1, <2>2, <3>1 DEF t
    <3>2. CASE ~(k < p)
      <4>1. k - Len(a) \in 1 .. Len(s) - p /\ p + (k - Len(a)) = k + 1
        BY <1>1, <3>2
      <4>2. b[k - Len(a)] = s[k + 1]
        BY <1>2, <4>1
      <4>3. k \in 1 .. Len(a) + Len(b) /\ ~(k <= Len(a))
        BY <1>1, <2>2, <3>2
      <4>4. (a \o b)[k] = b[k - Len(a)]
        BY <2>1, <4>3
      <4> QED
        BY <3>2, <4>2, <4>4 DEF t
    <3> QED
      BY <3>1, <3>2
  <2> QED
    BY <2>1, <2>2, <2>3 DEF t
<1> HIDE DEF t
<1>4. Elements(s) = Elements(t) \cup {s[p]}
  <2>1. Elements(t) \subseteq Elements(s)
    BY <1>3 DEF Elements
  <2>2. ASSUME NEW k \in 1 .. Len(s), k # p
        PROVE  s[k] \in Elements(t)
    <3>1. CASE k < p
      <4>1. k \in 1 .. Len(t) /\ t[k] = s[k]
        BY <1>3, <3>1
      <4> QED
        BY <4>1 DEF Elements
    <3>2. CASE p < k
      <4>1. k - 1 \in 1 .. Len(t) /\ t[k - 1] = s[(k - 1) + 1] /\ (k - 1) + 1 = k
        BY <1>3, <3>2
      <4> QED
        BY <4>1 DEF Elements
    <3> QED
      BY <2>2, <3>1, <3>2
  <2> QED
    BY <2>1, <2>2 DEF Elements
<1>5. HasNoDuplicates(s) => HasNoDuplicates(t) /\ s[p] \notin Elements(t)
  BY <1>3 DEF Elements, HasNoDuplicates
<1> QED
  BY <1>3, <1>4, <1>5 DEF t, a, b
=============================================================================
