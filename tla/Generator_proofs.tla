--------------------------- MODULE Generator_proofs ---------------------------
(***************************************************************************)
(* Proofs about a run of Generator, for any schema and whatever an earlier *)
(* run left: what is in the two directories when it stops.                 *)
(***************************************************************************)
EXTENDS Generator, FiniteSetTheorems, TLAPS

-----------------------------------------------------------------------------
(* What a set grows into.                                                  *)

Closed(more, C) == more[C] \subseteq C

\* R is the least set of S, around T, that is.
LeastClosed(S, more, T, R) ==
    /\ R \in SUBSET S /\ T \subseteq R /\ Closed(more, R)
    /\ \A C \in SUBSET S : T \subseteq C /\ Closed(more, C) => R \subseteq C

Monotone(S, more) ==
    /\ more \in [SUBSET S -> SUBSET S]
    /\ \A A, B \in SUBSET S : A \subseteq B => more[A] \subseteq more[B]

LEMMA FiniteHasMaximal ==
  ASSUME NEW S, IsFiniteSet(S), NEW Bad \in SUBSET SUBSET S, Bad # {}
  PROVE  \E T \in Bad : \A U \in Bad : T \subseteq U => U = T
<1> DEFINE Rest == {S \ T : T \in Bad}
<1>1. IsWellFoundedOn(StrictSubsetOrdering(S), SUBSET S)
  BY FS_StrictSubsetOrderingWellFounded, FS_FiniteSubsetsOfFinite
<1>2. Rest # {} /\ Rest \subseteq SUBSET S
  <2>1. PICK T \in Bad : TRUE
    OBVIOUS
  <2>2. S \ T \in Rest
    OBVIOUS
  <2>3. ASSUME NEW R \in Rest PROVE R \in SUBSET S
    <3>1. PICK U \in Bad : R = S \ U
      OBVIOUS
    <3> QED
      BY <3>1
  <2> HIDE DEF Rest
  <2> QED
    BY <2>2, <2>3
<1>3. PICK R \in Rest : \A Q \in Rest : ~(<<Q, R>> \in StrictSubsetOrdering(S))
  <2> HIDE DEF Rest
  <2> QED
    BY <1>1, <1>2, WFMin
<1>4. PICK T \in Bad : R = S \ T
  BY <1>3
<1>5. ASSUME NEW U \in Bad, T \subseteq U PROVE U = T
  <2>1. S \ U \in Rest /\ S \ U \subseteq R
    BY <1>4, <1>5
  <2>2. S \ U = R
    BY <2>1, <1>2, <1>3 DEF StrictSubsetOrdering
  <2> QED
    BY <2>2, <1>4, <1>5
<1> QED
  BY <1>5

LEMMA GrownIsLeast ==
  ASSUME NEW S, IsFiniteSet(S), NEW more, Monotone(S, more), NEW T \in SUBSET S
  PROVE  LeastClosed(S, more, T, Grown(S, more)[T])
<1> DEFINE Least(A) == {x \in S : \A C \in SUBSET S : A \subseteq C /\ Closed(more, C) => x \in C}
           L == [A \in SUBSET S |-> Least(A)]
           Eq(g) == g = [A \in SUBSET S |-> IF more[A] \subseteq A THEN A ELSE g[A \cup more[A]]]
           G == Grown(S, more)
<1> USE DEF Monotone
<1>1. ASSUME NEW A \in SUBSET S
      PROVE  LeastClosed(S, more, A, Least(A))
  <2>1. Least(A) \in SUBSET S /\ A \subseteq Least(A)
    OBVIOUS
  <2>2. \A C \in SUBSET S : A \subseteq C /\ Closed(more, C) => Least(A) \subseteq C
    OBVIOUS
  <2>3. \A C \in SUBSET S : A \subseteq C /\ Closed(more, C) => more[Least(A)] \subseteq C
    BY <2>1, <2>2 DEF Closed
  <2>4. more[Least(A)] \in SUBSET S
    BY <2>1
  <2>5. more[Least(A)] \subseteq Least(A)
    BY <2>3, <2>4
  <2> QED
    BY <2>1, <2>2, <2>5 DEF Closed, LeastClosed
<1>2. ASSUME NEW A \in SUBSET S, more[A] \subseteq A PROVE Least(A) = A
  BY <1>1, <1>2 DEF Closed, LeastClosed
<1>3. ASSUME NEW A \in SUBSET S PROVE Least(A \cup more[A]) = Least(A)
  <2>1. \A C \in SUBSET S : A \subseteq C /\ Closed(more, C) => A \cup more[A] \subseteq C
    BY DEF Closed
  <2> QED
    BY <2>1
<1>4. \A A \in SUBSET S : A \cup more[A] \in SUBSET S
  OBVIOUS
<1>5. Eq(L)
  <2>1. ASSUME NEW A \in SUBSET S
        PROVE  Least(A) = IF more[A] \subseteq A THEN A ELSE L[A \cup more[A]]
    <3> HIDE DEF Least
    <3> QED
      BY <1>2, <1>3, <1>4
  <2> HIDE DEF Least
  <2> QED
    BY <2>1
<1>6. G = CHOOSE g : Eq(g)
  BY DEF Grown
<1>7. Eq(G)
  <2> HIDE DEF L, Least, G
  <2> QED
    BY <1>5, <1>6
<1>8. \A A \in SUBSET S : G[A] = Least(A)
  <2> DEFINE Bad == {A \in SUBSET S : G[A] # Least(A)}
  <2> SUFFICES ASSUME Bad # {} PROVE FALSE
    OBVIOUS
  <2> HIDE DEF G, Least
  <2>1. PICK A \in Bad : \A B \in Bad : A \subseteq B => B = A
    <3>1. Bad \in SUBSET SUBSET S
      OBVIOUS
    <3> HIDE DEF Bad
    <3> QED
      BY <3>1, FiniteHasMaximal
  <2>2. ~(more[A] \subseteq A)
    BY <1>7, <1>2
  <2>3. A \cup more[A] \notin Bad
    BY <2>1, <2>2
  <2>4. G[A \cup more[A]] = Least(A)
    BY <2>3, <1>3, <1>4
  <2> QED
    BY <2>2, <2>4, <1>7
<1> HIDE DEF Least, G
<1>9. G[T] = Least(T)
  BY <1>8
<1> QED
  BY <1>9, <1>1 DEF G

LEMMA ImageIsFinite ==
  ASSUME NEW S, IsFiniteSet(S), NEW f
  PROVE  IsFiniteSet({f[x] : x \in S})
<1> DEFINE T == {f[x] : x \in S}
           g == [x \in S |-> f[x]]
<1>1. g \in Surjection(S, T)
  BY DEF Surjection
<1> QED
  BY <1>1, FS_Surjection

LEMMA ReachesIsLeast ==
  ASSUME NEW V, IsFiniteSet(V), NEW edges \in [V -> SUBSET V], NEW from \in V
  PROVE  \E R \in SUBSET V :
             /\ \A target : reaches(edges, from, target) <=> target \in R
             /\ from \in R
             /\ \A k \in R : edges[k] \subseteq R
             /\ \A C \in SUBSET V : from \in C /\ (\A k \in C : edges[k] \subseteq C)
                                       => R \subseteq C
<1> DEFINE Keys == {from} \cup UNION Range(edges)
           held == [seen \in SUBSET Keys |-> UNION {edges[k] : k \in seen \cap DOMAIN edges}]
           R == Grown(Keys, held)[{from}]
<1>1. Keys \subseteq V /\ from \in Keys
  BY DEF Range
<1>2. \A k \in V : edges[k] \subseteq Keys
  BY DEF Range
<1>3. IsFiniteSet(Keys)
  <2> HIDE DEF Keys
  <2> QED
    BY <1>1, FS_Subset
<1> HIDE DEF Keys
<1>4. ASSUME NEW seen \in SUBSET Keys
      PROVE  /\ held[seen] = UNION {edges[k] : k \in seen}
             /\ held[seen] \in SUBSET Keys
  <2>1. seen \cap DOMAIN edges = seen
    BY <1>1
  <2> QED
    BY <2>1, <1>1, <1>2
<1>5. held \in [SUBSET Keys -> SUBSET Keys]
  BY <1>4
<1>6. \A A, B \in SUBSET Keys : A \subseteq B => held[A] \subseteq held[B]
  BY <1>4
<1>7. LeastClosed(Keys, held, {from}, R)
  <2>1. {from} \in SUBSET Keys /\ Monotone(Keys, held)
    BY <1>1, <1>5, <1>6 DEF Monotone
  <2> HIDE DEF held
  <2> QED
    BY <1>3, <2>1, GrownIsLeast
<1>8. \A target : reaches(edges, from, target) <=> target \in R
  BY DEF reaches, Keys
<1> HIDE DEF R
<1>9. \A k \in R : edges[k] \subseteq R
  <2> HIDE DEF held
  <2>1. R \in SUBSET Keys /\ held[R] \subseteq R
    BY <1>7 DEF LeastClosed, Closed
  <2> QED
    BY <1>4, <2>1
<1>10. ASSUME NEW C \in SUBSET V, from \in C, \A k \in C : edges[k] \subseteq C
       PROVE  R \subseteq C
  <2>1. C \cap Keys \in SUBSET Keys /\ {from} \subseteq C \cap Keys
    BY <1>1, <1>10
  <2>2. held[C \cap Keys] \subseteq C \cap Keys
    BY <2>1, <1>4, <1>10
  <2> QED
    BY <2>1, <2>2, <1>7 DEF Closed, LeastClosed
<1>11. R \in SUBSET V /\ from \in R
  BY <1>1, <1>7 DEF LeastClosed
<1> QED
  BY <1>8, <1>9, <1>10, <1>11

LEMMA LeastNatural ==
  ASSUME NEW T \in SUBSET Nat, T # {}
  PROVE  \E n \in T : \A m \in T : n <= m
<1> DEFINE R == OpToRel(<, Nat)
<1>1. IsWellFoundedOn(R, Nat)
  BY NatLessThanWellFounded
<1>2. \A n, m \in Nat : m < n => <<m, n>> \in R
  BY DEF OpToRel
<1> HIDE DEF R
<1>3. PICK n \in T : \A m \in T : ~(<<m, n>> \in R)
  BY <1>1, WFMin
<1>4. ASSUME NEW m \in T PROVE n <= m
  <2>1. n \in Nat /\ m \in Nat
    OBVIOUS
  <2>2. ~(m < n)
    BY <2>1, <1>2, <1>3
  <2> QED
    BY <2>1, <2>2
<1> QED
  BY <1>4

LEMMA FiniteIsBounded ==
  ASSUME NEW S, IsFiniteSet(S), NEW f \in [S -> Nat]
  PROVE  \E n \in Nat : \A x \in S : f[x] <= n
<1> DEFINE Good == {T \in SUBSET S : \E n \in Nat : \A x \in T : f[x] <= n}
<1>1. Good \in SUBSET SUBSET S /\ Good # {}
  <2>1. {} \in Good
    OBVIOUS
  <2> QED
    BY <2>1
<1>2. PICK T \in Good : \A U \in Good : T \subseteq U => U = T
  <2> HIDE DEF Good
  <2> QED
    BY <1>1, FiniteHasMaximal
<1>3. PICK n \in Nat : \A x \in T : f[x] <= n
  OBVIOUS
<1>4. ASSUME NEW x \in S PROVE x \in T
  <2>1. PICK m \in Nat : n <= m /\ f[x] <= m
    <3>1. n <= n + f[x] /\ f[x] <= n + f[x] /\ n + f[x] \in Nat
      OBVIOUS
    <3> QED
      BY <3>1
  <2>2. T \cup {x} \in Good
    <3>1. \A y \in T \cup {x} : f[y] <= m
      BY <1>3, <2>1
    <3> QED
      BY <3>1
  <2> QED
    BY <1>2, <2>2
<1> QED
  BY <1>3, <1>4

\* A functional that asks only for smaller arguments.
AsksSmaller(Q, M, size, F) ==
    /\ size \in [Q -> Nat] /\ F \in [[Q -> M] -> [Q -> M]]
    /\ \A g, h \in [Q -> M] : \A q \in Q :
           (\A p \in Q : size[p] < size[q] => g[p] = h[p]) => F[g][q] = F[h][q]

LEMMA FixedPoint ==
  ASSUME NEW Q, NEW M, M # {}, NEW size, NEW F, AsksSmaller(Q, M, size, F)
  PROVE  \E f \in [Q -> M] : F[f] = f
<1> USE DEF AsksSmaller
<1> DEFINE Fixed(n) == {g \in [Q -> M] : \A q \in Q : size[q] < n => F[g][q] = g[q]}
<1>1. ASSUME NEW n \in Nat, NEW g \in Fixed(n), NEW m \in Nat, NEW h \in Fixed(m),
             NEW r \in Q, size[r] < n, size[r] < m
      PROVE  g[r] = h[r]
  <2> DEFINE Apart == {size[q] : q \in {p \in Q : size[p] < n /\ size[p] < m /\ g[p] # h[p]}}
  <2> SUFFICES ASSUME g[r] # h[r] PROVE FALSE
    OBVIOUS
  <2>1. PICK k \in Apart : \A l \in Apart : k <= l
    <3>1. Apart \in SUBSET Nat /\ size[r] \in Apart
      BY <1>1
    <3> HIDE DEF Apart
    <3> QED
      BY <3>1, LeastNatural
  <2>2. PICK q \in Q : size[q] < n /\ size[q] < m /\ g[q] # h[q] /\ size[q] = k
    BY <2>1
  <2>3. ASSUME NEW p \in Q, size[p] < size[q] PROVE g[p] = h[p]
    <3>1. size[p] < n /\ size[p] < m
      BY <1>1, <2>2, <2>3
    <3>2. SUFFICES ASSUME g[p] # h[p] PROVE FALSE
      OBVIOUS
    <3>3. size[p] \in Apart
      BY <3>1, <3>2
    <3>4. size[q] <= size[p]
      BY <3>3, <2>1, <2>2
    <3>5. size[p] \in Nat /\ size[q] \in Nat
      OBVIOUS
    <3> QED
      BY <3>4, <3>5, <2>3
  <2>4. F[g][q] = F[h][q]
    BY <2>3
  <2> QED
    BY <2>2, <2>4
<1>2. ASSUME NEW n \in Nat PROVE Fixed(n) # {}
  <2> DEFINE Missing == {m \in Nat : Fixed(m) = {}}
  <2> HIDE DEF Fixed
  <2> SUFFICES ASSUME Fixed(n) = {} PROVE FALSE
    OBVIOUS
  <2>1. PICK m \in Missing : \A l \in Missing : m <= l
    <3>1. Missing \in SUBSET Nat /\ n \in Missing
      OBVIOUS
    <3> HIDE DEF Missing
    <3> QED
      BY <3>1, LeastNatural
  <2>2. m # 0
    <3> DEFINE g == [q \in Q |-> CHOOSE x \in M : TRUE]
    <3>1. g \in [Q -> M]
      OBVIOUS
    <3> HIDE DEF g
    <3>2. g \in Fixed(0)
      BY <3>1 DEF Fixed
    <3> QED
      BY <3>2, <2>1
  <2>3. m - 1 \in Nat /\ m - 1 \notin Missing
    BY <2>1, <2>2
  <2>4. PICK g \in Fixed(m - 1) : TRUE
    BY <2>3
  <2>5. F[g] \in Fixed(m)
    <3> USE DEF Fixed
    <3>1. F[g] \in [Q -> M]
      OBVIOUS
    <3>2. ASSUME NEW q \in Q, size[q] < m PROVE F[F[g]][q] = F[g][q]
      <4>1. \A p \in Q : size[p] < size[q] => F[g][p] = g[p]
        BY <2>4, <3>2, <2>3
      <4> QED
        BY <3>1, <4>1
    <3> QED
      BY <3>1, <3>2
  <2> QED
    BY <2>1, <2>5
<1> DEFINE Some(n) == CHOOSE g \in Fixed(n) : TRUE
           f == [q \in Q |-> Some(size[q] + 1)[q]]
<1> HIDE DEF Fixed
<1>3. \A n \in Nat : Some(n) \in Fixed(n)
  BY <1>2
<1>4. \A n \in Nat : \A g \in Fixed(n) :
          /\ g \in [Q -> M]
          /\ \A q \in Q : size[q] < n => F[g][q] = g[q]
  BY DEF Fixed
<1> HIDE DEF Some
<1>5. f \in [Q -> M]
  BY <1>3, <1>4
<1>6. ASSUME NEW q \in Q PROVE F[f][q] = f[q]
  <2> DEFINE g == Some(size[q] + 1)
  <2>1. g \in Fixed(size[q] + 1) /\ g \in [Q -> M]
    BY <1>3, <1>4
  <2>2. ASSUME NEW p \in Q, size[p] < size[q] PROVE f[p] = g[p]
    <3>1. Some(size[p] + 1) \in Fixed(size[p] + 1)
      BY <1>3
    <3>2. Some(size[p] + 1)[p] = g[p]
      BY <3>1, <2>1, <2>2, <1>1
    <3> QED
      BY <3>2
  <2>3. F[f][q] = F[g][q]
    BY <1>5, <2>1, <2>2
  <2>4. F[g][q] = g[q]
    BY <2>1, <1>4
  <2> QED
    BY <2>3, <2>4
<1> HIDE DEF f
<1>7. F[f] = f
  BY <1>5, <1>6
<1> QED
  BY <1>5, <1>7

-----------------------------------------------------------------------------
(* The registry.                                                           *)

LEMMA DeclaredIsFinite ==
  ASSUME IsSchema(schema)
  PROVE  IsFiniteSet(Declared)
<1> DEFINE Names == [d \in DOMAIN schema |-> DOMAIN schema[d].types]
           All == UNION {Names[d] : d \in DOMAIN schema}
<1>1. IsFiniteSet({Names[d] : d \in DOMAIN schema})
  <2> HIDE DEF Names
  <2> QED
    BY ImageIsFinite DEF IsSchema
<1>2. IsFiniteSet(All)
  <2>1. \A S \in {Names[d] : d \in DOMAIN schema} : IsFiniteSet(S)
    BY DEF IsSchema
  <2> HIDE DEF Names
  <2> QED
    BY <1>1, <2>1, FS_UNION
<1>3. Declared \subseteq (DOMAIN schema) \X All
  BY DEF Declared
<1> HIDE DEF All
<1>4. IsFiniteSet((DOMAIN schema) \X All)
  BY <1>2, FS_Product DEF IsSchema
<1> QED
  BY <1>3, <1>4, FS_Subset

LEMMA DeclaredTypes ==
  ASSUME IsSchema(schema), NEW key \in Declared
  PROVE  /\ key[1] \in DOMAIN schema /\ key[2] \in DOMAIN schema[key[1]].types
         /\ key = <<key[1], key[2]>>
         /\ Type(key).fields \in Seq(References)
         /\ \A i \in DOMAIN Type(key).fields : Type(key).fields[i] \in Fields(key[1])
<1>1. PICK d \in DOMAIN schema : \E n \in DOMAIN schema[d].types : key = <<d, n>>
  BY DEF Declared
<1>2. PICK n \in DOMAIN schema[d].types : key = <<d, n>>
  BY <1>1
<1>3. Type(key) = schema[d].types[n]
  BY <1>2 DEF Type
<1>4. Range(schema[d].types[n].fields) \subseteq Fields(d)
  BY DEF Fields
<1> QED
  BY <1>2, <1>3, <1>4 DEF IsSchema, Range

Memos == [Declared -> {"unknown", "yes", "no"}]

LEMMA QuestionType ==
  ASSUME NEW memo \in Memos, NEW asking \in SUBSET Declared, NEW key \in Declared, NEW at \in Nat
  PROVE  LET q == Question(memo, asking, key, at)
         IN  /\ q \in Questions
             /\ q.memo = memo /\ q.asking = asking /\ q.key = key /\ q.at = at
BY DEF Question, Questions, Memos

\* What a question asks.
FirstField(q) == Question(q.memo, q.asking \cup {q.key}, q.key, 1)
NextField(q, memo) == Question(memo, q.asking, q.key, q.at + 1)
Target(q) == resolve(q.key[1], Type(q.key).fields[q.at])
OfTarget(q) == Question(q.memo, q.asking, Target(q), 0)

\* It is smaller: more is being asked, or there are fewer fields to go.
LEMMA QuestionsEnd ==
  ASSUME IsSchema(schema)
  PROVE  \E size \in [Questions -> Nat] : \A q \in Questions :
             /\ q.at = 0 /\ q.key \notin q.asking => size[FirstField(q)] < size[q]
             /\ q.at # 0 /\ q.at <= Len(Type(q.key).fields) =>
                    /\ Target(q) \in Declared => size[OfTarget(q)] < size[q]
                    /\ \A memo \in Memos : size[NextField(q, memo)] < size[q]
<1> DEFINE Length == [key \in Declared |-> Len(Type(key).fields)]
<1>1. Length \in [Declared -> Nat]
  <2>1. \A key \in Declared : Type(key).fields \in Seq(References)
    BY DeclaredTypes
  <2>2. \A key \in Declared : Len(Type(key).fields) \in Nat
    BY <2>1
  <2> QED
    BY <2>2
<1>2. PICK n \in Nat : \A key \in Declared : Length[key] <= n
  <2> HIDE DEF Length
  <2> QED
    BY <1>1, DeclaredIsFinite, FiniteIsBounded
<1> DEFINE Left(asking) == Cardinality(Declared \ asking)
           Rank(key, at) == IF at = 0 THEN 0
                            ELSE IF at > Length[key] THEN 1 ELSE Length[key] + 2 - at
           Size(asking, key, at) == Left(asking) * (n + 2) + Rank(key, at)
           size == [q \in Questions |-> Size(q.asking, q.key, q.at)]
<1>3. ASSUME NEW asking \in SUBSET Declared
      PROVE  /\ Left(asking) \in Nat
             /\ \A key \in Declared \ asking : Left(asking \cup {key}) = Left(asking) - 1
  <2>1. IsFiniteSet(Declared \ asking)
    BY DeclaredIsFinite, FS_Subset
  <2>2. Cardinality(Declared \ asking) \in Nat
    BY <2>1, FS_CardinalityType
  <2>3. ASSUME NEW key \in Declared \ asking PROVE Left(asking \cup {key}) = Left(asking) - 1
    <3>1. Declared \ (asking \cup {key}) = (Declared \ asking) \ {key}
      OBVIOUS
    <3>2. Cardinality((Declared \ asking) \ {key}) = Cardinality(Declared \ asking) - 1
      <4> DEFINE Rest == Declared \ asking
      <4>1. key \in Rest /\ IsFiniteSet(Rest)
        BY <2>1
      <4> HIDE DEF Rest
      <4>2. Cardinality(Rest \ {key}) = Cardinality(Rest) - 1
        BY <4>1, FS_RemoveElement
      <4> QED
        BY <4>2 DEF Rest
    <3> QED
      BY <3>1, <3>2
  <2> QED
    BY <2>2, <2>3
<1>4. ASSUME NEW key \in Declared, NEW at \in Nat
      PROVE  /\ Rank(key, at) \in Nat /\ Rank(key, at) <= n + 1
             /\ at = 0 => Rank(key, at) = 0
             /\ at # 0 => Rank(key, at) > 0
             /\ at # 0 /\ at <= Length[key] => Rank(key, at + 1) < Rank(key, at)
  <2>1. Length[key] \in Nat /\ Length[key] <= n
    BY <1>1, <1>2
  <2> HIDE DEF Length
  <2> QED
    BY <2>1
<1> HIDE DEF Left, Rank
<1>5. ASSUME NEW asking \in SUBSET Declared PROVE Left(asking) * (n + 2) \in Nat
  <2>1. \A l, k \in Nat : l * (k + 2) \in Nat
    OBVIOUS
  <2>2. Left(asking) \in Nat
    BY <1>3
  <2> QED
    BY <2>1, <2>2
<1>6. ASSUME NEW asking \in SUBSET Declared, NEW key \in Declared, NEW at \in Nat
      PROVE  Size(asking, key, at) \in Nat
  <2>1. Left(asking) * (n + 2) \in Nat /\ Rank(key, at) \in Nat
    BY <1>4, <1>5
  <2> QED
    BY <2>1
<1>7. size \in [Questions -> Nat]
  BY <1>6 DEF Questions
<1>8. ASSUME NEW q \in Questions
      PROVE  /\ q.at = 0 /\ q.key \notin q.asking => size[FirstField(q)] < size[q]
             /\ q.at # 0 /\ q.at <= Len(Type(q.key).fields) =>
                    /\ Target(q) \in Declared => size[OfTarget(q)] < size[q]
                    /\ \A memo \in Memos : size[NextField(q, memo)] < size[q]
  <2>1. /\ q.memo \in Memos /\ q.asking \in SUBSET Declared
        /\ q.key \in Declared /\ q.at \in Nat
    BY DEF Questions, Memos
  <2>2. size[q] = Size(q.asking, q.key, q.at)
    OBVIOUS
  <2>3. ASSUME NEW memo \in Memos, NEW asking \in SUBSET Declared, NEW key \in Declared,
               NEW at \in Nat
        PROVE  size[Question(memo, asking, key, at)] = Size(asking, key, at)
    BY QuestionType
  <2> HIDE DEF size
  <2>4. ASSUME q.at = 0, q.key \notin q.asking PROVE size[FirstField(q)] < size[q]
    <3>1. size[FirstField(q)] = Size(q.asking \cup {q.key}, q.key, 1)
      BY <2>1, <2>3 DEF FirstField
    <3>2. /\ Left(q.asking \cup {q.key}) = Left(q.asking) - 1
          /\ Left(q.asking) \in Nat /\ Left(q.asking \cup {q.key}) \in Nat
      BY <2>1, <2>4, <1>3
    <3>3. Rank(q.key, 1) \in Nat /\ Rank(q.key, 1) <= n + 1
      BY <2>1, <1>4
    <3>4. Rank(q.key, q.at) \in Nat
      BY <2>1, <1>4
    <3>5. \A l \in Nat : l > 0 => (l - 1) * (n + 2) + n + 2 = l * (n + 2)
      OBVIOUS
    <3>6. Left(q.asking) > 0
      BY <3>2
    <3>7. Left(q.asking \cup {q.key}) * (n + 2) + n + 2 = Left(q.asking) * (n + 2)
      BY <3>2, <3>5, <3>6
    <3> QED
      BY <2>2, <3>1, <3>2, <3>3, <3>7, <3>4, <1>5
  <2>5. ASSUME q.at # 0, q.at <= Len(Type(q.key).fields), Target(q) \in Declared
        PROVE  size[OfTarget(q)] < size[q]
    <3>1. size[OfTarget(q)] = Size(q.asking, Target(q), 0)
      BY <2>1, <2>3, <2>5 DEF OfTarget
    <3>2. Rank(Target(q), 0) = 0
      BY <2>5, <1>4
    <3>3. Rank(q.key, q.at) > 0 /\ Rank(q.key, q.at) \in Nat
      BY <2>1, <2>5, <1>4
    <3>4. Left(q.asking) * (n + 2) \in Nat
      BY <2>1, <1>5
    <3> QED
      BY <2>2, <3>1, <3>2, <3>3, <3>4
  <2>6. ASSUME q.at # 0, q.at <= Len(Type(q.key).fields), NEW memo \in Memos
        PROVE  size[NextField(q, memo)] < size[q]
    <3>1. q.at <= Length[q.key] /\ q.at + 1 \in Nat
      BY <2>1, <2>6
    <3> HIDE DEF Length
    <3>2. size[NextField(q, memo)] = Size(q.asking, q.key, q.at + 1)
      BY <2>1, <2>3, <3>1 DEF NextField
    <3>3. Rank(q.key, q.at + 1) < Rank(q.key, q.at)
      BY <2>1, <2>6, <3>1, <1>4
    <3>4. Rank(q.key, q.at) \in Nat
      BY <2>1, <1>4
    <3>5. Rank(q.key, q.at + 1) \in Nat
      BY <2>1, <3>1, <1>4
    <3>6. Left(q.asking) * (n + 2) \in Nat
      BY <2>1, <1>5
    <3> QED
      BY <2>2, <3>2, <3>3, <3>4, <3>5, <3>6
  <2> QED
    BY <2>4, <2>5, <2>6
<1> HIDE DEF size
<1> QED
  BY <1>7, <1>8

\* The answer, case by case.
LEMMA AnsweredAtOnce ==
  ASSUME NEW ask, NEW q, q.at = 0
  PROVE  /\ q.memo[q.key] # "unknown" \/ q.key \in q.asking => Answered(ask, q) = q.memo
         /\ q.memo[q.key] = "unknown" /\ q.key \notin q.asking =>
                Answered(ask, q) = IF Type(q.key).kind = "enum" THEN [q.memo EXCEPT ![q.key] = "no"]
                                   ELSE ask[FirstField(q)]
BY DEF Answered, FirstField

LEMMA AnsweredYes ==
  ASSUME NEW ask, NEW q, q.at # 0, q.at > Len(Type(q.key).fields)
  PROVE  Answered(ask, q) = [q.memo EXCEPT ![q.key] = "yes"]
BY DEF Answered

LEMMA AnsweredByNext ==
  ASSUME NEW ask, NEW q, q.at # 0, ~(q.at > Len(Type(q.key).fields)),
         ~Required(Type(q.key).fields[q.at]) \/ Target(q) \notin Declared
  PROVE  Answered(ask, q) = ask[NextField(q, q.memo)]
BY DEF Answered, NextField, Target

LEMMA AnsweredByTarget ==
  ASSUME NEW ask, NEW q, q.at # 0, ~(q.at > Len(Type(q.key).fields)),
         Required(Type(q.key).fields[q.at]), Target(q) \in Declared
  PROVE  Answered(ask, q) = IF ask[OfTarget(q)][Target(q)] = "yes"
                            THEN ask[NextField(q, ask[OfTarget(q)])]
                            ELSE [ask[OfTarget(q)] EXCEPT ![q.key] = "no"]
BY DEF Answered, NextField, OfTarget, Target

\* The search is well defined: it answers every question in terms of smaller ones.
LEMMA Answering ==
  ASSUME IsSchema(schema)
  PROVE  \A q \in Questions : defaultable[q] = Answered(defaultable, q)
<1> DEFINE Step(g) == [q \in Questions |-> Answered(g, q)]
           F == [g \in [Questions -> Memos] |-> Step(g)]
<1>1. PICK size \in [Questions -> Nat] : \A q \in Questions :
          /\ q.at = 0 /\ q.key \notin q.asking => size[FirstField(q)] < size[q]
          /\ q.at # 0 /\ q.at <= Len(Type(q.key).fields) =>
                 /\ Target(q) \in Declared => size[OfTarget(q)] < size[q]
                 /\ \A memo \in Memos : size[NextField(q, memo)] < size[q]
  BY QuestionsEnd
<1>2. ASSUME NEW q \in Questions
      PROVE  /\ q.memo \in Memos /\ q.key \in Declared /\ q.asking \in SUBSET Declared
             /\ q.at \in Nat /\ Len(Type(q.key).fields) \in Nat
             /\ FirstField(q) \in Questions
             /\ Target(q) \in Declared => OfTarget(q) \in Questions
             /\ \A memo \in Memos : NextField(q, memo) \in Questions
  <2>1. /\ q.memo \in Memos /\ q.key \in Declared /\ q.asking \in SUBSET Declared
        /\ q.at \in Nat /\ q.at + 1 \in Nat /\ q.asking \cup {q.key} \in SUBSET Declared
    BY DEF Questions, Memos
  <2>2. Type(q.key).fields \in Seq(References)
    BY <2>1, DeclaredTypes
  <2>3. Len(Type(q.key).fields) \in Nat
    BY <2>2
  <2> QED
    BY <2>1, <2>3, QuestionType DEF FirstField, OfTarget, NextField
<1>3. ASSUME NEW g \in [Questions -> Memos], NEW q \in Questions
      PROVE  Answered(g, q) \in Memos
  <2>1. \A memo \in Memos : \A answer \in {"yes", "no"} :
            [memo EXCEPT ![q.key] = answer] \in Memos
    BY <1>2 DEF Memos
  <2>2. CASE q.at = 0
    BY <1>2, <2>1, <2>2, AnsweredAtOnce
  <2>3. CASE q.at # 0 /\ q.at > Len(Type(q.key).fields)
    <3>1. [q.memo EXCEPT ![q.key] = "yes"] \in Memos
      BY <1>2, <2>1
    <3>2. Answered(g, q) = [q.memo EXCEPT ![q.key] = "yes"]
      BY <2>3, AnsweredYes
    <3> QED
      BY <3>1, <3>2
  <2>4. CASE q.at # 0 /\ ~(q.at > Len(Type(q.key).fields))
    <3>1. CASE Required(Type(q.key).fields[q.at]) /\ Target(q) \in Declared
      <4>1. g[OfTarget(q)] \in Memos
        BY <1>2, <3>1
      <4>2. g[NextField(q, g[OfTarget(q)])] \in Memos
        BY <1>2, <4>1
      <4> QED
        BY <2>1, <2>4, <3>1, <4>1, <4>2, AnsweredByTarget
    <3>2. CASE ~Required(Type(q.key).fields[q.at]) \/ Target(q) \notin Declared
      BY <1>2, <2>4, <3>2, AnsweredByNext
    <3> QED
      BY <3>1, <3>2
  <2> QED
    BY <2>2, <2>3, <2>4
<1>4. ASSUME NEW g \in [Questions -> Memos], NEW h \in [Questions -> Memos],
             NEW q \in Questions,
             \A p \in Questions : size[p] < size[q] => g[p] = h[p]
      PROVE  Answered(g, q) = Answered(h, q)
  <2>1. CASE q.at = 0
    <3>1. q.key \notin q.asking => g[FirstField(q)] = h[FirstField(q)]
      BY <1>1, <1>2, <1>4, <2>1
    <3> QED
      BY <2>1, <3>1, AnsweredAtOnce
  <2>2. CASE q.at # 0 /\ q.at > Len(Type(q.key).fields)
    BY <2>2, AnsweredYes
  <2>3. CASE q.at # 0 /\ ~(q.at > Len(Type(q.key).fields))
    <3>1. q.at <= Len(Type(q.key).fields)
      <4>1. q.at \in Nat /\ Len(Type(q.key).fields) \in Nat
        BY <1>2
      <4> QED
        BY <2>3, <4>1
    <3>2. \A memo \in Memos : g[NextField(q, memo)] = h[NextField(q, memo)]
      BY <1>1, <1>2, <1>4, <2>3, <3>1
    <3>3. CASE Required(Type(q.key).fields[q.at]) /\ Target(q) \in Declared
      <4>1. g[OfTarget(q)] = h[OfTarget(q)] /\ g[OfTarget(q)] \in Memos
        BY <1>1, <1>2, <1>4, <2>3, <3>1, <3>3
      <4> QED
        BY <2>3, <3>2, <3>3, <4>1, AnsweredByTarget
    <3>4. CASE ~Required(Type(q.key).fields[q.at]) \/ Target(q) \notin Declared
      BY <1>2, <2>3, <3>2, <3>4, AnsweredByNext
    <3> QED
      BY <3>3, <3>4
  <2> QED
    BY <2>1, <2>2, <2>3
<1>5. \E f \in [Questions -> Memos] : F[f] = f
  <2>1. F \in [[Questions -> Memos] -> [Questions -> Memos]]
    BY <1>3
  <2>2. \A g, h \in [Questions -> Memos] : \A q \in Questions :
            (\A p \in Questions : size[p] < size[q] => g[p] = h[p]) => F[g][q] = F[h][q]
    BY <1>4
  <2>3. Memos # {}
    <3>1. [key \in Declared |-> "no"] \in Memos
      BY DEF Memos
    <3> QED
      BY <3>1
  <2> HIDE DEF F
  <2>4. AsksSmaller(Questions, Memos, size, F)
    BY <2>1, <2>2 DEF AsksSmaller
  <2> QED
    BY <2>3, <2>4, FixedPoint
<1>6. PICK f \in [Questions -> Memos] : f = Step(f)
  BY <1>5
<1> DEFINE Solves(g) == g = Step(g)
<1>7. defaultable = CHOOSE g : Solves(g)
  BY DEF defaultable
<1>8. Solves(defaultable)
  <2> HIDE DEF Step
  <2>1. Solves(f)
    BY <1>6
  <2> HIDE DEF Solves
  <2> QED
    BY <1>7, <2>1
<1> HIDE DEF Answered, defaultable
<1> QED
  BY <1>8

-----------------------------------------------------------------------------
(* The answers are right.                                                  *)

LEMMA DerivableIsLeast ==
  ASSUME IsSchema(schema)
  PROVE  /\ Monotone(Declared, Requiring)
         /\ LeastClosed(Declared, Requiring, {}, Derivable)
<1>1. Monotone(Declared, Requiring)
  BY DEF Monotone, Requiring
<1> QED
  BY <1>1, DeclaredIsFinite, GrownIsLeast DEF Derivable

LEMMA DerivableIsFixed ==
  ASSUME IsSchema(schema), NEW key \in Declared
  PROVE  /\ Derivable \in SUBSET Declared
         /\ key \in Derivable <=> Type(key).kind # "enum" /\ RequiredOf(key) \subseteq Derivable
<1>1. /\ Derivable \in SUBSET Declared /\ Requiring[Derivable] \in SUBSET Declared
      /\ Requiring[Derivable] \subseteq Derivable
      /\ Requiring[Requiring[Derivable]] \subseteq Requiring[Derivable]
  BY DerivableIsLeast DEF LeastClosed, Closed, Monotone
<1>2. Derivable \subseteq Requiring[Derivable]
  BY <1>1, DerivableIsLeast DEF LeastClosed, Closed
<1>3. key \in Requiring[Derivable]
          <=> Type(key).kind # "enum" /\ RequiredOf(key) \subseteq Derivable
  BY <1>1 DEF Requiring
<1> QED
  BY <1>1, <1>2, <1>3

\* Which type is required by which, and by which in the end.
Requirements == {e \in Declared \X Declared : e[1] \in RequiredOf(e[2])}
Beneath == TransitiveClosureOn(Requirements, Declared)

LEMMA BeneathIsTransitive ==
  ASSUME NEW a \in Declared, NEW b \in Declared, b \in RequiredOf(a)
  PROVE  /\ <<b, a>> \in Beneath
         /\ \A c \in Declared : <<a, c>> \in Beneath => <<b, c>> \in Beneath
<1>1. <<b, a>> \in Requirements
  BY DEF Requirements
<1>2. <<b, a>> \in Beneath
  <2>1. <<b, a>> \in Requirements \cap Declared \X Declared
    BY <1>1
  <2> QED
    BY <2>1, TransitiveClosureThm DEF Beneath
<1> QED
  BY <1>1, <1>2, RTCTC DEF Beneath

\* What requires itself in the end has no default that ends.
LEMMA CyclesDoNotEnd ==
  ASSUME IsSchema(schema), NEW key \in Declared, <<key, key>> \in Beneath
  PROVE  key \notin Derivable
<1> DEFINE Ending == {k \in Derivable : <<k, k>> \notin Beneath}
<1>1. Derivable \in SUBSET Declared
  BY DerivableIsFixed
<1>2. ASSUME NEW k \in Declared, RequiredOf(k) \subseteq Ending, <<k, k>> \in Beneath
      PROVE  FALSE
  <2>1. PICK j \in Declared : /\ <<j, k>> \in Requirements
                              /\ k = j \/ <<k, j>> \in Beneath
    BY <1>2, TransitiveClosureChopLast DEF Beneath
  <2>2. j \in RequiredOf(k)
    BY <2>1 DEF Requirements
  <2>3. <<j, j>> \in Beneath
    BY <1>2, <2>1, <2>2, BeneathIsTransitive
  <2> QED
    BY <1>2, <2>2, <2>3
<1>3. Ending \in SUBSET Declared /\ Requiring[Ending] \subseteq Derivable
  <2>1. Ending \in SUBSET Declared /\ Ending \subseteq Derivable
    BY <1>1
  <2>2. Requiring[Ending] \subseteq Requiring[Derivable] /\ Requiring[Derivable] \subseteq Derivable
    <3> HIDE DEF Ending
    <3> QED
      BY <1>1, <2>1, DerivableIsLeast DEF Monotone, LeastClosed, Closed
  <2> QED
    BY <2>1, <2>2
<1>4. \A k \in Requiring[Ending] : k \in Declared /\ RequiredOf(k) \subseteq Ending
  BY <1>3 DEF Requiring
<1>5. Requiring[Ending] \subseteq Ending
  BY <1>2, <1>3, <1>4
<1>6. Derivable \subseteq Ending
  <2> HIDE DEF Ending
  <2> QED
    BY <1>3, <1>5, DerivableIsLeast DEF LeastClosed, Closed
<1> QED
  BY <1>6

\* In the middle of what a question is asked.  Everything that is being asked requires
\* in the end what is asked now; and of a type whose fields are being looked at, those
\* passed are no obstacle.
Fair(q) ==
    /\ IsRight(q.memo)
    /\ q.at = 0 => \A a \in q.asking : <<q.key, a>> \in Beneath
    /\ q.at # 0 =>
           LET fields == Type(q.key).fields
           IN  /\ q.key \in q.asking /\ Type(q.key).kind # "enum"
               /\ \A a \in q.asking : a = q.key \/ <<q.key, a>> \in Beneath
               /\ \A i \in DOMAIN fields :
                      i < q.at /\ Required(fields[i]) =>
                          LET k == resolve(q.key[1], fields[i])
                          IN  k \in Declared => k \in Derivable

\* Then it is answered, unless it is being asked already, and rightly.
Answers(q, memo) ==
    /\ IsRight(memo)
    /\ q.at # 0 \/ q.key \notin q.asking => memo[q.key] # "unknown"

LEMMA RightMeans ==
  ASSUME NEW memo, IsRight(memo), NEW key \in Declared
  PROVE  /\ memo[key] \in {"unknown", "yes", "no"}
         /\ memo[key] = "yes" => key \in Derivable
         /\ memo[key] = "no" => key \notin Derivable
<1>1. memo \in [Declared -> {"unknown", "yes", "no"}]
  BY DEF IsRight
<1>2. memo[key] \in {"unknown", "yes", "no"}
  BY <1>1
<1>3. (memo[key] = "yes" => key \in Derivable) /\ (memo[key] = "no" => key \notin Derivable)
  BY DEF IsRight
<1> QED
  BY <1>2, <1>3

LEMMA RightNo ==
  ASSUME NEW memo, IsRight(memo), NEW key \in Declared, key \notin Derivable
  PROVE  /\ IsRight([memo EXCEPT ![key] = "no"])
         /\ [memo EXCEPT ![key] = "no"][key] = "no"
BY DEF IsRight

LEMMA RightYes ==
  ASSUME NEW memo, IsRight(memo), NEW key \in Declared, key \in Derivable
  PROVE  /\ IsRight([memo EXCEPT ![key] = "yes"])
         /\ [memo EXCEPT ![key] = "yes"][key] = "yes"
BY DEF IsRight

LEMMA AnswersFairly ==
  ASSUME IsSchema(schema), NEW q \in Questions, Fair(q),
         NEW size \in [Questions -> Nat],
         \A p \in Questions : size[p] < size[q] /\ Fair(p) => Answers(p, defaultable[p]),
         q.at = 0 /\ q.key \notin q.asking => size[FirstField(q)] < size[q],
         q.at # 0 /\ q.at <= Len(Type(q.key).fields) =>
             /\ Target(q) \in Declared => size[OfTarget(q)] < size[q]
             /\ \A memo \in Memos : size[NextField(q, memo)] < size[q]
  PROVE  Answers(q, defaultable[q])
<1> DEFINE fields == Type(q.key).fields
           memo == q.memo
           asking == q.asking
           key == q.key
           k == Target(q)
<1>1. /\ memo \in Memos /\ key \in Declared /\ asking \in SUBSET Declared /\ q.at \in Nat
  BY DEF Questions, Memos
<1>2. fields \in Seq(References) /\ Len(fields) \in Nat /\ DOMAIN fields = 1 .. Len(fields)
  <2>1. fields \in Seq(References)
    BY <1>1, DeclaredTypes
  <2> HIDE DEF fields
  <2> QED
    BY <2>1
<1>3. IsRight(memo)
  BY DEF Fair
<1>4. \A m : IsRight(m) => m \in Memos
  BY DEF IsRight, Memos
<1>5. defaultable[q] = Answered(defaultable, q)
  BY Answering
<1>6. CASE q.at = 0
  <2>1. CASE memo[key] # "unknown" \/ key \in asking
    BY <1>3, <1>5, <1>6, <2>1, AnsweredAtOnce DEF Answers
  <2>2. CASE memo[key] = "unknown" /\ key \notin asking /\ Type(key).kind = "enum"
    <3>1. defaultable[q] = [memo EXCEPT ![key] = "no"]
      BY <1>5, <1>6, <2>2, AnsweredAtOnce
    <3>2. key \notin Derivable
      BY <1>1, <2>2, DerivableIsFixed
    <3>3. IsRight(defaultable[q]) /\ defaultable[q][key] = "no"
      <4> HIDE DEF memo, key
      <4> QED
        BY <1>1, <1>3, <3>1, <3>2, RightNo
    <3> QED
      BY <3>3 DEF Answers
  <2>3. CASE memo[key] = "unknown" /\ key \notin asking /\ Type(key).kind # "enum"
    <3> DEFINE p == FirstField(q)
    <3>1. defaultable[q] = defaultable[p]
      BY <1>5, <1>6, <2>3, AnsweredAtOnce
    <3>2. /\ p \in Questions /\ p.memo = memo /\ p.asking = asking \cup {key}
          /\ p.key = key /\ p.at = 1
      BY <1>1, QuestionType DEF FirstField
    <3>3. size[p] < size[q]
      BY <1>6, <2>3
    <3> HIDE DEF p
    <3>4. Fair(p)
      <4>1. \A i \in DOMAIN fields : ~(i < 1)
        BY <1>2
      <4>2. \A a \in asking \cup {key} : a = key \/ <<key, a>> \in Beneath
        BY <1>6 DEF Fair
      <4> HIDE DEF memo, asking, key
      <4> QED
        BY <1>3, <2>3, <3>2, <4>1, <4>2 DEF Fair, key
    <3>5. Answers(p, defaultable[p])
      BY <3>2, <3>3, <3>4
    <3> QED
      BY <1>6, <3>1, <3>2, <3>5 DEF Answers
  <2> QED
    BY <2>1, <2>2, <2>3
<1>7. CASE q.at # 0 /\ q.at > Len(fields)
  <2>1. defaultable[q] = [memo EXCEPT ![key] = "yes"]
    BY <1>5, <1>7, AnsweredYes
  <2>2. \A i \in DOMAIN fields : i < q.at
    BY <1>1, <1>2, <1>7
  <2>3. RequiredOf(key) \subseteq Derivable
    BY <1>7, <2>2 DEF Fair, RequiredOf
  <2>4. key \in Derivable
    BY <1>1, <1>7, <2>3, DerivableIsFixed DEF Fair
  <2>5. IsRight(defaultable[q]) /\ defaultable[q][key] = "yes"
    <3> HIDE DEF memo, key
    <3> QED
      BY <1>1, <1>3, <2>1, <2>4, RightYes
  <2> QED
    BY <2>5 DEF Answers
<1>8. CASE q.at # 0 /\ ~(q.at > Len(fields))
  <2>1. q.at <= Len(fields) /\ q.at \in DOMAIN fields
    BY <1>1, <1>2, <1>8
  <2>2. ASSUME NEW m, IsRight(m),
               Required(fields[q.at]) /\ k \in Declared => k \in Derivable
        PROVE  Answers(q, defaultable[NextField(q, m)])
    <3> DEFINE p == NextField(q, m)
    <3>1. m \in Memos /\ q.at + 1 \in Nat
      BY <1>1, <1>4, <2>2
    <3>2. /\ p \in Questions /\ p.memo = m /\ p.asking = asking
          /\ p.key = key /\ p.at = q.at + 1
      BY <1>1, <3>1, QuestionType DEF NextField
    <3>3. size[p] < size[q]
      BY <1>8, <2>1, <3>1
    <3> HIDE DEF p
    <3>4. Fair(p)
      <4>1. \A i \in DOMAIN fields : i < q.at + 1 => i < q.at \/ i = q.at
        BY <1>1, <1>2
      <4>2. \A i \in DOMAIN fields :
                i < q.at + 1 /\ Required(fields[i]) =>
                    (resolve(key[1], fields[i]) \in Declared
                         => resolve(key[1], fields[i]) \in Derivable)
        BY <1>8, <2>2, <4>1 DEF Fair, Target
      <4>3. q.at + 1 # 0
        BY <1>1
      <4> QED
        BY <1>8, <2>2, <3>2, <4>2, <4>3 DEF Fair
    <3>5. Answers(p, defaultable[p])
      BY <3>2, <3>3, <3>4
    <3>6. p.at # 0
      BY <1>1, <3>2
    <3> QED
      BY <3>2, <3>5, <3>6 DEF Answers, p
  <2>3. CASE ~Required(fields[q.at]) \/ k \notin Declared
    <3>1. defaultable[q] = defaultable[NextField(q, memo)]
      BY <1>5, <1>8, <2>3, AnsweredByNext
    <3> QED
      BY <1>3, <2>2, <2>3, <3>1
  <2>4. CASE Required(fields[q.at]) /\ k \in Declared
    <3> DEFINE p == OfTarget(q)
               after == defaultable[p]
    <3>1. /\ p \in Questions /\ p.memo = memo /\ p.asking = asking /\ p.key = k /\ p.at = 0
      BY <1>1, <2>4, QuestionType DEF OfTarget
    <3>2. k \in RequiredOf(key)
      BY <2>1, <2>4 DEF RequiredOf, Target
    <3>3. \A a \in asking : <<k, a>> \in Beneath
      BY <1>1, <1>8, <2>4, <3>2, BeneathIsTransitive DEF Fair
    <3>4. size[p] < size[q]
      BY <1>8, <2>1, <2>4
    <3> HIDE DEF p
    <3>5. Fair(p)
      BY <1>3, <3>1, <3>3 DEF Fair
    <3>6. Answers(p, after)
      BY <3>1, <3>4, <3>5
    <3>7. IsRight(after)
      BY <3>6 DEF Answers
    <3>8. defaultable[q] = IF after[k] = "yes" THEN defaultable[NextField(q, after)]
                           ELSE [after EXCEPT ![key] = "no"]
      BY <1>5, <1>8, <2>4, AnsweredByTarget DEF p
    <3>9. CASE after[k] = "yes"
      <4>1. k \in Derivable
        <5> HIDE DEF after, k
        <5> QED
          BY <2>4, <3>7, <3>9, RightMeans
      <4> QED
        BY <2>2, <3>7, <3>8, <3>9, <4>1
    <3>10. CASE after[k] # "yes"
      <4>1. key \notin Derivable
        <5>1. CASE after[k] = "no"
          <6>1. k \notin Derivable
            BY <2>4, <3>7, <5>1, RightMeans
          <6> QED
            BY <1>1, <3>2, <6>1, DerivableIsFixed
        <5>2. CASE after[k] = "unknown"
          <6>1. k \in asking
            BY <3>1, <3>6, <5>2 DEF Answers
          <6>2. k = key \/ <<key, k>> \in Beneath
            BY <1>8, <6>1 DEF Fair
          <6>3. key \in asking
            BY <1>8 DEF Fair
          <6>4. <<k, key>> \in Beneath
            BY <3>3, <6>3
          <6>5. <<key, key>> \in Beneath
            BY <1>1, <2>4, <6>2, <6>4, TCTCTC DEF Beneath
          <6> QED
            BY <1>1, <6>5, CyclesDoNotEnd
        <5>3. after[k] \in {"unknown", "yes", "no"}
          BY <2>4, <3>7, RightMeans
        <5> QED
          BY <3>10, <5>1, <5>2, <5>3
      <4> HIDE DEF after
      <4>2. defaultable[q] = [after EXCEPT ![key] = "no"]
        BY <3>8, <3>10
      <4>3. IsRight(defaultable[q]) /\ defaultable[q][key] = "no"
        <5> HIDE DEF key
        <5> QED
          BY <1>1, <3>7, <4>1, <4>2, RightNo
      <4> QED
        BY <4>3 DEF Answers
    <3> QED
      BY <3>9, <3>10
  <2> QED
    BY <2>3, <2>4
<1> QED
  BY <1>6, <1>7, <1>8

\* What registry asks first, with nothing being asked, is fair.
LEMMA AskedIsRight ==
  ASSUME IsSchema(schema), IsRight(known), NEW key \in Declared
  PROVE  IsRight(Asked(key))
<1>1. PICK size \in [Questions -> Nat] : \A q \in Questions :
          /\ q.at = 0 /\ q.key \notin q.asking => size[FirstField(q)] < size[q]
          /\ q.at # 0 /\ q.at <= Len(Type(q.key).fields) =>
                 /\ Target(q) \in Declared => size[OfTarget(q)] < size[q]
                 /\ \A memo \in Memos : size[NextField(q, memo)] < size[q]
  BY QuestionsEnd
<1>2. ASSUME NEW q \in Questions, Fair(q) PROVE Answers(q, defaultable[q])
  <2> DEFINE Wrong == {p \in Questions : Fair(p) /\ ~Answers(p, defaultable[p])}
             Sizes == {size[p] : p \in Wrong}
  <2> SUFFICES ASSUME q \in Wrong PROVE FALSE
    BY <1>2
  <2>1. PICK n \in Sizes : \A m \in Sizes : n <= m
    <3>1. Sizes \in SUBSET Nat /\ Sizes # {}
      OBVIOUS
    <3> HIDE DEF Sizes
    <3> QED
      BY <3>1, LeastNatural
  <2>2. PICK p \in Wrong : n = size[p]
    BY <2>1
  <2>3. ASSUME NEW r \in Questions, size[r] < size[p], Fair(r)
        PROVE  Answers(r, defaultable[r])
    <3>1. ASSUME r \in Wrong PROVE FALSE
      <4>1. size[r] \in Sizes
        BY <3>1
      <4>2. size[p] <= size[r] /\ size[p] \in Nat /\ size[r] \in Nat
        BY <2>1, <2>2, <4>1
      <4> QED
        BY <2>3, <4>2
    <3> QED
      BY <2>3, <3>1
  <2>4. p \in Questions /\ Fair(p)
    OBVIOUS
  <2>5. Answers(p, defaultable[p])
    BY <1>1, <2>3, <2>4, AnswersFairly
  <2> QED
    BY <2>5
<1> DEFINE q == Question(known, {}, key, 0)
<1>3. known \in Memos
  BY DEF IsRight, Memos
<1>4. q \in Questions /\ q.memo = known /\ q.asking = {} /\ q.at = 0
  BY <1>3, QuestionType
<1> HIDE DEF q
<1>5. Fair(q)
  BY <1>4 DEF Fair
<1>6. IsRight(defaultable[q])
  BY <1>2, <1>4, <1>5 DEF Answers
<1> QED
  BY <1>6 DEF Asked, q

-----------------------------------------------------------------------------
(* The run.                                                                *)

\* The loops take the domains one by one.
LEMMA NextDomainIsLeft ==
  ASSUME todo # {}
  PROVE  NextDomain \in todo
BY DEF NextDomain

\* A domain with commands has something to write.
LEMMA CommandsAreDeclared == WithCommands \subseteq Declaring /\ Declaring \subseteq DOMAIN schema
BY DEF WithCommands, Declaring

LEMMA CommandsAreSomething ==
  ASSUME NEW d \in DOMAIN schema, NEW n \in DOMAIN schema[d].commands
  PROVE  d \in WithCommands
<1>1. DOMAIN Nothing = {}
  BY DEF Nothing
<1> QED
  BY <1>1 DEF WithCommands

\* A domain with a field has, too.
LEMMA FieldsAreDeclared ==
  ASSUME NEW d \in DOMAIN schema, NEW f \in Fields(d)
  PROVE  d \in Declaring
<1>1. DOMAIN Nothing = {}
  BY DEF Nothing
<1>2. \/ DOMAIN schema[d].types # {} \/ DOMAIN schema[d].commands # {}
      \/ DOMAIN schema[d].events # {}
  BY DEF Fields
<1> QED
  BY <1>1, <1>2 DEF Declaring

\* The name of no module is that of the index.
LEMMA ModulesAreNamed ==
  ASSUME GInv
  PROVE  /\ ModRs \notin WithCommands /\ ModRs \notin Declaring
         /\ WithCommands # NoIndex /\ Declaring # NoIndex
BY CommandsAreDeclared DEF GInv, IsSchema, NoIndex

\* The file of a domain has its commands, whatever is rendered for each.
LEMMA RenderedCommands ==
  ASSUME NEW d \in DOMAIN schema
  PROVE  DOMAIN render_domain(d).commands = DOMAIN schema[d].commands
BY DEF render_domain

\* These do not change while the schema does not.
LEMMA SchemaKept ==
  ASSUME UNCHANGED schema
  PROVE  /\ WithCommands' = WithCommands /\ Declaring' = Declaring
         /\ \A d : Dangling(d)' <=> Dangling(d)
         /\ Declared' = Declared /\ \A key : Type(key)' = Type(key)
<1>1. \A d : Fields(d)' = Fields(d)
  BY DEF Fields
<1>2. Declared' = Declared
  BY DEF Declared
<1>3. \A key : Type(key)' = Type(key)
  BY DEF Type
<1> QED
  BY <1>1, <1>2, <1>3 DEF WithCommands, Declaring, Dangling

\* Nor does what is rendered, when the answers stay too.
LEMMA RenderingKept ==
  ASSUME UNCHANGED <<schema, known>>
  PROVE  \A d : render_domain(d)' = render_domain(d)
<1>1. contains' = contains
  BY SchemaKept DEF contains
<1>2. \A d, fields : is_defaultable(d, fields)' = is_defaultable(d, fields)
  BY SchemaKept DEF is_defaultable
<1>3. \A edges, key : render_type(edges, key)' = render_type(edges, key)
  BY <1>2, SchemaKept DEF render_type
<1>4. \A d, fields : render_struct(d, fields)' = render_struct(d, fields)
  BY <1>2 DEF render_struct
<1>5. \A d, c : render_command(d, c)' = render_command(d, c)
  BY <1>4 DEF render_command
<1> QED
  BY <1>1, <1>3, <1>4, <1>5 DEF render_domain

\* Which answers are right is a matter of the schema.
LEMMA RightKept ==
  ASSUME UNCHANGED schema
  PROVE  \A memo : IsRight(memo)' <=> IsRight(memo)
<1>1. \A key : RequiredOf(key)' = RequiredOf(key)
  BY SchemaKept DEF RequiredOf
<1>2. Requiring' = Requiring
  BY <1>1, SchemaKept DEF Requiring
<1> QED
  BY <1>2, SchemaKept DEF IsRight, Derivable

\* The answers stay right when nobody asks.
LEMMA AnswersKept ==
  ASSUME GInv, UNCHANGED <<schema, known>>,
         step' \in {"protocol", "done"} => step \in {"protocol", "done"}
  PROVE  IsSchema(schema)' /\ AnswersAreRight'
<1>1. IsSchema(schema)'
  BY DEF GInv, IsSchema
<1> QED
  BY <1>1, RightKept, SchemaKept DEF GInv, AnswersAreRight

\* Nor what protocol/ has to be.
LEMMA ProtocolGoesOn ==
  ASSUME UNCHANGED <<schema, known>>, step' \in {"protocol", "done"}, NEW torn,
         protocol' = [files |-> [d \in Declaring \ todo' |-> render_domain(d)],
                      index |-> IF step' = "done" THEN Declaring ELSE NoIndex,
                      torn  |-> torn],
         torn \subseteq IF step' = "protocol" THEN {NextFile'} ELSE {}
  PROVE  ProtocolIsOfThisRun'
<1> DEFINE done == IF step' = "asking" THEN {} ELSE Declaring' \ todo'
<1>1. done = Declaring \ todo'
  BY SchemaKept
<1>2. [d \in done |-> render_domain(d)'] = [d \in done |-> render_domain(d)]
  BY RenderingKept
<1> HIDE DEF done
<1>3. protocol' = [files |-> [d \in done |-> render_domain(d)'],
                   index |-> IF step' = "done" THEN Declaring' ELSE NoIndex,
                   torn  |-> torn]
  BY <1>1, <1>2, SchemaKept
<1>4. protocol'.torn = torn
  BY <1>3
<1> QED
  BY <1>3, <1>4 DEF ProtocolIsOfThisRun, done

\* What is there before the run has emptied a directory.
LEMMA RemovedIsADirectory ==
  ASSUME NEW directory, NEW name
  PROVE  IsDirectory(Removed(directory, name))
BY DEF IsDirectory, Removed

LEMMA FreshIsEmpty ==
  ASSUME NEW directory, IsDirectory(directory), fresh(directory)
  PROVE  directory = Empty
<1>1. DOMAIN directory.files = {} /\ directory.torn = {} /\ directory.index = NoIndex
  BY DEF fresh, Entries
<1>2. directory.files = Nothing
  BY <1>1 DEF IsDirectory, Nothing
<1> QED
  BY <1>1, <1>2 DEF IsDirectory, Empty

LEMMA InitGInv == Init => GInv
<1> SUFFICES ASSUME Init PROVE GInv
  OBVIOUS
<1>1. PICK input \in Inputs :
          /\ schema \in input.schemas
          /\ \E left \in input.leftovers : methods = left[1] /\ protocol = left[2]
  BY DEF Init
<1>2. EarlierDirectories
  BY <1>1, LeftoversAssumption DEF EarlierDirectories
<1>3. IsSchema(schema)
  BY <1>1, SchemasAssumption
<1>4. AnswersAreRight
  BY DEF Init, AnswersAreRight, IsRight
<1> QED
  BY <1>2, <1>3, <1>4
     DEF Init, GInv, LoopsGoOn, MethodsAreOfThisRun, ProtocolIsOfThisRun, CheckedSoFar

\* A step that only stops the run, or that changes nothing at all.
LEMMA StoppingGInv ==
  ASSUME GInv, UNCHANGED <<schema, step, todo, known, methods, protocol>>
  PROVE  GInv'
<1> USE DEF GInv
<1>1. ProtocolIsOfThisRun'
  <2> DEFINE done == IF step = "asking" THEN {} ELSE Declaring \ todo
  <2>1. [d \in done |-> render_domain(d)'] = [d \in done |-> render_domain(d)]
    BY RenderingKept
  <2> QED
    BY <2>1, SchemaKept DEF ProtocolIsOfThisRun, NextFile, NextDomain
<1>2. LoopsGoOn' /\ EarlierDirectories' /\ CheckedSoFar'
  BY SchemaKept DEF LoopsGoOn, EarlierDirectories, CheckedSoFar, NextDomain
<1>3. MethodsAreOfThisRun'
  BY SchemaKept DEF MethodsAreOfThisRun, NextFile, NextDomain
<1>4. IsSchema(schema)' /\ AnswersAreRight'
  BY AnswersKept
<1> QED
  BY <1>1, <1>2, <1>3, <1>4

-----------------------------------------------------------------------------
(* The directory methods/.                                                 *)

\* What happens to it leaves protocol/ alone.
LEMMA ProtocolKept ==
  ASSUME GInv, UNCHANGED <<schema, known, protocol>>,
         step \in {"loaded", "methods"}, step' \in {"loaded", "methods", "indexed"}
  PROVE  /\ ProtocolIsOfThisRun' /\ CheckedSoFar'
         /\ (step' = "loaded" => IsDirectory(methods')) => EarlierDirectories'
         /\ IsSchema(schema)' /\ AnswersAreRight'
BY AnswersKept DEF GInv, ProtocolIsOfThisRun, CheckedSoFar, EarlierDirectories

LEMMA RemoveMethodsGInv ==
  ASSUME GInv, RemoveMethods
  PROVE  GInv'
<1>1. /\ step = "loaded" /\ step' = "loaded" /\ UNCHANGED <<schema, todo, known, protocol>>
      /\ IsDirectory(methods')
  BY RemovedIsADirectory DEF RemoveMethods, At
<1>2. LoopsGoOn' /\ MethodsAreOfThisRun'
  BY <1>1 DEF GInv, LoopsGoOn, MethodsAreOfThisRun
<1> QED
  BY <1>1, <1>2, ProtocolKept DEF GInv

LEMMA FreshMethodsGInv ==
  ASSUME GInv, FreshMethods
  PROVE  GInv'
<1>1. /\ step = "loaded" /\ step' = "methods" /\ todo' = WithCommands
      /\ UNCHANGED <<schema, known, methods, protocol>> /\ fresh(methods)
  BY DEF FreshMethods, At
<1>2. LoopsGoOn'
  BY <1>1, SchemaKept DEF GInv, LoopsGoOn
<1>3. MethodsAreOfThisRun'
  <2>1. methods' = Empty
    BY <1>1, FreshIsEmpty DEF GInv, EarlierDirectories
  <2>2. WithCommands' \ todo' = {}
    BY <1>1, SchemaKept
  <2>3. Nothing = [d \in WithCommands' \ todo' |-> DOMAIN schema'[d].commands]
    BY <2>2 DEF Nothing
  <2> QED
    BY <1>1, <2>1, <2>3 DEF MethodsAreOfThisRun, Empty
<1> QED
  BY <1>1, <1>2, <1>3, ProtocolKept DEF GInv

LEMMA OpenMethodsGInv ==
  ASSUME GInv, OpenMethods
  PROVE  GInv'
<1>1. /\ step = "methods" /\ step' = "methods" /\ UNCHANGED <<schema, todo, known, protocol>>
      /\ methods.torn = {} /\ methods' = [methods EXCEPT !.torn = @ \cup {NextFile}]
  BY DEF OpenMethods, At, Opened
<1>2. LoopsGoOn'
  BY <1>1, SchemaKept DEF GInv, LoopsGoOn
<1>3. MethodsAreOfThisRun'
  BY <1>1, SchemaKept DEF GInv, MethodsAreOfThisRun, NextFile, NextDomain
<1> QED
  BY <1>1, <1>2, <1>3, ProtocolKept DEF GInv

LEMMA WriteMethodsGInv ==
  ASSUME GInv, WriteMethods
  PROVE  GInv'
<1> DEFINE d == NextDomain
           Names(S) == [e \in S |-> DOMAIN schema[e].commands]
<1>1. /\ d \in todo /\ todo' = todo \ {d} /\ methods.torn = {d}
      /\ step = "methods" /\ step' = "methods" /\ UNCHANGED <<schema, known, protocol>>
      /\ methods' = Write(methods, d, DOMAIN schema[d].commands)
  BY NextDomainIsLeft DEF WriteMethods, At, NextFile
<1> HIDE DEF d
<1>2. LoopsGoOn' /\ d \in WithCommands
  BY <1>1, SchemaKept DEF GInv, LoopsGoOn
<1>3. MethodsAreOfThisRun'
  <2>1. methods = [files |-> Names(WithCommands \ todo), index |-> NoIndex, torn |-> {d}]
    BY <1>1 DEF GInv, MethodsAreOfThisRun
  <2>2. methods' = [files |-> With(Names(WithCommands \ todo), d, DOMAIN schema[d].commands),
                    index |-> NoIndex, torn |-> {}]
    BY <1>1, <2>1 DEF Write
  <2>3. (WithCommands \ todo) \cup {d} = WithCommands \ todo'
    BY <1>1, <1>2
  <2>4. With(Names(WithCommands \ todo), d, DOMAIN schema[d].commands)
          = Names(WithCommands \ todo')
    BY <2>3 DEF With
  <2>5. methods' = [files |-> [e \in WithCommands \ todo' |-> DOMAIN schema[e].commands],
                    index |-> NoIndex, torn |-> {}]
    BY <2>2, <2>4
  <2> QED
    BY <2>5, <1>1, SchemaKept DEF MethodsAreOfThisRun
<1> QED
  BY <1>1, <1>2, <1>3, ProtocolKept DEF GInv

LEMMA IndexMethodsGInv ==
  ASSUME GInv, IndexMethods
  PROVE  GInv'
<1>1. /\ step = "methods" /\ step' = "indexed" /\ UNCHANGED <<schema, todo, known, protocol>>
      /\ todo = {} /\ methods.torn = {ModRs} /\ methods' = Publish(methods, WithCommands)
  BY DEF IndexMethods, At, NextFile
<1>2. LoopsGoOn'
  BY <1>1 DEF LoopsGoOn
<1>3. MethodsAreOfThisRun'
  <2>1. methods = [files |-> [d \in WithCommands \ {} |-> DOMAIN schema[d].commands],
                   index |-> NoIndex, torn |-> {ModRs}]
    BY <1>1 DEF GInv, MethodsAreOfThisRun
  <2>2. methods' = [files |-> [d \in WithCommands \ {} |-> DOMAIN schema[d].commands],
                    index |-> WithCommands, torn |-> {}]
    BY <2>1, <1>1 DEF Publish
  <2> QED
    BY <2>2, <1>1, SchemaKept DEF MethodsAreOfThisRun
<1> QED
  BY <1>1, <1>2, <1>3, ProtocolKept DEF GInv

-----------------------------------------------------------------------------
(* The directory protocol/.                                                *)

\* What happens to it leaves methods/ alone.
LEMMA MethodsKept ==
  ASSUME GInv, UNCHANGED <<schema, known, methods>>,
         step \in {"indexed", "asking", "protocol"}, step' \notin {"loaded", "methods"},
         step' \in {"protocol", "done"} => step = "protocol"
  PROVE  /\ MethodsAreOfThisRun' /\ IsSchema(schema)' /\ AnswersAreRight'
         /\ (step' = "indexed" => IsDirectory(protocol')) => EarlierDirectories'
BY SchemaKept, AnswersKept DEF GInv, MethodsAreOfThisRun, EarlierDirectories

LEMMA RemoveProtocolGInv ==
  ASSUME GInv, RemoveProtocol
  PROVE  GInv'
<1>1. /\ step = "indexed" /\ step' = "indexed" /\ UNCHANGED <<schema, todo, known, methods>>
      /\ IsDirectory(protocol')
  BY RemovedIsADirectory DEF RemoveProtocol, At
<1>2. LoopsGoOn' /\ ProtocolIsOfThisRun' /\ CheckedSoFar'
  BY <1>1 DEF GInv, LoopsGoOn, ProtocolIsOfThisRun, CheckedSoFar
<1> QED
  BY <1>1, <1>2, MethodsKept DEF GInv

LEMMA FreshProtocolGInv ==
  ASSUME GInv, FreshProtocol
  PROVE  GInv'
<1>1. /\ step = "indexed" /\ step' = "asking"
      /\ UNCHANGED <<schema, todo, known, methods, protocol>> /\ fresh(protocol)
  BY DEF FreshProtocol, At
<1>2. LoopsGoOn' /\ CheckedSoFar'
  BY <1>1 DEF GInv, LoopsGoOn, CheckedSoFar
<1>3. ProtocolIsOfThisRun'
  <2>1. protocol' = Empty
    BY <1>1, FreshIsEmpty DEF GInv, EarlierDirectories
  <2>2. Nothing = [d \in {} |-> render_domain(d)']
    BY DEF Nothing
  <2> QED
    BY <1>1, <2>1, <2>2 DEF ProtocolIsOfThisRun, Empty
<1> QED
  BY <1>1, <1>2, <1>3, MethodsKept DEF GInv

LEMMA AskGInv ==
  ASSUME GInv, Ask
  PROVE  GInv'
<1>1. /\ step = "asking" /\ step' = "asking" /\ UNCHANGED <<schema, todo, methods, protocol>>
      /\ \E key \in Declared : known' = Asked(key)
  BY DEF Ask, At
<1>2. LoopsGoOn' /\ EarlierDirectories' /\ CheckedSoFar'
  BY <1>1, SchemaKept DEF GInv, LoopsGoOn, EarlierDirectories, CheckedSoFar
<1>3. MethodsAreOfThisRun'
  BY <1>1, SchemaKept DEF GInv, MethodsAreOfThisRun
<1>4. ProtocolIsOfThisRun'
  <2>1. /\ protocol = [files |-> [d \in {} |-> render_domain(d)], index |-> NoIndex,
                       torn |-> protocol.torn]
        /\ protocol.torn \subseteq {}
    BY <1>1 DEF GInv, ProtocolIsOfThisRun
  <2>2. [d \in {} |-> render_domain(d)] = [d \in {} |-> render_domain(d)']
    OBVIOUS
  <2> QED
    BY <1>1, <2>1, <2>2 DEF ProtocolIsOfThisRun
<1>5. IsSchema(schema)' /\ AnswersAreRight'
  BY <1>1, AskedIsRight, RightKept DEF GInv, AnswersAreRight, IsSchema
<1> QED
  BY <1>2, <1>3, <1>4, <1>5 DEF GInv

LEMMA RegisteredGInv ==
  ASSUME GInv, Registered
  PROVE  GInv'
<1>1. /\ step = "asking" /\ step' = "protocol" /\ todo' = Declaring
      /\ UNCHANGED <<schema, known, methods, protocol>>
      /\ \A key \in Declared : known[key] # "unknown"
  BY DEF Registered, At
<1>2. LoopsGoOn'
  BY <1>1, SchemaKept DEF GInv, LoopsGoOn
<1>3. MethodsAreOfThisRun' /\ EarlierDirectories'
  BY <1>1, SchemaKept DEF GInv, MethodsAreOfThisRun, EarlierDirectories
<1>4. /\ protocol = [files |-> [d \in {} |-> render_domain(d)], index |-> NoIndex, torn |-> {}]
      /\ protocol.torn = {}
  <2>1. /\ protocol = [files |-> [d \in {} |-> render_domain(d)], index |-> NoIndex,
                       torn |-> protocol.torn]
        /\ protocol.torn \subseteq {}
    BY <1>1 DEF GInv, ProtocolIsOfThisRun
  <2> QED
    BY <2>1
<1>5. ProtocolIsOfThisRun'
  <2>1. Declaring \ todo' = {}
    BY <1>1
  <2> QED
    BY <2>1, <1>1, <1>4, ProtocolGoesOn
<1>6. CheckedSoFar'
  BY <1>1, <1>4, SchemaKept DEF CheckedSoFar
<1>7. IsSchema(schema)' /\ AnswersAreRight'
  BY <1>1, RightKept, SchemaKept DEF GInv, AnswersAreRight, IsSchema
<1> QED
  BY <1>2, <1>3, <1>5, <1>6, <1>7 DEF GInv

LEMMA OpenProtocolGInv ==
  ASSUME GInv, OpenProtocol
  PROVE  GInv'
<1>1. /\ step = "protocol" /\ step' = "protocol" /\ UNCHANGED <<schema, todo, known, methods>>
      /\ protocol.torn = {} /\ protocol' = [protocol EXCEPT !.torn = @ \cup {NextFile}]
      /\ todo # {} => ~Dangling(NextDomain)
  BY DEF OpenProtocol, At, Opened, Unrenderable
<1>2. LoopsGoOn' /\ CheckedSoFar'
  BY <1>1, SchemaKept DEF GInv, LoopsGoOn, CheckedSoFar, NextDomain
<1>3. ProtocolIsOfThisRun'
  <2>1. protocol = [files |-> [d \in Declaring \ todo |-> render_domain(d)], index |-> NoIndex,
                    torn |-> {}]
    BY <1>1 DEF GInv, ProtocolIsOfThisRun
  <2>2. protocol' = [files |-> [d \in Declaring \ todo' |-> render_domain(d)],
                     index |-> NoIndex, torn |-> {NextFile}]
    BY <1>1, <2>1
  <2>3. NextFile' = NextFile
    BY <1>1 DEF NextFile, NextDomain
  <2> QED
    BY <1>1, <2>2, <2>3, ProtocolGoesOn
<1> QED
  BY <1>1, <1>2, <1>3, MethodsKept DEF GInv

LEMMA WriteProtocolGInv ==
  ASSUME GInv, WriteProtocol
  PROVE  GInv'
<1> DEFINE d == NextDomain
           Rendered(S) == [e \in S |-> render_domain(e)]
<1>1. /\ d \in todo /\ todo' = todo \ {d} /\ todo # {} /\ protocol.torn = {d}
      /\ step = "protocol" /\ step' = "protocol" /\ UNCHANGED <<schema, known, methods>>
      /\ protocol' = Write(protocol, d, render_domain(d))
  BY NextDomainIsLeft DEF WriteProtocol, At, NextFile
<1>2. ~Dangling(d)
  BY <1>1 DEF GInv, CheckedSoFar
<1> HIDE DEF d
<1>3. LoopsGoOn' /\ d \in Declaring
  BY <1>1, SchemaKept DEF GInv, LoopsGoOn
<1>4. protocol' = [files |-> Rendered(Declaring \ todo'), index |-> NoIndex, torn |-> {}]
  <2>1. protocol = [files |-> Rendered(Declaring \ todo), index |-> NoIndex, torn |-> {d}]
    BY <1>1 DEF GInv, ProtocolIsOfThisRun
  <2>2. protocol' = [files |-> With(Rendered(Declaring \ todo), d, render_domain(d)),
                     index |-> NoIndex, torn |-> {}]
    BY <1>1, <2>1 DEF Write
  <2>3. (Declaring \ todo) \cup {d} = Declaring \ todo'
    BY <1>1, <1>3
  <2>4. With(Rendered(Declaring \ todo), d, render_domain(d)) = Rendered(Declaring \ todo')
    BY <2>3 DEF With
  <2> QED
    BY <2>2, <2>4
<1>5. ProtocolIsOfThisRun'
  BY <1>1, <1>4, ProtocolGoesOn
<1>6. CheckedSoFar'
  BY <1>1, <1>2, <1>4, SchemaKept DEF GInv, CheckedSoFar
<1> QED
  BY <1>1, <1>3, <1>5, <1>6, MethodsKept DEF GInv

LEMMA IndexProtocolGInv ==
  ASSUME GInv, IndexProtocol
  PROVE  GInv'
<1>1. /\ step = "protocol" /\ step' = "done" /\ UNCHANGED <<schema, todo, known, methods>>
      /\ todo = {} /\ protocol.torn = {ModRs} /\ protocol' = Publish(protocol, Declaring)
  BY DEF IndexProtocol, At, NextFile
<1>2. LoopsGoOn' /\ CheckedSoFar'
  BY <1>1, SchemaKept DEF GInv, LoopsGoOn, CheckedSoFar
<1>3. ProtocolIsOfThisRun'
  <2>1. protocol = [files |-> [d \in Declaring \ todo |-> render_domain(d)], index |-> NoIndex,
                    torn |-> {ModRs}]
    BY <1>1 DEF GInv, ProtocolIsOfThisRun
  <2>2. protocol' = [files |-> [d \in Declaring \ todo' |-> render_domain(d)],
                     index |-> Declaring, torn |-> {}]
    BY <2>1, <1>1 DEF Publish
  <2> QED
    BY <1>1, <2>2, ProtocolGoesOn
<1> QED
  BY <1>1, <1>2, <1>3, MethodsKept DEF GInv

LEMMA NextGInv == GInv /\ [Next]_vars => GInv'
<1> SUFFICES ASSUME GInv, [Next]_vars PROVE GInv'
  OBVIOUS
<1>1. CASE UNCHANGED vars
  BY <1>1, StoppingGInv DEF vars
<1>2. CASE Panic \/ DiskFails
  BY <1>2, StoppingGInv DEF Panic, DiskFails
<1> QED
  BY <1>1, <1>2, RemoveMethodsGInv, FreshMethodsGInv, OpenMethodsGInv, WriteMethodsGInv,
     IndexMethodsGInv, RemoveProtocolGInv, FreshProtocolGInv, AskGInv, RegisteredGInv,
     OpenProtocolGInv, WriteProtocolGInv, IndexProtocolGInv
     DEF Next

-----------------------------------------------------------------------------
\* How far a run is with each directory, which it has emptied and checked before.
THEOREM InductiveInvariant == Spec => []GInv
BY InitGInv, NextGInv, PTL DEF Spec

\* Every domain is rendered before the index is begun, and refers to nothing missing.
LEMMA WhenRendered ==
  ASSUME GInv, step \in {"protocol", "done"}, todo = {}
  PROVE  /\ protocol.files = [d \in Declaring |-> render_domain(d)]
         /\ \A d \in DOMAIN schema : \A f \in Fields(d) : resolve(d, f) \in Declared
<1>1. Declaring \ todo = Declaring
  OBVIOUS
<1>2. protocol.files = [d \in Declaring \ todo |-> render_domain(d)]
  BY DEF GInv, ProtocolIsOfThisRun
<1>3. \A d \in Declaring : ~Dangling(d)
  BY <1>1 DEF GInv, CheckedSoFar
<1>4. \A d \in DOMAIN schema : \A f \in Fields(d) : resolve(d, f) \in Declared
  BY <1>3, FieldsAreDeclared DEF Dangling
<1> QED
  BY <1>1, <1>2, <1>4

\* What a finished run leaves, whatever it found.
LEMMA WhenDone ==
  ASSUME GInv, step = "done"
  PROVE  /\ protocol.files = [d \in Declaring |-> render_domain(d)]
         /\ \A d \in DOMAIN schema : \A f \in Fields(d) : resolve(d, f) \in Declared
BY WhenRendered DEF GInv, LoopsGoOn

\* A declared type has an item in the file of its domain.
LEMMA TypesAreRendered ==
  ASSUME GInv, NEW key \in Declared, protocol.files = [d \in Declaring |-> render_domain(d)]
  PROVE  /\ key[1] \in DOMAIN protocol.files
         /\ key[2] \in DOMAIN protocol.files[key[1]].types
<1>1. key[1] \in DOMAIN schema /\ key[2] \in DOMAIN schema[key[1]].types
  BY DeclaredTypes DEF GInv
<1>2. key[1] \in Declaring
  <2>1. DOMAIN Nothing = {}
    BY DEF Nothing
  <2> QED
    BY <1>1, <2>1 DEF Declaring
<1>3. DOMAIN render_domain(key[1]).types = DOMAIN schema[key[1]].types
  BY DEF render_domain
<1> QED
  BY <1>1, <1>2, <1>3

\* checked() is asked of every reference of a domain before the file of the domain is
\* opened, wherever the run stops, and mod.rs is opened after all of them.
THEOREM DanglingReferencesStopTheRunHolds == Spec => []DanglingReferencesStopTheRun
<1>1. GInv => DanglingReferencesStopTheRun
  <2> SUFFICES ASSUME GInv, step \in {"asking", "protocol", "done"}
               PROVE  DanglingReferencesStopTheRun
    BY DEF GInv, LoopsGoOn, DanglingReferencesStopTheRun
  <2>1. CASE step = "asking"
    <3>1. DOMAIN protocol.files = {} /\ protocol.torn = {} /\ protocol.index = NoIndex
      BY <2>1 DEF GInv, ProtocolIsOfThisRun
    <3> QED
      BY <3>1 DEF DanglingReferencesStopTheRun
  <2>2. CASE step \in {"protocol", "done"}
    <3>1. /\ DOMAIN protocol.files = Declaring \ todo
          /\ protocol.index # NoIndex => step = "done"
          /\ protocol.torn \subseteq IF step = "protocol" THEN {NextFile} ELSE {}
      BY <2>2 DEF GInv, ProtocolIsOfThisRun
    <3>2. ASSUME NEW d \in DOMAIN schema, d \in DOMAIN protocol.files \cup protocol.torn
          PROVE  ~Dangling(d)
      <4>1. CASE d \in Declaring \ todo
        BY <4>1, <2>2 DEF GInv, CheckedSoFar
      <4>2. CASE d \in protocol.torn
        <5>1. d # ModRs
          BY DEF GInv, IsSchema
        <5>2. step = "protocol" /\ todo # {} /\ d = NextDomain
          BY <5>1, <4>2, <3>1 DEF NextFile
        <5> QED
          BY <5>2, <4>2 DEF GInv, CheckedSoFar
      <4> QED
        BY <3>1, <3>2, <4>1, <4>2
    <3>3. ASSUME protocol.index # NoIndex \/ ModRs \in protocol.torn
          PROVE  todo = {}
      <4>1. CASE step = "done"
        BY <4>1 DEF GInv, LoopsGoOn
      <4>2. CASE step = "protocol" /\ todo # {}
        <5>1. ModRs = NextDomain
          BY <4>2, <3>1, <3>3 DEF NextFile
        <5> QED
          BY <5>1, <4>2, NextDomainIsLeft, ModulesAreNamed DEF GInv, LoopsGoOn
      <4> QED
        BY <4>1, <4>2, <2>2
    <3> QED
      BY <2>2, <3>2, <3>3, WhenRendered, TypesAreRendered DEF DanglingReferencesStopTheRun
  <2> QED
    BY <2>1, <2>2
<1> QED
  BY <1>1, InductiveInvariant, PTL

\* What a directory holds while the run is writing it.
LEMMA OnlyOfIsKept ==
  ASSUME NEW directory, NEW modules, NEW left, left \subseteq modules, NEW name,
         ModRs \notin modules,
         DOMAIN directory.files = modules \ left, directory.torn \subseteq {name},
         name = ModRs \/ name \in left,
         directory.index # NoIndex =>
             directory.index = modules /\ left = {} /\ directory.torn = {}
  PROVE  OnlyOf(directory, modules)
BY DEF OnlyOf

\* The order of generate, empty the directory, write the modules, write mod.rs last,
\* keeps an index of this run from naming what is not there wherever the run stops, and
\* what an earlier one left from outliving the first module.
THEOREM OutputIsOfThisRunHolds == Spec => []OutputIsOfThisRun
<1>1. GInv => OutputIsOfThisRun
  <2> SUFFICES ASSUME GInv PROVE OutputIsOfThisRun
    OBVIOUS
  <2>1. ASSUME step # "loaded"
        PROVE  /\ OnlyOf(methods, WithCommands)
               /\ \A d \in DOMAIN methods.files : methods.files[d] = DOMAIN schema[d].commands
    <3> DEFINE left == IF step = "methods" THEN todo ELSE {}
               name == IF step = "methods" THEN NextFile ELSE ModRs
    <3>1. /\ methods.files = [d \in WithCommands \ left |-> DOMAIN schema[d].commands]
          /\ methods.index = IF step = "methods" THEN NoIndex ELSE WithCommands
          /\ methods.torn \subseteq IF step = "methods" THEN {NextFile} ELSE {}
      BY <2>1 DEF GInv, MethodsAreOfThisRun
    <3>2. left \subseteq WithCommands /\ (name = ModRs \/ name \in left)
      BY NextDomainIsLeft DEF GInv, LoopsGoOn, NextFile
    <3>3. /\ methods.torn \subseteq {name}
          /\ methods.index # NoIndex =>
                 methods.index = WithCommands /\ left = {} /\ methods.torn = {}
      BY <3>1
    <3> HIDE DEF left, name
    <3>4. DOMAIN methods.files = WithCommands \ left
      BY <3>1
    <3>5. OnlyOf(methods, WithCommands)
      BY <3>2, <3>3, <3>4, ModulesAreNamed, OnlyOfIsKept
    <3> QED
      BY <3>1, <3>5
  <2>2. ASSUME step \notin {"loaded", "methods", "indexed"}
        PROVE  OnlyOf(protocol, Declaring)
    <3> DEFINE left == IF step = "asking" THEN Declaring ELSE todo
               name == IF step = "protocol" THEN NextFile ELSE ModRs
    <3>1. /\ DOMAIN protocol.files = Declaring \ left
          /\ protocol.index = IF step = "done" THEN Declaring ELSE NoIndex
          /\ protocol.torn \subseteq IF step = "protocol" THEN {NextFile} ELSE {}
      BY <2>2 DEF GInv, LoopsGoOn, ProtocolIsOfThisRun
    <3>2. left \subseteq Declaring /\ (name = ModRs \/ name \in left)
      BY <2>2, NextDomainIsLeft DEF GInv, LoopsGoOn, NextFile
    <3>3. /\ protocol.torn \subseteq {name}
          /\ protocol.index # NoIndex =>
                 protocol.index = Declaring /\ left = {} /\ protocol.torn = {}
      BY <3>1 DEF GInv, LoopsGoOn
    <3> HIDE DEF left, name
    <3> QED
      BY <3>1, <3>2, <3>3, ModulesAreNamed, OnlyOfIsKept
  <2>3. ASSUME step = "done"
        PROVE  /\ methods.index = WithCommands /\ protocol.index = Declaring
               /\ DOMAIN protocol.files = Declaring
               /\ methods.files = [d \in WithCommands |-> DOMAIN schema[d].commands]
               /\ \A d \in DOMAIN protocol.files :
                      DOMAIN protocol.files[d].commands = DOMAIN schema[d].commands
    <3>1. /\ protocol.files = [d \in Declaring |-> render_domain(d)]
          /\ WithCommands \ {} = WithCommands
      BY <2>3, WhenDone
    <3>2. /\ methods.files = [d \in WithCommands \ {} |-> DOMAIN schema[d].commands]
          /\ methods.index = WithCommands
      BY <2>3 DEF GInv, MethodsAreOfThisRun
    <3>3. protocol.index = Declaring
      BY <2>3 DEF GInv, ProtocolIsOfThisRun
    <3> QED
      BY <3>1, <3>2, <3>3, CommandsAreDeclared, RenderedCommands
  <2> QED
    BY <2>1, <2>2, <2>3, ModulesAreNamed, CommandsAreDeclared, CommandsAreSomething
       DEF OutputIsOfThisRun
<1> QED
  BY <1>1, InductiveInvariant, PTL

-----------------------------------------------------------------------------
(* Sizes.                                                                  *)

LEMMA RenderedType ==
  ASSUME NEW edges, NEW key
  PROVE  /\ render_type(edges, key).kind = Type(key).kind
         /\ render_type(edges, key).default
                <=> Type(key).kind = "struct" /\ is_defaultable(key[1], Type(key).fields)
         /\ render_type(edges, key).fields
                = [i \in DOMAIN Type(key).fields |-> field_type(edges, key, Type(key).fields[i])]
<1> DEFINE t == Type(key)
           default == t.kind = "struct" /\ is_defaultable(key[1], t.fields)
           fields == [i \in DOMAIN t.fields |-> field_type(edges, key, t.fields[i])]
<1>1. render_type(edges, key) = [kind |-> t.kind, default |-> default, fields |-> fields]
  BY DEF render_type, Item
<1>2. default \in BOOLEAN
  BY DEF is_defaultable
<1> HIDE DEF default, fields
<1>3. /\ render_type(edges, key).kind = t.kind
      /\ render_type(edges, key).default <=> default
      /\ render_type(edges, key).fields = fields
  BY <1>1, <1>2
<1> QED
  BY <1>3 DEF default, fields

LEMMA WrittenWhenDone ==
  ASSUME GInv, step = "done", NEW key \in Declared
  PROVE  /\ Written[key] = render_type(contains, key)
         /\ Type(key).fields \in Seq(References)
         /\ \A i \in DOMAIN Type(key).fields : resolve(key[1], Type(key).fields[i]) \in Declared
<1>1. /\ key[1] \in DOMAIN schema /\ key[2] \in DOMAIN schema[key[1]].types
      /\ key = <<key[1], key[2]>>
  BY DeclaredTypes DEF GInv
<1>2. key[1] \in Declaring
  <2>1. DOMAIN Nothing = {}
    BY DEF Nothing
  <2> QED
    BY <1>1, <2>1 DEF Declaring
<1>3. Written[key] = render_domain(key[1]).types[key[2]]
  BY <1>2, WhenDone DEF Written
<1>4. render_domain(key[1]).types[key[2]] = render_type(contains, key)
  BY <1>1 DEF render_domain
<1> QED
  BY <1>1, <1>3, <1>4, WhenDone, DeclaredTypes DEF GInv

\* How each field is wrapped.
LEMMA RustWraps ==
  ASSUME NEW f \in References, NEW boxed \in BOOLEAN, NEW g, g = Rust(f, ~f.array /\ boxed)
  PROVE  /\ g.module = f.module /\ g.name = f.name
         /\ g.wrap \in {"", "Option"} <=> ~f.array /\ ~boxed
         /\ g.wrap \in {"Box", "Option Box"} <=> ~f.array /\ boxed
         /\ g.wrap \in {"", "Option", "Box", "Option Box"} <=> ~f.array
         /\ g.wrap \in {"", "Box"} <=> Required(f)
<1>1. f.array \in BOOLEAN /\ f.optional \in BOOLEAN
  BY DEF References
<1>2. CASE f.array
  BY <1>1, <1>2 DEF Rust, Required
<1>3. CASE ~f.array
  BY <1>1, <1>3 DEF Rust, Required
<1> QED
  BY <1>1, <1>2, <1>3

LEMMA WrapsWhenDone ==
  ASSUME GInv, step = "done", NEW key \in Declared, NEW i \in DOMAIN Type(key).fields
  PROVE  LET f == Type(key).fields[i]
             g == Written[key].fields[i]
             boxed == is_cyclic(contains, key, resolve(key[1], f))
         IN  /\ resolve(key[1], g) = resolve(key[1], f)
             /\ g.wrap \in {"", "Option"} <=> ~f.array /\ ~boxed
             /\ g.wrap \in {"Box", "Option Box"} <=> ~f.array /\ boxed
             /\ g.wrap \in {"", "Option", "Box", "Option Box"} <=> ~f.array
             /\ g.wrap \in {"", "Box"} <=> Required(f)
<1> DEFINE f == Type(key).fields[i]
           g == Written[key].fields[i]
           boxed == is_cyclic(contains, key, resolve(key[1], f))
<1>1. f \in References
  <2> DEFINE fields == Type(key).fields
  <2>1. fields \in Seq(References)
    BY WrittenWhenDone
  <2> HIDE DEF fields
  <2>2. i \in DOMAIN fields
    BY DEF fields
  <2> QED
    BY <2>1, <2>2 DEF fields
<1>2. g = Rust(f, ~f.array /\ boxed)
  <2>1. Written[key].fields = [j \in DOMAIN Type(key).fields
                                  |-> field_type(contains, key, Type(key).fields[j])]
    BY WrittenWhenDone, RenderedType
  <2> QED
    BY <2>1 DEF field_type
<1>3. boxed \in BOOLEAN
  BY DEF is_cyclic, reaches
<1> HIDE DEF f, g, boxed
<1>4. resolve(key[1], g) = resolve(key[1], f)
  BY <1>1, <1>2, <1>3, RustWraps DEF resolve
<1> QED
  BY <1>1, <1>2, <1>3, <1>4, RustWraps DEF f, g, boxed

\* What refers to what in the Rust is what did in the schema.
LEMMA TargetsWhenDone ==
  ASSUME GInv, step = "done", NEW key \in Declared, NEW wraps
  PROVE  LET fields == Type(key).fields
         IN  Targets(key, wraps) =
                 {resolve(key[1], fields[i]) :
                      i \in {j \in DOMAIN fields : Written[key].fields[j].wrap \in wraps}}
<1> DEFINE fields == Type(key).fields
           written == Written[key].fields
<1>1. DOMAIN written = DOMAIN fields
  <2>1. written = [i \in DOMAIN fields |-> field_type(contains, key, fields[i])]
    BY WrittenWhenDone, RenderedType
  <2> HIDE DEF written, fields
  <2> QED
    BY <2>1
<1>2. \A i \in DOMAIN fields : resolve(key[1], written[i]) = resolve(key[1], fields[i])
  BY WrapsWhenDone
<1>3. Targets(key, wraps) =
          {resolve(key[1], written[i]) : i \in {j \in DOMAIN written : written[j].wrap \in wraps}}
  <2> HIDE DEF written
  <2> QED
    BY DEF Targets, Range, written
<1> HIDE DEF fields, written
<1>4. Targets(key, wraps) =
          {resolve(key[1], fields[i]) : i \in {j \in DOMAIN fields : written[j].wrap \in wraps}}
  BY <1>1, <1>2, <1>3
<1> QED
  BY <1>4 DEF fields, written

\* The edges the boxes were decided by are what the Rust holds inline but for them.
LEMMA ContainsWhenDone ==
  ASSUME GInv, step = "done"
  PROVE  /\ contains \in [Declared -> SUBSET Declared]
         /\ \A k \in Declared :
                /\ contains[k] = Targets(k, {"", "Option", "Box", "Option Box"})
                /\ \A l \in Targets(k, {"", "Option"}) :
                       l \in contains[k] /\ ~is_cyclic(contains, k, l)
                /\ \A l \in Targets(k, {"Box", "Option Box"}) :
                       l \in contains[k] /\ is_cyclic(contains, k, l)
<1>1. ASSUME NEW k \in Declared
      PROVE  /\ contains[k] = Targets(k, {"", "Option", "Box", "Option Box"})
             /\ \A l \in Targets(k, {"", "Option"}) :
                    l \in contains[k] /\ ~is_cyclic(contains, k, l)
             /\ \A l \in Targets(k, {"Box", "Option Box"}) :
                    l \in contains[k] /\ is_cyclic(contains, k, l)
             /\ contains[k] \subseteq Declared
  <2> DEFINE fields == Type(k).fields
             written == Written[k].fields
             Key(i) == resolve(k[1], fields[i])
  <2>1. \A i \in DOMAIN fields :
            /\ written[i].wrap \in {"", "Option"}
                   <=> ~fields[i].array /\ ~is_cyclic(contains, k, Key(i))
            /\ written[i].wrap \in {"Box", "Option Box"}
                   <=> ~fields[i].array /\ is_cyclic(contains, k, Key(i))
            /\ written[i].wrap \in {"", "Option", "Box", "Option Box"} <=> ~fields[i].array
    BY WrapsWhenDone
  <2>2. \A wraps : Targets(k, wraps) =
            {Key(i) : i \in {j \in DOMAIN fields : written[j].wrap \in wraps}}
    BY TargetsWhenDone
  <2>3. contains[k] = {Key(i) : i \in {j \in DOMAIN fields : ~fields[j].array}}
    BY DEF contains, Inline
  <2>4. \A i \in DOMAIN fields : Key(i) \in Declared
    BY WrittenWhenDone
  <2> HIDE DEF fields, written, Key
  <2>5. contains[k] = Targets(k, {"", "Option", "Box", "Option Box"})
    BY <2>1, <2>2, <2>3
  <2>6. ASSUME NEW l \in Targets(k, {"", "Option"})
        PROVE  l \in contains[k] /\ ~is_cyclic(contains, k, l)
    <3> DEFINE wraps == {"", "Option"}
    <3>1. PICK i \in DOMAIN fields : written[i].wrap \in wraps /\ l = Key(i)
      <4>1. l \in {Key(i) : i \in {j \in DOMAIN fields : written[j].wrap \in wraps}}
        BY <2>2
      <4> HIDE DEF wraps
      <4> QED
        BY <4>1
    <3>2. ~fields[i].array /\ ~is_cyclic(contains, k, l)
      BY <2>1, <3>1
    <3> QED
      BY <2>3, <3>1, <3>2
  <2>7. ASSUME NEW l \in Targets(k, {"Box", "Option Box"})
        PROVE  l \in contains[k] /\ is_cyclic(contains, k, l)
    <3> DEFINE wraps == {"Box", "Option Box"}
    <3>1. PICK i \in DOMAIN fields : written[i].wrap \in wraps /\ l = Key(i)
      <4>1. l \in {Key(i) : i \in {j \in DOMAIN fields : written[j].wrap \in wraps}}
        BY <2>2
      <4> HIDE DEF wraps
      <4> QED
        BY <4>1
    <3>2. ~fields[i].array /\ is_cyclic(contains, k, l)
      BY <2>1, <3>1
    <3> QED
      BY <2>3, <3>1, <3>2
  <2> QED
    BY <2>3, <2>4, <2>5, <2>6, <2>7
<1>2. contains = [k \in Declared |-> contains[k]]
  BY DEF contains
<1> QED
  BY <1>1, <1>2

\* Where nothing has a size, follow from any type the field that has none: the search
\* from there gets no further at some point, and is back at the type whose field it was.
THEOREM SizesAreFiniteHolds == Spec => []SizesAreFinite
<1>1. ASSUME GInv, step = "done"
      PROVE  /\ Sized = Declared
             /\ \A k \in Declared : \A l \in Targets(k, {"Box", "Option Box"}) :
                    k \in Grown(Declared, Holds)[{l}]
  <2> USE <1>1
  <2> DEFINE Reached(k) == {t \in Declared : reaches(contains, k, t)}
  <2>1. IsFiniteSet(Declared)
    BY DeclaredIsFinite DEF GInv
  <2>2. ASSUME NEW k \in Declared
        PROVE  /\ k \in Reached(k) /\ \A l \in Reached(k) : contains[l] \subseteq Reached(k)
               /\ \A C \in SUBSET Declared :
                      k \in C /\ (\A l \in C : contains[l] \subseteq C) => Reached(k) \subseteq C
    <3>1. PICK R \in SUBSET Declared :
              /\ \A target : reaches(contains, k, target) <=> target \in R
              /\ k \in R
              /\ \A l \in R : contains[l] \subseteq R
              /\ \A C \in SUBSET Declared :
                     k \in C /\ (\A l \in C : contains[l] \subseteq C) => R \subseteq C
      BY <2>1, ReachesIsLeast, ContainsWhenDone
    <3>2. Reached(k) = R
      BY <3>1
    <3> HIDE DEF Reached
    <3> QED
      BY <3>1, <3>2
  <2>3. Sized = Declared
    <3> DEFINE GetsSized == [S \in SUBSET Declared |->
                                {k \in Declared : Targets(k, {"", "Option"}) \subseteq S}]
               Unsized == Declared \ Sized
    <3>1. LeastClosed(Declared, GetsSized, {}, Sized)
      <4>1. Monotone(Declared, GetsSized)
        BY DEF Monotone
      <4> HIDE DEF GetsSized
      <4>2. LeastClosed(Declared, GetsSized, {}, Grown(Declared, GetsSized)[{}])
        BY <2>1, <4>1, GrownIsLeast
      <4> QED
        BY <4>2 DEF Sized, GetsSized
    <3>2. Sized \in SUBSET Declared /\ GetsSized[Sized] \subseteq Sized
      BY <3>1 DEF LeastClosed, Closed
    <3>3. ASSUME NEW k \in Unsized
          PROVE  \E l \in Unsized : l \in contains[k] /\ ~reaches(contains, l, k)
      <4>1. ~(Targets(k, {"", "Option"}) \subseteq Sized)
        BY <3>2
      <4>2. PICK l \in Targets(k, {"", "Option"}) : l \notin Sized
        BY <4>1
      <4>3. l \in contains[k] /\ ~is_cyclic(contains, k, l)
        BY <4>2, ContainsWhenDone
      <4>4. l \in Declared
        BY <4>3, ContainsWhenDone
      <4> QED
        BY <4>2, <4>3, <4>4 DEF is_cyclic
    <3> SUFFICES ASSUME Unsized # {} PROVE FALSE
      BY <3>2
    <3> HIDE DEF Unsized, GetsSized, Reached
    <3>4. PICK k \in Unsized : \A l \in Unsized : Reached(l) \subseteq Reached(k)
                                                  => Reached(l) = Reached(k)
      <4> DEFINE Missed == {Declared \ Reached(l) : l \in Unsized}
      <4>1. Missed \in SUBSET SUBSET Declared /\ Missed # {}
        BY DEF Unsized
      <4>2. PICK M \in Missed : \A N \in Missed : M \subseteq N => N = M
        <5> HIDE DEF Missed
        <5> QED
          BY <4>1, <2>1, FiniteHasMaximal
      <4>3. PICK m \in Unsized : M = Declared \ Reached(m)
        BY <4>2
      <4>4. ASSUME NEW l \in Unsized, Reached(l) \subseteq Reached(m)
            PROVE  Reached(l) = Reached(m)
        <5>1. Declared \ Reached(l) \in Missed
          OBVIOUS
        <5>2. Declared \ Reached(l) = Declared \ Reached(m)
          BY <5>1, <4>2, <4>3, <4>4
        <5> QED
          BY <5>2 DEF Reached
      <4> QED
        BY <4>4
    <3>5. PICK l \in Unsized : l \in contains[k] /\ ~reaches(contains, l, k)
      BY <3>3
    <3>6. k \in Declared /\ l \in Declared
      BY DEF Unsized
    <3>7. l \in Reached(k) /\ Reached(k) \in SUBSET Declared
      BY <2>2, <3>5, <3>6 DEF Reached
    <3>8. Reached(l) \subseteq Reached(k)
      BY <2>2, <3>6, <3>7
    <3>9. k \in Reached(l)
      BY <2>2, <3>4, <3>6, <3>8
    <3> QED
      BY <3>5, <3>9 DEF Reached
  <2>4. ASSUME NEW k \in Declared, NEW l \in Targets(k, {"Box", "Option Box"})
        PROVE  k \in Grown(Declared, Holds)[{l}]
    <3> DEFINE G == Grown(Declared, Holds)[{l}]
    <3>1. l \in Declared /\ reaches(contains, l, k)
      BY ContainsWhenDone DEF is_cyclic
    <3>2. \A S \in SUBSET Declared : Holds[S] = UNION {contains[m] : m \in S}
      BY ContainsWhenDone DEF Holds
    <3>3. Monotone(Declared, Holds)
      <4>1. ASSUME NEW S \in SUBSET Declared PROVE Holds[S] \in SUBSET Declared
        <5>1. UNION {contains[m] : m \in S} \in SUBSET Declared
          BY ContainsWhenDone
        <5>2. Holds[S] = UNION {contains[m] : m \in S}
          BY <3>2
        <5> QED
          BY <5>1, <5>2
      <4>2. Holds = [S \in SUBSET Declared |-> Holds[S]]
        BY DEF Holds
      <4>3. ASSUME NEW A \in SUBSET Declared, NEW B \in SUBSET Declared, A \subseteq B
            PROVE  Holds[A] \subseteq Holds[B]
        <5>1. UNION {contains[m] : m \in A} \subseteq UNION {contains[m] : m \in B}
          BY <4>3
        <5>2. /\ Holds[A] = UNION {contains[m] : m \in A}
              /\ Holds[B] = UNION {contains[m] : m \in B}
          BY <3>2
        <5> QED
          BY <5>1, <5>2
      <4> QED
        BY <4>1, <4>2, <4>3 DEF Monotone
    <3>4. LeastClosed(Declared, Holds, {l}, G)
      BY <2>1, <3>1, <3>3, GrownIsLeast
    <3> HIDE DEF G
    <3>5. G \in SUBSET Declared /\ l \in G /\ Holds[G] \subseteq G
      BY <3>4 DEF LeastClosed, Closed
    <3>6. \A m \in G : contains[m] \subseteq G
      BY <3>2, <3>5
    <3>7. Reached(l) \subseteq G
      BY <2>2, <3>1, <3>5, <3>6
    <3> QED
      BY <3>1, <3>7 DEF G
  <2> QED
    BY <2>3, <2>4
<1>2. GInv => SizesAreFinite
  BY <1>1 DEF SizesAreFinite
<1> QED
  BY <1>2, InductiveInvariant, PTL

-----------------------------------------------------------------------------
(* Defaults.                                                               *)

\* Boxed or not, a field needs the default of its type when the schema requires it.
LEMMA RustRequires ==
  ASSUME NEW f \in References, NEW boxed \in BOOLEAN, NEW g, g = Rust(f, boxed), NEW d
  PROVE  /\ resolve(d, g) = resolve(d, f)
         /\ g.wrap \in {"", "Box"} <=> Required(f)
<1>1. f.array \in BOOLEAN /\ f.optional \in BOOLEAN
  BY DEF References
<1>2. g.module = f.module /\ g.name = f.name
  BY DEF Rust
<1>3. g.wrap \in {"", "Box"} <=> Required(f)
  <2>1. CASE f.array
    BY <1>1, <2>1 DEF Rust, Required
  <2>2. CASE ~f.array
    BY <1>1, <2>2 DEF Rust, Required
  <2> QED
    BY <1>1, <2>1, <2>2
<1> QED
  BY <1>2, <1>3 DEF resolve

LEMMA EndsAsRequired ==
  ASSUME NEW d, NEW fields \in Seq(References), NEW item, NEW S,
         DOMAIN item.fields = DOMAIN fields,
         \A i \in DOMAIN fields : \E boxed \in BOOLEAN : item.fields[i] = Rust(fields[i], boxed)
  PROVE  Ends(S, d, item) <=>
             \A i \in DOMAIN fields : Required(fields[i]) => resolve(d, fields[i]) \in S
<1> DEFINE rust == item.fields
<1>1. ASSUME NEW i \in DOMAIN fields
      PROVE  /\ resolve(d, rust[i]) = resolve(d, fields[i])
             /\ rust[i].wrap \in {"", "Box"} <=> Required(fields[i])
  <2>1. PICK boxed \in BOOLEAN : rust[i] = Rust(fields[i], boxed)
    OBVIOUS
  <2> DEFINE f == fields[i]
             g == rust[i]
  <2>2. f \in References /\ g = Rust(f, boxed)
    BY <2>1
  <2> HIDE DEF f, g
  <2>3. resolve(d, g) = resolve(d, f) /\ (g.wrap \in {"", "Box"} <=> Required(f))
    BY <2>2, RustRequires
  <2> QED
    BY <2>3 DEF f, g
<1>2. Ends(S, d, item) <=>
          \A i \in DOMAIN rust : rust[i].wrap \in {"", "Box"} => resolve(d, rust[i]) \in S
  BY DEF Ends, Range
<1> HIDE DEF rust
<1>3. DOMAIN rust = DOMAIN fields
  BY DEF rust
<1> QED
  BY <1>1, <1>2, <1>3

\* The answers of the registry, when it has them all.
LEMMA DefaultableWhenDone ==
  ASSUME GInv, step = "done", NEW d \in DOMAIN schema, NEW fields, Range(fields) \subseteq Fields(d)
  PROVE  is_defaultable(d, fields) <=>
             \A i \in DOMAIN fields : Required(fields[i]) => resolve(d, fields[i]) \in Derivable
<1>1. \A i \in DOMAIN fields : resolve(d, fields[i]) \in Declared
  BY WhenDone DEF Range
<1>2. ASSUME NEW key \in Declared PROVE known[key] = "yes" <=> key \in Derivable
  <2>1. known[key] # "unknown" /\ IsRight(known)
    BY DEF GInv, AnswersAreRight
  <2> QED
    BY <2>1, RightMeans
<1> QED
  BY <1>1, <1>2 DEF is_defaultable

LEMMA EndsWhenDone ==
  ASSUME GInv, step = "done", NEW k \in Declared, NEW S
  PROVE  LET fields == Type(k).fields
         IN  Ends(S, k[1], Written[k]) <=>
                 \A i \in DOMAIN fields : Required(fields[i]) => resolve(k[1], fields[i]) \in S
<1> DEFINE fields == Type(k).fields
           item == Written[k]
<1>1. item.fields = [i \in DOMAIN fields |-> field_type(contains, k, fields[i])]
  BY WrittenWhenDone, RenderedType
<1>2. fields \in Seq(References)
  BY WrittenWhenDone
<1> HIDE DEF fields, item
<1>3. ASSUME NEW i \in DOMAIN fields
      PROVE  \E boxed \in BOOLEAN : item.fields[i] = Rust(fields[i], boxed)
  <2> DEFINE boxed == ~fields[i].array /\ is_cyclic(contains, k, resolve(k[1], fields[i]))
  <2>1. boxed \in BOOLEAN
    BY DEF is_cyclic, reaches
  <2>2. item.fields[i] = Rust(fields[i], boxed)
    BY <1>1 DEF field_type
  <2> HIDE DEF boxed
  <2> QED
    BY <2>1, <2>2
<1>4. Ends(S, k[1], item) <=>
          \A i \in DOMAIN fields : Required(fields[i]) => resolve(k[1], fields[i]) \in S
  <2>1. DOMAIN item.fields = DOMAIN fields
    BY <1>1
  <2> QED
    BY <1>2, <1>3, <2>1, EndsAsRequired
<1> QED
  BY <1>4 DEF fields, item

\* The types that have a default in the Rust are those that do in the schema.
LEMMA DefaultingWhenDone ==
  ASSUME GInv, step = "done"
  PROVE  Defaulting = Derivable
<1>1. ASSUME NEW k \in Declared, NEW S \in SUBSET Declared
      PROVE  /\ Written[k].kind = Type(k).kind
             /\ Ends(S, k[1], Written[k]) <=> RequiredOf(k) \subseteq S
  <2>1. Written[k].kind = Type(k).kind
    <3>1. Written[k] = render_type(contains, k)
      BY WrittenWhenDone
    <3>2. render_type(contains, k).kind = Type(k).kind
      BY RenderedType
    <3> QED
      BY <3>1, <3>2
  <2>2. \A i \in DOMAIN Type(k).fields : resolve(k[1], Type(k).fields[i]) \in Declared
    BY WrittenWhenDone
  <2>3. RequiredOf(k) \subseteq S <=>
            \A i \in DOMAIN Type(k).fields :
                Required(Type(k).fields[i]) => resolve(k[1], Type(k).fields[i]) \in S
    BY <2>2 DEF RequiredOf
  <2> QED
    BY <2>1, <2>3, EndsWhenDone
<1>2. Requiring = [S \in SUBSET Declared |->
                      {k \in Declared : Written[k].kind # "enum" /\ Ends(S, k[1], Written[k])}]
  <2>1. ASSUME NEW S \in SUBSET Declared
        PROVE  {k \in Declared : Type(k).kind # "enum" /\ RequiredOf(k) \subseteq S}
                 = {k \in Declared : Written[k].kind # "enum" /\ Ends(S, k[1], Written[k])}
    BY <1>1
  <2> QED
    BY <2>1 DEF Requiring
<1> QED
  BY <1>2 DEF Defaulting, Derivable

LEMMA RenderedStruct ==
  ASSUME GInv, step = "done", NEW d \in DOMAIN schema, NEW fields \in Seq(References),
         Range(fields) \subseteq Fields(d), NEW item, item = render_struct(d, fields)
  PROVE  item.default <=> Ends(Defaulting, d, item)
<1>1. item.default <=> is_defaultable(d, fields)
  <2>1. is_defaultable(d, fields) \in BOOLEAN
    BY DEF is_defaultable
  <2> QED
    BY <2>1 DEF render_struct, Item
<1>2. item.fields = [i \in DOMAIN fields |-> Rust(fields[i], FALSE)]
  BY DEF render_struct, Item
<1>3. Ends(Derivable, d, item) <=>
          \A i \in DOMAIN fields : Required(fields[i]) => resolve(d, fields[i]) \in Derivable
  <2>1. /\ DOMAIN item.fields = DOMAIN fields
        /\ \A i \in DOMAIN fields : \E boxed \in BOOLEAN :
               item.fields[i] = Rust(fields[i], boxed)
    BY <1>2
  <2> QED
    BY <2>1, EndsAsRequired
<1> QED
  BY <1>1, <1>3, DefaultableWhenDone, DefaultingWhenDone

\* The registry answers each type in the middle of others, taking what is being asked
\* for no; yet no answer that it keeps depends on what was asked first.
THEOREM DefaultsAreExactHolds == Spec => []DefaultsAreExact
<1> DEFINE D == Defaulting
           Exact(d, item) == item.kind = "struct" => (item.default <=> Ends(D, d, item))
<1>1. ASSUME GInv, step = "done", NEW d \in DOMAIN protocol.files
      PROVE  LET file == protocol.files[d]
             IN  /\ \A n \in DOMAIN file.types : Exact(d, file.types[n])
                 /\ \A n \in DOMAIN file.commands : /\ Exact(d, file.commands[n].params)
                                                    /\ Exact(d, file.commands[n].returns)
                 /\ \A n \in DOMAIN file.events : Exact(d, file.events[n].payload)
  <2> USE <1>1
  <2> DEFINE dom == schema[d]
             file == protocol.files[d]
  <2>1. d \in DOMAIN schema /\ file = render_domain(d)
    BY WhenDone DEF Declaring
  <2>2. ASSUME NEW n \in DOMAIN file.types PROVE Exact(d, file.types[n])
    <3> DEFINE k == <<d, n>>
               fields == Type(k).fields
               item == file.types[n]
    <3>1. n \in DOMAIN dom.types /\ item = render_type(contains, k)
      BY <2>1 DEF render_domain
    <3>2. k \in Declared /\ k[1] = d
      BY <2>1, <3>1 DEF Declared
    <3>3. fields \in Seq(References) /\ Range(fields) \subseteq Fields(d)
      BY <3>2, DeclaredTypes DEF GInv, Range
    <3>4. item.kind = Type(k).kind /\ Written[k] = item
      <4>1. Written[k] = item
        BY <3>2 DEF Written
      <4>2. render_type(contains, k).kind = Type(k).kind
        BY RenderedType
      <4> QED
        BY <3>1, <4>1, <4>2
    <3>5. item.default <=> Type(k).kind = "struct" /\ is_defaultable(d, fields)
      <4>1. render_type(contains, k).default
                <=> Type(k).kind = "struct" /\ is_defaultable(k[1], Type(k).fields)
        BY RenderedType
      <4> QED
        BY <3>1, <3>2, <4>1
    <3>6. is_defaultable(d, fields) <=> Ends(D, d, item)
      <4> DEFINE AllEnd == \A i \in DOMAIN fields :
                               Required(fields[i]) => resolve(d, fields[i]) \in Derivable
      <4>1. is_defaultable(d, fields) <=> AllEnd
        BY <2>1, <3>3, DefaultableWhenDone
      <4>2. Ends(Derivable, d, item) <=> AllEnd
        BY <3>2, <3>4, EndsWhenDone
      <4> QED
        BY <4>1, <4>2, DefaultingWhenDone
    <3>7. item.kind = "struct" => (item.default <=> Ends(D, d, item))
      <4> HIDE DEF D, item, fields
      <4> QED
        BY <3>4, <3>5, <3>6
    <3> QED
      BY <3>7
  <2>3. ASSUME NEW n \in DOMAIN file.commands
        PROVE  Exact(d, file.commands[n].params) /\ Exact(d, file.commands[n].returns)
    <3> DEFINE c == dom.commands[n]
    <3>1. n \in DOMAIN dom.commands
      BY <2>1 DEF render_domain
    <3>2. /\ file.commands[n].params = render_struct(d, c.params)
          /\ file.commands[n].returns =
                 IF c.returns.kind = "none" THEN NoReturns ELSE render_struct(d, c.returns.fields)
      BY <2>1, <3>1 DEF render_domain, render_command, Command
    <3>3. c.params \in Seq(References) /\ c.returns.fields \in Seq(References)
      BY <2>1, <3>1 DEF GInv, IsSchema
    <3>4. Range(c.params) \subseteq Fields(d) /\ Range(c.returns.fields) \subseteq Fields(d)
      BY <2>1, <3>1 DEF Fields
    <3>5. Exact(d, file.commands[n].params)
      BY <2>1, <3>2, <3>3, <3>4, RenderedStruct
    <3>6. Exact(d, file.commands[n].returns)
      <4>1. CASE c.returns.kind = "none"
        BY <3>2, <4>1 DEF NoReturns, Item
      <4>2. CASE c.returns.kind # "none"
        BY <2>1, <3>2, <3>3, <3>4, <4>2, RenderedStruct
      <4> QED
        BY <4>1, <4>2
    <3> QED
      BY <3>5, <3>6
  <2>4. ASSUME NEW n \in DOMAIN file.events PROVE Exact(d, file.events[n].payload)
    <3> DEFINE fields == dom.events[n]
    <3>1. n \in DOMAIN dom.events
      BY <2>1 DEF render_domain
    <3>2. file.events[n].payload = render_struct(d, fields)
      BY <2>1, <3>1 DEF render_domain, Event
    <3>3. fields \in Seq(References) /\ Range(fields) \subseteq Fields(d)
      BY <2>1, <3>1 DEF GInv, IsSchema, Fields
    <3> QED
      BY <2>1, <3>2, <3>3, RenderedStruct
  <2> QED
    BY <2>2, <2>3, <2>4
<1>2. GInv => DefaultsAreExact
  BY <1>1 DEF DefaultsAreExact
<1> QED
  BY <1>2, InductiveInvariant, PTL
=============================================================================
