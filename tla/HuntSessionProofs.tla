------------------------- MODULE HuntSessionProofs -------------------------
(***************************************************************************)
(* For all rows, operations and requests: a concluded answer is bound to   *)
(* evidence, a negative is licensed, the cards are the admitted rows, and  *)
(* what an operation observed is answered.                                 *)
(***************************************************************************)
EXTENDS HuntSessionProperties, FiniteSetTheorems, TLAPS

-----------------------------------------------------------------------------
(* Induction over numbers and sequences.                                   *)

LEMMA Least ==
    ASSUME NEW S \in SUBSET Nat, S # {}
    PROVE  \E m \in S : \A n \in S : m <= n
<1> DEFINE R == OpToRel(<, Nat)
<1>1. IsWellFoundedOn(R, Nat)
  BY NatLessThanWellFounded
<1>2. \A i, j \in Nat : j < i => <<j, i>> \in R
  BY DEF OpToRel
<1> HIDE DEF R
<1>3. PICK m \in S : \A n \in S : ~ (<<n, m>> \in R)
  BY <1>1, WFMin
<1>4. ASSUME NEW n \in S PROVE m <= n
  <2>1. m \in Nat /\ n \in Nat
    OBVIOUS
  <2>2. ~(n < m)
    BY <1>2, <1>3, <2>1
  <2> QED BY <2>1, <2>2
<1> QED BY <1>4

LEMMA NatSets ==
    ASSUME NEW S, 0 \in S, \A n \in Nat : n \in S => n + 1 \in S
    PROVE  Nat \subseteq S
<1> DEFINE T == Nat \ S
<1>1. SUFFICES ASSUME T # {} PROVE FALSE
  OBVIOUS
<1>2. PICK m \in T : \A n \in T : m <= n
  BY <1>1, Least
<1>3. m - 1 \in Nat /\ m - 1 \notin T
  BY <1>2
<1> QED BY <1>2, <1>3

\* A set with the empty sequence, closed under Append, has every sequence.
LEMMA SeqSets ==
    ASSUME NEW T, NEW S, << >> \in S,
           \A s \in Seq(T), x \in T : s \in S => Append(s, x) \in S
    PROVE  Seq(T) \subseteq S
<1> DEFINE N == {n \in Nat : \A s \in Seq(T) : Len(s) = n => s \in S}
<1>1. 0 \in N
  OBVIOUS
<1>2. ASSUME NEW n \in Nat, n \in N PROVE n + 1 \in N
  <2> SUFFICES ASSUME NEW s \in Seq(T), Len(s) = n + 1 PROVE s \in S
    OBVIOUS
  <2> DEFINE f == [i \in 1 .. n |-> s[i]]
  <2>1. f \in Seq(T) /\ Len(f) = n
    <3>1. \A i \in 1 .. n : s[i] \in T
      OBVIOUS
    <3> QED BY <3>1
  <2>2. s[n + 1] \in T
    OBVIOUS
  <2>3. s = Append(f, s[n + 1])
    BY <2>1, <2>2, SMTT(20)
  <2>4. f \in S
    BY <1>2, <2>1
  <2> HIDE DEF f
  <2> QED BY <2>1, <2>2, <2>3, <2>4
<1>3. Nat \subseteq N
  <2> HIDE DEF N
  <2> QED BY <1>1, <1>2, NatSets
<1> QED BY <1>3

LEMMA RowsAppend ==
    ASSUME NEW X, NEW s \in Seq(X), NEW x \in X
    PROVE  RowsOf(Append(s, x)) = RowsOf(s) \cup {x}
<1> DEFINE t == Append(s, x)
<1>1. /\ DOMAIN t = 1 .. Len(s) + 1 /\ t[Len(s) + 1] = x
      /\ DOMAIN s = 1 .. Len(s) /\ Len(s) \in Nat
      /\ \A i \in 1 .. Len(s) : t[i] = s[i]
  OBVIOUS
<1> HIDE DEF t
<1>2. 1 .. Len(s) + 1 = (1 .. Len(s)) \cup {Len(s) + 1}
  BY <1>1
<1>3. RowsOf(t) = RowsOf(s) \cup {x}
  BY <1>1, <1>2 DEF RowsOf
<1> QED BY <1>3 DEF t

LEMMA RowsConcat ==
    ASSUME NEW X, NEW s \in Seq(X), NEW t \in Seq(X)
    PROVE  s \o t \in Seq(X) /\ RowsOf(s \o t) = RowsOf(s) \cup RowsOf(t)
<1> DEFINE u == s \o t
<1>1. /\ DOMAIN u = 1 .. Len(s) + Len(t) /\ Len(s) \in Nat /\ Len(t) \in Nat
      /\ DOMAIN s = 1 .. Len(s) /\ DOMAIN t = 1 .. Len(t)
      /\ \A i \in 1 .. Len(s) : u[i] = s[i]
      /\ \A i \in 1 .. Len(t) : u[Len(s) + i] = t[i]
  OBVIOUS
<1> HIDE DEF u
<1>2. \A i \in 1 .. Len(s) + Len(t) :
         i \in 1 .. Len(s) \/ (i - Len(s) \in 1 .. Len(t) /\ i = Len(s) + (i - Len(s)))
  BY <1>1
<1>3. RowsOf(u) \subseteq RowsOf(s) \cup RowsOf(t)
  <2> SUFFICES ASSUME NEW i \in 1 .. Len(s) + Len(t) PROVE u[i] \in RowsOf(s) \cup RowsOf(t)
    BY <1>1 DEF RowsOf
  <2>1. CASE i \in 1 .. Len(s)
    BY <1>1, <2>1 DEF RowsOf
  <2>2. CASE i - Len(s) \in 1 .. Len(t) /\ i = Len(s) + (i - Len(s))
    <3>1. u[i] = t[i - Len(s)]
      BY <1>1, <2>2
    <3> QED BY <1>1, <2>2, <3>1 DEF RowsOf
  <2> QED BY <1>2, <2>1, <2>2
<1>4. \A i \in 1 .. Len(s) : i \in 1 .. Len(s) + Len(t)
  BY <1>1
<1>5. \A i \in 1 .. Len(t) : Len(s) + i \in 1 .. Len(s) + Len(t)
  BY <1>1
<1>6. RowsOf(s) \cup RowsOf(t) \subseteq RowsOf(u)
  BY <1>1, <1>4, <1>5 DEF RowsOf
<1>7. RowsOf(u) = RowsOf(s) \cup RowsOf(t)
  BY <1>3, <1>6
<1> QED BY <1>7 DEF u

-----------------------------------------------------------------------------
(* What Kept keeps.                                                        *)

Upto(f, s, S, n) ==
    f = [i \in 0 .. n |-> IF i = 0 THEN << >>
                          ELSE IF s[i] \in S THEN Append(f[i - 1], s[i]) ELSE f[i - 1]]

LEMMA UptoSteps ==
    ASSUME NEW f, NEW s, NEW S, NEW n \in Nat, Upto(f, s, S, n)
    PROVE  /\ f[0] = << >>
           /\ \A i \in 1 .. n :
                 f[i] = IF s[i] \in S THEN Append(f[i - 1], s[i]) ELSE f[i - 1]
<1>1. f[0] = << >>
  BY DEF Upto
<1>2. ASSUME NEW i \in 1 .. n
      PROVE  f[i] = IF s[i] \in S THEN Append(f[i - 1], s[i]) ELSE f[i - 1]
  <2>1. i \in 0 .. n /\ i # 0
    OBVIOUS
  <2> QED BY <2>1, Zenon DEF Upto
<1> QED BY <1>1, <1>2

LEMMA UptoExists ==
    ASSUME NEW s, NEW S, NEW n \in Nat
    PROVE  \E f : Upto(f, s, S, n)
<1> DEFINE N == {k \in Nat : \E f : Upto(f, s, S, k)}
<1>1. 0 \in N
  <2>1. Upto([i \in 0 .. 0 |-> << >>], s, S, 0)
    BY DEF Upto
  <2> QED BY <2>1
<1>2. ASSUME NEW k \in Nat, k \in N PROVE k + 1 \in N
  <2>1. PICK f : Upto(f, s, S, k)
    BY <1>2
  <2> DEFINE g == [i \in 0 .. k + 1 |->
                     IF i \in 0 .. k THEN f[i]
                     ELSE IF s[k + 1] \in S THEN Append(f[k], s[k + 1]) ELSE f[k]]
  <2>2. ASSUME NEW i \in 0 .. k + 1
        PROVE  g[i] = IF i = 0 THEN << >>
                      ELSE IF s[i] \in S THEN Append(g[i - 1], s[i]) ELSE g[i - 1]
    <3>1. CASE i = 0
      <4>1. f[0] = << >> /\ 0 \in 0 .. k
        BY <2>1, UptoSteps
      <4> QED BY <3>1, <4>1
    <3>2. CASE i \in 1 .. k
      <4>1. g[i] = f[i] /\ g[i - 1] = f[i - 1]
        BY <3>2
      <4>2. f[i] = IF s[i] \in S THEN Append(f[i - 1], s[i]) ELSE f[i - 1]
        <5>1. \A j \in 1 .. k : f[j] = IF s[j] \in S THEN Append(f[j - 1], s[j]) ELSE f[j - 1]
          BY <2>1, UptoSteps
        <5> QED BY <3>2, <5>1
      <4> QED BY <3>2, <4>1, <4>2
    <3>3. CASE i = k + 1
      <4>1. g[i - 1] = f[k] /\ i # 0 /\ i \notin 0 .. k
        BY <3>3
      <4> QED BY <3>3, <4>1
    <3> QED BY <3>1, <3>2, <3>3
  <2>3. Upto(g, s, S, k + 1)
    BY <2>2 DEF Upto
  <2> QED BY <2>3
<1>3. Nat \subseteq N
  <2> HIDE DEF N
  <2> QED BY <1>1, <1>2, NatSets
<1> QED BY <1>3

LEMMA KeptIsUpto ==
    ASSUME NEW s, NEW S, Len(s) \in Nat
    PROVE  \E f : Upto(f, s, S, Len(s)) /\ Kept(s, S) = f[Len(s)]
<1> DEFINE f == CHOOSE g : Upto(g, s, S, Len(s))
<1>1. Upto(f, s, S, Len(s))
  BY UptoExists
<1>2. Kept(s, S) = f[Len(s)]
  BY DEF Kept, Upto
<1> QED BY <1>1, <1>2

\* Two that agree on the first n places keep the same of them.
LEMMA UptoAgree ==
    ASSUME NEW f, NEW g, NEW s, NEW t, NEW S, NEW T, NEW m \in Nat, NEW n \in Nat,
           Upto(f, s, S, m), Upto(g, t, T, n), m <= n,
           \A i \in 1 .. m : s[i] = t[i] /\ (s[i] \in S <=> t[i] \in T)
    PROVE  f[m] = g[m]
<1> DEFINE N == {k \in Nat : k <= m => f[k] = g[k]}
<1>1. 0 \in N
  BY UptoSteps
<1>2. ASSUME NEW k \in Nat, k \in N PROVE k + 1 \in N
  <2> SUFFICES ASSUME k + 1 <= m PROVE f[k + 1] = g[k + 1]
    OBVIOUS
  <2>1. f[k] = g[k]
    BY <1>2
  <2>0. k + 1 \in 1 .. m /\ k + 1 \in 1 .. n /\ (k + 1) - 1 = k
    OBVIOUS
  <2>2. f[k + 1] = IF s[k + 1] \in S THEN Append(f[k], s[k + 1]) ELSE f[k]
    <3>1. f[k + 1] = IF s[k + 1] \in S THEN Append(f[(k + 1) - 1], s[k + 1]) ELSE f[(k + 1) - 1]
      BY <2>0, UptoSteps
    <3> QED BY <2>0, <3>1
  <2>3. g[k + 1] = IF t[k + 1] \in T THEN Append(g[k], t[k + 1]) ELSE g[k]
    <3>1. g[k + 1] = IF t[k + 1] \in T THEN Append(g[(k + 1) - 1], t[k + 1]) ELSE g[(k + 1) - 1]
      BY <2>0, UptoSteps
    <3> QED BY <2>0, <3>1
  <2>4. s[k + 1] = t[k + 1] /\ (s[k + 1] \in S <=> t[k + 1] \in T)
    OBVIOUS
  <2> QED BY <2>1, <2>2, <2>3, <2>4
<1>3. Nat \subseteq N
  <2> HIDE DEF N
  <2> QED BY <1>1, <1>2, NatSets
<1> QED BY <1>3

LEMMA KeptAgree ==
    ASSUME NEW X, NEW s \in Seq(X), NEW S, NEW T, \A o \in RowsOf(s) : o \in S <=> o \in T
    PROVE  Kept(s, S) = Kept(s, T)
<1>1. PICK f : Upto(f, s, S, Len(s)) /\ Kept(s, S) = f[Len(s)]
  BY KeptIsUpto
<1>2. PICK g : Upto(g, s, T, Len(s)) /\ Kept(s, T) = g[Len(s)]
  BY KeptIsUpto
<1>3. \A i \in 1 .. Len(s) : s[i] = s[i] /\ (s[i] \in S <=> s[i] \in T)
  BY DEF RowsOf
<1> QED BY <1>1, <1>2, <1>3, UptoAgree

LEMMA KeptEmpty == ASSUME NEW S PROVE Kept(<< >>, S) = << >>
<1>1. PICK f : Upto(f, << >>, S, 0) /\ Kept(<< >>, S) = f[0]
  BY KeptIsUpto
<1> QED BY <1>1 DEF Upto

LEMMA KeptAppend ==
    ASSUME NEW X, NEW s \in Seq(X), NEW x \in X, NEW S
    PROVE  Kept(Append(s, x), S) = IF x \in S THEN Append(Kept(s, S), x) ELSE Kept(s, S)
<1> DEFINE t == Append(s, x)
           n == Len(s)
<1>1. t \in Seq(X) /\ Len(t) = n + 1 /\ t[n + 1] = x /\ n \in Nat
      /\ \A i \in 1 .. n : t[i] = s[i]
  OBVIOUS
<1>2. PICK f : Upto(f, s, S, n) /\ Kept(s, S) = f[n]
  BY KeptIsUpto
<1>3. PICK g : Upto(g, t, S, n + 1) /\ Kept(t, S) = g[n + 1]
  <2>1. n + 1 \in Nat
    BY <1>1
  <2>2. PICK g : Upto(g, t, S, Len(t)) /\ Kept(t, S) = g[Len(t)]
    BY <1>1, <2>1, KeptIsUpto
  <2>3. Upto(g, t, S, n + 1) /\ Kept(t, S) = g[n + 1]
    BY <1>1, <2>2
  <2> QED BY <2>3
<1> HIDE DEF t, n
<1>4. f[n] = g[n]
  <2>1. n + 1 \in Nat /\ n <= n + 1
    BY <1>1
  <2> QED BY <1>1, <1>2, <1>3, <2>1, UptoAgree
<1>5. g[n + 1] = IF t[n + 1] \in S THEN Append(g[n], t[n + 1]) ELSE g[n]
  <2>1. n + 1 \in Nat /\ n + 1 \in 1 .. n + 1 /\ (n + 1) - 1 = n
    BY <1>1
  <2>2. g[n + 1] = IF t[n + 1] \in S THEN Append(g[(n + 1) - 1], t[n + 1]) ELSE g[(n + 1) - 1]
    BY <1>3, <2>1, UptoSteps
  <2> QED BY <2>1, <2>2
<1>6. Kept(t, S) = IF x \in S THEN Append(Kept(s, S), x) ELSE Kept(s, S)
  BY <1>1, <1>2, <1>3, <1>4, <1>5
<1> QED BY <1>6 DEF t

LEMMA KeptIn ==
    ASSUME NEW X, NEW s \in Seq(X), NEW S
    PROVE  Kept(s, S) \in Seq(X) /\ RowsOf(Kept(s, S)) = RowsOf(s) \cap S
<1> DEFINE Q == {t \in Seq(X) : Kept(t, S) \in Seq(X) /\ RowsOf(Kept(t, S)) = RowsOf(t) \cap S}
<1>1. << >> \in Q
  <2>1. Kept(<< >>, S) = << >> /\ << >> \in Seq(X)
    BY KeptEmpty
  <2>2. RowsOf(<< >>) = {}
    BY DEF RowsOf
  <2> QED BY <2>1, <2>2
<1>2. ASSUME NEW t \in Seq(X), NEW x \in X, t \in Q PROVE Append(t, x) \in Q
  <2>1. Kept(t, S) \in Seq(X) /\ RowsOf(Kept(t, S)) = RowsOf(t) \cap S
    BY <1>2
  <2>2. Kept(Append(t, x), S) = IF x \in S THEN Append(Kept(t, S), x) ELSE Kept(t, S)
    BY KeptAppend
  <2>3. Append(t, x) \in Seq(X) /\ RowsOf(Append(t, x)) = RowsOf(t) \cup {x}
    BY RowsAppend
  <2>4. RowsOf(Append(Kept(t, S), x)) = RowsOf(Kept(t, S)) \cup {x}
    BY <2>1, RowsAppend
  <2>5. Kept(Append(t, x), S) \in Seq(X)
    BY <2>1, <2>2
  <2>6. RowsOf(Kept(Append(t, x), S)) = RowsOf(Append(t, x)) \cap S
    BY <2>1, <2>2, <2>3, <2>4
  <2> QED BY <2>3, <2>5, <2>6
<1>3. Seq(X) \subseteq Q
  <2> HIDE DEF Q
  <2> QED BY <1>1, <1>2, SeqSets
<1> QED BY <1>3

LEMMA KeptConcat ==
    ASSUME NEW X, NEW s \in Seq(X), NEW t \in Seq(X), NEW S
    PROVE  Kept(s \o t, S) = Kept(s, S) \o Kept(t, S)
<1> DEFINE Q == {u \in Seq(X) : Kept(s \o u, S) = Kept(s, S) \o Kept(u, S)}
<1>1. << >> \in Q
  <2>1. Kept(s, S) \in Seq(X)
    BY KeptIn
  <2>2. s \o << >> = s /\ Kept(s, S) \o << >> = Kept(s, S) /\ << >> \in Seq(X)
    BY <2>1
  <2> QED BY <2>2, KeptEmpty
<1>2. ASSUME NEW u \in Seq(X), NEW x \in X, u \in Q PROVE Append(u, x) \in Q
  <2>1. s \o Append(u, x) = Append(s \o u, x) /\ s \o u \in Seq(X)
    OBVIOUS
  <2>2. Kept(Append(s \o u, x), S) = IF x \in S THEN Append(Kept(s \o u, S), x) ELSE Kept(s \o u, S)
    BY <2>1, KeptAppend
  <2>3. Kept(Append(u, x), S) = IF x \in S THEN Append(Kept(u, S), x) ELSE Kept(u, S)
    BY KeptAppend
  <2>4. Kept(s, S) \o Append(Kept(u, S), x) = Append(Kept(s, S) \o Kept(u, S), x)
    <3>1. Kept(s, S) \in Seq(X) /\ Kept(u, S) \in Seq(X)
      BY KeptIn
    <3> QED BY <3>1
  <2>5. Kept(s \o u, S) = Kept(s, S) \o Kept(u, S)
    BY <1>2
  <2>6. Append(u, x) \in Seq(X)
    OBVIOUS
  <2>7. Kept(s \o Append(u, x), S) = Kept(s, S) \o Kept(Append(u, x), S)
    <3>1. CASE x \in S
      BY <2>1, <2>2, <2>3, <2>4, <2>5, <3>1, Zenon
    <3>2. CASE x \notin S
      BY <2>1, <2>2, <2>3, <2>5, <3>2, Zenon
    <3> QED BY <3>1, <3>2
  <2> QED BY <2>6, <2>7
<1>3. Seq(X) \subseteq Q
  <2> HIDE DEF Q
  <2> QED BY <1>1, <1>2, SeqSets
<1> QED BY <1>3

LEMMA KeptTwice ==
    ASSUME NEW X, NEW s \in Seq(X), NEW S, NEW T
    PROVE  Kept(Kept(s, S), T) = Kept(s, S \cap T)
<1> DEFINE Q == {u \in Seq(X) : Kept(Kept(u, S), T) = Kept(u, S \cap T)}
<1>1. << >> \in Q
  BY KeptEmpty
<1>2. ASSUME NEW u \in Seq(X), NEW x \in X, u \in Q PROVE Append(u, x) \in Q
  <2>1. Kept(u, S) \in Seq(X)
    BY KeptIn
  <2>2. Kept(Append(u, x), S) = IF x \in S THEN Append(Kept(u, S), x) ELSE Kept(u, S)
    BY KeptAppend
  <2>3. Kept(Append(u, x), S \cap T)
          = IF x \in S \cap T THEN Append(Kept(u, S \cap T), x) ELSE Kept(u, S \cap T)
    BY KeptAppend
  <2>4. Kept(Append(Kept(u, S), x), T)
          = IF x \in T THEN Append(Kept(Kept(u, S), T), x) ELSE Kept(Kept(u, S), T)
    BY <2>1, KeptAppend
  <2>5. Kept(Kept(u, S), T) = Kept(u, S \cap T)
    BY <1>2
  <2>6. Append(u, x) \in Seq(X)
    OBVIOUS
  <2>7. Kept(Kept(Append(u, x), S), T) = Kept(Append(u, x), S \cap T)
    <3>1. CASE x \in S /\ x \in T
      BY <2>2, <2>3, <2>4, <2>5, <3>1, Zenon
    <3>2. CASE x \in S /\ x \notin T
      BY <2>2, <2>3, <2>4, <2>5, <3>2, Zenon
    <3>3. CASE x \notin S
      BY <2>2, <2>3, <2>5, <3>3, Zenon
    <3> QED BY <3>1, <3>2, <3>3
  <2> QED BY <2>6, <2>7
<1>3. Seq(X) \subseteq Q
  <2> HIDE DEF Q
  <2> QED BY <1>1, <1>2, SeqSets
<1> QED BY <1>3

LEMMA NoRows ==
    ASSUME NEW X, NEW s \in Seq(X), RowsOf(s) = {}
    PROVE  s = << >>
<1>1. \A i \in 1 .. Len(s) : FALSE
  <2>1. DOMAIN s = 1 .. Len(s)
    OBVIOUS
  <2>2. \A i \in DOMAIN s : s[i] \in RowsOf(s)
    BY Zenon DEF RowsOf
  <2> QED BY <2>1, <2>2
<1>2. Len(s) = 0
  BY <1>1
<1> QED BY <1>2

LEMMA KeptNone ==
    ASSUME NEW X, NEW s \in Seq(X), NEW S, RowsOf(s) \cap S = {}
    PROVE  Kept(s, S) = << >>
<1>1. Kept(s, S) \in Seq(X) /\ RowsOf(Kept(s, S)) = {}
  BY KeptIn
<1> QED BY <1>1, NoRows

-----------------------------------------------------------------------------
(* The foremost of finitely many: the heaviest, then the least.            *)

LEMMA Bounded ==
    ASSUME NEW S, IsFiniteSet(S), NEW W, \A u \in S : W[u] \in Nat
    PROVE  \E b \in Nat : \A u \in S : W[u] <= b
<1> DEFINE N == {n \in Nat : \A T \in SUBSET S : Cardinality(T) = n =>
                                \E b \in Nat : \A u \in T : W[u] <= b}
<1>1. 0 \in N
  <2>1. \A T \in SUBSET S : Cardinality(T) = 0 => T = {}
    BY FS_Subset, FS_EmptySet
  <2> QED BY <2>1
<1>2. ASSUME NEW n \in Nat, n \in N PROVE n + 1 \in N
  <2> SUFFICES ASSUME NEW T \in SUBSET S, Cardinality(T) = n + 1
               PROVE  \E b \in Nat : \A u \in T : W[u] <= b
    OBVIOUS
  <2>1. IsFiniteSet(T)
    BY FS_Subset
  <2>2. T # {}
    BY FS_EmptySet
  <2>3. PICK x \in T : TRUE
    BY <2>2
  <2>4. Cardinality(T \ {x}) = n /\ T \ {x} \in SUBSET S
    <3>1. Cardinality(T \ {x}) = Cardinality(T) - 1
      BY <2>1, FS_RemoveElement
    <3> QED BY <3>1
  <2>5. PICK b \in Nat : \A u \in T \ {x} : W[u] <= b
    BY <1>2, <2>4
  <2>6. b + W[x] \in Nat /\ W[x] \in Nat
    OBVIOUS
  <2>7. \A u \in T : W[u] <= b + W[x]
    <3> SUFFICES ASSUME NEW u \in T PROVE W[u] <= b + W[x]
      OBVIOUS
    <3>1. W[u] \in Nat /\ (u = x \/ W[u] <= b)
      BY <2>5
    <3> QED BY <2>6, <3>1
  <2> QED BY <2>6, <2>7
<1>3. Nat \subseteq N
  <2> HIDE DEF N
  <2> QED BY <1>1, <1>2, NatSets
<1>4. Cardinality(S) \in N
  BY <1>3, FS_CardinalityType
<1> QED BY <1>4

LEMMA Foremost ==
    ASSUME NEW S \in SUBSET Nat, IsFiniteSet(S), S # {}, NEW W, \A u \in S : W[u] \in Nat
    PROVE  \E v \in S : \A u \in S \ {v} : W[v] > W[u] \/ (W[v] = W[u] /\ v < u)
<1>1. PICK b \in Nat : \A u \in S : W[u] <= b
  BY Bounded
<1> DEFINE D == {b - W[u] : u \in S}
<1>2. D \in SUBSET Nat /\ D # {}
  <2>1. \A u \in S : b - W[u] \in Nat
    BY <1>1
  <2> QED BY <2>1
<1>3. PICK d \in D : \A e \in D : d <= e
  BY <1>2, Least
<1>4. PICK w \in S : d = b - W[w]
  BY <1>3
<1>5. \A u \in S : W[u] <= W[w]
  <2> SUFFICES ASSUME NEW u \in S PROVE W[u] <= W[w]
    OBVIOUS
  <2>1. b - W[w] <= b - W[u]
    BY <1>3, <1>4
  <2> QED BY <2>1
<1> DEFINE M == {u \in S : W[u] = W[w]}
<1>6. M \in SUBSET Nat /\ M # {}
  OBVIOUS
<1>7. PICK v \in M : \A u \in M : v <= u
  BY <1>6, Least
<1>8. ASSUME NEW u \in S \ {v} PROVE W[v] > W[u] \/ (W[v] = W[u] /\ v < u)
  <2>1. W[u] \in Nat /\ W[v] \in Nat /\ u \in Nat /\ v \in Nat /\ u # v
        /\ W[v] = W[w] /\ W[u] <= W[w]
    BY <1>5
  <2>2. W[u] = W[w] => v <= u
    BY <1>7
  <2> QED BY <2>1, <2>2
<1> QED BY <1>8

\* DirectOps, versions: the least of some numbers is one of them.
LEMMA MinIsIn ==
    ASSUME NEW S \in SUBSET Nat, S # {}
    PROVE  Min(S) \in S
  BY Least DEF Min

LEMMA HeaviestIsIn ==
    ASSUME NEW S \in SUBSET Nat, IsFiniteSet(S), S # {}, NEW W \in [S -> Nat]
    PROVE  Heaviest(W) \in S
<1>1. \E v \in S : \A u \in S \ {v} : W[v] > W[u] \/ (W[v] = W[u] /\ v < u)
  BY Foremost
<1>2. DOMAIN W = S
  OBVIOUS
<1> QED BY <1>1, <1>2 DEF Heaviest

-----------------------------------------------------------------------------
(* Types.                                                                  *)

Observations ==
    {o \in [id : Queries \X Nat, query : Queries, event : Events] : o.id \in {o.query} \X Nat}
Cards == [Keys -> Seq(Observations)]

LEMMA RowTypes ==
    ASSUME NEW o \in Observations
    PROVE  /\ Row(o).key \in Keys /\ Row(o).version \in Values \cup {NoValue}
           /\ Row(o).printed \in Values \cup {NoValue} /\ Row(o).site \in Values \cup {NoValue}
  BY FieldsAssumption DEF Observations, Row

LEMMA RowsIn ==
    ASSUME NEW s \in Seq(Observations)
    PROVE  RowsOf(s) \subseteq Observations
  BY DEF RowsOf

LEMMA Shown ==
    ASSUME NEW card \in Seq(Observations), NEW type
    PROVE  /\ FieldSummary(type, card) \subseteq Values
           /\ Versions(card) \subseteq Values /\ Sites(card) \subseteq Values
<1>1. RowsOf(card) \subseteq Observations
  BY RowsIn
<1>2. {Row(o).version : o \in RowsOf(card)} \ {NoValue} \subseteq Values
  BY <1>1, RowTypes
<1>3. {Row(o).printed : o \in RowsOf(card)} \ {NoValue} \subseteq Values
  BY <1>1, RowTypes
<1>4. {Row(o).site : o \in RowsOf(card)} \ {NoValue} \subseteq Values
  BY <1>1, RowTypes
<1>5. Versions(card) \subseteq Values
  BY <1>2, <1>3 DEF Versions
<1>6. Sites(card) \subseteq Values
  BY <1>4 DEF Sites
<1> QED BY <1>5, <1>6 DEF FieldSummary

LEMMA CardSetIsFinite ==
    ASSUME NEW cs, NEW K \in SUBSET CardSet(cs)
    PROVE  K \subseteq Keys /\ K \in SUBSET Nat /\ IsFiniteSet(K)
<1>1. K \in SUBSET Keys
  BY DEF CardSet
<1> QED BY <1>1, FS_Subset, FieldsAssumption

\* build_cards: the list of cards has a first one.
LEMMA FirstOfIsIn ==
    ASSUME NEW cs \in Cards, NEW K \in SUBSET CardSet(cs), K # {}
    PROVE  FirstOf(cs, K) \in K
<1> DEFINE W == [k \in K |-> Len(cs[k])]
<1>1. K \subseteq Keys /\ K \in SUBSET Nat /\ IsFiniteSet(K)
  BY CardSetIsFinite
<1>2. \A k \in K : W[k] \in Nat /\ W[k] = Len(cs[k])
  BY <1>1 DEF Cards
<1>3. \E k \in K : \A j \in K \ {k} : W[k] > W[j] \/ (W[k] = W[j] /\ k < j)
  <2> HIDE DEF W
  <2> QED BY <1>1, <1>2, Foremost
<1>4. \E k \in K : \A j \in K \ {k} : Sooner(cs, k, j)
  <2>1. PICK k \in K : \A j \in K \ {k} : W[k] > W[j] \/ (W[k] = W[j] /\ k < j)
    BY <1>3
  <2>2. ASSUME NEW j \in K \ {k} PROVE Sooner(cs, k, j)
    BY <1>2, <2>1 DEF Sooner
  <2> QED BY <2>2
<1> QED BY <1>4 DEF FirstOf

LEMMA OccurrencesAreNat ==
    ASSUME NEW s \in Seq(Observations), NEW S
    PROVE  /\ Occurrences(s, S) \in Nat
           /\ Occurrences(s, S) = 0 <=> RowsOf(s) \cap S = {}
<1> DEFINE I == {i \in DOMAIN s : s[i] \in S}
<1>1. IsFiniteSet(DOMAIN s)
  BY FS_Interval
<1>2. IsFiniteSet(I)
  BY <1>1, FS_Subset
<1>3. I = {} <=> RowsOf(s) \cap S = {}
  BY DEF RowsOf
<1> QED BY <1>2, <1>3, FS_CardinalityType, FS_EmptySet DEF Occurrences

\* A value has weight when a card shows it or a row carries it.
LEMMA WeightIsEvidence ==
    ASSUME NEW type, NEW cs \in Cards, NEW led \in Seq(Observations), NEW v
    PROVE  /\ Weight(type, cs, led, v) \in Nat
           /\ Weight(type, cs, led, v) > 0 <=>
                 \/ Showing(type, cs, v) # {}
                 \/ \E o \in RowsOf(led) : v \in Direct(type, o)
<1> DEFINE W == [k \in Keys |-> Len(cs[k])]
           A == UNION {{k} \X DOMAIN cs[k] : k \in Showing(type, cs, v)}
           R == {o \in RowsOf(led) : v \in Direct(type, o)}
<1>1. \A k \in Keys : W[k] \in Nat
  BY DEF Cards
<1>2. PICK b \in Nat : \A k \in Keys : W[k] <= b
  <2> HIDE DEF W
  <2> QED BY <1>1, Bounded, FieldsAssumption
<1>3. Showing(type, cs, v) \subseteq Keys
      /\ \A k \in Showing(type, cs, v) : cs[k] # << >>
  BY DEF Showing, Eligible, CardSet
<1>4. \A k \in Keys : DOMAIN cs[k] \subseteq 1 .. b /\ (cs[k] # << >> => 1 \in DOMAIN cs[k])
  <2> SUFFICES ASSUME NEW k \in Keys
               PROVE  DOMAIN cs[k] \subseteq 1 .. b /\ (cs[k] # << >> => 1 \in DOMAIN cs[k])
    OBVIOUS
  <2>1. cs[k] \in Seq(Observations) /\ Len(cs[k]) <= b
    BY <1>2 DEF Cards
  <2>2. DOMAIN cs[k] = 1 .. Len(cs[k])
    BY <2>1
  <2> QED BY <2>1, <2>2
<1>5. A \subseteq Keys \X (1 .. b)
  BY <1>3, <1>4
<1>6. IsFiniteSet(A)
  <2>1. IsFiniteSet(1 .. b)
    BY FS_Interval
  <2>2. IsFiniteSet(Keys \X (1 .. b))
    BY <2>1, FS_Product, FieldsAssumption
  <2> HIDE DEF A
  <2> QED BY <1>5, <2>2, FS_Subset
<1>7. A = {} <=> Showing(type, cs, v) = {}
  <2>1. ASSUME NEW k \in Showing(type, cs, v) PROVE <<k, 1>> \in A
    BY <1>3, <1>4
  <2> QED BY <2>1
<1>8. Cardinality(A) \in Nat /\ (Cardinality(A) = 0 <=> A = {})
  BY <1>6, FS_CardinalityType, FS_EmptySet
<1>9. Occurrences(led, R) \in Nat /\ (Occurrences(led, R) = 0 <=> RowsOf(led) \cap R = {})
  BY OccurrencesAreNat
<1>10. Weight(type, cs, led, v) = Cardinality(A) + Occurrences(led, R)
  BY DEF Weight
<1>11. RowsOf(led) \cap R = {} <=> ~ \E o \in RowsOf(led) : v \in Direct(type, o)
  OBVIOUS
<1> HIDE DEF A, R
<1> QED BY <1>7, <1>8, <1>9, <1>10, <1>11

-----------------------------------------------------------------------------
(* The candidate, the model's reading and the verifier.                    *)

LEMMA CandidateIsAnswer ==
    ASSUME NEW type, NEW cs \in Cards, NEW sources, NEW v \in Values
    PROVE  LET a == Candidate(type, cs, sources, v)
           IN  /\ a \in Answers /\ a.status = "ANSWERED" /\ a.value = v
               /\ a.cites \subseteq CardSet(cs) /\ (CardSet(cs) # {} => a.cites # {})
               /\ Showing(type, cs, v) \subseteq a.cites
<1> DEFINE C == Citing(type, cs, sources, v)
           D == IF C = {} /\ CardSet(cs) # {} THEN {FirstOf(cs, CardSet(cs))} ELSE C
<1>1. C \subseteq CardSet(cs)
  BY DEF Citing
<1>2. Showing(type, cs, v) \subseteq C
  BY DEF Citing, Showing, Eligible
<1>3. CardSet(cs) # {} => FirstOf(cs, CardSet(cs)) \in CardSet(cs)
  BY FirstOfIsIn
<1>4. CardSet(cs) \subseteq Keys
  BY DEF CardSet
<1>5. Candidate(type, cs, sources, v) = [status |-> "ANSWERED", value |-> v, cites |-> D]
  BY DEF Candidate
<1> HIDE DEF C
<1>6. D \subseteq CardSet(cs) /\ (CardSet(cs) # {} => D # {}) /\ Showing(type, cs, v) \subseteq D
  BY <1>1, <1>2, <1>3
<1> HIDE DEF D
<1> QED BY <1>4, <1>5, <1>6 DEF Answers, Statuses

LEMMA DeriveIsAnswer ==
    ASSUME NEW type, NEW cs \in Cards, NEW led \in Seq(Observations)
    PROVE  LET a == DeriveAnswer(type, cs, led)
           IN  /\ a \in Answers /\ a.status \in {"ANSWERED", "INCONCLUSIVE"}
               /\ (\E v \in Values : Weight(type, cs, led, v) > 0) =>
                     /\ a.status = "ANSWERED" /\ a.value \in Values
                     /\ a.cites \subseteq CardSet(cs) /\ (CardSet(cs) # {} => a.cites # {})
                     /\ Bound(a.value, a.cites, cs, led)
<1> DEFINE weighty == {v \in Values : Weight(type, cs, led, v) > 0}
           printed == {v \in Values : Printing(type, led, v) # {}}
           field   == Heaviest([v \in weighty |-> Weight(type, cs, led, v)])
           text    == Heaviest([v \in printed |-> Occurrences(led, Printing(type, led, v))])
           a       == DeriveAnswer(type, cs, led)
<1>1. weighty # {} => field \in weighty
  <2>1. weighty \in SUBSET Nat /\ IsFiniteSet(weighty)
    BY FieldsAssumption, FS_Subset
  <2>2. [v \in weighty |-> Weight(type, cs, led, v)] \in [weighty -> Nat]
    BY WeightIsEvidence
  <2> HIDE DEF weighty
  <2> QED BY <2>1, <2>2, HeaviestIsIn
<1>2. printed # {} => text \in printed
  <2>1. printed \in SUBSET Nat /\ IsFiniteSet(printed)
    BY FieldsAssumption, FS_Subset
  <2>2. [v \in printed |-> Occurrences(led, Printing(type, led, v))] \in [printed -> Nat]
    BY OccurrencesAreNat
  <2> HIDE DEF printed
  <2> QED BY <2>1, <2>2, HeaviestIsIn
<1>3. a = IF weighty # {}
          THEN Candidate(type, cs, {o \in RowsOf(led) : field \in Direct(type, o)}, field)
          ELSE IF printed # {} THEN Candidate(type, cs, Printing(type, led, text), text)
          ELSE [NoAnswer EXCEPT !.status = "INCONCLUSIVE"]
  BY DEF DeriveAnswer
<1>4. weighty \subseteq Values /\ printed \subseteq Values
  OBVIOUS
<1>5. field \in weighty => Weight(type, cs, led, field) > 0
  OBVIOUS
<1> HIDE DEF weighty, printed, field, text, a
<1>6. CASE weighty # {}
  <2>1. field \in Values /\ Weight(type, cs, led, field) > 0
    BY <1>1, <1>4, <1>5, <1>6
  <2>2. a = Candidate(type, cs, {o \in RowsOf(led) : field \in Direct(type, o)}, field)
    BY <1>3, <1>6
  <2>3. /\ a \in Answers /\ a.status = "ANSWERED" /\ a.value = field
        /\ a.cites \subseteq CardSet(cs) /\ (CardSet(cs) # {} => a.cites # {})
        /\ Showing(type, cs, field) \subseteq a.cites
    <3> DEFINE src == {o \in RowsOf(led) : field \in Direct(type, o)}
               b == Candidate(type, cs, src, field)
    <3> HIDE DEF src
    <3>1. /\ b \in Answers /\ b.status = "ANSWERED" /\ b.value = field
          /\ b.cites \subseteq CardSet(cs) /\ (CardSet(cs) # {} => b.cites # {})
          /\ Showing(type, cs, field) \subseteq b.cites
      BY <2>1, CandidateIsAnswer
    <3>2. a = b
      BY <2>2 DEF src
    <3> HIDE DEF b
    <3> QED BY <3>1, <3>2
  <2>4. Bound(field, a.cites, cs, led)
    <3>1. CASE Showing(type, cs, field) # {}
      <4>1. PICK k \in Showing(type, cs, field) : TRUE
        BY <3>1
      <4>2. k \in a.cites /\ field \in Versions(cs[k]) \cup Sites(cs[k])
        BY <2>3, <4>1 DEF Showing, FieldSummary
      <4> QED BY <4>2 DEF Bound
    <3>2. CASE \E o \in RowsOf(led) : field \in Direct(type, o)
      BY <3>2 DEF Bound, Direct, Carried
    <3> QED BY <2>1, <3>1, <3>2, WeightIsEvidence
  <2> QED BY <2>1, <2>3, <2>4 DEF a
<1>7. CASE weighty = {}
  <2>1. ~ \E v \in Values : Weight(type, cs, led, v) > 0
    BY <1>7 DEF weighty
  <2>2. CASE printed # {}
    <3> DEFINE src == Printing(type, led, text)
               b   == Candidate(type, cs, src, text)
    <3>1. text \in Values /\ a = b
      BY <1>2, <1>3, <1>4, <1>7, <2>2
    <3> HIDE DEF src, text
    <3>2. b \in Answers /\ b.status = "ANSWERED"
      BY <3>1, CandidateIsAnswer
    <3> HIDE DEF b
    <3>3. a \in Answers /\ a.status = "ANSWERED"
      BY <3>1, <3>2
    <3> QED BY <2>1, <3>3 DEF a
  <2>3. CASE printed = {}
    <3>1. a = [status |-> "INCONCLUSIVE", value |-> NoValue, cites |-> {}]
      BY <1>3, <1>7, <2>3 DEF NoAnswer
    <3>2. a \in Answers /\ a.status = "INCONCLUSIVE"
      BY <3>1 DEF Answers, Statuses
    <3> QED BY <2>1, <3>2 DEF a
  <2> QED BY <2>2, <2>3
<1> QED BY <1>6, <1>7

LEMMA BatchIsAnswer ==
    ASSUME NEW cs \in Cards, NEW complete \in BOOLEAN, NEW a \in AnalyzeBatch(cs, complete)
    PROVE  a \in Answers
<1>1. CASE a = DeterministicExplanation(cs)
  <2> DEFINE showing == {k \in CardSet(cs) : Versions(cs[k]) # {}}
             artifacts == {k \in CardSet(cs) : FactType(cs[k]) \in Artifacts}
             first == FirstOf(cs, showing)
  <2>1. showing # {} => first \in showing
    BY FirstOfIsIn
  <2>2. showing # {} => Min(Versions(cs[first])) \in Values
    <3> SUFFICES ASSUME showing # {} PROVE Min(Versions(cs[first])) \in Values
      OBVIOUS
    <3>1. first \in Keys /\ Versions(cs[first]) # {}
      BY <2>1 DEF CardSet
    <3>2. cs[first] \in Seq(Observations)
      BY <3>1 DEF Cards
    <3>3. Versions(cs[first]) \subseteq Values /\ Versions(cs[first]) \in SUBSET Nat
      BY <3>2, Shown, FieldsAssumption
    <3> HIDE DEF first
    <3> QED BY <3>1, <3>3, MinIsIn
  <2>3. artifacts \subseteq Keys
    BY DEF CardSet
  <2>4. a = [status |-> IF artifacts = {} THEN "INCONCLUSIVE"
                        ELSE IF showing = {} THEN "PARTIALLY_SUPPORTED" ELSE "ANSWERED",
             value  |-> IF artifacts = {} \/ showing = {} THEN NoValue
                        ELSE Min(Versions(cs[first])),
             cites  |-> artifacts]
    BY <1>1 DEF DeterministicExplanation
  <2> HIDE DEF showing, artifacts, first
  <2> QED BY <2>2, <2>3, <2>4 DEF Answers, Statuses
<1>2. CASE \E r \in Replies : a = Validated(r, cs, complete)
  <2>1. PICK r \in Replies : a = Validated(r, cs, complete)
    BY <1>2
  <2>2. r \in Answers
    BY DEF Replies, NoAnswer, Answers, Statuses
  <2> QED BY <2>1, <2>2 DEF Validated, Answers, Statuses
<1> QED BY <1>1, <1>2 DEF AnalyzeBatch

\* verify_answer keeps the value, cites cards there are, answers only what is
\* bound, and tells no negative that was not proposed.
LEMMA VerifierIsSound ==
    ASSUME NEW a \in Answers, NEW type, NEW cs, NEW led,
           NEW complete \in BOOLEAN, NEW detected \in BOOLEAN,
           NEW v, v = VerifyAnswer(a, type, cs, led, complete, detected)
    PROVE  /\ v \in Answers /\ v.value = a.value /\ v.cites \subseteq CardSet(cs)
           /\ a.cites \subseteq CardSet(cs) => v.cites = a.cites
           /\ v.status = "ANSWERED" =>
                 /\ v.cites # {} /\ FieldSeen(type, v.cites, cs, led)
                 /\ v.value # NoValue => Bound(v.value, v.cites, cs, led)
           /\ v.status = "NOT_FOUND" => a.status = "NOT_FOUND"
           /\ /\ a.status = "ANSWERED" /\ v.cites # {} /\ FieldSeen(type, v.cites, cs, led)
              /\ v.value # NoValue /\ Bound(v.value, v.cites, cs, led)
              => v.status = "ANSWERED"
<1> DEFINE cites   == a.cites \cap CardSet(cs)
           missing == ~ FieldSeen(type, cites, cs, led)
           answered == AnsweredStatus(a, cites, type, cs, led, complete, detected)
           status  ==
            CASE a.status = "ANSWERED" -> answered
              [] a.status \in {"NONE", "INCONCLUSIVE", "PARTIAL"} ->
                    IF detected /\ (missing \/ type = "software_version")
                    THEN "PARTIALLY_SUPPORTED"
                    ELSE IF a.status = "PARTIAL" THEN "PARTIAL" ELSE "INCONCLUSIVE"
              [] a.status = "NOT_FOUND" ->
                    IF detected THEN "PARTIALLY_SUPPORTED"
                    ELSE IF complete THEN "NOT_FOUND" ELSE "INCONCLUSIVE"
              [] OTHER -> a.status
<1>1. v = [a EXCEPT !.status = status, !.cites = cites]
  BY DEF VerifyAnswer
<1>2. answered \in {"ANSWERED", "INCONCLUSIVE", "PARTIALLY_SUPPORTED", "PARTIAL"}
  BY DEF AnsweredStatus, Present
<1>3. answered = "ANSWERED" =>
         /\ cites # {} /\ FieldSeen(type, cites, cs, led)
         /\ a.value # NoValue => Bound(a.value, cites, cs, led)
  BY DEF AnsweredStatus, Present
<1>4. /\ cites # {} /\ FieldSeen(type, cites, cs, led)
      /\ a.value # NoValue /\ Bound(a.value, cites, cs, led)
      => answered = "ANSWERED"
  BY DEF AnsweredStatus, Present
<1> HIDE DEF answered
<1>5. /\ a.status = "ANSWERED" => status = answered
      /\ status = "ANSWERED" => a.status = "ANSWERED"
      /\ status = "NOT_FOUND" => a.status = "NOT_FOUND"
      /\ status \in Statuses
  BY <1>2 DEF Answers, Statuses
<1> HIDE DEF status
<1>6. v \in Answers /\ v.value = a.value /\ v.cites = cites /\ v.status = status
  BY <1>1, <1>5 DEF Answers
<1> HIDE DEF cites
<1>7. /\ v.cites \subseteq CardSet(cs)
      /\ a.cites \subseteq CardSet(cs) => v.cites = a.cites
  BY <1>6 DEF cites
<1>8. v.status = "ANSWERED" =>
         /\ v.cites # {} /\ FieldSeen(type, v.cites, cs, led)
         /\ v.value # NoValue => Bound(v.value, v.cites, cs, led)
  BY <1>3, <1>5, <1>6
<1>9. v.status = "NOT_FOUND" => a.status = "NOT_FOUND"
  BY <1>5, <1>6
<1>10. /\ a.status = "ANSWERED" /\ v.cites # {} /\ FieldSeen(type, v.cites, cs, led)
       /\ v.value # NoValue /\ Bound(v.value, v.cites, cs, led)
       => v.status = "ANSWERED"
  BY <1>4, <1>5, <1>6
<1> QED BY <1>6, <1>7, <1>8, <1>9, <1>10

-----------------------------------------------------------------------------
(* The inductive invariant.                                                *)

Phases == {"discover", "followup", "schema", "adaptive", "goals", "analyze", "account",
           "reported"}
GoalRecords ==
    [status : {"waiting", "run", "selected"}, outcome : Outcomes, rows : Nat,
     grounded : BOOLEAN, proof : BOOLEAN, licence : BOOLEAN]
Keyed(cs) == \A k \in Keys : \A o \in RowsOf(cs[k]) : Row(o).key = k

StateInv ==
    /\ request \in Requests /\ pass \in 1..2 /\ phase \in Phases /\ asked \in BOOLEAN
    /\ ledger \in Seq(Observations)
    /\ groups \in Cards /\ Keyed(groups)
    /\ cards \in Cards /\ \A k \in Keys : cards[k] \in {<< >>, groups[k]}
    /\ answer \in Answers /\ analysis \in Answers
    /\ hypothesis \in {"LIVE", "SUPPORTED", "PARTIALLY_SUPPORTED"}
    /\ level \in 1..3 /\ tried \in Seq(Ops) /\ Len(tried) <= MaxAdaptive
    /\ decision \in {"none", "STOP_BOUNDED", "STOP_RESOLVED", "STOP_NEEDS_USER_DECISION",
                     "STOP_INCONCLUSIVE"}
    /\ goals \in [Goals -> GoalRecords]

\* Which way a session takes, and when it has an answer.
PathInv ==
    /\ request.path = "text" =>
          /\ pass = 1 /\ phase # "goals" /\ decision \in {"none", "STOP_BOUNDED"}
    /\ request.path = "graph" => phase \in {"goals", "analyze", "account", "reported"}
    /\ phase # "reported" => answer = NoAnswer
    /\ ~ request.llm => analysis = NoAnswer

\* Where the rows of the ledger come from.
RowInv ==
    /\ \A o \in RowsOf(ledger) :
          IF request.path = "text" THEN o.query \in {"discovery", "adaptive"}
          ELSE /\ o.query \in Goals /\ goals[o.query].status = "run"
               /\ goals[o.query].rows # 0
    /\ phase \in {"discover", "followup", "schema"} =>
          \A o \in RowsOf(ledger) : o.query = "discovery"
    /\ pass = 2 => goals["bind"].status # "run"

\* The cards of a first execution, before and after they are made.
Expected(k) == Kept(ledger, {o \in RowsOf(ledger) : Admitted(o) /\ Row(o).key = k})
CardInv ==
    pass = 1 =>
        IF phase = "goals" THEN groups = NoCards /\ cards = NoCards
        ELSE \A k \in Keys : groups[k] = Expected(k) /\ cards[k] = Expected(k)

SessionInv == StateInv /\ PathInv /\ RowInv /\ CardInv

-----------------------------------------------------------------------------
(* Rows and cards of a step.                                               *)

LEMMA PathIsOne ==
    ASSUME request \in Requests
    PROVE  /\ request.path \in {"text", "graph"} /\ request.type \in Types
           /\ request.llm \in BOOLEAN
  BY DEF Requests

LEMMA ResultRows ==
    ASSUME NEW E \in SUBSET Events, NEW r \in Results(E)
    PROVE  r.rows \in Seq(Events) /\ r.outcome \in Outcomes
<1>1. r.rows \in BoundedSeq(E, MaxRows) /\ r.outcome \in Outcomes
  BY DEF Results
<1>2. PICK m \in 0 .. MaxRows : r.rows \in [1 .. m -> E]
  BY <1>1 DEF BoundedSeq, SeqOf
<1>3. m \in Nat
  BY <1>2, SessionAssumption
<1>4. r.rows \in Seq(E)
  BY <1>2, <1>3
<1> QED BY <1>1, <1>4

LEMMA ObservedRows ==
    ASSUME ledger \in Seq(Observations), NEW kind \in Queries, NEW rows \in Seq(Events)
    PROVE  /\ Observed(kind, rows) \in Seq(Observations)
           /\ \A o \in RowsOf(Observed(kind, rows)) : o.query = kind
<1> DEFINE new == Observed(kind, rows)
           n == Len(ledger)
<1>1. n \in Nat /\ DOMAIN rows = 1 .. Len(rows) /\ Len(rows) \in Nat
      /\ \A i \in 1 .. Len(rows) : rows[i] \in Events
  OBVIOUS
<1>2. new = [i \in 1 .. Len(rows) |-> [id |-> <<kind, n + i>>, query |-> kind, event |-> rows[i]]]
  BY <1>1 DEF Observed
<1> HIDE DEF new, n
<1>3. \A i \in 1 .. Len(rows) : n + i \in Nat
  BY <1>1
<1>4. \A i \in 1 .. Len(rows) :
         [id |-> <<kind, n + i>>, query |-> kind, event |-> rows[i]] \in Observations
  BY <1>1, <1>3 DEF Observations
<1>5. new \in Seq(Observations)
  BY <1>1, <1>2, <1>4
<1>6. \A o \in RowsOf(new) : o.query = kind
  BY <1>2 DEF RowsOf
<1> QED BY <1>5, <1>6 DEF new

LEMMA GoalRows ==
    ASSUME NEW g \in Goals, NEW rows \in Seq(Events),
           NEW new, new = [i \in DOMAIN rows |-> [id |-> <<g, i>>, query |-> g, event |-> rows[i]]]
    PROVE  /\ new \in Seq(Observations)
           /\ \A o \in RowsOf(new) : o.query = g
           /\ RowsOf(new) # {} => Len(rows) # 0
<1>1. DOMAIN rows = 1 .. Len(rows) /\ Len(rows) \in Nat
      /\ \A i \in 1 .. Len(rows) : rows[i] \in Events /\ i \in Nat
  OBVIOUS
<1>2. \A i \in 1 .. Len(rows) :
         [id |-> <<g, i>>, query |-> g, event |-> rows[i]] \in Observations
  BY <1>1 DEF Observations, Queries
<1>3. new = [i \in 1 .. Len(rows) |-> [id |-> <<g, i>>, query |-> g, event |-> rows[i]]]
  BY <1>1
<1>4. new \in Seq(Observations)
  BY <1>1, <1>2, <1>3
<1>5. \A o \in RowsOf(new) : o.query = g
  BY <1>3 DEF RowsOf
<1>6. RowsOf(new) # {} => Len(rows) # 0
  BY <1>1, <1>3 DEF RowsOf
<1> QED BY <1>4, <1>5, <1>6

\* ingest_delta: what a group gains, and that it stays of one fingerprint.
LEMMA IngestedGroups ==
    ASSUME NEW gs \in Cards, Keyed(gs), NEW new \in Seq(Observations)
    PROVE  /\ IngestDelta(gs, new) \in Cards /\ Keyed(IngestDelta(gs, new))
           /\ \A k \in Keys : IngestDelta(gs, new)[k]
                 = gs[k] \o Kept(new, {o \in RowsOf(new) : Row(o).key = k})
<1> DEFINE Of(k) == {o \in RowsOf(new) : Row(o).key = k}
           res == IngestDelta(gs, new)
<1>1. \A k \in Keys : res[k] = gs[k] \o Kept(new, Of(k))
  BY DEF IngestDelta
<1>2. ASSUME NEW k \in Keys
      PROVE  /\ gs[k] \o Kept(new, Of(k)) \in Seq(Observations)
             /\ \A o \in RowsOf(gs[k] \o Kept(new, Of(k))) : Row(o).key = k
  <2> DEFINE more == Kept(new, Of(k))
             all  == gs[k] \o more
  <2>1. more \in Seq(Observations) /\ RowsOf(more) = RowsOf(new) \cap Of(k)
    BY KeptIn
  <2>2. gs[k] \in Seq(Observations) /\ \A o \in RowsOf(gs[k]) : Row(o).key = k
    BY DEF Cards, Keyed
  <2>3. \A o \in RowsOf(more) : Row(o).key = k
    BY <2>1
  <2> HIDE DEF more
  <2>4. all \in Seq(Observations) /\ RowsOf(all) = RowsOf(gs[k]) \cup RowsOf(more)
    BY <2>1, <2>2, RowsConcat
  <2> HIDE DEF all
  <2>5. \A o \in RowsOf(all) : Row(o).key = k
    BY <2>2, <2>3, <2>4
  <2> QED BY <2>4, <2>5 DEF all, more
<1>3. res = [k \in Keys |-> gs[k] \o Kept(new, Of(k))]
  BY DEF IngestDelta
<1> HIDE DEF res, Of
<1>4. res \in Cards
  BY <1>2, <1>3 DEF Cards
<1>5. Keyed(res)
  BY <1>1, <1>2 DEF Keyed
<1> QED BY <1>1, <1>4, <1>5 DEF res, Of

-----------------------------------------------------------------------------
(* The invariant holds.                                                    *)

LEMMA InitInv == Init => SessionInv
<1> SUFFICES ASSUME Init PROVE SessionInv
  OBVIOUS
<1>1. /\ request \in Requests /\ ledger = << >> /\ pass = 1 /\ phase = First(request)
      /\ groups = NoCards /\ cards = NoCards /\ tried = << >> /\ answer = NoAnswer
      /\ analysis = NoAnswer /\ goals = [g \in Goals |-> NotRun]
  BY DEF Init
<1>2. NoAnswer \in Answers
  BY DEF NoAnswer, Answers, Statuses
<1>3. NoCards \in Cards /\ Keyed(NoCards) /\ RowsOf(<< >>) = {}
  BY DEF NoCards, Cards, Keyed, RowsOf
<1>4. phase \in {"discover", "goals"} /\ (request.path = "text" <=> phase = "discover")
      /\ request.path \in {"text", "graph"}
  BY <1>1, PathIsOne DEF First
<1>5. StateInv
  <2>1. [g \in Goals |-> NotRun] \in [Goals -> GoalRecords]
    BY DEF NotRun, GoalRecords, Outcomes
  <2>2. \A k \in Keys : cards[k] \in {<< >>, groups[k]}
    BY <1>1
  <2>3. tried \in Seq(Ops) /\ Len(tried) <= MaxAdaptive
    BY <1>1, SessionAssumption
  <2>4. pass \in 1..2 /\ phase \in Phases /\ ledger \in Seq(Observations)
    BY <1>1, <1>4 DEF Phases
  <2>5. /\ asked \in BOOLEAN /\ hypothesis = "LIVE" /\ level \in 1..3 /\ decision = "none"
    <3>1. asked = FALSE /\ hypothesis = "LIVE" /\ level = 1 /\ decision = "none"
      BY Zenon DEF Init
    <3>2. asked \in BOOLEAN
      BY <3>1, Zenon
    <3>3. level \in 1..3
      BY <3>1
    <3> QED BY <3>1, <3>2, <3>3, Zenon
  <2>6. groups \in Cards /\ Keyed(groups) /\ cards \in Cards
    BY <1>1, <1>3
  <2>7. goals \in [Goals -> GoalRecords] /\ answer \in Answers /\ analysis \in Answers
    BY <1>1, <1>2, <2>1
  <2> QED BY <1>1, <2>2, <2>3, <2>4, <2>5, <2>6, <2>7 DEF StateInv
<1>6. PathInv
  BY <1>1, <1>4 DEF PathInv, Init
<1>7. RowInv
  BY <1>1, <1>3 DEF RowInv
<1>8. CardInv
  <2>1. \A k \in Keys : Expected(k) = << >> /\ NoCards[k] = << >>
    BY <1>1, KeptEmpty DEF Expected, NoCards
  <2> QED BY <1>1, <2>1 DEF CardInv
<1> QED BY <1>5, <1>6, <1>7, <1>8 DEF SessionInv

\* Rows that are all admitted go to the end of what is expected.
LEMMA ExpectedGrows ==
    ASSUME ledger \in Seq(Observations), NEW new \in Seq(Observations),
           ledger' = ledger \o new, goals' = goals, \A o \in RowsOf(new) : Admitted(o)
    PROVE  \A k \in Keys : Expected(k)' = Expected(k) \o Kept(new, {o \in RowsOf(new) : Row(o).key = k})
<1> SUFFICES ASSUME NEW k \in Keys
             PROVE  Expected(k)' = Expected(k) \o Kept(new, {o \in RowsOf(new) : Row(o).key = k})
  OBVIOUS
<1> DEFINE led == ledger \o new
           S == {o \in RowsOf(led) : Admitted(o) /\ Row(o).key = k}
           A == {o \in RowsOf(ledger) : Admitted(o) /\ Row(o).key = k}
           B == {o \in RowsOf(new) : Row(o).key = k}
<1>1. RowsOf(led) = RowsOf(ledger) \cup RowsOf(new)
  BY RowsConcat
<1>2. Expected(k)' = Kept(led, S)
  BY DEF Expected, Admitted
<1>3. Kept(led, S) = Kept(ledger, S) \o Kept(new, S)
  BY KeptConcat
<1>4. \A o \in RowsOf(ledger) : o \in S <=> o \in A
  BY <1>1
<1>5. \A o \in RowsOf(new) : o \in S <=> o \in B
  BY <1>1
<1>6. Expected(k) = Kept(ledger, A)
  BY DEF Expected
<1> HIDE DEF S, A, B, led
<1>7. Kept(ledger, S) = Kept(ledger, A) /\ Kept(new, S) = Kept(new, B)
  BY <1>4, <1>5, KeptAgree
<1> QED BY <1>2, <1>3, <1>6, <1>7 DEF B

LEMMA NothingExpected ==
    ASSUME ledger \in Seq(Observations), \A o \in RowsOf(ledger) : o.query = "discovery"
    PROVE  \A k \in Keys : Expected(k) = << >>
<1> SUFFICES ASSUME NEW k \in Keys PROVE Expected(k) = << >>
  OBVIOUS
<1> DEFINE S == {o \in RowsOf(ledger) : Admitted(o) /\ Row(o).key = k}
<1>1. RowsOf(ledger) \cap S = {}
  BY DEF Admitted, Goals
<1> HIDE DEF S
<1>2. Kept(ledger, S) = << >>
  BY <1>1, KeptNone
<1> QED BY <1>2 DEF S, Expected

\* Discovery adds rows of its own, and none of them is expected in a card.
LEMMA DiscoveryStep ==
    ASSUME SessionInv, phase \in {"discover", "followup"}, NEW rows \in Seq(Events),
           ledger' = ledger \o Observed("discovery", rows),
           phase' \in {"discover", "followup", "schema"}, level' \in 1..3,
           UNCHANGED <<request, pass, cards, decision, analysis, answer, groups, asked,
                       hypothesis, tried, goals>>
    PROVE  SessionInv'
<1> USE DEF SessionInv
<1> DEFINE new == Observed("discovery", rows)
<1>1. new \in Seq(Observations) /\ \A o \in RowsOf(new) : o.query = "discovery"
  BY ObservedRows DEF StateInv, Queries
<1> HIDE DEF new
<1>2. ledger' \in Seq(Observations) /\ RowsOf(ledger') = RowsOf(ledger) \cup RowsOf(new)
  BY <1>1, RowsConcat DEF StateInv, new
<1>3. \A o \in RowsOf(ledger') : o.query = "discovery"
  BY <1>1, <1>2 DEF RowInv
<1>4. request.path = "text" /\ pass = 1 /\ answer = NoAnswer
  BY PathIsOne DEF PathInv, StateInv
<1>5. StateInv'
  BY <1>2 DEF StateInv, Phases, Keyed
<1>6. PathInv'
  BY <1>4 DEF PathInv
<1>7. RowInv'
  BY <1>3, <1>4 DEF RowInv
<1>8. CardInv'
  <2>1. \A k \in Keys : Expected(k) = << >>
    BY NothingExpected DEF RowInv, StateInv
  <2>2. \A k \in Keys : Expected(k)' = << >>
    <3> SUFFICES ASSUME NEW k \in Keys PROVE Expected(k)' = << >>
      OBVIOUS
    <3> DEFINE S == {o \in RowsOf(ledger') : Admitted(o) /\ Row(o).key = k}
    <3>1. RowsOf(ledger') \cap S = {}
      BY <1>3 DEF Admitted, Goals
    <3>2. Expected(k)' = Kept(ledger', S)
      BY DEF Expected, Admitted
    <3> HIDE DEF S
    <3> QED BY <1>2, <3>1, <3>2, KeptNone
  <2>3. \A k \in Keys : groups'[k] = << >> /\ cards'[k] = << >>
    BY <1>4, <2>1 DEF CardInv
  <2>4. phase' # "goals"
    OBVIOUS
  <2> QED BY <2>2, <2>3, <2>4 DEF CardInv
<1> QED BY <1>5, <1>6, <1>7, <1>8

LEMMA LevelEvents ==
    ASSUME NEW l \in 1..3
    PROVE  Matches[l] \in SUBSET Events
  BY SessionAssumption

LEMMA DiscoverStep == SessionInv /\ Discover => SessionInv'
<1> SUFFICES ASSUME SessionInv, Discover PROVE SessionInv'
  OBVIOUS
<1>1. PICK r \in Results(Matches[level]) :
         /\ ledger' = ledger \o Observed("discovery", r.rows)
         /\ IF r.rows # << >> /\ r.outcome # "complete" /\ Cardinality(TermGroups(level)) > 1
            THEN phase' = "followup" /\ level' = level
            ELSE Relax(r.rows # << >>)
  BY DEF Discover
<1>2. level \in 1..3 /\ phase = "discover"
  BY DEF Discover, SessionInv, StateInv
<1>3. r.rows \in Seq(Events)
  BY <1>1, <1>2, LevelEvents, ResultRows
<1>4. phase' \in {"discover", "followup", "schema"}
  BY <1>1, <1>2 DEF Relax
<1>5. level' \in 1..3
  <2>1. \/ level' = level
        \/ level' = level + 1 /\ \E l \in level + 1 .. 3 : TermGroups(l) # {}
    BY <1>1, Zenon DEF Relax
  <2>2. (\E l \in level + 1 .. 3 : TermGroups(l) # {}) => level + 1 \in 1..3
    <3>1. \A l \in level + 1 .. 3 : level + 1 \in 1..3
      BY <1>2
    <3> QED BY <3>1
  <2> QED BY <1>2, <2>1, <2>2
<1>6. UNCHANGED <<request, pass, cards, decision, analysis, answer, groups, asked, hypothesis,
                  tried, goals>>
  BY DEF Discover, engine
<1> QED BY <1>1, <1>2, <1>3, <1>4, <1>5, <1>6, DiscoveryStep

LEMMA FollowUpStep == SessionInv /\ FollowUp => SessionInv'
<1> SUFFICES ASSUME SessionInv, FollowUp PROVE SessionInv'
  OBVIOUS
<1>1. PICK r \in Results(Matches[2]) : ledger' = ledger \o Observed("discovery", r.rows)
  BY DEF FollowUp
<1>2. r.rows \in Seq(Events)
  BY <1>1, LevelEvents, ResultRows
<1>3. level' = level /\ level \in 1..3 /\ phase = "followup" /\ phase' = "schema"
  BY DEF FollowUp, textVars, SessionInv, StateInv
<1>4. UNCHANGED <<request, pass, cards, decision, analysis, answer, groups, asked, hypothesis,
                  tried, goals>>
  BY DEF FollowUp, engine, textVars
<1> QED BY <1>1, <1>2, <1>3, <1>4, DiscoveryStep

\* A step that leaves rows, cards and goals as they are.
LEMMA QuietStep ==
    ASSUME SessionInv, phase # "goals", phase' \notin {"goals", "discover", "followup", "schema"},
           UNCHANGED <<request, pass, ledger, cards, groups, goals>>,
           StateInv', PathInv'
    PROVE  SessionInv'
<1> USE DEF SessionInv
<1>1. RowInv'
  BY DEF RowInv
<1>2. \A k \in Keys : Expected(k)' = Expected(k)
  BY DEF Expected, Admitted
<1>3. CardInv'
  BY <1>2 DEF CardInv
<1> QED BY <1>1, <1>3

LEMMA DiscoverSchemaStep == SessionInv /\ DiscoverSchema => SessionInv'
<1> SUFFICES ASSUME SessionInv, DiscoverSchema PROVE SessionInv'
  OBVIOUS
<1>1. /\ UNCHANGED <<request, pass, ledger, cards, decision, analysis, answer, groups, asked,
                     hypothesis, level, tried, goals>>
      /\ phase = "schema" /\ phase' = "adaptive"
  BY DEF DiscoverSchema, engine
<1>2. StateInv'
  BY <1>1 DEF SessionInv, StateInv, Keyed, Phases
<1>3. PathInv'
  BY <1>1, PathIsOne DEF SessionInv, PathInv, StateInv
<1> QED BY <1>1, <1>2, <1>3, QuietStep

LEMMA SettleStep == SessionInv /\ Settle => SessionInv'
<1> SUFFICES ASSUME SessionInv, Settle PROVE SessionInv'
  OBVIOUS
<1>1. /\ UNCHANGED <<request, pass, ledger, cards, analysis, answer, groups, asked,
                     hypothesis, level, tried, goals>>
      /\ phase = "adaptive" /\ phase' = "analyze" /\ decision' = "STOP_BOUNDED"
  BY DEF Settle, engine
<1>2. StateInv'
  BY <1>1 DEF SessionInv, StateInv, Keyed, Phases
<1>3. PathInv'
  BY <1>1, PathIsOne DEF SessionInv, PathInv, StateInv
<1> QED BY <1>1, <1>2, <1>3, QuietStep

\* Adaptive rows are admitted, and become cards at once.
LEMMA AdaptiveStep ==
    ASSUME SessionInv, phase = "adaptive", NEW rows \in Seq(Events),
           Ingest(Observed("adaptive", rows)),
           tried' \in Seq(Ops), Len(tried') <= MaxAdaptive,
           UNCHANGED <<request, pass, phase, decision, analysis, answer, asked, hypothesis,
                       level, goals>>
    PROVE  SessionInv'
<1> USE DEF SessionInv
<1> DEFINE new == Observed("adaptive", rows)
           grown == IngestDelta(groups, new)
<1>1. new \in Seq(Observations) /\ \A o \in RowsOf(new) : o.query = "adaptive"
  BY ObservedRows DEF StateInv, Queries
<1>2. /\ ledger' = ledger \o new
      /\ groups' = IF new = << >> THEN groups ELSE grown
      /\ cards'  = IF new = << >> THEN cards ELSE groups'
  BY DEF Ingest
<1> HIDE DEF new
<1>3. /\ grown \in Cards /\ Keyed(grown)
      /\ \A k \in Keys : grown[k] = groups[k] \o Kept(new, {o \in RowsOf(new) : Row(o).key = k})
  BY <1>1, IngestedGroups DEF StateInv
<1> HIDE DEF grown
<1>4. ledger' \in Seq(Observations) /\ RowsOf(ledger') = RowsOf(ledger) \cup RowsOf(new)
  BY <1>1, <1>2, RowsConcat DEF StateInv
<1>5. request.path = "text" /\ pass = 1 /\ answer = NoAnswer
  BY PathIsOne DEF PathInv, StateInv
<1>6. StateInv'
  <2>1. groups' \in Cards /\ Keyed(groups')
    BY <1>2, <1>3 DEF StateInv
  <2>2. cards' \in Cards /\ \A k \in Keys : cards'[k] \in {<< >>, groups'[k]}
    BY <1>2, <2>1 DEF StateInv
  <2> QED BY <1>4, <2>1, <2>2 DEF StateInv, Keyed
<1>7. PathInv'
  BY <1>5 DEF PathInv
<1>8. RowInv'
  BY <1>1, <1>4, <1>5 DEF RowInv
<1>9. CardInv'
  <2>1. \A k \in Keys : Expected(k)' = Expected(k) \o Kept(new, {o \in RowsOf(new) : Row(o).key = k})
    BY <1>1, <1>2, ExpectedGrows DEF StateInv, Admitted
  <2>2. \A k \in Keys : groups[k] = Expected(k) /\ cards[k] = Expected(k)
    BY <1>5 DEF CardInv
  <2>3. CASE new = << >>
    <3>1. ASSUME NEW k \in Keys PROVE Expected(k)' = Expected(k)
      <4>1. Kept(new, {o \in RowsOf(new) : Row(o).key = k}) = << >>
        BY <2>3, KeptEmpty
      <4>2. Expected(k) \in Seq(Observations)
        BY <2>2 DEF StateInv, Cards
      <4>3. Expected(k) \o << >> = Expected(k)
        BY <4>2
      <4>4. Expected(k)' = Expected(k) \o Kept(new, {o \in RowsOf(new) : Row(o).key = k})
        BY <2>1
      <4> QED BY <4>1, <4>3, <4>4
    <3> QED BY <1>2, <2>2, <2>3, <3>1 DEF CardInv
  <2>4. CASE new # << >>
    <3>1. groups' = grown /\ cards' = grown
      BY <1>2, <2>4
    <3>2. \A k \in Keys : grown[k] = Expected(k)'
      BY <1>3, <2>1, <2>2
    <3> QED BY <3>1, <3>2 DEF CardInv
  <2> QED BY <2>3, <2>4
<1> QED BY <1>6, <1>7, <1>8, <1>9

LEMMA ChosenIsOffered == SessionInv => Choose \subseteq Ops \cup {NoOp}
<1> SUFFICES ASSUME SessionInv PROVE Choose \subseteq Ops \cup {NoOp}
  OBVIOUS
<1> DEFINE open     == Ops \ RowsOf(tried)
           declared == DirectOps[request.type]
           direct   == {i \in DOMAIN declared : declared[i] \in open}
<1>1. request.type \in Types
  BY PathIsOne DEF SessionInv, StateInv
<1>2. declared \in Seq(Ops)
  BY <1>1, SessionAssumption
<1>3. direct \in SUBSET Nat
  <2> HIDE DEF open, declared
  <2> QED BY <1>2
<1>4. direct # {} => Min(direct) \in direct
  <2> HIDE DEF direct
  <2> QED BY <1>3, MinIsIn
<1>5. direct # {} => declared[Min(direct)] \in Ops
  BY <1>4
<1>6. Choose = IF open = {} THEN {NoOp}
               ELSE IF direct # {} THEN {declared[Min(direct)]}
               ELSE (IF request.llm THEN open ELSE {})
                    \cup (IF "search_text" \in open THEN {"search_text"} ELSE {NoOp})
  BY DEF Choose
<1>7. open \subseteq Ops
  OBVIOUS
<1> HIDE DEF open, declared, direct
<1> QED BY <1>5, <1>6, <1>7

LEMMA AdaptStep == SessionInv /\ Adapt => SessionInv'
<1> SUFFICES ASSUME SessionInv, Adapt PROVE SessionInv'
  OBVIOUS
<1>1. PICK op \in Choose \ {NoOp} :
         /\ tried' = Append(tried, op)
         /\ \/ \E r \in Results(Returns[op]) : Recorded(op, r) /\ Ingest(Observed("adaptive", r.rows))
            \/ UNCHANGED <<results, ledger, groups, cards>>
  BY DEF Adapt
<1>2. op \in Ops
  BY <1>1, ChosenIsOffered
<1>3. tried' \in Seq(Ops) /\ Len(tried') <= MaxAdaptive
  <2>1. tried \in Seq(Ops) /\ Len(tried) < MaxAdaptive
    BY DEF Adapt, SessionInv, StateInv
  <2>2. tried' \in Seq(Ops) /\ Len(tried') = Len(tried) + 1 /\ Len(tried) \in Nat
    BY <1>1, <1>2, <2>1
  <2> QED BY <2>1, <2>2, SessionAssumption
<1>4. phase = "adaptive" /\ UNCHANGED <<request, pass, phase, decision, analysis, answer, asked,
                                        hypothesis, level, goals>>
  BY DEF Adapt
<1>5. CASE \E r \in Results(Returns[op]) : Recorded(op, r) /\ Ingest(Observed("adaptive", r.rows))
  <2>1. PICK r \in Results(Returns[op]) : Ingest(Observed("adaptive", r.rows))
    BY <1>5
  <2>2. r.rows \in Seq(Events)
    BY <1>2, ResultRows, SessionAssumption
  <2> QED BY <1>3, <1>4, <2>1, <2>2, AdaptiveStep
<1>6. CASE UNCHANGED <<results, ledger, groups, cards>>
  <2>1. StateInv'
    BY <1>3, <1>4, <1>6 DEF SessionInv, StateInv, Keyed
  <2>2. PathInv'
    BY <1>4, <1>6 DEF SessionInv, PathInv
  <2> QED BY <1>4, <1>6, <2>1, <2>2, QuietStep
<1> QED BY <1>1, <1>5, <1>6

\* The rows of a goal are those of its one attempt.
LEMMA RunStep ==
    ASSUME SessionInv, NEW g \in Goals, phase = "goals", goals[g].status = "waiting",
           ~ (g = "bind" /\ pass = 2), NEW r \in Results(Returns[g]), Run(g, r),
           UNCHANGED <<request, pass, phase, cards, decision, analysis, answer, groups, asked,
                       hypothesis, level, tried>>
    PROVE  SessionInv'
<1> USE DEF SessionInv
<1> DEFINE new == [i \in DOMAIN r.rows |-> [id |-> <<g, i>>, query |-> g, event |-> r.rows[i]]]
<1>1. r.rows \in Seq(Events) /\ r.outcome \in Outcomes
  BY ResultRows, SessionAssumption
<1>2. PICK grounded \in BOOLEAN, proof \in BOOLEAN, licence \in BOOLEAN :
         goals' = [goals EXCEPT ![g] =
                     [status |-> "run", outcome |-> r.outcome, rows |-> Len(r.rows),
                      grounded |-> grounded, proof |-> proof, licence |-> licence]]
  BY DEF Run
<1>3. /\ new \in Seq(Observations) /\ \A o \in RowsOf(new) : o.query = g
      /\ RowsOf(new) # {} => Len(r.rows) # 0
  BY <1>1, GoalRows
<1>4. ledger' = ledger \o new
  BY DEF Run
<1> HIDE DEF new
<1>5. ledger' \in Seq(Observations) /\ RowsOf(ledger') = RowsOf(ledger) \cup RowsOf(new)
  BY <1>3, <1>4, RowsConcat DEF StateInv
<1>6. request.path = "graph"
  BY PathIsOne DEF PathInv, StateInv
<1>7. goals' \in [Goals -> GoalRecords]
  <2>1. Len(r.rows) \in Nat /\ goals \in [Goals -> GoalRecords]
    BY <1>1 DEF StateInv
  <2> QED BY <1>1, <1>2, <2>1 DEF GoalRecords
<1>8. /\ goals'[g].status = "run" /\ goals'[g].rows = Len(r.rows)
      /\ \A h \in Goals \ {g} : goals'[h] = goals[h]
  BY <1>2 DEF StateInv
<1>9. StateInv'
  BY <1>5, <1>7 DEF StateInv, Keyed
<1>10. PathInv'
  BY DEF PathInv
<1>11. RowInv'
  <2>1. ASSUME NEW o \in RowsOf(ledger')
        PROVE  /\ o.query \in Goals /\ goals'[o.query].status = "run"
               /\ goals'[o.query].rows # 0
    <3>1. CASE o \in RowsOf(ledger)
      BY <1>6, <1>8, <3>1 DEF RowInv
    <3>2. CASE o \in RowsOf(new)
      BY <1>3, <1>8, <3>2
    <3> QED BY <1>5, <3>1, <3>2
  <2>2. pass' = 2 => goals'["bind"].status # "run"
    BY <1>8 DEF RowInv, Goals
  <2> QED BY <1>6, <2>1, <2>2 DEF RowInv
<1>12. CardInv'
  BY DEF CardInv, NoCards
<1> QED BY <1>9, <1>10, <1>11, <1>12

LEMMA SelectStep ==
    ASSUME SessionInv, phase = "goals", pass = 2, goals["bind"].status = "waiting",
           goals' = [goals EXCEPT !["bind"].status = "selected"],
           UNCHANGED <<request, pass, phase, ledger, cards, decision, analysis, answer, groups,
                       asked, hypothesis, level, tried>>
    PROVE  SessionInv'
<1> USE DEF SessionInv
<1>1. goals' \in [Goals -> GoalRecords] /\ goals'["bind"].status = "selected"
      /\ \A h \in Goals \ {"bind"} : goals'[h] = goals[h]
  BY DEF StateInv, GoalRecords, Goals
<1>2. StateInv'
  BY <1>1 DEF StateInv, Keyed
<1>3. PathInv'
  BY DEF PathInv
<1>4. request.path = "graph"
  BY PathIsOne DEF PathInv, StateInv
<1>5. RowInv'
  BY <1>1, <1>4 DEF RowInv
<1>6. CardInv'
  BY DEF CardInv
<1> QED BY <1>2, <1>3, <1>5, <1>6

LEMMA ExecuteGoalStep == SessionInv /\ (\E g \in Goals : ExecuteGoal(g)) => SessionInv'
<1> SUFFICES ASSUME SessionInv, NEW g \in Goals, ExecuteGoal(g) PROVE SessionInv'
  OBVIOUS
<1>1. /\ phase = "goals" /\ goals[g].status = "waiting"
      /\ UNCHANGED <<request, pass, phase, cards, decision, analysis, answer, groups, asked,
                     hypothesis, level, tried>>
  BY DEF ExecuteGoal, Runnable, engine, textVars
<1>2. CASE g = "bind" /\ pass = 2
  BY <1>1, <1>2, SelectStep DEF ExecuteGoal
<1>3. CASE ~ (g = "bind" /\ pass = 2)
  BY <1>1, <1>3, RunStep DEF ExecuteGoal
<1> QED BY <1>2, <1>3

LEMMA JudgeStep == SessionInv /\ Judge => SessionInv'
<1> SUFFICES ASSUME SessionInv, Judge PROVE SessionInv'
  OBVIOUS
<1> USE DEF SessionInv
<1> DEFINE E == {o \in RowsOf(ledger) :
                    goals[o.query].outcome = "complete" /\ goals[o.query].grounded}
           new == Kept(ledger, E)
           grown == IngestDelta(groups, new)
<1>1. /\ groups' = IF new = << >> THEN groups ELSE grown
      /\ cards'  = IF new = << >> THEN cards ELSE groups'
      /\ hypothesis' \in {"SUPPORTED", hypothesis}
      /\ decision' \in {"STOP_RESOLVED", "STOP_NEEDS_USER_DECISION", "STOP_INCONCLUSIVE"}
      /\ phase = "goals" /\ phase' = "analyze"
      /\ UNCHANGED <<request, pass, ledger, analysis, answer, asked, level, tried, goals>>
  BY DEF Judge, GoalEvidence, textVars
<1>2. new \in Seq(Observations) /\ RowsOf(new) = RowsOf(ledger) \cap E
  BY KeptIn DEF StateInv
<1>3. \A k \in Keys : Kept(new, {o \in RowsOf(new) : Row(o).key = k})
                        = Kept(ledger, E \cap {o \in RowsOf(new) : Row(o).key = k})
  <2>1. ledger \in Seq(Observations)
    BY DEF StateInv
  <2>2. \A T : Kept(new, T) = Kept(ledger, E \cap T)
    <3> HIDE DEF E
    <3> QED BY <2>1, KeptTwice
  <2> HIDE DEF new, E
  <2> QED BY <2>2
<1> HIDE DEF new
<1>4. /\ grown \in Cards /\ Keyed(grown)
      /\ \A k \in Keys : grown[k] = groups[k] \o Kept(new, {o \in RowsOf(new) : Row(o).key = k})
  BY <1>2, IngestedGroups DEF StateInv
<1> HIDE DEF grown
<1>5. request.path = "graph" /\ answer = NoAnswer
  BY <1>1, PathIsOne DEF PathInv, StateInv
<1>6. StateInv'
  <2>1. groups' \in Cards /\ Keyed(groups')
    BY <1>1, <1>4 DEF StateInv
  <2>2. cards' \in Cards /\ \A k \in Keys : cards'[k] \in {<< >>, groups'[k]}
    BY <1>1, <2>1 DEF StateInv
  <2> QED BY <1>1, <2>1, <2>2 DEF StateInv, Keyed, Phases
<1>7. PathInv'
  BY <1>1, <1>5 DEF PathInv
<1>8. RowInv'
  BY <1>1, <1>5 DEF RowInv
<1>9. CardInv'
  <2> SUFFICES ASSUME pass = 1, NEW k \in Keys
               PROVE  groups'[k] = Expected(k)' /\ cards'[k] = Expected(k)'
    BY <1>1 DEF CardInv
  <2> DEFINE A == {o \in RowsOf(ledger) : Admitted(o) /\ Row(o).key = k}
             B == E \cap {o \in RowsOf(new) : Row(o).key = k}
             C == {o \in RowsOf(new) : Row(o).key = k}
  <2>1. groups[k] = << >> /\ cards[k] = << >>
    BY <1>1 DEF CardInv, NoCards
  <2>2. \A o \in RowsOf(ledger) : o \in A <=> o \in B
    <3>1. \A o \in RowsOf(ledger) : Admitted(o) <=> o \in E
      BY <1>5 DEF RowInv, Admitted, Goals
    <3> HIDE DEF E
    <3> QED BY <1>2, <3>1
  <2>3. Expected(k)' = Kept(ledger, A)
    BY <1>1 DEF Expected, Admitted
  <2> HIDE DEF A
  <2>4. Kept(new, C) = Kept(ledger, B)
    BY <1>3
  <2> HIDE DEF B
  <2>5. Kept(ledger, A) = Kept(ledger, B)
    BY <2>2, KeptAgree DEF StateInv
  <2>6. grown[k] = << >> \o Kept(new, C)
    BY <1>4, <2>1
  <2> HIDE DEF C
  <2>7. CASE new = << >>
    <3>1. Kept(new, C) = << >>
      BY <2>7, KeptEmpty
    <3> QED BY <1>1, <2>1, <2>3, <2>4, <2>5, <2>7, <3>1
  <2>8. CASE new # << >>
    <3>1. Kept(new, C) \in Seq(Observations)
      BY <1>2, KeptIn
    <3>2. grown[k] = Kept(new, C)
      BY <2>6, <3>1
    <3> QED BY <1>1, <2>3, <2>4, <2>5, <2>8, <3>2
  <2> QED BY <2>7, <2>8
<1> QED BY <1>6, <1>7, <1>8, <1>9

LEMMA AnalyzeStep == SessionInv /\ Analyze => SessionInv'
<1> SUFFICES ASSUME SessionInv, Analyze PROVE SessionInv'
  OBVIOUS
<1>1. /\ UNCHANGED <<request, pass, ledger, cards, decision, answer, groups, hypothesis, level,
                     tried, goals>>
      /\ phase = "analyze" /\ phase' = "account"
      /\ \/ /\ request.llm /\ asked' = TRUE /\ analysis' \in AnalyzeBatch(cards, AllComplete)
         \/ UNCHANGED <<analysis, asked>>
  BY DEF Analyze, textVars
<1>2. analysis' \in Answers
  <2>1. AllComplete \in BOOLEAN
    BY DEF AllComplete
  <2>2. cards \in Cards /\ analysis \in Answers
    BY DEF SessionInv, StateInv
  <2> QED BY <1>1, <2>1, <2>2, BatchIsAnswer
<1>3. asked' \in BOOLEAN
  <2>1. asked \in BOOLEAN
    BY DEF SessionInv, StateInv
  <2> QED BY <1>1, <2>1, Zenon
<1>4. StateInv'
  BY <1>1, <1>2, <1>3 DEF SessionInv, StateInv, Keyed, Phases
<1>5. PathInv'
  BY <1>1 DEF SessionInv, PathInv
<1> QED BY <1>1, <1>4, <1>5, QuietStep

-----------------------------------------------------------------------------
(* The account.                                                            *)

Derived  == DeriveAnswer(request.type, AnswerCards, AnswerRows)
Proposed == Negative(Overrides(Derived, analysis), request.path = "graph", Licensed)
Complete == results # {} /\ AllComplete
Verdict  == VerifyAnswer(Proposed, request.type, cards, ledger, Complete, Detected(cards, ledger))
Settled  == Negative(Verdict, request.path = "graph", Licensed)

LEMMA NegativeIsAnswer ==
    ASSUME NEW a \in Answers, NEW graph \in BOOLEAN, NEW licensed \in BOOLEAN
    PROVE  LET n == Negative(a, graph, licensed)
           IN  /\ n \in Answers
               /\ n.status = "ANSWERED" => n = a
               /\ n.status = "NOT_FOUND" => IF graph THEN licensed ELSE n = a
               /\ a.status = "ANSWERED" \/ ~ graph => n = a
  BY DEF Negative, Answers, Statuses

LEMMA Accounted ==
    ASSUME SessionInv, Account
    PROVE  /\ Derived \in Answers /\ Proposed \in Answers /\ Verdict \in Answers
           /\ Settled \in Answers
           /\ answer' = Concluded(Settled, results # {}, AllComplete,
                                  decision = "STOP_NEEDS_USER_DECISION")
           /\ hypothesis' = Promote(hypothesis, Verdict)
           /\ phase = "account" /\ phase' = "reported"
           /\ UNCHANGED <<request, pass, ledger, results, cards, decision, analysis, groups,
                          asked, level, tried, goals>>
           /\ request.path = "text" => AnswerCards = cards /\ AnswerRows = ledger
<1>1. /\ cards \in Cards /\ ledger \in Seq(Observations) /\ analysis \in Answers
  BY DEF SessionInv, StateInv
<1>2. AnswerCards \in Cards
  BY <1>1 DEF AnswerCards, Cards
<1>3. AnswerRows \in Seq(Observations)
  BY <1>1, KeptIn DEF AnswerRows
<1>4. Derived \in Answers
  BY <1>2, <1>3, DeriveIsAnswer DEF Derived
<1>5. Overrides(Derived, analysis) \in Answers
  BY <1>1, <1>4 DEF Overrides
<1>6. Licensed \in BOOLEAN /\ (request.path = "graph") \in BOOLEAN /\ Complete \in BOOLEAN
      /\ Detected(cards, ledger) \in BOOLEAN
  BY DEF Licensed, Complete, AllComplete, Detected
<1>7. Proposed \in Answers
  BY <1>5, <1>6, NegativeIsAnswer DEF Proposed
<1>8. Verdict \in Answers
  <2>1. Verdict = VerifyAnswer(Proposed, request.type, cards, ledger, Complete,
                               Detected(cards, ledger))
    BY DEF Verdict
  <2> QED BY <1>6, <1>7, <2>1, VerifierIsSound
<1>9. Settled \in Answers
  BY <1>6, <1>8, NegativeIsAnswer DEF Settled
<1>10. /\ answer' = Concluded(Settled, results # {}, AllComplete,
                              decision = "STOP_NEEDS_USER_DECISION")
       /\ hypothesis' = Promote(hypothesis, Verdict)
       /\ phase = "account" /\ phase' = "reported"
       /\ UNCHANGED <<request, pass, ledger, results, cards, decision, analysis, groups,
                      asked, level, tried, goals>>
  BY DEF Account, Derived, Proposed, Complete, Verdict, Settled, textVars
<1>11. request.path = "text" => AnswerCards = cards /\ AnswerRows = ledger
  BY DEF AnswerCards, AnswerRows
<1> QED BY <1>4, <1>7, <1>8, <1>9, <1>10, <1>11

LEMMA ConcludedIsAnswer ==
    ASSUME NEW a \in Answers, NEW searched \in BOOLEAN, NEW complete \in BOOLEAN,
           NEW undecided \in BOOLEAN
    PROVE  LET c == Concluded(a, searched, complete, undecided)
           IN  /\ c \in Answers
               /\ c.status # "INCONCLUSIVE" => c = a /\ ~ undecided
               /\ c.status = "NOT_FOUND" => searched /\ complete
               /\ a.status = "ANSWERED" /\ ~ undecided => c = a
<1> DEFINE c == Concluded(a, searched, complete, undecided)
<1>1. CASE undecided \/ (a.status = "NOT_FOUND" /\ ~ (searched /\ complete))
  <2>1. c = [a EXCEPT !.status = "INCONCLUSIVE",
                      !.value = IF undecided THEN NoValue ELSE a.value]
    BY <1>1 DEF Concluded
  <2>2. c \in Answers /\ c.status = "INCONCLUSIVE"
    BY <2>1 DEF Answers, Statuses
  <2> QED BY <1>1, <2>2
<1>2. CASE ~ (undecided \/ (a.status = "NOT_FOUND" /\ ~ (searched /\ complete)))
  <2>1. c = a
    BY <1>2 DEF Concluded
  <2> QED BY <1>2, <2>1
<1> QED BY <1>1, <1>2

LEMMA AccountStep == SessionInv /\ Account => SessionInv'
<1> SUFFICES ASSUME SessionInv, Account PROVE SessionInv'
  OBVIOUS
<1>1. /\ phase = "account" /\ phase' = "reported"
      /\ UNCHANGED <<request, pass, ledger, cards, decision, analysis, groups, asked, level,
                     tried, goals>>
  BY Accounted
<1>2. answer' \in Answers
  <2>1. AllComplete \in BOOLEAN /\ (results # {}) \in BOOLEAN
        /\ (decision = "STOP_NEEDS_USER_DECISION") \in BOOLEAN
    BY DEF AllComplete
  <2>2. /\ Settled \in Answers
        /\ answer' = Concluded(Settled, results # {}, AllComplete,
                               decision = "STOP_NEEDS_USER_DECISION")
    BY Accounted
  <2> QED BY <2>1, <2>2, ConcludedIsAnswer
<1>3. hypothesis' \in {"LIVE", "SUPPORTED", "PARTIALLY_SUPPORTED"}
  BY Accounted DEF Promote, SessionInv, StateInv
<1>4. StateInv'
  BY <1>1, <1>2, <1>3 DEF SessionInv, StateInv, Keyed, Phases
<1>5. PathInv'
  BY <1>1 DEF SessionInv, PathInv
<1> QED BY <1>1, <1>4, <1>5, QuietStep

LEMMA ResumeStep == SessionInv /\ Resume => SessionInv'
<1> SUFFICES ASSUME SessionInv, Resume PROVE SessionInv'
  OBVIOUS
<1> USE DEF SessionInv
<1>1. /\ phase = "reported" /\ pass' = 2 /\ phase' = First(request)
      /\ ledger' = << >> /\ cards' = NoCards /\ decision' = "none"
      /\ analysis' = NoAnswer /\ answer' = NoAnswer /\ goals' = [g \in Goals |-> NotRun]
      /\ UNCHANGED <<request, groups, asked, hypothesis, level, tried>>
      /\ decision = "STOP_NEEDS_USER_DECISION"
  BY DEF Resume, engine, textVars
<1>2. request.path = "graph" /\ phase' = "goals"
  BY <1>1, PathIsOne DEF PathInv, StateInv, First
<1>3. RowsOf(<< >>) = {} /\ NoAnswer \in Answers /\ NoCards \in Cards
      /\ \A k \in Keys : NoCards[k] = << >>
  BY DEF RowsOf, NoAnswer, Answers, Statuses, NoCards, Cards
<1>4. goals' \in [Goals -> GoalRecords] /\ \A g \in Goals : goals'[g].status = "waiting"
  BY <1>1 DEF NotRun, GoalRecords, Outcomes
<1>5. StateInv'
  <2>1. groups' \in Cards /\ Keyed(groups')
    BY <1>1 DEF StateInv, Keyed
  <2>2. ledger' \in Seq(Observations) /\ pass' \in 1..2 /\ phase' \in Phases
    BY <1>1, <1>2 DEF Phases
  <2> QED BY <1>1, <1>3, <1>4, <2>1, <2>2 DEF StateInv
<1>6. PathInv'
  BY <1>1, <1>2 DEF PathInv
<1>7. RowInv'
  BY <1>1, <1>2, <1>3, <1>4 DEF RowInv, Goals
<1>8. CardInv'
  BY <1>1 DEF CardInv
<1> QED BY <1>5, <1>6, <1>7, <1>8

LEMMA NextInv == SessionInv /\ [Next]_vars => SessionInv'
<1> SUFFICES ASSUME SessionInv, [Next]_vars PROVE SessionInv'
  OBVIOUS
<1>1. CASE UNCHANGED vars
  <2>1. UNCHANGED <<request, pass, phase, ledger, cards, decision, analysis, answer, groups,
                    asked, hypothesis, level, tried, goals>>
    BY <1>1 DEF vars, execution, engine, textVars
  <2>2. \A k \in Keys : Expected(k)' = Expected(k)
    BY <2>1 DEF Expected, Admitted
  <2>3. StateInv' /\ PathInv'
    BY <2>1 DEF SessionInv, StateInv, PathInv, Keyed
  <2>4. RowInv' /\ CardInv'
    BY <2>1, <2>2 DEF SessionInv, RowInv, CardInv
  <2> QED BY <2>3, <2>4 DEF SessionInv
<1>2. CASE Next
  BY <1>2, DiscoverStep, FollowUpStep, DiscoverSchemaStep, AdaptStep, SettleStep,
     ExecuteGoalStep, JudgeStep, AnalyzeStep, AccountStep, ResumeStep DEF Next
<1> QED BY <1>1, <1>2

LEMMA SessionInvariant == Spec => []SessionInv
  BY InitInv, NextInv, PTL DEF Spec

-----------------------------------------------------------------------------
(* The theorems.                                                           *)

\* Every variable of a session has its type, and a card holds observations of
\* its own fingerprint (the fields of the engine, the controller and the
\* account, build_cards).
THEOREM SessionTypes == Spec => []TypeOK
<1>1. SessionInv => TypeOK
  <2> SUFFICES ASSUME SessionInv PROVE TypeOK
    OBVIOUS
  <2> USE DEF SessionInv
  <2>1. \A o \in Observations : Observation(o)
    BY DEF Observations, Observation
  <2>2. \A o \in RowsOf(ledger) : Observation(o)
    BY <2>1, RowsIn DEF StateInv
  <2>3. \A k \in Keys : \A o \in RowsOf(groups[k]) : Observation(o) /\ Row(o).key = k
    BY <2>1, RowsIn DEF StateInv, Keyed, Cards
  <2>4. tried \in BoundedSeq(Ops, MaxAdaptive)
    <3>1. tried \in [1 .. Len(tried) -> Ops] /\ Len(tried) \in 0 .. MaxAdaptive
      BY SessionAssumption DEF StateInv
    <3> QED BY <3>1 DEF BoundedSeq, SeqOf
  <2> QED BY <2>2, <2>3, <2>4 DEF StateInv, TypeOK, Phases
<1> QED BY <1>1, SessionInvariant, PTL

\* The cards of a first execution are the admitted rows, by fingerprint: the
\* groups grow with the ledger in the adaptive loop, and are filled once, when
\* all goals are judged (ingest_delta, goal_query_ids).
THEOREM CardsAreAdmitted == Spec => []OnlyAdmittedRowsBecomeCards
<1>1. SessionInv => OnlyAdmittedRowsBecomeCards
  BY DEF SessionInv, CardInv, Expected, OnlyAdmittedRowsBecomeCards
<1> QED BY <1>1, SessionInvariant, PTL

\* Only the account gives an answer.
LEMMA AnswerOfStep ==
    ASSUME SessionInv, [Next]_vars
    PROVE  Account \/ answer' = NoAnswer \/ UNCHANGED vars
<1>1. SessionInv'
  BY NextInv
<1>2. CASE Next /\ ~ Account
  <2>1. Resume \/ phase' # "reported"
    BY <1>2 DEF Next, Discover, FollowUp, DiscoverSchema, Adapt, Settle, ExecuteGoal, Judge,
                Analyze, Relax
  <2> QED BY <1>1, <2>1 DEF SessionInv, PathInv, Resume
<1> QED BY <1>2

LEMMA AccountConcludes ==
    ASSUME SessionInv, Account, answer'.status # "INCONCLUSIVE"
    PROVE  /\ answer' = Settled /\ decision # "STOP_NEEDS_USER_DECISION"
           /\ answer'.status = "NOT_FOUND" => AllComplete
<1> DEFINE searched == results # {}
           undecided == decision = "STOP_NEEDS_USER_DECISION"
           complete == AllComplete
<1>1. searched \in BOOLEAN /\ undecided \in BOOLEAN /\ complete \in BOOLEAN
  BY DEF AllComplete
<1>2. Settled \in Answers /\ answer' = Concluded(Settled, searched, complete, undecided)
  BY Accounted
<1> DEFINE told == Settled
           c    == Concluded(told, searched, complete, undecided)
<1> HIDE DEF searched, undecided, complete
<1>4. told \in Answers /\ answer' = c
  BY <1>2
<1> HIDE DEF told
<1>5. c.status # "INCONCLUSIVE" => c = told /\ ~ undecided
  BY <1>1, <1>4, ConcludedIsAnswer, Zenon
<1>6. c.status = "NOT_FOUND" => complete
  BY <1>1, <1>4, ConcludedIsAnswer, Zenon
<1> HIDE DEF c
<1>7. answer' = Settled /\ ~ undecided /\ (answer'.status = "NOT_FOUND" => complete)
  BY <1>4, <1>5, <1>6 DEF told
<1> QED BY <1>7 DEF undecided, complete

\* What the verifier does to the proposal of this step.
LEMMA VerdictIsSound ==
    ASSUME SessionInv, Account
    PROVE  /\ Verdict.value = Proposed.value /\ Verdict.cites \subseteq CardSet(cards)
           /\ Proposed.cites \subseteq CardSet(cards) => Verdict.cites = Proposed.cites
           /\ Verdict.status = "ANSWERED" =>
                 /\ Verdict.cites # {} /\ FieldSeen(request.type, Verdict.cites, cards, ledger)
                 /\ Verdict.value # NoValue => Bound(Verdict.value, Verdict.cites, cards, ledger)
           /\ Verdict.status = "NOT_FOUND" => Proposed.status = "NOT_FOUND"
           /\ /\ Proposed.status = "ANSWERED" /\ Verdict.cites # {}
              /\ FieldSeen(request.type, Verdict.cites, cards, ledger)
              /\ Verdict.value # NoValue /\ Bound(Verdict.value, Verdict.cites, cards, ledger)
              => Verdict.status = "ANSWERED"
<1>1. Proposed \in Answers /\ Complete \in BOOLEAN /\ Detected(cards, ledger) \in BOOLEAN
  BY Accounted DEF Complete, AllComplete, Detected
<1>2. Verdict = VerifyAnswer(Proposed, request.type, cards, ledger, Complete,
                             Detected(cards, ledger))
  BY DEF Verdict
<1>3. Verdict.value = Proposed.value /\ Verdict.cites \subseteq CardSet(cards)
  BY <1>1, <1>2, VerifierIsSound
<1>4. Proposed.cites \subseteq CardSet(cards) => Verdict.cites = Proposed.cites
  BY <1>1, <1>2, VerifierIsSound
<1>5. Verdict.status = "ANSWERED" =>
         /\ Verdict.cites # {} /\ FieldSeen(request.type, Verdict.cites, cards, ledger)
         /\ Verdict.value # NoValue => Bound(Verdict.value, Verdict.cites, cards, ledger)
  BY <1>1, <1>2, VerifierIsSound
<1>6. Verdict.status = "NOT_FOUND" => Proposed.status = "NOT_FOUND"
  BY <1>1, <1>2, VerifierIsSound
<1>7. /\ Proposed.status = "ANSWERED" /\ Verdict.cites # {}
      /\ FieldSeen(request.type, Verdict.cites, cards, ledger)
      /\ Verdict.value # NoValue /\ Bound(Verdict.value, Verdict.cites, cards, ledger)
      => Verdict.status = "ANSWERED"
  BY <1>1, <1>2, VerifierIsSound
<1> QED BY <1>3, <1>4, <1>5, <1>6, <1>7

\* What verify_answer lets pass stays bound through the reassertion and the
\* guards that follow it.
THEOREM AnswersAreBound == Spec => []AnsweredIsBound
<1>1. Init => AnsweredIsBound
  BY DEF Init, NoAnswer, AnsweredIsBound
<1>2. SessionInv /\ AnsweredIsBound /\ [Next]_vars => AnsweredIsBound'
  <2> SUFFICES ASSUME SessionInv, AnsweredIsBound, [Next]_vars PROVE AnsweredIsBound'
    OBVIOUS
  <2>1. CASE Account
    <3> SUFFICES ASSUME answer'.status = "ANSWERED" PROVE AnsweredIsBound'
      BY DEF AnsweredIsBound
    <3>1. answer' = Settled
      BY <2>1, AccountConcludes
    <3>2. Settled = Verdict
      <4>1. Verdict \in Answers /\ Licensed \in BOOLEAN /\ (request.path = "graph") \in BOOLEAN
        BY <2>1, Accounted DEF Licensed
      <4> QED BY <3>1, <4>1, NegativeIsAnswer DEF Settled
    <3>3. /\ Verdict.cites # {} /\ Verdict.cites \subseteq CardSet(cards)
          /\ FieldSeen(request.type, Verdict.cites, cards, ledger)
          /\ Verdict.value # NoValue => Bound(Verdict.value, Verdict.cites, cards, ledger)
      BY <2>1, <3>1, <3>2, VerdictIsSound
    <3>4. UNCHANGED <<cards, ledger, request>>
      BY <2>1, Accounted
    <3>5. CardSet(cards)' = CardSet(cards)
      BY <3>4 DEF CardSet
    <3> HIDE DEF Verdict
    <3> QED BY <3>1, <3>2, <3>3, <3>4, <3>5 DEF AnsweredIsBound
  <2>2. CASE answer' = NoAnswer
    BY <2>2 DEF NoAnswer, AnsweredIsBound
  <2>3. CASE UNCHANGED vars
    BY <2>3 DEF vars, execution, AnsweredIsBound, CardSet
  <2> QED BY <2>1, <2>2, <2>3, AnswerOfStep
<1> QED BY <1>1, <1>2, SessionInvariant, PTL DEF Spec

\* Of a text no negative is derived, proposed or verified.
LEMMA TextHasNoNegative ==
    ASSUME SessionInv, Account, request.path = "text"
    PROVE  Settled.status # "NOT_FOUND"
<1>1. /\ cards \in Cards /\ ledger \in Seq(Observations)
  BY DEF SessionInv, StateInv
<1>2. Derived \in Answers /\ Derived.status \in {"ANSWERED", "INCONCLUSIVE"}
  <2>1. Derived = DeriveAnswer(request.type, cards, ledger)
    BY Accounted DEF Derived
  <2> QED BY <1>1, <2>1, DeriveIsAnswer
<1>3. Overrides(Derived, analysis).status # "NOT_FOUND"
  BY <1>2 DEF Overrides
<1>4. Proposed.status # "NOT_FOUND"
  BY <1>3 DEF Proposed, Negative
<1>5. Verdict.status # "NOT_FOUND"
  BY <1>4, VerdictIsSound
<1> QED BY <1>5 DEF Settled, Negative

\* No way through derivation, model, verifier, reassertion and guards ends in
\* a negative that is not licensed (_semantic_negative_is_licensed).
THEOREM NegativesAreLicensed == Spec => []NegativeIsLicensed
<1>1. Init => NegativeIsLicensed
  BY DEF Init, NoAnswer, NegativeIsLicensed
<1>2. SessionInv /\ NegativeIsLicensed /\ [Next]_vars => NegativeIsLicensed'
  <2> SUFFICES ASSUME SessionInv, NegativeIsLicensed, [Next]_vars PROVE NegativeIsLicensed'
    OBVIOUS
  <2>1. CASE Account
    <3> SUFFICES ASSUME answer'.status = "NOT_FOUND" PROVE NegativeIsLicensed'
      BY DEF NegativeIsLicensed
    <3>1. answer' = Settled /\ AllComplete /\ decision # "STOP_NEEDS_USER_DECISION"
      BY <2>1, AccountConcludes
    <3>2. request.path = "graph"
      BY <2>1, <3>1, PathIsOne, TextHasNoNegative DEF SessionInv, StateInv
    <3>3. Licensed
      <4>1. Verdict \in Answers /\ Licensed \in BOOLEAN /\ (request.path = "graph") \in BOOLEAN
        BY <2>1, Accounted DEF Licensed
      <4> QED BY <3>1, <3>2, <4>1, NegativeIsAnswer DEF Settled
    <3>4. pass = 1
      BY <3>3 DEF Licensed, Goals, SessionInv, RowInv, StateInv
    <3>5. ledger = << >>
      <4>1. RowsOf(ledger) = {}
        BY <3>2, <3>3 DEF Licensed, SessionInv, RowInv
      <4>2. ledger \in Seq(Observations)
        BY DEF SessionInv, StateInv
      <4> QED BY <4>1, <4>2, NoRows
    <3>6. UNCHANGED <<request, pass, ledger, results, decision, goals>>
      BY <2>1, Accounted
    <3>7. AllComplete'
      BY <3>1, <3>6 DEF AllComplete
    <3>8. \A g \in Goals : goals[g].status = "run" /\ goals[g].licence
      BY <3>3 DEF Licensed
    <3> QED BY <3>1, <3>2, <3>4, <3>5, <3>6, <3>7, <3>8 DEF NegativeIsLicensed
  <2>2. CASE answer' = NoAnswer
    BY <2>2 DEF NoAnswer, NegativeIsLicensed
  <2>3. CASE UNCHANGED vars
    BY <2>3 DEF vars, execution, NegativeIsLicensed, AllComplete
  <2> QED BY <2>1, <2>2, <2>3, AnswerOfStep
<1> QED BY <1>1, <1>2, SessionInvariant, PTL DEF Spec

\* An observed field gives its value weight, when a card of requests has it.
LEMMA ObservedHasWeight ==
    ASSUME SessionInv, request.path = "text", phase # "goals",
           NEW o \in RowsOf(ledger), o.query = "adaptive", Carried(request.type, o) # {},
           request.type = "domain" => AmongRequests(o)
    PROVE  /\ CardSet(cards) # {}
           /\ \E v \in Values : Weight(request.type, cards, ledger, v) > 0
<1> DEFINE k == Row(o).key
           S == {p \in RowsOf(ledger) : Admitted(p) /\ Row(p).key = k}
<1>1. /\ cards \in Cards /\ ledger \in Seq(Observations) /\ pass = 1
      /\ request.type \in Types /\ o \in Observations
  BY PathIsOne, RowsIn DEF SessionInv, StateInv, PathInv
<1>2. k \in Keys
  BY <1>1, RowTypes
<1>3. o \in S
  BY DEF Admitted
<1>4. cards[k] = Kept(ledger, S)
  BY <1>1, <1>2 DEF SessionInv, CardInv, Expected
<1>5. cards[k] \in Seq(Observations) /\ o \in RowsOf(cards[k])
  BY <1>1, <1>3, <1>4, KeptIn
<1>6. \A p \in RowsOf(cards[k]) : p \in Observations /\ Row(p).key = k
  BY <1>1, <1>4, <1>5, KeptIn, RowsIn
<1> HIDE DEF S
<1>7. DOMAIN cards[k] = 1 .. Len(cards[k]) /\ Len(cards[k]) \in Nat
  BY <1>5
<1>8. cards[k] # << >> /\ Len(cards[k]) \in DOMAIN cards[k]
  <2>1. PICK i \in DOMAIN cards[k] : o = cards[k][i]
    BY <1>5 DEF RowsOf
  <2> QED BY <1>7, <2>1
<1>9. k \in CardSet(cards)
  BY <1>2, <1>8 DEF CardSet
<1>10. PICK v \in Carried(request.type, o) : TRUE
  OBVIOUS
<1>11. v \in Values
  BY <1>1, <1>10, RowTypes DEF Carried
<1>12. CASE request.type # "domain"
  <2>1. v \in Direct(request.type, o)
    BY <1>10, <1>12 DEF Direct
  <2> QED BY <1>1, <1>9, <1>11, <2>1, WeightIsEvidence
<1>13. CASE request.type = "domain"
  <2>1. v = Row(o).site /\ v # NoValue
    BY <1>10, <1>13 DEF Carried
  <2>2. \A p \in RowsOf(cards[k]) : Row(p).fact = "web_request"
    <3> SUFFICES ASSUME NEW p \in RowsOf(cards[k]) PROVE Row(p).fact = "web_request"
      OBVIOUS
    <3>1. p \in S /\ Row(p).key = Row(o).key
      BY <1>1, <1>4, <1>6, KeptIn
    <3>2. p \in RowsOf(ledger) /\ p.query = "adaptive"
      BY <3>1, PathIsOne, RowsIn DEF S, Admitted, SessionInv, RowInv, Goals
    <3> QED BY <1>13, <3>1, <3>2 DEF AmongRequests
  <2>3. FactType(cards[k]) = "web_request"
    <3>1. cards[k][Len(cards[k])] \in RowsOf(cards[k])
      BY <1>8 DEF RowsOf
    <3>2. Row(cards[k][Len(cards[k])]).fact = "web_request"
      BY <2>2, <3>1
    <3>3. "process_execution" \notin {Row(p).fact : p \in RowsOf(cards[k])}
      BY <2>2
    <3> QED BY <3>2, <3>3 DEF FactType
  <2>4. v \in FieldSummary(request.type, cards[k])
    BY <1>5, <1>13, <2>1 DEF FieldSummary, Sites
  <2>5. k \in Showing(request.type, cards, v)
    BY <1>9, <2>3, <2>4 DEF Showing, Eligible
  <2> QED BY <1>1, <1>9, <1>11, <2>5, WeightIsEvidence
<1> QED BY <1>12, <1>13

\* From the row to the card, from the card to the candidate, through the
\* verifier to the answer: no field that an operation observed is lost,
\* however the rows are ordered and grouped, but for a domain whose row is not
\* among requests (_build_card_from_group, _derive_answer, verify_answer).
THEOREM ObservedAreAnswered == Spec => []ObservedIsAnswered
<1>1. Init => ObservedIsAnswered
  BY PathIsOne DEF Init, First, ObservedIsAnswered
<1>2. SessionInv /\ ObservedIsAnswered /\ [Next]_vars => ObservedIsAnswered'
  <2> SUFFICES ASSUME SessionInv, ObservedIsAnswered, [Next]_vars PROVE ObservedIsAnswered'
    OBVIOUS
  <2>1. CASE Account
    <3>1. UNCHANGED <<request, cards, ledger>> /\ phase = "account"
      BY <2>1, Accounted
    <3> SUFFICES ASSUME request.path = "text", ~ request.llm,
                        NEW o \in RowsOf(ledger), o.query = "adaptive",
                        Carried(request.type, o) # {},
                        request.type = "domain" => AmongRequests(o)
                 PROVE  answer'.status = "ANSWERED" /\ answer'.value # NoValue
      BY <3>1 DEF ObservedIsAnswered, AmongRequests, Carried, Row
    <3>2. /\ CardSet(cards) # {}
          /\ \E v \in Values : Weight(request.type, cards, ledger, v) > 0
      BY <3>1, ObservedHasWeight
    <3>3. cards \in Cards /\ ledger \in Seq(Observations) /\ analysis = NoAnswer
          /\ decision # "STOP_NEEDS_USER_DECISION"
      BY DEF SessionInv, StateInv, PathInv
    <3>4. Derived = DeriveAnswer(request.type, cards, ledger)
      BY <2>1, Accounted DEF Derived
    <3>5. /\ Derived \in Answers /\ Derived.status = "ANSWERED" /\ Derived.value \in Values
          /\ Derived.cites \subseteq CardSet(cards) /\ Derived.cites # {}
          /\ Bound(Derived.value, Derived.cites, cards, ledger)
      BY <3>2, <3>3, <3>4, DeriveIsAnswer
    <3> HIDE DEF Derived
    <3>6. Proposed = Derived
      BY <3>3, <3>5 DEF Proposed, Overrides, Negative, NoAnswer
    <3>7. Verdict.status = "ANSWERED" /\ Verdict.value = Derived.value
      <4>4. Verdict.value = Derived.value /\ Verdict.cites = Derived.cites
        BY <2>1, <3>5, <3>6, VerdictIsSound
      <4>5. FieldSeen(request.type, Verdict.cites, cards, ledger)
        BY DEF FieldSeen
      <4>6. Derived.value # NoValue
        BY <3>5, FieldsAssumption
      <4> QED BY <2>1, <3>5, <3>6, <4>4, <4>5, <4>6, VerdictIsSound
    <3>8. Settled = Verdict
      BY <3>7 DEF Settled, Negative
    <3>9. answer' = Settled
      <4>1. /\ Settled \in Answers
            /\ answer' = Concluded(Settled, results # {}, AllComplete,
                                   decision = "STOP_NEEDS_USER_DECISION")
        BY <2>1, Accounted
      <4> HIDE DEF Settled
      <4> QED BY <3>3, <3>7, <3>8, <4>1 DEF Concluded
    <3>10. Derived.value # NoValue
      BY <3>5, FieldsAssumption
    <3> QED BY <3>7, <3>8, <3>9, <3>10
  <2>2. CASE Next /\ ~ Account
    <3>1. Resume \/ phase' # "reported"
      BY <2>2 DEF Next, Discover, FollowUp, DiscoverSchema, Adapt, Settle, ExecuteGoal, Judge,
                  Analyze, Relax
    <3>2. phase' # "reported"
      BY <3>1 DEF Resume, First
    <3> QED BY <3>2 DEF ObservedIsAnswered
  <2>3. CASE UNCHANGED vars
    BY <2>3 DEF vars, execution, ObservedIsAnswered, AmongRequests, Carried, Row
  <2> QED BY <2>1, <2>2, <2>3
<1> QED BY <1>1, <1>2, SessionInvariant, PTL DEF Spec

=============================================================================
