------------------------ MODULE ProviderSearchProofs ------------------------
(***************************************************************************)
(* For every query form, every limit and everything that is indexed while  *)
(* a search runs: pages join, a complete result is whole, and a negative   *)
(* that is licensed over a settled window means that there is no record.   *)
(***************************************************************************)
EXTENDS ProviderSearchProperties, FiniteSetTheorems, SequenceTheorems, TLAPS

-----------------------------------------------------------------------------
(* Induction over numbers.                                                 *)

LEMMA Least ==
    ASSUME NEW S \in SUBSET Nat, S # {}
    PROVE  \E m \in S : \A n \in S : m <= n
<1> DEFINE R == OpToRel(<, Nat)
<1>1. IsWellFoundedOn(R, Nat)
  BY NatLessThanWellFounded
<1>2. \A i, j \in Nat : j < i => <<j, i>> \in R
  BY DEF OpToRel
<1> HIDE DEF R
<1>3. PICK m \in S : \A n \in S : ~ (<<n, m>> \in R)
  BY <1>1, WFMin
<1>4. ASSUME NEW n \in S PROVE m <= n
  <2>1. m \in Nat /\ n \in Nat
    OBVIOUS
  <2>2. ~(n < m)
    BY <1>2, <1>3, <2>1
  <2> QED BY <2>1, <2>2
<1> QED BY <1>4

LEMMA NatSets ==
    ASSUME NEW S, 0 \in S, \A n \in Nat : n \in S => n + 1 \in S
    PROVE  Nat \subseteq S
<1> DEFINE T == Nat \ S
<1>1. SUFFICES ASSUME T # {} PROVE FALSE
  OBVIOUS
<1>2. PICK m \in T : \A n \in T : m <= n
  BY <1>1, Least
<1>3. m - 1 \in Nat /\ m - 1 \notin T
  BY <1>2
<1> QED BY <1>2, <1>3

LEMMA MinOfTwo ==
    ASSUME NEW a \in Int, NEW b \in Int
    PROVE  Min({a, b}) = IF a <= b THEN a ELSE b
  BY DEF Min

LEMMA MaxOfTwo ==
    ASSUME NEW a \in Int, NEW b \in Int
    PROVE  Max({a, b}) = IF a <= b THEN b ELSE a
  BY DEF Max

-----------------------------------------------------------------------------
(* Which rows a page shows.                                                *)

LEMMA FirstRowsIs ==
    ASSUME NEW X, NEW rows \in Seq(X), NEW k \in Nat
    PROVE  /\ FirstRows(rows, k) \in Seq(X)
           /\ Len(FirstRows(rows, k)) = IF k <= Len(rows) THEN k ELSE Len(rows)
           /\ \A j \in 1 .. Len(FirstRows(rows, k)) : FirstRows(rows, k)[j] = rows[j]
<1> DEFINE m == Min({k, Len(rows)})
<1>1. m = (IF k <= Len(rows) THEN k ELSE Len(rows)) /\ m \in Nat /\ Len(rows) \in Nat
  BY MinOfTwo
<1> HIDE DEF m
<1>2. \A j \in 1 .. m : rows[j] \in X
  BY <1>1
<1>3. /\ SubSeq(rows, 1, m) \in Seq(X)
      /\ Len(SubSeq(rows, 1, m)) = IF 1 <= m THEN m - 1 + 1 ELSE 0
      /\ \A j \in 1 .. m - 1 + 1 : SubSeq(rows, 1, m)[j] = rows[1 + j - 1]
  <2>1. 1 \in Int /\ m \in Int
    BY <1>1
  <2> QED BY <1>2, <2>1, SubSeqProperties
<1>4. FirstRows(rows, k) = SubSeq(rows, 1, m)
  BY DEF FirstRows, m
<1>5. Len(SubSeq(rows, 1, m)) = m
  BY <1>1, <1>3
<1>6. \A j \in 1 .. m : SubSeq(rows, 1, m)[j] = rows[j]
  BY <1>1, <1>3
<1> QED BY <1>1, <1>3, <1>4, <1>5, <1>6

LEMMA ReverseIs ==
    ASSUME NEW X, NEW s \in Seq(X)
    PROVE  /\ Reverse(s) \in Seq(X) /\ Len(Reverse(s)) = Len(s)
           /\ \A j \in 1 .. Len(s) : Reverse(s)[j] = s[Len(s) + 1 - j]
<1> DEFINE n == Len(s)
<1>1. n \in Nat /\ \A j \in 1 .. n : s[j] \in X
  OBVIOUS
<1>2. Reverse(s) = [j \in 1 .. n |-> s[(n - j) + 1]]
  BY DEF Reverse
<1> HIDE DEF n
<1>3. \A j \in 1 .. n : (n - j) + 1 \in 1 .. n /\ (n - j) + 1 = n + 1 - j
  BY <1>1
<1>4. Reverse(s) \in [1 .. n -> X]
  BY <1>1, <1>2, <1>3
<1>5. Reverse(s) \in Seq(X) /\ Len(Reverse(s)) = n
  BY <1>1, <1>4
<1>6. \A j \in 1 .. n : Reverse(s)[j] = s[n + 1 - j]
  BY <1>2, <1>3
<1> QED BY <1>5, <1>6 DEF n

LEMMA LastRowsIs ==
    ASSUME NEW X, NEW rows \in Seq(X), NEW k \in Nat \ {0}
    PROVE  LET m == IF k <= Len(rows) THEN k ELSE Len(rows)
           IN  /\ LastRows(rows, k) \in Seq(X)
               /\ Len(LastRows(rows, k)) = m
               /\ \A j \in 1 .. m : LastRows(rows, k)[j] = rows[Len(rows) + 1 - j]
<1> DEFINE n == Len(rows)
           m == IF k <= n THEN k ELSE n
           first == Max({1, n - k + 1})
<1>1. n \in Nat /\ m \in Nat /\ m <= n
  OBVIOUS
<1>2. first = (IF k <= n THEN n - k + 1 ELSE 1)
  <2>1. first = (IF 1 <= n - k + 1 THEN n - k + 1 ELSE 1)
    BY <1>1, MaxOfTwo
  <2> QED BY <1>1, <2>1
<1>3. first \in 1 .. n + 1 /\ n - first + 1 = m /\ first - 1 = n - m
  BY <1>1, <1>2
<1>4. \A j \in 1 .. n : rows[j] \in X
  OBVIOUS
<1>5. LastRows(rows, k) = Reverse(SubSeq(rows, first, n))
  BY DEF LastRows
<1> HIDE DEF first, m, n
<1>6. \A j \in first .. n : rows[j] \in X
  BY <1>1, <1>3, <1>4
<1>7. /\ SubSeq(rows, first, n) \in Seq(X)
      /\ Len(SubSeq(rows, first, n)) = IF first <= n THEN n - first + 1 ELSE 0
      /\ \A j \in 1 .. n - first + 1 : SubSeq(rows, first, n)[j] = rows[first + j - 1]
  <2>1. first \in Int /\ n \in Int
    BY <1>1, <1>3
  <2> QED BY <1>6, <2>1, SubSeqProperties
<1>8. Len(SubSeq(rows, first, n)) = m
  BY <1>1, <1>3, <1>7
<1>9. ASSUME NEW j \in 1 .. m PROVE SubSeq(rows, first, n)[j] = rows[n - m + j]
  <2>1. first + j - 1 = n - m + j /\ j \in 1 .. n - first + 1
    BY <1>1, <1>3
  <2> QED BY <1>7, <2>1
<1>10. /\ Reverse(SubSeq(rows, first, n)) \in Seq(X)
       /\ Len(Reverse(SubSeq(rows, first, n))) = m
       /\ \A j \in 1 .. m : Reverse(SubSeq(rows, first, n))[j] = SubSeq(rows, first, n)[m + 1 - j]
  BY <1>1, <1>7, <1>8, ReverseIs
<1>11. ASSUME NEW j \in 1 .. m PROVE Reverse(SubSeq(rows, first, n))[j] = rows[n + 1 - j]
  <2>1. m + 1 - j \in 1 .. m /\ n - m + (m + 1 - j) = n + 1 - j
    BY <1>1
  <2> QED BY <1>9, <1>10, <2>1
<1> QED BY <1>5, <1>10, <1>11 DEF m, n

\* How many of d rows come before the page that begins at an offset: when
\* there are too few, the last Limit + 1 are shown.
Skipped(from, d) ==
    IF from + Limit + 1 <= d THEN from
    ELSE IF Limit + 1 <= d THEN d - (Limit + 1) ELSE 0

\* The first page is in order, and every other is turned around.
Turned(from, n, j) == IF from = 0 THEN j ELSE n + 1 - j

LEMMA PageClauseIs ==
    ASSUME NEW X, NEW rows \in Seq(X), NEW from \in Nat
    PROVE  LET page == PageClause(rows, from)
               d == Len(rows)
           IN  /\ page \in Seq(X)
               /\ Len(page) = IF Limit + 1 <= d THEN Limit + 1 ELSE d
               /\ \A j \in 1 .. Len(page) :
                     page[j] = rows[Skipped(from, d) + Turned(from, Len(page), j)]
<1> DEFINE d == Len(rows)
           page == PageClause(rows, from)
<1>1. Limit \in Nat /\ Limit + 1 \in Nat \ {0} /\ d \in Nat
  BY SearchAssumption
<1>2. CASE from = 0
  <2>1. page = FirstRows(rows, Limit + 1)
    BY <1>2 DEF PageClause
  <2>2. Skipped(from, d) = 0
    BY <1>1, <1>2 DEF Skipped
  <2>3. /\ FirstRows(rows, Limit + 1) \in Seq(X)
        /\ Len(FirstRows(rows, Limit + 1)) = IF Limit + 1 <= d THEN Limit + 1 ELSE d
        /\ \A j \in 1 .. Len(FirstRows(rows, Limit + 1)) : FirstRows(rows, Limit + 1)[j] = rows[j]
    BY <1>1, FirstRowsIs
  <2>4. \A j \in 1 .. Len(page) : 0 + Turned(from, Len(page), j) = j
    BY <1>1, <1>2, <2>1, <2>3 DEF Turned
  <2> QED BY <2>1, <2>2, <2>3, <2>4
<1>3. CASE from > 0
  <2> DEFINE head == FirstRows(rows, from + Limit + 1)
             m == IF Limit + 1 <= Len(head) THEN Limit + 1 ELSE Len(head)
  <2>1. page = LastRows(head, Limit + 1)
    BY <1>3 DEF PageClause
  <2>2. from + Limit + 1 \in Nat
    BY <1>1
  <2>3. /\ head \in Seq(X)
        /\ Len(head) = IF from + Limit + 1 <= d THEN from + Limit + 1 ELSE d
        /\ \A j \in 1 .. Len(head) : head[j] = rows[j]
    BY <2>2, FirstRowsIs
  <2> HIDE DEF head
  <2>4. /\ LastRows(head, Limit + 1) \in Seq(X)
        /\ Len(LastRows(head, Limit + 1)) = m
        /\ \A j \in 1 .. m : LastRows(head, Limit + 1)[j] = head[Len(head) + 1 - j]
    BY <1>1, <2>3, LastRowsIs
  <2>5. m = IF Limit + 1 <= d THEN Limit + 1 ELSE d
    BY <1>1, <2>3
  <2> DEFINE h == Len(head)
  <2>8. h = (IF from + Limit + 1 <= d THEN from + Limit + 1 ELSE d)
        /\ m = IF Limit + 1 <= h THEN Limit + 1 ELSE h
    BY <2>3
  <2> HIDE DEF h, m, d
  <2>9. h - m = Skipped(from, d) /\ m \in Nat /\ m <= h /\ h \in Nat
    BY <1>1, <1>3, <2>8 DEF Skipped
  <2>6. Len(head) - m = Skipped(from, d) /\ m \in Nat /\ m <= Len(head) /\ Len(head) \in Nat
    BY <2>9 DEF h
  <2>7. ASSUME NEW j \in 1 .. m
        PROVE  page[j] = rows[Skipped(from, d) + Turned(from, m, j)]
    <3>1. Len(head) + 1 - j \in 1 .. Len(head)
      BY <2>6
    <3>2. Skipped(from, d) + Turned(from, m, j) = Len(head) + 1 - j
      BY <1>3, <2>6 DEF Turned
    <3> QED BY <2>1, <2>3, <2>4, <3>1, <3>2
  <2> QED BY <2>1, <2>4, <2>5, <2>7 DEF d
<1> QED BY <1>2, <1>3

LEMMA SqlPageIs ==
    ASSUME NEW X, NEW rows \in Seq(X), NEW from \in Nat
    PROVE  /\ SqlPage(rows, from) \in Seq(X)
           /\ Len(SqlPage(rows, from)) =
                 IF from + Limit + 1 <= Len(rows) THEN Limit + 1
                 ELSE IF from <= Len(rows) THEN Len(rows) - from ELSE 0
           /\ \A j \in 1 .. Len(SqlPage(rows, from)) : SqlPage(rows, from)[j] = rows[from + j]
<1> DEFINE d == Len(rows)
           m == Min({from + Limit + 1, d})
           s == SubSeq(rows, from + 1, m)
<1>1. Limit \in Nat /\ d \in Nat
  BY SearchAssumption
<1>2. m = (IF from + Limit + 1 <= d THEN from + Limit + 1 ELSE d) /\ m \in Nat
  BY <1>1, MinOfTwo
<1>3. \A j \in 1 .. d : rows[j] \in X
  OBVIOUS
<1> HIDE DEF d, m
<1>4. /\ s \in Seq(X)
      /\ Len(s) = IF from + 1 <= m THEN m - (from + 1) + 1 ELSE 0
      /\ \A j \in 1 .. m - (from + 1) + 1 : s[j] = rows[from + 1 + j - 1]
  <2>1. from + 1 \in Int /\ m \in Int /\ \A j \in from + 1 .. m : rows[j] \in X
    BY <1>1, <1>2, <1>3
  <2> HIDE DEF s
  <2> QED BY <2>1, SubSeqProperties DEF s
<1> HIDE DEF s
<1>5. Len(s) = (IF from + Limit + 1 <= d THEN Limit + 1 ELSE IF from <= d THEN d - from ELSE 0)
  BY <1>1, <1>2, <1>4
<1>6. ASSUME NEW j \in 1 .. Len(s) PROVE s[j] = rows[from + j]
  <2>1. j \in 1 .. m - (from + 1) + 1 /\ from + 1 + j - 1 = from + j
    BY <1>1, <1>2, <1>4
  <2> QED BY <1>4, <2>1
<1>7. s = SqlPage(rows, from)
  BY DEF s, m, d, SqlPage
<1> QED BY <1>4, <1>5, <1>6, <1>7 DEF d

LEMMA NewestIs ==
    ASSUME NEW n \in 0 .. MaxStored
    PROVE  /\ Newest(n) \in Seq(Rows) /\ Len(Newest(n)) = n
           /\ \A i \in 1 .. n : Newest(n)[i] = n + 1 - i
<1>1. n \in Nat /\ MaxStored \in Nat
  BY SearchAssumption
<1>2. \A i \in 1 .. n : n + 1 - i \in Rows
  BY <1>1 DEF Rows
<1>3. Newest(n) \in [1 .. n -> Rows]
  BY <1>2 DEF Newest
<1> QED BY <1>1, <1>3 DEF Newest

LEMMA OldestIs ==
    ASSUME NEW n \in 0 .. MaxStored
    PROVE  /\ Oldest(n) \in Seq(Rows) /\ Len(Oldest(n)) = n
           /\ \A i \in 1 .. n : Oldest(n)[i] = i
<1>1. n \in Nat /\ MaxStored \in Nat
  BY SearchAssumption
<1>2. \A i \in 1 .. n : i \in Rows
  BY <1>1 DEF Rows
<1>3. Oldest(n) \in [1 .. n -> Rows]
  BY <1>2 DEF Oldest
<1> QED BY <1>1, <1>3 DEF Oldest

-----------------------------------------------------------------------------
(* Dedup keeps one record of each name.                                    *)

NamesOf(s)      == {Named[s[i]] : i \in 1 .. Len(s)}
NamesTo(s, n)   == {Named[s[i]] : i \in 1 .. n}
NamedOnce(s)    == \A i, j \in 1 .. Len(s) : Named[s[i]] = Named[s[j]] => i = j
DedupTo(f, rows, n) ==
    f = [i \in 0 .. n |-> IF i = 0 THEN << >>
                          ELSE IF Named[rows[i]] \in NamesTo(rows, i - 1) THEN f[i - 1]
                          ELSE Append(f[i - 1], rows[i])]

LEMMA DedupSteps ==
    ASSUME NEW f, NEW rows, NEW n \in Nat, DedupTo(f, rows, n)
    PROVE  /\ f[0] = << >>
           /\ \A i \in 1 .. n :
                 f[i] = IF Named[rows[i]] \in NamesTo(rows, i - 1) THEN f[i - 1]
                        ELSE Append(f[i - 1], rows[i])
<1>1. f[0] = << >>
  BY DEF DedupTo
<1>2. ASSUME NEW i \in 1 .. n
      PROVE  f[i] = IF Named[rows[i]] \in NamesTo(rows, i - 1) THEN f[i - 1]
                    ELSE Append(f[i - 1], rows[i])
  <2>1. i \in 0 .. n /\ i # 0
    OBVIOUS
  <2> QED BY <2>1, Zenon DEF DedupTo
<1> QED BY <1>1, <1>2

LEMMA DedupExists ==
    ASSUME NEW rows, NEW n \in Nat
    PROVE  \E f : DedupTo(f, rows, n)
<1> DEFINE N == {k \in Nat : \E f : DedupTo(f, rows, k)}
<1>1. 0 \in N
  <2>1. DedupTo([i \in 0 .. 0 |-> << >>], rows, 0)
    BY DEF DedupTo
  <2> QED BY <2>1
<1>2. ASSUME NEW k \in Nat, k \in N PROVE k + 1 \in N
  <2>1. PICK f : DedupTo(f, rows, k)
    BY <1>2
  <2> DEFINE seen(i) == Named[rows[i]] \in NamesTo(rows, i - 1)
             g == [i \in 0 .. k + 1 |->
                     IF i \in 0 .. k THEN f[i]
                     ELSE IF seen(k + 1) THEN f[k] ELSE Append(f[k], rows[k + 1])]
  <2> HIDE DEF seen
  <2>2. ASSUME NEW i \in 0 .. k + 1
        PROVE  g[i] = IF i = 0 THEN << >>
                      ELSE IF seen(i) THEN g[i - 1] ELSE Append(g[i - 1], rows[i])
    <3>1. CASE i = 0
      <4>1. f[0] = << >> /\ 0 \in 0 .. k
        BY <2>1, DedupSteps
      <4> QED BY <3>1, <4>1
    <3>2. CASE i \in 1 .. k
      <4>1. g[i] = f[i] /\ g[i - 1] = f[i - 1]
        BY <3>2
      <4>2. f[i] = IF seen(i) THEN f[i - 1] ELSE Append(f[i - 1], rows[i])
        <5>1. \A j \in 1 .. k : f[j] = IF seen(j) THEN f[j - 1] ELSE Append(f[j - 1], rows[j])
          BY <2>1, DedupSteps DEF seen
        <5> QED BY <3>2, <5>1
      <4> QED BY <3>2, <4>1, <4>2
    <3>3. CASE i = k + 1
      <4>1. g[i - 1] = f[k] /\ i # 0 /\ i \notin 0 .. k
        BY <3>3
      <4> QED BY <3>3, <4>1
    <3> QED BY <3>1, <3>2, <3>3
  <2>3. DedupTo(g, rows, k + 1)
    BY <2>2 DEF DedupTo, seen
  <2> QED BY <2>3
<1>3. Nat \subseteq N
  <2> HIDE DEF N
  <2> QED BY <1>1, <1>2, NatSets
<1> QED BY <1>3

LEMMA NamesAppend ==
    ASSUME NEW X, NEW s \in Seq(X), NEW x \in X
    PROVE  /\ NamesOf(Append(s, x)) = NamesOf(s) \cup {Named[x]}
           /\ NamedOnce(s) /\ Named[x] \notin NamesOf(s) => NamedOnce(Append(s, x))
<1> DEFINE t == Append(s, x)
           n == Len(s)
<1>1. /\ Len(t) = n + 1 /\ t[n + 1] = x /\ n \in Nat
      /\ \A i \in 1 .. n : t[i] = s[i]
  OBVIOUS
<1> HIDE DEF t
<1>2. 1 .. n + 1 = (1 .. n) \cup {n + 1}
  BY <1>1
<1>3. NamesOf(t) = NamesOf(s) \cup {Named[x]}
  BY <1>1, <1>2 DEF NamesOf
<1>4. ASSUME NamedOnce(s), Named[x] \notin NamesOf(s) PROVE NamedOnce(t)
  <2> SUFFICES ASSUME NEW i \in 1 .. n + 1, NEW j \in 1 .. n + 1, Named[t[i]] = Named[t[j]]
               PROVE  i = j
    BY <1>1 DEF NamedOnce
  <2>1. \A k \in 1 .. n : Named[t[k]] \in NamesOf(s)
    BY <1>1 DEF NamesOf
  <2>2. CASE i \in 1 .. n /\ j \in 1 .. n
    BY <1>1, <1>4, <2>2 DEF NamedOnce
  <2>3. CASE i = n + 1 \/ j = n + 1
    <3>1. i \in 1 .. n \/ i = n + 1
      BY <1>2
    <3>2. j \in 1 .. n \/ j = n + 1
      BY <1>2
    <3> QED BY <1>1, <1>4, <2>1, <2>3, <3>1, <3>2
  <2> QED BY <1>2, <2>2, <2>3
<1> QED BY <1>3, <1>4 DEF t

LEMMA DedupIs ==
    ASSUME NEW X, NEW rows \in Seq(X)
    PROVE  /\ Dedup(rows) \in Seq(X)
           /\ NamesOf(Dedup(rows)) = NamesOf(rows)
           /\ NamedOnce(Dedup(rows))
<1> DEFINE n == Len(rows)
           f == CHOOSE g : DedupTo(g, rows, n)
           Good(i) == /\ f[i] \in Seq(X) /\ NamesOf(f[i]) = NamesTo(rows, i)
                      /\ NamedOnce(f[i])
           N == {i \in Nat : i <= n => Good(i)}
<1>1. n \in Nat /\ \A i \in 1 .. n : rows[i] \in X
  OBVIOUS
<1> HIDE DEF n
<1>2. DedupTo(f, rows, n)
  BY <1>1, DedupExists
<1>3. Dedup(rows) = f[n]
  BY DEF Dedup, DedupTo, NamesTo, n
<1> HIDE DEF f
<1>4. 0 \in N
  <2>1. f[0] = << >>
    BY <1>1, <1>2, DedupSteps
  <2>2. NamesOf(<< >>) = {} /\ NamesTo(rows, 0) = {} /\ NamedOnce(<< >>)
    BY DEF NamesOf, NamesTo, NamedOnce
  <2>3. << >> \in Seq(X)
    OBVIOUS
  <2>4. Good(0)
    BY <2>1, <2>2, <2>3, Zenon
  <2> QED BY <2>4
<1>5. ASSUME NEW k \in Nat, k \in N PROVE k + 1 \in N
  <2> SUFFICES ASSUME k + 1 <= n PROVE Good(k + 1)
    OBVIOUS
  <2>1. Good(k) /\ rows[k + 1] \in X /\ k + 1 \in 1 .. n
    BY <1>1, <1>5
  <2>2. f[k + 1] = IF Named[rows[k + 1]] \in NamesTo(rows, k) THEN f[k]
                   ELSE Append(f[k], rows[k + 1])
    <3>1. f[k + 1] = IF Named[rows[k + 1]] \in NamesTo(rows, (k + 1) - 1) THEN f[(k + 1) - 1]
                     ELSE Append(f[(k + 1) - 1], rows[k + 1])
      BY <1>1, <1>2, <2>1, DedupSteps
    <3>2. (k + 1) - 1 = k
      OBVIOUS
    <3> QED BY <3>1, <3>2
  <2>3. NamesTo(rows, k + 1) = NamesTo(rows, k) \cup {Named[rows[k + 1]]}
    <3>1. 1 .. k + 1 = (1 .. k) \cup {k + 1}
      OBVIOUS
    <3> QED BY <3>1 DEF NamesTo
  <2>4. CASE Named[rows[k + 1]] \in NamesTo(rows, k)
    BY <2>1, <2>2, <2>3, <2>4
  <2>5. CASE Named[rows[k + 1]] \notin NamesTo(rows, k)
    <3>1. f[k + 1] = Append(f[k], rows[k + 1])
      BY <2>2, <2>5
    <3>2. NamesOf(Append(f[k], rows[k + 1])) = NamesOf(f[k]) \cup {Named[rows[k + 1]]}
      BY <2>1, NamesAppend
    <3>3. NamedOnce(Append(f[k], rows[k + 1]))
      BY <2>1, <2>5, NamesAppend
    <3>4. Append(f[k], rows[k + 1]) \in Seq(X)
      BY <2>1
    <3>5. f[k + 1] \in Seq(X) /\ NamedOnce(f[k + 1])
      BY <3>1, <3>3, <3>4
    <3>6. NamesOf(f[k + 1]) = NamesTo(rows, k + 1)
      BY <2>1, <2>3, <3>1, <3>2
    <3> QED BY <3>5, <3>6
  <2> QED BY <2>4, <2>5
<1>6. Nat \subseteq N
  <2> HIDE DEF N
  <2> QED BY <1>4, <1>5, NatSets
<1>7. Good(n)
  BY <1>1, <1>6
<1>8. NamesTo(rows, n) = NamesOf(rows)
  BY DEF NamesTo, NamesOf, n
<1> QED BY <1>3, <1>7, <1>8

LEMMA IntervalCount ==
    ASSUME NEW n \in Nat
    PROVE  IsFiniteSet(1 .. n) /\ Cardinality(1 .. n) = n
<1>1. 1 \in Int /\ n \in Int
  OBVIOUS
<1>2. /\ IsFiniteSet(1 .. n)
      /\ Cardinality(1 .. n) = IF 1 > n THEN 0 ELSE n - 1 + 1
  BY <1>1, FS_Interval
<1> QED BY <1>2

\* A sequence that names everything another names, each once, is as long.
LEMMA NamesCount ==
    ASSUME NEW X, NEW s \in Seq(X), NEW t \in Seq(X), NamedOnce(s), NamesOf(s) \subseteq NamesOf(t)
    PROVE  Len(s) <= Len(t)
<1> DEFINE S == 1 .. Len(s)
           T == 1 .. Len(t)
           f == [i \in S |-> CHOOSE j \in T : Named[t[j]] = Named[s[i]]]
<1>1. \A i \in S : \E j \in T : Named[t[j]] = Named[s[i]]
  BY DEF NamesOf
<1>2. \A i \in S : f[i] \in T /\ Named[t[f[i]]] = Named[s[i]]
  BY <1>1
<1>3. f \in Injection(S, T)
  <2>1. f \in [S -> T]
    BY <1>2
  <2>2. ASSUME NEW i \in S, NEW j \in S, f[i] = f[j] PROVE i = j
    BY <1>2, <2>2 DEF NamedOnce
  <2> HIDE DEF f
  <2> QED BY <2>1, <2>2 DEF Injection, IsInjective
<1>4. Len(s) \in Nat /\ Len(t) \in Nat
  OBVIOUS
<1>5. IsFiniteSet(S) /\ IsFiniteSet(T) /\ Cardinality(S) = Len(s) /\ Cardinality(T) = Len(t)
  BY <1>4, IntervalCount
<1> HIDE DEF S, T, f
<1>6. Cardinality(S) <= Cardinality(T)
  BY <1>3, <1>5, FS_Injection
<1> QED BY <1>5, <1>6

LEMMA NewestNames ==
    ASSUME NEW n \in 0 .. MaxStored
    PROVE  NamesOf(Newest(n)) = {Named[r] : r \in 1 .. n}
<1>1. n \in Nat /\ MaxStored \in Nat
  BY SearchAssumption
<1>2. Len(Newest(n)) = n /\ \A i \in 1 .. n : Newest(n)[i] = n + 1 - i
  BY NewestIs
<1>3. \A i \in 1 .. n : n + 1 - i \in 1 .. n /\ n + 1 - (n + 1 - i) = i
  BY <1>1
<1>4. NamesOf(Newest(n)) \subseteq {Named[r] : r \in 1 .. n}
  BY <1>2, <1>3 DEF NamesOf
<1>5. ASSUME NEW r \in 1 .. n PROVE Named[r] \in NamesOf(Newest(n))
  BY <1>2, <1>3 DEF NamesOf
<1> QED BY <1>4, <1>5

\* The candidates of n records.
Candidates(n) == Dedup(Newest(n))

LEMMA CandidatesAre ==
    ASSUME NEW n \in 0 .. MaxStored
    PROVE  /\ Candidates(n) \in Seq(Rows) /\ NamedOnce(Candidates(n))
           /\ NamesOf(Candidates(n)) = {Named[r] : r \in 1 .. n}
  BY NewestIs, NewestNames, DedupIs DEF Candidates

LEMMA CandidatesGrow ==
    ASSUME NEW m \in 0 .. MaxStored, NEW n \in 0 .. MaxStored, m <= n
    PROVE  Len(Candidates(m)) <= Len(Candidates(n))
<1>1. 1 .. m \subseteq 1 .. n
  BY SearchAssumption
<1>2. NamesOf(Candidates(m)) \subseteq NamesOf(Candidates(n))
  BY <1>1, CandidatesAre
<1> QED BY <1>2, CandidatesAre, NamesCount

-----------------------------------------------------------------------------
(* What a search reads of n records, by its form.                          *)

Fetched(o, n, from) ==
    IF Form[o] = "sql" THEN SqlPage(Oldest(n), from) ELSE Search(o, Newest(n), from)

LEMMA LimitIs ==
    ASSUME NEW o \in Ops
    PROVE  /\ Limit \in Nat \ {0} /\ TargetLimit(o) \in Nat \ {0}
           /\ Form[o] # "outbound" => TargetLimit(o) = Limit
<1>1. Limit \in Nat \ {0} /\ WideLimit \in Nat \ {0}
  BY SearchAssumption
<1>2. Max({Limit, WideLimit}) \in Nat \ {0}
  BY <1>1, MaxOfTwo
<1> QED BY <1>1, <1>2 DEF TargetLimit

LEMMA PagedIs ==
    ASSUME NEW o \in Ops, Form[o] \in {"records", "evidence"},
           NEW n \in 0 .. MaxStored, NEW from \in Nat
    PROVE  LET got == Fetched(o, n, from)
           IN  /\ got \in Seq(Rows)
               /\ Len(got) = IF Limit + 1 <= n THEN Limit + 1 ELSE n
               /\ \A j \in 1 .. Len(got) :
                     got[j] = n + 1 - (Skipped(from, n) + Turned(from, Len(got), j))
<1>1. Fetched(o, n, from) = PageClause(Newest(n), from)
  BY DEF Fetched, Search, RecordSearch, EvidenceSearch
<1>2. /\ Newest(n) \in Seq(Rows) /\ Len(Newest(n)) = n
      /\ \A i \in 1 .. n : Newest(n)[i] = n + 1 - i
  BY NewestIs
<1> DEFINE page == PageClause(Newest(n), from)
<1>3. /\ page \in Seq(Rows) /\ Len(page) = IF Limit + 1 <= n THEN Limit + 1 ELSE n
      /\ \A j \in 1 .. Len(page) :
            page[j] = Newest(n)[Skipped(from, n) + Turned(from, Len(page), j)]
  BY <1>2, PageClauseIs
<1> HIDE DEF page
<1>4. ASSUME NEW j \in 1 .. Len(page)
      PROVE  Skipped(from, n) + Turned(from, Len(page), j) \in 1 .. n
  BY <1>3, SearchAssumption DEF Skipped, Turned
<1>5. \A j \in 1 .. Len(page) :
         page[j] = n + 1 - (Skipped(from, n) + Turned(from, Len(page), j))
  BY <1>2, <1>3, <1>4
<1> QED BY <1>1, <1>3, <1>5 DEF page

LEMMA CandidateIs ==
    ASSUME NEW o \in Ops, Form[o] = "candidates", NEW n \in 0 .. MaxStored, NEW from \in Nat
    PROVE  LET got == Fetched(o, n, from)
               d   == Len(Candidates(n))
           IN  /\ got \in Seq(Rows)
               /\ Len(got) = IF Limit + 1 <= d THEN Limit + 1 ELSE d
               /\ \A j \in 1 .. Len(got) :
                     got[j] = Candidates(n)[Skipped(from, d) + Turned(from, Len(got), j)]
<1>1. Fetched(o, n, from) = PageClause(Candidates(n), from)
  BY DEF Fetched, Search, CandidateSearch, Candidates
<1> QED BY <1>1, CandidatesAre, PageClauseIs

LEMMA UnpagedIs ==
    ASSUME NEW o \in Ops, Form[o] \in {"text", "identity"},
           NEW n \in 0 .. MaxStored, NEW from \in Nat
    PROVE  LET got == Fetched(o, n, from)
           IN  /\ got \in Seq(Rows)
               /\ Len(got) = IF Limit + 1 <= n THEN Limit + 1 ELSE n
               /\ \A j \in 1 .. Len(got) : got[j] = n + 1 - j
<1>1. Fetched(o, n, from) = FirstRows(Newest(n), Limit + 1)
  BY DEF Fetched, Search, TextSearch, IdentitySearch
<1>2. /\ Newest(n) \in Seq(Rows) /\ Len(Newest(n)) = n
      /\ \A i \in 1 .. n : Newest(n)[i] = n + 1 - i
  BY NewestIs
<1>3. Limit + 1 \in Nat /\ n \in Nat
  BY SearchAssumption
<1> DEFINE page == FirstRows(Newest(n), Limit + 1)
<1>4. /\ page \in Seq(Rows) /\ Len(page) = IF Limit + 1 <= n THEN Limit + 1 ELSE n
      /\ \A j \in 1 .. Len(page) : page[j] = Newest(n)[j]
  BY <1>2, <1>3, FirstRowsIs
<1> HIDE DEF page
<1>5. \A j \in 1 .. Len(page) : j \in 1 .. n
  BY <1>3, <1>4
<1>6. \A j \in 1 .. Len(page) : page[j] = n + 1 - j
  BY <1>2, <1>4, <1>5
<1> QED BY <1>1, <1>4, <1>6 DEF page

LEMMA OutboundIs ==
    ASSUME NEW o \in Ops, Form[o] = "outbound", NEW n \in 0 .. MaxStored, NEW from \in Nat
    PROVE  /\ Fetched(o, n, from) \in Seq(Rows)
           /\ Fetched(o, n, from) = << >> => n = 0
<1>1. Fetched(o, n, from) = FirstRows(Newest(n), Max({Limit + 1, WideLimit}))
  BY DEF Fetched, Search, OutboundSearch
<1>2. Newest(n) \in Seq(Rows) /\ Len(Newest(n)) = n
  BY NewestIs
<1> DEFINE k == Max({Limit + 1, WideLimit})
<1>3. k \in Nat \ {0} /\ n \in Nat
  BY SearchAssumption, MaxOfTwo
<1> HIDE DEF k
<1>4. /\ FirstRows(Newest(n), k) \in Seq(Rows)
      /\ Len(FirstRows(Newest(n), k)) = IF k <= n THEN k ELSE n
  BY <1>2, <1>3, FirstRowsIs
<1>5. FirstRows(Newest(n), k) = << >> => Len(FirstRows(Newest(n), k)) = 0
  OBVIOUS
<1> QED BY <1>1, <1>3, <1>4, <1>5 DEF k

LEMMA SqlIs ==
    ASSUME NEW o \in Ops, Form[o] = "sql", NEW n \in 0 .. MaxStored, NEW from \in Nat
    PROVE  LET got == Fetched(o, n, from)
           IN  /\ got \in Seq(Rows)
               /\ Len(got) = IF from + Limit + 1 <= n THEN Limit + 1
                             ELSE IF from <= n THEN n - from ELSE 0
               /\ \A j \in 1 .. Len(got) : got[j] = from + j
<1>1. Fetched(o, n, from) = SqlPage(Oldest(n), from)
  BY DEF Fetched
<1>2. /\ Oldest(n) \in Seq(Rows) /\ Len(Oldest(n)) = n
      /\ \A i \in 1 .. n : Oldest(n)[i] = i
  BY OldestIs
<1> DEFINE page == SqlPage(Oldest(n), from)
<1>3. /\ page \in Seq(Rows)
      /\ Len(page) = IF from + Limit + 1 <= n THEN Limit + 1
                     ELSE IF from <= n THEN n - from ELSE 0
      /\ \A j \in 1 .. Len(page) : page[j] = Oldest(n)[from + j]
  BY <1>2, SqlPageIs
<1> HIDE DEF page
<1>4. \A j \in 1 .. Len(page) : from + j \in 1 .. n
  BY <1>3, SearchAssumption
<1>5. \A j \in 1 .. Len(page) : page[j] = from + j
  BY <1>2, <1>3, <1>4
<1> QED BY <1>1, <1>3, <1>5 DEF page

\* A search finds rows of the store, and none of the first page only if
\* there is none.
LEMMA FetchedIs ==
    ASSUME NEW o \in Ops, NEW n \in 0 .. MaxStored, NEW from \in Nat
    PROVE  /\ Fetched(o, n, from) \in Seq(Rows)
           /\ from = 0 /\ Fetched(o, n, from) = << >> => n = 0
<1> DEFINE got == Fetched(o, n, from)
<1>1. Limit \in Nat /\ n \in Nat
  BY SearchAssumption
<1>2. CASE Form[o] \in {"records", "evidence"}
  <2>1. got \in Seq(Rows) /\ Len(got) = IF Limit + 1 <= n THEN Limit + 1 ELSE n
    BY <1>2, PagedIs
  <2> QED BY <1>1, <2>1
<1>3. CASE Form[o] \in {"text", "identity"}
  <2>1. got \in Seq(Rows) /\ Len(got) = IF Limit + 1 <= n THEN Limit + 1 ELSE n
    BY <1>3, UnpagedIs
  <2> QED BY <1>1, <2>1
<1>4. CASE Form[o] = "candidates"
  <2> DEFINE d == Len(Candidates(n))
  <2>1. got \in Seq(Rows) /\ Len(got) = IF Limit + 1 <= d THEN Limit + 1 ELSE d
    BY <1>4, CandidateIs
  <2>2. d \in Nat /\ (d = 0 => n = 0)
    <3>1. d \in Nat /\ NamesOf(Candidates(n)) = {Named[r] : r \in 1 .. n}
      BY CandidatesAre
    <3>2. d = 0 => NamesOf(Candidates(n)) = {}
      BY DEF NamesOf
    <3>3. n # 0 => Named[1] \in {Named[r] : r \in 1 .. n}
      BY <1>1
    <3> HIDE DEF d
    <3> QED BY <3>1, <3>2, <3>3
  <2> HIDE DEF d, got
  <2>3. got = << >> => Len(got) = 0
    OBVIOUS
  <2>4. got = << >> => n = 0
    BY <1>1, <2>1, <2>2, <2>3
  <2> QED BY <2>1, <2>4 DEF got
<1>5. CASE Form[o] = "outbound"
  BY <1>5, OutboundIs
<1>6. CASE Form[o] = "sql"
  <2>1. /\ got \in Seq(Rows)
        /\ Len(got) = IF from + Limit + 1 <= n THEN Limit + 1
                      ELSE IF from <= n THEN n - from ELSE 0
    BY <1>6, SqlIs
  <2> HIDE DEF got
  <2>2. got = << >> => Len(got) = 0
    OBVIOUS
  <2>3. from = 0 /\ got = << >> => n = 0
    BY <1>1, <2>1, <2>2
  <2>4. got \in Seq(Rows) /\ (from = 0 /\ got = << >> => n = 0)
    BY <2>1, <2>3
  <2> QED BY <2>4 DEF got
<1> QED BY <1>2, <1>3, <1>4, <1>5, <1>6, SearchAssumption

-----------------------------------------------------------------------------
(* The pages of one search.                                                *)

\* Intervals that each begin below the end of the one before, or next to it,
\* cover everything up to their ends.
LEMMA Covered ==
    ASSUME NEW m \in Nat, NEW lo \in [1 .. m -> Int], NEW hi \in [1 .. m -> Int],
           m > 0 => lo[1] <= 1,
           \A i \in 1 .. m : i < m => lo[i + 1] <= hi[i] + 1
    PROVE  \A i \in 1 .. m : \A p \in 1 .. hi[i] : \E j \in 1 .. m : p \in lo[j] .. hi[j]
<1> DEFINE Reached(p) == \E j \in 1 .. m : p \in lo[j] .. hi[j]
           N == {i \in Nat : i \in 1 .. m => \A p \in 1 .. hi[i] : Reached(p)}
<1> HIDE DEF Reached
<1>1. 0 \in N
  OBVIOUS
<1>2. ASSUME NEW i \in Nat, i \in N PROVE i + 1 \in N
  <2> SUFFICES ASSUME i + 1 \in 1 .. m, NEW p \in 1 .. hi[i + 1] PROVE Reached(p)
    OBVIOUS
  <2>1. lo[i + 1] \in Int /\ hi[i + 1] \in Int /\ p \in Int /\ p >= 1 /\ p <= hi[i + 1]
    OBVIOUS
  <2>2. CASE lo[i + 1] <= p
    BY <2>1, <2>2 DEF Reached
  <2>3. CASE p < lo[i + 1]
    <3>1. i # 0
      BY <2>1, <2>3
    <3>2. i \in 1 .. m /\ i < m
      BY <3>1
    <3>3. hi[i] \in Int /\ lo[i + 1] <= hi[i] + 1
      BY <3>2
    <3>4. p \in 1 .. hi[i]
      BY <2>1, <2>3, <3>3
    <3> QED BY <1>2, <3>2, <3>4
  <2> QED BY <2>1, <2>2, <2>3
<1>3. Nat \subseteq N
  <2> HIDE DEF N
  <2> QED BY <1>1, <1>2, NatSets
<1>4. \A i \in 1 .. m : \A p \in 1 .. hi[i] : Reached(p)
  <2>1. \A i \in 1 .. m : i \in Nat
    OBVIOUS
  <2> QED BY <1>3, <2>1
<1> QED BY <1>4 DEF Reached

From(o, i) == (i - 1) * TargetLimit(o)

\* The results are what a search reads page after page, of the records there
\* were when each page was read.
IsTrace(results, o, times, low, high) ==
    /\ times \in [1 .. Len(results) -> low .. high]
    /\ \A i \in 1 .. Len(results) :
          LET got == Fetched(o, times[i], From(o, i))
          IN  /\ results[i].rows = FirstRows(got, TargetLimit(o))
              /\ results[i].complete = (Len(got) <= TargetLimit(o))
    /\ \A i, j \in 1 .. Len(results) : i <= j => times[i] <= times[j]

Traced(results, o, low, high) ==
    (\A i \in 1 .. Len(results) : results[i].reason = "done")
        => \E times \in [1 .. Len(results) -> low .. high] :
              IsTrace(results, o, times, low, high)

\* A walk goes on from pages that are not the last.
GoesOn(results) == \A i \in 1 .. Len(results) : i < Len(results) => ~ results[i].complete

LEMMA PageStart ==
    ASSUME NEW o \in Ops, NEW i \in Nat \ {0}
    PROVE  From(o, i) \in Nat /\ From(o, i + 1) = From(o, i) + TargetLimit(o) /\ From(o, 1) = 0
<1> DEFINE T == TargetLimit(o)
           k == i - 1
<1>1. T \in Nat /\ k \in Nat
  BY LimitIs
<1>2. i + 1 - 1 = k + 1
  OBVIOUS
<1> HIDE DEF T, k
<1>3. k * T \in Nat /\ (k + 1) * T = k * T + T /\ (1 - 1) * T = 0
  BY <1>1
<1> QED BY <1>2, <1>3 DEF From, T, k

\* What page i of a trace shows: rows[j] is the j-th of what was fetched.
LEMMA PageShows ==
    ASSUME NEW o \in Ops, NEW low \in 0 .. MaxStored, NEW high \in 0 .. MaxStored,
           NEW results \in Seq(Result), NEW times, IsTrace(results, o, times, low, high),
           NEW i \in 1 .. Len(results)
    PROVE  LET got == Fetched(o, times[i], From(o, i))
           IN  /\ times[i] \in 0 .. MaxStored /\ low <= times[i] /\ times[i] <= high
               /\ From(o, i) \in Nat
               /\ got \in Seq(Rows)
               /\ DOMAIN results[i].rows = 1 .. Len(results[i].rows)
               /\ Len(results[i].rows) =
                     IF TargetLimit(o) <= Len(got) THEN TargetLimit(o) ELSE Len(got)
               /\ \A j \in 1 .. Len(results[i].rows) : results[i].rows[j] = got[j]
               /\ results[i].complete = (Len(got) <= TargetLimit(o))
<1> DEFINE got == Fetched(o, times[i], From(o, i))
<1>1. times[i] \in low .. high /\ MaxStored \in Nat
  BY SearchAssumption DEF IsTrace
<1>2. times[i] \in 0 .. MaxStored /\ low <= times[i] /\ times[i] <= high
  BY <1>1
<1>3. From(o, i) \in Nat
  BY PageStart
<1>4. got \in Seq(Rows)
  BY <1>2, <1>3, FetchedIs
<1>5. /\ results[i].rows = FirstRows(got, TargetLimit(o))
      /\ results[i].complete = (Len(got) <= TargetLimit(o))
  BY DEF IsTrace
<1>6. TargetLimit(o) \in Nat
  BY LimitIs
<1> HIDE DEF got
<1>7. /\ FirstRows(got, TargetLimit(o)) \in Seq(Rows)
      /\ Len(FirstRows(got, TargetLimit(o))) =
            IF TargetLimit(o) <= Len(got) THEN TargetLimit(o) ELSE Len(got)
      /\ \A j \in 1 .. Len(FirstRows(got, TargetLimit(o))) :
            FirstRows(got, TargetLimit(o))[j] = got[j]
  BY <1>4, <1>6, FirstRowsIs
<1>8. DOMAIN FirstRows(got, TargetLimit(o)) = 1 .. Len(FirstRows(got, TargetLimit(o)))
  BY <1>7
<1> QED BY <1>2, <1>3, <1>4, <1>5, <1>7, <1>8 DEF got

ReadOf(results) == UNION {Range(results[i].rows) : i \in 1 .. Len(results)}

LEMMA IsRead ==
    ASSUME NEW results \in Seq(Result), NEW r
    PROVE  r \in ReadOf(results) <=>
              \E i \in 1 .. Len(results) : \E j \in DOMAIN results[i].rows : results[i].rows[j] = r
<1>1. \A i \in 1 .. Len(results) :
         Range(results[i].rows) = {results[i].rows[j] : j \in DOMAIN results[i].rows}
  BY DEF Range
<1> QED BY <1>1 DEF ReadOf

\* How many of d rows come before those a page keeps: turned around, it is
\* cut where it should begin.
Behind(from, d) ==
    IF from > 0 /\ Limit + 1 <= d THEN Skipped(from, d) + 1 ELSE Skipped(from, d)

LEMMA BehindIs ==
    ASSUME NEW from \in Nat, NEW n \in Nat
    PROVE  /\ Behind(from, n) \in Nat /\ (from = 0 => Behind(from, n) = 0)
           /\ Limit <= n => Behind(from, n) + Limit <= n
           /\ n <= Limit => Behind(from, n) = 0
  BY SearchAssumption DEF Skipped, Behind

\* A later page begins, from the end, no lower than the one before it ends,
\* but for the row behind the first page.
BehindFirst(from) == IF from = 0 THEN 1 ELSE 0

LEMMA BehindLater ==
    ASSUME NEW from \in Nat, NEW m \in Nat, NEW n \in Nat, Limit + 1 <= m, m <= n
    PROVE  m - Behind(from, m) - Limit - BehindFirst(from) <= n - Behind(from + Limit, n)
<1>1. Limit \in Nat \ {0}
  BY SearchAssumption
<1>2. CASE from = 0
  BY <1>1, <1>2 DEF Skipped, Behind, BehindFirst
<1>3. CASE from > 0
  BY <1>1, <1>3 DEF Skipped, Behind, BehindFirst
<1> QED BY <1>2, <1>3

\* The rows a page keeps, wherever it begins and whichever way it runs, are
\* those after the ones it leaves behind.
Kept(rows, all, from, d) ==
    LET size == IF Limit <= d THEN Limit ELSE d
        n    == IF Limit + 1 <= d THEN Limit + 1 ELSE d
    IN  /\ DOMAIN rows = 1 .. size
        /\ \A j \in 1 .. size : rows[j] = all[Skipped(from, d) + Turned(from, n, j)]

LEMMA KeptIs ==
    ASSUME NEW from \in Nat, NEW d \in Nat, NEW all, NEW rows, Kept(rows, all, from, d)
    PROVE  Range(rows)
             = {all[p] : p \in Behind(from, d) + 1
                               .. Behind(from, d) + (IF Limit <= d THEN Limit ELSE d)}
<1> DEFINE size == IF Limit <= d THEN Limit ELSE d
           n == IF Limit + 1 <= d THEN Limit + 1 ELSE d
           k == Skipped(from, d)
           b == Behind(from, d)
<1>0. /\ DOMAIN rows = 1 .. size
      /\ \A j \in 1 .. size : rows[j] = all[Skipped(from, d) + Turned(from, n, j)]
  BY DEF Kept
<1>1. Limit \in Nat \ {0} /\ size \in Nat /\ n \in Nat /\ k \in Nat /\ b \in Nat
  BY SearchAssumption DEF Skipped, Behind
<1>2. b = IF from > 0 THEN k + n - size ELSE k
  BY SearchAssumption DEF Skipped, Behind
<1>3. Range(rows) = {rows[j] : j \in 1 .. size}
  BY <1>0 DEF Range
<1>6. \A j \in 1 .. size : rows[j] = all[k + Turned(from, n, j)]
  BY <1>0
<1>8. size <= n
  BY <1>1
<1> HIDE DEF k, b, size, n
<1>4. ASSUME NEW j \in 1 .. size
      PROVE  k + Turned(from, n, j) \in b + 1 .. b + size
  <2>1. CASE from = 0
    BY <1>1, <1>2, <2>1 DEF Turned
  <2>2. CASE from > 0
    BY <1>1, <1>2, <2>2 DEF Turned
  <2> QED BY <2>1, <2>2
<1>5. ASSUME NEW p \in b + 1 .. b + size
      PROVE  \E j \in 1 .. size : k + Turned(from, n, j) = p
  <2>1. CASE from = 0
    <3>1. p - k \in 1 .. size /\ k + Turned(from, n, p - k) = p
      BY <1>1, <1>2, <2>1 DEF Turned
    <3> QED BY <3>1
  <2>2. CASE from > 0
    <3>1. k + n + 1 - p \in 1 .. size /\ k + Turned(from, n, k + n + 1 - p) = p
      BY <1>1, <1>2, <2>2 DEF Turned
    <3> QED BY <3>1
  <2> QED BY <2>1, <2>2
<1>7. {rows[j] : j \in 1 .. size} = {all[p] : p \in b + 1 .. b + size}
  BY <1>4, <1>5, <1>6
<1> QED BY <1>3, <1>7 DEF b, size

\* The newest first, each page down to its end: nothing is left out of what
\* there was at the start.
Falling(m, low, top, size) ==
    /\ top \in [1 .. m -> Nat] /\ size \in [1 .. m -> Nat]
    /\ m > 0 => low <= top[1]
    /\ \A i \in 1 .. m : i < m => top[i] - size[i] <= top[i + 1]

LEMMA FallingJoin ==
    ASSUME NEW m \in Nat, NEW low \in Nat, NEW top, NEW size, Falling(m, low, top, size),
           NEW i \in 1 .. m, NEW r \in top[i] - size[i] + 1 .. top[i], NEW s \in r .. low
    PROVE  \E k \in 1 .. m : s \in top[k] - size[k] + 1 .. top[k]
<1> DEFINE lo == [k \in 1 .. m |-> low + 1 - top[k]]
           hi == [k \in 1 .. m |-> low - top[k] + size[k]]
<1>0. \A k \in 1 .. m : top[k] \in Nat /\ size[k] \in Nat
  BY DEF Falling
<1>1. \A k \in 1 .. m : lo[k] = low + 1 - top[k] /\ hi[k] = low - top[k] + size[k]
  OBVIOUS
<1>2. lo \in [1 .. m -> Int] /\ hi \in [1 .. m -> Int]
  <2>1. \A k \in 1 .. m : low + 1 - top[k] \in Int
    BY <1>0
  <2>2. \A k \in 1 .. m : low - top[k] + size[k] \in Int
    BY <1>0
  <2> QED BY <2>1, <2>2
<1> HIDE DEF lo, hi
<1>8. \A k \in 1 .. m : lo[k] \in Int /\ hi[k] \in Int
  BY <1>2
<1>3. m > 0 => lo[1] <= 1
  <2> SUFFICES ASSUME m > 0 PROVE lo[1] <= 1
    OBVIOUS
  <2>1. 1 \in 1 .. m
    OBVIOUS
  <2>2. top[1] \in Nat /\ lo[1] = low + 1 - top[1] /\ low <= top[1]
    BY <1>0, <1>1, <2>1 DEF Falling
  <2> QED BY <2>2
<1>4. ASSUME NEW k \in 1 .. m, k < m PROVE lo[k + 1] <= hi[k] + 1
  <2>1. k + 1 \in 1 .. m
    BY <1>4
  <2>2. top[k] - size[k] <= top[k + 1]
    BY <1>4 DEF Falling
  <2>3. top[k] \in Nat /\ size[k] \in Nat /\ top[k + 1] \in Nat
    BY <1>0, <2>1
  <2>4. lo[k + 1] = low + 1 - top[k + 1] /\ hi[k] = low - top[k] + size[k]
    BY <1>1, <2>1
  <2>5. lo[k + 1] \in Int /\ hi[k] \in Int
    BY <1>8, <2>1
  <2> QED BY <2>2, <2>3, <2>4, <2>5
<1>5. low + 1 - s \in 1 .. hi[i] /\ s \in Int
  <2>1. top[i] \in Nat /\ size[i] \in Nat /\ hi[i] = low - top[i] + size[i]
    BY <1>0, <1>1
  <2>2. hi[i] \in Int
    BY <1>8
  <2> QED BY <2>1, <2>2
<1>9. \A j \in 1 .. m : \A p \in 1 .. hi[j] : \E k \in 1 .. m : p \in lo[k] .. hi[k]
  <2>1. \A k \in 1 .. m : k < m => lo[k + 1] <= hi[k] + 1
    BY <1>4
  <2> QED BY <1>2, <1>3, <2>1, Covered
<1>6. PICK k \in 1 .. m : low + 1 - s \in lo[k] .. hi[k]
  BY <1>5, <1>9
<1>7. s \in top[k] - size[k] + 1 .. top[k]
  <2>1. /\ top[k] \in Nat /\ size[k] \in Nat
        /\ lo[k] = low + 1 - top[k] /\ hi[k] = low - top[k] + size[k]
    BY <1>0, <1>1
  <2>2. lo[k] \in Int /\ hi[k] \in Int
    BY <1>8
  <2> QED BY <1>5, <1>6, <2>1, <2>2
<1> QED BY <1>7

\* The records of a page, without those it leaves behind.
Top(o, times, i)  == times[i] - Behind(From(o, i), times[i])
Size(times, i)    == IF Limit <= times[i] THEN Limit ELSE times[i]

LEMMA RecordsShown ==
    ASSUME NEW o \in Ops, Form[o] \in {"records", "evidence"},
           NEW low \in 0 .. MaxStored, NEW high \in 0 .. MaxStored,
           NEW results \in Seq(Result), NEW times, IsTrace(results, o, times, low, high),
           NEW i \in 1 .. Len(results)
    PROVE  /\ Top(o, times, i) \in Nat /\ Size(times, i) \in Nat
           /\ Range(results[i].rows) = Top(o, times, i) - Size(times, i) + 1 .. Top(o, times, i)
           /\ results[i].complete = (times[i] <= Limit)
<1> DEFINE got  == Fetched(o, times[i], From(o, i))
           n    == times[i]
           skip == Behind(From(o, i), n)
           size == IF Limit <= n THEN Limit ELSE n
           rows == results[i].rows
<1>1. TargetLimit(o) = Limit /\ Limit \in Nat \ {0}
  BY LimitIs
<1>2. /\ n \in 0 .. MaxStored /\ From(o, i) \in Nat
      /\ DOMAIN rows = 1 .. Len(rows)
      /\ Len(rows) = IF Limit <= Len(got) THEN Limit ELSE Len(got)
      /\ \A j \in 1 .. Len(rows) : rows[j] = got[j]
      /\ results[i].complete = (Len(got) <= Limit)
  <2>1. /\ n \in 0 .. MaxStored /\ From(o, i) \in Nat
        /\ DOMAIN rows = 1 .. Len(rows)
        /\ Len(rows) = IF TargetLimit(o) <= Len(got) THEN TargetLimit(o) ELSE Len(got)
        /\ \A j \in 1 .. Len(rows) : rows[j] = got[j]
        /\ results[i].complete = (Len(got) <= TargetLimit(o))
    BY PageShows
  <2> HIDE DEF n, got, rows
  <2> QED BY <1>1, <2>1
<1>3. /\ Len(got) = IF Limit + 1 <= n THEN Limit + 1 ELSE n
      /\ \A j \in 1 .. Len(got) :
            got[j] = n + 1 - (Skipped(From(o, i), n) + Turned(From(o, i), Len(got), j))
  <2>1. n \in 0 .. MaxStored /\ From(o, i) \in Nat
    BY <1>2
  <2> QED BY <2>1, PagedIs, Zenon
<1> HIDE DEF n
<1>4. n \in Nat
  BY <1>2, SearchAssumption
<1>5. skip \in Nat /\ skip + size <= n /\ size \in Nat
  <2>1. /\ skip \in Nat /\ (Limit <= n => skip + Limit <= n)
        /\ (n <= Limit => skip = 0)
    BY <1>2, <1>4, BehindIs
  <2> HIDE DEF skip
  <2> QED BY <1>1, <1>4, <2>1
<1> HIDE DEF got, rows
<1>6. Len(rows) = size /\ size <= Len(got) /\ Len(got) \in Nat
  <2>1. Len(got) = IF Limit + 1 <= n THEN Limit + 1 ELSE n
    BY <1>3
  <2>2. Len(rows) = IF Limit <= Len(got) THEN Limit ELSE Len(got)
    BY <1>2
  <2>3. Len(got) \in Nat
    BY <1>1, <1>4, <2>1
  <2>4. Len(rows) = size
    BY <1>1, <1>4, <2>1, <2>2
  <2>5. size <= Len(got)
    BY <1>1, <1>4, <2>1
  <2> QED BY <2>3, <2>4, <2>5
<1>7. results[i].complete = (n <= Limit)
  <2>1. Len(got) <= Limit <=> n <= Limit
    BY <1>1, <1>3, <1>4
  <2> QED BY <1>2, <2>1
<1> DEFINE all == [p \in Int |-> n + 1 - p]
<1>8. Range(rows) = {all[p] : p \in skip + 1 .. skip + size}
  <2> DEFINE at(j) == Skipped(From(o, i), n) + Turned(From(o, i), Len(got), j)
  <2>1. \A j \in 1 .. size : at(j) \in Int
    BY <1>1, <1>2, <1>4, <1>5, <1>6 DEF Skipped, Turned
  <2>2. \A j \in 1 .. size : rows[j] = all[at(j)]
    <3> HIDE DEF size
    <3>1. \A j \in 1 .. size : j \in 1 .. Len(rows) /\ j \in 1 .. Len(got)
      BY <1>5, <1>6
    <3>2. \A j \in 1 .. size : rows[j] = n + 1 - at(j)
      BY <1>2, <1>3, <3>1
    <3> HIDE DEF at
    <3> QED BY <2>1, <3>2
  <2>3. DOMAIN rows = 1 .. size
    BY <1>2, <1>6
  <2>4. size = (IF Limit <= n THEN Limit ELSE n) /\ skip = Behind(From(o, i), n)
    OBVIOUS
  <2>5. Len(got) = (IF Limit + 1 <= n THEN Limit + 1 ELSE n) /\ From(o, i) \in Nat
    BY <1>2, <1>3
  <2>6. \A j \in 1 .. size :
           rows[j] = all[Skipped(From(o, i), n) + Turned(From(o, i), Len(got), j)]
    BY <2>2
  <2> HIDE DEF all, size, skip, at
  <2>7. Kept(rows, all, From(o, i), n)
    BY <2>3, <2>4, <2>5, <2>6 DEF Kept
  <2>8. Range(rows)
          = {all[p] : p \in Behind(From(o, i), n) + 1
                            .. Behind(From(o, i), n) + (IF Limit <= n THEN Limit ELSE n)}
    BY <1>4, <2>5, <2>7, KeptIs
  <2> QED BY <2>4, <2>8
<1> HIDE DEF size, skip
<1>9. Range(rows) = n - skip - size + 1 .. n - skip
  <2>1. \A p \in skip + 1 .. skip + size : all[p] = n + 1 - p
    BY <1>4, <1>5
  <2>2. \A p \in skip + 1 .. skip + size : n + 1 - p \in n - skip - size + 1 .. n - skip
    BY <1>4, <1>5
  <2>3. \A r \in n - skip - size + 1 .. n - skip :
          n + 1 - r \in skip + 1 .. skip + size /\ n + 1 - (n + 1 - r) = r
    BY <1>4, <1>5
  <2> HIDE DEF all
  <2>4. Range(rows) \subseteq n - skip - size + 1 .. n - skip
    BY <1>8, <2>1, <2>2
  <2>5. n - skip - size + 1 .. n - skip \subseteq Range(rows)
    BY <1>8, <2>1, <2>3
  <2> QED BY <2>4, <2>5
<1>10. n - skip \in Nat
  BY <1>4, <1>5
<1> QED BY <1>5, <1>7, <1>9, <1>10 DEF Top, Size, n, skip, size, rows

\* With the row behind the first page counted to it, when there is another.
Extended(m, i) == IF i = 1 /\ 1 < m THEN 1 ELSE 0

LEMMA ExtendedIs ==
    ASSUME NEW o \in Ops, Form[o] # "outbound", NEW m \in Nat, NEW i \in 1 .. m, i < m
    PROVE  BehindFirst(From(o, i)) = Extended(m, i) /\ Extended(m, i) \in Nat
<1>1. i \in Nat \ {0} /\ Limit \in Nat \ {0}
  BY SearchAssumption
<1>2. From(o, i) \in Nat /\ From(o, 1) = 0
  BY <1>1, PageStart
<1>3. i # 1 => From(o, i) > 0
  <2>1. SUFFICES ASSUME i # 1 PROVE From(o, i) > 0
    OBVIOUS
  <2>2. i - 1 \in Nat \ {0} /\ i - 1 + 1 = i
    BY <1>1, <2>1
  <2>3. From(o, i) = From(o, i - 1) + Limit /\ From(o, i - 1) \in Nat
    BY <2>2, PageStart, LimitIs
  <2> QED BY <1>1, <2>3
<1>4. CASE i = 1
  <2>1. From(o, i) = 0 /\ 1 < m
    BY <1>2, <1>4
  <2> QED BY <1>4, <2>1 DEF BehindFirst, Extended
<1>5. CASE i # 1
  <2>1. From(o, i) # 0
    BY <1>2, <1>3, <1>5
  <2> QED BY <1>5, <2>1 DEF BehindFirst, Extended
<1> QED BY <1>4, <1>5

LEMMA RecordsJoin ==
    ASSUME NEW o \in Ops, Form[o] \in {"records", "evidence"},
           NEW low \in 0 .. MaxStored, NEW high \in 0 .. MaxStored,
           NEW results \in Seq(Result), NEW times, IsTrace(results, o, times, low, high),
           GoesOn(results), NEW r \in ReadOf(results), NEW s \in r .. low,
           s \notin ReadOf(results)
    PROVE  s = Last(results[1].rows) - 1
<1> DEFINE m == Len(results)
           top == [i \in 1 .. m |-> Top(o, times, i)]
           size == [i \in 1 .. m |-> Size(times, i)]
           with == [i \in 1 .. m |-> size[i] + Extended(m, i)]
<1>1. m \in Nat /\ low \in Nat /\ Limit \in Nat \ {0}
  BY SearchAssumption
<1>2. \A i \in 1 .. m : /\ top[i] \in Nat /\ size[i] \in Nat
                        /\ Range(results[i].rows) = top[i] - size[i] + 1 .. top[i]
  BY RecordsShown
<1>3. \A i \in 1 .. m : From(o, i) \in Nat /\ times[i] \in Nat /\ low <= times[i]
  BY <1>1, PageShows
<1>0. \A i \in 1 .. m : with[i] \in Nat /\ size[i] <= with[i]
  <2> SUFFICES ASSUME NEW i \in 1 .. m PROVE with[i] \in Nat /\ size[i] <= with[i]
    OBVIOUS
  <2>1. with[i] = size[i] + Extended(m, i) /\ size[i] \in Nat
    BY <1>2
  <2> HIDE DEF with, size, m
  <2> QED BY <2>1 DEF Extended
<1>4. m > 0 => low <= top[1]
  <2> SUFFICES ASSUME m > 0 PROVE low <= top[1]
    OBVIOUS
  <2>1. 1 \in 1 .. m /\ From(o, 1) = 0
    BY <1>1, PageStart
  <2>2. Behind(From(o, 1), times[1]) = 0 /\ times[1] \in Nat /\ low <= times[1]
    BY <1>3, <2>1, BehindIs
  <2>3. top[1] = times[1] - Behind(From(o, 1), times[1])
    BY <2>1 DEF Top
  <2> QED BY <2>2, <2>3
<1>5. ASSUME NEW i \in 1 .. m, i < m PROVE top[i] - with[i] <= top[i + 1]
  <2>1. i + 1 \in 1 .. m /\ i \in Nat \ {0}
    BY <1>1, <1>5
  <2>2. From(o, i + 1) = From(o, i) + Limit
    BY <2>1, PageStart, LimitIs
  <2>3. times[i] <= times[i + 1]
    <3>1. i <= i + 1
      BY <2>1
    <3>2. \A k, l \in 1 .. m : k <= l => times[k] <= times[l]
      BY Zenon DEF IsTrace
    <3> QED BY <2>1, <3>1, <3>2, Zenon
  <2>4. ~ (times[i] <= Limit)
    <3>1. results[i].complete = (times[i] <= Limit)
      BY RecordsShown
    <3>2. ~ results[i].complete
      BY <1>5 DEF GoesOn
    <3> QED BY <3>1, <3>2, Zenon
  <2>5. times[i] \in Nat /\ times[i + 1] \in Nat /\ From(o, i) \in Nat
    BY <1>3, <2>1
  <2>6. times[i] - Behind(From(o, i), times[i]) - Limit - BehindFirst(From(o, i))
          <= times[i + 1] - Behind(From(o, i + 1), times[i + 1])
    BY <1>1, <2>2, <2>3, <2>4, <2>5, BehindLater
  <2>7. size[i] = Limit
    BY <1>1, <2>4, <2>5 DEF Size
  <2>8. BehindFirst(From(o, i)) = Extended(m, i)
    <3> HIDE DEF m
    <3> QED BY <1>1, <1>5, ExtendedIs
  <2>9. with[i] = Limit + BehindFirst(From(o, i))
    BY <2>7, <2>8
  <2>10. /\ top[i] = times[i] - Behind(From(o, i), times[i])
         /\ top[i + 1] = times[i + 1] - Behind(From(o, i + 1), times[i + 1])
    BY <2>1 DEF Top
  <2>11. BehindFirst(From(o, i)) \in Nat /\ top[i] \in Nat /\ top[i + 1] \in Nat
    BY <1>2, <2>1 DEF BehindFirst
  <2> HIDE DEF with, size, top, m
  <2> QED BY <1>1, <2>6, <2>9, <2>10, <2>11
<1>6. PICK i \in 1 .. m : r \in Range(results[i].rows)
  BY DEF ReadOf
<1>7. top \in [1 .. m -> Nat] /\ with \in [1 .. m -> Nat]
  BY <1>0, <1>2
<1>14. \A k \in 1 .. m : with[k] = size[k] + Extended(m, k)
  OBVIOUS
<1>15. \A k \in 1 .. m : s \notin Range(results[k].rows)
  BY DEF ReadOf
<1>16. size = [k \in 1 .. m |-> Size(times, k)] /\ m = Len(results)
  OBVIOUS
<1> HIDE DEF top, size, with, m
<1>8. r \in top[i] - with[i] + 1 .. top[i]
  <2>1. r \in top[i] - size[i] + 1 .. top[i]
    BY <1>2, <1>6
  <2>2. top[i] \in Nat /\ size[i] \in Nat /\ with[i] \in Nat /\ size[i] <= with[i]
    BY <1>0, <1>2
  <2> QED BY <2>1, <2>2
<1>9. PICK k \in 1 .. m : s \in top[k] - with[k] + 1 .. top[k]
  BY <1>1, <1>4, <1>5, <1>7, <1>8, FallingJoin DEF Falling
<1>10. s \notin top[k] - size[k] + 1 .. top[k]
  BY <1>2, <1>15
<1>11. k = 1 /\ 1 < m /\ s = top[k] - size[k]
  <2>1. top[k] \in Nat /\ size[k] \in Nat /\ with[k] = size[k] + Extended(m, k)
    BY <1>2, <1>14
  <2>2. CASE k = 1 /\ 1 < m
    <3>1. with[k] = size[k] + 1
      BY <2>1, <2>2 DEF Extended
    <3> QED BY <1>9, <1>10, <2>1, <2>2, <3>1
  <2>3. CASE ~ (k = 1 /\ 1 < m)
    <3>1. with[k] = size[k]
      BY <2>1, <2>3 DEF Extended
    <3> QED BY <1>9, <1>10, <3>1
  <2> QED BY <2>2, <2>3
<1>12. Last(results[1].rows) = top[1] - size[1] + 1
  <2>1. 1 \in 1 .. m /\ From(o, 1) = 0
    BY <1>11, PageStart
  <2> DEFINE n == times[1]
             got == Fetched(o, n, From(o, 1))
             rows == results[1].rows
  <2>2. /\ n \in 0 .. MaxStored /\ n \in Nat
        /\ DOMAIN rows = 1 .. Len(rows)
        /\ Len(rows) = IF Limit <= Len(got) THEN Limit ELSE Len(got)
        /\ \A j \in 1 .. Len(rows) : rows[j] = got[j]
    <3>1. TargetLimit(o) = Limit
      BY LimitIs
    <3>2. /\ n \in 0 .. MaxStored
          /\ DOMAIN rows = 1 .. Len(rows)
          /\ Len(rows) = IF TargetLimit(o) <= Len(got) THEN TargetLimit(o) ELSE Len(got)
          /\ \A j \in 1 .. Len(rows) : rows[j] = got[j]
      <4>1. 1 \in 1 .. Len(results)
        BY <1>16, <2>1
      <4> QED BY <4>1, PageShows
    <3>3. n \in Nat
      BY <1>3, <2>1
    <3> HIDE DEF n, got, rows
    <3> QED BY <3>1, <3>2, <3>3
  <2>3. /\ Len(got) = IF Limit + 1 <= n THEN Limit + 1 ELSE n
        /\ \A j \in 1 .. Len(got) : got[j] = n + 1 - (Skipped(0, n) + Turned(0, Len(got), j))
    <3>1. From(o, 1) \in Nat
      BY <2>1
    <3>2. /\ Len(got) = IF Limit + 1 <= n THEN Limit + 1 ELSE n
          /\ \A j \in 1 .. Len(got) :
                got[j] = n + 1 - (Skipped(From(o, 1), n) + Turned(From(o, 1), Len(got), j))
      BY <2>2, <3>1, PagedIs, Zenon
    <3> HIDE DEF n, got
    <3> QED BY <2>1, <3>2
  <2>4. Limit < n
    <3>1. ~ results[1].complete
      BY <1>11, <1>16, <2>1 DEF GoesOn
    <3>2. results[1].complete = (n <= Limit)
      BY <1>16, <2>1, RecordsShown
    <3>3. ~ (n <= Limit)
      BY <3>1, <3>2, Zenon
    <3> HIDE DEF n
    <3> QED BY <1>1, <2>2, <3>3
  <2>5. Skipped(0, n) = 0
    BY <1>1, <2>2, <2>4 DEF Skipped
  <2>6. top[1] = n /\ size[1] = Limit
    <3>1. Behind(0, n) = 0
      BY <2>2, BehindIs
    <3>2. top[1] = n - Behind(0, n)
      BY <2>1 DEF top, Top
    <3>3. size[1] = Limit
      BY <1>1, <1>16, <2>1, <2>2, <2>4 DEF Size
    <3> HIDE DEF n
    <3> QED BY <2>2, <3>1, <3>2, <3>3
  <2> HIDE DEF n, got, rows
  <2>7. Len(rows) = Limit /\ Limit \in 1 .. Len(got) /\ Limit \in 1 .. Len(rows)
    BY <1>1, <2>2, <2>3, <2>4
  <2>8. rows[Limit] = n + 1 - Limit
    BY <1>1, <2>2, <2>3, <2>5, <2>7 DEF Turned
  <2>9. Last(rows) = rows[Limit]
    BY <2>7 DEF Last
  <2> QED BY <1>1, <2>2, <2>6, <2>8, <2>9 DEF rows
<1>13. top[1] \in Nat /\ size[1] \in Nat
  BY <1>2, <1>11
<1> QED BY <1>11, <1>12, <1>13

\* A page of an SQL query.
SqlSize(o, times, i) ==
    IF From(o, i) + Limit <= times[i] THEN Limit
    ELSE IF From(o, i) <= times[i] THEN times[i] - From(o, i) ELSE 0

LEMMA SqlShown ==
    ASSUME NEW o \in Ops, Form[o] = "sql",
           NEW low \in 0 .. MaxStored, NEW high \in 0 .. MaxStored,
           NEW results \in Seq(Result), NEW times, IsTrace(results, o, times, low, high),
           NEW i \in 1 .. Len(results)
    PROVE  /\ SqlSize(o, times, i) \in Nat
           /\ Range(results[i].rows) = From(o, i) + 1 .. From(o, i) + SqlSize(o, times, i)
           /\ results[i].complete = ~ (From(o, i) + Limit + 1 <= times[i])
<1> DEFINE got  == Fetched(o, times[i], From(o, i))
           n    == times[i]
           from == From(o, i)
           size == SqlSize(o, times, i)
           rows == results[i].rows
<1>1. TargetLimit(o) = Limit /\ Limit \in Nat \ {0}
  BY LimitIs
<1>2. /\ n \in 0 .. MaxStored /\ from \in Nat
      /\ DOMAIN rows = 1 .. Len(rows)
      /\ Len(rows) = IF Limit <= Len(got) THEN Limit ELSE Len(got)
      /\ \A j \in 1 .. Len(rows) : rows[j] = got[j]
      /\ results[i].complete = (Len(got) <= Limit)
  <2>1. /\ n \in 0 .. MaxStored /\ From(o, i) \in Nat
        /\ DOMAIN rows = 1 .. Len(rows)
        /\ Len(rows) = IF TargetLimit(o) <= Len(got) THEN TargetLimit(o) ELSE Len(got)
        /\ \A j \in 1 .. Len(rows) : rows[j] = got[j]
        /\ results[i].complete = (Len(got) <= TargetLimit(o))
    BY PageShows
  <2> HIDE DEF n, got, rows
  <2> QED BY <1>1, <2>1
<1>3. /\ Len(got) = IF from + Limit + 1 <= n THEN Limit + 1
                    ELSE IF from <= n THEN n - from ELSE 0
      /\ \A j \in 1 .. Len(got) : got[j] = from + j
  <2>1. n \in 0 .. MaxStored /\ From(o, i) \in Nat
    BY <1>2
  <2> QED BY <2>1, SqlIs
<1>4. size = IF from + Limit <= n THEN Limit ELSE IF from <= n THEN n - from ELSE 0
  BY DEF SqlSize
<1> HIDE DEF n, from, size, rows, got
<1>5. n \in Nat /\ from \in Nat /\ Limit \in Nat
  BY <1>1, <1>2, SearchAssumption
<1>6. size \in Nat
  BY <1>4, <1>5
<1>7. Len(got) \in Nat /\ size <= Len(got)
  <2>1. Len(got) = IF from + Limit + 1 <= n THEN Limit + 1
                   ELSE IF from <= n THEN n - from ELSE 0
    BY <1>3
  <2> QED BY <1>4, <1>5, <2>1
<1>8. Len(rows) = size
  <2>1. Len(got) = IF from + Limit + 1 <= n THEN Limit + 1
                   ELSE IF from <= n THEN n - from ELSE 0
    BY <1>3
  <2>2. Len(rows) = IF Limit <= Len(got) THEN Limit ELSE Len(got)
    BY <1>2
  <2> QED BY <1>4, <1>5, <2>1, <2>2
<1>9. results[i].complete = ~ (from + Limit + 1 <= n)
  <2>1. Len(got) = IF from + Limit + 1 <= n THEN Limit + 1
                   ELSE IF from <= n THEN n - from ELSE 0
    BY <1>3
  <2>2. (Len(got) <= Limit) <=> ~ (from + Limit + 1 <= n)
    BY <1>5, <2>1
  <2> QED BY <1>2, <2>2
<1>10. \A j \in 1 .. size : rows[j] = from + j
  <2>1. \A j \in 1 .. size : j \in 1 .. Len(rows) /\ j \in 1 .. Len(got)
    BY <1>6, <1>7, <1>8
  <2> QED BY <1>2, <1>3, <2>1
<1>11. Range(rows) = from + 1 .. from + size
  <2>1. Range(rows) = {rows[j] : j \in 1 .. size}
    BY <1>2, <1>8 DEF Range
  <2>2. \A j \in 1 .. size : from + j \in from + 1 .. from + size
    BY <1>5, <1>6
  <2>3. \A r \in from + 1 .. from + size : r - from \in 1 .. size /\ from + (r - from) = r
    BY <1>5, <1>6
  <2>4. Range(rows) \subseteq from + 1 .. from + size
    BY <1>10, <2>1, <2>2
  <2>5. from + 1 .. from + size \subseteq Range(rows)
    BY <1>10, <2>1, <2>3
  <2> QED BY <2>4, <2>5
<1> QED BY <1>6, <1>9, <1>11 DEF n, from, size, rows

\* The rows of an SQL query are read without a gap, and all of them by the
\* time a page is complete.
LEMMA SqlJoin ==
    ASSUME NEW o \in Ops, Form[o] = "sql",
           NEW low \in 0 .. MaxStored, NEW high \in 0 .. MaxStored,
           NEW results \in Seq(Result), NEW times, IsTrace(results, o, times, low, high),
           GoesOn(results)
    PROVE  /\ \A r \in ReadOf(results) : 1 .. r \subseteq ReadOf(results)
           /\ results # << >> /\ results[Len(results)].complete
                 => 1 .. low \subseteq ReadOf(results)
<1> DEFINE m == Len(results)
           lo == [i \in 1 .. m |-> From(o, i) + 1]
           hi == [i \in 1 .. m |-> From(o, i) + SqlSize(o, times, i)]
<1>1. m \in Nat /\ low \in Nat /\ Limit \in Nat \ {0}
  BY SearchAssumption
<1>2. \A i \in 1 .. m : /\ SqlSize(o, times, i) \in Nat
                        /\ Range(results[i].rows)
                              = From(o, i) + 1 .. From(o, i) + SqlSize(o, times, i)
                        /\ results[i].complete = ~ (From(o, i) + Limit + 1 <= times[i])
  BY SqlShown
<1>3. \A i \in 1 .. m : From(o, i) \in Nat /\ times[i] \in Nat /\ low <= times[i]
  BY <1>1, PageShows
<1>4. \A i \in 1 .. m : /\ lo[i] \in Int /\ hi[i] \in Int
                        /\ Range(results[i].rows) = lo[i] .. hi[i]
  BY <1>2, <1>3
<1>5. lo \in [1 .. m -> Int] /\ hi \in [1 .. m -> Int]
  BY <1>4
<1>6. m > 0 => lo[1] <= 1
  <2> SUFFICES ASSUME m > 0 PROVE lo[1] <= 1
    OBVIOUS
  <2>1. 1 \in 1 .. m /\ From(o, 1) = 0
    BY <1>1, PageStart
  <2> QED BY <2>1
<1>7. ASSUME NEW i \in 1 .. m, i < m
      PROVE  /\ i + 1 \in 1 .. m /\ From(o, i + 1) = From(o, i) + Limit
             /\ From(o, i) + Limit + 1 <= times[i] /\ times[i] <= times[i + 1]
  <2>1. i + 1 \in 1 .. m /\ i \in Nat \ {0} /\ i <= i + 1
    BY <1>1, <1>7
  <2>2. From(o, i + 1) = From(o, i) + Limit
    BY <2>1, PageStart, LimitIs
  <2>3. times[i] <= times[i + 1]
    <3>1. \A k, l \in 1 .. m : k <= l => times[k] <= times[l]
      BY Zenon DEF IsTrace
    <3> QED BY <2>1, <3>1, Zenon
  <2>4. From(o, i) + Limit + 1 <= times[i]
    <3>1. ~ results[i].complete
      BY <1>7 DEF GoesOn
    <3> QED BY <1>2, <3>1, Zenon
  <2> QED BY <2>1, <2>2, <2>3, <2>4
<1>8. ASSUME NEW i \in 1 .. m, i < m PROVE lo[i + 1] <= hi[i] + 1
  <2>1. /\ i + 1 \in 1 .. m /\ From(o, i + 1) = From(o, i) + Limit
        /\ From(o, i) + Limit + 1 <= times[i]
    BY <1>7, <1>8
  <2>2. From(o, i) \in Nat /\ times[i] \in Nat
    BY <1>3
  <2>3. SqlSize(o, times, i) = Limit
    BY <1>1, <2>1, <2>2 DEF SqlSize
  <2>4. lo[i + 1] = From(o, i) + Limit + 1 /\ hi[i] = From(o, i) + Limit
    BY <2>1, <2>3
  <2> QED BY <1>1, <2>2, <2>4
<1> DEFINE Shown == \A j \in 1 .. m : \A p \in 1 .. hi[j] : \E k \in 1 .. m : p \in lo[k] .. hi[k]
<1>9. Shown
  <2> HIDE DEF lo, hi
  <2>1. \A k \in 1 .. m : k < m => lo[k + 1] <= hi[k] + 1
    BY <1>8
  <2> QED BY <1>1, <1>5, <1>6, <2>1, Covered
<1> HIDE DEF Shown
<1>10. ASSUME NEW j \in 1 .. m, NEW p \in 1 .. hi[j] PROVE p \in ReadOf(results)
  <2> HIDE DEF lo, hi
  <2>1. PICK k \in 1 .. m : p \in lo[k] .. hi[k]
    BY <1>9 DEF Shown
  <2>2. p \in Range(results[k].rows)
    BY <1>4, <2>1
  <2> QED BY <2>2 DEF ReadOf
<1>11. ASSUME NEW r \in ReadOf(results), NEW s \in 1 .. r PROVE s \in ReadOf(results)
  <2> HIDE DEF lo, hi
  <2>1. PICK i \in 1 .. m : r \in Range(results[i].rows)
    BY DEF ReadOf
  <2>2. r \in lo[i] .. hi[i] /\ lo[i] \in Int /\ hi[i] \in Int
    BY <1>4, <2>1
  <2>3. s \in 1 .. hi[i]
    BY <2>2
  <2> QED BY <1>10, <2>3
<1>12. ASSUME results # << >>, results[m].complete, NEW s \in 1 .. low PROVE s \in ReadOf(results)
  <2>1. m \in 1 .. m /\ m > 0
    BY <1>12
  <2>2. From(o, m) \in Nat /\ times[m] \in Nat /\ low <= times[m]
    BY <1>3, <2>1
  <2>3. ~ (From(o, m) + Limit + 1 <= times[m])
    BY <1>2, <1>12, <2>1, Zenon
  <2>4. From(o, m) <= times[m]
    <3> HIDE DEF m, lo, hi
    <3>1. CASE m = 1
      <4>1. From(o, 1) = 0
        BY PageStart
      <4> QED BY <2>2, <3>1, <4>1
    <3>2. CASE m # 1
      <4>1. m - 1 \in 1 .. m /\ m - 1 < m /\ m - 1 + 1 = m
        BY <1>1, <2>1, <3>2
      <4>2. /\ From(o, m) = From(o, m - 1) + Limit
            /\ From(o, m - 1) + Limit + 1 <= times[m - 1] /\ times[m - 1] <= times[m]
        BY <1>7, <4>1
      <4>3. From(o, m - 1) \in Nat /\ times[m - 1] \in Nat
        BY <1>3, <4>1
      <4> QED BY <1>1, <2>2, <4>2, <4>3
    <3> QED BY <3>1, <3>2
  <2>5. hi[m] = times[m]
    <3>1. From(o, m) + SqlSize(o, times, m) = times[m]
      BY <1>1, <2>2, <2>3, <2>4 DEF SqlSize
    <3> QED BY <2>1, <3>1
  <2>6. s \in 1 .. hi[m]
    BY <1>1, <2>2, <2>5
  <2> QED BY <1>10, <2>1, <2>6
<1> QED BY <1>11, <1>12

\* A page of candidates, the i-th of a search, of n records.
CandidatePage(o, page, n, i) ==
    LET all  == Candidates(n)
        d    == Len(all)
        skip == Behind(From(o, i), d)
        size == IF Limit <= d THEN Limit ELSE d
    IN  /\ d \in Nat /\ skip \in Nat /\ skip + size <= d
        /\ Range(page.rows) = {all[p] : p \in skip + 1 .. skip + size}
        /\ page.complete = (d <= Limit)

LEMMA CandidatesShown ==
    ASSUME NEW o \in Ops, Form[o] = "candidates",
           NEW low \in 0 .. MaxStored, NEW high \in 0 .. MaxStored,
           NEW results \in Seq(Result), NEW times, IsTrace(results, o, times, low, high),
           NEW i \in 1 .. Len(results)
    PROVE  CandidatePage(o, results[i], times[i], i)
<1> DEFINE n    == times[i]
           all  == Candidates(n)
           d    == Len(all)
           skip == Behind(From(o, i), d)
           size == IF Limit <= d THEN Limit ELSE d
           got  == Fetched(o, times[i], From(o, i))
           rows == results[i].rows
<1>1. TargetLimit(o) = Limit /\ Limit \in Nat \ {0}
  BY LimitIs
<1>2. /\ n \in 0 .. MaxStored /\ From(o, i) \in Nat
      /\ DOMAIN rows = 1 .. Len(rows)
      /\ Len(rows) = IF Limit <= Len(got) THEN Limit ELSE Len(got)
      /\ \A j \in 1 .. Len(rows) : rows[j] = got[j]
      /\ results[i].complete = (Len(got) <= Limit)
  <2>1. /\ n \in 0 .. MaxStored /\ From(o, i) \in Nat
        /\ DOMAIN rows = 1 .. Len(rows)
        /\ Len(rows) = IF TargetLimit(o) <= Len(got) THEN TargetLimit(o) ELSE Len(got)
        /\ \A j \in 1 .. Len(rows) : rows[j] = got[j]
        /\ results[i].complete = (Len(got) <= TargetLimit(o))
    BY PageShows
  <2> HIDE DEF n, got, rows
  <2> QED BY <1>1, <2>1
<1>3. /\ Len(got) = IF Limit + 1 <= d THEN Limit + 1 ELSE d
      /\ \A j \in 1 .. Len(got) :
            got[j] = all[Skipped(From(o, i), d) + Turned(From(o, i), Len(got), j)]
  <2>1. n \in 0 .. MaxStored /\ From(o, i) \in Nat
    BY <1>2
  <2> QED BY <2>1, CandidateIs
<1>4. d \in Nat
  BY <1>2, CandidatesAre
<1>5. skip \in Nat /\ skip + size <= d /\ size \in Nat
  <2>1. /\ skip \in Nat /\ (Limit <= d => skip + Limit <= d)
        /\ (d <= Limit => skip = 0)
    BY <1>2, <1>4, BehindIs
  <2> HIDE DEF skip, d
  <2> QED BY <1>1, <1>4, <2>1
<1> HIDE DEF n, got, rows, all, d, skip
<1>6. Len(rows) = size /\ size <= Len(got) /\ Len(got) \in Nat
  <2>1. Len(got) = IF Limit + 1 <= d THEN Limit + 1 ELSE d
    BY <1>3
  <2>2. Len(rows) = IF Limit <= Len(got) THEN Limit ELSE Len(got)
    BY <1>2
  <2>3. Len(got) \in Nat
    BY <1>1, <1>4, <2>1
  <2>4. Len(rows) = size
    BY <1>1, <1>4, <2>1, <2>2
  <2>5. size <= Len(got)
    BY <1>1, <1>4, <2>1
  <2> QED BY <2>3, <2>4, <2>5
<1>7. results[i].complete = (d <= Limit)
  <2>1. Len(got) <= Limit <=> d <= Limit
    BY <1>1, <1>3, <1>4
  <2> QED BY <1>2, <2>1
<1>9. Range(rows) = {all[p] : p \in skip + 1 .. skip + size}
  <2>1. \A j \in 1 .. size :
           rows[j] = all[Skipped(From(o, i), d) + Turned(From(o, i), Len(got), j)]
    <3> HIDE DEF size
    <3>1. \A j \in 1 .. size : j \in 1 .. Len(rows) /\ j \in 1 .. Len(got)
      BY <1>5, <1>6
    <3> QED BY <1>2, <1>3, <3>1
  <2>2. DOMAIN rows = 1 .. size
    BY <1>2, <1>6
  <2>3. size = (IF Limit <= d THEN Limit ELSE d) /\ skip = Behind(From(o, i), d)
    BY DEF skip
  <2>4. Len(got) = (IF Limit + 1 <= d THEN Limit + 1 ELSE d) /\ From(o, i) \in Nat
    BY <1>2, <1>3
  <2> HIDE DEF size
  <2>5. Kept(rows, all, From(o, i), d)
    BY <2>1, <2>2, <2>3, <2>4 DEF Kept
  <2>6. Range(rows)
          = {all[p] : p \in Behind(From(o, i), d) + 1
                            .. Behind(From(o, i), d) + (IF Limit <= d THEN Limit ELSE d)}
    BY <1>4, <2>4, <2>5, KeptIs
  <2> QED BY <2>3, <2>6
<1> QED BY <1>4, <1>5, <1>7, <1>9 DEF CandidatePage, n, all, d, skip, size, rows

\* While nothing is indexed, candidates are read from the newest down without
\* a gap.
LEMMA CandidatesJoin ==
    ASSUME NEW o \in Ops, Form[o] = "candidates", NEW n \in 0 .. MaxStored,
           NEW results \in Seq(Result), NEW times, IsTrace(results, o, times, n, n),
           GoesOn(results)
    PROVE  \E k \in 0 .. Len(Candidates(n)) :
              /\ ReadOf(results) \subseteq Range(FirstRows(Candidates(n), k))
              /\ \A c \in Range(FirstRows(Candidates(n), k)) \ ReadOf(results) :
                    c = Candidates(n)[Limit + 1]
<1> DEFINE m == Len(results)
           all == Candidates(n)
           d == Len(all)
           size == IF Limit <= d THEN Limit ELSE d
           lo == [i \in 1 .. m |-> Behind(From(o, i), d) + 1]
           to == [i \in 1 .. m |-> Behind(From(o, i), d) + size]
           hi == [i \in 1 .. m |-> to[i] + Extended(m, i)]
<1>1. m \in Nat /\ n \in Nat /\ Limit \in Nat \ {0} /\ d \in Nat /\ all \in Seq(Rows)
  BY SearchAssumption, CandidatesAre
<1>2. \A i \in 1 .. m : From(o, i) \in Nat /\ times[i] = n
  <2>1. \A i \in 1 .. m : From(o, i) \in Nat /\ times[i] \in 0 .. MaxStored
                          /\ n <= times[i] /\ times[i] <= n
    BY PageShows
  <2> QED BY <1>1, <2>1
<1>3. \A i \in 1 .. m : /\ Behind(From(o, i), d) \in Nat
                        /\ Behind(From(o, i), d) + size <= d
                        /\ Range(results[i].rows)
                             = {all[p] : p \in Behind(From(o, i), d) + 1 .. Behind(From(o, i), d) + size}
                        /\ results[i].complete = (d <= Limit)
  <2> SUFFICES ASSUME NEW i \in 1 .. m
               PROVE  /\ Behind(From(o, i), d) \in Nat
                      /\ Behind(From(o, i), d) + size <= d
                      /\ Range(results[i].rows)
                           = {all[p] : p \in Behind(From(o, i), d) + 1 .. Behind(From(o, i), d) + size}
                      /\ results[i].complete = (d <= Limit)
    OBVIOUS
  <2>1. times[i] = n
    BY <1>2
  <2>2. CandidatePage(o, results[i], n, i)
    BY <2>1, CandidatesShown
  <2> QED BY <2>2 DEF CandidatePage
<1>4. size \in Nat
  BY <1>1
<1>5. \A i \in 1 .. m : /\ lo[i] \in Int /\ hi[i] \in Int /\ hi[i] \in 0 .. d
                        /\ lo[i] >= 1 /\ to[i] \in Int /\ to[i] <= hi[i]
                        /\ hi[i] # to[i] => hi[i] = Limit + 1 /\ to[i] = Limit
                        /\ Range(results[i].rows) = {all[p] : p \in lo[i] .. to[i]}
  <2> SUFFICES ASSUME NEW i \in 1 .. m
               PROVE  /\ lo[i] \in Int /\ hi[i] \in Int /\ hi[i] \in 0 .. d
                      /\ lo[i] >= 1 /\ to[i] \in Int /\ to[i] <= hi[i]
                      /\ hi[i] # to[i] => hi[i] = Limit + 1 /\ to[i] = Limit
                      /\ Range(results[i].rows) = {all[p] : p \in lo[i] .. to[i]}
    OBVIOUS
  <2> DEFINE skip == Behind(From(o, i), d)
             one  == Extended(m, i)
  <2>1. /\ skip \in Nat /\ skip + size <= d
        /\ Range(results[i].rows) = {all[p] : p \in skip + 1 .. skip + size}
    BY <1>3
  <2>2. lo[i] = skip + 1 /\ to[i] = skip + size /\ hi[i] = skip + size + one
    OBVIOUS
  <2>5. one = 0 \/ (one = 1 /\ skip = 0 /\ size = Limit /\ Limit + 1 <= d)
    <3>0. ~ (i = 1 /\ 1 < m) => one = 0
      BY DEF Extended
    <3>1. SUFFICES ASSUME i = 1, 1 < m
                   PROVE  one = 1 /\ skip = 0 /\ size = Limit /\ Limit + 1 <= d
      BY <3>0
    <3>2. From(o, 1) = 0
      BY <1>1, PageStart
    <3>3. ~ (d <= Limit)
      <4>1. ~ results[1].complete
        BY <3>1 DEF GoesOn
      <4> QED BY <1>3, <3>1, <4>1, Zenon
    <3>4. one = 1
      BY <3>1 DEF Extended
    <3>5. skip = 0
      BY <1>1, <3>1, <3>2, BehindIs
    <3>6. size = Limit /\ Limit + 1 <= d
      <4> HIDE DEF d
      <4> QED BY <1>1, <3>3
    <3> QED BY <3>4, <3>5, <3>6
  <2> HIDE DEF size, d, lo, hi, to, skip, one
  <2>3. /\ lo[i] \in Int /\ hi[i] \in Int /\ hi[i] \in 0 .. d
        /\ lo[i] >= 1 /\ to[i] \in Int /\ to[i] <= hi[i]
        /\ hi[i] # to[i] => hi[i] = Limit + 1 /\ to[i] = Limit
    BY <1>1, <1>4, <2>1, <2>2, <2>5
  <2>4. Range(results[i].rows) = {all[p] : p \in lo[i] .. to[i]}
    BY <2>1, <2>2
  <2> QED BY <2>3, <2>4
<1>6. lo \in [1 .. m -> Int] /\ hi \in [1 .. m -> Int]
  BY <1>5
<1>7. m > 0 => lo[1] <= 1
  <2> SUFFICES ASSUME m > 0 PROVE lo[1] <= 1
    OBVIOUS
  <2>1. 1 \in 1 .. m /\ From(o, 1) = 0
    BY <1>1, PageStart
  <2>2. Behind(0, d) = 0
    BY <1>1, BehindIs
  <2> QED BY <2>1, <2>2
<1>8. ASSUME NEW i \in 1 .. m, i < m PROVE lo[i + 1] <= hi[i] + 1
  <2>1. i + 1 \in 1 .. m /\ i \in Nat \ {0}
    BY <1>1, <1>8
  <2>2. From(o, i + 1) = From(o, i) + Limit /\ From(o, i) \in Nat
    BY <1>2, <2>1, PageStart, LimitIs
  <2>3. ~ (d <= Limit)
    <3>1. ~ results[i].complete
      BY <1>8 DEF GoesOn
    <3> QED BY <1>3, <3>1, Zenon
  <2>4. d - Behind(From(o, i), d) - Limit - BehindFirst(From(o, i))
          <= d - Behind(From(o, i) + Limit, d)
    BY <1>1, <2>2, <2>3, BehindLater
  <2>5. lo[i + 1] = Behind(From(o, i) + Limit, d) + 1
        /\ hi[i] = Behind(From(o, i), d) + Limit + Extended(m, i)
    <3>1. size = Limit
      BY <1>1, <2>3
    <3> HIDE DEF size
    <3> QED BY <2>1, <2>2, <3>1
  <2>6. Behind(From(o, i) + Limit, d) \in Nat /\ Behind(From(o, i), d) \in Nat
    <3> HIDE DEF d
    <3>1. From(o, i) + Limit \in Nat
      BY <1>1, <2>2
    <3> QED BY <1>1, <2>2, <3>1, BehindIs
  <2>7. BehindFirst(From(o, i)) = Extended(m, i) /\ Extended(m, i) \in Nat
    <3>1. m \in Nat /\ i \in 1 .. m
      BY <1>1
    <3> HIDE DEF m
    <3> QED BY <1>8, <3>1, ExtendedIs
  <2> HIDE DEF d, lo, hi
  <2> QED BY <1>1, <2>4, <2>5, <2>6, <2>7
<1> HIDE DEF lo, hi, to, d, size, m, all
<1>9. \A j \in 1 .. m : \A p \in 1 .. hi[j] : \E k \in 1 .. m : p \in lo[k] .. hi[k]
  <2>1. \A k \in 1 .. m : k < m => lo[k + 1] <= hi[k] + 1
    BY <1>8
  <2> QED BY <1>1, <1>6, <1>7, <2>1, Covered
<1> DEFINE Most(k) == /\ ReadOf(results) \subseteq {all[p] : p \in 1 .. k}
                      /\ \A p \in 1 .. k : all[p] \in ReadOf(results) \/ p = Limit + 1
<1>10. \E k \in 0 .. d : Most(k)
  <2>1. CASE m = 0
    <3>1. ReadOf(results) = {}
      BY <2>1 DEF ReadOf, m
    <3>2. 0 \in 0 .. d /\ 1 .. 0 = {}
      BY <1>1
    <3> QED BY <3>1, <3>2
  <2>2. CASE m # 0
    <3> DEFINE S == {d - hi[i] : i \in 1 .. m}
    <3>1. S \in SUBSET Nat
      <4>1. \A i \in 1 .. m : d - hi[i] \in Nat
        BY <1>1, <1>5
      <4> QED BY <4>1
    <3>2. d - hi[1] \in S
      BY <1>1, <2>2
    <3> HIDE DEF S
    <3>3. PICK least \in S : \A x \in S : least <= x
      BY <3>1, <3>2, Least
    <3>4. PICK i \in 1 .. m : least = d - hi[i]
      BY <3>3 DEF S
    <3>5. \A j \in 1 .. m : hi[j] <= hi[i]
      <4> SUFFICES ASSUME NEW j \in 1 .. m PROVE hi[j] <= hi[i]
        OBVIOUS
      <4>1. d - hi[i] <= d - hi[j]
        BY <3>3, <3>4 DEF S
      <4>2. hi[i] \in Int /\ hi[j] \in Int /\ d \in Int
        BY <1>1, <1>5
      <4> QED BY <4>1, <4>2
    <3>6. hi[i] \in 0 .. d
      BY <1>5
    <3>7. ASSUME NEW p \in 1 .. hi[i] PROVE all[p] \in ReadOf(results) \/ p = Limit + 1
      <4>1. PICK k \in 1 .. m : p \in lo[k] .. hi[k]
        BY <1>9
      <4>2. CASE p \in lo[k] .. to[k]
        <5>1. all[p] \in Range(results[k].rows)
          BY <1>5, <4>2
        <5> QED BY <5>1 DEF ReadOf, m
      <4>3. CASE p \notin lo[k] .. to[k]
        <5>1. /\ lo[k] \in Int /\ hi[k] \in Int /\ to[k] \in Int
              /\ hi[k] # to[k] => hi[k] = Limit + 1 /\ to[k] = Limit
          BY <1>5
        <5> QED BY <1>1, <4>1, <4>3, <5>1
      <4> QED BY <4>2, <4>3
    <3>8. ASSUME NEW r \in ReadOf(results) PROVE r \in {all[p] : p \in 1 .. hi[i]}
      <4>1. PICK j \in 1 .. m : r \in Range(results[j].rows)
        BY DEF ReadOf, m
      <4>2. PICK p \in lo[j] .. to[j] : r = all[p]
        BY <1>5, <4>1
      <4>3. p \in 1 .. hi[i]
        <5>1. lo[j] \in Int /\ to[j] \in Int /\ hi[j] \in Int /\ lo[j] >= 1
              /\ to[j] <= hi[j] /\ hi[j] <= hi[i] /\ hi[i] \in Int
          BY <1>5, <3>5
        <5> QED BY <5>1
      <4> QED BY <4>2, <4>3
    <3>9. Most(hi[i])
      BY <3>7, <3>8
    <3> HIDE DEF Most
    <3> QED BY <3>6, <3>9
  <2> QED BY <2>1, <2>2
<1>11. ASSUME NEW k \in 0 .. d PROVE Range(FirstRows(all, k)) = {all[p] : p \in 1 .. k}
  <2>0. k \in Nat /\ k <= d /\ d = Len(all)
    BY <1>1 DEF d
  <2>1. /\ FirstRows(all, k) \in Seq(Rows)
        /\ Len(FirstRows(all, k)) = k
        /\ \A j \in 1 .. Len(FirstRows(all, k)) : FirstRows(all, k)[j] = all[j]
    BY <1>1, <2>0, FirstRowsIs
  <2>2. DOMAIN FirstRows(all, k) = 1 .. k
    BY <2>1
  <2> QED BY <2>1, <2>2 DEF Range
<1>12. PICK k \in 0 .. d : Most(k)
  BY <1>10
<1>13. /\ ReadOf(results) \subseteq Range(FirstRows(all, k))
       /\ \A c \in Range(FirstRows(all, k)) \ ReadOf(results) : c = all[Limit + 1]
  BY <1>11, <1>12
<1> QED BY <1>13 DEF d, all

\* How many a search that is no SQL query could show of n records.
Amount(o, n) == IF Form[o] = "candidates" THEN Len(Candidates(n)) ELSE n
Splunk(o) == Form[o] \notin {"sql", "outbound"}

LEMMA AmountIs ==
    ASSUME NEW o \in Ops, Splunk(o), NEW n \in 0 .. MaxStored, NEW from \in Nat
    PROVE  /\ Amount(o, n) \in Nat
           /\ Len(Fetched(o, n, from)) <= Limit <=> Amount(o, n) <= Limit
           /\ \A m \in 0 .. n : Amount(o, m) <= Amount(o, n)
<1> DEFINE got == Fetched(o, n, from)
           d == Len(Candidates(n))
<1>1. Limit \in Nat /\ n \in Nat /\ MaxStored \in Nat /\ n <= MaxStored
  BY SearchAssumption
<1>2. CASE Form[o] = "candidates"
  <2>1. d \in Nat /\ Amount(o, n) = d
    BY <1>2, CandidatesAre DEF Amount
  <2>2. Len(got) = IF Limit + 1 <= d THEN Limit + 1 ELSE d
    BY <1>2, CandidateIs
  <2>3. ASSUME NEW m \in 0 .. n PROVE Amount(o, m) <= Amount(o, n)
    <3>1. m \in 0 .. MaxStored /\ m <= n
      BY <1>1
    <3> QED BY <1>2, <3>1, CandidatesGrow DEF Amount
  <2> HIDE DEF got, d
  <2>4. Len(got) <= Limit <=> d <= Limit
    BY <1>1, <2>1, <2>2
  <2> QED BY <2>1, <2>3, <2>4 DEF got
<1>3. CASE Form[o] # "candidates"
  <2>1. \A k : Amount(o, k) = k
    BY <1>3 DEF Amount
  <2>2. Form[o] \in {"records", "evidence"} \/ Form[o] \in {"text", "identity"}
    BY <1>3, SearchAssumption DEF Splunk
  <2>3. Len(got) = IF Limit + 1 <= n THEN Limit + 1 ELSE n
    BY <2>2, PagedIs, UnpagedIs
  <2> HIDE DEF got
  <2>4. Len(got) <= Limit <=> n <= Limit
    BY <1>1, <2>3
  <2>5. \A m \in 0 .. n : m <= n
    BY <1>1
  <2> QED BY <1>1, <2>1, <2>4, <2>5 DEF got
<1> QED BY <1>2, <1>3

\* A complete page of Splunk is the first: had there been more than the
\* limit before, there would be still.
LEMMA OnePage ==
    ASSUME NEW o \in Ops, Splunk(o),
           NEW low \in 0 .. MaxStored, NEW high \in 0 .. MaxStored,
           NEW results \in Seq(Result), NEW times, IsTrace(results, o, times, low, high),
           GoesOn(results), results # << >>, results[Len(results)].complete
    PROVE  Len(results) = 1
<1> DEFINE m == Len(results)
<1>1. m \in Nat /\ 1 \in 1 .. m /\ m \in 1 .. m /\ 1 <= m
  OBVIOUS
<1>0. SUFFICES ASSUME m # 1 PROVE FALSE
  OBVIOUS
<1>2. 1 < m
  <2> HIDE DEF m
  <2>1. m \in Nat /\ 1 <= m /\ m # 1
    BY <1>0, <1>1
  <2> QED BY <2>1
<1>3. TargetLimit(o) = Limit /\ Limit \in Nat
  BY LimitIs DEF Splunk
<1>4. \A i \in 1 .. m :
         /\ times[i] \in 0 .. MaxStored /\ From(o, i) \in Nat
         /\ results[i].complete = (Len(Fetched(o, times[i], From(o, i))) <= Limit)
  <2> SUFFICES ASSUME NEW i \in 1 .. m
               PROVE  /\ times[i] \in 0 .. MaxStored /\ From(o, i) \in Nat
                      /\ results[i].complete = (Len(Fetched(o, times[i], From(o, i))) <= Limit)
    OBVIOUS
  <2>1. /\ times[i] \in 0 .. MaxStored /\ From(o, i) \in Nat
        /\ results[i].complete = (Len(Fetched(o, times[i], From(o, i))) <= TargetLimit(o))
    BY PageShows
  <2> QED BY <1>3, <2>1
<1>5. times[1] <= times[m]
  <2>1. \A k, l \in 1 .. m : k <= l => times[k] <= times[l]
    BY Zenon DEF IsTrace
  <2> QED BY <1>1, <2>1, Zenon
<1>6. times[1] \in 0 .. times[m]
  BY <1>1, <1>4, <1>5, SearchAssumption
<1>7. ~ results[1].complete
  BY <1>1, <1>2 DEF GoesOn
<1>8. Amount(o, times[m]) <= Limit /\ ~ (Amount(o, times[1]) <= Limit)
  <2>1. Len(Fetched(o, times[m], From(o, m))) <= Limit <=> Amount(o, times[m]) <= Limit
    BY <1>1, <1>4, AmountIs
  <2>2. Len(Fetched(o, times[1], From(o, 1))) <= Limit <=> Amount(o, times[1]) <= Limit
    BY <1>1, <1>4, AmountIs
  <2>3. results[m].complete = (Len(Fetched(o, times[m], From(o, m))) <= Limit)
    BY <1>1, <1>4
  <2>4. results[1].complete = (Len(Fetched(o, times[1], From(o, 1))) <= Limit)
    BY <1>1, <1>4
  <2> QED BY <1>7, <2>1, <2>2, <2>3, <2>4, Zenon
<1>9. Amount(o, times[1]) <= Amount(o, times[m])
  BY <1>1, <1>4, <1>6, AmountIs
<1>10. Amount(o, times[1]) \in Nat /\ Amount(o, times[m]) \in Nat
  BY <1>1, <1>4, AmountIs
<1> QED BY <1>3, <1>8, <1>9, <1>10

\* The L+1 rule.
LEMMA WholeIs ==
    ASSUME NEW o \in Ops, Form[o] # "outbound",
           NEW low \in 0 .. MaxStored, NEW high \in 0 .. MaxStored,
           NEW results \in Seq(Result), NEW times, IsTrace(results, o, times, low, high),
           GoesOn(results), results # << >>, results[Len(results)].complete
    PROVE  /\ {Named[r] : r \in 1 .. low} \subseteq {Named[r] : r \in ReadOf(results)}
           /\ Form[o] # "candidates" => 1 .. low \subseteq ReadOf(results)
<1>1. CASE Form[o] = "sql"
  <2>1. 1 .. low \subseteq ReadOf(results)
    BY <1>1, SqlJoin
  <2> QED BY <2>1
<1>2. CASE Splunk(o)
  <2>1. Len(results) = 1 /\ results[1].complete
    BY <1>2, OnePage
  <2> DEFINE n == times[1]
  <2>2. n \in 0 .. MaxStored /\ low <= n /\ 1 \in 1 .. Len(results)
    BY <2>1, PageShows
  <2>3. n \in Nat /\ low \in Nat /\ Limit \in Nat \ {0} /\ From(o, 1) = 0
    <3>1. From(o, 1) = 0
      BY PageStart
    <3> HIDE DEF n
    <3> QED BY <2>2, <3>1, SearchAssumption
  <2>4. ReadOf(results) = Range(results[1].rows)
    BY <2>1 DEF ReadOf
  <2>5. 1 .. low \subseteq 1 .. n
    BY <2>2, <2>3
  <2>6. CASE Form[o] \in {"records", "evidence"}
    <3>1. /\ Range(results[1].rows) = Top(o, times, 1) - Size(times, 1) + 1 .. Top(o, times, 1)
          /\ results[1].complete = (n <= Limit)
      BY <2>2, <2>6, RecordsShown
    <3>2. n <= Limit
      BY <2>1, <3>1
    <3>3. Behind(0, n) = 0
      BY <2>3, BehindIs
    <3>4. Size(times, 1) = n
      BY <2>3, <3>2 DEF Size
    <3>5. Top(o, times, 1) = n
      BY <2>3, <3>3 DEF Top
    <3>6. Range(results[1].rows) = 1 .. n
      BY <2>3, <3>1, <3>4, <3>5
    <3> QED BY <2>4, <2>5, <3>6
  <2>7. CASE Form[o] \in {"text", "identity"}
    <3> DEFINE got == Fetched(o, n, From(o, 1))
               rows == results[1].rows
    <3>1. /\ DOMAIN rows = 1 .. Len(rows)
          /\ Len(rows) = IF TargetLimit(o) <= Len(got) THEN TargetLimit(o) ELSE Len(got)
          /\ \A j \in 1 .. Len(rows) : rows[j] = got[j]
          /\ results[1].complete = (Len(got) <= TargetLimit(o))
      BY <2>2, PageShows
    <3>2. TargetLimit(o) = Limit
      BY <2>7, LimitIs
    <3>3. /\ Len(got) = IF Limit + 1 <= n THEN Limit + 1 ELSE n
          /\ \A j \in 1 .. Len(got) : got[j] = n + 1 - j
      BY <2>2, <2>3, <2>7, UnpagedIs
    <3> HIDE DEF got, rows, n
    <3>4. Len(got) <= Limit
      BY <2>1, <3>1, <3>2
    <3>5. Len(got) = n
      BY <2>3, <3>3, <3>4
    <3>6. Len(rows) = n
      BY <2>3, <3>1, <3>2, <3>4, <3>5
    <3>7. \A j \in 1 .. n : rows[j] = n + 1 - j
      BY <3>1, <3>3, <3>5, <3>6
    <3>8. \A r \in 1 .. n : n + 1 - r \in 1 .. n /\ n + 1 - (n + 1 - r) = r
      BY <2>3
    <3>9. Range(rows) = {rows[j] : j \in 1 .. n}
      BY <3>1, <3>6 DEF Range
    <3>10. ASSUME NEW r \in 1 .. n PROVE r \in Range(rows)
      <4>1. n + 1 - r \in 1 .. n /\ rows[n + 1 - r] = r
        BY <3>7, <3>8
      <4> QED BY <3>9, <4>1
    <3> QED BY <2>4, <2>5, <3>10 DEF rows
  <2>8. CASE Form[o] = "candidates"
    <3> DEFINE all == Candidates(n)
               d == Len(all)
    <3>1. CandidatePage(o, results[1], n, 1)
      BY <2>2, <2>8, CandidatesShown
    <3>2. /\ d \in Nat /\ results[1].complete = (d <= Limit)
          /\ Range(results[1].rows)
               = {all[p] : p \in Behind(0, d) + 1
                                 .. Behind(0, d) + (IF Limit <= d THEN Limit ELSE d)}
      BY <2>3, <3>1 DEF CandidatePage
    <3>3. NamesOf(all) = {Named[r] : r \in 1 .. n}
      BY <2>2, CandidatesAre
    <3>4. NamesOf(all) = {Named[all[p]] : p \in 1 .. d}
      BY DEF NamesOf
    <3> HIDE DEF all, d, n
    <3>5. d <= Limit
      BY <2>1, <3>2, Zenon
    <3>6. Behind(0, d) = 0 /\ (IF Limit <= d THEN Limit ELSE d) = d
      <4>1. d \in Nat
        BY <3>2
      <4>2. Behind(0, d) = 0
        BY <4>1, BehindIs
      <4>3. (IF Limit <= d THEN Limit ELSE d) = d
        BY <2>3, <3>5, <4>1
      <4> QED BY <4>2, <4>3
    <3>7. 0 + 1 = 1 /\ 0 + d = d
      BY <3>2
    <3>8. Range(results[1].rows) = {all[p] : p \in 1 .. d}
      BY <3>2, <3>6, <3>7
    <3>9. {Named[r] : r \in 1 .. n} \subseteq {Named[r] : r \in ReadOf(results)}
      <4>1. NamesOf(all) \subseteq {Named[r] : r \in ReadOf(results)}
        BY <2>4, <3>4, <3>8
      <4> QED BY <3>3, <4>1
    <3> QED BY <2>5, <2>8, <3>9
  <2> QED BY <1>2, <2>6, <2>7, <2>8, SearchAssumption DEF Splunk
<1> QED BY <1>1, <1>2 DEF Splunk

-----------------------------------------------------------------------------
(* What holds of every state.                                              *)

\* Where a search stands: it has read Len(pages) pages, and asks for one
\* more or has just read the last of them.
Reads == phase \in {"ready", "waiting", "cancelling"}

ShapeInv ==
    /\ phase = "idle" => pages = << >> /\ offset = 0
    /\ phase # "idle" => searches >= 1
    /\ Reads => /\ Len(pages) < MaxPages /\ offset = From(op, Len(pages) + 1)
                /\ mode # "walk" => pages = << >>
    /\ phase \in {"page", "controls"} => /\ pages # << >> /\ offset = From(op, Len(pages))
                                         /\ mode # "walk" => Len(pages) = 1
    /\ phase = "controls" => mode # "walk"
    /\ phase \in {"waiting", "cancelling"} => Form[op] # "sql"

\* Nothing comes after the window's ingestion is over.
AskedInv ==
    /\ asked.stored <= stored
    /\ asked.settled => settled /\ stored = asked.stored

\* Only a page that was answered and is not complete has one after it, which
\* begins where it ended.
PagesInv ==
    /\ \A i \in 1 .. Len(pages) : pages[i].ok <=> pages[i].reason \in {"done", "finalized"}
    /\ \A i \in 1 .. Len(pages) :
          i < Len(pages) \/ Reads => pages[i].ok /\ ~ pages[i].complete
    /\ phase = "page" /\ Page.ok => Page.next = offset + TargetLimit(op)

\* The pages, and the one whose job has ended.
Reading ==
    IF phase = "waiting" /\ job[NextSid].state \in {"done", "finalized"}
    THEN Append(pages, Answer(job[NextSid].rows, job[NextSid].state))
    ELSE pages

TraceInv ==
    /\ Traced(pages, op, asked.stored, stored)
    /\ Traced(Reading, op, asked.stored, stored)

LicensedInv == \A l \in licensed : l.settled /\ ~ l.cut => settled /\ stored = 0

SearchInv == TypeOK /\ ShapeInv /\ AskedInv /\ PagesInv /\ TraceInv /\ LicensedInv

-----------------------------------------------------------------------------
(* Types.                                                                  *)

LEMMA AnswerIs ==
    ASSUME NEW rows \in Seq(Rows), NEW reason \in {"done", "finalized"},
           op \in Ops, offset \in Nat
    PROVE  Answer(rows, reason) \in Result
<1>1. TargetLimit(op) \in Nat
  BY LimitIs
<1>2. FirstRows(rows, TargetLimit(op)) \in Seq(Rows)
  BY <1>1, FirstRowsIs
<1>3. offset + TargetLimit(op) \in Nat
  BY <1>1
<1>4. (Len(rows) <= TargetLimit(op)) \in BOOLEAN
  OBVIOUS
<1> QED BY <1>2, <1>3, <1>4 DEF Answer, Result

LEMMA FailedIs ==
    ASSUME NEW reason \in {"rejected", "broken", "client_timeout_cancelled_sid"}
    PROVE  Failed(reason) \in Result
<1>1. << >> \in Seq(Rows)
  OBVIOUS
<1> QED BY <1>1 DEF Failed, Result

LEMMA PageIs ==
    ASSUME pages \in Seq(Result), pages # << >>
    PROVE  /\ Page = pages[Len(pages)] /\ Page \in Result
           /\ Len(pages) \in Nat \ {0} /\ Len(pages) \in 1 .. Len(pages)
<1>1. Len(pages) \in Nat \ {0} /\ Len(pages) \in 1 .. Len(pages)
  OBVIOUS
<1>2. Page = pages[Len(pages)]
  BY DEF Page, Last
<1> QED BY <1>1, <1>2

\* Every search has numbers for its jobs.
LEMMA SidIs ==
    ASSUME TypeOK, ShapeInv, Reads
    PROVE  NextSid \in Sids
<1> DEFINE P == MaxPages
           S == MaxSearches
           s == searches
           k == S - s
           l == Len(pages)
           a == s - 1
<1>1. P \in Nat /\ S \in Nat /\ s \in Nat \ {0} /\ s <= S /\ l \in Nat /\ l < P
  BY SearchAssumption DEF TypeOK, ShapeInv, Reads
<1>2. k \in Nat /\ a \in Nat /\ S = (a + 1) + k
  BY <1>1
<1>3. NextSid = a * P + l + 1
  BY DEF NextSid
<1>4. Sids = 1 .. (P * S)
  BY DEF Sids
<1> HIDE DEF P, S, s, k, l, a
<1>5. P * S = a * P + P + k * P
  BY <1>1, <1>2
<1>6. a * P \in Nat /\ k * P \in Nat
  BY <1>1, <1>2
<1>7. DEFINE aP == a * P
             kP == k * P
<1> HIDE DEF aP, kP
<1>8. aP + l + 1 \in 1 .. (aP + P + kP)
  BY <1>1, <1>6 DEF aP, kP
<1> QED BY <1>3, <1>4, <1>5, <1>8 DEF aP, kP

LEMMA SearchIs ==
    ASSUME op \in Ops, Form[op] # "sql", NEW n \in 0 .. MaxStored, offset \in Nat
    PROVE  Search(op, Newest(n), offset) = Fetched(op, n, offset)
  BY DEF Fetched

LEMMA SearchTypes ==
    ASSUME op \in Ops, Form[op] # "sql", offset \in Nat, NEW rows \in Seq(Rows)
    PROVE  Search(op, rows, offset) \in Seq(Rows)
<1>1. CASE Form[op] \in {"records", "evidence"}
  <2>1. Search(op, rows, offset) = PageClause(rows, offset)
    BY <1>1 DEF Search, RecordSearch, EvidenceSearch
  <2> QED BY <2>1, PageClauseIs
<1>2. CASE Form[op] = "candidates"
  <2>1. Search(op, rows, offset) = PageClause(Dedup(rows), offset)
    BY <1>2 DEF Search, CandidateSearch
  <2>2. Dedup(rows) \in Seq(Rows)
    BY DedupIs
  <2> QED BY <2>1, <2>2, PageClauseIs
<1>3. CASE Form[op] \in {"text", "identity", "outbound"}
  <2> DEFINE k == IF Form[op] = "outbound" THEN Max({Limit + 1, WideLimit}) ELSE Limit + 1
  <2>1. Search(op, rows, offset) = FirstRows(rows, k)
    BY <1>3 DEF Search, TextSearch, IdentitySearch, OutboundSearch
  <2>2. k \in Nat
    BY MaxOfTwo, SearchAssumption
  <2> QED BY <2>1, <2>2, FirstRowsIs
<1> QED BY <1>1, <1>2, <1>3, SearchAssumption

LEMMA RunIs ==
    ASSUME TypeOK, ShapeInv, NEW s \in Sids, Run(s)
    PROVE  job' \in [Sids -> [state : {"none", "running", "done", "finalized"}, rows : Seq(Rows)]]
<1> DEFINE Job == [state : {"none", "running", "done", "finalized"}, rows : Seq(Rows)]
<1>1. NoJob \in Job
  <2>1. << >> \in Seq(Rows)
    OBVIOUS
  <2> QED BY <2>1 DEF NoJob
<1>2. CASE phase = "waiting" /\ s = NextSid
  <2>1. op \in Ops /\ offset \in Nat /\ Form[op] # "sql" /\ stored \in 0 .. MaxStored
    BY <1>2 DEF TypeOK, ShapeInv
  <2>2. Newest(stored) \in Seq(Rows)
    BY <2>1, NewestIs
  <2>3. Ended("done", Newest(stored)) \in Job
    BY <2>1, <2>2, SearchTypes DEF Ended
  <2>4. ASSUME NEW n \in 0 .. stored
        PROVE  Ended("finalized", FirstRows(Newest(stored), n)) \in Job
    <3>1. FirstRows(Newest(stored), n) \in Seq(Rows)
      <4>1. n \in Nat
        BY <2>1
      <4> QED BY <2>2, <4>1, FirstRowsIs
    <3> QED BY <2>1, <3>1, SearchTypes DEF Ended
  <2>5. \E e \in Job : job' = [job EXCEPT ![s] = e]
    BY <1>2, <2>3, <2>4 DEF Run
  <2> HIDE DEF Job
  <2>6. job \in [Sids -> Job]
    BY DEF TypeOK, Job
  <2> QED BY <2>5, <2>6 DEF Job
<1>3. CASE ~ (phase = "waiting" /\ s = NextSid)
  <2>1. job' = [job EXCEPT ![s] = NoJob]
    BY <1>3 DEF Run
  <2>2. job \in [Sids -> Job]
    BY DEF TypeOK
  <2> HIDE DEF Job
  <2> QED BY <1>1, <2>1, <2>2 DEF Job
<1> QED BY <1>2, <1>3

LEMMA TypeStep ==
    TypeOK /\ ShapeInv /\ [Next]_vars => TypeOK'
<1> SUFFICES ASSUME TypeOK, ShapeInv, [Next]_vars PROVE TypeOK'
  OBVIOUS
<1> DEFINE Job == [state : {"none", "running", "done", "finalized"}, rows : Seq(Rows)]
           JobOK == job' \in [Sids -> Job]
           PagesOK == pages' \in Seq(Result) /\ Len(pages') <= MaxPages
<1>0. /\ stored \in 0 .. MaxStored /\ settled \in BOOLEAN /\ job \in [Sids -> Job]
      /\ op \in Ops /\ mode \in {"walk", "test", "hunt"} /\ offset \in Nat
      /\ asked \in [stored : 0 .. MaxStored, settled : BOOLEAN]
      /\ pages \in Seq(Result) /\ Len(pages) <= MaxPages /\ searches \in 0 .. MaxSearches
      /\ licensed \subseteq [settled : BOOLEAN, cut : BOOLEAN]
      /\ MaxStored \in Nat /\ MaxPages \in Nat \ {0} /\ MaxSearches \in Nat
  BY SearchAssumption DEF TypeOK
<1>1. NoJob \in Job
  <2>1. << >> \in Seq(Rows)
    OBVIOUS
  <2> QED BY <2>1 DEF NoJob
<1>2. ASSUME Reads, NEW r \in Result, pages' = Append(pages, r) PROVE PagesOK
  <2>1. Len(pages) < MaxPages /\ Len(pages) \in Nat
    BY <1>0, <1>2 DEF ShapeInv
  <2>2. pages' \in Seq(Result) /\ Len(pages') = Len(pages) + 1
    BY <1>0, <1>2
  <2> QED BY <1>0, <2>1, <2>2
<1>3. ASSUME job' \in Left PROVE JobOK
  <2> HIDE DEF Job
  <2>1. job' = job \/ job' = [job EXCEPT ![NextSid] = NoJob]
    BY <1>3 DEF Left
  <2> QED BY <1>0, <1>1, <2>1
<1>4. CASE Arrive
  BY <1>0, <1>4 DEF Arrive, TypeOK
<1>5. CASE Settle
  BY <1>0, <1>5 DEF Settle, TypeOK
<1>6. ASSUME NEW s \in Sids, Run(s) PROVE TypeOK'
  <2>1. job' \in [Sids -> Job]
    BY <1>6, RunIs
  <2> HIDE DEF Job
  <2>2. UNCHANGED <<server, phase, op, mode, offset, asked, pages, searches, licensed>>
    BY <1>6 DEF Run
  <2> QED BY <2>1, <2>2 DEF TypeOK, Job, server
<1>7. CASE Begin
  BY <1>0, <1>7 DEF Begin, TypeOK, server
<1>8. CASE Select
  <2>1. Reads
    BY <1>8 DEF Select, Reads
  <2>2. SqlPage(Oldest(stored), offset) \in Seq(Rows)
    BY <1>0, OldestIs, SqlPageIs
  <2>3. Answer(SqlPage(Oldest(stored), offset), "done") \in Result
    BY <1>0, <2>2, AnswerIs
  <2>4. Failed("broken") \in Result
    BY FailedIs
  <2>5. PagesOK
    BY <1>2, <1>8, <2>1, <2>3, <2>4 DEF Select
  <2> HIDE DEF Job
  <2> QED BY <1>0, <1>8, <2>5 DEF Select, TypeOK, server, Job
<1>9. CASE Submit
  <2>1. JobOK
    <3>1. job' = [s \in Sids |-> IF s = NextSid THEN [job[s] EXCEPT !.state = "running"] ELSE job[s]]
      BY <1>0, <1>9 DEF Submit
    <3>2. \A s \in Sids : [job[s] EXCEPT !.state = "running"] \in Job
      BY <1>0
    <3> HIDE DEF Job
    <3> QED BY <1>0, <3>1, <3>2
  <2> HIDE DEF Job
  <2> QED BY <1>0, <1>9, <2>1 DEF Submit, TypeOK, server, Job
<1>10. CASE Reject
  <2>1. PagesOK
    BY <1>2, <1>10, FailedIs DEF Reject, Reads
  <2> HIDE DEF Job
  <2> QED BY <1>0, <1>10, <2>1 DEF Reject, TypeOK, server, Job
<1>11. CASE Receive
  <2>1. Reads
    BY <1>11 DEF Receive, Reads
  <2>2. job[NextSid] \in Job
    BY <1>0, <2>1, SidIs
  <2>3. Answer(job[NextSid].rows, job[NextSid].state) \in Result
    BY <1>0, <1>11, <2>2, AnswerIs DEF Receive
  <2>4. PagesOK
    BY <1>2, <1>11, <2>1, <2>3 DEF Receive
  <2> HIDE DEF Job
  <2>5. JobOK
    BY <1>0, <1>1, <1>11 DEF Receive
  <2> QED BY <1>0, <1>11, <2>4, <2>5 DEF Receive, TypeOK, server, Job
<1>12. CASE Break
  <2>1. PagesOK
    BY <1>2, <1>12, FailedIs DEF Break, Reads
  <2>2. JobOK
    BY <1>3, <1>12 DEF Break
  <2> HIDE DEF Job
  <2> QED BY <1>0, <1>12, <2>1, <2>2 DEF Break, TypeOK, server, Job
<1>13. CASE GiveUp
  BY <1>0, <1>13 DEF GiveUp, TypeOK, server
<1>14. CASE Cancel
  <2>1. PagesOK
    BY <1>2, <1>14, FailedIs DEF Cancel, Reads
  <2>2. JobOK
    BY <1>3, <1>14 DEF Cancel
  <2> HIDE DEF Job
  <2> QED BY <1>0, <1>14, <2>1, <2>2 DEF Cancel, TypeOK, server, Job
<1>15. CASE Turn
  <2>1. pages # << >>
    BY <1>15 DEF Turn, ShapeInv
  <2>2. Page.next \in Nat
    BY <1>0, <2>1, PageIs DEF Result
  <2> QED BY <1>0, <1>15, <2>2 DEF Turn, TypeOK, server
<1> DEFINE Back == UNCHANGED <<pages, offset, asked>> \/ Return
<1>16. ASSUME Back
       PROVE  PagesOK /\ offset' \in Nat /\ asked' \in [stored : 0 .. MaxStored, settled : BOOLEAN]
  <2>1. CASE UNCHANGED <<pages, offset, asked>>
    BY <1>0, <2>1
  <2>2. CASE Return
    <3>1. << >> \in Seq(Result) /\ Len(<< >>) = 0
      OBVIOUS
    <3>2. [stored |-> 0, settled |-> FALSE] \in [stored : 0 .. MaxStored, settled : BOOLEAN]
      BY <1>0
    <3> QED BY <1>0, <2>2, <3>1, <3>2 DEF Return
  <2> QED BY <1>16, <2>1, <2>2
<1>17. CASE Finish
  <2>1. Back /\ phase' \in {"controls", "idle"}
    BY <1>17 DEF Finish, Return
  <2>2. PagesOK /\ offset' \in Nat /\ asked' \in [stored : 0 .. MaxStored, settled : BOOLEAN]
    BY <1>16, <2>1
  <2> HIDE DEF Job, Back
  <2> QED BY <1>0, <1>17, <2>1, <2>2 DEF Finish, TypeOK, server, Job
<1>18. CASE Controls
  <2>1. Back /\ phase' = "idle"
    BY <1>18 DEF Controls, Return
  <2>2. PagesOK /\ offset' \in Nat /\ asked' \in [stored : 0 .. MaxStored, settled : BOOLEAN]
    BY <1>16, <2>1
  <2>3. licensed' \subseteq [settled : BOOLEAN, cut : BOOLEAN]
    <3>1. [settled |-> asked.settled, cut |-> Page.reason = "finalized"]
            \in [settled : BOOLEAN, cut : BOOLEAN]
      BY <1>0
    <3> QED BY <1>0, <1>18, <3>1 DEF Controls
  <2> HIDE DEF Job, Back
  <2> QED BY <1>0, <1>18, <2>1, <2>2, <2>3 DEF Controls, TypeOK, server, Job
<1>19. CASE UNCHANGED vars
  BY <1>19 DEF vars, server, TypeOK
<1> QED BY <1>4, <1>5, <1>6, <1>7, <1>8, <1>9, <1>10, <1>11, <1>12, <1>13, <1>14, <1>15,
          <1>17, <1>18, <1>19 DEF Next, Client, Serve

-----------------------------------------------------------------------------
(* The position of a search, and what held when it began.                  *)

LEMMA ShapeStep ==
    TypeOK /\ ShapeInv /\ PagesInv /\ [Next]_vars => ShapeInv'
<1> SUFFICES ASSUME TypeOK, ShapeInv, PagesInv, [Next]_vars PROVE ShapeInv'
  OBVIOUS
<1>0. /\ op \in Ops /\ pages \in Seq(Result) /\ Len(pages) \in Nat /\ MaxPages \in Nat \ {0}
      /\ searches \in Nat
  BY SearchAssumption DEF TypeOK
\* A page is read.
<1> DEFINE Shown == /\ Reads /\ phase' = "page" /\ UNCHANGED <<op, mode, offset, searches>>
                    /\ \E r \in Result : pages' = Append(pages, r)
<1>1. ASSUME Shown PROVE ShapeInv'
  <2>1. PICK r \in Result : pages' = Append(pages, r)
    BY <1>1
  <2>2. Len(pages') = Len(pages) + 1 /\ pages' # << >>
    BY <1>0, <2>1
  <2>3. mode' # "walk" => Len(pages') = 1
    <3>1. mode' # "walk" => Len(pages) = 0
      BY <1>1 DEF ShapeInv
    <3> QED BY <2>2, <3>1
  <2>4. offset' = From(op', Len(pages'))
    BY <1>1, <2>2 DEF ShapeInv
  <2>5. searches' >= 1
    BY <1>1 DEF ShapeInv, Reads
  <2> HIDE DEF Shown
  <2>6. phase' = "page"
    BY <1>1 DEF Shown
  <2> QED BY <2>2, <2>3, <2>4, <2>5, <2>6 DEF ShapeInv, Reads
\* The client waits, or gives up.
<1>2. ASSUME Reads, phase' \in {"waiting", "cancelling"}, Form[op] # "sql",
             UNCHANGED <<op, mode, offset, pages, searches>>
      PROVE  ShapeInv'
  BY <1>2 DEF ShapeInv, Reads
\* The search is over.
<1>3. ASSUME Return, UNCHANGED searches PROVE ShapeInv'
  BY <1>3 DEF ShapeInv, Return, Reads
<1>4. ASSUME UNCHANGED <<phase, op, mode, offset, pages, searches>> PROVE ShapeInv'
  BY <1>4 DEF ShapeInv, Reads
<1>5. CASE Arrive
  BY <1>4, <1>5 DEF Arrive
<1>6. CASE Settle
  BY <1>4, <1>6 DEF Settle
<1>7. ASSUME NEW s \in Sids, Run(s) PROVE ShapeInv'
  BY <1>4, <1>7 DEF Run
<1>8. CASE Begin
  <2>1. pages' = << >> /\ offset' = 0 /\ searches' = searches + 1 /\ op' \in Ops /\ phase' = "ready"
    BY <1>8 DEF Begin, ShapeInv
  <2>2. From(op', 1) = 0 /\ Len(<< >>) = 0
    BY <2>1, PageStart
  <2>3. Len(pages') < MaxPages /\ offset' = From(op', Len(pages') + 1)
    BY <1>0, <2>1, <2>2
  <2> QED BY <1>0, <2>1, <2>3 DEF ShapeInv, Reads
<1>9. CASE Select
  <2>1. Answer(SqlPage(Oldest(stored), offset), "done") \in Result /\ Failed("broken") \in Result
    <3>1. SqlPage(Oldest(stored), offset) \in Seq(Rows)
      BY OldestIs, SqlPageIs DEF TypeOK
    <3> QED BY <3>1, AnswerIs, FailedIs DEF TypeOK
  <2>2. Shown
    BY <1>9, <2>1 DEF Select, Reads
  <2> QED BY <1>1, <2>2
<1>10. CASE Submit
  BY <1>2, <1>10 DEF Submit, Reads
<1>11. CASE Reject
  <2>1. Shown
    BY <1>11, FailedIs DEF Reject, Reads
  <2> QED BY <1>1, <2>1
<1>12. CASE Receive
  <2>1. Reads
    BY <1>12 DEF Receive, Reads
  <2>2. job[NextSid] \in [state : {"none", "running", "done", "finalized"}, rows : Seq(Rows)]
    BY <2>1, SidIs DEF TypeOK
  <2>3. Answer(job[NextSid].rows, job[NextSid].state) \in Result
    BY <1>12, <2>2, AnswerIs DEF Receive, TypeOK
  <2>4. Shown
    BY <1>12, <2>1, <2>3 DEF Receive
  <2> QED BY <1>1, <2>4
<1>13. CASE Break
  <2>1. Shown
    BY <1>13, FailedIs DEF Break, Reads
  <2> QED BY <1>1, <2>1
<1>14. CASE GiveUp
  <2>1. Form[op] # "sql"
    BY <1>14 DEF GiveUp, ShapeInv
  <2> QED BY <1>2, <1>14, <2>1 DEF GiveUp, Reads
<1>15. CASE Cancel
  <2>1. Shown
    BY <1>15, FailedIs DEF Cancel, Reads
  <2> QED BY <1>1, <2>1
<1>16. CASE Turn
  <2>1. /\ phase = "page" /\ ~ PageStops /\ phase' = "ready" /\ offset' = Page.next
        /\ UNCHANGED <<op, mode, pages, searches>>
    BY <1>16 DEF Turn
  <2>2. /\ pages # << >> /\ offset = From(op, Len(pages)) /\ searches >= 1
        /\ Page.next = offset + TargetLimit(op) /\ mode = "walk" /\ Len(pages) # MaxPages
    BY <2>1 DEF ShapeInv, PagesInv, PageStops
  <2>3. Len(pages) \in Nat \ {0}
    BY <1>0, <2>2
  <2>4. From(op, Len(pages) + 1) = From(op, Len(pages)) + TargetLimit(op)
    BY <1>0, <2>3, PageStart
  <2>5. Len(pages) < MaxPages
    BY <1>0, <2>2, <2>3 DEF TypeOK
  <2> QED BY <2>1, <2>2, <2>4, <2>5 DEF ShapeInv, Reads
<1>17. CASE Finish
  <2>1. CASE phase' = "controls" /\ mode # "walk" /\ UNCHANGED <<pages, offset>>
    <3>1. phase = "page" /\ UNCHANGED <<op, mode, searches>>
      BY <1>17 DEF Finish
    <3>2. pages # << >> /\ offset = From(op, Len(pages)) /\ Len(pages) = 1 /\ searches >= 1
      BY <2>1, <3>1 DEF ShapeInv
    <3> HIDE DEF Shown
    <3> QED BY <2>1, <3>1, <3>2 DEF ShapeInv, Reads
  <2> QED BY <1>3, <1>17, <2>1 DEF Finish
<1>18. CASE Controls
  BY <1>3, <1>18 DEF Controls
<1>19. CASE UNCHANGED vars
  BY <1>4, <1>19 DEF vars
<1> QED BY <1>5, <1>6, <1>7, <1>8, <1>9, <1>10, <1>11, <1>12, <1>13, <1>14, <1>15, <1>16,
          <1>17, <1>18, <1>19 DEF Next, Client, Serve

LEMMA AskedStep ==
    TypeOK /\ AskedInv /\ [Next]_vars => AskedInv'
<1> SUFFICES ASSUME TypeOK, AskedInv, [Next]_vars PROVE AskedInv'
  OBVIOUS
<1>0. stored \in Nat /\ asked.stored \in Nat
  BY SearchAssumption DEF TypeOK
<1>1. ASSUME UNCHANGED <<server, asked>> PROVE AskedInv'
  BY <1>1 DEF AskedInv, server
<1>2. ASSUME Return, UNCHANGED server PROVE AskedInv'
  BY <1>0, <1>2 DEF AskedInv, Return, server
<1>3. CASE Arrive
  BY <1>0, <1>3 DEF Arrive, AskedInv
<1>4. CASE Settle
  BY <1>4 DEF Settle, AskedInv
<1>5. CASE Begin
  BY <1>0, <1>5 DEF Begin, AskedInv, server
<1>6. CASE Finish
  BY <1>1, <1>2, <1>6 DEF Finish
<1>7. CASE Controls
  BY <1>2, <1>7 DEF Controls
<1>8. CASE Select \/ Submit \/ Reject \/ Receive \/ Break \/ GiveUp \/ Cancel \/ Turn
  BY <1>1, <1>8 DEF Select, Submit, Reject, Receive, Break, GiveUp, Cancel, Turn
<1>9. CASE Serve
  BY <1>1, <1>9 DEF Serve, Run
<1>10. CASE UNCHANGED vars
  BY <1>1, <1>10 DEF vars
<1> QED BY <1>3, <1>4, <1>5, <1>6, <1>7, <1>8, <1>9, <1>10 DEF Next, Client

-----------------------------------------------------------------------------
(* The pages that were read.                                               *)

LEMMA PagesStep ==
    TypeOK /\ ShapeInv /\ PagesInv /\ [Next]_vars => PagesInv'
<1> SUFFICES ASSUME TypeOK, ShapeInv, PagesInv, [Next]_vars PROVE PagesInv'
  OBVIOUS
<1>0. pages \in Seq(Result) /\ Len(pages) \in Nat /\ MaxPages \in Nat \ {0}
  BY SearchAssumption DEF TypeOK
<1>1. ASSUME Reads, phase' = "page", UNCHANGED <<op, offset>>, NEW r, pages' = Append(pages, r),
             r.ok <=> r.reason \in {"done", "finalized"},
             r.ok => r.next = offset + TargetLimit(op)
      PROVE  PagesInv'
  <2>1. /\ Len(pages') = Len(pages) + 1 /\ pages'[Len(pages) + 1] = r
        /\ \A i \in 1 .. Len(pages) : pages'[i] = pages[i]
    BY <1>0, <1>1
  <2>2. 1 .. Len(pages) + 1 = (1 .. Len(pages)) \cup {Len(pages) + 1}
    BY <1>0
  <2>3. Page' = r
    BY <2>1 DEF Page, Last
  <2>4. ASSUME NEW i \in 1 .. Len(pages')
        PROVE  pages'[i].ok <=> pages'[i].reason \in {"done", "finalized"}
    BY <1>1, <2>1, <2>2 DEF PagesInv
  <2>5. ASSUME NEW i \in 1 .. Len(pages'), i < Len(pages') \/ Reads'
        PROVE  pages'[i].ok /\ ~ pages'[i].complete
    <3>1. i < Len(pages')
      BY <1>1, <2>5 DEF Reads
    <3>2. i \in 1 .. Len(pages)
      BY <1>0, <2>1, <3>1
    <3> QED BY <1>1, <2>1, <3>2 DEF PagesInv
  <2> QED BY <1>1, <2>3, <2>4, <2>5 DEF PagesInv
<1>2. ASSUME pages' = << >>, phase' # "page" PROVE PagesInv'
  BY <1>2 DEF PagesInv
<1>3. ASSUME UNCHANGED <<op, offset, pages>>, Reads' => Reads, phase' = "page" => phase = "page"
      PROVE  PagesInv'
  <2>1. Page' = Page
    BY <1>3 DEF Page
  <2> QED BY <1>3, <2>1 DEF PagesInv
<1>4. \A rows, reason : reason \in {"done", "finalized"} =>
         LET r == Answer(rows, reason)
         IN  /\ r.ok <=> r.reason \in {"done", "finalized"}
             /\ r.ok => r.next = offset + TargetLimit(op)
  BY DEF Answer
<1>5. \A reason \in {"rejected", "broken", "client_timeout_cancelled_sid"} :
         LET r == Failed(reason)
         IN  /\ r.ok <=> r.reason \in {"done", "finalized"}
             /\ r.ok => r.next = offset + TargetLimit(op)
  BY DEF Failed
<1>6. CASE Select
  <2>1. PICK r \in {Answer(SqlPage(Oldest(stored), offset), "done"), Failed("broken")} :
           pages' = Append(pages, r)
    BY <1>6 DEF Select
  <2>2. Reads /\ phase' = "page" /\ UNCHANGED <<op, offset>>
    BY <1>6 DEF Select, Reads
  <2> QED BY <1>1, <1>4, <1>5, <2>1, <2>2
<1>7. CASE Reject
  <2>1. Reads /\ phase' = "page" /\ UNCHANGED <<op, offset>> /\ pages' = Append(pages, Failed("rejected"))
    BY <1>7 DEF Reject, Reads
  <2> QED BY <1>1, <1>5, <2>1
<1>8. CASE Receive
  <2> DEFINE r == Answer(job[NextSid].rows, job[NextSid].state)
  <2>1. /\ Reads /\ phase' = "page" /\ UNCHANGED <<op, offset>> /\ pages' = Append(pages, r)
        /\ job[NextSid].state \in {"done", "finalized"}
    BY <1>8 DEF Receive, Reads
  <2> QED BY <1>1, <1>4, <2>1
<1>9. CASE Break
  <2>1. Reads /\ phase' = "page" /\ UNCHANGED <<op, offset>> /\ pages' = Append(pages, Failed("broken"))
    BY <1>9 DEF Break, Reads
  <2> QED BY <1>1, <1>5, <2>1
<1>10. CASE Cancel
  <2>1. /\ Reads /\ phase' = "page" /\ UNCHANGED <<op, offset>>
        /\ pages' = Append(pages, Failed("client_timeout_cancelled_sid"))
    BY <1>10 DEF Cancel, Reads
  <2> QED BY <1>1, <1>5, <2>1
<1>11. CASE Turn
  <2>1. phase = "page" /\ ~ PageStops /\ phase' = "ready" /\ UNCHANGED <<op, pages>>
    BY <1>11 DEF Turn
  <2>2. pages # << >> /\ Page.ok /\ ~ Page.complete
    BY <2>1 DEF ShapeInv, PageStops
  <2>3. Page = pages[Len(pages)]
    BY <1>0, <2>2, PageIs
  <2>4. ASSUME NEW i \in 1 .. Len(pages) PROVE pages[i].ok /\ ~ pages[i].complete
    <3>1. CASE i < Len(pages)
      BY <3>1 DEF PagesInv
    <3>2. CASE i = Len(pages)
      BY <2>2, <2>3, <3>2
    <3> QED BY <1>0, <3>1, <3>2
  <2> QED BY <2>1, <2>4 DEF PagesInv
<1>12. CASE Begin
  BY <1>2, <1>12 DEF Begin, ShapeInv
<1>13. CASE Finish
  <2>1. CASE phase' = "controls" /\ UNCHANGED <<pages, offset, op>>
    BY <1>3, <2>1 DEF Reads
  <2>2. CASE Return
    BY <1>2, <2>2 DEF Return
  <2> QED BY <1>13, <2>1, <2>2 DEF Finish
<1>14. CASE Controls
  BY <1>2, <1>14 DEF Controls, Return
<1>15. CASE Submit \/ GiveUp
  BY <1>3, <1>15 DEF Submit, GiveUp, Reads
<1>16. CASE Serve \/ Arrive \/ Settle
  BY <1>3, <1>16 DEF Serve, Run, Arrive, Settle, Reads
<1>17. CASE UNCHANGED vars
  BY <1>3, <1>17 DEF vars, Reads
<1> QED BY <1>6, <1>7, <1>8, <1>9, <1>10, <1>11, <1>12, <1>13, <1>14, <1>15, <1>16,
          <1>17 DEF Next, Client

-----------------------------------------------------------------------------
(* When each page was read.                                                *)

LEMMA TracedEmpty ==
    ASSUME NEW o, NEW low, NEW high
    PROVE  Traced(<< >>, o, low, high)
<1>1. << >> \in [1 .. Len(<< >>) -> low .. high]
  OBVIOUS
<1>2. IsTrace(<< >>, o, << >>, low, high)
  BY <1>1 DEF IsTrace
<1> QED BY <1>1, <1>2 DEF Traced

LEMMA TracedLater ==
    ASSUME NEW o, NEW results \in Seq(Result), NEW low \in Nat, NEW high \in Nat,
           NEW later \in Nat, high <= later, Traced(results, o, low, high)
    PROVE  Traced(results, o, low, later)
<1> SUFFICES ASSUME \A i \in 1 .. Len(results) : results[i].reason = "done"
             PROVE  \E times \in [1 .. Len(results) -> low .. later] :
                       IsTrace(results, o, times, low, later)
  BY DEF Traced
<1>1. PICK times \in [1 .. Len(results) -> low .. high] : IsTrace(results, o, times, low, high)
  BY DEF Traced
<1>2. times \in [1 .. Len(results) -> low .. later]
  <2>1. low .. high \subseteq low .. later
    OBVIOUS
  <2> QED BY <2>1
<1>3. IsTrace(results, o, times, low, later)
  BY <1>1, <1>2 DEF IsTrace
<1> QED BY <1>2, <1>3

\* Page is what a search reads of n records at its i-th page.
ReadsPage(page, o, n, i) ==
    LET got == Fetched(o, n, From(o, i))
    IN  /\ page.rows = FirstRows(got, TargetLimit(o))
        /\ page.complete = (Len(got) <= TargetLimit(o))

LEMMA TracedAppend ==
    ASSUME NEW o, NEW results \in Seq(Result), NEW low \in Nat, NEW high \in Nat, low <= high,
           Traced(results, o, low, high), NEW page \in Result,
           page.reason = "done" => ReadsPage(page, o, high, Len(results) + 1)
    PROVE  Traced(Append(results, page), o, low, high)
<1> DEFINE m == Len(results)
           more == Append(results, page)
<1>1. /\ m \in Nat /\ Len(more) = m + 1 /\ more[m + 1] = page
      /\ \A i \in 1 .. m : more[i] = results[i]
  OBVIOUS
<1> HIDE DEF more, m
<1>2. 1 .. m + 1 = (1 .. m) \cup {m + 1} /\ m + 1 \notin 1 .. m
  BY <1>1
<1> SUFFICES ASSUME \A i \in 1 .. m + 1 : more[i].reason = "done"
             PROVE  \E times \in [1 .. m + 1 -> low .. high] :
                       IsTrace(more, o, times, low, high)
  BY <1>1 DEF Traced, more
<1>3. PICK before \in [1 .. m -> low .. high] : IsTrace(results, o, before, low, high)
  BY <1>1, <1>2 DEF Traced, m
<1> DEFINE times == [i \in 1 .. m + 1 |-> IF i \in 1 .. m THEN before[i] ELSE high]
<1>4. times \in [1 .. m + 1 -> low .. high]
  <2>1. high \in low .. high
    OBVIOUS
  <2> QED BY <1>3, <2>1
<1>5. times[m + 1] = high /\ \A i \in 1 .. m : times[i] = before[i]
  BY <1>2
<1> HIDE DEF times
<1>6. ASSUME NEW i \in 1 .. m + 1 PROVE ReadsPage(more[i], o, times[i], i)
  <2>1. CASE i \in 1 .. m
    <3>1. ReadsPage(results[i], o, before[i], i)
      BY <1>3, <2>1 DEF IsTrace, ReadsPage, m
    <3> QED BY <1>1, <1>5, <2>1, <3>1
  <2>2. CASE i = m + 1
    BY <1>1, <1>5, <2>2 DEF m
  <2> QED BY <1>2, <2>1, <2>2
<1>7. ASSUME NEW i \in 1 .. m + 1, NEW j \in 1 .. m + 1, i <= j PROVE times[i] <= times[j]
  <2>1. \A k \in 1 .. m + 1 : times[k] \in Int /\ times[k] <= high
    BY <1>4
  <2>2. CASE j \in 1 .. m
    <3>1. i \in 1 .. m
      BY <1>1, <1>7, <2>2
    <3>2. \A k, l \in 1 .. m : k <= l => before[k] <= before[l]
      BY <1>3, Zenon DEF IsTrace, m
    <3>3. before[i] <= before[j]
      BY <1>7, <2>2, <3>1, <3>2, Zenon
    <3> QED BY <1>5, <2>2, <3>1, <3>3
  <2>3. CASE j = m + 1
    BY <1>5, <2>1, <2>3
  <2> QED BY <1>2, <2>2, <2>3
<1>8. IsTrace(more, o, times, low, high)
  BY <1>1, <1>4, <1>6, <1>7 DEF IsTrace, ReadsPage
<1> QED BY <1>4, <1>8

LEMMA TraceStep ==
    TypeOK /\ ShapeInv /\ AskedInv /\ PagesInv /\ TraceInv /\ [Next]_vars => TraceInv'
<1> SUFFICES ASSUME TypeOK, ShapeInv, AskedInv, PagesInv, TraceInv, [Next]_vars
             PROVE  TraceInv'
  OBVIOUS
<1> DEFINE low == asked.stored
<1>0. /\ op \in Ops /\ stored \in 0 .. MaxStored /\ stored \in Nat /\ low \in Nat
      /\ low <= stored /\ offset \in Nat /\ pages \in Seq(Result) /\ Len(pages) \in Nat
  BY SearchAssumption DEF TypeOK, AskedInv
<1>1. Traced(pages, op, low, stored) /\ Traced(Reading, op, low, stored)
  BY DEF TraceInv
<1>2. ASSUME phase # "waiting" PROVE Reading = pages
  BY <1>2 DEF Reading
\* A page that fails is read.
<1>3. ASSUME UNCHANGED <<op, asked, stored>>, phase' # "waiting", NEW r \in Result,
             r.reason # "done", pages' = Append(pages, r)
      PROVE  TraceInv'
  <2>1. Traced(pages', op, low, stored)
    BY <1>0, <1>1, <1>3, TracedAppend
  <2>2. Reading' = pages'
    BY <1>3 DEF Reading
  <2> QED BY <1>3, <2>1, <2>2 DEF TraceInv
\* No page is read.
<1>4. ASSUME UNCHANGED <<op, asked, stored, pages>>, Reading' \in {pages, Reading}
      PROVE  TraceInv'
  BY <1>1, <1>4 DEF TraceInv
<1>5. ASSUME pages' = << >>, phase' # "waiting" PROVE TraceInv'
  <2>1. Reading' = << >>
    BY <1>5 DEF Reading
  <2> QED BY <1>5, <2>1, TracedEmpty DEF TraceInv
<1>6. CASE Arrive
  <2>1. stored' = stored + 1 /\ Reading' = Reading /\ UNCHANGED <<op, asked, pages>>
    BY <1>6 DEF Arrive, Reading, NextSid, Answer
  <2>2. Reading \in Seq(Result)
    <3>1. CASE phase = "waiting" /\ job[NextSid].state \in {"done", "finalized"}
      <4>1. NextSid \in Sids
        BY <3>1, SidIs DEF Reads
      <4>2. job[NextSid].rows \in Seq(Rows)
        BY <4>1 DEF TypeOK
      <4>3. Answer(job[NextSid].rows, job[NextSid].state) \in Result
        BY <1>0, <3>1, <4>2, AnswerIs
      <4> QED BY <1>0, <3>1, <4>3 DEF Reading
    <3> QED BY <1>0, <3>1 DEF Reading
  <2>3. stored' \in Nat /\ stored <= stored'
    BY <1>0, <2>1
  <2>4. Traced(pages, op, low, stored') /\ Traced(Reading, op, low, stored')
    BY <1>0, <1>1, <2>2, <2>3, TracedLater
  <2> QED BY <2>1, <2>4 DEF TraceInv
<1>7. CASE Settle
  BY <1>4, <1>7 DEF Settle, Reading, NextSid, Answer
<1>8. ASSUME NEW s \in Sids, Run(s) PROVE TraceInv'
  <2>1. UNCHANGED <<op, asked, stored, pages, offset, phase, searches>>
    BY <1>8 DEF Run, server
  <2>2. NextSid' = NextSid /\ \A rows, reason : Answer(rows, reason)' = Answer(rows, reason)
    BY <2>1 DEF NextSid, Answer
  <2>3. CASE phase = "waiting" /\ s = NextSid
    <3>0. Form[op] # "sql" /\ offset = From(op, Len(pages) + 1)
      BY <2>3 DEF ShapeInv, Reads
    <3>1. CASE job' = [job EXCEPT ![s] = Ended("done", Newest(stored))]
      <4> DEFINE got == Search(op, Newest(stored), offset)
                 page == Answer(got, "done")
      <4>1. job'[s].state = "done" /\ job'[s].rows = got
        BY <3>1 DEF Ended, TypeOK
      <4>2. Reading' = Append(pages, page)
        BY <2>1, <2>2, <2>3, <4>1 DEF Reading, NextSid, Answer
      <4>3. got = Fetched(op, stored, From(op, Len(pages) + 1)) /\ got \in Seq(Rows)
        BY <1>0, <3>0, SearchIs, FetchedIs
      <4>4. page \in Result
        BY <1>0, <4>3, AnswerIs
      <4>5. ReadsPage(page, op, stored, Len(pages) + 1)
        BY <4>3 DEF Answer, ReadsPage
      <4>6. Traced(Append(pages, page), op, low, stored)
        BY <1>0, <1>1, <4>4, <4>5, TracedAppend
      <4> HIDE DEF page
      <4> QED BY <1>1, <2>1, <4>2, <4>6 DEF TraceInv
    <3>2. ASSUME NEW n \in 0 .. stored,
                 job' = [job EXCEPT ![s] = Ended("finalized", FirstRows(Newest(stored), n))]
          PROVE  TraceInv'
      <4> DEFINE got == Search(op, FirstRows(Newest(stored), n), offset)
                 page == Answer(got, "finalized")
      <4>1. job'[s].state = "finalized" /\ job'[s].rows = got
        BY <3>2 DEF Ended, TypeOK
      <4>2. Reading' = Append(pages, page)
        BY <2>1, <2>2, <2>3, <4>1 DEF Reading, NextSid, Answer
      <4>3. got \in Seq(Rows)
        <5>1. n \in Nat /\ Newest(stored) \in Seq(Rows)
          BY <1>0, NewestIs
        <5>2. FirstRows(Newest(stored), n) \in Seq(Rows)
          BY <5>1, FirstRowsIs
        <5> QED BY <1>0, <3>0, <5>2, SearchTypes
      <4>4. page \in Result /\ page.reason # "done"
        <5>1. page \in Result
          BY <1>0, <4>3, AnswerIs
        <5> QED BY <5>1 DEF Answer
      <4>5. Traced(Append(pages, page), op, low, stored)
        BY <1>0, <1>1, <4>4, TracedAppend
      <4> HIDE DEF page
      <4> QED BY <1>1, <2>1, <4>2, <4>5 DEF TraceInv
    <3> QED BY <1>8, <2>3, <3>1, <3>2 DEF Run
  <2>4. CASE ~ (phase = "waiting" /\ s = NextSid)
    <3>1. job' = [job EXCEPT ![s] = NoJob]
      BY <1>8, <2>4 DEF Run
    <3>2. phase = "waiting" => job'[NextSid] = job[NextSid]
      <4>1. phase = "waiting" => NextSid \in Sids
        BY SidIs DEF Reads
      <4> QED BY <2>4, <3>1, <4>1 DEF TypeOK
    <3>3. Reading' = Reading
      BY <2>1, <2>2, <3>2 DEF Reading, NextSid, Answer
    <3> QED BY <1>4, <2>1, <3>3
  <2> QED BY <2>3, <2>4
<1>9. CASE Begin
  BY <1>5, <1>9 DEF Begin, ShapeInv
<1>10. CASE Select
  <2>1. /\ UNCHANGED <<op, asked, stored>> /\ phase' # "waiting" /\ Form[op] = "sql"
        /\ offset = From(op, Len(pages) + 1)
    BY <1>10 DEF Select, server, ShapeInv, Reads
  <2>2. CASE pages' = Append(pages, Failed("broken"))
    BY <1>3, <2>1, <2>2, FailedIs DEF Failed
  <2>3. CASE pages' = Append(pages, Answer(SqlPage(Oldest(stored), offset), "done"))
    <3> DEFINE got == SqlPage(Oldest(stored), offset)
               page == Answer(got, "done")
    <3>1. got = Fetched(op, stored, From(op, Len(pages) + 1)) /\ got \in Seq(Rows)
      <4>1. got = Fetched(op, stored, offset)
        BY <2>1 DEF Fetched
      <4> QED BY <1>0, <2>1, <4>1, FetchedIs
    <3>2. page \in Result
      BY <1>0, <3>1, AnswerIs
    <3>3. ReadsPage(page, op, stored, Len(pages) + 1)
      BY <3>1 DEF Answer, ReadsPage
    <3>4. Traced(Append(pages, page), op, low, stored)
      BY <1>0, <1>1, <3>2, <3>3, TracedAppend
    <3>5. Reading' = pages'
      BY <2>1 DEF Reading
    <3> HIDE DEF page
    <3> QED BY <2>1, <2>3, <3>4, <3>5 DEF TraceInv, page
  <2> QED BY <1>10, <2>2, <2>3 DEF Select
<1>11. CASE Submit
  <2>1. UNCHANGED <<op, asked, stored, pages, searches>>
    BY <1>11 DEF Submit, server
  <2>2. NextSid' = NextSid /\ NextSid \in Sids
    BY <1>11, <2>1, SidIs DEF NextSid, Submit, Reads
  <2>3. job'[NextSid].state = "running"
    BY <1>11, <2>2 DEF Submit, TypeOK
  <2>4. Reading' = pages
    BY <2>1, <2>2, <2>3 DEF Reading
  <2> QED BY <1>4, <2>1, <2>4
<1>12. CASE Reject
  BY <1>3, <1>12, FailedIs DEF Reject, server, Failed
<1>13. CASE Receive
  <2>1. Reading = Append(pages, Answer(job[NextSid].rows, job[NextSid].state))
    BY <1>13 DEF Receive, Reading
  <2>2. /\ pages' = Reading /\ phase' # "waiting" /\ UNCHANGED <<op, asked, stored>>
    BY <1>13, <2>1 DEF Receive, server
  <2>3. Reading' = pages'
    BY <2>2 DEF Reading
  <2> QED BY <1>1, <2>2, <2>3 DEF TraceInv
<1>14. CASE Break
  BY <1>3, <1>14, FailedIs DEF Break, server, Failed
<1>15. CASE GiveUp
  <2>1. Reading' = pages
    BY <1>15 DEF GiveUp, Reading
  <2> QED BY <1>4, <1>15, <2>1 DEF GiveUp, server
<1>16. CASE Cancel
  BY <1>3, <1>16, FailedIs DEF Cancel, server, Failed
<1>17. CASE Turn
  <2>1. Reading' = pages
    BY <1>17 DEF Turn, Reading
  <2> QED BY <1>4, <1>17, <2>1 DEF Turn, server
<1>18. CASE Finish
  <2>1. phase' # "waiting" /\ UNCHANGED <<server, op>>
    BY <1>18 DEF Finish, Return
  <2>2. CASE UNCHANGED <<pages, offset, asked>>
    <3>1. Reading' = pages
      BY <2>1, <2>2 DEF Reading
    <3> QED BY <1>4, <2>1, <2>2, <3>1 DEF server
  <2>3. CASE Return
    BY <1>5, <2>1, <2>3 DEF Return
  <2> QED BY <1>18, <2>2, <2>3 DEF Finish
<1>19. CASE Controls
  BY <1>5, <1>19 DEF Controls, Return
<1>20. CASE UNCHANGED vars
  <2>1. Reading' = Reading
    BY <1>20 DEF vars, Reading, NextSid, Answer
  <2> QED BY <1>4, <1>20, <2>1 DEF vars, server
<1> QED BY <1>6, <1>7, <1>8, <1>9, <1>10, <1>11, <1>12, <1>13, <1>14, <1>15, <1>16, <1>17,
          <1>18, <1>19, <1>20 DEF Next, Client, Serve

-----------------------------------------------------------------------------
(* Negatives.                                                              *)

LEMMA EmptyIsNone ==
    ASSUME TypeOK, ShapeInv, PagesInv, TraceInv, AskedInv,
           phase = "controls", Page.rows = << >>, Page.reason = "done"
    PROVE  asked.stored = 0
<1>1. /\ op \in Ops /\ pages \in Seq(Result) /\ Len(pages) = 1 /\ stored \in 0 .. MaxStored
      /\ asked.stored \in 0 .. MaxStored /\ pages # << >>
  BY DEF TypeOK, ShapeInv
<1>2. Page = pages[1] /\ 1 \in 1 .. Len(pages)
  BY <1>1, PageIs
<1>3. \A i \in 1 .. Len(pages) : pages[i].reason = "done"
  BY <1>1, <1>2
<1>4. PICK times : IsTrace(pages, op, times, asked.stored, stored)
  BY <1>3 DEF TraceInv, Traced
<1> DEFINE got == Fetched(op, times[1], From(op, 1))
           T == TargetLimit(op)
<1>5. /\ times[1] \in 0 .. MaxStored /\ asked.stored <= times[1] /\ From(op, 1) \in Nat
      /\ got \in Seq(Rows)
      /\ Len(pages[1].rows) = IF T <= Len(got) THEN T ELSE Len(got)
  BY <1>1, <1>2, <1>4, PageShows
<1>6. T \in Nat \ {0} /\ From(op, 1) = 0
  BY <1>1, LimitIs, PageStart
<1>7. Len(pages[1].rows) = 0
  BY <1>2
<1>8. Len(got) = 0
  <2> HIDE DEF got, T
  <2>1. Len(got) \in Nat
    BY <1>5
  <2> QED BY <1>5, <1>6, <1>7, <2>1
<1>9. got = << >>
  <2> HIDE DEF got
  <2> QED BY <1>5, <1>8
<1>10. times[1] = 0
  BY <1>1, <1>5, <1>6, <1>9, FetchedIs
<1> QED BY <1>1, <1>5, <1>10, SearchAssumption

LEMMA LicensedStep ==
    SearchInv /\ [Next]_vars => LicensedInv'
<1> SUFFICES ASSUME SearchInv, [Next]_vars PROVE LicensedInv'
  OBVIOUS
<1>0. TypeOK /\ ShapeInv /\ AskedInv /\ PagesInv /\ TraceInv /\ LicensedInv
  BY DEF SearchInv
<1>1. ASSUME UNCHANGED <<server, licensed>> PROVE LicensedInv'
  BY <1>0, <1>1 DEF LicensedInv, server
<1>2. CASE Arrive
  BY <1>0, <1>2 DEF Arrive, LicensedInv
<1>3. CASE Settle
  BY <1>0, <1>3 DEF Settle, LicensedInv
<1>4. CASE Controls
  <2>1. phase = "controls" /\ UNCHANGED server
    BY <1>4 DEF Controls
  <2> DEFINE new == [settled |-> asked.settled, cut |-> Page.reason = "finalized"]
  <2>2. \/ licensed' = licensed
        \/ licensed' = licensed \cup {new} /\ Page.ok /\ Page.rows = << >>
    BY <1>4 DEF Controls, License
  <2>3. CASE licensed' = licensed
    BY <1>1, <2>1, <2>3
  <2>4. CASE licensed' = licensed \cup {new} /\ Page.ok /\ Page.rows = << >>
    <3>1. ASSUME new.settled, ~ new.cut PROVE settled /\ stored = 0
      <4>1. Page.reason \in {"done", "finalized"}
        <5>1. pages \in Seq(Result) /\ pages # << >>
          BY <1>0, <2>1 DEF TypeOK, ShapeInv
        <5>2. Page = pages[Len(pages)] /\ Len(pages) \in 1 .. Len(pages)
          BY <5>1, PageIs
        <5> QED BY <1>0, <2>4, <5>2 DEF PagesInv
      <4>2. Page.reason = "done" /\ asked.settled
        BY <3>1, <4>1
      <4>3. asked.stored = 0
        BY <1>0, <2>1, <2>4, <4>2, EmptyIsNone
      <4> QED BY <1>0, <4>2, <4>3 DEF AskedInv
    <3> HIDE DEF new
    <3>2. ASSUME NEW l \in licensed', l.settled, ~ l.cut PROVE settled /\ stored = 0
      <4>1. CASE l \in licensed
        BY <1>0, <3>2, <4>1 DEF LicensedInv
      <4>2. CASE l = new
        BY <3>1, <3>2, <4>2
      <4> QED BY <2>4, <4>1, <4>2
    <3> QED BY <2>1, <3>2 DEF LicensedInv, server
  <2> QED BY <2>2, <2>3, <2>4
<1>5. CASE Begin \/ Select \/ Submit \/ Reject \/ Receive \/ Break
  BY <1>1, <1>5 DEF Begin, Select, Submit, Reject, Receive, Break
<1>6. CASE GiveUp \/ Cancel \/ Turn \/ Finish
  BY <1>1, <1>6 DEF GiveUp, Cancel, Turn, Finish
<1>7. CASE Serve
  BY <1>1, <1>7 DEF Serve, Run
<1>8. CASE UNCHANGED vars
  BY <1>1, <1>8 DEF vars
<1> QED BY <1>2, <1>3, <1>4, <1>5, <1>6, <1>7, <1>8 DEF Next, Client

-----------------------------------------------------------------------------
(* The theorems.                                                           *)

LEMMA SearchInit == Init => SearchInv
<1> SUFFICES ASSUME Init PROVE SearchInv
  OBVIOUS
<1>0. MaxStored \in Nat /\ MaxPages \in Nat \ {0} /\ MaxSearches \in Nat \ {0} /\ Ops # {}
  BY SearchAssumption
<1>1. TypeOK
  <2>1. << >> \in Seq(Rows) /\ << >> \in Seq(Result) /\ Len(<< >>) = 0
    OBVIOUS
  <2>2. op \in Ops
    BY <1>0 DEF Init
  <2>3. job \in [Sids -> [state : {"none", "running", "done", "finalized"}, rows : Seq(Rows)]]
    <3>1. NoJob \in [state : {"none", "running", "done", "finalized"}, rows : Seq(Rows)]
      BY <2>1 DEF NoJob
    <3> QED BY <3>1 DEF Init
  <2>4. asked \in [stored : 0 .. MaxStored, settled : BOOLEAN]
    BY <1>0 DEF Init
  <2> QED BY <1>0, <2>1, <2>2, <2>3, <2>4 DEF TypeOK, Init
<1>2. ShapeInv
  BY DEF Init, ShapeInv, Reads
<1>3. AskedInv
  BY <1>0 DEF Init, AskedInv
<1>4. PagesInv
  BY DEF Init, PagesInv
<1>5. TraceInv
  <2>1. pages = << >> /\ Reading = << >>
    BY DEF Init, Reading
  <2> QED BY <2>1, TracedEmpty DEF TraceInv
<1>6. LicensedInv
  BY DEF Init, LicensedInv
<1> QED BY <1>1, <1>2, <1>3, <1>4, <1>5, <1>6 DEF SearchInv

LEMMA SearchSteps == SearchInv /\ [Next]_vars => SearchInv'
<1> SUFFICES ASSUME SearchInv, [Next]_vars PROVE SearchInv'
  OBVIOUS
<1>1. TypeOK /\ ShapeInv /\ AskedInv /\ PagesInv /\ TraceInv
  BY DEF SearchInv
<1>2. TypeOK'
  BY <1>1, TypeStep
<1>3. ShapeInv'
  BY <1>1, ShapeStep
<1>4. AskedInv'
  BY <1>1, AskedStep
<1>5. PagesInv'
  BY <1>1, PagesStep
<1>6. TraceInv'
  BY <1>1, TraceStep
<1>7. LicensedInv'
  BY LicensedStep
<1> QED BY <1>2, <1>3, <1>4, <1>5, <1>6, <1>7 DEF SearchInv

LEMMA SearchesKeep == Spec => []SearchInv
  BY SearchInit, SearchSteps, PTL DEF Spec

\* The variables of a search keep their types; its page is never one more
\* than there may be (m5_adapter/splunk_adapter.py, planner/semantic_executor.py).
THEOREM SearchKeepsTypes == Spec => []TypeOK
<1>1. SearchInv => TypeOK
  BY DEF SearchInv
<1> QED BY <1>1, SearchesKeep, PTL

LEMMA ReadIs ==
    ASSUME TypeOK
    PROVE  /\ Read = ReadOf(pages) /\ DOMAIN pages = 1 .. Len(pages)
           /\ op \in Ops /\ pages \in Seq(Result)
           /\ stored \in 0 .. MaxStored /\ asked.stored \in 0 .. MaxStored
<1>1. pages \in Seq(Result) /\ DOMAIN pages = 1 .. Len(pages)
  BY DEF TypeOK
<1>2. Read = ReadOf(pages)
  BY <1>1 DEF Read, ReadOf
<1> QED BY <1>1, <1>2 DEF TypeOK

LEMMA PagesGoOn ==
    ASSUME TypeOK, PagesInv
    PROVE  GoesOn(pages)
  BY DEF PagesInv, GoesOn

\* Whatever is indexed between two pages, no page begins below the end of the
\* one before, but for the row the first page fetched beyond its limit:
\* PageClause of _build_spl asks for the rows behind the offset, an offset
\* only falls behind as records come, and every page after the first keeps
\* one row more at its end in place of the one it should begin with.
THEOREM PagesDoJoin == Spec => []PagesJoin
<1>1. SearchInv => PagesJoin
  <2> SUFFICES ASSUME SearchInv, Served PROVE PagesJoin
    BY DEF PagesJoin
  <2>1. /\ Read = ReadOf(pages) /\ DOMAIN pages = 1 .. Len(pages)
        /\ op \in Ops /\ pages \in Seq(Result) /\ GoesOn(pages)
        /\ stored \in 0 .. MaxStored /\ asked.stored \in 0 .. MaxStored
    BY ReadIs, PagesGoOn DEF SearchInv
  <2>2. PICK times : IsTrace(pages, op, times, asked.stored, stored)
    BY <2>1 DEF SearchInv, TraceInv, Traced, Served
  <2>3. ASSUME Paged, NEW r \in Read, NEW s \in (r .. asked.stored) \ Read
        PROVE  s = Last(pages[1].rows) - 1
    BY <2>1, <2>2, <2>3, RecordsJoin DEF Paged
  <2>4. ASSUME Form[op] = "sql", NEW r \in Read PROVE 1 .. r \subseteq Read
    BY <2>1, <2>2, <2>4, SqlJoin
  <2>5. ASSUME Form[op] = "candidates", stored = asked.stored
        PROVE  \E k \in 0 .. Len(Candidates(stored)) :
                  /\ Read \subseteq Range(FirstRows(Candidates(stored), k))
                  /\ \A c \in Range(FirstRows(Candidates(stored), k)) \ Read :
                        c = Candidates(stored)[Limit + 1]
    <3>1. IsTrace(pages, op, times, stored, stored)
      BY <2>2, <2>5
    <3> QED BY <2>1, <2>5, <3>1, CandidatesJoin
  <2> QED BY <2>3, <2>4, <2>5 DEF PagesJoin, Candidates
<1> QED BY <1>1, SearchesKeep, PTL

\* A result that is called complete holds everything there was when the
\* search began: a page says so only when it was one row short of what it
\* asked for.
THEOREM CompleteMeansWhole == Spec => []CompleteIsWhole
<1>1. SearchInv => CompleteIsWhole
  <2> SUFFICES ASSUME SearchInv, pages # << >>, Page.complete, Served, Form[op] # "outbound"
               PROVE  /\ {Named[r] : r \in 1 .. asked.stored} \subseteq {Named[r] : r \in Read}
                      /\ Form[op] # "candidates" => 1 .. asked.stored \subseteq Read
    BY DEF CompleteIsWhole
  <2>1. /\ Read = ReadOf(pages) /\ DOMAIN pages = 1 .. Len(pages)
        /\ op \in Ops /\ pages \in Seq(Result) /\ GoesOn(pages)
        /\ stored \in 0 .. MaxStored /\ asked.stored \in 0 .. MaxStored
    BY ReadIs, PagesGoOn DEF SearchInv
  <2>2. PICK times : IsTrace(pages, op, times, asked.stored, stored)
    BY <2>1 DEF SearchInv, TraceInv, Traced, Served
  <2>3. pages[Len(pages)].complete
    BY <2>1, PageIs
  <2> QED BY <2>1, <2>2, <2>3, WholeIs
<1> QED BY <1>1, SearchesKeep, PTL

\* A negative that license_valid_negative grants to a query asked when the
\* ingestion was over, and answered in full, is one of an empty window.
THEOREM NegativesMeanAbsence == Spec => []LicensedIsAbsent
<1>1. SearchInv => LicensedIsAbsent
  BY DEF SearchInv, LicensedInv, LicensedIsAbsent
<1> QED BY <1>1, SearchesKeep, PTL
=============================================================================
