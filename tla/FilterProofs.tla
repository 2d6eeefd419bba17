---------------------------- MODULE FilterProofs ----------------------------
(***************************************************************************)
(* What Filter keeps of a list, of any length: by induction over the part  *)
(* of the list that has been looked at.  A property of a number is given   *)
(* as a set, so that the induction principle needs no operator parameter;  *)
(* it follows from the least element that every set of numbers has.        *)
(***************************************************************************)
EXTENDS Filter, Integers, WellFoundedInduction, TLAPS

\* Of some natural numbers one is the least.
LEMMA LeastNat ==
  ASSUME NEW S \in SUBSET Nat, S # {}
  PROVE  \E n \in S : \A m \in S : n <= m
<1> DEFINE R == OpToRel(<, Nat)
<1>1. IsWellFoundedOn(R, Nat)
  BY NatLessThanWellFounded
<1>2. \A x, y \in Nat : <<x, y>> \in R <=> x < y
  BY DEF OpToRel
<1> HIDE DEF R
<1>3. PICK n \in S : \A m \in S : ~ (<<m, n>> \in R)
  BY <1>1, WFMin
<1>4. \A m \in S : ~ (m < n)
  BY <1>2, <1>3
<1>5. \A m, k \in Nat : ~ (m < k) => k <= m
  OBVIOUS
<1> QED
  BY <1>4, <1>5

\* Induction up to n, for a property that is given as a set.
THEOREM SetInduction ==
  ASSUME NEW n \in Nat, NEW T, 0 \in T, \A i \in 1..n : i - 1 \in T => i \in T
  PROVE  \A i \in 0..n : i \in T
<1> DEFINE Bad == (0..n) \ T
<1> SUFFICES ASSUME Bad # {} PROVE FALSE
  OBVIOUS
<1>1. PICK i \in Bad : \A j \in Bad : i <= j
  <2>1. Bad \in SUBSET Nat
    OBVIOUS
  <2> HIDE DEF Bad
  <2> QED
    BY <2>1, LeastNat
<1>2. i \in 1..n /\ i \notin T
  BY <1>1
<1>3. i - 1 \in 0..n /\ i - 1 \notin Bad
  BY <1>1, <1>2
<1> QED
  BY <1>2, <1>3

-----------------------------------------------------------------------------
(* Filter is the last line of a table with a line for every part of s.       *)

Step(s, S, i, before) == IF s[i] \in S THEN Append(before, s[i]) ELSE before
Table(g, s, S, n) == g = [i \in 0..n |-> IF i = 0 THEN << >> ELSE Step(s, S, i, g[i - 1])]

\* There is such a table, whatever the list.
LEMMA TableExists ==
  ASSUME NEW s, NEW S, NEW n \in Nat
  PROVE  \E g : Table(g, s, S, n)
<1> DEFINE T == {m \in 0..n : \E g : Table(g, s, S, m)}
<1>1. 0 \in T
  <2> DEFINE g == [i \in 0..0 |-> << >>]
  <2>1. Table(g, s, S, 0)
    BY DEF Table
  <2> QED
    BY <2>1
<1>2. ASSUME NEW m \in 1..n, m - 1 \in T PROVE m \in T
  <2>1. m - 1 \in Nat
    BY <1>2
  <2>2. PICK g : Table(g, s, S, m - 1)
    BY <1>2
  <2> DEFINE h == [i \in 0..m |-> IF i < m THEN g[i] ELSE Step(s, S, m, g[m - 1])]
  <2>3. \A i \in 0..m : h[i] = IF i = 0 THEN << >> ELSE Step(s, S, i, h[i - 1])
    <3> SUFFICES ASSUME NEW i \in 0..m
                 PROVE  h[i] = IF i = 0 THEN << >> ELSE Step(s, S, i, h[i - 1])
      OBVIOUS
    <3>1. \A j \in 0..(m - 1) : g[j] = IF j = 0 THEN << >> ELSE Step(s, S, j, g[j - 1])
      BY <2>1, <2>2 DEF Table
    <3>2. CASE i = m
      BY <1>2, <2>1, <3>2
    <3>3. CASE i < m
      <4>1. i \in 0..(m - 1) /\ h[i] = g[i]
        BY <2>1, <3>3
      <4>2. i # 0 => h[i - 1] = g[i - 1]
        BY <2>1, <3>3
      <4> HIDE DEF h
      <4> QED
        BY <3>1, <4>1, <4>2
    <3> QED
      BY <3>2, <3>3
  <2>4. Table(h, s, S, m)
    <3>1. h = [i \in 0..m |-> h[i]]
      OBVIOUS
    <3> HIDE DEF h
    <3> QED
      BY <2>3, <3>1 DEF Table
  <2> QED
    BY <2>4
<1>3. n \in 0..n
  OBVIOUS
<1> HIDE DEF T
<1>4. n \in T
  BY <1>1, <1>2, <1>3, SetInduction
<1> QED
  BY <1>4 DEF T

\* Filter is its last line.
LEMMA FilterTable ==
  ASSUME NEW X, NEW s \in Seq(X), NEW S
  PROVE  \E g : Table(g, s, S, Len(s)) /\ Filter(s, S) = g[Len(s)]
<1> DEFINE g == CHOOSE f : Table(f, s, S, Len(s))
<1>1. Table(g, s, S, Len(s))
  BY TableExists
<1>2. Filter(s, S) = g[Len(s)]
  BY DEF Filter, Table, Step
<1> QED
  BY <1>1, <1>2

-----------------------------------------------------------------------------
(* k holds what is in S of the first i elements of s: nothing else, none of  *)
(* it further back than it stood, and all of it.                             *)
Kept(k, s, S, X, i) ==
    /\ k \in Seq(X) /\ Len(k) <= i
    /\ \A j \in 1..Len(k) : k[j] \in S /\ \E p \in j..i : k[j] = s[p]
    /\ \A p \in 1..i : s[p] \in S => \E j \in 1..Len(k) : k[j] = s[p]

\* One more element is looked at.
LEMMA KeptStep ==
  ASSUME NEW X, NEW s \in Seq(X), NEW S, NEW i \in 1..Len(s), NEW k, Kept(k, s, S, X, i - 1)
  PROVE  Kept(Step(s, S, i, k), s, S, X, i)
<1>1. i \in Nat /\ i >= 1 /\ s[i] \in X
  OBVIOUS
<1>2. CASE s[i] \notin S
  BY <1>1, <1>2 DEF Kept, Step
<1>3. CASE s[i] \in S
  <2> DEFINE m == Append(k, s[i])
  <2>1. k \in Seq(X) /\ Len(k) \in Nat /\ Len(k) <= i - 1
    BY DEF Kept
  <2>2. /\ m \in Seq(X) /\ Len(m) = Len(k) + 1 /\ m[Len(k) + 1] = s[i]
        /\ \A j \in 1..Len(k) : m[j] = k[j]
    BY <1>1, <2>1
  <2> HIDE DEF m
  <2>3. \A j \in 1..Len(m) : m[j] \in S /\ \E p \in j..i : m[j] = s[p]
    <3> SUFFICES ASSUME NEW j \in 1..Len(m) PROVE m[j] \in S /\ \E p \in j..i : m[j] = s[p]
      OBVIOUS
    <3>1. CASE j = Len(k) + 1
      <4>1. i \in j..i
        BY <1>1, <2>1, <3>1
      <4> QED
        BY <1>3, <2>2, <3>1, <4>1
    <3>2. CASE j \in 1..Len(k)
      <4>1. PICK p \in j..(i - 1) : k[j] = s[p]
        BY <3>2 DEF Kept
      <4>2. p \in j..i
        BY <1>1, <3>2, <2>1
      <4> QED
        BY <2>2, <3>2, <4>1, <4>2 DEF Kept
    <3> QED
      BY <2>1, <2>2, <3>1, <3>2
  <2>4. \A p \in 1..i : s[p] \in S => \E j \in 1..Len(m) : m[j] = s[p]
    <3> SUFFICES ASSUME NEW p \in 1..i, s[p] \in S PROVE \E j \in 1..Len(m) : m[j] = s[p]
      OBVIOUS
    <3>1. CASE p = i
      BY <2>1, <2>2, <3>1
    <3>2. CASE p \in 1..(i - 1)
      <4>1. PICK j \in 1..Len(k) : k[j] = s[p]
        BY <3>2 DEF Kept
      <4>2. j \in 1..Len(m) /\ m[j] = k[j]
        BY <2>1, <2>2
      <4> QED
        BY <4>1, <4>2
    <3> QED
      BY <1>1, <3>1, <3>2
  <2>5. Len(m) <= i /\ Step(s, S, i, k) = m
    BY <1>1, <1>3, <2>1, <2>2 DEF Step, m
  <2> QED
    BY <2>2, <2>3, <2>4, <2>5 DEF Kept
<1> QED
  BY <1>2, <1>3

\* Every line of the table holds what it should.
LEMMA TableKept ==
  ASSUME NEW X, NEW s \in Seq(X), NEW S, NEW g, Table(g, s, S, Len(s))
  PROVE  \A i \in 0..Len(s) : Kept(g[i], s, S, X, i)
<1> DEFINE T == {i \in 0..Len(s) : Kept(g[i], s, S, X, i)}
<1>1. \A j \in 0..Len(s) : g[j] = IF j = 0 THEN << >> ELSE Step(s, S, j, g[j - 1])
  BY DEF Table
<1>2. 0 \in T
  <2>1. g[0] = << >> /\ << >> \in Seq(X) /\ Len(<< >>) = 0
    BY <1>1
  <2>2. Kept(<< >>, s, S, X, 0)
    BY <2>1 DEF Kept
  <2> QED
    BY <2>1, <2>2
<1>3. \A i \in 1..Len(s) : i - 1 \in T => i \in T
  BY <1>1, KeptStep
<1> HIDE DEF T
<1>4. \A i \in 0..Len(s) : i \in T
  BY <1>2, <1>3, SetInduction
<1> QED
  BY <1>4 DEF T

\* Filter drops what is not in S and nothing else, as the list comprehension of
\* bulk_delete_history does (shareclip/app.py:436), for lists of any length.
THEOREM FilterKeeps ==
  ASSUME NEW X, NEW s \in Seq(X), NEW S
  PROVE  Kept(Filter(s, S), s, S, X, Len(s))
<1>1. PICK g : Table(g, s, S, Len(s)) /\ Filter(s, S) = g[Len(s)]
  BY FilterTable
<1>2. Len(s) \in 0..Len(s)
  OBVIOUS
<1> QED
  BY <1>1, <1>2, TableKept

-----------------------------------------------------------------------------
(* When all that follows an element of S is in S, what is kept is the end    *)
(* of the list.                                                              *)
Upward(s, S) == \A i, j \in DOMAIN s : i <= j /\ s[i] \in S => s[j] \in S
Suffix(k, s, S, i) ==
    /\ Len(k) \in 0..i
    /\ \A j \in 1..Len(k) : k[j] = s[(i - Len(k)) + j]
    /\ \A p \in 1..(i - Len(k)) : s[p] \notin S

\* One more element is looked at.
LEMMA SuffixStep ==
  ASSUME NEW X, NEW s \in Seq(X), NEW S, Upward(s, S), NEW i \in 1..Len(s),
         NEW k \in Seq(X), Suffix(k, s, S, i - 1), \A j \in 1..Len(k) : k[j] \in S
  PROVE  Suffix(Step(s, S, i, k), s, S, i)
<1>1. i \in Nat /\ i >= 1 /\ s[i] \in X /\ Len(k) \in 0..(i - 1)
  BY DEF Suffix
<1>2. CASE s[i] \notin S
  <2>1. Len(k) = 0
    <3> SUFFICES ASSUME Len(k) >= 1 PROVE FALSE
      BY <1>1
    <3>1. k[1] \in S /\ k[1] = s[(i - 1 - Len(k)) + 1]
      <4>1. 1 \in 1..Len(k)
        BY <1>1
      <4> QED
        BY <4>1 DEF Suffix
    <3>2. (i - 1 - Len(k)) + 1 \in 1..Len(s) /\ (i - 1 - Len(k)) + 1 <= i
      BY <1>1
    <3> QED
      BY <1>2, <3>1, <3>2 DEF Upward
  <2>2. \A p \in 1..(i - 1) : s[p] \notin S
    BY <1>1, <2>1 DEF Suffix
  <2>3. \A p \in 1..i : s[p] \notin S
    BY <1>1, <1>2, <2>2
  <2> QED
    BY <1>1, <1>2, <2>1, <2>3 DEF Suffix, Step
<1>3. CASE s[i] \in S
  <2> DEFINE m == Append(k, s[i])
  <2>1. /\ Len(m) = Len(k) + 1 /\ m[Len(k) + 1] = s[i]
        /\ \A j \in 1..Len(k) : m[j] = k[j]
    BY <1>1
  <2>2. m = Step(s, S, i, k)
    BY <1>3 DEF Step
  <2> HIDE DEF m
  <2>3. i - Len(m) = i - 1 - Len(k) /\ Len(m) \in 0..i
    BY <1>1, <2>1
  <2>4. \A j \in 1..Len(m) : m[j] = s[(i - Len(m)) + j]
    <3> SUFFICES ASSUME NEW j \in 1..Len(m) PROVE m[j] = s[(i - Len(m)) + j]
      OBVIOUS
    <3>1. CASE j \in 1..Len(k)
      BY <2>1, <2>3, <3>1 DEF Suffix
    <3>2. CASE j = Len(k) + 1
      <4>1. (i - Len(m)) + j = i
        BY <1>1, <2>3, <3>2
      <4> QED
        BY <2>1, <3>2, <4>1
    <3> QED
      BY <1>1, <2>1, <3>1, <3>2
  <2>5. \A p \in 1..(i - Len(m)) : s[p] \notin S
    BY <2>3 DEF Suffix
  <2> QED
    BY <2>2, <2>3, <2>4, <2>5 DEF Suffix
<1> QED
  BY <1>2, <1>3

\* Of a list whose later elements are in S when an earlier one is, as of times
\* that never go back, Filter keeps an end and drops a beginning that is not in
\* S (ddns_config_post).
THEOREM FilterIsSuffix ==
  ASSUME NEW X, NEW s \in Seq(X), NEW S, Upward(s, S)
  PROVE  Suffix(Filter(s, S), s, S, Len(s))
<1>1. PICK g : Table(g, s, S, Len(s)) /\ Filter(s, S) = g[Len(s)]
  BY FilterTable
<1> DEFINE T == {i \in 0..Len(s) : Suffix(g[i], s, S, i)}
<1>2. \A j \in 0..Len(s) : g[j] = IF j = 0 THEN << >> ELSE Step(s, S, j, g[j - 1])
  BY <1>1 DEF Table
<1>3. 0 \in T
  <2>1. g[0] = << >> /\ Len(<< >>) = 0
    BY <1>2
  <2>2. Suffix(<< >>, s, S, 0)
    BY <2>1 DEF Suffix
  <2> QED
    BY <2>1, <2>2
<1>4. ASSUME NEW i \in 1..Len(s), i - 1 \in T PROVE i \in T
  <2>1. i - 1 \in 0..Len(s) /\ i \in 0..Len(s) /\ i # 0
    OBVIOUS
  <2>2. g[i] = Step(s, S, i, g[i - 1])
    BY <1>2, <2>1
  <2>3. Kept(g[i - 1], s, S, X, i - 1)
    BY <1>1, <2>1, TableKept
  <2>4. g[i - 1] \in Seq(X) /\ \A j \in 1..Len(g[i - 1]) : g[i - 1][j] \in S
    BY <2>3 DEF Kept
  <2>5. Suffix(g[i - 1], s, S, i - 1)
    BY <1>4
  <2>6. Suffix(Step(s, S, i, g[i - 1]), s, S, i)
    BY <2>4, <2>5, SuffixStep
  <2> QED
    BY <2>1, <2>2, <2>6
<1> HIDE DEF T
<1>5. \A i \in 1..Len(s) : i - 1 \in T => i \in T
  BY <1>4
<1>6. Len(s) \in Nat
  OBVIOUS
<1>7. \A i \in 0..Len(s) : i \in T
  BY <1>3, <1>5, <1>6, SetInduction
<1> QED
  BY <1>1, <1>6, <1>7 DEF T

-----------------------------------------------------------------------------
(* When the list ends with elements of S, so does what is kept.              *)
Continued(k, b, s, n, i) ==
    /\ Len(k) = Len(b) + i
    /\ \A j \in 1..Len(b) : k[j] = b[j]
    /\ \A j \in 1..i : k[Len(b) + j] = s[n + j]

\* One more element of the end is looked at.
LEMMA EndStep ==
  ASSUME NEW X, NEW s \in Seq(X), NEW S, NEW n \in 0..Len(s), NEW b \in Seq(X),
         NEW i \in 1..(Len(s) - n), s[n + i] \in S,
         NEW k \in Seq(X), Continued(k, b, s, n, i - 1)
  PROVE  Continued(Step(s, S, n + i, k), b, s, n, i)
<1> DEFINE m == Append(k, s[n + i])
<1>1. i \in Nat /\ i >= 1 /\ n \in Nat /\ Len(b) \in Nat /\ Len(k) = Len(b) + (i - 1)
  BY DEF Continued
<1>2. s[n + i] \in X
  BY <1>1
<1>3. /\ Len(m) = Len(k) + 1 /\ m[Len(k) + 1] = s[n + i]
      /\ \A j \in 1..Len(k) : m[j] = k[j]
  BY <1>2
<1>4. m = Step(s, S, n + i, k)
  BY DEF Step
<1> HIDE DEF m
<1>5. Len(m) = Len(b) + i
  BY <1>1, <1>3
<1>6. \A j \in 1..Len(b) : m[j] = b[j]
  BY <1>1, <1>3 DEF Continued
<1>7. \A j \in 1..i : m[Len(b) + j] = s[n + j]
  <2> SUFFICES ASSUME NEW j \in 1..i PROVE m[Len(b) + j] = s[n + j]
    OBVIOUS
  <2>1. CASE j \in 1..(i - 1)
    <3>1. Len(b) + j \in 1..Len(k)
      BY <1>1, <2>1
    <3> QED
      BY <1>3, <2>1, <3>1 DEF Continued
  <2>2. CASE j = i
    <3>1. Len(b) + j = Len(k) + 1
      BY <1>1, <2>2
    <3> QED
      BY <1>3, <2>2, <3>1
  <2> QED
    BY <1>1, <2>1, <2>2
<1> QED
  BY <1>4, <1>5, <1>6, <1>7 DEF Continued

\* Filter leaves an end that is all in S as it is, after what it keeps of the
\* beginning: clean_basename keeps the languages after the episode.
THEOREM FilterKeepsEnd ==
  ASSUME NEW X, NEW s \in Seq(X), NEW S, NEW n \in 0..Len(s),
         \A j \in (n + 1)..Len(s) : s[j] \in S
  PROVE  \E b : Kept(b, s, S, X, n) /\ Continued(Filter(s, S), b, s, n, Len(s) - n)
<1>1. PICK g : Table(g, s, S, Len(s)) /\ Filter(s, S) = g[Len(s)]
  BY FilterTable
<1> DEFINE b == g[n]
           T == {i \in 0..(Len(s) - n) : Continued(g[n + i], b, s, n, i)}
<1>2. \A j \in 0..Len(s) : g[j] = IF j = 0 THEN << >> ELSE Step(s, S, j, g[j - 1])
  BY <1>1 DEF Table
<1>3. Len(s) \in Nat /\ n \in Nat /\ Len(s) - n \in Nat
  OBVIOUS
<1>4. Kept(b, s, S, X, n)
  BY <1>1, TableKept
<1> HIDE DEF b
<1>5. b \in Seq(X)
  BY <1>4 DEF Kept
<1>6. 0 \in T
  <2>1. g[n + 0] = b
    BY <1>3 DEF b
  <2>2. Continued(b, b, s, n, 0)
    BY <1>5 DEF Continued
  <2> QED
    BY <1>3, <2>1, <2>2
<1>7. ASSUME NEW i \in 1..(Len(s) - n), i - 1 \in T PROVE i \in T
  <2>1. n + i \in 0..Len(s) /\ n + i # 0 /\ (n + i) - 1 = n + (i - 1)
        /\ n + (i - 1) \in 0..Len(s) /\ n + i \in (n + 1)..Len(s)
    BY <1>3
  <2>2. g[n + i] = Step(s, S, n + i, g[n + (i - 1)])
    BY <1>2, <2>1
  <2>3. Kept(g[n + (i - 1)], s, S, X, n + (i - 1))
    BY <1>1, <2>1, TableKept
  <2>4. g[n + (i - 1)] \in Seq(X)
    BY <2>3 DEF Kept
  <2>5. Continued(g[n + (i - 1)], b, s, n, i - 1)
    BY <1>7
  <2>6. Continued(Step(s, S, n + i, g[n + (i - 1)]), b, s, n, i)
    BY <1>5, <2>1, <2>4, <2>5, EndStep
  <2> QED
    BY <2>2, <2>6, <1>7
<1> HIDE DEF T
<1>8. \A i \in 1..(Len(s) - n) : i - 1 \in T => i \in T
  BY <1>7
<1>9. \A i \in 0..(Len(s) - n) : i \in T
  BY <1>3, <1>6, <1>8, SetInduction
<1>10. Continued(g[n + (Len(s) - n)], b, s, n, Len(s) - n)
  BY <1>3, <1>9 DEF T
<1>11. n + (Len(s) - n) = Len(s)
  BY <1>3
<1> QED
  BY <1>1, <1>4, <1>10, <1>11
=============================================================================
