-------------------------- MODULE SchemaEditsProofs --------------------------
(***************************************************************************)
(* Theorems about SchemaEdits for any clusters, any number of data centres *)
(* and replicas and any edits: the names that the functions of Topology    *)
(* compute in different steps fit together. Every invariant follows from   *)
(* the types of the schema (SchemaInv) and from what the functions return  *)
(* for any schema: KeptFacts, OffsetFacts, PlanFacts, SeedsFacts.          *)
(***************************************************************************)
EXTENDS SchemaEdits, FoldLemmas

(***************************************************************************)
(* What Kept returns. Positions says that seq holds the elements of source *)
(* at the positions of keep up to n: its i-th element is that at pos[i].   *)
(***************************************************************************)
Positions(source, keep, seq, pos, n) ==
  /\ pos \in [1..Len(seq) -> 1..n]
  /\ \A i \in 1..Len(seq) : pos[i] \in keep /\ seq[i] = source[pos[i]]
  /\ \A i, j \in 1..Len(seq) : i < j => pos[i] < pos[j]
  /\ \A p \in 1..n : p \in keep => \E i \in 1..Len(seq) : pos[i] = p

KeptUpTo(source, keep, seq, n) == \E pos : Positions(source, keep, seq, pos, n)

Keeps(source, keep, g, m) ==
  g = [n \in 0..m |->
         IF n = 0 THEN <<>>
         ELSE IF n \in keep THEN Append(g[n - 1], source[n]) ELSE g[n - 1]]

\* The function of the loop exists.
LEMMA KeepsExists ==
  ASSUME NEW source, NEW keep, NEW m \in Nat
  PROVE  \E g : Keeps(source, keep, g, m)
<1> DEFINE T == {n \in Nat : \E g : Keeps(source, keep, g, n)}
<1>1. 0 \in T
  <2> DEFINE g == [n \in 0..0 |-> <<>>]
  <2>1. Keeps(source, keep, g, 0)
    BY DEF Keeps
  <2> QED BY <2>1
<1>2. ASSUME NEW n \in Nat, n \in T PROVE n + 1 \in T
  <2>1. PICK g : Keeps(source, keep, g, n)
    BY <1>2
  <2> DEFINE Next1(f, i) ==
               IF i = 0 THEN <<>>
               ELSE IF i \in keep THEN Append(f[i - 1], source[i]) ELSE f[i - 1]
             h == [i \in 0..(n + 1) |-> Next1(g, i)]
  <2>2. ASSUME NEW i \in 0..n PROVE h[i] = g[i]
    <3>1. g[i] = [j \in 0..n |-> Next1(g, j)][i]
      BY <2>1, Zenon DEF Keeps
    <3> QED BY <3>1
  <2>3. ASSUME NEW i \in 0..(n + 1) PROVE Next1(g, i) = Next1(h, i)
    <3>1. i # 0 => i - 1 \in 0..n
      OBVIOUS
    <3> HIDE DEF h
    <3> QED BY <2>2, <3>1
  <2>4. [i \in 0..(n + 1) |-> Next1(g, i)] = [i \in 0..(n + 1) |-> Next1(h, i)]
    <3> HIDE DEF h, Next1
    <3> QED BY <2>3
  <2>5. Keeps(source, keep, h, n + 1)
    BY <2>4, Zenon DEF Keeps
  <2> HIDE DEF h
  <2> QED BY <2>5
<1>3. \A n \in Nat : n \in T
  <2> HIDE DEF T
  <2> QED BY <1>1, <1>2, SetInduction
<1> QED BY <1>3

Loop(source, keep, g) ==
  /\ g[0] = <<>>
  /\ \A n \in 1..Len(source) :
       g[n] = IF n \in keep THEN Append(g[n - 1], source[n]) ELSE g[n - 1]

\* Kept is what the loop has collected at its end.
LEMMA KeptLoop ==
  ASSUME NEW source, Len(source) \in Nat, NEW keep
  PROVE  \E g : Loop(source, keep, g) /\ Kept(source, keep) = g[Len(source)]
<1> DEFINE m == Len(source)
           g == CHOOSE f : f = [n \in 0..Len(source) |->
                  IF n = 0 THEN <<>>
                  ELSE IF n \in keep THEN Append(f[n - 1], source[n]) ELSE f[n - 1]]
<1>1. Kept(source, keep) = g[m]
  BY DEF Kept
<1>2. Keeps(source, keep, g, m)
  <2>1. \E f : Keeps(source, keep, f, m)
    BY KeepsExists
  <2>2. \E f : f = [n \in 0..Len(source) |->
                  IF n = 0 THEN <<>>
                  ELSE IF n \in keep THEN Append(f[n - 1], source[n]) ELSE f[n - 1]]
    BY <2>1 DEF Keeps
  <2>3. g = [n \in 0..Len(source) |->
               IF n = 0 THEN <<>>
               ELSE IF n \in keep THEN Append(g[n - 1], source[n]) ELSE g[n - 1]]
    BY <2>2
  <2> HIDE DEF g
  <2> QED BY <2>3 DEF Keeps
<1> HIDE DEF g
<1>3. \A n \in 0..m :
        g[n] = IF n = 0 THEN <<>>
               ELSE IF n \in keep THEN Append(g[n - 1], source[n]) ELSE g[n - 1]
  <2>1. \A n \in 0..m : g[n] = [i \in 0..m |->
           IF i = 0 THEN <<>>
           ELSE IF i \in keep THEN Append(g[i - 1], source[i]) ELSE g[i - 1]][n]
    BY <1>2, Zenon DEF Keeps
  <2> QED BY <2>1
<1>4. Loop(source, keep, g)
  BY <1>3 DEF Loop
<1> QED BY <1>1, <1>4

\* One round of the loop.
LEMMA KeptUpToNext ==
  ASSUME NEW X, NEW source \in Seq(X), NEW keep, NEW n \in 0..(Len(source) - 1),
         NEW seq \in Seq(X), KeptUpTo(source, keep, seq, n)
  PROVE  /\ n + 1 \in keep =>
              /\ Append(seq, source[n + 1]) \in Seq(X)
              /\ KeptUpTo(source, keep, Append(seq, source[n + 1]), n + 1)
         /\ n + 1 \notin keep => KeptUpTo(source, keep, seq, n + 1)
<1>1. PICK pos : Positions(source, keep, seq, pos, n)
  BY DEF KeptUpTo
<1>2. n \in Nat /\ Len(seq) \in Nat /\ source[n + 1] \in X /\ n + 1 \in 1..(n + 1)
  OBVIOUS
<1>3. CASE n + 1 \notin keep
  <2>1. \A p \in 1..(n + 1) : p \in keep => p \in 1..n
    BY <1>2, <1>3
  <2>2. pos \in [1..Len(seq) -> 1..(n + 1)]
    BY <1>1, <1>2 DEF Positions
  <2>3. Positions(source, keep, seq, pos, n + 1)
    BY <1>1, <2>1, <2>2 DEF Positions
  <2> QED BY <1>3, <2>3 DEF KeptUpTo
<1>4. CASE n + 1 \in keep
  <2> DEFINE more == Append(seq, source[n + 1])
             L == Len(seq)
             q == [i \in 1..(L + 1) |-> IF i = L + 1 THEN n + 1 ELSE pos[i]]
  <2>1. /\ more \in Seq(X) /\ Len(more) = L + 1 /\ more[L + 1] = source[n + 1]
        /\ \A i \in 1..L : more[i] = seq[i]
    BY <1>2
  <2>2. q[L + 1] = n + 1
    BY <1>2
  <2>3. \A i \in 1..L : q[i] = pos[i] /\ pos[i] \in 1..n
    <3>1. \A i \in 1..L : pos[i] \in 1..n
      BY <1>1 DEF Positions
    <3>2. \A i \in 1..L : i \in 1..(L + 1) /\ i # L + 1
      BY <1>2
    <3> QED BY <3>1, <3>2
  <2>4. \A i \in 1..(L + 1) : i \in 1..L \/ i = L + 1
    BY <1>2
  <2>5. q \in [1..(L + 1) -> 1..(n + 1)]
    <3>1. ASSUME NEW i \in 1..(L + 1)
          PROVE  (IF i = L + 1 THEN n + 1 ELSE pos[i]) \in 1..(n + 1)
      <4>1. CASE i = L + 1
        BY <1>2, <4>1
      <4>2. CASE i # L + 1
        <5>1. pos[i] \in 1..n
          BY <2>3, <2>4, <4>2
        <5> QED BY <1>2, <4>2, <5>1
      <4> QED BY <4>1, <4>2
    <3> QED BY <3>1
  <2> HIDE DEF q, more
  <2>6. \A i \in 1..(L + 1) : q[i] \in keep /\ more[i] = source[q[i]]
    BY <1>1, <1>4, <2>1, <2>2, <2>3, <2>4 DEF Positions
  <2>7. ASSUME NEW i \in 1..(L + 1), NEW j \in 1..(L + 1), i < j PROVE q[i] < q[j]
    <3>1. i \in 1..L
      BY <1>2, <2>7
    <3>2. CASE j \in 1..L
      BY <1>1, <2>3, <2>7, <3>1, <3>2 DEF Positions
    <3>3. CASE j = L + 1
      <4>1. q[i] \in 1..n /\ q[j] = n + 1
        BY <2>2, <2>3, <3>1, <3>3
      <4> QED BY <1>2, <4>1
    <3> QED BY <2>4, <3>2, <3>3
  <2>8. ASSUME NEW p \in 1..(n + 1), p \in keep PROVE \E i \in 1..(L + 1) : q[i] = p
    <3>1. CASE p = n + 1
      <4>1. L + 1 \in 1..(L + 1)
        BY <1>2
      <4> QED BY <2>2, <3>1, <4>1
    <3>2. CASE p # n + 1
      <4>1. p \in 1..n
        BY <1>2, <3>2
      <4>2. PICK i \in 1..L : pos[i] = p
        BY <1>1, <2>8, <4>1 DEF Positions
      <4>3. i \in 1..(L + 1)
        BY <1>2
      <4> QED BY <2>3, <4>2, <4>3
    <3> QED BY <3>1, <3>2
  <2>9. Positions(source, keep, more, q, n + 1)
    BY <2>1, <2>5, <2>6, <2>7, <2>8 DEF Positions
  <2>10. KeptUpTo(source, keep, more, n + 1)
    BY <2>9 DEF KeptUpTo
  <2> QED BY <1>4, <2>1, <2>10 DEF more
<1> QED BY <1>3, <1>4

(***************************************************************************)
(* Kept keeps exactly the elements at the given positions, in order.       *)
(***************************************************************************)
LEMMA KeptFacts ==
  ASSUME NEW X, NEW source \in Seq(X), NEW keep
  PROVE  /\ Kept(source, keep) \in Seq(X)
         /\ KeptUpTo(source, keep, Kept(source, keep), Len(source))
<1> DEFINE m == Len(source)
<1>1. m \in Nat
  OBVIOUS
<1>2. PICK g : Loop(source, keep, g) /\ Kept(source, keep) = g[m]
  BY <1>1, KeptLoop
<1> DEFINE T == {n \in Nat : g[n] \in Seq(X) /\ KeptUpTo(source, keep, g[n], n)}
<1>3. 0 \in T
  <2>1. Positions(source, keep, <<>>, [i \in 1..0 |-> 0], 0)
    BY DEF Positions
  <2>2. g[0] = <<>> /\ <<>> \in Seq(X)
    BY <1>2 DEF Loop
  <2> QED BY <2>1, <2>2 DEF KeptUpTo
<1>4. ASSUME NEW n \in 0..(m - 1), n \in T PROVE n + 1 \in T
  <2>1. n + 1 \in 1..m /\ (n + 1) - 1 = n /\ n + 1 \in Nat
    OBVIOUS
  <2>2. g[n + 1] = IF n + 1 \in keep THEN Append(g[n], source[n + 1]) ELSE g[n]
    BY <1>2, <2>1 DEF Loop
  <2>3. g[n] \in Seq(X) /\ KeptUpTo(source, keep, g[n], n)
    BY <1>4
  <2>4. g[n + 1] \in Seq(X) /\ KeptUpTo(source, keep, g[n + 1], n + 1)
    BY <2>2, <2>3, KeptUpToNext
  <2> QED BY <2>1, <2>4
<1>5. \A n \in 0..m : n \in T
  <2> HIDE DEF T, m
  <2> QED BY <1>1, <1>3, <1>4, BoundedInduction
<1> QED BY <1>1, <1>2, <1>5

(***************************************************************************)
(* A sequence that agrees with another one on which positions to keep, and *)
(* may go on after its end, keeps the same positions first: a data centre  *)
(* does not change its place among those of its cluster.                   *)
(***************************************************************************)
SamePlaces(s, t, a, b) ==
  /\ Len(a) <= Len(b)
  /\ \A i \in 1..Len(a) : \E p \in 1..Len(s) : a[i] = s[p] /\ b[i] = t[p]

\* The loop keeps the common positions first.
LEMMA KeptPrefix ==
  ASSUME NEW X, NEW s \in Seq(X), NEW t \in Seq(X), Len(s) <= Len(t),
         NEW ks, NEW kt, \A p \in 1..Len(s) : p \in ks <=> p \in kt
  PROVE  SamePlaces(s, t, Kept(s, ks), Kept(t, kt))
<1> DEFINE m == Len(s)
           n == Len(t)
<1>1. m \in Nat /\ n \in Nat /\ m <= n
  OBVIOUS
<1>2. PICK g : Loop(s, ks, g) /\ Kept(s, ks) = g[m]
  BY <1>1, KeptLoop
<1>3. PICK h : Loop(t, kt, h) /\ Kept(t, kt) = h[n]
  BY <1>1, KeptLoop
<1> DEFINE Same(a, b) == Len(a) = Len(b) /\ \A i \in 1..Len(a) :
                           \E p \in 1..m : p \in ks /\ a[i] = s[p] /\ b[i] = t[p]
           T == {j \in Nat : g[j] \in Seq(X) /\ h[j] \in Seq(X) /\ Same(g[j], h[j])}
<1>4. 0 \in T
  <2>1. g[0] = <<>> /\ h[0] = <<>> /\ <<>> \in Seq(X)
    BY <1>2, <1>3 DEF Loop
  <2>2. g[0] \in Seq(X) /\ Len(g[0]) = 0 /\ h[0] \in Seq(X) /\ Len(h[0]) = 0
    BY <2>1
  <2>3. Same(g[0], h[0])
    BY <2>2
  <2> QED BY <2>2, <2>3
<1>5. ASSUME NEW j \in 0..(m - 1), j \in T PROVE j + 1 \in T
  <2>1. j + 1 \in 1..m /\ j + 1 \in 1..n /\ (j + 1) - 1 = j /\ j + 1 \in Nat
    BY <1>1
  <2>2. /\ g[j + 1] = IF j + 1 \in ks THEN Append(g[j], s[j + 1]) ELSE g[j]
        /\ h[j + 1] = IF j + 1 \in kt THEN Append(h[j], t[j + 1]) ELSE h[j]
    BY <1>2, <1>3, <2>1 DEF Loop
  <2>3. j + 1 \in ks <=> j + 1 \in kt
    BY <2>1
  <2>4. g[j] \in Seq(X) /\ h[j] \in Seq(X) /\ Same(g[j], h[j])
    BY <1>5
  <2>5. CASE j + 1 \notin ks
    BY <2>1, <2>2, <2>3, <2>4, <2>5
  <2>6. CASE j + 1 \in ks
    <3> DEFINE a == g[j]
               b == h[j]
               L == Len(a)
    <3>1. s[j + 1] \in X /\ t[j + 1] \in X /\ L \in Nat /\ Len(b) = L
      BY <2>1, <2>4
    <3>2. g[j + 1] = Append(a, s[j + 1]) /\ h[j + 1] = Append(b, t[j + 1])
      BY <2>2, <2>3, <2>6
    <3>3. a \in Seq(X) /\ b \in Seq(X) /\ Same(a, b)
      BY <2>4
    <3> HIDE DEF a, b, Same
    <3>4. /\ Append(a, s[j + 1]) \in Seq(X) /\ Append(b, t[j + 1]) \in Seq(X)
          /\ Len(Append(a, s[j + 1])) = L + 1 /\ Len(Append(b, t[j + 1])) = L + 1
          /\ \A i \in 1..L : Append(a, s[j + 1])[i] = a[i] /\ Append(b, t[j + 1])[i] = b[i]
          /\ Append(a, s[j + 1])[L + 1] = s[j + 1] /\ Append(b, t[j + 1])[L + 1] = t[j + 1]
      BY <3>1, <3>3
    <3>5. \A i \in 1..(L + 1) : i \in 1..L \/ i = L + 1
      BY <3>1
    <3>6. Same(Append(a, s[j + 1]), Append(b, t[j + 1]))
      BY <2>1, <2>6, <3>3, <3>4, <3>5 DEF Same
    <3>7. g[j + 1] \in Seq(X) /\ h[j + 1] \in Seq(X)
      BY <3>2, <3>4
    <3>8. Same(g[j + 1], h[j + 1])
      BY <3>2, <3>6
    <3> QED BY <2>1, <3>7, <3>8
  <2> QED BY <2>5, <2>6
<1>6. m \in T
  <2>1. \A j \in 0..m : j \in T
    <3> HIDE DEF T, m, n
    <3> QED BY <1>1, <1>4, <1>5, BoundedInduction
  <2> HIDE DEF T
  <2> QED BY <1>1, <2>1
<1> DEFINE first == g[m]
           Extends(b) == Len(first) <= Len(b) /\ \A i \in 1..Len(first) : b[i] = h[m][i]
           U == {j \in Nat : h[m + j] \in Seq(X) /\ Extends(h[m + j])}
<1>7. first \in Seq(X) /\ h[m] \in Seq(X) /\ Same(first, h[m])
  BY <1>6
<1>8. 0 \in U
  <2>1. m + 0 = m
    BY <1>1
  <2>2. Len(first) \in Nat
    BY <1>7
  <2> QED BY <1>7, <2>1, <2>2
<1>9. ASSUME NEW j \in 0..(n - m - 1), j \in U PROVE j + 1 \in U
  <2>1. m + j + 1 \in 1..n /\ (m + j + 1) - 1 = m + j /\ j + 1 \in Nat
        /\ m + (j + 1) = m + j + 1
    BY <1>1
  <2>2. h[m + j + 1] = IF m + j + 1 \in kt THEN Append(h[m + j], t[m + j + 1]) ELSE h[m + j]
    BY <1>3, <2>1 DEF Loop
  <2>3. h[m + j] \in Seq(X) /\ Extends(h[m + j])
    BY <1>9
  <2>4. t[m + j + 1] \in X /\ Len(first) \in Nat
    BY <1>7, <2>1
  <2> DEFINE b == h[m + j]
             c == h[m + j + 1]
  <2>5. CASE c = b
    BY <2>1, <2>3, <2>5
  <2>6. CASE c = Append(b, t[m + j + 1])
    <3>1. b \in Seq(X) /\ Extends(b)
      BY <2>3
    <3>2. c = Append(b, t[m + j + 1])
      BY <2>6
    <3> HIDE DEF b, c, first
    <3>3. /\ c \in Seq(X) /\ Len(c) = Len(b) + 1 /\ Len(b) \in Nat
          /\ \A i \in 1..Len(b) : c[i] = b[i]
      BY <2>4, <3>1, <3>2
    <3>4. Len(first) <= Len(c) /\ \A i \in 1..Len(first) : i \in 1..Len(b)
      BY <2>4, <3>1, <3>3
    <3>5. Extends(c)
      BY <3>1, <3>3, <3>4
    <3>6. h[m + (j + 1)] = c
      BY <2>1 DEF c
    <3> QED BY <2>1, <3>3, <3>5, <3>6
  <2> QED BY <2>2, <2>5, <2>6
<1>10. n - m \in U
  <2>1. n - m \in Nat
    BY <1>1
  <2>2. \A j \in 0..(n - m) : j \in U
    <3> HIDE DEF U, m, n
    <3> QED BY <2>1, <1>8, <1>9, BoundedInduction
  <2> HIDE DEF U
  <2> QED BY <2>1, <2>2
<1>11. h[n] \in Seq(X) /\ Extends(h[n])
  <2>1. m + (n - m) = n
    BY <1>1
  <2> QED BY <1>10, <2>1
<1>12. \A i \in 1..Len(first) : h[n][i] = h[m][i]
  BY <1>11
<1>13. SamePlaces(s, t, first, h[n])
  <2> HIDE DEF first, n
  <2> QED BY <1>7, <1>11, <1>12 DEF SamePlaces
<1> QED BY <1>2, <1>3, <1>13

\* Keeping every position keeps the sequence.
LEMMA KeptAll ==
  ASSUME NEW X, NEW s \in Seq(X), NEW keep, \A p \in 1..Len(s) : p \in keep
  PROVE  Kept(s, keep) = s
<1> DEFINE m == Len(s)
<1>1. m \in Nat
  OBVIOUS
<1>2. PICK g : Loop(s, keep, g) /\ Kept(s, keep) = g[m]
  BY <1>1, KeptLoop
<1> DEFINE T == {j \in Nat : /\ g[j] \in Seq(X) /\ Len(g[j]) = j
                            /\ \A i \in 1..j : g[j][i] = s[i]}
<1>3. 0 \in T
  <2>1. g[0] = <<>> /\ <<>> \in Seq(X)
    BY <1>2 DEF Loop
  <2>2. g[0] \in Seq(X) /\ Len(g[0]) = 0
    BY <2>1
  <2> QED BY <2>2
<1>4. ASSUME NEW j \in 0..(m - 1), j \in T PROVE j + 1 \in T
  <2>1. j + 1 \in 1..m /\ (j + 1) - 1 = j /\ s[j + 1] \in X
    OBVIOUS
  <2>2. g[j + 1] = Append(g[j], s[j + 1])
    BY <1>2, <2>1 DEF Loop
  <2>3. g[j] \in Seq(X) /\ Len(g[j]) = j /\ \A i \in 1..j : g[j][i] = s[i]
    BY <1>4
  <2>4. \A i \in 1..(j + 1) : i \in 1..j \/ i = j + 1
    OBVIOUS
  <2>5. g[j + 1] \in Seq(X) /\ Len(g[j + 1]) = j + 1
    BY <2>1, <2>2, <2>3
  <2>6. \A i \in 1..(j + 1) : g[j + 1][i] = s[i]
    BY <2>1, <2>2, <2>3, <2>4
  <2> QED BY <2>5, <2>6
<1>5. m \in T
  <2>1. \A j \in 0..m : j \in T
    <3> HIDE DEF T, m
    <3> QED BY <1>1, <1>3, <1>4, BoundedInduction
  <2> HIDE DEF T
  <2> QED BY <1>1, <2>1
<1>6. g[m] \in Seq(X) /\ Len(g[m]) = Len(s) /\ \A i \in 1..Len(s) : g[m][i] = s[i]
  BY <1>5
<1> QED BY <1>2, <1>6
-----------------------------------------------------------------------------
(***************************************************************************)
(* The schema, and what an operator sees of it.                            *)
(***************************************************************************)
DataCentre ==
  [cluster : Clusters, replicas : 1..MaxReplicas, seeds : Nat \ {0},
   seedList : SeedLists, removeNodes : SUBSET Keys]

Viewed ==
  [deploy : BOOLEAN, domain : Clusters, replicas : 1..MaxReplicas, seeds : Nat \ {0},
   seedList : SeedLists, removeNodes : SUBSET Keys]

SchemaInv == dcs \in Seq(DataCentre) /\ Len(dcs) > 0

\* Every edit leaves a schema of at least one well-formed data centre.
LEMMA SchemaCorrect == Spec => []SchemaInv
<1>1. Init => SchemaInv
  <2>1. ASSUME NEW c \in Clusters, NEW n \in 1..MaxReplicas, NEW s \in 1..MaxSeeds,
               NEW l \in SeedLists
        PROVE  NewDC(c, n, s, l) \in DataCentre
    BY DEF NewDC, DataCentre, SeedLists
  <2>2. ASSUME NEW x \in DataCentre, dcs = <<x>> PROVE SchemaInv
    BY <2>2 DEF SchemaInv
  <2> QED BY <2>1, <2>2 DEF Init
<1>2. SchemaInv /\ [Next]_dcs => SchemaInv'
  <2> SUFFICES ASSUME SchemaInv, [Next]_dcs PROVE SchemaInv'
    OBVIOUS
  <2>1. ASSUME NEW c \in Clusters, NEW n \in 1..MaxReplicas, NEW s \in 1..MaxSeeds,
               NEW l \in SeedLists, AddDC(c, n, s, l)
        PROVE  SchemaInv'
    <3>1. NewDC(c, n, s, l) \in DataCentre
      BY DEF NewDC, DataCentre, SeedLists
    <3> QED BY <2>1, <3>1 DEF SchemaInv, AddDC
  <2>2. ASSUME NEW d \in DOMAIN dcs, ScaleOut(d) PROVE SchemaInv'
    <3>1. d \in 1..Len(dcs) /\ dcs[d] \in DataCentre
      BY DEF SchemaInv
    <3>2. dcs[d].replicas + 1 \in 1..MaxReplicas
      BY <2>2, <3>1, SchemaAssumption DEF ScaleOut, DataCentre
    <3>3. [dcs[d] EXCEPT !.replicas = dcs[d].replicas + 1] \in DataCentre
      BY <3>1, <3>2 DEF DataCentre
    <3>4. dcs' = [dcs EXCEPT ![d] = [dcs[d] EXCEPT !.replicas = dcs[d].replicas + 1]]
      BY <2>2 DEF ScaleOut
    <3> QED BY <3>1, <3>3, <3>4 DEF SchemaInv
  <2>3. ASSUME NEW d \in DOMAIN dcs, NEW k \in Keys, ListForRemoval(d, k) PROVE SchemaInv'
    <3>1. d \in 1..Len(dcs) /\ dcs[d] \in DataCentre
      BY DEF SchemaInv
    <3>2. [dcs[d] EXCEPT !.removeNodes = dcs[d].removeNodes \cup {k}] \in DataCentre
      BY <3>1 DEF DataCentre
    <3>3. dcs' = [dcs EXCEPT ![d] = [dcs[d] EXCEPT !.removeNodes = dcs[d].removeNodes \cup {k}]]
      BY <2>3 DEF ListForRemoval
    <3> QED BY <3>1, <3>2, <3>3 DEF SchemaInv
  <2>4. CASE UNCHANGED dcs
    BY <2>4 DEF SchemaInv
  <2> QED BY <2>1, <2>2, <2>3, <2>4 DEF Next
<1> QED BY <1>1, <1>2, PTL DEF Spec

(***************************************************************************)
(* View for a given schema, so that what holds of an operator's view can   *)
(* be used before and after an edit.                                       *)
(***************************************************************************)
Seen(schema, c) ==
  [d \in DOMAIN schema |->
     [deploy |-> schema[d].cluster = c, domain |-> schema[d].cluster,
      replicas |-> schema[d].replicas, seeds |-> schema[d].seeds,
      seedList |-> schema[d].seedList, removeNodes |-> schema[d].removeNodes]]

Schema == {s \in Seq(DataCentre) : Len(s) > 0}

\* What an operator sees has the type Topology expects.
LEMMA ViewFacts ==
  ASSUME NEW s \in Schema, NEW c
  PROVE  /\ Seen(s, c) \in Seq(Viewed) /\ Len(Seen(s, c)) = Len(s) /\ Len(s) \in Nat \ {0}
         /\ DOMAIN s = 1..Len(s)
         /\ \A d \in 1..Len(s) :
              /\ s[d] \in DataCentre
              /\ Seen(s, c)[d].deploy <=> s[d].cluster = c
              /\ Seen(s, c)[d].domain = s[d].cluster
              /\ Seen(s, c)[d].replicas = s[d].replicas
              /\ Seen(s, c)[d].seeds = s[d].seeds
              /\ Seen(s, c)[d].seedList = s[d].seedList
              /\ Seen(s, c)[d].removeNodes = s[d].removeNodes
<1>1. DOMAIN s = 1..Len(s) /\ Len(s) \in Nat \ {0} /\ \A d \in 1..Len(s) : s[d] \in DataCentre
  BY DEF Schema
<1>2. ASSUME NEW d \in 1..Len(s)
      PROVE  [deploy |-> s[d].cluster = c, domain |-> s[d].cluster,
              replicas |-> s[d].replicas, seeds |-> s[d].seeds,
              seedList |-> s[d].seedList, removeNodes |-> s[d].removeNodes] \in Viewed
  <2>1. s[d] \in DataCentre
    BY <1>1
  <2> QED BY <2>1 DEF DataCentre, Viewed
<1>3. Seen(s, c) \in [1..Len(s) -> Viewed]
  BY <1>1, <1>2 DEF Seen
<1>4. Seen(s, c) \in Seq(Viewed) /\ Len(Seen(s, c)) = Len(s)
  <2> DEFINE n == Len(s)
  <2>1. n \in Nat /\ Seen(s, c) \in [1..n -> Viewed]
    BY <1>1, <1>3
  <2> HIDE DEF n
  <2>2. Seen(s, c) \in Seq(Viewed) /\ Len(Seen(s, c)) = n
    BY <2>1
  <2> QED BY <2>2 DEF n
<1>5. \A d \in 1..Len(s) :
              /\ Seen(s, c)[d].deploy <=> s[d].cluster = c
              /\ Seen(s, c)[d].domain = s[d].cluster
              /\ Seen(s, c)[d].replicas = s[d].replicas
              /\ Seen(s, c)[d].seeds = s[d].seeds
              /\ Seen(s, c)[d].seedList = s[d].seedList
              /\ Seen(s, c)[d].removeNodes = s[d].removeNodes
  BY <1>1 DEF Seen
<1> QED BY <1>1, <1>4, <1>5

\* An operator's view in a reachable state.
LEMMA ViewIsSeen ==
  ASSUME SchemaInv, NEW c
  PROVE  View(c) = Seen(dcs, c) /\ dcs \in Schema
BY DEF View, Seen, SchemaInv, Schema
-----------------------------------------------------------------------------
(***************************************************************************)
(* The active replicas of a data centre are listed in increasing order,    *)
(* each once.                                                              *)
(***************************************************************************)
Lists(A, dc) ==
  /\ A \in Seq(Nat) /\ DOMAIN A = 1..Len(A) /\ Len(A) \in Nat
  /\ \A i \in 1..Len(A) : A[i] \in 0..(dc.replicas - 1) /\ Active(dc, A[i])
  /\ \A i, j \in 1..Len(A) : i < j => A[i] < A[j]
  /\ \A r \in 0..(dc.replicas - 1) : Active(dc, r) => \E i \in 1..Len(A) : A[i] = r

\* The loop of GetActiveReplicas lists them so.
LEMMA ActiveFacts ==
  ASSUME NEW dc, dc.replicas \in Nat
  PROVE  Lists(GetActiveReplicas(dc), dc)
<1> DEFINE n == dc.replicas
           source == [i \in 1..n |-> i - 1]
           keep == {i \in 1..n : Active(dc, i - 1)}
           A == GetActiveReplicas(dc)
<1>1. source \in Seq(Nat) /\ Len(source) = n /\ \A i \in 1..n : source[i] = i - 1
  OBVIOUS
<1>2. A = Kept(source, keep)
  BY DEF GetActiveReplicas
<1> HIDE DEF source
<1>3. A \in Seq(Nat) /\ KeptUpTo(source, keep, A, n)
  BY <1>1, <1>2, KeptFacts
<1> HIDE DEF A
<1>4. PICK pos : Positions(source, keep, A, pos, n)
  BY <1>3 DEF KeptUpTo
<1>5. \A i \in 1..Len(A) : pos[i] \in 1..n /\ Active(dc, pos[i] - 1) /\ A[i] = pos[i] - 1
  BY <1>1, <1>4 DEF Positions
<1>6. \A i, j \in 1..Len(A) : i < j => A[i] < A[j]
  <2>1. \A i, j \in 1..Len(A) : i < j => pos[i] < pos[j]
    BY <1>4 DEF Positions
  <2> QED BY <1>5, <2>1
<1>7. ASSUME NEW r \in 0..(n - 1), Active(dc, r) PROVE \E i \in 1..Len(A) : A[i] = r
  <2>1. r + 1 \in 1..n /\ (r + 1) - 1 = r
    OBVIOUS
  <2>2. r + 1 \in keep
    BY <1>7, <2>1
  <2>3. PICK i \in 1..Len(A) : pos[i] = r + 1
    BY <1>4, <2>1, <2>2 DEF Positions
  <2> QED BY <1>5, <2>1, <2>3
<1>8. \A i \in 1..Len(A) : A[i] \in 0..(n - 1) /\ Active(dc, A[i])
  BY <1>5
<1>9. DOMAIN A = 1..Len(A) /\ Len(A) \in Nat
  BY <1>3
<1>10. Lists(A, dc)
  BY <1>3, <1>6, <1>7, <1>8, <1>9 DEF Lists
<1> QED BY <1>10 DEF A

(***************************************************************************)
(* The numbering within one operator. Hosted: every data centre of the     *)
(* list is this operator's. Offset: the index of the first replica of a    *)
(* data centre.                                                            *)
(***************************************************************************)
Hosted(D) == D \in Seq(Viewed) /\ \A d \in 1..Len(D) : D[d].deploy
Sizes(D) == [d \in DOMAIN D |-> D[d].replicas]
Offset(D, d) == UpTo(Sizes(D), d - 1)

\* Data centres have consecutive ranges of indices, which cover all numbers below.
LEMMA OffsetFacts ==
  ASSUME NEW D, Hosted(D)
  PROVE  /\ \A d \in 1..Len(D) : Offset(D, d) \in Nat /\ D[d].replicas \in Nat
         /\ Len(D) # 0 => Offset(D, 1) = 0
         /\ \A d \in 1..Len(D) : \A r : CalcReplicaIndex(D, d, r) = Offset(D, d) + r
         /\ \A d, e \in 1..Len(D) : d < e => Offset(D, d) + D[d].replicas <= Offset(D, e)
         /\ \A d \in 1..Len(D), m \in Nat : m < Offset(D, d) + D[d].replicas =>
              \E e \in 1..Len(D) : Offset(D, e) <= m /\ m < Offset(D, e) + D[e].replicas
<1> DEFINE n == Len(D)
           f == Sizes(D)
<1>1. n \in Nat /\ DOMAIN D = 1..n /\ \A d \in 1..n : D[d] \in Viewed
  BY DEF Hosted
<1>2. \A d \in 1..n : D[d].replicas \in Nat /\ f[d] = D[d].replicas
  BY <1>1, SchemaAssumption DEF Viewed, Sizes
<1>3. NatsUpTo(f, n)
  BY <1>2 DEF NatsUpTo
<1> HIDE DEF f, n
<1>4. /\ UpTo(f, 0) = 0
      /\ \A k \in 0..n : UpTo(f, k) \in Nat
      /\ \A k \in 1..n : UpTo(f, k) = UpTo(f, k - 1) + f[k]
  BY <1>1, <1>3, UpToStep
<1>5. \A d \in 1..n : d - 1 \in 0..n /\ d \in 0..n
  BY <1>1
<1>6. \A d \in 1..n : Offset(D, d) = UpTo(f, d - 1) /\ Offset(D, d) \in Nat
  BY <1>4, <1>5 DEF Offset, f
<1>7. ASSUME NEW d \in 1..n, NEW r PROVE CalcReplicaIndex(D, d, r) = Offset(D, d) + r
  <2>1. ~\E e \in DOMAIN D : ~D[e].deploy
    BY <1>1 DEF Hosted, n
  <2>2. CalcReplicaIndex(D, d, r) =
          SumFunctionOnSet([e \in DOMAIN D |-> D[e].replicas], 1..(d - 1)) + r
    BY <2>1 DEF CalcReplicaIndex
  <2> QED BY <2>2 DEF Offset, UpTo, Sizes
<1>8. ASSUME NEW d \in 1..n, NEW e \in 1..n, d < e
      PROVE  Offset(D, d) + D[d].replicas <= Offset(D, e)
  <2>1. d <= e - 1
    BY <1>1, <1>8
  <2>2. UpTo(f, d) <= UpTo(f, e - 1)
    BY <1>1, <1>3, <1>5, <2>1, UpToMonotone
  <2>3. UpTo(f, d) = Offset(D, d) + D[d].replicas
    BY <1>2, <1>4, <1>6
  <2> QED BY <1>6, <2>2, <2>3
<1>9. ASSUME NEW d \in 1..n, NEW m \in Nat, m < Offset(D, d) + D[d].replicas
      PROVE  \E e \in 1..n : Offset(D, e) <= m /\ m < Offset(D, e) + D[e].replicas
  <2>1. m < UpTo(f, d) /\ d \in Nat
    BY <1>1, <1>2, <1>4, <1>6, <1>9
  <2>2. NatsUpTo(f, d)
    BY <1>1, <1>3 DEF NatsUpTo
  <2>3. PICK e \in 1..d : UpTo(f, e - 1) <= m /\ m < UpTo(f, e - 1) + f[e]
    BY <2>1, <2>2, UpToCovers
  <2>4. e \in 1..n
    BY <1>1
  <2> QED BY <1>2, <1>6, <2>3, <2>4
<1>10. n # 0 => Offset(D, 1) = 0
  <2>1. 1 - 1 = 0
    OBVIOUS
  <2> QED BY <1>4, <2>1 DEF Offset, f
<1> QED BY <1>2, <1>6, <1>7, <1>8, <1>9, <1>10 DEF n

\* An index belongs to one replica, and every smaller number is an index too.
LEMMA IndexFacts ==
  ASSUME NEW D, Hosted(D), NEW d \in 1..Len(D), NEW r \in 0..(D[d].replicas - 1)
  PROVE  /\ \A e \in 1..Len(D) : \A q \in 0..(D[e].replicas - 1) :
              Offset(D, d) + r = Offset(D, e) + q => d = e /\ r = q
         /\ \A m \in 0..(Offset(D, d) + r) : \E e \in 1..Len(D) :
              \E q \in 0..(D[e].replicas - 1) : m = Offset(D, e) + q
<1>1. /\ \A e \in 1..Len(D) : Offset(D, e) \in Nat /\ D[e].replicas \in Nat
      /\ \A i, e \in 1..Len(D) : i < e => Offset(D, i) + D[i].replicas <= Offset(D, e)
      /\ \A m \in Nat : m < Offset(D, d) + D[d].replicas =>
           \E e \in 1..Len(D) : Offset(D, e) <= m /\ m < Offset(D, e) + D[e].replicas
  BY OffsetFacts
<1>2. Len(D) \in Nat
  BY DEF Hosted
<1>3. ASSUME NEW e \in 1..Len(D), NEW q \in 0..(D[e].replicas - 1),
             Offset(D, d) + r = Offset(D, e) + q
      PROVE  d = e /\ r = q
  <2>1. /\ Offset(D, d) \in Nat /\ D[d].replicas \in Nat
        /\ Offset(D, e) \in Nat /\ D[e].replicas \in Nat
    BY <1>1
  <2>2. ~(d < e)
    <3>1. d < e => Offset(D, d) + D[d].replicas <= Offset(D, e)
      BY <1>1
    <3> QED BY <1>3, <2>1, <3>1
  <2>3. ~(e < d)
    <3>1. e < d => Offset(D, e) + D[e].replicas <= Offset(D, d)
      BY <1>1
    <3> QED BY <1>3, <2>1, <3>1
  <2>4. d = e
    BY <1>2, <2>2, <2>3
  <2> QED BY <1>3, <2>1, <2>4
<1>4. ASSUME NEW m \in 0..(Offset(D, d) + r)
      PROVE  \E e \in 1..Len(D) : \E q \in 0..(D[e].replicas - 1) : m = Offset(D, e) + q
  <2>1. m \in Nat /\ m < Offset(D, d) + D[d].replicas
    <3>1. Offset(D, d) \in Nat /\ D[d].replicas \in Nat
      BY <1>1
    <3> QED BY <3>1
  <2>2. PICK e \in 1..Len(D) : Offset(D, e) <= m /\ m < Offset(D, e) + D[e].replicas
    BY <1>1, <2>1
  <2>3. /\ m - Offset(D, e) \in 0..(D[e].replicas - 1)
        /\ m = Offset(D, e) + (m - Offset(D, e))
    <3>1. Offset(D, e) \in Nat /\ D[e].replicas \in Nat
      BY <1>1
    <3> QED BY <2>1, <2>2, <3>1
  <2> QED BY <2>3
<1> QED BY <1>3, <1>4

(***************************************************************************)
(* The data centres an operator hosts are those of its cluster, in order.  *)
(***************************************************************************)
Deployed(v) == {d \in DOMAIN v : v[d].deploy}

\* FilterDC lists them so, and leaves out none.
LEMMA FilterFacts ==
  ASSUME NEW v \in Seq(Viewed)
  PROVE  /\ Hosted(FilterDC(v))
         /\ KeptUpTo(v, Deployed(v), FilterDC(v), Len(v))
         /\ \A i \in 1..Len(FilterDC(v)) : \E d \in 1..Len(v) :
              v[d].deploy /\ FilterDC(v)[i] = v[d]
         /\ \A d \in 1..Len(v) : v[d].deploy =>
              \E i \in 1..Len(FilterDC(v)) : FilterDC(v)[i] = v[d]
<1> DEFINE D == FilterDC(v)
<1>1. D \in Seq(Viewed) /\ KeptUpTo(v, Deployed(v), D, Len(v))
  BY KeptFacts DEF FilterDC, Deployed
<1> HIDE DEF D
<1>2. PICK pos : Positions(v, Deployed(v), D, pos, Len(v))
  BY <1>1 DEF KeptUpTo
<1>3. \A i \in 1..Len(D) : pos[i] \in 1..Len(v) /\ v[pos[i]].deploy /\ D[i] = v[pos[i]]
  BY <1>2 DEF Positions, Deployed
<1>4. \A d \in 1..Len(v) : v[d].deploy => \E i \in 1..Len(D) : D[i] = v[d]
  BY <1>2, <1>3 DEF Positions, Deployed
<1>5. Hosted(D)
  BY <1>1, <1>3 DEF Hosted
<1> QED BY <1>1, <1>3, <1>4, <1>5 DEF D

(***************************************************************************)
(* The nodes of a rollout: every active replica of every data centre the   *)
(* operator hosts, once, in the order of the indices.                      *)
(***************************************************************************)
NodeOf(D, d, r) == [ss |-> Offset(D, d) + r, pvc |-> <<d, r>>]

Rolls(plan, D) ==
  /\ plan \in Seq([ss : Nat, pvc : Nat \X Nat]) /\ DOMAIN plan = 1..Len(plan)
  /\ \A k \in 1..Len(plan) : \E d \in 1..Len(D) : \E r \in 0..(D[d].replicas - 1) :
       Active(D[d], r) /\ plan[k] = NodeOf(D, d, r)
  /\ \A d \in 1..Len(D) : \A r \in 0..(D[d].replicas - 1) :
       Active(D[d], r) => \E k \in 1..Len(plan) : plan[k] = NodeOf(D, d, r)
  /\ \A j, k \in 1..Len(plan) : j < k => plan[j].ss < plan[k].ss

\* RolloutPlan rolls them so.
LEMMA PlanFacts ==
  ASSUME NEW v \in Seq(Viewed)
  PROVE  Rolls(RolloutPlan(v), FilterDC(v))
<1> DEFINE D == FilterDC(v)
           plan == RolloutPlan(v)
           Node == [ss : Nat, pvc : Nat \X Nat]
           A(d) == GetActiveReplicas(D[d])
           nodes(d) == [i \in DOMAIN A(d) |->
                          [ss |-> CalcReplicaIndex(D, d, A(d)[i]), pvc |-> <<d, A(d)[i]>>]]
           seqs == [d \in DOMAIN D |-> nodes(d)]
<1>1. plan = FlattenSeq(seqs)
  BY DEF RolloutPlan
<1>2. Hosted(D)
  BY FilterFacts
<1> HIDE DEF D, plan
<1>3. DOMAIN D = 1..Len(D) /\ Len(D) \in Nat
  BY <1>2 DEF Hosted
<1>4. /\ \A d \in 1..Len(D) : Offset(D, d) \in Nat /\ D[d].replicas \in Nat
      /\ \A d \in 1..Len(D) : \A r : CalcReplicaIndex(D, d, r) = Offset(D, d) + r
      /\ \A d, e \in 1..Len(D) : d < e => Offset(D, d) + D[d].replicas <= Offset(D, e)
  BY <1>2, OffsetFacts
<1>5. ASSUME NEW d \in 1..Len(D)
      PROVE  /\ A(d) \in Seq(Nat) /\ DOMAIN A(d) = 1..Len(A(d)) /\ Len(A(d)) \in Nat
             /\ \A i \in 1..Len(A(d)) :
                  A(d)[i] \in 0..(D[d].replicas - 1) /\ Active(D[d], A(d)[i])
             /\ \A i, j \in 1..Len(A(d)) : i < j => A(d)[i] < A(d)[j]
             /\ \A r \in 0..(D[d].replicas - 1) :
                  Active(D[d], r) => \E i \in 1..Len(A(d)) : A(d)[i] = r
  <2>1. Lists(A(d), D[d])
    BY <1>4, ActiveFacts
  <2> HIDE DEF A
  <2> QED BY <2>1 DEF Lists
<1> HIDE DEF A
<1>6. ASSUME NEW d \in 1..Len(D)
      PROVE  /\ nodes(d) \in Seq(Node) /\ Len(nodes(d)) = Len(A(d))
             /\ \A i \in 1..Len(A(d)) : nodes(d)[i] = NodeOf(D, d, A(d)[i])
  <2>1. \A i \in 1..Len(A(d)) : A(d)[i] \in Nat
    BY <1>4, <1>5
  <2>2. \A i \in 1..Len(A(d)) : nodes(d)[i] = NodeOf(D, d, A(d)[i])
    BY <1>4, <1>5 DEF NodeOf
  <2>3. \A i \in 1..Len(A(d)) : NodeOf(D, d, A(d)[i]) \in Node
    BY <1>3, <1>4, <2>1 DEF NodeOf
  <2>4. nodes(d) \in [1..Len(A(d)) -> Node]
    <3>1. \A i \in 1..Len(A(d)) : [ss |-> CalcReplicaIndex(D, d, A(d)[i]), pvc |-> <<d, A(d)[i]>>] \in Node
      BY <1>4, <2>3 DEF NodeOf
    <3> QED BY <1>5, <3>1
  <2>5. nodes(d) \in Seq(Node) /\ Len(nodes(d)) = Len(A(d))
    <3> DEFINE n == Len(A(d))
    <3>1. n \in Nat
      BY <1>5
    <3> HIDE DEF nodes, Node, n
    <3>2. nodes(d) \in [1..n -> Node]
      BY <2>4 DEF n
    <3>3. nodes(d) \in Seq(Node) /\ Len(nodes(d)) = n
      BY <3>1, <3>2
    <3> QED BY <3>3 DEF n
  <2> QED BY <2>2, <2>5
<1>7. seqs \in Seq(Seq(Node)) /\ Len(seqs) = Len(D) /\ \A d \in 1..Len(D) : seqs[d] = nodes(d)
  <2>1. \A d \in 1..Len(D) : nodes(d) \in Seq(Node)
    BY <1>6
  <2> HIDE DEF nodes, Node
  <2>2. \A d \in 1..Len(D) : seqs[d] = nodes(d)
    BY <1>3
  <2>3. seqs \in [1..Len(D) -> Seq(Node)]
    BY <1>3, <2>1
  <2> QED BY <1>3, <2>2, <2>3
<1> HIDE DEF nodes, seqs, Node
<1>8. plan \in Seq(Node) /\ HoldsOf(seqs, plan, Len(seqs))
  BY <1>1, <1>7, FlattenFacts
<1>9. PICK of, at : Comes(seqs, plan, of, at, Len(D))
  BY <1>7, <1>8 DEF HoldsOf
<1>10. ASSUME NEW k \in 1..Len(plan)
       PROVE  /\ of[k] \in 1..Len(D) /\ at[k] \in 1..Len(A(of[k]))
              /\ plan[k] = NodeOf(D, of[k], A(of[k])[at[k]])
  <2>1. /\ of[k] \in 1..Len(D) /\ at[k] \in 1..Len(seqs[of[k]])
        /\ plan[k] = seqs[of[k]][at[k]]
    BY <1>9 DEF Comes
  <2> QED BY <1>6, <1>7, <2>1
<1>11. ASSUME NEW k \in 1..Len(plan)
       PROVE  \E d \in 1..Len(D) : \E r \in 0..(D[d].replicas - 1) :
                Active(D[d], r) /\ plan[k] = NodeOf(D, d, r)
  BY <1>5, <1>10
<1>12. ASSUME NEW d \in 1..Len(D), NEW r \in 0..(D[d].replicas - 1), Active(D[d], r)
       PROVE  \E k \in 1..Len(plan) : plan[k] = NodeOf(D, d, r)
  <2>1. PICK i \in 1..Len(A(d)) : A(d)[i] = r
    BY <1>5, <1>12
  <2>2. i \in 1..Len(seqs[d])
    BY <1>6, <1>7
  <2>3. PICK k \in 1..Len(plan) : of[k] = d /\ at[k] = i
    BY <1>9, <2>2 DEF Comes
  <2> QED BY <1>10, <2>1, <2>3
<1>13. ASSUME NEW j \in 1..Len(plan), NEW k \in 1..Len(plan), j < k
       PROVE  plan[j].ss < plan[k].ss
  <2> DEFINE d == of[j]
             e == of[k]
             r == A(d)[at[j]]
             q == A(e)[at[k]]
  <2>1. d \in 1..Len(D) /\ e \in 1..Len(D) /\ at[j] \in 1..Len(A(d)) /\ at[k] \in 1..Len(A(e))
    BY <1>10
  <2>2. r \in 0..(D[d].replicas - 1) /\ q \in 0..(D[e].replicas - 1)
    BY <1>5, <2>1
  <2>3. plan[j].ss = Offset(D, d) + r /\ plan[k].ss = Offset(D, e) + q
    <3>1. plan[j] = NodeOf(D, d, r) /\ plan[k] = NodeOf(D, e, q)
      BY <1>10
    <3> HIDE DEF d, e, r, q
    <3> QED BY <3>1 DEF NodeOf
  <2>4. d < e \/ (d = e /\ at[j] < at[k])
    BY <1>9, <1>13 DEF Comes
  <2>5. /\ Offset(D, d) \in Nat /\ Offset(D, e) \in Nat
        /\ D[d].replicas \in Nat /\ D[e].replicas \in Nat
    BY <1>4, <2>1
  <2>6. CASE d < e
    <3>1. Offset(D, d) + D[d].replicas <= Offset(D, e)
      BY <1>4, <2>1, <2>6
    <3> HIDE DEF d, e, r, q
    <3> QED BY <2>2, <2>3, <2>5, <3>1
  <2>7. CASE d = e /\ at[j] < at[k]
    <3>1. r < q
      BY <1>5, <2>1, <2>7
    <3> HIDE DEF r, q
    <3> QED BY <2>2, <2>3, <2>5, <2>7, <3>1
  <2> QED BY <2>4, <2>6, <2>7
<1>14. plan \in Seq([ss : Nat, pvc : Nat \X Nat])
  BY <1>8 DEF Node
<1>15. DOMAIN plan = 1..Len(plan)
  BY <1>8
<1>16. Rolls(plan, D)
  BY <1>11, <1>12, <1>13, <1>14, <1>15 DEF Rolls
<1> QED BY <1>16 DEF D, plan

\* The rolled nodes as a set, and their stateful sets.
LEMMA PlannedFacts ==
  ASSUME NEW v \in Seq(Viewed)
  PROVE  /\ \A x \in ToSet(RolloutPlan(v)) :
              \E d \in 1..Len(FilterDC(v)) : \E r \in 0..(FilterDC(v)[d].replicas - 1) :
                Active(FilterDC(v)[d], r) /\ x = NodeOf(FilterDC(v), d, r)
         /\ \A d \in 1..Len(FilterDC(v)) : \A r \in 0..(FilterDC(v)[d].replicas - 1) :
              Active(FilterDC(v)[d], r) => NodeOf(FilterDC(v), d, r) \in ToSet(RolloutPlan(v))
<1> DEFINE D == FilterDC(v)
           plan == RolloutPlan(v)
<1>1. Rolls(plan, D)
  BY PlanFacts
<1> HIDE DEF D, plan
<1>2. ToSet(plan) = {plan[k] : k \in 1..Len(plan)}
  BY <1>1 DEF Rolls, ToSet
<1>3. /\ \A x \in ToSet(plan) :
              \E d \in 1..Len(D) : \E r \in 0..(D[d].replicas - 1) :
                Active(D[d], r) /\ x = NodeOf(D, d, r)
      /\ \A d \in 1..Len(D) : \A r \in 0..(D[d].replicas - 1) :
              Active(D[d], r) => NodeOf(D, d, r) \in ToSet(plan)
  BY <1>1, <1>2 DEF Rolls
<1> QED BY <1>3 DEF D, plan
-----------------------------------------------------------------------------
(***************************************************************************)
(* The rollout of an operator visits its nodes in the order of their       *)
(* stateful sets and gives no stateful set to two of them, for any schema  *)
(* that edits can reach: CalcReplicaIndex counts the replicas of earlier   *)
(* data centres, the removed ones too.                                     *)
(***************************************************************************)
THEOREM RolloutInOrder == Spec => []StatefulSetsInOrder
<1>1. SchemaInv => StatefulSetsInOrder
  <2> SUFFICES ASSUME SchemaInv, NEW c \in Clusters
               PROVE  \A i, j \in DOMAIN RolloutPlan(View(c)) :
                        i < j => RolloutPlan(View(c))[i].ss < RolloutPlan(View(c))[j].ss
    BY DEF StatefulSetsInOrder
  <2>1. View(c) \in Seq(Viewed)
    BY ViewIsSeen, ViewFacts
  <2>2. Rolls(RolloutPlan(View(c)), FilterDC(View(c)))
    BY <2>1, PlanFacts
  <2> QED BY <2>2 DEF Rolls
<1> QED BY <1>1, SchemaCorrect, PTL

\* The keys of removeNodes are those of replicas the operator has.
InRange(D) ==
  \A d \in 1..Len(D) : \A k \in D[d].removeNodes :
    k.canonical /\ k.index \in 0..(D[d].replicas - 1)

\* RemovalsInRange, seen by an operator.
LEMMA InRangeFacts ==
  ASSUME NEW s \in Schema, NEW c,
         \A d \in DOMAIN s : \A k \in s[d].removeNodes :
           k.canonical /\ k.index < s[d].replicas
  PROVE  InRange(FilterDC(Seen(s, c)))
<1> DEFINE v == Seen(s, c)
           D == FilterDC(v)
<1>1. /\ v \in Seq(Viewed) /\ Len(v) = Len(s) /\ DOMAIN s = 1..Len(s)
      /\ \A d \in 1..Len(s) : /\ v[d].removeNodes = s[d].removeNodes
                              /\ v[d].replicas = s[d].replicas /\ s[d] \in DataCentre
  BY ViewFacts
<1> HIDE DEF v
<1>2. \A i \in 1..Len(D) : \E d \in 1..Len(v) : v[d].deploy /\ D[i] = v[d]
  BY <1>1, FilterFacts
<1> HIDE DEF D
<1>3. ASSUME NEW d \in 1..Len(v), NEW k \in v[d].removeNodes
      PROVE  k.canonical /\ k.index \in 0..(v[d].replicas - 1)
  <2>1. k \in Keys /\ s[d].replicas \in Nat
    BY <1>1, SchemaAssumption DEF DataCentre
  <2>2. k.index \in Nat
    BY <2>1, SchemaAssumption DEF Keys
  <2>3. k.canonical /\ k.index < s[d].replicas
    BY <1>1
  <2> QED BY <1>1, <2>1, <2>2, <2>3
<1>4. InRange(D)
  BY <1>2, <1>3 DEF InRange
<1> QED BY <1>4 DEF D, v

(***************************************************************************)
(* The stateful sets RemoveNodes deletes are those of inactive replicas,   *)
(* and together with the rolled ones they are numbered without a gap, when *)
(* the keys of removeNodes name replicas of their data centre: the indices *)
(* of the data centres are consecutive ranges, and within one a number is  *)
(* active or a key.                                                        *)
(***************************************************************************)
THEOREM RemovalIsSafe == Spec => []RemovalSparesActiveNodes
<1>1. SchemaInv => RemovalSparesActiveNodes
  <2> SUFFICES ASSUME SchemaInv, RemovalsInRange, NEW c \in Clusters
               PROVE  /\ RemoveNodesTargets(View(c)) \cap PlannedSS(c) = {}
                      /\ \A n \in RemoveNodesTargets(View(c)) \cup PlannedSS(c) :
                           0..n \subseteq RemoveNodesTargets(View(c)) \cup PlannedSS(c)
    BY DEF RemovalSparesActiveNodes
  <2> DEFINE v == View(c)
             D == FilterDC(v)
             Targets == RemoveNodesTargets(v)
             Planned == PlannedSS(c)
  <2>1. v \in Seq(Viewed)
    BY ViewIsSeen, ViewFacts
  <2>2. InRange(D)
    BY ViewIsSeen, InRangeFacts DEF RemovalsInRange
  <2>3. Hosted(D)
    BY <2>1, FilterFacts
  <2>4. /\ \A d \in 1..Len(D) : Offset(D, d) \in Nat /\ D[d].replicas \in Nat
        /\ \A d \in 1..Len(D) : \A r : CalcReplicaIndex(D, d, r) = Offset(D, d) + r
    BY <2>3, OffsetFacts
  <2>5. /\ \A x \in ToSet(RolloutPlan(v)) :
              \E d \in 1..Len(D) : \E r \in 0..(D[d].replicas - 1) :
                Active(D[d], r) /\ x = NodeOf(D, d, r)
        /\ \A d \in 1..Len(D) : \A r \in 0..(D[d].replicas - 1) :
              Active(D[d], r) => NodeOf(D, d, r) \in ToSet(RolloutPlan(v))
    BY <2>1, PlannedFacts
  <2>6. Targets = UNION {{CalcReplicaIndex(D, d, k.index) :
                            k \in D[d].removeNodes} : d \in DOMAIN D}
    BY DEF RemoveNodesTargets
  <2>7. Planned = {x.ss : x \in ToSet(RolloutPlan(v))}
    BY DEF PlannedSS
  <2> HIDE DEF v, D, Targets, Planned
  <2>8. DOMAIN D = 1..Len(D) /\ Len(D) \in Nat
    BY <2>3 DEF Hosted
  <2>9. \A n : n \in Targets <=> \E d \in 1..Len(D) : \E k \in D[d].removeNodes :
                                   n = Offset(D, d) + k.index
    BY <2>4, <2>6, <2>8
  <2>10. \A n : n \in Planned <=> \E d \in 1..Len(D) : \E r \in 0..(D[d].replicas - 1) :
                                   Active(D[d], r) /\ n = Offset(D, d) + r
    <3>1. \A d, r : NodeOf(D, d, r).ss = Offset(D, d) + r
      BY DEF NodeOf
    <3>2. \A n : n \in Planned <=> \E x \in ToSet(RolloutPlan(v)) : n = x.ss
      BY <2>7
    <3>3. ASSUME NEW n, n \in Planned
          PROVE  \E d \in 1..Len(D) : \E r \in 0..(D[d].replicas - 1) :
                   Active(D[d], r) /\ n = Offset(D, d) + r
      <4>1. PICK x \in ToSet(RolloutPlan(v)) : n = x.ss
        BY <3>2, <3>3
      <4> QED BY <2>5, <3>1, <4>1
    <3>4. ASSUME NEW d \in 1..Len(D), NEW r \in 0..(D[d].replicas - 1), Active(D[d], r)
          PROVE  Offset(D, d) + r \in Planned
      <4>1. NodeOf(D, d, r) \in ToSet(RolloutPlan(v))
        BY <2>5, <3>4
      <4> QED BY <3>1, <3>2, <4>1
    <3> QED BY <3>3, <3>4
  <2>11. ASSUME NEW n, n \in Targets, n \in Planned PROVE FALSE
    <3>d. PICK d \in 1..Len(D) : \E k \in D[d].removeNodes : n = Offset(D, d) + k.index
      BY <2>9, <2>11
    <3>1. PICK k \in D[d].removeNodes : n = Offset(D, d) + k.index
      BY <3>d
    <3>e. PICK e \in 1..Len(D) : \E r \in 0..(D[e].replicas - 1) :
            Active(D[e], r) /\ n = Offset(D, e) + r
      BY <2>10, <2>11
    <3>2. PICK r \in 0..(D[e].replicas - 1) : Active(D[e], r) /\ n = Offset(D, e) + r
      BY <3>e
    <3>3. k.canonical /\ k.index \in 0..(D[d].replicas - 1)
      BY <2>2 DEF InRange
    <3>4. d = e /\ k.index = r
      BY <2>3, <3>1, <3>2, <3>3, IndexFacts
    <3> QED BY <3>2, <3>3, <3>4 DEF Active
  <2>12. ASSUME NEW n, n \in Targets \/ n \in Planned, NEW m \in 0..n
         PROVE  m \in Targets \/ m \in Planned
    <3>d. PICK d \in 1..Len(D) : \E r \in 0..(D[d].replicas - 1) : n = Offset(D, d) + r
      BY <2>2, <2>9, <2>10, <2>12 DEF InRange
    <3>1. PICK r \in 0..(D[d].replicas - 1) : n = Offset(D, d) + r
      BY <3>d
    <3>e. PICK e \in 1..Len(D) : \E q \in 0..(D[e].replicas - 1) : m = Offset(D, e) + q
      BY <2>3, <3>1, IndexFacts
    <3>2. PICK q \in 0..(D[e].replicas - 1) : m = Offset(D, e) + q
      BY <3>e
    <3>3. CASE Active(D[e], q)
      BY <2>10, <3>2, <3>3
    <3>4. CASE ~Active(D[e], q)
      <4>1. PICK k \in D[e].removeNodes : k.index = q
        BY <3>4 DEF Active
      <4> QED BY <2>9, <3>2, <4>1
    <3> QED BY <3>3, <3>4
  <2>13. Targets \cap Planned = {}
    BY <2>11
  <2>14. \A n \in Targets \cup Planned : 0..n \subseteq Targets \cup Planned
    BY <2>12
  <2> QED BY <2>13, <2>14 DEF Targets, Planned, v
<1> QED BY <1>1, SchemaCorrect, PTL
-----------------------------------------------------------------------------
\* What InitialValidations has checked, for the data centres of the list itself.
LEMMA ValidFacts ==
  ASSUME NEW v \in Seq(Viewed), InitialValidations(v)
  PROVE  /\ Len(FilterDC(v)) \in Nat \ {0}
         /\ \A d \in 1..Len(FilterDC(v)) : Len(GetActiveReplicas(FilterDC(v)[d])) > 0
         /\ \E d \in 1..Len(v) : v[d].deploy
         /\ \A d \in 1..Len(v) : v[d].deploy => Len(GetActiveReplicas(v[d])) > 0
<1> DEFINE D == FilterDC(v)
<1>1. /\ Hosted(D)
      /\ \A i \in 1..Len(D) : \E d \in 1..Len(v) : v[d].deploy /\ D[i] = v[d]
      /\ \A d \in 1..Len(v) : v[d].deploy => \E i \in 1..Len(D) : D[i] = v[d]
  BY FilterFacts
<1>2. /\ Len(D) >= 1
      /\ \A d \in DOMAIN D : Len(GetActiveReplicas(D[d])) >= 1
  BY DEF InitialValidations, GetActiveReplicasLen
<1> HIDE DEF D
<1>3. Len(D) \in Nat \ {0} /\ DOMAIN D = 1..Len(D)
  BY <1>1, <1>2 DEF Hosted
<1>4. \A d \in 1..Len(D) : D[d].replicas \in Nat
  BY <1>1, OffsetFacts
<1>5. ASSUME NEW d \in 1..Len(D) PROVE Len(GetActiveReplicas(D[d])) > 0
  <2>1. Len(GetActiveReplicas(D[d])) \in Nat
    BY <1>4, ActiveFacts DEF Lists
  <2> QED BY <1>2, <1>3, <2>1
<1>6. 1 \in 1..Len(D)
  BY <1>3
<1> QED BY <1>1, <1>3, <1>5, <1>6 DEF D

(***************************************************************************)
(* The operator's own sessions have a contact point among the nodes it     *)
(* rolls: the first data centre it hosts is numbered from zero in the list *)
(* of contact points and in the rollout, and has an active replica.        *)
(***************************************************************************)
THEOREM ContactPointIsRolled == Spec => []OperatorCanConnect
<1>1. SchemaInv => OperatorCanConnect
  <2> SUFFICES ASSUME SchemaInv, NEW c \in Clusters, Valid(c)
               PROVE  \E host \in GetConnectionHosts(View(c)) :
                        host.domain = DefaultClusterDomain /\ host.ss \in PlannedSS(c)
    BY DEF OperatorCanConnect
  <2> DEFINE v == View(c)
             D == FilterDC(v)
             A == GetActiveReplicas(D[1])
             r == A[1]
             host == [ss |-> r, domain |-> DefaultClusterDomain]
  <2>1. v \in Seq(Viewed) /\ InitialValidations(v)
    BY ViewIsSeen, ViewFacts DEF Valid
  <2>2. PlannedSS(c) = {x.ss : x \in ToSet(RolloutPlan(v))}
    BY DEF PlannedSS
  <2>3. GetConnectionHosts(v) =
          UNION {{[ss |-> q, domain |-> GetClusterDomain(v[d])] :
                    q \in 0..(v[d].replicas - 1)} : d \in DOMAIN v}
    BY DEF GetConnectionHosts
  <2> HIDE DEF v
  <2>4. 1 \in 1..Len(D) /\ Len(A) > 0
    BY <2>1, ValidFacts
  <2>5. Hosted(D) /\ \E d \in 1..Len(v) : v[d].deploy /\ D[1] = v[d]
    BY <2>1, <2>4, FilterFacts
  <2>6. /\ \A d \in 1..Len(D) : \A q \in 0..(D[d].replicas - 1) :
              Active(D[d], q) => NodeOf(D, d, q) \in ToSet(RolloutPlan(v))
    BY <2>1, PlannedFacts
  <2> HIDE DEF D
  <2>7. Offset(D, 1) = 0 /\ D[1].replicas \in Nat
    BY <2>4, <2>5, OffsetFacts
  <2>8. Lists(A, D[1])
    BY <2>7, ActiveFacts
  <2> HIDE DEF A
  <2>9. r \in 0..(D[1].replicas - 1) /\ Active(D[1], r)
    <3>1. 1 \in 1..Len(A)
      BY <2>4, <2>8 DEF Lists
    <3> QED BY <2>8, <3>1 DEF Lists
  <2> HIDE DEF r
  <2>10. r \in PlannedSS(c)
    <3>1. NodeOf(D, 1, r) \in ToSet(RolloutPlan(v))
      BY <2>4, <2>6, <2>9
    <3>2. NodeOf(D, 1, r).ss = r
      BY <2>7, <2>9 DEF NodeOf
    <3> QED BY <2>2, <3>1, <3>2
  <2>11. host \in GetConnectionHosts(v)
    <3>1. PICK d \in 1..Len(v) : v[d].deploy /\ D[1] = v[d]
      BY <2>5
    <3>2. d \in DOMAIN v /\ r \in 0..(v[d].replicas - 1)
      BY <2>1, <2>9, <3>1
    <3>3. GetClusterDomain(v[d]) = DefaultClusterDomain
      BY <3>1 DEF GetClusterDomain
    <3> QED BY <2>3, <3>2, <3>3
  <2> QED BY <2>10, <2>11 DEF v
<1> QED BY <1>1, SchemaCorrect, PTL
-----------------------------------------------------------------------------
(***************************************************************************)
(* What an edit does to the replicas: data centres are only added at the   *)
(* end, keep their cluster and never lose replicas.                        *)
(***************************************************************************)
Grows(s, t) ==
  /\ Len(s) <= Len(t)
  /\ \A d \in 1..Len(s) : s[d].cluster = t[d].cluster /\ s[d].replicas <= t[d].replicas

\* Every edit grows the schema so.
LEMMA EditGrows ==
  ASSUME SchemaInv, Next
  PROVE  Grows(dcs, dcs')
<1>1. /\ dcs \in Seq(DataCentre) /\ DOMAIN dcs = 1..Len(dcs) /\ Len(dcs) \in Nat
      /\ \A d \in 1..Len(dcs) : dcs[d] \in DataCentre /\ dcs[d].replicas \in Nat
  <2>1. /\ dcs \in Seq(DataCentre) /\ DOMAIN dcs = 1..Len(dcs) /\ Len(dcs) \in Nat
        /\ \A d \in 1..Len(dcs) : dcs[d] \in DataCentre
    BY DEF SchemaInv
  <2>2. \A x \in DataCentre : x.replicas \in Nat
    BY SchemaAssumption DEF DataCentre
  <2> QED BY <2>1, <2>2
<1>2. ASSUME NEW c \in Clusters, NEW n \in 1..MaxReplicas, NEW s \in 1..MaxSeeds,
             NEW l \in SeedLists, AddDC(c, n, s, l)
      PROVE  Grows(dcs, dcs')
  <2>1. NewDC(c, n, s, l) \in DataCentre
    BY DEF NewDC, DataCentre, SeedLists
  <2>2. Len(dcs') = Len(dcs) + 1 /\ \A d \in 1..Len(dcs) : dcs'[d] = dcs[d]
    BY <1>1, <1>2, <2>1 DEF AddDC
  <2> QED BY <1>1, <2>2 DEF Grows
<1>3. ASSUME NEW e \in DOMAIN dcs, ScaleOut(e) PROVE Grows(dcs, dcs')
  <2>1. /\ Len(dcs') = Len(dcs)
        /\ dcs'[e] = [dcs[e] EXCEPT !.replicas = dcs[e].replicas + 1]
        /\ \A d \in 1..Len(dcs) : d # e => dcs'[d] = dcs[d]
    BY <1>1, <1>3 DEF ScaleOut
  <2>2. dcs[e] \in DataCentre
    BY <1>1
  <2>3. dcs'[e].cluster = dcs[e].cluster /\ dcs'[e].replicas = dcs[e].replicas + 1
    BY <2>1, <2>2 DEF DataCentre
  <2>4. \A d \in 1..Len(dcs) :
          dcs[d].cluster = dcs'[d].cluster /\ dcs[d].replicas <= dcs'[d].replicas
    <3>1. ASSUME NEW d \in 1..Len(dcs), d = e
          PROVE  dcs[d].cluster = dcs'[d].cluster /\ dcs[d].replicas <= dcs'[d].replicas
      <4>1. dcs[e].replicas \in Nat
        BY <1>1
      <4> QED BY <2>3, <3>1, <4>1
    <3>2. ASSUME NEW d \in 1..Len(dcs), d # e
          PROVE  dcs[d].cluster = dcs'[d].cluster /\ dcs[d].replicas <= dcs'[d].replicas
      <4>1. dcs[d].replicas \in Nat /\ dcs'[d] = dcs[d]
        BY <1>1, <2>1, <3>2
      <4> QED BY <4>1
    <3> QED BY <3>1, <3>2
  <2> QED BY <1>1, <2>1, <2>4 DEF Grows
<1>4. ASSUME NEW e \in DOMAIN dcs, NEW k \in Keys, ListForRemoval(e, k)
      PROVE  Grows(dcs, dcs')
  <2>1. /\ Len(dcs') = Len(dcs)
        /\ dcs'[e] = [dcs[e] EXCEPT !.removeNodes = dcs[e].removeNodes \cup {k}]
        /\ \A d \in 1..Len(dcs) : d # e => dcs'[d] = dcs[d]
    BY <1>1, <1>4 DEF ListForRemoval
  <2>2. dcs[e] \in DataCentre
    BY <1>1
  <2>3. dcs'[e].cluster = dcs[e].cluster /\ dcs'[e].replicas = dcs[e].replicas
    BY <2>1, <2>2 DEF DataCentre
  <2>4. \A d \in 1..Len(dcs) :
          dcs[d].cluster = dcs'[d].cluster /\ dcs[d].replicas <= dcs'[d].replicas
    <3>1. ASSUME NEW d \in 1..Len(dcs), d = e
          PROVE  dcs[d].cluster = dcs'[d].cluster /\ dcs[d].replicas <= dcs'[d].replicas
      <4>1. dcs[e].replicas \in Nat
        BY <1>1
      <4> QED BY <2>3, <3>1, <4>1
    <3>2. ASSUME NEW d \in 1..Len(dcs), d # e
          PROVE  dcs[d].cluster = dcs'[d].cluster /\ dcs[d].replicas <= dcs'[d].replicas
      <4>1. dcs[d].replicas \in Nat /\ dcs'[d] = dcs[d]
        BY <1>1, <2>1, <3>2
      <4> QED BY <4>1
    <3> QED BY <3>1, <3>2
  <2> QED BY <1>1, <2>1, <2>4 DEF Grows
<1> QED BY <1>2, <1>3, <1>4 DEF Next

(***************************************************************************)
(* When a schema grows, the first indices of the data centres an operator  *)
(* hosts do not drop, and do not move when no data centre was scaled out.  *)
(***************************************************************************)
LEMMA OffsetsGrow ==
  ASSUME NEW s \in Schema, NEW t \in Schema, Grows(s, t), NEW c
  PROVE  /\ Len(FilterDC(Seen(s, c))) <= Len(FilterDC(Seen(t, c)))
         /\ \A d \in 1..Len(FilterDC(Seen(s, c))) :
              /\ Offset(FilterDC(Seen(s, c)), d) <= Offset(FilterDC(Seen(t, c)), d)
              /\ FilterDC(Seen(s, c))[d].replicas <= FilterDC(Seen(t, c))[d].replicas
         /\ (\A d \in 1..Len(s) : s[d].replicas = t[d].replicas) =>
              \A d \in 1..Len(FilterDC(Seen(s, c))) :
                Offset(FilterDC(Seen(s, c)), d) = Offset(FilterDC(Seen(t, c)), d)
<1> DEFINE v == Seen(s, c)
           w == Seen(t, c)
           D == FilterDC(v)
           E == FilterDC(w)
           n == Len(D)
           f == Sizes(D)
           g == Sizes(E)
<1>1. /\ v \in Seq(Viewed) /\ w \in Seq(Viewed) /\ Len(v) = Len(s) /\ Len(v) <= Len(w)
      /\ DOMAIN v = 1..Len(v) /\ DOMAIN w = 1..Len(w)
      /\ Len(v) \in Nat /\ Len(w) \in Nat
      /\ \A d \in 1..Len(v) : /\ v[d].deploy <=> w[d].deploy
                              /\ v[d].replicas = s[d].replicas /\ w[d].replicas = t[d].replicas
                              /\ s[d].replicas <= t[d].replicas
  <2>1. /\ v \in Seq(Viewed) /\ Len(v) = Len(s) /\ Len(s) \in Nat
        /\ \A d \in 1..Len(s) : /\ v[d].deploy <=> s[d].cluster = c
                                /\ v[d].replicas = s[d].replicas
    BY ViewFacts
  <2>2. /\ w \in Seq(Viewed) /\ Len(w) = Len(t) /\ Len(t) \in Nat
        /\ \A d \in 1..Len(t) : /\ w[d].deploy <=> t[d].cluster = c
                                /\ w[d].replicas = t[d].replicas
    BY ViewFacts
  <2> HIDE DEF v, w
  <2>3. DOMAIN v = 1..Len(v) /\ DOMAIN w = 1..Len(w)
    BY <2>1, <2>2
  <2>4. Len(s) <= Len(t) /\ \A d \in 1..Len(s) :
          d \in 1..Len(t) /\ s[d].cluster = t[d].cluster /\ s[d].replicas <= t[d].replicas
    BY <2>1, <2>2 DEF Grows
  <2> QED BY <2>1, <2>2, <2>3, <2>4
<1>2. Hosted(D) /\ Hosted(E)
  BY <1>1, FilterFacts
<1>3. /\ Len(D) <= Len(E)
      /\ \A i \in 1..Len(D) : \E p \in 1..Len(v) : D[i] = v[p] /\ E[i] = w[p]
  <2> HIDE DEF v, w
  <2> DEFINE kv == {d \in DOMAIN v : v[d].deploy}
             kw == {d \in DOMAIN w : w[d].deploy}
  <2>1. \A p \in 1..Len(v) : p \in 1..Len(w) /\ (v[p].deploy <=> w[p].deploy)
    BY <1>1
  <2>2. \A p \in 1..Len(v) : p \in kv <=> p \in kw
    BY <1>1, <2>1
  <2>3. D = Kept(v, kv) /\ E = Kept(w, kw)
    BY DEF FilterDC
  <2> HIDE DEF kv, kw, D, E
  <2>4. SamePlaces(v, w, Kept(v, kv), Kept(w, kw))
    <3>1. v \in Seq(Viewed) /\ w \in Seq(Viewed) /\ Len(v) <= Len(w)
      BY <1>1
    <3> QED BY <2>2, <3>1, KeptPrefix
  <2> QED BY <2>3, <2>4 DEF SamePlaces
<1> HIDE DEF v, w, D, E
<1>4. /\ n \in Nat /\ DOMAIN D = 1..n /\ DOMAIN E = 1..Len(E) /\ Len(E) \in Nat
      /\ \A d \in 1..n : D[d].replicas \in Nat
      /\ \A d \in 1..Len(E) : E[d].replicas \in Nat
  <2>1. /\ Len(D) \in Nat /\ DOMAIN D = 1..Len(D)
        /\ Len(E) \in Nat /\ DOMAIN E = 1..Len(E)
    BY <1>2 DEF Hosted
  <2>2. /\ \A d \in 1..Len(D) : D[d].replicas \in Nat
        /\ \A d \in 1..Len(E) : E[d].replicas \in Nat
    BY <1>2, OffsetFacts
  <2> QED BY <2>1, <2>2
<1>5. \A d \in 1..n : /\ d \in 1..Len(E) /\ f[d] = D[d].replicas /\ g[d] = E[d].replicas
                      /\ d - 1 \in 0..n
  BY <1>3, <1>4 DEF Sizes
<1> HIDE DEF f, g, n
<1>6. NatsUpTo(f, n) /\ NatsUpTo(g, n)
  BY <1>4, <1>5 DEF NatsUpTo
<1>7. \A d \in 1..n : f[d] <= g[d]
  <2>1. \A p \in 1..Len(v) : v[p].replicas <= w[p].replicas
    BY <1>1
  <2>2. \A d \in 1..n : \E p \in 1..Len(v) : D[d] = v[p] /\ E[d] = w[p]
    BY <1>3 DEF n
  <2>3. \A d \in 1..n : D[d].replicas <= E[d].replicas
    BY <2>1, <2>2
  <2> QED BY <1>5, <2>3
<1>8. \A k \in 0..n : UpTo(f, k) <= UpTo(g, k)
  BY <1>4, <1>6, <1>7, UpToCompare
<1>9. \A d \in 1..n : Offset(D, d) = UpTo(f, d - 1) /\ Offset(E, d) = UpTo(g, d - 1)
  BY DEF Offset, f, g
<1>10. \A d \in 1..n : Offset(D, d) <= Offset(E, d)
  BY <1>5, <1>8, <1>9
<1>11. ASSUME \A d \in 1..Len(s) : s[d].replicas = t[d].replicas
       PROVE  \A d \in 1..n : Offset(D, d) = Offset(E, d)
  <2>1. \A d \in 1..n : g[d] = f[d] /\ g[d] \in Nat
    BY <1>1, <1>3, <1>4, <1>5, <1>11 DEF n
  <2>2. \A d \in 1..n : g[d] <= f[d]
    BY <2>1
  <2>3. \A k \in 0..n : UpTo(g, k) <= UpTo(f, k)
    BY <1>4, <1>6, <2>2, UpToCompare
  <2>4. \A k \in 0..n : UpTo(f, k) \in Nat /\ UpTo(g, k) \in Nat
    BY <1>4, <1>6, UpToStep
  <2> QED BY <1>5, <1>8, <1>9, <2>3, <2>4
<1>12. \A d \in 1..n : D[d].replicas <= E[d].replicas
  BY <1>5, <1>7
<1> QED BY <1>3, <1>10, <1>11, <1>12 DEF v, w, D, E, n

(***************************************************************************)
(* No edit lowers the stateful set of a node, and only scaling out moves   *)
(* one: the data centres of an operator keep their places in its list, and *)
(* the replicas before each of them only grow.                             *)
(***************************************************************************)
THEOREM IndicesOnlyGrow == Spec => IndicesNeverDrop
<1> DEFINE Stays(u, w) ==
      \A x \in ToSet(RolloutPlan(u)), y \in ToSet(RolloutPlan(w)) :
        x.pvc = y.pvc =>
          /\ x.ss <= y.ss
          /\ (\A d \in DOMAIN dcs : dcs'[d].replicas = dcs[d].replicas) => x.ss = y.ss
<1>1. ASSUME SchemaInv, SchemaInv', Next, NEW c \in Clusters
      PROVE  Stays(View(c), View(c)')
  <2> DEFINE D == FilterDC(Seen(dcs, c))
             E == FilterDC(Seen(dcs', c))
  <2>1. /\ dcs \in Schema /\ dcs' \in Schema /\ Grows(dcs, dcs')
        /\ View(c) = Seen(dcs, c) /\ View(c)' = Seen(dcs', c)
    BY <1>1, EditGrows DEF View, Seen, SchemaInv, Schema
  <2>2. /\ Seen(dcs, c) \in Seq(Viewed) /\ Seen(dcs', c) \in Seq(Viewed)
        /\ DOMAIN dcs = 1..Len(dcs)
    BY <2>1, ViewFacts
  <2>3. ASSUME NEW x \in ToSet(RolloutPlan(Seen(dcs, c))),
               NEW y \in ToSet(RolloutPlan(Seen(dcs', c))), x.pvc = y.pvc
        PROVE  /\ x.ss <= y.ss
               /\ (\A d \in DOMAIN dcs : dcs'[d].replicas = dcs[d].replicas) => x.ss = y.ss
    <3>d. PICK d \in 1..Len(D) : \E r \in 0..(D[d].replicas - 1) : x = NodeOf(D, d, r)
      BY <2>2, PlannedFacts
    <3>1. PICK r \in 0..(D[d].replicas - 1) : x = NodeOf(D, d, r)
      BY <3>d
    <3>e. PICK e \in 1..Len(E) : \E q \in 0..(E[e].replicas - 1) : y = NodeOf(E, e, q)
      BY <2>2, PlannedFacts
    <3>2. PICK q \in 0..(E[e].replicas - 1) : y = NodeOf(E, e, q)
      BY <3>e
    <3>3. e = d /\ q = r /\ x.ss = Offset(D, d) + r /\ y.ss = Offset(E, d) + r
      <4> HIDE DEF D, E
      <4>1. /\ x.pvc = <<d, r>> /\ y.pvc = <<e, q>>
            /\ x.ss = Offset(D, d) + r /\ y.ss = Offset(E, e) + q
        BY <3>1, <3>2 DEF NodeOf
      <4>2. e = d /\ q = r
        <5>1. <<d, r>> = <<e, q>>
          BY <2>3, <4>1
        <5> QED BY <5>1
      <4> QED BY <4>1, <4>2
    <3>4. /\ Offset(D, d) <= Offset(E, d)
          /\ (\A i \in 1..Len(dcs) : dcs[i].replicas = dcs'[i].replicas) =>
               Offset(D, d) = Offset(E, d)
      BY <2>1, OffsetsGrow
    <3>5. Hosted(D) /\ Hosted(E)
      BY <2>2, FilterFacts
    <3>6. Offset(D, d) \in Nat /\ Offset(E, d) \in Nat /\ r \in Nat
      <4> HIDE DEF D, E
      <4> QED BY <3>3, <3>5, OffsetFacts
    <3> HIDE DEF D, E
    <3>7. x.ss <= y.ss
      BY <3>3, <3>4, <3>6
    <3>8. ASSUME \A i \in DOMAIN dcs : dcs'[i].replicas = dcs[i].replicas
          PROVE  x.ss = y.ss
      <4>1. \A i \in 1..Len(dcs) : dcs[i].replicas = dcs'[i].replicas
        BY <2>2, <3>8
      <4>2. Offset(D, d) = Offset(E, d)
        BY <3>4, <4>1
      <4> QED BY <3>3, <4>2
    <3> QED BY <3>7, <3>8
  <2> QED BY <2>1, <2>3
<1>2. SchemaInv /\ SchemaInv' /\ Next => \A c \in Clusters : Stays(View(c), View(c)')
  <2> HIDE DEF Stays
  <2> QED BY <1>1
<1>3. SchemaInv /\ SchemaInv' /\ [Next]_dcs => [\A c \in Clusters : Stays(View(c), View(c)')]_dcs
  <2> HIDE DEF Stays
  <2> QED BY <1>2
<1> QED BY <1>3, SchemaCorrect, PTL DEF Spec, IndicesNeverDrop
-----------------------------------------------------------------------------
\* The smaller of two numbers.
LEMMA MinFacts ==
  ASSUME NEW a \in Nat, NEW b \in Nat
  PROVE  /\ Min({a, b}) \in Nat /\ Min({a, b}) <= a
         /\ a > 0 /\ b > 0 => Min({a, b}) > 0
<1>1. \E x \in {a, b} : \A y \in {a, b} : x <= y
  BY a <= b \/ b <= a
<1>2. Min({a, b}) \in {a, b} /\ \A y \in {a, b} : Min({a, b}) <= y
  BY <1>1 DEF Min
<1> QED BY <1>2

(***************************************************************************)
(* The seeds an operator computes are hosts of active replicas, with the   *)
(* exception of explicit addresses, and there is one as soon as a data     *)
(* centre of its own has an active replica.                                *)
(***************************************************************************)
Seeding(v, seeds) ==
  /\ \A h \in ToSet(seeds) \ {Address} :
       \E d \in 1..Len(v) : \E r \in 0..(v[d].replicas - 1) :
         Active(v[d], r) /\ h = CalcReplicaHostName(v, d, r)
  /\ (\E d \in 1..Len(v) : v[d].deploy /\ Len(GetActiveReplicas(v[d])) > 0) => seeds # <<>>

\* SeedsStep computes them so.
LEMMA SeedsFacts ==
  ASSUME NEW v \in Seq(Viewed)
  PROVE  Seeding(v, SeedsStep(v))
<1> DEFINE A(d) == GetActiveReplicas(v[d])
           m(d) == Min({Len(A(d)), v[d].seeds})
           computed(d) == [i \in 1..m(d) |-> CalcReplicaHostName(v, d, A(d)[i])]
           of(d) == IF v[d].seedList = NoSeedList THEN computed(d)
                    ELSE IF v[d].deploy THEN v[d].seedList ELSE <<>>
           seqs == [d \in DOMAIN v |-> of(d)]
           seeds == SeedsStep(v)
           n == Len(v)
           Host == {CalcReplicaHostName(v, d, r) : d \in 1..n, r \in Nat} \cup {Address}
<1>1. seeds = FlattenSeq(seqs)
  BY DEF SeedsStep
<1>2. n \in Nat /\ DOMAIN v = 1..n /\ \A d \in 1..n : v[d] \in Viewed
  OBVIOUS
<1> HIDE DEF seeds, n
<1>3. ASSUME NEW d \in 1..n
      PROVE  /\ Lists(A(d), v[d])
             /\ m(d) \in Nat /\ m(d) <= Len(A(d))
             /\ Len(A(d)) > 0 => m(d) > 0
  <2>1. v[d].replicas \in Nat /\ v[d].seeds \in Nat /\ v[d].seeds > 0
    BY <1>2, SchemaAssumption DEF Viewed
  <2>2. Lists(A(d), v[d])
    BY <2>1, ActiveFacts
  <2> HIDE DEF A
  <2>3. Len(A(d)) \in Nat
    BY <2>2 DEF Lists
  <2> QED BY <2>1, <2>2, <2>3, MinFacts
<1> HIDE DEF A, m
<1>4. ASSUME NEW d \in 1..n, NEW i \in 1..m(d)
      PROVE  /\ A(d)[i] \in 0..(v[d].replicas - 1) /\ Active(v[d], A(d)[i])
             /\ CalcReplicaHostName(v, d, A(d)[i]) \in Host
  <2>1. i \in 1..Len(A(d)) /\ v[d].replicas \in Nat
    <3>1. Len(A(d)) \in Nat /\ m(d) \in Nat /\ m(d) <= Len(A(d))
      BY <1>3 DEF Lists
    <3>2. v[d].replicas \in Nat
      BY <1>2, SchemaAssumption DEF Viewed
    <3> QED BY <3>1, <3>2
  <2>2. A(d)[i] \in 0..(v[d].replicas - 1) /\ Active(v[d], A(d)[i])
    BY <1>3, <2>1 DEF Lists
  <2>3. A(d)[i] \in Nat
    BY <2>1, <2>2
  <2> QED BY <2>2, <2>3
<1>5. ASSUME NEW d \in 1..n
      PROVE  /\ of(d) \in Seq(Host)
             /\ \A i \in 1..Len(of(d)) : of(d)[i] # Address =>
                  \E r \in 0..(v[d].replicas - 1) :
                    Active(v[d], r) /\ of(d)[i] = CalcReplicaHostName(v, d, r)
             /\ v[d].deploy /\ Len(A(d)) > 0 => Len(of(d)) > 0
  <2>1. CASE v[d].seedList = NoSeedList
    <3> DEFINE k == m(d)
               q == computed(d)
    <3>1. k \in Nat /\ of(d) = q
      BY <1>3, <2>1
    <3>2. q \in [1..k -> Host] /\ \A i \in 1..k : q[i] = CalcReplicaHostName(v, d, A(d)[i])
      <4> HIDE DEF Host
      <4> QED BY <1>4
    <3> HIDE DEF q, k, of
    <3>3. q \in Seq(Host) /\ Len(q) = k
      BY <3>1, <3>2
    <3>4. \A i \in 1..k : \E r \in 0..(v[d].replicas - 1) :
                    Active(v[d], r) /\ q[i] = CalcReplicaHostName(v, d, r)
      BY <1>4, <3>2 DEF k
    <3>5. Len(A(d)) > 0 => k > 0
      BY <1>3 DEF k
    <3> QED BY <3>1, <3>3, <3>4, <3>5
  <2>2. CASE v[d].seedList # NoSeedList
    <3>1. v[d].seedList = <<Address>>
      BY <1>2, <2>2 DEF Viewed, SeedLists
    <3>2. of(d) = IF v[d].deploy THEN <<Address>> ELSE <<>>
      BY <2>2, <3>1
    <3>3. Address \in Host
      OBVIOUS
    <3> HIDE DEF of, Host
    <3>4. CASE v[d].deploy
      <4>1. of(d) = <<Address>>
        BY <3>2, <3>4
      <4>2. /\ of(d) \in Seq(Host) /\ Len(of(d)) = 1
            /\ \A i \in 1..Len(of(d)) : of(d)[i] = Address
        BY <3>3, <4>1
      <4> QED BY <4>2
    <3>5. CASE ~v[d].deploy
      <4>1. of(d) = <<>>
        BY <3>2, <3>5
      <4>2. of(d) \in Seq(Host) /\ Len(of(d)) = 0
        BY <4>1
      <4> QED BY <3>5, <4>2
    <3> QED BY <3>4, <3>5
  <2> HIDE DEF of, Host
  <2> QED BY <2>1, <2>2
<1> HIDE DEF of, Host
<1>6. seqs \in Seq(Seq(Host)) /\ Len(seqs) = n /\ \A d \in 1..n : seqs[d] = of(d)
  <2>1. seqs \in [1..n -> Seq(Host)] /\ \A d \in 1..n : seqs[d] = of(d)
    BY <1>2, <1>5
  <2> HIDE DEF seqs
  <2> QED BY <1>2, <2>1
<1> HIDE DEF seqs
<1>7. seeds \in Seq(Host) /\ HoldsOf(seqs, seeds, n)
  BY <1>1, <1>6, FlattenFacts
<1>8. PICK from, at : Comes(seqs, seeds, from, at, n)
  BY <1>7 DEF HoldsOf
<1>9. ASSUME NEW h \in ToSet(seeds), h # Address
      PROVE  \E d \in 1..n : \E r \in 0..(v[d].replicas - 1) :
               Active(v[d], r) /\ h = CalcReplicaHostName(v, d, r)
  <2>1. PICK k \in 1..Len(seeds) : h = seeds[k]
    BY <1>7 DEF ToSet
  <2>2. from[k] \in 1..n /\ at[k] \in 1..Len(of(from[k])) /\ h = of(from[k])[at[k]]
    BY <1>6, <1>8, <2>1 DEF Comes
  <2> QED BY <1>5, <1>9, <2>2
<1>10. ASSUME NEW d \in 1..n, v[d].deploy, Len(A(d)) > 0 PROVE seeds # <<>>
  <2>1. Len(of(d)) > 0 /\ of(d) \in Seq(Host)
    BY <1>5, <1>10
  <2>2. 1 \in 1..Len(seqs[d])
    BY <1>6, <2>1
  <2>3. \E k \in 1..Len(seeds) : from[k] = d /\ at[k] = 1
    BY <1>8, <2>2 DEF Comes
  <2> QED BY <2>3
<1>11. Seeding(v, seeds)
  BY <1>9, <1>10 DEF Seeding, n, A
<1> QED BY <1>11 DEF seeds

\* A data centre that is alone in the list of its operator is numbered from zero.
LEMMA AloneFacts ==
  ASSUME NEW v \in Seq(Viewed), NEW d \in 1..Len(v), v[d].deploy,
         \A e \in 1..Len(v) : v[e].deploy => e = d
  PROVE  \E i \in 1..Len(FilterDC(v)) : FilterDC(v)[i] = v[d] /\ Offset(FilterDC(v), i) = 0
<1> DEFINE D == FilterDC(v)
<1>1. /\ Hosted(D) /\ KeptUpTo(v, Deployed(v), D, Len(v))
      /\ \E i \in 1..Len(D) : D[i] = v[d]
  BY FilterFacts
<1> HIDE DEF D
<1>2. PICK pos : Positions(v, Deployed(v), D, pos, Len(v))
  BY <1>1 DEF KeptUpTo
<1>3. \A i \in 1..Len(D) : pos[i] = d
  BY <1>2 DEF Positions, Deployed
<1>4. PICK i \in 1..Len(D) : D[i] = v[d]
  BY <1>1
<1>5. i = 1
  <2>1. Len(D) \in Nat /\ 1 \in 1..Len(D)
    BY <1>1, <1>4 DEF Hosted
  <2>2. ~(1 < i)
    <3>1. 1 < i => pos[1] < pos[i]
      BY <1>2, <1>4, <2>1 DEF Positions
    <3>2. pos[1] = d /\ pos[i] = d
      BY <1>3, <1>4, <2>1
    <3> QED BY <3>1, <3>2
  <2> QED BY <1>4, <2>1, <2>2
<1>6. Offset(D, i) = 0
  BY <1>1, <1>4, <1>5, OffsetFacts
<1> QED BY <1>4, <1>6 DEF D

(***************************************************************************)
(* The number a seed's host name has: counted over the whole schema when   *)
(* every data centre is the operator's own, and within the data centre     *)
(* when one of them is not, or when it is the only one.                    *)
(***************************************************************************)
LEMMA SeedNumber ==
  ASSUME NEW v \in Seq(Viewed), NEW d \in 1..Len(v), NEW r \in Nat
  PROVE  /\ (\A e \in 1..Len(v) : v[e].deploy) =>
               FilterDC(v) = v /\ CalcReplicaIndex(v, d, r) = Offset(v, d) + r
         /\ (\E e \in 1..Len(v) : ~v[e].deploy) => CalcReplicaIndex(v, d, r) = r
         /\ Len(v) = 1 => CalcReplicaIndex(v, d, r) = r
<1> DEFINE f == [e \in DOMAIN v |-> v[e].replicas]
<1>1. DOMAIN v = 1..Len(v) /\ Len(v) \in Nat
  OBVIOUS
<1>2. ASSUME \A e \in 1..Len(v) : v[e].deploy
      PROVE  FilterDC(v) = v /\ CalcReplicaIndex(v, d, r) = Offset(v, d) + r
  <2> DEFINE keep == {e \in DOMAIN v : v[e].deploy}
  <2>1. \A p \in 1..Len(v) : p \in keep
    BY <1>1, <1>2
  <2>2. Kept(v, keep) = v
    <3> HIDE DEF keep
    <3> QED BY <2>1, KeptAll
  <2>3. FilterDC(v) = v
    BY <2>2 DEF FilterDC
  <2>4. Hosted(v)
    BY <1>2 DEF Hosted
  <2> QED BY <2>3, <2>4, OffsetFacts
<1>3. SumFunctionOnSet(f, {}) + r = r
  <2>1. SumFunctionOnSet(f, {}) = 0
    BY SumEmpty
  <2> QED BY <2>1
<1>4. ASSUME \E e \in 1..Len(v) : ~v[e].deploy PROVE CalcReplicaIndex(v, d, r) = r
  <2>1. \E e \in DOMAIN v : ~v[e].deploy
    BY <1>1, <1>4
  <2>2. CalcReplicaIndex(v, d, r) = SumFunctionOnSet(f, {}) + r
    BY <2>1 DEF CalcReplicaIndex
  <2> QED BY <1>3, <2>2
<1>5. ASSUME Len(v) = 1 PROVE CalcReplicaIndex(v, d, r) = r
  <2>1. 1..(d - 1) = {}
    BY <1>5
  <2>2. CalcReplicaIndex(v, d, r) = SumFunctionOnSet(f, {}) + r
    BY <2>1 DEF CalcReplicaIndex
  <2> QED BY <1>3, <2>2
<1> QED BY <1>2, <1>4, <1>5

\* Where every data centre names the same cluster, or each its own.
LEMMA LayoutFacts ==
  ASSUME NEW s \in Schema
  PROVE  Cardinality({s[d].cluster : d \in DOMAIN s}) = 1 =>
           \A d, e \in 1..Len(s) : s[d].cluster = s[e].cluster
<1> DEFINE n == Len(s)
           T == {s[d].cluster : d \in 1..n}
           f == [d \in 1..n |-> s[d].cluster]
<1>1. DOMAIN s = 1..n /\ n \in Nat
  BY DEF Schema
<1>2. IsFiniteSet(1..n)
  BY <1>1, FS_Interval
<1>3. f \in Surjection(1..n, T)
  BY DEF Surjection
<1>4. IsFiniteSet(T)
  <2> HIDE DEF f, T, n
  <2> QED BY <1>2, <1>3, FS_Surjection
<1>5. ASSUME Cardinality(T) = 1 PROVE \A d, e \in 1..n : s[d].cluster = s[e].cluster
  <2>1. \E x : T = {x}
    BY <1>4, <1>5, FS_Singleton
  <2>2. \A d \in 1..n : s[d].cluster \in T
    OBVIOUS
  <2> HIDE DEF T
  <2> QED BY <2>1, <2>2
<1> QED BY <1>1, <1>5

(***************************************************************************)
(* Seeds of an operator are nodes that the operator in charge of them      *)
(* rolls out: in a single cluster both count over the same data centres;   *)
(* with one data centre per cluster both count from zero.                  *)
(***************************************************************************)
THEOREM SeedsRolledOut == Spec => []SeedsAreRolledOut
<1>1. SchemaInv => SeedsAreRolledOut
  <2> SUFFICES ASSUME SchemaInv, SupportedLayout, NEW c \in Clusters, Valid(c)
               PROVE  /\ SeedsStep(View(c)) # <<>>
                      /\ \A host \in ToSet(SeedsStep(View(c))) \ {Address} :
                           host.ss \in PlannedSS(Home(c, host))
    BY DEF SeedsAreRolledOut
  <2> DEFINE v == View(c)
  <2>1. /\ v \in Seq(Viewed) /\ InitialValidations(v) /\ Len(v) = Len(dcs)
        /\ Len(v) \in Nat /\ dcs \in Schema
        /\ \A d \in 1..Len(v) : /\ v[d].deploy <=> dcs[d].cluster = c
                                /\ v[d].domain = dcs[d].cluster
                                /\ v[d].replicas = dcs[d].replicas
                                /\ v[d].removeNodes = dcs[d].removeNodes
                                /\ v[d].replicas \in Nat /\ dcs[d].cluster \in Clusters
    <3>1. v = Seen(dcs, c) /\ dcs \in Schema /\ InitialValidations(v)
      BY ViewIsSeen DEF Valid
    <3> HIDE DEF v
    <3>2. \A x \in DataCentre : x.replicas \in Nat /\ x.cluster \in Clusters
      BY SchemaAssumption DEF DataCentre
    <3> QED BY <3>1, <3>2, ViewFacts
  <2>2. Seeding(v, SeedsStep(v))
    BY <2>1, SeedsFacts
  <2> HIDE DEF v
  <2>3. SeedsStep(v) # <<>>
    BY <2>1, <2>2, ValidFacts DEF Seeding
  <2>4. ASSUME NEW x, NEW w \in Seq(Viewed), View(x) = w, NEW i \in 1..Len(FilterDC(w)),
               NEW r \in 0..(FilterDC(w)[i].replicas - 1), Active(FilterDC(w)[i], r)
        PROVE  Offset(FilterDC(w), i) + r \in PlannedSS(x)
    <3>1. NodeOf(FilterDC(w), i, r) \in ToSet(RolloutPlan(w))
      BY <2>4, PlannedFacts
    <3>2. NodeOf(FilterDC(w), i, r).ss = Offset(FilterDC(w), i) + r
      BY DEF NodeOf
    <3>3. PlannedSS(x) = {y.ss : y \in ToSet(RolloutPlan(w))}
      BY <2>4 DEF PlannedSS
    <3> QED BY <3>1, <3>2, <3>3
  <2>5. ASSUME NEW host \in ToSet(SeedsStep(v)), host # Address
        PROVE  host.ss \in PlannedSS(Home(c, host))
    <3>1. PICK d \in 1..Len(v) : \E r \in 0..(v[d].replicas - 1) :
            Active(v[d], r) /\ host = CalcReplicaHostName(v, d, r)
      BY <2>2, <2>5 DEF Seeding
    <3>2. PICK r \in 0..(v[d].replicas - 1) :
            Active(v[d], r) /\ host = CalcReplicaHostName(v, d, r)
      BY <3>1
    <3>3. r \in Nat
      BY <2>1
    <3>4. /\ host.ss = CalcReplicaIndex(v, d, r)
          /\ host.domain = IF v[d].deploy THEN DefaultClusterDomain ELSE v[d].domain
      BY <3>2 DEF CalcReplicaHostName, GetClusterDomain
    <3>5. v[d].deploy => Home(c, host) = c
      BY <3>4 DEF Home
    <3>6. ~v[d].deploy => Home(c, host) = dcs[d].cluster
      BY <2>1, <3>4, SchemaAssumption DEF Home
    <3>7. CASE \A e, g \in 1..Len(dcs) : dcs[e].cluster = dcs[g].cluster
      <4>1. \A e \in 1..Len(v) : v[e].deploy
        <5>1. \E e \in 1..Len(v) : v[e].deploy
          BY <2>1, ValidFacts
        <5> QED BY <2>1, <3>7, <5>1
      <4>2. FilterDC(v) = v /\ host.ss = Offset(v, d) + r
        BY <2>1, <3>3, <3>4, <4>1, SeedNumber
      <4>3. Offset(FilterDC(v), d) + r \in PlannedSS(c)
        BY <2>1, <2>4, <3>2, <4>2 DEF v
      <4> QED BY <3>5, <4>1, <4>2, <4>3
    <3>8. CASE \A e, g \in 1..Len(dcs) : dcs[e].cluster = dcs[g].cluster => e = g
      <4> DEFINE x == dcs[d].cluster
                 w == View(x)
      <4>1. Home(c, host) = x
        BY <2>1, <3>5, <3>6
      <4>2. /\ w \in Seq(Viewed) /\ Len(w) = Len(v)
            /\ \A e \in 1..Len(w) : w[e].deploy <=> dcs[e].cluster = x
            /\ w[d].replicas = v[d].replicas /\ w[d].removeNodes = v[d].removeNodes
        BY <2>1, ViewIsSeen, ViewFacts
      <4> HIDE DEF w
      <4>3. w[d].deploy /\ \A e \in 1..Len(w) : w[e].deploy => e = d
        BY <2>1, <3>8, <4>2
      <4>4. PICK i \in 1..Len(FilterDC(w)) :
              FilterDC(w)[i] = w[d] /\ Offset(FilterDC(w), i) = 0
        BY <4>2, <4>3, AloneFacts
      <4>5. Active(w[d], r)
        BY <3>2, <4>2 DEF Active
      <4>6. Offset(FilterDC(w), i) + r \in PlannedSS(x)
        BY <2>4, <4>2, <4>4, <4>5 DEF w
      <4>7. host.ss = r
        <5>1. CASE Len(v) = 1
          BY <2>1, <3>3, <3>4, <5>1, SeedNumber
        <5>2. CASE Len(v) # 1
          <6>1. \E e \in 1..Len(v) : e # d
            <7>1. 1 \in 1..Len(v) /\ 2 \in 1..Len(v)
              BY <2>1, <5>2
            <7> QED BY <7>1
          <6>2. \E e \in 1..Len(v) : ~v[e].deploy
            BY <2>1, <3>8, <6>1
          <6> QED BY <2>1, <3>3, <3>4, <6>2, SeedNumber
        <5> QED BY <5>1, <5>2
      <4>8. host.ss \in PlannedSS(x)
        BY <3>3, <4>4, <4>6, <4>7
      <4> QED BY <4>1, <4>8
    <3>9. DOMAIN dcs = 1..Len(dcs)
      BY <2>1, ViewFacts
    <3> QED BY <2>1, <3>7, <3>8, <3>9, LayoutFacts DEF SupportedLayout
  <2> QED BY <2>3, <2>5 DEF v
<1> QED BY <1>1, SchemaCorrect, PTL
-----------------------------------------------------------------------------
(***************************************************************************)
(* What CassandraDeploy assumes of names, for the names Topology gives.    *)
(* PlanFits is PlanAssumption with the functions of this module for Name,  *)
(* Plan and Removed, as CassandraDeployMC computes them.                   *)
(***************************************************************************)
NameOf(v, p) == CalcReplicaIndex(FilterDC(v), p[1], p[2])
PlanOf(v) == [i \in DOMAIN RolloutPlan(v) |-> RolloutPlan(v)[i].pvc]
RemovedOf(v) ==
  UNION {{<<d, k.index>> : k \in FilterDC(v)[d].removeNodes} : d \in DOMAIN FilterDC(v)}
KnownTo(v) == ToSet(PlanOf(v)) \cup RemovedOf(v)

PlanFits(v) ==
  /\ Len(PlanOf(v)) > 0
  /\ \A i, j \in 1..Len(PlanOf(v)) :
       i < j => NameOf(v, PlanOf(v)[i]) < NameOf(v, PlanOf(v)[j])
  /\ \A p \in RemovedOf(v), i \in 1..Len(PlanOf(v)) : NameOf(v, p) # NameOf(v, PlanOf(v)[i])
  /\ \A p \in KnownTo(v) : \A n \in Nat :
       n < NameOf(v, p) => \E q \in KnownTo(v) : NameOf(v, q) = n

(***************************************************************************)
(* Active and removed nodes of an operator are all replicas of its data    *)
(* centres, and a node of the plan has the name CalcReplicaIndex gives it. *)
(***************************************************************************)
LEMMA KnownFacts ==
  ASSUME NEW v \in Seq(Viewed), InRange(FilterDC(v))
  PROVE  /\ KnownTo(v) = UNION {{<<d, r>> : r \in 0..(FilterDC(v)[d].replicas - 1)} :
                                d \in 1..Len(FilterDC(v))}
         /\ DOMAIN PlanOf(v) = 1..Len(PlanOf(v))
         /\ Len(PlanOf(v)) = Len(RolloutPlan(v))
         /\ \A i \in 1..Len(PlanOf(v)) : \E d \in 1..Len(FilterDC(v)) :
              \E r \in 0..(FilterDC(v)[d].replicas - 1) :
                /\ Active(FilterDC(v)[d], r)
                /\ PlanOf(v)[i] = <<d, r>>
                /\ RolloutPlan(v)[i] = NodeOf(FilterDC(v), d, r)
<1> DEFINE D == FilterDC(v)
           full == RolloutPlan(v)
           plan == PlanOf(v)
<1>1. Rolls(full, D) /\ Hosted(D)
  BY PlanFacts, FilterFacts
<1>2. plan = [i \in DOMAIN full |-> full[i].pvc]
  BY DEF PlanOf
<1>3. RemovedOf(v) = UNION {{<<d, k.index>> : k \in D[d].removeNodes} : d \in DOMAIN D}
  BY DEF RemovedOf
<1>4. KnownTo(v) = ToSet(plan) \cup RemovedOf(v) /\ InRange(D)
  BY DEF KnownTo
<1> HIDE DEF D, full, plan
<1>5. DOMAIN D = 1..Len(D) /\ DOMAIN full = 1..Len(full) /\ Len(full) \in Nat
  BY <1>1 DEF Hosted, Rolls
<1>6. DOMAIN plan = 1..Len(plan) /\ Len(plan) = Len(full)
  BY <1>2, <1>5
<1>7. ASSUME NEW i \in 1..Len(plan)
      PROVE  \E d \in 1..Len(D) : \E r \in 0..(D[d].replicas - 1) :
               Active(D[d], r) /\ plan[i] = <<d, r>> /\ full[i] = NodeOf(D, d, r)
  <2>d. PICK d \in 1..Len(D) : \E r \in 0..(D[d].replicas - 1) :
          Active(D[d], r) /\ full[i] = NodeOf(D, d, r)
    BY <1>1, <1>6 DEF Rolls
  <2>1. PICK r \in 0..(D[d].replicas - 1) : Active(D[d], r) /\ full[i] = NodeOf(D, d, r)
    BY <2>d
  <2>2. plan[i] = full[i].pvc
    BY <1>2, <1>5, <1>6
  <2>3. plan[i] = <<d, r>>
    BY <2>1, <2>2 DEF NodeOf
  <2> QED BY <2>1, <2>3
<1>8. ASSUME NEW p, p \in KnownTo(v)
      PROVE  \E d \in 1..Len(D) : \E r \in 0..(D[d].replicas - 1) : p = <<d, r>>
  <2>1. CASE p \in ToSet(plan)
    <3>1. \E i \in 1..Len(plan) : p = plan[i]
      BY <1>6, <2>1 DEF ToSet
    <3> QED BY <1>7, <3>1
  <2>2. CASE p \in RemovedOf(v)
    BY <1>3, <1>4, <1>5, <2>2 DEF InRange
  <2> QED BY <1>4, <1>8, <2>1, <2>2
<1>9. ASSUME NEW d \in 1..Len(D), NEW r \in 0..(D[d].replicas - 1)
      PROVE  <<d, r>> \in KnownTo(v)
  <2>1. CASE Active(D[d], r)
    <3>1. PICK i \in 1..Len(full) : full[i] = NodeOf(D, d, r)
      BY <1>1, <2>1 DEF Rolls
    <3>2. plan[i] = full[i].pvc /\ plan[i] \in ToSet(plan)
      BY <1>2, <1>5, <1>6 DEF ToSet
    <3>3. plan[i] = <<d, r>>
      BY <3>1, <3>2 DEF NodeOf
    <3> QED BY <1>4, <3>2, <3>3
  <2>2. CASE ~Active(D[d], r)
    <3>1. PICK k \in D[d].removeNodes : k.index = r
      BY <2>2 DEF Active
    <3> QED BY <1>3, <1>4, <1>5, <3>1
  <2> QED BY <2>1, <2>2
<1>10. KnownTo(v) = UNION {{<<d, r>> : r \in 0..(D[d].replicas - 1)} : d \in 1..Len(D)}
  BY <1>8, <1>9
<1> QED BY <1>6, <1>7, <1>10 DEF D, full, plan

(***************************************************************************)
(* CassandraDeploy's PlanAssumption holds of the names Topology gives the  *)
(* nodes of every schema that edits can reach, that passes validation and  *)
(* that lists no node for removal it does not have: its theorems apply to  *)
(* every deployment, not only to the specs that CassandraDeployMC lists.   *)
(***************************************************************************)
THEOREM PlansFit ==
  Spec => [](RemovalsInRange => \A c \in Clusters : Valid(c) => PlanFits(View(c)))
<1>1. SchemaInv => (RemovalsInRange => \A c \in Clusters : Valid(c) => PlanFits(View(c)))
  <2> SUFFICES ASSUME SchemaInv, RemovalsInRange, NEW c \in Clusters, Valid(c)
               PROVE  PlanFits(View(c))
    OBVIOUS
  <2> DEFINE v == View(c)
             D == FilterDC(v)
             plan == PlanOf(v)
             full == RolloutPlan(v)
  <2>1. v = Seen(dcs, c) /\ dcs \in Schema /\ v \in Seq(Viewed) /\ InitialValidations(v)
    BY ViewIsSeen, ViewFacts DEF Valid
  <2>2. InRange(D)
    BY <2>1, InRangeFacts DEF RemovalsInRange
  <2> HIDE DEF v
  <2>3. Rolls(full, D) /\ Hosted(D)
    BY <2>1, PlanFacts, FilterFacts
  <2>4. /\ 1 \in 1..Len(D) /\ Len(GetActiveReplicas(D[1])) > 0
    BY <2>1, ValidFacts
  <2>5. /\ KnownTo(v) = UNION {{<<d, r>> : r \in 0..(D[d].replicas - 1)} : d \in 1..Len(D)}
        /\ Len(plan) = Len(full) /\ DOMAIN plan = 1..Len(plan)
        /\ \A i \in 1..Len(plan) : \E d \in 1..Len(D) : \E r \in 0..(D[d].replicas - 1) :
             Active(D[d], r) /\ plan[i] = <<d, r>> /\ full[i] = NodeOf(D, d, r)
    BY <2>1, <2>2, KnownFacts
  <2>6. /\ \A p : NameOf(v, p) = CalcReplicaIndex(D, p[1], p[2])
        /\ RemovedOf(v) = UNION {{<<d, k.index>> : k \in D[d].removeNodes} : d \in DOMAIN D}
    BY DEF NameOf, RemovedOf
  <2> HIDE DEF D, plan, full
  <2>7. /\ \A d \in 1..Len(D) : Offset(D, d) \in Nat /\ D[d].replicas \in Nat
        /\ \A d \in 1..Len(D) : \A r : CalcReplicaIndex(D, d, r) = Offset(D, d) + r
    BY <2>3, OffsetFacts
  <2>8. DOMAIN D = 1..Len(D) /\ Len(D) \in Nat
    BY <2>3 DEF Hosted
  <2>9. \A d \in 1..Len(D) : \A r : NameOf(v, <<d, r>>) = Offset(D, d) + r
    BY <2>6, <2>7
  <2>10. \A i \in 1..Len(plan) : NameOf(v, plan[i]) = full[i].ss
    <3>1. ASSUME NEW i \in 1..Len(plan) PROVE NameOf(v, plan[i]) = full[i].ss
      <4>d. PICK d \in 1..Len(D) : \E r \in 0..(D[d].replicas - 1) :
              plan[i] = <<d, r>> /\ full[i] = NodeOf(D, d, r)
        BY <2>5
      <4>1. PICK r \in 0..(D[d].replicas - 1) : plan[i] = <<d, r>> /\ full[i] = NodeOf(D, d, r)
        BY <4>d
      <4>2. NameOf(v, plan[i]) = Offset(D, d) + r
        BY <2>9, <4>1
      <4> QED BY <4>1, <4>2 DEF NodeOf
    <3> QED BY <3>1
  <2>11. Len(plan) > 0
    <3>1. D[1].replicas \in Nat
      BY <2>4, <2>7
    <3>2. Lists(GetActiveReplicas(D[1]), D[1])
      BY <3>1, ActiveFacts
    <3>3. \E r \in 0..(D[1].replicas - 1) : Active(D[1], r)
      <4>1. 1 \in 1..Len(GetActiveReplicas(D[1]))
        BY <2>4, <3>2 DEF Lists
      <4> QED BY <3>2, <4>1 DEF Lists
    <3>4. \E k \in 1..Len(full) : TRUE
      BY <2>3, <2>4, <3>3 DEF Rolls
    <3>5. Len(full) \in Nat
      BY <2>3 DEF Rolls
    <3> QED BY <2>5, <3>4, <3>5
  <2>12. \A i, j \in 1..Len(plan) : i < j => NameOf(v, plan[i]) < NameOf(v, plan[j])
    <3>1. \A i, j \in 1..Len(full) : i < j => full[i].ss < full[j].ss
      BY <2>3 DEF Rolls
    <3>2. \A i \in 1..Len(plan) : i \in 1..Len(full)
      BY <2>5
    <3> QED BY <2>10, <3>1, <3>2
  <2>13. ASSUME NEW p \in RemovedOf(v), NEW i \in 1..Len(plan), NameOf(v, p) = NameOf(v, plan[i])
         PROVE  FALSE
    <3>d. PICK d \in 1..Len(D) : \E k \in D[d].removeNodes : p = <<d, k.index>>
      BY <2>6, <2>8
    <3>1. PICK k \in D[d].removeNodes : p = <<d, k.index>>
      BY <3>d
    <3>e. PICK e \in 1..Len(D) : \E r \in 0..(D[e].replicas - 1) :
            Active(D[e], r) /\ plan[i] = <<e, r>>
      BY <2>5
    <3>2. PICK r \in 0..(D[e].replicas - 1) : Active(D[e], r) /\ plan[i] = <<e, r>>
      BY <3>e
    <3>3. k.canonical /\ k.index \in 0..(D[d].replicas - 1)
      BY <2>2 DEF InRange
    <3>4. Offset(D, d) + k.index = Offset(D, e) + r
      BY <2>9, <2>13, <3>1, <3>2
    <3>5. d = e /\ k.index = r
      BY <2>3, <3>3, <3>4, IndexFacts
    <3> QED BY <3>2, <3>3, <3>5 DEF Active
  <2>14. ASSUME NEW p \in KnownTo(v), NEW n \in Nat, n < NameOf(v, p)
         PROVE  \E q \in KnownTo(v) : NameOf(v, q) = n
    <3>d. PICK d \in 1..Len(D) : \E r \in 0..(D[d].replicas - 1) : p = <<d, r>>
      BY <2>5
    <3>1. PICK r \in 0..(D[d].replicas - 1) : p = <<d, r>>
      BY <3>d
    <3>2. n \in 0..(Offset(D, d) + r)
      <4>1. Offset(D, d) \in Nat /\ D[d].replicas \in Nat /\ n < Offset(D, d) + r
        BY <2>7, <2>9, <2>14, <3>1
      <4> QED BY <4>1
    <3>e. PICK e \in 1..Len(D) : \E q \in 0..(D[e].replicas - 1) : n = Offset(D, e) + q
      BY <2>3, <3>2, IndexFacts
    <3>3. PICK q \in 0..(D[e].replicas - 1) : n = Offset(D, e) + q
      BY <3>e
    <3>4. <<e, q>> \in KnownTo(v)
      BY <2>5
    <3>5. NameOf(v, <<e, q>>) = n
      BY <2>9, <3>3
    <3> QED BY <3>4, <3>5
  <2> QED BY <2>11, <2>12, <2>13, <2>14 DEF PlanFits, plan, v
<1> QED BY <1>1, SchemaCorrect, PTL

(***************************************************************************)
(* An edit never makes an operator forget a node, active or removed, and   *)
(* never lowers the index of its stateful set, as long as removeNodes      *)
(* lists nodes that exist: the first two conditions of CassandraDeploy's   *)
(* EditAllowed, for the nodes a schema has. (The third, on when a schema   *)
(* with gaps may be written, is about the running stateful sets.)          *)
(***************************************************************************)
Carried(v, w) == \A p \in KnownTo(v) : p \in KnownTo(w) /\ NameOf(v, p) <= NameOf(w, p)

\* A step from one such schema to another carries the nodes of every operator over.
THEOREM NodesAreCarriedOver ==
  Spec => [][RemovalsInRange /\ RemovalsInRange' =>
               \A c \in Clusters : Carried(View(c), View(c)')]_dcs
<1> DEFINE AllCarried == RemovalsInRange /\ RemovalsInRange' =>
                           \A c \in Clusters : Carried(View(c), View(c)')
<1>1. ASSUME SchemaInv, SchemaInv', Next, RemovalsInRange, RemovalsInRange', NEW c \in Clusters
      PROVE  Carried(View(c), View(c)')
  <2> DEFINE v == Seen(dcs, c)
             w == Seen(dcs', c)
             D == FilterDC(v)
             E == FilterDC(w)
  <2>1. /\ dcs \in Schema /\ dcs' \in Schema /\ Grows(dcs, dcs')
        /\ View(c) = v /\ View(c)' = w
    BY <1>1, EditGrows DEF View, Seen, SchemaInv, Schema
  <2>2. v \in Seq(Viewed) /\ w \in Seq(Viewed)
    BY <2>1, ViewFacts
  <2>3. InRange(D) /\ InRange(E)
    <3>1. /\ \A d \in DOMAIN dcs : \A k \in dcs[d].removeNodes :
               k.canonical /\ k.index < dcs[d].replicas
          /\ \A d \in DOMAIN dcs' : \A k \in dcs'[d].removeNodes :
               k.canonical /\ k.index < dcs'[d].replicas
      BY <1>1 DEF RemovalsInRange
    <3> QED BY <2>1, <3>1, InRangeFacts
  <2>4. /\ Len(D) <= Len(E)
        /\ \A d \in 1..Len(D) : /\ D[d].replicas <= E[d].replicas
                               /\ Offset(D, d) <= Offset(E, d)
    BY <2>1, OffsetsGrow
  <2>5. Hosted(D) /\ Hosted(E)
    BY <2>2, FilterFacts
  <2>6. /\ KnownTo(v) = UNION {{<<d, r>> : r \in 0..(D[d].replicas - 1)} : d \in 1..Len(D)}
        /\ KnownTo(w) = UNION {{<<d, r>> : r \in 0..(E[d].replicas - 1)} : d \in 1..Len(E)}
    BY <2>2, <2>3, KnownFacts
  <2>p. \A p : /\ NameOf(v, p) = CalcReplicaIndex(D, p[1], p[2])
               /\ NameOf(w, p) = CalcReplicaIndex(E, p[1], p[2])
    BY DEF NameOf
  <2> HIDE DEF v, w, D, E
  <2>7. /\ Len(D) \in Nat /\ Len(E) \in Nat
        /\ \A d \in 1..Len(D) : /\ Offset(D, d) \in Nat /\ D[d].replicas \in Nat
                               /\ \A r : CalcReplicaIndex(D, d, r) = Offset(D, d) + r
        /\ \A d \in 1..Len(E) : /\ Offset(E, d) \in Nat /\ E[d].replicas \in Nat
                               /\ \A r : CalcReplicaIndex(E, d, r) = Offset(E, d) + r
    <3>1. Len(D) \in Nat /\ Len(E) \in Nat
      BY <2>5 DEF Hosted
    <3> QED BY <2>5, <3>1, OffsetFacts
  <2>8. ASSUME NEW d \in 1..Len(D), NEW r \in 0..(D[d].replicas - 1)
        PROVE  <<d, r>> \in KnownTo(w) /\ NameOf(v, <<d, r>>) <= NameOf(w, <<d, r>>)
    <3>1. d \in 1..Len(E)
      BY <2>4, <2>7
    <3>2. r \in 0..(E[d].replicas - 1)
      BY <2>4, <2>7, <3>1
    <3>3. NameOf(v, <<d, r>>) = Offset(D, d) + r /\ NameOf(w, <<d, r>>) = Offset(E, d) + r
      BY <2>p, <2>7, <3>1
    <3>4. Offset(D, d) + r <= Offset(E, d) + r
      BY <2>4, <2>7, <3>1
    <3>5. <<d, r>> \in KnownTo(w)
      BY <2>6, <3>1, <3>2
    <3> QED BY <3>3, <3>4, <3>5
  <2>9. Carried(v, w)
    BY <2>6, <2>8 DEF Carried
  <2> QED BY <2>1, <2>9
<1>2. SchemaInv /\ SchemaInv' /\ [Next]_dcs => [AllCarried]_dcs
  BY <1>1
<1>3. Spec => [][AllCarried]_dcs
  <2> HIDE DEF AllCarried
  <2> QED BY <1>2, SchemaCorrect, PTL DEF Spec
<1> QED BY <1>3
=============================================================================
