----------------------------- MODULE Selections -----------------------------
(***************************************************************************)
(* Lists that a program filters, as sequences: those elements of s that    *)
(* are in S, in their order; and what is known of them, by induction on    *)
(* the length of s.                                                        *)
(***************************************************************************)
EXTENDS Integers, Sequences, Functions, WellFoundedInduction, TLAPS

Only(s, S) ==
  LET kept[i \in 0..Len(s)] ==
        IF i = 0 THEN <<>>
        ELSE IF s[i] \in S THEN Append(kept[i - 1], s[i]) ELSE kept[i - 1]
  IN  kept[Len(s)]

LEMMA RangeOfAppend ==
  ASSUME NEW T, NEW s \in Seq(T), NEW e \in T
  PROVE  \A x : x \in Range(Append(s, e)) <=> x \in Range(s) \/ x = e
<1>n. PICK n \in Nat : n = Len(s)
  OBVIOUS
<1>t. PICK t : t = Append(s, e)
  OBVIOUS
<1>1. /\ DOMAIN s = 1..n /\ DOMAIN t = 1..(n + 1) /\ t[n + 1] = e /\ \A i \in 1..n : t[i] = s[i]
  BY <1>n, <1>t
<1>2. \A i : i \in 1..(n + 1) <=> i \in 1..n \/ i = n + 1
  OBVIOUS
<1>3. \A x : x \in Range(t) <=> \E i \in 1..(n + 1) : t[i] = x
  BY <1>1 DEF Range
<1>4. \A x : x \in Range(s) <=> \E i \in 1..n : t[i] = x
  BY <1>1 DEF Range
<1>5. t[n + 1] = e
  BY <1>1
<1> QED BY <1>t, <1>2, <1>3, <1>4, <1>5, Zenon

\* The first-order form of induction.
LEMMA LeastNumber ==
  ASSUME NEW S \in SUBSET Nat, S # {}
  PROVE  \E n \in S : \A m \in S : n <= m
<1>1. IsWellFoundedOn(OpToRel(<, Nat), Nat)
  BY NatLessThanWellFounded, Zenon
<1>2. PICK n \in S : \A m \in S : <<m, n>> \notin OpToRel(<, Nat)
  BY <1>1, WFMin, Zenon
<1>3. \A m \in S : m \in Nat /\ n \in Nat /\ ~(m < n)
  BY <1>2 DEF OpToRel
<1> QED BY <1>3

LEMMA Induction ==
  ASSUME NEW n \in Nat, NEW S, 0 \in S, \A i \in 1..n : i - 1 \in S => i \in S
  PROVE  0..n \subseteq S
<1> SUFFICES ASSUME (0..n) \ S # {} PROVE FALSE
  OBVIOUS
<1> DEFINE Out == (0..n) \ S
<1>1. Out \in SUBSET Nat /\ Out # {}
  OBVIOUS
<1>2. PICK k \in Out : \A m \in Out : k <= m
  BY <1>1, LeastNumber
<1>3. k \in 1..n /\ k - 1 \in 0..n /\ ~(k <= k - 1)
  OBVIOUS
<1>4. k - 1 \in S
  BY <1>2, <1>3
<1> QED BY <1>3, <1>4

\* kept, on 0..n.
Keeps(f, s, S, n) ==
  f = [i \in 0..n |-> IF i = 0 THEN <<>>
                      ELSE IF s[i] \in S THEN Append(f[i - 1], s[i]) ELSE f[i - 1]]

LEMMA KeepsMeans ==
  ASSUME NEW f, NEW s, NEW S, NEW n \in Nat, Keeps(f, s, S, n)
  PROVE  /\ f[0] = <<>>
         /\ \A i \in 1..n : f[i] = IF s[i] \in S THEN Append(f[i - 1], s[i]) ELSE f[i - 1]
<1>1. \A i \in 0..n : f[i] = IF i = 0 THEN <<>> ELSE IF s[i] \in S THEN Append(f[i - 1], s[i]) ELSE f[i - 1]
  BY DEF Keeps
<1>2. 0 \in 0..n /\ \A i \in 1..n : i \in 0..n /\ i # 0
  OBVIOUS
<1> QED BY <1>1, <1>2

LEMMA KeptExists ==
  ASSUME NEW s, NEW S, NEW n \in Nat
  PROVE  \E f : Keeps(f, s, S, n)
<1> DEFINE Good == {k \in Nat : \E f : Keeps(f, s, S, k)}
<1>1. 0 \in Good
  <2> DEFINE f == [i \in 0..0 |-> <<>>]
  <2>1. Keeps(f, s, S, 0)
    BY DEF Keeps
  <2> QED BY <2>1
<1>2. ASSUME NEW k \in 1..n, k - 1 \in Good
      PROVE  k \in Good
  <2>1. PICK f : Keeps(f, s, S, k - 1)
    BY <1>2
  <2> DEFINE g == [i \in 0..k |-> IF i = k THEN IF s[k] \in S THEN Append(f[k - 1], s[k]) ELSE f[k - 1] ELSE f[i]]
  <2>2. /\ g[k] = IF s[k] \in S THEN Append(f[k - 1], s[k]) ELSE f[k - 1]
        /\ \A i \in 0..(k - 1) : g[i] = f[i] /\ i \in 0..k
    OBVIOUS
  <2>3. \A i \in 0..(k - 1) : f[i] = IF i = 0 THEN <<>> ELSE IF s[i] \in S THEN Append(f[i - 1], s[i]) ELSE f[i - 1]
    BY <2>1 DEF Keeps
  <2> HIDE DEF g
  <2>4. \A i \in 0..k : g[i] = IF i = 0 THEN <<>> ELSE IF s[i] \in S THEN Append(g[i - 1], s[i]) ELSE g[i - 1]
    <3> SUFFICES ASSUME NEW i \in 0..k
                 PROVE  g[i] = IF i = 0 THEN <<>> ELSE IF s[i] \in S THEN Append(g[i - 1], s[i]) ELSE g[i - 1]
      OBVIOUS
    <3>1. CASE i = k
      <4>1. k # 0 /\ k - 1 \in 0..(k - 1)
        OBVIOUS
      <4>2. g[k - 1] = f[k - 1]
        BY <2>2, <4>1
      <4> QED BY <2>2, <3>1, <4>1, <4>2
    <3>2. CASE i \in 0..(k - 1)
      <4>1. g[i] = f[i]
        BY <2>2, <3>2
      <4>2. i # 0 => i - 1 \in 0..(k - 1)
        BY <3>2
      <4>3. i # 0 => g[i - 1] = f[i - 1]
        BY <2>2, <4>2
      <4> QED BY <2>3, <3>2, <4>1, <4>3
    <3>3. i = k \/ i \in 0..(k - 1)
      OBVIOUS
    <3> QED BY <3>1, <3>2, <3>3
  <2>5. g = [i \in 0..k |-> g[i]]
    BY DEF g
  <2>6. Keeps(g, s, S, k)
    BY <2>4, <2>5 DEF Keeps
  <2> QED BY <2>6
<1>3. n \in 0..n
  OBVIOUS
<1> HIDE DEF Good
<1>4. n \in Good
  BY <1>1, <1>2, <1>3, Induction
<1> QED BY <1>4 DEF Good

LEMMA KeptIs ==
  ASSUME NEW s, NEW S, Len(s) \in Nat
  PROVE  \E f : Keeps(f, s, S, Len(s)) /\ Only(s, S) = f[Len(s)]
<1> DEFINE f == CHOOSE g : Keeps(g, s, S, Len(s))
<1>1. Keeps(f, s, S, Len(s))
  BY KeptExists
<1>2. Only(s, S) = f[Len(s)]
  BY Zenon DEF Only, Keeps
<1> QED BY <1>1, <1>2

LEMMA OnlyProperties ==
  ASSUME NEW T, NEW s \in Seq(T), NEW S
  PROVE  /\ Only(s, S) \in Seq(T) /\ Len(Only(s, S)) <= Len(s)
         /\ \A x : x \in Range(Only(s, S)) <=> x \in Range(s) /\ x \in S
<1>n. PICK n \in Nat : n = Len(s)
  OBVIOUS
<1>s. DOMAIN s = 1..n /\ \A i \in 1..n : s[i] \in T
  BY <1>n
<1>f. PICK f : Keeps(f, s, S, n) /\ Only(s, S) = f[n]
  BY <1>n, KeptIs
<1>k. /\ f[0] = <<>>
      /\ \A i \in 1..n : f[i] = IF s[i] \in S THEN Append(f[i - 1], s[i]) ELSE f[i - 1]
  BY <1>f, KeepsMeans
<1> DEFINE Good == {k \in Nat : /\ f[k] \in Seq(T) /\ Len(f[k]) <= k
                              /\ \A x : x \in Range(f[k]) <=> \E j \in 1..k : s[j] = x /\ x \in S}
<1>1. 0 \in Good
  <2>1. f[0] = <<>>
    BY <1>k
  <2>2. <<>> \in Seq(T) /\ Len(<<>>) = 0 /\ \A x : x \notin Range(<<>>)
    BY DEF Range
  <2>3. \A x : ~\E j \in 1..0 : s[j] = x /\ x \in S
    OBVIOUS
  <2>4. f[0] \in Seq(T) /\ Len(f[0]) <= 0
    BY <2>1, <2>2
  <2>5. \A x : x \in Range(f[0]) <=> \E j \in 1..0 : s[j] = x /\ x \in S
    BY <2>1, <2>2, <2>3, Zenon
  <2> QED BY <2>4, <2>5
<1>2. ASSUME NEW k \in 1..n, k - 1 \in Good
      PROVE  k \in Good
  <2> PICK m \in Nat : m = k - 1
    OBVIOUS
  <2>1. m \in Good /\ k = m + 1 /\ k \in Nat
    BY <1>2
  <2>2. f[m] \in Seq(T) /\ Len(f[m]) \in Nat /\ Len(f[m]) <= m
    BY <2>1
  <2>3. \A x : x \in Range(f[m]) <=> \E j \in 1..m : s[j] = x /\ x \in S
    BY <2>1
  <2>4. f[k] = IF s[k] \in S THEN Append(f[m], s[k]) ELSE f[m]
    BY <1>k, <2>1
  <2>5. \A j : j \in 1..k <=> j \in 1..m \/ j = k
    BY <2>1
  <2>6. s[k] \in T
    BY <1>s
  <2>7. CASE s[k] \in S
    <3>1. \A x : x \in Range(Append(f[m], s[k])) <=> x \in Range(f[m]) \/ x = s[k]
      BY <2>2, <2>6, RangeOfAppend
    <3>2. \A x : x \in Range(f[k]) <=> \E j \in 1..k : s[j] = x /\ x \in S
      BY <2>3, <2>4, <2>5, <2>7, <3>1, Zenon
    <3>3. f[k] \in Seq(T) /\ Len(f[k]) <= k
      BY <2>1, <2>2, <2>4, <2>6, <2>7
    <3> QED BY <2>1, <3>2, <3>3
  <2>8. CASE s[k] \notin S
    <3>1. \A x : x \in Range(f[k]) <=> \E j \in 1..k : s[j] = x /\ x \in S
      BY <2>3, <2>4, <2>5, <2>8, Zenon
    <3>2. f[k] \in Seq(T) /\ Len(f[k]) <= k
      BY <2>1, <2>2, <2>4, <2>8
    <3> QED BY <2>1, <3>1, <3>2
  <2> QED BY <2>7, <2>8
<1>3. n \in 0..n
  OBVIOUS
<1> HIDE DEF Good
<1>4. n \in Good
  BY <1>1, <1>2, <1>3, Induction
<1>5. f[n] \in Seq(T) /\ Len(f[n]) <= n /\ \A x : x \in Range(f[n]) <=> \E j \in 1..n : s[j] = x /\ x \in S
  BY <1>4 DEF Good
<1>6. \A x : x \in Range(s) <=> \E j \in 1..n : s[j] = x
  BY <1>s DEF Range
<1> QED BY <1>n, <1>f, <1>5, <1>6

LEMMA OnlyExtends ==
  ASSUME NEW T, NEW s \in Seq(T), NEW e \in T, NEW S
  PROVE  Only(Append(s, e), S) = IF e \in S THEN Append(Only(s, S), e) ELSE Only(s, S)
<1>n. PICK n \in Nat : n = Len(s)
  OBVIOUS
<1>t. PICK t : t = Append(s, e)
  OBVIOUS
<1>s. /\ Len(t) = n + 1 /\ t[n + 1] = e /\ \A i \in 1..n : t[i] = s[i]
  BY <1>n, <1>t
<1>f. PICK f : Keeps(f, s, S, n) /\ Only(s, S) = f[n]
  BY <1>n, KeptIs
<1>g. PICK g : Keeps(g, t, S, n + 1) /\ Only(t, S) = g[n + 1]
  BY <1>s, KeptIs
<1>1. /\ f[0] = <<>> /\ g[0] = <<>>
      /\ \A i \in 1..n : f[i] = IF s[i] \in S THEN Append(f[i - 1], s[i]) ELSE f[i - 1]
      /\ \A i \in 1..(n + 1) : g[i] = IF t[i] \in S THEN Append(g[i - 1], t[i]) ELSE g[i - 1]
  <2>1. n + 1 \in Nat
    OBVIOUS
  <2> QED BY <1>f, <1>g, <2>1, KeepsMeans
<1> DEFINE Same == {k \in Nat : f[k] = g[k]}
<1>2. 0 \in Same
  BY <1>1
<1>3. ASSUME NEW k \in 1..n, k - 1 \in Same
      PROVE  k \in Same
  <2>1. k \in 1..(n + 1) /\ t[k] = s[k] /\ f[k - 1] = g[k - 1]
    BY <1>s, <1>3
  <2> QED BY <1>1, <2>1
<1>4. n \in 0..n
  OBVIOUS
<1> HIDE DEF Same
<1>5. n \in Same
  BY <1>2, <1>3, <1>4, Induction
<1>6. f[n] = g[n]
  BY <1>5 DEF Same
<1>7. g[n + 1] = IF t[n + 1] \in S THEN Append(g[n], t[n + 1]) ELSE g[n]
  <2>1. n + 1 \in 1..(n + 1) /\ (n + 1) - 1 = n
    OBVIOUS
  <2> QED BY <1>1, <2>1
<1> QED BY <1>t, <1>s, <1>f, <1>g, <1>6, <1>7

\* What is kept of two sequences stays the same when both grow alike.
LEMMA OnlyBothExtended ==
  ASSUME NEW T, NEW s \in Seq(T), NEW t \in Seq(T), NEW e \in T, NEW S, Only(s, S) = Only(t, S)
  PROVE  Only(Append(s, e), S) = Only(Append(t, e), S)
<1>1. Only(Append(s, e), S) = IF e \in S THEN Append(Only(s, S), e) ELSE Only(s, S)
  BY OnlyExtends
<1>2. Only(Append(t, e), S) = IF e \in S THEN Append(Only(t, S), e) ELSE Only(t, S)
  BY OnlyExtends
<1>3. CASE e \in S
  <2>1. Only(Append(s, e), S) = Append(Only(s, S), e) /\ Only(Append(t, e), S) = Append(Only(t, S), e)
    BY <1>1, <1>2, <1>3
  <2> QED BY <2>1
<1>4. CASE e \notin S
  BY <1>1, <1>2, <1>4
<1> QED BY <1>3, <1>4

\* Only what is in the list matters.
LEMMA OnlySame ==
  ASSUME NEW T, NEW s \in Seq(T), NEW S, NEW U,
         \A x \in Range(s) : x \in S <=> x \in U
  PROVE  Only(s, S) = Only(s, U)
<1>n. PICK n \in Nat : n = Len(s)
  OBVIOUS
<1>s. \A i \in 1..n : s[i] \in S <=> s[i] \in U
  BY <1>n DEF Range
<1>f. PICK f : Keeps(f, s, S, n) /\ Only(s, S) = f[n]
  BY <1>n, KeptIs
<1>g. PICK g : Keeps(g, s, U, n) /\ Only(s, U) = g[n]
  BY <1>n, KeptIs
<1>1. /\ f[0] = <<>> /\ g[0] = <<>>
      /\ \A i \in 1..n : f[i] = IF s[i] \in S THEN Append(f[i - 1], s[i]) ELSE f[i - 1]
      /\ \A i \in 1..n : g[i] = IF s[i] \in U THEN Append(g[i - 1], s[i]) ELSE g[i - 1]
  <2>1. n + 1 \in Nat
    OBVIOUS
  <2> QED BY <1>f, <1>g, <2>1, KeepsMeans
<1> DEFINE Same == {k \in Nat : f[k] = g[k]}
<1>2. 0 \in Same
  BY <1>1
<1>3. ASSUME NEW k \in 1..n, k - 1 \in Same
      PROVE  k \in Same
  <2>1. f[k - 1] = g[k - 1]
    BY <1>3
  <2> QED BY <1>1, <1>s, <2>1
<1>4. n \in 0..n
  OBVIOUS
<1> HIDE DEF Same
<1>5. n \in Same
  BY <1>2, <1>3, <1>4, Induction
<1> QED BY <1>f, <1>g, <1>5 DEF Same

LEMMA Prefix ==
  ASSUME NEW T, NEW s \in Seq(T), NEW m \in 0..Len(s)
  PROVE  /\ SubSeq(s, 1, m) \in Seq(T) /\ Len(SubSeq(s, 1, m)) = m
         /\ \A i \in 1..m : SubSeq(s, 1, m)[i] = s[i]
         /\ m < Len(s) => s[m + 1] \in T /\ SubSeq(s, 1, m + 1) = Append(SubSeq(s, 1, m), s[m + 1])
         /\ m = Len(s) => SubSeq(s, 1, m) = s
<1>n. PICK n \in Nat : n = Len(s)
  OBVIOUS
<1>1. m \in 0..n /\ m \in Nat /\ DOMAIN s = 1..n /\ (\A i \in 1..n : s[i] \in T) /\ s \in [1..n -> T]
  BY <1>n
<1>2. SubSeq(s, 1, m) = [i \in 1..m |-> s[i]]
  BY <1>1, <1>n
<1>3. SubSeq(s, 1, m) \in Seq(T) /\ Len(SubSeq(s, 1, m)) = m
  BY <1>1, <1>2
<1>4. \A i \in 1..m : SubSeq(s, 1, m)[i] = s[i]
  BY <1>2
<1>5. ASSUME m < n
      PROVE  s[m + 1] \in T /\ SubSeq(s, 1, m + 1) = Append(SubSeq(s, 1, m), s[m + 1])
  <2>1. m + 1 \in 1..n /\ s[m + 1] \in T
    BY <1>1, <1>5
  <2>2. SubSeq(s, 1, m + 1) = [i \in 1..(m + 1) |-> s[i]]
    BY <1>1, <2>1, <1>n
  <2>3. Append(SubSeq(s, 1, m), s[m + 1]) = [i \in 1..(m + 1) |-> s[i]]
    BY <1>1, <1>2, <1>3, <2>1
  <2> QED BY <2>1, <2>2, <2>3
<1>6. m = n => SubSeq(s, 1, m) = s
  BY <1>1, <1>2
<1> QED BY <1>n, <1>3, <1>4, <1>5, <1>6

\* Entries that are left out add nothing.
LEMMA OnlySkips ==
  ASSUME NEW T, NEW s \in Seq(T), NEW S, NEW m \in Nat, NEW n \in Nat, m <= n, n <= Len(s),
         \A i \in (m + 1)..n : s[i] \notin S
  PROVE  Only(SubSeq(s, 1, n), S) = Only(SubSeq(s, 1, m), S)
<1> DEFINE Same == {k \in Nat : Only(SubSeq(s, 1, m + k), S) = Only(SubSeq(s, 1, m), S)}
<1>1. 0 \in Same
  BY m + 0 = m
<1>2. ASSUME NEW k \in 1..(n - m), k - 1 \in Same
      PROVE  k \in Same
  <2> PICK j \in Nat : j = m + (k - 1)
    OBVIOUS
  <2>1. j \in 0..Len(s) /\ j < Len(s) /\ m + k = j + 1 /\ j + 1 \in (m + 1)..n
    OBVIOUS
  <2>2. /\ s[j + 1] \in T /\ SubSeq(s, 1, j) \in Seq(T)
        /\ SubSeq(s, 1, j + 1) = Append(SubSeq(s, 1, j), s[j + 1])
    BY <2>1, Prefix
  <2>3. s[j + 1] \notin S
    BY <2>1
  <2>4. Only(Append(SubSeq(s, 1, j), s[j + 1]), S) = Only(SubSeq(s, 1, j), S)
    <3>1. PICK p \in Seq(T), e \in T : p = SubSeq(s, 1, j) /\ e = s[j + 1]
      BY <2>2
    <3>2. Only(Append(p, e), S) = IF e \in S THEN Append(Only(p, S), e) ELSE Only(p, S)
      BY OnlyExtends
    <3>3. e \notin S
      BY <2>3, <3>1
    <3> QED BY <3>1, <3>2, <3>3
  <2>5. Only(SubSeq(s, 1, j), S) = Only(SubSeq(s, 1, m), S)
    BY <1>2
  <2>6. Only(SubSeq(s, 1, m + k), S) = Only(SubSeq(s, 1, m), S)
    BY <2>1, <2>2, <2>4, <2>5
  <2> QED BY <2>6
<1>3. n - m \in Nat /\ n - m \in 0..(n - m) /\ m + (n - m) = n
  OBVIOUS
<1> HIDE DEF Same
<1>4. n - m \in Same
  BY <1>1, <1>2, <1>3, Induction
<1>5. Only(SubSeq(s, 1, m + (n - m)), S) = Only(SubSeq(s, 1, m), S)
  BY <1>4 DEF Same
<1> QED BY <1>3, <1>5

\* Nothing is left of nothing, nor of what is left out altogether.
LEMMA OnlyNone ==
  ASSUME NEW T, NEW s \in Seq(T), NEW S, \A i \in 1..Len(s) : s[i] \notin S
  PROVE  Only(s, S) = <<>>
<1>1. Only(s, S) \in Seq(T) /\ \A x : x \in Range(Only(s, S)) <=> x \in Range(s) /\ x \in S
  BY OnlyProperties
<1>2. PICK t \in Seq(T) : t = Only(s, S)
  BY <1>1
<1>3. \A x : x \notin Range(t)
  <2>1. \A x \in Range(s) : x \notin S
    BY DEF Range
  <2> QED BY <1>1, <1>2, <2>1
<1>4. Len(t) = 0
  <2> SUFFICES ASSUME Len(t) # 0 PROVE FALSE
    OBVIOUS
  <2>1. 1 \in DOMAIN t
    OBVIOUS
  <2>2. t[1] \in Range(t)
    BY <2>1 DEF Range
  <2> QED BY <1>3, <2>2
<1> QED BY <1>2, <1>4

\* To select twice is to select by both.
LEMMA OnlyTwice ==
  ASSUME NEW T, NEW s \in Seq(T), NEW S, NEW U
  PROVE  Only(Only(s, S), U) = Only(s, S \cap U)
<1>n. PICK n \in Nat : n = Len(s)
  OBVIOUS
<1> DEFINE P(k) == SubSeq(s, 1, k)
           Same == {k \in Nat : Only(Only(P(k), S), U) = Only(P(k), S \cap U)}
<1>1. 0 \in Same
  <2>1. P(0) = <<>> /\ <<>> \in Seq(T) /\ Len(<<>>) = 0 /\ \A i : i \notin 1..0
    OBVIOUS
  <2>2. Only(<<>>, S) = <<>> /\ Only(<<>>, U) = <<>> /\ Only(<<>>, S \cap U) = <<>>
    BY <2>1, OnlyNone
  <2> QED BY <2>1, <2>2
<1>2. ASSUME NEW k \in 1..n, k - 1 \in Same
      PROVE  k \in Same
  <2>1. PICK p \in Seq(T), e \in T : p = P(k - 1) /\ P(k) = Append(p, e)
    <3>1. k - 1 \in 0..Len(s) /\ k - 1 < Len(s) /\ (k - 1) + 1 = k
      BY <1>n
    <3>2. PICK j \in 0..Len(s) : j = k - 1 /\ j < Len(s) /\ j + 1 = k
      BY <3>1
    <3>3. SubSeq(s, 1, j) \in Seq(T) /\ s[j + 1] \in T /\ SubSeq(s, 1, j + 1) = Append(SubSeq(s, 1, j), s[j + 1])
      BY <3>2, Prefix
    <3> QED BY <3>2, <3>3
  <2>2. Only(p, S) \in Seq(T)
    BY OnlyProperties
  <2>3. Only(Append(p, e), S) = IF e \in S THEN Append(Only(p, S), e) ELSE Only(p, S)
    BY OnlyExtends
  <2>4. Only(Append(p, e), S \cap U) = IF e \in S \cap U THEN Append(Only(p, S \cap U), e) ELSE Only(p, S \cap U)
    BY OnlyExtends
  <2>5. Only(Append(Only(p, S), e), U) = IF e \in U THEN Append(Only(Only(p, S), U), e) ELSE Only(Only(p, S), U)
    BY <2>2, OnlyExtends
  <2>6. Only(Only(p, S), U) = Only(p, S \cap U)
    BY <1>2, <2>1
  <2>7. Only(Only(Append(p, e), S), U) = Only(Append(p, e), S \cap U)
    <3>1. CASE e \in S
      <4>1. Only(Only(Append(p, e), S), U) = Only(Append(Only(p, S), e), U)
        BY <2>3, <3>1, Zenon
      <4>2. e \in S \cap U <=> e \in U
        BY <3>1
      <4> QED BY <2>4, <2>5, <2>6, <4>1, <4>2, Zenon
    <3>2. CASE e \notin S
      <4>1. e \notin S \cap U
        BY <3>2
      <4> QED BY <2>3, <2>4, <2>6, <3>2, <4>1, Zenon
    <3> QED BY <3>1, <3>2
  <2> HIDE DEF P
  <2>8. k \in Nat /\ Only(Only(P(k), S), U) = Only(P(k), S \cap U)
    BY <2>1, <2>7
  <2> QED BY <2>8
<1>3. n \in 0..n
  OBVIOUS
<1> HIDE DEF Same
<1>4. n \in Same
  BY <1>1, <1>2, <1>3, Induction
<1>5. P(n) = s
  BY <1>n
<1> HIDE DEF P
<1> QED BY <1>4, <1>5 DEF Same

\* What is dropped from the front was left out anyway.
LEMMA OnlyDrops ==
  ASSUME NEW T, NEW s \in Seq(T), NEW S, NEW m \in Nat, m <= Len(s), \A i \in 1..m : s[i] \notin S
  PROVE  SubSeq(s, m + 1, Len(s)) \in Seq(T) /\ Only(SubSeq(s, m + 1, Len(s)), S) = Only(s, S)
<1>n. PICK n \in Nat : n = Len(s)
  OBVIOUS
<1>s. /\ m <= n /\ \A i \in 1..n : s[i] \in T
  BY <1>n
<1> DEFINE Rest(k) == SubSeq(s, m + 1, m + k)
           Front(k) == SubSeq(s, 1, m + k)
           Same == {k \in Nat : Only(Rest(k), S) = Only(Front(k), S)}
<1>r. \A k \in 0..(n - m) : Rest(k) \in Seq(T) /\ Len(Rest(k)) = k /\ \A i \in 1..k : Rest(k)[i] = s[m + i]
  BY <1>n, <1>s
<1>1. 0 \in Same
  <2>1. Rest(0) = <<>> /\ <<>> \in Seq(T) /\ Len(<<>>) = 0
    BY <1>n, <1>s
  <2>2. Front(0) \in Seq(T) /\ Len(Front(0)) = m /\ \A i \in 1..m : Front(0)[i] = s[i]
    <3>1. m \in 0..Len(s) /\ m + 0 = m
      BY <1>n, <1>s
    <3> QED BY <3>1, Prefix
  <2> HIDE DEF Rest, Front
  <2>3. Only(Front(0), S) = <<>>
    BY <2>2, OnlyNone
  <2>4. Only(Rest(0), S) = <<>>
    <3>1. \A i \in 1..Len(<<>>) : <<>>[i] \notin S
      OBVIOUS
    <3> QED BY <2>1, <3>1, OnlyNone
  <2> QED BY <2>3, <2>4
<1>2. ASSUME NEW k \in 1..(n - m), k - 1 \in Same
      PROVE  k \in Same
  <2>1. PICK j \in 0..Len(s) : j = m + (k - 1) /\ j < Len(s) /\ j + 1 = m + k
    BY <1>n, <1>s
  <2>2. SubSeq(s, 1, j) \in Seq(T) /\ s[j + 1] \in T /\ SubSeq(s, 1, j + 1) = Append(SubSeq(s, 1, j), s[j + 1])
    BY <2>1, Prefix
  <2>3. PICK p \in Seq(T), q \in Seq(T), e \in T : p = Front(k - 1) /\ q = Rest(k - 1) /\ e = s[j + 1]
    <3>1. k - 1 \in 0..(n - m)
      BY <1>s
    <3>2. Rest(k - 1) \in Seq(T)
      BY <1>r, <3>1
    <3> QED BY <2>1, <2>2, <3>2
  <2>4. Front(k) = Append(p, e)
    BY <2>1, <2>2, <2>3
  <2>5. Rest(k) = Append(q, e)
    <3>1. /\ Rest(k) \in Seq(T) /\ Len(Rest(k)) = k /\ \A i \in 1..k : Rest(k)[i] = s[m + i]
      <4>1. k \in 0..(n - m)
        BY <1>s
      <4> HIDE DEF Rest
      <4> QED BY <1>r, <4>1
    <3>2. k - 1 \in 0..(n - m)
      BY <1>s
    <3>3. Len(q) = k - 1 /\ \A i \in 1..(k - 1) : q[i] = s[m + i]
      BY <1>r, <2>3, <3>2
    <3>4. e = s[m + k]
      BY <2>1, <2>3
    <3> HIDE DEF Rest
    <3>5. PICK l \in Nat : l = k - 1 /\ k = l + 1
      BY <3>2
    <3>6. /\ Append(q, e) \in Seq(T) /\ Len(Append(q, e)) = k
          /\ \A i \in 1..k : Append(q, e)[i] = IF i = k THEN e ELSE q[i]
      BY <3>3, <3>5
    <3>7. \A i \in 1..k : Append(q, e)[i] = Rest(k)[i]
      <4> TAKE i \in 1..k
      <4>1. Append(q, e)[i] = IF i = k THEN e ELSE q[i]
        BY <3>6
      <4>2. CASE i = k
        BY <3>1, <3>4, <4>1, <4>2
      <4>3. CASE i # k
        <5>1. i \in 1..(k - 1)
          BY <4>3
        <5> QED BY <3>1, <3>3, <4>1, <4>3, <5>1
      <4> QED BY <4>2, <4>3
    <3>8. PICK u \in Seq(T), v \in Seq(T) : u = Rest(k) /\ v = Append(q, e)
      BY <3>1, <3>6
    <3>9. Len(u) = k /\ Len(v) = k /\ \A i \in 1..k : u[i] = v[i]
      BY <3>1, <3>6, <3>7, <3>8
    <3>10. u = v
      BY <3>9
    <3> QED BY <3>8, <3>10
  <2>6. Only(q, S) = Only(p, S)
    BY <1>2, <2>3
  <2>7. Only(Append(p, e), S) = IF e \in S THEN Append(Only(p, S), e) ELSE Only(p, S)
    BY OnlyExtends
  <2>8. Only(Append(q, e), S) = IF e \in S THEN Append(Only(q, S), e) ELSE Only(q, S)
    BY OnlyExtends
  <2> HIDE DEF Rest, Front
  <2>9. Only(Append(q, e), S) = Only(Append(p, e), S)
    <3>1. CASE e \in S
      <4>1. Only(Append(p, e), S) = Append(Only(p, S), e) /\ Only(Append(q, e), S) = Append(Only(q, S), e)
        BY <2>7, <2>8, <3>1, Zenon
      <4> QED BY <2>6, <4>1, Zenon
    <3>2. CASE e \notin S
      <4>1. Only(Append(p, e), S) = Only(p, S) /\ Only(Append(q, e), S) = Only(q, S)
        BY <2>7, <2>8, <3>2, Zenon
      <4> QED BY <2>6, <4>1, Zenon
    <3> QED BY <3>1, <3>2
  <2>10. k \in Nat /\ Only(Rest(k), S) = Only(Front(k), S)
    BY <2>4, <2>5, <2>9
  <2> QED BY <2>10
<1>3. n - m \in Nat /\ n - m \in 0..(n - m) /\ m + (n - m) = n
  BY <1>s
<1> HIDE DEF Same
<1>4. n - m \in Same
  BY <1>1, <1>2, <1>3, Induction
<1>5. Rest(n - m) = SubSeq(s, m + 1, n) /\ Front(n - m) = s /\ Rest(n - m) \in Seq(T)
  BY <1>n, <1>3, <1>r
<1> HIDE DEF Rest, Front
<1> QED BY <1>n, <1>4, <1>5 DEF Same
=============================================================================
