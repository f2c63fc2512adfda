---------------------------- MODULE ProviderProofs ----------------------------
(***************************************************************************)
(* Proofs about ProviderCall: what a provider is sent carries the whole     *)
(* conversation, and keeps the rules of its API, for every provider, every  *)
(* request of a client at either endpoint, every answer and every way its   *)
(* stream comes in, and in the turn after it.                               *)
(*                                                                          *)
(* The lemmas go from lists (loops, maps and filters that go piece by       *)
(* piece) to what is said in a conversation, through the conversions of     *)
(* each provider, to RequestsFit; and from the client's request to one that *)
(* a provider can be called with, and from its answer, its stream and the   *)
(* client back to the next request, to the inductive invariant CallInv.     *)
(* Their terms are defined in ProviderTerms.                                *)
(***************************************************************************)
EXTENDS ProviderTerms, SequenceTheorems, FiniteSetTheorems, WellFoundedInduction, TLAPS

-----------------------------------------------------------------------------
(***************************************************************************)
(* Loops over sequences                                                     *)
(***************************************************************************)
\* Induction, as the least element of a set of numbers.
LEMMA Least ==
    ASSUME NEW T, T \subseteq Nat, T # {}
    PROVE  \E x \in T : \A y \in T : x <= y
<1> DEFINE R == OpToRel(<, Nat)
<1>1. IsWellFoundedOn(R, Nat)
  BY NatLessThanWellFounded
<1>2. \A x, y \in Nat : x < y => <<x, y>> \in R
  BY DEF OpToRel
<1> HIDE DEF R
<1>3. PICK x \in T : \A y \in T : ~(<<y, x>> \in R)
  BY <1>1, WFMin
<1>4. \A y \in T : ~(y < x)
  BY <1>2, <1>3
<1>5. \A y \in T : x <= y
  BY <1>4
<1> QED
  BY <1>5

\* Induction over the rounds of a loop.
LEMMA Rounds ==
    ASSUME NEW n \in Nat, NEW S, 0 \in S,
           \A i \in 1 .. n : i - 1 \in S => i \in S
    PROVE  \A i \in 0 .. n : i \in S
<1> DEFINE T == {i \in 0 .. n : i \notin S}
<1> SUFFICES ASSUME T # {}
             PROVE  FALSE
  OBVIOUS
<1>1. T \subseteq Nat
  OBVIOUS
<1>2. PICK k \in T : \A j \in T : k <= j
  <2> HIDE DEF T
  <2> QED
    BY <1>1, Least
<1>3. k \in 1 .. n /\ k - 1 \in 0 .. n /\ k - 1 \notin T
  BY <1>2
<1> QED
  BY <1>2, <1>3

\* The loop that extends a list computes some function.
LEMMA ConcatenationsExist ==
    ASSUME NEW s, NEW n \in Nat
    PROVE  \E f : AreConcatenations(f, s, n)
<1> DEFINE T == {k \in Nat : ~\E f : AreConcatenations(f, s, k)}
<1> SUFFICES ASSUME T # {}
             PROVE  FALSE
  OBVIOUS
<1>1. PICK k \in T : \A j \in T : k <= j
  BY Least
<1>2. k # 0
  <2>1. AreConcatenations([i \in 0 .. 0 |-> << >>], s, 0)
    BY DEF AreConcatenations
  <2> QED
    BY <2>1
<1>3. PICK f : AreConcatenations(f, s, k - 1)
  BY <1>1, <1>2
<1> DEFINE h == [i \in 0 .. k |-> IF i = k THEN f[k - 1] \o s[k] ELSE f[i]]
<1>4. \A i \in 0 .. k : h[i] = IF i = 0 THEN << >> ELSE h[i - 1] \o s[i]
  BY <1>1, <1>2, <1>3 DEF AreConcatenations
<1>5. AreConcatenations(h, s, k)
  BY <1>4 DEF AreConcatenations
<1> QED
  BY <1>1, <1>5

\* One round: the next list is appended.
LEMMA ConcatenationsUnfold ==
    ASSUME NEW s, Len(s) \in Nat
    PROVE  /\ Concatenations(s)[0] = << >>
           /\ \A i \in 1 .. Len(s) : Concatenations(s)[i] = Concatenations(s)[i - 1] \o s[i]
<1> DEFINE f == Concatenations(s)
           n == Len(s)
           v(i) == IF i = 0 THEN << >> ELSE f[i - 1] \o s[i]
<1>1. AreConcatenations(f, s, n)
  <2>1. PICK g : AreConcatenations(g, s, n)
    <3>1. n \in Nat
      OBVIOUS
    <3> HIDE DEF n
    <3> QED
      BY <3>1, ConcatenationsExist
  <2> QED
    BY <2>1 DEF Concatenations, AreConcatenations
<1> HIDE DEF f
<1>2. f = [i \in 0 .. n |-> v(i)]
  BY <1>1 DEF AreConcatenations
<1> HIDE DEF v
<1>3. \A i \in 0 .. n : f[i] = v(i)
  BY <1>2
<1>4. \A i \in 1 .. n : i \in 0 .. n /\ i # 0
  OBVIOUS
<1>5. 0 \in 0 .. n
  OBVIOUS
<1> QED
  BY <1>3, <1>4, <1>5 DEF f, v

\* What is pushed so far is a list.
LEMMA ConcatenationsType ==
    ASSUME NEW X, NEW s \in Seq(Seq(X))
    PROVE  \A k \in 0 .. Len(s) : Concatenations(s)[k] \in Seq(X)
<1> DEFINE f == Concatenations(s)
           S == {k \in 0 .. Len(s) : f[k] \in Seq(X)}
<1>0. Len(s) \in Nat /\ \A i \in 1 .. Len(s) : s[i] \in Seq(X)
  OBVIOUS
<1>1. f[0] = << >> /\ \A i \in 1 .. Len(s) : f[i] = f[i - 1] \o s[i]
  BY <1>0, ConcatenationsUnfold
<1> HIDE DEF f
<1>2. 0 \in S
  <2>1. << >> \in Seq(X) /\ 0 \in 0 .. Len(s)
    BY <1>0
  <2> QED
    BY <1>1, <2>1
<1>3. ASSUME NEW i \in 1 .. Len(s), i - 1 \in S PROVE i \in S
  <2>1. f[i - 1] \in Seq(X) /\ s[i] \in Seq(X)
    BY <1>0, <1>3
  <2>2. f[i - 1] \o s[i] \in Seq(X)
    BY <2>1, ConcatProperties
  <2>3. f[i] = f[i - 1] \o s[i]
    BY <1>1
  <2>4. i \in 0 .. Len(s)
    BY <1>0
  <2> QED
    BY <2>2, <2>3, <2>4
<1>4. Len(s) \in Nat
  OBVIOUS
<1> HIDE DEF S
<1>5. \A i \in 0 .. Len(s) : i \in S
  BY <1>2, <1>3, <1>4, Rounds
<1> QED
  BY <1>5 DEF S, f

\* Lists of lists become lists.
LEMMA FlattenType ==
    ASSUME NEW X, NEW s \in Seq(Seq(X))
    PROVE  Flatten(s) \in Seq(X)
BY ConcatenationsType DEF Flatten

\* Extending by one list after another is extending by all of them.
LEMMA FlattenConcat ==
    ASSUME NEW X, NEW a \in Seq(Seq(X)), NEW b \in Seq(Seq(X))
    PROVE  Flatten(a \o b) = Flatten(a) \o Flatten(b)
<1> DEFINE c == a \o b
           f == Concatenations(a)
           g == Concatenations(b)
           h == Concatenations(c)
           m == Len(a)
           n == Len(b)
<1>1. /\ c \in Seq(Seq(X)) /\ Len(c) = m + n /\ m \in Nat /\ n \in Nat
      /\ \A i \in 1 .. m : c[i] = a[i]
      /\ \A i \in 1 .. n : c[m + i] = b[i]
  OBVIOUS
<1>2. f[0] = << >> /\ \A i \in 1 .. m : f[i] = f[i - 1] \o a[i]
  BY <1>1, ConcatenationsUnfold
<1>3. g[0] = << >> /\ \A i \in 1 .. n : g[i] = g[i - 1] \o b[i]
  BY <1>1, ConcatenationsUnfold
<1>4. h[0] = << >> /\ \A i \in 1 .. (m + n) : h[i] = h[i - 1] \o c[i]
  <2>1. Len(c) = m + n /\ Len(c) \in Nat
    BY <1>1
  <2> HIDE DEF c
  <2>2. h[0] = << >> /\ \A i \in 1 .. Len(c) : h[i] = h[i - 1] \o c[i]
    BY <2>1, ConcatenationsUnfold
  <2> QED
    BY <2>1, <2>2
<1>5. /\ \A i \in 0 .. m : f[i] \in Seq(X)
      /\ \A i \in 0 .. n : g[i] \in Seq(X)
      /\ \A i \in 1 .. n : b[i] \in Seq(X)
  BY ConcatenationsType
<1>6. f[m] = Flatten(a) /\ g[n] = Flatten(b) /\ h[m + n] = Flatten(c)
  BY <1>1 DEF Flatten
<1> HIDE DEF c, f, g, h, m, n
<1>7. h[m] = f[m]
  <2> DEFINE S == {i \in 0 .. m : h[i] = f[i]}
  <2>1. 0 \in S
    BY <1>1, <1>2, <1>4
  <2>2. ASSUME NEW i \in 1 .. m, i - 1 \in S PROVE i \in S
    <3>1. h[i - 1] = f[i - 1] /\ i \in 1 .. (m + n)
      BY <1>1, <2>2
    <3>2. h[i] = f[i]
      BY <1>1, <1>2, <1>4, <3>1
    <3> QED
      BY <1>1, <3>2
  <2> HIDE DEF S
  <2>3. \A i \in 0 .. m : i \in S
    BY <1>1, <2>1, <2>2, Rounds
  <2>4. m \in S
    BY <1>1, <2>3
  <2> QED
    BY <2>4 DEF S
<1>8. h[m + n] = f[m] \o g[n]
  <2> DEFINE S == {i \in 0 .. n : h[m + i] = f[m] \o g[i]}
  <2>1. 0 \in S
    <3>1. f[m] \in Seq(X)
      BY <1>1, <1>5
    <3>2. f[m] \o << >> = f[m]
      BY <3>1, ConcatEmptySeq
    <3>3. h[m + 0] = f[m] \o g[0] /\ 0 \in 0 .. n
      BY <1>1, <1>3, <1>7, <3>2
    <3> QED
      BY <3>3
  <2>2. ASSUME NEW i \in 1 .. n, i - 1 \in S PROVE i \in S
    <3>1. h[m + (i - 1)] = f[m] \o g[i - 1]
      BY <2>2
    <3>2. m + i \in 1 .. (m + n) /\ (m + i) - 1 = m + (i - 1) /\ c[m + i] = b[i] /\ i \in 0 .. n /\ i - 1 \in 0 .. n
      BY <1>1
    <3>3. h[m + i] = (f[m] \o g[i - 1]) \o b[i]
      BY <1>4, <3>1, <3>2
    <3>4. f[m] \in Seq(X) /\ g[i - 1] \in Seq(X) /\ b[i] \in Seq(X)
      BY <1>1, <1>5, <3>2
    <3> DEFINE x == f[m]
               y == g[i - 1]
               z == b[i]
    <3>5. (x \o y) \o z = x \o (y \o z)
      <4>1. x \in Seq(X) /\ y \in Seq(X) /\ z \in Seq(X)
        BY <3>4
      <4> HIDE DEF x, y, z
      <4> QED
        BY <4>1
    <3> QED
      BY <1>3, <3>2, <3>3, <3>5
  <2> HIDE DEF S
  <2>3. \A i \in 0 .. n : i \in S
    BY <1>1, <2>1, <2>2, Rounds
  <2>4. n \in S
    BY <1>1, <2>3
  <2> QED
    BY <2>4 DEF S
<1> QED
  BY <1>6, <1>8 DEF c

\* The loop over no list, and over one.
LEMMA FlattenOne ==
    ASSUME NEW X, NEW a \in Seq(X)
    PROVE  Flatten(<< >>) = << >> /\ Flatten(<<a>>) = a
<1>1. Concatenations(<< >>)[0] = << >>
  BY ConcatenationsUnfold
<1>2. Concatenations(<<a>>)[0] = << >> /\ Concatenations(<<a>>)[1] = Concatenations(<<a>>)[0] \o a
  <2> DEFINE s == <<a>>
  <2>1. Len(s) = 1 /\ s[1] = a /\ 1 \in 1 .. 1 /\ 1 - 1 = 0 /\ Len(s) \in Nat
    OBVIOUS
  <2> HIDE DEF s
  <2>2. Concatenations(s)[0] = << >> /\ \A i \in 1 .. Len(s) : Concatenations(s)[i] = Concatenations(s)[i - 1] \o s[i]
    BY <2>1, ConcatenationsUnfold
  <2>3. Concatenations(s)[1] = Concatenations(s)[0] \o a
    BY <2>1, <2>2
  <2> QED
    BY <2>2, <2>3 DEF s
<1>3. << >> \o a = a
  BY ConcatEmptySeq
<1> QED
  BY <1>1, <1>2, <1>3 DEF Flatten

\* Such an h may be applied before or after the lists are put together.
LEMMA HomFlatten ==
    ASSUME NEW X, NEW Y, NEW h, IsHom(h, X, Y), NEW s \in Seq(Seq(X))
    PROVE  h[Flatten(s)] = Flatten([i \in DOMAIN s |-> h[s[i]]])
<1> DEFINE t == [i \in DOMAIN s |-> h[s[i]]]
           n == Len(s)
           f == Concatenations(s)
           g == Concatenations(t)
<1>1. n \in Nat /\ DOMAIN s = 1 .. n /\ \A i \in 1 .. n : s[i] \in Seq(X)
  OBVIOUS
<1>2. t \in Seq(Seq(Y)) /\ Len(t) = n /\ \A i \in 1 .. n : t[i] = h[s[i]]
  <2>1. \A i \in 1 .. n : h[s[i]] \in Seq(Y)
    BY <1>1 DEF IsHom
  <2>2. t = [i \in 1 .. n |-> h[s[i]]]
    BY <1>1
  <2> HIDE DEF n, t
  <2>3. t \in [1 .. n -> Seq(Y)]
    BY <2>1, <2>2
  <2> QED
    BY <1>1, <2>2, <2>3
<1>3. f[0] = << >> /\ \A i \in 1 .. n : f[i] = f[i - 1] \o s[i]
  BY <1>1, ConcatenationsUnfold
<1>4. g[0] = << >> /\ \A i \in 1 .. n : g[i] = g[i - 1] \o t[i]
  <2> HIDE DEF t
  <2>1. Len(t) \in Nat
    BY <1>1, <1>2
  <2>2. g[0] = << >> /\ \A i \in 1 .. Len(t) : g[i] = g[i - 1] \o t[i]
    BY <2>1, ConcatenationsUnfold
  <2> QED
    BY <1>2, <2>2
<1>5. \A i \in 0 .. n : f[i] \in Seq(X)
  BY ConcatenationsType
<1>6. Flatten(s) = f[n] /\ Flatten(t) = g[n]
  BY <1>2 DEF Flatten
<1> DEFINE S == {i \in 0 .. n : h[f[i]] = g[i]}
<1> HIDE DEF t, n, f, g
<1>7. 0 \in S
  <2>1. h[<< >>] = << >>
    BY DEF IsHom
  <2>2. h[f[0]] = g[0]
    BY <1>3, <1>4, <2>1
  <2> QED
    BY <1>1, <2>2
<1>8. ASSUME NEW i \in 1 .. n, i - 1 \in S PROVE i \in S
  <2>1. i \in 0 .. n /\ i - 1 \in 0 .. n
    BY <1>1
  <2>2. h[f[i - 1]] = g[i - 1] /\ f[i - 1] \in Seq(X) /\ s[i] \in Seq(X)
    BY <1>1, <1>5, <1>8, <2>1
  <2>3. h[f[i - 1] \o s[i]] = h[f[i - 1]] \o h[s[i]]
    BY <2>2 DEF IsHom
  <2>4. f[i] = f[i - 1] \o s[i] /\ g[i] = g[i - 1] \o t[i] /\ t[i] = h[s[i]]
    BY <1>2, <1>3, <1>4
  <2>5. h[f[i]] = g[i]
    BY <2>2, <2>3, <2>4, Zenon
  <2> QED
    BY <2>1, <2>5
<1> HIDE DEF S
<1>9. \A i \in 0 .. n : i \in S
  BY <1>1, <1>7, <1>8, Rounds
<1>10. n \in S
  BY <1>1, <1>9
<1> QED
  BY <1>6, <1>10 DEF S, t

\* The lists of one element each, put together.
LEMMA FlattenSingles ==
    ASSUME NEW X, NEW s \in Seq(X)
    PROVE  Flatten([i \in DOMAIN s |-> <<s[i]>>]) = s
<1> DEFINE t == [i \in DOMAIN s |-> <<s[i]>>]
           n == Len(s)
           f == Concatenations(t)
           S == {i \in 0 .. n : f[i] = SubSeq(s, 1, i)}
<1>1. n \in Nat /\ DOMAIN s = 1 .. n /\ \A i \in 1 .. n : s[i] \in X
  OBVIOUS
<1>2. Len(t) = n /\ Len(t) \in Nat /\ \A i \in 1 .. n : t[i] = <<s[i]>>
  <2>1. t = [i \in 1 .. n |-> <<s[i]>>]
    BY <1>1
  <2> HIDE DEF t, n
  <2> QED
    BY <1>1, <2>1
<1>3. f[0] = << >> /\ \A i \in 1 .. n : f[i] = f[i - 1] \o t[i]
  <2> HIDE DEF t
  <2>1. f[0] = << >> /\ \A i \in 1 .. Len(t) : f[i] = f[i - 1] \o t[i]
    BY <1>2, ConcatenationsUnfold
  <2> QED
    BY <1>2, <2>1
<1>4. Flatten(t) = f[n]
  BY <1>2 DEF Flatten
<1> HIDE DEF t, f
<1>5. 0 \in S
  <2>1. SubSeq(s, 1, 0) = << >> /\ 0 \in 0 .. n
    BY <1>1
  <2> QED
    BY <1>3, <2>1
<1>6. ASSUME NEW i \in 1 .. n, i - 1 \in S PROVE i \in S
  <2>1. i \in 0 .. n /\ f[i - 1] = SubSeq(s, 1, i - 1) /\ 1 \in 1 .. Len(s) /\ i \in 1 .. Len(s)
    BY <1>1, <1>6
  <2>2. SubSeq(s, 1, i) = SubSeq(s, 1, i - 1) \o <<s[i]>>
    BY <2>1, SubSeqRecursiveSecond
  <2>3. f[i] = f[i - 1] \o <<s[i]>>
    BY <1>2, <1>3
  <2>4. f[i] = SubSeq(s, 1, i)
    BY <2>1, <2>2, <2>3, Zenon
  <2> QED
    BY <2>1, <2>4
<1> HIDE DEF S
<1>7. \A i \in 0 .. n : i \in S
  BY <1>1, <1>5, <1>6, Rounds
<1>8. n \in S
  BY <1>1, <1>7
<1>9. SubSeq(s, 1, n) = s
  BY SubSeqFull
<1> QED
  BY <1>4, <1>8, <1>9 DEF S, t

\* What h makes of a list, element by element.
LEMMA HomElements ==
    ASSUME NEW X, NEW Y, NEW h, IsHom(h, X, Y), NEW s \in Seq(X)
    PROVE  h[s] = Flatten([i \in DOMAIN s |-> h[<<s[i]>>]])
<1> DEFINE t == [i \in DOMAIN s |-> <<s[i]>>]
<1>1. t \in Seq(Seq(X)) /\ DOMAIN t = DOMAIN s /\ \A i \in DOMAIN s : t[i] = <<s[i]>>
  <2>1. DOMAIN s = 1 .. Len(s) /\ Len(s) \in Nat /\ \A i \in 1 .. Len(s) : <<s[i]>> \in Seq(X)
    OBVIOUS
  <2>2. t = [i \in 1 .. Len(s) |-> <<s[i]>>]
    BY <2>1
  <2> HIDE DEF t
  <2>3. t \in [1 .. Len(s) -> Seq(X)]
    BY <2>1, <2>2
  <2> QED
    BY <2>1, <2>2, <2>3
<1>2. Flatten(t) = s
  BY FlattenSingles
<1> HIDE DEF t
<1>3. h[Flatten(t)] = Flatten([i \in DOMAIN t |-> h[t[i]]])
  BY <1>1, HomFlatten
<1>4. [i \in DOMAIN t |-> h[t[i]]] = [i \in DOMAIN s |-> h[<<s[i]>>]]
  BY <1>1
<1> QED
  BY <1>2, <1>3, <1>4

\* Two such functions that agree on single elements agree.
LEMMA HomsAgree ==
    ASSUME NEW X, NEW Y, NEW g, NEW h, IsHom(g, X, Y), IsHom(h, X, Y),
           \A x \in X : g[<<x>>] = h[<<x>>]
    PROVE  \A s \in Seq(X) : g[s] = h[s]
<1> SUFFICES ASSUME NEW s \in Seq(X)
             PROVE  g[s] = h[s]
  OBVIOUS
<1>1. g[s] = Flatten([i \in DOMAIN s |-> g[<<s[i]>>]]) /\ h[s] = Flatten([i \in DOMAIN s |-> h[<<s[i]>>]])
  BY HomElements
<1>2. \A i \in DOMAIN s : s[i] \in X
  OBVIOUS
<1>3. [i \in DOMAIN s |-> g[<<s[i]>>]] = [i \in DOMAIN s |-> h[<<s[i]>>]]
  BY <1>2
<1> QED
  BY <1>1, <1>3

\* A list converted piece by piece: if h sees no difference in any piece, it sees none.
LEMMA HomConverts ==
    ASSUME NEW X, NEW Y, NEW Z, NEW g, NEW h, IsHom(g, Z, Y), IsHom(h, X, Y),
           NEW s \in Seq(Seq(X)), NEW r \in Seq(Z), SeenAlike(h, s, g, r)
    PROVE  h[Flatten(s)] = g[r]
<1>1. h[Flatten(s)] = Flatten([i \in DOMAIN s |-> h[s[i]]])
  BY HomFlatten
<1>2. g[r] = Flatten([i \in DOMAIN r |-> g[<<r[i]>>]])
  BY ONLY IsHom(g, Z, Y), r \in Seq(Z), HomElements
<1>3. [i \in DOMAIN s |-> h[s[i]]] = [i \in DOMAIN r |-> g[<<r[i]>>]]
  BY DEF SeenAlike
<1> QED
  BY <1>1, <1>2, <1>3

\* A list of one element.
LEMMA SingleType ==
    ASSUME NEW X, NEW x \in X
    PROVE  <<x>> \in Seq(X)
OBVIOUS

\* A list is empty if it has no element.
LEMMA EmptyDomain ==
    ASSUME NEW X, NEW s \in Seq(X)
    PROVE  s = << >> <=> DOMAIN s = {}
<1>1. DOMAIN s = 1 .. Len(s) /\ Len(s) \in Nat
  OBVIOUS
<1>2. s # << >> => Len(s) # 0
  BY EmptySeq
<1>3. Len(s) # 0 => 1 \in DOMAIN s
  BY <1>1
<1>4. DOMAIN << >> = {}
  OBVIOUS
<1> QED
  BY <1>2, <1>3, <1>4

\* The elements of one list after those of another.
LEMMA ConcatIs ==
    ASSUME NEW X, NEW p \in Seq(X), NEW q \in Seq(X), NEW r \in Seq(X), IsConcat(r, p, q)
    PROVE  r = p \o q
<1>0. /\ Len(r) = Len(p) + Len(q)
      /\ \A i \in 1 .. Len(p) : r[i] = p[i]
      /\ \A i \in 1 .. Len(q) : r[Len(p) + i] = q[i]
  BY DEF IsConcat
<1> DEFINE s == p \o q
<1>1. s \in Seq(X) /\ Len(s) = Len(p) + Len(q) /\ Len(p) \in Nat /\ Len(q) \in Nat
  OBVIOUS
<1>2. \A i \in 1 .. Len(s) : r[i] = s[i]
  <2> SUFFICES ASSUME NEW i \in 1 .. Len(s)
               PROVE  r[i] = s[i]
    OBVIOUS
  <2>1. CASE i <= Len(p)
    BY <1>0, <1>1, <2>1
  <2>2. CASE i > Len(p)
    <3> DEFINE j == i - Len(p)
    <3>1. j \in 1 .. Len(q) /\ i = Len(p) + j
      BY <1>1, <2>2
    <3> HIDE DEF j
    <3>2. s[Len(p) + j] = q[j]
      BY <3>1
    <3> QED
      BY <1>0, <3>1, <3>2
  <2> QED
    BY <1>1, <2>1, <2>2
<1> HIDE DEF s
<1>3. r = s
  BY <1>0, <1>1, <1>2, SeqEqual
<1> QED
  BY <1>3 DEF s

\* A loop over a list makes of each element what it makes of it alone.
LEMMA MapHom ==
    ASSUME NEW X, NEW Y, NEW F \in [X -> Seq(Y)]
    PROVE  IsHom(MapOf(F, X), X, Y) /\ \A x \in X : MapOf(F, X)[<<x>>] = F[x]
<1> DEFINE M(s) == [i \in DOMAIN s |-> F[s[i]]]
           h == MapOf(F, X)
<1>1. ASSUME NEW s \in Seq(X) PROVE M(s) \in Seq(Seq(Y)) /\ Len(M(s)) = Len(s)
  <2>1. DOMAIN s = 1 .. Len(s) /\ Len(s) \in Nat /\ \A i \in 1 .. Len(s) : F[s[i]] \in Seq(Y)
    OBVIOUS
  <2>2. M(s) = [i \in 1 .. Len(s) |-> F[s[i]]]
    BY <2>1
  <2> HIDE DEF M
  <2>3. M(s) \in [1 .. Len(s) -> Seq(Y)]
    BY <2>1, <2>2
  <2> QED
    BY <2>1, <2>2, <2>3
<1>2. \A s \in Seq(X) : h[s] = Flatten(M(s))
  BY DEF MapOf, Mapped
<1>3. h \in [Seq(X) -> Seq(Y)]
  <2>1. \A s \in Seq(X) : Flatten(M(s)) \in Seq(Y)
    <3> HIDE DEF M
    <3> QED
      BY <1>1, FlattenType
  <2>2. h = [s \in Seq(X) |-> Flatten(M(s))]
    BY DEF MapOf, Mapped
  <2> HIDE DEF h, M
  <2> QED
    BY <2>1, <2>2
<1>4. h[<< >>] = << >>
  <2>1. M(<< >>) = << >> /\ << >> \in Seq(X)
    OBVIOUS
  <2>2. Flatten(<< >>) = << >>
    <3>1. << >> \in Seq(X)
      OBVIOUS
    <3> QED
      BY <3>1, FlattenOne
  <2> HIDE DEF h, M
  <2> QED
    BY <1>2, <2>1, <2>2
<1>5. ASSUME NEW a \in Seq(X), NEW b \in Seq(X) PROVE h[a \o b] = h[a] \o h[b]
  <2>1. M(a \o b) = M(a) \o M(b)
    <3>1. M(a) \in Seq(Seq(Y)) /\ Len(M(a)) = Len(a) /\ M(b) \in Seq(Seq(Y)) /\ Len(M(b)) = Len(b)
      BY <1>1
    <3>2. /\ M(a \o b) = [i \in 1 .. (Len(a) + Len(b)) |-> F[(a \o b)[i]]]
          /\ \A i \in 1 .. Len(a) : M(a)[i] = F[a[i]]
          /\ \A i \in 1 .. Len(b) : M(b)[i] = F[b[i]]
      OBVIOUS
    <3> DEFINE p == M(a)
               q == M(b)
               r == M(a \o b)
    <3>3. a \o b \in Seq(X) /\ Len(a \o b) = Len(a) + Len(b) /\ Len(a) \in Nat /\ Len(b) \in Nat
      OBVIOUS
    <3>4. r \in Seq(Seq(Y)) /\ Len(r) = Len(a) + Len(b)
      <4>1. r \in Seq(Seq(Y)) /\ Len(r) = Len(a \o b)
        BY <1>1, <3>3
      <4> QED
        BY <3>3, <4>1
    <3>5. \A i \in 1 .. Len(a) : r[i] = p[i]
      <4>1. \A i \in 1 .. Len(a) : (a \o b)[i] = a[i] /\ i \in 1 .. (Len(a) + Len(b))
        OBVIOUS
      <4> HIDE DEF M
      <4> QED
        BY <3>2, <4>1
    <3>6. \A i \in 1 .. Len(b) : r[Len(a) + i] = q[i]
      <4>1. \A i \in 1 .. Len(b) : (a \o b)[Len(a) + i] = b[i] /\ Len(a) + i \in 1 .. (Len(a) + Len(b))
        OBVIOUS
      <4> HIDE DEF M
      <4> QED
        BY <3>2, <4>1
    <3>7. p \in Seq(Seq(Y)) /\ Len(p) = Len(a) /\ q \in Seq(Seq(Y)) /\ Len(q) = Len(b)
      BY <3>1
    <3> HIDE DEF p, q, r, M
    <3>8. r = p \o q
      <4>1. p \in Seq(Seq(Y)) /\ q \in Seq(Seq(Y)) /\ r \in Seq(Seq(Y)) /\ Len(r) = Len(p) + Len(q)
        BY <3>4, <3>7
      <4>2. (\A i \in 1 .. Len(p) : r[i] = p[i]) /\ (\A i \in 1 .. Len(q) : r[Len(p) + i] = q[i])
        BY <3>5, <3>6, <3>7
      <4> DEFINE Z == Seq(Y)
      <4>3. p \in Seq(Z) /\ q \in Seq(Z) /\ r \in Seq(Z)
        BY <4>1
      <4> HIDE DEF Z
      <4>4. IsConcat(r, p, q)
        BY <4>1, <4>2 DEF IsConcat
      <4> QED
        BY <4>3, <4>4, ConcatIs
    <3> QED
      BY <3>8 DEF p, q, r
  <2>2. a \o b \in Seq(X)
    BY ConcatProperties
  <2>3. Flatten(M(a) \o M(b)) = Flatten(M(a)) \o Flatten(M(b))
    <3>1. M(a) \in Seq(Seq(Y)) /\ M(b) \in Seq(Seq(Y))
      BY <1>1
    <3> HIDE DEF M
    <3> QED
      BY <3>1, FlattenConcat
  <2> HIDE DEF h, M
  <2> QED
    BY <1>2, <2>1, <2>2, <2>3
<1>6. ASSUME NEW x \in X PROVE h[<<x>>] = F[x]
  <2>1. M(<<x>>) = <<F[x]>> /\ <<x>> \in Seq(X)
    OBVIOUS
  <2>2. Flatten(<<F[x]>>) = F[x]
    <3>1. F[x] \in Seq(Y)
      OBVIOUS
    <3> QED
      BY <3>1, FlattenOne
  <2> HIDE DEF h, M
  <2> QED
    BY <1>2, <2>1, <2>2
<1> HIDE DEF h
<1>7. IsHom(h, X, Y)
  BY <1>3, <1>4, <1>5 DEF IsHom
<1> QED
  BY <1>6, <1>7 DEF h

\* A filter looks at each element alone.
LEMMA FilterHom ==
    ASSUME NEW X, NEW S
    PROVE  /\ IsHom(FilterOf(S, X), X, X)
           /\ \A x \in X : FilterOf(S, X)[<<x>>] = One(S, x)
<1> DEFINE F == [x \in X |-> One(S, x)]
<1>1. F \in [X -> Seq(X)]
  BY DEF One
<1>2. \A x \in X : F[x] = One(S, x)
  OBVIOUS
<1>3. MapOf(F, X) = FilterOf(S, X)
  <2>1. \A s \in Seq(X) : Mapped(F, s) = Filter(s, S)
    <3> SUFFICES ASSUME NEW s \in Seq(X)
                 PROVE  Mapped(F, s) = Filter(s, S)
      OBVIOUS
    <3>1. \A i \in DOMAIN s : F[s[i]] = IF s[i] \in S THEN <<s[i]>> ELSE << >>
      BY DEF One
    <3> HIDE DEF F
    <3>2. [i \in DOMAIN s |-> F[s[i]]] = [i \in DOMAIN s |-> IF s[i] \in S THEN <<s[i]>> ELSE << >>]
      BY <3>1
    <3> QED
      BY <3>2 DEF Mapped, Filter
  <2> HIDE DEF F
  <2> QED
    BY <2>1 DEF MapOf, FilterOf
<1> HIDE DEF F
<1>4. IsHom(MapOf(F, X), X, X) /\ \A x \in X : MapOf(F, X)[<<x>>] = F[x]
  BY <1>1, MapHom
<1> QED
  BY <1>2, <1>3, <1>4

\* A filter of two lists, of one element, of none.
LEMMA FilterParts ==
    ASSUME NEW X, NEW S
    PROVE  /\ \A s \in Seq(X) : Filter(s, S) \in Seq(X)
           /\ \A s, t \in Seq(X) : Filter(s \o t, S) = Filter(s, S) \o Filter(t, S)
           /\ \A x \in X : Filter(<<x>>, S) = One(S, x)
           /\ Filter(<< >>, S) = << >>
<1> DEFINE h == FilterOf(S, X)
<1>1. IsHom(h, X, X) /\ \A x \in X : h[<<x>>] = One(S, x)
  BY FilterHom
<1>2. \A s \in Seq(X) : h[s] = Filter(s, S)
  BY DEF FilterOf
<1>3. /\ << >> \in Seq(X)
      /\ \A s, t \in Seq(X) : s \o t \in Seq(X)
      /\ \A x \in X : <<x>> \in Seq(X)
  OBVIOUS
<1> HIDE DEF h
<1>4. \A s \in Seq(X) : Filter(s, S) \in Seq(X)
  BY <1>1, <1>2 DEF IsHom
<1>5. \A s, t \in Seq(X) : Filter(s \o t, S) = Filter(s, S) \o Filter(t, S)
  BY <1>1, <1>2, <1>3 DEF IsHom
<1>6. \A x \in X : Filter(<<x>>, S) = One(S, x)
  BY <1>1, <1>2, <1>3
<1>7. Filter(<< >>, S) = << >>
  BY <1>1, <1>2, <1>3 DEF IsHom
<1> QED
  BY <1>4, <1>5, <1>6, <1>7

\* A filter is about the elements of the list only.
LEMMA FilterAgree ==
    ASSUME NEW s, NEW S, NEW T, Agree(s, S, T)
    PROVE  Filter(s, S) = Filter(s, T)
<1> DEFINE f == [i \in DOMAIN s |-> IF s[i] \in S THEN <<s[i]>> ELSE << >>]
           g == [i \in DOMAIN s |-> IF s[i] \in T THEN <<s[i]>> ELSE << >>]
<1>1. f = g
  BY DEF Agree
<1>2. Filter(s, S) = Flatten(f) /\ Filter(s, T) = Flatten(g)
  BY DEF Filter
<1> HIDE DEF f, g
<1> QED
  BY <1>1, <1>2

\* Two filters after each other.
LEMMA FilterTwice ==
    ASSUME NEW X, NEW S, NEW T
    PROVE  \A s \in Seq(X) : Filter(Filter(s, S), T) = Filter(s, S \cap T)
<1> DEFINE g == [s \in Seq(X) |-> Filter(Filter(s, S), T)]
           h == FilterOf(S \cap T, X)
<1>1. IsHom(h, X, X) /\ \A x \in X : h[<<x>>] = One(S \cap T, x)
  BY FilterHom
<1>2. /\ << >> \in Seq(X)
      /\ \A s, t \in Seq(X) : s \o t \in Seq(X)
      /\ \A x \in X : <<x>> \in Seq(X)
  OBVIOUS
<1>3. /\ \A s \in Seq(X) : Filter(s, S) \in Seq(X)
      /\ \A s, t \in Seq(X) : Filter(s \o t, S) = Filter(s, S) \o Filter(t, S)
      /\ \A x \in X : Filter(<<x>>, S) = One(S, x)
      /\ Filter(<< >>, S) = << >>
  BY FilterParts
<1>4. /\ \A s \in Seq(X) : Filter(s, T) \in Seq(X)
      /\ \A s, t \in Seq(X) : Filter(s \o t, T) = Filter(s, T) \o Filter(t, T)
      /\ \A x \in X : Filter(<<x>>, T) = One(T, x)
      /\ Filter(<< >>, T) = << >>
  BY FilterParts
<1>5. IsHom(g, X, X)
  <2>1. g \in [Seq(X) -> Seq(X)]
    BY <1>3, <1>4
  <2>2. g[<< >>] = << >>
    BY <1>2, <1>3, <1>4
  <2>3. ASSUME NEW a \in Seq(X), NEW b \in Seq(X) PROVE g[a \o b] = g[a] \o g[b]
    <3>1. Filter(a, S) \in Seq(X) /\ Filter(b, S) \in Seq(X) /\ Filter(a \o b, S) = Filter(a, S) \o Filter(b, S)
      BY <1>3
    <3>2. Filter(Filter(a, S) \o Filter(b, S), T) = Filter(Filter(a, S), T) \o Filter(Filter(b, S), T)
      BY <1>4, <3>1
    <3>3. g[a \o b] = Filter(Filter(a \o b, S), T)
      BY <1>2
    <3> QED
      BY <3>1, <3>2, <3>3
  <2> HIDE DEF g
  <2> QED
    BY <2>1, <2>2, <2>3 DEF IsHom
<1>6. \A x \in X : g[<<x>>] = h[<<x>>]
  <2> SUFFICES ASSUME NEW x \in X
               PROVE  Filter(Filter(<<x>>, S), T) = One(S \cap T, x)
    BY <1>1, <1>2
  <2>1. Filter(<<x>>, S) = One(S, x)
    BY <1>3
  <2>2. CASE x \in S
    BY <1>4, <2>1, <2>2 DEF One
  <2>3. CASE x \notin S
    BY <1>4, <2>1, <2>3 DEF One
  <2> QED
    BY <2>2, <2>3
<1>7. (\A s \in Seq(X) : g[s] = Filter(Filter(s, S), T)) /\ (\A s \in Seq(X) : h[s] = Filter(s, S \cap T))
  BY DEF FilterOf
<1> HIDE DEF g, h
<1>8. \A s \in Seq(X) : g[s] = h[s]
  BY <1>1, <1>5, <1>6, HomsAgree
<1> QED
  BY <1>7, <1>8

\* A filter that keeps nothing, and one that keeps everything.
LEMMA FilterNone ==
    ASSUME NEW X, NEW s \in Seq(X), NEW S, Agree(s, S, {})
    PROVE  Filter(s, S) = << >>
<1> DEFINE g == [t \in Seq(X) |-> << >>]
           h == FilterOf({}, X)
<1>1. IsHom(h, X, X) /\ \A x \in X : h[<<x>>] = One({}, x)
  BY FilterHom
<1>2. IsHom(g, X, X) /\ \A x \in X : g[<<x>>] = One({}, x)
  <2>1. \A a, b \in Seq(X) : a \o b \in Seq(X)
    OBVIOUS
  <2>2. << >> \o << >> = << >>
    OBVIOUS
  <2> QED
    BY <2>1, <2>2 DEF IsHom, One
<1>3. h[s] = Filter(s, {}) /\ g[s] = << >>
  BY DEF FilterOf
<1> HIDE DEF g, h
<1>4. g[s] = h[s]
  BY <1>1, <1>2, HomsAgree
<1> QED
  BY <1>3, <1>4, FilterAgree

\* The elements of two lists.
LEMMA ConcatElements ==
    ASSUME NEW X, NEW s \in Seq(X), NEW t \in Seq(X)
    PROVE  ToSet(s \o t) = ToSet(s) \cup ToSet(t)
<1> DEFINE r == s \o t
<1>1. /\ Len(r) = Len(s) + Len(t) /\ Len(s) \in Nat /\ Len(t) \in Nat
      /\ DOMAIN r = 1 .. Len(r) /\ DOMAIN s = 1 .. Len(s) /\ DOMAIN t = 1 .. Len(t)
      /\ \A i \in 1 .. Len(s) : r[i] = s[i]
      /\ \A i \in 1 .. Len(t) : r[Len(s) + i] = t[i]
  OBVIOUS
<1> HIDE DEF r
<1>2. ASSUME NEW x \in ToSet(r) PROVE x \in ToSet(s) \cup ToSet(t)
  <2>1. PICK i \in 1 .. Len(r) : r[i] = x
    BY <1>1 DEF ToSet
  <2>2. CASE i <= Len(s)
    BY <1>1, <2>1, <2>2 DEF ToSet
  <2>3. CASE i > Len(s)
    <3> DEFINE j == i - Len(s)
    <3>1. j \in 1 .. Len(t) /\ i = Len(s) + j
      BY <1>1, <2>3
    <3> HIDE DEF j
    <3>2. x = t[j]
      BY <1>1, <2>1, <3>1
    <3> QED
      BY <1>1, <3>1, <3>2 DEF ToSet
  <2> QED
    BY <1>1, <2>2, <2>3
<1>3. ASSUME NEW x \in ToSet(s) PROVE x \in ToSet(r)
  <2>1. PICK i \in 1 .. Len(s) : s[i] = x
    BY <1>1 DEF ToSet
  <2>2. i \in 1 .. Len(r) /\ r[i] = x
    BY <1>1, <2>1
  <2> QED
    BY <1>1, <2>2 DEF ToSet
<1>4. ASSUME NEW x \in ToSet(t) PROVE x \in ToSet(r)
  <2>1. PICK i \in 1 .. Len(t) : t[i] = x
    BY <1>1 DEF ToSet
  <2>2. Len(s) + i \in 1 .. Len(r) /\ r[Len(s) + i] = x
    BY <1>1, <2>1
  <2> QED
    BY <1>1, <2>2 DEF ToSet
<1> QED
  BY <1>2, <1>3, <1>4 DEF r

\* The elements of all the lists.
LEMMA FlattenElements ==
    ASSUME NEW X, NEW s \in Seq(Seq(X))
    PROVE  ToSet(Flatten(s)) = UNION {ToSet(s[i]) : i \in DOMAIN s}
<1> DEFINE f == Concatenations(s)
           n == Len(s)
           U(k) == UNION {ToSet(s[i]) : i \in 1 .. k}
           S == {k \in 0 .. n : ToSet(f[k]) = U(k)}
<1>1. n \in Nat /\ DOMAIN s = 1 .. n /\ \A i \in 1 .. n : s[i] \in Seq(X)
  OBVIOUS
<1>2. f[0] = << >> /\ \A i \in 1 .. n : f[i] = f[i - 1] \o s[i]
  BY <1>1, ConcatenationsUnfold
<1>3. \A i \in 0 .. n : f[i] \in Seq(X)
  BY ConcatenationsType
<1>4. Flatten(s) = f[n]
  BY DEF Flatten
<1> HIDE DEF f, n
<1>5. 0 \in S
  <2>1. ToSet(<< >>) = {} /\ 1 .. 0 = {}
    BY DEF ToSet
  <2> QED
    BY <1>1, <1>2, <2>1
<1>6. ASSUME NEW i \in 1 .. n, i - 1 \in S PROVE i \in S
  <2>1. i \in 0 .. n /\ i - 1 \in 0 .. n /\ 1 .. i = (1 .. (i - 1)) \cup {i}
    BY <1>1
  <2>2. f[i - 1] \in Seq(X) /\ s[i] \in Seq(X) /\ f[i] = f[i - 1] \o s[i]
    BY <1>1, <1>2, <1>3, <2>1
  <2> DEFINE a == f[i - 1]
             b == s[i]
  <2>3. ToSet(a \o b) = ToSet(a) \cup ToSet(b)
    <3>1. a \in Seq(X) /\ b \in Seq(X)
      BY <2>2
    <3> HIDE DEF a, b
    <3> QED
      BY <3>1, ConcatElements
  <2>4. ToSet(f[i]) = U(i - 1) \cup ToSet(s[i])
    BY <1>6, <2>2, <2>3
  <2>5. U(i) = U(i - 1) \cup ToSet(s[i])
    BY <2>1
  <2> QED
    BY <2>1, <2>4, <2>5
<1> HIDE DEF S
<1>7. \A i \in 0 .. n : i \in S
  BY <1>1, <1>5, <1>6, Rounds
<1>8. n \in S
  BY <1>1, <1>7
<1> QED
  BY <1>1, <1>4, <1>8 DEF S

\* What a filter keeps.
LEMMA FilterElements ==
    ASSUME NEW X, NEW s \in Seq(X), NEW S
    PROVE  ToSet(Filter(s, S)) = ToSet(s) \cap S
<1> DEFINE t == [i \in DOMAIN s |-> IF s[i] \in S THEN <<s[i]>> ELSE << >>]
<1>1. t \in Seq(Seq(X)) /\ DOMAIN t = DOMAIN s
  <2>1. DOMAIN s = 1 .. Len(s) /\ Len(s) \in Nat
    OBVIOUS
  <2>2. \A i \in 1 .. Len(s) : (IF s[i] \in S THEN <<s[i]>> ELSE << >>) \in Seq(X)
    OBVIOUS
  <2>3. t = [i \in 1 .. Len(s) |-> IF s[i] \in S THEN <<s[i]>> ELSE << >>]
    BY <2>1
  <2> HIDE DEF t
  <2>4. t \in [1 .. Len(s) -> Seq(X)]
    BY <2>2, <2>3
  <2> QED
    BY <2>1, <2>3, <2>4
<1>2. \A i \in DOMAIN s : ToSet(t[i]) = IF s[i] \in S THEN {s[i]} ELSE {}
  BY DEF ToSet
<1>3. Filter(s, S) = Flatten(t)
  BY DEF Filter
<1> HIDE DEF t
<1>4. ToSet(Flatten(t)) = UNION {ToSet(t[i]) : i \in DOMAIN t}
  BY <1>1, FlattenElements
<1>5. ToSet(Flatten(t)) = UNION {IF s[i] \in S THEN {s[i]} ELSE {} : i \in DOMAIN s}
  BY <1>1, <1>2, <1>4
<1>6. UNION {IF s[i] \in S THEN {s[i]} ELSE {} : i \in DOMAIN s} = {s[i] : i \in DOMAIN s} \cap S
  OBVIOUS
<1> QED
  BY <1>3, <1>5, <1>6 DEF ToSet

\* If the conversion of all succeeds, that of each does, and the values are put together.
LEMMA AllOk ==
    ASSUME NEW r, NEW n \in Nat, DOMAIN r = 1 .. n, All(r).ok, \A i \in 1 .. n : r[i].ok \in BOOLEAN
    PROVE  (\A i \in 1 .. n : r[i].ok) /\ All(r).value = Flatten([i \in 1 .. n |-> r[i].value])
<1> DEFINE failed == {i \in DOMAIN r : ~r[i].ok}
<1>1. CASE failed = {}
  <2>1. \A i \in DOMAIN r : r[i].ok
    BY <1>1
  <2> QED
    BY <2>1 DEF All, Ok
<1>2. CASE failed # {}
  <2>1. PICK k \in failed : \A y \in failed : k <= y
    <3>1. failed \subseteq Nat
      OBVIOUS
    <3> HIDE DEF failed
    <3> QED
      BY <1>2, <3>1, Least
  <2>2. Min(failed) \in failed
    <3> HIDE DEF failed
    <3> QED
      BY <2>1 DEF Min
  <2>3. ~All(r).ok
    BY <1>2, <2>2 DEF All, First
  <2> QED
    BY <2>3
<1> QED
  BY <1>1, <1>2

-----------------------------------------------------------------------------
(***************************************************************************)
(* What is said in a conversation                                           *)
(***************************************************************************)
\* The blocks of some types.
LEMMA OfTypeIs ==
    ASSUME NEW content \in Seq(Blocks), NEW types
    PROVE  /\ OfType(content, types) = Filter(content, BlocksOf(types))
           /\ OfType(content, types) \in Seq(Blocks)
           /\ ToSet(OfType(content, types)) = {b \in ToSet(content) : b.type \in types}
<1>1. Agree(content, {b \in ToSet(content) : b.type \in types}, BlocksOf(types))
  <2>1. \A i \in DOMAIN content : content[i] \in Blocks /\ content[i] \in ToSet(content)
    BY DEF ToSet
  <2>2. \A b \in Blocks : b \in BlocksOf(types) <=> b.type \in types
    BY DEF Blocks, BlocksOf
  <2> QED
    BY <2>1, <2>2 DEF Agree
<1>2. OfType(content, types) = Filter(content, BlocksOf(types))
  BY <1>1, FilterAgree DEF OfType
<1>3. OfType(content, types) \in Seq(Blocks)
  BY <1>2, FilterParts
<1>4. ToSet(OfType(content, types)) = ToSet(content) \cap {b \in ToSet(content) : b.type \in types}
  BY FilterElements DEF OfType
<1> QED
  BY <1>2, <1>3, <1>4

\* What is said in two contents, in one block, in none.
LEMMA SayParts ==
    ASSUME NEW type, NEW c
    PROVE  /\ \A s \in Seq(Blocks) : Say(s, type, c) \in Seq(Blocks)
           /\ \A s, t \in Seq(Blocks) : Say(s \o t, type, c) = Say(s, type, c) \o Say(t, type, c)
           /\ \A b \in Blocks : Say(<<b>>, type, c) = One(Sayable(type, c), b)
           /\ Say(<< >>, type, c) = << >>
<1> DEFINE S == Sayable(type, c)
<1> HIDE DEF S
<1>1. /\ \A s \in Seq(Blocks) : Filter(s, S) \in Seq(Blocks)
      /\ \A s, t \in Seq(Blocks) : Filter(s \o t, S) = Filter(s, S) \o Filter(t, S)
      /\ \A x \in Blocks : Filter(<<x>>, S) = One(S, x)
      /\ Filter(<< >>, S) = << >>
  BY FilterParts
<1> QED
  BY <1>1 DEF Say, S

\* What is said in the blocks of some types.
LEMMA SayOfType ==
    ASSUME NEW content \in Seq(Blocks), NEW types, NEW type, NEW c
    PROVE  Say(OfType(content, types), type, c) = IF type \in types THEN Say(content, type, c) ELSE << >>
<1> DEFINE S == Sayable(type, c)
           T == BlocksOf(types)
<1>1. Filter(Filter(content, T), S) = Filter(content, T \cap S)
  <2> HIDE DEF S, T
  <2> QED
    BY FilterTwice
<1>2. Say(OfType(content, types), type, c) = Filter(content, T \cap S)
  BY <1>1, OfTypeIs DEF Say
<1>3. \A i \in DOMAIN content : content[i] \in Blocks
  OBVIOUS
<1>4. CASE type \in types
  <2>1. Agree(content, T \cap S, S)
    BY <1>3, <1>4 DEF Agree, Blocks, BlocksOf, Sayable
  <2> HIDE DEF S, T
  <2>2. Filter(content, T \cap S) = Filter(content, S)
    BY <2>1, FilterAgree
  <2> QED
    BY <1>2, <1>4, <2>2 DEF Say, S
<1>5. CASE type \notin types
  <2>1. Agree(content, T \cap S, {})
    BY <1>3, <1>5 DEF Agree, Blocks, BlocksOf, Sayable
  <2> HIDE DEF S, T
  <2>2. Filter(content, T \cap S) = << >>
    BY <2>1, FilterNone
  <2> QED
    BY <1>2, <1>5, <2>2
<1> QED
  BY <1>4, <1>5

\* Nothing is said of a type that is not there.
LEMMA SayNone ==
    ASSUME NEW content \in Seq(Blocks), NEW types, NEW type \in types, NEW c, ~Has(content, types)
    PROVE  Say(content, type, c) = << >>
<1> DEFINE S == Sayable(type, c)
<1>1. Agree(content, S, {})
  BY DEF Agree, Has, Sayable
<1> HIDE DEF S
<1>2. Filter(content, S) = << >>
  BY <1>1, FilterNone
<1> QED
  BY <1>2 DEF Say, S

\* What a speaker says in a message.
LEMMA SaidInIs ==
    ASSUME NEW m \in WireMessages, NEW role, NEW type, NEW c
    PROVE  SaidIn(m, role, type, c) = IF Speaker(m.role) = role THEN Say(m.content, type, c) ELSE << >>
<1> DEFINE content == m.content
<1>0. content \in Seq(Blocks)
  BY DEF WireMessages, Messages
<1> HIDE DEF content
<1>1. Agree(content, Sayings(content, type, c), Sayable(type, c))
  <2>1. \A i \in DOMAIN content : content[i] \in Blocks /\ content[i] \in ToSet(content)
    BY <1>0 DEF ToSet
  <2> QED
    BY <2>1 DEF Agree, Sayings, Sayable
<1>2. Filter(content, Sayings(content, type, c)) = Filter(content, Sayable(type, c))
  BY <1>1, FilterAgree
<1> QED
  BY <1>2 DEF SaidIn, Say, content

\* What is said in a conversation is what is said in its messages.
LEMMA SaidHom ==
    ASSUME NEW role, NEW type, NEW c
    PROVE  /\ IsHom(SaidOf(role, type, c), WireMessages, Blocks)
           /\ \A m \in WireMessages : SaidOf(role, type, c)[<<m>>] = SaidIn(m, role, type, c)
<1> DEFINE F == [m \in WireMessages |-> SaidIn(m, role, type, c)]
<1>1. F \in [WireMessages -> Seq(Blocks)]
  <2>1. ASSUME NEW m \in WireMessages PROVE SaidIn(m, role, type, c) \in Seq(Blocks)
    <3>1. m.content \in Seq(Blocks)
      BY DEF WireMessages, Messages
    <3>2. Say(m.content, type, c) \in Seq(Blocks)
      BY <3>1, SayParts
    <3>3. SaidIn(m, role, type, c) = IF Speaker(m.role) = role THEN Say(m.content, type, c) ELSE << >>
      BY SaidInIs
    <3>4. << >> \in Seq(Blocks)
      OBVIOUS
    <3> QED
      BY <3>2, <3>3, <3>4
  <2> QED
    BY <2>1
<1>2. \A m \in WireMessages : F[m] = SaidIn(m, role, type, c)
  OBVIOUS
<1> HIDE DEF F
<1>3. MapOf(F, WireMessages) = SaidOf(role, type, c)
  <2>1. ASSUME NEW s \in Seq(WireMessages) PROVE Mapped(F, s) = Said(s, role, type, c)
    <3>1. \A i \in DOMAIN s : s[i] \in WireMessages
      OBVIOUS
    <3>2. [i \in DOMAIN s |-> F[s[i]]] = [i \in DOMAIN s |-> SaidIn(s[i], role, type, c)]
      BY <1>2, <3>1
    <3> QED
      BY <3>2 DEF Mapped, Said
  <2> QED
    BY <2>1 DEF MapOf, SaidOf
<1>4. IsHom(MapOf(F, WireMessages), WireMessages, Blocks) /\ \A m \in WireMessages : MapOf(F, WireMessages)[<<m>>] = F[m]
  BY <1>1, MapHom
<1> QED
  BY <1>2, <1>3, <1>4

\* What a list of blocks says is a list of blocks.
LEMMA SayType ==
    ASSUME NEW s \in Seq(Blocks), NEW type, NEW c
    PROVE  Say(s, type, c) \in Seq(Blocks)
BY SayParts

\* Two lists say what the first says and then what the second says.
LEMMA SayConcat ==
    ASSUME NEW s \in Seq(Blocks), NEW t \in Seq(Blocks), NEW type, NEW c
    PROVE  Say(s \o t, type, c) = Say(s, type, c) \o Say(t, type, c)
BY SayParts

\* A block is said if it is of the type and not added by the gateway.
LEMMA SayOne ==
    ASSUME NEW b \in Blocks, NEW type, NEW c
    PROVE  Say(<<b>>, type, c) = One(Sayable(type, c), b)
BY SayParts

\* An empty list says nothing.
LEMMA SayNothing ==
    ASSUME NEW type, NEW c
    PROVE  Say(<< >>, type, c) = << >>
BY SayParts

\* What is said in two parts of a conversation, in one message, in none.
LEMMA SaidType ==
    ASSUME NEW s \in Seq(WireMessages), NEW role, NEW type, NEW c
    PROVE  Said(s, role, type, c) \in Seq(Blocks)
BY SaidHom DEF IsHom, SaidOf

\* Two conversations say what the first says and then what the second says.
LEMMA SaidConcat ==
    ASSUME NEW s \in Seq(WireMessages), NEW t \in Seq(WireMessages), NEW role, NEW type, NEW c
    PROVE  Said(s \o t, role, type, c) = Said(s, role, type, c) \o Said(t, role, type, c)
<1> DEFINE h == SaidOf(role, type, c)
<1>1. s \o t \in Seq(WireMessages)
  OBVIOUS
<1>2. IsHom(h, WireMessages, Blocks)
  BY SaidHom
<1>3. \A u \in Seq(WireMessages) : h[u] = Said(u, role, type, c)
  BY DEF SaidOf
<1> HIDE DEF h
<1>4. h[s \o t] = h[s] \o h[t]
  BY <1>2 DEF IsHom
<1> QED
  BY <1>1, <1>3, <1>4

\* A message says its content, under its own role.
LEMMA SaidOne ==
    ASSUME NEW m \in WireMessages, NEW role, NEW type, NEW c
    PROVE  Said(<<m>>, role, type, c) = IF Speaker(m.role) = role THEN Say(m.content, type, c) ELSE << >>
<1>1. <<m>> \in Seq(WireMessages)
  OBVIOUS
<1>2. SaidOf(role, type, c)[<<m>>] = SaidIn(m, role, type, c)
  BY SaidHom
<1>3. SaidOf(role, type, c)[<<m>>] = Said(<<m>>, role, type, c)
  BY <1>1 DEF SaidOf
<1>4. SaidIn(m, role, type, c) = IF Speaker(m.role) = role THEN Say(m.content, type, c) ELSE << >>
  BY SaidInIs
<1> QED
  BY <1>2, <1>3, <1>4

\* An empty conversation says nothing.
LEMMA SaidNothing ==
    ASSUME NEW role, NEW type, NEW c
    PROVE  Said(<< >>, role, type, c) = << >>
<1>1. << >> \in Seq(WireMessages)
  OBVIOUS
<1>2. SaidOf(role, type, c)[<< >>] = << >>
  BY SaidHom DEF IsHom
<1>3. SaidOf(role, type, c)[<< >>] = Said(<< >>, role, type, c)
  BY <1>1 DEF SaidOf
<1> QED
  BY <1>2, <1>3

\* Messages converted one by one: what is said in each is what is said in all.
LEMMA SaidConverted ==
    ASSUME NEW role, NEW type, NEW c, NEW ms \in Seq(WireMessages), NEW v \in Seq(Seq(WireMessages)),
           DOMAIN v = DOMAIN ms, \A i \in DOMAIN ms : Said(v[i], role, type, c) = Said(<<ms[i]>>, role, type, c)
    PROVE  Said(Flatten(v), role, type, c) = Said(ms, role, type, c)
<1> DEFINE h == SaidOf(role, type, c)
<1>1. IsHom(h, WireMessages, Blocks)
  BY SaidHom
<1>2. \A s \in Seq(WireMessages) : h[s] = Said(s, role, type, c)
  BY DEF SaidOf
<1>3. Flatten(v) \in Seq(WireMessages)
  BY FlattenType
<1>4. \A i \in DOMAIN ms : v[i] \in Seq(WireMessages) /\ <<ms[i]>> \in Seq(WireMessages)
  OBVIOUS
<1> HIDE DEF h
<1>5. SeenAlike(h, v, h, ms)
  BY <1>2, <1>4 DEF SeenAlike
<1>6. h[Flatten(v)] = h[ms]
  BY <1>1, <1>5, HomConverts
<1> QED
  BY <1>2, <1>3, <1>6

\* A message, left out if it is empty.
LEMMA NonEmptyIs ==
    ASSUME NEW content \in Seq(Blocks), NEW r \in {"user", "assistant", "tool", "system"}
    PROVE  /\ NonEmpty(r, content) \in Seq(WireMessages)
           /\ \A role, type, c : Said(NonEmpty(r, content), role, type, c) =
                  IF Speaker(r) = role THEN Say(content, type, c) ELSE << >>
<1> DEFINE m == Message(r, content)
<1>1. m \in WireMessages /\ m.role = r /\ m.content = content
  BY DEF WireMessages, Messages, Message
<1>2. NonEmpty(r, content) = IF content = << >> THEN << >> ELSE <<m>>
  BY DEF NonEmpty
<1> HIDE DEF m
<1>3. NonEmpty(r, content) \in Seq(WireMessages)
  BY <1>1, <1>2
<1>4. ASSUME NEW role, NEW type, NEW c
      PROVE  Said(NonEmpty(r, content), role, type, c) = IF Speaker(r) = role THEN Say(content, type, c) ELSE << >>
  <2>1. /\ Said(<<m>>, role, type, c) = IF Speaker(m.role) = role THEN Say(m.content, type, c) ELSE << >>
        /\ Said(<< >>, role, type, c) = << >>
    BY <1>1, SaidOne, SaidNothing
  <2>2. Say(<< >>, type, c) = << >>
    BY SayNothing
  <2> QED
    BY <1>1, <1>2, <2>1, <2>2
<1> QED
  BY <1>3, <1>4

\* Nobody else speaks.
LEMMA SaidByOthers ==
    ASSUME NEW ms \in Seq(WireMessages), NEW role, NEW type, NEW c, \A i \in DOMAIN ms : Speaker(ms[i].role) # role
    PROVE  Said(ms, role, type, c) = << >>
<1>1. \A i \in DOMAIN ms : SaidIn(ms[i], role, type, c) = << >>
  BY DEF SaidIn
<1>2. Said(ms, role, type, c) = Flatten([i \in DOMAIN ms |-> << >>])
  BY <1>1 DEF Said
<1>3. Filter(ms, {}) = Flatten([i \in DOMAIN ms |-> << >>])
  BY DEF Filter
<1>4. Filter(ms, {}) = << >>
  <2>1. Agree(ms, {}, {})
    BY DEF Agree
  <2> QED
    BY <2>1, FilterNone
<1> QED
  BY <1>2, <1>3, <1>4

\* The results, each a message of its own, are the user's.
LEMMA ToolMessagesAre ==
    ASSUME NEW content \in Seq(Blocks)
    PROVE  /\ ToolMessages(content) \in Seq(WireMessages)
           /\ \A i \in DOMAIN ToolMessages(content) : ToolMessages(content)[i].role = "tool"
           /\ ToolMessages(content) # << >> <=> Has(content, {"tool_result"})
           /\ \A role \in Speakers : \A type, c : Said(ToolMessages(content), role, type, c) =
                  IF role = "user" /\ type = "tool_result" THEN Say(content, type, c) ELSE << >>
<1> DEFINE results == OfType(content, {"tool_result"})
           v == ToolMessages(content)
<1>1. results \in Seq(Blocks) /\ ToSet(results) = {b \in ToSet(content) : b.type \in {"tool_result"}}
  BY OfTypeIs
<1>2. v = [i \in DOMAIN results |-> Message("tool", <<results[i]>>)]
  BY DEF ToolMessages
<1>3. \A role, type, c : Say(results, type, c) = IF type \in {"tool_result"} THEN Say(content, type, c) ELSE << >>
  BY SayOfType
<1> HIDE DEF results, v
<1>4. \A i \in DOMAIN results : Message("tool", <<results[i]>>) \in WireMessages
  <2>1. \A i \in DOMAIN results : <<results[i]>> \in Seq(Blocks)
    BY <1>1
  <2> QED
    BY <2>1 DEF WireMessages, Messages, Message
<1>5. v \in Seq(WireMessages) /\ DOMAIN v = DOMAIN results
  <2>1. DOMAIN results = 1 .. Len(results) /\ Len(results) \in Nat
    BY <1>1
  <2>2. v \in [1 .. Len(results) -> WireMessages]
    BY <1>2, <1>4, <2>1
  <2> QED
    BY <2>1, <2>2
<1>6. \A i \in DOMAIN v : v[i].role = "tool" /\ v[i].content = <<results[i]>>
  BY <1>2, <1>5 DEF Message
<1>7. v # << >> <=> Has(content, {"tool_result"})
  <2>1. v # << >> <=> DOMAIN results # {}
    <3>1. v # << >> <=> DOMAIN v # {}
      BY <1>5, EmptyDomain
    <3> QED
      BY <1>5, <3>1
  <2>2. DOMAIN results # {} <=> ToSet(results) # {}
    BY DEF ToSet
  <2>3. ToSet(results) # {} <=> Has(content, {"tool_result"})
    BY <1>1 DEF ToSet, Has
  <2> QED
    BY <2>1, <2>2, <2>3
<1>8. ASSUME NEW type, NEW c PROVE Said(v, "user", type, c) = Say(results, type, c)
  <2> DEFINE S == Sayable(type, c)
             h == FilterOf(S, Blocks)
  <2>1. \A i \in DOMAIN v : SaidIn(v[i], "user", type, c) = Filter(<<results[i]>>, S)
    <3> SUFFICES ASSUME NEW i \in DOMAIN v
                 PROVE  SaidIn(v[i], "user", type, c) = Filter(<<results[i]>>, S)
      OBVIOUS
    <3>1. v[i] \in WireMessages
      BY <1>5
    <3>2. SaidIn(v[i], "user", type, c) = IF Speaker(v[i].role) = "user" THEN Say(v[i].content, type, c) ELSE << >>
      BY <3>1, SaidInIs
    <3> QED
      BY <1>6, <3>2 DEF Speaker, Say
  <2>2. Said(v, "user", type, c) = Flatten([i \in DOMAIN results |-> Filter(<<results[i]>>, S)])
    <3>1. [i \in DOMAIN v |-> SaidIn(v[i], "user", type, c)] = [i \in DOMAIN results |-> Filter(<<results[i]>>, S)]
      BY <1>5, <2>1
    <3> QED
      BY <3>1 DEF Said
  <2>3. \A s \in Seq(Blocks) : h[s] = Filter(s, S)
    BY DEF FilterOf
  <2>4. IsHom(h, Blocks, Blocks)
    BY FilterHom
  <2> HIDE DEF S, h
  <2>5. h[results] = Flatten([i \in DOMAIN results |-> h[<<results[i]>>]])
    BY <1>1, <2>4, HomElements
  <2>6. [i \in DOMAIN results |-> h[<<results[i]>>]] = [i \in DOMAIN results |-> Filter(<<results[i]>>, S)]
    <3>1. \A i \in DOMAIN results : <<results[i]>> \in Seq(Blocks)
      BY <1>1
    <3> QED
      BY <2>3, <3>1
  <2> QED
    BY <1>1, <2>2, <2>3, <2>5, <2>6 DEF Say, S
<1>9. ASSUME NEW type, NEW c PROVE Said(v, "assistant", type, c) = << >>
  <2>1. \A i \in DOMAIN v : Speaker(v[i].role) # "assistant"
    BY <1>6 DEF Speaker
  <2> QED
    BY <1>5, <2>1, SaidByOthers
<1>10. \A role \in Speakers : \A type, c : Said(v, role, type, c) =
          IF role = "user" /\ type = "tool_result" THEN Say(content, type, c) ELSE << >>
  BY <1>3, <1>8, <1>9 DEF Speakers
<1> QED
  BY <1>5, <1>6, <1>7, <1>10 DEF v

-----------------------------------------------------------------------------
(***************************************************************************)
(* The conversion of a message for the providers that speak OpenAI's API    *)
(***************************************************************************)
\* Sorting a content into its texts (or images, files) and then its calls says the same,
\* type by type.
LEMMA SplitKeeps ==
    ASSUME NEW content \in Seq(Blocks), NEW P, P \subseteq Carried \ {"tool_call"},
           ~Has(content, Carried \ (P \cup {"tool_call"}))
    PROVE  /\ Split(content, P) \in Seq(Blocks)
           /\ \A type \in Carried : \A c : Say(Split(content, P), type, c) = Say(content, type, c)
           /\ ToSet(Split(content, P)) = {b \in ToSet(content) : b.type \in P \cup {"tool_call"}}
<1> DEFINE a == OfType(content, P)
           b == OfType(content, {"tool_call"})
<1>1. a \in Seq(Blocks) /\ ToSet(a) = {x \in ToSet(content) : x.type \in P}
  BY OfTypeIs
<1>2. b \in Seq(Blocks) /\ ToSet(b) = {x \in ToSet(content) : x.type \in {"tool_call"}}
  BY OfTypeIs
<1>3. \A type, c : Say(a, type, c) = IF type \in P THEN Say(content, type, c) ELSE << >>
  BY SayOfType
<1>4. \A type, c : Say(b, type, c) = IF type \in {"tool_call"} THEN Say(content, type, c) ELSE << >>
  BY SayOfType
<1>5. Split(content, P) = a \o b
  BY DEF Split
<1> HIDE DEF a, b
<1>6. a \o b \in Seq(Blocks) /\ ToSet(a \o b) = ToSet(a) \cup ToSet(b)
  BY <1>1, <1>2, ConcatElements, ConcatProperties
<1>7. ASSUME NEW type \in Carried, NEW c PROVE Say(a \o b, type, c) = Say(content, type, c)
  <2>1. Say(a \o b, type, c) = Say(a, type, c) \o Say(b, type, c)
    BY <1>1, <1>2, SayConcat
  <2>2. Say(content, type, c) \in Seq(Blocks)
    BY SayType
  <2> DEFINE said == Say(content, type, c)
  <2>3. << >> \o said = said /\ said \o << >> = said /\ << >> \o << >> = << >>
    BY <2>2
  <2>4. CASE type \in P
    <3>1. Say(a, type, c) = said /\ Say(b, type, c) = << >>
      BY <1>3, <1>4, <2>4
    <3> QED
      BY <2>1, <2>3, <3>1
  <2>5. CASE type = "tool_call"
    <3>1. Say(a, type, c) = << >> /\ Say(b, type, c) = said
      BY <1>3, <1>4, <2>5
    <3> QED
      BY <2>1, <2>3, <3>1
  <2>6. CASE type \notin P /\ type # "tool_call"
    <3>1. Say(a, type, c) = << >> /\ Say(b, type, c) = << >>
      BY <1>3, <1>4, <2>6
    <3>2. type \in Carried \ (P \cup {"tool_call"})
      BY <2>6
    <3>3. said = << >>
      BY <3>2, SayNone
    <3> QED
      BY <2>1, <2>3, <3>1, <3>3
  <2> QED
    BY <2>4, <2>5, <2>6
<1> QED
  BY <1>1, <1>2, <1>5, <1>6, <1>7

\* The same, as a message of the assistant.
LEMMA AssistantConverted ==
    ASSUME NEW m \in Messages({"assistant"}), NEW c, NEW v, NEW P, P \subseteq Carried \ {"tool_call"},
           ~Has(m.content, Carried \ (P \cup {"tool_call"})),
           \/ v = NonEmpty("assistant", Split(m.content, P))
           \/ v = <<Message("assistant", Split(m.content, P))>>
    PROVE  Converted(m, v, c)
<1> DEFINE content == m.content
           a == Split(content, P)
           w == Message("assistant", a)
<1>1. content \in Seq(Blocks) /\ m \in WireMessages /\ m.role = "assistant"
  BY DEF Messages, WireMessages
<1>2. /\ a \in Seq(Blocks)
      /\ \A type \in Carried : Say(a, type, c) = Say(content, type, c)
      /\ ToSet(a) = {b \in ToSet(content) : b.type \in P \cup {"tool_call"}}
  BY <1>1, SplitKeeps
<1>3. v = NonEmpty("assistant", a) \/ v = <<w>>
  OBVIOUS
<1>4. v \in Seq(ChatMessages) /\ w.content = a /\ w.role = "assistant" /\ w \in WireMessages
  <2> HIDE DEF a
  <2>1. w \in ChatMessages /\ w \in WireMessages /\ w.content = a /\ w.role = "assistant"
    BY <1>2 DEF ChatMessages, WireMessages, Messages, Message
  <2>2. v = << >> \/ v = <<w>>
    BY <1>3 DEF NonEmpty
  <2> HIDE DEF w
  <2>3. << >> \in Seq(ChatMessages) /\ <<w>> \in Seq(ChatMessages)
    BY <2>1
  <2> QED
    BY <2>1, <2>2, <2>3
<1>5. v = << >> \/ v = <<w>>
  BY <1>3 DEF NonEmpty
<1>6. a # << >> => v = <<w>>
  BY <1>3 DEF NonEmpty
<1> HIDE DEF a, w
<1>7. Carries(v, <<m>>, c)
  <2> SUFFICES ASSUME NEW role \in Speakers, NEW type \in Carried
               PROVE  Said(v, role, type, c) = Said(<<m>>, role, type, c)
    BY DEF Carries, SaidAlike
  <2>1. Said(<<m>>, role, type, c) = IF Speaker(m.role) = role THEN Say(content, type, c) ELSE << >>
    BY <1>1, SaidOne
  <2>2. Said(<<w>>, role, type, c) = IF Speaker(w.role) = role THEN Say(w.content, type, c) ELSE << >>
    BY <1>4, SaidOne
  <2>3. Said(<< >>, role, type, c) = << >> /\ Say(<< >>, type, c) = << >>
    BY SaidNothing, SayNothing
  <2>4. Said(<<w>>, role, type, c) = Said(<<m>>, role, type, c)
    BY <1>1, <1>2, <1>4, <2>1, <2>2
  <2>5. CASE v = <<w>>
    BY <2>4, <2>5
  <2>6. CASE v = << >>
    <3>1. a = << >>
      BY <1>6, <2>6
    <3>2. Say(content, type, c) = << >>
      BY <1>2, <2>3, <3>1
    <3> QED
      BY <2>1, <2>3, <2>6, <3>2
  <2> QED
    BY <1>5, <2>5, <2>6
<1>8. Has(content, {"tool_call"}) => Has(a, {"tool_call"}) /\ a # << >>
  <2> SUFFICES ASSUME Has(content, {"tool_call"})
               PROVE  Has(a, {"tool_call"}) /\ a # << >>
    OBVIOUS
  <2>1. PICK i \in DOMAIN content : content[i].type = "tool_call"
    BY DEF Has
  <2>2. content[i] \in ToSet(a)
    BY <1>2, <2>1 DEF ToSet
  <2>3. PICK j \in DOMAIN a : a[j] = content[i]
    BY <2>2 DEF ToSet
  <2> QED
    BY <2>1, <2>3 DEF Has
<1>9. Orderly(m, v)
  <2>1. \A i \in DOMAIN v : i = 1 /\ v[1] = w
    BY <1>5
  <2>2. v # << >> => v = <<w>> /\ v[1] = w /\ v[Len(v)] = w
    BY <1>5
  <2>3. Expects(m) => v = <<w>> /\ Answerable(w)
    BY <1>1, <1>4, <1>6, <1>8 DEF Expects, Answerable
  <2>4. Expects(m) => v # << >> /\ Answerable(v[Len(v)])
    BY <2>2, <2>3
  <2> QED
    BY <1>4, <2>1, <2>2, <2>4 DEF Orderly
<1> QED
  BY <1>4, <1>7, <1>9 DEF Converted

\* The user's results go first, each a message of its own, so that they follow the call.
LEMMA UserConverted ==
    ASSUME NEW m \in Messages({"user"}), NEW c, OpenAIUser(m.content).ok
    PROVE  Converted(m, OpenAIUser(m.content).value, c)
<1> DEFINE content == m.content
           P == {"text", "image", "file", "unknown"}
           x == OfType(content, P)
           a == ToolMessages(content)
           b == NonEmpty("user", x)
           v == a \o b
<1>1. content \in Seq(Blocks) /\ m \in WireMessages /\ m.role = "user"
  BY DEF Messages, WireMessages
<1>2. ~Has(content, {"tool_call"}) /\ OpenAIUser(content).value = v
  BY DEF OpenAIUser, Refused, Failed, Ok
<1>3. x \in Seq(Blocks) /\ ToSet(x) = {y \in ToSet(content) : y.type \in P}
  BY <1>1, OfTypeIs
<1>4. \A type : Say(x, type, c) = IF type \in P THEN Say(content, type, c) ELSE << >>
  BY <1>1, SayOfType
<1>5. /\ a \in Seq(WireMessages)
      /\ \A i \in DOMAIN a : a[i].role = "tool"
      /\ a # << >> <=> Has(content, {"tool_result"})
      /\ \A role \in Speakers : \A type : Said(a, role, type, c) =
             IF role = "user" /\ type = "tool_result" THEN Say(content, type, c) ELSE << >>
  BY <1>1, ToolMessagesAre
<1> HIDE DEF x, a
<1>6. /\ b \in Seq(WireMessages)
      /\ \A role, type : Said(b, role, type, c) = IF Speaker("user") = role THEN Say(x, type, c) ELSE << >>
  BY <1>3, NonEmptyIs
<1>7. /\ b = << >> \/ (Len(b) = 1 /\ b[1].role = "user")
      /\ x = << >> => b = << >>
  BY DEF NonEmpty, Message
<1> HIDE DEF b
<1>8. /\ v \in Seq(WireMessages) /\ Len(v) = Len(a) + Len(b) /\ Len(a) \in Nat /\ Len(b) \in Nat /\ Len(b) <= 1
      /\ DOMAIN v = 1 .. Len(v) /\ DOMAIN a = 1 .. Len(a)
      /\ \A i \in 1 .. Len(a) : v[i] = a[i]
      /\ Len(b) = 1 => v[Len(a) + 1] = b[1] /\ b[1].role = "user"
  <2>1. Len(b) \in Nat /\ Len(b) <= 1
    <3>1. CASE b = << >>
      BY <3>1
    <3>2. CASE Len(b) = 1
      BY <3>2
    <3> QED
      BY <1>7, <3>1, <3>2
  <2>2. v \in Seq(WireMessages) /\ Len(v) = Len(a) + Len(b)
    BY <1>5, <1>6, ConcatProperties
  <2>3. Len(b) = 1 => v[Len(a) + 1] = b[1]
    BY <1>5, <1>6
  <2>6. Len(b) = 1 => b[1].role = "user"
    BY <1>7
  <2>4. \A i \in 1 .. Len(a) : v[i] = a[i]
    BY <1>5, <1>6
  <2>5. Len(a) \in Nat /\ DOMAIN a = 1 .. Len(a)
    BY <1>5
  <2> HIDE DEF v
  <2> QED
    BY <2>1, <2>2, <2>3, <2>4, <2>5, <2>6
<1>9. Carries(v, <<m>>, c)
  <2> SUFFICES ASSUME NEW role \in Speakers, NEW type \in Carried
               PROVE  Said(v, role, type, c) = Said(<<m>>, role, type, c)
    BY DEF Carries, SaidAlike
  <2> DEFINE said == Say(content, type, c)
  <2>1. Said(<<m>>, role, type, c) = IF Speaker(m.role) = role THEN said ELSE << >>
    BY <1>1, SaidOne
  <2>2. Said(v, role, type, c) = Said(a, role, type, c) \o Said(b, role, type, c)
    BY <1>5, <1>6, SaidConcat
  <2>3. said \in Seq(Blocks)
    BY <1>1, SayType
  <2>4. << >> \o said = said /\ said \o << >> = said /\ << >> \o << >> = << >>
    BY <2>3
  <2>5. type = "tool_call" => said = << >>
    BY <1>1, <1>2, SayNone
  <2>6. Said(a, role, type, c) = IF role = "user" /\ type = "tool_result" THEN said ELSE << >>
    BY <1>5
  <2>7. Said(b, role, type, c) = IF role = "user" /\ type \in P THEN said ELSE << >>
    BY <1>4, <1>6 DEF Speaker
  <2> HIDE DEF said
  <2>8. CASE role # "user"
    BY <1>1, <2>1, <2>2, <2>4, <2>6, <2>7, <2>8 DEF Speaker
  <2>9. CASE role = "user" /\ type = "tool_result"
    BY <1>1, <2>1, <2>2, <2>4, <2>6, <2>7, <2>9 DEF Speaker
  <2>10. CASE role = "user" /\ type \in P
    BY <1>1, <2>1, <2>2, <2>4, <2>6, <2>7, <2>10 DEF Speaker
  <2>11. CASE role = "user" /\ type = "tool_call"
    BY <1>1, <2>1, <2>2, <2>4, <2>5, <2>6, <2>7, <2>11 DEF Speaker
  <2> QED
    BY <2>8, <2>9, <2>10, <2>11 DEF Carried
<1> HIDE DEF v
<1>10. v \in Seq(ChatMessages)
  <2>1. \A i \in 1 .. Len(v) : v[i] \in ChatMessages
    <3> SUFFICES ASSUME NEW i \in 1 .. Len(v)
                 PROVE  v[i] \in ChatMessages
      OBVIOUS
    <3>1. v[i] \in WireMessages
      BY <1>8
    <3>2. v[i].role \in {"tool", "user"}
      <4>1. CASE i <= Len(a)
        BY <1>5, <1>8, <4>1
      <4>2. CASE i > Len(a)
        <5>0. i \in 1 .. (Len(a) + Len(b))
          BY <1>8
        <5>1. i = Len(a) + 1 /\ Len(b) = 1
          <6> DEFINE k == Len(a)
                     n == Len(b)
          <6>1. k \in Nat /\ n \in Nat /\ n <= 1 /\ i \in 1 .. (k + n) /\ i > k
            BY <1>8, <4>2, <5>0
          <6> HIDE DEF k, n
          <6>2. i = k + 1 /\ n = 1
            BY ONLY <6>1
          <6> QED
            BY <6>2 DEF k, n
        <5>2. v[Len(a) + 1] = b[1] /\ b[1].role = "user"
          BY <1>8, <5>1
        <5> QED
          BY <5>1, <5>2
      <4> QED
        BY <1>8, <4>1, <4>2
    <3> QED
      BY <3>1, <3>2 DEF ChatMessages, WireMessages, Messages
  <2> QED
    BY <1>8, <2>1
<1>11. Orderly(m, v)
  <2>1. ASSUME NEW i \in DOMAIN v, i > 1, v[i].role = "tool" PROVE Answerable(v[i - 1])
    <3>1. i - 1 \in 1 .. Len(a)
      <4>1. i \in 1 .. (Len(a) + Len(b))
        BY <1>8
      <4>2. CASE i = Len(a) + 1
        BY <1>8, <2>1, <4>1, <4>2
      <4> QED
        BY <1>8, <2>1, <4>1, <4>2
    <3> DEFINE j == i - 1
    <3>2. j \in 1 .. Len(a)
      BY <3>1
    <3> HIDE DEF j
    <3>3. v[j] = a[j] /\ a[j].role = "tool"
      BY <1>5, <1>8, <3>2
    <3> QED
      BY <3>3 DEF Answerable, j
  <2>2. ASSUME v # << >>, v[1].role = "tool" PROVE m.role = "user" /\ Has(content, {"tool_result"})
    <3>1. Len(v) # 0
      BY <1>8, <2>2
    <3>2. CASE Len(a) = 0
      BY <1>7, <1>8, <2>2, <3>1, <3>2
    <3>3. CASE Len(a) # 0
      BY <1>1, <1>5, <3>3
    <3> QED
      BY <3>2, <3>3
  <2>3. ASSUME Expects(m) PROVE v # << >> /\ Answerable(v[Len(v)])
    <3>1. content # << >> /\ \A j \in DOMAIN content : content[j].type = "tool_result"
      BY <1>2, <2>3 DEF Expects
    <3>2. ToSet(x) = {}
      BY <1>3, <3>1 DEF ToSet
    <3>3. x = << >>
      <4>1. DOMAIN x = {}
        BY <3>2 DEF ToSet
      <4> QED
        BY <1>3, <4>1, EmptyDomain
    <3>4. Len(b) = 0
      BY <1>7, <3>3
    <3>5. a # << >>
      <4>1. DOMAIN content # {}
        BY <1>1, <3>1, EmptyDomain
      <4>2. Has(content, {"tool_result"})
        BY <3>1, <4>1 DEF Has
      <4> QED
        BY <1>5, <4>2
    <3>6. Len(a) \in 1 .. Len(a) /\ Len(v) = Len(a)
      BY <1>5, <1>8, <3>4, <3>5
    <3> QED
      BY <1>5, <1>8, <3>6 DEF Answerable
  <2> QED
    BY <2>1, <2>2, <2>3 DEF Orderly
<1> QED
  BY <1>2, <1>9, <1>10, <1>11 DEF Converted

\* OpenAI's conversion of a message, Groq's and OpenRouter's.
LEMMA OpenAIConverted ==
    ASSUME NEW m \in Messages(Speakers), NEW c, OpenAIMessages(m).ok
    PROVE  Converted(m, OpenAIMessages(m).value, c)
<1>1. CASE m.role = "user"
  <2>1. OpenAIMessages(m) = OpenAIUser(m.content) /\ m \in Messages({"user"})
    BY <1>1 DEF OpenAIMessages, Messages
  <2> QED
    BY <2>1, UserConverted
<1>2. CASE m.role = "assistant"
  <2> DEFINE P == {"text", "image", "unknown"}
             x == Split(m.content, P)
  <2>1. m \in Messages({"assistant"}) /\ P \subseteq Carried \ {"tool_call"}
    BY <1>2 DEF Messages, Carried
  <2>2. Carried \ (P \cup {"tool_call"}) = {"tool_result", "file"}
    BY DEF Carried
  <2>3. ~Has(m.content, {"tool_result", "file"}) /\ OpenAIMessages(m).value = NonEmpty("assistant", x)
    BY <1>2 DEF OpenAIMessages, OpenAIAssistant, Refused, Failed, Ok, Split
  <2> HIDE DEF P
  <2> QED
    BY <2>1, <2>2, <2>3, AssistantConverted
<1> QED
  BY <1>1, <1>2 DEF Messages, Speakers

\* OpenRouter's conversion of a message (openrouter.rs, tensorzero_to_openrouter_messages)
\* keeps what it says.
LEMMA OpenRouterConverted ==
    ASSUME NEW m \in Messages(Speakers), NEW c, OpenRouterMessage(m).ok
    PROVE  Converted(m, OpenRouterMessage(m).value, c)
<1>1. OpenAIMessages(m).ok /\ OpenRouterMessage(m) = OpenAIMessages(m)
  BY DEF OpenRouterMessage, OpenRouterUser, OpenRouterAssistant, OpenAIMessages, Refused, Failed
<1> QED
  BY <1>1, OpenAIConverted

\* Groq's conversion of a message (groq.rs, tensorzero_to_groq_messages) keeps what it says.
LEMMA GroqConverted ==
    ASSUME NEW m \in Messages(Speakers), NEW c, GroqMessage(m).ok
    PROVE  Converted(m, GroqMessage(m).value, c)
<1>1. CASE m.role = "user"
  <2>1. GroqMessage(m) = OpenAIUser(m.content) /\ m \in Messages({"user"})
    BY <1>1 DEF GroqMessage, GroqUser, Messages
  <2> QED
    BY <2>1, UserConverted
<1>2. CASE m.role = "assistant"
  <2> DEFINE P == {"text", "image", "file", "unknown"}
             x == Split(m.content, P)
  <2>1. m \in Messages({"assistant"}) /\ P \subseteq Carried \ {"tool_call"}
    BY <1>2 DEF Messages, Carried
  <2>2. Carried \ (P \cup {"tool_call"}) = {"tool_result"}
    BY DEF Carried
  <2>3. ~Has(m.content, {"tool_result"}) /\ GroqMessage(m).value = <<Message("assistant", x)>>
    BY <1>2 DEF GroqMessage, GroqAssistant, Refused, Failed, Ok, Split
  <2> HIDE DEF P
  <2> QED
    BY <2>1, <2>2, <2>3, AssistantConverted
<1> QED
  BY <1>1, <1>2 DEF Messages, Speakers

\* Results follow their calls in two parts of a conversation.
LEMMA ToolsFollowConcat ==
    ASSUME NEW X, NEW a \in Seq(X), NEW b \in Seq(X), ToolsFollowOn(a, b)
    PROVE  ToolsFollow(a \o b)
<1> DEFINE v == a \o b
           k == Len(a)
<1>1. /\ k \in Nat /\ Len(b) \in Nat /\ DOMAIN v = 1 .. (k + Len(b))
      /\ DOMAIN a = 1 .. k /\ DOMAIN b = 1 .. Len(b)
      /\ \A i \in 1 .. k : v[i] = a[i]
      /\ \A i \in 1 .. Len(b) : v[k + i] = b[i]
  OBVIOUS
<1>2. a # << >> => k > 0
  <2>1. k = Len(a) /\ (a # << >> => Len(a) \in Nat \ {0})
    BY EmptySeq
  <2> QED
    BY <2>1
<1> HIDE DEF v, k
<1>3. ASSUME NEW i \in DOMAIN v, v[i].role = "tool" PROVE i > 1 /\ Answerable(v[i - 1])
  <2>1. CASE i <= k
    <3>1. i \in 1 .. k /\ a[i].role = "tool"
      <4>1. i \in 1 .. k
        BY <1>1, <2>1
      <4> QED
        BY <1>1, <1>3, <4>1
    <3>2. i > 1 /\ Answerable(a[i - 1])
      <4>1. i \in DOMAIN a
        BY <1>1, <3>1
      <4> QED
        BY <3>1, <4>1 DEF ToolsFollowOn, ToolsFollow
    <3> DEFINE j == i - 1
    <3>3. j \in 1 .. k
      BY <1>1, <3>1, <3>2
    <3> HIDE DEF j
    <3>4. v[j] = a[j]
      BY <1>1, <3>3
    <3> QED
      BY <3>2, <3>4 DEF j
  <2>2. CASE i = k + 1
    <3>1. 1 \in 1 .. Len(b) /\ b[1].role = "tool"
      BY <1>1, <1>3, <2>2
    <3>2. b # << >>
      BY <1>1, <3>1
    <3>3. a # << >> /\ Answerable(a[Len(a)])
      BY <3>1, <3>2 DEF ToolsFollowOn
    <3>4. k > 0 /\ k \in 1 .. k /\ v[k] = a[k]
      BY <1>1, <1>2, <3>3
    <3>5. i - 1 = k
      BY <1>1, <2>2
    <3> QED
      BY <2>2, <3>3, <3>4, <3>5 DEF k
  <2>3. CASE i > k + 1
    <3> DEFINE j == i - k
               l == j - 1
    <3>1. j \in 1 .. Len(b) /\ l \in 1 .. Len(b) /\ i = k + j /\ i - 1 = k + l /\ j > 1 /\ l = j - 1
      <4>1. k \in Nat /\ Len(b) \in Nat /\ i \in 1 .. (k + Len(b)) /\ i > k + 1
        BY <1>1, <2>3
      <4> QED
        BY ONLY <4>1
    <3> HIDE DEF j, l
    <3>2. v[k + j] = b[j] /\ v[k + l] = b[l]
      BY <1>1, <3>1
    <3>3. Answerable(b[j - 1])
      BY <1>1, <1>3, <3>1, <3>2 DEF ToolsFollowOn
    <3>4. i > 1
      BY <1>1, <2>3
    <3> QED
      BY <3>1, <3>2, <3>3, <3>4
  <2> QED
    BY <1>1, <2>1, <2>2, <2>3
<1> QED
  BY <1>3 DEF ToolsFollow, v

\* The conversation: everything is carried, and the results follow their calls.
LEMMA ConversationConverted ==
    ASSUME NEW ms \in Seq(Messages(Speakers)), ResultsFollow(ms), NEW c,
           NEW v \in Seq(Seq(ChatMessages)), EachConverted(ms, v, c)
    PROVE  /\ Flatten(v) \in Seq(ChatMessages)
           /\ Carries(Flatten(v), ms, c)
           /\ ToolsFollow(Flatten(v))
<1> DEFINE n == Len(ms)
           f == Concatenations(v)
           Done(k) == /\ ToolsFollow(f[k])
                      /\ k > 0 /\ Expects(ms[k]) => f[k] # << >> /\ Answerable(f[k][Len(f[k])])
           S == {k \in 0 .. n : Done(k)}
<1>1. n \in Nat /\ DOMAIN ms = 1 .. n /\ \A i \in 1 .. n : ms[i] \in Messages(Speakers)
  OBVIOUS
<1>2. DOMAIN v = 1 .. n /\ \A i \in 1 .. n : Converted(ms[i], v[i], c)
  BY <1>1 DEF EachConverted
<1>3. Len(v) = n /\ Flatten(v) = f[n] /\ \A i \in 1 .. n : v[i] \in Seq(ChatMessages)
  <2>1. DOMAIN v = 1 .. Len(v) /\ Len(v) \in Nat
    OBVIOUS
  <2>2. Len(v) = n
    BY <1>1, <1>2, <2>1
  <2> QED
    BY <1>2, <2>2 DEF Flatten
<1>4. f[0] = << >> /\ \A i \in 1 .. n : f[i] = f[i - 1] \o v[i]
  <2>1. Len(v) \in Nat
    OBVIOUS
  <2>2. f[0] = << >> /\ \A i \in 1 .. Len(v) : f[i] = f[i - 1] \o v[i]
    BY <2>1, ConcatenationsUnfold
  <2> HIDE DEF f, n
  <2> QED
    BY <1>3, <2>2
<1>5. \A i \in 0 .. n : f[i] \in Seq(ChatMessages)
  <2>1. \A k \in 0 .. Len(v) : f[k] \in Seq(ChatMessages)
    BY ConcatenationsType
  <2> QED
    BY <1>3, <2>1
<1>6. Flatten(v) \in Seq(ChatMessages)
  BY FlattenType
<1>7. Carries(Flatten(v), ms, c)
  <2>1. ChatMessages \subseteq WireMessages /\ Messages(Speakers) \subseteq WireMessages
    BY DEF ChatMessages, WireMessages, Messages, Speakers
  <2>2. ms \in Seq(WireMessages)
    BY <2>1, SeqMonotonic
  <2>3. v \in Seq(Seq(WireMessages))
    <3>1. Seq(ChatMessages) \subseteq Seq(WireMessages)
      BY <2>1, SeqMonotonic
    <3> QED
      BY <3>1, SeqMonotonic
  <2> SUFFICES ASSUME NEW role \in Speakers, NEW type \in Carried
               PROVE  Said(Flatten(v), role, type, c) = Said(ms, role, type, c)
    BY DEF Carries, SaidAlike
  <2>4. \A i \in DOMAIN ms : Said(v[i], role, type, c) = Said(<<ms[i]>>, role, type, c)
    BY <1>1, <1>2 DEF Converted, Carries, SaidAlike
  <2>5. DOMAIN v = DOMAIN ms
    BY <1>1, <1>2
  <2> QED
    BY <2>2, <2>3, <2>4, <2>5, SaidConverted
<1> HIDE DEF n, f
<1>8. 0 \in S
  BY <1>1, <1>4 DEF ToolsFollow
<1>9. ASSUME NEW i \in 1 .. n, i - 1 \in S PROVE i \in S
  <2> DEFINE a == f[i - 1]
             b == v[i]
             m == ms[i]
  <2>1. i \in 0 .. n /\ i - 1 \in 0 .. n
    BY <1>1
  <2>2. /\ a \in Seq(ChatMessages) /\ b \in Seq(ChatMessages) /\ f[i] = a \o b
        /\ m \in Messages(Speakers) /\ Orderly(m, b) /\ ToolsFollow(a)
    BY <1>1, <1>2, <1>3, <1>4, <1>5, <1>9, <2>1 DEF Converted
  <2>0. (i - 1 > 0 /\ Expects(ms[i - 1])) => a # << >> /\ Answerable(a[Len(a)])
    <3>1. Done(i - 1)
      BY <1>9
    <3> QED
      BY <3>1, Zenon
  <2>3. b # << >> /\ b[1].role = "tool" => a # << >> /\ Answerable(a[Len(a)])
    <3> SUFFICES ASSUME b # << >>, b[1].role = "tool"
                 PROVE  a # << >> /\ Answerable(a[Len(a)])
      OBVIOUS
    <3>1. m.role = "user" /\ Has(m.content, {"tool_result"})
      BY <2>2 DEF Orderly
    <3>2. /\ i > 1
          /\ \/ Has(ms[i - 1].content, {"tool_call", "tool_call_input"})
             \/ /\ ms[i - 1].role = "user" /\ ms[i - 1].content # <<>>
                /\ \A j \in DOMAIN ms[i - 1].content : ms[i - 1].content[j].type = "tool_result"
      BY <1>1, <3>1 DEF ResultsFollow
    <3>3. i - 1 \in 1 .. n /\ i - 1 > 0
      BY <1>1, <3>2
    <3>4. ms[i - 1].content \in Seq(Blocks)
      BY <1>1, <3>3 DEF Messages
    <3>5. \A j \in DOMAIN ms[i - 1].content : ms[i - 1].content[j].type # "tool_call_input"
      <4>1. \A x \in Blocks : x.type # "tool_call_input"
        BY DEF Blocks, BlocksOf, BlockTypes
      <4>2. \A j \in DOMAIN ms[i - 1].content : ms[i - 1].content[j] \in Blocks
        BY <3>4
      <4> QED
        BY <4>1, <4>2
    <3>6. Expects(ms[i - 1])
      BY <3>2, <3>5 DEF Expects, Has
    <3> QED
      BY <2>0, <3>3, <3>6, Zenon
  <2> HIDE DEF a, b, m
  <2>4. ToolsFollowOn(a, b)
    BY <2>2, <2>3 DEF ToolsFollowOn, Orderly
  <2>5. ToolsFollow(a \o b)
    <3>1. a \in Seq(ChatMessages) /\ b \in Seq(ChatMessages)
      BY <2>2
    <3> QED
      BY ONLY <2>4, <3>1, ToolsFollowConcat
  <2>6. Expects(m) => a \o b # << >> /\ Answerable((a \o b)[Len(a \o b)])
    <3> SUFFICES ASSUME Expects(m)
                 PROVE  a \o b # << >> /\ Answerable((a \o b)[Len(a \o b)])
      OBVIOUS
    <3>1. b # << >> /\ Answerable(b[Len(b)])
      BY <2>2 DEF Orderly
    <3>2. Len(b) \in Nat \ {0}
      BY <2>2, <3>1, EmptySeq
    <3>3. Len(a \o b) = Len(a) + Len(b) /\ Len(a) \in Nat /\ (a \o b)[Len(a) + Len(b)] = b[Len(b)]
      BY <2>2, <3>2
    <3>4. a \o b # << >>
      BY <3>2, <3>3
    <3> QED
      BY <3>1, <3>3, <3>4
  <2> QED
    BY <2>1, <2>2, <2>5, <2>6 DEF m
<1> HIDE DEF S
<1>10. \A i \in 0 .. n : i \in S
  BY <1>1, <1>8, <1>9, Rounds
<1>11. n \in S
  BY <1>1, <1>10
<1> QED
  BY <1>3, <1>6, <1>7, <1>11 DEF S

\* A list is a suffix of what it is put at the end of.
LEMMA SuffixOfConcat ==
    ASSUME NEW X, NEW p \in Seq(X), NEW s \in Seq(X)
    PROVE  IsSuffix(s, p \o s)
<1> DEFINE t == p \o s
           k == Len(p)
           n == Len(s)
           R == Reverse(s)
           Q == Reverse(t)
<1>1. /\ k \in Nat /\ n \in Nat /\ Len(t) = k + n /\ t \in Seq(X)
      /\ \A i \in 1 .. n : t[k + i] = s[i] /\ s[i] \in X
  OBVIOUS
<1> HIDE DEF t, k
<1>2. R = [i \in 1 .. n |-> s[(n - i) + 1]]
  BY DEF Reverse
<1>3. Q = [i \in 1 .. (k + n) |-> t[((k + n) - i) + 1]]
  BY <1>1 DEF Reverse
<1> HIDE DEF n, R, Q
<1>4. \A i \in 1 .. n : R[i] = Q[i] /\ R[i] \in X
  <2> SUFFICES ASSUME NEW i \in 1 .. n
               PROVE  R[i] = Q[i] /\ R[i] \in X
    OBVIOUS
  <2> DEFINE j == (n - i) + 1
  <2>1. j \in 1 .. n /\ ((k + n) - i) + 1 = k + j /\ i \in 1 .. (k + n)
    BY <1>1
  <2> HIDE DEF j
  <2>2. t[k + j] = s[j] /\ s[j] \in X
    BY <1>1, <2>1
  <2>3. Q[i] = t[k + j]
    BY <1>3, <2>1
  <2>4. R[i] = s[j]
    BY <1>2 DEF j
  <2> QED
    BY <2>2, <2>3, <2>4
<1>5. Len(R) = n /\ Len(Q) = k + n
  BY <1>1, <1>2, <1>3
<1> DEFINE a == SubSeq(R, 1, n)
           b == SubSeq(Q, 1, n)
<1>6. a \in Seq(X) /\ Len(a) = n /\ \A i \in 1 .. n : a[i] = R[i]
  <2>1. /\ a \in Seq(X) /\ Len(a) = IF 1 <= n THEN n - 1 + 1 ELSE 0
        /\ \A i \in 1 .. (n - 1 + 1) : a[i] = R[1 + i - 1]
    BY <1>1, <1>4, SubSeqProperties
  <2> HIDE DEF a
  <2> QED
    BY <1>1, <2>1
<1>7. b \in Seq(X) /\ Len(b) = n /\ \A i \in 1 .. n : b[i] = Q[i]
  <2>1. /\ b \in Seq(X) /\ Len(b) = IF 1 <= n THEN n - 1 + 1 ELSE 0
        /\ \A i \in 1 .. (n - 1 + 1) : b[i] = Q[1 + i - 1]
    BY <1>1, <1>4, SubSeqProperties
  <2> HIDE DEF b
  <2> QED
    BY <1>1, <2>1
<1>8. a = b
  <2> HIDE DEF a, b
  <2>1. Len(a) = Len(b) /\ \A i \in 1 .. Len(a) : a[i] = b[i]
    BY <1>4, <1>6, <1>7
  <2> QED
    BY <1>6, <1>7, <2>1, SeqEqual
<1>9. IsPrefix(R, Q)
  BY <1>1, <1>5, <1>8 DEF IsPrefix
<1> QED
  BY <1>9 DEF IsSuffix, R, Q, t

\* A list ends in itself.
LEMMA SuffixOfItself ==
    ASSUME NEW X, NEW s \in Seq(X)
    PROVE  IsSuffix(s, s)
<1>1. << >> \in Seq(X) /\ << >> \o s = s
  OBVIOUS
<1>2. IsSuffix(s, << >> \o s)
  BY <1>1, SuffixOfConcat
<1> QED
  BY <1>1, <1>2

-----------------------------------------------------------------------------
(***************************************************************************)
(* The requests to the providers that speak OpenAI's API                    *)
(***************************************************************************)
\* Messages converted one by one say what the conversation says, and results still follow
\* calls.
LEMMA AllConverted ==
    ASSUME NEW c, Callable(c), NEW r, ConvertsEach(c.messages, r, c), All(r).ok
    PROVE  Prepared(All(r).value, c)
<1> DEFINE ms == c.messages
           n == Len(ms)
           v == [i \in 1 .. n |-> r[i].value]
<1>1. ms \in Seq(Messages(Speakers)) /\ ResultsFollow(ms)
  BY DEF Callable
<1>2. n \in Nat /\ DOMAIN ms = 1 .. n
  BY <1>1
<1>3. DOMAIN r = 1 .. n /\ \A i \in 1 .. n : r[i].ok \in BOOLEAN /\ (r[i].ok => Converted(ms[i], r[i].value, c))
  BY <1>2 DEF ConvertsEach
<1> HIDE DEF ms, n
<1>4. (\A i \in 1 .. n : r[i].ok) /\ All(r).value = Flatten(v)
  BY <1>2, <1>3, AllOk
<1>5. \A i \in 1 .. n : Converted(ms[i], v[i], c)
  BY <1>3, <1>4
<1>6. v \in Seq(Seq(ChatMessages)) /\ DOMAIN v = 1 .. n
  <2>1. \A i \in 1 .. n : v[i] \in Seq(ChatMessages)
    BY <1>5 DEF Converted
  <2> QED
    BY <1>2, <2>1
<1> HIDE DEF v
<1>7. EachConverted(ms, v, c)
  BY <1>2, <1>5, <1>6 DEF EachConverted
<1>8. Flatten(v) \in Seq(ChatMessages) /\ Carries(Flatten(v), ms, c) /\ ToolsFollow(Flatten(v))
  BY <1>1, <1>6, <1>7, ConversationConverted
<1> QED
  BY <1>4, <1>8 DEF Prepared, ms

\* What the gateway puts in front of a conversation says nothing, and holds the system message.
LEMMA PreambleSays ==
    ASSUME NEW c, NEW s, Preamble(s, c)
    PROVE  /\ s \in Seq(WireMessages)
           /\ s # << >> => Len(s) = 1 /\ s[1].role \in {"system", "user"} /\ Len(s[1].content) = 1 /\ s[1].content[1].type = "text"
           /\ \A role \in Speakers, type \in Carried : Said(s, role, type, c) = << >>
           /\ c.system # << >> => s # << >> /\ IsSuffix(c.system, s[1].content[1].body)
<1>1. CASE s = << >>
  <2>1. \A role, type : Said(<< >>, role, type, c) = << >>
    BY SaidNothing
  <2> QED
    BY <1>1, <2>1 DEF Preamble
<1>2. CASE s # << >>
  <2>1. PICK r \in {"system", "user"}, body \in Seq(Words) \cap Injected(c) :
            s = <<Message(r, <<Text(body)>>)>> /\ (c.system # <<>> => IsSuffix(c.system, body))
    BY <1>2 DEF Preamble
  <2> DEFINE b == Text(body)
             m == Message(r, <<b>>)
  <2>2. b \in Blocks /\ b.type = "text" /\ b.body = body
    BY DEF Blocks, BlocksOf, BlockTypes, Text, Block
  <2> HIDE DEF b
  <2>3. m \in WireMessages /\ m.role = r /\ m.content = <<b>>
    BY <2>2 DEF Message, WireMessages, Messages
  <2>4. s = <<m>>
    BY <2>1 DEF b
  <2> HIDE DEF m
  <2>5. ASSUME NEW role \in Speakers, NEW type \in Carried PROVE Said(s, role, type, c) = << >>
    <3>1. Said(<<m>>, role, type, c) = IF Speaker(m.role) = role THEN Say(m.content, type, c) ELSE << >>
      BY <2>3, SaidOne
    <3>2. Say(<<b>>, type, c) = One(Sayable(type, c), b)
      BY <2>2, SayOne
    <3>3. b \notin Sayable(type, c)
      BY <2>1, <2>2 DEF Sayable
    <3> QED
      BY <2>3, <2>4, <3>1, <3>2, <3>3 DEF One
  <2>6. s[1] = m /\ s \in Seq(WireMessages) /\ Len(s) = 1
    BY <2>3, <2>4
  <2>7. m.content[1] = b /\ Len(m.content) = 1
    BY <2>3
  <2> QED
    BY <1>2, <2>1, <2>2, <2>3, <2>5, <2>6, <2>7
<1> QED
  BY <1>1, <1>2

\* A conversation with its preamble.
LEMMA OpenedCarries ==
    ASSUME NEW c, Callable(c), NEW s, NEW v, Preamble(s, c), Prepared(v, c)
    PROVE  /\ s \o v \in Seq(WireMessages)
           /\ Carries(s \o v, c.messages, c)
           /\ ToolsFollow(s \o v)
           /\ c.system # << >> => IsSuffix(c.system, Head(s \o v).content[1].body)
<1>1. /\ s \in Seq(WireMessages)
      /\ s # << >> => Len(s) = 1 /\ s[1].role \in {"system", "user"} /\ Len(s[1].content) = 1 /\ s[1].content[1].type = "text"
      /\ \A role \in Speakers, type \in Carried : Said(s, role, type, c) = << >>
      /\ c.system # << >> => s # << >> /\ IsSuffix(c.system, s[1].content[1].body)
  BY PreambleSays
<1>2. v \in Seq(ChatMessages) /\ Carries(v, c.messages, c) /\ ToolsFollow(v)
  BY DEF Prepared
<1>3. v \in Seq(WireMessages)
  <2>1. ChatMessages \subseteq WireMessages
    BY DEF ChatMessages, WireMessages, Messages
  <2> QED
    BY <1>2, <2>1, SeqMonotonic
<1>4. s \o v \in Seq(WireMessages)
  BY <1>1, <1>3, ConcatProperties
<1>5. Carries(s \o v, c.messages, c)
  <2> SUFFICES ASSUME NEW role \in Speakers, NEW type \in Carried
               PROVE  Said(s \o v, role, type, c) = Said(c.messages, role, type, c)
    BY DEF Carries, SaidAlike
  <2> DEFINE said == Said(v, role, type, c)
  <2>1. Said(s \o v, role, type, c) = Said(s, role, type, c) \o said
    BY <1>1, <1>3, SaidConcat
  <2>2. said \in Seq(Blocks)
    BY <1>3, SaidType
  <2>3. said = Said(c.messages, role, type, c)
    BY <1>2 DEF Carries, SaidAlike
  <2> HIDE DEF said
  <2>4. << >> \o said = said
    BY <2>2
  <2> QED
    BY <1>1, <2>1, <2>3, <2>4
<1>6. ToolsFollow(s \o v)
  <2>1. ToolsFollow(s)
    <3>1. \A i \in DOMAIN s : s[i].role # "tool"
      <4>1. CASE s = << >>
        BY <4>1
      <4>2. CASE s # << >>
        <5>1. DOMAIN s = {1}
          BY <1>1, <4>2
        <5> QED
          BY <1>1, <4>2, <5>1
      <4> QED
        BY <4>1, <4>2
    <3> QED
      BY <3>1 DEF ToolsFollow
  <2>2. v # << >> => v[1].role # "tool"
    <3> SUFFICES ASSUME v # << >>
                 PROVE  v[1].role # "tool"
      OBVIOUS
    <3>1. 1 \in DOMAIN v
      BY <1>2
    <3> QED
      BY <1>2, <3>1 DEF ToolsFollow
  <2>3. ToolsFollowOn(s, v)
    BY <1>2, <2>1, <2>2 DEF ToolsFollowOn, ToolsFollow
  <2> QED
    BY <1>1, <1>3, <2>3, ToolsFollowConcat
<1>7. ASSUME c.system # << >> PROVE IsSuffix(c.system, Head(s \o v).content[1].body)
  <2>1. Head(s \o v) = s[1]
    BY <1>1, <1>3, <1>7
  <2> QED
    BY <1>1, <1>7, <2>1
<1> QED
  BY <1>4, <1>5, <1>6, <1>7

\* JSON is mentioned in one of two parts of a conversation.
LEMMA MentionsParts ==
    ASSUME NEW s \in Seq(WireMessages), NEW v \in Seq(WireMessages)
    PROVE  MentionsJson(s \o v) <=> MentionsJson(s) \/ MentionsJson(v)
<1>1. \A w : MentionsJson(w) <=> \E m \in ToSet(w) : MentionedIn(m)
  BY DEF MentionsJson, MentionedIn, ToSet
<1>2. ToSet(s \o v) = ToSet(s) \cup ToSet(v)
  BY ConcatElements
<1> QED
  BY <1>1, <1>2

\* The system messages are preambles; with JSON mode on, JSON is mentioned.
LEMMA SystemIsPreamble ==
    ASSUME NEW c, Callable(c), NEW v \in Seq(WireMessages)
    PROVE  /\ Preamble(OpenAISystem(c.system, c.json, v), c)
           /\ Preamble(PlainSystem(c.system), c)
           /\ c.json = "on" => MentionsJson(OpenAISystem(c.system, c.json, v) \o v)
<1> DEFINE system == c.system
           hint == <<"json">> \o system
           Of(body) == <<Message("system", <<Text(body)>>)>>
<1>1. /\ system \in Seq(Words) /\ <<"json">> \in Seq(Words) /\ hint \in Seq(Words)
      /\ {<<"json">>, system, hint} \subseteq Injected(c)
  <2>1. system \in Seq(Words) /\ <<"json">> \in Seq(Words)
    <3>1. system \in Seq(Words)
      BY DEF Callable
    <3>2. <<"json">> \in Seq(Words)
      <4>1. "json" \in Words
        BY DEF Words, Written
      <4> QED
        BY <4>1, SingleType, Zenon
    <3> QED
      BY <3>1, <3>2
  <2>2. hint \in Seq(Words)
    BY <2>1, ConcatProperties
  <2> QED
    BY <2>1, <2>2 DEF Injected
<1>2. IsSuffix(system, system) /\ IsSuffix(system, hint)
  BY <1>1, SuffixOfItself, SuffixOfConcat
<1>3. Mentions(<<"json">>) /\ Mentions(hint)
  <2>1. ToSet(hint) = ToSet(<<"json">>) \cup ToSet(system)
    BY <1>1, ConcatElements
  <2>2. "json" \in ToSet(<<"json">>)
    <3>1. 1 \in DOMAIN <<"json">> /\ <<"json">>[1] = "json"
      OBVIOUS
    <3> QED
      BY <3>1 DEF ToSet
  <2> HIDE DEF hint
  <2> QED
    BY <2>1, <2>2 DEF Mentions
<1>4. ASSUME NEW body \in {system, hint} PROVE Preamble(Of(body), c)
  BY <1>1, <1>2 DEF Preamble
<1>5. system = << >> => Preamble(Of(<<"json">>), c) /\ Preamble(<< >>, c)
  BY <1>1 DEF Preamble
<1>6. ASSUME NEW body, Mentions(body) PROVE MentionsJson(Of(body))
  <2> DEFINE b == Text(body)
             m == Message("system", <<b>>)
  <2>1. b.type = "text" /\ b.body = body
    BY DEF Text, Block
  <2> HIDE DEF b
  <2>2. m.content = <<b>> /\ 1 \in DOMAIN <<b>> /\ <<b>>[1] = b
    BY DEF Message
  <2> HIDE DEF m
  <2>3. 1 \in DOMAIN <<m>> /\ <<m>>[1] = m
    OBVIOUS
  <2>4. MentionsJson(<<m>>)
    BY <1>6, <2>1, <2>2, <2>3 DEF MentionsJson
  <2> QED
    BY <2>4 DEF m, b
<1>7. \A s : Preamble(s, c) => s \in Seq(WireMessages)
  BY PreambleSays
<1> HIDE DEF hint, Of
<1>8. /\ Preamble(OpenAISystem(c.system, c.json, v), c)
      /\ Preamble(PlainSystem(c.system), c)
  BY <1>4, <1>5 DEF OpenAISystem, PlainSystem, Of, hint
<1>9. ASSUME c.json = "on" PROVE MentionsJson(OpenAISystem(c.system, c.json, v) \o v)
  <2> DEFINE s == OpenAISystem(c.system, c.json, v)
  <2>1. MentionsJson(s) \/ MentionsJson(v)
    <3>1. CASE system = << >>
      <4>1. s = Of(<<"json">>)
        BY <1>9, <3>1 DEF OpenAISystem, Of
      <4> QED
        BY <1>3, <1>6, <4>1
    <3>2. CASE system # << >> /\ ~MentionsJson(v) /\ ~Mentions(system)
      <4>1. s = Of(hint)
        BY <1>9, <3>2 DEF OpenAISystem, Of, hint
      <4> QED
        BY <1>3, <1>6, <4>1
    <3>3. CASE system # << >> /\ ~MentionsJson(v) /\ Mentions(system)
      <4>1. s = Of(system)
        BY <3>3 DEF OpenAISystem, Of
      <4> QED
        BY <1>6, <3>3, <4>1
    <3>4. CASE MentionsJson(v)
      BY <3>4
    <3> QED
      BY <3>1, <3>2, <3>3, <3>4
  <2>2. s \in Seq(WireMessages)
    BY <1>7, <1>8
  <2> HIDE DEF s
  <2>3. MentionsJson(s \o v)
    BY <2>1, <2>2, MentionsParts
  <2> QED
    BY <2>3 DEF s
<1> QED
  BY <1>8, <1>9

\* A first message of the system becomes the user's.
LEMMA SystemToUserOpens ==
    ASSUME NEW c, Callable(c), NEW r, NEW hint \in BOOLEAN, Opened(r, c, hint)
    PROVE  Opened(SystemToUser(c, r), c, hint)
<1>1. CASE SystemToUser(c, r) = r
  BY <1>1
<1>2. CASE SystemToUser(c, r) # r
  <2>1. /\ r.ok /\ r.value # << >> /\ Head(r.value).role = "system"
        /\ SystemToUser(c, r) = Ok(<<Message("user", Head(r.value).content)>> \o Tail(r.value))
    BY <1>2 DEF SystemToUser
  <2>2. PICK s, v : /\ Preamble(s, c) /\ Prepared(v, c) /\ r.value = s \o v
                    /\ hint /\ c.json = "on" => MentionsJson(r.value)
    BY <2>1 DEF Opened, Opening
  <2>3. v \in Seq(ChatMessages) /\ v \in Seq(WireMessages)
    <3>1. ChatMessages \subseteq WireMessages
      BY DEF ChatMessages, WireMessages, Messages
    <3> QED
      BY <2>2, <3>1, SeqMonotonic DEF Prepared
  <2>4. s # << >>
    <3> SUFFICES ASSUME s = << >>
                 PROVE  FALSE
      OBVIOUS
    <3>1. r.value = v
      BY <2>2, <2>3
    <3>2. Head(v) \in ChatMessages
      BY <2>1, <2>3, <3>1
    <3> QED
      BY <2>1, <3>1, <3>2 DEF ChatMessages, Messages
  <2>5. PICK role \in {"system", "user"}, body \in Seq(Words) \cap Injected(c) :
            s = <<Message(role, <<Text(body)>>)>> /\ (c.system # <<>> => IsSuffix(c.system, body))
    BY <2>2, <2>4 DEF Preamble
  <2> DEFINE m == Message(role, <<Text(body)>>)
             n == Message("user", <<Text(body)>>)
  <2>6. Preamble(<<n>>, c)
    BY <2>5 DEF Preamble
  <2>7. s = <<m>> /\ m.content = n.content /\ n = Message("user", m.content)
    BY <2>5 DEF Message
  <2>8. <<m>> \in Seq(WireMessages) /\ <<n>> \in Seq(WireMessages)
    BY <2>2, <2>6, <2>7, PreambleSays
  <2> HIDE DEF m, n
  <2>9. Head(r.value) = m /\ Tail(r.value) = v
    <3>1. r.value = <<m>> \o v
      BY <2>2, <2>7
    <3>2. m \in WireMessages
      BY <2>8
    <3> QED
      BY <2>3, <3>1, <3>2
  <2>10. SystemToUser(c, r) = Ok(<<n>> \o v)
    BY <2>1, <2>7, <2>9
  <2>11. MentionsJson(<<m>>) <=> MentionsJson(<<n>>)
    <3>1. \A x : 1 \in DOMAIN <<x>> /\ <<x>>[1] = x /\ DOMAIN <<x>> = {1}
      OBVIOUS
    <3> QED
      BY <2>7, <3>1 DEF MentionsJson
  <2>12. MentionsJson(<<m>> \o v) => MentionsJson(<<n>> \o v)
    BY <2>3, <2>8, <2>11, MentionsParts
  <2>13. Opening(<<n>> \o v, c, hint)
    BY <2>2, <2>6, <2>7, <2>12 DEF Opening
  <2> QED
    BY <2>10, <2>13 DEF Opened, Ok
<1> QED
  BY <1>1, <1>2

\* The least of some naturals is one of them.
LEMMA MinIn ==
    ASSUME NEW T, T \subseteq Nat, T # {}
    PROVE  Min(T) \in T
<1>1. \E x \in T : \A y \in T : x <= y
  BY Least
<1> QED
  BY <1>1 DEF Min

\* Results of a conversion: all, or the first that failed.
LEMMA AllBoolean ==
    ASSUME NEW r, NEW n \in Nat, DOMAIN r = 1 .. n, \A i \in 1 .. n : r[i].ok \in BOOLEAN
    PROVE  All(r).ok \in BOOLEAN
<1>1. CASE \A i \in DOMAIN r : r[i].ok
  BY <1>1 DEF All, Ok
<1>2. CASE ~(\A i \in DOMAIN r : r[i].ok)
  <2> DEFINE failed == {i \in DOMAIN r : ~r[i].ok}
  <2>1. failed \subseteq Nat /\ failed # {}
    BY <1>2
  <2>2. Min(failed) \in failed
    BY <2>1, MinIn
  <2>3. All(r) = r[Min(failed)]
    BY <1>2, <2>1 DEF All, First
  <2> HIDE DEF failed
  <2>4. Min(failed) \in DOMAIN r
    BY <2>2 DEF failed
  <2> QED
    BY <2>3, <2>4
<1> QED
  BY <1>1, <1>2

\* A system message in front changes nothing of what is said, nor of what follows what.
LEMMA OpeningKeeps ==
    ASSUME NEW c, Callable(c), NEW w, NEW hint, Opening(w, c, hint)
    PROVE  Kept(w, c, hint)
<1>1. PICK s, v : /\ Preamble(s, c) /\ Prepared(v, c) /\ w = s \o v
                  /\ hint /\ c.json = "on" => MentionsJson(w)
  BY DEF Opening
<1>2. /\ s \o v \in Seq(WireMessages)
      /\ Carries(s \o v, c.messages, c)
      /\ ToolsFollow(s \o v)
      /\ c.system # << >> => IsSuffix(c.system, Head(s \o v).content[1].body)
  BY <1>1, OpenedCarries
<1> QED
  BY <1>1, <1>2 DEF Kept

\* The messages before and after the system message is put in front.
LEMMA MessagesOpen ==
    ASSUME NEW c, Callable(c), NEW r, ConvertsEach(c.messages, r, c)
    PROVE  /\ All(r).ok \in BOOLEAN
           /\ All(r).ok => /\ Opening(OpenAISystem(c.system, c.json, All(r).value) \o All(r).value, c, TRUE)
                           /\ Opening(PlainSystem(c.system) \o All(r).value, c, FALSE)
<1>1. PICK n \in Nat : DOMAIN c.messages = 1 .. n
  BY DEF Callable
<1>2. All(r).ok \in BOOLEAN
  BY <1>1, AllBoolean DEF ConvertsEach
<1> SUFFICES ASSUME All(r).ok
             PROVE  /\ Opening(OpenAISystem(c.system, c.json, All(r).value) \o All(r).value, c, TRUE)
                    /\ Opening(PlainSystem(c.system) \o All(r).value, c, FALSE)
  BY <1>2
<1> DEFINE v == All(r).value
<1>3. Prepared(v, c)
  BY AllConverted
<1> HIDE DEF v
<1>4. v \in Seq(WireMessages)
  <2>1. ChatMessages \subseteq WireMessages
    BY DEF ChatMessages, WireMessages, Messages
  <2> QED
    BY <1>3, <2>1, SeqMonotonic DEF Prepared
<1>5. /\ Preamble(OpenAISystem(c.system, c.json, v), c)
      /\ Preamble(PlainSystem(c.system), c)
      /\ c.json = "on" => MentionsJson(OpenAISystem(c.system, c.json, v) \o v)
  BY <1>4, SystemIsPreamble
<1>6. Opening(OpenAISystem(c.system, c.json, v) \o v, c, TRUE)
  BY <1>3, <1>5 DEF Opening
<1>7. Opening(PlainSystem(c.system) \o v, c, FALSE)
  BY <1>3, <1>5 DEF Opening
<1> QED
  BY <1>6, <1>7 DEF v

\* The three conversions of a conversation for OpenAI's API.
LEMMA OpenAIMessagesOpened ==
    ASSUME NEW c, Callable(c)
    PROVE  /\ Opened(PrepareOpenAIMessages(c), c, TRUE)
           /\ Opened(PreparePlainMessages(c), c, FALSE)
<1> DEFINE r == [i \in DOMAIN c.messages |-> OpenAIMessages(c.messages[i])]
<1>1. ConvertsEach(c.messages, r, c)
  <2> SUFFICES ASSUME NEW i \in DOMAIN c.messages
               PROVE  r[i].ok \in BOOLEAN /\ (r[i].ok => Converted(c.messages[i], r[i].value, c))
    BY DEF ConvertsEach
  <2>1. c.messages[i] \in Messages(Speakers)
    BY DEF Callable
  <2>2. OpenAIMessages(c.messages[i]).ok \in BOOLEAN
    BY DEF OpenAIMessages, OpenAIUser, OpenAIAssistant, Ok, Refused, Failed
  <2>3. OpenAIMessages(c.messages[i]).ok => Converted(c.messages[i], OpenAIMessages(c.messages[i]).value, c)
    BY <2>1, OpenAIConverted
  <2> QED
    BY <2>2, <2>3
<1>2. Each(c.messages, OpenAIMessages) = All(r)
  BY DEF Each
<1> HIDE DEF r
<1>3. /\ All(r).ok \in BOOLEAN
      /\ All(r).ok => /\ Opening(OpenAISystem(c.system, c.json, All(r).value) \o All(r).value, c, TRUE)
                      /\ Opening(PlainSystem(c.system) \o All(r).value, c, FALSE)
  BY <1>1, MessagesOpen
<1> QED
  BY <1>2, <1>3 DEF PrepareOpenAIMessages, PreparePlainMessages, Opened, Ok

\* Groq's messages are the system message and the converted conversation.
LEMMA GroqMessagesOpened ==
    ASSUME NEW c, Callable(c)
    PROVE  Opened(GroqMessages(c), c, TRUE)
<1> DEFINE r == [i \in DOMAIN c.messages |-> GroqMessage(c.messages[i])]
<1>1. ConvertsEach(c.messages, r, c)
  <2> SUFFICES ASSUME NEW i \in DOMAIN c.messages
               PROVE  r[i].ok \in BOOLEAN /\ (r[i].ok => Converted(c.messages[i], r[i].value, c))
    BY DEF ConvertsEach
  <2>1. c.messages[i] \in Messages(Speakers)
    BY DEF Callable
  <2>2. GroqMessage(c.messages[i]).ok \in BOOLEAN
    BY DEF GroqMessage, GroqUser, GroqAssistant, OpenAIUser, Ok, Refused, Failed
  <2>3. GroqMessage(c.messages[i]).ok => Converted(c.messages[i], GroqMessage(c.messages[i]).value, c)
    BY <2>1, GroqConverted
  <2> QED
    BY <2>2, <2>3
<1>2. Each(c.messages, GroqMessage) = All(r)
  BY DEF Each
<1> HIDE DEF r
<1>3. /\ All(r).ok \in BOOLEAN
      /\ All(r).ok => Opening(OpenAISystem(c.system, c.json, All(r).value) \o All(r).value, c, TRUE)
  BY <1>1, MessagesOpen
<1> QED
  BY <1>2, <1>3 DEF GroqMessages, GroqSystem, Opened, Ok

\* OpenRouter's messages are the system message and the converted conversation.
LEMMA OpenRouterMessagesOpened ==
    ASSUME NEW c, Callable(c)
    PROVE  Opened(OpenRouterMessages(c), c, TRUE)
<1> DEFINE r == [i \in DOMAIN c.messages |-> OpenRouterMessage(c.messages[i])]
<1>1. ConvertsEach(c.messages, r, c)
  <2> SUFFICES ASSUME NEW i \in DOMAIN c.messages
               PROVE  r[i].ok \in BOOLEAN /\ (r[i].ok => Converted(c.messages[i], r[i].value, c))
    BY DEF ConvertsEach
  <2>1. c.messages[i] \in Messages(Speakers)
    BY DEF Callable
  <2>2. OpenRouterMessage(c.messages[i]).ok \in BOOLEAN
    BY DEF OpenRouterMessage, OpenRouterUser, OpenRouterAssistant, OpenAIUser, OpenAIAssistant, Ok, Refused, Failed
  <2>3. OpenRouterMessage(c.messages[i]).ok => Converted(c.messages[i], OpenRouterMessage(c.messages[i]).value, c)
    BY <2>1, OpenRouterConverted
  <2> QED
    BY <2>2, <2>3
<1>2. Each(c.messages, OpenRouterMessage) = All(r)
  BY DEF Each
<1> HIDE DEF r
<1>3. /\ All(r).ok \in BOOLEAN
      /\ All(r).ok => Opening(OpenAISystem(c.system, c.json, All(r).value) \o All(r).value, c, TRUE)
  BY <1>1, MessagesOpen
<1> QED
  BY <1>2, <1>3 DEF OpenRouterMessages, OpenRouterSystem, Opened, Ok

\* A request that is sent has the converted messages and the tools.
LEMMA SendOk ==
    ASSUME NEW r, NEW messages, NEW system, NEW tools, NEW format, NEW reported, messages.ok \in BOOLEAN,
           Send(r, messages, system, tools, format, reported).ok
    PROVE  /\ messages.ok
           /\ Send(r, messages, system, tools, format, reported).value.messages = messages.value
           /\ Send(r, messages, system, tools, format, reported).value.system = system
           /\ Send(r, messages, system, tools, format, reported).value.tools = tools.tools
           /\ Send(r, messages, system, tools, format, reported).value.choice = tools.choice
BY DEF Send, Wire, Ok

\* What is sent to the providers that speak OpenAI's API, but DeepSeek.
LEMMA ChatRequests ==
    ASSUME NEW c, Callable(c), NEW p \in OpenAILike \ {"deepseek"}, Request(p, c).ok
    PROVE  /\ Kept(Request(p, c).value.messages, c, p \in HintsJson)
           /\ Offers(Request(p, c).value, CASE p = "azure" -> AzureTools(c) [] p = "hyperbolic" -> NoTools
                                           [] p = "together" -> (IF c.choice = "none" THEN NoTools ELSE OpenAITools(c))
                                           [] p = "mistral" -> MistralTools(c) [] OTHER -> OpenAITools(c))
<1> DEFINE Rule(q, tools) == /\ Kept(Request(q, c).value.messages, c, q \in HintsJson)
                             /\ Offers(Request(q, c).value, tools)
<1>1. /\ Opened(PrepareOpenAIMessages(c), c, TRUE)
      /\ Opened(PreparePlainMessages(c), c, FALSE)
  BY OpenAIMessagesOpened
<1>2. Opened(GroqMessages(c), c, TRUE) /\ Opened(OpenRouterMessages(c), c, TRUE)
  BY GroqMessagesOpened, OpenRouterMessagesOpened
<1>3. /\ Opened(SystemToUser(c, PrepareOpenAIMessages(c)), c, TRUE)
      /\ Opened(SystemToUser(c, GroqMessages(c)), c, TRUE)
      /\ Opened(SystemToUser(c, OpenRouterMessages(c)), c, TRUE)
  BY <1>1, <1>2, SystemToUserOpens
<1>4. ASSUME NEW q, NEW messages, NEW tools, NEW format, NEW reported, NEW hint \in BOOLEAN, Opened(messages, c, hint), hint = (q \in HintsJson),
             Request(q, c) = Send(c, messages, << >>, tools, format, reported), Request(q, c).ok
      PROVE  Rule(q, tools)
  <2>1. messages.ok \in BOOLEAN /\ (messages.ok => Opening(messages.value, c, hint))
    BY <1>4 DEF Opened
  <2>2. messages.ok /\ Request(q, c).value.messages = messages.value /\ Offers(Request(q, c).value, tools)
    BY <1>4, <2>1, SendOk DEF Offers
  <2>3. Kept(messages.value, c, hint)
    BY <2>1, <2>2, OpeningKeeps
  <2> QED
    BY <1>4, <2>2, <2>3
<1>5. CASE p = "openai"
  <2>1. Request("openai", c) = Send(c, SystemToUser(c, PrepareOpenAIMessages(c)), << >>, OpenAITools(c), OpenAIFormat(c), TRUE)
    BY <1>5 DEF Request, OpenAIRequest
  <2>2. TRUE = ("openai" \in HintsJson)
    BY DEF HintsJson, OpenAILike
  <2>3. Rule("openai", OpenAITools(c))
    BY <1>5, <1>3, <1>4, <2>1, <2>2
  <2> QED
    BY <1>5, <2>3
<1>6. CASE p = "sagemaker"
  <2>1. Request("sagemaker", c) = Send(c, SystemToUser(c, PrepareOpenAIMessages(c)), << >>, OpenAITools(c), OpenAIFormat(c), TRUE)
    BY <1>6 DEF Request, OpenAIRequest
  <2>2. TRUE = ("sagemaker" \in HintsJson)
    BY DEF HintsJson, OpenAILike
  <2>3. Rule("sagemaker", OpenAITools(c))
    BY <1>6, <1>3, <1>4, <2>1, <2>2
  <2> QED
    BY <1>6, <2>3
<1>7. CASE p = "azure"
  <2>1. Request("azure", c) = Send(c, PrepareOpenAIMessages(c), << >>, AzureTools(c), AzureFormat(c), FALSE)
    BY <1>7 DEF Request, AzureRequest
  <2>2. TRUE = ("azure" \in HintsJson)
    BY DEF HintsJson, OpenAILike
  <2>3. Rule("azure", AzureTools(c))
    BY <1>7, <1>1, <1>4, <2>1, <2>2
  <2> QED
    BY <1>7, <2>3
<1>8. CASE p = "xai"
  <2>1. Request("xai", c) = Send(c, PrepareOpenAIMessages(c), << >>, OpenAITools(c), XAIFormat(c), TRUE)
    BY <1>8 DEF Request, XAIRequest
  <2>2. TRUE = ("xai" \in HintsJson)
    BY DEF HintsJson, OpenAILike
  <2>3. Rule("xai", OpenAITools(c))
    BY <1>8, <1>1, <1>4, <2>1, <2>2
  <2> QED
    BY <1>8, <2>3
<1>9. CASE p = "hyperbolic"
  <2>1. Request("hyperbolic", c) = Send(c, PrepareOpenAIMessages(c), << >>, NoTools, "absent", FALSE)
    BY <1>9 DEF Request, HyperbolicRequest
  <2>2. TRUE = ("hyperbolic" \in HintsJson)
    BY DEF HintsJson, OpenAILike
  <2>3. Rule("hyperbolic", NoTools)
    BY <1>9, <1>1, <1>4, <2>1, <2>2
  <2> QED
    BY <1>9, <2>3
<1>10. CASE p = "tgi"
  <2>1. Request("tgi", c) = Send(c, PrepareOpenAIMessages(c), << >>, OpenAITools(c), "absent", TRUE)
    BY <1>10 DEF Request, TGIRequest
  <2>2. TRUE = ("tgi" \in HintsJson)
    BY DEF HintsJson, OpenAILike
  <2>3. Rule("tgi", OpenAITools(c))
    BY <1>10, <1>1, <1>4, <2>1, <2>2
  <2> QED
    BY <1>10, <2>3
<1>11. CASE p = "sglang"
  <2>1. Request("sglang", c) = Send(c, PrepareOpenAIMessages(c), << >>, OpenAITools(c), SGLangFormat(c).value, TRUE)
    BY <1>11 DEF Request, SGLangRequest, SGLangFormat, JsonMode, Refused, Failed, Ok
  <2>2. TRUE = ("sglang" \in HintsJson)
    BY DEF HintsJson, OpenAILike
  <2>3. Rule("sglang", OpenAITools(c))
    BY <1>11, <1>1, <1>4, <2>1, <2>2
  <2> QED
    BY <1>11, <2>3
<1>12. CASE p = "vllm"
  <2>1. Request("vllm", c) = Send(c, PreparePlainMessages(c), << >>, OpenAITools(c), IF JsonMode(c) /\ c.schema THEN "guided_json" ELSE "absent", TRUE)
    BY <1>12 DEF Request, VLLMRequest, VLLMMessages
  <2>2. FALSE = ("vllm" \in HintsJson)
    BY DEF HintsJson, OpenAILike
  <2>3. Rule("vllm", OpenAITools(c))
    BY <1>12, <1>1, <1>4, <2>1, <2>2
  <2> QED
    BY <1>12, <2>3
<1>13. CASE p = "together"
  <2>1. Request("together", c) = Send(c, PreparePlainMessages(c), << >>, (IF c.choice = "none" THEN NoTools ELSE OpenAITools(c)), IF JsonMode(c) THEN "json_object" ELSE "absent", FALSE)
    BY <1>13 DEF Request, TogetherRequest, TogetherMessages
  <2>2. FALSE = ("together" \in HintsJson)
    BY DEF HintsJson, OpenAILike
  <2>3. Rule("together", (IF c.choice = "none" THEN NoTools ELSE OpenAITools(c)))
    BY <1>13, <1>1, <1>4, <2>1, <2>2
  <2> QED
    BY <1>13, <2>3
<1>14. CASE p = "fireworks"
  <2>1. Request("fireworks", c) = Send(c, PreparePlainMessages(c), << >>, OpenAITools(c), IF JsonMode(c) THEN "json_object" ELSE "absent", FALSE)
    BY <1>14 DEF Request, FireworksRequest, FireworksMessages
  <2>2. FALSE = ("fireworks" \in HintsJson)
    BY DEF HintsJson, OpenAILike
  <2>3. Rule("fireworks", OpenAITools(c))
    BY <1>14, <1>1, <1>4, <2>1, <2>2
  <2> QED
    BY <1>14, <2>3
<1>15. CASE p = "mistral"
  <2>1. Request("mistral", c) = Send(c, PreparePlainMessages(c), << >>, MistralTools(c), IF JsonMode(c) THEN "json_object" ELSE "absent", FALSE)
    BY <1>15 DEF Request, MistralRequest, MistralMessages
  <2>2. FALSE = ("mistral" \in HintsJson)
    BY DEF HintsJson, OpenAILike
  <2>3. Rule("mistral", MistralTools(c))
    BY <1>15, <1>1, <1>4, <2>1, <2>2
  <2> QED
    BY <1>15, <2>3
<1>16. CASE p = "groq"
  <2>1. Request("groq", c) = Send(c, SystemToUser(c, GroqMessages(c)), << >>, OpenAITools(c), GroqFormat(c), TRUE)
    BY <1>16 DEF Request, GroqRequest, GroqTools
  <2>2. TRUE = ("groq" \in HintsJson)
    BY DEF HintsJson, OpenAILike
  <2>3. Rule("groq", OpenAITools(c))
    BY <1>16, <1>3, <1>4, <2>1, <2>2
  <2> QED
    BY <1>16, <2>3
<1>17. CASE p = "openrouter"
  <2>1. Request("openrouter", c) = Send(c, SystemToUser(c, OpenRouterMessages(c)), << >>, OpenAITools(c), OpenRouterFormat(c), TRUE)
    BY <1>17 DEF Request, OpenRouterRequest, OpenRouterTools
  <2>2. TRUE = ("openrouter" \in HintsJson)
    BY DEF HintsJson, OpenAILike
  <2>3. Rule("openrouter", OpenAITools(c))
    BY <1>17, <1>3, <1>4, <2>1, <2>2
  <2> QED
    BY <1>17, <2>3
<1> QED
  BY <1>5, <1>6, <1>7, <1>8, <1>9, <1>10, <1>11, <1>12, <1>13, <1>14, <1>15, <1>16, <1>17 DEF OpenAILike

\* The loop that coalesces messages computes some function.
LEMMA MergesExist ==
    ASSUME NEW apart, NEW split, NEW s, NEW n \in Nat
    PROVE  \E f : AreMerges(f, apart, split, s, n)
<1> DEFINE T == {k \in Nat : ~\E f : AreMerges(f, apart, split, s, k)}
<1> SUFFICES ASSUME T # {}
             PROVE  FALSE
  OBVIOUS
<1>1. PICK k \in T : \A j \in T : k <= j
  BY Least
<1>2. k # 0
  <2>1. AreMerges([i \in 0 .. 0 |-> << >>], apart, split, s, 0)
    BY DEF AreMerges
  <2> QED
    BY <2>1
<1>3. PICK f : AreMerges(f, apart, split, s, k - 1)
  BY <1>1, <1>2
<1> DEFINE h == [i \in 0 .. k |-> IF i = k THEN Merge(f[k - 1], s[k], apart, split) ELSE f[i]]
<1>4. \A i \in 0 .. k : h[i] = IF i = 0 THEN << >> ELSE Merge(h[i - 1], s[i], apart, split)
  BY <1>1, <1>2, <1>3 DEF AreMerges
<1>5. AreMerges(h, apart, split, s, k)
  BY <1>4 DEF AreMerges
<1> QED
  BY <1>1, <1>5

\* One round: the next message is merged.
LEMMA MergesUnfold ==
    ASSUME NEW apart, NEW split, NEW s, Len(s) \in Nat
    PROVE  /\ Merges(s, apart, split)[0] = << >>
           /\ \A i \in 1 .. Len(s) : Merges(s, apart, split)[i] = Merge(Merges(s, apart, split)[i - 1], s[i], apart, split)
<1> DEFINE f == Merges(s, apart, split)
           n == Len(s)
           v(i) == IF i = 0 THEN << >> ELSE Merge(f[i - 1], s[i], apart, split)
<1>1. AreMerges(f, apart, split, s, n)
  <2>1. PICK g : AreMerges(g, apart, split, s, n)
    <3>1. n \in Nat
      OBVIOUS
    <3> HIDE DEF n
    <3> QED
      BY <3>1, MergesExist
  <2> QED
    BY <2>1 DEF Merges, AreMerges
<1> HIDE DEF f
<1>2. f = [i \in 0 .. n |-> v(i)]
  BY <1>1 DEF AreMerges
<1> HIDE DEF v
<1>3. \A i \in 0 .. n : f[i] = v(i)
  BY <1>2
<1>4. \A i \in 1 .. n : i \in 0 .. n /\ i # 0
  OBVIOUS
<1>5. 0 \in 0 .. n
  OBVIOUS
<1> QED
  BY <1>3, <1>4, <1>5 DEF f, v

\* A list is what is before its last element, and that.
LEMMA FrontLast ==
    ASSUME NEW X, NEW s \in Seq(X), s # << >>
    PROVE  Front(s) \in Seq(X) /\ Last(s) \in X /\ s = Front(s) \o <<Last(s)>>
<1>1. Len(s) \in Nat /\ Len(s) # 0
  BY EmptySeq
<1>2. Front(s) \in Seq(X) /\ Len(Front(s)) = Len(s) - 1 /\ \A i \in 1 .. (Len(s) - 1) : Front(s)[i] = s[i]
  <2> DEFINE k == Len(s) - 1
  <2>1. k \in Int /\ 1 \in Int /\ k <= Len(s) /\ (k > 0 => 1 .. k \subseteq DOMAIN s) /\ k + 1 = Len(s) /\ k \in Nat
    BY <1>1
  <2>2. SubSeq(s, 1, k) = [i \in 1 .. k |-> s[i]]
    BY <2>1
  <2>3. \A i \in 1 .. k : s[i] \in X
    BY <2>1
  <2> DEFINE t == SubSeq(s, 1, k)
  <2> HIDE DEF k
  <2>4. t \in [1 .. k -> X] /\ \A i \in 1 .. k : t[i] = s[i]
    BY <2>2, <2>3
  <2> HIDE DEF t
  <2>5. t \in Seq(X) /\ Len(t) = k
    BY <2>1, <2>4
  <2> QED
    BY <2>4, <2>5 DEF k, t, Front
<1>3. Last(s) \in X
  BY <1>1 DEF Last
<1> DEFINE f == Front(s)
           l == Last(s)
<1> HIDE DEF f
<1>4. f \in Seq(X) /\ Len(f) = Len(s) - 1 /\ \A i \in 1 .. (Len(s) - 1) : f[i] = s[i]
  BY <1>2 DEF f
<1>5. f \o <<l>> \in Seq(X) /\ Len(f \o <<l>>) = Len(s)
  BY <1>1, <1>3, <1>4
<1>6. \A i \in 1 .. Len(s) : (f \o <<l>>)[i] = s[i]
  BY <1>1, <1>4 DEF Last
<1>7. s = f \o <<l>>
  BY <1>5, <1>6, SeqEqual
<1> QED
  BY <1>2, <1>3, <1>7 DEF f

\* The last and the first element of a list that is put together.
LEMMA LastOf ==
    ASSUME NEW X, NEW s \in Seq(X), NEW x \in X
    PROVE  Last(s \o <<x>>) = x /\ s \o <<x>> # << >> /\ Append(s, x) = s \o <<x>> /\ s \o <<x>> \in Seq(X)
<1>1. Len(s \o <<x>>) = Len(s) + 1 /\ Len(s) \in Nat /\ (s \o <<x>>)[Len(s) + 1] = x
  OBVIOUS
<1>2. s \o <<x>> # << >>
  BY <1>1
<1>3. Append(s, x) = s \o <<x>> /\ s \o <<x>> \in Seq(X)
  BY AppendIsConcat
<1> QED
  BY <1>1, <1>2, <1>3 DEF Last

\* A message is merged with the last one, or appended.
LEMMA MergeIs ==
    ASSUME NEW X, NEW done \in Seq(X), NEW m \in X, NEW apart, NEW split, NEW d, d = Merge(done, m, apart, split)
    PROVE  \/ Appends(d, done, m, apart)
           \/ \E f \in Seq(X), l \in X : Glues(d, done, m, apart, split, f, l)
<1>1. CASE done # <<>> /\ Last(done).role = m.role /\ m.role \notin apart
  <2>1. Front(done) \in Seq(X) /\ Last(done) \in X /\ done = Front(done) \o <<Last(done)>>
    BY <1>1, FrontLast
  <2>2. d = Append(Front(done), Join(Last(done), m, split))
    BY <1>1 DEF Merge, Join
  <2>3. Glues(d, done, m, apart, split, Front(done), Last(done))
    BY <1>1, <2>1, <2>2 DEF Glues
  <2> QED
    BY <2>1, <2>3
<1>2. CASE ~(done # <<>> /\ Last(done).role = m.role /\ m.role \notin apart)
  <2>1. d = Append(done, m)
    BY <1>2 DEF Merge
  <2>2. d = done \o <<m>>
    BY <2>1, LastOf
  <2> QED
    BY <1>2, <2>2 DEF Appends
<1> QED
  BY <1>1, <1>2

\* The contents of two messages are put together without a loss.
LEMMA JoinedKeeps ==
    ASSUME NEW content \in Seq(Blocks), NEW role, NEW split \in BOOLEAN,
           split /\ role = "assistant" => ~Has(content, {"file", "tool_result"})
    PROVE  /\ Joined(role, content, split) \in Seq(Blocks)
           /\ \A type \in Carried : \A c : Say(Joined(role, content, split), type, c) = Say(content, type, c)
           /\ ToSet(Joined(role, content, split)) \subseteq ToSet(content)
           /\ \A b \in ToSet(content) : b.type \in Carried => b \in ToSet(Joined(role, content, split))
<1>1. CASE ~(split /\ role = "assistant")
  <2>1. Joined(role, content, split) = content
    BY <1>1 DEF Joined
  <2> QED
    BY <2>1
<1>2. CASE split /\ role = "assistant"
  <2> DEFINE P == {"text", "image", "unknown"}
  <2>1. Joined(role, content, split) = Split(content, P)
    BY <1>2 DEF Joined, Split
  <2>2. P \subseteq Carried \ {"tool_call"} /\ Carried \ (P \cup {"tool_call"}) = {"file", "tool_result"}
    BY DEF Carried
  <2>3. ~Has(content, Carried \ (P \cup {"tool_call"}))
    BY <1>2, <2>2
  <2> HIDE DEF P
  <2>4. /\ Split(content, P) \in Seq(Blocks)
        /\ \A type \in Carried : \A c : Say(Split(content, P), type, c) = Say(content, type, c)
        /\ ToSet(Split(content, P)) = {b \in ToSet(content) : b.type \in P \cup {"tool_call"}}
    BY <2>2, <2>3, SplitKeeps
  <2>5. \A b \in ToSet(content) : b.type \in Carried => b.type \in P \cup {"tool_call"}
    BY <2>3 DEF Has, ToSet
  <2> QED
    BY <2>1, <2>4, <2>5
<1> QED
  BY <1>1, <1>2

\* Two messages of one role become one.
LEMMA JoinedMessage ==
    ASSUME NEW split \in BOOLEAN, NEW l \in Tidy(split), NEW m \in Tidy(split), l.role = m.role
    PROVE  /\ Join(l, m, split) \in Tidy(split) /\ Join(l, m, split).role = m.role
           /\ \A role \in Speakers, type \in Carried : \A c :
                 Said(<<Join(l, m, split)>>, role, type, c) = Said(<<l>>, role, type, c) \o Said(<<m>>, role, type, c)
           /\ \A b \in ToSet(l.content) \cup ToSet(m.content) : b.type \in Carried => b \in ToSet(Join(l, m, split).content)
           /\ ~split \/ m.role # "assistant" => Join(l, m, split).content = l.content \o m.content
<1> DEFINE content == l.content \o m.content
           x == Join(l, m, split)
           a == Joined(m.role, content, split)
<1>1. l \in WireMessages /\ m \in WireMessages /\ l.content \in Seq(Blocks) /\ m.content \in Seq(Blocks)
  BY DEF Tidy, WireMessages, Messages
<1>2. content \in Seq(Blocks) /\ ToSet(content) = ToSet(l.content) \cup ToSet(m.content)
  BY <1>1, ConcatElements, ConcatProperties
<1>3. \A type, c : Say(content, type, c) = Say(l.content, type, c) \o Say(m.content, type, c)
  BY <1>1, SayConcat
<1> HIDE DEF content
<1>4. split /\ m.role = "assistant" => ~Has(content, {"file", "tool_result"})
  <2>1. split /\ m.role = "assistant" => \A b \in ToSet(l.content) \cup ToSet(m.content) : b.type \notin {"file", "tool_result"}
    BY DEF Tidy, Has, ToSet
  <2> QED
    BY <1>2, <2>1 DEF Has, ToSet
<1>5. /\ a \in Seq(Blocks)
      /\ \A type \in Carried : \A c : Say(a, type, c) = Say(content, type, c)
      /\ ToSet(a) \subseteq ToSet(content)
      /\ \A b \in ToSet(content) : b.type \in Carried => b \in ToSet(a)
  BY <1>2, <1>4, JoinedKeeps
<1>6. ~split \/ m.role # "assistant" => a = content
  BY DEF Joined
<1>7. x = Message(m.role, a)
  BY DEF content, Join
<1> HIDE DEF a, x
<1>8. x.role = m.role /\ x.content = a /\ x \in WireMessages
  BY <1>1, <1>5, <1>7 DEF Message, WireMessages, Messages
<1>9. x \in Tidy(split)
  <2>1. split /\ m.role = "assistant" => ~Has(a, {"file", "tool_result"})
    BY <1>4, <1>5 DEF Has, ToSet
  <2> QED
    BY <1>8, <2>1 DEF Tidy
<1>10. ASSUME NEW role \in Speakers, NEW type \in Carried, NEW c
       PROVE  Said(<<x>>, role, type, c) = Said(<<l>>, role, type, c) \o Said(<<m>>, role, type, c)
  <2>1. \A w \in {l, m, x} : Said(<<w>>, role, type, c) = IF Speaker(w.role) = role THEN Say(w.content, type, c) ELSE << >>
    BY <1>1, <1>8, SaidOne
  <2>2. << >> \o << >> = << >>
    OBVIOUS
  <2>3. Said(<<x>>, role, type, c) = IF Speaker(m.role) = role THEN Say(a, type, c) ELSE << >>
    BY <1>8, <2>1
  <2>4. Said(<<l>>, role, type, c) = IF Speaker(m.role) = role THEN Say(l.content, type, c) ELSE << >>
    BY <2>1
  <2>5. Said(<<m>>, role, type, c) = IF Speaker(m.role) = role THEN Say(m.content, type, c) ELSE << >>
    BY <2>1
  <2>6. Say(a, type, c) = Say(l.content, type, c) \o Say(m.content, type, c)
    BY <1>3, <1>5
  <2> QED
    BY ONLY <2>2, <2>3, <2>4, <2>5, <2>6
<1> QED
  BY <1>2, <1>5, <1>6, <1>8, <1>9, <1>10 DEF content, x

\* Two messages of one role, joined, are a message of that role.
LEMMA JoinType ==
    ASSUME NEW split \in BOOLEAN, NEW l \in Tidy(split), NEW m \in Tidy(split), l.role = m.role
    PROVE  Join(l, m, split) \in Tidy(split) /\ Join(l, m, split).role = m.role
BY JoinedMessage

\* The joined message says what the first says and then what the second says.
LEMMA JoinSaid ==
    ASSUME NEW split \in BOOLEAN, NEW l \in Tidy(split), NEW m \in Tidy(split), l.role = m.role,
           NEW role \in Speakers, NEW type \in Carried, NEW c
    PROVE  SaysBoth(Join(l, m, split), l, m, role, type, c)
<1>1. \A r \in Speakers, t \in Carried : \A d :
          Said(<<Join(l, m, split)>>, r, t, d) = Said(<<l>>, r, t, d) \o Said(<<m>>, r, t, d)
  BY JoinedMessage
<1> QED
  BY <1>1, Zenon DEF SaysBoth

\* No block is lost in joining two messages.
LEMMA JoinBlocks ==
    ASSUME NEW split \in BOOLEAN, NEW l \in Tidy(split), NEW m \in Tidy(split), l.role = m.role,
           NEW b \in ToSet(l.content) \cup ToSet(m.content), b.type \in Carried
    PROVE  b \in ToSet(Join(l, m, split).content)
BY JoinedMessage

\* Unless an assistant's content is sorted, it is the first content and then the second.
LEMMA JoinContent ==
    ASSUME NEW split \in BOOLEAN, NEW l \in Tidy(split), NEW m \in Tidy(split), l.role = m.role,
           ~split \/ m.role # "assistant"
    PROVE  Join(l, m, split).content = l.content \o m.content
BY JoinedMessage

\* The next message is appended, or joined to the last one.
LEMMA MergeCases ==
    ASSUME NEW split \in BOOLEAN, NEW apart, NEW done \in Seq(Tidy(split)), NEW m \in Tidy(split), NEW d,
           d = Merge(done, m, apart, split)
    PROVE  /\ d \in Seq(Tidy(split)) /\ d # << >>
           /\ Appends(d, done, m, apart) \/ \E f, l, x : Extends(d, done, m, apart, split, f, l, x)
<1> DEFINE X == Tidy(split)
<1> HIDE DEF X
<1>0. done \in Seq(X) /\ m \in X
  BY DEF X
<1>1. Appends(d, done, m, apart) \/ \E f \in Seq(X), l \in X : Glues(d, done, m, apart, split, f, l)
  BY <1>0, MergeIs
<1>2. CASE Appends(d, done, m, apart)
  <2>1. done \o <<m>> \in Seq(X) /\ done \o <<m>> # << >>
    BY <1>0, LastOf
  <2> QED
    BY <1>2, <2>1 DEF Appends, X
<1>3. CASE \E f \in Seq(X), l \in X : Glues(d, done, m, apart, split, f, l)
  <2>1. PICK f \in Seq(X), l \in X : Glues(d, done, m, apart, split, f, l)
    BY <1>3
  <2>2. l.role = m.role /\ m.role \notin apart /\ done = f \o <<l>> /\ d = Append(f, Join(l, m, split))
    BY <2>1 DEF Glues
  <2> DEFINE x == Join(l, m, split)
  <2>3. x \in X /\ x.role = m.role
    BY <2>2, JoinType DEF X
  <2>4. d = Append(f, x)
    BY <2>2
  <2>5. x = Join(l, m, split)
    OBVIOUS
  <2> HIDE DEF x
  <2>6. f \o <<x>> \in Seq(X) /\ f \o <<x>> # << >> /\ d = f \o <<x>>
    BY <2>3, <2>4, LastOf
  <2>7. Extends(d, done, m, apart, split, f, l, x)
    BY <2>2, <2>3, <2>5, <2>6 DEF Extends, X
  <2> QED
    BY <2>6, <2>7 DEF X
<1> QED
  BY <1>1, <1>2, <1>3

\* A message that may be merged is a wire message.
LEMMA TidyWire ==
    ASSUME NEW split
    PROVE  /\ \A m \in Tidy(split) : m \in WireMessages /\ m.content \in Seq(Blocks)
           /\ \A s \in Seq(Tidy(split)) : s \in Seq(WireMessages)
<1>1. Tidy(split) \subseteq WireMessages
  BY DEF Tidy
<1>2. \A s \in Seq(Tidy(split)) : s \in Seq(WireMessages)
  BY <1>1, SeqMonotonic
<1> QED
  BY <1>1, <1>2 DEF WireMessages, Messages

\* Merging keeps what is said.
LEMMA MergeCarries ==
    ASSUME NEW split \in BOOLEAN, NEW apart, NEW done \in Seq(Tidy(split)), NEW m \in Tidy(split), NEW d,
           d = Merge(done, m, apart, split), NEW c, NEW w \in Seq(Tidy(split)), Carries(done, w, c)
    PROVE  Carries(d, w \o <<m>>, c)
<1> SUFFICES ASSUME NEW role \in Speakers, NEW type \in Carried
             PROVE  Said(d, role, type, c) = Said(w \o <<m>>, role, type, c)
  BY DEF Carries, SaidAlike
<1> DEFINE S(v) == Said(v, role, type, c)
           one == <<m>>
<1>0. m \in WireMessages /\ done \in Seq(WireMessages) /\ w \in Seq(WireMessages) /\ one \in Seq(WireMessages)
  <2>1. m \in WireMessages /\ done \in Seq(WireMessages) /\ w \in Seq(WireMessages)
    BY TidyWire
  <2> QED
    BY <2>1, SingleType
<1> HIDE DEF one
<1>1. S(w \o one) = S(w) \o S(one)
  BY <1>0, SaidConcat
<1>2. S(done) = S(w)
  BY DEF Carries, SaidAlike
<1>3. Appends(d, done, m, apart) \/ \E f, l, x : Extends(d, done, m, apart, split, f, l, x)
  BY MergeCases
<1>4. CASE Appends(d, done, m, apart)
  <2>1. S(done \o one) = S(done) \o S(one)
    BY <1>0, SaidConcat
  <2> QED
    BY <1>1, <1>2, <1>4, <2>1 DEF Appends, one
<1>5. CASE \E f, l, x : Extends(d, done, m, apart, split, f, l, x)
  <2>1. PICK f, l, x : Extends(d, done, m, apart, split, f, l, x)
    BY <1>5
  <2> DEFINE onel == <<l>>
             onex == <<x>>
  <2>2. f \in Seq(Tidy(split)) /\ l \in Tidy(split) /\ x \in Tidy(split) /\ done = f \o onel /\ d = f \o onex /\ l.role = m.role /\ x = Join(l, m, split)
    BY <2>1 DEF Extends
  <2>3. f \in Seq(WireMessages) /\ l \in WireMessages /\ x \in WireMessages
    BY <2>2, TidyWire
  <2>4. onel \in Seq(WireMessages) /\ onex \in Seq(WireMessages)
    BY <2>3, SingleType
  <2>5. S(onex) = S(onel) \o S(one)
    <3>1. SaysBoth(Join(l, m, split), l, m, role, type, c)
      BY <2>2, JoinSaid
    <3> QED
      BY <2>2, <3>1 DEF one, SaysBoth
  <2> HIDE DEF onel, onex
  <2>6. S(done) = S(f) \o S(onel) /\ S(d) = S(f) \o S(onex)
    <3>1. S(f \o onel) = S(f) \o S(onel)
      BY <2>3, <2>4, SaidConcat
    <3>2. S(f \o onex) = S(f) \o S(onex)
      BY <2>3, <2>4, SaidConcat
    <3> HIDE DEF S
    <3> QED
      BY <2>2, <3>1, <3>2
  <2>7. S(f) \in Seq(Blocks) /\ S(onel) \in Seq(Blocks) /\ S(one) \in Seq(Blocks)
    BY <1>0, <2>3, <2>4, SaidType
  <2> HIDE DEF S
  <2>8. S(f) \o (S(onel) \o S(one)) = (S(f) \o S(onel)) \o S(one)
    BY <2>7, ConcatAssociative
  <2>9. S(d) = S(w \o one)
    BY <1>1, <1>2, <2>5, <2>6, <2>8
  <2> QED
    BY <2>9 DEF S, one
<1> QED
  BY <1>3, <1>4, <1>5 DEF one

\* Merging leaves no two messages of one role in a row.
LEMMA MergeAlternates ==
    ASSUME NEW split \in BOOLEAN, NEW apart, NEW done \in Seq(Tidy(split)), NEW m \in Tidy(split), NEW d,
           d = Merge(done, m, apart, split), Alternates(done, apart)
    PROVE  Alternates(d, apart)
<1>1. Appends(d, done, m, apart) \/ \E f, l, x : Extends(d, done, m, apart, split, f, l, x)
  BY MergeCases
<1>2. CASE Appends(d, done, m, apart)
  <2> DEFINE n == Len(done)
  <2>1. d = done \o <<m>> /\ (done = <<>> \/ done[n].role # m.role \/ m.role \in apart)
    BY <1>2 DEF Appends, Last
  <2>2. n \in Nat /\ Len(d) = n + 1 /\ d[n + 1] = m /\ \A i \in 1 .. n : d[i] = done[i]
    BY <2>1
  <2>3. done = << >> => n = 0
    OBVIOUS
  <2> SUFFICES ASSUME NEW i \in 1 .. (Len(d) - 1), d[i].role = d[i + 1].role
               PROVE  d[i].role \in apart
    BY DEF Alternates
  <2> HIDE DEF n
  <2>4. i \in 1 .. n
    BY <2>2
  <2>5. CASE i = n
    BY <2>1, <2>2, <2>3, <2>4, <2>5
  <2>6. CASE i # n
    <3>1. i + 1 \in 1 .. n /\ i \in 1 .. (n - 1)
      BY <2>2, <2>4, <2>6
    <3>2. d[i] = done[i] /\ d[i + 1] = done[i + 1]
      BY <2>2, <2>4, <3>1
    <3> QED
      BY <3>1, <3>2 DEF Alternates, n
  <2> QED
    BY <2>5, <2>6
<1>3. CASE \E f, l, x : Extends(d, done, m, apart, split, f, l, x)
  <2>1. PICK f, l, x : Extends(d, done, m, apart, split, f, l, x)
    BY <1>3
  <2>2. f \in Seq(Tidy(split)) /\ done = f \o <<l>> /\ d = f \o <<x>> /\ l.role = x.role
    BY <2>1 DEF Extends
  <2> DEFINE n == Len(f)
  <2>3. /\ n \in Nat /\ Len(done) = n + 1 /\ Len(d) = n + 1 /\ d[n + 1] = x /\ done[n + 1] = l
        /\ \A i \in 1 .. n : d[i] = f[i] /\ done[i] = f[i]
    BY <2>2
  <2> HIDE DEF n
  <2>4. \A i \in 1 .. (n + 1) : d[i].role = done[i].role
    <3> SUFFICES ASSUME NEW i \in 1 .. (n + 1)
                 PROVE  d[i].role = done[i].role
      OBVIOUS
    <3>1. CASE i = n + 1
      BY <2>2, <2>3, <3>1
    <3>2. CASE i # n + 1
      <4>1. i \in 1 .. n
        BY <2>3, <3>2
      <4> QED
        BY <2>3, <4>1
    <3> QED
      BY <3>1, <3>2
  <2>5. \A i \in 1 .. (Len(d) - 1) : i \in 1 .. (n + 1) /\ i + 1 \in 1 .. (n + 1) /\ i \in 1 .. (Len(done) - 1)
    BY <2>3
  <2> QED
    BY <2>4, <2>5 DEF Alternates
<1> QED
  BY <1>1, <1>2, <1>3

\* The elements of a list and one more.
LEMMA OneMore ==
    ASSUME NEW X, NEW s \in Seq(X), NEW x \in X
    PROVE  ToSet(s \o <<x>>) = ToSet(s) \cup {x}
<1>1. ToSet(<<x>>) = {x}
  BY DEF ToSet
<1> DEFINE t == <<x>>
<1>2. t \in Seq(X) /\ ToSet(t) = {x}
  BY <1>1, SingleType
<1> HIDE DEF t
<1>3. ToSet(s \o t) = ToSet(s) \cup ToSet(t)
  BY <1>2, ConcatElements
<1> QED
  BY <1>2, <1>3 DEF t

\* Merging keeps the results after their calls.
LEMMA MergeTools ==
    ASSUME NEW split \in BOOLEAN, NEW apart, NEW done \in Seq(Tidy(split)), NEW m \in Tidy(split), NEW d,
           d = Merge(done, m, apart, split), "tool" \in apart, ToolsFollow(done),
           m.role = "tool" => done # << >> /\ Answerable(Last(done))
    PROVE  ToolsFollow(d)
<1>1. Appends(d, done, m, apart) \/ \E f, l, x : Extends(d, done, m, apart, split, f, l, x)
  BY MergeCases
<1>0. \A x : DOMAIN <<x>> = {1} /\ <<x>>[1] = x /\ (x \in Tidy(split) => <<x>> \in Seq(Tidy(split)))
  OBVIOUS
<1>2. CASE Appends(d, done, m, apart)
  <2>1. ToolsFollowOn(done, <<m>>)
    BY <1>0 DEF ToolsFollowOn, Last
  <2> DEFINE t == <<m>>
  <2>2. t \in Seq(Tidy(split)) /\ ToolsFollowOn(done, t) /\ d = done \o t
    BY <1>0, <1>2, <2>1 DEF Appends
  <2> HIDE DEF t
  <2> QED
    BY <2>2, ToolsFollowConcat
<1>3. CASE \E f, l, x : Extends(d, done, m, apart, split, f, l, x)
  <2>1. PICK f, l, x : Extends(d, done, m, apart, split, f, l, x)
    BY <1>3
  <2>2. f \in Seq(Tidy(split)) /\ l \in Tidy(split) /\ x \in Tidy(split) /\ done = f \o <<l>> /\ d = f \o <<x>> /\ x.role # "tool"
    BY <2>1 DEF Extends
  <2> DEFINE n == Len(f)
  <2>3. n \in Nat /\ DOMAIN done = 1 .. (n + 1) /\ DOMAIN f = 1 .. n /\ \A i \in 1 .. n : done[i] = f[i]
    BY <2>2
  <2> HIDE DEF n
  <2>4. ToolsFollow(f)
    <3> SUFFICES ASSUME NEW i \in 1 .. n, f[i].role = "tool"
                 PROVE  i > 1 /\ Answerable(f[i - 1])
      BY <2>3 DEF ToolsFollow
    <3>1. i \in DOMAIN done /\ done[i].role = "tool"
      BY <2>3
    <3>2. i > 1 /\ Answerable(done[i - 1])
      BY <3>1 DEF ToolsFollow
    <3> DEFINE j == i - 1
    <3>3. j \in 1 .. n
      BY <2>3, <3>2
    <3> HIDE DEF j
    <3>4. done[j] = f[j]
      BY <2>3, <3>3
    <3> QED
      BY <3>2, <3>4 DEF j
  <2>5. ToolsFollowOn(f, <<x>>)
    BY <1>0, <2>2, <2>4 DEF ToolsFollowOn
  <2> DEFINE t == <<x>>
  <2>6. t \in Seq(Tidy(split)) /\ ToolsFollowOn(f, t) /\ d = f \o t
    BY <1>0, <2>2, <2>5
  <2> HIDE DEF t
  <2> QED
    BY <2>2, <2>6, ToolsFollowConcat
<1> QED
  BY <1>1, <1>2, <1>3

\* The last message can be answered if the one that was merged can.
LEMMA MergeAnswerable ==
    ASSUME NEW split \in BOOLEAN, NEW apart, NEW done \in Seq(Tidy(split)), NEW m \in Tidy(split), NEW d,
           d = Merge(done, m, apart, split), Answerable(m)
    PROVE  Answerable(Last(d))
<1>1. Appends(d, done, m, apart) \/ \E f, l, x : Extends(d, done, m, apart, split, f, l, x)
  BY MergeCases
<1>2. CASE Appends(d, done, m, apart)
  <2>1. Last(done \o <<m>>) = m
    BY LastOf
  <2> QED
    BY <1>2, <2>1 DEF Appends
<1>3. CASE \E f, l, x : Extends(d, done, m, apart, split, f, l, x)
  <2>1. PICK f, l, x : Extends(d, done, m, apart, split, f, l, x)
    BY <1>3
  <2>2. /\ f \in Seq(Tidy(split)) /\ l \in Tidy(split) /\ x \in Tidy(split) /\ d = f \o <<x>>
        /\ x.role = m.role /\ l.role = m.role /\ x = Join(l, m, split)
    BY <2>1 DEF Extends
  <2>3. Last(f \o <<x>>) = x
    BY <2>2, LastOf
  <2>4. ASSUME Has(m.content, {"tool_call"}) PROVE Has(x.content, {"tool_call"})
    <3>1. PICK j \in DOMAIN m.content : m.content[j].type = "tool_call"
      BY <2>4 DEF Has
    <3> DEFINE b == m.content[j]
    <3>2. b \in ToSet(l.content) \cup ToSet(m.content) /\ b.type = "tool_call" /\ b.type \in Carried
      BY <3>1 DEF ToSet, Carried
    <3> HIDE DEF b
    <3>3. b \in ToSet(x.content)
      BY <2>2, <3>2, JoinBlocks
    <3> QED
      BY <3>2, <3>3 DEF ToSet, Has
  <2> QED
    BY <2>2, <2>3, <2>4 DEF Answerable
<1> QED
  BY <1>1, <1>2, <1>3

\* Merging keeps the mentions of JSON.
LEMMA MergeMentions ==
    ASSUME NEW split \in BOOLEAN, NEW apart, NEW done \in Seq(Tidy(split)), NEW m \in Tidy(split), NEW d,
           d = Merge(done, m, apart, split), MentionsJson(done) \/ MentionedIn(m)
    PROVE  MentionsJson(d)
<1>1. Appends(d, done, m, apart) \/ \E f, l, x : Extends(d, done, m, apart, split, f, l, x)
  BY MergeCases
<1>0. \A w : MentionsJson(w) <=> \E y \in ToSet(w) : MentionedIn(y)
  BY DEF MentionsJson, MentionedIn, ToSet
<1>2. CASE Appends(d, done, m, apart)
  <2>1. ToSet(done \o <<m>>) = ToSet(done) \cup {m}
    BY OneMore
  <2> QED
    BY <1>0, <1>2, <2>1 DEF Appends
<1>3. CASE \E f, l, x : Extends(d, done, m, apart, split, f, l, x)
  <2>1. PICK f, l, x : Extends(d, done, m, apart, split, f, l, x)
    BY <1>3
  <2>2. /\ f \in Seq(Tidy(split)) /\ l \in Tidy(split) /\ x \in Tidy(split) /\ d = f \o <<x>> /\ done = f \o <<l>>
        /\ x.role = m.role /\ l.role = m.role /\ x = Join(l, m, split)
    BY <2>1 DEF Extends
  <2>3. ToSet(f \o <<x>>) = ToSet(f) \cup {x}
    BY <2>2, OneMore
  <2>4. ToSet(f \o <<l>>) = ToSet(f) \cup {l}
    BY <2>2, OneMore
  <2>5. ASSUME MentionedIn(l) \/ MentionedIn(m) PROVE MentionedIn(x)
    <3>1. PICK b \in ToSet(l.content) \cup ToSet(m.content) : b.type \in {"text", "tool_result"} /\ Mentions(b.body)
      BY <2>5 DEF MentionedIn, ToSet
    <3>2. b.type \in Carried
      BY <3>1 DEF Carried
    <3>3. b \in ToSet(x.content)
      BY <2>2, <3>2, JoinBlocks
    <3> QED
      BY <3>1, <3>3 DEF MentionedIn, ToSet
  <2>6. (\E y \in ToSet(done) : MentionedIn(y)) \/ MentionedIn(m)
    BY <1>0
  <2>7. \E y \in ToSet(f) \cup {x} : MentionedIn(y)
    BY <2>2, <2>4, <2>5, <2>6
  <2> QED
    BY <1>0, <2>2, <2>3, <2>7
<1> QED
  BY <1>1, <1>2, <1>3

\* Merging leaves no message empty.
LEMMA MergeFull ==
    ASSUME NEW split \in BOOLEAN, ~split, NEW apart, NEW done \in Seq(Tidy(split)), NEW m \in Tidy(split), NEW d,
           d = Merge(done, m, apart, split), Full(done), m.content # << >>
    PROVE  Full(d)
<1>1. Appends(d, done, m, apart) \/ \E f, l, x : Extends(d, done, m, apart, split, f, l, x)
  BY MergeCases
<1>2. CASE Appends(d, done, m, apart)
  <2>1. ToSet(done \o <<m>>) = ToSet(done) \cup {m}
    BY OneMore
  <2> QED
    BY <1>2, <2>1 DEF Appends, Full
<1>3. CASE \E f, l, x : Extends(d, done, m, apart, split, f, l, x)
  <2>1. PICK f, l, x : Extends(d, done, m, apart, split, f, l, x)
    BY <1>3
  <2>2. /\ f \in Seq(Tidy(split)) /\ l \in Tidy(split) /\ x \in Tidy(split) /\ d = f \o <<x>> /\ done = f \o <<l>>
        /\ l.role = m.role /\ x = Join(l, m, split)
    BY <2>1 DEF Extends
  <2>3. ToSet(f \o <<x>>) = ToSet(f) \cup {x}
    BY <2>2, OneMore
  <2>4. ToSet(f \o <<l>>) = ToSet(f) \cup {l}
    BY <2>2, OneMore
  <2>5. x.content = l.content \o m.content
    BY <2>2, JoinContent
  <2>6. l.content \in Seq(Blocks) /\ m.content \in Seq(Blocks)
    BY <2>2, TidyWire
  <2>7. x.content # << >>
    BY <2>5, <2>6, ConcatEmptySeq
  <2> QED
    BY <2>2, <2>3, <2>4, <2>7 DEF Full
<1> QED
  BY <1>1, <1>2, <1>3

\* Merging keeps the first block of the conversation.
LEMMA MergeHead ==
    ASSUME NEW split \in BOOLEAN, NEW apart, NEW done \in Seq(Tidy(split)), NEW m \in Tidy(split), NEW d,
           d = Merge(done, m, apart, split), NEW b, IF done = << >> THEN Opens(m, b) ELSE Opens(Head(done), b)
    PROVE  Opens(Head(d), b)
<1>0. \A f \in Seq(Tidy(split)), x \in Tidy(split) : Head(f \o <<x>>) = IF f = << >> THEN x ELSE Head(f)
  <2> SUFFICES ASSUME NEW f \in Seq(Tidy(split)), NEW x \in Tidy(split)
               PROVE  Head(f \o <<x>>) = IF f = << >> THEN x ELSE Head(f)
    OBVIOUS
  <2>1. CASE f = << >>
    BY <2>1
  <2>2. CASE f # << >>
    <3>1. Len(f) > 0
      BY <2>2
    <3> QED
      BY <2>2, <3>1
  <2> QED
    BY <2>1, <2>2
<1>1. Appends(d, done, m, apart) \/ \E f, l, x : Extends(d, done, m, apart, split, f, l, x)
  BY MergeCases
<1>2. CASE Appends(d, done, m, apart)
  BY <1>0, <1>2 DEF Appends
<1>3. CASE \E f, l, x : Extends(d, done, m, apart, split, f, l, x)
  <2>1. PICK f, l, x : Extends(d, done, m, apart, split, f, l, x)
    BY <1>3
  <2>2. /\ f \in Seq(Tidy(split)) /\ l \in Tidy(split) /\ x \in Tidy(split) /\ d = f \o <<x>> /\ done = f \o <<l>>
        /\ x.role = m.role /\ l.role = m.role /\ x = Join(l, m, split)
    BY <2>1 DEF Extends
  <2>3. done # << >>
    BY <2>2, LastOf
  <2>4. Head(done) = (IF f = << >> THEN l ELSE Head(f)) /\ Head(d) = (IF f = << >> THEN x ELSE Head(f))
    BY <1>0, <2>2
  <2>5. ASSUME Opens(l, b) PROVE Opens(x, b)
    <3>1. x.content = l.content \o m.content
      BY <2>2, <2>5, JoinContent DEF Opens
    <3>2. l.content \in Seq(Blocks) /\ m.content \in Seq(Blocks)
      BY <2>2, TidyWire
    <3> DEFINE p == l.content
               q == m.content
    <3>3. p \in Seq(Blocks) /\ q \in Seq(Blocks) /\ p # << >> /\ x.content = p \o q
      BY <2>5, <3>1, <3>2 DEF Opens
    <3> HIDE DEF p, q
    <3>4. p \o q # << >> /\ (p \o q)[1] = p[1]
      BY <3>3
    <3>5. x.content # << >> /\ x.content[1] = l.content[1]
      BY <3>3, <3>4 DEF p
    <3> QED
      BY <2>2, <2>5, <3>5 DEF Opens
  <2> QED
    BY <2>3, <2>4, <2>5
<1> QED
  BY <1>1, <1>2, <1>3

\* Results follow their calls in a part of a conversation, and the next message follows it.
LEMMA ToolsFollowParts ==
    ASSUME NEW X, NEW w \in Seq(X), NEW m \in X, ToolsFollow(w \o <<m>>)
    PROVE  ToolsFollow(w) /\ (m.role = "tool" => w # << >> /\ Answerable(Last(w)))
<1> DEFINE n == Len(w)
           v == w \o <<m>>
<1>1. n \in Nat /\ DOMAIN v = 1 .. (n + 1) /\ DOMAIN w = 1 .. n /\ v[n + 1] = m /\ \A i \in 1 .. n : v[i] = w[i]
  OBVIOUS
<1>2. n > 0 => w # << >>
  OBVIOUS
<1>3. \A i \in DOMAIN v : v[i].role = "tool" => i > 1 /\ Answerable(v[i - 1])
  BY DEF ToolsFollow
<1> HIDE DEF n, v
<1>4. ASSUME NEW i \in 1 .. n, w[i].role = "tool" PROVE i > 1 /\ Answerable(w[i - 1])
  <2>1. i \in DOMAIN v /\ v[i].role = "tool"
    BY <1>1, <1>4
  <2>2. i > 1 /\ Answerable(v[i - 1])
    BY <1>3, <2>1
  <2> DEFINE j == i - 1
  <2>3. j \in 1 .. n
    BY <1>1, <2>2
  <2> HIDE DEF j
  <2>4. v[j] = w[j]
    BY <1>1, <2>3
  <2> QED
    BY <2>2, <2>4 DEF j
<1>5. ASSUME m.role = "tool" PROVE w # << >> /\ Answerable(Last(w))
  <2>1. n + 1 > 1 /\ Answerable(v[(n + 1) - 1])
    BY <1>1, <1>3, <1>5
  <2>2. (n + 1) - 1 = n /\ n \in 1 .. n
    BY <1>1, <2>1
  <2>3. Answerable(v[n]) /\ v[n] = w[n]
    BY <1>1, <2>1, <2>2
  <2> QED
    BY <1>2, <2>2, <2>3 DEF Last, n
<1> QED
  BY <1>1, <1>4, <1>5 DEF ToolsFollow

\* A round of coalescing says the same, keeps results behind their calls, and alternates the
\* roles.
LEMMA CoalesceStep ==
    ASSUME NEW split \in BOOLEAN, NEW apart, NEW c, NEW done, NEW w, NEW m \in Tidy(split),
           Coalesced(done, w, apart, split, c), NEW d, NEW u, d = Merge(done, m, apart, split), u = w \o <<m>>
    PROVE  Coalesced(d, u, apart, split, c)
<1>0. done \in Seq(Tidy(split)) /\ w \in Seq(Tidy(split)) /\ (w # << >> => done # << >>) /\ (w = << >> => done = << >>)
  BY DEF Coalesced
<1>1. d \in Seq(Tidy(split)) /\ d # << >>
  BY <1>0, MergeCases
<1>2. u \in Seq(Tidy(split)) /\ u # << >> /\ Last(u) = m
  BY <1>0, LastOf
<1>3. Carries(d, u, c)
  <2>1. Carries(done, w, c)
    BY DEF Coalesced
  <2> QED
    BY <1>0, <2>1, MergeCarries
<1>4. Alternates(d, apart)
  <2>1. Alternates(done, apart)
    BY DEF Coalesced
  <2> QED
    BY <1>0, <2>1, MergeAlternates
<1>5. ASSUME "tool" \in apart, ToolsFollow(u) PROVE ToolsFollow(d)
  <2>1. ToolsFollow(w) /\ (m.role = "tool" => w # << >> /\ Answerable(Last(w)))
    BY <1>0, <1>5, ToolsFollowParts
  <2>2. ToolsFollow(done) /\ (m.role = "tool" => done # << >> /\ Answerable(Last(done)))
    BY <1>0, <1>5, <2>1 DEF Coalesced
  <2> QED
    BY <1>0, <1>5, <2>2, MergeTools
<1>6. ASSUME Answerable(Last(u)) PROVE Answerable(Last(d))
  BY <1>0, <1>2, <1>6, MergeAnswerable
<1>7. ASSUME MentionsJson(u) PROVE MentionsJson(d)
  <2>1. \A s : MentionsJson(s) <=> \E y \in ToSet(s) : MentionedIn(y)
    BY DEF MentionsJson, MentionedIn, ToSet
  <2>2. ToSet(u) = ToSet(w) \cup {m}
    BY <1>0, OneMore
  <2>3. MentionsJson(w) \/ MentionedIn(m)
    BY <1>7, <2>1, <2>2
  <2>4. MentionsJson(done) \/ MentionedIn(m)
    BY <2>3 DEF Coalesced
  <2> QED
    BY <1>0, <2>4, MergeMentions
<1>8. ASSUME ~split, Full(u) PROVE Full(d)
  <2>1. ToSet(u) = ToSet(w) \cup {m}
    BY <1>0, OneMore
  <2>2. Full(w) /\ m.content # << >>
    BY <1>8, <2>1 DEF Full
  <2>3. Full(done)
    BY <1>8, <2>2 DEF Coalesced
  <2> QED
    BY <1>0, <1>8, <2>2, <2>3, MergeFull
<1>9. ASSUME NEW b, Opens(Head(u), b) PROVE Opens(Head(d), b)
  <2>1. CASE w = << >>
    <3>1. Head(u) = m
      BY <2>1
    <3>2. done = << >> /\ Opens(m, b)
      BY <1>0, <1>9, <2>1, <3>1
    <3>3. IF done = << >> THEN Opens(m, b) ELSE Opens(Head(done), b)
      BY <3>2
    <3> QED
      BY <1>0, <3>3, MergeHead
  <2>2. CASE w # << >>
    <3>1. Head(u) = Head(w)
      BY <1>0, <2>2
    <3>2. done # << >> /\ Opens(Head(done), b)
      BY <1>0, <1>9, <2>2, <3>1 DEF Coalesced
    <3>3. IF done = << >> THEN Opens(m, b) ELSE Opens(Head(done), b)
      BY <3>2
    <3> QED
      BY <1>0, <3>3, MergeHead
  <2> QED
    BY <2>1, <2>2
<1> QED
  BY <1>1, <1>2, <1>3, <1>4, <1>5, <1>6, <1>7, <1>8, <1>9 DEF Coalesced

\* What the merging of a conversation keeps.
LEMMA MergedIs ==
    ASSUME NEW split \in BOOLEAN, NEW apart, NEW c, NEW v \in Seq(Tidy(split))
    PROVE  Coalesced(Merged(v, apart, split), v, apart, split, c)
<1> DEFINE X == Tidy(split)
           t == [i \in DOMAIN v |-> <<v[i]>>]
           n == Len(v)
           P == Concatenations(t)
           D == Merges(v, apart, split)
           S == {i \in 0 .. n : Coalesced(D[i], P[i], apart, split, c)}
<1>1. n \in Nat /\ DOMAIN v = 1 .. n /\ \A i \in 1 .. n : v[i] \in X
  OBVIOUS
<1>2. t = [i \in 1 .. n |-> <<v[i]>>]
  BY <1>1
<1>3. Flatten(t) = v
  BY FlattenSingles
<1>4. D[0] = << >> /\ \A i \in 1 .. n : D[i] = Merge(D[i - 1], v[i], apart, split)
  BY <1>1, MergesUnfold
<1>5. Merged(v, apart, split) = D[n]
  BY DEF Merged
<1> HIDE DEF t, n
<1>6. Len(t) = n /\ \A i \in 1 .. n : t[i] = <<v[i]>>
  BY <1>1, <1>2
<1>7. P[0] = << >> /\ \A i \in 1 .. n : P[i] = P[i - 1] \o t[i]
  BY <1>1, <1>6, ConcatenationsUnfold
<1>8. P[n] = v
  BY <1>3, <1>6 DEF Flatten
<1> HIDE DEF X, P, D
<1>9. 0 \in S
  <2>1. << >> \in Seq(Tidy(split))
    OBVIOUS
  <2>2. Carries(<< >>, << >>, c) /\ Alternates(<< >>, apart) /\ ToolsFollow(<< >>) /\ ~MentionsJson(<< >>) /\ Full(<< >>)
    BY DEF Carries, SaidAlike, Alternates, ToolsFollow, MentionsJson, Full, ToSet
  <2>3. Coalesced(<< >>, << >>, apart, split, c)
    BY <2>1, <2>2 DEF Coalesced
  <2> QED
    BY <1>1, <1>4, <1>7, <2>3
<1>10. ASSUME NEW i \in 1 .. n, i - 1 \in S PROVE i \in S
  <2>1. Coalesced(D[i - 1], P[i - 1], apart, split, c) /\ v[i] \in Tidy(split)
    BY <1>1, <1>10 DEF X
  <2> DEFINE a == D[i - 1]
             p == P[i - 1]
             m == v[i]
  <2>2. D[i] = Merge(a, m, apart, split) /\ P[i] = p \o <<m>> /\ i \in 0 .. n
    <3>1. D[i] = Merge(a, m, apart, split)
      BY <1>4
    <3>2. P[i] = p \o t[i] /\ t[i] = <<m>>
      BY <1>6, <1>7
    <3> QED
      BY <1>1, <3>1, <3>2
  <2>3. Coalesced(a, p, apart, split, c) /\ m \in Tidy(split)
    BY <2>1
  <2> DEFINE d == D[i]
             u == P[i]
  <2>4. d = Merge(a, m, apart, split) /\ u = p \o <<m>>
    BY <2>2
  <2> HIDE DEF a, p, m, d, u
  <2>5. Coalesced(d, u, apart, split, c)
    BY <2>3, <2>4, CoalesceStep
  <2> QED
    BY <2>2, <2>5 DEF d, u
<1> HIDE DEF S
<1>11. \A i \in 0 .. n : i \in S
  BY <1>1, <1>9, <1>10, Rounds
<1>12. n \in S
  BY <1>1, <1>11
<1> QED
  BY <1>5, <1>8, <1>12 DEF S

\* No file and no result in what the assistant is made to say.
LEMMA OpenAITidy ==
    ASSUME NEW m \in Messages(Speakers), OpenAIMessages(m).ok
    PROVE  TidySeq(OpenAIMessages(m).value)
<1>1. CASE m.role = "user"
  <2> DEFINE content == m.content
             a == ToolMessages(content)
             b == NonEmpty("user", OfType(content, {"text", "image", "file", "unknown"}))
  <2>1. content \in Seq(Blocks)
    BY DEF Messages
  <2>2. OpenAIMessages(m).value = a \o b
    BY <1>1 DEF OpenAIMessages, OpenAIUser, Refused, Failed, Ok
  <2>3. a \in Seq(WireMessages) /\ \A i \in DOMAIN a : a[i].role = "tool"
    BY <2>1, ToolMessagesAre
  <2>4. OfType(content, {"text", "image", "file", "unknown"}) \in Seq(Blocks)
    BY <2>1, OfTypeIs
  <2>5. b \in Seq(WireMessages)
    BY <2>4, NonEmptyIs
  <2>6. \A i \in DOMAIN b : b[i].role = "user"
    BY DEF NonEmpty, Message
  <2> HIDE DEF a, b
  <2>7. ToSet(a \o b) = ToSet(a) \cup ToSet(b)
    BY <2>3, <2>5, ConcatElements
  <2>8. \A x \in ToSet(a) \cup ToSet(b) : x.role # "assistant"
    BY <2>3, <2>6 DEF ToSet
  <2> QED
    BY <2>2, <2>7, <2>8 DEF TidySeq
<1>2. CASE m.role = "assistant"
  <2> DEFINE content == m.content
             P == {"text", "image", "unknown"}
             x == Split(content, P)
  <2>1. content \in Seq(Blocks)
    BY DEF Messages
  <2>2. OpenAIMessages(m).value = NonEmpty("assistant", x)
    BY <1>2 DEF OpenAIMessages, OpenAIAssistant, Refused, Failed, Ok, Split
  <2>3. ~Has(content, {"file", "tool_result"})
    BY <1>2 DEF OpenAIMessages, OpenAIAssistant, Refused, Failed, Ok
  <2>4. P \subseteq Carried \ {"tool_call"} /\ Carried \ (P \cup {"tool_call"}) = {"file", "tool_result"}
    BY DEF Carried
  <2>5. ~Has(content, Carried \ (P \cup {"tool_call"}))
    BY <2>3, <2>4
  <2>6. {"file", "tool_result"} \cap (P \cup {"tool_call"}) = {}
    OBVIOUS
  <2> HIDE DEF P
  <2>7. ToSet(x) = {b \in ToSet(content) : b.type \in P \cup {"tool_call"}}
    BY <2>1, <2>4, <2>5, SplitKeeps
  <2> HIDE DEF x, content
  <2>8. ~Has(x, {"file", "tool_result"})
    BY <2>6, <2>7 DEF Has, ToSet
  <2>9. \A y \in ToSet(NonEmpty("assistant", x)) : y.content = x
    BY DEF NonEmpty, Message, ToSet
  <2> QED
    BY <2>2, <2>8, <2>9 DEF TidySeq
<1> QED
  BY <1>1, <1>2 DEF Messages, Speakers

\* The converted conversation can be merged.
LEMMA OpenAIAllTidy ==
    ASSUME NEW c, Callable(c), Each(c.messages, OpenAIMessages).ok
    PROVE  /\ Prepared(Each(c.messages, OpenAIMessages).value, c)
           /\ TidySeq(Each(c.messages, OpenAIMessages).value)
<1> DEFINE ms == c.messages
           n == Len(ms)
           r == [i \in DOMAIN ms |-> OpenAIMessages(ms[i])]
           v == [i \in 1 .. n |-> r[i].value]
<1>1. ms \in Seq(Messages(Speakers)) /\ n \in Nat /\ DOMAIN ms = 1 .. n /\ \A i \in 1 .. n : ms[i] \in Messages(Speakers)
  BY DEF Callable
<1>2. \A i \in 1 .. n : r[i] = OpenAIMessages(ms[i])
  BY <1>1
<1>3. DOMAIN r = 1 .. n /\ Each(ms, OpenAIMessages) = All(r)
  BY <1>1 DEF Each
<1>4. \A i \in 1 .. n : r[i].ok \in BOOLEAN
  <2>1. \A m : OpenAIMessages(m).ok \in BOOLEAN
    BY DEF OpenAIMessages, OpenAIUser, OpenAIAssistant, Ok, Refused, Failed
  <2> QED
    BY <1>2, <2>1
<1> HIDE DEF ms, n, r
<1>5. (\A i \in 1 .. n : r[i].ok) /\ All(r).value = Flatten(v)
  <2>1. All(r).ok
    BY <1>3 DEF ms
  <2> QED
    BY <1>1, <1>3, <1>4, <2>1, AllOk
<1>6. ConvertsEach(ms, r, c)
  <2>1. \A i \in 1 .. n : r[i].ok => Converted(ms[i], r[i].value, c)
    BY <1>1, <1>2, OpenAIConverted
  <2> QED
    BY <1>1, <1>3, <1>4, <2>1 DEF ConvertsEach
<1>7. Prepared(All(r).value, c)
  <2>1. All(r).ok
    BY <1>3 DEF ms
  <2> QED
    BY <1>6, <2>1, AllConverted DEF ms
<1>8. \A i \in 1 .. n : TidySeq(v[i]) /\ v[i] \in Seq(ChatMessages)
  <2>1. \A i \in 1 .. n : v[i] = OpenAIMessages(ms[i]).value /\ OpenAIMessages(ms[i]).ok
    BY <1>2, <1>5
  <2>2. \A i \in 1 .. n : TidySeq(v[i])
    BY <1>1, <2>1, OpenAITidy
  <2>3. \A i \in 1 .. n : v[i] \in Seq(ChatMessages)
    BY <1>1, <1>5, <1>6 DEF ConvertsEach, Converted
  <2> QED
    BY <2>2, <2>3
<1>9. v \in Seq(Seq(ChatMessages)) /\ DOMAIN v = 1 .. n
  BY <1>1, <1>8
<1> HIDE DEF v
<1>10. ToSet(Flatten(v)) = UNION {ToSet(v[i]) : i \in DOMAIN v}
  BY <1>9, FlattenElements
<1>11. TidySeq(Flatten(v))
  BY <1>8, <1>9, <1>10 DEF TidySeq
<1> QED
  BY <1>3, <1>5, <1>7, <1>11 DEF ms

\* DeepSeek's messages: those of OpenAI's API, merged.
LEMMA DeepSeekConversation ==
    ASSUME NEW c, Callable(c), NEW s, NEW v, Preamble(s, c), Prepared(v, c), TidySeq(v), NEW hint,
           hint /\ c.json = "on" => MentionsJson(s \o v)
    PROVE  Kept(Coalesce(s \o v), c, hint) /\ Alternates(Coalesce(s \o v), {"tool"})
<1> DEFINE u == s \o v
           d == Coalesce(u)
<1>1. /\ u \in Seq(WireMessages)
      /\ Carries(u, c.messages, c)
      /\ ToolsFollow(u)
  BY OpenedCarries
<1>2. /\ s \in Seq(WireMessages)
      /\ s # << >> => Len(s) = 1 /\ s[1].role \in {"system", "user"} /\ Len(s[1].content) = 1 /\ s[1].content[1].type = "text"
      /\ c.system # << >> => s # << >> /\ IsSuffix(c.system, s[1].content[1].body)
  BY PreambleSays
<1>3. v \in Seq(WireMessages)
  <2>1. ChatMessages \subseteq WireMessages
    BY DEF ChatMessages, WireMessages, Messages
  <2> QED
    BY <2>1, SeqMonotonic DEF Prepared
<1>4. u \in Seq(Tidy(TRUE))
  <2>1. TidySeq(s)
    BY <1>2 DEF TidySeq, ToSet
  <2>2. ToSet(u) = ToSet(s) \cup ToSet(v)
    BY <1>2, <1>3, ConcatElements
  <2>3. TidySeq(u)
    BY <2>1, <2>2 DEF TidySeq
  <2> HIDE DEF u
  <2>4. \A i \in 1 .. Len(u) : u[i] \in Tidy(TRUE)
    BY <1>1, <2>3 DEF TidySeq, ToSet, Tidy
  <2> DEFINE X == Tidy(TRUE)
  <2>5. u \in Seq(WireMessages) /\ \A i \in 1 .. Len(u) : u[i] \in X
    BY <1>1, <2>4
  <2> HIDE DEF X
  <2>6. u \in Seq(X)
    BY <2>5
  <2> QED
    BY <2>6 DEF X
<1>5. d = Merged(u, {"tool"}, TRUE)
  BY DEF Coalesce
<1> HIDE DEF u, d
<1>6. Coalesced(d, u, {"tool"}, TRUE, c)
  BY <1>4, <1>5, MergedIs
<1>7. d \in Seq(WireMessages)
  BY <1>6, TidyWire DEF Coalesced
<1>8. Carries(d, c.messages, c)
  BY <1>1, <1>6 DEF Coalesced, Carries, SaidAlike
<1>9. ToolsFollow(d) /\ Alternates(d, {"tool"}) /\ (hint /\ c.json = "on" => MentionsJson(d))
  BY <1>1, <1>6 DEF Coalesced, u
<1>10. ASSUME c.system # << >> PROVE IsSuffix(c.system, Head(d).content[1].body)
  <2> DEFINE b == s[1].content[1]
  <2>1. s # << >> /\ Len(s) = 1 /\ s[1].role \in {"system", "user"} /\ Len(s[1].content) = 1 /\ IsSuffix(c.system, b.body)
    BY <1>2, <1>10
  <2>2. Opens(s[1], b)
    <3>1. s[1].content # << >>
      BY <2>1
    <3> QED
      BY <2>1, <3>1 DEF Opens
  <2>3. u # << >> /\ Head(u) = s[1]
    BY <1>2, <1>3, <2>1 DEF u
  <2> HIDE DEF b
  <2>4. Opens(Head(d), b)
    BY <1>6, <2>2, <2>3 DEF Coalesced
  <2> QED
    BY <2>1, <2>4 DEF Opens
<1> QED
  BY <1>7, <1>8, <1>9, <1>10 DEF Kept, d, u

\* What DeepSeek is sent.
LEMMA DeepSeekRequests ==
    ASSUME NEW c, Callable(c), DeepSeekRequest(c).ok
    PROVE  /\ Kept(DeepSeekRequest(c).value.messages, c, c.model # "reasoner")
           /\ Alternates(DeepSeekRequest(c).value.messages, {"tool"})
           /\ Offers(DeepSeekRequest(c).value, OpenAITools(c))
<1> DEFINE all == Each(c.messages, OpenAIMessages)
           v == all.value
           s == IF c.model = "reasoner"
                THEN IF c.system = <<>> THEN <<>> ELSE <<Message("user", <<Text(c.system)>>)>>
                ELSE OpenAISystem(c.system, c.json, v)
           messages == DeepSeekMessages(c)
<1>1. messages = IF all.ok THEN Ok(Coalesce(s \o v)) ELSE all
  BY DEF DeepSeekMessages
<1>2. all.ok \in BOOLEAN
  <2> DEFINE r == [i \in DOMAIN c.messages |-> OpenAIMessages(c.messages[i])]
  <2>1. PICK n \in Nat : DOMAIN c.messages = 1 .. n
    BY DEF Callable
  <2>2. \A m : OpenAIMessages(m).ok \in BOOLEAN
    BY DEF OpenAIMessages, OpenAIUser, OpenAIAssistant, Ok, Refused, Failed
  <2>3. DOMAIN r = 1 .. n /\ \A i \in 1 .. n : r[i].ok \in BOOLEAN
    BY <2>1, <2>2
  <2>4. all = All(r)
    BY DEF Each
  <2> HIDE DEF r, all
  <2> QED
    BY <2>3, <2>4, AllBoolean
<1>3. messages.ok \in BOOLEAN
  <2> HIDE DEF messages, all, s
  <2> QED
    BY <1>1, <1>2 DEF Ok
<1>4. /\ messages.ok
      /\ DeepSeekRequest(c).value.messages = messages.value
      /\ Offers(DeepSeekRequest(c).value, OpenAITools(c))
  <2>1. DeepSeekRequest(c) = Send(c, messages, << >>, OpenAITools(c), DeepSeekFormat(c), TRUE)
    BY DEF DeepSeekRequest
  <2> DEFINE tools == OpenAITools(c)
             format == DeepSeekFormat(c)
             system == << >>
             reported == TRUE
  <2>2. DeepSeekRequest(c) = Send(c, messages, system, tools, format, reported)
    BY <2>1
  <2> HIDE DEF messages, tools, format, system, reported
  <2>3. /\ messages.ok
        /\ DeepSeekRequest(c).value.messages = messages.value
        /\ DeepSeekRequest(c).value.tools = tools.tools
        /\ DeepSeekRequest(c).value.choice = tools.choice
    BY <1>3, <2>2, SendOk
  <2> QED
    BY <2>3 DEF Offers, tools
<1>5. all.ok
  BY <1>1, <1>4 DEF Ok
<1>6. Prepared(v, c) /\ TidySeq(v)
  BY <1>5, OpenAIAllTidy
<1>7. messages.value = Coalesce(s \o v)
  BY <1>1, <1>5 DEF Ok
<1> HIDE DEF v, messages
<1>8. v \in Seq(WireMessages)
  <2>1. ChatMessages \subseteq WireMessages
    BY DEF ChatMessages, WireMessages, Messages
  <2> QED
    BY <1>6, <2>1, SeqMonotonic DEF Prepared
<1>9. /\ Preamble(OpenAISystem(c.system, c.json, v), c)
      /\ c.json = "on" => MentionsJson(OpenAISystem(c.system, c.json, v) \o v)
  BY <1>8, SystemIsPreamble
<1>10. Preamble(s, c)
  <2>1. CASE c.model = "reasoner" /\ c.system = << >>
    BY <2>1 DEF Preamble
  <2>2. CASE c.model = "reasoner" /\ c.system # << >>
    <3>1. c.system \in Seq(Words) /\ c.system \in Injected(c)
      BY DEF Callable, Injected
    <3>2. IsSuffix(c.system, c.system)
      BY <3>1, SuffixOfItself
    <3>3. s = <<Message("user", <<Text(c.system)>>)>>
      BY <2>2
    <3> QED
      BY <3>1, <3>2, <3>3 DEF Preamble
  <2>3. CASE c.model # "reasoner"
    BY <1>9, <2>3
  <2> QED
    BY <2>1, <2>2, <2>3
<1>11. c.model # "reasoner" /\ c.json = "on" => MentionsJson(s \o v)
  BY <1>9
<1> HIDE DEF s
<1>12. Kept(Coalesce(s \o v), c, c.model # "reasoner") /\ Alternates(Coalesce(s \o v), {"tool"})
  BY <1>6, <1>10, <1>11, DeepSeekConversation
<1> QED
  BY <1>4, <1>7, <1>12

-----------------------------------------------------------------------------
(***************************************************************************)
(* Conversions block by block                                               *)
(***************************************************************************)
\* Blocks converted one by one, some dropped, say the same of the types that are not
\* dropped.
LEMMA BlocksConverted ==
    ASSUME NEW content \in Seq(Blocks), NEW r, NEW T, NEW c, Blockwise(content, r, T, c), All(r).ok
    PROVE  All(r).value \in Seq(Blocks) /\ \A type \in T : Say(All(r).value, type, c) = Say(content, type, c)
<1> DEFINE n == Len(content)
           v == [i \in 1 .. n |-> r[i].value]
<1>1. n \in Nat /\ DOMAIN content = 1 .. n /\ \A i \in 1 .. n : content[i] \in Blocks
  OBVIOUS
<1>2. DOMAIN r = 1 .. n /\ \A i \in 1 .. n : r[i].ok \in BOOLEAN
  BY <1>1 DEF Blockwise
<1> HIDE DEF n
<1>3. (\A i \in 1 .. n : r[i].ok) /\ All(r).value = Flatten(v)
  BY <1>1, <1>2, AllOk
<1>4. \A i \in 1 .. n : v[i] = <<content[i]>> \/ (v[i] = << >> /\ Dropped(content[i], T, c))
  BY <1>1, <1>3 DEF Blockwise
<1>5. v \in Seq(Seq(Blocks)) /\ DOMAIN v = 1 .. n
  <2>1. \A i \in 1 .. n : v[i] \in Seq(Blocks)
    <3>1. \A i \in 1 .. n : <<content[i]>> \in Seq(Blocks)
      BY <1>1, SingleType
    <3>2. << >> \in Seq(Blocks)
      OBVIOUS
    <3> HIDE DEF v
    <3> QED
      BY <1>4, <3>1, <3>2
  <2> QED
    BY <1>1, <2>1
<1> HIDE DEF v
<1>6. Flatten(v) \in Seq(Blocks)
  BY <1>5, FlattenType
<1>7. ASSUME NEW type \in T PROVE Say(Flatten(v), type, c) = Say(content, type, c)
  <2> DEFINE S == Sayable(type, c)
             h == FilterOf(S, Blocks)
  <2>1. IsHom(h, Blocks, Blocks)
    BY FilterHom
  <2>2. \A s \in Seq(Blocks) : h[s] = Say(s, type, c)
    BY DEF FilterOf, Say
  <2> HIDE DEF h, S
  <2>3. ASSUME NEW i \in 1 .. n PROVE h[v[i]] = h[<<content[i]>>]
    <3>1. CASE v[i] = <<content[i]>>
      BY <3>1
    <3>2. CASE v[i] = << >> /\ Dropped(content[i], T, c)
      <4>1. h[<< >>] = << >>
        BY <2>1 DEF IsHom
      <4>2. <<content[i]>> \in Seq(Blocks)
        BY <1>1, SingleType
      <4>3. Say(<<content[i]>>, type, c) = One(Sayable(type, c), content[i])
        BY <1>1, SayOne
      <4>4. Say(<<content[i]>>, type, c) = << >>
        BY <3>2, <4>3 DEF Dropped, One
      <4> QED
        BY <2>2, <3>2, <4>1, <4>2, <4>4
    <3> QED
      BY <1>4, <3>1, <3>2
  <2>4. SeenAlike(h, v, h, content)
    BY <1>1, <1>5, <2>3 DEF SeenAlike
  <2>5. h[Flatten(v)] = h[content]
    BY <1>5, <2>1, <2>4, HomConverts
  <2> QED
    BY <1>6, <2>2, <2>5
<1> QED
  BY <1>3, <1>6, <1>7

\* A message converted block by block says the same.
LEMMA BlockwiseRewrites ==
    ASSUME NEW m \in Messages(Speakers), NEW r, NEW T, NEW c, Blockwise(m.content, r, T, c), NEW x,
           x = IF All(r).ok THEN Ok(<<Message(m.role, All(r).value)>>) ELSE All(r)
    PROVE  Rewrites(m, x, T, c)
<1>1. m.content \in Seq(Blocks)
  BY DEF Messages
<1>2. PICK n \in Nat : DOMAIN m.content = 1 .. n
  BY <1>1
<1>3. All(r).ok \in BOOLEAN
  BY <1>2, AllBoolean DEF Blockwise
<1>4. CASE All(r).ok
  <2>1. All(r).value \in Seq(Blocks) /\ \A type \in T : Say(All(r).value, type, c) = Say(m.content, type, c)
    BY <1>1, <1>4, BlocksConverted
  <2>2. x.ok /\ x.value = <<Message(m.role, All(r).value)>> /\ x.ok \in BOOLEAN
    BY <1>4 DEF Ok
  <2> QED
    BY <2>1, <2>2 DEF Rewrites
<1>5. CASE ~All(r).ok
  BY <1>3, <1>5 DEF Rewrites
<1> QED
  BY <1>3, <1>4, <1>5

\* The messages of a user and an assistant are wire messages.
LEMMA TalkWire == Talk \subseteq WireMessages /\ \A s \in Seq(Talk) : s \in Seq(WireMessages)
<1>1. Talk \subseteq WireMessages
  BY DEF Talk, WireMessages, Messages, Speakers
<1> QED
  BY <1>1, SeqMonotonic

\* The messages, converted one by one, tell what the conversation told.
LEMMA TellsAll ==
    ASSUME NEW c, Callable(c), NEW r, NEW T, RewritesEach(c.messages, r, T, c)
    PROVE  All(r).ok \in BOOLEAN /\ (All(r).ok => Tells(All(r).value, c, T))
<1> DEFINE ms == c.messages
           n == Len(ms)
           v == [i \in 1 .. n |-> r[i].value]
<1>1. ms \in Seq(Talk) /\ n \in Nat /\ DOMAIN ms = 1 .. n /\ \A i \in 1 .. n : ms[i] \in Talk
  BY DEF Callable, Talk
<1>2. DOMAIN r = 1 .. n /\ \A i \in 1 .. n : Rewrites(ms[i], r[i], T, c)
  BY <1>1 DEF RewritesEach
<1> HIDE DEF ms, n
<1>3. \A i \in 1 .. n : r[i].ok \in BOOLEAN
  BY <1>2 DEF Rewrites
<1>4. All(r).ok \in BOOLEAN
  BY <1>1, <1>2, <1>3, AllBoolean
<1> SUFFICES ASSUME All(r).ok
             PROVE  Tells(All(r).value, c, T)
  BY <1>4
<1>5. (\A i \in 1 .. n : r[i].ok) /\ All(r).value = Flatten(v)
  BY <1>1, <1>2, <1>3, AllOk
<1>6. ASSUME NEW i \in 1 .. n
      PROVE  v[i] \in Seq(Talk) /\ \A role \in Speakers, type \in T : Said(v[i], role, type, c) = Said(<<ms[i]>>, role, type, c)
  <2> DEFINE m == ms[i]
  <2>1. PICK content \in Seq(Blocks) : /\ r[i].value = <<Message(m.role, content)>>
                                       /\ \A type \in T : Say(content, type, c) = Say(m.content, type, c)
    BY <1>2, <1>5 DEF Rewrites
  <2> DEFINE x == Message(m.role, content)
  <2>2. m \in Talk
    BY <1>1
  <2>3. v[i] = <<x>>
    BY <2>1
  <2> HIDE DEF m
  <2>4. x \in Talk /\ x.role = m.role /\ x.content = content
    BY <2>2 DEF Talk, Messages, Message
  <2> HIDE DEF x
  <2>5. <<x>> \in Seq(Talk) /\ x \in WireMessages /\ m \in WireMessages
    BY <2>2, <2>4, TalkWire, SingleType
  <2>6. ASSUME NEW role \in Speakers, NEW type \in T PROVE Said(<<x>>, role, type, c) = Said(<<m>>, role, type, c)
    <3>1. Said(<<x>>, role, type, c) = IF Speaker(x.role) = role THEN Say(x.content, type, c) ELSE << >>
      BY <2>5, SaidOne
    <3>2. Said(<<m>>, role, type, c) = IF Speaker(m.role) = role THEN Say(m.content, type, c) ELSE << >>
      BY <2>5, SaidOne
    <3> QED
      BY <2>1, <2>4, <3>1, <3>2
  <2> QED
    BY <2>3, <2>5, <2>6 DEF m
<1>7. v \in Seq(Seq(Talk)) /\ DOMAIN v = 1 .. n
  <2>1. \A i \in 1 .. n : v[i] \in Seq(Talk)
    BY <1>6
  <2> QED
    BY <1>1, <2>1
<1> HIDE DEF v
<1>8. Flatten(v) \in Seq(Talk)
  BY <1>7, FlattenType
<1>9. ms \in Seq(WireMessages) /\ v \in Seq(Seq(WireMessages))
  <2>1. ms \in Seq(WireMessages)
    BY <1>1, TalkWire
  <2>2. Seq(Talk) \subseteq Seq(WireMessages)
    BY TalkWire
  <2>3. v \in Seq(Seq(WireMessages))
    BY <1>7, <2>2, SeqMonotonic
  <2> QED
    BY <2>1, <2>3
<1>10. ASSUME NEW role \in Speakers, NEW type \in T PROVE Said(Flatten(v), role, type, c) = Said(ms, role, type, c)
  <2>1. \A i \in DOMAIN ms : Said(v[i], role, type, c) = Said(<<ms[i]>>, role, type, c)
    BY <1>1, <1>6
  <2>2. DOMAIN v = DOMAIN ms
    BY <1>1, <1>7
  <2> QED
    BY <1>9, <2>1, <2>2, SaidConverted
<1> QED
  BY <1>5, <1>8, <1>10 DEF Tells, SaidAlike, ms

\* The messages that have become empty are left out.
LEMMA WithoutEmptyIs ==
    ASSUME NEW w \in Seq(Talk)
    PROVE  /\ WithoutEmpty(w) \in Seq(Talk) /\ Full(WithoutEmpty(w))
           /\ ToSet(WithoutEmpty(w)) = {x \in ToSet(w) : x.content # << >>}
<1> DEFINE S == {m \in ToSet(w) : m.content # << >>}
<1>1. WithoutEmpty(w) = Filter(w, S)
  BY DEF WithoutEmpty
<1>2. \A x \in S : x.content # << >>
  OBVIOUS
<1>3. S = {x \in ToSet(w) : x.content # << >>} /\ S \subseteq ToSet(w)
  OBVIOUS
<1> HIDE DEF S
<1>4. Filter(w, S) \in Seq(Talk)
  BY FilterParts
<1>5. ToSet(Filter(w, S)) = ToSet(w) \cap S
  BY FilterElements
<1>6. ToSet(Filter(w, S)) = S
  BY <1>3, <1>5
<1> QED
  BY <1>1, <1>2, <1>3, <1>4, <1>6 DEF Full

\* The empty messages say nothing.
LEMMA WithoutEmptySays ==
    ASSUME NEW w \in Seq(Talk), NEW role \in Speakers, NEW type, NEW c
    PROVE  Said(WithoutEmpty(w), role, type, c) = Said(w, role, type, c)
<1> DEFINE S == {m \in ToSet(w) : m.content # << >>}
           v == [i \in DOMAIN w |-> IF w[i] \in S THEN <<w[i]>> ELSE << >>]
           n == Len(w)
<1>1. w \in Seq(WireMessages) /\ n \in Nat /\ DOMAIN w = 1 .. n /\ \A i \in 1 .. n : w[i] \in Talk /\ w[i] \in WireMessages
  BY TalkWire
<1>2. WithoutEmpty(w) = Flatten(v)
  BY DEF WithoutEmpty, Filter
<1>5. \A i \in 1 .. n : w[i] \notin S => w[i].content = << >>
  BY <1>1 DEF ToSet
<1>6. DOMAIN v = DOMAIN w /\ \A i \in 1 .. n : v[i] = IF w[i] \in S THEN <<w[i]>> ELSE << >>
  BY <1>1
<1>7. v \in Seq(Seq(WireMessages))
  <2>1. \A i \in 1 .. n : v[i] \in Seq(WireMessages)
    <3>1. \A i \in 1 .. n : <<w[i]>> \in Seq(WireMessages)
      BY <1>1, SingleType
    <3>2. << >> \in Seq(WireMessages)
      OBVIOUS
    <3> HIDE DEF v, S
    <3> QED
      BY <1>6, <3>1, <3>2
  <2>2. v = [i \in 1 .. n |-> v[i]]
    BY <1>1
  <2> HIDE DEF v
  <2> QED
    BY <1>1, <2>1, <2>2
<1> HIDE DEF v, S
<1>8. Said(Flatten(v), role, type, c) = Said(w, role, type, c)
  <2>1. ASSUME NEW i \in DOMAIN w PROVE Said(v[i], role, type, c) = Said(<<w[i]>>, role, type, c)
    <3>1. CASE w[i] \in S
      BY <1>1, <1>6, <3>1
    <3>2. CASE w[i] \notin S
      <4>1. w[i].content = << >> /\ v[i] = << >> /\ w[i] \in WireMessages
        BY <1>1, <1>5, <1>6, <3>2
      <4> DEFINE m == w[i]
      <4> HIDE DEF m
      <4>2. m \in WireMessages /\ m.content = << >>
        BY <4>1 DEF m
      <4>3. Said(<<m>>, role, type, c) = IF Speaker(m.role) = role THEN Say(m.content, type, c) ELSE << >>
        BY <4>2, SaidOne
      <4>4. Said(<< >>, role, type, c) = << >> /\ Say(<< >>, type, c) = << >>
        BY SaidNothing, SayNothing
      <4>5. Said(<<m>>, role, type, c) = << >>
        BY <4>2, <4>3, <4>4
      <4> QED
        BY <4>1, <4>4, <4>5 DEF m
    <3> QED
      BY <3>1, <3>2
  <2>2. DOMAIN v = DOMAIN w /\ w \in Seq(WireMessages)
    BY <1>1, <1>6
  <2> HIDE DEF n
  <2> QED
    BY <1>7, <2>1, <2>2, SaidConverted
<1> QED
  BY <1>2, <1>8

\* Without the empty messages, the same is told and no message is empty.
LEMMA TellsWithoutEmpty ==
    ASSUME NEW c, NEW T, NEW w, Tells(w, c, T)
    PROVE  Tells(WithoutEmpty(w), c, T) /\ Full(WithoutEmpty(w))
<1>1. w \in Seq(Talk)
  BY DEF Tells
<1>2. WithoutEmpty(w) \in Seq(Talk) /\ Full(WithoutEmpty(w))
  BY <1>1, WithoutEmptyIs
<1>3. ASSUME NEW role \in Speakers, NEW type \in T PROVE Said(WithoutEmpty(w), role, type, c) = Said(w, role, type, c)
  BY <1>1, WithoutEmptySays
<1> QED
  BY <1>2, <1>3 DEF Tells, SaidAlike

\* Every message is the user's or the assistant's.
LEMMA Spoken ==
    ASSUME NEW w \in Seq(Talk)
    PROVE  \A i \in 1 .. Len(w) : w[i].role \in Speakers
<1>1. \A i \in 1 .. Len(w) : w[i] \in Talk
  OBVIOUS
<1>2. \A m \in Talk : m.role \in Speakers
  BY DEF Talk, Messages
<1> QED
  BY <1>1, <1>2

\* What the gateway puts into a conversation itself, nobody said.
LEMMA Unheard ==
    ASSUME NEW m, m = Listening \/ m = Prefill, NEW c, NEW role, NEW type
    PROVE  m \in Talk /\ m.role \in Speakers /\ m.content # << >> /\ Said(<<m>>, role, type, c) = << >>
<1>1. PICK word \in {"listening", "json"} : m.role \in Speakers /\ m = Message(m.role, <<Text(<<word>>)>>)
  BY DEF Listening, Prefill, Message, Speakers
<1> DEFINE b == Text(<<word>>)
           body == <<word>>
<1>2. body \in Seq(Words) /\ body \in Injected(c)
  <2>1. word \in Words
    BY DEF Words, Written
  <2>2. body \in Injected(c)
    BY DEF Injected
  <2> QED
    BY <2>1, <2>2
<1>3. b = Text(body)
  OBVIOUS
<1> HIDE DEF body, b
<1>4. b \in Blocks /\ b.type = "text" /\ b.body = body
  BY <1>2, <1>3 DEF Text, Block, Blocks, BlocksOf, BlockTypes
<1> DEFINE content == <<b>>
<1>5. content \in Seq(Blocks) /\ content # << >>
  BY <1>4
<1>6. m = Message(m.role, content)
  BY <1>1 DEF b
<1>7. Say(content, type, c) = << >>
  BY <1>2, <1>4, SayOne DEF One, Sayable
<1> HIDE DEF content
<1>8. m \in Talk /\ m.content = content
  BY <1>1, <1>5, <1>6 DEF Message, Talk, Messages
<1>9. m \in WireMessages
  BY <1>8, TalkWire
<1>10. Said(<<m>>, role, type, c) = IF Speaker(m.role) = role THEN Say(m.content, type, c) ELSE << >>
  BY <1>9, SaidOne
<1> QED
  BY <1>1, <1>5, <1>7, <1>8, <1>10

\* A conversation with one of those in front or at the end.
LEMMA TellsMore ==
    ASSUME NEW m, m = Listening \/ m = Prefill, NEW c, NEW T, NEW w, Tells(w, c, T)
    PROVE  Tells(<<m>> \o w, c, T) /\ Tells(w \o <<m>>, c, T)
<1> DEFINE one == <<m>>
<1>1. one \in Seq(Talk) /\ one \in Seq(WireMessages)
  BY Unheard, TalkWire, SingleType
<1>2. w \in Seq(Talk) /\ w \in Seq(WireMessages)
  BY TalkWire DEF Tells
<1>3. ASSUME NEW role, NEW type PROVE Said(one, role, type, c) = << >>
  BY Unheard
<1> HIDE DEF one
<1>4. one \o w \in Seq(Talk) /\ w \o one \in Seq(Talk)
  BY <1>1, <1>2
<1>5. ASSUME NEW role \in Speakers, NEW type \in T
      PROVE  Said(one \o w, role, type, c) = Said(w, role, type, c) /\ Said(w \o one, role, type, c) = Said(w, role, type, c)
  <2>1. Said(one \o w, role, type, c) = Said(one, role, type, c) \o Said(w, role, type, c)
    BY <1>1, <1>2, SaidConcat
  <2>2. Said(w \o one, role, type, c) = Said(w, role, type, c) \o Said(one, role, type, c)
    BY <1>1, <1>2, SaidConcat
  <2>3. Said(w, role, type, c) \in Seq(Blocks)
    BY <1>2, SaidType
  <2> DEFINE said == Said(w, role, type, c)
  <2>4. << >> \o said = said /\ said \o << >> = said
    <3> HIDE DEF said
    <3> QED
      BY <2>3 DEF said
  <2> QED
    BY <1>3, <2>1, <2>2, <2>4
<1> QED
  BY <1>4, <1>5 DEF Tells, SaidAlike, one

\* The roles still alternate with a message of the other role in front or behind.
LEMMA AlternatesMore ==
    ASSUME NEW X, NEW w \in Seq(X), NEW m \in X, Alternates(w, {})
    PROVE  /\ w = << >> \/ Head(w).role # m.role => Alternates(<<m>> \o w, {})
           /\ w = << >> \/ Last(w).role # m.role => Alternates(w \o <<m>>, {})
<1>1. ASSUME w = << >> \/ Head(w).role # m.role PROVE Alternates(<<m>> \o w, {})
  <2> DEFINE x == <<m>> \o w
  <2>1. Len(x) = Len(w) + 1 /\ x[1] = m /\ \A i \in 1 .. Len(w) : x[i + 1] = w[i]
    OBVIOUS
  <2>2. SUFFICES ASSUME NEW i \in 1 .. (Len(x) - 1), x[i].role = x[i + 1].role
                 PROVE  FALSE
    BY DEF Alternates
  <2> HIDE DEF x
  <2>3. i \in 1 .. Len(w) /\ x[i + 1] = w[i]
    BY <2>1, <2>2
  <2>4. CASE i = 1
    BY <1>1, <2>1, <2>2, <2>3, <2>4
  <2>5. CASE i # 1
    <3> DEFINE j == i - 1
    <3>1. j \in 1 .. (Len(w) - 1) /\ i = j + 1 /\ j \in 1 .. Len(w)
      BY <2>3, <2>5
    <3> HIDE DEF j
    <3>2. x[i] = w[j] /\ x[i + 1] = w[j + 1]
      BY <2>1, <2>3, <3>1
    <3> QED
      BY <2>2, <3>1, <3>2 DEF Alternates
  <2> QED
    BY <2>4, <2>5
<1>2. ASSUME w = << >> \/ Last(w).role # m.role PROVE Alternates(w \o <<m>>, {})
  <2> DEFINE x == w \o <<m>>
  <2>1. Len(x) = Len(w) + 1 /\ x[Len(w) + 1] = m /\ \A i \in 1 .. Len(w) : x[i] = w[i]
    OBVIOUS
  <2>2. SUFFICES ASSUME NEW i \in 1 .. (Len(x) - 1), x[i].role = x[i + 1].role
                 PROVE  FALSE
    BY DEF Alternates
  <2> HIDE DEF x
  <2>3. i \in 1 .. Len(w) /\ x[i] = w[i]
    BY <2>1, <2>2
  <2>4. CASE i = Len(w)
    BY <1>2, <2>1, <2>2, <2>3, <2>4 DEF Last
  <2>5. CASE i # Len(w)
    <3>1. i \in 1 .. (Len(w) - 1) /\ i + 1 \in 1 .. Len(w)
      BY <2>3, <2>5
    <3>2. x[i + 1] = w[i + 1]
      BY <2>1, <3>1
    <3> QED
      BY <2>2, <2>3, <3>1, <3>2 DEF Alternates
  <2> QED
    BY <2>4, <2>5
<1> QED
  BY <1>1, <1>2

\* No message is empty with one more that is not.
LEMMA FullMore ==
    ASSUME NEW X, NEW w \in Seq(X), NEW m \in X, Full(w), m.content # << >>
    PROVE  Full(<<m>> \o w) /\ Full(w \o <<m>>)
<1> DEFINE one == <<m>>
<1>1. one \in Seq(X) /\ ToSet(one) = {m}
  BY DEF ToSet
<1> HIDE DEF one
<1>2. ToSet(one \o w) = ToSet(one) \cup ToSet(w) /\ ToSet(w \o one) = ToSet(w) \cup ToSet(one)
  BY <1>1, ConcatElements
<1> QED
  BY <1>1, <1>2 DEF Full, one

\* The messages that make a conversation start and end with the user ("[listening]") tell
\* nothing.
LEMMA ListenTells ==
    ASSUME NEW c, NEW T, NEW w, Tells(w, c, T), NEW x, x = Listen(w)
    PROVE  /\ Tells(x, c, T) /\ Listens(x)
           /\ Full(w) => Full(x)
           /\ Alternates(w, {}) => Alternates(x, {})
<1> DEFINE opened == IF w = << >> \/ Head(w).role # "user" THEN <<Listening>> \o w ELSE w
<1>1. w \in Seq(Talk) /\ \A i \in 1 .. Len(w) : w[i].role \in Speakers
  <2>1. w \in Seq(Talk)
    BY DEF Tells
  <2> QED
    BY <2>1, Spoken
<1>2. Listening \in Talk /\ Listening.role = "user" /\ Listening.content # << >>
  <2>1. Listening.role = "user"
    BY DEF Listening, Message
  <2> DEFINE l == Listening
  <2>2. l = Listening
    OBVIOUS
  <2> HIDE DEF l
  <2>3. l \in Talk /\ l.content # << >>
    BY <2>2, Unheard
  <2> QED
    BY <2>1, <2>2, <2>3
<1>3. x = IF Last(opened).role = "assistant" THEN Append(opened, Listening) ELSE opened
  BY DEF Listen
<1> DEFINE m == Listening
<1>4. Tells(opened, c, T)
  BY TellsMore
<1> HIDE DEF m
<1>5. m \in Talk /\ m.role = "user" /\ m.content # << >> /\ opened = IF w = << >> \/ Head(w).role # "user" THEN <<m>> \o w ELSE w
  BY <1>2 DEF m
<1>6. opened \in Seq(Talk) /\ opened # << >> /\ Head(opened).role = "user"
  <2> HIDE DEF opened
  <2>1. CASE w = << >> \/ Head(w).role # "user"
    <3>1. opened = <<m>> \o w
      BY <1>5, <2>1
    <3> QED
      BY <1>1, <1>5, <3>1
  <2>2. CASE ~(w = << >> \/ Head(w).role # "user")
    BY <1>1, <1>5, <2>2
  <2> QED
    BY <2>1, <2>2
<1>7. Full(w) => Full(opened)
  BY <1>1, <1>5, FullMore
<1>8. Alternates(w, {}) => Alternates(opened, {})
  <2>1. CASE w = << >> \/ Head(w).role # "user"
    BY <1>1, <1>5, <2>1, AlternatesMore
  <2>2. CASE ~(w = << >> \/ Head(w).role # "user")
    BY <1>5, <2>2
  <2> QED
    BY <2>1, <2>2
<1> HIDE DEF opened
<1>9. \A i \in 1 .. Len(opened) : opened[i].role \in Speakers
  BY <1>6, Spoken
<1>10. CASE Last(opened).role = "assistant"
  <2>1. x = opened \o <<m>> /\ Last(x) = m /\ x # << >> /\ x \in Seq(Talk)
    <3>1. x = Append(opened, m)
      BY <1>3, <1>10 DEF m
    <3>2. m \in Talk /\ opened \in Seq(Talk)
      BY <1>5, <1>6
    <3> QED
      BY ONLY <3>1, <3>2, LastOf
  <2>2. Head(x).role = "user"
    BY <1>5, <1>6, <2>1
  <2>3. Tells(x, c, T)
    BY <1>4, <2>1, TellsMore DEF m
  <2>4. Full(opened) => Full(x)
    BY <1>5, <1>6, <2>1, FullMore
  <2>5. Alternates(opened, {}) => Alternates(x, {})
    BY <1>5, <1>6, <1>10, <2>1, AlternatesMore
  <2> QED
    BY <1>5, <1>7, <1>8, <2>1, <2>2, <2>3, <2>4, <2>5 DEF Listens
<1>11. CASE Last(opened).role # "assistant"
  <2>1. Last(opened).role = "user"
    BY <1>6, <1>9, <1>11 DEF Last, Speakers
  <2> QED
    BY <1>3, <1>4, <1>6, <1>7, <1>8, <1>11, <2>1 DEF Listens
<1> QED
  BY <1>10, <1>11

\* The start of the JSON at the end of a conversation.
LEMMA PrefillTells ==
    ASSUME NEW c, NEW T, NEW w, Tells(w, c, T), NEW x, x = Append(w, Prefill)
    PROVE  /\ Tells(x, c, T) /\ x # << >> /\ Last(x) = Prefill
           /\ w # << >> => Head(x) = Head(w)
           /\ Full(w) => Full(x)
           /\ Alternates(w, {}) /\ (w # << >> => Last(w).role = "user") => Alternates(x, {})
<1> DEFINE m == Prefill
<1>1. m.role = "assistant"
  BY DEF Prefill, Message
<1>2. m \in Talk /\ m.content # << >>
  BY Unheard
<1>3. w \in Seq(Talk)
  BY DEF Tells
<1>4. Tells(w \o <<m>>, c, T)
  BY TellsMore
<1> HIDE DEF m
<1>5. x = w \o <<m>> /\ Last(x) = m /\ x # << >>
  BY <1>2, <1>3, LastOf DEF m
<1>6. w # << >> => Head(x) = Head(w)
  BY <1>2, <1>3, <1>5
<1>7. Full(w) => Full(x)
  BY <1>2, <1>3, <1>5, FullMore
<1>8. Alternates(w, {}) /\ (w # << >> => Last(w).role = "user") => Alternates(x, {})
  BY <1>1, <1>2, <1>3, <1>5, AlternatesMore
<1> QED
  BY <1>4, <1>5, <1>6, <1>7, <1>8 DEF m

\* Messages of one role in a row are merged.
LEMMA ConsolidateTells ==
    ASSUME NEW c, NEW w, Tells(w, c, Carried), NEW x, x = Consolidate(w)
    PROVE  Tells(x, c, Carried) /\ Alternates(x, {}) /\ (Full(w) => Full(x))
<1> DEFINE no == FALSE
<1>1. Tidy(no) = Talk
  BY DEF Tidy, Talk, WireMessages, Messages, Speakers
<1>2. w \in Seq(Tidy(no)) /\ no \in BOOLEAN /\ ~no
  BY <1>1 DEF Tells
<1>3. x = Merged(w, {}, no)
  BY DEF Consolidate
<1> HIDE DEF no
<1>4. Coalesced(x, w, {}, no, c)
  BY <1>2, <1>3, MergedIs
<1>5. x \in Seq(Talk) /\ Carries(x, w, c) /\ Alternates(x, {}) /\ (Full(w) => Full(x))
  BY <1>1, <1>2, <1>4 DEF Coalesced
<1> QED
  BY <1>5 DEF Tells, Carries, SaidAlike

\* Blocks that are kept or dropped are converted one by one.
LEMMA BlocksKept ==
    ASSUME NEW content \in Seq(Blocks), NEW r, NEW T, NEW c, DOMAIN r = DOMAIN content,
           \A i \in DOMAIN content : Keeps(content[i], r[i], T, c)
    PROVE  Blockwise(content, r, T, c)
BY DEF Blockwise, Keeps

\* Anthropic's conversion of a message keeps what it says, thoughts too.
LEMMA AnthropicRewrites ==
    ASSUME NEW m \in Talk, NEW c, NEW T, T = Carried \cup {"thought"}
    PROVE  Rewrites(m, AnthropicMessage(m), T, c)
<1> DEFINE content == m.content
           r == [i \in DOMAIN content |-> AnthropicBlock(content[i])]
           x == AnthropicMessage(m)
<1>1. content \in Seq(Blocks) /\ m \in Messages(Speakers)
  BY DEF Talk, Messages
<1>2. ASSUME NEW b \in Blocks PROVE Keeps(b, AnthropicBlock(b), T, c)
  <2>1. CASE b.type = "tool_call"
    BY <2>1 DEF AnthropicBlock, Ok, Refused, Failed, Keeps
  <2>2. CASE b.type = "thought"
    <3>1. CASE b.body = << >> /\ b.sig = << >>
      <4>1. AnthropicBlock(b) = Ok(<< >>)
        BY <2>2, <3>1 DEF AnthropicBlock
      <4>2. Dropped(b, T, c)
        BY <2>2, <3>1 DEF Dropped, Sayable, Carried
      <4> QED
        BY <4>1, <4>2 DEF Ok, Keeps
    <3>2. CASE ~(b.body = << >> /\ b.sig = << >>)
      BY <2>2, <3>2 DEF AnthropicBlock, Ok, Keeps
    <3> QED
      BY <3>1, <3>2
  <2>3. CASE b.type \notin {"tool_call", "thought"}
    BY <2>3 DEF AnthropicBlock, Ok, Refused, Failed, Keeps
  <2> QED
    BY <2>1, <2>2, <2>3
<1>3. DOMAIN r = DOMAIN content /\ \A i \in DOMAIN content : Keeps(content[i], r[i], T, c)
  <2> SUFFICES ASSUME NEW i \in DOMAIN content
               PROVE  Keeps(content[i], r[i], T, c)
    OBVIOUS
  <2>1. content[i] \in Blocks /\ r[i] = AnthropicBlock(content[i])
    BY <1>1
  <2> HIDE DEF content, r
  <2> QED
    BY <1>2, <2>1
<1>4. x = IF All(r).ok THEN Ok(<<Message(m.role, All(r).value)>>) ELSE All(r)
  BY DEF AnthropicMessage, Each
<1> HIDE DEF r, x
<1>5. Blockwise(m.content, r, T, c)
  BY <1>1, <1>3, BlocksKept
<1>6. Rewrites(m, x, T, c)
  BY <1>1, <1>4, <1>5, BlockwiseRewrites
<1> QED
  BY <1>6 DEF x

\* Anthropic's conversion of the conversation tells all of it, thoughts too.
LEMMA AnthropicTells ==
    ASSUME NEW c, Callable(c), NEW T, T = Carried \cup {"thought"}, NEW x, x = Each(c.messages, AnthropicMessage)
    PROVE  x.ok \in BOOLEAN /\ (x.ok => Tells(x.value, c, T))
<1> DEFINE ms == c.messages
           r == [i \in DOMAIN ms |-> AnthropicMessage(ms[i])]
<1>1. ms \in Seq(Talk)
  BY DEF Callable, Talk
<1>2. x = All(r)
  BY DEF Each
<1>3. ASSUME NEW i \in DOMAIN ms PROVE Rewrites(ms[i], r[i], T, c)
  <2> DEFINE m == ms[i]
  <2>1. m \in Talk
    BY <1>1
  <2>2. r[i] = AnthropicMessage(m)
    OBVIOUS
  <2> HIDE DEF m, r
  <2>3. Rewrites(m, AnthropicMessage(m), T, c)
    BY <2>1, AnthropicRewrites
  <2> QED
    BY <2>2, <2>3 DEF m
<1>4. RewritesEach(c.messages, r, T, c)
  BY <1>3 DEF RewritesEach
<1> HIDE DEF r
<1> QED
  BY <1>2, <1>4, TellsAll

\* The conversion for Anthropic's models on Vertex AI keeps what a message says.
LEMMA VertexAnthropicRewrites ==
    ASSUME NEW m \in Talk, NEW c, NEW T, T = Carried
    PROVE  Rewrites(m, VertexAnthropicMessage(m), T, c)
<1> DEFINE content == m.content
           r == [i \in DOMAIN content |-> VertexAnthropicBlock(content[i])]
           x == VertexAnthropicMessage(m)
<1>1. content \in Seq(Blocks) /\ m \in Messages(Speakers)
  BY DEF Talk, Messages
<1>2. ASSUME NEW b \in Blocks PROVE Keeps(b, VertexAnthropicBlock(b), T, c)
  <2>1. CASE b.type = "tool_call"
    BY <2>1 DEF VertexAnthropicBlock, Ok, Refused, Failed, Keeps
  <2>2. CASE b.type = "thought"
    <3>1. CASE TRUE
      <4>1. VertexAnthropicBlock(b) = Ok(<< >>)
        BY <2>2, <3>1 DEF VertexAnthropicBlock
      <4>2. Dropped(b, T, c)
        BY <2>2, <3>1 DEF Dropped, Sayable, Carried
      <4> QED
        BY <4>1, <4>2 DEF Ok, Keeps
    <3>2. CASE FALSE
      BY <2>2, <3>2 DEF VertexAnthropicBlock, Ok, Keeps
    <3> QED
      BY <3>1, <3>2
  <2>3. CASE b.type \notin {"tool_call", "thought"}
    BY <2>3 DEF VertexAnthropicBlock, Ok, Refused, Failed, Keeps
  <2> QED
    BY <2>1, <2>2, <2>3
<1>3. DOMAIN r = DOMAIN content /\ \A i \in DOMAIN content : Keeps(content[i], r[i], T, c)
  <2> SUFFICES ASSUME NEW i \in DOMAIN content
               PROVE  Keeps(content[i], r[i], T, c)
    OBVIOUS
  <2>1. content[i] \in Blocks /\ r[i] = VertexAnthropicBlock(content[i])
    BY <1>1
  <2> HIDE DEF content, r
  <2> QED
    BY <1>2, <2>1
<1>4. x = IF All(r).ok THEN Ok(<<Message(m.role, All(r).value)>>) ELSE All(r)
  BY DEF VertexAnthropicMessage, Each
<1> HIDE DEF r, x
<1>5. Blockwise(m.content, r, T, c)
  BY <1>1, <1>3, BlocksKept
<1>6. Rewrites(m, x, T, c)
  BY <1>1, <1>4, <1>5, BlockwiseRewrites
<1> QED
  BY <1>6 DEF x

\* The conversion for Anthropic's models on Vertex AI tells all of the conversation.
LEMMA VertexAnthropicTells ==
    ASSUME NEW c, Callable(c), NEW T, T = Carried, NEW x, x = Each(c.messages, VertexAnthropicMessage)
    PROVE  x.ok \in BOOLEAN /\ (x.ok => Tells(x.value, c, T))
<1> DEFINE ms == c.messages
           r == [i \in DOMAIN ms |-> VertexAnthropicMessage(ms[i])]
<1>1. ms \in Seq(Talk)
  BY DEF Callable, Talk
<1>2. x = All(r)
  BY DEF Each
<1>3. ASSUME NEW i \in DOMAIN ms PROVE Rewrites(ms[i], r[i], T, c)
  <2> DEFINE m == ms[i]
  <2>1. m \in Talk
    BY <1>1
  <2>2. r[i] = VertexAnthropicMessage(m)
    OBVIOUS
  <2> HIDE DEF m, r
  <2>3. Rewrites(m, VertexAnthropicMessage(m), T, c)
    BY <2>1, VertexAnthropicRewrites
  <2> QED
    BY <2>2, <2>3 DEF m
<1>4. RewritesEach(c.messages, r, T, c)
  BY <1>3 DEF RewritesEach
<1> HIDE DEF r
<1> QED
  BY <1>2, <1>4, TellsAll

\* Bedrock's conversion of a message keeps what it says.
LEMMA BedrockRewrites ==
    ASSUME NEW m \in Talk, NEW c, NEW T, T = Carried
    PROVE  Rewrites(m, BedrockMessage(m), T, c)
<1> DEFINE content == m.content
           r == [i \in DOMAIN content |-> BedrockBlock(content[i])]
           x == BedrockMessage(m)
<1>1. content \in Seq(Blocks) /\ m \in Messages(Speakers)
  BY DEF Talk, Messages
<1>2. ASSUME NEW b \in Blocks PROVE Keeps(b, BedrockBlock(b), T, c)
  <2>1. CASE b.type = "tool_call"
    BY <2>1 DEF BedrockBlock, Ok, Refused, Failed, Keeps
  <2>2. CASE b.type = "thought"
    <3>1. CASE TRUE
      <4>1. BedrockBlock(b) = Ok(<< >>)
        BY <2>2, <3>1 DEF BedrockBlock
      <4>2. Dropped(b, T, c)
        BY <2>2, <3>1 DEF Dropped, Sayable, Carried
      <4> QED
        BY <4>1, <4>2 DEF Ok, Keeps
    <3>2. CASE FALSE
      BY <2>2, <3>2 DEF BedrockBlock, Ok, Keeps
    <3> QED
      BY <3>1, <3>2
  <2>3. CASE b.type \notin {"tool_call", "thought"}
    BY <2>3 DEF BedrockBlock, Ok, Refused, Failed, Keeps
  <2> QED
    BY <2>1, <2>2, <2>3
<1>3. DOMAIN r = DOMAIN content /\ \A i \in DOMAIN content : Keeps(content[i], r[i], T, c)
  <2> SUFFICES ASSUME NEW i \in DOMAIN content
               PROVE  Keeps(content[i], r[i], T, c)
    OBVIOUS
  <2>1. content[i] \in Blocks /\ r[i] = BedrockBlock(content[i])
    BY <1>1
  <2> HIDE DEF content, r
  <2> QED
    BY <1>2, <2>1
<1>4. x = IF All(r).ok THEN Ok(<<Message(m.role, All(r).value)>>) ELSE All(r)
  BY DEF BedrockMessage, Each
<1> HIDE DEF r, x
<1>5. Blockwise(m.content, r, T, c)
  BY <1>1, <1>3, BlocksKept
<1>6. Rewrites(m, x, T, c)
  BY <1>1, <1>4, <1>5, BlockwiseRewrites
<1> QED
  BY <1>6 DEF x

\* Bedrock's conversion of the conversation tells all of it.
LEMMA BedrockTells ==
    ASSUME NEW c, Callable(c), NEW T, T = Carried, NEW x, x = Each(c.messages, BedrockMessage)
    PROVE  x.ok \in BOOLEAN /\ (x.ok => Tells(x.value, c, T))
<1> DEFINE ms == c.messages
           r == [i \in DOMAIN ms |-> BedrockMessage(ms[i])]
<1>1. ms \in Seq(Talk)
  BY DEF Callable, Talk
<1>2. x = All(r)
  BY DEF Each
<1>3. ASSUME NEW i \in DOMAIN ms PROVE Rewrites(ms[i], r[i], T, c)
  <2> DEFINE m == ms[i]
  <2>1. m \in Talk
    BY <1>1
  <2>2. r[i] = BedrockMessage(m)
    OBVIOUS
  <2> HIDE DEF m, r
  <2>3. Rewrites(m, BedrockMessage(m), T, c)
    BY <2>1, BedrockRewrites
  <2> QED
    BY <2>2, <2>3 DEF m
<1>4. RewritesEach(c.messages, r, T, c)
  BY <1>3 DEF RewritesEach
<1> HIDE DEF r
<1> QED
  BY <1>2, <1>4, TellsAll

\* The conversion for Gemini on Vertex AI keeps what a message says.
LEMMA VertexGeminiRewrites ==
    ASSUME NEW m \in Talk, NEW c, NEW T, T = Carried
    PROVE  Rewrites(m, VertexGeminiContent(m), T, c)
<1> DEFINE content == m.content
           r == [i \in DOMAIN content |-> VertexGeminiBlock(content[i])]
           x == VertexGeminiContent(m)
<1>1. content \in Seq(Blocks) /\ m \in Messages(Speakers)
  BY DEF Talk, Messages
<1>2. ASSUME NEW b \in Blocks PROVE Keeps(b, VertexGeminiBlock(b), T, c)
  <2>1. CASE b.type = "tool_call"
    BY <2>1 DEF VertexGeminiBlock, Ok, Refused, Failed, Keeps
  <2>2. CASE b.type = "thought"
    <3>1. CASE TRUE
      <4>1. VertexGeminiBlock(b) = Ok(<< >>)
        BY <2>2, <3>1 DEF VertexGeminiBlock
      <4>2. Dropped(b, T, c)
        BY <2>2, <3>1 DEF Dropped, Sayable, Carried
      <4> QED
        BY <4>1, <4>2 DEF Ok, Keeps
    <3>2. CASE FALSE
      BY <2>2, <3>2 DEF VertexGeminiBlock, Ok, Keeps
    <3> QED
      BY <3>1, <3>2
  <2>3. CASE b.type \notin {"tool_call", "thought"}
    BY <2>3 DEF VertexGeminiBlock, Ok, Refused, Failed, Keeps
  <2> QED
    BY <2>1, <2>2, <2>3
<1>3. DOMAIN r = DOMAIN content /\ \A i \in DOMAIN content : Keeps(content[i], r[i], T, c)
  <2> SUFFICES ASSUME NEW i \in DOMAIN content
               PROVE  Keeps(content[i], r[i], T, c)
    OBVIOUS
  <2>1. content[i] \in Blocks /\ r[i] = VertexGeminiBlock(content[i])
    BY <1>1
  <2> HIDE DEF content, r
  <2> QED
    BY <1>2, <2>1
<1>4. x = IF All(r).ok THEN Ok(<<Message(m.role, All(r).value)>>) ELSE All(r)
  BY DEF VertexGeminiContent, Each
<1> HIDE DEF r, x
<1>5. Blockwise(m.content, r, T, c)
  BY <1>1, <1>3, BlocksKept
<1>6. Rewrites(m, x, T, c)
  BY <1>1, <1>4, <1>5, BlockwiseRewrites
<1> QED
  BY <1>6 DEF x

\* The conversion for Gemini on Vertex AI tells all of the conversation.
LEMMA VertexGeminiTells ==
    ASSUME NEW c, Callable(c), NEW T, T = Carried, NEW x, x = Each(c.messages, VertexGeminiContent)
    PROVE  x.ok \in BOOLEAN /\ (x.ok => Tells(x.value, c, T))
<1> DEFINE ms == c.messages
           r == [i \in DOMAIN ms |-> VertexGeminiContent(ms[i])]
<1>1. ms \in Seq(Talk)
  BY DEF Callable, Talk
<1>2. x = All(r)
  BY DEF Each
<1>3. ASSUME NEW i \in DOMAIN ms PROVE Rewrites(ms[i], r[i], T, c)
  <2> DEFINE m == ms[i]
  <2>1. m \in Talk
    BY <1>1
  <2>2. r[i] = VertexGeminiContent(m)
    OBVIOUS
  <2> HIDE DEF m, r
  <2>3. Rewrites(m, VertexGeminiContent(m), T, c)
    BY <2>1, VertexGeminiRewrites
  <2> QED
    BY <2>2, <2>3 DEF m
<1>4. RewritesEach(c.messages, r, T, c)
  BY <1>3 DEF RewritesEach
<1> HIDE DEF r
<1> QED
  BY <1>2, <1>4, TellsAll

\* Anthropic's request tells the conversation, starts with the user, ends with the user or
\* the start of the JSON.
LEMMA AnthropicRequests ==
    ASSUME NEW c, Callable(c), AnthropicRequest(c).ok, NEW w, w = AnthropicRequest(c).value
    PROVE  /\ Tells(w.messages, c, Carried \cup {"thought"})
           /\ w.messages # << >> /\ Head(w.messages).role = "user"
           /\ Last(w.messages).role = "user" \/ Last(w.messages) = Prefill
           /\ w.system = c.system /\ Offers(w, AnthropicTools(c))
<1> DEFINE T == Carried \cup {"thought"}
           x == Each(c.messages, AnthropicMessage)
           listened == Listen(x.value)
           m == IF Prefills(c) THEN Append(listened, Prefill) ELSE listened
           a == AnthropicTools(c)
<1>1. x.ok \in BOOLEAN /\ (x.ok => Tells(x.value, c, T))
  BY AnthropicTells
<1>2. AnthropicRequest(c) = IF c.messages = << >> THEN Refused ELSE IF ~x.ok THEN x ELSE Send(c, Ok(m), c.system, a, "absent", TRUE)
  BY DEF AnthropicRequest, AnthropicPrepare, AnthropicPrefill
<1> HIDE DEF T, x, m, a
<1>3. x.ok /\ c.messages # << >>
  <2>1. ASSUME c.messages = << >> PROVE FALSE
    BY <1>2, <2>1 DEF Refused, Failed
  <2>2. ASSUME c.messages # << >>, ~x.ok PROVE FALSE
    BY <1>2, <2>2
  <2> QED
    BY <1>1, <2>1, <2>2
<1>4. AnthropicRequest(c) = Send(c, Ok(m), c.system, a, "absent", TRUE)
  BY <1>2, <1>3
<1>5. w.messages = m /\ w.system = c.system /\ w.tools = a.tools /\ w.choice = a.choice
  BY <1>4 DEF Send, Ok, Wire
<1>6. Tells(listened, c, T) /\ Listens(listened)
  BY <1>1, <1>3, ListenTells
<1>7. Tells(m, c, T) /\ m # << >> /\ Head(m).role = "user" /\ (Last(m).role = "user" \/ Last(m) = Prefill)
  <2>1. CASE Prefills(c)
    <3>1. m = Append(listened, Prefill)
      BY <2>1 DEF m
    <3> HIDE DEF listened
    <3>2. Tells(m, c, T) /\ m # << >> /\ Last(m) = Prefill /\ (listened # << >> => Head(m) = Head(listened))
      BY <1>6, <3>1, PrefillTells
    <3> QED
      BY <1>6, <3>2 DEF Listens
  <2>2. CASE ~Prefills(c)
    BY <1>6, <2>2 DEF m, Listens
  <2> QED
    BY <2>1, <2>2
<1> QED
  BY <1>5, <1>7 DEF T, Offers, a

\* So does that to Anthropic's models on Vertex AI, whose roles alternate and whose messages
\* are not empty.
LEMMA VertexAnthropicRequests ==
    ASSUME NEW c, Callable(c), VertexAnthropicRequest(c).ok, NEW w, w = VertexAnthropicRequest(c).value
    PROVE  /\ Tells(w.messages, c, Carried)
           /\ w.messages # << >> /\ Head(w.messages).role = "user"
           /\ Last(w.messages).role = "user" \/ Last(w.messages) = Prefill
           /\ Alternates(w.messages, {}) /\ Full(w.messages)
           /\ w.system = c.system /\ Offers(w, VertexAnthropicTools(c))
<1> DEFINE x == Each(c.messages, VertexAnthropicMessage)
           kept == WithoutEmpty(x.value)
           merged == Consolidate(kept)
           listened == Listen(merged)
           m == IF Prefills(c) THEN Append(listened, Prefill) ELSE listened
           a == VertexAnthropicTools(c)
<1>1. x.ok \in BOOLEAN /\ (x.ok => Tells(x.value, c, Carried))
  BY VertexAnthropicTells
<1>2. VertexAnthropicRequest(c) = IF c.messages = << >> THEN Refused ELSE IF ~x.ok THEN x ELSE Send(c, Ok(m), c.system, a, "absent", TRUE)
  BY DEF VertexAnthropicRequest, VertexAnthropicPrepare, VertexAnthropicPrefill
<1> HIDE DEF x, m, a
<1>3. x.ok /\ c.messages # << >>
  <2>1. ASSUME c.messages = << >> PROVE FALSE
    BY <1>2, <2>1 DEF Refused, Failed
  <2>2. ASSUME c.messages # << >>, ~x.ok PROVE FALSE
    BY <1>2, <2>2
  <2> QED
    BY <1>1, <2>1, <2>2
<1>4. VertexAnthropicRequest(c) = Send(c, Ok(m), c.system, a, "absent", TRUE)
  BY <1>2, <1>3
<1>5. w.messages = m /\ w.system = c.system /\ w.tools = a.tools /\ w.choice = a.choice
  BY <1>4 DEF Send, Ok, Wire
<1>6. Tells(kept, c, Carried) /\ Full(kept)
  BY <1>1, <1>3, TellsWithoutEmpty
<1> HIDE DEF kept
<1>7. Tells(merged, c, Carried) /\ Alternates(merged, {}) /\ Full(merged)
  BY <1>6, ConsolidateTells
<1> HIDE DEF merged
<1>8. Tells(listened, c, Carried) /\ Listens(listened) /\ Alternates(listened, {}) /\ Full(listened)
  BY <1>7, ListenTells
<1> HIDE DEF listened
<1>9. Tells(m, c, Carried) /\ m # << >> /\ Head(m).role = "user" /\ (Last(m).role = "user" \/ Last(m) = Prefill)
        /\ Alternates(m, {}) /\ Full(m)
  <2>1. CASE Prefills(c)
    <3>1. m = Append(listened, Prefill)
      BY <2>1 DEF m
    <3>2. Tells(m, c, Carried) /\ m # << >> /\ Last(m) = Prefill /\ (listened # << >> => Head(m) = Head(listened))
      BY <1>8, <3>1, PrefillTells
    <3>3. Alternates(m, {}) /\ Full(m)
      <4>1. listened # << >> /\ Last(listened).role = "user"
        BY <1>8 DEF Listens
      <4> QED
        BY <1>8, <3>1, <4>1, PrefillTells
    <3> QED
      BY <1>8, <3>2, <3>3 DEF Listens
  <2>2. CASE ~Prefills(c)
    BY <1>8, <2>2 DEF m, Listens
  <2> QED
    BY <2>1, <2>2
<1> QED
  BY <1>5, <1>9 DEF Offers, a

\* Bedrock's request tells the conversation.
LEMMA BedrockRequests ==
    ASSUME NEW c, Callable(c), BedrockRequest(c).ok, NEW w, w = BedrockRequest(c).value
    PROVE  /\ Tells(w.messages, c, Carried)
           /\ w.system = c.system /\ Offers(w, BedrockTools(c))
<1> DEFINE x == Each(c.messages, BedrockMessage)
           kept == IF c.stream THEN x.value ELSE WithoutEmpty(x.value)
           m == IF BedrockPrefills(c) THEN Append(kept, Prefill) ELSE kept
           a == BedrockTools(c)
<1>1. x.ok \in BOOLEAN /\ (x.ok => Tells(x.value, c, Carried))
  BY BedrockTells
<1>2. BedrockRequest(c) = IF ~x.ok THEN x ELSE Send(c, Ok(m), c.system, a, "absent", TRUE)
  BY DEF BedrockRequest, BedrockPrefill
<1> HIDE DEF x, m, a
<1>3. x.ok
  BY <1>1, <1>2
<1>4. BedrockRequest(c) = Send(c, Ok(m), c.system, a, "absent", TRUE)
  BY <1>2, <1>3
<1>5. w.messages = m /\ w.system = c.system /\ w.tools = a.tools /\ w.choice = a.choice
  BY <1>4 DEF Send, Ok, Wire
<1>6. Tells(kept, c, Carried)
  BY <1>1, <1>3, TellsWithoutEmpty
<1> HIDE DEF kept
<1>7. Tells(m, c, Carried)
  BY <1>6, PrefillTells DEF m
<1> QED
  BY <1>5, <1>7 DEF Offers, a

\* The request to Gemini on Vertex AI tells the conversation, without empty messages.
LEMMA VertexGeminiRequests ==
    ASSUME NEW c, Callable(c), VertexGeminiRequest(c).ok, NEW w, w = VertexGeminiRequest(c).value
    PROVE  /\ Tells(w.messages, c, Carried) /\ Full(w.messages)
           /\ w.system = c.system /\ Offers(w, VertexGeminiTools(c))
<1> DEFINE x == Each(c.messages, VertexGeminiContent)
           m == WithoutEmpty(x.value)
           a == VertexGeminiTools(c)
           f == GeminiFormat(c)
<1>1. x.ok \in BOOLEAN /\ (x.ok => Tells(x.value, c, Carried))
  BY VertexGeminiTells
<1>2. VertexGeminiRequest(c) = IF c.messages = << >> THEN Refused ELSE IF ~x.ok THEN x ELSE Send(c, Ok(m), c.system, a, f, TRUE)
  BY DEF VertexGeminiRequest
<1> HIDE DEF x, m, a, f
<1>3. x.ok /\ c.messages # << >>
  <2>1. ASSUME c.messages = << >> PROVE FALSE
    BY <1>2, <2>1 DEF Refused, Failed
  <2>2. ASSUME c.messages # << >>, ~x.ok PROVE FALSE
    BY <1>2, <2>2
  <2> QED
    BY <1>1, <2>1, <2>2
<1>4. VertexGeminiRequest(c) = Send(c, Ok(m), c.system, a, f, TRUE)
  BY <1>2, <1>3
<1>5. w.messages = m /\ w.system = c.system /\ w.tools = a.tools /\ w.choice = a.choice
  BY <1>4 DEF Send, Ok, Wire
<1>6. Tells(m, c, Carried) /\ Full(m)
  BY <1>1, <1>3, TellsWithoutEmpty DEF m
<1> QED
  BY <1>5, <1>6 DEF Offers, a

-----------------------------------------------------------------------------
(***************************************************************************)
(* Google AI Studio, which moves signatures                                 *)
(***************************************************************************)
\* A block with another signature is a block.
LEMMA SignedType ==
    ASSUME NEW b \in Blocks, NEW sig \in Seq(STRING)
    PROVE  Signed(b, sig) \in Blocks /\ Signed(b, sig).sig = sig /\ Signed(b, sig).type = b.type /\ Signed(b, sig).body = b.body
<1>1. b = [type |-> b.type, id |-> b.id, name |-> b.name, body |-> b.body, sig |-> b.sig]
  BY DEF Blocks, BlocksOf
<1>2. Signed(b, sig) = [type |-> b.type, id |-> b.id, name |-> b.name, body |-> b.body, sig |-> sig]
  BY <1>1 DEF Signed
<1> QED
  BY <1>2 DEF Blocks, BlocksOf

\* The last signature counts.
LEMMA SignedTwice ==
    ASSUME NEW b \in Blocks, NEW sig, NEW other
    PROVE  Signed(Signed(b, sig), other) = Signed(b, other)
<1>1. b = [type |-> b.type, id |-> b.id, name |-> b.name, body |-> b.body, sig |-> b.sig]
  BY DEF Blocks, BlocksOf
<1>2. \A x : Signed(b, x) = [type |-> b.type, id |-> b.id, name |-> b.name, body |-> b.body, sig |-> x]
  BY <1>1 DEF Signed
<1>3. Signed(Signed(b, sig), other) = [type |-> b.type, id |-> b.id, name |-> b.name, body |-> b.body, sig |-> other]
  BY <1>2 DEF Signed
<1> QED
  BY <1>2, <1>3

\* Two lists without their signatures.
LEMMA UnsignedConcat ==
    ASSUME NEW s \in Seq(Blocks), NEW t \in Seq(Blocks)
    PROVE  Unsigned(s) \in Seq(Blocks) /\ Unsigned(s \o t) = Unsigned(s) \o Unsigned(t)
<1>1. ASSUME NEW u \in Seq(Blocks)
      PROVE  Unsigned(u) \in Seq(Blocks) /\ Len(Unsigned(u)) = Len(u) /\ \A i \in 1 .. Len(u) : Unsigned(u)[i] = Signed(u[i], << >>)
  <2>1. \A i \in 1 .. Len(u) : u[i] \in Blocks
    OBVIOUS
  <2>2. \A i \in 1 .. Len(u) : Signed(u[i], << >>) \in Blocks
    <3>1. << >> \in Seq(STRING)
      OBVIOUS
    <3> QED
      BY <2>1, <3>1, SignedType
  <2>3. Unsigned(u) = [i \in 1 .. Len(u) |-> Signed(u[i], << >>)]
    BY DEF Unsigned, Signed
  <2> QED
    BY <2>2, <2>3
<1> DEFINE both == s \o t
           r == Unsigned(both)
           p == Unsigned(s)
           q == Unsigned(t)
<1>2. both \in Seq(Blocks) /\ Len(both) = Len(s) + Len(t) /\ (\A i \in 1 .. Len(s) : both[i] = s[i])
        /\ (\A i \in 1 .. Len(t) : both[Len(s) + i] = t[i]) /\ Len(s) \in Nat /\ Len(t) \in Nat
  OBVIOUS
<1> HIDE DEF both
<1>3. p \in Seq(Blocks) /\ q \in Seq(Blocks) /\ r \in Seq(Blocks) /\ Len(p) = Len(s) /\ Len(q) = Len(t) /\ Len(r) = Len(both)
  BY <1>1, <1>2
<1>4. \A i \in 1 .. Len(s) : p[i] = Signed(s[i], << >>)
  BY <1>1
<1>5. \A i \in 1 .. Len(t) : q[i] = Signed(t[i], << >>)
  BY <1>1
<1>6. \A i \in 1 .. Len(both) : r[i] = Signed(both[i], << >>)
  BY <1>1, <1>2
<1> HIDE DEF p, q, r
<1>7. IsConcat(r, p, q)
  <2>1. ASSUME NEW i \in 1 .. Len(s) PROVE r[i] = p[i]
    BY <1>2, <1>4, <1>6
  <2>2. ASSUME NEW i \in 1 .. Len(t) PROVE r[Len(s) + i] = q[i]
    <3>1. Len(s) + i \in 1 .. Len(both) /\ both[Len(s) + i] = t[i]
      BY <1>2
    <3> QED
      BY <1>5, <1>6, <3>1
  <2> QED
    BY <1>2, <1>3, <2>1, <2>2 DEF IsConcat
<1>8. r = p \o q
  BY <1>3, <1>7, ConcatIs
<1> QED
  BY <1>3, <1>8 DEF p, q, r, both

\* An empty list has no signatures.
LEMMA UnsignedNothing == Unsigned(<< >>) = << >>
BY DEF Unsigned

\* A block without its signature.
LEMMA UnsignedOne ==
    ASSUME NEW b
    PROVE  Unsigned(<<b>>) = <<Signed(b, << >>)>>
BY DEF Unsigned, Signed

\* What is said without signatures is said piece by piece.
LEMMA UnsignedHoms ==
    ASSUME NEW role, NEW type, NEW c
    PROVE  IsHom(UnsignedSay(type, c), Blocks, Blocks) /\ IsHom(UnsignedSaid(role, type, c), WireMessages, Blocks)
<1>1. IsHom(UnsignedSay(type, c), Blocks, Blocks)
  <2> DEFINE h == UnsignedSay(type, c)
  <2>1. ASSUME NEW s \in Seq(Blocks) PROVE Say(s, type, c) \in Seq(Blocks) /\ Unsigned(Say(s, type, c)) \in Seq(Blocks) /\ h[s] = Unsigned(Say(s, type, c))
    BY SayType, UnsignedConcat DEF UnsignedSay
  <2>2. h \in [Seq(Blocks) -> Seq(Blocks)]
    BY <2>1 DEF UnsignedSay
  <2>3. h[<< >>] = << >>
    <3>1. << >> \in Seq(Blocks)
      OBVIOUS
    <3> QED
      BY <2>1, <3>1, SayNothing, UnsignedNothing
  <2> HIDE DEF h
  <2>4. ASSUME NEW a \in Seq(Blocks), NEW b \in Seq(Blocks) PROVE h[a \o b] = h[a] \o h[b]
    <3>1. a \o b \in Seq(Blocks) /\ Say(a \o b, type, c) = Say(a, type, c) \o Say(b, type, c)
      BY SayConcat
    <3>2. Unsigned(Say(a, type, c) \o Say(b, type, c)) = Unsigned(Say(a, type, c)) \o Unsigned(Say(b, type, c))
      BY <2>1, UnsignedConcat
    <3> QED
      BY <2>1, <3>1, <3>2
  <2>5. IsHom(h, Blocks, Blocks)
    BY <2>2, <2>3, <2>4 DEF IsHom
  <2> QED
    BY <2>5 DEF h
<1>2. IsHom(UnsignedSaid(role, type, c), WireMessages, Blocks)
  <2> DEFINE h == UnsignedSaid(role, type, c)
  <2>1. ASSUME NEW s \in Seq(WireMessages)
        PROVE  Said(s, role, type, c) \in Seq(Blocks) /\ Unsigned(Said(s, role, type, c)) \in Seq(Blocks) /\ h[s] = Unsigned(Said(s, role, type, c))
    BY SaidType, UnsignedConcat DEF UnsignedSaid
  <2>2. h \in [Seq(WireMessages) -> Seq(Blocks)]
    BY <2>1 DEF UnsignedSaid
  <2>3. h[<< >>] = << >>
    <3>1. << >> \in Seq(WireMessages)
      OBVIOUS
    <3> QED
      BY <2>1, <3>1, SaidNothing, UnsignedNothing
  <2> HIDE DEF h
  <2>4. ASSUME NEW a \in Seq(WireMessages), NEW b \in Seq(WireMessages) PROVE h[a \o b] = h[a] \o h[b]
    <3>1. a \o b \in Seq(WireMessages) /\ Said(a \o b, role, type, c) = Said(a, role, type, c) \o Said(b, role, type, c)
      BY SaidConcat
    <3>2. Unsigned(Said(a, role, type, c) \o Said(b, role, type, c)) = Unsigned(Said(a, role, type, c)) \o Unsigned(Said(b, role, type, c))
      BY <2>1, UnsignedConcat
    <3> QED
      BY <2>1, <3>1, <3>2
  <2>5. IsHom(h, WireMessages, Blocks)
    BY <2>2, <2>3, <2>4 DEF IsHom
  <2> QED
    BY <2>5 DEF h
<1> QED
  BY <1>1, <1>2

\* AI Studio's part of a block: the block, signed by the mark before it, or nothing for a
\* mark.
LEMMA StudioPartIs ==
    ASSUME NEW content \in Seq(Blocks), NEW i \in DOMAIN content
    PROVE  Becomes(content, i, StudioPart(content, i)) /\ SignatureOf(content, i) \in Seq(STRING)
<1>1. i \in 1 .. Len(content) /\ content[i] \in Blocks
  OBVIOUS
<1>2. SignatureOf(content, i) \in Seq(STRING)
  <2>1. CASE i > 1
    <3>1. i - 1 \in 1 .. Len(content)
      BY <1>1, <2>1
    <3>2. content[i - 1] \in Blocks
      BY <3>1
    <3>3. content[i - 1].sig \in Seq(STRING)
      BY <3>2 DEF Blocks, BlocksOf
    <3>4. << >> \in Seq(STRING)
      OBVIOUS
    <3> QED
      BY <3>3, <3>4 DEF SignatureOf
  <2>2. CASE ~(i > 1)
    BY <2>2 DEF SignatureOf
  <2> QED
    BY <2>1, <2>2
<1> DEFINE b == content[i]
           sig == SignatureOf(content, i)
           x == Signed(b, sig)
           next == IF i < Len(content) THEN content[i + 1].type ELSE "none"
<1>3. StudioPart(content, i) = IF b.type # "thought" THEN StudioBlock(x)
                               ELSE IF b.body = << >> /\ b.sig # << >> /\ next \in {"none", "thought", "unknown"} THEN Refused
                               ELSE Ok(<< >>)
  BY DEF StudioPart, SignatureOf, Signed
<1>4. CASE b.type # "thought"
  <2>1. StudioPart(content, i) = StudioBlock(x)
    BY <1>3, <1>4
  <2>2. StudioBlock(x) \in {Ok(<<x>>), Refused}
    <3> HIDE DEF x
    <3>1. CASE x.type = "tool_call"
      BY <3>1 DEF StudioBlock
    <3>2. CASE x.type = "file"
      BY <3>2 DEF StudioBlock
    <3>3. CASE x.type \notin {"tool_call", "file"}
      BY <3>3 DEF StudioBlock
    <3> QED
      BY <3>1, <3>2, <3>3
  <2>3. StudioBlock(x).ok \in BOOLEAN /\ (StudioBlock(x).ok => StudioBlock(x).value = <<x>>)
    <3> HIDE DEF x
    <3>1. CASE StudioBlock(x) = Ok(<<x>>)
      BY <3>1 DEF Ok
    <3>2. CASE StudioBlock(x) = Refused
      BY <3>2 DEF Refused, Failed
    <3> QED
      BY <2>2, <3>1, <3>2
  <2> QED
    BY <1>2, <1>4, <2>1, <2>3 DEF Becomes, Mark
<1>5. CASE b.type = "thought"
  <2> DEFINE last == b.body = << >> /\ b.sig # << >> /\ next \in {"none", "thought", "unknown"}
  <2>1. StudioPart(content, i) = IF last THEN Refused ELSE Ok(<< >>)
    BY <1>3, <1>5
  <2>2. CASE last
    BY <1>2, <2>1, <2>2 DEF Becomes, Refused, Failed
  <2>3. CASE ~last
    <3>1. Mark(b) => i < Len(content) /\ content[i + 1].type # "thought"
      BY <1>1, <2>3 DEF Mark
    <3> HIDE DEF last, next
    <3> QED
      <4>1. StudioPart(content, i) = Ok(<< >>)
        BY <2>1, <2>3
      <4>2. Ok(<< >>).ok /\ Ok(<< >>).value = << >> /\ Ok(<< >>).ok \in BOOLEAN
        BY DEF Ok
      <4> QED
        BY <1>2, <1>5, <3>1, <4>1, <4>2 DEF Becomes
  <2> QED
    BY <2>2, <2>3
<1> QED
  BY <1>4, <1>5

\* AI Studio's parts say the same but for the signatures, which are those of the marks
\* before the blocks.
LEMMA StudioPartsAre ==
    ASSUME NEW content \in Seq(Blocks), NEW x, x = StudioParts(content)
    PROVE  x.ok \in BOOLEAN /\ (x.ok => /\ x.value \in Seq(Blocks) /\ Closed(content) /\ SignedOf(x.value) = SignedIn(content)
                                        /\ \A type \in Carried : \A c : Unsigned(Say(x.value, type, c)) = Unsigned(Say(content, type, c)))
<1> DEFINE n == Len(content)
           r == [i \in 1 .. n |-> StudioPart(content, i)]
           v == [i \in 1 .. n |-> r[i].value]
<1>1. n \in Nat /\ DOMAIN content = 1 .. n /\ \A i \in 1 .. n : content[i] \in Blocks
  OBVIOUS
<1>2. x = All(r) /\ DOMAIN r = 1 .. n
  BY <1>1 DEF StudioParts
<1>3. \A i \in 1 .. n : Becomes(content, i, r[i]) /\ SignatureOf(content, i) \in Seq(STRING)
  BY <1>1, StudioPartIs
<1> HIDE DEF n, r
<1>4. \A i \in 1 .. n : r[i].ok \in BOOLEAN
  BY <1>3 DEF Becomes
<1>5. x.ok \in BOOLEAN
  BY <1>1, <1>2, <1>4, AllBoolean
<1> SUFFICES ASSUME x.ok
             PROVE  /\ x.value \in Seq(Blocks) /\ Closed(content) /\ SignedOf(x.value) = SignedIn(content)
                    /\ \A type \in Carried : \A c : Unsigned(Say(x.value, type, c)) = Unsigned(Say(content, type, c))
  BY <1>5
<1>6. (\A i \in 1 .. n : r[i].ok) /\ x.value = Flatten(v)
  BY <1>1, <1>2, <1>4, AllOk
<1>7. ASSUME NEW i \in 1 .. n
      PROVE  /\ content[i].type # "thought" => v[i] = <<Signed(content[i], SignatureOf(content, i))>>
             /\ content[i].type = "thought" => v[i] = << >>
             /\ Mark(content[i]) => i < n /\ content[i + 1].type # "thought"
  BY <1>3, <1>6 DEF Becomes, n
<1>8. ASSUME NEW i \in 1 .. n
      PROVE  /\ Signed(content[i], SignatureOf(content, i)) \in Blocks /\ Signed(content[i], SignatureOf(content, i)).sig = SignatureOf(content, i)
             /\ Signed(content[i], SignatureOf(content, i)).type = content[i].type /\ Signed(content[i], SignatureOf(content, i)).body = content[i].body
             /\ Signed(Signed(content[i], SignatureOf(content, i)), << >>) = Signed(content[i], << >>)
  BY <1>1, <1>3, SignedType, SignedTwice
<1>9. v \in Seq(Seq(Blocks)) /\ DOMAIN v = 1 .. n
  <2>1. ASSUME NEW i \in 1 .. n PROVE v[i] \in Seq(Blocks)
    <3> DEFINE y == Signed(content[i], SignatureOf(content, i))
    <3>1. y \in Blocks
      BY <1>8
    <3>2. v[i] = <<y>> \/ v[i] = << >>
      BY <1>7
    <3> HIDE DEF y, v
    <3>3. <<y>> \in Seq(Blocks) /\ << >> \in Seq(Blocks)
      BY <3>1
    <3> QED
      BY <3>2, <3>3
  <2> QED
    BY <1>1, <2>1
<1> HIDE DEF v
<1>10. x.value \in Seq(Blocks)
  BY <1>6, <1>9, FlattenType
<1>11. Closed(content)
  <2>1. CASE n = 0
    BY <1>1, <2>1 DEF Closed, n
  <2>2. CASE n # 0
    BY <1>1, <1>7, <2>2 DEF Closed, n
  <2> QED
    BY <2>1, <2>2
<1>12. ToSet(x.value) = {Signed(content[i], SignatureOf(content, i)) : i \in {j \in 1 .. n : content[j].type # "thought"}}
  <2>1. ToSet(x.value) = UNION {ToSet(v[i]) : i \in 1 .. n}
    BY <1>6, <1>9, FlattenElements
  <2>2. ASSUME NEW i \in 1 .. n
        PROVE  ToSet(v[i]) = IF content[i].type # "thought" THEN {Signed(content[i], SignatureOf(content, i))} ELSE {}
    <3> DEFINE y == Signed(content[i], SignatureOf(content, i))
    <3>1. ToSet(<<y>>) = {y} /\ ToSet(<< >>) = {}
      BY DEF ToSet
    <3> HIDE DEF y
    <3>2. v[i] = IF content[i].type # "thought" THEN <<y>> ELSE << >>
      BY <1>7 DEF y
    <3> QED
      BY <3>1, <3>2 DEF y
  <2>3. ASSUME NEW b \in ToSet(x.value)
        PROVE  \E i \in 1 .. n : content[i].type # "thought" /\ b = Signed(content[i], SignatureOf(content, i))
    <3>1. PICK i \in 1 .. n : b \in ToSet(v[i])
      BY <2>1
    <3> QED
      BY <2>2, <3>1
  <2>4. ASSUME NEW i \in 1 .. n, content[i].type # "thought"
        PROVE  Signed(content[i], SignatureOf(content, i)) \in ToSet(x.value)
    BY <2>1, <2>2, <2>4
  <2> QED
    BY <2>3, <2>4
<1>13. SignedOf(x.value) = SignedIn(content)
  <2>1. ASSUME NEW b \in SignedOf(x.value) PROVE b \in SignedIn(content)
    <3>1. PICK i \in 1 .. n : content[i].type # "thought" /\ b = Signed(content[i], SignatureOf(content, i)) /\ b.sig # << >>
      BY <1>12, <2>1 DEF SignedOf
    <3>2. SignatureOf(content, i) # << >>
      BY <1>8, <3>1
    <3>3. i > 1 /\ Mark(content[i - 1]) /\ SignatureOf(content, i) = content[i - 1].sig
      BY <3>2 DEF SignatureOf, Mark
    <3>4. i \in 2 .. Len(content)
      BY <1>1, <3>3 DEF n
    <3> QED
      BY <3>1, <3>3, <3>4 DEF SignedIn
  <2>2. ASSUME NEW b \in SignedIn(content) PROVE b \in SignedOf(x.value)
    <3>1. PICK i \in 2 .. n : Mark(content[i - 1]) /\ b = Signed(content[i], content[i - 1].sig)
      BY <2>2 DEF SignedIn, n
    <3> DEFINE k == i - 1
    <3>2. k \in 1 .. n /\ k + 1 = i /\ i \in 1 .. n /\ i > 1
      BY <1>1, <3>1
    <3>3. content[k + 1].type # "thought" /\ content[k].type = "thought" /\ content[k].body = << >> /\ content[k].sig # << >>
      BY <1>7, <3>1, <3>2 DEF Mark
    <3>4. SignatureOf(content, i) = content[i - 1].sig
      BY <3>2, <3>3 DEF SignatureOf
    <3>5. b = Signed(content[i], SignatureOf(content, i)) /\ b.sig # << >> /\ content[i].type # "thought"
      BY <1>8, <3>1, <3>2, <3>3, <3>4
    <3> HIDE DEF k
    <3>6. b \in ToSet(x.value)
      BY <1>12, <3>2, <3>5
    <3> QED
      BY <3>5, <3>6 DEF SignedOf
  <2> QED
    BY <2>1, <2>2
<1>14. ASSUME NEW type \in Carried, NEW c PROVE Unsigned(Say(x.value, type, c)) = Unsigned(Say(content, type, c))
  <2> DEFINE h == UnsignedSay(type, c)
  <2>1. IsHom(h, Blocks, Blocks)
    BY UnsignedHoms
  <2>2. \A s \in Seq(Blocks) : h[s] = Unsigned(Say(s, type, c))
    BY DEF UnsignedSay
  <2> HIDE DEF h
  <2>3. ASSUME NEW i \in 1 .. n PROVE h[v[i]] = h[<<content[i]>>]
    <3> DEFINE b == content[i]
               y == Signed(b, SignatureOf(content, i))
    <3>1. b \in Blocks /\ y \in Blocks /\ y.type = b.type /\ y.body = b.body /\ Signed(y, << >>) = Signed(b, << >>)
      BY <1>1, <1>8
    <3>2. (b.type # "thought" => v[i] = <<y>>) /\ (b.type = "thought" => v[i] = << >>)
      BY <1>7
    <3> HIDE DEF b, y
    <3>3. <<b>> \in Seq(Blocks) /\ <<y>> \in Seq(Blocks) /\ << >> \in Seq(Blocks)
      BY <3>1
    <3>4. Say(<<b>>, type, c) = One(Sayable(type, c), b) /\ Say(<<y>>, type, c) = One(Sayable(type, c), y)
      BY <3>1, SayOne
    <3>5. Unsigned(<< >>) = << >> /\ Say(<< >>, type, c) = << >>
      BY UnsignedNothing, SayNothing
    <3>6. CASE b.type = "thought"
      <4>1. b \notin Sayable(type, c)
        BY <3>6 DEF Sayable, Carried
      <4>2. Say(<<b>>, type, c) = << >>
        BY <3>4, <4>1 DEF One
      <4> QED
        BY <2>2, <3>2, <3>3, <3>5, <3>6, <4>2 DEF b
    <3>7. CASE b.type # "thought"
      <4>1. y \in Sayable(type, c) <=> b \in Sayable(type, c)
        BY <3>1, <3>7 DEF Sayable, Carried
      <4>2. Unsigned(<<y>>) = Unsigned(<<b>>)
        BY <3>1, UnsignedOne
      <4>3. Unsigned(Say(<<y>>, type, c)) = Unsigned(Say(<<b>>, type, c))
        BY <3>4, <4>1, <4>2 DEF One
      <4> QED
        BY <2>2, <3>2, <3>3, <3>7, <4>3 DEF b
    <3> QED
      BY <3>6, <3>7
  <2>4. SeenAlike(h, v, h, content)
    BY <1>1, <1>9, <2>3 DEF SeenAlike
  <2>5. h[Flatten(v)] = h[content]
    BY <1>9, <2>1, <2>4, HomConverts
  <2> QED
    BY <1>6, <1>10, <2>2, <2>5
<1> QED
  BY <1>10, <1>11, <1>13, <1>14

\* A list that does not end in a mark signs nothing of the next one.
LEMMA SignedConcat ==
    ASSUME NEW a \in Seq(Blocks), NEW b \in Seq(Blocks), Closed(a)
    PROVE  SignedIn(a \o b) = SignedIn(a) \cup SignedIn(b) /\ (Closed(b) => Closed(a \o b))
<1> DEFINE ab == a \o b
           n == Len(a)
<1>1. n \in Nat /\ Len(b) \in Nat /\ Len(ab) = n + Len(b) /\ (\A i \in 1 .. n : ab[i] = a[i]) /\ (\A i \in 1 .. Len(b) : ab[n + i] = b[i])
  OBVIOUS
<1>2. a = << >> <=> n = 0
  OBVIOUS
<1>3. b = << >> <=> Len(b) = 0
  OBVIOUS
<1>4. ab = << >> => Len(ab) = 0
  OBVIOUS
<1> HIDE DEF ab
<1>5. ASSUME NEW x \in SignedIn(ab) PROVE x \in SignedIn(a) \cup SignedIn(b)
  <2>1. PICK i \in 2 .. Len(ab) : Mark(ab[i - 1]) /\ x = Signed(ab[i], ab[i - 1].sig)
    BY <1>5 DEF SignedIn
  <2>2. CASE i <= n
    <3>1. i \in 2 .. n /\ i - 1 \in 1 .. n /\ i \in 1 .. n
      BY <1>1, <2>1, <2>2
    <3>2. ab[i] = a[i] /\ ab[i - 1] = a[i - 1]
      BY <1>1, <3>1
    <3> QED
      BY <2>1, <3>1, <3>2 DEF SignedIn
  <2>3. CASE i = n + 1
    <3>1. i - 1 \in 1 .. n /\ i - 1 = n
      BY <1>1, <2>1, <2>3
    <3>2. ab[n] = a[n] /\ a # << >>
      BY <1>1, <1>2, <3>1
    <3> QED
      BY <2>1, <3>1, <3>2 DEF Closed
  <2>4. CASE i > n + 1
    <3> DEFINE j == i - n
    <3>1. j \in 2 .. Len(b) /\ i = n + j /\ j \in 1 .. Len(b) /\ i - 1 = n + (j - 1) /\ j - 1 \in 1 .. Len(b)
      BY <1>1, <2>1, <2>4
    <3> HIDE DEF j
    <3>2. ab[i] = b[j] /\ ab[i - 1] = b[j - 1]
      BY <1>1, <3>1
    <3> QED
      BY <2>1, <3>1, <3>2 DEF SignedIn
  <2> QED
    BY <1>1, <2>2, <2>3, <2>4
<1>6. ASSUME NEW x \in SignedIn(a) PROVE x \in SignedIn(ab)
  <2>1. PICK i \in 2 .. n : Mark(a[i - 1]) /\ x = Signed(a[i], a[i - 1].sig)
    BY <1>6 DEF SignedIn
  <2>2. i \in 2 .. Len(ab) /\ i \in 1 .. n /\ i - 1 \in 1 .. n
    BY <1>1, <2>1
  <2>3. ab[i] = a[i] /\ ab[i - 1] = a[i - 1]
    BY <1>1, <2>2
  <2> QED
    BY <2>1, <2>2, <2>3 DEF SignedIn
<1>7. ASSUME NEW x \in SignedIn(b) PROVE x \in SignedIn(ab)
  <2>1. PICK j \in 2 .. Len(b) : Mark(b[j - 1]) /\ x = Signed(b[j], b[j - 1].sig)
    BY <1>7 DEF SignedIn
  <2> DEFINE i == n + j
  <2>2. i \in 2 .. Len(ab) /\ j \in 1 .. Len(b) /\ j - 1 \in 1 .. Len(b) /\ i - 1 = n + (j - 1)
    BY <1>1, <2>1
  <2>3. ab[i] = b[j] /\ ab[i - 1] = b[j - 1]
    BY <1>1, <2>2
  <2> HIDE DEF i
  <2> QED
    BY <2>1, <2>2, <2>3 DEF SignedIn
<1>8. ASSUME Closed(b) PROVE Closed(ab)
  <2>1. CASE b = << >>
    <3>1. Len(ab) = n /\ (n # 0 => ab[n] = a[n])
      BY <1>1, <1>3, <2>1
    <3>2. n = 0 => ab = << >>
      BY <2>1, <1>2 DEF ab
    <3> QED
      BY <1>2, <3>1, <3>2 DEF Closed
  <2>2. CASE b # << >>
    <3>1. ab[n + Len(b)] = b[Len(b)]
      BY <1>1, <1>3, <2>2
    <3> QED
      BY <1>1, <1>8, <2>2, <3>1 DEF Closed
  <2> QED
    BY <2>1, <2>2
<1> QED
  BY <1>5, <1>6, <1>7, <1>8 DEF ab

\* Lists that do not end in marks sign their own blocks only.
LEMMA SignedFlatten ==
    ASSUME NEW s \in Seq(Seq(Blocks)), AllClosed(s)
    PROVE  SignedIn(Flatten(s)) = UNION {SignedIn(s[i]) : i \in DOMAIN s}
<1> DEFINE n == Len(s)
           C == Concatenations(s)
           U(k) == UNION {SignedIn(s[i]) : i \in 1 .. k}
           S == {k \in 0 .. n : Closed(C[k]) /\ SignedIn(C[k]) = U(k)}
<1>1. n \in Nat /\ DOMAIN s = 1 .. n /\ \A i \in 1 .. n : s[i] \in Seq(Blocks) /\ Closed(s[i])
  BY DEF AllClosed
<1>2. \A k \in 0 .. n : C[k] \in Seq(Blocks)
  BY ConcatenationsType
<1>3. C[0] = << >> /\ \A i \in 1 .. n : C[i] = C[i - 1] \o s[i]
  BY <1>1, ConcatenationsUnfold
<1> HIDE DEF C
<1>4. 0 \in S
  <2>1. Closed(<< >>) /\ SignedIn(<< >>) = {}
    BY DEF Closed, SignedIn
  <2>2. U(0) = {}
    OBVIOUS
  <2> QED
    BY <1>1, <1>3, <2>1, <2>2
<1>5. ASSUME NEW i \in 1 .. n, i - 1 \in S PROVE i \in S
  <2> DEFINE a == C[i - 1]
             b == s[i]
             e == C[i]
  <2>1. a \in Seq(Blocks) /\ b \in Seq(Blocks) /\ Closed(a) /\ Closed(b) /\ e = a \o b
    BY <1>1, <1>2, <1>3, <1>5
  <2>2. SignedIn(a) = U(i - 1)
    BY <1>5
  <2>3. U(i) = U(i - 1) \cup SignedIn(b)
    <3>1. 1 .. i = (1 .. (i - 1)) \cup {i}
      BY <1>1
    <3> HIDE DEF C
    <3> QED
      BY <3>1
  <2> HIDE DEF a, b, e, U
  <2>4. Closed(e) /\ SignedIn(e) = SignedIn(a) \cup SignedIn(b)
    BY <2>1, SignedConcat
  <2>5. Closed(C[i]) /\ SignedIn(C[i]) = U(i)
    BY <2>2, <2>3, <2>4 DEF e
  <2> QED
    BY <1>1, <2>5
<1>6. n \in S
  <2> HIDE DEF S, n
  <2>1. \A i \in 0 .. n : i \in S
    BY <1>1, <1>4, <1>5, Rounds
  <2> QED
    BY <1>1, <2>1
<1>7. Flatten(s) = C[n]
  BY DEF Flatten, C
<1> QED
  BY <1>1, <1>6, <1>7

\* AI Studio's conversion of the conversation says all of it and signs what was signed.
LEMMA StudioConversation ==
    ASSUME NEW c, Callable(c), NEW x, x = Each(c.messages, StudioContent)
    PROVE  x.ok \in BOOLEAN /\ (x.ok => /\ x.value \in Seq(Talk)
                                        /\ \A role \in Speakers, type \in Carried :
                                              Unsigned(Said(x.value, role, type, c)) = Unsigned(Said(c.messages, role, type, c))
                                        /\ SignedSent(x.value) = SignedBlocks(c.messages))
<1> DEFINE ms == c.messages
           n == Len(ms)
           part(i) == StudioParts(ms[i].content)
           r == [i \in 1 .. n |-> StudioContent(ms[i])]
           v == [i \in 1 .. n |-> r[i].value]
<1>1. ms \in Seq(Talk) /\ n \in Nat /\ DOMAIN ms = 1 .. n /\ \A i \in 1 .. n : ms[i] \in Talk
  BY DEF Callable, Talk
<1>2. x = All(r) /\ DOMAIN r = 1 .. n
  BY <1>1 DEF Each
<1> HIDE DEF ms, n
<1>3. \A i \in 1 .. n : ms[i].content \in Seq(Blocks) /\ ms[i].role \in Speakers
  BY <1>1 DEF Talk, Messages
<1>4. ASSUME NEW i \in 1 .. n
      PROVE  /\ part(i).ok \in BOOLEAN
             /\ part(i).ok => /\ part(i).value \in Seq(Blocks) /\ Closed(ms[i].content) /\ SignedOf(part(i).value) = SignedIn(ms[i].content)
                              /\ \A type \in Carried : \A d : Unsigned(Say(part(i).value, type, d)) = Unsigned(Say(ms[i].content, type, d))
  <2> DEFINE content == ms[i].content
             p == StudioParts(content)
  <2>1. content \in Seq(Blocks)
    BY <1>3
  <2> HIDE DEF content, p
  <2>2. p.ok \in BOOLEAN /\ (p.ok => /\ p.value \in Seq(Blocks) /\ Closed(content) /\ SignedOf(p.value) = SignedIn(content)
                                     /\ \A type \in Carried : \A d : Unsigned(Say(p.value, type, d)) = Unsigned(Say(content, type, d)))
    BY <2>1, StudioPartsAre DEF p
  <2> QED
    BY <2>2 DEF content, p
<1>5. ASSUME NEW i \in 1 .. n
      PROVE  r[i].ok \in BOOLEAN /\ (r[i].ok => part(i).ok /\ r[i].value = <<Message(ms[i].role, part(i).value)>>)
  <2>1. r[i] = IF part(i).ok THEN Ok(<<Message(ms[i].role, part(i).value)>>) ELSE part(i)
    BY DEF StudioContent
  <2>2. part(i).ok \in BOOLEAN
    BY <1>4
  <2> HIDE DEF part, r
  <2>3. CASE part(i).ok
    BY <2>1, <2>3 DEF Ok
  <2>4. CASE ~part(i).ok
    BY <2>1, <2>2, <2>4
  <2> QED
    BY <2>3, <2>4
<1> HIDE DEF r, part
<1>6. \A i \in 1 .. n : r[i].ok \in BOOLEAN
  BY <1>5
<1>7. x.ok \in BOOLEAN
  BY <1>1, <1>2, <1>6, AllBoolean
<1> SUFFICES ASSUME x.ok
             PROVE  /\ x.value \in Seq(Talk)
                    /\ \A role \in Speakers, type \in Carried :
                          Unsigned(Said(x.value, role, type, c)) = Unsigned(Said(c.messages, role, type, c))
                    /\ SignedSent(x.value) = SignedBlocks(c.messages)
  BY <1>7
<1>8. (\A i \in 1 .. n : r[i].ok) /\ x.value = Flatten(v)
  BY <1>1, <1>2, <1>6, AllOk
<1> DEFINE y == [i \in 1 .. n |-> Message(ms[i].role, part(i).value)]
<1>9. ASSUME NEW i \in 1 .. n
      PROVE  /\ v[i] = <<y[i]>> /\ y[i] \in Talk /\ y[i].role = ms[i].role /\ y[i].content = part(i).value
             /\ part(i).value \in Seq(Blocks) /\ Closed(ms[i].content) /\ SignedOf(part(i).value) = SignedIn(ms[i].content)
             /\ \A type \in Carried : Unsigned(Say(part(i).value, type, c)) = Unsigned(Say(ms[i].content, type, c))
  <2>1. part(i).ok /\ r[i].value = <<Message(ms[i].role, part(i).value)>>
    BY <1>5, <1>8
  <2>2. /\ part(i).value \in Seq(Blocks) /\ Closed(ms[i].content) /\ SignedOf(part(i).value) = SignedIn(ms[i].content)
        /\ \A type \in Carried : Unsigned(Say(part(i).value, type, c)) = Unsigned(Say(ms[i].content, type, c))
    BY <1>4, <2>1
  <2>3. y[i] = Message(ms[i].role, part(i).value) /\ v[i] = <<y[i]>>
    BY <2>1
  <2>4. y[i] \in Talk /\ y[i].role = ms[i].role /\ y[i].content = part(i).value
    BY <1>3, <2>2 DEF Message, Talk, Messages
  <2> QED
    BY <2>2, <2>3, <2>4
<1>10. y \in Seq(Talk) /\ DOMAIN y = 1 .. n /\ Len(y) = n
  <2>1. \A i \in 1 .. n : y[i] \in Talk
    BY <1>9
  <2> QED
    BY <1>1, <2>1
<1>11. v = [i \in DOMAIN y |-> <<y[i]>>]
  BY <1>9, <1>10
<1>12. x.value = y
  <2> HIDE DEF y, v
  <2> QED
    BY <1>8, <1>10, <1>11, FlattenSingles
<1>13. ASSUME NEW role \in Speakers, NEW type \in Carried
       PROVE  Unsigned(Said(y, role, type, c)) = Unsigned(Said(ms, role, type, c))
  <2> DEFINE h == UnsignedSaid(role, type, c)
  <2>1. IsHom(h, WireMessages, Blocks)
    BY UnsignedHoms
  <2>2. \A s \in Seq(WireMessages) : h[s] = Unsigned(Said(s, role, type, c))
    BY DEF UnsignedSaid
  <2>3. y \in Seq(WireMessages) /\ ms \in Seq(WireMessages)
    BY <1>1, <1>10, TalkWire
  <2> HIDE DEF h
  <2>4. ASSUME NEW i \in 1 .. n PROVE h[<<y[i]>>] = h[<<ms[i]>>]
    <3> DEFINE a == y[i]
               b == ms[i]
    <3>1. a \in Talk /\ b \in Talk /\ a.role = b.role /\ Unsigned(Say(a.content, type, c)) = Unsigned(Say(b.content, type, c))
      BY <1>1, <1>9
    <3> HIDE DEF a, b
    <3>2. a \in WireMessages /\ b \in WireMessages
      BY <3>1, TalkWire
    <3>3. <<a>> \in Seq(WireMessages) /\ <<b>> \in Seq(WireMessages)
      BY <3>2
    <3>4. Said(<<a>>, role, type, c) = IF Speaker(a.role) = role THEN Say(a.content, type, c) ELSE << >>
      BY <3>2, SaidOne
    <3>5. Said(<<b>>, role, type, c) = IF Speaker(b.role) = role THEN Say(b.content, type, c) ELSE << >>
      BY <3>2, SaidOne
    <3>6. Unsigned(Said(<<a>>, role, type, c)) = Unsigned(Said(<<b>>, role, type, c))
      BY <3>1, <3>4, <3>5
    <3> QED
      BY <2>2, <3>3, <3>6 DEF a, b
  <2> DEFINE one == [i \in DOMAIN y |-> <<y[i]>>]
  <2>5. one \in Seq(Seq(WireMessages)) /\ DOMAIN one = 1 .. n /\ Flatten(one) = y
    <3> HIDE DEF y
    <3>1. \A i \in 1 .. n : y[i] \in WireMessages
      BY <1>10, <2>3
    <3>2. \A i \in 1 .. n : <<y[i]>> \in Seq(WireMessages)
      BY <3>1, SingleType
    <3>3. one \in Seq(Seq(WireMessages)) /\ DOMAIN one = 1 .. n
      BY <1>1, <1>10, <3>2
    <3>4. Flatten(one) = y
      BY <2>3, FlattenSingles
    <3> QED
      BY <3>3, <3>4
  <2>6. SeenAlike(h, one, h, ms)
    BY <1>1, <2>4, <2>5, <1>10 DEF SeenAlike
  <2> HIDE DEF one, y
  <2>7. h[Flatten(one)] = h[ms]
    BY <2>1, <2>3, <2>5, <2>6, HomConverts
  <2> QED
    BY <2>2, <2>3, <2>5, <2>7
<1>14. SignedSent(y) = SignedBlocks(ms)
  <2> DEFINE s == [i \in 1 .. n |-> ms[i].content]
  <2>1. s \in Seq(Seq(Blocks)) /\ DOMAIN s = 1 .. n
    BY <1>1, <1>3
  <2>2. AllClosed(s)
    BY <1>9, <2>1 DEF AllClosed
  <2>3. SignedBlocks(ms) = SignedIn(Flatten(s))
    BY <1>1 DEF SignedBlocks, SignedIn, Signed, Mark
  <2>4. \A i \in 1 .. n : SignedIn(s[i]) = SignedOf(y[i].content)
    BY <1>9
  <2> HIDE DEF s
  <2>5. SignedIn(Flatten(s)) = UNION {SignedIn(s[i]) : i \in 1 .. n}
    BY <2>1, <2>2, SignedFlatten
  <2> HIDE DEF y
  <2>6. SignedSent(y) = UNION {SignedOf(y[i].content) : i \in 1 .. n}
    BY <1>10 DEF SignedSent, SignedOf
  <2> QED
    BY <2>3, <2>4, <2>5, <2>6
<1> QED
  BY <1>10, <1>12, <1>13, <1>14 DEF ms

\* AI Studio's request says the conversation, signs what was signed, and has no empty
\* message.
LEMMA StudioRequests ==
    ASSUME NEW c, Callable(c), StudioRequest(c).ok, NEW w, w = StudioRequest(c).value
    PROVE  /\ \A role \in Speakers, type \in Carried :
                 Unsigned(Said(w.messages, role, type, c)) = Unsigned(Said(c.messages, role, type, c))
           /\ w.messages \in Seq(Talk) /\ Full(w.messages) /\ SignedSent(w.messages) = SignedBlocks(c.messages)
           /\ w.system = c.system /\ Offers(w, StudioTools(c))
<1> DEFINE x == Each(c.messages, StudioContent)
           m == WithoutEmpty(x.value)
           a == StudioTools(c)
           f == GeminiFormat(c)
<1>1. x.ok \in BOOLEAN /\ (x.ok => /\ x.value \in Seq(Talk)
                                   /\ \A role \in Speakers, type \in Carried :
                                         Unsigned(Said(x.value, role, type, c)) = Unsigned(Said(c.messages, role, type, c))
                                   /\ SignedSent(x.value) = SignedBlocks(c.messages))
  <2> HIDE DEF x
  <2> QED
    BY StudioConversation DEF x
<1>2. StudioRequest(c) = IF c.messages = << >> THEN Refused ELSE IF ~x.ok THEN x ELSE Send(c, Ok(m), c.system, a, f, TRUE)
  BY DEF StudioRequest
<1> HIDE DEF x, m, a, f
<1>3. x.ok /\ c.messages # << >>
  <2>1. ASSUME c.messages = << >> PROVE FALSE
    BY <1>2, <2>1 DEF Refused, Failed
  <2>2. ASSUME c.messages # << >>, ~x.ok PROVE FALSE
    BY <1>2, <2>2
  <2> QED
    BY <1>1, <2>1, <2>2
<1>4. StudioRequest(c) = Send(c, Ok(m), c.system, a, f, TRUE)
  BY <1>2, <1>3
<1>5. w.messages = m /\ w.system = c.system /\ w.tools = a.tools /\ w.choice = a.choice
  BY <1>4 DEF Send, Ok, Wire
<1> DEFINE u == x.value
<1>6. u \in Seq(Talk) /\ m = WithoutEmpty(u) /\ SignedSent(u) = SignedBlocks(c.messages)
  BY <1>1, <1>3 DEF m
<1>7. ASSUME NEW role \in Speakers, NEW type \in Carried
      PROVE  Unsigned(Said(m, role, type, c)) = Unsigned(Said(c.messages, role, type, c))
  <2>1. Unsigned(Said(u, role, type, c)) = Unsigned(Said(c.messages, role, type, c))
    BY <1>1, <1>3
  <2> HIDE DEF u
  <2>2. Said(m, role, type, c) = Said(u, role, type, c)
    BY <1>6, WithoutEmptySays
  <2> QED
    BY <2>1, <2>2
<1> HIDE DEF u
<1>8. m \in Seq(Talk) /\ Full(m) /\ ToSet(m) = {z \in ToSet(u) : z.content # << >>}
  BY <1>6, WithoutEmptyIs
<1>9. SignedSent(m) = SignedSent(u)
  <2>1. ASSUME NEW s \in Seq(Talk) PROVE SignedSent(s) = UNION {SignedOf(z.content) : z \in ToSet(s)}
    BY DEF SignedSent, SignedOf, ToSet
  <2>2. SignedOf(<< >>) = {}
    BY DEF SignedOf, ToSet
  <2>3. UNION {SignedOf(z.content) : z \in ToSet(m)} = UNION {SignedOf(z.content) : z \in ToSet(u)}
    BY <1>8, <2>2
  <2> QED
    BY <1>6, <1>8, <2>1, <2>3
<1> QED
  BY <1>5, <1>6, <1>7, <1>8, <1>9 DEF Offers, a

-----------------------------------------------------------------------------
(***************************************************************************)
(* What a provider is sent, provider by provider                            *)
(***************************************************************************)
\* Each adapter's conversion of the tools keeps the choice among them.
LEMMA ToolsChosen ==
    ASSUME NEW p, NEW c, Callable(c)
    PROVE  /\ Chosen(p, c, OpenAITools(c)) /\ Chosen("azure", c, AzureTools(c)) /\ Chosen(p, c, MistralTools(c))
           /\ Chosen(p, c, IF c.choice = "none" THEN NoTools ELSE OpenAITools(c))
           /\ Chosen(p, c, AnthropicTools(c)) /\ Chosen(p, c, VertexAnthropicTools(c)) /\ Chosen(p, c, BedrockTools(c))
           /\ Chosen(p, c, VertexGeminiTools(c)) /\ Chosen(p, c, StudioTools(c))
<1>0. c.choice \in {"no_tools", "none", "auto", "required", "specific"}
  BY DEF Callable
<1>1. Chosen(p, c, OpenAITools(c))
  BY <1>0 DEF Chosen, OpenAITools, NoTools
<1>2. Chosen("azure", c, AzureTools(c))
  BY <1>0 DEF Chosen, OpenAITools, NoTools, AzureTools
<1>3. Chosen(p, c, MistralTools(c))
  <2>1. CASE c.choice = "no_tools"
    BY <2>1 DEF Chosen, MistralTools, NoTools
  <2>2. CASE c.choice = "none"
    BY <2>2 DEF Chosen, MistralTools
  <2>3. CASE c.choice = "specific"
    BY <2>3 DEF Chosen, MistralTools
  <2>4. CASE c.choice \in {"auto", "required"}
    BY <2>4 DEF Chosen, MistralTools
  <2> QED
    BY <1>0, <2>1, <2>2, <2>3, <2>4
<1>4. Chosen(p, c, IF c.choice = "none" THEN NoTools ELSE OpenAITools(c))
  BY <1>0, <1>1 DEF Chosen, NoTools
<1>5. Chosen(p, c, AnthropicTools(c)) /\ Chosen(p, c, VertexAnthropicTools(c)) /\ Chosen(p, c, BedrockTools(c))
  BY <1>4 DEF AnthropicTools, VertexAnthropicTools, BedrockTools
<1>6. Chosen(p, c, VertexGeminiTools(c))
  BY <1>0 DEF Chosen, VertexGeminiTools, VertexGeminiToolConfig, NoTools
<1>7. Chosen(p, c, StudioTools(c))
  BY <1>0 DEF Chosen, StudioTools, StudioToolConfig, NoTools
<1> QED
  BY <1>1, <1>2, <1>3, <1>4, <1>5, <1>6, <1>7

\* A request that offers the converted tools keeps the choice.
LEMMA OffersChosen ==
    ASSUME NEW p, NEW c, NEW t, NEW w, Offers(w, t), Chosen(p, c, t)
    PROVE  Chosen(p, c, w)
BY DEF Offers, Chosen

\* What the OpenAI-like providers are sent carries the input and is accepted.
LEMMA ChatRequestsFit ==
    ASSUME NEW c, Callable(c), NEW p \in OpenAILike, Request(p, c).ok, NEW w, w = Request(p, c).value
    PROVE  IsCarried(p, c, w) /\ IsAccepted(p, c, w)
<1>1. p \notin Gemini \cup {"anthropic", "vertex_anthropic", "bedrock"}
  BY DEF OpenAILike, Gemini
<1>2. Kept(w.messages, c, p \in HintsJson /\ (p = "deepseek" => c.model # "reasoner"))
  <2>1. CASE p # "deepseek"
    <3>1. p \in OpenAILike \ {"deepseek"}
      BY <2>1
    <3>2. Kept(Request(p, c).value.messages, c, p \in HintsJson)
      BY <3>1, ChatRequests
    <3> QED
      BY <2>1, <3>2 DEF Kept
  <2>2. CASE p = "deepseek"
    <3>1. DeepSeekRequest(c).ok /\ w = DeepSeekRequest(c).value
      BY <2>2 DEF Request
    <3>2. Kept(w.messages, c, c.model # "reasoner")
      BY <3>1, DeepSeekRequests
    <3> QED
      BY <2>2, <3>2 DEF Kept
  <2> QED
    BY <2>1, <2>2
<1>3. p = "deepseek" => Alternates(w.messages, {"tool"})
  BY DeepSeekRequests DEF Request
<1>4. p # "hyperbolic" => Chosen(p, c, w)
  <2>1. CASE p = "deepseek"
    <3>1. DeepSeekRequest(c).ok /\ w = DeepSeekRequest(c).value
      BY <2>1 DEF Request
    <3>2. Offers(w, OpenAITools(c))
      BY <3>1, DeepSeekRequests
    <3> QED
      BY <3>2, ToolsChosen, OffersChosen
  <2>2. CASE p \notin {"deepseek", "hyperbolic"}
    <3> DEFINE t == CASE p = "azure" -> AzureTools(c) [] p = "hyperbolic" -> NoTools
                      [] p = "together" -> (IF c.choice = "none" THEN NoTools ELSE OpenAITools(c))
                      [] p = "mistral" -> MistralTools(c) [] OTHER -> OpenAITools(c)
    <3>1. p \in OpenAILike \ {"deepseek"}
      BY <2>2
    <3>2. Offers(w, t)
      BY <3>1, ChatRequests
    <3>3. Chosen(p, c, t)
      <4>1. CASE p = "azure"
        BY <4>1, ToolsChosen
      <4>2. CASE p = "together"
        BY <4>2, ToolsChosen
      <4>3. CASE p = "mistral"
        BY <4>3, ToolsChosen
      <4>4. CASE p \notin {"azure", "together", "mistral"}
        BY <2>2, <4>4, ToolsChosen
      <4> QED
        BY <4>1, <4>2, <4>3, <4>4
    <3> HIDE DEF t
    <3> QED
      BY <3>2, <3>3, OffersChosen
  <2>3. CASE p = "hyperbolic"
    BY <2>3
  <2> QED
    BY <2>1, <2>2, <2>3
<1>5. \A role \in Speakers, type \in Carried :
          Unsigned(Said(w.messages, role, type, c)) = Unsigned(Said(c.messages, role, type, c))
  BY <1>2 DEF Kept, Carries, SaidAlike
<1>6. IsCarried(p, c, w)
  BY <1>1, <1>2, <1>4, <1>5 DEF IsCarried, Kept, Gemini
<1>7. IsAccepted(p, c, w)
  BY <1>1, <1>2, <1>3 DEF IsAccepted, Kept
<1> QED
  BY <1>6, <1>7

\* What is told is told without signatures too.
LEMMA TellsUnsigned ==
    ASSUME NEW c, NEW w, NEW T, Tells(w, c, T), Carried \subseteq T
    PROVE  \A role \in Speakers, type \in Carried : Unsigned(Said(w, role, type, c)) = Unsigned(Said(c.messages, role, type, c))
BY DEF Tells, SaidAlike

\* What the other providers are sent carries the input and is accepted.
LEMMA OtherRequestsFit ==
    ASSUME NEW c, Callable(c), NEW p \in Gemini \cup {"anthropic", "vertex_anthropic", "bedrock"},
           Request(p, c).ok, NEW w, w = Request(p, c).value
    PROVE  IsCarried(p, c, w) /\ IsAccepted(p, c, w)
<1>0. p \in {"vertex_gemini", "studio", "anthropic", "vertex_anthropic", "bedrock"} /\ p \notin OpenAILike /\ p \notin HintsJson
  BY DEF Gemini, OpenAILike, HintsJson
<1>1. CASE p = "anthropic"
  <2>1. AnthropicRequest(c).ok /\ w = AnthropicRequest(c).value
    BY <1>1 DEF Request
  <2>2. /\ Tells(w.messages, c, Carried \cup {"thought"})
        /\ Head(w.messages).role = "user" /\ (Last(w.messages).role = "user" \/ Last(w.messages) = Prefill)
        /\ w.system = c.system /\ Offers(w, AnthropicTools(c))
    BY <2>1, AnthropicRequests
  <2>3. Chosen(p, c, w)
    BY <2>2, ToolsChosen, OffersChosen
  <2>4. Said(w.messages, "assistant", "thought", c) = Said(c.messages, "assistant", "thought", c)
    BY <2>2 DEF Tells, SaidAlike, Speakers
  <2>5. Carried \subseteq Carried \cup {"thought"}
    OBVIOUS
  <2>6. \A role \in Speakers, type \in Carried : Unsigned(Said(w.messages, role, type, c)) = Unsigned(Said(c.messages, role, type, c))
    BY <2>2, <2>5, TellsUnsigned
  <2>7. IsCarried(p, c, w)
    BY <1>1, <2>2, <2>3, <2>4, <2>6 DEF IsCarried
  <2>8. IsAccepted(p, c, w)
    BY <1>0, <1>1, <2>2 DEF IsAccepted, Gemini
  <2> QED
    BY <2>7, <2>8
<1>2. CASE p = "vertex_anthropic"
  <2>1. VertexAnthropicRequest(c).ok /\ w = VertexAnthropicRequest(c).value
    BY <1>2 DEF Request
  <2>2. /\ Tells(w.messages, c, Carried) /\ Alternates(w.messages, {}) /\ Full(w.messages)
        /\ Head(w.messages).role = "user" /\ (Last(w.messages).role = "user" \/ Last(w.messages) = Prefill)
        /\ w.system = c.system /\ Offers(w, VertexAnthropicTools(c))
    BY <2>1, VertexAnthropicRequests
  <2>3. Chosen(p, c, w)
    BY <2>2, ToolsChosen, OffersChosen
  <2>6. \A role \in Speakers, type \in Carried : Unsigned(Said(w.messages, role, type, c)) = Unsigned(Said(c.messages, role, type, c))
    BY <2>2, TellsUnsigned
  <2>7. IsCarried(p, c, w)
    BY <1>2, <2>2, <2>3, <2>6 DEF IsCarried
  <2>8. IsAccepted(p, c, w)
    BY <1>0, <1>2, <2>2 DEF IsAccepted
  <2> QED
    BY <2>7, <2>8
<1>3. CASE p = "bedrock"
  <2>1. BedrockRequest(c).ok /\ w = BedrockRequest(c).value
    BY <1>3 DEF Request
  <2>2. Tells(w.messages, c, Carried) /\ w.system = c.system /\ Offers(w, BedrockTools(c))
    BY <2>1, BedrockRequests
  <2>3. Chosen(p, c, w)
    BY <2>2, ToolsChosen, OffersChosen
  <2>6. \A role \in Speakers, type \in Carried : Unsigned(Said(w.messages, role, type, c)) = Unsigned(Said(c.messages, role, type, c))
    BY <2>2, TellsUnsigned
  <2>7. IsCarried(p, c, w)
    BY <1>3, <2>2, <2>3, <2>6 DEF IsCarried
  <2>8. IsAccepted(p, c, w)
    BY <1>0, <1>3 DEF IsAccepted, Gemini
  <2> QED
    BY <2>7, <2>8
<1>4. CASE p = "vertex_gemini"
  <2>1. VertexGeminiRequest(c).ok /\ w = VertexGeminiRequest(c).value
    BY <1>4 DEF Request
  <2>2. Tells(w.messages, c, Carried) /\ Full(w.messages) /\ w.system = c.system /\ Offers(w, VertexGeminiTools(c))
    BY <2>1, VertexGeminiRequests
  <2>3. Chosen(p, c, w)
    BY <2>2, ToolsChosen, OffersChosen
  <2>6. \A role \in Speakers, type \in Carried : Unsigned(Said(w.messages, role, type, c)) = Unsigned(Said(c.messages, role, type, c))
    BY <2>2, TellsUnsigned
  <2>7. IsCarried(p, c, w)
    BY <1>4, <2>2, <2>3, <2>6 DEF IsCarried
  <2>8. IsAccepted(p, c, w)
    BY <1>0, <1>4, <2>2 DEF IsAccepted
  <2> QED
    BY <2>7, <2>8
<1>5. CASE p = "studio"
  <2>1. StudioRequest(c).ok /\ w = StudioRequest(c).value
    BY <1>5 DEF Request
  <2>2. /\ \A role \in Speakers, type \in Carried :
              Unsigned(Said(w.messages, role, type, c)) = Unsigned(Said(c.messages, role, type, c))
        /\ Full(w.messages) /\ SignedSent(w.messages) = SignedBlocks(c.messages) /\ w.system = c.system /\ Offers(w, StudioTools(c))
    BY <2>1, StudioRequests
  <2>3. Chosen(p, c, w)
    BY <2>2, ToolsChosen, OffersChosen
  <2>7. IsCarried(p, c, w)
    BY <1>5, <2>2, <2>3 DEF IsCarried
  <2>8. IsAccepted(p, c, w)
    BY <1>0, <1>5, <2>2 DEF IsAccepted
  <2> QED
    BY <2>7, <2>8
<1> QED
  BY <1>0, <1>1, <1>2, <1>3, <1>4, <1>5

\* What any provider is sent carries the input and is accepted.
LEMMA RequestsFit ==
    ASSUME NEW c, Callable(c), NEW p \in OpenAILike \cup Gemini \cup {"anthropic", "vertex_anthropic", "bedrock"},
           Request(p, c).ok, NEW w, w = Request(p, c).value
    PROVE  IsCarried(p, c, w) /\ IsAccepted(p, c, w)
BY ChatRequestsFit, OtherRequestsFit

\* Whatever is sent as a call asks for it, it holds the call, and the provider takes it.
LEMMA SentFits ==
    ASSUME phase = "sent" => /\ provider \in OpenAILike \cup Gemini \cup {"anthropic", "vertex_anthropic", "bedrock"}
                             /\ Callable(call) /\ Request(provider, call).ok /\ sent = Request(provider, call).value
    PROVE  InputIsCarried /\ RequestIsAccepted
<1> SUFFICES ASSUME phase = "sent"
             PROVE  InputIsCarried /\ RequestIsAccepted
  BY DEF InputIsCarried, RequestIsAccepted
<1>1. IsCarried(provider, call, sent) /\ IsAccepted(provider, call, sent)
  BY RequestsFit
<1>2. InputIsCarried
  <2>1. ChoiceIsKept
    BY <1>1 DEF IsCarried, Chosen, ChoiceIsKept
  <2>2. \A role \in {"user", "assistant"}, type \in {"text", "image", "file", "unknown", "tool_call", "tool_result"} :
            Unsigned(Said(sent.messages, role, type, call)) = Unsigned(Said(call.messages, role, type, call))
    BY <1>1 DEF IsCarried, Speakers, Carried
  <2> QED
    BY <1>1, <2>1, <2>2 DEF InputIsCarried, IsCarried, SignedSent
<1>3. RequestIsAccepted
  <2> DEFINE m == sent.messages
  <2>1. provider \in OpenAILike => \A i \in DOMAIN m : m[i].role = "tool" => i > 1 /\ (m[i - 1].role = "tool" \/ Has(m[i - 1].content, {"tool_call"}))
    BY <1>1 DEF IsAccepted, ToolsFollow, Answerable
  <2>2. provider \in Gemini \cup {"vertex_anthropic"} => \A i \in DOMAIN m : m[i].content # <<>>
    BY <1>1 DEF IsAccepted, Full, ToSet
  <2> QED
    BY <1>1, <2>1, <2>2 DEF RequestIsAccepted, IsAccepted
<1> QED
  BY <1>2, <1>3

-----------------------------------------------------------------------------
(***************************************************************************)
(* The `?` of a sequence of results                                         *)
(***************************************************************************)
\* A chain of fallible steps succeeds if each does, with the value of the last.
LEMMA FirstOk ==
    ASSUME NEW r, NEW n \in Nat, n > 0, DOMAIN r = 1 .. n, Len(r) = n, First(r).ok
    PROVE  First(r) = r[n] /\ \A i \in 1 .. n : r[i].ok
<1> DEFINE failed == {i \in DOMAIN r : ~r[i].ok}
<1>1. First(r) = r[IF failed = {} THEN n ELSE Min(failed)]
  BY DEF First
<1>2. failed \subseteq Nat /\ \A i \in failed : ~r[i].ok
  OBVIOUS
<1>3. failed = {} => \A i \in 1 .. n : r[i].ok
  OBVIOUS
<1> HIDE DEF failed
<1>4. ASSUME failed # {} PROVE FALSE
  <2>1. Min(failed) \in failed
    BY <1>2, <1>4, MinIn
  <2> QED
    BY <1>1, <1>2, <1>4, <2>1
<1> QED
  BY <1>1, <1>3, <1>4

\* Two steps in a chain.
LEMMA FirstOfTwo ==
    ASSUME NEW a, NEW b, First(<<a, b>>).ok
    PROVE  a.ok /\ b.ok
<1> DEFINE r == <<a, b>>
<1>1. Len(r) = 2 /\ DOMAIN r = 1 .. 2 /\ r[1] = a /\ r[2] = b
  OBVIOUS
<1>2. First(r).ok /\ 2 \in Nat /\ 2 > 0
  OBVIOUS
<1> HIDE DEF r
<1>3. \A i \in 1 .. 2 : r[i].ok
  BY <1>1, <1>2, FirstOk
<1> QED
  BY <1>1, <1>3

\* Three steps in a chain.
LEMMA FirstOfThree ==
    ASSUME NEW a, NEW b, NEW c, First(<<a, b, c>>).ok
    PROVE  First(<<a, b, c>>) = c /\ a.ok /\ b.ok /\ c.ok
<1> DEFINE r == <<a, b, c>>
<1>1. Len(r) = 3 /\ DOMAIN r = 1 .. 3 /\ r[1] = a /\ r[2] = b /\ r[3] = c
  OBVIOUS
<1>2. First(r).ok /\ 3 \in Nat /\ 3 > 0
  OBVIOUS
<1> HIDE DEF r
<1>3. First(r) = r[3] /\ \A i \in 1 .. 3 : r[i].ok
  BY <1>1, <1>2, FirstOk
<1> QED
  BY <1>1, <1>3 DEF r

\* Four steps in a chain.
LEMMA FirstOfFour ==
    ASSUME NEW a, NEW b, NEW c, NEW d, First(<<a, b, c, d>>).ok
    PROVE  First(<<a, b, c, d>>) = d /\ a.ok /\ b.ok /\ c.ok
<1> DEFINE r == <<a, b, c, d>>
<1>1. Len(r) = 4 /\ DOMAIN r = 1 .. 4 /\ r[1] = a /\ r[2] = b /\ r[3] = c /\ r[4] = d
  OBVIOUS
<1>2. First(r).ok /\ 4 \in Nat /\ 4 > 0
  OBVIOUS
<1> HIDE DEF r
<1>3. First(r) = r[4] /\ \A i \in 1 .. 4 : r[i].ok
  BY <1>1, <1>2, FirstOk
<1> QED
  BY <1>1, <1>3 DEF r

\* A call that succeeds was sent, and its content is that of its response.
LEMMA InferSends ==
    ASSUME NEW p \in AllProviders, NEW c, Infer(p, c).ok
    PROVE  Request(p, c).ok /\ Infer(p, c) = Response(p, c)
<1>1. CASE p = "openai"
  <2>1. Infer(p, c) = OpenAIInfer(c) /\ Request(p, c) = OpenAIRequest(c) /\ Response(p, c) = OpenAIResponse(c)
    BY <1>1 DEF Infer, Request, Response
  <2>2. OpenAIRequest(c).ok /\ OpenAIInfer(c) = OpenAIResponse(c)
    BY <2>1, FirstOfFour DEF OpenAIInfer
  <2> QED
    BY <2>1, <2>2
<1>2. CASE p = "azure"
  <2>1. Infer(p, c) = AzureInfer(c) /\ Request(p, c) = AzureRequest(c) /\ Response(p, c) = AzureResponse(c)
    BY <1>2 DEF Infer, Request, Response
  <2>2. AzureRequest(c).ok /\ AzureInfer(c) = AzureResponse(c)
    BY <2>1, FirstOfFour DEF AzureInfer
  <2> QED
    BY <2>1, <2>2
<1>3. CASE p = "deepseek"
  <2>1. Infer(p, c) = DeepSeekInfer(c) /\ Request(p, c) = DeepSeekRequest(c) /\ Response(p, c) = DeepSeekResponse(c)
    BY <1>3 DEF Infer, Request, Response
  <2>2. DeepSeekRequest(c).ok /\ DeepSeekInfer(c) = DeepSeekResponse(c)
    BY <2>1, FirstOfFour DEF DeepSeekInfer
  <2> QED
    BY <2>1, <2>2
<1>4. CASE p = "fireworks"
  <2>1. Infer(p, c) = FireworksInfer(c) /\ Request(p, c) = FireworksRequest(c) /\ Response(p, c) = FireworksResponse(c)
    BY <1>4 DEF Infer, Request, Response
  <2>2. FireworksRequest(c).ok /\ FireworksInfer(c) = FireworksResponse(c)
    BY <2>1, FirstOfFour DEF FireworksInfer
  <2> QED
    BY <2>1, <2>2
<1>5. CASE p = "together"
  <2>1. Infer(p, c) = TogetherInfer(c) /\ Request(p, c) = TogetherRequest(c) /\ Response(p, c) = TogetherResponse(c)
    BY <1>5 DEF Infer, Request, Response
  <2>2. TogetherRequest(c).ok /\ TogetherInfer(c) = TogetherResponse(c)
    BY <2>1, FirstOfFour DEF TogetherInfer
  <2> QED
    BY <2>1, <2>2
<1>6. CASE p = "groq"
  <2>1. Infer(p, c) = GroqInfer(c) /\ Request(p, c) = GroqRequest(c) /\ Response(p, c) = GroqResponse(c)
    BY <1>6 DEF Infer, Request, Response
  <2>2. GroqRequest(c).ok /\ GroqInfer(c) = GroqResponse(c)
    BY <2>1, FirstOfFour DEF GroqInfer
  <2> QED
    BY <2>1, <2>2
<1>7. CASE p = "openrouter"
  <2>1. Infer(p, c) = OpenRouterInfer(c) /\ Request(p, c) = OpenRouterRequest(c) /\ Response(p, c) = OpenRouterResponse(c)
    BY <1>7 DEF Infer, Request, Response
  <2>2. OpenRouterRequest(c).ok /\ OpenRouterInfer(c) = OpenRouterResponse(c)
    BY <2>1, FirstOfFour DEF OpenRouterInfer
  <2> QED
    BY <2>1, <2>2
<1>8. CASE p = "xai"
  <2>1. Infer(p, c) = XAIInfer(c) /\ Request(p, c) = XAIRequest(c) /\ Response(p, c) = XAIResponse(c)
    BY <1>8 DEF Infer, Request, Response
  <2>2. XAIRequest(c).ok /\ XAIInfer(c) = XAIResponse(c)
    BY <2>1, FirstOfFour DEF XAIInfer
  <2> QED
    BY <2>1, <2>2
<1>9. CASE p = "hyperbolic"
  <2>1. Infer(p, c) = HyperbolicInfer(c) /\ Request(p, c) = HyperbolicRequest(c) /\ Response(p, c) = HyperbolicResponse(c)
    BY <1>9 DEF Infer, Request, Response
  <2>2. HyperbolicRequest(c).ok /\ HyperbolicInfer(c) = HyperbolicResponse(c)
    BY <2>1, FirstOfFour DEF HyperbolicInfer
  <2> QED
    BY <2>1, <2>2
<1>10. CASE p = "sglang"
  <2>1. Infer(p, c) = SGLangInfer(c) /\ Request(p, c) = SGLangRequest(c) /\ Response(p, c) = SGLangResponse(c)
    BY <1>10 DEF Infer, Request, Response
  <2>2. SGLangRequest(c).ok /\ SGLangInfer(c) = SGLangResponse(c)
    BY <2>1, FirstOfFour DEF SGLangInfer
  <2> QED
    BY <2>1, <2>2
<1>11. CASE p = "tgi"
  <2>1. Infer(p, c) = TGIInfer(c) /\ Request(p, c) = TGIRequest(c) /\ Response(p, c) = TGIResponse(c)
    BY <1>11 DEF Infer, Request, Response
  <2>2. TGIRequest(c).ok /\ TGIInfer(c) = TGIResponse(c)
    BY <2>1, FirstOfFour DEF TGIInfer
  <2> QED
    BY <2>1, <2>2
<1>12. CASE p = "vllm"
  <2>1. Infer(p, c) = VLLMInfer(c) /\ Request(p, c) = VLLMRequest(c) /\ Response(p, c) = VLLMResponse(c)
    BY <1>12 DEF Infer, Request, Response
  <2>2. VLLMRequest(c).ok /\ VLLMInfer(c) = VLLMResponse(c)
    BY <2>1, FirstOfFour DEF VLLMInfer
  <2> QED
    BY <2>1, <2>2
<1>13. CASE p = "mistral"
  <2>1. Infer(p, c) = MistralInfer(c) /\ Request(p, c) = MistralRequest(c) /\ Response(p, c) = MistralResponse(c)
    BY <1>13 DEF Infer, Request, Response
  <2>2. MistralRequest(c).ok /\ MistralInfer(c) = MistralResponse(c)
    BY <2>1, FirstOfFour DEF MistralInfer
  <2> QED
    BY <2>1, <2>2
<1>14. CASE p = "anthropic"
  <2>1. Infer(p, c) = AnthropicInfer(c) /\ Request(p, c) = AnthropicRequest(c) /\ Response(p, c) = AnthropicResponse(c)
    BY <1>14 DEF Infer, Request, Response
  <2>2. AnthropicRequest(c).ok /\ AnthropicInfer(c) = AnthropicResponse(c)
    BY <2>1, FirstOfFour DEF AnthropicInfer
  <2> QED
    BY <2>1, <2>2
<1>15. CASE p = "vertex_anthropic"
  <2>1. Infer(p, c) = VertexAnthropicInfer(c) /\ Request(p, c) = VertexAnthropicRequest(c) /\ Response(p, c) = VertexAnthropicResponse(c)
    BY <1>15 DEF Infer, Request, Response
  <2>2. VertexAnthropicRequest(c).ok /\ VertexAnthropicInfer(c) = VertexAnthropicResponse(c)
    BY <2>1, FirstOfFour DEF VertexAnthropicInfer
  <2> QED
    BY <2>1, <2>2
<1>16. CASE p = "vertex_gemini"
  <2>1. Infer(p, c) = VertexGeminiInfer(c) /\ Request(p, c) = VertexGeminiRequest(c) /\ Response(p, c) = VertexGeminiResponse(c)
    BY <1>16 DEF Infer, Request, Response
  <2>2. VertexGeminiRequest(c).ok /\ VertexGeminiInfer(c) = VertexGeminiResponse(c)
    BY <2>1, FirstOfFour DEF VertexGeminiInfer
  <2> QED
    BY <2>1, <2>2
<1>17. CASE p = "studio"
  <2>1. Infer(p, c) = StudioInfer(c) /\ Request(p, c) = StudioRequest(c) /\ Response(p, c) = StudioResponse(c)
    BY <1>17 DEF Infer, Request, Response
  <2>2. StudioRequest(c).ok /\ StudioInfer(c) = StudioResponse(c)
    BY <2>1, FirstOfFour DEF StudioInfer
  <2> QED
    BY <2>1, <2>2
<1>18. CASE p = "bedrock"
  <2>1. Infer(p, c) = BedrockInfer(c) /\ Request(p, c) = BedrockRequest(c) /\ Response(p, c) = BedrockResponse(c)
    BY <1>18 DEF Infer, Request, Response
  <2>2. BedrockRequest(c).ok /\ BedrockInfer(c) = BedrockResponse(c)
    BY <2>1, FirstOfThree DEF BedrockInfer
  <2> QED
    BY <2>1, <2>2
<1>19. CASE p = "sagemaker"
  <2>1. Infer(p, c) = SageMakerInfer(c) /\ Request(p, c) = OpenAIRequest(c) /\ Response(p, c) = OpenAIResponse(c)
    BY <1>19 DEF Infer, Request, Response
  <2>2. OpenAIRequest(c).ok /\ SageMakerInfer(c) = OpenAIResponse(c)
    BY <2>1, FirstOfThree DEF SageMakerInfer
  <2> QED
    BY <2>1, <2>2
<1> QED
  BY <1>1, <1>2, <1>3, <1>4, <1>5, <1>6, <1>7, <1>8, <1>9, <1>10, <1>11, <1>12, <1>13, <1>14, <1>15, <1>16, <1>17, <1>18, <1>19 DEF AllProviders, OpenAILike, Gemini

\* A stream that opens was sent.
LEMMA InferStreamSends ==
    ASSUME NEW p \in AllProviders, NEW c, InferStream(p, c).ok
    PROVE  Request(p, c).ok
<1>1. CASE p = "openai"
  <2>1. InferStream(p, c) = OpenAIOpen(c) /\ Request(p, c) = OpenAIRequest(c)
    BY <1>1 DEF InferStream, Request
  <2>2. OpenAIRequest(c).ok
    BY <2>1, FirstOfTwo DEF OpenAIOpen
  <2> QED
    BY <2>1, <2>2
<1>2. CASE p = "azure"
  <2>1. InferStream(p, c) = AzureOpen(c) /\ Request(p, c) = AzureRequest(c)
    BY <1>2 DEF InferStream, Request
  <2>2. AzureRequest(c).ok
    BY <2>1, FirstOfTwo DEF AzureOpen
  <2> QED
    BY <2>1, <2>2
<1>3. CASE p = "deepseek"
  <2>1. InferStream(p, c) = DeepSeekOpen(c) /\ Request(p, c) = DeepSeekRequest(c)
    BY <1>3 DEF InferStream, Request
  <2>2. DeepSeekRequest(c).ok
    BY <2>1, FirstOfTwo DEF DeepSeekOpen
  <2> QED
    BY <2>1, <2>2
<1>4. CASE p = "fireworks"
  <2>1. InferStream(p, c) = FireworksOpen(c) /\ Request(p, c) = FireworksRequest(c)
    BY <1>4 DEF InferStream, Request
  <2>2. FireworksRequest(c).ok
    BY <2>1, FirstOfTwo DEF FireworksOpen
  <2> QED
    BY <2>1, <2>2
<1>5. CASE p = "together"
  <2>1. InferStream(p, c) = TogetherOpen(c) /\ Request(p, c) = TogetherRequest(c)
    BY <1>5 DEF InferStream, Request
  <2>2. TogetherRequest(c).ok
    BY <2>1, FirstOfTwo DEF TogetherOpen
  <2> QED
    BY <2>1, <2>2
<1>6. CASE p = "groq"
  <2>1. InferStream(p, c) = GroqOpen(c) /\ Request(p, c) = GroqRequest(c)
    BY <1>6 DEF InferStream, Request
  <2>2. GroqRequest(c).ok
    BY <2>1, FirstOfTwo DEF GroqOpen
  <2> QED
    BY <2>1, <2>2
<1>7. CASE p = "openrouter"
  <2>1. InferStream(p, c) = OpenRouterOpen(c) /\ Request(p, c) = OpenRouterRequest(c)
    BY <1>7 DEF InferStream, Request
  <2>2. OpenRouterRequest(c).ok
    BY <2>1, FirstOfTwo DEF OpenRouterOpen
  <2> QED
    BY <2>1, <2>2
<1>8. CASE p = "xai"
  <2>1. InferStream(p, c) = XAIOpen(c) /\ Request(p, c) = XAIRequest(c)
    BY <1>8 DEF InferStream, Request
  <2>2. XAIRequest(c).ok
    BY <2>1, FirstOfTwo DEF XAIOpen
  <2> QED
    BY <2>1, <2>2
<1>9. CASE p = "hyperbolic"
  <2>1. InferStream(p, c) = HyperbolicOpen(c) /\ Request(p, c) = HyperbolicRequest(c)
    BY <1>9 DEF InferStream, Request
  <2>2. HyperbolicRequest(c).ok
    BY <2>1, FirstOfTwo DEF HyperbolicOpen
  <2> QED
    BY <2>1, <2>2
<1>10. CASE p = "sglang"
  <2>1. InferStream(p, c) = SGLangOpen(c) /\ Request(p, c) = SGLangRequest(c)
    BY <1>10 DEF InferStream, Request
  <2>2. SGLangRequest(c).ok
    BY <2>1, FirstOfTwo DEF SGLangOpen
  <2> QED
    BY <2>1, <2>2
<1>11. CASE p = "tgi"
  <2>1. InferStream(p, c) = TGIOpen(c) /\ Request(p, c) = TGIRequest(c)
    BY <1>11 DEF InferStream, Request
  <2>2. TGIRequest(c).ok
    BY <2>1, FirstOfTwo DEF TGIOpen
  <2> QED
    BY <2>1, <2>2
<1>12. CASE p = "vllm"
  <2>1. InferStream(p, c) = VLLMOpen(c) /\ Request(p, c) = VLLMRequest(c)
    BY <1>12 DEF InferStream, Request
  <2>2. VLLMRequest(c).ok
    BY <2>1, FirstOfTwo DEF VLLMOpen
  <2> QED
    BY <2>1, <2>2
<1>13. CASE p = "mistral"
  <2>1. InferStream(p, c) = MistralOpen(c) /\ Request(p, c) = MistralRequest(c)
    BY <1>13 DEF InferStream, Request
  <2>2. MistralRequest(c).ok
    BY <2>1, FirstOfTwo DEF MistralOpen
  <2> QED
    BY <2>1, <2>2
<1>14. CASE p = "anthropic"
  <2>1. InferStream(p, c) = AnthropicOpen(c) /\ Request(p, c) = AnthropicRequest(c)
    BY <1>14 DEF InferStream, Request
  <2>2. AnthropicRequest(c).ok
    BY <2>1, FirstOfTwo DEF AnthropicOpen
  <2> QED
    BY <2>1, <2>2
<1>15. CASE p = "vertex_anthropic"
  <2>1. InferStream(p, c) = VertexAnthropicOpen(c) /\ Request(p, c) = VertexAnthropicRequest(c)
    BY <1>15 DEF InferStream, Request
  <2>2. VertexAnthropicRequest(c).ok
    BY <2>1, FirstOfTwo DEF VertexAnthropicOpen
  <2> QED
    BY <2>1, <2>2
<1>16. CASE p = "vertex_gemini"
  <2>1. InferStream(p, c) = VertexGeminiOpen(c) /\ Request(p, c) = VertexGeminiRequest(c)
    BY <1>16 DEF InferStream, Request
  <2>2. VertexGeminiRequest(c).ok
    BY <2>1, FirstOfTwo DEF VertexGeminiOpen
  <2> QED
    BY <2>1, <2>2
<1>17. CASE p = "studio"
  <2>1. InferStream(p, c) = StudioOpen(c) /\ Request(p, c) = StudioRequest(c)
    BY <1>17 DEF InferStream, Request
  <2>2. StudioRequest(c).ok
    BY <2>1, FirstOfTwo DEF StudioOpen
  <2> QED
    BY <2>1, <2>2
<1>18. CASE p = "bedrock"
  <2>1. InferStream(p, c) = BedrockOpen(c) /\ Request(p, c) = BedrockRequest(c)
    BY <1>18 DEF InferStream, Request
  <2>2. BedrockRequest(c).ok
    BY <2>1 DEF BedrockOpen
  <2> QED
    BY <2>1, <2>2
<1>19. CASE p = "sagemaker"
  <2>1. InferStream(p, c) = SageMakerOpen(c) /\ Request(p, c) = OpenAIRequest(c)
    BY <1>19 DEF InferStream, Request
  <2>2. OpenAIRequest(c).ok
    BY <2>1 DEF SageMakerOpen
  <2> QED
    BY <2>1, <2>2
<1> QED
  BY <1>1, <1>2, <1>3, <1>4, <1>5, <1>6, <1>7, <1>8, <1>9, <1>10, <1>11, <1>12, <1>13, <1>14, <1>15, <1>16, <1>17, <1>18, <1>19 DEF AllProviders, OpenAILike, Gemini

-----------------------------------------------------------------------------
(***************************************************************************)
(* From the request at the gateway to the model's                           *)
(***************************************************************************)
\* The fields of a success.
LEMMA OkIs ==
    ASSUME NEW v
    PROVE  Ok(v).ok /\ Ok(v).ok \in BOOLEAN /\ Ok(v).value = v
BY DEF Ok

\* The fields of a failure.
LEMMA FailedIs ==
    ASSUME NEW e
    PROVE  ~Failed(e).ok /\ Failed(e).ok \in BOOLEAN
BY DEF Failed

\* A list of fallible lists, as one fallible list.
LEMMA AllType ==
    ASSUME NEW X, NEW r, NEW n \in Nat, DOMAIN r = 1 .. n, \A i \in 1 .. n : Yields(r[i], X)
    PROVE  Yields(All(r), X)
<1> DEFINE v == [i \in 1 .. n |-> r[i].value]
<1>1. \A i \in 1 .. n : r[i].ok \in BOOLEAN
  BY DEF Yields
<1>2. All(r).ok \in BOOLEAN
  BY <1>1, AllBoolean
<1>3. ASSUME All(r).ok PROVE All(r).value \in Seq(X)
  <2>1. (\A i \in 1 .. n : r[i].ok) /\ All(r).value = Flatten(v)
    BY <1>1, <1>3, AllOk
  <2>2. v \in Seq(Seq(X))
    <3>1. \A i \in 1 .. n : r[i].value \in Seq(X)
      BY <2>1 DEF Yields
    <3> QED
      BY <3>1
  <2> HIDE DEF v
  <2> QED
    BY <2>1, <2>2, FlattenType
<1> QED
  BY <1>2, <1>3 DEF Yields

\* A list of fallible elements, as one fallible list of as many.
LEMMA AllSingles ==
    ASSUME NEW X, NEW r, NEW n \in Nat, DOMAIN r = 1 .. n, \A i \in 1 .. n : YieldsOne(r[i], X), All(r).ok
    PROVE  All(r).value \in Seq(X) /\ Len(All(r).value) = n /\ Singles(r, All(r).value)
<1> DEFINE v == [i \in 1 .. n |-> r[i].value]
           s == [i \in 1 .. n |-> r[i].value[1]]
<1>1. \A i \in 1 .. n : r[i].ok \in BOOLEAN
  BY DEF YieldsOne
<1>2. (\A i \in 1 .. n : r[i].ok) /\ All(r).value = Flatten(v)
  BY <1>1, AllOk
<1>3. ASSUME NEW i \in 1 .. n PROVE v[i] = <<s[i]>> /\ s[i] \in X /\ r[i].value = <<s[i]>>
  <2>1. PICK y \in X : r[i].value = <<y>>
    BY <1>2 DEF YieldsOne
  <2>2. r[i].value[1] = y
    BY <2>1
  <2> QED
    BY <2>1, <2>2
<1>4. s \in Seq(X) /\ DOMAIN s = 1 .. n /\ Len(s) = n
  <2>1. \A i \in 1 .. n : s[i] \in X
    BY <1>3
  <2> QED
    BY <2>1
<1>5. v = [i \in DOMAIN s |-> <<s[i]>>]
  BY <1>3, <1>4
<1>6. \A i \in 1 .. n : r[i].value = <<s[i]>>
  BY <1>3
<1> HIDE DEF v, s
<1>7. All(r).value = s
  BY <1>2, <1>4, <1>5, FlattenSingles
<1> QED
  BY <1>2, <1>4, <1>6, <1>7 DEF Singles

\* Results follow calls in a conversation that is alike, message by message.
LEMMA ResultsStillFollow ==
    ASSUME NEW X, NEW s \in Seq(X), NEW t, Alike(s, t), ResultsFollow(s)
    PROVE  ResultsFollow(t)
<1> SUFFICES ASSUME NEW i \in DOMAIN t, t[i].role = "user", Has(t[i].content, {"tool_result"})
             PROVE  /\ i > 1
                    /\ \/ Has(t[i - 1].content, {"tool_call", "tool_call_input"})
                       \/ /\ t[i - 1].role = "user" /\ t[i - 1].content # <<>>
                          /\ \A j \in DOMAIN t[i - 1].content : t[i - 1].content[j].type = "tool_result"
  BY DEF ResultsFollow
<1>1. i \in DOMAIN s /\ Like(s[i], t[i]) /\ i \in 1 .. Len(s)
  BY DEF Alike
<1>2. s[i].role = "user" /\ Has(s[i].content, {"tool_result"})
  BY <1>1 DEF Like, Has
<1>3. /\ i > 1
      /\ \/ Has(s[i - 1].content, {"tool_call", "tool_call_input"})
         \/ /\ s[i - 1].role = "user" /\ s[i - 1].content # <<>>
            /\ \A j \in DOMAIN s[i - 1].content : s[i - 1].content[j].type = "tool_result"
  BY <1>1, <1>2 DEF ResultsFollow
<1> DEFINE a == s[i - 1]
           b == t[i - 1]
<1>4. Like(a, b)
  <2>1. i - 1 \in DOMAIN s
    BY <1>1, <1>3
  <2> QED
    BY <2>1 DEF Alike
<1> HIDE DEF a, b
<1>5. CASE Has(a.content, {"tool_call", "tool_call_input"})
  BY <1>3, <1>4, <1>5 DEF Has, Like, b
<1>6. CASE /\ a.role = "user" /\ a.content # <<>>
           /\ \A j \in DOMAIN a.content : a.content[j].type = "tool_result"
  BY <1>3, <1>4, <1>6 DEF Like, b
<1> QED
  BY <1>3, <1>5, <1>6 DEF a

\* A block that turns into one of the same kind.
LEMMA TurnsOk ==
    ASSUME NEW b, NEW y \in Blocks, b.type = "tool_result" <=> y.type = "tool_result",
           b.type \in {"tool_call", "tool_call_input"} => y.type = "tool_call"
    PROVE  Turns(b, Ok(<<y>>))
<1> DEFINE one == <<y>>
           x == Ok(one)
<1>1. x.ok /\ x.ok \in BOOLEAN /\ x.value = one
  BY OkIs
<1> HIDE DEF x
<1>2. Turns(b, x)
  BY <1>1 DEF Turns
<1> QED
  BY <1>2 DEF x

\* A block that cannot be converted turns into no block.
LEMMA TurnsFailed ==
    ASSUME NEW b, NEW e
    PROVE  Turns(b, Failed(e))
<1> DEFINE x == Failed(e)
<1>1. ~x.ok /\ x.ok \in BOOLEAN
  BY FailedIs
<1> HIDE DEF x
<1>2. Turns(b, x)
  BY <1>1 DEF Turns
<1> QED
  BY <1>2 DEF x

\* A message whose blocks turn into blocks of the same kind turns into a message like it.
LEMMA MessageTurns ==
    ASSUME NEW m, m.role \in Speakers, NEW Y, m.content \in Seq(Y), NEW r, DOMAIN r = DOMAIN m.content,
           \A i \in DOMAIN m.content : Turns(m.content[i], r[i]),
           NEW x, x = IF All(r).ok THEN Ok(<<Message(m.role, All(r).value)>>) ELSE All(r)
    PROVE  TurnsInto(m, x)
<1> DEFINE content == m.content
           n == Len(content)
<1>1. n \in Nat /\ DOMAIN content = 1 .. n /\ DOMAIN r = 1 .. n
  OBVIOUS
<1>2. \A i \in 1 .. n : Turns(content[i], r[i])
  BY <1>1
<1>3. \A i \in 1 .. n : YieldsOne(r[i], Blocks) /\ r[i].ok \in BOOLEAN
  BY <1>2 DEF Turns, YieldsOne
<1> HIDE DEF n
<1>4. All(r).ok \in BOOLEAN
  BY <1>1, <1>3, AllBoolean
<1>5. CASE All(r).ok
  <2> DEFINE s == All(r).value
             y == Message(m.role, s)
  <2>1. s \in Seq(Blocks) /\ Len(s) = n /\ Singles(r, s)
    BY <1>1, <1>3, <1>5, AllSingles
  <2>2. x = Ok(<<y>>)
    BY <1>5
  <2> HIDE DEF s
  <2>3. y \in Talk /\ y.role = m.role /\ y.content = s
    BY <2>1 DEF Message, Talk, Messages
  <2> HIDE DEF y
  <2>4. x.ok /\ x.value = <<y>> /\ x.ok \in BOOLEAN
    <3> DEFINE one == <<y>>
    <3> HIDE DEF one
    <3>1. x = Ok(one)
      BY <2>2 DEF one
    <3>2. x.ok /\ x.value = one /\ x.ok \in BOOLEAN
      BY <3>1, OkIs
    <3> QED
      BY <3>2 DEF one
  <2>5. DOMAIN s = DOMAIN content /\ (content # << >> => s # << >>)
    BY <1>1, <2>1 DEF n
  <2>6. ASSUME NEW j \in DOMAIN content
        PROVE  /\ content[j].type = "tool_result" <=> s[j].type = "tool_result"
               /\ content[j].type \in {"tool_call", "tool_call_input"} => s[j].type = "tool_call"
    <3>1. r[j].ok /\ r[j].value = <<s[j]>>
      BY <1>1, <2>1 DEF Singles
    <3>2. PICK z \in Blocks : /\ r[j].value = <<z>> /\ (content[j].type = "tool_result" <=> z.type = "tool_result")
                              /\ content[j].type \in {"tool_call", "tool_call_input"} => z.type = "tool_call"
      BY <1>1, <1>2, <3>1 DEF Turns
    <3>3. s[j] = z
      BY <3>1, <3>2
    <3> QED
      BY <3>2, <3>3
  <2>7. Like(m, y)
    BY <2>3, <2>5, <2>6 DEF Like
  <2> QED
    BY <2>3, <2>4, <2>7 DEF TurnsInto
<1>6. CASE ~All(r).ok
  BY <1>4, <1>6 DEF TurnsInto
<1> QED
  BY <1>4, <1>5, <1>6

\* A conversation whose messages turn into messages like them: the results still follow the
\* calls.
LEMMA MessagesTurn ==
    ASSUME NEW Z, NEW ms \in Seq(Z), NEW r, TurnEach(ms, r), All(r).ok
    PROVE  All(r).value \in Seq(Talk) /\ Alike(ms, All(r).value)
<1> DEFINE n == Len(ms)
           s == All(r).value
<1>1. n \in Nat /\ DOMAIN ms = 1 .. n /\ DOMAIN r = 1 .. n
  BY DEF TurnEach
<1>2. \A i \in 1 .. n : TurnsInto(ms[i], r[i])
  BY <1>1 DEF TurnEach
<1>3. \A i \in 1 .. n : YieldsOne(r[i], Talk)
  BY <1>2 DEF TurnsInto, YieldsOne
<1> HIDE DEF n
<1>4. s \in Seq(Talk) /\ Len(s) = n /\ Singles(r, s)
  BY <1>1, <1>3, AllSingles
<1> HIDE DEF s
<1>5. ASSUME NEW i \in 1 .. n PROVE Like(ms[i], s[i])
  <2>1. r[i].ok /\ r[i].value = <<s[i]>>
    BY <1>1, <1>4 DEF Singles
  <2>2. PICK y \in Talk : r[i].value = <<y>> /\ Like(ms[i], y)
    BY <1>2, <2>1 DEF TurnsInto
  <2>3. s[i] = y
    BY <2>1, <2>2
  <2> QED
    BY <2>2, <2>3
<1>6. Alike(ms, s)
  BY <1>1, <1>4, <1>5 DEF Alike
<1> QED
  BY <1>4, <1>6 DEF s

\* Resolving a client's message (input.rs, resolve) gives a message like it.
LEMMA ResolveTurns ==
    ASSUME NEW m \in Inputs
    PROVE  TurnsInto(m, Resolve(m))
<1> DEFINE content == m.content
           r == [i \in DOMAIN content |-> ResolveBlock(content[i])]
           x == Resolve(m)
<1>1. content \in Seq(Blocks \cup InputCalls) /\ m.role \in Speakers
  BY DEF Inputs, Speakers
<1>2. ASSUME NEW b \in Blocks \cup InputCalls PROVE Turns(b, ResolveBlock(b))
  <2>1. CASE b.type = "tool_call_input"
    <3>1. b \in InputCalls
      BY <2>1 DEF Blocks, BlocksOf, BlockTypes
    <3> DEFINE name == b.name \o b.raw_name
               arguments == b.arguments \o b.raw_arguments
               y == Block("tool_call", b.id, name[1], arguments[1], <<>>)
    <3>2. name \in Seq(Seq(STRING)) /\ arguments \in Seq(Seq(Words)) /\ b.id \in Nat
      BY <3>1 DEF InputCalls
    <3>3. ResolveBlock(b) = IF name = <<>> \/ arguments = <<>> \/ b.arguments = <<NoObject>> THEN Failed("InvalidRequest") ELSE Ok(<<y>>)
      BY <2>1 DEF ResolveBlock, ToolCallInput
    <3> HIDE DEF name, arguments
    <3>4. CASE name = <<>> \/ arguments = <<>> \/ b.arguments = <<NoObject>>
      <4>1. ResolveBlock(b) = Failed("InvalidRequest")
        BY <3>3, <3>4
      <4> QED
        BY <4>1, TurnsFailed
    <3>5. CASE ~(name = <<>> \/ arguments = <<>> \/ b.arguments = <<NoObject>>)
      <4>1. name[1] \in Seq(STRING) /\ arguments[1] \in Seq(Words)
        BY <3>2, <3>5
      <4>2. y \in Blocks /\ y.type = "tool_call"
        BY <3>2, <4>1 DEF Block, Blocks, BlocksOf, BlockTypes
      <4> HIDE DEF y
      <4>3. ResolveBlock(b) = Ok(<<y>>)
        BY <3>3, <3>5
      <4> QED
        BY <2>1, <4>2, <4>3, TurnsOk
    <3> QED
      BY <3>4, <3>5
  <2>2. CASE b.type # "tool_call_input"
    <3>1. b \in Blocks
      BY <2>2 DEF InputCalls
    <3>2. ResolveBlock(b) = Ok(<<b>>)
      BY <2>2 DEF ResolveBlock
    <3> QED
      BY <2>2, <3>1, <3>2, TurnsOk
  <2> QED
    BY <2>1, <2>2
<1>3. DOMAIN r = DOMAIN content
  OBVIOUS
<1>4. ASSUME NEW i \in DOMAIN content PROVE Turns(content[i], r[i])
  <2>1. content[i] \in Blocks \cup InputCalls /\ r[i] = ResolveBlock(content[i])
    BY <1>1
  <2> HIDE DEF content, r
  <2> QED
    BY <1>2, <2>1
<1>5. x = IF All(r).ok THEN Ok(<<Message(m.role, All(r).value)>>) ELSE All(r)
  BY DEF Resolve, Each
<1> HIDE DEF r, x
<1>6. TurnsInto(m, x)
  BY <1>1, <1>3, <1>4, <1>5, MessageTurns
<1> QED
  BY <1>6 DEF x

\* Rendering a template gives a body.
LEMMA RenderType ==
    ASSUME NEW function, NEW role, NEW body \in Seq(Words)
    PROVE  Render(function, role, body) \in Seq(Words)
<1>1. <<"template">> \in Seq(Words)
  <2>1. "template" \in Words
    BY DEF Words, Written
  <2> QED
    BY <2>1
<1> DEFINE t == <<"template">>
<1> HIDE DEF t
<1>2. t \o body \in Seq(Words)
  BY <1>1 DEF t
<1> QED
  BY <1>2 DEF Render, t

\* A text is a block.
LEMMA TextType ==
    ASSUME NEW body \in Seq(Words)
    PROVE  Text(body) \in Blocks /\ Text(body).type = "text" /\ Text(body).body = body
BY DEF Text, Block, Blocks, BlocksOf, BlockTypes

\* Preparing a message for the model (chat_completion.rs, prepare_request_message) gives a
\* message like it.
LEMMA PrepareMessageTurns ==
    ASSUME NEW m \in Talk, NEW function
    PROVE  TurnsInto(m, PrepareRequestMessage(function, m))
<1> DEFINE content == m.content
           r == [i \in DOMAIN content |-> PrepareRequestBlock(function, m.role, content[i])]
           x == PrepareRequestMessage(function, m)
<1>1. content \in Seq(Blocks) /\ m.role \in Speakers
  BY DEF Talk, Messages
<1>2. ASSUME NEW b \in Blocks PROVE Turns(b, PrepareRequestBlock(function, m.role, b))
  <2> DEFINE p == PrepareRequestBlock(function, m.role, b)
             y == Text(Render(function, m.role, b.body))
             z == Text(b.body)
  <2>1. b.body \in Seq(Words)
    BY DEF Blocks, BlocksOf
  <2>2. y \in Blocks /\ y.type = "text" /\ z \in Blocks /\ z.type = "text"
    BY <2>1, RenderType, TextType
  <2>3. \/ p = Refused
        \/ b.type \in {"text", "arguments", "raw_text"} /\ (p = Ok(<<y>>) \/ p = Ok(<<z>>))
        \/ p = Ok(<<b>>) /\ b.type \notin {"text", "arguments", "raw_text"}
    <3> HIDE DEF y, z
    <3>1. CASE b.type = "text"
      BY <3>1 DEF PrepareRequestBlock, y
    <3>2. CASE b.type = "arguments"
      BY <3>2 DEF PrepareRequestBlock, y
    <3>3. CASE b.type = "raw_text"
      BY <3>3 DEF PrepareRequestBlock, z
    <3>4. CASE b.type \notin {"text", "arguments", "raw_text"}
      BY <3>4 DEF PrepareRequestBlock
    <3> QED
      BY <3>1, <3>2, <3>3, <3>4
  <2> HIDE DEF y, z, p
  <2>4. CASE p = Refused
    BY <2>4, TurnsFailed DEF Refused, p
  <2>5. CASE b.type \in {"text", "arguments", "raw_text"} /\ (p = Ok(<<y>>) \/ p = Ok(<<z>>))
    BY <2>2, <2>5, TurnsOk DEF p
  <2>6. CASE p = Ok(<<b>>) /\ b.type \notin {"text", "arguments", "raw_text"}
    <3>1. b.type # "tool_call_input"
      BY DEF Blocks, BlocksOf, BlockTypes
    <3> QED
      BY <2>6, <3>1, TurnsOk DEF p
  <2> QED
    BY <2>3, <2>4, <2>5, <2>6 DEF p
<1>3. DOMAIN r = DOMAIN content
  OBVIOUS
<1>4. ASSUME NEW i \in DOMAIN content PROVE Turns(content[i], r[i])
  <2>1. content[i] \in Blocks /\ r[i] = PrepareRequestBlock(function, m.role, content[i])
    BY <1>1
  <2> HIDE DEF content, r
  <2> QED
    BY <1>2, <2>1
<1>5. x = IF All(r).ok THEN Ok(<<Message(m.role, All(r).value)>>) ELSE All(r)
  BY DEF PrepareRequestMessage
<1> HIDE DEF r, x
<1>6. TurnsInto(m, x)
  BY <1>1, <1>3, <1>4, <1>5, MessageTurns
<1> QED
  BY <1>6 DEF x

\* The system message, if it can be prepared, is a body.
LEMMA SystemYields ==
    ASSUME NEW function, NEW system \in Seq(Blocks)
    PROVE  Yields(PrepareSystemMessage(function, system), Words)
<1> DEFINE body == IF system = <<>> THEN <<>> ELSE system[1].body
           rendered == Render(function, "system", body)
           x == PrepareSystemMessage(function, system)
<1>1. body \in Seq(Words)
  <2>1. CASE system = << >>
    BY <2>1
  <2>2. CASE system # << >>
    <3>1. system[1] \in Blocks
      BY <2>2
    <3> QED
      BY <2>2, <3>1 DEF Blocks, BlocksOf
  <2> QED
    BY <2>1, <2>2
<1>2. rendered \in Seq(Words) /\ << >> \in Seq(Words)
  BY <1>1, RenderType
<1>3. x \in {Ok(rendered), Ok(<<>>), Ok(body), Refused}
  <2> HIDE DEF rendered
  <2>1. CASE HasTemplate(function, "system")
    BY <2>1 DEF PrepareSystemMessage, rendered
  <2>2. CASE ~HasTemplate(function, "system") /\ system = << >>
    BY <2>2 DEF PrepareSystemMessage
  <2>3. CASE ~HasTemplate(function, "system") /\ system # << >>
    BY <2>3 DEF PrepareSystemMessage
  <2> QED
    BY <2>1, <2>2, <2>3
<1> HIDE DEF body, rendered, x
<1>4. CASE x = Refused
  BY <1>4, FailedIs DEF Refused, Yields, x
<1>5. CASE x # Refused
  <2>1. PICK v \in Seq(Words) : x = Ok(v)
    BY <1>1, <1>2, <1>3, <1>5
  <2>2. x.ok /\ x.ok \in BOOLEAN /\ x.value = v
    BY <2>1, OkIs
  <2>3. Yields(x, Words)
    BY <2>2 DEF Yields
  <2> QED
    BY <2>3 DEF x
<1> QED
  BY <1>4, <1>5

\* A tool configuration has one of the choices.
LEMMA ToolConfigType ==
    ASSUME NEW function, NEW dynamic, dynamic.choice \in {"absent", "none", "auto", "required", "specific"},
           NEW x, x = PrepareToolConfig(function, dynamic), x.ok
    PROVE  x.value.choice \in ToolChoices
<1>1. NoToolConfig.choice \in ToolChoices
  BY DEF NoToolConfig, ToolChoices
<1>2. CASE function = "json"
  <2>1. x = Ok(NoToolConfig) \/ x = Failed("InvalidRequest")
    BY <1>2 DEF PrepareToolConfig
  <2> QED
    BY <1>1, <2>1, OkIs, FailedIs
<1>3. CASE function # "json"
  <2> DEFINE allowed == IF dynamic.allowed = <<>> THEN ToolsOf(function) ELSE dynamic.allowed[1]
             available == allowed \o dynamic.additional
             choice == IF dynamic.choice = "absent" THEN "auto" ELSE dynamic.choice
             given == [tools |-> ToSet(available), choice |-> choice, specific |-> dynamic.tool]
             config == IF available = <<>> THEN NoToolConfig ELSE given
  <2>1. x = ToolCallConfig(function, dynamic)
    BY <1>3 DEF PrepareToolConfig
  <2>2. x \in {Failed("ToolNotFound"), Failed("DuplicateTool"), Ok(config)}
    BY <2>1 DEF ToolCallConfig
  <2>3. choice \in ToolChoices
    BY DEF ToolChoices
  <2> HIDE DEF choice, available
  <2>4. given.choice \in ToolChoices
    BY <2>3
  <2>5. config.choice \in ToolChoices
    BY <1>1, <2>4
  <2> HIDE DEF config
  <2> QED
    BY <2>2, <2>5, OkIs, FailedIs
<1> QED
  BY <1>2, <1>3

\* A request the function prepares is one that a provider can be called with.
LEMMA PrepareRequestCalls ==
    ASSUME NEW a, Preparable(a), PrepareRequest(a).ok, NEW ask
    PROVE  LET c == Called(PrepareRequest(a).value, ask)
           IN  Callable(c) /\ DOMAIN c = CallFields /\ c.function \in {"chat", "json"}
<1> DEFINE tools == PrepareToolConfig(a.function, a.dynamic)
           input == Each(a.messages, Resolve)
           resolved == input.value
           prepared == [i \in DOMAIN resolved |-> PrepareRequestMessage(a.function, resolved[i])]
           messages == All(prepared)
           system == PrepareSystemMessage(a.function, a.system)
           valid == ValidateInferenceParams(a)
           checked == First(<<valid, tools, input>>)
           rendered == First(<<messages, system>>)
           request == PrepareModelInferenceRequest(a, messages.value, system.value, tools.value)
<1>1. PrepareRequest(a) = IF ~checked.ok THEN checked ELSE IF ~rendered.ok THEN rendered ELSE Ok(request)
  BY DEF PrepareRequest
<1> HIDE DEF checked, rendered, request
<1>2. checked.ok /\ rendered.ok
  BY <1>1
<1>3. tools.ok /\ input.ok
  <2> HIDE DEF valid, tools, input
  <2> QED
    BY <1>2, FirstOfThree DEF checked
<1>4. messages.ok /\ system.ok
  <2> HIDE DEF messages, system
  <2> QED
    BY <1>2, FirstOfTwo DEF rendered
<1>5. PrepareRequest(a).value = request
  BY <1>1, <1>2, OkIs
<1>6. resolved \in Seq(Talk) /\ Alike(a.messages, resolved) /\ ResultsFollow(resolved)
  <2> DEFINE ms == a.messages
             r == [i \in DOMAIN ms |-> Resolve(ms[i])]
  <2>1. ms \in Seq(Inputs) /\ ResultsFollow(ms)
    BY DEF Preparable
  <2>2. ASSUME NEW i \in DOMAIN ms PROVE TurnsInto(ms[i], r[i])
    <3>1. ms[i] \in Inputs /\ r[i] = Resolve(ms[i])
      BY <2>1
    <3> HIDE DEF r, ms
    <3> QED
      BY <3>1, ResolveTurns
  <2>3. TurnEach(ms, r)
    BY <2>2 DEF TurnEach
  <2>4. input = All(r)
    BY DEF Each
  <2> HIDE DEF r, input
  <2>5. resolved \in Seq(Talk) /\ Alike(ms, resolved)
    BY <1>3, <2>1, <2>3, <2>4, MessagesTurn
  <2>6. ResultsFollow(resolved)
    BY <2>1, <2>5, ResultsStillFollow
  <2> QED
    BY <2>5, <2>6
<1> HIDE DEF resolved
<1>7. messages.value \in Seq(Talk) /\ ResultsFollow(messages.value)
  <2>1. ASSUME NEW i \in DOMAIN resolved PROVE TurnsInto(resolved[i], prepared[i])
    <3> DEFINE m == resolved[i]
    <3>1. m \in Talk /\ prepared[i] = PrepareRequestMessage(a.function, m)
      BY <1>6
    <3> HIDE DEF m, prepared
    <3> QED
      BY <3>1, PrepareMessageTurns DEF m
  <2>2. TurnEach(resolved, prepared)
    BY <2>1 DEF TurnEach
  <2> HIDE DEF prepared
  <2>3. messages.value \in Seq(Talk) /\ Alike(resolved, messages.value)
    BY <1>4, <1>6, <2>2, MessagesTurn
  <2> QED
    BY <1>6, <2>3, ResultsStillFollow
<1>8. system.value \in Seq(Words)
  <2>1. a.system \in Seq(Blocks)
    BY DEF Preparable
  <2> QED
    BY <1>4, <2>1, SystemYields DEF Yields
<1>9. tools.value.choice \in ToolChoices
  <2> HIDE DEF tools
  <2> QED
    BY <1>3, ToolConfigType DEF tools, Preparable
<1> DEFINE ms == messages.value
           sys == system.value
           tool == tools.value
<1>10. request = PrepareModelInferenceRequest(a, ms, sys, tool)
  BY DEF request
<1> HIDE DEF ms, sys, tool
<1>11. request.messages = ms /\ request.system = sys /\ request.function \in {"chat", "json"} /\ request.choice \in ToolChoices
  <2>1. tool.choice \in ToolChoices
    BY <1>9 DEF tool
  <2>2. ImplicitTool.choice \in ToolChoices
    BY DEF ImplicitTool, ToolChoices
  <2> QED
    BY <1>10, <2>1, <2>2 DEF PrepareModelInferenceRequest
<1> DEFINE c == Called(request, ask)
<1>12. c.messages = ms /\ c.system = sys /\ c.function \in {"chat", "json"} /\ c.choice \in ToolChoices /\ DOMAIN c = CallFields
  BY <1>11 DEF Called, CallFields
<1> HIDE DEF c
<1>13. Callable(c)
  BY <1>7, <1>8, <1>12 DEF Callable, ToolChoices, Talk, ms, sys
<1> QED
  BY <1>5, <1>12, <1>13 DEF c

\* Results follow calls with one more message that may follow the last.
LEMMA FollowsMore ==
    ASSUME NEW X, NEW a \in Seq(X), ResultsFollow(a), NEW y \in X, MayFollow(a, y),
           NEW d, GoesOnWith(d, a, y)
    PROVE  ResultsFollow(d) /\ d \in Seq(X) /\ Len(d) = Len(a) + 1 /\ d[Len(d)] = y /\ d # << >>
<1> DEFINE n == Len(a)
<1>1. n \in Nat /\ DOMAIN a = 1 .. n
  OBVIOUS
<1>2. d \in Seq(X) /\ Len(d) = n + 1 /\ d[n + 1] = y /\ d # << >> /\ DOMAIN d = 1 .. n + 1
  BY DEF GoesOnWith
<1>3. \A i \in 1 .. n : d[i] = a[i]
  BY DEF GoesOnWith
<1>4. ASSUME NEW i \in DOMAIN d, d[i].role = "user", Has(d[i].content, {"tool_result"})
      PROVE  /\ i > 1
             /\ \/ Has(d[i - 1].content, {"tool_call", "tool_call_input"})
                \/ /\ d[i - 1].role = "user" /\ d[i - 1].content # <<>>
                   /\ \A j \in DOMAIN d[i - 1].content : d[i - 1].content[j].type = "tool_result"
  <2>1. CASE i \in 1 .. n
    <3>1. d[i] = a[i]
      BY <1>3, <2>1
    <3>2. /\ i > 1
          /\ \/ Has(a[i - 1].content, {"tool_call", "tool_call_input"})
             \/ /\ a[i - 1].role = "user" /\ a[i - 1].content # <<>>
                /\ \A j \in DOMAIN a[i - 1].content : a[i - 1].content[j].type = "tool_result"
      BY <1>1, <1>4, <2>1, <3>1 DEF ResultsFollow
    <3>3. d[i - 1] = a[i - 1]
      BY <1>1, <1>3, <2>1, <3>2
    <3> QED
      BY <3>2, <3>3
  <2>2. CASE i = n + 1
    <3>1. d[i] = y
      BY <1>2, <2>2
    <3>2. /\ a # << >>
          /\ \/ Has(a[n].content, {"tool_call", "tool_call_input"})
             \/ /\ a[n].role = "user" /\ a[n].content # <<>>
                /\ \A j \in DOMAIN a[n].content : a[n].content[j].type = "tool_result"
      BY <1>4, <3>1 DEF MayFollow
    <3>3. n > 0
      BY <3>2
    <3>4. i > 1 /\ d[i - 1] = a[n]
      BY <1>1, <1>3, <2>2, <3>3
    <3> QED
      BY <3>2, <3>4
  <2> QED
    BY <1>1, <1>2, <2>1, <2>2
<1>5. ResultsFollow(d)
  BY <1>4 DEF ResultsFollow
<1> QED
  BY <1>2, <1>5

\* The name of a result is that of a call.
LEMMA ResultNameType ==
    ASSUME NEW ms \in Seq(OpenAIInputs), NEW i \in DOMAIN ms, ResultName(ms, i) # << >>
    PROVE  ResultName(ms, i)[1] \in Seq(STRING)
<1> DEFINE lists == [j \in 1..(i - 1) |-> ms[j].calls]
           before == Flatten(lists)
           S == {b \in ToSet(before) : b.id = ms[i].id}
           same == Filter(before, S)
<1>1. ResultName(ms, i) = IF same = <<>> THEN <<>> ELSE <<Last(same).name>>
  BY DEF ResultName
<1>2. lists \in Seq(Seq(Calls))
  <2>1. i - 1 \in Nat /\ i \in 1 .. Len(ms)
    OBVIOUS
  <2>2. ASSUME NEW j \in 1 .. (i - 1) PROVE ms[j].calls \in Seq(Calls)
    <3>1. ms[j] \in OpenAIInputs
      BY <2>1
    <3> QED
      BY <3>1 DEF OpenAIInputs, Calls
  <2>3. lists \in [1 .. (i - 1) -> Seq(Calls)]
    BY <2>2
  <2> HIDE DEF lists
  <2> QED
    BY <2>1, <2>3
<1> HIDE DEF lists
<1>3. before \in Seq(Calls)
  BY <1>2, FlattenType
<1> HIDE DEF before, S
<1>4. same \in Seq(Calls)
  BY <1>3, FilterParts
<1> HIDE DEF same
<1>5. same # << >>
  BY <1>1
<1>6. Last(same) \in Calls
  BY <1>4, <1>5 DEF Last
<1> DEFINE b == Last(same)
<1> HIDE DEF b
<1>7. b.name \in Seq(STRING)
  BY <1>6 DEF b, Calls, BlocksOf
<1>8. ResultName(ms, i) = <<b.name>>
  BY <1>1, <1>5 DEF b
<1> QED
  BY <1>7, <1>8

\* Converting a content of OpenAI's API keeps its blocks or fails.
LEMMA ConvertYields ==
    ASSUME NEW X, NEW content \in Seq(X)
    PROVE  Yields(ConvertOpenAIMessageContent(content), X)
<1> DEFINE n == Len(content)
           r == [i \in DOMAIN content |-> ConvertOpenAIBlock(content[i])]
<1>1. n \in Nat /\ DOMAIN r = 1 .. n
  OBVIOUS
<1>2. ASSUME NEW i \in 1 .. n PROVE Yields(r[i], X)
  <2> DEFINE b == content[i]
             one == <<b>>
             x == ConvertOpenAIBlock(b)
  <2>1. b \in X /\ one \in Seq(X) /\ r[i] = x
    OBVIOUS
  <2>2. x \in {Ok(one), Failed("InvalidOpenAICompatibleRequest")}
    BY DEF ConvertOpenAIBlock
  <2> HIDE DEF b, one, x, r
  <2>3. Yields(x, X)
    BY <2>1, <2>2, OkIs, FailedIs DEF Yields
  <2> QED
    BY <2>1, <2>3
<1>3. ConvertOpenAIMessageContent(content) = All(r)
  BY DEF ConvertOpenAIMessageContent, Each
<1> HIDE DEF r, n
<1> QED
  BY <1>1, <1>2, <1>3, AllType

\* A result in quotes is a body.
LEMMA QuotedType ==
    ASSUME NEW body \in Seq(Words)
    PROVE  Quoted(body) \in Seq(Words)
<1>1. "quote" \in Words
  BY DEF Words, Written
<1> DEFINE q == <<"quote">>
<1>2. q \in Seq(Words)
  BY <1>1
<1> HIDE DEF q
<1> QED
  BY <1>2 DEF Quoted, q

\* A tool message of OpenAI's API is read as the result of a call that may follow.
LEMMA ToolMessageReads ==
    ASSUME NEW ms \in Seq(OpenAIInputs), OpenAIResultsFollow(ms), NEW i \in DOMAIN ms, ms[i].role = "tool"
    PROVE  Reads(ms, i, OpenAIInputMessage(ms, i))
<1> DEFINE m == ms[i]
           name == ResultName(ms, i)
           b == Block("tool_result", m.id, name[1], Quoted(m.content[1].body), <<>>)
           y == Message("user", <<b>>)
           one == <<y>>
           x == OpenAIInputMessage(ms, i)
<1>1. x = IF name = <<>> THEN Failed("InvalidOpenAICompatibleRequest") ELSE Ok(one)
  BY DEF OpenAIInputMessage
<1>2. m \in OpenAIInputs /\ m.content # << >>
  BY DEF OpenAIResultsFollow
<1> HIDE DEF name, m, x
<1>3. CASE name = << >>
  <2>1. ~x.ok /\ x.ok \in BOOLEAN
    BY <1>1, <1>3, FailedIs
  <2> QED
    BY <2>1 DEF Reads, x
<1>4. CASE name # << >>
  <2>1. name[1] \in Seq(STRING)
    BY <1>4, ResultNameType DEF name
  <2>2. m.content \in Seq(Contents) /\ m.id \in Nat
    BY <1>2 DEF OpenAIInputs, Contents
  <2>3. m.content[1] \in Contents
    BY <1>2, <2>2
  <2>4. m.content[1].body \in Seq(Words)
    BY <2>3 DEF Contents, BlocksOf
  <2> DEFINE body == Quoted(m.content[1].body)
  <2>5. body \in Seq(Words)
    BY <2>4, QuotedType
  <2> HIDE DEF body
  <2>6. b \in Blocks /\ b.type = "tool_result"
    BY <2>1, <2>2, <2>5 DEF b, body, Block, Blocks, BlocksOf, BlockTypes
  <2> HIDE DEF b
  <2>7. <<b>> \in Seq(Blocks \cup InputCalls) /\ <<b>> # << >> /\ \A j \in DOMAIN <<b>> : <<b>>[j] = b
    BY <2>6
  <2>8. y \in Inputs /\ y.role = "user" /\ y.content = <<b>>
    BY <2>7 DEF Message, Inputs
  <2> HIDE DEF y
  <2>9. Matches(ms[i], y)
    BY <2>6, <2>7, <2>8 DEF Matches
  <2> HIDE DEF one
  <2>10. x.ok /\ x.ok \in BOOLEAN /\ x.value = one
    BY <1>1, <1>4, OkIs
  <2>11. ms[i].role # "system"
    OBVIOUS
  <2> QED
    BY <1>4, <2>8, <2>9, <2>10, <2>11 DEF Reads, x, one, name
<1> QED
  BY <1>3, <1>4

\* A user's or an assistant's message is read as one message, with its calls.
LEMMA OtherMessageReads ==
    ASSUME NEW ms \in Seq(OpenAIInputs), NEW i \in DOMAIN ms, ms[i].role \in {"user", "assistant"}
    PROVE  Reads(ms, i, OpenAIInputMessage(ms, i))
<1> DEFINE m == ms[i]
           converted == ConvertOpenAIMessageContent(m.content)
           calls == [j \in DOMAIN m.calls |-> OpenAIToolCallInput(m.calls[j])]
           content == converted.value \o calls
           y == Message(m.role, content)
           one == <<y>>
           x == OpenAIInputMessage(ms, i)
<1>1. x = IF ~converted.ok THEN converted ELSE Ok(one)
  BY DEF OpenAIInputMessage
<1>2. m \in OpenAIInputs /\ m.content \in Seq(Contents) /\ m.calls \in Seq(Calls)
  <2>1. m \in OpenAIInputs
    OBVIOUS
  <2> QED
    BY <2>1 DEF OpenAIInputs, Contents, Calls
<1> HIDE DEF converted, x
<1>3. Yields(converted, Contents)
  BY <1>2, ConvertYields DEF converted
<1>4. CASE ~converted.ok
  BY <1>1, <1>3, <1>4 DEF Reads, Yields, x
<1>5. CASE converted.ok
  <2> DEFINE said == converted.value
             X == Blocks \cup InputCalls
  <2>1. said \in Seq(Contents)
    BY <1>3, <1>5 DEF Yields
  <2>2. \A b \in Contents : b \in X /\ b.type # "tool_result"
    BY DEF Contents, BlocksOf, Blocks, InputCalls
  <2>3. \A b \in Calls : OpenAIToolCallInput(b) \in InputCalls /\ OpenAIToolCallInput(b).type = "tool_call_input"
    <3> SUFFICES ASSUME NEW b \in Calls
                 PROVE  OpenAIToolCallInput(b) \in InputCalls /\ OpenAIToolCallInput(b).type = "tool_call_input"
      OBVIOUS
    <3> DEFINE name == b.name
               body == b.body
    <3>1. b.id \in Nat /\ name \in Seq(STRING) /\ body \in Seq(Words)
      BY DEF Calls, BlocksOf
    <3> HIDE DEF name, body
    <3>2. <<name>> \in Seq(Seq(STRING)) /\ <<body>> \in Seq(Seq(Words))
      BY <3>1
    <3>3. << >> \in Seq(Seq(STRING)) /\ << >> \in Seq(Seq(Words))
      OBVIOUS
    <3> QED
      BY <3>1, <3>2, <3>3 DEF OpenAIToolCallInput, InputCalls, name, body
  <2>4. ASSUME NEW j \in DOMAIN m.calls
        PROVE  calls[j] \in X /\ calls[j].type = "tool_call_input" /\ calls[j].type # "tool_result"
    <3>1. m.calls[j] \in Calls
      BY <1>2
    <3>2. calls[j] = OpenAIToolCallInput(m.calls[j])
      OBVIOUS
    <3> QED
      BY <2>3, <3>1, <3>2
  <2>5. Len(m.calls) \in Nat /\ DOMAIN m.calls = 1 .. Len(m.calls) /\ DOMAIN calls = 1 .. Len(m.calls)
    BY <1>2
  <2> HIDE DEF calls, said, X
  <2>6. said \in Seq(X) /\ \A j \in DOMAIN said : said[j].type # "tool_result"
    BY <2>1, <2>2
  <2>7. calls \in Seq(X) /\ Len(calls) = Len(m.calls)
    <3>1. calls \in [1 .. Len(m.calls) -> X]
      <4>1. \A j \in 1 .. Len(m.calls) : calls[j] \in X
        BY <2>4, <2>5
      <4>2. calls = [j \in 1 .. Len(m.calls) |-> calls[j]]
        BY <2>5 DEF calls
      <4> QED
        BY <4>1, <4>2
    <3> QED
      BY <2>5, <3>1
  <2>8. content = said \o calls
    BY DEF said
  <2> HIDE DEF content
  <2>9. /\ content \in Seq(X) /\ Len(content) = Len(said) + Len(calls)
        /\ \A j \in 1 .. Len(said) : content[j] = said[j]
        /\ \A j \in 1 .. Len(calls) : content[Len(said) + j] = calls[j]
    BY <2>6, <2>7, <2>8
  <2>10. ASSUME NEW j \in DOMAIN content PROVE content[j].type # "tool_result"
    <3>1. CASE j <= Len(said)
      BY <2>6, <2>9, <3>1
    <3>2. CASE j > Len(said)
      <4> DEFINE k == j - Len(said)
      <4>1. j \in 1 .. Len(said) + Len(calls) /\ Len(said) \in Nat /\ Len(calls) \in Nat
        BY <2>6, <2>7, <2>9
      <4>2. k \in 1 .. Len(calls) /\ j = Len(said) + k
        BY <3>2, <4>1
      <4> HIDE DEF k
      <4>3. content[j] = calls[k] /\ k \in DOMAIN m.calls
        BY <2>5, <2>7, <2>9, <4>2
      <4> QED
        BY <2>4, <4>3
    <3>3. j \in Nat /\ Len(said) \in Nat
      BY <2>6, <2>9
    <3> QED
      BY <3>1, <3>2, <3>3
  <2>11. m.calls # << >> => Has(content, {"tool_call", "tool_call_input"})
    <3> SUFFICES ASSUME m.calls # << >> PROVE Has(content, {"tool_call", "tool_call_input"})
      OBVIOUS
    <3>1. Len(m.calls) > 0 /\ 1 \in DOMAIN m.calls
      BY <1>2
    <3> DEFINE k == Len(said) + 1
    <3>2. content[k] = calls[1] /\ k \in DOMAIN content
      BY <2>6, <2>7, <2>9, <3>1
    <3>3. content[k].type = "tool_call_input"
      BY <2>4, <3>1, <3>2
    <3> QED
      BY <3>2, <3>3 DEF Has
  <2>12. y \in Inputs /\ y.role = m.role /\ y.content = content
    BY <2>9 DEF Message, Inputs, X
  <2> HIDE DEF y
  <2>13. Matches(ms[i], y)
    BY <2>10, <2>11, <2>12 DEF Matches
  <2> HIDE DEF one
  <2>14. x.ok /\ x.ok \in BOOLEAN /\ x.value = one
    BY <1>1, <1>5, OkIs
  <2>15. ms[i].role # "system" /\ ms[i].role # "tool"
    OBVIOUS
  <2> QED
    BY <2>12, <2>13, <2>14, <2>15 DEF Reads, x, one
<1> QED
  BY <1>4, <1>5

\* Any message is read as at most one, which may follow those before it.
LEMMA MessageReads ==
    ASSUME NEW ms \in Seq(OpenAIInputs), OpenAIResultsFollow(ms), NEW i \in DOMAIN ms
    PROVE  Reads(ms, i, OpenAIInputMessage(ms, i))
<1>1. ms[i].role \in {"system", "user", "assistant", "tool"}
  <2>1. ms[i] \in OpenAIInputs
    OBVIOUS
  <2> QED
    BY <2>1 DEF OpenAIInputs
<1>2. CASE ms[i].role = "system"
  <2> DEFINE none == << >>
             x == OpenAIInputMessage(ms, i)
  <2>1. x = Ok(none)
    BY <1>2 DEF OpenAIInputMessage
  <2> HIDE DEF none, x
  <2>2. x.ok /\ x.ok \in BOOLEAN /\ x.value = none
    BY <2>1, OkIs
  <2> QED
    BY <1>2, <2>2 DEF Reads, x, none
<1> QED
  BY <1>1, <1>2, ToolMessageReads, OtherMessageReads

\* The messages read of an OpenAI-compatible request are inputs whose results follow their
\* calls.
LEMMA ReadsFollow ==
    ASSUME NEW ms \in Seq(OpenAIInputs), OpenAIResultsFollow(ms),
           NEW r, DOMAIN r = DOMAIN ms, \A i \in DOMAIN ms : Reads(ms, i, r[i]), All(r).ok
    PROVE  All(r).value \in Seq(Inputs) /\ ResultsFollow(All(r).value)
<1> DEFINE n == Len(ms)
           v == [i \in 1 .. n |-> r[i].value]
           D == Concatenations(v)
<1>1. n \in Nat /\ DOMAIN ms = 1 .. n /\ DOMAIN r = 1 .. n /\ Len(v) = n
  OBVIOUS
<1>2. \A i \in 1 .. n : Reads(ms, i, r[i]) /\ r[i].ok \in BOOLEAN
  BY <1>1 DEF Reads
<1>3. (\A i \in 1 .. n : r[i].ok) /\ All(r).value = Flatten(v)
  BY <1>1, <1>2, AllOk
<1>4. ASSUME NEW i \in 1 .. n
      PROVE  /\ ms[i].role = "system" => v[i] = << >>
             /\ ms[i].role = "tool" => ResultName(ms, i) # << >>
             /\ ms[i].role # "system" => \E y \in Inputs : v[i] = <<y>> /\ Matches(ms[i], y)
  <2>1. v[i] = r[i].value /\ r[i].ok /\ Reads(ms, i, r[i])
    BY <1>2, <1>3
  <2> HIDE DEF v
  <2> QED
    BY <2>1 DEF Reads
<1>5. D[0] = << >> /\ \A i \in 1 .. n : D[i] = D[i - 1] \o v[i]
  <2>1. Len(v) \in Nat
    BY <1>1
  <2> HIDE DEF v
  <2> QED
    BY <1>1, <2>1, ConcatenationsUnfold
<1> HIDE DEF v, D, n
<1> DEFINE Good(k) == /\ D[k] \in Seq(Inputs) /\ ResultsFollow(D[k])
                      /\ k # 0 /\ ms[k].role # "system" => D[k] # << >> /\ Matches(ms[k], D[k][Len(D[k])])
           S == {k \in 0 .. n : Good(k)}
<1>6. 0 \in S
  <2>1. << >> \in Seq(Inputs) /\ DOMAIN << >> = {} /\ 0 \in 0 .. n
    BY <1>1
  <2>2. ResultsFollow(<< >>)
    BY DEF ResultsFollow
  <2> QED
    BY <1>5, <2>1, <2>2
<1>7. ASSUME NEW i \in 1 .. n, i - 1 \in S PROVE i \in S
  <2> DEFINE j == i - 1
             a == D[j]
             d == D[i]
  <2>1. i \in 0 .. n /\ i # 0 /\ i = j + 1 /\ j \in 0 .. n /\ d = a \o v[i]
    BY <1>1, <1>5
  <2>2. /\ a \in Seq(Inputs) /\ ResultsFollow(a)
        /\ j # 0 /\ ms[j].role # "system" => a # << >> /\ Matches(ms[j], a[Len(a)])
    BY <1>7
  <2> HIDE DEF a, d, j, S
  <2>3. CASE ms[i].role = "system"
    <3>1. d = a
      BY <1>4, <2>1, <2>2, <2>3
    <3>2. Good(i)
      BY <2>2, <2>3, <3>1 DEF d
    <3> QED
      BY <2>1, <3>2 DEF S
  <2>4. CASE ms[i].role # "system"
    <3>1. PICK y \in Inputs : v[i] = <<y>> /\ Matches(ms[i], y)
      BY <1>4, <2>4
    <3>2. GoesOnWith(d, a, y)
      BY <2>1, <3>1 DEF GoesOnWith
    <3>3. MayFollow(a, y)
      <4>1. CASE ms[i].role # "tool"
        <5>1. ~Has(y.content, {"tool_result"})
          BY <3>1, <4>1 DEF Matches, Has
        <5> QED
          BY <5>1 DEF MayFollow
      <4>2. CASE ms[i].role = "tool"
        <5>1. ResultName(ms, i) # << >>
          BY <1>4, <4>2
        <5>2. i > 1 /\ (ms[i - 1].role = "tool" \/ (ms[i - 1].role # "system" /\ ms[i - 1].calls # <<>>))
          BY <1>1, <4>2, <5>1 DEF OpenAIResultsFollow
        <5>3. j # 0 /\ (ms[j].role = "tool" \/ (ms[j].role # "system" /\ ms[j].calls # <<>>))
          BY <2>1, <5>2 DEF j
        <5>4. a # << >> /\ Matches(ms[j], a[Len(a)])
          BY <2>2, <5>3
        <5> DEFINE z == a[Len(a)]
        <5>5. Matches(ms[j], z)
          BY <5>4
        <5> HIDE DEF z
        <5>6. \/ Has(z.content, {"tool_call", "tool_call_input"})
              \/ /\ z.role = "user" /\ z.content # <<>>
                 /\ \A k \in DOMAIN z.content : z.content[k].type = "tool_result"
          BY <5>3, <5>5 DEF Matches
        <5> QED
          BY <5>4, <5>6 DEF MayFollow, z
      <4> QED
        BY <4>1, <4>2
    <3>4. ResultsFollow(d) /\ d \in Seq(Inputs) /\ d[Len(d)] = y /\ d # << >>
      BY <2>2, <3>2, <3>3, FollowsMore
    <3>5. Good(i)
      BY <2>1, <3>1, <3>4 DEF d
    <3> QED
      BY <2>1, <3>5 DEF S
  <2> QED
    BY <2>3, <2>4
<1> HIDE DEF S
<1>8. n \in S
  <2>1. \A i \in 0 .. n : i \in S
    BY <1>1, <1>6, <1>7, Rounds
  <2> QED
    BY <1>1, <2>1
<1>9. Flatten(v) = D[n]
  BY <1>1 DEF Flatten, D
<1> QED
  BY <1>3, <1>8, <1>9 DEF S

\* The loop that joins the system messages computes some function.
LEMMA JoinRoundsExist ==
    ASSUME NEW s, NEW n \in Nat
    PROVE  \E f : AreJoinRounds(f, s, n)
<1> DEFINE T == {k \in Nat : ~\E f : AreJoinRounds(f, s, k)}
<1> SUFFICES ASSUME T # {}
             PROVE  FALSE
  OBVIOUS
<1>1. PICK k \in T : \A j \in T : k <= j
  BY Least
<1>2. k # 0
  <2>1. AreJoinRounds([i \in 0 .. 0 |-> << >>], s, 0)
    BY DEF AreJoinRounds
  <2> QED
    BY <2>1
<1>3. PICK f : AreJoinRounds(f, s, k - 1)
  BY <1>1, <1>2
<1> DEFINE J(i, p) == (IF i = 1 THEN << >> ELSE p \o <<"newline">>) \o s[i].body
           h == [i \in 0 .. k |-> IF i = k THEN J(k, f[k - 1]) ELSE f[i]]
<1>4. f = [i \in 0 .. k - 1 |-> IF i = 0 THEN << >> ELSE J(i, f[i - 1])]
  BY <1>3 DEF AreJoinRounds
<1> HIDE DEF J
<1>5. \A i \in 0 .. k : h[i] = IF i = 0 THEN << >> ELSE J(i, h[i - 1])
  BY <1>1, <1>2, <1>4
<1>6. h = [i \in 0 .. k |-> IF i = 0 THEN << >> ELSE J(i, h[i - 1])]
  BY <1>5
<1> HIDE DEF h
<1>7. AreJoinRounds(h, s, k)
  BY <1>6 DEF AreJoinRounds, J
<1> QED
  BY <1>1, <1>7

\* One round: the next text is joined.
LEMMA JoinRoundsUnfold ==
    ASSUME NEW s, Len(s) \in Nat
    PROVE  /\ JoinRounds(s)[0] = << >>
           /\ \A i \in 1 .. Len(s) : JoinRounds(s)[i] = ((IF i = 1 THEN << >> ELSE JoinRounds(s)[i - 1] \o <<"newline">>) \o s[i].body)
<1> DEFINE f == JoinRounds(s)
           n == Len(s)
           v(i) == IF i = 0 THEN << >> ELSE ((IF i = 1 THEN << >> ELSE f[i - 1] \o <<"newline">>) \o s[i].body)
<1>1. AreJoinRounds(f, s, n)
  <2>1. PICK g : AreJoinRounds(g, s, n)
    <3>1. n \in Nat
      OBVIOUS
    <3> HIDE DEF n
    <3> QED
      BY <3>1, JoinRoundsExist
  <2> QED
    BY <2>1 DEF JoinRounds, AreJoinRounds
<1> HIDE DEF f
<1>2. f = [i \in 0 .. n |-> v(i)]
  BY <1>1 DEF AreJoinRounds
<1> HIDE DEF v
<1>3. \A i \in 0 .. n : f[i] = v(i)
  BY <1>2
<1>4. \A i \in 1 .. n : i \in 0 .. n /\ i # 0
  OBVIOUS
<1>5. 0 \in 0 .. n
  OBVIOUS
<1> QED
  BY <1>3, <1>4, <1>5 DEF f, v

\* Joined texts are a body.
LEMMA JoinTextsType ==
    ASSUME NEW s \in Seq(Blocks)
    PROVE  JoinTexts(s) \in Seq(Words)
<1> DEFINE f == JoinRounds(s)
           n == Len(s)
           S == {k \in 0 .. n : f[k] \in Seq(Words)}
<1>1. n \in Nat
  OBVIOUS
<1>2. f[0] = << >> /\ \A i \in 1 .. n : f[i] = ((IF i = 1 THEN << >> ELSE f[i - 1] \o <<"newline">>) \o s[i].body)
  BY <1>1, JoinRoundsUnfold
<1> HIDE DEF f
<1>3. 0 \in S
  <2>1. << >> \in Seq(Words) /\ 0 \in 0 .. n
    BY <1>1
  <2>2. f[0] \in Seq(Words)
    BY <1>2, <2>1
  <2> QED
    BY <2>1, <2>2
<1>4. ASSUME NEW i \in 1 .. n, i - 1 \in S PROVE i \in S
  <2> DEFINE line == <<"newline">>
             before == f[i - 1]
             so == IF i = 1 THEN << >> ELSE before \o line
             body == s[i].body
  <2>1. before \in Seq(Words)
    BY <1>4
  <2>2. line \in Seq(Words)
    <3>1. "newline" \in Words
      BY DEF Words, Written
    <3> QED
      BY <3>1
  <2>3. s[i] \in Blocks
    OBVIOUS
  <2>4. body \in Seq(Words)
    BY <2>3 DEF Blocks, BlocksOf
  <2> HIDE DEF line, before, body
  <2>5. so \in Seq(Words)
    BY <2>1, <2>2
  <2>6. f[i] = so \o body
    BY <1>2 DEF line, before, body
  <2> HIDE DEF so
  <2>7. f[i] \in Seq(Words) /\ i \in 0 .. n
    BY <1>1, <2>4, <2>5, <2>6
  <2> QED
    BY <2>7
<1>5. \A i \in 0 .. n : i \in S
  <2> HIDE DEF S, n
  <2> QED
    BY <1>1, <1>3, <1>4, Rounds
<1> QED
  BY <1>1, <1>5 DEF JoinTexts, f

\* The system messages of OpenAI's API become at most one block.
LEMMA OpenAISystemType ==
    ASSUME NEW ms \in Seq(OpenAIInputs), OpenAISystemInput(ms).ok
    PROVE  OpenAISystemInput(ms).value \in Seq(Blocks)
<1> DEFINE S == {m \in ToSet(ms) : m.role = "system"}
           systems == Filter(ms, S)
           contents == [i \in DOMAIN systems |-> systems[i].content]
           r == [i \in DOMAIN contents |-> ConvertOpenAIMessageContent(contents[i])]
           n == Len(systems)
           blocks == All(r)
           x == OpenAISystemInput(ms)
           text == Text(JoinTexts(blocks.value))
           one == <<text>>
<1>1. x = IF ~blocks.ok THEN blocks
          ELSE IF Has(blocks.value, {"image", "file"}) THEN Failed("InvalidOpenAICompatibleRequest")
          ELSE IF Len(blocks.value) <= 1 THEN blocks
          ELSE IF Has(blocks.value, {"arguments"}) THEN Failed("InvalidOpenAICompatibleRequest")
          ELSE Ok(one)
  BY DEF OpenAISystemInput, Each
<1> HIDE DEF S, x
<1>2. systems \in Seq(OpenAIInputs)
  BY FilterParts
<1> HIDE DEF systems
<1>3. n \in Nat /\ DOMAIN systems = 1 .. n /\ DOMAIN contents = 1 .. n /\ DOMAIN r = 1 .. n
  BY <1>2
<1>4. ASSUME NEW i \in 1 .. n PROVE Yields(r[i], Blocks)
  <2> DEFINE content == contents[i]
  <2>1. systems[i] \in OpenAIInputs
    BY <1>2, <1>3
  <2>2. systems[i].content \in Seq(Contents)
    BY <2>1 DEF OpenAIInputs, Contents
  <2>3. content = systems[i].content /\ r[i] = ConvertOpenAIMessageContent(content)
    BY <1>3
  <2>4. \A b \in Contents : b \in Blocks
    BY DEF Contents, Blocks, BlocksOf
  <2> HIDE DEF content, contents, r
  <2>5. content \in Seq(Blocks)
    BY <2>2, <2>3, <2>4
  <2> QED
    BY <2>3, <2>5, ConvertYields
<1> HIDE DEF r, contents, n
<1>5. Yields(blocks, Blocks)
  BY <1>3, <1>4, AllType
<1> HIDE DEF blocks
<1>6. CASE x = blocks
  BY <1>5, <1>6 DEF Yields, x
<1>7. CASE x # blocks
  <2>1. blocks.ok
    BY <1>1, <1>7
  <2>2. blocks.value \in Seq(Blocks)
    BY <1>5, <2>1 DEF Yields
  <2> DEFINE body == JoinTexts(blocks.value)
  <2>3. body \in Seq(Words)
    BY <2>2, JoinTextsType
  <2> HIDE DEF body
  <2>4. text \in Blocks
    BY <2>3, TextType DEF body
  <2> HIDE DEF text
  <2>5. one \in Seq(Blocks)
    BY <2>4
  <2> HIDE DEF one
  <2>6. x = Ok(one) \/ x = Failed("InvalidOpenAICompatibleRequest")
    BY <1>1, <1>7
  <2> QED
    BY <2>5, <2>6, OkIs, FailedIs DEF x
<1> QED
  BY <1>6, <1>7

\* The parameters of an OpenAI-compatible request are a request the function can prepare.
LEMMA OpenAIParamsPrepare ==
    ASSUME NEW ask, Askable(ask), ask.endpoint = "openai", OpenAIParams(ask).ok
    PROVE  Preparable(OpenAIParams(ask).value)
<1> DEFINE r == [i \in DOMAIN ask.messages |-> OpenAIInputMessage(ask.messages, i)]
           messages == All(r)
           system == OpenAISystemInput(ask.messages)
           input == First(<<messages, system>>)
           ms == messages.value
           sys == system.value
           json == CASE ask.format = "json_schema" -> "strict" [] ask.format = "json_object" -> "on"
                     [] ask.format = "text" -> "off" [] OTHER -> "absent"
           schema == ask.format = "json_schema"
           a == [ask EXCEPT !.messages = ms, !.system = sys, !.dynamic.allowed = <<>>, !.json = json, !.schema = schema]
           x == OpenAIParams(ask)
<1>1. x = IF ask.function \in {"unprefixed", "empty"} \/ ask.header \in {"bad", "denied"} THEN Failed("InvalidOpenAICompatibleRequest")
          ELSE IF ~input.ok THEN input ELSE Ok(a)
  BY DEF OpenAIParams
<1> HIDE DEF x, input, a
<1>2. input.ok /\ x = Ok(a)
  <2>1. ~Failed("InvalidOpenAICompatibleRequest").ok
    BY FailedIs
  <2> QED
    BY <1>1, <2>1 DEF x
<1>3. x.value = a
  BY <1>2, OkIs
<1>4. messages.ok /\ system.ok
  <2> HIDE DEF messages, system
  <2> QED
    BY <1>2, FirstOfTwo DEF input
<1>5. ask.messages \in Seq(OpenAIInputs) /\ OpenAIResultsFollow(ask.messages)
  BY DEF Askable
<1>6. ms \in Seq(Inputs) /\ ResultsFollow(ms)
  <2> DEFINE given == ask.messages
  <2>1. ASSUME NEW i \in DOMAIN given PROVE Reads(given, i, r[i])
    <3>1. r[i] = OpenAIInputMessage(given, i)
      OBVIOUS
    <3> HIDE DEF r, given
    <3> QED
      BY <1>5, <3>1, MessageReads DEF given
  <2>2. DOMAIN r = DOMAIN given
    OBVIOUS
  <2> HIDE DEF r, given
  <2> QED
    BY <1>4, <1>5, <2>1, <2>2, ReadsFollow DEF given
<1>7. sys \in Seq(Blocks)
  BY <1>4, <1>5, OpenAISystemType
<1> HIDE DEF ms, sys, json, schema
<1>8. a.messages = ms /\ a.system = sys /\ a.dynamic.choice = ask.dynamic.choice
  <2>1. {"messages", "system", "dynamic", "json", "schema"} \subseteq DOMAIN ask /\ {"allowed", "choice"} \subseteq DOMAIN ask.dynamic
    BY DEF Askable
  <2> QED
    BY <2>1 DEF a
<1> QED
  BY <1>3, <1>6, <1>7, <1>8 DEF Preparable, Askable, x

\* A request a client may ask becomes, if it is not refused, one that a provider can be
\* called with.
LEMMA HandleCalls ==
    ASSUME NEW ask, Askable(ask), Handle(ask).ok
    PROVE  LET c == Handle(ask).value
           IN  Callable(c) /\ DOMAIN c = CallFields /\ c.function \in {"chat", "json"}
<1> DEFINE params == IF ask.endpoint = "openai" THEN OpenAIParams(ask) ELSE Ok(ask)
           request == PrepareRequest(params.value)
           c == Called(request.value, ask)
           x == Handle(ask)
<1>1. x = IF ~params.ok THEN params ELSE IF ~request.ok THEN request ELSE Ok(c)
  BY DEF Handle
<1> HIDE DEF x
<1>2. Preparable(params.value) \/ ~params.ok
  <2>1. CASE ask.endpoint = "openai"
    BY <2>1, OpenAIParamsPrepare
  <2>2. CASE ask.endpoint # "openai"
    <3>1. params.value = ask
      BY <2>2, OkIs
    <3>2. Preparable(ask)
      BY <2>2 DEF Preparable, Askable
    <3> QED
      BY <3>1, <3>2
  <2> QED
    BY <2>1, <2>2
<1> HIDE DEF params
<1>3. params.ok
  BY <1>1 DEF x
<1> HIDE DEF c
<1>4. request.ok
  BY <1>1, <1>3 DEF x
<1>5. x.value = c
  BY <1>1, <1>3, <1>4, OkIs
<1> DEFINE a == params.value
<1>6. Preparable(a) /\ request = PrepareRequest(a)
  BY <1>2, <1>3
<1> HIDE DEF a, request
<1>7. Callable(c) /\ DOMAIN c = CallFields /\ c.function \in {"chat", "json"}
  BY <1>4, <1>6, PrepareRequestCalls DEF c
<1> QED
  BY <1>5, <1>7 DEF x

\* The requests of the clients are ones that may be asked.
LEMMA ClientsAsk ==
    ASSUME NEW a \in ClientRequests
    PROVE  Askable(a)
<1> DEFINE Fields(X) == /\ a.messages \in Seq(X) /\ a.system \in Seq(Blocks) /\ a.dynamic \in DynamicTools
                        /\ {"messages", "system", "dynamic", "json", "schema"} \subseteq DOMAIN a
<1>1. \/ a.endpoint = "native" /\ Fields(Inputs) /\ ResultsFollow(a.messages)
      \/ a.endpoint = "openai" /\ Fields(OpenAIInputs) /\ OpenAIResultsFollow(a.messages)
  <2>1. CASE a \in AsksAt("native", Inputs) /\ ResultsFollow(a.messages)
    BY <2>1 DEF AsksAt
  <2>2. CASE a \in AsksAt("openai", OpenAIInputs) /\ OpenAIResultsFollow(a.messages)
    BY <2>2 DEF AsksAt
  <2> QED
    BY <2>1, <2>2 DEF ClientRequests
<1>2. a.dynamic \in DynamicTools
  BY <1>1
<1>3. {"allowed", "choice"} \subseteq DOMAIN a.dynamic /\ a.dynamic.choice \in {"absent", "none", "auto", "required", "specific"}
  BY <1>2 DEF DynamicTools
<1> QED
  BY <1>1, <1>3 DEF Askable

-----------------------------------------------------------------------------
(***************************************************************************)
(* The content of an answer                                                 *)
(***************************************************************************)
\* A part of a list is a list.
LEMMA PartType ==
    ASSUME NEW X, NEW s \in Seq(X), NEW m \in Nat, NEW n \in Int, m >= 1, n <= Len(s)
    PROVE  SubSeq(s, m, n) \in Seq(X)
OBVIOUS

\* A success with blocks yields blocks.
LEMMA OkYields ==
    ASSUME NEW X, NEW v \in Seq(X)
    PROVE  Yields(Ok(v), X)
<1> DEFINE x == Ok(v)
<1>1. x.ok /\ x.ok \in BOOLEAN /\ x.value = v
  BY OkIs
<1> HIDE DEF x
<1>2. Yields(x, X)
  BY <1>1 DEF Yields
<1> QED
  BY <1>2 DEF x

\* A failure yields nothing.
LEMMA FailedYields ==
    ASSUME NEW X, NEW e
    PROVE  Yields(Failed(e), X)
<1> DEFINE x == Failed(e)
<1>1. ~x.ok /\ x.ok \in BOOLEAN
  BY FailedIs
<1> HIDE DEF x
<1>2. Yields(x, X)
  BY <1>1 DEF Yields
<1> QED
  BY <1>2 DEF x

\* A response with one choice yields its content.
LEMMA OneChoiceYields ==
    ASSUME NEW c, NEW content \in Seq(Blocks)
    PROVE  Yields(OneChoice(c, content), Blocks)
BY OkYields, FailedYields DEF OneChoice

\* The text and then the calls of an answer are blocks.
LEMMA TextThenCallsType ==
    ASSUME NEW answer \in Seq(Blocks)
    PROVE  TextThenCalls(answer) \in Seq(Blocks)
<1> DEFINE a == OfType(answer, {"text"})
           b == OfType(answer, {"tool_call"})
<1>1. a \in Seq(Blocks) /\ b \in Seq(Blocks)
  BY OfTypeIs
<1> HIDE DEF a, b
<1>2. a \o b \in Seq(Blocks)
  BY <1>1
<1> QED
  BY <1>2 DEF TextThenCalls, a, b

\* An answer without its empty texts is blocks.
LEMMA WithoutEmptyTextsType ==
    ASSUME NEW content \in Seq(Blocks)
    PROVE  WithoutEmptyTexts(content) \in Seq(Blocks)
BY FilterParts DEF WithoutEmptyTexts

\* A thought is a block.
LEMMA ThoughtType ==
    ASSUME NEW body \in Seq(Words), NEW sig \in Seq(STRING)
    PROVE  Thought(body, sig) \in Blocks
BY DEF Thought, Block, Blocks, BlocksOf, BlockTypes

\* The bodies of blocks, in one, are a body.
LEMMA BodiesType ==
    ASSUME NEW blocks \in Seq(Blocks)
    PROVE  Bodies(blocks) \in Seq(Words)
<1> DEFINE v == [i \in DOMAIN blocks |-> blocks[i].body]
<1>1. v \in Seq(Seq(Words))
  <2>1. ASSUME NEW i \in DOMAIN blocks PROVE blocks[i].body \in Seq(Words)
    <3>1. blocks[i] \in Blocks
      OBVIOUS
    <3> QED
      BY <3>1 DEF Blocks, BlocksOf
  <2>2. v \in [1 .. Len(blocks) -> Seq(Words)] /\ Len(blocks) \in Nat
    BY <2>1
  <2> HIDE DEF v
  <2> QED
    BY <2>2
<1> HIDE DEF v
<1>2. Flatten(v) \in Seq(Words)
  BY <1>1, FlattenType
<1> QED
  BY <1>2 DEF Bodies, v

\* The pieces of a type are a body.
LEMMA PiecesType ==
    ASSUME NEW answer \in Seq(Blocks), NEW type
    PROVE  Pieces(answer, type) \in Seq(Words)
<1>1. OfType(answer, {type}) \in Seq(Blocks)
  BY OfTypeIs
<1> QED
  BY <1>1, BodiesType DEF Pieces

\* DeepSeek's response yields blocks.
LEMMA DeepSeekYields ==
    ASSUME NEW c, c.answer \in Seq(Blocks)
    PROVE  Yields(DeepSeekResponse(c), Blocks)
<1> DEFINE reasoning == OfType(c.answer, {"reasoning"})
           thoughts == [i \in DOMAIN reasoning |-> Thought(reasoning[i].body, <<>>)]
           said == TextThenCalls(c.answer)
           all == thoughts \o said
<1>1. reasoning \in Seq(Blocks) /\ said \in Seq(Blocks)
  BY OfTypeIs, TextThenCallsType
<1> HIDE DEF reasoning, said
<1>2. thoughts \in Seq(Blocks)
  <2>1. ASSUME NEW i \in DOMAIN reasoning PROVE Thought(reasoning[i].body, <<>>) \in Blocks
    <3> DEFINE body == reasoning[i].body
    <3>1. reasoning[i] \in Blocks
      BY <1>1
    <3>2. body \in Seq(Words) /\ << >> \in Seq(STRING)
      BY <3>1 DEF Blocks, BlocksOf
    <3> HIDE DEF body
    <3> QED
      BY <3>2, ThoughtType DEF body
  <2>2. thoughts \in [1 .. Len(reasoning) -> Blocks] /\ Len(reasoning) \in Nat
    BY <1>1, <2>1
  <2> HIDE DEF thoughts
  <2> QED
    BY <2>2
<1> HIDE DEF thoughts
<1>3. all \in Seq(Blocks)
  BY <1>1, <1>2
<1>4. DeepSeekResponse(c) = OneChoice(c, all)
  BY DEF DeepSeekResponse, all, thoughts, reasoning, said
<1> HIDE DEF all
<1> QED
  BY <1>3, <1>4, OneChoiceYields

\* A text with a think block becomes a thought and a text.
LEMMA ThinkYields ==
    ASSUME NEW text \in Seq(Words)
    PROVE  Yields(ProcessThinkBlocks(text), Blocks)
<1> DEFINE start == Min(Places(text, Open))
           end == Min(Places(text, Close))
           inner == SubSeq(text, start + 1, end - 1)
           before == SubSeq(text, 1, start - 1)
           after == SubSeq(text, end + 1, Len(text))
           outer == before \o after
           thought == Thought(inner, <<>>)
           said == Text(outer)
           whole == Text(text)
           x == ProcessThinkBlocks(text)
           bad == Count(text, Open) > 1 \/ Count(text, Open) # Count(text, Close)
           none == Count(text, Open) = 0 /\ Count(text, Close) = 0
           one == <<whole>>
           two == <<thought, said>>
<1>1. /\ bad => x = Failed("InferenceServer")
      /\ ~bad /\ none => x = Ok(one)
      /\ ~bad /\ ~none => x = Ok(two)
  <2> HIDE DEF one, two, none, bad
  <2>1. x = CASE bad -> Failed("InferenceServer") [] none -> Ok(one) [] OTHER -> Ok(two)
    BY DEF ProcessThinkBlocks, one, two, none, bad
  <2> HIDE DEF x
  <2>2. none => ~bad
    BY DEF none, bad
  <2> QED
    BY <2>1, <2>2
<1> HIDE DEF x
<1>2. CASE bad
  <2>1. x = Failed("InferenceServer")
    BY <1>1, <1>2
  <2> QED
    BY <2>1, FailedYields DEF x
<1>3. CASE ~bad /\ none
  <2>1. whole \in Blocks
    BY TextType
  <2> HIDE DEF whole
  <2>2. one \in Seq(Blocks)
    BY <2>1
  <2>3. x = Ok(one)
    BY <1>1, <1>3
  <2> HIDE DEF one
  <2> QED
    BY <2>2, <2>3, OkYields DEF x
<1>4. CASE ~bad /\ ~none
  <2>1. x = Ok(two)
    BY <1>1, <1>4
  <2>2. Places(text, Open) # {} /\ Places(text, Close) # {}
    <3>1. Cardinality({}) = 0
      BY FS_EmptySet
    <3> QED
      BY <1>4, <3>1 DEF Count
  <2>3. /\ Places(text, Open) \subseteq 1 .. Len(text) /\ Places(text, Close) \subseteq 1 .. Len(text)
        /\ Len(text) \in Nat
    BY DEF Places
  <2>4. start \in 1 .. Len(text) /\ end \in 1 .. Len(text)
    <3> DEFINE S == Places(text, Open)
               T == Places(text, Close)
    <3>1. S \subseteq Nat /\ T \subseteq Nat
      BY <2>3
    <3> HIDE DEF S, T
    <3>2. Min(S) \in S /\ Min(T) \in T
      BY <2>2, <3>1, MinIn DEF S, T
    <3> QED
      BY <2>3, <3>2 DEF S, T
  <2> HIDE DEF start, end
  <2>5. inner \in Seq(Words) /\ before \in Seq(Words) /\ after \in Seq(Words)
    <3>1. start + 1 \in Nat /\ start + 1 >= 1 /\ end - 1 \in Int /\ end - 1 <= Len(text)
      BY <2>3, <2>4
    <3>2. 1 \in Nat /\ start - 1 \in Int /\ start - 1 <= Len(text)
      BY <2>3, <2>4
    <3>3. end + 1 \in Nat /\ end + 1 >= 1 /\ Len(text) \in Int
      BY <2>3, <2>4
    <3>4. inner \in Seq(Words)
      BY <3>1, PartType
    <3>5. before \in Seq(Words)
      BY <3>2, PartType
    <3>6. after \in Seq(Words)
      BY <3>3, PartType
    <3> QED
      BY <3>4, <3>5, <3>6
  <2> HIDE DEF inner, before, after
  <2>6. outer \in Seq(Words) /\ << >> \in Seq(STRING)
    BY <2>5
  <2> HIDE DEF outer
  <2>7. thought \in Blocks /\ said \in Blocks
    BY <2>5, <2>6, ThoughtType, TextType
  <2> HIDE DEF thought, said
  <2>8. two \in Seq(Blocks)
    BY <2>7
  <2> HIDE DEF two
  <2> QED
    BY <2>1, <2>8, OkYields DEF x
<1> QED
  BY <1>2, <1>3, <1>4

\* The response of a provider that thinks in its text yields blocks.
LEMMA ThinkResponseYields ==
    ASSUME NEW c, c.answer \in Seq(Blocks)
    PROVE  Yields(ThinkResponse(c), Blocks)
<1> DEFINE text == Pieces(c.answer, "text")
           content == ProcessThinkBlocks(text)
           a == WithoutEmptyTexts(content.value)
           b == OfType(c.answer, {"tool_call"})
           all == a \o b
           x == ThinkResponse(c)
<1>1. x = IF c.choices # 1 THEN Failed("InferenceServer") ELSE IF ~content.ok THEN content ELSE Ok(all)
  BY DEF ThinkResponse
<1>2. text \in Seq(Words) /\ b \in Seq(Blocks)
  BY PiecesType, OfTypeIs
<1> HIDE DEF text, b, x
<1>3. Yields(content, Blocks)
  BY <1>2, ThinkYields
<1> HIDE DEF content
<1>4. CASE c.choices # 1
  <2>1. x = Failed("InferenceServer")
    BY <1>1, <1>4
  <2> QED
    BY <2>1, FailedYields DEF x
<1>5. CASE c.choices = 1 /\ ~content.ok
  <2>1. x = content
    BY <1>1, <1>5
  <2> QED
    BY <1>3, <2>1 DEF x
<1>6. CASE c.choices = 1 /\ content.ok
  <2>1. content.value \in Seq(Blocks)
    BY <1>3, <1>6 DEF Yields
  <2>2. a \in Seq(Blocks)
    BY <2>1, WithoutEmptyTextsType
  <2> HIDE DEF a
  <2>3. all \in Seq(Blocks)
    BY <1>2, <2>2
  <2> HIDE DEF all
  <2>4. x = Ok(all)
    BY <1>1, <1>6
  <2> QED
    BY <2>3, <2>4, OkYields DEF x
<1> QED
  BY <1>3, <1>4, <1>5, <1>6 DEF Yields

\* The start of the JSON is put back in front of the text.
LEMMA PrefillResponseType ==
    ASSUME NEW content \in Seq(Blocks)
    PROVE  PrefillResponse(content) \in Seq(Blocks)
<1> DEFINE brace == <<"brace">>
           body == content[1].body
           text == Text(brace \o body)
           x == PrefillResponse(content)
<1>1. x = content \/ (content # << >> /\ x = <<text>>)
  BY DEF PrefillResponse
<1>2. CASE content # << >> /\ x = <<text>>
  <2>1. content[1] \in Blocks
    BY <1>2
  <2>2. body \in Seq(Words)
    BY <2>1 DEF Blocks, BlocksOf
  <2>3. brace \in Seq(Words)
    <3>1. "brace" \in Words
      BY DEF Words, Written
    <3> QED
      BY <3>1
  <2> HIDE DEF brace, body
  <2>4. brace \o body \in Seq(Words)
    BY <2>2, <2>3
  <2>5. text \in Blocks
    BY <2>4, TextType
  <2> HIDE DEF text, x
  <2> QED
    BY <1>2, <2>5 DEF x
<1> QED
  BY <1>1, <1>2

\* A response converted block by block yields blocks.
LEMMA EachYields ==
    ASSUME NEW answer \in Seq(Blocks), NEW r, YieldEach(answer, r)
    PROVE  Yields(All(r), Blocks)
<1> DEFINE n == Len(answer)
<1>1. n \in Nat /\ DOMAIN r = 1 .. n /\ \A i \in 1 .. n : Yields(r[i], Blocks)
  BY DEF YieldEach
<1> HIDE DEF n
<1> QED
  BY <1>1, AllType

\* Anthropic's response yields blocks.
LEMMA AnthropicYields ==
    ASSUME NEW c, c.answer \in Seq(Blocks)
    PROVE  Yields(AnthropicResponse(c), Blocks)
<1> DEFINE v == IF Prefills(c) THEN PrefillResponse(c.answer) ELSE c.answer
<1>1. v \in Seq(Blocks)
  BY PrefillResponseType
<1> HIDE DEF v
<1>2. Yields(Ok(v), Blocks)
  BY <1>1, OkYields
<1> QED
  BY <1>2 DEF AnthropicResponse, v

\* A block of another type is a block.
LEMMA RetypedType ==
    ASSUME NEW b \in Blocks, NEW type \in BlockTypes, NEW x, x = [b EXCEPT !.type = type]
    PROVE  x \in Blocks
<1>1. b = [type |-> b.type, id |-> b.id, name |-> b.name, body |-> b.body, sig |-> b.sig]
  BY DEF Blocks, BlocksOf
<1>2. x = [type |-> type, id |-> b.id, name |-> b.name, body |-> b.body, sig |-> b.sig]
  BY <1>1
<1> QED
  BY <1>2 DEF Blocks, BlocksOf

\* The response of Anthropic's models on Vertex AI yields blocks.
LEMMA VertexAnthropicYields ==
    ASSUME NEW c, c.answer \in Seq(Blocks)
    PROVE  Yields(VertexAnthropicResponse(c), Blocks)
<1> DEFINE answer == c.answer
           r == [i \in DOMAIN answer |-> VertexAnthropicOutput(answer[i])]
           content == All(r)
           pre == PrefillResponse(content.value)
<1>1. VertexAnthropicResponse(c) = IF Prefills(c) THEN Ok(pre) ELSE content
  BY DEF VertexAnthropicResponse, Each
<1>2. ASSUME NEW i \in DOMAIN answer PROVE Yields(r[i], Blocks) /\ r[i].ok
  <2> DEFINE b == answer[i]
             z == [b EXCEPT !.type = "unknown"]
             y == IF b.type = "thought" THEN z ELSE b
             one == <<y>>
  <2>1. b \in Blocks
    OBVIOUS
  <2>2. "unknown" \in BlockTypes
    BY DEF BlockTypes
  <2>3. r[i] = Ok(one)
    BY DEF VertexAnthropicOutput
  <2> HIDE DEF b
  <2>4. z \in Blocks
    BY <2>1, <2>2, RetypedType
  <2> HIDE DEF z
  <2>5. y \in Blocks
    BY <2>1, <2>4
  <2> HIDE DEF y
  <2>6. one \in Seq(Blocks)
    BY <2>5
  <2> HIDE DEF one, r
  <2> QED
    BY <2>3, <2>6, OkYields, OkIs
<1>3. YieldEach(answer, r) /\ content.ok
  <2>1. content.ok
    BY <1>2, OkIs DEF All
  <2> HIDE DEF content
  <2>2. YieldEach(answer, r)
    BY <1>2 DEF YieldEach
  <2> QED
    BY <2>1, <2>2
<1> HIDE DEF r
<1>4. Yields(content, Blocks)
  BY <1>3, EachYields
<1> HIDE DEF content
<1>5. content.value \in Seq(Blocks)
  BY <1>3, <1>4 DEF Yields
<1>6. pre \in Seq(Blocks)
  BY <1>5, PrefillResponseType
<1> HIDE DEF pre
<1>7. Yields(Ok(pre), Blocks)
  BY <1>6, OkYields
<1> QED
  BY <1>1, <1>4, <1>7

\* Bedrock's response yields blocks.
LEMMA BedrockYields ==
    ASSUME NEW c, c.answer \in Seq(Blocks)
    PROVE  Yields(BedrockResponse(c), Blocks)
<1> DEFINE answer == c.answer
           r == [i \in DOMAIN answer |-> BedrockOutput(answer[i])]
           content == All(r)
           pre == PrefillResponse(content.value)
<1>1. BedrockResponse(c) = IF content.ok /\ BedrockPrefills(c) THEN Ok(pre) ELSE content
  BY DEF BedrockResponse, Each
<1>2. ASSUME NEW i \in DOMAIN answer PROVE Yields(r[i], Blocks)
  <2> DEFINE b == answer[i]
             one == <<b>>
  <2>1. b \in Blocks
    OBVIOUS
  <2>2. r[i] = Ok(one) \/ r[i] = Failed("TypeConversion")
    BY DEF BedrockOutput
  <2> HIDE DEF b
  <2>3. one \in Seq(Blocks)
    BY <2>1
  <2> HIDE DEF one, r
  <2> QED
    BY <2>2, <2>3, OkYields, FailedYields
<1>3. YieldEach(answer, r)
  BY <1>2 DEF YieldEach
<1> HIDE DEF r
<1>4. Yields(content, Blocks)
  BY <1>3, EachYields
<1> HIDE DEF content
<1>5. CASE content.ok /\ BedrockPrefills(c)
  <2>1. content.value \in Seq(Blocks)
    BY <1>4, <1>5 DEF Yields
  <2>2. pre \in Seq(Blocks)
    BY <2>1, PrefillResponseType
  <2> HIDE DEF pre
  <2>3. Yields(Ok(pre), Blocks)
    BY <2>2, OkYields
  <2> QED
    BY <1>1, <1>5, <2>3
<1>6. CASE ~(content.ok /\ BedrockPrefills(c))
  BY <1>1, <1>4, <1>6
<1> QED
  BY <1>5, <1>6

\* The response of Gemini on Vertex AI yields blocks.
LEMMA VertexGeminiYields ==
    ASSUME NEW c, c.answer \in Seq(Blocks)
    PROVE  Yields(VertexGeminiResponse(c), Blocks)
<1> DEFINE answer == c.answer
           r == [i \in DOMAIN answer |-> VertexGeminiOutput(answer[i])]
           content == All(r)
<1>1. VertexGeminiResponse(c) = IF c.choices = 0 THEN Failed("InferenceServer") ELSE content
  BY DEF VertexGeminiResponse, Each
<1>2. ASSUME NEW i \in DOMAIN answer PROVE Yields(r[i], Blocks)
  <2> DEFINE b == answer[i]
             one == <<b>>
  <2>1. b \in Blocks
    OBVIOUS
  <2>2. r[i] = Ok(one)
    BY DEF VertexGeminiOutput
  <2> HIDE DEF b
  <2>3. one \in Seq(Blocks)
    BY <2>1
  <2> HIDE DEF one, r
  <2> QED
    BY <2>2, <2>3, OkYields
<1>3. YieldEach(answer, r)
  BY <1>2 DEF YieldEach
<1> HIDE DEF r
<1>4. Yields(content, Blocks)
  BY <1>3, EachYields
<1> HIDE DEF content
<1>5. Yields(Failed("InferenceServer"), Blocks)
  BY FailedYields
<1> QED
  BY <1>1, <1>4, <1>5

\* AI Studio's response yields blocks.
LEMMA StudioYields ==
    ASSUME NEW c, c.answer \in Seq(Blocks)
    PROVE  Yields(StudioResponse(c), Blocks)
<1> DEFINE answer == c.answer
           r == [i \in DOMAIN answer |-> StudioOutput(answer[i])]
           content == All(r)
<1>1. StudioResponse(c) = IF c.choices = 0 THEN Failed("InferenceServer") ELSE content
  BY DEF StudioResponse, Each
<1>2. ASSUME NEW i \in DOMAIN answer PROVE Yields(r[i], Blocks)
  <2> DEFINE b == answer[i]
             t == Thought(<<>>, b.sig)
             z == [b EXCEPT !.sig = << >>]
             one == <<b>>
             two == <<t, z>>
  <2>1. b \in Blocks
    OBVIOUS
  <2>2. r[i] = Ok(one) \/ r[i] = Ok(two)
    BY DEF StudioOutput
  <2> HIDE DEF b
  <2>3. one \in Seq(Blocks)
    BY <2>1
  <2>4. b.sig \in Seq(STRING) /\ << >> \in Seq(STRING) /\ << >> \in Seq(Words)
    BY <2>1 DEF Blocks, BlocksOf
  <2>5. t \in Blocks
    BY <2>4, ThoughtType
  <2>6. z \in Blocks
    BY <2>1, <2>4, SignedType DEF Signed
  <2> HIDE DEF t, z
  <2>7. two \in Seq(Blocks)
    BY <2>5, <2>6
  <2> HIDE DEF one, two, r
  <2> QED
    BY <2>2, <2>3, <2>7, OkYields
<1>3. YieldEach(answer, r)
  BY <1>2 DEF YieldEach
<1> HIDE DEF r
<1>4. Yields(content, Blocks)
  BY <1>3, EachYields
<1> HIDE DEF content
<1>5. Yields(Failed("InferenceServer"), Blocks)
  BY FailedYields
<1> QED
  BY <1>1, <1>4, <1>5

\* Every provider's response yields blocks.
LEMMA ResponseYields ==
    ASSUME NEW p \in AllProviders, NEW c, c.answer \in Seq(Blocks)
    PROVE  Yields(Response(p, c), Blocks)
<1>1. CASE p \in OpenAILike \ {"deepseek", "together", "fireworks", "mistral"}
  <2>1. Response(p, c) = OneChoice(c, TextThenCalls(c.answer))
    BY <1>1 DEF OpenAILike, Response, OpenAIResponse, AzureResponse, XAIResponse, HyperbolicResponse, VLLMResponse, SGLangResponse,
                TGIResponse, GroqResponse, OpenRouterResponse
  <2> QED
    BY <2>1, OneChoiceYields, TextThenCallsType
<1>2. CASE p = "mistral"
  <2>1. WithoutEmptyTexts(TextThenCalls(c.answer)) \in Seq(Blocks)
    BY TextThenCallsType, WithoutEmptyTextsType
  <2>2. Response(p, c) = OneChoice(c, WithoutEmptyTexts(TextThenCalls(c.answer)))
    BY <1>2 DEF Response, MistralResponse
  <2> QED
    BY <2>1, <2>2, OneChoiceYields
<1>3. CASE p = "deepseek"
  BY <1>3, DeepSeekYields DEF Response
<1>4. CASE p \in {"together", "fireworks"}
  BY <1>4, ThinkResponseYields DEF Response, TogetherResponse, FireworksResponse
<1>5. CASE p = "anthropic"
  BY <1>5, AnthropicYields DEF Response
<1>6. CASE p = "vertex_anthropic"
  BY <1>6, VertexAnthropicYields DEF Response
<1>7. CASE p = "bedrock"
  BY <1>7, BedrockYields DEF Response
<1>8. CASE p = "vertex_gemini"
  BY <1>8, VertexGeminiYields DEF Response
<1>9. CASE p = "studio"
  BY <1>9, StudioYields DEF Response
<1> QED
  BY <1>1, <1>2, <1>3, <1>4, <1>5, <1>6, <1>7, <1>8, <1>9 DEF AllProviders, OpenAILike, Gemini

-----------------------------------------------------------------------------
(***************************************************************************)
(* The chunks of a stream                                                   *)
(***************************************************************************)
\* A chunk with blocks.
LEMMA YieldStreams ==
    ASSUME NEW s \in Memories, NEW content \in Seq(Blocks)
    PROVE  Streams(Yield(s, content)) /\ Yield(s, content).ok /\ Yield(s, content).st = s /\ Yield(s, content).content = content
BY DEF Yield, Streams

\* A chunk with one block.
LEMMA YieldsOneBlock ==
    ASSUME NEW s \in Memories, NEW b \in Blocks
    PROVE  Streams(Yield(s, <<b>>))
<1> DEFINE one == <<b>>
<1>1. one \in Seq(Blocks)
  OBVIOUS
<1> HIDE DEF one
<1>2. Streams(Yield(s, one))
  BY <1>1, YieldStreams
<1> QED
  BY <1>2 DEF one

\* A chunk without content.
LEMMA YieldsNothing ==
    ASSUME NEW s \in Memories
    PROVE  Streams(Yield(s, << >>))
<1> DEFINE none == << >>
<1>1. none \in Seq(Blocks)
  OBVIOUS
<1> HIDE DEF none
<1>2. Streams(Yield(s, none))
  BY <1>1, YieldStreams
<1> QED
  BY <1>2 DEF none

\* An error in the place of a chunk.
LEMMA BreakStreams ==
    ASSUME NEW s \in Memories
    PROVE  Streams(Break(s))
<1>1. << >> \in Seq(Blocks)
  OBVIOUS
<1> QED
  BY <1>1 DEF Break, Streams

\* The texts, thoughts and calls of a chunk are blocks.
LEMMA ChunkType ==
    ASSUME NEW id \in Nat, NEW name \in Seq(STRING), NEW body \in Seq(Words), NEW sig \in Seq(STRING)
    PROVE  TextChunk(id, body) \in Blocks /\ ThoughtChunk(id, body, sig) \in Blocks /\ CallChunk(id, name, body) \in Blocks
<1>1. << >> \in Seq(STRING)
  OBVIOUS
<1> QED
  BY <1>1 DEF TextChunk, ThoughtChunk, CallChunk, Block, Blocks, BlocksOf, BlockTypes

\* The adapter remembers other ids.
LEMMA RememberIds ==
    ASSUME NEW s \in Memories, NEW v \in Seq(Nat), NEW t, t = [s EXCEPT !.ids = v]
    PROVE  t \in Memories
<1>1. s = [ids |-> s.ids, tool |-> s.tool, name |-> s.name, calls |-> s.calls, thoughts |-> s.thoughts, think |-> s.think]
  BY DEF Memories
<1>2. t = [ids |-> v, tool |-> s.tool, name |-> s.name, calls |-> s.calls, thoughts |-> s.thoughts, think |-> s.think]
  BY <1>1
<1> QED
  BY <1>2 DEF Memories

\* The adapter remembers another current tool.
LEMMA RememberTool ==
    ASSUME NEW s \in Memories, NEW v \in Nat, NEW t, t = [s EXCEPT !.tool = v]
    PROVE  t \in Memories
<1>1. s = [ids |-> s.ids, tool |-> s.tool, name |-> s.name, calls |-> s.calls, thoughts |-> s.thoughts, think |-> s.think]
  BY DEF Memories
<1>2. t = [ids |-> s.ids, tool |-> v, name |-> s.name, calls |-> s.calls, thoughts |-> s.thoughts, think |-> s.think]
  BY <1>1
<1> QED
  BY <1>2 DEF Memories

\* The adapter remembers another name.
LEMMA RememberName ==
    ASSUME NEW s \in Memories, NEW v \in Seq(STRING), NEW t, t = [s EXCEPT !.name = v]
    PROVE  t \in Memories
<1>1. s = [ids |-> s.ids, tool |-> s.tool, name |-> s.name, calls |-> s.calls, thoughts |-> s.thoughts, think |-> s.think]
  BY DEF Memories
<1>2. t = [ids |-> s.ids, tool |-> s.tool, name |-> v, calls |-> s.calls, thoughts |-> s.thoughts, think |-> s.think]
  BY <1>1
<1> QED
  BY <1>2 DEF Memories

\* The adapter remembers the name of one more call.
LEMMA RememberCall ==
    ASSUME NEW s \in Memories, NEW v \in Seq(STRING), NEW k \in Nat, NEW t, t = [s EXCEPT !.name = v, !.calls = k]
    PROVE  t \in Memories
<1>1. s = [ids |-> s.ids, tool |-> s.tool, name |-> s.name, calls |-> s.calls, thoughts |-> s.thoughts, think |-> s.think]
  BY DEF Memories
<1>2. t = [ids |-> s.ids, tool |-> s.tool, name |-> v, calls |-> k, thoughts |-> s.thoughts, think |-> s.think]
  BY <1>1
<1> QED
  BY <1>2 DEF Memories

\* The adapter remembers whether the model thinks.
LEMMA RememberThink ==
    ASSUME NEW s \in Memories, NEW v \in {"Normal", "Thinking", "Finished"}, NEW t, t = [s EXCEPT !.think = v]
    PROVE  t \in Memories
<1>1. s = [ids |-> s.ids, tool |-> s.tool, name |-> s.name, calls |-> s.calls, thoughts |-> s.thoughts, think |-> s.think]
  BY DEF Memories
<1>2. t = [ids |-> s.ids, tool |-> s.tool, name |-> s.name, calls |-> s.calls, thoughts |-> s.thoughts, think |-> v]
  BY <1>1
<1> QED
  BY <1>2 DEF Memories

\* The fields of a delta.
LEMMA DeltaIs ==
    ASSUME NEW d \in DeltaSet
    PROVE  /\ d.type \in DeltaTypes /\ d.of \in BlockTypes \cup {"signal"} /\ d.index \in Nat /\ d.id \in Nat
           /\ d.name \in Seq(STRING) /\ d.body \in Seq(Words) /\ d.sig \in Seq(STRING)
BY DEF DeltaSet

\* The fields of what an adapter remembers.
LEMMA MemoryIs ==
    ASSUME NEW s \in Memories
    PROVE  /\ s.ids \in Seq(Nat) /\ s.tool \in Nat /\ s.name \in Seq(STRING) /\ s.calls \in Nat /\ s.thoughts \in Nat
           /\ s.think \in {"Normal", "Thinking", "Finished"}
BY DEF Memories

\* The delta of a call, with the id its adapter remembers for it.
LEMMA ToolDeltaStreams ==
    ASSUME NEW s \in Memories, NEW d \in DeltaSet, NEW index
    PROVE  Streams(ToolDelta(s, d, index))
<1> DEFINE ids == Append(s.ids, d.id)
           t == [s EXCEPT !.ids = ids]
           b == CallChunk(d.id, d.name, d.body)
           z == CallChunk(s.ids[index], d.name, d.body)
<1>1. ids \in Seq(Nat)
  BY DeltaIs, MemoryIs
<1>2. b \in Blocks
  BY DeltaIs, ChunkType
<1>3. t \in Memories
  <2> HIDE DEF ids
  <2> QED
    BY <1>1, RememberIds
<1>4. CASE d.id # 0
  <2>1. ToolDelta(s, d, index) = Yield(t, <<b>>)
    BY <1>4 DEF ToolDelta
  <2> HIDE DEF t, b
  <2> QED
    BY <1>2, <1>3, <2>1, YieldsOneBlock
<1>5. CASE d.id = 0 /\ index \in DOMAIN s.ids
  <2>1. s.ids[index] \in Nat
    BY <1>5, MemoryIs
  <2>2. z \in Blocks
    BY <2>1, DeltaIs, ChunkType
  <2>3. ToolDelta(s, d, index) = Yield(s, <<z>>)
    BY <1>5 DEF ToolDelta
  <2> HIDE DEF z
  <2> QED
    BY <2>2, <2>3, YieldsOneBlock
<1>6. CASE d.id = 0 /\ index \notin DOMAIN s.ids
  BY <1>6, BreakStreams DEF ToolDelta
<1> QED
  BY <1>4, <1>5, <1>6

\* OpenAI's chunk of a delta.
LEMMA OpenAIChunkStreams ==
    ASSUME NEW s \in Memories, NEW d \in DeltaSet
    PROVE  Streams(OpenAIChunk(s, d))
<1> DEFINE b == TextChunk(0, d.body)
<1>1. b \in Blocks
  BY DeltaIs, ChunkType
<1> HIDE DEF b
<1>2. CASE d.type = "text"
  BY <1>1, <1>2, YieldsOneBlock DEF OpenAIChunk, b
<1>3. CASE d.type = "tool_call"
  BY <1>3, ToolDeltaStreams DEF OpenAIChunk
<1>4. CASE d.type \notin {"text", "tool_call"}
  BY <1>4, YieldsNothing DEF OpenAIChunk
<1> QED
  BY <1>2, <1>3, <1>4

\* The chunks of the providers that stream as OpenAI does.
LEMMA MoreOpenAIChunksStream ==
    ASSUME NEW s \in Memories, NEW d \in DeltaSet
    PROVE  /\ Streams(GroqChunk(s, d)) /\ Streams(OpenRouterChunk(s, d)) /\ Streams(SGLangChunk(s, d))
           /\ Streams(TGIChunk(s, d)) /\ Streams(DeepSeekChunk(s, d))
<1>1. Streams(OpenAIChunk(s, d)) /\ Streams(Break(s)) /\ \A index : Streams(ToolDelta(s, d, index))
  BY OpenAIChunkStreams, BreakStreams, ToolDeltaStreams
<1> DEFINE b == ThoughtChunk(0, d.body, <<>>)
<1>2. b \in Blocks
  <2>1. << >> \in Seq(STRING)
    OBVIOUS
  <2> QED
    BY <2>1, DeltaIs, ChunkType
<1>3. Streams(Yield(s, <<b>>))
  <2> HIDE DEF b
  <2> QED
    BY <1>2, YieldsOneBlock
<1>4. Streams(DeepSeekChunk(s, d))
  BY <1>1, <1>3 DEF DeepSeekChunk
<1>5. Streams(SGLangChunk(s, d))
  BY <1>1 DEF SGLangChunk
<1> QED
  BY <1>1, <1>4, <1>5 DEF GroqChunk, OpenRouterChunk, TGIChunk

\* Mistral's chunk of a delta.
LEMMA MistralChunkStreams ==
    ASSUME NEW s \in Memories, NEW d \in DeltaSet
    PROVE  Streams(MistralChunk(s, d))
<1> DEFINE b == TextChunk(0, d.body)
           name == NewName(s, d.name)
           z == CallChunk(d.id, name, d.body)
           t == [s EXCEPT !.name = d.name]
<1>1. b \in Blocks
  BY DeltaIs, ChunkType
<1>2. name \in Seq(STRING)
  <2>1. << >> \in Seq(STRING)
    OBVIOUS
  <2> QED
    BY <2>1, DeltaIs DEF NewName
<1>3. z \in Blocks
  <2> HIDE DEF name
  <2> QED
    BY <1>2, DeltaIs, ChunkType
<1>4. t \in Memories
  BY DeltaIs, RememberName
<1> HIDE DEF b, z, t
<1>5. CASE d.type = "text"
  <2>1. MistralChunk(s, d) \in {Yield(s, << >>), Yield(s, <<b>>)}
    BY <1>5 DEF MistralChunk, b
  <2> QED
    BY <1>1, <2>1, YieldsOneBlock, YieldsNothing
<1>6. CASE d.type = "tool_call"
  <2>1. MistralChunk(s, d) = Yield(t, <<z>>)
    BY <1>6 DEF MistralChunk, t, z
  <2> QED
    BY <1>3, <1>4, <2>1, YieldsOneBlock
<1>7. CASE d.type \notin {"text", "tool_call"}
  BY <1>7, YieldsNothing DEF MistralChunk
<1> QED
  BY <1>5, <1>6, <1>7

\* The chunk of a provider that thinks in its text.
LEMMA ThinkChunkStreams ==
    ASSUME NEW s \in Memories, NEW d \in DeltaSet
    PROVE  Streams(ThinkChunk(s, d))
<1> DEFINE id == ThinkId(s.think)
           a == ThoughtChunk(id, d.body, <<>>)
           b == TextChunk(id, d.body)
           chunk == IF s.think = "Thinking" THEN a ELSE b
           t == [s EXCEPT !.think = "Thinking"]
           f == [s EXCEPT !.think = "Finished"]
<1>1. id \in Nat
  BY MemoryIs DEF ThinkId
<1>2. a \in Blocks /\ b \in Blocks
  <2>1. << >> \in Seq(STRING)
    OBVIOUS
  <2> HIDE DEF id
  <2> QED
    BY <1>1, <2>1, DeltaIs, ChunkType
<1>3. t \in Memories /\ f \in Memories
  BY RememberThink
<1> HIDE DEF a, b
<1>4. chunk \in Blocks
  BY <1>2
<1> HIDE DEF chunk, t, f
<1>5. Streams(OpenAIChunk(s, d)) /\ Streams(Yield(s, <<chunk>>)) /\ Streams(Yield(t, << >>)) /\ Streams(Yield(f, << >>)) /\ Streams(Break(s))
  BY <1>3, <1>4, OpenAIChunkStreams, YieldsOneBlock, YieldsNothing, BreakStreams
<1>6. ThinkChunk(s, d) \in {OpenAIChunk(s, d), Yield(s, <<chunk>>), Yield(t, << >>), Yield(f, << >>), Break(s)}
  BY DEF ThinkChunk, chunk, a, b, t, f
<1> QED
  BY <1>5, <1>6

\* A delta of an unknown type is passed on, dropped or an error.
LEMMA UnknownStreams ==
    ASSUME NEW s \in Memories, NEW discard
    PROVE  Streams(UnknownPart(s, discard))
BY YieldsNothing, BreakStreams DEF UnknownPart

\* Anthropic's chunk of a delta, direct, on Vertex AI or on Bedrock.
LEMMA AnthropicChunkStreams ==
    ASSUME NEW s \in Memories, NEW d \in DeltaSet, NEW discard
    PROVE  /\ Streams(AnthropicChunk(s, d, discard)) /\ Streams(VertexAnthropicChunk(s, d, discard))
           /\ Streams(BedrockChunk(s, d))
<1> DEFINE a == TextChunk(d.index, d.body)
           b == CallChunk(d.id, d.name, <<>>)
           e == ThoughtChunk(d.index, d.body, d.sig)
           f == CallChunk(s.tool, <<>>, d.body)
           t == [s EXCEPT !.tool = d.id]
<1>1. a \in Blocks /\ b \in Blocks /\ e \in Blocks /\ f \in Blocks
  <2>1. << >> \in Seq(STRING) /\ << >> \in Seq(Words)
    OBVIOUS
  <2>2. a \in Blocks /\ e \in Blocks
    BY DeltaIs, ChunkType
  <2>3. b \in Blocks
    BY <2>1, DeltaIs, ChunkType
  <2>4. f \in Blocks
    BY <2>1, DeltaIs, MemoryIs, ChunkType
  <2> QED
    BY <2>2, <2>3, <2>4
<1>2. t \in Memories
  BY DeltaIs, RememberTool
<1> HIDE DEF a, b, e, f, t
<1> DEFINE all == {Yield(s, <<a>>), Yield(t, <<b>>), Yield(s, <<e>>), Yield(s, <<f>>), Yield(s, << >>), Break(s), UnknownPart(s, discard)}
<1>3. \A x \in all : Streams(x)
  <2>1. Streams(Yield(s, <<a>>)) /\ Streams(Yield(t, <<b>>)) /\ Streams(Yield(s, <<e>>)) /\ Streams(Yield(s, <<f>>))
    BY <1>1, <1>2, YieldsOneBlock
  <2>2. Streams(Yield(s, << >>)) /\ Streams(Break(s)) /\ Streams(UnknownPart(s, discard))
    BY YieldsNothing, BreakStreams, UnknownStreams
  <2> QED
    BY <2>1, <2>2
<1>4. AnthropicStart(s, d) \in all
  BY DEF AnthropicStart, a, b, e, t
<1>5. AnthropicChunk(s, d, discard) \in all
  <2> HIDE DEF all
  <2>1. CASE d.of = "unknown"
    BY <2>1 DEF AnthropicChunk, all
  <2>2. CASE d.of # "unknown" /\ d.type = "start"
    BY <1>4, <2>2 DEF AnthropicChunk
  <2>3. CASE d.of # "unknown" /\ d.type # "start"
    BY <2>3 DEF AnthropicChunk, all, a, e, f
  <2> QED
    BY <2>1, <2>2, <2>3
<1>6. VertexAnthropicChunk(s, d, discard) \in all
  BY <1>5 DEF VertexAnthropicChunk
<1>7. BedrockChunk(s, d) \in all
  BY DEF BedrockChunk, a, b, f, t
<1> QED
  BY <1>3, <1>5, <1>6, <1>7

\* The chunk of a part of Gemini's on Vertex AI.
LEMMA GeminiChunkStreams ==
    ASSUME NEW s \in Memories, NEW d \in DeltaSet, NEW discard
    PROVE  /\ Streams(GeminiCall(s, d)) /\ Streams(GeminiText(s, d)) /\ Streams(VertexGeminiChunk(s, d, discard))
<1> DEFINE name == NewName(s, d.name)
           calls == IF name = <<>> THEN s.calls ELSE s.calls + 1
           t == [s EXCEPT !.name = d.name, !.calls = calls]
           a == CallChunk(calls, name, d.body)
           b == TextChunk(0, d.body)
           e == ThoughtChunk(0, d.body, d.sig)
<1>1. name \in Seq(STRING)
  <2>1. << >> \in Seq(STRING)
    OBVIOUS
  <2> QED
    BY <2>1, DeltaIs DEF NewName
<1>2. calls \in Nat
  BY MemoryIs
<1>3. GeminiCall(s, d) = Yield(t, <<a>>)
  BY DEF GeminiCall
<1>4. GeminiText(s, d) \in {Yield(s, << >>), Yield(s, <<b>>)}
  BY DEF GeminiText
<1> HIDE DEF name, calls
<1>5. t \in Memories /\ a \in Blocks /\ b \in Blocks /\ e \in Blocks
  <2>1. d.name \in Seq(STRING) /\ d.body \in Seq(Words) /\ d.sig \in Seq(STRING)
    BY DeltaIs
  <2>2. t \in Memories
    BY <1>2, <2>1, RememberCall
  <2>3. a \in Blocks /\ b \in Blocks /\ e \in Blocks
    BY <1>1, <1>2, <2>1, ChunkType
  <2> QED
    BY <2>2, <2>3
<1> HIDE DEF t, a, b, e
<1>6. Streams(GeminiCall(s, d)) /\ Streams(GeminiText(s, d)) /\ Streams(Yield(s, <<e>>)) /\ Streams(UnknownPart(s, discard))
  BY <1>3, <1>4, <1>5, YieldsOneBlock, YieldsNothing, UnknownStreams
<1>7. VertexGeminiChunk(s, d, discard) \in {GeminiCall(s, d), GeminiText(s, d), Yield(s, <<e>>), UnknownPart(s, discard)}
  BY DEF VertexGeminiChunk, e
<1> QED
  BY <1>6, <1>7

\* AI Studio's chunk of a part.
LEMMA StudioChunkStreams ==
    ASSUME NEW s \in Memories, NEW d \in DeltaSet, NEW discard
    PROVE  Streams(StudioChunk(s, d, discard))
<1> DEFINE counted == [s EXCEPT !.thoughts = @ + 1]
           before == IF d.sig = <<>> THEN s ELSE counted
           part == IF d.type = "text" THEN GeminiText(before, d) ELSE GeminiCall(before, d)
           a == ThoughtChunk(counted.thoughts, d.body, d.sig)
           b == ThoughtChunk(counted.thoughts, <<>>, d.sig)
           one == <<b>>
           both == one \o part.content
           x == StudioChunk(s, d, discard)
<1>1. counted \in Memories /\ counted.thoughts \in Nat
  <2>1. s = [ids |-> s.ids, tool |-> s.tool, name |-> s.name, calls |-> s.calls, thoughts |-> s.thoughts, think |-> s.think]
    BY DEF Memories
  <2>2. s.thoughts + 1 \in Nat
    BY DEF Memories
  <2> QED
    BY <2>1, <2>2 DEF Memories
<1>2. x \in {Yield(counted, <<a>>), UnknownPart(before, discard), part, Yield(part.st, both)}
  <2>1. CASE d.type = "thought"
    BY <2>1 DEF StudioChunk
  <2>2. CASE d.type = "unknown"
    BY <2>2 DEF StudioChunk
  <2>3. CASE d.type \notin {"thought", "unknown"}
    <3> HIDE DEF part
    <3> QED
      BY <2>3 DEF StudioChunk, part
  <2> QED
    BY <2>1, <2>2, <2>3
<1> HIDE DEF counted
<1>3. before \in Memories
  BY <1>1
<1> HIDE DEF before
<1>4. Streams(part)
  BY <1>3, GeminiChunkStreams
<1> HIDE DEF part
<1>5. a \in Blocks /\ b \in Blocks
  <2>1. << >> \in Seq(Words)
    OBVIOUS
  <2>2. a \in Blocks
    BY <1>1, DeltaIs, ChunkType
  <2>3. b \in Blocks
    BY <1>1, <2>1, DeltaIs, ChunkType
  <2> QED
    BY <2>2, <2>3
<1> HIDE DEF a, b
<1>6. one \in Seq(Blocks)
  BY <1>5
<1> HIDE DEF one
<1>7. both \in Seq(Blocks) /\ part.st \in Memories
  BY <1>4, <1>6 DEF Streams
<1> HIDE DEF both, x
<1>8. Streams(Yield(counted, <<a>>)) /\ Streams(UnknownPart(before, discard)) /\ Streams(Yield(part.st, both))
  BY <1>1, <1>3, <1>5, <1>7, YieldsOneBlock, UnknownStreams, YieldStreams
<1> QED
  BY <1>2, <1>4, <1>8 DEF x

\* An event of one delta or two makes a chunk.
LEMMA EventStreams ==
    ASSUME NEW deltas, Fired(deltas), NEW one, NEW two, NEW x, Comes(x, deltas, one, two), Streams(one),
           Len(deltas) = 2 => Streams(two)
    PROVE  Streams(x)
<1>1. CASE Len(deltas) = 1 \/ ~one.ok
  BY <1>1 DEF Comes
<1>2. CASE Len(deltas) # 1 /\ one.ok
  <2> DEFINE both == one.content \o two.content
             s == two.st
  <2>1. Streams(two)
    BY <1>2 DEF Fired
  <2>2. both \in Seq(Blocks) /\ s \in Memories
    BY <2>1 DEF Streams
  <2>3. x = IF two.ok THEN Yield(s, both) ELSE Break(s)
    BY <1>2 DEF Comes
  <2> HIDE DEF both, s
  <2>4. Streams(Yield(s, both)) /\ Streams(Break(s))
    BY <2>2, YieldStreams, BreakStreams
  <2> QED
    BY <2>3, <2>4
<1> QED
  BY <1>1, <1>2

\* An event of any provider makes a chunk.
LEMMA StreamEventStreams ==
    ASSUME NEW p, NEW s \in Memories, NEW deltas, Fired(deltas), NEW discard
    PROVE  Streams(StreamEvent(p, s, deltas, discard))
<1> DEFINE d == deltas[1]
           e == deltas[2]
           x == StreamEvent(p, s, deltas, discard)
<1>1. d \in DeltaSet /\ (Len(deltas) = 2 => e \in DeltaSet)
  BY DEF Fired
<1> HIDE DEF d, e
<1>2. CASE p \notin {"groq", "openrouter", "sglang", "tgi", "deepseek", "mistral", "together", "fireworks", "bedrock", "anthropic", "vertex_anthropic", "vertex_gemini", "studio"}
  <2> DEFINE one == OpenAIChunk(s, d)
             two == OpenAIChunk(one.st, e)
  <2>1. Comes(x, deltas, one, two)
    BY <1>2 DEF StreamEvent, StreamOpenAI, Deltas, Comes, d, e
  <2>2. Streams(one)
    BY <1>1, OpenAIChunkStreams
  <2> HIDE DEF one, x
  <2>3. one.st \in Memories
    BY <2>2 DEF Streams
  <2>4. Len(deltas) = 2 => Streams(two)
    BY <1>1, <2>3, OpenAIChunkStreams
  <2> HIDE DEF two
  <2>5. Streams(x)
    BY <2>1, <2>2, <2>4, EventStreams
  <2> QED
    BY <2>5 DEF x
<1>3. CASE p = "groq"
  <2> DEFINE one == GroqChunk(s, d)
             two == GroqChunk(one.st, e)
  <2>1. Comes(x, deltas, one, two)
    BY <1>3 DEF StreamEvent, StreamGroq, Deltas, Comes, d, e
  <2>2. Streams(one)
    BY <1>1, MoreOpenAIChunksStream
  <2> HIDE DEF one, x
  <2>3. one.st \in Memories
    BY <2>2 DEF Streams
  <2>4. Len(deltas) = 2 => Streams(two)
    BY <1>1, <2>3, MoreOpenAIChunksStream
  <2> HIDE DEF two
  <2>5. Streams(x)
    BY <2>1, <2>2, <2>4, EventStreams
  <2> QED
    BY <2>5 DEF x
<1>4. CASE p = "openrouter"
  <2> DEFINE one == OpenRouterChunk(s, d)
             two == OpenRouterChunk(one.st, e)
  <2>1. Comes(x, deltas, one, two)
    BY <1>4 DEF StreamEvent, StreamOpenRouter, Deltas, Comes, d, e
  <2>2. Streams(one)
    BY <1>1, MoreOpenAIChunksStream
  <2> HIDE DEF one, x
  <2>3. one.st \in Memories
    BY <2>2 DEF Streams
  <2>4. Len(deltas) = 2 => Streams(two)
    BY <1>1, <2>3, MoreOpenAIChunksStream
  <2> HIDE DEF two
  <2>5. Streams(x)
    BY <2>1, <2>2, <2>4, EventStreams
  <2> QED
    BY <2>5 DEF x
<1>5. CASE p = "sglang"
  <2> DEFINE one == SGLangChunk(s, d)
             two == SGLangChunk(one.st, e)
  <2>1. Comes(x, deltas, one, two)
    BY <1>5 DEF StreamEvent, StreamSGLang, Deltas, Comes, d, e
  <2>2. Streams(one)
    BY <1>1, MoreOpenAIChunksStream
  <2> HIDE DEF one, x
  <2>3. one.st \in Memories
    BY <2>2 DEF Streams
  <2>4. Len(deltas) = 2 => Streams(two)
    BY <1>1, <2>3, MoreOpenAIChunksStream
  <2> HIDE DEF two
  <2>5. Streams(x)
    BY <2>1, <2>2, <2>4, EventStreams
  <2> QED
    BY <2>5 DEF x
<1>6. CASE p = "tgi"
  <2> DEFINE one == TGIChunk(s, d)
             two == TGIChunk(one.st, e)
  <2>1. Comes(x, deltas, one, two)
    BY <1>6 DEF StreamEvent, StreamTGI, Deltas, Comes, d, e
  <2>2. Streams(one)
    BY <1>1, MoreOpenAIChunksStream
  <2> HIDE DEF one, x
  <2>3. one.st \in Memories
    BY <2>2 DEF Streams
  <2>4. Len(deltas) = 2 => Streams(two)
    BY <1>1, <2>3, MoreOpenAIChunksStream
  <2> HIDE DEF two
  <2>5. Streams(x)
    BY <2>1, <2>2, <2>4, EventStreams
  <2> QED
    BY <2>5 DEF x
<1>7. CASE p = "deepseek"
  <2> DEFINE one == DeepSeekChunk(s, d)
             two == DeepSeekChunk(one.st, e)
  <2>1. Comes(x, deltas, one, two)
    BY <1>7 DEF StreamEvent, StreamDeepSeek, Deltas, Comes, d, e
  <2>2. Streams(one)
    BY <1>1, MoreOpenAIChunksStream
  <2> HIDE DEF one, x
  <2>3. one.st \in Memories
    BY <2>2 DEF Streams
  <2>4. Len(deltas) = 2 => Streams(two)
    BY <1>1, <2>3, MoreOpenAIChunksStream
  <2> HIDE DEF two
  <2>5. Streams(x)
    BY <2>1, <2>2, <2>4, EventStreams
  <2> QED
    BY <2>5 DEF x
<1>8. CASE p = "mistral"
  <2> DEFINE t == [s EXCEPT !.name = <<>>]
             one == MistralChunk(t, d)
             two == MistralChunk(one.st, e)
  <2>0. t \in Memories
    <3>1. << >> \in Seq(STRING)
      OBVIOUS
    <3> QED
      BY <3>1, RememberName
  <2>1. Comes(x, deltas, one, two)
    BY <1>8 DEF StreamEvent, StreamMistral, Deltas, Comes, d, e
  <2>2. Streams(one)
    BY <1>1, <2>0, MistralChunkStreams
  <2> HIDE DEF one, x
  <2>3. one.st \in Memories
    BY <2>2 DEF Streams
  <2>4. Len(deltas) = 2 => Streams(two)
    BY <1>1, <2>3, MistralChunkStreams
  <2> HIDE DEF two
  <2>5. Streams(x)
    BY <2>1, <2>2, <2>4, EventStreams
  <2> QED
    BY <2>5 DEF x
<1>9. CASE p = "together"
  <2> DEFINE one == TogetherChunk(s, d)
             two == TogetherChunk(one.st, e)
  <2>1. Comes(x, deltas, one, two)
    BY <1>9 DEF StreamEvent, StreamTogether, Deltas, Comes, d, e
  <2>2. Streams(one)
    BY <1>1, ThinkChunkStreams DEF TogetherChunk
  <2> HIDE DEF one, x
  <2>3. one.st \in Memories
    BY <2>2 DEF Streams
  <2>4. Len(deltas) = 2 => Streams(two)
    BY <1>1, <2>3, ThinkChunkStreams DEF TogetherChunk
  <2> HIDE DEF two
  <2>5. Streams(x)
    BY <2>1, <2>2, <2>4, EventStreams
  <2> QED
    BY <2>5 DEF x
<1>10. CASE p = "fireworks"
  <2> DEFINE one == FireworksChunk(s, d)
             two == FireworksChunk(one.st, e)
  <2>1. Comes(x, deltas, one, two)
    BY <1>10 DEF StreamEvent, StreamFireworks, Deltas, Comes, d, e
  <2>2. Streams(one)
    BY <1>1, ThinkChunkStreams DEF FireworksChunk
  <2> HIDE DEF one, x
  <2>3. one.st \in Memories
    BY <2>2 DEF Streams
  <2>4. Len(deltas) = 2 => Streams(two)
    BY <1>1, <2>3, ThinkChunkStreams DEF FireworksChunk
  <2> HIDE DEF two
  <2>5. Streams(x)
    BY <2>1, <2>2, <2>4, EventStreams
  <2> QED
    BY <2>5 DEF x
<1>11. CASE p = "bedrock"
  <2> DEFINE one == BedrockChunk(s, d)
             two == BedrockChunk(one.st, e)
  <2>1. Comes(x, deltas, one, two)
    BY <1>11 DEF StreamEvent, StreamBedrock, Deltas, Comes, d, e
  <2>2. Streams(one)
    BY <1>1, AnthropicChunkStreams
  <2> HIDE DEF one, x
  <2>3. one.st \in Memories
    BY <2>2 DEF Streams
  <2>4. Len(deltas) = 2 => Streams(two)
    BY <1>1, <2>3, AnthropicChunkStreams
  <2> HIDE DEF two
  <2>5. Streams(x)
    BY <2>1, <2>2, <2>4, EventStreams
  <2> QED
    BY <2>5 DEF x
<1>12. CASE p = "anthropic"
  <2> DEFINE one == AnthropicChunk(s, d, discard)
             two == AnthropicChunk(one.st, e, discard)
  <2>1. Comes(x, deltas, one, two)
    BY <1>12 DEF StreamEvent, StreamAnthropic, Deltas, Comes, d, e
  <2>2. Streams(one)
    BY <1>1, AnthropicChunkStreams
  <2> HIDE DEF one, x
  <2>3. one.st \in Memories
    BY <2>2 DEF Streams
  <2>4. Len(deltas) = 2 => Streams(two)
    BY <1>1, <2>3, AnthropicChunkStreams
  <2> HIDE DEF two
  <2>5. Streams(x)
    BY <2>1, <2>2, <2>4, EventStreams
  <2> QED
    BY <2>5 DEF x
<1>13. CASE p = "vertex_anthropic"
  <2> DEFINE one == VertexAnthropicChunk(s, d, discard)
             two == VertexAnthropicChunk(one.st, e, discard)
  <2>1. Comes(x, deltas, one, two)
    BY <1>13 DEF StreamEvent, StreamVertexAnthropic, Deltas, Comes, d, e
  <2>2. Streams(one)
    BY <1>1, AnthropicChunkStreams
  <2> HIDE DEF one, x
  <2>3. one.st \in Memories
    BY <2>2 DEF Streams
  <2>4. Len(deltas) = 2 => Streams(two)
    BY <1>1, <2>3, AnthropicChunkStreams
  <2> HIDE DEF two
  <2>5. Streams(x)
    BY <2>1, <2>2, <2>4, EventStreams
  <2> QED
    BY <2>5 DEF x
<1>14. CASE p = "vertex_gemini"
  <2> DEFINE one == VertexGeminiChunk(s, d, discard)
             two == VertexGeminiChunk(one.st, e, discard)
  <2>1. Comes(x, deltas, one, two)
    BY <1>14 DEF StreamEvent, StreamVertexGemini, Deltas, Comes, d, e
  <2>2. Streams(one)
    BY <1>1, GeminiChunkStreams
  <2> HIDE DEF one, x
  <2>3. one.st \in Memories
    BY <2>2 DEF Streams
  <2>4. Len(deltas) = 2 => Streams(two)
    BY <1>1, <2>3, GeminiChunkStreams
  <2> HIDE DEF two
  <2>5. Streams(x)
    BY <2>1, <2>2, <2>4, EventStreams
  <2> QED
    BY <2>5 DEF x
<1>15. CASE p = "studio"
  <2> DEFINE one == StudioChunk(s, d, discard)
             two == StudioChunk(one.st, e, discard)
  <2>1. Comes(x, deltas, one, two)
    BY <1>15 DEF StreamEvent, StreamStudio, Deltas, Comes, d, e
  <2>2. Streams(one)
    BY <1>1, StudioChunkStreams
  <2> HIDE DEF one, x
  <2>3. one.st \in Memories
    BY <2>2 DEF Streams
  <2>4. Len(deltas) = 2 => Streams(two)
    BY <1>1, <2>3, StudioChunkStreams
  <2> HIDE DEF two
  <2>5. Streams(x)
    BY <2>1, <2>2, <2>4, EventStreams
  <2> QED
    BY <2>5 DEF x
<1> QED
  BY <1>2, <1>3, <1>4, <1>5, <1>6, <1>7, <1>8, <1>9, <1>10, <1>11, <1>12, <1>13, <1>14, <1>15

-----------------------------------------------------------------------------
(***************************************************************************)
(* What the chunks add up to                                                *)
(***************************************************************************)
\* The loop that collects chunks computes some function.
LEMMA CollectRoundsExist ==
    ASSUME NEW blocks, NEW s, NEW n \in Nat
    PROVE  \E f : AreCollectRounds(f, blocks, s, n)
<1> DEFINE T == {k \in Nat : ~\E f : AreCollectRounds(f, blocks, s, k)}
<1> SUFFICES ASSUME T # {}
             PROVE  FALSE
  OBVIOUS
<1>1. PICK k \in T : \A j \in T : k <= j
  BY Least
<1>2. k # 0
  <2>1. AreCollectRounds([i \in 0 .. 0 |-> blocks], blocks, s, 0)
    BY DEF AreCollectRounds
  <2> QED
    BY <2>1
<1>3. PICK f : AreCollectRounds(f, blocks, s, k - 1)
  BY <1>1, <1>2
<1> DEFINE h == [i \in 0 .. k |-> IF i = k THEN Collect(f[k - 1], s[k]) ELSE f[i]]
<1>4. \A i \in 0 .. k : h[i] = IF i = 0 THEN blocks ELSE Collect(h[i - 1], s[i])
  BY <1>1, <1>2, <1>3 DEF AreCollectRounds
<1>5. AreCollectRounds(h, blocks, s, k)
  BY <1>4 DEF AreCollectRounds
<1> QED
  BY <1>1, <1>5

\* One round: the next chunk is collected.
LEMMA CollectRoundsUnfold ==
    ASSUME NEW blocks, NEW s, Len(s) \in Nat
    PROVE  /\ CollectRounds(blocks, s)[0] = blocks
           /\ \A i \in 1 .. Len(s) : CollectRounds(blocks, s)[i] = Collect(CollectRounds(blocks, s)[i - 1], s[i])
<1> DEFINE f == CollectRounds(blocks, s)
           n == Len(s)
           v(i) == IF i = 0 THEN blocks ELSE Collect(f[i - 1], s[i])
<1>1. AreCollectRounds(f, blocks, s, n)
  <2>1. PICK g : AreCollectRounds(g, blocks, s, n)
    <3>1. n \in Nat
      OBVIOUS
    <3> HIDE DEF n
    <3> QED
      BY <3>1, CollectRoundsExist
  <2> QED
    BY <2>1 DEF CollectRounds, AreCollectRounds
<1> HIDE DEF f
<1>2. f = [i \in 0 .. n |-> v(i)]
  BY <1>1 DEF AreCollectRounds
<1> HIDE DEF v
<1>3. \A i \in 0 .. n : f[i] = v(i)
  BY <1>2
<1>4. \A i \in 1 .. n : i \in 0 .. n /\ i # 0
  OBVIOUS
<1>5. 0 \in 0 .. n
  OBVIOUS
<1> QED
  BY <1>3, <1>4, <1>5 DEF f, v

\* The loop that numbers calls computes some function.
LEMMA ToolRoundsExist ==
    ASSUME NEW ids, NEW s, NEW n \in Nat
    PROVE  \E f : AreToolRounds(f, ids, s, n)
<1> DEFINE T == {k \in Nat : ~\E f : AreToolRounds(f, ids, s, k)}
<1> SUFFICES ASSUME T # {}
             PROVE  FALSE
  OBVIOUS
<1>1. PICK k \in T : \A j \in T : k <= j
  BY Least
<1>2. k # 0
  <2>1. AreToolRounds([i \in 0 .. 0 |-> [ids |-> ids, chunks |-> << >>]], ids, s, 0)
    BY DEF AreToolRounds
  <2> QED
    BY <2>1
<1>3. PICK f : AreToolRounds(f, ids, s, k - 1)
  BY <1>1, <1>2
<1> DEFINE h == [i \in 0 .. k |-> IF i = k THEN NextTool(f[k - 1], s[k]) ELSE f[i]]
<1>4. \A i \in 0 .. k : h[i] = IF i = 0 THEN [ids |-> ids, chunks |-> << >>] ELSE NextTool(h[i - 1], s[i])
  BY <1>1, <1>2, <1>3 DEF AreToolRounds
<1>5. AreToolRounds(h, ids, s, k)
  BY <1>4 DEF AreToolRounds
<1> QED
  BY <1>1, <1>5

\* One round: the next call is numbered.
LEMMA ToolRoundsUnfold ==
    ASSUME NEW ids, NEW s, Len(s) \in Nat
    PROVE  /\ ToolRounds(ids, s)[0] = [ids |-> ids, chunks |-> << >>]
           /\ \A i \in 1 .. Len(s) : ToolRounds(ids, s)[i] = NextTool(ToolRounds(ids, s)[i - 1], s[i])
<1> DEFINE f == ToolRounds(ids, s)
           n == Len(s)
           v(i) == IF i = 0 THEN [ids |-> ids, chunks |-> << >>] ELSE NextTool(f[i - 1], s[i])
<1>1. AreToolRounds(f, ids, s, n)
  <2>1. PICK g : AreToolRounds(g, ids, s, n)
    <3>1. n \in Nat
      OBVIOUS
    <3> HIDE DEF n
    <3> QED
      BY <3>1, ToolRoundsExist
  <2> QED
    BY <2>1 DEF ToolRounds, AreToolRounds
<1> HIDE DEF f
<1>2. f = [i \in 0 .. n |-> v(i)]
  BY <1>1 DEF AreToolRounds
<1> HIDE DEF v
<1>3. \A i \in 0 .. n : f[i] = v(i)
  BY <1>2
<1>4. \A i \in 1 .. n : i \in 0 .. n /\ i # 0
  OBVIOUS
<1>5. 0 \in 0 .. n
  OBVIOUS
<1> QED
  BY <1>3, <1>4, <1>5 DEF f, v

\* The loop that receives calls computes some function.
LEMMA ReceiveRoundsExist ==
    ASSUME NEW calls, NEW s, NEW n \in Nat
    PROVE  \E f : AreReceiveRounds(f, calls, s, n)
<1> DEFINE T == {k \in Nat : ~\E f : AreReceiveRounds(f, calls, s, k)}
<1> SUFFICES ASSUME T # {}
             PROVE  FALSE
  OBVIOUS
<1>1. PICK k \in T : \A j \in T : k <= j
  BY Least
<1>2. k # 0
  <2>1. AreReceiveRounds([i \in 0 .. 0 |-> calls], calls, s, 0)
    BY DEF AreReceiveRounds
  <2> QED
    BY <2>1
<1>3. PICK f : AreReceiveRounds(f, calls, s, k - 1)
  BY <1>1, <1>2
<1> DEFINE h == [i \in 0 .. k |-> IF i = k THEN ReceiveCall(f[k - 1], s[k]) ELSE f[i]]
<1>4. \A i \in 0 .. k : h[i] = IF i = 0 THEN calls ELSE ReceiveCall(h[i - 1], s[i])
  BY <1>1, <1>2, <1>3 DEF AreReceiveRounds
<1>5. AreReceiveRounds(h, calls, s, k)
  BY <1>4 DEF AreReceiveRounds
<1> QED
  BY <1>1, <1>5

\* One round: the next call is received.
LEMMA ReceiveRoundsUnfold ==
    ASSUME NEW calls, NEW s, Len(s) \in Nat
    PROVE  /\ ReceiveRounds(calls, s)[0] = calls
           /\ \A i \in 1 .. Len(s) : ReceiveRounds(calls, s)[i] = ReceiveCall(ReceiveRounds(calls, s)[i - 1], s[i])
<1> DEFINE f == ReceiveRounds(calls, s)
           n == Len(s)
           v(i) == IF i = 0 THEN calls ELSE ReceiveCall(f[i - 1], s[i])
<1>1. AreReceiveRounds(f, calls, s, n)
  <2>1. PICK g : AreReceiveRounds(g, calls, s, n)
    <3>1. n \in Nat
      OBVIOUS
    <3> HIDE DEF n
    <3> QED
      BY <3>1, ReceiveRoundsExist
  <2> QED
    BY <2>1 DEF ReceiveRounds, AreReceiveRounds
<1> HIDE DEF f
<1>2. f = [i \in 0 .. n |-> v(i)]
  BY <1>1 DEF AreReceiveRounds
<1> HIDE DEF v
<1>3. \A i \in 0 .. n : f[i] = v(i)
  BY <1>2
<1>4. \A i \in 1 .. n : i \in 0 .. n /\ i # 0
  OBVIOUS
<1>5. 0 \in 0 .. n
  OBVIOUS
<1> QED
  BY <1>3, <1>4, <1>5 DEF f, v

\* The start of the JSON is put in front of the first chunk.
LEMMA PrefillChunkType ==
    ASSUME NEW content \in Seq(Blocks)
    PROVE  PrefillChunk(content) \in Seq(Blocks)
<1> DEFINE brace == <<"brace">>
           body == content[1].body
           a == TextChunk(0, brace)
           b == TextChunk(0, brace \o body)
           x == PrefillChunk(content)
<1>1. x = <<a>> \/ x = content \/ (content # << >> /\ x = <<b>>)
  <2> HIDE DEF a, b
  <2>1. CASE content = << >>
    BY <2>1 DEF PrefillChunk, a
  <2>2. CASE content # << >> /\ Len(content) = 1 /\ content[1].type = "text"
    BY <2>2 DEF PrefillChunk, b
  <2>3. CASE content # << >> /\ ~(Len(content) = 1 /\ content[1].type = "text")
    BY <2>3 DEF PrefillChunk
  <2> QED
    BY <2>1, <2>2, <2>3
<1>2. brace \in Seq(Words) /\ << >> \in Seq(STRING) /\ 0 \in Nat
  <2>1. "brace" \in Words
    BY DEF Words, Written
  <2> QED
    BY <2>1
<1> HIDE DEF brace, x
<1>3. CASE x = <<a>>
  <2>1. a \in Blocks
    BY <1>2, ChunkType
  <2> HIDE DEF a
  <2> QED
    BY <1>3, <2>1 DEF x
<1>4. CASE content # << >> /\ x = <<b>>
  <2>1. content[1] \in Blocks
    BY <1>4
  <2>2. body \in Seq(Words)
    BY <2>1 DEF Blocks, BlocksOf
  <2> HIDE DEF body
  <2>3. brace \o body \in Seq(Words)
    BY <1>2, <2>2
  <2>4. b \in Blocks
    BY <1>2, <2>3, ChunkType
  <2> HIDE DEF b
  <2> QED
    BY <1>4, <2>4 DEF x
<1> QED
  BY <1>1, <1>3, <1>4 DEF x

\* A block with more of its name, body and signature.
LEMMA ExtendedType ==
    ASSUME NEW types, NEW b \in BlocksOf(types), NEW name \in Seq(STRING), NEW body \in Seq(Words), NEW sig \in Seq(STRING)
    PROVE  Extended(b, name, body, sig) \in BlocksOf(types)
<1> DEFINE n == b.name \o name
           d == b.body \o body
           g == b.sig \o sig
<1>1. b = [type |-> b.type, id |-> b.id, name |-> b.name, body |-> b.body, sig |-> b.sig]
  BY DEF BlocksOf
<1>2. n \in Seq(STRING) /\ d \in Seq(Words) /\ g \in Seq(STRING) /\ b.type \in types /\ b.id \in Nat
  BY DEF BlocksOf
<1>3. Extended(b, name, body, sig) = [b EXCEPT !.name = n, !.body = d, !.sig = g]
  BY DEF Extended
<1> HIDE DEF n, d, g
<1>4. Extended(b, name, body, sig) = [type |-> b.type, id |-> b.id, name |-> n, body |-> d, sig |-> g]
  BY <1>1, <1>3
<1> QED
  BY <1>2, <1>4 DEF BlocksOf

\* A list with another element in one place.
LEMMA ReplaceOne ==
    ASSUME NEW X, NEW s \in Seq(X), NEW k, NEW v, k \in DOMAIN s => v \in X, NEW t, t = [s EXCEPT ![k] = v]
    PROVE  t \in Seq(X)
<1>1. DOMAIN t = 1 .. Len(s) /\ Len(s) \in Nat
  OBVIOUS
<1>2. \A i \in 1 .. Len(s) : t[i] \in X
  OBVIOUS
<1>3. t = [i \in 1 .. Len(s) |-> t[i]]
  BY <1>1
<1>4. t \in [1 .. Len(s) -> X]
  BY <1>2, <1>3
<1> QED
  BY <1>1, <1>4

\* A chunk is collected into blocks.
LEMMA CollectType ==
    ASSUME NEW blocks \in Seq(Blocks), NEW chunk \in Blocks
    PROVE  Collect(blocks, chunk) \in Seq(Blocks)
<1> DEFINE at == {i \in DOMAIN blocks : blocks[i].type = chunk.type /\ blocks[i].id = chunk.id}
           k == Min(at)
           b == blocks[k]
           v == Extended(b, chunk.name, chunk.body, chunk.sig)
           more == [blocks EXCEPT ![k] = v]
           x == Collect(blocks, chunk)
<1>1. x \in {more, blocks, Append(blocks, chunk)}
  <2> HIDE DEF more
  <2>1. CASE at # {}
    <3>1. x = more
      BY <2>1 DEF Collect, more
    <3> QED
      BY <3>1
  <2>2. CASE at = {} /\ chunk.type # "tool_call" /\ chunk.body = <<>> /\ chunk.sig = <<>>
    BY <2>2 DEF Collect
  <2>3. CASE at = {} /\ ~(chunk.type # "tool_call" /\ chunk.body = <<>> /\ chunk.sig = <<>>)
    BY <2>3 DEF Collect
  <2> QED
    BY <2>1, <2>2, <2>3
<1>2. ASSUME k \in DOMAIN blocks PROVE v \in Blocks
  <2>1. b \in Blocks
    BY <1>2
  <2>2. chunk.name \in Seq(STRING) /\ chunk.body \in Seq(Words) /\ chunk.sig \in Seq(STRING)
    BY DEF Blocks, BlocksOf
  <2> HIDE DEF b
  <2> QED
    BY <2>1, <2>2, ExtendedType DEF Blocks
<1> HIDE DEF k, v, x
<1>3. more \in Seq(Blocks)
  BY <1>2, ReplaceOne
<1> HIDE DEF more
<1> QED
  BY <1>1, <1>3 DEF x

\* The chunks of an event are collected into blocks.
LEMMA CollectAllType ==
    ASSUME NEW blocks \in Seq(Blocks), NEW content \in Seq(Blocks)
    PROVE  CollectAll(blocks, content) \in Seq(Blocks)
<1> DEFINE f == CollectRounds(blocks, content)
           n == Len(content)
           S == {k \in 0 .. n : f[k] \in Seq(Blocks)}
<1>1. n \in Nat
  OBVIOUS
<1>2. f[0] = blocks /\ \A i \in 1 .. n : f[i] = Collect(f[i - 1], content[i])
  BY <1>1, CollectRoundsUnfold
<1> HIDE DEF f
<1>3. 0 \in S
  BY <1>1, <1>2
<1>4. ASSUME NEW i \in 1 .. n, i - 1 \in S PROVE i \in S
  <2> DEFINE before == f[i - 1]
             chunk == content[i]
  <2>1. before \in Seq(Blocks) /\ chunk \in Blocks /\ f[i] = Collect(before, chunk) /\ i \in 0 .. n
    BY <1>1, <1>2, <1>4
  <2> HIDE DEF before, chunk
  <2>2. f[i] \in Seq(Blocks)
    BY <2>1, CollectType
  <2> QED
    BY <2>1, <2>2
<1>5. \A i \in 0 .. n : i \in S
  <2> HIDE DEF S, n
  <2> QED
    BY <1>1, <1>3, <1>4, Rounds
<1> QED
  BY <1>1, <1>5 DEF CollectAll, f

\* A text or a thought of a JSON function is added to the blocks.
LEMMA AddToType ==
    ASSUME NEW content \in Seq(Blocks), NEW z \in Blocks
    PROVE  AddTo(content, z) \in Seq(Blocks)
<1> DEFINE at == {i \in DOMAIN content : content[i].type = z.type}
           k == Min(at)
           b == content[k]
           none == << >>
           v == Extended(b, none, z.body, none)
           more == [content EXCEPT ![k] = v]
           x == AddTo(content, z)
<1>1. x \in {more, Append(content, z)}
  <2> HIDE DEF more
  <2>1. CASE at # {}
    <3>1. x = more
      BY <2>1 DEF AddTo, more
    <3> QED
      BY <3>1
  <2>2. CASE at = {}
    BY <2>2 DEF AddTo
  <2> QED
    BY <2>1, <2>2
<1>2. ASSUME k \in DOMAIN content PROVE v \in Blocks
  <2>1. b \in Blocks
    BY <1>2
  <2>2. none \in Seq(STRING) /\ z.body \in Seq(Words)
    BY DEF Blocks, BlocksOf
  <2> HIDE DEF b, none
  <2> QED
    BY <2>1, <2>2, ExtendedType DEF Blocks
<1> HIDE DEF k, v, x
<1>3. more \in Seq(Blocks)
  BY <1>2, ReplaceOne
<1> HIDE DEF more
<1> QED
  BY <1>1, <1>3 DEF x

\* The body of the last block of some types.
LEMMA LastBody ==
    ASSUME NEW content \in Seq(Blocks), NEW types, OfType(content, types) # << >>
    PROVE  Last(OfType(content, types)).body \in Seq(Words)
<1> DEFINE s == OfType(content, types)
<1>1. s \in Seq(Blocks)
  BY OfTypeIs
<1> HIDE DEF s
<1>2. Last(s) \in Blocks
  <2>1. s # << >>
    BY DEF s
  <2> QED
    BY <1>1, <2>1 DEF Last
<1> DEFINE b == Last(s)
<1> HIDE DEF b
<1>3. b.body \in Seq(Words)
  BY <1>2 DEF b, Blocks, BlocksOf
<1> QED
  BY <1>3 DEF b, s

\* The chunk of a JSON function has at most one body, and a thought.
LEMMA JsonChunkType ==
    ASSUME NEW content \in Seq(Blocks)
    PROVE  /\ JsonChunk(content).raw \in Seq(Seq(Words)) /\ JsonChunk(content).thought \in Seq(Words)
           /\ JsonChunk(content).raw # << >> => JsonChunk(content).raw[1] \in Seq(Words)
<1> DEFINE raw == OfType(content, {"text", "tool_call"})
           thoughts == OfType(content, {"thought"})
           a == Last(raw).body
           b == Last(thoughts).body
           x == JsonChunk(content)
<1>1. x.raw = (IF raw = <<>> THEN <<>> ELSE <<a>>) /\ x.thought = IF thoughts = <<>> THEN <<>> ELSE b
  BY DEF JsonChunk
<1>2. (raw # << >> => a \in Seq(Words)) /\ (thoughts # << >> => b \in Seq(Words))
  BY LastBody
<1>3. << >> \in Seq(Seq(Words)) /\ << >> \in Seq(Words)
  OBVIOUS
<1> HIDE DEF raw, thoughts, a, b, x
<1>4. x.thought \in Seq(Words)
  BY <1>1, <1>2, <1>3
<1>5. CASE raw = << >>
  BY <1>1, <1>3, <1>4, <1>5 DEF x
<1>6. CASE raw # << >>
  <2>1. x.raw = <<a>> /\ a \in Seq(Words)
    BY <1>1, <1>2, <1>6
  <2>2. x.raw \in Seq(Seq(Words)) /\ x.raw[1] = a
    BY <2>1
  <2> QED
    BY <1>4, <2>1, <2>2 DEF x
<1> QED
  BY <1>5, <1>6

\* The chunk of a JSON function is collected into blocks.
LEMMA CollectJsonType ==
    ASSUME NEW blocks \in Seq(Blocks), NEW content \in Seq(Blocks)
    PROVE  CollectJson(blocks, JsonChunk(content)) \in Seq(Blocks)
<1> DEFINE chunk == JsonChunk(content)
           raw == chunk.raw
           thought == chunk.thought
           t == Text(raw[1])
           u == Thought(thought, <<>>)
           texted == IF raw = <<>> THEN blocks ELSE AddTo(blocks, t)
           x == CollectJson(blocks, chunk)
<1>1. thought \in Seq(Words) /\ (raw # << >> => raw[1] \in Seq(Words))
  BY JsonChunkType
<1>2. x = IF thought = <<>> THEN texted ELSE AddTo(texted, u)
  BY DEF CollectJson
<1> HIDE DEF thought, raw, x
<1>3. texted \in Seq(Blocks)
  <2>1. CASE raw = << >>
    BY <2>1
  <2>2. CASE raw # << >>
    <3>1. t \in Blocks
      BY <1>1, <2>2, TextType
    <3> HIDE DEF t
    <3>2. AddTo(blocks, t) \in Seq(Blocks)
      BY <3>1, AddToType
    <3> QED
      BY <2>2, <3>2
  <2> QED
    BY <2>1, <2>2
<1> HIDE DEF texted
<1>4. u \in Blocks
  <2>1. << >> \in Seq(STRING)
    OBVIOUS
  <2> QED
    BY <1>1, <2>1, ThoughtType
<1> HIDE DEF u
<1>5. AddTo(texted, u) \in Seq(Blocks)
  BY <1>3, <1>4, AddToType
<1> QED
  BY <1>2, <1>3, <1>5 DEF x

-----------------------------------------------------------------------------
(***************************************************************************)
(* What a client of the OpenAI-compatible endpoint receives                 *)
(***************************************************************************)
\* A call is numbered by the place of its id.
LEMMA NextToolCounts ==
    ASSUME NEW r, Counted(r), NEW b \in Blocks
    PROVE  Counted(NextTool(r, b))
<1> DEFINE ids == r.ids
           chunks == r.chunks
           id == b.id
           known == b.id \in ToSet(ids)
           next == IF known THEN ids ELSE Append(ids, b.id)
           at == Places(next, b.id)
           k == Min(at)
           sentId == IF known THEN 0 ELSE b.id
           c == IndexedCall(sentId, b.name, b.body, k)
           x == NextTool(r, b)
<1>1. ids \in Seq(Nat) /\ chunks \in Seq(Indexed)
  BY DEF Counted
<1>2. x.ids = next /\ x.chunks = Append(chunks, c)
  BY DEF NextTool, ToolChunk
<1>3. b.id \in Nat /\ b.name \in Seq(STRING) /\ b.body \in Seq(Words)
  BY DEF Blocks, BlocksOf
<1> HIDE DEF ids, chunks, x
<1>4. next \in Seq(Nat)
  BY <1>1, <1>3
<1>5. at # {}
  <2>1. CASE known
    <3>1. PICK i \in DOMAIN ids : ids[i] = b.id
      BY <2>1 DEF ToSet
    <3> QED
      BY <2>1, <3>1 DEF Places
  <2>2. CASE ~known
    <3>1. Len(ids) + 1 \in DOMAIN next /\ next[Len(ids) + 1] = b.id
      BY <1>1, <1>3, <2>2
    <3> QED
      BY <3>1 DEF Places
  <2> QED
    BY <2>1, <2>2
<1>6. at \subseteq Nat
  BY <1>4 DEF Places
<1>7. sentId \in Nat
  BY <1>3
<1> HIDE DEF at, next, sentId
<1>8. k \in Nat
  BY <1>5, <1>6, MinIn
<1> HIDE DEF k
<1>9. c \in Indexed
  BY <1>3, <1>7, <1>8 DEF IndexedCall, Indexed
<1> HIDE DEF c
<1>10. Append(chunks, c) \in Seq(Indexed)
  BY <1>1, <1>9
<1>11. Counted(x)
  BY <1>2, <1>4, <1>10 DEF Counted
<1> QED
  BY <1>11 DEF x

\* The calls of a chunk are numbered.
LEMMA ToolChunksCount ==
    ASSUME NEW ids \in Seq(Nat), NEW calls \in Seq(Blocks)
    PROVE  Counted(ToolChunks(ids, calls))
<1> DEFINE f == ToolRounds(ids, calls)
           n == Len(calls)
           start == [ids |-> ids, chunks |-> << >>]
           S == {k \in 0 .. n : Counted(f[k])}
<1>1. n \in Nat
  OBVIOUS
<1>2. f[0] = start /\ \A i \in 1 .. n : f[i] = NextTool(f[i - 1], calls[i])
  BY <1>1, ToolRoundsUnfold
<1> HIDE DEF f
<1>3. 0 \in S
  <2>1. << >> \in Seq(Indexed)
    OBVIOUS
  <2>2. Counted(start)
    BY <2>1 DEF Counted
  <2> QED
    BY <1>1, <1>2, <2>2
<1>4. ASSUME NEW i \in 1 .. n, i - 1 \in S PROVE i \in S
  <2> DEFINE before == f[i - 1]
             b == calls[i]
  <2>1. Counted(before) /\ b \in Blocks /\ f[i] = NextTool(before, b) /\ i \in 0 .. n
    BY <1>1, <1>2, <1>4
  <2> HIDE DEF before, b
  <2>2. Counted(f[i])
    BY <2>1, NextToolCounts
  <2> QED
    BY <2>1, <2>2
<1>5. \A i \in 0 .. n : i \in S
  <2> HIDE DEF S, n
  <2> QED
    BY <1>1, <1>3, <1>4, Rounds
<1> QED
  BY <1>1, <1>5 DEF ToolChunks, f

\* The client adds to a call it has, or has one more.
LEMMA ReceiveCallType ==
    ASSUME NEW calls \in Seq(Calls), NEW c \in Indexed
    PROVE  ReceiveCall(calls, c) \in Seq(Calls)
<1> DEFINE k == c.index
           b == calls[k]
           none == << >>
           v == Extended(b, c.name, c.body, none)
           more == [calls EXCEPT ![k] = v]
           new == Block("tool_call", c.id, c.name, c.body, none)
           x == ReceiveCall(calls, c)
<1>1. x \in {more, Append(calls, new)}
  <2> HIDE DEF more, new
  <2>1. CASE k \in DOMAIN calls
    <3>1. x = more
      BY <2>1 DEF ReceiveCall, more
    <3> QED
      BY <3>1
  <2>2. CASE k \notin DOMAIN calls
    BY <2>2 DEF ReceiveCall, new
  <2> QED
    BY <2>1, <2>2
<1>2. c.id \in Nat /\ c.name \in Seq(STRING) /\ c.body \in Seq(Words) /\ none \in Seq(STRING)
  BY DEF Indexed
<1>3. new \in Calls
  BY <1>2 DEF Calls, Block, BlocksOf
<1>4. ASSUME k \in DOMAIN calls PROVE v \in Calls
  <2>1. b \in Calls
    BY <1>4
  <2> HIDE DEF b, none
  <2> QED
    BY <1>2, <2>1, ExtendedType DEF Calls
<1> HIDE DEF k, v, x, new
<1>5. more \in Seq(Calls)
  BY <1>4, ReplaceOne
<1> HIDE DEF more
<1>6. Append(calls, new) \in Seq(Calls)
  BY <1>3
<1> QED
  BY <1>1, <1>5, <1>6 DEF x

\* The client puts together calls.
LEMMA ReceiveRoundsType ==
    ASSUME NEW calls \in Seq(Calls), NEW chunks \in Seq(Indexed)
    PROVE  ReceiveRounds(calls, chunks)[Len(chunks)] \in Seq(Calls)
<1> DEFINE f == ReceiveRounds(calls, chunks)
           n == Len(chunks)
           S == {k \in 0 .. n : f[k] \in Seq(Calls)}
<1>1. n \in Nat
  OBVIOUS
<1>2. f[0] = calls /\ \A i \in 1 .. n : f[i] = ReceiveCall(f[i - 1], chunks[i])
  BY <1>1, ReceiveRoundsUnfold
<1> HIDE DEF f
<1>3. 0 \in S
  BY <1>1, <1>2
<1>4. ASSUME NEW i \in 1 .. n, i - 1 \in S PROVE i \in S
  <2> DEFINE before == f[i - 1]
             c == chunks[i]
  <2>1. before \in Seq(Calls) /\ c \in Indexed /\ f[i] = ReceiveCall(before, c) /\ i \in 0 .. n
    BY <1>1, <1>2, <1>4
  <2> HIDE DEF before, c
  <2>2. f[i] \in Seq(Calls)
    BY <2>1, ReceiveCallType
  <2> QED
    BY <2>1, <2>2
<1>5. \A i \in 0 .. n : i \in S
  <2> HIDE DEF S, n
  <2> QED
    BY <1>1, <1>3, <1>4, Rounds
<1> QED
  BY <1>1, <1>5 DEF f

\* The chunk of the OpenAI-compatible endpoint.
LEMMA OpenAICompatibleChunkType ==
    ASSUME NEW r, NEW ids \in Seq(Nat), NEW content \in Seq(Blocks)
    PROVE  OpenAIChunks(OpenAICompatibleChunk(r, ids, content))
<1> DEFINE x == OpenAICompatibleChunk(r, ids, content)
<1>1. CASE r.function = "json"
  <2> DEFINE raw == JsonChunk(content).raw
  <2>1. Flatten(raw) \in Seq(Words)
    <3>1. raw \in Seq(Seq(Words))
      BY JsonChunkType
    <3> HIDE DEF raw
    <3> QED
      BY <3>1, FlattenType
  <2>2. << >> \in Seq(Indexed)
    OBVIOUS
  <2>3. x.ids = ids /\ x.text = Flatten(raw) /\ x.calls = << >>
    BY <1>1 DEF OpenAICompatibleChunk
  <2> HIDE DEF x, raw
  <2>4. OpenAIChunks(x)
    BY <2>1, <2>2, <2>3 DEF OpenAIChunks
  <2> QED
    BY <2>4 DEF x
<1>2. CASE r.function # "json"
  <2> DEFINE calls == OfType(content, {"tool_call"})
             tools == ToolChunks(ids, calls)
             text == Pieces(content, "text")
  <2>1. calls \in Seq(Blocks)
    BY OfTypeIs
  <2>2. text \in Seq(Words)
    BY PiecesType
  <2>3. x.ids = tools.ids /\ x.text = text /\ x.calls = tools.chunks
    BY <1>2 DEF OpenAICompatibleChunk, ProcessChatContentChunk
  <2> HIDE DEF calls, text, x
  <2>4. Counted(tools)
    BY <2>1, ToolChunksCount
  <2> HIDE DEF tools
  <2>5. OpenAIChunks(x)
    BY <2>2, <2>3, <2>4 DEF OpenAIChunks, Counted
  <2> QED
    BY <2>5 DEF x
<1> QED
  BY <1>1, <1>2

\* What the client has put together after an event.
LEMMA PrepareEventsType ==
    ASSUME NEW r \in Receipts, NEW c, NEW chunk, NEW content \in Seq(Blocks)
    PROVE  PrepareEvents(r, c, chunk, content) \in Receipts
<1> DEFINE ids == r.ids
           x == OpenAICompatibleChunk(c, ids, content)
           calls == r.calls
           chunks == x.calls
           y == Receive(r, x)
<1>1. ids \in Seq(Nat) /\ calls \in Seq(Calls) /\ r.text \in Seq(Words)
  BY DEF Receipts
<1>2. OpenAIChunks(x)
  <2> HIDE DEF ids
  <2> QED
    BY <1>1, OpenAICompatibleChunkType
<1> HIDE DEF x
<1>3. chunks \in Seq(Indexed) /\ x.ids \in Seq(Nat) /\ x.text \in Seq(Words)
  BY <1>2 DEF OpenAIChunks
<1> DEFINE all == ReceiveRounds(calls, chunks)[Len(chunks)]
           said == r.text \o x.text
<1>4. y = [ids |-> x.ids, text |-> said, calls |-> all]
  BY DEF Receive
<1>5. said \in Seq(Words)
  BY <1>1, <1>3
<1> HIDE DEF calls, chunks, y, said
<1>6. all \in Seq(Calls)
  BY <1>1, <1>3, ReceiveRoundsType
<1> HIDE DEF all
<1>7. y \in Receipts
  BY <1>3, <1>4, <1>5, <1>6 DEF Receipts
<1> QED
  BY <1>7 DEF PrepareEvents, y, x, ids

-----------------------------------------------------------------------------
(***************************************************************************)
(* The events of a stream                                                   *)
(***************************************************************************)
\* A delta is made of its fields.
LEMMA DeltaType ==
    ASSUME NEW type \in DeltaTypes, NEW of \in BlockTypes \cup {"signal"}, NEW index \in Nat, NEW id \in Nat,
           NEW name \in Seq(STRING), NEW body \in Seq(Words), NEW sig \in Seq(STRING)
    PROVE  Delta(type, of, index, id, name, body, sig) \in DeltaSet
BY DEF Delta, DeltaSet

\* A signal is a delta.
LEMMA SignalType ==
    ASSUME NEW type \in DeltaTypes
    PROVE  Signal(type) \in DeltaSet
<1>1. << >> \in Seq(STRING) /\ << >> \in Seq(Words) /\ "signal" \in BlockTypes \cup {"signal"} /\ 0 \in Nat
  OBVIOUS
<1> QED
  BY <1>1, DeltaType DEF Signal

\* A list made of a list, element by element.
LEMMA MadeOf ==
    ASSUME NEW X, NEW Y, NEW s \in Seq(Y), NEW t, DOMAIN t = DOMAIN s, t = [i \in DOMAIN s |-> t[i]],
           \A i \in DOMAIN s : t[i] \in X
    PROVE  t \in Seq(X)
<1>1. DOMAIN s = 1 .. Len(s) /\ Len(s) \in Nat
  OBVIOUS
<1>2. t \in [1 .. Len(s) -> X]
  BY <1>1
<1> QED
  BY <1>1, <1>2

\* The fields of a block.
LEMMA BlockIs ==
    ASSUME NEW b \in Blocks
    PROVE  /\ b.type \in BlockTypes /\ b.type \in DeltaTypes /\ b.type \in BlockTypes \cup {"signal"}
           /\ b.id \in Nat /\ b.name \in Seq(STRING) /\ b.body \in Seq(Words) /\ b.sig \in Seq(STRING)
BY DEF Blocks, BlocksOf, DeltaTypes

\* The empty list is a list of anything.
LEMMA NothingTypes ==
    /\ << >> \in Seq(STRING) /\ << >> \in Seq(Words) /\ << >> \in Seq(DeltaSet) /\ << >> \in Seq(Blocks)
    /\ 0 \in Nat
OBVIOUS

\* The pieces of a block are deltas.
LEMMA PiecesOfType ==
    ASSUME NEW b \in Blocks, NEW type \in DeltaTypes, NEW index \in Nat
    PROVE  PiecesOf(b, type, index) \in Seq(DeltaSet)
<1> DEFINE t == PiecesOf(b, type, index)
           body == b.body
<1>1. t = [i \in DOMAIN body |-> Delta(type, b.type, index, 0, <<>>, <<body[i]>>, <<>>)]
  BY DEF PiecesOf
<1>2. body \in Seq(Words) /\ b.type \in BlockTypes \cup {"signal"}
  BY BlockIs
<1> HIDE DEF t, body
<1>3. ASSUME NEW i \in DOMAIN body PROVE t[i] \in DeltaSet
  <2> DEFINE one == <<body[i]>>
  <2>1. one \in Seq(Words)
    BY <1>2
  <2> HIDE DEF one
  <2>2. Delta(type, b.type, index, 0, <<>>, one, <<>>) \in DeltaSet
    BY <1>2, <2>1, NothingTypes, DeltaType
  <2> QED
    BY <1>1, <2>2 DEF one
<1>4. t \in Seq(DeltaSet)
  <2>1. DOMAIN t = DOMAIN body /\ t = [i \in DOMAIN body |-> t[i]]
    BY <1>1
  <2> QED
    BY <1>2, <1>3, <2>1, MadeOf
<1> QED
  BY <1>4 DEF t

\* The events of a call are deltas.
LEMMA CallDeltasType ==
    ASSUME NEW p, NEW b \in Blocks, NEW index \in Nat, NEW atOnce \in BOOLEAN
    PROVE  CallDeltas(p, b, index, atOnce) \in Seq(DeltaSet)
<1> DEFINE all == Delta("tool_call", b.type, index, b.id, b.name, b.body, <<>>)
           named == Delta("tool_call", b.type, index, b.id, b.name, <<>>, <<>>)
           body == b.body
           each == [i \in DOMAIN body |-> Delta("tool_call", b.type, index, b.id, b.name, <<body[i]>>, <<>>)]
           pieces == PiecesOf(b, "tool_call", index)
           x == CallDeltas(p, b, index, atOnce)
<1>1. x = <<all>> \/ x = each \/ x = <<named>> \o pieces
  <2> HIDE DEF all, each, named, pieces
  <2>1. CASE atOnce
    BY <2>1 DEF CallDeltas, all
  <2>2. CASE ~atOnce /\ p = "mistral"
    BY <2>2 DEF CallDeltas, each
  <2>3. CASE ~atOnce /\ p # "mistral"
    BY <2>3 DEF CallDeltas, named, pieces
  <2> QED
    BY <2>1, <2>2, <2>3
<1>2. "tool_call" \in DeltaTypes
  BY DEF DeltaTypes, BlockTypes
<1>3. all \in DeltaSet /\ named \in DeltaSet
  BY <1>2, BlockIs, NothingTypes, DeltaType
<1>4. pieces \in Seq(DeltaSet)
  BY <1>2, PiecesOfType
<1>5. each \in Seq(DeltaSet)
  <2>1. body \in Seq(Words)
    BY BlockIs
  <2> HIDE DEF body
  <2>2. ASSUME NEW i \in DOMAIN body PROVE each[i] \in DeltaSet
    <3> DEFINE one == <<body[i]>>
    <3>1. one \in Seq(Words)
      BY <2>1
    <3> HIDE DEF one
    <3>2. Delta("tool_call", b.type, index, b.id, b.name, one, <<>>) \in DeltaSet
      BY <1>2, <3>1, BlockIs, NothingTypes, DeltaType
    <3> QED
      BY <3>2 DEF one
  <2>3. DOMAIN each = DOMAIN body /\ each = [i \in DOMAIN body |-> each[i]]
    OBVIOUS
  <2> HIDE DEF each
  <2> QED
    BY <2>1, <2>2, <2>3, MadeOf
<1> HIDE DEF all, named, pieces, each, x
<1>6. <<all>> \in Seq(DeltaSet) /\ <<named>> \in Seq(DeltaSet)
  BY <1>3
<1>7. <<named>> \o pieces \in Seq(DeltaSet)
  BY <1>4, <1>6
<1>8. x \in Seq(DeltaSet)
  BY <1>1, <1>5, <1>6, <1>7
<1> QED
  BY <1>8 DEF x

\* OpenAI's stream is made of threads of deltas.
LEMMA OpenAIThreadsType ==
    ASSUME NEW p, NEW wire, NEW answer \in Seq(Blocks), NEW atOnce \in BOOLEAN
    PROVE  OpenAIThreads(p, wire, answer, atOnce) \in Seq(Seq(DeltaSet))
<1> DEFINE calls == OfType(answer, {"tool_call"})
           said == Filter(answer, {b \in ToSet(answer) : b.type # "tool_call"})
           over == Signal(IF wire.usage \/ p \in {"together", "fireworks", "mistral"} THEN "usage" ELSE "end")
           end == <<over>>
           deltas == [i \in DOMAIN calls |->
                         CallDeltas(p, calls[i], IF p = "sglang" /\ Len(calls) = 1 THEN 0 ELSE i, atOnce)]
           begin == Delta("text", "text", 0, 0, <<>>, <<>>, <<>>)
           texts == [i \in DOMAIN said |-> PiecesOf(said[i], said[i].type, 0)]
           speech == <<begin>> \o Flatten(texts)
           called == IF p = "mistral" THEN <<Flatten(deltas)>> ELSE deltas
           x == OpenAIThreads(p, wire, answer, atOnce)
<1>1. x = <<speech>> \o called \o <<end>>
  BY DEF OpenAIThreads
<1>2. calls \in Seq(Blocks) /\ said \in Seq(Blocks)
  BY OfTypeIs, FilterParts
<1>3. over \in DeltaSet
  <2> DEFINE how == IF wire.usage \/ p \in {"together", "fireworks", "mistral"} THEN "usage" ELSE "end"
  <2>1. how \in {"usage", "end"}
    OBVIOUS
  <2>2. how \in DeltaTypes
    BY <2>1 DEF DeltaTypes
  <2> HIDE DEF how
  <2>3. Signal(how) \in DeltaSet
    BY <2>2, SignalType
  <2> QED
    BY <2>3 DEF how
<1>4. begin \in DeltaSet
  <2>1. "text" \in DeltaTypes /\ "text" \in BlockTypes \cup {"signal"}
    BY DEF DeltaTypes, BlockTypes
  <2> QED
    BY <2>1, NothingTypes, DeltaType
<1> HIDE DEF calls, said, over, begin, x
<1>5. deltas \in Seq(Seq(DeltaSet))
  <2>1. ASSUME NEW i \in DOMAIN calls PROVE deltas[i] \in Seq(DeltaSet)
    <3> DEFINE b == calls[i]
               k == IF p = "sglang" /\ Len(calls) = 1 THEN 0 ELSE i
    <3>1. b \in Blocks /\ k \in Nat
      BY <1>2
    <3> HIDE DEF b, k
    <3>2. CallDeltas(p, b, k, atOnce) \in Seq(DeltaSet)
      BY <3>1, CallDeltasType
    <3> QED
      BY <3>2 DEF b, k
  <2>2. DOMAIN deltas = DOMAIN calls /\ deltas = [i \in DOMAIN calls |-> deltas[i]]
    OBVIOUS
  <2> HIDE DEF deltas
  <2> QED
    BY <1>2, <2>1, <2>2, MadeOf
<1>6. texts \in Seq(Seq(DeltaSet))
  <2>1. ASSUME NEW i \in DOMAIN said PROVE texts[i] \in Seq(DeltaSet)
    <3> DEFINE b == said[i]
    <3>1. b \in Blocks
      BY <1>2
    <3> HIDE DEF b
    <3>2. PiecesOf(b, b.type, 0) \in Seq(DeltaSet)
      BY <3>1, BlockIs, NothingTypes, PiecesOfType
    <3> QED
      BY <3>2 DEF b
  <2>2. DOMAIN texts = DOMAIN said /\ texts = [i \in DOMAIN said |-> texts[i]]
    OBVIOUS
  <2> HIDE DEF texts
  <2> QED
    BY <1>2, <2>1, <2>2, MadeOf
<1> HIDE DEF deltas, texts
<1>7. Flatten(deltas) \in Seq(DeltaSet) /\ Flatten(texts) \in Seq(DeltaSet)
  BY <1>5, <1>6, FlattenType
<1>8. <<begin>> \in Seq(DeltaSet) /\ end \in Seq(DeltaSet)
  BY <1>3, <1>4
<1>9. speech \in Seq(DeltaSet)
  BY <1>7, <1>8
<1> HIDE DEF speech, end
<1>10. called \in Seq(Seq(DeltaSet))
  <2> DEFINE flat == Flatten(deltas)
  <2> HIDE DEF flat
  <2>1. <<flat>> \in Seq(Seq(DeltaSet))
    BY <1>7 DEF flat
  <2> QED
    BY <1>5, <2>1 DEF flat
<1> HIDE DEF called
<1>11. <<speech>> \in Seq(Seq(DeltaSet)) /\ <<end>> \in Seq(Seq(DeltaSet))
  BY <1>8, <1>9
<1>12. x \in Seq(Seq(DeltaSet))
  BY <1>1, <1>10, <1>11
<1> QED
  BY <1>12 DEF x

\* So is Anthropic's.
LEMMA AnthropicThreadType ==
    ASSUME NEW p, NEW answer \in Seq(Blocks)
    PROVE  AnthropicThread(p, answer) \in Seq(Seq(DeltaSet))
<1> DEFINE Start1(b, i) == [Delta("start", b.type, i - 1, b.id, b.name, <<>>, <<>>)
                               EXCEPT !.sig = IF b.body = <<>> THEN b.sig ELSE <<>>]
           Signed1(b, i) == Delta("delta", b.type, i - 1, 0, <<>>, <<>>, b.sig)
           Sign(b, i) == IF b.body # <<>> /\ b.sig # <<>> THEN <<Signed1(b, i)>> ELSE <<>>
           Stop(i) == Delta("stop", "signal", i - 1, 0, <<>>, <<>>, <<>>)
           Events(b, i) == <<Start1(b, i)>> \o PiecesOf(b, "delta", i - 1) \o Sign(b, i) \o <<Stop(i)>>
           events == [i \in DOMAIN answer |-> Events(answer[i], i)]
           all == Flatten(events)
           a == Signal("usage_input")
           z == Signal("usage_output")
           thread == <<a>> \o all \o <<z>>
<1>1. AnthropicThread(p, answer) = <<thread>>
  BY DEF AnthropicThread
<1>2. "start" \in DeltaTypes /\ "delta" \in DeltaTypes /\ "stop" \in DeltaTypes /\ "usage_input" \in DeltaTypes
      /\ "usage_output" \in DeltaTypes /\ "signal" \in BlockTypes \cup {"signal"}
  BY DEF DeltaTypes
<1>3. a \in DeltaSet /\ z \in DeltaSet
  BY <1>2, SignalType
<1>4. ASSUME NEW b \in Blocks, NEW i \in Nat, i >= 1 PROVE Events(b, i) \in Seq(DeltaSet)
  <2> DEFINE j == i - 1
             sig == IF b.body = <<>> THEN b.sig ELSE <<>>
             s == Start1(b, i)
             t == PiecesOf(b, "delta", j)
             g == Signed1(b, i)
             u == Sign(b, i)
             w == Stop(i)
  <2>1. j \in Nat
    BY <1>4
  <2>2. sig \in Seq(STRING)
    BY BlockIs, NothingTypes
  <2>3. s = Delta("start", b.type, j, b.id, b.name, <<>>, sig)
    BY DEF Delta
  <2> HIDE DEF j, sig
  <2>4. s \in DeltaSet
    <3> HIDE DEF s
    <3> QED
      BY <1>2, <2>1, <2>2, <2>3, BlockIs, NothingTypes, DeltaType
  <2>5. t \in Seq(DeltaSet)
    BY <1>2, <2>1, PiecesOfType
  <2>6. g \in DeltaSet /\ w \in DeltaSet
    <3>1. g = Delta("delta", b.type, j, 0, <<>>, <<>>, b.sig) /\ w = Delta("stop", "signal", j, 0, <<>>, <<>>, <<>>)
      BY DEF j
    <3> HIDE DEF g, w
    <3> QED
      BY <1>2, <2>1, <3>1, BlockIs, NothingTypes, DeltaType
  <2>7. u = <<g>> \/ u = << >>
    OBVIOUS
  <2>8. Events(b, i) = <<s>> \o t \o u \o <<w>>
    BY DEF j
  <2> HIDE DEF s, t, g, u, w
  <2>9. <<s>> \in Seq(DeltaSet) /\ <<g>> \in Seq(DeltaSet) /\ <<w>> \in Seq(DeltaSet)
    BY <2>4, <2>6
  <2>10. u \in Seq(DeltaSet)
    BY <2>7, <2>9, NothingTypes
  <2>11. <<s>> \o t \o u \o <<w>> \in Seq(DeltaSet)
    BY <2>5, <2>9, <2>10
  <2> HIDE DEF Events
  <2> QED
    BY <2>8, <2>11
<1> HIDE DEF Events
<1>5. events \in Seq(Seq(DeltaSet))
  <2>1. ASSUME NEW i \in DOMAIN answer PROVE events[i] \in Seq(DeltaSet)
    <3>1. answer[i] \in Blocks /\ i \in Nat /\ i >= 1
      OBVIOUS
    <3> QED
      BY <1>4, <3>1
  <2>2. DOMAIN events = DOMAIN answer /\ events = [i \in DOMAIN answer |-> events[i]]
    OBVIOUS
  <2> HIDE DEF events
  <2> QED
    BY <2>1, <2>2, MadeOf
<1> HIDE DEF events, a, z
<1>6. all \in Seq(DeltaSet)
  BY <1>5, FlattenType
<1> HIDE DEF all
<1>7. <<a>> \in Seq(DeltaSet) /\ <<z>> \in Seq(DeltaSet)
  BY <1>3
<1>8. thread \in Seq(DeltaSet)
  BY <1>6, <1>7
<1> HIDE DEF thread
<1> QED
  BY <1>1, <1>8

\* So is Gemini's.
LEMMA GeminiThreadType ==
    ASSUME NEW answer \in Seq(Blocks)
    PROVE  GeminiThread(answer) \in Seq(Seq(DeltaSet))
<1> DEFINE Sig(b, i) == IF i = (IF b.type = "thought" THEN Len(b.body) ELSE 1) THEN b.sig ELSE <<>>
           Call(b) == Delta(b.type, b.type, 0, 0, b.name, b.body, b.sig)
           Spread(b) == [i \in DOMAIN b.body |-> Delta(b.type, b.type, 0, 0, <<>>, <<b.body[i]>>, Sig(b, i))]
           Parts(b) == IF b.type = "tool_call" THEN <<Call(b)>> ELSE Spread(b)
           parts == [i \in DOMAIN answer |-> Parts(answer[i])]
           thread == Flatten(parts)
<1>1. GeminiThread(answer) = <<thread>>
  BY DEF GeminiThread
<1>2. ASSUME NEW b \in Blocks PROVE Parts(b) \in Seq(DeltaSet)
  <2> DEFINE one == Call(b)
             each == Spread(b)
             body == b.body
  <2>1. Parts(b) = <<one>> \/ Parts(b) = each
    OBVIOUS
  <2>2. one \in DeltaSet
    BY BlockIs, NothingTypes, DeltaType
  <2>3. body \in Seq(Words)
    BY BlockIs
  <2>4. each = [i \in DOMAIN body |-> Delta(b.type, b.type, 0, 0, <<>>, <<body[i]>>, Sig(b, i))]
    OBVIOUS
  <2> HIDE DEF one, each, body, Parts
  <2>5. ASSUME NEW i \in DOMAIN body PROVE each[i] \in DeltaSet
    <3> DEFINE piece == <<body[i]>>
               sig == Sig(b, i)
    <3>1. piece \in Seq(Words)
      BY <2>3
    <3>2. sig \in Seq(STRING)
      BY BlockIs, NothingTypes
    <3> HIDE DEF piece, sig
    <3>3. Delta(b.type, b.type, 0, 0, <<>>, piece, sig) \in DeltaSet
      BY <3>1, <3>2, BlockIs, NothingTypes, DeltaType
    <3> QED
      BY <2>4, <3>3 DEF piece, sig
  <2>6. DOMAIN each = DOMAIN body /\ each = [i \in DOMAIN body |-> each[i]]
    BY <2>4
  <2>7. each \in Seq(DeltaSet)
    BY <2>3, <2>5, <2>6, MadeOf
  <2>8. <<one>> \in Seq(DeltaSet)
    BY <2>2
  <2> QED
    BY <2>1, <2>7, <2>8
<1> HIDE DEF Parts
<1>3. parts \in Seq(Seq(DeltaSet))
  <2>1. ASSUME NEW i \in DOMAIN answer PROVE parts[i] \in Seq(DeltaSet)
    <3>1. answer[i] \in Blocks
      OBVIOUS
    <3> QED
      BY <1>2, <3>1
  <2>2. DOMAIN parts = DOMAIN answer /\ parts = [i \in DOMAIN answer |-> parts[i]]
    OBVIOUS
  <2> HIDE DEF parts
  <2> QED
    BY <2>1, <2>2, MadeOf
<1> HIDE DEF parts
<1>4. thread \in Seq(DeltaSet)
  BY <1>3, FlattenType
<1> HIDE DEF thread
<1> QED
  BY <1>1, <1>4

\* So is that of every provider.
LEMMA ThreadsType ==
    ASSUME NEW p, NEW wire, NEW answer \in Seq(Blocks), NEW atOnce \in BOOLEAN
    PROVE  Threads(p, wire, answer, atOnce) \in Seq(Seq(DeltaSet))
<1>1. OpenAIThreads(p, wire, answer, atOnce) \in Seq(Seq(DeltaSet))
  BY OpenAIThreadsType
<1>2. GeminiThread(answer) \in Seq(Seq(DeltaSet)) /\ AnthropicThread(p, answer) \in Seq(Seq(DeltaSet))
  BY GeminiThreadType, AnthropicThreadType
<1> QED
  BY <1>1, <1>2 DEF Threads

-----------------------------------------------------------------------------
(***************************************************************************)
(* The next turn                                                            *)
(***************************************************************************)
\* The calls of an answer.
LEMMA CallsOf ==
    ASSUME NEW content \in Seq(Blocks)
    PROVE  OfType(content, {"tool_call"}) \in Seq(Calls)
<1> DEFINE s == OfType(content, {"tool_call"})
<1>1. s \in Seq(Blocks) /\ ToSet(s) = {b \in ToSet(content) : b.type \in {"tool_call"}}
  BY OfTypeIs
<1> HIDE DEF s
<1>2. ASSUME NEW i \in DOMAIN s PROVE s[i] \in Calls
  <2> DEFINE b == s[i]
  <2>1. b \in ToSet(s) /\ b \in Blocks
    BY <1>1 DEF ToSet
  <2>2. b.type = "tool_call"
    BY <1>1, <2>1
  <2> HIDE DEF b
  <2>3. b \in Calls
    BY <2>1, <2>2 DEF Blocks, BlocksOf, Calls
  <2> QED
    BY <2>3 DEF b
<1>3. DOMAIN s = 1 .. Len(s) /\ Len(s) \in Nat /\ s = [i \in 1 .. Len(s) |-> s[i]]
  BY <1>1
<1>4. s \in [1 .. Len(s) -> Calls]
  BY <1>2, <1>3
<1>5. s \in Seq(Calls)
  BY <1>3, <1>4
<1> QED
  BY <1>5 DEF s

\* A call as the client has it.
LEMMA ToolCallOutputType ==
    ASSUME NEW b \in Blocks, NEW tools
    PROVE  /\ ToolCallOutput(b, tools) \in InputCalls /\ ToolCallOutput(b, tools).type = "tool_call_input"
           /\ ToolCallChunks(b) \in InputCalls /\ ToolCallChunks(b).type = "tool_call_input"
<1> DEFINE n == b.name
           d == b.body
           name == <<n>>
           arguments == <<d>>
           none == << >>
<1>1. n \in Seq(STRING) /\ d \in Seq(Words) /\ b.id \in Nat
  BY BlockIs
<1> HIDE DEF n, d
<1>2. name \in Seq(Seq(STRING)) /\ arguments \in Seq(Seq(Words)) /\ none \in Seq(Seq(STRING)) /\ none \in Seq(Seq(Words))
  BY <1>1
<1>3. ASSUME NEW u
      PROVE  \E x \in {name, none}, y \in {arguments, none} :
                ToolCallOutput(b, u) = [type |-> "tool_call_input", id |-> b.id, name |-> x, arguments |-> y,
                                        raw_name |-> name, raw_arguments |-> arguments]
  BY DEF ToolCallOutput, n, d
<1> HIDE DEF name, arguments, none
<1>4. ToolCallOutput(b, tools) \in InputCalls /\ ToolCallOutput(b, tools).type = "tool_call_input"
  <2>1. PICK x \in {name, none}, y \in {arguments, none} :
               ToolCallOutput(b, tools) = [type |-> "tool_call_input", id |-> b.id, name |-> x, arguments |-> y,
                                       raw_name |-> name, raw_arguments |-> arguments]
    BY <1>3
  <2> QED
    BY <1>1, <1>2, <2>1 DEF InputCalls
<1>5. ToolCallChunks(b) = [type |-> "tool_call_input", id |-> b.id, name |-> none, arguments |-> none,
                           raw_name |-> name, raw_arguments |-> arguments]
  <2>1. PICK x \in {name, none}, y \in {arguments, none} :
               ToolCallOutput(b, {}) = [type |-> "tool_call_input", id |-> b.id, name |-> x, arguments |-> y,
                                       raw_name |-> name, raw_arguments |-> arguments]
    BY <1>3
  <2> DEFINE o == ToolCallOutput(b, {})
  <2>2. ToolCallChunks(b) = [o EXCEPT !.name = none, !.arguments = none]
    BY DEF ToolCallChunks, none
  <2>3. o = [type |-> "tool_call_input", id |-> b.id, name |-> x, arguments |-> y,
             raw_name |-> name, raw_arguments |-> arguments]
    BY <2>1
  <2> HIDE DEF o
  <2> QED
    BY <2>2, <2>3
<1> QED
  BY <1>1, <1>2, <1>4, <1>5 DEF InputCalls

\* The output of a JSON function is at most one text.
LEMMA JsonOutputType ==
    ASSUME NEW content \in Seq(Blocks)
    PROVE  JsonOutput(content) \in Seq(Blocks)
<1> DEFINE types == {"text", "tool_call"}
           s == OfType(content, types)
           body == Last(s).body
           t == Text(body)
<1>1. JsonOutput(content) = IF s = << >> THEN << >> ELSE <<t>>
  BY DEF JsonOutput
<1>2. CASE s = << >>
  BY <1>1, <1>2, NothingTypes
<1>3. CASE s # << >>
  <2>1. body \in Seq(Words)
    <3> HIDE DEF types
    <3> QED
      BY <1>3, LastBody
  <2> HIDE DEF body, s
  <2>2. t \in Blocks
    BY <2>1, TextType
  <2> HIDE DEF t
  <2> QED
    BY <1>1, <1>3, <2>2
<1> QED
  BY <1>2, <1>3

\* What the client has of an answer is an input, and has the calls of the answer.
LEMMA NativeOutputType ==
    ASSUME NEW r, NEW content \in Seq(Blocks)
    PROVE  /\ NativeOutput(r, content) \in Seq(Given)
           /\ (r.function # "json" /\ OfType(content, {"tool_call"}) # << >>) => Has(NativeOutput(r, content), {"tool_call_input"})
<1> DEFINE x == NativeOutput(r, content)
<1>1. CASE r.function = "json"
  <2>1. x = JsonOutput(content)
    BY <1>1 DEF NativeOutput
  <2>2. x \in Seq(Blocks)
    BY <2>1, JsonOutputType
  <2> HIDE DEF x
  <2>3. x \in Seq(Given)
    BY <2>2 DEF Given
  <2> QED
    BY <1>1, <2>3 DEF x
<1>2. CASE r.function # "json"
  <2> DEFINE Out(b) == IF r.stream THEN ToolCallChunks(b) ELSE ToolCallOutput(b, r.tools)
  <2>1. x = [i \in DOMAIN content |-> IF content[i].type # "tool_call" THEN content[i] ELSE Out(content[i])]
    BY <1>2 DEF NativeOutput
  <2>2. ASSUME NEW b \in Blocks PROVE Out(b) \in Given /\ Out(b).type = "tool_call_input"
    BY ToolCallOutputType DEF Given
  <2> HIDE DEF x, Out
  <2>3. ASSUME NEW i \in DOMAIN content
        PROVE  x[i] \in Given /\ (content[i].type = "tool_call" => x[i].type = "tool_call_input")
    <3>1. content[i] \in Blocks
      OBVIOUS
    <3> QED
      BY <2>1, <2>2, <3>1 DEF Given
  <2>4. DOMAIN x = DOMAIN content /\ x = [i \in DOMAIN content |-> x[i]]
    BY <2>1
  <2>5. x \in Seq(Given)
    BY <2>3, <2>4, MadeOf
  <2>6. ASSUME OfType(content, {"tool_call"}) # << >> PROVE Has(x, {"tool_call_input"})
    <3> DEFINE s == OfType(content, {"tool_call"})
    <3>1. s \in Seq(Blocks) /\ ToSet(s) = {b \in ToSet(content) : b.type \in {"tool_call"}}
      BY OfTypeIs
    <3> HIDE DEF s
    <3>2. s[1] \in ToSet(s)
      BY <2>6, <3>1 DEF s, ToSet
    <3>3. PICK i \in DOMAIN content : content[i] = s[1] /\ content[i].type = "tool_call"
      BY <3>1, <3>2 DEF ToSet
    <3>4. x[i].type = "tool_call_input" /\ i \in DOMAIN x
      BY <2>3, <2>4, <3>3
    <3> QED
      BY <3>4 DEF Has
  <2> QED
    BY <2>5, <2>6 DEF x
<1> QED
  BY <1>1, <1>2

\* The results of calls are blocks.
LEMMA ResultsType ==
    ASSUME NEW calls \in Seq(Calls)
    PROVE  ResultsOf(calls) \in Seq(Blocks)
<1> DEFINE s == ResultsOf(calls)
           body == <<"result">>
           Result(b) == [b EXCEPT !.type = "tool_result", !.body = body]
<1>1. s = [i \in DOMAIN calls |-> Result(calls[i])]
  BY DEF ResultsOf
<1>2. body \in Seq(Words)
  <2>1. "result" \in Words
    BY DEF Words, Written
  <2> QED
    BY <2>1
<1> HIDE DEF s, body, Result
<1>3. ASSUME NEW i \in DOMAIN calls PROVE s[i] \in Blocks
  <2> DEFINE b == calls[i]
  <2>1. b \in Calls /\ s[i] = Result(b)
    BY <1>1
  <2> HIDE DEF b
  <2>2. b = [type |-> b.type, id |-> b.id, name |-> b.name, body |-> b.body, sig |-> b.sig]
    BY <2>1 DEF Calls, BlocksOf
  <2>3. s[i] = [type |-> "tool_result", id |-> b.id, name |-> b.name, body |-> body, sig |-> b.sig]
    BY <2>1, <2>2 DEF Result
  <2>4. b.id \in Nat /\ b.name \in Seq(STRING) /\ b.sig \in Seq(STRING)
    BY <2>1 DEF Calls, BlocksOf
  <2> QED
    BY <1>2, <2>3, <2>4 DEF Blocks, BlocksOf, BlockTypes
<1>4. DOMAIN s = DOMAIN calls /\ s = [i \in DOMAIN calls |-> s[i]]
  BY <1>1
<1>5. s \in Seq(Blocks)
  BY <1>3, <1>4, MadeOf
<1> QED
  BY <1>5 DEF s

\* The texts of the next turn are blocks.
LEMMA WrittenTexts ==
    /\ Text(<<"u">>) \in Blocks /\ Text(<<"u">>).type = "text"
    /\ Text(<<"v">>) \in Blocks /\ Text(<<"v">>).type = "text"
    /\ Text(<<"result">>) \in Blocks /\ Text(<<"result">>).type = "text"
<1>1. "u" \in Words /\ "v" \in Words /\ "result" \in Words
  BY DEF Words, Written
<1>2. <<"u">> \in Seq(Words) /\ <<"v">> \in Seq(Words) /\ <<"result">> \in Seq(Words)
  BY <1>1
<1> QED
  BY <1>2, TextType

\* The first and the last message of a turn are inputs without results.
LEMMA Greetings ==
    /\ Hello \in Inputs /\ Hello.role = "user" /\ ~Has(Hello.content, {"tool_result"}) /\ Hello.content # << >>
    /\ Bye \in Inputs /\ Bye.role = "user" /\ ~Has(Bye.content, {"tool_result"}) /\ Bye.content # << >>
<1> DEFINE Greets(m) == m \in Inputs /\ m.role = "user" /\ ~Has(m.content, {"tool_result"}) /\ m.content # << >>
<1>1. ASSUME NEW b \in Blocks, b.type = "text" PROVE Greets(User(<<b>>))
  <2> DEFINE one == <<b>>
  <2>1. one \in Seq(Given) /\ one # << >> /\ ~Has(one, {"tool_result"})
    BY <1>1 DEF Given, Has
  <2> HIDE DEF one
  <2>2. Greets(User(one))
    BY <2>1 DEF User, Message, Inputs, Given
  <2> QED
    BY <2>2 DEF one
<1> DEFINE u == Text(<<"u">>)
           v == Text(<<"v">>)
<1>2. Hello = User(<<u>>) /\ Bye = User(<<v>>)
  BY DEF Hello, Bye
<1>3. u \in Blocks /\ u.type = "text" /\ v \in Blocks /\ v.type = "text"
  BY WrittenTexts
<1> HIDE DEF u, v, Greets
<1>4. Greets(Hello) /\ Greets(Bye)
  BY <1>1, <1>2, <1>3
<1> QED
  BY <1>4 DEF Greets

\* The answer of the inference endpoint and the results of its calls are messages it takes.
LEMMA NativeTurnAsks ==
    ASSUME got \in Seq(Blocks)
    PROVE  NativeTurn \in Seq(Inputs) /\ ResultsFollow(NativeTurn)
<1> DEFINE calls == OfType(got, {"tool_call"})
           results == ResultsOf(calls)
           out == NativeOutput(call, got)
           a == Assistant(out)
           z == IF call.function = "json" \/ calls = <<>> THEN Bye ELSE User(results)
           m == NativeTurn
<1>1. m = <<Hello, a, z>>
  BY DEF NativeTurn, ResultsOf
<1>2. calls \in Seq(Calls)
  BY CallsOf
<1>3. out \in Seq(Given) /\ ((call.function # "json" /\ calls # << >>) => Has(out, {"tool_call_input"}))
  BY NativeOutputType
<1> HIDE DEF calls, out
<1>4. results \in Seq(Blocks)
  BY <1>2, ResultsType
<1> HIDE DEF results
<1>5. results \in Seq(Given)
  BY <1>4 DEF Given
<1>6. a \in Inputs /\ a.role = "assistant" /\ a.content = out
  BY <1>3 DEF Assistant, Message, Inputs, Given
<1>7. User(results) \in Inputs
  BY <1>5 DEF User, Message, Inputs, Given
<1>8. z \in Inputs /\ (Has(z.content, {"tool_result"}) => Has(a.content, {"tool_call", "tool_call_input"}))
  <2>1. CASE call.function = "json" \/ calls = << >>
    BY <2>1, Greetings
  <2>2. CASE ~(call.function = "json" \/ calls = << >>)
    BY <1>3, <1>6, <1>7, <2>2 DEF Has
  <2> QED
    BY <2>1, <2>2
<1>9. Hello \in Inputs /\ ~Has(Hello.content, {"tool_result"})
  BY Greetings
<1> DEFINE h == Hello
<1> HIDE DEF a, z, m, h
<1>10. m \in Seq(Inputs) /\ DOMAIN m = {1, 2, 3} /\ m[1] = h /\ m[2] = a /\ m[3] = z
  BY <1>1, <1>6, <1>8, <1>9 DEF h
<1>11. ResultsFollow(m)
  <2> SUFFICES ASSUME NEW i \in DOMAIN m, m[i].role = "user" /\ Has(m[i].content, {"tool_result"})
               PROVE  i > 1 /\ Has(m[i - 1].content, {"tool_call", "tool_call_input"})
    BY DEF ResultsFollow
  <2>1. i # 1
    BY <1>9, <1>10 DEF h
  <2>2. i # 2
    BY <1>6, <1>10
  <2>3. i = 3 /\ m[i - 1] = a
    BY <1>10, <2>1, <2>2
  <2> QED
    BY <1>8, <1>10, <2>3
<1> QED
  BY <1>10, <1>11 DEF m

\* A message of OpenAI's API is made of its fields.
LEMMA OpenAIMessageType ==
    ASSUME NEW role \in {"system", "user", "assistant", "tool"}, NEW content \in Seq(Contents), NEW calls \in Seq(Calls), NEW id \in Nat
    PROVE  OpenAIMessage(role, content, calls, id) \in OpenAIInputs
BY DEF OpenAIMessage, OpenAIInputs, Contents, Calls

\* A text is a content of OpenAI's API.
LEMMA TextContents ==
    ASSUME NEW b \in Blocks, b.type = "text"
    PROVE  <<b>> \in Seq(Contents)
<1>1. b \in Contents
  BY DEF Blocks, BlocksOf, Contents, BlockTypes
<1> QED
  BY <1>1

\* The first and the last message of a turn are messages of OpenAI's API.
LEMMA OpenAIGreetings == OpenAIHello \in OpenAIInputs /\ OpenAIBye \in OpenAIInputs
<1> DEFINE u == Text(<<"u">>)
           v == Text(<<"v">>)
           cu == <<u>>
           cv == <<v>>
<1>1. OpenAIHello = OpenAIMessage("user", cu, <<>>, 0) /\ OpenAIBye = OpenAIMessage("user", cv, <<>>, 0)
  BY DEF OpenAIHello, OpenAIBye, Hello, Bye, User, Message
<1>2. u \in Blocks /\ u.type = "text" /\ v \in Blocks /\ v.type = "text"
  BY WrittenTexts
<1> HIDE DEF u, v
<1>3. cu \in Seq(Contents) /\ cv \in Seq(Contents)
  BY <1>2, TextContents
<1>4. << >> \in Seq(Calls) /\ 0 \in Nat
  OBVIOUS
<1> HIDE DEF cu, cv
<1> QED
  BY <1>1, <1>3, <1>4, OpenAIMessageType

\* The answer a client has put together, with the results, makes messages in which results
\* follow calls.
LEMMA OpenAITurnAsks ==
    ASSUME NEW r, r.text \in Seq(Words), r.calls \in Seq(Calls), NEW m, m = OpenAITurnOf(r)
    PROVE  m \in Seq(OpenAIInputs) /\ OpenAIResultsFollow(m)
<1> DEFINE calls == r.calls
           n == Len(calls)
           said == Text(r.text)
           content == IF r.text = << >> THEN << >> ELSE <<said>>
           a == OpenAIMessage("assistant", content, calls, 0)
           done == <<Text(<<"result">>)>>
           Tool(i) == OpenAIMessage("tool", done, <<>>, calls[i].id)
           tools == [i \in DOMAIN calls |-> Tool(i)]
           h == OpenAIHello
           z == OpenAIBye
           answer == <<a>> \o tools
           bye == IF Len(answer) = 1 THEN <<z>> ELSE << >>
<1>1. m = <<h>> \o answer \o bye
  BY DEF OpenAITurnOf, OpenAIAnswer
<1>2. calls \in Seq(Calls) /\ n \in Nat /\ DOMAIN calls = 1 .. n
  OBVIOUS
<1>3. content \in Seq(Contents)
  <2>1. CASE r.text = << >>
    BY <2>1
  <2>2. CASE r.text # << >>
    <3>1. said \in Blocks /\ said.type = "text"
      BY TextType
    <3> HIDE DEF said
    <3>2. <<said>> \in Seq(Contents)
      BY <3>1, TextContents
    <3> QED
      BY <2>2, <3>2
  <2> QED
    BY <2>1, <2>2
<1>4. done \in Seq(Contents) /\ done # << >>
  <2> DEFINE t == Text(<<"result">>)
  <2>1. t \in Blocks /\ t.type = "text"
    BY WrittenTexts
  <2> HIDE DEF t
  <2>2. <<t>> \in Seq(Contents) /\ <<t>> # << >>
    BY <2>1, TextContents
  <2> QED
    BY <2>2 DEF t
<1> HIDE DEF calls, content, done
<1>5. a \in OpenAIInputs /\ a.role = "assistant" /\ a.calls = calls
  <2>1. a \in OpenAIInputs
    BY <1>2, <1>3, OpenAIMessageType
  <2> QED
    BY <2>1 DEF OpenAIMessage
<1>6. ASSUME NEW i \in 1 .. n PROVE Tool(i) \in OpenAIInputs /\ Tool(i).role = "tool" /\ Tool(i).content = done
  <2> DEFINE id == calls[i].id
  <2>1. calls[i] \in Calls
    BY <1>2
  <2>2. id \in Nat
    BY <2>1 DEF Calls, BlocksOf
  <2>3. << >> \in Seq(Calls)
    OBVIOUS
  <2> HIDE DEF id
  <2>4. OpenAIMessage("tool", done, <<>>, id) \in OpenAIInputs
    BY <1>4, <2>2, <2>3, OpenAIMessageType
  <2> QED
    BY <2>4 DEF id, OpenAIMessage
<1> HIDE DEF Tool
<1>7. tools \in Seq(OpenAIInputs) /\ Len(tools) = n /\ \A i \in 1 .. n : tools[i] = Tool(i)
  <2>1. tools = [i \in 1 .. n |-> Tool(i)]
    BY <1>2
  <2> HIDE DEF tools
  <2>2. tools \in [1 .. n -> OpenAIInputs]
    BY <1>6, <2>1
  <2>3. tools \in Seq(OpenAIInputs)
    BY <1>2, <2>2
  <2> HIDE DEF n
  <2>4. Len(tools) = n
    BY <1>2, <2>1
  <2> QED
    BY <2>1, <2>3, <2>4
<1>8. h \in OpenAIInputs /\ z \in OpenAIInputs /\ h.role = "user" /\ z.role = "user"
  <2>1. h \in OpenAIInputs /\ z \in OpenAIInputs
    BY OpenAIGreetings
  <2> QED
    BY <2>1 DEF OpenAIHello, OpenAIBye, OpenAIMessage
<1> HIDE DEF tools, h, z, a, n
<1>9. answer \in Seq(OpenAIInputs) /\ Len(answer) = n + 1 /\ answer[1] = a /\ \A i \in 1 .. n : answer[i + 1] = tools[i]
  BY <1>2, <1>5, <1>7
<1>10. bye \in Seq(OpenAIInputs) /\ (n = 0 => bye = <<z>>) /\ (n # 0 => bye = << >>)
  <2>1. <<z>> \in Seq(OpenAIInputs) /\ << >> \in Seq(OpenAIInputs)
    BY <1>8
  <2> HIDE DEF answer
  <2> QED
    BY <1>2, <1>9, <2>1
<1> HIDE DEF answer, bye
<1>11. m \in Seq(OpenAIInputs) /\ m[1] = h /\ m[2] = a /\ \A i \in 1 .. n : m[i + 2] = Tool(i)
  <2> DEFINE b == <<h>> \o answer
  <2>1. b \in Seq(OpenAIInputs) /\ Len(b) = n + 2 /\ b[1] = h /\ \A i \in 1 .. n + 1 : b[i + 1] = answer[i]
    BY <1>2, <1>8, <1>9
  <2>2. b[2] = a /\ \A i \in 1 .. n : b[i + 2] = Tool(i)
    <3>1. b[2] = a
      <4>1. 1 \in 1 .. n + 1 /\ b[1 + 1] = answer[1]
        BY <1>2, <2>1
      <4> QED
        BY <1>9, <4>1
    <3>2. ASSUME NEW i \in 1 .. n PROVE b[i + 2] = Tool(i)
      <4> DEFINE j == i + 1
      <4>1. j \in 1 .. n + 1 /\ j + 1 = i + 2 /\ answer[j] = Tool(i)
        BY <1>2, <1>7, <1>9
      <4> HIDE DEF j, b
      <4>2. b[j + 1] = answer[j]
        BY <2>1, <4>1
      <4> QED
        BY <4>1, <4>2
    <3> HIDE DEF b
    <3> QED
      BY <3>1, <3>2
  <2>3. m = b \o bye
    BY <1>1
  <2> HIDE DEF b
  <2>4. m \in Seq(OpenAIInputs) /\ \A i \in 1 .. n + 2 : m[i] = b[i]
    BY <1>2, <1>10, <2>1, <2>3
  <2> QED
    BY <1>2, <2>1, <2>2, <2>4
<1>12. Len(m) = (IF n = 0 THEN 3 ELSE n + 2) /\ (n = 0 => m[3] = z)
  <2> DEFINE b == <<h>> \o answer
  <2>1. b \in Seq(OpenAIInputs) /\ Len(b) = n + 2 /\ m = b \o bye
    BY <1>1, <1>2, <1>8, <1>9
  <2> HIDE DEF b
  <2>2. CASE n = 0
    <3> DEFINE one == <<z>>
    <3>1. one \in Seq(OpenAIInputs) /\ Len(one) = 1 /\ one[1] = z /\ m = b \o one
      BY <1>8, <1>10, <2>1, <2>2
    <3> HIDE DEF one
    <3>2. b \in Seq(OpenAIInputs) /\ Len(b) = 2
      BY <2>1, <2>2
    <3>3. Len(b \o one) = 3 /\ (b \o one)[3] = one[1]
      BY ONLY <3>1, <3>2, ConcatProperties
    <3> QED
      BY <2>2, <3>1, <3>3
  <2>3. CASE n # 0
    BY <1>2, <1>10, <2>1, <2>3
  <2> QED
    BY <2>2, <2>3
<1>13. OpenAIResultsFollow(m)
  <2> SUFFICES ASSUME NEW i \in DOMAIN m, m[i].role = "tool"
               PROVE  /\ m[i].content # << >> /\ i > 1
                      /\ m[i - 1].role = "tool" \/ (m[i - 1].role # "system" /\ m[i - 1].calls # <<>>)
    BY DEF OpenAIResultsFollow
  <2>1. i # 1 /\ i # 2
    BY <1>5, <1>8, <1>11
  <2>2. n # 0
    <3>1. CASE n = 0
      <4>1. i = 3
        BY <1>11, <1>12, <2>1, <3>1
      <4> QED
        BY <1>8, <1>12, <3>1, <4>1
    <3> QED
      BY <3>1
  <2> DEFINE j == i - 2
  <2>3. j \in 1 .. n /\ i = j + 2
    BY <1>2, <1>11, <1>12, <2>1, <2>2
  <2>4. m[i] = Tool(j)
    BY <1>11, <2>3
  <2>5. m[i].content # << >>
    BY <1>4, <1>6, <2>3, <2>4
  <2>6. CASE j = 1
    <3>1. m[i - 1] = a /\ calls # << >>
      BY <1>2, <1>11, <2>2, <2>3, <2>6 DEF n
    <3> QED
      BY <1>5, <2>3, <2>5, <2>6, <3>1
  <2>7. CASE j # 1
    <3> DEFINE k == j - 1
    <3>1. k \in 1 .. n /\ i - 1 = k + 2
      BY <1>2, <2>3, <2>7
    <3> HIDE DEF k
    <3>2. m[i - 1] = Tool(k)
      BY <1>11, <3>1
    <3> QED
      BY <1>2, <1>6, <2>3, <2>5, <3>1, <3>2
  <2> QED
    BY <2>6, <2>7
<1> QED
  BY <1>11, <1>13

-----------------------------------------------------------------------------
(***************************************************************************)
(* The invariant                                                            *)
(***************************************************************************)
\* What is put together is made of blocks, what is left of a stream of deltas.
Typed == got \in Seq(Blocks) /\ received \in Receipts /\ left \in Seq(Seq(DeltaSet)) /\ st \in Memories

\* The request is one a client may ask, then one a provider may be called with, and what is sent
\* is what the adapter makes of it.
Asking == phase = "asked" => Askable(call)
Calling == phase \in {"new", "sent"} => Callable(call)
Replying == phase \in {"new", "sent", "streaming", "answered"} => DOMAIN call = CallFields /\ call.function \in {"chat", "json"}
Sending == phase = "sent" => Request(provider, call).ok /\ sent = Request(provider, call).value

\* The inductive invariant of a call and its next turn.
CallInv == provider \in Providers /\ Typed /\ Asking /\ Calling /\ Replying /\ Sending

\* Before an answer there is nothing of it.
LEMMA NothingYet == << >> \in Seq(Blocks) /\ NothingReceived \in Receipts /\ << >> \in Seq(Seq(DeltaSet)) /\ Start \in Memories
<1>1. << >> \in Seq(Blocks) /\ << >> \in Seq(Seq(DeltaSet)) /\ << >> \in Seq(Nat) /\ << >> \in Seq(Words) /\ << >> \in Seq(Calls)
      /\ << >> \in Seq(STRING)
  OBVIOUS
<1> QED
  BY <1>1 DEF NothingReceived, Receipts, Start, Memories

\* The invariant holds of a client's request.
LEMMA CallInvStarts ==
    ASSUME Init
    PROVE  CallInv
<1>1. provider \in Providers /\ call \in Asks(provider) /\ phase = "asked"
      /\ got = << >> /\ received = NothingReceived /\ left = << >> /\ st = Start
  BY DEF Init
<1>2. call \in ClientRequests
  BY <1>1, AsksAssumption
<1>3. Askable(call)
  BY <1>2, ClientsAsk
<1>4. Typed
  BY <1>1, NothingYet DEF Typed
<1> QED
  BY <1>1, <1>3, <1>4 DEF CallInv, Asking, Calling, Replying, Sending

\* A call that fails leaves nothing to say about its request.
LEMMA FailKeeps ==
    ASSUME CallInv, NEW why, Fail(why), UNCHANGED provider
    PROVE  CallInv'
<1>1. phase' = "failed" /\ Typed'
  BY DEF Fail, CallInv, Typed
<1> QED
  BY <1>1 DEF CallInv, Asking, Calling, Replying, Sending

\* The gateway takes the request, or refuses it.
LEMMA AskKeeps ==
    ASSUME CallInv, Ask
    PROVE  CallInv'
<1>1. CASE Handle(call).ok
  <2>1. phase = "asked" /\ phase' = "new" /\ call' = Handle(call).value
        /\ UNCHANGED <<provider, left, st, got, received>>
    BY <1>1 DEF Ask
  <2>2. Askable(call)
    BY <2>1 DEF CallInv, Asking
  <2>3. Callable(call') /\ DOMAIN call' = CallFields /\ call'.function \in {"chat", "json"}
    BY <1>1, <2>1, <2>2, HandleCalls
  <2>4. Typed'
    BY <2>1 DEF CallInv, Typed
  <2> QED
    BY <2>1, <2>3, <2>4 DEF CallInv, Asking, Calling, Replying, Sending
<1>2. CASE ~Handle(call).ok
  <2>1. Fail(Handle(call).error) /\ UNCHANGED provider
    BY <1>2 DEF Ask
  <2> QED
    BY <2>1, FailKeeps
<1> QED
  BY <1>1, <1>2

\* The request is sent, or refused.
LEMMA PrepareKeeps ==
    ASSUME CallInv, Prepare
    PROVE  CallInv'
<1> DEFINE result == IF call.stream THEN InferStream(provider, call) ELSE Infer(provider, call)
<1>0. provider \in AllProviders
  BY ProvidersAssumption DEF CallInv, AllProviders
<1>1. CASE result.ok
  <2>1. phase = "new" /\ phase' = "sent" /\ sent' = Request(provider, call).value
        /\ UNCHANGED <<provider, call, left, st, got, received>>
    BY <1>1 DEF Prepare
  <2>2. Request(provider, call).ok
    <3>1. CASE call.stream
      BY <1>0, <1>1, <3>1, InferStreamSends
    <3>2. CASE ~call.stream
      BY <1>0, <1>1, <3>2, InferSends
    <3> QED
      BY <3>1, <3>2
  <2>3. Callable(call) /\ DOMAIN call = CallFields /\ call.function \in {"chat", "json"}
    BY <2>1 DEF CallInv, Calling, Replying
  <2>4. Typed'
    BY <2>1 DEF CallInv, Typed
  <2> QED
    BY <2>1, <2>2, <2>3, <2>4 DEF CallInv, Asking, Calling, Replying, Sending
<1>2. CASE ~result.ok
  <2>1. Fail(result.error) /\ UNCHANGED provider
    BY <1>2 DEF Prepare
  <2> HIDE DEF result
  <2> QED
    BY <2>1, FailKeeps
<1> QED
  BY <1>1, <1>2

\* What is kept of an answered call.
LEMMA AnsweredIs ==
    ASSUME DOMAIN call = CallFields, NEW answer, NEW c, c = Answered(answer)
    PROVE  DOMAIN c = CallFields /\ c.function = call.function
BY DEF Answered, CallFields

\* An answer is made of blocks.
LEMMA AnswersAre ==
    ASSUME CallInv, phase = "sent", NEW answer \in Answers(provider, sent, call)
    PROVE  answer \in Seq(Blocks)
<1>1. call.function \in {"chat", "json"} /\ provider \in Providers
  BY DEF CallInv, Replying
<1>2. answer \in Replies(provider, call.function)
  BY DEF Answers
<1> QED
  BY <1>1, <1>2, RepliesAssumption

\* The reply is converted, or fails.
LEMMA RespondKeeps ==
    ASSUME CallInv, Respond
    PROVE  CallInv'
<1>1. PICK answer \in Answers(provider, sent, call), status \in {200, 400, 403, 413, 500}, choices \in 0..2 :
            LET result == Infer(provider, [call EXCEPT !.status = status, !.choices = choices, !.answer = answer])
            IN  /\ call' = Answered(answer)
                /\ IF result.ok
                   THEN /\ phase' = "answered" /\ got' = result.value /\ usage' = <<1, 1>> /\ sent' = NothingSent
                        /\ UNCHANGED <<left, st, first, received, error>>
                   ELSE Fail(result.error)
  BY DEF Respond
<1> DEFINE c == [call EXCEPT !.status = status, !.choices = choices, !.answer = answer]
           result == Infer(provider, c)
<1>2. phase = "sent" /\ UNCHANGED provider
  BY DEF Respond
<1>3. answer \in Seq(Blocks)
  BY <1>2, AnswersAre
<1>4. DOMAIN call = CallFields /\ call.function \in {"chat", "json"}
  BY <1>2 DEF CallInv, Replying
<1>5. DOMAIN call' = CallFields /\ call'.function \in {"chat", "json"}
  BY <1>1, <1>4, AnsweredIs
<1>6. CASE result.ok
  <2>1. phase' = "answered" /\ got' = result.value /\ UNCHANGED <<left, st, received>>
    BY <1>1, <1>6
  <2>2. c.answer = answer
    BY <1>4 DEF CallFields
  <2>3. provider \in AllProviders
    BY ProvidersAssumption DEF CallInv, AllProviders
  <2> HIDE DEF c
  <2>4. result = Response(provider, c)
    BY <1>6, <2>3, InferSends
  <2>5. Yields(Response(provider, c), Blocks)
    BY <1>3, <2>2, <2>3, ResponseYields
  <2> HIDE DEF result
  <2>6. got' \in Seq(Blocks)
    BY <1>6, <2>1, <2>4, <2>5 DEF Yields
  <2>7. Typed'
    BY <2>1, <2>6 DEF CallInv, Typed
  <2> QED
    BY <1>2, <1>5, <2>1, <2>7 DEF CallInv, Asking, Calling, Replying, Sending
<1>7. CASE ~result.ok
  <2>1. Fail(result.error)
    BY <1>1, <1>7
  <2> HIDE DEF result
  <2> QED
    BY <1>2, <2>1, FailKeeps
<1> QED
  BY <1>6, <1>7

\* The stream opens, or fails.
LEMMA OpenStreamKeeps ==
    ASSUME CallInv, OpenStream
    PROVE  CallInv'
<1>1. phase = "sent" /\ UNCHANGED provider
  BY DEF OpenStream
<1>2. CASE Fail("InferenceServer")
  BY <1>1, <1>2, FailKeeps
<1>3. CASE ~Fail("InferenceServer")
  <2>1. PICK answer \in Answers(provider, sent, call), atOnce \in {b \in BOOLEAN : b \/ provider \in SplitCalls} :
               /\ phase' = "streaming" /\ left' = Threads(provider, sent, answer, atOnce)
               /\ call' = Answered(answer)
               /\ sent' = NothingSent
               /\ UNCHANGED <<st, first, got, received, usage, error>>
    BY <1>3 DEF OpenStream
  <2>2. answer \in Seq(Blocks)
    BY <1>1, AnswersAre
  <2>3. left' \in Seq(Seq(DeltaSet))
    BY <2>1, <2>2, ThreadsType
  <2>4. DOMAIN call = CallFields /\ call.function \in {"chat", "json"}
    BY <1>1 DEF CallInv, Replying
  <2>5. DOMAIN call' = CallFields /\ call'.function \in {"chat", "json"}
    BY <2>1, <2>4, AnsweredIs
  <2>6. Typed'
    BY <2>1, <2>3 DEF CallInv, Typed
  <2> QED
    BY <1>1, <2>1, <2>5, <2>6 DEF CallInv, Asking, Calling, Replying, Sending
<1> QED
  BY <1>2, <1>3

\* One event or two are taken from the stream, the chunk is collected.
LEMMA EventKeeps ==
    ASSUME CallInv, Event
    PROVE  CallInv'
<1>1. phase = "streaming" /\ UNCHANGED <<provider, call>>
  BY DEF Event
<1> DEFINE Bound(i) == MostDeltas(left[i])
           Taken(i, n) ==
              /\ MayCome(i)
              /\ LET deltas == SubSeq(left[i], 1, n)
                     rest == [left EXCEPT ![i] = SubSeq(@, n + 1, Len(@))]
                     last == \A j \in DOMAIN rest : rest[j] = <<>>
                     chunk == StreamEvent(provider, st, deltas, call.discard)
                     quiet == Quiet(provider, deltas[1], call.discard)
                     content == IF first /\ ~quiet /\ PrefillsStream(provider, call)
                                THEN PrefillChunk(chunk.content) ELSE chunk.content
                 IN  IF ~chunk.ok /\ first THEN Fail("InferenceServer")
                     ELSE /\ left' = IF last THEN <<>> ELSE rest
                          /\ phase' = IF last THEN "answered" ELSE "streaming"
                          /\ st' = IF last THEN Start ELSE chunk.st
                          /\ got' = IF ~chunk.ok THEN got
                                    ELSE IF call.function = "json" THEN CollectJson(got, JsonChunk(content))
                                    ELSE CollectAll(got, content)
                          /\ received' = IF call.endpoint = "openai" THEN PrepareEvents(received, call, chunk, content) ELSE received
<1>2. \E i \in DOMAIN left : \E n \in 1 .. Bound(i) : Taken(i, n)
  BY DEF Event
<1>3. PICK i \in DOMAIN left : \E n \in 1 .. Bound(i) : Taken(i, n)
  BY <1>2
<1>4. PICK n \in 1 .. Bound(i) : Taken(i, n)
  BY <1>3
<1> DEFINE thread == left[i]
           deltas == SubSeq(thread, 1, n)
           after == SubSeq(thread, n + 1, Len(thread))
           rest == [left EXCEPT ![i] = after]
           last == \A j \in DOMAIN rest : rest[j] = <<>>
           chunk == StreamEvent(provider, st, deltas, call.discard)
           quiet == Quiet(provider, deltas[1], call.discard)
           opens == first /\ ~quiet /\ PrefillsStream(provider, call)
           prefilled == PrefillChunk(chunk.content)
           content == IF opens THEN prefilled ELSE chunk.content
<1>5. IF ~chunk.ok /\ first THEN Fail("InferenceServer")
      ELSE /\ left' = IF last THEN <<>> ELSE rest
           /\ phase' = IF last THEN "answered" ELSE "streaming"
           /\ st' = IF last THEN Start ELSE chunk.st
           /\ got' = IF ~chunk.ok THEN got
                     ELSE IF call.function = "json" THEN CollectJson(got, JsonChunk(content))
                     ELSE CollectAll(got, content)
           /\ received' = IF call.endpoint = "openai" THEN PrepareEvents(received, call, chunk, content) ELSE received
  BY <1>4
<1>6. got \in Seq(Blocks) /\ received \in Receipts /\ left \in Seq(Seq(DeltaSet)) /\ st \in Memories
  BY DEF CallInv, Typed
<1>7. thread \in Seq(DeltaSet) /\ thread # << >>
  BY <1>4, <1>6 DEF MayCome
<1>8. n \in {1, 2} /\ n <= Len(thread)
  BY <1>4, <1>7 DEF MostDeltas
<1> HIDE DEF thread
<1>9. Fired(deltas)
  <2>1. deltas \in Seq(DeltaSet) /\ Len(deltas) = n
    BY <1>7, <1>8
  <2> QED
    BY <1>8, <2>1 DEF Fired
<1>10. after \in Seq(DeltaSet)
  BY <1>7, <1>8
<1> HIDE DEF deltas, after
<1>11. rest \in Seq(Seq(DeltaSet))
  BY <1>6, <1>10, ReplaceOne
<1>12. Streams(chunk)
  BY <1>6, <1>9, StreamEventStreams
<1> HIDE DEF rest, last, chunk, quiet, opens
<1>13. chunk.ok \in BOOLEAN /\ chunk.st \in Memories /\ chunk.content \in Seq(Blocks)
  BY <1>12 DEF Streams
<1>14. content \in Seq(Blocks)
  BY <1>13, PrefillChunkType
<1> HIDE DEF content
<1>15. CASE ~chunk.ok /\ first
  BY <1>1, <1>5, <1>15, FailKeeps
<1>16. CASE ~(~chunk.ok /\ first)
  <2>1. /\ left' = IF last THEN <<>> ELSE rest
        /\ phase' = IF last THEN "answered" ELSE "streaming"
        /\ st' = IF last THEN Start ELSE chunk.st
        /\ got' = IF ~chunk.ok THEN got
                  ELSE IF call.function = "json" THEN CollectJson(got, JsonChunk(content))
                  ELSE CollectAll(got, content)
        /\ received' = IF call.endpoint = "openai" THEN PrepareEvents(received, call, chunk, content) ELSE received
    BY <1>5, <1>16
  <2>2. left' \in Seq(Seq(DeltaSet)) /\ st' \in Memories
    BY <1>11, <1>13, <2>1, NothingYet
  <2>3. got' \in Seq(Blocks)
    <3>1. CollectJson(got, JsonChunk(content)) \in Seq(Blocks) /\ CollectAll(got, content) \in Seq(Blocks)
      BY <1>6, <1>14, CollectJsonType, CollectAllType
    <3> QED
      BY <1>6, <2>1, <3>1
  <2>4. received' \in Receipts
    <3>1. PrepareEvents(received, call, chunk, content) \in Receipts
      BY <1>6, <1>14, PrepareEventsType
    <3> QED
      BY <1>6, <2>1, <3>1
  <2>5. phase' \in {"answered", "streaming"}
    BY <2>1
  <2>6. DOMAIN call = CallFields /\ call.function \in {"chat", "json"}
    BY <1>1 DEF CallInv, Replying
  <2>7. Typed'
    BY <2>2, <2>3, <2>4 DEF Typed
  <2> QED
    BY <1>1, <2>5, <2>6, <2>7 DEF CallInv, Asking, Calling, Replying, Sending
<1> QED
  BY <1>15, <1>16

\* An event is lost.
LEMMA GarbledKeeps ==
    ASSUME CallInv, Garbled
    PROVE  CallInv'
<1>1. phase = "streaming" /\ UNCHANGED <<provider, call>>
  BY DEF Garbled
<1>2. CASE first
  <2>1. Fail("Garbled")
    BY <1>2 DEF Garbled
  <2> QED
    BY <1>1, <2>1, FailKeeps
<1>3. CASE ~first
  <2>1. PICK i \in DOMAIN left : MayCome(i) /\ left' = [left EXCEPT ![i] = Tail(left[i])]
    BY <1>3 DEF Garbled
  <2>2. UNCHANGED <<phase, st, got, received>>
    BY <1>3 DEF Garbled
  <2>3. left \in Seq(Seq(DeltaSet))
    BY DEF CallInv, Typed
  <2> DEFINE thread == left[i]
             after == Tail(thread)
  <2>4. thread \in Seq(DeltaSet) /\ thread # << >>
    BY <2>1, <2>3 DEF MayCome
  <2>5. left' = [left EXCEPT ![i] = after]
    BY <2>1
  <2> HIDE DEF thread
  <2>6. after \in Seq(DeltaSet)
    BY <2>4
  <2> HIDE DEF after
  <2>7. left' \in Seq(Seq(DeltaSet))
    BY <2>3, <2>5, <2>6, ReplaceOne
  <2>8. Typed'
    BY <2>2, <2>7 DEF CallInv, Typed
  <2> QED
    BY <1>1, <2>2, <2>8 DEF CallInv, Asking, Calling, Replying, Sending
<1> QED
  BY <1>2, <1>3

\* The response of the OpenAI-compatible endpoint has a text and calls.
LEMMA OpenAICompatibleResponseType ==
    ASSUME NEW r, NEW content \in Seq(Blocks), NEW x, x = OpenAICompatibleResponse(r, content)
    PROVE  x.text \in Seq(Words) /\ x.calls \in Seq(Calls)
<1>1. CASE r.function = "json"
  <2> DEFINE out == JsonOutput(content)
             text == Pieces(out, "text")
  <2>1. out \in Seq(Blocks)
    BY JsonOutputType
  <2>2. x.text = text /\ x.calls = << >>
    BY <1>1 DEF OpenAICompatibleResponse
  <2> HIDE DEF out
  <2>3. text \in Seq(Words)
    BY <2>1, PiecesType
  <2>4. << >> \in Seq(Calls)
    OBVIOUS
  <2> QED
    BY <2>2, <2>3, <2>4
<1>2. CASE r.function # "json"
  <2> DEFINE text == Pieces(content, "text")
             calls == OfType(content, {"tool_call"})
  <2>1. x.text = text /\ x.calls = calls
    BY <1>2 DEF OpenAICompatibleResponse, ProcessChatContent
  <2>2. text \in Seq(Words) /\ calls \in Seq(Calls)
    BY PiecesType, CallsOf
  <2> QED
    BY <2>1, <2>2
<1> QED
  BY <1>1, <1>2

\* The next turn at the OpenAI-compatible endpoint has messages in which results follow
\* calls.
LEMMA OpenAITurnIs ==
    ASSUME got \in Seq(Blocks), received \in Receipts
    PROVE  OpenAITurn \in Seq(OpenAIInputs) /\ OpenAIResultsFollow(OpenAITurn)
<1> DEFINE x == OpenAICompatibleResponse(call, got)
           r == IF call.stream THEN received ELSE x
           m == OpenAITurn
<1>1. m = OpenAITurnOf(r)
  BY DEF OpenAITurn, OpenAITurnOf, OpenAIHello, OpenAIBye
<1>2. received.text \in Seq(Words) /\ received.calls \in Seq(Calls)
  BY DEF Receipts
<1>3. x.text \in Seq(Words) /\ x.calls \in Seq(Calls)
  BY OpenAICompatibleResponseType
<1> HIDE DEF x
<1>4. r.text \in Seq(Words) /\ r.calls \in Seq(Calls)
  BY <1>2, <1>3
<1> HIDE DEF r, m
<1>5. m \in Seq(OpenAIInputs) /\ OpenAIResultsFollow(m)
  BY <1>1, <1>4, OpenAITurnAsks
<1> QED
  BY <1>5 DEF m

\* The client asks again: with the messages, and nothing more than a first request may have.
LEMMA SendBackKeeps ==
    ASSUME CallInv, SendBack
    PROVE  CallInv'
<1>1. phase = "answered" /\ phase' = "asked" /\ got' = << >> /\ received' = NothingReceived /\ UNCHANGED <<provider, left, st>>
  BY DEF SendBack, GoesOn
<1>2. got \in Seq(Blocks) /\ received \in Receipts
  BY DEF CallInv, Typed
<1> DEFINE m == IF call.endpoint = "openai" THEN OpenAITurn ELSE NativeTurn
           json == IF call.tools = {"respond"} THEN "absent" ELSE call.json
           format == IF call.tools = {"respond"} THEN "absent"
                     ELSE CASE call.json = "on" -> "json_object" [] call.json = "strict" -> "json_schema" [] OTHER -> "text"
           base == IF call.tools = {"respond"} THEN "implicit_tool" ELSE "absent"
           all == error = "none"
           c == [Asked EXCEPT !.endpoint = call.endpoint, !.messages = m, !.function = call.function, !.json = json,
                              !.format = format, !.base = base, !.schema = call.schema, !.model = call.model,
                              !.stream = call.stream, !.before = got, !.whole = all]
<1>3. call' = c
  BY DEF SendBack
<1>4. IF call.endpoint = "openai" THEN m \in Seq(OpenAIInputs) /\ OpenAIResultsFollow(m)
      ELSE m \in Seq(Inputs) /\ ResultsFollow(m)
  BY <1>2, OpenAITurnIs, NativeTurnAsks
<1> HIDE DEF m, json, format, base, all
<1>5. /\ DOMAIN c = DOMAIN Asked /\ c.system = Asked.system /\ c.dynamic = Asked.dynamic
      /\ c.endpoint = call.endpoint /\ c.messages = m
  <2>1. {"endpoint", "messages", "system", "dynamic"} \subseteq DOMAIN Asked
    BY DEF Asked
  <2> QED
    BY <2>1
<1> HIDE DEF c
<1>6. /\ {"messages", "system", "dynamic", "json", "schema"} \subseteq DOMAIN c
      /\ c.system \in Seq(Blocks) /\ {"allowed", "choice"} \subseteq DOMAIN c.dynamic /\ c.dynamic.choice = "absent"
  <2>1. << >> \in Seq(Blocks)
    OBVIOUS
  <2> QED
    BY <1>5, <2>1 DEF Asked, NoDynamicTools
<1>7. Askable(c)
  BY <1>4, <1>5, <1>6 DEF Askable
<1>8. Typed'
  BY <1>1, NothingYet DEF CallInv, Typed
<1> QED
  BY <1>1, <1>3, <1>7, <1>8 DEF CallInv, Asking, Calling, Replying, Sending

\* The invariant holds in every state: a request that can be asked stays one that can be sent,
\* through the gateway, the provider's answer, streamed or not, and back.
THEOREM CallStaysSane == Spec => []CallInv
<1>1. Init => CallInv
  BY CallInvStarts
<1>2. CallInv /\ [Next]_vars => CallInv'
  <2> SUFFICES ASSUME CallInv, [Next]_vars
               PROVE  CallInv'
    OBVIOUS
  <2>1. CASE Ask
    BY <2>1, AskKeeps
  <2>2. CASE Prepare
    BY <2>2, PrepareKeeps
  <2>3. CASE Respond
    BY <2>3, RespondKeeps
  <2>4. CASE OpenStream
    BY <2>4, OpenStreamKeeps
  <2>5. CASE Event
    BY <2>5, EventKeeps
  <2>6. CASE Garbled
    BY <2>6, GarbledKeeps
  <2>7. CASE SendBack
    BY <2>7, SendBackKeeps
  <2>8. CASE Ended \/ UNCHANGED vars
    BY <2>8 DEF Ended, vars, CallInv, Typed, Asking, Calling, Replying, Sending
  <2> QED
    BY <2>1, <2>2, <2>3, <2>4, <2>5, <2>6, <2>7, <2>8 DEF Next
<1> QED
  BY <1>1, <1>2, PTL DEF Spec

\* A request that is sent under the invariant carries its input and is accepted.
LEMMA SentAsPromised ==
    ASSUME CallInv
    PROVE  InputIsCarried /\ RequestIsAccepted
<1>1. phase = "sent" => /\ provider \in OpenAILike \cup Gemini \cup {"anthropic", "vertex_anthropic", "bedrock"}
                        /\ Callable(call) /\ Request(provider, call).ok /\ sent = Request(provider, call).value
  BY ProvidersAssumption DEF CallInv, Calling, Sending
<1> QED
  BY <1>1, SentFits

\* Every request that is sent holds every block of the client's conversation once, in order, the
\* system message, the thoughts and signatures, and the tools and the choice among them.
THEOREM InputsAreCarried == Spec => []InputIsCarried
BY CallStaysSane, SentAsPromised, PTL

\* Every request that is sent keeps the rules of its provider's API: results follow calls, JSON
\* mode mentions JSON, the roles alternate where they must, and no message is empty where that is
\* refused.
THEOREM RequestsAreAccepted == Spec => []RequestIsAccepted
BY CallStaysSane, SentAsPromised, PTL

===============================================================================
