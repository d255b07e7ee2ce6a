------------------------- MODULE WindowThreadProofs -------------------------
(***************************************************************************)
(* Proofs about CWindowThread, Operation and the UI loop for any number of *)
(* operations, any number of lines and any value of g_maxLinesWithoutSync. *)
(* First the lemmas about OnlyIn, the filter that RemoveTask applies, then *)
(* WindowInv, the inductive invariant, and what follows from it.           *)
(***************************************************************************)
EXTENDS WindowThread, NaturalsInduction, WellFoundedInduction, SequenceTheorems, TLAPS

-----------------------------------------------------------------------------
(* What a filter keeps of a queue.                                          *)

\* The least-number principle, by which the lemmas below do their induction.
LEMMA LeastNat ==
    ASSUME NEW T \in SUBSET Nat, T # {}
    PROVE  \E n \in T : \A m \in T : n <= m
<1>1. IsWellFoundedOn(OpToRel(<, Nat), Nat)
  BY NatLessThanWellFounded
<1>2. \E n \in T : \A m \in T : ~(<<m, n>> \in OpToRel(<, Nat))
  BY <1>1, WFMin
<1>3. PICK n \in T : \A m \in T : ~(<<m, n>> \in OpToRel(<, Nat))
  BY <1>2
<1>4. ASSUME NEW m \in T PROVE n <= m
  <2>1. ~(m < n)
    BY <1>3, <1>4 DEF OpToRel
  <2> QED BY <2>1
<1> QED BY <1>4

\* The recursion that defines Kept has a solution.
LEMMA KeptExists ==
    ASSUME NEW q, NEW S, Len(q) \in Nat
    PROVE  \E f : f = [i \in 0 .. Len(q) |-> IF i = 0 THEN << >>
                        ELSE IF q[i] \in S THEN Append(f[i - 1], q[i]) ELSE f[i - 1]]
<1> DEFINE Def(f, n) == f = [i \in 0 .. n |-> IF i = 0 THEN << >>
                        ELSE IF q[i] \in S THEN Append(f[i - 1], q[i]) ELSE f[i - 1]]
           Bad == {n \in Nat : ~ \E f : Def(f, n)}
<1> SUFFICES Bad = {}
  OBVIOUS
<1> SUFFICES ASSUME Bad # {} PROVE FALSE
  OBVIOUS
<1>1. PICK n \in Bad : \A m \in Bad : n <= m
  <2> Bad \in SUBSET Nat
    OBVIOUS
  <2> HIDE DEF Bad
  <2> QED BY LeastNat
<1>2. CASE n = 0
  <2> DEFINE g == [i \in 0 .. 0 |-> << >>]
  <2>1. Def(g, 0)
    OBVIOUS
  <2> QED BY <1>1, <1>2, <2>1
<1>3. CASE n # 0
  <2>1. n - 1 \in Nat /\ n - 1 \notin Bad /\ n \in Nat
    <3> Bad \subseteq Nat
      OBVIOUS
    <3> HIDE DEF Bad
    <3> QED BY <1>1, <1>3
  <2>2. PICK f : Def(f, n - 1)
    BY <2>1
  <2> DEFINE g == [i \in 0 .. n |-> IF i = n THEN (IF q[n] \in S THEN Append(f[n - 1], q[n]) ELSE f[n - 1])
                                            ELSE f[i]]
  <2>3. ASSUME NEW i \in 0 .. n
        PROVE  g[i] = IF i = 0 THEN << >> ELSE IF q[i] \in S THEN Append(g[i - 1], q[i]) ELSE g[i - 1]
    <3>1. CASE i = 0
      <4>1. g[i] = f[i] /\ 0 \in 0 .. (n-1)
        BY <3>1, <1>3, <2>1
      <4>2. f[0] = << >>
        BY <2>2, <4>1
      <4> QED BY <3>1, <4>1, <4>2
    <3>2. CASE i # 0 /\ i # n
      <4>1. i \in 0 .. (n - 1) /\ i - 1 \in 0 .. n /\ i - 1 # n
        BY <3>2, <2>1
      <4>2. f[i] = IF q[i] \in S THEN Append(f[i - 1], q[i]) ELSE f[i - 1]
        BY <2>2, <4>1, <3>2
      <4>3. g[i] = f[i] /\ g[i - 1] = f[i - 1]
        BY <4>1, <3>2
      <4> QED BY <4>2, <4>3, <3>2
    <3>3. CASE i = n
      <4>1. g[i - 1] = f[i - 1] /\ n - 1 \in 0 .. n
        BY <2>1, <3>3
      <4> QED BY <4>1, <3>3, <1>3
    <3> QED BY <3>1, <3>2, <3>3
  <2>4. Def(g, n)
    <3> HIDE DEF g
    <3>1. g = [i \in 0 .. n |-> g[i]]
      BY DEF g
    <3> QED BY <3>1, <2>3
  <2> QED BY <1>1, <2>4
<1> QED BY <1>2, <1>3

\* So Kept is one.
LEMMA KeptDef ==
    ASSUME NEW q, NEW S, Len(q) \in Nat
    PROVE  /\ Kept(q, S)[0] = << >>
           /\ \A i \in 1 .. Len(q) :
                Kept(q, S)[i] = IF q[i] \in S THEN Append(Kept(q, S)[i - 1], q[i])
                                              ELSE Kept(q, S)[i - 1]
<1>1. Kept(q, S) = [i \in 0 .. Len(q) |-> IF i = 0 THEN << >>
                     ELSE IF q[i] \in S THEN Append(Kept(q, S)[i - 1], q[i]) ELSE Kept(q, S)[i - 1]]
  <2> DEFINE Def(f) == f = [i \in 0 .. Len(q) |-> IF i = 0 THEN << >>
                     ELSE IF q[i] \in S THEN Append(f[i - 1], q[i]) ELSE f[i - 1]]
  <2>1. \E f : Def(f)
    BY KeptExists
  <2>2. Kept(q, S) = CHOOSE f : Def(f)
    BY Zenon DEF Kept
  <2>3. Def(CHOOSE f : Def(f))
    <3> HIDE DEF Def
    <3> QED BY <2>1, Zenon
  <2>4. Def(Kept(q, S))
    <3> HIDE DEF Def
    <3> QED BY <2>2, <2>3, Zenon
  <2> QED BY <2>4, Zenon
<1> HIDE DEF Kept
<1>2. 0 \in 0 .. Len(q) /\ \A i \in 1 .. Len(q) : i \in 0 .. Len(q) /\ i # 0
  OBVIOUS
<1> QED BY <1>1, <1>2

\* What is kept of a prefix depends on the prefix only.
LEMMA KeptPrefix ==
    ASSUME NEW M, NEW q \in Seq(M), NEW m \in M, NEW S
    PROVE  \A i \in 0 .. Len(q) : Kept(Append(q, m), S)[i] = Kept(q, S)[i]
<1> DEFINE r == Append(q, m)
           Bad == {i \in 0 .. Len(q) : Kept(r, S)[i] # Kept(q, S)[i]}
<1> SUFFICES ASSUME Bad # {} PROVE FALSE
  OBVIOUS
<1>1. Len(q) \in Nat /\ r \in Seq(M) /\ Len(r) = Len(q) + 1 /\ \A i \in 1 .. Len(q) : r[i] = q[i]
  OBVIOUS
<1>2. Bad \in SUBSET Nat
  BY <1>1
<1>3. PICK n \in Bad : \A k \in Bad : n <= k
  <2> HIDE DEF Bad
  <2> QED BY <1>2, LeastNat
<1>4. n \in 0 .. Len(q) /\ Kept(r, S)[n] # Kept(q, S)[n]
  OBVIOUS
<1> HIDE DEF r
<1>5. n # 0
  BY <1>1, <1>4, KeptDef
<1>6. n - 1 \in 0 .. Len(q) /\ n - 1 \notin Bad
  <2> n - 1 \in Nat /\ ~(n <= n - 1)
    BY <1>1, <1>4, <1>5
  <2> HIDE DEF Bad
  <2> QED BY <1>1, <1>3, <1>4, <1>5
<1>7. Kept(r, S)[n - 1] = Kept(q, S)[n - 1]
  BY <1>6
<1>8. n \in 1 .. Len(q) /\ n \in 1 .. Len(r)
  BY <1>1, <1>4, <1>5
<1> QED BY <1>1, <1>4, <1>7, <1>8, KeptDef

\* Nothing is kept of nothing.
LEMMA OnlyInEmpty == ASSUME NEW S PROVE OnlyIn(<< >>, S) = << >>
BY KeptDef DEF OnlyIn

\* The filter of a queue, by its last element.
LEMMA OnlyInAppend ==
    ASSUME NEW M, NEW q \in Seq(M), NEW m \in M, NEW S
    PROVE  OnlyIn(Append(q, m), S) =
             IF m \in S THEN Append(OnlyIn(q, S), m) ELSE OnlyIn(q, S)
<1>1. /\ Len(q) \in Nat /\ Len(Append(q, m)) = Len(q) + 1 /\ Append(q, m)[Len(q) + 1] = m
      /\ Len(q) \in 0 .. Len(q) /\ Len(q) + 1 \in 1 .. Len(Append(q, m)) /\ (Len(q) + 1) - 1 = Len(q)
  OBVIOUS
<1>2. Kept(Append(q, m), S)[Len(q)] = Kept(q, S)[Len(q)]
  BY <1>1, KeptPrefix
<1>3. Kept(Append(q, m), S)[Len(q) + 1] = IF m \in S THEN Append(Kept(Append(q, m), S)[Len(q)], m)
                                                ELSE Kept(Append(q, m), S)[Len(q)]
  <2> DEFINE r == Append(q, m)
  <2>1. Len(r) \in Nat /\ r[Len(q) + 1] = m /\ Len(q) + 1 \in 1 .. Len(r) /\ (Len(q) + 1) - 1 = Len(q)
    BY <1>1
  <2> HIDE DEF r
  <2>2. Kept(r, S)[Len(q) + 1] = IF m \in S THEN Append(Kept(r, S)[Len(q)], m) ELSE Kept(r, S)[Len(q)]
    BY <2>1, KeptDef
  <2> QED BY <2>2 DEF r
<1> QED BY <1>1, <1>2, <1>3 DEF OnlyIn

\* A non-empty sequence is its front and its last element.
LEMMA FrontLast ==
    ASSUME NEW M, NEW q \in Seq(M), q # << >>
    PROVE  \E f \in Seq(M), m \in M : q = Append(f, m) /\ Len(q) = Len(f) + 1
<1> DEFINE f == [i \in 1 .. Len(q) - 1 |-> q[i]]
<1>1. Len(q) \in Nat \ {0} /\ Len(q) - 1 \in Nat /\ q[Len(q)] \in M
  BY EmptySeq
<1>2. \A i \in 1 .. Len(q) - 1 : q[i] \in M
  BY <1>1
<1>3. f \in Seq(M) /\ Len(f) = Len(q) - 1 /\ \A i \in 1 .. Len(q) - 1 : f[i] = q[i]
  BY <1>1, <1>2
<1> HIDE DEF f
<1>4. Append(f, q[Len(q)]) \in Seq(M) /\ Len(Append(f, q[Len(q)])) = Len(q)
  BY <1>1, <1>3
<1>5. \A i \in 1 .. Len(q) : Append(f, q[Len(q)])[i] = q[i]
  BY <1>1, <1>3
<1>6. q = Append(f, q[Len(q)])
  BY <1>4, <1>5, SeqEqual
<1> QED BY <1>1, <1>3, <1>6

\* Appending to the second of two lists appends to their concatenation.
LEMMA AppendConcat ==
    ASSUME NEW S, NEW s \in Seq(S), NEW q \in Seq(S), NEW e \in S
    PROVE  s \o Append(q, e) = Append(s \o q, e)
OBVIOUS

\* What is kept was there and is in S.
LEMMA OnlyInType ==
    ASSUME NEW M, NEW S
    PROVE  \A q \in Seq(M) : OnlyIn(q, S) \in Seq(M \cap S)
<1> DEFINE Bad == {n \in Nat : \E q \in Seq(M) : Len(q) = n /\ OnlyIn(q, S) \notin Seq(M \cap S)}
<1> SUFFICES ASSUME Bad # {} PROVE FALSE
  OBVIOUS
<1>1. PICK n \in Bad : \A k \in Bad : n <= k
  <2> Bad \in SUBSET Nat
    OBVIOUS
  <2> HIDE DEF Bad
  <2> QED BY LeastNat
<1>2. PICK q \in Seq(M) : Len(q) = n /\ OnlyIn(q, S) \notin Seq(M \cap S)
  BY <1>1
<1> HIDE DEF Bad
<1>3. q # << >>
  BY <1>2, OnlyInEmpty
<1>4. PICK f \in Seq(M), m \in M : q = Append(f, m) /\ Len(q) = Len(f) + 1
  BY <1>3, FrontLast
<1>5. Len(f) \in Nat /\ ~(n <= Len(f))
  BY <1>2, <1>4
<1>6. OnlyIn(f, S) \in Seq(M \cap S)
  <2>1. Len(f) \notin Bad
    BY <1>1, <1>5
  <2> QED BY <2>1, <1>5 DEF Bad
<1>7. OnlyIn(q, S) = IF m \in S THEN Append(OnlyIn(f, S), m) ELSE OnlyIn(f, S)
  BY <1>4, OnlyInAppend
<1> QED BY <1>2, <1>6, <1>7

\* The parts of a queue are filtered on their own.
LEMMA OnlyInConcat ==
    ASSUME NEW M, NEW S, NEW p \in Seq(M)
    PROVE  \A q \in Seq(M) : OnlyIn(p \o q, S) = OnlyIn(p, S) \o OnlyIn(q, S)
<1> DEFINE Bad == {n \in Nat : \E q \in Seq(M) : Len(q) = n /\ OnlyIn(p \o q, S) # OnlyIn(p, S) \o OnlyIn(q, S)}
<1> SUFFICES ASSUME Bad # {} PROVE FALSE
  OBVIOUS
<1>1. PICK n \in Bad : \A k \in Bad : n <= k
  <2> Bad \in SUBSET Nat
    OBVIOUS
  <2> HIDE DEF Bad
  <2> QED BY LeastNat
<1>2. PICK q \in Seq(M) : Len(q) = n /\ OnlyIn(p \o q, S) # OnlyIn(p, S) \o OnlyIn(q, S)
  BY <1>1
<1> HIDE DEF Bad
<1>3. q # << >>
  <2>1. p \o << >> = p /\ OnlyIn(p, S) \o << >> = OnlyIn(p, S)
    BY OnlyInType, ConcatEmptySeq
  <2> QED BY <1>2, <2>1, OnlyInEmpty
<1>4. PICK f \in Seq(M), m \in M : q = Append(f, m) /\ Len(q) = Len(f) + 1
  BY <1>3, FrontLast
<1>5. Len(f) \in Nat /\ ~(n <= Len(f))
  BY <1>2, <1>4
<1>6. OnlyIn(p \o f, S) = OnlyIn(p, S) \o OnlyIn(f, S)
  <2>1. Len(f) \notin Bad
    BY <1>1, <1>5
  <2> QED BY <2>1, <1>5 DEF Bad
<1>7. p \o q = Append(p \o f, m) /\ p \o f \in Seq(M)
  <2>1. p \o Append(f, m) = Append(p \o f, m)
    BY AppendConcat
  <2> QED BY <1>4, <2>1, ConcatProperties
<1>8. OnlyIn(p \o q, S) = IF m \in S THEN Append(OnlyIn(p \o f, S), m) ELSE OnlyIn(p \o f, S)
  <2> DEFINE r == p \o f
  <2>1. r \in Seq(M) /\ p \o q = Append(r, m)
    BY <1>7
  <2> HIDE DEF r
  <2>2. OnlyIn(Append(r, m), S) = IF m \in S THEN Append(OnlyIn(r, S), m) ELSE OnlyIn(r, S)
    BY <2>1, OnlyInAppend
  <2> QED BY <2>1, <2>2 DEF r
<1>9. OnlyIn(q, S) = IF m \in S THEN Append(OnlyIn(f, S), m) ELSE OnlyIn(f, S)
  BY <1>4, OnlyInAppend
<1>10. OnlyIn(p, S) \in Seq(M \cap S) /\ OnlyIn(f, S) \in Seq(M \cap S)
  BY OnlyInType
<1>11. m \in M \cap S => OnlyIn(p, S) \o Append(OnlyIn(f, S), m) = Append(OnlyIn(p, S) \o OnlyIn(f, S), m)
  <2> DEFINE s == OnlyIn(p, S)
             t == OnlyIn(f, S)
  <2>1. s \in Seq(M \cap S) /\ t \in Seq(M \cap S)
    BY <1>10
  <2> HIDE DEF s, t
  <2>2. m \in M \cap S => s \o Append(t, m) = Append(s \o t, m)
    BY <2>1, AppendConcat
  <2> QED BY <2>2 DEF s, t
<1> QED BY <1>2, <1>6, <1>8, <1>9, <1>11

\* A filter for less than a queue was already filtered for.
LEMMA OnlyInTwice ==
    ASSUME NEW M, NEW S, NEW R
    PROVE  \A q \in Seq(M) : OnlyIn(OnlyIn(q, S), R) = OnlyIn(q, S \cap R)
<1> DEFINE Bad == {n \in Nat : \E q \in Seq(M) : Len(q) = n /\ OnlyIn(OnlyIn(q, S), R) # OnlyIn(q, S \cap R)}
<1> SUFFICES ASSUME Bad # {} PROVE FALSE
  <2> SUFFICES ASSUME NEW q \in Seq(M), OnlyIn(OnlyIn(q, S), R) # OnlyIn(q, S \cap R)
               PROVE  Bad # {}
    BY Zenon
  <2> Len(q) \in Nat
    OBVIOUS
  <2> QED BY Zenon
<1>1. PICK n \in Bad : \A k \in Bad : n <= k
  <2> Bad \in SUBSET Nat
    OBVIOUS
  <2> HIDE DEF Bad
  <2> QED BY LeastNat
<1>2. PICK q \in Seq(M) : Len(q) = n /\ OnlyIn(OnlyIn(q, S), R) # OnlyIn(q, S \cap R)
  BY <1>1
<1> HIDE DEF Bad
<1>3. q # << >>
  BY <1>2, OnlyInEmpty
<1>4. PICK f \in Seq(M), m \in M : q = Append(f, m) /\ Len(q) = Len(f) + 1
  BY <1>3, FrontLast
<1>5. Len(f) \in Nat /\ ~(n <= Len(f))
  BY <1>2, <1>4
<1>6. OnlyIn(OnlyIn(f, S), R) = OnlyIn(f, S \cap R)
  <2>1. Len(f) \notin Bad
    BY <1>1, <1>5
  <2> QED BY <2>1, <1>5 DEF Bad
<1>7. OnlyIn(q, S) = IF m \in S THEN Append(OnlyIn(f, S), m) ELSE OnlyIn(f, S)
  BY <1>4, OnlyInAppend
<1>8. OnlyIn(q, S \cap R) = IF m \in S \cap R THEN Append(OnlyIn(f, S \cap R), m) ELSE OnlyIn(f, S \cap R)
  BY <1>4, OnlyInAppend
<1>9. OnlyIn(Append(OnlyIn(f, S), m), R) =
        IF m \in R THEN Append(OnlyIn(OnlyIn(f, S), R), m) ELSE OnlyIn(OnlyIn(f, S), R)
  <2> DEFINE r == OnlyIn(f, S)
  <2>1. r \in Seq(M \cap S)
    BY OnlyInType
  <2>2. r \in Seq(M)
    BY <2>1, SeqMonotonic
  <2> HIDE DEF r
  <2>3. OnlyIn(Append(r, m), R) = IF m \in R THEN Append(OnlyIn(r, R), m) ELSE OnlyIn(r, R)
    BY <2>2, OnlyInAppend
  <2> QED BY <2>3 DEF r
<1>10. CASE m \in S
  <2>1. OnlyIn(OnlyIn(q, S), R) = IF m \in R THEN Append(OnlyIn(f, S \cap R), m) ELSE OnlyIn(f, S \cap R)
    BY <1>6, <1>7, <1>9, <1>10
  <2>2. m \in S \cap R <=> m \in R
    BY <1>10
  <2> QED BY <1>2, <1>8, <2>1, <2>2
<1>11. CASE m \notin S
  <2>1. m \notin S \cap R
    BY <1>11
  <2> QED BY <1>2, <1>6, <1>7, <1>8, <1>11, <2>1
<1> QED BY <1>10, <1>11

\* The filter of a queue, by its head.
LEMMA OnlyInHead ==
    ASSUME NEW M, NEW S, NEW q \in Seq(M), q # << >>
    PROVE  OnlyIn(q, S) = IF Head(q) \in S THEN << Head(q) >> \o OnlyIn(Tail(q), S)
                                           ELSE OnlyIn(Tail(q), S)
<1>1. Head(q) \in M /\ Tail(q) \in Seq(M) /\ << Head(q) >> \in Seq(M)
  BY HeadTailProperties
<1>2. q = << Head(q) >> \o Tail(q)
  OBVIOUS
<1>3. OnlyIn(q, S) = OnlyIn(<< Head(q) >>, S) \o OnlyIn(Tail(q), S)
  BY <1>1, <1>2, OnlyInConcat
<1>4. << Head(q) >> = Append(<< >>, Head(q)) /\ << >> \in Seq(M)
  OBVIOUS
<1>5. OnlyIn(<< Head(q) >>, S) = IF Head(q) \in S THEN << Head(q) >> ELSE << >>
  <2> DEFINE h == Head(q)
  <2>1. OnlyIn(Append(<< >>, h), S) = IF h \in S THEN Append(OnlyIn(<< >>, S), h) ELSE OnlyIn(<< >>, S)
    BY <1>1, <1>4, OnlyInAppend, Zenon
  <2>2. OnlyIn(<< >>, S) = << >>
    BY OnlyInEmpty
  <2> QED BY <1>4, <2>1, <2>2
<1>6. OnlyIn(Tail(q), S) \in Seq(M \cap S)
  BY <1>1, OnlyInType
<1>7. << >> \o OnlyIn(Tail(q), S) = OnlyIn(Tail(q), S)
  BY <1>6, ConcatEmptySeq
<1> QED BY <1>3, <1>5, <1>7

\* What is in a queue.
Elems(q) == {q[i] : i \in 1 .. Len(q)}

\* Adding to a queue.
LEMMA ElemsAppend ==
    ASSUME NEW M, NEW q \in Seq(M), NEW m \in M
    PROVE  Elems(Append(q, m)) = Elems(q) \cup {m}
<1> DEFINE r == Append(q, m)
<1>1. Len(r) = Len(q) + 1 /\ r[Len(q) + 1] = m /\ \A i \in 1 .. Len(q) : r[i] = q[i]
  OBVIOUS
<1>2. Len(q) \in Nat
  OBVIOUS
<1> HIDE DEF r
<1>3. ASSUME NEW x \in Elems(r) PROVE x \in Elems(q) \cup {m}
  <2>1. PICK i \in 1 .. Len(q) + 1 : x = r[i]
    BY <1>1, <1>3 DEF Elems
  <2>2. i \in 1 .. Len(q) \/ i = Len(q) + 1
    BY <1>2
  <2> QED BY <1>1, <2>1, <2>2 DEF Elems
<1>4. ASSUME NEW x \in Elems(q) \cup {m} PROVE x \in Elems(r)
  <2>1. Len(q) + 1 \in 1 .. Len(r) /\ \A i \in 1 .. Len(q) : i \in 1 .. Len(r)
    BY <1>1, <1>2
  <2> QED BY <1>1, <2>1 DEF Elems
<1> QED BY <1>3, <1>4 DEF r

\* A filter keeps exactly what is in S.
LEMMA OnlyInElems ==
    ASSUME NEW M, NEW S
    PROVE  \A q \in Seq(M) : Elems(OnlyIn(q, S)) = Elems(q) \cap S
<1> DEFINE Bad == {n \in Nat : \E q \in Seq(M) : Len(q) = n /\ Elems(OnlyIn(q, S)) # Elems(q) \cap S}
<1> SUFFICES ASSUME Bad # {} PROVE FALSE
  <2> SUFFICES ASSUME NEW q \in Seq(M), Elems(OnlyIn(q, S)) # Elems(q) \cap S
               PROVE  Bad # {}
    BY Zenon
  <2> Len(q) \in Nat
    OBVIOUS
  <2> QED BY Zenon
<1>1. PICK n \in Bad : \A k \in Bad : n <= k
  <2> Bad \in SUBSET Nat
    OBVIOUS
  <2> HIDE DEF Bad
  <2> QED BY LeastNat
<1>2. PICK q \in Seq(M) : Len(q) = n /\ Elems(OnlyIn(q, S)) # Elems(q) \cap S
  BY <1>1
<1> HIDE DEF Bad
<1>3. q # << >>
  <2>1. Elems(<< >>) = {}
    BY DEF Elems
  <2> QED BY <1>2, <2>1, OnlyInEmpty
<1>4. PICK f \in Seq(M), m \in M : q = Append(f, m) /\ Len(q) = Len(f) + 1
  BY <1>3, FrontLast
<1>5. Len(f) \in Nat /\ ~(n <= Len(f))
  BY <1>2, <1>4
<1>6. Elems(OnlyIn(f, S)) = Elems(f) \cap S
  <2>1. Len(f) \notin Bad
    BY <1>1, <1>5
  <2> QED BY <2>1, <1>5 DEF Bad
<1>7. OnlyIn(q, S) = IF m \in S THEN Append(OnlyIn(f, S), m) ELSE OnlyIn(f, S)
  BY <1>4, OnlyInAppend
<1>8. Elems(q) = Elems(f) \cup {m}
  BY <1>4, ElemsAppend
<1>9. m \in S => Elems(Append(OnlyIn(f, S), m)) = Elems(OnlyIn(f, S)) \cup {m}
  <2> DEFINE r == OnlyIn(f, S)
  <2>1. r \in Seq(M)
    <3>1. r \in Seq(M \cap S)
      BY OnlyInType
    <3> QED BY <3>1, SeqMonotonic
  <2> HIDE DEF r
  <2>2. Elems(Append(r, m)) = Elems(r) \cup {m}
    BY <2>1, ElemsAppend
  <2> QED BY <2>2 DEF r
<1> QED BY <1>2, <1>6, <1>7, <1>8, <1>9

\* A filtered queue is a queue.
LEMMA OnlyInSeq ==
    ASSUME NEW M, NEW S
    PROVE  \A q \in Seq(M) : OnlyIn(q, S) \in Seq(M)
<1>1. \A q \in Seq(M) : OnlyIn(q, S) \in Seq(M \cap S)
  BY OnlyInType
<1> QED BY <1>1, SeqMonotonic

\* What is in two queues.
LEMMA ElemsConcat ==
    ASSUME NEW M, NEW p \in Seq(M), NEW q \in Seq(M)
    PROVE  Elems(p \o q) = Elems(p) \cup Elems(q)
<1> DEFINE r == p \o q
<1>1. /\ Len(p) \in Nat /\ Len(q) \in Nat /\ Len(r) = Len(p) + Len(q)
      /\ \A i \in 1 .. Len(p) : r[i] = p[i]
      /\ \A i \in 1 .. Len(q) : r[Len(p) + i] = q[i]
  OBVIOUS
<1> HIDE DEF r
<1>2. ASSUME NEW x \in Elems(r) PROVE x \in Elems(p) \cup Elems(q)
  <2>1. PICK i \in 1 .. Len(p) + Len(q) : x = r[i]
    BY <1>1, <1>2 DEF Elems
  <2>2. CASE i \in 1 .. Len(p)
    BY <1>1, <2>1, <2>2 DEF Elems
  <2>3. CASE i \notin 1 .. Len(p)
    <3>1. i - Len(p) \in 1 .. Len(q) /\ Len(p) + (i - Len(p)) = i
      BY <1>1, <2>3
    <3>2. r[i] = q[i - Len(p)]
      BY <1>1, <3>1
    <3> QED BY <2>1, <3>1, <3>2 DEF Elems
  <2> QED BY <2>2, <2>3
<1>3. ASSUME NEW x \in Elems(p) \cup Elems(q) PROVE x \in Elems(r)
  <2>1. CASE x \in Elems(p)
    <3>1. PICK i \in 1 .. Len(p) : x = p[i]
      BY <2>1 DEF Elems
    <3>2. i \in 1 .. Len(r) /\ r[i] = x
      BY <1>1, <3>1
    <3> QED BY <3>2 DEF Elems
  <2>2. CASE x \in Elems(q)
    <3>1. PICK i \in 1 .. Len(q) : x = q[i]
      BY <2>2 DEF Elems
    <3>2. Len(p) + i \in 1 .. Len(r) /\ r[Len(p) + i] = x
      BY <1>1, <3>1
    <3> QED BY <3>2 DEF Elems
  <2> QED BY <1>3, <2>1, <2>2
<1> QED BY <1>2, <1>3 DEF r

-----------------------------------------------------------------------------
(* The inductive invariant.                                                 *)

\* What is queued, and the part of it that the operation o has sent.
SyncTask(o) == [op |-> o, kind |-> "sync"]
Queue == buffer \o tasks
OfOp(o) == {m \in Msg : m.op = o}
Sent(o) == OnlyIn(Queue, OfOp(o))

\* Where the UI thread is: the buffer is only filled in a drain, the handler is
\* set from the loop's start to its end, and no command starts before it.
LoopInv ==
    /\ upc # "run" => buffer = << >>
    /\ upc \in {"test", "read", "drain", "run", "cleanup"} => handler
    /\ upc = "closed" => ~handler
    /\ upc = "init" => /\ \A o \in Ops \ Early : ppc[o] \in {"none", "new"}
                       /\ \A i \in 1 .. Len(tasks) : tasks[i].op \in Early

\* The handler is run by a thread that is waking the UI.
HandlerInv == inHandler \subseteq {o \in Ops : ppc[o] = "wake"}

\* A Sync task is the last of what its operation has queued.
SyncLast ==
    \A o \in Ops : \A i \in 1 .. Len(Sent(o)) - 1 : IsReply(Sent(o)[i])

\* While the Sync task of an operation can be run its call has not returned.
SyncHeld ==
    \A o \in Ops :
        SyncTask(o) \in Elems(Sent(o)) => /\ sending[o] = "sync"
                                        /\ ppc[o] \in {"wake", "syncWait"}
                                        /\ ~ready[o]

\* What a thread is about to send, and the event of a Sync that has not added
\* its task yet, which is not set.
SendingInv ==
    \A o \in Ops :
        /\ ppc[o] \in {"none", "new"} => sending[o] = "final" /\ lines[o] = 0
        /\ ppc[o] = "syncWait" => sending[o] = "sync"
        /\ ppc[o] = "push" /\ sending[o] = "sync" => ~ready[o]

\* linesWithoutSync counts what the UI may still have to show.
LinesInv ==
    \A o \in Ops :
        /\ lines[o] <= MaxLines + 1
        /\ ppc[o] = "reply" \/ (ppc[o] \in {"push", "wake"} /\ sending[o] = "line") => lines[o] <= MaxLines
        /\ Backlog(o) <= lines[o] +
             (IF ppc[o] = "done" \/ (ppc[o] = "wake" /\ sending[o] # "sync") THEN 1 ELSE 0)
        /\ ppc[o] \in {"wake", "syncWait"} /\ sending[o] = "sync" /\ ready[o] => Backlog(o) = 0

\* NoLostPost from the swap of a drain to the next read.
WakeInv ==
    /\ upc \in {"run", "test", "read"} /\ ~signal
    /\ \E i \in 1 .. Len(tasks) : tasks[i].op \notin Early
    => \E o \in Ops : ppc[o] = "wake"

WindowInv ==
    /\ TypeOK
    /\ LoopInv
    /\ HandlerInv
    /\ HandlerAlive
    /\ ReplyOrder
    /\ SyncHeld
    /\ SyncLast
    /\ SendingInv
    /\ LinesInv
    /\ WakeInv

-----------------------------------------------------------------------------
(* How a step changes what an operation has queued.                         *)

\* The replies among what an operation has queued are its backlog.
LEMMA BacklogOfSent ==
    ASSUME TypeOK, NEW o \in Ops
    PROVE  Backlog(o) = Len(OnlyIn(Sent(o), Replies))
<1>1. {m \in Replies : m.op = o} = OfOp(o) \cap Replies
  BY DEF OfOp, Replies
<1>2. Queue \in Seq(Msg)
  BY ConcatProperties DEF TypeOK, Queue
<1>3. OnlyIn(OnlyIn(Queue, OfOp(o)), Replies) = OnlyIn(Queue, OfOp(o) \cap Replies)
  BY <1>2, OnlyInTwice
<1> QED BY <1>1, <1>3 DEF Backlog, Sent, Queue

\* What an operation has queued is a queue of its own messages.
LEMMA SentType ==
    ASSUME TypeOK
    PROVE  \A o \in Ops : Sent(o) \in Seq(Msg) /\ Elems(Sent(o)) \subseteq OfOp(o)
<1>1. Queue \in Seq(Msg)
  BY ConcatProperties DEF TypeOK, Queue
<1> QED BY <1>1, OnlyInSeq, OnlyInElems DEF Sent

\* The queued replies.
LEMMA RepliesType == ASSUME TypeOK PROVE OnlyIn(Queue, Replies) \in Seq(Msg)
<1>1. Queue \in Seq(Msg)
  BY ConcatProperties DEF TypeOK, Queue
<1> QED BY <1>1, OnlyInSeq

\* AddTask adds to the end of the queue.
LEMMA QueuePush ==
    ASSUME TypeOK, NEW m \in Msg, buffer' = buffer, tasks' = Append(tasks, m)
    PROVE  /\ Queue' = Append(Queue, m)
           /\ \A o \in Ops : Sent(o)' = IF m.op = o THEN Append(Sent(o), m) ELSE Sent(o)
           /\ OnlyIn(Queue', Replies) = IF IsReply(m) THEN Append(OnlyIn(Queue, Replies), m)
                                                      ELSE OnlyIn(Queue, Replies)
<1>1. Queue' = Append(Queue, m) /\ Queue \in Seq(Msg)
  BY AppendConcat, ConcatProperties DEF TypeOK, Queue
<1> HIDE DEF Queue
<1>2. \A o \in Ops : m \in OfOp(o) <=> m.op = o
  BY DEF OfOp
<1>3. m \in Replies <=> IsReply(m)
  BY DEF Replies
<1>4. ASSUME NEW o \in Ops
      PROVE  Sent(o)' = IF m.op = o THEN Append(Sent(o), m) ELSE Sent(o)
  <2>1. OnlyIn(Append(Queue, m), OfOp(o)) = IF m \in OfOp(o) THEN Append(OnlyIn(Queue, OfOp(o)), m)
                                                             ELSE OnlyIn(Queue, OfOp(o))
    BY <1>1, OnlyInAppend
  <2> QED BY <1>1, <1>2, <2>1 DEF Sent, OfOp
<1>5. OnlyIn(Append(Queue, m), Replies) = IF m \in Replies THEN Append(OnlyIn(Queue, Replies), m)
                                                           ELSE OnlyIn(Queue, Replies)
  BY <1>1, OnlyInAppend
<1> QED BY <1>1, <1>3, <1>4, <1>5

\* A task that is run is the first of the queue and of what its operation has
\* queued.
LEMMA QueueRun ==
    ASSUME TypeOK, buffer # << >>, buffer' = Tail(buffer), tasks' = tasks, NEW m, m = Head(buffer)
    PROVE  /\ m \in Msg /\ Queue \in Seq(Msg) /\ Queue # << >>
           /\ Queue' = Tail(Queue) /\ Head(Queue) = m
           /\ \A o \in Ops : Sent(o) = IF m.op = o THEN << m >> \o Sent(o)' ELSE Sent(o)'
           /\ OnlyIn(Queue, Replies) = IF IsReply(m) THEN << m >> \o OnlyIn(Queue', Replies)
                                                     ELSE OnlyIn(Queue', Replies)
<1>1. /\ Queue' = Tail(Queue) /\ Queue \in Seq(Msg) /\ Queue # << >>
      /\ Head(Queue) = m /\ m \in Msg
  <2>1. buffer \in Seq(Msg) /\ tasks \in Seq(Msg) /\ Len(buffer) > 0
    BY EmptySeq DEF TypeOK
  <2>2. Queue \in Seq(Msg) /\ Len(Queue) = Len(buffer) + Len(tasks) /\ Queue # << >>
    BY <2>1 DEF Queue
  <2>3. Head(Queue) = m /\ m \in Msg
    BY <2>1, <2>2 DEF Queue
  <2>4. Tail(buffer) \o tasks = Tail(Queue)
    BY <2>1, <2>2 DEF Queue
  <2> QED BY <2>2, <2>3, <2>4 DEF Queue
<1> HIDE DEF Queue
<1>2. \A o \in Ops : m \in OfOp(o) <=> m.op = o
  BY <1>1 DEF OfOp
<1>3. m \in Replies <=> IsReply(m)
  BY <1>1 DEF Replies
<1>4. ASSUME NEW o \in Ops
      PROVE  Sent(o) = IF m.op = o THEN << m >> \o Sent(o)' ELSE Sent(o)'
  <2>1. OnlyIn(Queue, OfOp(o)) = IF Head(Queue) \in OfOp(o) THEN << Head(Queue) >> \o OnlyIn(Tail(Queue), OfOp(o))
                                                            ELSE OnlyIn(Tail(Queue), OfOp(o))
    BY <1>1, OnlyInHead
  <2> QED BY <1>1, <1>2, <2>1 DEF Sent, OfOp
<1>5. OnlyIn(Queue, Replies) = IF Head(Queue) \in Replies THEN << Head(Queue) >> \o OnlyIn(Tail(Queue), Replies)
                                                          ELSE OnlyIn(Tail(Queue), Replies)
  BY <1>1, OnlyInHead
<1> QED BY <1>1, <1>3, <1>4, <1>5

\* RemoveTask takes the Sync task of its operation and nothing else.
LEMMA QueueRemove ==
    ASSUME TypeOK, NEW o \in Ops, buffer' = buffer, tasks' = OnlyIn(tasks, Msg \ {SyncTask(o)})
    PROVE  /\ tasks' \in Seq(Msg) /\ Elems(tasks') \subseteq Elems(tasks)
           /\ \A p \in Ops \ {o} : Sent(p)' = Sent(p)
           /\ OnlyIn(Queue', Replies) = OnlyIn(Queue, Replies)
           /\ \A p \in Ops : Backlog(p)' = Backlog(p)
           /\ Sent(o)' = OnlyIn(buffer, OfOp(o)) \o OnlyIn(OnlyIn(tasks, OfOp(o)), Msg \ {SyncTask(o)})
           /\ Sent(o) = OnlyIn(buffer, OfOp(o)) \o OnlyIn(tasks, OfOp(o))
<1> DEFINE A == Msg \ {SyncTask(o)}
<1>1. buffer \in Seq(Msg) /\ tasks \in Seq(Msg)
  BY DEF TypeOK
<1>2. tasks' \in Seq(Msg \cap A) /\ Elems(tasks') = Elems(tasks) \cap A
  BY <1>1, OnlyInType, OnlyInElems
<1>3. tasks' \in Seq(Msg)
  BY <1>2, SeqMonotonic
<1>4. ASSUME NEW S
      PROVE  /\ OnlyIn(buffer \o tasks, S) = OnlyIn(buffer, S) \o OnlyIn(tasks, S)
             /\ OnlyIn(buffer \o tasks', S) = OnlyIn(buffer, S) \o OnlyIn(tasks, A \cap S)
             /\ OnlyIn(OnlyIn(tasks, S), A) = OnlyIn(tasks, A \cap S)
  <2>1. OnlyIn(tasks', S) = OnlyIn(tasks, A \cap S)
    BY <1>1, OnlyInTwice
  <2>2. OnlyIn(OnlyIn(tasks, S), A) = OnlyIn(tasks, S \cap A) /\ S \cap A = A \cap S
    BY <1>1, OnlyInTwice
  <2>3. OnlyIn(buffer \o tasks, S) = OnlyIn(buffer, S) \o OnlyIn(tasks, S)
    BY <1>1, OnlyInConcat
  <2>4. OnlyIn(buffer \o tasks', S) = OnlyIn(buffer, S) \o OnlyIn(tasks', S)
    <3> HIDE DEF A
    <3> QED BY <1>1, <1>3, OnlyInConcat, ZenonT(60)
  <2> HIDE DEF A
  <2> QED BY <2>1, <2>2, <2>3, <2>4
<1> HIDE DEF A
<1>5. ASSUME NEW S, A \cap S = S
      PROVE  OnlyIn(buffer \o tasks', S) = OnlyIn(buffer \o tasks, S)
  BY <1>4, <1>5
<1>6. /\ \A p \in Ops \ {o} : A \cap OfOp(p) = OfOp(p)
      /\ A \cap Replies = Replies
      /\ \A p \in Ops : A \cap {m \in Replies : m.op = p} = {m \in Replies : m.op = p}
  BY DEF A, OfOp, Replies, IsReply, SyncTask
<1>7. \A p \in Ops \ {o} : Sent(p)' = Sent(p)
  BY <1>5, <1>6 DEF Sent, Queue, OfOp
<1>8. OnlyIn(Queue', Replies) = OnlyIn(Queue, Replies)
  BY <1>5, <1>6 DEF Queue
<1>9. \A p \in Ops : Backlog(p)' = Backlog(p)
  BY <1>5, <1>6 DEF Backlog
<1>10. /\ Sent(o)' = OnlyIn(buffer, OfOp(o)) \o OnlyIn(OnlyIn(tasks, OfOp(o)), A)
       /\ Sent(o) = OnlyIn(buffer, OfOp(o)) \o OnlyIn(tasks, OfOp(o))
  BY <1>4 DEF Sent, Queue, OfOp
<1> QED BY <1>2, <1>3, <1>7, <1>8, <1>9, <1>10 DEF A

\* A step that leaves the queue alone.
LEMMA QueueSame ==
    ASSUME buffer' = buffer, tasks' = tasks
    PROVE  Queue' = Queue /\ \A o \in Ops : Sent(o)' = Sent(o) /\ Backlog(o)' = Backlog(o)
BY DEF Queue, Sent, OfOp, Backlog

\* GUI_ProcessTasks moves the tasks to an empty buffer.
LEMMA QueueSwap ==
    ASSUME TypeOK, buffer = << >>, buffer' = tasks, tasks' = << >>
    PROVE  Queue' = Queue /\ \A o \in Ops : Sent(o)' = Sent(o) /\ Backlog(o)' = Backlog(o)
<1>1. buffer' \o tasks' = buffer \o tasks
  BY ConcatEmptySeq DEF TypeOK
<1> QED BY <1>1 DEF Queue, Sent, OfOp, Backlog

\* The backlog after AddTask.
LEMMA BacklogPush ==
    ASSUME TypeOK, NEW m \in Msg, buffer' = buffer, tasks' = Append(tasks, m), NEW o \in Ops
    PROVE  /\ Backlog(o) \in Nat
           /\ Backlog(o)' = IF m.op = o /\ IsReply(m) THEN Backlog(o) + 1 ELSE Backlog(o)
<1> DEFINE S == {x \in Replies : x.op = o}
           b == OnlyIn(Queue, S)
<1>1. Queue' = Append(Queue, m) /\ Queue \in Seq(Msg)
  BY QueuePush, ConcatProperties DEF TypeOK, Queue
<1>2. m \in S <=> m.op = o /\ IsReply(m)
  BY DEF Replies
<1> HIDE DEF S
<1>3. OnlyIn(Append(Queue, m), S) = IF m \in S THEN Append(b, m) ELSE b
  BY <1>1, OnlyInAppend
<1>4. b \in Seq(Msg)
  <2>1. b \in Seq(Msg \cap S)
    BY <1>1, OnlyInType
  <2> QED BY <2>1, SeqMonotonic
<1>5. Backlog(o) = Len(b) /\ Backlog(o)' = Len(OnlyIn(Append(Queue, m), S))
  BY <1>1 DEF Backlog, Queue, S
<1> HIDE DEF b
<1> QED BY <1>2, <1>3, <1>4, <1>5

-----------------------------------------------------------------------------
\* The variables keep their types.
LEMMA TypeStep == TypeOK /\ [Next]_vars => TypeOK'
<1> SUFFICES ASSUME TypeOK, [Next]_vars PROVE TypeOK'
  OBVIOUS
<1> USE WindowAssumption DEF TypeOK, OpStates, Kinds, opVars, uiVars
<1>1. CASE UNCHANGED vars
  BY <1>1 DEF vars
<1>2. ASSUME NEW o \in Ops, OpStep(o) PROVE TypeOK'
  <2>1. CASE ReplyTest(o)
    BY <1>2, <2>1 DEF OpStep, ReplyTest
  <2>2. CASE SyncTest(o)
    BY <1>2, <2>2 DEF OpStep, SyncTest
  <2>3. CASE Push(o)
    <3>1. [op |-> o, kind |-> sending[o]] \in Msg
      BY DEF Msg
    <3> QED BY <1>2, <2>3, <3>1 DEF OpStep, Push
  <2>0. ASSUME After(o)
        PROVE  /\ ppc' \in [Ops -> OpStates] /\ sending' \in [Ops -> Kinds]
               /\ lines' \in [Ops -> Nat] /\ total' \in [Ops -> Nat]
    <3>1. CASE sending[o] \in {"final", "sync"}
      BY <2>0, <3>1 DEF After
    <3>2. CASE sending[o] = "line"
      <4>1. lines' \in [Ops -> Nat] /\ total' \in [Ops -> Nat]
        <5>1. /\ lines' = [lines EXCEPT ![o] = @ + 1]
              /\ total' = [total EXCEPT ![o] = @ + 1]
          BY <2>0, <3>2 DEF After
        <5>2. lines[o] + 1 \in Nat /\ total[o] + 1 \in Nat
          OBVIOUS
        <5> QED BY <5>1, <5>2
      <4>2. \/ ppc' = [ppc EXCEPT ![o] = "syncTest"] /\ sending' = sending
            \/ ppc' = [ppc EXCEPT ![o] = "reply"] /\ sending' = sending
            \/ ppc' = [ppc EXCEPT ![o] = "push"] /\ sending' = [sending EXCEPT ![o] = "final"]
        BY <2>0, <3>2 DEF After
      <4> QED BY <4>1, <4>2
    <3> QED BY <3>1, <3>2
  <2>4. CASE WakeNobody(o)
    BY <1>2, <2>0, <2>4 DEF OpStep, WakeNobody
  <2>5. CASE WakeEnter(o)
    BY <1>2, <2>5 DEF OpStep, WakeEnter
  <2>6. CASE WakeLeave(o)
    BY <1>2, <2>0, <2>6 DEF OpStep, WakeLeave
  <2>7. CASE SyncTimeout(o)
    <3>1. tasks' \in Seq(Msg)
      BY <2>7, QueueRemove DEF SyncTimeout, SyncTask
    <3> QED BY <1>2, <2>7, <3>1 DEF OpStep, SyncTimeout
  <2>8. CASE SyncReturn(o)
    BY <1>2, <2>8 DEF OpStep, SyncReturn
  <2> QED BY <1>2, <2>1, <2>2, <2>3, <2>4, <2>5, <2>6, <2>7, <2>8 DEF OpStep
<1>3. ASSUME NEW o \in Ops, StartEarly(o) PROVE TypeOK'
  BY <1>3 DEF StartEarly
<1>4. CASE UIStep
  <2>1. CASE SetHandler
    BY <1>4, <2>1 DEF UIStep, SetHandler
  <2>2. CASE LoopTest
    BY <1>4, <2>2 DEF UIStep, LoopTest
  <2>3. CASE ReadNothing
    BY <1>4, <2>3 DEF UIStep, ReadNothing
  <2>4. CASE Swap
    BY <1>4, <2>4 DEF UIStep, Swap
  <2>5. CASE RunTask
    <3>1. Head(buffer) \in Msg /\ Tail(buffer) \in Seq(Msg)
      BY <2>5, HeadTailProperties DEF RunTask
    <3>2. shown' \in Seq(Msg) /\ buffer' \in Seq(Msg) /\ current' \in Ops \cup {NoOp}
      BY <2>5, <3>1 DEF RunTask
    <3>3. ready' \in [Ops -> BOOLEAN]
      BY <2>5, <3>1 DEF RunTask
    <3> QED BY <1>4, <2>5, <3>2, <3>3 DEF UIStep, RunTask
  <2>6. ASSUME NEW o \in Ops, Enter(o) PROVE TypeOK'
    BY <1>4, <2>6 DEF UIStep, Enter
  <2>7. CASE CtrlC
    BY <1>4, <2>7 DEF UIStep, CtrlC
  <2>8. CASE NoEvent
    BY <1>4, <2>8 DEF UIStep, NoEvent
  <2>9. CASE ClearHandler
    BY <1>4, <2>9 DEF UIStep, ClearHandler
  <2> QED BY <1>4, <2>1, <2>2, <2>3, <2>4, <2>5, <2>6, <2>7, <2>8, <2>9 DEF UIStep
<1>5. ASSUME NEW e \in UserEvents, ReadInput(e) PROVE TypeOK'
  BY <1>5 DEF ReadInput
<1> QED BY <1>1, <1>2, <1>3, <1>4, <1>5 DEF Next

\* What the end of AddTask does to its thread.
LEMMA AfterKeeps ==
    ASSUME WindowInv, TypeOK', NEW o \in Ops, ppc[o] = "wake", After(o),
           UNCHANGED <<tasks, buffer, ready>>
    PROVE  /\ SyncHeld' /\ SyncLast' /\ SendingInv' /\ LinesInv'
           /\ \A p \in Ops \ {o} : ppc'[p] = ppc[p]
           /\ ppc'[o] \notin {"wake", "none", "new"}
<1> USE WindowAssumption DEF WindowInv
<1>1. \A p \in Ops : Sent(p)' = Sent(p) /\ Backlog(p)' = Backlog(p)
  BY QueueSame
<1>2. /\ \A p \in Ops \ {o} : ppc'[p] = ppc[p] /\ sending'[p] = sending[p] /\ lines'[p] = lines[p]
      /\ \/ sending[o] = "final" /\ ppc'[o] = "done" /\ sending'[o] = "final" /\ lines'[o] = lines[o]
         \/ sending[o] = "sync" /\ ppc'[o] = "syncWait" /\ sending'[o] = "sync" /\ lines'[o] = lines[o]
         \/ /\ sending[o] = "line" /\ lines'[o] = lines[o] + 1
            /\ \/ ppc'[o] = "syncTest" /\ sending'[o] = "line"
               \/ lines[o] + 1 <= MaxLines /\ ppc'[o] = "reply" /\ sending'[o] = "line"
               \/ ppc'[o] = "push" /\ sending'[o] = "final"
  <2>1. CASE sending[o] = "final"
    BY <2>1 DEF After, TypeOK
  <2>2. CASE sending[o] = "sync"
    BY <2>2 DEF After, TypeOK
  <2>3. CASE sending[o] = "line"
    <3>1. lines' = [lines EXCEPT ![o] = @ + 1] /\ lines[o] \in Nat /\ lines \in [Ops -> Nat]
      BY <2>3 DEF After, TypeOK
    <3>2. \/ ppc' = [ppc EXCEPT ![o] = "syncTest"] /\ sending' = sending
          \/ ~(lines[o] + 1 > MaxLines) /\ ppc' = [ppc EXCEPT ![o] = "reply"] /\ sending' = sending
          \/ ppc' = [ppc EXCEPT ![o] = "push"] /\ sending' = [sending EXCEPT ![o] = "final"]
      BY <2>3 DEF After
    <3>3. lines[o] + 1 > MaxLines \/ lines[o] + 1 <= MaxLines
      BY <3>1
    <3>4. ppc \in [Ops -> OpStates] /\ sending \in [Ops -> Kinds]
      BY DEF TypeOK
    <3> QED BY <2>3, <3>1, <3>2, <3>3, <3>4
  <2> QED BY <2>1, <2>2, <2>3 DEF TypeOK, Kinds
<1>3. SyncHeld' /\ SyncLast'
  BY <1>1, <1>2 DEF SyncHeld, SyncLast
<1>4. SendingInv'
  BY <1>1, <1>2 DEF SendingInv
<1>5. LinesInv'
  <2>1. \A p \in Ops : lines[p] \in Nat /\ Backlog(p) \in Nat
    BY DEF TypeOK, Backlog
  <2>2. ASSUME NEW p \in Ops \ {o}
        PROVE  /\ ppc'[p] = ppc[p] /\ sending'[p] = sending[p] /\ lines'[p] = lines[p]
               /\ ready'[p] = ready[p] /\ Backlog(p)' = Backlog(p)
    BY <1>1, <1>2
  <2>3. Backlog(o)' = Backlog(o) /\ ready'[o] = ready[o]
    BY <1>1
  <2> QED BY <1>2, <2>1, <2>2, <2>3 DEF LinesInv
<1> QED BY <1>2, <1>3, <1>4, <1>5

\* A step that leaves the queue and the threads of the operations alone.
LEMMA QuietKeeps ==
    ASSUME WindowInv, UNCHANGED <<buffer, tasks, ppc, sending, lines, ready, posted, shown>>
    PROVE  ReplyOrder' /\ SyncHeld' /\ SyncLast' /\ SendingInv' /\ LinesInv'
<1>1. \A o \in Ops : Sent(o)' = Sent(o) /\ Backlog(o)' = Backlog(o)
  BY QueueSame
<1> QED BY <1>1 DEF WindowInv, ReplyOrder, SyncHeld, SyncLast, SendingInv, LinesInv

-----------------------------------------------------------------------------
\* Every step of every thread keeps the invariant.
LEMMA StepHolds == WindowInv /\ [Next]_vars => WindowInv'
<1> SUFFICES ASSUME WindowInv, [Next]_vars PROVE WindowInv'
  OBVIOUS
<1> USE WindowAssumption DEF WindowInv
<1>0. TypeOK /\ TypeOK'
  BY TypeStep
<1>1. ASSUME NEW o \in Ops, ReplyTest(o) PROVE WindowInv'
  <2>1. buffer' = buffer /\ tasks' = tasks
    BY <1>1 DEF ReplyTest, uiVars
  <2>2. Queue' = Queue /\ \A p \in Ops : Sent(p)' = Sent(p) /\ Backlog(p)' = Backlog(p)
    BY <2>1, QueueSame
  <2>3. LoopInv'
    BY <1>1, <1>0, <2>1 DEF ReplyTest, uiVars, TypeOK, LoopInv
  <2>4. HandlerInv' /\ HandlerAlive'
    BY <1>1, <1>0 DEF ReplyTest, uiVars, TypeOK, HandlerInv, HandlerAlive
  <2>5. ReplyOrder'
    BY <1>1, <1>0, <2>1 DEF ReplyTest, uiVars, TypeOK, ReplyOrder
  <2>6. SyncHeld' /\ SyncLast' /\ SendingInv'
    BY <1>1, <1>0, <2>2 DEF ReplyTest, uiVars, TypeOK, SyncHeld, SyncLast, SendingInv
  <2>7. LinesInv'
    BY <1>1, <1>0, <2>2 DEF ReplyTest, uiVars, TypeOK, LinesInv
  <2>8. WakeInv'
    BY <1>1, <1>0, <2>1 DEF ReplyTest, uiVars, TypeOK, WakeInv
  <2> QED BY <1>0, <2>3, <2>4, <2>5, <2>6, <2>7, <2>8
<1>2. ASSUME NEW o \in Ops, SyncTest(o) PROVE WindowInv'
  <2>1. buffer' = buffer /\ tasks' = tasks
    BY <1>2 DEF SyncTest, uiVars
  <2>2. Queue' = Queue /\ \A p \in Ops : Sent(p)' = Sent(p) /\ Backlog(p)' = Backlog(p)
    BY <2>1, QueueSame
  <2>3. LoopInv'
    BY <1>2, <1>0, <2>1 DEF SyncTest, uiVars, TypeOK, LoopInv
  <2>4. HandlerInv' /\ HandlerAlive'
    BY <1>2, <1>0 DEF SyncTest, uiVars, TypeOK, HandlerInv, HandlerAlive
  <2>5. ReplyOrder'
    BY <1>2, <1>0, <2>1 DEF SyncTest, uiVars, TypeOK, ReplyOrder
  <2>6. SyncHeld' /\ SyncLast' /\ SendingInv'
    BY <1>2, <1>0, <2>2 DEF SyncTest, uiVars, TypeOK, SyncHeld, SyncLast, SendingInv
  <2>7. LinesInv'
    BY <1>2, <1>0, <2>2 DEF SyncTest, uiVars, TypeOK, LinesInv
  <2>8. WakeInv'
    BY <1>2, <1>0, <2>1 DEF SyncTest, uiVars, TypeOK, WakeInv
  <2> QED BY <1>0, <2>3, <2>4, <2>5, <2>6, <2>7, <2>8
<1>3. ASSUME NEW o \in Ops, WakeEnter(o) PROVE WindowInv'
  <2>1. UNCHANGED <<buffer, tasks, ppc, sending, lines, ready, posted, shown>>
    BY <1>3 DEF WakeEnter, uiVars, opVars
  <2>2. ReplyOrder' /\ SyncHeld' /\ SyncLast' /\ SendingInv' /\ LinesInv'
    BY <2>1, QuietKeeps
  <2>3. LoopInv' /\ HandlerInv' /\ HandlerAlive'
    BY <1>3, <1>0 DEF WakeEnter, uiVars, opVars, LoopInv, HandlerInv, HandlerAlive, TypeOK
  <2>4. WakeInv'
    BY <1>3 DEF WakeEnter, uiVars, opVars, WakeInv
  <2> QED BY <1>0, <2>2, <2>3, <2>4
<1>4. ASSUME NEW o \in Ops, SyncReturn(o) PROVE WindowInv'
  <2>1. buffer' = buffer /\ tasks' = tasks
    BY <1>4 DEF SyncReturn, uiVars
  <2>2. Queue' = Queue /\ \A p \in Ops : Sent(p)' = Sent(p) /\ Backlog(p)' = Backlog(p)
    BY <2>1, QueueSame
  <2>3. LoopInv'
    <3>1. upc' = upc /\ handler' = handler /\ \A p \in Ops \ {o} : ppc'[p] = ppc[p]
      BY <1>4, <1>0 DEF SyncReturn, uiVars, TypeOK
    <3>2. ppc[o] \notin {"none", "new"}
      BY <1>4 DEF SyncReturn, uiVars
    <3> QED BY <2>1, <3>1, <3>2 DEF LoopInv
  <2>4. HandlerInv' /\ HandlerAlive'
    BY <1>4, <1>0 DEF SyncReturn, uiVars, TypeOK, HandlerInv, HandlerAlive
  <2>5. ReplyOrder'
    BY <1>4, <1>0, <2>1 DEF SyncReturn, uiVars, TypeOK, ReplyOrder
  <2>6. SyncHeld' /\ SyncLast' /\ SendingInv'
    <3>1. SyncHeld' /\ SyncLast'
      BY <1>4, <1>0, <2>2, SMTT(60) DEF SyncReturn, TypeOK, SyncHeld, SyncLast
    <3>2. SendingInv'
      BY <1>4, <1>0 DEF SyncReturn, TypeOK, SendingInv
    <3> QED BY <3>1, <3>2
  <2>7. LinesInv'
    <3>1. /\ \A p \in Ops \ {o} : ppc'[p] = ppc[p] /\ sending'[p] = sending[p] /\ lines'[p] = lines[p]
          /\ ready' = ready /\ lines'[o] = 0 /\ ppc'[o] \in {"reply", "push"}
      BY <1>4, <1>0 DEF SyncReturn, TypeOK
    <3>2. Backlog(o)' = 0
      BY <1>4, <2>2 DEF SyncReturn, LinesInv, SendingInv
    <3> QED BY <2>2, <3>1, <3>2 DEF LinesInv
  <2>8. WakeInv'
    BY <1>4, <1>0, <2>1 DEF SyncReturn, uiVars, TypeOK, WakeInv
  <2> QED BY <1>0, <2>3, <2>4, <2>5, <2>6, <2>7, <2>8
<1>5. ASSUME NEW o \in Ops, StartEarly(o) PROVE WindowInv'
  <2>1. buffer' = buffer /\ tasks' = tasks
    BY <1>5 DEF StartEarly, uiVars
  <2>2. Queue' = Queue /\ \A p \in Ops : Sent(p)' = Sent(p) /\ Backlog(p)' = Backlog(p)
    BY <2>1, QueueSame
  <2>3. LoopInv'
    BY <1>5, <1>0, <2>1 DEF StartEarly, uiVars, TypeOK, LoopInv
  <2>4. HandlerInv' /\ HandlerAlive'
    BY <1>5, <1>0 DEF StartEarly, uiVars, TypeOK, HandlerInv, HandlerAlive
  <2>5. ReplyOrder'
    BY <1>5, <1>0, <2>1 DEF StartEarly, uiVars, TypeOK, ReplyOrder
  <2>6. SyncHeld' /\ SyncLast' /\ SendingInv'
    <3>1. SyncHeld' /\ SyncLast'
      BY <1>5, <1>0, <2>2, SMTT(60) DEF StartEarly, TypeOK, SyncHeld, SyncLast
    <3>2. SendingInv'
      BY <1>5, <1>0 DEF StartEarly, TypeOK, SendingInv
    <3> QED BY <3>1, <3>2
  <2>7. LinesInv'
    BY <1>5, <1>0, <2>2 DEF StartEarly, TypeOK, LinesInv, SendingInv
  <2>8. WakeInv'
    BY <1>5, <1>0, <2>1 DEF StartEarly, uiVars, TypeOK, WakeInv
  <2> QED BY <1>0, <2>3, <2>4, <2>5, <2>6, <2>7, <2>8
<1>6. ASSUME NEW o \in Ops, Enter(o) PROVE WindowInv'
  <2>1. buffer' = buffer /\ tasks' = tasks
    BY <1>6 DEF Enter
  <2>2. Queue' = Queue /\ \A p \in Ops : Sent(p)' = Sent(p) /\ Backlog(p)' = Backlog(p)
    BY <2>1, QueueSame
  <2>3. LoopInv'
    BY <1>6, <1>0, <2>1 DEF Enter, TypeOK, LoopInv
  <2>4. HandlerInv' /\ HandlerAlive'
    BY <1>6, <1>0 DEF Enter, TypeOK, HandlerInv, HandlerAlive
  <2>5. ReplyOrder'
    BY <1>6, <1>0, <2>1 DEF Enter, TypeOK, ReplyOrder
  <2>6. SyncHeld' /\ SyncLast' /\ SendingInv'
    BY <1>6, <1>0, <2>2 DEF Enter, TypeOK, SyncHeld, SyncLast, SendingInv
  <2>7. LinesInv'
    BY <1>6, <1>0, <2>2 DEF Enter, TypeOK, LinesInv, SendingInv
  <2>8. WakeInv'
    BY <1>6, <1>0, <2>1 DEF Enter, TypeOK, WakeInv
  <2> QED BY <1>0, <2>3, <2>4, <2>5, <2>6, <2>7, <2>8
<1>7. CASE SetHandler
  <2>1. UNCHANGED <<buffer, tasks, ppc, sending, lines, ready, posted, shown>>
    BY <1>7 DEF SetHandler, opVars
  <2>2. ReplyOrder' /\ SyncHeld' /\ SyncLast' /\ SendingInv' /\ LinesInv'
    BY <2>1, QuietKeeps
  <2>3. LoopInv' /\ HandlerInv' /\ HandlerAlive'
    BY <1>7, <1>0 DEF SetHandler, opVars, LoopInv, HandlerInv, HandlerAlive, TypeOK
  <2>4. WakeInv'
    BY <1>7 DEF SetHandler, opVars, WakeInv, LoopInv
  <2> QED BY <1>0, <2>2, <2>3, <2>4
<1>8. CASE LoopTest
  <2>1. UNCHANGED <<buffer, tasks, ppc, sending, lines, ready, posted, shown>>
    BY <1>8 DEF LoopTest, opVars
  <2>2. ReplyOrder' /\ SyncHeld' /\ SyncLast' /\ SendingInv' /\ LinesInv'
    BY <2>1, QuietKeeps
  <2>3. LoopInv' /\ HandlerInv' /\ HandlerAlive'
    BY <1>8, <1>0 DEF LoopTest, opVars, LoopInv, HandlerInv, HandlerAlive, TypeOK
  <2>4. WakeInv'
    BY <1>8 DEF LoopTest, opVars, WakeInv
  <2> QED BY <1>0, <2>2, <2>3, <2>4
<1>9. CASE ReadNothing
  <2>1. UNCHANGED <<buffer, tasks, ppc, sending, lines, ready, posted, shown>>
    BY <1>9 DEF ReadNothing, opVars
  <2>2. ReplyOrder' /\ SyncHeld' /\ SyncLast' /\ SendingInv' /\ LinesInv'
    BY <2>1, QuietKeeps
  <2>3. LoopInv' /\ HandlerInv' /\ HandlerAlive'
    BY <1>9, <1>0 DEF ReadNothing, opVars, LoopInv, HandlerInv, HandlerAlive, TypeOK
  <2>4. WakeInv'
    BY <1>9 DEF ReadNothing, opVars, WakeInv
  <2> QED BY <1>0, <2>2, <2>3, <2>4
<1>10. CASE CtrlC
  <2>1. UNCHANGED <<buffer, tasks, ppc, sending, lines, ready, posted, shown>>
    BY <1>10 DEF CtrlC
  <2>2. ReplyOrder' /\ SyncHeld' /\ SyncLast' /\ SendingInv' /\ LinesInv'
    BY <2>1, QuietKeeps
  <2>3. LoopInv' /\ HandlerInv' /\ HandlerAlive'
    BY <1>10, <1>0 DEF CtrlC, LoopInv, HandlerInv, HandlerAlive, TypeOK
  <2>4. WakeInv'
    BY <1>10 DEF CtrlC, WakeInv
  <2> QED BY <1>0, <2>2, <2>3, <2>4
<1>11. CASE NoEvent
  <2>1. UNCHANGED <<buffer, tasks, ppc, sending, lines, ready, posted, shown>>
    BY <1>11 DEF NoEvent, opVars
  <2>2. ReplyOrder' /\ SyncHeld' /\ SyncLast' /\ SendingInv' /\ LinesInv'
    BY <2>1, QuietKeeps
  <2>3. LoopInv' /\ HandlerInv' /\ HandlerAlive'
    BY <1>11, <1>0 DEF NoEvent, opVars, LoopInv, HandlerInv, HandlerAlive, TypeOK
  <2>4. WakeInv'
    BY <1>11 DEF NoEvent, opVars, WakeInv
  <2> QED BY <1>0, <2>2, <2>3, <2>4
<1>12. CASE ClearHandler
  <2>1. UNCHANGED <<buffer, tasks, ppc, sending, lines, ready, posted, shown>>
    BY <1>12 DEF ClearHandler, opVars
  <2>2. ReplyOrder' /\ SyncHeld' /\ SyncLast' /\ SendingInv' /\ LinesInv'
    BY <2>1, QuietKeeps
  <2>3. LoopInv' /\ HandlerInv' /\ HandlerAlive'
    BY <1>12, <1>0 DEF ClearHandler, opVars, LoopInv, HandlerInv, HandlerAlive, TypeOK
  <2>4. WakeInv'
    BY <1>12 DEF ClearHandler, opVars, WakeInv
  <2> QED BY <1>0, <2>2, <2>3, <2>4
<1>13. ASSUME NEW e \in UserEvents, ReadInput(e) PROVE WindowInv'
  <2>1. UNCHANGED <<buffer, tasks, ppc, sending, lines, ready, posted, shown>>
    BY <1>13 DEF ReadInput, opVars
  <2>2. ReplyOrder' /\ SyncHeld' /\ SyncLast' /\ SendingInv' /\ LinesInv'
    BY <2>1, QuietKeeps
  <2>3. LoopInv' /\ HandlerInv' /\ HandlerAlive'
    BY <1>13, <1>0 DEF ReadInput, opVars, LoopInv, HandlerInv, HandlerAlive, TypeOK
  <2>4. WakeInv'
    BY <1>13 DEF ReadInput, opVars, WakeInv
  <2> QED BY <1>0, <2>2, <2>3, <2>4
<1>14. ASSUME NEW o \in Ops, WakeNobody(o) PROVE WindowInv'
  <2>1. ppc[o] = "wake" /\ UNCHANGED <<tasks, buffer, ready>> /\ After(o)
    BY <1>14 DEF WakeNobody, HandlerInv
  <2>2. /\ SyncHeld' /\ SyncLast' /\ SendingInv' /\ LinesInv'
        /\ \A p \in Ops \ {o} : ppc'[p] = ppc[p]
        /\ ppc'[o] \notin {"wake", "none", "new"}
    BY <1>0, <2>1, AfterKeeps
  <2>3. LoopInv'
    BY <1>14, <2>1, <2>2 DEF WakeNobody, uiVars, LoopInv
  <2>4. HandlerInv' /\ HandlerAlive'
    BY <1>14, <1>0, <2>2 DEF WakeNobody, uiVars, HandlerInv, HandlerAlive, TypeOK
  <2>5. ReplyOrder'
    BY <1>14 DEF WakeNobody, ReplyOrder
  <2>6. WakeInv'
    BY <1>14 DEF WakeNobody, uiVars, WakeInv, LoopInv
  <2> QED BY <1>0, <2>2, <2>3, <2>4, <2>5, <2>6
<1>15. ASSUME NEW o \in Ops, WakeLeave(o) PROVE WindowInv'
  <2>1. ppc[o] = "wake" /\ UNCHANGED <<tasks, buffer, ready>> /\ After(o)
    BY <1>15 DEF WakeLeave, HandlerInv
  <2>2. /\ SyncHeld' /\ SyncLast' /\ SendingInv' /\ LinesInv'
        /\ \A p \in Ops \ {o} : ppc'[p] = ppc[p]
        /\ ppc'[o] \notin {"wake", "none", "new"}
    BY <1>0, <2>1, AfterKeeps
  <2>3. LoopInv'
    BY <1>15, <2>1, <2>2 DEF WakeLeave, uiVars, LoopInv
  <2>4. HandlerInv' /\ HandlerAlive'
    BY <1>15, <1>0, <2>2 DEF WakeLeave, uiVars, HandlerInv, HandlerAlive, TypeOK
  <2>5. ReplyOrder'
    BY <1>15 DEF WakeLeave, ReplyOrder
  <2>6. WakeInv'
    BY <1>15 DEF WakeLeave, uiVars, WakeInv, LoopInv
  <2> QED BY <1>0, <2>2, <2>3, <2>4, <2>5, <2>6
<1>16. ASSUME NEW o \in Ops, Push(o) PROVE WindowInv'
  <2> DEFINE m == [op |-> o, kind |-> sending[o]]
  <2>1. /\ m \in Msg /\ m.op = o /\ (IsReply(m) <=> sending[o] # "sync")
        /\ buffer' = buffer /\ tasks' = Append(tasks, m)
        /\ posted' = IF IsReply(m) THEN Append(posted, m) ELSE posted
    BY <1>16, <1>0 DEF Push, TypeOK, Msg, IsReply
  <2>2. /\ ppc[o] = "push" /\ ppc' = [ppc EXCEPT ![o] = "wake"]
        /\ UNCHANGED <<handler, inHandler, signal, upc, sending, lines, ready, shown>>
    BY <1>16 DEF Push, uiVars
  <2>3. m = SyncTask(o) <=> sending[o] = "sync"
    BY DEF SyncTask
  <2> HIDE DEF m
  <2>4. /\ Queue' = Append(Queue, m)
        /\ \A p \in Ops : Sent(p)' = IF m.op = p THEN Append(Sent(p), m) ELSE Sent(p)
        /\ OnlyIn(Queue', Replies) = IF IsReply(m) THEN Append(OnlyIn(Queue, Replies), m)
                                                   ELSE OnlyIn(Queue, Replies)
    BY <1>0, <2>1, QueuePush
  <2>5. \A p \in Ops : Sent(p) \in Seq(Msg) /\ Elems(Sent(p)) \subseteq OfOp(p)
    BY <1>0, SentType
  <2>6. \A x \in Elems(Sent(o)) : IsReply(x)
    <3>1. SyncTask(o) \notin Elems(Sent(o))
      BY <2>2 DEF SyncHeld
    <3>2. \A x \in OfOp(o) : IsReply(x) \/ x = SyncTask(o)
      BY DEF OfOp, Msg, IsReply, SyncTask
    <3> QED BY <2>5, <3>1, <3>2
  <2>7. LoopInv'
    <3>1. \A p \in Ops \ {o} : ppc'[p] = ppc[p]
      BY <1>0, <2>2 DEF TypeOK
    <3>2. ASSUME upc = "init", NEW i \in 1 .. Len(tasks') PROVE tasks'[i].op \in Early
      <4>1. o \in Early /\ tasks \in Seq(Msg)
        BY <1>0, <2>2, <3>2 DEF LoopInv, TypeOK
      <4>2. (i \in 1 .. Len(tasks) /\ tasks'[i] = tasks[i]) \/ tasks'[i] = m
        BY <2>1, <3>2, <4>1
      <4> QED BY <2>1, <3>2, <4>1, <4>2 DEF LoopInv
    <3> QED BY <2>1, <2>2, <3>1, <3>2 DEF LoopInv
  <2>8. HandlerInv' /\ HandlerAlive'
    BY <1>0, <2>2 DEF HandlerInv, HandlerAlive, TypeOK
  <2>9. ReplyOrder'
    <3>1. OnlyIn(Queue, Replies) \in Seq(Msg) /\ shown \in Seq(Msg)
      BY <1>0, RepliesType DEF TypeOK
    <3>2. shown \o Append(OnlyIn(Queue, Replies), m) = Append(shown \o OnlyIn(Queue, Replies), m)
      BY <2>1, <3>1, AppendConcat
    <3> QED BY <2>1, <2>2, <2>4, <3>2 DEF ReplyOrder, Queue
  <2>10. SyncHeld'
    <3>1. Elems(Append(Sent(o), m)) = Elems(Sent(o)) \cup {m}
      BY <2>1, <2>5, ElemsAppend
    <3>2. Sent(o)' = Append(Sent(o), m) /\ \A p \in Ops \ {o} : Sent(p)' = Sent(p)
      BY <2>1, <2>4
    <3> QED BY <1>0, <2>2, <2>3, <3>1, <3>2, ZenonT(60) DEF SyncHeld, SendingInv, TypeOK
  <2>11. SyncLast'
    <3>1. \A i \in 1 .. Len(Sent(o)) : IsReply(Sent(o)[i])
      BY <2>6 DEF Elems
    <3>2. Len(Sent(o)') = Len(Sent(o)) + 1 /\ \A i \in 1 .. Len(Sent(o)) : Sent(o)'[i] = Sent(o)[i]
      <4>1. Sent(o)' = Append(Sent(o), m)
        BY <2>1, <2>4
      <4> QED BY <2>1, <2>5, <4>1
    <3>3. Len(Sent(o)) \in Nat
      BY <2>5
    <3>4. \A i \in 1 .. Len(Sent(o)') - 1 : IsReply(Sent(o)'[i])
      BY <3>1, <3>2, <3>3
    <3> QED BY <2>1, <2>4, <3>4 DEF SyncLast
  <2>12. SendingInv'
    BY <1>0, <2>2 DEF SendingInv, TypeOK
  <2>13. LinesInv'
    <3>1. \A p \in Ops : /\ Backlog(p) \in Nat /\ lines[p] \in Nat
                         /\ Backlog(p)' = IF p = o /\ sending[o] # "sync" THEN Backlog(p) + 1 ELSE Backlog(p)
      BY <1>0, <2>1, BacklogPush, ZenonT(60) DEF TypeOK
    <3>2. \A p \in Ops \ {o} : ppc'[p] = ppc[p]
      BY <1>0, <2>2 DEF TypeOK
    <3>3. ppc'[o] = "wake" /\ sending[o] \in Kinds
      BY <1>0, <2>2 DEF TypeOK
    <3>4. \A p \in Ops \ {o} : Backlog(p)' = Backlog(p)
      BY <3>1
    <3> QED BY <2>2, <3>1, <3>2, <3>3, <3>4 DEF LinesInv, SendingInv
  <2>14. WakeInv'
    BY <1>0, <2>2 DEF WakeInv, TypeOK
  <2> QED BY <1>0, <2>7, <2>8, <2>9, <2>10, <2>11, <2>12, <2>13, <2>14
<1>17. ASSUME NEW o \in Ops, SyncTimeout(o) PROVE WindowInv'
  <2> DEFINE b == OnlyIn(buffer, OfOp(o))
             t == OnlyIn(tasks, OfOp(o))
             A == Msg \ {SyncTask(o)}
  <2>1. /\ ppc[o] = "syncWait" /\ buffer' = buffer /\ tasks' = OnlyIn(tasks, A)
        /\ UNCHANGED <<handler, inHandler, signal, upc, ppc, sending, lines, ready, posted, shown>>
    BY <1>17 DEF SyncTimeout, uiVars, opVars, SyncTask
  <2>2. /\ tasks' \in Seq(Msg) /\ Elems(tasks') \subseteq Elems(tasks)
        /\ \A p \in Ops \ {o} : Sent(p)' = Sent(p)
        /\ OnlyIn(Queue', Replies) = OnlyIn(Queue, Replies)
        /\ \A p \in Ops : Backlog(p)' = Backlog(p)
        /\ Sent(o)' = b \o OnlyIn(t, A) /\ Sent(o) = b \o t
    BY <1>0, <2>1, QueueRemove
  <2>3. b \in Seq(Msg) /\ t \in Seq(Msg) /\ OnlyIn(t, A) \in Seq(Msg) /\ Elems(OnlyIn(t, A)) = Elems(t) \cap A
    BY <1>0, OnlyInSeq, OnlyInElems DEF TypeOK
  <2> HIDE DEF b, t, A
  <2>4. LoopInv'
    <3>1. \A i \in 1 .. Len(tasks') : \E j \in 1 .. Len(tasks) : tasks'[i] = tasks[j]
      <4>1. \A i \in 1 .. Len(tasks') : tasks'[i] \in Elems(tasks)
        BY <2>2 DEF Elems
      <4> QED BY <4>1 DEF Elems
    <3> QED BY <2>1, <3>1 DEF LoopInv
  <2>5. HandlerInv' /\ HandlerAlive'
    BY <2>1 DEF HandlerInv, HandlerAlive
  <2>6. ReplyOrder'
    BY <2>1, <2>2 DEF ReplyOrder, Queue
  <2>7. Elems(Sent(o)') \subseteq Elems(Sent(o))
    BY <2>2, <2>3, ElemsConcat
  <2>8. SyncHeld'
    BY <2>1, <2>2, <2>7 DEF SyncHeld
  <2>9. SyncLast'
    <3>1. ASSUME NEW i \in 1 .. Len(Sent(o)') - 1 PROVE IsReply(Sent(o)'[i])
      <4>1. /\ Len(b) \in Nat /\ Len(t) \in Nat /\ Len(OnlyIn(t, A)) \in Nat
            /\ Len(Sent(o)') = Len(b) + Len(OnlyIn(t, A)) /\ Len(Sent(o)) = Len(b) + Len(t)
            /\ i \in Nat
        BY <2>2, <2>3, ConcatProperties
      <4>2. CASE i \in 1 .. Len(b)
        <5>1. Sent(o)'[i] = b[i] /\ Sent(o)[i] = b[i]
          BY <2>2, <2>3, <4>1, <4>2
        <5>2. t = << >> => OnlyIn(t, A) = << >>
          BY OnlyInEmpty
        <5>3. i \in 1 .. Len(Sent(o)) - 1
          BY <2>3, <4>1, <4>2, <5>2, EmptySeq
        <5> QED BY <5>1, <5>3 DEF SyncLast
      <4>3. CASE i \notin 1 .. Len(b)
        <5>1. Sent(o)'[i] = OnlyIn(t, A)[i - Len(b)] /\ i - Len(b) \in 1 .. Len(OnlyIn(t, A))
          BY <2>2, <2>3, <4>1, <4>3
        <5>2. Sent(o)'[i] \in Elems(t) \cap A
          BY <2>3, <5>1, ZenonT(60) DEF Elems
        <5>3. Elems(t) \subseteq OfOp(o)
          BY <1>0, OnlyInElems DEF t, TypeOK
        <5> QED BY <5>2, <5>3 DEF A, OfOp, Msg, IsReply, SyncTask
      <4> QED BY <4>2, <4>3
    <3> QED BY <2>2, <3>1 DEF SyncLast
  <2>10. SendingInv'
    BY <2>1 DEF SendingInv
  <2>11. LinesInv'
    BY <2>1, <2>2 DEF LinesInv
  <2>12. WakeInv'
    <3>1. \A i \in 1 .. Len(tasks') : \E j \in 1 .. Len(tasks) : tasks'[i] = tasks[j]
      <4>1. \A i \in 1 .. Len(tasks') : tasks'[i] \in Elems(tasks)
        BY <2>2 DEF Elems
      <4> QED BY <4>1 DEF Elems
    <3> QED BY <2>1, <3>1 DEF WakeInv
  <2> QED BY <1>0, <2>4, <2>5, <2>6, <2>8, <2>9, <2>10, <2>11, <2>12
<1>18. CASE Swap
  <2>1. /\ upc = "drain" /\ upc' = "run" /\ buffer = << >> /\ buffer' = tasks /\ tasks' = << >>
        /\ UNCHANGED <<handler, inHandler, signal, ppc, sending, lines, ready, posted, shown>>
    BY <1>18 DEF Swap, opVars, LoopInv
  <2>2. Queue' = Queue /\ \A p \in Ops : Sent(p)' = Sent(p) /\ Backlog(p)' = Backlog(p)
    BY <1>0, <2>1, QueueSwap
  <2>3. LoopInv' /\ HandlerInv' /\ HandlerAlive'
    BY <2>1 DEF LoopInv, HandlerInv, HandlerAlive
  <2>4. ReplyOrder'
    BY <2>1, <2>2 DEF ReplyOrder, Queue
  <2>5. SyncHeld' /\ SyncLast' /\ SendingInv'
    BY <2>1, <2>2 DEF SyncHeld, SyncLast, SendingInv
  <2>6. LinesInv'
    BY <2>1, <2>2 DEF LinesInv
  <2>7. WakeInv'
    BY <2>1 DEF WakeInv
  <2> QED BY <1>0, <2>3, <2>4, <2>5, <2>6, <2>7
<1>19. CASE RunTask
  <2>0. PICK m \in Msg : m = Head(buffer)
    BY <1>19, <1>0, HeadTailProperties DEF RunTask, TypeOK
  <2>1. /\ upc = "run" /\ buffer # << >> /\ buffer' = Tail(buffer) /\ tasks' = tasks
        /\ shown' = IF IsReply(m) THEN Append(shown, m) ELSE shown
        /\ ready' = IF m.kind = "sync" THEN [ready EXCEPT ![m.op] = TRUE] ELSE ready
        /\ UNCHANGED <<handler, inHandler, signal, upc, ppc, sending, lines, posted>>
    BY <1>19, <2>0 DEF RunTask
  <2>2. /\ m \in Msg /\ Queue' \in Seq(Msg)
        /\ \A o \in Ops : Sent(o) = IF m.op = o THEN << m >> \o Sent(o)' ELSE Sent(o)'
        /\ OnlyIn(Queue, Replies) = IF IsReply(m) THEN << m >> \o OnlyIn(Queue', Replies)
                                                  ELSE OnlyIn(Queue', Replies)
    <3>1. Queue' \in Seq(Msg)
      BY <1>0, ConcatProperties DEF TypeOK, Queue
    <3> QED BY <1>0, <2>0, <2>1, <3>1, QueueRun
  <2>3. /\ m.op \in Ops /\ (~IsReply(m) <=> m = SyncTask(m.op)) /\ (IsReply(m) <=> m.kind # "sync")
    BY <2>2 DEF Msg, IsReply, SyncTask
  <2>4. \A o \in Ops : Sent(o)' \in Seq(Msg) /\ Sent(o) \in Seq(Msg) /\ Elems(Sent(o)') \subseteq Elems(Sent(o))
    <3> SUFFICES ASSUME NEW o \in Ops
                 PROVE  Sent(o)' \in Seq(Msg) /\ Sent(o) \in Seq(Msg) /\ Elems(Sent(o)') \subseteq Elems(Sent(o))
      OBVIOUS
    <3> DEFINE r == Sent(o)'
               l == << m >>
    <3>1. r \in Seq(Msg) /\ l \in Seq(Msg)
      BY <2>2, OnlyInSeq DEF Sent
    <3> HIDE DEF r, l
    <3>2. Elems(l \o r) = Elems(l) \cup Elems(r)
      BY <3>1, ElemsConcat
    <3>3. Sent(o) = l \o r \/ Sent(o) = r
      BY <2>2 DEF l, r
    <3>4. l \o r \in Seq(Msg)
      BY <3>1
    <3> QED BY <3>1, <3>2, <3>3, <3>4 DEF r
  <2>5. ~IsReply(m) => Sent(m.op)' = << >>
    <3> SUFFICES ASSUME ~IsReply(m), Sent(m.op)' # << >> PROVE FALSE
      OBVIOUS
    <3> DEFINE r == Sent(m.op)'
    <3>1. Sent(m.op) = << m >> \o r /\ r \in Seq(Msg) /\ r # << >>
      BY <2>2, <2>3, <2>4
    <3> HIDE DEF r
    <3>2. Len(Sent(m.op)) = Len(r) + 1 /\ Sent(m.op)[1] = m /\ Len(r) \in Nat \ {0}
      BY <2>2, <3>1, EmptySeq
    <3>3. 1 \in 1 .. Len(Sent(m.op)) - 1
      BY <3>2
    <3> QED BY <2>3, <3>2, <3>3 DEF SyncLast
  <2>6. LoopInv' /\ HandlerInv' /\ HandlerAlive' /\ WakeInv'
    BY <2>1 DEF LoopInv, HandlerInv, HandlerAlive, WakeInv
  <2>7. ReplyOrder'
    <3>1. shown \in Seq(Msg) /\ OnlyIn(Queue', Replies) \in Seq(Msg)
      BY <1>0, <2>2, OnlyInSeq DEF TypeOK
    <3>2. Append(shown, m) \o OnlyIn(Queue', Replies) = shown \o (<< m >> \o OnlyIn(Queue', Replies))
      BY <2>2, <3>1
    <3> QED BY <2>1, <2>2, <3>2 DEF ReplyOrder, Queue
  <2>8. SyncHeld'
    <3>1. Elems(<< >>) = {}
      BY DEF Elems
    <3>2. \A o \in Ops : ~IsReply(m) /\ m.op = o => SyncTask(o) \notin Elems(Sent(o)')
      BY <2>3, <2>5, <3>1
    <3>3. \A o \in Ops : ready'[o] = ready[o] \/ (~IsReply(m) /\ m.op = o)
      BY <1>0, <2>1, <2>3, ZenonT(60) DEF TypeOK
    <3> QED BY <2>1, <2>4, <3>2, <3>3 DEF SyncHeld
  <2>9. SyncLast'
    <3>1. ASSUME NEW o \in Ops, NEW i \in 1 .. Len(Sent(o)') - 1 PROVE IsReply(Sent(o)'[i])
      <4>1. CASE m.op # o
        BY <2>2, <3>1, <4>1 DEF SyncLast
      <4>2. CASE m.op = o
        <5>1. Sent(o) = << m >> \o Sent(o)' /\ Sent(o)' \in Seq(Msg)
          BY <2>2, <2>4, <4>2
        <5>2. Len(Sent(o)) = Len(Sent(o)') + 1 /\ Sent(o)[i + 1] = Sent(o)'[i] /\ Len(Sent(o)') \in Nat
          BY <2>2, <5>1
        <5>3. i + 1 \in 1 .. Len(Sent(o)) - 1
          BY <5>2
        <5> QED BY <5>2, <5>3 DEF SyncLast
      <4> QED BY <4>1, <4>2
    <3> QED BY <3>1 DEF SyncLast
  <2>10. SendingInv'
    <3>1. ~IsReply(m) => SyncTask(m.op) \in Elems(Sent(m.op))
      <4> DEFINE r == Sent(m.op)'
      <4>1. Sent(m.op) = << m >> \o r /\ r \in Seq(Msg)
        BY <2>2, <2>3, <2>4
      <4> HIDE DEF r
      <4>2. 1 \in 1 .. Len(Sent(m.op)) /\ Sent(m.op)[1] = m
        BY <2>2, <4>1
      <4> QED BY <2>3, <4>2 DEF Elems
    <3>2. \A o \in Ops : ready'[o] = ready[o] \/ (~IsReply(m) /\ m.op = o)
      BY <1>0, <2>1, <2>3, ZenonT(60) DEF TypeOK
    <3>3. ~IsReply(m) => ppc[m.op] \in {"wake", "syncWait"} /\ sending[m.op] = "sync"
      BY <2>3, <3>1 DEF SyncHeld
    <3> QED BY <2>1, <3>2, <3>3 DEF SendingInv
  <2>11. LinesInv'
    <3>1. \A o \in Ops : Backlog(o) = Len(OnlyIn(Sent(o), Replies))
      BY <1>0, BacklogOfSent
    <3>2. \A o \in Ops : Backlog(o)' = Len(OnlyIn(Sent(o)', Replies))
      <4> SUFFICES ASSUME NEW o \in Ops PROVE Backlog(o)' = Len(OnlyIn(Sent(o)', Replies))
        OBVIOUS
      <4>1. {x \in Replies : x.op = o} = OfOp(o) \cap Replies
        BY DEF OfOp, Replies
      <4>2. OnlyIn(OnlyIn(Queue', OfOp(o)), Replies) = OnlyIn(Queue', OfOp(o) \cap Replies)
        BY <2>2, OnlyInTwice
      <4> QED BY <4>1, <4>2 DEF Backlog, Sent, Queue, OfOp
    <3>3. \A o \in Ops : Backlog(o) \in Nat /\ Backlog(o)' \in Nat /\ Backlog(o)' <= Backlog(o)
      <4> SUFFICES ASSUME NEW o \in Ops
                   PROVE  Backlog(o) \in Nat /\ Backlog(o)' \in Nat /\ Backlog(o)' <= Backlog(o)
        OBVIOUS
      <4>1. OnlyIn(Sent(o), Replies) \in Seq(Msg) /\ OnlyIn(Sent(o)', Replies) \in Seq(Msg)
        BY <2>4, OnlyInSeq
      <4> DEFINE l == << m >>
      <4>0. l \in Seq(Msg) /\ (m.op = o => Sent(o) = l \o Sent(o)')
        BY <2>2
      <4> HIDE DEF l
      <4>2. m.op = o => OnlyIn(Sent(o), Replies) = OnlyIn(l, Replies) \o OnlyIn(Sent(o)', Replies)
        <5> DEFINE r == Sent(o)'
        <5>1. r \in Seq(Msg) /\ (m.op = o => Sent(o) = l \o r)
          BY <2>4, <4>0
        <5> HIDE DEF r
        <5>2. OnlyIn(l \o r, Replies) = OnlyIn(l, Replies) \o OnlyIn(r, Replies)
          BY <4>0, <5>1, OnlyInConcat
        <5> QED BY <5>1, <5>2 DEF r
      <4>3. OnlyIn(l, Replies) \in Seq(Msg)
        BY <4>0, OnlyInSeq
      <4>4. CASE m.op = o
        <5>1. Len(OnlyIn(Sent(o), Replies)) = Len(OnlyIn(l, Replies)) + Len(OnlyIn(Sent(o)', Replies))
          BY <4>1, <4>2, <4>3, <4>4
        <5> QED BY <3>1, <3>2, <4>1, <4>3, <5>1
      <4>5. CASE m.op # o
        BY <2>2, <3>1, <3>2, <4>1, <4>5
      <4> QED BY <4>4, <4>5
    <3>4. ~IsReply(m) => Backlog(m.op)' = 0
      BY <2>3, <2>5, <3>2, OnlyInEmpty
    <3>5. \A o \in Ops : ready'[o] = ready[o] \/ (~IsReply(m) /\ m.op = o)
      BY <1>0, <2>1, <2>3, ZenonT(60) DEF TypeOK
    <3>6. \A o \in Ops : lines[o] \in Nat
      BY <1>0 DEF TypeOK
    <3>7. ASSUME NEW o \in Ops, ready'[o] PROVE ready[o] \/ Backlog(o)' = 0
      BY <3>4, <3>5, <3>7
    <3>8. ASSUME NEW o \in Ops, NEW k \in Nat, Backlog(o) <= lines[o] + k PROVE Backlog(o)' <= lines[o] + k
      BY <3>3, <3>6, <3>8
    <3>9. ASSUME NEW o \in Ops, Backlog(o) = 0 PROVE Backlog(o)' = 0
      BY <3>3, <3>9
    <3> QED BY <2>1, <3>7, <3>8, <3>9 DEF LinesInv
  <2> QED BY <1>0, <2>6, <2>7, <2>8, <2>9, <2>10, <2>11
<1>20. CASE UNCHANGED vars
  <2>1. UNCHANGED <<buffer, tasks, ppc, sending, lines, ready, posted, shown>>
    BY <1>20 DEF vars
  <2>2. ReplyOrder' /\ SyncHeld' /\ SyncLast' /\ SendingInv' /\ LinesInv'
    BY <2>1, QuietKeeps
  <2>3. LoopInv' /\ HandlerInv' /\ HandlerAlive'
    BY <1>20, <1>0 DEF vars, LoopInv, HandlerInv, HandlerAlive, TypeOK
  <2>4. WakeInv'
    BY <1>20 DEF vars, WakeInv
  <2> QED BY <1>0, <2>2, <2>3, <2>4
<1> QED BY <1>1, <1>2, <1>3, <1>4, <1>5, <1>6, <1>7, <1>8, <1>9, <1>10, <1>11, <1>12, <1>13, <1>14, <1>15, <1>16, <1>17, <1>18, <1>19, <1>20 DEF Next, OpStep, UIStep

\* At the start nothing is queued and no thread runs.
LEMMA InitHolds == Init => WindowInv
<1> SUFFICES ASSUME Init PROVE WindowInv
  OBVIOUS
<1> USE WindowAssumption
<1>1. TypeOK
  <2>1. PICK session \in Sessions : ppc = [o \in Ops |-> IF o \in session THEN "new" ELSE "none"]
    BY DEF Init
  <2>2. ppc \in [Ops -> OpStates]
    BY <2>1 DEF OpStates
  <2>3. tasks \in Seq(Msg) /\ buffer \in Seq(Msg) /\ posted \in Seq(Msg) /\ shown \in Seq(Msg)
    BY DEF Init
  <2> QED BY <2>2, <2>3 DEF Init, TypeOK, Kinds
<1>2. LoopInv /\ HandlerInv /\ HandlerAlive /\ WakeInv /\ SendingInv
  BY DEF Init, LoopInv, HandlerInv, HandlerAlive, WakeInv, SendingInv
<1>3. Queue = << >>
  BY DEF Init, Queue
<1>4. ReplyOrder
  BY <1>3, OnlyInEmpty DEF Init, ReplyOrder, Queue
<1>5. \A o \in Ops : Sent(o) = << >> /\ Backlog(o) = 0
  BY <1>3, OnlyInEmpty DEF Sent, Backlog, Queue
<1>6. SyncHeld /\ SyncLast
  BY <1>5 DEF SyncHeld, SyncLast, Elems
<1>7. LinesInv
  <2>1. \A o \in Ops : ppc[o] \in {"none", "new"} /\ lines[o] = 0
    BY DEF Init
  <2>2. 0 <= MaxLines + 1 /\ 0 <= MaxLines /\ 0 <= 0 + 0
    OBVIOUS
  <2>3. \A o \in Ops : ppc[o] \notin {"reply", "push", "wake", "syncWait", "done"}
    BY <2>1
  <2> QED BY <1>5, <2>1, <2>2, <2>3 DEF LinesInv
<1> QED BY <1>1, <1>2, <1>4, <1>6, <1>7 DEF WindowInv

-----------------------------------------------------------------------------
\* The invariant holds of every behaviour of CWindowThread and its users.
THEOREM WindowInvariant == Spec => []WindowInv
BY InitHolds, StepHolds, PTL DEF Spec

\* The variables of CWindowThread, the UI loop and the operations keep their
\* types.
THEOREM WindowTypes == Spec => []TypeOK
<1>1. WindowInv => TypeOK
  BY DEF WindowInv
<1> QED BY <1>1, WindowInvariant, PTL

\* AddTask, RemoveTask and GUI_ProcessTasks: every reply is handled on the UI
\* thread once, in the order in which it was added.
THEOREM RepliesInOrder == Spec => []ReplyOrder
<1>1. WindowInv => ReplyOrder
  BY DEF WindowInv
<1> QED BY <1>1, WindowInvariant, PTL

\* Operation::Sync and WakeUpUI: a task that refers to the stack of a waiting
\* thread is queued only while that thread waits, and the wakeup handler is
\* entered only while the reader it refers to exists.
THEOREM FramesStayAlive == Spec => []FramesAlive
<1>1. WindowInv => FramesAlive
  <2> SUFFICES ASSUME WindowInv PROVE SyncFrameAlive
    BY DEF WindowInv, FramesAlive
  <2>1. Queue \in Seq(Msg)
    BY ConcatProperties DEF WindowInv, TypeOK, Queue
  <2> SUFFICES ASSUME NEW i \in 1 .. Len(Queue), Queue[i].kind = "sync"
               PROVE  /\ sending[Queue[i].op] = "sync"
                      /\ ppc[Queue[i].op] \in {"wake", "syncWait"}
                      /\ ~ready[Queue[i].op]
    BY DEF SyncFrameAlive, Queue
  <2>2. Queue[i] \in Elems(Queue) /\ Queue[i] \in Msg
    BY <2>1 DEF Elems
  <2>3. PICK o \in Ops : Queue[i] = SyncTask(o) /\ Queue[i].op = o /\ Queue[i] \in OfOp(o)
    BY <2>2 DEF Msg, SyncTask, OfOp
  <2>4. Elems(Sent(o)) = Elems(Queue) \cap OfOp(o)
    BY <2>1, OnlyInElems DEF Sent
  <2> QED BY <2>2, <2>3, <2>4 DEF WindowInv, SyncHeld
<1> QED BY <1>1, WindowInvariant, PTL

\* ReplyLine: whatever a command prints, the UI never has more of it to show
\* than g_maxLinesWithoutSync and two.
THEOREM BacklogStaysBounded == Spec => []BacklogBounded
<1>1. WindowInv => BacklogBounded
  <2> SUFFICES ASSUME WindowInv, NEW o \in Ops PROVE Backlog(o) <= MaxLines + 2
    BY DEF BacklogBounded
  <2>1. lines[o] \in Nat /\ MaxLines \in Nat /\ Backlog(o) \in Nat
    <3>1. Queue \in Seq(Msg)
      BY ConcatProperties DEF WindowInv, TypeOK, Queue
    <3>2. OnlyIn(Queue, {m \in Replies : m.op = o}) \in Seq(Msg)
      BY <3>1, OnlyInSeq
    <3>3. Len(OnlyIn(Queue, {m \in Replies : m.op = o})) \in Nat
      BY <3>2
    <3> QED BY <3>3, WindowAssumption DEF WindowInv, TypeOK, Backlog, Queue
  <2>2. lines[o] <= MaxLines + 1 /\ (Backlog(o) <= lines[o] + 1 \/ Backlog(o) <= lines[o] + 0)
    BY DEF WindowInv, LinesInv
  <2> QED BY <2>1, <2>2
<1> QED BY <1>1, WindowInvariant, PTL

\* AddTask and WakeUpUI: the UI thread does not block in Read beside a task of
\* a command unless the thread that added it has still to wake it.
THEOREM PostsAreNotLost == Spec => []NoLostPost
<1>1. WindowInv => NoLostPost
  BY DEF WindowInv, WakeInv, NoLostPost
<1> QED BY <1>1, WindowInvariant, PTL
=============================================================================
