---------------------------------- MODULE Sums ----------------------------------
(***************************************************************************)
(* Lemmas that the proofs about several components share: induction over   *)
(* the numbers and over the parts of a finite set, in the form of closed   *)
(* sets, and what the sums of the community modules add up to.             *)
(*                                                                         *)
(* SumFunctionOnSet(f, S) takes some element of S, adds its f[x] to the    *)
(* sum of the rest, and so on.  That the order does not matter is SumPuts; *)
(* everything after it speaks of sums only.                                *)
(***************************************************************************)
EXTENDS Integers, Functions, FiniteSetsExt, FiniteSetTheorems, WellFoundedInduction, TLAPS

-------------------------------------------------------------------------------
(* Induction. *)

LEMMA LeastOf ==
  ASSUME NEW S \in SUBSET Nat, S # {}
  PROVE  \E n \in S : \A m \in S : n <= m
<1>1. PICK n \in S : \A m \in S : ~(<<m, n>> \in OpToRel(<, Nat))
  BY NatLessThanWellFounded, WFMin
<1>2. ASSUME NEW m \in S PROVE n <= m
  <2>1. m \in Nat /\ n \in Nat OBVIOUS
  <2>2. ~(m < n) BY <1>1, <2>1 DEF OpToRel
  <2> QED BY <2>1, <2>2
<1> QED BY <1>2

LEMMA InductiveSet ==
  ASSUME NEW S, 0 \in S, \A n \in Nat : n \in S => n + 1 \in S
  PROVE  Nat \subseteq S
<1> SUFFICES ASSUME Nat \ S # {} PROVE FALSE OBVIOUS
<1>1. PICK n \in Nat \ S : \A m \in Nat \ S : n <= m BY LeastOf
<1>2. n # 0 /\ n \in Nat OBVIOUS
<1>3. n - 1 \in Nat /\ ~(n <= n - 1) /\ n - 1 + 1 = n BY <1>2
<1>4. n - 1 \in S BY <1>1, <1>3
<1> QED BY <1>3, <1>4

LEMMA FiniteDescent ==
  ASSUME NEW S, IsFiniteSet(S), NEW C, {} \in C,
         \A T \in SUBSET S : T # {} /\ (\A x \in T : T \ {x} \in C) => T \in C
  PROVE  SUBSET S \subseteq C
<1> DEFINE N == {n \in Nat : \A T \in SUBSET S : Cardinality(T) = n => T \in C}
<1>1. \A T \in SUBSET S : IsFiniteSet(T) /\ Cardinality(T) \in Nat
  BY FS_Subset, FS_CardinalityType
<1>2. 0 \in N BY <1>1, FS_EmptySet
<1>3. ASSUME NEW n \in Nat, n \in N PROVE n + 1 \in N
  <2> SUFFICES ASSUME NEW T \in SUBSET S, Cardinality(T) = n + 1 PROVE T \in C OBVIOUS
  <2>1. T # {} BY FS_EmptySet
  <2>2. ASSUME NEW x \in T PROVE T \ {x} \in C
    <3>1. Cardinality(T \ {x}) = n BY <1>1, FS_RemoveElement
    <3> QED BY <1>3, <3>1
  <2> QED BY <2>1, <2>2
<1> HIDE DEF N
<1>4. Nat \subseteq N BY <1>2, <1>3, InductiveSet
<1> QED BY <1>1, <1>4 DEF N

-------------------------------------------------------------------------------
(* Sums.  What the library's SumFunctionOnSet folds with is a function g   *)
(* of the parts of S that takes Pick(s) out of each; there is exactly one. *)
(* Adds(f, S): f can be summed over S.                                     *)
Pick(s) == CHOOSE x \in s : TRUE
Summed(f, S) ==
  {g \in [SUBSET S -> Nat] :
    \A s \in SUBSET S : g[s] = IF s = {} THEN 0 ELSE f[Pick(s)] + g[s \ {Pick(s)}]}
Adds(f, S) == IsFiniteSet(S) /\ \A x \in S : f[x] \in Nat

LEMMA PickIn == \A s : s # {} => Pick(s) \in s
BY DEF Pick

LEMMA SummedTo ==
  ASSUME NEW f, NEW S, Adds(f, S)
  PROVE  \A n \in Nat : \E g \in [SUBSET S -> Nat] : \A s \in SUBSET S :
           Cardinality(s) <= n => g[s] = IF s = {} THEN 0 ELSE f[Pick(s)] + g[s \ {Pick(s)}]
<1> DEFINE Sat(g, s) == g[s] = IF s = {} THEN 0 ELSE f[Pick(s)] + g[s \ {Pick(s)}]
           Upto(g, n) == \A s \in SUBSET S : Cardinality(s) <= n => Sat(g, s)
           N == {n \in Nat : \E g \in [SUBSET S -> Nat] : Upto(g, n)}
<1>1. \A s \in SUBSET S : IsFiniteSet(s) /\ Cardinality(s) \in Nat
  BY FS_Subset, FS_CardinalityType DEF Adds
<1>2. 0 \in N
  <2> DEFINE g == [s \in SUBSET S |-> 0]
  <2>1. \A s \in SUBSET S : Cardinality(s) <= 0 => s = {} BY <1>1, FS_EmptySet
  <2>2. Upto(g, 0) BY <2>1
  <2>3. g \in [SUBSET S -> Nat] OBVIOUS
  <2> HIDE DEF g, Upto
  <2> QED BY <2>2, <2>3
<1>3. ASSUME NEW n \in Nat, n \in N PROVE n + 1 \in N
  <2>1. PICK g \in [SUBSET S -> Nat] : Upto(g, n) BY <1>3
  <2> DEFINE h == [s \in SUBSET S |-> IF s = {} THEN 0 ELSE f[Pick(s)] + g[s \ {Pick(s)}]]
  <2>2. \A s \in SUBSET S : s # {} => /\ Pick(s) \in S /\ f[Pick(s)] \in Nat
                                      /\ s \ {Pick(s)} \in SUBSET S
    BY PickIn DEF Adds
  <2>3. \A s \in SUBSET S : h[s] \in Nat
    <3> TAKE s \in SUBSET S
    <3>1. CASE s = {} BY <3>1
    <3>2. CASE s # {}
      <4>1. f[Pick(s)] \in Nat /\ g[s \ {Pick(s)}] \in Nat BY <2>2, <3>2
      <4>2. h[s] = f[Pick(s)] + g[s \ {Pick(s)}] BY <3>2
      <4> HIDE DEF h
      <4> QED BY <4>1, <4>2
    <3> QED BY <3>1, <3>2
  <2>4. ASSUME NEW s \in SUBSET S, Cardinality(s) <= n PROVE h[s] = g[s]
    <3>1. Sat(g, s) BY <2>1, <2>4
    <3> QED BY <3>1
  <2>5. ASSUME NEW s \in SUBSET S, Cardinality(s) <= n + 1 PROVE Sat(h, s)
    <3>1. CASE s = {} BY <3>1
    <3>2. CASE s # {}
      <4> DEFINE r == s \ {Pick(s)}
      <4>1. Pick(s) \in s BY <3>2, PickIn
      <4>2. r \in SUBSET S /\ Cardinality(r) = Cardinality(s) - 1
        BY <1>1, <4>1, FS_RemoveElement
      <4>3. Cardinality(r) <= n BY <1>1, <2>5, <4>2
      <4>4. h[r] = g[r] BY <2>4, <4>2, <4>3
      <4> QED BY <3>2, <4>4
    <3> QED BY <3>1, <3>2
  <2>6. h \in [SUBSET S -> Nat]
    <3>1. h = [s \in SUBSET S |-> h[s]] OBVIOUS
    <3> HIDE DEF h
    <3> QED BY <2>3, <3>1
  <2>7. Upto(h, n + 1) BY <2>5
  <2> HIDE DEF h, Upto
  <2> QED BY <2>6, <2>7
<1> HIDE DEF N
<1>4. Nat \subseteq N BY <1>2, <1>3, InductiveSet
<1> QED BY <1>4 DEF N

LEMMA SummedExists ==
  ASSUME NEW f, NEW S, Adds(f, S)
  PROVE  Summed(f, S) # {}
<1>1. Cardinality(S) \in Nat BY FS_CardinalityType DEF Adds
<1> DEFINE Upto(g, n) == \A s \in SUBSET S :
             Cardinality(s) <= n => g[s] = IF s = {} THEN 0 ELSE f[Pick(s)] + g[s \ {Pick(s)}]
<1>2. PICK g \in [SUBSET S -> Nat] : Upto(g, Cardinality(S))
  <2>1. \A n \in Nat : \E g \in [SUBSET S -> Nat] : Upto(g, n) BY SummedTo
  <2> HIDE DEF Upto
  <2> QED BY <1>1, <2>1
<1>3. \A s \in SUBSET S : Cardinality(s) <= Cardinality(S) BY FS_Subset DEF Adds
<1> QED BY <1>2, <1>3 DEF Summed

LEMMA SummedAgree ==
  ASSUME NEW f, NEW S, NEW R, Adds(f, S), NEW g \in Summed(f, S), NEW h \in Summed(f, R)
  PROVE  \A s \in SUBSET S : s \subseteq R => g[s] = h[s]
<1> DEFINE C == {s \in SUBSET S : s \subseteq R => g[s] = h[s]}
<1>1. {} \in C BY DEF Summed
<1>2. ASSUME NEW T \in SUBSET S, T # {}, \A x \in T : T \ {x} \in C PROVE T \in C
  <2> SUFFICES ASSUME T \subseteq R PROVE g[T] = h[T] OBVIOUS
  <2>1. Pick(T) \in T BY <1>2, PickIn
  <2>2. g[T \ {Pick(T)}] = h[T \ {Pick(T)}] BY <1>2, <2>1
  <2>3. g[T] = f[Pick(T)] + g[T \ {Pick(T)}] BY <1>2 DEF Summed
  <2>4. h[T] = f[Pick(T)] + h[T \ {Pick(T)}] BY <1>2 DEF Summed
  <2> QED BY <2>2, <2>3, <2>4
<1> HIDE DEF C
<1>3. SUBSET S \subseteq C BY <1>1, <1>2, FiniteDescent DEF Adds
<1> QED BY <1>3 DEF C

LEMMA SumIs ==
  ASSUME NEW f, NEW S, Adds(f, S)
  PROVE  \E g \in Summed(f, S) : SumFunctionOnSet(f, S) = g[S]
<1> DEFINE Body(g) == [s \in SUBSET S |->
             IF s = {} THEN 0
             ELSE f[CHOOSE x \in s : TRUE] + g[s \ {CHOOSE x \in s : TRUE}]]
           c == CHOOSE g : g = Body(g)
<1>1. PICK g : g \in Summed(f, S) BY SummedExists
<1>2. g = Body(g)
  <2>1. g \in [SUBSET S -> Nat] BY <1>1 DEF Summed
  <2>2. \A s \in SUBSET S : g[s] = Body(g)[s] BY <1>1 DEF Summed, Pick
  <2>3. DOMAIN Body(g) = SUBSET S /\ Body(g) = [s \in SUBSET S |-> Body(g)[s]] OBVIOUS
  <2>4. g = [s \in SUBSET S |-> g[s]] BY <2>1
  <2> HIDE DEF Body
  <2> QED BY <2>2, <2>3, <2>4
<1>3. c = Body(c)
  <2> HIDE DEF Body
  <2> QED BY <1>2
<1>4. SumFunctionOnSet(f, S) = c[S]
  BY DEF SumFunctionOnSet, FoldFunctionOnSet, MapThenFoldSet
<1> HIDE DEF c
<1>5. \A s \in SUBSET S : c[s] = IF s = {} THEN 0 ELSE f[Pick(s)] + c[s \ {Pick(s)}]
  BY <1>3 DEF Pick
<1>6. \A s \in SUBSET S : c[s] \in Nat
  <2> DEFINE C == {s \in SUBSET S : c[s] \in Nat}
  <2>1. {} \in C
    <3>1. {} \in SUBSET S OBVIOUS
    <3>2. c[{}] = 0 BY <1>5, <3>1
    <3> QED BY <3>1, <3>2
  <2>2. ASSUME NEW T \in SUBSET S, T # {}, \A x \in T : T \ {x} \in C PROVE T \in C
    <3>1. Pick(T) \in T BY <2>2, PickIn
    <3>2. c[T \ {Pick(T)}] \in Nat /\ f[Pick(T)] \in Nat BY <2>2, <3>1 DEF Adds
    <3>3. c[T] = f[Pick(T)] + c[T \ {Pick(T)}] BY <1>5, <2>2
    <3>4. c[T] \in Nat BY <3>2, <3>3
    <3> QED BY <3>4
  <2> HIDE DEF C
  <2>3. SUBSET S \subseteq C BY <2>1, <2>2, FiniteDescent DEF Adds
  <2> QED BY <2>3 DEF C
<1>7. c = [s \in SUBSET S |-> c[s]] BY <1>3, Zenon
<1>8. c \in Summed(f, S) BY <1>5, <1>6, <1>7 DEF Summed
<1> QED BY <1>4, <1>8

-------------------------------------------------------------------------------
(* The same in terms of SumFunctionOnSet only. *)

LEMMA SumPart ==
  ASSUME NEW f, NEW S, Adds(f, S), NEW g \in Summed(f, S), NEW T \in SUBSET S
  PROVE  Adds(f, T) /\ SumFunctionOnSet(f, T) = g[T]
<1>1. Adds(f, T) BY FS_Subset DEF Adds
<1>2. PICK h \in Summed(f, T) : SumFunctionOnSet(f, T) = h[T] BY <1>1, SumIs
<1>3. h[T] = g[T] BY <1>1, SummedAgree
<1> QED BY <1>1, <1>2, <1>3

LEMMA SumEmpty ==
  ASSUME NEW f
  PROVE  SumFunctionOnSet(f, {}) = 0
<1>1. Adds(f, {}) BY FS_EmptySet DEF Adds
<1>2. PICK g \in Summed(f, {}) : SumFunctionOnSet(f, {}) = g[{}] BY <1>1, SumIs
<1> QED BY <1>2 DEF Summed

LEMMA SumType ==
  ASSUME NEW f, NEW S, Adds(f, S)
  PROVE  SumFunctionOnSet(f, S) \in Nat
<1>1. PICK g \in Summed(f, S) : SumFunctionOnSet(f, S) = g[S] BY SumIs
<1>2. S \in SUBSET S /\ g \in [SUBSET S -> Nat] BY DEF Summed
<1> QED BY <1>1, <1>2

LEMMA SumTakesOut ==
  ASSUME NEW f, NEW S, Adds(f, S), NEW x \in S
  PROVE  SumFunctionOnSet(f, S) = f[x] + SumFunctionOnSet(f, S \ {x})
<1> PICK g \in Summed(f, S) : TRUE BY SummedExists
<1> DEFINE C == {T \in SUBSET S : \A y \in T : g[T] = f[y] + g[T \ {y}]}
<1>1. {} \in C OBVIOUS
<1>2. ASSUME NEW T \in SUBSET S, T # {}, \A y \in T : T \ {y} \in C PROVE T \in C
  <2> SUFFICES ASSUME NEW y \in T PROVE g[T] = f[y] + g[T \ {y}] OBVIOUS
  <2> DEFINE z == Pick(T)
             r == (T \ {y}) \ {z}
  <2>1. z \in T BY PickIn
  <2>2. g[T] = f[z] + g[T \ {z}] BY <1>2 DEF Summed
  <2>3. CASE y = z BY <2>2, <2>3
  <2>4. CASE y # z
    <3>1. y \in T \ {z} /\ z \in T \ {y} BY <2>1, <2>4
    <3>2. (T \ {z}) \ {y} = r OBVIOUS
    <3>3. g[T \ {z}] = f[y] + g[r] BY <1>2, <2>1, <3>1, <3>2
    <3>4. g[T \ {y}] = f[z] + g[r] BY <1>2, <3>1
    <3>5. f[y] \in Nat /\ f[z] \in Nat BY <2>1 DEF Adds
    <3>6. g[r] \in Nat
      <4>1. r \in SUBSET S OBVIOUS
      <4> HIDE DEF r
      <4> QED BY <4>1 DEF Summed
    <3> HIDE DEF z, r
    <3> QED BY <2>2, <3>3, <3>4, <3>5, <3>6
  <2> QED BY <2>3, <2>4
<1> HIDE DEF C
<1>3. SUBSET S \subseteq C BY <1>1, <1>2, FiniteDescent DEF Adds
<1>4. g[S] = f[x] + g[S \ {x}] BY <1>3 DEF C
<1>5. SumFunctionOnSet(f, S) = g[S] BY SumPart
<1>6. SumFunctionOnSet(f, S \ {x}) = g[S \ {x}] BY SumPart
<1> QED BY <1>4, <1>5, <1>6

LEMMA SumPuts ==
  ASSUME NEW f, NEW S, Adds(f, S), NEW x, x \notin S, f[x] \in Nat
  PROVE  /\ Adds(f, S \union {x})
         /\ SumFunctionOnSet(f, S \union {x}) = f[x] + SumFunctionOnSet(f, S)
<1>1. Adds(f, S \union {x}) BY FS_AddElement DEF Adds
<1>2. (S \union {x}) \ {x} = S /\ x \in S \union {x} OBVIOUS
<1>3. SumFunctionOnSet(f, S \union {x})
        = f[x] + SumFunctionOnSet(f, (S \union {x}) \ {x}) BY <1>1, <1>2, SumTakesOut
<1> QED BY <1>1, <1>2, <1>3

LEMMA AddsPart ==
  ASSUME NEW f, NEW S, Adds(f, S), NEW T \in SUBSET S
  PROVE  Adds(f, T)
BY FS_Subset DEF Adds

LEMMA SumSame ==
  ASSUME NEW f, NEW g, NEW S, Adds(f, S), \A x \in S : f[x] = g[x]
  PROVE  Adds(g, S) /\ SumFunctionOnSet(f, S) = SumFunctionOnSet(g, S)
<1> DEFINE F(T) == SumFunctionOnSet(f, T)
           G(T) == SumFunctionOnSet(g, T)
           C == {T \in SUBSET S : F(T) = G(T)}
<1>0. Adds(g, S) BY DEF Adds
<1>1. {} \in C BY SumEmpty
<1>2. ASSUME NEW T \in SUBSET S, T # {}, \A y \in T : T \ {y} \in C PROVE T \in C
  <2>1. PICK y \in T : TRUE BY <1>2
  <2>2. F(T) = f[y] + F(T \ {y}) BY AddsPart, SumTakesOut
  <2>3. G(T) = g[y] + G(T \ {y}) BY <1>0, AddsPart, SumTakesOut
  <2>4. F(T \ {y}) = G(T \ {y}) BY <1>2
  <2> HIDE DEF F, G
  <2> QED BY <2>2, <2>3, <2>4
<1> HIDE DEF C
<1>3. SUBSET S \subseteq C BY <1>1, <1>2, FiniteDescent DEF Adds
<1> QED BY <1>0, <1>3 DEF C

LEMMA SumZeros ==
  ASSUME NEW f, NEW S, IsFiniteSet(S), \A x \in S : f[x] = 0
  PROVE  SumFunctionOnSet(f, S) = 0
<1> DEFINE F(T) == SumFunctionOnSet(f, T)
           C == {T \in SUBSET S : F(T) = 0}
<1>0. Adds(f, S) BY DEF Adds
<1>1. {} \in C BY SumEmpty
<1>2. ASSUME NEW T \in SUBSET S, T # {}, \A y \in T : T \ {y} \in C PROVE T \in C
  <2>1. PICK y \in T : TRUE BY <1>2
  <2>2. F(T) = f[y] + F(T \ {y}) BY <1>0, AddsPart, SumTakesOut
  <2>3. F(T \ {y}) = 0 /\ f[y] = 0 BY <1>2
  <2> HIDE DEF F
  <2> QED BY <2>2, <2>3
<1> HIDE DEF C
<1>3. SUBSET S \subseteq C BY <1>1, <1>2, FiniteDescent
<1> QED BY <1>3 DEF C

LEMMA SumUnion ==
  ASSUME NEW f, NEW A, NEW B, Adds(f, A), Adds(f, B), A \intersect B = {}
  PROVE  /\ Adds(f, A \union B)
         /\ SumFunctionOnSet(f, A \union B) = SumFunctionOnSet(f, A) + SumFunctionOnSet(f, B)
<1> DEFINE F(T) == SumFunctionOnSet(f, T)
           C == {T \in SUBSET B : F(A \union T) = F(A) + F(T)}
<1>0. Adds(f, A \union B) BY FS_Union DEF Adds
<1>1. {} \in C
  <2>1. A \union {} = A OBVIOUS
  <2>2. F({}) = 0 /\ F(A) \in Nat BY SumEmpty, SumType
  <2>3. F(A \union {}) = F(A) + F({})
    <3> HIDE DEF F
    <3> QED BY <2>1, <2>2
  <2> QED BY <2>3
<1>2. ASSUME NEW T \in SUBSET B, T # {}, \A y \in T : T \ {y} \in C PROVE T \in C
  <2>1. PICK y \in T : TRUE BY <1>2
  <2>2. F(T) = f[y] + F(T \ {y}) BY AddsPart, SumTakesOut
  <2>3. F(A \union T) = f[y] + F((A \union T) \ {y})
    <3>1. Adds(f, A \union T) BY <1>0, AddsPart
    <3> QED BY <2>1, <3>1, SumTakesOut
  <2>4. (A \union T) \ {y} = A \union (T \ {y}) OBVIOUS
  <2>5. F(A \union (T \ {y})) = F(A) + F(T \ {y}) BY <1>2
  <2>6. F(A) \in Nat /\ F(T \ {y}) \in Nat /\ f[y] \in Nat
    <3>1. Adds(f, T \ {y}) BY AddsPart
    <3> QED BY <3>1, SumType DEF Adds
  <2>7. F((A \union T) \ {y}) = F(A) + F(T \ {y}) BY <2>4, <2>5
  <2>8. F(A \union T) = F(A) + F(T)
    <3> HIDE DEF F
    <3> QED BY <2>2, <2>3, <2>6, <2>7
  <2> QED BY <2>8
<1> HIDE DEF C
<1>3. SUBSET B \subseteq C BY <1>1, <1>2, FiniteDescent DEF Adds
<1> QED BY <1>0, <1>3 DEF C

LEMMA SumAdd ==
  ASSUME NEW f, NEW g, NEW h, NEW S, Adds(f, S), Adds(g, S),
         \A x \in S : h[x] = f[x] + g[x]
  PROVE  /\ Adds(h, S)
         /\ SumFunctionOnSet(h, S) = SumFunctionOnSet(f, S) + SumFunctionOnSet(g, S)
<1> DEFINE F(T) == SumFunctionOnSet(f, T)
           G(T) == SumFunctionOnSet(g, T)
           H(T) == SumFunctionOnSet(h, T)
           C == {T \in SUBSET S : H(T) = F(T) + G(T)}
<1>0. Adds(h, S) BY DEF Adds
<1>1. {} \in C BY SumEmpty
<1>2. ASSUME NEW T \in SUBSET S, T # {}, \A y \in T : T \ {y} \in C PROVE T \in C
  <2>1. PICK y \in T : TRUE BY <1>2
  <2>2. F(T) = f[y] + F(T \ {y}) BY AddsPart, SumTakesOut
  <2>3. G(T) = g[y] + G(T \ {y}) BY AddsPart, SumTakesOut
  <2>4. H(T) = h[y] + H(T \ {y}) BY <1>0, AddsPart, SumTakesOut
  <2>5. H(T \ {y}) = F(T \ {y}) + G(T \ {y}) BY <1>2
  <2>6. /\ F(T \ {y}) \in Nat /\ G(T \ {y}) \in Nat /\ f[y] \in Nat /\ g[y] \in Nat
        /\ h[y] = f[y] + g[y]
    <3>1. Adds(f, T \ {y}) /\ Adds(g, T \ {y}) BY AddsPart
    <3> QED BY <3>1, SumType DEF Adds
  <2>7. H(T) = F(T) + G(T)
    <3> HIDE DEF F, G, H
    <3> QED BY <2>2, <2>3, <2>4, <2>5, <2>6
  <2> QED BY <2>7
<1> HIDE DEF C
<1>3. SUBSET S \subseteq C BY <1>1, <1>2, FiniteDescent DEF Adds
<1> QED BY <1>0, <1>3 DEF C

(* The same summands under other names. *)
LEMMA SumRenamed ==
  ASSUME NEW f, NEW S, Adds(f, S), NEW g, NEW R, NEW m \in Bijection(R, S),
         \A r \in R : g[r] = f[m[r]]
  PROVE  Adds(g, R) /\ SumFunctionOnSet(g, R) = SumFunctionOnSet(f, S)
<1> DEFINE F(T) == SumFunctionOnSet(f, T)
           G(T) == SumFunctionOnSet(g, T)
           Img(T) == {m[r] : r \in T}
           C == {T \in SUBSET R : G(T) = F(Img(T))}
<1>1. /\ m \in [R -> S] /\ \A a, b \in R : m[a] = m[b] => a = b
      /\ \A s \in S : \E r \in R : m[r] = s
  BY DEF Bijection, Injection, Surjection, IsInjective
<1>2. IsFiniteSet(R) BY <1>1, FS_Injection DEF Adds, Bijection
<1>3. Adds(g, R) BY <1>1, <1>2 DEF Adds
<1>4. {} \in C
  <2>1. Img({}) = {} OBVIOUS
  <2> QED BY <2>1, SumEmpty
<1>5. ASSUME NEW T \in SUBSET R, T # {}, \A y \in T : T \ {y} \in C PROVE T \in C
  <2>1. PICK y \in T : TRUE BY <1>5
  <2>2. G(T) = g[y] + G(T \ {y}) BY <1>3, AddsPart, SumTakesOut
  <2>3. Img(T) \in SUBSET S /\ m[y] \in Img(T) /\ Img(T) \ {m[y]} = Img(T \ {y}) BY <1>1
  <2>4. F(Img(T)) = f[m[y]] + F(Img(T) \ {m[y]})
    <3>1. Adds(f, Img(T)) BY <2>3, AddsPart
    <3> HIDE DEF Img
    <3> QED BY <2>3, <3>1, SumTakesOut
  <2>5. G(T \ {y}) = F(Img(T \ {y})) BY <1>5
  <2>6. G(T) = F(Img(T))
    <3> HIDE DEF F, G, Img
    <3> QED BY <2>2, <2>3, <2>4, <2>5
  <2> QED BY <2>6
<1> HIDE DEF C
<1>6. SUBSET R \subseteq C BY <1>2, <1>4, <1>5, FiniteDescent
<1>7. Img(R) = S BY <1>1
<1> QED BY <1>3, <1>6, <1>7 DEF C

(* Fiber(S, p, k): those of S that p puts into class k.  Summing class by   *)
(* class is summing.                                                       *)
Fiber(S, p, k) == {x \in S : p[x] = k}

LEMMA SumFibers ==
  ASSUME NEW f, NEW S, Adds(f, S), NEW K, IsFiniteSet(K), NEW p, \A x \in S : p[x] \in K,
         NEW g, \A k \in K : g[k] = SumFunctionOnSet(f, Fiber(S, p, k))
  PROVE  Adds(g, K) /\ SumFunctionOnSet(g, K) = SumFunctionOnSet(f, S)
<1> DEFINE F(T) == SumFunctionOnSet(f, T)
           G(T) == SumFunctionOnSet(g, T)
           In(T) == {x \in S : p[x] \in T}
           C == {T \in SUBSET K : G(T) = F(In(T))}
<1>1. Adds(g, K)
  <2>1. \A k \in K : SumFunctionOnSet(f, Fiber(S, p, k)) \in Nat
    <3> TAKE k \in K
    <3>1. Fiber(S, p, k) \in SUBSET S BY DEF Fiber
    <3> QED BY <3>1, AddsPart, SumType
  <2> QED BY <2>1 DEF Adds
<1>2. {} \in C
  <2>1. In({}) = {} OBVIOUS
  <2> QED BY <2>1, SumEmpty
<1>3. ASSUME NEW T \in SUBSET K, T # {}, \A y \in T : T \ {y} \in C PROVE T \in C
  <2>1. PICK y \in T : TRUE BY <1>3
  <2> DEFINE P == Fiber(S, p, y)
             Q == In(T \ {y})
  <2>2. G(T) = g[y] + G(T \ {y}) BY <1>1, AddsPart, SumTakesOut
  <2>3. In(T) = P \union Q /\ P \intersect Q = {} BY DEF Fiber
  <2>4. P \in SUBSET S /\ Q \in SUBSET S BY DEF Fiber
  <2>5. g[y] = F(P) OBVIOUS
  <2>6. G(T \ {y}) = F(Q) BY <1>3
  <2>7. F(P \union Q) = F(P) + F(Q)
    <3> HIDE DEF P, Q
    <3>1. Adds(f, P) /\ Adds(f, Q) BY <2>4, AddsPart
    <3> QED BY <2>3, <3>1, SumUnion
  <2>8. G(T) = F(In(T))
    <3> HIDE DEF F, G, P, Q, In
    <3> QED BY <2>2, <2>3, <2>5, <2>6, <2>7
  <2> QED BY <2>8
<1> HIDE DEF C
<1>4. SUBSET K \subseteq C BY <1>2, <1>3, FiniteDescent
<1>5. In(K) = S OBVIOUS
<1> QED BY <1>1, <1>4, <1>5 DEF C

LEMMA SumOnes ==
  ASSUME NEW f, NEW S, IsFiniteSet(S), \A x \in S : f[x] = 1
  PROVE  SumFunctionOnSet(f, S) = Cardinality(S)
<1> DEFINE F(T) == SumFunctionOnSet(f, T)
           C == {T \in SUBSET S : F(T) = Cardinality(T)}
<1>0. Adds(f, S) BY DEF Adds
<1>1. {} \in C BY SumEmpty, FS_EmptySet
<1>2. ASSUME NEW T \in SUBSET S, T # {}, \A y \in T : T \ {y} \in C PROVE T \in C
  <2>1. PICK y \in T : TRUE BY <1>2
  <2>2. F(T) = f[y] + F(T \ {y}) BY <1>0, AddsPart, SumTakesOut
  <2>3. F(T \ {y}) = Cardinality(T \ {y}) /\ f[y] = 1 BY <1>2
  <2>4. IsFiniteSet(T) /\ Cardinality(T) \in Nat BY FS_Subset, FS_CardinalityType
  <2>5. Cardinality(T \ {y}) = Cardinality(T) - 1 BY <2>4, FS_RemoveElement
  <2>6. F(T) = Cardinality(T)
    <3> HIDE DEF F
    <3> QED BY <2>2, <2>3, <2>4, <2>5
  <2> QED BY <2>6
<1> HIDE DEF C
<1>3. SUBSET S \subseteq C BY <1>1, <1>2, FiniteDescent
<1> QED BY <1>3 DEF C

LEMMA CountFibers ==
  ASSUME NEW S, IsFiniteSet(S), NEW K, IsFiniteSet(K), NEW p, \A x \in S : p[x] \in K,
         NEW g, \A k \in K : g[k] = Cardinality(Fiber(S, p, k))
  PROVE  Adds(g, K) /\ SumFunctionOnSet(g, K) = Cardinality(S)
<1> DEFINE f == [x \in S |-> 1]
<1>1. Adds(f, S) BY DEF Adds
<1>2. \A x \in S : f[x] = 1 OBVIOUS
<1> HIDE DEF f
<1>3. \A k \in K : g[k] = SumFunctionOnSet(f, Fiber(S, p, k))
  <2> TAKE k \in K
  <2> DEFINE P == Fiber(S, p, k)
  <2>1. IsFiniteSet(P) /\ \A x \in P : f[x] = 1 BY <1>2, FS_Subset DEF Fiber
  <2>2. SumFunctionOnSet(f, P) = Cardinality(P)
    <3> HIDE DEF P
    <3> QED BY <2>1, SumOnes
  <2> QED BY <2>2
<1>4. SumFunctionOnSet(f, S) = Cardinality(S) BY <1>2, SumOnes
<1> QED BY <1>1, <1>3, <1>4, SumFibers

(* The cells of a table with a row for each of A and a column for each of  *)
(* B: summing row by row, or column by column, is summing.                 *)
Grid(A, B) == A \X B
Row(a, B) == {a} \X B
Column(A, b) == A \X {b}

LEMMA SumByRows ==
  ASSUME NEW A, NEW B, IsFiniteSet(A), NEW f, Adds(f, Grid(A, B)),
         NEW g, \A a \in A : g[a] = SumFunctionOnSet(f, Row(a, B))
  PROVE  Adds(g, A) /\ SumFunctionOnSet(g, A) = SumFunctionOnSet(f, Grid(A, B))
<1> DEFINE S == Grid(A, B)
           p == [c \in S |-> c[1]]
<1>1. \A c \in S : p[c] \in A BY DEF Grid
<1>2. \A a \in A : Fiber(S, p, a) = Row(a, B) BY DEF Fiber, Grid, Row
<1> HIDE DEF p, S
<1>3. \A a \in A : g[a] = SumFunctionOnSet(f, Fiber(S, p, a)) BY <1>2
<1>4. Adds(f, S) BY DEF S
<1>5. Adds(g, A) /\ SumFunctionOnSet(g, A) = SumFunctionOnSet(f, S)
  BY <1>1, <1>3, <1>4, SumFibers
<1> QED BY <1>5 DEF S

LEMMA SumByColumns ==
  ASSUME NEW A, NEW B, IsFiniteSet(B), NEW f, Adds(f, Grid(A, B)),
         NEW g, \A b \in B : g[b] = SumFunctionOnSet(f, Column(A, b))
  PROVE  Adds(g, B) /\ SumFunctionOnSet(g, B) = SumFunctionOnSet(f, Grid(A, B))
<1> DEFINE S == Grid(A, B)
           p == [c \in S |-> c[2]]
<1>1. \A c \in S : p[c] \in B BY DEF Grid
<1>2. \A b \in B : Fiber(S, p, b) = Column(A, b) BY DEF Fiber, Grid, Column
<1> HIDE DEF p, S
<1>3. \A b \in B : g[b] = SumFunctionOnSet(f, Fiber(S, p, b)) BY <1>2
<1>4. Adds(f, S) BY DEF S
<1>5. Adds(g, B) /\ SumFunctionOnSet(g, B) = SumFunctionOnSet(f, S)
  BY <1>1, <1>3, <1>4, SumFibers
<1> QED BY <1>5 DEF S

LEMMA SumRow ==
  ASSUME NEW a, NEW B, NEW f, NEW g, Adds(g, B), \A b \in B : f[<<a, b>>] = g[b]
  PROVE  SumFunctionOnSet(f, Row(a, B)) = SumFunctionOnSet(g, B)
<1> DEFINE R == Row(a, B)
           m == [c \in R |-> c[2]]
<1>1. m \in Bijection(R, B)
  <2>1. m \in [R -> B] BY DEF Row
  <2>2. \A c, d \in R : m[c] = m[d] => c = d BY DEF Row
  <2>3. \A b \in B : \E c \in R : m[c] = b
    <3> TAKE b \in B
    <3>1. <<a, b>> \in R /\ m[<<a, b>>] = b BY DEF Row
    <3> QED BY <3>1
  <2> HIDE DEF m, R
  <2> QED BY <2>1, <2>2, <2>3 DEF Bijection, Injection, Surjection, IsInjective
<1>2. \A c \in R : f[c] = g[m[c]] BY DEF Row
<1> HIDE DEF m, R
<1>3. SumFunctionOnSet(f, R) = SumFunctionOnSet(g, B) BY <1>1, <1>2, SumRenamed
<1> QED BY <1>3 DEF R

LEMMA SumColumn ==
  ASSUME NEW A, NEW b, NEW f, NEW g, Adds(g, A), \A a \in A : f[<<a, b>>] = g[a]
  PROVE  SumFunctionOnSet(f, Column(A, b)) = SumFunctionOnSet(g, A)
<1> DEFINE R == Column(A, b)
           m == [c \in R |-> c[1]]
<1>1. m \in Bijection(R, A)
  <2>1. m \in [R -> A] BY DEF Column
  <2>2. \A c, d \in R : m[c] = m[d] => c = d BY DEF Column
  <2>3. \A a \in A : \E c \in R : m[c] = a
    <3> TAKE a \in A
    <3>1. <<a, b>> \in R /\ m[<<a, b>>] = a BY DEF Column
    <3> QED BY <3>1
  <2> HIDE DEF m, R
  <2> QED BY <2>1, <2>2, <2>3 DEF Bijection, Injection, Surjection, IsInjective
<1>2. \A c \in R : f[c] = g[m[c]] BY DEF Column
<1> HIDE DEF m, R
<1>3. SumFunctionOnSet(f, R) = SumFunctionOnSet(g, A) BY <1>1, <1>2, SumRenamed
<1> QED BY <1>3 DEF R

(* r[a][b], which is q[b][a], is what a and b give together: g sums it over *)
(* B for each a, h over A for each b, and the two have the same sum.        *)
BothWays(A, B, r, q, g, h) ==
  /\ IsFiniteSet(A) /\ IsFiniteSet(B)
  /\ \A a \in A, b \in B : r[a][b] \in Nat /\ q[b][a] = r[a][b]
  /\ \A a \in A : g[a] = SumFunctionOnSet(r[a], B)
  /\ \A b \in B : h[b] = SumFunctionOnSet(q[b], A)

LEMMA SumExchange ==
  ASSUME NEW A, NEW B, NEW r, NEW q, NEW g, NEW h, BothWays(A, B, r, q, g, h)
  PROVE  SumFunctionOnSet(g, A) = SumFunctionOnSet(h, B)
<1>0. /\ IsFiniteSet(A) /\ IsFiniteSet(B)
      /\ \A a \in A, b \in B : r[a][b] \in Nat /\ q[b][a] = r[a][b]
      /\ \A a \in A : g[a] = SumFunctionOnSet(r[a], B)
      /\ \A b \in B : h[b] = SumFunctionOnSet(q[b], A)
  BY DEF BothWays
<1> DEFINE f == [c \in A \X B |-> r[c[1]][c[2]]]
<1>1. \A a \in A, b \in B : f[<<a, b>>] = r[a][b] OBVIOUS
<1>2. IsFiniteSet(A \X B) BY <1>0, FS_Product
<1>3. Adds(f, Grid(A, B)) BY <1>0, <1>2 DEF Adds, Grid
<1> HIDE DEF f
<1>4. ASSUME NEW a \in A PROVE g[a] = SumFunctionOnSet(f, Row(a, B))
  <2>1. Adds(r[a], B) BY <1>0 DEF Adds
  <2>2. \A b \in B : f[<<a, b>>] = r[a][b] BY <1>1
  <2>3. SumFunctionOnSet(f, Row(a, B)) = SumFunctionOnSet(r[a], B) BY <2>1, <2>2, SumRow
  <2> QED BY <1>0, <2>3
<1>5. ASSUME NEW b \in B PROVE h[b] = SumFunctionOnSet(f, Column(A, b))
  <2>1. Adds(q[b], A) BY <1>0 DEF Adds
  <2>2. \A a \in A : f[<<a, b>>] = q[b][a] BY <1>0, <1>1
  <2>3. SumFunctionOnSet(f, Column(A, b)) = SumFunctionOnSet(q[b], A) BY <2>1, <2>2, SumColumn
  <2> QED BY <1>0, <2>3
<1>6. SumFunctionOnSet(g, A) = SumFunctionOnSet(f, Grid(A, B)) BY <1>0, <1>3, <1>4, SumByRows
<1>7. SumFunctionOnSet(h, B) = SumFunctionOnSet(f, Grid(A, B)) BY <1>0, <1>3, <1>5, SumByColumns
<1> QED BY <1>6, <1>7

LEMMA SumBelow ==
  ASSUME NEW f, NEW g, NEW S, Adds(f, S), Adds(g, S), \A x \in S : f[x] <= g[x]
  PROVE  SumFunctionOnSet(f, S) <= SumFunctionOnSet(g, S)
<1> DEFINE F(T) == SumFunctionOnSet(f, T)
           G(T) == SumFunctionOnSet(g, T)
           C == {T \in SUBSET S : F(T) <= G(T)}
<1>1. {} \in C BY SumEmpty
<1>2. ASSUME NEW T \in SUBSET S, T # {}, \A y \in T : T \ {y} \in C PROVE T \in C
  <2>1. PICK y \in T : TRUE BY <1>2
  <2>2. F(T) = f[y] + F(T \ {y}) BY AddsPart, SumTakesOut
  <2>3. G(T) = g[y] + G(T \ {y}) BY AddsPart, SumTakesOut
  <2>4. F(T \ {y}) <= G(T \ {y}) BY <1>2
  <2>5. /\ F(T \ {y}) \in Nat /\ G(T \ {y}) \in Nat /\ f[y] \in Nat /\ g[y] \in Nat
        /\ f[y] <= g[y]
    <3>1. Adds(f, T \ {y}) /\ Adds(g, T \ {y}) BY AddsPart
    <3> QED BY <3>1, SumType DEF Adds
  <2>6. F(T) <= G(T)
    <3> HIDE DEF F, G
    <3> QED BY <2>2, <2>3, <2>4, <2>5
  <2> QED BY <2>6
<1> HIDE DEF C
<1>3. SUBSET S \subseteq C BY <1>1, <1>2, FiniteDescent DEF Adds
<1> QED BY <1>3 DEF C

LEMMA SumOne ==
  ASSUME NEW f, NEW x, f[x] \in Nat
  PROVE  Adds(f, {x}) /\ SumFunctionOnSet(f, {x}) = f[x]
<1>1. Adds(f, {x}) BY FS_Singleton DEF Adds
<1>2. SumFunctionOnSet(f, {x}) = f[x] + SumFunctionOnSet(f, {x} \ {x}) BY <1>1, SumTakesOut
<1>3. {x} \ {x} = {} OBVIOUS
<1>4. SumFunctionOnSet(f, {}) = 0 BY SumEmpty
<1> QED BY <1>1, <1>2, <1>3, <1>4

(* Days without a summand do not matter. *)
LEMMA SumWorking ==
  ASSUME NEW f, NEW D, Adds(f, D), NEW W \in SUBSET D, \A d \in D \ W : f[d] = 0
  PROVE  SumFunctionOnSet(f, W) = SumFunctionOnSet(f, D)
<1> DEFINE V == D \ W
<1>1. Adds(f, W) /\ Adds(f, V) /\ W \intersect V = {} /\ W \union V = D BY AddsPart
<1>2. \A d \in V : f[d] = 0 OBVIOUS
<1> HIDE DEF V
<1>3. SumFunctionOnSet(f, V) = 0 BY <1>1, <1>2, SumZeros DEF Adds
<1>4. SumFunctionOnSet(f, W \union V) = SumFunctionOnSet(f, W) + SumFunctionOnSet(f, V)
  BY <1>1, SumUnion
<1>5. SumFunctionOnSet(f, W) \in Nat BY <1>1, SumType
<1> QED BY <1>1, <1>3, <1>4, <1>5

(* A sum over the domain of a function, as the modules write it. *)
LEMMA SumListed ==
  ASSUME NEW g, NEW S, DOMAIN g = S, NEW f, Adds(f, S), \A x \in S : g[x] = f[x]
  PROVE  SumFunction(g) = SumFunctionOnSet(f, S)
<1>1. SumFunctionOnSet(f, S) = SumFunctionOnSet(g, S) BY SumSame
<1> QED BY <1>1, Zenon DEF SumFunction
===============================================================================
