----------------------------- MODULE SequenceFacts -----------------------------
(***************************************************************************)
(* Induction over numbers and sequences, and what FlattenSeq returns: the  *)
(* facts on data that the proofs about the adapters rest on.  The theorems *)
(* of the library take an operator; here a set of numbers, or of sequences,*)
(* stands for it.                                                          *)
(***************************************************************************)
EXTENDS SequencesExt, SequenceTheorems, WellFoundedInduction, TLAPS

LEMMA LessThanWellFounded == IsWellFoundedOn({ss \in Nat \X Nat : ss[1] < ss[2]}, Nat)
<1>1. IsWellFoundedOn(OpToRel(<, Nat), Nat)
  BY NatLessThanWellFounded
<1> QED  BY <1>1, Zenon DEF OpToRel

LEMMA LeastElement ==
    ASSUME NEW T, T \subseteq Nat, T # {}
    PROVE  \E x \in T : \A y \in T : x <= y
<1>1. PICK x \in T : \A y \in T : ~(<<y, x>> \in {ss \in Nat \X Nat : ss[1] < ss[2]})
  BY LessThanWellFounded, WFMin
<1>2. ASSUME NEW y \in T PROVE x <= y
  <2>1. x \in Nat /\ y \in Nat
    OBVIOUS
  <2>2. ~(y < x)
    BY <1>1, <2>1
  <2> QED  BY <2>1, <2>2
<1> QED  BY <1>2

\* Induction over the numbers.
LEMMA SetInduction ==
    ASSUME NEW S, 0 \in S, \A n \in Nat : n \in S => n + 1 \in S
    PROVE  Nat \subseteq S
<1> SUFFICES ASSUME Nat \ S # {} PROVE FALSE
  OBVIOUS
<1>1. PICK x \in Nat \ S : \A y \in Nat \ S : x <= y
  BY LeastElement
<1> QED  BY <1>1

\* Induction over the sequences of a set.
LEMMA SeqInduction ==
    ASSUME NEW S, NEW Q, <<>> \in Q,
           \A s \in Seq(S), x \in S : s \in Q => Append(s, x) \in Q
    PROVE  Seq(S) \subseteq Q
<1> DEFINE N == {n \in Nat : \A s \in Seq(S) : Len(s) = n => s \in Q}
<1>1. 0 \in N
  <2>1. \A s \in Seq(S) : Len(s) = 0 => s = <<>>
    BY EmptySeq
  <2> QED  BY <2>1
<1>2. ASSUME NEW n \in Nat, n \in N
      PROVE  n + 1 \in N
  <2>1. ASSUME NEW s \in Seq(S), Len(s) = n + 1
        PROVE  s \in Q
    <3>1. s # <<>>
      BY <2>1, EmptySeq
    <3>2. PICK t \in Seq(S), x \in S : s = Append(t, x)
      BY <3>1, SequenceEmptyOrAppend
    <3>3. Len(t) = n
      <4>1. Len(t) \in Nat /\ Len(s) = Len(t) + 1
        BY <3>2, AppendProperties, LenProperties
      <4> QED  BY <2>1, <4>1
    <3>4. t \in Q
      BY <1>2, <3>3
    <3> QED  BY <3>2, <3>4
  <2> QED  BY <2>1
<1>3. Nat \subseteq N
  <2> HIDE DEF N
  <2> QED  BY <1>1, <1>2, SetInduction
<1>4. \A s \in Seq(S) : Len(s) \in N
  BY <1>3, LenProperties
<1> QED  BY <1>4

----------------------------------------------------------------------------
\* The function by which FlattenSeq is defined.
Flattens(f, s, n) == f = [i \in 1..n |-> IF i = 1 THEN s[i] ELSE f[i - 1] \o s[i]]

LEMMA FlattensExists ==
    ASSUME NEW s, NEW n \in Nat
    PROVE  \E f : Flattens(f, s, n)
<1> DEFINE S == {m \in Nat : \E f : Flattens(f, s, m)}
<1>1. 0 \in S
  <2>1. Flattens([i \in 1..0 |-> {}], s, 0)
    BY DEF Flattens
  <2> QED  BY <2>1
<1>2. ASSUME NEW m \in Nat, m \in S
      PROVE  m + 1 \in S
  <2>1. PICK f : f = [i \in 1..m |-> IF i = 1 THEN s[i] ELSE f[i - 1] \o s[i]]
    BY <1>2 DEF Flattens
  <2> DEFINE g == [i \in 1..m + 1 |-> IF i = 1 THEN s[i] ELSE f[i - 1] \o s[i]]
  <2>2. \A i \in 1..m + 1 : g[i] = IF i = 1 THEN s[i] ELSE f[i - 1] \o s[i]
    OBVIOUS
  <2>3. \A i \in 1..m : f[i] = IF i = 1 THEN s[i] ELSE f[i - 1] \o s[i]
    BY <2>1
  <2>4. \A i \in 1..m : g[i] = f[i]
    <3> HIDE DEF g
    <3> QED  BY <2>2, <2>3
  <2>5. \A i \in 1..m + 1 : i # 1 => i - 1 \in 1..m
    OBVIOUS
  <2>6. \A i \in 1..m + 1 : i # 1 => g[i - 1] = f[i - 1]
    <3> HIDE DEF g
    <3> QED  BY <2>4, <2>5
  <2>7. Flattens(g, s, m + 1)
    BY <2>6, ZenonT(60) DEF Flattens
  <2> QED  BY <2>7
<1>3. Nat \subseteq S
  <2> HIDE DEF S
  <2> QED  BY <1>1, <1>2, SetInduction
<1> QED  BY <1>3

LEMMA FlattenDef ==
    ASSUME NEW s, Len(s) \in Nat
    PROVE  \E f : Flattens(f, s, Len(s)) /\ FlattenSeq(s) = IF Len(s) = 0 THEN s ELSE f[Len(s)]
<1> DEFINE F == CHOOSE f : f = [i \in 1..Len(s) |-> IF i = 1 THEN s[i] ELSE f[i-1] \o s[i]]
<1>1. F = [i \in 1..Len(s) |-> IF i = 1 THEN s[i] ELSE F[i-1] \o s[i]]
  <2>1. \E f : f = [i \in 1..Len(s) |-> IF i = 1 THEN s[i] ELSE f[i-1] \o s[i]]
    BY FlattensExists DEF Flattens
  <2> QED  BY <2>1
<1>2. FlattenSeq(s) = IF Len(s) = 0 THEN s ELSE F[Len(s)]
  BY DEF FlattenSeq
<1> HIDE DEF F
<1>3. Flattens(F, s, Len(s))
  BY <1>1 DEF Flattens
<1> QED  BY <1>2, <1>3

AgreeUpTo(s, t, m) == \A i \in 1..m : s[i] = t[i]

LEMMA FlattensAgree ==
    ASSUME NEW s, NEW t, NEW m \in Nat, NEW n \in Nat, m <= n, AgreeUpTo(s, t, m),
           NEW f, NEW g, Flattens(f, s, m), Flattens(g, t, n)
    PROVE  AgreeUpTo(f, g, m)
<1> DEFINE N == {k \in Nat : k \in 1..m => f[k] = g[k]}
<1>1. \A i \in 1..m : f[i] = IF i = 1 THEN s[i] ELSE f[i - 1] \o s[i]
  BY DEF Flattens
<1>2. \A i \in 1..n : g[i] = IF i = 1 THEN t[i] ELSE g[i - 1] \o t[i]
  BY DEF Flattens
<1>3. 0 \in N
  OBVIOUS
<1>4. ASSUME NEW k \in Nat, k \in N
      PROVE  k + 1 \in N
  <2>1. CASE k = 0
    BY <1>1, <1>2, <2>1 DEF AgreeUpTo
  <2>2. CASE k # 0 /\ k + 1 \in 1..m
    <3>1. k \in 1..m /\ k + 1 \in 1..n /\ k + 1 # 1 /\ (k + 1) - 1 = k
      BY <2>2
    <3>2. f[k] = g[k] /\ s[k + 1] = t[k + 1]
      BY <1>4, <2>2, <3>1 DEF AgreeUpTo
    <3>3. f[k + 1] = f[k] \o s[k + 1]
      BY <1>1, <2>2, <3>1
    <3>4. g[k + 1] = g[k] \o t[k + 1]
      BY <1>2, <3>1
    <3>5. f[k + 1] = g[k + 1]
      BY <3>2, <3>3, <3>4
    <3>6. k + 1 \in Nat
      OBVIOUS
    <3> QED  BY <3>5, <3>6
  <2>3. CASE k + 1 \notin 1..m
    BY <2>3
  <2> QED  BY <2>1, <2>2, <2>3
<1>5. Nat \subseteq N
  <2> HIDE DEF N
  <2> QED  BY <1>3, <1>4, SetInduction
<1> QED  BY <1>5 DEF AgreeUpTo

LEMMA FlattenEmpty == FlattenSeq(<<>>) = <<>>
  BY DEF FlattenSeq

LEMMA FlattenOne ==
    ASSUME NEW x
    PROVE  FlattenSeq(<<x>>) = x
<1> DEFINE s == <<x>>
<1>1. Len(s) = 1 /\ s[1] = x
  OBVIOUS
<1> HIDE DEF s
<1>2. Len(s) \in Nat
  BY <1>1
<1>3. PICK f : Flattens(f, s, Len(s)) /\ FlattenSeq(s) = IF Len(s) = 0 THEN s ELSE f[Len(s)]
  BY <1>2, FlattenDef
<1>4. FlattenSeq(s) = f[1] /\ Flattens(f, s, 1)
  BY <1>1, <1>3
<1>5. f[1] = s[1]
  BY <1>4 DEF Flattens
<1> QED  BY <1>1, <1>4, <1>5 DEF s

LEMMA FlattenAppend ==
    ASSUME NEW S, NEW s \in Seq(Seq(S)), NEW x \in Seq(S), s # <<>>
    PROVE  FlattenSeq(Append(s, x)) = FlattenSeq(s) \o x
<1> DEFINE t == Append(s, x)
           n == Len(s)
<1>1. /\ n \in Nat /\ n # 0 /\ Len(t) = n + 1
      /\ \A i \in 1..n : s[i] = t[i]
      /\ t[n + 1] = x
  BY AppendProperties, EmptySeq, LenProperties
<1> HIDE DEF t, n
<1>2. PICK f : Flattens(f, s, n) /\ FlattenSeq(s) = f[n]
  BY <1>1, FlattenDef DEF n
<1>3. PICK g : Flattens(g, t, n + 1) /\ FlattenSeq(t) = g[n + 1]
  BY <1>1, FlattenDef
<1>4. n <= n + 1 /\ n + 1 \in Nat
  BY <1>1
<1>5. f[n] = g[n]
  <2>1. AgreeUpTo(s, t, n)
    BY <1>1 DEF AgreeUpTo
  <2>2. AgreeUpTo(f, g, n)
    BY <1>1, <1>2, <1>3, <1>4, <2>1, FlattensAgree
  <2> QED  BY <1>1, <2>2 DEF AgreeUpTo
<1>6. g[n + 1] = g[n] \o x
  <2>1. n + 1 \in 1..n + 1 /\ n + 1 # 1 /\ (n + 1) - 1 = n
    BY <1>1
  <2>2. g[n + 1] = IF n + 1 = 1 THEN t[n + 1] ELSE g[(n + 1) - 1] \o t[n + 1]
    BY <1>3, <2>1 DEF Flattens
  <2> QED  BY <1>1, <2>1, <2>2
<1> QED  BY <1>2, <1>3, <1>5, <1>6 DEF t

\* FlattenSeq concatenates; it takes a concatenation to one.
LEMMA FlattenTyped ==
    ASSUME NEW S, NEW s \in Seq(Seq(S))
    PROVE  FlattenSeq(s) \in Seq(S)
<1> DEFINE Q == {t \in Seq(Seq(S)) : FlattenSeq(t) \in Seq(S)}
<1>1. <<>> \in Q
  BY FlattenEmpty, EmptySeq
<1>2. ASSUME NEW t \in Seq(Seq(S)), NEW x \in Seq(S), t \in Q
      PROVE  Append(t, x) \in Q
  <2>1. Append(t, x) \in Seq(Seq(S))
    BY AppendProperties
  <2>2. CASE t = <<>>
    <3>1. Append(t, x) = <<x>>
      BY <2>2
    <3> QED  BY <2>1, <3>1, FlattenOne
  <2>3. CASE t # <<>>
    <3>1. FlattenSeq(t) \o x \in Seq(S)
      BY <1>2, ConcatProperties
    <3> QED  BY <2>1, <2>3, <3>1, FlattenAppend
  <2> QED  BY <2>2, <2>3
<1>3. Seq(Seq(S)) \subseteq Q
  <2> HIDE DEF Q
  <2> QED  BY <1>1, <1>2, SeqInduction
<1> QED  BY <1>3

LEMMA FlattenMore ==
    ASSUME NEW S, NEW s \in Seq(Seq(S)), NEW x \in Seq(S)
    PROVE  FlattenSeq(Append(s, x)) = FlattenSeq(s) \o x
<1>1. CASE s = <<>>
  <2>1. Append(s, x) = <<x>>
    BY <1>1
  <2>2. <<>> \o x = x
    BY ConcatEmptySeq
  <2> QED  BY <1>1, <2>1, <2>2, FlattenOne, FlattenEmpty
<1> QED  BY <1>1, FlattenAppend

\* Concatenations regroup; the equality has a name, so that a proof can say which it means.
Regroups(a, b, c) == a \o (b \o c) = (a \o b) \o c

LEMMA CatRegroups ==
    ASSUME NEW S, NEW a \in Seq(S), NEW b \in Seq(S), NEW c \in Seq(S)
    PROVE  Regroups(a, b, c)
  BY ConcatAssociative, SMTT(60) DEF Regroups

LEMMA FlattenCat ==
    ASSUME NEW S, NEW s \in Seq(Seq(S)), NEW t \in Seq(Seq(S))
    PROVE  FlattenSeq(s \o t) = FlattenSeq(s) \o FlattenSeq(t)
<1> DEFINE Q == {u \in Seq(Seq(S)) : FlattenSeq(s \o u) = FlattenSeq(s) \o FlattenSeq(u)}
<1>1. <<>> \in Q
  <2>1. <<>> \in Seq(Seq(S)) /\ s \o <<>> = s
    BY EmptySeq, ConcatEmptySeq
  <2>2. FlattenSeq(s) \o <<>> = FlattenSeq(s)
    BY FlattenTyped, ConcatEmptySeq
  <2> QED  BY <2>1, <2>2, FlattenEmpty
<1>2. ASSUME NEW u \in Seq(Seq(S)), NEW x \in Seq(S), u \in Q
      PROVE  Append(u, x) \in Q
  <2>1. Append(u, x) \in Seq(Seq(S)) /\ s \o u \in Seq(Seq(S))
    BY AppendProperties, ConcatProperties
  <2>2. s \o Append(u, x) = Append(s \o u, x)
    BY <2>1, SMTT(60)
  <2>3. FlattenSeq(s \o Append(u, x)) = FlattenSeq(s \o u) \o x
    BY <2>1, <2>2, FlattenMore
  <2>4. FlattenSeq(s \o u) = FlattenSeq(s) \o FlattenSeq(u)
    BY <1>2
  <2>5. (FlattenSeq(s) \o FlattenSeq(u)) \o x = FlattenSeq(s) \o (FlattenSeq(u) \o x)
    <3>1. FlattenSeq(s) \in Seq(S) /\ FlattenSeq(u) \in Seq(S)
      BY FlattenTyped
    <3>2. Regroups(FlattenSeq(s), FlattenSeq(u), x)
      BY <3>1, CatRegroups
    <3> QED  BY <3>2 DEF Regroups
  <2>6. FlattenSeq(Append(u, x)) = FlattenSeq(u) \o x
    BY FlattenMore
  <2> QED  BY <2>1, <2>3, <2>4, <2>5, <2>6
<1>3. Seq(Seq(S)) \subseteq Q
  <2> HIDE DEF Q
  <2> QED  BY <1>1, <1>2, SeqInduction
<1> QED  BY <1>3

----------------------------------------------------------------------------
\* Every element mapped, and every element replaced by a sequence.
MapsInto(F, A, C) == F \in [A -> C]

Mapped(F, s) == [i \in DOMAIN s |-> F[s[i]]]
FlatMap(F, s) == FlattenSeq(Mapped(F, s))

LEMMA MapTyped ==
    ASSUME NEW A, NEW C, NEW F, MapsInto(F, A, C), NEW s \in Seq(A)
    PROVE  /\ Mapped(F, s) \in Seq(C)
           /\ Len(Mapped(F, s)) = Len(s)
           /\ \A i \in 1..Len(s) : Mapped(F, s)[i] = F[s[i]]
<1>1. Len(s) \in Nat /\ DOMAIN s = 1..Len(s) /\ \A i \in 1..Len(s) : s[i] \in A
  BY LenProperties, ElementOfSeq
<1>2. Mapped(F, s) \in [1..Len(s) -> C]
  BY <1>1 DEF Mapped, MapsInto
<1>3. Mapped(F, s) \in Seq(C)
  BY <1>1, <1>2, SeqDef
<1>4. DOMAIN Mapped(F, s) = 1..Len(s)
  BY <1>2
<1>5. Len(Mapped(F, s)) = Len(s)
  BY <1>1, <1>3, <1>4, LenProperties
<1>6. \A i \in 1..Len(s) : Mapped(F, s)[i] = F[s[i]]
  BY <1>1 DEF Mapped
<1> QED  BY <1>3, <1>5, <1>6

LEMMA MapCat ==
    ASSUME NEW A, NEW C, NEW F, MapsInto(F, A, C), NEW s \in Seq(A), NEW t \in Seq(A)
    PROVE  Mapped(F, s \o t) = Mapped(F, s) \o Mapped(F, t)
<1> DEFINE l == Mapped(F, s \o t)
           f == Mapped(F, s)
           g == Mapped(F, t)
<1>1. /\ s \o t \in Seq(A) /\ Len(s \o t) = Len(s) + Len(t)
      /\ \A i \in 1..Len(s) + Len(t) :
            (s \o t)[i] = IF i <= Len(s) THEN s[i] ELSE t[i - Len(s)]
  BY ConcatProperties
<1>2. Len(s) \in Nat /\ Len(t) \in Nat
  BY LenProperties
<1>3. /\ l \in Seq(C) /\ Len(l) = Len(s) + Len(t)
      /\ \A i \in 1..Len(s) + Len(t) : l[i] = F[(s \o t)[i]]
  <2> DEFINE u == s \o t
  <2>1. u \in Seq(A) /\ Len(u) = Len(s) + Len(t)
    BY <1>1
  <2> HIDE DEF u
  <2>2. /\ Mapped(F, u) \in Seq(C) /\ Len(Mapped(F, u)) = Len(u)
        /\ \A i \in 1..Len(u) : Mapped(F, u)[i] = F[u[i]]
    BY <2>1, MapTyped
  <2> QED  BY <2>1, <2>2 DEF u
<1>4. /\ f \in Seq(C) /\ Len(f) = Len(s) /\ \A i \in 1..Len(s) : f[i] = F[s[i]]
      /\ g \in Seq(C) /\ Len(g) = Len(t) /\ \A i \in 1..Len(t) : g[i] = F[t[i]]
  BY MapTyped
<1> HIDE DEF l, f, g
<1>5. /\ f \o g \in Seq(C) /\ Len(f \o g) = Len(f) + Len(g)
      /\ \A i \in 1..Len(f) + Len(g) :
            (f \o g)[i] = IF i <= Len(f) THEN f[i] ELSE g[i - Len(f)]
  <2>1. f \in Seq(C) /\ g \in Seq(C)
    BY <1>4
  <2> QED  BY <2>1, ConcatProperties, ZenonT(60)
<1>6. ASSUME NEW i \in 1..Len(s) + Len(t)
      PROVE  l[i] = (f \o g)[i]
  <2>1. CASE i <= Len(s)
    <3>1. i \in 1..Len(s)
      BY <1>2, <2>1
    <3>2. l[i] = F[s[i]]
      BY <1>1, <1>3, <2>1
    <3>3. (f \o g)[i] = f[i]
      BY <1>4, <1>5, <2>1
    <3> QED  BY <1>4, <3>1, <3>2, <3>3
  <2>2. CASE ~(i <= Len(s))
    <3>1. i - Len(s) \in 1..Len(t)
      BY <1>2, <2>2
    <3>2. l[i] = F[t[i - Len(s)]]
      BY <1>1, <1>3, <2>2
    <3>3. (f \o g)[i] = g[i - Len(s)]
      BY <1>4, <1>5, <2>2
    <3> QED  BY <1>4, <3>1, <3>2, <3>3
  <2> QED  BY <2>1, <2>2
<1>7. Len(l) = Len(f \o g) /\ \A i \in 1..Len(l) : l[i] = (f \o g)[i]
  BY <1>3, <1>4, <1>5, <1>6
<1>8. l = f \o g
  BY <1>3, <1>5, <1>7, SeqEqual
<1> QED  BY <1>8 DEF l, f, g

LEMMA FlatMapTyped ==
    ASSUME NEW A, NEW B, NEW F, MapsInto(F, A, Seq(B)), NEW s \in Seq(A)
    PROVE  FlatMap(F, s) \in Seq(B)
<1>1. Mapped(F, s) \in Seq(Seq(B))
  BY MapTyped
<1> QED  BY <1>1, FlattenTyped DEF FlatMap

LEMMA FlatMapEmpty ==
    ASSUME NEW F
    PROVE  FlatMap(F, <<>>) = <<>>
<1>1. Mapped(F, <<>>) = <<>>
  BY DEF Mapped
<1> QED  BY <1>1, FlattenEmpty DEF FlatMap

LEMMA FlatMapOne ==
    ASSUME NEW F, NEW x
    PROVE  FlatMap(F, <<x>>) = F[x]
<1>1. Mapped(F, <<x>>) = <<F[x]>>
  BY DEF Mapped
<1> QED  BY <1>1, FlattenOne DEF FlatMap

LEMMA FlatMapCat ==
    ASSUME NEW A, NEW B, NEW F, MapsInto(F, A, Seq(B)), NEW s \in Seq(A), NEW t \in Seq(A)
    PROVE  FlatMap(F, s \o t) = FlatMap(F, s) \o FlatMap(F, t)
<1>1. Mapped(F, s) \in Seq(Seq(B)) /\ Mapped(F, t) \in Seq(Seq(B))
  BY MapTyped
<1>2. Mapped(F, s \o t) = Mapped(F, s) \o Mapped(F, t)
  BY MapCat
<1> QED  BY <1>1, <1>2, FlattenCat DEF FlatMap

LEMMA FlatMapMore ==
    ASSUME NEW A, NEW B, NEW F, MapsInto(F, A, Seq(B)), NEW s \in Seq(A), NEW x \in A
    PROVE  FlatMap(F, Append(s, x)) = FlatMap(F, s) \o F[x]
<1> DEFINE t == <<x>>
<1>1. t \in Seq(A) /\ Append(s, x) = s \o t
  BY AppendIsConcat
<1>2. FlatMap(F, t) = F[x]
  BY FlatMapOne
<1> HIDE DEF t
<1>3. FlatMap(F, s \o t) = FlatMap(F, s) \o FlatMap(F, t)
  BY <1>1, FlatMapCat
<1> QED  BY <1>1, <1>2, <1>3

LEMMA FlatMapHead ==
    ASSUME NEW A, NEW B, NEW F, MapsInto(F, A, Seq(B)), NEW s \in Seq(A), s # <<>>
    PROVE  FlatMap(F, s) = F[Head(s)] \o FlatMap(F, Tail(s))
<1>1. /\ Head(s) \in A /\ Tail(s) \in Seq(A) /\ <<Head(s)>> \in Seq(A)
      /\ s = <<Head(s)>> \o Tail(s)
  <2>1. Head(s) \in A /\ Tail(s) \in Seq(A) /\ Len(Tail(s)) = Len(s) - 1
        /\ \A i \in 1 .. Len(Tail(s)) : Tail(s)[i] = s[i+1]
    BY HeadTailProperties
  <2>2. <<Head(s)>> \in Seq(A)
    BY <2>1
  <2>3. s = <<Head(s)>> \o Tail(s)
    BY <2>1, <2>2
  <2> QED  BY <2>1, <2>2, <2>3
<1> DEFINE t == <<Head(s)>>
           u == Tail(s)
<1>2. t \in Seq(A) /\ u \in Seq(A) /\ s = t \o u
  BY <1>1
<1>3. FlatMap(F, t) = F[Head(s)]
  BY FlatMapOne
<1> HIDE DEF t, u
<1>4. FlatMap(F, t \o u) = FlatMap(F, t) \o FlatMap(F, u)
  BY <1>2, FlatMapCat
<1> QED  BY <1>2, <1>3, <1>4 DEF u

\* One map after another.
LEMMA FlatMapThen ==
    ASSUME NEW A, NEW B, NEW C, NEW F, MapsInto(F, A, Seq(B)), NEW G, MapsInto(G, B, Seq(C)), NEW s \in Seq(A)
    PROVE  FlatMap(G, FlatMap(F, s)) = FlatMap([x \in A |-> FlatMap(G, F[x])], s)
<1> DEFINE H == [x \in A |-> FlatMap(G, F[x])]
           Q == {t \in Seq(A) : FlatMap(G, FlatMap(F, t)) = FlatMap(H, t)}
<1>1. MapsInto(H, A, Seq(C))
  <2>1. \A x \in A : F[x] \in Seq(B)
    BY DEF MapsInto
  <2>2. \A x \in A : FlatMap(G, F[x]) \in Seq(C)
    BY <2>1, FlatMapTyped
  <2> QED  BY <2>2 DEF MapsInto
<1>2. <<>> \in Q
  BY FlatMapEmpty, EmptySeq
<1>3. ASSUME NEW t \in Seq(A), NEW x \in A, t \in Q
      PROVE  Append(t, x) \in Q
  <2>1. Append(t, x) \in Seq(A)
    BY AppendProperties
  <2>2. FlatMap(F, Append(t, x)) = FlatMap(F, t) \o F[x]
    BY FlatMapMore
  <2>3. FlatMap(F, t) \in Seq(B) /\ F[x] \in Seq(B)
    BY FlatMapTyped DEF MapsInto
  <2>4. FlatMap(G, FlatMap(F, t) \o F[x]) = FlatMap(G, FlatMap(F, t)) \o FlatMap(G, F[x])
    BY <2>3, FlatMapCat, SMTT(60)
  <2>5. H[x] = FlatMap(G, F[x])
    OBVIOUS
  <2>6. FlatMap(G, FlatMap(F, t)) = FlatMap(H, t)
    BY <1>3
  <2> HIDE DEF H
  <2>7. FlatMap(H, Append(t, x)) = FlatMap(H, t) \o H[x]
    BY <1>1, FlatMapMore
  <2> QED  BY <2>1, <2>2, <2>4, <2>5, <2>6, <2>7
<1>4. Seq(A) \subseteq Q
  <2> HIDE DEF Q
  <2> QED  BY <1>2, <1>3, SeqInduction
<1> QED  BY <1>4

\* A map that changes nothing, and one that leaves nothing.
LEMMA FlatMapSame ==
    ASSUME NEW A, NEW F, \A x \in A : F[x] = <<x>>, NEW s \in Seq(A)
    PROVE  FlatMap(F, s) = s
<1> DEFINE G == [x \in A |-> F[x]]
           Q == {t \in Seq(A) : FlatMap(G, t) = t}
<1>1. MapsInto(G, A, Seq(A))
  <2>1. \A x \in A : <<x>> \in Seq(A)
    OBVIOUS
  <2> QED  BY <2>1 DEF MapsInto
<1>2. <<>> \in Q
  BY FlatMapEmpty, EmptySeq
<1>3. ASSUME NEW t \in Seq(A), NEW x \in A, t \in Q
      PROVE  Append(t, x) \in Q
  <2>1. Append(t, x) \in Seq(A) /\ Append(t, x) = t \o <<x>>
    BY AppendProperties, AppendIsConcat
  <2>2. G[x] = <<x>> /\ FlatMap(G, t) = t
    BY <1>3
  <2> HIDE DEF G
  <2>3. FlatMap(G, Append(t, x)) = FlatMap(G, t) \o G[x]
    BY <1>1, FlatMapMore
  <2> QED  BY <2>1, <2>2, <2>3
<1>4. Seq(A) \subseteq Q
  <2> HIDE DEF Q
  <2> QED  BY <1>2, <1>3, SeqInduction
<1>5. Mapped(G, s) = Mapped(F, s)
  <2>1. \A i \in DOMAIN s : s[i] \in A
    BY LenProperties, ElementOfSeq
  <2> QED  BY <2>1 DEF Mapped
<1> QED  BY <1>4, <1>5 DEF FlatMap

LEMMA FlatMapNothing ==
    ASSUME NEW A, NEW F, \A x \in A : F[x] = <<>>, NEW s \in Seq(A)
    PROVE  FlatMap(F, s) = <<>>
<1> DEFINE G == [x \in A |-> F[x]]
           Q == {t \in Seq(A) : FlatMap(G, t) = <<>>}
<1>1. MapsInto(G, A, Seq({}))
  BY EmptySeq DEF MapsInto
<1>2. <<>> \in Q
  BY FlatMapEmpty, EmptySeq
<1>3. ASSUME NEW t \in Seq(A), NEW x \in A, t \in Q
      PROVE  Append(t, x) \in Q
  <2>1. Append(t, x) \in Seq(A)
    BY AppendProperties
  <2>2. G[x] = <<>> /\ FlatMap(G, t) = <<>>
    BY <1>3
  <2>3. <<>> \o <<>> = <<>>
    OBVIOUS
  <2> HIDE DEF G
  <2>4. FlatMap(G, Append(t, x)) = FlatMap(G, t) \o G[x]
    BY <1>1, FlatMapMore
  <2> QED  BY <2>1, <2>2, <2>3, <2>4
<1>4. Seq(A) \subseteq Q
  <2> HIDE DEF Q
  <2> QED  BY <1>2, <1>3, SeqInduction
<1>5. Mapped(G, s) = Mapped(F, s)
  <2>1. \A i \in DOMAIN s : s[i] \in A
    BY LenProperties, ElementOfSeq
  <2> QED  BY <2>1 DEF Mapped
<1> QED  BY <1>4, <1>5 DEF FlatMap

\* What an element is replaced by is in the result.
LEMMA FlatMapHas ==
    ASSUME NEW A, NEW B, NEW F, MapsInto(F, A, Seq(B)), NEW s \in Seq(A),
           NEW i \in 1..Len(s), NEW y \in B, F[s[i]] = <<y>>
    PROVE  \E j \in 1..Len(FlatMap(F, s)) : FlatMap(F, s)[j] = y
<1> DEFINE Q == {t \in Seq(A) : \A n \in 1..Len(t) : F[t[n]] = <<y>> =>
                                   \E j \in 1..Len(FlatMap(F, t)) : FlatMap(F, t)[j] = y}
<1>1. <<>> \in Q
  BY EmptySeq
<1>2. ASSUME NEW t \in Seq(A), NEW x \in A, t \in Q
      PROVE  Append(t, x) \in Q
  <2> DEFINE u == Append(t, x)
             f == FlatMap(F, t)
  <2>1. /\ u \in Seq(A) /\ Len(u) = Len(t) + 1 /\ Len(t) \in Nat
        /\ \A n \in 1..Len(t) : u[n] = t[n]
        /\ u[Len(t) + 1] = x
    BY AppendProperties, LenProperties
  <2>2. FlatMap(F, u) = f \o F[x]
    BY FlatMapMore
  <2>3. f \in Seq(B) /\ F[x] \in Seq(B)
    BY FlatMapTyped DEF MapsInto
  <2> HIDE DEF f, u
  <2>4. ASSUME NEW n \in 1..Len(u), F[u[n]] = <<y>>
        PROVE  \E j \in 1..Len(FlatMap(F, u)) : FlatMap(F, u)[j] = y
    <3>1. /\ Len(f \o F[x]) = Len(f) + Len(F[x]) /\ Len(f) \in Nat
          /\ \A j \in 1..Len(f) + Len(F[x]) :
                (f \o F[x])[j] = IF j <= Len(f) THEN f[j] ELSE F[x][j - Len(f)]
      BY <2>3, ConcatProperties, LenProperties
    <3>2. CASE n <= Len(t)
      <4>1. PICK j \in 1..Len(f) : f[j] = y
        BY <1>2, <2>1, <2>4, <3>2 DEF f
      <4>2. j \in 1..Len(f \o F[x]) /\ (f \o F[x])[j] = y
        BY <2>3, <3>1, <4>1, LenProperties
      <4> QED  BY <2>2, <4>2
    <3>3. CASE n = Len(t) + 1
      <4>0. F[x] = <<y>>
        BY <2>1, <2>4, <3>3
      <4>1. Len(F[x]) = 1 /\ F[x][1] = y
        BY <4>0
      <4>2. Len(f) + 1 \in 1..Len(f \o F[x]) /\ (f \o F[x])[Len(f) + 1] = y
        BY <3>1, <4>1
      <4> QED  BY <2>2, <4>2
    <3> QED  BY <2>1, <3>2, <3>3
  <2> QED  BY <2>1, <2>4 DEF u
<1>3. Seq(A) \subseteq Q
  <2> HIDE DEF Q
  <2> QED  BY <1>1, <1>2, SeqInduction
<1> QED  BY <1>3
================================================================================
