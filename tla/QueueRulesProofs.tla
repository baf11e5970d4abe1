-------------------------- MODULE QueueRulesProofs --------------------------
(***************************************************************************)
(* Facts about the lists of QueueRules, for lists of any length: what is   *)
(* kept, in which order, where an element stands, and where the nearest    *)
(* allowed slot is.  Proofs by induction go through a least counterexample,*)
(* so that they need no fact with an operator as a parameter.              *)
(***************************************************************************)
EXTENDS QueueRules, SequenceTheorems, WellFoundedInduction, TLAPS

\* Every set of natural numbers that is not empty has a least element.
LEMMA Smallest ==
    ASSUME NEW S \in SUBSET Nat, S # {}
    PROVE  \E n \in S : \A m \in S : n <= m
<1>1. PICK n \in S : \A m \in S : ~ (<<m, n>> \in OpToRel(<, Nat))
  BY NatLessThanWellFounded, WFMin
<1>2. \A m \in S : ~ (m < n)
  BY <1>1 DEF OpToRel
<1> QED  BY <1>2

\* Induction: what holds of the empty sequence and survives an append holds of
\* every sequence.
LEMMA SeqInduct ==
    ASSUME NEW T, NEW G, <<>> \in G,
           \A s \in Seq(T), x \in T : s \in G => Append(s, x) \in G
    PROVE  Seq(T) \subseteq G
<1> DEFINE Bad == {n \in Nat : \E s \in Seq(T) : Len(s) = n /\ s \notin G}
<1>1. SUFFICES ASSUME NEW s \in Seq(T), s \notin G PROVE FALSE
  OBVIOUS
<1>2. Len(s) \in Bad
  BY <1>1
<1>3. Bad \in SUBSET Nat /\ Bad # {}
  BY <1>2
<1>4. PICK n \in Bad : \A m \in Bad : n <= m
  <2> HIDE DEF Bad
  <2> QED  BY <1>3, Smallest
<1>5. PICK b \in Seq(T) : Len(b) = n /\ b \notin G
  BY <1>4
<1>6. PICK t \in Seq(T), x \in T : b = Append(t, x)
  BY <1>5, SequenceEmptyOrAppend
<1>7. t \in G
  <2>1. Len(t) \in Nat /\ ~ (n <= Len(t))
    BY <1>5, <1>6, AppendProperties
  <2> QED  BY <1>4, <2>1
<1> QED  BY <1>5, <1>6, <1>7

-----------------------------------------------------------------------------
(***************************************************************************)
(* Keep: the recursion has a solution, and an append adds one round to it. *)
(***************************************************************************)

\* The rounds of Keep over the first n elements.
Rounds(s, S, n, f) ==
    f = [i \in 0 .. n |-> IF i = 0 THEN <<>>
                          ELSE IF s[i] \in S THEN Append(f[i - 1], s[i]) ELSE f[i - 1]]

\* There are such rounds, for every n.
LEMMA RoundsExist ==
    ASSUME NEW s, NEW S
    PROVE  \A n \in Nat : \E f : Rounds(s, S, n, f)
<1> DEFINE Bad == {n \in Nat : ~ \E f : Rounds(s, S, n, f)}
<1>1. SUFFICES ASSUME Bad # {} PROVE FALSE
  OBVIOUS
<1>2. PICK n \in Bad : \A m \in Bad : n <= m
  <2>1. Bad \in SUBSET Nat
    OBVIOUS
  <2> HIDE DEF Bad
  <2> QED  BY <1>1, <2>1, Smallest
<1>3. CASE n = 0
  <2>1. Rounds(s, S, 0, [i \in 0 .. 0 |-> <<>>])
    BY DEF Rounds
  <2> QED  BY <1>2, <1>3, <2>1
<1>4. CASE n # 0
  <2>1. n - 1 \in Nat /\ n - 1 \notin Bad
    BY <1>2, <1>4
  <2>2. PICK f : Rounds(s, S, n - 1, f)
    BY <2>1
  <2> DEFINE last == IF s[n] \in S THEN Append(f[n - 1], s[n]) ELSE f[n - 1]
             g == [i \in 0 .. n |-> IF i = n THEN last ELSE f[i]]
  <2>3. DOMAIN f = 0 .. n - 1 /\ \A i \in 0 .. n - 1 :
            f[i] = IF i = 0 THEN <<>> ELSE IF s[i] \in S THEN Append(f[i - 1], s[i]) ELSE f[i - 1]
    BY <2>1, <2>2 DEF Rounds
  <2>4. g[n] = last /\ \A i \in 0 .. n - 1 : g[i] = f[i]
    BY <1>4, <2>1
  <2>5. \A i \in 0 .. n : g[i] =
            IF i = 0 THEN <<>> ELSE IF s[i] \in S THEN Append(g[i - 1], s[i]) ELSE g[i - 1]
    <3> HIDE DEF g
    <3>1. ASSUME NEW i \in 0 .. n PROVE i = n \/ (i \in 0 .. n - 1 /\ i # n)
      BY <2>1
    <3>2. ASSUME NEW i \in 0 .. n, i # 0 PROVE i - 1 \in 0 .. n - 1
      BY <2>1, <3>2
    <3> QED  BY <1>4, <2>1, <2>3, <2>4, <3>1, <3>2
  <2>6. Rounds(s, S, n, g)
    <3> DEFINE h == [i \in 0 .. n |-> IF i = 0 THEN <<>> ELSE IF s[i] \in S THEN Append(g[i - 1], s[i]) ELSE g[i - 1]]
    <3>1. g = [i \in 0 .. n |-> g[i]]
      OBVIOUS
    <3>2. \A i \in 0 .. n : h[i] = g[i]
      <4> HIDE DEF g
      <4> QED  BY <2>5
    <3>3. h = [i \in 0 .. n |-> h[i]]
      OBVIOUS
    <3>4. g = h
      <4> HIDE DEF g, h
      <4> QED  BY <3>1, <3>2, <3>3
    <3> QED  BY <3>4 DEF Rounds
  <2> QED  BY <1>2, <2>6
<1> QED  BY <1>3, <1>4

\* Keep is the last of them.
LEMMA KeepRounds ==
    ASSUME NEW T, NEW s \in Seq(T), NEW S
    PROVE  \E f : Rounds(s, S, Len(s), f) /\ Keep(s, S) = f[Len(s)]
<1> DEFINE f == CHOOSE f : Rounds(s, S, Len(s), f)
<1>1. Len(s) \in Nat
  OBVIOUS
<1>2. Rounds(s, S, Len(s), f)
  BY <1>1, RoundsExist
<1>3. Keep(s, S) = f[Len(s)]
  BY DEF Keep, Rounds
<1> QED  BY <1>2, <1>3

\* Nothing is kept of an empty sequence.
LEMMA KeepEmpty == \A S : Keep(<<>>, S) = <<>>
<1> SUFFICES ASSUME NEW S PROVE Keep(<<>>, S) = <<>>
  OBVIOUS
<1>1. <<>> \in Seq({}) /\ Len(<<>>) = 0
  OBVIOUS
<1>2. PICK f : Rounds(<<>>, S, 0, f) /\ Keep(<<>>, S) = f[0]
  BY <1>1, KeepRounds
<1> QED  BY <1>2 DEF Rounds

\* One more element is kept, or not.
LEMMA KeepAppend ==
    ASSUME NEW T, NEW s \in Seq(T), NEW x \in T, NEW S
    PROVE  Keep(Append(s, x), S) = IF x \in S THEN Append(Keep(s, S), x) ELSE Keep(s, S)
<1>1. PICK n, a : n = Len(s) /\ a = Append(s, x)
  OBVIOUS
<1>2. n \in Nat /\ a \in Seq(T) /\ Len(a) = n + 1 /\ a[n + 1] = x /\ \A i \in 1 .. n : a[i] = s[i]
  BY <1>1, AppendProperties, LenProperties
<1>3. PICK f : Rounds(s, S, n, f) /\ Keep(s, S) = f[n]
  BY <1>1, KeepRounds
<1>4. PICK g : Rounds(a, S, n + 1, g) /\ Keep(a, S) = g[n + 1]
  BY <1>2, KeepRounds
<1>5. \A i \in 0 .. n : f[i] = IF i = 0 THEN <<>> ELSE IF s[i] \in S THEN Append(f[i - 1], s[i]) ELSE f[i - 1]
  BY <1>2, <1>3 DEF Rounds
<1>6. \A i \in 0 .. n + 1 : g[i] = IF i = 0 THEN <<>> ELSE IF a[i] \in S THEN Append(g[i - 1], a[i]) ELSE g[i - 1]
  BY <1>2, <1>4 DEF Rounds
<1>7. \A i \in 0 .. n : g[i] = f[i]
  <2> DEFINE Bad == {i \in 0 .. n : g[i] # f[i]}
  <2>1. SUFFICES ASSUME Bad # {} PROVE FALSE
    OBVIOUS
  <2>2. PICK i \in Bad : \A m \in Bad : i <= m
    <3>1. Bad \in SUBSET Nat
      BY <1>2
    <3> HIDE DEF Bad
    <3> QED  BY <2>1, <3>1, Smallest
  <2>3. i \in 0 .. n /\ i # 0
    BY <1>2, <1>5, <1>6, <2>2
  <2>4. i - 1 \in 0 .. n /\ g[i - 1] = f[i - 1]
    BY <1>2, <2>2, <2>3
  <2>5. i \in 1 .. n /\ i \in 0 .. n + 1 /\ a[i] = s[i]
    BY <1>2, <2>3
  <2> QED  BY <1>5, <1>6, <2>2, <2>3, <2>4, <2>5
<1>8. n \in 0 .. n /\ n + 1 \in 0 .. n + 1 /\ n + 1 # 0 /\ n + 1 - 1 = n
  BY <1>2
<1>9. Keep(a, S) = IF x \in S THEN Append(g[n], x) ELSE g[n]
  BY <1>2, <1>4, <1>6, <1>8
<1> QED  BY <1>1, <1>3, <1>7, <1>8, <1>9

-----------------------------------------------------------------------------
(***************************************************************************)
(* The elements of a sequence.                                             *)
(***************************************************************************)

\* Of no, one more, and two sequences' elements.
LEMMA ElementsEmpty == ToSet(<<>>) = {} /\ \A S : <<>> \in Seq(S)
BY DEF ToSet

\* The elements of a list with one appended.
LEMMA ElementsAppend ==
    ASSUME NEW T, NEW s \in Seq(T), NEW x \in T
    PROVE  ToSet(Append(s, x)) = ToSet(s) \cup {x}
<1>1. PICK a, n : a = Append(s, x) /\ n = Len(s)
  OBVIOUS
<1>2. /\ n \in Nat /\ DOMAIN s = 1 .. n /\ DOMAIN a = 1 .. n + 1
      /\ a[n + 1] = x /\ \A i \in 1 .. n : a[i] = s[i]
  BY <1>1, AppendProperties, LenProperties
<1>3. ToSet(a) \subseteq ToSet(s) \cup {x}
  <2>1. ASSUME NEW i \in 1 .. n + 1 PROVE a[i] \in ToSet(s) \cup {x}
    <3>1. i \in 1 .. n \/ i = n + 1
      BY <1>2
    <3> QED  BY <1>2, <3>1 DEF ToSet
  <2> DEFINE R == ToSet(s) \cup {x}
  <2>2. \A i \in 1 .. n + 1 : a[i] \in R
    BY <2>1
  <2> HIDE DEF R
  <2>3. ToSet(a) \subseteq R
    BY <1>2, <2>2 DEF ToSet
  <2> QED  BY <2>3 DEF R
<1>4. ToSet(s) \cup {x} \subseteq ToSet(a)
  <2>1. n + 1 \in 1 .. n + 1 /\ \A i \in 1 .. n : i \in 1 .. n + 1
    BY <1>2
  <2> DEFINE R == ToSet(a)
  <2>2. x \in R /\ \A i \in 1 .. n : s[i] \in R
    BY <1>2, <2>1 DEF ToSet
  <2> HIDE DEF R
  <2>3. ToSet(s) \cup {x} \subseteq R
    BY <1>2, <2>2 DEF ToSet
  <2> QED  BY <2>3 DEF R
<1> QED  BY <1>1, <1>3, <1>4

\* The elements of a list are of its type, and Contains finds each of them.
LEMMA ElementsType ==
    ASSUME NEW T, NEW s \in Seq(T)
    PROVE  ToSet(s) \subseteq T /\ \A x : Contains(s, x) <=> x \in ToSet(s)
<1>1. DOMAIN s = 1 .. Len(s) /\ \A i \in 1 .. Len(s) : s[i] \in T
  BY LenProperties, ElementOfSeq
<1> QED  BY <1>1 DEF ToSet, Contains

\* The elements of two lists joined.
LEMMA ElementsConcat ==
    ASSUME NEW T, NEW s \in Seq(T), NEW t \in Seq(T)
    PROVE  s \o t \in Seq(T) /\ ToSet(s \o t) = ToSet(s) \cup ToSet(t)
<1>1. PICK c, m, n : c = s \o t /\ m = Len(s) /\ n = Len(t)
  OBVIOUS
<1>2. /\ m \in Nat /\ n \in Nat /\ DOMAIN s = 1 .. m /\ DOMAIN t = 1 .. n /\ DOMAIN c = 1 .. m + n
      /\ \A i \in 1 .. m + n : c[i] = IF i <= m THEN s[i] ELSE t[i - m]
      /\ c \in Seq(T)
  BY <1>1, ConcatProperties, LenProperties
<1>3. ASSUME NEW i \in 1 .. m + n PROVE c[i] \in ToSet(s) \cup ToSet(t)
  <2>1. CASE i <= m
    <3>1. i \in 1 .. m
      BY <1>2, <2>1
    <3> QED  BY <1>2, <2>1, <3>1 DEF ToSet
  <2>2. CASE ~ (i <= m)
    <3>1. i - m \in 1 .. n
      BY <1>2, <2>2
    <3> QED  BY <1>2, <2>2, <3>1 DEF ToSet
  <2> QED  BY <2>1, <2>2
<1>4. ASSUME NEW i \in 1 .. m PROVE s[i] \in ToSet(c)
  <2>1. i \in 1 .. m + n /\ i <= m
    BY <1>2
  <2> QED  BY <1>2, <2>1 DEF ToSet
<1>5. ASSUME NEW i \in 1 .. n PROVE t[i] \in ToSet(c)
  <2>1. i + m \in 1 .. m + n /\ ~ (i + m <= m) /\ i + m - m = i
    BY <1>2
  <2>2. c[i + m] = t[i] /\ i + m \in DOMAIN c
    BY <1>2, <2>1
  <2> QED  BY <2>2 DEF ToSet
<1>6. ToSet(c) \subseteq ToSet(s) \cup ToSet(t)
  BY <1>2, <1>3 DEF ToSet
<1>7. ToSet(s) \cup ToSet(t) \subseteq ToSet(c)
  <2> DEFINE C == ToSet(c)
  <2>1. (\A i \in 1 .. m : s[i] \in C) /\ (\A i \in 1 .. n : t[i] \in C)
    BY <1>4, <1>5
  <2> HIDE DEF C
  <2>2. ToSet(s) \cup ToSet(t) \subseteq C
    BY <1>2, <2>1 DEF ToSet
  <2> QED  BY <2>2 DEF C
<1> QED  BY <1>1, <1>2, <1>6, <1>7

-----------------------------------------------------------------------------
(***************************************************************************)
(* What Keep keeps.                                                        *)
(***************************************************************************)

\* Exactly the elements asked for.
LEMMA KeepElements ==
    ASSUME NEW T, NEW S
    PROVE  \A s \in Seq(T) : Keep(s, S) \in Seq(T) /\ ToSet(Keep(s, S)) = ToSet(s) \cap S
<1> DEFINE G == {s \in Seq(T) : Keep(s, S) \in Seq(T) /\ ToSet(Keep(s, S)) = ToSet(s) \cap S}
<1>1. <<>> \in G
  BY KeepEmpty, ElementsEmpty
<1>2. ASSUME NEW s \in Seq(T), NEW x \in T, s \in G PROVE Append(s, x) \in G
  <2>1. PICK k : k = Keep(s, S)
    OBVIOUS
  <2>2. k \in Seq(T) /\ ToSet(k) = ToSet(s) \cap S
    BY <1>2, <2>1
  <2>3. Keep(Append(s, x), S) = IF x \in S THEN Append(k, x) ELSE k
    BY <2>1, KeepAppend
  <2>4. Append(k, x) \in Seq(T) /\ ToSet(Append(k, x)) = ToSet(k) \cup {x}
    BY <2>2, ElementsAppend, AppendProperties
  <2>5. Append(s, x) \in Seq(T) /\ ToSet(Append(s, x)) = ToSet(s) \cup {x}
    BY ElementsAppend, AppendProperties
  <2>6. CASE x \in S
    BY <2>2, <2>3, <2>4, <2>5, <2>6
  <2>7. CASE x \notin S
    BY <2>2, <2>3, <2>5, <2>7
  <2> QED  BY <2>6, <2>7
<1>3. Seq(T) \subseteq G
  <2> HIDE DEF G
  <2> QED  BY <1>1, <1>2, SeqInduct
<1> QED  BY <1>3

\* All of a sequence, when all its elements are asked for.
LEMMA KeepAll ==
    ASSUME NEW T, NEW S
    PROVE  \A s \in Seq(T) : ToSet(s) \subseteq S => Keep(s, S) = s
<1> DEFINE G == {s \in Seq(T) : ToSet(s) \subseteq S => Keep(s, S) = s}
<1>1. <<>> \in G
  BY KeepEmpty, ElementsEmpty
<1>2. ASSUME NEW s \in Seq(T), NEW x \in T, s \in G PROVE Append(s, x) \in G
  <2>1. Append(s, x) \in Seq(T) /\ ToSet(Append(s, x)) = ToSet(s) \cup {x}
    BY ElementsAppend, AppendProperties
  <2>2. Keep(Append(s, x), S) = IF x \in S THEN Append(Keep(s, S), x) ELSE Keep(s, S)
    BY KeepAppend
  <2> QED  BY <1>2, <2>1, <2>2
<1>3. Seq(T) \subseteq G
  <2> HIDE DEF G
  <2> QED  BY <1>1, <1>2, SeqInduct
<1> QED  BY <1>3

\* Nothing, when none is.
LEMMA KeepNone ==
    ASSUME NEW T, NEW S
    PROVE  \A s \in Seq(T) : ToSet(s) \cap S = {} => Keep(s, S) = <<>>
<1> DEFINE G == {s \in Seq(T) : ToSet(s) \cap S = {} => Keep(s, S) = <<>>}
<1>1. <<>> \in G
  BY KeepEmpty, ElementsEmpty
<1>2. ASSUME NEW s \in Seq(T), NEW x \in T, s \in G PROVE Append(s, x) \in G
  <2>1. Append(s, x) \in Seq(T) /\ ToSet(Append(s, x)) = ToSet(s) \cup {x}
    BY ElementsAppend, AppendProperties
  <2>2. Keep(Append(s, x), S) = IF x \in S THEN Append(Keep(s, S), x) ELSE Keep(s, S)
    BY KeepAppend
  <2> QED  BY <1>2, <2>1, <2>2
<1>3. Seq(T) \subseteq G
  <2> HIDE DEF G
  <2> QED  BY <1>1, <1>2, SeqInduct
<1> QED  BY <1>3

\* Keep looks at nothing but the elements.
LEMMA KeepSame ==
    ASSUME NEW T, NEW S, NEW R
    PROVE  \A s \in Seq(T) : ToSet(s) \cap S = ToSet(s) \cap R => Keep(s, S) = Keep(s, R)
<1> DEFINE G == {s \in Seq(T) : ToSet(s) \cap S = ToSet(s) \cap R => Keep(s, S) = Keep(s, R)}
<1>1. <<>> \in G
  BY KeepEmpty, ElementsEmpty
<1>2. ASSUME NEW s \in Seq(T), NEW x \in T, s \in G PROVE Append(s, x) \in G
  <2>1. Append(s, x) \in Seq(T) /\ ToSet(Append(s, x)) = ToSet(s) \cup {x}
    BY ElementsAppend, AppendProperties
  <2>2. /\ Keep(Append(s, x), S) = IF x \in S THEN Append(Keep(s, S), x) ELSE Keep(s, S)
        /\ Keep(Append(s, x), R) = IF x \in R THEN Append(Keep(s, R), x) ELSE Keep(s, R)
    BY KeepAppend
  <2> QED  BY <1>2, <2>1, <2>2
<1>3. Seq(T) \subseteq G
  <2> HIDE DEF G
  <2> QED  BY <1>1, <1>2, SeqInduct
<1> QED  BY <1>3

\* Appending to the second of two sequences.
LEMMA ConcatAppend ==
    ASSUME NEW T, NEW s \in Seq(T), NEW t \in Seq(T), NEW x \in T
    PROVE  s \o Append(t, x) = Append(s \o t, x)
<1>1. <<x>> \in Seq(T) /\ Append(t, x) \in Seq(T) /\ s \o t \in Seq(T)
  BY AppendProperties, ConcatProperties
<1>2. Append(t, x) = t \o <<x>> /\ Append(s \o t, x) = (s \o t) \o <<x>>
  BY <1>1, AppendIsConcat
<1> QED  BY <1>1, <1>2, ConcatAssociative

\* Of two sequences one after the other, first what it keeps of the first.
LEMMA KeepConcat ==
    ASSUME NEW T, NEW S, NEW s \in Seq(T)
    PROVE  \A t \in Seq(T) : Keep(s \o t, S) = Keep(s, S) \o Keep(t, S)
<1> DEFINE G == {t \in Seq(T) : Keep(s \o t, S) = Keep(s, S) \o Keep(t, S)}
<1>0. Keep(s, S) \in Seq(T)
  BY KeepElements
<1>1. <<>> \in G
  BY <1>0, KeepEmpty, ElementsEmpty, ConcatEmptySeq
<1>2. ASSUME NEW t \in Seq(T), NEW x \in T, t \in G PROVE Append(t, x) \in G
  <2>1. Append(t, x) \in Seq(T) /\ s \o t \in Seq(T) /\ s \o Append(t, x) = Append(s \o t, x)
    BY AppendProperties, ConcatProperties, ConcatAppend
  <2>2. PICK k, j : k = Keep(s, S) /\ j = Keep(t, S)
    OBVIOUS
  <2>3. k \in Seq(T) /\ j \in Seq(T) /\ Keep(s \o t, S) = k \o j
    BY <1>2, <2>2, KeepElements
  <2>4. k \o Append(j, x) = Append(k \o j, x)
    BY <2>3, ConcatAppend
  <2>5. Keep(s \o Append(t, x), S) = IF x \in S THEN Append(k \o j, x) ELSE k \o j
    <3>1. PICK u : u = s \o t
      OBVIOUS
    <3>2. u \in Seq(T) /\ Keep(u, S) = k \o j
      BY <2>1, <2>3, <3>1
    <3>3. Keep(Append(u, x), S) = IF x \in S THEN Append(Keep(u, S), x) ELSE Keep(u, S)
      BY <3>2, KeepAppend
    <3>4. s \o Append(t, x) = Append(u, x)
      BY <2>1, <3>1
    <3> QED  BY <3>2, <3>3, <3>4
  <2>6. Keep(Append(t, x), S) = IF x \in S THEN Append(j, x) ELSE j
    BY <2>2, KeepAppend
  <2> QED  BY <2>1, <2>2, <2>4, <2>5, <2>6
<1>3. Seq(T) \subseteq G
  <2> HIDE DEF G
  <2> QED  BY <1>1, <1>2, SeqInduct
<1> QED  BY <1>3

-----------------------------------------------------------------------------
(***************************************************************************)
(* Lists that name no order twice.                                         *)
(***************************************************************************)

\* The empty list is one; a new order may be appended to one.
LEMMA OnceEmpty == IsInjective(<<>>)
BY DEF IsInjective

\* Appending a new element repeats none.
LEMMA OnceAppend ==
    ASSUME NEW T, NEW s \in Seq(T), NEW x \in T, IsInjective(s), x \notin ToSet(s)
    PROVE  IsInjective(Append(s, x))
<1>1. PICK a, n : a = Append(s, x) /\ n = Len(s)
  OBVIOUS
<1>2. /\ n \in Nat /\ DOMAIN s = 1 .. n /\ DOMAIN a = 1 .. n + 1
      /\ a[n + 1] = x /\ \A i \in 1 .. n : a[i] = s[i]
  BY <1>1, AppendProperties, LenProperties
<1>3. \A i \in 1 .. n : s[i] # x
  BY <1>2 DEF ToSet
<1>4. ASSUME NEW i \in 1 .. n + 1, NEW j \in 1 .. n + 1, a[i] = a[j] PROVE i = j
  <2>1. (i \in 1 .. n \/ i = n + 1) /\ (j \in 1 .. n \/ j = n + 1)
    BY <1>2
  <2>2. \A u, v \in 1 .. n : s[u] = s[v] => u = v
    BY <1>2 DEF IsInjective
  <2> QED  BY <1>2, <1>3, <1>4, <2>1, <2>2
<1>5. IsInjective(a)
  BY <1>2, <1>4 DEF IsInjective
<1> QED  BY <1>1, <1>5

\* The part before the last element, and the last element is not in it.
LEMMA OncePrefix ==
    ASSUME NEW T, NEW s \in Seq(T), NEW x \in T, IsInjective(Append(s, x))
    PROVE  IsInjective(s) /\ x \notin ToSet(s)
<1>1. PICK a, n : a = Append(s, x) /\ n = Len(s)
  OBVIOUS
<1>2. /\ n \in Nat /\ DOMAIN s = 1 .. n /\ DOMAIN a = 1 .. n + 1
      /\ a[n + 1] = x /\ \A i \in 1 .. n : a[i] = s[i]
  BY <1>1, AppendProperties, LenProperties
<1>3. \A i, j \in 1 .. n + 1 : a[i] = a[j] => i = j
  BY <1>1, <1>2 DEF IsInjective
<1>4. \A i \in 1 .. n : i \in 1 .. n + 1 /\ n + 1 \in 1 .. n + 1 /\ i # n + 1
  BY <1>2
<1>5. \A i \in 1 .. n : s[i] # x
  BY <1>2, <1>3, <1>4
<1>6. \A i, j \in 1 .. n : s[i] = s[j] => i = j
  BY <1>2, <1>3, <1>4
<1> QED  BY <1>2, <1>5, <1>6 DEF IsInjective, ToSet

\* What is kept of one.
LEMMA OnceKeep ==
    ASSUME NEW T, NEW S
    PROVE  \A s \in Seq(T) : IsInjective(s) => IsInjective(Keep(s, S))
<1> DEFINE G == {s \in Seq(T) : IsInjective(s) => IsInjective(Keep(s, S))}
<1>1. <<>> \in G
  BY KeepEmpty, ElementsEmpty
<1>2. ASSUME NEW s \in Seq(T), NEW x \in T, s \in G PROVE Append(s, x) \in G
  <2>1. Append(s, x) \in Seq(T)
    BY AppendProperties
  <2>2. SUFFICES ASSUME IsInjective(Append(s, x)) PROVE IsInjective(Keep(Append(s, x), S))
    BY <2>1
  <2>3. IsInjective(s) /\ x \notin ToSet(s)
    BY <2>2, OncePrefix
  <2>4. PICK k : k = Keep(s, S)
    OBVIOUS
  <2>5. k \in Seq(T) /\ x \notin ToSet(k) /\ IsInjective(k)
    BY <1>2, <2>3, <2>4, KeepElements
  <2>6. Keep(Append(s, x), S) = IF x \in S THEN Append(k, x) ELSE k
    BY <2>4, KeepAppend
  <2>7. IsInjective(Append(k, x))
    BY <2>5, OnceAppend
  <2> QED  BY <2>5, <2>6, <2>7
<1>3. Seq(T) \subseteq G
  <2> HIDE DEF G
  <2> QED  BY <1>1, <1>2, SeqInduct
<1> QED  BY <1>3

\* Two of them with no order in common.
LEMMA OnceConcat ==
    ASSUME NEW T, NEW s \in Seq(T), IsInjective(s)
    PROVE  \A t \in Seq(T) : IsInjective(t) /\ ToSet(s) \cap ToSet(t) = {} => IsInjective(s \o t)
<1> DEFINE G == {t \in Seq(T) : IsInjective(t) /\ ToSet(s) \cap ToSet(t) = {} => IsInjective(s \o t)}
<1>1. <<>> \in G
  BY ElementsEmpty, ConcatEmptySeq
<1>2. ASSUME NEW t \in Seq(T), NEW x \in T, t \in G PROVE Append(t, x) \in G
  <2>1. Append(t, x) \in Seq(T) /\ ToSet(Append(t, x)) = ToSet(t) \cup {x}
    BY AppendProperties, ElementsAppend
  <2>2. SUFFICES ASSUME IsInjective(Append(t, x)), ToSet(s) \cap ToSet(Append(t, x)) = {}
                 PROVE  IsInjective(s \o Append(t, x))
    BY <2>1
  <2>3. PICK u : u = s \o t
    OBVIOUS
  <2>4. IsInjective(t) /\ x \notin ToSet(t)
    BY <2>2, OncePrefix
  <2>5. u \in Seq(T) /\ x \notin ToSet(u) /\ IsInjective(u)
    BY <1>2, <2>1, <2>2, <2>3, <2>4, ElementsConcat
  <2>6. s \o Append(t, x) = Append(u, x)
    BY <2>3, ConcatAppend
  <2> QED  BY <2>5, <2>6, OnceAppend
<1>3. Seq(T) \subseteq G
  <2> HIDE DEF G
  <2> QED  BY <1>1, <1>2, SeqInduct
<1> QED  BY <1>3

-----------------------------------------------------------------------------
(***************************************************************************)
(* Taking an order out of a list and putting it back in.                   *)
(***************************************************************************)

\* What is left when an order is taken out.
LEMMA WithoutProperties ==
    ASSUME NEW T, NEW s \in Seq(T), NEW x
    PROVE  /\ Without(s, x) \in Seq(T)
           /\ ToSet(Without(s, x)) = ToSet(s) \ {x}
           /\ x \notin ToSet(s) => Without(s, x) = s
           /\ IsInjective(s) => IsInjective(Without(s, x))
<1>1. PICK S : S = ToSet(s) \ {x}
  OBVIOUS
<1>2. /\ Keep(s, S) \in Seq(T) /\ ToSet(Keep(s, S)) = ToSet(s) \cap S
      /\ IsInjective(s) => IsInjective(Keep(s, S))
      /\ ToSet(s) \subseteq S => Keep(s, S) = s
  BY KeepElements, OnceKeep, KeepAll
<1>3. ToSet(s) \cap S = S /\ (x \notin ToSet(s) => ToSet(s) \subseteq S)
  BY <1>1
<1> QED  BY <1>1, <1>2, <1>3 DEF Without

\* A list cut in two.
LEMMA Cut ==
    ASSUME NEW T, NEW s \in Seq(T), NEW i \in 1 .. Len(s) + 1
    PROVE  /\ SubSeq(s, 1, i - 1) \in Seq(T) /\ SubSeq(s, i, Len(s)) \in Seq(T)
           /\ Len(SubSeq(s, 1, i - 1)) = i - 1
           /\ s = SubSeq(s, 1, i - 1) \o SubSeq(s, i, Len(s))
<1>1. PICK n : n = Len(s)
  OBVIOUS
<1>2. n \in Nat /\ i \in 1 .. n + 1 /\ \A j \in 1 .. n : s[j] \in T
  BY <1>1, LenProperties, ElementOfSeq
<1>3. i - 1 \in Int /\ n \in Int /\ i \in Int /\ 1 \in Int
      /\ (\A j \in 1 .. i - 1 : j \in 1 .. n) /\ (\A j \in i .. n : j \in 1 .. n)
  BY <1>2
<1>4. SubSeq(s, 1, i - 1) \in Seq(T) /\ Len(SubSeq(s, 1, i - 1)) = i - 1
  <2>1. \A j \in 1 .. i - 1 : s[j] \in T
    BY <1>2, <1>3
  <2>2. /\ SubSeq(s, 1, i - 1) \in Seq(T)
        /\ Len(SubSeq(s, 1, i - 1)) = IF 1 <= i - 1 THEN (i - 1) - 1 + 1 ELSE 0
    BY <1>3, <2>1, SubSeqProperties
  <2>3. (IF 1 <= i - 1 THEN (i - 1) - 1 + 1 ELSE 0) = i - 1
    BY <1>2
  <2> QED  BY <2>2, <2>3
<1>5. SubSeq(s, i, n) \in Seq(T)
  <2>1. \A j \in i .. n : s[j] \in T
    BY <1>2, <1>3
  <2> QED  BY <1>3, <2>1, SubSeqProperties
<1>6. SubSeq(s, 1, i - 1) \o SubSeq(s, i, n) = s
  <2>1. 1 \in 1 .. n + 1 /\ i - 1 \in 1 - 1 .. n /\ n \in i - 1 .. n /\ i - 1 + 1 = i
    BY <1>2
  <2>2. SubSeq(s, 1, i - 1) \o SubSeq(s, i - 1 + 1, n) = SubSeq(s, 1, n)
    BY <1>1, <2>1, ConcatAdjacentSubSeq
  <2> QED  BY <1>1, <2>1, <2>2, SubSeqFull
<1> QED  BY <1>1, <1>4, <1>5, <1>6

\* An order put into a slot: the list stays what it was on both sides of it.
LEMMA InsertProperties ==
    ASSUME NEW T, NEW s \in Seq(T), NEW i \in 1 .. Len(s) + 1, NEW x \in T
    PROVE  /\ InsertAt(s, i, x) \in Seq(T)
           /\ Len(InsertAt(s, i, x)) = Len(s) + 1
           /\ ToSet(InsertAt(s, i, x)) = ToSet(s) \cup {x}
           /\ InsertAt(s, i, x)[i] = x
           /\ \A j \in 1 .. i - 1 : InsertAt(s, i, x)[j] = s[j]
           /\ \A j \in i .. Len(s) : InsertAt(s, i, x)[j + 1] = s[j]
<1>1. PICK u, v : u = SubSeq(s, 1, i - 1) /\ v = SubSeq(s, i, Len(s))
  OBVIOUS
<1>2. u \in Seq(T) /\ v \in Seq(T) /\ Len(u) = i - 1 /\ s = u \o v
  BY <1>1, Cut
<1>3. PICK w : w = Append(u, x)
  OBVIOUS
<1>4. InsertAt(s, i, x) = w \o v
  <2>1. Append(u, x) = u \o <<x>>
    BY <1>2, AppendIsConcat
  <2> QED  BY <1>1, <1>3, <2>1 DEF InsertAt
<1>5. /\ w \in Seq(T) /\ Len(w) = i /\ w[i] = x /\ ToSet(w) = ToSet(u) \cup {x}
      /\ \A j \in 1 .. i - 1 : w[j] = u[j]
  <2>1. /\ w \in Seq(T) /\ Len(w) = Len(u) + 1 /\ w[Len(u) + 1] = x
        /\ \A j \in 1 .. Len(u) : w[j] = u[j]
    BY <1>2, <1>3, AppendProperties
  <2>2. Len(u) + 1 = i
    BY <1>2
  <2> QED  BY <1>2, <1>3, <2>1, <2>2, ElementsAppend
<1>6. PICK n, k, c : n = Len(s) /\ k = Len(v) /\ c = w \o v
  OBVIOUS
<1>7. /\ n \in Nat /\ k \in Nat /\ n = i - 1 + k /\ i \in 1 .. n + 1
      /\ \A j \in 1 .. n : s[j] = IF j <= i - 1 THEN u[j] ELSE v[j - (i - 1)]
  BY <1>2, <1>6, ConcatProperties, LenProperties
<1>8. /\ c \in Seq(T) /\ Len(c) = i + k
      /\ \A j \in 1 .. i + k : c[j] = IF j <= i THEN w[j] ELSE v[j - i]
      /\ ToSet(c) = ToSet(w) \cup ToSet(v)
  BY <1>2, <1>5, <1>6, ConcatProperties, ElementsConcat
<1>9. ToSet(s) = ToSet(u) \cup ToSet(v)
  BY <1>2, ElementsConcat
<1>10. Len(c) = n + 1 /\ ToSet(c) = ToSet(s) \cup {x}
  BY <1>5, <1>7, <1>8, <1>9
<1>11. c[i] = x
  BY <1>5, <1>7, <1>8
<1>12. ASSUME NEW j \in 1 .. i - 1 PROVE c[j] = s[j]
  <2>1. j \in 1 .. i + k /\ j <= i /\ j \in 1 .. n /\ j <= i - 1
    BY <1>7
  <2> QED  BY <1>5, <1>7, <1>8, <2>1
<1>13. ASSUME NEW j \in i .. n PROVE c[j + 1] = s[j]
  <2>1. /\ j + 1 \in 1 .. i + k /\ ~ (j + 1 <= i) /\ j \in 1 .. n /\ ~ (j <= i - 1)
        /\ j + 1 - i = j - (i - 1)
    BY <1>7
  <2>2. c[j + 1] = v[j + 1 - i]
    BY <1>8, <2>1
  <2>3. s[j] = v[j - (i - 1)]
    BY <1>7, <2>1
  <2> QED  BY <2>1, <2>2, <2>3
<1> QED  BY <1>4, <1>6, <1>8, <1>10, <1>11, <1>12, <1>13

\* Taking the order out of its slot gives the list back.
LEMMA InsertThenRemove ==
    ASSUME NEW T, NEW s \in Seq(T), NEW i \in 1 .. Len(s) + 1, NEW x \in T
    PROVE  RemoveAt(InsertAt(s, i, x), i) = s
<1>1. PICK c, n : c = InsertAt(s, i, x) /\ n = Len(s)
  OBVIOUS
<1>2. /\ n \in Nat /\ i \in 1 .. n + 1 /\ c \in Seq(T) /\ Len(c) = n + 1
      /\ \A j \in 1 .. i - 1 : c[j] = s[j]
      /\ \A j \in i .. n : c[j + 1] = s[j]
  BY <1>1, InsertProperties, LenProperties
<1>3. PICK a, b : a = SubSeq(c, 1, i - 1) /\ b = SubSeq(c, i + 1, n + 1)
  OBVIOUS
<1>4. \A j \in 1 .. n + 1 : c[j] \in T
  BY <1>2, ElementOfSeq
<1>5. /\ a \in Seq(T) /\ Len(a) = i - 1
      /\ \A j \in 1 .. i - 1 : a[j] = c[j]
  <2>1. i - 1 \in Int /\ 1 \in Int /\ \A j \in 1 .. i - 1 : c[j] \in T
    BY <1>2, <1>4
  <2>2. /\ a \in Seq(T) /\ Len(a) = IF 1 <= i - 1 THEN (i - 1) - 1 + 1 ELSE 0
        /\ \A j \in 1 .. (i - 1) - 1 + 1 : a[j] = c[1 + j - 1]
    BY <1>3, <2>1, SubSeqProperties
  <2>3. (i - 1) - 1 + 1 = i - 1 /\ (IF 1 <= i - 1 THEN (i - 1) - 1 + 1 ELSE 0) = i - 1
        /\ \A j \in 1 .. i - 1 : 1 + j - 1 = j
    BY <1>2
  <2> QED  BY <2>2, <2>3
<1>6. /\ b \in Seq(T) /\ Len(b) = n + 1 - i
      /\ \A j \in 1 .. n + 1 - i : b[j] = c[i + j]
  <2>1. i + 1 \in Int /\ n + 1 \in Int /\ \A j \in i + 1 .. n + 1 : c[j] \in T
    BY <1>2, <1>4
  <2>2. /\ b \in Seq(T) /\ Len(b) = IF i + 1 <= n + 1 THEN (n + 1) - (i + 1) + 1 ELSE 0
        /\ \A j \in 1 .. (n + 1) - (i + 1) + 1 : b[j] = c[i + 1 + j - 1]
    BY <1>3, <2>1, SubSeqProperties
  <2>3. (n + 1) - (i + 1) + 1 = n + 1 - i
        /\ (IF i + 1 <= n + 1 THEN (n + 1) - (i + 1) + 1 ELSE 0) = n + 1 - i
        /\ \A j \in 1 .. n + 1 - i : i + 1 + j - 1 = i + j
    BY <1>2
  <2> QED  BY <2>2, <2>3
<1>7. PICK d : d = a \o b
  OBVIOUS
<1>8. /\ d \in Seq(T) /\ Len(d) = n
      /\ \A j \in 1 .. n : d[j] = IF j <= i - 1 THEN a[j] ELSE b[j - (i - 1)]
  <2>1. /\ d \in Seq(T) /\ Len(d) = i - 1 + (n + 1 - i)
        /\ \A j \in 1 .. i - 1 + (n + 1 - i) : d[j] = IF j <= i - 1 THEN a[j] ELSE b[j - (i - 1)]
    BY <1>5, <1>6, <1>7, ConcatProperties
  <2>2. i - 1 + (n + 1 - i) = n
    BY <1>2
  <2> QED  BY <2>1, <2>2
<1>9. ASSUME NEW j \in 1 .. n PROVE d[j] = s[j]
  <2>1. CASE j <= i - 1
    BY <1>2, <1>5, <1>8, <2>1
  <2>2. CASE ~ (j <= i - 1)
    <3>1. j - (i - 1) \in 1 .. n + 1 - i /\ i + (j - (i - 1)) = j + 1 /\ j \in i .. n
      BY <1>2, <2>2
    <3> QED  BY <1>2, <1>6, <1>8, <2>2, <3>1
  <2> QED  BY <2>1, <2>2
<1>10. d = s
  BY <1>1, <1>8, <1>9, SeqEqual
<1> QED  BY <1>1, <1>2, <1>3, <1>7, <1>10 DEF RemoveAt

-----------------------------------------------------------------------------
(***************************************************************************)
(* Where an order stands.                                                  *)
(***************************************************************************)

\* Position names the first place of a listed order.
LEMMA PositionProperties ==
    ASSUME NEW T, NEW s \in Seq(T), NEW x \in ToSet(s)
    PROVE  /\ Position(s, x) \in 1 .. Len(s) /\ s[Position(s, x)] = x
           /\ \A j \in 1 .. Len(s) : s[j] = x => Position(s, x) <= j
<1>1. Len(s) \in Nat /\ DOMAIN s = 1 .. Len(s)
  BY LenProperties
<1> DEFINE P == {i \in 1 .. Len(s) : s[i] = x}
<1>2. P \in SUBSET Nat /\ P # {}
  BY <1>1 DEF ToSet
<1>3. PICK i \in P : \A j \in P : i <= j
  <2> HIDE DEF P
  <2> QED  BY <1>2, Smallest
<1>4. i \in DOMAIN s /\ s[i] = x /\ \A j \in DOMAIN s : s[j] = x => i <= j
  BY <1>1, <1>3
<1> QED  BY <1>1, <1>4 DEF Position

\* The only one, in a list that names no order twice.
LEMMA PositionOnce ==
    ASSUME NEW T, NEW s \in Seq(T), IsInjective(s), NEW i \in 1 .. Len(s)
    PROVE  Position(s, s[i]) = i
<1>1. DOMAIN s = 1 .. Len(s) /\ s[i] \in ToSet(s)
  BY LenProperties DEF ToSet
<1>2. PICK p : p = Position(s, s[i])
  OBVIOUS
<1>3. p \in 1 .. Len(s) /\ s[p] = s[i]
  BY <1>1, <1>2, PositionProperties
<1> QED  BY <1>1, <1>2, <1>3 DEF IsInjective

\* An order that is new to the list stands where it was put, alone.
LEMMA InsertOnce ==
    ASSUME NEW T, NEW s \in Seq(T), NEW i \in 1 .. Len(s) + 1, NEW x \in T,
           IsInjective(s), x \notin ToSet(s)
    PROVE  IsInjective(InsertAt(s, i, x)) /\ Position(InsertAt(s, i, x), x) = i
<1>1. PICK c, n : c = InsertAt(s, i, x) /\ n = Len(s)
  OBVIOUS
<1>2. /\ n \in Nat /\ i \in 1 .. n + 1 /\ c \in Seq(T) /\ Len(c) = n + 1 /\ c[i] = x
      /\ \A j \in 1 .. i - 1 : c[j] = s[j]
      /\ \A j \in i .. n : c[j + 1] = s[j]
      /\ DOMAIN s = 1 .. n /\ DOMAIN c = 1 .. n + 1
  BY <1>1, InsertProperties, LenProperties
<1>3. ASSUME NEW j \in 1 .. n + 1, j # i
      PROVE  \E h \in 1 .. n : c[j] = s[h] /\ h = IF j < i THEN j ELSE j - 1
  <2>1. CASE j < i
    <3>1. j \in 1 .. i - 1 /\ j \in 1 .. n
      BY <1>2, <2>1
    <3> QED  BY <1>2, <2>1, <3>1
  <2>2. CASE ~ (j < i)
    <3>1. j - 1 \in i .. n /\ j - 1 \in 1 .. n /\ j - 1 + 1 = j
      BY <1>2, <1>3, <2>2
    <3> QED  BY <1>2, <2>2, <3>1
  <2> QED  BY <2>1, <2>2
<1>4. \A h \in 1 .. n : s[h] # x
  BY <1>2 DEF ToSet
<1>5. ASSUME NEW j \in 1 .. n + 1, NEW k \in 1 .. n + 1, c[j] = c[k] PROVE j = k
  <2>1. CASE j = i \/ k = i
    BY <1>2, <1>3, <1>4, <1>5, <2>1
  <2>2. CASE j # i /\ k # i
    <3>1. PICK h \in 1 .. n : c[j] = s[h] /\ h = IF j < i THEN j ELSE j - 1
      BY <1>3, <2>2
    <3>2. PICK g \in 1 .. n : c[k] = s[g] /\ g = IF k < i THEN k ELSE k - 1
      BY <1>3, <2>2
    <3>3. h = g
      BY <1>2, <1>5, <3>1, <3>2 DEF IsInjective
    <3> QED  BY <1>2, <2>2, <3>1, <3>2, <3>3
  <2> QED  BY <2>1, <2>2
<1>6. IsInjective(c)
  BY <1>2, <1>5 DEF IsInjective
<1>7. Position(c, c[i]) = i
  BY <1>2, <1>6, PositionOnce
<1> QED  BY <1>1, <1>2, <1>6, <1>7

\* Taking a listed order out is removing it at its place.
LEMMA WithoutIsRemoveAt ==
    ASSUME NEW T, NEW s \in Seq(T), IsInjective(s), NEW p \in 1 .. Len(s)
    PROVE  Without(s, s[p]) = RemoveAt(s, p)
<1>1. PICK n, x : n = Len(s) /\ x = s[p]
  OBVIOUS
<1>2. n \in Nat /\ p \in 1 .. n /\ DOMAIN s = 1 .. n /\ x \in T /\ \A j \in 1 .. n : s[j] \in T
  BY <1>1, LenProperties, ElementOfSeq
<1>3. PICK u, r, v : u = SubSeq(s, 1, p - 1) /\ r = SubSeq(s, p, n) /\ v = SubSeq(s, p + 1, n)
  OBVIOUS
<1>4. u \in Seq(T) /\ r \in Seq(T) /\ s = u \o r
  <2>1. p \in 1 .. Len(s) + 1
    BY <1>1, <1>2
  <2> QED  BY <1>1, <1>3, <2>1, Cut
<1>5. v \in Seq(T) /\ r = <<x>> \o v /\ <<x>> \in Seq(T)
  <2>1. p + 1 \in Int /\ n \in Int /\ n \in p .. n /\ \A j \in p + 1 .. n : s[j] \in T
    BY <1>2
  <2>2. v \in Seq(T)
    BY <1>3, <2>1, SubSeqProperties
  <2>3. r = <<x>> \o v
    BY <1>1, <1>2, <1>3, <2>1, SubSeqRecursiveFirst
  <2> QED  BY <1>2, <2>2, <2>3
<1>6. \A j \in 1 .. n : j # p => s[j] # x
  BY <1>1, <1>2 DEF IsInjective
<1>7. x \notin ToSet(u)
  <2>1. p - 1 \in Int /\ 1 \in Int /\ \A j \in 1 .. p - 1 : s[j] \in T
    BY <1>2
  <2>2. /\ Len(u) = IF 1 <= p - 1 THEN (p - 1) - 1 + 1 ELSE 0
        /\ \A j \in 1 .. (p - 1) - 1 + 1 : u[j] = s[1 + j - 1]
    BY <1>3, <2>1, SubSeqProperties
  <2>3. Len(u) = p - 1 /\ \A j \in 1 .. p - 1 : u[j] = s[j] /\ j \in 1 .. n /\ j # p
    BY <1>2, <2>2
  <2>4. DOMAIN u = 1 .. p - 1
    BY <1>4, <2>3, LenProperties
  <2> QED  BY <1>6, <2>3, <2>4 DEF ToSet
<1>8. x \notin ToSet(v)
  <2>1. p + 1 \in Int /\ n \in Int /\ \A j \in p + 1 .. n : s[j] \in T
    BY <1>2
  <2>2. /\ Len(v) = IF p + 1 <= n THEN n - (p + 1) + 1 ELSE 0
        /\ \A j \in 1 .. n - (p + 1) + 1 : v[j] = s[p + 1 + j - 1]
    BY <1>3, <2>1, SubSeqProperties
  <2>3. Len(v) = n - p /\ \A j \in 1 .. n - p : v[j] = s[p + j] /\ p + j \in 1 .. n /\ p + j # p
    <3>1. /\ n - (p + 1) + 1 = n - p /\ (p + 1 <= n <=> n - p # 0)
          /\ \A j \in 1 .. n - p : p + 1 + j - 1 = p + j /\ p + j \in 1 .. n /\ p + j # p
      BY <1>2
    <3> QED  BY <2>2, <3>1
  <2>4. DOMAIN v = 1 .. n - p
    BY <1>5, <2>3, LenProperties
  <2> QED  BY <1>6, <2>3, <2>4 DEF ToSet
<1>9. PICK S : S = ToSet(s) \ {x}
  OBVIOUS
<1>10. ToSet(u) \subseteq S /\ ToSet(v) \subseteq S /\ ToSet(<<x>>) \cap S = {}
  <2>1. ToSet(u \o r) = ToSet(u) \cup ToSet(r)
    BY <1>4, ElementsConcat
  <2>3. ToSet(<<x>> \o v) = ToSet(<<x>>) \cup ToSet(v)
    BY <1>5, ElementsConcat
  <2>2. ToSet(<<x>>) = {x}
    BY DEF ToSet
  <2> QED  BY <1>4, <1>5, <1>7, <1>8, <1>9, <2>1, <2>2, <2>3
<1>11. Keep(u, S) = u /\ Keep(v, S) = v /\ Keep(<<x>>, S) = <<>>
  BY <1>4, <1>5, <1>10, KeepAll, KeepNone
<1>12. Keep(r, S) = Keep(<<x>>, S) \o Keep(v, S)
  BY <1>5, KeepConcat
<1>13. Keep(s, S) = Keep(u, S) \o Keep(r, S)
  BY <1>4, KeepConcat
<1>14. Keep(s, S) = u \o v
  BY <1>5, <1>11, <1>12, <1>13, ConcatEmptySeq
<1> QED  BY <1>1, <1>3, <1>9, <1>14 DEF Without, RemoveAt

-----------------------------------------------------------------------------
(***************************************************************************)
(* The nearest allowed slot, and the executable sequence.                  *)
(***************************************************************************)

\* Among some slots one is the nearest.
LEMMA NearestExists ==
    ASSUME NEW slots \in SUBSET Nat, slots # {}, NEW wish \in Int, NEW old \in Int
    PROVE  \E i \in slots : \A j \in slots : Closer(i, j, wish, old)
<1>1. \A i \in slots : Distance(i, wish) \in Nat /\ Distance(i, old) \in Nat
  BY DEF Distance
<1>2. PICK a \in slots : \A j \in slots : Distance(a, wish) <= Distance(j, wish)
  <2> DEFINE D == {Distance(i, wish) : i \in slots}
  <2>1. D \in SUBSET Nat /\ D # {}
    BY <1>1
  <2>2. PICK d \in D : \A e \in D : d <= e
    <3> HIDE DEF D
    <3> QED  BY <2>1, Smallest
  <2> QED  BY <2>2
<1> DEFINE A == {i \in slots : Distance(i, wish) = Distance(a, wish)}
<1>3. PICK b \in A : \A j \in A : Distance(b, old) <= Distance(j, old)
  <2> DEFINE D == {Distance(i, old) : i \in A}
  <2>1. D \in SUBSET Nat /\ D # {}
    BY <1>1
  <2>2. PICK d \in D : \A e \in D : d <= e
    <3> HIDE DEF D
    <3> QED  BY <2>1, Smallest
  <2> QED  BY <2>2
<1> DEFINE B == {i \in A : Distance(i, old) = Distance(b, old)}
<1>4. PICK i \in B : \A j \in B : i <= j
  <2>1. B \in SUBSET Nat /\ B # {}
    BY <1>3
  <2> HIDE DEF B
  <2> QED  BY <2>1, Smallest
<1>5. /\ i \in slots /\ Distance(i, wish) = Distance(a, wish)
      /\ Distance(i, old) = Distance(b, old)
  BY <1>3, <1>4
<1>6. ASSUME NEW j \in slots PROVE Closer(i, j, wish, old)
  <2>1. Distance(a, wish) <= Distance(j, wish)
    BY <1>2
  <2>2. Distance(j, wish) = Distance(a, wish) => Distance(b, old) <= Distance(j, old)
    BY <1>3
  <2>3. Distance(j, wish) = Distance(a, wish) /\ Distance(j, old) = Distance(b, old) => i <= j
    BY <1>4
  <2>4. \A k \in slots : Distance(k, wish) \in Nat /\ Distance(k, old) \in Nat
    BY <1>1
  <2> HIDE DEF A, B
  <2> QED  BY <1>2, <1>3, <1>5, <2>1, <2>2, <2>3, <2>4 DEF Closer
<1> QED  BY <1>5, <1>6

\* nearest_allowed_sequence answers with an allowed list whenever there is one:
\* the others stay in their order, and no running order is pushed back.
THEOREM NearestIsAllowed ==
    ASSUME NEW T, NEW current \in Seq(T), NEW moved \in ToSet(current), NEW wish \in Int,
           NEW active, AllowedSlots(current, moved, active) # {}
    PROVE  \E slot \in 1 .. Len(Without(current, moved)) + 1 :
              /\ NearestAllowed(current, moved, wish, active)
                    = InsertAt(Without(current, moved), slot, moved)
              /\ Barrier(current, NearestAllowed(current, moved, wish, active), active)
<1>1. PICK rest, slots, old : /\ rest = Without(current, moved)
                              /\ slots = AllowedSlots(current, moved, active)
                              /\ old = Position(current, moved)
  OBVIOUS
<1>2. rest \in Seq(T) /\ Len(rest) \in Nat /\ old \in Int
  <2>1. rest \in Seq(T)
    BY <1>1, WithoutProperties
  <2>2. old \in 1 .. Len(current) /\ Len(current) \in Nat
    BY <1>1, PositionProperties, LenProperties
  <2> QED  BY <2>1, <2>2, LenProperties
<1>3. \A i \in slots : i \in 1 .. Len(rest) + 1 /\ Barrier(current, InsertAt(rest, i, moved), active)
  BY <1>1 DEF AllowedSlots
<1>4. slots \in SUBSET Nat /\ slots # {}
  BY <1>1, <1>2, <1>3
<1>5. \E i \in slots : \A j \in slots : Closer(i, j, wish, old)
  BY <1>2, <1>4, NearestExists
<1>6. PICK slot : slot = CHOOSE i \in slots : \A j \in slots : Closer(i, j, wish, old)
  OBVIOUS
<1>7. slot \in slots
  BY <1>5, <1>6
<1>8. NearestAllowed(current, moved, wish, active) = InsertAt(rest, slot, moved)
  BY <1>1, <1>6 DEF NearestAllowed
<1> QED  BY <1>1, <1>3, <1>7, <1>8

\* The executable sequence lists every visible order that is not stopped, once.
THEOREM EffectiveElements ==
    ASSUME NEW T, NEW stored \in Seq(T), NEW visible \in Seq(T), NEW excluded
    PROVE  /\ EffectiveSequence(stored, visible, excluded) \in Seq(T)
           /\ ToSet(EffectiveSequence(stored, visible, excluded)) = ToSet(visible) \ excluded
           /\ IsInjective(stored) /\ IsInjective(visible)
                 => IsInjective(EffectiveSequence(stored, visible, excluded))
<1>1. PICK A, p : A = ToSet(visible) \ excluded /\ p = Keep(stored, A)
  OBVIOUS
<1>2. PICK B, q : B = ToSet(visible) \ (excluded \cup ToSet(p)) /\ q = Keep(visible, B)
  OBVIOUS
<1>3. EffectiveSequence(stored, visible, excluded) = p \o q
  BY <1>1, <1>2 DEF EffectiveSequence
<1>4. /\ p \in Seq(T) /\ ToSet(p) = ToSet(stored) \cap A
      /\ IsInjective(stored) => IsInjective(p)
  BY <1>1, KeepElements, OnceKeep
<1>5. /\ q \in Seq(T) /\ ToSet(q) = ToSet(visible) \cap B
      /\ IsInjective(visible) => IsInjective(q)
  BY <1>2, KeepElements, OnceKeep
<1>6. p \o q \in Seq(T) /\ ToSet(p \o q) = ToSet(p) \cup ToSet(q)
  BY <1>4, <1>5, ElementsConcat
<1>7. ToSet(p) \cup ToSet(q) = ToSet(visible) \ excluded /\ ToSet(p) \cap ToSet(q) = {}
  BY <1>1, <1>2, <1>4, <1>5
<1>8. IsInjective(p) /\ IsInjective(q) => IsInjective(p \o q)
  BY <1>4, <1>5, <1>7, OnceConcat
<1> QED  BY <1>3, <1>4, <1>5, <1>6, <1>7, <1>8

\* A saved list of exactly those orders is the executable sequence itself.
LEMMA EffectiveFixed ==
    ASSUME NEW T, NEW stored \in Seq(T), NEW visible \in Seq(T), NEW excluded,
           ToSet(stored) = ToSet(visible) \ excluded
    PROVE  EffectiveSequence(stored, visible, excluded) = stored
<1>1. Keep(stored, ToSet(visible) \ excluded) = stored
  BY KeepAll
<1>2. PICK B : B = ToSet(visible) \ (excluded \cup ToSet(stored))
  OBVIOUS
<1>3. Keep(visible, B) = <<>>
  BY <1>2, KeepNone
<1> QED  BY <1>1, <1>2, <1>3, ConcatEmptySeq DEF EffectiveSequence

=============================================================================
