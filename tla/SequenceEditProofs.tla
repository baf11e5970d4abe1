------------------------- MODULE SequenceEditProofs -------------------------
(***************************************************************************)
(* Proofs about SequenceEdit, for lists of any length over any             *)
(* identifiers.  The operations so far rebuild what the cursor has passed  *)
(* (the invariant), since each round describes the range it moves over:    *)
(* the run it found is the same in both lists, and a literal is a copy.    *)
(***************************************************************************)
EXTENDS SequenceEdit, QueueRulesProofs, TLAPS

Id == Ids \union {Blank}

Operations ==
    [copy : {TRUE}, start : Nat, count : Nat] \union [copy : {FALSE}, ids : Seq(Id)]

\* The operations describe what the cursor has passed, and the loop ends
\* before the last identifier only at one that stands for two or for none.
IInv ==
    /\ before \in Seq(Id) /\ after \in Seq(Id)
    /\ cursor \in 0 .. Len(after)
    /\ ops \in Seq(Operations)
    /\ verdict \in {"run", "edit", "none"}
    /\ Rebuild(before, ops) = SubSeq(after, 1, cursor)
    /\ verdict = "edit" => cursor = Len(after)
    /\ GivesUpOnlyOnBadLists

-----------------------------------------------------------------------------
(* Rebuild: the recursion has a solution, and an append adds a piece to it. *)

\* The first n stages of Rebuild.
Stages(list, edit, n, f) ==
    f = [i \in 0 .. n |-> IF i = 0 THEN <<>> ELSE f[i - 1] \o Piece(list, edit[i])]

\* There are such stages, for every n.
LEMMA StagesExist ==
    ASSUME NEW list, NEW edit
    PROVE  \A n \in Nat : \E f : Stages(list, edit, n, f)
<1> DEFINE Bad == {n \in Nat : ~ \E f : Stages(list, edit, n, f)}
<1>1. SUFFICES ASSUME Bad # {} PROVE FALSE
    OBVIOUS
<1>2. PICK n \in Bad : \A m \in Bad : n <= m
    <2>1. Bad \in SUBSET Nat
        OBVIOUS
    <2> HIDE DEF Bad
    <2> QED BY <1>1, <2>1, Smallest
<1>3. CASE n = 0
    <2>1. Stages(list, edit, 0, [i \in 0 .. 0 |-> <<>>])
        BY DEF Stages
    <2> QED BY <1>2, <1>3, <2>1
<1>4. CASE n # 0
    <2>1. n - 1 \in Nat /\ n - 1 \notin Bad
        BY <1>2, <1>4
    <2>2. PICK f : Stages(list, edit, n - 1, f)
        BY <2>1
    <2>3. PICK last : last = f[n - 1] \o Piece(list, edit[n])
        OBVIOUS
    <2> DEFINE g == [i \in 0 .. n |-> IF i = n THEN last ELSE f[i]]
    <2>4. \A i \in 0 .. n - 1 : f[i] = IF i = 0 THEN <<>> ELSE f[i - 1] \o Piece(list, edit[i])
        BY <2>1, <2>2 DEF Stages
    <2>5. g[n] = last /\ \A i \in 0 .. n - 1 : g[i] = f[i]
        BY <1>4, <2>1
    <2>6. \A i \in 0 .. n : g[i] = IF i = 0 THEN <<>> ELSE g[i - 1] \o Piece(list, edit[i])
        <3> HIDE DEF g
        <3>1. ASSUME NEW i \in 0 .. n PROVE i = n \/ (i \in 0 .. n - 1 /\ i # n)
            BY <2>1
        <3>2. ASSUME NEW i \in 0 .. n, i # 0 PROVE i - 1 \in 0 .. n - 1
            BY <2>1, <3>2
        <3> QED BY <1>4, <2>1, <2>3, <2>4, <2>5, <3>1, <3>2
    <2>7. Stages(list, edit, n, g)
        <3> DEFINE h == [i \in 0 .. n |-> IF i = 0 THEN <<>> ELSE g[i - 1] \o Piece(list, edit[i])]
        <3>1. g = [i \in 0 .. n |-> g[i]] /\ h = [i \in 0 .. n |-> h[i]]
            OBVIOUS
        <3>2. \A i \in 0 .. n : h[i] = g[i]
            <4> HIDE DEF g
            <4> QED BY <2>6
        <3>3. g = h
            <4> HIDE DEF g, h
            <4> QED BY <3>1, <3>2
        <3> QED BY <3>3 DEF Stages
    <2> QED BY <1>2, <2>7
<1> QED BY <1>3, <1>4

\* Rebuild is the last of them.
LEMMA RebuildStages ==
    ASSUME NEW list, NEW T, NEW edit \in Seq(T)
    PROVE  \E f : Stages(list, edit, Len(edit), f) /\ Rebuild(list, edit) = f[Len(edit)]
<1> DEFINE f == CHOOSE f : Stages(list, edit, Len(edit), f)
<1>1. Len(edit) \in Nat
    OBVIOUS
<1>2. Stages(list, edit, Len(edit), f)
    BY <1>1, StagesExist
<1>3. Rebuild(list, edit) = f[Len(edit)]
    BY DEF Rebuild, Stages
<1> QED BY <1>2, <1>3

\* No operation rebuilds nothing.
LEMMA RebuildNothing == ASSUME NEW list PROVE Rebuild(list, <<>>) = <<>>
<1>1. <<>> \in Seq({}) /\ Len(<<>>) = 0
    OBVIOUS
<1>2. PICK f : Stages(list, <<>>, 0, f) /\ Rebuild(list, <<>>) = f[0]
    BY <1>1, RebuildStages
<1> QED BY <1>2 DEF Stages

\* One more operation appends its piece.
LEMMA RebuildAppend ==
    ASSUME NEW list, NEW T, NEW edit \in Seq(T), NEW op \in T
    PROVE  Rebuild(list, Append(edit, op)) = Rebuild(list, edit) \o Piece(list, op)
<1>1. PICK n, e : n = Len(edit) /\ e = Append(edit, op)
    OBVIOUS
<1>2. n \in Nat /\ e \in Seq(T) /\ Len(e) = n + 1 /\ e[n + 1] = op /\ \A i \in 1 .. n : e[i] = edit[i]
    BY <1>1, AppendProperties, LenProperties
<1>3. PICK f : Stages(list, edit, n, f) /\ Rebuild(list, edit) = f[n]
    BY <1>1, RebuildStages
<1>4. PICK g : Stages(list, e, n + 1, g) /\ Rebuild(list, e) = g[n + 1]
    BY <1>2, RebuildStages
<1>5. \A i \in 0 .. n : f[i] = IF i = 0 THEN <<>> ELSE f[i - 1] \o Piece(list, edit[i])
    BY <1>2, <1>3 DEF Stages
<1>6. \A i \in 0 .. n + 1 : g[i] = IF i = 0 THEN <<>> ELSE g[i - 1] \o Piece(list, e[i])
    BY <1>2, <1>4 DEF Stages
<1>7. \A i \in 0 .. n : g[i] = f[i]
    <2> DEFINE Bad == {i \in 0 .. n : g[i] # f[i]}
    <2>1. SUFFICES ASSUME Bad # {} PROVE FALSE
        OBVIOUS
    <2>2. PICK i \in Bad : \A m \in Bad : i <= m
        <3>1. Bad \in SUBSET Nat
            BY <1>2
        <3> HIDE DEF Bad
        <3> QED BY <2>1, <3>1, Smallest
    <2>3. i \in 0 .. n /\ i # 0
        BY <1>2, <1>5, <1>6, <2>2
    <2>4. i - 1 \in 0 .. n /\ g[i - 1] = f[i - 1]
        BY <1>2, <2>2, <2>3
    <2>5. i \in 1 .. n /\ i \in 0 .. n + 1 /\ e[i] = edit[i]
        BY <1>2, <2>3
    <2> QED BY <1>5, <1>6, <2>2, <2>3, <2>4, <2>5
<1>8. n \in 0 .. n /\ n + 1 \in 0 .. n + 1 /\ n + 1 # 0 /\ n + 1 - 1 = n
    BY <1>2
<1>9. Rebuild(list, e) = g[n] \o Piece(list, op)
    <2>1. PICK k : k = n + 1
        OBVIOUS
    <2>2. k \in 0 .. n + 1 /\ k # 0
        BY <1>8, <2>1, Zenon
    <2>3. g[k] = g[k - 1] \o Piece(list, e[k])
        BY <1>6, <2>2, Zenon
    <2>4. k - 1 = n /\ e[k] = op /\ Rebuild(list, e) = g[k]
        <3>1. k - 1 = n
            BY <1>2, <2>1
        <3> QED BY <1>2, <1>4, <2>1, <3>1, Zenon
    <2> QED BY <2>3, <2>4, Zenon
<1> QED BY <1>1, <1>3, <1>7, <1>8, <1>9

-----------------------------------------------------------------------------
(* Ranges of lists.                                                        *)

\* Two neighbouring ranges make one.
LEMMA RangesJoin ==
    ASSUME NEW T, NEW s \in Seq(T), NEW c \in 0 .. Len(s), NEW n \in Nat, c + n <= Len(s)
    PROVE  SubSeq(s, 1, c) \o SubSeq(s, c + 1, c + n) = SubSeq(s, 1, c + n)
<1>1. Len(s) \in Nat /\ c \in Nat
    BY LenProperties
<1>2. PICK u, v, w : u = SubSeq(s, 1, c) /\ v = SubSeq(s, c + 1, c + n) /\ w = SubSeq(s, 1, c + n)
    OBVIOUS
<1>3. u \in Seq(T) /\ Len(u) = c /\ \A i \in 1 .. c : u[i] = s[i]
    BY <1>1, <1>2, SubSeqProperties
<1>4. v \in Seq(T) /\ Len(v) = n /\ \A i \in 1 .. n : v[i] = s[c + i]
    BY <1>1, <1>2, SubSeqProperties
<1>5. w \in Seq(T) /\ Len(w) = c + n /\ \A i \in 1 .. c + n : w[i] = s[i]
    BY <1>1, <1>2, SubSeqProperties
<1>6. u \o v \in Seq(T) /\ Len(u \o v) = c + n
    BY <1>1, <1>3, <1>4, ConcatProperties
<1>7. ASSUME NEW i \in 1 .. c + n PROVE (u \o v)[i] = w[i]
    <2>1. CASE i <= c
        BY <1>1, <1>3, <1>4, <1>5, <2>1, ConcatProperties
    <2>2. CASE ~ (i <= c)
        <3>1. i - c \in 1 .. n /\ c + (i - c) = i /\ i \in c + 1 .. c + n
            BY <1>1, <2>2
        <3>2. (u \o v)[i] = v[i - c]
            BY <1>3, <1>4, <3>1, ConcatProperties
        <3> QED BY <1>4, <1>5, <3>1, <3>2
    <2> QED BY <2>1, <2>2, Zenon
<1> QED BY <1>1, <1>2, <1>5, <1>6, <1>7, SeqEqual

-----------------------------------------------------------------------------
(* The two rounds.                                                         *)

\* The run both lists share ends somewhere, and is not empty.
LEMMA RunFound ==
    ASSUME IInv, NEW a \in DOMAIN before, cursor < Len(after), before[a] = after[cursor + 1]
    PROVE  /\ RunLength(a) \in Nat \ {0}
           /\ cursor + RunLength(a) <= Len(after) /\ a + RunLength(a) - 1 <= Len(before)
           /\ \A i \in 1 .. RunLength(a) : before[a + i - 1] = after[cursor + i]
<1> DEFINE same(n) == /\ cursor + n <= Len(after) /\ a + n - 1 <= Len(before)
                      /\ before[a + n - 1] = after[cursor + n]
           Ends(n) == (\A i \in 1 .. n : same(i)) /\ ~ same(n + 1)
           Bad == {n \in Nat : n # 0 /\ ~ same(n)}
<1>1. Len(before) \in Nat /\ Len(after) \in Nat /\ cursor \in Nat /\ a \in 1 .. Len(before)
    BY LenProperties DEF IInv
<1>2. same(1)
    BY <1>1
<1>3. Len(after) + 1 \in Bad
    BY <1>1
<1>4. PICK m \in Bad : \A k \in Bad : m <= k
    <2>1. Bad \in SUBSET Nat /\ Bad # {}
        BY <1>3
    <2> HIDE DEF Bad
    <2> QED BY <2>1, Smallest
<1>5. m \in Nat /\ m # 0 /\ m # 1 /\ m <= Len(after) + 1 /\ ~ same(m)
    BY <1>2, <1>3, <1>4
<1>6. \A i \in 1 .. m - 1 : same(i)
    <2> SUFFICES ASSUME NEW i \in 1 .. m - 1 PROVE same(i)
        OBVIOUS
    <2>1. i \in Nat /\ i # 0 /\ ~ (m <= i)
        BY <1>5
    <2> HIDE DEF same
    <2> QED BY <1>4, <2>1
<1>7. m - 1 \in 1 .. Len(after) /\ Ends(m - 1)
    <2>1. m - 1 \in 1 .. Len(after) /\ m - 1 + 1 = m
        BY <1>1, <1>5
    <2> HIDE DEF same
    <2> QED BY <1>5, <1>6, <2>1
<1>8. PICK n \in 1 .. Len(after) : n = RunLength(a) /\ Ends(n)
    <2>1. RunLength(a) = CHOOSE n \in 1 .. Len(after) : Ends(n)
        BY DEF RunLength
    <2> HIDE DEF Ends
    <2> QED BY <1>7, <2>1
<1>9. n \in Nat \ {0} /\ n \in 1 .. n /\ \A i \in 1 .. n : same(i)
    BY <1>1, <1>8
<1> QED BY <1>8, <1>9

\* The literals end before an identifier of the old list, or at the end.
LEMMA LiteralsFound ==
    ASSUME IInv, cursor < Len(after), ~ Contains(before, after[cursor + 1])
    PROVE  LiteralLength \in Nat \ {0} /\ cursor + LiteralLength <= Len(after)
<1> DEFINE Stop(n) == cursor + n = Len(after) \/ Contains(before, after[cursor + n + 1])
           Ends(n) == (\A i \in cursor + 1 .. cursor + n : ~ Contains(before, after[i])) /\ Stop(n)
           Good == {n \in 1 .. Len(after) - cursor : Stop(n)}
<1>1. Len(after) \in Nat /\ cursor \in Nat
    BY LenProperties DEF IInv
<1>2. Len(after) - cursor \in Good
    BY <1>1
<1>3. PICK m \in Good : \A k \in Good : m <= k
    <2>1. Good \in SUBSET Nat /\ Good # {}
        BY <1>1, <1>2
    <2> HIDE DEF Good
    <2> QED BY <2>1, Smallest
<1>4. \A i \in cursor + 1 .. cursor + m : ~ Contains(before, after[i])
    <2> SUFFICES ASSUME NEW i \in cursor + 1 .. cursor + m, i # cursor + 1
                 PROVE  ~ Contains(before, after[i])
        OBVIOUS
    <2>1. PICK k : k = i - cursor - 1
        OBVIOUS
    <2>2. k \in 1 .. Len(after) - cursor /\ ~ (m <= k) /\ cursor + k + 1 = i
        BY <1>1, <1>3, <2>1
    <2>3. ~ Stop(k)
        <3> HIDE DEF Stop
        <3> QED BY <1>3, <2>2
    <2> QED BY <2>2, <2>3
<1>5. PICK n \in 1 .. Len(after) - cursor : n = LiteralLength /\ Ends(n)
    <2>1. LiteralLength = CHOOSE n \in 1 .. Len(after) - cursor : Ends(n)
        BY DEF LiteralLength
    <2>2. m \in 1 .. Len(after) - cursor /\ Ends(m)
        BY <1>3, <1>4
    <2> HIDE DEF Ends
    <2> QED BY <2>1, <2>2
<1> QED BY <1>1, <1>5

\* A round that describes the next n identifiers keeps the invariant.
LEMMA EmitKeeps ==
    ASSUME IInv, NEW op \in Operations, NEW n \in Nat \ {0}, cursor + n <= Len(after),
           verdict = "run", Piece(before, op) = SubSeq(after, cursor + 1, cursor + n), Emit(op, n)
    PROVE  IInv'
<1>1. Len(after) \in Nat /\ cursor \in Nat /\ cursor \in 0 .. Len(after) /\ n \in Nat
    BY LenProperties DEF IInv
<1>2. ops' = Append(ops, op) /\ cursor' = cursor + n /\ UNCHANGED <<before, after, verdict>>
    BY DEF Emit
<1>3. Rebuild(before, ops') = SubSeq(after, 1, cursor')
    <2>1. Rebuild(before, Append(ops, op)) = SubSeq(after, 1, cursor) \o SubSeq(after, cursor + 1, cursor + n)
        <3>1. Rebuild(before, Append(ops, op)) = Rebuild(before, ops) \o Piece(before, op)
            BY RebuildAppend DEF IInv
        <3> QED BY <3>1 DEF IInv
    <2>2. SubSeq(after, 1, cursor) \o SubSeq(after, cursor + 1, cursor + n) = SubSeq(after, 1, cursor + n)
        BY <1>1, RangesJoin DEF IInv
    <2> QED BY <1>2, <2>1, <2>2
<1>4. ops' \in Seq(Operations) /\ cursor' \in 0 .. Len(after)
    <2>1. ops' \in Seq(Operations)
        BY <1>2, AppendProperties DEF IInv
    <2> QED BY <1>1, <1>2, <2>1
<1>5. GivesUpOnlyOnBadLists'
    BY <1>2 DEF GivesUpOnlyOnBadLists
<1> QED BY <1>2, <1>3, <1>4, <1>5 DEF IInv

\* A round gives up at an identifier that is blank or came before.
LEMMA GiveUpKeeps ==
    ASSUME IInv, NEW n \in Nat, cursor + n <= Len(after), ~ AllNew(cursor + 1, cursor + n), GiveUp
    PROVE  IInv'
<1>1. Len(after) \in Nat /\ cursor \in Nat
    BY LenProperties DEF IInv
<1>2. ~ Indexable(after)
    <2>1. PICK i \in cursor + 1 .. cursor + n : \/ after[i] = Blank
                                                \/ \E j \in 1 .. i - 1 : after[j] = after[i]
        BY DEF AllNew
    <2>2. i \in 1 .. Len(after) /\ DOMAIN after = 1 .. Len(after)
        BY <1>1 DEF IInv
    <2>3. CASE after[i] = Blank
        BY <2>2, <2>3 DEF Indexable, Contains
    <2>4. ASSUME NEW j \in 1 .. i - 1, after[j] = after[i] PROVE ~ IsInjective(after)
        <3>1. j \in DOMAIN after /\ i \in DOMAIN after /\ j # i
            BY <1>1, <2>2
        <3> QED BY <2>4, <3>1 DEF IsInjective
    <2> QED BY <2>1, <2>3, <2>4 DEF Indexable
<1>3. verdict' = "none" /\ UNCHANGED <<before, after, cursor, ops>>
    BY DEF GiveUp
<1>4. GivesUpOnlyOnBadLists'
    BY <1>2, <1>3 DEF GivesUpOnlyOnBadLists, Indexable
<1> QED BY <1>3, <1>4 DEF IInv

\* A round that copies a run of the old list keeps the invariant.
LEMMA CopyKeeps == ASSUME IInv, CopyRound PROVE IInv'
<1>1. verdict = "run" /\ cursor < Len(after) /\ Contains(before, after[cursor + 1])
    BY DEF CopyRound, Working
<1>2. PICK a, n : /\ a = CHOOSE i \in DOMAIN before : before[i] = after[cursor + 1]
                  /\ n = RunLength(a)
    OBVIOUS
<1>3. a \in DOMAIN before /\ before[a] = after[cursor + 1]
    <2>1. \E i \in DOMAIN before : before[i] = after[cursor + 1]
        <3>1. DOMAIN before = 1 .. Len(before)
            BY DEF IInv
        <3> QED BY <1>1, <3>1 DEF Contains
    <2> QED BY <1>2, <2>1
<1>4. PICK op : op = [copy |-> TRUE, start |-> a, count |-> n]
    OBVIOUS
<1>5. \/ AllNew(cursor + 1, cursor + n) /\ Emit(op, n)
      \/ ~ AllNew(cursor + 1, cursor + n) /\ GiveUp
    BY <1>2, <1>4, Zenon DEF CopyRound
<1>6. /\ n \in Nat \ {0} /\ cursor + n <= Len(after) /\ a + n - 1 <= Len(before)
      /\ \A i \in 1 .. n : before[a + i - 1] = after[cursor + i]
    BY <1>1, <1>2, <1>3, RunFound
<1>7. a \in Nat \ {0} /\ cursor \in Nat
    BY <1>3, LenProperties DEF IInv
<1>8. op \in Operations
    BY <1>4, <1>6, <1>7 DEF Operations
<1>9. Piece(before, op) = SubSeq(after, cursor + 1, cursor + n)
    <2>1. Piece(before, op) = SubSeq(before, a, a + n - 1)
        BY <1>4 DEF Piece
    <2>2. SubSeq(before, a, a + n - 1) = SubSeq(after, cursor + 1, cursor + n)
        <3>1. Len(before) \in Nat /\ Len(after) \in Nat /\ before \in Seq(Id) /\ after \in Seq(Id)
            BY LenProperties DEF IInv
        <3>2. PICK u, v : /\ u = SubSeq(before, a, a + n - 1)
                          /\ v = SubSeq(after, cursor + 1, cursor + n)
            OBVIOUS
        <3>3. u \in Seq(Id) /\ Len(u) = n /\ \A i \in 1 .. n : u[i] = before[a + i - 1]
            BY <1>6, <1>7, <3>1, <3>2, SubSeqProperties
        <3>4. v \in Seq(Id) /\ Len(v) = n /\ \A i \in 1 .. n : v[i] = after[cursor + i]
            BY <1>6, <1>7, <3>1, <3>2, SubSeqProperties
        <3>5. u = v
            BY <1>6, <3>3, <3>4, SeqEqual
        <3> QED BY <3>2, <3>5
    <2> QED BY <2>1, <2>2
<1>10. CASE AllNew(cursor + 1, cursor + n) /\ Emit(op, n)
    BY <1>1, <1>6, <1>8, <1>9, <1>10, EmitKeeps
<1>11. CASE ~ AllNew(cursor + 1, cursor + n) /\ GiveUp
    BY <1>6, <1>11, GiveUpKeeps
<1> QED BY <1>5, <1>10, <1>11

\* A round that spells identifiers out keeps the invariant.
LEMMA LiteralKeeps == ASSUME IInv, LiteralRound PROVE IInv'
<1>1. verdict = "run" /\ cursor < Len(after) /\ ~ Contains(before, after[cursor + 1])
    BY DEF LiteralRound, Working
<1>2. PICK n, ids, op : /\ n = LiteralLength
                        /\ ids = SubSeq(after, cursor + 1, cursor + n)
                        /\ op = [copy |-> FALSE, ids |-> ids]
    OBVIOUS
<1>3. \/ AllNew(cursor + 1, cursor + n) /\ Emit(op, n)
      \/ ~ AllNew(cursor + 1, cursor + n) /\ GiveUp
    BY <1>2, Zenon DEF LiteralRound
<1>4. n \in Nat \ {0} /\ cursor + n <= Len(after)
    BY <1>1, <1>2, LiteralsFound
<1>5. ids \in Seq(Id)
    <2>1. Len(after) \in Nat /\ cursor \in Nat /\ after \in Seq(Id)
        BY LenProperties DEF IInv
    <2>2. \A i \in cursor + 1 .. cursor + n : after[i] \in Id
        BY <1>4, <2>1
    <2> QED BY <1>2, <1>4, <2>1, <2>2, SubSeqProperties
<1>6. op \in Operations /\ Piece(before, op) = ids
    BY <1>2, <1>5 DEF Operations, Piece
<1>7. CASE AllNew(cursor + 1, cursor + n) /\ Emit(op, n)
    BY <1>1, <1>2, <1>4, <1>6, <1>7, EmitKeeps
<1>8. CASE ~ AllNew(cursor + 1, cursor + n) /\ GiveUp
    BY <1>4, <1>8, GiveUpKeeps
<1> QED BY <1>3, <1>7, <1>8

\* The operations so far rebuild what the cursor has passed, and a round gives
\* up only on an identifier that cannot be described.
THEOREM Inductive == Spec => []IInv
<1>1. Init => IInv
    <2> SUFFICES ASSUME Init PROVE IInv
        OBVIOUS
    <2>1. before \in Seq(Id) /\ after \in Seq(Id)
        <3>1. \A s \in Lists : s \in Seq(Id)
            BY DEF Lists, Id
        <3> QED BY <3>1 DEF Init
    <2>2. ops = <<>> /\ cursor = 0 /\ verdict = "run"
        BY DEF Init
    <2>3. Rebuild(before, ops) = <<>>
        BY <2>2, RebuildNothing
    <2>4. SubSeq(after, 1, cursor) = <<>>
        BY <2>2, SubSeqEmpty
    <2>5. cursor \in 0 .. Len(after) /\ ops \in Seq(Operations)
        BY <2>1, <2>2, LenProperties
    <2> QED BY <2>1, <2>2, <2>3, <2>4, <2>5 DEF IInv, GivesUpOnlyOnBadLists
<1>2. IInv /\ [Next]_vars => IInv'
    <2> SUFFICES ASSUME IInv, [Next]_vars PROVE IInv'
        OBVIOUS
    <2>1. CASE Reject
        <3>1. verdict' = "none" /\ Rejected /\ UNCHANGED <<before, after, cursor, ops>>
            BY <2>1 DEF Reject, GiveUp
        <3>2. Rejected'
            BY <3>1 DEF Rejected, Indexable
        <3> QED BY <3>1, <3>2 DEF IInv, GivesUpOnlyOnBadLists
    <2>2. CASE Measure
        <3>1. /\ verdict' \in {"edit", "none"} /\ cursor = Len(after)
              /\ UNCHANGED <<before, after, cursor, ops>>
            BY <2>2 DEF Measure
        <3>2. ~ (cursor < Len(after))
            BY <3>1, LenProperties DEF IInv
        <3> QED BY <3>1, <3>2 DEF IInv, GivesUpOnlyOnBadLists
    <2>3. CASE UNCHANGED vars
        <3>1. UNCHANGED <<before, after, cursor, ops, verdict>>
            BY <2>3 DEF vars
        <3> QED BY <3>1 DEF IInv, GivesUpOnlyOnBadLists, Rejected, Indexable
    <2> QED BY <2>1, <2>2, <2>3, CopyKeeps, LiteralKeeps DEF Next
<1> QED BY <1>1, <1>2, PTL DEF Spec

\* An edit that is sent rebuilds the new list from the reader's old one, for
\* lists of any length, blank and repeated identifiers included
\* (sequence_edit).
THEOREM Rebuilds == Spec => []EditRebuildsTheList
<1>1. IInv => EditRebuildsTheList
    <2> SUFFICES ASSUME IInv, verdict = "edit" PROVE SubSeq(after, 1, cursor) = after
        BY DEF IInv, EditRebuildsTheList
    <2>1. cursor = Len(after) /\ after \in Seq(Id)
        BY DEF IInv
    <2>2. Len(after) \in Nat
        BY <2>1, LenProperties
    <2>3. PICK s : s = SubSeq(after, 1, Len(after))
        OBVIOUS
    <2>4. s \in Seq(Id) /\ Len(s) = Len(after) /\ \A i \in 1 .. Len(after) : s[i] = after[i]
        BY <2>1, <2>2, <2>3, SubSeqProperties
    <2>5. s = after
        BY <2>1, <2>4, SeqEqual
    <2> QED BY <2>1, <2>3, <2>5
<1> QED BY <1>1, Inductive, PTL

\* No list of distinct identifiers, none of them blank, is given up half-way.
THEOREM DescribesEveryGoodList == Spec => []GivesUpOnlyOnBadLists
<1>1. IInv => GivesUpOnlyOnBadLists
    BY DEF IInv
<1> QED BY <1>1, Inductive, PTL

=============================================================================
