--------------------------- MODULE SequenceLemmas ---------------------------
(***************************************************************************)
(* Induction and recursion over data. The theorems of the library on it     *)
(* take an operator; here a set or a function is in its place. With them:    *)
(* what FlattenSeq, a recursive function, makes of sequences put together.   *)
(***************************************************************************)
EXTENDS Integers, Sequences, SequencesExt, SequenceTheorems, WellFoundedInduction, TLAPS

(* Induction, with a set in place of the predicate.                         *)
LEMMA Induction ==
    ASSUME NEW P, NEW n \in Nat, 0 \in P, \A k \in 0..n : k \in P => k = n \/ k + 1 \in P
    PROVE  0..n \subseteq P
<1> DEFINE Below == {ss \in Nat \X Nat : ss[1] < ss[2]}
           S == {k \in 0..n : k \notin P}
<1>1. IsWellFoundedOn(Below, Nat)
  BY NatLessThanWellFounded DEF OpToRel
<1>2. \A j, i \in Nat : j < i => <<j, i>> \in Below
  OBVIOUS
<1>3. S \subseteq Nat
  OBVIOUS
<1> HIDE DEF Below
<1>4. ASSUME S # {} PROVE FALSE
  <2>1. PICK i \in S : \A j \in S : ~(<<j, i>> \in Below)
    <3> HIDE DEF S
    <3>1. QED BY <1>1, <1>3, <1>4, WFMin
  <2>2. i \in 1..n /\ i - 1 \in 0..n /\ i - 1 < i
    OBVIOUS
  <2>3. i - 1 \in P
    <3>1. i - 1 \in Nat /\ i \in Nat
      BY <2>2
    <3>2. <<i - 1, i>> \in Below
      BY <3>1, <2>2, <1>2
    <3>3. QED BY <2>1, <2>2, <3>2
  <2>4. i \in P
    BY <2>2, <2>3
  <2>5. QED BY <2>4
<1>5. QED BY <1>4

(* Recursion, with a function in place of the operator.                     *)
Recurs(f, n, a, step) == f[0] = a /\ \A i \in 1..n : f[i] = step[<<i, f[i - 1]>>]

LEMMA Recursion ==
    ASSUME NEW n \in Nat, NEW S, NEW a \in S, NEW step \in [(1..n) \X S -> S]
    PROVE  \E f \in [0..n -> S] : Recurs(f, n, a, step)
<1> DEFINE Upto(k) == {f \in [0..k -> S] : Recurs(f, k, a, step)}
           P == {k \in 0..n : Upto(k) # {}}
<1>1. 0 \in P
  <2>1. [i \in 0..0 |-> a] \in Upto(0)
    BY DEF Recurs
  <2>2. QED BY <2>1
<1>2. ASSUME NEW k \in 0..n, k \in P, k # n PROVE k + 1 \in P
  <2>1. PICK f \in [0..k -> S] : f[0] = a /\ \A i \in 1..k : f[i] = step[<<i, f[i - 1]>>]
    BY <1>2 DEF Recurs
  <2> DEFINE g == [i \in 0..k + 1 |-> IF i = k + 1 THEN step[<<k + 1, f[k]>>] ELSE f[i]]
  <2>2. k + 1 \in 1..n /\ k \in 0..k /\ <<k + 1, f[k]>> \in (1..n) \X S
    BY <1>2
  <2>3. step[<<k + 1, f[k]>>] \in S
    BY <2>2
  <2>4. g \in [0..k + 1 -> S]
    BY <2>3
  <2>5. g[0] = a
    BY <2>1
  <2>6. ASSUME NEW i \in 1..k + 1 PROVE g[i] = step[<<i, g[i - 1]>>]
    <3>1. i - 1 \in 0..k /\ i - 1 # k + 1
      BY <1>2
    <3>2. g[i - 1] = f[i - 1]
      BY <3>1
    <3>3. CASE i = k + 1
      <4>1. i - 1 = k /\ g[i] = step[<<k + 1, f[k]>>]
        BY <1>2, <3>3
      <4>2. QED BY <3>2, <3>3, <4>1
    <3>4. CASE i # k + 1
      BY <1>2, <2>1, <3>2, <3>4
    <3>5. QED BY <3>3, <3>4
  <2> HIDE DEF g
  <2>7. g \in Upto(k + 1)
    BY <2>4, <2>5, <2>6 DEF Recurs
  <2>8. QED BY <1>2, <2>2, <2>7
<1>3. n \in P
  <2> HIDE DEF P
  <2>1. QED BY <1>1, <1>2, Induction
<1>4. QED BY <1>3

(* FlattenSeq: its recursive function, and what one more sequence adds.     *)
Flattens(f, seqs) == f = [i \in 1..Len(seqs) |-> IF i = 1 THEN seqs[i] ELSE f[i - 1] \o seqs[i]]

LEMMA Flattening ==
    ASSUME NEW T, NEW seqs \in Seq(Seq(T))
    PROVE  \E f \in [1..Len(seqs) -> Seq(T)] : Flattens(f, seqs)
<1> DEFINE n == Len(seqs)
           step == [x \in (1..n) \X Seq(T) |-> IF x[1] = 1 THEN seqs[x[1]] ELSE x[2] \o seqs[x[1]]]
<1>1. n \in Nat /\ \A i \in 1..n : seqs[i] \in Seq(T)
  BY LenProperties, ElementOfSeq
<1>2. step \in [(1..n) \X Seq(T) -> Seq(T)]
  <2>1. \A i \in 1..n, s \in Seq(T) : s \o seqs[i] \in Seq(T)
    BY <1>1, ConcatProperties
  <2>2. QED BY <1>1, <2>1
<1>3. <<>> \in Seq(T)
  OBVIOUS
<1>4. \A i \in 1..n, s \in Seq(T) : step[<<i, s>>] = IF i = 1 THEN seqs[i] ELSE s \o seqs[i]
  OBVIOUS
<1> HIDE DEF step, n
<1>5. PICK g \in [0..n -> Seq(T)] : g[0] = <<>> /\ \A i \in 1..n : g[i] = step[<<i, g[i - 1]>>]
  <2>1. PICK S : S = Seq(T)
    OBVIOUS
  <2>2. \E g \in [0..n -> S] : Recurs(g, n, <<>>, step)
    BY <1>1, <1>2, <1>3, <2>1, Recursion
  <2>3. QED BY <2>1, <2>2 DEF Recurs
<1> DEFINE f == [i \in 1..n |-> g[i]]
<1>6. ASSUME NEW i \in 1..n PROVE f[i] = IF i = 1 THEN seqs[i] ELSE f[i - 1] \o seqs[i]
  <2>1. i \in Nat /\ i - 1 \in 0..n /\ (i # 1 => i - 1 \in 1..n)
    BY <1>1
  <2>2. f[i] = step[<<i, g[i - 1]>>] /\ g[i - 1] \in Seq(T)
    BY <1>5, <2>1
  <2>3. i # 1 => f[i - 1] = g[i - 1]
    BY <2>1
  <2>4. QED BY <1>4, <2>2, <2>3
<1>7. f \in [1..n -> Seq(T)] /\ Flattens(f, seqs)
  <2>1. f \in [1..n -> Seq(T)]
    BY <1>1
  <2>2. f = [i \in 1..n |-> IF i = 1 THEN seqs[i] ELSE f[i - 1] \o seqs[i]]
    BY <1>6
  <2>3. QED BY <2>1, <2>2 DEF Flattens, n
<1>8. QED BY <1>7 DEF n

(* There is only one such function.                                         *)
Agree(s, t, n) == \A i \in 1..n : s[i] = t[i]

LEMMA SameFlattening ==
    ASSUME NEW s, NEW t, NEW n \in Nat, n <= Len(s), n <= Len(t), Len(s) \in Nat, Len(t) \in Nat,
           Agree(s, t, n),
           NEW f, NEW g, Flattens(f, s), Flattens(g, t)
    PROVE  Agree(f, g, n)
<1> DEFINE P == {k \in 0..n : k > 0 => f[k] = g[k]}
<1>1. 0 \in P
  OBVIOUS
<1>2. ASSUME NEW k \in 0..n, k \in P, k # n PROVE k + 1 \in P
  <2>1. k + 1 \in 1..n /\ k + 1 \in 1..Len(s) /\ k + 1 \in 1..Len(t) /\ (k + 1) - 1 = k
    BY <1>2
  <2>2. f[k + 1] = IF k + 1 = 1 THEN s[k + 1] ELSE f[k] \o s[k + 1]
    BY <2>1 DEF Flattens
  <2>3. g[k + 1] = IF k + 1 = 1 THEN t[k + 1] ELSE g[k] \o t[k + 1]
    BY <2>1 DEF Flattens
  <2>4. QED BY <1>2, <2>1, <2>2, <2>3 DEF Agree
<1>3. 0..n \subseteq P
  <2> HIDE DEF P
  <2>1. QED BY <1>1, <1>2, Induction
<1>4. QED BY <1>3 DEF Agree

LEMMA FlattenSeqIs ==
    ASSUME NEW T, NEW seqs \in Seq(Seq(T)), Len(seqs) # 0
    PROVE  \E f \in [1..Len(seqs) -> Seq(T)] : Flattens(f, seqs) /\ FlattenSeq(seqs) = f[Len(seqs)]
<1> DEFINE n == Len(seqs)
           F == CHOOSE f : Flattens(f, seqs)
<1>1. n \in Nat
  BY LenProperties
<1>2. PICK f \in [1..n -> Seq(T)] : Flattens(f, seqs)
  BY Flattening
<1>3. Flattens(F, seqs)
  BY <1>2
<1>4. FlattenSeq(seqs) = F[n]
  BY DEF FlattenSeq, Flattens
<1> HIDE DEF F
<1>5. F[n] = f[n]
  <2>1. \A i \in 1..n : F[i] = f[i]
    BY <1>1, <1>2, <1>3, SameFlattening DEF Agree
  <2>2. QED BY <1>1, <2>1
<1>6. QED BY <1>2, <1>4, <1>5

LEMMA FlattenEmpty ==
    ASSUME NEW seqs, Len(seqs) = 0 PROVE FlattenSeq(seqs) = seqs
BY DEF FlattenSeq

LEMMA FlattenType ==
    ASSUME NEW T, NEW seqs \in Seq(Seq(T))
    PROVE  FlattenSeq(seqs) \in Seq(T)
<1>1. CASE Len(seqs) = 0
  BY <1>1, FlattenEmpty, EmptySeq
<1>2. CASE Len(seqs) # 0
  <2>1. Len(seqs) \in 1..Len(seqs)
    BY <1>2, LenProperties
  <2>2. PICK f \in [1..Len(seqs) -> Seq(T)] : FlattenSeq(seqs) = f[Len(seqs)]
    BY <1>2, FlattenSeqIs
  <2>3. QED BY <2>1, <2>2
<1>3. QED BY <1>1, <1>2

LEMMA FlattenAppend ==
    ASSUME NEW T, NEW seqs \in Seq(Seq(T)), NEW s \in Seq(T)
    PROVE  FlattenSeq(Append(seqs, s)) = FlattenSeq(seqs) \o s
<1> DEFINE n == Len(seqs)
           more == Append(seqs, s)
<1>1. n \in Nat /\ more \in Seq(Seq(T)) /\ Len(more) = n + 1 /\ more[n + 1] = s
      /\ \A i \in 1..n : more[i] = seqs[i]
  BY LenProperties, AppendProperties
<1> HIDE DEF more
<1>2. PICK g \in [1..n + 1 -> Seq(T)] : Flattens(g, more) /\ FlattenSeq(more) = g[n + 1]
  BY <1>1, FlattenSeqIs
<1>3. g[n + 1] = IF n + 1 = 1 THEN s ELSE g[n] \o s
  <2>1. n + 1 \in 1..Len(more) /\ (n + 1) - 1 = n
    BY <1>1
  <2>2. QED BY <1>1, <1>2, <2>1 DEF Flattens
<1>4. CASE n = 0
  <2>1. seqs = <<>> /\ FlattenSeq(seqs) = seqs
    BY <1>4, FlattenEmpty, EmptySeq
  <2>2. <<>> \o s = s
    BY ConcatEmptySeq
  <2>3. QED BY <1>2, <1>3, <1>4, <2>1, <2>2 DEF more
<1>5. CASE n # 0
  <2>1. PICK f \in [1..n -> Seq(T)] : Flattens(f, seqs) /\ FlattenSeq(seqs) = f[n]
    BY <1>5, FlattenSeqIs
  <2>2. \A i \in 1..n : f[i] = g[i]
    <3>1. n <= n + 1 /\ n + 1 \in Nat /\ n <= n
      BY <1>1
    <3>2. Len(more) \in Nat /\ n <= Len(more) /\ n <= Len(seqs) /\ Len(seqs) \in Nat
      BY <1>1, <3>1
    <3>3. Agree(seqs, more, n)
      BY <1>1 DEF Agree
    <3> HIDE DEF n
    <3>4. Agree(f, g, n)
      BY <1>1, <1>2, <2>1, <3>2, <3>3, SameFlattening
    <3>5. QED BY <3>4 DEF Agree
  <2>3. n \in 1..n /\ n + 1 # 1
    BY <1>1, <1>5
  <2>4. QED BY <1>2, <1>3, <2>1, <2>2, <2>3 DEF more
<1>6. QED BY <1>4, <1>5

LEMMA Associative ==
    ASSUME NEW T, NEW a \in Seq(T), NEW b \in Seq(T), NEW c \in Seq(T)
    PROVE  (a \o b) \o c = a \o (b \o c)
BY ConcatAssociative, SMTT(30)

(* The same under a name of its own, which is what the provers find among   *)
(* many sequences.                                                          *)
ConcatCloses(S) == \A s \in S : \A t \in S : s \o t \in S
Moves(a, b, c) == (a \o b) \o c = a \o (b \o c)

LEMMA SequencesConcat == ASSUME NEW T PROVE ConcatCloses(Seq(T))
BY DEF ConcatCloses

LEMMA Moving ==
    ASSUME NEW T, NEW a \in Seq(T), NEW b \in Seq(T), NEW c \in Seq(T) PROVE Moves(a, b, c)
BY Associative DEF Moves

LEMMA ConcatLength ==
    ASSUME NEW T, NEW a \in Seq(T), NEW b \in Seq(T)
    PROVE  a \o b \in Seq(T) /\ Len(a \o b) = Len(a) + Len(b) /\ Len(a) \in Nat /\ Len(b) \in Nat
OBVIOUS

AppendsLast(s, t, e) == s \o Append(t, e) = Append(s \o t, e)
LEMMA AppendBehind ==
    ASSUME NEW T, NEW s \in Seq(T), NEW t \in Seq(T), NEW e \in T
    PROVE  AppendsLast(s, t, e)
BY DEF AppendsLast

LEMMA FrontAppend ==
    ASSUME NEW T, NEW t \in Seq(T), NEW k \in 0..Len(t) - 1
    PROVE  /\ SubSeq(t, 1, k) \in Seq(T) /\ t[k + 1] \in T
           /\ SubSeq(t, 1, k + 1) = Append(SubSeq(t, 1, k), t[k + 1])
<1>1. k \in Nat /\ k + 1 \in 1..Len(t) /\ Len(t) \in Nat
  BY LenProperties
<1>2. t[k + 1] \in T /\ \A i \in 1..k : t[i] \in T
  BY <1>1, ElementOfSeq
<1>3. SubSeq(t, 1, k) \in Seq(T) /\ Len(SubSeq(t, 1, k)) = k
  BY <1>1, <1>2, SubSeqProperties
<1>4. SubSeq(t, 1, k + 1) = Append(SubSeq(t, 1, k), t[k + 1])
  <2>1. SubSeq(t, 1, k + 1) \in Seq(T) /\ Len(SubSeq(t, 1, k + 1)) = k + 1
    BY <1>1, <1>2
  <2>2. Append(SubSeq(t, 1, k), t[k + 1]) \in Seq(T)
        /\ Len(Append(SubSeq(t, 1, k), t[k + 1])) = k + 1
    BY <1>2, <1>3, AppendProperties
  <2>3. \A i \in 1..k + 1 : SubSeq(t, 1, k + 1)[i] = Append(SubSeq(t, 1, k), t[k + 1])[i]
    BY <1>1, <1>3
  <2>4. QED BY <2>1, <2>2, <2>3, SeqEqual
<1>5. QED BY <1>2, <1>3, <1>4

LEMMA FlattenStep ==
    ASSUME NEW T, NEW s \in Seq(Seq(T)), NEW t \in Seq(Seq(T)), NEW e \in Seq(T),
           FlattenSeq(s \o t) = FlattenSeq(s) \o FlattenSeq(t)
    PROVE  FlattenSeq(s \o Append(t, e)) = FlattenSeq(s) \o FlattenSeq(Append(t, e))
<1>1. s \o Append(t, e) = Append(s \o t, e) /\ s \o t \in Seq(Seq(T))
  <2>1. PICK S : S = Seq(T)
    OBVIOUS
  <2>2. s \in Seq(S) /\ t \in Seq(S) /\ e \in S
    BY <2>1
  <2> HIDE <2>1
  <2>3. s \o Append(t, e) = Append(s \o t, e) /\ s \o t \in Seq(S)
    <3>1. AppendsLast(s, t, e)
      BY <2>2, AppendBehind
    <3>2. s \o t \in Seq(S)
      BY <2>2, ConcatLength
    <3>3. QED BY <3>1, <3>2 DEF AppendsLast
  <2>4. QED BY <2>1, <2>3
<1>2. FlattenSeq(Append(s \o t, e)) = FlattenSeq(s \o t) \o e
  BY <1>1, FlattenAppend
<1>3. FlattenSeq(Append(t, e)) = FlattenSeq(t) \o e
  BY FlattenAppend
<1>4. (FlattenSeq(s) \o FlattenSeq(t)) \o e = FlattenSeq(s) \o (FlattenSeq(t) \o e)
  <2>1. FlattenSeq(s) \in Seq(T) /\ FlattenSeq(t) \in Seq(T)
    BY FlattenType
  <2>2. Moves(FlattenSeq(s), FlattenSeq(t), e)
    BY <2>1, Moving
  <2>3. QED BY <2>2 DEF Moves
<1>5. QED BY <1>1, <1>2, <1>3, <1>4

(* Two sequences of sequences, one behind the other.                        *)
LEMMA FlattenConcat ==
    ASSUME NEW T, NEW s \in Seq(Seq(T)), NEW t \in Seq(Seq(T))
    PROVE  FlattenSeq(s \o t) = FlattenSeq(s) \o FlattenSeq(t)
<1> DEFINE n == Len(t)
           Good(u) == FlattenSeq(s \o u) = FlattenSeq(s) \o FlattenSeq(u)
           P == {k \in 0..n : Good(SubSeq(t, 1, k))}
<1>1. n \in Nat
  BY LenProperties
<1>2. 0 \in P
  <2>1. SubSeq(t, 1, 0) = <<>> /\ FlattenSeq(<<>>) = <<>>
    BY <1>1, FlattenEmpty
  <2>2. s \o <<>> = s /\ FlattenSeq(s) \o <<>> = FlattenSeq(s)
    BY FlattenType, ConcatEmptySeq
  <2>3. Good(SubSeq(t, 1, 0))
    BY <2>1, <2>2
  <2>4. QED BY <1>1, <2>3
<1>3. ASSUME NEW k \in 0..n, k \in P, k # n PROVE k + 1 \in P
  <2>1. k \in 0..Len(t) - 1 /\ k + 1 \in 0..n /\ Good(SubSeq(t, 1, k))
    BY <1>1, <1>3
  <2>2. PICK u \in Seq(Seq(T)), e \in Seq(T) :
           u = SubSeq(t, 1, k) /\ SubSeq(t, 1, k + 1) = Append(u, e)
    <3>1. PICK S : S = Seq(T)
      OBVIOUS
    <3>2. t \in Seq(S)
      BY <3>1
    <3>3. /\ SubSeq(t, 1, k) \in Seq(S) /\ t[k + 1] \in S
          /\ SubSeq(t, 1, k + 1) = Append(SubSeq(t, 1, k), t[k + 1])
      <4> HIDE <3>1
      <4>1. QED BY <2>1, <3>2, FrontAppend
    <3>4. QED BY <3>1, <3>3
  <2>3. Good(u)
    BY <2>1, <2>2
  <2>4. Good(Append(u, e))
    BY <2>3, FlattenStep
  <2>5. Good(SubSeq(t, 1, k + 1))
    BY <2>2, <2>4
  <2> HIDE DEF Good
  <2>6. QED BY <2>1, <2>5
<1>4. n \in P
  <2> HIDE DEF P, n
  <2>1. 0..n \subseteq P
    BY <1>1, <1>2, <1>3, Induction
  <2>2. QED BY <1>1, <2>1
<1>5. SubSeq(t, 1, n) = t
  BY <1>1, SubSeqFull
<1>6. QED BY <1>4, <1>5

LEMMA HeadTailIs ==
    ASSUME NEW T, NEW s \in Seq(T), s # <<>>
    PROVE  s = <<Head(s)>> \o Tail(s)
<1>1. Head(s) \in T /\ Tail(s) \in Seq(T) /\ <<Head(s)>> \in Seq(T)
  BY HeadTailProperties
<1>2. /\ Len(Tail(s)) = Len(s) - 1 /\ Len(s) \in Nat \ {0}
      /\ \A i \in 1..Len(s) - 1 : Tail(s)[i] = s[i + 1]
  BY HeadTailProperties, EmptySeq, LenProperties
<1>3. <<Head(s)>> \o Tail(s) \in Seq(T) /\ Len(<<Head(s)>> \o Tail(s)) = Len(s)
  BY <1>1, <1>2
<1>4. \A i \in 1..Len(s) : s[i] = (<<Head(s)>> \o Tail(s))[i]
  BY <1>1, <1>2
<1>5. QED BY <1>1, <1>3, <1>4, SeqEqual

LEMMA FlattenTail ==
    ASSUME NEW T, NEW seqs \in Seq(Seq(T)), seqs # <<>>
    PROVE  FlattenSeq(seqs) = Head(seqs) \o FlattenSeq(Tail(seqs))
<1>1. /\ Head(seqs) \in Seq(T) /\ Tail(seqs) \in Seq(Seq(T))
      /\ <<Head(seqs)>> \in Seq(Seq(T)) /\ seqs = <<Head(seqs)>> \o Tail(seqs)
  <2>1. Head(seqs) \in Seq(T) /\ Tail(seqs) \in Seq(Seq(T)) /\ <<Head(seqs)>> \in Seq(Seq(T))
    BY HeadTailProperties
  <2>2. /\ Len(Tail(seqs)) = Len(seqs) - 1 /\ Len(seqs) \in Nat \ {0}
        /\ \A i \in 1..Len(seqs) - 1 : Tail(seqs)[i] = seqs[i + 1]
    BY HeadTailProperties, EmptySeq, LenProperties
  <2>3. <<Head(seqs)>> \o Tail(seqs) \in Seq(Seq(T))
        /\ Len(<<Head(seqs)>> \o Tail(seqs)) = Len(seqs)
    BY <2>1, <2>2
  <2>4. \A i \in 1..Len(seqs) : seqs[i] = (<<Head(seqs)>> \o Tail(seqs))[i]
    BY <2>1, <2>2
  <2>5. QED BY <2>1, <2>3, <2>4, SeqEqual
<1>2. FlattenSeq(<<Head(seqs)>>) = Head(seqs)
  <2>1. PICK h \in Seq(T) : h = Head(seqs)
    BY <1>1
  <2>2. <<h>> \in Seq(Seq(T)) /\ Len(<<h>>) = 1 /\ <<h>>[1] = h
    OBVIOUS
  <2>3. PICK one : one = <<h>>
    OBVIOUS
  <2>4. PICK f : Flattens(f, one) /\ FlattenSeq(one) = f[1]
    <3>1. one \in Seq(Seq(T)) /\ Len(one) = 1 /\ Len(one) # 0
      BY <2>2, <2>3
    <3>2. QED BY <3>1, FlattenSeqIs
  <2>5. QED BY <2>1, <2>2, <2>3, <2>4 DEF Flattens
<1>3. QED BY <1>1, <1>2, FlattenConcat

(* What is left of it behind the first k sequences.                         *)
FlattenFrom(seqs, k) == FlattenSeq(SubSeq(seqs, k + 1, Len(seqs)))

LEMMA SuffixTail ==
    ASSUME NEW T, NEW s \in Seq(T), NEW k \in 0..Len(s)
    PROVE  /\ SubSeq(s, k + 1, Len(s)) \in Seq(T)
           /\ k < Len(s) => /\ SubSeq(s, k + 1, Len(s)) # <<>> /\ s[k + 1] \in T
                            /\ Head(SubSeq(s, k + 1, Len(s))) = s[k + 1]
                            /\ Tail(SubSeq(s, k + 1, Len(s))) = SubSeq(s, k + 2, Len(s))
           /\ k = Len(s) => SubSeq(s, k + 1, Len(s)) = <<>>
<1>1. Len(s) \in Nat /\ \A i \in 1..Len(s) : s[i] \in T
  BY LenProperties, ElementOfSeq
<1>2. SubSeq(s, k + 1, Len(s)) \in Seq(T) /\ SubSeq(s, k + 2, Len(s)) \in Seq(T)
  BY <1>1, SubSeqProperties
<1>3. k = Len(s) => SubSeq(s, k + 1, Len(s)) = <<>>
  BY <1>1
<1>4. ASSUME k < Len(s)
      PROVE  /\ SubSeq(s, k + 1, Len(s)) # <<>> /\ s[k + 1] \in T
             /\ Head(SubSeq(s, k + 1, Len(s))) = s[k + 1]
             /\ Tail(SubSeq(s, k + 1, Len(s))) = SubSeq(s, k + 2, Len(s))
  <2> DEFINE u == SubSeq(s, k + 1, Len(s))
             v == SubSeq(s, k + 2, Len(s))
  <2>1. /\ Len(u) = Len(s) - k /\ \A i \in 1..Len(s) - k : u[i] = s[k + i]
        /\ Len(v) = Len(s) - k - 1 /\ \A i \in 1..Len(s) - k - 1 : v[i] = s[k + 1 + i]
    BY <1>1, <1>4
  <2>2. u \in Seq(T) /\ v \in Seq(T)
    BY <1>2
  <2> HIDE DEF u, v
  <2>3. u # <<>> /\ Head(u) = s[k + 1]
    BY <1>1, <1>4, <2>1
  <2>4. /\ Tail(u) \in Seq(T) /\ Len(Tail(u)) = Len(s) - k - 1
        /\ \A i \in 1..Len(s) - k - 1 : Tail(u)[i] = u[i + 1]
    BY <1>1, <2>1, <2>2, <2>3, HeadTailProperties
  <2>5. Tail(u) = v
    <3>1. \A i \in 1..Len(s) - k - 1 : i + 1 \in 1..Len(s) - k /\ k + (i + 1) = k + 1 + i
      BY <1>1
    <3>2. \A i \in 1..Len(Tail(u)) : Tail(u)[i] = v[i]
      BY <2>1, <2>4, <3>1
    <3>3. QED BY <2>1, <2>2, <2>4, <3>2, SeqEqual
  <2>6. s[k + 1] \in T
    BY <1>1, <1>4
  <2>7. QED BY <2>3, <2>5, <2>6 DEF u, v
<1>5. QED BY <1>2, <1>3, <1>4

(* What is left, element by element.                                        *)
LEMMA SuffixIs ==
    ASSUME NEW T, NEW s \in Seq(T), NEW k \in 0..Len(s)
    PROVE  /\ SubSeq(s, k + 1, Len(s)) \in Seq(T)
           /\ Len(SubSeq(s, k + 1, Len(s))) = Len(s) - k
           /\ \A i \in 1..Len(s) - k : SubSeq(s, k + 1, Len(s))[i] = s[k + i]
<1>1. Len(s) \in Nat
  BY LenProperties
<1>2. SubSeq(s, k + 1, Len(s)) \in Seq(T)
  BY SuffixTail
<1>3. \A i \in k + 1..Len(s) : s[i] \in T
  BY <1>1, ElementOfSeq
<1>4. /\ Len(SubSeq(s, k + 1, Len(s))) = IF k + 1 <= Len(s) THEN Len(s) - (k + 1) + 1 ELSE 0
      /\ \A i \in 1..Len(s) - (k + 1) + 1 : SubSeq(s, k + 1, Len(s))[i] = s[(k + 1) + i - 1]
  <2>1. k + 1 \in Int /\ Len(s) \in Int
    BY <1>1
  <2>2. QED BY <1>3, <2>1, SubSeqProperties
<1>5. /\ Len(s) - (k + 1) + 1 = Len(s) - k
      /\ \A i \in 1..Len(s) - k : (k + 1) + i - 1 = k + i
  BY <1>1
<1>6. Len(SubSeq(s, k + 1, Len(s))) = Len(s) - k
  BY <1>1, <1>4
<1>7. QED BY <1>2, <1>4, <1>5, <1>6

LEMMA FlattenFromNext ==
    ASSUME NEW T, NEW s \in Seq(Seq(T)), NEW k \in 0..Len(s)
    PROVE  /\ FlattenFrom(s, k) \in Seq(T)
           /\ k < Len(s) => FlattenFrom(s, k) = s[k + 1] \o FlattenFrom(s, k + 1)
           /\ k = Len(s) => FlattenFrom(s, k) = <<>>
           /\ k = 0 => FlattenFrom(s, k) = FlattenSeq(s)
<1> DEFINE u == SubSeq(s, k + 1, Len(s))
<1>1. /\ u \in Seq(Seq(T))
      /\ k < Len(s) => u # <<>> /\ Head(u) = s[k + 1] /\ Tail(u) = SubSeq(s, k + 2, Len(s))
      /\ k = Len(s) => u = <<>>
  <2>1. PICK S : S = Seq(T)
    OBVIOUS
  <2>2. s \in Seq(S)
    BY <2>1
  <2> HIDE <2>1
  <2>3. /\ u \in Seq(S)
        /\ k < Len(s) => u # <<>> /\ Head(u) = s[k + 1] /\ Tail(u) = SubSeq(s, k + 2, Len(s))
        /\ k = Len(s) => u = <<>>
    BY <2>2, SuffixTail
  <2>4. QED BY <2>1, <2>3
<1>2. k = 0 => u = s
  BY LenProperties, SubSeqFull
<1>3. k + 2 = (k + 1) + 1
  BY LenProperties
<1> HIDE DEF u
<1>4. FlattenSeq(u) \in Seq(T) /\ (u # <<>> => FlattenSeq(u) = Head(u) \o FlattenSeq(Tail(u)))
  BY <1>1, FlattenType, FlattenTail
<1>5. u = <<>> => FlattenSeq(u) = <<>>
  BY FlattenEmpty
<1>6. FlattenFrom(s, k) = FlattenSeq(u)
  BY DEF FlattenFrom, u
<1>7. ASSUME k < Len(s) PROVE FlattenFrom(s, k) = s[k + 1] \o FlattenFrom(s, k + 1)
  BY <1>1, <1>3, <1>4, <1>6, <1>7 DEF FlattenFrom
<1>8. QED BY <1>1, <1>2, <1>4, <1>5, <1>6, <1>7

(* Reading one character of what is left.                                   *)
LEMMA FirstOf ==
    ASSUME NEW T, NEW c \in T, NEW s \in Seq(T)
    PROVE  /\ <<c>> \o s \in Seq(T) /\ <<c>> \o s # <<>>
           /\ Head(<<c>> \o s) = c /\ Tail(<<c>> \o s) = s
<1>1. /\ <<c>> \in Seq(T) /\ Len(<<c>>) = 1 /\ <<c>>[1] = c /\ Len(s) \in Nat
  BY LenProperties
<1>2. PICK h \in Seq(T) : h = <<c>>
  BY <1>1
<1>3. h \o s \in Seq(T) /\ Len(h \o s) = Len(h) + Len(s)
  BY ConcatProperties
<1>4. \A i \in 1..Len(h) + Len(s) : (h \o s)[i] = IF i <= Len(h) THEN h[i] ELSE s[i - Len(h)]
  BY ConcatProperties
<1>5. PICK u \in Seq(T) : u = h \o s
  BY <1>3
<1>6. Len(h) = 1 /\ h[1] = c
  BY <1>1, <1>2
<1>7. Len(u) = 1 + Len(s) /\ \A i \in 1..1 + Len(s) : u[i] = IF i <= 1 THEN h[i] ELSE s[i - 1]
  BY <1>3, <1>4, <1>5, <1>6
<1>8. u # <<>> /\ Head(u) = c
  BY <1>1, <1>6, <1>7
<1>9. Tail(u) \in Seq(T) /\ Len(Tail(u)) = Len(s) /\ \A i \in 1..Len(s) : Tail(u)[i] = u[i + 1]
  BY <1>1, <1>7, <1>8, HeadTailProperties
<1>10. \A i \in 1..Len(s) : Tail(u)[i] = s[i]
  BY <1>1, <1>7, <1>9
<1>11. Tail(u) = s
  BY <1>9, <1>10, SeqEqual
<1>12. QED BY <1>2, <1>5, <1>8, <1>11

(* What is left of a sequence is its next element and what is left then.    *)
LEMMA SuffixHead ==
    ASSUME NEW T, NEW s \in Seq(T), NEW k \in 0..Len(s), k < Len(s)
    PROVE  SubSeq(s, k + 1, Len(s)) = <<s[k + 1]>> \o SubSeq(s, k + 2, Len(s))
<1>1. PICK u \in Seq(T) : u = SubSeq(s, k + 1, Len(s))
  BY SuffixTail
<1>2. u # <<>> /\ Head(u) = s[k + 1] /\ Tail(u) = SubSeq(s, k + 2, Len(s))
  BY <1>1, SuffixTail
<1>3. u = <<Head(u)>> \o Tail(u)
  BY <1>2, HeadTailIs
<1>4. QED BY <1>1, <1>2, <1>3

LEMMA FunctionIsSeq ==
    ASSUME NEW T, NEW n \in Nat, NEW f \in [1..n -> T] PROVE f \in Seq(T) /\ Len(f) = n
OBVIOUS

(* What one sequence behind another is, element by element.                 *)
LEMMA ConcatIs ==
    ASSUME NEW T, NEW a \in Seq(T), NEW b \in Seq(T), NEW c \in Seq(T),
           Len(c) = Len(a) + Len(b), \A i \in 1..Len(a) : c[i] = a[i],
           \A i \in 1..Len(b) : c[Len(a) + i] = b[i]
    PROVE  a \o b = c
<1>1. Len(a) \in Nat /\ Len(b) \in Nat
  BY LenProperties
<1>2. a \o b \in Seq(T) /\ Len(a \o b) = Len(c)
  BY ConcatProperties
<1>3. ASSUME NEW i \in 1..Len(c) PROVE (a \o b)[i] = c[i]
  <2>1. CASE i <= Len(a)
    <3>1. i \in 1..Len(a) /\ (a \o b)[i] = a[i]
      BY <1>1, <2>1
    <3>2. QED BY <3>1
  <2>2. CASE ~(i <= Len(a))
    <3>1. PICK k \in 1..Len(b) : i = Len(a) + k
      <4>1. i - Len(a) \in 1..Len(b) /\ i = Len(a) + (i - Len(a))
        BY <1>1, <2>2
      <4>2. QED BY <4>1
    <3>2. (a \o b)[Len(a) + k] = b[k]
      BY <1>1
    <3>3. QED BY <3>1, <3>2
  <2>3. QED BY <2>1, <2>2
<1>4. QED BY <1>2, <1>3, SeqEqual

(* Two pieces of a sequence that meet.                                      *)
LEMMA PrefixGrows ==
    ASSUME NEW T, NEW s \in Seq(T), NEW r \in Nat, NEW n \in Nat, r + n <= Len(s)
    PROVE  /\ SubSeq(s, 1, r) \o SubSeq(s, r + 1, r + n) = SubSeq(s, 1, r + n)
           /\ Len(SubSeq(s, 1, r)) = r /\ Len(SubSeq(s, 1, r + n)) = r + n
<1>1. Len(s) \in Nat /\ \A i \in 1..r + n : s[i] \in T
  BY LenProperties, ElementOfSeq
<1>2. PICK a \in Seq(T) : a = SubSeq(s, 1, r) /\ Len(a) = r /\ \A i \in 1..r : a[i] = s[i]
  <2>1. /\ SubSeq(s, 1, r) \in Seq(T) /\ Len(SubSeq(s, 1, r)) = r
        /\ \A i \in 1..r : SubSeq(s, 1, r)[i] = s[i]
    BY <1>1
  <2>2. QED BY <2>1
<1>3. PICK b \in Seq(T) :
          b = SubSeq(s, r + 1, r + n) /\ Len(b) = n /\ \A i \in 1..n : b[i] = s[r + i]
  <2>1. /\ r + 1 \in 1..Len(s) + 1 /\ r + n \in r + 1 - 1..Len(s)
        /\ r + n - (r + 1) + 1 = n /\ \A i \in 1..n : r + 1 + i - 1 = r + i
    BY <1>1
  <2>2. /\ SubSeq(s, r + 1, r + n) \in Seq(T)
        /\ Len(SubSeq(s, r + 1, r + n)) = r + n - (r + 1) + 1
        /\ \A i \in 1..r + n - (r + 1) + 1 : SubSeq(s, r + 1, r + n)[i] = s[r + 1 + i - 1]
    BY <2>1, SubSeqProperties
  <2>3. /\ Len(SubSeq(s, r + 1, r + n)) = n
        /\ \A i \in 1..n : SubSeq(s, r + 1, r + n)[i] = s[r + i]
    <3>1. Len(SubSeq(s, r + 1, r + n)) = n
      BY <2>1, <2>2
    <3>2. ASSUME NEW i \in 1..n PROVE SubSeq(s, r + 1, r + n)[i] = s[r + i]
      <4>1. i \in 1..r + n - (r + 1) + 1 /\ r + 1 + i - 1 = r + i
        BY <2>1
      <4>2. QED BY <2>2, <4>1
    <3>3. QED BY <3>1, <3>2
  <2>4. PICK b : b = SubSeq(s, r + 1, r + n)
    OBVIOUS
  <2>5. b \in Seq(T) /\ Len(b) = n /\ \A i \in 1..n : b[i] = s[r + i]
    BY <2>2, <2>3, <2>4
  <2>6. QED BY <2>4, <2>5
<1>4. PICK c \in Seq(T) :
          c = SubSeq(s, 1, r + n) /\ Len(c) = r + n /\ \A i \in 1..r + n : c[i] = s[i]
  <2>1. /\ SubSeq(s, 1, r + n) \in Seq(T) /\ Len(SubSeq(s, 1, r + n)) = r + n
        /\ \A i \in 1..r + n : SubSeq(s, 1, r + n)[i] = s[i]
    BY <1>1
  <2>2. QED BY <2>1
<1>5. a \o b = c
  <2>1. Len(c) = Len(a) + Len(b) /\ \A i \in 1..Len(a) : c[i] = a[i]
    BY <1>2, <1>3, <1>4
  <2>2. \A i \in 1..Len(b) : c[Len(a) + i] = b[i]
    BY <1>2, <1>3, <1>4
  <2>3. QED BY <2>1, <2>2, ConcatIs
<1>6. QED BY <1>2, <1>3, <1>4, <1>5

(* A slice of a sequence, element by element.                               *)
LEMMA SliceIs ==
    ASSUME NEW T, NEW s \in Seq(T), NEW r \in Nat, NEW n \in Nat, r + n <= Len(s)
    PROVE  /\ SubSeq(s, r + 1, r + n) \in Seq(T) /\ Len(SubSeq(s, r + 1, r + n)) = n
           /\ \A i \in 1..n : SubSeq(s, r + 1, r + n)[i] = s[r + i]
<1>1. /\ Len(s) \in Nat /\ r + 1 \in 1..Len(s) + 1 /\ r + n \in r + 1 - 1..Len(s)
      /\ r + n - (r + 1) + 1 = n /\ \A i \in 1..n : r + 1 + i - 1 = r + i
  BY LenProperties
<1>2. /\ SubSeq(s, r + 1, r + n) \in Seq(T)
      /\ Len(SubSeq(s, r + 1, r + n)) = r + n - (r + 1) + 1
      /\ \A i \in 1..r + n - (r + 1) + 1 : SubSeq(s, r + 1, r + n)[i] = s[r + 1 + i - 1]
  BY <1>1, SubSeqProperties
<1>3. Len(SubSeq(s, r + 1, r + n)) = n
  BY <1>1, <1>2
<1>4. ASSUME NEW i \in 1..n PROVE SubSeq(s, r + 1, r + n)[i] = s[r + i]
  <2>1. i \in 1..r + n - (r + 1) + 1 /\ r + 1 + i - 1 = r + i
    BY <1>1
  <2>2. QED BY <1>2, <2>1
<1>5. QED BY <1>2, <1>3, <1>4

\* n elements behind the first r.
Slice(s, r, n) == SubSeq(s, r + 1, r + n)

IsSlice(a, T, s, r, n) == a \in Seq(T) /\ Len(a) = n /\ \A i \in 1..n : a[i] = s[r + i]

LEMMA SliceOf ==
    ASSUME NEW T, NEW s \in Seq(T), NEW r \in Nat, NEW n \in Nat, r + n <= Len(s)
    PROVE  IsSlice(Slice(s, r, n), T, s, r, n)
BY SliceIs DEF Slice, IsSlice

(* A slice cut in two.                                                      *)
LEMMA SliceSplits ==
    ASSUME NEW T, NEW s \in Seq(T), NEW r \in Nat, NEW m \in Nat, NEW n \in Nat,
           r + m + n <= Len(s)
    PROVE  Slice(s, r, m) \o Slice(s, r + m, n) = Slice(s, r, m + n)
<1>1. PICK k \in Nat, w \in Nat : k = r + m /\ w = m + n
  OBVIOUS
<1>2. Len(s) \in Nat /\ r + m <= Len(s) /\ k + n <= Len(s) /\ r + w <= Len(s)
  BY <1>1, LenProperties
<1>3. PICK a, b, c : a = Slice(s, r, m) /\ b = Slice(s, k, n) /\ c = Slice(s, r, w)
  OBVIOUS
<1>4. IsSlice(a, T, s, r, m) /\ IsSlice(b, T, s, k, n) /\ IsSlice(c, T, s, r, w)
  BY <1>2, <1>3, SliceOf
<1>5. /\ a \in Seq(T) /\ Len(a) = m /\ \A i \in 1..m : a[i] = s[r + i]
      /\ b \in Seq(T) /\ Len(b) = n /\ \A i \in 1..n : b[i] = s[k + i]
  BY <1>4 DEF IsSlice
<1>6. c \in Seq(T) /\ Len(c) = w /\ \A i \in 1..w : c[i] = s[r + i]
  BY <1>4 DEF IsSlice
<1>7. a \o b = c
  <2>1. Len(a) = m /\ Len(b) = n /\ Len(c) = m + n
    BY <1>1, <1>5, <1>6
  <2>2. ASSUME NEW i \in 1..m PROVE c[i] = a[i]
    <3>1. i \in 1..w
      BY <1>1
    <3>2. QED BY <1>5, <1>6, <3>1
  <2>3. ASSUME NEW i \in 1..n PROVE c[m + i] = b[i]
    <3>1. m + i \in 1..w /\ r + (m + i) = k + i
      BY <1>1
    <3>2. c[m + i] = s[k + i]
      BY <1>6, <3>1
    <3>3. QED BY <1>5, <3>2
  <2>4. a \in Seq(T) /\ b \in Seq(T) /\ c \in Seq(T)
    BY <1>5, <1>6
  <2>5. QED BY <2>1, <2>2, <2>3, <2>4, ConcatIs
<1>8. QED BY <1>1, <1>3, <1>7

(* The two halves of what was put together.                                 *)
LEMMA HalvesAre ==
    ASSUME NEW T, NEW a \in Seq(T), NEW b \in Seq(T)
    PROVE  /\ SubSeq(a \o b, 1, Len(a)) = a
           /\ SubSeq(a \o b, Len(a) + 1, Len(a \o b)) = b
           /\ Len(a) \in 0..Len(a \o b)
<1>1. PICK m \in Nat, n \in Nat : m = Len(a) /\ n = Len(b)
  BY LenProperties
<1>2. PICK c \in Seq(T) : /\ c = a \o b /\ Len(c) = m + n
                          /\ \A i \in 1..m : c[i] = a[i]
                          /\ \A i \in 1..n : c[m + i] = b[i]
  <2>1. /\ a \o b \in Seq(T) /\ Len(a \o b) = Len(a) + Len(b)
        /\ \A i \in 1..Len(a) + Len(b) :
               (a \o b)[i] = IF i <= Len(a) THEN a[i] ELSE b[i - Len(a)]
    BY ConcatProperties
  <2>2. \A i \in 1..m : (a \o b)[i] = a[i]
    BY <1>1, <2>1
  <2>3. ASSUME NEW i \in 1..n PROVE (a \o b)[m + i] = b[i]
    <3>1. m + i \in 1..m + n /\ ~(m + i <= m) /\ (m + i) - m = i
      BY <1>1
    <3>2. QED BY <1>1, <2>1, <3>1
  <2>4. QED BY <1>1, <2>1, <2>2, <2>3
<1>3. SubSeq(c, 1, m) = a
  <2>1. PICK z \in Nat : z = 0
    OBVIOUS
  <2>2. z + m <= Len(c) /\ Slice(c, z, m) = SubSeq(c, 1, m) /\ \A i \in 1..m : z + i = i
    BY <1>2, <2>1 DEF Slice
  <2>3. PICK d : d = Slice(c, z, m)
    OBVIOUS
  <2>4. IsSlice(d, T, c, z, m)
    BY <2>2, <2>3, SliceOf
  <2>5. d \in Seq(T) /\ Len(d) = Len(a) /\ \A i \in 1..Len(d) : d[i] = a[i]
    BY <1>1, <1>2, <2>2, <2>4 DEF IsSlice
  <2>6. d = a
    BY <2>5, SeqEqual
  <2>7. QED BY <2>2, <2>3, <2>6
<1>4. SubSeq(c, m + 1, m + n) = b
  <2>1. PICK d : d = Slice(c, m, n)
    OBVIOUS
  <2>2. m + n <= Len(c)
    BY <1>2
  <2>3. IsSlice(d, T, c, m, n)
    BY <2>1, <2>2, SliceOf
  <2>4. d \in Seq(T) /\ Len(d) = Len(b) /\ \A i \in 1..Len(d) : d[i] = b[i]
    BY <1>1, <1>2, <2>3 DEF IsSlice
  <2>5. d = b
    BY <2>4, SeqEqual
  <2>6. QED BY <2>1, <2>5 DEF Slice
<1>5. QED BY <1>1, <1>2, <1>3, <1>4

(* What FlattenSeq makes of a sequence, when it is known of each front.     *)
LEMMA FlattenByFronts ==
    ASSUME NEW T, NEW w \in Seq(Seq(T)), NEW f, f[0] = <<>>,
           \A k \in 0..Len(w) - 1 : f[k + 1] = f[k] \o w[k + 1]
    PROVE  FlattenSeq(w) = f[Len(w)]
<1> DEFINE n == Len(w)
           Good(k) == FlattenSeq(SubSeq(w, 1, k)) = f[k]
           P == {k \in 0..n : Good(k)}
<1>1. n \in Nat
  BY LenProperties
<1>2. 0 \in P
  <2>1. SubSeq(w, 1, 0) = <<>> /\ FlattenSeq(<<>>) = <<>>
    BY <1>1, FlattenEmpty
  <2>2. Good(0)
    BY <2>1
  <2> HIDE DEF Good
  <2>3. QED BY <1>1, <2>2
<1>3. ASSUME NEW k \in 0..n, k \in P, k # n PROVE k + 1 \in P
  <2>1. k \in 0..Len(w) - 1 /\ k + 1 \in 0..n /\ Good(k)
    BY <1>1, <1>3
  <2>2. PICK u \in Seq(Seq(T)), e \in Seq(T) :
            u = SubSeq(w, 1, k) /\ e = w[k + 1] /\ SubSeq(w, 1, k + 1) = Append(u, e)
    <3>1. PICK S : S = Seq(T)
      OBVIOUS
    <3>2. w \in Seq(S)
      BY <3>1
    <3>3. /\ SubSeq(w, 1, k) \in Seq(S) /\ w[k + 1] \in S
          /\ SubSeq(w, 1, k + 1) = Append(SubSeq(w, 1, k), w[k + 1])
      <4> HIDE <3>1
      <4>1. QED BY <2>1, <3>2, FrontAppend
    <3>4. QED BY <3>1, <3>3
  <2>3. FlattenSeq(Append(u, e)) = FlattenSeq(u) \o e
    BY FlattenAppend
  <2>4. Good(k + 1)
    BY <2>1, <2>2, <2>3
  <2> HIDE DEF Good
  <2>5. QED BY <2>1, <2>4
<1>4. n \in P
  <2> HIDE DEF P, n
  <2>1. 0..n \subseteq P
    BY <1>1, <1>2, <1>3, Induction
  <2>2. QED BY <1>1, <2>1
<1>5. SubSeq(w, 1, n) = w
  BY <1>1, SubSeqFull
<1>6. QED BY <1>4, <1>5

LEMMA FlattenSingles ==
    ASSUME NEW T, NEW s \in Seq(T), NEW w \in Seq(Seq(T)), Len(w) = Len(s),
           \A i \in 1..Len(s) : w[i] = <<s[i]>>
    PROVE  FlattenSeq(w) = s
<1> DEFINE n == Len(s)
           f == [k \in 0..n |-> SubSeq(s, 1, k)]
<1>1. n \in Nat
  BY LenProperties
<1>2. f[0] = <<>> /\ f[n] = s
  BY <1>1, SubSeqFull
<1>3. ASSUME NEW k \in 0..n - 1 PROVE f[k + 1] = f[k] \o w[k + 1]
  <2>1. k \in 0..n /\ k + 1 \in 0..n /\ k + 1 \in 1..n
    BY <1>1
  <2>2. PICK u \in Seq(T), e \in T :
            u = SubSeq(s, 1, k) /\ e = s[k + 1] /\ SubSeq(s, 1, k + 1) = Append(u, e)
    <3>1. k \in 0..Len(s) - 1
      OBVIOUS
    <3>2. /\ SubSeq(s, 1, k) \in Seq(T) /\ s[k + 1] \in T
          /\ SubSeq(s, 1, k + 1) = Append(SubSeq(s, 1, k), s[k + 1])
      <4> HIDE DEF n, f
      <4>1. QED BY <3>1, FrontAppend
    <3>3. QED BY <3>2
  <2>3. Append(u, e) = u \o <<e>>
    OBVIOUS
  <2>4. f[k + 1] = SubSeq(s, 1, k + 1) /\ f[k] = SubSeq(s, 1, k)
    BY <2>1
  <2>5. w[k + 1] = <<e>>
    BY <2>1, <2>2
  <2>6. QED BY <2>2, <2>3, <2>4, <2>5
<1>4. QED
  <2> HIDE DEF f
  <2>1. QED BY <1>2, <1>3, FlattenByFronts

LEMMA FlattenEmpties ==
    ASSUME NEW T, NEW w \in Seq(Seq(T)), \A i \in 1..Len(w) : w[i] = <<>>
    PROVE  FlattenSeq(w) = <<>>
<1> DEFINE f == [k \in 0..Len(w) |-> <<>>]
<1>1. Len(w) \in Nat
  BY LenProperties
<1>2. f[0] = <<>> /\ f[Len(w)] = <<>>
  BY <1>1
<1>3. ASSUME NEW k \in 0..Len(w) - 1 PROVE f[k + 1] = f[k] \o w[k + 1]
  <2>1. k \in 0..Len(w) /\ k + 1 \in 0..Len(w) /\ k + 1 \in 1..Len(w)
    BY <1>1
  <2>2. <<>> \o <<>> = <<>>
    OBVIOUS
  <2>3. f[k + 1] = <<>> /\ f[k] = <<>> /\ w[k + 1] = <<>>
    BY <2>1
  <2>4. QED BY <2>2, <2>3
<1>4. QED
  <2> HIDE DEF f
  <2>1. QED BY <1>2, <1>3, FlattenByFronts
=============================================================================
