--------------------------- MODULE PlanWalkProofs ---------------------------
(***************************************************************************)
(* What TLAPS proves of the operators of PlanWalk: of FlattenSeq and       *)
(* Among, by induction over sequences, and of the findings of a plan, by   *)
(* induction over its nodes.                                               *)
(***************************************************************************)
EXTENDS PlanWalk, NaturalLemmas, SequenceTheorems

(* A set that holds the empty sequence and, with a sequence, every longer  *)
(* one by an element holds all sequences.                                  *)
LEMMA SeqInduction ==
    ASSUME NEW S, NEW Z, <<>> \in Z,
           \A s \in Seq(S), x \in S : s \in Z => Append(s, x) \in Z
    PROVE  Seq(S) \subseteq Z
<1> DEFINE N == {n \in Nat : \A s \in Seq(S) : Len(s) = n => s \in Z}
<1>1. 0 \in N
  <2>1. \A s \in Seq(S) : Len(s) = 0 => s = <<>>
    BY EmptySeq
  <2> QED BY <2>1
<1>2. ASSUME NEW n \in N PROVE n + 1 \in N
  <2> SUFFICES ASSUME NEW s \in Seq(S), Len(s) = n + 1 PROVE s \in Z
    OBVIOUS
  <2> DEFINE front == SubSeq(s, 1, n)
  <2>1. n \in Nat /\ n + 1 \in 1..Len(s) /\ s[n + 1] \in S
    BY ElementOfSeq
  <2>2. \A i \in 1..n : s[i] \in S
    BY <2>1, ElementOfSeq
  <2>3. front \in Seq(S) /\ Len(front) = n /\ \A i \in 1..n : front[i] = s[i]
    BY <2>1, <2>2, SubSeqProperties
  <2> HIDE DEF front
  <2>4. front \in Z
    BY <2>3
  <2>5. Append(front, s[n + 1]) = s
    <3>1. Append(front, s[n + 1]) \in Seq(S) /\ Len(Append(front, s[n + 1])) = n + 1
      BY <2>1, <2>3
    <3>2. \A i \in 1..(n + 1) : Append(front, s[n + 1])[i] = s[i]
      BY <2>1, <2>3
    <3> QED BY <3>1, <3>2, SeqEqual
  <2> QED BY <2>1, <2>3, <2>4, <2>5
<1>3. Nat \subseteq N
  <2> HIDE DEF N
  <2> QED BY <1>1, <1>2, SetInduction
<1> QED BY <1>3, LenProperties

-----------------------------------------------------------------------------
(* FlattenSeq.                                                             *)

(* A function that follows the recursion of FlattenSeq.                    *)
Flattens(f, s) ==
    f = [i \in 1..Len(s) |-> IF i = 1 THEN s[i] ELSE f[i - 1] \o s[i]]

LEMMA FlattensAt ==
    ASSUME NEW s, NEW f, Flattens(f, s), NEW i \in 1..Len(s)
    PROVE  f[i] = IF i = 1 THEN s[i] ELSE f[i - 1] \o s[i]
<1> DEFINE h == [j \in 1..Len(s) |-> IF j = 1 THEN s[j] ELSE f[j - 1] \o s[j]]
<1>1. f = h
  BY DEF Flattens
<1>2. h[i] = IF i = 1 THEN s[i] ELSE f[i - 1] \o s[i]
  OBVIOUS
<1> HIDE DEF h
<1> QED BY <1>1, <1>2

LEMMA FlattensUnique ==
    ASSUME NEW s, NEW f, NEW g, Flattens(f, s), Flattens(g, s), Len(s) \in Nat
    PROVE  f = g
<1> DEFINE Z == {n \in Nat : n \in 1..Len(s) => f[n] = g[n]}
<1>1. 0 \in Z
  OBVIOUS
<1>2. ASSUME NEW n \in Z PROVE n + 1 \in Z
  <2>1. CASE n + 1 \in 1..Len(s)
    <3>0. n \in Nat /\ (n + 1) - 1 = n
      OBVIOUS
    <3>1. f[n + 1] = IF n + 1 = 1 THEN s[n + 1] ELSE f[(n + 1) - 1] \o s[n + 1]
      BY <2>1, FlattensAt
    <3>2. g[n + 1] = IF n + 1 = 1 THEN s[n + 1] ELSE g[(n + 1) - 1] \o s[n + 1]
      BY <2>1, FlattensAt
    <3> QED BY <2>1, <3>0, <3>1, <3>2
  <2>2. CASE n + 1 \notin 1..Len(s)
    BY <2>2
  <2> QED BY <2>1, <2>2
<1>3. Nat \subseteq Z
  <2> HIDE DEF Z
  <2> QED BY <1>1, <1>2, SetInduction
<1>4. \A n \in 1..Len(s) : f[n] = g[n]
  BY <1>3
<1> QED BY <1>4 DEF Flattens

LEMMA FlattenIs ==
    ASSUME NEW s, NEW f, Flattens(f, s), Len(s) \in Nat \ {0}
    PROVE  FlattenSeq(s) = f[Len(s)]
<1> DEFINE g == CHOOSE h : Flattens(h, s)
<1>1. Flattens(g, s)
  OBVIOUS
<1>2. FlattenSeq(s) = g[Len(s)]
  BY DEF FlattenSeq, Flattens
<1>3. f = g
  BY <1>1, FlattensUnique
<1> QED BY <1>2, <1>3

LEMMA FlattenEmpty == FlattenSeq(<<>>) = <<>>
  BY DEF FlattenSeq

(* Flattening a longer list of sequences appends the last one.             *)
LEMMA FlattenAppend ==
    ASSUME NEW S, NEW s \in Seq(Seq(S)), NEW x \in Seq(S)
    PROVE  FlattenSeq(Append(s, x)) = FlattenSeq(s) \o x
<1> DEFINE Z == {r \in Seq(Seq(S)) : \E f : Flattens(f, r)}
<1>n. ASSUME NEW r \in Seq(Seq(S)), NEW y \in Seq(S), NEW f, Flattens(f, r)
      PROVE  \E g : Flattens(g, Append(r, y)) /\
                    g[Len(r) + 1] = IF Len(r) = 0 THEN y ELSE f[Len(r)] \o y
  <2> DEFINE last == IF Len(r) = 0 THEN y ELSE f[Len(r)] \o y
             g == [i \in 1..(Len(r) + 1) |-> IF i = Len(r) + 1 THEN last ELSE f[i]]
  <2>1. /\ Len(r) \in Nat /\ Len(Append(r, y)) = Len(r) + 1
        /\ \A i \in 1..Len(r) : Append(r, y)[i] = r[i]
        /\ Append(r, y)[Len(r) + 1] = y
    OBVIOUS
  <2>2. \A i \in 1..Len(r) : f[i] = IF i = 1 THEN r[i] ELSE f[i - 1] \o r[i]
    BY <1>n DEF Flattens
  <2>3. \A i \in 1..Len(r) : g[i] = IF i = 1 THEN r[i] ELSE g[i - 1] \o r[i]
    <3> SUFFICES ASSUME NEW i \in 1..Len(r)
                 PROVE  g[i] = IF i = 1 THEN r[i] ELSE g[i - 1] \o r[i]
      OBVIOUS
    <3> HIDE DEF last
    <3>1. g[i] = f[i] /\ (i # 1 => g[i - 1] = f[i - 1])
      BY <2>1
    <3> QED BY <2>2, <3>1
  <2>4. /\ g[Len(r) + 1] = last
        /\ g[Len(r) + 1] = IF Len(r) + 1 = 1 THEN y ELSE g[(Len(r) + 1) - 1] \o y
    BY <2>1
  <2>5. Flattens(g, Append(r, y))
    <3> HIDE DEF last
    <3>1. \A i \in 1..(Len(r) + 1) :
             g[i] = IF i = 1 THEN Append(r, y)[i] ELSE g[i - 1] \o Append(r, y)[i]
      <4> HIDE DEF g
      <4> SUFFICES ASSUME NEW i \in 1..(Len(r) + 1)
                   PROVE  g[i] = IF i = 1 THEN Append(r, y)[i]
                                 ELSE g[i - 1] \o Append(r, y)[i]
        OBVIOUS
      <4>1. CASE i \in 1..Len(r)
        BY <2>1, <2>3, <4>1
      <4>2. CASE i = Len(r) + 1
        BY <2>1, <2>4, <4>2
      <4> QED BY <2>1, <4>1, <4>2
    <3> HIDE DEF g
    <3>2. g = [i \in 1..(Len(r) + 1) |-> g[i]]
      BY DEF g
    <3> QED BY <2>1, <3>1, <3>2 DEF Flattens
  <2> HIDE DEF g
  <2> QED BY <2>4, <2>5
<1>1. <<>> \in Z
  <2>1. Flattens([i \in 1..0 |-> <<>>], <<>>)
    BY DEF Flattens
  <2> QED BY <2>1
<1>2. \A r \in Seq(Seq(S)), y \in Seq(S) : r \in Z => Append(r, y) \in Z
  BY <1>n
<1>3. s \in Z
  <2> HIDE DEF Z
  <2> QED BY <1>1, <1>2, SeqInduction
<1>4. PICK f : Flattens(f, s)
  BY <1>3
<1>5. PICK g : /\ Flattens(g, Append(s, x))
               /\ g[Len(s) + 1] = IF Len(s) = 0 THEN x ELSE f[Len(s)] \o x
  BY <1>4, <1>n
<1>6. /\ Len(s) \in Nat /\ Len(Append(s, x)) = Len(s) + 1
      /\ Len(Append(s, x)) \in Nat \ {0}
  OBVIOUS
<1>7. FlattenSeq(Append(s, x)) = g[Len(s) + 1]
  BY <1>5, <1>6, FlattenIs
<1>8. CASE Len(s) = 0
  <2>1. s = <<>>
    BY <1>8, EmptySeq
  <2>2. <<>> \o x = x
    BY ConcatEmptySeq
  <2> QED BY <1>5, <1>7, <1>8, <2>1, <2>2, FlattenEmpty
<1>9. CASE Len(s) # 0
  <2>1. FlattenSeq(s) = f[Len(s)]
    BY <1>4, <1>6, <1>9, FlattenIs
  <2> QED BY <1>5, <1>7, <1>9, <2>1
<1> QED BY <1>8, <1>9

LEMMA ToSetAppend ==
    ASSUME NEW S, NEW s \in Seq(S), NEW x \in S
    PROVE  ToSet(Append(s, x)) = ToSet(s) \cup {x}
<1>1. DOMAIN s = 1..Len(s) /\ DOMAIN Append(s, x) = 1..(Len(s) + 1) /\ Len(s) \in Nat
  OBVIOUS
<1>2. /\ \A i \in 1..Len(s) : Append(s, x)[i] = s[i]
      /\ Append(s, x)[Len(s) + 1] = x
  OBVIOUS
<1>3. 1..(Len(s) + 1) = 1..Len(s) \cup {Len(s) + 1}
  BY <1>1
<1> QED BY <1>1, <1>2, <1>3 DEF ToSet

LEMMA ToSetConcat ==
    ASSUME NEW S, NEW s \in Seq(S), NEW t \in Seq(S)
    PROVE  ToSet(s \o t) = ToSet(s) \cup ToSet(t)
<1>1. /\ Len(s) \in Nat /\ Len(t) \in Nat
      /\ DOMAIN s = 1..Len(s) /\ DOMAIN t = 1..Len(t)
      /\ DOMAIN (s \o t) = 1..(Len(s) + Len(t))
  OBVIOUS
<1>2. /\ \A i \in 1..Len(s) : (s \o t)[i] = s[i]
      /\ \A i \in 1..Len(t) : (s \o t)[Len(s) + i] = t[i]
  OBVIOUS
<1>3. ASSUME NEW i \in 1..(Len(s) + Len(t))
      PROVE  i \in 1..Len(s) \/ \E j \in 1..Len(t) : i = Len(s) + j
  <2>1. CASE i > Len(s)
    <3>1. i - Len(s) \in 1..Len(t) /\ i = Len(s) + (i - Len(s))
      BY <1>1, <2>1
    <3> QED BY <3>1
  <2> QED BY <1>1, <2>1
<1>4. ASSUME NEW i \in 1..Len(s) PROVE i \in 1..(Len(s) + Len(t))
  BY <1>1
<1>5. ASSUME NEW i \in 1..Len(t) PROVE Len(s) + i \in 1..(Len(s) + Len(t))
  BY <1>1
<1>6. ToSet(s \o t) \subseteq ToSet(s) \cup ToSet(t)
  BY <1>1, <1>2, <1>3 DEF ToSet
<1>7. ToSet(s) \subseteq ToSet(s \o t)
  BY <1>1, <1>2, <1>4 DEF ToSet
<1>8. ToSet(t) \subseteq ToSet(s \o t)
  BY <1>1, <1>2, <1>5 DEF ToSet
<1> QED BY <1>6, <1>7, <1>8

LEMMA ToSetType ==
    ASSUME NEW S, NEW s \in Seq(S)
    PROVE  ToSet(s) \subseteq S
BY ElementOfSeq, LenProperties DEF ToSet

LEMMA ToSetEmpty == ToSet(<<>>) = {}
  BY DEF ToSet

LEMMA FlattenType ==
    ASSUME NEW S, NEW s \in Seq(Seq(S))
    PROVE  FlattenSeq(s) \in Seq(S)
<1> DEFINE Z == {r \in Seq(Seq(S)) : FlattenSeq(r) \in Seq(S)}
<1>1. <<>> \in Z
  <2>1. <<>> \in Seq(Seq(S)) /\ <<>> \in Seq(S)
    OBVIOUS
  <2> QED BY <2>1, FlattenEmpty
<1>2. ASSUME NEW r \in Z, NEW x \in Seq(S) PROVE Append(r, x) \in Z
  <2>1. r \in Seq(Seq(S)) /\ FlattenSeq(r) \in Seq(S) /\ Append(r, x) \in Seq(Seq(S))
    OBVIOUS
  <2>2. FlattenSeq(Append(r, x)) = FlattenSeq(r) \o x
    BY <2>1, FlattenAppend
  <2> DEFINE a == FlattenSeq(r)
  <2> HIDE DEF a
  <2>3. a \in Seq(S) => a \o x \in Seq(S)
    OBVIOUS
  <2> QED BY <2>1, <2>2, <2>3 DEF a
<1> HIDE DEF Z
<1>3. s \in Z
  BY <1>1, <1>2, SeqInduction
<1> QED BY <1>3 DEF Z

LEMMA FlattenConcat ==
    ASSUME NEW S, NEW s \in Seq(Seq(S)), NEW t \in Seq(Seq(S))
    PROVE  FlattenSeq(s \o t) = FlattenSeq(s) \o FlattenSeq(t)
<1> DEFINE Z == {r \in Seq(Seq(S)) : FlattenSeq(s \o r) = FlattenSeq(s) \o FlattenSeq(r)}
<1>1. <<>> \in Z
  <2>1. s \o <<>> = s
    BY ConcatEmptySeq
  <2>2. FlattenSeq(s) \o <<>> = FlattenSeq(s)
    BY FlattenType, ConcatEmptySeq
  <2>3. <<>> \in Seq(Seq(S))
    OBVIOUS
  <2>4. FlattenSeq(s \o <<>>) = FlattenSeq(s) \o FlattenSeq(<<>>)
    BY <2>1, <2>2, FlattenEmpty
  <2> QED BY <2>3, <2>4
<1>2. ASSUME NEW r \in Z, NEW x \in Seq(S) PROVE Append(r, x) \in Z
  <2>1. r \in Seq(Seq(S)) /\ s \o r \in Seq(Seq(S))
    BY ConcatProperties
  <2>2. s \o Append(r, x) = Append(s \o r, x)
    <3> DEFINE T == Seq(S)
    <3> HIDE DEF T
    <3>1. s \in Seq(T) /\ r \in Seq(T) /\ x \in T
      BY <2>1 DEF T
    <3> QED BY <3>1
  <2>3. FlattenSeq(Append(s \o r, x)) = FlattenSeq(s \o r) \o x
    BY <2>1, FlattenAppend
  <2>4. FlattenSeq(Append(r, x)) = FlattenSeq(r) \o x
    BY <2>1, FlattenAppend
  <2>5. FlattenSeq(s) \in Seq(S) /\ FlattenSeq(r) \in Seq(S)
    BY <2>1, FlattenType
  <2>6. (FlattenSeq(s) \o FlattenSeq(r)) \o x = FlattenSeq(s) \o (FlattenSeq(r) \o x)
    <3> DEFINE a == FlattenSeq(s)
               b == FlattenSeq(r)
    <3> HIDE DEF a, b
    <3>1. a \in Seq(S) /\ b \in Seq(S) => (a \o b) \o x = a \o (b \o x)
      BY ConcatAssociative
    <3> QED BY <2>5, <3>1 DEF a, b
  <2>7. Append(r, x) \in Seq(Seq(S))
    BY <2>1
  <2> QED BY <2>2, <2>3, <2>4, <2>6, <2>7
<1>3. t \in Z
  <2> HIDE DEF Z
  <2> QED BY <1>1, <1>2, SeqInduction
<1> QED BY <1>3

(* What is in a flattened sequence is in one of its parts.                 *)
LEMMA FlattenToSet ==
    ASSUME NEW S, NEW s \in Seq(Seq(S))
    PROVE  ToSet(FlattenSeq(s)) = UNION {ToSet(part) : part \in ToSet(s)}
<1> DEFINE Z == {r \in Seq(Seq(S)) :
                   ToSet(FlattenSeq(r)) = UNION {ToSet(part) : part \in ToSet(r)}}
<1>1. <<>> \in Z
  BY FlattenEmpty, ToSetEmpty
<1>2. ASSUME NEW r \in Z, NEW x \in Seq(S) PROVE Append(r, x) \in Z
  <2>1. r \in Seq(Seq(S)) /\ Append(r, x) \in Seq(Seq(S))
    OBVIOUS
  <2>2. ToSet(FlattenSeq(Append(r, x))) = ToSet(FlattenSeq(r)) \cup ToSet(x)
    <3> DEFINE a == FlattenSeq(r)
    <3>1. FlattenSeq(Append(r, x)) = a \o x /\ a \in Seq(S)
      BY <2>1, FlattenAppend, FlattenType
    <3> HIDE DEF a
    <3>2. a \in Seq(S) => ToSet(a \o x) = ToSet(a) \cup ToSet(x)
      BY ToSetConcat
    <3> QED BY <3>1, <3>2 DEF a
  <2>3. ToSet(Append(r, x)) = ToSet(r) \cup {x}
    BY <2>1, ToSetAppend
  <2>4. ToSet(FlattenSeq(r)) = UNION {ToSet(part) : part \in ToSet(r)}
    OBVIOUS
  <2> HIDE DEF Z
  <2>5. UNION {ToSet(part) : part \in ToSet(r) \cup {x}}
            = (UNION {ToSet(part) : part \in ToSet(r)}) \cup ToSet(x)
    OBVIOUS
  <2> QED BY <2>1, <2>2, <2>3, <2>4, <2>5 DEF Z
<1>3. s \in Z
  <2> HIDE DEF Z
  <2> QED BY <1>1, <1>2, SeqInduction
<1> QED BY <1>3

-----------------------------------------------------------------------------
(* Among.                                                                  *)
Single(x, T) == IF x \in T THEN <<x>> ELSE <<>>

Singles(s, T) == [k \in DOMAIN s |-> Single(s[k], T)]

LEMMA AmongIs ==
    ASSUME NEW s, NEW T
    PROVE  Among(s, T) = FlattenSeq(Singles(s, T))
BY DEF Among, Singles, Single

LEMMA SinglesType ==
    ASSUME NEW S, NEW s \in Seq(S), NEW T
    PROVE  Singles(s, T) \in Seq(Seq(S)) /\ Len(Singles(s, T)) = Len(s)
<1>1. \A x \in S : Single(x, T) \in Seq(S)
  BY DEF Single
<1>2. \A k \in 1..Len(s) : Single(s[k], T) \in Seq(S)
  BY <1>1, ElementOfSeq
<1>3. DOMAIN s = 1..Len(s) /\ Len(s) \in Nat
  OBVIOUS
<1> QED BY <1>2, <1>3 DEF Singles

LEMMA AmongEmpty ==
    ASSUME NEW T
    PROVE  Among(<<>>, T) = <<>>
<1>1. Singles(<<>>, T) = <<>>
  BY DEF Singles
<1> QED BY <1>1, AmongIs, FlattenEmpty

LEMMA AmongFlat ==
    ASSUME NEW S, NEW s \in Seq(S), NEW T
    PROVE  Among(s, T) \in Seq(S)
BY AmongIs, SinglesType, FlattenType

LEMMA AmongAppend ==
    ASSUME NEW S, NEW s \in Seq(S), NEW x \in S, NEW T
    PROVE  Among(Append(s, x), T) = IF x \in T THEN Append(Among(s, T), x) ELSE Among(s, T)
<1> DEFINE a == Append(s, x)
           p == Append(Singles(s, T), Single(x, T))
<1>1. /\ a \in Seq(S) /\ Len(a) = Len(s) + 1 /\ Len(s) \in Nat
      /\ \A k \in 1..Len(s) : a[k] = s[k]
      /\ a[Len(s) + 1] = x
  OBVIOUS
<1>2. Single(x, T) \in Seq(S)
  BY DEF Single
<1>3. /\ Singles(s, T) \in Seq(Seq(S)) /\ Len(Singles(s, T)) = Len(s)
      /\ \A k \in 1..Len(s) : Singles(s, T)[k] = Single(s[k], T)
  BY SinglesType DEF Singles
<1>4. /\ p \in Seq(Seq(S)) /\ Len(p) = Len(s) + 1
      /\ \A k \in 1..Len(s) : p[k] = Single(s[k], T)
      /\ p[Len(s) + 1] = Single(x, T)
  <2> DEFINE q == Singles(s, T)
             y == Single(x, T)
  <2>1. q \in Seq(Seq(S)) /\ y \in Seq(S) /\ Len(q) = Len(s)
    BY <1>2, <1>3
  <2> HIDE DEF q, y
  <2>2. /\ Append(q, y) \in Seq(Seq(S)) /\ Len(Append(q, y)) = Len(s) + 1
        /\ \A k \in 1..Len(s) : Append(q, y)[k] = q[k]
        /\ Append(q, y)[Len(s) + 1] = y
    BY <1>1, <2>1
  <2> QED BY <2>2, <1>3 DEF q, y
<1>5. /\ Singles(a, T) \in Seq(Seq(S)) /\ Len(Singles(a, T)) = Len(s) + 1
      /\ \A k \in 1..(Len(s) + 1) : Singles(a, T)[k] = Single(a[k], T)
  <2> HIDE DEF a
  <2>1. Singles(a, T) \in Seq(Seq(S)) /\ Len(Singles(a, T)) = Len(a)
    BY <1>1, SinglesType
  <2>2. DOMAIN a = 1..(Len(s) + 1)
    BY <1>1
  <2>3. \A k \in 1..(Len(s) + 1) : Singles(a, T)[k] = Single(a[k], T)
    BY <2>2 DEF Singles
  <2> QED BY <1>1, <2>1, <2>3
<1>6. \A k \in 1..(Len(s) + 1) : Singles(a, T)[k] = p[k]
  <2> HIDE DEF a, p
  <2>1. \A k \in 1..(Len(s) + 1) : k \in 1..Len(s) \/ k = Len(s) + 1
    BY <1>1
  <2> QED BY <1>1, <1>4, <1>5, <2>1
<1>7. Singles(a, T) = p
  <2> HIDE DEF a, p
  <2> QED BY <1>4, <1>5, <1>6, SeqEqual
<1>8. Among(a, T) = Among(s, T) \o Single(x, T)
  BY <1>2, <1>3, <1>7, AmongIs, FlattenAppend
<1>9. CASE x \in T
  <2> DEFINE b == Among(s, T)
  <2>1. b \in Seq(S)
    BY AmongFlat
  <2> HIDE DEF b
  <2>2. b \o <<x>> = Append(b, x)
    BY <2>1
  <2> QED BY <1>8, <1>9, <2>2 DEF b, Single
<1>10. CASE x \notin T
  <2>1. Among(s, T) \o <<>> = Among(s, T)
    BY AmongFlat, ConcatEmptySeq
  <2> QED BY <1>8, <1>10, <2>1 DEF Single
<1> QED BY <1>9, <1>10

LEMMA AmongConcat ==
    ASSUME NEW S, NEW s \in Seq(S), NEW t \in Seq(S), NEW T
    PROVE  Among(s \o t, T) = Among(s, T) \o Among(t, T)
<1> DEFINE Z == {r \in Seq(S) : Among(s \o r, T) = Among(s, T) \o Among(r, T)}
           a == Among(s, T)
<1>0. a \in Seq(S)
  BY AmongFlat
<1> HIDE DEF a
<1>1. <<>> \in Z
  <2>1. s \o <<>> = s /\ a \o <<>> = a /\ <<>> \in Seq(S)
    BY <1>0
  <2> QED BY <2>1, AmongEmpty DEF a
<1>2. ASSUME NEW r \in Z, NEW x \in S PROVE Append(r, x) \in Z
  <2> DEFINE b == Among(r, T)
  <2>1. r \in Seq(S) /\ s \o r \in Seq(S) /\ s \o Append(r, x) = Append(s \o r, x)
    OBVIOUS
  <2>2. b \in Seq(S) /\ Among(s \o r, T) = a \o b
    BY <2>1, AmongFlat DEF a
  <2>3. Among(Append(r, x), T) = IF x \in T THEN Append(b, x) ELSE b
    BY <2>1, AmongAppend
  <2> HIDE DEF b
  <2>4. Among(Append(s \o r, x), T) = IF x \in T THEN Append(a \o b, x) ELSE a \o b
    BY <2>1, <2>2, AmongAppend
  <2>5. a \o Append(b, x) = Append(a \o b, x)
    BY <1>0, <2>2
  <2>6. Among(s \o Append(r, x), T) = a \o Among(Append(r, x), T)
    BY <2>1, <2>3, <2>4, <2>5
  <2>7. Append(r, x) \in Seq(S)
    BY <2>1
  <2>8. Among(s \o Append(r, x), T) = Among(s, T) \o Among(Append(r, x), T)
    BY <2>6 DEF a
  <2> QED BY <2>7, <2>8
<1>3. t \in Z
  <2> HIDE DEF Z
  <2> QED BY <1>1, <1>2, SeqInduction
<1> QED BY <1>3 DEF a

LEMMA AmongToSet ==
    ASSUME NEW S, NEW s \in Seq(S), NEW T
    PROVE  ToSet(Among(s, T)) = ToSet(s) \cap T
<1> DEFINE Z == {r \in Seq(S) : ToSet(Among(r, T)) = ToSet(r) \cap T}
<1>1. <<>> \in Z
  <2>1. <<>> \in Seq(S)
    OBVIOUS
  <2> QED BY <2>1, AmongEmpty, ToSetEmpty
<1>2. ASSUME NEW r \in Z, NEW x \in S PROVE Append(r, x) \in Z
  <2>1. Among(r, T) \in Seq(S) /\ Append(r, x) \in Seq(S)
    BY AmongFlat
  <2>2. ToSet(Append(r, x)) = ToSet(r) \cup {x}
    BY ToSetAppend
  <2>3. ToSet(Append(Among(r, T), x)) = ToSet(Among(r, T)) \cup {x}
    BY <2>1, ToSetAppend
  <2>4. Among(Append(r, x), T) = IF x \in T THEN Append(Among(r, T), x) ELSE Among(r, T)
    BY AmongAppend
  <2> QED BY <2>1, <2>2, <2>3, <2>4
<1>3. s \in Z
  <2> HIDE DEF Z
  <2> QED BY <1>1, <1>2, SeqInduction
<1> QED BY <1>3

(* Sets that agree on the elements select the same ones.                   *)
LEMMA AmongAgree ==
    ASSUME NEW S, NEW s \in Seq(S), NEW T, NEW U,
           \A x \in ToSet(s) : x \in T <=> x \in U
    PROVE  Among(s, T) = Among(s, U)
<1>1. \A k \in DOMAIN s : Single(s[k], T) = Single(s[k], U)
  BY DEF Single, ToSet
<1>2. Singles(s, T) = Singles(s, U)
  BY <1>1 DEF Singles
<1> QED BY <1>2, AmongIs

LEMMA AmongAll ==
    ASSUME NEW S, NEW s \in Seq(S), NEW T, ToSet(s) \subseteq T
    PROVE  Among(s, T) = s
<1> DEFINE Z == {r \in Seq(S) : Among(r, S) = r}
<1>1. <<>> \in Z
  <2>1. <<>> \in Seq(S)
    OBVIOUS
  <2> QED BY <2>1, AmongEmpty
<1>2. ASSUME NEW r \in Z, NEW x \in S PROVE Append(r, x) \in Z
  BY AmongAppend
<1>3. s \in Z
  <2> HIDE DEF Z
  <2> QED BY <1>1, <1>2, SeqInduction
<1>4. Among(s, T) = Among(s, S)
  BY ToSetType, AmongAgree
<1> QED BY <1>3, <1>4

LEMMA AmongNone ==
    ASSUME NEW S, NEW s \in Seq(S), NEW T, ToSet(s) \cap T = {}
    PROVE  Among(s, T) = <<>>
<1> DEFINE Z == {r \in Seq(S) : Among(r, {}) = <<>>}
<1>1. <<>> \in Z
  <2>1. <<>> \in Seq(S)
    OBVIOUS
  <2> QED BY <2>1, AmongEmpty
<1>2. ASSUME NEW r \in Z, NEW x \in S PROVE Append(r, x) \in Z
  <2>1. Append(r, x) \in Seq(S)
    OBVIOUS
  <2> QED BY <2>1, AmongAppend
<1>3. s \in Z
  <2> HIDE DEF Z
  <2> QED BY <1>1, <1>2, SeqInduction
<1>4. Among(s, T) = Among(s, {})
  BY AmongAgree
<1> QED BY <1>3, <1>4

(* Selecting twice is selecting once what both select.                     *)
LEMMA AmongTwice ==
    ASSUME NEW S, NEW s \in Seq(S), NEW T, NEW U
    PROVE  Among(Among(s, T), U) = Among(s, T \cap U)
<1> DEFINE Z == {r \in Seq(S) : Among(Among(r, T), U) = Among(r, T \cap U)}
<1>1. <<>> \in Z
  <2>1. <<>> \in Seq(S)
    OBVIOUS
  <2> QED BY <2>1, AmongEmpty
<1>2. ASSUME NEW r \in Z, NEW x \in S PROVE Append(r, x) \in Z
  <2>1. Append(r, x) \in Seq(S) /\ Among(r, T) \in Seq(S)
    BY AmongFlat
  <2>2. Among(Append(r, x), T) = IF x \in T THEN Append(Among(r, T), x) ELSE Among(r, T)
    BY AmongAppend
  <2>3. Among(Append(Among(r, T), x), U)
            = IF x \in U THEN Append(Among(Among(r, T), U), x) ELSE Among(Among(r, T), U)
    BY <2>1, AmongAppend
  <2>4. Among(Append(r, x), T \cap U)
            = IF x \in T \cap U THEN Append(Among(r, T \cap U), x) ELSE Among(r, T \cap U)
    BY AmongAppend
  <2>5. Among(Among(r, T), U) = Among(r, T \cap U)
    OBVIOUS
  <2> HIDE DEF Z
  <2>6. Among(Among(Append(r, x), T), U) = Among(Append(r, x), T \cap U)
    <3>1. CASE x \in T /\ x \in U
      <4>1. x \in T \cap U
        BY <3>1
      <4> QED BY <2>2, <2>3, <2>4, <2>5, <3>1, <4>1
    <3>2. CASE x \in T /\ x \notin U
      <4>1. x \notin T \cap U
        BY <3>2
      <4> QED BY <2>2, <2>3, <2>4, <2>5, <3>2, <4>1
    <3>3. CASE x \notin T
      <4>1. x \notin T \cap U
        BY <3>3
      <4> QED BY <2>2, <2>4, <2>5, <3>3, <4>1
    <3> QED BY <3>1, <3>2, <3>3
  <2> QED BY <2>1, <2>6 DEF Z
<1>3. s \in Z
  <2> HIDE DEF Z
  <2> QED BY <1>1, <1>2, SeqInduction
<1> QED BY <1>3

(* Selecting from a flattened list is flattening what is selected of each. *)
AmongEach(parts, T) == [k \in DOMAIN parts |-> Among(parts[k], T)]

LEMMA AmongFlatten ==
    ASSUME NEW S, NEW parts \in Seq(Seq(S)), NEW T
    PROVE  Among(FlattenSeq(parts), T) = FlattenSeq(AmongEach(parts, T))
<1> DEFINE Q == Seq(S)
           Z == {r \in Seq(Q) : Among(FlattenSeq(r), T) = FlattenSeq(AmongEach(r, T))}
<1>1. <<>> \in Z
  <2>1. <<>> \in Seq(Q) /\ AmongEach(<<>>, T) = <<>>
    BY DEF AmongEach
  <2> QED BY <2>1, FlattenEmpty, AmongEmpty
<1>2. ASSUME NEW r \in Z, NEW x \in Q PROVE Append(r, x) \in Z
  <2> DEFINE a == Append(r, x)
             p == AmongEach(r, T)
             y == Among(x, T)
  <2>1. r \in Seq(Q) /\ Among(FlattenSeq(r), T) = FlattenSeq(p) /\ y \in Q
    BY AmongFlat
  <2>2. /\ p \in Seq(Q) /\ Len(p) = Len(r)
        /\ \A k \in 1..Len(r) : p[k] = Among(r[k], T)
    <3>1. DOMAIN r = 1..Len(r) /\ Len(r) \in Nat /\ \A k \in 1..Len(r) : r[k] \in Q
      BY <2>1, ElementOfSeq
    <3>2. \A k \in 1..Len(r) : Among(r[k], T) \in Q
      BY <3>1, AmongFlat
    <3> HIDE DEF Q
    <3> QED BY <3>1, <3>2 DEF AmongEach
  <2>3. /\ a \in Seq(Q) /\ Len(a) = Len(r) + 1 /\ Len(r) \in Nat
        /\ \A k \in 1..Len(r) : a[k] = r[k]
        /\ a[Len(r) + 1] = x
    <3> HIDE DEF Q, Z
    <3> QED BY <2>1
  <2>4. /\ Append(p, y) \in Seq(Q) /\ Len(Append(p, y)) = Len(r) + 1
        /\ \A k \in 1..Len(r) : Append(p, y)[k] = p[k]
        /\ Append(p, y)[Len(r) + 1] = y
    <3> HIDE DEF Q, Z, p, y
    <3> QED BY <2>1, <2>2, <2>3
  <2>5. AmongEach(a, T) = Append(p, y)
    <3>1. DOMAIN a = 1..(Len(r) + 1)
      <4> HIDE DEF a, Q
      <4> QED BY <2>3
    <3> HIDE DEF a, Q
    <3>2. \A k \in 1..(Len(r) + 1) : k \in 1..Len(r) \/ k = Len(r) + 1
      BY <2>3
    <3>3. \A k \in 1..(Len(r) + 1) : Among(a[k], T) = Append(p, y)[k]
      BY <2>2, <2>3, <2>4, <3>2
    <3>4. AmongEach(a, T) = [k \in 1..(Len(r) + 1) |-> Append(p, y)[k]]
      BY <3>1, <3>3 DEF AmongEach
    <3> DEFINE t == Append(p, y)
    <3> HIDE DEF t
    <3>5. t = [k \in 1..(Len(r) + 1) |-> t[k]]
      <4>1. t \in Seq(Q) /\ Len(t) = Len(r) + 1
        BY <2>4 DEF t
      <4> HIDE DEF p, y
      <4> QED BY <4>1
    <3> QED BY <3>4, <3>5 DEF t
  <2>6. FlattenSeq(a) = FlattenSeq(r) \o x
    BY <2>1, FlattenAppend
  <2>7. Among(FlattenSeq(r) \o x, T) = Among(FlattenSeq(r), T) \o y
    BY <2>1, FlattenType, AmongConcat
  <2>8. FlattenSeq(Append(p, y)) = FlattenSeq(p) \o y
    BY <2>1, <2>2, FlattenAppend
  <2>9. Among(FlattenSeq(a), T) = FlattenSeq(AmongEach(a, T))
    <3> HIDE DEF a, p, y, Z
    <3> QED BY <2>1, <2>5, <2>6, <2>7, <2>8
  <2> QED BY <2>3, <2>9
<1>3. parts \in Z
  <2> HIDE DEF Z
  <2> QED BY <1>1, <1>2, SeqInduction
<1> QED BY <1>3

-----------------------------------------------------------------------------
(* The tree of a plan.                                                     *)
Climbs(f, p) ==
    f = [j \in 1..Len(p) |-> IF p[j] = 0 THEN {j} ELSE {j} \cup f[p[j]]]

LEMMA ClimbsExists ==
    ASSUME NEW p, IsShape(p)
    PROVE  \E f : Climbs(f, p)
<1> DEFINE Up(f, j) == IF p[j] = 0 THEN {j} ELSE {j} \cup f[p[j]]
           Upto(n) == n <= Len(p) => \E f : \A j \in 1..n : f[j] = Up(f, j)
           Z == {n \in Nat : Upto(n)}
<1>0. /\ Len(p) \in Nat /\ p[1] = 0
      /\ \A j \in 1..Len(p) : p[j] \in Nat
      /\ \A j \in 2..Len(p) : p[j] \in 1..(j - 1)
  BY DEF IsShape
<1>a. ASSUME NEW f, NEW g, NEW j, p[j] # 0 => f[p[j]] = g[p[j]]
      PROVE  Up(f, j) = Up(g, j)
  BY <1>a
<1>b. \A j \in 1..Len(p) : p[j] # 0 => p[j] \in 1..Len(p) /\ p[j] < j
  BY <1>0
<1>1. 0 \in Z
  <2>1. \A j \in 1..0 : FALSE
    OBVIOUS
  <2> QED BY <2>1
<1>2. ASSUME NEW n \in Z PROVE n + 1 \in Z
  <2>0. n \in Nat
    OBVIOUS
  <2>a. ASSUME n + 1 <= Len(p) PROVE \E f : \A j \in 1..(n + 1) : f[j] = Up(f, j)
    <3>0. n <= Len(p)
      BY <1>0, <2>0, <2>a
    <3>1. PICK f : \A j \in 1..n : f[j] = Up(f, j)
      BY <3>0
    <3> DEFINE u == Up(f, n + 1)
               g == [j \in 1..(n + 1) |-> IF j = n + 1 THEN u ELSE f[j]]
    <3> HIDE DEF u, Up, Z
    <3>2. /\ \A j \in 1..n : g[j] = f[j]
          /\ g[n + 1] = u
      BY <2>0
    <3> HIDE DEF g
    <3>3. \A j \in 1..(n + 1) : p[j] # 0 => p[j] \in 1..n
      BY <1>0, <1>b, <2>0, <2>a
    <3>4. \A j \in 1..(n + 1) : p[j] # 0 => g[p[j]] = f[p[j]]
      BY <3>2, <3>3
    <3>5. \A j \in 1..(n + 1) : Up(f, j) = Up(g, j)
      BY <1>a, <3>4
    <3>6. \A j \in 1..(n + 1) : j \in 1..n \/ j = n + 1
      BY <2>0
    <3>7. \A j \in 1..(n + 1) : g[j] = Up(f, j)
      BY <3>1, <3>2, <3>6 DEF u
    <3> QED BY <3>5, <3>7
  <2>b. Upto(n + 1)
    <3> HIDE DEF Up
    <3> QED BY <2>a
  <2> HIDE DEF Upto
  <2> QED BY <2>0, <2>b
<1>3. Nat \subseteq Z
  <2> HIDE DEF Z
  <2> QED BY <1>1, <1>2, SetInduction
<1>c. Upto(Len(p)) /\ Len(p) <= Len(p)
  <2> HIDE DEF Upto
  <2> QED BY <1>0, <1>3
<1>4. PICK f : \A j \in 1..Len(p) : f[j] = Up(f, j)
  <2> HIDE DEF Up
  <2> QED BY <1>c
<1> DEFINE g == [j \in 1..Len(p) |-> f[j]]
<1>5. \A j \in 1..Len(p) : p[j] # 0 => g[p[j]] = f[p[j]]
  BY <1>b
<1>6. \A j \in 1..Len(p) : g[j] = f[j]
  OBVIOUS
<1>7. \A j \in 1..Len(p) : g[j] = Up(g, j)
  <2> HIDE DEF g, Up
  <2>1. \A j \in 1..Len(p) : Up(f, j) = Up(g, j)
    BY <1>a, <1>5
  <2> QED BY <1>4, <1>6, <2>1
<1>8. g = [j \in 1..Len(p) |-> g[j]]
  BY <1>6
<1> HIDE DEF g
<1>9. g = [j \in 1..Len(p) |-> Up(g, j)]
  BY <1>7, <1>8
<1> QED BY <1>9 DEF Climbs

LEMMA LineageUnfold ==
    ASSUME NEW p, IsShape(p), NEW i \in 1..Len(p)
    PROVE  Lineage(p, i) = IF p[i] = 0 THEN {i} ELSE {i} \cup Lineage(p, p[i])
<1> DEFINE f == CHOOSE g : Climbs(g, p)
           h == [j \in 1..Len(p) |-> IF p[j] = 0 THEN {j} ELSE {j} \cup f[p[j]]]
<1>1. Climbs(f, p)
  BY ClimbsExists
<1>2. \A j : Lineage(p, j) = f[j]
  BY DEF Lineage, Climbs
<1>3. f = h
  BY <1>1 DEF Climbs
<1>4. h[i] = IF p[i] = 0 THEN {i} ELSE {i} \cup f[p[i]]
  OBVIOUS
<1> HIDE DEF f, h
<1> QED BY <1>2, <1>3, <1>4

LEMMA LineageHasItself ==
    ASSUME NEW p, IsShape(p), NEW i \in 1..Len(p)
    PROVE  i \in Lineage(p, i)
BY LineageUnfold

LEMMA LineageHasParent ==
    ASSUME NEW p, IsShape(p), NEW i \in 1..Len(p), NEW j \in 1..Len(p), p[j] = i
    PROVE  i \in Lineage(p, j)
<1>1. i # 0
  OBVIOUS
<1> QED BY <1>1, LineageUnfold, LineageHasItself

LEMMA LineageHasRoot ==
    ASSUME NEW p, IsShape(p), NEW i \in 1..Len(p)
    PROVE  1 \in Lineage(p, i)
<1> DEFINE R == {j \in 1..Len(p) : 1 \notin Lineage(p, j)}
<1>0. /\ Len(p) \in Nat /\ p[1] = 0 /\ 1 \in 1..Len(p)
      /\ \A j \in 2..Len(p) : p[j] \in 1..(j - 1)
  BY DEF IsShape
<1>1. ASSUME R # {} PROVE FALSE
  <2>1. PICK m \in R : \A r \in R : m <= r
    <3>1. R \subseteq Nat
      BY <1>0
    <3> HIDE DEF R
    <3> QED BY <1>1, <3>1, LeastOf
  <2>2. m # 1
    BY <1>0, LineageHasItself
  <2>3. p[m] \in 1..(m - 1) /\ p[m] \in 1..Len(p) /\ p[m] # 0
    BY <1>0, <2>1, <2>2
  <2>4. p[m] \notin R
    BY <1>0, <2>1, <2>3
  <2>5. 1 \in Lineage(p, p[m])
    BY <2>3, <2>4
  <2>6. 1 \in Lineage(p, m)
    BY <2>3, <2>5, LineageUnfold
  <2> QED BY <2>1, <2>6
<1> QED BY <1>1

-----------------------------------------------------------------------------
(* The findings of a node.                                                 *)
IssueCategories == {"type_mismatch", "sequential_scan", "stale_stats", "missing_index"}

Issues == [category : IssueCategories, severity : {"high", "medium"},
           table : Relations \cup {NoRelation}, evidence : Nodes, figures : {"plain"}]

(* What is known of the indexes: relations and their rows.                 *)
IsMetadata(metadata) ==
    /\ DOMAIN metadata \subseteq Relations
    /\ metadata \in [DOMAIN metadata -> Nat]

LEMMA TimesType ==
    ASSUME NEW a \in Nat, NEW b \in Nat
    PROVE  a * b \in Nat
OBVIOUS

LEMMA NodeFields ==
    ASSUME NEW node \in Nodes
    PROVE  /\ node.type \in NodeTypes
           /\ node.relation \in Relations \cup {NoRelation}
           /\ node.rows \in Nat /\ node.planned \in Nat /\ node.removed \in Nat
           /\ node.loops \in Nat /\ node.casts \in Nat
BY DEF Nodes

LEMMA RowsExaminedType ==
    ASSUME NEW node \in Nodes
    PROVE  RowsExamined(node) \in Nat
<1>1. node.rows + node.removed \in Nat
  BY NodeFields
<1>2. (IF node.loops = 0 THEN 1 ELSE node.loops) \in Nat
  BY NodeFields
<1> QED BY <1>1, <1>2, TimesType DEF RowsExamined

LEMMA PlanFields ==
    ASSUME NEW plan, IsPlan(plan)
    PROVE  /\ IsShape(plan.parent)
           /\ plan.node \in Seq(Nodes)
           /\ DOMAIN plan.node = 1..Len(plan.parent)
           /\ DOMAIN plan.parent = 1..Len(plan.parent)
           /\ Len(plan.parent) \in Nat
           /\ \A i \in DOMAIN plan.node : plan.node[i] \in Nodes
<1>1. plan.node \in Seq(Nodes) /\ plan.parent \in Seq(Nat) /\ IsShape(plan.parent)
      /\ Len(plan.node) = Len(plan.parent)
  BY DEF IsPlan, IsShape
<1> QED BY <1>1, ElementOfSeq, LenProperties

LEMMA FoundType ==
    ASSUME NEW category \in IssueCategories, NEW severity \in {"high", "medium"},
           NEW node \in Nodes
    PROVE  /\ Found(category, severity, node) \in Issues
           /\ Found(category, severity, node).category = category
           /\ Found(category, severity, node).evidence = node
BY NodeFields DEF Found, Issues

LEMMA SingletonSeq ==
    ASSUME NEW S, NEW x \in S
    PROVE  <<x>> \in Seq(S) /\ ToSet(<<x>>) = {x}
BY DEF ToSet

LEMMA NothingSeq ==
    ASSUME NEW S
    PROVE  <<>> \in Seq(S) /\ ToSet(<<>>) = {}
BY DEF ToSet

LEMMA RepeatType ==
    ASSUME NEW S, NEW x \in S, NEW n \in Nat
    PROVE  /\ Repeat(x, n) \in Seq(S)
           /\ ToSet(Repeat(x, n)) \subseteq {x}
           /\ Repeat(x, n) # <<>> => x \in ToSet(Repeat(x, n))
BY DEF Repeat, ToSet

LEMMA CastFindingsType ==
    ASSUME NEW plan, IsPlan(plan), NEW i \in DOMAIN plan.node,
           NEW metadata
    PROVE  /\ CastFindings(plan, i, metadata) \in Seq(Issues)
           /\ \A f \in ToSet(CastFindings(plan, i, metadata)) :
                 f.category = "type_mismatch" /\ f.evidence = plan.node[i]
           /\ CastFindings(plan, i, metadata) # <<>> =>
                 ToSet(CastFindings(plan, i, metadata)) # {}
<1> DEFINE node == plan.node[i]
           severity == SeverityOfRows(CastRows(node, metadata))
           x == Found("type_mismatch", severity, node)
<1>1. node \in Nodes /\ node.casts \in Nat
  BY PlanFields, NodeFields
<1>2. severity \in {"high", "medium"}
  BY DEF SeverityOfRows
<1>3. x \in Issues /\ x.category = "type_mismatch" /\ x.evidence = node
  <2> HIDE DEF node, severity
  <2> QED BY <1>1, <1>2, FoundType DEF IssueCategories
<1>4. \/ CastFindings(plan, i, metadata) = Repeat(x, node.casts)
      \/ CastFindings(plan, i, metadata) = <<>>
  BY DEF CastFindings
<1> HIDE DEF x, node
<1>5. CASE CastFindings(plan, i, metadata) = Repeat(x, node.casts)
  <2> DEFINE r == Repeat(x, node.casts)
  <2>1. /\ r \in Seq(Issues) /\ ToSet(r) \subseteq {x}
        /\ r # <<>> => x \in ToSet(r)
    <3>1. node.casts \in Nat
      BY <1>1 DEF node
    <3> QED BY <1>3, <3>1, RepeatType
  <2>2. CastFindings(plan, i, metadata) = r
    BY <1>5
  <2>3. x.category = "type_mismatch" /\ x.evidence = plan.node[i]
    BY <1>3 DEF node
  <2> HIDE DEF r
  <2> QED BY <2>1, <2>2, <2>3
<1>6. CASE CastFindings(plan, i, metadata) = <<>>
  BY <1>6, NothingSeq
<1> QED BY <1>4, <1>5, <1>6

LEMMA ScanFindingsType ==
    ASSUME NEW plan, IsPlan(plan), NEW i \in DOMAIN plan.node, NEW found
    PROVE  /\ ScanFindings(plan, i, found) \in Seq(Issues)
           /\ \A f \in ToSet(ScanFindings(plan, i, found)) :
                 f.category = "sequential_scan" /\ f.evidence = plan.node[i]
<1> DEFINE node == plan.node[i]
           x == Found("sequential_scan", SeverityOfRows(RowsExamined(node)), node)
<1>1. node \in Nodes /\ SeverityOfRows(RowsExamined(node)) \in {"high", "medium"}
  BY PlanFields DEF SeverityOfRows
<1>2. x \in Issues /\ x.category = "sequential_scan" /\ x.evidence = plan.node[i]
  BY <1>1, FoundType DEF IssueCategories
<1>3. \/ ScanFindings(plan, i, found) = <<x>>
      \/ ScanFindings(plan, i, found) = <<>>
  BY DEF ScanFindings
<1> DEFINE r == ScanFindings(plan, i, found)
<1>4. <<x>> \in Seq(Issues) /\ ToSet(<<x>>) = {x}
  BY <1>2, SingletonSeq
<1>5. <<>> \in Seq(Issues) /\ ToSet(<<>>) = {}
  BY NothingSeq
<1> HIDE DEF x, r
<1>6. r \in Seq(Issues) /\ ToSet(r) \subseteq {x}
  BY <1>3, <1>4, <1>5 DEF r
<1> QED BY <1>2, <1>6 DEF r

LEMMA EstimateFindingsType ==
    ASSUME NEW plan, IsPlan(plan), NEW i \in DOMAIN plan.node
    PROVE  /\ EstimateFindings(plan, i) \in Seq(Issues)
           /\ \A f \in ToSet(EstimateFindings(plan, i)) :
                 f.category = "stale_stats" /\ f.evidence = plan.node[i]
<1> DEFINE node == plan.node[i]
           x == Found("stale_stats", "medium", node)
<1>1. node \in Nodes
  BY PlanFields
<1>2. x \in Issues /\ x.category = "stale_stats" /\ x.evidence = plan.node[i]
  BY <1>1, FoundType DEF IssueCategories
<1>3. \/ EstimateFindings(plan, i) = <<x>>
      \/ EstimateFindings(plan, i) = <<>>
  BY DEF EstimateFindings
<1> DEFINE r == EstimateFindings(plan, i)
<1>4. <<x>> \in Seq(Issues) /\ ToSet(<<x>>) = {x}
  BY <1>2, SingletonSeq
<1>5. <<>> \in Seq(Issues) /\ ToSet(<<>>) = {}
  BY NothingSeq
<1> HIDE DEF x, r
<1>6. r \in Seq(Issues) /\ ToSet(r) \subseteq {x}
  BY <1>3, <1>4, <1>5 DEF r
<1> QED BY <1>2, <1>6 DEF r

(* The child that stands for the inner side of a nested loop. *)
Inner(plan, i) ==
    CHOOSE j \in Children(plan, i) : \A k \in Children(plan, i) : k <= j

LEMMA InnerIsChild ==
    ASSUME NEW plan, IsPlan(plan), NEW i \in DOMAIN plan.node, Children(plan, i) # {}
    PROVE  Inner(plan, i) \in Children(plan, i) /\ Inner(plan, i) \in DOMAIN plan.node
<1>1. Children(plan, i) \subseteq 1..Len(plan.parent) /\ Len(plan.parent) \in Nat
  BY PlanFields DEF Children
<1>2. \E j \in Children(plan, i) : \A k \in Children(plan, i) : k <= j
  BY <1>1, LastOf
<1>3. Inner(plan, i) \in Children(plan, i)
  BY <1>2 DEF Inner
<1> QED BY <1>1, <1>3, PlanFields

LEMMA LoopFindingsType ==
    ASSUME NEW plan, IsPlan(plan), NEW i \in DOMAIN plan.node, NEW schema
    PROVE  /\ LoopFindings(plan, i, schema) \in Seq(Issues)
           /\ \A f \in ToSet(LoopFindings(plan, i, schema)) :
                 /\ f.category = "missing_index"
                 /\ Children(plan, i) # {}
                 /\ f.evidence = plan.node[Inner(plan, i)]
<1> DEFINE node == plan.node[Inner(plan, i)]
           x == [Found("missing_index", "high", node) EXCEPT !.table = NoRelation]
<1>1. CASE Children(plan, i) # {}
  <2>1. node \in Nodes
    BY <1>1, InnerIsChild, PlanFields
  <2>2. x \in Issues /\ x.category = "missing_index" /\ x.evidence = node
    <3> HIDE DEF node
    <3> QED BY <2>1 DEF Found, Issues, IssueCategories
  <2>3. \/ LoopFindings(plan, i, schema) = <<x>>
        \/ LoopFindings(plan, i, schema) = <<>>
    BY DEF LoopFindings, Inner
  <2> HIDE DEF x
  <2> QED BY <1>1, <2>2, <2>3, SingletonSeq, NothingSeq
<1>2. CASE Children(plan, i) = {}
  <2>1. LoopFindings(plan, i, schema) = <<>>
    BY <1>2 DEF LoopFindings
  <2> QED BY <2>1, NothingSeq
<1> QED BY <1>1, <1>2

-----------------------------------------------------------------------------
(* What each rule says of a node, for one schema or for all. *)
CastsAt(plan, i, metadata, schema) ==
    IF RelationInScope(plan, i, schema) THEN CastFindings(plan, i, metadata) ELSE <<>>

ScansAt(plan, i, metadata, schema) ==
    IF RelationInScope(plan, i, schema)
    THEN ScanFindings(plan, i, CastsAt(plan, i, metadata, schema)) ELSE <<>>

EstimatesAt(plan, i, schema) ==
    IF NodeInScope(plan, i, schema) THEN EstimateFindings(plan, i) ELSE <<>>

LoopsAt(plan, i, schema) ==
    IF NodeInScope(plan, i, schema) THEN LoopFindings(plan, i, schema) ELSE <<>>

LEMMA NodeFindingsAre ==
    ASSUME NEW plan, NEW i, NEW metadata, NEW schema
    PROVE  NodeFindings(plan, i, metadata, schema) =
              CastsAt(plan, i, metadata, schema) \o ScansAt(plan, i, metadata, schema)
                  \o EstimatesAt(plan, i, schema) \o LoopsAt(plan, i, schema)
BY DEF NodeFindings, CastsAt, ScansAt, EstimatesAt, LoopsAt

LEMMA PartsType ==
    ASSUME NEW plan, IsPlan(plan), NEW i \in DOMAIN plan.node, NEW metadata, NEW schema
    PROVE  /\ CastsAt(plan, i, metadata, schema) \in Seq(Issues)
           /\ ScansAt(plan, i, metadata, schema) \in Seq(Issues)
           /\ EstimatesAt(plan, i, schema) \in Seq(Issues)
           /\ LoopsAt(plan, i, schema) \in Seq(Issues)
BY CastFindingsType, ScanFindingsType, EstimateFindingsType, LoopFindingsType, NothingSeq
   DEF CastsAt, ScansAt, EstimatesAt, LoopsAt

LEMMA Concats ==
    ASSUME NEW S, NEW T
    PROVE  \A s, t \in Seq(S) :
              /\ s \o t \in Seq(S)
              /\ ToSet(s \o t) = ToSet(s) \cup ToSet(t)
              /\ Among(s \o t, T) = Among(s, T) \o Among(t, T)
<1>1. \A s, t \in Seq(S) : s \o t \in Seq(S)
  OBVIOUS
<1>2. \A s, t \in Seq(S) : ToSet(s \o t) = ToSet(s) \cup ToSet(t)
  BY ToSetConcat
<1>3. \A s, t \in Seq(S) : Among(s \o t, T) = Among(s, T) \o Among(t, T)
  BY AmongConcat
<1> QED BY <1>1, <1>2, <1>3

LEMMA NodeFindingsParts ==
    ASSUME NEW plan, IsPlan(plan), NEW i \in DOMAIN plan.node, NEW metadata, NEW schema,
           NEW T
    PROVE  /\ NodeFindings(plan, i, metadata, schema) \in Seq(Issues)
           /\ ToSet(NodeFindings(plan, i, metadata, schema)) =
                 ToSet(CastsAt(plan, i, metadata, schema))
                     \cup ToSet(ScansAt(plan, i, metadata, schema))
                     \cup ToSet(EstimatesAt(plan, i, schema))
                     \cup ToSet(LoopsAt(plan, i, schema))
           /\ Among(NodeFindings(plan, i, metadata, schema), T) =
                 Among(CastsAt(plan, i, metadata, schema), T)
                     \o Among(ScansAt(plan, i, metadata, schema), T)
                     \o Among(EstimatesAt(plan, i, schema), T)
                     \o Among(LoopsAt(plan, i, schema), T)
<1> DEFINE a == CastsAt(plan, i, metadata, schema)
           b == ScansAt(plan, i, metadata, schema)
           c == EstimatesAt(plan, i, schema)
           d == LoopsAt(plan, i, schema)
           e == a \o b
           g == e \o c
           h == g \o d
           All == Seq(Issues)
<1>1. \A s, t \in All :
         /\ s \o t \in All
         /\ ToSet(s \o t) = ToSet(s) \cup ToSet(t)
         /\ Among(s \o t, T) = Among(s, T) \o Among(t, T)
  BY Concats
<1>2. a \in All /\ b \in All /\ c \in All /\ d \in All
  BY PartsType
<1>3. h = NodeFindings(plan, i, metadata, schema)
  BY NodeFindingsAre
<1> HIDE DEF a, b, c, d, All
<1>4. /\ e \in All /\ ToSet(e) = ToSet(a) \cup ToSet(b)
      /\ Among(e, T) = Among(a, T) \o Among(b, T)
  BY <1>1, <1>2
<1> HIDE DEF e
<1>5. /\ g \in All /\ ToSet(g) = ToSet(e) \cup ToSet(c)
      /\ Among(g, T) = Among(e, T) \o Among(c, T)
  BY <1>1, <1>2, <1>4
<1> HIDE DEF g
<1>6. /\ h \in All /\ ToSet(h) = ToSet(g) \cup ToSet(d)
      /\ Among(h, T) = Among(g, T) \o Among(d, T)
  BY <1>1, <1>2, <1>5
<1> HIDE DEF h
<1>7. Among(h, T) = Among(a, T) \o Among(b, T) \o Among(c, T) \o Among(d, T)
  BY <1>4, <1>5, <1>6
<1>8. ToSet(h) = ToSet(a) \cup ToSet(b) \cup ToSet(c) \cup ToSet(d)
  BY <1>4, <1>5, <1>6
<1> QED BY <1>3, <1>6, <1>7, <1>8 DEF a, b, c, d, All

(* What a scope check lets through, as evidence: a node of the plan; for   *)
(* casts and scans of one schema, a node that names the schema.            *)
LEMMA NodeFindingsOfSchema ==
    ASSUME NEW plan, IsPlan(plan), NEW i \in DOMAIN plan.node, NEW metadata, NEW schema,
           NEW f \in ToSet(NodeFindings(plan, i, metadata, schema))
    PROVE  /\ \E j \in DOMAIN plan.node : f.evidence = plan.node[j]
           /\ f.category \in {"type_mismatch", "sequential_scan"} /\ schema # AnySchema
                 => NamesSchema(f.evidence, schema)
<1> DEFINE a == CastsAt(plan, i, metadata, schema)
           b == ScansAt(plan, i, metadata, schema)
           c == EstimatesAt(plan, i, schema)
           d == LoopsAt(plan, i, schema)
<1>1. f \in ToSet(a) \cup ToSet(b) \cup ToSet(c) \cup ToSet(d)
  BY NodeFindingsParts
<1>2. ASSUME f \in ToSet(a)
      PROVE  f.evidence = plan.node[i] /\ RelationInScope(plan, i, schema)
  BY <1>2, CastFindingsType, NothingSeq DEF CastsAt
<1>3. ASSUME f \in ToSet(b)
      PROVE  f.evidence = plan.node[i] /\ RelationInScope(plan, i, schema)
  <2>1. RelationInScope(plan, i, schema) /\ f \in ToSet(ScanFindings(plan, i, a))
    BY <1>3, NothingSeq DEF ScansAt
  <2> HIDE DEF a
  <2> QED BY <2>1, ScanFindingsType
<1>4. ASSUME f \in ToSet(c)
      PROVE  f.evidence = plan.node[i] /\ f.category = "stale_stats"
  BY <1>4, EstimateFindingsType, NothingSeq DEF EstimatesAt
<1>5. ASSUME f \in ToSet(d)
      PROVE  /\ \E j \in DOMAIN plan.node : f.evidence = plan.node[j]
             /\ f.category = "missing_index"
  <2>1. f \in ToSet(LoopFindings(plan, i, schema))
    BY <1>5, NothingSeq DEF LoopsAt
  <2> QED BY <2>1, LoopFindingsType, InnerIsChild
<1> HIDE DEF a, b, c, d
<1> QED BY <1>1, <1>2, <1>3, <1>4, <1>5 DEF RelationInScope

LEMMA TimesZero ==
    ASSUME NEW a \in Nat
    PROVE  a * 0 = 0
OBVIOUS

LEMMA RowsOfLoops ==
    ASSUME NEW node \in Nodes, (node.rows + node.removed) * node.loops > ManyRows
    PROVE  RowsExamined(node) > ManyRows
<1> DEFINE m == node.rows + node.removed
<1>1. m \in Nat /\ ManyRows \in Nat
  BY NodeFields, ThresholdAssumption
<1>2. m * node.loops > ManyRows
  OBVIOUS
<1> HIDE DEF m
<1>3. m * 0 = 0
  BY <1>1, TimesZero
<1>4. node.loops # 0
  BY <1>1, <1>2, <1>3
<1> QED BY <1>4 DEF RowsExamined

(* A large scan in scope is reported, as a scan or as a cast. *)
LEMMA LargeScanIsFound ==
    ASSUME NEW plan, IsPlan(plan), NEW i \in DOMAIN plan.node, NEW metadata, NEW schema,
           plan.node[i].type = "Seq Scan", RelationInScope(plan, i, schema),
           (plan.node[i].rows + plan.node[i].removed) * plan.node[i].loops > ManyRows
    PROVE  \E f \in ToSet(NodeFindings(plan, i, metadata, schema)) :
              /\ f.evidence = plan.node[i]
              /\ f.category \in {"type_mismatch", "sequential_scan"}
<1> DEFINE node == plan.node[i]
           x == Found("sequential_scan", SeverityOfRows(RowsExamined(node)), node)
           a == CastsAt(plan, i, metadata, schema)
           b == ScansAt(plan, i, metadata, schema)
<1>1. ToSet(a) \cup ToSet(b) \subseteq ToSet(NodeFindings(plan, i, metadata, schema))
  <2>1. ToSet(NodeFindings(plan, i, metadata, schema)) =
           ToSet(a) \cup ToSet(b) \cup ToSet(EstimatesAt(plan, i, schema))
               \cup ToSet(LoopsAt(plan, i, schema))
    BY NodeFindingsParts
  <2> HIDE DEF a, b
  <2> QED BY <2>1
<1>2. RowsExamined(node) > ManyRows
  BY PlanFields, RowsOfLoops
<1>3. CASE a # <<>>
  <2>1. a = CastFindings(plan, i, metadata)
    BY DEF CastsAt
  <2>2. PICK f \in ToSet(a) : f.category = "type_mismatch" /\ f.evidence = plan.node[i]
    <3> DEFINE r == CastFindings(plan, i, metadata)
    <3>1. /\ \A f \in ToSet(r) : f.category = "type_mismatch" /\ f.evidence = plan.node[i]
          /\ r # <<>> => ToSet(r) # {}
      BY CastFindingsType
    <3>2. a = r
      BY <2>1
    <3> HIDE DEF a, r
    <3> QED BY <1>3, <3>1, <3>2
  <2> HIDE DEF a, b
  <2> QED BY <1>1, <2>2
<1>4. CASE a = <<>>
  <2>1. b = <<x>>
    BY <1>2, <1>4 DEF ScansAt, ScanFindings
  <2>2. ToSet(b) = {x}
    <3> HIDE DEF b, x
    <3> QED BY <2>1, SingletonSeq
  <2>3. x.category = "sequential_scan" /\ x.evidence = plan.node[i]
    BY DEF Found
  <2> HIDE DEF a, b, x
  <2> QED BY <1>1, <2>2, <2>3
<1> QED BY <1>3, <1>4

(* A node that names the schema puts itself and its parent in scope. *)
LEMMA NamingIsInScope ==
    ASSUME NEW plan, IsPlan(plan), NEW i \in DOMAIN plan.node, NEW schema,
           NamesSchema(plan.node[i], schema)
    PROVE  /\ RelationInScope(plan, i, schema)
           /\ NodeInScope(plan, i, schema)
           /\ PlanReferences(plan, schema)
           /\ \A j \in DOMAIN plan.node :
                 i \in Children(plan, j) => NodeInScope(plan, j, schema)
<1> DEFINE p == plan.parent
<1>1. /\ IsShape(p) /\ DOMAIN p = 1..Len(p) /\ DOMAIN plan.node = 1..Len(p)
      /\ i \in 1..Len(p)
  BY PlanFields
<1>2. i \in Lineage(p, i) /\ 1 \in Lineage(p, i)
  <2> HIDE DEF p
  <2> QED BY <1>1, LineageHasItself, LineageHasRoot
<1>3. \A j \in 1..Len(p) : p[i] = j => j \in Lineage(p, i)
  <2> HIDE DEF p
  <2> QED BY <1>1, LineageHasParent
<1>4. NodeReferences(plan, i, schema) /\ NodeReferences(plan, 1, schema)
  BY <1>1, <1>2 DEF NodeReferences, Subtree
<1>5. \A j \in DOMAIN plan.node :
         i \in Children(plan, j) => NodeReferences(plan, j, schema)
  BY <1>1, <1>3 DEF NodeReferences, Subtree, Children
<1> QED BY <1>4, <1>5 DEF RelationInScope, NodeInScope, PlanReferences

(* The findings that have a node of the schema as their evidence. *)
Naming(schema) == {f \in Issues : NamesSchema(f.evidence, schema)}

LEMMA NoneNaming ==
    ASSUME NEW s \in Seq(Issues), NEW schema,
           \A f \in ToSet(s) : ~ NamesSchema(f.evidence, schema)
    PROVE  Among(s, Naming(schema)) = <<>>
<1>1. ToSet(s) \cap Naming(schema) = {}
  BY DEF Naming
<1> QED BY <1>1, AmongNone

(* The scope checks of a node lose none of them. *)
LEMMA ScopeOfNode ==
    ASSUME NEW plan, IsPlan(plan), NEW i \in DOMAIN plan.node, NEW metadata,
           NEW schema
    PROVE  Among(NodeFindings(plan, i, metadata, schema), Naming(schema)) =
              Among(NodeFindings(plan, i, metadata, AnySchema), Naming(schema))
<1> DEFINE T == Naming(schema)
<1>0. \A j : RelationInScope(plan, j, AnySchema) /\ NodeInScope(plan, j, AnySchema)
  BY DEF RelationInScope, NodeInScope
<1>e. Among(<<>>, T) = <<>>
  BY AmongEmpty
<1>1. Among(CastsAt(plan, i, metadata, schema), T) =
         Among(CastsAt(plan, i, metadata, AnySchema), T)
  <2> DEFINE r == CastFindings(plan, i, metadata)
  <2>1. CastsAt(plan, i, metadata, AnySchema) = r
    BY <1>0 DEF CastsAt
  <2>2. CASE RelationInScope(plan, i, schema)
    BY <2>1, <2>2 DEF CastsAt
  <2>3. CASE ~ RelationInScope(plan, i, schema)
    <3>1. ~ NamesSchema(plan.node[i], schema)
      BY <2>3, NamingIsInScope
    <3>2. Among(r, T) = <<>>
      BY <3>1, CastFindingsType, NoneNaming
    <3> QED BY <1>e, <2>1, <2>3, <3>2 DEF CastsAt
  <2> QED BY <2>2, <2>3
<1>2. Among(ScansAt(plan, i, metadata, schema), T) =
         Among(ScansAt(plan, i, metadata, AnySchema), T)
  <2>1. CASE RelationInScope(plan, i, schema)
    <3>1. CastsAt(plan, i, metadata, schema) = CastsAt(plan, i, metadata, AnySchema)
      BY <1>0, <2>1 DEF CastsAt
    <3> QED BY <1>0, <2>1, <3>1 DEF ScansAt
  <2>2. CASE ~ RelationInScope(plan, i, schema)
    <3> DEFINE a == CastsAt(plan, i, metadata, AnySchema)
               r == ScanFindings(plan, i, a)
    <3>1. ~ NamesSchema(plan.node[i], schema)
      BY <2>2, NamingIsInScope
    <3>2. Among(r, T) = <<>>
      <4> HIDE DEF a
      <4> QED BY <3>1, ScanFindingsType, NoneNaming
    <3>3. ScansAt(plan, i, metadata, AnySchema) = r
      BY <1>0 DEF ScansAt
    <3> QED BY <1>e, <2>2, <3>2, <3>3 DEF ScansAt
  <2> QED BY <2>1, <2>2
<1>3. Among(EstimatesAt(plan, i, schema), T) = Among(EstimatesAt(plan, i, AnySchema), T)
  <2> DEFINE r == EstimateFindings(plan, i)
  <2>1. EstimatesAt(plan, i, AnySchema) = r
    BY <1>0 DEF EstimatesAt
  <2>2. CASE NodeInScope(plan, i, schema)
    BY <2>1, <2>2 DEF EstimatesAt
  <2>3. CASE ~ NodeInScope(plan, i, schema)
    <3>1. ~ NamesSchema(plan.node[i], schema)
      BY <2>3, NamingIsInScope
    <3>2. Among(r, T) = <<>>
      BY <3>1, EstimateFindingsType, NoneNaming
    <3> QED BY <1>e, <2>1, <2>3, <3>2 DEF EstimatesAt
  <2> QED BY <2>2, <2>3
<1>4. Among(LoopsAt(plan, i, schema), T) = Among(LoopsAt(plan, i, AnySchema), T)
  <2> DEFINE r == LoopsAt(plan, i, schema)
             t == LoopsAt(plan, i, AnySchema)
             j == Inner(plan, i)
  <2>1. CASE Children(plan, i) # {} /\ NamesSchema(plan.node[j], schema)
    <3>1. j \in Children(plan, i) /\ j \in DOMAIN plan.node
      BY <2>1, InnerIsChild
    <3>2. NodeInScope(plan, j, schema) /\ NodeInScope(plan, i, schema)
      BY <2>1, <3>1, NamingIsInScope
    <3>3. LoopFindings(plan, i, schema) = LoopFindings(plan, i, AnySchema)
      <4>1. NodeInScope(plan, j, schema) = NodeInScope(plan, j, AnySchema)
        BY <1>0, <3>2 DEF NodeInScope
      <4> QED BY <4>1 DEF LoopFindings, Inner
    <3> QED BY <1>0, <3>2, <3>3 DEF LoopsAt
  <2>2. CASE ~ (Children(plan, i) # {} /\ NamesSchema(plan.node[j], schema))
    <3>1. ASSUME NEW s
          PROVE  /\ LoopsAt(plan, i, s) \in Seq(Issues)
                 /\ \A f \in ToSet(LoopsAt(plan, i, s)) : ~ NamesSchema(f.evidence, schema)
      <4>1. \A f \in ToSet(LoopFindings(plan, i, s)) : ~ NamesSchema(f.evidence, schema)
        BY <2>2, LoopFindingsType
      <4> QED BY <4>1, PartsType, NothingSeq DEF LoopsAt
    <3>2. \A s : Among(LoopsAt(plan, i, s), T) = <<>>
      BY <3>1, NoneNaming
    <3> QED BY <3>2
  <2> QED BY <2>1, <2>2
<1>5. ASSUME NEW s
      PROVE  Among(NodeFindings(plan, i, metadata, s), T) =
                Among(CastsAt(plan, i, metadata, s), T)
                    \o Among(ScansAt(plan, i, metadata, s), T)
                    \o Among(EstimatesAt(plan, i, s), T) \o Among(LoopsAt(plan, i, s), T)
  BY NodeFindingsParts
<1> HIDE DEF T
<1>6. Among(NodeFindings(plan, i, metadata, schema), T) =
         Among(NodeFindings(plan, i, metadata, AnySchema), T)
  BY <1>1, <1>2, <1>3, <1>4, <1>5
<1> QED BY <1>6 DEF T

-----------------------------------------------------------------------------
(* The findings of a plan. *)
ByNode(plan, metadata, schema) ==
    [i \in DOMAIN plan.node |-> NodeFindings(plan, i, metadata, schema)]

LEMMA ByNodeType ==
    ASSUME NEW plan, IsPlan(plan), NEW metadata, NEW schema
    PROVE  /\ ByNode(plan, metadata, schema) \in Seq(Seq(Issues))
           /\ DOMAIN ByNode(plan, metadata, schema) = DOMAIN plan.node
           /\ \A i \in DOMAIN plan.node :
                 ByNode(plan, metadata, schema)[i] = NodeFindings(plan, i, metadata, schema)
           /\ DetectPlanIssues(plan, metadata, schema)
                 = FlattenSeq(ByNode(plan, metadata, schema))
<1> DEFINE All == Seq(Issues)
<1>1. DOMAIN plan.node = 1..Len(plan.parent) /\ Len(plan.parent) \in Nat
  BY PlanFields
<1>2. \A i \in DOMAIN plan.node : NodeFindings(plan, i, metadata, schema) \in All
  BY NodeFindingsParts
<1> HIDE DEF All
<1>3. ByNode(plan, metadata, schema) \in Seq(All)
  BY <1>1, <1>2 DEF ByNode
<1> QED BY <1>3 DEF All, ByNode, DetectPlanIssues

LEMMA DetectType ==
    ASSUME NEW plan, IsPlan(plan), NEW metadata, NEW schema
    PROVE  /\ DetectPlanIssues(plan, metadata, schema) \in Seq(Issues)
           /\ \A f : f \in ToSet(DetectPlanIssues(plan, metadata, schema)) <=>
                 \E i \in DOMAIN plan.node :
                    f \in ToSet(NodeFindings(plan, i, metadata, schema))
<1> DEFINE parts == ByNode(plan, metadata, schema)
<1>1. /\ parts \in Seq(Seq(Issues))
      /\ DOMAIN parts = DOMAIN plan.node
      /\ \A i \in DOMAIN plan.node : parts[i] = NodeFindings(plan, i, metadata, schema)
      /\ DetectPlanIssues(plan, metadata, schema) = FlattenSeq(parts)
  BY ByNodeType
<1> HIDE DEF parts
<1>2. FlattenSeq(parts) \in Seq(Issues)
  BY <1>1, FlattenType
<1>3. ToSet(FlattenSeq(parts)) = UNION {ToSet(part) : part \in ToSet(parts)}
  BY <1>1, FlattenToSet
<1>4. \A part : part \in ToSet(parts) <=>
         \E i \in DOMAIN plan.node : part = NodeFindings(plan, i, metadata, schema)
  BY <1>1 DEF ToSet
<1> QED BY <1>1, <1>2, <1>3, <1>4

(* Selecting from the findings is selecting from those of every node. *)
LEMMA AmongDetected ==
    ASSUME NEW plan, IsPlan(plan), NEW metadata, NEW schema, NEW T
    PROVE  Among(DetectPlanIssues(plan, metadata, schema), T) =
              FlattenSeq([i \in DOMAIN plan.node |->
                             Among(NodeFindings(plan, i, metadata, schema), T)])
<1> DEFINE parts == ByNode(plan, metadata, schema)
<1>1. /\ parts \in Seq(Seq(Issues))
      /\ DOMAIN parts = DOMAIN plan.node
      /\ \A i \in DOMAIN plan.node : parts[i] = NodeFindings(plan, i, metadata, schema)
      /\ DetectPlanIssues(plan, metadata, schema) = FlattenSeq(parts)
  BY ByNodeType
<1> HIDE DEF parts
<1>2. AmongEach(parts, T) = [i \in DOMAIN plan.node |->
                               Among(NodeFindings(plan, i, metadata, schema), T)]
  BY <1>1 DEF AmongEach
<1>3. Among(FlattenSeq(parts), T) = FlattenSeq(AmongEach(parts, T))
  BY <1>1, AmongFlatten
<1> QED BY <1>1, <1>2, <1>3

(* What a plan is said to show of a schema is the same whether it was      *)
(* asked about the schema or about all: the checks of the node and of the  *)
(* relation agree.  _walk_plan_node.                                       *)
THEOREM ScopeOfPlan ==
    ASSUME NEW plan, IsPlan(plan), NEW metadata, NEW schema
    PROVE  Among(DetectPlanIssues(plan, metadata, schema), Naming(schema)) =
              Among(DetectPlanIssues(plan, metadata, AnySchema), Naming(schema))
<1>1. \A i \in DOMAIN plan.node :
         Among(NodeFindings(plan, i, metadata, schema), Naming(schema)) =
            Among(NodeFindings(plan, i, metadata, AnySchema), Naming(schema))
  BY ScopeOfNode
<1>2. [i \in DOMAIN plan.node |->
          Among(NodeFindings(plan, i, metadata, schema), Naming(schema))] =
      [i \in DOMAIN plan.node |->
          Among(NodeFindings(plan, i, metadata, AnySchema), Naming(schema))]
  BY <1>1
<1>3. \A s : Among(DetectPlanIssues(plan, metadata, s), Naming(schema)) =
                FlattenSeq([i \in DOMAIN plan.node |->
                    Among(NodeFindings(plan, i, metadata, s), Naming(schema))])
  BY AmongDetected
<1> QED BY <1>2, <1>3

(* And a plan that references no relation of the schema shows nothing of   *)
(* it.  plan_references_schema.                                            *)
THEOREM UnreferencedShowsNothing ==
    ASSUME NEW plan, IsPlan(plan), NEW metadata, NEW schema,
           ~ PlanReferences(plan, schema)
    PROVE  Among(DetectPlanIssues(plan, metadata, AnySchema), Naming(schema)) = <<>>
<1> DEFINE r == DetectPlanIssues(plan, metadata, AnySchema)
<1>1. \A i \in DOMAIN plan.node : ~ NamesSchema(plan.node[i], schema)
  BY NamingIsInScope
<1>2. r \in Seq(Issues)
  BY DetectType
<1>3. ASSUME NEW f \in ToSet(r) PROVE ~ NamesSchema(f.evidence, schema)
  <2>1. PICK i \in DOMAIN plan.node :
           f \in ToSet(NodeFindings(plan, i, metadata, AnySchema))
    BY <1>3, DetectType
  <2>2. PICK j \in DOMAIN plan.node : f.evidence = plan.node[j]
    BY <2>1, NodeFindingsOfSchema
  <2> QED BY <1>1, <2>2
<1> HIDE DEF r
<1>4. Among(r, Naming(schema)) = <<>>
  BY <1>2, <1>3, NoneNaming
<1> QED BY <1>4 DEF r
=============================================================================
