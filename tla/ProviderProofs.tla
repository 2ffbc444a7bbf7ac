---------------------------- MODULE ProviderProofs ----------------------------
(***************************************************************************)
(* What the services of the providers do, proved for every payload, every  *)
(* answer and every error: what they make of a payload (ProviderRequest),  *)
(* of the text of an answer (JsonExtract) and of a raw error               *)
(* (LlmErrorMapper).                                                       *)
(***************************************************************************)
EXTENDS Integers, ProviderRequest, JsonExtract, LlmErrorMapper, SequenceTheorems,
        FiniteSetTheorems, WellFoundedInduction, TLAPS

-----------------------------------------------------------------------------
(* Induction over the natural numbers, in the form of sets, and what         *)
(* FlattenSeq does with sequences of sequences: most of what is sent and     *)
(* received is put together by it.                                           *)

\* The order of the natural numbers, as a set of pairs.
Below == {ss \in Nat \X Nat : ss[1] < ss[2]}

\* A non-empty set of natural numbers has a least element ...
LEMMA LeastNatural ==
    ASSUME NEW T \in SUBSET Nat, T # {}
    PROVE  \E n \in T : \A m \in T : n <= m
<1>1. IsWellFoundedOn(Below, Nat)
  BY NatLessThanWellFounded, Zenon DEF OpToRel, Below
<1>2. \E x \in T : \A y \in T : ~ (<<y, x>> \in Below)
  BY <1>1, WFMin, Zenon
<1>3. \A x, y \in Nat : y < x => <<y, x>> \in Below
  BY DEF Below
<1>4. PICK n \in T : \A m \in T : ~ (<<m, n>> \in Below)
  BY <1>2
<1>5. \A m \in T : n <= m
  <2> TAKE m \in T
  <2>1. n \in Nat /\ m \in Nat
    OBVIOUS
  <2>2. ~ (m < n)
    BY <1>3, <1>4, <2>1
  <2> QED BY <2>1, <2>2
<1> QED BY <1>5

\* ... so that a set with 0 and the successor of each of its members has them all.
LEMMA NaturalsOf ==
    ASSUME NEW S, 0 \in S, \A n \in Nat : n \in S => n + 1 \in S
    PROVE  Nat \subseteq S
<1> SUFFICES ASSUME Nat \ S # {} PROVE FALSE
  OBVIOUS
<1>1. PICK n \in Nat \ S : \A m \in Nat \ S : n <= m
  BY LeastNatural
<1>2. n # 0 /\ n - 1 \in Nat
  BY <1>1
<1>3. n - 1 \in S
  BY <1>1, <1>2
<1> QED BY <1>1, <1>2, <1>3

-----------------------------------------------------------------------------
\* The function by which FlattenSeq is defined: the flattening of each prefix.
Flattens(g, ss) ==
    g = [i \in 1..Len(ss) |-> IF i = 1 THEN ss[i] ELSE g[i - 1] \o ss[i]]

\* There is no more than one such function.
LEMMA FlattensOnce ==
    ASSUME NEW ss, Len(ss) \in Nat, NEW g, NEW h, Flattens(g, ss), Flattens(h, ss)
    PROVE  g = h
<1>1. /\ DOMAIN g = 1..Len(ss) /\ DOMAIN h = 1..Len(ss)
      /\ g = [i \in DOMAIN g |-> g[i]] /\ h = [i \in DOMAIN h |-> h[i]]
      /\ \A i \in 1..Len(ss) : /\ g[i] = IF i = 1 THEN ss[i] ELSE g[i - 1] \o ss[i]
                               /\ h[i] = IF i = 1 THEN ss[i] ELSE h[i - 1] \o ss[i]
  BY DEF Flattens
<1> DEFINE differ == {i \in 1..Len(ss) : g[i] # h[i]}
<1>2. CASE differ # {}
  <2>0. differ \in SUBSET Nat
    OBVIOUS
  <2>1. PICK i \in differ : \A j \in differ : i <= j
    <3> HIDE DEF differ
    <3> QED BY <1>2, <2>0, LeastNatural
  <2>2. i \in 1..Len(ss) /\ g[i] # h[i]
    BY <2>1
  <2>3. CASE i = 1
    BY <1>1, <2>2, <2>3
  <2>4. CASE i # 1
    <3>1. i - 1 \in 1..Len(ss) /\ ~ (i <= i - 1)
      BY <2>2, <2>4
    <3>2. g[i - 1] = h[i - 1]
      BY <2>1, <3>1
    <3>3. g[i] = g[i - 1] \o ss[i] /\ h[i] = h[i - 1] \o ss[i]
      BY <1>1, <2>2, <2>4
    <3> QED BY <2>2, <3>2, <3>3
  <2> QED BY <2>3, <2>4
<1>3. CASE differ = {}
  BY <1>1, <1>3
<1> QED BY <1>2, <1>3

\* Its last value is the flattening.
LEMMA FlattenIs ==
    ASSUME NEW ss, Len(ss) \in Nat \ {0}, NEW g, Flattens(g, ss)
    PROVE  FlattenSeq(ss) = g[Len(ss)]
<1> DEFINE f == CHOOSE h : Flattens(h, ss)
<1>1. FlattenSeq(ss) = f[Len(ss)]
  BY DEF FlattenSeq, Flattens
<1>2. Flattens(f, ss)
  OBVIOUS
<1>3. f = g
  BY <1>2, FlattensOnce
<1> QED BY <1>1, <1>3

\* The flattening of nothing is nothing.
LEMMA FlattenNone == FlattenSeq(<< >>) = << >>
BY DEF FlattenSeq

\* There is such a function for every sequence of sequences.
LEMMA FlattensSome ==
    ASSUME NEW T, NEW ss \in Seq(Seq(T))
    PROVE  \E g \in [1..Len(ss) -> Seq(T)] : Flattens(g, ss)
<1> DEFINE Flat(s) == \E g \in [1..Len(s) -> Seq(T)] : Flattens(g, s)
           S == {n \in Nat : \A s \in Seq(Seq(T)) : Len(s) = n => Flat(s)}
<1>1. 0 \in S
  <2>1. ASSUME NEW s \in Seq(Seq(T)), Len(s) = 0 PROVE Flat(s)
    <3> DEFINE g == [i \in 1..Len(s) |-> IF i = 1 THEN s[i] ELSE << >> \o s[i]]
    <3>1. 1..Len(s) = {}
      BY <2>1
    <3>2. g \in [1..Len(s) -> Seq(T)] /\ Flattens(g, s)
      BY <3>1 DEF Flattens
    <3> QED BY <3>2
  <2> QED BY <2>1
<1>2. ASSUME NEW n \in Nat, n \in S PROVE n + 1 \in S
  <2>1. ASSUME NEW s \in Seq(Seq(T)), Len(s) = n + 1 PROVE Flat(s)
    <3> DEFINE p == SubSeq(s, 1, n)
    <3>1. p \in Seq(Seq(T)) /\ Len(p) = n /\ \A i \in 1..n : p[i] = s[i]
      BY <2>1
    <3>2. PICK g \in [1..Len(p) -> Seq(T)] : Flattens(g, p)
      BY <1>2, <3>1
    <3> DEFINE h == [i \in 1..Len(s) |->
                        IF i # n + 1 THEN g[i] ELSE IF i = 1 THEN s[i] ELSE g[n] \o s[i]]
    <3> HIDE DEF p
    <3>3. \A i \in 1..n : g[i] = IF i = 1 THEN s[i] ELSE g[i - 1] \o s[i]
      BY <3>1, <3>2 DEF Flattens
    <3>4. \A i \in 1..Len(s) : s[i] \in Seq(T)
      OBVIOUS
    <3>5. \A i \in 1..n : h[i] = g[i] /\ h[i] \in Seq(T)
      BY <2>1, <3>1, <3>2
    <3>6. h[n + 1] = (IF n + 1 = 1 THEN s[n + 1] ELSE g[n] \o s[n + 1]) /\ h[n + 1] \in Seq(T)
      BY <2>1, <3>1, <3>2, <3>4
    <3>7. \A i \in 1..Len(s) : h[i] \in Seq(T) /\ h[i] = IF i = 1 THEN s[i] ELSE h[i - 1] \o s[i]
      <4> TAKE i \in 1..Len(s)
      <4>1. CASE i = n + 1
        <5>1. CASE n = 0
          BY <3>6, <4>1, <5>1
        <5>2. CASE n # 0
          <6>1. n \in 1..n /\ h[n] = g[n]
            <7>1. n \in 1..n
              BY <5>2
            <7> QED BY <3>5, <7>1
          <6> QED BY <3>6, <4>1, <5>2, <6>1
        <5> QED BY <5>1, <5>2
      <4>2. CASE i # n + 1
        <5>1. i \in 1..n
          BY <2>1, <4>2
        <5>2. CASE i = 1
          BY <3>3, <3>5, <5>1, <5>2
        <5>3. CASE i # 1
          <6>1. i - 1 \in 1..n
            BY <5>1, <5>3
          <6>2. h[i - 1] = g[i - 1]
            BY <3>5, <6>1
          <6> QED BY <3>3, <3>5, <5>1, <5>3, <6>2
        <5> QED BY <5>2, <5>3
      <4> QED BY <4>1, <4>2
    <3>8. h \in [1..Len(s) -> Seq(T)]
      BY <3>7
    <3>9. h = [i \in 1..Len(s) |-> IF i = 1 THEN s[i] ELSE h[i - 1] \o s[i]]
      <4> DEFINE k == [i \in 1..Len(s) |-> IF i = 1 THEN s[i] ELSE h[i - 1] \o s[i]]
      <4> HIDE DEF h
      <4>1. \A i \in 1..Len(s) : k[i] = h[i]
        BY <3>7
      <4>2. DOMAIN h = 1..Len(s) /\ h = [i \in DOMAIN h |-> h[i]]
        BY <3>8
      <4> QED BY <4>1, <4>2
    <3> HIDE DEF h
    <3> QED BY <3>8, <3>9 DEF Flattens
  <2> QED BY <2>1
<1>3. Nat \subseteq S
  <2> HIDE DEF S
  <2> QED BY <1>1, <1>2, NaturalsOf
<1> QED BY <1>3

\* A flattening is a sequence of the members' elements.
LEMMA FlattenType ==
    ASSUME NEW T, NEW ss \in Seq(Seq(T)) PROVE FlattenSeq(ss) \in Seq(T)
<1>1. CASE ss = << >>
  <2>1. FlattenSeq(ss) = << >>
    BY <1>1, FlattenNone
  <2> QED BY <2>1
<1>2. CASE ss # << >>
  <2>1. PICK g \in [1..Len(ss) -> Seq(T)] : Flattens(g, ss)
    BY FlattensSome
  <2>2. Len(ss) \in Nat \ {0}
    BY <1>2
  <2> QED BY <2>1, <2>2, FlattenIs
<1> QED BY <1>1, <1>2

\* The last member comes last.
LEMMA FlattenAppend ==
    ASSUME NEW T, NEW ss \in Seq(Seq(T)), NEW s \in Seq(T)
    PROVE  FlattenSeq(Append(ss, s)) = FlattenSeq(ss) \o s
<1> DEFINE tt == Append(ss, s)
           n == Len(ss)
<1>1. /\ tt \in Seq(Seq(T)) /\ Len(tt) = n + 1 /\ tt[n + 1] = s
      /\ \A i \in 1..n : tt[i] = ss[i]
  OBVIOUS
<1> HIDE DEF tt
<1>2. PICK g \in [1..Len(tt) -> Seq(T)] : Flattens(g, tt)
  BY <1>1, FlattensSome
<1>3. FlattenSeq(tt) = g[n + 1]
  BY <1>1, <1>2, FlattenIs
<1>4. \A i \in 1..(n + 1) : g[i] = IF i = 1 THEN tt[i] ELSE g[i - 1] \o tt[i]
  BY <1>1, <1>2 DEF Flattens
<1>5. CASE n = 0
  <2>1. ss = << >> /\ FlattenSeq(ss) = << >>
    BY <1>5, FlattenNone
  <2>2. g[n + 1] = s
    BY <1>1, <1>4, <1>5
  <2> QED BY <1>3, <2>1, <2>2 DEF tt
<1>6. CASE n # 0
  <2> DEFINE h == [i \in 1..n |-> g[i]]
  <2>0. n \in Nat /\ n \in 1..n /\ n + 1 \in 1..(n + 1) /\ n + 1 # 1 /\ (n + 1) - 1 = n
    BY <1>6
  <2>1. \A i \in 1..n : (IF i = 1 THEN ss[i] ELSE h[i - 1] \o ss[i]) = h[i]
    <3> TAKE i \in 1..n
    <3>1. i \in 1..(n + 1) /\ h[i] = g[i] /\ tt[i] = ss[i]
      BY <1>1
    <3>2. CASE i = 1
      BY <1>4, <3>1, <3>2
    <3>3. CASE i # 1
      <4>1. i - 1 \in 1..n
        BY <3>3
      <4>2. h[i - 1] = g[i - 1]
        BY <4>1
      <4> QED BY <1>4, <3>1, <3>3, <4>2
    <3> QED BY <3>2, <3>3
  <2>2. Flattens(h, ss)
    <3> DEFINE k == [i \in 1..n |-> IF i = 1 THEN ss[i] ELSE h[i - 1] \o ss[i]]
    <3>1. h = k
      <4>1. \A i \in 1..n : k[i] = h[i]
        BY <2>1
      <4> QED BY <4>1
    <3> QED BY <3>1 DEF Flattens
  <2>3. FlattenSeq(ss) = h[n]
    <3> HIDE DEF h
    <3> QED BY <1>6, <2>2, FlattenIs
  <2>4. g[n + 1] = g[n] \o s
    <3>1. g[n + 1] = g[(n + 1) - 1] \o tt[n + 1]
      BY <1>4, <2>0
    <3> QED BY <1>1, <2>0, <3>1
  <2>5. h[n] = g[n]
    BY <2>0
  <2> HIDE DEF h
  <2> QED BY <1>3, <2>3, <2>4, <2>5 DEF tt
<1> QED BY <1>5, <1>6

\* What a concatenation is made of.
LEMMA ConcatElements ==
    ASSUME NEW T, NEW s \in Seq(T), NEW t \in Seq(T)
    PROVE  /\ s \o t \in Seq(T) /\ Len(s \o t) = Len(s) + Len(t)
           /\ \A i \in 1..Len(s) : (s \o t)[i] = s[i]
           /\ \A i \in 1..Len(t) : (s \o t)[Len(s) + i] = t[i]
OBVIOUS

\* A set with the empty sequence and every extension of its members has every sequence.
LEMMA SequencesOf ==
    ASSUME NEW T, NEW P, << >> \in P, \A s \in Seq(T), e \in T : s \in P => Append(s, e) \in P
    PROVE  Seq(T) \subseteq P
<1> DEFINE S == {n \in Nat : \A s \in Seq(T) : Len(s) = n => s \in P}
<1>1. 0 \in S
  OBVIOUS
<1>2. ASSUME NEW n \in Nat, n \in S PROVE n + 1 \in S
  <2>1. ASSUME NEW s \in Seq(T), Len(s) = n + 1 PROVE s \in P
    <3> DEFINE p == SubSeq(s, 1, n)
               e == s[n + 1]
    <3>1. p \in Seq(T) /\ Len(p) = n /\ e \in T /\ s = Append(p, e)
      BY <2>1
    <3>2. p \in P
      BY <1>2, <3>1
    <3> HIDE DEF p, e
    <3> QED BY <3>1, <3>2
  <2> QED BY <2>1
<1>3. Nat \subseteq S
  <2> HIDE DEF S
  <2> QED BY <1>1, <1>2, NaturalsOf
<1> QED BY <1>3

\* Flattening one sequence, and two.
LEMMA FlattenOne ==
    ASSUME NEW T, NEW s \in Seq(T) PROVE FlattenSeq(<<s>>) = s
<1>1. << >> \in Seq(Seq(T)) /\ <<s>> = Append(<< >>, s)
  OBVIOUS
<1>2. FlattenSeq(Append(<< >>, s)) = FlattenSeq(<< >>) \o s
  BY <1>1, FlattenAppend
<1> QED BY <1>1, <1>2, FlattenNone

LEMMA FlattenTwo ==
    ASSUME NEW T, NEW s \in Seq(T), NEW t \in Seq(T) PROVE FlattenSeq(<<s, t>>) = s \o t
<1>1. <<s>> \in Seq(Seq(T)) /\ <<s, t>> = Append(<<s>>, t)
  OBVIOUS
<1>2. FlattenSeq(Append(<<s>>, t)) = FlattenSeq(<<s>>) \o t
  BY <1>1, FlattenAppend
<1> QED BY <1>1, <1>2, FlattenOne

\* The first member comes first.
LEMMA FlattenCons ==
    ASSUME NEW T, NEW s \in Seq(T), NEW ss \in Seq(Seq(T))
    PROVE  FlattenSeq(<<s>> \o ss) = s \o FlattenSeq(ss)
<1> DEFINE P == {tt \in Seq(Seq(T)) : FlattenSeq(<<s>> \o tt) = s \o FlattenSeq(tt)}
<1>1. << >> \in P
  <2>1. <<s>> \o << >> = <<s>> /\ s \o << >> = s
    OBVIOUS
  <2>2. FlattenSeq(<<s>> \o << >>) = s \o FlattenSeq(<< >>)
    BY <2>1, FlattenOne, FlattenNone
  <2> QED BY <2>2
<1>2. ASSUME NEW tt \in Seq(Seq(T)), NEW e \in Seq(T), tt \in P PROVE Append(tt, e) \in P
  <2>1. FlattenSeq(<<s>> \o tt) = s \o FlattenSeq(tt)
    BY <1>2
  <2>2. <<s>> \o tt \in Seq(Seq(T)) /\ <<s>> \o Append(tt, e) = Append(<<s>> \o tt, e)
    OBVIOUS
  <2>3. FlattenSeq(<<s>> \o Append(tt, e)) = (s \o FlattenSeq(tt)) \o e
    <3>1. FlattenSeq(Append(<<s>> \o tt, e)) = FlattenSeq(<<s>> \o tt) \o e
      BY <2>2, FlattenAppend
    <3> QED BY <2>1, <2>2, <3>1
  <2>4. FlattenSeq(Append(tt, e)) = FlattenSeq(tt) \o e /\ FlattenSeq(tt) \in Seq(T)
    BY FlattenAppend, FlattenType
  <2>5. (s \o FlattenSeq(tt)) \o e = s \o (FlattenSeq(tt) \o e)
    BY <2>4, ConcatAssociative
  <2>6. Append(tt, e) \in Seq(Seq(T))
    OBVIOUS
  <2> QED BY <2>3, <2>4, <2>5, <2>6
<1>3. Seq(Seq(T)) \subseteq P
  <2> HIDE DEF P
  <2> QED BY <1>1, <1>2, SequencesOf
<1> QED BY <1>3

\* Every element comes from a member.
LEMMA FlattenFrom ==
    ASSUME NEW T, NEW E \in SUBSET T, NEW ss \in Seq(Seq(T)),
           \A i \in 1..Len(ss) : \A j \in 1..Len(ss[i]) : ss[i][j] \in E
    PROVE  \A k \in 1..Len(FlattenSeq(ss)) : FlattenSeq(ss)[k] \in E
<1>1. ss \in Seq(Seq(E))
  <2>1. \A i \in 1..Len(ss) : ss[i] \in Seq(E)
    <3> TAKE i \in 1..Len(ss)
    <3> DEFINE s == ss[i]
    <3>1. s \in Seq(T) /\ \A j \in 1..Len(s) : s[j] \in E
      OBVIOUS
    <3> HIDE DEF s
    <3>2. Len(s) \in Nat /\ DOMAIN s = 1..Len(s) /\ s = [j \in 1..Len(s) |-> s[j]]
      BY <3>1
    <3>3. s \in [1..Len(s) -> E]
      BY <3>1, <3>2, Zenon
    <3>4. s \in Seq(E)
      <4>1. s \in UNION {[1..n -> E] : n \in Nat}
        BY <3>2, <3>3, Zenon
      <4> QED BY <4>1, SeqDef, Zenon
    <3> QED BY <3>4 DEF s
  <2> QED BY <2>1
<1>2. FlattenSeq(ss) \in Seq(E)
  BY <1>1, FlattenType
<1> DEFINE f == FlattenSeq(ss)
<1>3. f \in Seq(E)
  BY <1>2
<1> HIDE DEF f
<1>4. \A k \in 1..Len(f) : f[k] \in E
  BY <1>3
<1> QED BY <1>4 DEF f

\* Sequences of members of the same lengths flatten to the same length, and what relates
\* the members' elements relates the flattenings'.
Alike(R, s, t) == Len(s) = Len(t) /\ \A j \in 1..Len(s) : <<s[j], t[j]>> \in R

\* Concatenations of related sequences are related ...
LEMMA AlikeConcat ==
    ASSUME NEW T, NEW R, NEW s \in Seq(T), NEW t \in Seq(T), NEW u \in Seq(T), NEW v \in Seq(T),
           Alike(R, s, t), Alike(R, u, v)
    PROVE  Alike(R, s \o u, t \o v)
<1>1. /\ Len(s) \in Nat /\ Len(u) \in Nat /\ Len(t) = Len(s) /\ Len(v) = Len(u)
      /\ \A j \in 1..Len(s) : <<s[j], t[j]>> \in R
      /\ \A j \in 1..Len(u) : <<u[j], v[j]>> \in R
  BY DEF Alike
<1>2. /\ Len(s \o u) = Len(s) + Len(u)
      /\ \A i \in 1..Len(s) : (s \o u)[i] = s[i]
      /\ \A i \in 1..Len(u) : (s \o u)[Len(s) + i] = u[i]
  BY ConcatElements
<1>3. /\ Len(t \o v) = Len(s) + Len(u)
      /\ \A i \in 1..Len(s) : (t \o v)[i] = t[i]
      /\ \A i \in 1..Len(u) : (t \o v)[Len(s) + i] = v[i]
  <2>1. /\ Len(t \o v) = Len(t) + Len(v)
        /\ \A i \in 1..Len(t) : (t \o v)[i] = t[i]
        /\ \A i \in 1..Len(v) : (t \o v)[Len(t) + i] = v[i]
    BY ConcatElements
  <2> QED BY <1>1, <2>1
<1> DEFINE n == Len(s)
           m == Len(u)
<1>4. ASSUME NEW j \in 1..(n + m) PROVE <<(s \o u)[j], (t \o v)[j]>> \in R
  <2>1. CASE j \in 1..n
    BY <1>1, <1>2, <1>3, <2>1
  <2>2. CASE j \notin 1..n
    <3>1. j - n \in 1..m /\ n + (j - n) = j
      <4> HIDE DEF n, m
      <4>1. n \in Nat /\ m \in Nat
        BY <1>1 DEF n, m
      <4> QED BY <4>1, <2>2
    <3>2. (s \o u)[j] = u[j - n] /\ (t \o v)[j] = v[j - n]
      BY <1>2, <1>3, <3>1
    <3> QED BY <1>1, <3>1, <3>2
  <2> QED BY <2>1, <2>2
<1> QED BY <1>2, <1>3, <1>4 DEF Alike

\* ... and so are flattenings of related members.
LEMMA FlattenAlike ==
    ASSUME NEW T, NEW R, NEW ss \in Seq(Seq(T)), NEW tt \in Seq(Seq(T)), Len(ss) = Len(tt),
           \A i \in 1..Len(ss) : Alike(R, ss[i], tt[i])
    PROVE  Alike(R, FlattenSeq(ss), FlattenSeq(tt))
<1> DEFINE Good(x, y) == Len(x) = Len(y) /\ \A i \in 1..Len(x) : Alike(R, x[i], y[i])
           P == {x \in Seq(Seq(T)) : \A y \in Seq(Seq(T)) :
                    Good(x, y) => Alike(R, FlattenSeq(x), FlattenSeq(y))}
<1>1. << >> \in P
  <2>1. ASSUME NEW y \in Seq(Seq(T)), Good(<< >>, y) PROVE Alike(R, FlattenSeq(<< >>), FlattenSeq(y))
    <3>1. y = << >>
      BY <2>1
    <3>2. FlattenSeq(<< >>) = << >> /\ FlattenSeq(y) = << >>
      BY <3>1, FlattenNone
    <3> QED BY <3>2 DEF Alike
  <2> QED BY <2>1
<1>2. ASSUME NEW x \in Seq(Seq(T)), NEW e \in Seq(T), x \in P PROVE Append(x, e) \in P
  <2>1. ASSUME NEW y \in Seq(Seq(T)), Good(Append(x, e), y)
        PROVE Alike(R, FlattenSeq(Append(x, e)), FlattenSeq(y))
    <3> DEFINE n == Len(x)
               p == SubSeq(y, 1, n)
               f == y[n + 1]
    <3>1. n \in Nat /\ Len(Append(x, e)) = n + 1 /\ Append(x, e)[n + 1] = e
          /\ \A i \in 1..n : Append(x, e)[i] = x[i]
      OBVIOUS
    <3>2. Len(y) = n + 1
      BY <2>1, <3>1
    <3>3. /\ p \in Seq(Seq(T)) /\ Len(p) = n /\ f \in Seq(T) /\ y = Append(p, f)
          /\ \A i \in 1..n : p[i] = y[i]
      BY <3>1, <3>2
    <3>4. \A i \in 1..n : Alike(R, x[i], y[i])
      <4>1. \A i \in 1..n : i \in 1..(n + 1)
        BY <3>1
      <4> QED BY <2>1, <3>1, <4>1
    <3>5. Alike(R, e, f)
      <4>1. n + 1 \in 1..(n + 1)
        BY <3>1
      <4> QED BY <2>1, <3>1, <4>1
    <3> HIDE DEF p, f
    <3>6. Good(x, p)
      BY <3>3, <3>4
    <3>7. Alike(R, FlattenSeq(x), FlattenSeq(p))
      BY <1>2, <3>3, <3>6
    <3>8. /\ FlattenSeq(x) \in Seq(T) /\ FlattenSeq(p) \in Seq(T)
          /\ FlattenSeq(Append(x, e)) = FlattenSeq(x) \o e
          /\ FlattenSeq(y) = FlattenSeq(p) \o f
      BY <3>3, FlattenType, FlattenAppend
    <3>9. Alike(R, FlattenSeq(x) \o e, FlattenSeq(p) \o f)
      BY <3>3, <3>5, <3>7, <3>8, AlikeConcat
    <3> QED BY <3>8, <3>9
  <2> HIDE DEF Good
  <2>2. Append(x, e) \in Seq(Seq(T))
    OBVIOUS
  <2> QED BY <2>1, <2>2
<1>3. Seq(Seq(T)) \subseteq P
  <2> HIDE DEF P
  <2> QED BY <1>1, <1>2, SequencesOf
<1>4. ss \in P /\ Good(ss, tt)
  BY <1>3
<1> HIDE DEF Good
<1> QED BY <1>4

-----------------------------------------------------------------------------
(* JsonExtract: the text of an answer is the answer as written, in whatever  *)
(* chunks it comes.                                                          *)

\* The text an answer arrives in.
LEMMA WrittenType ==
    ASSUME NEW a, isAnswer(a)
    PROVE  /\ a.before \in Seq(Characters) /\ a.object \in Seq(Characters) /\ a.after \in Seq(Characters)
           /\ a.cut \in 0..Len(a.object)
           /\ SubSeq(a.object, 1, a.cut) \in Seq(Characters)
           /\ Len(SubSeq(a.object, 1, a.cut)) = a.cut
           /\ written(a) \in Seq(Characters)
           /\ Len(written(a)) = Len(a.before) + a.cut + Len(a.after)
           /\ \A i \in 1..Len(a.before) : written(a)[i] = a.before[i]
           /\ \A i \in 1..a.cut : written(a)[Len(a.before) + i] = a.object[i]
           /\ \A i \in 1..Len(a.after) : written(a)[Len(a.before) + a.cut + i] = a.after[i]
<1>1. /\ a.before \in Seq(Characters) /\ a.object \in Seq(Characters) /\ a.after \in Seq(Characters)
      /\ a.cut \in 0..Len(a.object)
  BY DEF isAnswer
<1> DEFINE o == SubSeq(a.object, 1, a.cut)
<1>2. o \in Seq(Characters) /\ Len(o) = a.cut /\ \A i \in 1..a.cut : o[i] = a.object[i]
  BY <1>1
<1>3. written(a) = (a.before \o o) \o a.after
  BY <1>1, <1>2 DEF written
<1> HIDE DEF o
<1>4. /\ a.before \o o \in Seq(Characters) /\ Len(a.before \o o) = Len(a.before) + a.cut
      /\ \A i \in 1..Len(a.before) : (a.before \o o)[i] = a.before[i]
      /\ \A i \in 1..a.cut : (a.before \o o)[Len(a.before) + i] = o[i]
  BY <1>1, <1>2, ConcatElements
<1> DEFINE p == a.before \o o
<1>5. /\ Len(a.before) \in Nat /\ Len(a.after) \in Nat /\ a.cut \in Nat
      /\ \A i \in 1..Len(a.before) : i \in 1..Len(p)
      /\ \A i \in 1..a.cut : Len(a.before) + i \in 1..Len(p)
  BY <1>1, <1>4
<1>6. p \in Seq(Characters) /\ Len(p) = Len(a.before) + a.cut /\ written(a) = p \o a.after
  BY <1>3, <1>4
<1>7. /\ \A i \in 1..Len(a.before) : p[i] = a.before[i]
      /\ \A i \in 1..a.cut : p[Len(a.before) + i] = a.object[i]
  BY <1>2, <1>4
<1> HIDE DEF p
<1>8. /\ written(a) \in Seq(Characters)
      /\ Len(written(a)) = Len(a.before) + a.cut + Len(a.after)
      /\ \A i \in 1..Len(p) : written(a)[i] = p[i]
      /\ \A i \in 1..Len(a.after) : written(a)[Len(p) + i] = a.after[i]
  <2>1. /\ p \o a.after \in Seq(Characters) /\ Len(p \o a.after) = Len(p) + Len(a.after)
        /\ \A i \in 1..Len(p) : (p \o a.after)[i] = p[i]
        /\ \A i \in 1..Len(a.after) : (p \o a.after)[Len(p) + i] = a.after[i]
    <3>1. p \in Seq(Characters) /\ a.after \in Seq(Characters)
      BY <1>1, <1>6
    <3> QED BY <3>1, ConcatElements
  <2> QED BY <1>6, <2>1
<1>9. /\ \A i \in 1..Len(a.before) : written(a)[i] = a.before[i]
      /\ \A i \in 1..a.cut : written(a)[Len(a.before) + i] = a.object[i]
  BY <1>5, <1>7, <1>8
<1>10. SubSeq(a.object, 1, a.cut) \in Seq(Characters) /\ Len(SubSeq(a.object, 1, a.cut)) = a.cut
  BY <1>2 DEF o
<1> QED BY <1>1, <1>6, <1>8, <1>9, <1>10

\* Pieces that follow one another make the whole.
LEMMA FlattenPieces ==
    ASSUME NEW T, NEW whole \in Seq(T), NEW n \in Nat \ {0},
           NEW ends \in [1..n -> 0..Len(whole)], NEW ss, Len(ss) = n,
           ss[1] = SubSeq(whole, 1, ends[1]), ends[n] = Len(whole),
           \A i \in 2..n : ends[i - 1] <= ends[i] /\ ss[i] = SubSeq(whole, ends[i - 1] + 1, ends[i])
    PROVE  FlattenSeq(ss) = whole
<1> DEFINE g == [i \in 1..n |-> SubSeq(whole, 1, ends[i])]
           k == [i \in 1..n |-> IF i = 1 THEN ss[i] ELSE g[i - 1] \o ss[i]]
<1>1. ASSUME NEW i \in 1..n PROVE g[i] = k[i]
  <2>1. CASE i = 1
    BY <2>1
  <2>2. CASE i # 1
    <3>1. i \in 2..n /\ i - 1 \in 1..n
      BY <2>2
    <3>2. /\ ends[i - 1] \in 0..Len(whole) /\ ends[i] \in 0..Len(whole) /\ ends[i - 1] <= ends[i]
          /\ Len(whole) \in Nat
      BY <3>1
    <3>3. SubSeq(whole, 1, ends[i - 1]) \o SubSeq(whole, ends[i - 1] + 1, ends[i])
          = SubSeq(whole, 1, ends[i])
      <4> DEFINE b == ends[i - 1] e == ends[i]
      <4>1. 1 \in 1..(Len(whole) + 1) /\ b \in (1 - 1)..Len(whole) /\ e \in b..Len(whole)
        BY <3>2
      <4> HIDE DEF b, e
      <4>2. SubSeq(whole, 1, b) \o SubSeq(whole, b + 1, e) = SubSeq(whole, 1, e)
        BY <4>1, ConcatAdjacentSubSeq
      <4> QED BY <4>2 DEF b, e
    <3>4. k[i] = g[i - 1] \o ss[i] /\ g[i - 1] = SubSeq(whole, 1, ends[i - 1])
      BY <2>2, <3>1
    <3> QED BY <3>1, <3>3, <3>4
  <2> QED BY <2>1, <2>2
<1>2. g = k
  BY <1>1
<1>3. Flattens(g, ss)
  BY <1>2 DEF Flattens
<1>4. g[n] = SubSeq(whole, 1, Len(whole))
  OBVIOUS
<1>5. g[n] = whole
  BY <1>4, SubSeqFull
<1> HIDE DEF g
<1> QED BY <1>3, <1>5, FlattenIs

\* The chunks that speak say the text.
LEMMA TextOfResult ==
    ASSUME NEW whole \in Seq(Characters), NEW r, isResult(r, whole), r.kind # "none"
    PROVE  extractResponseText(r) = whole
<1>1. CASE r.kind = "string"
  BY <1>1 DEF isResult, extractResponseText
<1>2. CASE r.kind = "chunks"
  <2> DEFINE ss == [i \in DOMAIN r.chunks |->
                      IF r.chunks[i].type = "text" THEN r.chunks[i].text ELSE << >>]
             n == Len(r.chunks)
  <2>1. extractResponseText(r) = FlattenSeq(ss)
    BY <1>2 DEF extractResponseText
  <2>2. /\ r.chunks \in Seq([type : {"text", "thinking"}, text : Seq(Characters), end : 0..Len(whole)])
        /\ \A i \in DOMAIN r.chunks :
              IF r.chunks[i].type = "text"
              THEN /\ (IF i = 1 THEN 0 ELSE r.chunks[i - 1].end) <= r.chunks[i].end
                   /\ r.chunks[i].text =
                        SubSeq(whole, (IF i = 1 THEN 0 ELSE r.chunks[i - 1].end) + 1, r.chunks[i].end)
              ELSE r.chunks[i].end = IF i = 1 THEN 0 ELSE r.chunks[i - 1].end
        /\ IF r.chunks = << >> THEN whole = << >> ELSE r.chunks[n].end = Len(whole)
    BY <1>2 DEF isResult, Last
  <2>3. /\ n \in Nat /\ DOMAIN r.chunks = 1..n
        /\ \A i \in 1..n : /\ r.chunks[i].type \in {"text", "thinking"}
                           /\ r.chunks[i].text \in Seq(Characters)
                           /\ r.chunks[i].end \in 0..Len(whole)
    <3> DEFINE Chunk == [type : {"text", "thinking"}, text : Seq(Characters), end : 0..Len(whole)]
    <3>1. r.chunks \in Seq(Chunk)
      BY <2>2
    <3>2. n \in Nat /\ DOMAIN r.chunks = 1..n /\ \A i \in 1..n : r.chunks[i] \in Chunk
      <4> HIDE DEF Chunk
      <4> QED BY <3>1
    <3> QED BY <3>2
  <2>4. Len(ss) = n
    BY <2>3
  <2>5. CASE n = 0
    <3>1. r.chunks = << >> /\ ss = << >>
      BY <2>2, <2>3, <2>5
    <3> HIDE DEF ss
    <3> QED BY <2>1, <2>2, <3>1, FlattenNone
  <2>6. CASE n # 0
    <3> DEFINE ends == [i \in 1..n |-> r.chunks[i].end]
    <3>1. ends \in [1..n -> 0..Len(whole)] /\ n \in Nat \ {0}
      BY <2>3, <2>6
    <3>2. ends[n] = Len(whole)
      <4>1. r.chunks # << >> /\ n \in 1..n
        BY <2>3, <2>6
      <4> QED BY <2>2, <4>1
    <3>3. ss[1] = SubSeq(whole, 1, ends[1])
      <4>1. 1 \in 1..n /\ ends[1] = r.chunks[1].end
        BY <2>3, <2>6
      <4>2. ss[1] = IF r.chunks[1].type = "text" THEN r.chunks[1].text ELSE << >>
        BY <2>3, <4>1
      <4> HIDE DEF ss, ends
      <4>3. CASE r.chunks[1].type = "text"
        <5>1. r.chunks[1].text = SubSeq(whole, 0 + 1, r.chunks[1].end)
          BY <2>2, <2>3, <4>1, <4>3
        <5> QED BY <4>1, <4>2, <4>3, <5>1
      <4>4. CASE r.chunks[1].type # "text"
        <5>1. ends[1] = 0 /\ ss[1] = << >>
          BY <2>2, <2>3, <4>1, <4>2, <4>4
        <5> QED BY <5>1, SubSeqEmpty
      <4> QED BY <4>3, <4>4
    <3>4. ASSUME NEW i \in 2..n
          PROVE  ends[i - 1] <= ends[i] /\ ss[i] = SubSeq(whole, ends[i - 1] + 1, ends[i])
      <4>1. /\ i \in 1..n /\ i - 1 \in 1..n /\ i # 1
            /\ ends[i] = r.chunks[i].end /\ ends[i - 1] = r.chunks[i - 1].end
        BY <2>3
      <4>2. CASE r.chunks[i].type = "text"
        BY <2>2, <2>3, <4>1, <4>2
      <4>3. CASE r.chunks[i].type # "text"
        <5>1. ends[i] = ends[i - 1] /\ ss[i] = << >>
          BY <2>2, <2>3, <4>1, <4>3
        <5>2. ends[i] \in Int /\ ends[i - 1] <= ends[i] /\ ends[i] < ends[i - 1] + 1
          BY <2>3, <4>1, <5>1
        <5> HIDE DEF ends, ss
        <5> QED BY <5>1, <5>2, SubSeqEmpty
      <4> QED BY <4>2, <4>3
    <3> HIDE DEF ss, ends, n
    <3>5. FlattenSeq(ss) = whole
      BY <2>4, <3>1, <3>2, <3>3, <3>4, FlattenPieces
    <3> QED BY <2>1, <3>5
  <2> QED BY <2>3, <2>5, <2>6
<1> QED BY <1>1, <1>2 DEF isResult

-----------------------------------------------------------------------------
(* The flags of the scan at each character of an object.                     *)

\* The scan's flags before position k of the object.
In(a, k) == \E s \in a.strings : s[1] < k /\ k <= s[2]
Escaped(a, k) == k - 1 \in a.escapes
Open(a, k) == {p \in a.pairs : p[1] < k /\ k <= p[2]}

\* Strings and pairs lie within the object.
LEMMA Spans ==
    ASSUME NEW a, isAnswer(a), isObject(a)
    PROVE  /\ Len(a.object) \in Nat /\ DOMAIN a.object = 1..Len(a.object)
           /\ \A s \in a.strings \cup a.pairs :
                 s[1] \in 1..Len(a.object) /\ s[2] \in 1..Len(a.object) /\ s[1] < s[2]
<1>1. Len(a.object) \in Nat /\ DOMAIN a.object = 1..Len(a.object)
  BY WrittenType
<1>2. a.strings \cup a.pairs \subseteq {p \in (DOMAIN a.object) \X (DOMAIN a.object) : p[1] < p[2]}
  BY DEF isObject
<1> QED BY <1>1, <1>2

\* One character on, the scan is in a string or escaped just as its flags say.
LEMMA StringStep ==
    ASSUME NEW a, isAnswer(a), isObject(a), NEW k \in 1..Len(a.object)
    PROVE  /\ Escaped(a, k) => In(a, k)
           /\ In(a, k) => Quoted(a, k)
           /\ Quoted(a, k) /\ ~ In(a, k) => a.object[k] = "quote"
           /\ In(a, k + 1) <=> IF a.object[k] = "quote" /\ ~ Escaped(a, k) THEN ~ In(a, k) ELSE In(a, k)
           /\ Escaped(a, k + 1) <=> ~ Escaped(a, k) /\ In(a, k) /\ a.object[k] = "backslash"
<1> DEFINE o == a.object
<1>0. Len(o) \in Nat /\ k \in DOMAIN o /\ k \in Nat /\ (k + 1) - 1 = k
  BY Spans
<1>1. \A s \in a.strings : s[1] \in 1..Len(o) /\ s[2] \in 1..Len(o) /\ s[1] < s[2]
  BY Spans
<1>2. \A s \in a.strings : o[s[1]] = "quote" /\ o[s[2]] = "quote" /\ s[2] - 1 \notin a.escapes
  BY DEF isObject
<1>3. \A s \in a.strings : \A j \in (s[1] + 1)..(s[2] - 1) :
         /\ j \in a.escapes <=> o[j] = "backslash" /\ j - 1 \notin a.escapes
         /\ o[j] = "quote" => j - 1 \in a.escapes
  BY DEF isObject
<1>4. \A s, t \in a.strings : t # s => t[2] < s[1] \/ s[2] < t[1]
  BY DEF isObject
<1>5. \A j \in a.escapes : \E s \in a.strings : j \in (s[1] + 1)..(s[2] - 1)
  BY DEF isObject
<1>6. o[k] = "quote" => Quoted(a, k)
  BY <1>0 DEF isObject
<1> HIDE DEF o
<1>7. ASSUME Escaped(a, k) PROVE In(a, k)
  <2>1. PICK s \in a.strings : k - 1 \in (s[1] + 1)..(s[2] - 1)
    BY <1>5, <1>7 DEF Escaped
  <2>2. s[1] < k /\ k <= s[2]
    BY <1>0, <1>1, <2>1
  <2> QED BY <2>2 DEF In
<1>8. In(a, k) => Quoted(a, k)
  BY <1>0, <1>1 DEF In, Quoted
<1>9. ASSUME Quoted(a, k), ~ In(a, k) PROVE o[k] = "quote"
  <2>1. PICK s \in a.strings : k \in s[1]..s[2]
    BY <1>9 DEF Quoted
  <2>2. k = s[1]
    BY <1>0, <1>1, <1>9, <2>1 DEF In
  <2> QED BY <1>2, <2>2
<1>10. ASSUME In(a, k)
       PROVE  /\ In(a, k + 1) <=> ~ (o[k] = "quote" /\ ~ Escaped(a, k))
              /\ Escaped(a, k + 1) <=> ~ Escaped(a, k) /\ o[k] = "backslash"
  <2>1. PICK s \in a.strings : s[1] < k /\ k <= s[2]
    BY <1>10 DEF In
  <2>2. s[1] \in Nat /\ s[2] \in Nat
    BY <1>1
  <2>3. ASSUME k = s[2] PROVE o[k] = "quote" /\ ~ Escaped(a, k) /\ ~ In(a, k + 1) /\ ~ Escaped(a, k + 1)
    <3>1. o[k] = "quote" /\ ~ Escaped(a, k)
      BY <1>2, <2>3 DEF Escaped
    <3>2. ASSUME NEW t \in a.strings, t[1] < k + 1, k + 1 <= t[2] PROVE FALSE
      <4>1. t[1] \in Nat /\ t[2] \in Nat
        BY <1>1
      <4>2. t # s
        BY <1>0, <2>3, <3>2
      <4> QED BY <1>0, <1>4, <2>1, <2>2, <2>3, <3>2, <4>1, <4>2
    <3>3. ASSUME Escaped(a, k + 1) PROVE FALSE
      <4>1. PICK t \in a.strings : k \in (t[1] + 1)..(t[2] - 1)
        BY <1>0, <1>5, <3>3 DEF Escaped
      <4>2. t[1] \in Nat /\ t[2] \in Nat
        BY <1>1
      <4> QED BY <1>0, <3>2, <4>1, <4>2
    <3> QED BY <3>1, <3>2, <3>3 DEF In
  <2>4. ASSUME k # s[2] PROVE /\ o[k] = "quote" => Escaped(a, k)
                              /\ In(a, k + 1)
                              /\ Escaped(a, k + 1) <=> ~ Escaped(a, k) /\ o[k] = "backslash"
    <3>1. k \in (s[1] + 1)..(s[2] - 1)
      BY <1>0, <2>1, <2>2, <2>4
    <3>2. s[1] < k + 1 /\ k + 1 <= s[2]
      BY <1>0, <2>2, <3>1
    <3> QED BY <1>0, <1>3, <3>1, <3>2 DEF Escaped, In
  <2>5. o[k] = "quote" => o[k] # "backslash"
    OBVIOUS
  <2> QED BY <2>3, <2>4, <2>5
<1>11. ASSUME ~ In(a, k)
       PROVE  /\ In(a, k + 1) <=> o[k] = "quote"
              /\ ~ Escaped(a, k + 1)
  <2>1. ASSUME In(a, k + 1) PROVE o[k] = "quote"
    <3>1. PICK s \in a.strings : s[1] < k + 1 /\ k + 1 <= s[2]
      BY <2>1 DEF In
    <3>2. s[1] \in Nat /\ s[2] \in Nat
      BY <1>1
    <3>3. k \in s[1]..s[2]
      BY <1>0, <3>1, <3>2
    <3> QED BY <1>9, <1>11, <3>3 DEF Quoted
  <2>2. ASSUME o[k] = "quote" PROVE In(a, k + 1)
    <3>1. PICK s \in a.strings : k \in s[1]..s[2]
      BY <1>6, <2>2 DEF Quoted
    <3>2. s[1] \in Nat /\ s[2] \in Nat /\ s[1] < s[2]
      BY <1>1
    <3>3. ~ (s[1] < k /\ k <= s[2])
      BY <1>11 DEF In
    <3>4. s[1] < k + 1 /\ k + 1 <= s[2]
      BY <1>0, <3>1, <3>2, <3>3
    <3> QED BY <3>4 DEF In
  <2>3. ASSUME Escaped(a, k + 1) PROVE FALSE
    <3>1. PICK s \in a.strings : k \in (s[1] + 1)..(s[2] - 1)
      BY <1>0, <1>5, <2>3 DEF Escaped
    <3>2. s[1] \in Nat /\ s[2] \in Nat
      BY <1>1
    <3>3. s[1] < k /\ k <= s[2]
      BY <1>0, <3>1, <3>2
    <3> QED BY <1>11, <3>3 DEF In
  <2> QED BY <2>1, <2>2, <2>3
<1> QED BY <1>7, <1>8, <1>9, <1>10, <1>11 DEF o

\* Only finitely many braces are open.
LEMMA OpenFinite ==
    ASSUME NEW a, isAnswer(a), isObject(a), NEW k
    PROVE  IsFiniteSet(Open(a, k)) /\ Cardinality(Open(a, k)) \in Nat
<1> DEFINE D == 1..Len(a.object)
<1>1. a.pairs \subseteq D \X D
  <2>1. DOMAIN a.object = D
    BY Spans
  <2> QED BY <2>1 DEF isObject
<1>2. IsFiniteSet(D)
  BY Spans, FS_Interval
<1>3. IsFiniteSet(D \X D)
  <2> HIDE DEF D
  <2> QED BY <1>2, FS_Product
<1>4. Open(a, k) \subseteq D \X D
  BY <1>1 DEF Open
<1>5. IsFiniteSet(Open(a, k))
  <2> HIDE DEF D
  <2> QED BY <1>3, <1>4, FS_Subset
<1> QED BY <1>5, FS_CardinalityType

\* One character on, as many braces are open as the depth counts, and the depth falls to
\* zero at the end of the object and nowhere before.
LEMMA BraceStep ==
    ASSUME NEW a, isAnswer(a), isObject(a), NEW k \in 1..Len(a.object)
    PROVE  LET outside == ~ In(a, k) /\ ~ Escaped(a, k)
               d == Cardinality(Open(a, k))
           IN  /\ Cardinality(Open(a, k + 1)) =
                    IF ~ outside THEN d
                    ELSE CASE a.object[k] = "{" -> d + 1 [] a.object[k] = "}" -> d - 1 [] OTHER -> d
               /\ (outside /\ a.object[k] = "}" /\ d = 1) <=> k = Len(a.object)
               /\ k = 1 => d = 0
<1> DEFINE o == a.object
           outside == ~ In(a, k) /\ ~ Escaped(a, k)
<1>0. Len(o) \in Nat /\ k \in DOMAIN o /\ k \in Nat /\ (k + 1) - 1 = k
  BY Spans
<1>1. \A p \in a.pairs : p[1] \in Nat /\ p[2] \in Nat /\ p[1] < p[2] /\ p[1] >= 1 /\ p[2] <= Len(o)
  BY Spans
<1>2. /\ o[k] = "{" /\ ~ Quoted(a, k) => \E p \in a.pairs : p[1] = k
      /\ o[k] = "}" /\ ~ Quoted(a, k) => \E p \in a.pairs : p[2] = k
  BY <1>0 DEF isObject
<1>3. \A p \in a.pairs : /\ o[p[1]] = "{" /\ ~ Quoted(a, p[1])
                         /\ o[p[2]] = "}" /\ ~ Quoted(a, p[2])
                         /\ \A q \in a.pairs : q # p => q[1] # p[1] /\ q[2] # p[2]
  BY DEF isObject
<1>4. <<1, Len(o)>> \in a.pairs
  BY DEF isObject
<1>5. /\ Escaped(a, k) => In(a, k)
      /\ In(a, k) => Quoted(a, k)
      /\ Quoted(a, k) /\ ~ In(a, k) => o[k] = "quote"
  BY StringStep
<1>6. IsFiniteSet(Open(a, k)) /\ Cardinality(Open(a, k)) \in Nat
  BY OpenFinite
<1> HIDE DEF o
<1>7. ASSUME outside, o[k] = "{"
      PROVE  Cardinality(Open(a, k + 1)) = Cardinality(Open(a, k)) + 1 /\ k # Len(o)
  <2>1. PICK p \in a.pairs : p[1] = k
    BY <1>2, <1>5, <1>7
  <2>2. Open(a, k + 1) = Open(a, k) \cup {p}
    <3>1. ASSUME NEW q \in a.pairs PROVE q \in Open(a, k + 1) <=> q \in Open(a, k) \/ q = p
      <4>1. q[2] # k
        BY <1>3, <1>7
      <4>2. q # p => q[1] # k
        BY <1>3, <2>1
      <4>3. p[1] < k + 1 /\ k + 1 <= p[2]
        BY <1>0, <1>1, <2>1
      <4>4. CASE q = p
        BY <4>3, <4>4 DEF Open
      <4>5. CASE q # p
        <5>1. q[1] < k + 1 /\ k + 1 <= q[2] <=> q[1] < k /\ k <= q[2]
          BY <1>0, <1>1, <4>1, <4>2, <4>5
        <5> QED BY <4>5, <5>1 DEF Open
      <4> QED BY <4>4, <4>5
    <3> QED BY <3>1 DEF Open
  <2>3. p \notin Open(a, k)
    BY <1>0, <2>1 DEF Open
  <2>4. k # Len(o)
    BY <1>0, <1>1, <2>1
  <2> QED BY <1>6, <2>2, <2>3, <2>4, FS_AddElement
<1>8. ASSUME outside, o[k] = "}"
      PROVE /\ Cardinality(Open(a, k + 1)) = Cardinality(Open(a, k)) - 1
            /\ Cardinality(Open(a, k)) = 1 <=> k = Len(o)
  <2>1. PICK p \in a.pairs : p[2] = k
    BY <1>2, <1>5, <1>8
  <2>2. Open(a, k + 1) = Open(a, k) \ {p}
    <3>1. ASSUME NEW q \in a.pairs PROVE q \in Open(a, k + 1) <=> q \in Open(a, k) /\ q # p
      <4>1. q[1] # k
        BY <1>3, <1>8
      <4>2. q # p => q[2] # k
        BY <1>3, <2>1
      <4>3. ~ (k + 1 <= p[2])
        BY <1>0, <2>1
      <4>4. CASE q = p
        BY <4>3, <4>4 DEF Open
      <4>5. CASE q # p
        <5>1. q[1] < k + 1 /\ k + 1 <= q[2] <=> q[1] < k /\ k <= q[2]
          BY <1>0, <1>1, <4>1, <4>2, <4>5
        <5> QED BY <4>5, <5>1 DEF Open
      <4> QED BY <4>4, <4>5
    <3> QED BY <3>1 DEF Open
  <2>3. p \in Open(a, k)
    BY <1>0, <1>1, <2>1 DEF Open
  <2>4. Cardinality(Open(a, k + 1)) = Cardinality(Open(a, k)) - 1
    BY <1>6, <2>2, <2>3, FS_RemoveElement
  <2>5. ASSUME k = Len(o) PROVE Open(a, k + 1) = {}
    BY <1>0, <1>1, <2>5 DEF Open
  <2>6. ASSUME k # Len(o) PROVE <<1, Len(o)>> \in Open(a, k + 1)
    <3> DEFINE w == <<1, Len(o)>>
    <3>1. w[1] = 1 /\ w[2] = Len(o)
      OBVIOUS
    <3>2. 1 < k + 1 /\ k + 1 <= Len(o)
      BY <1>0, <2>6
    <3> QED BY <1>4, <3>1, <3>2 DEF Open
  <2>7. IsFiniteSet(Open(a, k + 1)) /\ Cardinality(Open(a, k + 1)) \in Nat
    BY OpenFinite
  <2>8. Cardinality(Open(a, k + 1)) = 0 <=> k = Len(o)
    BY <2>5, <2>6, <2>7, FS_EmptySet
  <2> QED BY <1>6, <2>4, <2>8
<1>9. ASSUME ~ (outside /\ o[k] \in {"{", "}"}) PROVE Open(a, k + 1) = Open(a, k) /\ k # Len(o)
  <2>1. \A q \in a.pairs : q[1] # k /\ q[2] # k
    <3> SUFFICES ASSUME NEW q \in a.pairs, q[1] = k \/ q[2] = k PROVE FALSE
      OBVIOUS
    <3>1. ~ Quoted(a, k) /\ o[k] \in {"{", "}"}
      BY <1>3
    <3> QED BY <1>5, <1>9, <3>1
  <2>2. ASSUME NEW q \in a.pairs
        PROVE q[1] < k + 1 /\ k + 1 <= q[2] <=> q[1] < k /\ k <= q[2]
    BY <1>0, <1>1, <2>1
  <2>3. k # Len(o)
    BY <1>4, <2>1
  <2> QED BY <2>2, <2>3 DEF Open
<1>10. k = 1 => Open(a, k) = {}
  BY <1>1 DEF Open
<1>11. k = 1 => Cardinality(Open(a, k)) = 0
  BY <1>10, FS_EmptySet
<1> QED BY <1>7, <1>8, <1>9, <1>11 DEF o

-----------------------------------------------------------------------------
(* The extraction as a whole.                                                *)

\* Where the scan is in the object, and what it has found out about it.
Position == index - Len(answer.before)

ScanInv ==
    /\ isObject(answer) /\ answer.result.kind # "none" /\ ~ blockFound
    /\ index \in Nat /\ start = Len(answer.before) + 1
    /\ Position \in 1..(answer.cut + 1) /\ Position <= Len(answer.object)
    /\ inString \in BOOLEAN /\ escaped \in BOOLEAN
    /\ inString <=> In(answer, Position)
    /\ escaped <=> Escaped(answer, Position)
    /\ depth = Cardinality(Open(answer, Position))

\* The inductive invariant: what has been found out at each stage.  Its last two parts are
\* the properties.
ExtractInv ==
    /\ answer \in Answers
    /\ content \in {Waiting, Scanning} => outcome = << >>
    /\ content = Waiting => index = 0
    /\ content # Waiting => text = extractResponseText(answer.result)
    /\ index = 0 => depth = 0 /\ inString = FALSE /\ escaped = FALSE
    /\ content = Scanning /\ index # 0 => ScanInv
    /\ ExtractsExactlyTheObject
    /\ OutcomeIsOfTheFirstAssessment

\* No object looks like a state of the scan.
LEMMA ObjectIsNoState ==
    ASSUME NEW s \in Seq(Characters) PROVE s \notin {Waiting, Scanning, BadRequest}
<1>1. \A c \in Characters : c \notin {"waiting", "scanning", "BadRequest"}
  BY DEF Characters
<1>2. \A i \in 1..Len(s) : s[i] \in Characters
  OBVIOUS
<1>3. \A w \in {Waiting, Scanning, BadRequest} :
         Len(w) = 1 /\ w[1] \in {"waiting", "scanning", "BadRequest"}
  BY DEF Waiting, Scanning, BadRequest
<1>4. ASSUME s \in {Waiting, Scanning, BadRequest} PROVE FALSE
  <2>1. Len(s) = 1 /\ s[1] \in {"waiting", "scanning", "BadRequest"}
    BY <1>3, <1>4
  <2>2. 1 \in 1..Len(s)
    BY <2>1
  <2> QED BY <1>1, <1>2, <2>1, <2>2
<1> QED BY <1>4

\* The three states of the extraction differ.
LEMMA StatesDiffer == Waiting # Scanning /\ Waiting # BadRequest /\ Scanning # BadRequest
<1>1. Waiting[1] = "waiting" /\ Scanning[1] = "scanning" /\ BadRequest[1] = "BadRequest"
  BY DEF Waiting, Scanning, BadRequest
<1> QED BY <1>1

\* The scan starts at the first brace.
LEMMA StartIs ==
    ASSUME text \in Seq(Characters)
    PROVE  /\ (\A i \in 1..Len(text) : text[i] # "{") => start = 0
           /\ \A n \in 1..Len(text) :
                 text[n] = "{" /\ (\A i \in 1..(n - 1) : text[i] # "{") => start = n
<1> DEFINE found == {i \in 1..Len(text) : text[i] = "{"}
<1>1. start = IF found # {} THEN CHOOSE i \in found : \A j \in found : i <= j ELSE 0
  BY DEF start, SelectInSeq, Min
<1>2. Len(text) \in Nat
  OBVIOUS
<1>3. (\A i \in 1..Len(text) : text[i] # "{") => found = {}
  OBVIOUS
<1>4. ASSUME NEW n \in 1..Len(text), text[n] = "{", \A i \in 1..(n - 1) : text[i] # "{"
      PROVE  start = n
  <2>1. \A j \in found : j \in 1..Len(text) /\ j \notin 1..(n - 1)
    BY <1>4
  <2>2. n \in found
    BY <1>4
  <2> HIDE DEF found
  <2>3. n \in 1..Len(text)
    OBVIOUS
  <2>4. n \in Int /\ \A j \in found : j \in Int /\ n <= j
    BY <1>2, <2>1, <2>3
  <2>5. \A i \in found : (\A j \in found : i <= j) => i = n
    BY <2>2, <2>4
  <2> QED BY <1>1, <2>2, <2>4, <2>5
<1> HIDE DEF found
<1> QED BY <1>1, <1>3, <1>4

\* Where the first brace of a text is.
LEMMA FirstBrace ==
    ASSUME NEW a, isAnswer(a)
    PROVE  /\ a.object = << >> \/ a.cut = 0 =>
                \A i \in 1..Len(written(a)) : written(a)[i] # "{"
           /\ isObject(a) /\ a.cut # 0 =>
                /\ Len(a.before) + 1 \in 1..Len(written(a))
                /\ written(a)[Len(a.before) + 1] = "{"
                /\ \A i \in 1..Len(a.before) : written(a)[i] # "{"
<1>1. /\ Len(a.before) \in Nat /\ Len(a.after) \in Nat
      /\ a.cut \in 0..Len(a.object) /\ Len(a.object) \in Nat
      /\ Len(written(a)) = Len(a.before) + a.cut + Len(a.after)
      /\ \A i \in 1..Len(a.before) : written(a)[i] = a.before[i]
      /\ \A i \in 1..a.cut : written(a)[Len(a.before) + i] = a.object[i]
      /\ \A i \in 1..Len(a.after) : written(a)[Len(a.before) + a.cut + i] = a.after[i]
  BY WrittenType
<1>2. \A i \in 1..Len(a.before) : written(a)[i] # "{"
  BY <1>1 DEF isAnswer, Contains
<1>3. ASSUME a.object = << >> \/ a.cut = 0, NEW i \in 1..Len(written(a))
      PROVE  written(a)[i] # "{"
  <2>1. a.cut = 0
    BY <1>1, <1>3
  <2>2. \A j \in 1..Len(a.after) : a.after[j] # "{"
    <3>1. CASE a.object = << >>
      BY <1>1, <3>1 DEF isAnswer, Contains
    <3>2. CASE a.object # << >>
      <4>1. a.cut < Len(a.object)
        BY <1>1, <2>1, <3>2, WrittenType
      <4>2. a.after = << >>
        BY <4>1 DEF isAnswer, truncated
      <4>3. Len(a.after) = 0 /\ 1..Len(a.after) = {}
        BY <4>2
      <4> QED BY <4>3
    <3> QED BY <3>1, <3>2
  <2> DEFINE b == Len(a.before)
             l == Len(a.after)
             m == Len(written(a))
  <2>3. b \in Nat /\ l \in Nat /\ m = b + a.cut + l /\ a.cut = 0 /\ i \in 1..m
    BY <1>1, <2>1
  <2>4. \A j \in 1..l : written(a)[b + a.cut + j] = a.after[j]
    BY <1>1
  <2>5. \A j \in 1..b : written(a)[j] # "{"
    BY <1>2
  <2>6. \A j \in 1..l : a.after[j] # "{"
    BY <2>2
  <2> HIDE DEF b, l, m
  <2>7. i \in 1..b \/ (i - b \in 1..l /\ b + a.cut + (i - b) = i)
    BY <2>3
  <2> QED BY <2>4, <2>5, <2>6, <2>7
<1>4. ASSUME isObject(a), a.cut # 0
      PROVE  Len(a.before) + 1 \in 1..Len(written(a)) /\ written(a)[Len(a.before) + 1] = "{"
  <2>1. 1 \in 1..a.cut /\ Len(a.before) + 1 \in 1..Len(written(a))
    BY <1>1, <1>4
  <2>2. a.object[1] = "{"
    <3> DEFINE w == <<1, Len(a.object)>>
    <3>1. w \in a.pairs /\ w[1] = 1
      BY <1>4 DEF isObject
    <3>2. \A p \in a.pairs : a.object[p[1]] = "{"
      BY <1>4 DEF isObject
    <3> QED BY <3>1, <3>2
  <2> QED BY <1>1, <2>1, <2>2
<1> QED BY <1>2, <1>3, <1>4

-----------------------------------------------------------------------------
\* Each action preserves the invariant: the arrival of the text,
LEMMA ReceiveStep == ASSUME ExtractInv, Receive PROVE ExtractInv'
<1> USE DEF Receive
<1>1. /\ answer' = answer /\ index' = index /\ index = 0 /\ outcome' = outcome /\ outcome = << >>
      /\ depth' = depth /\ inString' = inString /\ escaped' = escaped /\ content' = Scanning
      /\ text' = extractResponseText(answer.result)
  BY DEF ExtractInv
<1>2. ExtractsExactlyTheObject'
  BY <1>1 DEF ExtractsExactlyTheObject
<1>3. OutcomeIsOfTheFirstAssessment'
  BY <1>1 DEF OutcomeIsOfTheFirstAssessment
<1> QED BY <1>1, <1>2, <1>3, StatesDiffer DEF ExtractInv

\* What arrived whole is what was written.
LEMMA ArrivedText ==
    ASSUME ExtractInv, content # Waiting
    PROVE  /\ isAnswer(answer)
           /\ text = IF answer.result.kind = "none" THEN << >> ELSE written(answer)
           /\ text \in Seq(Characters)
<1>1. isAnswer(answer) /\ text = extractResponseText(answer.result)
  BY AnswersAssumption DEF ExtractInv
<1>2. written(answer) \in Seq(Characters) /\ isResult(answer.result, written(answer))
  BY <1>1, WrittenType DEF isAnswer
<1>3. CASE answer.result.kind = "none"
  BY <1>1, <1>3 DEF extractResponseText
<1>4. CASE answer.result.kind # "none"
  <2>1. extractResponseText(answer.result) = written(answer)
    BY <1>2, <1>4, TextOfResult
  <2> QED BY <1>1, <1>2, <1>4, <2>1
<1> QED BY <1>1, <1>3, <1>4

\* ... a fenced object,
LEMMA TakeBlockStep == ASSUME ExtractInv, TakeBlock PROVE ExtractInv'
<1>1. /\ answer' = answer /\ text' = text /\ index' = index /\ index = 0 /\ outcome' = outcome
      /\ content = Scanning /\ blockFound /\ content' = answer.object
      /\ depth' = depth /\ inString' = inString /\ escaped' = escaped
  BY DEF TakeBlock
<1>2. outcome = << >> /\ content # Waiting
  BY <1>1, StatesDiffer DEF ExtractInv
<1>3. isAnswer(answer) /\ text = IF answer.result.kind = "none" THEN << >> ELSE written(answer)
  BY <1>2, ArrivedText
<1>4. content' \notin {Waiting, Scanning, BadRequest}
  BY <1>1, <1>3, WrittenType, ObjectIsNoState
<1>5. Whole
  BY <1>1, <1>3 DEF Whole, blockFound, isAnswer
<1>6. ExtractsExactlyTheObject'
  BY <1>1, <1>5 DEF ExtractsExactlyTheObject, Whole
<1>7. OutcomeIsOfTheFirstAssessment'
  BY <1>1, <1>2 DEF OutcomeIsOfTheFirstAssessment
<1> QED BY <1>1, <1>2, <1>4, <1>6, <1>7 DEF ExtractInv

\* ... the search for the first brace,
LEMMA FindStartStep == ASSUME ExtractInv, FindStart PROVE ExtractInv'
<1>1. /\ answer' = answer /\ text' = text /\ outcome' = outcome /\ index = 0
      /\ content = Scanning /\ ~ blockFound
      /\ depth' = depth /\ inString' = inString /\ escaped' = escaped
      /\ start = 0 => content' = BadRequest /\ index' = index
      /\ start # 0 => index' = start /\ content' = content
  BY DEF FindStart
<1>2. outcome = << >> /\ content # Waiting /\ depth = 0 /\ inString = FALSE /\ escaped = FALSE
  BY <1>1, StatesDiffer DEF ExtractInv
<1>3. /\ isAnswer(answer) /\ text \in Seq(Characters)
      /\ text = IF answer.result.kind = "none" THEN << >> ELSE written(answer)
  BY <1>2, ArrivedText
<1>4. OutcomeIsOfTheFirstAssessment'
  BY <1>1, <1>2 DEF OutcomeIsOfTheFirstAssessment
<1>5. CASE answer.result.kind = "none" \/ answer.object = << >> \/ answer.cut = 0
  <2>1. start = 0
    <3>1. CASE answer.result.kind = "none"
      BY <1>3, <3>1, StartIs
    <3>2. CASE answer.result.kind # "none"
      BY <1>3, <1>5, <3>2, FirstBrace, StartIs
    <3> QED BY <3>1, <3>2
  <2>2. ~ Whole
    <3>1. answer.object # << >> => Len(answer.object) > 0
      BY <1>3, WrittenType
    <3> QED BY <1>5, <3>1 DEF Whole, truncated
  <2>3. ExtractsExactlyTheObject'
    BY <1>1, <2>1, <2>2 DEF ExtractsExactlyTheObject, Whole
  <2> QED BY <1>1, <1>2, <1>4, <2>1, <2>3, StatesDiffer DEF ExtractInv
<1>6. CASE answer.result.kind # "none" /\ answer.object # << >> /\ answer.cut # 0
  <2>1. text = written(answer) /\ text # << >>
    <3>1. /\ Len(written(answer)) = Len(answer.before) + answer.cut + Len(answer.after)
          /\ answer.cut \in 0..Len(answer.object) /\ Len(answer.object) \in Nat
          /\ Len(answer.before) \in Nat /\ Len(answer.after) \in Nat
      BY <1>3, WrittenType
    <3>2. Len(written(answer)) # 0
      BY <1>6, <3>1
    <3>3. text = written(answer)
      BY <1>3, <1>6
    <3> QED BY <3>2, <3>3
  <2>2. isObject(answer)
    BY <1>1, <1>3, <1>6, <2>1 DEF isAnswer, blockFound
  <2> DEFINE b == Len(answer.before)
  <2>3. b \in Nat /\ answer.cut \in Nat /\ answer.cut <= Len(answer.object) /\ Len(answer.object) \in Nat
    BY <1>3, WrittenType
  <2>4. start = b + 1
    <3>1. /\ b + 1 \in 1..Len(text) /\ text[b + 1] = "{"
          /\ \A i \in 1..b : text[i] # "{"
      BY <1>3, <1>6, <2>1, <2>2, FirstBrace
    <3>2. (b + 1) - 1 = b
      BY <2>3
    <3> QED BY <1>3, <3>1, <3>2, StartIs
  <2>5. index' = b + 1 /\ content' = content /\ Position' = 1
    BY <1>1, <2>3, <2>4 DEF Position
  <2>6. start' = start /\ blockFound' = blockFound
    <3> DEFINE found(t) == {i \in 1..Len(t) : t[i] = "{"}
    <3>1. start = IF found(text) # {}
                  THEN CHOOSE i \in found(text) : \A j \in found(text) : i <= j ELSE 0
      BY DEF start, SelectInSeq, Min
    <3>2. start' = IF found(text') # {}
                   THEN CHOOSE i \in found(text') : \A j \in found(text') : i <= j ELSE 0
      BY DEF start, SelectInSeq, Min
    <3> HIDE DEF found
    <3>3. start' = start
      BY <1>1, <3>1, <3>2
    <3> QED BY <1>1, <3>3 DEF blockFound
  <2>7. 1 \in 1..Len(answer.object)
    BY <1>6, <2>3
  <2>8. ~ In(answer, 1) /\ ~ Escaped(answer, 1) /\ Cardinality(Open(answer, 1)) = 0
    <3>1. Cardinality(Open(answer, 1)) = 0
      BY <1>3, <2>2, <2>7, BraceStep
    <3>2. ~ In(answer, 1)
      BY <1>3, <2>2, Spans DEF In
    <3> QED BY <1>3, <2>2, <2>7, <3>1, <3>2, StringStep
  <2>9. ScanInv'
    <3>1. isObject(answer)' /\ Position' = 1 /\ 1 \in 1..(answer.cut + 1) /\ 1 <= Len(answer.object)
      BY <1>1, <2>2, <2>3, <2>5, <2>7
    <3>2. index' \in Nat /\ start' = b + 1 /\ blockFound' = FALSE
      BY <1>1, <2>3, <2>4, <2>5, <2>6
    <3>3. inString' = FALSE /\ escaped' = FALSE /\ depth' = Cardinality(Open(answer, 1))
      BY <1>1, <1>2, <2>8
    <3> QED BY <1>1, <1>6, <2>8, <3>1, <3>2, <3>3 DEF ScanInv
  <2>10. ExtractsExactlyTheObject'
    BY <1>1, <2>5 DEF ExtractsExactlyTheObject
  <2>11. index' # 0
    BY <2>3, <2>5
  <2> QED BY <1>1, <1>2, <1>4, <2>5, <2>9, <2>10, <2>11, StatesDiffer DEF ExtractInv
<1> QED BY <1>5, <1>6

\* ... one round of the scan,
LEMMA ScanStep == ASSUME ExtractInv, Scan PROVE ExtractInv'
<1> DEFINE k == Position
           b == Len(answer.before)
           ch == answer.object[k]
<1>1. /\ answer' = answer /\ text' = text /\ outcome' = outcome
      /\ content = Scanning /\ index \in 1..Len(text) /\ index' = index + 1
  BY DEF Scan
<1>2. scanBraceChar(text[index])
  BY DEF Scan
<1>3. content' = IF text[index] = "}" /\ depth' = 0 /\ depth = 1
                 THEN SubSeq(text, start, index) ELSE Scanning
  BY DEF Scan
<1>4. content # Waiting /\ outcome = << >>
  BY <1>1, StatesDiffer DEF ExtractInv
<1>5. /\ isAnswer(answer) /\ text \in Seq(Characters)
      /\ text = IF answer.result.kind = "none" THEN << >> ELSE written(answer)
  BY <1>4, ArrivedText
<1>6. ScanInv /\ Len(text) \in Nat /\ index \in Nat /\ index # 0
  <2>1. Len(text) \in Nat
    BY <1>5
  <2>2. index \in Nat /\ index # 0
    BY <1>1, <2>1
  <2> QED BY <1>1, <2>1, <2>2 DEF ExtractInv
<1>7. /\ isObject(answer) /\ ~ blockFound /\ start = b + 1 /\ text = written(answer)
      /\ k \in 1..(answer.cut + 1) /\ k <= Len(answer.object)
      /\ inString \in BOOLEAN /\ escaped \in BOOLEAN
      /\ inString <=> In(answer, k)
      /\ escaped <=> Escaped(answer, k)
      /\ depth = Cardinality(Open(answer, k))
      /\ answer.result.kind # "none"
  BY <1>5, <1>6 DEF ScanInv
<1>8. /\ b \in Nat /\ Position = index - b
      /\ answer.cut \in Nat /\ answer.cut <= Len(answer.object) /\ Len(answer.object) \in Nat
      /\ Len(answer.after) \in Nat /\ Len(text) = b + answer.cut + Len(answer.after)
      /\ answer.after # << >> => answer.cut = Len(answer.object)
  <2>1. answer.cut < Len(answer.object) => answer.after = << >>
    BY <1>5 DEF isAnswer, truncated
  <2>2. Position = index - b
    BY DEF Position
  <2> QED BY <1>5, <1>7, <2>1, <2>2, WrittenType
<1>9. index = b + k /\ k \in 1..answer.cut /\ k \in 1..Len(answer.object) /\ Position' = k + 1
  <2>1. index = b + k /\ Position' = k + 1
    <3>1. Position' = (index + 1) - b
      BY <1>1 DEF Position
    <3> QED BY <1>6, <1>8, <3>1
  <2>2. k \in 1..(answer.cut + 1)
    BY <1>7
  <2>3. k <= answer.cut
    <3>1. CASE answer.after = << >>
      <4>1. Len(answer.after) = 0
        BY <3>1
      <4>2. index <= b + answer.cut
        BY <1>1, <1>6, <1>8, <4>1
      <4>3. k = index - b
        BY <1>8
      <4> QED BY <1>6, <1>8, <4>2, <4>3
    <3>2. CASE answer.after # << >>
      BY <1>7, <1>8, <3>2
    <3> QED BY <3>1, <3>2
  <2> HIDE DEF k, b
  <2>4. k \in 1..answer.cut /\ k \in 1..Len(answer.object)
    BY <1>8, <2>2, <2>3
  <2> QED BY <2>1, <2>4
<1>10. text[index] = ch
  BY <1>5, <1>7, <1>9, WrittenType
<1>11. OutcomeIsOfTheFirstAssessment'
  BY <1>1, <1>4 DEF OutcomeIsOfTheFirstAssessment
<1> HIDE DEF k, b
<1>12. /\ inString' \in BOOLEAN /\ escaped' \in BOOLEAN
       /\ inString' <=> In(answer, k + 1)
       /\ escaped' <=> Escaped(answer, k + 1)
  BY <1>2, <1>5, <1>7, <1>9, <1>10, StringStep DEF scanBraceChar
<1>13. depth' = Cardinality(Open(answer, k + 1))
  BY <1>2, <1>5, <1>7, <1>9, <1>10, BraceStep DEF scanBraceChar
<1>14. (ch = "}" /\ depth' = 0 /\ depth = 1) <=> k = Len(answer.object)
  <2>1. depth \in Nat
    BY <1>5, <1>7, OpenFinite
  <2> DEFINE outside == ~ In(answer, k) /\ ~ Escaped(answer, k)
  <2>2. (outside /\ ch = "}" /\ depth = 1) <=> k = Len(answer.object)
    BY <1>5, <1>7, <1>9, BraceStep
  <2>3. depth' = IF ~ outside THEN depth
                 ELSE CASE ch = "{" -> depth + 1 [] ch = "}" -> depth - 1 [] OTHER -> depth
    BY <1>5, <1>7, <1>9, <1>13, BraceStep
  <2>4. ch = "}" => ch # "{"
    OBVIOUS
  <2> HIDE DEF ch, outside
  <2>5. CASE ~ outside
    <3>1. depth' = depth
      BY <2>3, <2>5
    <3>2. ~ (depth' = 0 /\ depth = 1)
      BY <3>1
    <3>3. k # Len(answer.object)
      BY <2>2, <2>5
    <3> QED BY <3>2, <3>3
  <2>6. CASE outside
    <3>1. ch = "}" => depth' = depth - 1
      BY <2>3, <2>4, <2>6
    <3>2. depth = 1 => depth - 1 = 0
      BY <2>1
    <3> QED BY <2>2, <2>6, <3>1, <3>2
  <2> QED BY <2>5, <2>6
<1>15. CASE k = Len(answer.object)
  <2>1. content' = SubSeq(text, b + 1, b + k)
    BY <1>3, <1>7, <1>9, <1>10, <1>14, <1>15
  <2>2. SubSeq(text, b + 1, b + k) = answer.object
    <3> DEFINE s == SubSeq(text, b + 1, b + k)
    <3>1. /\ answer.object \in Seq(Characters)
          /\ \A i \in 1..answer.cut : text[b + i] = answer.object[i]
      BY <1>5, <1>7, WrittenType DEF b
    <3>2. /\ text \in Seq(Characters) /\ b \in Nat /\ k \in Nat
          /\ b + 1 \in 1..(Len(text) + 1) /\ b + k \in 0..Len(text)
      <4>1. b \in Nat /\ k \in Nat /\ k # 0 /\ b + k \in Nat /\ b + k <= Len(text) /\ Len(text) \in Nat
        BY <1>1, <1>6, <1>8, <1>9
      <4> HIDE DEF s, ch
      <4>2. b + 1 \in 1..(Len(text) + 1) /\ b + k \in 0..Len(text)
        BY <4>1
      <4> QED BY <1>5, <4>1, <4>2
    <3>3. s \in Seq(Characters) /\ Len(s) = k /\ \A i \in 1..k : s[i] = text[b + i]
      BY <3>2, SubSeqProperties
    <3> HIDE DEF s
    <3>4. \A i \in 1..k : i \in 1..answer.cut
      BY <1>8, <1>9
    <3>5. s = answer.object
      BY <1>15, <3>1, <3>3, <3>4, SeqEqual
    <3> QED BY <3>5 DEF s
  <2>3. Whole
    <3>1. answer.object # << >>
      BY <1>9
    <3>2. ~ (answer.cut < Len(answer.object))
      BY <1>8, <1>9, <1>15
    <3> QED BY <1>7, <3>1, <3>2 DEF Whole, truncated
  <2>4. ExtractsExactlyTheObject'
    BY <1>1, <2>1, <2>2, <2>3 DEF ExtractsExactlyTheObject, Whole
  <2>5. content' \notin {Waiting, Scanning}
    BY <1>5, <2>1, <2>2, WrittenType, ObjectIsNoState
  <2>6. index' # 0
    BY <1>1, <1>6
  <2>7. text' = extractResponseText(answer.result)'
    BY <1>1, <1>4 DEF ExtractInv
  <2> QED BY <1>1, <1>4, <1>11, <2>4, <2>5, <2>6, <2>7 DEF ExtractInv
<1>16. CASE k # Len(answer.object)
  <2>1. content' = Scanning
    BY <1>3, <1>10, <1>14, <1>16
  <2>2. k + 1 \in 1..(answer.cut + 1) /\ k + 1 <= Len(answer.object) /\ index' \in Nat
    BY <1>1, <1>6, <1>8, <1>9, <1>16
  <2>3. start' = start /\ blockFound' = blockFound
    <3> DEFINE found(t) == {i \in 1..Len(t) : t[i] = "{"}
    <3>1. start = IF found(text) # {}
                  THEN CHOOSE i \in found(text) : \A j \in found(text) : i <= j ELSE 0
      BY DEF start, SelectInSeq, Min
    <3>2. start' = IF found(text') # {}
                   THEN CHOOSE i \in found(text') : \A j \in found(text') : i <= j ELSE 0
      BY DEF start, SelectInSeq, Min
    <3> HIDE DEF found
    <3>3. start' = start
      BY <1>1, <3>1, <3>2
    <3> QED BY <1>1, <3>3 DEF blockFound
  <2>4. ScanInv'
    BY <1>1, <1>7, <1>9, <1>12, <1>13, <2>2, <2>3 DEF ScanInv, b
  <2>5. ExtractsExactlyTheObject'
    BY <2>1 DEF ExtractsExactlyTheObject
  <2>6. index' # 0
    BY <1>1, <1>6
  <2>7. text' = extractResponseText(answer.result)'
    BY <1>1, <1>4 DEF ExtractInv
  <2> QED BY <1>1, <1>4, <1>11, <2>1, <2>4, <2>5, <2>6, <2>7, StatesDiffer DEF ExtractInv
<1> QED BY <1>15, <1>16

\* ... a text without an object or with a truncated one,
LEMMA GiveUpStep == ASSUME ExtractInv, GiveUp PROVE ExtractInv'
<1>1. /\ answer' = answer /\ text' = text /\ index' = index /\ outcome' = outcome
      /\ content = Scanning /\ index > Len(text) /\ content' = BadRequest
      /\ depth' = depth /\ inString' = inString /\ escaped' = escaped
  BY DEF GiveUp
<1>2. content # Waiting /\ outcome = << >>
  BY <1>1, StatesDiffer DEF ExtractInv
<1>3. /\ isAnswer(answer) /\ text \in Seq(Characters)
      /\ text = IF answer.result.kind = "none" THEN << >> ELSE written(answer)
  BY <1>2, ArrivedText
<1>4. ~ Whole
  <2>1. Len(text) \in Nat
    BY <1>3
  <2>2. ScanInv
    BY <1>1, <2>1 DEF ExtractInv
  <2>3. text = written(answer) /\ Position <= Len(answer.object)
    BY <1>3, <2>2 DEF ScanInv
  <2>4. /\ Len(text) = Len(answer.before) + answer.cut + Len(answer.after)
        /\ Len(answer.before) \in Nat /\ Len(answer.after) \in Nat
        /\ answer.cut \in Nat /\ Len(answer.object) \in Nat /\ index \in Nat
    BY <1>3, <2>2, <2>3, WrittenType DEF ScanInv
  <2>5. answer.cut < Len(answer.object)
    <3> DEFINE b == Len(answer.before) l == Len(answer.after) n == Len(answer.object)
    <3>1. index > b + answer.cut + l /\ index - b <= n
      BY <1>1, <2>3, <2>4 DEF Position
    <3>2. b \in Nat /\ l \in Nat /\ n \in Nat /\ answer.cut \in Nat /\ index \in Nat
      BY <2>4
    <3> HIDE DEF b, l, n
    <3>3. answer.cut < n
      BY <3>1, <3>2
    <3> QED BY <3>3 DEF n
  <2> QED BY <2>5 DEF Whole, truncated
<1>5. ExtractsExactlyTheObject'
  BY <1>1, <1>4 DEF ExtractsExactlyTheObject, Whole
<1>6. OutcomeIsOfTheFirstAssessment'
  BY <1>1, <1>2 DEF OutcomeIsOfTheFirstAssessment
<1> QED BY <1>1, <1>2, <1>5, <1>6, StatesDiffer DEF ExtractInv

\* ... and the validation.
LEMMA ValidateStep == ASSUME ExtractInv, Validate PROVE ExtractInv'
<1>1. /\ answer' = answer /\ text' = text /\ index' = index /\ content' = content
      /\ depth' = depth /\ inString' = inString /\ escaped' = escaped
      /\ content \notin {Waiting, Scanning} /\ outcome = << >>
      /\ outcome' =
            CASE content = BadRequest -> BadRequest
              [] content # BadRequest /\ answer.means.kind = "scalar" -> BadRequest
              [] OTHER ->
                    LET list == answer.means.assessments
                    IN  IF list # << >> /\ validAssessment(list[1])
                        THEN <<"response", list[1]>> ELSE <<"ZodError">>
  BY DEF Validate
<1>2. content = IF Whole THEN answer.object ELSE BadRequest
  BY <1>1 DEF ExtractInv, ExtractsExactlyTheObject
<1>3. ExtractsExactlyTheObject'
  BY <1>1, <1>2 DEF ExtractsExactlyTheObject, Whole
<1>4. answer.object # BadRequest
  BY AnswersAssumption, WrittenType, ObjectIsNoState DEF ExtractInv
<1>5. OutcomeIsOfTheFirstAssessment'
  <2>1. CASE ~ Whole
    BY <1>1, <1>2, <2>1 DEF OutcomeIsOfTheFirstAssessment, Whole
  <2>2. CASE Whole
    <3>1. content # BadRequest /\ Whole'
      BY <1>1, <1>2, <1>4, <2>2 DEF Whole
    <3>2. CASE answer.means.kind = "scalar"
      BY <1>1, <3>1, <3>2 DEF OutcomeIsOfTheFirstAssessment
    <3>3. CASE answer.means.kind # "scalar"
      <4>1. outcome' = LET list == answer.means.assessments
                       IN  IF list # << >> /\ validAssessment(list[1])
                           THEN <<"response", list[1]>> ELSE <<"ZodError">>
        BY <1>1, <3>1, <3>3
      <4> QED BY <1>1, <3>1, <3>3, <4>1 DEF OutcomeIsOfTheFirstAssessment
    <3> QED BY <3>2, <3>3
  <2> QED BY <2>1, <2>2
<1>6. content' = Scanning => FALSE
  BY <1>1
<1> QED BY <1>1, <1>3, <1>5, <1>6 DEF ExtractInv

\* JsonParserUtility and the validation after it keep the invariant, for every answer.
THEOREM ExtractInvariant == ExtractSpec => []ExtractInv
<1>1. ExtractInit => ExtractInv
  BY StatesDiffer DEF ExtractInit, ExtractInv, ExtractsExactlyTheObject, OutcomeIsOfTheFirstAssessment
<1>2. ExtractInv /\ [ExtractNext]_extractVars => ExtractInv'
  <2> SUFFICES ASSUME ExtractInv, [ExtractNext]_extractVars PROVE ExtractInv'
    OBVIOUS
  <2>1. CASE UNCHANGED extractVars
    <3>1. start' = start
      BY <2>1 DEF extractVars, start, SelectInSeq, Min
    <3>2. ScanInv => ScanInv'
      BY <2>1, <3>1 DEF extractVars, ScanInv, Position, blockFound
    <3> QED BY <2>1, <3>2 DEF ExtractInv, extractVars, ExtractsExactlyTheObject,
               OutcomeIsOfTheFirstAssessment, Whole
  <2> QED BY <2>1, ReceiveStep, TakeBlockStep, FindStartStep, ScanStep, GiveUpStep, ValidateStep
         DEF ExtractNext
<1> QED BY <1>1, <1>2, PTL DEF ExtractSpec

\* The scan of JsonParserUtility stops exactly at the end of the object, whatever braces, quotes
\* and escapes its strings hold, and never takes a truncated object for a whole one.
THEOREM ObjectIsExtracted == ExtractSpec => []ExtractsExactlyTheObject
<1>1. ExtractInv => ExtractsExactlyTheObject
  BY DEF ExtractInv
<1> QED BY <1>1, ExtractInvariant, PTL

\* What _sendInternal returns is the first assessment of the answer, and it throws the error
\* that belongs to any other answer.
THEOREM FirstAssessmentCounts == ExtractSpec => []OutcomeIsOfTheFirstAssessment
<1>1. ExtractInv => OutcomeIsOfTheFirstAssessment
  BY DEF ExtractInv
<1> QED BY <1>1, ExtractInvariant, PTL

-----------------------------------------------------------------------------
(* ProviderRequest: what prompts build.                                      *)

\* A payload send() may be given: a legacy one, or a conversation the schema accepted.
Sendable(p) ==
    /\ p \in Payload
    /\ \/ "messages" \notin p.has
       \/ p.has \cap {"images", "user"} # {}
       \/ p.has = {"messages"} /\ conversationAccepted(p.messages)
\* The inductive invariant: what each stage has made of the payload.
RequestInv ==
    /\ config \in Configurations
    /\ dto \in Submissions \cup {Nothing}
    /\ phase \in {"idle", "built", "routed", "dispatched", "ZodError", "unsupported"}
    /\ phase \in {"idle", "ZodError"} => dto = Nothing
    /\ phase \in {"built", "routed", "dispatched"} =>
          /\ Sendable(payload)
          /\ dto # Nothing => payload = buildMessage(dto)
    /\ phase \in {"routed", "dispatched"} => resolved = resolve(config, payload)
    /\ phase = "dispatched" =>
          payloadTypeName(resolved) # "unknown" /\ request = sdkRequest(resolved)

\* The program's own strings.
LEMMA OwnStrings ==
    /\ "system prompt" \in Strings /\ "TEXT" \in Strings /\ "TABLE" \in Strings
    /\ "IMAGE" \in Strings /\ "sha256" \in Strings /\ "unset" \in Strings
    /\ "Reference Task" \in Strings /\ "Template Task" \in Strings
    /\ "Student Task" \in Strings /\ "Template" \in Strings
    /\ "Student Submission" \in Strings
    /\ "Assess these images per your system instructions." \in Strings
BY StringsAssumption

\* Sequences of words.
LEMMA WordLists ==
    ASSUME NEW x \in Strings, NEW y \in Strings, NEW w \in Words
    PROVE  <<x>> \in Words /\ <<x, y>> \in Words /\ <<x>> \o w \in Words
BY DEF Words

LEMMA NoWords == << >> \in Words
BY DEF Words

\* The parts and payloads the constructors make are of their types.
LEMMA PartTypes == ASSUME NEW w \in Words PROVE Text(w) \in Part /\ Image(w) \in Part
BY DEF Text, Image, Part

LEMMA NewPayloadType == NewPayload \in Payload
<1>1. << >> \in Words /\ "unset" \in Strings
  BY OwnStrings, NoWords
<1> QED BY <1>1 DEF NewPayload, Payload

\* Tuples of an image prompt's parts and of a template's sections.
LEMMA SixParts ==
    ASSUME NEW a, NEW b, NEW c, NEW d, NEW e, NEW f, {a,b,c,d,e,f} \subseteq Part
    PROVE <<a,b,c,d,e,f>> \in Seq(Part) /\ <<a,b,c,d,e,f>> # << >>
OBVIOUS
LEMMA ThreeOf ==
    ASSUME NEW a, NEW b, NEW c
    PROVE  LET t == <<a, b, c>> IN DOMAIN t = 1..3 /\ t[1] = a /\ t[2] = b /\ t[3] = c
OBVIOUS

LEMMA TripleOf ==
    ASSUME NEW f, DOMAIN f = 1..3, f = [i \in DOMAIN f |-> f[i]]
    PROVE  f = <<f[1], f[2], f[3]>>
OBVIOUS

\* Three sequences flattened.
LEMMA ThreeConcat ==
    ASSUME NEW r \in Words, NEW t \in Words, NEW s \in Words
    PROVE  /\ (r \o t) \o s \in Words
           /\ FlattenSeq(<<r, t, s>>) = (r \o t) \o s
<1>1. r \in Seq(Strings) /\ t \in Seq(Strings) /\ s \in Seq(Strings)
  BY DEF Words
<1>2. (r \o t) \o s \in Seq(Strings)
  BY <1>1
<1>3. <<r, t>> \in Seq(Seq(Strings)) /\ <<r, t, s>> = Append(<<r, t>>, s)
  BY <1>1
<1>4. FlattenSeq(Append(<<r, t>>, s)) = FlattenSeq(<<r, t>>) \o s
  BY <1>1, <1>3, FlattenAppend
<1>5. FlattenSeq(<<r, t>>) = r \o t
  BY <1>1, FlattenTwo
<1> QED BY <1>2, <1>3, <1>4, <1>5 DEF Words

\* A list of one part.
LEMMA OnePart ==
    ASSUME NEW x \in Part
    PROVE  LET a == <<x>> IN a \in Seq(Part) /\ a # << >> /\ DOMAIN a = {1} /\ Len(a) = 1 /\ a[1] = x
OBVIOUS

\* What the template says.
LEMMA Headings ==
    /\ DOMAIN UserTemplate = 1..3
    /\ 1 \in DOMAIN UserTemplate /\ 2 \in DOMAIN UserTemplate /\ 3 \in DOMAIN UserTemplate
    /\ UserTemplate[1].heading = "Reference Task" /\ UserTemplate[1].tag = "referenceTask"
    /\ UserTemplate[2].heading = "Template Task" /\ UserTemplate[2].tag = "emptyTask"
    /\ UserTemplate[3].heading = "Student Task" /\ UserTemplate[3].tag = "studentTask"
<1> DEFINE a == [heading |-> "Reference Task", tag |-> "referenceTask"]
           b == [heading |-> "Template Task", tag |-> "emptyTask"]
           c == [heading |-> "Student Task", tag |-> "studentTask"]
<1>1. UserTemplate = <<a, b, c>>
  BY DEF UserTemplate
<1>2. /\ a.heading = "Reference Task" /\ a.tag = "referenceTask"
      /\ b.heading = "Template Task" /\ b.tag = "emptyTask"
      /\ c.heading = "Student Task" /\ c.tag = "studentTask"
  OBVIOUS
<1> HIDE DEF a, b, c
<1>3. DOMAIN UserTemplate = 1..3 /\ UserTemplate[1] = a /\ UserTemplate[2] = b /\ UserTemplate[3] = c
  BY <1>1, ThreeOf
<1>4. 1 \in 1..3 /\ 2 \in 1..3 /\ 3 \in 1..3
  OBVIOUS
<1> QED BY <1>2, <1>3, <1>4, Zenon

\* Which field of a submission each tag stands for.
LEMMA Tags ==
    ASSUME NEW d
    PROVE  /\ inputs(d)["referenceTask"] = d.reference /\ inputs(d)["emptyTask"] = d.template
           /\ inputs(d)["studentTask"] = d.studentResponse
BY DEF inputs

\* What a submission is made of.
LEMMA SubmissionFields ==
    ASSUME NEW d \in Submissions
    PROVE  /\ d.taskType \in {"TEXT", "TABLE", "IMAGE"} /\ d.taskType \in Strings
           /\ d.reference \in Words /\ d.template \in Words /\ d.studentResponse \in Words
           /\ <<"sha256">> \o d.reference \in Words
           /\ <<"system prompt", d.taskType>> \in Words
<1>1. /\ d.taskType \in {"TEXT", "TABLE", "IMAGE"}
      /\ d.reference \in Words /\ d.template \in Words /\ d.studentResponse \in Words
  BY SubmissionsAssumption
<1>2. d.taskType \in Strings
  BY <1>1, OwnStrings
<1> QED BY <1>1, <1>2, OwnStrings, WordLists

\* A rendered template is its headings, each with its task below it.
LEMMA Rendered ==
    ASSUME NEW d \in Submissions, NEW r, NEW t, NEW s,
           r = <<"Reference Task">> \o d.reference,
           t = <<"Template Task">> \o d.template,
           s = <<"Student Task">> \o d.studentResponse
    PROVE  /\ r \in Words /\ t \in Words /\ s \in Words
           /\ render(UserTemplate, inputs(d)) = (r \o t) \o s
           /\ render(UserTemplate, inputs(d)) \in Words
<1> DEFINE pieces == [i \in DOMAIN UserTemplate |->
                        <<UserTemplate[i].heading>> \o inputs(d)[UserTemplate[i].tag]]
           whole == render(UserTemplate, inputs(d))
<1>1. r \in Words /\ t \in Words /\ s \in Words
  BY SubmissionFields, OwnStrings, WordLists
<1>2. DOMAIN pieces = 1..3 /\ pieces = [i \in DOMAIN pieces |-> pieces[i]]
  BY Headings
<1>3. /\ pieces[1] = <<UserTemplate[1].heading>> \o inputs(d)[UserTemplate[1].tag]
      /\ pieces[2] = <<UserTemplate[2].heading>> \o inputs(d)[UserTemplate[2].tag]
      /\ pieces[3] = <<UserTemplate[3].heading>> \o inputs(d)[UserTemplate[3].tag]
  <2>1. \A i \in DOMAIN UserTemplate :
           pieces[i] = <<UserTemplate[i].heading>> \o inputs(d)[UserTemplate[i].tag]
    OBVIOUS
  <2>2. 1 \in DOMAIN UserTemplate /\ 2 \in DOMAIN UserTemplate /\ 3 \in DOMAIN UserTemplate
    BY Headings, Zenon
  <2> HIDE DEF pieces
  <2> QED BY <2>1, <2>2, Zenon
<1>4. whole = FlattenSeq(pieces)
  BY DEF render
<1> HIDE DEF pieces, whole
<1>5. pieces[1] = r /\ pieces[2] = t /\ pieces[3] = s
  BY <1>3, Headings, Tags
<1>6. pieces = <<r, t, s>>
  BY <1>2, <1>5, TripleOf, Zenon
<1>7. whole = (r \o t) \o s /\ whole \in Words
  <2>1. FlattenSeq(<<r, t, s>>) = (r \o t) \o s /\ (r \o t) \o s \in Words
    BY <1>1, ThreeConcat
  <2> QED BY <1>4, <1>6, <2>1, Zenon
<1> QED BY <1>1, <1>7, Zenon DEF whole

\* The payload of a text or table.
LEMMA BuiltText ==
    ASSUME NEW d \in Submissions, d.taskType # "IMAGE"
    PROVE  /\ buildMessage(d).has = {"system", "user"}
           /\ buildMessage(d).system = <<"system prompt", d.taskType>>
           /\ buildMessage(d).user = render(UserTemplate, inputs(d))
           /\ buildMessage(d).promptCacheKey = <<"sha256">> \o d.reference
           /\ buildMessage(d) \in Payload
<1> DEFINE s == <<"system prompt", d.taskType>>
           u == render(UserTemplate, inputs(d))
           k == buildPromptCacheKey(inputs(d))
           h == {"system", "user"}
<1>1. s \in Words /\ u \in Words /\ k \in Words /\ k = <<"sha256">> \o d.reference
  BY SubmissionFields, Rendered DEF buildPromptCacheKey, inputs
<1>2. h \in SUBSET {"system", "user", "images", "messages"}
  OBVIOUS
<1>3. buildMessage(d) = [NewPayload EXCEPT !.has = h, !.system = s, !.user = u, !.promptCacheKey = k]
  BY DEF buildMessage, buildTextMessage
<1> HIDE DEF s, u, k, h
<1>4. /\ buildMessage(d) \in Payload /\ buildMessage(d).has = h /\ buildMessage(d).system = s
      /\ buildMessage(d).user = u /\ buildMessage(d).promptCacheKey = k
  BY <1>1, <1>2, <1>3, NewPayloadType DEF Payload
<1> QED BY <1>1, <1>4 DEF s, u, h

\* The labels and images of an image prompt.
LEMMA UserParts ==
    ASSUME NEW d \in Submissions
    PROVE  buildUserParts(inputs(d)) \in Seq(Part) /\ buildUserParts(inputs(d)) # << >>
<1>1. /\ Text(<<"Reference Task">>) \in Part /\ Text(<<"Template">>) \in Part
      /\ Text(<<"Student Submission">>) \in Part
  BY OwnStrings, WordLists, NoWords, PartTypes
<1>2. /\ Image(inputs(d).referenceTask) \in Part /\ Image(inputs(d).emptyTask) \in Part
      /\ Image(inputs(d).studentTask) \in Part
  BY SubmissionFields, PartTypes DEF inputs
<1> QED BY <1>1, <1>2, SixParts DEF buildUserParts

\* The payload of an image: a system and a user message.
LEMMA BuiltImage ==
    ASSUME NEW d \in Submissions, d.taskType = "IMAGE"
    PROVE  LET p == buildMessage(d)
               a == <<Text(<<"system prompt", d.taskType>>)>>
               b == buildUserParts(inputs(d))
           IN  /\ p \in Payload /\ p.has = {"messages"}
               /\ p.promptCacheKey = <<"sha256">> \o d.reference
               /\ p.messages = <<Message("system", a), Message("user", b)>>
               /\ Len(p.messages) = 2 /\ DOMAIN p.messages = 1..2
               /\ p.messages[1].role = "system" /\ p.messages[1].parts = a
               /\ p.messages[2].role = "user" /\ p.messages[2].parts = b
               /\ a \in Seq(Part) /\ b \in Seq(Part)
<1> DEFINE a == <<Text(<<"system prompt", d.taskType>>)>>
           b == buildUserParts(inputs(d))
           k == buildPromptCacheKey(inputs(d))
           h == {"messages"}
           ms == <<Message("system", a), Message("user", b)>>
<1>1. /\ k \in Words /\ k = <<"sha256">> \o d.reference
      /\ h \in SUBSET {"system", "user", "images", "messages"}
  BY SubmissionFields DEF buildPromptCacheKey, inputs
<1>2. a \in Seq(Part)
  <2>1. Text(<<"system prompt", d.taskType>>) \in Part
    BY SubmissionFields, PartTypes
  <2> QED BY <2>1, OnePart, Zenon
<1>3. b \in Seq(Part)
  BY UserParts
<1>4. /\ ms \in Seq([role : {"system", "user", "assistant"}, parts : Seq(Part)])
      /\ Len(ms) = 2 /\ DOMAIN ms = 1..2
      /\ ms[1].role = "system" /\ ms[2].role = "user" /\ ms[1].parts = a /\ ms[2].parts = b
  <2> HIDE DEF a, b, k, h
  <2> QED BY <1>2, <1>3 DEF Message
<1>5. buildMessage(d) = [NewPayload EXCEPT !.has = h, !.messages = ms, !.promptCacheKey = k]
  BY DEF buildMessage, buildMultiPartMessage
<1> HIDE DEF a, b, k, h, ms
<1>6. /\ buildMessage(d) \in Payload /\ buildMessage(d).has = h
      /\ buildMessage(d).messages = ms /\ buildMessage(d).promptCacheKey = k
  BY <1>1, <1>4, <1>5, NewPayloadType DEF Payload
<1>7. LET p == buildMessage(d)
      IN  /\ p \in Payload /\ p.has = {"messages"}
          /\ p.promptCacheKey = <<"sha256">> \o d.reference
          /\ p.messages = <<Message("system", a), Message("user", b)>>
          /\ Len(p.messages) = 2 /\ DOMAIN p.messages = 1..2
          /\ p.messages[1].role = "system" /\ p.messages[1].parts = a
          /\ p.messages[2].role = "user" /\ p.messages[2].parts = b
          /\ a \in Seq(Part) /\ b \in Seq(Part)
  BY <1>1, <1>2, <1>3, <1>4, <1>6, Zenon DEF h, ms
<1> QED BY <1>7, Zenon DEF a, b

\* Whatever a prompt builds may be sent.
LEMMA BuiltSendable ==
    ASSUME NEW d \in Submissions PROVE Sendable(buildMessage(d))
<1>1. CASE d.taskType = "IMAGE"
  <2> DEFINE p == buildMessage(d)
             a == <<Text(<<"system prompt", d.taskType>>)>>
             b == buildUserParts(inputs(d))
  <2>1. a # << >> /\ b # << >> /\ \A j \in DOMAIN a : a[j].kind = "text"
    <3> DEFINE x == Text(<<"system prompt", d.taskType>>)
    <3>1. x \in Part /\ x.kind = "text"
      BY SubmissionFields, PartTypes DEF Text
    <3>2. b # << >>
      BY UserParts
    <3> HIDE DEF x, b
    <3>3. /\ <<x>> # << >> /\ DOMAIN <<x>> = {1} /\ <<x>>[1] = x
      BY <3>1, OnePart, Zenon
    <3>4. a = <<x>>
      BY DEF x
    <3> HIDE DEF a
    <3> QED BY <3>1, <3>2, <3>3, <3>4
  <2> HIDE DEF a, b
  <2>2. /\ p \in Payload /\ p.has = {"messages"} /\ Len(p.messages) = 2 /\ DOMAIN p.messages = 1..2
        /\ p.messages[1].role = "system" /\ p.messages[1].parts = a
        /\ p.messages[2].role = "user" /\ p.messages[2].parts = b
    BY <1>1, BuiltImage DEF a, b
  <2>3. conversationAccepted(p.messages)
    <3> DEFINE ms == p.messages
    <3> HIDE DEF ms
    <3>1. \A i \in DOMAIN ms : i = 1 \/ i = 2
      BY <2>2 DEF ms
    <3>2. ms # << >> /\ 2 \in DOMAIN ms
      BY <2>2 DEF ms
    <3> QED BY <2>1, <2>2, <3>1, <3>2 DEF conversationAccepted, ms
  <2> QED BY <2>2, <2>3 DEF Sendable
<1>2. CASE d.taskType # "IMAGE"
  <2>1. buildMessage(d) \in Payload /\ "messages" \notin buildMessage(d).has
    <3>1. buildMessage(d) \in Payload /\ buildMessage(d).has = {"system", "user"}
      BY <1>2, BuiltText, Zenon
    <3> QED BY <3>1
  <2> QED BY <2>1 DEF Sendable
<1> QED BY <1>1, <1>2

\* The invariant holds at the start, and every step preserves it.
LEMMA RequestStart == RequestInit => RequestInv
BY DEF RequestInit, RequestInv

LEMMA RequestStep == RequestInv /\ [RequestNext]_requestVars => RequestInv'
<1> SUFFICES ASSUME RequestInv, [RequestNext]_requestVars PROVE RequestInv'
  OBVIOUS
<1> USE DEF RequestInv
<1>1. ASSUME NEW d \in Submissions, Build(d) PROVE RequestInv'
  BY <1>1, BuiltSendable DEF Build
<1>2. ASSUME NEW p \in Conversations, Construct(p) PROVE RequestInv'
  <2>1. CASE conversationAccepted(p.messages)
    <3>1. Sendable(p)
      BY <2>1, PayloadsAssumption DEF Sendable
    <3>2. dto = Nothing
      BY <1>2 DEF Construct
    <3> QED BY <1>2, <2>1, <3>1, <3>2 DEF Construct
  <2>2. CASE ~ conversationAccepted(p.messages)
    BY <1>2, <2>2 DEF Construct
  <2> QED BY <2>1, <2>2
<1>3. ASSUME NEW p \in LegacyPayloads, Hand(p) PROVE RequestInv'
  <2>1. Sendable(p)
    BY PayloadsAssumption DEF Sendable
  <2>2. dto = Nothing
    BY <1>3 DEF Hand
  <2> QED BY <1>3, <2>1, <2>2 DEF Hand
<1>4. CASE Route
  BY <1>4 DEF Route
<1>5. CASE Dispatch
  BY <1>5 DEF Dispatch
<1>6. CASE UNCHANGED requestVars
  BY <1>6 DEF requestVars
<1> QED BY <1>1, <1>2, <1>3, <1>4, <1>5, <1>6 DEF RequestNext

-----------------------------------------------------------------------------
(* What is said, and by whom.                                                *)

\* Routing changes the model and the effort, and nothing else.
LEMMA Resolved ==
    ASSUME NEW c \in Configurations, NEW p \in Payload
    PROVE  LET q == resolve(c, p)
           IN  /\ q.has = p.has /\ q.system = p.system /\ q.user = p.user /\ q.images = p.images
               /\ q.messages = p.messages /\ q.promptCacheKey = p.promptCacheKey
               /\ q.model = (IF isImage(p) THEN c.imageModel ELSE c.textModel)
               /\ q.effort = (IF isImage(p) THEN c.imageEffort ELSE c.textEffort)
               /\ q.model \in DOMAIN FamilyOf /\ FamilyOf[q.model] \in Families
               /\ q.effort \in EffortNames /\ q \in Payload
               /\ payloadTypeName(q) = payloadTypeName(p)
               /\ completeImages(q) = completeImages(p)
<1> DEFINE q == resolve(c, p)
           m == IF isImage(p) THEN c.imageModel ELSE c.textModel
           e == IF isImage(p) THEN c.imageEffort ELSE c.textEffort
<1>1. m \in DOMAIN FamilyOf /\ FamilyOf[m] \in Families /\ m \in Strings /\ e \in EffortNames
  BY ConfigurationsAssumption, FamiliesAssumption
<1>2. q = [p EXCEPT !.model = m, !.effort = e]
  BY DEF resolve
<1> HIDE DEF q, m, e
<1>3. /\ q.has = p.has /\ q.system = p.system /\ q.user = p.user /\ q.images = p.images
      /\ q.messages = p.messages /\ q.promptCacheKey = p.promptCacheKey
      /\ q.model = m /\ q.effort = e /\ q \in Payload
  BY <1>1, <1>2 DEF Payload
<1>4. payloadTypeName(q) = payloadTypeName(p)
  BY <1>3, Zenon DEF payloadTypeName
<1>5. completeImages(q) = completeImages(p)
  BY <1>3, Zenon DEF completeImages
<1> QED BY <1>1, <1>3, <1>4, <1>5, Zenon DEF q, m, e

-----------------------------------------------------------------------------
\* What is said, and by whom.
Utterance == [who : {"system", "user", "assistant"}, what : Part]

\* What is heard of what is meant: the same, and by the same, save that the user may be
\* heard to say what the system means (to the provider for which g holds).
Agree(g) ==
    {pair \in Utterance \X Utterance :
        /\ pair[1].what = pair[2].what
        /\ \/ pair[1].who = pair[2].who
           \/ g /\ pair[2].who = "system" /\ pair[1].who = "user"}

\* What a message is made of.
LEMMA MessageFields ==
    ASSUME NEW R, NEW Q, NEW ms \in Seq([role : R, parts : Q]), NEW i \in 1..Len(ms)
    PROVE  ms[i].role \in R /\ ms[i].parts \in Q
<1> DEFINE m == ms[i]
<1>1. m \in [role : R, parts : Q]
  BY ElementOfSeq, Zenon
<1> HIDE DEF m
<1>2. m.role \in R /\ m.parts \in Q
  BY <1>1
<1> QED BY <1>2 DEF m

\* A speech is one utterance for each of its parts.
LEMMA Spoken ==
    ASSUME NEW w \in {"system", "user", "assistant"}, NEW ps \in Seq(Part)
    PROVE  /\ Speech(w, ps) \in Seq(Utterance) /\ Len(Speech(w, ps)) = Len(ps)
           /\ DOMAIN Speech(w, ps) = 1..Len(ps)
           /\ \A i \in 1..Len(ps) : /\ Speech(w, ps)[i].who = w /\ Speech(w, ps)[i].what = ps[i]
                                    /\ Speech(w, ps)[i] \in Utterance
<1> DEFINE R == {"system", "user", "assistant"}
<1>1. Utterance = [who : R, what : Part]
  BY DEF Utterance
<1>2. Len(ps) \in Nat /\ DOMAIN ps = 1..Len(ps) /\ \A i \in 1..Len(ps) : ps[i] \in Part
  OBVIOUS
<1>3. w \in R
  OBVIOUS
<1> HIDE DEF R
<1>4. Speech(w, ps) = [i \in 1..Len(ps) |-> [who |-> w, what |-> ps[i]]]
  BY <1>2 DEF Speech
<1>5. \A i \in 1..Len(ps) : [who |-> w, what |-> ps[i]] \in Utterance
  BY <1>1, <1>2, <1>3
<1> QED BY <1>2, <1>4, <1>5

LEMMA SilentSystem == Speech("system", << >>) = << >>
BY DEF Speech

\* The same parts said by those who may be heard for one another.
LEMMA SpokenAlike ==
    ASSUME NEW g \in BOOLEAN, NEW ps \in Seq(Part),
           NEW w \in {"system", "user", "assistant"}, NEW v \in {"system", "user", "assistant"},
           w = v \/ (g /\ v = "system" /\ w = "user")
    PROVE  Alike(Agree(g), Speech(w, ps), Speech(v, ps))
<1>1. Len(Speech(w, ps)) = Len(Speech(v, ps)) /\ Len(Speech(w, ps)) = Len(ps)
  BY Spoken
<1>2. ASSUME NEW j \in 1..Len(ps) PROVE <<Speech(w, ps)[j], Speech(v, ps)[j]>> \in Agree(g)
  <2> DEFINE a == Speech(w, ps)[j]
             b == Speech(v, ps)[j]
  <2>1. /\ a \in Utterance /\ b \in Utterance /\ a.who = w /\ b.who = v /\ a.what = b.what
    BY Spoken
  <2>2. a.who = b.who \/ (g /\ b.who = "system" /\ a.who = "user")
    BY <2>1
  <2> HIDE DEF a, b
  <2>3. <<a, b>> \in Agree(g)
    BY <2>1, <2>2 DEF Agree
  <2> QED BY <2>3 DEF a, b
<1> QED BY <1>1, <1>2 DEF Alike

LEMMA SameAlike ==
    ASSUME NEW g \in BOOLEAN, NEW s \in Seq(Utterance) PROVE Alike(Agree(g), s, s)
<1>1. ASSUME NEW j \in 1..Len(s) PROVE <<s[j], s[j]>> \in Agree(g)
  <2>1. s[j] \in Utterance
    OBVIOUS
  <2> QED BY <2>1 DEF Agree
<1> QED BY <1>1 DEF Alike

-----------------------------------------------------------------------------
\* Who is heard in a role of the SDK, what is heard turn by turn, and what is meant message
\* by message.
Voice(role) == IF role = "model" THEN "assistant" ELSE role
VoicesOf(turns) == [i \in DOMAIN turns |-> Speech(Voice(turns[i].role), turns[i].parts)]
LinesOf(ms) == [i \in DOMAIN ms |-> Speech(ms[i].role, ms[i].parts)]
Conversation == Seq([role : {"system", "user", "assistant"}, parts : Seq(Part)])

\* What is heard is the system instruction and the turns.
LEMMA HeardForm ==
    ASSUME NEW req PROVE HeardIn(req) = Speech("system", req.system) \o FlattenSeq(VoicesOf(req.turns))
BY Zenon DEF HeardIn, VoicesOf, Voice

\* The lines of a conversation are speeches of its messages.
LEMMA LinesType ==
    ASSUME NEW ms \in Conversation
    PROVE  /\ LinesOf(ms) \in Seq(Seq(Utterance)) /\ Len(LinesOf(ms)) = Len(ms)
           /\ DOMAIN LinesOf(ms) = 1..Len(ms)
           /\ \A i \in 1..Len(ms) :
                 /\ LinesOf(ms)[i] = Speech(ms[i].role, ms[i].parts)
                 /\ ms[i].role \in {"system", "user", "assistant"} /\ ms[i].parts \in Seq(Part)
                 /\ LinesOf(ms)[i] \in Seq(Utterance)
<1>1. ASSUME NEW i \in 1..Len(ms)
      PROVE  /\ ms[i].role \in {"system", "user", "assistant"} /\ ms[i].parts \in Seq(Part)
             /\ Speech(ms[i].role, ms[i].parts) \in Seq(Utterance)
  <2>1. ms[i].role \in {"system", "user", "assistant"} /\ ms[i].parts \in Seq(Part)
    BY MessageFields, Zenon DEF Conversation
  <2> QED BY <2>1, Spoken
<1>2. DOMAIN ms = 1..Len(ms) /\ Len(ms) \in Nat
  BY DEF Conversation
<1> QED BY <1>1, <1>2 DEF LinesOf

-----------------------------------------------------------------------------
(* Texts and images at the providers.                                        *)

\* The requests of Mistral and Gemini.
LEMMA MistralRequest ==
    ASSUME NEW q, FamilyOf[q.model] = "mistral"
    PROVE  LET r == sdkRequest(q)
           IN  /\ r.model = q.model /\ r.system = << >> /\ r.turns = buildMessages(q)
               /\ r.thinking = mapReasoningEffort(q.effort) /\ r.promptCacheKey = q.promptCacheKey
BY DEF sdkRequest, mistralRequest

LEMMA GeminiRequest ==
    ASSUME NEW q, FamilyOf[q.model] # "mistral"
    PROVE  LET r == sdkRequest(q)
           IN  /\ r.model = q.model /\ r.system = geminiView(q).system
               /\ r.turns = geminiView(q).turns
               /\ r.thinking = buildThinkingConfig(q.model, q.effort)
BY DEF sdkRequest, geminiRequest

\* The model is that of the payload.
LEMMA RequestModel == ASSUME NEW q PROVE sdkRequest(q).model = q.model
BY MistralRequest, GeminiRequest

\* A turn of the SDK's request.
Turn(role, parts) == [role |-> role, parts |-> parts]

\* The voices of one turn and of two.
LEMMA OneVoice ==
    ASSUME NEW a PROVE VoicesOf(<<Turn("user", a)>>) = <<Speech("user", a)>>
<1>1. Voice("user") = "user"
  BY DEF Voice
<1>2. Turn("user", a).role = "user" /\ Turn("user", a).parts = a
  BY DEF Turn
<1>3. ASSUME NEW x PROVE LET s == <<x>> IN DOMAIN s = {1} /\ s[1] = x /\ s = [i \in {1} |-> x]
  OBVIOUS
<1> QED BY <1>1, <1>2, <1>3 DEF VoicesOf

LEMMA TwoVoices ==
    ASSUME NEW a, NEW b
    PROVE  VoicesOf(<<Turn("system", a), Turn("user", b)>>) = <<Speech("system", a), Speech("user", b)>>
<1> DEFINE s == Turn("system", a)
           u == Turn("user", b)
           vs == VoicesOf(<<s, u>>)
<1>1. Voice("system") = "system" /\ Voice("user") = "user"
  BY DEF Voice
<1>2. s.role = "system" /\ s.parts = a /\ u.role = "user" /\ u.parts = b
  BY DEF Turn
<1> HIDE DEF s, u
<1>3. /\ vs = [i \in 1..2 |-> vs[i]] 
      /\ vs[1] = Speech(Voice(s.role), s.parts) /\ vs[2] = Speech(Voice(u.role), u.parts)
  BY DEF VoicesOf
<1> HIDE DEF vs
<1>4. vs = <<Speech("system", a), Speech("user", b)>>
  BY <1>1, <1>2, <1>3
<1> QED BY <1>4 DEF vs, s, u

\* The text and the images of a payload are of the types of its parts.
LEMMA CompleteImagesType ==
    ASSUME NEW p \in Payload
    PROVE  /\ completeImages(p) \in Seq(Part)
           /\ Text(p.system) \in Part /\ Text(p.user) \in Part /\ Instruction \in Part
           /\ p.messages \in Conversation
<1>1. p.system \in Words /\ p.user \in Words /\ p.messages \in Conversation
      /\ p.images \in Seq([what : Words, data : BOOLEAN, mimeType : BOOLEAN])
  BY DEF Payload, Conversation
<1>2. Text(p.system) \in Part /\ Text(p.user) \in Part
  BY <1>1, PartTypes
<1>3. Instruction \in Part
  BY OwnStrings, WordLists, NoWords, PartTypes DEF Instruction
<1>4. completeImages(p) \in Seq(Part)
  <2> DEFINE images == p.images
             piece(i) == IF images[i].data /\ images[i].mimeType
                         THEN <<Image(images[i].what)>> ELSE << >>
  <2>1. ASSUME NEW i \in 1..Len(images) PROVE piece(i) \in Seq(Part)
    <3> DEFINE m == images[i]
    <3>1. m \in [what : Words, data : BOOLEAN, mimeType : BOOLEAN]
      BY <1>1, ElementOfSeq, Zenon
    <3> HIDE DEF m
    <3>2. m.what \in Words
      BY <3>1
    <3>3. Image(m.what) \in Part
      BY <3>2, PartTypes
    <3>4. << >> \in Seq(Part) /\ <<Image(m.what)>> \in Seq(Part)
      BY <3>3
    <3> QED BY <3>4 DEF m
  <2>2. DOMAIN images = 1..Len(images) /\ Len(images) \in Nat
    BY <1>1
  <2>3. [i \in DOMAIN images |-> piece(i)] \in Seq(Seq(Part))
    <3> HIDE DEF piece, images
    <3> QED BY <2>1, <2>2
  <2>4. completeImages(p) = FlattenSeq([i \in DOMAIN images |-> piece(i)])
    BY DEF completeImages
  <2> HIDE DEF piece, images
  <2> QED BY <2>3, <2>4, FlattenType
<1> QED BY <1>1, <1>2, <1>3, <1>4

\* What either provider hears of a text payload.
LEMMA HeardText ==
    ASSUME NEW q \in Payload, payloadTypeName(q) = "text"
    PROVE  HeardIn(sdkRequest(q)) =
                Speech("system", <<Text(q.system)>>) \o Speech("user", <<Text(q.user)>>)
<1> DEFINE a == <<Text(q.system)>>
           b == <<Text(q.user)>>
           r == sdkRequest(q)
<1>1. a \in Seq(Part) /\ b \in Seq(Part)
  BY CompleteImagesType, OnePart, Zenon
<1>2. Speech("system", a) \in Seq(Utterance) /\ Speech("user", b) \in Seq(Utterance)
  BY <1>1, Spoken
<1>3. HeardIn(r) = Speech("system", r.system) \o FlattenSeq(VoicesOf(r.turns))
  BY HeardForm
<1>4. CASE FamilyOf[q.model] = "mistral"
  <2>1. r.system = << >> /\ r.turns = <<Turn("system", a), Turn("user", b)>>
    <3>1. r.system = << >> /\ r.turns = buildMessages(q)
      BY <1>4, MistralRequest
    <3>2. buildMessages(q) = <<Turn("system", a), Turn("user", b)>>
      BY Zenon DEF buildMessages, Turn
    <3> QED BY <3>1, <3>2
  <2> HIDE DEF a, b, r
  <2>2. FlattenSeq(VoicesOf(r.turns)) = Speech("system", a) \o Speech("user", b)
    BY <1>2, <2>1, TwoVoices, FlattenTwo
  <2>3. HeardIn(r) = << >> \o (Speech("system", a) \o Speech("user", b))
    BY <1>3, <2>1, <2>2, SilentSystem
  <2>4. Speech("system", a) \o Speech("user", b) \in Seq(Utterance)
    BY <1>2
  <2>5. HeardIn(r) = Speech("system", a) \o Speech("user", b)
    BY <2>3, <2>4
  <2> QED BY <2>5 DEF a, b, r
<1>5. CASE FamilyOf[q.model] # "mistral"
  <2>1. r.system = a /\ r.turns = <<Turn("user", b)>>
    <3>1. r.system = geminiView(q).system /\ r.turns = geminiView(q).turns
      BY <1>5, GeminiRequest
    <3>2. geminiView(q) = [system |-> a, turns |-> <<Turn("user", b)>>]
      BY Zenon DEF geminiView, Turn
    <3> QED BY <3>1, <3>2
  <2> HIDE DEF a, b, r
  <2>2. FlattenSeq(VoicesOf(r.turns)) = Speech("user", b)
    BY <1>2, <2>1, OneVoice, FlattenOne
  <2>3. HeardIn(r) = Speech("system", a) \o Speech("user", b)
    BY <1>3, <2>1, <2>2
  <2> QED BY <2>3 DEF a, b, r
<1> QED BY <1>4, <1>5

\* What either provider hears of a payload of images.
LEMMA HeardImages ==
    ASSUME NEW q \in Payload, payloadTypeName(q) = "image",
           NEW shown, shown = IF FamilyOf[q.model] = "mistral"
                              THEN <<Instruction>> \o completeImages(q) ELSE completeImages(q)
    PROVE  HeardIn(sdkRequest(q)) = Speech("system", <<Text(q.system)>>) \o Speech("user", shown)
<1> DEFINE a == <<Text(q.system)>>
           r == sdkRequest(q)
<1>1. a \in Seq(Part) /\ shown \in Seq(Part)
  <2>1. a \in Seq(Part) /\ <<Instruction>> \in Seq(Part) /\ completeImages(q) \in Seq(Part)
    BY CompleteImagesType, OnePart, Zenon
  <2> HIDE DEF a
  <2> QED BY <2>1
<1>2. Speech("system", a) \in Seq(Utterance) /\ Speech("user", shown) \in Seq(Utterance)
  BY <1>1, Spoken
<1>3. HeardIn(r) = Speech("system", r.system) \o FlattenSeq(VoicesOf(r.turns))
  BY HeardForm
<1>4. CASE FamilyOf[q.model] = "mistral"
  <2>1. r.system = << >> /\ r.turns = <<Turn("system", a), Turn("user", shown)>>
    <3>1. r.system = << >> /\ r.turns = buildMessages(q)
      BY <1>4, MistralRequest
    <3>2. buildMessages(q) = <<Turn("system", a), Turn("user", shown)>>
      BY <1>4, Zenon DEF buildMessages, Turn
    <3> QED BY <3>1, <3>2
  <2> HIDE DEF a, r
  <2>2. FlattenSeq(VoicesOf(r.turns)) = Speech("system", a) \o Speech("user", shown)
    BY <1>2, <2>1, TwoVoices, FlattenTwo
  <2>3. HeardIn(r) = << >> \o (Speech("system", a) \o Speech("user", shown))
    BY <1>3, <2>1, <2>2, SilentSystem
  <2>4. Speech("system", a) \o Speech("user", shown) \in Seq(Utterance)
    BY <1>2
  <2>5. HeardIn(r) = Speech("system", a) \o Speech("user", shown)
    BY <2>3, <2>4
  <2> QED BY <2>5 DEF a, r
<1>5. CASE FamilyOf[q.model] # "mistral"
  <2>1. r.system = a /\ r.turns = <<Turn("user", shown)>>
    <3>1. r.system = geminiView(q).system /\ r.turns = geminiView(q).turns
      BY <1>5, GeminiRequest
    <3>2. geminiView(q) = [system |-> a, turns |-> <<Turn("user", shown)>>]
      BY <1>5, Zenon DEF geminiView, Turn
    <3> QED BY <3>1, <3>2
  <2> HIDE DEF a, r
  <2>2. FlattenSeq(VoicesOf(r.turns)) = Speech("user", shown)
    BY <1>2, <2>1, OneVoice, FlattenOne
  <2>3. HeardIn(r) = Speech("system", a) \o Speech("user", shown)
    BY <1>3, <2>1, <2>2
  <2> QED BY <2>3 DEF a, r
<1> QED BY <1>4, <1>5

-----------------------------------------------------------------------------
(* Conversations at the providers.                                           *)

\* The turns each provider makes of messages.
GeminiTurns(ms) ==
    [i \in DOMAIN ms |-> Turn(IF ms[i].role = "assistant" THEN "model" ELSE "user", ms[i].parts)]
MistralTurns(ms) == [i \in DOMAIN ms |-> Turn(ms[i].role, ms[i].parts)]

\* Mistral hears each message as it is meant,
LEMMA MistralVoices ==
    ASSUME NEW ms \in Conversation PROVE VoicesOf(MistralTurns(ms)) = LinesOf(ms)
<1> DEFINE ts == MistralTurns(ms)
<1>1. /\ DOMAIN ts = DOMAIN ms /\ DOMAIN ms = 1..Len(ms)
      /\ \A i \in DOMAIN ms : ts[i] = Turn(ms[i].role, ms[i].parts)
  BY DEF MistralTurns, Conversation
<1>2. ASSUME NEW i \in DOMAIN ms
      PROVE  Speech(Voice(ts[i].role), ts[i].parts) = Speech(ms[i].role, ms[i].parts)
  <2>1. ms[i].role \in {"system", "user", "assistant"}
    BY <1>1, LinesType
  <2>2. Voice(ms[i].role) = ms[i].role
    BY <2>1 DEF Voice
  <2>3. ts[i].role = ms[i].role /\ ts[i].parts = ms[i].parts
    BY <1>1 DEF Turn
  <2> QED BY <2>2, <2>3
<1> HIDE DEF ts
<1> QED BY <1>1, <1>2 DEF VoicesOf, LinesOf, ts

\* ... and Gemini with the system for the user.
LEMMA GeminiVoices ==
    ASSUME NEW ms \in Conversation
    PROVE  LET vs == VoicesOf(GeminiTurns(ms))
           IN  /\ vs \in Seq(Seq(Utterance)) /\ Len(vs) = Len(ms)
               /\ \A i \in 1..Len(ms) : Alike(Agree(TRUE), vs[i], LinesOf(ms)[i])
<1> DEFINE ts == GeminiTurns(ms)
           vs == VoicesOf(ts)
<1>1. /\ DOMAIN ts = 1..Len(ms) /\ DOMAIN ms = 1..Len(ms) /\ Len(ms) \in Nat
      /\ \A i \in 1..Len(ms) :
            ts[i] = Turn(IF ms[i].role = "assistant" THEN "model" ELSE "user", ms[i].parts)
  BY DEF GeminiTurns, Conversation
<1>2. DOMAIN vs = 1..Len(ms) /\ vs = [i \in DOMAIN vs |-> vs[i]]
      /\ \A i \in 1..Len(ms) : vs[i] = Speech(Voice(ts[i].role), ts[i].parts)
  <2> HIDE DEF ts
  <2> QED BY <1>1 DEF VoicesOf
<1> HIDE DEF ts, vs
<1>3. ASSUME NEW i \in 1..Len(ms)
      PROVE  vs[i] \in Seq(Utterance) /\ Alike(Agree(TRUE), vs[i], LinesOf(ms)[i])
  <2> DEFINE w == IF ms[i].role = "assistant" THEN "assistant" ELSE "user"
             v == ms[i].role
             ps == ms[i].parts
  <2>1. v \in {"system", "user", "assistant"} /\ ps \in Seq(Part) /\ LinesOf(ms)[i] = Speech(v, ps)
    BY LinesType
  <2>2. ts[i].role = (IF v = "assistant" THEN "model" ELSE "user") /\ ts[i].parts = ps
    BY <1>1 DEF Turn
  <2>3. Voice(ts[i].role) = w
    BY <2>2 DEF Voice
  <2>4. vs[i] = Speech(w, ps)
    BY <1>2, <2>2, <2>3
  <2>5. /\ w \in {"system", "user", "assistant"}
        /\ w = v \/ (TRUE /\ v = "system" /\ w = "user")
    BY <2>1
  <2> HIDE DEF w, v, ps
  <2>6. vs[i] \in Seq(Utterance)
    BY <2>1, <2>4, <2>5, Spoken
  <2>7. Alike(Agree(TRUE), Speech(w, ps), Speech(v, ps))
    BY <2>1, <2>5, SpokenAlike
  <2> QED BY <2>1, <2>4, <2>6, <2>7
<1>4. vs \in Seq(Seq(Utterance)) /\ Len(vs) = Len(ms)
  <2> DEFINE n == Len(ms)
             S == Seq(Utterance)
  <2>1. n \in Nat /\ vs = [i \in 1..n |-> vs[i]] /\ \A i \in 1..n : vs[i] \in S
    BY <1>1, <1>2, <1>3
  <2> HIDE DEF n, S
  <2>2. vs \in Seq(S) /\ Len(vs) = n
    BY <2>1
  <2> QED BY <2>2 DEF n, S
<1> QED BY <1>3, <1>4 DEF vs, ts

\* So does the whole of what is heard agree with the whole of what is meant.
LEMMA GeminiTurnsAlike ==
    ASSUME NEW ms \in Conversation
    PROVE  /\ FlattenSeq(VoicesOf(GeminiTurns(ms))) \in Seq(Utterance)
           /\ FlattenSeq(LinesOf(ms)) \in Seq(Utterance)
           /\ Alike(Agree(TRUE), FlattenSeq(VoicesOf(GeminiTurns(ms))), FlattenSeq(LinesOf(ms)))
<1> DEFINE vs == VoicesOf(GeminiTurns(ms))
           ls == LinesOf(ms)
<1>1. /\ vs \in Seq(Seq(Utterance)) /\ Len(vs) = Len(ls)
      /\ \A i \in 1..Len(vs) : Alike(Agree(TRUE), vs[i], ls[i])
      /\ ls \in Seq(Seq(Utterance))
  BY GeminiVoices, LinesType
<1> HIDE DEF vs, ls
<1>2. Alike(Agree(TRUE), FlattenSeq(vs), FlattenSeq(ls))
  BY <1>1, FlattenAlike
<1>3. FlattenSeq(vs) \in Seq(Utterance) /\ FlattenSeq(ls) \in Seq(Utterance)
  BY <1>1, FlattenType
<1> QED BY <1>2, <1>3 DEF vs, ls

\* The lines of a conversation are those of its lead message and those of the rest.
LEMMA LinesOfTail ==
    ASSUME NEW ms \in Conversation, ms # << >>
    PROVE  /\ Tail(ms) \in Conversation /\ Len(Tail(ms)) = Len(ms) - 1
           /\ LinesOf(ms) = <<Speech(ms[1].role, ms[1].parts)>> \o LinesOf(Tail(ms))
<1> DEFINE M == [role : {"system", "user", "assistant"}, parts : Seq(Part)]
           rest == Tail(ms)
           lead == <<Speech(ms[1].role, ms[1].parts)>>
           both == lead \o LinesOf(rest)
           n == Len(ms)
<1>1. ms \in Seq(M) /\ Conversation = Seq(M)
  BY DEF Conversation
<1> HIDE DEF M
<1>2. /\ n \in Nat /\ n # 0 /\ rest \in Seq(M) /\ Len(rest) = n - 1
      /\ \A i \in 1..(n - 1) : rest[i] = ms[i + 1]
  BY <1>1
<1>3. /\ LinesOf(rest) \in Seq(Seq(Utterance)) /\ Len(LinesOf(rest)) = n - 1
      /\ \A i \in 1..(n - 1) : LinesOf(rest)[i] = Speech(rest[i].role, rest[i].parts)
  <2> HIDE DEF rest, n
  <2> QED BY <1>1, <1>2, LinesType
<1>4. /\ LinesOf(ms) \in Seq(Seq(Utterance)) /\ Len(LinesOf(ms)) = n
      /\ \A i \in 1..n : LinesOf(ms)[i] = Speech(ms[i].role, ms[i].parts)
  BY LinesType
<1>5. lead \in Seq(Seq(Utterance)) /\ Len(lead) = 1 /\ lead[1] = Speech(ms[1].role, ms[1].parts)
  <2>1. 1 \in 1..n
    BY <1>2
  <2>2. Speech(ms[1].role, ms[1].parts) \in Seq(Utterance)
    BY <2>1, LinesType
  <2> QED BY <2>2
<1> HIDE DEF lead, rest, n
<1>6. /\ both \in Seq(Seq(Utterance)) /\ Len(both) = n
      /\ \A i \in 1..Len(lead) : both[i] = lead[i]
      /\ \A i \in 1..Len(LinesOf(rest)) : both[Len(lead) + i] = LinesOf(rest)[i]
  <2>1. /\ both \in Seq(Seq(Utterance)) /\ Len(both) = Len(lead) + Len(LinesOf(rest))
        /\ \A i \in 1..Len(lead) : both[i] = lead[i]
        /\ \A i \in 1..Len(LinesOf(rest)) : both[Len(lead) + i] = LinesOf(rest)[i]
    <3> DEFINE others == LinesOf(rest)
               S == Seq(Utterance)
    <3>1. lead \in Seq(S) /\ others \in Seq(S) /\ both = lead \o others
      BY <1>3, <1>5
    <3> HIDE DEF others, both, S
    <3>2. /\ lead \o others \in Seq(S) /\ Len(lead \o others) = Len(lead) + Len(others)
          /\ \A i \in 1..Len(lead) : (lead \o others)[i] = lead[i]
          /\ \A i \in 1..Len(others) : (lead \o others)[Len(lead) + i] = others[i]
      BY <3>1, ConcatElements
    <3> QED BY <3>1, <3>2 DEF others, S
  <2> QED BY <1>2, <1>3, <1>5, <2>1
<1> HIDE DEF both
<1>7. ASSUME NEW i \in 1..n PROVE LinesOf(ms)[i] = both[i]
  <2>1. CASE i = 1
    BY <1>4, <1>5, <1>6, <2>1
  <2>2. CASE i # 1
    <3>1. i - 1 \in 1..(n - 1) /\ 1 + (i - 1) = i /\ (i - 1) + 1 = i
      BY <1>2, <2>2
    <3>2. both[i] = LinesOf(rest)[i - 1]
      BY <1>3, <1>5, <1>6, <3>1
    <3>3. LinesOf(rest)[i - 1] = Speech(ms[i].role, ms[i].parts)
      BY <1>2, <1>3, <3>1
    <3> QED BY <1>4, <3>2, <3>3
  <2> QED BY <2>1, <2>2
<1>8. LinesOf(ms) = both
  BY <1>4, <1>6, <1>7, SeqEqual
<1> QED BY <1>1, <1>2, <1>8 DEF both, lead, rest, n

\* The system instruction and the turns of a conversation.
LEMMA ConversationViews ==
    ASSUME NEW q \in Payload, payloadTypeName(q) = "conversation",
           NEW r, r = sdkRequest(q)
    PROVE  /\ FamilyOf[q.model] = "mistral" => r.system = << >> /\ r.turns = MistralTurns(q.messages)
           /\ (FamilyOf[q.model] # "mistral" /\ q.messages[1].role = "system") =>
                 r.system = q.messages[1].parts /\ r.turns = GeminiTurns(Tail(q.messages))
           /\ (FamilyOf[q.model] # "mistral" /\ q.messages[1].role # "system") =>
                 r.system = << >> /\ r.turns = GeminiTurns(q.messages)
<1>1. CASE FamilyOf[q.model] = "mistral"
  <2>1. buildMessages(q) = MistralTurns(q.messages)
    BY Zenon DEF buildMessages, mapConversationMistral, MistralTurns, Turn
  <2> QED BY <1>1, <2>1, MistralRequest
<1>2. CASE FamilyOf[q.model] # "mistral"
  <2>1. r.system = geminiView(q).system /\ r.turns = geminiView(q).turns
    BY <1>2, GeminiRequest
  <2>2. geminiView(q) = mapConversationGemini(q)
    BY Zenon DEF geminiView
  <2>3. CASE q.messages[1].role = "system"
    <3>1. mapConversationGemini(q) =
             [system |-> q.messages[1].parts, turns |-> GeminiTurns(Tail(q.messages))]
      BY <2>3, Zenon DEF mapConversationGemini, GeminiTurns, Turn
    <3> QED BY <1>2, <2>1, <2>2, <2>3, <3>1
  <2>4. CASE q.messages[1].role # "system"
    <3>1. mapConversationGemini(q) = [system |-> << >>, turns |-> GeminiTurns(q.messages)]
      BY <2>4, Zenon DEF mapConversationGemini, GeminiTurns, Turn
    <3> QED BY <1>2, <2>1, <2>2, <2>4, <3>1
  <2> QED BY <2>3, <2>4
<1> QED BY <1>1, <1>2

\* What either provider hears of a conversation.
LEMMA HeardConversation ==
    ASSUME NEW q \in Payload, payloadTypeName(q) = "conversation", q.messages # << >>,
           NEW g, g = (FamilyOf[q.model] # "mistral")
    PROVE  LET heard == HeardIn(sdkRequest(q))
           IN  /\ heard \in Seq(Utterance) /\ FlattenSeq(LinesOf(q.messages)) \in Seq(Utterance)
               /\ Alike(Agree(g), heard, FlattenSeq(LinesOf(q.messages)))
               /\ (g /\ q.messages[1].role = "system" /\ q.messages[1].parts # << >>) =>
                     heard[1].who = "system"
<1> DEFINE ms == q.messages
           r == sdkRequest(q)
           heard == HeardIn(r)
           meant == FlattenSeq(LinesOf(ms))
<1>1. ms \in Conversation /\ ms # << >>
  BY CompleteImagesType
<1>2. heard = Speech("system", r.system) \o FlattenSeq(VoicesOf(r.turns))
  BY HeardForm
<1>3. meant \in Seq(Utterance)
  BY <1>1, LinesType, FlattenType
<1>4. CASE FamilyOf[q.model] = "mistral"
  <2>1. r.system = << >> /\ r.turns = MistralTurns(ms)
    BY <1>4, ConversationViews
  <2>2. FlattenSeq(VoicesOf(r.turns)) = meant
    BY <1>1, <2>1, MistralVoices
  <2> HIDE DEF ms, r, heard, meant
  <2>3. heard = << >> \o meant
    BY <1>2, <2>1, <2>2, SilentSystem
  <2>4. heard = meant
    BY <1>3, <2>3
  <2>5. g = FALSE
    BY <1>4
  <2>6. Alike(Agree(g), heard, meant)
    BY <1>3, <2>4, <2>5, SameAlike
  <2> QED BY <1>3, <2>4, <2>5, <2>6 DEF ms, r, heard, meant
<1>5. CASE FamilyOf[q.model] # "mistral" /\ ms[1].role # "system"
  <2>1. r.system = << >> /\ r.turns = GeminiTurns(ms)
    BY <1>5, ConversationViews
  <2> DEFINE said == FlattenSeq(VoicesOf(GeminiTurns(ms)))
  <2>2. said \in Seq(Utterance) /\ Alike(Agree(TRUE), said, meant)
    BY <1>1, GeminiTurnsAlike
  <2>3. g = TRUE /\ ~ (ms[1].role = "system")
    BY <1>5
  <2> HIDE DEF ms, r, heard, meant, said
  <2>4. heard = << >> \o said
    BY <1>2, <2>1, SilentSystem DEF said
  <2>5. heard = said
    BY <2>2, <2>4
  <2> QED BY <1>3, <2>2, <2>3, <2>5 DEF ms, r, heard, meant
<1>6. CASE FamilyOf[q.model] # "mistral" /\ ms[1].role = "system"
  <2>1. r.system = ms[1].parts /\ r.turns = GeminiTurns(Tail(ms))
    BY <1>6, ConversationViews
  <2> DEFINE rest == Tail(ms)
             said == FlattenSeq(VoicesOf(GeminiTurns(rest)))
             next == FlattenSeq(LinesOf(rest))
             opening == Speech("system", ms[1].parts)
  <2>2. rest \in Conversation /\ LinesOf(ms) = <<Speech(ms[1].role, ms[1].parts)>> \o LinesOf(rest)
    BY <1>1, LinesOfTail
  <2>3. said \in Seq(Utterance) /\ next \in Seq(Utterance) /\ Alike(Agree(TRUE), said, next)
    BY <2>2, GeminiTurnsAlike
  <2>4. g = TRUE /\ ms[1].role = "system"
    BY <1>6
  <2>5. 1 \in 1..Len(ms)
    BY <1>1 DEF Conversation
  <2>6. ms[1].parts \in Seq(Part)
    BY <1>1, <2>5, LinesType
  <2>7. /\ opening \in Seq(Utterance) /\ Len(opening) = Len(ms[1].parts)
        /\ \A i \in 1..Len(ms[1].parts) : opening[i].who = "system"
    BY <2>6, Spoken
  <2>8. meant = opening \o next
    <3>1. LinesOf(ms) = <<opening>> \o LinesOf(rest) /\ LinesOf(rest) \in Seq(Seq(Utterance))
      BY <2>2, <2>4, LinesType
    <3> HIDE DEF opening, ms, rest
    <3>2. FlattenSeq(<<opening>> \o LinesOf(rest)) = opening \o FlattenSeq(LinesOf(rest))
      BY <2>7, <3>1, FlattenCons
    <3> QED BY <3>1, <3>2
  <2> HIDE DEF ms, r, heard, meant, said, next, opening, rest
  <2>9. heard = opening \o said
    BY <1>2, <2>1 DEF said, opening, rest
  <2>10. Alike(Agree(TRUE), opening, opening)
    BY <2>7, SameAlike
  <2>11. Alike(Agree(TRUE), opening \o said, opening \o next)
    BY <2>3, <2>7, <2>10, AlikeConcat
  <2>12. opening \o said \in Seq(Utterance)
    BY <2>3, <2>7
  <2>13. ms[1].parts # << >> => (opening \o said)[1].who = "system"
    <3>1. ASSUME ms[1].parts # << >> PROVE 1 \in 1..Len(ms[1].parts)
      BY <2>6, <3>1
    <3>2. ASSUME ms[1].parts # << >> PROVE (opening \o said)[1] = opening[1]
      BY <2>3, <2>7, <3>1, <3>2, ConcatElements
    <3> QED BY <2>7, <3>1, <3>2
  <2> QED BY <1>3, <2>4, <2>8, <2>9, <2>11, <2>12, <2>13 DEF ms, r, heard, meant
<1> QED BY <1>4, <1>5, <1>6

-----------------------------------------------------------------------------
(* What is heard is what is meant.                                           *)

\* The three kinds of payloads that are dispatched.
LEMMA PayloadTypes ==
    ASSUME NEW p, Sendable(p), payloadTypeName(p) # "unknown"
    PROVE  /\ p \in Payload
           /\ payloadTypeName(p) \in {"image", "text", "conversation"}
           /\ payloadTypeName(p) = "image" <=> "images" \in p.has
           /\ payloadTypeName(p) = "text" <=> "images" \notin p.has /\ "user" \in p.has
           /\ payloadTypeName(p) = "conversation" =>
                 p.has = {"messages"} /\ conversationAccepted(p.messages)
<1>1. CASE "images" \in p.has
  BY <1>1 DEF Sendable, payloadTypeName
<1>2. CASE "images" \notin p.has /\ "user" \in p.has
  BY <1>2 DEF Sendable, payloadTypeName
<1>3. CASE "images" \notin p.has /\ "user" \notin p.has
  <2>1. p.has \cap {"images", "user"} = {}
    BY <1>3
  <2>2. "messages" \in p.has /\ payloadTypeName(p) = "conversation"
    BY <1>3, <2>1 DEF payloadTypeName
  <2> QED BY <1>3, <2>1, <2>2 DEF Sendable
<1> QED BY <1>1, <1>2, <1>3

\* What is known of a dispatched request.
LEMMA DispatchedState ==
    ASSUME RequestInv, Dispatched
    PROVE  /\ config \in Configurations /\ Sendable(payload) /\ payload \in Payload
           /\ resolved = resolve(config, payload) /\ resolved \in Payload
           /\ payloadTypeName(resolved) = payloadTypeName(payload)
           /\ payloadTypeName(payload) # "unknown"
           /\ request = sdkRequest(resolved) /\ request.model = resolved.model
           /\ FamilyOf[resolved.model] \in Families
           /\ resolved.effort \in EffortNames
           /\ resolved.system = payload.system /\ resolved.user = payload.user
           /\ resolved.messages = payload.messages
           /\ completeImages(resolved) = completeImages(payload)
           /\ dto # Nothing => dto \in Submissions /\ payload = buildMessage(dto)
<1>1. /\ config \in Configurations /\ Sendable(payload)
      /\ resolved = resolve(config, payload)
      /\ request = sdkRequest(resolved) /\ payloadTypeName(resolved) # "unknown"
      /\ dto # Nothing => dto \in Submissions /\ payload = buildMessage(dto)
  BY DEF RequestInv, Dispatched
<1>2. payload \in Payload
  BY <1>1 DEF Sendable
<1> QED BY <1>1, <1>2, Resolved, RequestModel, Zenon

\* What each kind of payload means.
LEMMA MeantForms ==
    /\ payloadTypeName(payload) = "conversation" => Meant = FlattenSeq(LinesOf(payload.messages))
    /\ payloadTypeName(payload) = "text" =>
          Meant = Speech("system", <<Text(payload.system)>>) \o Speech("user", <<Text(payload.user)>>)
    /\ (payloadTypeName(payload) = "image" /\ completeImages(payload) \in Seq(Part)) =>
          Meant = Speech("system", <<Text(payload.system)>>)
                  \o Speech("user", IF ToGemini THEN completeImages(payload)
                                    ELSE <<Instruction>> \o completeImages(payload))
<1>1. CASE payloadTypeName(payload) = "conversation"
  BY <1>1, Zenon DEF Meant, LinesOf
<1>2. CASE payloadTypeName(payload) = "text"
  BY <1>2, Zenon DEF Meant
<1>3. CASE payloadTypeName(payload) = "image" /\ completeImages(payload) \in Seq(Part)
  <2>1. Meant = Speech("system", <<Text(payload.system)>>)
            \o Speech("user", (IF ToGemini THEN << >> ELSE <<Instruction>>) \o completeImages(payload))
    BY <1>3, Zenon DEF Meant
  <2>2. << >> \o completeImages(payload) = completeImages(payload)
    BY <1>3
  <2> QED BY <1>3, <2>1, <2>2
<1> QED BY <1>1, <1>2, <1>3

\* What is heard agrees with what is meant.
LEMMA HeardAsMeant ==
    ASSUME RequestInv, Dispatched
    PROVE  /\ Heard \in Seq(Utterance) /\ Meant \in Seq(Utterance)
           /\ Alike(Agree(ToGemini), Heard, Meant)
           /\ (payload.has = {"messages"} /\ ToGemini /\ payload.messages[1].role = "system") =>
                 Heard[1].who = "system"
<1> DEFINE a == <<Text(payload.system)>>
           b == <<Text(payload.user)>>
           c == IF ToGemini THEN completeImages(payload) ELSE <<Instruction>> \o completeImages(payload)
<1>1. ToGemini \in BOOLEAN /\ ToGemini = (FamilyOf[resolved.model] # "mistral")
  BY DispatchedState DEF ToGemini
<1>2. Heard = HeardIn(sdkRequest(resolved))
  BY DispatchedState DEF Heard
<1>3. /\ payload \in Payload /\ resolved \in Payload
      /\ payloadTypeName(resolved) = payloadTypeName(payload)
      /\ payloadTypeName(payload) \in {"image", "text", "conversation"}
      /\ resolved.messages = payload.messages
  BY DispatchedState, PayloadTypes
<1>4. a \in Seq(Part) /\ b \in Seq(Part) /\ c \in Seq(Part) /\ completeImages(payload) \in Seq(Part)
  <2> DEFINE d == completeImages(payload)
             e == <<Instruction>>
  <2>1. a \in Seq(Part) /\ b \in Seq(Part) /\ e \in Seq(Part) /\ d \in Seq(Part)
    BY <1>3, CompleteImagesType, OnePart, Zenon
  <2> HIDE DEF a, b, d, e
  <2>2. e \o d \in Seq(Part)
    BY <2>1
  <2> QED BY <2>1, <2>2 DEF d, e
<1>5. CASE payloadTypeName(payload) = "text"
  <2>1. Heard = Speech("system", a) \o Speech("user", b)
    BY <1>2, <1>3, <1>5, HeardText, DispatchedState
  <2>2. Meant = Speech("system", a) \o Speech("user", b)
    BY <1>5, MeantForms
  <2>3. payload.has # {"messages"}
    BY <1>5, DispatchedState, PayloadTypes
  <2> HIDE DEF a, b
  <2>4. Speech("system", a) \in Seq(Utterance) /\ Speech("user", b) \in Seq(Utterance)
    BY <1>4, Spoken
  <2>5. Meant \in Seq(Utterance)
    BY <2>2, <2>4
  <2> QED BY <1>1, <2>1, <2>2, <2>3, <2>5, SameAlike
<1>6. CASE payloadTypeName(payload) = "image"
  <2>1. Heard = Speech("system", a) \o Speech("user", c)
    <3>1. c = IF FamilyOf[resolved.model] = "mistral"
              THEN <<Instruction>> \o completeImages(resolved) ELSE completeImages(resolved)
      BY <1>1, DispatchedState
    <3> HIDE DEF c
    <3>2. HeardIn(sdkRequest(resolved))
          = Speech("system", <<Text(resolved.system)>>) \o Speech("user", c)
      BY <1>3, <1>6, <3>1, HeardImages
    <3> QED BY <1>2, <3>2, DispatchedState
  <2>2. Meant = Speech("system", a) \o Speech("user", c)
    BY <1>4, <1>6, MeantForms
  <2>3. payload.has # {"messages"}
    BY <1>6, DispatchedState, PayloadTypes
  <2> HIDE DEF a, c
  <2>4. Speech("system", a) \in Seq(Utterance) /\ Speech("user", c) \in Seq(Utterance)
    BY <1>4, Spoken
  <2>5. Meant \in Seq(Utterance)
    BY <2>2, <2>4
  <2> QED BY <1>1, <2>1, <2>2, <2>3, <2>5, SameAlike
<1>7. CASE payloadTypeName(payload) = "conversation"
  <2>1. conversationAccepted(payload.messages)
    BY <1>7, DispatchedState, PayloadTypes
  <2>2. payload.messages # << >> /\ payload.messages[1].parts # << >>
    <3>1. payload.messages \in Conversation
      BY <1>3, CompleteImagesType
    <3>2. payload.messages # << >> => 1 \in DOMAIN payload.messages
      BY <3>1 DEF Conversation
    <3> QED BY <2>1, <3>2 DEF conversationAccepted
  <2>3. Meant = FlattenSeq(LinesOf(payload.messages))
    BY <1>7, MeantForms
  <2>4. LET heard == HeardIn(sdkRequest(resolved))
        IN  /\ heard \in Seq(Utterance) /\ FlattenSeq(LinesOf(resolved.messages)) \in Seq(Utterance)
            /\ Alike(Agree(ToGemini), heard, FlattenSeq(LinesOf(resolved.messages)))
            /\ (/\ ToGemini /\ resolved.messages[1].role = "system"
                /\ resolved.messages[1].parts # << >>) =>
                  heard[1].who = "system"
    BY <1>1, <1>3, <1>7, <2>2, HeardConversation
  <2> QED BY <1>2, <1>3, <2>2, <2>3, <2>4
<1> QED BY <1>3, <1>5, <1>6, <1>7

\* RoutingLLMService and the providers keep the invariant.
THEOREM RequestInvariant == RequestSpec => []RequestInv
BY RequestStart, RequestStep, PTL DEF RequestSpec

\* Whatever a payload says reaches the SDK, once, in its order and from whom it was meant: the
\* mapPayload, mapConversation and buildMessages of both providers lose nothing.
THEOREM NothingLost == RequestSpec => []NothingLostNorMisattributed
<1>1. ASSUME RequestInv PROVE NothingLostNorMisattributed
  <2>1. ASSUME Dispatched
        PROVE  /\ Len(Heard) = Len(Meant)
               /\ \A i \in DOMAIN Heard :
                     /\ Heard[i].what = Meant[i].what
                     /\ \/ Heard[i].who = Meant[i].who
                        \/ ToGemini /\ Meant[i].who = "system" /\ Heard[i].who = "user"
    <3>1. Heard \in Seq(Utterance) /\ Alike(Agree(ToGemini), Heard, Meant)
      BY <1>1, <2>1, HeardAsMeant
    <3>2. DOMAIN Heard = 1..Len(Heard)
      BY <3>1
    <3>3. ASSUME NEW i \in DOMAIN Heard
          PROVE  /\ Heard[i].what = Meant[i].what
                 /\ \/ Heard[i].who = Meant[i].who
                    \/ ToGemini /\ Meant[i].who = "system" /\ Heard[i].who = "user"
      <4>1. <<Heard[i], Meant[i]>> \in Agree(ToGemini)
        BY <3>1, <3>2 DEF Alike
      <4> DEFINE h == Heard[i]
                 m == Meant[i]
      <4> HIDE DEF h, m
      <4>2. <<h, m>> \in Agree(ToGemini)
        BY <4>1 DEF h, m
      <4>3. /\ h.what = m.what
            /\ h.who = m.who \/ (ToGemini /\ m.who = "system" /\ h.who = "user")
        BY <4>2 DEF Agree
      <4> QED BY <4>3 DEF h, m
    <3> QED BY <3>1, <3>3 DEF Alike
  <2> QED BY <1>1, <2>1, HeardAsMeant DEF NothingLostNorMisattributed
<1> QED BY <1>1, RequestInvariant, PTL

-----------------------------------------------------------------------------
(* Empty requests; thinking.                                                 *)

\* A dispatched request has a turn that is not the system's, and no turn without parts.
LEMMA EmptyNone ==
    ASSUME RequestInv, Dispatched,
           (payloadTypeName(payload) = "image" /\ ToGemini) => completeImages(payload) # << >>
    PROVE  /\ \E i \in DOMAIN request.turns : request.turns[i].role # "system"
           /\ \A i \in DOMAIN request.turns : request.turns[i].parts # << >>
<1> DEFINE a == <<Text(resolved.system)>>
           b == <<Text(resolved.user)>>
           c == completeImages(resolved)
           d == <<Instruction>> \o completeImages(resolved)
           ts == request.turns
           gemini == FamilyOf[resolved.model] # "mistral"
           ms == resolved.messages
<1>1. /\ ToGemini <=> gemini
      /\ resolved \in Payload /\ payloadTypeName(resolved) = payloadTypeName(payload)
      /\ payloadTypeName(payload) \in {"image", "text", "conversation"}
      /\ request = sdkRequest(resolved)
  BY DispatchedState, PayloadTypes DEF ToGemini
<1>2. a # << >> /\ b # << >> /\ d # << >>
  <2>1. /\ Text(resolved.system) \in Part /\ Text(resolved.user) \in Part /\ Instruction \in Part
        /\ c \in Seq(Part)
    BY <1>1, CompleteImagesType
  <2> DEFINE e == Instruction
             s == Text(resolved.system)
             u == Text(resolved.user)
  <2> HIDE DEF e, s, u, c
  <2>2. <<s>> # << >> /\ <<u>> # << >> /\ <<e>> \o c # << >>
    BY <2>1 DEF c, e, s, u
  <2> QED BY <2>2 DEF c, e, s, u
<1>3. ASSUME NEW x, x # << >>, ts = <<Turn("user", x)>>
      PROVE  /\ \E i \in DOMAIN ts : ts[i].role # "system"
             /\ \A i \in DOMAIN ts : ts[i].parts # << >>
  <2>1. Turn("user", x).role = "user" /\ Turn("user", x).parts = x
    BY DEF Turn
  <2> DEFINE t == Turn("user", x)
  <2> HIDE DEF t, ts
  <2>2. DOMAIN ts = {1} /\ ts[1] = t
    BY <1>3 DEF t
  <2> QED BY <1>3, <2>1, <2>2 DEF t
<1>4. ASSUME NEW x, NEW y, x # << >>, y # << >>, ts = <<Turn("system", x), Turn("user", y)>>
      PROVE  /\ \E i \in DOMAIN ts : ts[i].role # "system"
             /\ \A i \in DOMAIN ts : ts[i].parts # << >>
  <2> DEFINE s == Turn("system", x)
             t == Turn("user", y)
  <2>1. s.parts = x /\ t.role = "user" /\ t.parts = y
    BY DEF Turn
  <2> HIDE DEF s, t, ts
  <2>2. DOMAIN ts = {1, 2} /\ ts[1] = s /\ ts[2] = t
    BY <1>4 DEF s, t
  <2> QED BY <1>4, <2>1, <2>2
<1>5. CASE ~ gemini /\ payloadTypeName(resolved) = "text"
  <2>1. ts = buildMessages(resolved)
    BY <1>1, <1>5, MistralRequest
  <2>2. buildMessages(resolved) = <<Turn("system", a), Turn("user", b)>>
    BY <1>5, Zenon DEF buildMessages, Turn
  <2> HIDE DEF a, b, ts
  <2> QED BY <1>2, <1>4, <2>1, <2>2 DEF ts
<1>6. CASE ~ gemini /\ payloadTypeName(resolved) = "image"
  <2>1. ts = buildMessages(resolved)
    BY <1>1, <1>6, MistralRequest
  <2>2. buildMessages(resolved) = <<Turn("system", a), Turn("user", d)>>
    BY <1>6, Zenon DEF buildMessages, Turn
  <2> HIDE DEF a, d, ts
  <2> QED BY <1>2, <1>4, <2>1, <2>2 DEF ts
<1>7. CASE gemini /\ payloadTypeName(resolved) = "text"
  <2>1. ts = geminiView(resolved).turns
    BY <1>1, <1>7, GeminiRequest
  <2>2. geminiView(resolved) = [system |-> a, turns |-> <<Turn("user", b)>>]
    BY <1>7, Zenon DEF geminiView, Turn
  <2> HIDE DEF a, b, ts
  <2>3. ts = <<Turn("user", b)>>
    BY <2>1, <2>2
  <2> QED BY <1>2, <1>3, <2>3 DEF ts
<1>8. CASE gemini /\ payloadTypeName(resolved) = "image"
  <2>1. ts = geminiView(resolved).turns
    BY <1>1, <1>8, GeminiRequest
  <2>2. geminiView(resolved) = [system |-> a, turns |-> <<Turn("user", c)>>]
    BY <1>8, Zenon DEF geminiView, Turn
  <2>3. c # << >>
    BY <1>1, <1>8, DispatchedState
  <2> HIDE DEF a, c, ts
  <2>4. ts = <<Turn("user", c)>>
    BY <2>1, <2>2
  <2> QED BY <1>3, <2>3, <2>4 DEF ts
<1>9. CASE payloadTypeName(resolved) = "conversation"
  <2>1. conversationAccepted(ms) /\ ms \in Conversation
    BY <1>1, <1>9, DispatchedState, PayloadTypes, CompleteImagesType
  <2>2. /\ DOMAIN ms = 1..Len(ms) /\ Len(ms) \in Nat /\ ms # << >>
        /\ \A i \in DOMAIN ms : ms[i].parts # << >>
        /\ \E i \in DOMAIN ms : ms[i].role # "system"
    BY <2>1 DEF conversationAccepted, Conversation
  <2>3. CASE ~ gemini
    <3>1. ts = MistralTurns(ms)
      BY <1>1, <1>9, <2>3, ConversationViews
    <3>2. DOMAIN ts = DOMAIN ms
          /\ \A i \in DOMAIN ms : ts[i].role = ms[i].role /\ ts[i].parts = ms[i].parts
      BY <3>1 DEF MistralTurns, Turn
    <3> HIDE DEF ts, ms
    <3>3. /\ \E i \in DOMAIN ts : ts[i].role # "system"
          /\ \A i \in DOMAIN ts : ts[i].parts # << >>
      BY <2>2, <3>2
    <3> QED BY <3>3 DEF ts
  <2>4. ASSUME NEW rest \in Conversation, rest # << >>, \A i \in DOMAIN rest : rest[i].parts # << >>,
               ts = GeminiTurns(rest)
        PROVE  /\ \E i \in DOMAIN ts : ts[i].role # "system"
               /\ \A i \in DOMAIN ts : ts[i].parts # << >>
    <3>1. /\ DOMAIN ts = DOMAIN rest
          /\ \A i \in DOMAIN rest :
                /\ ts[i].role = (IF rest[i].role = "assistant" THEN "model" ELSE "user")
                /\ ts[i].parts = rest[i].parts
      BY <2>4 DEF GeminiTurns, Turn
    <3>2. 1 \in DOMAIN rest
      BY <2>4 DEF Conversation
    <3> HIDE DEF ts
    <3>3. \A i \in DOMAIN rest : ts[i].role # "system" /\ ts[i].parts # << >>
      BY <2>4, <3>1
    <3> QED BY <3>1, <3>2, <3>3
  <2>5. CASE gemini /\ ms[1].role # "system"
    <3>1. ts = GeminiTurns(ms)
      BY <1>1, <1>9, <2>5, ConversationViews
    <3> QED BY <2>1, <2>2, <2>4, <3>1
  <2>6. CASE gemini /\ ms[1].role = "system"
    <3>1. ts = GeminiTurns(Tail(ms))
      BY <1>1, <1>9, <2>6, ConversationViews
    <3> DEFINE rest == Tail(ms)
               n == Len(ms)
    <3>2. rest \in Conversation /\ Len(rest) = n - 1 /\ n \in Nat /\ n # 0
          /\ \A i \in 1..(n - 1) : rest[i] = ms[i + 1]
      BY <2>1, <2>2, LinesOfTail DEF Conversation
    <3>3. DOMAIN rest = 1..(n - 1)
      BY <3>2 DEF Conversation
    <3>4. DOMAIN ms = 1..n
      BY <2>2
    <3> HIDE DEF ms, n, rest, ts
    <3>5. \A i \in DOMAIN rest : rest[i].parts # << >>
      <4> TAKE i \in DOMAIN rest
      <4>1. rest[i] = ms[i + 1] /\ i + 1 \in 1..n
        BY <3>2, <3>3
      <4> QED BY <2>2, <3>4, <4>1
    <3>6. rest # << >>
      <4>1. PICK i \in 1..n : ms[i].role # "system"
        BY <2>2, <3>4
      <4>2. i # 1
        BY <2>6, <4>1
      <4>3. n - 1 # 0
        BY <3>2, <4>1, <4>2
      <4> QED BY <3>2, <4>3
    <3> QED BY <2>4, <3>1, <3>2, <3>5, <3>6 DEF rest, ts
  <2> QED BY <2>2, <2>3, <2>5, <2>6
<1> QED BY <1>1, <1>5, <1>6, <1>7, <1>8, <1>9

\* No request the services build is empty: what the schema demands of a conversation is enough.
THEOREM NoneEmpty == RequestSpec => []NoEmptyRequest
<1>1. RequestInv => NoEmptyRequest
  BY EmptyNone DEF NoEmptyRequest
<1> QED BY <1>1, RequestInvariant, PTL

-----------------------------------------------------------------------------
\* The thinking parameter of a model and an effort.
ThinkingFor(m, e) ==
    IF FamilyOf[m] = "mistral" THEN mapReasoningEffort(e) ELSE buildThinkingConfig(m, e)

LEMMA FourEfforts ==
    /\ Efforts[1] = "off" /\ Efforts[2] = "low" /\ Efforts[3] = "high" /\ Efforts[4] = "max"
BY DEF Efforts

\* How much a model of each family thinks at each effort.
LEMMA Amounts ==
    ASSUME NEW m, FamilyOf[m] \in Families
    PROVE  /\ thinks(m, ThinkingFor(m, "off")) = 0
           /\ thinks(m, ThinkingFor(m, "off")) <= thinks(m, ThinkingFor(m, "low"))
           /\ thinks(m, ThinkingFor(m, "low")) <= thinks(m, ThinkingFor(m, "high"))
           /\ thinks(m, ThinkingFor(m, "high")) <= thinks(m, ThinkingFor(m, "max"))
<1>1. CASE FamilyOf[m] = "mistral"
  <2>1. /\ ThinkingFor(m, "off") = [param |-> "none"]
        /\ ThinkingFor(m, "low") = [param |-> "effort", value |-> "none"]
        /\ ThinkingFor(m, "high") = [param |-> "effort", value |-> "high"]
        /\ ThinkingFor(m, "max") = [param |-> "effort", value |-> "high"]
    BY <1>1 DEF ThinkingFor, mapReasoningEffort
  <2>2. /\ thinks(m, [param |-> "none"]) = 0
        /\ thinks(m, [param |-> "effort", value |-> "none"]) = 0
        /\ thinks(m, [param |-> "effort", value |-> "high"]) = 1
    BY <1>1 DEF thinks
  <2> QED BY <2>1, <2>2
<1>2. CASE FamilyOf[m] = "gemini-2.0"
  <2>1. \A e \in EffortNames : ThinkingFor(m, e) = [param |-> "none"]
    BY <1>2 DEF ThinkingFor, buildThinkingConfig
  <2>2. thinks(m, [param |-> "none"]) = 0
    BY <1>2 DEF thinks
  <2> QED BY <2>1, <2>2 DEF EffortNames
<1>3. CASE FamilyOf[m] = "gemini-2.5"
  <2>1. /\ ThinkingFor(m, "off") = [param |-> "budget", value |-> 0]
        /\ ThinkingFor(m, "low") = [param |-> "budget", value |-> 0]
        /\ ThinkingFor(m, "high") = [param |-> "budget", value |-> 1024]
        /\ ThinkingFor(m, "max") = [param |-> "budget", value |-> 8192]
    BY <1>3 DEF ThinkingFor, buildThinkingConfig, mapThinkingBudget
  <2>2. ASSUME NEW v PROVE thinks(m, [param |-> "budget", value |-> v]) = v
    BY DEF thinks
  <2> QED BY <2>1, <2>2
<1>4. CASE FamilyOf[m] = "gemini-3"
  <2>1. /\ ThinkingFor(m, "off") = [param |-> "level", value |-> "MINIMAL"]
        /\ ThinkingFor(m, "low") = [param |-> "level", value |-> "LOW"]
        /\ ThinkingFor(m, "high") = [param |-> "level", value |-> "MEDIUM"]
        /\ ThinkingFor(m, "max") = [param |-> "level", value |-> "HIGH"]
    BY <1>4 DEF ThinkingFor, buildThinkingConfig, mapThinkingLevel
  <2>2. /\ thinks(m, [param |-> "level", value |-> "MINIMAL"]) = 0
        /\ thinks(m, [param |-> "level", value |-> "LOW"]) = 1
        /\ thinks(m, [param |-> "level", value |-> "MEDIUM"]) = 2
        /\ thinks(m, [param |-> "level", value |-> "HIGH"]) = 3
    BY DEF thinks
  <2> QED BY <2>1, <2>2
<1> QED BY <1>1, <1>2, <1>3, <1>4 DEF Families

\* The property follows from the invariant, family by family.
LEMMA EffortMonotone == ASSUME RequestInv, Dispatched PROVE EffortIsMonotone
<1> DEFINE m == resolved.model
           amount(e) == thinks(request.model, sdkRequest([resolved EXCEPT !.effort = e]).thinking)
<1>1. /\ resolved \in Payload /\ request = sdkRequest(resolved) /\ request.model = m
      /\ FamilyOf[m] \in Families /\ resolved.effort \in EffortNames
  BY DispatchedState
<1>2. ASSUME NEW q PROVE sdkRequest(q).thinking = ThinkingFor(q.model, q.effort)
  BY MistralRequest, GeminiRequest DEF ThinkingFor
<1>3. ASSUME NEW e \in EffortNames PROVE amount(e) = thinks(m, ThinkingFor(m, e))
  <2>1. [resolved EXCEPT !.effort = e].model = m /\ [resolved EXCEPT !.effort = e].effort = e
    BY <1>1 DEF Payload
  <2> QED BY <1>1, <1>2, <2>1
<1>4. request.thinking = ThinkingFor(m, resolved.effort)
  BY <1>1, <1>2
<1>5. thinks(request.model, request.thinking) = amount(resolved.effort)
  BY <1>1, <1>3, <1>4
<1>6. request.thinking.param \in
              CASE FamilyOf[request.model] = "gemini-2.0" -> {"none"}
                [] FamilyOf[request.model] = "gemini-2.5" -> {"budget"}
                [] FamilyOf[request.model] = "gemini-3"   -> {"level"}
                [] OTHER -> {"none", "effort"}
  <2>1. CASE FamilyOf[m] = "mistral"
    <3>1. request.thinking = mapReasoningEffort(resolved.effort)
      BY <1>4, <2>1 DEF ThinkingFor
    <3>2. mapReasoningEffort(resolved.effort).param \in {"none", "effort"}
      BY DEF mapReasoningEffort
    <3> QED BY <1>1, <2>1, <3>1, <3>2
  <2>2. CASE FamilyOf[m] # "mistral"
    <3>1. request.thinking = buildThinkingConfig(m, resolved.effort)
      BY <1>4, <2>2 DEF ThinkingFor
    <3>2. CASE FamilyOf[m] = "gemini-2.0"
      BY <1>1, <3>1, <3>2 DEF buildThinkingConfig
    <3>3. CASE FamilyOf[m] = "gemini-2.5"
      BY <1>1, <3>1, <3>3 DEF buildThinkingConfig
    <3>4. CASE FamilyOf[m] = "gemini-3"
      BY <1>1, <3>1, <3>4 DEF buildThinkingConfig
    <3> QED BY <1>1, <2>2, <3>2, <3>3, <3>4 DEF Families
  <2> QED BY <2>1, <2>2
<1>7. /\ amount("off") = 0 /\ amount("off") <= amount("low") /\ amount("low") <= amount("high")
      /\ amount("high") <= amount("max")
  <2>1. "off" \in EffortNames /\ "low" \in EffortNames /\ "high" \in EffortNames /\ "max" \in EffortNames
    BY DEF EffortNames
  <2> HIDE DEF amount
  <2> QED BY <1>1, <1>3, <2>1, Amounts
<1>8. \A i \in 1..3 : amount(Efforts[i]) <= amount(Efforts[i + 1])
  <2> HIDE DEF amount
  <2>1. \A i \in 1..3 : i = 1 \/ i = 2 \/ i = 3
    OBVIOUS
  <2>2. 1 + 1 = 2 /\ 2 + 1 = 3 /\ 3 + 1 = 4
    OBVIOUS
  <2> QED BY <1>7, <2>1, <2>2, FourEfforts
<1> HIDE DEF amount
<1> QED BY <1>5, <1>6, <1>7, <1>8, Zenon DEF EffortIsMonotone, amount

\* mapThinkingBudget, mapThinkingLevel and mapReasoningEffort are monotone for every model the
\* registry may know.
THEOREM MoreEffortThinksMore == RequestSpec => []EffortIsMonotone
<1>1. RequestInv => EffortIsMonotone
  BY EffortMonotone DEF EffortIsMonotone
<1> QED BY <1>1, RequestInvariant, PTL

-----------------------------------------------------------------------------
(* Images.                                                                   *)

\* A speech of one part.
LEMMA OneUtterance ==
    ASSUME NEW w \in {"system", "user", "assistant"}, NEW x \in Part
    PROVE  LET s == Speech(w, <<x>>)
           IN  s \in Seq(Utterance) /\ Len(s) = 1 /\ s[1].what = x /\ s[1].who = w
<1> DEFINE xs == <<x>>
<1>1. xs \in Seq(Part) /\ Len(xs) = 1 /\ xs[1] = x /\ 1 \in 1..Len(xs)
  OBVIOUS
<1> HIDE DEF xs
<1>2. /\ Speech(w, xs) \in Seq(Utterance) /\ Len(Speech(w, xs)) = Len(xs)
      /\ \A i \in 1..Len(xs) : Speech(w, xs)[i].who = w /\ Speech(w, xs)[i].what = xs[i]
  BY <1>1, Spoken
<1> QED BY <1>1, <1>2 DEF xs

\* Two sequences of one element each.
LEMMA Pair ==
    ASSUME NEW T, NEW s \in Seq(T), NEW u \in Seq(T), Len(s) = 1, Len(u) = 1
    PROVE  /\ s \o u \in Seq(T) /\ Len(s \o u) = 2 /\ DOMAIN (s \o u) = 1..2
           /\ (s \o u)[1] = s[1] /\ (s \o u)[2] = u[1]
<1> DEFINE b == s \o u
<1>1. 1 \in 1..Len(s) /\ 1 \in 1..Len(u) /\ 1 + 1 = 2
  OBVIOUS
<1>2. /\ b \in Seq(T) /\ Len(b) = Len(s) + Len(u)
      /\ \A i \in 1..Len(s) : b[i] = s[i]
      /\ \A i \in 1..Len(u) : b[Len(s) + i] = u[i]
  BY ConcatElements
<1> HIDE DEF b
<1>3. b \in Seq(T) /\ Len(b) = 2 /\ b[1] = s[1] /\ b[2] = u[1]
  BY <1>1, <1>2
<1>4. DOMAIN b = 1..2
  BY <1>3
<1> QED BY <1>3, <1>4 DEF b

\* An image in what is meant makes the payload one of images.
LEMMA ImagesAreMeant ==
    ASSUME RequestInv, Dispatched, NEW k \in DOMAIN Meant, Meant[k].what.kind = "image"
    PROVE  isImage(payload)
<1> DEFINE a == <<Text(payload.system)>>
           b == <<Text(payload.user)>>
           ms == payload.messages
<1>1. /\ payload \in Payload /\ payloadTypeName(payload) \in {"image", "text", "conversation"}
  BY DispatchedState, PayloadTypes
<1>2. CASE payloadTypeName(payload) = "image"
  BY <1>2, DispatchedState, PayloadTypes DEF isImage
<1>3. CASE payloadTypeName(payload) = "text"
  <2>1. Text(payload.system) \in Part /\ Text(payload.user) \in Part
    BY <1>1, CompleteImagesType
  <2>2. Text(payload.system).kind = "text" /\ Text(payload.user).kind = "text"
    BY DEF Text
  <2> DEFINE x == Text(payload.system)
             y == Text(payload.user)
             s == Speech("system", <<x>>)
             u == Speech("user", <<y>>)
  <2>3. Meant = s \o u
    BY <1>3, MeantForms
  <2> HIDE DEF x, y
  <2>5. /\ s \in Seq(Utterance) /\ Len(s) = 1 /\ s[1].what = x
        /\ u \in Seq(Utterance) /\ Len(u) = 1 /\ u[1].what = y
    BY <2>1, OneUtterance DEF x, y
  <2> HIDE DEF s, u
  <2>6. DOMAIN (s \o u) = 1..2 /\ (s \o u)[1] = s[1] /\ (s \o u)[2] = u[1]
    BY <2>5, Pair
  <2>7. (k = 1 /\ Meant[k] = s[1]) \/ (k = 2 /\ Meant[k] = u[1])
    BY <2>3, <2>6
  <2> QED BY <2>2, <2>5, <2>7 DEF x, y
<1>4. CASE payloadTypeName(payload) = "conversation"
  <2> DEFINE E == {x \in Utterance : x.what.kind # "image"}
             ls == LinesOf(ms)
  <2>1. payload.has = {"messages"} /\ ms \in Conversation
    BY <1>1, <1>4, DispatchedState, PayloadTypes, CompleteImagesType
  <2>2. SUFFICES ASSUME ~ containsImagePart(payload) PROVE FALSE
    BY <2>1 DEF isImage
  <2>3. /\ ls \in Seq(Seq(Utterance)) /\ Len(ls) = Len(ms) /\ DOMAIN ms = 1..Len(ms)
        /\ \A i \in 1..Len(ms) : /\ ls[i] = Speech(ms[i].role, ms[i].parts)
                                 /\ ms[i].role \in {"system", "user", "assistant"}
                                 /\ ms[i].parts \in Seq(Part)
    <3> HIDE DEF ms
    <3>1. DOMAIN ms = 1..Len(ms)
      BY <2>1 DEF Conversation
    <3> QED BY <2>1, <3>1, LinesType
  <2>4. ASSUME NEW i \in 1..Len(ms), NEW j \in 1..Len(ls[i]) PROVE ls[i][j] \in E
    <3> DEFINE ps == ms[i].parts
               w == ms[i].role
    <3>1. ps \in Seq(Part) /\ w \in {"system", "user", "assistant"} /\ ls[i] = Speech(w, ps)
      BY <2>3
    <3>2. \A h \in DOMAIN ps : ps[h].kind # "image"
      BY <2>2, <2>3 DEF containsImagePart
    <3> HIDE DEF ps, w, ls
    <3>3. /\ Len(Speech(w, ps)) = Len(ps)
          /\ \A h \in 1..Len(ps) : Speech(w, ps)[h].what = ps[h] /\ Speech(w, ps)[h] \in Utterance
      BY <3>1, Spoken
    <3>4. DOMAIN ps = 1..Len(ps)
      BY <3>1
    <3>5. j \in 1..Len(ps) /\ ls[i][j].what = ps[j] /\ ls[i][j] \in Utterance
      BY <3>1, <3>3
    <3>6. ps[j].kind # "image"
      BY <3>2, <3>4, <3>5
    <3> QED BY <3>5, <3>6
  <2>5. Meant = FlattenSeq(ls)
    BY <1>4, MeantForms
  <2>6. FlattenSeq(ls) \in Seq(Utterance)
    BY <2>3, FlattenType
  <2>7. E \in SUBSET Utterance
    OBVIOUS
  <2> HIDE DEF E, ls
  <2>8. \A i \in 1..Len(ls) : \A j \in 1..Len(ls[i]) : ls[i][j] \in E
    BY <2>3, <2>4
  <2>9. \A h \in 1..Len(FlattenSeq(ls)) : FlattenSeq(ls)[h] \in E
    BY <2>3, <2>7, <2>8, FlattenFrom
  <2>10. k \in 1..Len(FlattenSeq(ls))
    BY <2>5, <2>6
  <2> QED BY <2>5, <2>9, <2>10 DEF E
<1> QED BY <1>1, <1>2, <1>3, <1>4

\* What the router takes for text has no image in it, so that the model for text never gets one.
THEOREM ImagesAtTheImageModel == RequestSpec => []ImagesMeetTheImageModel
<1>1. ASSUME RequestInv PROVE ImagesMeetTheImageModel
  <2>1. ASSUME Dispatched
        PROVE  request.model = IF isImage(payload) THEN config.imageModel ELSE config.textModel
    BY <1>1, <2>1, DispatchedState, Resolved
  <2>2. ASSUME Dispatched, NEW i \in DOMAIN Heard, Heard[i].what.kind = "image"
        PROVE  isImage(payload)
    <3>1. Heard \in Seq(Utterance) /\ Meant \in Seq(Utterance) /\ Alike(Agree(ToGemini), Heard, Meant)
      BY <1>1, <2>2, HeardAsMeant
    <3>2. i \in DOMAIN Meant /\ <<Heard[i], Meant[i]>> \in Agree(ToGemini)
      BY <3>1 DEF Alike
    <3> DEFINE h == Heard[i]
               m == Meant[i]
    <3> HIDE DEF h, m
    <3>3. <<h, m>> \in Agree(ToGemini)
      BY <3>2 DEF h, m
    <3>4. h.what = m.what
      BY <3>3 DEF Agree
    <3>5. Meant[i].what.kind = "image"
      BY <2>2, <3>4 DEF h, m
    <3> QED BY <1>1, <2>2, <3>2, <3>5, ImagesAreMeant
  <2> QED BY <2>1, <2>2 DEF ImagesMeetTheImageModel
<1> QED BY <1>1, RequestInvariant, PTL

-----------------------------------------------------------------------------
(* Headings and the tasks below them.                                        *)

\* A middle piece is found where it was put.
LEMMA Within ==
    ASSUME NEW T, NEW p \in Seq(T), NEW t \in Seq(T), NEW y \in Seq(T)
    PROVE  /\ Len((p \o t) \o y) = Len(p) + Len(t) + Len(y)
           /\ \A i \in 1..Len(p) : ((p \o t) \o y)[i] = p[i]
           /\ SubSeq((p \o t) \o y, Len(p) + 1, Len(p) + Len(t)) = t
<1> DEFINE n == Len(p)
           m == Len(t)
           pt == p \o t
           w == pt \o y
<1>1. /\ pt \in Seq(T) /\ Len(pt) = n + m /\ \A i \in 1..n : pt[i] = p[i]
      /\ n \in Nat /\ m \in Nat /\ Len(y) \in Nat
  BY ConcatElements
<1> HIDE DEF pt
<1>2. Len(w) = Len(pt) + Len(y) /\ \A i \in 1..Len(pt) : w[i] = pt[i]
  BY <1>1, ConcatElements
<1> HIDE DEF w
<1>3. ASSUME NEW i \in 1..n PROVE w[i] = p[i]
  <2> HIDE DEF n, m
  <2>1. i \in 1..Len(pt)
    BY <1>1
  <2> QED BY <1>1, <1>2, <2>1
<1>4. SubSeq(w, n + 1, n + m) = t
  <2>1. CASE m = 0
    <3>1. t = << >>
      BY <2>1
    <3>2. n + m < n + 1 /\ n + 1 \in Int /\ n + m \in Int
      BY <1>1, <2>1
    <3>3. SubSeq(w, n + 1, n + m) = << >>
      BY <3>2, SubSeqEmpty
    <3> QED BY <3>1, <3>3
  <2>2. CASE m # 0
    <3>1. /\ n + 1 \in 1..Len(pt) /\ n + m \in 1..Len(pt)
          /\ n + 1 \in (n + 1)..(n + m) /\ n + m \in (n + 1)..(n + m)
          /\ (n + 1) - n = 1 /\ (n + m) - n = m
      <4> HIDE DEF n, m
      <4> QED BY <1>1, <2>2
    <3>2. SubSeq(w, n + 1, n + m) = SubSeq(pt, n + 1, n + m)
      <4> HIDE DEF n, m
      <4> QED BY <1>1, <3>1, SubSeqOfConcat1 DEF w
    <3>3. SubSeq(pt, n + 1, n + m) = SubSeq(t, (n + 1) - n, (n + m) - n)
      BY <3>1, SubSeqOfConcat2 DEF pt
    <3>4. SubSeq(t, 1, m) = t
      BY SubSeqFull
    <3> HIDE DEF n, m
    <3> QED BY <3>1, <3>2, <3>3, <3>4
  <2> QED BY <2>1, <2>2
<1>5. Len(w) = n + m + Len(y)
  <2> HIDE DEF n, m
  <2> QED BY <1>1, <1>2
<1> QED BY <1>3, <1>4, <1>5 DEF w, pt

\* The element after a sequence.
LEMMA ThenOne ==
    ASSUME NEW T, NEW x \in Seq(T), NEW h \in T
    PROVE  /\ x \o <<h>> \in Seq(T) /\ Len(x \o <<h>>) = Len(x) + 1
           /\ (x \o <<h>>)[Len(x) + 1] = h
<1>1. x \o <<h>> = Append(x, h)
  OBVIOUS
<1>2. Append(x, h) \in Seq(T) /\ Len(Append(x, h)) = Len(x) + 1 /\ Append(x, h)[Len(x) + 1] = h
  OBVIOUS
<1> QED BY <1>1, <1>2, Zenon

\* In the words w, k stands right below h.
StandsBelow(w, h, k) ==
    \E i \in 1..(Len(w) - Len(k)) : w[i] = h /\ SubSeq(w, i + 1, i + Len(k)) = k

\* What is put right after a heading stands below it, whatever precedes and follows.
LEMMA BelowIts ==
    ASSUME NEW x \in Words, NEW h \in Strings, NEW t \in Words, NEW y \in Words
    PROVE  StandsBelow((x \o (<<h>> \o t)) \o y, h, t)
<1> DEFINE w == (x \o (<<h>> \o t)) \o y
           p == x \o <<h>>
           i == Len(x) + 1
<1>1. x \in Seq(Strings) /\ t \in Seq(Strings) /\ y \in Seq(Strings) /\ <<h>> \in Seq(Strings)
  BY DEF Words
<1>2. /\ p \in Seq(Strings) /\ Len(p) = i /\ p[i] = h /\ i \in 1..i /\ i \in Nat
  <2>1. p \in Seq(Strings) /\ Len(p) = i /\ p[i] = h
    BY <1>1, ThenOne, Zenon
  <2>2. Len(x) \in Nat
    BY <1>1
  <2>3. i \in 1..i /\ i \in Nat
    BY <2>2
  <2> QED BY <2>1, <2>3
<1>3. w = (p \o t) \o y
  <2>1. x \o (<<h>> \o t) = (x \o <<h>>) \o t
    BY <1>1, ConcatAssociative
  <2> QED BY <2>1
<1> HIDE DEF p, i, w
<1>4. /\ Len(w) = Len(p) + Len(t) + Len(y)
      /\ \A j \in 1..Len(p) : w[j] = p[j]
      /\ SubSeq(w, Len(p) + 1, Len(p) + Len(t)) = t
  <2>1. /\ Len((p \o t) \o y) = Len(p) + Len(t) + Len(y)
        /\ \A j \in 1..Len(p) : ((p \o t) \o y)[j] = p[j]
        /\ SubSeq((p \o t) \o y, Len(p) + 1, Len(p) + Len(t)) = t
    <3>1. p \in Seq(Strings)
      BY <1>2
    <3> QED BY <1>1, <3>1, Within, Zenon
  <2> QED BY <1>3, <2>1, Zenon
<1>5. Len(t) \in Nat /\ Len(y) \in Nat
  BY <1>1
<1>6. i \in 1..(Len(w) - Len(t))
  BY <1>2, <1>4, <1>5
<1>7. w[i] = h /\ SubSeq(w, i + 1, i + Len(t)) = t
  BY <1>2, <1>4
<1>8. StandsBelow(w, h, t)
  BY <1>6, <1>7 DEF StandsBelow
<1> QED BY <1>8 DEF w

\* Sequences of seven.
LEMMA SeptupleOf ==
    ASSUME NEW f, DOMAIN f = 1..7, f = [i \in DOMAIN f |-> f[i]]
    PROVE  f = <<f[1], f[2], f[3], f[4], f[5], f[6], f[7]>>
OBVIOUS

LEMMA SevenMembers ==
    ASSUME NEW v \in Seq(Words), Len(v) = 7
    PROVE  FlattenSeq(v) = v[1] \o (((v[2] \o v[3]) \o (v[4] \o v[5])) \o (v[6] \o v[7]))
<1> DEFINE a == v[1]
           b == v[2]
           c == v[3]
           d == v[4]
           e == v[5]
           f == v[6]
           g == v[7]
<1>1. DOMAIN v = 1..7 /\ v = [i \in DOMAIN v |-> v[i]]
  OBVIOUS
<1>2. v = <<a, b, c, d, e, f, g>>
  BY <1>1, SeptupleOf, Zenon
<1>3. /\ a \in Words /\ b \in Words /\ c \in Words /\ d \in Words
      /\ e \in Words /\ f \in Words /\ g \in Words
  OBVIOUS
<1> HIDE DEF a, b, c, d, e, f, g
<1> DEFINE S == Seq(Strings)
<1>4. a \in S /\ b \in S /\ c \in S /\ d \in S /\ e \in S /\ f \in S /\ g \in S
  BY <1>3 DEF Words
<1>5. FlattenSeq(<<f, g>>) = f \o g
  BY <1>4, FlattenTwo
<1>6. ASSUME NEW s \in S, NEW ss \in Seq(S) PROVE FlattenSeq(<<s>> \o ss) = s \o FlattenSeq(ss)
  BY FlattenCons
<1> HIDE DEF S
<1>7. /\ <<f, g>> \in Seq(S) /\ <<e, f, g>> = <<e>> \o <<f, g>>
      /\ <<e, f, g>> \in Seq(S) /\ <<d, e, f, g>> = <<d>> \o <<e, f, g>>
  BY <1>4
<1>8. /\ <<d, e, f, g>> \in Seq(S) /\ <<c, d, e, f, g>> = <<c>> \o <<d, e, f, g>>
      /\ <<c, d, e, f, g>> \in Seq(S) /\ <<b, c, d, e, f, g>> = <<b>> \o <<c, d, e, f, g>>
      /\ <<b, c, d, e, f, g>> \in Seq(S) /\ <<a, b, c, d, e, f, g>> = <<a>> \o <<b, c, d, e, f, g>>
  BY <1>4
<1>9. FlattenSeq(<<e, f, g>>) = e \o (f \o g)
  BY <1>4, <1>5, <1>6, <1>7
<1>10. FlattenSeq(<<d, e, f, g>>) = d \o (e \o (f \o g))
  BY <1>4, <1>6, <1>7, <1>9
<1>11. FlattenSeq(<<c, d, e, f, g>>) = c \o (d \o (e \o (f \o g)))
  BY <1>4, <1>6, <1>8, <1>10
<1>12. FlattenSeq(<<b, c, d, e, f, g>>) = b \o (c \o (d \o (e \o (f \o g))))
  BY <1>4, <1>6, <1>8, <1>11
<1>13. FlattenSeq(<<a, b, c, d, e, f, g>>) = a \o (b \o (c \o (d \o (e \o (f \o g)))))
  BY <1>4, <1>6, <1>8, <1>12
<1>14. ASSUME NEW r \in S, NEW s \in S, NEW t \in S PROVE (r \o s) \o t = r \o (s \o t)
  BY ConcatAssociative DEF S
<1>15. ASSUME NEW r \in S, NEW s \in S PROVE r \o s \in S
  BY ConcatProperties DEF S
<1> DEFINE fg == f \o g
           efg == e \o fg
           defg == d \o efg
           de == d \o e
           bc == b \o c
<1>16. fg \in S /\ bc \in S /\ de \in S
  BY <1>4, <1>15
<1>17. efg \in S
  <2> HIDE DEF fg
  <2> QED BY <1>4, <1>15, <1>16
<1>18. defg \in S
  <2> HIDE DEF efg
  <2> QED BY <1>4, <1>15, <1>17
<1>19. de \o fg = d \o (e \o fg)
  <2> HIDE DEF fg
  <2>1. d \in S /\ e \in S /\ fg \in S
    BY <1>4, <1>16
  <2> QED BY <1>14, <2>1
<1>20. bc \o defg = b \o (c \o defg)
  <2> HIDE DEF defg
  <2>1. b \in S /\ c \in S /\ defg \in S
    BY <1>4, <1>18
  <2> QED BY <1>14, <2>1
<1>21. (bc \o de) \o fg = bc \o (de \o fg)
  <2> HIDE DEF bc, de, fg
  <2> QED BY <1>14, <1>16
<1>22. FlattenSeq(<<a, b, c, d, e, f, g>>) = a \o (b \o (c \o defg))
  BY <1>13
<1>23. de \o fg = defg
  BY <1>19
<1> HIDE DEF fg, efg, defg, de, bc
<1>24. FlattenSeq(<<a, b, c, d, e, f, g>>) = a \o ((bc \o de) \o fg)
  BY <1>20, <1>21, <1>22, <1>23
<1>25. FlattenSeq(<<a, b, c, d, e, f, g>>) = a \o (((b \o c) \o (d \o e)) \o (f \o g))
  BY <1>24 DEF fg, de, bc
<1>26. FlattenSeq(v) = a \o (((b \o c) \o (d \o e)) \o (f \o g))
  BY <1>2, <1>25, Zenon
<1> QED BY <1>26 DEF a, b, c, d, e, f, g

\* The headings of a submission, what its system prompt says, and all that is said of it.
headingOf(d, n) ==
    CASE n = 1 -> "Reference Task"
      [] n = 2 -> IF d.taskType = "IMAGE" THEN "Template" ELSE "Template Task"
      [] OTHER -> IF d.taskType = "IMAGE" THEN "Student Submission" ELSE "Student Task"
systemOf(d) == <<"system prompt", d.taskType>>
wordsOf(d) ==
    systemOf(d) \o (((<<headingOf(d, 1)>> \o d.reference) \o (<<headingOf(d, 2)>> \o d.template))
                    \o (<<headingOf(d, 3)>> \o d.studentResponse))

LEMMA PairOf ==
    ASSUME NEW f, DOMAIN f = 1..2, f = [i \in DOMAIN f |-> f[i]] PROVE f = <<f[1], f[2]>>
OBVIOUS

\* What the headings are.
LEMMA HeadingsOf ==
    ASSUME NEW d
    PROVE  /\ headingOf(d, 1) = "Reference Task"
           /\ d.taskType = "IMAGE" =>
                headingOf(d, 2) = "Template" /\ headingOf(d, 3) = "Student Submission"
           /\ d.taskType # "IMAGE" =>
                headingOf(d, 2) = "Template Task" /\ headingOf(d, 3) = "Student Task"
           /\ headingOf(d, 1) \in Strings /\ headingOf(d, 2) \in Strings /\ headingOf(d, 3) \in Strings
<1>1. /\ headingOf(d, 1) = "Reference Task"
      /\ d.taskType = "IMAGE" =>
           headingOf(d, 2) = "Template" /\ headingOf(d, 3) = "Student Submission"
      /\ d.taskType # "IMAGE" =>
           headingOf(d, 2) = "Template Task" /\ headingOf(d, 3) = "Student Task"
  BY DEF headingOf
<1> QED BY <1>1, OwnStrings

\* What a part says.
LEMMA SaidText == ASSUME NEW w PROVE Text(w).what = w /\ Image(w).what = w /\ Text(w).kind = "text"
BY DEF Text, Image

\* What a model hears of a text or table is that,
LEMMA WordsOfText ==
    ASSUME NEW c \in Configurations, NEW d \in Submissions, d.taskType # "IMAGE"
    PROVE  WordsOf(sdkRequest(resolve(c, buildMessage(d)))) = wordsOf(d)
<1> DEFINE p == buildMessage(d)
           q == resolve(c, p)
           heard == HeardIn(sdkRequest(q))
           s == Speech("system", <<Text(q.system)>>)
           u == Speech("user", <<Text(q.user)>>)
           r1 == <<"Reference Task">> \o d.reference
           r2 == <<"Template Task">> \o d.template
           r3 == <<"Student Task">> \o d.studentResponse
           said == [i \in DOMAIN heard |-> heard[i].what.what]
<1>1. /\ p \in Payload /\ p.has = {"system", "user"} /\ p.system = systemOf(d)
      /\ p.user = render(UserTemplate, inputs(d))
  BY BuiltText DEF systemOf
<1>2. p.user = (r1 \o r2) \o r3 /\ p.user \in Words /\ p.system \in Words
  BY <1>1, Rendered, SubmissionFields, Zenon DEF systemOf
<1>3. q \in Payload /\ q.system = p.system /\ q.user = p.user /\ payloadTypeName(q) = "text"
  <2>1. q \in Payload /\ q.system = p.system /\ q.user = p.user
        /\ payloadTypeName(q) = payloadTypeName(p)
    BY <1>1, Resolved
  <2>2. payloadTypeName(p) = "text"
    BY <1>1 DEF payloadTypeName
  <2> QED BY <2>1, <2>2
<1> HIDE DEF p, q
<1>4. heard = s \o u
  BY <1>3, HeardText
<1>5. /\ s \in Seq(Utterance) /\ Len(s) = 1 /\ s[1].what = Text(q.system)
      /\ u \in Seq(Utterance) /\ Len(u) = 1 /\ u[1].what = Text(q.user)
  BY <1>3, CompleteImagesType, OneUtterance
<1> HIDE DEF s, u, heard
<1>6. DOMAIN heard = 1..2 /\ heard[1] = s[1] /\ heard[2] = u[1]
  BY <1>4, <1>5, Pair
<1>7. heard[1].what.what = p.system /\ heard[2].what.what = p.user
  BY <1>3, <1>5, <1>6, SaidText, Zenon
<1>8. DOMAIN said = 1..2 /\ said = [i \in DOMAIN said |-> said[i]]
      /\ said[1] = p.system /\ said[2] = p.user
  BY <1>6, <1>7
<1>9. WordsOf(sdkRequest(q)) = FlattenSeq(said)
  BY Zenon DEF WordsOf, heard
<1> HIDE DEF said
<1>10. said = <<p.system, p.user>>
  BY <1>8, PairOf, Zenon
<1>11. FlattenSeq(<<p.system, p.user>>) = p.system \o p.user
  BY <1>2, FlattenTwo DEF Words
<1>12. wordsOf(d) = systemOf(d) \o ((r1 \o r2) \o r3)
  BY HeadingsOf DEF wordsOf
<1> HIDE DEF r1, r2, r3
<1> QED BY <1>1, <1>2, <1>9, <1>10, <1>11, <1>12, Zenon DEF p, q

\* What labels and images say.
LEMMA SixPartsSay ==
    ASSUME NEW d
    PROVE  LET b == buildUserParts(inputs(d))
           IN  /\ Len(b) = 6
               /\ b[1].what = <<"Reference Task">> /\ b[2].what = d.reference
               /\ b[3].what = <<"Template">> /\ b[4].what = d.template
               /\ b[5].what = <<"Student Submission">> /\ b[6].what = d.studentResponse
<1> DEFINE b1 == Text(<<"Reference Task">>)
           b2 == Image(d.reference)
           b3 == Text(<<"Template">>)
           b4 == Image(d.template)
           b5 == Text(<<"Student Submission">>)
           b6 == Image(d.studentResponse)
           b == buildUserParts(inputs(d))
<1>1. b = <<b1, b2, b3, b4, b5, b6>>
  BY DEF buildUserParts, inputs
<1>2. /\ b1.what = <<"Reference Task">> /\ b2.what = d.reference
      /\ b3.what = <<"Template">> /\ b4.what = d.template
      /\ b5.what = <<"Student Submission">> /\ b6.what = d.studentResponse
  BY SaidText
<1> HIDE DEF b1, b2, b3, b4, b5, b6, b
<1>3. Len(b) = 6 /\ b[1] = b1 /\ b[2] = b2 /\ b[3] = b3 /\ b[4] = b4 /\ b[5] = b5 /\ b[6] = b6
  BY <1>1
<1> QED BY <1>2, <1>3, Zenon DEF b

\* ... and so is what it hears of an image.
LEMMA WordsOfImage ==
    ASSUME NEW c \in Configurations, NEW d \in Submissions, d.taskType = "IMAGE"
    PROVE  WordsOf(sdkRequest(resolve(c, buildMessage(d)))) = wordsOf(d)
<1> DEFINE p == buildMessage(d)
           q == resolve(c, p)
           g == FamilyOf[q.model] # "mistral"
           heard == HeardIn(sdkRequest(q))
           x == Text(systemOf(d))
           b == buildUserParts(inputs(d))
           s == Speech("system", <<x>>)
           u == Speech("user", b)
           ms == p.messages
           said == [i \in DOMAIN heard |-> heard[i].what.what]
<1>1. /\ p \in Payload /\ p.has = {"messages"} /\ Len(ms) = 2
      /\ ms[1].role = "system" /\ ms[1].parts = <<x>>
      /\ ms[2].role = "user" /\ ms[2].parts = b /\ b \in Seq(Part)
  BY BuiltImage, Zenon DEF systemOf
<1>2. q \in Payload /\ q.messages = ms /\ payloadTypeName(q) = "conversation"
  <2>1. q \in Payload /\ q.messages = p.messages /\ payloadTypeName(q) = payloadTypeName(p)
    BY <1>1, Resolved
  <2>2. payloadTypeName(p) = "conversation"
    BY <1>1 DEF payloadTypeName
  <2> QED BY <2>1, <2>2
<1>3. x \in Part /\ x.what = systemOf(d)
  BY SubmissionFields, PartTypes, SaidText DEF systemOf
<1>4. /\ Len(b) = 6
      /\ b[1].what = <<"Reference Task">> /\ b[2].what = d.reference
      /\ b[3].what = <<"Template">> /\ b[4].what = d.template
      /\ b[5].what = <<"Student Submission">> /\ b[6].what = d.studentResponse
  BY SixPartsSay, Zenon
<1> HIDE DEF p, q, x, b
<1>5. /\ s \in Seq(Utterance) /\ Len(s) = 1 /\ s[1].what = x
      /\ u \in Seq(Utterance) /\ Len(u) = 6 /\ \A i \in 1..6 : u[i].what = b[i]
  <2>1. s \in Seq(Utterance) /\ Len(s) = 1 /\ s[1].what = x
    BY <1>3, OneUtterance
  <2>2. /\ u \in Seq(Utterance) /\ Len(u) = Len(b) /\ \A i \in 1..Len(b) : u[i].what = b[i]
    BY <1>1, Spoken
  <2> HIDE DEF s, u
  <2> QED BY <1>4, <2>1, <2>2
<1>6. FlattenSeq(LinesOf(ms)) = s \o u
  <2> DEFINE ls == LinesOf(ms)
  <2>1. ms \in Conversation
    BY <1>1, CompleteImagesType
  <2>2. /\ ls \in Seq(Seq(Utterance)) /\ Len(ls) = Len(ms)
        /\ \A i \in 1..Len(ms) : ls[i] = Speech(ms[i].role, ms[i].parts)
    BY <2>1, LinesType
  <2>3. 1 \in 1..2 /\ 2 \in 1..2
    OBVIOUS
  <2>4. ls[1] = s /\ ls[2] = u
    BY <1>1, <2>2, <2>3
  <2>5. DOMAIN ls = 1..2 /\ ls = [i \in DOMAIN ls |-> ls[i]]
    BY <1>1, <2>2
  <2> HIDE DEF ls, s, u, ms
  <2>6. ls = <<s, u>>
    BY <2>4, <2>5, PairOf, Zenon
  <2>7. FlattenSeq(<<s, u>>) = s \o u
    BY <1>5, FlattenTwo
  <2> QED BY <2>6, <2>7 DEF ls
<1>7. ms # << >>
  BY <1>1
<1> HIDE DEF s, u, heard, ms
<1>8. Alike(Agree(g), heard, s \o u) /\ heard \in Seq(Utterance)
  <2>1. /\ heard \in Seq(Utterance)
        /\ Alike(Agree(g), heard, FlattenSeq(LinesOf(q.messages)))
    BY <1>2, <1>7, HeardConversation DEF heard
  <2> QED BY <1>2, <1>6, <2>1
<1> HIDE DEF g
<1>9. Len(s \o u) = 7 /\ (s \o u)[1] = s[1] /\ \A i \in 1..6 : (s \o u)[1 + i] = u[i]
  <2>1. /\ Len(s \o u) = Len(s) + Len(u)
        /\ \A i \in 1..Len(s) : (s \o u)[i] = s[i]
        /\ \A i \in 1..Len(u) : (s \o u)[Len(s) + i] = u[i]
    <3>1. s \in Seq(Utterance) /\ u \in Seq(Utterance)
      BY <1>5
    <3> QED BY <3>1, ConcatElements
  <2>2. 1 \in 1..Len(s)
    BY <1>5
  <2> QED BY <1>5, <2>1, <2>2
<1>10. ASSUME NEW i \in 1..7 PROVE heard[i].what = (s \o u)[i].what
  <2> DEFINE h == heard[i]
             m == (s \o u)[i]
  <2>1. <<h, m>> \in Agree(g)
    BY <1>8, <1>9 DEF Alike
  <2> HIDE DEF h, m
  <2>2. h.what = m.what
    BY <2>1 DEF Agree
  <2> QED BY <2>2 DEF h, m
<1>11. DOMAIN heard = 1..7
  BY <1>8, <1>9 DEF Alike
<1>12. heard[1].what = x /\ \A i \in 1..6 : heard[1 + i].what = b[i]
  <2>1. 1 \in 1..7 /\ \A i \in 1..6 : 1 + i \in 1..7
    OBVIOUS
  <2> QED BY <1>5, <1>9, <1>10, <2>1
<1>13. /\ heard[2].what = b[1] /\ heard[3].what = b[2] /\ heard[4].what = b[3]
       /\ heard[5].what = b[4] /\ heard[6].what = b[5] /\ heard[7].what = b[6]
  <2>1. /\ 1 \in 1..6 /\ 2 \in 1..6 /\ 3 \in 1..6 /\ 4 \in 1..6 /\ 5 \in 1..6 /\ 6 \in 1..6
        /\ 1 + 1 = 2 /\ 1 + 2 = 3 /\ 1 + 3 = 4 /\ 1 + 4 = 5 /\ 1 + 5 = 6 /\ 1 + 6 = 7
    OBVIOUS
  <2> QED BY <1>12, <2>1
<1>14. DOMAIN said = 1..7 /\ said = [i \in DOMAIN said |-> said[i]]
       /\ \A i \in 1..7 : said[i] = heard[i].what.what
  BY <1>11
<1>15. WordsOf(sdkRequest(q)) = FlattenSeq(said)
  BY Zenon DEF WordsOf, heard
<1> HIDE DEF said
<1>16. /\ said[1] = systemOf(d) /\ said[2] = <<headingOf(d, 1)>> /\ said[3] = d.reference
       /\ said[4] = <<headingOf(d, 2)>> /\ said[5] = d.template
       /\ said[6] = <<headingOf(d, 3)>> /\ said[7] = d.studentResponse
  <2>1. /\ said[1] = heard[1].what.what /\ said[2] = heard[2].what.what
        /\ said[3] = heard[3].what.what /\ said[4] = heard[4].what.what
        /\ said[5] = heard[5].what.what /\ said[6] = heard[6].what.what
        /\ said[7] = heard[7].what.what
    BY <1>14
  <2>2. headingOf(d, 1) = "Reference Task" /\ headingOf(d, 2) = "Template"
        /\ headingOf(d, 3) = "Student Submission"
    BY HeadingsOf
  <2> QED BY <1>3, <1>4, <1>12, <1>13, <2>1, <2>2, Zenon
<1> DEFINE h1 == <<headingOf(d, 1)>>
           h2 == <<headingOf(d, 2)>>
           h3 == <<headingOf(d, 3)>>
<1>17. /\ systemOf(d) \in Words /\ h1 \in Words /\ h2 \in Words /\ h3 \in Words
       /\ d.reference \in Words /\ d.template \in Words /\ d.studentResponse \in Words
  BY HeadingsOf, SubmissionFields, WordLists, NoWords DEF systemOf
<1>18. wordsOf(d) =
          systemOf(d) \o (((h1 \o d.reference) \o (h2 \o d.template)) \o (h3 \o d.studentResponse))
  BY DEF wordsOf
<1> HIDE DEF h1, h2, h3
<1>19. said \in Seq(Words) /\ Len(said) = 7
  <2>1. \A i \in 1..7 : i = 1 \/ i = 2 \/ i = 3 \/ i = 4 \/ i = 5 \/ i = 6 \/ i = 7
    OBVIOUS
  <2>2. \A i \in 1..7 : said[i] \in Words
    BY <1>16, <1>17, <2>1 DEF h1, h2, h3
  <2>3. said = [i \in 1..7 |-> said[i]]
    BY <1>14
  <2> QED BY <2>2, <2>3
<1>20. FlattenSeq(said) = said[1] \o (((said[2] \o said[3]) \o (said[4] \o said[5]))
                                     \o (said[6] \o said[7]))
  BY <1>19, SevenMembers
<1>21. FlattenSeq(said) = wordsOf(d)
  BY <1>16, <1>18, <1>20, Zenon DEF h1, h2, h3
<1> QED BY <1>15, <1>21, Zenon DEF p, q

-----------------------------------------------------------------------------
(* The words of a request, the cache key and the prefix.                     *)

\* Four sequences, concatenated in four ways.
Regrouped(x, r, t, s, all) ==
    /\ x \o r \in Words /\ t \o s \in Words /\ x \o (r \o t) \in Words
    /\ all = (x \o r) \o (t \o s)
    /\ all = ((x \o r) \o t) \o s
    /\ all = ((x \o (r \o t)) \o s) \o << >>
    /\ Len(all) = Len(x) + Len(r) + Len(t) + Len(s)

\* Concatenation is associative.
LEMMA Regroup ==
    ASSUME NEW x \in Words, NEW r \in Words, NEW t \in Words, NEW s \in Words
    PROVE  Regrouped(x, r, t, s, x \o ((r \o t) \o s))
<1> DEFINE S == Seq(Strings)
           xr == x \o r
           rt == r \o t
           ts == t \o s
<1>1. x \in S /\ r \in S /\ t \in S /\ s \in S
  BY DEF Words
<1>2. xr \in S /\ rt \in S /\ ts \in S
  BY <1>1, ConcatProperties
<1>3. ASSUME NEW u \in S, NEW v \in S, NEW w \in S PROVE (u \o v) \o w = u \o (v \o w)
  BY ConcatAssociative
<1>4. rt \o s = r \o ts
  BY <1>1, <1>3
<1>5. xr \o t = x \o rt
  BY <1>1, <1>3
<1>6. xr \o ts = x \o (r \o ts)
  <2> HIDE DEF ts, S
  <2>1. ts \in S
    BY <1>2
  <2> QED BY <1>1, <1>3, <2>1
<1>7. (x \o rt) \o s = x \o (rt \o s)
  <2> HIDE DEF rt, S
  <2>1. rt \in S
    BY <1>2
  <2> QED BY <1>1, <1>3, <2>1
<1> HIDE DEF xr, rt, ts
<1>8. x \o rt \in S /\ (x \o rt) \o s \in S /\ xr \o t \in S
  <2>1. x \o rt \in S /\ xr \o t \in S
    BY <1>1, <1>2, ConcatProperties
  <2> DEFINE y == x \o rt
  <2> HIDE DEF y
  <2>2. y \in S
    BY <2>1 DEF y
  <2>3. y \o s \in S
    BY <1>1, <2>2, ConcatProperties
  <2> QED BY <2>1, <2>3 DEF y
<1>9. ((x \o rt) \o s) \o << >> = (x \o rt) \o s
  BY <1>8, ConcatEmptySeq
<1>10. Len(x \o (rt \o s)) = Len(x) + Len(r) + Len(t) + Len(s)
  <2>1. /\ Len(rt) = Len(r) + Len(t)
        /\ Len(x) \in Nat /\ Len(r) \in Nat /\ Len(t) \in Nat /\ Len(s) \in Nat
    BY <1>1, ConcatProperties DEF rt
  <2> DEFINE y == rt \o s
  <2>2. y \in S /\ Len(y) = Len(rt) + Len(s)
    BY <1>1, <1>2, ConcatProperties
  <2> HIDE DEF y
  <2>3. Len(x \o y) = Len(x) + Len(y)
    BY <1>1, <2>2, ConcatProperties
  <2> QED BY <2>1, <2>2, <2>3 DEF y
<1> HIDE DEF S
<1>11. Words = S
  BY DEF Words, S
<1>12. /\ xr \in Words /\ ts \in Words /\ xr \o t \in Words /\ x \o rt \in Words
       /\ x \o (rt \o s) = xr \o ts
       /\ x \o (rt \o s) = (xr \o t) \o s
       /\ x \o (rt \o s) = ((x \o rt) \o s) \o << >>
  BY <1>2, <1>4, <1>5, <1>6, <1>7, <1>8, <1>9, <1>11, Zenon
<1> QED BY <1>10, <1>12, Zenon DEF xr, rt, ts, Regrouped

\* What a model hears of any submission.
LEMMA WordsOfBuilt ==
    ASSUME NEW c \in Configurations, NEW d \in Submissions
    PROVE  WordsOf(sdkRequest(resolve(c, buildMessage(d)))) = wordsOf(d)
BY WordsOfText, WordsOfImage

\* In it, each task stands below its heading, and the system prompt and the reference task
\* come first.
LEMMA BuiltWords ==
    ASSUME NEW d \in Submissions
    PROVE  /\ \E i \in 1..(Len(wordsOf(d)) - Len(d.reference)) :
                 /\ wordsOf(d)[i] = headingOf(d, 1)
                 /\ SubSeq(wordsOf(d), i + 1, i + Len(d.reference)) = d.reference
           /\ \E i \in 1..(Len(wordsOf(d)) - Len(d.template)) :
                 /\ wordsOf(d)[i] = headingOf(d, 2)
                 /\ SubSeq(wordsOf(d), i + 1, i + Len(d.template)) = d.template
           /\ \E i \in 1..(Len(wordsOf(d)) - Len(d.studentResponse)) :
                 /\ wordsOf(d)[i] = headingOf(d, 3)
                 /\ SubSeq(wordsOf(d), i + 1, i + Len(d.studentResponse)) = d.studentResponse
           /\ Len(wordsOf(d)) = 5 + Len(d.reference) + Len(d.template) + Len(d.studentResponse)
           /\ SubSeq(wordsOf(d), 1, 3 + Len(d.reference))
                = systemOf(d) \o (<<headingOf(d, 1)>> \o d.reference)
<1> DEFINE w == wordsOf(d)
           h1 == headingOf(d, 1)
           h2 == headingOf(d, 2)
           h3 == headingOf(d, 3)
           x == systemOf(d)
           r == <<h1>> \o d.reference
           t == <<h2>> \o d.template
           s == <<h3>> \o d.studentResponse
<1>1. /\ h1 \in Strings /\ h2 \in Strings /\ h3 \in Strings
      /\ d.reference \in Words /\ d.template \in Words /\ d.studentResponse \in Words
  BY HeadingsOf, SubmissionFields
<1>2. x \in Words /\ Len(x) = 2
  <2>1. "system prompt" \in Strings /\ d.taskType \in Strings
    BY OwnStrings, SubmissionFields
  <2>2. ASSUME NEW a \in Strings, NEW b \in Strings PROVE <<a, b>> \in Words /\ Len(<<a, b>>) = 2
    BY DEF Words
  <2> QED BY <2>1, <2>2, Zenon DEF systemOf
<1>3. ASSUME NEW h \in Strings, NEW k \in Words
      PROVE  <<h>> \o k \in Words /\ Len(<<h>> \o k) = 1 + Len(k) /\ Len(k) \in Nat
  <2> DEFINE hs == <<h>>
  <2>1. hs \in Seq(Strings) /\ Len(hs) = 1 /\ k \in Seq(Strings)
    BY DEF Words
  <2> HIDE DEF hs
  <2>2. hs \o k \in Seq(Strings) /\ Len(hs \o k) = Len(hs) + Len(k)
    BY <2>1, ConcatProperties
  <2> QED BY <2>1, <2>2 DEF hs, Words
<1>4. /\ r \in Words /\ Len(r) = 1 + Len(d.reference) /\ Len(d.reference) \in Nat
      /\ t \in Words /\ Len(t) = 1 + Len(d.template) /\ Len(d.template) \in Nat
      /\ s \in Words /\ Len(s) = 1 + Len(d.studentResponse) /\ Len(d.studentResponse) \in Nat
  BY <1>1, <1>3, Zenon
<1>5. w = x \o ((r \o t) \o s)
  BY DEF wordsOf
<1> HIDE DEF w, h1, h2, h3, x, r, t, s
<1>6. /\ x \o r \in Words /\ t \o s \in Words /\ x \o (r \o t) \in Words
      /\ w = (x \o r) \o (t \o s)
      /\ w = ((x \o r) \o t) \o s
      /\ w = ((x \o (r \o t)) \o s) \o << >>
      /\ Len(w) = Len(x) + Len(r) + Len(t) + Len(s)
  <2>1. Regrouped(x, r, t, s, x \o ((r \o t) \o s))
    BY <1>2, <1>4, Regroup
  <2>2. Regrouped(x, r, t, s, w)
    BY <1>5, <2>1, Zenon
  <2> QED BY <2>2, Zenon DEF Regrouped
<1>7. \E i \in 1..(Len(w) - Len(d.reference)) :
         w[i] = h1 /\ SubSeq(w, i + 1, i + Len(d.reference)) = d.reference
  <2>1. w = (x \o (<<h1>> \o d.reference)) \o (t \o s)
    BY <1>6 DEF r
  <2> DEFINE y == t \o s
             k == d.reference
  <2>2. y \in Words /\ k \in Words
    BY <1>1, <1>6
  <2> HIDE DEF y, k
  <2>3. StandsBelow((x \o (<<h1>> \o k)) \o y, h1, k)
    BY <1>1, <1>2, <2>2, BelowIts
  <2> QED BY <2>1, <2>3, Zenon DEF y, k, StandsBelow
<1>8. \E i \in 1..(Len(w) - Len(d.template)) :
         w[i] = h2 /\ SubSeq(w, i + 1, i + Len(d.template)) = d.template
  <2>1. w = ((x \o r) \o (<<h2>> \o d.template)) \o s
    BY <1>6 DEF t
  <2> DEFINE y == x \o r
             k == d.template
  <2>2. y \in Words /\ k \in Words
    BY <1>1, <1>6
  <2> HIDE DEF y, k
  <2>3. StandsBelow((y \o (<<h2>> \o k)) \o s, h2, k)
    BY <1>1, <1>4, <2>2, BelowIts
  <2> QED BY <2>1, <2>3, Zenon DEF y, k, StandsBelow
<1>9. \E i \in 1..(Len(w) - Len(d.studentResponse)) :
         w[i] = h3 /\ SubSeq(w, i + 1, i + Len(d.studentResponse)) = d.studentResponse
  <2>1. w = ((x \o (r \o t)) \o (<<h3>> \o d.studentResponse)) \o << >>
    BY <1>6 DEF s
  <2> DEFINE y == x \o (r \o t)
             k == d.studentResponse
  <2>2. y \in Words /\ k \in Words
    BY <1>1, <1>6
  <2> HIDE DEF y, k
  <2>3. StandsBelow((y \o (<<h3>> \o k)) \o << >>, h3, k)
    BY <1>1, <2>2, NoWords, BelowIts
  <2> QED BY <2>1, <2>3, Zenon DEF y, k, StandsBelow
<1>10. Len(w) = 5 + Len(d.reference) + Len(d.template) + Len(d.studentResponse)
  <2> DEFINE lr == Len(d.reference)
             lt == Len(d.template)
             ls == Len(d.studentResponse)
             lx == Len(x)
             lwr == Len(r)
             lwt == Len(t)
             lws == Len(s)
             lw == Len(w)
  <2>1. lw = lx + lwr + lwt + lws
    BY <1>6, Zenon
  <2>2. lx = 2
    BY <1>2, Zenon
  <2>3. lwr = 1 + lr /\ lr \in Nat
    BY <1>4, Zenon
  <2>4. lwt = 1 + lt /\ lt \in Nat
    BY <1>4, Zenon
  <2>5. lws = 1 + ls /\ ls \in Nat
    BY <1>4, Zenon
  <2> HIDE DEF lr, lt, ls, lx, lwr, lwt, lws, lw
  <2>6. lw = 5 + lr + lt + ls
    BY <2>1, <2>2, <2>3, <2>4, <2>5
  <2> QED BY <2>6, Zenon DEF lr, lt, ls, lw
<1>11. SubSeq(w, 1, 3 + Len(d.reference)) = x \o r
  <2> DEFINE u == x \o r
             v == t \o s
  <2>1. u \in Seq(Strings) /\ v \in Seq(Strings) /\ w = u \o v
    BY <1>6 DEF Words
  <2>2. Len(u) = 3 + Len(d.reference)
    <3>1. Len(x \o r) = Len(x) + Len(r)
      BY <1>2, <1>4, ConcatProperties DEF Words
    <3> QED BY <1>2, <1>4, <3>1
  <2> HIDE DEF u, v
  <2>3. 1 \in 1..Len(u) /\ Len(u) \in 1..Len(u)
    BY <1>4, <2>2
  <2>4. SubSeq(u \o v, 1, Len(u)) = SubSeq(u, 1, Len(u))
    BY <2>1, <2>3, SubSeqOfConcat1
  <2>5. SubSeq(u, 1, Len(u)) = u
    BY <2>1, SubSeqFull
  <2> QED BY <2>1, <2>2, <2>4, <2>5 DEF u
<1> QED BY <1>7, <1>8, <1>9, <1>10, <1>11, Zenon DEF w, h1, h2, h3, x, r

\* So does it in what is dispatched.
LEMMA DispatchedWords ==
    ASSUME RequestInv, Dispatched, dto # Nothing
    PROVE  /\ config \in Configurations /\ dto \in Submissions /\ payload = buildMessage(dto)
           /\ request = sdkRequest(resolve(config, buildMessage(dto)))
           /\ WordsOf(request) = wordsOf(dto)
<1>1. /\ config \in Configurations /\ dto \in Submissions /\ payload = buildMessage(dto)
      /\ request = sdkRequest(resolve(config, buildMessage(dto)))
  BY DispatchedState
<1> QED BY <1>1, WordsOfBuilt

\* Between DTO and SDK the tasks change their names and places four times; each still ends below
\* its own heading or label, and nothing else is said.
THEOREM TasksUnderHeadings == RequestSpec => []TasksUnderTheirHeadings
<1>1. ASSUME RequestInv, Dispatched, dto # Nothing
      PROVE  LET words == WordsOf(request)
                 image == dto.taskType = "IMAGE"
                 below(heading, task) ==
                    \E i \in 1..(Len(words) - Len(task)) :
                        words[i] = heading /\ SubSeq(words, i + 1, i + Len(task)) = task
             IN  /\ below("Reference Task", dto.reference)
                 /\ below(IF image THEN "Template" ELSE "Template Task", dto.template)
                 /\ below(IF image THEN "Student Submission" ELSE "Student Task", dto.studentResponse)
                 /\ Len(words) = 5 + Len(dto.reference) + Len(dto.template) + Len(dto.studentResponse)
  <2> DEFINE w == WordsOf(request)
             h2 == IF dto.taskType = "IMAGE" THEN "Template" ELSE "Template Task"
             h3 == IF dto.taskType = "IMAGE" THEN "Student Submission" ELSE "Student Task"
  <2>1. dto \in Submissions /\ w = wordsOf(dto)
    BY <1>1, DispatchedWords
  <2>2. "Reference Task" = headingOf(dto, 1) /\ h2 = headingOf(dto, 2) /\ h3 = headingOf(dto, 3)
    BY HeadingsOf
  <2> HIDE DEF w, h2, h3
  <2>3. /\ \E i \in 1..(Len(w) - Len(dto.reference)) :
              w[i] = headingOf(dto, 1) /\ SubSeq(w, i + 1, i + Len(dto.reference)) = dto.reference
        /\ \E i \in 1..(Len(w) - Len(dto.template)) :
              w[i] = headingOf(dto, 2) /\ SubSeq(w, i + 1, i + Len(dto.template)) = dto.template
        /\ \E i \in 1..(Len(w) - Len(dto.studentResponse)) :
              w[i] = headingOf(dto, 3)
              /\ SubSeq(w, i + 1, i + Len(dto.studentResponse)) = dto.studentResponse
        /\ Len(w) = 5 + Len(dto.reference) + Len(dto.template) + Len(dto.studentResponse)
    BY <2>1, BuiltWords, Zenon
  <2> QED BY <2>2, <2>3, Zenon DEF w, h2, h3
<1>2. RequestInv => TasksUnderTheirHeadings
  BY <1>1, Zenon DEF TasksUnderTheirHeadings
<1> QED BY <1>2, RequestInvariant, PTL

-----------------------------------------------------------------------------
\* Image submissions, and they alone, go to the model for images.
LEMMA BuiltIsImage ==
    ASSUME NEW d \in Submissions PROVE isImage(buildMessage(d)) <=> d.taskType = "IMAGE"
<1> DEFINE p == buildMessage(d)
           ms == p.messages
           b == buildUserParts(inputs(d))
<1>1. CASE d.taskType = "IMAGE"
  <2>1. p.has = {"messages"} /\ DOMAIN ms = 1..2 /\ ms[2].parts = b
    BY <1>1, BuiltImage, Zenon
  <2>2. 2 \in DOMAIN b /\ b[2].kind = "image"
    BY DEF buildUserParts, Image
  <2> HIDE DEF p, b
  <2>3. 2 \in 1..2
    OBVIOUS
  <2>4. containsImagePart(p)
    BY <2>1, <2>2, <2>3, Zenon DEF containsImagePart
  <2>5. isImage(p)
    BY <2>1, <2>4 DEF isImage
  <2> QED BY <1>1, <2>5 DEF p
<1>2. CASE d.taskType # "IMAGE"
  <2>1. p.has = {"system", "user"}
    BY <1>2, BuiltText, Zenon
  <2> QED BY <1>2, <2>1 DEF isImage
<1> QED BY <1>1, <1>2

\* The model and the cache key of a submission.
LEMMA BuiltKey ==
    ASSUME NEW c \in Configurations, NEW d \in Submissions,
           NEW r, r = sdkRequest(resolve(c, buildMessage(d)))
    PROVE  /\ r.model = IF d.taskType = "IMAGE" THEN c.imageModel ELSE c.textModel
           /\ FamilyOf[r.model] = "mistral" => r.promptCacheKey = <<"sha256">> \o d.reference
<1> DEFINE p == buildMessage(d)
           q == resolve(c, p)
           k == <<"sha256">> \o d.reference
<1>1. p \in Payload /\ p.promptCacheKey = k
  <2>1. CASE d.taskType = "IMAGE"
    BY <2>1, BuiltImage, Zenon
  <2>2. CASE d.taskType # "IMAGE"
    BY <2>2, BuiltText, Zenon
  <2> QED BY <2>1, <2>2
<1>2. /\ q.promptCacheKey = p.promptCacheKey
      /\ q.model = (IF isImage(p) THEN c.imageModel ELSE c.textModel)
  BY <1>1, Resolved, Zenon
<1>3. q.model = (IF d.taskType = "IMAGE" THEN c.imageModel ELSE c.textModel)
  BY <1>2, BuiltIsImage
<1>4. r.model = q.model
  BY RequestModel
<1>5. FamilyOf[q.model] = "mistral" => r.promptCacheKey = q.promptCacheKey
  BY MistralRequest
<1> HIDE DEF p, q, k
<1> QED BY <1>1, <1>2, <1>3, <1>4, <1>5 DEF k

\* Sequences with the same head differ in their tails.
LEMMA SameTail ==
    ASSUME NEW T, NEW h \in T, NEW s \in Seq(T), NEW t \in Seq(T), <<h>> \o s = <<h>> \o t
    PROVE  s = t
<1> DEFINE hs == <<h>>
<1>1. hs \in Seq(T)
  OBVIOUS
<1>2. hs \o s = hs \o t
  OBVIOUS
<1> HIDE DEF hs
<1> QED BY <1>1, <1>2, ConcatSimplifications

\* The property follows from the invariant.
LEMMA KeyMeansPrefix == ASSUME RequestInv PROVE CacheKeyMeansPrefix
<1> DEFINE other(d) == sdkRequest(resolve(config, buildMessage(d)))
           end == 3 + Len(dto.reference)
<1>1. ASSUME Dispatched, dto # Nothing, ~ ToGemini, NEW d \in Submissions, d.taskType = dto.taskType
      PROVE  /\ d.reference = dto.reference => other(d).promptCacheKey = request.promptCacheKey
             /\ other(d).promptCacheKey = request.promptCacheKey =>
                   SubSeq(WordsOf(other(d)), 1, end) = SubSeq(WordsOf(request), 1, end)
  <2>1. /\ config \in Configurations /\ dto \in Submissions /\ request = other(dto)
        /\ WordsOf(request) = wordsOf(dto) /\ WordsOf(other(d)) = wordsOf(d)
    BY <1>1, DispatchedWords, WordsOfBuilt
  <2>2. other(d).model = request.model
    BY <1>1, <2>1, BuiltKey
  <2>3. FamilyOf[request.model] = "mistral"
    BY <1>1 DEF ToGemini
  <2>4. /\ other(d).promptCacheKey = <<"sha256">> \o d.reference
        /\ request.promptCacheKey = <<"sha256">> \o dto.reference
    BY <2>1, <2>2, <2>3, BuiltKey
  <2>5. d.reference \in Seq(Strings) /\ dto.reference \in Seq(Strings) /\ "sha256" \in Strings
    BY <2>1, SubmissionFields, OwnStrings, Zenon DEF Words
  <2>6. (<<"sha256">> \o d.reference = <<"sha256">> \o dto.reference) => d.reference = dto.reference
    BY <2>5, SameTail, Zenon
  <2>7. d.reference = dto.reference => SubSeq(wordsOf(d), 1, end) = SubSeq(wordsOf(dto), 1, end)
    <3>1. /\ SubSeq(wordsOf(d), 1, 3 + Len(d.reference)) =
               systemOf(d) \o (<<headingOf(d, 1)>> \o d.reference)
          /\ SubSeq(wordsOf(dto), 1, 3 + Len(dto.reference)) =
               systemOf(dto) \o (<<headingOf(dto, 1)>> \o dto.reference)
      BY <2>1, BuiltWords, Zenon
    <3>2. systemOf(d) = systemOf(dto)
      BY <1>1 DEF systemOf
    <3>3. headingOf(d, 1) = headingOf(dto, 1)
      BY HeadingsOf, Zenon
    <3> QED BY <3>1, <3>2, <3>3, Zenon
  <2> HIDE DEF other, end
  <2> QED BY <2>1, <2>4, <2>6, <2>7, Zenon
<1> QED BY <1>1, Zenon DEF CacheKeyMeansPrefix

\* buildPromptCacheKey hashes the reference task alone: who shares it shares the prefix, and
\* what the provider has cached under it is never the wrong one.
THEOREM CachedPrefixIsRight == RequestSpec => []CacheKeyMeansPrefix
BY KeyMeansPrefix, RequestInvariant, PTL

-----------------------------------------------------------------------------
(* LlmErrorMapper: for every raw error, whatever values its paths hold.      *)
(* What the probes find is related to the values, what the cascade returns   *)
(* to the rule that is first to apply.                                       *)

\* The inductive invariant: what the two steps have done so far.
MapperInv ==
    /\ provider \in Providers /\ raw \in RawErrors
    /\ mapped # "unset" => /\ mapped = classifyLlmError(provider, raw)
                           /\ ~ isUnparseable(raw)
    /\ thrown # "unset" =>
        /\ isUnparseable(raw) => thrown = "LlmServiceError"
        /\ ~ isUnparseable(raw) =>
              /\ mapped # "unset"
              /\ thrown = IF mapped = "undefined" THEN "LlmServiceError" ELSE mapped

\* A provider's paths, in their order and as a set.
PathsOf(p) == IF p = "gemini" THEN GEMINI_STATUS_PATHS ELSE MISTRAL_STATUS_PATHS
Probed(p) == IF p = "gemini" THEN Paths ELSE Paths \ {"error.status", "error.code"}

-----------------------------------------------------------------------------
\* A non-empty set of a few indices has a first one.
LEMMA FirstIsLeast ==
    ASSUME NEW S \in SUBSET (1..8), S # {}
    PROVE  firstOf(S) \in S /\ \A j \in S : firstOf(S) <= j
<1>1. \E i \in S : \A j \in S : i <= j
  <2> SUFFICES ASSUME \A i \in S : \E j \in S : j < i PROVE FALSE
    OBVIOUS
  <2>1. 1 \notin S
    OBVIOUS
  <2>2. 2 \notin S
    BY <2>1
  <2>3. 3 \notin S
    BY <2>1, <2>2
  <2>4. 4 \notin S
    BY <2>1, <2>2, <2>3
  <2>5. 5 \notin S
    BY <2>1, <2>2, <2>3, <2>4
  <2>6. 6 \notin S
    BY <2>1, <2>2, <2>3, <2>4, <2>5
  <2>7. 7 \notin S
    BY <2>1, <2>2, <2>3, <2>4, <2>5, <2>6
  <2>8. 8 \notin S
    BY <2>1, <2>2, <2>3, <2>4, <2>5, <2>6, <2>7
  <2>9. PICK k \in 1..8 : k \in S
    OBVIOUS
  <2> QED BY <2>1, <2>2, <2>3, <2>4, <2>5, <2>6, <2>7, <2>8, <2>9
<1> QED BY <1>1 DEF firstOf

\* Each provider's list has just the paths it probes.
LEMMA PathsArePaths ==
    ASSUME NEW p \in Providers
    PROVE  /\ DOMAIN PathsOf(p) \subseteq 1..8
           /\ \A i \in DOMAIN PathsOf(p) : PathsOf(p)[i] \in Probed(p)
           /\ \A q \in Probed(p) : \E i \in DOMAIN PathsOf(p) : PathsOf(p)[i] = q
           /\ Probed(p) \subseteq Paths
<1>1. CASE p = "gemini"
  BY <1>1 DEF PathsOf, Probed, Paths, GEMINI_STATUS_PATHS
<1>2. CASE p = "mistral"
  BY <1>2 DEF PathsOf, Probed, Paths, MISTRAL_STATUS_PATHS
<1> QED BY <1>1, <1>2 DEF Providers

\* The status found is a number at a probed path, and none is found only if there is none.
LEMMA ProbeFinds ==
    ASSUME NEW p \in Providers, NEW e \in RawErrors
    PROVE  /\ extractStatusCode(p, e) \in Nat \cup {NoCode}
           /\ extractStatusCode(p, e) = NoCode <=> \A q \in Probed(p) : e.at[q].num \in {NoCode, 0}
           /\ extractStatusCode(p, e) # NoCode =>
                 \E q \in Probed(p) : extractStatusCode(p, e) = e.at[q].num /\ e.at[q].num # 0
<1> DEFINE paths == PathsOf(p)
           coded == {i \in DOMAIN paths : normaliseStatusCode(e.at[paths[i]]) # NoCode}
           s == extractStatusCode(p, e)
<1>1. s = IF coded = {} THEN NoCode ELSE normaliseStatusCode(e.at[paths[firstOf(coded)]])
  BY DEF extractStatusCode, probeStatusCode, PathsOf
<1>2. \A q \in Probed(p) : e.at[q].num \in Nat \cup {NoCode}
  BY PathsArePaths, RawErrorsAssumption
<1>3. CASE coded = {}
  <2>1. \A q \in Probed(p) : normaliseStatusCode(e.at[q]) = NoCode
    BY <1>3, PathsArePaths
  <2> QED BY <1>1, <1>3, <2>1 DEF normaliseStatusCode, NoCode
<1>4. CASE coded # {}
  <2>1. coded \subseteq 1..8
    BY PathsArePaths
  <2>2. firstOf(coded) \in coded
    BY <1>4, <2>1, FirstIsLeast
  <2>3. PICK q \in Probed(p) : s = normaliseStatusCode(e.at[q]) /\ s # NoCode
    BY <1>1, <1>4, <2>2, PathsArePaths
  <2> QED BY <1>2, <2>3 DEF normaliseStatusCode, NoCode
<1> QED BY <1>3, <1>4

-----------------------------------------------------------------------------
\* The class of an error is that of the first rule that applies.
LEMMA ClassIsFirst ==
    ASSUME NEW p, NEW e
    PROVE  \/ /\ classifyLlmError(p, e) = "undefined"
              /\ \A i \in 1..8 : ~ applies(priority[i], p, e)
           \/ \E i \in 1..8 : /\ classifyLlmError(p, e) = priority[i]
                              /\ applies(priority[i], p, e)
                              /\ \A j \in 1..8 : j < i => ~ applies(priority[j], p, e)
<1>1. DOMAIN priority = 1..8
  BY DEF priority
<1>2. hits(p, e) = {i \in 1..8 : applies(priority[i], p, e)}
  BY <1>1 DEF hits
<1>3. CASE hits(p, e) = {}
  BY <1>2, <1>3 DEF classifyLlmError
<1>4. CASE hits(p, e) # {}
  <2>1. hits(p, e) \in SUBSET (1..8)
    BY <1>2
  <2> DEFINE i == firstOf(hits(p, e))
  <2>2. i \in hits(p, e) /\ \A j \in hits(p, e) : i <= j
    BY <1>4, <2>1, FirstIsLeast
  <2>3. \A j \in 1..8 : j < i => ~ applies(priority[j], p, e)
    BY <1>2, <2>2
  <2> QED BY <1>2, <1>4, <2>2, <2>3 DEF classifyLlmError
<1> QED BY <1>3, <1>4

\* Exactly the transient errors get a class that is retried.
LEMMA ClassIsRetriable ==
    ASSUME NEW p \in Providers, NEW e \in RawErrors
    PROVE  LET s == extractStatusCode(p, e)
           IN  classifyLlmError(p, e) \in {"RateLimitError", "ProviderServerError", "NetworkError"}
               <=> /\ ~ isResourceExhausted(p, s, e)
                   /\ \/ isRateLimit(p, s, e)
                      \/ s >= 500
                      \/ s = NoCode /\ (isHttpClientError(p, e) \/ "network" \in e.message)
<1> DEFINE s == extractStatusCode(p, e)
<1>1. s \in Nat \cup {NoCode}
  BY ProbeFinds
<1>2. /\ applies(priority[1], p, e) <=> isResourceExhausted(p, s, e)
      /\ applies(priority[2], p, e) <=> isRateLimit(p, s, e)
      /\ applies(priority[3], p, e) <=> s \in {401, 403}
      /\ applies(priority[4], p, e) => s = 400
      /\ applies(priority[5], p, e) => s = 400
      /\ applies(priority[6], p, e) <=> s >= 400 /\ s < 500
      /\ applies(priority[7], p, e) <=> s >= 500
      /\ applies(priority[8], p, e) <=>
            s = NoCode /\ (isHttpClientError(p, e) \/ "network" \in e.message)
  BY DEF applies, priority
<1> HIDE DEF s
<1>3. /\ priority[1] = "ResourceExhaustedError" /\ priority[2] = "RateLimitError"
      /\ priority[3] = "AuthenticationError" /\ priority[4] = "ContentFilteredError"
      /\ priority[5] = "ContextLengthExceededError" /\ priority[6] = "InvalidRequestError"
      /\ priority[7] = "ProviderServerError" /\ priority[8] = "NetworkError"
  BY DEF priority
<1>4. CASE classifyLlmError(p, e) = "undefined" /\ \A i \in 1..8 : ~ applies(priority[i], p, e)
  BY <1>2, <1>4 DEF s
<1>5. ASSUME NEW i \in 1..8, classifyLlmError(p, e) = priority[i],
             applies(priority[i], p, e), \A j \in 1..8 : j < i => ~ applies(priority[j], p, e)
      PROVE  classifyLlmError(p, e) \in {"RateLimitError", "ProviderServerError", "NetworkError"}
             <=> /\ ~ isResourceExhausted(p, s, e)
                 /\ \/ isRateLimit(p, s, e)
                    \/ s >= 500
                    \/ s = NoCode /\ (isHttpClientError(p, e) \/ "network" \in e.message)
  <2>1. CASE i = 1
    BY <1>2, <1>3, <1>5, <2>1
  <2>2. CASE i = 2
    BY <1>2, <1>3, <1>5, <2>2
  <2>3. CASE i \in {3, 4, 5, 6}
    <3>1. s >= 400 /\ s < 500 /\ s # NoCode
      BY <1>1, <1>2, <1>5, <2>3 DEF NoCode
    <3>2. ~ isRateLimit(p, s, e)
      BY <1>2, <1>5, <2>3
    <3> QED BY <1>1, <1>3, <1>5, <2>3, <3>1, <3>2
  <2>4. CASE i \in {7, 8}
    BY <1>2, <1>3, <1>5, <2>4
  <2> QED BY <2>1, <2>2, <2>3, <2>4
<1> QED BY <1>4, <1>5, ClassIsFirst DEF s

\* An error with a 4xx status always gets a class.
LEMMA ClientErrorHasClass ==
    ASSUME NEW p \in Providers, NEW e \in RawErrors, extractStatusCode(p, e) \in 400..499
    PROVE  classifyLlmError(p, e) \in MappedErrors
<1>1. applies(priority[6], p, e)
  BY DEF applies, priority
<1>2. \A i \in 1..8 : priority[i] \in MappedErrors
  BY DEF priority, MappedErrors, LlmErrorNames, ErrorClass
<1> QED BY <1>1, <1>2, ClassIsFirst

\* What is retried, and what answers 500.
LEMMA ClassProperties ==
    /\ \A c \in MappedErrors :
          /\ retryable(c) <=> c \in {"RateLimitError", "ProviderServerError", "NetworkError"}
          /\ statusCode(c) # 500
          /\ c # "undefined"
    /\ ~ retryable("LlmServiceError") /\ statusCode("LlmServiceError") = 500
BY DEF MappedErrors, LlmErrorNames, ErrorClass, retryable, statusCode, RateLimitError,
   ResourceExhaustedError, ProviderServerError, AuthenticationError, ContentFilteredError,
   NetworkError, ContextLengthExceededError, InvalidRequestError, LlmServiceError

\* A class is one of the mapped ones, or none.
LEMMA ClassType ==
    ASSUME NEW p, NEW e PROVE classifyLlmError(p, e) \in MappedErrors \cup {"undefined"}
<1>1. \A i \in 1..8 : priority[i] \in MappedErrors
  BY DEF priority, MappedErrors, LlmErrorNames, ErrorClass
<1> QED BY <1>1, ClassIsFirst

-----------------------------------------------------------------------------
\* What each step has left of the error.
THEOREM MapperInvariant == MapperSpec => []MapperInv
<1>1. MapperInit => MapperInv
  BY DEF MapperInit, MapperInv
<1>2. MapperInv /\ [MapperNext]_mapperVars => MapperInv'
  <2> SUFFICES ASSUME MapperInv, [MapperNext]_mapperVars PROVE MapperInv'
    OBVIOUS
  <2>1. CASE mapError
    <3>1. thrown = "unset"
      BY <2>1 DEF MapperInv, mapError
    <3>2. classifyLlmError(provider, raw)' = classifyLlmError(provider, raw)
      BY <2>1 DEF mapError
    <3> QED BY <2>1, <3>1 DEF MapperInv, mapError
  <2>2. CASE classifyError
    BY <2>2 DEF MapperInv, classifyError, isUnparseable
  <2>3. CASE UNCHANGED mapperVars
    BY <2>3 DEF MapperInv, mapperVars, isUnparseable
  <2> QED BY <2>1, <2>2, <2>3 DEF MapperNext
<1> QED BY <1>1, <1>2, PTL DEF MapperSpec

\* No status in 400..499 of a provider's error becomes a 500, and an unparseable answer
\* always does.
THEOREM ClientErrorsStay == MapperSpec => []ClientErrorNeverBecomes500
<1>1. MapperInv => ClientErrorNeverBecomes500
  <2> SUFFICES ASSUME MapperInv, Classified, Status \in 400..499
               PROVE  statusCode(thrown) = 500 <=> isUnparseable(raw)
    BY DEF ClientErrorNeverBecomes500
  <2>1. CASE isUnparseable(raw)
    BY <2>1, ClassProperties DEF MapperInv, Classified
  <2>2. CASE ~ isUnparseable(raw)
    <3>1. mapped \in MappedErrors
      BY <2>2, ClientErrorHasClass DEF MapperInv, Classified, Status
    <3>2. thrown = mapped
      BY <2>2, <3>1, ClassProperties DEF MapperInv, Classified
    <3> QED BY <2>2, <3>1, <3>2, ClassProperties
  <2> QED BY <2>1, <2>2
<1> QED BY <1>1, MapperInvariant, PTL

\* Exactly the transient failures are retried, whatever status, message and name they carry.
THEOREM RetriesAreRight == MapperSpec => []RetriedExactlyIfTransient
<1>1. MapperInv => RetriedExactlyIfTransient
  <2> SUFFICES ASSUME MapperInv, Classified, ~ isUnparseable(raw)
               PROVE  retryable(thrown) <=>
                        /\ ~ isResourceExhausted(provider, Status, raw)
                        /\ \/ isRateLimit(provider, Status, raw)
                           \/ Status >= 500
                           \/ NoStatus /\ (isHttpClientError(provider, raw) \/ "network" \in raw.message)
    BY DEF RetriedExactlyIfTransient
  <2>1. provider \in Providers /\ raw \in RawErrors
    BY DEF MapperInv
  <2>2. NoStatus <=> Status = NoCode
    BY <2>1, ProbeFinds DEF NoStatus, Status, probed, Probed
  <2>3. mapped = classifyLlmError(provider, raw)
        /\ thrown = IF mapped = "undefined" THEN "LlmServiceError" ELSE mapped
    BY DEF MapperInv, Classified
  <2>4. retryable(thrown) <=> mapped \in {"RateLimitError", "ProviderServerError", "NetworkError"}
    BY <2>3, ClassType, ClassProperties
  <2> QED BY <2>1, <2>2, <2>3, <2>4, ClassIsRetriable DEF Status
<1> QED BY <1>1, MapperInvariant, PTL

\* An error with one numeric status, where both providers look, has the same status and
\* no string status for both.
LEMMA SameStatus ==
    ASSUME NEW e \in RawErrors,
           \A q \in Paths : e.at[q] = Undefined \/ e.at[q].type = "number",
           e.at["error.status"] = Undefined, e.at["error.code"] = Undefined,
           \A q, r \in Paths : e.at[q] # Undefined /\ e.at[r] # Undefined => q = r
    PROVE  extractStatusCode("gemini", e) = extractStatusCode("mistral", e)
<1> DEFINE g == extractStatusCode("gemini", e)
           m == extractStatusCode("mistral", e)
<1>1. /\ g \in Nat \cup {NoCode} /\ m \in Nat \cup {NoCode}
      /\ g = NoCode <=> \A q \in Probed("gemini") : e.at[q].num \in {NoCode, 0}
      /\ m = NoCode <=> \A q \in Probed("mistral") : e.at[q].num \in {NoCode, 0}
      /\ g # NoCode => \E q \in Probed("gemini") : g = e.at[q].num /\ e.at[q].num # 0
      /\ m # NoCode => \E q \in Probed("mistral") : m = e.at[q].num /\ e.at[q].num # 0
  BY ProbeFinds DEF Providers
<1> HIDE DEF g, m
<1>2. Undefined.num = NoCode
  BY DEF Undefined
<1>3. Probed("gemini") = Paths /\ Probed("mistral") = Paths \ {"error.status", "error.code"}
  BY DEF Probed
<1>4. \A q \in Paths \ Probed("mistral") : e.at[q].num = NoCode
  BY <1>2, <1>3
<1>5. g = NoCode <=> m = NoCode
  BY <1>1, <1>3, <1>4
<1>6. ASSUME g # NoCode PROVE g = m
  <2>1. PICK q \in Paths : g = e.at[q].num
    BY <1>1, <1>3, <1>6
  <2>2. PICK r \in Paths : m = e.at[r].num
    BY <1>1, <1>3, <1>5, <1>6
  <2>3. e.at[q] # Undefined /\ e.at[r] # Undefined
    BY <1>2, <1>5, <1>6, <2>1, <2>2
  <2> QED BY <2>1, <2>2, <2>3
<1> QED BY <1>5, <1>6 DEF g, m

\* Gemini and Mistral classify alike what both can read.
THEOREM ProvidersAgreeAlways == MapperSpec => []ProvidersAgree
<1>1. MapperInv => ProvidersAgree
  <2> DEFINE p == CHOOSE q \in Providers : q # provider
             present == {q \in Paths : raw.at[q] # Undefined}
  <2> SUFFICES ASSUME MapperInv, Classified, ~ isUnparseable(raw),
                      present \subseteq {"status", "statusCode", "code", "response.status"},
                      \A q, r \in present : q = r,
                      \A q \in present : raw.at[q].type = "number",
                      raw.name # "HttpClientError"
               PROVE  mapped = classifyLlmError(p, raw)
    BY DEF ProvidersAgree
  <2>1. raw \in RawErrors /\ mapped = classifyLlmError(provider, raw)
    BY DEF MapperInv, Classified
  <2>2. provider \in Providers /\ p \in Providers
    BY DEF MapperInv, Providers
  <2>3. /\ raw.at["error.status"] = Undefined /\ raw.at["error.code"] = Undefined
        /\ \A q \in Paths : raw.at[q] = Undefined \/ raw.at[q].type = "number"
        /\ \A q, r \in Paths : raw.at[q] # Undefined /\ raw.at[r] # Undefined => q = r
    BY DEF Paths
  <2>4. extractStatusCode("gemini", raw) = extractStatusCode("mistral", raw)
    BY <2>1, <2>3, SameStatus
  <2>5. extractStatusCode(p, raw) = extractStatusCode(provider, raw)
    BY <2>2, <2>4 DEF Providers
  <2>6. \A q \in Paths : raw.at[q].type # "string"
    <3>1. Undefined.type = "undefined"
      BY DEF Undefined
    <3> QED BY <2>3, <3>1
  <2>7. \A x, t : ~ hasStringStatus(x, raw, t) /\ ~ isHttpClientError(x, raw)
    BY <2>6 DEF hasStringStatus, isHttpClientError, Paths
  <2>8. \A c : applies(c, p, raw) <=> applies(c, provider, raw)
    BY <2>5, <2>7 DEF applies, isResourceExhausted, isRateLimit
  <2>9. hits(p, raw) = hits(provider, raw)
    BY <2>8 DEF hits
  <2> QED BY <2>1, <2>9 DEF classifyLlmError
<1> QED BY <1>1, MapperInvariant, PTL
================================================================================
