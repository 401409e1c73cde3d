--------------------------- MODULE ArticleBodyProofs ---------------------------
(***************************************************************************)
(* Proofs about ArticleBody and the decoder and sniffer in it, for every    *)
(* set of lines, table of headers and cutting of an article into pieces.    *)
(* An induction over bytes or lines is one over how many there are, written  *)
(* as a set of numbers that has zero and is closed under successor.         *)
(***************************************************************************)
EXTENDS ArticleBody, SequenceTheorems, FiniteSetTheorems, WellFoundedInduction, TLAPS

LEMMA Induction ==
    ASSUME NEW T \in SUBSET Nat, 0 \in T, \A n \in T : n + 1 \in T
    PROVE  T = Nat
<1> SUFFICES ASSUME Nat \ T # {} PROVE FALSE
  OBVIOUS
<1>1. PICK i \in Nat \ T : \A j \in Nat \ T : <<j, i>> \notin OpToRel(<, Nat)
  BY WFMin, NatLessThanWellFounded
<1>2. \A j \in Nat \ T : ~(j < i)
  BY <1>1 DEF OpToRel
<1>3. i \in Nat /\ i \notin T
  OBVIOUS
<1>4. i - 1 \in T
  BY <1>2, <1>3
<1> QED  BY <1>3, <1>4

-----------------------------------------------------------------------------
\* FlattenSeq

Flattens(f, ss, n) == f = [i \in 1 .. n |-> IF i = 1 THEN ss[i] ELSE f[i - 1] \o ss[i]]

LEMMA FlattensExists ==
    ASSUME NEW ss
    PROVE  \A n \in Nat : \E f : Flattens(f, ss, n)
<1> DEFINE T == {n \in Nat : \E f : Flattens(f, ss, n)}
<1>1. 0 \in T
  <2>1. Flattens([i \in 1 .. 0 |-> <<>>], ss, 0)
    BY DEF Flattens
  <2> QED  BY <2>1
<1>2. ASSUME NEW n \in T PROVE n + 1 \in T
  <2>1. PICK f : Flattens(f, ss, n)
    OBVIOUS
  <2> DEFINE g == [i \in 1 .. n + 1 |->
                     IF i = 1 THEN ss[i] ELSE f[i - 1] \o ss[i]]
  <2> n \in Nat
    OBVIOUS
  <2> HIDE DEF T
  <2>2. \A i \in 1 .. n : g[i] = f[i]
    <3>1. \A i \in 1 .. n : f[i] = IF i = 1 THEN ss[i] ELSE f[i - 1] \o ss[i]
      BY <2>1 DEF Flattens
    <3> QED  BY <3>1
  <2>3. \A i \in 1 .. n + 1 : i # 1 => i - 1 \in 1 .. n
    OBVIOUS
  <2>4. Flattens(g, ss, n + 1)
    BY <2>2, <2>3 DEF Flattens
  <2> QED  BY <2>4 DEF T
<1> HIDE DEF T
<1>3. T = Nat
  BY <1>1, <1>2, Induction DEF T
<1> QED  BY <1>3 DEF T

LEMMA FlattenDef ==
    ASSUME NEW S, NEW ss \in Seq(S), Len(ss) # 0
    PROVE  \E f : /\ FlattenSeq(ss) = f[Len(ss)]
                  /\ \A i \in 1 .. Len(ss) :
                        f[i] = IF i = 1 THEN ss[i] ELSE f[i - 1] \o ss[i]
<1> DEFINE f == CHOOSE f : Flattens(f, ss, Len(ss))
<1>1. Flattens(f, ss, Len(ss))
  <2>1. \E h : Flattens(h, ss, Len(ss))
    BY FlattensExists
  <2> QED  BY <2>1, Zenon
<1>2. FlattenSeq(ss) = f[Len(ss)]
  BY DEF FlattenSeq, Flattens
<1> HIDE DEF f
<1>3. \A i \in 1 .. Len(ss) : f[i] = IF i = 1 THEN ss[i] ELSE f[i - 1] \o ss[i]
  BY <1>1 DEF Flattens
<1> QED  BY <1>2, <1>3

LEMMA FlattenEmpty == FlattenSeq(<<>>) = <<>>
BY DEF FlattenSeq

\* What it does for one sequence more.
LEMMA FlattenAppend ==
    ASSUME NEW S, NEW ss \in Seq(Seq(S)), NEW s \in Seq(S)
    PROVE  FlattenSeq(Append(ss, s)) = FlattenSeq(ss) \o s
<1> DEFINE n  == Len(ss)
           tt == Append(ss, s)
<1>1. n \in Nat /\ tt \in Seq(Seq(S)) /\ Len(tt) = n + 1 /\ tt[n + 1] = s
      /\ \A i \in 1 .. n : tt[i] = ss[i]
  OBVIOUS
<1>2. PICK g : /\ FlattenSeq(tt) = g[n + 1]
               /\ \A i \in 1 .. n + 1 : g[i] = IF i = 1 THEN tt[i] ELSE g[i - 1] \o tt[i]
  <2> HIDE DEF tt, n
  <2>1. Len(tt) # 0
    BY <1>1
  <2>2. \E f : /\ FlattenSeq(tt) = f[Len(tt)]
               /\ \A i \in 1 .. Len(tt) :
                     f[i] = IF i = 1 THEN tt[i] ELSE f[i - 1] \o tt[i]
    BY <1>1, <2>1, FlattenDef
  <2> QED  BY <1>1, <2>2
<1>3. CASE n = 0
  <2>1. FlattenSeq(tt) = s
    BY <1>1, <1>2, <1>3
  <2>2. ss = <<>>
    BY <1>3, EmptySeq
  <2>3. FlattenSeq(ss) \o s = s
    BY <2>2, FlattenEmpty, ConcatEmptySeq
  <2> QED  BY <2>1, <2>3
<1>4. CASE n # 0
  <2>1. PICK f : /\ FlattenSeq(ss) = f[n]
                 /\ \A i \in 1 .. n : f[i] = IF i = 1 THEN ss[i] ELSE f[i - 1] \o ss[i]
    BY <1>4, FlattenDef
  <2> DEFINE T == {i \in Nat : i \in 1 .. n => g[i] = f[i]}
  <2> HIDE DEF tt, n
  <2>2. ASSUME NEW i \in T PROVE i + 1 \in T
    <3> SUFFICES ASSUME i + 1 \in 1 .. n PROVE g[i + 1] = f[i + 1]
      OBVIOUS
    <3>1. /\ g[i + 1] = IF i + 1 = 1 THEN tt[i + 1] ELSE g[i] \o tt[i + 1]
          /\ f[i + 1] = IF i + 1 = 1 THEN ss[i + 1] ELSE f[i] \o ss[i + 1]
      BY <1>1, <1>2, <2>1
    <3>2. i # 0 => g[i] = f[i]
      BY <1>1
    <3> QED  BY <1>1, <3>1, <3>2
  <2>3. 0 \in T
    OBVIOUS
  <2> HIDE DEF T
  <2>4. T = Nat
    BY <2>2, <2>3, Induction DEF T
  <2>5. g[n] = f[n]
    BY <1>1, <1>4, <2>4 DEF T
  <2>6. g[n + 1] = g[n] \o tt[n + 1]
    <3>1. n + 1 \in 1 .. n + 1 /\ n + 1 # 1 /\ (n + 1) - 1 = n
      BY <1>1, <1>4
    <3> QED  BY <1>2, <3>1
  <2>7. FlattenSeq(tt) = FlattenSeq(ss) \o s
    BY <1>1, <1>2, <2>1, <2>5, <2>6
  <2> QED  BY <2>7 DEF tt
<1> QED  BY <1>3, <1>4

LEMMA FlattenType ==
    ASSUME NEW S, NEW ss \in Seq(Seq(S))
    PROVE  FlattenSeq(ss) \in Seq(S)
<1> DEFINE T == {n \in Nat : \A tt \in Seq(Seq(S)) : Len(tt) = n => FlattenSeq(tt) \in Seq(S)}
<1>1. 0 \in T
  <2>1. \A tt \in Seq(Seq(S)) : Len(tt) = 0 => tt = <<>>
    BY EmptySeq
  <2> QED  BY <2>1, FlattenEmpty
<1>2. ASSUME NEW n \in T PROVE n + 1 \in T
  <2> SUFFICES ASSUME NEW tt \in Seq(Seq(S)), Len(tt) = n + 1
               PROVE  FlattenSeq(tt) \in Seq(S)
    OBVIOUS
  <2> DEFINE rest == SubSeq(tt, 1, n)
  <2>1. rest \in Seq(Seq(S)) /\ Len(rest) = n /\ tt[n + 1] \in Seq(S)
        /\ tt = Append(rest, tt[n + 1])
    OBVIOUS
  <2>2. FlattenSeq(rest) \in Seq(S)
    BY <2>1
  <2> HIDE DEF rest
  <2>3. FlattenSeq(tt) = FlattenSeq(rest) \o tt[n + 1]
    BY <2>1, FlattenAppend
  <2> QED  BY <2>1, <2>2, <2>3
<1> HIDE DEF T
<1>3. T = Nat
  BY <1>1, <1>2, Induction DEF T
<1> QED  BY <1>3 DEF T

-----------------------------------------------------------------------------
\* decodeline, which is FoldLeft of DecodeByte

LEMMA MaxOf ==
    ASSUME NEW n \in Nat, NEW S \in SUBSET (1 .. n), S # {}
    PROVE  Max(S) \in S /\ \A y \in S : Max(S) >= y
<1> DEFINE HasMax(m) == \A R \in SUBSET (1 .. m) :
                            R # {} => \E x \in R : \A y \in R : x >= y
           T == {m \in Nat : HasMax(m)}
<1>1. 0 \in T
  <2>1. 1 .. 0 = {}
    OBVIOUS
  <2> QED  BY <2>1
<1>2. ASSUME NEW m \in T PROVE m + 1 \in T
  <2> SUFFICES ASSUME NEW R \in SUBSET (1 .. m + 1), R # {}
               PROVE  \E x \in R : \A y \in R : x >= y
    OBVIOUS
  <2>1. CASE m + 1 \in R
    BY <2>1
  <2>2. CASE m + 1 \notin R
    <3>1. R \in SUBSET (1 .. m)
      BY <2>2
    <3> QED  BY <3>1
  <2> QED  BY <2>1, <2>2
<1> HIDE DEF T
<1>3. T = Nat
  BY <1>1, <1>2, Induction DEF T
<1>4. \E x \in S : \A y \in S : x >= y
  BY <1>3 DEF T
<1> QED  BY <1>4 DEF Max

Folds(it, base, bytes, D) ==
    it = [S \in SUBSET D |-> IF S = {} THEN base
                             ELSE DecodeByte(it[S \ {Max(S)}], bytes[Max(S)])]

LEMMA FoldsExists ==
    ASSUME NEW base, NEW bytes
    PROVE  \A n \in Nat : \E it : Folds(it, base, bytes, 1 .. n)
<1> DEFINE T == {n \in Nat : \E it : Folds(it, base, bytes, 1 .. n)}
           F(it, n) == [S \in SUBSET (1 .. n) |-> IF S = {} THEN base
                             ELSE DecodeByte(it[S \ {Max(S)}], bytes[Max(S)])]
<1>1. 0 \in T
  <2> DEFINE it == [S \in SUBSET (1 .. 0) |-> base]
  <2>1. \A S \in SUBSET (1 .. 0) : S = {}
    OBVIOUS
  <2>2. Folds(it, base, bytes, 1 .. 0)
    BY <2>1 DEF Folds
  <2> QED  BY <2>2
<1>2. ASSUME NEW n \in T PROVE n + 1 \in T
  <2> n \in Nat
    OBVIOUS
  <2>1. PICK it : Folds(it, base, bytes, 1 .. n)
    OBVIOUS
  <2> HIDE DEF T
  <2> DEFINE g == F(it, n + 1)
  <2>2. ASSUME NEW S \in SUBSET (1 .. n)
        PROVE  g[S] = it[S]
    <3>1. S \in SUBSET (1 .. n + 1)
      OBVIOUS
    <3>2. it[S] = IF S = {} THEN base ELSE DecodeByte(it[S \ {Max(S)}], bytes[Max(S)])
      BY <2>1 DEF Folds
    <3> QED  BY <3>1, <3>2
  <2>3. ASSUME NEW S \in SUBSET (1 .. n + 1), S # {}
        PROVE  S \ {Max(S)} \in SUBSET (1 .. n)
    <3>1. Max(S) \in S /\ \A y \in S : Max(S) >= y
      <4>1. n + 1 \in Nat
        OBVIOUS
      <4> QED  BY <2>3, <4>1, MaxOf
    <3> DEFINE m == Max(S)
    <3> HIDE DEF m
    <3>2. m \in S /\ \A y \in S : m >= y
      BY <3>1 DEF m
    <3>3. S \ {m} \in SUBSET (1 .. n)
      BY <3>2
    <3> QED  BY <3>3 DEF m
  <2> HIDE DEF g
  <2>4. g = F(g, n + 1)
    <3>1. \A S \in SUBSET (1 .. n + 1) : S # {} => g[S \ {Max(S)}] = it[S \ {Max(S)}]
      BY <2>2, <2>3
    <3> QED  BY <3>1, Zenon DEF g
  <2>5. Folds(g, base, bytes, 1 .. n + 1)
    BY <2>4 DEF Folds
  <2> QED  BY <2>5 DEF T
<1> HIDE DEF T
<1>3. T = Nat
  BY <1>1, <1>2, Induction DEF T
<1> QED  BY <1>3 DEF T

LEMMA decodelineDef ==
    ASSUME NEW S, NEW bytes \in Seq(S), NEW c
    PROVE  \E it : /\ decodeline(bytes, c) = it[1 .. Len(bytes)]
                   /\ it[{}] = [out |-> <<>>, critical |-> c]
                   /\ \A n \in 1 .. Len(bytes) :
                        it[1 .. n] = DecodeByte(it[1 .. n - 1], bytes[n])
<1> DEFINE base == [out |-> <<>>, critical |-> c]
           it == CHOOSE it : Folds(it, base, bytes, DOMAIN bytes)
           N == 1 .. Len(bytes)
<1>1. DOMAIN bytes = N /\ Len(bytes) \in Nat
  OBVIOUS
<1>2. Folds(it, base, bytes, DOMAIN bytes)
  <2>1. \E h : Folds(h, base, bytes, DOMAIN bytes)
    BY <1>1, FoldsExists
  <2> QED  BY <2>1, Zenon
<1>3. decodeline(bytes, c) = it[DOMAIN bytes]
  BY DEF decodeline, FoldLeft, MapThenFoldSet, Folds
<1> HIDE DEF it, base
<1>4. \A S1 \in SUBSET N : it[S1] = IF S1 = {} THEN base
                             ELSE DecodeByte(it[S1 \ {Max(S1)}], bytes[Max(S1)])
  BY <1>1, <1>2 DEF Folds
<1>5. it[{}] = base
  BY <1>4
<1>6. ASSUME NEW n \in N
      PROVE  it[1 .. n] = DecodeByte(it[1 .. n - 1], bytes[n])
  <2>1. /\ n \in Nat /\ n \in 1 .. n /\ 1 .. n # {}
        /\ (1 .. n) \in SUBSET N
    <3>1. n \in Nat /\ 1 <= n /\ n <= Len(bytes)
      BY <1>1
    <3>2. n \in 1 .. n
      BY <3>1
    <3>3. \A i \in 1 .. n : i \in N
      BY <1>1, <3>1
    <3> HIDE DEF N
    <3> QED  BY <3>1, <3>2, <3>3
  <2>2. Max(1 .. n) \in 1 .. n /\ \A y \in 1 .. n : Max(1 .. n) >= y
    BY <1>1, <2>1, MaxOf
  <2>3. Max(1 .. n) = n /\ (1 .. n) \ {n} = 1 .. n - 1
    BY <1>1, <2>1, <2>2
  <2> QED  BY <1>4, <2>1, <2>3
<1> QED  BY <1>1, <1>3, <1>5, <1>6 DEF base

LEMMA decodelineEmpty ==
    ASSUME NEW c
    PROVE  decodeline(<<>>, c) = [out |-> <<>>, critical |-> c]
<1> DEFINE none == <<>>
<1> none \in Seq(Nat) /\ Len(none) = 0 /\ 1 .. 0 = {}
  OBVIOUS
<1> HIDE DEF none
<1>1. \E it : /\ decodeline(none, c) = it[1 .. Len(none)]
              /\ it[{}] = [out |-> <<>>, critical |-> c]
              /\ \A n \in 1 .. Len(none) :
                    it[1 .. n] = DecodeByte(it[1 .. n - 1], none[n])
  <2>1. none \in Seq(Nat)
    OBVIOUS
  <2> QED  BY <2>1, decodelineDef, Zenon
<1>2. PICK it : decodeline(none, c) = it[1 .. Len(none)]
                /\ it[{}] = [out |-> <<>>, critical |-> c]
  BY <1>1, Zenon
<1>3. decodeline(none, c) = [out |-> <<>>, critical |-> c]
  BY <1>2
<1> QED  BY <1>3 DEF none

LEMMA decodelineAppend ==
    ASSUME NEW S, NEW bytes \in Seq(S), NEW x \in S, NEW c
    PROVE  decodeline(Append(bytes, x), c) = DecodeByte(decodeline(bytes, c), x)
<1> DEFINE n == Len(bytes)
           more == Append(bytes, x)
<1>1. /\ n \in Nat /\ more \in Seq(S) /\ Len(more) = n + 1 /\ more[n + 1] = x
      /\ \A i \in 1 .. n : more[i] = bytes[i]
  OBVIOUS
<1>2. PICK f : /\ decodeline(bytes, c) = f[1 .. n]
               /\ f[{}] = [out |-> <<>>, critical |-> c]
               /\ \A i \in 1 .. n : f[1 .. i] = DecodeByte(f[1 .. i - 1], bytes[i])
  BY decodelineDef
<1>3. PICK g : /\ decodeline(more, c) = g[1 .. n + 1]
               /\ g[{}] = [out |-> <<>>, critical |-> c]
               /\ \A i \in 1 .. n + 1 : g[1 .. i] = DecodeByte(g[1 .. i - 1], more[i])
  <2> HIDE DEF more, n
  <2> more \in Seq(S)
    BY <1>1
  <2>1. \E g : /\ decodeline(more, c) = g[1 .. Len(more)]
               /\ g[{}] = [out |-> <<>>, critical |-> c]
               /\ \A i \in 1 .. Len(more) : g[1 .. i] = DecodeByte(g[1 .. i - 1], more[i])
    BY decodelineDef
  <2> QED  BY <1>1, <2>1
<1> DEFINE T == {i \in Nat : i <= n => g[1 .. i] = f[1 .. i]}
<1> HIDE DEF more, n
<1>4. 0 \in T
  <2>1. 1 .. 0 = {}
    OBVIOUS
  <2> QED  BY <1>2, <1>3, <2>1
<1>5. ASSUME NEW i \in T PROVE i + 1 \in T
  <2> SUFFICES ASSUME i + 1 <= n PROVE g[1 .. i + 1] = f[1 .. i + 1]
    OBVIOUS
  <2>1. i \in Nat /\ i + 1 \in 1 .. n /\ i + 1 \in 1 .. n + 1 /\ (i + 1) - 1 = i
    BY <1>1
  <2>2. g[1 .. i] = f[1 .. i] /\ more[i + 1] = bytes[i + 1]
    BY <1>1, <2>1
  <2>3. /\ g[1 .. i + 1] = DecodeByte(g[1 .. i], more[i + 1])
        /\ f[1 .. i + 1] = DecodeByte(f[1 .. i], bytes[i + 1])
    BY <1>2, <1>3, <2>1
  <2> QED  BY <2>2, <2>3
<1> HIDE DEF T
<1>6. T = Nat
  BY <1>4, <1>5, Induction DEF T
<1>7. g[1 .. n] = f[1 .. n]
  BY <1>1, <1>6 DEF T
<1>8. n + 1 \in 1 .. n + 1 /\ (n + 1) - 1 = n
  BY <1>1
<1>9. g[1 .. n + 1] = DecodeByte(g[1 .. n], more[n + 1])
  BY <1>3, <1>8
<1>10. decodeline(more, c) = DecodeByte(decodeline(bytes, c), x)
  BY <1>1, <1>2, <1>3, <1>7, <1>9
<1> QED  BY <1>10 DEF more

LEMMA ConcatAppend ==
    ASSUME NEW S, NEW s \in Seq(S), NEW t \in Seq(S), NEW x \in S
    PROVE  s \o Append(t, x) = Append(s \o t, x)
<1>1. s \o t \in Seq(S) /\ <<x>> \in Seq(S)
  OBVIOUS
<1>2. Append(t, x) = t \o <<x>> /\ Append(s \o t, x) = (s \o t) \o <<x>>
  BY <1>1, AppendIsConcat
<1> QED  BY <1>1, <1>2, ConcatAssociative

LEMMA LastAppended ==
    ASSUME NEW S, NEW n \in Nat, NEW s \in Seq(S), Len(s) = n + 1
    PROVE  s = Append(SubSeq(s, 1, n), s[n + 1])
<1> DEFINE r == SubSeq(s, 1, n)
           x == s[n + 1]
           t == Append(r, x)
<1>1. r \in Seq(S) /\ Len(r) = n /\ x \in S /\ \A i \in 1 .. n : r[i] = s[i]
  OBVIOUS
<1> HIDE DEF r
<1>2. /\ t \in Seq(S) /\ Len(t) = n + 1 /\ t[n + 1] = x
      /\ \A i \in 1 .. n : t[i] = r[i]
  <2> HIDE DEF x
  <2> QED  BY <1>1, AppendProperties
<1> HIDE DEF t
<1>3. \A i \in 1 .. n + 1 : t[i] = s[i]
  <2>1. \A i \in 1 .. n + 1 : i \in 1 .. n \/ i = n + 1
    OBVIOUS
  <2> QED  BY <1>1, <1>2, <2>1
<1>4. t = s
  BY <1>2, <1>3, SeqEqual
<1> QED  BY <1>4 DEF t, r

LEMMA SeqInduction ==
    ASSUME NEW S, NEW T \in SUBSET Seq(S), <<>> \in T,
           \A s \in T, x \in S : Append(s, x) \in T
    PROVE  T = Seq(S)
<1> DEFINE N == {n \in Nat : \A s \in Seq(S) : Len(s) = n => s \in T}
<1>1. 0 \in N
  BY EmptySeq
<1>2. ASSUME NEW n \in N PROVE n + 1 \in N
  <2> SUFFICES ASSUME NEW s \in Seq(S), Len(s) = n + 1 PROVE s \in T
    OBVIOUS
  <2> DEFINE r == SubSeq(s, 1, n)
  <2> n \in Nat
    OBVIOUS
  <2>1. r \in Seq(S) /\ Len(r) = n /\ s[n + 1] \in S
    OBVIOUS
  <2>2. s = Append(r, s[n + 1])
    BY LastAppended
  <2>3. r \in T
    BY <2>1
  <2> HIDE DEF r, N
  <2> QED  BY <2>1, <2>2, <2>3
<1> HIDE DEF N
<1>3. N = Nat
  BY <1>1, <1>2, Induction DEF N
<1>4. \A s \in Seq(S) : Len(s) \in Nat
  OBVIOUS
<1> QED  BY <1>3, <1>4 DEF N

Decodings == [out : Seq(Byte), critical : BOOLEAN]

LEMMA DecodeByteDef ==
    ASSUME NEW st \in Decodings, NEW x \in Byte
    PROVE  /\ DecodeByte(st, x) \in Decodings
           /\ DecodeByte(st, x).critical <=> ~st.critical /\ x = Escape
           /\ DecodeByte(st, x).out =
                IF st.critical THEN Append(st.out, (x + 150) % 256)
                ELSE IF x = Escape THEN st.out ELSE Append(st.out, (x + 214) % 256)
<1> DEFINE u == (x + 150) % 256
           v == (x + 214) % 256
           out == st.out
<1>1. decodeMap(x) = v /\ criticalDecodeMap(x) = u
  BY DEF decodeMap, criticalDecodeMap, Byte
<1>2. u \in Byte /\ v \in Byte
  BY DEF Byte
<1>3. /\ out \in Seq(Byte) /\ st.critical \in BOOLEAN
      /\ st = [out |-> out, critical |-> st.critical]
  BY DEF Decodings
<1> HIDE DEF u, v, out
<1>4. Append(out, u) \in Seq(Byte) /\ Append(out, v) \in Seq(Byte)
  BY <1>2, <1>3, AppendProperties
<1> DEFINE d == DecodeByte(st, x)
           Goal == /\ d \in Decodings
                   /\ d.critical <=> ~st.critical /\ x = Escape
                   /\ d.out = IF st.critical THEN Append(out, u)
                              ELSE IF x = Escape THEN out ELSE Append(out, v)
<1>5. ASSUME st.critical PROVE Goal
  <2>1. d = [out |-> Append(out, u), critical |-> FALSE]
    BY <1>1, <1>5 DEF DecodeByte, out
  <2>2. d \in Decodings
    BY <1>4, <2>1 DEF Decodings
  <2> HIDE DEF d
  <2>3. d.out = Append(out, u) /\ d.critical = FALSE
    BY <2>1
  <2> QED  BY <1>5, <2>2, <2>3
<1>6. ASSUME ~st.critical, x = Escape PROVE Goal
  <2>1. d = [out |-> out, critical |-> TRUE]
    <3>1. d = [st EXCEPT !.critical = TRUE]
      BY <1>6 DEF DecodeByte
    <3> DEFINE c == st.critical
    <3> HIDE DEF d, c
    <3>2. st = [out |-> out, critical |-> c]
      BY <1>3 DEF c
    <3> QED  BY <3>1, <3>2
  <2>2. d \in Decodings
    BY <1>3, <2>1 DEF Decodings
  <2> HIDE DEF d
  <2>3. d.out = out /\ d.critical = TRUE
    BY <2>1
  <2> QED  BY <1>6, <2>2, <2>3
<1>7. ASSUME ~st.critical, x # Escape PROVE Goal
  <2>1. d = [out |-> Append(out, v), critical |-> FALSE]
    <3>1. d = [st EXCEPT !.out = Append(out, v)]
      BY <1>1, <1>7 DEF DecodeByte, out
    <3>2. st = [out |-> out, critical |-> FALSE]
      BY <1>3, <1>7
    <3> HIDE DEF d
    <3> QED  BY <3>1, <3>2
  <2>2. d \in Decodings
    BY <1>4, <2>1 DEF Decodings
  <2> HIDE DEF d
  <2>3. d.out = Append(out, v) /\ d.critical = FALSE
    BY <2>1
  <2> QED  BY <1>7, <2>2, <2>3
<1> HIDE DEF d
<1>8. Goal
  BY <1>5, <1>6, <1>7
<1> QED  BY <1>8 DEF d, u, v, out

LEMMA decodelineType ==
    ASSUME NEW bytes \in Seq(Byte), NEW c \in BOOLEAN
    PROVE  decodeline(bytes, c) \in Decodings
<1> DEFINE T == {s \in Seq(Byte) : decodeline(s, c) \in Decodings}
<1>1. <<>> \in T
  <2>1. decodeline(<<>>, c) = [out |-> <<>>, critical |-> c]
    BY decodelineEmpty
  <2>2. [out |-> <<>>, critical |-> c] \in Decodings /\ <<>> \in Seq(Byte)
    BY DEF Decodings
  <2> QED  BY <2>1, <2>2
<1>2. ASSUME NEW s \in T, NEW x \in Byte PROVE Append(s, x) \in T
  <2>1. decodeline(Append(s, x), c) = DecodeByte(decodeline(s, c), x)
    BY decodelineAppend
  <2> QED  BY <2>1, DecodeByteDef
<1> HIDE DEF T
<1>3. T = Seq(Byte)
  BY <1>1, <1>2, SeqInduction DEF T
<1> QED  BY <1>3 DEF T

\* A line decodes as it does in two pieces, the second from where the first ends.
LEMMA decodelineConcat ==
    ASSUME NEW xs \in Seq(Byte), NEW ys \in Seq(Byte), NEW c \in BOOLEAN
    PROVE  LET d == decodeline(xs, c)
               e == decodeline(ys, d.critical)
           IN  decodeline(xs \o ys, c) = [out |-> d.out \o e.out, critical |-> e.critical]
<1> DEFINE d == decodeline(xs, c)
           E(s) == decodeline(s, d.critical)
           T == {s \in Seq(Byte) : decodeline(xs \o s, c) =
                    [out |-> d.out \o E(s).out, critical |-> E(s).critical]}
<1>1. d \in Decodings
  BY decodelineType
<1> HIDE DEF d
<1>2. d.critical \in BOOLEAN /\ d.out \in Seq(Byte)
  BY <1>1 DEF Decodings
<1>3. <<>> \in T
  <2>1. E(<<>>) = [out |-> <<>>, critical |-> d.critical]
    BY decodelineEmpty
  <2>2. xs \o <<>> = xs /\ d.out \o <<>> = d.out
    BY <1>2, ConcatEmptySeq
  <2>3. d = [out |-> d.out, critical |-> d.critical]
    BY <1>1 DEF Decodings
  <2>4. E(<<>>).out = <<>> /\ E(<<>>).critical = d.critical
    BY <2>1
  <2>5. decodeline(xs \o <<>>, c) = d
    BY <2>2 DEF d
  <2> HIDE DEF E
  <2>6. <<>> \in Seq(Byte)
    OBVIOUS
  <2> QED  BY <2>2, <2>3, <2>4, <2>5, <2>6
<1>4. ASSUME NEW s \in T, NEW x \in Byte PROVE Append(s, x) \in T
  <2> DEFINE e == E(s)
             f == E(Append(s, x))
  <2>1. e \in Decodings
    BY <1>2, decodelineType
  <2>2. f = DecodeByte(e, x)
    BY decodelineAppend
  <2>3. decodeline(xs \o s, c) = [out |-> d.out \o e.out, critical |-> e.critical]
    OBVIOUS
  <2>4. xs \o Append(s, x) = Append(xs \o s, x) /\ xs \o s \in Seq(Byte)
        /\ Append(s, x) \in Seq(Byte)
    OBVIOUS
  <2>5. decodeline(xs \o Append(s, x), c) = DecodeByte(decodeline(xs \o s, c), x)
    BY <2>4, decodelineAppend
  <2> HIDE DEF T, e, f
  <2> DEFINE both == [out |-> d.out \o e.out, critical |-> e.critical]
  <2>6. both \in Decodings /\ both.critical = e.critical /\ both.out = d.out \o e.out
    BY <1>2, <2>1 DEF Decodings
  <2> HIDE DEF both
  <2>7. \A y \in Byte : d.out \o Append(e.out, y) = Append(d.out \o e.out, y)
    <3>1. e.out \in Seq(Byte) /\ d.out \in Seq(Byte)
      BY <1>2, <2>1 DEF Decodings
    <3> DEFINE p == d.out
               q == e.out
    <3> HIDE DEF p, q
    <3>2. p \in Seq(Byte) /\ q \in Seq(Byte)
      BY <3>1 DEF p, q
    <3>3. \A y \in Byte : p \o Append(q, y) = Append(p \o q, y)
      BY <3>2, ConcatAppend
    <3> QED  BY <3>3 DEF p, q
  <2>8. (x + 150) % 256 \in Byte /\ (x + 214) % 256 \in Byte
    BY DEF Byte
  <2> DEFINE g == DecodeByte(both, x)
  <2> DEFINE u == (x + 150) % 256
             v == (x + 214) % 256
  <2> HIDE DEF u, v
  <2>9. /\ g \in Decodings /\ f \in Decodings
        /\ g.critical <=> ~both.critical /\ x = Escape
        /\ g.out = IF both.critical THEN Append(both.out, u)
                   ELSE IF x = Escape THEN both.out ELSE Append(both.out, v)
        /\ f.critical <=> ~e.critical /\ x = Escape
        /\ f.out = IF e.critical THEN Append(e.out, u)
                   ELSE IF x = Escape THEN e.out ELSE Append(e.out, v)
    <3>1. /\ g \in Decodings
          /\ g.critical <=> ~both.critical /\ x = Escape
          /\ g.out = IF both.critical THEN Append(both.out, u)
                     ELSE IF x = Escape THEN both.out ELSE Append(both.out, v)
      BY <2>6, DecodeByteDef DEF u, v
    <3>2. /\ DecodeByte(e, x) \in Decodings
          /\ DecodeByte(e, x).critical <=> ~e.critical /\ x = Escape
          /\ DecodeByte(e, x).out = IF e.critical THEN Append(e.out, u)
                                    ELSE IF x = Escape THEN e.out ELSE Append(e.out, v)
      BY <2>1, DecodeByteDef DEF u, v
    <3> HIDE DEF g
    <3> QED  BY <2>2, <3>1, <3>2
  <2> HIDE DEF g
  <2>10. g.out = d.out \o f.out
    <3>1. /\ u \in Byte => d.out \o Append(e.out, u) = Append(d.out \o e.out, u)
          /\ v \in Byte => d.out \o Append(e.out, v) = Append(d.out \o e.out, v)
      BY <2>7
    <3>2. u \in Byte /\ v \in Byte
      BY <2>8 DEF u, v
    <3>3. CASE e.critical
      <4>1. g.out = Append(d.out \o e.out, u) /\ f.out = Append(e.out, u)
        BY <2>6, <2>9, <3>3
      <4> QED  BY <3>1, <3>2, <4>1
    <3>4. CASE ~e.critical /\ x = Escape
      <4>1. g.out = d.out \o e.out /\ f.out = e.out
        BY <2>6, <2>9, <3>4
      <4> QED  BY <4>1
    <3>5. CASE ~e.critical /\ x # Escape
      <4>1. g.out = Append(d.out \o e.out, v) /\ f.out = Append(e.out, v)
        BY <2>6, <2>9, <3>5
      <4> QED  BY <3>1, <3>2, <4>1
    <3> QED  BY <3>3, <3>4, <3>5
  <2>11. g.critical = f.critical
    <3>1. g.critical \in BOOLEAN /\ f.critical \in BOOLEAN
      BY <2>9 DEF Decodings
    <3>2. g.critical <=> f.critical
      BY <2>6, <2>9
    <3> QED  BY <3>1, <3>2
  <2>12. g = [out |-> d.out \o f.out, critical |-> f.critical]
    BY <2>9, <2>10, <2>11 DEF Decodings
  <2> QED  BY <2>3, <2>4, <2>5, <2>12 DEF T, both, f, g
<1> HIDE DEF T
<1>5. T = Seq(Byte)
  BY <1>3, <1>4, SeqInduction DEF T
<1> QED  BY <1>5 DEF T, d

-----------------------------------------------------------------------------
\* What the lines decode to is Plain

\* n escape characters precede place i, and no more.
Run(s, i, n) ==
    /\ n \in 0 .. i - 1
    /\ \A k \in i - n .. i - 1 : s[k] = Escape
    /\ i - n > 1 => s[i - n - 1] # Escape

LEMMA RunUnique ==
    ASSUME NEW s, NEW i \in Nat \ {0}, NEW m, NEW n, Run(s, i, m), Run(s, i, n)
    PROVE  m = n
<1>1. m \in 0 .. i - 1 /\ n \in 0 .. i - 1
  BY DEF Run
<1>2. ASSUME NEW p \in 0 .. i - 1, NEW q \in 0 .. i - 1, Run(s, i, p), Run(s, i, q)
      PROVE  ~(p < q)
  <2> SUFFICES ASSUME p < q PROVE FALSE
    OBVIOUS
  <2>1. i - p > 1 /\ i - p - 1 \in i - q .. i - 1
    OBVIOUS
  <2> QED  BY <1>2, <2>1 DEF Run
<1>3. ~(m < n) /\ ~(n < m)
  BY <1>1, <1>2
<1> QED  BY <1>1, <1>3

LEMMA RunGrows ==
    ASSUME NEW s, NEW i \in Nat \ {0}
    PROVE  /\ s[i] # Escape => Run(s, i + 1, 0)
           /\ \A n : Run(s, i, n) /\ s[i] = Escape => Run(s, i + 1, n + 1)
<1>1. ASSUME s[i] # Escape PROVE Run(s, i + 1, 0)
  <2>1. 0 \in 0 .. (i + 1) - 1 /\ (i + 1) - 0 .. (i + 1) - 1 = {} /\ (i + 1) - 0 - 1 = i
    OBVIOUS
  <2> QED  BY <1>1, <2>1 DEF Run
<1>2. ASSUME NEW n, Run(s, i, n), s[i] = Escape PROVE Run(s, i + 1, n + 1)
  <2>1. n \in 0 .. i - 1
    BY <1>2 DEF Run
  <2>2. /\ n + 1 \in 0 .. (i + 1) - 1 /\ (i + 1) - (n + 1) = i - n
        /\ \A k \in i - n .. (i + 1) - 1 : k \in i - n .. i - 1 \/ k = i
    BY <2>1
  <2>3. \A k \in i - n .. (i + 1) - 1 : s[k] = Escape
    BY <1>2, <2>2 DEF Run
  <2>4. i - n > 1 => s[i - n - 1] # Escape
    BY <1>2 DEF Run
  <2> QED  BY <2>2, <2>3, <2>4 DEF Run
<1> QED  BY <1>1, <1>2

LEMMA RunExists ==
    ASSUME NEW s, NEW i \in Nat \ {0}
    PROVE  \E n \in Nat : Run(s, i, n)
<1> DEFINE T == {j \in Nat : \E n \in Nat : Run(s, j + 1, n)}
<1>1. 0 \in T
  <2>1. Run(s, 1, 0)
    BY DEF Run
  <2> QED  BY <2>1
<1>2. ASSUME NEW j \in T PROVE j + 1 \in T
  <2>1. PICK n \in Nat : Run(s, j + 1, n)
    OBVIOUS
  <2>2. j + 1 \in Nat \ {0} /\ n + 1 \in Nat
    OBVIOUS
  <2>3. CASE s[j + 1] = Escape
    BY <2>1, <2>2, <2>3, RunGrows
  <2>4. CASE s[j + 1] # Escape
    BY <2>2, <2>4, RunGrows
  <2> QED  BY <2>3, <2>4
<1> HIDE DEF T
<1>3. T = Nat
  BY <1>1, <1>2, Induction DEF T
<1>4. i - 1 \in T /\ (i - 1) + 1 = i
  BY <1>3
<1> QED  BY <1>4 DEF T

LEMMA IsEscapeRun ==
    ASSUME NEW s, NEW i \in Nat \ {0}, NEW n, Run(s, i, n)
    PROVE  IsEscape(s, i) <=> s[i] = Escape /\ n % 2 = 0
<1>1. IsEscape(s, i) <=> s[i] = Escape /\ \E m \in 0 .. i - 1 : m % 2 = 0 /\ Run(s, i, m)
  BY DEF IsEscape, Run
<1>2. n \in 0 .. i - 1
  BY DEF Run
<1> QED  BY <1>1, <1>2, RunUnique

\* An escape is a = that no escape precedes.
LEMMA IsEscapeNext ==
    ASSUME NEW s, NEW i \in Nat \ {0}
    PROVE  IsEscape(s, i) <=> s[i] = Escape /\ ~(i > 1 /\ IsEscape(s, i - 1))
<1>1. CASE i = 1
  <2>1. Run(s, i, 0)
    BY <1>1 DEF Run
  <2> QED  BY <1>1, <2>1, IsEscapeRun
<1>2. CASE i > 1
  <2> DEFINE j == i - 1
  <2>1. j \in Nat \ {0} /\ j + 1 = i
    BY <1>2
  <2> HIDE DEF j
  <2>2. PICK n \in Nat : Run(s, j, n)
    BY <2>1, RunExists
  <2>3. IsEscape(s, j) <=> s[j] = Escape /\ n % 2 = 0
    BY <2>1, <2>2, IsEscapeRun
  <2>4. CASE s[j] = Escape
    <3>1. Run(s, i, n + 1)
      BY <2>1, <2>2, <2>4, RunGrows
    <3>2. IsEscape(s, i) <=> s[i] = Escape /\ (n + 1) % 2 = 0
      BY <3>1, IsEscapeRun
    <3>3. (n + 1) % 2 = 0 <=> ~(n % 2 = 0)
      OBVIOUS
    <3> QED  BY <1>2, <2>3, <2>4, <3>2, <3>3 DEF j
  <2>5. CASE s[j] # Escape
    <3>1. Run(s, i, 0)
      BY <2>1, <2>5, RunGrows
    <3>2. IsEscape(s, i) <=> s[i] = Escape
      BY <3>1, IsEscapeRun
    <3> QED  BY <1>2, <2>3, <2>5, <3>2 DEF j
  <2> QED  BY <2>4, <2>5
<1> QED  BY <1>1, <1>2

\* Whether there is an escape at a place depends on what precedes it.
LEMMA IsEscapeSame ==
    ASSUME NEW s, NEW t, NEW n \in Nat, \A i \in 1 .. n : s[i] = t[i]
    PROVE  \A i \in 1 .. n : IsEscape(s, i) <=> IsEscape(t, i)
<1> DEFINE T == {i \in Nat : i \in 1 .. n => (IsEscape(s, i) <=> IsEscape(t, i))}
<1>1. 0 \in T
  OBVIOUS
<1>2. ASSUME NEW i \in T PROVE i + 1 \in T
  <2> SUFFICES ASSUME i + 1 \in 1 .. n PROVE IsEscape(s, i + 1) <=> IsEscape(t, i + 1)
    OBVIOUS
  <2>1. i \in Nat /\ (i + 1) - 1 = i /\ i + 1 \in Nat \ {0}
    OBVIOUS
  <2>2. i + 1 > 1 => (IsEscape(s, i) <=> IsEscape(t, i))
    OBVIOUS
  <2>3. s[i + 1] = t[i + 1]
    OBVIOUS
  <2> HIDE DEF T
  <2>4. IsEscape(s, i + 1) <=> s[i + 1] = Escape /\ ~(i + 1 > 1 /\ IsEscape(s, i))
    BY <2>1, IsEscapeNext
  <2>5. IsEscape(t, i + 1) <=> t[i + 1] = Escape /\ ~(i + 1 > 1 /\ IsEscape(t, i))
    BY <2>1, IsEscapeNext
  <2> QED  BY <2>2, <2>3, <2>4, <2>5
<1> HIDE DEF T
<1>3. T = Nat
  BY <1>1, <1>2, Induction DEF T
<1> QED  BY <1>3 DEF T

Piece(s, i) == IF IsEscape(s, i) THEN <<>> ELSE <<(s[i] + 256 - Shift(s, i)) % 256>>

EndsInEscape(s) == Len(s) > 0 /\ IsEscape(s, Len(s))

LEMMA PlainAppend ==
    ASSUME NEW s \in Seq(Byte), NEW x \in Byte
    PROVE  /\ EndsInEscape(Append(s, x)) <=> x = Escape /\ ~EndsInEscape(s)
           /\ Plain(Append(s, x)) =
                Plain(s) \o (IF x = Escape /\ ~EndsInEscape(s) THEN <<>>
                             ELSE IF EndsInEscape(s) THEN <<(x + 150) % 256>>
                                                     ELSE <<(x + 214) % 256>>)
<1> DEFINE n == Len(s)
           t == Append(s, x)
           P(r) == [i \in DOMAIN r |-> Piece(r, i)]
           last == IF x = Escape /\ ~EndsInEscape(s) THEN <<>>
                   ELSE IF EndsInEscape(s) THEN <<(x + 150) % 256>> ELSE <<(x + 214) % 256>>
<1>1. /\ n \in Nat /\ t \in Seq(Byte) /\ Len(t) = n + 1 /\ t[n + 1] = x
      /\ DOMAIN s = 1 .. n /\ DOMAIN t = 1 .. n + 1
      /\ \A i \in 1 .. n : t[i] = s[i]
  OBVIOUS
<1> HIDE DEF t, n
<1>2. \A i \in 1 .. n : IsEscape(t, i) <=> IsEscape(s, i)
  BY <1>1, IsEscapeSame
<1>3. /\ n > 0 => (IsEscape(t, n) <=> IsEscape(s, n))
      /\ (n + 1) - 1 = n /\ n + 1 \in Nat \ {0} /\ (n + 1 > 1 <=> n > 0)
  BY <1>1, <1>2
<1>4. IsEscape(t, n + 1) <=> x = Escape /\ ~EndsInEscape(s)
  <2>1. IsEscape(t, n + 1) <=> t[n + 1] = Escape /\ ~(n + 1 > 1 /\ IsEscape(t, (n + 1) - 1))
    BY <1>3, IsEscapeNext
  <2> QED  BY <1>1, <1>3, <2>1 DEF EndsInEscape, n
<1>5. EndsInEscape(t) <=> x = Escape /\ ~EndsInEscape(s)
  BY <1>1, <1>4 DEF EndsInEscape
<1>6. \A i \in 1 .. n : Piece(t, i) = Piece(s, i)
  <2> SUFFICES ASSUME NEW i \in 1 .. n PROVE Piece(t, i) = Piece(s, i)
    OBVIOUS
  <2>1. i > 1 => i - 1 \in 1 .. n
    BY <1>1
  <2>2. Shift(t, i) = Shift(s, i)
    BY <1>2, <2>1 DEF Shift
  <2> QED  BY <1>1, <1>2, <2>2 DEF Piece
<1>7. Piece(t, n + 1) = last
  <2>1. Shift(t, n + 1) = IF EndsInEscape(s) THEN 106 ELSE 42
    BY <1>3 DEF Shift, EndsInEscape, n
  <2>2. x + 256 - 106 = x + 150 /\ x + 256 - 42 = x + 214
    BY DEF Byte
  <2> QED  BY <1>1, <1>4, <2>1, <2>2 DEF Piece
<1>8. \A i \in 1 .. n : Piece(s, i) \in Seq(Byte)
  <2> SUFFICES ASSUME NEW i \in 1 .. n, ~IsEscape(s, i) PROVE Piece(s, i) \in Seq(Byte)
    BY DEF Piece
  <2> DEFINE a == s[i] + 256 - Shift(s, i)
             y == a % 256
  <2>1. s[i] \in Byte /\ Shift(s, i) \in Int
    BY ElementOfSeq DEF Shift, n
  <2>2. a \in Int
    <3> DEFINE u == s[i]
               v == Shift(s, i)
    <3>1. u \in Int /\ v \in Int
      <4>1. \A w \in Byte : w \in Int
        BY DEF Byte
      <4> QED  BY <2>1, <4>1
    <3> HIDE DEF u, v
    <3>2. u + 256 - v \in Int
      BY <3>1
    <3> QED  BY <3>2 DEF u, v
  <2> HIDE DEF a
  <2>3. y \in Byte
    BY <2>2 DEF Byte
  <2> HIDE DEF y
  <2>4. <<y>> \in Seq(Byte)
    BY <2>3
  <2> QED  BY <2>4 DEF Piece, y, a
<1>9. last \in Seq(Byte)
  <2>1. (x + 150) % 256 \in Byte /\ (x + 214) % 256 \in Byte
    BY DEF Byte
  <2> QED  BY <2>1
<1> HIDE DEF last
<1>10. P(s) \in Seq(Seq(Byte)) /\ Len(P(s)) = n
  BY <1>1, <1>8
<1>11. P(t) = Append(P(s), last)
  <2>1. P(t) \in Seq(Seq(Byte)) /\ Len(P(t)) = n + 1
    <3>1. \A i \in 1 .. n + 1 : Piece(t, i) \in Seq(Byte)
      <4>1. \A i \in 1 .. n + 1 : i \in 1 .. n \/ i = n + 1
        BY <1>1
      <4> QED  BY <4>1, <1>6, <1>7, <1>8, <1>9
    <3> QED  BY <1>1, <3>1
  <2>2. /\ Append(P(s), last) \in Seq(Seq(Byte)) /\ Len(Append(P(s), last)) = n + 1
        /\ Append(P(s), last)[n + 1] = last
        /\ \A i \in 1 .. n : Append(P(s), last)[i] = P(s)[i]
    BY <1>9, <1>10, AppendProperties
  <2>3. \A i \in 1 .. n : P(s)[i] = P(t)[i]
    BY <1>1, <1>6
  <2>4. P(t)[n + 1] = last
    BY <1>1, <1>7
  <2>5. \A i \in 1 .. n + 1 : P(t)[i] = Append(P(s), last)[i]
    <3>1. \A i \in 1 .. n + 1 : i \in 1 .. n \/ i = n + 1
      BY <1>1
    <3> HIDE DEF P
    <3> QED  BY <2>2, <2>3, <2>4, <3>1
  <2> HIDE DEF P
  <2> QED  BY <2>1, <2>2, <2>5, SeqEqual
<1>12. Plain(s) = FlattenSeq(P(s)) /\ Plain(t) = FlattenSeq(P(t))
  BY DEF Plain, Piece
<1> HIDE DEF P
<1>13. Plain(t) = Plain(s) \o last
  BY <1>9, <1>10, <1>11, <1>12, FlattenAppend
<1> QED  BY <1>5, <1>13 DEF t, last

\* The decoder and the yEnc format agree on every sequence of bytes.
THEOREM decodelineIsPlain ==
    ASSUME NEW bytes \in Seq(Byte)
    PROVE  /\ decodeline(bytes, FALSE).out = Plain(bytes)
           /\ decodeline(bytes, FALSE).critical <=> EndsInEscape(bytes)
<1> DEFINE D(s) == decodeline(s, FALSE)
           T == {s \in Seq(Byte) : /\ D(s).out = Plain(s)
                                   /\ D(s).critical <=> EndsInEscape(s)}
<1>1. <<>> \in T
  <2>1. D(<<>>) = [out |-> <<>>, critical |-> FALSE]
    BY decodelineEmpty
  <2>2. Plain(<<>>) = <<>>
    <3>1. [i \in DOMAIN <<>> |-> Piece(<<>>, i)] = <<>>
      OBVIOUS
    <3> QED  BY <3>1, FlattenEmpty DEF Plain, Piece
  <2>3. ~EndsInEscape(<<>>) /\ <<>> \in Seq(Byte)
    BY DEF EndsInEscape
  <2> HIDE DEF D
  <2>4. D(<<>>).out = <<>> /\ ~D(<<>>).critical
    BY <2>1
  <2> QED  BY <2>2, <2>3, <2>4
<1>2. ASSUME NEW s \in T, NEW x \in Byte PROVE Append(s, x) \in T
  <2> DEFINE t == Append(s, x)
             y == (x + 150) % 256
             z == (x + 214) % 256
  <2>1. s \in Seq(Byte) /\ D(s).out = Plain(s) /\ (D(s).critical <=> EndsInEscape(s))
    OBVIOUS
  <2>2. t \in Seq(Byte) /\ y \in Byte /\ z \in Byte
    BY <2>1 DEF Byte
  <2>3. D(s) \in Decodings
    BY <2>1, decodelineType
  <2>4. D(t) = DecodeByte(D(s), x)
    BY <2>1, decodelineAppend
  <2>5. /\ D(t).critical <=> ~D(s).critical /\ x = Escape
        /\ D(t).out = IF D(s).critical THEN Append(D(s).out, y)
                      ELSE IF x = Escape THEN D(s).out ELSE Append(D(s).out, z)
    <3> DEFINE d == D(s)
    <3> HIDE DEF d
    <3>1. d \in Decodings /\ D(t) = DecodeByte(d, x)
      BY <2>3, <2>4 DEF d
    <3> HIDE DEF D, T
    <3>2. /\ D(t).critical <=> ~d.critical /\ x = Escape
          /\ D(t).out = IF d.critical THEN Append(d.out, y)
                        ELSE IF x = Escape THEN d.out ELSE Append(d.out, z)
      BY <3>1, DecodeByteDef
    <3> QED  BY <3>2 DEF d
  <2>6. /\ EndsInEscape(t) <=> x = Escape /\ ~EndsInEscape(s)
        /\ Plain(t) = Plain(s) \o (IF x = Escape /\ ~EndsInEscape(s) THEN <<>>
                                   ELSE IF EndsInEscape(s) THEN <<y>> ELSE <<z>>)
    BY <2>1, PlainAppend
  <2> HIDE DEF t, y, z, D, T
  <2>7. Plain(s) \in Seq(Byte)
    BY <2>1, <2>3 DEF Decodings
  <2>8. Plain(s) \o <<>> = Plain(s) /\ Plain(s) \o <<y>> = Append(Plain(s), y)
        /\ Plain(s) \o <<z>> = Append(Plain(s), z)
    BY <2>2, <2>7, ConcatEmptySeq, AppendIsConcat
  <2>9. D(t).out = Plain(t) /\ (D(t).critical <=> EndsInEscape(t))
    BY <2>1, <2>5, <2>6, <2>8
  <2> QED  BY <2>2, <2>9 DEF T, t
<1> HIDE DEF T
<1>3. T = Seq(Byte)
  BY <1>1, <1>2, SeqInduction DEF T
<1> QED  BY <1>3 DEF T

-----------------------------------------------------------------------------
\* What one line more does to an article

LEMMA LineTypes ==
    ASSUME NEW l \in Lines
    PROVE  /\ l.bytes \in Seq(Byte) /\ l.valid \in BOOLEAN
           /\ l.type = "begin" => l.multipart \in BOOLEAN
BY LinesAssumption

LEMMA MoreLines ==
    ASSUME NEW ls \in Seq(Lines), NEW l \in Lines
    PROVE  /\ Append(ls, l) \in Seq(Lines)
           /\ Len(ls) \in Nat /\ Len(Append(ls, l)) = Len(ls) + 1
           /\ Append(ls, l)[Len(ls) + 1] = l
           /\ \A k \in 1 .. Len(ls) : Append(ls, l)[k] = ls[k]
           /\ Front(Append(ls, l)) = ls /\ Append(ls, l) # <<>>
<1>1. /\ Append(ls, l) \in Seq(Lines) /\ Append(ls, l) # <<>>
      /\ Len(ls) \in Nat /\ Len(Append(ls, l)) = Len(ls) + 1
      /\ Append(ls, l)[Len(ls) + 1] = l
      /\ \A k \in 1 .. Len(ls) : Append(ls, l)[k] = ls[k]
  BY AppendProperties, LenProperties
<1> DEFINE more == Append(ls, l)
           n == Len(ls)
<1>2. Front(more) = SubSeq(more, 1, n)
  BY <1>1 DEF Front
<1>3. SubSeq(more, 1, n) \in Seq(Lines) /\ Len(SubSeq(more, 1, n)) = n
      /\ \A k \in 1 .. n : SubSeq(more, 1, n)[k] = more[k]
  OBVIOUS
<1>4. SubSeq(more, 1, n) = ls
  <2> DEFINE r == SubSeq(more, 1, n)
  <2>1. r \in Seq(Lines) /\ Len(r) = Len(ls) /\ \A k \in 1 .. Len(r) : r[k] = ls[k]
    BY <1>1, <1>3
  <2> HIDE DEF r
  <2>2. r = ls
    BY <2>1, SeqEqual
  <2> QED  BY <2>2 DEF r
<1> QED  BY <1>1, <1>2, <1>4

LEMMA FlattenLast ==
    ASSUME NEW S, NEW n \in Nat, NEW f \in [1 .. n + 1 -> Seq(S)]
    PROVE  FlattenSeq(f) = FlattenSeq([k \in 1 .. n |-> f[k]]) \o f[n + 1]
<1> DEFINE g == [k \in 1 .. n |-> f[k]]
           h == Append(g, f[n + 1])
<1>1. g \in Seq(Seq(S)) /\ Len(g) = n /\ \A k \in 1 .. n : g[k] = f[k]
  OBVIOUS
<1>2. f \in Seq(Seq(S)) /\ Len(f) = n + 1 /\ f[n + 1] \in Seq(S)
  OBVIOUS
<1> HIDE DEF g
<1>3. h \in Seq(Seq(S)) /\ Len(h) = n + 1 /\ h[n + 1] = f[n + 1]
      /\ \A k \in 1 .. n : h[k] = g[k]
  BY <1>1, <1>2, AppendProperties
<1>4. FlattenSeq(h) = FlattenSeq(g) \o f[n + 1]
  BY <1>1, <1>2, FlattenAppend
<1> HIDE DEF h
<1>5. \A k \in 1 .. n + 1 : f[k] = h[k]
  <2>1. \A k \in 1 .. n + 1 : k \in 1 .. n \/ k = n + 1
    OBVIOUS
  <2> QED  BY <1>1, <1>3, <2>1
<1>6. f = h
  BY <1>2, <1>3, <1>5, SeqEqual
<1> QED  BY <1>4, <1>6 DEF g

LEMMA HeaderAtDef ==
    ASSUME NEW ls \in Seq(Lines)
    PROVE  LET h == HeaderAt(ls)
           IN  \/ h = 0 /\ \A k \in 1 .. Len(ls) : ls[k].type # "begin"
               \/ /\ h \in 1 .. Len(ls) /\ ls[h].type = "begin"
                  /\ \A k \in 1 .. Len(ls) : k < h => ls[k].type # "begin"
<1> DEFINE I == {i \in 1 .. Len(ls) : ls[i].type = "begin"}
<1>1. HeaderAt(ls) = IF I # {} THEN Min(I) ELSE 0
  BY DEF HeaderAt, SelectInSeq
<1>2. ASSUME I # {} PROVE Min(I) \in I /\ \A k \in I : Min(I) <= k
  <2>1. I \subseteq Nat
    OBVIOUS
  <2>2. PICK i \in I : \A j \in I : <<j, i>> \notin OpToRel(<, Nat)
    BY <1>2, <2>1, WFMin, NatLessThanWellFounded
  <2>3. \A j \in I : ~(j < i)
    BY <2>1, <2>2 DEF OpToRel
  <2>4. i \in I /\ \A j \in I : i <= j
    BY <2>1, <2>3
  <2> HIDE DEF I
  <2> QED  BY <2>4 DEF Min
<1>3. CASE I = {}
  BY <1>1, <1>3
<1>4. CASE I # {}
  <2> DEFINE h == HeaderAt(ls)
  <2>1. h \in I /\ \A k \in I : h <= k
    BY <1>1, <1>2, <1>4
  <2> HIDE DEF h
  <2>2. h \in 1 .. Len(ls) /\ ls[h].type = "begin"
    BY <2>1
  <2>3. \A k \in 1 .. Len(ls) : k < h => ls[k].type # "begin"
    BY <2>1, <2>2
  <2> QED  BY <2>2, <2>3 DEF h
<1> QED  BY <1>3, <1>4

LEMMA HeaderAtAppend ==
    ASSUME NEW ls \in Seq(Lines), NEW l \in Lines
    PROVE  HeaderAt(Append(ls, l)) = IF HeaderAt(ls) # 0 THEN HeaderAt(ls)
                                     ELSE IF l.type = "begin" THEN Len(ls) + 1 ELSE 0
<1> DEFINE more == Append(ls, l)
           n == Len(ls)
           h == HeaderAt(ls)
           m == HeaderAt(more)
<1>1. /\ more \in Seq(Lines) /\ n \in Nat /\ Len(more) = n + 1 /\ more[n + 1] = l
      /\ \A k \in 1 .. n : more[k] = ls[k]
  BY MoreLines
<1>2. \/ h = 0 /\ \A k \in 1 .. n : ls[k].type # "begin"
      \/ /\ h \in 1 .. n /\ ls[h].type = "begin"
         /\ \A k \in 1 .. n : k < h => ls[k].type # "begin"
  BY HeaderAtDef
<1> HIDE DEF more
<1>3. \/ m = 0 /\ \A k \in 1 .. n + 1 : more[k].type # "begin"
      \/ /\ m \in 1 .. n + 1 /\ more[m].type = "begin"
         /\ \A k \in 1 .. n + 1 : k < m => more[k].type # "begin"
  BY <1>1, HeaderAtDef
<1> HIDE DEF h, m, n
<1>4. m = IF h # 0 THEN h ELSE IF l.type = "begin" THEN n + 1 ELSE 0
  BY <1>1, <1>2, <1>3
<1> QED  BY <1>4 DEF h, m, n, more

\* Whether the next line would be one of data, or the trailer.
IsData(ls) == HeaderAt(ls) # 0 /\ DataFrom(ls) <= Len(ls) + 1

LEMMA DataFromAppend ==
    ASSUME NEW ls \in Seq(Lines), NEW l \in Lines
    PROVE  /\ DataFrom(ls) \in Nat
           /\ HeaderAt(ls) # 0 => DataFrom(Append(ls, l)) = DataFrom(ls)
           /\ HeaderAt(ls) = 0 => /\ DataFrom(ls) = Len(ls) + 1
                                  /\ DataFrom(Append(ls, l)) > Len(ls) + 1
<1> DEFINE more == Append(ls, l)
           n == Len(ls)
           h == HeaderAt(ls)
<1>1. /\ n \in Nat /\ Len(more) = n + 1 /\ more[n + 1] = l
      /\ \A k \in 1 .. n : more[k] = ls[k]
  BY MoreLines
<1>2. h = 0 \/ h \in 1 .. n
  BY HeaderAtDef
<1>3. HeaderAt(more) = IF h # 0 THEN h ELSE IF l.type = "begin" THEN n + 1 ELSE 0
  BY HeaderAtAppend
<1> HIDE DEF more, n, h
<1>4. DataFrom(ls) = IF h = 0 THEN n + 1 ELSE IF ls[h].multipart THEN h + 2 ELSE h + 1
  BY DEF DataFrom, h, n
<1>5. DataFrom(more) = IF HeaderAt(more) = 0 THEN n + 2
                       ELSE IF more[HeaderAt(more)].multipart THEN HeaderAt(more) + 2
                                                              ELSE HeaderAt(more) + 1
  BY <1>1 DEF DataFrom
<1>6. /\ DataFrom(ls) \in Nat
      /\ h # 0 => DataFrom(more) = DataFrom(ls)
      /\ h = 0 => DataFrom(ls) = n + 1 /\ DataFrom(more) > n + 1
  BY <1>1, <1>2, <1>3, <1>4, <1>5
<1> QED  BY <1>6 DEF more, n, h

LEMMA DataAppend ==
    ASSUME NEW ls \in Seq(Lines), NEW l \in Lines
    PROVE  /\ Data(ls) \in Seq(Byte)
           /\ Data(Append(ls, l)) =
                Data(ls) \o (IF IsData(ls) /\ l.type # "end" THEN l.bytes ELSE <<>>)
<1> DEFINE more == Append(ls, l)
           n == Len(ls)
           D(s, k) == IF k < DataFrom(s) \/ s[k].type = "end" THEN <<>> ELSE s[k].bytes
           f == [k \in 1 .. n + 1 |-> D(more, k)]
           g == [k \in 1 .. n |-> D(ls, k)]
<1>1. /\ more \in Seq(Lines) /\ n \in Nat /\ Len(more) = n + 1 /\ more[n + 1] = l
      /\ \A k \in 1 .. n : more[k] = ls[k]
      /\ DOMAIN more = 1 .. n + 1 /\ DOMAIN ls = 1 .. n
  BY MoreLines
<1>2. /\ DataFrom(ls) \in Nat
      /\ HeaderAt(ls) # 0 => DataFrom(more) = DataFrom(ls)
      /\ HeaderAt(ls) = 0 => DataFrom(ls) = n + 1 /\ DataFrom(more) > n + 1
  BY DataFromAppend
<1>3. Data(more) = FlattenSeq(f) /\ Data(ls) = FlattenSeq(g)
  BY <1>1 DEF Data
<1>4. \A k \in 1 .. n : ls[k] \in Lines
  BY ElementOfSeq
<1> HIDE DEF more, n
<1>5. \A k \in 1 .. n : D(more, k) = D(ls, k)
  <2>1. CASE HeaderAt(ls) # 0
    BY <1>1, <1>2, <2>1
  <2>2. CASE HeaderAt(ls) = 0
    <3>1. \A k \in 1 .. n : k < DataFrom(ls) /\ (DataFrom(more) > n + 1 => k < DataFrom(more))
      <4>1. DataFrom(ls) = n + 1
        BY <1>2, <2>2
      <4>2. DataFrom(more) > n + 1 => \A k \in 1 .. n : k < DataFrom(more)
        <5>1. DataFrom(more) \in Nat
          BY <1>1, DataFromAppend
        <5> QED  BY <1>1, <5>1
      <4> QED  BY <1>1, <4>1, <4>2
    <3> QED  BY <1>2, <2>2, <3>1
  <2> QED  BY <2>1, <2>2
<1>6. D(more, n + 1) = IF IsData(ls) /\ l.type # "end" THEN l.bytes ELSE <<>>
  BY <1>1, <1>2 DEF IsData, n
<1>7. \A k \in 1 .. n : D(ls, k) \in Seq(Byte)
  BY <1>4, LineTypes
<1>8. D(more, n + 1) \in Seq(Byte)
  <2>1. l.bytes \in Seq(Byte) /\ <<>> \in Seq(Byte)
    BY LineTypes
  <2> QED  BY <1>6, <2>1
<1> HIDE DEF D
<1>9. f \in [1 .. n + 1 -> Seq(Byte)]
  <2>1. \A k \in 1 .. n + 1 : k \in 1 .. n \/ k = n + 1
    BY <1>1
  <2> QED  BY <1>5, <1>7, <1>8, <2>1
<1>10. [k \in 1 .. n |-> f[k]] = g
  BY <1>1, <1>5
<1>11. f[n + 1] = D(more, n + 1)
  BY <1>1
<1>12. g \in Seq(Seq(Byte))
  BY <1>1, <1>7
<1> HIDE DEF f, g
<1>13. FlattenSeq(f) = FlattenSeq(g) \o D(more, n + 1)
  BY <1>1, <1>9, <1>10, <1>11, FlattenLast
<1>14. FlattenSeq(g) \in Seq(Byte)
  BY <1>12, FlattenType
<1> QED  BY <1>3, <1>6, <1>13, <1>14 DEF more

LEMMA BytesAppend ==
    ASSUME NEW ls \in Seq(Lines), NEW l \in Lines
    PROVE  /\ Bytes(ls) \in Seq(Byte)
           /\ Bytes(Append(ls, l)) = Bytes(ls) \o l.bytes
           /\ Len(Bytes(Append(ls, l))) = Len(Bytes(ls)) + Len(l.bytes)
<1> DEFINE more == Append(ls, l)
           n == Len(ls)
           f == [k \in 1 .. n + 1 |-> more[k].bytes]
           g == [k \in 1 .. n |-> ls[k].bytes]
<1>1. /\ more \in Seq(Lines) /\ n \in Nat /\ Len(more) = n + 1 /\ more[n + 1] = l
      /\ \A k \in 1 .. n : more[k] = ls[k]
      /\ DOMAIN more = 1 .. n + 1 /\ DOMAIN ls = 1 .. n
  BY MoreLines
<1>2. Bytes(more) = FlattenSeq(f) /\ Bytes(ls) = FlattenSeq(g)
  BY <1>1 DEF Bytes
<1>3. \A k \in 1 .. n : ls[k] \in Lines
  BY ElementOfSeq
<1> HIDE DEF more, n
<1>4. \A k \in 1 .. n + 1 : k \in 1 .. n \/ k = n + 1
  BY <1>1
<1>5. \A k \in 1 .. n + 1 : more[k] \in Lines
  BY <1>1, <1>3, <1>4
<1>6. f \in [1 .. n + 1 -> Seq(Byte)] /\ g \in Seq(Seq(Byte)) /\ f[n + 1] = l.bytes
  BY <1>1, <1>3, <1>5, LineTypes
<1>7. [k \in 1 .. n |-> f[k]] = g
  BY <1>1
<1> HIDE DEF f, g
<1>8. FlattenSeq(f) = FlattenSeq(g) \o l.bytes
  BY <1>1, <1>6, <1>7, FlattenLast
<1>9. FlattenSeq(g) \in Seq(Byte) /\ l.bytes \in Seq(Byte)
  BY <1>6, FlattenType, LineTypes
<1>10. Len(FlattenSeq(g) \o l.bytes) = Len(FlattenSeq(g)) + Len(l.bytes)
  BY <1>9, ConcatProperties
<1> QED  BY <1>2, <1>8, <1>9, <1>10 DEF more

\* What decoding the next bytes adds to those the data so far decodes to.
LEMMA PlainConcat ==
    ASSUME NEW xs \in Seq(Byte), NEW ys \in Seq(Byte),
           NEW c \in BOOLEAN, c <=> EndsInEscape(xs)
    PROVE  /\ decodeline(ys, c) \in Decodings
           /\ Plain(xs) \in Seq(Byte)
           /\ Plain(xs \o ys) = Plain(xs) \o decodeline(ys, c).out
           /\ EndsInEscape(xs \o ys) <=> decodeline(ys, c).critical
<1> DEFINE d == decodeline(xs, FALSE)
           e == decodeline(ys, c)
           f == decodeline(xs \o ys, FALSE)
<1>1. d \in Decodings /\ e \in Decodings
  BY decodelineType
<1>2. d.out = Plain(xs) /\ (d.critical <=> EndsInEscape(xs))
  BY decodelineIsPlain
<1>3. xs \o ys \in Seq(Byte)
  BY ConcatProperties
<1>4. f.out = Plain(xs \o ys) /\ (f.critical <=> EndsInEscape(xs \o ys))
  BY <1>3, decodelineIsPlain
<1>5. d.critical = c
  <2> HIDE DEF d
  <2>1. d.critical \in BOOLEAN
    BY <1>1 DEF Decodings
  <2> QED  BY <1>2, <2>1
<1>6. f = [out |-> d.out \o e.out, critical |-> e.critical]
  <2>1. f = [out |-> d.out \o decodeline(ys, d.critical).out,
             critical |-> decodeline(ys, d.critical).critical]
    BY decodelineConcat
  <2> HIDE DEF d, f
  <2> QED  BY <1>5, <2>1
<1> HIDE DEF d, e, f
<1>7. f.out = d.out \o e.out /\ f.critical = e.critical
  BY <1>6
<1>8. d.out \in Seq(Byte)
  BY <1>1 DEF Decodings
<1>9. /\ e \in Decodings /\ Plain(xs) \in Seq(Byte)
      /\ Plain(xs \o ys) = Plain(xs) \o e.out
      /\ EndsInEscape(xs \o ys) <=> e.critical
  BY <1>1, <1>2, <1>4, <1>7, <1>8
<1> QED  BY <1>9 DEF e

LEMMA TrailersAppend ==
    ASSUME NEW ls \in Seq(Lines), NEW l \in Lines
    PROVE  /\ Trailers(ls) \subseteq 1 .. Len(ls)
           /\ Trailers(Append(ls, l)) =
                Trailers(ls) \cup (IF IsData(ls) /\ l.type = "end" THEN {Len(ls) + 1} ELSE {})
<1> DEFINE more == Append(ls, l)
           n == Len(ls)
           D == DataFrom(ls)
<1>1. /\ n \in Nat /\ Len(more) = n + 1 /\ more[n + 1] = l
      /\ \A k \in 1 .. n : more[k] = ls[k]
  BY MoreLines
<1>2. /\ D \in Nat
      /\ HeaderAt(ls) # 0 => DataFrom(more) = D
      /\ HeaderAt(ls) = 0 => D = n + 1 /\ DataFrom(more) > n + 1
  BY DataFromAppend
<1>3. D >= 1
  <2> DEFINE h == HeaderAt(ls)
  <2>1. h = 0 \/ h \in 1 .. n
    BY HeaderAtDef
  <2>2. D = IF h = 0 THEN n + 1 ELSE IF ls[h].multipart THEN h + 2 ELSE h + 1
    BY DEF DataFrom
  <2> HIDE DEF h, D
  <2> QED  BY <1>1, <2>1, <2>2
<1>4. DataFrom(more) \in Nat
  <2>1. more \in Seq(Lines)
    BY MoreLines
  <2> HIDE DEF more
  <2> QED  BY <2>1, DataFromAppend
<1>5. IsData(ls) <=> HeaderAt(ls) # 0 /\ D <= n + 1
  BY DEF IsData
<1>6. /\ \A k : k \in Trailers(ls) <=> k \in D .. n /\ ls[k].type = "end"
      /\ \A k : k \in Trailers(more) <=>
                    k \in DataFrom(more) .. n + 1 /\ more[k].type = "end"
  BY <1>1 DEF Trailers
<1> HIDE DEF more, n, D
<1>7. \A k \in Trailers(ls) : k \in 1 .. n
  BY <1>1, <1>2, <1>3, <1>6
<1>8. ASSUME NEW k
      PROVE  k \in Trailers(more) <=> k \in Trailers(ls)
                                      \/ (IsData(ls) /\ l.type = "end" /\ k = n + 1)
  <2>1. CASE HeaderAt(ls) = 0
    BY <1>1, <1>2, <1>4, <1>5, <1>6, <2>1
  <2>2. CASE HeaderAt(ls) # 0
    <3>1. CASE k \in 1 .. n
      <4>1. /\ k \in D .. n <=> k >= D
            /\ k \in D .. n + 1 <=> k >= D
            /\ k # n + 1
        BY <1>1, <1>2, <3>1
      <4>2. more[k].type = ls[k].type
        BY <1>1, <3>1
      <4>3. k \in Trailers(more) <=> k \in Trailers(ls)
        BY <1>2, <1>6, <2>2, <4>1, <4>2
      <4> QED  BY <4>1, <4>3
    <3>2. CASE k \notin 1 .. n
      <4>1. k \in D .. n + 1 <=> D <= n + 1 /\ k = n + 1
        BY <1>1, <1>2, <1>3, <3>2
      <4>2. k \notin Trailers(ls)
        BY <1>7, <3>2
      <4> QED  BY <1>1, <1>2, <1>5, <1>6, <2>2, <4>1, <4>2
    <3> QED  BY <3>1, <3>2
  <2> QED  BY <2>1, <2>2
<1>9. Trailers(ls) \subseteq 1 .. n
  BY <1>7
<1>10. Trailers(more) =
         Trailers(ls) \cup (IF IsData(ls) /\ l.type = "end" THEN {n + 1} ELSE {})
  <2> DEFINE A == Trailers(more)
             B == Trailers(ls)
             ends == IsData(ls) /\ l.type = "end"
  <2> HIDE DEF A, B, ends
  <2>1. \A k : k \in A <=> k \in B \/ (ends /\ k = n + 1)
    BY <1>8 DEF A, B, ends
  <2>2. CASE ends
    <3>1. A = B \cup {n + 1}
      BY <2>1, <2>2
    <3> QED  BY <2>2, <3>1 DEF A, B, ends
  <2>3. CASE ~ends
    <3>1. A = B
      BY <2>1, <2>3, Zenon
    <3> QED  BY <2>3, <3>1 DEF A, B, ends
  <2> QED  BY <2>2, <2>3
<1> QED  BY <1>9, <1>10 DEF more, n

LEMMA IsRightAppend ==
    ASSUME NEW ls \in Seq(Lines), NEW l \in Lines
    PROVE  /\ \A k \in 1 .. Len(ls) : IsRight(Append(ls, l), k) <=> IsRight(ls, k)
           /\ l.type = "end" => (IsRight(Append(ls, l), Len(ls) + 1) <=>
                                    l.valid /\ verifycrc32s(l, Decoded(ls)))
<1> DEFINE more == Append(ls, l)
           n == Len(ls)
<1>1. /\ more \in Seq(Lines) /\ n \in Nat /\ Len(more) = n + 1 /\ more[n + 1] = l
      /\ \A k \in 1 .. n : more[k] = ls[k]
  BY MoreLines
<1>2. ASSUME NEW k \in 1 .. n PROVE IsRight(more, k) <=> IsRight(ls, k)
  <2> DEFINE p == SubSeq(more, 1, k)
             q == SubSeq(ls, 1, k)
  <2> HIDE DEF more, n
  <2>1. k \in Nat /\ k <= Len(more) /\ k <= Len(ls)
    BY <1>1 DEF n
  <2>2. /\ p \in Seq(Lines) /\ Len(p) = k /\ \A i \in 1 .. k : p[i] = more[i]
        /\ q \in Seq(Lines) /\ Len(q) = k /\ \A i \in 1 .. k : q[i] = ls[i]
    <3>1. /\ p \in Seq(Lines) /\ Len(p) = k /\ \A i \in 1 .. k : p[i] = more[i]
      BY <1>1, <2>1
    <3>2. /\ q \in Seq(Lines) /\ Len(q) = k /\ \A i \in 1 .. k : q[i] = ls[i]
      BY <2>1
    <3> QED  BY <3>1, <3>2
  <2>3. \A i \in 1 .. k : i \in 1 .. n
    BY <1>1
  <2> HIDE DEF p, q
  <2>4. p = q
    BY <1>1, <2>2, <2>3, SeqEqual
  <2> QED  BY <1>1, <2>4 DEF IsRight, p, q
<1>3. ASSUME l.type = "end"
      PROVE  IsRight(more, n + 1) <=> l.valid /\ verifycrc32s(l, Decoded(ls))
  <2>1. SubSeq(more, 1, n + 1) = more
    <3> DEFINE p == SubSeq(more, 1, n + 1)
    <3> HIDE DEF more, n
    <3>1. p \in Seq(Lines) /\ Len(p) = n + 1 /\ \A i \in 1 .. n + 1 : p[i] = more[i]
      BY <1>1
    <3> HIDE DEF p
    <3>2. p = more
      BY <1>1, <3>1, SeqEqual
    <3> QED  BY <3>2 DEF p
  <2>2. Decoded(more) = Decoded(ls)
    <3>1. Data(ls) \in Seq(Byte) /\ Data(more) = Data(ls) \o <<>>
      BY <1>3, DataAppend
    <3>2. Data(ls) \o <<>> = Data(ls)
      BY <3>1, ConcatEmptySeq
    <3> QED  BY <3>1, <3>2 DEF Decoded
  <2> HIDE DEF more, n
  <2> QED  BY <1>1, <2>1, <2>2 DEF IsRight, verifycrc32s
<1> QED  BY <1>2, <1>3

-----------------------------------------------------------------------------
\* Type correctness

LEMMA HeaderTypes == \A bytes : GetHeaderType(bytes) \in FileTypes
<1> SUFFICES ASSUME NEW bytes PROVE GetHeaderType(bytes) \in FileTypes
  OBVIOUS
<1>1. CASE \E d \in headerTable : IsPrefix(d.header, bytes)
  <2> DEFINE d == CHOOSE d \in headerTable : IsPrefix(d.header, bytes)
  <2>1. d \in headerTable
    BY <1>1
  <2> HIDE DEF d
  <2>2. d.filetype \in FileTypes
    BY <2>1 DEF FileTypes
  <2> QED  BY <1>1, <2>2 DEF GetHeaderType, d
<1>2. CASE ~\E d \in headerTable : IsPrefix(d.header, bytes)
  BY <1>2 DEF GetHeaderType, FileTypes
<1> QED  BY <1>1, <1>2

LEMMA SniffTypes ==
    ASSUME TypeOK, NEW p \in Seq(Byte), Sniff(p)
    PROVE  sniffing' \in Seq(Byte) /\ sniffed' \in BOOLEAN /\ fileType' \in FileTypes
<1> DEFINE more == sniffing \o p
<1>1. more \in Seq(Byte) /\ <<>> \in Seq(Byte)
  BY ConcatProperties DEF TypeOK
<1>2. CASE sniffed
  BY <1>2 DEF TypeOK, Sniff, snifferVars
<1>3. CASE ~sniffed
  <2>1. /\ sniffed' = (Len(more) >= requiredHeaderBytes)
        /\ sniffing' = IF sniffed' THEN <<>> ELSE more
        /\ fileType' = IF sniffed'
                       THEN GetHeaderType(SubSeq(more, 1, requiredHeaderBytes))
                       ELSE fileType
    BY <1>3 DEF Sniff
  <2> HIDE DEF more
  <2>2. sniffed' \in BOOLEAN /\ sniffing' \in Seq(Byte)
    BY <1>1, <2>1
  <2>3. fileType' \in FileTypes
    BY <2>1, HeaderTypes DEF TypeOK
  <2> QED  BY <2>2, <2>3
<1> QED  BY <1>2, <1>3

\* A line is taken from the buffer.
LEMMA ScanTypes ==
    ASSUME TypeOK, scan
    PROVE  /\ line \in Lines
           /\ b' \in Seq(Lines) /\ scanned' \in Seq(Lines)
           /\ scanned' = Append(scanned, line)
           /\ scanned' # <<>> /\ Front(scanned') = scanned
<1>1. b \in Seq(Lines) /\ b # <<>> /\ scanned \in Seq(Lines)
  BY DEF TypeOK, scan
<1>2. line \in Lines /\ b' \in Seq(Lines) /\ scanned' = Append(scanned, line)
  BY <1>1, HeadTailProperties DEF scan, line
<1> HIDE DEF line
<1>3. Append(scanned, line) \in Seq(Lines) /\ Append(scanned, line) # <<>>
      /\ Front(Append(scanned, line)) = scanned
  BY <1>1, <1>2, MoreLines
<1> QED  BY <1>2, <1>3

LEMMA ChunkTypes == \A chunk \in Chunks : chunk \in Seq(Lines)
<1> SUFFICES ASSUME NEW n \in 0 .. MaxChunk, NEW chunk \in [1 .. n -> Lines]
             PROVE  chunk \in Seq(Lines)
  BY DEF Chunks
<1>1. n \in Nat
  BY ArticleAssumption
<1> QED  BY <1>1

\* What no step of the decoder changes.
restVars == <<step, group, sessionVars, result, dispatches>>

LEMMA RestTypes ==
    ASSUME TypeOK, UNCHANGED restVars
    PROVE  /\ step' \in {"selectGroup", "body", "copy", "done"}
           /\ group' \in Groups \cup {NoGroup}
           /\ currentGroup' \in Groups \cup {NoGroup} /\ selected' \in Groups \cup {NoGroup}
           /\ result' \in {"none", "noGroup", "noArticle", "protocol", "other",
                           "decode", "write"}
           /\ dispatches' \in 1 .. MaxDispatches
BY DEF TypeOK, restVars, sessionVars

LEMMA TypeOfDecoding ==
    ASSUME TypeOK, yDecode, UNCHANGED restVars
    PROVE  TypeOK'
<1> USE DEF parseVars, dataVars, snifferVars
<1>1. ASSUME TooMuchBeforeHeader PROVE TypeOK'
  <2>1. scan
    BY <1>1 DEF TooMuchBeforeHeader
  <2> QED  BY <1>1, <2>1, ScanTypes, RestTypes DEF TooMuchBeforeHeader, Fails, TypeOK
<1>2. ASSUME SkipLine PROVE TypeOK'
  <2>1. scan
    BY <1>2 DEF SkipLine
  <2>2. line \in Lines
    BY <2>1, ScanTypes
  <2>3. bytesBeforeheader' \in Nat
    <3> DEFINE l == line
    <3>1. bytesBeforeheader' = bytesBeforeheader + Len(l.bytes) + 1
      BY <1>2 DEF SkipLine
    <3> HIDE DEF l
    <3>2. Len(l.bytes) \in Nat
      BY <2>2, LineTypes, LenProperties DEF l
    <3> QED  BY <3>1, <3>2 DEF TypeOK
  <2> QED  BY <1>2, <2>1, <2>3, ScanTypes, RestTypes DEF SkipLine, Continues, TypeOK
<1>3. ASSUME parseheader PROVE TypeOK'
  <2>1. scan
    BY <1>3 DEF parseheader
  <2>2. header' \subseteq Lines /\ Cardinality(header') <= 1
    <3>1. header' = {line} \/ header' = header
      BY <1>3 DEF parseheader
    <3>2. Cardinality({line}) = 1
      BY FS_Singleton
    <3>3. line \in Lines
      BY <2>1, ScanTypes
    <3>4. CASE header' = {line}
      BY <3>2, <3>3, <3>4
    <3>5. CASE header' = header
      BY <3>5 DEF TypeOK
    <3> QED  BY <3>1, <3>4, <3>5
  <2>3. writing' \in BOOLEAN /\ err' \in {"none", "decode", "write"}
    BY <1>3 DEF parseheader, Continues, Fails, TypeOK
  <2> QED  BY <1>3, <2>1, <2>2, <2>3, ScanTypes, RestTypes DEF parseheader, TypeOK
<1>4. ASSUME parsepartHeader PROVE TypeOK'
  <2>1. scan
    BY <1>4 DEF parsepartHeader
  <2>2. writing' \in BOOLEAN /\ err' \in {"none", "decode", "write"} /\ partHeader' \in BOOLEAN
    BY <1>4 DEF parsepartHeader, Continues, Fails, TypeOK
  <2> QED  BY <1>4, <2>1, <2>2, ScanTypes, RestTypes DEF parsepartHeader, TypeOK
<1>5. ASSUME parsetrailer PROVE TypeOK'
  <2>1. scan
    BY <1>5 DEF parsetrailer
  <2>2. trailer' \subseteq Lines /\ Cardinality(trailer') <= 1
    <3>1. trailer' = {line} \/ trailer' = {}
      BY <1>5 DEF parsetrailer
    <3>2. Cardinality({line}) = 1 /\ Cardinality({}) = 0
      BY FS_Singleton, FS_EmptySet
    <3>3. line \in Lines
      BY <2>1, ScanTypes
    <3> QED  BY <3>1, <3>2, <3>3
  <2>3. writing' \in BOOLEAN /\ err' \in {"none", "decode", "write"}
    BY <1>5 DEF parsetrailer, Continues, Fails, TypeOK
  <2> QED  BY <1>5, <2>1, <2>2, <2>3, ScanTypes, RestTypes DEF parsetrailer, TypeOK
<1>6. ASSUME scan
      PROVE  decodeline(line.bytes, nextByteIsCritical) \in Decodings
  <2> DEFINE ys == line.bytes
  <2>1. ys \in Seq(Byte)
    BY <1>6, ScanTypes, LineTypes
  <2> HIDE DEF ys
  <2>2. decodeline(ys, nextByteIsCritical) \in Decodings
    BY <2>1, decodelineType DEF TypeOK
  <2> QED  BY <2>2 DEF ys
<1>7. ASSUME DecodeLine PROVE TypeOK'
  <2> DEFINE d == decodeline(line.bytes, nextByteIsCritical)
  <2>1. scan /\ written' = written \o d.out /\ nextByteIsCritical' = d.critical /\ Sniff(d.out)
    BY <1>7 DEF DecodeLine
  <2>2. d \in Decodings
    BY <1>6, <2>1
  <2> HIDE DEF d
  <2>3. d.out \in Seq(Byte) /\ d.critical \in BOOLEAN
    BY <2>2 DEF Decodings
  <2>4. written' \in Seq(Byte)
    BY <2>1, <2>3, ConcatProperties DEF TypeOK
  <2>5. sniffing' \in Seq(Byte) /\ sniffed' \in BOOLEAN /\ fileType' \in FileTypes
    BY <2>1, <2>3, SniffTypes
  <2> QED  BY <1>7, <2>1, <2>3, <2>4, <2>5, ScanTypes, RestTypes
           DEF DecodeLine, Continues, TypeOK
<1>8. ASSUME WriteFails PROVE TypeOK'
  <2> DEFINE d == decodeline(line.bytes, nextByteIsCritical)
  <2>1. scan /\ Sniff(d.out)
    BY <1>8 DEF WriteFails
  <2>2. d \in Decodings
    BY <1>6, <2>1
  <2> HIDE DEF d
  <2>3. d.out \in Seq(Byte)
    BY <2>2 DEF Decodings
  <2>4. sniffing' \in Seq(Byte) /\ sniffed' \in BOOLEAN /\ fileType' \in FileTypes
    BY <2>1, <2>3, SniffTypes
  <2> QED  BY <1>8, <2>1, <2>4, ScanTypes, RestTypes DEF WriteFails, Fails, TypeOK
<1>9. ASSUME Written PROVE TypeOK'
  BY <1>9, RestTypes DEF Written, TypeOK
<1> QED  BY <1>1, <1>2, <1>3, <1>4, <1>5, <1>7, <1>8, <1>9 DEF yDecode

LEMMA TypeInit == Init => TypeOK
<1> SUFFICES ASSUME Init PROVE TypeOK
  OBVIOUS
<1>1. Cardinality({}) = 0 /\ MaxDispatches \in Nat \ {0}
  BY FS_EmptySet, ArticleAssumption
<1>2. <<>> \in Seq(Lines) /\ <<>> \in Seq(Byte)
  OBVIOUS
<1>3. dispatches \in 1 .. MaxDispatches
  BY <1>1 DEF Init
<1>4. Cardinality(header) <= 1 /\ Cardinality(trailer) <= 1
  BY <1>1 DEF Init, NewDecoder
<1> QED  BY <1>2, <1>3, <1>4 DEF Init, NewDecoder, NewSniffer, TypeOK, FileTypes

LEMMA TypeNext ==
    ASSUME TypeOK, [Next]_vars
    PROVE  TypeOK'
<1> USE DEF parseVars, dataVars, snifferVars, decoderVars, sessionVars, vars
<1>1. ASSUME SelectNothing PROVE TypeOK'
  BY <1>1 DEF SelectNothing, Proceeds, TypeOK
<1>2. ASSUME SelectGroup PROVE TypeOK'
  BY <1>2 DEF SelectGroup, Proceeds, Ends, GroupErrors, TypeOK
<1>3. ASSUME Body PROVE TypeOK'
  BY <1>3 DEF Body, Proceeds, Ends, BodyErrors, TypeOK
<1>4. ASSUME NEW chunk \in Chunks, CopyChunk(chunk) PROVE TypeOK'
  <2>1. b' \in Seq(Lines)
    BY <1>4, ChunkTypes, ConcatProperties DEF CopyChunk, Write, TypeOK
  <2> QED  BY <1>4, <2>1 DEF CopyChunk, Write, TypeOK
<1>5. ASSUME Decode PROVE TypeOK'
  BY <1>5, TypeOfDecoding DEF Decode, restVars
<1>6. ASSUME CopyEnds PROVE TypeOK'
  BY <1>6 DEF CopyEnds, Ends, TypeOK
<1>7. ASSUME NEW g \in Groups \cup {NoGroup}, Dispatch(g) PROVE TypeOK'
  <2>1. Cardinality({}) = 0 /\ MaxDispatches \in Nat \ {0}
    BY FS_EmptySet, ArticleAssumption
  <2>2. <<>> \in Seq(Lines) /\ <<>> \in Seq(Byte)
    OBVIOUS
  <2>3. dispatches' \in 1 .. MaxDispatches
    BY <1>7, <2>1 DEF Dispatch, TypeOK
  <2>4. Cardinality(header') <= 1 /\ Cardinality(trailer') <= 1
    BY <1>7, <2>1 DEF Dispatch, Renew
  <2> QED  BY <1>7, <2>2, <2>3, <2>4 DEF Dispatch, Renew, RenewSniffer, TypeOK
<1>8. ASSUME UNCHANGED vars PROVE TypeOK'
  BY <1>8 DEF TypeOK
<1> QED  BY <1>1, <1>2, <1>3, <1>4, <1>5, <1>6, <1>7, <1>8 DEF Next

\* Every variable keeps its type, for any lines, headers and groups: the decoder
\* writes bytes and nothing else, and the sniffer gives a file a type the table
\* knows, or Unknown.
THEOREM TypeCorrect == Spec => []TypeOK
<1>1. TypeOK /\ [Next]_vars => TypeOK'
  BY TypeNext
<1> QED  BY TypeInit, <1>1, PTL DEF Spec

-----------------------------------------------------------------------------
\* The inductive invariant

\* The lines that were taken: all that were scanned but one that failed.
Taken == IF err = "none" \/ scanned = <<>> THEN scanned ELSE Front(scanned)

\* The header and the part header are those of the lines taken, and what was
\* counted before them is all there was.
HeaderOK ==
    LET h == HeaderAt(Taken)
    IN  /\ header = IF h = 0 THEN {} ELSE {Taken[h]}
        /\ partHeader <=> h # 0 /\ Taken[h].multipart /\ Len(Taken) > h
        /\ h = 0 => bytesBeforeheader = Len(Bytes(Taken)) + Len(Taken)

\* What was written, and whether the next byte is critical, are what the data of
\* the lines taken says.
DataOK ==
    /\ written = Plain(Data(Taken))
    /\ nextByteIsCritical <=> EndsInEscape(Data(Taken))

\* A trailer that was passed was right, an article that was rejected is damaged,
\* and only a trailer lets Write leave lines behind.
JudgedOK ==
    /\ err = "none" => \A k \in Trailers(scanned) : IsRight(scanned, k)
    /\ err = "decode" => IsDamaged
    /\ writing \/ err # "none" \/ b = <<>> \/ trailer # {}

\* Until it has bytes enough the sniffer has all that was written.
SnifferOK ==
    err # "write" =>
        IF sniffed
        THEN /\ Len(written) >= requiredHeaderBytes
             /\ fileType = GetHeaderType(SubSeq(written, 1, requiredHeaderBytes))
        ELSE sniffing = written /\ Len(written) < requiredHeaderBytes

\* Where WriteArticleBody is while the decoder is at work, and after.
StepOK ==
    /\ writing => step = "copy" /\ err = "none"
    /\ err # "none" => scanned # <<>>
    /\ step = "done" /\ result = "none" => err = "none"

\* The session's idea of its group is right, and that of the request after
\* SelectGroup.
GroupOK ==
    /\ currentGroup = selected
    /\ step = "body" => group \in {NoGroup, currentGroup}

ArticleInv == TypeOK /\ HeaderOK /\ DataOK /\ JudgedOK /\ SnifferOK /\ StepOK /\ GroupOK

LEMMA NoLines ==
    /\ HeaderAt(<<>>) = 0 /\ Bytes(<<>>) = <<>> /\ Data(<<>>) = <<>>
    /\ Plain(<<>>) = <<>> /\ ~EndsInEscape(<<>>) /\ Trailers(<<>>) = {}
<1>1. <<>> \in Seq(Lines) /\ Len(<<>>) = 0 /\ DOMAIN <<>> = {} /\ 1 .. 0 = {}
  OBVIOUS
<1>2. HeaderAt(<<>>) = 0 \/ HeaderAt(<<>>) \in 1 .. Len(<<>>)
  BY <1>1, HeaderAtDef, Zenon
<1>3. Bytes(<<>>) = <<>> /\ Data(<<>>) = <<>> /\ Plain(<<>>) = <<>>
  <2>1. Bytes(<<>>) = FlattenSeq(<<>>)
    BY DEF Bytes
  <2>2. Data(<<>>) = FlattenSeq(<<>>)
    BY DEF Data
  <2>3. Plain(<<>>) = FlattenSeq(<<>>)
    BY DEF Plain
  <2> QED  BY <2>1, <2>2, <2>3, FlattenEmpty
<1>4. ~EndsInEscape(<<>>)
  BY <1>1 DEF EndsInEscape
<1>5. Trailers(<<>>) = {}
  <2> DEFINE none == <<>>
  <2>1. none \in Seq(Lines) /\ Len(none) = 0
    OBVIOUS
  <2> HIDE DEF none
  <2>2. DataFrom(none) = 1
    BY <1>1, <1>2, <2>1 DEF DataFrom, none
  <2>3. Trailers(none) = {}
    BY <2>1, <2>2 DEF Trailers
  <2> QED  BY <2>3 DEF none
<1> QED  BY <1>1, <1>2, <1>3, <1>4, <1>5

\* What Init and Dispatch have in common.
Fresh ==
    /\ TypeOK /\ NewDecoder
    /\ sniffing = <<>> /\ sniffed = FALSE
    /\ step = "selectGroup" /\ currentGroup = selected

LEMMA FreshInv == Fresh => ArticleInv
<1> SUFFICES ASSUME Fresh PROVE ArticleInv
  OBVIOUS
<1>1. Taken = <<>> /\ scanned = <<>> /\ err = "none"
  BY DEF Fresh, NewDecoder, Taken
<1>2. Len(<<>>) = 0
  OBVIOUS
<1>3. HeaderOK
  BY <1>1, <1>2, NoLines DEF HeaderOK, Fresh, NewDecoder
<1>4. DataOK
  BY <1>1, NoLines DEF DataOK, Fresh, NewDecoder
<1>5. JudgedOK
  BY <1>1, NoLines DEF JudgedOK, Fresh, NewDecoder
<1>6. SnifferOK
  BY <1>2, HeaderAssumption DEF SnifferOK, Fresh, NewDecoder
<1>7. StepOK /\ GroupOK /\ TypeOK
  BY DEF StepOK, GroupOK, Fresh, NewDecoder
<1> QED  BY <1>3, <1>4, <1>5, <1>6, <1>7 DEF ArticleInv

LEMMA InvInit == Init => ArticleInv
<1>1. Init => Fresh
  BY TypeInit DEF Init, Fresh, NewSniffer
<1> QED  BY <1>1, FreshInv

LEMMA Scanning ==
    ASSUME ArticleInv, scan
    PROVE  /\ line \in Lines /\ scanned \in Seq(Lines)
           /\ scanned' = Append(scanned, line) /\ Front(scanned') = scanned
           /\ scanned' # <<>>
           /\ writing /\ err = "none" /\ step = "copy"
           /\ Taken = scanned
           /\ Taken' = IF err' = "none" THEN Append(scanned, line) ELSE scanned
<1>1. /\ line \in Lines /\ scanned' = Append(scanned, line)
      /\ Front(scanned') = scanned /\ scanned' # <<>>
  BY ScanTypes DEF ArticleInv
<1>2. writing /\ err = "none" /\ step = "copy" /\ scanned \in Seq(Lines)
  BY DEF ArticleInv, StepOK, scan, TypeOK
<1> QED  BY <1>1, <1>2 DEF Taken

\* The decoder knows whether the next line is one of data.
LEMMA InDataIsData ==
    ASSUME ArticleInv, err = "none"
    PROVE  /\ header = {} <=> HeaderAt(scanned) = 0
           /\ InData <=> IsData(scanned)
           /\ HeaderAt(scanned) # 0 => /\ header = {scanned[HeaderAt(scanned)]}
                                       /\ HeaderAt(scanned) \in 1 .. Len(scanned)
                                       /\ scanned[HeaderAt(scanned)].multipart \in BOOLEAN
<1> DEFINE h == HeaderAt(scanned)
           n == Len(scanned)
<1>1. scanned \in Seq(Lines) /\ n \in Nat /\ partHeader \in BOOLEAN
  BY LenProperties DEF ArticleInv, TypeOK
<1>2. /\ header = IF h = 0 THEN {} ELSE {scanned[h]}
      /\ partHeader <=> (h # 0 /\ scanned[h].multipart /\ n > h)
  BY DEF ArticleInv, HeaderOK, Taken
<1>3. h = 0 \/ (h \in 1 .. n /\ scanned[h].type = "begin")
  BY <1>1, HeaderAtDef
<1>4. h # 0 => scanned[h].multipart \in BOOLEAN
  BY <1>1, <1>3, LineTypes, ElementOfSeq
<1>5. IsData(scanned) <=> h # 0 /\ (IF scanned[h].multipart THEN h + 2 ELSE h + 1) <= n + 1
  BY DEF IsData, DataFrom
<1>6. InData <=> h # 0 /\ (scanned[h].multipart => partHeader)
  BY <1>2 DEF InData
<1> HIDE DEF h, n
<1>7. InData <=> IsData(scanned)
  BY <1>1, <1>2, <1>3, <1>4, <1>5, <1>6
<1> QED  BY <1>2, <1>3, <1>4, <1>7 DEF h, n

-----------------------------------------------------------------------------
\* What the decoder does with a line keeps the invariant

\* Where WriteArticleBody is after a line.
LEMMA LineLeavesStep ==
    ASSUME ArticleInv, scan, UNCHANGED restVars, writing' => err' = "none"
    PROVE  StepOK' /\ GroupOK'
<1>1. step' = "copy" /\ scanned' # <<>>
  BY Scanning DEF restVars
<1>2. StepOK'
  BY <1>1 DEF StepOK
<1>3. GroupOK'
  BY DEF ArticleInv, GroupOK, restVars, sessionVars
<1> QED  BY <1>2, <1>3

\* A line that fails is not taken.
LEMMA FailureKeeps ==
    ASSUME ArticleInv, scan, NEW e \in {"decode", "write"}, Fails(e),
           UNCHANGED <<header, partHeader, bytesBeforeheader, dataVars, restVars>>,
           e = "decode" => UNCHANGED snifferVars /\ IsDamaged'
    PROVE  HeaderOK' /\ DataOK' /\ JudgedOK' /\ SnifferOK' /\ StepOK' /\ GroupOK'
<1>1. err = "none" /\ Taken = scanned /\ err' = e /\ ~writing' /\ Taken' = Taken
  BY Scanning DEF Fails
<1>2. HeaderOK'
  <2>1. HeaderOK
    BY DEF ArticleInv
  <2> HIDE DEF Taken
  <2> QED  BY <1>1, <2>1 DEF HeaderOK
<1>3. DataOK'
  <2>1. DataOK
    BY DEF ArticleInv
  <2> HIDE DEF Taken
  <2> QED  BY <1>1, <2>1 DEF DataOK, dataVars
<1>4. JudgedOK'
  BY <1>1 DEF JudgedOK
<1>5. SnifferOK'
  BY <1>1 DEF ArticleInv, SnifferOK, snifferVars, dataVars
<1>6. StepOK' /\ GroupOK'
  BY <1>1, LineLeavesStep
<1> QED  BY <1>2, <1>3, <1>4, <1>5, <1>6

\* A line that is taken, and that is not the trailer.
LEMMA TakenLine ==
    ASSUME ArticleInv, scan, Continues, UNCHANGED restVars,
           ~(IsData(scanned) /\ line.type = "end")
    PROVE  JudgedOK' /\ StepOK' /\ GroupOK' /\ Taken' = Append(scanned, line)
<1>1. /\ line \in Lines /\ scanned \in Seq(Lines) /\ scanned' = Append(scanned, line)
      /\ writing' /\ err = "none" /\ err' = "none" /\ Taken' = Append(scanned, line)
  BY Scanning DEF Continues
<1>2. Trailers(scanned') = Trailers(scanned) /\ Trailers(scanned) \subseteq 1 .. Len(scanned)
  <2> DEFINE l == line
  <2> HIDE DEF l
  <2>1. Trailers(Append(scanned, l)) = Trailers(scanned) \cup {}
    <3>1. ~(IsData(scanned) /\ l.type = "end") /\ l \in Lines
      BY <1>1 DEF l
    <3> QED  BY <1>1, <3>1, TrailersAppend
  <2>2. Trailers(scanned) \subseteq 1 .. Len(scanned)
    BY <1>1, TrailersAppend
  <2> QED  BY <1>1, <2>1, <2>2 DEF l
<1>3. \A k \in Trailers(scanned') : IsRight(scanned', k)
  <2>1. \A k \in Trailers(scanned) : IsRight(scanned, k)
    BY <1>1 DEF ArticleInv, JudgedOK
  <2>2. \A k \in 1 .. Len(scanned) : IsRight(scanned', k) <=> IsRight(scanned, k)
    BY <1>1, IsRightAppend
  <2> QED  BY <1>2, <2>1, <2>2
<1>4. JudgedOK'
  BY <1>1, <1>3 DEF JudgedOK
<1> QED  BY <1>1, <1>4, LineLeavesStep

\* A line that adds nothing to the data.
LEMMA NoDataKept ==
    ASSUME ArticleInv, scan, err' = "none", UNCHANGED dataVars, UNCHANGED snifferVars,
           ~IsData(scanned) \/ line.type = "end"
    PROVE  DataOK' /\ SnifferOK'
<1>1. /\ line \in Lines /\ scanned \in Seq(Lines) /\ err = "none"
      /\ Taken = scanned /\ Taken' = Append(scanned, line)
  BY Scanning
<1>2. Data(Taken') = Data(scanned)
  <2> DEFINE l == line
  <2> HIDE DEF l
  <2>1. l \in Lines /\ ~(IsData(scanned) /\ l.type # "end")
    BY <1>1 DEF l
  <2>2. Data(scanned) \in Seq(Byte) /\ Data(Append(scanned, l)) = Data(scanned) \o <<>>
    BY <1>1, <2>1, DataAppend
  <2>3. Data(scanned) \o <<>> = Data(scanned)
    BY <2>2, ConcatEmptySeq
  <2> QED  BY <1>1, <2>2, <2>3 DEF l
<1>3. DataOK'
  <2>1. DataOK
    BY DEF ArticleInv
  <2> HIDE DEF Taken
  <2> QED  BY <1>1, <1>2, <2>1 DEF DataOK, dataVars
<1>4. SnifferOK'
  BY <1>1 DEF ArticleInv, SnifferOK, snifferVars, dataVars
<1> QED  BY <1>3, <1>4

\* A line after the header and the part header.
LEMMA HeaderKept ==
    ASSUME ArticleInv, scan, err' = "none", IsData(scanned),
           UNCHANGED <<header, partHeader, bytesBeforeheader>>
    PROVE  HeaderOK'
<1> DEFINE h == HeaderAt(scanned)
           n == Len(scanned)
           more == Append(scanned, line)
<1>1. /\ line \in Lines /\ scanned \in Seq(Lines) /\ err = "none"
      /\ Taken = scanned /\ Taken' = more
  BY Scanning
<1>2. h # 0 /\ HeaderAt(more) = h
  BY <1>1, HeaderAtAppend DEF IsData
<1>3. /\ InData /\ header = {scanned[h]} /\ h \in 1 .. n
      /\ scanned[h].multipart \in BOOLEAN
  BY <1>1, <1>2, InDataIsData
<1>4. more[h] = scanned[h] /\ Len(more) = n + 1 /\ n \in Nat
  BY <1>1, <1>3, MoreLines
<1>5. partHeader \in BOOLEAN /\ (partHeader <=> (h # 0 /\ scanned[h].multipart /\ n > h))
  BY <1>1 DEF ArticleInv, HeaderOK, TypeOK
<1>6. scanned[h].multipart => partHeader
  BY <1>3 DEF InData
<1> HIDE DEF h, n, more, Taken
<1>7. /\ header' = {more[h]}
      /\ partHeader' <=> (h # 0 /\ more[h].multipart /\ Len(more) > h)
  BY <1>2, <1>3, <1>4, <1>5, <1>6
<1> QED  BY <1>1, <1>2, <1>7 DEF HeaderOK

LEMMA KeepsTooMuchBeforeHeader ==
    ASSUME ArticleInv, TooMuchBeforeHeader, UNCHANGED restVars
    PROVE  HeaderOK' /\ DataOK' /\ JudgedOK' /\ SnifferOK' /\ StepOK' /\ GroupOK'
<1>1. /\ scan /\ Fails("decode") /\ header = {} /\ bytesBeforeheader >= maxheaderBuffer
      /\ UNCHANGED <<header, partHeader, bytesBeforeheader>>
      /\ UNCHANGED dataVars /\ UNCHANGED snifferVars
  BY DEF TooMuchBeforeHeader, parseVars
<1>2. /\ line \in Lines /\ scanned \in Seq(Lines) /\ scanned' = Append(scanned, line)
      /\ Front(scanned') = scanned /\ err = "none" /\ Taken = scanned
  BY <1>1, Scanning
<1>3. HeaderAt(scanned) = 0
  BY <1>1, <1>2, InDataIsData
<1>4. Len(scanned') = Len(scanned) + 1 /\ Len(scanned) \in Nat
  BY <1>2, MoreLines
<1>5. bytesBeforeheader = Len(Bytes(scanned)) + Len(scanned)
  BY <1>2, <1>3 DEF ArticleInv, HeaderOK
<1>6. IsDamaged'
  <2> DEFINE n == Len(scanned')
  <2>1. Len(Bytes(scanned)) \in Nat
    BY <1>2, BytesAppend, LenProperties
  <2>2. Len(Bytes(scanned)) + n - 1 >= maxheaderBuffer
    <3> DEFINE x == Len(Bytes(scanned))
               y == Len(scanned)
    <3> HIDE DEF x, y
    <3>1. x \in Nat /\ y \in Nat /\ n = y + 1 /\ x + y >= maxheaderBuffer
      BY <1>1, <1>4, <1>5, <2>1 DEF x, y
    <3> HIDE DEF n
    <3>2. x + n - 1 = x + y
      BY <3>1
    <3> QED  BY <3>1, <3>2 DEF x
  <2> QED  BY <1>2, <1>3, <2>2 DEF IsDamaged
<1> QED  BY <1>1, <1>6, FailureKeeps

LEMMA KeepsSkipLine ==
    ASSUME ArticleInv, SkipLine, UNCHANGED restVars
    PROVE  HeaderOK' /\ DataOK' /\ JudgedOK' /\ SnifferOK' /\ StepOK' /\ GroupOK'
<1> DEFINE l == line
<1>1. /\ scan /\ Continues /\ header = {} /\ l.type # "begin"
      /\ bytesBeforeheader' = bytesBeforeheader + Len(l.bytes) + 1
      /\ UNCHANGED <<header, partHeader>>
      /\ UNCHANGED dataVars /\ UNCHANGED snifferVars
  BY DEF SkipLine
<1>2. /\ l \in Lines /\ scanned \in Seq(Lines) /\ err = "none" /\ Taken = scanned
  BY <1>1, Scanning
<1>3. HeaderAt(scanned) = 0 /\ ~IsData(scanned)
  BY <1>1, <1>2, InDataIsData DEF IsData
<1>4. JudgedOK' /\ StepOK' /\ GroupOK' /\ Taken' = Append(scanned, l)
  BY <1>1, <1>3, TakenLine
<1>5. DataOK' /\ SnifferOK'
  BY <1>1, <1>2, <1>3, NoDataKept DEF Continues
<1>6. HeaderOK'
  <2> DEFINE more == Append(scanned, l)
             x == Len(Bytes(scanned))
             y == Len(scanned)
             z == Len(l.bytes)
  <2>1. partHeader = FALSE /\ bytesBeforeheader = x + y
    BY <1>2, <1>3 DEF ArticleInv, HeaderOK, TypeOK
  <2> HIDE DEF l
  <2>2. Len(Bytes(more)) = x + z /\ x \in Nat /\ z \in Nat
    BY <1>2, BytesAppend, LineTypes, LenProperties
  <2>3. Len(more) = y + 1 /\ y \in Nat
    BY <1>2, MoreLines
  <2>4. HeaderAt(more) = 0
    BY <1>1, <1>2, <1>3, HeaderAtAppend
  <2>5. bytesBeforeheader' = (x + y) + z + 1
    BY <1>1, <2>1
  <2> HIDE DEF more, x, y, z, Taken
  <2>6. bytesBeforeheader' = Len(Bytes(more)) + Len(more)
    BY <2>2, <2>3, <2>5
  <2> QED  BY <1>1, <1>4, <2>1, <2>4, <2>6 DEF HeaderOK, more
<1> QED  BY <1>4, <1>5, <1>6

LEMMA Keepsparseheader ==
    ASSUME ArticleInv, parseheader, UNCHANGED restVars
    PROVE  HeaderOK' /\ DataOK' /\ JudgedOK' /\ SnifferOK' /\ StepOK' /\ GroupOK'
<1> DEFINE l == line
<1>1. /\ scan /\ header = {} /\ l.type = "begin"
      /\ UNCHANGED <<partHeader, bytesBeforeheader>>
      /\ UNCHANGED dataVars /\ UNCHANGED snifferVars
      /\ \/ l.valid /\ header' = {l} /\ Continues
         \/ ~l.valid /\ Fails("decode") /\ UNCHANGED header
  BY DEF parseheader
<1>2. /\ l \in Lines /\ scanned \in Seq(Lines) /\ scanned' = Append(scanned, l)
      /\ err = "none" /\ Taken = scanned
  BY <1>1, Scanning
<1>3. HeaderAt(scanned) = 0 /\ ~IsData(scanned)
  BY <1>1, <1>2, InDataIsData DEF IsData
<1> DEFINE more == Append(scanned, l)
           n == Len(scanned)
<1>4. Len(more) = n + 1 /\ n \in Nat /\ more[n + 1] = l
  BY <1>2, MoreLines
<1>5. CASE l.valid /\ header' = {l} /\ Continues
  <2>1. JudgedOK' /\ StepOK' /\ GroupOK' /\ Taken' = more
    BY <1>1, <1>3, <1>5, TakenLine
  <2>2. DataOK' /\ SnifferOK'
    BY <1>1, <1>2, <1>3, <1>5, NoDataKept DEF Continues
  <2>3. HeaderAt(more) = n + 1
    BY <1>1, <1>2, <1>3, HeaderAtAppend
  <2>4. partHeader = FALSE
    BY <1>2, <1>3 DEF ArticleInv, HeaderOK, TypeOK
  <2> HIDE DEF more, l, n, Taken
  <2>5. ~(Len(more) > n + 1) /\ n + 1 # 0
    BY <1>4
  <2>6. header' = {more[n + 1]} /\ partHeader' = FALSE
    BY <1>1, <1>4, <1>5, <2>4
  <2>7. HeaderOK'
    BY <2>1, <2>3, <2>5, <2>6 DEF HeaderOK
  <2> QED  BY <2>1, <2>2, <2>7
<1>6. CASE ~l.valid /\ Fails("decode") /\ UNCHANGED header
  <2>1. IsDamaged'
    BY <1>2, <1>4, <1>6 DEF IsDamaged
  <2> QED  BY <1>1, <1>6, <2>1, FailureKeeps
<1> QED  BY <1>1, <1>5, <1>6

LEMMA KeepsparsepartHeader ==
    ASSUME ArticleInv, parsepartHeader, UNCHANGED restVars
    PROVE  HeaderOK' /\ DataOK' /\ JudgedOK' /\ SnifferOK' /\ StepOK' /\ GroupOK'
<1> DEFINE l == line
           h == HeaderAt(scanned)
           n == Len(scanned)
           more == Append(scanned, l)
<1>1. /\ scan /\ header # {} /\ ~InData
      /\ UNCHANGED <<header, bytesBeforeheader>>
      /\ UNCHANGED dataVars /\ UNCHANGED snifferVars
      /\ \/ l.type = "part" /\ l.valid /\ partHeader' = TRUE /\ Continues
         \/ (l.type # "part" \/ ~l.valid) /\ Fails("decode") /\ UNCHANGED partHeader
  BY DEF parsepartHeader
<1>2. /\ l \in Lines /\ scanned \in Seq(Lines) /\ scanned' = more
      /\ Front(scanned') = scanned /\ err = "none" /\ Taken = scanned
  BY <1>1, Scanning
<1>3. /\ h # 0 /\ ~IsData(scanned)
      /\ header = {scanned[h]} /\ h \in 1 .. n /\ scanned[h].multipart \in BOOLEAN
  BY <1>1, <1>2, InDataIsData
<1>4. Len(more) = n + 1 /\ n \in Nat /\ more[n + 1] = l /\ more[h] = scanned[h]
  BY <1>2, <1>3, MoreLines
<1>5. CASE l.type = "part" /\ l.valid /\ partHeader' = TRUE /\ Continues
  <2>1. JudgedOK' /\ StepOK' /\ GroupOK' /\ Taken' = more
    BY <1>1, <1>3, <1>5, TakenLine
  <2>2. DataOK' /\ SnifferOK'
    BY <1>1, <1>2, <1>3, <1>5, NoDataKept DEF Continues
  <2>3. HeaderAt(more) = h
    BY <1>2, <1>3, HeaderAtAppend
  <2>4. scanned[h].multipart
    BY <1>1, <1>3 DEF InData
  <2> HIDE DEF more, l, n, h, Taken
  <2>5. Len(more) > h
    BY <1>3, <1>4
  <2>6. header' = {more[h]} /\ partHeader' = TRUE /\ more[h].multipart
    BY <1>1, <1>3, <1>4, <1>5, <2>4
  <2>7. HeaderOK'
    BY <1>3, <2>1, <2>3, <2>5, <2>6 DEF HeaderOK
  <2> QED  BY <2>1, <2>2, <2>7
<1>6. CASE (l.type # "part" \/ ~l.valid) /\ Fails("decode") /\ UNCHANGED partHeader
  <2>1. n + 1 < DataFrom(more)
    <3>1. DataFrom(scanned) \in Nat /\ DataFrom(more) = DataFrom(scanned)
      BY <1>2, <1>3, DataFromAppend
    <3>2. ~(DataFrom(scanned) <= n + 1)
      BY <1>3 DEF IsData
    <3> HIDE DEF n, more
    <3> QED  BY <1>4, <3>1, <3>2
  <2>2. IsDamaged'
    <3> HIDE DEF more, l, n, h
    <3>1. /\ Len(scanned') = n + 1 /\ scanned'[n + 1] = l /\ HeaderAt(Front(scanned')) # 0
          /\ n + 1 < DataFrom(scanned')
      BY <1>2, <1>3, <1>4, <2>1 DEF h
    <3> QED  BY <1>6, <3>1 DEF IsDamaged
  <2> QED  BY <1>1, <1>6, <2>2, FailureKeeps
<1> QED  BY <1>1, <1>5, <1>6

LEMMA Keepsparsetrailer ==
    ASSUME ArticleInv, parsetrailer, UNCHANGED restVars
    PROVE  HeaderOK' /\ DataOK' /\ JudgedOK' /\ SnifferOK' /\ StepOK' /\ GroupOK'
<1> DEFINE l == line
           n == Len(scanned)
           more == Append(scanned, l)
           right == l.valid /\ verifycrc32s(l, written)
<1>1. /\ scan /\ InData /\ l.type = "end"
      /\ UNCHANGED <<header, partHeader, bytesBeforeheader>>
      /\ UNCHANGED dataVars /\ UNCHANGED snifferVars
      /\ \/ right /\ trailer' = {l} /\ ~writing' /\ UNCHANGED err
         \/ ~right /\ Fails("decode")
  BY DEF parsetrailer
<1>2. /\ l \in Lines /\ scanned \in Seq(Lines) /\ scanned' = more
      /\ Front(scanned') = scanned /\ err = "none" /\ Taken = scanned
  BY <1>1, Scanning
<1>3. IsData(scanned)
  BY <1>1, <1>2, InDataIsData
<1>4. Len(more) = n + 1 /\ n \in Nat /\ more[n + 1] = l
  BY <1>2, MoreLines
<1>5. IsRight(more, n + 1) <=> right
  <2>1. written = Decoded(scanned)
    BY <1>2 DEF ArticleInv, DataOK, Decoded
  <2> HIDE DEF l, n
  <2>2. IsRight(Append(scanned, l), Len(scanned) + 1)
          <=> l.valid /\ verifycrc32s(l, Decoded(scanned))
    BY <1>1, <1>2, IsRightAppend
  <2> QED  BY <2>1, <2>2 DEF n
<1>6. Trailers(more) = Trailers(scanned) \cup {n + 1} /\ Trailers(scanned) \subseteq 1 .. n
  <2> HIDE DEF l
  <2> QED  BY <1>1, <1>2, <1>3, TrailersAppend
<1>7. CASE right /\ trailer' = {l} /\ ~writing' /\ UNCHANGED err
  <2>1. err' = "none"
    BY <1>2, <1>7
  <2>2. \A k \in Trailers(more) : IsRight(more, k)
    <3>1. \A k \in Trailers(scanned) : IsRight(scanned, k)
      BY <1>2 DEF ArticleInv, JudgedOK
    <3>2. \A k \in 1 .. n : IsRight(more, k) <=> IsRight(scanned, k)
      <4> HIDE DEF l
      <4> QED  BY <1>2, IsRightAppend
    <3> HIDE DEF more, right, n
    <3> QED  BY <1>5, <1>6, <1>7, <3>1, <3>2
  <2>3. JudgedOK'
    BY <1>2, <1>7, <2>1, <2>2 DEF JudgedOK
  <2>4. HeaderOK'
    BY <1>1, <1>3, <2>1, HeaderKept
  <2>5. DataOK' /\ SnifferOK'
    BY <1>1, <2>1, NoDataKept
  <2>6. StepOK' /\ GroupOK'
    BY <1>1, <1>7, LineLeavesStep
  <2> QED  BY <2>3, <2>4, <2>5, <2>6
<1>8. CASE ~right /\ Fails("decode")
  <2>1. IsDamaged'
    <3> HIDE DEF l, n, more, right
    <3>1. Len(scanned') = n + 1 /\ n + 1 \in Trailers(scanned') /\ ~IsRight(scanned', n + 1)
      BY <1>2, <1>4, <1>5, <1>6, <1>8
    <3> QED  BY <3>1 DEF IsDamaged
  <2> QED  BY <1>1, <1>8, <2>1, FailureKeeps
<1> QED  BY <1>1, <1>7, <1>8

\* The first bytes of a sequence are those of a longer one.
LEMMA FirstBytes ==
    ASSUME NEW s \in Seq(Byte), NEW t \in Seq(Byte), NEW n \in Nat, n <= Len(s)
    PROVE  /\ Len(s \o t) >= Len(s)
           /\ SubSeq(s \o t, 1, n) = SubSeq(s, 1, n)
<1> DEFINE more == s \o t
           p == SubSeq(more, 1, n)
           q == SubSeq(s, 1, n)
<1>1. /\ more \in Seq(Byte) /\ Len(more) = Len(s) + Len(t)
      /\ \A i \in 1 .. Len(s) : more[i] = s[i]
      /\ Len(s) \in Nat /\ Len(t) \in Nat
  BY ConcatProperties, LenProperties
<1> HIDE DEF more
<1>2. q \in Seq(Byte) /\ Len(q) = n /\ \A i \in 1 .. n : q[i] = s[i]
  BY <1>1
<1>3. n <= Len(more)
  BY <1>1
<1>4. p \in Seq(Byte) /\ Len(p) = n /\ \A i \in 1 .. n : p[i] = more[i]
  BY <1>1, <1>3
<1>5. \A i \in 1 .. n : i \in 1 .. Len(s)
  BY <1>1
<1> HIDE DEF p, q
<1>6. p = q
  BY <1>1, <1>2, <1>4, <1>5, SeqEqual
<1> QED  BY <1>1, <1>6 DEF p, q, more

LEMMA KeepsDecodeLine ==
    ASSUME ArticleInv, DecodeLine, UNCHANGED restVars
    PROVE  HeaderOK' /\ DataOK' /\ JudgedOK' /\ SnifferOK' /\ StepOK' /\ GroupOK'
<1> DEFINE l == line
           xs == Data(scanned)
           d == decodeline(l.bytes, nextByteIsCritical)
           more == Append(scanned, l)
<1>1. /\ scan /\ InData /\ l.type # "end" /\ Continues
      /\ UNCHANGED <<header, partHeader, bytesBeforeheader>>
      /\ written' = written \o d.out /\ nextByteIsCritical' = d.critical /\ Sniff(d.out)
  BY DEF DecodeLine, parseVars
<1>2. l \in Lines /\ scanned \in Seq(Lines) /\ err = "none" /\ Taken = scanned
  BY <1>1, Scanning
<1>3. IsData(scanned) /\ err' = "none"
  BY <1>1, <1>2, InDataIsData DEF Continues
<1>4. JudgedOK' /\ StepOK' /\ GroupOK' /\ Taken' = more
  BY <1>1, TakenLine
<1>5. HeaderOK'
  BY <1>1, <1>3, HeaderKept
<1>6. /\ written = Plain(xs) /\ nextByteIsCritical \in BOOLEAN
      /\ nextByteIsCritical <=> EndsInEscape(xs)
  BY <1>2 DEF ArticleInv, DataOK, TypeOK
<1>7. l.bytes \in Seq(Byte)
  BY <1>2, LineTypes
<1>8. xs \in Seq(Byte) /\ Data(more) = xs \o l.bytes
  <2> HIDE DEF l
  <2> QED  BY <1>1, <1>2, <1>3, DataAppend
<1>9. /\ d \in Decodings /\ Plain(xs) \in Seq(Byte)
      /\ Plain(xs \o l.bytes) = Plain(xs) \o d.out
      /\ EndsInEscape(xs \o l.bytes) <=> d.critical
  <2> DEFINE ys == l.bytes
  <2> HIDE DEF xs, l, ys
  <2>1. ys \in Seq(Byte)
    BY <1>7 DEF ys
  <2>2. /\ decodeline(ys, nextByteIsCritical) \in Decodings /\ Plain(xs) \in Seq(Byte)
        /\ Plain(xs \o ys) = Plain(xs) \o decodeline(ys, nextByteIsCritical).out
        /\ EndsInEscape(xs \o ys) <=> decodeline(ys, nextByteIsCritical).critical
    BY <1>6, <1>8, <2>1, PlainConcat
  <2> QED  BY <2>2 DEF ys, l
<1> HIDE DEF d, xs, l, more, Taken
<1>10. DataOK'
  BY <1>1, <1>4, <1>6, <1>8, <1>9 DEF DataOK
<1>11. SnifferOK'
  <2> DEFINE kept == sniffing \o d.out
  <2>1. d.out \in Seq(Byte) /\ written \in Seq(Byte) /\ requiredHeaderBytes \in Nat
    BY <1>9, HeaderAssumption DEF Decodings, ArticleInv, TypeOK
  <2>2. IF sniffed
        THEN /\ Len(written) >= requiredHeaderBytes
             /\ fileType = GetHeaderType(SubSeq(written, 1, requiredHeaderBytes))
        ELSE sniffing = written /\ Len(written) < requiredHeaderBytes
    BY <1>2 DEF ArticleInv, SnifferOK
  <2>3. CASE sniffed
    <3>1. sniffed' /\ fileType' = fileType
      BY <1>1, <2>3 DEF Sniff, snifferVars, ArticleInv, TypeOK
    <3>2. Len(written) \in Nat /\ requiredHeaderBytes <= Len(written)
      BY <2>1, <2>2, <2>3, LenProperties
    <3>3. /\ Len(written \o d.out) >= Len(written)
          /\ SubSeq(written \o d.out, 1, requiredHeaderBytes)
               = SubSeq(written, 1, requiredHeaderBytes)
      <4> DEFINE t == d.out
      <4> HIDE DEF t
      <4>1. t \in Seq(Byte)
        BY <2>1 DEF t
      <4> QED  BY <2>1, <3>2, <4>1, FirstBytes DEF t
    <3>4. Len(written \o d.out) >= requiredHeaderBytes
      <4>1. Len(written \o d.out) \in Nat
        BY <2>1, ConcatProperties, LenProperties
      <4> QED  BY <2>1, <3>2, <3>3, <4>1
    <3> QED  BY <1>1, <2>2, <2>3, <3>1, <3>3, <3>4 DEF SnifferOK
  <2>4. CASE ~sniffed
    <3>1. /\ sniffed' = (Len(kept) >= requiredHeaderBytes)
          /\ sniffing' = IF sniffed' THEN <<>> ELSE kept
          /\ fileType' = IF sniffed'
                         THEN GetHeaderType(SubSeq(kept, 1, requiredHeaderBytes))
                         ELSE fileType
      BY <1>1, <2>4 DEF Sniff
    <3>2. kept = written' /\ Len(kept) \in Nat
      BY <1>1, <2>1, <2>2, <2>4, ConcatProperties, LenProperties
    <3> HIDE DEF kept
    <3>3. ~(Len(kept) >= requiredHeaderBytes) => Len(kept) < requiredHeaderBytes
      BY <2>1, <3>2
    <3> QED  BY <3>1, <3>2, <3>3 DEF SnifferOK
  <2> QED  BY <2>3, <2>4
<1> QED  BY <1>4, <1>5, <1>10, <1>11

LEMMA KeepsWriteFails ==
    ASSUME ArticleInv, WriteFails, UNCHANGED restVars
    PROVE  HeaderOK' /\ DataOK' /\ JudgedOK' /\ SnifferOK' /\ StepOK' /\ GroupOK'
<1>1. /\ scan /\ Fails("write")
      /\ UNCHANGED <<header, partHeader, bytesBeforeheader>> /\ UNCHANGED dataVars
  BY DEF WriteFails, parseVars
<1> QED  BY <1>1, FailureKeeps

LEMMA KeepsWritten ==
    ASSUME ArticleInv, Written, UNCHANGED restVars
    PROVE  HeaderOK' /\ DataOK' /\ JudgedOK' /\ SnifferOK' /\ StepOK' /\ GroupOK'
<1>1. /\ b' = <<>> /\ ~writing'
      /\ UNCHANGED <<parseVars, dataVars, scanned, err, snifferVars>>
  BY DEF Written
<1>2. Taken' = Taken
  BY <1>1 DEF Taken
<1>3. HeaderOK' /\ DataOK'
  <2>1. HeaderOK /\ DataOK
    BY DEF ArticleInv
  <2> HIDE DEF Taken
  <2> QED  BY <1>1, <1>2, <2>1 DEF HeaderOK, DataOK, parseVars, dataVars
<1>4. IsDamaged' <=> IsDamaged
  BY <1>1 DEF IsDamaged
<1>5. JudgedOK'
  BY <1>1, <1>4 DEF ArticleInv, JudgedOK
<1>6. SnifferOK'
  BY <1>1 DEF ArticleInv, SnifferOK, dataVars, snifferVars
<1>7. StepOK' /\ GroupOK'
  BY <1>1 DEF ArticleInv, StepOK, GroupOK, restVars, sessionVars
<1> QED  BY <1>3, <1>5, <1>6, <1>7

LEMMA DecodingKeeps ==
    ASSUME ArticleInv, yDecode, UNCHANGED restVars
    PROVE  ArticleInv'
<1>1. TypeOK'
  BY TypeOfDecoding DEF ArticleInv
<1>2. HeaderOK' /\ DataOK' /\ JudgedOK' /\ SnifferOK' /\ StepOK' /\ GroupOK'
  BY KeepsTooMuchBeforeHeader, KeepsSkipLine, Keepsparseheader, KeepsparsepartHeader,
     Keepsparsetrailer, KeepsDecodeLine, KeepsWriteFails, KeepsWritten DEF yDecode
<1> QED  BY <1>1, <1>2 DEF ArticleInv

-----------------------------------------------------------------------------
\* The invariant

\* What a step that leaves the decoder alone leaves true.
LEMMA DecoderLeft ==
    ASSUME ArticleInv, UNCHANGED decoderVars
    PROVE  HeaderOK' /\ DataOK' /\ JudgedOK' /\ SnifferOK'
<1> USE DEF parseVars, dataVars, snifferVars, decoderVars
<1>1. Taken' = Taken
  BY DEF Taken
<1>2. HeaderOK' /\ DataOK'
  <2>1. HeaderOK /\ DataOK
    BY DEF ArticleInv
  <2> HIDE DEF Taken
  <2> QED  BY <1>1, <2>1 DEF HeaderOK, DataOK
<1>3. JudgedOK'
  BY DEF ArticleInv, JudgedOK, IsDamaged
<1>4. SnifferOK'
  BY DEF ArticleInv, SnifferOK
<1> QED  BY <1>2, <1>3, <1>4

LEMMA InvNext ==
    ASSUME ArticleInv, [Next]_vars
    PROVE  ArticleInv'
<1> USE DEF decoderVars, parseVars, dataVars, snifferVars, sessionVars
<1>1. TypeOK'
  BY TypeNext DEF ArticleInv
<1>2. ASSUME SelectNothing \/ SelectGroup \/ Body \/ CopyEnds PROVE ArticleInv'
  <2>1. UNCHANGED decoderVars
    BY <1>2 DEF SelectNothing, SelectGroup, Body, CopyEnds, Proceeds, Ends
  <2>2. StepOK'
    <3>1. ~writing
      BY <1>2 DEF ArticleInv, StepOK, SelectNothing, SelectGroup, Body, CopyEnds
    <3>2. step' = "done" /\ result' = "none" => err = "none"
      BY <1>2 DEF SelectNothing, SelectGroup, Body, CopyEnds, Proceeds, Ends,
                  GroupErrors, BodyErrors
    <3> QED  BY <2>1, <3>1, <3>2 DEF ArticleInv, StepOK
  <2>3. GroupOK'
    BY <1>2 DEF ArticleInv, GroupOK, SelectNothing, SelectGroup, Body, CopyEnds,
                Proceeds, Ends
  <2> QED  BY <1>1, <2>1, <2>2, <2>3, DecoderLeft DEF ArticleInv
<1>3. ASSUME NEW chunk \in Chunks, CopyChunk(chunk) PROVE ArticleInv'
  <2>1. /\ UNCHANGED <<parseVars, dataVars, scanned, err, snifferVars>>
        /\ step = "copy" /\ err = "none" /\ writing'
        /\ UNCHANGED <<step, group, sessionVars, result>>
    BY <1>3 DEF CopyChunk, Write
  <2>2. Taken' = Taken
    BY <2>1 DEF Taken
  <2>3. HeaderOK' /\ DataOK'
    <3>1. HeaderOK /\ DataOK
      BY DEF ArticleInv
    <3> HIDE DEF Taken
    <3> QED  BY <2>1, <2>2, <3>1 DEF HeaderOK, DataOK
  <2>4. JudgedOK'
    BY <2>1 DEF ArticleInv, JudgedOK
  <2>5. SnifferOK' /\ StepOK' /\ GroupOK'
    BY <2>1 DEF ArticleInv, SnifferOK, StepOK, GroupOK
  <2> QED  BY <1>1, <2>3, <2>4, <2>5 DEF ArticleInv
<1>4. ASSUME Decode PROVE ArticleInv'
  BY <1>4, DecodingKeeps DEF Decode, restVars
<1>5. ASSUME NEW g \in Groups \cup {NoGroup}, Dispatch(g) PROVE ArticleInv'
  <2>1. Fresh'
    BY <1>1, <1>5 DEF Dispatch, Renew, RenewSniffer, Fresh, NewDecoder, ArticleInv, GroupOK
  <2>2. Fresh' => ArticleInv'
    BY FreshInv, PTL
  <2> QED  BY <2>1, <2>2
<1>6. ASSUME UNCHANGED vars PROVE ArticleInv'
  <2>1. UNCHANGED decoderVars
    BY <1>6 DEF vars
  <2>2. StepOK' /\ GroupOK'
    BY <1>6 DEF ArticleInv, StepOK, GroupOK, vars
  <2> QED  BY <1>1, <2>1, <2>2, DecoderLeft DEF ArticleInv
<1> QED  BY <1>2, <1>3, <1>4, <1>5, <1>6 DEF Next

\* The invariant holds in every state, of any articles.
THEOREM InvAlways == Spec => []ArticleInv
<1>1. ArticleInv /\ [Next]_vars => ArticleInv'
  BY InvNext
<1> QED  BY InvInit, <1>1, PTL DEF Spec

\* However an article is cut into lines and the lines into Writes, wherever an escape
\* falls, and whatever an attempt before had written, the file holds the data of the
\* lines that were taken, decoded as the yEnc format says.
THEOREM WritesTheDataAlways == Spec => []WritesTheData
<1>1. ArticleInv => WritesTheData
  BY DEF ArticleInv, DataOK, Taken, WritesTheData, Decoded
<1> QED  BY InvAlways, <1>1, PTL

\* WriteArticleBody has no error to return only if the article is whole, or whole up
\* to a trailer, and every trailer was right; and the decoder rejects only an article
\* that is damaged: the server is not failed for one that is not.
THEOREM JudgesArticles == Spec => []JudgesRightly
<1>1. ArticleInv => JudgesRightly
  <2> SUFFICES ASSUME ArticleInv PROVE JudgesRightly
    OBVIOUS
  <2>1. ASSUME step = "done", result = "none" PROVE DoneIsIntact
    BY <2>1 DEF ArticleInv, StepOK, JudgedOK, DoneIsIntact
  <2>2. err = "decode" => IsDamaged
    BY DEF ArticleInv, JudgedOK
  <2> QED  BY <2>1, <2>2 DEF JudgesRightly
<1> QED  BY InvAlways, <1>1, PTL

\* The sniffer gives a file the type its first bytes have in the table as soon as
\* enough were written, however few came at a time, whatever the table.
THEOREM SniffsTheHeader == Spec => []SniffsHeader
<1>1. ArticleInv => SniffsHeader
  <2> SUFFICES ASSUME ArticleInv, Len(written) >= requiredHeaderBytes, err # "write"
               PROVE  fileType = GetHeaderType(SubSeq(written, 1, requiredHeaderBytes))
    BY DEF SniffsHeader
  <2>1. ~(Len(written) < requiredHeaderBytes)
    BY HeaderAssumption, LenProperties DEF ArticleInv, TypeOK
  <2> QED  BY <2>1 DEF ArticleInv, SnifferOK
<1> QED  BY InvAlways, <1>1, PTL

\* No article is asked for in another group than its request names, although
\* WriteArticleBody only sends GROUP when the session's idea of its group differs, and
\* GROUP may fail.
THEOREM AsksInGroup == Spec => InRequestedGroup
<1>1. ArticleInv /\ [Next]_vars =>
        [step = "body" /\ step' = "copy" /\ group # NoGroup => selected = group]_vars
  BY DEF ArticleInv, GroupOK
<1> QED  BY InvAlways, <1>1, PTL DEF Spec, InRequestedGroup

-----------------------------------------------------------------------------
\* The table of headers

\* GetHeaderType takes the first entry of the table that matches; the model takes any.
\* There is one at most, for no header in the table begins with another.
THEOREM OneMatches ==
    ASSUME NEW bytes \in Seq(Byte), NEW d \in headerTable, IsPrefix(d.header, bytes)
    PROVE  /\ \A e \in headerTable : IsPrefix(e.header, bytes) => e = d
           /\ GetHeaderType(bytes) = d.filetype
<1>1. ASSUME NEW x \in headerTable, NEW y \in headerTable,
             IsPrefix(x.header, bytes), IsPrefix(y.header, bytes),
             Len(x.header) <= Len(y.header)
      PROVE  x = y
  <2> DEFINE s == x.header
             t == y.header
             m == Len(s)
             n == Len(t)
  <2>1. s \in Seq(Byte) /\ t \in Seq(Byte)
    BY HeaderAssumption DEF Byte
  <2>2. /\ m <= n /\ n <= Len(bytes)
        /\ SubSeq(s, 1, m) = SubSeq(bytes, 1, m) /\ SubSeq(t, 1, n) = SubSeq(bytes, 1, n)
    BY <1>1 DEF IsPrefix
  <2> HIDE DEF s, t
  <2>3. m \in Nat /\ n \in Nat /\ Len(bytes) \in Nat
    BY <2>1, LenProperties
  <2> HIDE DEF m, n
  <2>4. \A i \in 1 .. m : i \in 1 .. n
    BY <2>2, <2>3
  <2>5. \A i \in 1 .. n : t[i] = bytes[i]
    <3>1. \A i \in 1 .. n : SubSeq(t, 1, n)[i] = t[i] /\ SubSeq(bytes, 1, n)[i] = bytes[i]
      BY <2>1, <2>2, <2>3 DEF n
    <3> QED  BY <2>2, <3>1
  <2>6. SubSeq(t, 1, m) = SubSeq(bytes, 1, m)
    <3> DEFINE p == SubSeq(t, 1, m)
               q == SubSeq(bytes, 1, m)
    <3>1. p \in Seq(Byte) /\ Len(p) = m /\ \A i \in 1 .. m : p[i] = t[i]
      BY <2>1, <2>2, <2>3 DEF n
    <3>2. m <= Len(bytes)
      BY <2>2, <2>3
    <3>3. q \in Seq(Byte) /\ Len(q) = m /\ \A i \in 1 .. m : q[i] = bytes[i]
      BY <2>3, <3>2
    <3> HIDE DEF p, q
    <3>4. p = q
      BY <2>3, <2>4, <2>5, <3>1, <3>3, SeqEqual
    <3> QED  BY <3>4 DEF p, q
  <2>7. IsPrefix(s, t)
    BY <2>2, <2>6 DEF IsPrefix, m, n
  <2> QED  BY <2>7, HeaderAssumption DEF s, t
<1>2. ASSUME NEW e \in headerTable, IsPrefix(e.header, bytes) PROVE e = d
  <2>1. Len(d.header) \in Nat /\ Len(e.header) \in Nat
    BY HeaderAssumption, LenProperties
  <2>2. Len(d.header) <= Len(e.header) \/ Len(e.header) <= Len(d.header)
    BY <2>1
  <2> QED  BY <1>1, <1>2, <2>2
<1>3. GetHeaderType(bytes) = d.filetype
  <2> DEFINE c == CHOOSE e \in headerTable : IsPrefix(e.header, bytes)
  <2>1. c \in headerTable /\ IsPrefix(c.header, bytes)
    OBVIOUS
  <2> HIDE DEF c
  <2>2. c = d
    BY <1>2, <2>1
  <2> QED  BY <2>2 DEF GetHeaderType, c
<1> QED  BY <1>2, <1>3
=============================================================================
