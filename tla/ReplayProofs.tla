---------------------------- MODULE ReplayProofs ----------------------------
(***************************************************************************)
(* Theorems about Replay, for any files, batch sizes and registries.       *)
(***************************************************************************)
EXTENDS Replay, FoldProofs, SequenceTheorems

\* Two functions that start alike and go on alike end alike.
LEMMA SameAtEnd ==
  ASSUME NEW n \in Nat, NEW f, NEW g, f[0] = g[0],
         \A k \in 1 .. n : f[k - 1] = g[k - 1] => f[k] = g[k]
  PROVE  f[n] = g[n]
<1>1. \A k \in 0 .. n : f[k] = g[k]
  BY SameRun
<1>2. n \in 0 .. n
  OBVIOUS
<1> QED
  BY <1>1, <1>2

(* Sequences put end to end.                                               *)

\* The length and the elements of two sequences put end to end.
LEMMA Concatenated ==
  ASSUME NEW S, NEW s \in Seq(S), NEW t \in Seq(S)
  PROVE  /\ s \o t \in Seq(S) /\ Len(s \o t) = Len(s) + Len(t)
         /\ \A i \in 1 .. Len(s) : (s \o t)[i] = s[i]
         /\ \A i \in 1 .. Len(t) : (s \o t)[Len(s) + i] = t[i]
  OBVIOUS

\* Three sequences.
LEMMA ConcatThree ==
  ASSUME NEW S, NEW s \in Seq(S), NEW t \in Seq(S), NEW u \in Seq(S)
  PROVE  (s \o t) \o u = s \o (t \o u)
  BY ConcatAssociative

\* acc[k] is what the first k sequences of ss come to.
IsFlattening(acc, ss, S) ==
    /\ acc \in [0 .. Len(ss) -> Seq(S)]
    /\ acc[0] = <<>>
    /\ \A k \in 1 .. Len(ss) : acc[k] = acc[k - 1] \o ss[k]

\* FlattenSeq puts sequences end to end, one after the other.
LEMMA FlattenRun ==
  ASSUME NEW S, NEW ss \in Seq(Seq(S))
  PROVE  \E acc : IsFlattening(acc, ss, S) /\ FlattenSeq(ss) = acc[Len(ss)]
<1> DEFINE n == Len(ss)
           step == [k \in 1 .. n |-> [v \in Seq(S) |-> v \o ss[k]]]
<1>1. n \in Nat /\ \A k \in 1 .. n : ss[k] \in Seq(S)
  OBVIOUS
<1>2. step \in [1 .. n -> [Seq(S) -> Seq(S)]]
  <2>1. \A v, w \in Seq(S) : v \o w \in Seq(S)
    OBVIOUS
  <2> QED
    BY <1>1, <2>1
<1>3. <<>> \in Seq(S)
  OBVIOUS
<1>4. PICK acc \in [0 .. n -> Seq(S)] : IsRun(acc, n, <<>>, step)
  <2> HIDE DEF step, n
  <2> QED
    BY <1>1, <1>2, <1>3, RunExists
<1>5. IsFlattening(acc, ss, S)
  <2>1. ASSUME NEW k \in 1 .. n PROVE acc[k] = acc[k - 1] \o ss[k]
    <3>1. k - 1 \in 0 .. n /\ n \in Nat
      BY <1>1
    <3>2. acc[k - 1] \in Seq(S)
      BY <3>1
    <3>3. acc[k] = step[k][acc[k - 1]]
      BY <1>4 DEF IsRun
    <3> QED
      BY <3>2, <3>3
  <2> QED
    BY <1>4, <2>1 DEF IsRun, IsFlattening
<1>6. CASE n = 0
  BY <1>5, <1>6 DEF FlattenSeq, IsFlattening
<1>7. CASE n # 0
  <2> DEFINE Iter(f) == f = [i \in 1 .. Len(ss) |->
                               IF i = 1 THEN ss[i] ELSE f[i - 1] \o ss[i]]
             g == CHOOSE f : Iter(f)
             a == [i \in 1 .. n |-> acc[i]]
  <2>1. acc[1] = ss[1]
    <3>1. 1 \in 1 .. n /\ 1 - 1 = 0
      BY <1>1, <1>7
    <3>2. acc[1] = acc[1 - 1] \o ss[1]
      BY <1>5, <3>1 DEF IsFlattening
    <3>3. acc[0] = <<>> /\ ss[1] \in Seq(S)
      BY <1>1, <1>5, <3>1 DEF IsFlattening
    <3>4. <<>> \o ss[1] = ss[1]
      BY <3>3, ConcatEmptySeq
    <3> QED
      BY <3>1, <3>2, <3>3, <3>4
  <2>2. ASSUME NEW i \in 1 .. n
        PROVE  a[i] = IF i = 1 THEN ss[i] ELSE a[i - 1] \o ss[i]
    <3>1. CASE i = 1
      BY <2>1, <3>1
    <3>2. CASE i # 1
      <4>1. i - 1 \in 1 .. n /\ a[i] = acc[i] /\ a[i - 1] = acc[i - 1]
        BY <1>1, <3>2
      <4>2. acc[i] = acc[i - 1] \o ss[i]
        BY <1>5 DEF IsFlattening
      <4> QED
        BY <3>2, <4>1, <4>2
    <3> QED
      BY <3>1, <3>2
  <2>3. Iter(a)
    BY <2>2
  <2>4. \E f : Iter(f)
    BY <2>3
  <2>5. Iter(g)
    BY <2>4
  <2>6. FlattenSeq(ss) = g[n]
    BY <1>7, Zenon DEF FlattenSeq
  <2> HIDE DEF g
  <2>7. g[n] = acc[n]
    <3> DEFINE Bad == {k \in 1 .. n : g[k] # acc[k]}
    <3>a. n \in 1 .. n
      BY <1>1, <1>7
    <3> SUFFICES ASSUME Bad # {} PROVE FALSE
      BY <3>a
    <3>1. Bad \subseteq Nat
      OBVIOUS
    <3>2. PICK m \in Bad : \A k \in Bad : m =< k
      <4> HIDE DEF Bad
      <4> QED
        BY <3>1, LeastNatural
    <3>3. m \in 1 .. n /\ g[m] # acc[m]
      BY <3>2
    <3>4. m # 1
      BY <2>1, <2>5, <3>3
    <3>5. m - 1 \in 1 .. n /\ m - 1 \notin Bad
      <4>1. m - 1 \in 1 .. n /\ ~(m =< m - 1)
        BY <3>3, <3>4
      <4> HIDE DEF Bad
      <4> QED
        BY <3>2, <4>1
    <3>6. g[m - 1] = acc[m - 1]
      BY <3>5
    <3>7. g[m] = g[m - 1] \o ss[m]
      BY <2>5, <3>3, <3>4
    <3>8. acc[m] = acc[m - 1] \o ss[m]
      BY <1>5, <3>3 DEF IsFlattening
    <3> QED
      BY <3>3, <3>6, <3>7, <3>8
  <2> QED
    BY <1>5, <2>6, <2>7
<1> QED
  BY <1>6, <1>7

\* There is one way to put sequences end to end.
LEMMA FlattenUnique ==
  ASSUME NEW S, NEW ss \in Seq(Seq(S)), NEW acc, IsFlattening(acc, ss, S)
  PROVE  FlattenSeq(ss) = acc[Len(ss)]
<1>1. PICK bcc : IsFlattening(bcc, ss, S) /\ FlattenSeq(ss) = bcc[Len(ss)]
  BY FlattenRun
<1>2. Len(ss) \in Nat /\ Len(ss) \in 0 .. Len(ss)
  OBVIOUS
<1>3. acc[0] = bcc[0] /\ \A k \in 1 .. Len(ss) : acc[k - 1] = bcc[k - 1] => acc[k] = bcc[k]
  BY <1>1 DEF IsFlattening
<1>4. \A k \in 0 .. Len(ss) : acc[k] = bcc[k]
  BY <1>2, <1>3, SameRun, ZenonT(30)
<1> QED
  BY <1>1, <1>2, <1>4

\* No sequences, one more at the end, and one more at the front.
LEMMA FlattenEmpty ==
  ASSUME NEW S, NEW ss \in Seq(Seq(S))
  PROVE  FlattenSeq(ss) \in Seq(S) /\ (Len(ss) = 0 => FlattenSeq(ss) = <<>>)
<1>1. PICK acc : IsFlattening(acc, ss, S) /\ FlattenSeq(ss) = acc[Len(ss)]
  BY FlattenRun
<1>2. Len(ss) \in 0 .. Len(ss)
  OBVIOUS
<1> QED
  BY <1>1, <1>2 DEF IsFlattening

\* Sequences put end to end, and one more behind them.
LEMMA FlattenAppend ==
  ASSUME NEW S, NEW ss \in Seq(Seq(S)), NEW s \in Seq(S)
  PROVE  FlattenSeq(Append(ss, s)) = FlattenSeq(ss) \o s
<1>1. PICK acc : IsFlattening(acc, ss, S) /\ FlattenSeq(ss) = acc[Len(ss)]
  BY FlattenRun
<1>2. PICK tt : tt = Append(ss, s)
  OBVIOUS
<1>3. PICK n \in Nat : n = Len(ss)
  OBVIOUS
<1>4. /\ tt \in Seq(Seq(S)) /\ Len(tt) = n + 1 /\ tt[n + 1] = s
      /\ \A k \in 1 .. n : tt[k] = ss[k]
  BY <1>2, <1>3
<1>a. PICK u : u = acc[n] \o s
  OBVIOUS
<1> DEFINE bcc == [k \in 0 .. n + 1 |-> IF k = n + 1 THEN u ELSE acc[k]]
<1>5. \A k \in 0 .. n : acc[k] \in Seq(S)
  BY <1>1, <1>3 DEF IsFlattening
<1>6. IsFlattening(bcc, tt, S)
  <2>1. u \in Seq(S)
    BY <1>5, <1>a, ConcatProperties
  <2>2. bcc \in [0 .. n + 1 -> Seq(S)]
    BY <1>5, <2>1
  <2>3. bcc[0] = <<>>
    BY <1>1 DEF IsFlattening
  <2>4. ASSUME NEW k \in 1 .. n + 1 PROVE bcc[k] = bcc[k - 1] \o tt[k]
    <3>1. CASE k = n + 1
      <4>1. bcc[k] = u /\ bcc[k - 1] = acc[n] /\ tt[k] = s
        BY <1>4, <3>1
      <4> QED
        BY <1>a, <4>1
    <3>2. CASE k # n + 1
      <4>1. k \in 1 .. n /\ bcc[k] = acc[k] /\ bcc[k - 1] = acc[k - 1] /\ tt[k] = ss[k]
        BY <1>4, <3>2
      <4>2. acc[k] = acc[k - 1] \o ss[k]
        BY <1>1, <1>3, <4>1 DEF IsFlattening
      <4> QED
        BY <4>1, <4>2
    <3> QED
      BY <3>1, <3>2
  <2> HIDE DEF bcc
  <2> QED
    BY <1>4, <2>2, <2>3, <2>4 DEF IsFlattening
<1>7. bcc[n + 1] = u
  OBVIOUS
<1> HIDE DEF bcc
<1>8. FlattenSeq(tt) = bcc[n + 1]
  BY <1>4, <1>6, FlattenUnique
<1> QED
  BY <1>a, <1>1, <1>2, <1>3, <1>7, <1>8

\* tt has one element more at the front.
IsCons(tt, ss) ==
    Len(tt) = Len(ss) + 1 /\ \A k \in 1 .. Len(ss) : tt[k + 1] = ss[k]

\* Sequences put end to end behind a first one.
LEMMA FlattenCons ==
  ASSUME NEW S, NEW ss \in Seq(Seq(S)), NEW tt \in Seq(Seq(S)), IsCons(tt, ss)
  PROVE  FlattenSeq(tt) = tt[1] \o FlattenSeq(ss)
<1>1. PICK acc : IsFlattening(acc, ss, S) /\ FlattenSeq(ss) = acc[Len(ss)]
  BY FlattenRun
<1>2. PICK n \in Nat : n = Len(ss)
  OBVIOUS
<1>3. PICK s \in Seq(S) : s = tt[1]
  <2>1. 1 \in 1 .. Len(tt)
    BY <1>2 DEF IsCons
  <2> QED
    BY <2>1, ElementOfSeq
<1>b. ASSUME NEW a \in Seq(S), NEW b \in Seq(S) PROVE (s \o a) \o b = s \o (a \o b)
  BY ConcatThree, SMTT(20)
<1>4. \A k \in 0 .. n : acc[k] \in Seq(S)
  BY <1>1, <1>2 DEF IsFlattening
<1>a. PICK cat \in [0 .. n -> Seq(S)] : \A k \in 0 .. n : cat[k] = s \o acc[k]
  <2> DEFINE c == [k \in 0 .. n |-> s \o acc[k]]
  <2>1. \A k \in 0 .. n : s \o acc[k] \in Seq(S)
    BY <1>3, <1>4, ConcatProperties
  <2>2. c \in [0 .. n -> Seq(S)]
    BY <2>1
  <2>3. \A k \in 0 .. n : c[k] = s \o acc[k]
    OBVIOUS
  <2> QED
    BY <2>2, <2>3
<1> DEFINE bcc == [k \in 0 .. n + 1 |-> IF k = 0 THEN <<>> ELSE cat[k - 1]]
<1>5. IsFlattening(bcc, tt, S)
  <2>2. bcc \in [0 .. n + 1 -> Seq(S)]
    <3>1. \A k \in 0 .. n + 1 : k # 0 => k - 1 \in 0 .. n
      OBVIOUS
    <3>2. <<>> \in Seq(S)
      OBVIOUS
    <3> QED
      BY <3>1, <3>2
  <2>3. bcc[0] = <<>>
    OBVIOUS
  <2>4. ASSUME NEW k \in 1 .. n + 1 PROVE bcc[k] = bcc[k - 1] \o tt[k]
    <3>1. CASE k = 1
      <4>1. bcc[k] = cat[0] /\ bcc[k - 1] = <<>> /\ tt[k] = s
        BY <1>3, <3>1
      <4>2. cat[0] = s \o acc[0] /\ acc[0] = <<>>
        <5>1. 0 \in 0 .. n
          OBVIOUS
        <5>2. acc[0] = <<>>
          BY <1>1 DEF IsFlattening
        <5> QED
          BY <1>a, <5>1, <5>2, Zenon
      <4>3. s \o <<>> = s /\ <<>> \o s = s
        BY <1>3, ConcatEmptySeq
      <4> QED
        BY <4>1, <4>2, <4>3
    <3>2. CASE k # 1
      <4>1. PICK j \in 1 .. n : k = j + 1
        <5>1. k - 1 \in 1 .. n /\ k = (k - 1) + 1
          BY <3>2
        <5> QED
          BY <5>1
      <4>2. bcc[k] = cat[j] /\ bcc[k - 1] = cat[j - 1]
        BY <4>1
      <4>3. tt[k] = ss[j]
        BY <1>2, <4>1 DEF IsCons
      <4>4. acc[j] = acc[j - 1] \o ss[j] /\ ss[j] \in Seq(S)
        BY <1>1, <1>2, ElementOfSeq DEF IsFlattening
      <4>5. acc[j - 1] \in Seq(S)
        BY <1>4
      <4>6. cat[j] = s \o acc[j] /\ cat[j - 1] = s \o acc[j - 1]
        <5>1. j \in 0 .. n /\ j - 1 \in 0 .. n
          OBVIOUS
        <5> QED
          BY <1>a, <5>1, Zenon
      <4>7. PICK a \in Seq(S), b \in Seq(S) : a = acc[j - 1] /\ b = ss[j]
        BY <4>4, <4>5
      <4>8. (s \o a) \o b = s \o (a \o b)
        BY <1>b
      <4> QED
        BY <4>2, <4>3, <4>4, <4>6, <4>7, <4>8, Zenon
    <3> QED
      BY <3>1, <3>2
  <2> HIDE DEF bcc
  <2> QED
    BY <1>2, <2>2, <2>3, <2>4 DEF IsFlattening, IsCons
<1>6. bcc[n + 1] = s \o acc[n]
  <2>1. bcc[n + 1] = cat[n]
    OBVIOUS
  <2> QED
    BY <1>a, <2>1
<1> HIDE DEF bcc
<1>7. FlattenSeq(tt) = bcc[n + 1]
  BY <1>2, <1>5, FlattenUnique DEF IsCons
<1> QED
  BY <1>1, <1>2, <1>3, <1>6, <1>7

-----------------------------------------------------------------------------
(* Numbers and frames.                                                     *)

\* The elements of a sequence of bytes are bytes.
LEMMA ByteElement ==
  ASSUME NEW bytes \in Seq(Byte), NEW k \in 1 .. Len(bytes)
  PROVE  bytes[k] \in Byte /\ bytes[k] \in Nat
<1>1. bytes[k] \in Byte
  BY ElementOfSeq
<1>2. \A x \in Byte : x \in Nat
  BY DEF Byte
<1> QED
  BY <1>1, <1>2

\* A big-endian number is computed from the first byte on.
LEMMA BigEndianRun ==
  ASSUME NEW bytes \in Seq(Byte)
  PROVE  \E value \in [0 .. Len(bytes) -> Nat] :
            /\ value[0] = 0
            /\ \A k \in 1 .. Len(bytes) : value[k] = 256 * value[k - 1] + bytes[k]
            /\ BigEndian(bytes) = value[Len(bytes)]
<1> DEFINE n == Len(bytes)
           step == [k \in 1 .. n |-> [v \in Nat |-> 256 * v + bytes[k]]]
           Iter(f) == f = [k \in 0 .. Len(bytes) |->
                             IF k = 0 THEN 0 ELSE 256 * f[k - 1] + bytes[k]]
           g == CHOOSE f : Iter(f)
<1>1. n \in Nat /\ \A k \in 1 .. n : bytes[k] \in Nat
  BY ByteElement
<1>2. step \in [1 .. n -> [Nat -> Nat]]
  BY <1>1
<1>3. PICK f \in [0 .. n -> Nat] : IsRun(f, n, 0, step)
  <2> HIDE DEF n, step
  <2> QED
    BY <1>1, <1>2, RunExists
<1>4. ASSUME NEW k \in 1 .. n PROVE f[k] = 256 * f[k - 1] + bytes[k]
  <2>1. k - 1 \in 0 .. n
    BY <1>1
  <2>2. f[k - 1] \in Nat
    BY <2>1
  <2>3. f[k] = step[k][f[k - 1]]
    BY <1>3 DEF IsRun
  <2> QED
    BY <2>2, <2>3
<1>5. Iter(f)
  <2>1. f[0] = 0
    BY <1>3 DEF IsRun
  <2> QED
    BY <1>4, <2>1
<1>6. \E h : Iter(h)
  BY <1>5
<1>7. Iter(g)
  BY <1>6
<1>8. BigEndian(bytes) = g[n]
  BY Zenon DEF BigEndian
<1> HIDE DEF g
<1>9. g[0] = 0 /\ \A k \in 1 .. n : g[k] = 256 * g[k - 1] + bytes[k]
  BY <1>1, <1>7
<1>10. \A k \in 0 .. n : g[k] = f[k]
  <2> DEFINE Bad == {k \in 0 .. n : g[k] # f[k]}
  <2> SUFFICES ASSUME Bad # {} PROVE FALSE
    OBVIOUS
  <2>1. Bad \subseteq Nat
    OBVIOUS
  <2>2. PICK m \in Bad : \A k \in Bad : m =< k
    <3> HIDE DEF Bad
    <3> QED
      BY <2>1, LeastNatural
  <2>3. m \in 0 .. n /\ g[m] # f[m]
    BY <2>2
  <2>4. m # 0
    BY <1>3, <1>9, <2>3 DEF IsRun
  <2>5. m \in 1 .. n /\ m - 1 \in 0 .. n /\ m - 1 \notin Bad
    <3>1. m \in 1 .. n /\ m - 1 \in 0 .. n /\ ~(m =< m - 1)
      BY <2>3, <2>4
    <3> HIDE DEF Bad
    <3> QED
      BY <2>2, <3>1
  <2>6. g[m - 1] = f[m - 1]
    BY <2>5
  <2> QED
    BY <1>4, <1>9, <2>3, <2>5, <2>6
<1>11. BigEndian(bytes) = f[n]
  <2>1. n \in 0 .. n
    BY <1>1
  <2> QED
    BY <1>8, <1>10, <2>1
<1> QED
  BY <1>3, <1>4, <1>11 DEF IsRun

\* It is a natural number, and of two bytes it is the obvious one.
LEMMA BigEndianValue ==
  ASSUME NEW bytes \in Seq(Byte)
  PROVE  /\ BigEndian(bytes) \in Nat
         /\ Len(bytes) = 2 => BigEndian(bytes) = 256 * bytes[1] + bytes[2]
<1>1. PICK value \in [0 .. Len(bytes) -> Nat] :
         /\ value[0] = 0
         /\ \A k \in 1 .. Len(bytes) : value[k] = 256 * value[k - 1] + bytes[k]
         /\ BigEndian(bytes) = value[Len(bytes)]
  BY BigEndianRun
<1>2. Len(bytes) \in Nat /\ Len(bytes) \in 0 .. Len(bytes)
  OBVIOUS
<1>3. BigEndian(bytes) \in Nat
  BY <1>1, <1>2
<1>4. ASSUME Len(bytes) = 2 PROVE BigEndian(bytes) = 256 * bytes[1] + bytes[2]
  <2>1. 1 \in 1 .. Len(bytes) /\ 2 \in 1 .. Len(bytes) /\ 2 - 1 = 1 /\ 1 - 1 = 0
    BY <1>4
  <2>2. bytes[1] \in Nat /\ bytes[2] \in Nat
    BY <2>1, ByteElement
  <2>3. value[1] = 256 * value[1 - 1] + bytes[1]
    BY <1>1, <2>1
  <2>4. value[2] = 256 * value[2 - 1] + bytes[2]
    BY <1>1, <2>1
  <2>5. value[1] = bytes[1]
    BY <1>1, <2>1, <2>2, <2>3
  <2> QED
    BY <1>1, <1>4, <2>1, <2>4, <2>5
<1> QED
  BY <1>3, <1>4

\* A body whose length two bytes can hold.
Fits(body) == Len(body) =< 65535

\* A frame is its length in two bytes and its body.
LEMMA BlockParts ==
  ASSUME NEW body \in Seq(Byte), Fits(body)
  PROVE  /\ Block(body) \in Seq(Byte)
         /\ Len(Block(body)) = 2 + Len(body)
         /\ 256 * Block(body)[1] + Block(body)[2] = Len(body)
         /\ \A j \in 1 .. Len(body) : Block(body)[2 + j] = body[j]
<1>1. PICK n \in Nat : n = Len(body) /\ n =< 65535
  BY DEF Fits
<1>2. PICK q \in Nat, r \in Nat : q = n \div 256 /\ r = n % 256
  BY <1>1
<1>3. q =< 255 /\ r =< 255 /\ 256 * q + r = n
  BY <1>1, <1>2
<1>5. PICK pre \in Seq(Byte) : pre = <<q, r>> /\ Len(pre) = 2 /\ pre[1] = q /\ pre[2] = r
  <2> DEFINE p == <<q, r>>
  <2>1. p \in Seq(Byte) /\ Len(p) = 2 /\ p[1] = q /\ p[2] = r
    BY <1>3 DEF Byte
  <2> QED
    BY <2>1
<1>6. Block(body) = pre \o body
  BY <1>1, <1>2, <1>5 DEF Block
<1>7. /\ pre \o body \in Seq(Byte) /\ Len(pre \o body) = Len(pre) + Len(body)
      /\ \A i \in 1 .. Len(pre) : (pre \o body)[i] = pre[i]
      /\ \A i \in 1 .. Len(body) : (pre \o body)[Len(pre) + i] = body[i]
  BY Concatenated
<1>8. (pre \o body)[1] = q /\ (pre \o body)[2] = r
  BY <1>1, <1>5, <1>7
<1> QED
  BY <1>1, <1>3, <1>6, <1>5, <1>7, <1>8

\* The parts of a sequence, and parts of parts.
LEMMA Parts ==
  ASSUME NEW S, NEW s \in Seq(S), NEW m \in 1 .. Len(s) + 1, NEW n \in m - 1 .. Len(s)
  PROVE  /\ SubSeq(s, m, n) \in Seq(S) /\ Len(SubSeq(s, m, n)) = n - m + 1
         /\ \A i \in 1 .. n - m + 1 : SubSeq(s, m, n)[i] = s[m - 1 + i]
  OBVIOUS

\* Two sequences are equal when their lengths and elements are.
LEMMA SameSeq ==
  ASSUME NEW S, NEW s \in Seq(S), NEW t \in Seq(S), Len(s) = Len(t),
         \A i \in 1 .. Len(s) : s[i] = t[i]
  PROVE  s = t
  BY SeqEqual

\* t is s without the length prefix.
LEMMA PartsOfRest ==
  ASSUME NEW S, NEW s \in Seq(S), Len(s) >= 2, NEW n \in 0 .. Len(s) - 2,
         NEW t \in Seq(S), Len(t) = Len(s) - 2,
         \A i \in 1 .. Len(t) : t[i] = s[2 + i]
  PROVE  /\ SubSeq(t, 1, n) = SubSeq(s, 3, 2 + n)
         /\ SubSeq(t, n + 1, Len(t)) = SubSeq(s, 3 + n, Len(s))
<1>2. SubSeq(t, 1, n) = SubSeq(s, 3, 2 + n)
  OBVIOUS
<1>3. SubSeq(t, n + 1, Len(t)) = SubSeq(s, 3 + n, Len(s))
  OBVIOUS
<1> QED
  BY <1>2, <1>3

\* A buffer that starts with a frame.
Starts(s, body, rest) == s = Block(body) \o rest

\* What follows the length in it.
LEMMA BlockHead ==
  ASSUME NEW body \in Seq(Byte), Fits(body), NEW rest \in Seq(Byte),
         NEW s, Starts(s, body, rest)
  PROVE  /\ s \in Seq(Byte) /\ Len(s) = 2 + Len(body) + Len(rest)
         /\ BigEndian(SubSeq(s, 1, 2)) = Len(body)
         /\ SubSeq(s, 3, 2 + Len(body)) = body
         /\ SubSeq(s, 3 + Len(body), Len(s)) = rest
<1>1. PICK b \in Seq(Byte) : b = Block(body)
  BY BlockParts
<1>2. /\ Len(b) = 2 + Len(body) /\ 256 * b[1] + b[2] = Len(body)
      /\ \A j \in 1 .. Len(body) : b[2 + j] = body[j]
  BY <1>1, BlockParts
<1>3. s = b \o rest
  BY ONLY <1>1, Starts(s, body, rest) DEF Starts
<1>4. /\ s \in Seq(Byte) /\ Len(s) = Len(b) + Len(rest)
      /\ \A i \in 1 .. Len(b) : s[i] = b[i]
      /\ \A i \in 1 .. Len(rest) : s[Len(b) + i] = rest[i]
  BY <1>3, Concatenated
<1>5. PICK n \in Nat, m \in Nat : n = Len(body) /\ m = Len(rest)
  OBVIOUS
<1>6. Len(s) = 2 + n + m
  BY <1>2, <1>4, <1>5
<1>7. BigEndian(SubSeq(s, 1, 2)) = n
  <2> DEFINE t == SubSeq(s, 1, 2)
  <2>2. t \in Seq(Byte) /\ Len(t) = 2 /\ t[1] = s[1] /\ t[2] = s[2]
    <3>1. 1 \in 1 .. Len(s) + 1 /\ 2 \in 1 - 1 .. Len(s)
      BY <1>6
    <3> QED
      BY <1>4, <3>1, Parts
  <2>3. s[1] = b[1] /\ s[2] = b[2]
    BY <1>2, <1>4, <1>5
  <2> HIDE DEF t
  <2>4. BigEndian(t) = n
    BY <1>2, <1>5, <2>2, <2>3, BigEndianValue
  <2> QED
    BY <2>4, Zenon DEF t
<1>8. SubSeq(s, 3, 2 + n) = body
  <2> DEFINE t == SubSeq(s, 3, 2 + n)
  <2>2. /\ t \in Seq(Byte) /\ Len(t) = n
        /\ \A i \in 1 .. n : t[i] = s[2 + i]
    <3>1. 3 \in 1 .. Len(s) + 1 /\ 2 + n \in 3 - 1 .. Len(s) /\ (2 + n) - 3 + 1 = n /\ 3 - 1 = 2
      BY <1>6
    <3> QED
      BY <1>4, <3>1, Parts
  <2>3. \A i \in 1 .. n : s[2 + i] = body[i]
    BY <1>2, <1>4, <1>5
  <2> HIDE DEF t
  <2>4. t = body
    BY <1>5, <2>2, <2>3, SameSeq
  <2> QED
    BY <2>4, Zenon DEF t
<1>9. SubSeq(s, 3 + n, Len(s)) = rest
  <2> DEFINE t == SubSeq(s, 3 + n, Len(s))
  <2>2. /\ t \in Seq(Byte) /\ Len(t) = m
        /\ \A i \in 1 .. m : t[i] = s[2 + n + i]
    <3>1. 3 + n \in 1 .. Len(s) + 1 /\ Len(s) \in (3 + n) - 1 .. Len(s)
      BY <1>6
    <3>2. /\ t \in Seq(Byte) /\ Len(t) = Len(s) - (3 + n) + 1
          /\ \A i \in 1 .. Len(s) - (3 + n) + 1 : t[i] = s[(3 + n) - 1 + i]
      BY <1>4, <3>1, Parts
    <3>3. Len(s) - (3 + n) + 1 = m /\ (3 + n) - 1 = 2 + n
      BY <1>6
    <3> HIDE DEF t
    <3> QED
      BY <3>2, <3>3
  <2>3. \A i \in 1 .. m : s[2 + n + i] = rest[i]
    BY <1>2, <1>4, <1>5
  <2> HIDE DEF t
  <2>4. t = rest
    BY <1>5, <2>2, <2>3, SameSeq
  <2> QED
    BY <2>4, Zenon DEF t
<1> QED
  BY <1>4, <1>5, <1>6, <1>7, <1>8, <1>9, Zenon

\* The parts of a buffer after the length n that it starts with.
IsSplit(s, n, body, rest) ==
    /\ n = BigEndian(SubSeq(s, 1, 2))
    /\ body = SubSeq(s, 3, 2 + n)
    /\ rest = SubSeq(s, 3 + n, Len(s))

\* A buffer long enough for the length it starts with starts with a frame.
LEMMA SplitBlock ==
  ASSUME NEW s \in Seq(Byte), Len(s) >= 2, NEW n \in Nat, 2 + n =< Len(s),
         NEW body, NEW rest, IsSplit(s, n, body, rest)
  PROVE  /\ body \in Seq(Byte) /\ Len(body) = n /\ Fits(body)
         /\ rest \in Seq(Byte) /\ Starts(s, body, rest)
<1>1. PICK len \in Nat : len = Len(s) /\ len >= 2 + n
  OBVIOUS
<1>2. /\ body \in Seq(Byte) /\ Len(body) = n
      /\ \A i \in 1 .. n : body[i] = s[2 + i]
  <2>1. 3 \in 1 .. Len(s) + 1 /\ 2 + n \in 3 - 1 .. Len(s) /\ (2 + n) - 3 + 1 = n /\ 3 - 1 = 2
    BY <1>1
  <2>2. body = SubSeq(s, 3, 2 + n)
    BY Zenon DEF IsSplit
  <2> QED
    BY <2>1, <2>2, Parts
<1>3. PICK m \in Nat : m = len - (2 + n)
  <2>1. len - (2 + n) \in Nat
    BY <1>1
  <2> QED
    BY <2>1
<1>4. /\ rest \in Seq(Byte) /\ Len(rest) = m
      /\ \A i \in 1 .. m : rest[i] = s[2 + n + i]
  <2>1. 3 + n \in 1 .. Len(s) + 1 /\ Len(s) \in (3 + n) - 1 .. Len(s)
    BY <1>1
  <2>2. /\ rest \in Seq(Byte) /\ Len(rest) = Len(s) - (3 + n) + 1
        /\ \A i \in 1 .. Len(s) - (3 + n) + 1 : rest[i] = s[(3 + n) - 1 + i]
    <3>1. rest = SubSeq(s, 3 + n, Len(s))
      BY Zenon DEF IsSplit
    <3> QED
      BY <2>1, <3>1, Parts
  <2>3. Len(s) - (3 + n) + 1 = m /\ (3 + n) - 1 = 2 + n
    BY <1>1, <1>3
  <2> QED
    BY <2>2, <2>3
<1>5. PICK x \in 0 .. 255, y \in 0 .. 255 : x = s[1] /\ y = s[2]
  <2>1. 1 \in 1 .. Len(s) /\ 2 \in 1 .. Len(s)
    BY <1>1
  <2>2. s[1] \in Byte /\ s[2] \in Byte
    BY <2>1, ByteElement
  <2> QED
    BY <2>2 DEF Byte
<1>6. n = 256 * x + y
  <2> DEFINE t == SubSeq(s, 1, 2)
  <2>1. t \in Seq(Byte) /\ Len(t) = 2 /\ t[1] = s[1] /\ t[2] = s[2]
    <3>1. 1 \in 1 .. Len(s) + 1 /\ 2 \in 1 - 1 .. Len(s)
      BY <1>1
    <3> QED
      BY <3>1, Parts
  <2>2. n = BigEndian(t)
    BY Zenon DEF IsSplit
  <2> HIDE DEF t
  <2> QED
    BY <1>5, <2>1, <2>2, BigEndianValue
<1>7. Fits(body)
  <2>1. 256 * x + y =< 65535
    BY SMT
  <2> QED
    BY <1>2, <1>6, <2>1, SMT DEF Fits
<1>8. PICK b \in Seq(Byte) : b = Block(body)
  BY <1>2, <1>7, BlockParts
<1>9. /\ Len(b) = 2 + n /\ 256 * b[1] + b[2] = n
      /\ \A j \in 1 .. n : b[2 + j] = body[j]
  BY <1>2, <1>7, <1>8, BlockParts, SMTT(20)
<1>10. b[1] = x /\ b[2] = y
  <2>1. 1 \in 1 .. Len(b) /\ 2 \in 1 .. Len(b)
    BY <1>9
  <2>2. b[1] \in Byte /\ b[2] \in Byte
    BY <2>1, ByteElement
  <2>3. PICK v \in 0 .. 255, w \in 0 .. 255 : v = b[1] /\ w = b[2]
    BY <2>2 DEF Byte
  <2>4. 256 * v + w = 256 * x + y
    BY <1>6, <1>9, <2>3
  <2>5. v = x /\ w = y
    BY <2>4
  <2> QED
    BY <2>3, <2>5
<1>11. PICK c : c = b \o rest
  BY Zenon
<1>12. /\ c \in Seq(Byte) /\ Len(c) = Len(b) + Len(rest)
       /\ \A i \in 1 .. Len(b) : c[i] = b[i]
       /\ \A i \in 1 .. Len(rest) : c[Len(b) + i] = rest[i]
  BY <1>4, <1>11, Concatenated
<1>13. s = c
  <2>1. Len(s) = Len(c) /\ Len(c) = 2 + n + m
    BY <1>1, <1>3, <1>4, <1>9, <1>12
  <2>2. ASSUME NEW i \in 1 .. Len(s) PROVE s[i] = c[i]
    <3>1. CASE i = 1 \/ i = 2
      BY <1>5, <1>9, <1>10, <1>12, <3>1
    <3>2. CASE i \in 3 .. 2 + n
      <4>1. PICK j \in 1 .. n : i = 2 + j
        <5>1. i - 2 \in 1 .. n /\ i = 2 + (i - 2)
          BY <3>2
        <5> QED
          BY <5>1
      <4>2. i \in 1 .. Len(b)
        BY <1>9, <3>2
      <4> QED
        BY <1>2, <1>9, <1>12, <4>1, <4>2
    <3>3. CASE i \in 3 + n .. 2 + n + m
      <4>1. PICK j \in 1 .. m : i = 2 + n + j
        <5>1. i - (2 + n) \in 1 .. m /\ i = 2 + n + (i - (2 + n))
          BY <3>3
        <5> QED
          BY <5>1
      <4>2. c[2 + n + j] = rest[j]
        BY <1>4, <1>9, <1>12
      <4>3. rest[j] = s[2 + n + j]
        BY <1>4
      <4> QED
        BY <4>1, <4>2, <4>3
    <3> QED
      BY <2>1, <3>1, <3>2, <3>3
  <2> QED
    BY <1>12, <2>1, <2>2, SameSeq
<1>14. Starts(s, body, rest)
  BY ONLY <1>8, <1>11, <1>13 DEF Starts
<1> QED
  BY <1>2, <1>4, <1>7, <1>14

-----------------------------------------------------------------------------
(* Parsing and iterating.                                                  *)

\* The bodies that parse_one accepts.
Body == {body \in Seq(Byte) : Len(body) >= 1 /\ Fits(body) /\ body[1] \in Tags}

\* What parse_one does with a buffer that holds a length.
LEMMA ParseCases ==
  ASSUME NEW b \in Seq(Byte), Len(b) >= 2, NEW n \in Nat,
         NEW body, NEW rest, IsSplit(b, n, body, rest)
  PROVE  /\ 2 + n =< Len(b) /\ n # 0 /\ body[1] \in Tags =>
               parse_one(b) = [error |-> "None", body |-> body, rest |-> rest]
         /\ ~(2 + n =< Len(b) /\ n # 0 /\ body[1] \in Tags) =>
               parse_one(b).error # "None"
<1> DEFINE t == SubSeq(b, 3, Len(b))
           len == BigEndian(SubSeq(b, 1, 2))
           first == SubSeq(t, 1, len)
           second == SubSeq(t, len + 1, Len(t))
           head == Head(first)
           Error(e) == [error |-> e, body |-> <<>>, rest |-> b]
<1>1. parse_one(b) = IF Len(b) < 2 THEN Error("EmptyBuffer")
                     ELSE IF Len(b) < 2 + len THEN Error("MalformedData")
                     ELSE IF len = 0 THEN Error("MalformedData")
                     ELSE IF Head(<<first, second>>[1]) \notin Tags
                     THEN Error("UnknownMessageType")
                     ELSE [error |-> "None", body |-> <<first, second>>[1],
                           rest |-> <<first, second>>[2]]
  BY Zenon DEF parse_one, SplitAt
<1>2. len = n
  BY Zenon DEF IsSplit
<1>3. ASSUME 2 + n =< Len(b) PROVE first = body /\ second = rest
  <2>1. n \in 0 .. Len(b) - 2
    BY <1>3
  <2>2. /\ t \in Seq(Byte) /\ Len(t) = Len(b) - 2
        /\ \A i \in 1 .. Len(t) : t[i] = b[2 + i]
    <3>1. 3 \in 1 .. Len(b) + 1 /\ Len(b) \in 3 - 1 .. Len(b)
      OBVIOUS
    <3>2. /\ t \in Seq(Byte) /\ Len(t) = Len(b) - 3 + 1
          /\ \A i \in 1 .. Len(b) - 3 + 1 : t[i] = b[3 - 1 + i]
      BY <3>1, Parts
    <3>3. Len(b) - 3 + 1 = Len(b) - 2 /\ 3 - 1 = 2
      OBVIOUS
    <3> HIDE DEF t
    <3> QED
      BY <3>2, <3>3
  <2>3. body = SubSeq(b, 3, 2 + n) /\ rest = SubSeq(b, 3 + n, Len(b))
    BY Zenon DEF IsSplit
  <2> HIDE DEF t, len
  <2>4. SubSeq(t, 1, n) = SubSeq(b, 3, 2 + n) /\ SubSeq(t, n + 1, Len(t)) = SubSeq(b, 3 + n, Len(b))
    BY <2>1, <2>2, PartsOfRest
  <2> QED
    BY <1>2, <2>3, <2>4, Zenon
<1>4. ASSUME 2 + n =< Len(b), n # 0 PROVE head = body[1]
  <2>1. body \in Seq(Byte) /\ Len(body) = n
    BY <1>4, SplitBlock
  <2>2. Head(body) = body[1]
    BY <2>1
  <2> HIDE DEF first
  <2> QED
    BY <1>3, <1>4, <2>2
<1>5. parse_one(b) = IF Len(b) < 2 THEN Error("EmptyBuffer")
                     ELSE IF Len(b) < 2 + len THEN Error("MalformedData")
                     ELSE IF len = 0 THEN Error("MalformedData")
                     ELSE IF head \notin Tags
                     THEN Error("UnknownMessageType")
                     ELSE [error |-> "None", body |-> first, rest |-> second]
  <2> HIDE DEF first, second, len, t
  <2>1. <<first, second>>[1] = first /\ <<first, second>>[2] = second
    OBVIOUS
  <2> QED
    BY <1>1, <2>1, Zenon
<1> HIDE DEF head, first, second, len, t
<1>6. Len(b) \in Nat /\ ~(Len(b) < 2)
  OBVIOUS
<1>7. ASSUME 2 + n =< Len(b), n # 0, body[1] \in Tags
      PROVE  parse_one(b) = [error |-> "None", body |-> body, rest |-> rest]
  <2>1. ~(Len(b) < 2 + n)
    BY <1>6, <1>7
  <2> QED
    BY <1>2, <1>3, <1>4, <1>5, <1>6, <1>7, <2>1
<1>8. ASSUME ~(2 + n =< Len(b) /\ n # 0 /\ body[1] \in Tags)
      PROVE  parse_one(b).error # "None"
  <2>1. CASE Len(b) < 2 + n
    BY <1>2, <1>5, <1>6, <2>1
  <2>2. CASE ~(Len(b) < 2 + n) /\ n = 0
    BY <1>2, <1>5, <1>6, <2>2
  <2>3. CASE ~(Len(b) < 2 + n) /\ n # 0 /\ body[1] \notin Tags
    <3>1. head \notin Tags
      BY <1>4, <1>6, <2>3
    <3> QED
      BY <1>2, <1>5, <1>6, <2>3, <3>1
  <2>4. ~(Len(b) < 2 + n) => 2 + n =< Len(b)
    BY <1>6
  <2> QED
    BY <1>8, <2>1, <2>2, <2>3, <2>4
<1> QED
  BY <1>7, <1>8

\* A frame that parse_one accepts is at the front of the buffer.
LEMMA ParseOne ==
  ASSUME NEW b \in Seq(Byte), parse_one(b).error = "None"
  PROVE  /\ parse_one(b).body \in Body /\ parse_one(b).rest \in Seq(Byte)
         /\ Starts(b, parse_one(b).body, parse_one(b).rest)
<1>1. Len(b) >= 2
  <2> SUFFICES ASSUME Len(b) < 2 PROVE FALSE
    OBVIOUS
  <2>1. parse_one(b) = [error |-> "EmptyBuffer", body |-> <<>>, rest |-> b]
    BY DEF parse_one
  <2> QED
    BY <2>1
<1> DEFINE t == SubSeq(b, 1, 2)
           n == BigEndian(t)
<1>2. n \in Nat
  <2>1. t \in Seq(Byte)
    BY <1>1
  <2> HIDE DEF t
  <2> QED
    BY <2>1, BigEndianValue
<1> DEFINE body == SubSeq(b, 3, 2 + n)
           rest == SubSeq(b, 3 + n, Len(b))
<1>3. IsSplit(b, n, body, rest)
  BY Zenon DEF IsSplit
<1> HIDE DEF n, body, rest
<1>4. /\ 2 + n =< Len(b) /\ n # 0 /\ body[1] \in Tags
      /\ parse_one(b) = [error |-> "None", body |-> body, rest |-> rest]
  BY <1>1, <1>2, <1>3, ParseCases
<1>5. /\ body \in Seq(Byte) /\ Len(body) = n /\ Fits(body)
      /\ rest \in Seq(Byte) /\ Starts(b, body, rest)
  BY <1>1, <1>2, <1>3, <1>4, SplitBlock
<1>6. parse_one(b).body = body /\ parse_one(b).rest = rest
  BY <1>4
<1>7. body \in Body
  BY <1>2, <1>4, <1>5 DEF Body
<1> QED
  BY <1>5, <1>6, <1>7

\* The split of a buffer that starts with a frame is that frame.
LEMMA StartsSplit ==
  ASSUME NEW body \in Seq(Byte), Fits(body), NEW rest \in Seq(Byte),
         NEW s, Starts(s, body, rest)
  PROVE  /\ s \in Seq(Byte) /\ Len(s) = 2 + Len(body) + Len(rest)
         /\ IsSplit(s, Len(body), body, rest)
<1>1. /\ s \in Seq(Byte) /\ Len(s) = 2 + Len(body) + Len(rest)
      /\ BigEndian(SubSeq(s, 1, 2)) = Len(body)
      /\ SubSeq(s, 3, 2 + Len(body)) = body
      /\ SubSeq(s, 3 + Len(body), Len(s)) = rest
  BY BlockHead
<1> QED
  BY <1>1, Zenon DEF IsSplit

\* A buffer starts with one frame only.
LEMMA StartsUnique ==
  ASSUME NEW body \in Seq(Byte), Fits(body), NEW rest \in Seq(Byte),
         NEW body2 \in Seq(Byte), Fits(body2), NEW rest2 \in Seq(Byte),
         NEW s, Starts(s, body, rest), Starts(s, body2, rest2)
  PROVE  body = body2 /\ rest = rest2
<1>1. IsSplit(s, Len(body), body, rest) /\ IsSplit(s, Len(body2), body2, rest2)
  BY StartsSplit
<1>2. Len(body) = Len(body2)
  BY <1>1, Zenon DEF IsSplit
<1> QED
  BY <1>1, <1>2, Zenon DEF IsSplit

\* parse_one returns a frame that it accepts, whatever follows.
LEMMA ParseBlock ==
  ASSUME NEW body \in Body, NEW rest \in Seq(Byte), NEW s, Starts(s, body, rest)
  PROVE  parse_one(s) = [error |-> "None", body |-> body, rest |-> rest]
<1>1. body \in Seq(Byte) /\ Len(body) >= 1 /\ Fits(body) /\ body[1] \in Tags
  BY DEF Body
<1>2. /\ s \in Seq(Byte) /\ Len(s) = 2 + Len(body) + Len(rest)
      /\ IsSplit(s, Len(body), body, rest)
  BY <1>1, StartsSplit
<1>3. Len(body) \in Nat /\ Len(s) >= 2 /\ 2 + Len(body) =< Len(s) /\ Len(body) # 0
  BY <1>1, <1>2
<1> QED
  BY <1>1, <1>2, <1>3, ParseCases

\* parse_one accepts no frame that is cut short.
LEMMA ParseCut ==
  ASSUME NEW b \in Seq(Byte), CutShort(b)
  PROVE  parse_one(b).error # "None"
<1> SUFFICES ASSUME parse_one(b).error = "None" PROVE FALSE
  OBVIOUS
<1>1. PICK body \in Body, rest \in Seq(Byte) : Starts(b, body, rest)
  BY ParseOne
<1>2. body \in Seq(Byte) /\ Fits(body)
  BY DEF Body
<1>3. Len(b) = 2 + Len(body) + Len(rest) /\ IsSplit(b, Len(body), body, rest)
  BY <1>1, <1>2, StartsSplit
<1>4. PICK n : n = BigEndian(SubSeq(b, 1, 2)) /\ n = Len(body)
  BY <1>3, Zenon DEF IsSplit
<1>5. Len(b) < 2 \/ n > Len(b) - 2
  BY <1>4, Zenon DEF CutShort
<1> QED
  BY <1>2, <1>3, <1>4, <1>5

\* The frames of bodies.
BlockSeq(ms) == [n \in DOMAIN ms |-> Block(ms[n])]

\* The blocks of a sequence of bodies.
LEMMA BlockSeqType ==
  ASSUME NEW ms \in Seq(Body)
  PROVE  /\ BlockSeq(ms) \in Seq(Seq(Byte)) /\ Len(BlockSeq(ms)) = Len(ms)
         /\ \A k \in 1 .. Len(ms) : ms[k] \in Body /\ BlockSeq(ms)[k] = Block(ms[k])
<1>1. PICK n \in Nat : n = Len(ms) /\ DOMAIN ms = 1 .. n
  OBVIOUS
<1>2. ASSUME NEW k \in 1 .. n PROVE ms[k] \in Body /\ Block(ms[k]) \in Seq(Byte)
  <2>1. ms[k] \in Body
    BY <1>1, ElementOfSeq
  <2>2. ms[k] \in Seq(Byte) /\ Fits(ms[k])
    BY <2>1 DEF Body
  <2> QED
    BY <2>1, <2>2, BlockParts
<1>3. BlockSeq(ms) = [k \in 1 .. n |-> Block(ms[k])]
  BY <1>1 DEF BlockSeq
<1>4. BlockSeq(ms) \in [1 .. n -> Seq(Byte)]
  BY <1>2, <1>3
<1>5. BlockSeq(ms) \in Seq(Seq(Byte)) /\ Len(BlockSeq(ms)) = n
  BY <1>4
<1>6. \A k \in 1 .. n : BlockSeq(ms)[k] = Block(ms[k])
  BY <1>3
<1> QED
  BY <1>1, <1>2, <1>5, <1>6

\* No body, and a body more at the end.
LEMMA BlocksAppend ==
  ASSUME NEW ms \in Seq(Body)
  PROVE  /\ Blocks(ms) \in Seq(Byte) /\ (Len(ms) = 0 => Blocks(ms) = <<>>)
         /\ \A body \in Body : Blocks(Append(ms, body)) = Blocks(ms) \o Block(body)
<1>1. \A x \in Seq(Body) : Blocks(x) = FlattenSeq(BlockSeq(x))
  BY Zenon DEF Blocks, BlockSeq
<1>2. Blocks(ms) \in Seq(Byte) /\ (Len(ms) = 0 => Blocks(ms) = <<>>)
  BY <1>1, BlockSeqType, FlattenEmpty
<1>3. ASSUME NEW body \in Body PROVE Blocks(Append(ms, body)) = Blocks(ms) \o Block(body)
  <2> DEFINE tt == Append(ms, body)
             n == Len(ms)
             new == Block(body)
  <2>1. n \in Nat /\ tt \in Seq(Body) /\ Len(tt) = n + 1 /\ tt[n + 1] = body
        /\ \A k \in 1 .. n : tt[k] = ms[k]
    OBVIOUS
  <2>2. new \in Seq(Byte)
    BY BlockParts DEF Body
  <2> HIDE DEF tt, new
  <2>3. BlockSeq(tt) = Append(BlockSeq(ms), new)
    <3>1. BlockSeq(tt) \in Seq(Seq(Byte)) /\ Len(BlockSeq(tt)) = n + 1
          /\ \A k \in 1 .. n + 1 : BlockSeq(tt)[k] = Block(tt[k])
      BY <2>1, BlockSeqType
    <3>2. BlockSeq(ms) \in Seq(Seq(Byte)) /\ Len(BlockSeq(ms)) = n
          /\ \A k \in 1 .. n : BlockSeq(ms)[k] = Block(ms[k])
      BY <2>1, BlockSeqType
    <3> DEFINE u == Append(BlockSeq(ms), new)
    <3>3. /\ u \in Seq(Seq(Byte)) /\ Len(u) = n + 1 /\ u[n + 1] = new
          /\ \A k \in 1 .. n : u[k] = BlockSeq(ms)[k]
      BY <2>2, <3>2
    <3> HIDE DEF u
    <3>4. BlockSeq(tt)[n + 1] = new
      <4>1. n + 1 \in 1 .. n + 1
        BY <2>1
      <4> QED
        BY <2>1, <3>1, <4>1 DEF new
    <3>5. ASSUME NEW k \in 1 .. n + 1 PROVE BlockSeq(tt)[k] = u[k]
      <4>1. CASE k = n + 1
        BY <3>3, <3>4, <4>1
      <4>2. CASE k # n + 1
        <5>1. k \in 1 .. n
          BY <2>1, <4>2
        <5> QED
          BY <2>1, <3>1, <3>2, <3>3, <5>1
      <4> QED
        BY <4>1, <4>2
    <3>6. BlockSeq(tt) = u
      BY <3>1, <3>3, <3>5, SameSeq
    <3> QED
      BY <3>6 DEF u
  <2>4. FlattenSeq(Append(BlockSeq(ms), new)) = FlattenSeq(BlockSeq(ms)) \o new
    BY <2>2, BlockSeqType, FlattenAppend
  <2>5. Blocks(tt) = Blocks(ms) \o new
    BY <1>1, <2>1, <2>3, <2>4
  <2> QED
    BY <2>5, Zenon DEF tt, new
<1> QED
  BY <1>2, <1>3

\* What is left of a sequence after its first k elements.
Rest(s, k) == SubSeq(s, k + 1, Len(s))

\* What is left of a sequence after its first elements.
LEMMA RestParts ==
  ASSUME NEW S, NEW s \in Seq(S), NEW k \in 0 .. Len(s)
  PROVE  /\ Rest(s, k) \in Seq(S) /\ Len(Rest(s, k)) = Len(s) - k
         /\ \A i \in 1 .. Len(s) - k : Rest(s, k)[i] = s[k + i]
<1>1. PICK n \in Nat : n = Len(s)
  OBVIOUS
<1> DEFINE t == SubSeq(s, k + 1, n)
<1>2. k + 1 \in 1 .. n + 1 /\ n \in (k + 1) - 1 .. n
  BY <1>1
<1>3. /\ t \in Seq(S) /\ Len(t) = n - (k + 1) + 1
      /\ \A i \in 1 .. n - (k + 1) + 1 : t[i] = s[(k + 1) - 1 + i]
  BY <1>1, <1>2, Parts
<1>4. n - (k + 1) + 1 = n - k /\ (k + 1) - 1 = k
  BY <1>1
<1>5. Rest(s, k) = t
  BY <1>1, Zenon DEF Rest
<1> HIDE DEF t
<1> QED
  BY <1>1, <1>3, <1>4, <1>5

\* The blocks of what is left start with the block of the next body.
LEMMA BlocksRest ==
  ASSUME NEW ms \in Seq(Body), NEW k \in 0 .. Len(ms) - 1
  PROVE  Starts(Blocks(Rest(ms, k)), ms[k + 1], Blocks(Rest(ms, k + 1)))
<1>1. PICK n \in Nat : n = Len(ms)
  OBVIOUS
<1>2. k \in 0 .. Len(ms) /\ k + 1 \in 0 .. Len(ms) /\ n - k = (n - (k + 1)) + 1
  BY <1>1
<1>3. PICK t \in Seq(Body) : /\ t = Rest(ms, k) /\ Len(t) = n - k
                             /\ \A i \in 1 .. n - k : t[i] = ms[k + i]
  <2>1. /\ Rest(ms, k) \in Seq(Body) /\ Len(Rest(ms, k)) = n - k
        /\ \A i \in 1 .. n - k : Rest(ms, k)[i] = ms[k + i]
    BY <1>1, <1>2, RestParts
  <2> QED
    BY <2>1
<1>4. PICK u \in Seq(Body) : /\ u = Rest(ms, k + 1) /\ Len(u) = n - (k + 1)
                             /\ \A i \in 1 .. n - (k + 1) : u[i] = ms[(k + 1) + i]
  <2>1. /\ Rest(ms, k + 1) \in Seq(Body) /\ Len(Rest(ms, k + 1)) = n - (k + 1)
        /\ \A i \in 1 .. n - (k + 1) : Rest(ms, k + 1)[i] = ms[(k + 1) + i]
    BY <1>1, <1>2, RestParts
  <2> QED
    BY <2>1
<1>5. /\ BlockSeq(t) \in Seq(Seq(Byte)) /\ Len(BlockSeq(t)) = n - k
      /\ \A i \in 1 .. n - k : BlockSeq(t)[i] = Block(t[i])
  BY <1>3, BlockSeqType
<1>6. /\ BlockSeq(u) \in Seq(Seq(Byte)) /\ Len(BlockSeq(u)) = n - (k + 1)
      /\ \A i \in 1 .. n - (k + 1) : BlockSeq(u)[i] = Block(u[i])
  BY <1>4, BlockSeqType
<1>7. IsCons(BlockSeq(t), BlockSeq(u))
  <2>1. ASSUME NEW i \in 1 .. n - (k + 1) PROVE BlockSeq(t)[i + 1] = BlockSeq(u)[i]
    <3>1. i + 1 \in 1 .. n - k /\ k + (i + 1) = (k + 1) + i
      BY <1>1
    <3>2. t[i + 1] = u[i]
      BY <1>3, <1>4, <3>1
    <3> QED
      BY <1>5, <1>6, <3>1, <3>2
  <2> QED
    BY <1>2, <1>5, <1>6, <2>1 DEF IsCons
<1>8. FlattenSeq(BlockSeq(t)) = BlockSeq(t)[1] \o FlattenSeq(BlockSeq(u))
  BY <1>5, <1>6, <1>7, FlattenCons
<1>9. BlockSeq(t)[1] = Block(ms[k + 1])
  <2>1. 1 \in 1 .. n - k
    BY <1>1
  <2>2. t[1] = ms[k + 1]
    BY <1>3, <2>1
  <2> QED
    BY <1>5, <2>1, <2>2
<1>10. Blocks(t) = FlattenSeq(BlockSeq(t)) /\ Blocks(u) = FlattenSeq(BlockSeq(u))
  BY Zenon DEF Blocks, BlockSeq
<1>11. Blocks(t) = Block(ms[k + 1]) \o Blocks(u)
  BY <1>8, <1>9, <1>10, Zenon
<1>12. Starts(Blocks(t), ms[k + 1], Blocks(u))
  BY <1>11, Zenon DEF Starts
<1> QED
  BY <1>3, <1>4, <1>12

\* The first k elements of a sequence grow by one element at a time.
IsGrowth(taken, ms) ==
    /\ taken[0] = <<>> /\ taken[Len(ms)] = ms
    /\ \A k \in 1 .. Len(ms) : taken[k] = Append(taken[k - 1], ms[k])

\* Every sequence grows so.
LEMMA Growing ==
  ASSUME NEW S, NEW ms \in Seq(S)
  PROVE  \E taken \in [0 .. Len(ms) -> Seq(S)] : IsGrowth(taken, ms)
<1>1. PICK n \in Nat : n = Len(ms) /\ \A k \in 1 .. n : ms[k] \in S
  <2>1. \A k \in 1 .. Len(ms) : ms[k] \in S
    BY ElementOfSeq
  <2> QED
    BY <2>1
<1> DEFINE f == [k \in 0 .. n |-> SubSeq(ms, 1, k)]
<1>2. ASSUME NEW k \in 0 .. n
      PROVE  /\ f[k] = SubSeq(ms, 1, k) /\ f[k] \in Seq(S) /\ Len(f[k]) = k
             /\ \A i \in 1 .. k : f[k][i] = ms[i]
  <2>1. 1 \in 1 .. Len(ms) + 1 /\ k \in 1 - 1 .. Len(ms) /\ k - 1 + 1 = k
    BY <1>1
  <2> DEFINE t == SubSeq(ms, 1, k)
  <2>2. /\ t \in Seq(S) /\ Len(t) = k - 1 + 1
        /\ \A i \in 1 .. k - 1 + 1 : t[i] = ms[1 - 1 + i]
    BY <2>1, Parts
  <2>3. f[k] = t
    BY Zenon
  <2> HIDE DEF t, f
  <2> QED
    BY <2>1, <2>2, <2>3 DEF t
<1>3. f \in [0 .. n -> Seq(S)]
  <2>1. \A k \in 0 .. n : SubSeq(ms, 1, k) \in Seq(S)
    BY <1>2
  <2> QED
    BY <2>1, Zenon
<1> HIDE DEF f
<1>4. f[0] = <<>>
  <2>1. f[0] \in Seq(S) /\ Len(f[0]) = 0
    BY <1>2
  <2> QED
    BY <2>1, EmptySeq
<1>5. f[n] = ms
  <2>1. /\ f[n] \in Seq(S) /\ Len(f[n]) = n
        /\ \A i \in 1 .. n : f[n][i] = ms[i]
    BY <1>2
  <2> QED
    BY <1>1, <2>1, SameSeq
<1>6. ASSUME NEW k \in 1 .. n PROVE f[k] = Append(f[k - 1], ms[k])
  <2>1. k \in 0 .. n /\ k - 1 \in 0 .. n /\ k = (k - 1) + 1
    BY <1>1
  <2>2. PICK t \in Seq(S) : t = f[k - 1] /\ Len(t) = k - 1 /\ \A i \in 1 .. k - 1 : t[i] = ms[i]
    BY <1>2, <2>1
  <2>3. PICK x \in S : x = ms[k]
    BY <1>1
  <2> DEFINE u == Append(t, x)
  <2>4. /\ u \in Seq(S) /\ Len(u) = k /\ u[k] = x
        /\ \A i \in 1 .. k - 1 : u[i] = t[i]
    BY <2>2
  <2> HIDE DEF u
  <2>5. ASSUME NEW i \in 1 .. k PROVE f[k][i] = u[i]
    <3>1. f[k][i] = ms[i]
      BY <1>2, <2>1
    <3>2. i = k \/ i \in 1 .. k - 1
      OBVIOUS
    <3> QED
      BY <2>2, <2>3, <2>4, <3>1, <3>2
  <2>6. f[k] \in Seq(S) /\ Len(f[k]) = k
    BY <1>2, <2>1
  <2>7. f[k] = u
    BY <2>4, <2>5, <2>6, SameSeq
  <2> QED
    BY <2>2, <2>3, <2>7 DEF u
<1>7. IsGrowth(f, ms)
  BY <1>1, <1>4, <1>5, <1>6 DEF IsGrowth
<1> QED
  BY <1>1, <1>3, <1>7

\* One call of the iterator on a buffer that starts with a frame.
LEMMA NextStarts ==
  ASSUME NEW body \in Seq(Byte), Fits(body), NEW rest \in Seq(Byte),
         NEW s, Starts(s, body, rest), NEW yielded
  PROVE  NextMessage([bytes |-> s, yielded |-> yielded])
            = [bytes |-> rest, yielded |-> Append(yielded, body)]
<1>1. /\ s \in Seq(Byte) /\ Len(s) = 2 + Len(body) + Len(rest)
      /\ IsSplit(s, Len(body), body, rest)
  BY StartsSplit
<1> DEFINE len == BigEndian(SubSeq(s, 1, 2))
           first == SubSeq(s, 3, 2 + len)
           second == SubSeq(s, 3 + len, Len(s))
           it == [bytes |-> s, yielded |-> yielded]
<1>2. len = Len(body) /\ first = body /\ second = rest
  BY <1>1, Zenon DEF IsSplit
<1>3. it.bytes = s /\ it.yielded = yielded
  OBVIOUS
<1> HIDE DEF it
<1>4. NextMessage(it) = IF Len(s) < 2 \/ Len(s) < 2 + len THEN it
                        ELSE [bytes |-> second, yielded |-> Append(yielded, first)]
  BY <1>3, Zenon DEF NextMessage
<1> HIDE DEF len, first, second
<1>5. ~(Len(s) < 2 \/ Len(s) < 2 + len)
  BY <1>1, <1>2
<1>6. NextMessage(it) = [bytes |-> second, yielded |-> Append(yielded, first)]
  BY <1>4, <1>5, Zenon
<1> QED
  BY <1>2, <1>6, Zenon DEF it

\* The states of the iterator.
IsIteration(f, n, bytes) ==
    f = [k \in 0 .. n |-> IF k = 0 THEN [bytes |-> bytes, yielded |-> <<>>]
                          ELSE NextMessage(f[k - 1])]

\* There is one such run.
LEMMA IterationUnique ==
  ASSUME NEW n \in Nat, NEW bytes, NEW f, NEW g,
         IsIteration(f, n, bytes), IsIteration(g, n, bytes)
  PROVE  f[n] = g[n]
<1>1. 0 \in 0 .. n /\ n \in 0 .. n /\ \A k \in 1 .. n : k \in 0 .. n /\ k # 0
  OBVIOUS
<1>2. f[0] = g[0]
  BY <1>1, Zenon DEF IsIteration
<1>3. ASSUME NEW k \in 1 .. n PROVE f[k - 1] = g[k - 1] => f[k] = g[k]
  <2>1. f[k] = NextMessage(f[k - 1])
    BY <1>1, Zenon DEF IsIteration
  <2>2. g[k] = NextMessage(g[k - 1])
    BY <1>1, Zenon DEF IsIteration
  <2> QED
    BY <2>1, <2>2
<1>4. \A k \in 0 .. n : f[k] = g[k]
  BY <1>2, <1>3, SameRun, ZenonT(30)
<1> QED
  BY <1>1, <1>4

\* The iterator yields the bodies that build_packet wrote.
LEMMA IteratedPacket ==
  ASSUME NEW ms \in Seq(Body), Len(ms) # END_OF_SESSION_IDENT
  PROVE  Iterated(build_packet(ms)) = ms
<1>1. PICK n \in Nat : n = Len(ms)
  OBVIOUS
<1>2. PICK taken \in [0 .. n -> Seq(Body)] :
         /\ taken[0] = <<>> /\ taken[n] = ms
         /\ \A k \in 1 .. n : taken[k] = Append(taken[k - 1], ms[k])
  <2>1. PICK f \in [0 .. Len(ms) -> Seq(Body)] : IsGrowth(f, ms)
    BY Growing
  <2> QED
    BY <1>1, <2>1 DEF IsGrowth
<1> DEFINE left == [k \in 0 .. n |-> Blocks(Rest(ms, k))]
           all == left[0]
           Iter(f) == f = [k \in 0 .. n |->
                             IF k = 0 THEN [bytes |-> Blocks(ms), yielded |-> <<>>]
                             ELSE NextMessage(f[k - 1])]
           g == CHOOSE f : Iter(f)
<1>3. ASSUME NEW k \in 0 .. n PROVE left[k] = Blocks(Rest(ms, k)) /\ left[k] \in Seq(Byte)
  <2>1. Rest(ms, k) \in Seq(Body)
    BY <1>1, RestParts
  <2>2. Blocks(Rest(ms, k)) \in Seq(Byte)
    BY <2>1, BlocksAppend
  <2> QED
    BY <2>2
<1> HIDE DEF left
<1>4. left[0] = Blocks(ms)
  <2>1. 0 \in 0 .. n /\ 0 \in 0 .. Len(ms) /\ Len(ms) - 0 = Len(ms)
    BY <1>1
  <2>2. /\ Rest(ms, 0) \in Seq(Body) /\ Len(Rest(ms, 0)) = Len(ms) - 0
        /\ \A i \in 1 .. Len(ms) - 0 : Rest(ms, 0)[i] = ms[0 + i]
    BY <2>1, RestParts
  <2>3. Rest(ms, 0) = ms
    BY <1>1, <2>1, <2>2, SameSeq
  <2> QED
    BY <1>3, <2>1, <2>3
<1>5. ASSUME NEW k \in 1 .. n
      PROVE  NextMessage([bytes |-> left[k - 1], yielded |-> taken[k - 1]])
                = [bytes |-> left[k], yielded |-> taken[k]]
  <2>1. k \in 0 .. n /\ k - 1 \in 0 .. n /\ k - 1 \in 0 .. Len(ms) - 1 /\ (k - 1) + 1 = k
    BY <1>1
  <2>2. Starts(Blocks(Rest(ms, k - 1)), ms[(k - 1) + 1], Blocks(Rest(ms, (k - 1) + 1)))
    BY <2>1, BlocksRest
  <2>3. Starts(left[k - 1], ms[k], left[k])
    BY <1>3, <2>1, <2>2, Zenon
  <2>4. ms[k] \in Seq(Byte) /\ Fits(ms[k])
    <3>1. ms[k] \in Body
      BY <1>1, BlockSeqType
    <3> QED
      BY <3>1 DEF Body
  <2>5. left[k] \in Seq(Byte)
    BY <1>3, <2>1
  <2>6. NextMessage([bytes |-> left[k - 1], yielded |-> taken[k - 1]])
           = [bytes |-> left[k], yielded |-> Append(taken[k - 1], ms[k])]
    BY <2>3, <2>4, <2>5, NextStarts, ZenonT(30)
  <2> QED
    BY <1>2, <2>6
<1> DEFINE h == [k \in 0 .. n |-> [bytes |-> left[k], yielded |-> taken[k]]]
<1>6. Iter(h)
  <2>1. ASSUME NEW k \in 0 .. n
        PROVE  h[k] = IF k = 0 THEN [bytes |-> Blocks(ms), yielded |-> <<>>]
                      ELSE NextMessage(h[k - 1])
    <3>1. CASE k = 0
      BY <1>2, <1>4, <3>1
    <3>2. CASE k # 0
      <4>1. k \in 1 .. n /\ k - 1 \in 0 .. n
        BY <3>2
      <4>2. /\ h[k] = [bytes |-> left[k], yielded |-> taken[k]]
            /\ h[k - 1] = [bytes |-> left[k - 1], yielded |-> taken[k - 1]]
        BY <4>1
      <4> HIDE DEF h
      <4> QED
        BY <1>5, <3>2, <4>1, <4>2
    <3> QED
      BY <3>1, <3>2
  <2> QED
    BY <2>1, Zenon
<1>7. Iter(g)
  <2>1. \E f : Iter(f)
    BY <1>6, Zenon
  <2> QED
    BY <2>1, Zenon
<1>8. Iterated(build_packet(ms)) = g[n].yielded
  <2> DEFINE packet == build_packet(ms)
  <2>1. packet.messages = Blocks(ms) /\ packet.msg_count = n
    BY <1>1 DEF build_packet
  <2> HIDE DEF packet
  <2>2. Iterated(packet) = Messages(Blocks(ms), n)
    BY <1>1, <2>1, Zenon DEF Iterated
  <2>3. Messages(Blocks(ms), n) = g[n].yielded
    BY Zenon DEF Messages
  <2> QED
    BY <2>2, <2>3, Zenon DEF packet
<1> HIDE DEF g
<1>9. g[n] = h[n]
  <2>1. IsIteration(g, n, Blocks(ms)) /\ IsIteration(h, n, Blocks(ms))
    BY <1>6, <1>7, Zenon DEF IsIteration
  <2> HIDE DEF h
  <2> QED
    BY <2>1, IterationUnique
<1>10. h[n].yielded = taken[n]
  OBVIOUS
<1> HIDE DEF h
<1> QED
  BY <1>2, <1>8, <1>9, <1>10

-----------------------------------------------------------------------------
(* Replay keeps the frames.                                                *)

\* tt has x in addition.
LEMMA IsAppend ==
  ASSUME NEW S, NEW ss \in Seq(S), NEW tt \in Seq(S), NEW x \in S,
         Len(tt) = Len(ss) + 1, tt[Len(ss) + 1] = x,
         \A k \in 1 .. Len(ss) : tt[k] = ss[k]
  PROVE  tt = Append(ss, x)
<1> DEFINE u == Append(ss, x)
<1>1. /\ u \in Seq(S) /\ Len(u) = Len(ss) + 1 /\ u[Len(ss) + 1] = x
      /\ \A k \in 1 .. Len(ss) : u[k] = ss[k]
  OBVIOUS
<1> HIDE DEF u
<1>2. ASSUME NEW k \in 1 .. Len(tt) PROVE tt[k] = u[k]
  <2>1. k = Len(ss) + 1 \/ k \in 1 .. Len(ss)
    OBVIOUS
  <2> QED
    BY <1>1, <2>1
<1>3. tt = u
  BY <1>1, <1>2, SameSeq
<1> QED
  BY <1>3 DEF u

\* Appending, written as a concatenation.
LEMMA AppendForms ==
  ASSUME NEW S, NEW s \in Seq(S), NEW t \in Seq(S), NEW x \in S
  PROVE  /\ s \o <<x>> = Append(s, x)
         /\ s \o Append(t, x) = Append(s \o t, x)
         /\ s \o <<>> = s
<1>1. s \o <<x>> = Append(s, x)
  OBVIOUS
<1>2. s \o Append(t, x) = Append(s \o t, x)
  OBVIOUS
<1>3. s \o <<>> = s
  OBVIOUS
<1> QED
  BY <1>1, <1>2, <1>3

\* The batches that flush sends, and the packets that are sent.
SentBatch == {ms \in Seq(Body) : Len(ms) \in 1 .. MaxMsgs}

Packet == {build_packet(ms) : ms \in SentBatch} \cup {EndOfSession}

\* The batches are smaller than the count that ends the session.
Countable == MaxMsgs < END_OF_SESSION_IDENT

\* What the iterator makes of a packet.
LEMMA PacketForm ==
  ASSUME NEW packet \in Packet, Countable
  PROVE  \/ packet = EndOfSession /\ Iterated(packet) = <<>>
         \/ \E ms \in SentBatch : /\ packet = build_packet(ms) /\ Iterated(packet) = ms
                                 /\ packet.msg_count = Len(ms)
                                 /\ packet.messages = Blocks(ms)
                                 /\ packet.msg_count # END_OF_SESSION_IDENT
                                 /\ packet # EndOfSession
<1>1. CASE packet = EndOfSession
  <2> DEFINE Iter(f) == f = [k \in 0 .. 0 |->
                               IF k = 0 THEN [bytes |-> <<>>, yielded |-> <<>>]
                               ELSE NextMessage(f[k - 1])]
             h == [k \in 0 .. 0 |-> [bytes |-> <<>>, yielded |-> <<>>]]
             g == CHOOSE f : Iter(f)
  <2>1. packet.messages = <<>> /\ packet.msg_count = END_OF_SESSION_IDENT
    BY <1>1 DEF EndOfSession
  <2>2. Iterated(packet) = Messages(<<>>, 0)
    BY <2>1, Zenon DEF Iterated
  <2>3. Messages(<<>>, 0) = g[0].yielded
    BY Zenon DEF Messages
  <2>4. Iter(h)
    <3>1. \A k \in 0 .. 0 : k = 0
      OBVIOUS
    <3> QED
      BY <3>1, Zenon
  <2>5. Iter(g)
    BY <2>4, Zenon
  <2> HIDE DEF g
  <2>6. g[0] = [bytes |-> <<>>, yielded |-> <<>>]
    <3>1. 0 \in 0 .. 0
      OBVIOUS
    <3> QED
      BY <2>5, <3>1, Zenon
  <2> QED
    BY <1>1, <2>2, <2>3, <2>6
<1>2. CASE packet # EndOfSession
  <2>1. PICK ms \in SentBatch : packet = build_packet(ms)
    BY <1>2 DEF Packet
  <2>2. ms \in Seq(Body) /\ Len(ms) # END_OF_SESSION_IDENT
    BY MaxMsgsAssumption DEF SentBatch, Countable
  <2>3. Iterated(packet) = ms
    BY <2>1, <2>2, IteratedPacket
  <2>4. packet.msg_count = Len(ms) /\ packet.messages = Blocks(ms)
    BY <2>1 DEF build_packet
  <2> QED
    BY <1>2, <2>1, <2>2, <2>3, <2>4
<1> QED
  BY <1>1, <1>2

\* The bodies in the packets, in order.
IteratedSeq(packets) == [n \in DOMAIN packets |-> Iterated(packets[n])]
Bodies(packets) == FlattenSeq(IteratedSeq(packets))

\* What is read back from packets is a sequence of sequences of bodies.
LEMMA IteratedSeqType ==
  ASSUME NEW ps \in Seq(Packet), Countable
  PROVE  /\ IteratedSeq(ps) \in Seq(Seq(Body)) /\ Len(IteratedSeq(ps)) = Len(ps)
         /\ \A k \in 1 .. Len(ps) : ps[k] \in Packet /\ IteratedSeq(ps)[k] = Iterated(ps[k])
<1>1. PICK n \in Nat : n = Len(ps) /\ DOMAIN ps = 1 .. n
  OBVIOUS
<1>2. ASSUME NEW k \in 1 .. n PROVE ps[k] \in Packet /\ Iterated(ps[k]) \in Seq(Body)
  <2>1. ps[k] \in Packet
    BY <1>1, ElementOfSeq
  <2>2. <<>> \in Seq(Body) /\ \A ms \in SentBatch : ms \in Seq(Body)
    BY DEF SentBatch
  <2> QED
    BY <2>1, <2>2, PacketForm
<1>3. IteratedSeq(ps) = [k \in 1 .. n |-> Iterated(ps[k])]
  BY <1>1 DEF IteratedSeq
<1>4. IteratedSeq(ps) \in [1 .. n -> Seq(Body)]
  BY <1>2, <1>3
<1>5. IteratedSeq(ps) \in Seq(Seq(Body)) /\ Len(IteratedSeq(ps)) = n
  BY <1>4
<1>6. \A k \in 1 .. n : IteratedSeq(ps)[k] = Iterated(ps[k])
  BY <1>3
<1> QED
  BY <1>1, <1>2, <1>5, <1>6

\* No packet, and one packet more.
LEMMA BodiesAppend ==
  ASSUME NEW ps \in Seq(Packet), Countable
  PROVE  /\ Bodies(ps) \in Seq(Body) /\ (Len(ps) = 0 => Bodies(ps) = <<>>)
         /\ \A p \in Packet : /\ Iterated(p) \in Seq(Body)
                              /\ Bodies(Append(ps, p)) = Bodies(ps) \o Iterated(p)
<1>1. Bodies(ps) \in Seq(Body) /\ (Len(ps) = 0 => Bodies(ps) = <<>>)
  BY IteratedSeqType, FlattenEmpty DEF Bodies
<1>2. ASSUME NEW p \in Packet
      PROVE  /\ Iterated(p) \in Seq(Body)
             /\ Bodies(Append(ps, p)) = Bodies(ps) \o Iterated(p)
  <2> DEFINE tt == Append(ps, p)
             n == Len(ps)
             new == Iterated(p)
  <2>1. n \in Nat /\ tt \in Seq(Packet) /\ Len(tt) = n + 1 /\ tt[n + 1] = p
        /\ \A k \in 1 .. n : tt[k] = ps[k]
    OBVIOUS
  <2>2. new \in Seq(Body)
    <3>1. <<>> \in Seq(Body) /\ \A ms \in SentBatch : ms \in Seq(Body)
      BY DEF SentBatch
    <3> QED
      BY <3>1, PacketForm
  <2> HIDE DEF tt, new
  <2>3. IteratedSeq(tt) = Append(IteratedSeq(ps), new)
    <3>1. IteratedSeq(tt) \in Seq(Seq(Body)) /\ Len(IteratedSeq(tt)) = n + 1
          /\ \A k \in 1 .. n + 1 : IteratedSeq(tt)[k] = Iterated(tt[k])
      BY <2>1, IteratedSeqType
    <3>2. IteratedSeq(ps) \in Seq(Seq(Body)) /\ Len(IteratedSeq(ps)) = n
          /\ \A k \in 1 .. n : IteratedSeq(ps)[k] = Iterated(ps[k])
      BY <2>1, IteratedSeqType
    <3>3. IteratedSeq(tt)[n + 1] = new
      <4>1. n + 1 \in 1 .. n + 1
        BY <2>1
      <4> QED
        BY <2>1, <3>1, <4>1 DEF new
    <3>4. \A k \in 1 .. n : IteratedSeq(tt)[k] = IteratedSeq(ps)[k]
      <4>1. \A k \in 1 .. n : k \in 1 .. n + 1
        BY <2>1
      <4> QED
        BY <2>1, <3>1, <3>2, <4>1
    <3> QED
      BY <2>2, <3>1, <3>2, <3>3, <3>4, IsAppend
  <2>4. FlattenSeq(Append(IteratedSeq(ps), new)) = FlattenSeq(IteratedSeq(ps)) \o new
    BY <2>2, IteratedSeqType, FlattenAppend
  <2>5. Bodies(tt) = Bodies(ps) \o new
    BY <2>3, <2>4 DEF Bodies
  <2> QED
    BY <2>2, <2>5, Zenon DEF tt, new
<1> QED
  BY <1>1, <1>2

\* The bytes of a file.
LEMMA FileBytes ==
  ASSUME NEW f \in Files
  PROVE  Bytes(f) \in Seq(Byte)
<1> DEFINE bs == [n \in DOMAIN f |-> f[n].bytes]
<1>1. PICK n \in Nat : n = Len(f) /\ DOMAIN f = 1 .. n
  <2>1. f \in Seq(ToSet(f))
    BY FilesAssumption
  <2> HIDE DEF bs
  <2> QED
    BY <2>1
<1>2. \A k \in 1 .. n : f[k].bytes \in Seq(Byte)
  BY <1>1, FilesAssumption
<1>3. bs \in [1 .. n -> Seq(Byte)]
  BY <1>1, <1>2
<1>4. bs \in Seq(Seq(Byte))
  BY <1>3
<1>5. Bytes(f) = FlattenSeq(bs)
  BY Zenon DEF Bytes
<1> HIDE DEF bs
<1> QED
  BY <1>4, <1>5, FlattenEmpty

\* The bodies in the packets and in the batch, framed again, and the unread
\* bytes are the bytes of the file.
Kept(packets, msgs, rest, f) == Blocks(Bodies(packets) \o msgs) \o rest = Bytes(f)

FramesInv ==
    /\ file \in Files
    /\ buf \in Seq(Byte)
    /\ batch \in Seq(Body)
    /\ next_flush \in 1 .. MaxMsgs
    /\ Len(batch) < next_flush
    /\ sent \in Seq(Packet)
    /\ server = "done" => batch = <<>>
    /\ Kept(sent, batch, buf, file)

\* Bytes put end to end.
LEMMA ConcatBytes ==
  ASSUME NEW x \in Seq(Byte), NEW y \in Seq(Byte), NEW z \in Seq(Byte)
  PROVE  (x \o y) \o z = x \o (y \o z)
  BY ConcatThree, SMTT(20)

\* A message is read into the batch.
LEMMA KeptRead ==
  ASSUME NEW ps \in Seq(Packet), NEW ms \in Seq(Body), NEW b \in Seq(Byte), NEW f,
         Countable, Kept(ps, ms, b, f), NEW body \in Body, NEW rest \in Seq(Byte),
         Starts(b, body, rest)
  PROVE  Kept(ps, Append(ms, body), rest, f)
<1>1. PICK read \in Seq(Body) : read = Bodies(ps)
  BY BodiesAppend
<1>2. PICK all \in Seq(Body) : all = read \o ms
  <2>1. read \o ms \in Seq(Body)
    BY Concatenated
  <2> QED
    BY <2>1
<1>3. read \o Append(ms, body) = Append(all, body)
  BY <1>2, AppendForms
<1>4. PICK x \in Seq(Byte) : x = Blocks(all)
  BY BlocksAppend
<1>5. PICK y \in Seq(Byte) : y = Block(body)
  BY BlockParts DEF Body
<1>6. Blocks(Append(all, body)) = x \o y
  BY <1>4, <1>5, BlocksAppend
<1>7. (x \o y) \o rest = x \o (y \o rest)
  BY ConcatBytes
<1>8. y \o rest = b
  BY <1>5, Zenon DEF Starts
<1>9. x \o b = Bytes(f)
  BY <1>1, <1>2, <1>4, Zenon DEF Kept
<1> QED
  BY <1>1, <1>3, <1>6, <1>7, <1>8, <1>9, Zenon DEF Kept

\* A batch is sent.
LEMMA KeptFlush ==
  ASSUME NEW ps \in Seq(Packet), NEW ms \in SentBatch, NEW b, NEW f,
         Countable, Kept(ps, ms, b, f)
  PROVE  /\ Append(ps, build_packet(ms)) \in Seq(Packet)
         /\ Kept(Append(ps, build_packet(ms)), <<>>, b, f)
<1>1. PICK p \in Packet : p = build_packet(ms)
  BY DEF Packet
<1>2. ms \in Seq(Body) /\ Len(ms) # END_OF_SESSION_IDENT
  BY MaxMsgsAssumption DEF SentBatch, Countable
<1>3. Iterated(p) = ms
  BY <1>1, <1>2, IteratedPacket
<1>4. PICK read \in Seq(Body) : read = Bodies(ps)
  BY BodiesAppend
<1>5. Bodies(Append(ps, p)) = read \o ms
  BY <1>3, <1>4, BodiesAppend
<1>6. PICK all \in Seq(Body) : all = read \o ms
  <2>1. read \o ms \in Seq(Body)
    BY <1>2, Concatenated
  <2> QED
    BY <2>1
<1>7. all \o <<>> = all
  OBVIOUS
<1>8. Append(ps, p) \in Seq(Packet)
  OBVIOUS
<1>9. Kept(Append(ps, p), <<>>, b, f)
  BY <1>4, <1>5, <1>6, <1>7, Zenon DEF Kept
<1> QED
  BY <1>1, <1>8, <1>9

\* The end of session holds no message.
LEMMA KeptEnd ==
  ASSUME NEW ps \in Seq(Packet), NEW b, NEW f, Countable, Kept(ps, <<>>, b, f)
  PROVE  /\ Append(ps, EndOfSession) \in Seq(Packet)
         /\ Kept(Append(ps, EndOfSession), <<>>, b, f)
<1>1. PICK p \in Packet : p = EndOfSession
  BY DEF Packet
<1>2. Iterated(p) = <<>>
  BY <1>1, PacketForm
<1>3. PICK read \in Seq(Body) : read = Bodies(ps)
  BY BodiesAppend
<1>4. Bodies(Append(ps, p)) = read \o <<>>
  BY <1>2, <1>3, BodiesAppend
<1>5. read \o <<>> = read
  OBVIOUS
<1>6. Kept(Append(ps, p), <<>>, b, f)
  BY <1>3, <1>4, <1>5, Zenon DEF Kept
<1>7. Append(ps, p) \in Seq(Packet)
  OBVIOUS
<1> QED
  BY <1>1, <1>6, <1>7

\* The invariant holds at the start.
LEMMA FramesInit ==
  ASSUME Countable, Init
  PROVE  FramesInv
<1> USE DEF Init
<1>1. buf \in Seq(Byte)
  BY FileBytes
<1>2. <<>> \in Seq(Body) /\ <<>> \in Seq(Packet) /\ Len(<<>>) = 0
  OBVIOUS
<1>3. Kept(<<>>, <<>>, buf, file)
  <2>1. Bodies(<<>>) = <<>>
    BY <1>2, BodiesAppend
  <2>2. <<>> \o <<>> = <<>>
    OBVIOUS
  <2>3. Blocks(<<>>) = <<>>
    BY <1>2, BlocksAppend
  <2>4. <<>> \o buf = buf
    BY <1>1
  <2> QED
    BY <2>1, <2>2, <2>3, <2>4, Zenon DEF Kept
<1>4. Len(batch) < next_flush
  BY <1>2, MaxMsgsAssumption
<1> QED
  BY <1>1, <1>2, <1>3, <1>4 DEF FramesInv

\* ReadMessage keeps the invariant.
LEMMA FramesRead ==
  ASSUME Countable, FramesInv, ReadMessage
  PROVE  FramesInv'
<1> DEFINE parsed == parse_one(buf)
           pushed == Append(batch, parsed.body)
<1>1. parsed.error = "None" /\ server = "reading" /\ server' = server /\ file' = file
  BY DEF ReadMessage, CanRead
<1>2. buf' = parsed.rest
  BY DEF ReadMessage
<1>3. IF Len(pushed) >= next_flush THEN Flush(pushed)
      ELSE batch' = pushed /\ UNCHANGED <<next_flush, sent>>
  BY DEF ReadMessage
<1>4. PICK body \in Body, rest \in Seq(Byte) :
         body = parsed.body /\ rest = parsed.rest /\ Starts(buf, body, rest)
  BY <1>1, ParseOne DEF FramesInv
<1> HIDE DEF parsed
<1>5. PICK ms \in Seq(Body) : ms = pushed /\ Len(ms) = Len(batch) + 1
  <2>1. batch \in Seq(Body) /\ parsed.body \in Body
    BY <1>4 DEF FramesInv
  <2>2. pushed \in Seq(Body) /\ Len(pushed) = Len(batch) + 1
    BY <2>1
  <2> QED
    BY <2>2
<1>6. Kept(sent, ms, rest, file)
  BY <1>4, <1>5, KeptRead DEF FramesInv
<1>7. Len(batch) \in Nat /\ Len(ms) =< next_flush /\ next_flush \in 1 .. MaxMsgs
  BY <1>5, MaxMsgsAssumption DEF FramesInv
<1> HIDE DEF pushed
<1>8. CASE Len(ms) >= next_flush
  <2>1. Flush(ms)
    BY <1>3, <1>5, <1>8
  <2>2. ms \in SentBatch
    BY <1>5, <1>7, MaxMsgsAssumption DEF SentBatch
  <2>3. /\ sent' = Append(sent, build_packet(ms)) /\ batch' = <<>>
        /\ next_flush' \in 1 .. MaxMsgs
    BY <2>1 DEF Flush
  <2>4. sent' \in Seq(Packet) /\ Kept(sent', batch', buf', file')
    BY <1>1, <1>2, <1>4, <1>6, <2>2, <2>3, KeptFlush DEF FramesInv
  <2>5. batch' \in Seq(Body) /\ Len(batch') < next_flush'
    BY <2>3, MaxMsgsAssumption
  <2> QED
    BY <1>1, <1>2, <1>4, <2>3, <2>4, <2>5 DEF FramesInv
<1>9. CASE ~(Len(ms) >= next_flush)
  <2>1. batch' = ms /\ next_flush' = next_flush /\ sent' = sent
    BY <1>3, <1>5, <1>9
  <2>2. Len(ms) < next_flush
    BY <1>5, <1>7, <1>9, MaxMsgsAssumption
  <2> QED
    BY <1>1, <1>2, <1>4, <1>6, <2>1, <2>2 DEF FramesInv
<1> QED
  BY <1>8, <1>9

\* StopReading keeps the invariant.
LEMMA FramesStop ==
  ASSUME Countable, FramesInv, StopReading
  PROVE  FramesInv'
<1>1. /\ file' = file /\ buf' = buf /\ next_flush' = next_flush /\ batch' = <<>>
      /\ sent' = (sent \o (IF batch = <<>> THEN <<>> ELSE <<build_packet(batch)>>))
                  \o <<EndOfSession>>
  BY DEF StopReading
<1>2. EndOfSession \in Packet /\ sent \in Seq(Packet) /\ batch \in Seq(Body)
  BY DEF Packet, FramesInv
<1>a. ASSUME NEW ps \in Seq(Packet), NEW p \in Packet
      PROVE  ps \o <<p>> = Append(ps, p) /\ ps \o <<>> = ps
  OBVIOUS
<1>3. PICK ps \in Seq(Packet) : /\ sent' = Append(ps, EndOfSession)
                                /\ Kept(ps, <<>>, buf, file)
  <2>1. CASE batch = <<>>
    <3>1. sent \o <<>> = sent
      BY <1>2, <1>a
    <3>2. sent \o <<EndOfSession>> = Append(sent, EndOfSession)
      BY <1>2, <1>a
    <3>3. sent' = Append(sent, EndOfSession)
      BY <1>1, <2>1, <3>1, <3>2, Zenon
    <3>4. Kept(sent, <<>>, buf, file)
      BY <2>1 DEF FramesInv
    <3> QED
      BY <1>2, <3>3, <3>4
  <2>2. CASE batch # <<>>
    <3>1. Len(batch) \in Nat /\ Len(batch) # 0
      BY <1>2, <2>2, EmptySeq
    <3>2. batch \in SentBatch
      BY <1>2, <3>1, MaxMsgsAssumption DEF SentBatch, FramesInv
    <3>3. PICK p \in Packet : p = build_packet(batch)
      BY <3>2 DEF Packet
    <3>4. /\ Append(sent, p) \in Seq(Packet)
          /\ Kept(Append(sent, p), <<>>, buf, file)
      BY <1>2, <3>2, <3>3, KeptFlush DEF FramesInv
    <3>5. sent \o <<p>> = Append(sent, p)
      BY <1>2, <1>a
    <3>6. PICK q \in Seq(Packet) : q = Append(sent, p)
      BY <3>4
    <3>7. q \o <<EndOfSession>> = Append(q, EndOfSession)
      BY <1>2, <1>a
    <3>8. sent' = Append(q, EndOfSession)
      BY <1>1, <2>2, <3>3, <3>5, <3>6, <3>7, Zenon
    <3> QED
      BY <3>4, <3>6, <3>8
  <2> QED
    BY <2>1, <2>2
<1>4. sent' \in Seq(Packet) /\ Kept(sent', <<>>, buf, file)
  BY <1>3, KeptEnd
<1>5. batch' \in Seq(Body) /\ Len(batch') < next_flush'
  BY <1>1, MaxMsgsAssumption DEF FramesInv
<1> QED
  BY <1>1, <1>4, <1>5 DEF FramesInv

\* Every step keeps the invariant.
LEMMA FramesNext ==
  ASSUME Countable, FramesInv, [Next]_vars
  PROVE  FramesInv'
<1>1. ASSUME UNCHANGED <<file, serverVars>> PROVE FramesInv'
  BY <1>1 DEF FramesInv, serverVars
<1>2. CASE ReadMessage
  BY <1>2, FramesRead
<1>3. CASE StopReading
  BY <1>3, FramesStop
<1>4. CASE Receive
  BY <1>1, <1>4 DEF Receive
<1>5. CASE ReceiveTimeout
  BY <1>1, <1>5 DEF ReceiveTimeout
<1>6. CASE ParseMessage
  BY <1>1, <1>6 DEF ParseMessage
<1>7. CASE RaiseShutdown
  BY <1>1, <1>7 DEF RaiseShutdown
<1>8. CASE UNCHANGED vars
  BY <1>1, <1>8 DEF vars
<1> QED
  BY <1>2, <1>3, <1>4, <1>5, <1>6, <1>7, <1>8 DEF Next

\* It implies the property.
LEMMA FramesKeptFrom ==
  ASSUME Countable, FramesInv
  PROVE  FramesKept
<1> DEFINE bodies == FlattenSeq([n \in DOMAIN sent |-> Iterated(sent[n])])
<1>1. bodies = Bodies(sent)
  BY Zenon DEF Bodies, IteratedSeq
<1>2. Blocks(bodies \o batch) \o buf = Bytes(file)
  BY <1>1, Zenon DEF FramesInv, Kept
<1>3. ASSUME NEW n \in DOMAIN sent
      PROVE  sent[n] = EndOfSession \/ Len(Iterated(sent[n])) = sent[n].msg_count
  <2>1. sent[n] \in Packet
    BY ElementOfSeq DEF FramesInv
  <2> QED
    BY <2>1, PacketForm
<1>4. server = "done" => batch = <<>>
  BY DEF FramesInv
<1> QED
  BY <1>2, <1>3, <1>4, Zenon DEF FramesKept

\* The replay loop and the packets' iterator agree on the frames (Batch::flush,
\* build_packet, Packet::iter): whatever the sizes of the batches, nothing of
\* the file is lost, repeated or cut elsewhere on the way to the packets.
THEOREM FramesKeptHolds ==
  ASSUME Countable
  PROVE  Spec => []FramesKept
<1>1. Init => FramesInv
  BY FramesInit
<1>2. FramesInv /\ [Next]_vars => FramesInv'
  BY FramesNext
<1>3. FramesInv => FramesKept
  BY FramesKeptFrom
<1> QED
  BY <1>1, <1>2, <1>3, PTL DEF Spec

-----------------------------------------------------------------------------
(* Where the packets' bodies are in the file.                              *)

\* The number of messages in a packet.
CountOf(packet) == IF packet = EndOfSession THEN 0 ELSE packet.msg_count

\* f[k] counts the messages in the first k of n packets.
IsCount(f, ps, n) == f[0] = 0 /\ \A k \in 1 .. n : f[k] = f[k - 1] + CountOf(ps[k])

\* FramesUpTo is that count.
LEMMA CountUnique ==
  ASSUME NEW n \in Nat, NEW ps, NEW f, IsCount(f, ps, n)
  PROVE  FramesUpTo(ps, n) = f[n]
<1> DEFINE Iter(h) == h = [k \in 0 .. n |->
                             IF k = 0 THEN 0
                             ELSE h[k - 1] + (IF ps[k] = EndOfSession THEN 0
                                              ELSE ps[k].msg_count)]
           g == CHOOSE h : Iter(h)
           a == [k \in 0 .. n |-> f[k]]
<1>1. ASSUME NEW k \in 1 .. n
      PROVE  /\ k \in 0 .. n /\ k - 1 \in 0 .. n /\ k # 0
             /\ f[k] = f[k - 1] + (IF ps[k] = EndOfSession THEN 0 ELSE ps[k].msg_count)
  <2>1. k \in 0 .. n /\ k - 1 \in 0 .. n /\ k # 0
    OBVIOUS
  <2>2. f[k] = f[k - 1] + CountOf(ps[k])
    BY DEF IsCount
  <2>3. CountOf(ps[k]) = IF ps[k] = EndOfSession THEN 0 ELSE ps[k].msg_count
    BY Zenon DEF CountOf
  <2> QED
    BY <2>1, <2>2, <2>3, Zenon
<1>2. f[0] = 0
  BY DEF IsCount
<1>3. ASSUME NEW k \in 0 .. n
      PROVE  a[k] = IF k = 0 THEN 0
                    ELSE a[k - 1] + (IF ps[k] = EndOfSession THEN 0
                                     ELSE ps[k].msg_count)
  <2>1. CASE k = 0
    BY <1>2, <2>1
  <2>2. CASE k # 0
    <3>1. k \in 1 .. n
      BY <2>2
    <3>2. a[k] = f[k] /\ a[k - 1] = f[k - 1]
      BY <1>1, <3>1, Zenon
    <3> HIDE DEF a
    <3> QED
      BY <1>1, <2>2, <3>1, <3>2, Zenon
  <2> QED
    BY <2>1, <2>2
<1>4. Iter(a)
  BY <1>3, Zenon
<1>5. Iter(g)
  <2>1. \E h : Iter(h)
    BY <1>4, Zenon
  <2> QED
    BY <2>1, Zenon
<1>6. FramesUpTo(ps, n) = g[n]
  BY Zenon DEF FramesUpTo
<1> HIDE DEF g
<1>7. g[0] = f[0]
  <2>1. 0 \in 0 .. n
    OBVIOUS
  <2> QED
    BY <1>2, <1>5, <2>1, Zenon
<1>8. ASSUME NEW k \in 1 .. n PROVE g[k - 1] = f[k - 1] => g[k] = f[k]
  <2>1. g[k] = g[k - 1] + (IF ps[k] = EndOfSession THEN 0 ELSE ps[k].msg_count)
    BY <1>1, <1>5, Zenon
  <2> QED
    BY <1>1, <2>1, Zenon
<1> HIDE DEF Iter
<1>9. g[n] = f[n]
  BY <1>7, <1>8, SameAtEnd
<1> QED
  BY <1>6, <1>9

\* Where an element is in a sequence.
IsAt(x, seq, n) == n \in 1 .. Len(seq) /\ seq[n] = x

\* The elements of sequences put end to end.
LEMMA FlattenElement ==
  ASSUME NEW S, NEW ss \in Seq(Seq(S)), NEW acc, IsFlattening(acc, ss, S),
         NEW n \in 1 .. Len(ss), NEW j \in 1 .. Len(ss[n]), NEW m \in n .. Len(ss)
  PROVE  IsAt(ss[n][j], acc[m], Len(acc[n - 1]) + j)
<1>1. PICK len \in Nat : len = Len(ss)
  OBVIOUS
<1>2. ASSUME NEW k \in 1 .. len
      PROVE  /\ acc[k - 1] \in Seq(S) /\ ss[k] \in Seq(S) /\ acc[k] \in Seq(S)
             /\ Len(acc[k - 1]) \in Nat /\ Len(ss[k]) \in Nat /\ Len(acc[k]) \in Nat
             /\ Len(acc[k]) = Len(acc[k - 1]) + Len(ss[k])
             /\ \A i \in 1 .. Len(acc[k - 1]) : acc[k][i] = acc[k - 1][i]
             /\ \A i \in 1 .. Len(ss[k]) : acc[k][Len(acc[k - 1]) + i] = ss[k][i]
  <2>1. k - 1 \in 0 .. len /\ k \in 0 .. len
    BY <1>1
  <2>2. acc[k - 1] \in Seq(S) /\ acc[k] \in Seq(S) /\ acc[k] = acc[k - 1] \o ss[k]
    BY <1>1, <2>1 DEF IsFlattening
  <2>3. ss[k] \in Seq(S)
    BY <1>1, ElementOfSeq
  <2>4. PICK a \in Seq(S), b \in Seq(S) : a = acc[k - 1] /\ b = ss[k]
    BY <2>2, <2>3
  <2>5. /\ Len(a \o b) = Len(a) + Len(b)
        /\ \A i \in 1 .. Len(a) : (a \o b)[i] = a[i]
        /\ \A i \in 1 .. Len(b) : (a \o b)[Len(a) + i] = b[i]
    BY Concatenated
  <2>6. acc[k] = a \o b
    BY <2>2, <2>4
  <2>7. Len(a) \in Nat /\ Len(b) \in Nat
    OBVIOUS
  <2>8. Len(acc[k]) \in Nat
    BY <2>5, <2>6, <2>7
  <2> QED
    BY <2>2, <2>3, <2>4, <2>5, <2>6, <2>7, <2>8
<1>3. n \in 1 .. len /\ m \in n .. len
  BY <1>1
<1>4. PICK off \in Nat : off = Len(acc[n - 1])
  <2>1. Len(acc[n - 1]) \in Nat
    BY <1>2, <1>3
  <2> QED
    BY <2>1
<1> DEFINE At(k) == off + j \in 1 .. Len(acc[k]) /\ acc[k][off + j] = ss[n][j]
           T == {k \in 0 .. len : k < n \/ At(k)}
<1>5. At(n)
  <2>1. Len(ss[n]) \in Nat /\ Len(acc[n]) = off + Len(ss[n])
    BY <1>2, <1>3, <1>4
  <2>2. acc[n][off + j] = ss[n][j]
    BY <1>2, <1>3, <1>4
  <2>3. PICK w \in Nat, v \in Nat : w = Len(ss[n]) /\ v = Len(acc[n]) /\ v = off + w
    BY <2>1
  <2>4. j \in 1 .. w
    BY <2>3
  <2>5. off + j \in 1 .. v
    BY <2>3, <2>4
  <2> QED
    BY <2>2, <2>3, <2>5, Zenon
<1>6. 0 \in T
  BY <1>3
<1>7. ASSUME NEW k \in 1 .. len, k - 1 \in T PROVE k \in T
  <2>1. CASE k < n
    BY <2>1
  <2>2. CASE k = n
    BY <1>5, <2>2
  <2>3. CASE k > n
    <3>1. At(k - 1)
      BY <1>7, <2>3
    <3>2. PICK x \in Nat, y \in Nat, z \in Nat :
             x = Len(acc[k - 1]) /\ y = Len(ss[k]) /\ z = Len(acc[k]) /\ z = x + y
      <4>1. /\ Len(acc[k - 1]) \in Nat /\ Len(ss[k]) \in Nat /\ Len(acc[k]) \in Nat
            /\ Len(acc[k]) = Len(acc[k - 1]) + Len(ss[k])
        BY <1>2
      <4> QED
        BY <4>1
    <3>3. off + j \in 1 .. x
      BY <3>1, <3>2
    <3>4. off + j \in 1 .. z
      <4>1. PICK i \in 1 .. x : i = off + j
        BY <3>3
      <4>2. z = x + y
        BY <3>2
      <4>3. i \in 1 .. z
        BY <4>2
      <4> QED
        BY <4>1, <4>3
    <3>5. acc[k][off + j] = acc[k - 1][off + j]
      BY <1>2, <3>2, <3>3
    <3>6. At(k)
      BY <3>1, <3>2, <3>4, <3>5
    <3> QED
      BY <3>6
  <2> QED
    BY <2>1, <2>2, <2>3
<1>8. m \in T
  <2> HIDE DEF T
  <2>1. \A k \in 0 .. len : k \in T
    BY <1>6, <1>7, InductionUpTo
  <2> QED
    BY <1>3, <2>1
<1>9. At(m)
  BY <1>3, <1>8
<1> QED
  BY <1>4, <1>9 DEF IsAt

\* The number of messages in the packets, and where the bodies of a packet
\* are among those of all packets.
LEMMA PacketBodies ==
  ASSUME NEW ps \in Seq(Packet), Countable
  PROVE  /\ FramesUpTo(ps, 0) = 0
         /\ FramesUpTo(ps, Len(ps)) = Len(Bodies(ps))
         /\ \A n \in 0 .. Len(ps) : FramesUpTo(ps, n) \in Nat
         /\ \A n \in 1 .. Len(ps) :
               /\ FramesUpTo(ps, n) = FramesUpTo(ps, n - 1) + Len(Iterated(ps[n]))
               /\ FramesUpTo(ps, n) =< Len(Bodies(ps))
               /\ \A j \in 1 .. Len(Iterated(ps[n])) :
                     Iterated(ps[n])[j] = Bodies(ps)[FramesUpTo(ps, n - 1) + j]
<1>1. PICK ss \in Seq(Seq(Body)) : ss = IteratedSeq(ps)
  BY IteratedSeqType
<1>2. PICK len \in Nat : len = Len(ps)
  OBVIOUS
<1>3. /\ Len(ss) = len
      /\ \A k \in 1 .. len : ss[k] = Iterated(ps[k]) /\ ps[k] \in Packet
  BY <1>1, <1>2, IteratedSeqType
<1>4. PICK acc : IsFlattening(acc, ss, Body) /\ FlattenSeq(ss) = acc[Len(ss)]
  BY FlattenRun
<1>5. Bodies(ps) = acc[len]
  BY <1>1, <1>3, <1>4 DEF Bodies
<1>6. /\ \A k \in 0 .. len : acc[k] \in Seq(Body) /\ Len(acc[k]) \in Nat
      /\ Len(acc[0]) = 0
  <2>1. \A k \in 0 .. len : acc[k] \in Seq(Body)
    BY <1>3, <1>4 DEF IsFlattening
  <2>2. acc[0] = <<>>
    BY <1>4 DEF IsFlattening
  <2>3. Len(<<>>) = 0
    OBVIOUS
  <2>4. \A k \in 0 .. len : Len(acc[k]) \in Nat
    BY <2>1
  <2> QED
    BY <2>1, <2>2, <2>3, <2>4
<1>7. ASSUME NEW k \in 1 .. len
      PROVE  /\ Len(acc[k]) = Len(acc[k - 1]) + Len(ss[k]) /\ Len(ss[k]) \in Nat
             /\ CountOf(ps[k]) = Len(ss[k])
  <2>1. k - 1 \in 0 .. len /\ k \in 0 .. len
    OBVIOUS
  <2>2. ss[k] \in Seq(Body)
    BY <1>3, ElementOfSeq
  <2>3. PICK a \in Seq(Body), b \in Seq(Body) : a = acc[k - 1] /\ b = ss[k]
    BY <1>6, <2>1, <2>2
  <2>4. Len(a \o b) = Len(a) + Len(b) /\ Len(b) \in Nat
    BY Concatenated
  <2>5. acc[k] = a \o b
    BY <1>3, <1>4, <2>3 DEF IsFlattening
  <2>6. CountOf(ps[k]) = Len(ss[k])
    <3>1. ss[k] = Iterated(ps[k]) /\ ps[k] \in Packet
      BY <1>3
    <3>2. Len(<<>>) = 0
      OBVIOUS
    <3> QED
      BY <3>1, <3>2, PacketForm DEF CountOf
  <2> QED
    BY <2>3, <2>4, <2>5, <2>6
<1> DEFINE f == [k \in 0 .. len |-> Len(acc[k])]
<1>8. ASSUME NEW n \in 0 .. len PROVE FramesUpTo(ps, n) = Len(acc[n])
  <2>1. f[0] = 0 /\ f[n] = Len(acc[n])
    BY <1>6
  <2>2. ASSUME NEW k \in 1 .. n PROVE f[k] = f[k - 1] + CountOf(ps[k])
    <3>1. k \in 1 .. len /\ k - 1 \in 0 .. len /\ k \in 0 .. len
      OBVIOUS
    <3>2. f[k] = Len(acc[k]) /\ f[k - 1] = Len(acc[k - 1])
      BY <3>1
    <3> HIDE DEF f
    <3> QED
      BY <1>7, <3>1, <3>2
  <2> HIDE DEF f
  <2>3. n \in Nat /\ IsCount(f, ps, n)
    BY <2>1, <2>2 DEF IsCount
  <2> QED
    BY <2>1, <2>3, CountUnique
<1>9. FramesUpTo(ps, 0) = 0 /\ FramesUpTo(ps, len) = Len(Bodies(ps))
  BY <1>5, <1>6, <1>8
<1>10. \A n \in 0 .. len : FramesUpTo(ps, n) \in Nat
  BY <1>6, <1>8
<1>11. ASSUME NEW n \in 1 .. len
       PROVE  /\ FramesUpTo(ps, n) = FramesUpTo(ps, n - 1) + Len(Iterated(ps[n]))
              /\ FramesUpTo(ps, n) =< Len(Bodies(ps))
              /\ \A j \in 1 .. Len(Iterated(ps[n])) :
                    Iterated(ps[n])[j] = Bodies(ps)[FramesUpTo(ps, n - 1) + j]
  <2>1. n \in 0 .. len /\ n - 1 \in 0 .. len /\ len \in n .. Len(ss) /\ n \in 1 .. Len(ss)
    BY <1>3
  <2>2. FramesUpTo(ps, n) = Len(acc[n]) /\ FramesUpTo(ps, n - 1) = Len(acc[n - 1])
    BY <1>8, <2>1
  <2>3. /\ ss[n] = Iterated(ps[n]) /\ Len(ss[n]) \in Nat
        /\ Len(acc[n]) = Len(acc[n - 1]) + Len(ss[n])
    BY <1>3, <1>7
  <2>4. ASSUME NEW j \in 1 .. Len(ss[n])
        PROVE  /\ Len(acc[n - 1]) + j \in 1 .. Len(acc[len])
               /\ acc[len][Len(acc[n - 1]) + j] = ss[n][j]
    <3>1. IsFlattening(acc, ss, Body)
      BY <1>4
    <3>2. n \in 1 .. Len(ss) /\ len \in n .. Len(ss)
      BY <2>1
    <3>3. IsAt(ss[n][j], acc[len], Len(acc[n - 1]) + j)
      BY <3>1, <3>2, FlattenElement
    <3> QED
      BY <3>3, Zenon DEF IsAt
  <2>5. FramesUpTo(ps, n) =< Len(Bodies(ps))
    <3>1. f \in [0 .. len -> Nat] /\ f[n] = Len(acc[n]) /\ f[len] = Len(acc[len])
      BY <1>6, <2>1
    <3>2. ASSUME NEW k \in 1 .. len PROVE f[k - 1] =< f[k]
      <4>1. k - 1 \in 0 .. len /\ k \in 0 .. len
        OBVIOUS
      <4>2. f[k - 1] = Len(acc[k - 1]) /\ f[k] = Len(acc[k]) /\ Len(acc[k - 1]) \in Nat
        BY <1>6, <4>1
      <4> HIDE DEF f
      <4>3. Len(acc[k]) = Len(acc[k - 1]) + Len(ss[k]) /\ Len(ss[k]) \in Nat
        BY <1>7
      <4>4. PICK x \in Nat, y \in Nat : x = Len(acc[k - 1]) /\ y = Len(ss[k])
        BY <4>2, <4>3
      <4>5. f[k - 1] = x /\ f[k] = x + y
        BY <4>2, <4>3, <4>4
      <4> QED
        BY <4>5
    <3> HIDE DEF f
    <3>3. n \in 0 .. len /\ len \in n .. len
      BY <2>1
    <3>4. f[n] =< f[len]
      BY <3>1, <3>2, <3>3, Monotone
    <3> QED
      BY <1>5, <2>2, <3>1, <3>4
  <2> QED
    BY <1>5, <2>2, <2>3, <2>4, <2>5
<1> QED
  BY <1>2, <1>9, <1>10, <1>11

\* The count depends on the packets that it counts only.
LEMMA FramesAgree ==
  ASSUME NEW ps \in Seq(Packet), NEW qs \in Seq(Packet), Countable,
         NEW n \in 0 .. Len(ps), \A k \in 1 .. n : ps[k] = qs[k]
  PROVE  FramesUpTo(qs, n) = FramesUpTo(ps, n)
<1>1. PICK len \in Nat : len = Len(ps)
  OBVIOUS
<1> DEFINE f == [k \in 0 .. n |-> FramesUpTo(ps, k)]
<1>2. f[0] = 0 /\ f[n] = FramesUpTo(ps, n)
  BY PacketBodies
<1>3. ASSUME NEW k \in 1 .. n PROVE f[k] = f[k - 1] + CountOf(qs[k])
  <2>1. k \in 1 .. Len(ps) /\ k \in 0 .. n /\ k - 1 \in 0 .. n
    BY <1>1
  <2>2. f[k] = FramesUpTo(ps, k) /\ f[k - 1] = FramesUpTo(ps, k - 1)
    BY <2>1
  <2> HIDE DEF f
  <2>3. FramesUpTo(ps, k) = FramesUpTo(ps, k - 1) + Len(Iterated(ps[k]))
    BY <2>1, PacketBodies
  <2>4. CountOf(ps[k]) = Len(Iterated(ps[k]))
    <3>1. ps[k] \in Packet
      BY <2>1, ElementOfSeq
    <3>2. Len(<<>>) = 0
      OBVIOUS
    <3> QED
      BY <3>1, <3>2, PacketForm DEF CountOf
  <2>5. qs[k] = ps[k]
    OBVIOUS
  <2> QED
    BY <2>2, <2>3, <2>4, <2>5
<1> HIDE DEF f
<1>4. n \in Nat /\ IsCount(f, qs, n)
  BY <1>1, <1>2, <1>3 DEF IsCount
<1> QED
  BY <1>2, <1>4, CountUnique

-----------------------------------------------------------------------------
(* What the file means by the packets.                                     *)

\* What file f means by its frames after the first a, up to number b.
MeantIn(f, a, b) ==
    LET frames == SubSeq(f, a + 1, b)
        bad == {k \in DOMAIN frames : frames[k].says = NoMessage}
    IN SubSeq(frames, 1, IF bad = {} THEN Len(frames) ELSE Min(bad) - 1)

\* The frames of f after the first a, up to the first of c that is no message.
IsMeant(meant, f, a, c, S) ==
    /\ meant \in Seq(S) /\ Len(meant) \in 0 .. c
    /\ \A i \in 1 .. Len(meant) : meant[i] = f[a + i] /\ f[a + i].says # NoMessage
    /\ Len(meant) # c => f[a + (Len(meant) + 1)].says = NoMessage

\* What frames mean up to the first that is no message.
LEMMA MeantInForm ==
  ASSUME NEW S, NEW f \in Seq(S), NEW b \in 0 .. Len(f), NEW a \in 0 .. b
  PROVE  IsMeant(MeantIn(f, a, b), f, a, b - a, S)
<1>1. PICK n \in Nat : n = b - a
  <2>1. b - a \in Nat
    OBVIOUS
  <2> QED
    BY <2>1
<1> DEFINE frames == SubSeq(f, a + 1, b)
           bad == {k \in DOMAIN frames : frames[k].says = NoMessage}
           count == IF bad = {} THEN Len(frames) ELSE Min(bad) - 1
           meant == SubSeq(frames, 1, count)
<1>2. /\ frames \in Seq(S) /\ Len(frames) = n
      /\ \A i \in 1 .. n : frames[i] = f[a + i]
  <2>1. a + 1 \in 1 .. Len(f) + 1 /\ b \in (a + 1) - 1 .. Len(f)
    OBVIOUS
  <2>2. /\ frames \in Seq(S) /\ Len(frames) = b - (a + 1) + 1
        /\ \A i \in 1 .. b - (a + 1) + 1 : frames[i] = f[(a + 1) - 1 + i]
    BY <2>1, Parts
  <2>3. b - (a + 1) + 1 = n /\ (a + 1) - 1 = a
    BY <1>1
  <2> HIDE DEF frames
  <2> QED
    BY <2>2, <2>3
<1> HIDE DEF frames
<1>3. DOMAIN frames = 1 .. n
  BY <1>2
<1>4. /\ count \in 0 .. n
      /\ \A i \in 1 .. count : frames[i].says # NoMessage
      /\ count # n => frames[count + 1].says = NoMessage
  <2>1. CASE bad = {}
    <3>1. count = n
      BY <1>2, <2>1
    <3>2. \A i \in 1 .. n : frames[i].says # NoMessage
      BY <1>3, <2>1
    <3> HIDE DEF count, bad
    <3> QED
      BY <3>1, <3>2
  <2>2. CASE bad # {}
    <3>1. bad \subseteq Nat /\ bad \subseteq 1 .. n
      BY <1>3
    <3>2. PICK m \in bad : \A k \in bad : m =< k
      <4> HIDE DEF bad
      <4> QED
        BY <2>2, <3>1, LeastNatural
    <3>3. Min(bad) \in bad /\ \A k \in bad : Min(bad) =< k
      <4> HIDE DEF bad
      <4> QED
        BY <3>2, Zenon DEF Min
    <3>4. PICK x \in 1 .. n : x = Min(bad) /\ x \in bad /\ \A k \in bad : x =< k
      <4> HIDE DEF bad
      <4> QED
        BY <3>1, <3>3
    <3>5. count = x - 1
      <4> HIDE DEF bad
      <4> QED
        BY <2>2, <3>4
    <3>6. frames[x].says = NoMessage
      BY <3>4
    <3>7. ASSUME NEW i \in 1 .. x - 1 PROVE frames[i].says # NoMessage
      <4>1. i \in 1 .. n /\ ~(x =< i)
        OBVIOUS
      <4>2. i \notin bad
        <5> HIDE DEF bad
        <5> QED
          BY <3>4, <4>1
      <4> QED
        BY <1>3, <4>1, <4>2
    <3> HIDE DEF count, bad
    <3>8. x - 1 \in 0 .. n /\ (x - 1) + 1 = x
      OBVIOUS
    <3> QED
      BY <3>5, <3>6, <3>7, <3>8
  <2> QED
    BY <2>1, <2>2
<1>5. MeantIn(f, a, b) = meant
  BY Zenon DEF MeantIn, frames
<1> HIDE DEF count
<1>6. /\ meant \in Seq(S) /\ Len(meant) = count
      /\ \A i \in 1 .. count : meant[i] = frames[i]
  <2>1. 1 \in 1 .. Len(frames) + 1 /\ count \in 1 - 1 .. Len(frames)
    BY <1>2, <1>4
  <2>2. /\ meant \in Seq(S) /\ Len(meant) = count - 1 + 1
        /\ \A i \in 1 .. count - 1 + 1 : meant[i] = frames[1 - 1 + i]
    BY <1>2, <2>1, Parts
  <2>3. count - 1 + 1 = count /\ \A i \in 1 .. count : 1 - 1 + i = i
    BY <1>4
  <2> HIDE DEF meant
  <2> QED
    BY <2>2, <2>3
<1> HIDE DEF meant
<1>7. PICK c \in 0 .. n : c = count
  BY <1>4
<1>8. ASSUME NEW i \in 1 .. c PROVE meant[i] = f[a + i] /\ f[a + i].says # NoMessage
  <2>1. i \in 1 .. n
    OBVIOUS
  <2>2. frames[i] = f[a + i] /\ frames[i].says # NoMessage /\ meant[i] = frames[i]
    BY <1>2, <1>4, <1>6, <1>7, <2>1
  <2> QED
    BY <2>2
<1>9. c # n => f[a + (c + 1)].says = NoMessage
  <2>1. c # n => c + 1 \in 1 .. n
    OBVIOUS
  <2> QED
    BY <1>2, <1>4, <1>7, <2>1
<1>10. IsMeant(meant, f, a, n, S)
  BY <1>6, <1>7, <1>8, <1>9 DEF IsMeant
<1> QED
  BY <1>1, <1>5, <1>10

\* What file f means by packet n, and by the first r packets.
MeantOf(f, ps, n) == MeantIn(f, FramesUpTo(ps, n - 1), FramesUpTo(ps, n))
MeantSeq(f, ps, r) == [n \in 1 .. r |-> MeantOf(f, ps, n)]
MeantUp(f, ps, r) == FlattenSeq(MeantSeq(f, ps, r))

\* The frames are in the file.
Within(f, ps) == Len(Bodies(ps)) =< Len(f)

\* What the frames of a packet mean.
LEMMA MeantOfForm ==
  ASSUME NEW S, NEW f \in Seq(S), NEW ps \in Seq(Packet), Countable, Within(f, ps),
         NEW n \in 1 .. Len(ps), NEW a, a = FramesUpTo(ps, n - 1),
         NEW c, c = Len(Iterated(ps[n]))
  PROVE  /\ a \in Nat /\ c \in Nat /\ a + c =< Len(f)
         /\ IsMeant(MeantOf(f, ps, n), f, a, c, S)
<1>1. PICK b : b = FramesUpTo(ps, n)
  BY Zenon
<1>2. n \in 0 .. Len(ps) /\ n - 1 \in 0 .. Len(ps)
  OBVIOUS
<1>3. a \in Nat /\ b \in Nat
  BY <1>1, <1>2, PacketBodies
<1>4. c \in Nat
  <2>1. ps[n] \in Packet
    BY ElementOfSeq
  <2>2. Iterated(ps[n]) \in Seq(Body)
    BY <2>1, BodiesAppend
  <2> QED
    BY <2>2
<1>5. b = a + c /\ b =< Len(Bodies(ps))
  BY <1>1, PacketBodies
<1>6. Len(Bodies(ps)) \in Nat /\ Len(f) \in Nat
  <2>1. Bodies(ps) \in Seq(Body)
    BY BodiesAppend
  <2> QED
    BY <2>1
<1>7. b \in 0 .. Len(f) /\ a \in 0 .. b /\ b - a = c /\ a + c =< Len(f)
  <2>1. b =< Len(f)
    BY <1>3, <1>5, <1>6 DEF Within
  <2> QED
    BY <1>3, <1>4, <1>5, <1>6, <2>1
<1>8. MeantOf(f, ps, n) = MeantIn(f, a, b)
  BY <1>1, Zenon DEF MeantOf
<1>9. IsMeant(MeantIn(f, a, b), f, a, b - a, S)
  BY <1>7, MeantInForm
<1> QED
  BY <1>3, <1>4, <1>7, <1>8, <1>9

\* What the frames of the first packets mean, packet after packet.
LEMMA MeantUpForm ==
  ASSUME NEW S, NEW f \in Seq(S), NEW ps \in Seq(Packet), Countable, Within(f, ps)
  PROVE  /\ MeantUp(f, ps, 0) = <<>>
         /\ \A r \in 0 .. Len(ps) : MeantUp(f, ps, r) \in Seq(S)
         /\ \A r \in 1 .. Len(ps) :
               MeantUp(f, ps, r) = MeantUp(f, ps, r - 1) \o MeantOf(f, ps, r)
<1>1. PICK len \in Nat : len = Len(ps)
  OBVIOUS
<1>2. \A n \in 1 .. len : MeantOf(f, ps, n) \in Seq(S)
  BY <1>1, MeantOfForm DEF IsMeant
<1>3. ASSUME NEW r \in 0 .. len
      PROVE  /\ MeantSeq(f, ps, r) \in Seq(Seq(S)) /\ Len(MeantSeq(f, ps, r)) = r
             /\ \A n \in 1 .. r : MeantSeq(f, ps, r)[n] = MeantOf(f, ps, n)
  <2>1. \A n \in 1 .. r : MeantOf(f, ps, n) \in Seq(S)
    BY <1>2
  <2>2. MeantSeq(f, ps, r) \in [1 .. r -> Seq(S)]
    BY <2>1 DEF MeantSeq
  <2>3. r \in Nat
    OBVIOUS
  <2>4. MeantSeq(f, ps, r) \in Seq(Seq(S)) /\ Len(MeantSeq(f, ps, r)) = r
    BY <2>2, <2>3
  <2> QED
    BY <2>4 DEF MeantSeq
<1>4. MeantUp(f, ps, 0) = <<>>
  <2>1. 0 \in 0 .. len
    OBVIOUS
  <2> QED
    BY <1>3, <2>1, FlattenEmpty DEF MeantUp
<1>5. \A r \in 0 .. len : MeantUp(f, ps, r) \in Seq(S)
  BY <1>3, FlattenEmpty DEF MeantUp
<1>6. ASSUME NEW r \in 1 .. len
      PROVE  MeantUp(f, ps, r) = MeantUp(f, ps, r - 1) \o MeantOf(f, ps, r)
  <2>1. r \in 0 .. len /\ r - 1 \in 0 .. len /\ r = (r - 1) + 1
    OBVIOUS
  <2>2. PICK x \in Seq(S) : x = MeantOf(f, ps, r)
    BY <1>2
  <2>3. PICK ss \in Seq(Seq(S)) : /\ ss = MeantSeq(f, ps, r - 1) /\ Len(ss) = r - 1
                                  /\ \A n \in 1 .. r - 1 : ss[n] = MeantOf(f, ps, n)
    BY <1>3, <2>1
  <2>4. PICK tt \in Seq(Seq(S)) : /\ tt = MeantSeq(f, ps, r) /\ Len(tt) = r
                                  /\ \A n \in 1 .. r : tt[n] = MeantOf(f, ps, n)
    BY <1>3, <2>1
  <2>5. tt = Append(ss, x)
    <3>1. Len(tt) = Len(ss) + 1 /\ Len(ss) + 1 = r
      BY <2>1, <2>3, <2>4
    <3>2. tt[Len(ss) + 1] = x
      BY <2>2, <2>4, <3>1
    <3>3. ASSUME NEW k \in 1 .. Len(ss) PROVE tt[k] = ss[k]
      <4>1. k \in 1 .. r /\ k \in 1 .. r - 1
        BY <2>3
      <4> QED
        BY <2>3, <2>4, <4>1
    <3> QED
      BY <3>1, <3>2, <3>3, IsAppend
  <2>6. FlattenSeq(Append(ss, x)) = FlattenSeq(ss) \o x
    BY FlattenAppend
  <2> QED
    BY <2>2, <2>3, <2>4, <2>5, <2>6, Zenon DEF MeantUp
<1> QED
  BY <1>1, <1>4, <1>5, <1>6

\* What the packets mean does not depend on later ones.
LEMMA MeantAgree ==
  ASSUME NEW ps \in Seq(Packet), NEW qs \in Seq(Packet), Countable, NEW f,
         NEW r \in 0 .. Len(ps), \A k \in 1 .. Len(ps) : qs[k] = ps[k]
  PROVE  /\ MeantUp(f, qs, r) = MeantUp(f, ps, r)
         /\ r # 0 => MeantOf(f, qs, r) = MeantOf(f, ps, r)
<1>1. ASSUME NEW n \in 0 .. Len(ps) PROVE FramesUpTo(qs, n) = FramesUpTo(ps, n)
  <2>1. \A k \in 1 .. n : ps[k] = qs[k]
    OBVIOUS
  <2> QED
    BY <2>1, FramesAgree
<1>2. ASSUME NEW n \in 1 .. Len(ps) PROVE MeantOf(f, qs, n) = MeantOf(f, ps, n)
  <2>1. n \in 0 .. Len(ps) /\ n - 1 \in 0 .. Len(ps)
    OBVIOUS
  <2>2. FramesUpTo(qs, n) = FramesUpTo(ps, n) /\ FramesUpTo(qs, n - 1) = FramesUpTo(ps, n - 1)
    BY <1>1, <2>1
  <2> QED
    BY <2>2, Zenon DEF MeantOf
<1>3. \A n \in 1 .. r : MeantOf(f, qs, n) = MeantOf(f, ps, n)
  <2>1. \A n \in 1 .. r : n \in 1 .. Len(ps)
    OBVIOUS
  <2> QED
    BY <1>2, <2>1
<1>4. MeantSeq(f, qs, r) = MeantSeq(f, ps, r)
  BY <1>3 DEF MeantSeq
<1>5. r # 0 => r \in 1 .. Len(ps)
  OBVIOUS
<1> QED
  BY <1>2, <1>4, <1>5, Zenon DEF MeantUp

-----------------------------------------------------------------------------
(* Reading the file.                                                       *)

\* The bytes of the frames of part of a file.
ByteSeq(frames) == [n \in DOMAIN frames |-> frames[n].bytes]

\* A file is a sequence of frames with their bytes.
LEMMA FileForm ==
  ASSUME NEW f \in Files
  PROVE  /\ f \in Seq(ToSet(f)) /\ Len(f) \in Nat /\ DOMAIN f = 1 .. Len(f)
         /\ \A n \in 1 .. Len(f) : f[n].bytes \in Seq(Byte)
<1>1. f \in Seq(ToSet(f))
  BY FilesAssumption
<1>2. DOMAIN f = 1 .. Len(f) /\ Len(f) \in Nat
  BY <1>1
<1> QED
  BY <1>1, <1>2, FilesAssumption

\* The bytes of the frames after the first ones.
LEMMA ByteSeqRest ==
  ASSUME NEW f \in Files, NEW k \in 0 .. Len(f)
  PROVE  /\ ByteSeq(Rest(f, k)) \in Seq(Seq(Byte)) /\ Len(ByteSeq(Rest(f, k))) = Len(f) - k
         /\ \A i \in 1 .. Len(f) - k : ByteSeq(Rest(f, k))[i] = f[k + i].bytes
<1>a. PICK S : f \in Seq(S)
  BY FileForm
<1>1. PICK n \in Nat : f \in Seq(S) /\ n = Len(f)
  BY <1>a, FileForm
<1>2. PICK m \in Nat : m = n - k
  <2>1. n - k \in Nat
    BY <1>1
  <2> QED
    BY <2>1
<1>3. PICK t \in Seq(S) : /\ t = Rest(f, k) /\ Len(t) = m
                          /\ \A i \in 1 .. m : t[i] = f[k + i]
  <2>1. /\ Rest(f, k) \in Seq(S) /\ Len(Rest(f, k)) = m
        /\ \A i \in 1 .. m : Rest(f, k)[i] = f[k + i]
    BY <1>1, <1>2, RestParts
  <2> QED
    BY <2>1
<1>4. ASSUME NEW i \in 1 .. m PROVE t[i].bytes = f[k + i].bytes /\ t[i].bytes \in Seq(Byte)
  <2>1. k + i \in 1 .. Len(f)
    BY <1>1, <1>2
  <2> QED
    BY <1>3, <2>1, FileForm
<1>5. DOMAIN t = 1 .. m
  BY <1>3
<1>6. ByteSeq(t) \in [1 .. m -> Seq(Byte)]
  BY <1>4, <1>5 DEF ByteSeq
<1>7. ByteSeq(t) \in Seq(Seq(Byte)) /\ Len(ByteSeq(t)) = m
  BY <1>6
<1>8. \A i \in 1 .. m : ByteSeq(t)[i] = f[k + i].bytes
  BY <1>4, <1>5 DEF ByteSeq
<1> QED
  BY <1>1, <1>2, <1>3, <1>7, <1>8

\* The unread bytes start with those of the next frame.
LEMMA BytesRest ==
  ASSUME NEW f \in Files, NEW k \in 0 .. Len(f)
  PROVE  /\ Bytes(Rest(f, k)) \in Seq(Byte)
         /\ k = Len(f) => Bytes(Rest(f, k)) = <<>>
         /\ k # Len(f) =>
               Bytes(Rest(f, k)) = f[k + 1].bytes \o Bytes(Rest(f, k + 1))
         /\ Bytes(Rest(f, 0)) = Bytes(f)
<1>1. PICK n \in Nat : n = Len(f)
  BY FileForm
<1>2. \A j \in 0 .. n : Bytes(Rest(f, j)) = FlattenSeq(ByteSeq(Rest(f, j)))
  BY Zenon DEF Bytes, ByteSeq
<1>3. ByteSeq(Rest(f, k)) \in Seq(Seq(Byte)) /\ Len(ByteSeq(Rest(f, k))) = n - k
  BY <1>1, ByteSeqRest
<1>4. Bytes(Rest(f, k)) \in Seq(Byte)
  BY <1>1, <1>2, <1>3, FlattenEmpty
<1>5. ASSUME k = n PROVE Bytes(Rest(f, k)) = <<>>
  <2>1. Len(ByteSeq(Rest(f, k))) = 0
    BY <1>3, <1>5
  <2> QED
    BY <1>1, <1>2, <1>3, <2>1, FlattenEmpty
<1>6. ASSUME k # n
      PROVE  Bytes(Rest(f, k)) = f[k + 1].bytes \o Bytes(Rest(f, k + 1))
  <2>1. k + 1 \in 0 .. Len(f) /\ k + 1 \in 0 .. n /\ 1 \in 1 .. n - k /\ n - k = (n - (k + 1)) + 1
    BY <1>1, <1>6
  <2>2. PICK tt \in Seq(Seq(Byte)) : /\ tt = ByteSeq(Rest(f, k)) /\ Len(tt) = n - k
                                    /\ \A i \in 1 .. n - k : tt[i] = f[k + i].bytes
    <3>1. /\ ByteSeq(Rest(f, k)) \in Seq(Seq(Byte)) /\ Len(ByteSeq(Rest(f, k))) = n - k
          /\ \A i \in 1 .. n - k : ByteSeq(Rest(f, k))[i] = f[k + i].bytes
      BY <1>1, ByteSeqRest
    <3> QED
      BY <3>1
  <2>3. PICK ss \in Seq(Seq(Byte)) : /\ ss = ByteSeq(Rest(f, k + 1)) /\ Len(ss) = n - (k + 1)
                                    /\ \A i \in 1 .. n - (k + 1) : ss[i] = f[(k + 1) + i].bytes
    <3>1. /\ ByteSeq(Rest(f, k + 1)) \in Seq(Seq(Byte)) /\ Len(ByteSeq(Rest(f, k + 1))) = n - (k + 1)
          /\ \A i \in 1 .. n - (k + 1) : ByteSeq(Rest(f, k + 1))[i] = f[(k + 1) + i].bytes
      BY <1>1, <2>1, ByteSeqRest
    <3> QED
      BY <3>1
  <2>4. IsCons(tt, ss)
    <3>1. ASSUME NEW i \in 1 .. n - (k + 1) PROVE tt[i + 1] = ss[i]
      <4>1. i + 1 \in 1 .. n - k /\ k + (i + 1) = (k + 1) + i
        BY <1>1
      <4> QED
        BY <2>2, <2>3, <4>1
    <3> QED
      BY <2>1, <2>2, <2>3, <3>1 DEF IsCons
  <2>5. FlattenSeq(tt) = tt[1] \o FlattenSeq(ss)
    BY <2>4, FlattenCons
  <2>6. tt[1] = f[k + 1].bytes
    BY <2>1, <2>2
  <2>7. Bytes(Rest(f, k)) = FlattenSeq(tt) /\ Bytes(Rest(f, k + 1)) = FlattenSeq(ss)
    BY <1>1, <1>2, <2>1, <2>2, <2>3
  <2> QED
    BY <2>5, <2>6, <2>7, Zenon
<1>7. Bytes(Rest(f, 0)) = Bytes(f)
  <2>1. PICK S : f \in Seq(S)
    BY FileForm
  <2>2. 0 \in 0 .. Len(f) /\ Len(f) - 0 = n
    BY <1>1
  <2>3. /\ Rest(f, 0) \in Seq(S) /\ Len(Rest(f, 0)) = Len(f) - 0
        /\ \A i \in 1 .. Len(f) - 0 : Rest(f, 0)[i] = f[0 + i]
    BY <2>1, <2>2, RestParts
  <2>4. Rest(f, 0) = f
    BY <1>1, <2>1, <2>2, <2>3, SameSeq
  <2> QED
    BY <2>4
<1> QED
  BY <1>1, <1>4, <1>5, <1>6, <1>7

\* A frame that is as long as it says is the block of its body.
LEMMA FramedStarts ==
  ASSUME NEW frame, frame.bytes \in Seq(Byte), Framed(frame.bytes), NEW rest \in Seq(Byte)
  PROVE  /\ BodyOf(frame) \in Seq(Byte) /\ Fits(BodyOf(frame))
         /\ Starts(frame.bytes \o rest, BodyOf(frame), rest)
<1>1. PICK b \in Seq(Byte) : b = frame.bytes
  OBVIOUS
<1>2. PICK len \in Nat : len = Len(b)
  OBVIOUS
<1>3. len >= 2 /\ BigEndian(SubSeq(b, 1, 2)) = len - 2
  BY <1>1, <1>2, Zenon DEF Framed
<1>4. PICK n \in Nat : n = len - 2 /\ 2 + n = len /\ 3 + n = len + 1
  <2>1. len - 2 \in Nat
    BY <1>3
  <2> QED
    BY <1>3, <2>1
<1> DEFINE body == SubSeq(b, 3, 2 + n)
           tail == SubSeq(b, 3 + n, Len(b))
<1>5. IsSplit(b, n, body, tail)
  BY <1>3, <1>4, Zenon DEF IsSplit
<1>6. BodyOf(frame) = body
  BY <1>1, <1>2, <1>4, Zenon DEF BodyOf
<1> HIDE DEF body, tail
<1>7. /\ body \in Seq(Byte) /\ Len(body) = n /\ Fits(body)
      /\ tail \in Seq(Byte) /\ Starts(b, body, tail)
  <2>1. Len(b) >= 2 /\ 2 + n =< Len(b)
    BY <1>2, <1>3, <1>4
  <2> QED
    BY <1>5, <2>1, SplitBlock
<1>8. PICK block \in Seq(Byte) : block = Block(body)
  BY <1>7, BlockParts
<1>9. b = block
  <2>1. Len(b) = 2 + Len(body) + Len(tail)
    BY <1>7, StartsSplit
  <2>2. Len(tail) = 0
    <3>1. Len(tail) \in Nat
      BY <1>7
    <3> QED
      BY <1>2, <1>4, <1>7, <2>1, <3>1
  <2>3. tail = <<>>
    BY <1>7, <2>2, EmptySeq
  <2>4. block \o <<>> = block
    OBVIOUS
  <2>5. b = block \o tail
    BY <1>7, <1>8, Zenon DEF Starts
  <2> QED
    BY <2>3, <2>4, <2>5, Zenon
<1>10. Starts(b \o rest, body, rest)
  BY <1>8, <1>9, Zenon DEF Starts
<1> QED
  BY <1>1, <1>6, <1>7, <1>10

\* The bodies read so far are those of the first frames of the file, which mean
\* something, and the other frames are unread.
ReadFrom(f, read, b) ==
    /\ Len(read) =< Len(f)
    /\ \A i \in 1 .. Len(read) : read[i] = BodyOf(f[i]) /\ Means(f[i])
    /\ b = Bytes(Rest(f, Len(read)))

\* One more frame is read.
LEMMA ReadFromNext ==
  ASSUME NEW f \in Files, FilesMeant, NEW read \in Seq(Body), NEW b \in Seq(Byte),
         ReadFrom(f, read, b), b # <<>>, parse_one(b).error = "None"
  PROVE  ReadFrom(f, Append(read, parse_one(b).body), parse_one(b).rest)
<1>1. PICK body \in Body, rest \in Seq(Byte) :
         body = parse_one(b).body /\ rest = parse_one(b).rest /\ Starts(b, body, rest)
  BY ParseOne
<1>2. body \in Seq(Byte) /\ Fits(body)
  BY DEF Body
<1>3. PICK k \in Nat : k = Len(read)
  OBVIOUS
<1>4. PICK n \in Nat : n = Len(f) /\ DOMAIN f = 1 .. n
  BY FileForm
<1>5. b = Bytes(Rest(f, k)) /\ k =< n
  BY <1>3, <1>4 DEF ReadFrom
<1>6. k # n
  <2>1. n \in 0 .. Len(f)
    BY <1>4
  <2>2. Bytes(Rest(f, n)) = <<>>
    BY <1>4, <2>1, BytesRest
  <2> QED
    BY <1>5, <2>2
<1>7. k \in 0 .. Len(f) /\ k + 1 \in 0 .. Len(f) /\ k + 1 \in 1 .. n
  BY <1>4, <1>5, <1>6
<1>8. PICK more \in Seq(Byte) : more = Bytes(Rest(f, k + 1))
  BY <1>7, BytesRest
<1>9. b = f[k + 1].bytes \o more
  BY <1>4, <1>5, <1>6, <1>7, <1>8, BytesRest
<1>10. f[k + 1].bytes \in Seq(Byte)
  BY <1>4, <1>7, FileForm
<1>11. Framed(f[k + 1].bytes) /\ Means(f[k + 1])
  <2>1. \/ Framed(f[k + 1].bytes) /\ Means(f[k + 1])
        \/ k + 1 = Len(f) /\ CutShort(f[k + 1].bytes)
    BY <1>4, <1>7, Zenon DEF FilesMeant
  <2>2. ASSUME k + 1 = Len(f), CutShort(f[k + 1].bytes) PROVE FALSE
    <3>1. more = <<>>
      BY <1>7, <1>8, <2>2, BytesRest
    <3>2. PICK x \in Seq(Byte) : x = f[k + 1].bytes
      BY <1>10
    <3>3. x \o <<>> = x
      OBVIOUS
    <3>4. b = x
      BY <1>9, <3>1, <3>2, <3>3, Zenon
    <3> QED
      BY <2>2, <3>2, <3>4, ParseCut
  <2> QED
    BY <2>1, <2>2
<1>12. PICK frame : frame = f[k + 1]
  BY Zenon
<1>13. /\ BodyOf(frame) \in Seq(Byte) /\ Fits(BodyOf(frame))
       /\ Starts(b, BodyOf(frame), more)
  <2>1. frame.bytes \in Seq(Byte) /\ Framed(frame.bytes) /\ b = frame.bytes \o more
    BY <1>9, <1>10, <1>11, <1>12, Zenon
  <2>2. /\ BodyOf(frame) \in Seq(Byte) /\ Fits(BodyOf(frame))
        /\ Starts(frame.bytes \o more, BodyOf(frame), more)
    BY <2>1, FramedStarts
  <2> QED
    BY <2>1, <2>2, Zenon
<1>14. body = BodyOf(frame) /\ rest = more
  BY <1>1, <1>2, <1>13, StartsUnique
<1> DEFINE new == Append(read, body)
<1>15. /\ Len(new) = k + 1 /\ new[k + 1] = body
       /\ \A i \in 1 .. k : new[i] = read[i]
  BY <1>3
<1> HIDE DEF new
<1>16. ASSUME NEW i \in 1 .. k + 1 PROVE new[i] = BodyOf(f[i]) /\ Means(f[i])
  <2>1. CASE i = k + 1
    BY <1>11, <1>12, <1>14, <1>15, <2>1
  <2>2. CASE i # k + 1
    <3>1. i \in 1 .. k
      BY <2>2
    <3> QED
      BY <1>3, <1>15, <3>1 DEF ReadFrom
  <2> QED
    BY <2>1, <2>2
<1>17. rest = Bytes(Rest(f, Len(new)))
  BY <1>8, <1>14, <1>15
<1>18. Len(new) =< Len(f)
  BY <1>7, <1>15
<1>19. ReadFrom(f, new, rest)
  BY <1>15, <1>16, <1>17, <1>18 DEF ReadFrom
<1> QED
  BY <1>1, <1>19 DEF new

\* Before anything is read.
LEMMA ReadFromInit ==
  ASSUME NEW f \in Files
  PROVE  ReadFrom(f, <<>>, Bytes(f))
<1>1. Len(<<>>) = 0
  OBVIOUS
<1>2. Len(f) \in Nat /\ 0 \in 0 .. Len(f)
  BY FileForm
<1>3. Bytes(f) = Bytes(Rest(f, 0))
  BY <1>2, BytesRest
<1> QED
  BY <1>1, <1>2, <1>3 DEF ReadFrom

\* The bodies in packets and batch.
All(ps, ms) == Bodies(ps) \o ms

\* What reading, flushing and ending make of the bodies in packets and batch.
LEMMA AllForm ==
  ASSUME NEW ps \in Seq(Packet), NEW ms \in Seq(Body), Countable
  PROVE  /\ All(ps, ms) \in Seq(Body)
         /\ Len(All(ps, ms)) = Len(Bodies(ps)) + Len(ms)
         /\ \A i \in 1 .. Len(Bodies(ps)) : All(ps, ms)[i] = Bodies(ps)[i]
         /\ \A body \in Body : All(ps, Append(ms, body)) = Append(All(ps, ms), body)
         /\ ms \in SentBatch => All(Append(ps, build_packet(ms)), <<>>) = All(ps, ms)
         /\ ms = <<>> => All(Append(ps, EndOfSession), <<>>) = All(ps, ms)
<1>1. PICK read \in Seq(Body) : read = Bodies(ps)
  BY BodiesAppend
<1>2. PICK all : all = read \o ms
  BY Zenon
<1>3. All(ps, ms) = all
  BY <1>1, <1>2, Zenon DEF All
<1>4. /\ all \in Seq(Body) /\ Len(all) = Len(read) + Len(ms)
      /\ \A i \in 1 .. Len(read) : all[i] = read[i]
  <2>1. /\ read \o ms \in Seq(Body) /\ Len(read \o ms) = Len(read) + Len(ms)
        /\ \A i \in 1 .. Len(read) : (read \o ms)[i] = read[i]
    BY Concatenated
  <2> QED
    BY <1>2, <2>1, Zenon
<1>5. ASSUME NEW body \in Body PROVE All(ps, Append(ms, body)) = Append(all, body)
  <2>1. read \o Append(ms, body) = Append(read \o ms, body)
    BY AppendForms
  <2> QED
    BY <1>1, <1>2, <2>1, Zenon DEF All
<1>a. ASSUME NEW x \in Seq(Body) PROVE x \o <<>> = x
  OBVIOUS
<1>6. ASSUME NEW p \in Packet, Iterated(p) = ms PROVE All(Append(ps, p), <<>>) = all
  <2>1. Bodies(Append(ps, p)) = read \o ms
    BY <1>1, <1>6, BodiesAppend
  <2>2. all \o <<>> = all
    BY <1>4, <1>a
  <2> QED
    BY <1>2, <2>1, <2>2, Zenon DEF All
<1>7. ms \in SentBatch => All(Append(ps, build_packet(ms)), <<>>) = all
  <2> HAVE ms \in SentBatch
  <2>1. build_packet(ms) \in Packet
    BY DEF Packet
  <2>2. Len(ms) # END_OF_SESSION_IDENT
    BY MaxMsgsAssumption DEF SentBatch, Countable
  <2>3. Iterated(build_packet(ms)) = ms
    BY <2>2, IteratedPacket
  <2> QED
    BY <1>6, <2>1, <2>3
<1>8. ms = <<>> => All(Append(ps, EndOfSession), <<>>) = all
  <2>1. EndOfSession \in Packet
    BY DEF Packet
  <2>2. Iterated(EndOfSession) = <<>>
    BY <2>1, PacketForm
  <2> QED
    BY <1>6, <2>1, <2>2
<1> QED
  BY <1>1, <1>3, <1>4, <1>5, <1>7, <1>8

\* The bodies in the packets are those of frames that mean something.
BodiesMean(f, ps) ==
    \A i \in 1 .. Len(Bodies(ps)) : Bodies(ps)[i] = BodyOf(f[i]) /\ Means(f[i])

\* What ReadFrom says of the packets.
LEMMA PacketsFrom ==
  ASSUME NEW f \in Files, NEW ps \in Seq(Packet), NEW ms \in Seq(Body), Countable, NEW b,
         ReadFrom(f, All(ps, ms), b)
  PROVE  Within(f, ps) /\ BodiesMean(f, ps)
<1>1. PICK n \in Nat, m \in Nat : n = Len(Bodies(ps)) /\ m = Len(ms)
  <2>1. Bodies(ps) \in Seq(Body)
    BY BodiesAppend
  <2>2. Len(Bodies(ps)) \in Nat /\ Len(ms) \in Nat
    BY <2>1
  <2> QED
    BY <2>2
<1>2. /\ Len(All(ps, ms)) = n + m
      /\ \A i \in 1 .. n : All(ps, ms)[i] = Bodies(ps)[i]
  BY <1>1, AllForm
<1>3. Len(f) \in Nat /\ n + m =< Len(f)
  BY <1>2, FileForm DEF ReadFrom
<1>4. Within(f, ps)
  BY <1>1, <1>3 DEF Within
<1>5. ASSUME NEW i \in 1 .. n PROVE Bodies(ps)[i] = BodyOf(f[i]) /\ Means(f[i])
  <2>1. i \in 1 .. n + m
    OBVIOUS
  <2> QED
    BY <1>2, <2>1 DEF ReadFrom
<1> QED
  BY <1>1, <1>4, <1>5 DEF BodiesMean

-----------------------------------------------------------------------------
(* Dispatching.                                                            *)

\* The messages a body can be cast to.
Msg == {cast(body) : body \in {b \in Body : Castable(b)}}

\* The messages applied are meant by the first r packets, one by one.
AppliedUpTo(f, ps, r, msgs) ==
    /\ Len(msgs) =< Len(MeantUp(f, ps, r))
    /\ \A n \in 1 .. Len(msgs) : Agrees(msgs[n], MeantUp(f, ps, r)[n].says)

\* In packet r, of which the parser has `rest' left, `count' messages having
\* been applied in all: everything that was meant was.
ParsingAt(f, ps, r, count, rest) ==
    /\ r \in 1 .. Len(ps)
    /\ \E j \in 0 .. Len(MeantOf(f, ps, r)) :
          /\ rest = Blocks(Rest(Iterated(ps[r]), j))
          /\ count = Len(MeantUp(f, ps, r - 1)) + j

\* What the frame at place n says when its body is a message.
Saying(f, n, body) ==
    /\ n \in DOMAIN f /\ f[n].says # NoMessage
    /\ Agrees(cast(body), f[n].says)
    /\ "tag" \in DOMAIN f[n].says /\ "stock_locate" \in DOMAIN f[n].says
    /\ f[n].says.tag = StockDirectory.TAG => "stock" \in DOMAIN f[n].says

\* At the start of packet r nothing of it was applied.
LEMMA ParsingStarts ==
  ASSUME NEW f \in Files, NEW ps \in Seq(Packet), Countable, Within(f, ps),
         NEW r \in 1 .. Len(ps), ps[r] # EndOfSession
  PROVE  ParsingAt(f, ps, r, Len(MeantUp(f, ps, r - 1)), ps[r].messages)
<1>1. PICK S : f \in Seq(S)
  BY FileForm
<1>2. PICK m \in Nat : m = Len(MeantOf(f, ps, r))
  <2>1. MeantOf(f, ps, r) \in Seq(S)
    BY <1>1, MeantOfForm DEF IsMeant
  <2>2. Len(MeantOf(f, ps, r)) \in Nat
    BY <2>1
  <2> QED
    BY <2>2
<1>3. PICK ms \in SentBatch : Iterated(ps[r]) = ms /\ ps[r].messages = Blocks(ms)
  <2>1. ps[r] \in Packet
    BY ElementOfSeq
  <2> QED
    BY <2>1, PacketForm
<1>4. ms \in Seq(Body)
  BY DEF SentBatch
<1>5. Rest(ms, 0) = ms
  <2>1. 0 \in 0 .. Len(ms) /\ Len(ms) - 0 = Len(ms)
    BY <1>4
  <2>2. /\ Rest(ms, 0) \in Seq(Body) /\ Len(Rest(ms, 0)) = Len(ms) - 0
        /\ \A i \in 1 .. Len(ms) - 0 : Rest(ms, 0)[i] = ms[0 + i]
    BY <1>4, <2>1, RestParts
  <2> QED
    BY <1>4, <2>1, <2>2, SameSeq
<1>6. Len(MeantUp(f, ps, r - 1)) = Len(MeantUp(f, ps, r - 1)) + 0
  <2>1. r - 1 \in 0 .. Len(ps)
    OBVIOUS
  <2>2. MeantUp(f, ps, r - 1) \in Seq(S)
    BY <1>1, <2>1, MeantUpForm
  <2> QED
    BY <2>2
<1>7. 0 \in 0 .. m
  OBVIOUS
<1> QED
  BY <1>2, <1>3, <1>5, <1>6, <1>7 DEF ParsingAt

\* The next message of packet r, or its end.
ParsesNext(f, ps, r, count, rest) ==
    /\ rest = <<>> => count = Len(MeantUp(f, ps, r))
    /\ rest # <<>> =>
          \E body \in Body, left \in Seq(Byte) :
             /\ parse_one(rest) = [error |-> "None", body |-> body, rest |-> left]
             /\ ~Castable(body) => count = Len(MeantUp(f, ps, r))
             /\ Castable(body) =>
                   /\ count + 1 =< Len(MeantUp(f, ps, r))
                   /\ ParsingAt(f, ps, r, count + 1, left)
                   /\ \E n : /\ Saying(f, n, body)
                             /\ MeantUp(f, ps, r)[count + 1] = f[n]

\* Parsing one more message of packet r, or its end.
LEMMA ParsingNext ==
  ASSUME NEW f \in Files, NEW ps \in Seq(Packet), Countable, Within(f, ps),
         BodiesMean(f, ps),
         NEW r, NEW count, NEW rest, ParsingAt(f, ps, r, count, rest)
  PROVE  /\ count =< Len(MeantUp(f, ps, r))
         /\ ParsesNext(f, ps, r, count, rest)
<1>1. r \in 1 .. Len(ps)
  BY DEF ParsingAt
<1>2. PICK S : f \in Seq(S)
  BY FileForm
<1>3. PICK meant, before, a, it : /\ meant = MeantOf(f, ps, r)
                                  /\ before = MeantUp(f, ps, r - 1)
                                  /\ a = FramesUpTo(ps, r - 1)
                                  /\ it = Iterated(ps[r])
  BY Zenon
<1>4. it \in Seq(Body)
  <2>1. ps[r] \in Packet
    BY <1>1, ElementOfSeq
  <2> QED
    BY <1>3, <2>1, BodiesAppend
<1>5. PICK c \in Nat : c = Len(it)
  BY <1>4
<1>6. a \in Nat /\ a + c =< Len(f) /\ IsMeant(meant, f, a, c, S)
  BY <1>1, <1>2, <1>3, <1>5, MeantOfForm
<1>7. meant \in Seq(S) /\ before \in Seq(S) /\ MeantUp(f, ps, r) = before \o meant
  <2>1. r - 1 \in 0 .. Len(ps)
    BY <1>1
  <2>2. meant \in Seq(S)
    BY <1>6 DEF IsMeant
  <2> QED
    BY <1>1, <1>2, <1>3, <2>1, <2>2, MeantUpForm
<1>8. PICK m \in 0 .. c : m = Len(meant)
  BY <1>6 DEF IsMeant
<1>9. PICK p \in Nat : p = Len(before)
  BY <1>7
<1>10. PICK all : /\ all = MeantUp(f, ps, r) /\ Len(all) = p + m
                  /\ \A i \in 1 .. m : all[p + i] = meant[i]
  <2>1. PICK x \in Seq(S), y \in Seq(S) : x = before /\ y = meant
    BY <1>7
  <2>2. /\ Len(x \o y) = Len(x) + Len(y)
        /\ \A i \in 1 .. Len(y) : (x \o y)[Len(x) + i] = y[i]
    BY Concatenated
  <2>3. PICK z : z = x \o y
    BY Zenon
  <2>4. Len(z) = p + m /\ \A i \in 1 .. m : z[p + i] = meant[i]
    BY <1>8, <1>9, <2>1, <2>2, <2>3
  <2>5. z = MeantUp(f, ps, r)
    BY <1>7, <2>1, <2>3
  <2> QED
    BY <2>4, <2>5
<1>11. PICK j \in 0 .. m : rest = Blocks(Rest(it, j)) /\ count = p + j
  BY <1>3, <1>8, <1>9 DEF ParsingAt
<1>12. count =< Len(all)
  BY <1>10, <1>11
<1>13. CASE j = c
  <2>1. rest = <<>>
    <3>1. j \in 0 .. Len(it)
      BY <1>5
    <3>2. Rest(it, j) \in Seq(Body) /\ Len(Rest(it, j)) = 0
      BY <1>4, <1>5, <1>13, <3>1, RestParts
    <3> QED
      BY <1>11, <3>2, BlocksAppend
  <2>2. m = j
    BY <1>13
  <2> QED
    BY <1>10, <1>11, <1>12, <2>1, <2>2 DEF ParsesNext
<1>14. CASE j # c
  <2>1. j \in 0 .. Len(it) - 1 /\ j + 1 \in 0 .. Len(it) /\ j + 1 \in 1 .. c
    BY <1>5, <1>14
  <2>2. PICK left \in Seq(Byte) : left = Blocks(Rest(it, j + 1))
    <3>1. Rest(it, j + 1) \in Seq(Body)
      BY <1>4, <2>1, RestParts
    <3> QED
      BY <3>1, BlocksAppend
  <2>3. PICK body \in Body : body = it[j + 1]
    BY <1>4, <1>5, <2>1, ElementOfSeq
  <2>4. Starts(rest, body, left)
    BY <1>4, <1>11, <2>1, <2>2, <2>3, BlocksRest
  <2>5. parse_one(rest) = [error |-> "None", body |-> body, rest |-> left]
    BY <2>4, ParseBlock
  <2>6. rest # <<>>
    <3>1. body \in Seq(Byte) /\ Fits(body) /\ Len(body) \in Nat /\ Len(left) \in Nat
      BY DEF Body
    <3>2. Len(rest) = 2 + Len(body) + Len(left)
      BY <2>4, <3>1, StartsSplit
    <3>3. Len(rest) # 0
      BY <3>1, <3>2
    <3> QED
      BY <3>3
  <2>7. PICK n \in 1 .. Len(f) : n = a + (j + 1)
    <3>1. Len(f) \in Nat
      BY FileForm
    <3>2. a + (j + 1) \in 1 .. Len(f)
      BY <1>6, <2>1, <3>1
    <3> QED
      BY <3>2
  <2>8. body = BodyOf(f[n]) /\ Means(f[n])
    <3>1. /\ FramesUpTo(ps, r) = a + c /\ FramesUpTo(ps, r) =< Len(Bodies(ps))
          /\ \A i \in 1 .. c : it[i] = Bodies(ps)[a + i]
      BY <1>1, <1>3, <1>5, PacketBodies
    <3>2. Len(Bodies(ps)) \in Nat
      <4>1. Bodies(ps) \in Seq(Body)
        BY BodiesAppend
      <4> QED
        BY <4>1
    <3>3. n \in 1 .. Len(Bodies(ps))
      BY <1>6, <2>1, <2>7, <3>1, <3>2
    <3>4. it[j + 1] = Bodies(ps)[n]
      BY <2>1, <2>7, <3>1
    <3> QED
      BY <2>3, <3>3, <3>4 DEF BodiesMean
  <2>9. ASSUME ~Castable(body) PROVE count = Len(all)
    <3>1. f[n].says = NoMessage
      <4>1. ~IsMessage(body)
        BY <2>9 DEF IsMessage, Castable
      <4> QED
        BY <2>8, <4>1 DEF Means
    <3>2. j = m
      <4> SUFFICES ASSUME j # m PROVE FALSE
        OBVIOUS
      <4>1. j + 1 \in 1 .. m
        OBVIOUS
      <4>2. f[a + (j + 1)].says # NoMessage
        BY <1>6, <1>8, <4>1 DEF IsMeant
      <4> QED
        BY <2>7, <3>1, <4>2
    <3> QED
      BY <1>10, <1>11, <3>2
  <2>10. ASSUME Castable(body)
         PROVE  /\ count + 1 =< Len(all) /\ ParsingAt(f, ps, r, count + 1, left)
                /\ Saying(f, n, body) /\ all[count + 1] = f[n]
    <3>1. IsMessage(body)
      <4>1. body # <<>> /\ body[1] \in Tags
        BY DEF Body
      <4> QED
        BY <2>10, <4>1 DEF IsMessage, Castable
    <3>2. Saying(f, n, body)
      <4>1. n \in DOMAIN f
        BY FileForm
      <4>2. /\ f[n].says # NoMessage
            /\ Agrees(Decode(TypeOf[body[1]], body), f[n].says)
            /\ {"tag", "stock_locate"} \subseteq DOMAIN f[n].says
            /\ f[n].says.tag = StockDirectory.TAG => "stock" \in DOMAIN f[n].says
        BY <2>8, <3>1, Zenon DEF Means
      <4> QED
        BY <4>1, <4>2, Zenon DEF Saying, cast
    <3>3. j # m
      <4> SUFFICES ASSUME j = m PROVE FALSE
        OBVIOUS
      <4>1. f[a + (m + 1)].says = NoMessage
        BY <1>6, <1>8, <1>14 DEF IsMeant
      <4> QED
        BY <2>7, <3>2, <4>1 DEF Saying
    <3>4. j + 1 \in 1 .. m /\ j + 1 \in 0 .. m
      BY <3>3
    <3>5. meant[j + 1] = f[n]
      BY <1>6, <1>8, <2>7, <3>4 DEF IsMeant
    <3>6. count + 1 = p + (j + 1) /\ count + 1 =< p + m
      BY <1>11, <3>4
    <3>7. ParsingAt(f, ps, r, count + 1, left)
      BY <1>1, <1>3, <1>8, <1>9, <2>2, <3>4, <3>6 DEF ParsingAt
    <3>8. all[count + 1] = f[n]
      BY <1>10, <3>4, <3>5, <3>6
    <3> QED
      BY <1>10, <3>2, <3>6, <3>7, <3>8
  <2> QED
    BY <1>10, <1>12, <2>5, <2>6, <2>9, <2>10 DEF ParsesNext
<1> QED
  BY <1>13, <1>14

\* The packets only grow, which leaves what the client has done as it is.
LEMMA ClientKept ==
  ASSUME NEW ps \in Seq(Packet), NEW qs \in Seq(Packet), Countable, NEW f,
         Len(ps) =< Len(qs), \A k \in 1 .. Len(ps) : qs[k] = ps[k],
         NEW r \in 0 .. Len(ps), NEW count, NEW rest, NEW msgs
  PROVE  /\ r \in 0 .. Len(qs) /\ MeantUp(f, qs, r) = MeantUp(f, ps, r)
         /\ AppliedUpTo(f, ps, r, msgs) => AppliedUpTo(f, qs, r, msgs)
         /\ ParsingAt(f, ps, r, count, rest) => ParsingAt(f, qs, r, count, rest)
<1>1. r \in 0 .. Len(qs)
  OBVIOUS
<1>2. MeantUp(f, qs, r) = MeantUp(f, ps, r)
  BY MeantAgree
<1>3. ASSUME ParsingAt(f, ps, r, count, rest) PROVE ParsingAt(f, qs, r, count, rest)
  <2>1. r \in 1 .. Len(ps) /\ r \in 1 .. Len(qs) /\ r - 1 \in 0 .. Len(ps) /\ r # 0
    BY <1>3 DEF ParsingAt
  <2>2. /\ qs[r] = ps[r] /\ MeantOf(f, qs, r) = MeantOf(f, ps, r)
        /\ MeantUp(f, qs, r - 1) = MeantUp(f, ps, r - 1)
    BY <2>1, MeantAgree
  <2> QED
    BY <1>3, <2>1, <2>2, Zenon DEF ParsingAt
<1> QED
  BY <1>1, <1>2, <1>3, Zenon DEF AppliedUpTo

\* The replay loop has read the first frames of the file, and the receive loop
\* has applied what they mean.
ClientInv ==
    /\ received \in 0 .. Len(sent)
    /\ applied \in Seq(Msg)
    /\ AppliedUpTo(file, sent, received, applied)
    /\ client = "waiting" /\ ~shutdown =>
          Len(applied) = Len(MeantUp(file, sent, received))
    /\ client = "parsing" =>
          ParsingAt(file, sent, received, Len(applied), parser)

DispatchInv ==
    /\ FramesInv
    /\ ReadFrom(file, All(sent, batch), buf)
    /\ ClientInv

\* The invariant holds at the start.
LEMMA DispatchInit ==
  ASSUME Countable, Init
  PROVE  DispatchInv
<1>1. FramesInv
  BY FramesInit
<1>2. /\ file \in Files /\ sent = <<>> /\ batch = <<>> /\ buf = Bytes(file)
      /\ received = 0 /\ applied = <<>> /\ client = "waiting"
  BY DEF Init
<1>3. <<>> \in Seq(Body) /\ <<>> \in Seq(Packet) /\ <<>> \in Seq(Msg) /\ Len(<<>>) = 0
  OBVIOUS
<1>4. All(<<>>, <<>>) = <<>>
  <2>1. Bodies(<<>>) = <<>>
    BY <1>3, BodiesAppend
  <2>2. <<>> \o <<>> = <<>>
    OBVIOUS
  <2> QED
    BY <2>1, <2>2, Zenon DEF All
<1>5. ReadFrom(file, All(sent, batch), buf)
  BY <1>2, <1>4, ReadFromInit
<1>6. MeantUp(file, <<>>, 0) = <<>>
  <2>1. Within(file, <<>>)
    <3>1. Len(Bodies(<<>>)) = 0
      BY <1>3, BodiesAppend
    <3> QED
      BY <1>2, <3>1, FileForm DEF Within
  <2> QED
    BY <1>2, <1>3, <2>1, FileForm, MeantUpForm
<1>7. ClientInv
  BY <1>2, <1>3, <1>6 DEF ClientInv, AppliedUpTo
<1> QED
  BY <1>1, <1>5, <1>7 DEF DispatchInv

\* A step of the replay loop leaves what the client has done as it is.
LEMMA ClientServer ==
  ASSUME Countable, FramesInv, FramesInv', ClientInv,
         file' = file, UNCHANGED clientVars, UNCHANGED shutdown,
         Len(sent) =< Len(sent'), \A k \in 1 .. Len(sent) : sent'[k] = sent[k]
  PROVE  ClientInv'
<1>1. PICK ps \in Seq(Packet), qs \in Seq(Packet) : ps = sent /\ qs = sent'
  BY DEF FramesInv
<1>2. /\ received' = received /\ applied' = applied /\ client' = client
      /\ parser' = parser /\ shutdown' = shutdown
  BY DEF clientVars
<1>3. PICK r \in 0 .. Len(ps) : r = received
  BY <1>1 DEF ClientInv
<1>4. Len(ps) =< Len(qs) /\ \A k \in 1 .. Len(ps) : qs[k] = ps[k]
  BY <1>1
<1>5. /\ r \in 0 .. Len(qs) /\ MeantUp(file, qs, r) = MeantUp(file, ps, r)
      /\ AppliedUpTo(file, ps, r, applied) => AppliedUpTo(file, qs, r, applied)
      /\ ParsingAt(file, ps, r, Len(applied), parser)
           => ParsingAt(file, qs, r, Len(applied), parser)
  BY <1>4, ClientKept
<1>6. received' \in 0 .. Len(sent') /\ applied' \in Seq(Msg)
  BY <1>1, <1>2, <1>3, <1>5 DEF ClientInv
<1>7. AppliedUpTo(file', sent', received', applied')
  BY <1>1, <1>2, <1>3, <1>5 DEF ClientInv
<1>8. client' = "waiting" /\ ~shutdown' =>
         Len(applied') = Len(MeantUp(file', sent', received'))
  BY <1>1, <1>2, <1>3, <1>5 DEF ClientInv
<1>9. client' = "parsing" =>
         ParsingAt(file', sent', received', Len(applied'), parser')
  BY <1>1, <1>2, <1>3, <1>5 DEF ClientInv
<1> QED
  BY <1>6, <1>7, <1>8, <1>9 DEF ClientInv

\* ReadMessage keeps the invariant.
LEMMA DispatchRead ==
  ASSUME Countable, FilesMeant, DispatchInv, ReadMessage
  PROVE  DispatchInv'
<1>1. FramesInv /\ FramesInv' /\ ClientInv
  BY FramesRead DEF DispatchInv
<1> DEFINE parsed == parse_one(buf)
           pushed == Append(batch, parsed.body)
<1>2. /\ buf # <<>> /\ parsed.error = "None" /\ file' = file /\ buf' = parsed.rest
      /\ UNCHANGED clientVars /\ UNCHANGED shutdown
      /\ IF Len(pushed) >= next_flush THEN Flush(pushed)
         ELSE batch' = pushed /\ UNCHANGED <<next_flush, sent>>
  BY DEF ReadMessage, CanRead
<1>3. PICK body \in Body, rest \in Seq(Byte) : body = parsed.body /\ rest = parsed.rest
  BY <1>1, <1>2, ParseOne DEF FramesInv
<1>4. /\ sent \in Seq(Packet) /\ batch \in Seq(Body) /\ buf \in Seq(Byte)
      /\ file \in Files /\ next_flush \in 1 .. MaxMsgs /\ Len(batch) < next_flush
  BY <1>1 DEF FramesInv
<1>5. PICK all \in Seq(Body) : all = All(sent, batch)
  BY <1>4, AllForm
<1>6. ReadFrom(file, Append(all, body), rest)
  BY <1>2, <1>3, <1>4, <1>5, ReadFromNext DEF DispatchInv
<1>7. PICK ms \in Seq(Body) : ms = pushed /\ Len(ms) = Len(batch) + 1
  <2>1. Append(batch, body) \in Seq(Body) /\ Len(Append(batch, body)) = Len(batch) + 1
    BY <1>4
  <2> QED
    BY <1>3, <2>1
<1>8. All(sent, ms) = Append(all, body)
  BY <1>3, <1>4, <1>5, <1>7, AllForm
<1> HIDE DEF parsed, pushed
<1>9. CASE Len(ms) >= next_flush
  <2>1. sent' = Append(sent, build_packet(ms)) /\ batch' = <<>>
    BY <1>2, <1>7, <1>9 DEF Flush
  <2>2. ms \in SentBatch
    BY <1>4, <1>7, MaxMsgsAssumption DEF SentBatch
  <2>3. All(sent', batch') = All(sent, ms)
    BY <1>4, <2>1, <2>2, AllForm
  <2>4. ReadFrom(file', All(sent', batch'), buf')
    BY <1>2, <1>3, <1>6, <1>8, <2>3
  <2>5. Len(sent) =< Len(sent') /\ \A k \in 1 .. Len(sent) : sent'[k] = sent[k]
    BY <1>4, <2>1
  <2>6. ClientInv'
    BY <1>1, <1>2, <2>5, ClientServer
  <2> QED
    BY <1>1, <2>4, <2>6 DEF DispatchInv
<1>10. CASE ~(Len(ms) >= next_flush)
  <2>1. batch' = ms /\ sent' = sent
    BY <1>2, <1>7, <1>10
  <2>2. ReadFrom(file', All(sent', batch'), buf')
    BY <1>2, <1>3, <1>6, <1>8, <2>1
  <2>3. Len(sent) =< Len(sent') /\ \A k \in 1 .. Len(sent) : sent'[k] = sent[k]
    BY <1>4, <2>1
  <2>4. ClientInv'
    BY <1>1, <1>2, <2>3, ClientServer
  <2> QED
    BY <1>1, <2>2, <2>4 DEF DispatchInv
<1> QED
  BY <1>9, <1>10

\* StopReading keeps the invariant.
LEMMA DispatchStop ==
  ASSUME Countable, FilesMeant, DispatchInv, StopReading
  PROVE  DispatchInv'
<1>1. FramesInv /\ FramesInv' /\ ClientInv
  BY FramesStop DEF DispatchInv
<1>2. /\ file' = file /\ buf' = buf /\ next_flush' = next_flush /\ batch' = <<>>
      /\ UNCHANGED clientVars /\ UNCHANGED shutdown
      /\ sent' = (sent \o (IF batch = <<>> THEN <<>> ELSE <<build_packet(batch)>>))
                  \o <<EndOfSession>>
  BY DEF StopReading
<1>3. EndOfSession \in Packet /\ sent \in Seq(Packet) /\ batch \in Seq(Body)
  BY <1>1 DEF Packet, FramesInv
<1>a. ASSUME NEW ps \in Seq(Packet), NEW p \in Packet
      PROVE  /\ ps \o <<p>> = Append(ps, p) /\ ps \o <<>> = ps
             /\ Append(ps, p) \in Seq(Packet) /\ Len(Append(ps, p)) = Len(ps) + 1
             /\ \A k \in 1 .. Len(ps) : Append(ps, p)[k] = ps[k]
  OBVIOUS
<1>4. PICK ps \in Seq(Packet) :
         /\ sent' = Append(ps, EndOfSession)
         /\ All(ps, <<>>) = All(sent, batch)
         /\ Len(sent) =< Len(ps) /\ \A k \in 1 .. Len(sent) : ps[k] = sent[k]
  <2>1. CASE batch = <<>>
    <3>1. sent \o <<>> = sent /\ sent \o <<EndOfSession>> = Append(sent, EndOfSession)
      BY <1>3, <1>a
    <3>2. sent' = Append(sent, EndOfSession)
      BY <1>2, <2>1, <3>1, Zenon
    <3>3. Len(sent) =< Len(sent)
      BY <1>3
    <3> QED
      BY <1>3, <2>1, <3>2, <3>3
  <2>2. CASE batch # <<>>
    <3>1. Len(batch) \in Nat /\ Len(batch) # 0
      BY <1>3, <2>2, EmptySeq
    <3>2. batch \in SentBatch
      BY <1>1, <1>3, <3>1, MaxMsgsAssumption DEF SentBatch, FramesInv
    <3>3. PICK p \in Packet : p = build_packet(batch)
      BY <3>2 DEF Packet
    <3>4. PICK q \in Seq(Packet) : q = Append(sent, p)
      BY <1>3, <1>a
    <3>5. sent \o <<p>> = q /\ q \o <<EndOfSession>> = Append(q, EndOfSession)
      BY <1>3, <1>a, <3>4
    <3>6. sent' = Append(q, EndOfSession)
      BY <1>2, <2>2, <3>3, <3>5, Zenon
    <3>7. All(q, <<>>) = All(sent, batch)
      BY <1>3, <3>2, <3>3, <3>4, AllForm
    <3>8. Len(sent) =< Len(q) /\ \A k \in 1 .. Len(sent) : q[k] = sent[k]
      <4>1. Len(q) = Len(sent) + 1 /\ \A k \in 1 .. Len(sent) : q[k] = sent[k]
        BY <1>3, <1>a, <3>4
      <4>2. Len(sent) \in Nat
        BY <1>3
      <4> QED
        BY <4>1, <4>2
    <3> QED
      BY <3>6, <3>7, <3>8
  <2> QED
    BY <2>1, <2>2
<1>5. <<>> \in Seq(Body)
  OBVIOUS
<1>6. All(sent', batch') = All(sent, batch)
  BY <1>2, <1>4, <1>5, AllForm
<1>7. Len(sent) =< Len(sent') /\ \A k \in 1 .. Len(sent) : sent'[k] = sent[k]
  <2>1. /\ Len(sent') = Len(ps) + 1 /\ Len(ps) \in Nat /\ Len(sent) \in Nat
        /\ \A k \in 1 .. Len(ps) : sent'[k] = ps[k]
    BY <1>3, <1>4, <1>a
  <2>2. \A k \in 1 .. Len(sent) : k \in 1 .. Len(ps)
    BY <1>4, <2>1
  <2> QED
    BY <1>4, <2>1, <2>2
<1>8. ClientInv'
  BY <1>1, <1>2, <1>7, ClientServer
<1>9. ReadFrom(file', All(sent', batch'), buf')
  BY <1>2, <1>6 DEF DispatchInv
<1> QED
  BY <1>1, <1>8, <1>9 DEF DispatchInv

\* What the next packet adds to what is meant.
LEMMA MeantGrows ==
  ASSUME NEW f \in Files, NEW ps \in Seq(Packet), Countable, Within(f, ps),
         NEW r \in 0 .. Len(ps) - 1, NEW msgs, AppliedUpTo(f, ps, r, msgs),
         Len(msgs) \in Nat
  PROVE  AppliedUpTo(f, ps, r + 1, msgs)
<1>1. PICK S : f \in Seq(S)
  BY FileForm
<1>2. r + 1 \in 1 .. Len(ps) /\ r \in 0 .. Len(ps) /\ (r + 1) - 1 = r
  OBVIOUS
<1>3. PICK x \in Seq(S) : x = MeantUp(f, ps, r)
  BY <1>1, <1>2, MeantUpForm
<1>4. PICK y \in Seq(S) : y = MeantOf(f, ps, r + 1)
  BY <1>1, <1>2, MeantOfForm DEF IsMeant
<1>5. MeantUp(f, ps, r + 1) = x \o y
  BY <1>1, <1>2, <1>3, <1>4, MeantUpForm
<1>6. Len(x \o y) = Len(x) + Len(y) /\ \A i \in 1 .. Len(x) : (x \o y)[i] = x[i]
  BY Concatenated
<1>7. PICK z : z = x \o y
  BY Zenon
<1>8. Len(x) =< Len(z) /\ Len(x) \in Nat /\ Len(z) \in Nat /\ \A i \in 1 .. Len(x) : z[i] = x[i]
  BY <1>6, <1>7
<1>9. Len(msgs) =< Len(x) /\ \A n \in 1 .. Len(msgs) : Agrees(msgs[n], x[n].says)
  BY <1>3 DEF AppliedUpTo
<1>10. Len(msgs) =< Len(z) /\ \A n \in 1 .. Len(msgs) : Agrees(msgs[n], z[n].says)
  <2>1. Len(msgs) =< Len(z)
    BY <1>8, <1>9
  <2>2. ASSUME NEW n \in 1 .. Len(msgs) PROVE Agrees(msgs[n], z[n].says)
    <3>1. n \in 1 .. Len(x)
      BY <1>8, <1>9
    <3>2. z[n] = x[n]
      BY <1>8, <3>1
    <3> QED
      BY <1>9, <3>2
  <2> QED
    BY <2>1, <2>2
<1> QED
  BY <1>5, <1>7, <1>10, Zenon DEF AppliedUpTo

\* Receive keeps the invariant.
LEMMA ClientReceive ==
  ASSUME Countable, FilesMeant, DispatchInv, Receive
  PROVE  ClientInv'
<1>1. /\ file' = file /\ sent' = sent /\ applied' = applied /\ shutdown' = shutdown
      /\ client = "waiting" /\ received < Len(sent) /\ received' = received + 1
  BY DEF Receive, serverVars
<1>2. /\ sent \in Seq(Packet) /\ batch \in Seq(Body) /\ file \in Files
      /\ received \in 0 .. Len(sent) /\ Len(sent) \in Nat
      /\ applied \in Seq(Msg) /\ Len(applied) \in Nat
  BY DEF DispatchInv, FramesInv, ClientInv
<1>3. Within(file, sent)
  BY <1>2, PacketsFrom DEF DispatchInv
<1>4. received \in 0 .. Len(sent) - 1 /\ received + 1 \in 0 .. Len(sent)
  BY <1>1, <1>2
<1>5. AppliedUpTo(file, sent, received + 1, applied)
  BY <1>2, <1>3, <1>4, MeantGrows DEF DispatchInv, ClientInv
<1> DEFINE packet == sent[received + 1]
<1>6. CASE shutdown \/ packet.msg_count = END_OF_SESSION_IDENT
  <2>1. client' = "done"
    BY <1>6 DEF Receive
  <2> QED
    BY <1>1, <1>2, <1>4, <1>5, <2>1 DEF ClientInv
<1>7. CASE ~(shutdown \/ packet.msg_count = END_OF_SESSION_IDENT)
  <2>1. client' = "parsing" /\ parser' = packet.messages
    BY <1>7 DEF Receive
  <2>2. Len(applied) = Len(MeantUp(file, sent, received))
    BY <1>1, <1>7 DEF DispatchInv, ClientInv
  <2>3. packet # EndOfSession
    BY <1>7 DEF EndOfSession
  <2>4. PICK r \in 1 .. Len(sent) : r = received + 1 /\ r - 1 = received
    BY <1>2, <1>4
  <2>5. ParsingAt(file, sent, r, Len(MeantUp(file, sent, r - 1)), sent[r].messages)
    BY <1>2, <1>3, <2>3, <2>4, ParsingStarts
  <2>6. ParsingAt(file, sent, received + 1, Len(applied), packet.messages)
    BY <2>2, <2>4, <2>5
  <2> QED
    BY <1>1, <1>2, <1>4, <1>5, <2>1, <2>6 DEF ClientInv
<1> QED
  BY <1>6, <1>7

\* ParseMessage keeps the invariant.
LEMMA ClientParse ==
  ASSUME Countable, FilesMeant, DispatchInv, ParseMessage
  PROVE  ClientInv'
<1>1. /\ file' = file /\ sent' = sent /\ received' = received /\ shutdown' = shutdown
      /\ client = "parsing"
  BY DEF ParseMessage, serverVars
<1>2. /\ sent \in Seq(Packet) /\ batch \in Seq(Body) /\ file \in Files
      /\ received \in 0 .. Len(sent) /\ Len(sent) \in Nat
      /\ applied \in Seq(Msg) /\ Len(applied) \in Nat
      /\ AppliedUpTo(file, sent, received, applied)
      /\ ParsingAt(file, sent, received, Len(applied), parser)
  BY <1>1 DEF DispatchInv, FramesInv, ClientInv
<1>3. Within(file, sent) /\ BodiesMean(file, sent)
  BY <1>2, PacketsFrom DEF DispatchInv
<1> DEFINE meant == MeantUp(file, sent, received)
<1>4. Len(applied) =< Len(meant) /\ ParsesNext(file, sent, received, Len(applied), parser)
  BY <1>2, <1>3, ParsingNext
<1> HIDE DEF meant
<1>5. /\ Len(applied) =< Len(meant)
      /\ \A n \in 1 .. Len(applied) : Agrees(applied[n], meant[n].says)
  BY <1>2 DEF AppliedUpTo, meant
<1>6. ASSUME applied' = applied, client' # "parsing",
             client' = "waiting" /\ ~shutdown => Len(applied) = Len(meant)
      PROVE  ClientInv'
  BY <1>1, <1>2, <1>6 DEF ClientInv, meant
<1>7. CASE parser = <<>>
  <2>1. applied' = applied /\ client' = "waiting"
    BY <1>7 DEF ParseMessage, StopParsing
  <2> QED
    BY <1>4, <1>6, <1>7, <2>1 DEF ParsesNext, meant
<1>8. CASE parser # <<>>
  <2>1. PICK body \in Body, left \in Seq(Byte) :
               /\ parse_one(parser) = [error |-> "None", body |-> body, rest |-> left]
               /\ ~Castable(body) => Len(applied) = Len(meant)
               /\ Castable(body) =>
                     /\ Len(applied) + 1 =< Len(meant)
                     /\ ParsingAt(file, sent, received, Len(applied) + 1, left)
                     /\ \E n : Saying(file, n, body) /\ meant[Len(applied) + 1] = file[n]
    BY <1>4, <1>8, Zenon DEF ParsesNext, meant
  <2>2. /\ parse_one(parser).error = "None" /\ parse_one(parser).body = body
        /\ parse_one(parser).rest = left
    BY <2>1
  <2> DEFINE msg == cast(body)
             next == Apply(Ticked(handler), msg)
  <2>3. \/ /\ ~Castable(body)
           /\ applied' = applied /\ client' = "waiting"
        \/ /\ Castable(body)
           /\ parser' = left /\ applied' = Append(applied, msg) /\ client' = client
        \/ /\ Castable(body) /\ shutdown
           /\ applied' = applied /\ client' = "waiting"
        \/ /\ Castable(body) /\ next.panicked
           /\ applied' = applied /\ client' = "panicked"
        \/ /\ Castable(body)
           /\ parser' = left /\ applied' = Append(applied, msg) /\ client' = "parsing"
    BY <1>8, <2>2, Zenon DEF ParseMessage, StopParsing, ShouldStop
  <2> HIDE DEF next
  <2>4. ASSUME Castable(body), parser' = left, applied' = Append(applied, msg),
               client' = "parsing"
        PROVE  ClientInv'
    <3>1. msg \in Msg
      BY <2>4 DEF Msg
    <3>2. PICK m \in Msg : m = msg
      BY <3>1
    <3> HIDE DEF msg
    <3>3. /\ applied' \in Seq(Msg) /\ Len(applied') = Len(applied) + 1
          /\ applied'[Len(applied) + 1] = m
          /\ \A n \in 1 .. Len(applied) : applied'[n] = applied[n]
      BY <1>2, <2>4, <3>2
    <3>4. ParsingAt(file', sent', received', Len(applied'), parser')
      BY <1>1, <2>1, <2>4, <3>3
    <3>5. PICK n : Saying(file, n, body) /\ meant[Len(applied) + 1] = file[n]
      BY <2>1, <2>4
    <3>6. Agrees(m, meant[Len(applied) + 1].says)
      BY <3>2, <3>5 DEF Saying, msg
    <3>7. ASSUME NEW i \in 1 .. Len(applied')
          PROVE  Agrees(applied'[i], meant[i].says)
      <4>1. CASE i = Len(applied) + 1
        BY <3>3, <3>6, <4>1
      <4>2. CASE i # Len(applied) + 1
        <5>1. i \in 1 .. Len(applied)
          BY <1>2, <3>3, <4>2
        <5> QED
          BY <1>5, <3>3, <5>1
      <4> QED
        BY <4>1, <4>2
    <3>8. Len(applied') =< Len(meant)
      BY <2>1, <2>4, <3>3
    <3>9. AppliedUpTo(file', sent', received', applied')
      BY <1>1, <3>7, <3>8 DEF AppliedUpTo, meant
    <3> QED
      BY <1>1, <1>2, <2>4, <3>3, <3>4, <3>9 DEF ClientInv
  <2> HIDE DEF msg
  <2>5. CASE ~Castable(body) /\ applied' = applied /\ client' = "waiting"
    BY <1>6, <2>1, <2>5
  <2>6. CASE shutdown /\ applied' = applied /\ client' = "waiting"
    BY <1>6, <2>6
  <2>7. CASE applied' = applied /\ client' = "panicked"
    BY <1>6, <2>7
  <2> QED
    BY <1>1, <2>3, <2>4, <2>5, <2>6, <2>7
<1> QED
  BY <1>7, <1>8

\* Every step keeps the invariant.
LEMMA DispatchNext ==
  ASSUME Countable, FilesMeant, DispatchInv, [Next]_vars
  PROVE  DispatchInv'
<1>1. ASSUME UNCHANGED <<file, serverVars>>, ClientInv' PROVE DispatchInv'
  <2>1. FramesInv'
    BY FramesNext DEF DispatchInv
  <2> QED
    BY <1>1, <2>1 DEF DispatchInv, serverVars
<1>2. CASE ReadMessage
  BY <1>2, DispatchRead
<1>3. CASE StopReading
  BY <1>3, DispatchStop
<1>4. CASE Receive
  BY <1>1, <1>4, ClientReceive DEF Receive
<1>5. CASE ReceiveTimeout
  <2>1. ClientInv'
    BY <1>5 DEF ReceiveTimeout, serverVars, DispatchInv, ClientInv
  <2> QED
    BY <1>1, <1>5, <2>1 DEF ReceiveTimeout
<1>6. CASE ParseMessage
  BY <1>1, <1>6, ClientParse DEF ParseMessage
<1>7. CASE RaiseShutdown
  <2>1. ClientInv'
    BY <1>7 DEF RaiseShutdown, serverVars, clientVars, DispatchInv, ClientInv
  <2> QED
    BY <1>1, <1>7, <2>1 DEF RaiseShutdown
<1>8. CASE UNCHANGED vars
  <2>1. ClientInv'
    BY <1>8 DEF vars, serverVars, clientVars, DispatchInv, ClientInv
  <2> QED
    BY <1>1, <1>8, <2>1 DEF vars
<1> QED
  BY <1>2, <1>3, <1>4, <1>5, <1>6, <1>7, <1>8 DEF Next

\* It implies the property.
LEMMA DispatchedFrom ==
  ASSUME Countable, DispatchInv
  PROVE  DispatchedExactly
<1> DEFINE meant == FlattenSeq([n \in 1 .. received |-> MeantBy(n)])
<1>1. \A n \in 1 .. received : MeantBy(n) = MeantOf(file, sent, n)
  BY Zenon DEF MeantBy, MeantOf, MeantIn
<1>2. [n \in 1 .. received |-> MeantBy(n)] = MeantSeq(file, sent, received)
  BY <1>1, Zenon DEF MeantSeq
<1>3. meant = MeantUp(file, sent, received)
  BY <1>2, Zenon DEF MeantUp
<1> HIDE DEF meant
<1>4. DOMAIN applied = 1 .. Len(applied)
  BY DEF DispatchInv, ClientInv
<1>5. /\ Len(applied) =< Len(meant)
      /\ \A n \in DOMAIN applied : Agrees(applied[n], meant[n].says)
      /\ client = "waiting" /\ ~shutdown => Len(applied) = Len(meant)
  BY <1>3, <1>4 DEF DispatchInv, ClientInv, AppliedUpTo
<1> QED
  BY <1>5, Zenon DEF DispatchedExactly, meant

\* The receive loop and parse_stream call the handler with what the file means,
\* message by message and in order, whatever the sizes of the batches.
THEOREM DispatchedExactlyHolds ==
  ASSUME Countable, FilesMeant
  PROVE  Spec => []DispatchedExactly
<1>1. Init => DispatchInv
  BY DispatchInit
<1>2. DispatchInv /\ [Next]_vars => DispatchInv'
  BY DispatchNext
<1>3. DispatchInv => DispatchedExactly
  BY DispatchedFrom
<1> QED
  BY <1>1, <1>2, <1>3, PTL DEF Spec

-----------------------------------------------------------------------------
(* Decoding.                                                               *)

\* A sequence of fields.
IsFields(fields) ==
    /\ Len(fields) \in Nat
    /\ fields = [n \in 1 .. Len(fields) |-> fields[n]]
    /\ \A n \in 1 .. Len(fields) : fields[n].width \in Nat

\* f[k] is the width of the first k of n fields.
IsWidth(f, fields, n) == f[0] = 0 /\ \A k \in 1 .. n : f[k] = f[k - 1] + fields[k].width

\* Width is the only such function.
LEMMA WidthUnique ==
  ASSUME NEW n \in Nat, NEW fields, NEW f, IsWidth(f, fields, n)
  PROVE  Width(fields, n) = f[n]
<1> DEFINE Iter(h) == h = [k \in 0 .. n |->
                             IF k = 0 THEN 0 ELSE h[k - 1] + fields[k].width]
           g == CHOOSE h : Iter(h)
           a == [k \in 0 .. n |-> f[k]]
<1>1. \A k \in 1 .. n : k \in 0 .. n /\ k - 1 \in 0 .. n /\ k # 0
  OBVIOUS
<1>2. f[0] = 0 /\ \A k \in 1 .. n : f[k] = f[k - 1] + fields[k].width
  BY DEF IsWidth
<1>3. ASSUME NEW k \in 0 .. n
      PROVE  a[k] = IF k = 0 THEN 0 ELSE a[k - 1] + fields[k].width
  <2>1. CASE k = 0
    BY <1>2, <2>1
  <2>2. CASE k # 0
    <3>1. k \in 1 .. n
      BY <2>2
    <3>2. a[k] = f[k] /\ a[k - 1] = f[k - 1]
      BY <1>1, <3>1, Zenon
    <3> HIDE DEF a
    <3> QED
      BY <1>2, <2>2, <3>1, <3>2, Zenon
  <2> QED
    BY <2>1, <2>2
<1>4. Iter(a)
  BY <1>3, Zenon
<1>5. Iter(g)
  <2>1. \E h : Iter(h)
    BY <1>4, Zenon
  <2> QED
    BY <2>1, Zenon
<1>6. Width(fields, n) = g[n]
  BY Zenon DEF Width
<1> HIDE DEF g
<1>7. g[0] = f[0]
  <2>1. 0 \in 0 .. n
    OBVIOUS
  <2> QED
    BY <1>2, <1>5, <2>1, Zenon
<1>8. ASSUME NEW k \in 1 .. n PROVE g[k - 1] = f[k - 1] => g[k] = f[k]
  <2>1. g[k] = g[k - 1] + fields[k].width
    BY <1>1, <1>5, Zenon
  <2> QED
    BY <1>2, <2>1, Zenon
<1> HIDE DEF Iter
<1>9. g[n] = f[n]
  BY <1>7, <1>8, SameAtEnd
<1> QED
  BY <1>6, <1>9

\* The widths of the first fields, from none to all.
LEMMA WidthForm ==
  ASSUME NEW fields, IsFields(fields)
  PROVE  /\ Width(fields, 0) = 0
         /\ \A k \in 0 .. Len(fields) :
               /\ Width(fields, k) \in Nat
               /\ Width(fields, k) =< Width(fields, Len(fields))
         /\ \A k \in 1 .. Len(fields) :
               Width(fields, k) = Width(fields, k - 1) + fields[k].width
<1>1. PICK n \in Nat : n = Len(fields)
  BY DEF IsFields
<1>2. \A k \in 1 .. n : fields[k].width \in Nat
  BY <1>1 DEF IsFields
<1> DEFINE step == [k \in 1 .. n |-> [v \in Nat |-> v + fields[k].width]]
<1>3. step \in [1 .. n -> [Nat -> Nat]]
  BY <1>2
<1>4. PICK f \in [0 .. n -> Nat] : IsRun(f, n, 0, step)
  <2> HIDE DEF step
  <2> QED
    BY <1>3, RunExists
<1>5. ASSUME NEW k \in 1 .. n PROVE f[k] = f[k - 1] + fields[k].width
  <2>1. k - 1 \in 0 .. n
    OBVIOUS
  <2>2. f[k - 1] \in Nat
    BY <2>1
  <2>3. f[k] = step[k][f[k - 1]]
    BY <1>4 DEF IsRun
  <2> QED
    BY <2>2, <2>3
<1>6. f[0] = 0
  BY <1>4 DEF IsRun
<1> HIDE DEF step
<1>7. ASSUME NEW k \in 0 .. n PROVE Width(fields, k) = f[k]
  <2>1. k \in Nat /\ \A j \in 1 .. k : j \in 1 .. n
    OBVIOUS
  <2>2. IsWidth(f, fields, k)
    BY <1>5, <1>6, <2>1 DEF IsWidth
  <2> QED
    BY <2>1, <2>2, WidthUnique
<1>8. ASSUME NEW k \in 0 .. n PROVE f[k] =< f[n]
  <2>1. n \in k .. n
    OBVIOUS
  <2>2. ASSUME NEW j \in 1 .. n PROVE f[j - 1] =< f[j]
    <3>1. j - 1 \in 0 .. n
      OBVIOUS
    <3>2. PICK a \in Nat, w \in Nat : a = f[j - 1] /\ w = fields[j].width
      BY <1>2, <3>1
    <3>3. f[j] = a + w
      BY <1>5, <3>2
    <3> QED
      BY <3>2, <3>3
  <2> QED
    BY <2>1, <2>2, Monotone
<1>9. n \in 0 .. n /\ 0 \in 0 .. n
  OBVIOUS
<1>10. ASSUME NEW k \in 1 .. n
       PROVE  Width(fields, k) = Width(fields, k - 1) + fields[k].width
  <2>1. k \in 0 .. n /\ k - 1 \in 0 .. n
    OBVIOUS
  <2> QED
    BY <1>5, <1>7, <2>1
<1>11. \A k \in 0 .. n : Width(fields, k) \in Nat /\ Width(fields, k) =< Width(fields, n)
  BY <1>7, <1>8, <1>9
<1> QED
  BY <1>1, <1>6, <1>7, <1>9, <1>10, <1>11

\* Where a field is in the body.
LEMMA LayoutForm ==
  ASSUME NEW fields, IsFields(fields), NEW TAG, NEW name, NEW k \in 1 .. Len(fields),
         fields[k].name = name
  PROVE  /\ name \in DOMAIN Layout(TAG, fields).layout
         /\ \E n \in 1 .. Len(fields) :
               /\ fields[n].name = name
               /\ Layout(TAG, fields).layout[name].first = Width(fields, n - 1) + 1
               /\ Layout(TAG, fields).layout[name].last = Width(fields, n)
               /\ Layout(TAG, fields).layout[name].raw = fields[n].raw
<1> DEFINE i == CHOOSE n \in DOMAIN fields : fields[n].name = name
           S == {fields[n].name : n \in DOMAIN fields}
           IndexOf(x) == CHOOSE n \in DOMAIN fields : fields[n].name = x
           places == [x \in S |-> [first |-> Width(fields, IndexOf(x) - 1) + 1,
                                   last |-> Width(fields, IndexOf(x)),
                                   raw |-> fields[IndexOf(x)].raw]]
<1>1. DOMAIN fields = 1 .. Len(fields)
  BY DEF IsFields
<1>2. i \in 1 .. Len(fields) /\ fields[i].name = name
  BY <1>1, Zenon
<1>3. name \in S
  BY <1>1, Zenon
<1>4. Layout(TAG, fields).layout = places
  BY DEF Layout
<1>5. DOMAIN places = S
  BY Zenon
<1>6. places[name] = [first |-> Width(fields, i - 1) + 1,
                      last |-> Width(fields, i), raw |-> fields[i].raw]
  BY <1>3, Zenon
<1> HIDE DEF i, places
<1>7. /\ places[name].first = Width(fields, i - 1) + 1
      /\ places[name].last = Width(fields, i) /\ places[name].raw = fields[i].raw
  BY <1>6
<1> QED
  BY <1>2, <1>3, <1>4, <1>5, <1>7

\* The field is a number, whichever of that name is meant.
Numbers(fields, name) ==
    /\ \E k \in 1 .. Len(fields) : fields[k].name = name
    /\ \A n \in 1 .. Len(fields) : fields[n].name = name => fields[n].raw = FALSE

\* A number of one byte is that byte.
LEMMA BigEndianOne ==
  ASSUME NEW b \in Byte
  PROVE  BigEndian(<<b>>) = b
<1>1. <<b>> \in Seq(Byte) /\ Len(<<b>>) = 1 /\ <<b>>[1] = b
  OBVIOUS
<1>2. PICK s \in Seq(Byte) : s = <<b>> /\ Len(s) = 1 /\ s[1] = b
  BY <1>1
<1>3. PICK value \in [0 .. Len(s) -> Nat] :
         /\ value[0] = 0
         /\ \A k \in 1 .. Len(s) : value[k] = 256 * value[k - 1] + s[k]
         /\ BigEndian(s) = value[Len(s)]
  BY BigEndianRun
<1>4. value[1] = 256 * value[1 - 1] + s[1]
  <2>1. 1 \in 1 .. Len(s)
    BY <1>2
  <2> QED
    BY <1>3, <2>1
<1>5. value[1] = b
  <2>1. 1 - 1 = 0 /\ b \in Nat
    BY DEF Byte
  <2> QED
    BY <1>2, <1>3, <1>4, <2>1
<1> QED
  BY <1>2, <1>3, <1>5

\* The first byte as a sequence.
LEMMA FirstByte ==
  ASSUME NEW body \in Seq(Byte), 1 \in 1 .. Len(body)
  PROVE  SubSeq(body, 1, 1) = <<body[1]>>
<1>1. PICK b \in Byte : b = body[1]
  BY ElementOfSeq
<1>2. PICK s \in Seq(Byte) : s = <<b>> /\ Len(s) = 1 /\ s[1] = b
  <2>1. <<b>> \in Seq(Byte) /\ Len(<<b>>) = 1 /\ <<b>>[1] = b
    OBVIOUS
  <2> QED
    BY <2>1
<1>3. PICK t \in Seq(Byte) : t = SubSeq(body, 1, 1) /\ Len(t) = 1 /\ t[1] = b
  <2>1. SubSeq(body, 1, 1) \in Seq(Byte) /\ Len(SubSeq(body, 1, 1)) = 1
    OBVIOUS
  <2>2. SubSeq(body, 1, 1)[1] = b
    BY <1>1
  <2> QED
    BY <2>1, <2>2
<1>4. \A i \in 1 .. Len(s) : t[i] = s[i]
  BY <1>2, <1>3
<1>5. t = s
  BY <1>2, <1>3, <1>4, SameSeq
<1> QED
  BY <1>1, <1>2, <1>3, <1>5

\* A field that is a number decodes to one.
LEMMA DecodeNumber ==
  ASSUME NEW fields, IsFields(fields), NEW TAG, NEW name, Numbers(fields, name),
         NEW body \in Seq(Byte), Len(body) = Layout(TAG, fields).LEN
  PROVE  Decode(Layout(TAG, fields), body)[name] \in Nat
<1> DEFINE type == Layout(TAG, fields)
           place == type.layout[name]
<1>1. PICK k \in 1 .. Len(fields) : fields[k].name = name
  BY DEF Numbers
<1>2. name \in DOMAIN type.layout
  BY <1>1, LayoutForm
<1>3. PICK n \in 1 .. Len(fields) :
         /\ fields[n].name = name
         /\ place.first = Width(fields, n - 1) + 1
         /\ place.last = Width(fields, n)
         /\ place.raw = fields[n].raw
  BY <1>1, LayoutForm
<1>4. place.raw = FALSE
  BY <1>3 DEF Numbers
<1>5. Len(body) = Width(fields, Len(fields))
  BY DEF Layout
<1>6. PICK a \in Nat, b \in Nat : a = place.first /\ b = place.last /\ 1 =< a /\ b =< Len(body)
  <2>1. /\ n \in 0 .. Len(fields) /\ n - 1 \in 0 .. Len(fields)
        /\ Len(fields) \in 0 .. Len(fields)
    BY DEF IsFields
  <2>2. Width(fields, n - 1) \in Nat /\ Width(fields, n) \in Nat
    BY <2>1, WidthForm
  <2>3. Width(fields, n) =< Len(body)
    BY <1>5, <2>1, WidthForm
  <2> QED
    BY <1>3, <2>2, <2>3
<1> HIDE DEF type
<1>7. Decode(type, body)[name] = BigEndian(SubSeq(body, a, b))
  BY <1>2, <1>4, <1>6, Zenon DEF Decode
<1>8. SubSeq(body, a, b) \in Seq(Byte)
  BY <1>6
<1>9. BigEndian(SubSeq(body, a, b)) \in Nat
  BY <1>8, BigEndianValue
<1> QED
  BY <1>7, <1>9 DEF type

\* The fields after the common head do not repeat a name of it.
Plain(fields) ==
    /\ IsFields(fields)
    /\ \A n \in 1 .. Len(fields) :
          fields[n].name # "tag" /\ fields[n].name # "stock_locate"

\* The common head.
LEMMA CommonForm ==
  /\ IsFields(Common) /\ Len(Common) = 4
  /\ Common[1].name = "tag" /\ Common[1].width = 1 /\ Common[2].name = "stock_locate"
  /\ \A n \in 1 .. 4 : Common[n].raw = FALSE /\ (Common[n].name = "tag" => n = 1)
  BY DEF Common, IsFields, Num, U16, Timestamp

\* Fields put end to end.
LEMMA FieldsConcat ==
  ASSUME NEW a, IsFields(a), NEW b, IsFields(b)
  PROVE  /\ IsFields(a \o b) /\ Len(a \o b) = Len(a) + Len(b)
         /\ \A i \in 1 .. Len(a) : (a \o b)[i] = a[i]
         /\ \A i \in 1 .. Len(b) : (a \o b)[Len(a) + i] = b[i]
<1> DEFINE S == {a[n] : n \in 1 .. Len(a)} \cup {b[n] : n \in 1 .. Len(b)}
<1>1. a \in Seq(S) /\ b \in Seq(S)
  <2>1. a \in [1 .. Len(a) -> S] /\ b \in [1 .. Len(b) -> S]
    BY DEF IsFields
  <2>2. Len(a) \in Nat /\ Len(b) \in Nat
    BY DEF IsFields
  <2> HIDE DEF S
  <2> QED
    BY <2>1, <2>2
<1> HIDE DEF S
<1>2. PICK c : c = a \o b
  BY Zenon
<1>3. /\ c \in Seq(S) /\ Len(c) = Len(a) + Len(b)
      /\ \A i \in 1 .. Len(a) : c[i] = a[i]
      /\ \A i \in 1 .. Len(b) : c[Len(a) + i] = b[i]
  <2>1. /\ a \o b \in Seq(S) /\ Len(a \o b) = Len(a) + Len(b)
        /\ \A i \in 1 .. Len(a) : (a \o b)[i] = a[i]
        /\ \A i \in 1 .. Len(b) : (a \o b)[Len(a) + i] = b[i]
    BY <1>1, Concatenated
  <2> QED
    BY <1>2, <2>1, Zenon
<1>4. ASSUME NEW n \in 1 .. Len(c) PROVE c[n].width \in Nat
  <2>1. (n \in 1 .. Len(a) \/ n - Len(a) \in 1 .. Len(b)) /\ Len(a) + (n - Len(a)) = n
    BY <1>3 DEF IsFields
  <2> QED
    BY <1>3, <2>1 DEF IsFields
<1>5. Len(c) \in Nat /\ c = [n \in 1 .. Len(c) |-> c[n]]
  BY <1>3
<1>6. IsFields(c)
  BY <1>4, <1>5 DEF IsFields
<1> QED
  BY <1>2, <1>3, <1>6, Zenon

\* The place of the first field.
LEMMA FirstPlace ==
  ASSUME NEW fields, IsFields(fields), NEW TAG, NEW name, NEW k \in 1 .. Len(fields),
         k = 1, fields[k].name = name,
         \A n \in 1 .. Len(fields) : fields[n].name = name => n = k
  PROVE  /\ name \in DOMAIN Layout(TAG, fields).layout
         /\ Layout(TAG, fields).layout[name].first = 1
         /\ Layout(TAG, fields).layout[name].last = fields[k].width
         /\ Layout(TAG, fields).layout[name].raw = fields[k].raw
<1>1. name \in DOMAIN Layout(TAG, fields).layout
  BY LayoutForm
<1>2. PICK n \in 1 .. Len(fields) :
         /\ fields[n].name = name
         /\ Layout(TAG, fields).layout[name].first = Width(fields, n - 1) + 1
         /\ Layout(TAG, fields).layout[name].last = Width(fields, n)
         /\ Layout(TAG, fields).layout[name].raw = fields[n].raw
  BY LayoutForm
<1>3. n = k
  BY <1>2
<1>4. Width(fields, 0) = 0 /\ Width(fields, k) = Width(fields, k - 1) + fields[k].width
  BY WidthForm
<1>5. k - 1 = 0 /\ 0 + 1 = 1 /\ fields[k].width \in Nat
  BY DEF IsFields
<1>6. Width(fields, k) = fields[k].width
  BY <1>4, <1>5
<1> QED
  BY <1>1, <1>2, <1>3, <1>4, <1>5, <1>6

\* The fields of a type, the head included.
IsWhole(all, fields) ==
    /\ IsFields(all) /\ Len(all) = 4 + Len(fields) /\ Len(fields) \in Nat
    /\ \A i \in 1 .. 4 : all[i] = Common[i]
    /\ \A i \in 1 .. Len(fields) : all[4 + i] = fields[i]

\* The head and the fields put end to end.
LEMMA WholeForm ==
  ASSUME NEW fields, IsFields(fields)
  PROVE  IsWhole(Common \o fields, fields)
<1>1. PICK common : common = Common /\ Len(common) = 4 /\ IsFields(common)
  BY CommonForm
<1>2. Len(fields) \in Nat
  BY DEF IsFields
<1>3. PICK all : all = common \o fields
  BY Zenon
<1>4. /\ IsFields(all) /\ Len(all) = Len(common) + Len(fields)
      /\ \A i \in 1 .. Len(common) : all[i] = common[i]
      /\ \A i \in 1 .. Len(fields) : all[Len(common) + i] = fields[i]
  <2>1. IsFields(common) /\ IsFields(fields)
    BY <1>1
  <2>2. /\ IsFields(common \o fields) /\ Len(common \o fields) = Len(common) + Len(fields)
        /\ \A i \in 1 .. Len(common) : (common \o fields)[i] = common[i]
        /\ \A i \in 1 .. Len(fields) : (common \o fields)[Len(common) + i] = fields[i]
    BY <2>1, FieldsConcat
  <2> QED
    BY <1>3, <2>2, Zenon
<1>5. IsWhole(all, fields)
  BY <1>1, <1>2, <1>4, Zenon DEF IsWhole
<1> QED
  BY <1>1, <1>3, <1>5, Zenon

\* What decoding a message of a type gives for the fields of the head and for
\* those that are numbers.
LEMMA DecodeType ==
  ASSUME NEW fields, Plain(fields), NEW TAG,
         NEW body \in Seq(Byte), body # <<>>, Len(body) = Type(TAG, fields).LEN
  PROVE  /\ Decode(Type(TAG, fields), body).tag = body[1]
         /\ Decode(Type(TAG, fields), body).stock_locate \in Nat
         /\ \A name : Numbers(fields, name) =>
               Decode(Type(TAG, fields), body)[name] \in Nat
<1>1. IsFields(fields)
  BY DEF Plain
<1>2. PICK all : all = Common \o fields
  BY Zenon
<1>3. /\ IsFields(all) /\ Len(all) = 4 + Len(fields) /\ Len(fields) \in Nat
      /\ \A i \in 1 .. 4 : all[i] = Common[i]
      /\ \A i \in 1 .. Len(fields) : all[4 + i] = fields[i]
  BY <1>1, <1>2, WholeForm, Zenon DEF IsWhole
<1>4. Type(TAG, fields) = Layout(TAG, all)
  BY <1>2, Zenon DEF Type
<1>5. Len(body) = Layout(TAG, all).LEN
  BY <1>4
<1>6. \A n \in 1 .. Len(all) :
         n \in 1 .. 4 \/ (n - 4 \in 1 .. Len(fields) /\ 4 + (n - 4) = n)
  BY <1>3
<1>7. ASSUME NEW name, Numbers(fields, name) PROVE Decode(Layout(TAG, all), body)[name] \in Nat
  <2>1. PICK k \in 1 .. Len(fields) : fields[k].name = name
    BY <1>7 DEF Numbers
  <2>2. 4 + k \in 1 .. Len(all) /\ all[4 + k].name = name
    BY <1>3, <2>1
  <2>3. ASSUME NEW n \in 1 .. Len(all), all[n].name = name PROVE all[n].raw = FALSE
    <3>1. CASE n \in 1 .. 4
      BY <1>3, <3>1, CommonForm
    <3>2. CASE n - 4 \in 1 .. Len(fields) /\ 4 + (n - 4) = n
      <4>1. all[n] = fields[n - 4]
        BY <1>3, <3>2
      <4> QED
        BY <1>7, <2>3, <3>2, <4>1 DEF Numbers
    <3> QED
      BY <1>6, <3>1, <3>2
  <2>4. Numbers(all, name)
    BY <2>2, <2>3 DEF Numbers
  <2> QED
    BY <1>3, <1>5, <2>4, DecodeNumber
<1>8. Decode(Layout(TAG, all), body)["stock_locate"] \in Nat
  <2>1. 2 \in 1 .. Len(all) /\ all[2].name = "stock_locate"
    BY <1>3, CommonForm
  <2>2. ASSUME NEW n \in 1 .. Len(all), all[n].name = "stock_locate" PROVE all[n].raw = FALSE
    <3>1. CASE n \in 1 .. 4
      BY <1>3, <3>1, CommonForm
    <3>2. CASE n - 4 \in 1 .. Len(fields) /\ 4 + (n - 4) = n
      <4>1. all[n] = fields[n - 4]
        BY <1>3, <3>2
      <4> QED
        BY <2>2, <3>2, <4>1 DEF Plain
    <3> QED
      BY <1>6, <3>1, <3>2
  <2>3. Numbers(all, "stock_locate")
    BY <2>1, <2>2 DEF Numbers
  <2> QED
    BY <1>3, <1>5, <2>3, DecodeNumber
<1>9. Decode(Layout(TAG, all), body)["tag"] = body[1]
  <2> DEFINE type == Layout(TAG, all)
  <2>1. PICK name : name = "tag"
    BY Zenon
  <2>2. PICK k \in 1 .. Len(all) : k = 1 /\ all[k] = Common[1]
    BY <1>3
  <2>3. all[k].name = name /\ all[k].width = 1 /\ all[k].raw = FALSE
    BY <2>1, <2>2, CommonForm
  <2>4. ASSUME NEW n \in 1 .. Len(all), all[n].name = name PROVE n = k
    <3>1. CASE n \in 1 .. 4
      BY <1>3, <2>1, <2>2, <2>4, <3>1, CommonForm
    <3>2. CASE n - 4 \in 1 .. Len(fields) /\ 4 + (n - 4) = n
      BY <1>3, <2>1, <2>4, <3>2 DEF Plain
    <3> QED
      BY <1>6, <3>1, <3>2
  <2>5. /\ name \in DOMAIN type.layout /\ type.layout[name].first = 1
        /\ type.layout[name].last = all[k].width /\ type.layout[name].raw = all[k].raw
    BY <1>3, <2>2, <2>3, <2>4, FirstPlace
  <2>6. /\ name \in DOMAIN type.layout /\ type.layout[name].first = 1
        /\ type.layout[name].last = 1 /\ type.layout[name].raw = FALSE
    BY <2>3, <2>5
  <2> HIDE DEF type
  <2>8. Decode(type, body)[name] = BigEndian(SubSeq(body, 1, 1))
    BY <2>6, Zenon DEF Decode
  <2>9. 1 \in 1 .. Len(body)
    <3>1. Len(body) \in Nat /\ Len(body) # 0
      BY EmptySeq
    <3> QED
      BY <3>1
  <2>10. PICK b \in Byte : b = body[1]
    BY <2>9, ElementOfSeq
  <2>11. SubSeq(body, 1, 1) = <<b>>
    BY <2>9, <2>10, FirstByte
  <2> QED
    BY <2>1, <2>8, <2>10, <2>11, BigEndianOne DEF type
<1> QED
  BY <1>4, <1>7, <1>8, <1>9

\* A type of message with TAG, and other fields than those of the head; the
\* fields in `numbers' are numbers.
IsType(type, TAG, numbers) ==
    \E fields : /\ Plain(fields) /\ type = Type(TAG, fields)
                /\ \A name \in numbers : Numbers(fields, name)

\* The administrative messages.
LEMMA AdminTypes ==
  /\ IsType(SystemEvent, 83, {})
  /\ IsType(StockDirectory, 82, {})
  /\ IsType(StockTradingAction, 72, {})
  /\ IsType(RegSHORestriction, 89, {})
  /\ IsType(MarketParticipantPosition, 76, {})
  /\ IsType(MWCBDeclineLevel, 86, {})
  /\ IsType(MWCBStatus, 87, {})
  /\ IsType(QuotingPeriodUpdate, 75, {})
  /\ IsType(LULDAuctionCollar, 74, {})
  /\ IsType(OperationalHalt, 104, {})
<1>1. IsType(SystemEvent, 83, {})
  <2> DEFINE fields == <<Code("event_code")>>
  <2>1. Plain(fields)
    BY DEF Plain, IsFields, Code, Raw
  <2>2. SystemEvent = Type(83, fields)
    BY DEF SystemEvent
  <2> HIDE DEF fields
  <2> QED
    BY <2>1, <2>2 DEF IsType
<1>2. IsType(StockDirectory, 82, {})
  <2> DEFINE fields == <<Symbol("stock"), Code("market_category"),
                       Code("financial_status_indicator"), U32("round_lot_size"),
                       Code("round_lots_only"), Code("issue_classification"),
                       Raw("issue_sub_type", 2), Code("authenticity"),
                       Code("short_sale_threshold_indicator"), Code("ipo_flag"),
                       Code("luld_reference_price_tier"), Code("etp_flag"),
                       U32("etp_leverage_factor"), Code("inverse_indicator")>>
  <2>1. Plain(fields)
    BY DEF Plain, IsFields, Code, Num, Raw, Symbol, U32
  <2>2. StockDirectory = Type(82, fields)
    BY DEF StockDirectory
  <2> HIDE DEF fields
  <2> QED
    BY <2>1, <2>2 DEF IsType
<1>3. IsType(StockTradingAction, 72, {})
  <2> DEFINE fields == <<Symbol("stock"), Code("trading_state"), Code("reserved"),
                       Raw("reason", 4)>>
  <2>1. Plain(fields)
    BY DEF Plain, IsFields, Code, Raw, Symbol
  <2>2. StockTradingAction = Type(72, fields)
    BY DEF StockTradingAction
  <2> HIDE DEF fields
  <2> QED
    BY <2>1, <2>2 DEF IsType
<1>4. IsType(RegSHORestriction, 89, {})
  <2> DEFINE fields == <<Symbol("stock"), Code("reg_sho_action")>>
  <2>1. Plain(fields)
    BY DEF Plain, IsFields, Code, Raw, Symbol
  <2>2. RegSHORestriction = Type(89, fields)
    BY DEF RegSHORestriction
  <2> HIDE DEF fields
  <2> QED
    BY <2>1, <2>2 DEF IsType
<1>5. IsType(MarketParticipantPosition, 76, {})
  <2> DEFINE fields == <<Raw("mpid", 4), Symbol("stock"),
                       Code("primary_market_maker"), Code("market_maker_mode"),
                       Code("market_participant_state")>>
  <2>1. Plain(fields)
    BY DEF Plain, IsFields, Code, Raw, Symbol
  <2>2. MarketParticipantPosition = Type(76, fields)
    BY DEF MarketParticipantPosition
  <2> HIDE DEF fields
  <2> QED
    BY <2>1, <2>2 DEF IsType
<1>6. IsType(MWCBDeclineLevel, 86, {})
  <2> DEFINE fields == <<Price8("level_1"), Price8("level_2"), Price8("level_3")>>
  <2>1. Plain(fields)
    BY DEF Plain, IsFields, Num, Price8
  <2>2. MWCBDeclineLevel = Type(86, fields)
    BY DEF MWCBDeclineLevel
  <2> HIDE DEF fields
  <2> QED
    BY <2>1, <2>2 DEF IsType
<1>7. IsType(MWCBStatus, 87, {})
  <2> DEFINE fields == <<Code("breached_level")>>
  <2>1. Plain(fields)
    BY DEF Plain, IsFields, Code, Raw
  <2>2. MWCBStatus = Type(87, fields)
    BY DEF MWCBStatus
  <2> HIDE DEF fields
  <2> QED
    BY <2>1, <2>2 DEF IsType
<1>8. IsType(QuotingPeriodUpdate, 75, {})
  <2> DEFINE fields == <<Symbol("stock"), U32("ipo_quotation_release_time"),
                       Code("ipo_quotation_release_qualifier"),
                       Price4("ipo_price")>>
  <2>1. Plain(fields)
    BY DEF Plain, IsFields, Code, Num, Price4, Raw, Symbol, U32
  <2>2. QuotingPeriodUpdate = Type(75, fields)
    BY DEF QuotingPeriodUpdate
  <2> HIDE DEF fields
  <2> QED
    BY <2>1, <2>2 DEF IsType
<1>9. IsType(LULDAuctionCollar, 74, {})
  <2> DEFINE fields == <<Symbol("stock"), Price4("auction_collar_reference_price"),
                       Price4("upper_auction_collar_price"),
                       Price4("lower_auction_collar_price"),
                       U32("auction_collar_extension")>>
  <2>1. Plain(fields)
    BY DEF Plain, IsFields, Num, Price4, Raw, Symbol, U32
  <2>2. LULDAuctionCollar = Type(74, fields)
    BY DEF LULDAuctionCollar
  <2> HIDE DEF fields
  <2> QED
    BY <2>1, <2>2 DEF IsType
<1>10. IsType(OperationalHalt, 104, {})
  <2> DEFINE fields == <<Symbol("stock"), Code("market_code"),
                       Code("operational_halt_action")>>
  <2>1. Plain(fields)
    BY DEF Plain, IsFields, Code, Raw, Symbol
  <2>2. OperationalHalt = Type(104, fields)
    BY DEF OperationalHalt
  <2> HIDE DEF fields
  <2> QED
    BY <2>1, <2>2 DEF IsType
<1> QED
  BY <1>1, <1>2, <1>3, <1>4, <1>5, <1>6, <1>7, <1>8, <1>9, <1>10

\* The messages about orders.
LEMMA OrderTypeForms ==
  /\ IsType(AddOrderNoMPIDAttribution, 65, {"price", "shares"})
  /\ IsType(AddOrderWithMPIDAttribution, 70, {"price", "shares"})
  /\ IsType(OrderExecuted, 69, {"executed_shares"})
  /\ IsType(OrderExecutedWithPrice, 67, {"executed_shares"})
  /\ IsType(OrderCancel, 88, {"cancelled_shares"})
  /\ IsType(OrderDelete, 68, {})
  /\ IsType(OrderReplace, 85, {"price", "shares"})
<1>1. IsType(AddOrderNoMPIDAttribution, 65, {"price", "shares"})
  <2> DEFINE fields == <<U64("order_reference_number"), Code("buy_sell_indicator"),
                       U32("shares"), Symbol("stock"), Price4("price")>>
  <2>1. Plain(fields)
    BY DEF Plain, IsFields, Code, Num, Price4, Raw, Symbol, U32, U64
  <2>2. Numbers(fields, "price")
    BY DEF Numbers, Code, Num, Price4, Raw, Symbol, U32, U64
  <2>3. Numbers(fields, "shares")
    BY DEF Numbers, Code, Num, Price4, Raw, Symbol, U32, U64
  <2>4. AddOrderNoMPIDAttribution = Type(65, fields)
    BY DEF AddOrderNoMPIDAttribution
  <2> HIDE DEF fields
  <2> QED
    BY <2>1, <2>2, <2>3, <2>4 DEF IsType
<1>2. IsType(AddOrderWithMPIDAttribution, 70, {"price", "shares"})
  <2> DEFINE fields == <<U64("order_reference_number"), Code("buy_sell_indicator"),
                       U32("shares"), Symbol("stock"), Price4("price"),
                       Raw("attribution", 4)>>
  <2>1. Plain(fields)
    BY DEF Plain, IsFields, Code, Num, Price4, Raw, Symbol, U32, U64
  <2>2. Numbers(fields, "price")
    BY DEF Numbers, Code, Num, Price4, Raw, Symbol, U32, U64
  <2>3. Numbers(fields, "shares")
    BY DEF Numbers, Code, Num, Price4, Raw, Symbol, U32, U64
  <2>4. AddOrderWithMPIDAttribution = Type(70, fields)
    BY DEF AddOrderWithMPIDAttribution
  <2> HIDE DEF fields
  <2> QED
    BY <2>1, <2>2, <2>3, <2>4 DEF IsType
<1>3. IsType(OrderExecuted, 69, {"executed_shares"})
  <2> DEFINE fields == <<U64("order_reference_number"), U32("executed_shares"),
                       U64("match_number")>>
  <2>1. Plain(fields)
    BY DEF Plain, IsFields, Num, U32, U64
  <2>2. Numbers(fields, "executed_shares")
    BY DEF Numbers, Num, U32, U64
  <2>3. OrderExecuted = Type(69, fields)
    BY DEF OrderExecuted
  <2> HIDE DEF fields
  <2> QED
    BY <2>1, <2>2, <2>3 DEF IsType
<1>4. IsType(OrderExecutedWithPrice, 67, {"executed_shares"})
  <2> DEFINE fields == <<U64("order_reference_number"), U32("executed_shares"),
                       U64("match_number"), Code("printable"),
                       Price4("execution_price")>>
  <2>1. Plain(fields)
    BY DEF Plain, IsFields, Code, Num, Price4, Raw, U32, U64
  <2>2. Numbers(fields, "executed_shares")
    BY DEF Numbers, Code, Num, Price4, Raw, U32, U64
  <2>3. OrderExecutedWithPrice = Type(67, fields)
    BY DEF OrderExecutedWithPrice
  <2> HIDE DEF fields
  <2> QED
    BY <2>1, <2>2, <2>3 DEF IsType
<1>5. IsType(OrderCancel, 88, {"cancelled_shares"})
  <2> DEFINE fields == <<U64("order_reference_number"), U32("cancelled_shares")>>
  <2>1. Plain(fields)
    BY DEF Plain, IsFields, Num, U32, U64
  <2>2. Numbers(fields, "cancelled_shares")
    BY DEF Numbers, Num, U32, U64
  <2>3. OrderCancel = Type(88, fields)
    BY DEF OrderCancel
  <2> HIDE DEF fields
  <2> QED
    BY <2>1, <2>2, <2>3 DEF IsType
<1>6. IsType(OrderDelete, 68, {})
  <2> DEFINE fields == <<U64("order_reference_number")>>
  <2>1. Plain(fields)
    BY DEF Plain, IsFields, Num, U64
  <2>2. OrderDelete = Type(68, fields)
    BY DEF OrderDelete
  <2> HIDE DEF fields
  <2> QED
    BY <2>1, <2>2 DEF IsType
<1>7. IsType(OrderReplace, 85, {"price", "shares"})
  <2> DEFINE fields == <<U64("original_order_reference_number"),
                       U64("new_order_reference_number"), U32("shares"),
                       Price4("price")>>
  <2>1. Plain(fields)
    BY DEF Plain, IsFields, Num, Price4, U32, U64
  <2>2. Numbers(fields, "price")
    BY DEF Numbers, Num, Price4, U32, U64
  <2>3. Numbers(fields, "shares")
    BY DEF Numbers, Num, Price4, U32, U64
  <2>4. OrderReplace = Type(85, fields)
    BY DEF OrderReplace
  <2> HIDE DEF fields
  <2> QED
    BY <2>1, <2>2, <2>3, <2>4 DEF IsType
<1> QED
  BY <1>1, <1>2, <1>3, <1>4, <1>5, <1>6, <1>7

\* The messages about trades and auctions.
LEMMA TradeTypes ==
  /\ IsType(Trade, 80, {})
  /\ IsType(CrossTrade, 81, {})
  /\ IsType(BrokenTrade, 66, {})
  /\ IsType(NetOrderImbalanceIndicator, 73, {})
  /\ IsType(RetailPriceImprovementIndicator, 78, {})
  /\ IsType(DirectListingwithCapitalRaisePriceDiscovery, 79, {})
<1>1. IsType(Trade, 80, {})
  <2> DEFINE fields == <<U64("order_reference_number"), Code("buy_sell_indicator"),
                       U32("shares"), Symbol("stock"), Price4("price"),
                       U64("match_number")>>
  <2>1. Plain(fields)
    BY DEF Plain, IsFields, Code, Num, Price4, Raw, Symbol, U32, U64
  <2>2. Trade = Type(80, fields)
    BY DEF Trade
  <2> HIDE DEF fields
  <2> QED
    BY <2>1, <2>2 DEF IsType
<1>2. IsType(CrossTrade, 81, {})
  <2> DEFINE fields == <<U64("shares"), Symbol("stock"), Price4("cross_price"),
                       U64("match_number"), Code("cross_type")>>
  <2>1. Plain(fields)
    BY DEF Plain, IsFields, Code, Num, Price4, Raw, Symbol, U64
  <2>2. CrossTrade = Type(81, fields)
    BY DEF CrossTrade
  <2> HIDE DEF fields
  <2> QED
    BY <2>1, <2>2 DEF IsType
<1>3. IsType(BrokenTrade, 66, {})
  <2> DEFINE fields == <<U64("match_number")>>
  <2>1. Plain(fields)
    BY DEF Plain, IsFields, Num, U64
  <2>2. BrokenTrade = Type(66, fields)
    BY DEF BrokenTrade
  <2> HIDE DEF fields
  <2> QED
    BY <2>1, <2>2 DEF IsType
<1>4. IsType(NetOrderImbalanceIndicator, 73, {})
  <2> DEFINE fields == <<U64("paired_shares"), U64("imbalance_shares"),
                       Code("imbalance_direction"), Symbol("stock"),
                       Price4("far_price"), Price4("near_price"),
                       Price4("current_reference_price"), Code("cross_type"),
                       Code("price_variation_indicator")>>
  <2>1. Plain(fields)
    BY DEF Plain, IsFields, Code, Num, Price4, Raw, Symbol, U64
  <2>2. NetOrderImbalanceIndicator = Type(73, fields)
    BY DEF NetOrderImbalanceIndicator
  <2> HIDE DEF fields
  <2> QED
    BY <2>1, <2>2 DEF IsType
<1>5. IsType(RetailPriceImprovementIndicator, 78, {})
  <2> DEFINE fields == <<Symbol("stock"), Code("interest_flag")>>
  <2>1. Plain(fields)
    BY DEF Plain, IsFields, Code, Raw, Symbol
  <2>2. RetailPriceImprovementIndicator = Type(78, fields)
    BY DEF RetailPriceImprovementIndicator
  <2> HIDE DEF fields
  <2> QED
    BY <2>1, <2>2 DEF IsType
<1>6. IsType(DirectListingwithCapitalRaisePriceDiscovery, 79, {})
  <2> DEFINE fields == <<Symbol("stock"), Code("open_eligibility_status"),
                       Price4("minimum_allowable_price"),
                       Price4("maximum_allowable_price"),
                       Price4("near_execution_price"), U64("near_execution_time"),
                       Price4("lower_price_range_collar"),
                       Price4("upper_price_range_collar")>>
  <2>1. Plain(fields)
    BY DEF Plain, IsFields, Code, Num, Price4, Raw, Symbol, U64
  <2>2. DirectListingwithCapitalRaisePriceDiscovery = Type(79, fields)
    BY DEF DirectListingwithCapitalRaisePriceDiscovery
  <2> HIDE DEF fields
  <2> QED
    BY <2>1, <2>2 DEF IsType
<1> QED
  BY <1>1, <1>2, <1>3, <1>4, <1>5, <1>6

\* What decoding a message of a type gives.
LEMMA DecodeTyped ==
  ASSUME NEW type, NEW TAG, NEW numbers, IsType(type, TAG, numbers)
  PROVE  /\ type.TAG = TAG
         /\ \A body \in Seq(Byte) : body # <<>> /\ Len(body) = type.LEN =>
               /\ Decode(type, body).tag = body[1]
               /\ Decode(type, body).stock_locate \in Nat
               /\ \A name \in numbers : Decode(type, body)[name] \in Nat
<1>1. PICK fields : /\ Plain(fields) /\ type = Type(TAG, fields)
                    /\ \A name \in numbers : Numbers(fields, name)
  BY DEF IsType
<1>2. type.TAG = TAG
  BY <1>1 DEF Type, Layout
<1>3. ASSUME NEW body \in Seq(Byte), body # <<>>, Len(body) = type.LEN
      PROVE  /\ Decode(type, body).tag = body[1]
             /\ Decode(type, body).stock_locate \in Nat
             /\ \A name \in numbers : Decode(type, body)[name] \in Nat
  <2>1. /\ Decode(Type(TAG, fields), body).tag = body[1]
        /\ Decode(Type(TAG, fields), body).stock_locate \in Nat
        /\ \A name : Numbers(fields, name) =>
              Decode(Type(TAG, fields), body)[name] \in Nat
    BY <1>1, <1>3, DecodeType
  <2> QED
    BY <1>1, <2>1, Zenon
<1> QED
  BY <1>2, <1>3

\* The TAGs.
LEMMA TypeTags ==
  /\ SystemEvent.TAG = 83 /\ StockDirectory.TAG = 82 /\ StockTradingAction.TAG = 72
  /\ RegSHORestriction.TAG = 89 /\ MarketParticipantPosition.TAG = 76
  /\ MWCBDeclineLevel.TAG = 86 /\ MWCBStatus.TAG = 87 /\ QuotingPeriodUpdate.TAG = 75
  /\ LULDAuctionCollar.TAG = 74 /\ OperationalHalt.TAG = 104
  /\ AddOrderNoMPIDAttribution.TAG = 65 /\ AddOrderWithMPIDAttribution.TAG = 70
  /\ OrderExecuted.TAG = 69 /\ OrderExecutedWithPrice.TAG = 67 /\ OrderCancel.TAG = 88
  /\ OrderDelete.TAG = 68 /\ OrderReplace.TAG = 85 /\ Trade.TAG = 80
  /\ CrossTrade.TAG = 81 /\ BrokenTrade.TAG = 66 /\ NetOrderImbalanceIndicator.TAG = 73
  /\ RetailPriceImprovementIndicator.TAG = 78
  /\ DirectListingwithCapitalRaisePriceDiscovery.TAG = 79
  BY AdminTypes, OrderTypeForms, TradeTypes, DecodeTyped


\* A message's fields, as far as the handler uses them as numbers.
IsMsg(msg) ==
    /\ msg.stock_locate \in Nat
    /\ msg.tag \in {AddOrderNoMPIDAttribution.TAG, AddOrderWithMPIDAttribution.TAG,
                    OrderReplace.TAG} => msg.price \in Nat /\ msg.shares \in Nat
    /\ msg.tag \in {OrderExecuted.TAG, OrderExecutedWithPrice.TAG} =>
          msg.executed_shares \in Nat
    /\ msg.tag = OrderCancel.TAG => msg.cancelled_shares \in Nat

\* The messages that the casts of parse_stream make.
LEMMA MsgForm ==
  ASSUME NEW body \in Body, Castable(body)
  PROVE  IsMsg(cast(body))
<1>1. body \in Seq(Byte) /\ body # <<>> /\ body[1] \in Tags
  BY DEF Body
<1>2. PICK type : type = TypeOf[body[1]]
  BY Zenon
<1>3. type \in Types /\ type.TAG = body[1]
  <2>1. \E t \in Types : t.TAG = body[1]
    BY <1>1 DEF Tags
  <2>2. TypeOf[body[1]] = CHOOSE t \in Types : t.TAG = body[1]
    BY <1>1, Zenon DEF TypeOf
  <2> QED
    BY <1>2, <2>1, <2>2, Zenon
<1>4. Len(body) = type.LEN
  BY <1>2 DEF Castable
<1>5. PICK msg : msg = Decode(type, body)
  BY Zenon
<1>6. cast(body) = msg
  BY <1>2, <1>5 DEF cast
<1>7. ASSUME NEW TAG, NEW numbers, IsType(type, TAG, numbers)
      PROVE  /\ msg.tag = TAG /\ msg.stock_locate \in Nat
             /\ \A name \in numbers : msg[name] \in Nat
  BY <1>1, <1>3, <1>4, <1>5, <1>7, DecodeTyped
<1> USE TypeTags
<1>8. CASE type \in {AddOrderNoMPIDAttribution, AddOrderWithMPIDAttribution, OrderReplace}
  <2>1. /\ msg.tag \in {65, 70, 85} /\ msg.stock_locate \in Nat
        /\ \A name \in {"price", "shares"} : msg[name] \in Nat
    BY <1>7, <1>8, OrderTypeForms
  <2>2. msg.price \in Nat /\ msg.shares \in Nat
    BY <2>1
  <2>3. IsMsg(msg)
    BY <2>1, <2>2 DEF IsMsg
  <2> QED
    BY <1>6, <2>3
<1>9. CASE type \in {OrderExecuted, OrderExecutedWithPrice}
  <2>1. /\ msg.tag \in {69, 67} /\ msg.stock_locate \in Nat
        /\ \A name \in {"executed_shares"} : msg[name] \in Nat
    BY <1>7, <1>9, OrderTypeForms
  <2>2. msg.executed_shares \in Nat
    BY <2>1
  <2>3. IsMsg(msg)
    BY <2>1, <2>2 DEF IsMsg
  <2> QED
    BY <1>6, <2>3
<1>10. CASE type = OrderCancel
  <2>1. /\ msg.tag = 88 /\ msg.stock_locate \in Nat
        /\ \A name \in {"cancelled_shares"} : msg[name] \in Nat
    BY <1>7, <1>10, OrderTypeForms
  <2>2. msg.cancelled_shares \in Nat
    BY <2>1
  <2>3. IsMsg(msg)
    BY <2>1, <2>2 DEF IsMsg
  <2> QED
    BY <1>6, <2>3
<1>11. CASE type \in {SystemEvent, StockDirectory, StockTradingAction, RegSHORestriction,
                      MarketParticipantPosition, MWCBDeclineLevel, MWCBStatus,
                      QuotingPeriodUpdate, LULDAuctionCollar, OperationalHalt}
  <2>1. /\ msg.tag \in {83, 82, 72, 89, 76, 86, 87, 75, 74, 104}
        /\ msg.stock_locate \in Nat
    BY <1>7, <1>11, AdminTypes
  <2>2. IsMsg(msg)
    BY <2>1 DEF IsMsg
  <2> QED
    BY <1>6, <2>2
<1>12. CASE type \in {OrderDelete, Trade, CrossTrade, BrokenTrade,
                      NetOrderImbalanceIndicator, RetailPriceImprovementIndicator,
                      DirectListingwithCapitalRaisePriceDiscovery}
  <2>1. /\ msg.tag \in {68, 80, 81, 66, 73, 78, 79} /\ msg.stock_locate \in Nat
    BY <1>7, <1>12, OrderTypeForms, TradeTypes
  <2>2. IsMsg(msg)
    BY <2>1 DEF IsMsg
  <2> QED
    BY <1>6, <2>2
<1> QED
  BY <1>3, <1>8, <1>9, <1>10, <1>11, <1>12 DEF Types

-----------------------------------------------------------------------------
(* Calls on a book.                                                        *)

IsOrder(o) ==
    /\ o = [id |-> o.id, side |-> o.side, price |-> o.price, qty |-> o.qty]
    /\ o.side \in {"Bid", "Ask"} /\ o.price \in Nat /\ o.qty \in Nat

IsBook(b) == \A id \in DOMAIN b : IsOrder(b[id]) /\ b[id].id = id

\* How a call that is counted under counter changes the set of orders from D
\* to E, and whether it is counted.
IsChange(D, E, ok, counter) ==
    /\ ok \in BOOLEAN
    /\ counter = "orders_added" =>
          (ok => \E id : id \notin D /\ E = D \cup {id}) /\ (~ok => E = D)
    /\ counter \in {"orders_executed", "orders_cancelled"} =>
          E = D \/ (ok /\ \E id \in D : E = D \ {id})
    /\ counter = "orders_deleted" =>
          (ok => \E id \in D : E = D \ {id}) /\ (~ok => E = D)
    /\ counter = "orders_replaced" =>
          \/ E = D
          \/ \E id \in D : \/ E = D \ {id}
                           \/ \E new : new \notin D \ {id} /\ E = (D \ {id}) \cup {new}

IsCall(b, called, counter) ==
    /\ IsBook(called.book)
    /\ IsChange(DOMAIN b, DOMAIN called.book, called.ok, counter)

\* The results of calls.
LEMMA CallResults ==
  ASSUME NEW b
  PROVE  /\ Done(b).ok = TRUE /\ Done(b).book = b
         /\ Failed(b).ok = FALSE /\ Failed(b).book = b
  BY DEF Done, Failed

\* A call that fails leaves the book alone.
LEMMA FailedCall ==
  ASSUME NEW b, IsBook(b), NEW counter
  PROVE  IsCall(b, Failed(b), counter)
<1>1. PICK c : c = Failed(b)
  BY Zenon
<1>2. c.ok = FALSE /\ c.book = b
  BY <1>1, CallResults
<1>3. IsChange(DOMAIN b, DOMAIN b, FALSE, counter)
  BY DEF IsChange
<1> QED
  BY <1>1, <1>2, <1>3 DEF IsCall

\* Adding to a map and removing from it.
LEMMA InsertForm ==
  ASSUME NEW f, NEW k, NEW v
  PROVE  /\ DOMAIN Insert(f, k, v) = DOMAIN f \cup {k}
         /\ Insert(f, k, v)[k] = v
         /\ \A x \in DOMAIN f : x # k => Insert(f, k, v)[x] = f[x]
         /\ DOMAIN Without(f, k) = DOMAIN f \ {k}
         /\ \A x \in DOMAIN f \ {k} : Without(f, k)[x] = f[x]
  BY DEF Insert, Without, Restrict

\* add, on a new order and on a known id.
LEMMA AddCall ==
  ASSUME NEW b, IsBook(b), NEW o, IsOrder(o)
  PROVE  /\ IsCall(b, BookAdd(b, o), "orders_added")
         /\ o.id \in DOMAIN b => BookAdd(b, o) = Failed(b)
         /\ o.id \notin DOMAIN b => DOMAIN BookAdd(b, o).book = DOMAIN b \cup {o.id}
<1>1. CASE o.id \in DOMAIN b
  BY <1>1, FailedCall DEF BookAdd
<1>2. CASE o.id \notin DOMAIN b
  <2>1. PICK c : c = Insert(b, o.id, o)
    BY Zenon
  <2>2. BookAdd(b, o).ok = TRUE /\ BookAdd(b, o).book = c
    BY <1>2, <2>1, CallResults DEF BookAdd
  <2>3. DOMAIN c = DOMAIN b \cup {o.id}
    BY <2>1, InsertForm, ZenonT(30)
  <2>4. IsBook(c)
    <3>1. \A x \in DOMAIN b : c[x] = b[x]
      BY <1>2, <2>1 DEF Insert
    <3>2. c[o.id] = o
      BY <2>1 DEF Insert
    <3> QED
      BY <2>3, <3>1, <3>2 DEF IsBook
  <2> QED
    BY <1>2, <2>2, <2>3, <2>4 DEF IsCall, IsChange
<1> QED
  BY <1>1, <1>2

\* A book without one of its orders.
LEMMA WithoutBook ==
  ASSUME NEW b, IsBook(b), NEW id
  PROVE  IsBook(Without(b, id)) /\ DOMAIN Without(b, id) = DOMAIN b \ {id}
<1>1. PICK c : c = Without(b, id)
  BY Zenon
<1>2. DOMAIN c = DOMAIN b \ {id} /\ \A x \in DOMAIN b \ {id} : c[x] = b[x]
  BY <1>1 DEF Without, Restrict
<1> QED
  BY <1>1, <1>2 DEF IsBook

\* delete, on a known order and on an unknown one.
LEMMA DeleteCall ==
  ASSUME NEW b, IsBook(b), NEW id
  PROVE  IsCall(b, BookDelete(b, id), "orders_deleted")
<1>1. CASE id \in DOMAIN b
  <2>1. BookDelete(b, id).ok = TRUE /\ BookDelete(b, id).book = Without(b, id)
    BY <1>1, CallResults DEF BookDelete
  <2>2. IsBook(Without(b, id)) /\ DOMAIN Without(b, id) = DOMAIN b \ {id}
    BY WithoutBook
  <2> QED
    BY <1>1, <2>1, <2>2 DEF IsCall, IsChange
<1>2. CASE id \notin DOMAIN b
  BY <1>2, FailedCall DEF BookDelete
<1> QED
  BY <1>1, <1>2

\* execute, execute_at and cancel, for too much, for all and for a part.
LEMMA TakeCall ==
  ASSUME NEW b, IsBook(b), NEW id, NEW qty \in Nat,
         NEW counter \in {"orders_executed", "orders_cancelled"}
  PROVE  IsCall(b, BookTake(b, id, qty), counter)
<1>1. CASE id \notin DOMAIN b
  BY <1>1, FailedCall DEF BookTake
<1>2. CASE id \in DOMAIN b /\ qty > b[id].qty
  BY <1>2, FailedCall DEF BookTake
<1>3. CASE id \in DOMAIN b /\ ~(qty > b[id].qty) /\ qty = b[id].qty
  <2>1. BookTake(b, id, qty).ok = TRUE /\ BookTake(b, id, qty).book = Without(b, id)
    BY <1>3, CallResults DEF BookTake
  <2>2. IsBook(Without(b, id)) /\ DOMAIN Without(b, id) = DOMAIN b \ {id}
    BY WithoutBook
  <2>3. IsChange(DOMAIN b, DOMAIN b \ {id}, TRUE, counter)
    BY <1>3 DEF IsChange
  <2> QED
    BY <2>1, <2>2, <2>3 DEF IsCall
<1>4. CASE id \in DOMAIN b /\ ~(qty > b[id].qty) /\ qty # b[id].qty
  <2>1. PICK o : o = b[id]
    BY Zenon
  <2>2. IsOrder(o) /\ o.id = id
    BY <1>4, <2>1 DEF IsBook
  <2>3. PICK left : left = [o EXCEPT !.qty = @ - qty]
    BY Zenon
  <2>4. IsOrder(left) /\ left.id = id
    <3>1. left = [id |-> o.id, side |-> o.side, price |-> o.price, qty |-> o.qty - qty]
      BY <2>2, <2>3 DEF IsOrder
    <3>2. o.qty - qty \in Nat
      BY <1>4, <2>1, <2>2 DEF IsOrder
    <3> QED
      BY <2>2, <3>1, <3>2 DEF IsOrder
  <2>5. PICK c : c = [b EXCEPT ![id] = left]
    BY Zenon
  <2>6. BookTake(b, id, qty).ok = TRUE /\ BookTake(b, id, qty).book = c
    <3>1. BookTake(b, id, qty) = Done([b EXCEPT ![id].qty = @ - qty])
      BY <1>4, Zenon DEF BookTake
    <3>2. [b EXCEPT ![id].qty = @ - qty] = c
      BY <2>1, <2>3, <2>5
    <3> QED
      BY <3>1, <3>2, CallResults
  <2>7. DOMAIN c = DOMAIN b /\ \A x \in DOMAIN b : c[x] = IF x = id THEN left ELSE b[x]
    BY <2>5
  <2>8. IsBook(c)
    BY <2>4, <2>7 DEF IsBook
  <2>9. IsChange(DOMAIN b, DOMAIN c, TRUE, counter)
    <3>1. counter # "orders_added" /\ counter # "orders_deleted" /\ counter # "orders_replaced"
      OBVIOUS
    <3> QED
      BY <2>7, <3>1, Zenon DEF IsChange
  <2> QED
    BY <2>6, <2>8, <2>9 DEF IsCall
<1> QED
  BY <1>1, <1>2, <1>3, <1>4

\* replace, when the new id is free and when it is taken.
LEMMA ReplaceCall ==
  ASSUME NEW b, IsBook(b), NEW old, NEW new, NEW price \in Nat, NEW qty \in Nat
  PROVE  IsCall(b, BookReplace(b, old, new, price, qty), "orders_replaced")
<1>1. CASE old \notin DOMAIN b
  BY <1>1, FailedCall DEF BookReplace
<1>2. CASE old \in DOMAIN b
  <2>1. PICK o : o = [id |-> new, side |-> b[old].side, price |-> price, qty |-> qty]
    BY Zenon
  <2>2. IsOrder(o) /\ o.id = new
    <3>1. b[old].side \in {"Bid", "Ask"}
      BY <1>2 DEF IsBook, IsOrder
    <3> QED
      BY <2>1, <3>1 DEF IsOrder
  <2>3. PICK c : c = Without(b, old) /\ IsBook(c) /\ DOMAIN c = DOMAIN b \ {old}
    BY WithoutBook
  <2>4. BookReplace(b, old, new, price, qty) = BookAdd(c, o)
    BY <1>2, <2>1, <2>3, Zenon DEF BookReplace
  <2>5. PICK called : called = BookAdd(c, o)
    BY Zenon
  <2>6. IsBook(called.book) /\ called.ok \in BOOLEAN
    BY <2>2, <2>3, <2>5, AddCall DEF IsCall, IsChange
  <2>7. \/ DOMAIN called.book = DOMAIN b \ {old}
        \/ new \notin DOMAIN b \ {old} /\ DOMAIN called.book = (DOMAIN b \ {old}) \cup {new}
    <3>1. CASE new \in DOMAIN c
      <4>1. called = Failed(c)
        BY <2>2, <2>3, <2>5, <3>1, AddCall
      <4>2. called.book = c
        BY <4>1, CallResults
      <4> QED
        BY <2>3, <4>2
    <3>2. CASE new \notin DOMAIN c
      BY <2>2, <2>3, <2>5, <3>2, AddCall
    <3> QED
      BY <3>1, <3>2
  <2>8. IsChange(DOMAIN b, DOMAIN called.book, called.ok, "orders_replaced")
    BY <1>2, <2>6, <2>7 DEF IsChange
  <2> QED
    BY <2>4, <2>5, <2>6, <2>8 DEF IsCall
<1> QED
  BY <1>1, <1>2

-----------------------------------------------------------------------------
(* Messages and the handler.                                               *)

AddTags == {AddOrderNoMPIDAttribution.TAG, AddOrderWithMPIDAttribution.TAG}
ExecutedTags == {OrderExecuted.TAG, OrderExecutedWithPrice.TAG}
OrderTags == AddTags \cup ExecutedTags
             \cup {OrderCancel.TAG, OrderDelete.TAG, OrderReplace.TAG}

\* The call that a message about an order makes on the book of its locate, and
\* the counter for it.
CallOf(b, msg) ==
    IF msg.tag \in AddTags
    THEN IF BuySellIndicator(msg.buy_sell_indicator) = "Unknown" THEN Failed(b)
         ELSE BookAdd(b, [id |-> msg.order_reference_number,
                          side |-> parse_side(BuySellIndicator(msg.buy_sell_indicator)),
                          price |-> msg.price, qty |-> msg.shares])
    ELSE IF msg.tag \in ExecutedTags
    THEN BookTake(b, msg.order_reference_number, msg.executed_shares)
    ELSE IF msg.tag = OrderCancel.TAG
    THEN BookTake(b, msg.order_reference_number, msg.cancelled_shares)
    ELSE IF msg.tag = OrderDelete.TAG
    THEN BookDelete(b, msg.order_reference_number)
    ELSE BookReplace(b, msg.original_order_reference_number,
                     msg.new_order_reference_number, msg.price, msg.shares)

CounterOf(msg) ==
    IF msg.tag \in AddTags THEN "orders_added"
    ELSE IF msg.tag \in ExecutedTags THEN "orders_executed"
    ELSE IF msg.tag = OrderCancel.TAG THEN "orders_cancelled"
    ELSE IF msg.tag = OrderDelete.TAG THEN "orders_deleted"
    ELSE "orders_replaced"

\* The tags are told apart.
LEMMA OrderCases ==
  ASSUME NEW tag
  PROVE  /\ tag \in AddTags =>
               /\ tag # StockDirectory.TAG /\ tag \notin ExecutedTags
               /\ tag # OrderCancel.TAG /\ tag # OrderDelete.TAG /\ tag # OrderReplace.TAG
         /\ tag \in ExecutedTags =>
               /\ tag # StockDirectory.TAG /\ tag \notin AddTags
               /\ tag # OrderCancel.TAG /\ tag # OrderDelete.TAG /\ tag # OrderReplace.TAG
         /\ tag = OrderCancel.TAG =>
               /\ tag # StockDirectory.TAG /\ tag \notin AddTags /\ tag \notin ExecutedTags
               /\ tag # OrderDelete.TAG /\ tag # OrderReplace.TAG
         /\ tag = OrderDelete.TAG =>
               /\ tag # StockDirectory.TAG /\ tag \notin AddTags /\ tag \notin ExecutedTags
               /\ tag # OrderCancel.TAG /\ tag # OrderReplace.TAG
         /\ tag = OrderReplace.TAG =>
               /\ tag # StockDirectory.TAG /\ tag \notin AddTags /\ tag \notin ExecutedTags
               /\ tag # OrderCancel.TAG /\ tag # OrderDelete.TAG
         /\ tag = StockDirectory.TAG => tag \notin OrderTags
  BY TypeTags DEF AddTags, ExecutedTags, OrderTags

\* The sides.
LEMMA SideForm ==
  ASSUME NEW code
  PROVE  /\ BuySellIndicator(code) = "Unknown" <=> code \notin {<<66>>, <<83>>}
         /\ BuySellIndicator(code) # "Unknown" =>
               parse_side(BuySellIndicator(code)) = IF code = <<66>> THEN "Bid" ELSE "Ask"
<1>1. <<66>> # <<83>>
  OBVIOUS
<1>2. BuySellIndicator(code) = IF code = <<66>> THEN "Buy"
                               ELSE IF code = <<83>> THEN "Sell" ELSE "Unknown"
  BY <1>1 DEF BuySellIndicator
<1> QED
  BY <1>2 DEF parse_side

\* The handler makes that call, and OnBook is what it leaves behind.
LEMMA ApplyOrder ==
  ASSUME NEW h, NEW msg, msg.tag \in OrderTags
  PROVE  Apply(h, msg) = WithBook(h, msg.stock_locate,
                                  CallOf(BookOf(h, msg.stock_locate), msg), CounterOf(msg))
<1>1. PICK tag : tag = msg.tag
  BY Zenon
<1> USE OrderCases
<1>2. CASE tag \in AddTags
  <2>1. Apply(h, msg) = apply_add_order(h, msg)
    BY <1>1, <1>2 DEF Apply, AddTags, ExecutedTags
  <2>2. CounterOf(msg) = "orders_added"
    BY <1>1, <1>2 DEF CounterOf
  <2> QED
    BY <1>1, <1>2, <2>1, <2>2, Zenon DEF apply_add_order, CallOf
<1>3. CASE tag \in ExecutedTags
  <2>1. Apply(h, msg) = on_order_executed(h, msg)
    BY <1>1, <1>3 DEF Apply, AddTags, ExecutedTags
  <2>2. CounterOf(msg) = "orders_executed"
    BY <1>1, <1>3 DEF CounterOf
  <2>3. tag \notin AddTags
    BY <1>3
  <2> QED
    BY <1>1, <1>3, <2>1, <2>2, <2>3, Zenon DEF on_order_executed, CallOf
<1>4. CASE tag = OrderCancel.TAG
  <2>1. Apply(h, msg) = on_order_cancel(h, msg)
    BY <1>1, <1>4 DEF Apply, AddTags, ExecutedTags
  <2>2. CounterOf(msg) = "orders_cancelled"
    BY <1>1, <1>4 DEF CounterOf
  <2>3. tag \notin AddTags /\ tag \notin ExecutedTags
    BY <1>4
  <2> QED
    BY <1>1, <1>4, <2>1, <2>2, <2>3, Zenon DEF on_order_cancel, CallOf
<1>5. CASE tag = OrderDelete.TAG
  <2>1. Apply(h, msg) = on_order_delete(h, msg)
    BY <1>1, <1>5 DEF Apply, AddTags, ExecutedTags
  <2>2. CounterOf(msg) = "orders_deleted"
    BY <1>1, <1>5 DEF CounterOf
  <2>3. tag \notin AddTags /\ tag \notin ExecutedTags /\ tag # OrderCancel.TAG
    BY <1>5
  <2> QED
    BY <1>1, <1>5, <2>1, <2>2, <2>3, Zenon DEF on_order_delete, CallOf
<1>6. CASE tag = OrderReplace.TAG
  <2>1. Apply(h, msg) = on_order_replace(h, msg)
    BY <1>1, <1>6 DEF Apply, AddTags, ExecutedTags
  <2>2. CounterOf(msg) = "orders_replaced"
    BY <1>1, <1>6 DEF CounterOf
  <2>3. /\ tag \notin AddTags /\ tag \notin ExecutedTags /\ tag # OrderCancel.TAG
        /\ tag # OrderDelete.TAG
    BY <1>6
  <2> QED
    BY <1>1, <1>6, <2>1, <2>2, <2>3, Zenon DEF on_order_replace, CallOf
<1> QED
  BY <1>1, <1>2, <1>3, <1>4, <1>5, <1>6 DEF OrderTags

\* OnBook is what the call leaves behind, and other messages leave the book.
LEMMA OnBookForm ==
  ASSUME NEW b, NEW msg
  PROVE  /\ msg.tag \in OrderTags => OnBook(b, msg) = CallOf(b, msg).book
         /\ msg.tag \notin OrderTags => OnBook(b, msg) = b
<1>1. PICK tag : tag = msg.tag
  BY Zenon
<1> USE OrderCases
<1>2. CASE tag \in AddTags
  <2>1. PICK code : code = msg.buy_sell_indicator
    BY Zenon
  <2>2. CASE code \in {<<66>>, <<83>>}
    <3>1. BuySellIndicator(code) # "Unknown"
      BY <2>2, SideForm
    <3> DEFINE o == [id |-> msg.order_reference_number,
                     side |-> IF code = <<66>> THEN "Bid" ELSE "Ask",
                     price |-> msg.price, qty |-> msg.shares]
    <3>2. CallOf(b, msg) = BookAdd(b, o)
      BY <1>1, <1>2, <2>1, <3>1, SideForm DEF CallOf
    <3>3. OnBook(b, msg) = BookAdd(b, o).book
      BY <1>1, <1>2, <2>1, <2>2 DEF OnBook, AddTags, ExecutedTags
    <3> QED
      BY <1>1, <1>2, <3>2, <3>3 DEF OrderTags
  <2>3. CASE code \notin {<<66>>, <<83>>}
    <3>1. BuySellIndicator(code) = "Unknown"
      BY <2>3, SideForm
    <3>2. CallOf(b, msg) = Failed(b)
      BY <1>1, <1>2, <2>1, <3>1, Zenon DEF CallOf
    <3>3. OnBook(b, msg) = b
      BY <1>1, <1>2, <2>1, <2>3 DEF OnBook, AddTags, ExecutedTags
    <3> QED
      BY <1>1, <1>2, <3>2, <3>3, CallResults DEF OrderTags
  <2> QED
    BY <2>2, <2>3
<1>3. CASE tag \in ExecutedTags
  <2>1. OnBook(b, msg) = BookTake(b, msg.order_reference_number, msg.executed_shares).book
    BY <1>1, <1>3 DEF OnBook, AddTags, ExecutedTags
  <2>2. CallOf(b, msg) = BookTake(b, msg.order_reference_number, msg.executed_shares)
    BY <1>1, <1>3 DEF CallOf
  <2> QED
    BY <1>1, <1>3, <2>1, <2>2 DEF OrderTags
<1>4. CASE tag = OrderCancel.TAG
  <2>1. OnBook(b, msg) = BookTake(b, msg.order_reference_number, msg.cancelled_shares).book
    BY <1>1, <1>4 DEF OnBook, AddTags, ExecutedTags
  <2>2. CallOf(b, msg) = BookTake(b, msg.order_reference_number, msg.cancelled_shares)
    BY <1>1, <1>4 DEF CallOf
  <2> QED
    BY <1>1, <1>4, <2>1, <2>2 DEF OrderTags
<1>5. CASE tag = OrderDelete.TAG
  <2>1. OnBook(b, msg) = BookDelete(b, msg.order_reference_number).book
    BY <1>1, <1>5 DEF OnBook, AddTags, ExecutedTags
  <2>2. CallOf(b, msg) = BookDelete(b, msg.order_reference_number)
    BY <1>1, <1>5 DEF CallOf
  <2> QED
    BY <1>1, <1>5, <2>1, <2>2 DEF OrderTags
<1>6. CASE tag = OrderReplace.TAG
  <2>1. OnBook(b, msg) =
          BookReplace(b, msg.original_order_reference_number,
                      msg.new_order_reference_number, msg.price, msg.shares).book
    BY <1>1, <1>6 DEF OnBook, AddTags, ExecutedTags
  <2>2. CallOf(b, msg) =
          BookReplace(b, msg.original_order_reference_number,
                      msg.new_order_reference_number, msg.price, msg.shares)
    BY <1>1, <1>6 DEF CallOf
  <2> QED
    BY <1>1, <1>6, <2>1, <2>2 DEF OrderTags
<1>7. CASE tag \notin OrderTags
  <2>1. OnBook(b, msg) = b
    BY <1>1, <1>7 DEF OnBook, AddTags, ExecutedTags, OrderTags
  <2> QED
    BY <1>1, <1>7, <2>1
<1> QED
  BY <1>2, <1>3, <1>4, <1>5, <1>6, <1>7 DEF OrderTags

\* What the call does to the book.
LEMMA CallForm ==
  ASSUME NEW b, IsBook(b), NEW msg, IsMsg(msg), msg.tag \in OrderTags
  PROVE  IsCall(b, CallOf(b, msg), CounterOf(msg))
<1>1. PICK tag : tag = msg.tag
  BY Zenon
<1> USE OrderCases
<1>2. CASE tag \in AddTags
  <2>1. CounterOf(msg) = "orders_added" /\ msg.price \in Nat /\ msg.shares \in Nat
    BY <1>1, <1>2 DEF CounterOf, IsMsg, AddTags
  <2>2. CASE BuySellIndicator(msg.buy_sell_indicator) = "Unknown"
    <3>1. CallOf(b, msg) = Failed(b)
      BY <1>1, <1>2, <2>2, Zenon DEF CallOf
    <3> QED
      BY <3>1, FailedCall
  <2>3. CASE BuySellIndicator(msg.buy_sell_indicator) # "Unknown"
    <3> DEFINE o == [id |-> msg.order_reference_number,
                     side |-> parse_side(BuySellIndicator(msg.buy_sell_indicator)),
                     price |-> msg.price, qty |-> msg.shares]
    <3>1. CallOf(b, msg) = BookAdd(b, o)
      BY <1>1, <1>2, <2>3, Zenon DEF CallOf
    <3>2. IsOrder(o)
      <4>1. parse_side(BuySellIndicator(msg.buy_sell_indicator)) \in {"Bid", "Ask"}
        BY DEF parse_side
      <4> QED
        BY <2>1, <4>1 DEF IsOrder
    <3> HIDE DEF o
    <3> QED
      BY <2>1, <3>1, <3>2, AddCall
  <2> QED
    BY <2>2, <2>3
<1>3. CASE tag \in ExecutedTags
  <2>1. CounterOf(msg) = "orders_executed" /\ msg.executed_shares \in Nat
    BY <1>1, <1>3 DEF CounterOf, IsMsg, ExecutedTags
  <2>2. CallOf(b, msg) = BookTake(b, msg.order_reference_number, msg.executed_shares)
    BY <1>1, <1>3 DEF CallOf
  <2> QED
    BY <2>1, <2>2, TakeCall
<1>4. CASE tag = OrderCancel.TAG
  <2>1. CounterOf(msg) = "orders_cancelled" /\ msg.cancelled_shares \in Nat
    BY <1>1, <1>4 DEF CounterOf, IsMsg
  <2>2. CallOf(b, msg) = BookTake(b, msg.order_reference_number, msg.cancelled_shares)
    BY <1>1, <1>4 DEF CallOf
  <2> QED
    BY <2>1, <2>2, TakeCall
<1>5. CASE tag = OrderDelete.TAG
  <2>1. CounterOf(msg) = "orders_deleted"
    BY <1>1, <1>5 DEF CounterOf
  <2>2. CallOf(b, msg) = BookDelete(b, msg.order_reference_number)
    BY <1>1, <1>5 DEF CallOf
  <2> QED
    BY <2>1, <2>2, DeleteCall
<1>6. CASE tag = OrderReplace.TAG
  <2>1. CounterOf(msg) = "orders_replaced" /\ msg.price \in Nat /\ msg.shares \in Nat
    BY <1>1, <1>6 DEF CounterOf, IsMsg
  <2>2. CallOf(b, msg) =
          BookReplace(b, msg.original_order_reference_number,
                      msg.new_order_reference_number, msg.price, msg.shares)
    BY <1>1, <1>6 DEF CallOf
  <2> QED
    BY <2>1, <2>2, ReplaceCall
<1> QED
  BY <1>1, <1>2, <1>3, <1>4, <1>5, <1>6 DEF OrderTags

\* The handler's state.
IsEntry(e) == e = [symbol |-> e.symbol, book |-> e.book] /\ IsBook(e.book)

\* The entries of a VecRegistry lie inside its Vecs.
IsRegistry(r) ==
    /\ r = [kind |-> r.kind, slots |-> r.slots, entries |-> r.entries]
    /\ r.slots \in Nat
    /\ \A l \in DOMAIN r.entries : IsEntry(r.entries[l])
    /\ r.kind = "vec" => DOMAIN r.entries \subseteq 0 .. r.slots - 1

IsHandler(h) ==
    /\ h = [registry |-> h.registry, stats |-> h.stats, tick |-> h.tick,
            panicked |-> h.panicked]
    /\ IsRegistry(h.registry)
    /\ h.stats \in [HandlerStats -> Nat]
    /\ h.tick \in 0 .. PollEvery - 1

\* The other locates and the Vecs are as they were.
Beside(r, s, l) ==
    /\ s.kind = r.kind /\ s.slots = r.slots
    /\ \A x \in Registered(r) : x # l => s.entries[x] = r.entries[x]

\* A book was written back.
Written(r, s, l, b) ==
    /\ Beside(r, s, l) /\ Registered(s) = Registered(r)
    /\ s.entries[l].symbol = r.entries[l].symbol /\ s.entries[l].book = b

\* A locate was registered.
Added(r, s, l, symbol) ==
    /\ Beside(r, s, l) /\ Registered(s) = Registered(r) \cup {l}
    /\ s.entries[l].symbol = symbol /\ s.entries[l].book = NoEntries

\* Nothing was.
SameBooks(r, s) ==
    /\ s.kind = r.kind /\ Registered(s) = Registered(r)
    /\ \A x \in Registered(r) : s.entries[x] = r.entries[x]

Counted(stats, counter) == [stats EXCEPT ![counter] = @ + 1]

\* A tick changes the tick.
LEMMA TickedForm ==
  ASSUME NEW h, IsHandler(h)
  PROVE  /\ IsHandler(Ticked(h)) /\ Ticked(h).registry = h.registry
         /\ Ticked(h).stats = h.stats /\ Ticked(h).panicked = h.panicked
<1>1. PICK t : t = (h.tick + 1) % PollEvery
  BY Zenon
<1>2. Ticked(h) = [registry |-> h.registry, stats |-> h.stats, tick |-> t,
                   panicked |-> h.panicked]
  BY <1>1 DEF Ticked, IsHandler
<1>3. t \in 0 .. PollEvery - 1
  <2>1. PollEvery \in Nat /\ PollEvery > 0 /\ h.tick \in Nat
    BY PollEveryAssumption DEF IsHandler
  <2> QED
    BY <1>1, <2>1
<1> QED
  BY <1>2, <1>3 DEF IsHandler

\* A count changes one counter.
LEMMA CountForm ==
  ASSUME NEW h, IsHandler(h), NEW c \in HandlerStats
  PROVE  /\ IsHandler(Count(h, c)) /\ Count(h, c).registry = h.registry
         /\ Count(h, c).stats = Counted(h.stats, c)
         /\ Count(h, c).panicked = h.panicked
<1>1. PICK stats : stats = Counted(h.stats, c)
  BY Zenon
<1>2. Count(h, c) = [registry |-> h.registry, stats |-> stats, tick |-> h.tick,
                     panicked |-> h.panicked]
  BY <1>1 DEF Count, IsHandler, Counted
<1>3. stats \in [HandlerStats -> Nat]
  BY <1>1 DEF IsHandler, Counted
<1> QED
  BY <1>1, <1>2, <1>3 DEF IsHandler

\* Writing a book back leaves locates and symbols alone.
LEMMA SetBookForm ==
  ASSUME NEW r, IsRegistry(r), NEW l \in Registered(r), NEW b, IsBook(b)
  PROVE  IsRegistry(SetBook(r, l, b)) /\ Written(r, SetBook(r, l, b), l, b)
<1>1. l \in DOMAIN r.entries /\ IsEntry(r.entries[l])
  BY DEF Registered, IsRegistry
<1>2. PICK e : e = [symbol |-> r.entries[l].symbol, book |-> b]
  BY Zenon
<1>3. IsEntry(e) /\ e.symbol = r.entries[l].symbol /\ e.book = b
  BY <1>2 DEF IsEntry
<1>4. [r.entries[l] EXCEPT !.book = b] = e
  BY <1>1, <1>2 DEF IsEntry
<1>5. PICK f : f = [r.entries EXCEPT ![l] = e]
  BY Zenon
<1>6. /\ DOMAIN f = DOMAIN r.entries /\ f[l] = e
      /\ \A x \in DOMAIN r.entries : x # l => f[x] = r.entries[x]
  BY <1>1, <1>5
<1>7. PICK s : s = SetBook(r, l, b)
  BY Zenon
<1>8. s = [kind |-> r.kind, slots |-> r.slots, entries |-> f]
  <2>1. s = [r EXCEPT !.entries = [r.entries EXCEPT ![l] = [r.entries[l] EXCEPT !.book = b]]]
    BY <1>7 DEF SetBook
  <2>2. s = [r EXCEPT !.entries = f]
    BY <1>4, <1>5, <2>1
  <2> QED
    BY <2>2 DEF IsRegistry
<1>9. s.kind = r.kind /\ s.slots = r.slots /\ s.entries = f
  BY <1>8
<1>10. IsRegistry(s)
  <2>1. \A x \in DOMAIN f : IsEntry(f[x])
    BY <1>3, <1>6 DEF IsRegistry
  <2>2. r.slots \in Nat /\ (r.kind = "vec" => DOMAIN f \subseteq 0 .. r.slots - 1)
    BY <1>6 DEF IsRegistry
  <2> QED
    BY <1>8, <1>9, <2>1, <2>2 DEF IsRegistry
<1>11. Written(r, s, l, b)
  BY <1>3, <1>6, <1>9 DEF Written, Beside, Registered
<1> QED
  BY <1>7, <1>10, <1>11

\* The callers of get_mut.
Effect(h, g, l, called, c) ==
    /\ IsHandler(g) /\ g.panicked = h.panicked
    /\ l \notin Registered(h.registry) =>
          g.registry = h.registry /\ g.stats = Counted(h.stats, "skipped_locate")
    /\ l \in Registered(h.registry) =>
          /\ Written(h.registry, g.registry, l, called.book)
          /\ called.ok => g.stats = Counted(h.stats, c)
          /\ ~called.ok => g.stats = h.stats

\* They write the book back and count the call, or count the skipped locate.
LEMMA WithBookForm ==
  ASSUME NEW h, IsHandler(h), NEW l, NEW called, NEW c \in HandlerStats,
         l \in Registered(h.registry) => IsBook(called.book)
  PROVE  Effect(h, WithBook(h, l, called, c), l, called, c)
<1>1. CASE l \notin Registered(h.registry)
  <2>1. "skipped_locate" \in HandlerStats
    BY DEF HandlerStats
  <2>2. PICK g : g = Count(h, "skipped_locate")
    BY Zenon
  <2>3. WithBook(h, l, called, c) = g
    BY <1>1, <2>2 DEF WithBook
  <2>4. /\ IsHandler(g) /\ g.registry = h.registry
        /\ g.stats = Counted(h.stats, "skipped_locate") /\ g.panicked = h.panicked
    BY <2>1, <2>2, CountForm
  <2> QED
    BY <1>1, <2>3, <2>4 DEF Effect
<1>2. CASE l \in Registered(h.registry)
  <2>1. PICK r : r = SetBook(h.registry, l, called.book)
    BY Zenon
  <2>2. IsRegistry(r) /\ Written(h.registry, r, l, called.book)
    BY <1>2, <2>1, SetBookForm DEF IsHandler
  <2>3. PICK k : k = [h EXCEPT !.registry = SetBook(@, l, called.book)]
    BY Zenon
  <2>4. k = [registry |-> r, stats |-> h.stats, tick |-> h.tick, panicked |-> h.panicked]
    BY <2>1, <2>3 DEF IsHandler
  <2>5. /\ IsHandler(k) /\ k.registry = r /\ k.stats = h.stats
        /\ k.panicked = h.panicked
    BY <2>2, <2>4 DEF IsHandler
  <2>6. WithBook(h, l, called, c) = IF called.ok THEN Count(k, c) ELSE k
    BY <1>2, <2>3, Zenon DEF WithBook
  <2>7. CASE called.ok
    <3>1. PICK g : g = Count(k, c) /\ g = WithBook(h, l, called, c)
      BY <2>6, <2>7
    <3>2. /\ IsHandler(g) /\ g.registry = r /\ g.stats = Counted(h.stats, c)
          /\ g.panicked = h.panicked
      BY <2>5, <3>1, CountForm
    <3> QED
      BY <1>2, <2>2, <2>7, <3>1, <3>2 DEF Effect
  <2>8. CASE ~called.ok
    <3>1. k = WithBook(h, l, called, c)
      BY <2>6, <2>8
    <3> QED
      BY <1>2, <2>2, <2>5, <2>8, <3>1 DEF Effect
  <2> QED
    BY <2>7, <2>8
<1> QED
  BY <1>1, <1>2

\* The callback for directory messages: it is counted, whether it registers,
\* panics or is ignored, and the resize of a register that panics drops nothing.
Registration(h, g, msg) ==
    /\ IsHandler(g) /\ g.stats = Counted(h.stats, "stock_directory_msgs")
    /\ ~Watched(msg.stock) => g.registry = h.registry /\ g.panicked = h.panicked
    /\ Watched(msg.stock) /\ RegisterPanics(h.registry, msg.stock_locate) =>
          g.panicked = TRUE /\ SameBooks(h.registry, g.registry)
    /\ Watched(msg.stock) /\ ~RegisterPanics(h.registry, msg.stock_locate) =>
          /\ g.panicked = h.panicked
          /\ Added(h.registry, g.registry, msg.stock_locate, msg.stock)

\* on_stock_directory is that callback.
LEMMA DirectoryForm ==
  ASSUME NEW h, IsHandler(h), NEW msg, IsMsg(msg)
  PROVE  Registration(h, on_stock_directory(h, msg), msg)
<1>1. PICK r, l, k, g : /\ r = h.registry /\ l = msg.stock_locate
                        /\ k = Count(h, "stock_directory_msgs")
                        /\ g = on_stock_directory(h, msg)
  BY Zenon
<1>2. "stock_directory_msgs" \in HandlerStats
  BY DEF HandlerStats
<1>3. /\ IsHandler(k) /\ k.registry = r /\ k.panicked = h.panicked
      /\ k.stats = Counted(h.stats, "stock_directory_msgs")
  BY <1>1, <1>2, CountForm
<1>4. IsRegistry(r) /\ r.slots \in Nat /\ l \in Nat
  BY <1>1 DEF IsHandler, IsRegistry, IsMsg
<1>5. CASE ~Watched(msg.stock)
  <2>1. g = k
    BY <1>1, <1>5 DEF on_stock_directory
  <2> QED
    BY <1>1, <1>3, <1>5, <2>1 DEF Registration
<1>6. CASE Watched(msg.stock) /\ RegisterPanics(r, l)
  <2>1. PICK s : s = Resize(r, l)
    BY Zenon
  <2>2. g = [registry |-> s, stats |-> k.stats, tick |-> k.tick, panicked |-> TRUE]
    <3>1. g = [k EXCEPT !.registry = Resize(@, l), !.panicked = TRUE]
      BY <1>1, <1>6 DEF on_stock_directory
    <3>2. g = [k EXCEPT !.registry = s, !.panicked = TRUE]
      BY <1>3, <2>1, <3>1
    <3>3. k = [registry |-> k.registry, stats |-> k.stats, tick |-> k.tick,
               panicked |-> k.panicked]
      BY <1>3 DEF IsHandler
    <3> QED
      BY ONLY <3>2, <3>3
  <2>3. PICK f : f = Restrict(r.entries, {x \in DOMAIN r.entries : x < l})
    BY Zenon
  <2>4. s.kind = r.kind /\ s.slots = l /\ s.entries = f
    <3>1. s = [r EXCEPT !.slots = l, !.entries = f]
      BY <2>1, <2>3 DEF Resize
    <3>2. r = [kind |-> r.kind, slots |-> r.slots, entries |-> r.entries]
      BY <1>4 DEF IsRegistry
    <3> QED
      BY ONLY <3>1, <3>2
  <2>5. s = [kind |-> r.kind, slots |-> l, entries |-> f]
    <3>1. s = [r EXCEPT !.slots = l, !.entries = f]
      BY <2>1, <2>3 DEF Resize
    <3>2. r = [kind |-> r.kind, slots |-> r.slots, entries |-> r.entries]
      BY <1>4 DEF IsRegistry
    <3>3. s = [x \in {"kind", "slots", "entries"} |-> s[x]]
      BY ONLY <3>1, <3>2
    <3>4. s = [kind |-> s.kind, slots |-> s.slots, entries |-> s.entries]
      BY ONLY <3>3
    <3> QED
      BY <2>4, <3>4
  <2>6. r.slots =< l /\ DOMAIN r.entries \subseteq 0 .. r.slots - 1 /\ r.kind = "vec"
    BY <1>4, <1>6 DEF RegisterPanics, IsRegistry
  <2>7. {x \in DOMAIN r.entries : x < l} = DOMAIN r.entries
    BY <1>4, <2>6
  <2>8. DOMAIN f = DOMAIN r.entries /\ \A x \in DOMAIN r.entries : f[x] = r.entries[x]
    BY <2>3, <2>7 DEF Restrict
  <2>9. IsRegistry(s)
    <3>1. \A x \in DOMAIN f : IsEntry(f[x])
      BY <1>4, <2>8 DEF IsRegistry
    <3>2. DOMAIN f \subseteq 0 .. l - 1
      BY <1>4, <2>6, <2>8
    <3> QED
      BY <1>4, <2>4, <2>5, <3>1, <3>2 DEF IsRegistry
  <2>10. SameBooks(r, s)
    BY <2>4, <2>8 DEF SameBooks, Registered
  <2>11. /\ g.registry = s /\ g.stats = k.stats /\ g.tick = k.tick /\ g.panicked = TRUE
    BY <2>2
  <2>12. IsHandler(g)
    BY <1>3, <2>2, <2>9, <2>11 DEF IsHandler
  <2> QED
    BY <1>1, <1>3, <1>6, <2>10, <2>11, <2>12 DEF Registration
<1>7. CASE Watched(msg.stock) /\ ~RegisterPanics(r, l)
  <2>1. PICK s, e : s = Register(r, l, msg.stock) /\ e = [symbol |-> msg.stock, book |-> NoEntries]
    BY Zenon
  <2>2. g = [registry |-> s, stats |-> k.stats, tick |-> k.tick, panicked |-> k.panicked]
    <3>1. g = [k EXCEPT !.registry = Register(@, l, msg.stock)]
      BY <1>1, <1>7 DEF on_stock_directory
    <3> QED
      BY <1>3, <2>1, <3>1 DEF IsHandler
  <2>3. PICK f : f = Insert(r.entries, l, e)
    BY Zenon
  <2>4. s = [kind |-> r.kind, slots |-> r.slots, entries |-> f]
    BY <1>4, <2>1, <2>3 DEF Register, IsRegistry
  <2>5. /\ DOMAIN f = DOMAIN r.entries \cup {l} /\ f[l] = e
        /\ \A x \in DOMAIN r.entries : x # l => f[x] = r.entries[x]
    BY <2>3 DEF Insert
  <2>6. IsEntry(e) /\ e.symbol = msg.stock /\ e.book = NoEntries
    <3>1. e.symbol = msg.stock /\ e.book = NoEntries
      BY <2>1
    <3>2. IsBook(NoEntries)
      BY DEF IsBook, NoEntries
    <3> QED
      BY <2>1, <3>1, <3>2 DEF IsEntry
  <2>7. s.kind = r.kind /\ s.slots = r.slots /\ s.entries = f
    BY <2>4
  <2>8. IsRegistry(s)
    <3>1. \A x \in DOMAIN f : IsEntry(f[x])
      BY <1>4, <2>5, <2>6 DEF IsRegistry
    <3>2. r.kind = "vec" => DOMAIN f \subseteq 0 .. r.slots - 1
      BY <1>4, <1>7, <2>5 DEF IsRegistry, RegisterPanics
    <3> QED
      BY <1>4, <2>4, <2>7, <3>1, <3>2 DEF IsRegistry
  <2>9. Added(r, s, l, msg.stock)
    BY <2>5, <2>6, <2>7 DEF Added, Beside, Registered
  <2>10. g.registry = s /\ g.stats = k.stats /\ g.tick = k.tick /\ g.panicked = k.panicked
    BY <2>2
  <2>11. IsHandler(g)
    BY <1>3, <2>2, <2>8, <2>10 DEF IsHandler
  <2> QED
    BY <1>1, <1>3, <1>7, <2>9, <2>10, <2>11 DEF Registration
<1> QED
  BY <1>1, <1>5, <1>6, <1>7

\* What a message does to the handler.
LEMMA ApplyForm ==
  ASSUME NEW h, IsHandler(h), NEW msg, IsMsg(msg), Handled(msg)
  PROVE  \/ /\ msg.tag = StockDirectory.TAG
            /\ Registration(h, Apply(h, msg), msg)
         \/ /\ msg.tag \in OrderTags
            /\ LET l == msg.stock_locate
                   b == BookOf(h, l)
               IN /\ Effect(h, Apply(h, msg), l, CallOf(b, msg), CounterOf(msg))
                  /\ l \in Registered(h.registry) => IsCall(b, CallOf(b, msg), CounterOf(msg))
<1>1. msg.tag = StockDirectory.TAG \/ msg.tag \in OrderTags
  BY DEF Handled, HandledTypes, OrderTags, AddTags, ExecutedTags
<1>2. CASE msg.tag = StockDirectory.TAG
  <2>1. Apply(h, msg) = on_stock_directory(h, msg)
    BY <1>2, TypeTags DEF Apply
  <2> QED
    BY <1>2, <2>1, DirectoryForm
<1>3. CASE msg.tag \in OrderTags
  <2>1. PICK l, b, called, c : /\ l = msg.stock_locate /\ b = BookOf(h, l)
                               /\ called = CallOf(b, msg) /\ c = CounterOf(msg)
    BY Zenon
  <2>2. Apply(h, msg) = WithBook(h, l, called, c)
    BY <1>3, <2>1, ApplyOrder
  <2>3. c \in HandlerStats
    BY <2>1 DEF CounterOf, HandlerStats
  <2>4. ASSUME l \in Registered(h.registry) PROVE IsCall(b, called, c)
    <3>1. IsBook(b)
      BY <2>1, <2>4 DEF BookOf, IsHandler, IsRegistry, IsEntry, Registered
    <3> QED
      BY <1>3, <2>1, <3>1, CallForm
  <2>5. Effect(h, Apply(h, msg), l, called, c)
    BY <2>2, <2>3, <2>4, WithBookForm DEF IsCall
  <2> QED
    BY <1>3, <2>1, <2>4, <2>5
<1> QED
  BY <1>1, <1>2, <1>3

-----------------------------------------------------------------------------
(* The handler's calls.                                                    *)

\* The frame at place n of the file says what the handler is called with.
Reported(f, n, msg) ==
    /\ n \in DOMAIN f /\ f[n].says # NoMessage
    /\ f[n].says.tag = msg.tag /\ f[n].says.stock_locate = msg.stock_locate
    /\ msg.tag = StockDirectory.TAG => f[n].says.stock = msg.stock

\* The calls of one turn of parse_stream's loop: none, none but for the tick,
\* the default callback, or one of the handler's, which may panic.
Ignores(msg) ==
    /\ ~Handled(msg)
    /\ handler' = handler /\ applied' = Append(applied, msg) /\ client' = "parsing"

Calls(msg) ==
    /\ Handled(msg)
    /\ handler' = Apply(Ticked(handler), msg)
    /\ handler'.panicked => client' = "panicked" /\ applied' = applied
    /\ ~handler'.panicked => client' = "parsing" /\ applied' = Append(applied, msg)

Turn ==
    \/ handler' = handler /\ applied' = applied /\ client' = "waiting"
    \/ handler' = Ticked(handler) /\ applied' = applied /\ client' = "waiting"
    \/ \E msg \in Msg :
          /\ IsMsg(msg)
          /\ \E n : Reported(file, n, msg)
          /\ Ignores(msg) \/ Calls(msg)

\* ParseMessage is such a turn.
LEMMA ParseTurn ==
  ASSUME Countable, FilesMeant, DispatchInv, ParseMessage
  PROVE  Turn
<1>1. client = "parsing"
  BY DEF ParseMessage
<1>2. /\ sent \in Seq(Packet) /\ batch \in Seq(Body) /\ file \in Files
      /\ received \in 0 .. Len(sent)
      /\ ParsingAt(file, sent, received, Len(applied), parser)
  BY <1>1 DEF DispatchInv, FramesInv, ClientInv
<1>3. Within(file, sent) /\ BodiesMean(file, sent)
  BY <1>2, PacketsFrom DEF DispatchInv
<1>4. ParsesNext(file, sent, received, Len(applied), parser)
  BY <1>2, <1>3, ParsingNext
<1>5. CASE parser = <<>>
  <2>1. handler' = handler /\ applied' = applied /\ client' = "waiting"
    BY <1>5 DEF ParseMessage, StopParsing
  <2> QED
    BY <2>1 DEF Turn
<1>6. CASE parser # <<>>
  <2>1. PICK body \in Body, left \in Seq(Byte) :
               /\ parse_one(parser) = [error |-> "None", body |-> body, rest |-> left]
               /\ Castable(body) => \E n : Saying(file, n, body)
    BY <1>4, <1>6, Zenon DEF ParsesNext
  <2>2. /\ parse_one(parser).error = "None" /\ parse_one(parser).body = body
        /\ parse_one(parser).rest = left
    BY <2>1
  <2>3. PICK msg : msg = cast(body)
    BY Zenon
  <2>4. \/ handler' = handler /\ applied' = applied /\ client' = "waiting"
        \/ handler' = Ticked(handler) /\ applied' = applied /\ client' = "waiting"
        \/ Castable(body) /\ (Ignores(msg) \/ Calls(msg))
    <3> DEFINE next == Apply(Ticked(handler), msg)
    <3>1. \/ handler' = handler /\ applied' = applied /\ client' = "waiting"
          \/ handler' = Ticked(handler) /\ applied' = applied /\ client' = "waiting"
          \/ /\ Castable(body) /\ ~Handled(msg)
             /\ handler' = handler /\ applied' = Append(applied, msg) /\ client' = client
          \/ /\ Castable(body) /\ Handled(msg) /\ handler' = next
             /\ client' = IF next.panicked THEN "panicked" ELSE "parsing"
             /\ applied' = IF next.panicked THEN applied ELSE Append(applied, msg)
      BY <1>6, <2>2, <2>3, Zenon DEF ParseMessage, StopParsing
    <3> HIDE DEF next
    <3>2. ASSUME Castable(body), Handled(msg), handler' = next,
                 client' = IF next.panicked THEN "panicked" ELSE "parsing",
                 applied' = IF next.panicked THEN applied ELSE Append(applied, msg)
          PROVE  Calls(msg)
      BY <3>2, Zenon DEF Calls, next
    <3> QED
      BY <1>1, <3>1, <3>2, Zenon DEF Ignores
  <2>5. ASSUME Castable(body)
        PROVE  IsMsg(msg) /\ msg \in Msg /\ \E n : Reported(file, n, msg)
    <3>1. IsMsg(msg)
      BY <2>1, <2>3, <2>5, MsgForm
    <3>2. msg \in Msg
      BY <2>1, <2>3, <2>5 DEF Msg
    <3>3. PICK n : Saying(file, n, body)
      BY <2>1, <2>5
    <3>4. PICK says : says = file[n].says
      BY Zenon
    <3>5. \A name \in DOMAIN says : msg[name] = says[name]
      BY <2>3, <3>3, <3>4 DEF Saying, Agrees
    <3>6. says.tag = msg.tag /\ says.stock_locate = msg.stock_locate
      BY <3>3, <3>4, <3>5 DEF Saying
    <3>7. ASSUME msg.tag = StockDirectory.TAG PROVE says.stock = msg.stock
      BY <3>3, <3>4, <3>5, <3>6, <3>7 DEF Saying
    <3>8. Reported(file, n, msg)
      BY <3>3, <3>4, <3>6, <3>7 DEF Saying, Reported
    <3> QED
      BY <3>1, <3>2, <3>8
  <2> QED
    BY <2>4, <2>5 DEF Turn
<1> QED
  BY <1>5, <1>6

-----------------------------------------------------------------------------
(* Types and panics.                                                       *)

\* A message of the file that registers locate u16::MAX.
PanicMeant(f) ==
    \E n \in DOMAIN f :
        /\ f[n].says # NoMessage
        /\ f[n].says.tag = StockDirectory.TAG
        /\ f[n].says.stock_locate >= MaxCapacity
        /\ Watched(f[n].says.stock)

\* The Vecs keep their length until the panic, and after it nothing is called.
HandlerInv ==
    /\ server \in {"reading", "done"}
    /\ client \in {"waiting", "parsing", "done", "panicked"}
    /\ shutdown \in BOOLEAN
    /\ IsHandler(handler)
    /\ handler.panicked \in BOOLEAN
    /\ handler.panicked => client = "panicked"
    /\ ~handler.panicked => handler.registry.slots = MaxCapacity
    /\ handler.panicked => handler.registry.kind = "vec" /\ PanicMeant(file)

\* A new handler.
LEMMA NewHandlerForm ==
  ASSUME NEW kind
  PROVE  /\ IsHandler(NewHandler(kind)) /\ NewHandler(kind).panicked = FALSE
         /\ NewHandler(kind).registry.slots = MaxCapacity
         /\ Registered(NewHandler(kind).registry) = {}
         /\ \A c \in HandlerStats : NewHandler(kind).stats[c] = 0
<1>1. PICK r, stats, h : /\ r = NewRegistry(kind) /\ stats = [s \in HandlerStats |-> 0]
                         /\ h = NewHandler(kind)
  BY Zenon
<1>2. r.kind = kind /\ r.slots = MaxCapacity /\ r.entries = NoEntries
  BY <1>1 DEF NewRegistry
<1>3. DOMAIN NoEntries = {}
  BY DEF NoEntries
<1>4. IsRegistry(r)
  <2>1. r = [kind |-> r.kind, slots |-> r.slots, entries |-> r.entries]
    BY <1>1, <1>2 DEF NewRegistry
  <2>2. r.slots \in Nat
    BY <1>2, MaxCapacityAssumption
  <2> QED
    BY <1>2, <1>3, <2>1, <2>2 DEF IsRegistry
<1>5. h = [registry |-> r, stats |-> stats, tick |-> 0, panicked |-> FALSE]
  BY <1>1 DEF NewHandler
<1>6. h.registry = r /\ h.stats = stats /\ h.tick = 0 /\ h.panicked = FALSE
  BY <1>5
<1>7. 0 \in 0 .. PollEvery - 1
  BY PollEveryAssumption
<1>8. stats \in [HandlerStats -> Nat] /\ \A c \in HandlerStats : stats[c] = 0
  BY <1>1
<1>9. IsHandler(h)
  BY <1>4, <1>5, <1>6, <1>7, <1>8 DEF IsHandler
<1> QED
  BY <1>1, <1>2, <1>3, <1>6, <1>8, <1>9 DEF Registered

\* What one call does to the Vecs and to the panic flag.
LEMMA CalledForm ==
  ASSUME NEW h, IsHandler(h), NEW msg, IsMsg(msg), Handled(msg), h.panicked = FALSE
  PROVE  LET g == Apply(h, msg) IN
         /\ IsHandler(g) /\ g.panicked \in BOOLEAN /\ g.registry.kind = h.registry.kind
         /\ ~g.panicked => g.registry.slots = h.registry.slots
         /\ g.panicked => /\ msg.tag = StockDirectory.TAG /\ Watched(msg.stock)
                          /\ RegisterPanics(h.registry, msg.stock_locate)
<1>1. PICK g, l, called, c :
         /\ g = Apply(h, msg) /\ l = msg.stock_locate
         /\ called = CallOf(BookOf(h, l), msg) /\ c = CounterOf(msg)
  BY Zenon
<1>2. \/ msg.tag = StockDirectory.TAG /\ Registration(h, g, msg)
      \/ Effect(h, g, l, called, c)
  BY <1>1, ApplyForm
<1>3. CASE msg.tag = StockDirectory.TAG /\ Registration(h, g, msg)
  BY <1>1, <1>3 DEF Registration, SameBooks, Added, Beside
<1>4. CASE Effect(h, g, l, called, c)
  BY <1>1, <1>4 DEF Effect, Written, Beside
<1> QED
  BY <1>1, <1>2, <1>3, <1>4

\* The invariant holds at the start.
LEMMA HandlerInit ==
  ASSUME Init
  PROVE  HandlerInv
<1>1. PICK kind \in Kinds : handler = NewHandler(kind)
  BY DEF Init
<1> QED
  BY <1>1, NewHandlerForm DEF Init, HandlerInv

\* Every turn of the parser keeps it.
LEMMA HandlerTurn ==
  ASSUME HandlerInv, client = "parsing", Turn, UNCHANGED <<file, server, shutdown>>
  PROVE  HandlerInv'
<1>1. /\ IsHandler(handler) /\ handler.panicked = FALSE
      /\ handler.registry.slots = MaxCapacity
  BY DEF HandlerInv
<1>2. PICK h : h = Ticked(handler)
  BY Zenon
<1>3. IsHandler(h) /\ h.registry = handler.registry /\ h.panicked = FALSE
  BY <1>1, <1>2, TickedForm
<1>4. ASSUME handler' = handler \/ handler' = h, client' \in {"waiting", "parsing"}
      PROVE  HandlerInv'
  <2>1. /\ IsHandler(handler') /\ handler'.panicked = FALSE
        /\ handler'.registry.slots = MaxCapacity
    BY <1>1, <1>3, <1>4
  <2> QED
    BY <1>4, <2>1 DEF HandlerInv
<1>5. ASSUME NEW msg, NEW n, IsMsg(msg), Reported(file, n, msg), Calls(msg)
      PROVE  HandlerInv'
  <2>1. PICK g : g = Apply(h, msg)
    BY Zenon
  <2>2. /\ IsHandler(g) /\ g.panicked \in BOOLEAN /\ g.registry.kind = h.registry.kind
        /\ ~g.panicked => g.registry.slots = h.registry.slots
        /\ g.panicked => /\ msg.tag = StockDirectory.TAG /\ Watched(msg.stock)
                         /\ RegisterPanics(h.registry, msg.stock_locate)
    BY <1>3, <1>5, <2>1, CalledForm DEF Calls
  <2>3. /\ handler' = g
        /\ g.panicked => client' = "panicked"
        /\ ~g.panicked => client' = "parsing"
    BY <1>2, <1>5, <2>1 DEF Calls
  <2>4. ASSUME g.panicked PROVE g.registry.kind = "vec" /\ PanicMeant(file)
    <3>1. h.registry.kind = "vec" /\ msg.stock_locate >= MaxCapacity
      BY <1>1, <1>3, <2>2, <2>4 DEF RegisterPanics
    <3> QED
      BY <1>5, <2>2, <2>4, <3>1 DEF Reported, PanicMeant
  <2>5. ~g.panicked => g.registry.slots = MaxCapacity
    BY <1>1, <1>3, <2>2
  <2> QED
    BY <2>2, <2>3, <2>4, <2>5 DEF HandlerInv
<1> QED
  BY <1>2, <1>4, <1>5 DEF Turn, Ignores

\* Every step does.
LEMMA HandlerNext ==
  ASSUME Countable, FilesMeant, DispatchInv, HandlerInv, [Next]_vars
  PROVE  HandlerInv'
<1>1. CASE ReadMessage
  BY <1>1 DEF ReadMessage, clientVars, HandlerInv
<1>2. CASE StopReading
  BY <1>2 DEF StopReading, clientVars, HandlerInv
<1>3. CASE Receive
  <2>1. ~handler.panicked /\ client' \in {"done", "parsing"}
    BY <1>3 DEF Receive, HandlerInv
  <2> QED
    BY <1>3, <2>1 DEF Receive, serverVars, HandlerInv
<1>4. CASE ReceiveTimeout
  BY <1>4 DEF ReceiveTimeout, serverVars, HandlerInv
<1>5. CASE ParseMessage
  <2>1. client = "parsing" /\ UNCHANGED <<file, server, shutdown>>
    BY <1>5 DEF ParseMessage, serverVars
  <2> QED
    BY <1>5, <2>1, ParseTurn, HandlerTurn
<1>6. CASE RaiseShutdown
  BY <1>6 DEF RaiseShutdown, serverVars, clientVars, HandlerInv
<1>7. CASE UNCHANGED vars
  BY <1>7 DEF vars, serverVars, clientVars, HandlerInv
<1> QED
  BY <1>1, <1>2, <1>3, <1>4, <1>5, <1>6, <1>7 DEF Next

\* Both invariants.
LEMMA HandlerAlways ==
  ASSUME Countable, FilesMeant
  PROVE  Spec => [](DispatchInv /\ HandlerInv)
<1>1. Init => DispatchInv /\ HandlerInv
  BY DispatchInit, HandlerInit
<1>2. DispatchInv /\ HandlerInv /\ [Next]_vars => DispatchInv' /\ HandlerInv'
  BY DispatchNext, HandlerNext
<1> QED
  BY <1>1, <1>2, PTL DEF Spec

\* The types of both loops and of the handler: orders keep ids, sides, prices
\* and quantities that orders have, counters count, and a batch stays below the
\* size that flushes it.
THEOREM ReplayTypeCorrect ==
  ASSUME Countable, FilesMeant
  PROVE  Spec => []ReplayTypeOK
<1>1. DispatchInv /\ HandlerInv => ReplayTypeOK
  <2> SUFFICES ASSUME DispatchInv, HandlerInv PROVE ReplayTypeOK
    OBVIOUS
  <2>1. /\ next_flush \in 1 .. MaxMsgs /\ received \in 0 .. Len(sent)
        /\ Len(batch) < next_flush \/ batch = <<>>
    BY DEF DispatchInv, FramesInv, ClientInv
  <2>2. /\ server \in {"reading", "done"} /\ shutdown \in BOOLEAN
        /\ client \in {"waiting", "parsing", "done", "panicked"}
        /\ IsHandler(handler)
    BY DEF HandlerInv
  <2>3. /\ handler.tick \in 0 .. PollEvery - 1
        /\ \A s \in HandlerStats : handler.stats[s] \in Nat
    BY <2>2 DEF IsHandler
  <2>4. ASSUME NEW l \in Registered(handler.registry)
        PROVE  IsBookMap(handler.registry.entries[l].book)
    <3>1. IsBook(handler.registry.entries[l].book)
      BY <2>2 DEF IsHandler, IsRegistry, IsEntry, Registered
    <3> QED
      BY <3>1 DEF IsBook, IsOrder, IsBookMap
  <2> QED
    BY <2>1, <2>2, <2>3, <2>4 DEF ReplayTypeOK
<1> QED
  BY <1>1, HandlerAlways, PTL

\* The client thread panics only in VecRegistry::register, on a directory
\* message for a locate that has no entry in the Vecs.
THEOREM PanicsExplainedHolds ==
  ASSUME Countable, FilesMeant
  PROVE  Spec => []PanicsExplained
<1>1. HandlerInv => PanicsExplained
  BY DEF HandlerInv, PanicMeant, PanicsExplained
<1> QED
  BY <1>1, HandlerAlways, PTL

-----------------------------------------------------------------------------
(* What the messages of a locate make of an empty book.                    *)

OnLocate(b, msg, l) == IF msg.stock_locate = l THEN OnBook(b, msg) ELSE b

\* f[k] is the book after message number k.
IsBuilt(f, msgs, l, m, n) ==
    /\ f[m] = NoEntries
    /\ \A k \in m + 1 .. n : f[k] = OnLocate(f[k - 1], msgs[k], l)

\* One more message.
LEMMA BuiltNext ==
  ASSUME NEW f, NEW msgs, NEW new, NEW l, NEW m \in Nat, NEW n \in Nat, m =< n,
         IsBuilt(f, msgs, l, m, n), \A k \in 1 .. n : new[k] = msgs[k]
  PROVE  \E g : IsBuilt(g, new, l, m, n + 1) /\ g[n] = f[n]
<1> DEFINE g == [k \in m .. n + 1 |-> IF k = n + 1 THEN OnLocate(f[n], new[n + 1], l)
                                      ELSE f[k]]
<1>1. g[m] = NoEntries
  BY DEF IsBuilt
<1>2. ASSUME NEW k \in m + 1 .. n + 1 PROVE g[k] = OnLocate(g[k - 1], new[k], l)
  <2>1. k \in m .. n + 1 /\ k - 1 \in m .. n + 1 /\ k - 1 # n + 1
    OBVIOUS
  <2>2. g[k - 1] = f[k - 1]
    BY <2>1
  <2>3. CASE k = n + 1
    <3>1. k - 1 = n
      BY <2>3
    <3>2. g[k] = OnLocate(f[n], new[n + 1], l)
      BY <2>1, <2>3
    <3> QED
      BY <2>2, <2>3, <3>1, <3>2
  <2>4. CASE k # n + 1
    <3>1. k \in m + 1 .. n /\ k \in 1 .. n
      BY <2>4
    <3>2. g[k] = f[k]
      BY <2>1, <2>4
    <3>3. f[k] = OnLocate(f[k - 1], msgs[k], l) /\ new[k] = msgs[k]
      BY <3>1 DEF IsBuilt
    <3> QED
      BY <2>2, <3>2, <3>3, Zenon
  <2> QED
    BY <2>3, <2>4
<1>3. g[n] = f[n]
  OBVIOUS
<1> HIDE DEF g
<1> QED
  BY <1>1, <1>2, <1>3 DEF IsBuilt

\* There is such a function.
LEMMA BuiltExists ==
  ASSUME NEW msgs, NEW l, NEW m \in Nat, NEW n \in Nat, m =< n
  PROVE  \E f : IsBuilt(f, msgs, l, m, n)
<1> DEFINE S == {d \in 0 .. n - m : \E f : IsBuilt(f, msgs, l, m, m + d)}
<1>1. 0 \in S
  <2> DEFINE f == [k \in {m} |-> NoEntries]
  <2>1. IsBuilt(f, msgs, l, m, m + 0)
    BY DEF IsBuilt
  <2> QED
    BY <2>1
<1>2. ASSUME NEW d \in 1 .. n - m, d - 1 \in S PROVE d \in S
  <2>1. PICK f : IsBuilt(f, msgs, l, m, m + (d - 1))
    BY <1>2
  <2>2. PICK x \in Nat : x = m + (d - 1)
    OBVIOUS
  <2>3. m =< x /\ x + 1 = m + d
    BY <2>2
  <2>4. PICK g : IsBuilt(g, msgs, l, m, x + 1)
    BY <2>1, <2>2, <2>3, BuiltNext
  <2> QED
    BY <2>3, <2>4
<1>3. n - m \in Nat /\ n - m \in 0 .. n - m /\ m + (n - m) = n
  OBVIOUS
<1>4. \A d \in 0 .. n - m : d \in S
  <2> HIDE DEF S
  <2> QED
    BY <1>1, <1>2, <1>3, InductionUpTo
<1> QED
  BY <1>3, <1>4

\* BookSince is where it ends.
LEMMA BuiltUnique ==
  ASSUME NEW msgs, Len(msgs) \in Nat, NEW l, NEW m \in 0 .. Len(msgs), NEW f,
         IsBuilt(f, msgs, l, m, Len(msgs))
  PROVE  BookSince(msgs, l, m) = f[Len(msgs)]
<1> DEFINE Iter(h) == h = [n \in m .. Len(msgs) |->
                             IF n = m THEN NoEntries
                             ELSE IF msgs[n].stock_locate = l
                                  THEN OnBook(h[n - 1], msgs[n])
                                  ELSE h[n - 1]]
           g == CHOOSE h : Iter(h)
           a == [n \in m .. Len(msgs) |-> f[n]]
<1>1. ASSUME NEW n \in m + 1 .. Len(msgs)
      PROVE  /\ n \in m .. Len(msgs) /\ n - 1 \in m .. Len(msgs) /\ n # m
             /\ f[n] = IF msgs[n].stock_locate = l THEN OnBook(f[n - 1], msgs[n])
                       ELSE f[n - 1]
  <2>1. n \in m .. Len(msgs) /\ n - 1 \in m .. Len(msgs) /\ n # m
    OBVIOUS
  <2>2. f[n] = OnLocate(f[n - 1], msgs[n], l)
    BY DEF IsBuilt
  <2> QED
    BY <2>1, <2>2, Zenon DEF OnLocate
<1>2. f[m] = NoEntries
  BY DEF IsBuilt
<1>3. ASSUME NEW n \in m .. Len(msgs)
      PROVE  a[n] = IF n = m THEN NoEntries
                    ELSE IF msgs[n].stock_locate = l THEN OnBook(a[n - 1], msgs[n])
                    ELSE a[n - 1]
  <2>1. CASE n = m
    BY <1>2, <2>1, Zenon
  <2>2. CASE n # m
    <3>1. n \in m + 1 .. Len(msgs)
      BY <2>2
    <3>2. a[n] = f[n] /\ a[n - 1] = f[n - 1]
      BY <1>1, <3>1, Zenon
    <3> HIDE DEF a
    <3> QED
      BY <1>1, <2>2, <3>1, <3>2, Zenon
  <2> QED
    BY <2>1, <2>2
<1>4. Iter(a)
  BY <1>3, Zenon
<1>5. Iter(g)
  <2>1. \E h : Iter(h)
    BY <1>4, Zenon
  <2> QED
    BY <2>1, Zenon
<1>6. BookSince(msgs, l, m) = g[Len(msgs)]
  BY Zenon DEF BookSince
<1> HIDE DEF g
<1>7. g[m] = f[m]
  <2>1. m \in m .. Len(msgs)
    OBVIOUS
  <2> QED
    BY <1>2, <1>5, <2>1, Zenon
<1>8. ASSUME NEW n \in m + 1 .. Len(msgs), g[n - 1] = f[n - 1] PROVE g[n] = f[n]
  <2>1. g[n] = IF msgs[n].stock_locate = l THEN OnBook(g[n - 1], msgs[n]) ELSE g[n - 1]
    BY <1>1, <1>5, Zenon
  <2> QED
    BY <1>1, <1>8, <2>1, Zenon
<1> HIDE DEF Iter
<1> DEFINE S == {d \in 0 .. Len(msgs) - m : g[m + d] = f[m + d]}
<1>9. 0 \in S
  BY <1>7
<1>10. ASSUME NEW d \in 1 .. Len(msgs) - m, d - 1 \in S PROVE d \in S
  <2>1. PICK n \in Int : n = m + d
    OBVIOUS
  <2>2. n \in m + 1 .. Len(msgs) /\ n - 1 = m + (d - 1)
    BY <2>1
  <2>3. g[m + (d - 1)] = f[m + (d - 1)]
    BY <1>10
  <2>4. g[n - 1] = f[n - 1]
    BY <2>2, <2>3
  <2>5. g[n] = f[n]
    BY <1>8, <2>2, <2>4
  <2> QED
    BY <2>1, <2>5
<1>11. /\ Len(msgs) - m \in Nat /\ Len(msgs) - m \in 0 .. Len(msgs) - m
       /\ m + (Len(msgs) - m) = Len(msgs)
  OBVIOUS
<1>12. \A d \in 0 .. Len(msgs) - m : d \in S
  <2> HIDE DEF S
  <2> QED
    BY <1>9, <1>10, <1>11, InductionUpTo
<1>13. g[m + (Len(msgs) - m)] = f[m + (Len(msgs) - m)]
  BY <1>11, <1>12
<1> QED
  BY <1>6, <1>11, <1>13

\* Just after its directory message, a book is empty.
LEMMA BookSinceEmpty ==
  ASSUME NEW msgs, Len(msgs) \in Nat, NEW l
  PROVE  BookSince(msgs, l, Len(msgs)) = NoEntries
<1>1. PICK n \in Nat : n = Len(msgs)
  OBVIOUS
<1>2. n \in 0 .. n /\ n =< n
  OBVIOUS
<1>3. PICK f : IsBuilt(f, msgs, l, n, n)
  BY <1>2, BuiltExists
<1> QED
  BY <1>1, <1>2, <1>3, BuiltUnique DEF IsBuilt

\* One more message, on the book of its locate and on no other.
LEMMA BookSinceNext ==
  ASSUME NEW S, NEW msgs \in Seq(S), NEW msg \in S, NEW l, NEW m \in 0 .. Len(msgs)
  PROVE  BookSince(Append(msgs, msg), l, m) = OnLocate(BookSince(msgs, l, m), msg, l)
<1>1. PICK n \in Nat : n = Len(msgs)
  OBVIOUS
<1>a. m \in Nat /\ m =< n
  BY <1>1
<1>2. PICK new : new = Append(msgs, msg)
  BY Zenon
<1>3. Len(new) = n + 1 /\ new[n + 1] = msg /\ \A k \in 1 .. n : new[k] = msgs[k]
  BY <1>1, <1>2
<1>4. PICK f : IsBuilt(f, msgs, l, m, n)
  BY <1>a, BuiltExists
<1>5. BookSince(msgs, l, m) = f[n]
  BY <1>1, <1>4, BuiltUnique
<1>6. PICK g : IsBuilt(g, new, l, m, n + 1) /\ g[n] = f[n]
  BY <1>a, <1>3, <1>4, BuiltNext
<1>7. BookSince(new, l, m) = g[n + 1]
  <2>1. Len(new) \in Nat /\ m \in 0 .. Len(new)
    BY <1>1, <1>3
  <2>2. IsBuilt(g, new, l, m, Len(new))
    BY <1>3, <1>6
  <2>3. BookSince(new, l, m) = g[Len(new)]
    BY <2>1, <2>2, BuiltUnique
  <2> QED
    BY <1>3, <2>3
<1>8. n + 1 \in m + 1 .. n + 1 /\ n + 1 - 1 = n
  BY <1>1
<1>9. g[n + 1] = OnLocate(g[n + 1 - 1], new[n + 1], l)
  BY <1>6, <1>8 DEF IsBuilt
<1> QED
  BY <1>2, <1>3, <1>5, <1>6, <1>7, <1>8, <1>9

-----------------------------------------------------------------------------
(* Books and the feed.                                                     *)

IsDirectory(msg, l) ==
    msg.tag = StockDirectory.TAG /\ msg.stock_locate = l /\ Watched(msg.stock)

IsLastDirectory(msgs, l, last) ==
    /\ IsDirectory(msgs[last], l)
    /\ \A n \in last + 1 .. Len(msgs) : ~IsDirectory(msgs[n], l)

\* Every locate is as its messages have left it.
FollowsAt(r, msgs, l) ==
    /\ l \in Registered(r) <=> \E n \in 1 .. Len(msgs) : IsDirectory(msgs[n], l)
    /\ \A last \in 1 .. Len(msgs) :
          IsLastDirectory(msgs, l, last) =>
             /\ r.entries[l].symbol = msgs[last].stock
             /\ r.entries[l].book = BookSince(msgs, l, last)

Follows(r, msgs) == \A l : FollowsAt(r, msgs, l)

\* A message that registers nothing was applied to the book of its locate.
Stepped(r, s, msg) ==
    /\ Registered(s) = Registered(r)
    /\ \A l \in Registered(r) :
          /\ s.entries[l].symbol = r.entries[l].symbol
          /\ s.entries[l].book = OnLocate(r.entries[l].book, msg, l)

\* Directory messages of a locate before and after one more message.
LEMMA DirectoryNext ==
  ASSUME NEW S, NEW msgs \in Seq(S), NEW msg \in S, NEW l
  PROVE  LET n == Len(msgs)
             new == Append(msgs, msg)
         IN /\ n \in Nat /\ Len(new) = n + 1 /\ new[n + 1] = msg
            /\ \A k \in 1 .. n : new[k] = msgs[k]
            /\ ~IsDirectory(msg, l) =>
                  /\ (\E k \in 1 .. n + 1 : IsDirectory(new[k], l))
                     <=> (\E k \in 1 .. n : IsDirectory(msgs[k], l))
                  /\ \A last \in 1 .. n + 1 : IsLastDirectory(new, l, last) =>
                        last \in 1 .. n /\ IsLastDirectory(msgs, l, last)
            /\ IsDirectory(msg, l) =>
                  \A last \in 1 .. n + 1 : IsLastDirectory(new, l, last) => last = n + 1
<1>a. PICK n \in Nat : n = Len(msgs)
  OBVIOUS
<1>b. PICK new : new = Append(msgs, msg)
  BY Zenon
<1>1. n = Len(msgs) /\ new = Append(msgs, msg)
  BY <1>a, <1>b
<1>2. Len(new) = n + 1 /\ new[n + 1] = msg /\ \A k \in 1 .. n : new[k] = msgs[k]
  BY <1>1
<1>3. ASSUME ~IsDirectory(msg, l)
      PROVE  (\E k \in 1 .. n + 1 : IsDirectory(new[k], l))
             <=> (\E k \in 1 .. n : IsDirectory(msgs[k], l))
  BY <1>2, <1>3
<1>4. ASSUME ~IsDirectory(msg, l), NEW last \in 1 .. n + 1, IsLastDirectory(new, l, last)
      PROVE  last \in 1 .. n /\ IsLastDirectory(msgs, l, last)
  <2>1. IsDirectory(new[last], l) /\ \A k \in last + 1 .. n + 1 : ~IsDirectory(new[k], l)
    BY <1>2, <1>4 DEF IsLastDirectory
  <2>2. last # n + 1
    BY <1>2, <1>4, <2>1
  <2>3. last \in 1 .. n
    BY <2>2
  <2>4. ASSUME NEW k \in last + 1 .. n PROVE ~IsDirectory(msgs[k], l)
    <3>1. k \in last + 1 .. n + 1 /\ k \in 1 .. n
      BY <2>3
    <3> QED
      BY <1>2, <2>1, <3>1
  <2> QED
    BY <1>1, <1>2, <2>1, <2>3, <2>4 DEF IsLastDirectory
<1>5. ASSUME IsDirectory(msg, l), NEW last \in 1 .. n + 1, IsLastDirectory(new, l, last)
      PROVE  last = n + 1
  <2>1. \A k \in last + 1 .. n + 1 : ~IsDirectory(new[k], l)
    BY <1>2, <1>5 DEF IsLastDirectory
  <2> QED
    BY <1>2, <1>5, <2>1
<1> QED
  BY <1>1, <1>2, <1>3, <1>4, <1>5

\* A message that registers nothing.
LEMMA FollowsStepped ==
  ASSUME NEW S, NEW msgs \in Seq(S), NEW msg \in S, NEW r, NEW s,
         Follows(r, msgs), Stepped(r, s, msg), \A l : ~IsDirectory(msg, l)
  PROVE  Follows(s, Append(msgs, msg))
<1>a. PICK n \in Nat : n = Len(msgs)
  OBVIOUS
<1>b. PICK new : new = Append(msgs, msg)
  BY Zenon
<1>1. n = Len(msgs) /\ new = Append(msgs, msg)
  BY <1>a, <1>b
<1> SUFFICES ASSUME NEW l PROVE FollowsAt(s, new, l)
  BY <1>1 DEF Follows
<1>2. /\ Len(new) = n + 1 /\ new[n + 1] = msg
      /\ \A k \in 1 .. n : new[k] = msgs[k]
      /\ (\E k \in 1 .. n + 1 : IsDirectory(new[k], l))
         <=> (\E k \in 1 .. n : IsDirectory(msgs[k], l))
      /\ \A last \in 1 .. n + 1 : IsLastDirectory(new, l, last) =>
            last \in 1 .. n /\ IsLastDirectory(msgs, l, last)
  BY <1>1, DirectoryNext, SMTT(20)
<1>3. FollowsAt(r, msgs, l)
  BY DEF Follows
<1>4. l \in Registered(s) <=> \E k \in 1 .. Len(new) : IsDirectory(new[k], l)
  BY <1>1, <1>2, <1>3 DEF FollowsAt, Stepped
<1>5. ASSUME NEW last \in 1 .. Len(new), IsLastDirectory(new, l, last)
      PROVE  /\ s.entries[l].symbol = new[last].stock
             /\ s.entries[l].book = BookSince(new, l, last)
  <2>1. last \in 1 .. n /\ IsLastDirectory(msgs, l, last) /\ new[last] = msgs[last]
    BY <1>2, <1>5
  <2>2. l \in Registered(r)
    BY <1>1, <1>3, <2>1 DEF FollowsAt, IsLastDirectory
  <2>3. /\ r.entries[l].symbol = msgs[last].stock
        /\ r.entries[l].book = BookSince(msgs, l, last)
    BY <1>1, <1>3, <2>1 DEF FollowsAt
  <2>4. /\ s.entries[l].symbol = r.entries[l].symbol
        /\ s.entries[l].book = OnLocate(r.entries[l].book, msg, l)
    BY <2>2 DEF Stepped
  <2>5. last \in 0 .. Len(msgs)
    BY <1>1, <2>1
  <2>6. BookSince(new, l, last) = OnLocate(BookSince(msgs, l, last), msg, l)
    BY <1>1, <2>5, BookSinceNext
  <2> QED
    BY <2>1, <2>3, <2>4, <2>6
<1> QED
  BY <1>4, <1>5 DEF FollowsAt

\* A message that registers a locate.
LEMMA FollowsAdded ==
  ASSUME NEW S, NEW msgs \in Seq(S), NEW msg \in S, NEW r, NEW s, NEW l,
         Follows(r, msgs), IsDirectory(msg, l), Added(r, s, l, msg.stock)
  PROVE  Follows(s, Append(msgs, msg))
<1>a. PICK n \in Nat : n = Len(msgs)
  OBVIOUS
<1>b. PICK new : new = Append(msgs, msg)
  BY Zenon
<1>1. n = Len(msgs) /\ new = Append(msgs, msg)
  BY <1>a, <1>b
<1> SUFFICES ASSUME NEW x PROVE FollowsAt(s, new, x)
  BY <1>1 DEF Follows
<1>2. /\ Len(new) = n + 1 /\ new[n + 1] = msg
      /\ \A k \in 1 .. n : new[k] = msgs[k]
  BY <1>1, DirectoryNext, SMTT(20)
<1>3. FollowsAt(r, msgs, x)
  BY DEF Follows
<1>4. CASE x = l
  <2>1. l \in Registered(s) /\ n + 1 \in 1 .. Len(new) /\ IsDirectory(new[n + 1], l)
    BY <1>2 DEF Added
  <2>2. ASSUME NEW last \in 1 .. Len(new), IsLastDirectory(new, l, last)
        PROVE  /\ s.entries[l].symbol = new[last].stock
               /\ s.entries[l].book = BookSince(new, l, last)
    <3>1. last = n + 1
      BY <1>1, <1>2, <2>2, DirectoryNext
    <3>2. BookSince(new, l, n + 1) = NoEntries
      <4>1. Len(new) \in Nat
        BY <1>2
      <4>2. BookSince(new, l, Len(new)) = NoEntries
        BY <4>1, BookSinceEmpty
      <4> QED
        BY <1>2, <4>2
    <3> QED
      BY <1>2, <3>1, <3>2 DEF Added
  <2> QED
    BY <1>4, <2>1, <2>2 DEF FollowsAt
<1>5. CASE x # l
  <2>1. ~IsDirectory(msg, x) /\ msg.stock_locate # x
    BY <1>5 DEF IsDirectory
  <2>2. /\ (\E k \in 1 .. n + 1 : IsDirectory(new[k], x))
           <=> (\E k \in 1 .. n : IsDirectory(msgs[k], x))
        /\ \A last \in 1 .. n + 1 : IsLastDirectory(new, x, last) =>
              last \in 1 .. n /\ IsLastDirectory(msgs, x, last)
    BY <1>1, <2>1, DirectoryNext
  <2>3. x \in Registered(s) <=> \E k \in 1 .. Len(new) : IsDirectory(new[k], x)
    BY <1>1, <1>2, <1>3, <1>5, <2>2 DEF FollowsAt, Added
  <2>4. ASSUME NEW last \in 1 .. Len(new), IsLastDirectory(new, x, last)
        PROVE  /\ s.entries[x].symbol = new[last].stock
               /\ s.entries[x].book = BookSince(new, x, last)
    <3>1. last \in 1 .. n /\ IsLastDirectory(msgs, x, last) /\ new[last] = msgs[last]
      BY <1>2, <2>2, <2>4
    <3>2. x \in Registered(r)
      BY <1>1, <1>3, <3>1 DEF FollowsAt, IsLastDirectory
    <3>3. /\ r.entries[x].symbol = msgs[last].stock
          /\ r.entries[x].book = BookSince(msgs, x, last)
      BY <1>1, <1>3, <3>1 DEF FollowsAt
    <3>4. s.entries[x] = r.entries[x]
      BY <1>5, <3>2 DEF Added, Beside
    <3>5. last \in 0 .. Len(msgs)
      BY <1>1, <3>1
    <3>6. BookSince(new, x, last) = OnLocate(BookSince(msgs, x, last), msg, x)
      BY <1>1, <3>5, BookSinceNext
    <3>7. BookSince(new, x, last) = BookSince(msgs, x, last)
      BY <2>1, <3>6, Zenon DEF OnLocate
    <3> QED
      BY <3>1, <3>3, <3>4, <3>7
  <2> QED
    BY <2>3, <2>4 DEF FollowsAt
<1> QED
  BY <1>4, <1>5

\* A call that registers nothing.
LEMMA FollowsSame ==
  ASSUME NEW r, NEW s, NEW msgs, Follows(r, msgs), SameBooks(r, s)
  PROVE  Follows(s, msgs)
<1> SUFFICES ASSUME NEW l PROVE FollowsAt(s, msgs, l)
  BY DEF Follows
<1>1. FollowsAt(r, msgs, l)
  BY DEF Follows
<1>2. /\ l \in Registered(s) <=> l \in Registered(r)
      /\ l \in Registered(r) => s.entries[l] = r.entries[l]
  BY DEF SameBooks
<1> QED
  BY <1>1, <1>2 DEF FollowsAt, IsLastDirectory

\* What a message that leaves the registry alone does.
LEMMA SteppedSame ==
  ASSUME NEW r, NEW msg, msg.tag \notin OrderTags \/ msg.stock_locate \notin Registered(r)
  PROVE  Stepped(r, r, msg)
<1>1. ASSUME NEW l \in Registered(r)
      PROVE  OnLocate(r.entries[l].book, msg, l) = r.entries[l].book
  <2>1. CASE msg.stock_locate = l
    BY <2>1, OnBookForm DEF OnLocate
  <2>2. CASE msg.stock_locate # l
    BY <2>2, Zenon DEF OnLocate
  <2> QED
    BY <2>1, <2>2
<1> QED
  BY <1>1 DEF Stepped

\* What a call on a book does.
LEMMA SteppedWritten ==
  ASSUME NEW r, NEW s, NEW msg, msg.tag \in OrderTags,
         Written(r, s, msg.stock_locate,
                 CallOf(r.entries[msg.stock_locate].book, msg).book)
  PROVE  Stepped(r, s, msg)
<1>1. PICK l : l = msg.stock_locate
  BY Zenon
<1>2. Written(r, s, l, CallOf(r.entries[l].book, msg).book)
  BY <1>1
<1>3. s.entries[l].book = OnBook(r.entries[l].book, msg)
  BY <1>2, OnBookForm DEF Written
<1>4. ASSUME NEW x \in Registered(r)
      PROVE  /\ s.entries[x].symbol = r.entries[x].symbol
             /\ s.entries[x].book = OnLocate(r.entries[x].book, msg, x)
  <2>1. CASE x = l
    BY <1>1, <1>2, <1>3, <2>1 DEF Written, OnLocate
  <2>2. CASE x # l
    BY <1>1, <1>2, <2>2 DEF Written, Beside, OnLocate
  <2> QED
    BY <2>1, <2>2
<1> QED
  BY <1>2, <1>4 DEF Written, Stepped

\* Every turn of the parser keeps the books with the feed.
LEMMA FollowsTurn ==
  ASSUME HandlerInv, client = "parsing", applied \in Seq(Msg),
         Follows(handler.registry, applied), Turn
  PROVE  Follows(handler'.registry, applied')
<1>1. PICK h, r : h = Ticked(handler) /\ r = handler.registry
  BY Zenon
<1>2. IsHandler(h) /\ h.registry = r /\ h.panicked = FALSE
  BY <1>1, TickedForm DEF HandlerInv
<1>3. CASE (handler' = handler \/ handler' = h) /\ applied' = applied
  BY <1>1, <1>2, <1>3
<1>4. ASSUME NEW msg \in Msg, IsMsg(msg), Ignores(msg)
      PROVE  Follows(handler'.registry, applied')
  <2>1. msg.tag \notin OrderTags /\ msg.tag # StockDirectory.TAG
    BY <1>4 DEF Ignores, Handled, HandledTypes, OrderTags, AddTags, ExecutedTags
  <2>2. Stepped(r, r, msg)
    BY <2>1, SteppedSame
  <2>3. \A l : ~IsDirectory(msg, l)
    BY <2>1 DEF IsDirectory
  <2>4. Follows(r, Append(applied, msg))
    BY <1>1, <1>4, <2>2, <2>3, FollowsStepped
  <2> QED
    BY <1>1, <1>4, <2>4 DEF Ignores
<1>5. ASSUME NEW msg \in Msg, IsMsg(msg), Calls(msg)
      PROVE  Follows(handler'.registry, applied')
  <2>1. PICK g, l, called, c :
           /\ g = Apply(h, msg) /\ l = msg.stock_locate
           /\ called = CallOf(BookOf(h, l), msg) /\ c = CounterOf(msg)
    BY Zenon
  <2>2. /\ handler' = g
        /\ g.panicked => applied' = applied
        /\ ~g.panicked => applied' = Append(applied, msg)
    BY <1>1, <1>5, <2>1 DEF Calls
  <2>3. \/ msg.tag = StockDirectory.TAG /\ Registration(h, g, msg)
        \/ msg.tag \in OrderTags /\ Effect(h, g, l, called, c)
    BY <1>2, <1>5, <2>1, ApplyForm DEF Calls
  <2>4. ASSUME g.panicked = FALSE, Stepped(r, g.registry, msg), \A x : ~IsDirectory(msg, x)
        PROVE  Follows(handler'.registry, applied')
    <3>1. Follows(g.registry, Append(applied, msg))
      BY <1>1, <1>5, <2>4, FollowsStepped
    <3> QED
      BY <2>2, <2>4, <3>1
  <2>5. CASE msg.tag = StockDirectory.TAG /\ Registration(h, g, msg)
    <3>1. msg.tag \notin OrderTags
      BY <2>5, OrderCases
    <3>2. CASE ~Watched(msg.stock)
      <4>1. g.registry = r /\ g.panicked = FALSE
        BY <1>2, <2>5, <3>2 DEF Registration
      <4>2. Stepped(r, r, msg)
        BY <3>1, SteppedSame
      <4> QED
        BY <2>4, <3>2, <4>1, <4>2 DEF IsDirectory
    <3>3. CASE Watched(msg.stock) /\ RegisterPanics(r, l)
      <4>1. g.panicked = TRUE /\ SameBooks(r, g.registry)
        BY <1>2, <2>1, <2>5, <3>3 DEF Registration
      <4> QED
        BY <1>1, <2>2, <4>1, FollowsSame
    <3>4. CASE Watched(msg.stock) /\ ~RegisterPanics(r, l)
      <4>1. g.panicked = FALSE /\ Added(r, g.registry, l, msg.stock)
        BY <1>2, <2>1, <2>5, <3>4 DEF Registration
      <4>2. IsDirectory(msg, l)
        BY <2>1, <2>5, <3>4 DEF IsDirectory
      <4>3. Follows(g.registry, Append(applied, msg))
        BY <1>1, <1>5, <4>1, <4>2, FollowsAdded
      <4> QED
        BY <2>2, <4>1, <4>3
    <3> QED
      BY <3>2, <3>3, <3>4
  <2>6. CASE msg.tag \in OrderTags /\ Effect(h, g, l, called, c)
    <3>1. g.panicked = FALSE /\ \A x : ~IsDirectory(msg, x)
      BY <1>2, <2>6, OrderCases DEF Effect, IsDirectory
    <3>2. CASE l \notin Registered(r)
      <4>1. g.registry = r
        BY <1>2, <2>6, <3>2 DEF Effect
      <4>2. Stepped(r, r, msg)
        BY <2>1, <3>2, SteppedSame
      <4> QED
        BY <2>4, <3>1, <4>1, <4>2
    <3>3. CASE l \in Registered(r)
      <4>1. Written(r, g.registry, l, CallOf(r.entries[l].book, msg).book)
        BY <1>2, <2>1, <2>6, <3>3 DEF Effect, BookOf
      <4>2. Stepped(r, g.registry, msg)
        BY <2>1, <2>6, <4>1, SteppedWritten
      <4> QED
        BY <2>4, <3>1, <4>2
    <3> QED
      BY <3>2, <3>3
  <2> QED
    BY <2>3, <2>5, <2>6
<1> QED
  BY <1>1, <1>3, <1>4, <1>5 DEF Turn

\* The books and the feed.
FeedInv == DispatchInv /\ HandlerInv /\ Follows(handler.registry, applied)

\* It holds at the start.
LEMMA FeedInit ==
  ASSUME Countable, Init
  PROVE  FeedInv
<1>1. PICK kind \in Kinds : handler = NewHandler(kind)
  BY DEF Init
<1>2. Registered(handler.registry) = {} /\ applied = <<>>
  BY <1>1, NewHandlerForm DEF Init
<1>3. Len(<<>>) = 0
  OBVIOUS
<1>4. Follows(handler.registry, applied)
  BY <1>2, <1>3 DEF Follows, FollowsAt
<1> QED
  BY <1>4, DispatchInit, HandlerInit DEF FeedInv

\* Every step keeps it.
LEMMA FeedNext ==
  ASSUME Countable, FilesMeant, FeedInv, [Next]_vars
  PROVE  FeedInv'
<1>1. DispatchInv' /\ HandlerInv'
  BY DispatchNext, HandlerNext DEF FeedInv
<1>2. Follows(handler.registry, applied)'
  <2>1. CASE handler' = handler /\ applied' = applied
    BY <2>1 DEF FeedInv
  <2>2. CASE ParseMessage
    <3>1. Turn
      BY <2>2, ParseTurn DEF FeedInv
    <3>2. client = "parsing" /\ applied \in Seq(Msg)
      BY <2>2 DEF ParseMessage, FeedInv, DispatchInv, ClientInv
    <3>3. Follows(handler'.registry, applied')
      BY <3>1, <3>2, FollowsTurn DEF FeedInv
    <3> QED
      BY <3>3
  <2>3. ParseMessage \/ (handler' = handler /\ applied' = applied)
    BY DEF Next, vars, clientVars, ReadMessage, StopReading, Receive, ReceiveTimeout,
           RaiseShutdown
  <2> QED
    BY <2>1, <2>2, <2>3
<1> QED
  BY <1>1, <1>2 DEF FeedInv

\* It implies the property.
LEMMA BooksFollowFrom ==
  ASSUME FeedInv
  PROVE  BooksFollowFeed
<1> DEFINE r == handler.registry
<1>1. PICK n \in Nat : n = Len(applied) /\ DOMAIN applied = 1 .. n
  BY DEF FeedInv, DispatchInv, ClientInv
<1>2. ASSUME NEW l
      PROVE  /\ l \in Registered(r) <=> Directories(l) # {}
             /\ l \in Registered(r) =>
                   /\ r.entries[l].symbol = applied[Max(Directories(l))].stock
                   /\ r.entries[l].book = BookSince(applied, l, Max(Directories(l)))
  <2>1. PICK D : D = Directories(l)
    BY Zenon
  <2>2. D = {k \in 1 .. n : IsDirectory(applied[k], l)}
    BY <1>1, <2>1, Zenon DEF Directories, IsDirectory
  <2>3. FollowsAt(r, applied, l)
    BY DEF FeedInv, Follows
  <2>4. l \in Registered(r) <=> D # {}
    BY <1>1, <2>2, <2>3 DEF FollowsAt
  <2>5. ASSUME l \in Registered(r)
        PROVE  /\ r.entries[l].symbol = applied[Max(D)].stock
               /\ r.entries[l].book = BookSince(applied, l, Max(D))
    <3>1. D \in SUBSET (0 .. n) /\ D # {}
      BY <2>2, <2>4, <2>5
    <3>2. PICK last : last = Max(D)
      BY Zenon
    <3>3. last \in D /\ \A y \in D : y =< last
      BY <3>1, <3>2, MaxOfBounded
    <3>4. last \in 1 .. n /\ IsDirectory(applied[last], l)
      BY <2>2, <3>3
    <3>5. ASSUME NEW k \in last + 1 .. n PROVE ~IsDirectory(applied[k], l)
      <4>1. k \in 1 .. n /\ ~(k =< last)
        BY <3>4
      <4> QED
        BY <2>2, <3>3, <4>1
    <3>6. IsLastDirectory(applied, l, last)
      BY <1>1, <3>4, <3>5 DEF IsLastDirectory
    <3> QED
      BY <1>1, <2>3, <3>2, <3>4, <3>6 DEF FollowsAt
  <2> QED
    BY <2>1, <2>4, <2>5
<1> QED
  BY <1>2, Zenon DEF BooksFollowFeed

\* The invariant always holds.
LEMMA FeedAlways ==
  ASSUME Countable, FilesMeant
  PROVE  Spec => []FeedInv
<1>1. Init => FeedInv
  BY FeedInit
<1>2. FeedInv /\ [Next]_vars => FeedInv'
  BY FeedNext
<1> QED
  BY <1>1, <1>2, PTL DEF Spec

\* The handler's callbacks and the registries keep every book with the messages
\* of its own locate since its last registration, and no message reaches another.
THEOREM BooksFollowFeedHolds ==
  ASSUME Countable, FilesMeant
  PROVE  Spec => []BooksFollowFeed
<1>1. FeedInv => BooksFollowFeed
  BY BooksFollowFrom
<1> QED
  BY <1>1, FeedAlways, PTL

-----------------------------------------------------------------------------
(* Books and counters.                                                     *)

Rests(r, l, id) == l \in Registered(r) /\ id \in DOMAIN r.entries[l].book

\* Resting orders are pairs of a locate and an id.
LEMMA RestingPairs ==
  ASSUME NEW r
  PROVE  /\ \A l, id : <<l, id>> \in RestingIn(r) <=> Rests(r, l, id)
         /\ \A p \in RestingIn(r) : \E l, id : p = <<l, id>>
<1>1. ASSUME NEW l, NEW id PROVE <<l, id>> \in RestingIn(r) <=> Rests(r, l, id)
  <2>1. ASSUME <<l, id>> \in RestingIn(r) PROVE Rests(r, l, id)
    <3>1. PICK x \in Registered(r) : <<l, id>> \in {x} \X DOMAIN r.entries[x].book
      BY <2>1, Zenon DEF RestingIn
    <3>2. l = x /\ id \in DOMAIN r.entries[x].book
      BY <3>1
    <3> QED
      BY <3>2 DEF Rests
  <2>2. ASSUME Rests(r, l, id) PROVE <<l, id>> \in RestingIn(r)
    <3>1. <<l, id>> \in {l} \X DOMAIN r.entries[l].book
      BY <2>2 DEF Rests
    <3>2. l \in Registered(r)
      BY <2>2 DEF Rests
    <3> QED
      BY <3>1, <3>2, Zenon DEF RestingIn
  <2> QED
    BY <2>1, <2>2
<1>2. ASSUME NEW p \in RestingIn(r) PROVE \E l, id : p = <<l, id>>
  <2>1. PICK x \in Registered(r) : p \in {x} \X DOMAIN r.entries[x].book
    BY Zenon DEF RestingIn
  <2> QED
    BY <2>1
<1> QED
  BY <1>1, <1>2

\* The same orders, one more or one less.
LEMMA RestingChange ==
  ASSUME NEW r, NEW s, NEW l, NEW id
  PROVE  /\ (\A x, y : Rests(s, x, y) <=> Rests(r, x, y)) => RestingIn(s) = RestingIn(r)
         /\ (\A x, y : Rests(s, x, y) => Rests(r, x, y)) =>
               RestingIn(s) \subseteq RestingIn(r)
         /\ (\A x, y : Rests(s, x, y) <=> (Rests(r, x, y) \/ (x = l /\ y = id))) =>
               RestingIn(s) = RestingIn(r) \cup {<<l, id>>}
         /\ (\A x, y : Rests(s, x, y) <=> (Rests(r, x, y) /\ ~(x = l /\ y = id))) =>
               RestingIn(s) = RestingIn(r) \ {<<l, id>>}
<1>1. PICK R, T : R = RestingIn(r) /\ T = RestingIn(s)
  BY Zenon
<1>2. /\ \A x, y : <<x, y>> \in R <=> Rests(r, x, y)
      /\ \A p \in R : \E x, y : p = <<x, y>>
  BY <1>1, RestingPairs
<1>3. /\ \A x, y : <<x, y>> \in T <=> Rests(s, x, y)
      /\ \A p \in T : \E x, y : p = <<x, y>>
  BY <1>1, RestingPairs
<1>4. \A x, y : <<x, y>> = <<l, id>> <=> (x = l /\ y = id)
  OBVIOUS
<1>5. ASSUME \A x, y : Rests(s, x, y) <=> Rests(r, x, y) PROVE T = R
  BY <1>2, <1>3, <1>5
<1>6. ASSUME \A x, y : Rests(s, x, y) => Rests(r, x, y) PROVE T \subseteq R
  BY <1>2, <1>3, <1>6
<1>7. ASSUME \A x, y : Rests(s, x, y) <=> (Rests(r, x, y) \/ (x = l /\ y = id))
      PROVE  T = R \cup {<<l, id>>}
  BY <1>2, <1>3, <1>4, <1>7
<1>8. ASSUME \A x, y : Rests(s, x, y) <=> (Rests(r, x, y) /\ ~(x = l /\ y = id))
      PROVE  T = R \ {<<l, id>>}
  BY <1>2, <1>3, <1>4, <1>8
<1> QED
  BY <1>1, <1>5, <1>6, <1>7, <1>8

\* The orders that rest go from R to T when those of one book go from D to E.
RestingGoes(R, T, D, E) ==
    /\ E = D => T = R
    /\ \A id : id \notin D /\ E = D \cup {id} =>
          IsFiniteSet(T) /\ Cardinality(T) = Cardinality(R) + 1
    /\ \A id \in D : E = D \ {id} =>
          IsFiniteSet(T) /\ Cardinality(T) = Cardinality(R) - 1
    /\ \A id \in D : \A new : new \notin D \ {id} /\ E = (D \ {id}) \cup {new} =>
          IsFiniteSet(T) /\ Cardinality(T) = Cardinality(R)

\* How many rest after a book was written back.
LEMMA RestingWritten ==
  ASSUME NEW r, NEW s, NEW l \in Registered(r), NEW b, Written(r, s, l, b),
         IsFiniteSet(RestingIn(r)), NEW D, D = DOMAIN r.entries[l].book,
         NEW E, E = DOMAIN b
  PROVE  RestingGoes(RestingIn(r), RestingIn(s), D, E)
<1>1. PICK R, T : R = RestingIn(r) /\ T = RestingIn(s)
  BY Zenon
<1>2. /\ \A y : Rests(r, l, y) <=> y \in D
      /\ \A y : Rests(s, l, y) <=> y \in E
      /\ \A x, y : x # l => (Rests(s, x, y) <=> Rests(r, x, y))
  BY DEF Rests, Written, Beside
<1>3. \A y : <<l, y>> \in R <=> y \in D
  BY <1>1, <1>2, RestingPairs
<1>4. IsFiniteSet(R) /\ Cardinality(R) \in Nat
  BY <1>1, FS_CardinalityType
<1>5. ASSUME E = D PROVE T = R
  BY <1>1, <1>2, <1>5, RestingChange
<1>6. ASSUME NEW id, id \notin D, E = D \cup {id}
      PROVE  IsFiniteSet(T) /\ Cardinality(T) = Cardinality(R) + 1
  <2>1. \A x, y : Rests(s, x, y) <=> (Rests(r, x, y) \/ (x = l /\ y = id))
    BY <1>2, <1>6
  <2>2. T = R \cup {<<l, id>>} /\ <<l, id>> \notin R
    BY <1>1, <1>3, <1>6, <2>1, RestingChange
  <2> QED
    BY <1>4, <2>2, FS_AddElement
<1>7. ASSUME NEW id \in D, E = D \ {id}
      PROVE  IsFiniteSet(T) /\ Cardinality(T) = Cardinality(R) - 1
  <2>1. \A x, y : Rests(s, x, y) <=> (Rests(r, x, y) /\ ~(x = l /\ y = id))
    BY <1>2, <1>7
  <2>a. (\A x, y : Rests(s, x, y) <=> (Rests(r, x, y) /\ ~(x = l /\ y = id))) =>
           RestingIn(s) = RestingIn(r) \ {<<l, id>>}
    BY ONLY RestingChange
  <2>b. RestingIn(s) = RestingIn(r) \ {<<l, id>>}
    BY ONLY <2>a, <2>1, Zenon
  <2>2. T = R \ {<<l, id>>}
    BY ONLY <1>1, <2>b
  <2>3. <<l, id>> \in R
    BY <1>3
  <2> QED
    BY <1>4, <2>2, <2>3, FS_RemoveElement
<1>8. ASSUME NEW id \in D, NEW new, new \notin D \ {id}, E = (D \ {id}) \cup {new}
      PROVE  IsFiniteSet(T) /\ Cardinality(T) = Cardinality(R)
  <2>1. PICK U : U = R \ {<<l, id>>}
    BY Zenon
  <2>2. <<l, id>> \in R /\ \A y : <<l, y>> = <<l, id>> <=> y = id
    BY <1>3
  <2>3. IsFiniteSet(U) /\ Cardinality(U) = Cardinality(R) - 1
    BY <1>4, <2>1, <2>2, FS_RemoveElement
  <2>4. <<l, new>> \notin U
    BY <1>3, <1>8, <2>1, <2>2
  <2>5. T = U \cup {<<l, new>>}
    <3>1. \A x, y : <<x, y>> = <<l, id>> <=> (x = l /\ y = id)
      OBVIOUS
    <3>2. \A x, y : <<x, y>> \in U <=> (Rests(r, x, y) /\ ~(x = l /\ y = id))
      BY <1>1, <2>1, <3>1, RestingPairs
    <3>3. \A x, y : Rests(s, x, y) <=> (<<x, y>> \in U \/ (x = l /\ y = new))
      BY <1>2, <1>8, <3>2
    <3>4. \A x, y : <<x, y>> \in T <=> (<<x, y>> \in U \/ <<x, y>> = <<l, new>>)
      <4>1. \A x, y : <<x, y>> = <<l, new>> <=> (x = l /\ y = new)
        OBVIOUS
      <4>2. \A x, y : <<x, y>> \in T <=> Rests(s, x, y)
        BY <1>1, RestingPairs
      <4> QED
        BY <3>3, <4>1, <4>2
    <3>5. /\ \A p \in T : \E x, y : p = <<x, y>>
          /\ \A p \in U : \E x, y : p = <<x, y>>
      BY <1>1, <2>1, RestingPairs
    <3> QED
      BY <3>4, <3>5
  <2>6. IsFiniteSet(T) /\ Cardinality(T) = Cardinality(U) + 1
    BY <2>3, <2>4, <2>5, FS_AddElement
  <2> QED
    BY <1>4, <2>3, <2>6
<1> QED
  BY <1>1, <1>5, <1>6, <1>7, <1>8 DEF RestingGoes

\* No order was replaced and no locate registered twice.
Once(msgs) ==
    /\ \A n \in 1 .. Len(msgs) : msgs[n].tag # OrderReplace.TAG
    /\ \A l : \A i, j \in 1 .. Len(msgs) :
          IsDirectory(msgs[i], l) /\ IsDirectory(msgs[j], l) => i = j

\* The counters account for a set of orders.
Explained(R, s, once) ==
    /\ IsFiniteSet(R)
    /\ Cardinality(R) =< s.orders_added - s.orders_deleted
    /\ once => Cardinality(R) >= s.orders_added - s.orders_deleted - s.orders_executed
                                 - s.orders_cancelled

\* What was so before the last message.
LEMMA OnceBefore ==
  ASSUME NEW S, NEW msgs \in Seq(S), NEW msg \in S, Once(Append(msgs, msg))
  PROVE  /\ Once(msgs) /\ msg.tag # OrderReplace.TAG
         /\ \A l : IsDirectory(msg, l) => \A n \in 1 .. Len(msgs) : ~IsDirectory(msgs[n], l)
<1>1. PICK n \in Nat : n = Len(msgs)
  OBVIOUS
<1>2. PICK new : new = Append(msgs, msg)
  BY Zenon
<1>3. Len(new) = n + 1 /\ new[n + 1] = msg /\ \A k \in 1 .. n : new[k] = msgs[k]
  BY <1>1, <1>2
<1>4. /\ \A k \in 1 .. n + 1 : new[k].tag # OrderReplace.TAG
      /\ \A l : \A i, j \in 1 .. n + 1 :
            IsDirectory(new[i], l) /\ IsDirectory(new[j], l) => i = j
  BY <1>2, <1>3 DEF Once
<1>5. /\ n + 1 \in 1 .. n + 1
      /\ \A k \in 1 .. n : k \in 1 .. n + 1 /\ k # n + 1
  OBVIOUS
<1>6. Once(msgs)
  BY <1>1, <1>3, <1>4, <1>5 DEF Once
<1>7. msg.tag # OrderReplace.TAG
  BY <1>3, <1>4, <1>5
<1>8. ASSUME NEW l, IsDirectory(msg, l), NEW k \in 1 .. n PROVE ~IsDirectory(msgs[k], l)
  BY <1>3, <1>4, <1>5, <1>8
<1> QED
  BY <1>1, <1>6, <1>7, <1>8

\* One counter more.
LEMMA CountedForm ==
  ASSUME NEW stats \in [HandlerStats -> Nat], NEW c \in HandlerStats
  PROVE  /\ stats.orders_added \in Nat /\ stats.orders_deleted \in Nat
         /\ stats.orders_executed \in Nat /\ stats.orders_cancelled \in Nat
         /\ Counted(stats, c)[c] = stats[c] + 1
         /\ \A x \in HandlerStats : x # c => Counted(stats, c)[x] = stats[x]
  BY DEF HandlerStats, Counted

\* Calls that are about no order.
LEMMA ExplainedOther ==
  ASSUME NEW stats \in [HandlerStats -> Nat], NEW R, NEW T, NEW once, NEW now,
         Explained(R, stats, once), now => once,
         NEW c \in {"stock_directory_msgs", "skipped_locate", "orders_replaced"},
         NEW s, s = stats \/ s = Counted(stats, c),
         T \subseteq R, now => T = R
  PROVE  Explained(T, s, now)
<1>1. c \in HandlerStats
  BY DEF HandlerStats
<1>2. /\ s.orders_added = stats.orders_added /\ s.orders_deleted = stats.orders_deleted
      /\ s.orders_executed = stats.orders_executed
      /\ s.orders_cancelled = stats.orders_cancelled
  BY <1>1, CountedForm DEF HandlerStats
<1>3. /\ stats.orders_added \in Nat /\ stats.orders_deleted \in Nat
      /\ stats.orders_executed \in Nat /\ stats.orders_cancelled \in Nat
  BY <1>1, CountedForm
<1>4. /\ IsFiniteSet(R) /\ Cardinality(R) \in Nat /\ IsFiniteSet(T)
      /\ Cardinality(T) \in Nat /\ Cardinality(T) =< Cardinality(R)
  BY FS_Subset, FS_CardinalityType DEF Explained
<1> QED
  BY <1>2, <1>3, <1>4 DEF Explained

\* Calls on a book.
LEMMA ExplainedCall ==
  ASSUME NEW stats \in [HandlerStats -> Nat], NEW once, NEW now, now => once,
         NEW r, NEW s, NEW l \in Registered(r), NEW called, NEW c \in HandlerStats,
         Explained(RestingIn(r), stats, once), Written(r, s, l, called.book),
         IsChange(DOMAIN r.entries[l].book, DOMAIN called.book, called.ok, c),
         c \in {"orders_added", "orders_executed", "orders_cancelled", "orders_deleted",
                "orders_replaced"},
         c = "orders_replaced" => ~now,
         NEW t, called.ok => t = Counted(stats, c), ~called.ok => t = stats
  PROVE  Explained(RestingIn(s), t, now)
<1>1. PICK R, T, D, E, ok :
         /\ R = RestingIn(r) /\ T = RestingIn(s) /\ ok = called.ok
         /\ D = DOMAIN r.entries[l].book /\ E = DOMAIN called.book
  BY Zenon
<1>2. IsFiniteSet(R) /\ Cardinality(R) \in Nat /\ Explained(R, stats, once)
  BY <1>1, FS_CardinalityType DEF Explained
<1>3. RestingGoes(R, T, D, E)
  <2>1. RestingGoes(RestingIn(r), RestingIn(s), DOMAIN r.entries[l].book,
                    DOMAIN called.book)
    BY <1>1, <1>2, RestingWritten
  <2> QED
    BY <1>1, <2>1
<1>4. PICK n \in Nat, a \in Nat, d \in Nat, e \in Nat, x \in Nat :
         /\ n = Cardinality(R)
         /\ a = stats.orders_added /\ d = stats.orders_deleted
         /\ e = stats.orders_executed /\ x = stats.orders_cancelled
  BY <1>2, CountedForm
<1>5. n =< a - d /\ (once => n >= a - d - e - x)
  BY <1>2, <1>4 DEF Explained
<1>6. ok \in BOOLEAN /\ IsChange(D, E, ok, c)
  BY <1>1 DEF IsChange
<1>7. /\ IsFiniteSet(T) /\ Cardinality(T) \in Int
      /\ c = "orders_added" =>
            (ok => Cardinality(T) = n + 1) /\ (~ok => Cardinality(T) = n)
      /\ c \in {"orders_executed", "orders_cancelled"} =>
            Cardinality(T) = n \/ (ok /\ Cardinality(T) = n - 1)
      /\ c = "orders_deleted" =>
            (ok => Cardinality(T) = n - 1) /\ (~ok => Cardinality(T) = n)
      /\ c = "orders_replaced" => Cardinality(T) = n \/ Cardinality(T) = n - 1
  <2>1. E = D => IsFiniteSet(T) /\ Cardinality(T) = n
    BY <1>2, <1>3, <1>4 DEF RestingGoes
  <2>2. \A id : id \notin D /\ E = D \cup {id} => IsFiniteSet(T) /\ Cardinality(T) = n + 1
    BY <1>3, <1>4 DEF RestingGoes
  <2>3. \A id \in D : E = D \ {id} => IsFiniteSet(T) /\ Cardinality(T) = n - 1
    BY <1>3, <1>4 DEF RestingGoes
  <2>4. \A id \in D : \A new : new \notin D \ {id} /\ E = (D \ {id}) \cup {new} =>
           IsFiniteSet(T) /\ Cardinality(T) = n
    BY <1>3, <1>4 DEF RestingGoes
  <2>5. CASE c = "orders_added"
    BY <1>6, <2>1, <2>2, <2>5 DEF IsChange
  <2>6. CASE c \in {"orders_executed", "orders_cancelled"}
    BY <1>6, <2>1, <2>3, <2>6 DEF IsChange
  <2>7. CASE c = "orders_deleted"
    BY <1>6, <2>1, <2>3, <2>7 DEF IsChange
  <2>8. CASE c = "orders_replaced"
    BY <1>6, <2>1, <2>3, <2>4, <2>8 DEF IsChange
  <2> QED
    BY <2>5, <2>6, <2>7, <2>8
<1>8. /\ ~ok => t = stats
      /\ ok => /\ t[c] = stats[c] + 1
               /\ \A y \in HandlerStats : y # c => t[y] = stats[y]
  BY <1>1, <1>6, CountedForm
<1>9. PICK k \in Int : k = Cardinality(T)
  BY <1>7
<1>10. k =< t.orders_added - t.orders_deleted
  BY <1>4, <1>5, <1>6, <1>7, <1>8, <1>9 DEF HandlerStats
<1>11. now => k >= t.orders_added - t.orders_deleted - t.orders_executed
                   - t.orders_cancelled
  BY <1>4, <1>5, <1>6, <1>7, <1>8, <1>9 DEF HandlerStats
<1> QED
  BY <1>1, <1>7, <1>9, <1>10, <1>11 DEF Explained

\* The counters of a message about an order.
LEMMA CounterForm ==
  ASSUME NEW msg, msg.tag \in OrderTags
  PROVE  /\ CounterOf(msg) \in {"orders_added", "orders_executed", "orders_cancelled",
                                "orders_deleted", "orders_replaced"}
         /\ CounterOf(msg) \in HandlerStats
         /\ CounterOf(msg) = "orders_replaced" => msg.tag = OrderReplace.TAG
  BY DEF CounterOf, OrderTags, HandlerStats

\* Registering a locate empties its book and leaves the others.
LEMMA RestingAdded ==
  ASSUME NEW r, NEW s, NEW l, NEW symbol, Added(r, s, l, symbol)
  PROVE  /\ RestingIn(s) \subseteq RestingIn(r)
         /\ l \notin Registered(r) => RestingIn(s) = RestingIn(r)
<1>1. DOMAIN NoEntries = {}
  BY DEF NoEntries
<1>2. /\ \A y : ~Rests(s, l, y)
      /\ \A x, y : x # l => (Rests(s, x, y) <=> Rests(r, x, y))
  BY <1>1 DEF Rests, Added, Beside
<1>3. \A x, y : Rests(s, x, y) => Rests(r, x, y)
  BY <1>2
<1>4. RestingIn(s) \subseteq RestingIn(r)
  BY <1>3, RestingChange
<1>5. ASSUME l \notin Registered(r) PROVE RestingIn(s) = RestingIn(r)
  <2>1. \A x, y : Rests(s, x, y) <=> Rests(r, x, y)
    BY <1>2, <1>5 DEF Rests
  <2> QED
    BY <2>1, RestingChange
<1> QED
  BY <1>4, <1>5

\* The books and their counters.
StatsInv ==
    /\ FeedInv
    /\ Explained(RestingIn(handler.registry), handler.stats, Once(applied))

\* Every turn of the parser keeps them together.
LEMMA ExplainedTurn ==
  ASSUME StatsInv, client = "parsing", applied \in Seq(Msg), Turn
  PROVE  Explained(RestingIn(handler'.registry), handler'.stats, Once(applied'))
<1> DEFINE Goal == Explained(RestingIn(handler'.registry), handler'.stats, Once(applied'))
<1>1. PICK h, r, R : h = Ticked(handler) /\ r = handler.registry /\ R = RestingIn(r)
  BY Zenon
<1>2. /\ IsHandler(handler) /\ IsHandler(h) /\ h.registry = r /\ h.stats = handler.stats
      /\ h.panicked = FALSE
  BY <1>1, TickedForm DEF StatsInv, FeedInv, HandlerInv
<1>3. PICK stats \in [HandlerStats -> Nat] : stats = handler.stats
  BY <1>2 DEF IsHandler
<1>4. Explained(R, stats, Once(applied))
  BY <1>1, <1>3 DEF StatsInv
<1>5. CASE (handler' = handler \/ handler' = h) /\ applied' = applied
  BY <1>1, <1>2, <1>3, <1>4, <1>5
<1>6. ASSUME NEW msg \in Msg, applied' = Append(applied, msg)
      PROVE  /\ Once(applied') => Once(applied) /\ msg.tag # OrderReplace.TAG
             /\ \A l : Once(applied') /\ IsDirectory(msg, l) => l \notin Registered(r)
  <2>1. ASSUME Once(applied')
        PROVE  /\ Once(applied) /\ msg.tag # OrderReplace.TAG
               /\ \A l : IsDirectory(msg, l) =>
                     \A n \in 1 .. Len(applied) : ~IsDirectory(applied[n], l)
    <3>1. Once(Append(applied, msg))
      BY <1>6, <2>1
    <3> QED
      BY <3>1, OnceBefore
  <2>2. \A l : l \in Registered(r) => \E n \in 1 .. Len(applied) : IsDirectory(applied[n], l)
    BY <1>1 DEF StatsInv, FeedInv, Follows, FollowsAt
  <2> QED
    BY <2>1, <2>2
<1>7. ASSUME NEW s, NEW T, NEW c \in {"stock_directory_msgs", "skipped_locate"},
             s = stats \/ s = Counted(stats, c), T \subseteq R,
             Once(applied') => Once(applied) /\ T = R
      PROVE  Explained(T, s, Once(applied'))
  <2>1. PICK once, now : once = Once(applied) /\ now = Once(applied')
    BY Zenon
  <2>2. Explained(R, stats, once) /\ (now => once) /\ (now => T = R)
    BY <1>4, <1>7, <2>1
  <2>3. Explained(T, s, now)
    BY <1>7, <2>2, ExplainedOther
  <2> QED
    BY <2>1, <2>3
<1>8. ASSUME NEW msg \in Msg, Ignores(msg) PROVE Goal
  <2>1. handler' = handler /\ applied' = Append(applied, msg)
    BY <1>8 DEF Ignores
  <2>2. Once(applied') => Once(applied)
    BY <1>6, <2>1
  <2>3. Explained(R, stats, Once(applied'))
    BY <1>7, <2>2
  <2> QED
    BY <1>1, <1>3, <2>1, <2>3
<1>9. ASSUME NEW msg \in Msg, IsMsg(msg), Calls(msg) PROVE Goal
  <2>1. PICK g, l, called, c :
           /\ g = Apply(h, msg) /\ l = msg.stock_locate
           /\ called = CallOf(BookOf(h, l), msg) /\ c = CounterOf(msg)
    BY Zenon
  <2>2. /\ handler' = g
        /\ g.panicked => applied' = applied
        /\ ~g.panicked => applied' = Append(applied, msg)
    BY <1>1, <1>9, <2>1 DEF Calls
  <2>3. \/ msg.tag = StockDirectory.TAG /\ Registration(h, g, msg)
        \/ /\ msg.tag \in OrderTags /\ Effect(h, g, l, called, c)
           /\ l \in Registered(h.registry) => IsCall(BookOf(h, l), called, c)
    BY <1>2, <1>9, <2>1, ApplyForm DEF Calls
  <2>4. CASE msg.tag = StockDirectory.TAG /\ Registration(h, g, msg)
    <3>1. g.stats = Counted(stats, "stock_directory_msgs")
      BY <1>2, <1>3, <2>4 DEF Registration
    <3>2. ASSUME RestingIn(g.registry) \subseteq R,
                 Once(applied') => Once(applied) /\ RestingIn(g.registry) = R
          PROVE  Goal
      BY <1>7, <2>2, <3>1, <3>2
    <3>3. CASE ~Watched(msg.stock)
      <4>1. g.registry = r /\ g.panicked = FALSE
        BY <1>2, <2>4, <3>3 DEF Registration
      <4>2. Once(applied') => Once(applied)
        BY <1>6, <2>2, <4>1
      <4> QED
        BY <1>1, <3>2, <4>1, <4>2
    <3>4. CASE Watched(msg.stock) /\ RegisterPanics(r, l)
      <4>1. g.panicked = TRUE /\ SameBooks(r, g.registry)
        BY <1>2, <2>1, <2>4, <3>4 DEF Registration
      <4>2. \A x, y : Rests(g.registry, x, y) <=> Rests(r, x, y)
        BY <4>1 DEF SameBooks, Rests
      <4>3. RestingIn(g.registry) = R
        BY <1>1, <4>2, RestingChange
      <4> QED
        BY <2>2, <3>2, <4>1, <4>3
    <3>5. CASE Watched(msg.stock) /\ ~RegisterPanics(r, l)
      <4>1. g.panicked = FALSE /\ Added(r, g.registry, l, msg.stock)
        BY <1>2, <2>1, <2>4, <3>5 DEF Registration
      <4>2. IsDirectory(msg, l)
        BY <2>1, <2>4, <3>5 DEF IsDirectory
      <4>3. Once(applied') => Once(applied) /\ l \notin Registered(r)
        BY <1>6, <2>2, <4>1, <4>2
      <4>4. /\ RestingIn(g.registry) \subseteq R
            /\ l \notin Registered(r) => RestingIn(g.registry) = R
        BY <1>1, <4>1, RestingAdded
      <4> QED
        BY <3>2, <4>3, <4>4
    <3> QED
      BY <3>3, <3>4, <3>5
  <2>5. CASE /\ msg.tag \in OrderTags /\ Effect(h, g, l, called, c)
             /\ l \in Registered(h.registry) => IsCall(BookOf(h, l), called, c)
    <3>1. g.panicked = FALSE
      BY <1>2, <2>5 DEF Effect
    <3>2. Once(applied') => Once(applied) /\ msg.tag # OrderReplace.TAG
      BY <1>6, <2>2, <3>1
    <3>3. CASE l \notin Registered(r)
      <4>1. g.registry = r /\ g.stats = Counted(stats, "skipped_locate")
        BY <1>2, <1>3, <2>5, <3>3 DEF Effect
      <4>2. Explained(R, g.stats, Once(applied'))
        BY <1>7, <3>2, <4>1
      <4> QED
        BY <1>1, <2>2, <4>1, <4>2
    <3>4. CASE l \in Registered(r)
      <4>1. /\ Written(r, g.registry, l, called.book)
            /\ called.ok => g.stats = Counted(stats, c)
            /\ ~called.ok => g.stats = stats
        BY <1>2, <1>3, <2>5, <3>4 DEF Effect
      <4>2. IsChange(DOMAIN r.entries[l].book, DOMAIN called.book, called.ok, c)
        BY <1>2, <2>5, <3>4 DEF IsCall, BookOf
      <4>3. /\ c \in {"orders_added", "orders_executed", "orders_cancelled",
                      "orders_deleted", "orders_replaced"}
            /\ c \in HandlerStats
            /\ c = "orders_replaced" => msg.tag = OrderReplace.TAG
        BY <2>1, <2>5, CounterForm
      <4>4. PICK once, now, t, s : /\ once = Once(applied) /\ now = Once(applied')
                                   /\ t = g.stats /\ s = g.registry
        BY Zenon
      <4>5. /\ now => once
            /\ c = "orders_replaced" => ~now
            /\ Explained(RestingIn(r), stats, once) /\ Written(r, s, l, called.book)
            /\ called.ok => t = Counted(stats, c)
            /\ ~called.ok => t = stats
        BY <1>1, <1>4, <3>2, <4>1, <4>3, <4>4
      <4>6. Explained(RestingIn(s), t, now)
        BY <3>4, <4>2, <4>3, <4>5, ExplainedCall
      <4> QED
        BY <2>2, <4>4, <4>6
    <3> QED
      BY <3>3, <3>4
  <2> QED
    BY <2>3, <2>4, <2>5
<1> QED
  BY <1>1, <1>5, <1>8, <1>9 DEF Turn

\* Nothing rests and nothing was counted at the start.
LEMMA StatsInit ==
  ASSUME Countable, Init
  PROVE  StatsInv
<1>1. PICK kind \in Kinds : handler = NewHandler(kind)
  BY DEF Init
<1>2. /\ Registered(handler.registry) = {}
      /\ \A c \in HandlerStats : handler.stats[c] = 0
  BY <1>1, NewHandlerForm
<1>3. RestingIn(handler.registry) = {}
  BY <1>2 DEF RestingIn
<1>4. IsFiniteSet({}) /\ Cardinality({}) = 0
  BY FS_EmptySet
<1>5. /\ handler.stats.orders_added = 0 /\ handler.stats.orders_deleted = 0
      /\ handler.stats.orders_executed = 0 /\ handler.stats.orders_cancelled = 0
  BY <1>2 DEF HandlerStats
<1>6. Explained(RestingIn(handler.registry), handler.stats, Once(applied))
  BY <1>3, <1>4, <1>5 DEF Explained
<1> QED
  BY <1>6, FeedInit DEF StatsInv

\* Every step keeps the invariant.
LEMMA StatsNext ==
  ASSUME Countable, FilesMeant, StatsInv, [Next]_vars
  PROVE  StatsInv'
<1>1. FeedInv'
  BY FeedNext DEF StatsInv
<1>2. Explained(RestingIn(handler.registry), handler.stats, Once(applied))'
  <2>1. CASE handler' = handler /\ applied' = applied
    BY <2>1 DEF StatsInv
  <2>2. CASE ParseMessage
    <3>1. Turn
      BY <2>2, ParseTurn DEF StatsInv, FeedInv
    <3>2. client = "parsing" /\ applied \in Seq(Msg)
      BY <2>2 DEF ParseMessage, StatsInv, FeedInv, DispatchInv, ClientInv
    <3>3. Explained(RestingIn(handler'.registry), handler'.stats, Once(applied'))
      BY <3>1, <3>2, ExplainedTurn
    <3> QED
      BY <3>3
  <2>3. ParseMessage \/ (handler' = handler /\ applied' = applied)
    BY DEF Next, vars, clientVars, ReadMessage, StopReading, Receive, ReceiveTimeout,
           RaiseShutdown
  <2> QED
    BY <2>1, <2>2, <2>3
<1> QED
  BY <1>1, <1>2 DEF StatsInv

\* While every locate has one directory message and no order was replaced, the
\* messages are those of Once.
LEMMA OnceFrom ==
  ASSUME FeedInv, \A n \in DOMAIN applied : applied[n].tag # OrderReplace.TAG,
         \A l \in Registered(handler.registry) : Cardinality(Directories(l)) = 1
  PROVE  Once(applied)
<1>1. PICK n \in Nat : n = Len(applied) /\ DOMAIN applied = 1 .. n
  BY DEF FeedInv, DispatchInv, ClientInv
<1>2. ASSUME NEW l, NEW i \in 1 .. n, NEW j \in 1 .. n,
             IsDirectory(applied[i], l), IsDirectory(applied[j], l)
      PROVE  i = j
  <2>1. PICK D : D = Directories(l)
    BY Zenon
  <2>2. D = {k \in 1 .. n : IsDirectory(applied[k], l)}
    BY <1>1, <2>1, Zenon DEF Directories, IsDirectory
  <2>3. l \in Registered(handler.registry)
    BY <1>1, <1>2 DEF FeedInv, Follows, FollowsAt
  <2>4. IsFiniteSet(D)
    <3>1. IsFiniteSet(1 .. n) /\ D \in SUBSET (1 .. n)
      BY <2>2, FS_Interval
    <3> QED
      BY <3>1, FS_Subset
  <2>5. \E x : D = {x}
    BY <2>1, <2>3, <2>4, FS_Singleton
  <2>6. i \in D /\ j \in D
    BY <1>2, <2>2
  <2> QED
    BY <2>5, <2>6
<1>3. \A k \in 1 .. n : applied[k].tag # OrderReplace.TAG
  BY <1>1
<1> QED
  BY <1>1, <1>2, <1>3 DEF Once

\* It implies the property.
LEMMA StatsFrom ==
  ASSUME StatsInv
  PROVE  StatsExplainBooks
<1>1. Explained(RestingIn(handler.registry), handler.stats, Once(applied)) /\ FeedInv
  BY DEF StatsInv
<1>2. Resting = Cardinality(RestingIn(handler.registry))
  BY Zenon DEF Resting
<1> QED
  BY <1>1, <1>2, OnceFrom DEF Explained, StatsExplainBooks

\* The counters of the handler account for the orders that rest: every order was
\* added and not deleted, and with neither replacements nor second registrations
\* one that left was deleted, executed or cancelled.
THEOREM StatsExplainBooksHold ==
  ASSUME Countable, FilesMeant
  PROVE  Spec => []StatsExplainBooks
<1>1. Init => StatsInv
  BY StatsInit
<1>2. StatsInv /\ [Next]_vars => StatsInv'
  BY StatsNext
<1>3. StatsInv => StatsExplainBooks
  BY StatsFrom
<1> QED
  BY <1>1, <1>2, <1>3, PTL DEF Spec

=============================================================================
