---------------------------- MODULE LinesProofs ----------------------------
(***************************************************************************)
(* Proofs about Lines, for any alphabet, commands, aliases and arrays of   *)
(* any size: what the lexer and the scan of the credentials compute for    *)
(* every text, and from it that lines arrive as they were typed.           *)
(*                                                                         *)
(* Induction is used in the form "a set with 0 that is closed under + 1    *)
(* is Nat", which follows from the order on Nat being well-founded.        *)
(***************************************************************************)
EXTENDS Lines, SequenceTheorems, FiniteSetTheorems, WellFoundedInduction, TLAPS

-----------------------------------------------------------------------------
(* Induction.                                                              *)

Before == {p \in Nat \X Nat : p[1] < p[2]}

LEMMA BeforeWellFounded == IsWellFoundedOn(Before, Nat)
<1>1. Before = OpToRel(<, Nat)
  BY DEF Before, OpToRel
<1> QED
  BY <1>1, NatLessThanWellFounded

LEMMA Least ==
    ASSUME NEW T \in SUBSET Nat, T # {}
    PROVE  \E x \in T : \A y \in T : x <= y
<1>1. PICK x \in T : \A y \in T : ~(<<y, x>> \in Before)
  BY BeforeWellFounded, WFMin
<1>2. ASSUME NEW y \in T, y < x PROVE FALSE
  <2>1. <<y, x>> \in Nat \X Nat /\ <<y, x>>[1] < <<y, x>>[2]
    BY <1>2
  <2>2. <<y, x>> \in Before
    BY <2>1 DEF Before
  <2> QED
    BY <1>1, <2>2
<1>3. \A y \in T : x <= y
  BY <1>2
<1> QED
  BY <1>3

LEMMA Induction ==
    ASSUME NEW T \in SUBSET Nat, 0 \in T, \A n \in T : n + 1 \in T
    PROVE  T = Nat
<1> DEFINE U == Nat \ T
<1> SUFFICES ASSUME U # {} PROVE FALSE
  OBVIOUS
<1>1. U \in SUBSET Nat
  OBVIOUS
<1> HIDE DEF U
<1>2. PICK x \in U : \A y \in U : x <= y
  BY <1>1, Least
<1> USE DEF U
<1>3. x \in Nat /\ x # 0 /\ x - 1 \in Nat /\ ~(x <= x - 1)
  BY <1>2
<1>4. x - 1 \in T
  BY <1>2, <1>3
<1>5. (x - 1) + 1 \in T /\ (x - 1) + 1 = x
  BY <1>3, <1>4
<1> QED
  BY <1>2, <1>5

\* The same up to n.
LEMMA InductionUpTo ==
    ASSUME NEW n \in Nat, NEW T \in SUBSET (0..n), 0 \in T,
           \A k \in T : k < n => k + 1 \in T
    PROVE  T = 0..n
<1> DEFINE U == {k \in Nat : k <= n => k \in T}
<1>1. U \in SUBSET Nat /\ 0 \in U
  OBVIOUS
<1>2. ASSUME NEW k \in U PROVE k + 1 \in U
  <2>1. CASE k + 1 <= n
    BY <2>1
  <2> QED
    BY <2>1
<1> HIDE DEF U
<1>3. U = Nat
  BY <1>1, <1>2, Induction
<1>4. ASSUME NEW k \in 0..n PROVE k \in T
  <2>1. k \in Nat /\ k <= n
    OBVIOUS
  <2>2. k \in U
    BY <1>3, <2>1
  <2> QED
    BY <2>1, <2>2 DEF U
<1> QED
  BY <1>4

\* Texts are built from the empty one, a character at a time.
LEMMA SeqInduction ==
    ASSUME NEW S, NEW T \in SUBSET Seq(S), <<>> \in T,
           \A s \in T, x \in S : Append(s, x) \in T
    PROVE  T = Seq(S)
<1> DEFINE U == {n \in Nat : \A s \in Seq(S) : Len(s) = n => s \in T}
<1>1. 0 \in U
  <2>1. ASSUME NEW s \in Seq(S), Len(s) = 0 PROVE s \in T
    <3>1. s = <<>>
      BY <2>1, EmptySeq
    <3> QED
      BY <3>1
  <2> QED
    BY <2>1
<1>2. ASSUME NEW n \in U PROVE n + 1 \in U
  <2>1. ASSUME NEW s \in Seq(S), Len(s) = n + 1 PROVE s \in T
    <3>1. s # <<>>
      BY <2>1, EmptySeq
    <3>2. PICK t \in Seq(S), x \in S : s = Append(t, x)
      BY <3>1, SequenceEmptyOrAppend
    <3>3. Len(s) = Len(t) + 1 /\ Len(t) \in Nat
      BY <3>2, AppendProperties, LenProperties
    <3>4. Len(t) = n
      BY <2>1, <3>3
    <3> QED
      BY <3>2, <3>4
  <2> QED
    BY <2>1
<1>3. U \in SUBSET Nat
  OBVIOUS
<1>4. U = Nat
  <2> HIDE DEF U
  <2> QED
    BY <1>1, <1>2, <1>3, Induction
<1>5. ASSUME NEW s \in Seq(S) PROVE s \in T
  BY <1>4, LenProperties
<1> QED
  BY <1>5

LEMMA ConcatAppend ==
    ASSUME NEW S, NEW s \in Seq(S), NEW t \in Seq(S), NEW x \in S
    PROVE  s \o Append(t, x) = Append(s \o t, x) /\ s \o t \in Seq(S)
<1>1. <<x>> \in Seq(S)
  OBVIOUS
<1>2. Append(t, x) = t \o <<x>>
  BY AppendIsConcat
<1>3. s \o t \in Seq(S)
  BY ConcatProperties
<1>4. Append(s \o t, x) = (s \o t) \o <<x>>
  BY <1>3, AppendIsConcat
<1>5. (s \o t) \o <<x>> = s \o (t \o <<x>>)
  BY <1>1, ConcatAssociative
<1> QED
  BY <1>2, <1>3, <1>4, <1>5

LEMMA TailConcat ==
    ASSUME NEW S, NEW s \in Seq(S), s # <<>>, NEW t \in Seq(S)
    PROVE  Tail(s \o t) = Tail(s) \o t
<1>0. PICK m \in Nat, n \in Nat : m = Len(s) /\ n = Len(t) /\ m # 0
  BY LenProperties, EmptySeq
<1> DEFINE u == s \o t
           v == Tail(s)
           w == v \o t
           x == Tail(u)
<1>1. /\ u \in Seq(S) /\ Len(u) = m + n
      /\ \A i \in 1..(m + n) : u[i] = IF i <= m THEN s[i] ELSE t[i - m]
  BY <1>0, ConcatProperties
<1>2. /\ v \in Seq(S) /\ Len(v) = m - 1
      /\ \A i \in 1..(m - 1) : v[i] = s[i + 1]
  BY <1>0, HeadTailProperties
<1> HIDE DEF u, v
<1>3. u # <<>>
  BY <1>0, <1>1, EmptySeq
<1>4. /\ x \in Seq(S) /\ Len(x) = m + n - 1
      /\ \A i \in 1..(m + n - 1) : x[i] = u[i + 1]
  BY <1>0, <1>1, <1>3, HeadTailProperties
<1>5. /\ w \in Seq(S) /\ Len(w) = (m - 1) + n
      /\ \A i \in 1..((m - 1) + n) : w[i] = IF i <= m - 1 THEN v[i] ELSE t[i - (m - 1)]
  <2>1. PICK k \in Nat : k = m - 1
    BY <1>0
  <2>2. v \in Seq(S) /\ Len(v) = k
    BY <1>2, <2>1
  <2>3. /\ w \in Seq(S) /\ Len(w) = k + n
        /\ \A i \in 1..(k + n) : w[i] = IF i <= k THEN v[i] ELSE t[i - k]
    BY <1>0, <2>2, ConcatProperties
  <2> HIDE DEF w
  <2> QED
    BY <2>1, <2>3
<1> HIDE DEF w, x
<1>6. ASSUME NEW i \in 1..(m + n - 1) PROVE x[i] = w[i]
  <2>1. i + 1 \in 1..(m + n) /\ i \in 1..((m - 1) + n)
    BY <1>0
  <2>2. x[i] = u[i + 1]
    BY <1>4
  <2>3. CASE i <= m - 1
    <3>1. i \in 1..(m - 1) /\ i + 1 <= m
      BY <2>3
    <3> QED
      BY <1>1, <1>2, <1>5, <2>1, <2>2, <2>3, <3>1
  <2>4. CASE ~(i <= m - 1)
    <3>1. ~(i + 1 <= m) /\ (i + 1) - m = i - (m - 1)
      BY <1>0, <2>4
    <3> QED
      BY <1>1, <1>5, <2>1, <2>2, <2>4, <3>1
  <2> QED
    BY <2>3, <2>4
<1>7. Len(x) = Len(w)
  BY <1>0, <1>4, <1>5
<1>8. x = w
  BY <1>4, <1>5, <1>6, <1>7, SeqEqual
<1> QED
  BY <1>8 DEF u, v, w, x

-----------------------------------------------------------------------------
(* Recursive functions: there is one, and its values are what the          *)
(* equation says.                                                          *)

\* What a function that starts at b and takes n steps can be.
Runs(W, b, n, step) ==
    {f \in [0..n -> W] : f[0] = b /\ \A k \in 1..n : f[k] = step[<<f[k - 1], k>>]}

LEMMA RunExists ==
    ASSUME NEW W, NEW b \in W, NEW n \in Nat, NEW step,
           \A w \in W, k \in 1..n : step[<<w, k>>] \in W
    PROVE  Runs(W, b, n, step) # {}
<1> DEFINE T == {m \in 0..n : Runs(W, b, m, step) # {}}
<1>1. T \in SUBSET (0..n)
  OBVIOUS
<1>2. 0 \in T
  <2> DEFINE f == [k \in 0..0 |-> b]
  <2>1. f \in [0..0 -> W] /\ f[0] = b /\ 1..0 = {}
    OBVIOUS
  <2> HIDE DEF f
  <2>2. f \in Runs(W, b, 0, step)
    BY <2>1 DEF Runs
  <2> QED
    BY <2>2
<1>3. ASSUME NEW m \in T, m < n PROVE m + 1 \in T
  <2>1. PICK f : f \in Runs(W, b, m, step)
    OBVIOUS
  <2> DEFINE e == step[<<f[m], m + 1>>]
             h == [k \in 0..(m + 1) |-> IF k <= m THEN f[k] ELSE e]
  <2>2. m \in Nat /\ m + 1 \in 1..n /\ m \in 0..m /\ 0 <= m
    BY <1>3
  <2>3. /\ f \in [0..m -> W] /\ f[0] = b
        /\ \A k \in 1..m : f[k] = step[<<f[k - 1], k>>]
    BY <2>1 DEF Runs
  <2>4. f[m] \in W
    BY <2>2, <2>3
  <2>5. e \in W
    BY <2>2, <2>4
  <2> HIDE DEF e
  <2>6. h \in [0..(m + 1) -> W]
    <3>1. ASSUME NEW k \in 0..(m + 1), k <= m PROVE f[k] \in W
      BY <2>2, <2>3, <3>1
    <3> QED
      BY <2>5, <3>1
  <2>7. h[0] = b
    BY <2>2, <2>3
  <2>8. ASSUME NEW k \in 1..(m + 1) PROVE h[k] = step[<<h[k - 1], k>>]
    <3>1. k - 1 \in 0..(m + 1) /\ k - 1 <= m /\ k \in 0..(m + 1)
      BY <2>2
    <3>2. h[k - 1] = f[k - 1]
      BY <3>1
    <3>3. CASE k <= m
      <4>1. h[k] = f[k]
        BY <3>1, <3>3
      <4>2. k \in 1..m
        BY <2>2, <3>3
      <4> QED
        BY <2>3, <3>2, <4>1, <4>2
    <3>4. CASE ~(k <= m)
      <4>1. k = m + 1 /\ k - 1 = m
        BY <2>2, <3>4
      <4>2. h[k] = e
        BY <3>1, <3>4
      <4> QED
        BY <3>2, <4>1, <4>2 DEF e
    <3> QED
      BY <3>3, <3>4
  <2> HIDE DEF h
  <2>9. h \in Runs(W, b, m + 1, step)
    BY <2>6, <2>7, <2>8 DEF Runs
  <2> QED
    BY <2>2, <2>9
<1> HIDE DEF T
<1>4. T = 0..n
  BY <1>1, <1>2, <1>3, InductionUpTo
<1>5. n \in T
  BY <1>4
<1> QED
  BY <1>5 DEF T

\* Two functions that start alike and go on alike are alike.
LEMMA Alike ==
    ASSUME NEW n \in Nat, NEW f, NEW h, f[0] = h[0],
           \A k \in 1..n : f[k - 1] = h[k - 1] => f[k] = h[k]
    PROVE  \A k \in 0..n : f[k] = h[k]
<1> DEFINE T == {k \in 0..n : f[k] = h[k]}
<1>1. T \in SUBSET (0..n) /\ 0 \in T
  OBVIOUS
<1>2. ASSUME NEW k \in T, k < n PROVE k + 1 \in T
  <2>1. k + 1 \in 1..n /\ (k + 1) - 1 = k /\ k + 1 \in 0..n
    BY <1>2
  <2>2. f[k + 1] = h[k + 1]
    BY <2>1
  <2> QED
    BY <2>1, <2>2
<1> HIDE DEF T
<1>3. T = 0..n
  BY <1>1, <1>2, InductionUpTo
<1> QED
  BY <1>3 DEF T

-----------------------------------------------------------------------------
(* The lexer, a character at a time.                                       *)

\* There is always a last word.
Words(S) == Seq(Seq(S)) \ {<<>>}

LEMMA ReadProperties ==
    ASSUME NEW S, NEW w \in Words(S), NEW x \in S, NEW sep
    PROVE  /\ Len(w) \in Nat \ {0}
           /\ w[Len(w)] \in Seq(S)
           /\ Read(w, x, sep) \in Words(S)
           /\ x = sep => /\ Len(Read(w, x, sep)) = Len(w) + 1
                         /\ Read(w, x, sep)[Len(w) + 1] = <<>>
                         /\ \A i \in 1..Len(w) : Read(w, x, sep)[i] = w[i]
           /\ x # sep => /\ Len(Read(w, x, sep)) = Len(w)
                         /\ Read(w, x, sep)[Len(w)] = Append(w[Len(w)], x)
                         /\ \A i \in 1..(Len(w) - 1) : Read(w, x, sep)[i] = w[i]
<1> DEFINE n == Len(w)
<1>1. w \in Seq(Seq(S)) /\ w # <<>> /\ n \in Nat \ {0} /\ n \in 1..n
  BY EmptySeq DEF Words
<1>2. w[n] \in Seq(S)
  BY <1>1, ElementOfSeq
<1>3. CASE x = sep
  <2>1. Read(w, x, sep) = Append(w, <<>>)
    BY <1>3 DEF Read, NextWord
  <2>2. <<>> \in Seq(S)
    BY EmptySeq
  <2> QED
    BY <1>1, <1>2, <1>3, <2>1, <2>2, AppendProperties DEF Words
<1>4. CASE x # sep
  <2> DEFINE e == Append(w[n], x)
             v == [w EXCEPT ![n] = e]
  <2>1. Read(w, x, sep) = v
    BY <1>4 DEF Read
  <2>2. e \in Seq(S)
    BY <1>2, AppendProperties
  <2> HIDE DEF e
  <2>3. /\ v \in Seq(Seq(S)) /\ Len(v) = n
        /\ \A j \in 1..n : v[j] = IF j = n THEN e ELSE w[j]
    BY <1>1, <2>2, ExceptSeq
  <2> HIDE DEF v
  <2>4. v # <<>>
    BY <1>1, <2>3, EmptySeq
  <2>5. v[n] = e
    BY <1>1, <2>3
  <2>6. ASSUME NEW i \in 1..(n - 1) PROVE v[i] = w[i]
    <3>1. i \in 1..n /\ i # n
      BY <1>1
    <3> QED
      BY <2>3, <3>1
  <2> USE DEF e
  <2> QED
    BY <1>1, <1>2, <1>4, <2>1, <2>3, <2>4, <2>5, <2>6 DEF Words
<1> QED
  BY <1>3, <1>4

\* The words as they are after k characters.
LexOf(str, sep) ==
    CHOOSE words : words = [k \in 0..Len(str) |->
        IF k = 0 THEN <<<<>>>> ELSE Read(words[k - 1], str[k], sep)]

LEMMA LexIsLexOf ==
    ASSUME NEW str, NEW sep
    PROVE  Lex(str, sep) = LexOf(str, sep)[Len(str)]
  BY DEF Lex, LexOf

LEMMA LexFunction ==
    ASSUME NEW S, NEW str \in Seq(S), NEW sep
    PROVE  /\ LexOf(str, sep) \in [0..Len(str) -> Words(S)]
           /\ LexOf(str, sep)[0] = <<<<>>>>
           /\ \A k \in 1..Len(str) :
                  LexOf(str, sep)[k] = Read(LexOf(str, sep)[k - 1], str[k], sep)
<1> DEFINE W == Words(S)
           g == [p \in W \X (1..Len(str)) |-> Read(p[1], str[p[2]], sep)]
           Reads(f) == [k \in 0..Len(str) |->
                            IF k = 0 THEN <<<<>>>> ELSE Read(f[k - 1], str[k], sep)]
<1>0. PICK n \in Nat : n = Len(str)
  BY LenProperties
<1>1. \A k \in 1..n : str[k] \in S
  BY <1>0, ElementOfSeq
<1>2. <<<<>>>> \in W
  <2>1. <<>> \in Seq(S)
    BY EmptySeq
  <2>2. <<<<>>>> \in Seq(Seq(S)) /\ <<<<>>>> # <<>>
    BY <2>1
  <2> QED
    BY <2>2 DEF Words
<1>3. \A w \in W, x \in S : Read(w, x, sep) \in W
  BY ReadProperties
<1>4. \A w \in W, k \in 1..n : g[<<w, k>>] = Read(w, str[k], sep)
  BY <1>0
<1>5. \A w \in W, k \in 1..n : g[<<w, k>>] \in W
  BY <1>1, <1>3, <1>4
<1> HIDE DEF W, g
<1>6. PICK f : /\ f \in [0..n -> W]
               /\ f[0] = <<<<>>>>
               /\ \A k \in 1..n : f[k] = g[<<f[k - 1], k>>]
  <2> DEFINE b == <<<<>>>>
  <2>1. b \in W
    BY <1>2
  <2> HIDE DEF b
  <2>2. Runs(W, b, n, g) # {}
    BY <2>1, <1>5, RunExists
  <2>3. PICK f : f \in Runs(W, b, n, g)
    BY <2>2
  <2> QED
    BY <2>3 DEF b, Runs
<1>7. ASSUME NEW k \in 1..n PROVE f[k] = Read(f[k - 1], str[k], sep)
  <2>1. k - 1 \in 0..n
    OBVIOUS
  <2>2. f[k - 1] \in W
    BY <1>6, <2>1
  <2> QED
    BY <1>4, <1>6, <2>2
<1>8. f = Reads(f)
  <2>1. ASSUME NEW k \in 0..n, k # 0 PROVE f[k] = Read(f[k - 1], str[k], sep)
    BY <2>1, <1>7
  <2> QED
    BY <1>0, <1>6, <2>1
<1>9. LexOf(str, sep) = Reads(LexOf(str, sep))
  BY <1>8 DEF LexOf
<1> HIDE DEF Reads
<1>10. \A k \in 0..n : LexOf(str, sep)[k] = f[k]
  <2>1. PICK h : h = LexOf(str, sep)
    OBVIOUS
  <2>2. h = Reads(h)
    BY <1>9, <2>1
  <2>3. h[0] = <<<<>>>>
    BY <1>0, <2>2 DEF Reads
  <2>4. ASSUME NEW k \in 1..n, f[k - 1] = h[k - 1] PROVE f[k] = h[k]
    <3>1. k \in 0..n /\ k # 0
      OBVIOUS
    <3>2. h[k] = Read(h[k - 1], str[k], sep)
      BY <1>0, <2>2, <3>1 DEF Reads
    <3> QED
      BY <1>7, <2>4, <3>2
  <2>5. f[0] = h[0]
    BY <1>6, <2>3
  <2>6. \A k \in 0..n : f[k] = h[k]
    BY <2>4, <2>5, Alike, SMTT(60)
  <2> QED
    BY <2>1, <2>6
<1>11. LexOf(str, sep) = f
  <2>1. LexOf(str, sep) = [k \in 0..n |-> LexOf(str, sep)[k]]
    BY <1>0, <1>9 DEF Reads
  <2> QED
    BY <1>6, <1>10, <2>1
<1> USE DEF W
<1> QED
  BY <1>0, <1>6, <1>7, <1>11

LEMMA LexEmpty ==
    ASSUME NEW sep
    PROVE  Lex(<<>>, sep) = <<<<>>>>
<1>1. <<>> \in Seq({}) /\ Len(<<>>) = 0
  BY EmptySeq
<1> QED
  BY <1>1, LexFunction, LexIsLexOf

LEMMA LexAppend ==
    ASSUME NEW S, NEW s \in Seq(S), NEW x \in S, NEW sep
    PROVE  /\ Lex(s, sep) \in Words(S)
           /\ Lex(Append(s, x), sep) = Read(Lex(s, sep), x, sep)
<1> DEFINE t == Append(s, x)
<1>0. PICK n \in Nat : n = Len(s)
  BY LenProperties
<1>1. t \in Seq(S) /\ Len(t) = n + 1 /\ (\A k \in 1..n : t[k] = s[k]) /\ t[n + 1] = x
  BY <1>0, AppendProperties
<1> HIDE DEF t
<1>2. PICK f : f = LexOf(s, sep)
  OBVIOUS
<1>3. PICK h : h = LexOf(t, sep)
  OBVIOUS
<1>4. /\ f \in [0..n -> Words(S)] /\ f[0] = <<<<>>>>
      /\ \A k \in 1..n : f[k] = Read(f[k - 1], s[k], sep)
  BY <1>0, <1>2, LexFunction
<1>5. /\ h[0] = <<<<>>>>
      /\ \A k \in 1..(n + 1) : h[k] = Read(h[k - 1], t[k], sep)
  BY <1>1, <1>3, LexFunction
<1>6. f[0] = h[0]
  BY <1>4, <1>5
<1>7. ASSUME NEW k \in 1..n, f[k - 1] = h[k - 1] PROVE f[k] = h[k]
  <2>1. k \in 1..(n + 1)
    OBVIOUS
  <2> QED
    BY <1>1, <1>4, <1>5, <1>7, <2>1
<1>8. \A k \in 0..n : f[k] = h[k]
  BY <1>6, <1>7, Alike, SMTT(60)
<1>9. n \in 0..n /\ n + 1 \in 1..(n + 1) /\ (n + 1) - 1 = n
  OBVIOUS
<1>10. h[n + 1] = Read(f[n], x, sep)
  BY <1>1, <1>5, <1>8, <1>9
<1>11. f[n] \in Words(S) /\ Lex(s, sep) = f[n]
  BY <1>0, <1>2, <1>4, <1>9, LexIsLexOf
<1>12. Lex(t, sep) = h[n + 1]
  BY <1>1, <1>3, LexIsLexOf
<1> QED
  BY <1>10, <1>11, <1>12 DEF t

LEMMA LexWords ==
    ASSUME NEW S, NEW s \in Seq(S), NEW sep
    PROVE  /\ Lex(s, sep) \in Words(S)
           /\ Lex(s, sep) \in Seq(Seq(S)) /\ Len(Lex(s, sep)) \in Nat \ {0}
<1>1. Len(s) \in Nat /\ Len(s) \in 0..Len(s)
  BY LenProperties
<1>2. Lex(s, sep) \in Words(S)
  BY <1>1, LexFunction, LexIsLexOf
<1> QED
  BY <1>2, EmptySeq DEF Words

-----------------------------------------------------------------------------
(* The scan of the credentials, a character at a time.                     *)

Scans(S) == [status : {0, 1, 2}, uname : Seq(S), passwd : Seq(S)]
Unscanned == [status |-> Rank.GotNeither, uname |-> <<>>, passwd |-> <<>>]

ScanOf(str) ==
    CHOOSE scan : scan = [k \in 0..Len(str) |->
        IF k = 0
        THEN [status |-> Rank.GotNeither, uname |-> <<>>, passwd |-> <<>>]
        ELSE Scanned(scan[k - 1], str[k])]

LEMMA ScanIsScanOf ==
    ASSUME NEW str
    PROVE  Scan(str) = ScanOf(str)[Len(str)]
  BY DEF Scan, ScanOf

LEMMA Ranks == Rank.GotNeither = 0 /\ Rank.GotUsername = 1
               /\ Rank.GotUsernameAndPassword = 2
  BY DEF Rank

LEMMA ScannedTyped ==
    ASSUME NEW S, NEW s \in Scans(S), NEW x \in S
    PROVE  Scanned(s, x) \in Scans(S)
<1>1. \A t \in Seq(S) : Append(t, x) \in Seq(S)
  BY AppendProperties
<1>2. s.uname \in Seq(S) /\ s.passwd \in Seq(S) /\ s.status \in {0, 1, 2}
  BY DEF Scans
<1>3. AfterSep(s.status) \in {0, 1, 2}
  BY Ranks DEF AfterSep
<1>4. Append(s.uname, x) \in Seq(S) /\ Append(s.passwd, x) \in Seq(S)
  BY <1>1, <1>2
<1>5. [s EXCEPT !.status = AfterSep(s.status)] \in Scans(S)
  BY <1>2, <1>3 DEF Scans
<1>6. [s EXCEPT !.uname = Append(s.uname, x)] \in Scans(S)
  BY <1>2, <1>4 DEF Scans
<1>7. [s EXCEPT !.passwd = Append(s.passwd, x)] \in Scans(S)
  BY <1>2, <1>4 DEF Scans
<1>8. CASE x = Sep
  BY <1>5, <1>8 DEF Scanned
<1>9. CASE x # Sep /\ s.status = Rank.GotNeither
  BY <1>6, <1>9, Ranks DEF Scanned
<1>10. CASE x # Sep /\ s.status = Rank.GotUsername
  BY <1>7, <1>10, Ranks DEF Scanned
<1>11. CASE x # Sep /\ s.status # Rank.GotNeither /\ s.status # Rank.GotUsername
  BY <1>11 DEF Scanned
<1> QED
  BY <1>8, <1>9, <1>10, <1>11

LEMMA ScanFunction ==
    ASSUME NEW S, NEW str \in Seq(S)
    PROVE  /\ ScanOf(str) \in [0..Len(str) -> Scans(S)]
           /\ ScanOf(str)[0] = Unscanned
           /\ \A k \in 1..Len(str) : ScanOf(str)[k] = Scanned(ScanOf(str)[k - 1], str[k])
<1> DEFINE W == Scans(S)
           b == [status |-> Rank.GotNeither, uname |-> <<>>, passwd |-> <<>>]
           g == [p \in W \X (1..Len(str)) |-> Scanned(p[1], str[p[2]])]
           Reads(f) == [k \in 0..Len(str) |->
                            IF k = 0 THEN b ELSE Scanned(f[k - 1], str[k])]
<1>0. PICK n \in Nat : n = Len(str)
  BY LenProperties
<1>1. \A k \in 1..n : str[k] \in S
  BY <1>0, ElementOfSeq
<1>2. b \in W
  <2>1. <<>> \in Seq(S)
    BY EmptySeq
  <2> QED
    BY <2>1, Ranks DEF Scans
<1>3. \A w \in W, x \in S : Scanned(w, x) \in W
  BY ScannedTyped
<1>4. \A w \in W, k \in 1..n : g[<<w, k>>] = Scanned(w, str[k])
  BY <1>0
<1>5. \A w \in W, k \in 1..n : g[<<w, k>>] \in W
  BY <1>1, <1>3, <1>4
<1>6. b = Unscanned
  BY DEF Unscanned
<1> HIDE DEF W, g, b
<1>7. PICK f : f \in Runs(W, b, n, g)
  BY <1>2, <1>5, RunExists
<1>8. /\ f \in [0..n -> W] /\ f[0] = b
      /\ \A k \in 1..n : f[k] = g[<<f[k - 1], k>>]
  BY <1>7 DEF Runs
<1>9. ASSUME NEW k \in 1..n PROVE f[k] = Scanned(f[k - 1], str[k])
  <2>1. k - 1 \in 0..n
    OBVIOUS
  <2>2. f[k - 1] \in W
    BY <1>8, <2>1
  <2> QED
    BY <1>4, <1>8, <2>2
<1>10. f = Reads(f)
  <2>1. ASSUME NEW k \in 0..n, k # 0 PROVE f[k] = Scanned(f[k - 1], str[k])
    BY <2>1, <1>9
  <2> QED
    BY <1>0, <1>8, <2>1
<1> USE DEF b
<1>11. ScanOf(str) = Reads(ScanOf(str))
  BY <1>10 DEF ScanOf
<1> HIDE DEF b, Reads
<1>12. PICK h : h = ScanOf(str)
  OBVIOUS
<1>13. h[0] = b
  BY <1>0, <1>11, <1>12 DEF Reads
<1>14. ASSUME NEW k \in 1..n, f[k - 1] = h[k - 1] PROVE f[k] = h[k]
  <2>1. k \in 0..n /\ k # 0
    OBVIOUS
  <2>2. h[k] = Scanned(h[k - 1], str[k])
    BY <1>0, <1>11, <1>12, <2>1 DEF Reads
  <2> QED
    BY <1>9, <1>14, <2>2
<1>15. f[0] = h[0]
  BY <1>8, <1>13
<1>16. \A k \in 0..n : f[k] = h[k]
  BY <1>14, <1>15, Alike, SMTT(60)
<1>17. h = f
  <2>1. h = [k \in 0..n |-> h[k]]
    BY <1>0, <1>11, <1>12 DEF Reads
  <2> QED
    BY <1>8, <1>16, <2>1
<1> USE DEF W
<1> QED
  BY <1>0, <1>6, <1>8, <1>9, <1>12, <1>17

LEMMA ScanEmpty == Scan(<<>>) = Unscanned
<1>1. <<>> \in Seq({}) /\ Len(<<>>) = 0
  BY EmptySeq
<1> QED
  BY <1>1, ScanFunction, ScanIsScanOf

LEMMA ScanAppend ==
    ASSUME NEW S, NEW s \in Seq(S), NEW x \in S
    PROVE  /\ Scan(s) \in Scans(S)
           /\ Scan(Append(s, x)) = Scanned(Scan(s), x)
<1> DEFINE t == Append(s, x)
<1>0. PICK n \in Nat : n = Len(s)
  BY LenProperties
<1>1. t \in Seq(S) /\ Len(t) = n + 1 /\ (\A k \in 1..n : t[k] = s[k]) /\ t[n + 1] = x
  BY <1>0, AppendProperties
<1> HIDE DEF t
<1>2. PICK f : f = ScanOf(s)
  OBVIOUS
<1>3. PICK h : h = ScanOf(t)
  OBVIOUS
<1>4. /\ f \in [0..n -> Scans(S)] /\ f[0] = Unscanned
      /\ \A k \in 1..n : f[k] = Scanned(f[k - 1], s[k])
  BY <1>0, <1>2, ScanFunction
<1>5. /\ h[0] = Unscanned
      /\ \A k \in 1..(n + 1) : h[k] = Scanned(h[k - 1], t[k])
  BY <1>1, <1>3, ScanFunction
<1>6. f[0] = h[0]
  BY <1>4, <1>5
<1>7. ASSUME NEW k \in 1..n, f[k - 1] = h[k - 1] PROVE f[k] = h[k]
  <2>1. k \in 1..(n + 1)
    OBVIOUS
  <2> QED
    BY <1>1, <1>4, <1>5, <1>7, <2>1
<1>8. \A k \in 0..n : f[k] = h[k]
  BY <1>6, <1>7, Alike, SMTT(60)
<1>9. n \in 0..n /\ n + 1 \in 1..(n + 1) /\ (n + 1) - 1 = n
  OBVIOUS
<1>10. h[n + 1] = Scanned(f[n], x)
  BY <1>1, <1>5, <1>8, <1>9
<1>11. f[n] \in Scans(S) /\ Scan(s) = f[n]
  BY <1>0, <1>2, <1>4, <1>9, ScanIsScanOf
<1>12. Scan(t) = h[n + 1]
  BY <1>1, <1>3, ScanIsScanOf
<1> QED
  BY <1>10, <1>11, <1>12 DEF t

\* The scan keeps the first two of the words the separators make.
ScanFields(w) ==
    [status |-> IF Len(w) = 1 THEN 0 ELSE IF Len(w) = 2 THEN 1 ELSE 2,
     uname |-> w[1],
     passwd |-> IF Len(w) = 1 THEN <<>> ELSE w[2]]

LEMMA ScanFieldsRead ==
    ASSUME NEW S, NEW w \in Words(S), NEW x \in S
    PROVE  Scanned(ScanFields(w), x) = ScanFields(Read(w, x, Sep))
<1>1. PICK v : v = Read(w, x, Sep)
  OBVIOUS
<1>2. PICK n \in Nat : n = Len(w) /\ n # 0
  BY ReadProperties
<1>3. /\ x = Sep => /\ Len(v) = n + 1 /\ v[n + 1] = <<>>
                    /\ \A i \in 1..n : v[i] = w[i]
      /\ x # Sep => /\ Len(v) = n /\ v[n] = Append(w[n], x)
                    /\ \A i \in 1..(n - 1) : v[i] = w[i]
  BY <1>1, <1>2, ReadProperties
<1>4. PICK r : r = [status |-> IF n = 1 THEN 0 ELSE IF n = 2 THEN 1 ELSE 2,
                    uname |-> w[1],
                    passwd |-> IF n = 1 THEN <<>> ELSE w[2]]
  OBVIOUS
<1>5. ScanFields(w) = r
  BY <1>2, <1>4 DEF ScanFields
<1>6. CASE x = Sep
  <2>1. Scanned(r, x) = [r EXCEPT !.status = AfterSep(r.status)]
    BY <1>6 DEF Scanned
  <2>2. AfterSep(r.status) = IF n = 1 THEN 1 ELSE 2
    BY <1>2, <1>4, Ranks DEF AfterSep
  <2>3. Scanned(r, x) = [status |-> IF n = 1 THEN 1 ELSE 2, uname |-> w[1],
                         passwd |-> IF n = 1 THEN <<>> ELSE w[2]]
    BY <1>4, <2>1, <2>2
  <2>4. Len(v) = n + 1 /\ v[n + 1] = <<>> /\ v[1] = w[1] /\ (n # 1 => v[2] = w[2])
    <3>1. 1 \in 1..n /\ (n # 1 => 2 \in 1..n)
      BY <1>2
    <3> QED
      BY <1>3, <1>6, <3>1
  <2>5. /\ n + 1 # 1 /\ (n + 1 = 2 <=> n = 1)
        /\ (n = 1 => v[2] = <<>>)
    BY <1>2, <2>4
  <2>6. ScanFields(v) = [status |-> IF n = 1 THEN 1 ELSE 2, uname |-> w[1],
                         passwd |-> IF n = 1 THEN <<>> ELSE w[2]]
    BY <2>4, <2>5 DEF ScanFields
  <2> QED
    BY <1>1, <1>5, <2>3, <2>6
<1>7. CASE x # Sep /\ n = 1
  <2>1. Scanned(r, x) = [r EXCEPT !.uname = Append(r.uname, x)]
    BY <1>4, <1>7, Ranks DEF Scanned
  <2>2. Scanned(r, x) = [status |-> 0, uname |-> Append(w[1], x), passwd |-> <<>>]
    BY <1>4, <1>7, <2>1
  <2>3. Len(v) = 1 /\ v[1] = Append(w[1], x)
    BY <1>3, <1>7
  <2> QED
    BY <1>1, <1>5, <2>2, <2>3 DEF ScanFields
<1>8. CASE x # Sep /\ n = 2
  <2>1. Scanned(r, x) = [r EXCEPT !.passwd = Append(r.passwd, x)]
    BY <1>4, <1>8, Ranks DEF Scanned
  <2>2. r = [status |-> 1, uname |-> w[1], passwd |-> w[2]]
    BY <1>4, <1>8
  <2>3. PICK e : e = Append(w[2], x)
    OBVIOUS
  <2>4. Scanned(r, x) = [r EXCEPT !.passwd = e]
    BY <2>1, <2>2, <2>3
  <2>5. Scanned(r, x) = [status |-> 1, uname |-> w[1], passwd |-> e]
    BY <2>2, <2>4
  <2>6. Len(v) = 2 /\ v[2] = e /\ v[1] = w[1]
    BY <1>3, <1>8, <2>3
  <2>7. ScanFields(v) = [status |-> 1, uname |-> w[1], passwd |-> e]
    BY <2>6 DEF ScanFields
  <2> QED
    BY <1>1, <1>5, <2>5, <2>7
<1>9. CASE x # Sep /\ n # 1 /\ n # 2
  <2>1. Scanned(r, x) = r
    BY <1>4, <1>9, Ranks DEF Scanned
  <2>2. Len(v) = n /\ v[1] = w[1] /\ v[2] = w[2]
    <3>1. 1 \in 1..(n - 1) /\ 2 \in 1..(n - 1)
      BY <1>2, <1>9
    <3> QED
      BY <1>3, <1>9, <3>1
  <2> QED
    BY <1>1, <1>4, <1>5, <1>9, <2>1, <2>2 DEF ScanFields
<1> QED
  BY <1>6, <1>7, <1>8, <1>9

LEMMA ScanKeeps ==
    ASSUME NEW S, NEW s \in Seq(S)
    PROVE  Scan(s) = ScanFields(Lex(s, Sep))
<1> DEFINE T == {t \in Seq(S) : Scan(t) = ScanFields(Lex(t, Sep))}
<1>1. <<>> \in T
  <2>1. Scan(<<>>) = [status |-> 0, uname |-> <<>>, passwd |-> <<>>]
    BY ScanEmpty, Ranks DEF Unscanned
  <2>2. PICK w : w = <<<<>>>>
    OBVIOUS
  <2>3. Len(w) = 1 /\ w[1] = <<>>
    BY <2>2
  <2>4. Lex(<<>>, Sep) = w
    BY <2>2, LexEmpty
  <2>5. ScanFields(w) = [status |-> 0, uname |-> <<>>, passwd |-> <<>>]
    BY <2>3 DEF ScanFields
  <2> QED
    BY <2>1, <2>4, <2>5, EmptySeq
<1>2. ASSUME NEW t \in T, NEW x \in S PROVE Append(t, x) \in T
  <2>1. Append(t, x) \in Seq(S) /\ t \in Seq(S)
    BY AppendProperties
  <2>2. PICK w \in Words(S) : w = Lex(t, Sep)
    BY <2>1, LexWords
  <2>3. Lex(Append(t, x), Sep) = Read(w, x, Sep)
    BY <2>1, <2>2, LexAppend
  <2>4. Scan(Append(t, x)) = Scanned(ScanFields(w), x)
    BY <2>1, <2>2, ScanAppend
  <2>5. Scanned(ScanFields(w), x) = ScanFields(Read(w, x, Sep))
    BY ScanFieldsRead
  <2> QED
    BY <2>1, <2>3, <2>4, <2>5
<1> HIDE DEF T
<1>3. T = Seq(S)
  <2>1. T \in SUBSET Seq(S)
    BY DEF T
  <2> QED
    BY <1>1, <1>2, <2>1, SeqInduction
<1> QED
  BY <1>3 DEF T

-----------------------------------------------------------------------------
(* FlattenSeq, an element at a time.                                       *)

FlattenOf(seqs) ==
    CHOOSE flatten : flatten = [i \in 1..Len(seqs) |->
        IF i = 1 THEN seqs[i] ELSE flatten[i - 1] \o seqs[i]]

LEMMA FlattenIsFlattenOf ==
    ASSUME NEW seqs
    PROVE  FlattenSeq(seqs) = IF Len(seqs) = 0 THEN seqs ELSE FlattenOf(seqs)[Len(seqs)]
  BY DEF FlattenSeq, FlattenOf

LEMMA FlattenFunction ==
    ASSUME NEW S, NEW ss \in Seq(Seq(S))
    PROVE  \E f : /\ f \in [0..Len(ss) -> Seq(S)]
                  /\ f[0] = <<>>
                  /\ \A k \in 1..Len(ss) : f[k] = f[k - 1] \o ss[k]
                  /\ FlattenSeq(ss) = f[Len(ss)]
<1> DEFINE W == Seq(S)
           g == [p \in W \X (1..Len(ss)) |-> p[1] \o ss[p[2]]]
           Flattens(f) == [i \in 1..Len(ss) |-> IF i = 1 THEN ss[i] ELSE f[i - 1] \o ss[i]]
<1>0. PICK n \in Nat : n = Len(ss)
  BY LenProperties
<1>1. \A k \in 1..n : ss[k] \in W
  BY <1>0, ElementOfSeq
<1>2. \A w \in W, k \in 1..n : g[<<w, k>>] = w \o ss[k]
  BY <1>0
<1>3. \A w \in W, k \in 1..n : w \o ss[k] \in W
  BY <1>1, ConcatProperties
<1>4. \A w \in W, k \in 1..n : g[<<w, k>>] \in W
  BY <1>2, <1>3
<1> DEFINE b == <<>>
<1>5. b \in W /\ \A w \in W : b \o w = w
  BY EmptySeq, ConcatEmptySeq
<1> HIDE DEF W, g, b
<1>6. PICK f : f \in Runs(W, b, n, g)
  BY <1>4, <1>5, RunExists
<1>7. /\ f \in [0..n -> W] /\ f[0] = b
      /\ \A k \in 1..n : f[k] = g[<<f[k - 1], k>>]
  BY <1>6 DEF Runs
<1>8. ASSUME NEW k \in 1..n PROVE f[k] = f[k - 1] \o ss[k]
  <2>1. k - 1 \in 0..n
    OBVIOUS
  <2>2. f[k - 1] \in W
    BY <1>7, <2>1
  <2> QED
    BY <1>2, <1>7, <2>2
<1>9. CASE n = 0
  <2>1. FlattenSeq(ss) = ss
    BY <1>0, <1>9, FlattenIsFlattenOf
  <2>2. ss = b
    BY <1>0, <1>9, EmptySeq DEF b
  <2> QED
    BY <1>0, <1>7, <1>8, <1>9, <2>1, <2>2 DEF b, W
<1>10. CASE n # 0
  <2>1. 1 \in 1..n
    BY <1>10
  <2>2. f[1] = ss[1]
    <3>1. f[1] = f[0] \o ss[1]
      <4>1. f[1] = f[1 - 1] \o ss[1]
        BY <1>8, <2>1
      <4> QED
        BY <4>1
    <3> QED
      BY <1>1, <1>5, <1>7, <2>1, <3>1
  <2>3. PICK h : h = [i \in 1..n |-> f[i]]
    OBVIOUS
  <2>4. h = Flattens(h)
    <3>1. ASSUME NEW i \in 1..n, i # 1 PROVE h[i] = h[i - 1] \o ss[i]
      <4>1. i - 1 \in 1..n
        BY <3>1
      <4> QED
        BY <1>8, <2>3, <4>1
    <3> QED
      BY <1>0, <2>2, <2>3, <3>1
  <2>5. FlattenOf(ss) = Flattens(FlattenOf(ss))
    BY <2>4 DEF FlattenOf
  <2>6. PICK e : e = FlattenOf(ss)
    OBVIOUS
  <2>7. /\ e[1] = ss[1]
        /\ \A i \in 1..n : i # 1 => e[i] = e[i - 1] \o ss[i]
    BY <1>0, <2>1, <2>5, <2>6
  <2> DEFINE T == {k \in 0..n : k >= 1 => e[k] = f[k]}
  <2>8. T \in SUBSET (0..n) /\ 0 \in T
    OBVIOUS
  <2>9. ASSUME NEW k \in T, k < n PROVE k + 1 \in T
    <3>1. k + 1 \in 1..n /\ k + 1 \in 0..n /\ (k + 1) - 1 = k
      BY <2>9
    <3>2. CASE k = 0
      BY <2>2, <2>7, <3>1, <3>2
    <3>3. CASE k # 0
      <4>1. e[k] = f[k] /\ k + 1 # 1
        BY <3>3
      <4>2. e[k + 1] = e[k] \o ss[k + 1]
        BY <2>7, <3>1, <4>1
      <4>3. f[k + 1] = f[k] \o ss[k + 1]
        BY <1>8, <3>1
      <4> QED
        BY <3>1, <4>1, <4>2, <4>3
    <3> QED
      BY <3>2, <3>3
  <2> HIDE DEF T
  <2>10. T = 0..n
    BY <2>8, <2>9, InductionUpTo
  <2>11. n \in 0..n /\ n >= 1
    BY <1>10
  <2>12. e[n] = f[n]
    BY <2>10, <2>11 DEF T
  <2>13. FlattenSeq(ss) = e[n]
    BY <1>0, <1>10, <2>6, FlattenIsFlattenOf
  <2> QED
    BY <1>0, <1>7, <1>8, <2>12, <2>13 DEF b, W
<1> QED
  BY <1>9, <1>10

LEMMA FlattenEmpty == FlattenSeq(<<>>) = <<>>
<1>1. <<>> \in Seq(Seq({})) /\ Len(<<>>) = 0
  BY EmptySeq
<1> QED
  BY <1>1, FlattenFunction

LEMMA FlattenAppend ==
    ASSUME NEW S, NEW ss \in Seq(Seq(S)), NEW e \in Seq(S)
    PROVE  /\ FlattenSeq(ss) \in Seq(S)
           /\ FlattenSeq(Append(ss, e)) = FlattenSeq(ss) \o e
<1> DEFINE t == Append(ss, e)
<1>0. PICK n \in Nat : n = Len(ss)
  BY LenProperties
<1>1. /\ t \in Seq(Seq(S)) /\ Len(t) = n + 1
      /\ (\A k \in 1..n : t[k] = ss[k]) /\ t[n + 1] = e
  BY <1>0, AppendProperties
<1> HIDE DEF t
<1>2. PICK f : /\ f \in [0..n -> Seq(S)] /\ f[0] = <<>>
               /\ \A k \in 1..n : f[k] = f[k - 1] \o ss[k]
               /\ FlattenSeq(ss) = f[n]
  BY <1>0, FlattenFunction
<1>3. PICK h : /\ h[0] = <<>>
               /\ \A k \in 1..(n + 1) : h[k] = h[k - 1] \o t[k]
               /\ FlattenSeq(t) = h[n + 1]
  <2>1. PICK m \in Nat : m = n + 1
    OBVIOUS
  <2>2. Len(t) = m
    BY <1>1, <2>1
  <2>3. \E h : /\ h \in [0..m -> Seq(S)] /\ h[0] = <<>>
               /\ \A k \in 1..m : h[k] = h[k - 1] \o t[k]
               /\ FlattenSeq(t) = h[m]
    BY <1>1, <2>2, FlattenFunction
  <2> QED
    BY <2>1, <2>3
<1>4. f[0] = h[0]
  BY <1>2, <1>3
<1>5. ASSUME NEW k \in 1..n, f[k - 1] = h[k - 1] PROVE f[k] = h[k]
  <2>1. k \in 1..(n + 1)
    OBVIOUS
  <2> QED
    BY <1>1, <1>2, <1>3, <1>5, <2>1
<1>6. \A k \in 0..n : f[k] = h[k]
  BY <1>4, <1>5, Alike, ZenonT(60)
<1>7. n \in 0..n /\ n + 1 \in 1..(n + 1) /\ (n + 1) - 1 = n
  OBVIOUS
<1>8. h[n + 1] = f[n] \o e
  BY <1>1, <1>3, <1>6, <1>7
<1>9. f[n] \in Seq(S)
  BY <1>2, <1>7
<1> QED
  BY <1>2, <1>3, <1>8, <1>9 DEF t

-----------------------------------------------------------------------------
(* The lexer takes apart what was packed.                                  *)

LEMMA ReadLast ==
    ASSUME NEW S, NEW w \in Seq(Seq(S)), NEW t \in Seq(S), NEW x \in S, NEW sep, x # sep
    PROVE  Read(Append(w, t), x, sep) = Append(w, Append(t, x))
<1> DEFINE v == Append(w, t)
           e == Append(t, x)
           y == Append(w, e)
           z == Read(v, x, sep)
<1>0. PICK n \in Nat : n = Len(w)
  BY LenProperties
<1>1. e \in Seq(S)
  BY AppendProperties
<1>2. /\ v \in Seq(Seq(S)) /\ v # <<>> /\ Len(v) = n + 1
      /\ (\A i \in 1..n : v[i] = w[i]) /\ v[n + 1] = t
  BY <1>0, AppendProperties
<1> HIDE DEF v
<1>3. v \in Words(S)
  BY <1>2 DEF Words
<1>4. /\ z \in Words(S) /\ Len(z) = Len(v) /\ z[Len(v)] = Append(v[Len(v)], x)
      /\ \A i \in 1..(Len(v) - 1) : z[i] = v[i]
  BY <1>3, ReadProperties
<1> HIDE DEF e, z
<1>5. /\ y \in Seq(Seq(S)) /\ Len(y) = n + 1
      /\ (\A i \in 1..n : y[i] = w[i]) /\ y[n + 1] = e
  BY <1>0, <1>1, AppendProperties
<1> HIDE DEF y
<1>6. z \in Seq(Seq(S)) /\ Len(z) = n + 1
  BY <1>2, <1>4 DEF Words
<1>7. z[n + 1] = e
  BY <1>2, <1>4 DEF e
<1>8. \A i \in 1..n : z[i] = w[i]
  BY <1>2, <1>4
<1>9. ASSUME NEW i \in 1..(n + 1) PROVE z[i] = y[i]
  <2>1. i \in 1..n \/ i = n + 1
    OBVIOUS
  <2> QED
    BY <1>5, <1>7, <1>8, <2>1
<1>10. z = y
  BY <1>5, <1>6, <1>9, SeqEqual
<1> QED
  BY <1>10 DEF e, v, y, z

\* Text without a separator is one word,
LEMMA LexWord ==
    ASSUME NEW S, NEW sep, sep \notin S, NEW t \in Seq(S)
    PROVE  Lex(t, sep) = <<t>>
<1> DEFINE T == {s \in Seq(S) : Lex(s, sep) = <<s>>}
<1>1. <<>> \in T
  BY LexEmpty, EmptySeq
<1>2. ASSUME NEW s \in T, NEW x \in S PROVE Append(s, x) \in T
  <2>1. Append(s, x) \in Seq(S) /\ s \in Seq(S) /\ x # sep
    BY AppendProperties
  <2>2. Lex(Append(s, x), sep) = Read(<<s>>, x, sep)
    BY LexAppend
  <2>3. PICK w \in Seq(Seq(S)) : w = <<>>
    BY EmptySeq
  <2>4. Read(Append(w, s), x, sep) = Append(w, Append(s, x))
    BY <2>1, ReadLast
  <2>5. Append(w, s) = <<s>> /\ Append(w, Append(s, x)) = <<Append(s, x)>>
    BY <2>3
  <2> QED
    BY <2>1, <2>2, <2>4, <2>5
<1> HIDE DEF T
<1>3. T = Seq(S)
  <2>1. T \in SUBSET Seq(S)
    BY DEF T
  <2> QED
    BY <1>1, <1>2, <2>1, SeqInduction
<1> QED
  BY <1>3 DEF T

\* and after a separator it is one word more.
LEMMA LexField ==
    ASSUME NEW S, NEW sep, sep \notin S, NEW s \in Seq(S \cup {sep}), NEW t \in Seq(S)
    PROVE  /\ Append(s, sep) \o t \in Seq(S \cup {sep})
           /\ Lex(Append(s, sep) \o t, sep) = Append(Lex(s, sep), t)
<1> DEFINE R == S \cup {sep}
           v == Append(s, sep)
           w == Lex(s, sep)
           T == {u \in Seq(S) : Lex(v \o u, sep) = Append(w, u)}
<1>1. sep \in R /\ s \in Seq(R) /\ v \in Seq(R)
  BY AppendProperties
<1>2. w \in Seq(Seq(R))
  BY LexWords
<1>3. Lex(v, sep) = Append(w, <<>>)
  <2>1. Lex(v, sep) = Read(w, sep, sep)
    BY <1>1, LexAppend
  <2> QED
    BY <2>1 DEF Read, NextWord
<1> HIDE DEF v, w, R
<1>4. <<>> \in T
  <2>1. v \o <<>> = v
    BY <1>1, ConcatEmptySeq
  <2> QED
    BY <1>3, <2>1, EmptySeq
<1>5. S \subseteq R
  BY DEF R
<1>6. ASSUME NEW u \in T, NEW x \in S PROVE Append(u, x) \in T
  <2>1. Append(u, x) \in Seq(S) /\ u \in Seq(S) /\ u \in Seq(R) /\ x \in R /\ x # sep
    BY <1>5, AppendProperties, SeqMonotonic
  <2>2. v \o Append(u, x) = Append(v \o u, x) /\ v \o u \in Seq(R)
    BY <1>1, <2>1, ConcatAppend
  <2>3. Lex(v \o Append(u, x), sep) = Read(Append(w, u), x, sep)
    <3>1. PICK y \in Seq(R) : y = v \o u
      BY <2>2
    <3>2. Lex(y, sep) = Append(w, u)
      BY <3>1
    <3>3. Lex(Append(y, x), sep) = Read(Lex(y, sep), x, sep)
      BY <2>1, LexAppend
    <3> QED
      BY <2>2, <3>1, <3>2, <3>3
  <2>4. Read(Append(w, u), x, sep) = Append(w, Append(u, x))
    BY <1>2, <2>1, ReadLast
  <2> QED
    BY <2>1, <2>3, <2>4
<1> HIDE DEF T
<1>7. T = Seq(S)
  <2>1. T \in SUBSET Seq(S)
    BY DEF T
  <2> QED
    BY <1>4, <1>6, <2>1, SeqInduction
<1>8. t \in Seq(R)
  BY <1>5, SeqMonotonic
<1>9. v \o t \in Seq(R)
  BY <1>1, <1>8, ConcatProperties
<1> USE DEF R, v, w, T
<1> QED
  BY <1>7, <1>9

LEMMA LexFieldSep ==
    ASSUME NEW S, Sep \notin S, NEW s \in Seq(S \cup {Sep}), NEW t \in Seq(S)
    PROVE  /\ Append(s, Sep) \o t \in Seq(S \cup {Sep})
           /\ Lex(Append(s, Sep) \o t, Sep) = Append(Lex(s, Sep), t)
  BY LexField

\* Whatever two texts hold, with a separator between them the words of the
\* second follow those of the first.
LEMMA ReadJoined ==
    ASSUME NEW S, NEW a \in Words(S), NEW b \in Words(S), NEW x \in S, NEW sep
    PROVE  Read(a \o b, x, sep) = a \o Read(b, x, sep)
<1> DEFINE c == a \o b
           d == Read(b, x, sep)
           y == Read(c, x, sep)
           z == a \o d
<1>1. PICK m \in Nat, n \in Nat : m = Len(a) /\ n = Len(b) /\ m # 0 /\ n # 0
  BY ReadProperties
<1>2. a \in Seq(Seq(S)) /\ b \in Seq(Seq(S))
  BY DEF Words
<1>3. /\ c \in Seq(Seq(S)) /\ Len(c) = m + n
      /\ \A i \in 1..(m + n) : c[i] = IF i <= m THEN a[i] ELSE b[i - m]
  BY <1>1, <1>2, ConcatProperties
<1> HIDE DEF c
<1>4. c \in Words(S)
  BY <1>1, <1>3, EmptySeq DEF Words
<1>5. CASE x = sep
  <2>1. <<>> \in Seq(S)
    BY EmptySeq
  <2>2. y = Append(c, <<>>) /\ d = Append(b, <<>>)
    BY <1>5 DEF Read, NextWord
  <2>3. a \o Append(b, <<>>) = Append(a \o b, <<>>)
    BY <1>2, <2>1, ConcatAppend
  <2> QED
    BY <2>2, <2>3 DEF c
<1>6. CASE x # sep
  <2>1. /\ d \in Seq(Seq(S)) /\ Len(d) = n /\ d[n] = Append(b[n], x)
        /\ \A i \in 1..(n - 1) : d[i] = b[i]
    <3>1. d \in Words(S) /\ Len(d) = Len(b) /\ d[Len(b)] = Append(b[Len(b)], x)
          /\ \A i \in 1..(Len(b) - 1) : d[i] = b[i]
      BY <1>6, ReadProperties
    <3> HIDE DEF d
    <3> QED
      BY <1>1, <3>1 DEF Words
  <2>2. /\ y \in Seq(Seq(S)) /\ Len(y) = m + n /\ y[m + n] = Append(c[m + n], x)
        /\ \A i \in 1..((m + n) - 1) : y[i] = c[i]
    <3>1. PICK k : k = m + n
      OBVIOUS
    <3>2. Len(c) = k
      BY <1>3, <3>1
    <3>3. /\ y \in Seq(Seq(S)) /\ Len(y) = k /\ y[k] = Append(c[k], x)
          /\ \A i \in 1..(k - 1) : y[i] = c[i]
      <4>1. y \in Words(S) /\ Len(y) = Len(c) /\ y[Len(c)] = Append(c[Len(c)], x)
            /\ \A i \in 1..(Len(c) - 1) : y[i] = c[i]
        BY <1>4, <1>6, ReadProperties
      <4> HIDE DEF y
      <4> QED
        BY <3>2, <4>1 DEF Words
    <3> QED
      BY <3>1, <3>3
  <2> HIDE DEF d, y
  <2>3. /\ z \in Seq(Seq(S)) /\ Len(z) = m + n
        /\ \A i \in 1..(m + n) : z[i] = IF i <= m THEN a[i] ELSE d[i - m]
    <3>1. PICK g \in Seq(Seq(S)) : g = d
      BY <2>1
    <3>2. a \in Seq(Seq(S)) /\ Len(a) = m /\ Len(g) = n /\ z = a \o g
      BY <1>1, <1>2, <2>1, <3>1
    <3> HIDE DEF z
    <3>3. /\ a \o g \in Seq(Seq(S)) /\ Len(a \o g) = m + n
          /\ \A i \in 1..(m + n) : (a \o g)[i] = IF i <= m THEN a[i] ELSE g[i - m]
      BY <3>2, ConcatProperties
    <3> QED
      BY <3>1, <3>2, <3>3
  <2> HIDE DEF z
  <2>4. ASSUME NEW i \in 1..(m + n) PROVE y[i] = z[i]
    <3>1. CASE i = m + n
      <4>1. ~(i <= m) /\ i - m = n
        BY <1>1, <3>1
      <4>2. c[i] = b[n] /\ z[i] = d[n]
        BY <1>3, <2>3, <4>1
      <4>3. y[i] = Append(c[i], x)
        BY <2>2, <3>1
      <4> QED
        BY <2>1, <4>2, <4>3
    <3>2. CASE i # m + n /\ i <= m
      <4>1. i \in 1..((m + n) - 1)
        BY <1>1, <3>2
      <4> QED
        BY <1>3, <2>2, <2>3, <3>2, <4>1
    <3>3. CASE i # m + n /\ ~(i <= m)
      <4>1. i \in 1..((m + n) - 1) /\ i - m \in 1..(n - 1)
        BY <1>1, <3>3
      <4>2. y[i] = b[i - m] /\ z[i] = d[i - m]
        BY <1>3, <2>2, <2>3, <3>3, <4>1
      <4> QED
        BY <2>1, <4>1, <4>2
    <3> QED
      BY <3>1, <3>2, <3>3
  <2>5. y = z
    BY <2>2, <2>3, <2>4, SeqEqual
  <2> QED
    BY <2>5 DEF c, d, y, z
<1> QED
  BY <1>5, <1>6

LEMMA LexJoined ==
    ASSUME NEW S, NEW sep \in S, NEW s \in Seq(S), NEW t \in Seq(S)
    PROVE  Lex(Append(s, sep) \o t, sep) = Lex(s, sep) \o Lex(t, sep)
<1> DEFINE v == Append(s, sep)
           T == {u \in Seq(S) : Lex(v \o u, sep) = Lex(s, sep) \o Lex(u, sep)}
<1>1. PICK a \in Words(S) : a = Lex(s, sep)
  BY LexWords
<1>2. v \in Seq(S)
  BY AppendProperties
<1>3. Lex(v, sep) = Append(a, <<>>)
  BY <1>1, LexAppend DEF Read, NextWord
<1> HIDE DEF v
<1>4. <<>> \in T
  <2>1. v \o <<>> = v
    BY <1>2, ConcatEmptySeq
  <2>2. a \in Seq(Seq(S)) /\ <<>> \in Seq(S)
    BY EmptySeq DEF Words
  <2>3. a \o <<<<>>>> = Append(a, <<>>)
    BY <2>2, AppendIsConcat
  <2> QED
    BY <1>1, <1>3, <2>1, <2>2, <2>3, LexEmpty
<1>5. ASSUME NEW u \in T, NEW x \in S PROVE Append(u, x) \in T
  <2>1. Append(u, x) \in Seq(S) /\ u \in Seq(S)
    BY AppendProperties
  <2>2. PICK y \in Seq(S) : y = v \o u /\ v \o Append(u, x) = Append(y, x)
    <3>1. v \o Append(u, x) = Append(v \o u, x) /\ v \o u \in Seq(S)
      BY <1>2, <2>1, ConcatAppend
    <3> QED
      BY <3>1
  <2>3. PICK b \in Words(S) : b = Lex(u, sep)
    BY <2>1, LexWords
  <2>4. Lex(Append(u, x), sep) = Read(b, x, sep)
    BY <2>1, <2>3, LexAppend
  <2>5. Lex(Append(y, x), sep) = Read(Lex(y, sep), x, sep)
    BY LexAppend
  <2>6. Lex(y, sep) = a \o b
    BY <1>1, <2>2, <2>3
  <2>7. Read(a \o b, x, sep) = a \o Read(b, x, sep)
    BY ReadJoined
  <2> QED
    BY <1>1, <2>1, <2>2, <2>4, <2>5, <2>6, <2>7
<1> HIDE DEF T
<1>6. T = Seq(S)
  <2>1. T \in SUBSET Seq(S)
    BY DEF T
  <2> QED
    BY <1>4, <1>5, <2>1, SeqInduction
<1> QED
  BY <1>6 DEF T, v

\* A separator makes a second word.
LEMMA LexTwoWords ==
    ASSUME NEW S, NEW sep, NEW s \in Seq(S), NEW i \in 1..Len(s), s[i] = sep
    PROVE  Len(Lex(s, sep)) >= 2
<1> DEFINE T == {t \in Seq(S) : (\E j \in 1..Len(t) : t[j] = sep) => Len(Lex(t, sep)) >= 2}
<1>1. <<>> \in T
  <2>1. <<>> \in Seq(S) /\ 1..Len(<<>>) = {}
    BY EmptySeq
  <2> QED
    BY <2>1
<1>2. ASSUME NEW t \in T, NEW x \in S PROVE Append(t, x) \in T
  <2>1. PICK n \in Nat : n = Len(t)
    BY LenProperties
  <2>2. PICK u, w : n = Len(t) /\ u = Append(t, x) /\ w = Lex(t, sep)
    BY <2>1
  <2>3. u \in Seq(S) /\ Len(u) = n + 1 /\ \A j \in 1..n : u[j] = t[j]
    BY <2>2, AppendProperties
  <2>4. w \in Words(S) /\ Lex(u, sep) = Read(w, x, sep)
    BY <2>2, LexAppend
  <2>5. /\ Len(w) \in Nat \ {0}
        /\ x = sep => Len(Lex(u, sep)) = Len(w) + 1
        /\ x # sep => Len(Lex(u, sep)) = Len(w)
    BY <2>4, ReadProperties
  <2>6. u[n + 1] = x
    BY <2>2, AppendProperties
  <2>7. ASSUME NEW j \in 1..Len(u), u[j] = sep PROVE Len(Lex(u, sep)) >= 2
    <3>1. CASE x = sep
      BY <2>5, <3>1
    <3>2. CASE x # sep
      <4>1. j \in 1..n
        BY <2>3, <2>6, <2>7, <3>2
      <4>2. t[j] = sep
        BY <2>3, <2>7, <4>1
      <4>3. Len(w) >= 2
        BY <2>2, <4>1, <4>2
      <4> QED
        BY <2>5, <3>2, <4>3
    <3> QED
      BY <3>1, <3>2
  <2>8. u \in T
    BY <2>3, <2>7
  <2> QED
    BY <2>2, <2>8
<1> HIDE DEF T
<1>3. T = Seq(S)
  <2>1. T \in SUBSET Seq(S)
    BY DEF T
  <2> QED
    BY <1>1, <1>2, <2>1, SeqInduction
<1> QED
  BY <1>3 DEF T

Marked(fields) == [i \in 1..Len(fields) |-> <<Sep>> \o fields[i]]

LEMMA MarkedAppend ==
    ASSUME NEW S, NEW fs \in Seq(Seq(S)), NEW e \in Seq(S)
    PROVE  /\ Marked(fs) \in Seq(Seq(S \cup {Sep}))
           /\ <<Sep>> \o e \in Seq(S \cup {Sep})
           /\ Marked(Append(fs, e)) = Append(Marked(fs), <<Sep>> \o e)
<1> DEFINE R == S \cup {Sep}
           m == Marked(fs)
           a == <<Sep>> \o e
           gs == Append(fs, e)
           y == Append(m, a)
           z == Marked(gs)
<1>0. PICK n \in Nat : n = Len(fs)
  BY LenProperties
<1>1. \A f \in Seq(S) : <<Sep>> \o f \in Seq(R)
  <2>1. ASSUME NEW f \in Seq(S) PROVE <<Sep>> \o f \in Seq(R)
    <3>1. <<Sep>> \in Seq(R) /\ f \in Seq(R)
      BY SeqMonotonic
    <3> QED
      BY <3>1, ConcatProperties
  <2> QED
    BY <2>1
<1>2. a \in Seq(R)
  BY <1>1
<1>3. \A i \in 1..n : <<Sep>> \o fs[i] \in Seq(R)
  BY <1>0, <1>1, ElementOfSeq
<1>4. m \in Seq(Seq(R)) /\ Len(m) = n /\ \A i \in 1..n : m[i] = <<Sep>> \o fs[i]
  BY <1>0, <1>3 DEF Marked
<1>5. /\ gs \in Seq(Seq(S)) /\ Len(gs) = n + 1
      /\ (\A i \in 1..n : gs[i] = fs[i]) /\ gs[n + 1] = e
  BY <1>0, AppendProperties
<1> HIDE DEF R, m, a, gs
<1>6. \A i \in 1..(n + 1) : <<Sep>> \o gs[i] \in Seq(R)
  BY <1>1, <1>5, ElementOfSeq
<1>7. z \in Seq(Seq(R)) /\ Len(z) = n + 1 /\ \A i \in 1..(n + 1) : z[i] = <<Sep>> \o gs[i]
  <2>1. PICK k \in Nat : k = n + 1
    OBVIOUS
  <2>2. z = [i \in 1..k |-> <<Sep>> \o gs[i]]
    BY <1>5, <2>1 DEF Marked
  <2> QED
    BY <1>6, <2>1, <2>2
<1>8. /\ y \in Seq(Seq(R)) /\ Len(y) = n + 1
      /\ (\A i \in 1..n : y[i] = m[i]) /\ y[n + 1] = a
  BY <1>2, <1>4, AppendProperties
<1> HIDE DEF y, z
<1>9. ASSUME NEW i \in 1..(n + 1) PROVE z[i] = y[i]
  <2>1. CASE i \in 1..n
    BY <1>4, <1>5, <1>7, <1>8, <2>1
  <2>2. CASE i = n + 1
    BY <1>5, <1>7, <1>8, <2>2 DEF a
  <2> QED
    BY <2>1, <2>2
<1>10. z = y
  BY <1>7, <1>8, <1>9, SeqEqual
<1> QED
  BY <1>2, <1>4, <1>10 DEF R, m, a, gs, y, z

\* A packet of one field is the field; another field comes after a separator.
LEMMA PackedOne ==
    ASSUME NEW S, NEW e \in Seq(S)
    PROVE  /\ Packed(<<e>>) = e
           /\ FlattenSeq(Marked(<<e>>)) = <<Sep>> \o e
<1> DEFINE R == S \cup {Sep}
<1>1. <<>> \in Seq(Seq(S)) /\ <<>> \in Seq(Seq(R)) /\ <<>> \in Seq(R) /\ <<Sep>> \in Seq(R) /\ e \in Seq(R)
  BY EmptySeq, SeqMonotonic
<1>2. Marked(<<>>) = <<>>
  BY DEF Marked
<1>3. <<Sep>> \o e \in Seq(R) /\ Marked(Append(<<>>, e)) = Append(Marked(<<>>), <<Sep>> \o e)
  BY <1>1, MarkedAppend
<1>4. FlattenSeq(Append(<<>>, <<Sep>> \o e)) = FlattenSeq(<<>>) \o (<<Sep>> \o e)
  BY <1>1, <1>3, FlattenAppend
<1>5. <<>> \o (<<Sep>> \o e) = <<Sep>> \o e
  BY <1>3, ConcatEmptySeq
<1>6. Append(<<>>, e) = <<e>>
  OBVIOUS
<1>7. FlattenSeq(Marked(<<e>>)) = <<Sep>> \o e
  BY <1>2, <1>3, <1>4, <1>5, <1>6, FlattenEmpty
<1>8. Tail(<<Sep>> \o e) = Tail(<<Sep>>) \o e
  BY <1>1, TailConcat
<1>9. Tail(<<Sep>>) = <<>> /\ <<>> \o e = e
  BY ConcatEmptySeq
<1>10. Packed(<<e>>) = Tail(FlattenSeq(Marked(<<e>>)))
  BY DEF Packed, Marked
<1> QED
  BY <1>7, <1>8, <1>9, <1>10

LEMMA PackedAppend ==
    ASSUME NEW S, NEW fs \in Seq(Seq(S)), fs # <<>>, NEW e \in Seq(S)
    PROVE  /\ Packed(fs) \in Seq(S \cup {Sep})
           /\ Packed(Append(fs, e)) = Append(Packed(fs), Sep) \o e
<1> DEFINE R == S \cup {Sep}
           m == FlattenSeq(Marked(fs))
<1>1. /\ Marked(fs) \in Seq(Seq(R)) /\ <<Sep>> \o e \in Seq(R)
      /\ Marked(Append(fs, e)) = Append(Marked(fs), <<Sep>> \o e)
  BY MarkedAppend
<1>2. m \in Seq(R) /\ FlattenSeq(Marked(Append(fs, e))) = m \o (<<Sep>> \o e)
  BY <1>1, FlattenAppend
<1>3. m # <<>>
  <2>1. PICK gs \in Seq(Seq(S)), f \in Seq(S) : fs = Append(gs, f)
    BY SequenceEmptyOrAppend
  <2>2. /\ Marked(gs) \in Seq(Seq(R)) /\ <<Sep>> \o f \in Seq(R)
        /\ Marked(fs) = Append(Marked(gs), <<Sep>> \o f)
    BY <2>1, MarkedAppend
  <2>3. m = FlattenSeq(Marked(gs)) \o (<<Sep>> \o f) /\ FlattenSeq(Marked(gs)) \in Seq(R)
    BY <2>2, FlattenAppend
  <2>4. <<Sep>> \in Seq(R) /\ <<Sep>> # <<>> /\ f \in Seq(R)
    BY SeqMonotonic
  <2>5. <<Sep>> \o f # <<>>
    BY <2>4, ConcatEqualIffEmpty
  <2> QED
    BY <2>2, <2>3, <2>5, ConcatEqualIffEmpty
<1>4. /\ Packed(fs) = Tail(m)
      /\ Packed(Append(fs, e)) = Tail(FlattenSeq(Marked(Append(fs, e))))
  BY DEF Packed, Marked
<1> HIDE DEF m
<1>5. Tail(m) \in Seq(R)
  BY <1>2, <1>3, HeadTailProperties
<1>6. Tail(m \o (<<Sep>> \o e)) = Tail(m) \o (<<Sep>> \o e)
  BY <1>1, <1>2, <1>3, TailConcat
<1>7. <<Sep>> \in Seq(R) /\ e \in Seq(R) /\ Sep \in R
  BY SeqMonotonic
<1>8. Tail(m) \o (<<Sep>> \o e) = (Tail(m) \o <<Sep>>) \o e
  BY <1>5, <1>7, ConcatAssociative, SMTT(60)
<1>9. Append(Tail(m), Sep) = Tail(m) \o <<Sep>>
  BY <1>5, <1>7, AppendIsConcat
<1> QED
  BY <1>2, <1>4, <1>5, <1>6, <1>8, <1>9

\* Whatever is packed is found again, field by field.
LEMMA LexPacked ==
    ASSUME NEW S, Sep \notin S, NEW fs \in Seq(Seq(S)), fs # <<>>
    PROVE  Packed(fs) \in Seq(S \cup {Sep}) /\ Lex(Packed(fs), Sep) = fs
<1> DEFINE R == S \cup {Sep}
           T == {gs \in Seq(Seq(S)) :
                    gs # <<>> => Packed(gs) \in Seq(R) /\ Lex(Packed(gs), Sep) = gs}
<1>1. <<>> \in T
  BY EmptySeq
<1>2. ASSUME NEW gs \in T, NEW e \in Seq(S) PROVE Append(gs, e) \in T
  <2>1. Append(gs, e) \in Seq(Seq(S)) /\ gs \in Seq(Seq(S))
    BY AppendProperties
  <2>2. CASE gs = <<>>
    <3>1. Append(gs, e) = <<e>>
      BY <2>2
    <3>2. Packed(<<e>>) = e /\ Lex(e, Sep) = <<e>>
      BY PackedOne, LexWord
    <3>3. e \in Seq(R)
      BY SeqMonotonic
    <3> QED
      BY <2>1, <3>1, <3>2, <3>3
  <2>3. CASE gs # <<>>
    <3>1. Packed(gs) \in Seq(R) /\ Lex(Packed(gs), Sep) = gs
      BY <2>3
    <3>2. Packed(Append(gs, e)) = Append(Packed(gs), Sep) \o e
      BY <2>1, <2>3, PackedAppend
    <3>3. PICK p \in Seq(R) : p = Packed(gs)
      BY <3>1
    <3>4. /\ Append(p, Sep) \o e \in Seq(R)
          /\ Lex(Append(p, Sep) \o e, Sep) = Append(Lex(p, Sep), e)
      BY LexFieldSep
    <3> QED
      BY <2>1, <3>1, <3>2, <3>3, <3>4
  <2> QED
    BY <2>2, <2>3
<1> HIDE DEF T
<1>3. T = Seq(Seq(S))
  <2>1. T \in SUBSET Seq(Seq(S))
    BY DEF T
  <2> QED
    BY <1>1, <1>2, <2>1, SeqInduction
<1> QED
  BY <1>3 DEF T

-----------------------------------------------------------------------------
(* What a const char* keeps of a text.                                     *)

LEMMA CStringCut ==
    ASSUME NEW S, NEW str \in Seq(S)
    PROVE  /\ CString(str) \in Seq(S)
           /\ Len(CString(str)) \in Nat /\ Len(CString(str)) <= Len(str)
           /\ \A i \in 1..Len(CString(str)) : CString(str)[i] = str[i] /\ str[i] # Nul
           /\ Len(CString(str)) < Len(str) => str[Len(CString(str)) + 1] = Nul
<1> DEFINE I == {i \in 1..Len(str) : str[i] = Nul}
           k == IF \E i \in 1..Len(str) : str[i] = Nul
                THEN SelectInSeq(str, LAMBDA x : x = Nul) - 1 ELSE Len(str)
           c == SubSeq(str, 1, k)
<1>0. PICK n \in Nat : n = Len(str)
  BY LenProperties
<1>1. CString(str) = c
  BY DEF CString
<1>2. k \in 0..n /\ (\A i \in 1..k : str[i] # Nul) /\ (k < n => str[k + 1] = Nul)
  <2>1. CASE I = {}
    <3>1. k = n
      BY <1>0, <2>1
    <3>2. \A i \in 1..n : str[i] # Nul
      BY <1>0, <2>1
    <3> HIDE DEF I, k
    <3> QED
      BY <3>1, <3>2
  <2>2. CASE I # {}
    <3>1. I \in SUBSET Nat
      OBVIOUS
    <3>2. SelectInSeq(str, LAMBDA x : x = Nul) = Min(I)
      BY <2>2 DEF SelectInSeq
    <3>3. k = Min(I) - 1
      BY <2>2, <3>2
    <3> HIDE DEF I, k
    <3>4. Min(I) \in I /\ \A y \in I : Min(I) <= y
      BY <2>2, <3>1, Least DEF Min
    <3>5. PICK m : m = Min(I)
      OBVIOUS
    <3>6. m \in 1..n /\ str[m] = Nul /\ \A y \in 1..n : str[y] = Nul => m <= y
      BY <1>0, <3>4, <3>5 DEF I
    <3>7. k = m - 1
      BY <3>3, <3>5
    <3>8. k \in 0..n /\ k + 1 = m
      BY <3>6, <3>7
    <3>9. ASSUME NEW i \in 1..k PROVE str[i] # Nul
      <4>1. i \in 1..n /\ ~(m <= i)
        BY <3>6, <3>7
      <4> QED
        BY <3>6, <4>1
    <3> QED
      BY <3>6, <3>8, <3>9
  <2> QED
    BY <2>1, <2>2
<1> HIDE DEF k
<1>3. \A i \in 1..k : str[i] \in S
  <2>1. \A i \in 1..n : str[i] \in S
    BY <1>0, ElementOfSeq
  <2>2. \A i \in 1..k : i \in 1..n
    BY <1>2
  <2> QED
    BY <2>1, <2>2
<1>4. 1 \in Int /\ k \in Int
  BY <1>2
<1>5. /\ c \in Seq(S)
      /\ Len(c) = IF 1 <= k THEN k - 1 + 1 ELSE 0
      /\ \A i \in 1..(k - 1 + 1) : c[i] = str[1 + i - 1]
  BY <1>3, <1>4, SubSeqProperties
<1> HIDE DEF c
<1>6. Len(c) = k
  BY <1>2, <1>5
<1>7. \A i \in 1..k : c[i] = str[i]
  <2>1. \A i \in 1..k : i \in 1..(k - 1 + 1) /\ 1 + i - 1 = i
    BY <1>2
  <2> QED
    BY <1>5, <2>1
<1> QED
  BY <1>0, <1>1, <1>2, <1>5, <1>6, <1>7

LEMMA CStringWhole ==
    ASSUME NEW S, Nul \notin S, NEW str \in Seq(S)
    PROVE  CString(str) = str
<1>0. PICK n \in Nat : n = Len(str)
  BY LenProperties
<1>1. PICK c, k : c = CString(str) /\ k = Len(c)
  OBVIOUS
<1>2. /\ c \in Seq(S) /\ k \in Nat /\ k <= n
      /\ (\A i \in 1..k : c[i] = str[i]) /\ (k < n => str[k + 1] = Nul)
  BY <1>0, <1>1, CStringCut
<1>3. ASSUME k < n PROVE FALSE
  <2>1. k + 1 \in 1..n
    BY <1>2, <1>3
  <2>2. str[k + 1] \in S
    BY <1>0, <2>1, ElementOfSeq
  <2> QED
    BY <1>2, <1>3, <2>2
<1>4. k = n
  BY <1>2, <1>3
<1>5. c = str
  BY <1>0, <1>1, <1>2, <1>4, SeqEqual
<1> QED
  BY <1>1, <1>5

LEMMA CStringEnds ==
    ASSUME NEW S, Nul \notin S, NEW str \in Seq(S)
    PROVE  CString(Append(str, Nul)) = str
<1> DEFINE R == S \cup {Nul}
           t == Append(str, Nul)
<1>0. PICK n \in Nat : n = Len(str)
  BY LenProperties
<1>1. str \in Seq(R)
  BY SeqMonotonic
<1>2. t \in Seq(R) /\ Len(t) = n + 1 /\ (\A i \in 1..n : t[i] = str[i]) /\ t[n + 1] = Nul
  BY <1>0, <1>1, AppendProperties
<1> HIDE DEF t
<1>3. PICK c, k : c = CString(t) /\ k = Len(c)
  OBVIOUS
<1>4. /\ c \in Seq(R) /\ k \in Nat /\ k <= n + 1
      /\ (\A i \in 1..k : c[i] = t[i] /\ t[i] # Nul) /\ (k < n + 1 => t[k + 1] = Nul)
  BY <1>2, <1>3, CStringCut
<1>5. k <= n
  <2>1. ASSUME k = n + 1 PROVE FALSE
    <3>1. n + 1 \in 1..k
      BY <2>1
    <3> QED
      BY <1>2, <1>4, <3>1
  <2> QED
    BY <1>4, <2>1
<1>6. ASSUME k < n PROVE FALSE
  <2>1. k + 1 \in 1..n
    BY <1>4, <1>6
  <2>2. str[k + 1] \in S
    BY <1>0, <2>1, ElementOfSeq
  <2>3. t[k + 1] = Nul
    BY <1>4, <1>6
  <2> QED
    BY <1>2, <2>1, <2>2, <2>3
<1>7. k = n
  BY <1>4, <1>5, <1>6
<1>8. \A i \in 1..n : c[i] = str[i]
  BY <1>2, <1>4, <1>7
<1>9. c = str
  BY <1>0, <1>1, <1>3, <1>4, <1>7, <1>8, SeqEqual
<1> QED
  BY <1>3, <1>9 DEF t

-----------------------------------------------------------------------------
(* The words are what lies between one cut and the next.                   *)

Cuts(str, sep) == {0, Len(str) + 1} \cup {i \in 1..Len(str) : str[i] = sep}
\* How many cuts come before position i, and the cut that k others precede.
Below(C, i) == Cardinality({j \in C : j < i})
CutAt(C, k) == CHOOSE i \in C : Cardinality({j \in C : j < i}) = k

LEMMA SplitByCuts ==
    ASSUME NEW str, NEW sep
    PROVE  Split(str, sep) =
               [k \in 1..(Cardinality(Cuts(str, sep)) - 1) |->
                   SubSeq(str, CutAt(Cuts(str, sep), k - 1) + 1, CutAt(Cuts(str, sep), k) - 1)]
  BY DEF Split, Cuts, CutAt

LEMMA BelowProperties ==
    ASSUME NEW C, IsFiniteSet(C), C \subseteq Nat, NEW i \in Nat
    PROVE  /\ Below(C, i) \in Nat
           /\ Below(C, 0) = 0
           /\ i \in C => Below(C, i + 1) = Below(C, i) + 1
           /\ i \notin C => Below(C, i + 1) = Below(C, i)
           /\ \A j \in Nat : i <= j => Below(C, i) <= Below(C, j)
<1> DEFINE B(j) == {m \in C : m < j}
<1>1. \A j, m : m \in B(j) <=> m \in C /\ m \in Nat /\ m < j
  OBVIOUS
<1>2. \A j : Below(C, j) = Cardinality(B(j))
  BY DEF Below
<1> HIDE DEF B
<1>3. ASSUME NEW j PROVE IsFiniteSet(B(j)) /\ Cardinality(B(j)) \in Nat
  <2>1. B(j) \in SUBSET C
    BY <1>1
  <2>2. IsFiniteSet(B(j))
    BY <2>1, FS_Subset
  <2> QED
    BY <2>2, FS_CardinalityType
<1>4. B(0) = {}
  BY <1>1
<1>5. ASSUME i \in C PROVE B(i + 1) = B(i) \cup {i} /\ i \notin B(i)
  <2>1. \A m \in Nat : m < i + 1 <=> m < i \/ m = i
    OBVIOUS
  <2>2. \A m : m \in B(i + 1) <=> m \in B(i) \/ m = i
    BY <1>1, <1>5, <2>1
  <2> QED
    BY <1>1, <2>2
<1>6. ASSUME i \notin C PROVE B(i + 1) = B(i)
  <2>1. \A m \in Nat : m < i + 1 <=> m < i \/ m = i
    OBVIOUS
  <2>2. \A m : m \in B(i + 1) <=> m \in B(i)
    BY <1>1, <1>6, <2>1
  <2> QED
    BY <2>2
<1>7. ASSUME NEW j \in Nat, i <= j PROVE B(i) \subseteq B(j)
  <2>1. \A m \in Nat : m < i => m < j
    BY <1>7
  <2> QED
    BY <1>1, <2>1
<1>8. Below(C, i) \in Nat
  BY <1>3, <1>2
<1>9. Below(C, 0) = 0
  BY <1>4, <1>2, FS_EmptySet
<1>10. i \in C => Below(C, i + 1) = Below(C, i) + 1
  BY <1>3, <1>5, <1>2, FS_AddElement
<1>11. i \notin C => Below(C, i + 1) = Below(C, i)
  BY <1>6, <1>2
<1>12. \A j \in Nat : i <= j => Below(C, i) <= Below(C, j)
  <2>1. ASSUME NEW j \in Nat, i <= j PROVE Cardinality(B(i)) <= Cardinality(B(j))
    <3>1. B(i) \in SUBSET B(j) /\ IsFiniteSet(B(j))
      BY <1>3, <1>7, <2>1
    <3> QED
      BY <3>1, FS_Subset
  <2> QED
    BY <1>2, <2>1
<1> QED
  BY <1>8, <1>9, <1>10, <1>11, <1>12

LEMMA CutFound ==
    ASSUME NEW C, IsFiniteSet(C), C \subseteq Nat, NEW c \in C
    PROVE  CutAt(C, Below(C, c)) = c
<1>1. ASSUME NEW x \in C, NEW y \in C, x < y PROVE Below(C, x) < Below(C, y)
  <2>1. x \in Nat /\ y \in Nat /\ x + 1 \in Nat /\ x + 1 <= y
    BY <1>1
  <2>2. Below(C, x + 1) = Below(C, x) + 1 /\ Below(C, x) \in Nat
    BY <2>1, BelowProperties
  <2>3. Below(C, x + 1) <= Below(C, y) /\ Below(C, y) \in Nat
    BY <2>1, BelowProperties
  <2> QED
    BY <2>2, <2>3
<1>2. ASSUME NEW x \in C, Below(C, x) = Below(C, c) PROVE x = c
  <2>1. x \in Nat /\ c \in Nat
    OBVIOUS
  <2>2. Below(C, x) \in Nat
    BY <2>1, BelowProperties
  <2>3. ~(x < c)
    BY <1>1, <1>2, <2>2
  <2>4. ~(c < x)
    BY <1>1, <1>2, <2>2
  <2> QED
    BY <2>1, <2>3, <2>4
<1>3. CutAt(C, Below(C, c)) \in C /\ Below(C, CutAt(C, Below(C, c))) = Below(C, c)
  <2>1. PICK k : k = Below(C, c)
    OBVIOUS
  <2>2. \E i \in C : Cardinality({j \in C : j < i}) = k
    BY <2>1 DEF Below
  <2>3. CutAt(C, k) \in C /\ Cardinality({j \in C : j < CutAt(C, k)}) = k
    BY <2>2 DEF CutAt
  <2> QED
    BY <2>1, <2>3 DEF Below
<1> QED
  BY <1>2, <1>3

LEMMA CutsProperties ==
    ASSUME NEW S, NEW str \in Seq(S), NEW sep
    PROVE  /\ IsFiniteSet(Cuts(str, sep)) /\ Cuts(str, sep) \subseteq Nat
           /\ 0 \in Cuts(str, sep) /\ Len(str) + 1 \in Cuts(str, sep)
           /\ \A i \in 1..Len(str) : i \in Cuts(str, sep) <=> str[i] = sep
           /\ Cardinality(Cuts(str, sep)) = Below(Cuts(str, sep), Len(str) + 1) + 1
<1> DEFINE C == Cuts(str, sep)
<1>0. PICK n \in Nat : n = Len(str)
  BY LenProperties
<1>1. C \subseteq 0..(n + 1)
  BY <1>0 DEF Cuts
<1>2. IsFiniteSet(0..(n + 1))
  BY FS_Interval
<1>3. IsFiniteSet(C) /\ C \subseteq Nat
  BY <1>1, <1>2, FS_Subset
<1>4. 0 \in C /\ n + 1 \in C
  BY <1>0 DEF Cuts
<1>5. \A i \in 1..n : i \in C <=> str[i] = sep
  BY <1>0 DEF Cuts
<1> HIDE DEF C
<1>6. Below(C, (n + 1) + 1) = Below(C, n + 1) + 1
  BY <1>3, <1>4, BelowProperties
<1>7. {j \in C : j < (n + 1) + 1} = C
  <2>1. \A j \in 0..(n + 1) : j < (n + 1) + 1
    OBVIOUS
  <2>2. \A j \in C : j < (n + 1) + 1
    BY <1>1, <2>1
  <2> QED
    BY <2>2
<1>8. Cardinality(C) = Below(C, n + 1) + 1
  BY <1>6, <1>7 DEF Below
<1> USE DEF C
<1> QED
  BY <1>0, <1>3, <1>4, <1>5, <1>8

\* The words after n characters: one begun at the last cut before n, and
\* before it one from each cut to the next.
BetweenCuts(str, C, w, n) ==
    /\ Below(C, n + 1) = Len(w)
    /\ \E c \in C : c <= n /\ Below(C, c) = Len(w) - 1 /\ w[Len(w)] = SubSeq(str, c + 1, n)
    /\ \A k \in 1..(Len(w) - 1) : \E c, d \in C :
           Below(C, c) = k - 1 /\ Below(C, d) = k /\ w[k] = SubSeq(str, c + 1, d - 1)

LEMMA BetweenCutsStart ==
    ASSUME NEW S, NEW str \in Seq(S), NEW sep
    PROVE  BetweenCuts(str, Cuts(str, sep), <<<<>>>>, 0)
<1> DEFINE C == Cuts(str, sep)
<1>1. IsFiniteSet(C) /\ C \subseteq Nat /\ 0 \in C
  BY CutsProperties
<1> HIDE DEF C
<1>2. Below(C, 0) = 0 /\ Below(C, 0 + 1) = Below(C, 0) + 1
  BY <1>1, BelowProperties
<1>3. SubSeq(str, 0 + 1, 0) = <<>>
  BY SubSeqEmpty
<1>4. PICK w : w = <<<<>>>>
  OBVIOUS
<1>5. Len(w) = 1 /\ w[1] = <<>>
  BY <1>4
<1>6. \E c \in C : c <= 0 /\ Below(C, c) = Len(w) - 1 /\ w[Len(w)] = SubSeq(str, c + 1, 0)
  <2>1. Len(w) - 1 = 0 /\ w[Len(w)] = <<>>
    BY <1>5
  <2>2. 0 <= 0 /\ Below(C, 0) = Len(w) - 1
    <3>1. Below(C, 0) = 0
      BY <1>2
    <3> QED
      BY <1>5, <3>1
  <2>3. w[Len(w)] = SubSeq(str, 0 + 1, 0)
    BY <1>3, <2>1
  <2> QED
    BY <1>1, <2>2, <2>3
<1>7. 1..(Len(w) - 1) = {}
  BY <1>5
<1>8. Below(C, 0 + 1) = Len(w)
  BY <1>2, <1>5
<1>9. BetweenCuts(str, C, w, 0)
  BY <1>6, <1>7, <1>8 DEF BetweenCuts
<1> QED
  BY <1>4, <1>9 DEF C

LEMMA BetweenCutsStep ==
    ASSUME NEW S, NEW str \in Seq(S), NEW sep, NEW n \in Nat, n + 1 <= Len(str),
           NEW w \in Words(S), BetweenCuts(str, Cuts(str, sep), w, n)
    PROVE  BetweenCuts(str, Cuts(str, sep), Read(w, str[n + 1], sep), n + 1)
<1> DEFINE C == Cuts(str, sep)
           x == str[n + 1]
           v == Read(w, x, sep)
<1>0. PICK l \in Nat, N \in Nat : l = Len(w) /\ N = Len(str) /\ l # 0
  BY EmptySeq, LenProperties DEF Words
<1>1. /\ IsFiniteSet(C) /\ C \subseteq Nat
      /\ \A i \in 1..N : i \in C <=> str[i] = sep
  BY <1>0, CutsProperties
<1>2. n + 1 \in 1..N /\ n + 1 \in Nat
  BY <1>0
<1>3. x \in S /\ (n + 1 \in C <=> x = sep)
  BY <1>0, <1>1, <1>2, ElementOfSeq
<1>4. /\ Below(C, n + 1) = l
      /\ \E c \in C : c <= n /\ Below(C, c) = l - 1 /\ w[l] = SubSeq(str, c + 1, n)
      /\ \A k \in 1..(l - 1) : \E c, d \in C :
             Below(C, c) = k - 1 /\ Below(C, d) = k /\ w[k] = SubSeq(str, c + 1, d - 1)
  BY <1>0 DEF BetweenCuts
<1> HIDE DEF C, x
<1>5. /\ v \in Words(S)
      /\ x = sep => /\ Len(v) = l + 1 /\ v[l + 1] = <<>>
                    /\ \A i \in 1..l : v[i] = w[i]
      /\ x # sep => /\ Len(v) = l /\ v[l] = Append(w[l], x)
                    /\ \A i \in 1..(l - 1) : v[i] = w[i]
  BY <1>0, <1>3, ReadProperties
<1> HIDE DEF v
<1>6. PICK c \in C : c <= n /\ Below(C, c) = l - 1 /\ w[l] = SubSeq(str, c + 1, n)
  BY <1>4
<1>7. /\ n + 1 \in C => Below(C, (n + 1) + 1) = l + 1
      /\ n + 1 \notin C => Below(C, (n + 1) + 1) = l
  <2>1. PICK m \in Nat : m = n + 1
    BY <1>2
  <2>2. /\ m \in C => Below(C, m + 1) = Below(C, m) + 1
        /\ m \notin C => Below(C, m + 1) = Below(C, m)
    BY <1>1, BelowProperties
  <2> QED
    BY <1>4, <2>1, <2>2
<1>8. CASE x = sep
  <2>1. n + 1 \in C /\ Len(v) = l + 1 /\ v[l + 1] = <<>> /\ \A i \in 1..l : v[i] = w[i]
    BY <1>3, <1>5, <1>8
  <2>2. SubSeq(str, (n + 1) + 1, n + 1) = <<>>
    BY <1>2, SubSeqEmpty
  <2>3. \E d \in C : d <= n + 1 /\ Below(C, d) = (l + 1) - 1
                     /\ v[l + 1] = SubSeq(str, d + 1, n + 1)
    <3>1. n + 1 <= n + 1 /\ Below(C, n + 1) = (l + 1) - 1
      BY <1>4, <1>2
    <3> QED
      BY <2>1, <2>2, <3>1
  <2>4. ASSUME NEW k \in 1..((l + 1) - 1)
        PROVE  \E e, d \in C : Below(C, e) = k - 1 /\ Below(C, d) = k
                               /\ v[k] = SubSeq(str, e + 1, d - 1)
    <3>1. k \in 1..l
      OBVIOUS
    <3>2. v[k] = w[k]
      BY <2>1, <3>1
    <3>3. CASE k = l
      <4>1. (n + 1) - 1 = n
        OBVIOUS
      <4>2. Below(C, c) = k - 1 /\ Below(C, n + 1) = k /\ v[k] = SubSeq(str, c + 1, (n + 1) - 1)
        BY <1>4, <1>6, <3>2, <3>3, <4>1
      <4> QED
        BY <2>1, <4>2
    <3>4. CASE k # l
      <4>1. k \in 1..(l - 1)
        BY <3>1, <3>4
      <4>2. PICK e \in C, d \in C : Below(C, e) = k - 1 /\ Below(C, d) = k
                                    /\ w[k] = SubSeq(str, e + 1, d - 1)
        BY <1>4, <4>1
      <4>3. v[k] = SubSeq(str, e + 1, d - 1)
        BY <3>2, <4>2
      <4> QED
        BY <4>2, <4>3
    <3> QED
      BY <3>3, <3>4
  <2> QED
    BY <1>7, <2>1, <2>3, <2>4 DEF BetweenCuts, C, x, v
<1>9. CASE x # sep
  <2>1. n + 1 \notin C /\ Len(v) = l /\ v[l] = Append(w[l], x) /\ \A i \in 1..(l - 1) : v[i] = w[i]
    BY <1>3, <1>5, <1>9
  <2>2. c \in Nat /\ c + 1 \in 1..N /\ n + 1 \in (c + 1)..N
    BY <1>1, <1>2, <1>6
  <2>3. SubSeq(str, c + 1, n + 1) = SubSeq(str, c + 1, (n + 1) - 1) \o <<str[n + 1]>>
    BY <1>0, <2>2, SubSeqRecursiveSecond
  <2>4. (n + 1) - 1 = n
    OBVIOUS
  <2>5. w[l] \in Seq(S)
    BY <1>0, ReadProperties, <1>3
  <2>6. v[l] = w[l] \o <<x>>
    BY <1>3, <2>1, <2>5, AppendIsConcat
  <2>7. v[l] = SubSeq(str, c + 1, n + 1)
    BY <1>6, <2>3, <2>4, <2>6 DEF x
  <2>8. \E d \in C : d <= n + 1 /\ Below(C, d) = l - 1 /\ v[l] = SubSeq(str, d + 1, n + 1)
    BY <1>1, <1>6, <2>2, <2>7
  <2>9. ASSUME NEW k \in 1..(l - 1)
        PROVE  \E e, d \in C : Below(C, e) = k - 1 /\ Below(C, d) = k
                               /\ v[k] = SubSeq(str, e + 1, d - 1)
    <3>1. PICK e \in C, d \in C : Below(C, e) = k - 1 /\ Below(C, d) = k
                                  /\ w[k] = SubSeq(str, e + 1, d - 1)
      BY <1>4
    <3>2. v[k] = w[k]
      BY <2>1
    <3>3. v[k] = SubSeq(str, e + 1, d - 1)
      BY <3>1, <3>2
    <3> QED
      BY <3>1, <3>3
  <2> QED
    BY <1>7, <2>1, <2>8, <2>9 DEF BetweenCuts, C, x, v
<1> QED
  BY <1>8, <1>9

LEMMA LexIsSplit ==
    ASSUME NEW S, NEW str \in Seq(S), NEW sep
    PROVE  Lex(str, sep) = Split(str, sep)
<1> DEFINE C == Cuts(str, sep)
<1>1. PICK N \in Nat : N = Len(str)
  BY LenProperties
<1>2. PICK f : N = Len(str) /\ f = LexOf(str, sep)
  BY <1>1
<1>3. /\ f \in [0..N -> Words(S)] /\ f[0] = <<<<>>>>
      /\ \A k \in 1..N : f[k] = Read(f[k - 1], str[k], sep)
  BY <1>2, LexFunction
<1>4. /\ IsFiniteSet(C) /\ C \subseteq Nat /\ N + 1 \in C
      /\ Cardinality(C) = Below(C, N + 1) + 1
  BY <1>2, CutsProperties
<1> DEFINE T == {n \in 0..N : BetweenCuts(str, C, f[n], n)}
<1>5. T \in SUBSET (0..N)
  OBVIOUS
<1>6. 0 \in T
  BY <1>3, BetweenCutsStart
<1>7. ASSUME NEW n \in T, n < N PROVE n + 1 \in T
  <2>1. /\ n \in 0..N /\ BetweenCuts(str, C, f[n], n) /\ n + 1 \in 1..N /\ n \in Nat
        /\ n + 1 <= N /\ n + 1 \in 0..N /\ (n + 1) - 1 = n
    BY <1>7
  <2>2. PICK w \in Words(S) : w = f[n]
    BY <1>3, <2>1
  <2>3. f[n + 1] = Read(w, str[n + 1], sep)
    BY <1>3, <2>1, <2>2
  <2>4. BetweenCuts(str, C, Read(w, str[n + 1], sep), n + 1)
    BY <1>2, <2>1, <2>2, BetweenCutsStep
  <2> QED
    BY <2>1, <2>3, <2>4
<1> HIDE DEF T
<1>8. T = 0..N
  BY <1>5, <1>6, <1>7, InductionUpTo
<1>9. N \in 0..N
  OBVIOUS
<1>10. PICK w : w = f[N]
  OBVIOUS
<1>11. BetweenCuts(str, C, w, N)
  BY <1>8, <1>9, <1>10 DEF T
<1> HIDE DEF C
<1>12. w \in Words(S)
  BY <1>3, <1>9, <1>10
<1>13. PICK l \in Nat : l = Len(w) /\ l # 0
  BY <1>12, EmptySeq DEF Words
<1>14. w = [k \in 1..l |-> w[k]]
  BY <1>12, <1>13, LenProperties DEF Words
<1>15. Cardinality(C) - 1 = l
  BY <1>4, <1>11, <1>13 DEF BetweenCuts
<1>16. ASSUME NEW k \in 1..l
       PROVE  w[k] = SubSeq(str, CutAt(C, k - 1) + 1, CutAt(C, k) - 1)
  <2>1. \E c, d \in C : Below(C, c) = k - 1 /\ Below(C, d) = k
                        /\ w[k] = SubSeq(str, c + 1, d - 1)
    <3>1. CASE k = l
      <4>1. PICK c \in C : Below(C, c) = l - 1 /\ w[l] = SubSeq(str, c + 1, N)
        BY <1>11, <1>13 DEF BetweenCuts
      <4>2. Below(C, N + 1) = l /\ (N + 1) - 1 = N
        BY <1>11, <1>13 DEF BetweenCuts
      <4> QED
        BY <1>4, <3>1, <4>1, <4>2
    <3>2. CASE k # l
      <4>1. k \in 1..(l - 1)
        BY <3>2
      <4> QED
        BY <1>11, <1>13, <4>1 DEF BetweenCuts
    <3> QED
      BY <3>1, <3>2
  <2>2. PICK c \in C, d \in C : Below(C, c) = k - 1 /\ Below(C, d) = k
                                /\ w[k] = SubSeq(str, c + 1, d - 1)
    BY <2>1
  <2>3. CutAt(C, Below(C, c)) = c /\ CutAt(C, Below(C, d)) = d
    BY <1>4, CutFound
  <2> QED
    BY <2>2, <2>3
<1>17. w = [k \in 1..l |-> SubSeq(str, CutAt(C, k - 1) + 1, CutAt(C, k) - 1)]
  BY <1>14, <1>16
<1>18. Lex(str, sep) = w
  BY <1>2, <1>10, LexIsLexOf
<1>19. Split(str, sep) = [k \in 1..(Cardinality(C) - 1) |->
                             SubSeq(str, CutAt(C, k - 1) + 1, CutAt(C, k) - 1)]
  BY SplitByCuts DEF C
<1> QED
  BY <1>15, <1>17, <1>18, <1>19

-----------------------------------------------------------------------------
(* What the client programs send.                                          *)

Chars == Typable \cup {Sep, Nul, "0", "1", "5", "6", "!", "?", "A"}

LEMMA Alphabet ==
    /\ Typable \subseteq Chars /\ {Sep, Nul, "0", "1", "5", "6", "!", "?", "A"} \subseteq Chars
    /\ Typable \subseteq Keys /\ Keys \cup {Nul} \subseteq Chars /\ Nul \notin Keys
    /\ Sep \notin Typable /\ Nul \notin Typable /\ Space \in Typable /\ Slash \in Typable
    /\ Space # Slash /\ Sep # Nul /\ Space # Nul /\ Space # Sep /\ Slash # Nul
    /\ \A c \in {"0", "1", "5", "6", "!", "?", "A"} :
           c # Sep /\ c # Nul /\ c # Space /\ c # Slash
<1>1. /\ Sep \notin Typable /\ Nul \notin Typable
      /\ Space \in Typable /\ Slash \in Typable
  BY LinesAssumption
<1>2. /\ Space # Slash /\ Sep # Nul /\ Space # Nul /\ Space # Sep /\ Slash # Nul
      /\ \A c \in {"0", "1", "5", "6", "!", "?", "A"} :
             c # Sep /\ c # Nul /\ c # Space /\ c # Slash
  BY DEF Sep, Nul, Space, Slash
<1> QED
  BY <1>1, <1>2 DEF Chars, Keys

LEMMA HeadAndTail ==
    ASSUME NEW S, NEW s \in Seq(S), NEW c
    PROVE  /\ <<c>> \o s \in Seq(S \cup {c}) /\ <<c>> \o s # <<>>
           /\ Head(<<c>> \o s) = c /\ Tail(<<c>> \o s) = s
           /\ Len(<<c>> \o s) = Len(s) + 1
           /\ \A i \in 1..Len(s) : (<<c>> \o s)[i + 1] = s[i]
<1> DEFINE R == S \cup {c}
           a == <<c>>
           t == a \o s
<1>0. PICK n \in Nat : n = Len(s)
  BY LenProperties
<1>1. a \in Seq(R) /\ s \in Seq(R) /\ a # <<>> /\ Tail(a) = <<>> /\ Len(a) = 1 /\ a[1] = c
  BY SeqMonotonic
<1> HIDE DEF a, R
<1>2. /\ t \in Seq(R) /\ Len(t) = 1 + n
      /\ \A i \in 1..(1 + n) : t[i] = IF i <= 1 THEN a[i] ELSE s[i - 1]
  <2>1. PICK m \in Nat : m = 1
    OBVIOUS
  <2>2. Len(a) = m
    BY <1>1, <2>1
  <2>3. /\ t \in Seq(R) /\ Len(t) = m + n
        /\ \A i \in 1..(m + n) : t[i] = IF i <= m THEN a[i] ELSE s[i - m]
    BY <1>0, <1>1, <2>2, ConcatProperties
  <2> HIDE DEF t
  <2> QED
    BY <2>1, <2>3
<1>3. Tail(t) = Tail(a) \o s
  BY <1>1, TailConcat
<1>4. <<>> \o s = s
  BY ConcatEmptySeq
<1> HIDE DEF t
<1>5. t[1] = c
  BY <1>1, <1>2
<1>6. t # <<>>
  BY <1>2, EmptySeq
<1>7. Head(t) = t[1]
  BY <1>2, <1>6
<1>8. Len(t) = n + 1
  BY <1>2
<1>9. ASSUME NEW i \in 1..n PROVE t[i + 1] = s[i]
  <2>1. i + 1 \in 1..(1 + n) /\ ~(i + 1 <= 1) /\ (i + 1) - 1 = i
    OBVIOUS
  <2> QED
    BY <1>2, <2>1
<1> QED
  BY <1>0, <1>1, <1>2, <1>3, <1>4, <1>5, <1>6, <1>7, <1>8, <1>9 DEF t, a, R

\* A line that starts with a slash goes out as a command, any other as text.
IsCommand == text # <<>> /\ text[1] = Slash
CommandSent == IF client = "cpp" THEN Append(Tail(text), Nul) ELSE Tail(text)

LEMMA TypedProperties ==
    ASSUME NEW S, S \subseteq Keys, text \in Seq(S), client = "rust" => text # <<>>
    PROVE  /\ Typed \in Seq(S \cup {"A"})
           /\ ~IsCommand /\ client = "cpp" => ~(Typed # <<>> /\ Typed[1] = Slash)
<1>1. Filler \in Seq(S \cup {"A"}) /\ Filler[1] = "A"
  BY DEF Filler
<1>2. text \in Seq(S \cup {"A"})
  BY SeqMonotonic
<1> QED
  BY <1>1, <1>2, Alphabet DEF Typed, IsCommand

LEMMA ComposedForm ==
    ASSUME NEW S, S \subseteq Keys, text \in Seq(S), client \in {"cpp", "rust", "tester"},
           client = "rust" => text # <<>>
    PROVE  /\ IsCommand => Composed = <<"5">> \o CommandSent
           /\ ~IsCommand => Composed = <<"0">> \o Typed
           /\ IsCommand => CommandSent \in Seq(S \cup {Nul})
                           /\ Tail(text) \in Seq(S)
<1>0. Nul \notin S
  BY Alphabet
<1>1. ASSUME IsCommand
      PROVE  /\ Tail(text) \in Seq(S) /\ Append(Tail(text), Nul) \in Seq(S \cup {Nul})
             /\ Tail(text) \in Seq(S \cup {Nul})
  <2>1. Tail(text) \in Seq(S)
    BY <1>1, HeadTailProperties DEF IsCommand
  <2>2. Tail(text) \in Seq(S \cup {Nul})
    BY <2>1, SeqMonotonic
  <2>3. Append(Tail(text), Nul) \in Seq(S \cup {Nul})
    BY <2>2, AppendProperties
  <2> QED
    BY <2>1, <2>2, <2>3
<1>2. CASE client = "cpp"
  <2>1. CASE IsCommand
    <3>1. text # <<>> /\ text[1] = Slash
      BY <2>1 DEF IsCommand
    <3>2. Composed = Prefixed(text, ShiftLeft(text))
      BY <1>2, <3>1 DEF Composed
    <3>3. Composed = <<"5">> \o ShiftLeft(text)
      BY <3>1, <3>2 DEF Prefixed
    <3> QED
      BY <1>1, <1>2, <2>1, <3>3 DEF ShiftLeft, CommandSent
  <2>2. CASE ~IsCommand
    <3>1. Composed = Prefixed(Typed, ShiftLeft(Typed))
      BY <1>2 DEF Composed, Typed
    <3>2. ~(Typed # <<>> /\ Typed[1] = Slash)
      BY <1>2, <2>2, TypedProperties
    <3>3. Composed = <<"0">> \o Typed
      BY <3>1, <3>2 DEF Prefixed
    <3> QED
      BY <2>2, <3>3
  <2> QED
    BY <2>1, <2>2
<1>3. CASE client = "rust"
  <2>1. Composed = Prefixed(text, Tail(text))
    BY <1>3 DEF Composed, CarCdr
  <2>2. Typed = text
    BY <1>3 DEF Typed
  <2> QED
    BY <1>1, <1>3, <2>1, <2>2 DEF Prefixed, CommandSent, IsCommand
<1>4. CASE client = "tester"
  <2>1. Composed = CString(Prefixed(text, ShiftLeft(text)))
    BY <1>4 DEF Composed
  <2>2. Typed = text
    BY <1>4 DEF Typed
  <2>3. CASE IsCommand
    <3> DEFINE R == S \cup {"5"}
               s == <<"5">> \o Tail(text)
    <3>1. Nul \notin R
      BY <1>0, Alphabet
    <3>2. s \in Seq(R)
      BY <1>1, <2>3, HeadAndTail
    <3>3. <<"5">> \o Append(Tail(text), Nul) = Append(s, Nul)
      <4>1. Tail(text) \in Seq(R \cup {Nul}) /\ <<"5">> \in Seq(R \cup {Nul})
        BY <1>1, <2>3, SeqMonotonic
      <4> QED
        BY <4>1, ConcatAppend
    <3>4. Prefixed(text, ShiftLeft(text)) = <<"5">> \o Append(Tail(text), Nul)
      BY <2>3 DEF Prefixed, IsCommand, ShiftLeft
    <3> HIDE DEF R, s
    <3>5. CString(Append(s, Nul)) = s
      BY <3>1, <3>2, CStringEnds
    <3>6. CommandSent = Tail(text)
      BY <1>4 DEF CommandSent
    <3> QED
      BY <1>1, <2>1, <2>3, <3>3, <3>4, <3>5, <3>6 DEF s
  <2>4. CASE ~IsCommand
    <3> DEFINE R == S \cup {"0"}
               s == <<"0">> \o text
    <3>1. Nul \notin R
      BY <1>0, Alphabet
    <3>2. s \in Seq(R)
      BY HeadAndTail
    <3>3. Prefixed(text, ShiftLeft(text)) = s
      BY <2>4 DEF Prefixed, IsCommand
    <3> HIDE DEF R, s
    <3>4. CString(s) = s
      BY <3>1, <3>2, CStringWhole
    <3> QED
      BY <2>1, <2>2, <2>4, <3>3, <3>4 DEF s
  <2> QED
    BY <2>3, <2>4
<1> QED
  BY <1>2, <1>3, <1>4

-----------------------------------------------------------------------------
(* Types.                                                                  *)

Deeds == {"nothing", "kick", "undefined", "chat", "help", "plugins", "self", "msg",
          "nobody", "unknown", "join", "illegal"}

TypeOK ==
    /\ client \in {"cpp", "rust", "tester"}
    /\ stage \in {"typing", "sent", "login", "handled", "shown"}
    /\ text \in Seq(Keys \cup {Nul}) /\ passwd \in Seq(Keys \cup {Nul})
    /\ stage # "login" => text \in Seq(Keys) /\ Len(text) <= MaxTyped
    /\ packet \in Seq(Chars)
    /\ did \in Deeds
    /\ wire \in Seq(Chars)
    /\ DOMAIN shown = {"cpp", "rust"}

LEMMA Constants ==
    /\ HelpWord \in Seq(Typable) /\ PluginsWord \in Seq(Typable) /\ MsgWord \in Seq(Typable)
    /\ Sender \in Seq(Typable) /\ Peer \in Seq(Typable)
    /\ HelpWord \in Seq(Chars) /\ PluginsWord \in Seq(Chars)
    /\ Sender \in Seq(Chars) /\ Peer \in Seq(Chars)
    /\ Names \subseteq Seq(Keys \cup {Nul}) /\ Passwords \subseteq Seq(Keys \cup {Nul})
    /\ Online \in Seq(Seq(Typable)) /\ Online \in Seq(Seq(Chars))
    /\ CommandWords \in Nat /\ CommandWords > 3 /\ ClientWords \in Nat /\ ClientWords > 3
<1>1. /\ HelpWord \in Seq(Typable) /\ PluginsWord \in Seq(Typable) /\ MsgWord \in Seq(Typable)
      /\ Sender \in Seq(Typable) /\ Peer \in Seq(Typable)
      /\ Names \subseteq Seq(Keys \cup {Nul}) /\ Passwords \subseteq Seq(Keys \cup {Nul})
  BY LinesAssumption
<1>2. \A s \in Seq(Typable) : s \in Seq(Chars)
  BY Alphabet, SeqMonotonic
<1>3. Online \in Seq(Seq(Typable) \ {<<>>})
  BY LinesAssumption
<1>4. Online \in Seq(Seq(Typable)) /\ Online \in Seq(Seq(Chars))
  <2>1. Seq(Typable) \ {<<>>} \subseteq Seq(Typable) /\ Seq(Typable) \ {<<>>} \subseteq Seq(Chars)
    BY <1>2
  <2> QED
    BY <1>3, <2>1, SeqMonotonic
<1>5. CommandWords \in Nat /\ CommandWords > 3 /\ ClientWords \in Nat /\ ClientWords > 3
  BY LinesAssumption
<1> QED
  BY <1>1, <1>2, <1>4, <1>5

LEMMA ComposedTyped ==
    ASSUME text \in Seq(Keys), client \in {"cpp", "rust", "tester"},
           client = "rust" => text # <<>>
    PROVE  Composed \in Seq(Chars) /\ Composed # <<>>
<1>1. CASE IsCommand
  <2>1. CommandSent \in Seq(Chars) /\ Composed = <<"5">> \o CommandSent
    <3>1. Keys \cup {Nul} \subseteq Chars
      BY Alphabet
    <3> QED
      BY <1>1, <3>1, ComposedForm, SeqMonotonic
  <2>2. <<"5">> \o CommandSent \in Seq(Chars \cup {"5"}) /\ <<"5">> \o CommandSent # <<>>
    BY <2>1, HeadAndTail
  <2>3. Chars \cup {"5"} = Chars
    BY Alphabet
  <2> QED
    BY <2>1, <2>2, <2>3
<1>2. CASE ~IsCommand
  <2>1. Typed \in Seq(Chars) /\ Composed = <<"0">> \o Typed
    <3>1. Keys \cup {"A"} \subseteq Chars
      BY Alphabet
    <3> QED
      BY <1>2, <3>1, ComposedForm, TypedProperties, SeqMonotonic
  <2>2. <<"0">> \o Typed \in Seq(Chars \cup {"0"}) /\ <<"0">> \o Typed # <<>>
    BY <2>1, HeadAndTail
  <2>3. Chars \cup {"0"} = Chars
    BY Alphabet
  <2> QED
    BY <2>1, <2>2, <2>3
<1> QED
  BY <1>1, <1>2

LEMMA PackedTyped ==
    ASSUME NEW fs \in Seq(Seq(Chars)), fs # <<>>
    PROVE  Packed(fs) \in Seq(Chars)
<1>1. <<>> \in Seq(Chars)
  BY EmptySeq
<1>2. Packed(fs) \in Seq(Chars \cup {Sep})
  BY <1>1, PackedAppend
<1>3. Chars \cup {Sep} = Chars
  BY Alphabet
<1> QED
  BY <1>2, <1>3

LEMMA ArgTyped ==
    ASSUME NEW S, NEW words \in Seq(Seq(S)), NEW k \in Nat
    PROVE  Arg(words, k) \in Seq(S)
<1>1. CASE k < Len(words)
  <2>1. k + 1 \in 1..Len(words)
    BY <1>1, LenProperties
  <2>2. words[k + 1] \in Seq(S)
    BY <2>1, ElementOfSeq
  <2> QED
    BY <1>1, <2>2 DEF Arg
<1>2. CASE ~(k < Len(words))
  BY <1>2, EmptySeq DEF Arg
<1> QED
  BY <1>1, <1>2

\* The array joined as msg does it: m elements of it, from the j-th.
Spaced(words, j, m) == [k \in 1..m |-> Append(Arg(words, (k - 1) + j), Space)]

LEMMA SpacedTyped ==
    ASSUME NEW S, Space \in S, NEW words \in Seq(Seq(S)), NEW j \in Nat, NEW m \in Nat
    PROVE  /\ Spaced(words, j, m) \in Seq(Seq(S)) /\ Len(Spaced(words, j, m)) = m
           /\ FlattenSeq(Spaced(words, j, m)) \in Seq(S)
<1>1. ASSUME NEW k \in 1..m PROVE Append(Arg(words, (k - 1) + j), Space) \in Seq(S)
  <2>1. (k - 1) + j \in Nat
    OBVIOUS
  <2>2. Arg(words, (k - 1) + j) \in Seq(S)
    BY <2>1, ArgTyped
  <2> QED
    BY <2>2, AppendProperties
<1>2. Spaced(words, j, m) \in Seq(Seq(S)) /\ Len(Spaced(words, j, m)) = m
  BY <1>1 DEF Spaced
<1>3. <<>> \in Seq(S)
  BY EmptySeq
<1> QED
  BY <1>2, <1>3, FlattenAppend

LEMMA DirectTextTyped ==
    ASSUME NEW words \in Seq(Seq(Chars))
    PROVE  DirectText(words) \in Seq(Chars)
<1>1. PICK m \in Nat : m = CommandWords - 2
  BY Constants
<1>2. DirectText(words) = FlattenSeq(Spaced(words, 2, m))
  <2>1. \A k \in 1..m : (k - 1) + 2 = k + 1
    OBVIOUS
  <2> QED
    BY <1>1, <2>1 DEF DirectText, Spaced
<1>3. Space \in Chars
  BY Alphabet
<1>4. 2 \in Nat
  OBVIOUS
<1> QED
  BY <1>2, <1>3, <1>4, SpacedTyped

LEMMA NoticeTyped ==
    ASSUME NEW s \in Seq(Chars)
    PROVE  Notice(s) \in Seq(Chars)
<1>1. <<"6", Sep>> \in Seq(Chars)
  BY Alphabet
<1> QED
  BY <1>1, ConcatProperties DEF Notice

-----------------------------------------------------------------------------
(* What the server does with a packet.                                     *)

\* A text: kicked, overflowing or passed on with its sender.
SentOn(str) == did = "chat" => wire = CString(ChatPacket(str))

LEMMA HandleSendDoes ==
    ASSUME NEW str \in Seq(Chars), HandleSend(str)
    PROVE  did' \in {"kick", "undefined", "chat"} /\ wire' \in Seq(Chars) /\ SentOn(str)'
<1>1. \A s \in Seq(Chars) : CString(s) \in Seq(Chars)
  BY CStringCut
<1>2. Notice(<<"!">>) \in Seq(Chars) /\ <<>> \in Seq(Chars)
  <2>1. <<"!">> \in Seq(Chars)
    BY Alphabet
  <2> QED
    BY <2>1, NoticeTyped, EmptySeq
<1>3. ChatPacket(str) \in Seq(Chars)
  <2>1. <<<<"0">>, str, Sender>> \in Seq(Seq(Chars))
    BY Alphabet, Constants
  <2> QED
    BY <2>1, PackedTyped DEF ChatPacket
<1>4. CASE Outcome("kick", Notice(<<"!">>))
  BY <1>1, <1>2, <1>4 DEF Outcome, SentOn
<1>5. CASE Outcome("undefined", <<>>)
  BY <1>1, <1>2, <1>5 DEF Outcome, SentOn
<1>6. CASE Outcome("chat", ChatPacket(str))
  BY <1>1, <1>3, <1>6 DEF Outcome, SentOn
<1> QED
  BY <1>4, <1>5, <1>6 DEF HandleSend

\* A command: the one its first word names, and msg to its second.
Obeyed(str) ==
    /\ did \in {"undefined"} \cup Meant(Arg(Lex(str, Space), 0))
    /\ did = "msg" =>
          /\ Arg(Lex(str, Space), 0) = MsgWord /\ Arg(Lex(str, Space), 1) = Peer
          /\ Len(Lex(str, Space)) <= CommandWords
          /\ wire = CString(Notice(Peer \o DirectText(Lex(str, Space))))

LEMMA IterateDoes ==
    ASSUME NEW str \in Seq(Chars), Iterate(str)
    PROVE  did' \in Deeds \ {"nothing", "join", "illegal", "chat"} /\ wire' \in Seq(Chars) /\ Obeyed(str)'
<1>0. PICK words : words = Lex(str, Space)
  OBVIOUS
<1>1. PICK name : name = Arg(words, 0)
  OBVIOUS
<1>2. \A s \in Seq(Chars) : CString(s) \in Seq(Chars)
  BY CStringCut
<1>3. words \in Seq(Seq(Chars)) /\ Len(words) \in Nat
  BY <1>0, LexWords
<1>4. \A s \in Seq(Chars) : Notice(s) \in Seq(Chars)
  BY NoticeTyped
<1>5. <<>> \in Seq(Chars) /\ <<"!">> \in Seq(Chars) /\ <<"?">> \in Seq(Chars)
  BY Alphabet, EmptySeq
<1>6. HelpWord # PluginsWord /\ HelpWord # MsgWord /\ PluginsWord # MsgWord
  BY LinesAssumption
<1>7. Obeyed(str)' <=>
        /\ did' \in {"undefined"} \cup Meant(name)
        /\ did' = "msg" => /\ name = MsgWord /\ Arg(words, 1) = Peer
                           /\ Len(words) <= CommandWords
                           /\ wire' = CString(Notice(Peer \o DirectText(words)))
  BY <1>0, <1>1 DEF Obeyed
<1>8. CASE Outcome("undefined", <<>>)
  BY <1>2, <1>5, <1>7, <1>8 DEF Outcome, Deeds
<1>9. CASE name = HelpWord /\ Help(words)
  <2>1. did' = "help" /\ wire' \in Seq(Chars)
    <3>1. PICK s \in Seq(Chars) : s = IF Arg(words, 1) = <<>> THEN HelpWord ELSE <<"!">>
      BY <1>5, Constants
    <3>2. did' = "help" /\ wire' = CString(Notice(s))
      BY <1>9, <3>1 DEF Help, Outcome
    <3> QED
      BY <1>2, <1>4, <3>2
  <2>2. Meant(name) = {"help"}
    BY <1>6, <1>9 DEF Meant
  <2> QED
    BY <1>7, <2>1, <2>2 DEF Deeds
<1>10. CASE name = PluginsWord /\ Outcome("plugins", Notice(PluginsWord))
  <2>1. did' = "plugins" /\ wire' \in Seq(Chars)
    BY <1>2, <1>4, <1>10, Constants DEF Outcome
  <2>2. Meant(name) = {"plugins"}
    BY <1>6, <1>10 DEF Meant
  <2> QED
    BY <1>7, <2>1, <2>2 DEF Deeds
<1>11. CASE Len(words) <= CommandWords /\ name = MsgWord /\ Msg(words)
  <2>1. Meant(name) = {"msg", "self", "nobody"}
    BY <1>6, <1>11 DEF Meant
  <2>2. Sender # Peer
    BY LinesAssumption
  <2>3. CASE Arg(words, 1) = Sender
    <3>1. Outcome("self", Notice(<<"!">>))
      BY <1>11, <2>2, <2>3 DEF Msg
    <3>2. did' = "self" /\ wire' \in Seq(Chars)
      BY <1>2, <1>4, <1>5, <3>1 DEF Outcome
    <3> QED
      BY <1>7, <2>1, <3>2 DEF Deeds
  <2>4. CASE Arg(words, 1) = Peer
    <3>1. Outcome("msg", Notice(Peer \o DirectText(words)))
      BY <1>11, <2>2, <2>4 DEF Msg
    <3>2. Peer \o DirectText(words) \in Seq(Chars)
      BY <1>3, Constants, DirectTextTyped, ConcatProperties
    <3>3. did' = "msg" /\ wire' = CString(Notice(Peer \o DirectText(words)))
      BY <3>1 DEF Outcome
    <3>4. wire' \in Seq(Chars)
      BY <1>2, <1>4, <3>2, <3>3
    <3> QED
      BY <1>7, <1>11, <2>1, <2>4, <3>3, <3>4 DEF Deeds
  <2>5. CASE Arg(words, 1) # Sender /\ Arg(words, 1) # Peer
    <3>1. Outcome("nobody", <<>>)
      BY <1>11, <2>5 DEF Msg
    <3>2. did' = "nobody" /\ wire' \in Seq(Chars)
      BY <1>2, <1>5, <3>1 DEF Outcome
    <3> QED
      BY <1>7, <2>1, <3>2 DEF Deeds
  <2> QED
    BY <2>3, <2>4, <2>5
<1>12. CASE /\ name # HelpWord /\ name # PluginsWord /\ name # MsgWord
            /\ Outcome("unknown", Notice(<<"?">> \o str))
  <2>1. <<"?">> \o str \in Seq(Chars)
    BY <1>5, ConcatProperties
  <2>2. did' = "unknown" /\ wire' \in Seq(Chars)
    BY <1>2, <1>4, <1>12, <2>1 DEF Outcome
  <2>3. Meant(name) = {"unknown"}
    BY <1>12 DEF Meant
  <2> QED
    BY <1>7, <2>2, <2>3 DEF Deeds
<1>13. \/ Outcome("undefined", <<>>)
       \/ name = HelpWord /\ Help(words)
       \/ name = PluginsWord /\ Outcome("plugins", Notice(PluginsWord))
       \/ Len(words) <= CommandWords /\ name = MsgWord /\ Msg(words)
       \/ /\ name # HelpWord /\ name # PluginsWord /\ name # MsgWord
          /\ Outcome("unknown", Notice(<<"?">> \o str))
  <2>1. CommandWords \in Nat
    BY Constants
  <2>2. CASE Len(words) > CommandWords
    <3>1. ~(Len(words) <= CommandWords)
      BY <1>3, <2>1, <2>2
    <3> QED
      BY <1>0, <1>1, <2>2, <3>1 DEF Iterate
  <2>3. CASE ~(Len(words) > CommandWords)
    <3>1. Len(words) <= CommandWords
      BY <1>3, <2>1, <2>3
    <3> QED
      BY <1>0, <1>1, <1>6, <2>3, <3>1 DEF Iterate
  <2> QED
    BY <2>2, <2>3
<1> QED
  BY <1>8, <1>9, <1>10, <1>11, <1>12, <1>13

-----------------------------------------------------------------------------
(* Types, and what each stage remembers of the ones before.                *)

Answered == stage \in {"handled", "shown"} /\ did \notin {"join", "illegal"}
History ==
    /\ stage = "typing" => did = "nothing"
    /\ stage = "login" => packet = text \o <<Sep>> \o passwd
    /\ stage = "sent" \/ Answered => packet = Composed /\ (client = "rust" => text # <<>>)
    /\ Answered => text \in Seq(Typable)
    /\ Answered => \/ /\ Head(packet) = "0" /\ did \in {"kick", "undefined", "chat"}
                      /\ SentOn(Tail(packet))
                   \/ Head(packet) = "5" /\ did \notin {"nothing", "chat"}
                      /\ Obeyed(Tail(packet))
    /\ stage = "shown" => shown = [cpp |-> CppShows(wire), rust |-> RustShows(wire)]

IInv == TypeOK /\ History

LEMMA InitOK == Init => IInv
<1> SUFFICES ASSUME Init PROVE IInv
  OBVIOUS
<1>1. /\ <<>> \in Seq(Chars) /\ <<>> \in Seq(Keys) /\ <<>> \in Seq(Keys \cup {Nul})
      /\ Len(<<>>) = 0
  BY EmptySeq
<1>2. MaxTyped \in Nat
  BY LinesAssumption
<1>3. TypeOK
  BY <1>1, <1>2 DEF Init, TypeOK, Deeds
<1>4. History
  BY DEF Init, History, Answered
<1> QED
  BY <1>3, <1>4 DEF IInv

LEMMA TypeStep ==
    ASSUME IInv, Type PROVE IInv'
<1>1. PICK x \in Keys : text' = Append(text, x)
  BY DEF Type
<1>2. /\ text \in Seq(Keys) /\ Len(text) < MaxTyped /\ Len(text) \in Nat /\ MaxTyped \in Nat
  BY LinesAssumption, LenProperties DEF IInv, TypeOK, Type
<1>3. text' \in Seq(Keys) /\ Len(text') = Len(text) + 1
  BY <1>1, <1>2, AppendProperties
<1>4. Len(text') <= MaxTyped /\ text' \in Seq(Keys \cup {Nul})
  BY <1>2, <1>3, SeqMonotonic
<1>5. TypeOK'
  BY <1>3, <1>4 DEF IInv, TypeOK, Type
<1>6. History'
  BY DEF IInv, History, Answered, Type
<1> QED
  BY <1>5, <1>6 DEF IInv

LEMMA EnterStep ==
    ASSUME IInv, Enter PROVE IInv'
<1>1. /\ text \in Seq(Keys) /\ client \in {"cpp", "rust", "tester"}
      /\ client = "rust" => text # <<>>
  BY DEF IInv, TypeOK, Enter
<1>2. Composed \in Seq(Chars)
  BY <1>1, ComposedTyped
<1>3. TypeOK'
  BY <1>1, <1>2 DEF IInv, TypeOK, Enter
<1>4. packet' = Composed /\ text' = text /\ client' = client /\ stage' = "sent"
  BY DEF Enter
<1>5. Composed' = Composed
  BY <1>4 DEF Composed, ShiftLeft, CarCdr
<1>6. History'
  BY <1>1, <1>4, <1>5 DEF History, Answered
<1> QED
  BY <1>3, <1>6 DEF IInv

LEMMA EnterCredentialsStep ==
    ASSUME IInv, EnterCredentials PROVE IInv'
<1>1. PICK u \in Names, p \in Passwords :
          text' = u /\ passwd' = p /\ packet' = u \o <<Sep>> \o p
  BY DEF EnterCredentials
<1>2. stage' = "login" /\ UNCHANGED <<client, did, wire, shown>>
  BY DEF EnterCredentials
<1>3. u \in Seq(Keys \cup {Nul}) /\ p \in Seq(Keys \cup {Nul})
  BY Constants
<1>4. u \in Seq(Chars) /\ <<Sep>> \in Seq(Chars) /\ p \in Seq(Chars)
  BY <1>3, Alphabet, SeqMonotonic
<1>5. packet' \in Seq(Chars)
  BY <1>1, <1>4, ConcatProperties
<1>6. TypeOK'
  BY <1>1, <1>2, <1>3, <1>5 DEF IInv, TypeOK
<1>7. History'
  BY <1>1, <1>2 DEF History, Answered
<1> QED
  BY <1>6, <1>7 DEF IInv

\* What is sent, cut at the first NUL, and that a line the server reads on has
\* no separator in it.
LEMMA ComposedCut ==
    ASSUME text \in Seq(Keys), client \in {"cpp", "rust", "tester"},
           client = "rust" => text # <<>>
    PROVE  /\ IsCommand => CString(Composed) = <<"5">> \o Tail(text)
           /\ ~IsCommand => CString(Composed) = <<"0">> \o Typed
<1>1. CASE IsCommand
  <2>1. Composed = <<"5">> \o CommandSent /\ Tail(text) \in Seq(Keys)
    BY <1>1, ComposedForm
  <2>2. PICK s \in Seq(Keys) : s = Tail(text)
    BY <2>1
  <2> DEFINE R == Keys \cup {"5"}
             c == <<"5">> \o s
  <2>3. Nul \notin R
    BY Alphabet
  <2>4. c \in Seq(R)
    BY HeadAndTail
  <2>5. <<"5">> \o Append(s, Nul) = Append(c, Nul)
    <3>1. s \in Seq(R \cup {Nul}) /\ <<"5">> \in Seq(R \cup {Nul})
      BY SeqMonotonic
    <3> QED
      BY <3>1, ConcatAppend
  <2> HIDE DEF R, c
  <2>6. CString(c) = c /\ CString(Append(c, Nul)) = c
    BY <2>3, <2>4, CStringWhole, CStringEnds
  <2>7. Composed = c \/ Composed = Append(c, Nul)
    BY <2>1, <2>2, <2>5 DEF CommandSent, c
  <2> QED
    BY <1>1, <2>2, <2>6, <2>7 DEF c
<1>2. CASE ~IsCommand
  <2>1. Composed = <<"0">> \o Typed
    BY <1>2, ComposedForm
  <2>2. PICK s \in Seq(Keys \cup {"A"}) : s = Typed
    BY <1>2, TypedProperties
  <2>3. PICK R : R = (Keys \cup {"A"}) \cup {"0"}
    OBVIOUS
  <2>4. Nul \notin R
    BY <2>3, Alphabet
  <2>5. PICK c : c = <<"0">> \o s
    OBVIOUS
  <2>6. c \in Seq(R)
    BY <2>3, <2>5, HeadAndTail
  <2>7. CString(c) = c
    BY <2>4, <2>6, CStringWhole
  <2> QED
    BY <1>2, <2>1, <2>2, <2>5, <2>7
<1> QED
  BY <1>1, <1>2

LEMMA WithoutSep ==
    ASSUME NEW s \in Seq(Keys), \A i \in 1..Len(s) : s[i] # Sep
    PROVE  s \in Seq(Typable)
<1>1. PICK n \in Nat : n = Len(s)
  BY LenProperties
<1>2. \A i \in 1..n : s[i] \in Typable
  BY <1>1, ElementOfSeq DEF Keys
<1>3. s = [i \in 1..n |-> s[i]]
  BY <1>1, LenProperties
<1>4. [i \in 1..n |-> s[i]] \in Seq(Typable)
  BY <1>2
<1> QED
  BY <1>3, <1>4

LEMMA LegalTyped ==
    ASSUME text \in Seq(Keys), client \in {"cpp", "rust", "tester"},
           client = "rust" => text # <<>>, Legal(Composed)
    PROVE  text \in Seq(Typable)
<1>1. PICK c : c = CString(Composed)
  OBVIOUS
<1>2. \A i \in 1..Len(c) : c[i] # Sep
  BY <1>1 DEF Legal
<1>3. PICK n \in Nat : n = Len(text)
  BY LenProperties
<1>4. CASE IsCommand
  <2>1. PICK s \in Seq(Keys) : s = Tail(text)
    BY <1>4, HeadTailProperties DEF IsCommand
  <2>2. Len(s) = n - 1 /\ \A i \in 1..(n - 1) : s[i] = text[i + 1]
    BY <1>3, <1>4, <2>1, HeadTailProperties DEF IsCommand
  <2>3. c = <<"5">> \o s
    BY <1>1, <1>4, <2>1, ComposedCut
  <2>4. Len(c) = Len(s) + 1 /\ \A i \in 1..Len(s) : c[i + 1] = s[i]
    BY <2>3, HeadAndTail
  <2>5. ASSUME NEW i \in 1..n PROVE text[i] # Sep
    <3>1. CASE i = 1
      BY <1>4, <3>1, Alphabet DEF IsCommand
    <3>2. CASE i # 1
      <4>1. i - 1 \in 1..(n - 1) /\ (i - 1) + 1 = i /\ i \in 1..((n - 1) + 1)
        BY <3>2
      <4>2. text[i] = s[i - 1] /\ c[i] = s[i - 1]
        BY <2>2, <2>4, <4>1
      <4> QED
        BY <1>2, <2>2, <2>4, <4>1, <4>2
    <3> QED
      BY <3>1, <3>2
  <2> QED
    BY <1>3, <2>5, WithoutSep
<1>5. CASE ~IsCommand /\ text # <<>>
  <2>1. Typed = text
    BY <1>5 DEF Typed
  <2>2. c = <<"0">> \o text
    BY <1>1, <1>5, <2>1, ComposedCut
  <2>3. Len(c) = n + 1 /\ \A i \in 1..n : c[i + 1] = text[i]
    BY <1>3, <2>2, HeadAndTail
  <2>4. ASSUME NEW i \in 1..n PROVE text[i] # Sep
    <3>1. i + 1 \in 1..(n + 1)
      OBVIOUS
    <3> QED
      BY <1>2, <2>3, <3>1
  <2> QED
    BY <1>3, <2>4, WithoutSep
<1>6. CASE text = <<>>
  BY <1>6, EmptySeq
<1> QED
  BY <1>4, <1>5, <1>6

LEMMA ReceiveStep ==
    ASSUME IInv, Receive PROVE IInv'
<1>1. /\ stage = "sent" /\ stage' = "handled"
      /\ client' = client /\ text' = text /\ passwd' = passwd
      /\ packet' = packet /\ shown' = shown
  BY DEF Receive
<1>2. packet = Composed /\ (client = "rust" => text # <<>>)
  BY <1>1 DEF IInv, History
<1>3. /\ packet \in Seq(Chars) /\ packet # <<>>
      /\ Legal(packet) => text \in Seq(Typable)
  BY <1>1, <1>2, ComposedTyped, LegalTyped DEF IInv, TypeOK
<1>4. Tail(packet) \in Seq(Chars)
  BY <1>3, HeadTailProperties
<1>5. Composed' = Composed
  BY <1>1 DEF Composed, ShiftLeft, CarCdr
<1>6. CASE Legal(packet) /\ Head(packet) = "0" /\ HandleSend(Tail(packet))
  <2>1. PICK str \in Seq(Chars) : str = Tail(packet)
    BY <1>4
  <2>2. HandleSend(str)
    BY <1>6, <2>1
  <2>3. did' \in {"kick", "undefined", "chat"} /\ wire' \in Seq(Chars) /\ SentOn(str)'
    BY <2>2, HandleSendDoes
  <2>4. SentOn(Tail(packet))'
    BY <1>1, <2>1, <2>3 DEF SentOn
  <2>5. TypeOK'
    BY <1>1, <2>3 DEF IInv, TypeOK, Deeds
  <2>6. History'
    BY <1>1, <1>2, <1>3, <1>5, <1>6, <2>3, <2>4 DEF History, Answered
  <2> QED
    BY <2>5, <2>6 DEF IInv
<1>7. CASE Legal(packet) /\ Head(packet) = "5" /\ Iterate(Tail(packet))
  <2>1. PICK str \in Seq(Chars) : str = Tail(packet)
    BY <1>4
  <2>2. Iterate(str)
    BY <1>7, <2>1
  <2>3. did' \in Deeds \ {"nothing", "join", "illegal", "chat"} /\ wire' \in Seq(Chars) /\ Obeyed(str)'
    BY <2>2, IterateDoes
  <2>4. Obeyed(Tail(packet))'
    BY <1>1, <2>1, <2>3 DEF Obeyed
  <2>5. TypeOK'
    BY <1>1, <2>3 DEF IInv, TypeOK
  <2>6. History'
    BY <1>1, <1>2, <1>3, <1>5, <1>7, <2>3, <2>4 DEF History, Answered
  <2> QED
    BY <2>5, <2>6 DEF IInv
<1>8. CASE ~Legal(packet) /\ Outcome("illegal", <<>>)
  <2>1. <<>> \in Seq(Chars)
    BY EmptySeq
  <2>2. did' = "illegal" /\ wire' \in Seq(Chars)
    BY <1>8, <2>1, CStringCut DEF Outcome
  <2>3. TypeOK'
    BY <1>1, <2>2 DEF IInv, TypeOK, Deeds
  <2>4. History'
    BY <1>1, <2>2 DEF History, Answered
  <2> QED
    BY <2>3, <2>4 DEF IInv
<1> QED
  BY <1>6, <1>7, <1>8 DEF Receive

LEMMA AliasesTyped ==
    ASSUME NEW n \in 1..Len(Online)
    PROVE  /\ Aliases(n) \in Seq(Seq(Typable)) /\ Len(Aliases(n)) = n
           /\ \A i \in 1..n : Aliases(n)[i] = Online[i]
<1>1. PICK N \in Nat : N = Len(Online)
  BY Constants, LenProperties
<1>2. \A i \in 1..n : Online[i] \in Seq(Typable)
  BY <1>1, Constants, ElementOfSeq
<1>3. n \in Int /\ 1 \in Int /\ n >= 1
  BY <1>1
<1> DEFINE a == SubSeq(Online, 1, n)
<1>4. /\ a \in Seq(Seq(Typable))
      /\ Len(a) = IF 1 <= n THEN n - 1 + 1 ELSE 0
      /\ \A i \in 1..(n - 1 + 1) : a[i] = Online[1 + i - 1]
  BY <1>2, <1>3, SubSeqProperties
<1> HIDE DEF a
<1>5. Len(a) = n
  BY <1>3, <1>4
<1>6. \A i \in 1..n : a[i] = Online[i]
  <2>1. \A i \in 1..n : i \in 1..(n - 1 + 1) /\ 1 + i - 1 = i
    BY <1>3
  <2> QED
    BY <1>4, <2>1
<1> QED
  BY <1>4, <1>5, <1>6 DEF a, Aliases

\* What nick packs.
LEMMA JoinFields ==
    ASSUME NEW n \in 1..Len(Online)
    PROVE  /\ <<<<"1">>, Peer>> \o Aliases(n) \in Seq(Seq(Typable \cup {"1"}))
           /\ Len(<<<<"1">>, Peer>> \o Aliases(n)) = n + 2
           /\ (<<<<"1">>, Peer>> \o Aliases(n))[1] = <<"1">>
           /\ (<<<<"1">>, Peer>> \o Aliases(n))[2] = Peer
           /\ \A i \in 1..n : (<<<<"1">>, Peer>> \o Aliases(n))[i + 2] = Online[i]
<1> DEFINE S == Typable \cup {"1"}
           h == <<<<"1">>, Peer>>
           f == h \o Aliases(n)
<1>0. n \in Nat
  BY Constants, LenProperties
<1>1. \A s \in Seq(Typable) : s \in Seq(S)
  BY SeqMonotonic
<1>2. Peer \in Seq(S) /\ <<"1">> \in Seq(S)
  BY <1>1, Constants
<1>3. h \in Seq(Seq(S)) /\ Len(h) = 2 /\ h[1] = <<"1">> /\ h[2] = Peer
  BY <1>2
<1>4. /\ Aliases(n) \in Seq(Seq(S)) /\ Len(Aliases(n)) = n
      /\ \A i \in 1..n : Aliases(n)[i] = Online[i]
  <2>1. Seq(Typable) \subseteq Seq(S)
    BY <1>1
  <2> QED
    BY <2>1, AliasesTyped, SeqMonotonic
<1> HIDE DEF h
<1>5. PICK a \in Seq(Seq(S)), m \in Nat : a = Aliases(n) /\ m = 2
  BY <1>4
<1>6. Len(h) = m /\ Len(a) = n
  BY <1>3, <1>4, <1>5
<1>7. /\ h \o a \in Seq(Seq(S)) /\ Len(h \o a) = m + n
      /\ \A i \in 1..(m + n) : (h \o a)[i] = IF i <= m THEN h[i] ELSE a[i - m]
  BY <1>0, <1>3, <1>6, ConcatProperties
<1>8. f = h \o a
  BY <1>5
<1> HIDE DEF f, S
<1>9. /\ f \in Seq(Seq(S)) /\ Len(f) = n + 2
      /\ \A i \in 1..(n + 2) : f[i] = IF i <= 2 THEN h[i] ELSE a[i - 2]
  BY <1>0, <1>5, <1>7, <1>8
<1>10. f[1] = <<"1">> /\ f[2] = Peer
  <2>1. 1 \in 1..(n + 2) /\ 2 \in 1..(n + 2)
    BY <1>0
  <2>2. f[1] = h[1] /\ f[2] = h[2]
    BY <1>9, <2>1
  <2> QED
    BY <1>3, <2>2
<1>11. ASSUME NEW i \in 1..n PROVE f[i + 2] = Online[i]
  <2>1. i + 2 \in 1..(n + 2) /\ ~(i + 2 <= 2) /\ (i + 2) - 2 = i
    BY <1>0
  <2>2. f[i + 2] = a[i]
    BY <1>9, <2>1
  <2> QED
    BY <1>4, <1>5, <2>2
<1> QED
  BY <1>9, <1>10, <1>11 DEF f, h, S

LEMMA AnnounceStep ==
    ASSUME IInv, Announce PROVE IInv'
<1>1. PICK n \in 1..Len(Online) : wire' = JoinPacket(n)
  BY DEF Announce
<1>2. PICK f : f = <<<<"1">>, Peer>> \o Aliases(n)
  OBVIOUS
<1>3. f \in Seq(Seq(Typable \cup {"1"})) /\ Len(f) = n + 2
  BY <1>2, JoinFields
<1>4. f \in Seq(Seq(Chars)) /\ f # <<>>
  <2>1. Typable \cup {"1"} \subseteq Chars
    BY Alphabet
  <2>2. Seq(Typable \cup {"1"}) \subseteq Seq(Chars)
    BY <2>1, SeqMonotonic
  <2>3. f \in Seq(Seq(Chars))
    BY <1>3, <2>2, SeqMonotonic
  <2>4. n + 2 # 0
    BY Constants, LenProperties
  <2> QED
    BY <1>3, <2>3, <2>4, EmptySeq
<1>5. wire' \in Seq(Chars)
  BY <1>1, <1>2, <1>4, PackedTyped DEF JoinPacket
<1>6. TypeOK'
  BY <1>5 DEF IInv, TypeOK, Announce, Deeds
<1>7. History'
  BY DEF IInv, History, Answered, Announce
<1> QED
  BY <1>6, <1>7 DEF IInv

LEMMA ShowStep ==
    ASSUME IInv, Show PROVE IInv'
<1>1. /\ stage = "handled" /\ stage' = "shown"
      /\ client' = client /\ text' = text /\ passwd' = passwd
      /\ packet' = packet /\ did' = did /\ wire' = wire
      /\ shown' = [cpp |-> CppShows(wire), rust |-> RustShows(wire)]
  BY DEF Show
<1>2. TypeOK'
  BY <1>1 DEF IInv, TypeOK
<1>3. Composed' = Composed
  BY <1>1 DEF Composed, ShiftLeft, CarCdr
<1>4. SentOn(Tail(packet))' <=> SentOn(Tail(packet))
  BY <1>1 DEF SentOn
<1>5. Obeyed(Tail(packet))' <=> Obeyed(Tail(packet))
  BY <1>1 DEF Obeyed
<1>6. CppShows(wire)' = CppShows(wire) /\ RustShows(wire)' = RustShows(wire)
  BY <1>1
<1>7. History'
  BY <1>1, <1>3, <1>4, <1>5, <1>6 DEF IInv, History, Answered
<1> QED
  BY <1>2, <1>7 DEF IInv

LEMMA StepOK == IInv /\ [Next]_vars => IInv'
<1> SUFFICES ASSUME IInv, [Next]_vars PROVE IInv'
  OBVIOUS
<1>1. CASE UNCHANGED vars
  <2>1. /\ client' = client /\ stage' = stage /\ text' = text /\ passwd' = passwd
        /\ packet' = packet /\ did' = did /\ wire' = wire /\ shown' = shown
    BY <1>1 DEF vars
  <2>2. TypeOK'
    BY <2>1 DEF IInv, TypeOK
  <2>3. Composed' = Composed
    BY <2>1 DEF Composed, ShiftLeft, CarCdr
  <2>4. SentOn(Tail(packet))' <=> SentOn(Tail(packet))
    BY <2>1 DEF SentOn
  <2>5. Obeyed(Tail(packet))' <=> Obeyed(Tail(packet))
    BY <2>1 DEF Obeyed
  <2>6. CppShows(wire)' = CppShows(wire) /\ RustShows(wire)' = RustShows(wire)
    BY <2>1
  <2>7. History'
    BY <2>1, <2>3, <2>4, <2>5, <2>6 DEF IInv, History, Answered
  <2> QED
    BY <2>2, <2>7 DEF IInv
<1> QED
  BY <1>1, TypeStep, EnterStep, EnterCredentialsStep, ReceiveStep, AnnounceStep, ShowStep
  DEF Next

LEMMA IInvAlways == Spec => []IInv
  BY InitOK, StepOK, PTL DEF Spec

-----------------------------------------------------------------------------
(* The theorems.                                                           *)

\* Types: a program, its line and what was made of it, whatever is typed.
THEOREM LinesTypes == Spec => []TypeOK
<1>1. IInv => TypeOK
  BY DEF IInv
<1> QED
  BY <1>1, IInvAlways, PTL

\* The lexer's one pass finds the words between the separators, in every text
\* that is typed and in every packet the server sends.
THEOREM LexerSplits == Spec => []LexSplits
<1>1. ASSUME IInv PROVE LexSplits
  <2>1. text \in Seq(Keys \cup {Nul}) /\ wire \in Seq(Chars)
    BY <1>1 DEF IInv, TypeOK
  <2>2. PICK s \in Seq(Keys \cup {Nul}), w \in Seq(Chars) : s = text /\ w = wire
    BY <2>1
  <2>3. Lex(s, Space) = Split(s, Space) /\ Lex(w, Sep) = Split(w, Sep)
    BY LexIsSplit
  <2> QED
    BY <2>2, <2>3 DEF LexSplits
<1> QED
  BY <1>1, IInvAlways, PTL

\* What the scan of the credentials gives the server, whatever was typed: the
\* user name and the password when neither has a separator in it; with one in
\* the user name, what follows it for the password, and the one typed is lost;
\* and of the password what comes before the first separator in it.
THEOREM CredentialsArrive == Spec => []CredentialsAsTyped
<1>1. ASSUME IInv PROVE CredentialsAsTyped
  <2> SUFFICES ASSUME stage = "login"
               PROVE  /\ Scan(packet).uname = Split(text, Sep)[1]
                      /\ Scan(packet).passwd =
                            IF Len(Split(text, Sep)) > 1 THEN Split(text, Sep)[2]
                            ELSE Split(passwd, Sep)[1]
                      /\ Scan(packet).status =
                            IF Len(Split(text, Sep)) > 1 \/ Len(Split(passwd, Sep)) > 1
                            THEN Rank.GotUsernameAndPassword ELSE Rank.GotUsername
    BY DEF CredentialsAsTyped
  <2>1. PICK u \in Seq(Keys \cup {Nul}), p \in Seq(Keys \cup {Nul}) :
            u = text /\ p = passwd /\ packet = u \o <<Sep>> \o p
    BY <1>1 DEF IInv, TypeOK, History
  <2>2. PICK S : S = Keys \cup {Nul}
    OBVIOUS
  <2>3. u \in Seq(S) /\ p \in Seq(S) /\ Sep \in S
    BY <2>2 DEF Keys
  <2>4. packet = Append(u, Sep) \o p
    BY <2>1, <2>3, AppendIsConcat
  <2>5. PICK a \in Words(S), b \in Words(S) : a = Lex(u, Sep) /\ b = Lex(p, Sep)
    BY <2>3, LexWords
  <2>6. a = Split(u, Sep) /\ b = Split(p, Sep)
    BY <2>3, <2>5, LexIsSplit
  <2>7. PICK m \in Nat, n \in Nat : m = Len(a) /\ n = Len(b) /\ m # 0 /\ n # 0
    BY EmptySeq, LenProperties DEF Words
  <2>8. PICK c : c = a \o b
    OBVIOUS
  <2>9. Scan(packet) = ScanFields(c)
    <3>1. Append(u, Sep) \o p \in Seq(S)
      BY <2>3, AppendProperties, ConcatProperties
    <3>2. Lex(Append(u, Sep) \o p, Sep) = c
      BY <2>3, <2>5, <2>8, LexJoined
    <3> QED
      BY <2>4, <3>1, <3>2, ScanKeeps
  <2>10. Len(c) = m + n /\ \A i \in 1..(m + n) : c[i] = IF i <= m THEN a[i] ELSE b[i - m]
    BY <2>7, <2>8, ConcatProperties DEF Words
  <2>11. c[1] = a[1] /\ c[2] = IF m > 1 THEN a[2] ELSE b[1]
    <3>1. 1 \in 1..(m + n) /\ 2 \in 1..(m + n) /\ 1 <= m /\ (2 <= m <=> m > 1)
          /\ (~(m > 1) => 2 - m = 1)
      BY <2>7
    <3> QED
      BY <2>10, <3>1
  <2>12. PICK k \in Nat : k = Len(c) /\ k # 1 /\ (k = 2 <=> ~(m > 1 \/ n > 1))
    BY <2>7, <2>10
  <2>13. ScanFields(c) = [status |-> IF k = 2 THEN 1 ELSE 2, uname |-> c[1], passwd |-> c[2]]
    BY <2>12 DEF ScanFields
  <2>14. PICK r : r = ScanFields(c)
    OBVIOUS
  <2>15. /\ r.uname = a[1] /\ r.passwd = (IF m > 1 THEN a[2] ELSE b[1])
         /\ r.status = IF m > 1 \/ n > 1 THEN 2 ELSE 1
    BY <2>11, <2>12, <2>13, <2>14
  <2> QED
    BY <2>1, <2>6, <2>7, <2>9, <2>14, <2>15, Ranks
<1> QED
  BY <1>1, IInvAlways, PTL

\* What the server has of a line that was answered.
LEMMA PacketParts ==
    ASSUME IInv, Answered
    PROVE  /\ IsCommand => /\ Head(packet) = "5" /\ Tail(packet) = CommandSent
                           /\ did \notin {"nothing", "chat"} /\ Obeyed(CommandSent)
           /\ ~IsCommand => /\ Head(packet) = "0" /\ Tail(packet) = Typed
                            /\ did \in {"kick", "undefined", "chat"} /\ SentOn(Typed)
<1>1. /\ text \in Seq(Typable) /\ client \in {"cpp", "rust", "tester"}
      /\ client = "rust" => text # <<>>
      /\ packet = Composed
  BY DEF IInv, TypeOK, History
<1> Typable \subseteq Keys
  BY Alphabet
<1>2. \/ /\ Head(packet) = "0" /\ did \in {"kick", "undefined", "chat"}
         /\ SentOn(Tail(packet))
      \/ Head(packet) = "5" /\ did \notin {"nothing", "chat"} /\ Obeyed(Tail(packet))
  BY DEF IInv, History
<1>3. ASSUME IsCommand PROVE Head(packet) = "5" /\ Tail(packet) = CommandSent
  <2>1. PICK s \in Seq(Typable \cup {Nul}) : s = CommandSent /\ packet = <<"5">> \o s
    BY <1>1, <1>3, ComposedForm
  <2> QED
    BY <2>1, HeadAndTail
<1>4. ASSUME ~IsCommand PROVE Head(packet) = "0" /\ Tail(packet) = Typed
  <2>1. PICK s \in Seq(Typable \cup {"A"}) : s = Typed /\ packet = <<"0">> \o s
    BY <1>1, <1>4, ComposedForm, TypedProperties
  <2> QED
    BY <2>1, HeadAndTail
<1>5. CASE IsCommand
  BY <1>2, <1>3, <1>5
<1>6. CASE ~IsCommand
  BY <1>2, <1>4, <1>6
<1> QED
  BY <1>5, <1>6

\* The first word of the command is the one that was typed.
LEMMA FirstWord ==
    ASSUME NEW s \in Seq(Typable)
    PROVE  /\ Arg(Lex(s, Space), 0) = Split(s, Space)[1]
           /\ \A i \in 1..Len(s) : s[i] = Space =>
                  Arg(Lex(Append(s, Nul), Space), 0) = Split(s, Space)[1]
<1> DEFINE R == Typable \cup {Nul}
<1>1. PICK w : w = Lex(s, Space)
  OBVIOUS
<1>2. w \in Words(Typable) /\ Len(w) \in Nat \ {0}
  BY <1>1, LexWords
<1>3. w = Split(s, Space)
  BY <1>1, LexIsSplit
<1>4. Arg(w, 0) = w[1]
  <2>1. 0 < Len(w) /\ 0 + 1 = 1
    BY <1>2
  <2> QED
    BY <2>1 DEF Arg
<1>5. ASSUME NEW i \in 1..Len(s), s[i] = Space
      PROVE  Arg(Lex(Append(s, Nul), Space), 0) = w[1]
  <2> HIDE DEF R
  <2>1. s \in Seq(R) /\ Nul \in R /\ Nul # Space
    BY Alphabet, SeqMonotonic DEF R
  <2>2. w \in Words(R) /\ Lex(Append(s, Nul), Space) = Read(w, Nul, Space)
    BY <1>1, <2>1, LexAppend
  <2>3. Len(w) >= 2
    BY <1>1, <1>5, LexTwoWords
  <2>4. PICK v : v = Read(w, Nul, Space)
    OBVIOUS
  <2>5. Len(v) = Len(w) /\ \A j \in 1..(Len(w) - 1) : v[j] = w[j]
    <3>1. PICK u \in Words(R), x \in R : u = w /\ x = Nul
      BY <2>1, <2>2
    <3>2. /\ x # Space => Len(Read(u, x, Space)) = Len(u)
          /\ \A j \in 1..(Len(u) - 1) : Read(u, x, Space)[j] = u[j]
      BY ReadProperties
    <3> QED
      BY <2>1, <2>4, <3>1, <3>2
  <2>6. 1 \in 1..(Len(w) - 1) /\ 0 < Len(w) /\ 0 + 1 = 1
    BY <1>2, <2>3
  <2>7. Arg(v, 0) = w[1]
    BY <2>5, <2>6 DEF Arg
  <2> QED
    BY <2>2, <2>4, <2>7
<1> QED
  BY <1>1, <1>3, <1>4, <1>5

\* The command that is executed is the one that was typed: with the C++
\* program, when a space follows it; with the others, always.
THEOREM CommandsAsTyped == Spec => []CommandAsTyped
<1>1. ASSUME IInv PROVE CommandAsTyped
  <2> SUFFICES ASSUME stage \in {"handled", "shown"}, did \notin {"undefined", "join", "illegal"},
                      text # <<>>, text[1] = Slash,
                      client # "cpp" \/ \E i \in 1..Len(text) : text[i] = Space
               PROVE  did \in Meant(Split(Tail(text), Space)[1])
    BY DEF CommandAsTyped
  <2>1. IsCommand /\ Answered
    BY DEF IsCommand, Answered
  <2>2. did \in Meant(Arg(Lex(CommandSent, Space), 0))
    BY <1>1, <2>1, PacketParts DEF Obeyed
  <2>3. text \in Seq(Typable) /\ client \in {"cpp", "rust", "tester"}
    BY <1>1, <2>1 DEF IInv, TypeOK, History
  <2>4. PICK s \in Seq(Typable) : s = Tail(text)
    BY <2>3, HeadTailProperties
  <2>5. Len(s) = Len(text) - 1 /\ \A i \in 1..Len(s) : s[i] = text[i + 1]
    BY <2>3, <2>4, HeadTailProperties
  <2>6. CASE client = "cpp"
    <3>1. PICK i \in 1..Len(text) : text[i] = Space
      BY <2>6
    <3>2. i # 1
      BY <3>1, Alphabet
    <3>3. Len(text) \in Nat
      BY <2>3, LenProperties
    <3>4. i - 1 \in 1..Len(s) /\ (i - 1) + 1 = i
      BY <2>5, <3>2, <3>3
    <3>5. s[i - 1] = Space
      BY <2>5, <3>1, <3>4
    <3>6. CommandSent = Append(s, Nul)
      BY <2>4, <2>6 DEF CommandSent
    <3>7. Arg(Lex(CommandSent, Space), 0) = Split(s, Space)[1]
      BY <3>4, <3>5, <3>6, FirstWord
    <3> QED
      BY <2>2, <2>4, <3>7
  <2>7. CASE client # "cpp"
    <3>1. CommandSent = s
      BY <2>4, <2>7 DEF CommandSent
    <3>2. Arg(Lex(CommandSent, Space), 0) = Split(s, Space)[1]
      BY <3>1, FirstWord
    <3> QED
      BY <2>2, <2>4, <3>2
  <2> QED
    BY <2>6, <2>7
<1> QED
  BY <1>1, IInvAlways, PTL

\* A packet as the programs read it: cut at no NUL, it has the fields it was
\* made of, and the last ones together are what follows a separator.
LEMMA SentFields ==
    ASSUME NEW S, Sep \notin S, Nul \notin S, NEW fs \in Seq(Seq(S)), fs # <<>>
    PROVE  /\ CString(Packed(fs)) = Packed(fs)
           /\ Lex(Packed(fs), Sep) = fs
           /\ \A k \in Nat : After(Packed(fs), k) = Packed(SubSeq(fs, k + 1, Len(fs)))
<1>1. Packed(fs) \in Seq(S \cup {Sep}) /\ Lex(Packed(fs), Sep) = fs
  BY LexPacked
<1>2. Nul \notin S \cup {Sep}
  BY Alphabet
<1>3. CString(Packed(fs)) = Packed(fs)
  BY <1>1, <1>2, CStringWhole
<1> QED
  BY <1>1, <1>3 DEF After

\* The alphabet of a chat, and of a join.
Letters == Typable \cup {"0", "1", "A"}

LEMMA LettersProperties ==
    /\ Sep \notin Letters /\ Nul \notin Letters
    /\ Seq(Typable) \subseteq Seq(Letters)
    /\ <<"0">> \in Seq(Letters) /\ <<"1">> \in Seq(Letters)
    /\ Seq(Typable \cup {"A"}) \subseteq Seq(Letters)
<1>1. Sep \notin Letters /\ Nul \notin Letters
  BY Alphabet DEF Letters
<1>2. Typable \subseteq Letters /\ Typable \cup {"A"} \subseteq Letters
  BY DEF Letters
<1>3. "0" \in Letters /\ "1" \in Letters
  BY DEF Letters
<1>4. <<"0">> \in Seq(Letters) /\ <<"1">> \in Seq(Letters)
  BY <1>3
<1> QED
  BY <1>1, <1>2, <1>4, SeqMonotonic

\* Both programs show the text of a chat and who sent it.
LEMMA ChatShown ==
    ASSUME NEW s \in Seq(Letters)
    PROVE  /\ CppShows(CString(ChatPacket(s))) = <<"chat", Sender, s>>
           /\ RustShows(CString(ChatPacket(s))) = <<"chat", Sender, s>>
<1>1. PICK e \in Seq(Letters) : e = Sender
  BY Constants, LettersProperties
<1>2. PICK fs : fs = <<<<"0">>, s, e>>
  OBVIOUS
<1>3. fs \in Seq(Seq(Letters)) /\ fs # <<>>
  <2>1. <<"0">> \in Seq(Letters)
    BY LettersProperties
  <2> QED
    BY <1>2, <2>1
<1>4. Len(fs) = 3 /\ fs[1] = <<"0">> /\ fs[2] = s /\ fs[3] = e
  BY <1>2
<1>5. PICK p : p = CString(ChatPacket(s))
  OBVIOUS
<1>6. p = Packed(fs)
  <2>1. ChatPacket(s) = Packed(fs)
    BY <1>1, <1>2 DEF ChatPacket
  <2> QED
    BY <1>3, <1>5, <2>1, LettersProperties, SentFields
<1>7. Lex(p, Sep) = fs /\ \A k \in Nat : After(p, k) = Packed(SubSeq(fs, k + 1, Len(fs)))
  BY <1>3, <1>6, LettersProperties, SentFields
<1>8. Arg(fs, 0) = <<"0">> /\ Arg(fs, 1) = s /\ Arg(fs, 2) = e
  <2>1. 0 < 3 /\ 1 < 3 /\ 2 < 3 /\ 0 + 1 = 1 /\ 1 + 1 = 2 /\ 2 + 1 = 3
    OBVIOUS
  <2> QED
    BY <1>4, <2>1 DEF Arg
<1>9. After(p, 2) = e
  <2>1. SubSeq(fs, 3, 3) = <<e>>
    <3>1. fs[3] \in Seq(Letters) /\ \A i \in 3..3 : fs[i] \in Seq(Letters)
      BY <1>4
    <3>2. /\ SubSeq(fs, 3, 3) \in Seq(Seq(Letters)) /\ Len(SubSeq(fs, 3, 3)) = 1
          /\ \A i \in 1..1 : SubSeq(fs, 3, 3)[i] = fs[3 + i - 1]
      BY <3>1, SubSeqProperties
    <3>3. PICK t : t = SubSeq(fs, 3, 3)
      OBVIOUS
    <3>4. t \in Seq(Seq(Letters)) /\ Len(t) = 1 /\ t[1] = e
      <4>1. 3 + 1 - 1 = 3 /\ 1 \in 1..1
        OBVIOUS
      <4> QED
        BY <1>4, <3>2, <3>3, <4>1
    <3>5. t = <<e>>
      BY <3>4
    <3> QED
      BY <3>3, <3>5
  <2>2. After(p, 2) = Packed(SubSeq(fs, 2 + 1, Len(fs))) /\ 2 + 1 = 3
    BY <1>7
  <2>3. Packed(<<e>>) = e
    BY PackedOne
  <2> QED
    BY <1>4, <2>1, <2>2, <2>3
<1>10. CppShows(p) = <<"chat", e, s>>
  <2>1. ~(Len(fs) > ClientWords)
    BY <1>4, Constants
  <2>2. <<"0">> # <<"1">> /\ <<"0">> # <<"6">>
    OBVIOUS
  <2> QED
    BY <1>7, <1>8, <2>1, <2>2 DEF CppShows
<1>11. RustShows(p) = <<"chat", e, s>>
  <2>1. Arg(Lex(p, Sep), 0) = <<"0">> /\ Arg(Lex(p, Sep), 1) = s
    BY <1>7, <1>8
  <2> QED
    BY <1>9, <2>1 DEF RustShows
<1> QED
  BY <1>1, <1>5, <1>10, <1>11

\* A chat shows what was typed and by whom, in both programs.
THEOREM ChatsAsTyped == Spec => []ChatAsTyped
<1>1. ASSUME IInv PROVE ChatAsTyped
  <2> SUFFICES ASSUME did = "chat", stage = "shown"
               PROVE  \A program \in DOMAIN shown :
                          shown[program] = <<"chat", Sender, Typed>>
    BY DEF ChatAsTyped
  <2>1. ~IsCommand /\ SentOn(Typed)
    BY <1>1, PacketParts DEF Answered
  <2>2. wire = CString(ChatPacket(Typed))
    BY <2>1 DEF SentOn
  <2>3. Typed \in Seq(Letters)
    <3>1. text \in Seq(Typable) /\ (client = "rust" => text # <<>>)
      BY <1>1 DEF IInv, TypeOK, History, Answered
    <3>2. Typable \subseteq Keys
      BY Alphabet
    <3> QED
      BY <3>1, <3>2, TypedProperties, LettersProperties
  <2>4. shown = [cpp |-> CppShows(wire), rust |-> RustShows(wire)]
    BY <1>1 DEF IInv, History
  <2>5. /\ CppShows(wire) = <<"chat", Sender, Typed>>
        /\ RustShows(wire) = <<"chat", Sender, Typed>>
    BY <2>2, <2>3, ChatShown
  <2> QED
    BY <2>4, <2>5
<1> QED
  BY <1>1, IInvAlways, PTL

-----------------------------------------------------------------------------
(* The list a join brings, as the C++ program prints it.                   *)

ListOf(args) ==
    CHOOSE list : list = [k \in 0..(LastListed - 1) |->
        IF k = 0 THEN <<>> ELSE Listed(list[k - 1], Arg(args, k + 1))]

LEMMA ListIsListOf ==
    ASSUME NEW args
    PROVE  Listing(args) = ListOf(args)[LastListed - 1]
  BY DEF Listing, ListOf

LEMMA ListFunction ==
    ASSUME NEW S, NEW args \in Seq(Seq(S)), NEW m \in Nat, m = LastListed - 1
    PROVE  /\ ListOf(args)[0] = <<>>
           /\ \A k \in 1..m : ListOf(args)[k] = Listed(ListOf(args)[k - 1], Arg(args, k + 1))
<1> DEFINE W == Seq(Seq(S))
           g == [p \in W \X (1..m) |-> Listed(p[1], Arg(args, p[2] + 1))]
           Lists(f) == [k \in 0..m |->
                            IF k = 0 THEN <<>> ELSE Listed(f[k - 1], Arg(args, k + 1))]
<1>1. <<>> \in W
  BY EmptySeq
<1>2. \A w \in W, k \in 1..m : Listed(w, Arg(args, k + 1)) \in W
  <2> SUFFICES ASSUME NEW w \in W, NEW k \in 1..m PROVE Listed(w, Arg(args, k + 1)) \in W
    OBVIOUS
  <2>1. PICK l \in Nat : l = k + 1
    OBVIOUS
  <2>2. PICK e \in Seq(S) : e = Arg(args, l)
    BY ArgTyped
  <2>3. Append(w, e) \in W
    BY AppendProperties
  <2> QED
    BY <2>1, <2>2, <2>3 DEF Listed
<1>3. \A w \in W, k \in 1..m : g[<<w, k>>] = Listed(w, Arg(args, k + 1))
  OBVIOUS
<1>4. \A w \in W, k \in 1..m : g[<<w, k>>] \in W
  BY <1>2, <1>3
<1> HIDE DEF W, g
<1>5. PICK f : f \in Runs(W, <<>>, m, g)
  BY <1>1, <1>4, RunExists
<1>6. /\ f \in [0..m -> W] /\ f[0] = <<>>
      /\ \A k \in 1..m : f[k] = g[<<f[k - 1], k>>]
  BY <1>5 DEF Runs
<1>7. ASSUME NEW k \in 1..m PROVE f[k] = Listed(f[k - 1], Arg(args, k + 1))
  <2>1. k - 1 \in 0..m
    OBVIOUS
  <2>2. f[k - 1] \in W
    BY <1>6, <2>1
  <2> QED
    BY <1>3, <1>6, <2>2
<1>8. f = Lists(f)
  <2>1. ASSUME NEW k \in 0..m, k # 0 PROVE f[k] = Listed(f[k - 1], Arg(args, k + 1))
    BY <2>1, <1>7
  <2> QED
    BY <1>6, <2>1
<1>9. ListOf(args) = Lists(ListOf(args))
  BY <1>8 DEF ListOf
<1> HIDE DEF Lists
<1>10. PICK h : h = ListOf(args)
  OBVIOUS
<1>11. h[0] = <<>>
  BY <1>9, <1>10 DEF Lists
<1>12. ASSUME NEW k \in 1..m PROVE h[k] = Listed(h[k - 1], Arg(args, k + 1))
  <2>1. k \in 0..m /\ k # 0
    OBVIOUS
  <2> QED
    BY <1>9, <1>10, <2>1 DEF Lists
<1> QED
  BY <1>10, <1>11, <1>12

\* Fields after the first two, none of them empty, are listed as they are.
NamesIn(args, names) ==
    /\ Len(args) = Len(names) + 2
    /\ \A i \in 1..Len(names) : args[i + 2] = names[i] /\ names[i] # <<>>

LEMMA ListingShows ==
    ASSUME NEW S, NEW args \in Seq(Seq(S)), NEW names \in Seq(Seq(S)),
           NamesIn(args, names), Len(names) + 2 <= ClientWords
    PROVE  Listing(args) = names
<1>1. PICK n : n = Len(names) /\ n \in Nat
  BY LenProperties
<1>2. /\ Len(args) = n + 2 /\ n + 2 <= ClientWords
       /\ \A i \in 1..n : args[i + 2] = names[i] /\ names[i] # <<>>
  BY <1>1 DEF NamesIn
<1>3. PICK m \in Nat : m = LastListed - 1
  BY Constants DEF LastListed
<1>4. n <= m
  BY <1>1, <1>2, <1>3, Constants DEF LastListed
<1>5. PICK f : f = [k \in 0..m |-> IF k <= n THEN SubSeq(names, 1, k) ELSE names]
  OBVIOUS
<1>6. PICK h : h = ListOf(args)
  OBVIOUS
<1>7. /\ h[0] = <<>>
      /\ \A k \in 1..m : h[k] = Listed(h[k - 1], Arg(args, k + 1))
  BY <1>3, <1>6, ListFunction
<1>8. SubSeq(names, 1, 0) = <<>> /\ SubSeq(names, 1, n) = names
  BY <1>1, <1>2, SubSeqEmpty, SubSeqFull
<1>9. f[0] = <<>>
  BY <1>1, <1>5, <1>8
<1>10. ASSUME NEW k \in 1..m PROVE f[k] = Listed(f[k - 1], Arg(args, k + 1))
  <2>1. k \in 0..m /\ k - 1 \in 0..m /\ (k + 1) + 1 = k + 2
    OBVIOUS
  <2>2. CASE k <= n
    <3>1. k \in 1..n /\ k + 1 < n + 2 /\ k - 1 <= n
      BY <1>1, <2>2
    <3>2. Arg(args, k + 1) = names[k] /\ names[k] # <<>>
      BY <1>1, <1>2, <2>1, <3>1 DEF Arg
    <3>3. SubSeq(names, 1, k) = Append(SubSeq(names, 1, k - 1), names[k])
      <4>1. 1 \in 1..Len(names) /\ k \in 1..Len(names)
        BY <1>1, <3>1
      <4>2. SubSeq(names, 1, k) = SubSeq(names, 1, k - 1) \o <<names[k]>>
        BY <4>1, SubSeqRecursiveSecond
      <4>3. \A i \in 1..(k - 1) : names[i] \in Seq(S)
        BY <1>1, <3>1, ElementOfSeq
      <4>4. SubSeq(names, 1, k - 1) \in Seq(Seq(S))
        BY <4>3, SubSeqProperties
      <4>5. names[k] \in Seq(S)
        BY <4>1, ElementOfSeq
      <4> QED
        BY <4>2, <4>4, <4>5, AppendIsConcat
    <3> QED
      BY <1>5, <2>1, <2>2, <3>1, <3>2, <3>3 DEF Listed
  <2>3. CASE k > n
    <3>1. ~(k + 1 < n + 2)
      BY <1>1, <2>3
    <3>2. Arg(args, k + 1) = <<>>
      BY <1>1, <1>2, <3>1 DEF Arg
    <3>3. f[k] = names
      BY <1>1, <1>5, <2>1, <2>3
    <3>4. f[k - 1] = names
      <4>1. CASE k - 1 = n
        BY <1>5, <1>8, <2>1, <4>1
      <4>2. CASE k - 1 > n
        BY <1>1, <1>5, <2>1, <4>2
      <4>3. k - 1 = n \/ k - 1 > n
        BY <1>1, <2>1, <2>3
      <4> QED
        BY <4>1, <4>2, <4>3
    <3> QED
      BY <3>2, <3>3, <3>4 DEF Listed
  <2> QED
    BY <1>1, <2>2, <2>3
<1>11. f[m] = names
  <2>1. CASE m = n
    BY <1>5, <1>8, <2>1
  <2>2. CASE m > n
    BY <1>1, <1>5, <2>2
  <2> QED
    BY <1>1, <1>4, <2>1, <2>2
<1>12. f[0] = h[0]
  BY <1>7, <1>9
<1>13. \A k \in 0..m : f[k] = h[k]
  <2> DEFINE T == {k \in 0..m : f[k] = h[k]}
  <2>1. 0 \in T
    BY <1>12
  <2>2. ASSUME NEW k \in T, k < m PROVE k + 1 \in T
    <3>1. k + 1 \in 1..m /\ k + 1 \in 0..m /\ (k + 1) - 1 = k /\ f[k] = h[k]
      BY <2>2
    <3> QED
      BY <1>7, <1>10, <3>1
  <2> HIDE DEF T
  <2>3. T \subseteq 0..m
    BY DEF T
  <2>4. T = 0..m
    BY <2>1, <2>2, <2>3, InductionUpTo
  <2> QED
    BY <2>4 DEF T
<1>14. m \in 0..m
  OBVIOUS
<1> QED
  BY <1>3, <1>6, <1>11, <1>13, <1>14, ListIsListOf

\* Everybody who is online is in the list the C++ program shows after a join,
\* and nobody else, whoever is online, as long as the array holds them all.
THEOREM ListsAsSent == Spec => []ListAsSent
<1>1. ASSUME IInv PROVE ListAsSent
  <2> SUFFICES ASSUME NEW n \in 1..Len(Online), stage = "shown", wire = JoinPacket(n),
                      n + 2 <= ClientWords
               PROVE  shown.cpp = <<"join", Peer>> \o Aliases(n)
    BY DEF ListAsSent
  <2>1. PICK S : S = Letters
    OBVIOUS
  <2>2. PICK fs : fs = <<<<"1">>, Peer>> \o Aliases(n)
    OBVIOUS
  <2>3. n \in Nat
    OBVIOUS
  <2>4. /\ fs \in Seq(Seq(S)) /\ Len(fs) = n + 2 /\ fs[1] = <<"1">> /\ fs[2] = Peer
        /\ \A i \in 1..n : fs[i + 2] = Online[i]
    <3>1. Seq(Typable \cup {"1"}) \subseteq Seq(S)
      BY <2>1, SeqMonotonic DEF Letters
    <3> QED
      BY <2>2, <3>1, JoinFields, SeqMonotonic, ZenonT(60)
  <2>5. /\ Aliases(n) \in Seq(Seq(S)) /\ n = Len(Aliases(n))
        /\ \A i \in 1..n : Aliases(n)[i] = Online[i]
    <3>1. Seq(Typable) \subseteq Seq(S)
      BY <2>1, LettersProperties
    <3> QED
      BY <3>1, AliasesTyped, SeqMonotonic
  <2>6. \A i \in 1..n : Online[i] # <<>>
    <3>1. Online \in Seq(Seq(Typable) \ {<<>>})
      BY LinesAssumption
    <3>2. \A i \in 1..n : i \in 1..Len(Online)
      BY <3>1, LenProperties
    <3>3. \A i \in 1..Len(Online) : Online[i] \in Seq(Typable) \ {<<>>}
      BY <3>1, ElementOfSeq
    <3> QED
      BY <3>2, <3>3
  <2>7. Lex(wire, Sep) = fs
    <3>1. wire = Packed(fs)
      BY <2>2 DEF JoinPacket
    <3>2. fs # <<>> /\ Sep \notin S /\ Nul \notin S
      BY <2>1, <2>3, <2>4, LettersProperties
    <3> QED
      BY <2>4, <3>1, <3>2, SentFields
  <2>8. Listing(fs) = Aliases(n)
    <3>1. PICK names : names = Aliases(n) /\ names \in Seq(Seq(S))
      BY <2>5
    <3>2. NamesIn(fs, names) /\ Len(names) + 2 <= ClientWords
      BY <2>3, <2>4, <2>5, <2>6, <3>1 DEF NamesIn
    <3>3. Listing(fs) = names
      BY <2>4, <3>1, <3>2, ListingShows
    <3> QED
      BY <3>1, <3>3
  <2>9. Arg(fs, 0) = <<"1">> /\ Arg(fs, 1) = Peer
    <3>1. 0 < n + 2 /\ 1 < n + 2 /\ 0 + 1 = 1 /\ 1 + 1 = 2
      BY <2>3
    <3> QED
      BY <2>4, <3>1 DEF Arg
  <2>10. CppShows(wire) = <<"join", Arg(fs, 1)>> \o Listing(fs)
    <3>1. ~(Len(fs) > ClientWords)
      BY <2>3, <2>4, Constants
    <3>2. <<"0">> # <<"1">> /\ <<"1">> # <<"6">>
      OBVIOUS
    <3> QED
      BY <2>7, <2>9, <3>1, <3>2 DEF CppShows
  <2>11. shown = [cpp |-> CppShows(wire), rust |-> RustShows(wire)]
    BY <1>1 DEF IInv, History
  <2> QED
    BY <2>8, <2>9, <2>10, <2>11
<1> QED
  BY <1>1, IInvAlways, PTL

-----------------------------------------------------------------------------
(* Direct messages: the words joined again, each followed by a space, are  *)
(* the text they were read from, but for spaces at the end.                *)

LEMMA SpacedAppend ==
    ASSUME NEW S, Space \in S, NEW words \in Seq(Seq(S)), NEW j \in Nat, NEW m \in Nat
    PROVE  /\ FlattenSeq(Spaced(words, j, 0)) = <<>>
           /\ FlattenSeq(Spaced(words, j, m + 1)) =
                  FlattenSeq(Spaced(words, j, m)) \o Append(Arg(words, m + j), Space)
<1>1. Spaced(words, j, 0) = <<>>
  BY DEF Spaced
<1>2. PICK e : e = Append(Arg(words, m + j), Space)
  OBVIOUS
<1>3. e \in Seq(S)
  <2>1. m + j \in Nat
    OBVIOUS
  <2>2. Arg(words, m + j) \in Seq(S)
    BY <2>1, ArgTyped
  <2> QED
    BY <1>2, <2>2, AppendProperties
<1>4. PICK a, b : a = Spaced(words, j, m) /\ b = Spaced(words, j, m + 1)
  OBVIOUS
<1>5. /\ a \in Seq(Seq(S)) /\ Len(a) = m
      /\ b \in Seq(Seq(S)) /\ Len(b) = m + 1
  <2>1. PICK l \in Nat : l = m + 1
    OBVIOUS
  <2>2. Spaced(words, j, l) \in Seq(Seq(S)) /\ Len(Spaced(words, j, l)) = l
    BY SpacedTyped, ZenonT(60)
  <2>3. Spaced(words, j, m) \in Seq(Seq(S)) /\ Len(Spaced(words, j, m)) = m
    BY SpacedTyped, ZenonT(60)
  <2> QED
    BY <1>4, <2>1, <2>2, <2>3
<1>6. b = Append(a, e)
  <2>1. /\ Append(a, e) \in Seq(Seq(S)) /\ Len(Append(a, e)) = m + 1
        /\ \A k \in 1..m : Append(a, e)[k] = a[k]
        /\ Append(a, e)[m + 1] = e
    BY <1>3, <1>5, AppendProperties
  <2>2. \A k \in 1..m : b[k] = a[k]
    BY <1>4 DEF Spaced
  <2>3. b[m + 1] = e
    <3>1. m + 1 \in 1..(m + 1) /\ (m + 1) - 1 = m
      OBVIOUS
    <3> QED
      BY <1>2, <1>4, <3>1 DEF Spaced
  <2>4. \A k \in 1..(m + 1) : b[k] = Append(a, e)[k]
    <3>1. \A k \in 1..(m + 1) : k \in 1..m \/ k = m + 1
      OBVIOUS
    <3> QED
      BY <2>1, <2>2, <2>3, <3>1
  <2> QED
    BY <1>5, <2>1, <2>4, SeqEqual
<1>7. FlattenSeq(Append(a, e)) = FlattenSeq(a) \o e
  BY <1>3, <1>5, FlattenAppend
<1> QED
  BY <1>1, <1>2, <1>4, <1>6, <1>7, FlattenEmpty

\* The first two words, then the others.
LEMMA SpacedSplit ==
    ASSUME NEW S, Space \in S, NEW words \in Seq(Seq(S)), NEW m \in Nat
    PROVE  FlattenSeq(Spaced(words, 0, m + 2)) =
               FlattenSeq(Spaced(words, 0, 2)) \o FlattenSeq(Spaced(words, 2, m))
<1> DEFINE All(k) == FlattenSeq(Spaced(words, 0, k))
           Rest(k) == FlattenSeq(Spaced(words, 2, k))
           T == {k \in Nat : All(k + 2) = All(2) \o Rest(k)}
<1>1. \A k \in Nat : All(k) \in Seq(S) /\ Rest(k) \in Seq(S)
  <2>1. 0 \in Nat /\ 2 \in Nat
    OBVIOUS
  <2> QED
    BY <2>1, SpacedTyped
<1>2. 0 \in T
  <2>1. Rest(0) = <<>>
    <3>1. 2 \in Nat /\ 0 \in Nat
      OBVIOUS
    <3> QED
      BY <3>1, SpacedAppend
  <2>2. All(2) \in Seq(S) /\ 0 + 2 = 2
    BY <1>1
  <2>3. All(2) \o <<>> = All(2)
    BY <2>2, ConcatEmptySeq
  <2> QED
    BY <2>1, <2>2, <2>3
<1>3. ASSUME NEW k \in T PROVE k + 1 \in T
  <2>1. k \in Nat /\ k + 1 \in Nat /\ All(k + 2) = All(2) \o Rest(k)
    OBVIOUS
  <2>2. PICK l \in Nat : l = k + 2
    BY <2>1
  <2>3. PICK e \in Seq(S) : e = Append(Arg(words, l), Space)
    <3>1. Arg(words, l) \in Seq(S)
      BY ArgTyped
    <3> QED
      BY <3>1, AppendProperties
  <2>4. All(l + 1) = All(l) \o e
    <3>1. l + 0 = l /\ 0 \in Nat
      OBVIOUS
    <3> QED
      BY <2>3, <3>1, SpacedAppend, ZenonT(60)
  <2>5. Rest(k + 1) = Rest(k) \o e
    <3>1. 2 \in Nat
      OBVIOUS
    <3> QED
      BY <2>1, <2>2, <2>3, <3>1, SpacedAppend
  <2>6. (All(2) \o Rest(k)) \o e = All(2) \o (Rest(k) \o e)
    <3>1. All(2) \in Seq(S) /\ Rest(k) \in Seq(S)
      BY <1>1, <2>1
    <3> HIDE DEF All, Rest
    <3> QED
      BY <3>1, ConcatAssociative, SMTT(60)
  <2>7. l + 1 = (k + 1) + 2
    BY <2>1, <2>2
  <2> HIDE DEF All, Rest
  <2>8. All((k + 1) + 2) = All(2) \o Rest(k + 1)
    BY <2>1, <2>2, <2>4, <2>5, <2>6, <2>7
  <2> QED
    BY <2>1, <2>8
<1>4. T \in SUBSET Nat
  OBVIOUS
<1> HIDE DEF T
<1>5. T = Nat
  BY <1>2, <1>3, <1>4, Induction
<1>6. m \in T
  BY <1>5
<1> QED
  BY <1>6 DEF T

\* Only the words that are joined matter.
LEMMA SpacedSame ==
    ASSUME NEW words, NEW others, NEW m \in Nat,
           \A k \in 0..(m - 1) : Arg(words, k) = Arg(others, k)
    PROVE  Spaced(words, 0, m) = Spaced(others, 0, m)
<1>1. \A k \in 1..m : (k - 1) + 0 \in 0..(m - 1)
  OBVIOUS
<1> QED
  BY <1>1 DEF Spaced

\* The words of a text, each followed by a space, are the text and a space.
LEMMA LexSpaced ==
    ASSUME NEW S, Space \in S, NEW s \in Seq(S)
    PROVE  FlattenSeq(Spaced(Lex(s, Space), 0, Len(Lex(s, Space)))) = Append(s, Space)
<1> DEFINE Joined(w, k) == FlattenSeq(Spaced(w, 0, k))
           T == {u \in Seq(S) : Joined(Lex(u, Space), Len(Lex(u, Space))) = Append(u, Space)}
<1>1. ASSUME NEW w \in Words(S)
      PROVE  /\ Joined(w, 0) = <<>>
             /\ \A k \in Nat : /\ Joined(w, k) \in Seq(S)
                               /\ Joined(w, k + 1) = Joined(w, k) \o Append(Arg(w, k), Space)
  <2>1. w \in Seq(Seq(S)) /\ 0 \in Nat
    BY DEF Words
  <2>2. ASSUME NEW k \in Nat
        PROVE  /\ Joined(w, k) \in Seq(S)
               /\ Joined(w, k + 1) = Joined(w, k) \o Append(Arg(w, k), Space)
    <3>1. k + 0 = k
      OBVIOUS
    <3> QED
      BY <2>1, <3>1, SpacedTyped, SpacedAppend
  <2> QED
    BY <2>1, <2>2, SpacedAppend
<1>2. ASSUME NEW w, NEW v, NEW m \in Nat, \A k \in 0..(m - 1) : Arg(w, k) = Arg(v, k)
      PROVE  Joined(w, m) = Joined(v, m)
  BY <1>2, SpacedSame
<1> HIDE DEF Joined
<1>3. <<>> \in T
  <2>1. Lex(<<>>, Space) = <<<<>>>> /\ <<<<>>>> \in Words(S)
    BY LexEmpty, EmptySeq DEF Words
  <2>2. Len(<<<<>>>>) = 1 /\ Arg(<<<<>>>>, 0) = <<>>
    BY DEF Arg
  <2>3. 0 + 1 = 1 /\ 0 \in Nat
    OBVIOUS
  <2>4. Joined(<<<<>>>>, 1) = <<>> \o Append(<<>>, Space)
    BY <1>1, <2>1, <2>2, <2>3
  <2>5. Append(<<>>, Space) \in Seq(S) /\ <<>> \in Seq(S)
    BY EmptySeq, AppendProperties
  <2>6. <<>> \o Append(<<>>, Space) = Append(<<>>, Space)
    BY <2>5, ConcatEmptySeq
  <2> QED
    BY <2>1, <2>2, <2>4, <2>5, <2>6
<1>4. ASSUME NEW u \in T, NEW x \in S PROVE Append(u, x) \in T
  <2>1. u \in Seq(S) /\ Joined(Lex(u, Space), Len(Lex(u, Space))) = Append(u, Space)
    OBVIOUS
  <2>2. PICK w \in Words(S) : w = Lex(u, Space)
    BY <2>1, LexAppend
  <2>3. PICK v : v = Read(w, x, Space)
    OBVIOUS
  <2>4. v = Lex(Append(u, x), Space) /\ v \in Words(S)
    BY <2>1, <2>2, <2>3, LexAppend, ReadProperties
  <2>5. PICK m \in Nat : Len(w) = m + 1
    <3>1. Len(w) \in Nat \ {0}
      BY ReadProperties
    <3>2. Len(w) - 1 \in Nat /\ Len(w) = (Len(w) - 1) + 1
      BY <3>1
    <3> QED
      BY <3>2
  <2>6. Joined(w, m + 1) = Append(u, Space)
    BY <2>1, <2>2, <2>5
  <2>7. Append(u, x) \in Seq(S) /\ Append(u, Space) \in Seq(S)
    BY <2>1, AppendProperties
  <2>8. CASE x = Space
    <3>1. /\ Len(v) = m + 2 /\ v[m + 2] = <<>>
          /\ \A i \in 1..(m + 1) : v[i] = w[i]
      <4>1. /\ Len(v) = Len(w) + 1 /\ v[Len(w) + 1] = <<>>
            /\ \A i \in 1..Len(w) : v[i] = w[i]
        BY <2>3, <2>8, ReadProperties
      <4>2. Len(w) + 1 = m + 2
        BY <2>5
      <4> QED
        BY <2>5, <4>1, <4>2
    <3>2. \A k \in 0..m : Arg(w, k) = Arg(v, k)
      <4> SUFFICES ASSUME NEW k \in 0..m PROVE Arg(w, k) = Arg(v, k)
        OBVIOUS
      <4>1. k < m + 1 /\ k < m + 2 /\ k + 1 \in 1..(m + 1)
        OBVIOUS
      <4> QED
        BY <2>5, <3>1, <4>1 DEF Arg
    <3>3. Arg(v, m + 1) = <<>>
      <4>1. m + 1 < m + 2 /\ (m + 1) + 1 = m + 2
        OBVIOUS
      <4> QED
        BY <3>1, <4>1 DEF Arg
    <3>4. PICK l \in Nat : l = m + 1
      OBVIOUS
    <3>5. l - 1 = m /\ l + 1 = m + 2
      BY <3>4
    <3>6. Joined(v, l) = Joined(w, l)
      BY <1>2, <3>2, <3>5
    <3>7. Joined(v, l + 1) = Joined(v, l) \o Append(<<>>, Space)
      BY <1>1, <2>4, <3>3, <3>4
    <3>8. Joined(v, l) = Append(u, Space)
      BY <2>6, <3>4, <3>6
    <3>9. Append(u, Space) \o Append(<<>>, Space) = Append(Append(u, Space) \o <<>>, Space)
      <4>1. <<>> \in Seq(S)
        BY EmptySeq
      <4> QED
        BY <2>7, <4>1, ConcatAppend
    <3>10. Append(u, Space) \o <<>> = Append(u, Space)
      BY <2>7, ConcatEmptySeq
    <3> QED
      BY <2>4, <2>7, <2>8, <3>1, <3>5, <3>7, <3>8, <3>9, <3>10
  <2>9. CASE x # Space
    <3>1. PICK t \in Seq(S) : t = w[m + 1]
      BY <2>5, ReadProperties
    <3>2. /\ Len(v) = m + 1 /\ v[m + 1] = Append(t, x)
          /\ \A i \in 1..m : v[i] = w[i]
      <4>1. /\ Len(v) = Len(w) /\ v[Len(w)] = Append(w[Len(w)], x)
            /\ \A i \in 1..(Len(w) - 1) : v[i] = w[i]
        BY <2>3, <2>9, ReadProperties
      <4>2. Len(w) - 1 = m
        BY <2>5
      <4> QED
        BY <2>5, <3>1, <4>1, <4>2
    <3>3. \A k \in 0..(m - 1) : Arg(w, k) = Arg(v, k)
      <4> SUFFICES ASSUME NEW k \in 0..(m - 1) PROVE Arg(w, k) = Arg(v, k)
        OBVIOUS
      <4>1. k < m + 1 /\ k + 1 \in 1..m
        OBVIOUS
      <4> QED
        BY <2>5, <3>2, <4>1 DEF Arg
    <3>4. Arg(v, m) = Append(t, x) /\ Arg(w, m) = t
      <4>1. m < m + 1
        OBVIOUS
      <4> QED
        BY <2>5, <3>1, <3>2, <4>1 DEF Arg
    <3>5. PICK p \in Seq(S) : p = Joined(w, m)
      BY <1>1
    <3>6. Joined(v, m) = p
      BY <1>2, <3>3, <3>5
    <3>7. Joined(v, m + 1) = p \o Append(Append(t, x), Space)
      BY <1>1, <2>4, <3>4, <3>6
    <3>8. Append(u, Space) = p \o Append(t, Space)
      BY <1>1, <2>6, <3>4, <3>5
    <3>9. p \o Append(t, Space) = Append(p \o t, Space) /\ p \o t \in Seq(S)
      BY ConcatAppend
    <3>10. p \o t = u
      <4>1. PICK q \in Seq(S) : q = p \o t
        BY <3>9
      <4>2. Append(q, Space) = Append(u, Space)
        BY <3>8, <3>9, <4>1
      <4>3. PICK r \in Seq(S), y \in S : r = u /\ y = Space
        BY <2>1
      <4>4. Append(q, y) = Append(r, y)
        BY <4>2, <4>3
      <4>5. q = r
        BY <4>4, AppendInjective
      <4> QED
        BY <4>1, <4>3, <4>5
    <3>11. p \o Append(t, x) = Append(p \o t, x)
      BY ConcatAppend
    <3>12. Append(t, x) \in Seq(S)
      BY AppendProperties
    <3>13. p \o Append(Append(t, x), Space) = Append(p \o Append(t, x), Space)
      BY <3>12, ConcatAppend, SMTT(60)
    <3> QED
      BY <2>4, <2>7, <3>2, <3>7, <3>10, <3>11, <3>13
  <2> QED
    BY <2>8, <2>9
<1>5. T \in SUBSET Seq(S)
  OBVIOUS
<1> HIDE DEF T
<1>6. T = Seq(S)
  BY <1>3, <1>4, <1>5, SeqInduction
<1>7. s \in T
  BY <1>6
<1> QED
  BY <1>7 DEF T, Joined

\* A text with spaces after its end, and texts that differ in those only.
At(s, i) == IF i \in 1..Len(s) THEN s[i] ELSE Space
Same(s, t) == \A i \in Nat \ {0} : At(s, i) = At(t, i)

LEMMA AtAppend ==
    ASSUME NEW S, Space \in S, NEW s \in Seq(S)
    PROVE  Same(Append(s, Space), s)
<1>1. PICK n : n = Len(s) /\ n \in Nat
  BY LenProperties
<1>2. PICK t : t = Append(s, Space)
  OBVIOUS
<1>3. /\ Len(t) = n + 1 /\ t[n + 1] = Space
      /\ \A i \in 1..n : t[i] = s[i]
  BY <1>1, <1>2, AppendProperties
<1>4. ASSUME NEW i \in Nat \ {0} PROVE At(t, i) = At(s, i)
  <2>1. CASE i <= n
    <3>1. i \in 1..n /\ i \in 1..(n + 1)
      BY <1>1, <2>1
    <3> QED
      BY <1>1, <1>3, <3>1 DEF At
  <2>2. CASE i = n + 1
    <3>1. i \notin 1..n /\ i \in 1..(n + 1)
      BY <1>1, <2>2
    <3> QED
      BY <1>1, <1>3, <2>2, <3>1 DEF At
  <2>3. CASE i > n + 1
    <3>1. i \notin 1..n /\ i \notin 1..(n + 1)
      BY <1>1, <2>3
    <3> QED
      BY <1>1, <1>3, <3>1 DEF At
  <2> QED
    BY <1>1, <2>1, <2>2, <2>3
<1> QED
  BY <1>2, <1>4 DEF Same

LEMMA AtConcat ==
    ASSUME NEW S, NEW s \in Seq(S), NEW t \in Seq(S)
    PROVE  /\ \A i \in 1..Len(s) : At(s \o t, i) = At(s, i)
           /\ \A i \in Nat \ {0} : At(s \o t, Len(s) + i) = At(t, i)
<1>1. PICK m : m = Len(t) /\ m \in Nat
  BY LenProperties
<1>2. PICK u : u = s \o t
  OBVIOUS
<1>3. PICK n : n = Len(s) /\ n \in Nat
  BY LenProperties
<1>4. /\ Len(u) = n + m
      /\ \A i \in 1..(n + m) : u[i] = IF i <= n THEN s[i] ELSE t[i - n]
  BY <1>1, <1>2, <1>3, ConcatProperties
<1>5. ASSUME NEW i \in 1..n PROVE At(u, i) = At(s, i)
  <2>1. i \in 1..(n + m) /\ i <= n
    BY <1>1, <1>3
  <2> QED
    BY <1>3, <1>4, <2>1 DEF At
<1>6. ASSUME NEW i \in Nat \ {0} PROVE At(u, n + i) = At(t, i)
  <2>1. CASE i <= m
    <3>1. i \in 1..m /\ n + i \in 1..(n + m) /\ ~(n + i <= n) /\ (n + i) - n = i
      BY <1>1, <1>3, <2>1
    <3> QED
      BY <1>1, <1>4, <3>1 DEF At
  <2>2. CASE i > m
    <3>1. i \notin 1..m /\ n + i \notin 1..(n + m)
      BY <1>1, <1>3, <2>2
    <3> QED
      BY <1>1, <1>4, <3>1 DEF At
  <2> QED
    BY <1>1, <2>1, <2>2
<1> QED
  BY <1>2, <1>3, <1>5, <1>6

\* Texts that start alike and go on the same are the same.
LEMMA SameConcat ==
    ASSUME NEW S, NEW p \in Seq(S), NEW s \in Seq(S), NEW t \in Seq(S), Same(s, t)
    PROVE  Same(p \o s, p \o t)
<1>1. PICK n : n = Len(p) /\ n \in Nat
  BY LenProperties
<1>2. PICK a, b : a = p \o s /\ b = p \o t
  OBVIOUS
<1>3. /\ \A i \in 1..n : At(a, i) = At(p, i)
      /\ \A i \in Nat \ {0} : At(a, n + i) = At(s, i)
  <2>1. /\ \A i \in 1..Len(p) : At(p \o s, i) = At(p, i)
        /\ \A i \in Nat \ {0} : At(p \o s, Len(p) + i) = At(s, i)
    BY AtConcat, ZenonT(60)
  <2> QED
    BY <1>1, <1>2, <2>1
<1>4. /\ \A i \in 1..n : At(b, i) = At(p, i)
      /\ \A i \in Nat \ {0} : At(b, n + i) = At(t, i)
  <2>1. /\ \A i \in 1..Len(p) : At(p \o t, i) = At(p, i)
        /\ \A i \in Nat \ {0} : At(p \o t, Len(p) + i) = At(t, i)
    BY AtConcat, ZenonT(60)
  <2> QED
    BY <1>1, <1>2, <2>1
<1>5. ASSUME NEW i \in Nat \ {0} PROVE At(a, i) = At(b, i)
  <2>1. CASE i <= n
    <3>1. i \in 1..n
      BY <1>1, <2>1
    <3> QED
      BY <1>3, <1>4, <3>1
  <2>2. CASE i > n
    <3>1. PICK k \in Nat \ {0} : i = n + k
      <4>1. i - n \in Nat \ {0} /\ i = n + (i - n)
        BY <1>1, <2>2
      <4> QED
        BY <4>1
    <3>2. At(s, k) = At(t, k)
      BY DEF Same
    <3> QED
      BY <1>3, <1>4, <3>1, <3>2
  <2> QED
    BY <1>1, <2>1, <2>2
<1> QED
  BY <1>2, <1>5 DEF Same

\* The words of a text joined, and any number of empty elements after them.
LEMMA LexPadded ==
    ASSUME NEW S, Space \in S, NEW s \in Seq(S), NEW m \in Nat, Len(Lex(s, Space)) <= m
    PROVE  Same(FlattenSeq(Spaced(Lex(s, Space), 0, m)), s)
<1>1. PICK w : w = Lex(s, Space) /\ w \in Seq(Seq(S))
  BY LexWords
<1>2. PICK n \in Nat : n = Len(w)
  BY <1>1, LenProperties
<1> DEFINE Joined(k) == FlattenSeq(Spaced(w, 0, k))
           T == {k \in Nat : Same(Joined(n + k), s)}
<1>3. \A k \in Nat : /\ Joined(k) \in Seq(S)
                     /\ Joined(k + 1) = Joined(k) \o Append(Arg(w, k), Space)
  <2> SUFFICES ASSUME NEW k \in Nat
               PROVE  /\ Joined(k) \in Seq(S)
                      /\ Joined(k + 1) = Joined(k) \o Append(Arg(w, k), Space)
    OBVIOUS
  <2>1. 0 \in Nat /\ k + 0 = k
    OBVIOUS
  <2>2. Joined(k) \in Seq(S)
    BY <1>1, <2>1, SpacedTyped
  <2>3. Joined(k + 1) = Joined(k) \o Append(Arg(w, k + 0), Space)
    BY <1>1, <2>1, SpacedAppend
  <2> QED
    BY <2>1, <2>2, <2>3
<1>4. Joined(n) = Append(s, Space)
  BY <1>1, <1>2, LexSpaced
<1> HIDE DEF Joined
<1>5. 0 \in T
  <2>1. n + 0 = n
    OBVIOUS
  <2> QED
    BY <1>4, <2>1, AtAppend
<1>6. ASSUME NEW k \in T PROVE k + 1 \in T
  <2>1. PICK l \in Nat : l = n + k
    OBVIOUS
  <2>2. l + 1 = n + (k + 1) /\ ~(l < n)
    BY <2>1
  <2>3. Arg(w, l) = <<>>
    BY <1>2, <2>2 DEF Arg
  <2>4. Joined(l + 1) = Joined(l) \o Append(<<>>, Space) /\ Joined(l) \in Seq(S)
    BY <1>3, <2>3
  <2>5. PICK u : u = Joined(l) /\ u \in Seq(S)
    BY <2>4
  <2>6. Joined(l + 1) = Append(u, Space)
    <3>1. <<>> \in Seq(S)
      BY EmptySeq
    <3>2. u \o Append(<<>>, Space) = Append(u \o <<>>, Space)
      BY <2>5, <3>1, ConcatAppend
    <3>3. u \o <<>> = u
      BY <2>5, ConcatEmptySeq
    <3> QED
      BY <2>4, <2>5, <3>2, <3>3
  <2>7. Same(Append(u, Space), u)
    BY <2>5, AtAppend
  <2>8. Same(u, s)
    BY <2>1, <2>5
  <2>9. Same(Append(u, Space), s)
    BY <2>7, <2>8 DEF Same
  <2>10. Same(Joined(n + (k + 1)), s)
    BY <2>2, <2>6, <2>9
  <2> QED
    BY <2>10
<1>7. T \in SUBSET Nat
  OBVIOUS
<1> HIDE DEF T
<1>8. T = Nat
  BY <1>5, <1>6, <1>7, Induction
<1>9. m - n \in T /\ n + (m - n) = m
  <2>1. n <= m
    BY <1>1, <1>2
  <2> QED
    BY <1>8, <2>1
<1> QED
  BY <1>1, <1>9 DEF T, Joined

\* Trimmed takes off the spaces at the end, whatever their number.
LEMMA TrimmedSame ==
    ASSUME NEW S, NEW s \in Seq(S), NEW t \in Seq(S), Same(s, t)
    PROVE  Trimmed(s) = Trimmed(t)
<1> DEFINE I(u) == {0} \cup {i \in 1..Len(u) : u[i] # Space}
<1>1. ASSUME NEW u \in Seq(S)
      PROVE  I(u) = {0} \cup {i \in Nat \ {0} : At(u, i) # Space}
  <2>1. PICK n : n = Len(u) /\ n \in Nat
    BY LenProperties
  <2>2. ASSUME NEW i \in Nat \ {0}
        PROVE  At(u, i) # Space <=> i \in 1..n /\ u[i] # Space
    BY <2>1 DEF At
  <2> QED
    BY <2>1, <2>2
<1>2. I(s) = I(t)
  BY <1>1 DEF Same
<1>3. PICK m : m = Max(I(s)) /\ m = Max(I(t))
  BY <1>2
<1>4. m \in I(s)
  <2>1. PICK n : n = Len(s) /\ n \in Nat
    BY LenProperties
  <2> DEFINE B == {b \in Nat : \A i \in I(s) : i <= b}
  <2>2. n \in B /\ B \in SUBSET Nat
    BY <2>1
  <2>3. PICK b \in B : \A c \in B : b <= c
    <3> HIDE DEF B
    <3>1. B # {}
      BY <2>2
    <3> QED
      BY <2>2, <3>1, Least
  <2>4. b \in I(s)
    <3> SUFFICES ASSUME b \notin I(s) PROVE FALSE
      OBVIOUS
    <3>1. b \in Nat /\ b # 0
      OBVIOUS
    <3>2. \A i \in I(s) : i \in Nat /\ i <= b /\ i # b
      BY <2>1
    <3>3. \A i \in I(s) : i <= b - 1
      BY <3>1, <3>2
    <3>4. b - 1 \in B
      BY <3>1, <3>3
    <3>5. b <= b - 1
      BY <2>3, <3>4
    <3> QED
      BY <3>1, <3>5
  <2>5. \A i \in I(s) : b >= i
    OBVIOUS
  <2> HIDE DEF I
  <2> QED
    BY <1>3, <2>4, <2>5 DEF Max
<1>5. m \in I(t)
  BY <1>2, <1>4
<1>6. m \in Nat /\ m <= Len(s) /\ m <= Len(t)
  BY <1>4, <1>5, LenProperties
<1>7. ASSUME NEW i \in 1..m PROVE s[i] \in S /\ s[i] = t[i]
  <2>1. i \in 1..Len(s) /\ i \in 1..Len(t) /\ i \in Nat \ {0}
    BY <1>6, LenProperties
  <2>2. At(s, i) = At(t, i)
    BY <2>1 DEF Same
  <2> QED
    BY <2>1, <2>2, ElementOfSeq DEF At
<1>8. PICK a, b : a = SubSeq(s, 1, m) /\ b = SubSeq(t, 1, m)
  OBVIOUS
<1>9. m - 1 + 1 = m /\ (1 <= m => TRUE) /\ \A i \in 1..m : 1 + i - 1 = i
  BY <1>6
<1>10. /\ a \in Seq(S) /\ Len(a) = m
       /\ \A i \in 1..m : a[i] = s[i]
  BY <1>6, <1>7, <1>8, <1>9, SubSeqProperties
<1>11. /\ b \in Seq(S) /\ Len(b) = m
       /\ \A i \in 1..m : b[i] = t[i]
  BY <1>6, <1>7, <1>8, <1>9, SubSeqProperties
<1>12. a = b
  BY <1>7, <1>10, <1>11, SeqEqual
<1> QED
  BY <1>3, <1>8, <1>12 DEF Trimmed

\* What a program reads of a text with a NUL in it.
LEMMA CStringAt ==
    ASSUME NEW S, NEW str \in Seq(S), NEW p \in 1..Len(str), str[p] = Nul,
           \A i \in 1..(p - 1) : str[i] # Nul
    PROVE  /\ CString(str) \in Seq(S) /\ Len(CString(str)) = p - 1
           /\ \A i \in 1..(p - 1) : CString(str)[i] = str[i]
<1>1. PICK c, k : c = CString(str) /\ k = Len(c)
  OBVIOUS
<1>2. PICK n : n = Len(str) /\ n \in Nat
  BY LenProperties
<1>3. /\ c \in Seq(S) /\ k \in Nat /\ k <= n
      /\ \A i \in 1..k : c[i] = str[i] /\ str[i] # Nul
      /\ k < n => str[k + 1] = Nul
  BY <1>1, <1>2, CStringCut
<1>4. p \in Nat \ {0} /\ p <= n
  BY <1>2
<1>5. ~(k < p - 1)
  <2> SUFFICES ASSUME k < p - 1 PROVE FALSE
    OBVIOUS
  <2>1. k < n /\ k + 1 \in 1..(p - 1)
    BY <1>2, <1>3, <1>4
  <2> QED
    BY <1>3, <2>1
<1>6. ~(k >= p)
  <2> SUFFICES ASSUME k >= p PROVE FALSE
    OBVIOUS
  <2>1. p \in 1..k
    BY <1>3, <1>4
  <2> QED
    BY <1>3, <2>1
<1>7. k = p - 1
  BY <1>3, <1>4, <1>5, <1>6
<1> QED
  BY <1>1, <1>3, <1>7

\* Both programs show the text of a direct message.
LEMMA NoticeShown ==
    ASSUME NEW s \in Seq(Typable)
    PROVE  /\ CString(Notice(s)) = Notice(s)
           /\ CppShows(Notice(s)) = <<"direct", s>>
           /\ RustShows(Notice(s)) = <<"direct", s>>
<1>1. PICK S : S = Typable \cup {"6"}
  OBVIOUS
<1>2. Sep \notin S /\ Nul \notin S /\ s \in Seq(S) /\ <<"6">> \in Seq(S)
  <2>1. "6" \in S /\ Sep \notin S /\ Nul \notin S
    BY <1>1, Alphabet
  <2>2. Seq(Typable) \subseteq Seq(S)
    BY <1>1, SeqMonotonic
  <2> QED
    BY <2>1, <2>2
<1>3. PICK fs : fs = <<<<"6">>, s>>
  OBVIOUS
<1>4. /\ fs \in Seq(Seq(S)) /\ fs # <<>>
      /\ Len(fs) = 2 /\ fs[1] = <<"6">> /\ fs[2] = s
  BY <1>2, <1>3
<1>5. PICK p : p = Packed(fs)
  OBVIOUS
<1>6. p = Notice(s)
  <2>1. PICK one : one = <<<<"6">>>> /\ one \in Seq(Seq(S)) /\ one # <<>>
    <3>1. <<<<"6">>>> \in Seq(Seq(S)) /\ <<<<"6">>>> # <<>>
      BY <1>2
    <3> QED
      BY <3>1
  <2>2. fs = Append(one, s)
    BY <1>3, <2>1
  <2>3. Packed(Append(one, s)) = Append(Packed(one), Sep) \o s
    BY <1>2, <2>1, PackedAppend
  <2>4. Packed(one) = <<"6">>
    BY <1>2, <2>1, PackedOne
  <2>5. Append(<<"6">>, Sep) = <<"6", Sep>>
    <3>1. PICK a, b : a = Append(<<"6">>, Sep) /\ b = <<"6", Sep>>
      OBVIOUS
    <3>2. <<"6">> \in Seq(Chars) /\ Sep \in Chars /\ Len(<<"6">>) = 1 /\ <<"6">>[1] = "6"
      BY Alphabet
    <3>3. b \in Seq(Chars) /\ Len(b) = 2 /\ b[1] = "6" /\ b[2] = Sep
      BY <3>1, Alphabet
    <3>4. a \in Seq(Chars) /\ Len(a) = 1 + 1 /\ a[1] = "6" /\ a[1 + 1] = Sep
      BY <3>1, <3>2, AppendProperties
    <3>5. \A i \in 1..2 : a[i] = b[i]
      <4>1. 1 + 1 = 2 /\ \A i \in 1..2 : i = 1 \/ i = 2
        OBVIOUS
      <4> QED
        BY <3>3, <3>4, <4>1
    <3>6. a = b
      BY <3>3, <3>4, <3>5, SeqEqual
    <3> QED
      BY <3>1, <3>6
  <2> QED
    BY <1>5, <2>2, <2>3, <2>4, <2>5 DEF Notice
<1>7. /\ CString(p) = p
      /\ Lex(p, Sep) = fs
      /\ \A k \in Nat : After(p, k) = Packed(SubSeq(fs, k + 1, Len(fs)))
  BY <1>2, <1>4, <1>5, SentFields
<1>8. Arg(fs, 0) = <<"6">> /\ Arg(fs, 1) = s
  <2>1. 0 < 2 /\ 1 < 2 /\ 0 + 1 = 1 /\ 1 + 1 = 2
    OBVIOUS
  <2> QED
    BY <1>4, <2>1 DEF Arg
<1>9. After(p, 1) = s
  <2>1. PICK t : t = SubSeq(fs, 2, 2)
    OBVIOUS
  <2>2. \A i \in 2..2 : fs[i] \in Seq(S)
    BY <1>2, <1>4
  <2>3. /\ t \in Seq(Seq(S)) /\ Len(t) = 1
        /\ \A i \in 1..1 : t[i] = fs[2 + i - 1]
    BY <2>1, <2>2, SubSeqProperties
  <2>4. 2 + 1 - 1 = 2 /\ 1 \in 1..1
    OBVIOUS
  <2>5. t = <<s>>
    BY <1>4, <2>3, <2>4
  <2>6. After(p, 1) = Packed(SubSeq(fs, 1 + 1, Len(fs))) /\ 1 + 1 = 2
    BY <1>7
  <2>7. Packed(<<s>>) = s
    BY PackedOne
  <2> QED
    BY <1>4, <2>1, <2>5, <2>6, <2>7
<1>10. <<"6">> # <<"0">> /\ <<"6">> # <<"1">>
  OBVIOUS
<1>11. CppShows(p) = <<"direct", s>>
  <2>1. ~(Len(fs) > ClientWords)
    BY <1>4, Constants
  <2> QED
    BY <1>7, <1>8, <1>10, <2>1 DEF CppShows
<1>12. RustShows(p) = <<"direct", s>>
  BY <1>7, <1>8, <1>9, <1>10 DEF RustShows
<1> QED
  BY <1>6, <1>7, <1>11, <1>12

\* The end of a text.
LEMMA AtSubSeq ==
    ASSUME NEW S, NEW s \in Seq(S), NEW a \in Nat
    PROVE  /\ SubSeq(s, a + 1, Len(s)) \in Seq(S)
           /\ \A i \in Nat \ {0} : At(SubSeq(s, a + 1, Len(s)), i) = At(s, a + i)
<1>1. PICK n : n = Len(s) /\ n \in Nat
  BY LenProperties
<1>2. PICK b \in Nat \ {0} : b = a + 1
  OBVIOUS
<1>3. PICK t : t = SubSeq(s, b, n)
  OBVIOUS
<1>4. \A i \in b..n : s[i] \in S
  <2>1. \A i \in b..n : i \in 1..n
    BY <1>1, <1>2
  <2> QED
    BY <1>1, <2>1, ElementOfSeq
<1>5. /\ t \in Seq(S)
      /\ Len(t) = IF b <= n THEN n - b + 1 ELSE 0
      /\ \A i \in 1..(n - b + 1) : t[i] = s[b + i - 1]
  BY <1>1, <1>3, <1>4, SubSeqProperties
<1>6. ASSUME NEW i \in Nat \ {0} PROVE At(t, i) = At(s, a + i)
  <2>1. CASE a + i <= n
    <3>1. b <= n /\ i \in 1..(n - b + 1) /\ a + i \in 1..n /\ b + i - 1 = a + i
      BY <1>1, <1>2, <2>1
    <3> QED
      BY <1>1, <1>5, <3>1 DEF At
  <2>2. CASE ~(a + i <= n)
    <3>1. a + i \notin 1..n
      BY <1>1, <2>2
    <3>2. i \notin 1..Len(t)
      <4>1. CASE b <= n
        <5>1. Len(t) = n - b + 1
          BY <1>5, <4>1
        <5> QED
          BY <1>1, <1>2, <2>2, <5>1
      <4>2. CASE ~(b <= n)
        <5>1. Len(t) = 0
          BY <1>5, <4>2
        <5> QED
          BY <5>1
      <4> QED
        BY <4>1, <4>2
    <3> QED
      BY <1>1, <3>1, <3>2 DEF At
  <2> QED
    BY <2>1, <2>2
<1> QED
  BY <1>1, <1>2, <1>3, <1>5, <1>6

\* A text cut at the first NUL, when only what comes last in it has one.
EndsAs(d, e) ==
    /\ Len(e) < Len(d) /\ d[Len(e) + 1] = Nul
    /\ \A i \in 1..Len(e) : d[i] = e[i]

LEMMA CStringConcat ==
    ASSUME NEW S, Nul \notin S, NEW h \in Seq(S), NEW e \in Seq(S),
           NEW d \in Seq(S \cup {Nul}), EndsAs(d, e)
    PROVE  CString(h \o d) = h \o e
<1>1. PICK m, n, l : m = Len(h) /\ n = Len(e) /\ l = Len(d)
  OBVIOUS
<1>2. m \in Nat /\ n \in Nat /\ l \in Nat /\ n < l
  BY <1>1, LenProperties DEF EndsAs
<1>3. PICK R : R = S \cup {Nul}
  OBVIOUS
<1>4. h \in Seq(R) /\ d \in Seq(R)
  BY <1>3, SeqMonotonic
<1>5. PICK z, y : z = h \o d /\ y = h \o e
  OBVIOUS
<1>6. /\ z \in Seq(R) /\ Len(z) = m + l
      /\ \A i \in 1..(m + l) : z[i] = IF i <= m THEN h[i] ELSE d[i - m]
  BY <1>1, <1>4, <1>5, ConcatProperties
<1>7. /\ y \in Seq(S) /\ Len(y) = m + n
      /\ \A i \in 1..(m + n) : y[i] = IF i <= m THEN h[i] ELSE e[i - m]
  BY <1>1, <1>5, ConcatProperties
<1>8. \A i \in 1..n : d[i] = e[i]
  BY <1>1 DEF EndsAs
<1>9. d[n + 1] = Nul
  BY <1>1 DEF EndsAs
<1>10. ASSUME NEW i \in 1..(m + n) PROVE z[i] = y[i] /\ y[i] # Nul
  <2>1. i \in 1..(m + l)
    BY <1>2
  <2>2. z[i] = y[i]
    <3>1. CASE i <= m
      BY <1>6, <1>7, <2>1, <3>1
    <3>2. CASE ~(i <= m)
      <4>1. i - m \in 1..n
        BY <1>2, <3>2
      <4> QED
        BY <1>6, <1>7, <1>8, <2>1, <3>2, <4>1
    <3> QED
      BY <3>1, <3>2
  <2>3. y[i] \in S
    BY <1>7, ElementOfSeq
  <2> QED
    BY <2>2, <2>3
<1>11. PICK p : p = m + n + 1
  OBVIOUS
<1>12. p \in 1..(m + l) /\ p - 1 = m + n /\ p - m = n + 1 /\ ~(p <= m)
  BY <1>2, <1>11
<1>13. z[p] = Nul
  BY <1>6, <1>9, <1>12
<1>14. \A i \in 1..(p - 1) : z[i] # Nul
  BY <1>10, <1>12
<1>15. PICK c : c = CString(z)
  OBVIOUS
<1>16. /\ c \in Seq(R) /\ Len(c) = p - 1
       /\ \A i \in 1..(p - 1) : c[i] = z[i]
  <2>1. p \in 1..Len(z)
    BY <1>6, <1>12
  <2> QED
    BY <1>6, <1>13, <1>14, <1>15, <2>1, CStringAt
<1>17. y \in Seq(R) /\ Len(c) = Len(y) /\ \A i \in 1..Len(c) : c[i] = y[i]
  <2>1. y \in Seq(R)
    BY <1>3, <1>7, SeqMonotonic
  <2> QED
    BY <1>7, <1>10, <1>12, <1>16, <2>1
<1>18. c = y
  BY <1>16, <1>17, SeqEqual
<1> QED
  BY <1>5, <1>15, <1>18

\* The text msg makes of a command: what follows the alias, but for spaces.
Lead(cmd, alias) == Append(cmd, Space) \o Append(alias, Space)
Follows(d, lead, c) ==
    /\ \A i \in 1..Len(lead) : At(c, i) = At(lead, i)
    /\ \A i \in Nat \ {0} : At(d, i) = At(c, Len(lead) + i)

LEMMA LeadProperties ==
    ASSUME NEW S, Space \in S, NEW cmd \in Seq(S), NEW alias \in Seq(S)
    PROVE  Lead(cmd, alias) \in Seq(S) /\ Len(Lead(cmd, alias)) = Len(cmd) + Len(alias) + 2
<1>1. PICK a, b : a = Append(cmd, Space) /\ b = Append(alias, Space)
  OBVIOUS
<1>2. a \in Seq(S) /\ Len(a) = Len(cmd) + 1 /\ b \in Seq(S) /\ Len(b) = Len(alias) + 1
  BY <1>1, AppendProperties
<1>3. a \o b \in Seq(S) /\ Len(a \o b) = Len(a) + Len(b)
  BY <1>2, ConcatProperties
<1>4. Len(cmd) \in Nat /\ Len(alias) \in Nat
  BY LenProperties
<1> QED
  BY <1>1, <1>2, <1>3, <1>4 DEF Lead

LEMMA DirectTextOf ==
    ASSUME NEW S, Space \in S, NEW c \in Seq(S), NEW cmd \in Seq(S), NEW alias \in Seq(S),
           Len(Lex(c, Space)) <= CommandWords,
           Arg(Lex(c, Space), 0) = cmd, Arg(Lex(c, Space), 1) = alias
    PROVE  /\ DirectText(Lex(c, Space)) \in Seq(S)
           /\ Follows(DirectText(Lex(c, Space)), Lead(cmd, alias), c)
<1>1. PICK w : w = Lex(c, Space) /\ w \in Seq(Seq(S))
  BY LexWords
<1>2. PICK m \in Nat : m = CommandWords - 2 /\ m + 2 = CommandWords
  BY Constants
<1>3. PICK d : d = FlattenSeq(Spaced(w, 2, m))
  OBVIOUS
<1>4. d = DirectText(w)
  <2>1. \A k \in 1..m : (k - 1) + 2 = k + 1
    OBVIOUS
  <2> QED
    BY <1>2, <1>3, <2>1 DEF DirectText, Spaced
<1>5. PICK lead : lead = FlattenSeq(Spaced(w, 0, 2))
  OBVIOUS
<1>6. d \in Seq(S) /\ lead \in Seq(S)
  <2>1. 0 \in Nat /\ 2 \in Nat
    OBVIOUS
  <2> QED
    BY <1>1, <1>3, <1>5, <2>1, SpacedTyped
<1>7. lead = Lead(cmd, alias)
  <2>1. PICK a, b : a = Append(cmd, Space) /\ b = Append(alias, Space)
    OBVIOUS
  <2>2. a \in Seq(S)
    BY <2>1, AppendProperties
  <2>3. 0 \in Nat /\ 1 \in Nat /\ 0 + 1 = 1 /\ 1 + 1 = 2 /\ 0 + 0 = 0 /\ 1 + 0 = 1
    OBVIOUS
  <2>4. FlattenSeq(Spaced(w, 0, 0 + 1)) = <<>> \o Append(Arg(w, 0 + 0), Space)
    BY <1>1, <2>3, SpacedAppend
  <2>5. FlattenSeq(Spaced(w, 0, 1 + 1)) = FlattenSeq(Spaced(w, 0, 1)) \o Append(Arg(w, 1 + 0), Space)
    BY <1>1, <2>3, SpacedAppend
  <2>6. <<>> \o a = a
    BY <2>2, ConcatEmptySeq
  <2> QED
    BY <1>1, <1>5, <2>1, <2>3, <2>4, <2>5, <2>6 DEF Lead
<1>8. Same(lead \o d, c)
  <2>1. FlattenSeq(Spaced(w, 0, m + 2)) = lead \o d
    BY <1>1, <1>3, <1>5, SpacedSplit
  <2>2. PICK l \in Nat : l = m + 2
    OBVIOUS
  <2>3. Len(w) <= l
    BY <1>1, <1>2, <2>2
  <2>4. Same(FlattenSeq(Spaced(w, 0, l)), c)
    BY <1>1, <2>3, LexPadded
  <2> QED
    BY <2>1, <2>2, <2>4
<1>9. PICK k : k = Len(lead) /\ k \in Nat
  BY <1>6, LenProperties
<1>10. /\ \A i \in 1..k : At(lead \o d, i) = At(lead, i)
       /\ \A i \in Nat \ {0} : At(lead \o d, k + i) = At(d, i)
  <2>1. /\ \A i \in 1..Len(lead) : At(lead \o d, i) = At(lead, i)
        /\ \A i \in Nat \ {0} : At(lead \o d, Len(lead) + i) = At(d, i)
    BY <1>6, AtConcat, ZenonT(60)
  <2> QED
    BY <1>9, <2>1
<1>11. ASSUME NEW i \in 1..k PROVE At(c, i) = At(lead, i)
  <2>1. i \in Nat \ {0}
    OBVIOUS
  <2> QED
    BY <1>8, <1>10, <2>1 DEF Same
<1>12. ASSUME NEW i \in Nat \ {0} PROVE At(d, i) = At(c, k + i)
  <2>1. k + i \in Nat \ {0}
    BY <1>9
  <2> QED
    BY <1>8, <1>10, <2>1 DEF Same
<1> QED
  BY <1>1, <1>4, <1>6, <1>7, <1>9, <1>11, <1>12 DEF Follows

\* The server sends the alias and, but for spaces, what was typed after it;
\* the NUL the C++ program sends along cuts that off in the right place.
LEMMA DirectSent ==
    ASSUME IInv, did = "msg", stage = "shown"
    PROVE  \E e \in Seq(Typable) :
               /\ wire = Notice(Peer \o e)
               /\ \A i \in Nat \ {0} :
                      At(e, i) = At(Tail(text), Len(MsgWord) + Len(Peer) + 2 + i)
<1>1. Answered
  BY DEF Answered
<1>2. IsCommand /\ Obeyed(CommandSent)
  BY <1>1, PacketParts
<1>3. PICK c : c = CommandSent
  OBVIOUS
<1>4. /\ Arg(Lex(c, Space), 0) = MsgWord /\ Arg(Lex(c, Space), 1) = Peer
      /\ Len(Lex(c, Space)) <= CommandWords
      /\ wire = CString(Notice(Peer \o DirectText(Lex(c, Space))))
  BY <1>2, <1>3 DEF Obeyed
<1>5. PICK s : s = Tail(text) /\ s \in Seq(Typable)
  <2>1. text \in Seq(Typable) /\ text # <<>>
    BY <1>1, <1>2 DEF IInv, History, IsCommand
  <2> QED
    BY <2>1, HeadTailProperties
<1>6. PICK n : n = Len(s) /\ n \in Nat
  BY <1>5, LenProperties
<1>7. PICK d : d = DirectText(Lex(c, Space))
  OBVIOUS
<1>8. MsgWord \in Seq(Typable) /\ Peer \in Seq(Typable)
  BY Constants
<1>9. Space \in Typable /\ Nul \notin Typable /\ Space # Nul
  BY Alphabet
<1>10. PICK lead : lead = Lead(MsgWord, Peer)
  OBVIOUS
<1>11. PICK k : k = Len(lead) /\ k = Len(MsgWord) + Len(Peer) + 2 /\ k \in Nat
  <2>1. lead \in Seq(Typable) /\ Len(lead) = Len(MsgWord) + Len(Peer) + 2
    BY <1>8, <1>9, <1>10, LeadProperties
  <2> QED
    BY <2>1, LenProperties
<1>12. CASE client # "cpp"
  <2>1. c = s
    BY <1>3, <1>5, <1>12 DEF CommandSent
  <2>2. d \in Seq(Typable) /\ Follows(d, lead, c)
    BY <1>4, <1>5, <1>7, <1>8, <1>9, <1>10, <2>1, DirectTextOf
  <2>3. \A i \in Nat \ {0} : At(d, i) = At(s, k + i)
    BY <1>11, <2>1, <2>2 DEF Follows
  <2>4. Peer \o d \in Seq(Typable)
    BY <1>8, <2>2, ConcatProperties
  <2>5. wire = Notice(Peer \o d)
    BY <1>4, <1>7, <2>4, NoticeShown
  <2> QED
    BY <1>5, <1>11, <2>2, <2>3, <2>5
<1>13. CASE client = "cpp"
  <2>1. c = Append(s, Nul)
    BY <1>3, <1>5, <1>13 DEF CommandSent
  <2>2. PICK R : R = Typable \cup {Nul}
    OBVIOUS
  <2>3. s \in Seq(R) /\ MsgWord \in Seq(R) /\ Peer \in Seq(R) /\ Nul \in R /\ Space \in R
    BY <1>5, <1>8, <1>9, <2>2, SeqMonotonic
  <2>4. /\ c \in Seq(R) /\ Len(c) = n + 1 /\ c[n + 1] = Nul
        /\ \A i \in 1..n : c[i] = s[i]
    BY <1>6, <2>1, <2>3, AppendProperties
  <2>5. d \in Seq(R) /\ Follows(d, lead, c)
    BY <1>4, <1>7, <1>10, <2>3, <2>4, DirectTextOf
  <2>6. At(c, n + 1) = Nul /\ \A i \in 1..n : At(c, i) = s[i]
    <3>1. n + 1 \in 1..(n + 1) /\ \A i \in 1..n : i \in 1..(n + 1)
      BY <1>6
    <3> QED
      BY <2>4, <3>1 DEF At
  <2>7. lead \in Seq(Typable)
    BY <1>8, <1>9, <1>10, LeadProperties
  <2>8. k <= n
    <3> SUFFICES ASSUME ~(k <= n) PROVE FALSE
      OBVIOUS
    <3>1. n + 1 \in 1..k
      BY <1>6, <1>11
    <3>2. At(c, n + 1) = At(lead, n + 1)
      BY <1>11, <2>5, <3>1 DEF Follows
    <3>3. At(lead, n + 1) = lead[n + 1]
      BY <1>11, <3>1 DEF At
    <3>4. lead[n + 1] \in Typable
      BY <1>11, <2>7, <3>1, ElementOfSeq
    <3> QED
      BY <1>9, <2>6, <3>2, <3>3, <3>4
  <2>9. PICK e : e = SubSeq(s, k + 1, n)
    OBVIOUS
  <2>10. e \in Seq(Typable) /\ \A i \in Nat \ {0} : At(e, i) = At(s, k + i)
    BY <1>5, <1>6, <1>11, <2>9, AtSubSeq
  <2>11. PICK m : m = n - k /\ m \in Nat /\ k + m = n
    BY <1>6, <1>11, <2>8
  <2>12. Len(e) = m /\ \A i \in 1..m : e[i] = s[k + i]
    <3>1. PICK b : b = k + 1
      OBVIOUS
    <3>2. \A i \in b..n : i \in 1..n
      BY <1>6, <1>11, <3>1
    <3>3. \A i \in b..n : s[i] \in Typable
      BY <1>5, <1>6, <3>2, ElementOfSeq
    <3>4. b \in Int /\ n \in Int
      BY <1>6, <1>11, <3>1
    <3>5. /\ Len(SubSeq(s, b, n)) = IF b <= n THEN n - b + 1 ELSE 0
          /\ \A i \in 1..(n - b + 1) : SubSeq(s, b, n)[i] = s[b + i - 1]
      BY <3>3, <3>4, SubSeqProperties
    <3>6. n - b + 1 = m /\ (b <= n \/ m = 0) /\ \A i \in 1..m : b + i - 1 = k + i
      BY <1>6, <1>11, <2>11, <3>1
    <3> QED
      BY <2>9, <3>1, <3>5, <3>6
  <2>13. PICK l : l = Len(d) /\ l \in Nat
    BY <2>5, LenProperties
  <2>14. At(d, m + 1) = Nul /\ \A i \in 1..m : At(d, i) = s[k + i]
    <3>1. m + 1 \in Nat \ {0} /\ k + (m + 1) = n + 1
      BY <1>6, <1>11, <2>11
    <3>2. At(d, m + 1) = At(c, n + 1)
      BY <1>11, <2>5, <3>1 DEF Follows
    <3>3. ASSUME NEW i \in 1..m PROVE At(d, i) = s[k + i]
      <4>1. i \in Nat \ {0} /\ k + i \in 1..n
        BY <1>6, <1>11, <2>11
      <4>2. At(d, i) = At(c, k + i)
        BY <1>11, <2>5, <4>1 DEF Follows
      <4> QED
        BY <2>6, <4>1, <4>2
    <3> QED
      BY <2>6, <3>2, <3>3
  <2>15. m < l /\ d[m + 1] = Nul
    <3>1. m + 1 \in 1..l /\ d[m + 1] = Nul
      BY <1>9, <2>13, <2>14 DEF At
    <3> QED
      BY <2>11, <2>13, <3>1
  <2>16. \A i \in 1..m : d[i] = e[i]
    <3> SUFFICES ASSUME NEW i \in 1..m PROVE d[i] = e[i]
      OBVIOUS
    <3>1. i \in 1..l
      BY <2>11, <2>13, <2>15
    <3> QED
      BY <2>12, <2>13, <2>14, <3>1 DEF At
  <2>17. wire = Notice(Peer \o e)
    <3>1. PICK S : S = Typable \cup {"6", Sep}
      OBVIOUS
    <3>2. Nul \notin S
      BY <3>1, Alphabet
    <3>3. PICK six : six = <<"6", Sep>>
      OBVIOUS
    <3>4. six \in Seq(S)
      <4>1. "6" \in S /\ Sep \in S
        BY <3>1
      <4> QED
        BY <3>3, <4>1
    <3>5. Peer \in Seq(S) /\ e \in Seq(S)
      BY <1>8, <2>10, <3>1, SeqMonotonic
    <3>6. six \o Peer \in Seq(S)
      BY <3>4, <3>5, ConcatProperties
    <3>7. PICK Q : Q = S \cup {Nul}
      OBVIOUS
    <3>8. d \in Seq(Q) /\ six \in Seq(Q) /\ Peer \in Seq(Q)
      <4>1. R \subseteq Q
        BY <2>2, <3>1, <3>7
      <4>2. S \subseteq Q
        BY <3>7
      <4> QED
        BY <2>5, <3>4, <3>5, <4>1, <4>2, SeqMonotonic
    <3>9. CString((six \o Peer) \o d) = (six \o Peer) \o e
      <4>1. PICK h : h = six \o Peer /\ h \in Seq(S)
        BY <3>6
      <4>2. d \in Seq(S \cup {Nul}) /\ EndsAs(d, e)
        BY <2>12, <2>13, <2>15, <2>16, <3>7, <3>8 DEF EndsAs
      <4>3. CString(h \o d) = h \o e
        BY <3>2, <3>5, <4>1, <4>2, CStringConcat, ZenonT(60)
      <4> QED
        BY <4>1, <4>3
    <3>10. (six \o Peer) \o d = six \o (Peer \o d)
      BY <3>8, ConcatAssociative
    <3>11. (six \o Peer) \o e = six \o (Peer \o e)
      BY <3>4, <3>5, ConcatAssociative
    <3> QED
      BY <1>4, <1>7, <3>3, <3>9, <3>10, <3>11 DEF Notice
  <2> QED
    BY <1>5, <1>11, <2>10, <2>17
<1> QED
  BY <1>12, <1>13

\* A direct message shows, in both programs, the alias and what was typed
\* after it, but for spaces at its end: the joining of the array's elements
\* loses none of the words and none of the spaces between them.
THEOREM DirectsAsTyped == Spec => []DirectAsTyped
<1>1. ASSUME IInv PROVE DirectAsTyped
  <2> DEFINE rest == SubSeq(text, Len(MsgWord \o Peer) + 4, Len(text))
  <2> SUFFICES ASSUME did = "msg", stage = "shown"
               PROVE  \A program \in DOMAIN shown :
                          Trimmed(shown[program][2]) = Trimmed(Peer \o rest)
    BY DEF DirectAsTyped
  <2>1. PICK e \in Seq(Typable) :
            /\ wire = Notice(Peer \o e)
            /\ \A i \in Nat \ {0} :
                   At(e, i) = At(Tail(text), Len(MsgWord) + Len(Peer) + 2 + i)
    BY <1>1, DirectSent
  <2>2. MsgWord \in Seq(Typable) /\ Peer \in Seq(Typable)
    BY Constants
  <2>3. PICK k : k = Len(MsgWord) + Len(Peer) + 2 /\ k \in Nat
    BY <2>2, LenProperties
  <2>4. Len(MsgWord \o Peer) = Len(MsgWord) + Len(Peer)
    BY <2>2, ConcatProperties
  <2>5. PICK l : l = k + 1 /\ l \in Nat
    BY <2>3
  <2>6. Len(MsgWord \o Peer) + 4 = l + 1
    <3>1. Len(MsgWord) \in Nat /\ Len(Peer) \in Nat
      BY <2>2, LenProperties
    <3> QED
      BY <2>3, <2>4, <2>5, <3>1
  <2>7. text \in Seq(Typable) /\ text # <<>>
    <3>1. IsCommand /\ Answered
      BY <1>1, PacketParts DEF Answered
    <3> QED
      BY <1>1, <3>1 DEF IInv, History, IsCommand
  <2>8. \A i \in Nat \ {0} : At(Tail(text), i) = At(text, 1 + i)
    <3>1. Tail(text) = SubSeq(text, 2, Len(text))
      BY <2>7, TailIsSubSeq
    <3>2. PICK one \in Nat : one = 1 /\ one + 1 = 2
      OBVIOUS
    <3>3. PICK t : t = text /\ t \in Seq(Typable)
      BY <2>7
    <3>4. \A i \in Nat \ {0} : At(SubSeq(t, one + 1, Len(t)), i) = At(t, one + i)
      BY <3>3, AtSubSeq
    <3> QED
      BY <3>1, <3>2, <3>3, <3>4
  <2>9. rest \in Seq(Typable) /\ \A i \in Nat \ {0} : At(rest, i) = At(text, l + i)
    BY <2>5, <2>6, <2>7, AtSubSeq, SMTT(60)
  <2> HIDE DEF rest
  <2>10. Same(e, rest)
    <3> SUFFICES ASSUME NEW i \in Nat \ {0} PROVE At(e, i) = At(rest, i)
      BY DEF Same
    <3>1. k + i \in Nat \ {0} /\ 1 + (k + i) = l + i
      BY <2>3, <2>5
    <3>2. At(e, i) = At(Tail(text), k + i)
      BY <2>1, <2>3
    <3>3. At(Tail(text), k + i) = At(text, 1 + (k + i))
      BY <2>8, <3>1
    <3> QED
      BY <2>9, <3>1, <3>2, <3>3
  <2>11. Same(Peer \o e, Peer \o rest)
    BY <2>2, <2>9, <2>10, SameConcat
  <2>12. PICK u, v : u = Peer \o e /\ v = Peer \o rest
    OBVIOUS
  <2>13. u \in Seq(Typable) /\ v \in Seq(Typable)
    BY <2>2, <2>9, <2>12, ConcatProperties
  <2>14. Trimmed(u) = Trimmed(v)
    BY <2>11, <2>12, <2>13, TrimmedSame
  <2>15. CppShows(wire) = <<"direct", u>> /\ RustShows(wire) = <<"direct", u>>
    BY <2>1, <2>12, <2>13, NoticeShown
  <2>16. shown = [cpp |-> CppShows(wire), rust |-> RustShows(wire)]
    BY <1>1 DEF IInv, History
  <2>17. \A program \in DOMAIN shown : shown[program][2] = u
    BY <2>15, <2>16
  <2> QED
    BY <2>12, <2>14, <2>17
<1> QED
  BY <1>1, IInvAlways, PTL
=============================================================================
