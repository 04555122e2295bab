--------------------------- MODULE CoinbaseTxProofs ---------------------------
(***************************************************************************)
(* The generation transactions of a job, for any template, tags and list   *)
(* of outputs: the halves make a transaction, it pays the coinbase value,  *)
(* and it keeps to the offers and to the limits.  The argument follows the  *)
(* two passes over the outputs: the first leaves a trace of its loop        *)
(* variables, and the second goes over the same trace.                     *)
(***************************************************************************)
EXTENDS CoinbaseTx, FiniteSetTheorems, WellFoundedInduction, TLAPS

-----------------------------------------------------------------------------
(* Induction over the natural numbers, with a set in the place of the
   predicate                                                               *)

(* A set of natural numbers has a least element. *)
LEMMA LeastNat ==
  ASSUME NEW T \in SUBSET Nat, T # {}
  PROVE  \E x \in T : \A y \in T : x <= y
<1>1. PICK x \in T : \A y \in T : ~ (<<y, x>> \in OpToRel(<, Nat))
  BY NatLessThanWellFounded, WFMin
<1>2. \A y \in T : ~ (y < x)
  BY <1>1 DEF OpToRel
<1>3. QED
  BY <1>2

(* A set with 0 and every successor holds all natural numbers. *)
LEMMA Induction ==
  ASSUME NEW T \in SUBSET Nat, 0 \in T, \A n \in T : n + 1 \in T
  PROVE  T = Nat
<1>1. SUFFICES ASSUME Nat \ T # {} PROVE FALSE
  OBVIOUS
<1>2. PICK n \in Nat \ T : \A y \in Nat \ T : n <= y
  BY <1>1, LeastNat
<1>3. n - 1 \in Nat /\ n # 0
  BY <1>2
<1>4. n - 1 \in T
  BY <1>2, <1>3
<1>5. n - 1 + 1 \in T
  BY <1>4
<1>6. QED
  BY <1>5, <1>2

-----------------------------------------------------------------------------
(* Sums *)

(* p is the sequence of the sums of the first n elements. *)
PartialSums(a, n, p) == /\ p \in [0..n -> Int] /\ p[0] = 0
                    /\ \A i \in 1..n : p[i] = p[i - 1] + a[i]

(* There are such sums, *)
LEMMA PartialSumsExist ==
  ASSUME NEW a \in Seq(Int)
  PROVE  \E p : PartialSums(a, Len(a), p)
<1> DEFINE T == {n \in Nat : n <= Len(a) => \E p : PartialSums(a, n, p)}
<1>0. Len(a) \in Nat
  OBVIOUS
<1>1. 0 \in T
  <2>1. PartialSums(a, 0, [i \in 0..0 |-> 0])
    BY DEF PartialSums
  <2>2. QED
    BY <2>1
<1>2. ASSUME NEW n \in T PROVE n + 1 \in T
  <2>1. SUFFICES ASSUME n + 1 <= Len(a) PROVE \E p : PartialSums(a, n + 1, p)
    OBVIOUS
  <2>2. PICK p : PartialSums(a, n, p)
    BY <1>0, <2>1
  <2>3. a[n + 1] \in Int
    BY <1>0, <2>1
  <2> DEFINE q == [i \in 0..n + 1 |-> IF i <= n THEN p[i] ELSE p[n] + a[n + 1]]
  <2>4. q \in [0..n + 1 -> Int] /\ q[0] = 0
    BY <2>2, <2>3 DEF PartialSums
  <2>5. ASSUME NEW i \in 1..n + 1 PROVE q[i] = q[i - 1] + a[i]
    <3>1. CASE i <= n
      BY <2>2, <3>1 DEF PartialSums
    <3>2. CASE i = n + 1
      BY <3>2
    <3>3. QED
      BY <3>1, <3>2
  <2> HIDE DEF q
  <2>6. QED
    BY <2>4, <2>5 DEF PartialSums
<1>3. T = Nat
  <2>1. T \subseteq Nat
    OBVIOUS
  <2> HIDE DEF T
  <2>2. QED
    BY <1>1, <1>2, <2>1, Induction
<1>4. QED
  BY <1>0, <1>3

IsSum(a, f) == f = [i \in 0..Len(a) |-> IF i = 0 THEN 0 ELSE f[i - 1] + a[i]]

(* and the recursion of Total finds them. *)
LEMMA TotalIsLast ==
  ASSUME NEW a \in Seq(Int), NEW p, PartialSums(a, Len(a), p)
  PROVE  Total(a) = p[Len(a)]
<1> DEFINE n == Len(a)
           s == CHOOSE f : IsSum(a, f)
           T == {i \in Nat : i <= n => s[i] = p[i]}
<1>0. n \in Nat
  OBVIOUS
<1>1. IsSum(a, p)
  BY DEF PartialSums, IsSum
<1>2. IsSum(a, s)
  BY <1>1
<1>3. Total(a) = s[n]
  BY DEF Total, IsSum
<1> HIDE DEF s
<1>4. s = [i \in 0..n |-> IF i = 0 THEN 0 ELSE s[i - 1] + a[i]]
  BY <1>2 DEF IsSum
<1>5. s[0] = 0 /\ \A i \in 1..n : s[i] = s[i - 1] + a[i]
  BY <1>0, <1>4, SMTT(30)
<1>6. 0 \in T
  BY <1>5 DEF PartialSums
<1>7. ASSUME NEW i \in T PROVE i + 1 \in T
  <2>1. SUFFICES ASSUME i + 1 <= n PROVE s[i + 1] = p[i + 1]
    OBVIOUS
  <2>2. i + 1 \in 1..n /\ (i + 1) - 1 = i /\ s[i] = p[i]
    BY <1>0, <2>1
  <2>3. s[i + 1] = s[(i + 1) - 1] + a[i + 1] /\ p[i + 1] = p[(i + 1) - 1] + a[i + 1]
    BY <1>5, <2>2 DEF PartialSums
  <2>4. QED
    BY <2>2, <2>3
<1>8. T = Nat
  <2>1. T \subseteq Nat
    OBVIOUS
  <2> HIDE DEF T
  <2>2. QED
    BY <1>6, <1>7, <2>1, Induction
<1>9. QED
  BY <1>0, <1>3, <1>8

(* The sum of two sequences one after the other. *)
LEMMA TotalConcat ==
  ASSUME NEW a \in Seq(Int), NEW b \in Seq(Int)
  PROVE  Total(a \o b) = Total(a) + Total(b) /\ Total(a) \in Int /\ Total(b) \in Int
<1>1. PICK p : PartialSums(a, Len(a), p)
  BY PartialSumsExist
<1>2. PICK q : PartialSums(b, Len(b), q)
  BY PartialSumsExist
<1> DEFINE m == Len(a)
           n == Len(b)
           c == a \o b
           r == [i \in 0..m + n |-> IF i <= m THEN p[i] ELSE p[m] + q[i - m]]
<1>3. /\ c \in Seq(Int) /\ Len(c) = m + n /\ m \in Nat /\ n \in Nat
      /\ \A i \in 1..m + n : c[i] = IF i <= m THEN a[i] ELSE b[i - m]
  OBVIOUS
<1> HIDE DEF c, m, n
<1>4. /\ p \in [0..m -> Int] /\ p[0] = 0 /\ \A i \in 1..m : p[i] = p[i - 1] + a[i]
      /\ q \in [0..n -> Int] /\ q[0] = 0 /\ \A i \in 1..n : q[i] = q[i - 1] + b[i]
  BY <1>1, <1>2 DEF PartialSums, m, n
<1>5. /\ \A i \in 0..m : r[i] = p[i]
      /\ \A i \in m + 1..m + n : r[i] = p[m] + q[i - m]
  <2>1. 0..m \subseteq 0..m + n /\ m + 1..m + n \subseteq 0..m + n
    BY <1>3
  <2>2. ASSUME NEW i \in 0..m PROVE r[i] = p[i]
    BY <1>3, <2>1
  <2>3. ASSUME NEW i \in m + 1..m + n PROVE r[i] = p[m] + q[i - m]
    <3>1. ~ (i <= m)
      BY <1>3
    <3>2. QED
      BY <2>1, <3>1
  <2>4. QED
    BY <2>2, <2>3
<1>f. r = [i \in 0..m + n |-> r[i]]
  OBVIOUS
<1> HIDE DEF r
<1>6. r \in [0..m + n -> Int] /\ r[0] = 0
  <2>1. ASSUME NEW i \in 0..m + n PROVE r[i] \in Int
    <3>1. CASE i \in 0..m
      BY <1>4, <1>5, <3>1
    <3>2. CASE i \in m + 1..m + n
      <4>1. i - m \in 0..n /\ m \in 0..m
        BY <1>3, <3>2
      <4>2. p[m] \in Int /\ q[i - m] \in Int
        BY <1>4, <4>1
      <4>3. QED
        BY <1>5, <3>2, <4>2
    <3>3. QED
      BY <1>3, <3>1, <3>2
  <2>2. 0 \in 0..m
    BY <1>3
  <2>3. QED
    BY <1>4, <1>5, <1>f, <2>1, <2>2
<1>7. ASSUME NEW i \in 1..m + n PROVE r[i] = r[i - 1] + c[i]
  <2>1. CASE i <= m
    <3>1. i \in 1..m /\ i \in 0..m /\ i - 1 \in 0..m
      BY <1>3, <2>1
    <3>2. c[i] = a[i]
      BY <1>3, <2>1
    <3>3. QED
      BY <1>4, <1>5, <3>1, <3>2
  <2>2. CASE i > m
    <3>1. i \in m + 1..m + n /\ i - m \in 1..n /\ (i - m) - 1 = i - 1 - m
          /\ i - 1 - m \in 0..n /\ m \in 0..m
      BY <1>3, <2>2
    <3>2. q[i - m] = q[i - 1 - m] + b[i - m]
      BY <1>4, <3>1
    <3>3. r[i] = p[m] + q[i - m]
      BY <1>5, <3>1
    <3>4. c[i] = b[i - m]
      <4>1. c[i] = IF i <= m THEN a[i] ELSE b[i - m]
        BY <1>3
      <4>2. ~ (i <= m)
        BY <1>3, <2>2
      <4>3. QED
        BY <4>1, <4>2
    <3>5. r[i - 1] = p[m] + q[i - 1 - m]
      <4>1. CASE i = m + 1
        <5>1. i - 1 = m /\ i - 1 - m = 0
          BY <1>3, <4>1
        <5>2. r[m] = p[m] /\ p[m] \in Int
          BY <1>4, <1>5, <3>1
        <5>3. QED
          BY <1>4, <5>1, <5>2
      <4>2. CASE i > m + 1
        <5>1. i - 1 \in m + 1..m + n
          BY <1>3, <4>2
        <5>2. QED
          BY <1>5, <5>1
      <4>3. QED
        BY <1>3, <2>2, <4>1, <4>2
    <3>6. p[m] \in Int /\ q[i - 1 - m] \in Int /\ b[i - m] \in Int
      BY <1>4, <3>1, SMTT(30) DEF n
    <3>7. QED
      BY <3>2, <3>3, <3>4, <3>5, <3>6
  <2>3. QED
    BY <1>3, <2>1, <2>2
<1>8. m \in 0..m /\ n \in 0..n
  BY <1>3
<1>9. p[m] \in Int /\ q[n] \in Int
  BY <1>4, <1>8
<1>10. r[m + n] = p[m] + q[n]
  <2>1. CASE n = 0
    <3>1. m + n = m
      BY <1>3, <2>1
    <3>2. r[m] = p[m]
      BY <1>5, <1>8
    <3>3. q[n] = 0
      BY <1>4, <2>1
    <3>4. QED
      BY <1>9, <3>1, <3>2, <3>3
  <2>2. CASE n # 0
    <3>1. m + n \in m + 1..m + n /\ (m + n) - m = n
      BY <1>3, <2>2
    <3>2. QED
      BY <1>5, <3>1
  <2>3. QED
    BY <2>1, <2>2
<1>11. PartialSums(c, Len(c), r)
  BY <1>3, <1>6, <1>7 DEF PartialSums
<1>12. Total(c) = r[m + n] /\ Total(a) = p[m] /\ Total(b) = q[n]
  BY <1>1, <1>2, <1>3, <1>11, TotalIsLast DEF m, n
<1>13. QED
  BY <1>9, <1>10, <1>12 DEF c

(* The sum of nothing, and of one number. *)
LEMMA TotalSmall == /\ Total(<<>>) = 0
                  /\ \A x \in Int : Total(<<x>>) = x
<1>1. Total(<<>>) = 0
  <2>1. PartialSums(<<>>, Len(<<>>), [i \in 0..0 |-> 0])
    BY DEF PartialSums
  <2>2. << >> \in Seq(Int) /\ Len(<<>>) = 0
    OBVIOUS
  <2>3. QED
    BY <2>1, <2>2, TotalIsLast
<1>2. ASSUME NEW x \in Int PROVE Total(<<x>>) = x
  <2> DEFINE p == [i \in 0..1 |-> IF i = 0 THEN 0 ELSE x]
  <2>1. <<x>> \in Seq(Int) /\ Len(<<x>>) = 1 /\ <<x>>[1] = x
    OBVIOUS
  <2>2. PartialSums(<<x>>, Len(<<x>>), p)
    BY <2>1 DEF PartialSums
  <2>3. QED
    BY <2>1, <2>2, TotalIsLast
<1>3. QED
  BY <1>1, <1>2

-----------------------------------------------------------------------------
(* Fields *)

Kinds == {"input", "push", "sequence", "count", "out", "enout", "lock", "en"}
Fields == [kind : Kinds, bytes : Nat, n : Int]

(* What the outputs among some fields pay. *)
Money(s) == Total(Amounts(s))

(* A number of each member of a sequence. *)
Mapped(g, s) == [i \in DOMAIN s |-> g[s[i]]]

(* As many numbers as members. *)
LEMMA MappedIs ==
  ASSUME NEW S, NEW g \in [S -> Int], NEW s \in Seq(S)
  PROVE  /\ Mapped(g, s) \in Seq(Int) /\ Len(Mapped(g, s)) = Len(s)
         /\ \A i \in 1..Len(s) : Mapped(g, s)[i] = g[s[i]]
<1>1. DOMAIN s = 1..Len(s) /\ Len(s) \in Nat /\ \A i \in 1..Len(s) : s[i] \in S
  OBVIOUS
<1>2. \A i \in 1..Len(s) : g[s[i]] \in Int
  BY <1>1
<1>3. Mapped(g, s) = [i \in 1..Len(s) |-> g[s[i]]]
  BY <1>1 DEF Mapped
<1> DEFINE x == Mapped(g, s)
<1> HIDE DEF x
<1>4. x \in [1..Len(s) -> Int] /\ \A i \in 1..Len(s) : x[i] = g[s[i]]
  BY <1>2, <1>3 DEF x
<1>5. x \in Seq(Int) /\ Len(x) = Len(s)
  BY <1>1, <1>4
<1>6. QED
  BY <1>4, <1>5 DEF x

(* Two sequences one after the other. *)
LEMMA Joined ==
  ASSUME NEW S, NEW a \in Seq(S), NEW b \in Seq(S)
  PROVE  /\ a \o b \in Seq(S) /\ Len(a \o b) = Len(a) + Len(b)
         /\ Len(a) \in Nat /\ Len(b) \in Nat
         /\ \A i \in 1..Len(a) : (a \o b)[i] = a[i]
         /\ \A i \in 1..Len(b) : (a \o b)[Len(a) + i] = b[i]
  OBVIOUS

(* What is in a sequence. *)
LEMMA Members ==
  ASSUME NEW S, NEW s \in Seq(S)
  PROVE  /\ Len(s) \in Nat /\ DOMAIN s = 1..Len(s)
         /\ \A i \in 1..Len(s) : s[i] \in S
  OBVIOUS

(* What a sequence begins with. *)
LEMMA Beginning ==
  ASSUME NEW S, NEW s \in Seq(S), NEW n \in 0..Len(s)
  PROVE  SubSeq(s, 1, n) \in Seq(S)
  OBVIOUS

(* Sequences are the same when their elements are. *)
LEMMA SameSeq ==
  ASSUME NEW S, NEW a \in Seq(S), NEW b \in Seq(S), Len(a) = Len(b),
         \A i \in 1..Len(a) : a[i] = b[i]
  PROVE  a = b
  OBVIOUS

(* Below the length of the first, or beyond it. *)
LEMMA Halves ==
  ASSUME NEW m \in Nat, NEW n \in Nat, NEW i \in 1..m + n
  PROVE  i \in 1..m \/ \E j \in 1..n : i = m + j
<1>1. CASE i > m
  <2>1. i - m \in 1..n /\ i = m + (i - m)
    BY <1>1
  <2>2. QED
    BY <2>1
<1>2. QED
  BY <1>1

(* Numbers of two sequences one after the other. *)
LEMMA MappedConcat ==
  ASSUME NEW S, NEW g \in [S -> Int], NEW s \in Seq(S), NEW u \in Seq(S)
  PROVE  Mapped(g, s \o u) = Mapped(g, s) \o Mapped(g, u)
<1>1. PICK c : c = s \o u
  OBVIOUS
<1>2. PICK x, y : x = Mapped(g, s) /\ y = Mapped(g, u)
  OBVIOUS
<1>3. PICK z : z = Mapped(g, c)
  OBVIOUS
<1>4. PICK l : l = x \o y
  OBVIOUS
<1>5. /\ c \in Seq(S) /\ Len(c) = Len(s) + Len(u)
      /\ Len(s) \in Nat /\ Len(u) \in Nat
      /\ \A i \in 1..Len(s) : c[i] = s[i]
      /\ \A i \in 1..Len(u) : c[Len(s) + i] = u[i]
  BY <1>1, Joined
<1>6. x \in Seq(Int) /\ Len(x) = Len(s) /\ \A i \in 1..Len(s) : x[i] = g[s[i]]
  BY <1>2, MappedIs, SMTT(30)
<1>7. y \in Seq(Int) /\ Len(y) = Len(u) /\ \A i \in 1..Len(u) : y[i] = g[u[i]]
  BY <1>2, MappedIs, SMTT(30)
<1>8. z \in Seq(Int) /\ Len(z) = Len(c) /\ \A i \in 1..Len(c) : z[i] = g[c[i]]
  BY <1>3, <1>5, MappedIs, SMTT(30)
<1>9. /\ l \in Seq(Int) /\ Len(l) = Len(x) + Len(y)
      /\ \A i \in 1..Len(x) : l[i] = x[i]
      /\ \A i \in 1..Len(y) : l[Len(x) + i] = y[i]
  <2>1. x \in Seq(Int) /\ y \in Seq(Int)
    BY <1>6, <1>7
  <2>2. QED
    BY <1>4, <2>1, Joined
<1>10. ASSUME NEW i \in 1..Len(s) + Len(u) PROVE z[i] = l[i]
  <2>1. CASE i \in 1..Len(s)
    BY <1>5, <1>6, <1>8, <1>9, <2>1
  <2>2. CASE \E j \in 1..Len(u) : i = Len(s) + j
    BY <1>5, <1>6, <1>7, <1>8, <1>9, <2>2
  <2>3. QED
    BY <1>5, <2>1, <2>2, Halves
<1>11. z = l
  BY <1>5, <1>6, <1>7, <1>8, <1>9, <1>10, SameSeq
<1>12. QED
  BY <1>1, <1>2, <1>3, <1>4, <1>11

Size == [f \in Fields |-> f.bytes]
Worth == [f \in Fields |-> Amount(f)]

(* Bytes and money are sums of such numbers. *)
LEMMA FieldNumbers ==
  ASSUME NEW s \in Seq(Fields)
  PROVE  /\ SumBytes(s) = Total(Mapped(Size, s))
         /\ Money(s) = Total(Mapped(Worth, s))
         /\ Size \in [Fields -> Int] /\ Worth \in [Fields -> Int]
<1>1. \A i \in DOMAIN s : s[i] \in Fields
  OBVIOUS
<1>2. \A f \in Fields : f.bytes \in Int /\ Amount(f) \in Int
  BY DEF Fields, Amount
<1>3. Size \in [Fields -> Int] /\ Worth \in [Fields -> Int]
  BY <1>2 DEF Size, Worth
<1>4. \A f \in Fields : Size[f] = f.bytes /\ Worth[f] = Amount(f)
  BY DEF Size, Worth
<1>5. [i \in DOMAIN s |-> s[i].bytes] = Mapped(Size, s)
  BY <1>1, <1>4 DEF Mapped
<1>6. Amounts(s) = Mapped(Worth, s)
  BY <1>1, <1>4 DEF Mapped, Amounts
<1>7. QED
  BY <1>3, <1>5, <1>6 DEF SumBytes, Money

(* Bytes and money of two sequences of fields add up. *)
LEMMA FieldSums ==
  ASSUME NEW s \in Seq(Fields), NEW u \in Seq(Fields)
  PROVE  /\ SumBytes(s \o u) = SumBytes(s) + SumBytes(u)
         /\ Money(s \o u) = Money(s) + Money(u)
         /\ SumBytes(s) \in Int /\ SumBytes(u) \in Int
         /\ Money(s) \in Int /\ Money(u) \in Int
<1>1. s \o u \in Seq(Fields)
  OBVIOUS
<1>2. Size \in [Fields -> Int] /\ Worth \in [Fields -> Int]
  BY FieldNumbers
<1>3. /\ Mapped(Size, s) \in Seq(Int) /\ Mapped(Size, u) \in Seq(Int)
      /\ Mapped(Worth, s) \in Seq(Int) /\ Mapped(Worth, u) \in Seq(Int)
  BY <1>2, MappedIs
<1>4. /\ Mapped(Size, s \o u) = Mapped(Size, s) \o Mapped(Size, u)
      /\ Mapped(Worth, s \o u) = Mapped(Worth, s) \o Mapped(Worth, u)
  BY <1>2, MappedConcat, ZenonT(60)
<1>5. QED
  BY <1>1, <1>3, <1>4, FieldNumbers, TotalConcat

(* A field alone, two and three of them, and none. *)
LEMMA FewFields ==
  /\ SumBytes(<<>>) = 0 /\ Money(<<>>) = 0
  /\ \A f \in Fields : SumBytes(<<f>>) = f.bytes /\ Money(<<f>>) = Amount(f)
  /\ \A f, g \in Fields :
       /\ SumBytes(<<f, g>>) = f.bytes + g.bytes
       /\ Money(<<f, g>>) = Amount(f) + Amount(g)
  /\ \A f, g, h \in Fields :
       /\ SumBytes(<<f, g, h>>) = f.bytes + g.bytes + h.bytes
       /\ Money(<<f, g, h>>) = Amount(f) + Amount(g) + Amount(h)
<1>1. SumBytes(<<>>) = 0 /\ Money(<<>>) = 0
  <2>1. \A g : Mapped(g, <<>>) = <<>>
    BY DEF Mapped
  <2>2. <<>> \in Seq(Fields)
    OBVIOUS
  <2>3. QED
    BY <2>1, <2>2, FieldNumbers, TotalSmall
<1>2. ASSUME NEW f \in Fields
      PROVE  SumBytes(<<f>>) = f.bytes /\ Money(<<f>>) = Amount(f)
  <2>1. f.bytes \in Int /\ Amount(f) \in Int
    BY DEF Fields, Amount
  <2>2. [i \in DOMAIN <<f>> |-> <<f>>[i].bytes] = <<f.bytes>>
        /\ Amounts(<<f>>) = <<Amount(f)>>
    BY DEF Amounts
  <2>3. QED
    BY <2>1, <2>2, TotalSmall DEF SumBytes, Money
<1>3. ASSUME NEW f \in Fields, NEW g \in Fields
      PROVE  /\ SumBytes(<<f, g>>) = f.bytes + g.bytes
             /\ Money(<<f, g>>) = Amount(f) + Amount(g)
  <2>1. <<f, g>> = <<f>> \o <<g>>
    <3>1. <<f, g>> \in Seq(Fields) /\ Len(<<f, g>>) = 2
      OBVIOUS
    <3>2. <<f>> \o <<g>> \in Seq(Fields) /\ Len(<<f>> \o <<g>>) = 2
      OBVIOUS
    <3>3. (<<f>> \o <<g>>)[1] = f /\ (<<f>> \o <<g>>)[2] = g
      OBVIOUS
    <3>4. \A i \in 1..2 : <<f, g>>[i] = (<<f>> \o <<g>>)[i]
      BY <3>3
    <3>5. QED
      BY <3>1, <3>2, <3>4, SameSeq
  <2>2. <<f>> \in Seq(Fields) /\ <<g>> \in Seq(Fields)
    OBVIOUS
  <2>3. QED
    BY <1>2, <2>1, <2>2, FieldSums
<1>4. ASSUME NEW f \in Fields, NEW g \in Fields, NEW h \in Fields
      PROVE  /\ SumBytes(<<f, g, h>>) = f.bytes + g.bytes + h.bytes
             /\ Money(<<f, g, h>>) = Amount(f) + Amount(g) + Amount(h)
  <2>1. <<f, g, h>> = <<f, g>> \o <<h>>
    OBVIOUS
  <2>2. <<f, g>> \in Seq(Fields) /\ <<h>> \in Seq(Fields)
    OBVIOUS
  <2>3. f.bytes \in Int /\ g.bytes \in Int /\ h.bytes \in Int
    BY DEF Fields
  <2>4. QED
    BY <1>2, <1>3, <2>1, <2>2, <2>3, FieldSums
<1>5. QED
  BY <1>1, <1>2, <1>3, <1>4

-----------------------------------------------------------------------------
(* The shape of a transaction *)

OutFields == {f \in Fields : f.kind = "out"}

(* The halves of a transaction whose input has len bytes, with the outputs a
   before and b behind the extranonce, if that is not in the input.          *)
Shape(tx, len, en, a, b) ==
  /\ a \in Seq(OutFields) /\ b \in Seq(OutFields) /\ len \in Nat
  /\ en => /\ a = <<>>
           /\ tx.c1 = <<CbStart(len), EnPush>>
           /\ tx.c2 = <<SequenceNo, Count(Len(b))>> \o b \o <<LockTime>>
  /\ ~ en =>
       /\ tx.c1 = <<CbStart(len), SequenceNo, Count(Len(a) + 1 + Len(b))>>
                    \o a \o <<EnOutput>>
       /\ tx.c2 = b \o <<LockTime>>

(* Every field has a kind, a size and a number. *)
LEMMA FieldTypes ==
  /\ \A len \in Nat : CbStart(len) \in Fields
  /\ \A n \in Nat : Count(n) \in Fields
  /\ {EnPush, SequenceNo, EnOutput, LockTime} \subseteq Fields
  /\ \A len \in Nat, v \in Int : Output(len, v) \in OutFields
  /\ Witness \in OutFields /\ DeadOutput \in OutFields
  /\ OutFields \subseteq Fields
<1>1. \A k \in Kinds, m \in Nat, n \in Int :
        /\ Field(k, m, n) \in Fields
        /\ Field(k, m, n).kind = k /\ Field(k, m, n).bytes = m
        /\ Field(k, m, n).n = n
  BY DEF Field, Fields
<1>2. \A len \in Nat : 42 + len \in Nat /\ len + 9 \in Nat
  OBVIOUS
<1>3. \A n \in Nat : (IF n < 253 THEN 1 ELSE 3) \in Nat
  OBVIOUS
<1>4. \A len \in Nat : CbStart(len) \in Fields
  BY <1>1, <1>2 DEF CbStart, Kinds
<1>5. \A n \in Nat : Count(n) \in Fields
  BY <1>1, <1>3 DEF Count, Kinds
<1>6. {EnPush, SequenceNo, EnOutput, LockTime} \subseteq Fields
  BY <1>1 DEF EnPush, SequenceNo, EnOutput, LockTime, Kinds
<1>7. \A len \in Nat, v \in Int : Output(len, v) \in OutFields
  BY <1>1, <1>2 DEF Output, OutFields, Kinds
<1>8. Witness \in OutFields /\ DeadOutput \in OutFields
  BY <1>7 DEF Witness, DeadOutput
<1>9. QED
  BY <1>4, <1>5, <1>6, <1>7, <1>8 DEF OutFields

(* What the fields around the outputs take, and that they pay nothing. *)
LEMMA FieldValues ==
  /\ \A len \in Nat : CbStart(len).bytes = 42 + len /\ Amount(CbStart(len)) = 0
  /\ \A n \in Nat : /\ Count(n).bytes = (IF n < 253 THEN 1 ELSE 3)
                    /\ Amount(Count(n)) = 0
  /\ EnPush.bytes = 3 /\ SequenceNo.bytes = 4 /\ EnOutput.bytes = 13
  /\ LockTime.bytes = 4
  /\ Amount(EnPush) = 0 /\ Amount(SequenceNo) = 0 /\ Amount(EnOutput) = 0
  /\ Amount(LockTime) = 0
  BY DEF CbStart, Count, EnPush, SequenceNo, EnOutput, LockTime, Field, Amount,
         IsOutput

(* The fields of either shape are fields. *)
LEMMA ShapeTypes ==
  ASSUME NEW tx, NEW len, NEW en \in BOOLEAN, NEW a, NEW b,
         Shape(tx, len, en, a, b)
  PROVE  /\ a \in Seq(Fields) /\ b \in Seq(Fields)
         /\ tx.c1 \in Seq(Fields) /\ tx.c2 \in Seq(Fields)
<1>1. a \in Seq(OutFields) /\ b \in Seq(OutFields) /\ len \in Nat
  BY DEF Shape
<1>2. a \in Seq(Fields) /\ b \in Seq(Fields)
  BY <1>1 DEF OutFields
<1>3. Len(a) \in Nat /\ Len(b) \in Nat /\ Len(a) + 1 + Len(b) \in Nat
  BY <1>1
<1>4. /\ CbStart(len) \in Fields /\ EnPush \in Fields /\ SequenceNo \in Fields
      /\ EnOutput \in Fields /\ LockTime \in Fields
      /\ Count(Len(b)) \in Fields /\ Count(Len(a) + 1 + Len(b)) \in Fields
  BY <1>1, <1>3, FieldTypes
<1>5. CASE en
  <2>1. <<SequenceNo, Count(Len(b))>> \in Seq(Fields)
        /\ <<CbStart(len), EnPush>> \in Seq(Fields) /\ <<LockTime>> \in Seq(Fields)
    BY <1>4
  <2>2. <<SequenceNo, Count(Len(b))>> \o b \in Seq(Fields)
    BY <1>2, <2>1
  <2>3. <<SequenceNo, Count(Len(b))>> \o b \o <<LockTime>> \in Seq(Fields)
    BY <2>1, <2>2
  <2>4. QED
    BY <1>2, <1>5, <2>1, <2>3 DEF Shape
<1>6. CASE ~ en
  <2> DEFINE h == <<CbStart(len), SequenceNo, Count(Len(a) + 1 + Len(b))>>
  <2>1. h \in Seq(Fields) /\ <<EnOutput>> \in Seq(Fields)
        /\ <<LockTime>> \in Seq(Fields)
    BY <1>4
  <2>2. h \o a \in Seq(Fields)
    BY <1>2, <2>1
  <2>3. h \o a \o <<EnOutput>> \in Seq(Fields) /\ b \o <<LockTime>> \in Seq(Fields)
    BY <1>2, <2>1, <2>2
  <2>4. QED
    BY <1>2, <1>6, <2>3 DEF Shape
<1>7. QED
  BY <1>5, <1>6

(* A transaction pays what its outputs pay, and takes the bytes of the outputs
   and of what is around them.                                              *)
ShapeTotals(tx, len, en, a, b) ==
  /\ Paid(tx) = Money(a) + Money(b)
  /\ en => TxBytes(tx) = 65 + len + Count(Len(b)).bytes + SumBytes(b)
  /\ ~ en => /\ TxBytes(tx) = 75 + len + Count(Len(a) + 1 + Len(b)).bytes
                                + SumBytes(a) + SumBytes(b)
             /\ SumBytes(tx.c1) = 59 + len + Count(Len(a) + 1 + Len(b)).bytes
                                + SumBytes(a)

(* So does every transaction of this shape. *)
LEMMA ShapeSums ==
  ASSUME NEW tx, NEW len, NEW en \in BOOLEAN, NEW a, NEW b,
         Shape(tx, len, en, a, b)
  PROVE  ShapeTotals(tx, len, en, a, b)
<1> USE DEF ShapeTotals
<1>1. /\ a \in Seq(Fields) /\ b \in Seq(Fields)
      /\ tx.c1 \in Seq(Fields) /\ tx.c2 \in Seq(Fields)
  BY ShapeTypes
<1>2. Paid(tx) = Money(tx.c1) + Money(tx.c2)
  BY <1>1, FieldSums DEF Paid, Money
<1>3. /\ Len(a) \in Nat /\ Len(b) \in Nat /\ Len(a) + 1 + Len(b) \in Nat
      /\ len \in Nat
  BY <1>1 DEF Shape
<1>4. PICK s, u, l, o, c, d :
        /\ s = CbStart(len) /\ u = SequenceNo /\ l = LockTime /\ o = EnOutput
        /\ c = Count(Len(b)) /\ d = Count(Len(a) + 1 + Len(b))
  OBVIOUS
<1>5. /\ s \in Fields /\ u \in Fields /\ l \in Fields /\ o \in Fields
      /\ c \in Fields /\ d \in Fields /\ EnPush \in Fields
  BY <1>3, <1>4, FieldTypes
<1>6. /\ s.bytes = 42 + len /\ Amount(s) = 0 /\ u.bytes = 4 /\ Amount(u) = 0
      /\ l.bytes = 4 /\ Amount(l) = 0 /\ o.bytes = 13 /\ Amount(o) = 0
      /\ Amount(c) = 0 /\ Amount(d) = 0
      /\ EnPush.bytes = 3 /\ Amount(EnPush) = 0
  BY <1>3, <1>4, FieldValues
<1>7. c.bytes \in Int /\ d.bytes \in Int
  BY <1>5 DEF Fields
<1>8. SumBytes(a) \in Int /\ SumBytes(b) \in Int
  BY <1>1, FieldSums
<1>m. Money(a) \in Int /\ Money(b) \in Int
  BY <1>1, FieldSums
<1>n. len \in Nat
  BY <1>3
<1>9. <<l>> \in Seq(Fields) /\ SumBytes(<<l>>) = 4 /\ Money(<<l>>) = 0
  BY <1>5, <1>6, FewFields
<1>10. CASE en
  <2>1. tx.c1 = <<s, EnPush>> /\ tx.c2 = <<u, c>> \o b \o <<l>> /\ a = <<>>
    BY <1>4, <1>10 DEF Shape
  <2>2. SumBytes(tx.c1) = 45 + len /\ Money(tx.c1) = 0
    BY <1>n, <1>5, <1>6, <2>1, FewFields
  <2>3. /\ <<u, c>> \in Seq(Fields) /\ SumBytes(<<u, c>>) = 4 + c.bytes
        /\ Money(<<u, c>>) = 0
    BY <1>5, <1>6, FewFields
  <2>4. PICK t : t = <<u, c>> \o b
    OBVIOUS
  <2>5. t \in Seq(Fields)
    BY <1>1, <2>3, <2>4
  <2>6. SumBytes(t) = SumBytes(<<u, c>>) + SumBytes(b)
        /\ Money(t) = Money(<<u, c>>) + Money(b)
    BY <1>1, <2>3, <2>4, FieldSums
  <2>7. SumBytes(tx.c2) = SumBytes(t) + SumBytes(<<l>>)
        /\ Money(tx.c2) = Money(t) + Money(<<l>>)
    BY <1>9, <2>1, <2>4, <2>5, FieldSums
  <2>8. SumBytes(tx.c2) = 8 + c.bytes + SumBytes(b)
    BY <1>7, <1>8, <1>9, <2>3, <2>6, <2>7
  <2>9. Money(tx.c2) = Money(b)
    BY <1>m, <1>9, <2>3, <2>6, <2>7
  <2>10. Money(a) = 0
    BY <2>1, FewFields
  <2>11. TxBytes(tx) = 65 + len + c.bytes + SumBytes(b)
    BY <1>n, <1>7, <1>8, <2>2, <2>8 DEF TxBytes
  <2>12. Paid(tx) = Money(a) + Money(b)
    BY <1>2, <1>m, <2>2, <2>9, <2>10
  <2>13. QED
    BY <1>4, <1>10, <2>11, <2>12
<1>11. CASE ~ en
  <2>1. tx.c1 = <<s, u, d>> \o a \o <<o>> /\ tx.c2 = b \o <<l>>
    BY <1>4, <1>11 DEF Shape
  <2>2. /\ <<s, u, d>> \in Seq(Fields) /\ Money(<<s, u, d>>) = 0
        /\ SumBytes(<<s, u, d>>) = s.bytes + u.bytes + d.bytes
    BY <1>5, <1>6, FewFields
  <2>3. <<o>> \in Seq(Fields) /\ SumBytes(<<o>>) = 13 /\ Money(<<o>>) = 0
    BY <1>5, <1>6, FewFields
  <2>4. PICK t : t = <<s, u, d>> \o a
    OBVIOUS
  <2>5. t \in Seq(Fields)
    BY <1>1, <2>2, <2>4
  <2>6. SumBytes(t) = SumBytes(<<s, u, d>>) + SumBytes(a)
        /\ Money(t) = Money(<<s, u, d>>) + Money(a)
    BY <1>1, <2>2, <2>4, FieldSums
  <2>7. SumBytes(tx.c1) = SumBytes(t) + SumBytes(<<o>>)
        /\ Money(tx.c1) = Money(t) + Money(<<o>>)
    BY <2>1, <2>3, <2>4, <2>5, FieldSums
  <2>8. SumBytes(tx.c2) = SumBytes(b) + SumBytes(<<l>>)
        /\ Money(tx.c2) = Money(b) + Money(<<l>>)
    BY <1>1, <1>9, <2>1, FieldSums, ZenonT(60)
  <2>9. SumBytes(<<s, u, d>>) = 46 + len + d.bytes
    BY <1>n, <1>6, <1>7, <2>2
  <2>10. SumBytes(tx.c1) = 59 + len + d.bytes + SumBytes(a)
    BY <1>n, <1>7, <1>8, <2>3, <2>6, <2>7, <2>9
  <2>11. Paid(tx) = Money(a) + Money(b)
    BY <1>2, <1>m, <1>9, <2>2, <2>3, <2>6, <2>7, <2>8
  <2>12. SumBytes(tx.c2) = SumBytes(b) + 4
    BY <1>9, <2>8
  <2>13. TxBytes(tx) = 75 + len + d.bytes + SumBytes(a) + SumBytes(b)
    BY <1>n, <1>7, <1>8, <2>10, <2>12 DEF TxBytes
  <2>14. QED
    BY <1>4, <1>11, <2>10, <2>11, <2>13
<1>12. QED
  BY <1>10, <1>11

(* As many elements as an interval has; one less without one of them. *)
LEMMA IntervalSize ==
  ASSUME NEW n \in Nat
  PROVE  /\ Cardinality(1..n) = n
         /\ \A i \in 1..n : Cardinality((1..n) \ {i}) = n - 1
<1>1. IsFiniteSet(1..n) /\ Cardinality(1..n) = n
  <2>1. /\ IsFiniteSet(1..n)
        /\ Cardinality(1..n) = IF 1 > n THEN 0 ELSE n - 1 + 1
    BY FS_Interval
  <2>2. QED
    BY <2>1
<1>2. ASSUME NEW i \in 1..n PROVE Cardinality((1..n) \ {i}) = n - 1
  BY <1>1, FS_RemoveElement
<1>3. QED
  BY <1>1, <1>2

(* What is behind the count, up to the lock time. *)
LEMMA RestIs ==
  ASSUME NEW w \in Seq(Fields), NEW k \in Nat, NEW n \in Nat, Len(w) = k + n + 1
  PROVE  LET rest == SubSeq(w, k + 1, Len(w) - 1)
         IN DOMAIN rest = 1..n /\ \A i \in 1..n : rest[i] = w[k + i]
<1>1. k + 1 \in Nat /\ Len(w) - 1 = k + n /\ (k + n) - (k + 1) + 1 = n
  OBVIOUS
<1>2. SubSeq(w, k + 1, k + n) = [i \in 1..n |-> w[i + (k + 1) - 1]]
  BY <1>1
<1>3. \A i \in 1..n : i + (k + 1) - 1 = k + i
  OBVIOUS
<1>4. QED
  BY <1>1, <1>2, <1>3

(* The extranonce in the input: outputs follow, as many as announced. *)
LEMMA InputForm ==
  ASSUME NEW tx, NEW b \in Seq(OutFields), Whole(tx) \in Seq(Fields),
         Len(Whole(tx)) = 5 + Len(b) + 1,
         Whole(tx)[1].kind = "input", Whole(tx)[2].kind = "push",
         Whole(tx)[3].kind = "en", Whole(tx)[4].kind = "sequence",
         Whole(tx)[5].kind = "count", Whole(tx)[5].n = Len(b),
         \A i \in 1..Len(b) : Whole(tx)[5 + i] = b[i],
         Whole(tx)[5 + Len(b) + 1].kind = "lock"
  PROVE  WellFormed(tx)
<1>1. PICK w : w = Whole(tx)
  OBVIOUS
<1>2. PICK n : n = Len(b)
  OBVIOUS
<1>3. PICK rest : rest = SubSeq(w, 5 + 1, Len(w) - 1)
  OBVIOUS
<1>4. PICK kinds : kinds = HeadKinds(w)
  OBVIOUS
<1>k. kinds = <<"input", "push", "en", "sequence", "count">>
  BY <1>1, <1>4 DEF HeadKinds, InInput
<1>5. n \in Nat /\ w \in Seq(Fields) /\ Len(w) = 5 + n + 1
  BY <1>1, <1>2
<1>6. DOMAIN rest = 1..n /\ \A i \in 1..n : rest[i] = w[5 + i]
  BY <1>3, <1>5, RestIs
<1>7. \A i \in 1..n : rest[i].kind = "out"
  <2>1. \A i \in 1..n : rest[i] = b[i] /\ b[i] \in OutFields
    BY <1>1, <1>2, <1>6
  <2>2. QED
    BY <2>1 DEF OutFields
<1>8. {i \in DOMAIN rest : IsOutput(rest[i])} = 1..n
  BY <1>6, <1>7 DEF IsOutput
<1>9. Cardinality({i \in DOMAIN rest : IsOutput(rest[i])}) = n
  BY <1>5, <1>8, IntervalSize
<1>10. /\ DOMAIN kinds = 1..5 /\ Len(kinds) = 5
       /\ kinds[1] = "input" /\ kinds[2] = "push" /\ kinds[3] = "en"
       /\ kinds[4] = "sequence" /\ kinds[5] = "count"
  BY <1>k
<1>11. \A i \in DOMAIN kinds : w[i].kind = kinds[i]
  <2>1. ASSUME NEW i \in 1..5 PROVE w[i].kind = kinds[i]
    <3>1. i = 1 \/ i = 2 \/ i = 3 \/ i = 4 \/ i = 5
      OBVIOUS
    <3>2. QED
      BY <1>1, <1>10, <3>1
  <2>2. QED
    BY <1>10, <2>1
<1>12. w[2].kind = "push" /\ w[Len(w)].kind = "lock" /\ w[5].n = n
  BY <1>1, <1>2, <1>5
<1>13. \A i \in DOMAIN rest : IF rest[i].kind = "en"
                              THEN i > 1 /\ rest[i - 1].kind = "enout"
                              ELSE IsOutput(rest[i])
  BY <1>6, <1>7 DEF IsOutput
<1>14. InInput(w) <=> \A i \in DOMAIN rest : rest[i].kind # "enout"
  BY <1>6, <1>7, <1>12 DEF InInput
<1>15. /\ Len(w) > Len(kinds)
       /\ w[Len(kinds)].n = Cardinality({i \in DOMAIN rest : IsOutput(rest[i])})
       /\ rest = SubSeq(w, Len(kinds) + 1, Len(w) - 1)
  <2>1. Len(w) > Len(kinds)
    BY <1>5, <1>10
  <2>2. w[Len(kinds)].n = n
    BY <1>10, <1>12
  <2>3. rest = SubSeq(w, Len(kinds) + 1, Len(w) - 1)
    BY <1>3, <1>10
  <2>4. QED
    BY <1>9, <2>1, <2>2, <2>3
<1>16. QED
  BY <1>1, <1>4, <1>11, <1>12, <1>13, <1>14, <1>15, Zenon DEF WellFormed

(* The extranonce behind its OP_RETURN, between the outputs. *)
LEMMA OutputForm ==
  ASSUME NEW tx, NEW a \in Seq(OutFields), NEW b \in Seq(OutFields),
         Whole(tx) \in Seq(Fields),
         Len(Whole(tx)) = 3 + (Len(a) + 2 + Len(b)) + 1,
         Whole(tx)[1].kind = "input", Whole(tx)[2].kind = "sequence",
         Whole(tx)[3].kind = "count", Whole(tx)[3].n = Len(a) + 1 + Len(b),
         \A i \in 1..Len(a) : Whole(tx)[3 + i] = a[i],
         Whole(tx)[3 + (Len(a) + 1)].kind = "enout",
         Whole(tx)[3 + (Len(a) + 2)].kind = "en",
         \A i \in 1..Len(b) : Whole(tx)[3 + (Len(a) + 2 + i)] = b[i],
         Whole(tx)[3 + (Len(a) + 2 + Len(b)) + 1].kind = "lock"
  PROVE  WellFormed(tx)
<1>1. PICK w : w = Whole(tx)
  OBVIOUS
<1>2. PICK m, n : m = Len(a) /\ n = Len(b)
  OBVIOUS
<1>3. PICK rest : rest = SubSeq(w, 3 + 1, Len(w) - 1)
  OBVIOUS
<1>4. PICK kinds : kinds = HeadKinds(w)
  OBVIOUS
<1>k. kinds = <<"input", "sequence", "count">>
  BY <1>1, <1>4 DEF HeadKinds, InInput
<1>5. m \in Nat /\ n \in Nat /\ w \in Seq(Fields) /\ Len(w) = 3 + (m + 2 + n) + 1
  BY <1>1, <1>2
<1>6. DOMAIN rest = 1..m + 2 + n /\ \A i \in 1..m + 2 + n : rest[i] = w[3 + i]
  <2>1. m + 2 + n \in Nat
    BY <1>5, SMTT(30)
  <2>2. QED
    BY <1>3, <1>5, <2>1, RestIs
<1>7. /\ \A i \in 1..m : rest[i].kind = "out"
      /\ rest[m + 1].kind = "enout" /\ rest[m + 2].kind = "en"
      /\ \A i \in 1..n : rest[m + 2 + i].kind = "out"
  <2>1. ASSUME NEW i \in 1..m PROVE rest[i].kind = "out"
    <3>1. i \in 1..m + 2 + n
      BY <1>5
    <3>2. rest[i] = a[i] /\ a[i] \in OutFields
      <4>1. w[3 + i] = a[i] /\ a[i] \in OutFields
        BY <1>1, <1>2
      <4>2. QED
        BY <1>6, <3>1, <4>1
    <3>3. QED
      BY <3>2 DEF OutFields
  <2>2. ASSUME NEW i \in 1..n PROVE rest[m + 2 + i].kind = "out"
    <3>1. m + 2 + i \in 1..m + 2 + n
      BY <1>5
    <3>2. rest[m + 2 + i] = b[i] /\ b[i] \in OutFields
      <4>1. w[3 + (m + 2 + i)] = b[i] /\ b[i] \in OutFields
        BY <1>1, <1>2
      <4>2. QED
        BY <1>6, <3>1, <4>1
    <3>3. QED
      BY <3>2 DEF OutFields
  <2>3. m + 1 \in 1..m + 2 + n /\ m + 2 \in 1..m + 2 + n
    BY <1>5
  <2>4. rest[m + 1].kind = "enout" /\ rest[m + 2].kind = "en"
    BY <1>1, <1>2, <1>6, <2>3
  <2>5. QED
    BY <2>1, <2>2, <2>4
<1>8. ASSUME NEW i \in 1..m + 2 + n
      PROVE  \/ i \in 1..m \/ i = m + 1 \/ i = m + 2
             \/ \E j \in 1..n : i = m + 2 + j
  <2>1. CASE i > m + 2
    <3>1. i - (m + 2) \in 1..n /\ i = m + 2 + (i - (m + 2))
      BY <1>5, <2>1
    <3>2. QED
      BY <3>1
  <2>2. CASE i <= m + 2
    BY <1>5, <2>2
  <2>3. QED
    BY <1>5, <2>1, <2>2
<1>9. ASSUME NEW i \in 1..m + 2 + n
      PROVE  /\ i = m + 2 <=> ~ IsOutput(rest[i])
             /\ rest[i].kind = "en" => i = m + 2
  <2>1. CASE i \in 1..m
    BY <1>5, <1>7, <2>1 DEF IsOutput
  <2>2. CASE i = m + 1
    BY <1>5, <1>7, <2>2 DEF IsOutput
  <2>3. CASE i = m + 2
    BY <1>5, <1>7, <2>3 DEF IsOutput
  <2>4. CASE \E j \in 1..n : i = m + 2 + j
    <3>1. PICK j \in 1..n : i = m + 2 + j
      BY <2>4
    <3>2. rest[i].kind = "out" /\ i # m + 2
      BY <1>5, <1>7, <3>1
    <3>3. QED
      BY <3>2 DEF IsOutput
  <2>5. QED
    BY <1>8, <2>1, <2>2, <2>3, <2>4
<1>10. Cardinality({i \in DOMAIN rest : IsOutput(rest[i])}) = m + 1 + n
  <2>1. {i \in DOMAIN rest : IsOutput(rest[i])} = (1..m + 2 + n) \ {m + 2}
    BY <1>6, <1>9
  <2>2. m + 2 + n \in Nat /\ m + 2 \in 1..m + 2 + n /\ (m + 2 + n) - 1 = m + 1 + n
    BY <1>5, SMTT(30)
  <2>3. QED
    BY <2>1, <2>2, IntervalSize
<1>11. /\ DOMAIN kinds = 1..3 /\ Len(kinds) = 3
       /\ kinds[1] = "input" /\ kinds[2] = "sequence" /\ kinds[3] = "count"
  BY <1>k
<1>12. \A i \in DOMAIN kinds : w[i].kind = kinds[i]
  <2>1. ASSUME NEW i \in 1..3 PROVE w[i].kind = kinds[i]
    <3>1. i = 1 \/ i = 2 \/ i = 3
      OBVIOUS
    <3>2. QED
      BY <1>1, <1>11, <3>1
  <2>2. QED
    BY <1>11, <2>1
<1>13. w[2].kind # "push" /\ w[Len(w)].kind = "lock" /\ w[3].n = m + 1 + n
  BY <1>1, <1>2, <1>5
<1>14. \A i \in DOMAIN rest : IF rest[i].kind = "en"
                              THEN i > 1 /\ rest[i - 1].kind = "enout"
                              ELSE IsOutput(rest[i])
  <2>1. ASSUME NEW i \in 1..m + 2 + n
        PROVE  IF rest[i].kind = "en" THEN i > 1 /\ rest[i - 1].kind = "enout"
               ELSE IsOutput(rest[i])
    <3>1. CASE i = m + 2
      <4>1. i > 1 /\ i - 1 = m + 1
        BY <1>5, <3>1
      <4>2. QED
        BY <1>7, <3>1, <4>1
    <3>2. CASE i # m + 2
      BY <1>9, <3>2
    <3>3. QED
      BY <3>1, <3>2
  <2>2. QED
    BY <1>6, <2>1
<1>15. ~ \A i \in DOMAIN rest : rest[i].kind # "enout"
  <2>1. m + 1 \in DOMAIN rest
    BY <1>5, <1>6
  <2>2. QED
    BY <1>7, <2>1
<1>16. /\ Len(w) > Len(kinds)
       /\ w[Len(kinds)].n = Cardinality({i \in DOMAIN rest : IsOutput(rest[i])})
       /\ rest = SubSeq(w, Len(kinds) + 1, Len(w) - 1)
  <2>1. Len(w) > Len(kinds)
    BY <1>5, <1>11
  <2>2. w[Len(kinds)].n = m + 1 + n
    BY <1>11, <1>13
  <2>3. rest = SubSeq(w, Len(kinds) + 1, Len(w) - 1)
    BY <1>3, <1>11
  <2>4. QED
    BY <1>10, <2>1, <2>2, <2>3
<1>17. InInput(w) <=> \A i \in DOMAIN rest : rest[i].kind # "enout"
  BY <1>13, <1>15 DEF InInput
<1>18. QED
  BY <1>1, <1>4, <1>12, <1>13, <1>14, <1>16, <1>17, Zenon DEF WellFormed
-----------------------------------------------------------------------------
(* Field by field *)

(* One element more. *)
LEMMA OneMore ==
  ASSUME NEW S, NEW a \in Seq(S), NEW x \in S
  PROVE  /\ a \o <<x>> \in Seq(S) /\ Len(a \o <<x>>) = Len(a) + 1
         /\ \A i \in 1..Len(a) : (a \o <<x>>)[i] = a[i]
         /\ (a \o <<x>>)[Len(a) + 1] = x
  OBVIOUS

InputWhole(s, p, e, u, c, b, l) ==
  <<s, p>> \o <<e>> \o (<<u, c>> \o b \o <<l>>)
OutputWhole(s, u, c, a, o, e, b, l) ==
  (<<s, u, c>> \o a \o <<o>>) \o <<e>> \o (b \o <<l>>)

InInputParts(w, s, p, e, u, c, b, l) ==
  /\ w \in Seq(Fields) /\ Len(w) = 5 + Len(b) + 1 /\ Len(b) \in Nat
  /\ w[1] = s /\ w[2] = p /\ w[3] = e /\ w[4] = u /\ w[5] = c
  /\ \A i \in 1..Len(b) : w[5 + i] = b[i]
  /\ w[5 + Len(b) + 1] = l

InOutputParts(w, s, u, c, a, o, e, b, l) ==
  /\ w \in Seq(Fields) /\ Len(w) = 3 + (Len(a) + 2 + Len(b)) + 1
  /\ Len(a) \in Nat /\ Len(b) \in Nat
  /\ w[1] = s /\ w[2] = u /\ w[3] = c
  /\ \A i \in 1..Len(a) : w[3 + i] = a[i]
  /\ w[3 + (Len(a) + 1)] = o /\ w[3 + (Len(a) + 2)] = e
  /\ \A i \in 1..Len(b) : w[3 + (Len(a) + 2 + i)] = b[i]
  /\ w[3 + (Len(a) + 2 + Len(b)) + 1] = l

(* The extranonce in the input, *)
LEMMA InputFields ==
  ASSUME NEW s \in Fields, NEW p \in Fields, NEW e \in Fields,
         NEW u \in Fields, NEW c \in Fields, NEW l \in Fields,
         NEW b \in Seq(Fields)
  PROVE  InInputParts(InputWhole(s, p, e, u, c, b, l), s, p, e, u, c, b, l)
<1>1. PICK x : x = <<s, p>> \o <<e>>
  OBVIOUS
<1>2. PICK h : h = <<u, c>>
  OBVIOUS
<1>3. PICK y : y = h \o b
  OBVIOUS
<1>4. PICK z : z = y \o <<l>>
  OBVIOUS
<1>5. PICK n : n = Len(b)
  OBVIOUS
<1>6. n \in Nat
  BY <1>5
<1>7. x \in Seq(Fields) /\ Len(x) = 3 /\ x[1] = s /\ x[2] = p /\ x[3] = e
  BY <1>1
<1>8. h \in Seq(Fields) /\ Len(h) = 2 /\ h[1] = u /\ h[2] = c
  BY <1>2
<1>9. /\ y \in Seq(Fields) /\ Len(y) = 2 + n /\ y[1] = u /\ y[2] = c
      /\ \A i \in 1..n : y[2 + i] = b[i]
  <2>1. h \in Seq(Fields)
    BY <1>8
  <2>2. /\ y \in Seq(Fields) /\ Len(y) = Len(h) + Len(b)
        /\ \A i \in 1..Len(h) : y[i] = h[i]
        /\ \A i \in 1..Len(b) : y[Len(h) + i] = b[i]
    BY <1>3, <2>1, Joined
  <2>3. Len(h) = 2 /\ Len(b) = n /\ 1 \in 1..2 /\ 2 \in 1..2
    BY <1>5, <1>8
  <2>4. y[1] = h[1] /\ y[2] = h[2]
    BY <2>2, <2>3
  <2>5. QED
    BY <1>8, <2>2, <2>3, <2>4
<1>10. /\ z \in Seq(Fields) /\ Len(z) = 3 + n /\ z[1] = u /\ z[2] = c
       /\ \A i \in 1..n : z[2 + i] = b[i]
       /\ z[3 + n] = l
  <2>1. y \in Seq(Fields) /\ Len(y) = 2 + n /\ 2 + n \in Nat
    BY <1>6, <1>9
  <2>2. /\ z \in Seq(Fields) /\ Len(z) = 2 + n + 1 /\ \A i \in 1..2 + n : z[i] = y[i]
        /\ z[2 + n + 1] = l
    BY <1>4, <2>1, OneMore
  <2>3. 1 \in 1..2 + n /\ 2 \in 1..2 + n /\ \A i \in 1..n : 2 + i \in 1..2 + n
    BY <1>6
  <2>4. 2 + n + 1 = 3 + n
    BY <1>6
  <2>5. QED
    BY <1>9, <2>2, <2>3, <2>4
<1>11. PICK w : w = x \o z
  OBVIOUS
<1>w. w = InputWhole(s, p, e, u, c, b, l)
  BY <1>11, <1>1, <1>2, <1>3, <1>4 DEF InputWhole
<1>12. /\ w \in Seq(Fields) /\ Len(w) = 3 + (3 + n)
       /\ \A i \in 1..3 : w[i] = x[i]
       /\ \A i \in 1..3 + n : w[3 + i] = z[i]
  <2>1. x \in Seq(Fields) /\ z \in Seq(Fields)
    BY <1>7, <1>10
  <2>2. /\ w \in Seq(Fields) /\ Len(w) = Len(x) + Len(z)
        /\ \A i \in 1..Len(x) : w[i] = x[i]
        /\ \A i \in 1..Len(z) : w[Len(x) + i] = z[i]
    BY <1>11, <2>1, Joined
  <2>3. Len(x) = 3 /\ Len(z) = 3 + n
    BY <1>7, <1>10
  <2>4. QED
    BY <2>2, <2>3
<1>13. w[3 + 1] = u /\ w[3 + 2] = c /\ w[3 + (3 + n)] = l
  <2>1. 1 \in 1..3 + n /\ 2 \in 1..3 + n /\ 3 + n \in 1..3 + n
    BY <1>6
  <2>2. QED
    BY <1>10, <1>12, <2>1
<1>14. ASSUME NEW i \in 1..n PROVE w[5 + i] = b[i]
  <2>1. 2 + i \in 1..3 + n /\ 3 + (2 + i) = 5 + i
    BY <1>6
  <2>2. w[3 + (2 + i)] = z[2 + i]
    BY <1>12, <2>1
  <2>3. QED
    BY <1>10, <2>1, <2>2
<1>15. 3 + (3 + n) = 5 + n + 1
  BY <1>6
<1>16. QED
  BY <1>5, <1>6, <1>7, <1>12, <1>13, <1>14, <1>15, <1>w DEF InInputParts

(* and in an output of its own. *)
LEMMA OutputFields ==
  ASSUME NEW s \in Fields, NEW u \in Fields, NEW c \in Fields,
         NEW o \in Fields, NEW e \in Fields, NEW l \in Fields,
         NEW a \in Seq(Fields), NEW b \in Seq(Fields)
  PROVE  InOutputParts(OutputWhole(s, u, c, a, o, e, b, l), s, u, c, a, o, e, b, l)
<1>1. PICK h, q, m, n : h = <<s, u, c>> /\ q = h \o a /\ m = Len(a) /\ n = Len(b)
  OBVIOUS
<1>2. PICK r : r = q \o <<o>>
  OBVIOUS
<1>3. PICK x : x = r \o <<e>>
  OBVIOUS
<1>4. PICK z : z = b \o <<l>>
  OBVIOUS
<1>5. m \in Nat /\ n \in Nat
  BY <1>1
<1>6. 3 + m \in Nat /\ 4 + m \in Nat /\ 3 + m + 1 = 4 + m /\ 4 + m + 1 = 5 + m
  BY <1>5
<1>7. h \in Seq(Fields) /\ Len(h) = 3 /\ h[1] = s /\ h[2] = u /\ h[3] = c
  BY <1>1
<1>8. /\ q \in Seq(Fields) /\ Len(q) = 3 + m /\ q[1] = s /\ q[2] = u /\ q[3] = c
      /\ \A i \in 1..m : q[3 + i] = a[i]
  <2>1. h \in Seq(Fields) /\ q = h \o a
    BY <1>1, <1>7
  <2>2. /\ q \in Seq(Fields) /\ Len(q) = Len(h) + Len(a)
        /\ \A i \in 1..Len(h) : q[i] = h[i]
        /\ \A i \in 1..Len(a) : q[Len(h) + i] = a[i]
    BY <2>1, Joined
  <2>3. Len(h) = 3 /\ Len(a) = m /\ 1 \in 1..3 /\ 2 \in 1..3 /\ 3 \in 1..3
    BY <1>1, <1>7
  <2>4. q[1] = h[1] /\ q[2] = h[2] /\ q[3] = h[3]
    BY <2>2, <2>3
  <2>5. QED
    BY <1>7, <2>2, <2>3, <2>4
<1>9. /\ r \in Seq(Fields) /\ Len(r) = 4 + m /\ \A i \in 1..3 + m : r[i] = q[i]
      /\ r[3 + m + 1] = o
  <2>1. q \in Seq(Fields) /\ Len(q) = 3 + m
    BY <1>8
  <2>2. /\ r \in Seq(Fields) /\ Len(r) = 3 + m + 1
        /\ r[3 + m + 1] = o /\ \A i \in 1..3 + m : r[i] = q[i]
    BY <1>2, <1>6, <2>1, OneMore
  <2>3. QED
    BY <1>6, <2>2
<1>10. /\ x \in Seq(Fields) /\ Len(x) = 5 + m /\ \A i \in 1..4 + m : x[i] = r[i]
       /\ x[4 + m + 1] = e
  <2>1. r \in Seq(Fields) /\ Len(r) = 4 + m /\ 4 + m + 1 = 5 + m
    BY <1>6, <1>9
  <2>2. /\ x \in Seq(Fields) /\ Len(x) = 4 + m + 1
        /\ x[4 + m + 1] = e /\ \A i \in 1..4 + m : x[i] = r[i]
    BY <1>3, <1>6, <2>1, OneMore, SMTT(30)
  <2>3. QED
    BY <2>1, <2>2
<1>11. /\ z \in Seq(Fields) /\ Len(z) = n + 1 /\ \A i \in 1..n : z[i] = b[i]
       /\ z[n + 1] = l
  <2>1. Len(b) = n
    BY <1>1
  <2>2. /\ z \in Seq(Fields) /\ Len(z) = Len(b) + 1
        /\ z[Len(b) + 1] = l /\ \A i \in 1..Len(b) : z[i] = b[i]
    BY <1>4, OneMore
  <2>3. QED
    BY <2>1, <2>2
<1>12. PICK w : w = x \o z
  OBVIOUS
<1>w. w = OutputWhole(s, u, c, a, o, e, b, l)
  BY <1>12, <1>1, <1>2, <1>3, <1>4 DEF OutputWhole
<1>13. /\ w \in Seq(Fields) /\ Len(w) = (5 + m) + (n + 1)
       /\ \A i \in 1..5 + m : w[i] = x[i]
       /\ \A i \in 1..n + 1 : w[5 + m + i] = z[i]
  <2>1. x \in Seq(Fields) /\ z \in Seq(Fields)
    BY <1>10, <1>11
  <2>2. /\ w \in Seq(Fields) /\ Len(w) = Len(x) + Len(z)
        /\ \A i \in 1..Len(x) : w[i] = x[i]
        /\ \A i \in 1..Len(z) : w[Len(x) + i] = z[i]
    BY <1>12, <2>1, Joined
  <2>3. Len(x) = 5 + m /\ Len(z) = n + 1
    BY <1>10, <1>11
  <2>4. QED
    BY <2>2, <2>3
<1>14. \A i \in 1..3 + m : w[i] = q[i]
  <2>1. ASSUME NEW i \in 1..3 + m PROVE w[i] = q[i]
    <3>1. i \in 1..4 + m /\ i \in 1..5 + m
      BY <1>5
    <3>2. QED
      BY <1>9, <1>10, <1>13, <3>1
  <2>2. QED
    BY <2>1
<1>15. w[1] = s /\ w[2] = u /\ w[3] = c /\ \A i \in 1..m : w[3 + i] = a[i]
  <2>1. /\ 1 \in 1..3 + m /\ 2 \in 1..3 + m /\ 3 \in 1..3 + m
        /\ \A i \in 1..m : 3 + i \in 1..3 + m
    BY <1>5
  <2>2. QED
    BY <1>8, <1>14, <2>1
<1>16. w[3 + (m + 1)] = o /\ w[3 + (m + 2)] = e
  <2>1. /\ 4 + m \in 1..4 + m /\ 4 + m \in 1..5 + m /\ 5 + m \in 1..5 + m
        /\ 3 + m + 1 = 4 + m /\ 3 + (m + 1) = 4 + m
        /\ 4 + m + 1 = 5 + m /\ 3 + (m + 2) = 5 + m
    BY <1>5
  <2>2. w[4 + m] = x[4 + m] /\ x[4 + m] = r[4 + m] /\ r[4 + m] = o
    BY <1>9, <1>10, <1>13, <2>1
  <2>3. w[5 + m] = x[5 + m] /\ x[5 + m] = e
    BY <1>10, <1>13, <2>1
  <2>4. QED
    BY <2>1, <2>2, <2>3
<1>17. ASSUME NEW i \in 1..n PROVE w[3 + (m + 2 + i)] = b[i]
  <2>1. i \in 1..n + 1 /\ 3 + (m + 2 + i) = 5 + m + i
    BY <1>5
  <2>2. QED
    BY <1>11, <1>13, <2>1
<1>18. w[3 + (m + 2 + n) + 1] = l
  <2>1. n + 1 \in 1..n + 1 /\ 3 + (m + 2 + n) + 1 = 5 + m + (n + 1)
    BY <1>5
  <2>2. w[5 + m + (n + 1)] = z[n + 1]
    BY <1>13, <2>1
  <2>3. QED
    BY <1>11, <2>1, <2>2
<1>19. (5 + m) + (n + 1) = 3 + (m + 2 + n) + 1
  BY <1>5
<1>20. QED
  BY <1>1, <1>5, <1>13, <1>15, <1>16, <1>17, <1>18, <1>19, <1>w
     DEF InOutputParts

(* A transaction of this shape is one. *)
LEMMA ShapeWellFormed ==
  ASSUME NEW tx, NEW len, NEW en \in BOOLEAN, NEW a, NEW b,
         Shape(tx, len, en, a, b)
  PROVE  WellFormed(tx)
<1>1. /\ a \in Seq(Fields) /\ b \in Seq(Fields) /\ len \in Nat
      /\ a \in Seq(OutFields) /\ b \in Seq(OutFields)
  BY ShapeTypes DEF Shape
<1>2. PICK s, u, l, o, p, e, c, d :
        /\ s = CbStart(len) /\ u = SequenceNo /\ l = LockTime /\ o = EnOutput
        /\ p = EnPush /\ e = Field("en", 12, 0)
        /\ c = Count(Len(b)) /\ d = Count(Len(a) + 1 + Len(b))
  OBVIOUS
<1>3. Len(a) \in Nat /\ Len(b) \in Nat /\ Len(a) + 1 + Len(b) \in Nat
  BY <1>1
<1>4. e \in Fields
  BY <1>2 DEF Field, Fields, Kinds
<1>5. /\ s \in Fields /\ u \in Fields /\ l \in Fields /\ o \in Fields
      /\ c \in Fields /\ d \in Fields /\ p \in Fields
  BY <1>1, <1>2, <1>3, FieldTypes
<1>6. /\ s.kind = "input" /\ u.kind = "sequence" /\ l.kind = "lock"
      /\ o.kind = "enout" /\ p.kind = "push" /\ e.kind = "en"
      /\ c.kind = "count" /\ d.kind = "count"
      /\ c.n = Len(b) /\ d.n = Len(a) + 1 + Len(b)
  BY <1>2 DEF CbStart, SequenceNo, LockTime, EnOutput, EnPush, Count, Field
<1>7. PICK w : w = Whole(tx)
  OBVIOUS
<1>8. CASE en
  <2>1. w = InputWhole(s, p, e, u, c, b, l)
    BY <1>2, <1>7, <1>8 DEF Shape, Whole, InputWhole
  <2>2. /\ w \in Seq(Fields) /\ Len(w) = 5 + Len(b) + 1
        /\ w[1] = s /\ w[2] = p /\ w[3] = e /\ w[4] = u /\ w[5] = c
        /\ \A i \in 1..Len(b) : w[5 + i] = b[i]
        /\ w[5 + Len(b) + 1] = l
    <3>1. b \in Seq(Fields)
      BY <1>1
    <3>2. /\ s \in Fields /\ p \in Fields /\ e \in Fields /\ u \in Fields
          /\ c \in Fields /\ l \in Fields
      BY <1>4, <1>5
    <3>3. InInputParts(w, s, p, e, u, c, b, l)
      BY <2>1, <3>1, <3>2, InputFields
    <3>4. QED
      BY <3>3 DEF InInputParts
  <2>3. QED
    BY <1>1, <1>6, <1>7, <2>2, InputForm
<1>9. CASE ~ en
  <2>1. w = OutputWhole(s, u, d, a, o, e, b, l)
    BY <1>2, <1>7, <1>9 DEF Shape, Whole, OutputWhole
  <2>2. /\ w \in Seq(Fields) /\ Len(w) = 3 + (Len(a) + 2 + Len(b)) + 1
        /\ w[1] = s /\ w[2] = u /\ w[3] = d
        /\ \A i \in 1..Len(a) : w[3 + i] = a[i]
        /\ w[3 + (Len(a) + 1)] = o /\ w[3 + (Len(a) + 2)] = e
        /\ \A i \in 1..Len(b) : w[3 + (Len(a) + 2 + i)] = b[i]
        /\ w[3 + (Len(a) + 2 + Len(b)) + 1] = l
    <3>1. a \in Seq(Fields) /\ b \in Seq(Fields)
      BY <1>1
    <3>2. /\ s \in Fields /\ u \in Fields /\ d \in Fields /\ o \in Fields
          /\ e \in Fields /\ l \in Fields
      BY <1>4, <1>5
    <3>3. InOutputParts(w, s, u, d, a, o, e, b, l)
      BY <2>1, <3>1, <3>2, OutputFields
    <3>4. QED
      BY <3>3 DEF InOutputParts
  <2>3. QED
    BY <1>1, <1>6, <1>7, <2>2, OutputForm
<1>10. QED
  BY <1>8, <1>9

-----------------------------------------------------------------------------
(* The first pass *)

OutType == [len : 2..64, value : Nat]

ScanType ==
  [k : Nat, room : Nat, room1 : Nat, mval : Nat, m : Nat, c1cnt : Nat,
   c1full : BOOLEAN, en_done : BOOLEAN, size : Nat]

(* The output o fits the loop variables s and the value v; it fits coinb1 of
   the special type (sp).                                                   *)
Takes(v, o, s) == o.len + 9 <= s.room /\ s.mval + o.value <= v
First(sp, o, s) == sp /\ ~ s.c1full /\ o.len + 9 <= s.room1

Counted(sp, v, o, s) ==
  IF ~ Takes(v, o, s) THEN [s EXCEPT !.k = @ + 1]
  ELSE [s EXCEPT !.k = @ + 1, !.m = @ + 1, !.room = @ - (o.len + 9),
                 !.mval = @ + o.value,
                 !.room1 = IF First(sp, o, s) THEN @ - (o.len + 9) ELSE @,
                 !.c1cnt = IF First(sp, o, s) THEN @ + 1 ELSE @,
                 !.c1full = ~ First(sp, o, s)]

(* The loop ends before the end of the list, r being s after o. *)
Stops(v, o, s, r) == Takes(v, o, s) /\ (r.room < 30 \/ r.mval >= v)

(* One round, variable by variable. *)
LEMMA CountedIs ==
  ASSUME NEW sp \in BOOLEAN, NEW v \in Nat, NEW o \in OutType, NEW s \in ScanType,
         NEW r, r = Counted(sp, v, o, s)
  PROVE  /\ r \in ScanType
         /\ r.k = s.k + 1 /\ r.size = s.size /\ r.en_done = s.en_done
         /\ ~ Takes(v, o, s) =>
              /\ r.room = s.room /\ r.mval = s.mval /\ r.m = s.m
              /\ r.room1 = s.room1 /\ r.c1cnt = s.c1cnt /\ r.c1full = s.c1full
         /\ Takes(v, o, s) =>
              /\ r.room = s.room - (o.len + 9) /\ r.mval = s.mval + o.value
              /\ r.m = s.m + 1 /\ (r.c1full <=> ~ First(sp, o, s))
         /\ Takes(v, o, s) /\ First(sp, o, s) =>
              r.room1 = s.room1 - (o.len + 9) /\ r.c1cnt = s.c1cnt + 1
         /\ Takes(v, o, s) /\ ~ First(sp, o, s) =>
              r.room1 = s.room1 /\ r.c1cnt = s.c1cnt
<1>1. CASE ~ Takes(v, o, s)
  <2>1. r = [s EXCEPT !.k = s.k + 1]
    BY <1>1 DEF Counted
  <2>2. QED
    BY <1>1, <2>1 DEF ScanType
<1>2. CASE Takes(v, o, s) /\ First(sp, o, s)
  <2>1. r = [k |-> s.k + 1, room |-> s.room - (o.len + 9),
             room1 |-> s.room1 - (o.len + 9), mval |-> s.mval + o.value,
             m |-> s.m + 1, c1cnt |-> s.c1cnt + 1, c1full |-> FALSE,
             en_done |-> s.en_done, size |-> s.size]
    BY <1>2 DEF Counted, ScanType
  <2>2. /\ s.k + 1 \in Nat /\ s.room - (o.len + 9) \in Nat
        /\ s.room1 - (o.len + 9) \in Nat /\ s.mval + o.value \in Nat
        /\ s.m + 1 \in Nat /\ s.c1cnt + 1 \in Nat
    BY <1>2 DEF Takes, First, ScanType, OutType
  <2>3. s.en_done \in BOOLEAN /\ s.size \in Nat
    BY DEF ScanType
  <2>4. r \in ScanType
    BY <2>1, <2>2, <2>3 DEF ScanType
  <2>5. QED
    BY <1>2, <2>1, <2>4
<1>3. CASE Takes(v, o, s) /\ ~ First(sp, o, s)
  <2>1. r = [k |-> s.k + 1, room |-> s.room - (o.len + 9),
             room1 |-> s.room1, mval |-> s.mval + o.value,
             m |-> s.m + 1, c1cnt |-> s.c1cnt, c1full |-> TRUE,
             en_done |-> s.en_done, size |-> s.size]
    BY <1>3 DEF Counted, ScanType
  <2>2. /\ s.k + 1 \in Nat /\ s.room - (o.len + 9) \in Nat
        /\ s.mval + o.value \in Nat /\ s.m + 1 \in Nat
    BY <1>3 DEF Takes, ScanType, OutType
  <2>3. /\ s.en_done \in BOOLEAN /\ s.size \in Nat /\ s.room1 \in Nat
        /\ s.c1cnt \in Nat
    BY DEF ScanType
  <2>4. r \in ScanType
    BY <2>1, <2>2, <2>3 DEF ScanType
  <2>5. QED
    BY <1>3, <2>1, <2>4
<1>4. QED
  BY <1>1, <1>2, <1>3

(* What holds of the loop variables s after j outputs, s0 being the first. *)
Point(s, j, sp, v, s0) ==
  /\ s \in ScanType /\ s.k = j /\ s.size = s0.size
  /\ s.mval <= v
  /\ s.room + 11 * s.m <= s0.size
  /\ s.c1cnt <= j /\ (s.c1full => s.c1cnt + 1 <= j)
  /\ sp /\ ~ s.c1full => s0.room1 - s.room1 = s0.size - s.room

(* It holds after one more, and some variables only grow. *)
LEMMA PointNext ==
  ASSUME NEW sp \in BOOLEAN, NEW v \in Nat, NEW o \in OutType,
         NEW s0 \in ScanType, NEW j \in Nat, NEW s, Point(s, j, sp, v, s0),
         NEW r, r = Counted(sp, v, o, s)
  PROVE  /\ Point(r, j + 1, sp, v, s0)
         /\ s.m <= r.m
         /\ s.c1full => r.c1full /\ r.c1cnt = s.c1cnt
<1>1. s \in ScanType
  BY DEF Point
<1>2. /\ r \in ScanType
      /\ r.k = s.k + 1 /\ r.size = s.size /\ r.en_done = s.en_done
      /\ ~ Takes(v, o, s) =>
           /\ r.room = s.room /\ r.mval = s.mval /\ r.m = s.m
           /\ r.room1 = s.room1 /\ r.c1cnt = s.c1cnt /\ r.c1full = s.c1full
      /\ Takes(v, o, s) =>
           /\ r.room = s.room - (o.len + 9) /\ r.mval = s.mval + o.value
           /\ r.m = s.m + 1 /\ (r.c1full <=> ~ First(sp, o, s))
      /\ Takes(v, o, s) /\ First(sp, o, s) =>
           r.room1 = s.room1 - (o.len + 9) /\ r.c1cnt = s.c1cnt + 1
      /\ Takes(v, o, s) /\ ~ First(sp, o, s) =>
           r.room1 = s.room1 /\ r.c1cnt = s.c1cnt
  BY <1>1, CountedIs
<1>3. /\ s.room \in Nat /\ s.room1 \in Nat /\ s.mval \in Nat /\ s.m \in Nat
      /\ s.c1cnt \in Nat /\ s.c1full \in BOOLEAN /\ s0.room1 \in Nat
      /\ s0.size \in Nat /\ r.c1full \in BOOLEAN /\ o.len \in 2..64 /\ o.value \in Nat
  BY <1>1, <1>2 DEF ScanType, OutType
<1>4. CASE ~ Takes(v, o, s)
  BY <1>2, <1>3, <1>4 DEF Point
<1>5. CASE Takes(v, o, s) /\ First(sp, o, s)
  <2>1. sp /\ ~ s.c1full /\ ~ r.c1full
    BY <1>2, <1>5 DEF First
  <2>2. o.len + 9 <= s.room /\ s.mval + o.value <= v
    BY <1>5 DEF Takes
  <2>3. /\ r.room = s.room - (o.len + 9) /\ r.mval = s.mval + o.value
        /\ r.m = s.m + 1 /\ r.room1 = s.room1 - (o.len + 9)
        /\ r.c1cnt = s.c1cnt + 1 /\ r.k = s.k + 1 /\ r.size = s.size
    BY <1>2, <1>5
  <2>4. /\ s.k = j /\ s.size = s0.size /\ s.mval <= v
        /\ s.room + 11 * s.m <= s0.size /\ s.c1cnt <= j
        /\ s0.room1 - s.room1 = s0.size - s.room
    BY <2>1 DEF Point
  <2>5. r.room + 11 * r.m <= s0.size
    <3>1. s.room \in Nat /\ s.m \in Nat /\ s0.size \in Nat /\ o.len \in 2..64
      BY <1>3
    <3>2. r.room = s.room - (o.len + 9) /\ r.m = s.m + 1
      BY <2>3
    <3>3. s.room + 11 * s.m <= s0.size
      BY <2>4
    <3>4. QED
      BY <3>1, <3>2, <3>3
  <2>6. s0.room1 - r.room1 = s0.size - r.room
    <3>1. /\ s0.room1 \in Nat /\ s.room1 \in Nat /\ s0.size \in Nat
          /\ s.room \in Nat /\ o.len \in 2..64
      BY <1>3
    <3>2. r.room = s.room - (o.len + 9) /\ r.room1 = s.room1 - (o.len + 9)
      BY <2>3
    <3>3. s0.room1 - s.room1 = s0.size - s.room
      BY <2>4
    <3>4. QED
      BY <3>1, <3>2, <3>3
  <2>7. r.c1cnt <= j + 1 /\ s.m <= r.m /\ r.mval <= v
    <3>1. s.c1cnt \in Nat /\ s.m \in Nat
      BY <1>3
    <3>2. s.c1cnt <= j /\ r.c1cnt = s.c1cnt + 1 /\ r.m = s.m + 1
      BY <2>3, <2>4
    <3>3. r.c1cnt <= j + 1 /\ s.m <= r.m
      BY <3>1, <3>2
    <3>4. r.mval <= v
      BY <2>2, <2>3
    <3>5. QED
      BY <3>3, <3>4
  <2>8. QED
    BY <1>2, <2>1, <2>3, <2>4, <2>5, <2>6, <2>7 DEF Point
<1>6. CASE Takes(v, o, s) /\ ~ First(sp, o, s)
  <2>1. r.c1full
    BY <1>2, <1>6
  <2>2. o.len + 9 <= s.room /\ s.mval + o.value <= v
    BY <1>6 DEF Takes
  <2>3. /\ r.room = s.room - (o.len + 9) /\ r.mval = s.mval + o.value
        /\ r.m = s.m + 1 /\ r.c1cnt = s.c1cnt /\ r.k = s.k + 1
        /\ r.size = s.size
    BY <1>2, <1>6
  <2>4. /\ s.k = j /\ s.size = s0.size
        /\ s.room + 11 * s.m <= s0.size /\ s.c1cnt <= j
    BY DEF Point
  <2>5. r.room + 11 * r.m <= s0.size
    <3>1. s.room \in Nat /\ s.m \in Nat /\ s0.size \in Nat /\ o.len \in 2..64
      BY <1>3
    <3>2. r.room = s.room - (o.len + 9) /\ r.m = s.m + 1
      BY <2>3
    <3>3. s.room + 11 * s.m <= s0.size
      BY <2>4
    <3>4. QED
      BY <3>1, <3>2, <3>3
  <2>6. r.c1cnt + 1 <= j + 1 /\ r.c1cnt <= j + 1 /\ s.m <= r.m
    <3>1. s.c1cnt \in Nat /\ s.m \in Nat
      BY <1>3
    <3>2. s.c1cnt <= j /\ r.c1cnt = s.c1cnt /\ r.m = s.m + 1
      BY <2>3, <2>4
    <3>3. QED
      BY <3>1, <3>2
  <2>7. r.mval <= v
    BY <2>2, <2>3
  <2>8. QED
    BY <1>2, <2>1, <2>3, <2>4, <2>5, <2>6, <2>7 DEF Point
<1>7. QED
  BY <1>4, <1>5, <1>6

(* tr holds the loop variables of the first n rounds over the list os. *)
Walk(tr, n, sp, v, os, s0) ==
  /\ n \in 0..Len(os)
  /\ tr[0] = s0
  /\ \A j \in 0..n : Point(tr[j], j, sp, v, s0)
  /\ \A j \in 0..n - 1 : tr[j + 1] = Counted(sp, v, os[j + 1], tr[j])
  /\ \A j \in 0..n - 1 : Stops(v, os[j + 1], tr[j], tr[j + 1]) => j + 1 = n
  /\ \A j \in 0..n : /\ tr[j].m <= tr[n].m
                     /\ tr[j].c1full => /\ tr[n].c1full
                                        /\ tr[n].c1cnt = tr[j].c1cnt

(* The loop does not end after these rounds. *)
GoesOn(tr, n, v, os) ==
  /\ n < Len(os)
  /\ \A j \in 0..n - 1 : ~ Stops(v, os[j + 1], tr[j], tr[j + 1])

(* No round yet. *)
LEMMA WalkStarts ==
  ASSUME NEW sp \in BOOLEAN, NEW v \in Nat, NEW os \in Seq(OutType),
         NEW s0, Point(s0, 0, sp, v, s0)
  PROVE  Walk([j \in {0} |-> s0], 0, sp, v, os, s0)
<1>1. PICK tr : tr = [j \in {0} |-> s0]
  OBVIOUS
<1>2. tr[0] = s0
  BY <1>1
<1>3. 0..0 = {0} /\ 0..0 - 1 = {} /\ 0 \in 0..Len(os)
  OBVIOUS
<1>4. s0.m \in Nat
  BY DEF Point, ScanType
<1>5. QED
  BY <1>1, <1>2, <1>3, <1>4 DEF Walk

(* One more round. *)
LEMMA WalkGoesOn ==
  ASSUME NEW sp \in BOOLEAN, NEW v \in Nat, NEW os \in Seq(OutType),
         NEW s0 \in ScanType, NEW tr, NEW n, Walk(tr, n, sp, v, os, s0),
         GoesOn(tr, n, v, os)
  PROVE  \E q : /\ Walk(q, n + 1, sp, v, os, s0)
                /\ q[n] = tr[n]
                /\ q[n + 1] = Counted(sp, v, os[n + 1], tr[n])
                /\ \A j \in 0..n : q[j] = tr[j]
<1>1. n \in Nat /\ n + 1 \in 1..Len(os) /\ os[n + 1] \in OutType
  BY DEF Walk, GoesOn
<1>2. PICK o : o = os[n + 1]
  OBVIOUS
<1>3. PICK r : r = Counted(sp, v, o, tr[n])
  OBVIOUS
<1>4. PICK q : q = [j \in 0..n + 1 |-> IF j <= n THEN tr[j] ELSE r]
  OBVIOUS
<1>5. (\A j \in 0..n : q[j] = tr[j]) /\ q[n + 1] = r
  BY <1>1, <1>4
<1>6. Point(tr[n], n, sp, v, s0)
  BY <1>1 DEF Walk
<1>7. /\ Point(r, n + 1, sp, v, s0)
      /\ tr[n].m <= r.m
      /\ tr[n].c1full => r.c1full /\ r.c1cnt = tr[n].c1cnt
  BY <1>1, <1>2, <1>3, <1>6, PointNext
<1>8. n \in 0..n /\ 0 \in 0..n
  BY <1>1
<1>9. ASSUME NEW j \in 0..n + 1 PROVE j \in 0..n \/ j = n + 1
  BY <1>1
<1>10. ASSUME NEW j \in 0..n
       PROVE  /\ j + 1 \in 0..n + 1
              /\ j # n => j \in 0..n - 1 /\ j + 1 \in 0..n /\ j + 1 # n + 1
  BY <1>1
<1>11. \A j \in 0..n + 1 : Point(q[j], j, sp, v, s0)
  BY <1>5, <1>7, <1>9 DEF Walk
<1>12. ASSUME NEW j \in 0..n PROVE q[j + 1] = Counted(sp, v, os[j + 1], q[j])
  <2>1. CASE j = n
    BY <1>2, <1>3, <1>5, <1>8, <2>1
  <2>2. CASE j # n
    BY <1>5, <1>10, <2>2 DEF Walk
  <2>3. QED
    BY <2>1, <2>2
<1>13. ASSUME NEW j \in 0..n, Stops(v, os[j + 1], q[j], q[j + 1])
       PROVE  j + 1 = n + 1
  BY <1>5, <1>10, <1>13 DEF GoesOn
<1>14. /\ \A j \in 0..n : tr[j] \in ScanType
       /\ r \in ScanType
  BY <1>7 DEF Walk, Point
<1>15. ASSUME NEW j \in 0..n
       PROVE  /\ tr[j].m <= r.m
              /\ tr[j].c1full => r.c1full /\ r.c1cnt = tr[j].c1cnt
  <2>1. /\ tr[j].m <= tr[n].m
        /\ tr[j].c1full => tr[n].c1full /\ tr[n].c1cnt = tr[j].c1cnt
    BY DEF Walk
  <2>2. tr[j].m \in Nat /\ tr[n].m \in Nat /\ r.m \in Nat
    BY <1>8, <1>14 DEF ScanType
  <2>3. tr[j].m <= r.m
    BY <1>7, <2>1, <2>2
  <2>4. QED
    BY <1>7, <2>1, <2>3
<1>16. r.m <= r.m
  BY <1>14 DEF ScanType
<1>17. \A j \in 0..n + 1 : /\ q[j].m <= q[n + 1].m
                           /\ q[j].c1full => /\ q[n + 1].c1full
                                             /\ q[n + 1].c1cnt = q[j].c1cnt
  BY <1>5, <1>9, <1>15, <1>16
<1>18. n + 1 \in 0..Len(os) /\ (n + 1) - 1 = n
  BY <1>1
<1>19. q[0] = s0
  BY <1>5, <1>8 DEF Walk
<1>20. Walk(q, n + 1, sp, v, os, s0)
  BY <1>11, <1>12, <1>13, <1>17, <1>18, <1>19 DEF Walk
<1>21. QED
  BY <1>2, <1>3, <1>5, <1>8, <1>20

-----------------------------------------------------------------------------
(* The second pass *)

Out(o) == Output(o.len, o.value)

(* a holds the outputs of os at the places ia, which come in order and not
   behind place k.                                                          *)
Chosen(a, ia, os, k) ==
  /\ a \in Seq(OutFields) /\ ia \in Seq(1..k) /\ Len(a) = Len(ia)
  /\ \A i \in 1..Len(ia) : a[i] = Out(os[ia[i]])
  /\ \A i, j \in 1..Len(ia) : i < j => ia[i] < ia[j]

(* None is chosen. *)
LEMMA ChosenNone == \A os, k : Chosen(<<>>, <<>>, os, k)
<1>1. /\ <<>> \in Seq(OutFields) /\ \A k : <<>> \in Seq(1..k)
      /\ Len(<<>>) = 0 /\ 1..0 = {}
  OBVIOUS
<1>2. QED
  BY <1>1 DEF Chosen

(* The next one is not chosen. *)
LEMMA ChosenSkip ==
  ASSUME NEW a, NEW ia, NEW os, NEW k \in Nat, Chosen(a, ia, os, k)
  PROVE  Chosen(a, ia, os, k + 1)
<1>1. 1..k \subseteq 1..k + 1
  OBVIOUS
<1>2. ia \in Seq(1..k)
  BY DEF Chosen
<1>3. ia \in Seq(1..k + 1)
  BY <1>1, <1>2
<1>4. QED
  BY <1>3 DEF Chosen

(* The field of an output of the list. *)
LEMMA OutIs ==
  ASSUME NEW o \in OutType
  PROVE  /\ Out(o) \in OutFields /\ Out(o) \in Fields
         /\ Out(o).bytes = o.len + 9 /\ Amount(Out(o)) = o.value
         /\ o.len + 9 \in Int /\ o.value \in Int
<1>1. o.len \in Nat /\ o.value \in Int /\ o.len + 9 \in Int
  BY DEF OutType
<1>2. Out(o) \in OutFields /\ Out(o) \in Fields
  BY <1>1, FieldTypes DEF Out
<1>3. Out(o).bytes = o.len + 9 /\ Amount(Out(o)) = o.value
  BY DEF Out, Output, Field, Amount, IsOutput
<1>4. QED
  BY <1>1, <1>2, <1>3

(* A sequence of outputs with one more. *)
LEMMA OneMoreOutput ==
  ASSUME NEW a \in Seq(OutFields), NEW o \in OutType
  PROVE  /\ Append(a, Out(o)) = a \o <<Out(o)>>
         /\ Append(a, Out(o)) \in Seq(OutFields)
         /\ Len(Append(a, Out(o))) = Len(a) + 1 /\ Len(a) \in Nat
         /\ Money(Append(a, Out(o))) = Money(a) + o.value
         /\ SumBytes(Append(a, Out(o))) = SumBytes(a) + (o.len + 9)
         /\ Money(a) \in Int /\ SumBytes(a) \in Int
<1>1. PICK f : f = Out(o)
  OBVIOUS
<1>2. f \in OutFields /\ f \in Fields /\ f.bytes = o.len + 9 /\ Amount(f) = o.value
      /\ o.len + 9 \in Int /\ o.value \in Int
  BY <1>1, OutIs
<1>3. Append(a, f) = a \o <<f>> /\ Append(a, f) \in Seq(OutFields)
      /\ Len(Append(a, f)) = Len(a) + 1 /\ Len(a) \in Nat
  BY <1>2
<1>4. a \in Seq(Fields) /\ <<f>> \in Seq(Fields)
  BY <1>2 DEF OutFields
<1>5. SumBytes(<<f>>) = f.bytes /\ Money(<<f>>) = Amount(f)
  BY <1>2, FewFields
<1>6. /\ Money(a \o <<f>>) = Money(a) + Money(<<f>>)
      /\ SumBytes(a \o <<f>>) = SumBytes(a) + SumBytes(<<f>>)
      /\ Money(a) \in Int /\ SumBytes(a) \in Int
  BY <1>4, FieldSums
<1>7. QED
  BY <1>1, <1>2, <1>3, <1>5, <1>6

(* The next one is chosen. *)
LEMMA ChosenMore ==
  ASSUME NEW a, NEW ia, NEW os \in Seq(OutType), NEW k \in Nat,
         k + 1 <= Len(os), Chosen(a, ia, os, k)
  PROVE  Chosen(Append(a, Out(os[k + 1])), Append(ia, k + 1), os, k + 1)
<1>1. PICK o : o = os[k + 1]
  OBVIOUS
<1>2. o \in OutType
  BY <1>1
<1>3. PICK x, ix : x = Append(a, Out(o)) /\ ix = Append(ia, k + 1)
  OBVIOUS
<1>4. a \in Seq(OutFields) /\ ia \in Seq(1..k) /\ Len(a) = Len(ia)
  BY DEF Chosen
<1>5. PICK n : n = Len(ia)
  OBVIOUS
<1>6. n \in Nat
  BY <1>4, <1>5
<1>7. \A i \in 1..n : ia[i] \in 1..k
  BY <1>4, <1>5
<1>8. x \in Seq(OutFields) /\ Len(x) = n + 1
  BY <1>2, <1>3, <1>4, <1>5, OneMoreOutput
<1>9. (\A i \in 1..n : x[i] = a[i]) /\ x[n + 1] = Out(o)
  BY <1>3, <1>4, <1>5
<1>10. ia \in Seq(1..k + 1) /\ k + 1 \in 1..k + 1
  <2>1. 1..k \subseteq 1..k + 1
    OBVIOUS
  <2>2. QED
    BY <1>4, <2>1
<1>11. /\ ix \in Seq(1..k + 1) /\ Len(ix) = n + 1 /\ ix[n + 1] = k + 1
       /\ \A i \in 1..n : ix[i] = ia[i]
  BY <1>3, <1>5, <1>10
<1>12. ASSUME NEW i \in 1..n + 1 PROVE i \in 1..n \/ i = n + 1
  BY <1>6
<1>13. ASSUME NEW i \in 1..n + 1 PROVE x[i] = Out(os[ix[i]])
  BY <1>1, <1>5, <1>9, <1>11, <1>12 DEF Chosen
<1>14. ASSUME NEW i \in 1..n + 1, NEW j \in 1..n + 1, i < j PROVE ix[i] < ix[j]
  <2>1. i \in 1..n
    BY <1>6, <1>14
  <2>2. CASE j = n + 1
    BY <1>7, <1>11, <2>1, <2>2
  <2>3. CASE j \in 1..n
    <3>1. ia[i] < ia[j]
      BY <1>5, <1>14, <2>1, <2>3 DEF Chosen
    <3>2. QED
      BY <1>11, <2>1, <2>3, <3>1
  <2>4. QED
    BY <1>12, <2>2, <2>3
<1>15. Chosen(x, ix, os, k + 1)
  BY <1>8, <1>11, <1>13, <1>14 DEF Chosen
<1>16. QED
  BY <1>1, <1>3, <1>15

(* The loop variables before the first pass. *)
Fresh(s0, sp, v) ==
  s0.mval = 0 /\ s0.m = 0 /\ s0.room = s0.size /\ Point(s0, 0, sp, v, s0)

(* What is written when the second pass has seen k outputs, tr being the walk
   of the first one: the outputs a into coinb1 and b into coinb2.            *)
Written(tr, n, sp, os, s0, k, a, ia, b, ib) ==
  /\ Chosen(a, ia, os, k) /\ Chosen(b, ib, os, k)
  /\ \A i \in 1..Len(ia), j \in 1..Len(ib) : ia[i] < ib[j]
  /\ ~ sp => a = <<>> /\ ia = <<>>
  /\ sp /\ k <= tr[n].c1cnt => b = <<>> /\ ib = <<>>
  /\ Money(a) + Money(b) = tr[k].mval
  /\ SumBytes(a) + SumBytes(b) = s0.size - tr[k].room
  /\ Len(a) + Len(b) = tr[k].m
  /\ sp => SumBytes(a) <= s0.room1

(* Nothing yet. *)
LEMMA NothingWritten ==
  ASSUME NEW sp \in BOOLEAN, NEW v \in Nat, NEW os \in Seq(OutType), NEW s0,
         Fresh(s0, sp, v), NEW tr, NEW n, Walk(tr, n, sp, v, os, s0)
  PROVE  Written(tr, n, sp, os, s0, 0, <<>>, <<>>, <<>>, <<>>)
<1>1. tr[0] = s0 /\ s0.mval = 0 /\ s0.m = 0 /\ s0.room = s0.size
  BY DEF Walk, Fresh
<1>2. s0.size \in Nat /\ s0.room1 \in Nat
  BY DEF Fresh, Point, ScanType
<1>3. Money(<<>>) = 0 /\ SumBytes(<<>>) = 0 /\ Len(<<>>) = 0
  BY FewFields
<1>4. Chosen(<<>>, <<>>, os, 0)
  BY ChosenNone
<1>5. \A i \in 1..Len(<<>>), j \in 1..Len(<<>>) : <<>>[i] < <<>>[j]
  OBVIOUS
<1>6. /\ 0 + 0 = tr[0].mval /\ 0 + 0 = s0.size - tr[0].room /\ 0 + 0 = tr[0].m
      /\ 0 <= s0.room1
  BY <1>1, <1>2
<1>7. QED
  BY <1>3, <1>4, <1>5, <1>6 DEF Written

(* Coinb1 is not full for the first pass while the second one fills it. *)
LEMMA RoomInCoinb1 ==
  ASSUME NEW sp \in BOOLEAN, NEW v \in Nat, NEW os \in Seq(OutType),
         NEW s0 \in ScanType, NEW tr, NEW n, Walk(tr, n, sp, v, os, s0),
         NEW j \in 0..n, sp, j <= tr[n].c1cnt
  PROVE  /\ ~ tr[j].c1full
         /\ s0.size - tr[j].room <= s0.room1
<1>1. n \in Nat /\ j \in Nat /\ n \in 0..n
  BY DEF Walk
<1>2. Point(tr[j], j, sp, v, s0) /\ tr[n] \in ScanType
  BY <1>1 DEF Walk, Point
<1>3. tr[n].c1cnt \in Nat
  BY <1>2 DEF ScanType
<1>4. tr[j].c1full => tr[n].c1cnt = tr[j].c1cnt /\ tr[j].c1cnt + 1 <= j
  BY <1>2 DEF Walk, Point
<1>5. ~ tr[j].c1full
  BY <1>1, <1>3, <1>4
<1>6. s0.room1 - tr[j].room1 = s0.size - tr[j].room /\ tr[j] \in ScanType
  BY <1>2, <1>5 DEF Point
<1>7. tr[j].room1 \in Nat /\ s0.room1 \in Nat
  BY <1>6 DEF ScanType
<1>8. QED
  BY <1>5, <1>6, <1>7

(* What is written after one more round. *)
NextWritten(tr, n, sp, v, os, s0, k, a, ia, b, ib) ==
  /\ ~ Takes(v, os[k + 1], tr[k]) =>
       Written(tr, n, sp, os, s0, k + 1, a, ia, b, ib)
  /\ Takes(v, os[k + 1], tr[k]) /\ sp /\ k < tr[n].c1cnt =>
       Written(tr, n, sp, os, s0, k + 1, Append(a, Out(os[k + 1])),
               Append(ia, k + 1), b, ib)
  /\ Takes(v, os[k + 1], tr[k]) /\ ~ (sp /\ k < tr[n].c1cnt) =>
       Written(tr, n, sp, os, s0, k + 1, a, ia, Append(b, Out(os[k + 1])),
               Append(ib, k + 1))

(* The output is skipped, or goes into either half. *)
LEMMA WriteOne ==
  ASSUME NEW sp \in BOOLEAN, NEW v \in Nat, NEW os \in Seq(OutType),
         NEW s0 \in ScanType, NEW tr, NEW n, Walk(tr, n, sp, v, os, s0),
         NEW k \in 0..n - 1, NEW a, NEW ia, NEW b, NEW ib,
         Written(tr, n, sp, os, s0, k, a, ia, b, ib)
  PROVE  NextWritten(tr, n, sp, v, os, s0, k, a, ia, b, ib)
<1> USE DEF NextWritten
<1>1. /\ n \in Nat /\ k \in Nat /\ k + 1 <= Len(os) /\ os[k + 1] \in OutType
      /\ k \in 0..n /\ k + 1 \in 0..n /\ n \in 0..n
  BY DEF Walk
<1>2. PICK o, s, r : o = os[k + 1] /\ s = tr[k] /\ r = tr[k + 1]
  OBVIOUS
<1>3. /\ o \in OutType /\ s \in ScanType /\ r \in ScanType /\ tr[n] \in ScanType
      /\ r = Counted(sp, v, o, s)
  BY <1>1, <1>2 DEF Walk, Point
<1>4. /\ ~ Takes(v, o, s) => r.room = s.room /\ r.mval = s.mval /\ r.m = s.m
      /\ Takes(v, o, s) =>
           /\ r.room = s.room - (o.len + 9) /\ r.mval = s.mval + o.value
           /\ r.m = s.m + 1
  BY <1>3, CountedIs
<1>5. PICK c : c = tr[n].c1cnt
  OBVIOUS
<1>6. c \in Nat
  BY <1>3, <1>5 DEF ScanType
<1>7. /\ s.room \in Nat /\ s.mval \in Nat /\ s.m \in Nat /\ s0.size \in Nat
      /\ s0.room1 \in Nat /\ o.len \in 2..64 /\ o.value \in Nat /\ r.room \in Nat
  BY <1>3 DEF ScanType, OutType
<1>8. /\ Chosen(a, ia, os, k) /\ Chosen(b, ib, os, k)
      /\ \A i \in 1..Len(ia), j \in 1..Len(ib) : ia[i] < ib[j]
      /\ ~ sp => a = <<>> /\ ia = <<>>
      /\ sp /\ k <= c => b = <<>> /\ ib = <<>>
      /\ Money(a) + Money(b) = s.mval
      /\ SumBytes(a) + SumBytes(b) = s0.size - s.room
      /\ Len(a) + Len(b) = s.m
      /\ sp => SumBytes(a) <= s0.room1
  BY <1>2, <1>5 DEF Written
<1>9. /\ a \in Seq(OutFields) /\ b \in Seq(OutFields)
      /\ ia \in Seq(1..k) /\ ib \in Seq(1..k)
  BY <1>8 DEF Chosen
<1>10. Chosen(a, ia, os, k + 1) /\ Chosen(b, ib, os, k + 1)
  BY <1>1, <1>8, ChosenSkip
<1>11. PICK f : f = Out(o)
  OBVIOUS
<1>12. /\ Append(a, f) \in Seq(OutFields) /\ Len(Append(a, f)) = Len(a) + 1
       /\ Money(Append(a, f)) = Money(a) + o.value
       /\ SumBytes(Append(a, f)) = SumBytes(a) + (o.len + 9)
       /\ Money(a) \in Int /\ SumBytes(a) \in Int /\ Len(a) \in Nat
  BY <1>3, <1>9, <1>11, OneMoreOutput
<1>13. /\ Append(b, f) \in Seq(OutFields) /\ Len(Append(b, f)) = Len(b) + 1
       /\ Money(Append(b, f)) = Money(b) + o.value
       /\ SumBytes(Append(b, f)) = SumBytes(b) + (o.len + 9)
       /\ Money(b) \in Int /\ SumBytes(b) \in Int /\ Len(b) \in Nat
  BY <1>3, <1>9, <1>11, OneMoreOutput
<1>14. Chosen(Append(a, f), Append(ia, k + 1), os, k + 1)
       /\ Chosen(Append(b, f), Append(ib, k + 1), os, k + 1)
  BY <1>1, <1>2, <1>8, <1>11, ChosenMore
<1>15. k + 1 <= c => k <= c
  BY <1>1, <1>6
<1>n. PICK ma, mb, sa, sb, la, lb, y, z :
        /\ ma = Money(a) /\ mb = Money(b) /\ sa = SumBytes(a)
        /\ sb = SumBytes(b) /\ la = Len(a) /\ lb = Len(b)
        /\ y = o.len + 9 /\ z = o.value
  OBVIOUS
<1>t. /\ ma \in Int /\ mb \in Int /\ sa \in Int /\ sb \in Int /\ la \in Int
      /\ lb \in Int /\ y \in Int /\ z \in Int
  BY <1>3, <1>n, <1>12, <1>13, OutIs
<1>s. ma + mb = s.mval /\ sa + sb = s0.size - s.room /\ la + lb = s.m
  BY <1>8, <1>n
<1>r. Takes(v, o, s) => r.room = s.room - y /\ r.mval = s.mval + z /\ r.m = s.m + 1
  BY <1>4, <1>n
<1>a. /\ Len(Append(a, f)) = la + 1 /\ Money(Append(a, f)) = ma + z
      /\ SumBytes(Append(a, f)) = sa + y
  BY <1>n, <1>12
<1>b. /\ Len(Append(b, f)) = lb + 1 /\ Money(Append(b, f)) = mb + z
      /\ SumBytes(Append(b, f)) = sb + y
  BY <1>n, <1>13
<1>i. /\ s.mval \in Int /\ s.m \in Int /\ s.room \in Int /\ s0.size \in Int
  BY <1>7
<1>x. ASSUME Takes(v, o, s)
      PROVE  /\ ma + z + mb = r.mval /\ ma + (mb + z) = r.mval
             /\ sa + y + sb = s0.size - r.room /\ sa + (sb + y) = s0.size - r.room
             /\ la + 1 + lb = r.m /\ la + (lb + 1) = r.m
  <2>1. r.room = s.room - y /\ r.mval = s.mval + z /\ r.m = s.m + 1
    BY <1>r, <1>x
  <2>2. s.mval = ma + mb /\ s.m = la + lb
    BY <1>s
  <2>3. s.room = s0.size - (sa + sb)
    BY <1>i, <1>s, <1>t
  <2>4. ma + z + mb = r.mval /\ ma + (mb + z) = r.mval
    BY <1>t, <2>1, <2>2
  <2>5. la + 1 + lb = r.m /\ la + (lb + 1) = r.m
    BY <1>t, <2>1, <2>2
  <2>6. sa + y + sb = s0.size - r.room /\ sa + (sb + y) = s0.size - r.room
    BY <1>i, <1>t, <2>1, <2>3, SMTT(30)
  <2>7. QED
    BY <2>4, <2>5, <2>6
<1>16. CASE ~ Takes(v, o, s)
  <2>1. /\ Money(a) + Money(b) = r.mval /\ Len(a) + Len(b) = r.m
        /\ SumBytes(a) + SumBytes(b) = s0.size - r.room
    BY <1>4, <1>8, <1>16
  <2>2. Written(tr, n, sp, os, s0, k + 1, a, ia, b, ib)
    BY <1>2, <1>5, <1>8, <1>10, <1>15, <2>1 DEF Written
  <2>3. QED
    BY <1>2, <1>16, <2>2
<1>17. CASE Takes(v, o, s) /\ sp /\ k < c
  <2>1. b = <<>> /\ ib = <<>>
    BY <1>1, <1>6, <1>8, <1>17
  <2>2. k + 1 <= c
    BY <1>1, <1>6, <1>17
  <2>3. s0.size - r.room <= s0.room1
    BY <1>1, <1>2, <1>5, <1>17, <2>2, RoomInCoinb1
  <2>4. /\ Money(Append(a, f)) + Money(b) = r.mval
        /\ SumBytes(Append(a, f)) + SumBytes(b) = s0.size - r.room
        /\ Len(Append(a, f)) + Len(b) = r.m
    BY <1>17, <1>a, <1>n, <1>x
  <2>7. SumBytes(Append(a, f)) <= s0.room1
    <3>1. SumBytes(b) = 0
      BY <2>1, FewFields
    <3>2. sa + y + sb = s0.size - r.room /\ sb = 0
      BY <1>17, <1>n, <1>x, <3>1
    <3>3. sa + y <= s0.room1
      BY <1>t, <2>3, <3>2
    <3>4. QED
      BY <1>a, <3>3
  <2>8. \A i \in 1..Len(Append(ia, k + 1)), j \in 1..Len(ib) :
          Append(ia, k + 1)[i] < ib[j]
    BY <2>1
  <2>9. Written(tr, n, sp, os, s0, k + 1, Append(a, f), Append(ia, k + 1), b, ib)
    BY <1>2, <1>5, <1>10, <1>14, <1>17, <2>1, <2>4, <2>7, <2>8
       DEF Written
  <2>10. QED
    BY <1>2, <1>5, <1>11, <1>17, <2>9
<1>18. CASE Takes(v, o, s) /\ ~ (sp /\ k < c)
  <2>1. /\ Money(a) + Money(Append(b, f)) = r.mval
        /\ SumBytes(a) + SumBytes(Append(b, f)) = s0.size - r.room
        /\ Len(a) + Len(Append(b, f)) = r.m
    BY <1>18, <1>b, <1>n, <1>x
  <2>4. ASSUME NEW i \in 1..Len(ia), NEW j \in 1..Len(Append(ib, k + 1))
        PROVE  ia[i] < Append(ib, k + 1)[j]
    <3>1. CASE j \in 1..Len(ib)
      <4>1. Append(ib, k + 1)[j] = ib[j]
        BY <1>9, <3>1
      <4>2. QED
        BY <1>8, <3>1, <4>1
    <3>2. CASE j = Len(ib) + 1
      <4>1. Append(ib, k + 1)[j] = k + 1
        BY <1>9, <3>2
      <4>2. ia[i] \in 1..k
        BY <1>9
      <4>3. QED
        BY <1>1, <4>1, <4>2
    <3>3. j \in 1..Len(ib) + 1 /\ Len(ib) \in Nat
      BY <1>9
    <3>4. QED
      BY <3>1, <3>2, <3>3
  <2>5. ~ (sp /\ k + 1 <= c)
    BY <1>1, <1>6, <1>18
  <2>6. Written(tr, n, sp, os, s0, k + 1, a, ia, Append(b, f), Append(ib, k + 1))
    BY <1>2, <1>5, <1>8, <1>10, <1>14, <2>1, <2>4, <2>5 DEF Written
  <2>7. QED
    BY <1>2, <1>5, <1>11, <1>18, <2>6
<1>19. QED
  BY <1>2, <1>5, <1>16, <1>17, <1>18

-----------------------------------------------------------------------------
(* The halves while they grow *)

(* Sequences put together. *)
LEMMA Tuples ==
  /\ \A f, g : <<f>> \o <<g>> = <<f, g>>
  /\ \A f, g, h : <<f, g>> \o <<h>> = <<f, g, h>>
  /\ \A S : \A s \in Seq(S) : s \o <<>> = s /\ <<>> \o s = s
<1>1. ASSUME NEW f, NEW g PROVE <<f>> \o <<g>> = <<f, g>>
  <2>1. PICK S : S = {f, g}
    OBVIOUS
  <2>2. f \in S /\ g \in S
    BY <2>1
  <2>3. <<f, g>> \in Seq(S) /\ <<f>> \o <<g>> \in Seq(S)
    BY <2>2
  <2>4. Len(<<f, g>>) = 2 /\ Len(<<f>> \o <<g>>) = 2
    OBVIOUS
  <2>5. (<<f>> \o <<g>>)[1] = f /\ (<<f>> \o <<g>>)[2] = g
    OBVIOUS
  <2>6. \A i \in 1..2 : <<f, g>>[i] = (<<f>> \o <<g>>)[i]
    BY <2>5
  <2>7. QED
    BY <2>3, <2>4, <2>6, SameSeq
<1>2. ASSUME NEW f, NEW g, NEW h PROVE <<f, g>> \o <<h>> = <<f, g, h>>
  <2>1. PICK S : S = {f, g, h}
    OBVIOUS
  <2>2. f \in S /\ g \in S /\ h \in S
    BY <2>1
  <2>3. PICK x, y : x = <<f, g, h>> /\ y = <<f, g>> \o <<h>>
    OBVIOUS
  <2>4. <<f, g>> \in Seq(S) /\ <<h>> \in Seq(S) /\ x \in Seq(S)
    BY <2>2, <2>3
  <2>5. y \in Seq(S)
    BY <2>3, <2>4
  <2>6. Len(x) = 3 /\ Len(y) = 3
    BY <2>3
  <2>7. y[1] = f /\ y[2] = g /\ y[3] = h
    BY <2>3
  <2>8. \A i \in 1..3 : x[i] = y[i]
    BY <2>3, <2>7
  <2>9. x = y
    BY <2>4, <2>5, <2>6, <2>8, SameSeq
  <2>10. QED
    BY <2>3, <2>9
<1>3. ASSUME NEW S, NEW s \in Seq(S) PROVE s \o <<>> = s /\ <<>> \o s = s
  <2>1. <<>> \in Seq(S) /\ Len(<<>>) = 0 /\ Len(s) \in Nat
    OBVIOUS
  <2>2. PICK x, y : x = s \o <<>> /\ y = <<>> \o s
    OBVIOUS
  <2>3. /\ x \in Seq(S) /\ Len(x) = Len(s) + Len(<<>>)
        /\ \A i \in 1..Len(s) : x[i] = s[i]
    BY <2>1, <2>2, Joined
  <2>4. /\ y \in Seq(S) /\ Len(y) = Len(<<>>) + Len(s)
        /\ \A i \in 1..Len(s) : y[Len(<<>>) + i] = s[i]
    BY <2>1, <2>2, Joined
  <2>5. Len(x) = Len(s) /\ Len(y) = Len(s)
    BY <2>1, <2>3, <2>4
  <2>6. \A i \in 1..Len(s) : y[i] = s[i]
    <3>1. \A i \in 1..Len(s) : Len(<<>>) + i = i
      BY <2>1
    <3>2. QED
      BY <2>4, <3>1
  <2>7. x = s
    BY <2>3, <2>5, SameSeq
  <2>8. y = s
    BY <2>4, <2>5, <2>6, SameSeq
  <2>9. QED
    BY <2>2, <2>7, <2>8
<1>4. QED
  BY <1>1, <1>2, <1>3

(* It does not matter in which order. *)
LEMMA Assoc ==
  ASSUME NEW a \in Seq(Fields), NEW b \in Seq(Fields), NEW c \in Seq(Fields)
  PROVE  (a \o b) \o c = a \o (b \o c)
<1>1. PICK x, y : x = a \o b /\ y = b \o c
  OBVIOUS
<1>2. PICK l, r : l = x \o c /\ r = a \o y
  OBVIOUS
<1>3. PICK m, n, k : m = Len(a) /\ n = Len(b) /\ k = Len(c)
  OBVIOUS
<1>4. m \in Nat /\ n \in Nat /\ k \in Nat
  BY <1>3
<1>5. /\ x \in Seq(Fields) /\ Len(x) = m + n
      /\ \A i \in 1..m : x[i] = a[i]
      /\ \A i \in 1..n : x[m + i] = b[i]
  BY <1>1, <1>3, Joined
<1>6. /\ y \in Seq(Fields) /\ Len(y) = n + k
      /\ \A i \in 1..n : y[i] = b[i]
      /\ \A i \in 1..k : y[n + i] = c[i]
  BY <1>1, <1>3, Joined
<1>7. /\ l \in Seq(Fields) /\ Len(l) = (m + n) + k
      /\ \A i \in 1..m + n : l[i] = x[i]
      /\ \A i \in 1..k : l[(m + n) + i] = c[i]
  <2>1. /\ l \in Seq(Fields) /\ Len(l) = Len(x) + Len(c)
        /\ \A i \in 1..Len(x) : l[i] = x[i]
        /\ \A i \in 1..Len(c) : l[Len(x) + i] = c[i]
    <3>1. x \in Seq(Fields)
      BY <1>5
    <3>2. QED
      BY <1>2, <3>1, Joined
  <2>2. QED
    BY <1>3, <1>5, <2>1
<1>8. /\ r \in Seq(Fields) /\ Len(r) = m + (n + k)
      /\ \A i \in 1..m : r[i] = a[i]
      /\ \A i \in 1..n + k : r[m + i] = y[i]
  <2>1. /\ r \in Seq(Fields) /\ Len(r) = Len(a) + Len(y)
        /\ \A i \in 1..Len(a) : r[i] = a[i]
        /\ \A i \in 1..Len(y) : r[Len(a) + i] = y[i]
    <3>1. y \in Seq(Fields)
      BY <1>6
    <3>2. QED
      BY <1>2, <3>1, Joined
  <2>2. QED
    BY <1>3, <1>6, <2>1
<1>9. ASSUME NEW i \in 1..(m + n) + k PROVE l[i] = r[i]
  <2>1. CASE i \in 1..m
    <3>1. i \in 1..m + n
      BY <1>4, <2>1
    <3>2. QED
      BY <1>5, <1>7, <1>8, <2>1, <3>1
  <2>2. CASE \E j \in 1..n : i = m + j
    <3>1. PICK j \in 1..n : i = m + j
      BY <2>2
    <3>2. m + j \in 1..m + n /\ j \in 1..n + k
      BY <1>4
    <3>3. l[i] = b[j]
      BY <1>5, <1>7, <3>1, <3>2
    <3>4. r[i] = b[j]
      BY <1>6, <1>8, <3>1, <3>2
    <3>5. QED
      BY <3>3, <3>4
  <2>3. CASE \E j \in 1..k : i = (m + n) + j
    <3>1. PICK j \in 1..k : i = (m + n) + j
      BY <2>3
    <3>2. n + j \in 1..n + k /\ (m + n) + j = m + (n + j)
      BY <1>4
    <3>3. l[i] = c[j]
      BY <1>7, <3>1
    <3>4. r[i] = c[j]
      BY <1>6, <1>8, <3>1, <3>2
    <3>5. QED
      BY <3>3, <3>4
  <2>4. m + n \in Nat
    BY <1>4
  <2>5. i \in 1..m + n \/ \E j \in 1..k : i = (m + n) + j
    BY <1>4, <2>4, Halves
  <2>6. QED
    BY <1>4, <2>1, <2>2, <2>3, <2>5, Halves
<1>10. (m + n) + k = m + (n + k)
  BY <1>4
<1>11. l = r
  BY <1>7, <1>8, <1>9, <1>10, SameSeq
<1>12. QED
  BY <1>1, <1>2, <1>11

(* The same of four sequences. *)
Regroups(a, b, c, d) == (a \o b) \o (c \o d) = a \o (b \o c) \o d

LEMMA AssocFour ==
  ASSUME NEW a \in Seq(Fields), NEW b \in Seq(Fields), NEW c \in Seq(Fields),
         NEW d \in Seq(Fields)
  PROVE  Regroups(a, b, c, d)
<1>1. PICK x, y : x = c \o d /\ y = b \o c
  OBVIOUS
<1>2. x \in Seq(Fields) /\ y \in Seq(Fields)
  BY <1>1
<1>3. (a \o b) \o x = a \o (b \o x)
  BY <1>2, Assoc, SMTT(30)
<1>4. b \o x = y \o d
  BY <1>1, Assoc
<1>5. (a \o y) \o d = a \o (y \o d)
  BY <1>2, Assoc, SMTT(30)
<1>6. QED
  BY <1>1, <1>3, <1>4, <1>5 DEF Regroups

(* The extranonce is in the input of the payout type t. *)
EnOf(len, t) == len <= 85 /\ t # 2

EnTail(d) == IF d THEN <<EnOutput>> ELSE <<>>

(* The halves of the payout type t, with n outputs announced, a and b written,
   and the output of the extranonce if d.                                    *)
Form(tx, len, t, d, n, a, b) ==
  /\ EnOf(len, t) => /\ tx.c1 = <<CbStart(len), EnPush>>
                     /\ tx.c2 = <<SequenceNo, Count(n)>> \o b
  /\ ~ EnOf(len, t) => /\ tx.c1 = <<CbStart(len), SequenceNo, Count(n)>>
                                    \o a \o EnTail(d)
                       /\ tx.c2 = b

(* The fields in front of the outputs. *)
LEMMA HeadFields ==
  ASSUME NEW len \in Nat, NEW n \in Nat
  PROVE  /\ <<CbStart(len), EnPush>> \in Seq(Fields)
         /\ <<SequenceNo, Count(n)>> \in Seq(Fields)
         /\ <<CbStart(len), SequenceNo, Count(n)>> \in Seq(Fields)
         /\ <<CbStart(len), SequenceNo>> \in Seq(Fields)
         /\ <<EnOutput>> \in Seq(Fields) /\ <<LockTime>> \in Seq(Fields)
         /\ \A d \in BOOLEAN : EnTail(d) \in Seq(Fields)
         /\ OutFields \subseteq Fields
<1>1. /\ CbStart(len) \in Fields /\ EnPush \in Fields /\ SequenceNo \in Fields
      /\ EnOutput \in Fields /\ LockTime \in Fields /\ Count(n) \in Fields
      /\ OutFields \subseteq Fields
  BY FieldTypes
<1>2. /\ <<EnOutput>> \in Seq(Fields) /\ <<LockTime>> \in Seq(Fields)
      /\ <<>> \in Seq(Fields)
  BY <1>1
<1>3. \A d \in BOOLEAN : EnTail(d) \in Seq(Fields)
  BY <1>2 DEF EnTail
<1>4. /\ <<CbStart(len), EnPush>> \in Seq(Fields)
      /\ <<SequenceNo, Count(n)>> \in Seq(Fields)
      /\ <<CbStart(len), SequenceNo, Count(n)>> \in Seq(Fields)
      /\ <<CbStart(len), SequenceNo>> \in Seq(Fields)
  BY <1>1
<1>5. QED
  BY <1>1, <1>2, <1>3, <1>4

(* The halves when the count n has just been written. *)
Declared(tx, len, t, n) ==
  /\ EnOf(len, t) => /\ tx.c1 = Opening(len, TRUE)
                     /\ tx.c2 = <<SequenceNo, Count(n)>>
  /\ ~ EnOf(len, t) => /\ tx.c1 = Opening(len, FALSE) \o <<Count(n)>>
                                     \o EnTail(t # 2)
                       /\ tx.c2 = <<>>

(* They have the form with no output. *)
LEMMA FormStarts ==
  ASSUME NEW tx, NEW len \in Nat, NEW t, NEW n \in Nat, Declared(tx, len, t, n)
  PROVE  Form(tx, len, t, ~ EnOf(len, t) /\ t # 2, n, <<>>, <<>>)
<1> USE DEF Declared
<1>1. /\ <<SequenceNo, Count(n)>> \in Seq(Fields)
      /\ <<CbStart(len), SequenceNo, Count(n)>> \in Seq(Fields)
  BY HeadFields
<1>2. CASE EnOf(len, t)
  <2>1. tx.c1 = <<CbStart(len), EnPush>>
    BY <1>2, Tuples DEF Opening
  <2>2. tx.c2 = <<SequenceNo, Count(n)>> \o <<>>
    BY <1>1, <1>2, Tuples
  <2>3. QED
    BY <1>2, <2>1, <2>2 DEF Form
<1>3. CASE ~ EnOf(len, t)
  <2>1. Opening(len, FALSE) \o <<Count(n)>> = <<CbStart(len), SequenceNo, Count(n)>>
    BY Tuples, ZenonT(60) DEF Opening
  <2>2. <<CbStart(len), SequenceNo, Count(n)>> \o <<>>
          = <<CbStart(len), SequenceNo, Count(n)>>
    BY <1>1, Tuples
  <2>3. tx.c1 = <<CbStart(len), SequenceNo, Count(n)>> \o <<>> \o EnTail(t # 2)
    BY <1>3, <2>1, <2>2
  <2>4. EnTail(t # 2) = EnTail(~ EnOf(len, t) /\ t # 2)
    BY <1>3 DEF EnTail
  <2>5. QED
    BY <1>3, <2>3, <2>4 DEF Form
<1>4. QED
  BY <1>2, <1>3

(* Append as a concatenation. *)
LEMMA AppendIs ==
  ASSUME NEW S, NEW s \in Seq(S), NEW f \in S
  PROVE  Append(s, f) = s \o <<f>> /\ Append(s, f) \in Seq(S)
         /\ <<f>> \in Seq(S)
  OBVIOUS

(* An output for coinb1, before that of the extranonce. *)
LEMMA FormFirst ==
  ASSUME NEW tx, NEW x, NEW len \in Nat, NEW t, NEW n \in Nat, NEW f \in Fields,
         NEW a \in Seq(Fields), NEW b, ~ EnOf(len, t),
         Form(tx, len, t, FALSE, n, a, b),
         x.c1 = Append(tx.c1, f), x.c2 = tx.c2
  PROVE  Form(x, len, t, FALSE, n, Append(a, f), b)
<1>1. PICK h : h = <<CbStart(len), SequenceNo, Count(n)>>
  OBVIOUS
<1>2. h \in Seq(Fields)
  BY <1>1, HeadFields
<1>3. PICK y, g : y = h \o a /\ g = <<f>>
  OBVIOUS
<1>4. y \in Seq(Fields) /\ g \in Seq(Fields)
  BY <1>2, <1>3
<1>5. tx.c1 = y
  <2>1. tx.c1 = y \o <<>>
    BY <1>1, <1>3 DEF Form, EnTail
  <2>2. QED
    BY <1>4, <2>1, Tuples
<1>6. /\ Append(y, f) = y \o g /\ Append(a, f) = a \o g
      /\ Append(a, f) \in Seq(Fields)
  <2>1. y \in Seq(Fields)
    BY <1>4
  <2>2. Append(y, f) = y \o <<f>>
    BY <2>1, AppendIs
  <2>3. Append(a, f) = a \o <<f>> /\ Append(a, f) \in Seq(Fields)
    BY AppendIs
  <2>4. QED
    BY <1>3, <2>2, <2>3
<1>7. y \o g = h \o (a \o g)
  BY <1>2, <1>3, <1>4, Assoc
<1>8. PICK z : z = h \o Append(a, f)
  OBVIOUS
<1>9. z \in Seq(Fields)
  BY <1>2, <1>6, <1>8
<1>10. x.c1 = z
  BY <1>5, <1>6, <1>7, <1>8
<1>11. z = z \o <<>>
  BY <1>9, Tuples
<1>12. x.c1 = h \o Append(a, f) \o EnTail(FALSE)
  BY <1>8, <1>10, <1>11 DEF EnTail
<1>13. QED
  BY <1>1, <1>12 DEF Form

(* An output for coinb2, with that of the extranonce before it or without. *)
LEMMA FormSecond ==
  ASSUME NEW tx, NEW x, NEW len \in Nat, NEW t, NEW n \in Nat, NEW f \in Fields,
         NEW a \in Seq(Fields), NEW b \in Seq(Fields), NEW d \in BOOLEAN,
         NEW en \in BOOLEAN, en => ~ d /\ ~ EnOf(len, t),
         tx.c1 \in Seq(Fields), Form(tx, len, t, d, n, a, b),
         x.c1 = tx.c1 \o EnTail(en), x.c2 = Append(tx.c2, f)
  PROVE  Form(x, len, t, d \/ en, n, a, Append(b, f))
<1>1. PICK h, u : /\ h = <<CbStart(len), SequenceNo, Count(n)>>
                  /\ u = <<SequenceNo, Count(n)>>
  OBVIOUS
<1>2. h \in Seq(Fields) /\ u \in Seq(Fields)
  BY <1>1, HeadFields
<1>3. PICK g : g = <<f>>
  OBVIOUS
<1>4. g \in Seq(Fields) /\ Append(b, f) = b \o g
  BY <1>3
<1>5. CASE EnOf(len, t)
  <2>1. x.c1 = tx.c1
    BY <1>5, Tuples DEF EnTail
  <2>2. PICK y : y = u \o b
    OBVIOUS
  <2>3. y \in Seq(Fields) /\ tx.c2 = y
    BY <1>1, <1>2, <1>5, <2>2 DEF Form
  <2>4. Append(y, f) = y \o g
    <3>1. y \in Seq(Fields)
      BY <2>3
    <3>2. Append(y, f) = y \o <<f>>
      BY <3>1, AppendIs
    <3>3. QED
      BY <1>3, <3>2
  <2>5. y \o g = u \o (b \o g)
    <3>1. u \in Seq(Fields) /\ b \in Seq(Fields) /\ g \in Seq(Fields)
      BY <1>2, <1>4
    <3>2. (u \o b) \o g = u \o (b \o g)
      BY <3>1, Assoc
    <3>3. QED
      BY <2>2, <3>2
  <2>6. x.c2 = u \o Append(b, f)
    BY <1>4, <2>3, <2>4, <2>5
  <2>7. QED
    BY <1>1, <1>5, <2>1, <2>6 DEF Form
<1>6. CASE ~ EnOf(len, t)
  <2>1. tx.c1 = h \o a \o EnTail(d) /\ tx.c2 = b
    BY <1>1, <1>6 DEF Form
  <2>2. PICK y : y = h \o a
    OBVIOUS
  <2>3. y \in Seq(Fields)
    BY <1>2, <2>2
  <2>4. CASE en
    <3>1. tx.c1 = y
      BY <2>1, <2>2, <2>3, <2>4, Tuples DEF EnTail
    <3>2. x.c1 = y \o EnTail(d \/ en)
      BY <2>4, <3>1 DEF EnTail
    <3>3. QED
      BY <1>1, <1>6, <2>1, <2>2, <3>2 DEF Form
  <2>5. CASE ~ en
    <3>1. x.c1 = tx.c1
      BY <2>5, Tuples DEF EnTail
    <3>2. EnTail(d \/ en) = EnTail(d)
      BY <2>5 DEF EnTail
    <3>3. x.c1 = h \o a \o EnTail(d \/ en)
      BY <2>1, <3>1, <3>2
    <3>4. QED
      BY <1>1, <1>6, <2>1, <3>3 DEF Form
  <2>6. QED
    BY <2>4, <2>5
<1>7. QED
  BY <1>5, <1>6

(* n announces the outputs in a and b, those of pool and witness, and that of
   the extranonce; x is tx with the outputs p and q and the lock time.       *)
Numbers(n, a, b, en) == n = Len(a) + Len(b) + (IF en THEN 2 ELSE 3)
Closes(x, tx, en, d, p, q) ==
  /\ x.c1 = tx.c1 \o EnTail(~ en /\ ~ d)
  /\ x.c2 = tx.c2 \o <<p, q, LockTime>>

(* The rest is written: the transaction is complete. *)
LEMMA FormEnds ==
  ASSUME NEW tx, NEW x, NEW len \in Nat, NEW t, NEW n \in Nat, NEW d \in BOOLEAN,
         NEW a \in Seq(OutFields), NEW b \in Seq(OutFields),
         NEW p \in OutFields, NEW q \in OutFields, EnOf(len, t) \in BOOLEAN,
         EnOf(len, t) => a = <<>>, Numbers(n, a, b, EnOf(len, t)),
         tx.c1 \in Seq(Fields), Form(tx, len, t, d, n, a, b),
         Closes(x, tx, EnOf(len, t), d, p, q)
  PROVE  Shape(x, len, EnOf(len, t), a, b \o <<p, q>>)
<1>n. n = Len(a) + Len(b) + (IF EnOf(len, t) THEN 2 ELSE 3)
  BY DEF Numbers
<1>x. /\ x.c1 = tx.c1 \o EnTail(~ EnOf(len, t) /\ ~ d)
      /\ x.c2 = tx.c2 \o <<p, q, LockTime>>
  BY DEF Closes
<1>1. PICK h, u : /\ h = <<CbStart(len), SequenceNo, Count(n)>>
                  /\ u = <<SequenceNo, Count(n)>>
  OBVIOUS
<1>2. h \in Seq(Fields) /\ u \in Seq(Fields) /\ <<LockTime>> \in Seq(Fields)
      /\ OutFields \subseteq Fields
  BY <1>1, HeadFields
<1>3. PICK g, l : g = <<p, q>> /\ l = <<LockTime>>
  OBVIOUS
<1>4. g \o l = <<p, q, LockTime>>
  BY <1>3, Tuples
<1>5. g \in Seq(OutFields) /\ g \in Seq(Fields) /\ Len(g) = 2 /\ l \in Seq(Fields)
      /\ a \in Seq(Fields) /\ b \in Seq(Fields)
  BY <1>2, <1>3
<1>6. PICK c : c = b \o g
  OBVIOUS
<1>7. c \in Seq(OutFields) /\ Len(c) = Len(b) + 2 /\ Len(b) \in Nat /\ Len(a) \in Nat
      /\ c \in Seq(Fields)
  <2>1. g \in Seq(OutFields) /\ Len(g) = 2
    BY <1>5
  <2>2. c \in Seq(OutFields) /\ Len(c) = Len(b) + Len(g) /\ Len(b) \in Nat
    BY <1>6, <2>1, Joined
  <2>3. Len(a) \in Nat
    OBVIOUS
  <2>4. c \in Seq(Fields)
    BY <1>2, <2>2
  <2>5. QED
    BY <2>1, <2>2, <2>3, <2>4
<1>8. b \o (g \o l) = c \o l
  BY <1>5, <1>6, Assoc
<1>9. CASE EnOf(len, t)
  <2>1. tx.c1 = <<CbStart(len), EnPush>> /\ tx.c2 = u \o b
    BY <1>1, <1>9 DEF Form
  <2>2. x.c1 = <<CbStart(len), EnPush>>
    BY <1>9, <1>x, <2>1, Tuples DEF EnTail
  <2>3. a = <<>> /\ n = Len(c)
    BY <1>7, <1>9, <1>n
  <2>4. x.c2 = (u \o b) \o (g \o l)
    BY <1>4, <1>x, <2>1
  <2>5. (u \o b) \o (g \o l) = u \o (b \o g) \o l
    <3>1. Regroups(u, b, g, l)
      BY <1>2, <1>5, AssocFour
    <3>2. QED
      BY <3>1 DEF Regroups
  <2>8. x.c2 = u \o c \o l
    BY <1>6, <2>4, <2>5
  <2>9. Shape(x, len, EnOf(len, t), a, c)
    BY <1>1, <1>3, <1>7, <1>9, <2>2, <2>3, <2>8 DEF Shape
  <2>10. QED
    BY <1>3, <1>6, <2>9
<1>10. CASE ~ EnOf(len, t)
  <2>1. tx.c1 = h \o a \o EnTail(d) /\ tx.c2 = b
    BY <1>1, <1>10 DEF Form
  <2>2. PICK y : y = h \o a
    OBVIOUS
  <2>3. y \in Seq(Fields)
    BY <1>2, <1>5, <2>2
  <2>4. x.c1 = y \o <<EnOutput>>
    <3>1. CASE d
      BY <1>10, <1>x, <2>1, <2>2, <3>1, Tuples DEF EnTail
    <3>2. CASE ~ d
      BY <1>10, <1>x, <2>1, <2>2, <2>3, <3>2, Tuples DEF EnTail
    <3>3. QED
      BY <3>1, <3>2
  <2>5. n = Len(a) + 1 + Len(c)
    BY <1>7, <1>10, <1>n
  <2>6. x.c2 = c \o l
    BY <1>4, <1>8, <1>x, <2>1
  <2>7. Shape(x, len, EnOf(len, t), a, c)
    BY <1>1, <1>3, <1>7, <1>10, <2>2, <2>4, <2>5, <2>6 DEF Shape
  <2>8. QED
    BY <1>3, <1>6, <2>7
<1>11. QED
  BY <1>9, <1>10

-----------------------------------------------------------------------------
(* Numbers of bytes *)

(* The tags take no more than what is announced for them. *)
LEMMA TagsFit ==
  ASSUME NEW t0 \in Nat, NEW t1 \in Nat, NEW space \in Nat, NEW r,
         r = Tags(t0, t1, space)
  PROVE  r.push \in Nat /\ r.second \in Nat /\ TagBytes(t0, r.second) <= r.push
         /\ TagBytes(t0, r.second) \in Nat
<1>1. PICK all : all = t0 + (IF t0 + t1 > 0 THEN 1 ELSE 0)
                        + t1 + (IF t1 > 0 THEN 1 ELSE 0)
  OBVIOUS
<1>2. all \in Nat
  BY <1>1
<1>3. \/ /\ all - space <= 0 /\ r.push = all /\ r.second = t1
      \/ /\ all - space > 0 /\ t1 > all - space /\ r.push = space
         /\ r.second = t1 - (all - space)
      \/ /\ all - space > 0 /\ t1 > 0 /\ r.push = all - 1 /\ r.second = 0
      \/ /\ t1 = 0 /\ r.push = all /\ r.second = 0
  BY <1>1, <1>2 DEF Tags
<1>4. CASE r.push = all /\ r.second = t1
  <2>1. TagBytes(t0, t1) = all
    BY <1>1 DEF TagBytes
  <2>2. QED
    BY <1>2, <1>4, <2>1
<1>5. CASE /\ all - space > 0 /\ t1 > all - space /\ r.push = space
           /\ r.second = t1 - (all - space)
  <2>1. r.second \in Nat /\ r.second > 0 /\ t1 > 0
    BY <1>2, <1>5
  <2>2. all = t0 + 1 + t1 + 1
    BY <1>1, <2>1
  <2>3. TagBytes(t0, r.second) = (IF t0 > 0 THEN t0 + 1 ELSE 1) + (r.second + 1)
    BY <2>1 DEF TagBytes
  <2>4. TagBytes(t0, r.second) = space
    BY <1>2, <1>5, <2>2, <2>3
  <2>5. QED
    BY <1>5, <2>1, <2>4
<1>6. CASE t1 > 0 /\ r.push = all - 1 /\ r.second = 0
  <2>1. all = t0 + 1 + t1 + 1
    BY <1>1, <1>6
  <2>2. TagBytes(t0, r.second) = IF t0 > 0 THEN t0 + 1 ELSE 0
    BY <1>6 DEF TagBytes
  <2>3. QED
    BY <1>6, <2>1, <2>2
<1>7. QED
  BY <1>3, <1>4, <1>5, <1>6

(* The input takes at most 116 bytes. *)
LEMMA InputBound ==
  ASSUME job \in JobType, active \in BOOLEAN, ~ TagsPanic
  PROVE  InputBytes \in 0..116
<1>1. PICK h : h = IF job.header >= 2 THEN job.headline ELSE 0
  OBVIOUS
<1>2. h \in 0..100
  BY <1>1 DEF JobType
<1>3. PICK space : space = TagSpace
  OBVIOUS
<1>4. space = IF h = 0 THEN 86 ELSE IF h + 2 > 86 THEN 0 ELSE 86 - (h + 2)
  BY <1>1, <1>3 DEF TagSpace, MaxTagSpace
<1>5. space \in Nat
  BY <1>2, <1>4
<1>6. PICK p : p = Primary
  OBVIOUS
<1>7. p \in Nat /\ job.secondary \in Nat
  BY <1>6 DEF Primary, JobType
<1>8. PICK r : r = Tags(p, job.secondary, space)
  OBVIOUS
<1>9. PICK b : b = TagBytes(p, r.second)
  OBVIOUS
<1>10. r.push \in Nat /\ b \in Nat /\ b <= r.push
  BY <1>5, <1>7, <1>8, <1>9, TagsFit
<1>11. r.push <= space
  BY <1>3, <1>5, <1>6, <1>8, <1>10 DEF TagsPanic
<1>12. PICK x, y, z :
         /\ x = IF h = 0 THEN 0 ELSE PushBytes(h)
         /\ y = IF r.push > 0 THEN PushBytes(r.push) - r.push + b ELSE 2
         /\ z = IF active \/ job.prime THEN 8 ELSE 4
  OBVIOUS
<1>13. InputBytes = 4 + x + y + z
  BY <1>1, <1>3, <1>6, <1>8, <1>9, <1>12 DEF InputBytes
<1>14. x \in Nat /\ (h = 0 => x = 0) /\ x <= h + 2
  BY <1>2, <1>12 DEF PushBytes
<1>15. y \in Nat /\ y <= space + 2
  <2>1. CASE r.push > 0
    <3>1. PushBytes(r.push) - r.push \in 1..2
      BY <1>10 DEF PushBytes
    <3>2. QED
      BY <1>5, <1>10, <1>11, <1>12, <2>1, <3>1
  <2>2. CASE ~ (r.push > 0)
    BY <1>5, <1>12, <2>2
  <2>3. QED
    BY <2>1, <2>2
<1>16. z \in {4, 8}
  BY <1>12
<1>17. x + space <= 102
  BY <1>2, <1>4, <1>5, <1>14
<1>18. QED
  BY <1>5, <1>13, <1>14, <1>15, <1>16, <1>17

FixedOf(j, len, t) == 119 + j.pool + len + (IF EnOf(len, t) THEN 0 ELSE 10)
ReserveOf(j) == IF j.header >= 2 THEN 84 ELSE 0

(* FitToTemplate, for a template that leaves s bytes and the weight w. *)
FitTo(s, w, reserve, max, fixed) ==
  LET bySize == s - (121 + reserve) - fixed
      byWeight == ((w - 376) \div 4) - fixed
      overSize == max + fixed + 121 + reserve > s
      overWeight == 4 * (max + fixed) + 376 > w
      left == IF overWeight THEN byWeight
              ELSE IF overSize THEN bySize ELSE max + fixed
  IN IF (overSize /\ bySize < 0) \/ (overWeight /\ byWeight < 0) THEN 0
     ELSE IF left < max - fixed THEN left ELSE max - fixed

SpaceOf(j, len, t) ==
  FitTo(j.free.size, j.free.weight, ReserveOf(j), MaxSize[t], FixedOf(j, len, t))

Tighter(s, w) == w <= 4 * (s - 111) \/ w >= 4 * (16000 + 309) + 376

(* With r bytes for outputs a transaction of n bytes is within the limits. *)
Within(s, w, h, fixed, r) ==
  \A n \in Int : r > 0 /\ n <= fixed + r + 4 /\ Tighter(s, w) =>
    117 + h + n <= s /\ (h = 0 => 360 + 4 * n <= w)

(* The space for the outputs, and that it keeps a transaction of n bytes within
   the limits unless there is none.                                         *)
LEMMA FitFacts ==
  ASSUME NEW s \in Int, NEW w \in Int, NEW h \in {0, 84},
         NEW max \in Nat, max >= 500, max <= 16000,
         NEW fixed \in Nat, fixed >= 119, fixed <= 309
  PROVE  /\ FitTo(s, w, h, max, fixed) \in Nat
         /\ FitTo(s, w, h, max, fixed) <= max - fixed
         /\ Within(s, w, h, fixed, FitTo(s, w, h, max, fixed))
<1>r. PICK r : r = FitTo(s, w, h, max, fixed)
  OBVIOUS
<1>s. SUFFICES r \in Nat /\ r <= max - fixed /\ Within(s, w, h, fixed, r)
  BY <1>r
<1>1. PICK q : q = (w - 376) \div 4
  OBVIOUS
<1>2. q \in Int /\ 4 * q <= w - 376
  BY <1>1
<1>3. CASE 4 * (max + fixed) + 376 > w
  <2>1. r = 0 \/ (q - fixed >= 0 /\ r = q - fixed /\ r < max - fixed)
          \/ (q - fixed >= max - fixed /\ r = max - fixed)
    BY <1>1, <1>2, <1>3, <1>r DEF FitTo
  <2>2. r \in Nat /\ r <= max - fixed /\ (r > 0 => r <= q - fixed)
    BY <1>2, <2>1
  <2>3. ASSUME NEW n \in Int, r > 0, n <= fixed + r + 4, Tighter(s, w)
        PROVE  117 + h + n <= s /\ (h = 0 => 360 + 4 * n <= w)
    <3>1. 4 * (max + fixed) + 376 <= 4 * (16000 + 309) + 376
      OBVIOUS
    <3>2. w <= 4 * (s - 111)
      BY <1>3, <2>3, <3>1 DEF Tighter
    <3>3. 4 * (fixed + r) <= w - 376
      BY <1>2, <2>2, <2>3
    <3>4. fixed + r <= s - 205
      BY <2>2, <3>2, <3>3
    <3>5. 117 + h + n <= s
      BY <2>2, <2>3, <3>4
    <3>6. 360 + 4 * n <= w
      BY <2>2, <2>3, <3>3
    <3>7. QED
      BY <3>5, <3>6
  <2>4. QED
    BY <2>2, <2>3 DEF Within
<1>4. CASE /\ ~ (4 * (max + fixed) + 376 > w)
           /\ max + fixed + 121 + h > s
  <2>1. r = 0 \/ (r = s - (121 + h) - fixed /\ r >= 0 /\ r < max - fixed)
          \/ (s - (121 + h) - fixed >= max - fixed /\ r = max - fixed)
    BY <1>4, <1>r DEF FitTo
  <2>2. r \in Nat /\ r <= max - fixed /\ (r > 0 => r <= s - (121 + h) - fixed)
    BY <2>1
  <2>3. ASSUME NEW n \in Int, r > 0, n <= fixed + r + 4
        PROVE  117 + h + n <= s /\ (h = 0 => 360 + 4 * n <= w)
    <3>1. 117 + h + n <= s
      BY <2>2, <2>3
    <3>2. n <= max + 4
      BY <2>2, <2>3
    <3>3. 360 + 4 * n <= w
      BY <1>4, <3>2
    <3>4. QED
      BY <3>1, <3>3
  <2>4. QED
    BY <2>2, <2>3 DEF Within
<1>5. CASE /\ ~ (4 * (max + fixed) + 376 > w)
           /\ ~ (max + fixed + 121 + h > s)
  <2>1. r = max - fixed
    BY <1>5, <1>r DEF FitTo
  <2>2. r \in Nat
    BY <2>1
  <2>3. ASSUME NEW n \in Int, n <= fixed + r + 4
        PROVE  117 + h + n <= s /\ (h = 0 => 360 + 4 * n <= w)
    <3>1. n <= max + 4
      BY <2>1, <2>3
    <3>2. QED
      BY <1>5, <3>1
  <2>4. QED
    BY <2>1, <2>2, <2>3 DEF Within
<1>6. QED
  BY <1>3, <1>4, <1>5

(* The sizes of the payout types. *)
LEMMA MaxSizes ==
  ASSUME NEW t \in 1..5
  PROVE  /\ MaxSize[t] \in Nat /\ MaxSize[t] >= 500 /\ MaxSize[t] <= 16000
         /\ t = 2 => MaxSize[t] = 755
<1>1. /\ MaxSize[1] = 500 /\ MaxSize[2] = 755 /\ MaxSize[3] = 6500
      /\ MaxSize[4] = 16000 /\ MaxSize[5] = 2250
  BY DEF MaxSize
<1>2. t = 1 \/ t = 2 \/ t = 3 \/ t = 4 \/ t = 5
  OBVIOUS
<1>3. QED
  BY <1>1, <1>2

(* The space r and the fixed bytes f of a payout type. *)
SpaceIs(j, len, t, r, f) ==
  /\ r \in Nat /\ (t = 2 => r <= 755)
  /\ f \in Nat /\ f = 119 + j.pool + len + (IF EnOf(len, t) THEN 0 ELSE 10)
  /\ Within(j.free.size, j.free.weight, ReserveOf(j), f, r)

(* They are such for any job and input. *)
LEMMA SpaceFacts ==
  ASSUME NEW j \in JobType, NEW len \in 0..116, NEW t \in 1..5
  PROVE  SpaceIs(j, len, t, SpaceOf(j, len, t), FixedOf(j, len, t))
<1>0. PICK r : r = SpaceOf(j, len, t)
  OBVIOUS
<1>1. j.free.size \in Int /\ j.free.weight \in Int /\ j.pool \in 2..64
  BY DEF JobType
<1>2. ReserveOf(j) \in {0, 84}
  BY DEF ReserveOf
<1>3. PICK max : max = MaxSize[t]
  OBVIOUS
<1>m. max \in Nat /\ max >= 500 /\ max <= 16000 /\ (t = 2 => max = 755)
  BY <1>3, MaxSizes
<1>4. PICK f : f = FixedOf(j, len, t)
  OBVIOUS
<1>5. f \in Nat /\ f >= 119 /\ f <= 309
  BY <1>1, <1>4 DEF FixedOf
<1>n. PICK s, w, h : s = j.free.size /\ w = j.free.weight /\ h = ReserveOf(j)
  OBVIOUS
<1>6. r = FitTo(s, w, h, max, f) /\ s \in Int /\ w \in Int /\ h \in {0, 84}
  BY <1>0, <1>1, <1>2, <1>3, <1>4, <1>n DEF SpaceOf
<1>7. r \in Nat /\ r <= max - f /\ Within(s, w, h, f, r)
  <2>1. /\ max \in Nat /\ max >= 500 /\ max <= 16000
        /\ f \in Nat /\ f >= 119 /\ f <= 309
        /\ s \in Int /\ w \in Int /\ h \in {0, 84}
    BY <1>m, <1>5, <1>6
  <2>2. /\ FitTo(s, w, h, max, f) \in Nat
        /\ FitTo(s, w, h, max, f) <= max - f
        /\ Within(s, w, h, f, FitTo(s, w, h, max, f))
    BY <2>1, FitFacts
  <2>3. QED
    BY <1>6, <2>2
<1>8. t = 2 => r <= 755
  BY <1>m, <1>5, <1>7
<1>9. f = 119 + j.pool + len + (IF EnOf(len, t) THEN 0 ELSE 10)
  BY <1>4 DEF FixedOf
<1>10. QED
  BY <1>0, <1>4, <1>5, <1>7, <1>8, <1>9, <1>n DEF SpaceIs

-----------------------------------------------------------------------------
(* The transactions without payouts *)

(* The numbers of a job. *)
LEMMA JobNumbers ==
  ASSUME NEW j \in JobType
  PROVE  /\ j.pool \in Nat /\ j.pool >= 2 /\ j.pool <= 64
         /\ j.value \in Nat /\ j.reward \in Nat /\ j.supplier \in Nat
         /\ j.header \in {0, 2}
         /\ j.free.size \in Int /\ j.free.weight \in Int
<1>1. /\ j.pool \in 2..64 /\ j.value \in Nat /\ j.reward \in Nat
      /\ j.supplier \in 0..64 /\ j.header \in {0, 2}
      /\ j.free.size \in Int /\ j.free.weight \in Int
  BY DEF JobType
<1>2. QED
  BY <1>1

(* One output to the pool, and perhaps the commitment to the witnesses. *)
LEMMA PoolOnlyShape ==
  ASSUME job \in JobType, NEW len \in Nat, NEW v \in Int,
         NEW last, last = <<>> \/ last = <<Witness>>
  PROVE  Shape(PoolOnly(len, v, last), len, SpaceForEn(len), <<>>,
               <<Output(job.pool, v)>> \o last)
<1>1. job.pool \in Nat
  BY JobNumbers
<1>2. PICK p : p = Output(job.pool, v)
  OBVIOUS
<1>3. p \in OutFields /\ Witness \in OutFields /\ OutFields \subseteq Fields
  BY <1>1, <1>2, FieldTypes
<1>4. last \in Seq(OutFields) /\ Len(last) \in Nat /\ <<p>> \in Seq(OutFields)
      /\ Len(<<p>>) = 1 /\ <<>> \in Seq(OutFields) /\ Len(<<>>) = 0
  <2>1. <<>> \in Seq(OutFields) /\ Len(<<>>) = 0
    OBVIOUS
  <2>2. <<Witness>> \in Seq(OutFields) /\ Len(<<Witness>>) = 1
        /\ <<p>> \in Seq(OutFields) /\ Len(<<p>>) = 1
    BY <1>3
  <2>3. QED
    BY <2>1, <2>2
<1>5. PICK b : b = <<p>> \o last
  OBVIOUS
<1>6. b \in Seq(OutFields) /\ Len(b) = 1 + Len(last)
  BY <1>4, <1>5, Joined
<1>7. b \in Seq(Fields)
  BY <1>3, <1>6
<1>8. PICK tx : tx = PoolOnly(len, v, last)
  OBVIOUS
<1>9. PICK l : l = <<LockTime>>
  OBVIOUS
<1>10. l \in Seq(Fields) /\ <<EnOutput>> \in Seq(Fields)
  BY <1>9, HeadFields
<1>11. CASE SpaceForEn(len)
  <2>1. tx = [c1 |-> Opening(len, TRUE),
              c2 |-> <<SequenceNo, Count(1 + Len(last))>> \o (b \o l)]
    BY <1>2, <1>5, <1>8, <1>9, <1>11 DEF PoolOnly
  <2>2. Opening(len, TRUE) = <<CbStart(len), EnPush>>
    BY Tuples DEF Opening
  <2>3. PICK u : u = <<SequenceNo, Count(Len(b))>>
    OBVIOUS
  <2>4. u \in Seq(Fields)
    BY <1>4, <1>6, <2>3, HeadFields
  <2>5. (u \o b) \o l = u \o (b \o l)
    BY <1>7, <1>10, <2>4, Assoc
  <2>6. tx.c1 = <<CbStart(len), EnPush>> /\ tx.c2 = u \o b \o l
    BY <1>6, <2>1, <2>2, <2>3, <2>5
  <2>7. Shape(tx, len, SpaceForEn(len), <<>>, b)
    BY <1>4, <1>6, <1>9, <1>11, <2>3, <2>6 DEF Shape
  <2>8. QED
    BY <1>2, <1>5, <1>8, <2>7
<1>12. CASE ~ SpaceForEn(len)
  <2>1. tx = [c1 |-> Opening(len, FALSE) \o <<Count((1 + Len(last)) + 1), EnOutput>>,
              c2 |-> b \o l]
    BY <1>2, <1>5, <1>8, <1>9, <1>12 DEF PoolOnly, Opening
  <2>2. PICK c, e, h :
          /\ c = <<Count(Len(<<>>) + 1 + Len(b))>> /\ e = <<EnOutput>>
          /\ h = <<CbStart(len), SequenceNo>>
    OBVIOUS
  <2>3. Opening(len, FALSE) = h
    BY <2>2, Tuples DEF Opening
  <2>4. Len(<<>>) + 1 + Len(b) = (1 + Len(last)) + 1
    BY <1>4, <1>6
  <2>5. Len(<<>>) + 1 + Len(b) \in Nat
    BY <1>4, <1>6
  <2>6. c \in Seq(Fields) /\ e \in Seq(Fields) /\ h \in Seq(Fields)
    BY <1>10, <2>2, <2>5, FieldTypes, HeadFields
  <2>7. c \o e = <<Count(Len(<<>>) + 1 + Len(b)), EnOutput>>
        /\ h \o c = <<CbStart(len), SequenceNo, Count(Len(<<>>) + 1 + Len(b))>>
    BY <2>2, Tuples
  <2>8. (h \o c) \o e = h \o (c \o e)
    BY <2>6, Assoc
  <2>9. h \o c \in Seq(Fields)
    BY <2>6
  <2>10. (h \o c) \o <<>> = h \o c
    BY <2>9, Tuples
  <2>11. tx.c1 = (h \o c) \o <<>> \o e /\ tx.c2 = b \o l
    BY <2>1, <2>3, <2>4, <2>7, <2>8, <2>10
  <2>12. Shape(tx, len, SpaceForEn(len), <<>>, b)
    BY <1>4, <1>6, <1>9, <1>12, <2>2, <2>7, <2>11 DEF Shape
  <2>13. QED
    BY <1>2, <1>5, <1>8, <2>12
<1>13. QED
  BY <1>11, <1>12

(* Outputs that pay v and take no more than that of the pool, with a script of
   pool bytes, and the commitment.                                          *)
Simple(len, v, pool, tx) ==
  \E b : /\ Shape(tx, len, SpaceForEn(len), <<>>, b)
         /\ Money(b) = v /\ SumBytes(b) <= pool + 56 /\ Len(b) <= 2

(* The empty and the subsidy-only transaction are such. *)
LEMMA PoolOnlySimple ==
  ASSUME job \in JobType, NEW len \in Nat
  PROVE  /\ Simple(len, job.value, job.pool, EmptyTx(len))
         /\ Simple(len, job.reward, job.pool, SubsidyTx(len))
<1>1. job.pool \in Nat /\ job.value \in Int /\ job.reward \in Int
  BY JobNumbers
<1>2. ASSUME NEW v \in Int
      PROVE  /\ Output(job.pool, v) \in Fields
             /\ Output(job.pool, v).bytes = job.pool + 9
             /\ Amount(Output(job.pool, v)) = v
  <2>1. Output(job.pool, v) \in Fields
    BY <1>1, FieldTypes
  <2>2. QED
    BY <2>1 DEF Output, Field, Amount, IsOutput
<1>3. Witness \in Fields /\ Witness.bytes = 47 /\ Amount(Witness) = 0
  <2>1. Witness \in Fields
    BY FieldTypes
  <2>2. QED
    BY <2>1 DEF Witness, Output, Field, Amount, IsOutput
<1>4. Simple(len, job.value, job.pool, EmptyTx(len))
  <2>1. PICK p, b : p = Output(job.pool, job.value) /\ b = <<p>> \o <<Witness>>
    OBVIOUS
  <2>2. p \in Fields /\ p.bytes = job.pool + 9 /\ Amount(p) = job.value
    BY <1>1, <1>2, <2>1
  <2>3. b = <<p, Witness>> /\ Len(b) = 2
    BY <2>1, Tuples
  <2>4. SumBytes(b) = p.bytes + Witness.bytes /\ Money(b) = Amount(p) + Amount(Witness)
    BY <1>3, <2>2, <2>3, FewFields
  <2>5. SumBytes(b) = job.pool + 56 /\ Money(b) = job.value
    BY <1>1, <1>3, <2>2, <2>4
  <2>7. Shape(EmptyTx(len), len, SpaceForEn(len), <<>>, b)
    BY <1>1, <2>1, PoolOnlyShape DEF EmptyTx
  <2>8. SumBytes(b) <= job.pool + 56 /\ Len(b) <= 2
    BY <1>1, <2>3, <2>5
  <2>9. QED
    BY <2>5, <2>7, <2>8 DEF Simple
<1>5. Simple(len, job.reward, job.pool, SubsidyTx(len))
  <2>1. PICK p, b : p = Output(job.pool, job.reward) /\ b = <<p>> \o <<>>
    OBVIOUS
  <2>2. p \in Fields /\ p.bytes = job.pool + 9 /\ Amount(p) = job.reward
    BY <1>1, <1>2, <2>1
  <2>3. b = <<p>> /\ Len(b) = 1
    <3>1. <<p>> \in Seq(Fields)
      BY <2>2
    <3>2. QED
      BY <2>1, <3>1, Tuples
  <2>4. SumBytes(b) = p.bytes /\ Money(b) = Amount(p)
    BY <2>2, <2>3, FewFields
  <2>5. SumBytes(b) = job.pool + 9 /\ Money(b) = job.reward
    BY <2>2, <2>4
  <2>7. Shape(SubsidyTx(len), len, SpaceForEn(len), <<>>, b)
    BY <1>1, <2>1, PoolOnlyShape DEF SubsidyTx
  <2>8. SumBytes(b) <= job.pool + 56 /\ Len(b) <= 2
    BY <1>1, <2>3, <2>5
  <2>9. QED
    BY <2>5, <2>7, <2>8 DEF Simple
<1>6. QED
  BY <1>4, <1>5

(* What comes before the outputs pays nothing. *)
LEMMA SimpleFirstHalf ==
  ASSUME NEW len \in Nat, NEW v, NEW pool, NEW tx, Simple(len, v, pool, tx)
  PROVE  /\ tx.c1 \in Seq(Fields) /\ Money(tx.c1) = 0
         /\ SpaceForEn(len) => tx.c1 = <<CbStart(len), EnPush>>
<1>1. PICK b : Shape(tx, len, SpaceForEn(len), <<>>, b)
  BY DEF Simple
<1>2. SpaceForEn(len) \in BOOLEAN
  BY DEF SpaceForEn
<1>3. tx.c1 \in Seq(Fields) /\ b \in Seq(OutFields)
  BY <1>1, <1>2, ShapeTypes DEF Shape
<1>4. CASE SpaceForEn(len)
  <2>1. tx.c1 = <<CbStart(len), EnPush>>
    BY <1>1, <1>4 DEF Shape
  <2>2. CbStart(len) \in Fields /\ EnPush \in Fields
    BY FieldTypes
  <2>3. Amount(CbStart(len)) = 0 /\ Amount(EnPush) = 0
    BY FieldValues
  <2>4. Money(tx.c1) = Amount(CbStart(len)) + Amount(EnPush)
    BY <2>1, <2>2, FewFields
  <2>5. QED
    BY <1>3, <2>1, <2>3, <2>4
<1>5. CASE ~ SpaceForEn(len)
  <2>1. PICK n : n = Len(<<>>) + 1 + Len(b)
    OBVIOUS
  <2>2. n \in Nat
    BY <1>3, <2>1
  <2>3. PICK h : h = <<CbStart(len), SequenceNo, Count(n)>>
    OBVIOUS
  <2>4. CbStart(len) \in Fields /\ SequenceNo \in Fields /\ Count(n) \in Fields
        /\ EnOutput \in Fields
    BY <2>2, FieldTypes
  <2>5. Amount(CbStart(len)) = 0 /\ Amount(SequenceNo) = 0 /\ Amount(Count(n)) = 0
        /\ Amount(EnOutput) = 0
    BY <2>2, FieldValues
  <2>6. h \in Seq(Fields) /\ <<EnOutput>> \in Seq(Fields)
    BY <2>2, <2>3, HeadFields
  <2>7. tx.c1 = h \o <<>> \o <<EnOutput>>
    BY <1>1, <1>5, <2>1, <2>3 DEF Shape
  <2>8. tx.c1 = h \o <<EnOutput>>
    BY <2>6, <2>7, Tuples
  <2>9. Money(h) = 0 /\ Money(<<EnOutput>>) = 0
    BY <2>3, <2>4, <2>5, FewFields
  <2>10. Money(tx.c1) = 0
    <3>1. Money(h \o <<EnOutput>>) = Money(h) + Money(<<EnOutput>>)
      BY <2>6, FieldSums
    <3>2. QED
      BY <2>8, <2>9, <3>1
  <2>11. QED
    BY <1>3, <1>5, <2>10
<1>6. QED
  BY <1>4, <1>5

(* A miner's own transaction pays the value of the job, and is well formed
   when the extranonce is in the input.                                     *)
LEMMA UserSums ==
  ASSUME job \in JobType, NEW len \in Nat, NEW v, NEW pool,
         Simple(len, v, pool, coinbase[0])
  PROVE  /\ Paid(UserTx) = job.value
         /\ SpaceForEn(len) => WellFormed(UserTx)
<1>1. job.value \in Nat /\ job.supplier \in Nat
  BY JobNumbers
<1>2. PICK sup : sup = (job.supplier > 0)
  OBVIOUS
<1>3. PICK fee, cut : /\ fee = Bps(IF sup THEN TemplatePool ELSE LottoFee)
                      /\ cut = IF sup THEN Bps(TemplateSupplier) ELSE 0
  OBVIOUS
<1>4. \A n \in Nat : Bps(n) \in Int
  BY <1>1 DEF Bps
<1>5. fee \in Int /\ cut \in Int
  BY <1>3, <1>4 DEF TemplatePool, LottoFee, TemplateSupplier
<1>6. PICK rest : rest = job.value - fee - cut
  OBVIOUS
<1>7. rest \in Int
  BY <1>1, <1>5, <1>6
<1>8. PICK n : n = IF sup THEN 4 ELSE 3
  OBVIOUS
<1>9. n \in Nat
  BY <1>8
<1>10. PICK o, q, p :
         o = Output(22, rest) /\ q = Output(job.supplier, cut) /\ p = Output(22, fee)
  OBVIOUS
<1>11. /\ o \in OutFields /\ q \in OutFields /\ p \in OutFields
       /\ Witness \in OutFields /\ OutFields \subseteq Fields
  BY <1>1, <1>5, <1>7, <1>10, FieldTypes
<1>12. /\ Amount(o) = rest /\ Amount(q) = cut /\ Amount(p) = fee
       /\ Amount(Witness) = 0
  BY <1>10 DEF Output, Field, Amount, IsOutput, Witness
<1>13. PICK s, c, l : s = SequenceNo /\ c = Count(n) /\ l = LockTime
  OBVIOUS
<1>14. s \in Fields /\ c \in Fields /\ l \in Fields
  BY <1>9, <1>13, FieldTypes
<1>15. Amount(s) = 0 /\ Amount(c) = 0 /\ Amount(l) = 0
  BY <1>9, <1>13, FieldValues
<1>16. PICK m : m = IF sup THEN <<q>> ELSE <<>>
  OBVIOUS
<1>17. m \in Seq(OutFields) /\ m \in Seq(Fields)
       /\ Len(m) = (IF sup THEN 1 ELSE 0) /\ Money(m) = cut
  <2>1. CASE sup
    <3>1. m = <<q>>
      BY <1>16, <2>1
    <3>2. q \in OutFields /\ q \in Fields
      BY <1>11
    <3>3. m \in Seq(OutFields) /\ m \in Seq(Fields) /\ Len(m) = 1
      BY <3>1, <3>2
    <3>4. Money(m) = cut
      BY <1>12, <3>1, <3>2, FewFields
    <3>5. QED
      BY <2>1, <3>3, <3>4
  <2>2. CASE ~ sup
    <3>1. m = <<>> /\ cut = 0
      BY <1>3, <1>16, <2>2
    <3>2. m \in Seq(OutFields) /\ m \in Seq(Fields) /\ Len(m) = 0
      BY <3>1
    <3>3. Money(m) = cut
      BY <3>1, FewFields
    <3>4. QED
      BY <2>2, <3>2, <3>3
  <2>3. QED
    BY <2>1, <2>2
<1>18. PICK h, e : h = <<s, c, o>> /\ e = <<p, Witness, l>>
  OBVIOUS
<1>19. o \in Fields /\ p \in Fields /\ Witness \in Fields
  BY <1>11
<1>20. h \in Seq(Fields) /\ e \in Seq(Fields)
  BY <1>14, <1>18, <1>19
<1>21. Money(h) = rest /\ Money(e) = fee
  <2>1. Money(h) = Amount(s) + Amount(c) + Amount(o)
    BY <1>14, <1>18, <1>19, FewFields
  <2>2. Money(e) = Amount(p) + Amount(Witness) + Amount(l)
    BY <1>14, <1>18, <1>19, FewFields
  <2>3. QED
    BY <1>5, <1>7, <1>12, <1>15, <2>1, <2>2
<1>22. PICK tx : tx = UserTx
  OBVIOUS
<1>23. tx.c1 = coinbase[0].c1 /\ tx.c2 = h \o m \o e
  BY <1>2, <1>3, <1>6, <1>8, <1>10, <1>13, <1>16, <1>18, <1>22 DEF UserTx
<1>24. tx.c1 \in Seq(Fields) /\ Money(tx.c1) = 0
  BY <1>23, SimpleFirstHalf
<1>25. PICK g : g = h \o m
  OBVIOUS
<1>26. g \in Seq(Fields)
  BY <1>17, <1>20, <1>25
<1>27. Money(g) = rest + cut
  BY <1>17, <1>20, <1>21, <1>25, FieldSums
<1>28. Money(g \o e) = rest + cut + fee /\ g \o e \in Seq(Fields)
  BY <1>20, <1>21, <1>26, <1>27, FieldSums
<1>29. Paid(tx) = job.value
  <2>1. tx.c2 \in Seq(Fields) /\ Money(tx.c2) = rest + cut + fee
    BY <1>23, <1>25, <1>28
  <2>2. Paid(tx) = Money(tx.c1) + Money(tx.c2)
    BY <1>24, <2>1, FieldSums DEF Paid, Money
  <2>3. rest + cut + fee = job.value
    BY <1>1, <1>5, <1>6
  <2>4. QED
    BY <1>1, <1>24, <2>1, <2>2, <2>3
<1>30. ASSUME SpaceForEn(len) PROVE WellFormed(tx)
  <2>1. tx.c1 = <<CbStart(len), EnPush>>
    BY <1>23, <1>30, SimpleFirstHalf
  <2>2. PICK x, y, z, k, i :
          /\ x = <<s, c>> /\ y = <<o>> /\ z = <<p, Witness>> /\ k = <<l>>
          /\ i = y \o m
    OBVIOUS
  <2>3. /\ x \in Seq(Fields) /\ y \in Seq(Fields) /\ z \in Seq(Fields)
        /\ k \in Seq(Fields)
    BY <1>14, <1>19, <2>2
  <2>4. y \in Seq(OutFields) /\ z \in Seq(OutFields) /\ Len(y) = 1 /\ Len(z) = 2
    BY <1>11, <2>2
  <2>5. h = x \o y /\ e = z \o k
    BY <1>18, <2>2, Tuples
  <2>6. i \in Seq(OutFields) /\ Len(i) = 1 + Len(m)
    BY <1>17, <2>2, <2>4, Joined
  <2>7. i \in Seq(Fields)
    BY <1>11, <2>6
  <2>8. PICK b : b = i \o z
    OBVIOUS
  <2>9. b \in Seq(OutFields) /\ Len(b) = Len(i) + Len(z)
    BY <2>4, <2>6, <2>8, Joined
  <2>10. b \in Seq(Fields)
    BY <1>11, <2>9
  <2>11. Len(b) = n
    BY <1>8, <1>17, <2>4, <2>6, <2>9
  <2>12. g = x \o i
    BY <1>17, <1>25, <2>2, <2>3, <2>5, Assoc
  <2>13. PICK u : u = z \o k
    OBVIOUS
  <2>14. u \in Seq(Fields)
    BY <2>3, <2>13
  <2>15. (x \o i) \o u = x \o (i \o u)
    <3>1. x \in Seq(Fields) /\ i \in Seq(Fields) /\ u \in Seq(Fields)
      BY <2>3, <2>7, <2>14
    <3>2. QED
      BY <3>1, Assoc
  <2>16. i \o u = b \o k
    BY <2>3, <2>7, <2>8, <2>13, Assoc
  <2>17. x \o (b \o k) = (x \o b) \o k
    <3>1. x \in Seq(Fields) /\ b \in Seq(Fields) /\ k \in Seq(Fields)
      BY <2>3, <2>10
    <3>2. QED
      BY <3>1, Assoc
  <2>18. tx.c2 = x \o b \o k
    BY <1>23, <1>25, <2>5, <2>12, <2>13, <2>15, <2>16, <2>17
  <2>19. <<>> \in Seq(OutFields)
    OBVIOUS
  <2>20. Shape(tx, len, TRUE, <<>>, b)
    BY <1>13, <2>1, <2>2, <2>9, <2>11, <2>18, <2>19 DEF Shape
  <2>21. QED
    BY <2>20, ShapeWellFormed
<1>31. QED
  BY <1>22, <1>29, <1>30

-----------------------------------------------------------------------------
(* The fields of a transaction, the halves one after the other *)

(* The fields without the extranonce among them. *)
Unmarked(all, w, k, n) ==
  /\ k \in Nat /\ n \in Nat /\ all \in Seq(Fields)
  /\ w \in Seq(Fields) /\ Len(w) = Len(all) + 1 /\ Len(w) = k + 1 + n
  /\ \A i \in 1..k : all[i] = w[i]
  /\ \A i \in 1..n : all[k + i] = w[k + 1 + i]

(* The halves joined are the transaction without the extranonce. *)
LEMMA WithoutEn ==
  ASSUME NEW tx, tx.c1 \in Seq(Fields), tx.c2 \in Seq(Fields)
  PROVE  Unmarked(tx.c1 \o tx.c2, Whole(tx), Len(tx.c1), Len(tx.c2))
<1>0. PICK k, all, w : k = Len(tx.c1) /\ all = tx.c1 \o tx.c2 /\ w = Whole(tx)
  OBVIOUS
<1>1. PICK x, y, n : x = tx.c1 /\ y = tx.c2 /\ n = Len(y)
  OBVIOUS
<1>2. x \in Seq(Fields) /\ y \in Seq(Fields) /\ k \in Nat /\ n \in Nat /\ k = Len(x)
  BY <1>0, <1>1
<1>3. PICK e : e = Field("en", 12, 0)
  OBVIOUS
<1>4. e \in Fields
  BY <1>3 DEF Field, Fields, Kinds
<1>5. PICK z : z = x \o <<e>>
  OBVIOUS
<1>6. z \in Seq(Fields) /\ Len(z) = k + 1 /\ \A i \in 1..k : z[i] = x[i]
  <2>1. x \in Seq(Fields)
    BY <1>2
  <2>2. /\ x \o <<e>> \in Seq(Fields) /\ Len(x \o <<e>>) = Len(x) + 1
        /\ \A i \in 1..Len(x) : (x \o <<e>>)[i] = x[i]
    BY <1>4, <2>1, OneMore
  <2>3. QED
    BY <1>2, <1>5, <2>2
<1>7. /\ all \in Seq(Fields) /\ Len(all) = k + n
      /\ \A i \in 1..k : all[i] = x[i]
      /\ \A i \in 1..n : all[k + i] = y[i]
  <2>1. x \in Seq(Fields) /\ y \in Seq(Fields)
    BY <1>2
  <2>2. /\ x \o y \in Seq(Fields) /\ Len(x \o y) = Len(x) + Len(y)
        /\ \A i \in 1..Len(x) : (x \o y)[i] = x[i]
        /\ \A i \in 1..Len(y) : (x \o y)[Len(x) + i] = y[i]
    BY <2>1, Joined
  <2>3. QED
    BY <1>0, <1>1, <1>2, <2>2
<1>8. /\ w \in Seq(Fields) /\ Len(w) = k + 1 + n
      /\ \A i \in 1..k + 1 : w[i] = z[i]
      /\ \A i \in 1..n : w[k + 1 + i] = y[i]
  <2>1. z \in Seq(Fields) /\ y \in Seq(Fields)
    BY <1>2, <1>6
  <2>2. /\ z \o y \in Seq(Fields) /\ Len(z \o y) = Len(z) + Len(y)
        /\ \A i \in 1..Len(z) : (z \o y)[i] = z[i]
        /\ \A i \in 1..Len(y) : (z \o y)[Len(z) + i] = y[i]
    BY <2>1, Joined
  <2>3. w = z \o y
    BY <1>0, <1>1, <1>3, <1>5 DEF Whole
  <2>4. Len(z) = k + 1
    BY <1>6
  <2>5. QED
    BY <1>1, <2>2, <2>3, <2>4
<1>9. \A i \in 1..k : all[i] = w[i]
  <2>1. \A i \in 1..k : i \in 1..k + 1
    BY <1>2
  <2>2. QED
    BY <1>6, <1>7, <1>8, <2>1
<1>10. \A i \in 1..n : all[k + i] = w[k + 1 + i]
  BY <1>7, <1>8
<1>11. Len(w) = Len(all) + 1
  BY <1>2, <1>7, <1>8
<1>12. Unmarked(all, w, k, n)
  BY <1>2, <1>7, <1>8, <1>9, <1>10, <1>11 DEF Unmarked
<1>13. QED
  BY <1>0, <1>1, <1>12

(* Where the outputs are. *)
Layout(all, en, a, b) ==
  /\ all \in Seq(Fields) /\ Len(a) \in Nat /\ Len(b) \in Nat
  /\ Len(all) = 5 + Len(a) + Len(b)
  /\ \A i \in {1, 2, 3, 4 + Len(a), 5 + Len(a) + Len(b)} : all[i].kind # "out"
  /\ \A i \in 1..Len(a) : all[3 + i] = a[i]
  /\ \A i \in 1..Len(b) : all[4 + Len(a) + i] = b[i]
  /\ en => all[4] = Count(Len(b))
  /\ ~ en => all[3] = Count(Len(a) + 1 + Len(b))

(* The same for both shapes. *)
LEMMA ShapeLayout ==
  ASSUME NEW tx, NEW len, NEW en \in BOOLEAN, NEW a, NEW b,
         Shape(tx, len, en, a, b)
  PROVE  Layout(tx.c1 \o tx.c2, en, a, b)
<1>1. /\ a \in Seq(Fields) /\ b \in Seq(Fields) /\ len \in Nat
      /\ tx.c1 \in Seq(Fields) /\ tx.c2 \in Seq(Fields)
  BY ShapeTypes DEF Shape
<1>2. PICK s, u, l, o, p, e, c, d :
        /\ s = CbStart(len) /\ u = SequenceNo /\ l = LockTime /\ o = EnOutput
        /\ p = EnPush /\ e = Field("en", 12, 0)
        /\ c = Count(Len(b)) /\ d = Count(Len(a) + 1 + Len(b))
  OBVIOUS
<1>3. PICK m, n : m = Len(a) /\ n = Len(b)
  OBVIOUS
<1>4. m \in Nat /\ n \in Nat /\ Len(a) + 1 + Len(b) \in Nat
  BY <1>1, <1>3
<1>5. e \in Fields
  BY <1>2 DEF Field, Fields, Kinds
<1>6. /\ s \in Fields /\ u \in Fields /\ l \in Fields /\ o \in Fields
      /\ c \in Fields /\ d \in Fields /\ p \in Fields
  BY <1>1, <1>2, <1>3, <1>4, FieldTypes
<1>7. /\ s.kind # "out" /\ u.kind # "out" /\ l.kind # "out"
      /\ o.kind # "out" /\ p.kind # "out"
      /\ c.kind # "out" /\ d.kind # "out"
  BY <1>2 DEF CbStart, SequenceNo, LockTime, EnOutput, EnPush, Count, Field
<1>8. PICK w, all, k : w = Whole(tx) /\ all = tx.c1 \o tx.c2 /\ k = Len(tx.c1)
  OBVIOUS
<1>9. /\ k \in Nat /\ all \in Seq(Fields)
      /\ Len(w) = Len(all) + 1 /\ Len(w) = k + 1 + Len(tx.c2)
      /\ Len(tx.c2) \in Nat
      /\ \A i \in 1..k : all[i] = w[i]
      /\ \A i \in 1..Len(tx.c2) : all[k + i] = w[k + 1 + i]
  <2>1. Unmarked(tx.c1 \o tx.c2, Whole(tx), Len(tx.c1), Len(tx.c2))
    BY <1>1, WithoutEn
  <2>2. Unmarked(all, w, k, Len(tx.c2))
    BY <1>8, <2>1
  <2>3. QED
    BY <2>2 DEF Unmarked
<1>l. Len(all) \in Nat
  BY <1>9
<1>10. CASE en
  <2>1. w = InputWhole(s, p, e, u, c, b, l)
    BY <1>2, <1>8, <1>10 DEF Shape, Whole, InputWhole
  <2>2. InInputParts(w, s, p, e, u, c, b, l)
    BY <1>1, <1>5, <1>6, <2>1, InputFields
  <2>3. /\ Len(w) = 5 + n + 1
        /\ w[1] = s /\ w[2] = p /\ w[4] = u /\ w[5] = c
        /\ \A i \in 1..n : w[5 + i] = b[i]
        /\ w[5 + n + 1] = l
    BY <1>3, <2>2 DEF InInputParts
  <2>4. k = 2 /\ a = <<>> /\ m = 0
    <3>1. tx.c1 = <<CbStart(len), EnPush>> /\ a = <<>>
      BY <1>10 DEF Shape
    <3>2. QED
      BY <1>3, <1>8, <3>1
  <2>5. Len(all) = 5 + n /\ Len(tx.c2) = 3 + n
    BY <1>4, <1>9, <1>l, <2>3, <2>4
  <2>6. all[1] = s /\ all[2] = p
    BY <1>9, <2>3, <2>4
  <2>7. /\ 1 \in 1..3 + n /\ 2 \in 1..3 + n /\ 3 + n \in 1..3 + n
        /\ \A i \in 1..n : 2 + i \in 1..3 + n
    BY <1>4
  <2>8. \A i \in 1..3 + n : all[2 + i] = w[3 + i]
    BY <1>9, <2>4, <2>5, SMTT(30)
  <2>9. all[2 + 1] = u /\ all[2 + 2] = c
    <3>1. all[2 + 1] = w[3 + 1] /\ all[2 + 2] = w[3 + 2]
      BY <2>7, <2>8
    <3>2. QED
      BY <2>3, <3>1
  <2>10. all[5 + n] = l
    <3>1. all[2 + (3 + n)] = w[3 + (3 + n)]
      BY <2>7, <2>8
    <3>2. 2 + (3 + n) = 5 + n /\ 3 + (3 + n) = 5 + n + 1
      BY <1>4
    <3>3. QED
      BY <2>3, <3>1, <3>2
  <2>11. ASSUME NEW i \in 1..n PROVE all[4 + m + i] = b[i]
    <3>1. 2 + (2 + i) = 4 + m + i /\ 3 + (2 + i) = 5 + i
      BY <1>4, <2>4
    <3>2. all[2 + (2 + i)] = w[3 + (2 + i)]
      BY <2>7, <2>8
    <3>3. QED
      BY <2>3, <3>1, <3>2
  <2>12. \A i \in {1, 2, 3, 4 + m, 5 + m + n} : all[i].kind # "out"
    <3>1. 4 + m = 4 /\ 5 + m + n = 5 + n /\ 2 + 1 = 3 /\ 2 + 2 = 4
      BY <1>4, <2>4
    <3>2. QED
      BY <1>7, <2>6, <2>9, <2>10, <3>1
  <2>13. Len(all) = 5 + m + n /\ \A i \in 1..m : all[3 + i] = a[i]
    BY <1>4, <2>4, <2>5
  <2>14. all[4] = c
    BY <2>9
  <2>15. Layout(all, en, a, b)
    BY <1>2, <1>3, <1>4, <1>9, <1>10, <2>11, <2>12, <2>13, <2>14 DEF Layout
  <2>16. QED
    BY <1>8, <2>15
<1>11. CASE ~ en
  <2>1. w = OutputWhole(s, u, d, a, o, e, b, l)
    BY <1>2, <1>8, <1>11 DEF Shape, Whole, OutputWhole
  <2>2. InOutputParts(w, s, u, d, a, o, e, b, l)
    BY <1>1, <1>5, <1>6, <2>1, OutputFields
  <2>3. /\ Len(w) = 3 + (m + 2 + n) + 1
        /\ w[1] = s /\ w[2] = u /\ w[3] = d
        /\ \A i \in 1..m : w[3 + i] = a[i]
        /\ w[3 + (m + 1)] = o
        /\ \A i \in 1..n : w[3 + (m + 2 + i)] = b[i]
        /\ w[3 + (m + 2 + n) + 1] = l
    BY <1>3, <2>2 DEF InOutputParts
  <2>4. Len(tx.c2) = n + 1
    <3>1. tx.c2 = b \o <<LockTime>>
      BY <1>11 DEF Shape
    <3>2. b \in Seq(Fields) /\ LockTime \in Fields
      BY <1>1, FieldTypes
    <3>3. Len(b \o <<LockTime>>) = Len(b) + 1
      BY <3>2, OneMore
    <3>4. QED
      BY <1>3, <3>1, <3>3
  <2>5. k = 4 + m /\ Len(all) = 5 + m + n
    BY <1>4, <1>9, <1>l, <2>3, <2>4, SMTT(30)
  <2>6. /\ \A i \in 1..4 + m : all[i] = w[i]
        /\ \A i \in 1..n + 1 : all[4 + m + i] = w[4 + m + 1 + i]
    BY <1>9, <2>4, <2>5
  <2>7. /\ 1 \in 1..4 + m /\ 2 \in 1..4 + m /\ 3 \in 1..4 + m /\ 4 + m \in 1..4 + m
        /\ \A i \in 1..m : 3 + i \in 1..4 + m
        /\ \A i \in 1..n : i \in 1..n + 1
        /\ n + 1 \in 1..n + 1
    BY <1>4
  <2>8. all[1] = s /\ all[2] = u /\ all[3] = d
    BY <2>3, <2>6, <2>7
  <2>9. all[4 + m] = o
    <3>1. 3 + (m + 1) = 4 + m
      BY <1>4
    <3>2. QED
      BY <2>3, <2>6, <2>7, <3>1
  <2>10. \A i \in 1..m : all[3 + i] = a[i]
    BY <2>3, <2>6, <2>7
  <2>11. ASSUME NEW i \in 1..n PROVE all[4 + m + i] = b[i]
    <3>1. 3 + (m + 2 + i) = 4 + m + 1 + i
      BY <1>4
    <3>2. all[4 + m + i] = w[4 + m + 1 + i]
      BY <2>6, <2>7
    <3>3. QED
      BY <2>3, <3>1, <3>2
  <2>12. all[5 + m + n] = l
    <3>1. 4 + m + (n + 1) = 5 + m + n /\ 4 + m + 1 + (n + 1) = 3 + (m + 2 + n) + 1
      BY <1>4
    <3>2. all[4 + m + (n + 1)] = w[4 + m + 1 + (n + 1)]
      BY <2>6, <2>7
    <3>3. QED
      BY <2>3, <3>1, <3>2
  <2>13. \A i \in {1, 2, 3, 4 + m, 5 + m + n} : all[i].kind # "out"
    BY <1>7, <2>8, <2>9, <2>12
  <2>14. Layout(all, en, a, b)
    BY <1>2, <1>3, <1>4, <1>9, <1>11, <2>5, <2>8, <2>10, <2>11, <2>13 DEF Layout
  <2>15. QED
    BY <1>8, <2>14
<1>12. QED
  BY <1>10, <1>11
-----------------------------------------------------------------------------
(* A complete payout transaction *)

(* The output of the pool is no longer than this. *)
PoolBytes(j) == (IF j.pool > 3 THEN j.pool ELSE 3) + 9

(* Bytes for outputs in coinb1 of the special type. *)
RoomOf(len) == IF 104 - len > 0 THEN 104 - len ELSE 0

(* The transaction tx of the payout type t: outputs a and b chosen in order
   from the list os, and the pool's output p, which gets the rest.          *)
CompleteWith(j, len, os, t, tx, a, ia, b, ib, p) ==
  /\ Chosen(a, ia, os, Len(os)) /\ Chosen(b, ib, os, Len(os))
  /\ \A i \in 1..Len(ia), k \in 1..Len(ib) : ia[i] < ib[k]
  /\ p \in OutFields /\ p.bytes <= PoolBytes(j)
  /\ Shape(tx, len, EnOf(len, t), a, b \o <<p, Witness>>)
  /\ Money(a) + Money(b) + Amount(p) = j.value
  /\ SumBytes(a) + SumBytes(b) <= SpaceOf(j, len, t)
  /\ 11 * (Len(a) + Len(b)) <= SpaceOf(j, len, t)
  /\ t = 2 => SumBytes(a) <= RoomOf(len)

Complete(j, len, os, t, tx) ==
  \E a, ia, b, ib, p : CompleteWith(j, len, os, t, tx, a, ia, b, ib, p)

(* The outputs of coinb2 with those of the pool and of the witnesses. *)
LEMMA WithPool ==
  ASSUME NEW b \in Seq(OutFields), NEW p \in OutFields
  PROVE  /\ b \o <<p, Witness>> \in Seq(OutFields)
         /\ Len(b \o <<p, Witness>>) = Len(b) + 2 /\ Len(b) \in Nat
         /\ Money(b \o <<p, Witness>>) = Money(b) + Amount(p)
         /\ SumBytes(b \o <<p, Witness>>) = SumBytes(b) + p.bytes + 47
         /\ \A i \in 1..Len(b) : (b \o <<p, Witness>>)[i] = b[i]
         /\ Money(b) \in Int /\ SumBytes(b) \in Int
         /\ p.bytes \in Nat /\ Amount(p) \in Int
<1>1. PICK w, g : w = Witness /\ g = <<p, w>>
  OBVIOUS
<1>2. w \in OutFields /\ OutFields \subseteq Fields
  BY <1>1, FieldTypes
<1>3. w.bytes = 47 /\ Amount(w) = 0
  BY <1>1 DEF Witness, Output, Field, Amount, IsOutput
<1>4. g \in Seq(OutFields) /\ Len(g) = 2
  BY <1>1, <1>2
<1>5. p \in Fields /\ w \in Fields /\ b \in Seq(Fields) /\ g \in Seq(Fields)
  BY <1>2, <1>4
<1>6. SumBytes(g) = p.bytes + w.bytes /\ Money(g) = Amount(p) + Amount(w)
  BY <1>1, <1>5, FewFields
<1>7. p.bytes \in Nat /\ Amount(p) \in Int
  BY <1>5 DEF Fields, Amount
<1>8. /\ SumBytes(b \o g) = SumBytes(b) + SumBytes(g)
      /\ Money(b \o g) = Money(b) + Money(g)
      /\ SumBytes(b) \in Int /\ Money(b) \in Int
  BY <1>5, FieldSums
<1>9. /\ b \o g \in Seq(OutFields) /\ Len(b \o g) = Len(b) + Len(g) /\ Len(b) \in Nat
      /\ \A i \in 1..Len(b) : (b \o g)[i] = b[i]
  <2>1. b \in Seq(OutFields) /\ g \in Seq(OutFields)
    BY <1>4
  <2>2. QED
    BY <2>1, Joined
<1>10. SumBytes(b \o g) = SumBytes(b) + p.bytes + 47
  BY <1>3, <1>6, <1>7, <1>8
<1>11. Money(b \o g) = Money(b) + Amount(p)
  BY <1>3, <1>6, <1>7, <1>8
<1>12. Len(b \o g) = Len(b) + 2
  BY <1>4, <1>9
<1>13. QED
  BY <1>1, <1>7, <1>8, <1>9, <1>10, <1>11, <1>12

(* A complete transaction is one, and pays the value of the job. *)
LEMMA CompletePays ==
  ASSUME NEW j \in JobType, NEW len, NEW os, NEW t, NEW tx,
         Complete(j, len, os, t, tx)
  PROVE  WellFormed(tx) /\ Paid(tx) = j.value
<1>1. PICK a, ia, b, ib, p : CompleteWith(j, len, os, t, tx, a, ia, b, ib, p)
  BY DEF Complete
<1>2. /\ a \in Seq(OutFields) /\ b \in Seq(OutFields) /\ p \in OutFields
      /\ Money(a) + Money(b) + Amount(p) = j.value
  BY <1>1 DEF CompleteWith, Chosen
<1>3. PICK c : c = b \o <<p, Witness>>
  OBVIOUS
<1>4. Money(c) = Money(b) + Amount(p) /\ Money(b) \in Int /\ Amount(p) \in Int
  BY <1>2, <1>3, WithPool
<1>5. PICK en : en = EnOf(len, t)
  OBVIOUS
<1>6. en \in BOOLEAN
  BY <1>5 DEF EnOf
<1>7. Shape(tx, len, en, a, c)
  BY <1>1, <1>3, <1>5 DEF CompleteWith
<1>8. WellFormed(tx) /\ Paid(tx) = Money(a) + Money(c)
  <2>1. WellFormed(tx)
    BY <1>6, <1>7, ShapeWellFormed
  <2>2. Paid(tx) = Money(a) + Money(c)
    <3>1. ShapeTotals(tx, len, en, a, c)
      BY <1>6, <1>7, ShapeSums
    <3>2. QED
      BY <3>1 DEF ShapeTotals
  <2>3. QED
    BY <2>1, <2>2
<1>9. Money(a) \in Int
  <2>1. a \in Seq(Fields)
    BY <1>2 DEF OutFields
  <2>2. QED
    BY <2>1, FieldSums
<1>10. QED
  BY <1>2, <1>4, <1>8, <1>9

(* The outputs of a transaction before the last two are offers, in order. *)
Offered(all, os) ==
  \E offer \in [{i \in 1..Len(all) - 3 : all[i].kind = "out"} -> DOMAIN os] :
    /\ \A i, j \in {n \in 1..Len(all) - 3 : all[n].kind = "out"} :
         i < j => offer[i] < offer[j]
    /\ \A i \in {n \in 1..Len(all) - 3 : all[n].kind = "out"} :
         all[i] = Output(os[offer[i]].len, os[offer[i]].value)

(* So it is in a complete transaction. *)
LEMMA CompleteOffered ==
  ASSUME NEW j, NEW len, NEW os \in Seq(OutType), NEW t, NEW tx,
         Complete(j, len, os, t, tx)
  PROVE  Offered(tx.c1 \o tx.c2, os)
<1>1. PICK a, ia, b, ib, p : CompleteWith(j, len, os, t, tx, a, ia, b, ib, p)
  BY DEF Complete
<1>2. PICK m, n, z, all :
        m = Len(a) /\ n = Len(b) /\ z = Len(os) /\ all = tx.c1 \o tx.c2
  OBVIOUS
<1>3. /\ a \in Seq(OutFields) /\ b \in Seq(OutFields) /\ p \in OutFields
      /\ ia \in Seq(1..z) /\ ib \in Seq(1..z) /\ Len(ia) = m /\ Len(ib) = n
      /\ m \in Nat /\ n \in Nat /\ z \in Nat /\ DOMAIN os = 1..z
  BY <1>1, <1>2 DEF CompleteWith, Chosen
<1>4. /\ \A i \in 1..m : a[i] = Out(os[ia[i]])
      /\ \A i \in 1..n : b[i] = Out(os[ib[i]])
  BY <1>1, <1>2, <1>3 DEF CompleteWith, Chosen
<1>5. /\ \A i, k \in 1..m : i < k => ia[i] < ia[k]
      /\ \A i, k \in 1..n : i < k => ib[i] < ib[k]
      /\ \A i \in 1..m, k \in 1..n : ia[i] < ib[k]
  BY <1>1, <1>3 DEF CompleteWith, Chosen
<1>6. (\A i \in 1..m : ia[i] \in 1..z) /\ (\A i \in 1..n : ib[i] \in 1..z)
  <2>1. ia \in Seq(1..z) /\ ib \in Seq(1..z) /\ Len(ia) = m /\ Len(ib) = n
    BY <1>3
  <2>2. /\ \A i \in 1..Len(ia) : ia[i] \in 1..z
        /\ \A i \in 1..Len(ib) : ib[i] \in 1..z
    <3>1. PICK S : S = 1..z
      OBVIOUS
    <3>2. ia \in Seq(S) /\ ib \in Seq(S)
      BY <2>1, <3>1
    <3>3. QED
      BY <3>1, <3>2, Members
  <2>3. QED
    BY <2>1, <2>2
<1>7. PICK c : c = b \o <<p, Witness>>
  OBVIOUS
<1>8. Len(c) = n + 2 /\ \A i \in 1..n : c[i] = b[i]
  BY <1>2, <1>3, <1>7, WithPool
<1>9. PICK en : en = EnOf(len, t)
  OBVIOUS
<1>10. Layout(all, en, a, c)
  <2>1. en \in BOOLEAN
    BY <1>9 DEF EnOf
  <2>2. Shape(tx, len, en, a, c)
    BY <1>1, <1>7, <1>9 DEF CompleteWith
  <2>3. QED
    BY <1>2, <2>1, <2>2, ShapeLayout
<1>11. /\ Len(all) = 7 + m + n
       /\ all[1].kind # "out" /\ all[2].kind # "out" /\ all[3].kind # "out"
       /\ all[4 + m].kind # "out"
  <2>1. /\ Len(all) = 5 + m + (n + 2)
        /\ \A i \in {1, 2, 3, 4 + m, 5 + m + (n + 2)} : all[i].kind # "out"
    BY <1>2, <1>8, <1>10 DEF Layout
  <2>2. QED
    BY <1>3, <2>1
<1>12. /\ \A i \in 1..m : all[3 + i] = a[i]
       /\ \A i \in 1..n : all[4 + m + i] = b[i]
  <2>1. /\ \A i \in 1..m : all[3 + i] = a[i]
        /\ \A i \in 1..n + 2 : all[4 + m + i] = c[i]
    BY <1>2, <1>8, <1>10 DEF Layout
  <2>2. \A i \in 1..n : i \in 1..n + 2
    BY <1>3
  <2>3. QED
    BY <1>8, <2>1, <2>2
<1>13. PICK places : places = {i \in 1..Len(all) - 3 : all[i].kind = "out"}
  OBVIOUS
<1>14. ASSUME NEW i \in places
       PROVE  \/ i <= 3 + m /\ i - 3 \in 1..m
              \/ ~ (i <= 3 + m) /\ i - 4 - m \in 1..n
  <2>1. i \in 1..4 + m + n /\ all[i].kind # "enout" /\ all[i].kind = "out"
    <3>1. Len(all) - 3 = 4 + m + n
      BY <1>3, <1>11
    <3>2. QED
      BY <1>13, <3>1
  <2>2. i # 1 /\ i # 2 /\ i # 3 /\ i # 4 + m
    BY <1>11, <2>1
  <2>3. QED
    BY <1>3, <2>1, <2>2
<1>15. places \subseteq Int
  BY <1>3, <1>11, <1>13
<1>16. PICK offer : offer = [i \in places |-> IF i <= 3 + m THEN ia[i - 3]
                                              ELSE ib[i - 4 - m]]
  OBVIOUS
<1>17. ASSUME NEW i \in places
       PROVE  /\ i <= 3 + m => offer[i] = ia[i - 3] /\ i - 3 \in 1..m
              /\ ~ (i <= 3 + m) => offer[i] = ib[i - 4 - m] /\ i - 4 - m \in 1..n
  BY <1>14, <1>16
<1>18. ASSUME NEW i \in places PROVE offer[i] \in 1..z
  BY <1>6, <1>17
<1>19. offer \in [places -> DOMAIN os]
  BY <1>3, <1>16, <1>18
<1>20. ASSUME NEW i \in places, NEW k \in places, i < k
       PROVE  offer[i] < offer[k]
  <2>1. i \in Int /\ k \in Int
    BY <1>15
  <2>2. CASE k <= 3 + m
    <3>1. i <= 3 + m /\ i - 3 < k - 3
      BY <1>3, <1>20, <2>1, <2>2
    <3>2. QED
      BY <1>5, <1>17, <2>2, <3>1
  <2>3. CASE ~ (k <= 3 + m) /\ i <= 3 + m
    BY <1>5, <1>17, <2>3
  <2>4. CASE ~ (k <= 3 + m) /\ ~ (i <= 3 + m)
    <3>1. i - 4 - m < k - 4 - m
      BY <1>3, <1>20, <2>1
    <3>2. QED
      BY <1>5, <1>17, <2>4, <3>1
  <2>5. QED
    BY <2>2, <2>3, <2>4
<1>21. ASSUME NEW i \in places PROVE all[i] = Out(os[offer[i]])
  <2>1. i \in Int
    BY <1>15
  <2>2. CASE i <= 3 + m
    <3>1. i = 3 + (i - 3)
      BY <2>1
    <3>2. all[3 + (i - 3)] = a[i - 3]
      BY <1>12, <1>17, <2>2
    <3>3. QED
      BY <1>4, <1>17, <2>2, <3>1, <3>2
  <2>3. CASE ~ (i <= 3 + m)
    <3>1. i = 4 + m + (i - 4 - m)
      BY <1>3, <2>1
    <3>2. all[4 + m + (i - 4 - m)] = b[i - 4 - m]
      BY <1>12, <1>17, <2>3
    <3>3. QED
      BY <1>4, <1>17, <2>3, <3>1, <3>2
  <2>4. QED
    BY <2>2, <2>3
<1>22. Offered(all, os)
  BY <1>13, <1>19, <1>20, <1>21 DEF Offered, Out
<1>23. QED
  BY <1>2, <1>22

(* A transaction without payouts is one, pays what it shall, and is small. *)
LEMMA SimpleFacts ==
  ASSUME NEW len \in Nat, NEW v, NEW pool \in Nat, NEW tx,
         Simple(len, v, pool, tx)
  PROVE  /\ WellFormed(tx) /\ Paid(tx) = v
         /\ TxBytes(tx) \in Int /\ TxBytes(tx) <= 132 + len + pool
<1>1. PICK a, b : /\ a = <<>> /\ Shape(tx, len, SpaceForEn(len), a, b)
                  /\ Money(b) = v /\ SumBytes(b) <= pool + 56 /\ Len(b) <= 2
  BY DEF Simple
<1>2. PICK en : en = SpaceForEn(len)
  OBVIOUS
<1>3. en \in BOOLEAN /\ Shape(tx, len, en, a, b)
  BY <1>1, <1>2 DEF SpaceForEn
<1>4. WellFormed(tx)
  BY <1>3, ShapeWellFormed
<1>5. ShapeTotals(tx, len, en, a, b)
  BY <1>3, ShapeSums
<1>6. SumBytes(a) = 0 /\ Money(a) = 0 /\ Len(a) = 0
  BY <1>1, FewFields
<1>7. b \in Seq(OutFields) /\ b \in Seq(Fields)
  BY <1>3, ShapeTypes DEF Shape
<1>8. SumBytes(b) \in Int /\ Money(b) \in Int
  BY <1>7, FieldSums
<1>9. Len(b) \in Nat /\ Len(a) + 1 + Len(b) \in Nat /\ Len(a) + 1 + Len(b) <= 3
  BY <1>1, <1>6, <1>7
<1>10. Count(Len(b)).bytes = 1 /\ Count(Len(a) + 1 + Len(b)).bytes = 1
  <2>1. PICK x, y : x = Len(b) /\ y = Len(a) + 1 + Len(b)
    OBVIOUS
  <2>2. x \in Nat /\ y \in Nat /\ x < 253 /\ y < 253
    BY <1>1, <1>9, <2>1
  <2>3. Count(x).bytes = 1 /\ Count(y).bytes = 1
    BY <2>2, FieldValues
  <2>4. QED
    BY <2>1, <2>3
<1>11. Paid(tx) = v
  BY <1>1, <1>5, <1>6, <1>8 DEF ShapeTotals
<1>12. en => TxBytes(tx) = 66 + len + SumBytes(b)
  <2>1. en => TxBytes(tx) = 65 + len + Count(Len(b)).bytes + SumBytes(b)
    BY <1>5 DEF ShapeTotals
  <2>2. QED
    BY <1>8, <1>10, <2>1
<1>13. ~ en => TxBytes(tx) = 76 + len + SumBytes(b)
  <2>1. ~ en => TxBytes(tx) = 75 + len + Count(Len(a) + 1 + Len(b)).bytes
                                + SumBytes(a) + SumBytes(b)
    BY <1>5 DEF ShapeTotals
  <2>2. QED
    BY <1>6, <1>8, <1>10, <2>1
<1>14. SumBytes(b) <= pool + 56
  BY <1>1
<1>15. TxBytes(tx) \in Int /\ TxBytes(tx) <= 132 + len + pool
  BY <1>3, <1>8, <1>12, <1>13, <1>14
<1>16. QED
  BY <1>4, <1>11, <1>15

(* Where coinb1 stops before the outputs when the extranonce is among them. *)
LEMMA OpeningBytes ==
  ASSUME NEW len \in Nat
  PROVE  /\ SumBytes(Opening(len, FALSE)) = 46 + len
         /\ Opening(len, FALSE) \in Seq(Fields) /\ Opening(len, TRUE) \in Seq(Fields)
<1>1. CbStart(len) \in Fields /\ SequenceNo \in Fields /\ EnPush \in Fields
  BY FieldTypes
<1>2. CbStart(len).bytes = 42 + len /\ SequenceNo.bytes = 4
  BY FieldValues
<1>3. /\ Opening(len, FALSE) = <<CbStart(len), SequenceNo>>
      /\ Opening(len, TRUE) = <<CbStart(len), EnPush>>
  BY Tuples DEF Opening
<1>4. PICK x, y : x = <<CbStart(len), SequenceNo>> /\ y = <<CbStart(len), EnPush>>
  OBVIOUS
<1>5. SumBytes(Opening(len, FALSE)) = 46 + len
  <2>1. SumBytes(x) = CbStart(len).bytes + SequenceNo.bytes
    BY <1>1, <1>4, FewFields
  <2>2. SumBytes(x) = 46 + len
    BY <1>2, <2>1
  <2>3. QED
    BY <1>3, <1>4, <2>2
<1>6. Opening(len, FALSE) \in Seq(Fields) /\ Opening(len, TRUE) \in Seq(Fields)
  <2>1. x \in Seq(Fields) /\ y \in Seq(Fields)
    BY <1>1, <1>4
  <2>2. QED
    BY <1>3, <1>4, <2>1
<1>7. QED
  BY <1>5, <1>6

(* The first half of the special type keeps to the buffer behind it. *)
LEMMA CompleteShort ==
  ASSUME NEW j \in JobType, NEW len \in 0..116, NEW os, NEW tx,
         Complete(j, len, os, 2, tx)
  PROVE  SumBytes(tx.c1) <= (IF 46 + len > 150 THEN 46 + len ELSE 150) + 1 + 13
<1>1. PICK a, ia, b, ib, p : CompleteWith(j, len, os, 2, tx, a, ia, b, ib, p)
  BY DEF Complete
<1>2. PICK c, r : c = b \o <<p, Witness>> /\ r = SpaceOf(j, len, 2)
  OBVIOUS
<1>3. r \in Nat /\ r <= 755
  <2>1. 2 \in 1..5
    OBVIOUS
  <2>2. SpaceIs(j, len, 2, r, FixedOf(j, len, 2))
    BY <1>2, <2>1, SpaceFacts
  <2>3. QED
    BY <2>2 DEF SpaceIs
<1>4. /\ a \in Seq(OutFields) /\ b \in Seq(OutFields) /\ p \in OutFields
      /\ 11 * (Len(a) + Len(b)) <= r /\ SumBytes(a) <= RoomOf(len)
      /\ ~ EnOf(len, 2) /\ Shape(tx, len, EnOf(len, 2), a, c)
  BY <1>1, <1>2 DEF CompleteWith, Chosen, EnOf
<1>5. PICK m, n : m = Len(a) /\ n = Len(b)
  OBVIOUS
<1>6. m \in Nat /\ n \in Nat /\ 11 * (m + n) <= 755
  BY <1>3, <1>4, <1>5
<1>7. Len(c) = n + 2
  BY <1>2, <1>4, <1>5, WithPool
<1>8. m + 1 + (n + 2) \in Nat /\ m + 1 + (n + 2) < 253
  BY <1>6
<1>9. Count(m + 1 + (n + 2)).bytes = 1
  BY <1>8, FieldValues
<1>10. SumBytes(tx.c1) = 59 + len + Count(m + 1 + (n + 2)).bytes + SumBytes(a)
  <2>1. ShapeTotals(tx, len, FALSE, a, c)
    <3>1. Shape(tx, len, FALSE, a, c)
      BY <1>4 DEF EnOf
    <3>2. QED
      BY <3>1, ShapeSums
  <2>2. QED
    BY <1>5, <1>7, <2>1 DEF ShapeTotals
<1>11. SumBytes(a) \in Int
  <2>1. a \in Seq(Fields)
    BY <1>4 DEF OutFields
  <2>2. QED
    BY <2>1, FieldSums
<1>12. SumBytes(a) <= RoomOf(len)
  BY <1>4
<1>13. QED
  BY <1>9, <1>10, <1>11, <1>12 DEF RoomOf

(* A transaction of n bytes that pays nobody but the pool, or that has no more
   than the space measured for it.                                          *)
Measured(j, len, t, n) ==
  \/ n <= 123 + len + PoolBytes(j)
  \/ SpaceOf(j, len, t) > 0 /\ n <= FixedOf(j, len, t) + SpaceOf(j, len, t) + 4

(* When the count takes one byte a complete transaction is such. *)
LEMMA CompleteMeasured ==
  ASSUME NEW j \in JobType, NEW len \in 0..116, NEW os, NEW t \in 1..5, NEW tx,
         Complete(j, len, os, t, tx), OneByteCount(tx)
  PROVE  TxBytes(tx) \in Int /\ Measured(j, len, t, TxBytes(tx))
<1>1. PICK a, ia, b, ib, p : CompleteWith(j, len, os, t, tx, a, ia, b, ib, p)
  BY DEF Complete
<1>2. PICK c, r, f, en, all :
        /\ c = b \o <<p, Witness>> /\ r = SpaceOf(j, len, t)
        /\ f = FixedOf(j, len, t) /\ en = EnOf(len, t) /\ all = tx.c1 \o tx.c2
  OBVIOUS
<1>3. r \in Nat /\ f = 119 + j.pool + len + (IF en THEN 0 ELSE 10)
  <2>1. SpaceIs(j, len, t, r, f)
    BY <1>2, SpaceFacts
  <2>2. QED
    BY <1>2, <2>1 DEF SpaceIs
<1>4. /\ a \in Seq(OutFields) /\ b \in Seq(OutFields) /\ p \in OutFields
      /\ p.bytes <= PoolBytes(j) /\ SumBytes(a) + SumBytes(b) <= r
      /\ Shape(tx, len, en, a, c)
  BY <1>1, <1>2 DEF CompleteWith, Chosen
<1>5. en \in BOOLEAN
  BY <1>2 DEF EnOf
<1>6. ShapeTotals(tx, len, en, a, c)
  BY <1>4, <1>5, ShapeSums
<1>7. Layout(all, en, a, c)
  BY <1>2, <1>4, <1>5, ShapeLayout
<1>8. SumBytes(c) = SumBytes(b) + p.bytes + 47 /\ p.bytes \in Nat
      /\ SumBytes(b) \in Int /\ c \in Seq(OutFields)
  BY <1>2, <1>4, WithPool
<1>9. SumBytes(a) \in Int
  <2>1. a \in Seq(Fields)
    BY <1>4 DEF OutFields
  <2>2. QED
    BY <2>1, FieldSums
<1>10. PICK x, y : x = Len(c) /\ y = Len(a) + 1 + Len(c)
  OBVIOUS
<1>11. ASSUME NEW i \in 3..4, NEW k, all[i] = Count(k) PROVE Count(k).bytes = 1
  <2>1. Len(all) = 5 + Len(a) + Len(c) /\ all \in Seq(Fields)
        /\ Len(a) \in Nat /\ Len(c) \in Nat
    BY <1>7 DEF Layout
  <2>2. i \in 1..Len(all)
    BY <2>1
  <2>3. i \in DOMAIN all
    BY <2>1, <2>2
  <2>4. all[i].kind = "count"
    BY <1>11 DEF Count, Field
  <2>5. all[i].bytes = 1
    BY <1>2, <2>3, <2>4 DEF OneByteCount
  <2>6. QED
    BY <1>11, <2>5
<1>12. en => Count(x).bytes = 1
  <2>1. en => all[4] = Count(x)
    BY <1>7, <1>10 DEF Layout
  <2>2. 4 \in 3..4
    OBVIOUS
  <2>3. QED
    BY <1>11, <2>1, <2>2
<1>13. ~ en => Count(y).bytes = 1
  <2>1. ~ en => all[3] = Count(y)
    BY <1>7, <1>10 DEF Layout
  <2>2. 3 \in 3..4
    OBVIOUS
  <2>3. QED
    BY <1>11, <2>1, <2>2
<1>14. PICK s, u, n : s = SumBytes(a) /\ u = SumBytes(b) /\ n = TxBytes(tx)
  OBVIOUS
<1>15. en => a = <<>>
  BY <1>4 DEF Shape
<1>16. en => s = 0
  BY <1>14, <1>15, FewFields
<1>17. en => n = 65 + len + 1 + (u + p.bytes + 47)
  <2>1. en => n = 65 + len + Count(x).bytes + SumBytes(c)
    BY <1>6, <1>10, <1>14 DEF ShapeTotals
  <2>2. QED
    BY <1>8, <1>12, <1>14, <2>1
<1>18. ~ en => n = 75 + len + 1 + s + (u + p.bytes + 47)
  <2>1. ~ en => n = 75 + len + Count(y).bytes + s + SumBytes(c)
    BY <1>6, <1>10, <1>14 DEF ShapeTotals
  <2>2. QED
    BY <1>8, <1>13, <1>14, <2>1
<1>19. /\ s \in Int /\ u \in Int /\ s + u <= r /\ len \in Nat
       /\ p.bytes \in Nat /\ p.bytes <= PoolBytes(j)
       /\ j.pool \in Nat /\ j.pool >= 2
  BY <1>4, <1>8, <1>9, <1>14, JobNumbers
<1>20. n \in Int
  BY <1>5, <1>17, <1>18, <1>19
<1>21. PoolBytes(j) \in Nat /\ PoolBytes(j) <= j.pool + 10
  BY <1>19 DEF PoolBytes
<1>22. CASE r > 0
  <2>1. n <= f + r + 4
    BY <1>3, <1>5, <1>16, <1>17, <1>18, <1>19, <1>20, <1>21, <1>22
  <2>2. QED
    BY <1>2, <1>14, <1>20, <1>22, <2>1 DEF Measured
<1>23. CASE ~ (r > 0)
  <2>1. n <= 123 + len + PoolBytes(j)
    BY <1>3, <1>5, <1>16, <1>17, <1>18, <1>19, <1>20, <1>21, <1>23
  <2>2. QED
    BY <1>14, <1>20, <2>1 DEF Measured
<1>24. QED
  BY <1>22, <1>23

(* The limits, in numbers. *)
LEMMA LimitsAre ==
  ASSUME job \in JobType, NEW n \in Int
  PROVE  WithinLimits(n) <=>
           /\ 117 + ReserveOf(job) + n <= job.free.size
           /\ ReserveOf(job) = 0 => 360 + 4 * n <= job.free.weight
<1>1. PICK h, s, w :
        h = ReserveOf(job) /\ s = job.free.size /\ w = job.free.weight
  OBVIOUS
<1>2. h \in {0, 84} /\ s \in Int /\ w \in Int /\ (h = 0 <=> job.header = 0)
      /\ HeaderExtra = h
  BY <1>1, JobNumbers DEF ReserveOf, HeaderExtra
<1>3. BlockBytes(n) = 117 + h + n
  BY <1>2 DEF BlockBytes
<1>4. h = 0 => BlockWeight(n) = 360 + 4 * n
  BY <1>2 DEF BlockWeight
<1>5. QED
  BY <1>1, <1>2, <1>3, <1>4 DEF WithinLimits

(* A measured transaction is within the limits of the template. *)
LEMMA MeasuredWithin ==
  ASSUME job \in JobType, input \in 0..116, NEW t \in 1..5, NEW n \in Int,
         Measured(job, input, t, n), WithinLimits(PoolAlone), WeightIsTighter
  PROVE  WithinLimits(n)
<1>1. PICK h, s, w, f, r :
        /\ h = ReserveOf(job) /\ s = job.free.size /\ w = job.free.weight
        /\ f = FixedOf(job, input, t) /\ r = SpaceOf(job, input, t)
  OBVIOUS
<1>2. h \in {0, 84} /\ s \in Int /\ w \in Int /\ job.pool \in Nat
  BY <1>1, JobNumbers DEF ReserveOf
<1>3. PICK q : q = 123 + input + PoolBytes(job)
  OBVIOUS
<1>4. PoolBytes(job) \in Nat /\ q \in Int
  BY <1>2, <1>3 DEF PoolBytes
<1>5. PoolAlone = q
  <2>1. input \in Nat
    OBVIOUS
  <2>2. PICK x : x = SumBytes(Opening(input, FALSE))
    OBVIOUS
  <2>3. x = 46 + input
    BY <2>1, <2>2, OpeningBytes
  <2>4. PoolAlone = x + 1 + 13 + 12 + PoolBytes(job) + 47 + 4
    BY <2>2 DEF PoolAlone, PoolBytes
  <2>5. QED
    BY <1>3, <1>4, <2>1, <2>3, <2>4
<1>6. 117 + h + q <= s /\ (h = 0 => 360 + 4 * q <= w)
  BY <1>1, <1>4, <1>5, LimitsAre
<1>7. n <= q \/ (r > 0 /\ n <= f + r + 4)
  <2>1. \/ n <= 123 + input + PoolBytes(job)
        \/ SpaceOf(job, input, t) > 0
           /\ n <= FixedOf(job, input, t) + SpaceOf(job, input, t) + 4
    BY DEF Measured
  <2>2. QED
    BY <1>1, <1>3, <2>1
<1>8. 117 + h + n <= s /\ (h = 0 => 360 + 4 * n <= w)
  <2>1. CASE n <= q
    BY <1>2, <1>4, <1>6, <2>1
  <2>2. CASE r > 0 /\ n <= f + r + 4
    <3>1. SpaceIs(job, input, t, r, f)
      BY <1>1, SpaceFacts
    <3>2. Within(s, w, h, f, r)
      BY <1>1, <3>1 DEF SpaceIs
    <3>3. Tighter(s, w)
      BY <1>1 DEF Tighter, WeightIsTighter
    <3>4. QED
      BY <2>2, <3>2, <3>3 DEF Within
  <2>3. QED
    BY <1>7, <2>1, <2>2
<1>9. QED
  BY <1>1, <1>8, LimitsAre

-----------------------------------------------------------------------------
(* The inductive invariant *)

HalvesType == [c1 : Seq(Fields), c2 : Seq(Fields)]

(* The payout types generated before t, and after it. *)
Before(t) == IF t = 1 THEN {} ELSE IF t = 3 THEN {1} ELSE IF t = 4 THEN {1, 3}
             ELSE IF t = 5 THEN {1, 3, 4} ELSE {1, 3, 4, 5}
After(t) == (1..5) \ (Before(t) \cup {t})

(* A payout transaction when its generation begins, and its loop variables. *)
StartedTx(len, t) == [c1 |-> Opening(len, EnOf(len, t)), c2 |-> <<>>]
FirstScan(j, len, t) ==
  [k |-> 0, room |-> SpaceOf(j, len, t),
   room1 |-> IF t = 2 THEN RoomOf(len) ELSE 0, mval |-> 0, m |-> 0,
   c1cnt |-> 0, c1full |-> FALSE, en_done |-> FALSE,
   size |-> SpaceOf(j, len, t)]

(* The first pass is under way: s are the loop variables of a walk that goes
   on; it is over after n outputs.                                          *)
Counting(v, os, t, s0, s) ==
  \E tr : /\ Walk(tr, s.k, t = 2, v, os, s0) /\ tr[s.k] = s
          /\ GoesOn(tr, s.k, v, os)

Ended(tr, n, v, os, t, s0) ==
  /\ Walk(tr, n, t = 2, v, os, s0)
  /\ n < Len(os) => n > 0 /\ Stops(v, os[n], tr[n - 1], tr[n])

(* The second pass follows the walk tr of the first one; what it has written
   is in the halves tx.                                                     *)
Announced(m, len, t) == m + (IF EnOf(len, t) THEN 2 ELSE 3)

Follows(tr, n, len, t, s) ==
  /\ s.k \in 0..n
  /\ s.room = tr[s.k].room /\ s.mval = tr[s.k].mval
  /\ s.m = Announced(tr[n].m, len, t) - tr[s.k].m
  /\ s.c1cnt = tr[n].c1cnt
  /\ t = 2 /\ s.k <= s.c1cnt => ~ s.en_done

Writing(v, os, len, t, s0, s, tx, tr, n, a, ia, b, ib) ==
  /\ Ended(tr, n, v, os, t, s0) /\ Follows(tr, n, len, t, s)
  /\ Written(tr, n, t = 2, os, s0, s.k, a, ia, b, ib)
  /\ Form(tx, len, t, s.en_done, Announced(tr[n].m, len, t), a, b)

Typed ==
  /\ job \in Jobs /\ active \in BOOLEAN /\ input \in 0..116
  /\ pc \in {"base", "offer", "generate", "fit", "count", "declare", "write",
              "finish", "done", "panic"}
  /\ outs \in Seq(OutType) /\ type \in 0..5 /\ index \in {0, 4}
  /\ coinbase \in [0..5 -> HalvesType]
  /\ scan \in ScanType /\ scan.mval <= job.value

Others ==
  /\ subsidy # Unbuilt =>
       \E len \in Nat : Simple(len, job.reward, job.pool, subsidy)
  /\ user # Unbuilt => pc = "done" /\ user = UserTx
  /\ index # 0 => pc = "done"
  /\ pc = "base" => \A t \in 1..5 : coinbase[t] = Unbuilt

Generated ==
  pc = "done" =>
    /\ Simple(input, job.value, job.pool, coinbase[0])
    /\ \A t \in 1..5 :
         IF index = 4 THEN Complete(job, input, outs, t, coinbase[t])
         ELSE \/ coinbase[t] = Unbuilt
              \/ Simple(input, job.value, job.pool, coinbase[t])

Paying == {"fit", "count", "declare", "write", "finish"}

Generating ==
  pc \in Paying =>
    /\ type \in 1..5 /\ outs # <<>>
    /\ Simple(input, job.value, job.pool, coinbase[0])
    /\ \A t \in Before(type) : Complete(job, input, outs, t, coinbase[t])
    /\ \A t \in After(type) : coinbase[t] = StartedTx(input, t)

InFirstPass ==
  /\ pc \in {"fit", "count", "declare"} => coinbase[type] = StartedTx(input, type)
  /\ pc = "count" =>
       Counting(job.value, outs, type, FirstScan(job, input, type), scan)
  /\ pc = "declare" =>
       \E tr, n : /\ Ended(tr, n, job.value, outs, type, FirstScan(job, input, type))
                  /\ tr[n] = scan

InSecondPass ==
  pc \in {"write", "finish"} =>
    \E tr, n, a, ia, b, ib :
      /\ Writing(job.value, outs, input, type, FirstScan(job, input, type), scan,
                 coinbase[type], tr, n, a, ia, b, ib)
      /\ pc = "write" => scan.k < n
      /\ pc = "finish" => scan.k = n

IInv ==
  Typed /\ Others /\ Generated /\ Generating /\ InFirstPass /\ InSecondPass

(* The order of the payout types. *)
LEMMA NextType ==
  ASSUME NEW t \in 1..5
  PROVE  /\ Before(t) \subseteq 1..5 /\ t \notin Before(t)
         /\ t = 2 => Before(t) \cup {t} = 1..5
         /\ t # 2 =>
              LET next == PayoutOrder[1 + CHOOSE i \in 1..4 : PayoutOrder[i] = t]
              IN /\ next \in After(t)
                 /\ Before(next) = Before(t) \cup {t}
<1>1. /\ PayoutOrder[1] = 1 /\ PayoutOrder[2] = 3 /\ PayoutOrder[3] = 4
      /\ PayoutOrder[4] = 5 /\ PayoutOrder[5] = 2
  BY DEF PayoutOrder
<1>2. t = 1 \/ t = 2 \/ t = 3 \/ t = 4 \/ t = 5
  OBVIOUS
<1>3. 1..5 = {1, 2, 3, 4, 5} /\ 1..4 = {1, 2, 3, 4}
  OBVIOUS
<1>4. Before(t) \subseteq 1..5 /\ t \notin Before(t)
  BY <1>2 DEF Before
<1>5. t = 2 => Before(t) \cup {t} = 1..5
  BY <1>3 DEF Before
<1>6. ASSUME t # 2
      PROVE  \E i \in 1..4 : PayoutOrder[i] = t
  BY <1>1, <1>2, <1>3, <1>6
<1>7. PICK c : c = CHOOSE i \in 1..4 : PayoutOrder[i] = t
  OBVIOUS
<1>8. t # 2 => c \in 1..4 /\ PayoutOrder[c] = t
  BY <1>6, <1>7
<1>9. PICK next : next = PayoutOrder[1 + c]
  OBVIOUS
<1>10. t # 2 => \/ t = 1 /\ next = 3
                \/ t = 3 /\ next = 4
                \/ t = 4 /\ next = 5
                \/ t = 5 /\ next = 2
  <2>1. t # 2 => c = 1 \/ c = 2 \/ c = 3 \/ c = 4
    BY <1>8
  <2>2. ASSUME t # 2, c = 1 PROVE t = 1 /\ next = 3
    <3>1. PayoutOrder[1] = t /\ next = PayoutOrder[2]
      BY <1>8, <1>9, <2>2
    <3>2. QED
      BY <1>1, <3>1
  <2>3. ASSUME t # 2, c = 2 PROVE t = 3 /\ next = 4
    <3>1. PayoutOrder[2] = t /\ next = PayoutOrder[3]
      BY <1>8, <1>9, <2>3
    <3>2. QED
      BY <1>1, <3>1
  <2>4. ASSUME t # 2, c = 3 PROVE t = 4 /\ next = 5
    <3>1. PayoutOrder[3] = t /\ next = PayoutOrder[4]
      BY <1>8, <1>9, <2>4
    <3>2. QED
      BY <1>1, <3>1
  <2>5. ASSUME t # 2, c = 4 PROVE t = 5 /\ next = 2
    <3>1. PayoutOrder[4] = t /\ next = PayoutOrder[5]
      BY <1>8, <1>9, <2>5
    <3>2. QED
      BY <1>1, <3>1
  <2>6. QED
    BY <2>1, <2>2, <2>3, <2>4, <2>5
<1>11. t # 2 => next \in After(t) /\ Before(next) = Before(t) \cup {t}
  BY <1>3, <1>10 DEF After, Before
<1>12. QED
  BY <1>4, <1>5, <1>7, <1>9, <1>11

(* A transaction of this shape has been built. *)
LEMMA ShapeBuilt ==
  ASSUME NEW tx, NEW len, NEW en \in BOOLEAN, NEW a, NEW b,
         Shape(tx, len, en, a, b)
  PROVE  tx # Unbuilt
<1>1. PICK all : all = tx.c1 \o tx.c2
  OBVIOUS
<1>2. Layout(all, en, a, b)
  BY <1>1, ShapeLayout
<1>3. Len(all) # 0
  BY <1>2 DEF Layout
<1>4. ASSUME tx = Unbuilt PROVE FALSE
  <2>1. tx.c1 = <<>> /\ tx.c2 = <<>>
    BY <1>4 DEF Unbuilt
  <2>2. all = <<>> \o <<>>
    BY <1>1, <2>1
  <2>3. all = <<>>
    BY <2>2
  <2>4. QED
    BY <1>3, <2>3
<1>5. QED
  BY <1>4

(* So have the transactions without payouts and the complete ones. *)
LEMMA TheyAreBuilt ==
  /\ \A len, v, pool, tx : Simple(len, v, pool, tx) => tx # Unbuilt
  /\ \A j, len, os, t, tx : Complete(j, len, os, t, tx) => tx # Unbuilt
<1>1. ASSUME NEW len, NEW v, NEW pool, NEW tx, Simple(len, v, pool, tx)
      PROVE  tx # Unbuilt
  <2>1. PICK b : Shape(tx, len, SpaceForEn(len), <<>>, b)
    BY <1>1 DEF Simple
  <2>2. SpaceForEn(len) \in BOOLEAN
    BY DEF SpaceForEn
  <2>3. QED
    BY <2>1, <2>2, ShapeBuilt
<1>2. ASSUME NEW j, NEW len, NEW os, NEW t, NEW tx, Complete(j, len, os, t, tx)
      PROVE  tx # Unbuilt
  <2>1. PICK a, ia, b, ib, p : CompleteWith(j, len, os, t, tx, a, ia, b, ib, p)
    BY <1>2 DEF Complete
  <2>2. Shape(tx, len, EnOf(len, t), a, b \o <<p, Witness>>)
    BY <2>1 DEF CompleteWith
  <2>3. EnOf(len, t) \in BOOLEAN
    BY DEF EnOf
  <2>4. QED
    BY <2>2, <2>3, ShapeBuilt
<1>3. QED
  BY <1>1, <1>2

(* The halves of the transactions without payouts, and of those begun. *)
LEMMA HalvesTyped ==
  ASSUME job \in JobType, NEW len \in Nat
  PROVE  /\ EmptyTx(len) \in HalvesType
         /\ \A t \in 1..5 : StartedTx(len, t) \in HalvesType
         /\ Unbuilt \in HalvesType
<1>1. ASSUME NEW x, NEW y, x \in Seq(Fields), y \in Seq(Fields)
      PROVE  [c1 |-> x, c2 |-> y] \in HalvesType
  BY <1>1 DEF HalvesType
<1>2. Unbuilt \in HalvesType
  <2>1. <<>> \in Seq(Fields)
    OBVIOUS
  <2>2. QED
    BY <1>1, <2>1 DEF Unbuilt
<1>3. ASSUME NEW t \in 1..5 PROVE StartedTx(len, t) \in HalvesType
  <2>1. Opening(len, EnOf(len, t)) \in Seq(Fields)
    <3>1. EnOf(len, t) \in BOOLEAN
      BY DEF EnOf
    <3>2. Opening(len, TRUE) \in Seq(Fields) /\ Opening(len, FALSE) \in Seq(Fields)
      BY OpeningBytes
    <3>3. QED
      BY <3>1, <3>2
  <2>2. <<>> \in Seq(Fields)
    OBVIOUS
  <2>3. QED
    BY <1>1, <2>1, <2>2 DEF StartedTx
<1>4. EmptyTx(len) \in HalvesType
  <2>1. PICK tx, b : tx = EmptyTx(len) /\ b = <<Output(job.pool, job.value)>> \o <<Witness>>
    OBVIOUS
  <2>2. job.value \in Int
    BY JobNumbers
  <2>3. Shape(tx, len, SpaceForEn(len), <<>>, b)
    BY <2>1, <2>2, PoolOnlyShape DEF EmptyTx
  <2>4. SpaceForEn(len) \in BOOLEAN
    BY DEF SpaceForEn
  <2>5. tx.c1 \in Seq(Fields) /\ tx.c2 \in Seq(Fields)
    BY <2>3, <2>4, ShapeTypes
  <2>6. \E x, y : tx = [c1 |-> x, c2 |-> y]
    BY <2>1 DEF EmptyTx, PoolOnly
  <2>7. PICK x, y : tx = [c1 |-> x, c2 |-> y]
    BY <2>6
  <2>8. x \in Seq(Fields) /\ y \in Seq(Fields)
    BY <2>5, <2>7
  <2>9. QED
    BY <1>1, <2>1, <2>7, <2>8
<1>5. QED
  BY <1>2, <1>3, <1>4

(* The list that is read from the pool's answer has a length. *)
LEMMA ParsedSome ==
  ASSUME job \in JobType, NEW r \in Seq([len : 0..255, value : Nat])
  PROVE  ParsedLength(r) \in 0..Len(r)
<1>1. PICK n : n = Len(r)
  OBVIOUS
<1>2. n \in Nat /\ job.value \in Nat
  BY <1>1, JobNumbers
<1>3. Affordable(r, 0)
  <2>1. [i \in 1..0 |-> r[i].value] = <<>>
    OBVIOUS
  <2>2. Total(<<>>) = 0
    BY TotalSmall
  <2>3. 0 <= job.value
    BY <1>2
  <2>4. QED
    BY <2>1, <2>2, <2>3 DEF Affordable
<1> DEFINE T == {i \in Nat : i < n /\ ~ Affordable(r, i + 1)}
<1>4. \E i \in 0..n : Affordable(r, i) /\ (i < n => ~ Affordable(r, i + 1))
  <2>1. CASE T = {}
    <3>1. CASE n = 0
      <4>1. 0 \in 0..n /\ ~ (0 < n)
        BY <3>1
      <4>2. QED
        BY <1>3, <4>1
    <3>2. CASE n # 0
      <4>1. n - 1 \in Nat /\ n - 1 < n /\ n - 1 + 1 = n
        BY <1>2, <3>2
      <4>2. Affordable(r, n - 1 + 1)
        BY <2>1, <4>1
      <4>3. Affordable(r, n) /\ n \in 0..n /\ ~ (n < n)
        BY <1>2, <4>1, <4>2
      <4>4. QED
        BY <4>3
    <3>3. QED
      BY <3>1, <3>2
  <2>2. CASE T # {}
    <3>1. T \in SUBSET Nat
      OBVIOUS
    <3>2. PICK i \in T : \A y \in T : i <= y
      <4> HIDE DEF T
      <4>1. QED
        BY <2>2, <3>1, LeastNat
    <3>3. i \in Nat /\ i < n /\ ~ Affordable(r, i + 1)
      OBVIOUS
    <3>4. Affordable(r, i)
      <4>1. CASE i = 0
        BY <1>3, <4>1
      <4>2. CASE i # 0
        <5>1. i - 1 \in Nat /\ i - 1 < n /\ i - 1 + 1 = i /\ ~ (i <= i - 1)
          BY <1>2, <3>3, <4>2
        <5>2. i - 1 \notin T
          BY <3>2, <5>1
        <5>3. Affordable(r, i - 1 + 1)
          BY <5>1, <5>2
        <5>4. QED
          BY <5>1, <5>3
      <4>3. QED
        BY <4>1, <4>2
    <3>5. i \in 0..n
      BY <1>2, <3>3
    <3>6. QED
      BY <3>3, <3>4, <3>5
  <2>3. QED
    BY <2>1, <2>2
<1>5. QED
  BY <1>1, <1>4 DEF ParsedLength

(* What is read is a list of outputs. *)
LEMMA ParsedTyped ==
  ASSUME job \in JobType, NEW r \in Responses
  PROVE  Parsed(r) \in Seq(OutType)
<1>1. r \in Seq([len : 0..255, value : Nat])
  BY ResponsesAssumption
<1>2. PICK n, l : n = ParsedLength(r) /\ l = SubSeq(r, 1, n)
  OBVIOUS
<1>3. n \in 0..Len(r)
  BY <1>1, <1>2, ParsedSome
<1>4. l \in Seq([len : 0..255, value : Nat])
  <2>1. PICK S : S = [len : 0..255, value : Nat]
    OBVIOUS
  <2>2. r \in Seq(S)
    BY <1>1, <2>1
  <2>3. SubSeq(r, 1, n) \in Seq(S)
    BY <1>3, <2>2, Beginning
  <2>4. QED
    BY <1>2, <2>1, <2>3
<1>5. CASE \E i \in DOMAIN l : l[i].len \notin 2..64
  <2>1. Parsed(r) = <<>>
    BY <1>2, <1>5 DEF Parsed
  <2>2. <<>> \in Seq(OutType)
    OBVIOUS
  <2>3. QED
    BY <2>1, <2>2
<1>6. CASE ~ \E i \in DOMAIN l : l[i].len \notin 2..64
  <2>1. Parsed(r) = l
    BY <1>2, <1>6 DEF Parsed
  <2>2. \A i \in DOMAIN l : l[i] \in [len : 0..255, value : Nat]
    <3>1. PICK S : S = [len : 0..255, value : Nat]
      OBVIOUS
    <3>2. l \in Seq(S)
      BY <1>4, <3>1
    <3>3. \A i \in DOMAIN l : l[i] \in S
      BY <3>2, Members
    <3>4. QED
      BY <3>1, <3>3
  <2>3. \A i \in DOMAIN l : l[i] \in OutType
    BY <1>6, <2>2 DEF OutType
  <2>4. l \in Seq(OutType)
    BY <1>4, <2>3
  <2>5. QED
    BY <2>1, <2>4
<1>7. QED
  BY <1>5, <1>6

(* What the CHIRP split may name is a list of outputs. *)
LEMMA ChirpTyped ==
  ASSUME outs \in Seq(OutType), NEW r \in ChirpFill
  PROVE  r \in Seq(OutType)
<1>1. CASE r \in {<<>>} \cup {s \in Responses : Affordable(s, Len(s))
                                 /\ \A i \in DOMAIN s : s[i].len \in 2..64}
  <2>1. CASE r = <<>>
    BY <2>1
  <2>2. CASE r \in Responses /\ \A i \in DOMAIN r : r[i].len \in 2..64
    <3>1. r \in Seq([len : 0..255, value : Nat])
      BY <2>2, ResponsesAssumption
    <3>2. \A i \in DOMAIN r : r[i] \in [len : 0..255, value : Nat]
      <4>1. PICK S : S = [len : 0..255, value : Nat]
        OBVIOUS
      <4>2. r \in Seq(S)
        BY <3>1, <4>1
      <4>3. \A i \in DOMAIN r : r[i] \in S
        BY <4>2, Members
      <4>4. QED
        BY <4>1, <4>3
    <3>3. \A i \in DOMAIN r : r[i] \in OutType
      BY <2>2, <3>2 DEF OutType
    <3>4. QED
      BY <3>1, <3>3
  <2>3. QED
    BY <1>1, <2>1, <2>2
<1>2. CASE r = outs
  BY <1>2
<1>3. QED
  BY <1>1, <1>2 DEF ChirpFill

-----------------------------------------------------------------------------
(* What follows from the invariant *)

(* The job is one of those assumed. *)
LEMMA JobTyped ==
  ASSUME IInv
  PROVE  /\ job \in JobType /\ input \in 0..116 /\ input \in Nat
         /\ job.value \in Nat /\ job.pool \in Nat
  <1>1. job \in Jobs /\ input \in 0..116
    BY DEF IInv, Typed
  <1>2. job \in JobType
    BY <1>1, JobsAssumption
  <1>3. QED
    BY <1>1, <1>2, JobNumbers

(* A finished transaction has no payouts or is complete. *)
LEMMA BuiltIs ==
  ASSUME IInv, NEW t \in Built
  PROVE  \/ Simple(input, job.value, job.pool, coinbase[t])
         \/ /\ t \in 1..5 /\ index = 4
            /\ Complete(job, input, outs, t, coinbase[t])
<1>1. pc = "done" /\ t \in 0..5 /\ coinbase[t] # Unbuilt
  BY DEF Built
<1>2. t = 0 \/ t \in 1..5
  BY <1>1
<1>3. /\ Simple(input, job.value, job.pool, coinbase[0])
      /\ \A u \in 1..5 :
           IF index = 4 THEN Complete(job, input, outs, u, coinbase[u])
           ELSE \/ coinbase[u] = Unbuilt
                \/ Simple(input, job.value, job.pool, coinbase[u])
  BY <1>1 DEF IInv, Generated
<1>4. QED
  BY <1>1, <1>2, <1>3

(* The type invariant. *)
LEMMA InvTypeOK == IInv => TypeOK
<1> SUFFICES ASSUME IInv PROVE TypeOK
  OBVIOUS
<1>1. Typed
  BY DEF IInv
<1>2. scan.room \in Nat /\ scan.room1 \in Nat /\ scan.m \in Nat /\ scan.k \in Nat
      /\ scan.mval \in Nat /\ job.value \in Nat /\ scan.mval <= job.value
  BY <1>1, JobTyped DEF Typed, ScanType
<1>3. Len(outs) \in Nat
  BY <1>1 DEF Typed
<1>4. ASSUME pc = "count" PROVE scan.k < Len(outs)
  BY <1>4 DEF IInv, InFirstPass, Counting, GoesOn
<1>5. ASSUME pc = "write" PROVE scan.k < Len(outs)
  <2>1. PICK tr, n, a, ia, b, ib :
          /\ Writing(job.value, outs, input, type, FirstScan(job, input, type),
                     scan, coinbase[type], tr, n, a, ia, b, ib)
          /\ scan.k < n
    BY <1>5 DEF IInv, InSecondPass
  <2>2. n \in 0..Len(outs)
    BY <2>1 DEF Writing, Ended, Walk
  <2>3. QED
    BY <1>2, <1>3, <2>1, <2>2
<1>6. pc \in {"count", "write"} => scan.k \in 0..(Len(outs) - 1)
  BY <1>2, <1>3, <1>4, <1>5
<1>7. scan.mval \in 0..job.value /\ input \in Nat
  BY <1>1, <1>2 DEF Typed
<1>8. QED
  BY <1>1, <1>2, <1>6, <1>7 DEF Typed, TypeOK

(* The halves make transactions. *)
LEMMA InvHalvesFormTx == IInv => HalvesFormTx
<1> SUFFICES ASSUME IInv PROVE HalvesFormTx
  OBVIOUS
<1>1. TypeOK
  BY InvTypeOK
<1>2. job \in JobType /\ input \in Nat /\ job.pool \in Nat
  BY JobTyped
<1>3. ASSUME NEW t \in Built PROVE WellFormed(coinbase[t])
  <2>1. CASE Simple(input, job.value, job.pool, coinbase[t])
    BY <1>2, <2>1, SimpleFacts
  <2>2. CASE Complete(job, input, outs, t, coinbase[t])
    BY <1>2, <2>2, CompletePays
  <2>3. QED
    BY <2>1, <2>2, BuiltIs
<1>4. ASSUME pc = "done" PROVE index \in Built
  <2>1. Simple(input, job.value, job.pool, coinbase[0])
    BY <1>4 DEF IInv, Generated
  <2>2. coinbase[0] # Unbuilt
    BY <2>1, TheyAreBuilt
  <2>3. CASE index = 0
    BY <1>4, <2>2, <2>3 DEF Built
  <2>4. CASE index = 4
    <3>1. 4 \in 1..5 /\ 4 \in 0..5
      OBVIOUS
    <3>2. Complete(job, input, outs, 4, coinbase[4])
      BY <1>4, <2>4, <3>1 DEF IInv, Generated
    <3>3. coinbase[4] # Unbuilt
      BY <3>2, TheyAreBuilt
    <3>4. QED
      BY <1>4, <2>4, <3>1, <3>3 DEF Built
  <2>5. index \in {0, 4}
    BY DEF IInv, Typed
  <2>6. QED
    BY <2>3, <2>4, <2>5
<1>5. ASSUME subsidy # Unbuilt PROVE WellFormed(subsidy)
  <2>1. PICK len \in Nat : Simple(len, job.reward, job.pool, subsidy)
    BY <1>5 DEF IInv, Others
  <2>2. QED
    BY <1>2, <2>1, SimpleFacts
<1>6. ASSUME user # Unbuilt, SpaceForEn(input) PROVE WellFormed(user)
  <2>1. pc = "done" /\ user = UserTx
    BY <1>6 DEF IInv, Others
  <2>2. Simple(input, job.value, job.pool, coinbase[0])
    BY <2>1 DEF IInv, Generated
  <2>3. WellFormed(UserTx)
    BY <1>2, <1>6, <2>2, UserSums
  <2>4. QED
    BY <2>1, <2>3
<1>7. QED
  BY <1>1, <1>3, <1>4, <1>5, <1>6 DEF HalvesFormTx

(* They pay what there is. *)
LEMMA InvNoMoneyLost == IInv => NoMoneyLost
<1> SUFFICES ASSUME IInv PROVE NoMoneyLost
  OBVIOUS
<1>1. job \in JobType /\ input \in Nat /\ job.pool \in Nat
  BY JobTyped
<1>2. ASSUME NEW t \in Built PROVE Paid(coinbase[t]) = job.value
  <2>1. CASE Simple(input, job.value, job.pool, coinbase[t])
    BY <1>1, <2>1, SimpleFacts
  <2>2. CASE Complete(job, input, outs, t, coinbase[t])
    BY <1>1, <2>2, CompletePays
  <2>3. QED
    BY <2>1, <2>2, BuiltIs
<1>3. ASSUME subsidy # Unbuilt PROVE Paid(subsidy) = job.reward
  <2>1. PICK len \in Nat : Simple(len, job.reward, job.pool, subsidy)
    BY <1>3 DEF IInv, Others
  <2>2. QED
    BY <1>1, <2>1, SimpleFacts
<1>4. ASSUME user # Unbuilt PROVE Paid(user) = job.value
  <2>1. pc = "done" /\ user = UserTx
    BY <1>4 DEF IInv, Others
  <2>2. Simple(input, job.value, job.pool, coinbase[0])
    BY <2>1 DEF IInv, Generated
  <2>3. Paid(UserTx) = job.value
    BY <1>1, <2>2, UserSums
  <2>4. QED
    BY <2>1, <2>3
<1>5. QED
  BY <1>2, <1>3, <1>4 DEF NoMoneyLost

(* The outputs are offered ones. *)
LEMMA InvPaidAsOffered == IInv => PaidAsOffered
<1> SUFFICES ASSUME IInv, index = 4, pc = "done", NEW t \in Built \ {0}
             PROVE  Offered(coinbase[t].c1 \o coinbase[t].c2, outs)
  BY DEF PaidAsOffered, Offered
<1>1. t \in 1..5
  BY DEF Built
<1>2. Complete(job, input, outs, t, coinbase[t])
  BY <1>1 DEF IInv, Generated
<1>3. outs \in Seq(OutType)
  BY DEF IInv, Typed
<1>4. QED
  BY <1>2, <1>3, CompleteOffered

(* The first half of the special type is short. *)
LEMMA InvSpecialHalfShort == IInv => SpecialHalfShort
<1> SUFFICES ASSUME IInv, 2 \in Built, index = 4 PROVE SpecialHalfShort
  BY DEF SpecialHalfShort
<1>1. job \in JobType /\ input \in 0..116 /\ input \in Nat
  BY JobTyped
<1>2. 2 \in 1..5
  OBVIOUS
<1>3. pc = "done"
  BY DEF Built
<1>4. Complete(job, input, outs, 2, coinbase[2])
  BY <1>2, <1>3 DEF IInv, Generated
<1>5. SumBytes(coinbase[2].c1)
        <= (IF 46 + input > 150 THEN 46 + input ELSE 150) + 1 + 13
  BY <1>1, <1>4, CompleteShort
<1>6. SumBytes(Opening(input, FALSE)) = 46 + input
  BY <1>1, OpeningBytes
<1>7. QED
  BY <1>5, <1>6 DEF SpecialHalfShort

(* The blocks are within the limits. *)
LEMMA InvTemplateLimitsKept == IInv => TemplateLimitsKept
<1> SUFFICES ASSUME IInv, WithinLimits(PoolAlone), WeightIsTighter, NEW t \in Built,
                    OneByteCount(coinbase[t])
             PROVE  WithinLimits(TxBytes(coinbase[t]))
  BY DEF TemplateLimitsKept
<1>1. job \in JobType /\ input \in 0..116 /\ input \in Nat /\ job.pool \in Nat
  BY JobTyped
<1>2. PICK n : n = TxBytes(coinbase[t])
  OBVIOUS
<1>3. \E u \in 1..5 : n \in Int /\ Measured(job, input, u, n)
  <2>1. CASE Simple(input, job.value, job.pool, coinbase[t])
    <3>1. n \in Int /\ n <= 132 + input + job.pool
      BY <1>1, <1>2, <2>1, SimpleFacts
    <3>2. PoolBytes(job) \in Nat /\ job.pool + 9 <= PoolBytes(job)
      BY <1>1 DEF PoolBytes
    <3>3. n <= 123 + input + PoolBytes(job)
      BY <1>1, <3>1, <3>2
    <3>4. Measured(job, input, 1, n) /\ 1 \in 1..5
      BY <3>3 DEF Measured
    <3>5. QED
      BY <3>1, <3>4
  <2>2. CASE t \in 1..5 /\ Complete(job, input, outs, t, coinbase[t])
    BY <1>1, <1>2, <2>2, CompleteMeasured
  <2>3. QED
    BY <2>1, <2>2, BuiltIs
<1>4. PICK u \in 1..5 : n \in Int /\ Measured(job, input, u, n)
  BY <1>3
<1>5. WithinLimits(n)
  BY <1>1, <1>4, MeasuredWithin
<1>6. QED
  BY <1>2, <1>5

-----------------------------------------------------------------------------
(* The invariant holds at first, and every step keeps it *)

(* No loop variables. *)
LEMMA NoScanTyped == NoScan \in ScanType /\ NoScan.mval = 0
  BY DEF NoScan, ScanType

(* Nothing is generated yet. *)
LEMMA InvInit == Init => IInv
<1> SUFFICES ASSUME Init PROVE IInv
  OBVIOUS
<1>1. job \in JobType /\ job.value \in Nat
  <2>1. job \in JobType
    BY JobsAssumption DEF Init
  <2>2. QED
    BY <2>1, JobNumbers
<1>2. coinbase \in [0..5 -> HalvesType]
  <2>1. 0 \in Nat
    OBVIOUS
  <2>2. Unbuilt \in HalvesType
    BY <1>1, <2>1, HalvesTyped
  <2>3. QED
    BY <2>2 DEF Init
<1>3. outs \in Seq(OutType)
  <2>1. outs = <<>>
    BY DEF Init
  <2>2. <<>> \in Seq(OutType)
    OBVIOUS
  <2>3. QED
    BY <2>1, <2>2
<1>4. Typed
  <2>1. scan \in ScanType /\ scan.mval = 0
    BY NoScanTyped DEF Init
  <2>2. QED
    BY <1>1, <1>2, <1>3, <2>1 DEF Init, Typed
<1>5. Others
  BY DEF Init, Others
<1>6. pc = "base"
  BY DEF Init
<1>7. Generated
  BY <1>6 DEF Generated
<1>8. Generating
  BY <1>6 DEF Generating, Paying
<1>9. InFirstPass
  BY <1>6 DEF InFirstPass
<1>10. InSecondPass
  BY <1>6 DEF InSecondPass
<1>11. QED
  BY <1>4, <1>5, <1>7, <1>8, <1>9, <1>10 DEF IInv

(* Where no payout transaction is being generated the last three parts say
   nothing.                                                                 *)
LEMMA NotPaying ==
  pc' \notin Paying => Generating' /\ InFirstPass' /\ InSecondPass'
<1> SUFFICES ASSUME pc' \notin Paying PROVE Generating' /\ InFirstPass' /\ InSecondPass'
  OBVIOUS
<1>1. Generating'
  BY DEF Generating
<1>2. InFirstPass'
  BY DEF InFirstPass, Paying
<1>3. InSecondPass'
  BY DEF InSecondPass, Paying
<1>4. QED
  BY <1>1, <1>2, <1>3

(* The empty transaction, and that of the subsidy. *)
LEMMA KeepsGenerateBase == IInv /\ GenerateBase => IInv'
<1> SUFFICES ASSUME IInv, GenerateBase PROVE IInv'
  OBVIOUS
<1>1. /\ pc = "base" /\ job' = job /\ active' = active /\ outs' = outs
      /\ user' = user /\ type' = type /\ scan' = scan /\ index' = index
      /\ pc' \in {"panic", "offer", "done"}
  BY DEF GenerateBase
<1>2. pc' \notin Paying
  BY <1>1 DEF Paying
<1>3. Typed /\ Others /\ user = Unbuilt /\ index = 0
  <2>1. Typed /\ Others
    BY DEF IInv
  <2>2. QED
    BY <1>1, <2>1 DEF Typed, Others
<1>4. job \in JobType /\ job.value \in Nat /\ active \in BOOLEAN
  BY <1>3, JobTyped DEF Typed
<1>5. CASE TagsPanic
  <2>1. pc' = "panic" /\ input' = input /\ coinbase' = coinbase /\ subsidy' = subsidy
    BY <1>5 DEF GenerateBase
  <2>2. Typed'
    BY <1>1, <1>3, <2>1 DEF Typed
  <2>3. Others'
    BY <1>1, <1>3, <2>1 DEF Others
  <2>4. Generated'
    BY <2>1 DEF Generated
  <2>5. QED
    BY <1>2, <2>2, <2>3, <2>4, NotPaying DEF IInv
<1>6. CASE ~ TagsPanic
  <2>1. /\ pc' \in {"offer", "done"} /\ input' = InputBytes
        /\ coinbase' = [coinbase EXCEPT ![0] = EmptyTx(input')]
        /\ subsidy' = IF job.new THEN SubsidyTx(input') ELSE subsidy
    BY <1>6 DEF GenerateBase
  <2>2. input' \in 0..116
    BY <1>4, <1>6, <2>1, InputBound
  <2>3. PICK len : len = input'
    OBVIOUS
  <2>4. len \in Nat
    BY <2>2, <2>3
  <2>5. EmptyTx(len) \in HalvesType
    BY <1>4, <2>4, HalvesTyped
  <2>6. Simple(len, job.value, job.pool, EmptyTx(len))
        /\ Simple(len, job.reward, job.pool, SubsidyTx(len))
    BY <1>4, <2>4, PoolOnlySimple
  <2>7. coinbase \in [0..5 -> HalvesType] /\ \A t \in 1..5 : coinbase[t] = Unbuilt
    BY <1>1, <1>3 DEF Typed, Others
  <2>8. PICK x : x = EmptyTx(len)
    OBVIOUS
  <2>9. coinbase' = [coinbase EXCEPT ![0] = x] /\ x \in HalvesType
    BY <2>1, <2>3, <2>5, <2>8
  <2>10. /\ coinbase' \in [0..5 -> HalvesType] /\ coinbase'[0] = x
         /\ \A t \in 1..5 : coinbase'[t] = Unbuilt
    BY <2>7, <2>9
  <2>11. Typed'
    BY <1>1, <1>3, <2>1, <2>2, <2>10 DEF Typed
  <2>12. Others'
    <3>1. subsidy' # Unbuilt => \E l \in Nat : Simple(l, job.reward, job.pool, subsidy')
      <4>1. CASE job.new
        BY <2>1, <2>3, <2>4, <2>6, <4>1
      <4>2. CASE ~ job.new
        BY <1>3, <2>1, <4>2 DEF Others
      <4>3. QED
        BY <4>1, <4>2
    <3>2. user' = Unbuilt /\ index' = 0 /\ pc' # "base"
      BY <1>1, <1>3, <2>1
    <3>3. QED
      BY <1>1, <3>1, <3>2 DEF Others
  <2>13. Generated'
    <3>1. Simple(input', job'.value, job'.pool, coinbase'[0])
      BY <1>1, <2>3, <2>6, <2>8, <2>10
    <3>2. index' # 4
      BY <1>1, <1>3
    <3>3. QED
      BY <2>10, <3>1, <3>2 DEF Generated
  <2>14. QED
    BY <1>2, <2>11, <2>12, <2>13, NotPaying DEF IInv
<1>7. QED
  BY <1>5, <1>6

(* The pool's outputs come. *)
LEMMA KeepsFetchOutputs == IInv /\ FetchOutputs => IInv'
<1> SUFFICES ASSUME IInv, FetchOutputs PROVE IInv'
  OBVIOUS
<1>1. /\ pc = "offer" /\ pc' = "generate" /\ job' = job /\ active' = active
      /\ input' = input /\ coinbase' = coinbase /\ subsidy' = subsidy
      /\ user' = user /\ type' = type /\ scan' = scan /\ index' = index
  BY DEF FetchOutputs
<1>2. job \in JobType
  BY JobTyped
<1>3. outs' \in Seq(OutType)
  <2>1. CASE active
    <3>1. PICK r \in Responses : outs' = Parsed(r)
      BY <2>1 DEF FetchOutputs
    <3>2. QED
      BY <1>2, <3>1, ParsedTyped
  <2>2. CASE ~ active
    <3>1. outs' = <<>>
      BY <2>2 DEF FetchOutputs
    <3>2. <<>> \in Seq(OutType)
      OBVIOUS
    <3>3. QED
      BY <3>1, <3>2
  <2>3. QED
    BY <2>1, <2>2
<1>4. Typed'
  <2>1. Typed
    BY DEF IInv
  <2>2. QED
    BY <1>1, <1>3, <2>1 DEF Typed
<1>5. Others'
  <2>1. Others
    BY DEF IInv
  <2>2. QED
    BY <1>1, <2>1 DEF Others
<1>6. Generated'
  BY <1>1 DEF Generated
<1>7. pc' \notin Paying
  BY <1>1 DEF Paying
<1>8. QED
  BY <1>4, <1>5, <1>6, <1>7, NotPaying DEF IInv

(* The connection comes up or goes down. *)
LEMMA KeepsConnectionChanges == IInv /\ ConnectionChanges => IInv'
<1> SUFFICES ASSUME IInv, ConnectionChanges PROVE IInv'
  OBVIOUS
<1>1. /\ pc \in {"offer", "generate"} /\ pc' = pc /\ job' = job
      /\ active' = ~ active /\ outs' = outs
      /\ input' = input /\ coinbase' = coinbase /\ subsidy' = subsidy
      /\ user' = user /\ type' = type /\ scan' = scan /\ index' = index
  BY DEF ConnectionChanges
<1>2. Typed'
  <2>1. Typed
    BY DEF IInv
  <2>2. active' \in BOOLEAN
    BY <1>1
  <2>3. QED
    BY <1>1, <2>1, <2>2 DEF Typed
<1>3. Others'
  <2>1. Others
    BY DEF IInv
  <2>2. QED
    BY <1>1, <2>1 DEF Others
<1>4. Generated'
  BY <1>1 DEF Generated
<1>5. pc' \notin Paying
  BY <1>1 DEF Paying
<1>6. QED
  BY <1>2, <1>3, <1>4, <1>5, NotPaying DEF IInv

(* A miner's own transaction is built. *)
LEMMA KeepsBuildUserCoinbase == IInv /\ BuildUserCoinbase => IInv'
<1> SUFFICES ASSUME IInv, BuildUserCoinbase PROVE IInv'
  OBVIOUS
<1>1. /\ pc = "done" /\ pc' = pc /\ job' = job /\ active' = active
      /\ outs' = outs /\ user' = UserTx
      /\ input' = input /\ coinbase' = coinbase /\ subsidy' = subsidy
      /\ type' = type /\ scan' = scan /\ index' = index
  BY DEF BuildUserCoinbase
<1>2. Typed'
  <2>1. Typed
    BY DEF IInv
  <2>2. QED
    BY <1>1, <2>1 DEF Typed
<1>3. Others'
  <2>1. Others
    BY DEF IInv
  <2>2. UserTx' = UserTx
    BY <1>1 DEF UserTx, Bps
  <2>3. user' = UserTx'
    BY <1>1, <2>2
  <2>4. QED
    BY <1>1, <2>1, <2>3 DEF Others
<1>4. Generated'
  <2>1. Generated
    BY DEF IInv
  <2>2. QED
    BY <1>1, <2>1 DEF Generated
<1>5. pc' \notin Paying
  BY <1>1 DEF Paying
<1>6. QED
  BY <1>2, <1>3, <1>4, <1>5, NotPaying DEF IInv

(* The loop variables before the first pass are those of a walk. *)
LEMMA FirstScanFresh ==
  ASSUME NEW j \in JobType, NEW len \in 0..116, NEW t \in 1..5
  PROVE  /\ FirstScan(j, len, t) \in ScanType
         /\ Fresh(FirstScan(j, len, t), t = 2, j.value)
         /\ FirstScan(j, len, t).k = 0
<1>1. PICK r, q : r = SpaceOf(j, len, t) /\ q = IF t = 2 THEN RoomOf(len) ELSE 0
  OBVIOUS
<1>2. r \in Nat
  <2>1. SpaceIs(j, len, t, r, FixedOf(j, len, t))
    BY <1>1, SpaceFacts
  <2>2. QED
    BY <2>1 DEF SpaceIs
<1>3. q \in Nat
  BY <1>1 DEF RoomOf
<1>4. PICK s : s = FirstScan(j, len, t)
  OBVIOUS
<1>5. s = [k |-> 0, room |-> r, room1 |-> q, mval |-> 0, m |-> 0, c1cnt |-> 0,
           c1full |-> FALSE, en_done |-> FALSE, size |-> r]
  BY <1>1, <1>4 DEF FirstScan
<1>6. s \in ScanType
  BY <1>2, <1>3, <1>5 DEF ScanType
<1>7. /\ s.k = 0 /\ s.room = r /\ s.room1 = q /\ s.mval = 0 /\ s.m = 0
      /\ s.c1cnt = 0 /\ ~ s.c1full /\ s.size = r
  BY <1>5
<1>8. 0 <= j.value
  BY JobNumbers
<1>9. Point(s, 0, t = 2, j.value, s)
  BY <1>2, <1>3, <1>6, <1>7, <1>8 DEF Point
<1>10. Fresh(s, t = 2, j.value)
  BY <1>7, <1>9 DEF Fresh
<1>11. QED
  BY <1>4, <1>6, <1>7, <1>10

(* The empty transaction once more, and the beginning of the payout types. *)
LEMMA KeepsGenerateEmpty == IInv /\ GenerateEmpty => IInv'
<1> SUFFICES ASSUME IInv, GenerateEmpty PROVE IInv'
  OBVIOUS
<1>1. /\ pc = "generate" /\ outs' \in ChirpFill /\ job' = job
      /\ active' = active /\ user' = user /\ scan' = scan
  BY DEF GenerateEmpty
<1>2. Typed /\ Others
  BY DEF IInv
<1>3. job \in JobType /\ job.value \in Nat /\ active \in BOOLEAN
  BY <1>2, JobTyped DEF Typed
<1>4. user = Unbuilt /\ index = 0
  BY <1>1, <1>2 DEF Others
<1>5. outs' \in Seq(OutType)
  BY <1>1, <1>2, ChirpTyped DEF Typed
<1>6. CASE TagsPanic
  <2>1. /\ pc' = "panic" /\ input' = input /\ coinbase' = coinbase
        /\ subsidy' = subsidy /\ type' = type /\ index' = index
    BY <1>6 DEF GenerateEmpty
  <2>2. Typed'
    BY <1>1, <1>2, <1>5, <2>1 DEF Typed
  <2>3. Others'
    BY <1>1, <1>2, <1>4, <2>1 DEF Others
  <2>4. Generated'
    BY <2>1 DEF Generated
  <2>5. pc' \notin Paying
    BY <2>1 DEF Paying
  <2>6. QED
    BY <2>2, <2>3, <2>4, <2>5, NotPaying DEF IInv
<1>7. CASE ~ TagsPanic
  <2>1. input' = InputBytes
    BY <1>7 DEF GenerateEmpty
  <2>2. input' \in 0..116
    BY <1>3, <1>7, <2>1, InputBound
  <2>3. PICK len : len = input'
    OBVIOUS
  <2>4. len \in Nat
    BY <2>2, <2>3
  <2>5. EmptyTx(len) \in HalvesType /\ \A t \in 1..5 : StartedTx(len, t) \in HalvesType
    BY <1>3, <2>4, HalvesTyped
  <2>6. Simple(len, job.value, job.pool, EmptyTx(len))
        /\ Simple(len, job.reward, job.pool, SubsidyTx(len))
    BY <1>3, <2>4, PoolOnlySimple
  <2>7. PICK x, y : x = EmptyTx(len) /\ y = [t \in 1..5 |-> StartedTx(len, t)]
    OBVIOUS
  <2>8. CASE outs' = <<>>
    <3>1. /\ coinbase' = [t \in 0..5 |-> x] /\ subsidy' = SubsidyTx(len)
          /\ index' = 0 /\ pc' = "done" /\ type' = type
      BY <1>7, <2>3, <2>7, <2>8 DEF GenerateEmpty
    <3>2. coinbase' \in [0..5 -> HalvesType] /\ \A t \in 0..5 : coinbase'[t] = x
      BY <2>5, <2>7, <3>1
    <3>3. Typed'
      BY <1>1, <1>2, <1>5, <2>2, <3>1, <3>2 DEF Typed
    <3>4. Others'
      <4>1. \E l \in Nat : Simple(l, job'.reward, job'.pool, subsidy')
        BY <1>1, <2>4, <2>6, <3>1
      <4>2. user' = Unbuilt /\ index' = 0 /\ pc' # "base"
        BY <1>1, <1>4, <3>1
      <4>3. QED
        BY <4>1, <4>2 DEF Others
    <3>5. Generated'
      <4>1. \A t \in 0..5 : Simple(input', job'.value, job'.pool, coinbase'[t])
        BY <1>1, <2>3, <2>6, <2>7, <3>2
      <4>2. 0 \in 0..5 /\ 1..5 \subseteq 0..5
        OBVIOUS
      <4>3. index' # 4
        BY <3>1
      <4>4. QED
        BY <4>1, <4>2, <4>3 DEF Generated
    <3>6. pc' \notin Paying
      BY <3>1 DEF Paying
    <3>7. QED
      BY <3>3, <3>4, <3>5, <3>6, NotPaying DEF IInv
  <2>9. CASE outs' # <<>>
    <3>1. /\ coinbase' =
               [t \in 0..5 |->
                  IF t = 0 THEN EmptyTx(input')
                  ELSE [c1 |-> Opening(input', SpaceForEn(input') /\ t # 2),
                        c2 |-> <<>>]]
          /\ subsidy' = subsidy /\ index' = index /\ pc' = "fit" /\ type' = 1
      BY <1>7, <2>9 DEF GenerateEmpty
    <3>2. coinbase' = [t \in 0..5 |-> IF t = 0 THEN x ELSE StartedTx(len, t)]
      BY <2>3, <2>7, <3>1 DEF StartedTx, EnOf, SpaceForEn
    <3>3. ASSUME NEW t \in 0..5, t # 0 PROVE t \in 1..5
      BY <3>3
    <3>4. /\ coinbase' \in [0..5 -> HalvesType] /\ coinbase'[0] = x
          /\ \A t \in 1..5 : coinbase'[t] = StartedTx(len, t)
      BY <2>5, <2>7, <3>2, <3>3
    <3>5. Typed'
      BY <1>1, <1>2, <1>5, <2>2, <3>1, <3>4 DEF Typed
    <3>6. Others'
      BY <1>1, <1>2, <1>4, <3>1 DEF Others
    <3>7. Generated'
      BY <3>1 DEF Generated
    <3>8. Generating'
      <4>1. Before(1) = {} /\ After(1) \subseteq 1..5 /\ 1 \in 1..5
        BY DEF Before, After
      <4>2. Simple(input', job'.value, job'.pool, coinbase'[0])
        BY <1>1, <2>3, <2>6, <2>7, <3>4
      <4>3. \A t \in After(1) : coinbase'[t] = StartedTx(input', t)
        BY <2>3, <3>4, <4>1
      <4>4. QED
        BY <2>9, <3>1, <4>1, <4>2, <4>3 DEF Generating
    <3>9. InFirstPass'
      <4>1. coinbase'[1] = StartedTx(input', 1)
        BY <2>3, <3>4
      <4>2. QED
        BY <3>1, <4>1 DEF InFirstPass
    <3>10. InSecondPass'
      BY <3>1 DEF InSecondPass
    <3>11. QED
      BY <3>5, <3>6, <3>7, <3>8, <3>9, <3>10 DEF IInv
  <2>10. QED
    BY <2>8, <2>9
<1>8. QED
  BY <1>6, <1>7

(* While a payout transaction is being generated the job, the list and the
   finished transactions are left alone.                                    *)
LEMMA SamePayout ==
  ASSUME IInv, pc \in Paying, pc' \in Paying, type' = type,
         job' = job, active' = active, outs' = outs, input' = input,
         subsidy' = subsidy, user' = user, index' = index,
         coinbase' \in [0..5 -> HalvesType],
         \A t \in 0..5 : t # type => coinbase'[t] = coinbase[t],
         scan' \in ScanType, scan'.mval <= job.value
  PROVE  Typed' /\ Others' /\ Generated' /\ Generating'
<1>1. pc \notin {"base", "done"} /\ pc' \notin {"base", "done"}
  BY DEF Paying
<1>2. Typed'
  <2>1. Typed
    BY DEF IInv
  <2>2. pc' \in {"base", "offer", "generate", "fit", "count", "declare",
                  "write", "finish", "done", "panic"}
    BY DEF Paying
  <2>3. QED
    BY <2>1, <2>2 DEF Typed
<1>3. Others'
  <2>1. Others
    BY DEF IInv
  <2>2. QED
    BY <1>1, <2>1 DEF Others
<1>4. Generated'
  BY <1>1 DEF Generated
<1>5. Generating'
  <2>1. /\ type \in 1..5 /\ outs # <<>>
        /\ Simple(input, job.value, job.pool, coinbase[0])
        /\ \A t \in Before(type) : Complete(job, input, outs, t, coinbase[t])
        /\ \A t \in After(type) : coinbase[t] = StartedTx(input, t)
    BY DEF IInv, Generating
  <2>2. Before(type) \subseteq 1..5 /\ type \notin Before(type)
    BY <2>1, NextType
  <2>3. /\ \A t \in Before(type) : t \in 0..5 /\ t # type
        /\ \A t \in After(type) : t \in 0..5 /\ t # type
        /\ 0 \in 0..5 /\ 0 # type
    BY <2>1, <2>2 DEF After
  <2>4. /\ coinbase'[0] = coinbase[0]
        /\ \A t \in Before(type) : coinbase'[t] = coinbase[t]
        /\ \A t \in After(type) : coinbase'[t] = coinbase[t]
    BY <2>3
  <2>5. Simple(input', job'.value, job'.pool, coinbase'[0])
    BY <2>1, <2>4
  <2>6. \A t \in Before(type') : Complete(job', input', outs', t, coinbase'[t])
    BY <2>1, <2>4
  <2>7. \A t \in After(type') : coinbase'[t] = StartedTx(input', t)
    BY <2>1, <2>4
  <2>8. QED
    BY <2>1, <2>5, <2>6, <2>7 DEF Generating
<1>6. QED
  BY <1>2, <1>3, <1>4, <1>5

(* What is known while one is being generated. *)
LEMMA PayoutFacts ==
  ASSUME IInv, pc \in Paying
  PROVE  /\ type \in 1..5 /\ type \in 0..5 /\ outs \in Seq(OutType)
         /\ outs # <<>> /\ Len(outs) \in Nat /\ Len(outs) > 0
         /\ coinbase \in [0..5 -> HalvesType] /\ scan \in ScanType
         /\ coinbase[type] \in HalvesType
         /\ (EnInInput <=> EnOf(input, type)) /\ (Special <=> type = 2)
<1>1. /\ outs \in Seq(OutType) /\ coinbase \in [0..5 -> HalvesType]
      /\ scan \in ScanType
  BY DEF IInv, Typed
<1>2. type \in 1..5 /\ outs # <<>>
  BY DEF IInv, Generating
<1>3. type \in 0..5
  BY <1>2
<1>4. Len(outs) \in Nat /\ Len(outs) > 0
  BY <1>1, <1>2
<1>5. (EnInInput <=> EnOf(input, type)) /\ (Special <=> type = 2)
  BY DEF EnInInput, EnOf, Special, SpaceForEn
<1>6. QED
  BY <1>1, <1>2, <1>3, <1>4, <1>5

(* The space is measured. *)
LEMMA KeepsFit == IInv /\ Fit => IInv'
<1> SUFFICES ASSUME IInv, Fit PROVE IInv'
  OBVIOUS
<1>1. /\ pc = "fit" /\ pc' = "count" /\ job' = job /\ active' = active
      /\ outs' = outs /\ input' = input /\ coinbase' = coinbase
      /\ subsidy' = subsidy /\ user' = user /\ type' = type /\ index' = index
  BY DEF Fit
<1>2. pc \in Paying /\ pc' \in Paying
  BY <1>1 DEF Paying
<1>3. job \in JobType /\ input \in 0..116 /\ job.value \in Nat /\ input \in Nat
  BY JobTyped
<1>4. /\ type \in 1..5 /\ outs \in Seq(OutType) /\ Len(outs) \in Nat
      /\ Len(outs) > 0 /\ coinbase \in [0..5 -> HalvesType]
      /\ (EnInInput <=> EnOf(input, type)) /\ (Special <=> type = 2)
  BY <1>2, PayoutFacts
<1>5. coinbase[type] = StartedTx(input, type)
  BY <1>1 DEF IInv, InFirstPass
<1>6. PICK r, q : r = FitToTemplate(MaxSize[type], RequiredBytes) /\ q = Coinb1Room
  OBVIOUS
<1>7. r = SpaceOf(job, input, type)
  <2>1. RequiredBytes = FixedOf(job, input, type)
    BY <1>4 DEF RequiredBytes, FixedOf
  <2>2. HeaderReserve = ReserveOf(job)
    BY DEF HeaderReserve, ReserveOf
  <2>3. QED
    BY <1>6, <2>1, <2>2 DEF FitToTemplate, SpaceOf, FitTo
<1>8. q = IF type = 2 THEN RoomOf(input) ELSE 0
  <2>1. CASE type = 2
    <3>1. coinbase[2].c1 = Opening(input, FALSE)
      <4>1. coinbase[2] = StartedTx(input, 2)
        BY <1>5, <2>1
      <4>2. ~ EnOf(input, 2)
        BY DEF EnOf
      <4>3. Opening(input, EnOf(input, 2)) = Opening(input, FALSE)
        BY <4>2 DEF Opening
      <4>4. QED
        <5>1. coinbase[2].c1 = Opening(input, EnOf(input, 2))
          BY <4>1 DEF StartedTx
        <5>2. QED
          BY <4>3, <5>1
    <3>2. SumBytes(Opening(input, FALSE)) = 46 + input
      BY <1>3, OpeningBytes
    <3>3. 150 - SumBytes(coinbase[2].c1) = 104 - input
      <4>1. PICK z : z = SumBytes(coinbase[2].c1)
        OBVIOUS
      <4>2. z = 46 + input
        BY <3>1, <3>2, <4>1
      <4>3. 150 - z = 104 - input
        BY <1>3, <4>2
      <4>4. QED
        BY <4>1, <4>3
    <3>4. q = IF 104 - input > 0 THEN 104 - input ELSE 0
      BY <1>4, <1>6, <2>1, <3>3 DEF Coinb1Room
    <3>5. QED
      BY <2>1, <3>4 DEF RoomOf
  <2>2. CASE type # 2
    <3>1. q = 0
      BY <1>4, <1>6, <2>2 DEF Coinb1Room
    <3>2. QED
      BY <2>2, <3>1
  <2>3. QED
    BY <2>1, <2>2
<1>9. scan' = FirstScan(job, input, type)
  <2>1. scan' = [NoScan EXCEPT !.size = r, !.room = r, !.room1 = q]
    BY <1>6 DEF Fit
  <2>2. scan' = [k |-> 0, room |-> r, room1 |-> q, mval |-> 0, m |-> 0,
                 c1cnt |-> 0, c1full |-> FALSE, en_done |-> FALSE, size |-> r]
    BY <2>1 DEF NoScan
  <2>3. QED
    BY <1>7, <1>8, <2>2 DEF FirstScan
<1>10. PICK s, v, sp : s = scan' /\ v = job.value /\ sp = (type = 2)
  OBVIOUS
<1>11. s \in ScanType /\ Fresh(s, sp, v) /\ s.k = 0
  BY <1>3, <1>4, <1>9, <1>10, FirstScanFresh
<1>12. scan' \in ScanType /\ scan'.mval <= job.value
  BY <1>10, <1>11 DEF Fresh, Point
<1>13. Typed' /\ Others' /\ Generated' /\ Generating'
  BY <1>1, <1>2, <1>4, <1>12, SamePayout
<1>14. Counting(job.value, outs, type, s, s)
  <2>1. PICK tr : tr = [j \in {0} |-> s]
    OBVIOUS
  <2>2. sp \in BOOLEAN /\ v \in Nat /\ Point(s, 0, sp, v, s)
    BY <1>3, <1>10, <1>11 DEF Fresh
  <2>3. Walk(tr, 0, sp, v, outs, s)
    BY <1>4, <2>1, <2>2, WalkStarts
  <2>4. GoesOn(tr, 0, v, outs) /\ tr[0] = s
    BY <1>4, <2>1 DEF GoesOn
  <2>5. QED
    BY <1>10, <1>11, <2>3, <2>4 DEF Counting
<1>15. InFirstPass'
  <2>1. coinbase'[type'] = StartedTx(input', type')
    BY <1>1, <1>5
  <2>2. Counting(job'.value, outs', type', FirstScan(job', input', type'), scan')
    BY <1>1, <1>9, <1>10, <1>14
  <2>3. pc' = "count"
    BY <1>1
  <2>4. QED
    <3>1. pc' # "declare"
      BY <2>3
    <3>2. QED
      BY <2>1, <2>2, <3>1 DEF InFirstPass
<1>16. InSecondPass'
  BY <1>1 DEF InSecondPass
<1>17. QED
  BY <1>13, <1>15, <1>16 DEF IInv

(* An output is counted, or skipped. *)
LEMMA KeepsCountOutput == IInv /\ CountOutput => IInv'
<1> SUFFICES ASSUME IInv, CountOutput PROVE IInv'
  OBVIOUS
<1>1. /\ pc = "count" /\ pc' \in {"count", "declare"} /\ job' = job
      /\ active' = active
      /\ outs' = outs /\ input' = input /\ coinbase' = coinbase
      /\ subsidy' = subsidy /\ user' = user /\ type' = type /\ index' = index
  BY DEF CountOutput
<1>2. pc \in Paying /\ pc' \in Paying
  BY <1>1 DEF Paying
<1>3. job \in JobType /\ input \in 0..116 /\ job.value \in Nat
  BY JobTyped
<1>4. /\ type \in 1..5 /\ outs \in Seq(OutType) /\ Len(outs) \in Nat
      /\ coinbase \in [0..5 -> HalvesType] /\ scan \in ScanType
      /\ (Special <=> type = 2)
  BY <1>2, PayoutFacts
<1>5. PICK v, sp, s0 : /\ v = job.value /\ sp = (type = 2)
                       /\ s0 = FirstScan(job, input, type)
  OBVIOUS
<1>6. v \in Nat /\ sp \in BOOLEAN /\ s0 \in ScanType
  BY <1>3, <1>4, <1>5, FirstScanFresh
<1>7. PICK k : k = scan.k
  OBVIOUS
<1>8. PICK tr : /\ Walk(tr, k, sp, v, outs, s0) /\ tr[k] = scan
                /\ GoesOn(tr, k, v, outs)
  BY <1>1, <1>5, <1>7 DEF IInv, InFirstPass, Counting
<1>9. k \in Nat /\ k < Len(outs)
  BY <1>4, <1>7, <1>8 DEF GoesOn, ScanType
<1>10. PICK o : o = outs[k + 1]
  OBVIOUS
<1>11. o \in OutType
  BY <1>4, <1>9, <1>10
<1>12. Fits <=> Takes(v, o, scan)
  BY <1>5, <1>7, <1>10 DEF Fits, Takes, Next1
<1>13. scan' = Counted(sp, v, o, scan)
  <2>1. Next1 = o
    BY <1>7, <1>10 DEF Next1
  <2>2. CASE ~ Fits
    <3>1. scan' = [scan EXCEPT !.k = @ + 1]
      BY <2>2 DEF CountOutput
    <3>2. QED
      BY <1>12, <2>2, <3>1 DEF Counted
  <2>3. CASE Fits
    <3>1. PICK f : f = (Special /\ ~ scan.c1full /\ o.len + 9 <= scan.room1)
      OBVIOUS
    <3>2. f = First(sp, o, scan)
      BY <1>4, <1>5, <3>1 DEF First
    <3>3. scan' = [scan EXCEPT !.k = @ + 1, !.m = @ + 1,
                     !.room = @ - (o.len + 9),
                     !.mval = @ + o.value,
                     !.room1 = IF f THEN @ - (o.len + 9) ELSE @,
                     !.c1cnt = IF f THEN @ + 1 ELSE @,
                     !.c1full = ~ f]
      BY <2>1, <2>3, <3>1 DEF CountOutput
    <3>4. QED
      BY <1>12, <2>3, <3>2, <3>3 DEF Counted
  <2>4. QED
    BY <2>2, <2>3
<1>14. PICK q : /\ Walk(q, k + 1, sp, v, outs, s0)
                /\ q[k] = tr[k]
                /\ q[k + 1] = Counted(sp, v, outs[k + 1], tr[k])
                /\ \A j \in 0..k : q[j] = tr[j]
  BY <1>4, <1>6, <1>8, WalkGoesOn
<1>15. q[k + 1] = scan' /\ q[k] = scan
  BY <1>8, <1>10, <1>13, <1>14
<1>16. Point(scan', k + 1, sp, v, s0)
  <2>1. k + 1 \in 0..k + 1
    BY <1>9
  <2>2. QED
    BY <1>14, <1>15, <2>1 DEF Walk
<1>17. scan' \in ScanType /\ scan'.mval <= job.value /\ scan'.k = k + 1
  BY <1>5, <1>16 DEF Point
<1>18. Typed' /\ Others' /\ Generated' /\ Generating'
  BY <1>1, <1>2, <1>4, <1>17, SamePayout
<1>19. pc' = IF k + 1 = Len(outs) \/ Stops(v, o, scan, scan')
             THEN "declare" ELSE "count"
  BY <1>5, <1>12, <1>17 DEF CountOutput, Stops, Enough
<1>20. coinbase'[type'] = StartedTx(input', type')
  BY <1>1 DEF IInv, InFirstPass
<1>21. ASSUME pc' = "declare"
       PROVE  Ended(q, k + 1, v, outs, type, s0) /\ q[k + 1] = scan'
  <2>1. k + 1 < Len(outs) => Stops(v, outs[k + 1], q[k], q[k + 1])
    BY <1>4, <1>9, <1>10, <1>15, <1>19, <1>21
  <2>2. (k + 1) - 1 = k /\ k + 1 > 0
    BY <1>9
  <2>3. k + 1 < Len(outs) =>
          k + 1 > 0 /\ Stops(v, outs[k + 1], q[(k + 1) - 1], q[k + 1])
    BY <2>1, <2>2
  <2>4. Walk(q, k + 1, type = 2, v, outs, s0)
    BY <1>5, <1>14
  <2>5. QED
    BY <1>15, <2>3, <2>4 DEF Ended
<1>22. ASSUME pc' = "count" PROVE Counting(v, outs, type, s0, scan')
  <2>1. k + 1 # Len(outs) /\ ~ Stops(v, o, scan, scan')
    BY <1>19, <1>22
  <2>2. k + 1 < Len(outs)
    BY <1>4, <1>9, <2>1
  <2>3. ASSUME NEW j \in 0..k PROVE ~ Stops(v, outs[j + 1], q[j], q[j + 1])
    <3>1. CASE j = k
      BY <1>10, <1>15, <2>1, <3>1
    <3>2. CASE j # k
      <4>1. j \in 0..k - 1 /\ j + 1 \in 0..k
        BY <1>9, <3>2
      <4>2. ~ Stops(v, outs[j + 1], tr[j], tr[j + 1])
        BY <1>8, <4>1 DEF GoesOn
      <4>3. q[j] = tr[j] /\ q[j + 1] = tr[j + 1]
        BY <1>14, <4>1
      <4>4. QED
        BY <4>2, <4>3
    <3>3. QED
      BY <3>1, <3>2
  <2>4. GoesOn(q, k + 1, v, outs)
    <3>1. (k + 1) - 1 = k
      BY <1>9
    <3>2. \A j \in 0..(k + 1) - 1 : ~ Stops(v, outs[j + 1], q[j], q[j + 1])
      BY <2>3, <3>1
    <3>3. QED
      BY <2>2, <3>2 DEF GoesOn
  <2>5. QED
    BY <1>5, <1>14, <1>15, <1>17, <2>4 DEF Counting
<1>23. InFirstPass'
  <2>1. CASE pc' = "declare"
    <3>1. \E w, n : /\ Ended(w, n, job'.value, outs', type',
                             FirstScan(job', input', type'))
                    /\ w[n] = scan'
      BY <1>1, <1>5, <1>21, <2>1
    <3>2. QED
      <4>1. pc' # "count"
        BY <2>1
      <4>2. QED
        BY <1>20, <3>1, <4>1 DEF InFirstPass
  <2>2. CASE pc' = "count"
    <3>1. Counting(job'.value, outs', type', FirstScan(job', input', type'), scan')
      BY <1>1, <1>5, <1>22, <2>2
    <3>2. QED
      <4>1. pc' # "declare"
        BY <2>2
      <4>2. QED
        BY <1>20, <3>1, <4>1 DEF InFirstPass
  <2>3. QED
    BY <1>1, <2>1, <2>2
<1>24. InSecondPass'
  BY <1>1 DEF InSecondPass
<1>25. QED
  BY <1>18, <1>23, <1>24 DEF IInv

(* q is cb but for the halves x and y of the transaction t. *)
Changed(q, cb, t, x, y) ==
  /\ q \in [0..5 -> HalvesType]
  /\ q[t].c1 = x /\ q[t].c2 = y
  /\ \A u \in 0..5 : u # t => q[u] = cb[u]

(* One or both halves are replaced. *)
LEMMA HalvesChange ==
  ASSUME NEW cb \in [0..5 -> HalvesType], NEW t \in 0..5,
         NEW x \in Seq(Fields), NEW y \in Seq(Fields)
  PROVE  /\ Changed([cb EXCEPT ![t].c1 = x, ![t].c2 = y], cb, t, x, y)
         /\ Changed([cb EXCEPT ![t].c1 = x], cb, t, x, cb[t].c2)
         /\ Changed([cb EXCEPT ![t].c2 = y], cb, t, cb[t].c1, y)
         /\ Changed(cb, cb, t, cb[t].c1, cb[t].c2)
<1>1. cb[t] \in HalvesType
  OBVIOUS
<1>2. PICK f, g : cb[t] = [c1 |-> f, c2 |-> g] /\ f \in Seq(Fields) /\ g \in Seq(Fields)
  BY <1>1 DEF HalvesType
<1>3. ASSUME NEW h, NEW i, h \in Seq(Fields), i \in Seq(Fields)
      PROVE  Changed([cb EXCEPT ![t] = [c1 |-> h, c2 |-> i]], cb, t, h, i)
  <2>1. PICK z : z = [c1 |-> h, c2 |-> i]
    OBVIOUS
  <2>2. z \in HalvesType /\ z.c1 = h /\ z.c2 = i
    BY <1>3, <2>1 DEF HalvesType
  <2>3. PICK q : q = [cb EXCEPT ![t] = z]
    OBVIOUS
  <2>4. q \in [0..5 -> HalvesType] /\ q[t] = z
        /\ \A u \in 0..5 : u # t => q[u] = cb[u]
    BY <2>2, <2>3
  <2>5. Changed(q, cb, t, h, i)
    BY <2>2, <2>4 DEF Changed
  <2>6. QED
    BY <2>1, <2>3, <2>5
<1>r. /\ [cb[t] EXCEPT !.c1 = x, !.c2 = y] = [c1 |-> x, c2 |-> y]
      /\ [cb[t] EXCEPT !.c1 = x] = [c1 |-> x, c2 |-> g]
      /\ [cb[t] EXCEPT !.c2 = y] = [c1 |-> f, c2 |-> y]
  <2>1. PICK z : z = [c1 |-> f, c2 |-> g]
    OBVIOUS
  <2>2. [z EXCEPT !.c1 = x] = [c1 |-> x, c2 |-> g]
    BY <2>1
  <2>3. [z EXCEPT !.c1 = x, !.c2 = y] = [c1 |-> x, c2 |-> y]
    <3>1. [z EXCEPT !.c1 = x, !.c2 = y] = [[z EXCEPT !.c1 = x] EXCEPT !.c2 = y]
      OBVIOUS
    <3>2. [[c1 |-> x, c2 |-> g] EXCEPT !.c2 = y] = [c1 |-> x, c2 |-> y]
      OBVIOUS
    <3>3. QED
      BY <2>2, <3>1, <3>2
  <2>4. [z EXCEPT !.c2 = y] = [c1 |-> f, c2 |-> y]
    BY <2>1
  <2>5. cb[t] = z
    BY <1>2, <2>1
  <2>6. QED
    BY <2>2, <2>3, <2>4, <2>5
<1>4. [cb EXCEPT ![t].c1 = x, ![t].c2 = y] = [cb EXCEPT ![t] = [c1 |-> x, c2 |-> y]]
  <2>1. [cb EXCEPT ![t].c1 = x, ![t].c2 = y]
          = [cb EXCEPT ![t] = [cb[t] EXCEPT !.c1 = x, !.c2 = y]]
    OBVIOUS
  <2>2. QED
    BY <1>r, <2>1
<1>5. [cb EXCEPT ![t].c1 = x] = [cb EXCEPT ![t] = [c1 |-> x, c2 |-> g]]
  <2>1. [cb EXCEPT ![t].c1 = x] = [cb EXCEPT ![t] = [cb[t] EXCEPT !.c1 = x]]
    OBVIOUS
  <2>2. QED
    BY <1>r, <2>1
<1>6. [cb EXCEPT ![t].c2 = y] = [cb EXCEPT ![t] = [c1 |-> f, c2 |-> y]]
  <2>1. [cb EXCEPT ![t].c2 = y] = [cb EXCEPT ![t] = [cb[t] EXCEPT !.c2 = y]]
    OBVIOUS
  <2>2. QED
    BY <1>r, <2>1
<1>7. cb[t].c1 = f /\ cb[t].c2 = g
  BY <1>2
<1>8. Changed(cb, cb, t, f, g)
  BY <1>7 DEF Changed
<1>9. QED
  BY <1>2, <1>3, <1>4, <1>5, <1>6, <1>7, <1>8

(* The halves written so far are fields. *)
LEMMA FormTyped ==
  ASSUME NEW tx, NEW len \in Nat, NEW t, NEW d \in BOOLEAN, NEW n \in Nat,
         NEW a \in Seq(Fields), NEW b \in Seq(Fields),
         Form(tx, len, t, d, n, a, b)
  PROVE  tx.c1 \in Seq(Fields) /\ tx.c2 \in Seq(Fields)
<1>1. PICK h, u, e, g : /\ h = <<CbStart(len), SequenceNo, Count(n)>>
                        /\ u = <<SequenceNo, Count(n)>> /\ e = EnTail(d)
                        /\ g = <<CbStart(len), EnPush>>
  OBVIOUS
<1>2. h \in Seq(Fields) /\ u \in Seq(Fields) /\ e \in Seq(Fields) /\ g \in Seq(Fields)
  BY <1>1, HeadFields
<1>3. u \o b \in Seq(Fields) /\ h \o a \in Seq(Fields)
  BY <1>2
<1>4. h \o a \o e \in Seq(Fields)
  BY <1>2, <1>3
<1>5. EnOf(len, t) => tx.c1 = g /\ tx.c2 = u \o b
  BY <1>1 DEF Form
<1>6. ~ EnOf(len, t) => tx.c1 = h \o a \o e /\ tx.c2 = b
  BY <1>1 DEF Form
<1>7. QED
  BY <1>2, <1>3, <1>4, <1>5, <1>6

(* The count is written. *)
LEMMA KeepsDeclare == IInv /\ Declare => IInv'
<1> SUFFICES ASSUME IInv, Declare PROVE IInv'
  OBVIOUS
<1>1. /\ pc = "declare" /\ pc' = "write" /\ job' = job /\ active' = active
      /\ outs' = outs /\ input' = input
      /\ subsidy' = subsidy /\ user' = user /\ type' = type /\ index' = index
  BY DEF Declare
<1>2. pc \in Paying /\ pc' \in Paying
  BY <1>1 DEF Paying
<1>3. job \in JobType /\ input \in 0..116 /\ job.value \in Nat /\ input \in Nat
  BY JobTyped
<1>4. /\ type \in 1..5 /\ type \in 0..5 /\ outs \in Seq(OutType)
      /\ Len(outs) \in Nat /\ Len(outs) > 0
      /\ coinbase \in [0..5 -> HalvesType] /\ scan \in ScanType
      /\ (EnInInput <=> EnOf(input, type)) /\ (Special <=> type = 2)
  BY <1>2, PayoutFacts
<1>5. PICK v, sp, s0 : /\ v = job.value /\ sp = (type = 2)
                       /\ s0 = FirstScan(job, input, type)
  OBVIOUS
<1>6. v \in Nat /\ sp \in BOOLEAN /\ s0 \in ScanType /\ Fresh(s0, sp, v)
  BY <1>3, <1>4, <1>5, FirstScanFresh
<1>7. PICK tr, n : Ended(tr, n, v, outs, type, s0) /\ tr[n] = scan
  BY <1>1, <1>5 DEF IInv, InFirstPass
<1>8. Walk(tr, n, sp, v, outs, s0) /\ (n < Len(outs) => n > 0)
  BY <1>5, <1>7 DEF Ended
<1>9. n \in 0..Len(outs) /\ 0 \in 0..n /\ n \in 0..n /\ 0 < n
  <2>1. n \in 0..Len(outs)
    BY <1>8 DEF Walk
  <2>2. QED
    BY <1>4, <1>8, <2>1
<1>10. scan.size = s0.size /\ tr[0] = s0 /\ s0.room = s0.size /\ s0.mval = 0
       /\ s0.m = 0
  <2>1. Point(scan, n, sp, v, s0)
    BY <1>7, <1>8, <1>9 DEF Walk
  <2>2. QED
    BY <1>6, <1>8, <2>1 DEF Walk, Point, Fresh
<1>11. PICK N : N = Announced(scan.m, input, type)
  OBVIOUS
<1>12. N \in Nat /\ scan.m + (IF EnInInput THEN 2 ELSE 3) = N
  BY <1>4, <1>11, SMTT(30) DEF Announced, ScanType
<1>13. PICK d : d = (~ EnInInput /\ ~ Special)
  OBVIOUS
<1>14. d \in BOOLEAN /\ (d <=> ~ EnOf(input, type) /\ type # 2)
  BY <1>4, <1>13
<1>15. scan' = [scan EXCEPT !.k = 0, !.room = scan.size, !.mval = 0, !.m = N,
                            !.en_done = d]
  BY <1>12, <1>13 DEF Declare, SecondPass
<1>16. scan' = [k |-> 0, room |-> scan.size, room1 |-> scan.room1, mval |-> 0,
                m |-> N, c1cnt |-> scan.c1cnt, c1full |-> scan.c1full,
                en_done |-> d, size |-> scan.size]
  BY <1>4, <1>15 DEF ScanType
<1>17. scan' \in ScanType /\ scan'.mval <= job.value
  <2>1. /\ scan.size \in Nat /\ scan.room1 \in Nat /\ scan.c1cnt \in Nat
        /\ scan.c1full \in BOOLEAN
    BY <1>4 DEF ScanType
  <2>2. scan' \in ScanType
    BY <1>12, <1>14, <1>16, <2>1 DEF ScanType
  <2>3. QED
    BY <1>3, <1>16, <2>2
<1>18. coinbase[type].c1 = Opening(input, EnOf(input, type)) /\ coinbase[type].c2 = <<>>
  <2>1. coinbase[type] = StartedTx(input, type)
    BY <1>1 DEF IInv, InFirstPass
  <2>2. QED
    BY <2>1 DEF StartedTx
<1>19. \E x, y : /\ Changed(coinbase', coinbase, type, x, y)
                 /\ EnOf(input, type) => /\ x = Opening(input, TRUE)
                                         /\ y = <<SequenceNo, Count(N)>>
                 /\ ~ EnOf(input, type) =>
                      /\ x = Opening(input, FALSE) \o <<Count(N)>>
                               \o EnTail(type # 2)
                      /\ y = <<>>
  <2>1. /\ Opening(input, FALSE) \in Seq(Fields) /\ Opening(input, TRUE) \in Seq(Fields)
        /\ <<SequenceNo, Count(N)>> \in Seq(Fields) /\ <<>> \in Seq(Fields)
        /\ EnTail(type # 2) \in Seq(Fields)
    <3>1. Opening(input, FALSE) \in Seq(Fields) /\ Opening(input, TRUE) \in Seq(Fields)
      BY <1>3, OpeningBytes
    <3>2. /\ <<SequenceNo, Count(N)>> \in Seq(Fields)
          /\ \A e \in BOOLEAN : EnTail(e) \in Seq(Fields)
      BY <1>3, <1>12, HeadFields
    <3>3. (type # 2) \in BOOLEAN /\ <<>> \in Seq(Fields)
      OBVIOUS
    <3>4. QED
      BY <3>1, <3>2, <3>3
  <2>2. CASE EnOf(input, type)
    <3>1. PICK y : y = <<SequenceNo, Count(N)>>
      OBVIOUS
    <3>2. coinbase' = [coinbase EXCEPT ![type].c2 = y]
      BY <1>4, <1>12, <2>2, <3>1 DEF Declare
    <3>3. y \in Seq(Fields)
      BY <2>1, <3>1
    <3>4. Changed(coinbase', coinbase, type, coinbase[type].c1, y)
      BY <1>4, <3>2, <3>3, HalvesChange
    <3>5. coinbase[type].c1 = Opening(input, TRUE)
      BY <1>18, <2>2 DEF Opening
    <3>6. QED
      BY <2>2, <3>1, <3>4, <3>5
  <2>3. CASE ~ EnOf(input, type)
    <3>1. coinbase[type].c1 = Opening(input, FALSE)
      BY <1>18, <2>3 DEF Opening
    <3>2. PICK o, c, e : /\ o = Opening(input, FALSE) /\ c = <<Count(N)>>
                         /\ e = EnTail(type # 2)
      OBVIOUS
    <3>3. PICK x : x = o \o c \o e
      OBVIOUS
    <3>4. coinbase' = [coinbase EXCEPT ![type].c1 = o \o c \o e]
      <4>1. e = IF Special THEN <<>> ELSE <<EnOutput>>
        BY <1>4, <3>2 DEF EnTail
      <4>2. QED
        BY <1>4, <1>12, <2>3, <3>1, <3>2, <4>1 DEF Declare
    <3>5. c \in Seq(Fields)
      <4>1. Count(N) \in Fields
        BY <1>12, FieldTypes
      <4>2. QED
        BY <3>2, <4>1
    <3>6. x \in Seq(Fields)
      <4>1. o \in Seq(Fields) /\ e \in Seq(Fields)
        BY <2>1, <3>2
      <4>2. o \o c \in Seq(Fields)
        BY <3>5, <4>1
      <4>3. QED
        BY <3>3, <4>1, <4>2
    <3>7. Changed(coinbase', coinbase, type, x, coinbase[type].c2)
      BY <1>4, <3>3, <3>4, <3>6, HalvesChange
    <3>8. QED
      BY <1>18, <2>3, <3>2, <3>3, <3>7
  <2>4. QED
    BY <2>2, <2>3
<1>20. PICK x, y : /\ Changed(coinbase', coinbase, type, x, y)
                   /\ EnOf(input, type) => /\ x = Opening(input, TRUE)
                                           /\ y = <<SequenceNo, Count(N)>>
                   /\ ~ EnOf(input, type) =>
                        /\ x = Opening(input, FALSE) \o <<Count(N)>>
                                 \o EnTail(type # 2)
                        /\ y = <<>>
  BY <1>19
<1>21. /\ coinbase' \in [0..5 -> HalvesType]
       /\ coinbase'[type].c1 = x /\ coinbase'[type].c2 = y
       /\ \A u \in 0..5 : u # type => coinbase'[u] = coinbase[u]
  BY <1>20 DEF Changed
<1>22. Typed' /\ Others' /\ Generated' /\ Generating'
  BY <1>1, <1>2, <1>17, <1>21, SamePayout
<1>23. PICK tx : tx = coinbase'[type]
  OBVIOUS
<1>24. Form(tx, input, type, ~ EnOf(input, type) /\ type # 2, N, <<>>, <<>>)
  <2>1. Declared(tx, input, type, N)
    BY <1>20, <1>21, <1>23 DEF Declared
  <2>2. QED
    BY <1>3, <1>12, <2>1, FormStarts
<1>25. scan'.en_done <=> (~ EnOf(input, type) /\ type # 2)
  BY <1>14, <1>16
<1>26. Form(tx, input, type, scan'.en_done, N, <<>>, <<>>)
  BY <1>24, <1>25 DEF Form, EnTail
<1>27. Follows(tr, n, input, type, scan')
  <2>1. /\ scan'.k = 0 /\ scan'.room = scan.size /\ scan'.mval = 0 /\ scan'.m = N
        /\ scan'.c1cnt = scan.c1cnt
    BY <1>16
  <2>2. N = Announced(tr[n].m, input, type) - tr[0].m
    BY <1>7, <1>10, <1>11, <1>12
  <2>3. QED
    BY <1>7, <1>9, <1>10, <1>25, <2>1, <2>2 DEF Follows
<1>28. Written(tr, n, sp, outs, s0, 0, <<>>, <<>>, <<>>, <<>>)
  BY <1>4, <1>6, <1>8, NothingWritten
<1>29. scan'.k = 0
  BY <1>16
<1>30. Writing(v, outs, input, type, s0, scan', tx, tr, n, <<>>, <<>>, <<>>, <<>>)
  BY <1>5, <1>7, <1>11, <1>26, <1>27, <1>28, <1>29 DEF Writing
<1>31. InSecondPass'
  <2>1. Writing(job'.value, outs', input', type', FirstScan(job', input', type'),
                scan', coinbase'[type'], tr, n, <<>>, <<>>, <<>>, <<>>)
    BY <1>1, <1>5, <1>23, <1>30
  <2>2. scan'.k < n /\ pc' # "finish"
    BY <1>1, <1>9, <1>29
  <2>3. QED
    BY <2>1, <2>2 DEF InSecondPass
<1>32. InFirstPass'
  BY <1>1 DEF InFirstPass
<1>33. QED
  BY <1>22, <1>31, <1>32 DEF IInv

(* An output is written, or skipped. *)
LEMMA KeepsWriteOutput == IInv /\ WriteOutput => IInv'
<1> SUFFICES ASSUME IInv, WriteOutput PROVE IInv'
  OBVIOUS
<1>1. /\ pc = "write" /\ pc' \in {"write", "finish"} /\ job' = job
      /\ active' = active /\ outs' = outs /\ input' = input
      /\ subsidy' = subsidy /\ user' = user /\ type' = type /\ index' = index
  BY DEF WriteOutput
<1>2. pc \in Paying /\ pc' \in Paying
  BY <1>1 DEF Paying
<1>3. job \in JobType /\ input \in 0..116 /\ job.value \in Nat /\ input \in Nat
  BY JobTyped
<1>4. /\ type \in 1..5 /\ type \in 0..5 /\ outs \in Seq(OutType)
      /\ Len(outs) \in Nat
      /\ coinbase \in [0..5 -> HalvesType] /\ scan \in ScanType
      /\ coinbase[type] \in HalvesType
      /\ (EnInInput <=> EnOf(input, type)) /\ (Special <=> type = 2)
  BY <1>2, PayoutFacts
<1>5. PICK v, sp, s0 : /\ v = job.value /\ sp = (type = 2)
                       /\ s0 = FirstScan(job, input, type)
  OBVIOUS
<1>6. v \in Nat /\ sp \in BOOLEAN /\ s0 \in ScanType
  BY <1>3, <1>4, <1>5, FirstScanFresh
<1>7. PICK tr, n, a, ia, b, ib :
        /\ Writing(v, outs, input, type, s0, scan, coinbase[type], tr, n, a, ia,
                   b, ib)
        /\ scan.k < n
  BY <1>1, <1>5 DEF IInv, InSecondPass
<1>8. PICK k, c, tx : k = scan.k /\ c = tr[n].c1cnt /\ tx = coinbase[type]
  OBVIOUS
<1>9. PICK N : N = Announced(tr[n].m, input, type)
  OBVIOUS
<1>10. /\ Ended(tr, n, v, outs, type, s0) /\ Walk(tr, n, sp, v, outs, s0)
       /\ Written(tr, n, sp, outs, s0, k, a, ia, b, ib)
       /\ Form(tx, input, type, scan.en_done, N, a, b)
       /\ k \in 0..n /\ k < n
       /\ scan.room = tr[k].room /\ scan.mval = tr[k].mval
       /\ scan.m = N - tr[k].m /\ scan.c1cnt = c
       /\ type = 2 /\ k <= c => ~ scan.en_done
  BY <1>5, <1>7, <1>8, <1>9 DEF Writing, Ended, Follows
<1>11. /\ n \in 0..Len(outs) /\ n \in Nat /\ k \in Nat /\ k \in 0..n - 1
       /\ k + 1 \in 0..n /\ k + 1 \in 1..Len(outs) /\ n \in 0..n
  <2>1. n \in 0..Len(outs)
    BY <1>10 DEF Walk
  <2>2. QED
    BY <1>4, <1>10, <2>1
<1>12. PICK o, s, r : o = outs[k + 1] /\ s = tr[k] /\ r = tr[k + 1]
  OBVIOUS
<1>13. o \in OutType
  BY <1>4, <1>11, <1>12
<1>14. /\ Point(s, k, sp, v, s0) /\ Point(r, k + 1, sp, v, s0)
       /\ Point(tr[n], n, sp, v, s0) /\ r.m <= tr[n].m
       /\ r = Counted(sp, v, o, s)
  BY <1>10, <1>11, <1>12 DEF Walk
<1>15. s \in ScanType /\ r \in ScanType /\ tr[n] \in ScanType /\ r.mval <= v
  BY <1>14 DEF Point
<1>16. /\ ~ Takes(v, o, s) => r.room = s.room /\ r.mval = s.mval /\ r.m = s.m
       /\ Takes(v, o, s) =>
            /\ r.room = s.room - (o.len + 9) /\ r.mval = s.mval + o.value
            /\ r.m = s.m + 1
  BY <1>6, <1>13, <1>14, <1>15, CountedIs
<1>17. /\ s.m \in Nat /\ r.m \in Nat /\ tr[n].m \in Nat /\ c \in Nat
       /\ r.room \in Nat /\ r.mval \in Nat
  BY <1>8, <1>15 DEF ScanType
<1>18. N \in Nat /\ N >= tr[n].m + 2
  BY <1>9, <1>17 DEF Announced
<1>19. N - r.m \in Nat /\ N - r.m # 0
  BY <1>14, <1>17, <1>18
<1>20. Next1 = o /\ (Fits <=> Takes(v, o, s))
  BY <1>5, <1>8, <1>10, <1>12 DEF Fits, Takes, Next1
<1>21. PICK en : en = (type = 2 /\ k = c)
  OBVIOUS
<1>22. en \in BOOLEAN /\ (en => ~ scan.en_done /\ ~ EnOf(input, type))
       /\ scan.en_done \in BOOLEAN
  <2>1. en => k <= c /\ type = 2
    <3>1. en => k = c /\ type = 2
      BY <1>21, Zenon
    <3>2. k = c => k <= c
      BY <1>17
    <3>3. QED
      BY <3>1, <3>2
  <2>2. scan.en_done \in BOOLEAN
    BY <1>4 DEF ScanType
  <2>3. QED
    BY <1>10, <1>21, <2>1, <2>2 DEF EnOf
<1>23. scan' \in ScanType /\ scan'.k = k + 1 /\ scan'.room = r.room
       /\ scan'.mval = r.mval /\ scan'.m = N - r.m /\ scan'.c1cnt = c
       /\ (scan'.en_done <=> IF Takes(v, o, s) THEN scan.en_done \/ en
                             ELSE scan.en_done)
  <2>1. CASE ~ Takes(v, o, s)
    <3>1. scan' = [scan EXCEPT !.k = k + 1]
      BY <1>8, <1>20, <2>1 DEF WriteOutput
    <3>2. scan' \in ScanType /\ scan'.k = k + 1 /\ scan'.room = scan.room
          /\ scan'.mval = scan.mval /\ scan'.m = scan.m
          /\ scan'.c1cnt = scan.c1cnt /\ scan'.en_done = scan.en_done
      <4>1. PICK z, j : z = scan /\ j = k + 1
        OBVIOUS
      <4>2. z \in ScanType /\ j \in Nat
        BY <1>4, <1>11, <4>1
      <4>3. scan' = [z EXCEPT !.k = j]
        BY <3>1, <4>1
      <4>4. scan' \in ScanType
        BY <4>2, <4>3 DEF ScanType
      <4>5. /\ scan'.k = j /\ scan'.room = z.room /\ scan'.mval = z.mval
            /\ scan'.m = z.m
        BY <4>2, <4>3 DEF ScanType
      <4>6. scan'.c1cnt = z.c1cnt /\ scan'.en_done = z.en_done
        BY <4>2, <4>3 DEF ScanType
      <4>7. QED
        BY <4>1, <4>4, <4>5, <4>6
    <3>3. QED
      BY <1>10, <1>12, <1>16, <2>1, <3>2
  <2>2. CASE Takes(v, o, s)
    <3>1. Out(o).bytes = o.len + 9
      BY <1>13, OutIs
    <3>2. PICK d : d = (scan.en_done \/ en)
      OBVIOUS
    <3>3. scan' = [scan EXCEPT !.k = k + 1, !.m = scan.m - 1,
                     !.room = scan.room - (o.len + 9),
                     !.mval = scan.mval + o.value, !.en_done = d]
      <4>1. d = (scan.en_done \/ (Special /\ scan.k = scan.c1cnt))
        BY <1>4, <1>8, <1>10, <1>21, <3>2
      <4>2. Output(Next1.len, Next1.value).bytes = o.len + 9
        BY <1>20, <3>1 DEF Out
      <4>3. QED
        BY <1>8, <1>20, <2>2, <4>1, <4>2 DEF WriteOutput
    <3>4. /\ scan.room - (o.len + 9) = r.room /\ scan.mval + o.value = r.mval
          /\ scan.m - 1 = N - r.m
      <4>1. scan.room = s.room /\ scan.mval = s.mval /\ scan.m = N - s.m
        BY <1>10, <1>12
      <4>2. N - s.m - 1 = N - (s.m + 1)
        BY <1>17, <1>18
      <4>3. QED
        BY <1>16, <2>2, <4>1, <4>2
    <3>5. scan' = [k |-> k + 1, room |-> r.room, room1 |-> scan.room1,
                   mval |-> r.mval, m |-> N - r.m, c1cnt |-> scan.c1cnt,
                   c1full |-> scan.c1full, en_done |-> d, size |-> scan.size]
      BY <1>4, <3>3, <3>4 DEF ScanType
    <3>6. /\ scan.room1 \in Nat /\ scan.c1cnt \in Nat /\ scan.c1full \in BOOLEAN
          /\ scan.size \in Nat /\ d \in BOOLEAN /\ k + 1 \in Nat
      BY <1>4, <1>11, <1>22, <3>2 DEF ScanType
    <3>7. scan' \in ScanType
      BY <1>17, <1>19, <3>5, <3>6 DEF ScanType
    <3>8. scan'.c1cnt = c /\ (scan'.en_done <=> d)
      BY <1>10, <3>5
    <3>9. QED
      BY <2>2, <3>2, <3>5, <3>7, <3>8
  <2>3. QED
    BY <2>1, <2>2
<1>24. NextWritten(tr, n, sp, v, outs, s0, k, a, ia, b, ib)
  BY <1>4, <1>6, <1>10, <1>11, WriteOne
<1>25. /\ a \in Seq(Fields) /\ b \in Seq(Fields)
       /\ a \in Seq(OutFields) /\ b \in Seq(OutFields)
       /\ tx.c1 \in Seq(Fields) /\ tx.c2 \in Seq(Fields)
  <2>1. a \in Seq(OutFields) /\ b \in Seq(OutFields)
    BY <1>10 DEF Written, Chosen
  <2>2. tx \in HalvesType
    BY <1>4, <1>8
  <2>3. QED
    BY <2>1, <2>2 DEF OutFields, HalvesType
<1>26. PICK f : f = Out(o)
  OBVIOUS
<1>27. f \in Fields /\ f \in OutFields
  BY <1>13, <1>26, OutIs
<1>28. \E x, y, a2, ia2, b2, ib2 :
         /\ Changed(coinbase', coinbase, type, x, y)
         /\ Written(tr, n, sp, outs, s0, k + 1, a2, ia2, b2, ib2)
         /\ Form([c1 |-> x, c2 |-> y], input, type, scan'.en_done, N, a2, b2)
  <2>1. CASE ~ Takes(v, o, s)
    <3>1. coinbase' = coinbase
      BY <1>20, <2>1 DEF WriteOutput
    <3>2. Changed(coinbase', coinbase, type, tx.c1, tx.c2)
      BY <1>4, <1>8, <1>25, <3>1, HalvesChange
    <3>3. Written(tr, n, sp, outs, s0, k + 1, a, ia, b, ib)
      BY <1>12, <1>24, <2>1 DEF NextWritten
    <3>4. Form([c1 |-> tx.c1, c2 |-> tx.c2], input, type, scan'.en_done, N, a, b)
      BY <1>10, <1>23, <2>1 DEF Form, EnTail
    <3>5. QED
      BY <3>2, <3>3, <3>4
  <2>2. CASE Takes(v, o, s) /\ sp /\ k < c
    <3>1. coinbase' = [coinbase EXCEPT ![type].c1 = Append(tx.c1, f)]
      BY <1>4, <1>5, <1>8, <1>10, <1>20, <1>26, <2>2
         DEF WriteOutput, InFirstHalf, Out
    <3>2. PICK x : x = Append(tx.c1, f)
      OBVIOUS
    <3>3. x \in Seq(Fields)
      BY <1>25, <1>27, <3>2, AppendIs
    <3>4. Changed(coinbase', coinbase, type, x, tx.c2)
      BY <1>4, <1>8, <3>1, <3>2, <3>3, HalvesChange
    <3>5. Written(tr, n, sp, outs, s0, k + 1, Append(a, f), Append(ia, k + 1), b, ib)
      BY <1>8, <1>12, <1>24, <1>26, <2>2 DEF NextWritten
    <3>6. ~ scan.en_done /\ ~ en /\ ~ EnOf(input, type)
      <4>1. type = 2 /\ k <= c /\ k # c
        <5>1. type = 2
          BY <1>5, <2>2, Zenon
        <5>2. k <= c /\ k # c
          BY <1>11, <1>17, <2>2
        <5>3. QED
          BY <5>1, <5>2
      <4>2. ~ scan.en_done
        BY <1>10, <4>1
      <4>3. ~ en
        BY <1>21, <4>1, Zenon
      <4>4. ~ EnOf(input, type)
        BY <4>1 DEF EnOf
      <4>5. QED
        BY <4>2, <4>3, <4>4
    <3>7. Form(tx, input, type, FALSE, N, a, b)
      BY <1>10, <3>6 DEF Form, EnTail
    <3>8. PICK z : z = [c1 |-> x, c2 |-> tx.c2]
      OBVIOUS
    <3>9. z.c1 = Append(tx.c1, f) /\ z.c2 = tx.c2
      BY <3>2, <3>8
    <3>10. Form(z, input, type, FALSE, N, Append(a, f), b)
      BY <1>3, <1>18, <1>25, <1>27, <3>6, <3>7, <3>9, FormFirst
    <3>11. ~ scan'.en_done
      BY <1>23, <2>2, <3>6
    <3>12. Form(z, input, type, scan'.en_done, N, Append(a, f), b)
      BY <3>10, <3>11 DEF Form, EnTail
    <3>13. QED
      BY <3>4, <3>5, <3>8, <3>12
  <2>3. CASE Takes(v, o, s) /\ ~ (sp /\ k < c)
    <3>1. EnTail(en) = IF Special /\ scan.k = scan.c1cnt THEN <<EnOutput>> ELSE <<>>
      BY <1>4, <1>8, <1>10, <1>21 DEF EnTail
    <3>2. coinbase' = [coinbase EXCEPT ![type].c1 = tx.c1 \o EnTail(en),
                                       ![type].c2 = Append(tx.c2, f)]
      BY <1>4, <1>5, <1>8, <1>10, <1>20, <1>26, <2>3, <3>1
         DEF WriteOutput, InFirstHalf, Out
    <3>3. PICK x, y : x = tx.c1 \o EnTail(en) /\ y = Append(tx.c2, f)
      OBVIOUS
    <3>4. x \in Seq(Fields) /\ y \in Seq(Fields)
      <4>1. EnTail(en) \in Seq(Fields)
        BY <1>3, <1>18, <1>22, HeadFields
      <4>2. x \in Seq(Fields)
        BY <1>25, <3>3, <4>1
      <4>3. y \in Seq(Fields)
        BY <1>25, <1>27, <3>3, AppendIs
      <4>4. QED
        BY <4>2, <4>3
    <3>5. Changed(coinbase', coinbase, type, x, y)
      BY <1>4, <3>2, <3>3, <3>4, HalvesChange
    <3>6. Written(tr, n, sp, outs, s0, k + 1, a, ia, Append(b, f), Append(ib, k + 1))
      BY <1>8, <1>12, <1>24, <1>26, <2>3 DEF NextWritten
    <3>7. PICK z : z = [c1 |-> x, c2 |-> y]
      OBVIOUS
    <3>8. z.c1 = tx.c1 \o EnTail(en) /\ z.c2 = Append(tx.c2, f)
      BY <3>3, <3>7
    <3>9. PICK d : d = scan.en_done
      OBVIOUS
    <3>10. /\ d \in BOOLEAN /\ (en => ~ d /\ ~ EnOf(input, type))
           /\ Form(tx, input, type, d, N, a, b)
      BY <1>10, <1>22, <3>9
    <3>11. Form(z, input, type, d \/ en, N, a, Append(b, f))
      BY <1>3, <1>18, <1>22, <1>25, <1>27, <3>8, <3>10, FormSecond
    <3>12. scan'.en_done <=> (d \/ en)
      BY <1>23, <2>3, <3>9
    <3>13. Form(z, input, type, scan'.en_done, N, a, Append(b, f))
      BY <3>11, <3>12 DEF Form, EnTail
    <3>14. QED
      BY <3>5, <3>6, <3>7, <3>13
  <2>4. QED
    BY <2>1, <2>2, <2>3
<1>29. PICK x, y, a2, ia2, b2, ib2 :
         /\ Changed(coinbase', coinbase, type, x, y)
         /\ Written(tr, n, sp, outs, s0, k + 1, a2, ia2, b2, ib2)
         /\ Form([c1 |-> x, c2 |-> y], input, type, scan'.en_done, N, a2, b2)
  BY <1>28
<1>30. /\ coinbase' \in [0..5 -> HalvesType]
       /\ coinbase'[type].c1 = x /\ coinbase'[type].c2 = y
       /\ \A u \in 0..5 : u # type => coinbase'[u] = coinbase[u]
  BY <1>29 DEF Changed
<1>31. Typed' /\ Others' /\ Generated' /\ Generating'
  <2>1. scan' \in ScanType /\ scan'.mval <= job.value
    BY <1>5, <1>15, <1>23
  <2>2. QED
    BY <1>1, <1>2, <1>30, <2>1, SamePayout
<1>32. Form(coinbase'[type], input, type, scan'.en_done, N, a2, b2)
  BY <1>29, <1>30 DEF Form
<1>33. Follows(tr, n, input, type, scan')
  <2>1. type = 2 /\ k + 1 <= c => ~ scan'.en_done
    <3>1. k + 1 <= c => k <= c /\ k # c
      BY <1>11, <1>17
    <3>2. k # c => ~ en
      BY <1>21, Zenon
    <3>3. type = 2 /\ k <= c => ~ scan.en_done
      BY <1>10
    <3>4. scan'.en_done <=> IF Takes(v, o, s) THEN scan.en_done \/ en
                            ELSE scan.en_done
      BY <1>23
    <3>5. QED
      BY <3>1, <3>2, <3>3, <3>4
  <2>2. QED
    BY <1>8, <1>9, <1>11, <1>12, <1>23, <2>1 DEF Follows
<1>34. Writing(v, outs, input, type, s0, scan', coinbase'[type], tr, n, a2, ia2,
               b2, ib2)
  BY <1>5, <1>9, <1>10, <1>23, <1>29, <1>32, <1>33 DEF Writing
<1>35. pc' = IF k + 1 = Len(outs) \/ Stops(v, o, s, r) THEN "finish" ELSE "write"
  BY <1>5, <1>19, <1>20, <1>23 DEF WriteOutput, Stops, Enough
<1>36. pc' = "finish" => k + 1 = n
  <2>1. Stops(v, o, s, r) => k + 1 = n
    BY <1>10, <1>11, <1>12 DEF Walk
  <2>2. k + 1 = Len(outs) => k + 1 = n
    BY <1>4, <1>11
  <2>3. QED
    BY <1>35, <2>1, <2>2
<1>37. pc' = "write" => k + 1 < n
  <2>1. ASSUME k + 1 = n, n < Len(outs) PROVE Stops(v, o, s, r)
    <3>1. Stops(v, outs[n], tr[n - 1], tr[n])
      BY <1>10, <2>1 DEF Ended
    <3>2. n - 1 = k
      BY <1>11, <2>1
    <3>3. QED
      BY <1>12, <2>1, <3>1, <3>2
  <2>2. pc' = "write" => k + 1 # Len(outs) /\ ~ Stops(v, o, s, r)
    BY <1>35
  <2>3. QED
    BY <1>4, <1>11, <2>1, <2>2
<1>38. InSecondPass'
  <2>1. Writing(job'.value, outs', input', type', FirstScan(job', input', type'),
                scan', coinbase'[type'], tr, n, a2, ia2, b2, ib2)
    BY <1>1, <1>5, <1>34
  <2>2. (pc' = "write" => scan'.k < n) /\ (pc' = "finish" => scan'.k = n)
    BY <1>23, <1>36, <1>37
  <2>3. QED
    BY <2>1, <2>2 DEF InSecondPass
<1>39. InFirstPass'
  BY <1>1 DEF InFirstPass
<1>40. QED
  BY <1>31, <1>38, <1>39 DEF IInv

-----------------------------------------------------------------------------
(* The end of a payout transaction *)

(* What is chosen from the first outputs is chosen from more of them. *)
LEMMA ChosenWiden ==
  ASSUME NEW a, NEW ia, NEW os, NEW k \in Nat, NEW l \in Nat, k <= l,
         Chosen(a, ia, os, k)
  PROVE  Chosen(a, ia, os, l)
<1>1. 1..k \subseteq 1..l
  OBVIOUS
<1>2. ia \in Seq(1..k)
  BY DEF Chosen
<1>3. ia \in Seq(1..l)
  BY <1>1, <1>2
<1>4. QED
  BY <1>3 DEF Chosen

(* The rest is paid, to the pool or, when it is nothing, to nobody. *)
LEMMA PoolFields ==
  ASSUME job \in JobType, NEW rest \in Nat
  PROVE  /\ PoolOutput(rest) \in OutFields /\ Amount(PoolOutput(rest)) = rest
         /\ PoolOutput(rest).bytes <= PoolBytes(job) /\ Witness \in OutFields
<1>1. job.pool \in Nat
  BY JobNumbers
<1>2. PICK p : p = job.pool
  OBVIOUS
<1>3. p \in Nat
  BY <1>1, <1>2
<1>4. Witness \in OutFields /\ Output(p, rest) \in OutFields /\ Output(3, 0) \in OutFields
  BY <1>3, FieldTypes DEF DeadOutput
<1>5. /\ Output(p, rest).bytes = p + 9 /\ Amount(Output(p, rest)) = rest
      /\ Output(3, 0).bytes = 3 + 9 /\ Amount(Output(3, 0)) = 0
  BY DEF Output, Field, Amount, IsOutput
<1>6. PoolBytes(job) >= p + 9 /\ PoolBytes(job) >= 12
  BY <1>2, <1>3 DEF PoolBytes
<1>7. CASE rest > 0
  <2>1. PoolOutput(rest) = Output(p, rest)
    BY <1>2, <1>7 DEF PoolOutput
  <2>2. QED
    BY <1>4, <1>5, <1>6, <2>1
<1>8. CASE rest = 0
  <2>1. PoolOutput(rest) = Output(3, 0)
    BY <1>8 DEF PoolOutput, DeadOutput
  <2>2. QED
    BY <1>4, <1>5, <1>6, <1>8, <2>1
<1>9. QED
  BY <1>7, <1>8

(* When the second pass is over, the halves that are closed make a complete
   payout transaction.                                                     *)
LEMMA ClosedIs ==
  ASSUME NEW j \in JobType, NEW len \in 0..116, NEW os \in Seq(OutType),
         NEW t \in 1..5, NEW s \in ScanType, NEW tx, NEW x,
         NEW tr, NEW n, NEW a, NEW ia, NEW b, NEW ib, NEW p \in OutFields,
         Writing(j.value, os, len, t, FirstScan(j, len, t), s, tx, tr, n, a, ia,
                 b, ib),
         s.k = n, tx.c1 \in Seq(Fields),
         Amount(p) = j.value - s.mval, p.bytes <= PoolBytes(j),
         Closes(x, tx, EnOf(len, t), s.en_done, p, Witness)
  PROVE  Complete(j, len, os, t, x)
<1>1. PICK v, s0, sp : /\ v = j.value /\ s0 = FirstScan(j, len, t)
                       /\ sp = (t = 2)
  OBVIOUS
<1>2. v \in Nat /\ len \in Nat /\ Len(os) \in Nat /\ (sp <=> t = 2)
  <2>1. v \in Nat
    BY <1>1, JobNumbers
  <2>2. len \in Nat /\ Len(os) \in Nat
    OBVIOUS
  <2>3. sp <=> t = 2
    BY <1>1, Zenon
  <2>4. QED
    BY <2>1, <2>2, <2>3
<1>3. PICK N : N = Announced(tr[n].m, len, t)
  OBVIOUS
<1>4. /\ Walk(tr, n, sp, v, os, s0) /\ s.mval = tr[n].mval
      /\ Written(tr, n, sp, os, s0, n, a, ia, b, ib)
      /\ Form(tx, len, t, s.en_done, N, a, b)
  BY <1>1, <1>3 DEF Writing, Ended, Follows
<1>5. n \in 0..Len(os) /\ n \in Nat /\ n <= Len(os) /\ n \in 0..n
  <2>1. n \in 0..Len(os)
    BY <1>4 DEF Walk
  <2>2. QED
    BY <1>2, <2>1
<1>6. PICK e : e = tr[n]
  OBVIOUS
<1>7. e \in ScanType /\ e.room + 11 * e.m <= s0.size
  <2>1. Point(e, n, sp, v, s0)
    BY <1>4, <1>5, <1>6 DEF Walk
  <2>2. QED
    BY <2>1 DEF Point
<1>8. e.room \in Nat /\ e.m \in Nat /\ e.mval \in Nat
  BY <1>7 DEF ScanType
<1>9. /\ Chosen(a, ia, os, n) /\ Chosen(b, ib, os, n)
      /\ \A i \in 1..Len(ia), k \in 1..Len(ib) : ia[i] < ib[k]
      /\ ~ sp => a = <<>>
      /\ Money(a) + Money(b) = e.mval
      /\ SumBytes(a) + SumBytes(b) = s0.size - e.room
      /\ Len(a) + Len(b) = e.m
      /\ sp => SumBytes(a) <= s0.room1
  BY <1>4, <1>6 DEF Written
<1>10. Chosen(a, ia, os, Len(os)) /\ Chosen(b, ib, os, Len(os))
  BY <1>2, <1>5, <1>9, ChosenWiden
<1>11. a \in Seq(OutFields) /\ b \in Seq(OutFields)
  BY <1>9 DEF Chosen
<1>12. /\ s0.size = SpaceOf(j, len, t) /\ (t = 2 => s0.room1 = RoomOf(len))
       /\ SpaceOf(j, len, t) \in Nat
  <2>1. s0.size = SpaceOf(j, len, t) /\ (t = 2 => s0.room1 = RoomOf(len))
    BY <1>1 DEF FirstScan
  <2>2. s0 \in ScanType
    BY <1>1, FirstScanFresh
  <2>3. s0.size \in Nat
    BY <2>2 DEF ScanType
  <2>4. QED
    BY <2>1, <2>3
<1>13. Money(a) + Money(b) + Amount(p) = j.value
  BY <1>1, <1>2, <1>4, <1>6, <1>8, <1>9
<1>14. /\ SumBytes(a) + SumBytes(b) <= SpaceOf(j, len, t)
       /\ 11 * (Len(a) + Len(b)) <= SpaceOf(j, len, t)
  <2>1. PICK y, z, w : /\ y = SumBytes(a) + SumBytes(b) /\ z = SpaceOf(j, len, t)
                       /\ w = Len(a) + Len(b)
    OBVIOUS
  <2>2. z \in Nat /\ y = z - e.room /\ w = e.m /\ e.room + 11 * e.m <= z
    BY <1>7, <1>9, <1>12, <2>1
  <2>3. y <= z /\ 11 * w <= z
    BY <1>8, <2>2, SMTT(30)
  <2>4. QED
    BY <2>1, <2>3
<1>15. t = 2 => SumBytes(a) <= RoomOf(len)
  BY <1>2, <1>9, <1>12
<1>16. Shape(x, len, EnOf(len, t), a, b \o <<p, Witness>>)
  <2>1. N \in Nat /\ Numbers(N, a, b, EnOf(len, t))
    <3>1. N = e.m + (IF EnOf(len, t) THEN 2 ELSE 3) /\ Len(a) + Len(b) = e.m
      BY <1>3, <1>6, <1>9 DEF Announced
    <3>2. N \in Nat
      BY <1>8, <3>1
    <3>3. QED
      BY <3>1, <3>2 DEF Numbers
  <2>2. EnOf(len, t) \in BOOLEAN /\ (EnOf(len, t) => a = <<>>)
    BY <1>2, <1>9 DEF EnOf
  <2>3. PICK d, q : d = s.en_done /\ q = Witness
    OBVIOUS
  <2>4. d \in BOOLEAN /\ q \in OutFields
    BY <2>3, FieldTypes DEF ScanType
  <2>5. Form(tx, len, t, d, N, a, b) /\ Closes(x, tx, EnOf(len, t), d, p, q)
    BY <1>4, <2>3
  <2>6. Shape(x, len, EnOf(len, t), a, b \o <<p, q>>)
    BY <1>2, <1>11, <2>1, <2>2, <2>4, <2>5, FormEnds
  <2>7. QED
    BY <2>3, <2>6
<1>17. CompleteWith(j, len, os, t, x, a, ia, b, ib, p)
  BY <1>9, <1>10, <1>13, <1>14, <1>15, <1>16 DEF CompleteWith
<1>18. QED
  BY <1>17 DEF Complete

(* What comes after a payout type that is not the last one. *)
Following(t) == PayoutOrder[1 + CHOOSE i \in 1..4 : PayoutOrder[i] = t]
Advances(t, u) ==
  /\ u \in 1..5 /\ u # t /\ u \in After(t)
  /\ Before(u) = Before(t) \cup {t} /\ After(u) \subseteq After(t)

LEMMA FollowingType ==
  ASSUME NEW t \in 1..5, t # 2
  PROVE  Advances(t, Following(t))
<1>1. PICK u : u = Following(t)
  OBVIOUS
<1>2. u \in After(t) /\ Before(u) = Before(t) \cup {t}
  BY <1>1, NextType DEF Following
<1>3. u \in 1..5 /\ u # t /\ After(u) \subseteq After(t)
  BY <1>2 DEF After
<1>4. QED
  BY <1>1, <1>2, <1>3 DEF Advances

(* The halves of a type are closed; the next type begins, or all are done. *)
LEMMA KeepsFinish == IInv /\ Finish => IInv'
<1> SUFFICES ASSUME IInv, Finish PROVE IInv'
  OBVIOUS
<1>1. /\ pc = "finish" /\ job' = job /\ active' = active /\ outs' = outs
      /\ input' = input /\ subsidy' = subsidy /\ user' = user /\ scan' = NoScan
  BY DEF Finish
<1>2. pc \in Paying
  BY <1>1 DEF Paying
<1>3. job \in JobType /\ input \in 0..116 /\ job.value \in Nat /\ input \in Nat
  BY JobTyped
<1>4. /\ type \in 1..5 /\ type \in 0..5 /\ outs \in Seq(OutType) /\ outs # <<>>
      /\ coinbase \in [0..5 -> HalvesType] /\ scan \in ScanType
      /\ coinbase[type] \in HalvesType
      /\ (EnInInput <=> EnOf(input, type))
  BY <1>2, PayoutFacts
<1>5. PICK tr, n, a, ia, b, ib :
        /\ Writing(job.value, outs, input, type, FirstScan(job, input, type),
                   scan, coinbase[type], tr, n, a, ia, b, ib)
        /\ scan.k = n
  BY <1>1 DEF IInv, InSecondPass
<1>6. PICK tx, d, rest, p : /\ tx = coinbase[type] /\ d = scan.en_done
                            /\ rest = job.value - scan.mval
                            /\ p = PoolOutput(rest)
  OBVIOUS
<1>7. tx.c1 \in Seq(Fields) /\ tx.c2 \in Seq(Fields) /\ d \in BOOLEAN
  BY <1>4, <1>6 DEF HalvesType, ScanType
<1>8. rest \in Nat
  <2>1. scan.mval \in Nat /\ scan.mval <= job.value
    BY <1>4 DEF IInv, Typed, ScanType
  <2>2. QED
    BY <1>3, <1>6, <2>1
<1>9. /\ p \in OutFields /\ Amount(p) = rest /\ p.bytes <= PoolBytes(job)
      /\ Witness \in OutFields
  BY <1>3, <1>6, <1>8, PoolFields
<1>10. PICK x, y : /\ x = tx.c1 \o EnTail(~ EnOf(input, type) /\ ~ d)
                   /\ y = tx.c2 \o <<p, Witness, LockTime>>
  OBVIOUS
<1>11. x \in Seq(Fields) /\ y \in Seq(Fields)
  <2>1. EnTail(~ EnOf(input, type) /\ ~ d) \in Seq(Fields)
    <3>1. \A e \in BOOLEAN : EnTail(e) \in Seq(Fields)
      BY <1>3, HeadFields
    <3>2. QED
      BY <3>1
  <2>2. x \in Seq(Fields)
    BY <1>7, <1>10, <2>1
  <2>3. p \in Fields /\ Witness \in Fields /\ LockTime \in Fields
    BY <1>9, FieldTypes
  <2>4. PICK z : z = <<p, Witness, LockTime>>
    OBVIOUS
  <2>5. z \in Seq(Fields)
    BY <2>3, <2>4
  <2>6. y \in Seq(Fields)
    BY <1>7, <1>10, <2>4, <2>5
  <2>7. QED
    BY <2>2, <2>6
<1>12. coinbase' = [coinbase EXCEPT ![type].c1 = x, ![type].c2 = y]
  <2>1. EnTail(~ EnOf(input, type) /\ ~ d)
          = IF ~ EnInInput /\ ~ scan.en_done THEN <<EnOutput>> ELSE <<>>
    BY <1>4, <1>6 DEF EnTail
  <2>2. QED
    BY <1>6, <1>10, <2>1 DEF Finish
<1>13. /\ coinbase' \in [0..5 -> HalvesType]
       /\ coinbase'[type].c1 = x /\ coinbase'[type].c2 = y
       /\ \A u \in 0..5 : u # type => coinbase'[u] = coinbase[u]
  <2>1. Changed(coinbase', coinbase, type, x, y)
    BY <1>4, <1>11, <1>12, HalvesChange
  <2>2. QED
    BY <2>1 DEF Changed
<1>14. Complete(job, input, outs, type, coinbase'[type])
  <2>1. PICK q : q = coinbase'[type]
    OBVIOUS
  <2>2. Closes(q, tx, EnOf(input, type), scan.en_done, p, Witness)
    BY <1>6, <1>10, <1>13, <2>1 DEF Closes
  <2>3. Writing(job.value, outs, input, type, FirstScan(job, input, type),
                scan, tx, tr, n, a, ia, b, ib)
    BY <1>5, <1>6
  <2>4. Amount(p) = job.value - scan.mval
    BY <1>6, <1>9
  <2>5. Complete(job, input, outs, type, q)
    BY <1>3, <1>4, <1>5, <1>7, <1>9, <2>2, <2>3, <2>4, ClosedIs
  <2>6. QED
    BY <2>1, <2>5
<1>15. /\ Simple(input, job.value, job.pool, coinbase[0])
       /\ \A t \in Before(type) : Complete(job, input, outs, t, coinbase[t])
       /\ \A t \in After(type) : coinbase[t] = StartedTx(input, t)
  BY <1>2 DEF IInv, Generating
<1>16. Before(type) \subseteq 1..5 /\ type \notin Before(type)
       /\ (type = 2 => Before(type) \cup {type} = 1..5)
  BY <1>4, NextType
<1>17. \A t \in Before(type) \cup {type} :
         Complete(job', input', outs', t, coinbase'[t])
  <2>1. \A t \in Before(type) : t \in 0..5 /\ t # type
    BY <1>16
  <2>2. \A t \in Before(type) : coinbase'[t] = coinbase[t]
    BY <1>13, <2>1
  <2>3. \A t \in Before(type) : Complete(job, input, outs, t, coinbase'[t])
    BY <1>15, <2>2
  <2>4. QED
    BY <1>1, <1>14, <2>3
<1>18. Simple(input', job'.value, job'.pool, coinbase'[0])
  <2>1. coinbase'[0] = coinbase[0]
    <3>1. 0 \in 0..5 /\ 0 # type
      BY <1>4
    <3>2. QED
      BY <1>13, <3>1
  <2>2. QED
    BY <1>1, <1>15, <2>1
<1>19. Typed /\ Others /\ scan' \in ScanType /\ scan'.mval <= job.value
  <2>1. scan' \in ScanType /\ scan'.mval = 0
    BY <1>1, NoScanTyped
  <2>2. QED
    BY <1>3, <2>1 DEF IInv
<1>20. index = 0 /\ user = Unbuilt
  BY <1>1, <1>19 DEF Others, Typed
<1>21. CASE type = 2
  <2>1. pc' = "done" /\ type' = type /\ index' = 4
    BY <1>21 DEF Finish
  <2>2. Typed'
    BY <1>1, <1>13, <1>19, <2>1 DEF Typed
  <2>3. Others'
    BY <1>1, <1>19, <1>20, <2>1 DEF Others
  <2>4. Generated'
    <3>1. \A t \in 1..5 : Complete(job', input', outs', t, coinbase'[t])
      BY <1>16, <1>17, <1>21
    <3>2. QED
      BY <1>18, <2>1, <3>1 DEF Generated
  <2>5. pc' \notin Paying
    BY <2>1 DEF Paying
  <2>6. QED
    BY <2>2, <2>3, <2>4, <2>5, NotPaying DEF IInv
<1>22. CASE type # 2
  <2>1. pc' = "fit" /\ type' = Following(type) /\ index' = index
    BY <1>22 DEF Finish, Following
  <2>2. Advances(type, type')
    BY <1>4, <1>22, <2>1, FollowingType
  <2>3. /\ type' \in 1..5 /\ type' # type /\ type' \in After(type)
        /\ Before(type') = Before(type) \cup {type}
        /\ After(type') \subseteq After(type)
    BY <2>2 DEF Advances
  <2>4. Typed'
    <3>1. type' \in 0..5
      BY <2>3
    <3>2. QED
      BY <1>1, <1>13, <1>19, <2>1, <3>1 DEF Typed
  <2>5. Others'
    BY <1>1, <1>19, <1>20, <2>1 DEF Others
  <2>6. Generated'
    BY <2>1 DEF Generated
  <2>7. \A t \in After(type) : coinbase'[t] = StartedTx(input', t)
    <3>1. \A t \in After(type) : t \in 0..5 /\ t # type
      BY DEF After
    <3>2. \A t \in After(type) : coinbase'[t] = coinbase[t]
      BY <1>13, <3>1
    <3>3. QED
      BY <1>1, <1>15, <3>2
  <2>8. Generating'
    <3>1. \A t \in Before(type') : Complete(job', input', outs', t, coinbase'[t])
      BY <1>17, <2>3
    <3>2. \A t \in After(type') : coinbase'[t] = StartedTx(input', t)
      BY <2>3, <2>7
    <3>3. outs' # <<>>
      BY <1>1, <1>4
    <3>4. QED
      BY <1>18, <2>3, <3>1, <3>2, <3>3 DEF Generating
  <2>9. InFirstPass'
    <3>1. coinbase'[type'] = StartedTx(input', type')
      BY <2>3, <2>7
    <3>2. QED
      BY <2>1, <3>1 DEF InFirstPass
  <2>10. InSecondPass'
    BY <2>1 DEF InSecondPass
  <2>11. QED
    BY <2>4, <2>5, <2>6, <2>8, <2>9, <2>10 DEF IInv
<1>23. QED
  BY <1>21, <1>22

-----------------------------------------------------------------------------
(* The theorems *)

(* Nothing happens. *)
LEMMA KeepsStutter == IInv /\ UNCHANGED vars => IInv'
<1> SUFFICES ASSUME IInv, UNCHANGED vars PROVE IInv'
  OBVIOUS
<1>1. /\ job' = job /\ pc' = pc /\ active' = active /\ outs' = outs
      /\ input' = input /\ coinbase' = coinbase /\ subsidy' = subsidy
      /\ user' = user /\ type' = type /\ scan' = scan /\ index' = index
  BY DEF vars
<1>2. Typed' /\ Others'
  <2>1. UserTx' = UserTx
    BY <1>1 DEF UserTx, Bps
  <2>2. QED
    BY <1>1, <2>1 DEF IInv, Typed, Others
<1>3. Generated' /\ Generating'
  BY <1>1 DEF IInv, Generated, Generating
<1>4. InFirstPass'
  BY <1>1 DEF IInv, InFirstPass
<1>5. InSecondPass'
  BY <1>1 DEF IInv, InSecondPass
<1>6. QED
  BY <1>2, <1>3, <1>4, <1>5 DEF IInv

(* Whatever the code does next, the invariant holds. *)
LEMMA InvNext == IInv /\ [Next]_vars => IInv'
  BY KeepsGenerateBase, KeepsFetchOutputs, KeepsConnectionChanges,
     KeepsGenerateEmpty, KeepsFit, KeepsCountOutput, KeepsDeclare,
     KeepsWriteOutput, KeepsFinish, KeepsBuildUserCoinbase, KeepsStutter
     DEF Next

(* Two passes of loops that stop early, over outputs that may be skipped, fill
   two halves of five transactions and announce the number of outputs before
   they are chosen: the invariant names the walk over the outputs that the
   second pass follows, and what of it is in either half.                   *)
THEOREM Invariant == Spec => []IInv
  BY InvInit, InvNext, PTL DEF Spec

(* The halves of every transaction of a finished job make a transaction,
   whatever outputs are offered and however they fit.                       *)
THEOREM HalvesAlwaysFormTx == Spec => []HalvesFormTx
  BY Invariant, InvHalvesFormTx, PTL

(* Every transaction pays the whole value, and not more. *)
THEOREM NeverLosesMoney == Spec => []NoMoneyLost
  BY Invariant, InvNoMoneyLost, PTL

(* Whoever is paid is paid what was offered, once and in the order of the
   offer.                                                                   *)
THEOREM AlwaysPaidAsOffered == Spec => []PaidAsOffered
  BY Invariant, InvPaidAsOffered, PTL

(* The first half of the special type stays short. *)
THEOREM SpecialHalfAlwaysShort == Spec => []SpecialHalfShort
  BY Invariant, InvSpecialHalfShort, PTL

(* No transaction whose count of outputs takes one byte makes the block exceed
   the limits of its template, when the pool's output alone fits.           *)
THEOREM TemplateLimitsAlwaysKept == Spec => []TemplateLimitsKept
  BY Invariant, InvTemplateLimitsKept, PTL
=============================================================================
