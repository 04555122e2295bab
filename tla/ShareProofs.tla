----------------------------- MODULE ShareProofs -----------------------------
(***************************************************************************)
(* What a stratum thread promises of the shares it takes.  The table of     *)
(* duplicates, for any number of shares, jobs and chains: a look-up walks    *)
(* the whole chain of a share, however often the table was sorted, cut off   *)
(* and made larger, so that no share of a fresh job is accepted twice.  The  *)
(* requests of a client, for any number of places, jobs and difficulties: a  *)
(* share is judged by what the client was told with the work.               *)
(***************************************************************************)
EXTENDS DupeTable, ShareSubmission, FiniteSetTheorems, WellFoundedInduction, TLAPS

(* A set of natural numbers has a least element, *)
LEMMA LeastNat ==
  ASSUME NEW T \in SUBSET Nat, T # {}
  PROVE  \E x \in T : \A y \in T : x <= y
<1>1. PICK x \in T : \A y \in T : ~ (<<y, x>> \in OpToRel(<, Nat))
  BY NatLessThanWellFounded, WFMin
<1>2. \A y \in T : ~ (y < x)
  BY <1>1 DEF OpToRel
<1>3. QED
  BY <1>2

(* Min is it, *)
LEMMA MinIs ==
  ASSUME NEW T \in SUBSET Nat, T # {}
  PROVE  Min(T) \in T /\ \A y \in T : Min(T) <= y
  BY LeastNat DEF Min

(* and a bounded one has a greatest. *)
LEMMA GreatestNat ==
  ASSUME NEW T \in SUBSET Nat, T # {}, NEW n \in Nat, \A x \in T : x <= n
  PROVE  \E x \in T : \A y \in T : y <= x
<1> DEFINE U == {z \in Nat : \A x \in T : x <= z}
<1>1. n \in U
  OBVIOUS
<1>2. PICK z \in U : \A y \in U : z <= y
  <2>1. U \in SUBSET Nat /\ U # {}
    BY <1>1
  <2> HIDE DEF U
  <2>2. QED
    BY <2>1, LeastNat
<1>3. z \in T
  <2>1. SUFFICES ASSUME z \notin T PROVE FALSE
    OBVIOUS
  <2>2. \A x \in T : x <= z - 1
    BY <1>2, <2>1
  <2>3. z - 1 \in Nat
    <3>1. PICK x \in T : TRUE
      OBVIOUS
    <3>2. x \in Nat /\ x <= z - 1 /\ z \in Nat
      BY <1>2, <2>2
    <3>3. QED
      BY <3>2
  <2>4. z - 1 \in U
    BY <2>2, <2>3
  <2>5. QED
    BY <1>2, <2>4
<1>4. QED
  BY <1>2, <1>3

(* A set with 0 and every successor holds all natural numbers. *)
LEMMA Induction ==
  ASSUME NEW T \in SUBSET Nat, 0 \in T, \A n \in T : n + 1 \in T
  PROVE  T = Nat
<1>1. SUFFICES ASSUME Nat \ T # {} PROVE FALSE
  OBVIOUS
<1>2. PICK n \in Nat \ T : \A y \in Nat \ T : n <= y
  BY <1>1, LeastNat
<1>3. n - 1 \in Nat /\ n # 0
  BY <1>2
<1>4. n - 1 \in T
  BY <1>2, <1>3
<1>5. n - 1 + 1 \in T
  BY <1>4
<1>6. QED
  BY <1>5, <1>2

-----------------------------------------------------------------------------
(* The order of a chain *)

Nonced(p, n) == \A i \in 1..n : p[i].nonce \in Nat

(* It is total, *)
LEMMA BeforeTotal ==
  ASSUME NEW n \in Nat, NEW p, Nonced(p, n), NEW i \in 1..n, NEW j \in 1..n
  PROVE  /\ i # j => Before(p, i, j) \/ Before(p, j, i)
         /\ ~ (Before(p, i, j) /\ Before(p, j, i))
         /\ ~ Before(p, i, i)
<1>1. p[i].nonce \in Nat /\ p[j].nonce \in Nat /\ i \in Nat /\ j \in Nat
  BY DEF Nonced
<1>2. QED
  BY <1>1 DEF Before

(* and transitive; *)
LEMMA BeforeTrans ==
  ASSUME NEW n \in Nat, NEW p, Nonced(p, n), NEW i \in 1..n, NEW j \in 1..n,
         NEW k \in 1..n, Before(p, i, j), Before(p, j, k)
  PROVE  Before(p, i, k)
<1>1. p[i].nonce \in Nat /\ p[j].nonce \in Nat /\ p[k].nonce \in Nat
      /\ i \in Nat /\ j \in Nat /\ k \in Nat
  BY DEF Nonced
<1>2. QED
  BY <1>1 DEF Before

(* some items have a first one. *)
LEMMA FirstExists ==
  ASSUME NEW n \in Nat, NEW p, Nonced(p, n), NEW S \in SUBSET (1..n), S # {}
  PROVE  \E i \in S : \A j \in S \ {i} : Before(p, i, j)
<1> DEFINE V == {p[i].nonce : i \in S}
<1>1. V \in SUBSET Nat /\ V # {}
  BY DEF Nonced
<1>2. PICK v \in V : \A w \in V : v <= w
  <2> HIDE DEF V
  <2>1. QED
    BY <1>1, LeastNat
<1> DEFINE T == {i \in S : p[i].nonce = v}
<1>3. T \in SUBSET Nat /\ T # {}
  <2>1. PICK i \in S : p[i].nonce = v
    BY <1>2
  <2>2. i \in T
    BY <2>1
  <2>3. \A x \in T : x \in 1..n
    OBVIOUS
  <2>4. 1..n \subseteq Nat
    OBVIOUS
  <2>5. QED
    BY <2>2, <2>3, <2>4
<1>4. PICK i \in T : \A j \in T : i <= j
  <2> HIDE DEF T
  <2>1. QED
    BY <1>3, LeastNat
<1>5. ASSUME NEW j \in S \ {i} PROVE Before(p, i, j)
  <2>1. /\ i \in S /\ p[i].nonce = v /\ i \in Nat /\ j \in Nat /\ i # j
        /\ p[j].nonce \in Nat /\ v \in Nat
    <3>1. i \in S /\ p[i].nonce = v /\ i # j
      BY <1>4
    <3>2. i \in 1..n /\ j \in 1..n
      BY <3>1
    <3>3. i \in Nat /\ j \in Nat
      BY <3>2
    <3>4. p[j].nonce \in Nat /\ p[i].nonce \in Nat
      BY <3>2 DEF Nonced
    <3> QED  BY <3>1, <3>3, <3>4
  <2>2. v <= p[j].nonce
    BY <1>2
  <2>3. p[j].nonce = v => i <= j
    BY <1>4
  <2>4. QED
    BY <2>1, <2>2, <2>3 DEF Before
<1>6. QED
  BY <1>4, <1>5

(* Item i is the first of S. *)
IsFirst(p, S, i) == i \in S /\ \A j \in S \ {i} : Before(p, i, j)

(* First finds it. *)
LEMMA FirstIs ==
  ASSUME NEW n \in Nat, NEW p, Nonced(p, n), NEW S \in SUBSET (1..n)
  PROVE  /\ S = {} => First(p, S) = 0
         /\ S # {} => IsFirst(p, S, First(p, S))
         /\ First(p, S) \in 0..n
<1>1. CASE S = {}
  BY <1>1 DEF First
<1>2. CASE S # {}
  <2>1. IsFirst(p, S, First(p, S))
    BY <1>2, FirstExists DEF First, IsFirst
  <2>2. First(p, S) \in 0..n
    <3>1. PICK i : i = First(p, S)
      OBVIOUS
    <3>2. i \in 1..n
      BY <2>1, <3>1 DEF IsFirst
    <3>3. QED
      BY <3>1, <3>2
  <2>3. QED
    BY <1>2, <2>1, <2>2
<1>3. QED
  BY <1>1, <1>2

(* There is only one first item. *)
LEMMA FirstOnly ==
  ASSUME NEW n \in Nat, NEW p, Nonced(p, n), NEW S \in SUBSET (1..n),
         NEW i, IsFirst(p, S, i)
  PROVE  First(p, S) = i
<1>1. IsFirst(p, S, First(p, S)) /\ First(p, S) \in S /\ i \in S
  BY FirstIs DEF IsFirst
<1>2. PICK k : k = First(p, S)
  OBVIOUS
<1>3. SUFFICES ASSUME k # i PROVE FALSE
  BY <1>2
<1>4. Before(p, i, k) /\ Before(p, k, i)
  BY <1>1, <1>2, <1>3 DEF IsFirst
<1>5. i \in 1..n /\ k \in 1..n
  BY <1>1, <1>2
<1>6. QED
  BY <1>4, <1>5, BeforeTotal

(* It is the same in two arrays that agree on the items. *)
LEMMA FirstSame ==
  ASSUME NEW n \in Nat, NEW p, NEW q, Nonced(p, n), Nonced(q, n),
         NEW S \in SUBSET (1..n), \A i \in S : q[i] = p[i]
  PROVE  First(q, S) = First(p, S)
<1>1. CASE S = {}
  BY <1>1 DEF First
<1>2. CASE S # {}
  <2>1. PICK i : i = First(p, S)
    OBVIOUS
  <2>2. IsFirst(p, S, i)
    BY <1>2, <2>1, FirstIs
  <2>3. IsFirst(q, S, i)
    BY <2>2 DEF IsFirst, Before
  <2>4. First(q, S) = i
    BY <2>3, FirstOnly
  <2>5. QED
    BY <2>1, <2>4
<1>3. QED
  BY <1>1, <1>2

(* Some items have a last one, too. *)
LEMMA LastExists ==
  ASSUME NEW n \in Nat, NEW p, Nonced(p, n), NEW S \in SUBSET (1..n), S # {}
  PROVE  \E i \in S : \A j \in S \ {i} : Before(p, j, i)
<1> DEFINE Last(U) == \E i \in U : \A j \in U \ {i} : Before(p, j, i)
           T == {z \in Nat : z <= n => \A U \in SUBSET (1..z) : U # {} => Last(U)}
<1>1. 0 \in T
  <2>1. \A U \in SUBSET (1..0) : U = {}
    OBVIOUS
  <2>2. QED
    BY <2>1
<1>2. ASSUME NEW z \in T PROVE z + 1 \in T
  <2>1. z \in Nat
    OBVIOUS
  <2>2. SUFFICES ASSUME z + 1 <= n, NEW U \in SUBSET (1..z + 1), U # {}
                 PROVE  Last(U)
    BY <2>1
  <2>3. PICK R : R = U \ {z + 1}
    OBVIOUS
  <2>4. R \in SUBSET (1..z)
    BY <2>1, <2>3
  <2>5. U \subseteq 1..n /\ z <= n
    BY <2>1, <2>2
  <2>6. CASE R = {}
    <3>1. U = {z + 1}
      BY <2>2, <2>3, <2>6
    <3>2. QED
      BY <3>1
  <2>7. CASE R # {} /\ z + 1 \notin U
    <3>1. R = U
      BY <2>3, <2>7
    <3>2. QED
      BY <2>4, <2>5, <2>7, <3>1
  <2>8. CASE R # {} /\ z + 1 \in U
    <3>1. Last(R)
      BY <2>4, <2>5, <2>8
    <3>2. PICK i \in R : \A j \in R \ {i} : Before(p, j, i)
      BY <3>1
    <3>3. PICK k : k = z + 1
      OBVIOUS
    <3>4. i \in 1..n /\ k \in 1..n /\ i # k /\ i \in U /\ k \in U
          /\ U = R \cup {k} /\ \A j \in R : j \in 1..n
      BY <2>3, <2>5, <2>8, <3>3
    <3>5. CASE Before(p, k, i)
      <4>1. \A j \in U \ {i} : Before(p, j, i)
        BY <3>2, <3>4, <3>5
      <4>2. QED
        BY <3>4, <4>1
    <3>6. CASE Before(p, i, k)
      <4>1. \A j \in R \ {i} : Before(p, j, k)
        BY <3>2, <3>4, <3>6, BeforeTrans
      <4>2. \A j \in U \ {k} : Before(p, j, k)
        BY <3>4, <3>6, <4>1
      <4>3. QED
        BY <3>4, <4>2
    <3>7. QED
      BY <3>4, <3>5, <3>6, BeforeTotal
  <2>9. QED
    BY <2>6, <2>7, <2>8
<1>3. T = Nat
  <2>1. T \subseteq Nat
    OBVIOUS
  <2> HIDE DEF T
  <2>2. QED
    BY <1>1, <1>2, <2>1, Induction
<1>4. QED
  BY <1>3

-----------------------------------------------------------------------------
(* The walk along a chain *)

(* z links, from h on. *)
IsWalk(f, z, nx, h) ==
  f[1] = h /\ \A k \in 1..z : f[k + 1] = nx[f[k]]

(* There is one, *)
LEMMA WalkExists ==
  ASSUME NEW l \in Nat, NEW nx \in [0..l -> 0..l], NEW h \in 0..l, NEW n \in Nat
  PROVE  \E f \in [1..n + 1 -> 0..l] : IsWalk(f, n, nx, h)
<1> DEFINE T == {z \in Nat : \E f \in [1..z + 1 -> 0..l] : IsWalk(f, z, nx, h)}
<1>1. 0 \in T
  <2>1. PICK f : f = [i \in 1..0 + 1 |-> h]
    OBVIOUS
  <2>2. f \in [1..0 + 1 -> 0..l] /\ IsWalk(f, 0, nx, h)
    BY <2>1 DEF IsWalk
  <2>3. QED
    BY <2>2
<1>2. ASSUME NEW z \in T PROVE z + 1 \in T
  <2>1. PICK f \in [1..z + 1 -> 0..l] : IsWalk(f, z, nx, h)
    OBVIOUS
  <2>2. z \in Nat /\ z + 1 \in 1..z + 1 /\ z + 2 \in Nat
    OBVIOUS
  <2>3. PICK x : x = nx[f[z + 1]]
    OBVIOUS
  <2>4. x \in 0..l
    BY <2>1, <2>2, <2>3
  <2>5. PICK g : g = [i \in 1..(z + 1) + 1 |-> IF i = z + 2 THEN x ELSE f[i]]
    OBVIOUS
  <2>6. g \in [1..(z + 1) + 1 -> 0..l]
    <3>1. ASSUME NEW i \in 1..(z + 1) + 1
          PROVE  (IF i = z + 2 THEN x ELSE f[i]) \in 0..l
      <4>1. i # z + 2 => i \in 1..z + 1
        BY <2>2
      <4>2. QED
        BY <2>1, <2>4, <4>1
    <3>2. QED
      BY <2>5, <3>1
  <2>7. \A k \in 1..z + 1 : g[k] = f[k]
    BY <2>2, <2>5
  <2>8. g[1] = h
    <3>1. 1 \in 1..z + 1
      BY <2>2
    <3>2. QED
      BY <2>1, <2>7, <3>1 DEF IsWalk
  <2>9. ASSUME NEW k \in 1..z + 1 PROVE g[k + 1] = nx[g[k]]
    <3>1. g[k] = f[k]
      BY <2>7
    <3>2. CASE k = z + 1
      <4>1. g[k + 1] = x
        BY <2>2, <2>5, <3>2
      <4>2. QED
        BY <2>3, <3>1, <3>2, <4>1
    <3>3. CASE k # z + 1
      <4>1. k \in 1..z /\ k + 1 \in 1..z + 1
        BY <2>2, <3>3
      <4>2. f[k + 1] = nx[f[k]]
        BY <2>1, <4>1 DEF IsWalk
      <4>3. g[k + 1] = f[k + 1]
        BY <2>7, <4>1
      <4>4. QED
        BY <3>1, <4>2, <4>3
    <3>4. QED
      BY <3>2, <3>3
  <2>10. IsWalk(g, z + 1, nx, h)
    BY <2>8, <2>9 DEF IsWalk
  <2>11. \E e \in [1..(z + 1) + 1 -> 0..l] : IsWalk(e, z + 1, nx, h)
    BY <2>6, <2>10
  <2>12. z + 1 \in Nat
    BY <2>2
  <2>13. QED
    BY <2>11, <2>12
<1>3. T = Nat
  <2>1. T \subseteq Nat
    OBVIOUS
  <2> HIDE DEF T
  <2>2. QED
    BY <1>1, <1>2, <2>1, Induction
<1>4. QED
  BY <1>3

(* and Walk is one. *)
WalkEq(f, z, nx, h) ==
  f = [k \in 1..z + 1 |-> IF k = 1 THEN h ELSE nx[f[k - 1]]]

(* A function of that form is a walk. *)
LEMMA WalkEqIs ==
  ASSUME NEW l \in Nat, NEW nx \in [0..l -> 0..l], NEW h \in 0..l, NEW n \in Nat,
         NEW f, WalkEq(f, n, nx, h)
  PROVE  f \in [1..n + 1 -> 0..l] /\ IsWalk(f, n, nx, h)
<1>1. f[1] = h
  BY DEF WalkEq
<1>2. ASSUME NEW k \in 1..n PROVE f[k + 1] = nx[f[k]]
  <2>1. k + 1 \in 1..n + 1 /\ k + 1 # 1 /\ (k + 1) - 1 = k
    OBVIOUS
  <2>2. f[k + 1] = nx[f[(k + 1) - 1]]
    BY <2>1 DEF WalkEq
  <2>3. QED
    BY <2>1, <2>2
<1> DEFINE T == {k \in Nat : k + 1 \in 1..n + 1 => f[k + 1] \in 0..l}
<1>3. 0 \in T
  <2>1. 0 + 1 = 1 /\ f[1] \in 0..l
    BY <1>1
  <2>2. f[0 + 1] \in 0..l
    BY <2>1
  <2>3. QED
    BY <2>2
<1>4. ASSUME NEW k \in T PROVE k + 1 \in T
  <2>1. SUFFICES ASSUME (k + 1) + 1 \in 1..n + 1 PROVE f[(k + 1) + 1] \in 0..l
    OBVIOUS
  <2>2. k + 1 \in 1..n /\ k + 1 \in 1..n + 1
    BY <2>1
  <2>3. f[k + 1] \in 0..l
    BY <2>2
  <2>4. QED
    BY <1>2, <2>2, <2>3
<1>5. T = Nat
  <2>1. T \subseteq Nat
    OBVIOUS
  <2> HIDE DEF T
  <2>2. QED
    BY <1>3, <1>4, <2>1, Induction
<1>6. ASSUME NEW k \in 1..n + 1 PROVE f[k] \in 0..l
  <2>1. k - 1 \in Nat /\ (k - 1) + 1 = k
    OBVIOUS
  <2>2. k - 1 \in T
    BY <1>5, <2>1
  <2>3. QED
    BY <2>1, <2>2
<1>7. f = [k \in 1..n + 1 |-> f[k]]
  BY DEF WalkEq
<1>8. QED
  BY <1>1, <1>2, <1>6, <1>7 DEF IsWalk

(* The bucket of a share is a chain. *)
LEMMA BucketIs ==
  ASSUME NEW s \in Share
  PROVE  Bucket(s) \in Chains /\ s.nonce \in Nat \ {0}
<1>1. s.nonce \in Nat \ {0} /\ Buckets \in Nat \ {0}
  BY TableAssumption DEF Share
<1>2. QED
  BY <1>1 DEF Bucket, Chains

(* The walk for a share starts at its chain and follows the links. *)
LEMMA WalkIs ==
  ASSUME TypeOK, NEW s \in Share
  PROVE  /\ Walk(s) \in [1..max_items + 1 -> 0..max_items]
         /\ IsWalk(Walk(s), max_items, next, index[Bucket(s)])
<1>1. PICK l, h : l = max_items /\ h = index[Bucket(s)]
  OBVIOUS
<1>2. l \in Nat /\ next \in [0..l -> 0..l] /\ h \in 0..l
  <2>1. ptr \in Seq(Share \cup {Empty})
    BY DEF TypeOK
  <2>2. l \in Nat
    BY <1>1, <2>1 DEF max_items
  <2>3. QED
    BY <1>1, <2>2, BucketIs DEF TypeOK
<1>3. PICK f \in [1..l + 1 -> 0..l] : IsWalk(f, l, next, h)
  BY <1>2, WalkExists
<1>4. WalkEq(f, l, next, h)
  <2>1. ASSUME NEW k \in 1..l + 1
        PROVE  f[k] = IF k = 1 THEN h ELSE next[f[k - 1]]
    <3>1. CASE k = 1
      BY <1>3, <3>1 DEF IsWalk
    <3>2. CASE k # 1
      <4>1. k - 1 \in 1..l /\ (k - 1) + 1 = k
        BY <1>2, <3>2
      <4>2. f[(k - 1) + 1] = next[f[k - 1]]
        BY <1>3, <4>1 DEF IsWalk
      <4>3. QED
        BY <3>2, <4>1, <4>2
    <3>3. QED
      BY <3>1, <3>2
  <2>2. QED
    BY <2>1 DEF WalkEq
<1>5. Walk(s) = CHOOSE g : WalkEq(g, l, next, h)
  BY <1>1 DEF Walk, WalkEq
<1>6. WalkEq(Walk(s), l, next, h)
  BY <1>4, <1>5
<1>7. QED
  BY <1>1, <1>2, <1>6, WalkEqIs

-----------------------------------------------------------------------------
(* Linked chains *)

(* x is the first of the items S of a chain, 0 without one; *)
LeadsIn(p, S, x) == IF x = 0 THEN S = {} ELSE IsFirst(p, S, x)

(* x is the one behind item i, 0 if that is the last. *)
FollowsIn(p, S, i, x) ==
  IF x = 0 THEN \A j \in S : ~ Before(p, i, j)
  ELSE /\ x \in S /\ Before(p, i, x)
       /\ \A j \in S : Before(p, i, j) => j = x \/ Before(p, x, j)

(* The links of the first c items of the array p. *)
InChains(p, c, ix, nx) ==
  /\ \A b \in Chains : LeadsIn(p, Chain(p, c, b), ix[b])
  /\ \A i \in 1..c : FollowsIn(p, Chain(p, c, Bucket(p[i])), i, nx[i])

(* Position k of the walk f through the items S: it is behind all before it,
   and every item of the chain that is before it was visited.               *)
Visits(f, p, S, k) ==
  /\ f[k] \in S \cup {0}
  /\ f[k] # 0 => \A j \in 1..k - 1 : Before(p, f[j], f[k])
  /\ \A i \in S : f[k] = 0 \/ Before(p, i, f[k]) => \E j \in 1..k - 1 : f[j] = i

(* The start of the walk, *)
LEMMA VisitsFirst ==
  ASSUME NEW c \in Nat, NEW p, Nonced(p, c), NEW S \in SUBSET (1..c),
         NEW f, LeadsIn(p, S, f[1])
  PROVE  Visits(f, p, S, 1)
<1>1. PICK x : x = f[1]
  OBVIOUS
<1>2. LeadsIn(p, S, x) /\ 0 \notin S
  BY <1>1
<1>3. CASE x = 0
  <2>1. S = {}
    BY <1>2, <1>3 DEF LeadsIn
  <2>2. QED
    BY <1>1, <1>3, <2>1 DEF Visits
<1>4. CASE x # 0
  <2>1. IsFirst(p, S, x)
    BY <1>2, <1>4 DEF LeadsIn
  <2>2. x \in S
    BY <2>1 DEF IsFirst
  <2>3. ASSUME NEW i \in S PROVE ~ Before(p, i, x)
    <3>1. i = x \/ Before(p, x, i)
      BY <2>1 DEF IsFirst
    <3>2. QED
      BY <2>2, <3>1, BeforeTotal
  <2>4. \A j \in 1..1 - 1 : FALSE
    OBVIOUS
  <2>5. QED
    BY <1>1, <1>4, <2>2, <2>3, <2>4 DEF Visits
<1>5. QED
  BY <1>3, <1>4

(* and one link more. *)
LEMMA VisitsNext ==
  ASSUME NEW c \in Nat, NEW p, Nonced(p, c), NEW S \in SUBSET (1..c),
         NEW f, NEW k \in Nat \ {0}, f[k] # 0, Visits(f, p, S, k),
         \A j \in 1..k : f[j] \in S,
         FollowsIn(p, S, f[k], f[k + 1])
  PROVE  Visits(f, p, S, k + 1)
<1>1. PICK x, y : x = f[k] /\ y = f[k + 1]
  OBVIOUS
<1>2. FollowsIn(p, S, x, y) /\ 0 \notin S /\ x \in S
  BY <1>1
<1>3. PICK R : R = 1..(k + 1) - 1
  OBVIOUS
<1>4. R = 1..k /\ R = (1..k - 1) \cup {k}
  BY <1>3
<1>5. \A i \in S : Before(p, i, x) => \E j \in R : f[j] = i
  BY <1>1, <1>4 DEF Visits
<1>6. \A j \in R : f[j] = x \/ Before(p, f[j], x)
  BY <1>1, <1>4 DEF Visits
<1>7. \E j \in R : f[j] = x
  BY <1>1, <1>4
<1>8. CASE y = 0
  <2>1. \A i \in S : ~ Before(p, x, i)
    BY <1>2, <1>8 DEF FollowsIn
  <2>2. ASSUME NEW i \in S PROVE \E j \in R : f[j] = i
    <3>1. i = x \/ Before(p, i, x)
      BY <1>2, <2>1, BeforeTotal
    <3>2. QED
      BY <1>5, <1>7, <3>1
  <2>3. QED
    BY <1>1, <1>3, <1>8, <2>2 DEF Visits
<1>9. CASE y # 0
  <2>1. /\ y \in S /\ Before(p, x, y)
        /\ \A i \in S : Before(p, x, i) => i = y \/ Before(p, y, i)
    BY <1>2, <1>9 DEF FollowsIn
  <2>2. ASSUME NEW j \in R PROVE Before(p, f[j], y)
    <3>1. f[j] \in S
      BY <1>4
    <3>2. f[j] = x \/ Before(p, f[j], x)
      BY <1>6
    <3>3. QED
      BY <1>2, <2>1, <3>1, <3>2, BeforeTrans
  <2>3. ASSUME NEW i \in S, Before(p, i, y) PROVE \E j \in R : f[j] = i
    <3>1. ~ Before(p, x, i)
      <4>1. ~ (i = y) /\ ~ Before(p, y, i)
        BY <2>1, <2>3, BeforeTotal
      <4>2. QED
        BY <2>1, <4>1
    <3>2. i = x \/ Before(p, i, x)
      BY <1>2, <3>1, BeforeTotal
    <3>3. QED
      BY <1>5, <1>7, <3>2
  <2>4. QED
    BY <1>1, <1>3, <1>9, <2>1, <2>2, <2>3 DEF Visits
<1>10. QED
  BY <1>8, <1>9

(* So the walk visits the items of the chain up to its end: *)
LEMMA WalkVisits ==
  ASSUME NEW c \in Nat, NEW l \in Nat, c <= l, NEW p, Nonced(p, c),
         NEW b \in Chains, NEW ix, NEW nx, InChains(p, c, ix, nx),
         NEW f, IsWalk(f, l, nx, ix[b]),
         NEW k \in 1..l + 1, \A j \in 1..k - 1 : f[j] # 0
  PROVE  \A j \in 1..k : Visits(f, p, Chain(p, c, b), j)
<1>1. PICK S : S = Chain(p, c, b)
  OBVIOUS
<1>2. S \in SUBSET (1..c) /\ \A i \in S : Bucket(p[i]) = b
  BY <1>1 DEF Chain
<1> DEFINE T == {z \in Nat : z + 1 <= k => \A j \in 1..z + 1 : Visits(f, p, S, j)}
<1>3. 0 \in T
  <2>1. LeadsIn(p, S, ix[b])
    BY <1>1 DEF InChains
  <2>2. f[1] = ix[b]
    BY DEF IsWalk
  <2>3. Visits(f, p, S, 1)
    BY <1>2, <2>1, <2>2, VisitsFirst
  <2>4. \A j \in 1..0 + 1 : j = 1
    OBVIOUS
  <2>5. QED
    BY <2>3, <2>4
<1>4. ASSUME NEW z \in T PROVE z + 1 \in T
  <2>1. z \in Nat
    OBVIOUS
  <2>2. SUFFICES ASSUME (z + 1) + 1 <= k
                 PROVE  \A j \in 1..(z + 1) + 1 : Visits(f, p, S, j)
    BY <2>1
  <2>3. PICK n : n = z + 1
    OBVIOUS
  <2>4. n \in Nat \ {0} /\ n <= k - 1 /\ n \in 1..l /\ k \in Nat
    BY <2>1, <2>2, <2>3
  <2>5. \A j \in 1..n : Visits(f, p, S, j)
    BY <2>1, <2>2, <2>3
  <2>6. \A j \in 1..n : j \in 1..k - 1
    BY <2>4
  <2>7. \A j \in 1..n : f[j] # 0 /\ f[j] \in S
    BY <2>5, <2>6 DEF Visits
  <2>8. n \in 1..n
    BY <2>4
  <2>9. f[n + 1] = nx[f[n]]
    BY <2>4 DEF IsWalk
  <2>10. f[n] \in 1..c /\ Bucket(p[f[n]]) = b
    BY <1>2, <2>7, <2>8
  <2>11. FollowsIn(p, S, f[n], f[n + 1])
    <3>1. FollowsIn(p, Chain(p, c, Bucket(p[f[n]])), f[n], nx[f[n]])
      BY <2>10 DEF InChains
    <3>2. QED
      BY <1>1, <2>9, <2>10, <3>1
  <2>12. Visits(f, p, S, n + 1)
    BY <1>2, <2>4, <2>5, <2>7, <2>8, <2>11, VisitsNext
  <2>13. \A j \in 1..n + 1 : j \in 1..n \/ j = n + 1
    BY <2>4
  <2>14. QED
    BY <2>3, <2>5, <2>12, <2>13
<1>5. T = Nat
  <2>1. T \subseteq Nat
    OBVIOUS
  <2> HIDE DEF T
  <2>2. QED
    BY <1>3, <1>4, <2>1, Induction
<1>6. k - 1 \in Nat /\ (k - 1) + 1 = k
  OBVIOUS
<1>7. k - 1 \in T
  BY <1>5, <1>6
<1>8. QED
  BY <1>1, <1>6, <1>7

(* it ends within as many links as the array has items. *)
LEMMA WalkEnds ==
  ASSUME NEW c \in Nat, NEW l \in Nat, c <= l, NEW p, Nonced(p, c),
         NEW b \in Chains, NEW ix, NEW nx, InChains(p, c, ix, nx),
         NEW f \in [1..l + 1 -> 0..l], IsWalk(f, l, nx, ix[b])
  PROVE  \E k \in 1..l + 1 : f[k] = 0
<1>1. SUFFICES ASSUME \A k \in 1..l + 1 : f[k] # 0 PROVE FALSE
  OBVIOUS
<1>2. PICK S : S = Chain(p, c, b)
  OBVIOUS
<1>3. S \in SUBSET (1..c)
  BY <1>2 DEF Chain
<1>4. \A k \in 1..l + 1 : Visits(f, p, S, k)
  <2>1. PICK k : k = l + 1
    OBVIOUS
  <2>2. k \in 1..l + 1 /\ \A j \in 1..k - 1 : j \in 1..l + 1
    BY <2>1
  <2>3. \A j \in 1..k - 1 : f[j] # 0
    BY <1>1, <2>2
  <2>4. \A j \in 1..k : Visits(f, p, Chain(p, c, b), j)
    BY <2>2, <2>3, WalkVisits
  <2>5. QED
    BY <1>2, <2>1, <2>4
<1>5. \A k \in 1..l + 1 : f[k] \in 1..c
  BY <1>1, <1>3, <1>4 DEF Visits
<1>6. f \in [1..l + 1 -> 1..c]
  BY <1>5
<1>7. \E i, j \in 1..l + 1 : i # j /\ f[i] = f[j]
  <2>1. IsFiniteSet(1..l + 1) /\ Cardinality(1..l + 1) = l + 1
    BY FS_Interval
  <2>2. IsFiniteSet(1..c) /\ Cardinality(1..c) = c
    BY FS_Interval
  <2>3. Cardinality(1..c) < Cardinality(1..l + 1)
    BY <2>1, <2>2
  <2>4. QED
    BY <1>6, <2>1, <2>2, <2>3, FS_PigeonHole
<1>8. ASSUME NEW i \in 1..l + 1, NEW j \in 1..l + 1, i < j, f[i] = f[j]
      PROVE  FALSE
  <2>1. i \in 1..j - 1
    BY <1>8
  <2>2. f[j] # 0 /\ Visits(f, p, S, j)
    BY <1>1, <1>4
  <2>3. Before(p, f[i], f[j])
    BY <2>1, <2>2 DEF Visits
  <2>4. QED
    BY <1>5, <1>8, <2>3, BeforeTotal
<1>9. \A i, j \in 1..l + 1 : i # j => i < j \/ j < i
  OBVIOUS
<1>10. QED
  BY <1>7, <1>8, <1>9

(* WalkEnd is the first position that is the end of the walk. *)
Ends(f, p, s, k) == f[k] = 0 \/ p[f[k]].nonce > s.nonce \/ p[f[k]] = s

Filled == \A i \in Items : ptr[i] \in Share

Linked == InChains(ptr, current_items, index, next)

(* There is always room for one more item. *)
LEMMA SizeIs ==
  ASSUME TypeOK
  PROVE  max_items \in Nat /\ current_items \in Nat /\ current_items < max_items
<1>1. ptr \in Seq(Share \cup {Empty})
  BY DEF TypeOK
<1>2. max_items \in Nat
  BY <1>1 DEF max_items
<1>3. QED
  BY <1>2 DEF TypeOK

(* Items that are filled have nonces. *)
LEMMA NoncedIs ==
  ASSUME TypeOK, Filled
  PROVE  Nonced(ptr, current_items)
<1>1. ASSUME NEW s \in Share PROVE s.nonce \in Nat
  BY BucketIs
<1>2. QED
  BY <1>1 DEF Filled, Items, Nonced

(* So the minimum in WalkEnd exists and is that position. *)
LEMMA WalkEndIs ==
  ASSUME TypeOK, Filled, Linked, NEW s \in Share
  PROVE  /\ WalkEnd(s) \in 1..max_items + 1
         /\ Ends(Walk(s), ptr, s, WalkEnd(s))
         /\ \A j \in 1..WalkEnd(s) - 1 : ~ Ends(Walk(s), ptr, s, j)
<1>1. PICK l, f : l = max_items /\ f = Walk(s)
  OBVIOUS
<1>2. l \in Nat /\ current_items \in Nat /\ current_items <= l
  BY <1>1, SizeIs
<1> DEFINE T == {k \in 1..l + 1 : Ends(f, ptr, s, k)}
<1>3. WalkEnd(s) = Min(T)
  BY <1>1 DEF WalkEnd, Ends
<1>4. T \in SUBSET Nat /\ T # {}
  <2>1. \E k \in 1..l + 1 : f[k] = 0
    <3>1. f \in [1..l + 1 -> 0..l] /\ IsWalk(f, l, next, index[Bucket(s)])
      BY <1>1, WalkIs
    <3>2. Bucket(s) \in Chains
      BY BucketIs
    <3>3. InChains(ptr, current_items, index, next)
      BY DEF Linked
    <3>4. Nonced(ptr, current_items)
      BY NoncedIs
    <3>5. QED
      BY <1>2, <3>1, <3>2, <3>3, <3>4, WalkEnds
  <2>2. PICK k \in 1..l + 1 : f[k] = 0
    BY <2>1
  <2>3. k \in T
    BY <2>2 DEF Ends
  <2>4. \A i \in T : i \in 1..l + 1
    OBVIOUS
  <2>5. 1..l + 1 \subseteq Nat
    BY <1>2
  <2>6. QED
    BY <2>3, <2>4, <2>5
<1>5. PICK k : k = Min(T)
  OBVIOUS
<1>6. k \in T /\ \A j \in T : k <= j
  <2> HIDE DEF T
  <2>1. QED
    BY <1>4, <1>5, MinIs
<1>7. ASSUME NEW j \in 1..k - 1 PROVE ~ Ends(f, ptr, s, j)
  <2>1. k \in 1..l + 1
    BY <1>6
  <2>2. j \in 1..l + 1 /\ ~ (k <= j)
    BY <1>2, <2>1
  <2>3. j \notin T
    BY <1>6, <2>2
  <2>4. QED
    BY <2>2, <2>3
<1>8. QED
  BY <1>1, <1>3, <1>5, <1>6, <1>7

(* The place between two neighbours, or none, where nonce z belongs. *)
Gap(p, S, z, q, x) ==
  /\ q = 0 => LeadsIn(p, S, x)
  /\ q # 0 => q \in S /\ p[q].nonce <= z /\ FollowsIn(p, S, q, x)
  /\ x # 0 => x \in S /\ p[x].nonce > z

Prev(s) == IF WalkEnd(s) = 1 THEN 0 ELSE Walk(s)[WalkEnd(s) - 1]
Behind(s) == Walk(s)[WalkEnd(s)]

(* A share that is not found is in no item, *)
LEMMA NotFound ==
  ASSUME TypeOK, Filled, Linked, NEW s \in Share, ~ Found(s)
  PROVE  \A i \in Items : ptr[i] # s
<1>1. SUFFICES ASSUME NEW i \in Items, ptr[i] = s PROVE FALSE
  OBVIOUS
<1>2. PICK k, f, b : k = WalkEnd(s) /\ f = Walk(s) /\ b = Bucket(s)
  OBVIOUS
<1>3. b \in Chains /\ s.nonce \in Nat
  BY <1>2, BucketIs
<1>4. PICK S : S = Chain(ptr, current_items, b)
  OBVIOUS
<1>5. i \in S
  BY <1>1, <1>2, <1>4 DEF Chain, Items
<1>6. /\ k \in 1..max_items + 1 /\ Ends(f, ptr, s, k)
      /\ \A j \in 1..k - 1 : ~ Ends(f, ptr, s, j)
  BY <1>2, WalkEndIs
<1>7. \A j \in 1..k - 1 : f[j] # 0 /\ f[j] # i
  BY <1>1, <1>6 DEF Ends
<1>8. Visits(f, ptr, S, k)
  <2>1. max_items \in Nat /\ current_items \in Nat /\ current_items <= max_items
    BY SizeIs
  <2>2. IsWalk(f, max_items, next, index[b])
    BY <1>2, WalkIs
  <2>3. InChains(ptr, current_items, index, next)
    BY DEF Linked
  <2>4. Nonced(ptr, current_items)
    BY NoncedIs
  <2>5. \A j \in 1..k : Visits(f, ptr, Chain(ptr, current_items, b), j)
    BY <1>3, <1>6, <1>7, <2>1, <2>2, <2>3, <2>4, WalkVisits
  <2>6. k \in 1..k
    BY <1>6, <2>1
  <2>7. QED
    BY <1>4, <2>5, <2>6
<1>9. f[k] # 0 /\ ~ Before(ptr, i, f[k])
  BY <1>5, <1>7, <1>8 DEF Visits
<1>10. ptr[f[k]] # s
  BY <1>2, <1>9 DEF Found
<1>11. ptr[f[k]].nonce > s.nonce
  BY <1>6, <1>9, <1>10 DEF Ends
<1>12. f[k] \in Items
  BY <1>4, <1>8, <1>9 DEF Visits, Chain, Items
<1>13. ptr[f[k]].nonce \in Nat
  BY <1>12, NoncedIs DEF Nonced, Items
<1>14. ptr[i].nonce < ptr[f[k]].nonce
  BY <1>1, <1>3, <1>11, <1>13
<1>15. QED
  BY <1>9, <1>14 DEF Before

(* and the walk for it ends where it belongs. *)
LEMMA GapIs ==
  ASSUME TypeOK, Filled, Linked, NEW s \in Share, ~ Found(s)
  PROVE  /\ Gap(ptr, Chain(ptr, current_items, Bucket(s)), s.nonce, Prev(s),
                Behind(s))
         /\ WalkEnd(s) = 1 <=> Prev(s) = 0
         /\ WalkEnd(s) = 1 => Behind(s) = Walk(s)[1]
         /\ WalkEnd(s) # 1 => Behind(s) = next[Prev(s)] /\ Prev(s) \in Items
<1>1. PICK k, f, b : k = WalkEnd(s) /\ f = Walk(s) /\ b = Bucket(s)
  OBVIOUS
<1>2. b \in Chains /\ s.nonce \in Nat
  BY <1>1, BucketIs
<1>3. PICK S : S = Chain(ptr, current_items, b)
  OBVIOUS
<1>4. S \subseteq Items /\ \A i \in S : Bucket(ptr[i]) = b
  BY <1>3 DEF Chain, Items
<1>5. max_items \in Nat /\ current_items \in Nat /\ current_items <= max_items
  BY SizeIs
<1>6. /\ k \in 1..max_items + 1 /\ Ends(f, ptr, s, k)
      /\ \A j \in 1..k - 1 : ~ Ends(f, ptr, s, j)
  BY <1>1, WalkEndIs
<1>7. IsWalk(f, max_items, next, index[b])
  BY <1>1, WalkIs
<1>8. InChains(ptr, current_items, index, next)
  BY DEF Linked
<1>9. \A j \in 1..k : Visits(f, ptr, S, j)
  <2>1. \A j \in 1..k - 1 : f[j] # 0
    BY <1>6 DEF Ends
  <2>2. Nonced(ptr, current_items)
    BY NoncedIs
  <2>3. QED
    BY <1>2, <1>3, <1>5, <1>6, <1>7, <1>8, <2>1, <2>2, WalkVisits
<1>10. PICK x : x = f[k]
  OBVIOUS
<1>11. x # 0 => x \in S /\ ptr[x].nonce > s.nonce
  <2>1. SUFFICES ASSUME x # 0 PROVE x \in S /\ ptr[x].nonce > s.nonce
    OBVIOUS
  <2>2. k \in 1..k
    BY <1>5, <1>6
  <2>3. x \in S
    BY <1>9, <1>10, <2>1, <2>2 DEF Visits
  <2>4. ptr[x] # s
    BY <1>4, <2>3, NotFound
  <2>5. QED
    BY <1>6, <1>10, <2>1, <2>3, <2>4 DEF Ends
<1>12. CASE k = 1
  <2>1. Prev(s) = 0 /\ Behind(s) = x /\ x = f[1]
    BY <1>1, <1>10, <1>12 DEF Prev, Behind
  <2>2. LeadsIn(ptr, S, x)
    BY <1>2, <1>3, <1>7, <1>8, <2>1 DEF InChains, IsWalk
  <2>3. QED
    BY <1>1, <1>3, <1>11, <1>12, <2>1, <2>2 DEF Gap
<1>13. CASE k # 1
  <2>1. PICK q : q = f[k - 1]
    OBVIOUS
  <2>2. k - 1 \in 1..k - 1 /\ k - 1 \in 1..k /\ k - 1 \in 1..max_items
        /\ (k - 1) + 1 = k
    BY <1>5, <1>6, <1>13
  <2>3. Prev(s) = q /\ Behind(s) = x
    BY <1>1, <1>10, <1>13, <2>1 DEF Prev, Behind
  <2>4. q # 0 /\ ~ (ptr[q].nonce > s.nonce)
    BY <1>6, <2>1, <2>2 DEF Ends
  <2>5. q \in S
    BY <1>9, <2>1, <2>2, <2>4 DEF Visits
  <2>6. q \in Items /\ Bucket(ptr[q]) = b
    BY <1>4, <2>5
  <2>7. ptr[q].nonce \in Nat
    BY <2>6, NoncedIs DEF Nonced, Items
  <2>8. ptr[q].nonce <= s.nonce
    BY <1>2, <2>4, <2>7
  <2>9. x = next[q]
    <3>1. f[(k - 1) + 1] = next[f[k - 1]]
      BY <1>7, <2>2 DEF IsWalk
    <3>2. QED
      BY <1>10, <2>1, <2>2, <3>1
  <2>10. FollowsIn(ptr, S, q, x)
    BY <1>3, <1>8, <2>6, <2>9 DEF InChains, Items
  <2>11. q # 0 => q \in S /\ ptr[q].nonce <= s.nonce /\ FollowsIn(ptr, S, q, x)
    BY <2>5, <2>8, <2>10
  <2>12. Gap(ptr, S, s.nonce, q, x)
    BY <1>11, <2>4, <2>11 DEF Gap
  <2>13. QED
    BY <1>1, <1>3, <1>13, <2>3, <2>4, <2>6, <2>9, <2>12
<1>14. QED
  BY <1>12, <1>13

-----------------------------------------------------------------------------
(* An item is put into the gap *)

(* Item n is between q and x, or at an end, of the items S. *)
Between(P, S, n, q, x) ==
  /\ q = 0 => \A j \in S : Before(P, n, j)
  /\ q # 0 => /\ q \in S /\ Before(P, q, n)
              /\ \A j \in S : Before(P, j, n) => j = q \/ Before(P, j, q)
  /\ x = 0 => \A j \in S : Before(P, j, n)
  /\ x # 0 => /\ x \in S /\ Before(P, n, x)
              /\ \A j \in S : Before(P, n, j) => j = x \/ Before(P, x, j)

(* An item at the end of the array that belongs into a gap is there. *)
LEMMA GapBetween ==
  ASSUME NEW c \in Nat, NEW P, Nonced(P, c + 1), NEW S \in SUBSET (1..c),
         NEW q, NEW x, Gap(P, S, P[c + 1].nonce, q, x)
  PROVE  Between(P, S, c + 1, q, x)
<1>1. PICK n, z : n = c + 1 /\ z = P[n].nonce
  OBVIOUS
<1>2. /\ n \in 1..c + 1 /\ n \notin S /\ n \in Nat /\ z \in Nat
      /\ \A j \in S : j \in 1..c + 1 /\ j \in Nat /\ j < n
  BY <1>1 DEF Nonced
<1>3. \A j \in S : P[j].nonce \in Nat
  BY <1>2 DEF Nonced
<1> DEFINE I == 1..n
<1>0. Nonced(P, n) /\ n \in I /\ \A j \in S : j \in I
  BY <1>1, <1>2
<1>4. \A j \in S : Before(P, n, j) <=> z < P[j].nonce
  BY <1>1, <1>2, <1>3 DEF Before
<1>5. \A j \in S : Before(P, j, n) <=> P[j].nonce <= z
  BY <1>1, <1>2, <1>3 DEF Before
<1>6. /\ q = 0 => LeadsIn(P, S, x)
      /\ q # 0 => q \in S /\ P[q].nonce <= z /\ FollowsIn(P, S, q, x)
      /\ x # 0 => x \in S /\ P[x].nonce > z
  BY <1>1 DEF Gap
<1>7. ASSUME q # 0 PROVE q \in S /\ Before(P, q, n)
  BY <1>5, <1>6, <1>7
<1>8. ASSUME x # 0 PROVE x \in S /\ Before(P, n, x) /\ P[x].nonce > z
  <2>1. x \in S /\ P[x].nonce > z
    BY <1>6, <1>8
  <2>2. z < P[x].nonce
    BY <1>2, <1>3, <2>1
  <2>3. QED
    BY <1>4, <2>1, <2>2
<1>9. ASSUME NEW j \in S, x # 0, j = x \/ Before(P, x, j) PROVE Before(P, n, j)
  <2>1. CASE j = x
    BY <1>8, <1>9, <2>1
  <2>2. CASE Before(P, x, j)
    <3>1. Before(P, n, x) /\ x \in I /\ j \in I
      BY <1>0, <1>8, <1>9
    <3>2. QED
      BY <1>0, <1>2, <2>2, <3>1, BeforeTrans
  <2>3. QED
    BY <1>9, <2>1, <2>2
<1>10. ASSUME q = 0, NEW j \in S PROVE x # 0 /\ (j = x \/ Before(P, x, j))
  <2>1. LeadsIn(P, S, x)
    BY <1>6, <1>10
  <2>2. QED
    BY <2>1 DEF LeadsIn, IsFirst
<1>11. ASSUME q # 0, NEW j \in S, Before(P, q, j)
       PROVE  x # 0 /\ (j = x \/ Before(P, x, j))
  <2>1. FollowsIn(P, S, q, x)
    BY <1>6, <1>11
  <2>2. QED
    BY <1>11, <2>1 DEF FollowsIn
<1>12. ASSUME q # 0, NEW j \in S
       PROVE  j = q \/ Before(P, j, q) \/ Before(P, n, j)
  <2>1. j = q \/ Before(P, j, q) \/ Before(P, q, j)
    <3>1. q \in I /\ j \in I
      BY <1>0, <1>7, <1>12
    <3>2. QED
      BY <1>0, <1>2, <3>1, BeforeTotal
  <2>2. QED
    BY <1>9, <1>11, <1>12, <2>1
<1>13. \A j \in S : ~ (Before(P, j, n) /\ Before(P, n, j))
  BY <1>2, BeforeTotal
<1>14. q = 0 => \A j \in S : Before(P, n, j)
  BY <1>9, <1>10
<1>15. q # 0 => \A j \in S : Before(P, j, n) => j = q \/ Before(P, j, q)
  BY <1>12, <1>13
<1>16. ASSUME NEW j \in S, Before(P, n, j)
       PROVE  x # 0 /\ (j = x \/ Before(P, x, j))
  <2>1. CASE q = 0
    BY <1>10, <2>1
  <2>2. CASE q # 0
    <3>1. Before(P, q, j)
      <4>1. q \in I /\ j \in I /\ Before(P, q, n)
        BY <1>0, <1>7, <1>16, <2>2
      <4>2. QED
        BY <1>0, <1>2, <1>16, <4>1, BeforeTrans
    <3>2. QED
      BY <1>11, <2>2, <3>1
  <2>3. QED
    BY <2>1, <2>2
<1>17. x = 0 => \A j \in S : Before(P, j, n)
  <2>1. \A j \in S : Before(P, j, n) \/ Before(P, n, j)
    BY <1>2, BeforeTotal
  <2>2. QED
    BY <1>16, <2>1
<1>18. QED
  BY <1>1, <1>7, <1>8, <1>14, <1>15, <1>16, <1>17 DEF Between

(* With it the chain is linked as before, but for its neighbours: the first *)
LEMMA LeadsWith ==
  ASSUME NEW n \in Nat \ {0}, NEW P, Nonced(P, n), NEW S \in SUBSET (1..n),
         n \notin S, NEW q, NEW x, Between(P, S, n, q, x),
         NEW h, LeadsIn(P, S, h)
  PROVE  LeadsIn(P, S \cup {n}, IF q = 0 THEN n ELSE h)
<1>0. n # 0 /\ n \in 1..n
  OBVIOUS
<1>1. CASE q = 0
  <2>1. \A j \in S : Before(P, n, j)
    BY <1>1 DEF Between
  <2>2. QED
    BY <1>0, <1>1, <2>1 DEF LeadsIn, IsFirst
<1>2. CASE q # 0
  <2>1. q \in S /\ Before(P, q, n)
    BY <1>2 DEF Between
  <2>2. h # 0 /\ h \in S /\ \A j \in S \ {h} : Before(P, h, j)
    BY <2>1 DEF LeadsIn, IsFirst
  <2>3. Before(P, h, n)
    <3>1. CASE h = q
      BY <2>1, <3>1
    <3>2. CASE h # q
      <4>1. Before(P, h, q) /\ h \in 1..n /\ q \in 1..n
        BY <2>1, <2>2, <3>2
      <4>2. QED
        BY <1>0, <2>1, <4>1, BeforeTrans
    <3>3. QED
      BY <3>1, <3>2
  <2>4. QED
    BY <1>2, <2>2, <2>3 DEF LeadsIn, IsFirst
<1>3. QED
  BY <1>1, <1>2

(* and the successor of each item. *)
LEMMA FollowsNew ==
  ASSUME NEW n \in Nat \ {0}, NEW P, Nonced(P, n), NEW S \in SUBSET (1..n),
         n \notin S, NEW q, NEW x, Between(P, S, n, q, x)
  PROVE  FollowsIn(P, S \cup {n}, n, x)
<1>0. n \in 1..n /\ ~ Before(P, n, n)
  <2>1. n \in 1..n
    OBVIOUS
  <2>2. QED
    BY <2>1, BeforeTotal
<1>1. CASE x = 0
  <2>1. \A j \in S : Before(P, j, n)
    BY <1>1 DEF Between
  <2>2. \A j \in S : ~ Before(P, n, j)
    BY <1>0, <2>1, BeforeTotal
  <2>3. QED
    BY <1>0, <1>1, <2>2 DEF FollowsIn
<1>2. CASE x # 0
  BY <1>0, <1>2 DEF Between, FollowsIn
<1>3. QED
  BY <1>1, <1>2

(* The new item follows the one it was put behind; *)
LEMMA FollowsPrev ==
  ASSUME NEW n \in Nat \ {0}, NEW P, Nonced(P, n), NEW S \in SUBSET (1..n),
         n \notin S, NEW q, NEW x, q # 0, Between(P, S, n, q, x)
  PROVE  FollowsIn(P, S \cup {n}, q, n)
<1>0. n \in 1..n /\ n # 0
  OBVIOUS
<1>1. /\ q \in S /\ Before(P, q, n)
      /\ \A j \in S : Before(P, j, n) => j = q \/ Before(P, j, q)
  BY DEF Between
<1>2. ASSUME NEW j \in S, Before(P, q, j) PROVE Before(P, n, j)
  <2>1. j # q /\ ~ Before(P, j, q)
    BY <1>1, <1>2, BeforeTotal
  <2>2. j # n /\ ~ Before(P, j, n)
    BY <1>1, <2>1
  <2>3. QED
    BY <1>0, <2>2, BeforeTotal
<1>3. QED
  BY <1>0, <1>1, <1>2 DEF FollowsIn

(* every other item keeps its successor. *)
LEMMA FollowsWith ==
  ASSUME NEW n \in Nat \ {0}, NEW P, Nonced(P, n), NEW S \in SUBSET (1..n),
         n \notin S, NEW q, NEW x, Between(P, S, n, q, x),
         NEW i \in S, i # q, NEW y, FollowsIn(P, S, i, y)
  PROVE  FollowsIn(P, S \cup {n}, i, y)
<1>0. n \in 1..n
  OBVIOUS
<1>1. ASSUME Before(P, i, n) PROVE q \in S /\ Before(P, i, q) /\ Before(P, q, n)
  <2>1. CASE q = 0
    <3>1. Before(P, n, i)
      BY <2>1 DEF Between
    <3>2. QED
      BY <1>0, <1>1, <3>1, BeforeTotal
  <2>2. CASE q # 0
    BY <1>1, <2>2 DEF Between
  <2>3. QED
    BY <2>1, <2>2
<1>2. CASE y = 0
  <2>1. \A j \in S : ~ Before(P, i, j)
    BY <1>2 DEF FollowsIn
  <2>2. ~ Before(P, i, n)
    BY <1>1, <2>1
  <2>3. QED
    BY <1>2, <2>1, <2>2 DEF FollowsIn
<1>3. CASE y # 0
  <2>1. /\ y \in S /\ Before(P, i, y)
        /\ \A j \in S : Before(P, i, j) => j = y \/ Before(P, y, j)
    BY <1>3 DEF FollowsIn
  <2>2. ASSUME Before(P, i, n) PROVE Before(P, y, n)
    <3>1. q \in S /\ Before(P, q, n) /\ (q = y \/ Before(P, y, q))
      BY <1>1, <2>1, <2>2
    <3>2. CASE q = y
      BY <3>1, <3>2
    <3>3. CASE Before(P, y, q)
      <4>1. y \in 1..n /\ q \in 1..n
        BY <2>1, <3>1
      <4>2. QED
        BY <1>0, <3>1, <3>3, <4>1, BeforeTrans
    <3>4. QED
      BY <3>1, <3>2, <3>3
  <2>3. QED
    BY <1>3, <2>1, <2>2 DEF FollowsIn
<1>4. QED
  BY <1>2, <1>3

(* Arrays that agree on some items agree on which is the first, *)
LEMMA SameLeads ==
  ASSUME NEW p, NEW P, NEW S, \A j \in S : P[j] = p[j], NEW x, LeadsIn(p, S, x)
  PROVE  LeadsIn(P, S, x)
<1>1. \A i, j \in S : Before(p, i, j) <=> Before(P, i, j)
  BY DEF Before
<1>2. QED
  BY <1>1 DEF LeadsIn, IsFirst

(* on successors, *)
LEMMA SameFollows ==
  ASSUME NEW p, NEW P, NEW S, \A j \in S : P[j] = p[j], NEW i \in S, NEW x,
         FollowsIn(p, S, i, x)
  PROVE  FollowsIn(P, S, i, x)
<1>1. \A k, j \in S : Before(p, k, j) <=> Before(P, k, j)
  BY DEF Before
<1>2. CASE x = 0
  BY <1>1, <1>2 DEF FollowsIn
<1>3. CASE x # 0
  BY <1>1, <1>3 DEF FollowsIn
<1>4. QED
  BY <1>2, <1>3

(* and for gaps. *)
LEMMA SameGap ==
  ASSUME NEW p, NEW P, NEW S, \A j \in S : P[j] = p[j], NEW z, NEW q, NEW x,
         Gap(p, S, z, q, x)
  PROVE  Gap(P, S, z, q, x)
<1>1. q = 0 => LeadsIn(P, S, x)
  BY SameLeads DEF Gap
<1>2. q # 0 => q \in S /\ P[q].nonce <= z /\ FollowsIn(P, S, q, x)
  BY SameFollows DEF Gap
<1>3. x # 0 => x \in S /\ P[x].nonce > z
  BY DEF Gap
<1>4. QED
  BY <1>1, <1>2, <1>3 DEF Gap

(* Item n of chain b is linked between q and x. *)
LinkedBetween(n, b, q, x, ix, nx, ix2, nx2) ==
  /\ \A d \in Chains : ix2[d] = IF d = b /\ q = 0 THEN n ELSE ix[d]
  /\ \A i \in 1..n : nx2[i] = IF i = n THEN x ELSE IF i = q THEN n ELSE nx[i]

(* Linked like that, the chains hold one item more. *)
LEMMA PutInChains ==
  ASSUME NEW c \in Nat, NEW p, NEW P, Nonced(p, c), Nonced(P, c + 1),
         \A i \in 1..c : P[i] = p[i],
         NEW b \in Chains, b = Bucket(P[c + 1]),
         NEW ix, NEW nx, NEW ix2, NEW nx2, InChains(p, c, ix, nx),
         NEW q, NEW x, Gap(p, Chain(p, c, b), P[c + 1].nonce, q, x),
         LinkedBetween(c + 1, b, q, x, ix, nx, ix2, nx2)
  PROVE  InChains(P, c + 1, ix2, nx2)
<1>1. PICK n, S : n = c + 1 /\ S = Chain(p, c, b)
  OBVIOUS
<1>2. n \in Nat \ {0} /\ n \notin 1..c /\ Nonced(P, n) /\ 1..n = (1..c) \cup {n}
  BY <1>1
<1>3. /\ S \subseteq 1..c /\ S \subseteq 1..n /\ n \notin S
      /\ \A j \in S : P[j] = p[j]
  BY <1>1, <1>2 DEF Chain
<1>4. Between(P, S, n, q, x)
  <2>1. Gap(P, S, P[n].nonce, q, x)
    BY <1>1, <1>3, SameGap
  <2>2. Gap(P, S, P[c + 1].nonce, q, x)
    BY <1>1, <2>1
  <2>3. Between(P, S, c + 1, q, x)
    BY <1>3, <2>2, GapBetween
  <2>4. QED
    BY <1>1, <2>3
<1>5. Chain(P, n, b) = S \cup {n}
  BY <1>1, <1>2 DEF Chain
<1>6. ASSUME NEW d \in Chains, d # b
      PROVE  /\ Chain(P, n, d) = Chain(p, c, d)
             /\ \A j \in Chain(p, c, d) : P[j] = p[j]
  BY <1>1, <1>2, <1>6 DEF Chain
<1>7. /\ \A d \in Chains : ix2[d] = IF d = b /\ q = 0 THEN n ELSE ix[d]
      /\ \A i \in 1..n : nx2[i] = IF i = n THEN x ELSE IF i = q THEN n ELSE nx[i]
  BY <1>1 DEF LinkedBetween
<1>8. ASSUME NEW d \in Chains PROVE LeadsIn(P, Chain(P, n, d), ix2[d])
  <2>1. LeadsIn(P, Chain(p, c, d), ix[d])
    <3>1. LeadsIn(p, Chain(p, c, d), ix[d])
      BY DEF InChains
    <3>2. \A j \in Chain(p, c, d) : P[j] = p[j]
      BY DEF Chain
    <3>3. QED
      BY <3>1, <3>2, SameLeads
  <2>2. CASE d # b
    BY <1>6, <1>7, <2>1, <2>2
  <2>3. CASE d = b
    <3>1. LeadsIn(P, S \cup {n}, IF q = 0 THEN n ELSE ix[b])
      BY <1>1, <1>2, <1>3, <1>4, <2>1, <2>3, LeadsWith
    <3>2. ix2[d] = IF q = 0 THEN n ELSE ix[b]
      BY <1>7, <2>3
    <3>3. QED
      BY <1>5, <2>3, <3>1, <3>2
  <2>4. QED
    BY <2>2, <2>3
<1>9. ASSUME NEW i \in 1..n
      PROVE  FollowsIn(P, Chain(P, n, Bucket(P[i])), i, nx2[i])
  <2>1. CASE i = n
    <3>1. Bucket(P[i]) = b /\ nx2[i] = x
      BY <1>1, <1>7, <2>1
    <3>2. FollowsIn(P, S \cup {n}, n, x)
      BY <1>2, <1>3, <1>4, FollowsNew
    <3>3. QED
      BY <1>5, <2>1, <3>1, <3>2
  <2>2. CASE i # n /\ i = q
    <3>1. i \in 1..c /\ q # 0
      BY <1>2, <2>2
    <3>2. q \in S
      BY <1>4, <3>1 DEF Between
    <3>3. Bucket(P[i]) = b
      BY <1>1, <1>3, <2>2, <3>2 DEF Chain
    <3>4. FollowsIn(P, S \cup {n}, q, n)
      BY <1>2, <1>3, <1>4, <3>1, FollowsPrev
    <3>5. nx2[i] = n
      BY <1>7, <2>2
    <3>6. QED
      BY <1>5, <2>2, <3>3, <3>4, <3>5
  <2>3. CASE i # n /\ i # q
    <3>1. i \in 1..c /\ nx2[i] = nx[i] /\ P[i] = p[i]
      BY <1>2, <1>7, <2>3
    <3>2. PICK d : d = Bucket(p[i])
      OBVIOUS
    <3>3. i \in Chain(p, c, d)
      BY <3>1, <3>2 DEF Chain
    <3>4. FollowsIn(p, Chain(p, c, d), i, nx[i])
      BY <3>1, <3>2 DEF InChains
    <3>5. FollowsIn(P, Chain(p, c, d), i, nx[i])
      <4>1. \A j \in Chain(p, c, d) : P[j] = p[j]
        BY DEF Chain
      <4>2. QED
        BY <3>3, <3>4, <4>1, SameFollows
    <3>6. CASE d = b
      <4>1. FollowsIn(P, S \cup {n}, i, nx[i])
        BY <1>1, <1>2, <1>3, <1>4, <2>3, <3>3, <3>5, <3>6, FollowsWith
      <4>2. QED
        BY <1>5, <3>1, <3>2, <3>6, <4>1
    <3>7. CASE d # b
      <4>1. Chain(P, n, d) = Chain(p, c, d)
        BY <1>1, <1>2, <3>7 DEF Chain
      <4>2. QED
        BY <3>1, <3>2, <3>5, <4>1
    <3>8. QED
      BY <3>6, <3>7
  <2>4. QED
    BY <2>1, <2>2, <2>3
<1>10. InChains(P, n, ix2, nx2)
  BY <1>8, <1>9 DEF InChains
<1>11. QED
  BY <1>1, <1>10

-----------------------------------------------------------------------------
(* The array is linked anew *)

(* Every chain is complete then, whatever order the array is in. *)
LEMMA ReorganizeIs ==
  ASSUME NEW n \in Nat, NEW p, Nonced(p, n), n <= Len(p), Len(p) \in Nat
  PROVE  /\ InChains(p, n, Reorganize(p, n).index, Reorganize(p, n).next)
         /\ Reorganize(p, n).index \in [Chains -> 0..n]
         /\ Reorganize(p, n).next \in [0..Len(p) -> 0..n]
<1>1. PICK ix, nx : ix = Reorganize(p, n).index /\ nx = Reorganize(p, n).next
  OBVIOUS
<1>2. ix = [b \in Chains |-> First(p, Chain(p, n, b))]
  BY <1>1 DEF Reorganize
<1>3. nx = [i \in 0..Len(p) |-> IF i \in 1..n THEN Successor(p, n, i) ELSE 0]
  BY <1>1 DEF Reorganize
<1>4. ASSUME NEW b \in Chains
      PROVE  LeadsIn(p, Chain(p, n, b), ix[b]) /\ ix[b] \in 0..n
  <2>1. PICK S : S = Chain(p, n, b)
    OBVIOUS
  <2>2. S \in SUBSET (1..n)
    BY <2>1 DEF Chain
  <2>3. ix[b] = First(p, S)
    BY <1>2, <2>1
  <2>4. /\ S = {} => First(p, S) = 0
        /\ S # {} => IsFirst(p, S, First(p, S))
        /\ First(p, S) \in 0..n
    BY <2>2, FirstIs
  <2>5. S # {} => First(p, S) # 0
    BY <2>2, <2>4 DEF IsFirst
  <2>6. LeadsIn(p, S, First(p, S))
    BY <2>4, <2>5 DEF LeadsIn
  <2>7. QED
    BY <2>1, <2>3, <2>4, <2>6
<1>5. ASSUME NEW i \in 1..n
      PROVE  FollowsIn(p, Chain(p, n, Bucket(p[i])), i, nx[i]) /\ nx[i] \in 0..n
  <2>1. PICK S : S = Chain(p, n, Bucket(p[i]))
    OBVIOUS
  <2>2. PICK R : R = {j \in S : Before(p, i, j)}
    OBVIOUS
  <2>3. R \in SUBSET (1..n)
    BY <2>1, <2>2 DEF Chain
  <2>4. nx[i] = First(p, R)
    <3>1. i \in 0..Len(p)
      OBVIOUS
    <3>2. nx[i] = Successor(p, n, i)
      BY <1>3, <3>1
    <3>3. QED
      BY <2>1, <2>2, <3>2 DEF Successor
  <2>5. /\ R = {} => First(p, R) = 0
        /\ R # {} => IsFirst(p, R, First(p, R))
        /\ First(p, R) \in 0..n
    BY <2>3, FirstIs
  <2>6. PICK x : x = First(p, R)
    OBVIOUS
  <2>7. CASE R = {}
    <3>1. x = 0 /\ \A j \in S : ~ Before(p, i, j)
      BY <2>2, <2>5, <2>6, <2>7
    <3>2. FollowsIn(p, S, i, x)
      BY <3>1 DEF FollowsIn
    <3>3. QED
      BY <2>1, <2>4, <2>5, <2>6, <3>2
  <2>8. CASE R # {}
    <3>1. x \in R /\ \A j \in R \ {x} : Before(p, x, j)
      BY <2>5, <2>6, <2>8 DEF IsFirst
    <3>2. x # 0 /\ x \in S /\ Before(p, i, x)
      BY <2>2, <2>3, <3>1
    <3>3. \A j \in S : Before(p, i, j) => j = x \/ Before(p, x, j)
      BY <2>2, <3>1
    <3>4. FollowsIn(p, S, i, x)
      BY <3>2, <3>3 DEF FollowsIn
    <3>5. QED
      BY <2>1, <2>4, <2>5, <2>6, <3>4
  <2>9. QED
    BY <2>7, <2>8
<1>6. InChains(p, n, ix, nx)
  BY <1>4, <1>5 DEF InChains
<1>7. ix \in [Chains -> 0..n]
  BY <1>2, <1>4
<1>8. nx \in [0..Len(p) -> 0..n]
  <2>1. ASSUME NEW i \in 0..Len(p) PROVE nx[i] \in 0..n
    <3>1. CASE i \in 1..n
      BY <1>5, <3>1
    <3>2. CASE i \notin 1..n
      BY <1>3, <3>2
    <3>3. QED
      BY <3>1, <3>2
  <2>2. QED
    BY <1>3, <2>1
<1>9. QED
  BY <1>1, <1>6, <1>7, <1>8

-----------------------------------------------------------------------------
(* The array is sorted *)

(* The first l items have jobs. *)
Dated(p, l) == \A i \in 1..l : p[i].job \in Int

(* The order of the sort is total and transitive, *)
LEMMA NewerTotal ==
  ASSUME NEW l \in Nat, NEW p, Dated(p, l), NEW i \in 1..l, NEW j \in 1..l
  PROVE  /\ i # j => Newer(p, i, j) \/ Newer(p, j, i)
         /\ ~ (Newer(p, i, j) /\ Newer(p, j, i))
         /\ ~ Newer(p, i, i)
         /\ Newer(p, i, j) => p[i].job >= p[j].job
<1>1. p[i].job \in Int /\ p[j].job \in Int /\ i \in Nat /\ j \in Nat
  BY DEF Dated
<1>2. QED
  BY <1>1 DEF Newer

(* as every order is. *)
LEMMA NewerTrans ==
  ASSUME NEW l \in Nat, NEW p, Dated(p, l), NEW i \in 1..l, NEW j \in 1..l,
         NEW k \in 1..l, Newer(p, i, j), Newer(p, j, k)
  PROVE  Newer(p, i, k)
<1>1. p[i].job \in Int /\ p[j].job \in Int /\ p[k].job \in Int
      /\ i \in Nat /\ j \in Nat /\ k \in Nat
  BY DEF Dated
<1>2. QED
  BY <1>1 DEF Newer

(* as there are l numbers up to l; *)
LEMMA IntervalIs ==
  ASSUME NEW l \in Nat
  PROVE  IsFiniteSet(1..l) /\ Cardinality(1..l) = l
<1>1. 1 \in Int /\ l \in Int
  OBVIOUS
<1>2. IsFiniteSet(1..l) /\ Cardinality(1..l) = IF 1 > l THEN 0 ELSE l - 1 + 1
  BY <1>1, FS_Interval
<1>3. QED
  BY <1>2

(* so the rank of an item is below that of an item behind it, *)
LEMMA RankIs ==
  ASSUME NEW p, NEW l, l = Len(p), l \in Nat, Dated(p, l), NEW i \in 1..l
  PROVE  Rank(p, i) \in 0..l - 1
<1>1. PICK R : R = {j \in 1..l : Newer(p, j, i)}
  OBVIOUS
<1>2. Rank(p, i) = Cardinality(R)
  BY <1>1 DEF Rank
<1>3. i \notin R /\ R \in SUBSET (1..l)
  BY <1>1, NewerTotal
<1>4. IsFiniteSet(1..l) /\ Cardinality(1..l) = l
  BY IntervalIs
<1>5. IsFiniteSet(R) /\ Cardinality(R) <= l /\ (l = Cardinality(R) => 1..l = R)
  BY <1>3, <1>4, FS_Subset
<1>6. Cardinality(R) \in Nat
  BY <1>5, FS_CardinalityType
<1>7. Cardinality(R) # l
  BY <1>3, <1>5
<1>8. QED
  BY <1>2, <1>5, <1>6, <1>7

(* and it grows along the order, *)
LEMMA RankFalls ==
  ASSUME NEW p, NEW l, l = Len(p), l \in Nat, Dated(p, l), NEW i \in 1..l,
         NEW j \in 1..l, Newer(p, i, j)
  PROVE  Rank(p, i) < Rank(p, j)
<1>1. PICK R, Q : /\ R = {k \in 1..l : Newer(p, k, i)}
                  /\ Q = {k \in 1..l : Newer(p, k, j)}
  OBVIOUS
<1>2. Rank(p, i) = Cardinality(R) /\ Rank(p, j) = Cardinality(Q)
  BY <1>1 DEF Rank
<1>3. i \notin R /\ R \in SUBSET (1..l) /\ Q \in SUBSET (1..l)
  BY <1>1, NewerTotal
<1>4. i \in Q
  BY <1>1
<1>5. R \subseteq Q
  BY <1>1, NewerTrans
<1>6. IsFiniteSet(R) /\ IsFiniteSet(Q)
  BY <1>3, IntervalIs, FS_Subset
<1>7. Cardinality(R) \in Nat /\ Cardinality(Q) \in Nat
  BY <1>6, FS_CardinalityType
<1>8. IsFiniteSet(R \cup {i}) /\ Cardinality(R \cup {i}) = Cardinality(R) + 1
  BY <1>3, <1>6, FS_AddElement
<1>9. Cardinality(R \cup {i}) <= Cardinality(Q)
  <2>1. R \cup {i} \in SUBSET Q
    BY <1>4, <1>5
  <2>2. QED
    BY <1>6, <2>1, FS_Subset
<1>10. QED
  BY <1>2, <1>7, <1>8, <1>9

(* and every rank is that of an item. *)
LEMMA RankTaken ==
  ASSUME NEW p, NEW l, l = Len(p), l \in Nat, Dated(p, l), NEW k \in 1..l
  PROVE  \E i \in 1..l : Rank(p, i) = k - 1
<1>1. PICK g : g = [i \in 1..l |-> Rank(p, i) + 1]
  OBVIOUS
<1>2. ASSUME NEW i \in 1..l PROVE Rank(p, i) \in 0..l - 1 /\ g[i] = Rank(p, i) + 1
  BY <1>1, RankIs
<1>3. g \in [1..l -> 1..l]
  <2>1. \A i \in 1..l : Rank(p, i) + 1 \in 1..l
    BY <1>2
  <2>2. QED
    BY <1>1, <2>1
<1>4. ASSUME NEW i \in 1..l, NEW j \in 1..l, i # j PROVE g[i] # g[j]
  <2>1. Newer(p, i, j) \/ Newer(p, j, i)
    BY <1>4, NewerTotal
  <2>2. Rank(p, i) < Rank(p, j) \/ Rank(p, j) < Rank(p, i)
    BY <2>1, RankFalls
  <2>3. QED
    BY <1>2, <2>2
<1>5. g \in Injection(1..l, 1..l)
  BY <1>3, <1>4 DEF Injection, IsInjective
<1>6. g \in Surjection(1..l, 1..l)
  BY <1>5, IntervalIs, FS_Injection
<1>7. PICK i \in 1..l : g[i] = k
  BY <1>6 DEF Surjection
<1>8. Rank(p, i) = k - 1
  BY <1>2, <1>7
<1>9. QED
  BY <1>8

(* The item of rank k - 1. *)
AtRank(p, k) == CHOOSE i \in 1..Len(p) : Rank(p, i) = k - 1

(* The item of a rank exists. *)
LEMMA AtRankIs ==
  ASSUME NEW p, NEW l, l = Len(p), l \in Nat, Dated(p, l), NEW k \in 1..l
  PROVE  AtRank(p, k) \in 1..l /\ Rank(p, AtRank(p, k)) = k - 1
  BY RankTaken DEF AtRank

(* The sorted array has an item of the old one at each position, *)
LEMMA SortIs ==
  ASSUME NEW X, NEW p \in Seq(X), Dated(p, Len(p))
  PROVE  /\ SortByAge(p) \in Seq(X) /\ Len(SortByAge(p)) = Len(p)
         /\ \A k \in 1..Len(p) : AtRank(p, k) \in 1..Len(p)
         /\ \A k \in 1..Len(p) : SortByAge(p)[k] = p[AtRank(p, k)]
<1>1. PICK l, r : l = Len(p) /\ r = SortByAge(p)
  OBVIOUS
<1>2. l \in Nat
  BY <1>1
<1>3. r = [k \in 1..l |-> p[AtRank(p, k)]]
  BY <1>1 DEF SortByAge, AtRank
<1>4. \A k \in 1..l : AtRank(p, k) \in 1..l
  BY <1>1, <1>2, AtRankIs
<1>5. \A i \in 1..l : p[i] \in X
  BY <1>1
<1>6. r \in [1..l -> X]
  BY <1>3, <1>4, <1>5
<1>7. r \in Seq(X) /\ Len(r) = l
  BY <1>2, <1>6
<1>8. QED
  BY <1>1, <1>3, <1>4, <1>7

(* has every item of the old one, *)
LEMMA SortKeeps ==
  ASSUME NEW X, NEW p \in Seq(X), Dated(p, Len(p)), NEW i \in 1..Len(p)
  PROVE  \E k \in 1..Len(p) : SortByAge(p)[k] = p[i]
<1>1. PICK l : l = Len(p)
  OBVIOUS
<1>2. l \in Nat /\ Dated(p, l)
  BY <1>1
<1>3. Rank(p, i) \in 0..l - 1
  BY <1>1, <1>2, RankIs
<1>4. PICK k : k = Rank(p, i) + 1
  OBVIOUS
<1>5. k \in 1..l /\ Rank(p, i) = k - 1
  BY <1>2, <1>3, <1>4
<1>6. PICK j : j = AtRank(p, k)
  OBVIOUS
<1>7. j \in 1..l /\ Rank(p, j) = k - 1
  BY <1>1, <1>2, <1>5, <1>6, AtRankIs
<1>8. j = i
  <2>1. SUFFICES ASSUME j # i PROVE FALSE
    OBVIOUS
  <2>2. Newer(p, i, j) \/ Newer(p, j, i)
    BY <1>1, <1>2, <1>7, <2>1, NewerTotal
  <2>3. Rank(p, i) < Rank(p, j) \/ Rank(p, j) < Rank(p, i)
    BY <1>1, <1>2, <1>7, <2>2, RankFalls
  <2>4. QED
    BY <1>3, <1>5, <1>7, <2>3
<1>9. SortByAge(p)[k] = p[AtRank(p, k)]
  BY <1>1, <1>5, SortIs
<1>10. QED
  BY <1>1, <1>5, <1>6, <1>8, <1>9

(* and those of newer jobs in front. *)
LEMMA SortFalls ==
  ASSUME NEW X, NEW p \in Seq(X), Dated(p, Len(p)),
         NEW k \in 1..Len(p), NEW z \in 1..Len(p), k < z
  PROVE  SortByAge(p)[k].job >= SortByAge(p)[z].job
<1>1. PICK l, i, j : l = Len(p) /\ i = AtRank(p, k) /\ j = AtRank(p, z)
  OBVIOUS
<1>2. l \in Nat /\ Dated(p, l) /\ k \in 1..l /\ z \in 1..l
  BY <1>1
<1>3. i \in 1..l /\ Rank(p, i) = k - 1
  BY <1>1, <1>2, AtRankIs
<1>4. j \in 1..l /\ Rank(p, j) = z - 1
  BY <1>1, <1>2, AtRankIs
<1>5. i # j
  BY <1>2, <1>3, <1>4
<1>6. ~ Newer(p, j, i)
  <2>1. SUFFICES ASSUME Newer(p, j, i) PROVE FALSE
    OBVIOUS
  <2>2. Rank(p, j) < Rank(p, i)
    BY <1>1, <1>2, <1>3, <1>4, <2>1, RankFalls
  <2>3. QED
    BY <1>2, <1>3, <1>4, <2>2
<1>7. p[i].job >= p[j].job
  <2>1. Newer(p, i, j)
    BY <1>2, <1>3, <1>4, <1>5, <1>6, NewerTotal
  <2>2. QED
    BY <1>2, <1>3, <1>4, <2>1, NewerTotal
<1>8. SortByAge(p)[k] = p[i] /\ SortByAge(p)[z] = p[j]
  BY <1>1, <1>2, SortIs
<1>9. QED
  BY <1>7, <1>8

-----------------------------------------------------------------------------
(* The array is cleaned up *)

(* Jobs age in the order in which they were made. *)
AgesFall == \A i, j \in 1..Jobs : i < j => age[i] >= age[j]

Sorted(p) == \A k, z \in 1..Len(p) : k < z => p[k].job >= p[z].job

(* No share is an empty item. *)
LEMMA ShareIs ==
  ASSUME NEW s \in Share
  PROVE  s.job \in 1..Jobs /\ s.nonce \in Nat \ {0} /\ s # Empty
<1>1. s.job \in 1..Jobs
  BY DEF Share
<1>2. s.nonce \in Nat \ {0}
  BY BucketIs
<1>3. Empty.nonce = 0
  BY DEF Empty
<1>4. QED
  BY <1>1, <1>2, <1>3

(* The ages of jobs. *)
LEMMA AgeIs ==
  ASSUME TypeOK, NEW s \in Share
  PROVE  age[s.job] \in {0, 1, 2}
<1>1. s.job \in 1..Jobs
  BY ShareIs
<1>2. age \in [1..Jobs -> Fresh..Stale]
  BY DEF TypeOK
<1>3. age[s.job] \in 0..2
  BY <1>1, <1>2 DEF Fresh, Stale
<1>4. QED
  BY <1>3

(* The first stale item of a sorted array is behind all fresh ones, *)
LEMMA FirstStaleIs ==
  ASSUME TypeOK, AgesFall, NEW p \in Seq(Share), Sorted(p)
  PROVE  /\ FirstStale(p) \in 0..Len(p)
         /\ \A i \in 1..Len(p) :
              age[p[i].job] = Fresh => FirstStale(p) = 0 \/ i < FirstStale(p)
<1>1. PICK l, T : l = Len(p) /\ T = {i \in 1..l : age[p[i].job] > Fresh}
  OBVIOUS
<1>2. l \in Nat /\ \A i \in 1..l : p[i] \in Share
  BY <1>1
<1>3. FirstStale(p) = IF T = {} THEN 0 ELSE Min(T)
  BY <1>1 DEF FirstStale
<1>4. CASE T = {}
  BY <1>1, <1>2, <1>3, <1>4
<1>5. CASE T # {}
  <2>1. T \in SUBSET (1..l) /\ 1..l \in SUBSET Nat
    BY <1>1, <1>2
  <2>2. T \in SUBSET Nat
    BY <2>1
  <2>3. PICK z : z = Min(T)
    OBVIOUS
  <2>4. z \in T
    BY <1>5, <2>2, <2>3, MinIs
  <2>5. z \in 1..l /\ age[p[z].job] > Fresh
    BY <1>1, <2>4
  <2>6. ASSUME NEW i \in 1..l, age[p[i].job] = Fresh PROVE i < z
    <3>1. SUFFICES ASSUME ~ (i < z) PROVE FALSE
      OBVIOUS
    <3>2. i # z
      BY <2>5, <2>6 DEF Fresh
    <3>3. z < i
      BY <1>2, <2>5, <3>1, <3>2
    <3>4. PICK a, b : a = p[i].job /\ b = p[z].job
      OBVIOUS
    <3>5. a \in 1..Jobs /\ b \in 1..Jobs
      BY <1>2, <2>5, <3>4, ShareIs
    <3>6. b >= a
      BY <1>1, <2>5, <3>3, <3>4 DEF Sorted
    <3>7. age[a] \in {0, 1, 2} /\ age[b] \in {0, 1, 2}
      BY <1>2, <2>5, <3>4, AgeIs
    <3>8. age[b] <= age[a]
      <4>1. CASE a = b
        BY <3>7, <4>1
      <4>2. CASE a # b
        <5>1. Jobs \in Nat
          BY TableAssumption
        <5>2. a < b
          BY <3>5, <3>6, <4>2, <5>1
        <5>3. age[a] >= age[b]
          BY <3>5, <5>2 DEF AgesFall
        <5>4. QED
          BY <3>7, <5>3
      <4>3. QED
        BY <4>1, <4>2
    <3>9. QED
      BY <2>5, <2>6, <3>4, <3>7, <3>8 DEF Fresh
  <2>7. FirstStale(p) = z
    BY <1>3, <1>5, <2>3
  <2>8. z \in 0..l
    BY <1>2, <2>5
  <2>9. QED
    BY <1>1, <2>6, <2>7, <2>8
<1>6. QED
  BY <1>4, <1>5

(* so no fresh one is dropped, *)
LEMMA KeptIs ==
  ASSUME TypeOK, AgesFall, NEW p \in Seq(Share), Sorted(p)
  PROVE  /\ Kept(p) \in 0..Len(p)
         /\ \A i \in 1..Len(p) : age[p[i].job] = Fresh => i <= Kept(p)
<1>1. PICK l, z : l = Len(p) /\ z = FirstStale(p)
  OBVIOUS
<1>2. l \in Nat /\ z \in 0..l
  BY <1>1, FirstStaleIs
<1>3. \A i \in 1..l : age[p[i].job] = Fresh => z = 0 \/ i < z
  BY <1>1, FirstStaleIs
<1>4. Kept(p) = l \/ (z # 0 /\ Kept(p) = z - 1)
  BY <1>1 DEF Kept
<1>5. CASE Kept(p) = l
  BY <1>1, <1>2, <1>5
<1>6. CASE z # 0 /\ Kept(p) = z - 1
  BY <1>1, <1>2, <1>3, <1>6
<1>7. QED
  BY <1>4, <1>5, <1>6

(* and there is room again. *)
LEMMA CleanedIs ==
  ASSUME NEW p \in Seq(Share), Len(p) >= 4, Kept(p) \in 0..Len(p)
  PROVE  /\ Cleaned(p) \in Seq(Share \cup {Empty})
         /\ Len(Cleaned(p)) >= Len(p) /\ Len(Cleaned(p)) \in Nat
         /\ Kept(p) < Len(Cleaned(p))
         /\ \A i \in 1..Kept(p) : Cleaned(p)[i] = p[i]
<1>1. PICK l, k, X : l = Len(p) /\ k = Kept(p) /\ X = Share \cup {Empty}
  OBVIOUS
<1>2. /\ l \in Nat /\ l >= 4 /\ k \in 0..l /\ Empty \in X
      /\ \A i \in 1..l : p[i] \in X
  BY <1>1
<1>3. CASE k = l
  <2>1. PICK d : d = (l * 125) \div 100 - l
    OBVIOUS
  <2>2. d \in Nat /\ d > 0
    BY <1>2, <2>1
  <2>3. PICK e : e = [i \in 1..d |-> Empty]
    OBVIOUS
  <2>4. e \in Seq(X) /\ Len(e) = d
    BY <1>2, <2>2, <2>3
  <2>5. Cleaned(p) = p \o e
    BY <1>1, <1>3, <2>1, <2>3 DEF Cleaned, Expand
  <2>6. p \in Seq(X)
    BY <1>1
  <2>7. /\ p \o e \in Seq(X) /\ Len(p \o e) = l + d
        /\ \A i \in 1..l : (p \o e)[i] = p[i]
    BY <1>1, <2>4, <2>6
  <2>8. QED
    BY <1>1, <1>2, <1>3, <2>2, <2>5, <2>7
<1>4. CASE k # l
  <2>1. PICK r : r = Cleaned(p)
    OBVIOUS
  <2>2. r = [i \in 1..l |-> IF i <= k THEN p[i] ELSE Empty]
    BY <1>1, <1>4, <2>1 DEF Cleaned
  <2>3. r \in [1..l -> X]
    BY <1>2, <2>2
  <2>4. r \in Seq(X) /\ Len(r) = l
    BY <1>2, <2>2, <2>3
  <2>5. \A i \in 1..k : r[i] = p[i]
    BY <1>2, <2>2
  <2>6. QED
    BY <1>1, <1>2, <1>4, <2>1, <2>4, <2>5
<1>5. QED
  BY <1>3, <1>4

(* A table that is filled and linked as it should be. *)
GoodTable(r, l) ==
  /\ r.ptr \in Seq(Share \cup {Empty}) /\ Len(r.ptr) >= l
  /\ r.current_items \in 0..Len(r.ptr) - 1
  /\ \A i \in 1..r.current_items : r.ptr[i] \in Share
  /\ r.index \in [Chains -> 0..Len(r.ptr)]
  /\ r.next \in [0..Len(r.ptr) -> 0..Len(r.ptr)]
  /\ InChains(r.ptr, r.current_items, r.index, r.next)

KeepsFresh(r, p) ==
  \A i \in 1..Len(p) :
    age[p[i].job] = Fresh => \E k \in 1..r.current_items : r.ptr[k] = p[i]

(* A full table is filled and linked again, and no fresh share is lost. *)
LEMMA CleanupIs ==
  ASSUME TypeOK, AgesFall, NEW t, t.ptr \in Seq(Share), Len(t.ptr) >= 4
  PROVE  GoodTable(Cleanup(t), Len(t.ptr)) /\ KeepsFresh(Cleanup(t), t.ptr)
<1>1. PICK a, p, l : a = t.ptr /\ p = SortByAge(a) /\ l = Len(a)
  OBVIOUS
<1>2. a \in Seq(Share) /\ l \in Nat /\ l >= 4 /\ \A i \in 1..l : a[i] \in Share
  BY <1>1
<1>3. Dated(a, l)
  <2>1. Jobs \in Nat
    BY TableAssumption
  <2>2. \A i \in 1..l : a[i].job \in 1..Jobs
    BY <1>2, ShareIs
  <2>3. QED
    BY <2>1, <2>2 DEF Dated
<1>4. p \in Seq(Share) /\ Len(p) = l
  BY <1>1, <1>2, <1>3, SortIs
<1>5. Sorted(p)
  <2>1. ASSUME NEW k \in 1..l, NEW z \in 1..l, k < z PROVE p[k].job >= p[z].job
    BY <1>1, <1>2, <1>3, <2>1, SortFalls
  <2>2. QED
    BY <1>4, <2>1 DEF Sorted
<1>6. PICK c, n : c = Cleaned(p) /\ n = Kept(p)
  OBVIOUS
<1>7. n \in 0..l /\ \A i \in 1..l : age[p[i].job] = Fresh => i <= n
  BY <1>4, <1>5, <1>6, KeptIs
<1>8. /\ c \in Seq(Share \cup {Empty}) /\ Len(c) >= l /\ Len(c) \in Nat /\ n < Len(c)
      /\ \A i \in 1..n : c[i] = p[i]
  BY <1>2, <1>4, <1>6, <1>7, CleanedIs
<1>9. \A i \in 1..n : i \in 1..l /\ c[i] \in Share
  BY <1>2, <1>4, <1>7, <1>8
<1>10. n \in Nat /\ n <= Len(c) /\ n \in 0..Len(c) - 1 /\ 0..n \subseteq 0..Len(c)
  BY <1>2, <1>7, <1>8
<1>11. Nonced(c, n)
  <2>1. \A i \in 1..n : c[i].nonce \in Nat
    BY <1>9, ShareIs
  <2>2. QED
    BY <2>1 DEF Nonced
<1>12. PICK r : r = Reorganize(c, n)
  OBVIOUS
<1>13. r = Cleanup(t)
  BY <1>1, <1>6, <1>12 DEF Cleanup
<1>14. r.ptr = c /\ r.current_items = n
  BY <1>12 DEF Reorganize
<1>15. /\ InChains(c, n, r.index, r.next)
       /\ r.index \in [Chains -> 0..n] /\ r.next \in [0..Len(c) -> 0..n]
  BY <1>8, <1>10, <1>11, <1>12, ReorganizeIs
<1>16. r.index \in [Chains -> 0..Len(c)] /\ r.next \in [0..Len(c) -> 0..Len(c)]
  BY <1>10, <1>15
<1>17. GoodTable(r, l)
  BY <1>8, <1>9, <1>10, <1>14, <1>15, <1>16 DEF GoodTable
<1>18. ASSUME NEW i \in 1..l, age[a[i].job] = Fresh
       PROVE  \E k \in 1..n : c[k] = a[i]
  <2>1. PICK k \in 1..l : p[k] = a[i]
    BY <1>1, <1>2, <1>3, SortKeeps
  <2>2. k <= n
    BY <1>7, <1>18, <2>1
  <2>3. k \in 1..n
    BY <1>2, <1>7, <2>1, <2>2
  <2>4. QED
    BY <1>8, <2>1, <2>3
<1>19. KeepsFresh(r, a)
  BY <1>1, <1>14, <1>18 DEF KeepsFresh
<1>20. QED
  BY <1>1, <1>13, <1>17, <1>19

-----------------------------------------------------------------------------
(* The invariant *)

(* A share that was accepted and whose job is fresh is in the table. *)
Remembered ==
  \A s \in accepted : age[s.job] = Fresh => \E i \in Items : ptr[i] = s

IInv ==
  /\ TypeOK
  /\ AgesFall
  /\ ~ misplaced => Filled /\ Linked /\ Remembered
  /\ FreshAcceptedOnce

(* The program starts with an empty table of empty chains. *)
LEMMA InitIs == Init => IInv
<1>1. SUFFICES ASSUME Init PROVE IInv
  OBVIOUS
<1>2. /\ ptr = [i \in 1..InitialItems |-> Empty]
      /\ next = [i \in 0..InitialItems |-> 0]
      /\ index = [b \in Chains |-> 0]
      /\ current_items = 0
      /\ age = [j \in 1..Jobs |-> Fresh]
      /\ accepted = {} /\ repeated = {} /\ misplaced = FALSE
  BY <1>1 DEF Init
<1>3. InitialItems \in Nat /\ InitialItems >= 4 /\ Jobs \in Nat
  BY TableAssumption
<1>4. ptr \in Seq(Share \cup {Empty}) /\ Len(ptr) = InitialItems
  BY <1>2, <1>3
<1>5. TypeOK
  <2>1. current_items \in 0..Len(ptr) - 1
    BY <1>2, <1>3, <1>4
  <2>2. next \in [0..Len(ptr) -> 0..Len(ptr)]
    BY <1>2, <1>3, <1>4
  <2>3. index \in [Chains -> 0..Len(ptr)]
    BY <1>2, <1>3, <1>4
  <2>4. age \in [1..Jobs -> Fresh..Stale]
    BY <1>2 DEF Fresh, Stale
  <2>5. accepted \subseteq Share /\ repeated \subseteq Share \X {Fresh, Late}
        /\ misplaced \in BOOLEAN
    BY <1>2
  <2>6. Len(ptr) >= InitialItems
    BY <1>3, <1>4
  <2>7. QED
    BY <1>4, <2>1, <2>2, <2>3, <2>4, <2>5, <2>6 DEF TypeOK, max_items
<1>6. AgesFall
  BY <1>2 DEF AgesFall, Fresh
<1>7. Linked
  <2>1. \A b \in Chains : Chain(ptr, current_items, b) = {} /\ index[b] = 0
    BY <1>2 DEF Chain
  <2>2. \A i \in 1..current_items : FALSE
    BY <1>2
  <2>3. QED
    BY <2>1, <2>2 DEF Linked, InChains, LeadsIn
<1>8. Filled
  BY <1>2 DEF Filled, Items
<1>9. Remembered /\ FreshAcceptedOnce
  BY <1>2 DEF Remembered, FreshAcceptedOnce
<1>10. QED
  BY <1>5, <1>6, <1>7, <1>8, <1>9 DEF IInv

(* A job that ages leaves the table alone, and only fewer jobs are fresh. *)
LEMMA KeepsJobAges ==
  ASSUME IInv, NEW j \in 1..Jobs, JobAges(j)
  PROVE  IInv'
<1>1. /\ age[j] < Stale
      /\ \A i \in 1..j - 1 : age[i] > age[j]
      /\ age' = [age EXCEPT ![j] = @ + 1]
      /\ ptr' = ptr /\ next' = next /\ index' = index
      /\ current_items' = current_items /\ accepted' = accepted
      /\ repeated' = repeated /\ misplaced' = misplaced
  BY DEF JobAges
<1>2. TypeOK /\ AgesFall /\ FreshAcceptedOnce /\ Jobs \in Nat
  BY TableAssumption DEF IInv
<1>3. age \in [1..Jobs -> 0..2] /\ \A i \in 1..Jobs : age[i] \in 0..2
  BY <1>2 DEF TypeOK, Fresh, Stale
<1>4. /\ age' \in [1..Jobs -> 0..2] /\ age'[j] = age[j] + 1
      /\ \A i \in 1..Jobs \ {j} : age'[i] = age[i]
  BY <1>1, <1>3 DEF Stale
<1>5. TypeOK'
  BY <1>1, <1>2, <1>4 DEF TypeOK, Fresh, Stale, max_items
<1>6. AgesFall'
  <2>1. ASSUME NEW i \in 1..Jobs, NEW k \in 1..Jobs, i < k PROVE age'[i] >= age'[k]
    <3>1. age[i] >= age[k] /\ age[i] \in 0..2 /\ age[k] \in 0..2
      BY <1>2, <1>3, <2>1 DEF AgesFall
    <3>2. CASE k = j
      <4>1. i \in 1..j - 1 /\ i # j
        BY <2>1, <3>2
      <4>2. age[i] > age[j]
        BY <1>1, <4>1
      <4>3. QED
        BY <1>4, <3>1, <3>2, <4>1, <4>2
    <3>3. CASE k # j
      <4>1. age'[k] = age[k] /\ age'[i] \in {age[i], age[i] + 1}
        BY <1>4, <3>3
      <4>2. QED
        BY <3>1, <4>1
    <3>4. QED
      BY <3>2, <3>3
  <2>2. QED
    BY <2>1 DEF AgesFall
<1>7. FreshAcceptedOnce'
  BY <1>1, <1>2 DEF FreshAcceptedOnce, Fresh
<1>8. ASSUME ~ misplaced' PROVE Filled' /\ Linked' /\ Remembered'
  <2>1. Filled /\ Linked /\ Remembered
    BY <1>1, <1>8 DEF IInv
  <2>2. Filled' /\ Linked'
    BY <1>1, <2>1 DEF Filled, Linked, Items
  <2>3. ASSUME NEW s \in accepted, age'[s.job] = Fresh
        PROVE  age[s.job] = Fresh
    <3>1. s \in Share
      BY <1>2 DEF TypeOK
    <3>2. s.job \in 1..Jobs
      BY <3>1, ShareIs
    <3>3. s.job # j
      <4>1. age[j] + 1 # 0
        BY <1>3
      <4>2. QED
        BY <1>4, <2>3, <4>1 DEF Fresh
    <3>4. QED
      BY <1>4, <2>3, <3>2, <3>3
  <2>4. Remembered'
    <3>1. ASSUME NEW s \in accepted, age'[s.job] = Fresh
          PROVE  \E i \in Items : ptr[i] = s
      BY <2>1, <2>3, <3>1 DEF Remembered
    <3>2. QED
      BY <1>1, <3>1 DEF Remembered, Items
  <2>5. QED
    BY <2>2, <2>4
<1>9. QED
  BY <1>5, <1>6, <1>7, <1>8 DEF IInv

-----------------------------------------------------------------------------
(* A share is accepted *)

(* The table with share s as the next item. *)
PtrWith(s) == [ptr EXCEPT ![current_items + 1] = s]

NextWith(s) ==
  IF Prev(s) = 0 THEN [next EXCEPT ![current_items + 1] = 0]
  ELSE [next EXCEPT ![current_items + 1] = next[Prev(s)],
                    ![Prev(s)] = current_items + 1]

TableWith(s) ==
  [ptr |-> PtrWith(s), current_items |-> current_items + 1, index |-> index,
   next |-> NextWith(s)]

(* The table after a share was put in, and what the caller does to it. *)
LEMMA InsertIs ==
  ASSUME NEW s \in Share, Insert(s), NEW t,
         t = IF IsFull(current_items + 1) THEN Cleanup(TableWith(s))
             ELSE TableWith(s)
  PROVE  /\ ptr' = t.ptr /\ current_items' = t.current_items
         /\ index' = IF WalkEnd(s) = 1
                     THEN [t.index EXCEPT ![Bucket(s)] = current_items + 1]
                     ELSE t.index
         /\ next' = IF WalkEnd(s) = 1 /\ Walk(s)[1] # 0
                    THEN [t.next EXCEPT ![current_items + 1] = Walk(s)[1]]
                    ELSE t.next
<1>1. AddNewDupe(s, Prev(s)) = t
  BY DEF AddNewDupe, TableWith, PtrWith, NextWith
<1>2. QED
  BY <1>1 DEF Insert, Prev

(* Only that item is new. *)
LEMMA PtrWithIs ==
  ASSUME TypeOK, Filled, NEW s \in Share
  PROVE  /\ PtrWith(s) \in Seq(Share \cup {Empty})
         /\ Len(PtrWith(s)) = max_items
         /\ PtrWith(s)[current_items + 1] = s
         /\ \A i \in 1..current_items : PtrWith(s)[i] = ptr[i]
         /\ \A i \in 1..current_items + 1 : PtrWith(s)[i] \in Share
<1>1. PICK c, X, P : c = current_items /\ X = Share \cup {Empty} /\ P = PtrWith(s)
  OBVIOUS
<1>2. ptr \in Seq(X) /\ s \in X /\ Len(ptr) = max_items
  BY <1>1 DEF TypeOK, max_items
<1>3. c \in Nat /\ max_items \in Nat /\ c < max_items
  BY <1>1, SizeIs
<1>4. c + 1 \in 1..max_items /\ \A i \in 1..c : i \in 1..max_items /\ i # c + 1
  BY <1>3
<1>5. P = [ptr EXCEPT ![c + 1] = s]
  BY <1>1 DEF PtrWith
<1>6. P \in Seq(X) /\ Len(P) = max_items /\ P[c + 1] = s
  BY <1>2, <1>4, <1>5
<1>7. \A i \in 1..c : P[i] = ptr[i]
  BY <1>2, <1>4, <1>5
<1>8. \A i \in 1..c : ptr[i] \in Share
  BY <1>1 DEF Filled, Items
<1>9. \A i \in 1..c + 1 : i \in 1..c \/ i = c + 1
  BY <1>3
<1>10. QED
  BY <1>1, <1>6, <1>7, <1>8, <1>9

(* With room left, it is linked between its neighbours, *)
LEMMA RoomLinks ==
  ASSUME TypeOK, Filled, Linked, NEW s \in Share, ~ Found(s), Insert(s),
         ~ IsFull(current_items + 1)
  PROVE  /\ ptr' = PtrWith(s) /\ current_items' = current_items + 1
         /\ index' \in [Chains -> 0..max_items]
         /\ next' \in [0..max_items -> 0..max_items]
         /\ LinkedBetween(current_items + 1, Bucket(s), Prev(s), Behind(s), index,
                          next, index', next')
<1>1. PICK n, b, q, x, k : /\ n = current_items + 1 /\ b = Bucket(s) /\ q = Prev(s)
                           /\ x = Behind(s) /\ k = WalkEnd(s)
  OBVIOUS
<1>2. PICK t : t = TableWith(s)
  OBVIOUS
<1>3. /\ ptr' = t.ptr /\ current_items' = t.current_items
      /\ index' = IF k = 1 THEN [t.index EXCEPT ![b] = n] ELSE t.index
      /\ next' = IF k = 1 /\ Walk(s)[1] # 0
                 THEN [t.next EXCEPT ![n] = Walk(s)[1]] ELSE t.next
  BY <1>1, <1>2, InsertIs
<1>4. t.ptr = PtrWith(s) /\ t.current_items = n /\ t.index = index
      /\ t.next = NextWith(s)
  BY <1>1, <1>2 DEF TableWith
<1>5. current_items \in Nat /\ max_items \in Nat /\ n \in 1..max_items
      /\ n # 0 /\ 1..n \subseteq 0..max_items /\ n \in 0..max_items
  BY <1>1, SizeIs
<1>6. index \in [Chains -> 0..max_items] /\ next \in [0..max_items -> 0..max_items]
      /\ b \in Chains
  BY <1>1, BucketIs DEF TypeOK
<1>7. /\ k = 1 <=> q = 0
      /\ k = 1 => x = Walk(s)[1]
      /\ k # 1 => x = next[q] /\ q \in Items
  BY <1>1, GapIs
<1>8. Items \subseteq 0..max_items /\ n \notin Items
  BY <1>1, <1>5 DEF Items
<1>9. x \in 0..max_items
  <2>1. CASE k = 1
    <3>1. Walk(s) \in [1..max_items + 1 -> 0..max_items]
      BY WalkIs
    <3>2. 1 \in 1..max_items + 1
      BY <1>5
    <3>3. QED
      BY <1>7, <2>1, <3>1, <3>2
  <2>2. CASE k # 1
    BY <1>6, <1>7, <1>8, <2>2
  <2>3. QED
    BY <2>1, <2>2
<1>10. /\ index' \in [Chains -> 0..max_items]
       /\ \A d \in Chains : index'[d] = IF d = b /\ q = 0 THEN n ELSE index[d]
  <2>1. CASE q = 0
    <3>1. index' = [index EXCEPT ![b] = n]
      BY <1>3, <1>4, <1>7, <2>1
    <3>2. QED
      BY <1>5, <1>6, <2>1, <3>1
  <2>2. CASE q # 0
    <3>1. index' = index
      BY <1>3, <1>4, <1>7, <2>2
    <3>2. QED
      BY <1>6, <2>2, <3>1
  <2>3. QED
    BY <2>1, <2>2
<1>11. /\ next' \in [0..max_items -> 0..max_items]
       /\ \A i \in 1..n :
            next'[i] = IF i = n THEN x ELSE IF i = q THEN n ELSE next[i]
  <2>1. CASE q = 0
    <3>1. next' = [next EXCEPT ![n] = x]
      <4>1. t.next = [next EXCEPT ![n] = 0]
        BY <1>1, <1>4, <2>1 DEF NextWith
      <4>2. PICK f : f = t.next
        OBVIOUS
      <4>3. f = [next EXCEPT ![n] = 0] /\ x = Walk(s)[1]
        BY <1>7, <2>1, <4>1, <4>2
      <4>4. CASE x = 0
        BY <1>3, <4>2, <4>3, <4>4
      <4>5. CASE x # 0
        <5>1. next' = [f EXCEPT ![n] = x]
          BY <1>3, <1>7, <2>1, <4>2, <4>3, <4>5
        <5>2. QED
          BY <1>5, <1>6, <4>3, <5>1
      <4>6. QED
        BY <4>4, <4>5
    <3>2. next' \in [0..max_items -> 0..max_items]
      BY <1>6, <1>9, <3>1
    <3>3. \A i \in 1..n : next'[i] = IF i = n THEN x ELSE next[i]
      BY <1>5, <1>6, <3>1
    <3>4. \A i \in 1..n : i # q
      BY <1>5, <2>1
    <3>5. QED
      BY <3>2, <3>3, <3>4
  <2>2. CASE q # 0
    <3>1. next' = [next EXCEPT ![n] = x, ![q] = n]
      <4>1. t.next = [next EXCEPT ![n] = next[q], ![q] = n]
        BY <1>1, <1>4, <2>2 DEF NextWith
      <4>2. next' = t.next /\ x = next[q]
        BY <1>3, <1>7, <2>2
      <4>3. QED
        BY <4>1, <4>2
    <3>2. q \in 0..max_items /\ q # n
      BY <1>7, <1>8, <2>2
    <3>3. next' \in [0..max_items -> 0..max_items]
      BY <1>5, <1>6, <1>9, <3>1, <3>2
    <3>4. \A i \in 1..n :
            next'[i] = IF i = n THEN x ELSE IF i = q THEN n ELSE next[i]
      BY <1>5, <1>6, <3>1, <3>2
    <3>5. QED
      BY <3>3, <3>4
  <2>3. QED
    BY <2>1, <2>2
<1>12. QED
  BY <1>1, <1>3, <1>4, <1>10, <1>11 DEF LinkedBetween

(* and nothing else is moved. *)
LEMMA RoomKeeps ==
  ASSUME TypeOK, Filled, Linked, NEW s \in Share, ~ Found(s), Insert(s),
         ~ IsFull(current_items + 1)
  PROVE  /\ ptr' \in Seq(Share \cup {Empty}) /\ max_items' = max_items
         /\ current_items' \in 0..max_items - 1
         /\ Filled' /\ Linked'
         /\ \A i \in Items : i \in Items' /\ ptr'[i] = ptr[i]
         /\ \E i \in Items' : ptr'[i] = s
<1>1. PICK c, P, b : c = current_items /\ P = PtrWith(s) /\ b = Bucket(s)
  OBVIOUS
<1>2. /\ ptr' = P /\ current_items' = c + 1
      /\ LinkedBetween(c + 1, b, Prev(s), Behind(s), index, next, index', next')
  BY <1>1, RoomLinks
<1>3. /\ P \in Seq(Share \cup {Empty}) /\ Len(P) = max_items /\ P[c + 1] = s
      /\ \A i \in 1..c : P[i] = ptr[i]
      /\ \A i \in 1..c + 1 : P[i] \in Share
  BY <1>1, PtrWithIs
<1>4. c \in Nat /\ max_items \in Nat /\ c + 1 < max_items
  BY <1>1, SizeIs DEF IsFull
<1>5. Linked'
  <2>1. Nonced(ptr, c)
    BY <1>1, NoncedIs
  <2>2. Nonced(P, c + 1)
    <3>1. \A i \in 1..c + 1 : P[i].nonce \in Nat
      BY <1>3, ShareIs
    <3>2. QED
      BY <3>1 DEF Nonced
  <2>3. b \in Chains /\ b = Bucket(P[c + 1])
    BY <1>1, <1>3, BucketIs
  <2>4. InChains(ptr, c, index, next)
    BY <1>1 DEF Linked
  <2>5. Gap(ptr, Chain(ptr, c, b), P[c + 1].nonce, Prev(s), Behind(s))
    BY <1>1, <1>3, GapIs
  <2>6. InChains(P, c + 1, index', next')
    BY <1>2, <1>3, <1>4, <2>1, <2>2, <2>3, <2>4, <2>5, PutInChains
  <2>7. QED
    BY <1>2, <2>6 DEF Linked
<1>6. Items = 1..c /\ Items' = 1..c + 1
  BY <1>1, <1>2 DEF Items
<1>7. Filled'
  BY <1>2, <1>3, <1>6 DEF Filled
<1>8. \A i \in Items : i \in Items' /\ ptr'[i] = ptr[i]
  BY <1>2, <1>3, <1>4, <1>6
<1>9. \E i \in Items' : ptr'[i] = s
  <2>1. c + 1 \in Items' /\ ptr'[c + 1] = s
    BY <1>2, <1>3, <1>4, <1>6
  <2>2. QED
    BY <2>1
<1>10. ptr' \in Seq(Share \cup {Empty}) /\ max_items' = max_items
       /\ current_items' \in 0..max_items - 1
  BY <1>2, <1>3, <1>4 DEF max_items
<1>11. QED
  BY <1>5, <1>7, <1>8, <1>9, <1>10

(* Without, the table is cleaned up. *)
LEMMA FullTable ==
  ASSUME TypeOK, AgesFall, Filled, NEW s \in Share, IsFull(current_items + 1)
  PROVE  /\ GoodTable(Cleanup(TableWith(s)), max_items)
         /\ KeepsFresh(Cleanup(TableWith(s)), PtrWith(s))
         /\ Len(PtrWith(s)) = max_items /\ max_items = current_items + 1
<1>1. PICK t, P, l : t = TableWith(s) /\ P = PtrWith(s) /\ l = max_items
  OBVIOUS
<1>2. t.ptr = P
  BY <1>1 DEF TableWith
<1>3. l \in Nat /\ l >= 4 /\ l = current_items + 1
  <2>1. l \in Nat /\ current_items \in Nat /\ current_items < l
    BY <1>1, SizeIs
  <2>2. current_items + 1 >= l
    BY <1>1 DEF IsFull
  <2>3. l >= InitialItems /\ InitialItems \in Nat /\ InitialItems >= 4
    BY <1>1, TableAssumption DEF TypeOK
  <2>4. QED
    BY <2>1, <2>2, <2>3
<1>4. P \in Seq(Share) /\ Len(P) = l
  <2>1. P \in Seq(Share \cup {Empty}) /\ Len(P) = l /\ \A i \in 1..l : P[i] \in Share
    BY <1>1, <1>3, PtrWithIs
  <2>2. QED
    BY <2>1
<1>5. GoodTable(Cleanup(t), l) /\ KeepsFresh(Cleanup(t), P)
  BY <1>2, <1>3, <1>4, CleanupIs
<1>6. QED
  BY <1>1, <1>3, <1>4, <1>5

(* The caller may set the chain to the old place, which is still in the array. *)
LEMMA FullKeepsTypes ==
  ASSUME TypeOK, AgesFall, Filled, Linked, NEW s \in Share, ~ Found(s), Insert(s),
         IsFull(current_items + 1)
  PROVE  /\ ptr' \in Seq(Share \cup {Empty}) /\ max_items' \in Nat
         /\ max_items' >= max_items
         /\ current_items' \in 0..max_items' - 1
         /\ index' \in [Chains -> 0..max_items']
         /\ next' \in [0..max_items' -> 0..max_items']
<1>1. PICK n, b, l, r, z : /\ n = current_items + 1 /\ b = Bucket(s)
                           /\ l = max_items /\ r = Cleanup(TableWith(s))
                           /\ z = Len(r.ptr)
  OBVIOUS
<1>2. /\ ptr' = r.ptr /\ current_items' = r.current_items
      /\ index' = IF WalkEnd(s) = 1 THEN [r.index EXCEPT ![b] = n] ELSE r.index
      /\ next' = IF WalkEnd(s) = 1 /\ Walk(s)[1] # 0
                 THEN [r.next EXCEPT ![n] = Walk(s)[1]] ELSE r.next
  BY <1>1, InsertIs
<1>3. GoodTable(r, l) /\ l = n /\ l \in Nat
  BY <1>1, FullTable, SizeIs
<1>4. r.ptr \in Seq(Share \cup {Empty}) /\ z >= l /\ z \in Nat
  BY <1>1, <1>3 DEF GoodTable
<1>5. /\ r.current_items \in 0..z - 1 /\ r.index \in [Chains -> 0..z]
      /\ r.next \in [0..z -> 0..z]
  BY <1>1, <1>3 DEF GoodTable
<1>6. n \in 0..z
  BY <1>3, <1>4
<1>7. Walk(s)[1] \in 0..z
  <2>1. Walk(s) \in [1..l + 1 -> 0..l]
    BY <1>1, WalkIs
  <2>2. 1 \in 1..l + 1 /\ 0..l \subseteq 0..z
    BY <1>3, <1>4
  <2>3. QED
    BY <2>1, <2>2
<1>8. index' \in [Chains -> 0..z]
  BY <1>2, <1>5, <1>6
<1>9. next' \in [0..z -> 0..z]
  BY <1>2, <1>5, <1>7
<1>10. max_items' = z
  BY <1>1, <1>2 DEF max_items
<1>11. QED
  BY <1>1, <1>2, <1>4, <1>5, <1>8, <1>9, <1>10

(* If it does not, all fresh shares are found again. *)
LEMMA FullKeeps ==
  ASSUME TypeOK, AgesFall, Filled, NEW s \in Share, Insert(s),
         IsFull(current_items + 1), WalkEnd(s) # 1
  PROVE  /\ Filled' /\ Linked'
         /\ \A i \in Items :
              age[ptr[i].job] = Fresh => \E k \in Items' : ptr'[k] = ptr[i]
         /\ age[s.job] = Fresh => \E k \in Items' : ptr'[k] = s
<1>1. PICK n, r, P : /\ n = current_items + 1 /\ r = Cleanup(TableWith(s))
                     /\ P = PtrWith(s)
  OBVIOUS
<1>2. /\ ptr' = r.ptr /\ current_items' = r.current_items /\ index' = r.index
      /\ next' = r.next
  BY <1>1, InsertIs
<1>3. /\ GoodTable(r, max_items) /\ KeepsFresh(r, P) /\ Len(P) = n
  BY <1>1, FullTable
<1>4. Items' = 1..r.current_items
  BY <1>2 DEF Items
<1>5. Filled'
  BY <1>2, <1>3, <1>4 DEF GoodTable, Filled
<1>6. Linked'
  BY <1>2, <1>3 DEF GoodTable, Linked
<1>7. \A i \in 1..n : age[P[i].job] = Fresh => \E k \in Items' : ptr'[k] = P[i]
  BY <1>2, <1>3, <1>4 DEF KeepsFresh
<1>8. P[n] = s /\ \A i \in Items : P[i] = ptr[i]
  BY <1>1, PtrWithIs DEF Items
<1>9. n \in 1..n /\ Items \subseteq 1..n
  BY <1>1, SizeIs DEF Items
<1>10. age[s.job] = Fresh => \E k \in Items' : ptr'[k] = s
  BY <1>7, <1>8, <1>9
<1>11. ASSUME NEW i \in Items, age[ptr[i].job] = Fresh
       PROVE  \E k \in Items' : ptr'[k] = ptr[i]
  BY <1>7, <1>8, <1>9, <1>11
<1>12. QED
  BY <1>5, <1>6, <1>10, <1>11

(* An accepted share is new, and it and all fresh ones are in the table then. *)
LEMMA KeepsAccept ==
  ASSUME IInv, NEW s \in Share, Accept(s)
  PROVE  IInv'
<1>1. /\ ~ misplaced /\ age[s.job] # Stale /\ ~ Found(s)
      /\ Insert(s)
      /\ accepted' = accepted \cup {s}
      /\ repeated' = IF s \in accepted THEN repeated \cup {<<s, age[s.job]>>}
                     ELSE repeated
      /\ misplaced' = (misplaced \/ (IsFull(current_items + 1) /\ WalkEnd(s) = 1))
      /\ age' = age
  BY DEF Accept
<1>2. TypeOK /\ AgesFall /\ Filled /\ Linked /\ Remembered /\ FreshAcceptedOnce
  BY <1>1 DEF IInv
<1>3. s \notin accepted \/ age[s.job] # Fresh
  <2>1. \A i \in Items : ptr[i] # s
    BY <1>1, <1>2, NotFound
  <2>2. QED
    BY <1>2, <2>1 DEF Remembered
<1>4. FreshAcceptedOnce'
  <2>1. ASSUME NEW r \in repeated' PROVE r[2] # Fresh
    <3>1. r \in repeated \/ (s \in accepted /\ r = <<s, age[s.job]>>)
      BY <1>1
    <3>2. CASE r \in repeated
      BY <1>2, <3>2 DEF FreshAcceptedOnce
    <3>3. CASE s \in accepted /\ r = <<s, age[s.job]>>
      BY <1>3, <3>3
    <3>4. QED
      BY <3>1, <3>2, <3>3
  <2>2. QED
    BY <2>1 DEF FreshAcceptedOnce
<1>5. accepted' \subseteq Share /\ repeated' \subseteq Share \X {Fresh, Late}
  <2>1. age[s.job] \in {Fresh, Late}
    BY <1>1, <1>2, AgeIs DEF Fresh, Late, Stale
  <2>2. <<s, age[s.job]>> \in Share \X {Fresh, Late}
    BY <2>1
  <2>3. QED
    BY <1>1, <1>2, <2>2 DEF TypeOK
<1>6. misplaced' \in BOOLEAN
  BY <1>1
<1>7. InitialItems \in Nat /\ max_items \in Nat /\ max_items >= InitialItems
  BY <1>2, TableAssumption, SizeIs DEF TypeOK
<1>8. TypeOK'
  <2>1. /\ ptr' \in Seq(Share \cup {Empty}) /\ max_items' \in Nat
        /\ max_items' >= max_items
        /\ current_items' \in 0..max_items' - 1
        /\ index' \in [Chains -> 0..max_items']
        /\ next' \in [0..max_items' -> 0..max_items']
    <3>1. CASE IsFull(current_items + 1)
      BY <1>1, <1>2, <3>1, FullKeepsTypes
    <3>2. CASE ~ IsFull(current_items + 1)
      <4>1. /\ ptr' \in Seq(Share \cup {Empty}) /\ max_items' = max_items
            /\ current_items' \in 0..max_items - 1
        BY <1>1, <1>2, <3>2, RoomKeeps
      <4>2. /\ index' \in [Chains -> 0..max_items]
            /\ next' \in [0..max_items -> 0..max_items]
        BY <1>1, <1>2, <3>2, RoomLinks
      <4>3. PICK l, z : l = max_items /\ z = max_items'
        OBVIOUS
      <4>4. z = l /\ l \in Nat /\ z >= l
        BY <1>7, <4>1, <4>3
      <4>5. /\ ptr' \in Seq(Share \cup {Empty})
            /\ current_items' \in 0..z - 1
            /\ index' \in [Chains -> 0..z]
            /\ next' \in [0..z -> 0..z]
        BY <4>1, <4>2, <4>3, <4>4
      <4>6. QED
        BY <4>3, <4>4, <4>5
    <3>3. QED
      BY <3>1, <3>2
  <2>2. max_items' >= InitialItems
    BY <1>7, <2>1
  <2>3. age' \in [1..Jobs -> Fresh..Stale]
    BY <1>1, <1>2 DEF TypeOK
  <2>4. QED
    BY <1>5, <1>6, <2>1, <2>2, <2>3 DEF TypeOK
<1>9. ASSUME ~ misplaced' PROVE Filled' /\ Linked' /\ Remembered'
  <2>1. /\ Filled' /\ Linked'
        /\ \A i \in Items :
             age[ptr[i].job] = Fresh => \E k \in Items' : ptr'[k] = ptr[i]
        /\ age[s.job] = Fresh => \E k \in Items' : ptr'[k] = s
    <3>1. CASE IsFull(current_items + 1)
      <4>1. WalkEnd(s) # 1
        BY <1>1, <1>9, <3>1
      <4>2. QED
        BY <1>1, <1>2, <3>1, <4>1, FullKeeps
    <3>2. CASE ~ IsFull(current_items + 1)
      <4>1. /\ Filled' /\ Linked'
            /\ \A i \in Items : i \in Items' /\ ptr'[i] = ptr[i]
            /\ \E i \in Items' : ptr'[i] = s
        BY <1>1, <1>2, <3>2, RoomKeeps
      <4>2. QED
        BY <4>1
    <3>3. QED
      BY <3>1, <3>2
  <2>2. Remembered'
    <3>1. ASSUME NEW u \in accepted', age[u.job] = Fresh
          PROVE  \E k \in Items' : ptr'[k] = u
      <4>1. CASE u = s
        BY <2>1, <3>1, <4>1
      <4>2. CASE u # s
        <5>1. u \in accepted
          BY <1>1, <3>1, <4>2
        <5>2. PICK i \in Items : ptr[i] = u
          BY <1>2, <3>1, <5>1 DEF Remembered
        <5>3. QED
          BY <2>1, <3>1, <5>2
      <4>3. QED
        BY <4>1, <4>2
    <3>2. QED
      BY <1>1, <3>1 DEF Remembered
  <2>3. QED
    BY <2>1, <2>2
<1>10. AgesFall'
  BY <1>1, <1>2 DEF AgesFall
<1>11. QED
  BY <1>4, <1>8, <1>9, <1>10 DEF IInv

(* Every step keeps the invariant. *)
LEMMA KeepsNext == IInv /\ [Next]_vars => IInv'
<1>1. SUFFICES ASSUME IInv, [Next]_vars PROVE IInv'
  OBVIOUS
<1>2. CASE UNCHANGED vars
  <2>1. /\ ptr' = ptr /\ next' = next /\ index' = index
        /\ current_items' = current_items /\ age' = age /\ accepted' = accepted
        /\ repeated' = repeated /\ misplaced' = misplaced
    BY <1>2 DEF vars
  <2>2. TypeOK' <=> TypeOK
    BY <2>1 DEF TypeOK, max_items
  <2>3. (Filled' <=> Filled) /\ (Linked' <=> Linked) /\ (AgesFall' <=> AgesFall)
    BY <2>1 DEF Filled, Linked, AgesFall, Items
  <2>4. (Remembered' <=> Remembered) /\ (FreshAcceptedOnce' <=> FreshAcceptedOnce)
    BY <2>1 DEF Remembered, FreshAcceptedOnce, Items
  <2>5. QED
    BY <1>1, <2>1, <2>2, <2>3, <2>4 DEF IInv
<1>3. CASE \E s \in Share : Accept(s)
  BY <1>1, <1>3, KeepsAccept
<1>4. CASE \E j \in 1..Jobs : JobAges(j)
  BY <1>1, <1>4, KeepsJobAges
<1>5. QED
  BY <1>1, <1>2, <1>3, <1>4 DEF Next

(* Whatever shares come and however the jobs age, the invariant holds. *)
THEOREM Invariant == Spec => []IInv
<1>1. QED
  BY InitIs, KeepsNext, PTL DEF Spec

-----------------------------------------------------------------------------
(* What the links of a chain mean for a walk *)

(* What leads to item i: items and chains. *)
LeadingTo(i) ==
  {q \in Items : next[q] = i}
    \cup {Buckets + max_items + b : b \in {c \in Chains : index[c] = i}}

(* An item is led to by items of its chain that go before it, *)
LEMMA FromItem ==
  ASSUME TypeOK, Filled, Linked, NEW i \in Items, NEW q \in Items, next[q] = i
  PROVE  /\ Bucket(ptr[q]) = Bucket(ptr[i]) /\ Before(ptr, q, i)
         /\ \A j \in Items : Bucket(ptr[j]) = Bucket(ptr[i]) /\ Before(ptr, q, j)
              => j = i \/ Before(ptr, i, j)
<1>1. PICK d, S : d = Bucket(ptr[q]) /\ S = Chain(ptr, current_items, d)
  OBVIOUS
<1>2. S = {j \in Items : Bucket(ptr[j]) = d} /\ i # 0
  BY <1>1 DEF Chain, Items
<1>3. FollowsIn(ptr, S, q, i)
  BY <1>1 DEF Linked, InChains, Items
<1>4. /\ i \in S /\ Before(ptr, q, i)
      /\ \A j \in S : Before(ptr, q, j) => j = i \/ Before(ptr, i, j)
  BY <1>2, <1>3 DEF FollowsIn
<1>5. QED
  BY <1>1, <1>2, <1>4

(* and by a chain if it is the first of it. *)
LEMMA FromChain ==
  ASSUME TypeOK, Filled, Linked, NEW i \in Items, NEW b \in Chains, index[b] = i
  PROVE  /\ Bucket(ptr[i]) = b
         /\ \A j \in Items : Bucket(ptr[j]) = b => j = i \/ Before(ptr, i, j)
<1>1. PICK S : S = Chain(ptr, current_items, b)
  OBVIOUS
<1>2. S = {j \in Items : Bucket(ptr[j]) = b} /\ i # 0
  BY <1>1 DEF Chain, Items
<1>3. LeadsIn(ptr, S, i)
  BY <1>1 DEF Linked, InChains
<1>4. i \in S /\ \A j \in S \ {i} : Before(ptr, i, j)
  BY <1>2, <1>3 DEF LeadsIn, IsFirst
<1>5. QED
  BY <1>2, <1>4

(* So one item or chain leads to each item. *)
LEMMA OneLeads ==
  ASSUME TypeOK, Filled, Linked, NEW i \in Items
  PROVE  \E y : LeadingTo(i) = {y}
<1>1. PICK c, b : c = current_items /\ b = Bucket(ptr[i])
  OBVIOUS
<1>2. c \in Nat /\ Items = 1..c /\ Nonced(ptr, c)
  BY <1>1, SizeIs, NoncedIs DEF Items
<1>3. \A j \in Items : Bucket(ptr[j]) \in Chains
  BY BucketIs DEF Filled
<1>4. PICK S : S = {j \in Items : Bucket(ptr[j]) = b}
  OBVIOUS
<1>5. i \in S /\ i # 0 /\ b \in Chains /\ S = Chain(ptr, c, b)
  BY <1>1, <1>2, <1>3, <1>4 DEF Chain
<1>6. PICK R : R = {j \in S : Before(ptr, j, i)}
  OBVIOUS
<1>7. R \in SUBSET (1..c)
  BY <1>2, <1>4, <1>6
<1>8. \A q \in Items : next[q] = i => q \in R
  BY <1>1, <1>4, <1>6, FromItem
<1>9. \A d \in Chains : index[d] = i => d = b /\ \A j \in R : j = i \/ Before(ptr, i, j)
  BY <1>1, <1>4, <1>6, FromChain
<1>10. \A j \in R : j # i /\ ~ Before(ptr, i, j)
  BY <1>2, <1>4, <1>6, BeforeTotal
<1>11. CASE R = {}
  <2>1. index[b] = i
    <3>1. LeadsIn(ptr, S, index[b])
      BY <1>1, <1>5 DEF Linked, InChains
    <3>2. PICK h : h = index[b]
      OBVIOUS
    <3>3. h \in S /\ (i = h \/ Before(ptr, h, i))
      BY <1>5, <3>1, <3>2 DEF LeadsIn, IsFirst
    <3>4. h \notin R
      BY <1>11
    <3>5. QED
      BY <1>6, <3>2, <3>3, <3>4
  <2>2. {q \in Items : next[q] = i} = {}
    BY <1>8, <1>11
  <2>3. {d \in Chains : index[d] = i} = {b}
    BY <1>5, <1>9, <2>1
  <2>4. LeadingTo(i) = {Buckets + max_items + b}
    BY <2>2, <2>3 DEF LeadingTo
  <2>5. QED
    BY <2>4
<1>12. CASE R # {}
  <2>1. PICK q \in R : \A j \in R \ {q} : Before(ptr, j, q)
    BY <1>2, <1>7, <1>12, LastExists
  <2>2. q \in S /\ q \in Items /\ Before(ptr, q, i)
    BY <1>4, <1>6, <2>1
  <2>3. next[q] = i
    <3>1. PICK y : y = next[q]
      OBVIOUS
    <3>2. FollowsIn(ptr, S, q, y)
      BY <1>1, <1>2, <1>4, <1>5, <2>2, <3>1 DEF Linked, InChains
    <3>3. y # 0 /\ y \in S /\ Before(ptr, q, y) /\ (i = y \/ Before(ptr, y, i))
      BY <1>5, <2>2, <3>2 DEF FollowsIn
    <3>4. y \notin R
      <4>1. SUFFICES ASSUME y \in R PROVE FALSE
        OBVIOUS
      <4>2. y = q \/ Before(ptr, y, q)
        BY <2>1, <4>1
      <4>3. y \in 1..c /\ q \in 1..c
        BY <1>7, <2>1, <4>1
      <4>4. QED
        BY <1>2, <3>3, <4>2, <4>3, BeforeTotal
    <3>5. QED
      BY <1>6, <3>1, <3>3, <3>4
  <2>4. ASSUME NEW r \in Items, next[r] = i PROVE r = q
    <3>1. SUFFICES ASSUME r # q PROVE FALSE
      OBVIOUS
    <3>2. r \in R
      BY <1>8, <2>4
    <3>3. Before(ptr, r, q)
      BY <2>1, <3>1, <3>2
    <3>4. Bucket(ptr[q]) = Bucket(ptr[i])
      BY <1>1, <1>4, <2>2
    <3>5. q = i \/ Before(ptr, i, q)
      BY <2>2, <2>4, <3>3, <3>4, FromItem
    <3>6. QED
      BY <1>10, <2>1, <3>5
  <2>5. {r \in Items : next[r] = i} = {q}
    BY <2>2, <2>3, <2>4
  <2>6. {d \in Chains : index[d] = i} = {}
    BY <1>9, <1>10, <2>1
  <2>7. LeadingTo(i) = {q}
    BY <2>5, <2>6 DEF LeadingTo
  <2>8. QED
    BY <2>7
<1>13. QED
  BY <1>11, <1>12

(* The invariant says that every item is on the one chain it belongs to. *)
LEMMA LinkedComplete == IInv => ChainsComplete
<1>1. SUFFICES ASSUME IInv PROVE ChainsComplete
  OBVIOUS
<1>2. TypeOK
  BY <1>1 DEF IInv
<1>3. SUFFICES ASSUME ~ misplaced
               PROVE  /\ \A i \in Items : Cardinality(LeadingTo(i)) = 1
                      /\ \A b \in Chains : index[b] # 0 => Bucket(ptr[index[b]]) = b
                      /\ \A i \in Items : next[i] # 0 =>
                           /\ next[i] \in Items
                           /\ Bucket(ptr[next[i]]) = Bucket(ptr[i])
                           /\ ptr[next[i]].nonce >= ptr[i].nonce
  BY <1>2 DEF ChainsComplete, LeadingTo
<1>4. Filled /\ Linked
  BY <1>1, <1>3 DEF IInv
<1>5. \A i \in Items : Cardinality(LeadingTo(i)) = 1
  BY <1>2, <1>4, OneLeads, FS_Singleton
<1>6. ASSUME NEW b \in Chains, index[b] # 0 PROVE Bucket(ptr[index[b]]) = b
  <2>1. LeadsIn(ptr, Chain(ptr, current_items, b), index[b])
    BY <1>4 DEF Linked, InChains
  <2>2. index[b] \in Chain(ptr, current_items, b)
    BY <1>6, <2>1 DEF LeadsIn, IsFirst
  <2>3. QED
    BY <2>2 DEF Chain
<1>7. ASSUME NEW i \in Items, next[i] # 0
      PROVE  /\ next[i] \in Items /\ Bucket(ptr[next[i]]) = Bucket(ptr[i])
             /\ ptr[next[i]].nonce >= ptr[i].nonce
  <2>1. PICK x : x = next[i]
    OBVIOUS
  <2>2. FollowsIn(ptr, Chain(ptr, current_items, Bucket(ptr[i])), i, x)
    BY <1>4, <2>1 DEF Linked, InChains, Items
  <2>3. x \in Chain(ptr, current_items, Bucket(ptr[i])) /\ Before(ptr, i, x)
    BY <1>7, <2>1, <2>2 DEF FollowsIn
  <2>4. x \in Items /\ Bucket(ptr[x]) = Bucket(ptr[i])
    BY <2>3 DEF Chain, Items
  <2>5. ptr[x].nonce \in Nat /\ ptr[i].nonce \in Nat
    BY <1>2, <1>4, <2>4, NoncedIs DEF Nonced, Items
  <2>6. ptr[x].nonce >= ptr[i].nonce
    BY <2>3, <2>5 DEF Before
  <2>7. QED
    BY <2>1, <2>4, <2>6
<1>8. QED
  BY <1>5, <1>6, <1>7

(* datum_stratum_dupes_reorganize and datum_stratum_add_new_dupe keep every
   item in the one chain that a look-up of its share walks.                 *)
THEOREM ChainsAlwaysComplete == Spec => []ChainsComplete
<1>1. QED
  BY Invariant, LinkedComplete, PTL

(* No share of a fresh job is accepted twice by one thread. *)
THEOREM AlwaysAcceptedOnce == Spec => []AcceptedOnceUnlessMisplaced
<1>1. IInv => AcceptedOnceUnlessMisplaced
  BY DEF IInv, AcceptedOnceUnlessMisplaced
<1>2. QED
  BY <1>1, Invariant, PTL

-----------------------------------------------------------------------------
(* The requests of a client *)

-----------------------------------------------------------------------------
(* Places *)

(* A job has a place. *)
LEMMA PlaceType ==
  ASSUME Parameters, NEW j \in Nat
  PROVE  PlaceOf(j) \in Place
  BY DEF Parameters, PlaceOf, Place

(* Quotient and remainder. *)
LEMMA Division ==
  ASSUME NEW j \in Nat, NEW n \in Nat \ {0}
  PROVE  j = n * (j \div n) + (j % n)
  OBVIOUS

(* A product grows by its factor. *)
LEMMA Product ==
  ASSUME NEW n \in Nat, NEW a \in Int, NEW b \in Int, a < b
  PROVE  n * a + n <= n * b
<1>1. b - a - 1 \in Nat
  OBVIOUS
<1>2. n * (b - a - 1) >= 0
  BY <1>1
<1>3. n * (b - a - 1) = n * b - n * a - n
  OBVIOUS
<1> QED  BY <1>2, <1>3

(* Jobs that have a place in common are a round of the places apart. *)
LEMMA PlacesApart ==
  ASSUME Parameters, NEW j \in Nat, NEW k \in Nat, j < k,
         PlaceOf(j) = PlaceOf(k)
  PROVE  j + NumPlaces <= k
<1> DEFINE n == NumPlaces
           a == j \div n
           b == k \div n
<1>1. n \in Nat \ {0}
  BY DEF Parameters
<1>2. a \in Int /\ b \in Int
  BY <1>1
<1>3. j = n * a + (j % n)
  BY <1>1, Division
<1>4. k = n * b + (k % n)
  BY <1>1, Division
<1>0. j % n \in Int
  BY <1>1
<1>5. j % n = k % n
  BY DEF PlaceOf
<1>6. n * a \in Int /\ n * b \in Int
  BY <1>1, <1>2
<1>7. n * a < n * b
  <2> HIDE DEF n, a, b
  <2> QED  BY <1>0, <1>3, <1>4, <1>5, <1>6
<1>8. a < b
  <2>1. CASE b < a
    <3>1. n * b + n <= n * a
      BY <1>1, <1>2, <2>1, Product
    <3> HIDE DEF n, a, b
    <3> QED  BY <3>1, <1>1, <1>6, <1>7
  <2>2. CASE a = b
    <3> HIDE DEF n, a, b
    <3> QED BY <2>2, <1>6, <1>7
  <2> HIDE DEF n, a, b
  <2> QED  BY <2>1, <2>2, <1>2
<1>9. n * a + n <= n * b
  BY <1>1, <1>2, <1>8, Product
<1> HIDE DEF n, a, b
<1> QED  BY <1>0, <1>1, <1>3, <1>4, <1>5, <1>6, <1>9 DEF n

-----------------------------------------------------------------------------
(* Difficulties *)

(* The constants, one by one. *)
LEMMA Constants ==
  ASSUME Parameters
  PROVE  /\ NumPlaces \in Nat \ {0}
         /\ VardiffMin \in Nat \ {0} /\ HighMin \in Nat \ {0} /\ MaxDiff \in Nat \ {0}
         /\ VardiffMin <= MaxDiff /\ HighMin <= MaxDiff
         /\ \A p \in PoolMins : p \in Nat \ {0} /\ p <= MaxDiff
  BY DEF Parameters

(* A client that has subscribed: neither the difficulty it was told nor the one
   it is to be told next is below the two minima.                           *)
Served(x) ==
  /\ x \in Miner /\ x.subscribed
  /\ x.current >= VardiffMin /\ x.current >= x.forcedHigh
  /\ x.lastSent >= VardiffMin /\ x.lastSent >= x.forcedHigh

(* What shares are measured by is the same for x and y. *)
SameTables(x, y) == y.diffs = x.diffs /\ y.quickValue = x.quickValue

(* The difficulty to be told next changes. *)
LEMMA NextDifficulty ==
  ASSUME NEW x, Served(x), NEW d \in Diff, d >= VardiffMin, d >= x.forcedHigh
  PROVE  LET y == [x EXCEPT !.current = d]
         IN Served(y) /\ SameTables(x, y) /\ y.current = d /\ y.lastSent = x.lastSent
<1> DEFINE y == [x EXCEPT !.current = d]
<1>1. x \in Miner
  BY DEF Served
<1>2. y \in Miner /\ SameTables(x, y)
  BY <1>1 DEF Miner, SameTables
<1>3. /\ y.current = d /\ y.lastSent = x.lastSent
      /\ y.forcedHigh = x.forcedHigh /\ y.subscribed = x.subscribed
  BY <1>1 DEF Miner
<1> HIDE DEF y
<1>4. Served(y)
  BY <1>2, <1>3 DEF Served
<1> QED  BY <1>2, <1>3, <1>4 DEF y

(* Halved keeps the minima and is a difficulty. *)
LEMMA HalvedFits ==
  ASSUME Parameters, NEW x, Served(x)
  PROVE  Halved(x) >= VardiffMin /\ Halved(x) >= x.forcedHigh
<1>1. x.current \in Nat /\ x.forcedHigh \in Nat /\ VardiffMin \in Nat
  BY Constants DEF Served, Miner, Diff
<1>2. x.current \div 2 \in Nat
  BY <1>1
<1> QED  BY <1>1, <1>2 DEF Halved, Larger

(* stratum_update_vardiff touches neither table. *)
LEMMA VardiffServed ==
  ASSUME Parameters, NEW x, Served(x), NEW y \in Vardiff(x)
  PROVE  Served(y) /\ SameTables(x, y)
<1>1. CASE y = x
  BY <1>1 DEF SameTables
<1>2. CASE \E d \in {Halved(x), 2 * x.current} \cap Diff :
             y = [x EXCEPT !.current = d]
  <2>1. PICK d \in {Halved(x), 2 * x.current} \cap Diff :
               y = [x EXCEPT !.current = d]
    BY <1>2
  <2>2. x.current \in Nat /\ x.forcedHigh \in Nat /\ VardiffMin \in Nat
    BY Constants DEF Served, Miner, Diff
  <2>3. x.current >= VardiffMin /\ x.current >= x.forcedHigh
    BY DEF Served
  <2>4. d >= VardiffMin /\ d >= x.forcedHigh
    <3>1. CASE d = Halved(x)
      BY <3>1, HalvedFits
    <3>2. CASE d = 2 * x.current
      BY <3>2, <2>2, <2>3
    <3> QED  BY <3>1, <3>2
  <2> QED  BY <2>1, <2>4, NextDifficulty
<1> QED  BY <1>1, <1>2 DEF Vardiff

(* Nor does a quick change. *)
LEMMA QuickServed ==
  ASSUME Parameters, NEW x, Served(x), NEW y \in QuickChange(x)
  PROVE  Served(y) /\ SameTables(x, y)
<1>1. PICK d \in Diff : d >= 4 * x.current /\ y = [x EXCEPT !.current = d]
  BY DEF QuickChange
<1>2. x.current \in Nat /\ x.forcedHigh \in Nat /\ VardiffMin \in Nat /\ d \in Nat
  BY Constants DEF Served, Miner, Diff
<1>3. x.current >= VardiffMin /\ x.current >= x.forcedHigh
  BY DEF Served
<1>4. d >= VardiffMin /\ d >= x.forcedHigh
  BY <1>1, <1>2, <1>3
<1> QED  BY <1>1, <1>4, NextDifficulty

(* For a job of the pool, the minimum of the pool is met. *)
LEMMA RaisedServed ==
  ASSUME Parameters, NEW x, Served(x), NEW k, poolMin \in PoolMins
  PROVE  /\ Served(Raised(x, k)) /\ SameTables(x, Raised(x, k))
         /\ k.datum => Raised(x, k).current >= poolMin
<1>1. CASE ~ k.datum
  BY <1>1 DEF Raised, SameTables
<1>2. CASE k.datum
  <2> DEFINE d == Larger(x.current, poolMin)
  <2>1. x.current \in 0..MaxDiff /\ x.forcedHigh \in Nat /\ VardiffMin \in Nat
    BY Constants DEF Served, Miner, Diff
  <2>2. poolMin \in Nat /\ poolMin <= MaxDiff /\ MaxDiff \in Nat
    BY Constants
  <2>3. x.current >= VardiffMin /\ x.current >= x.forcedHigh
    BY DEF Served
  <2>4. d \in Diff /\ d >= VardiffMin /\ d >= x.forcedHigh /\ d >= poolMin
    BY <2>1, <2>2, <2>3 DEF Larger, Diff
  <2> HIDE DEF d
  <2>5. Raised(x, k) = [x EXCEPT !.current = d]
    BY <1>2 DEF Raised, d
  <2> QED  BY <2>4, <2>5, NextDifficulty
<1> QED  BY <1>1, <1>2

(* The difficulty is announced when it has changed. *)
Told(y) == IF y.lastSent # y.current THEN SetDifficulty(y) ELSE y

(* A client that is told its difficulty is served as before. *)
LEMMA ToldServed ==
  ASSUME Parameters, NEW x, Served(x)
  PROVE  /\ Served(Told(x)) /\ SameTables(x, Told(x))
         /\ Told(x).lastSent = x.current
<1> DEFINE y == [x EXCEPT !.current = x.current, !.lastSent = x.current]
<1>1. CASE x.lastSent = x.current
  BY <1>1 DEF Told, SameTables
<1>2. CASE x.lastSent # x.current
  <2>1. x \in Miner /\ x.current \in Diff
    BY DEF Served, Miner
  <2>2. x.current # 0
    BY Constants, <2>1 DEF Served, Diff
  <2>3. Told(x) = y
    BY <1>2, <2>2 DEF Told, SetDifficulty
  <2>4. y \in Miner /\ SameTables(x, y)
    BY <2>1 DEF Miner, SameTables
  <2>5. /\ y.current = x.current /\ y.lastSent = x.current
        /\ y.forcedHigh = x.forcedHigh /\ y.subscribed = x.subscribed
    BY <2>1 DEF Miner
  <2> HIDE DEF y
  <2> QED  BY <2>3, <2>4, <2>5 DEF Served
<1> QED  BY <1>1, <1>2

(* The work is entered where its shares will be looked up. *)
LEMMA EnteredServed ==
  ASSUME Parameters, NEW x, Served(x), NEW j \in Nat, NEW quick \in BOOLEAN
  PROVE  LET y == Entered(x, j, quick)
         IN /\ Served(y) /\ y.lastSent = x.lastSent
            /\ quick => y.quickValue = x.lastSent /\ y.diffs = x.diffs
            /\ ~ quick => /\ y.quickValue = x.quickValue
                          /\ y.diffs = [x.diffs EXCEPT ![PlaceOf(j)] = x.lastSent]
<1> DEFINE y == Entered(x, j, quick)
           q == [x EXCEPT !.quickActive = TRUE, !.quickValue = x.lastSent]
           t == [x.diffs EXCEPT ![PlaceOf(j)] = x.lastSent]
           n == [x EXCEPT !.quickActive = FALSE, !.diffs[PlaceOf(j)] = x.lastSent]
<1>1. x \in Miner /\ x.lastSent \in Diff
      /\ x.diffs \in [Place -> Diff]
  BY DEF Served, Miner
<1>2. CASE quick
  <2>1. y = q
    BY <1>2 DEF Entered
  <2>2. /\ q \in Miner
        /\ q.current = x.current /\ q.lastSent = x.lastSent
        /\ q.forcedHigh = x.forcedHigh /\ q.subscribed = x.subscribed
        /\ q.quickValue = x.lastSent /\ q.diffs = x.diffs
    BY <1>1 DEF Miner
  <2> HIDE DEF q, y
  <2>3. Served(q)
    BY <2>2 DEF Served
  <2> QED  BY <1>2, <2>1, <2>2, <2>3 DEF y
<1>3. CASE ~ quick
  <2>1. y = n
    BY <1>3 DEF Entered
  <2>2. n = [x EXCEPT !.quickActive = FALSE, !.diffs = t]
    BY <1>1 DEF Miner
  <2>3. t \in [Place -> Diff]
    BY <1>1, PlaceType
  <2> HIDE DEF t, n
  <2>4. /\ n \in Miner
        /\ n.current = x.current /\ n.lastSent = x.lastSent
        /\ n.forcedHigh = x.forcedHigh /\ n.subscribed = x.subscribed
        /\ n.quickValue = x.quickValue /\ n.diffs = t
    BY <1>1, <2>2, <2>3 DEF Miner
  <2> HIDE DEF y
  <2>5. Served(n)
    BY <2>4 DEF Served
  <2> QED  BY <1>3, <2>1, <2>4, <2>5 DEF y, t
<1> QED  BY <1>2, <1>3

-----------------------------------------------------------------------------
(* Work *)

WorldTypes ==
  /\ jobs \in Seq(Job) /\ Len(jobs) <= MaxJobs
  /\ stale \in 0..Len(jobs) /\ cur \in 0..Len(jobs)
  /\ poolMin \in PoolMins

MinerInv == m \in Miner /\ (m.subscribed => Served(m))

(* Work is sent to clients that have subscribed, for the job of the thread or
   an earlier one, at no less than the minima of that time.                 *)
WorkInv ==
  /\ works \subseteq Work
  /\ works # {} => m.subscribed
  /\ \A w \in works : w.job <= cur /\ w.diff >= VardiffMin /\ w.diff >= w.min

(* The gateway remembers the difficulty of the work that is in force. *)
TablesInv ==
  \A w \in works : InForce(w) /\ ~ Gone(w) => JobDiff(w) = w.diff

(* send_mining_notify, for the client. *)
LEMMA NotifyServed ==
  ASSUME Parameters, WorldTypes, cur # 0,
         NEW x, Served(x), NEW quick \in BOOLEAN, NEW z \in AfterNotify(x, quick)
  PROVE  /\ Served(z)
         /\ jobs[cur].datum => z.lastSent >= poolMin
         /\ quick => z.quickValue = z.lastSent /\ z.diffs = x.diffs
         /\ ~ quick => /\ z.quickValue = x.quickValue
                       /\ z.diffs = [x.diffs EXCEPT ![PlaceOf(cur)] = z.lastSent]
<1>1. PICK y : /\ y \in IF quick THEN {x} ELSE Vardiff(x)
               /\ z = Entered(Told(Raised(y, jobs[cur])), cur, quick)
  BY DEF AfterNotify, Told
<1>2. Served(y) /\ SameTables(x, y)
  BY <1>1, VardiffServed DEF SameTables
<1> DEFINE r == Raised(y, jobs[cur])
<1>3. poolMin \in PoolMins /\ cur \in Nat
  BY DEF WorldTypes
<1>4. /\ Served(r) /\ SameTables(y, r)
      /\ jobs[cur].datum => r.current >= poolMin
  BY <1>2, <1>3, RaisedServed
<1> HIDE DEF r
<1> DEFINE t == Told(r)
<1>5. Served(t) /\ SameTables(r, t) /\ t.lastSent = r.current
  BY <1>4, ToldServed
<1> HIDE DEF t
<1>6. z = Entered(t, cur, quick)
  BY <1>1 DEF t, r
<1>7. /\ Served(z) /\ z.lastSent = t.lastSent
      /\ quick => z.quickValue = t.lastSent /\ z.diffs = t.diffs
      /\ ~ quick => /\ z.quickValue = t.quickValue
                    /\ z.diffs = [t.diffs EXCEPT ![PlaceOf(cur)] = t.lastSent]
  BY <1>3, <1>5, <1>6, EnteredServed
<1>8. t.diffs = x.diffs /\ t.quickValue = x.quickValue
  BY <1>2, <1>4, <1>5 DEF SameTables
<1> QED  BY <1>4, <1>5, <1>7, <1>8

(* The work it gets. *)
LEMMA WorkSent ==
  ASSUME Parameters, WorldTypes, cur # 0, NEW x, Served(x), NEW quick \in BOOLEAN,
         NEW newBlock \in BOOLEAN, jobs[cur].datum => x.lastSent >= poolMin
  PROVE  LET w == WorkOf(x, quick, newBlock)
         IN /\ w \in Work /\ w.job = cur /\ w.diff = x.lastSent
            /\ (w.id = "Q") = quick
            /\ w.diff >= VardiffMin /\ w.diff >= w.min
<1> DEFINE i == IF quick THEN "Q" ELSE IF newBlock /\ ~ jobs[cur].blake2b THEN "N"
                ELSE "plain"
           u == IF Lotto /\ jobs[cur].blake2b THEN x.user ELSE NoUser
           p == IF jobs[cur].datum THEN poolMin ELSE 0
           c == MadeFrom(jobs[cur], i, u) \in jobs[cur].changed
           w == WorkOf(x, quick, newBlock)
<1>1. w = [job |-> cur, id |-> i, diff |-> x.lastSent, user |-> u, min |-> p,
           changed |-> c]
  BY DEF WorkOf
<1>2. cur \in 1..MaxJobs
  <2>1. Len(jobs) \in Nat /\ MaxJobs \in Nat /\ Len(jobs) <= MaxJobs
    BY DEF Parameters, WorldTypes
  <2>2. cur \in 0..Len(jobs)
    BY DEF WorldTypes
  <2> QED  BY <2>1, <2>2
<1>3. i \in {"plain", "Q", "N"} /\ (i = "Q") = quick
  OBVIOUS
<1>4. x.lastSent \in Diff /\ x.user \in Users \cup {NoUser}
      /\ x.lastSent >= VardiffMin
  BY DEF Served, Miner
<1>5. u \in Users \cup {NoUser}
  BY <1>4
<1>6. p \in Diff
  <2>1. poolMin \in Nat /\ poolMin <= MaxDiff /\ MaxDiff \in Nat
    BY Constants DEF WorldTypes
  <2> QED  BY <2>1 DEF Diff
<1>7. x.lastSent >= p
  BY <1>4 DEF Diff
<1>0. c \in BOOLEAN
  OBVIOUS
<1> HIDE DEF i, u, p, c, w
<1>8. w \in Work
  BY <1>0, <1>1, <1>2, <1>3, <1>4, <1>5, <1>6 DEF Work
<1>9. w.job = cur /\ w.id = i /\ w.diff = x.lastSent /\ w.min = p
  BY <1>1
<1> QED  BY <1>3, <1>4, <1>7, <1>8, <1>9 DEF w

(* Work that is in force after more was sent was in force before. *)
LEMMA InForceBefore ==
  ASSUME works \subseteq works', NEW w, InForce(w)'
  PROVE  InForce(w)
  BY DEF InForce

(* send_mining_notify as a step. *)
LEMMA NotifyStep ==
  ASSUME Parameters, WorldTypes, WorkInv, TablesInv, m \in Miner, cur # 0,
         NEW x, Served(x), SameTables(m, x),
         NEW quick \in BOOLEAN, NEW newBlock \in BOOLEAN,
         Notify(x, quick, newBlock), UNCHANGED <<jobs, cur, poolMin>>
  PROVE  MinerInv' /\ WorkInv' /\ TablesInv'
<1> DEFINE n == WorkOf(m', quick, newBlock)
<1>1. m' \in AfterNotify(x, quick) /\ works' = works \cup {n}
  BY DEF Notify
<1>2. /\ Served(m')
      /\ jobs[cur].datum => m'.lastSent >= poolMin
      /\ quick => m'.quickValue = m'.lastSent /\ m'.diffs = x.diffs
      /\ ~ quick => /\ m'.quickValue = x.quickValue
                    /\ m'.diffs = [x.diffs EXCEPT ![PlaceOf(cur)] = m'.lastSent]
  BY <1>1, NotifyServed
<1>3. /\ n \in Work /\ n.job = cur /\ n.diff = m'.lastSent
      /\ (n.id = "Q") = quick
      /\ n.diff >= VardiffMin /\ n.diff >= n.min
  BY <1>2, WorkSent
<1> HIDE DEF n
<1>4. MinerInv'
  <2>1. m' \in Miner
    BY <1>2 DEF Served
  <2> QED  BY <1>2, <2>1 DEF MinerInv, Served
<1>5. WorkInv'
  <2>1. m'.subscribed
    BY <1>2 DEF Served
  <2>2. \A w \in works' :
          w \in Work /\ w.job <= cur /\ w.diff >= VardiffMin /\ w.diff >= w.min
    <3>1. \A w \in works :
            w \in Work /\ w.job <= cur /\ w.diff >= VardiffMin /\ w.diff >= w.min
      BY DEF WorkInv
    <3>2. n.job <= cur
      BY <1>3 DEF WorldTypes
    <3> QED  BY <1>1, <1>3, <3>1, <3>2
  <2> QED  BY <2>1, <2>2 DEF WorkInv
<1>6. m.diffs = x.diffs /\ m.quickValue = x.quickValue
      /\ m.diffs \in [Place -> Diff]
  BY DEF SameTables, Miner
<1>7. cur \in Nat /\ PlaceOf(cur) \in Place
  BY PlaceType DEF WorldTypes
<1>8. ASSUME NEW w \in works', InForce(w)', ~ Gone(w)'
      PROVE  JobDiff(w)' = w.diff
  <2>1. ~ Gone(w)
    BY <1>8 DEF Gone
  <2>2. JobDiff(w)' = IF w.id = "Q" THEN m'.quickValue
                             ELSE m'.diffs[PlaceOf(w.job)]
    BY DEF JobDiff
  <2>3. CASE w = n
    <3>1. CASE quick
      BY <1>2, <1>3, <2>2, <2>3, <3>1
    <3>2. CASE ~ quick
      BY <1>2, <1>3, <1>6, <1>7, <2>2, <2>3, <3>2
    <3> QED  BY <3>1, <3>2
  <2>4. CASE w \in works
    <3>1. InForce(w)
      BY <1>1, <1>8, InForceBefore
    <3>2. JobDiff(w) = w.diff
      BY <2>1, <2>4, <3>1 DEF TablesInv
    <3>3. n.diff # w.diff =>
            IF w.id = "Q" THEN n.id # "Q" ELSE n.id = "Q" \/ n.job # w.job
      BY <1>1, <1>8 DEF InForce
    <3>4. w.job \in Nat /\ w.job <= cur /\ PlaceOf(w.job) \in Place
      <4>1. w \in Work /\ w.job <= cur
        BY <2>4 DEF WorkInv
      <4>2. w.job \in 1..MaxJobs
        BY <4>1 DEF Work
      <4> QED  BY <4>1, <4>2, PlaceType
    <3>5. CASE w.id = "Q"
      <4>1. JobDiff(w) = m.quickValue /\ JobDiff(w)' = m'.quickValue
        BY <3>5, <2>2 DEF JobDiff
      <4>2. CASE quick
        BY <1>2, <1>3, <3>3, <3>5, <4>1, <4>2
      <4>3. CASE ~ quick
        BY <1>2, <1>6, <3>2, <4>1, <4>3
      <4> QED  BY <4>2, <4>3
    <3>6. CASE w.id # "Q"
      <4>1. /\ JobDiff(w) = m.diffs[PlaceOf(w.job)]
            /\ JobDiff(w)' = m'.diffs[PlaceOf(w.job)]
        BY <3>6, <2>2 DEF JobDiff
      <4>2. CASE quick
        BY <1>2, <1>6, <3>2, <4>1, <4>2
      <4>3. CASE ~ quick /\ w.job = cur
        <5>1. n.diff = w.diff
          BY <1>3, <3>3, <3>6, <4>3
        <5> QED  BY <1>2, <1>3, <1>6, <1>7, <4>1, <4>3, <5>1
      <4>4. CASE ~ quick /\ w.job # cur
        <5>1. w.job < cur
          BY <1>7, <3>4, <4>4
        <5>2. PlaceOf(w.job) # PlaceOf(cur)
          <6>1. SUFFICES ASSUME PlaceOf(w.job) = PlaceOf(cur) PROVE FALSE
            OBVIOUS
          <6>2. w.job + NumPlaces <= cur
            BY <1>7, <3>4, <5>1, <6>1, PlacesApart
          <6>3. cur <= Len(jobs) /\ Len(jobs) \in Nat /\ NumPlaces \in Nat
            BY Constants DEF WorldTypes
          <6>4. w.job + NumPlaces <= Len(jobs)
            BY <1>7, <3>4, <6>2, <6>3
          <6> QED  BY <2>1, <6>4 DEF Gone
        <5> QED  BY <1>2, <1>6, <3>2, <3>4, <4>1, <4>4, <5>2
      <4> QED  BY <4>2, <4>3, <4>4
    <3> QED  BY <3>5, <3>6
  <2> QED  BY <1>1, <2>3, <2>4
<1>9. TablesInv'
  BY <1>8 DEF TablesInv
<1> QED  BY <1>4, <1>5, <1>9

-----------------------------------------------------------------------------
(* The inductive invariant *)

SubmissionInv == WorldTypes /\ MinerInv /\ WorkInv /\ TablesInv

(* A step that sends no work keeps the difficulties if it keeps the tables and
   jobs do not come back to their places.                                   *)
LEMMA NoWorkStep ==
  ASSUME Parameters, WorkInv, TablesInv, works' = works, SameTables(m, m'),
         Len(jobs) \in Nat, Len(jobs') \in Nat, Len(jobs) <= Len(jobs')
  PROVE  TablesInv'
<1> SUFFICES ASSUME NEW w \in works, InForce(w)', ~ Gone(w)'
             PROVE  JobDiff(w)' = w.diff
  BY DEF TablesInv
<1>1. InForce(w)
  BY DEF InForce
<1>2. ~ Gone(w)
  <2>1. w.job \in 1..MaxJobs
    BY DEF WorkInv, Work
  <2>2. w.job + NumPlaces \in Nat
    BY <2>1, Constants
  <2>3. ~ (w.job + NumPlaces <= Len(jobs'))
    BY DEF Gone
  <2>4. ~ (w.job + NumPlaces <= Len(jobs))
    BY <2>2, <2>3
  <2> QED  BY <2>4 DEF Gone
<1>3. JobDiff(w)' = JobDiff(w)
  BY DEF JobDiff, SameTables
<1> QED  BY <1>1, <1>2, <1>3 DEF TablesInv

(* Jobs come and change; the miner and its work stay. *)
LEMMA JobsStep ==
  ASSUME Parameters, SubmissionInv, m' = m, works' = works,
         Len(jobs) <= Len(jobs'), WorldTypes', cur <= cur'
  PROVE  SubmissionInv'
<1>1. MinerInv'
  BY DEF SubmissionInv, MinerInv, Served
<1>2. WorkInv'
  <2>1. \A w \in works : w \in Work /\ w.job <= cur
    BY DEF SubmissionInv, WorkInv
  <2>2. cur \in Nat /\ cur' \in Nat
    BY DEF SubmissionInv, WorldTypes
  <2>3. \A w \in works : w.job <= cur'
    <3> SUFFICES ASSUME NEW w \in works PROVE w.job <= cur'
      OBVIOUS
    <3>1. w.job \in Nat
      BY <2>1 DEF Work
    <3> QED  BY <2>1, <2>2, <3>1
  <2> QED  BY <2>3 DEF SubmissionInv, WorkInv
<1>3. TablesInv'
  <2>1. Len(jobs) \in Nat /\ Len(jobs') \in Nat
    BY DEF SubmissionInv, WorldTypes
  <2> QED  BY <2>1, NoWorkStep DEF SubmissionInv, SameTables
<1> QED  BY <1>1, <1>2, <1>3 DEF SubmissionInv

(* The miner changes, without new work. *)
LEMMA MinerStep ==
  ASSUME Parameters, SubmissionInv, MinerInv', works' = works, SameTables(m, m'),
         m.subscribed => m'.subscribed, UNCHANGED <<jobs, stale, cur, poolMin>>
  PROVE  SubmissionInv'
<1>1. WorldTypes'
  BY DEF SubmissionInv, WorldTypes
<1>2. WorkInv'
  BY DEF SubmissionInv, WorkInv
<1>3. Len(jobs) \in Nat /\ Len(jobs') = Len(jobs)
  BY DEF SubmissionInv, WorldTypes
<1>4. TablesInv'
  BY <1>3, NoWorkStep DEF SubmissionInv
<1> QED  BY <1>1, <1>2, <1>4 DEF SubmissionInv

(* The client is sent work. *)
LEMMA SendStep ==
  ASSUME Parameters, SubmissionInv, cur # 0, NEW x, Served(x), SameTables(m, x),
         NEW quick \in BOOLEAN, NEW newBlock \in BOOLEAN,
         Notify(x, quick, newBlock), UNCHANGED <<jobs, stale, cur, poolMin>>
  PROVE  SubmissionInv'
<1>1. WorldTypes'
  BY DEF SubmissionInv, WorldTypes
<1>2. MinerInv' /\ WorkInv' /\ TablesInv'
  BY NotifyStep DEF SubmissionInv, MinerInv
<1> QED  BY <1>1, <1>2 DEF SubmissionInv

(* A client that subscribes. *)
LEMMA SubscribeServed ==
  ASSUME Parameters, m \in Miner, NEW high \in BOOLEAN
  PROVE  LET x == [m EXCEPT !.subscribed = TRUE,
                     !.forcedHigh = IF high THEN HighMin ELSE 0,
                     !.current = IF high THEN Larger(HighMin, VardiffMin)
                                 ELSE VardiffMin]
         IN Served(SetDifficulty(x)) /\ SameTables(m, SetDifficulty(x))
<1> DEFINE h == IF high THEN HighMin ELSE 0
           d == IF high THEN Larger(HighMin, VardiffMin) ELSE VardiffMin
           x == [m EXCEPT !.subscribed = TRUE, !.forcedHigh = h, !.current = d]
           y == [x EXCEPT !.current = d, !.lastSent = d]
<1>1. h \in Diff /\ d \in Diff /\ d >= VardiffMin /\ d >= h /\ d # 0
  BY Constants DEF Diff, Larger
<1> HIDE DEF h, d
<1>2. /\ x \in Miner /\ x.subscribed /\ x.forcedHigh = h /\ x.current = d
      /\ x.diffs = m.diffs /\ x.quickValue = m.quickValue
  BY <1>1 DEF Miner
<1> HIDE DEF x
<1>3. SetDifficulty(x) = y
  BY <1>1, <1>2 DEF SetDifficulty
<1>4. /\ y \in Miner /\ y.subscribed /\ y.forcedHigh = h
      /\ y.current = d /\ y.lastSent = d
      /\ y.diffs = x.diffs /\ y.quickValue = x.quickValue
  BY <1>1, <1>2 DEF Miner
<1> HIDE DEF y
<1>5. Served(y)
  BY <1>1, <1>4 DEF Served
<1>6. SameTables(m, y)
  BY <1>2, <1>4 DEF SameTables
<1> QED  BY <1>3, <1>5, <1>6 DEF x, h, d

(* Every request and every step of the thread keeps the invariant. *)
LEMMA SubmissionStep ==
  ASSUME Parameters, SubmissionInv, [ClientNext]_clientVars
  PROVE  SubmissionInv'
<1> USE DEF SubmissionInv
<1>1. ASSUME NEW k \in Kinds, NEW b \in BOOLEAN, NewJob(k, b)
      PROVE  SubmissionInv'
  <2> DEFINE new == [blake2b |-> k.blake2b, datum |-> k.datum,
                     remade |-> FALSE, changed |-> {}]
  <2>0. new \in Job
    BY DEF Parameters, Job
  <2>1. jobs \in Seq(Job) /\ Len(jobs) < MaxJobs /\ jobs' = Append(jobs, new)
    BY <1>1 DEF NewJob, WorldTypes
  <2> HIDE DEF new
  <2>2. jobs' \in Seq(Job) /\ Len(jobs') = Len(jobs) + 1 /\ Len(jobs) \in Nat
    BY <2>0, <2>1
  <2>3. Len(jobs') <= MaxJobs /\ Len(jobs) <= Len(jobs')
    BY <2>1, <2>2 DEF Parameters
  <2>4. stale \in 0..Len(jobs) /\ cur \in 0..Len(jobs)
    BY DEF WorldTypes
  <2>5. stale' \in 0..Len(jobs') /\ cur' = cur /\ poolMin' = poolMin
    BY <1>1, <2>2, <2>4 DEF NewJob
  <2>6. cur \in 0..Len(jobs') /\ cur <= cur'
    BY <2>2, <2>4, <2>5
  <2>7. WorldTypes'
    BY <2>2, <2>3, <2>5, <2>6 DEF WorldTypes
  <2>8. m' = m /\ works' = works
    BY <1>1 DEF NewJob
  <2> HIDE DEF SubmissionInv
  <2> QED  BY <2>3, <2>6, <2>7, <2>8, JobsStep
<1>2. ASSUME NEW j \in 1..Len(jobs), NEW b \in BOOLEAN, NEW changed \in Changes,
             Coinbased(j, b, changed)
      PROVE  SubmissionInv'
  <2> DEFINE k == [blake2b |-> jobs[j].blake2b, datum |-> b,
                   remade |-> TRUE, changed |-> changed]
  <2>1. jobs \in Seq(Job) /\ jobs[j] \in Job /\ jobs' = [jobs EXCEPT ![j] = k]
    BY <1>2 DEF Coinbased, WorldTypes
  <2>2. k \in Job
    <3>1. changed \subseteq Coinbase
      BY <1>2 DEF Coinbased, MayChange, Coinbase
    <3>2. jobs[j].blake2b \in BOOLEAN
      BY <2>1 DEF Job
    <3> QED  BY <3>1, <3>2 DEF Job
  <2> HIDE DEF k
  <2>3. jobs' \in Seq(Job) /\ Len(jobs') = Len(jobs) /\ Len(jobs) \in Nat
    BY <2>1, <2>2
  <2>4. m' = m /\ works' = works /\ cur' = cur /\ stale' = stale /\ poolMin' = poolMin
    BY <1>2 DEF Coinbased
  <2>5. WorldTypes' /\ cur <= cur'
    BY <2>3, <2>4 DEF WorldTypes
  <2> HIDE DEF SubmissionInv
  <2> QED  BY <2>3, <2>4, <2>5, JobsStep
<1>3. ASSUME NEW b \in BOOLEAN, SendJob(b)
      PROVE  SubmissionInv'
  <2>1. Served(m) /\ SameTables(m, m) /\ cur # 0 /\ Notify(m, FALSE, b)
    BY <1>3 DEF SendJob, MinerInv, SameTables
  <2>2. UNCHANGED <<jobs, stale, cur, poolMin>>
    BY <1>3 DEF SendJob
  <2> HIDE DEF SubmissionInv
  <2> QED  BY <2>1, <2>2, SendStep
<1>4. ASSUME NEW high \in BOOLEAN, Subscribe(high)
      PROVE  SubmissionInv'
  <2> DEFINE x == [m EXCEPT !.subscribed = TRUE,
                     !.forcedHigh = IF high THEN HighMin ELSE 0,
                     !.current = IF high THEN Larger(HighMin, VardiffMin)
                                 ELSE VardiffMin]
             y == SetDifficulty(x)
  <2>1. Served(y) /\ SameTables(m, y)
    BY SubscribeServed DEF MinerInv
  <2>2. UNCHANGED <<jobs, stale, cur, poolMin>>
    BY <1>4 DEF Subscribe
  <2>3. IF cur = 0 THEN m' = y /\ UNCHANGED works ELSE Notify(y, FALSE, FALSE)
    BY <1>4 DEF Subscribe
  <2> HIDE DEF SubmissionInv, y
  <2>4. CASE cur = 0
    <3>1. m' = y /\ works' = works
      BY <2>3, <2>4
    <3>2. MinerInv' /\ m'.subscribed
      BY <2>1, <3>1 DEF MinerInv, Served
    <3> QED  BY <2>1, <2>2, <3>1, <3>2, MinerStep
  <2>5. CASE cur # 0
    BY <2>1, <2>2, <2>3, <2>5, SendStep
  <2> QED  BY <2>4, <2>5
<1>5. ASSUME SwitchJob
      PROVE  SubmissionInv'
  <2>1. /\ cur' = Len(jobs) /\ jobs' = jobs /\ stale' = stale /\ poolMin' = poolMin
        /\ m' = m /\ works' = works
    BY <1>5 DEF SwitchJob
  <2>2. Len(jobs) \in Nat /\ cur <= Len(jobs)
    BY DEF WorldTypes
  <2>3. WorldTypes' /\ cur <= cur' /\ Len(jobs) <= Len(jobs')
    BY <2>1, <2>2 DEF WorldTypes
  <2> HIDE DEF SubmissionInv
  <2> QED  BY <2>1, <2>3, JobsStep
<1>6. ASSUME PoolConfigures
      PROVE  SubmissionInv'
  <2>1. /\ cur' = cur /\ jobs' = jobs /\ stale' = stale /\ poolMin' \in PoolMins
        /\ m' = m /\ works' = works
    BY <1>6 DEF PoolConfigures
  <2>2. WorldTypes' /\ cur <= cur' /\ Len(jobs) <= Len(jobs')
    BY <2>1 DEF WorldTypes
  <2> HIDE DEF SubmissionInv
  <2> QED  BY <2>1, <2>2, JobsStep
<1>7. ASSUME NEW u \in Users \cup {NoUser}, Authorize(u)
      PROVE  SubmissionInv'
  <2> DEFINE v == IF Lotto THEN u ELSE NoUser
  <2>1. m \in Miner /\ v \in Users \cup {NoUser}
        /\ m' = [m EXCEPT !.user = v]
    BY <1>7 DEF Authorize, MinerInv
  <2> HIDE DEF v
  <2>2. /\ m' \in Miner /\ SameTables(m, m') /\ m'.subscribed = m.subscribed
        /\ m'.current = m.current /\ m'.lastSent = m.lastSent
        /\ m'.forcedHigh = m.forcedHigh
    BY <2>1 DEF Miner, SameTables
  <2>3. MinerInv'
    BY <2>2 DEF MinerInv, Served
  <2>4. works' = works /\ UNCHANGED <<jobs, stale, cur, poolMin>>
    BY <1>7 DEF Authorize
  <2> HIDE DEF SubmissionInv
  <2> QED  BY <2>2, <2>3, <2>4, MinerStep
<1>8. ASSUME Configure
      PROVE  SubmissionInv'
  <2>1. m \in Miner /\ m' = [m EXCEPT !.rolling = TRUE]
    BY <1>8 DEF Configure, MinerInv
  <2>2. /\ m' \in Miner /\ SameTables(m, m') /\ m'.subscribed = m.subscribed
        /\ m'.current = m.current /\ m'.lastSent = m.lastSent
        /\ m'.forcedHigh = m.forcedHigh
    BY <2>1 DEF Miner, SameTables
  <2>3. MinerInv'
    BY <2>2 DEF MinerInv, Served
  <2>4. works' = works /\ UNCHANGED <<jobs, stale, cur, poolMin>>
    BY <1>8 DEF Configure
  <2> HIDE DEF SubmissionInv
  <2> QED  BY <2>2, <2>3, <2>4, MinerStep
<1>9. ASSUME NEW s \in Findable, Submit(s)
      PROVE  SubmissionInv'
  <2>1. s.work \in works
    BY DEF Findable, Submissions
  <2>2. m.subscribed /\ s.work.job \in 1..MaxJobs /\ s.work.job <= cur
    BY <2>1 DEF WorkInv, Work
  <2>3. Served(m) /\ cur # 0
    BY <2>2 DEF MinerInv, WorldTypes
  <2>4. UNCHANGED <<jobs, stale, cur, poolMin>>
    BY <1>9 DEF Submit
  <2>5. \/ m' \in Vardiff(m) /\ UNCHANGED works
        \/ \E x \in QuickChange(m) : Notify(x, TRUE, FALSE)
    BY <1>9 DEF Submit
  <2> HIDE DEF SubmissionInv
  <2>6. CASE m' \in Vardiff(m) /\ UNCHANGED works
    <3>1. Served(m') /\ SameTables(m, m')
      BY <2>3, <2>6, VardiffServed
    <3>2. MinerInv' /\ m'.subscribed
      BY <3>1 DEF MinerInv, Served
    <3> QED  BY <2>4, <2>6, <3>1, <3>2, MinerStep
  <2>7. CASE \E x \in QuickChange(m) : Notify(x, TRUE, FALSE)
    <3>1. PICK x \in QuickChange(m) : Notify(x, TRUE, FALSE)
      BY <2>7
    <3>2. Served(x) /\ SameTables(m, x)
      BY <2>3, QuickServed
    <3> QED  BY <2>3, <2>4, <3>1, <3>2, SendStep
  <2> QED  BY <2>5, <2>6, <2>7
<1>10. ASSUME UNCHANGED clientVars
       PROVE  SubmissionInv'
  <2>1. /\ cur' = cur /\ jobs' = jobs /\ stale' = stale /\ poolMin' = poolMin
        /\ m' = m /\ works' = works
    BY <1>10 DEF clientVars
  <2>2. WorldTypes' /\ cur <= cur' /\ Len(jobs) <= Len(jobs')
    BY <2>1 DEF WorldTypes
  <2> HIDE DEF SubmissionInv
  <2> QED  BY <2>1, <2>2, JobsStep
<1> HIDE DEF SubmissionInv
<1> QED  BY <1>1, <1>2, <1>3, <1>4, <1>5, <1>6, <1>7, <1>8, <1>9, <1>10
         DEF ClientNext, Reject

(* A client that has just connected. *)
LEMMA SubmissionInit ==
  ASSUME Parameters, ClientInit
  PROVE  SubmissionInv
<1>1. m \in Miner /\ ~ m.subscribed
  <2>1. 0 \in Diff
    BY Constants DEF Diff
  <2>2. [p \in Place |-> 0] \in [Place -> Diff]
    BY <2>1
  <2> QED  BY <2>1, <2>2 DEF ClientInit, NewMiner, Miner
<1>2. WorldTypes
  BY DEF Parameters, ClientInit, WorldTypes
<1>3. works = {}
  BY DEF ClientInit
<1> QED  BY <1>1, <1>2, <1>3 DEF SubmissionInv, MinerInv, WorkInv, TablesInv

(* It holds throughout. *)
LEMMA SubmissionAlways ==
  ASSUME Parameters
  PROVE  ClientSpec => []SubmissionInv
<1>1. ClientInit => SubmissionInv
  BY SubmissionInit
<1>2. SubmissionInv /\ [ClientNext]_clientVars => SubmissionInv'
  BY SubmissionStep
<1> QED  BY <1>1, <1>2, PTL DEF ClientSpec

-----------------------------------------------------------------------------
(* The properties *)

(* Difficulties have their types, and the client is never told one below the
   minimum of the configuration or that of the fingerprinted miner: neither a
   step down of stratum_update_vardiff nor a quick change undercuts them.    *)
THEOREM TypesAlways ==
  ClientSpec => []ClientTypeOK
<1> USE SubmissionAssumption
<1>1. SubmissionInv => ClientTypeOK
  BY DEF SubmissionInv, WorldTypes, MinerInv, Served, WorkInv, ClientTypeOK
<1> QED  BY <1>1, SubmissionAlways, PTL

(* What a share of the miner is made of. *)
LEMMA ShareParts ==
  ASSUME Parameters, SubmissionInv, NEW s \in Findable
  PROVE  /\ s.work \in works /\ s.work \in Work
         /\ s.proves \in Diff /\ s.block \in BOOLEAN
         /\ s.block => s.proves = MaxDiff
         /\ s.work.diff \in Diff /\ s.work.min \in Diff
         /\ s.work.diff >= VardiffMin /\ s.work.diff >= s.work.min
<1>1. \A w \in works : /\ w \in Work
                       /\ w.diff >= VardiffMin /\ w.diff >= w.min
  BY DEF SubmissionInv, WorkInv
<1>2. \A w \in works : w.diff \in Diff /\ w.min \in Diff
  BY <1>1 DEF Work
<1>3. VardiffMin \in Diff /\ MaxDiff \in Diff
  BY Constants DEF Diff
<1>4. /\ s.work \in works /\ s.block \in BOOLEAN
      /\ s.proves \in {VardiffMin, MaxDiff} \cup {w.diff : w \in works}
      /\ s.block => s.proves = MaxDiff
  BY DEF Findable, Submissions
<1>5. s.proves \in Diff
  BY <1>2, <1>3, <1>4
<1> QED  BY <1>1, <1>2, <1>4, <1>5

(* The header is built again as the miner hashed it: the difficulty in it is
   that of the work, the coinbase is the same.                              *)
LEMMA HeaderAgain ==
  ASSUME SubmissionInv, NEW w \in works, Standing(w), ~ Gone(w)
  PROVE  SameHeader(w) /\ JobDiff(w) = w.diff
<1>1. JobDiff(w) = w.diff
  BY DEF SubmissionInv, TablesInv, Standing
<1> QED  BY <1>1 DEF SameHeader, SameUser, Standing

(* What is known of a share that is not malformed. *)
LEMMA WellFormed ==
  ASSUME NEW s, Malformed(s) = "no"
  PROVE  ~ Gone(s.work)
  BY DEF Malformed

(* The codes of the answers. *)
LEMMA Codes ==
  ASSUME NEW s
  PROVE  /\ Malformed(s) \in {"no", "unknown", "badVersion", "notZero"}
         /\ Malformed(s) = "notZero" => ~ Gone(s.work) /\ Proven(s) = 0
         /\ Judge(s) # "notZero"
         /\ Judge(s) = "highHash" => Proven(s) < JobDiff(s.work)
         /\ Judge(s) = "ok" => ~ (Proven(s) < JobDiff(s.work))
<1>1. /\ Malformed(s) \in {"no", "unknown", "badVersion", "notZero"}
      /\ Malformed(s) = "notZero" => ~ Gone(s.work) /\ Proven(s) = 0
  BY DEF Malformed
<1>2. Judge(s) # "notZero"
  BY DEF Judge
<1>3. Judge(s) = "highHash" => Proven(s) < JobDiff(s.work)
  BY DEF Judge
<1>4. Judge(s) = "ok" => ~ (Proven(s) < JobDiff(s.work))
  BY DEF Judge
<1> QED  BY <1>1, <1>2, <1>3, <1>4

(* The answer. *)
LEMMA Answer ==
  ASSUME NEW s
  PROVE  LET o == Outcome(s)
         IN /\ o.code = IF Malformed(s) # "no" THEN Malformed(s)
                        ELSE Judge(s)
            /\ o.tried = (Malformed(s) = "no" /\ IsBlock(s))
            /\ o.credit = IF o.code = "ok" THEN JobDiff(s.work) ELSE 0
            /\ o.pool = ((o.tried \/ o.code = "ok") /\ jobs[s.work.job].datum)
  BY DEF Outcome, Code, Tried

(* An accepted share is judged. *)
LEMMA Accepted ==
  ASSUME NEW s, Outcome(s).code = "ok"
  PROVE  Malformed(s) = "no" /\ Judge(s) = "ok"
  BY Answer, Codes

(* A share is measured by the difficulty that was announced with its work, and
   counted with it, whatever was announced since, for any number of jobs and
   places, unless its header cannot be built again: another address, or the
   coinbase made again and different (datum_stratum.c, client_mining_submit;
   datum_coinbaser.c, generate_coinbase_txns_for_stratum_job).               *)
THEOREM JudgedAsAnnouncedAlways ==
  ClientSpec => []JudgedAsAnnounced
<1> USE SubmissionAssumption
<1>1. ASSUME SubmissionInv PROVE JudgedAsAnnounced
  <2> SUFFICES ASSUME NEW s \in Findable, Standing(s.work)
               PROVE  /\ Outcome(s).code \in {"notZero", "highHash"}
                           => s.proves < s.work.diff
                      /\ Outcome(s).code = "ok"
                           => /\ s.proves >= s.work.diff
                              /\ Outcome(s).credit = s.work.diff
    BY DEF JudgedAsAnnounced
  <2>1. s.work \in works
    BY <1>1, ShareParts
  <2>2. s.proves \in Nat /\ s.work.diff \in Nat /\ s.work.diff # 0
    <3>1. s.proves \in Diff /\ s.work.diff \in Diff
          /\ s.work.diff >= VardiffMin
      BY <1>1, ShareParts
    <3> QED  BY <3>1, Constants DEF Diff
  <2>3. ~ Gone(s.work)
          => Proven(s) = s.proves /\ JobDiff(s.work) = s.work.diff
    BY <1>1, <2>1, HeaderAgain DEF Proven
  <2>4. ASSUME Outcome(s).code \in {"notZero", "highHash"}
        PROVE  s.proves < s.work.diff
    <3>1. CASE Malformed(s) # "no"
      <4>1. Malformed(s) = "notZero"
        BY <2>4, <3>1, Answer, Codes
      <4>2. ~ Gone(s.work) /\ Proven(s) = 0
        BY <4>1, Codes
      <4> QED  BY <2>2, <2>3, <4>2
    <3>2. CASE Malformed(s) = "no"
      <4>1. Judge(s) = "highHash"
        BY <2>4, <3>2, Answer, Codes
      <4>2. Proven(s) < JobDiff(s.work)
        BY <4>1, Codes
      <4> QED  BY <2>3, <3>2, <4>2, WellFormed
    <3> QED  BY <3>1, <3>2
  <2>5. ASSUME Outcome(s).code = "ok"
        PROVE  s.proves >= s.work.diff /\ Outcome(s).credit = s.work.diff
    <3>1. Malformed(s) = "no" /\ Judge(s) = "ok"
      BY <2>5, Accepted
    <3>2. ~ (Proven(s) < JobDiff(s.work))
      BY <3>1, Codes
    <3>3. Proven(s) = s.proves /\ JobDiff(s.work) = s.work.diff
      BY <2>3, <3>1, WellFormed
    <3>4. Outcome(s).credit = JobDiff(s.work)
      BY <2>5, Answer
    <3> QED  BY <2>2, <3>2, <3>3, <3>4
  <2> QED  BY <2>4, <2>5
<1> QED  BY <1>1, SubmissionAlways, PTL

(* A block on standing work is tried, however stale, late or repeated the share
   may be (datum_stratum.c, client_mining_submit).                          *)
THEOREM BlockTriedAlways ==
  ClientSpec => []BlockTried
<1> USE SubmissionAssumption
<1>1. ASSUME SubmissionInv PROVE BlockTried
  <2> SUFFICES ASSUME NEW s \in Findable, s.block, s.form \in {"good", "badTime"},
                      ~ Gone(s.work), Standing(s.work)
               PROVE  Outcome(s).tried
    BY DEF BlockTried
  <2>1. s.work \in works /\ s.proves = MaxDiff
    BY <1>1, ShareParts
  <2>2. SameHeader(s.work)
    BY <1>1, <2>1, HeaderAgain
  <2>3. Proven(s) # 0
    BY <2>1, <2>2, Constants DEF Proven
  <2>4. Malformed(s) = "no"
    BY <2>3 DEF Malformed
  <2>5. IsBlock(s)
    BY <2>2 DEF IsBlock
  <2> QED  BY <2>4, <2>5, Answer
<1> QED  BY <1>1, SubmissionAlways, PTL

(* What the pool is sent proves the minimum that the pool had set when the work
   went out, whoever is authorized by then (datum_stratum.c, send_mining_notify
   and client_mining_submit).                                               *)
THEOREM PoolMinimumKeptAlways ==
  ClientSpec => []PoolMinimumKept
<1> USE SubmissionAssumption
<1>1. ASSUME SubmissionInv PROVE PoolMinimumKept
  <2> SUFFICES ASSUME NEW s \in Findable, InForce(s.work),
                      Outcome(s).pool
               PROVE  s.proves >= s.work.min
    BY DEF PoolMinimumKept
  <2>1. /\ s.work \in works /\ s.proves \in Diff /\ s.work.min \in Diff
        /\ s.work.diff \in Diff /\ s.work.diff >= s.work.min
        /\ s.block => s.proves = MaxDiff
    BY <1>1, ShareParts
  <2>2. CASE Outcome(s).tried
    <3>1. s.block
      BY <2>2, Answer DEF IsBlock
    <3> QED  BY <2>1, <3>1, Constants DEF Diff
  <2>3. CASE Outcome(s).code = "ok"
    <3>1. Malformed(s) = "no" /\ Judge(s) = "ok"
      BY <2>3, Accepted
    <3>2. ~ (Proven(s) < JobDiff(s.work))
      BY <3>1, Codes
    <3>3. ~ Gone(s.work)
      BY <3>1, WellFormed
    <3>4. JobDiff(s.work) = s.work.diff
      BY <1>1, <2>1, <3>3 DEF SubmissionInv, TablesInv
    <3>5. s.work.diff # 0
      <4>1. s.work.diff >= VardiffMin
        BY <1>1, ShareParts
      <4> QED  BY <2>1, <4>1, Constants DEF Diff
    <3>6. Proven(s) = s.proves \/ Proven(s) = 0
      BY DEF Proven
    <3> QED  BY <2>1, <3>2, <3>4, <3>5, <3>6 DEF Diff
  <2> QED  BY <2>2, <2>3, Answer
<1> QED  BY <1>1, SubmissionAlways, PTL
================================================================================
