------------------------------- MODULE DupeTable -------------------------------
(***************************************************************************)
(* The table of submitted shares of one stratum thread                     *)
(* (datum_stratum_dupes.c), by which client_mining_submit refuses a share  *)
(* that was accepted before.                                               *)
(*                                                                         *)
(* Items fill an array from the front.  The low bits of the nonce select a *)
(* chain of items in order of their nonces; chains are linked by pointers  *)
(* into the array, modelled by positions, 0 being NULL.  A full array is   *)
(* sorted by the age of the jobs, cut off at the first stale one or made   *)
(* larger, and linked anew.  The array stays where it is when it grows; in *)
(* the program it may also move, and old pointers then point to freed      *)
(* memory.                                                                 *)
(*                                                                         *)
(* A share is a nonce, a job and the rest of what is compared (time,       *)
(* version and extranonce).  Jobs are numbered from the oldest.            *)
(***************************************************************************)
EXTENDS Integers, Sequences, FiniteSets, FiniteSetsExt

CONSTANTS
  Nonces,        \* positive; nonce n is in chain n % Buckets
  Buckets,       \* 65536 in the code
  Jobs,          \* number of jobs
  Rests,         \* the other fields
  InitialItems,  \* max_items in datum_stratum_dupes_init
  MaxAccepted    \* bound: shares accepted

ASSUME TableAssumption ==
  /\ Nonces \subseteq Nat \ {0} /\ Buckets \in Nat \ {0} /\ Jobs \in Nat
  /\ InitialItems \in Nat /\ InitialItems >= 4 /\ MaxAccepted \in Nat

VARIABLES
  ptr,           \* the array; its length is max_items
  next,          \* next[i]: the successor of item i in its chain
  index,         \* the first item of each chain
  current_items,
  age,           \* of each job, see below
  accepted,      \* history: shares accepted
  repeated,      \* history: shares accepted again, with the age of the job
  misplaced,     \* history: a share that filled the array came first in its
                 \* chain, and the chain was set to where it had been stored
  count          \* acceptances so far

vars == <<ptr, next, index, current_items, age, accepted, repeated, misplaced,
          count>>

Share == [nonce : Nonces, job : 1..Jobs, rest : Rests]
Empty == [nonce |-> 0, job |-> 0, rest |-> 0]
Chains == 0..Buckets - 1
Bucket(s) == s.nonce % Buckets

Fresh == 0       \* younger than share_stale_seconds
Late == 1        \* ... plus work_update_seconds: shares are still accepted
Stale == 2

max_items == Len(ptr)
Items == 1..current_items

TypeOK ==
  /\ ptr \in Seq(Share \cup {Empty}) /\ max_items >= InitialItems
  /\ current_items \in 0..max_items - 1
  /\ next \in [0..max_items -> 0..max_items]
  /\ index \in [Chains -> 0..max_items]
  /\ age \in [1..Jobs -> Fresh..Stale]
  /\ accepted \subseteq Share /\ repeated \subseteq Share \X {Fresh, Late}
  /\ misplaced \in BOOLEAN

Init ==
  /\ ptr = [i \in 1..InitialItems |-> Empty]
  /\ next = [i \in 0..InitialItems |-> 0]
  /\ index = [b \in Chains |-> 0]
  /\ current_items = 0
  /\ age = [j \in 1..Jobs |-> Fresh]
  /\ accepted = {} /\ repeated = {} /\ misplaced = FALSE /\ count = 0

-----------------------------------------------------------------------------
(* datum_stratum_dupes_cleanup on a full array p of n items.  Its result is a
   record of the array, the number of items kept, the links and the chains. *)

(* datum_stratum_dupes_cleanup_sort_compare: item i goes before item j.  The
   order of two items of one job matters to nobody; they keep it.            *)
Newer(p, i, j) == p[i].job > p[j].job \/ (p[i].job = p[j].job /\ i < j)

(* The number of items that go before item i. *)
Rank(p, i) == Cardinality({j \in 1..Len(p) : Newer(p, j, i)})

(* qsort of the array *)
SortByAge(p) ==
  [k \in 1..Len(p) |-> p[CHOOSE i \in 1..Len(p) : Rank(p, i) = k - 1]]

(* Mutant: jobs as old as the limit, and one more. *)
FirstStaleEarly(p) ==
  LET old == {i \in 1..Len(p) : age[p[i].job] > Fresh}
  IN IF old = {} THEN 0 ELSE IF Min(old) = 1 THEN 1 ELSE Min(old) - 1

(* find_first_less_than: the first item of a stale job, 0 if there is none. *)
FirstStale(p) ==
  LET old == {i \in 1..Len(p) : age[p[i].job] > Fresh}
  IN IF old = {} THEN 0 ELSE Min(old)

(* datum_stratum_dupes_expand *)
Expand(p) == p \o [i \in 1..(Len(p) * 125) \div 100 - Len(p) |-> Empty]

(* None is stale, or less than 5% are: more room.  Otherwise drop them. *)
Kept(p) ==
  LET i == FirstStale(p) IN
  IF i \in {0, Len(p)} \/ i - 1 >= (Len(p) * 95) \div 100 THEN Len(p) ELSE i - 1

Cleaned(p) ==
  IF Kept(p) = Len(p) THEN Expand(p)
  ELSE [i \in 1..Len(p) |-> IF i <= Kept(p) THEN p[i] ELSE Empty]

(* Mutant: the last item is not linked. *)
ChainShort(p, n, b) == {i \in 1..n - 1 : Bucket(p[i]) = b}

(* The items of chain b among the first n of the array. *)
Chain(p, n, b) == {i \in 1..n : Bucket(p[i]) = b}

(* A chain is in order of the nonces; the order of equal ones is that in which
   they are put in.                                                        *)
Before(p, i, j) ==
  p[i].nonce < p[j].nonce \/ (p[i].nonce = p[j].nonce /\ i < j)

(* The first of the items S in a chain, 0 without one. *)
First(p, S) ==
  IF S = {} THEN 0 ELSE CHOOSE i \in S : \A j \in S \ {i} : Before(p, i, j)

Successor(p, n, i) ==
  First(p, {j \in Chain(p, n, Bucket(p[i])) : Before(p, i, j)})

(* datum_stratum_dupes_reorganize: the chains of the first n items. *)
Reorganize(p, n) ==
  [ptr |-> p, current_items |-> n,
   index |-> [b \in Chains |-> First(p, Chain(p, n, b))],
   next |-> [i \in 0..Len(p) |-> IF i \in 1..n THEN Successor(p, n, i) ELSE 0]]

Cleanup(table) ==
  LET p == SortByAge(table.ptr) IN Reorganize(Cleaned(p), Kept(p))

-----------------------------------------------------------------------------
IsFull(n) == n >= max_items

(* datum_stratum_add_new_dupe: after item q of the chain, or first (q = 0). *)
AddNewDupe(s, q) ==
  LET n == current_items + 1
      new == [ptr |-> [ptr EXCEPT ![n] = s], current_items |-> n,
              index |-> index,
              next |-> IF q = 0 THEN [next EXCEPT ![n] = 0]
                       ELSE [next EXCEPT ![n] = next[q], ![q] = n]]
  IN IF IsFull(n) THEN Cleanup(new) ELSE new

(* The position of the walk along the chain of s after k - 1 links. *)
Walk(s) ==
  LET at[k \in 1..max_items + 1] ==
        IF k = 1 THEN index[Bucket(s)] ELSE next[at[k - 1]]
  IN at

(* The walk ends at the same share, at a higher nonce or behind the chain. *)
WalkEnd(s) ==
  Min({k \in 1..max_items + 1 :
         LET i == Walk(s)[k] IN
         i = 0 \/ ptr[i].nonce > s.nonce \/ ptr[i] = s})

Found(s) == LET i == Walk(s)[WalkEnd(s)] IN i # 0 /\ ptr[i] = s

(* datum_stratum_check_for_dupe when the share is new.  If it becomes the
   first of its chain, the chain is set to the place where it was stored, and
   the old first item is put behind it, after any cleanup.                  *)
Insert(s) ==
  LET k == WalkEnd(s)
      q == IF k = 1 THEN 0 ELSE Walk(s)[k - 1]
      table == AddNewDupe(s, q)
      n == current_items + 1
  IN /\ ptr' = table.ptr /\ current_items' = table.current_items
     /\ index' = IF k = 1 THEN [table.index EXCEPT ![Bucket(s)] = n]
                 ELSE table.index
     /\ next' = IF k = 1 /\ Walk(s)[1] # 0
                THEN [table.next EXCEPT ![n] = Walk(s)[1]] ELSE table.next

(* client_mining_submit of a share that is good otherwise; a share of a stale
   job does not get this far.  Behind a chain that was set to a wrong place the
   model does not go: its links may form a ring.                            *)
Accept(s) ==
  /\ ~ misplaced
  /\ age[s.job] # Stale /\ ~ Found(s) /\ count < MaxAccepted
  /\ Insert(s)
  /\ accepted' = accepted \cup {s}
  /\ repeated' = IF s \in accepted THEN repeated \cup {<<s, age[s.job]>>}
                 ELSE repeated
  /\ misplaced' = (misplaced \/ (IsFull(current_items + 1) /\ WalkEnd(s) = 1))
  /\ count' = count + 1
  /\ UNCHANGED age

(* Jobs age; an older one is never younger than its successor. *)
JobAges(j) ==
  /\ age[j] < Stale
  /\ \A i \in 1..j - 1 : age[i] > age[j]
  /\ age' = [age EXCEPT ![j] = @ + 1]
  /\ UNCHANGED <<ptr, next, index, current_items, accepted, repeated, misplaced,
                 count>>

Next ==
  \/ \E s \in Share : Accept(s)
  \/ \E j \in 1..Jobs : JobAges(j)

Spec == Init /\ [][Next]_vars

-----------------------------------------------------------------------------
(* Properties *)

(* However often the array was sorted, cut off and made larger: walking the
   chains visits every item, in order of the nonces, each once.             *)
ChainsComplete ==
  /\ TypeOK
  /\ ~ misplaced =>
    /\ \A i \in Items :
         Cardinality({q \in Items : next[q] = i}
                     \cup {Buckets + max_items + b :
                             b \in {c \in Chains : index[c] = i}}) = 1
    /\ \A b \in Chains : index[b] # 0 => Bucket(ptr[index[b]]) = b
    /\ \A i \in Items : next[i] # 0 =>
         /\ next[i] \in Items
         /\ Bucket(ptr[next[i]]) = Bucket(ptr[i])
         /\ ptr[next[i]].nonce >= ptr[i].nonce

(* datum_stratum_dupes.c:397, "MISSED A DUPE" in the code test: a share of a
   fresh job that was accepted is refused for good.                         *)
FreshAcceptedOnce == \A r \in repeated : r[2] # Fresh

(* The same unless a chain was set to a place that had been cleaned up. *)
AcceptedOnceUnlessMisplaced == ~ misplaced => FreshAcceptedOnce
=============================================================================
