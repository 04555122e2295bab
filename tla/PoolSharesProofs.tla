-------------------------- MODULE PoolSharesProofs --------------------------
(***************************************************************************)
(* What the gateway believes the pool to know, the pool knows: proofs about  *)
(* PoolShares for any number of jobs, numbers, places, shares and sessions.  *)
(*                                                                         *)
(* The flags of a slot say nothing by themselves, they are about the address *)
(* server_sjob, and an address only says where a job was made.  The         *)
(* invariant therefore ties flags, server_sjob and the pool together: what   *)
(* the pool has was, when it was sent, at that address, and is not younger   *)
(* than what is there now.  If the job of the branches is still there, there *)
(* has been no other since.  Of a message between its two locks the          *)
(* invariant says what of the flags it has already decided on: nobody else   *)
(* changes them then.  As the numbers go round in step with the places, the  *)
(* job that has a number now is at least as young as every job that is still *)
(* on its way under that number.                                            *)
(***************************************************************************)
EXTENDS PoolShares, TLAPS

(* A job was made at address a, and whatever is there now is not older. *)
Part(j, a) == OfPlace(j, a) /\ j <= list[a].id

(* The job at address a has number s. *)
Holds(a, s) == /\ a \in Address
               /\ list[a].id # NoJob
               /\ SlotOf(list[a].id) = s

(* The job that has the number now. *)
Newest(s) == IF slots[s].sjob = Null THEN NoJob ELSE list[slots[s].sjob].id

NotAfter(j, s) == j <= Newest(s)

(* A share has the number of the job at its address, which was its own. *)
ShareOK(q) ==
  /\ slots[q.slot].sjob # Null
  /\ q.sjob # Null => Holds(q.sjob, q.slot) /\ OfPlace(q.job, q.sjob)

SharesOK == \A i \in 1..Len(queue) : ShareOK(queue[i])

NumbersOK ==
  /\ \A a \in Address :
       list[a].id # NoJob => /\ list[a].id <= made
                             /\ OfPlace(list[a].id, a)
                             /\ NotAfter(list[a].id, SlotOf(list[a].id))
  /\ \A s \in SlotId : /\ slots[s].sjob # Null => Holds(slots[s].sjob, s)
                       /\ NotAfter(server[s].merkle, s)

(* A message between the two locks of datum_protocol_pow_build_message. *)
BuildOK ==
  build.on =>
    LET p == slots[build.share.slot]
    IN /\ phase # "down"
       /\ Holds(build.sjob, build.share.slot)
       /\ build.share.sjob # Null => OfPlace(build.share.job, build.sjob)
       /\ build.fresh = (p.server_sjob # build.sjob)
       /\ (build.merkle # NoJob) = (build.fresh \/ ~ p.has_merkle)
       /\ (build.coinbase # NoJob) = (build.merkle = NoJob)
       /\ build.merkle # NoJob => Part(build.merkle, build.sjob)
       /\ build.coinbase # NoJob =>
            /\ Part(build.coinbase, build.sjob)
            /\ ~ broken => server[build.share.slot].merkle <= build.coinbase

(* The pool has what the flags of slot p say. *)
Honest(p, known) ==
  /\ p.has_merkle => Part(known.merkle, p.server_sjob)
  /\ \A c \in p.has_coinbase :
       /\ p.has_merkle
       /\ Part(known.coinbase[c], p.server_sjob)
       /\ known.merkle <= known.coinbase[c]

PoolOK == phase # "down" /\ ~ broken =>
            \A s \in SlotId : Honest(slots[s], server[s])

SharesInv ==
  TypeOK /\ SharesOK /\ NumbersOK /\ BuildOK /\ PoolOK
  /\ ShareResolves /\ AnswerNotOutdated

ReadType == [share : Share, about : Pointer, merkle : JobId, coinbase : JobId]
ReplyType == [slot : Nat, code : Codes, job : JobId, known : JobId]

-----------------------------------------------------------------------------
(* The number of a job is one of the numbers (datum_protocol_next_job_idx). *)
LEMMA SlotOfType == \A j \in Nat \ {0} : SlotOf(j) \in SlotId
BY SharesAssumption DEF SlotOf, SlotId

(* A job is made at one of the addresses (stratum_job_next). *)
LEMMA PlaceOfType == \A j \in Nat \ {0} : PlaceOf(j) \in Address
BY SharesAssumption DEF PlaceOf, Address

(* What is left over by a multiple of N is left over by N. *)
LEMMA Leftover ==
  ASSUME NEW N \in Nat \ {0}, NEW q \in Nat \ {0}, NEW x \in Nat
  PROVE x % N = (x % (q * N)) % N
<1> DEFINE P == q * N
           d == x \div P
           r == x % P
           e == r \div N
           t == r % N
           u == x \div N
           v == x % N
<1>1. P \in Nat \ {0}
  OBVIOUS
<1> HIDE DEF P
<1>2. d \in Int /\ r \in 0..P - 1 /\ x = P * d + r
  BY <1>1
<1> HIDE DEF d, r
<1>3. e \in Int /\ t \in 0..N - 1 /\ r = N * e + t
  BY <1>2
<1>4. u \in Int /\ v \in 0..N - 1 /\ x = N * u + v
  OBVIOUS
<1> HIDE DEF e, t, u, v
<1> DEFINE w == q * d + e
<1>5. w \in Int /\ x = N * w + t
  <2>1. P * d = N * (q * d)
    BY <1>2 DEF P
  <2>2. N * w = N * (q * d) + N * e
    BY <1>2, <1>3
  <2>3. N * (q * d) \in Int /\ N * e \in Int /\ N * w \in Int
    BY <1>2, <1>3
  <2>4. QED
    BY <2>1, <2>2, <2>3, <1>2, <1>3
<1> HIDE DEF w
<1>6. w = u
  <2>1. ASSUME NEW a \in Int, NEW b \in Int, a < b PROVE N * a + N <= N * b
    <3>1. N * (a + 1) <= N * b
      BY <2>1
    <3>2. QED
      BY <3>1
  <2>2. ~ (w < u)
    BY <2>1, <1>3, <1>4, <1>5
  <2>3. ~ (u < w)
    BY <2>1, <1>3, <1>4, <1>5
  <2>4. QED
    BY <2>2, <2>3, <1>4, <1>5
<1>7. v = t
  BY <1>3, <1>4, <1>5, <1>6
<1>8. QED
  BY <1>7 DEF v, t, r, P

(* Jobs that are made at one address have one number. *)
LEMMA SameNumber ==
  ASSUME NEW i \in Nat \ {0}, NEW j \in Nat \ {0}, PlaceOf(i) = PlaceOf(j)
  PROVE SlotOf(i) = SlotOf(j)
<1>1. PICK q \in Nat \ {0} : NumPlaces = q * NumSlots
  BY SharesAssumption
<1>2. i - 1 \in Nat /\ j - 1 \in Nat /\ NumSlots \in Nat \ {0}
      /\ NumPlaces \in Nat \ {0}
  BY SharesAssumption
<1>3. (i - 1) % NumPlaces = (j - 1) % NumPlaces
  <2>1. (i - 1) % NumPlaces \in Int /\ (j - 1) % NumPlaces \in Int
    BY <1>2
  <2>2. QED
    BY <2>1 DEF PlaceOf
<1>4. /\ (i - 1) % NumSlots = ((i - 1) % NumPlaces) % NumSlots
      /\ (j - 1) % NumSlots = ((j - 1) % NumPlaces) % NumSlots
  BY <1>1, <1>2, Leftover
<1>5. QED
  BY <1>3, <1>4 DEF SlotOf

(* The coinbase of the placeholder is one of a share. *)
LEMMA SubsidyType == SubsidyOnly \in CoinbaseId /\ 0 \in SlotId
<1>1. NumSlots \in Nat \ {0}
  BY SharesAssumption
<1>2. QED
  BY <1>1 DEF CoinbaseId, SlotId

(* Values that stand for nothing have the types of what they stand for. *)
LEMMA NothingTypes ==
  /\ NoShare \in Share /\ NotBuilding \in Build /\ Nothing \in Known
  /\ EmptySlot \in Slot /\ Unused \in Job
  /\ NothingRead \in ReadType /\ NoReply \in ReplyType
BY SubsidyType DEF NoShare, Share, NotBuilding, Build, Nothing, Known,
   EmptySlot, Slot, Unused, Job, Kind, NothingRead, NoReply, ReadType,
   ReplyType, JobId, NoJob, Null, Pointer, Codes

(* A share of a job goes into the queue with the right type
   (datum_protocol_pow_submit).                                             *)
LEMMA TailIn ==
  ASSUME NEW S, NEW q \in Seq(S), q # <<>>
  PROVE /\ Tail(q) \in Seq(S) /\ Head(q) \in S
        /\ Len(q) >= 1 /\ Head(q) = q[1]
        /\ \A i \in 1..Len(Tail(q)) : i + 1 \in 1..Len(q) /\ Tail(q)[i] = q[i + 1]
OBVIOUS

(* The fields of the state have the types of their records. *)
LEMMA Fields ==
  ASSUME TypeOK
  PROVE /\ \A a \in Address : list[a].id \in Nat
        /\ \A s \in SlotId : /\ slots[s].sjob \in Pointer
                             /\ slots[s].server_sjob \in Pointer
                             /\ slots[s].has_merkle \in BOOLEAN
                             /\ slots[s].has_coinbase \subseteq CoinbaseId
                             /\ server[s].merkle \in Nat
                             /\ \A c \in CoinbaseId :
                                  server[s].coinbase[c] \in Nat
        /\ \A s \in SlotId : Newest(s) \in Nat
<1>1. \A a \in Address : list[a].id \in Nat
  BY DEF TypeOK, Job, JobId
<1>2. \A s \in SlotId : /\ slots[s].sjob \in Pointer
                        /\ slots[s].server_sjob \in Pointer
                        /\ slots[s].has_merkle \in BOOLEAN
                        /\ slots[s].has_coinbase \subseteq CoinbaseId
  BY DEF TypeOK, Slot
<1>3. \A s \in SlotId : /\ server[s].merkle \in Nat
                        /\ \A c \in CoinbaseId : server[s].coinbase[c] \in Nat
  BY DEF TypeOK, Known, JobId
<1>4. \A s \in SlotId : Newest(s) \in Nat
  BY <1>1, <1>2 DEF Newest, Pointer, NoJob, Null
<1>5. QED
  BY <1>1, <1>2, <1>3, <1>4

(* The state at the start satisfies the invariant. *)
LEMMA SharesInit == Init => SharesInv
<1> SUFFICES ASSUME Init PROVE SharesInv
  OBVIOUS
<1>1. TypeOK
  <2>1. slots \in [SlotId -> Slot] /\ server \in [SlotId -> Known]
    BY NothingTypes DEF Init
  <2>2. made \in Nat /\ list \in [Address -> Job] /\ queue \in Seq(Share)
    BY NothingTypes DEF Init
  <2>3. build \in Build /\ read \in ReadType /\ reply \in ReplyType
    BY NothingTypes DEF Init
  <2>4. found \in Nat /\ session \in Nat
        /\ phase \in {"down", "greeting", "ready"} /\ broken \in BOOLEAN
    BY DEF Init
  <2>5. QED
    BY <2>1, <2>2, <2>3, <2>4 DEF TypeOK, ReadType, ReplyType
<1>2. NumbersOK
  <2>1. \A a \in Address : list[a].id = NoJob
    BY DEF Init, Unused
  <2>2. \A s \in SlotId : slots[s].sjob = Null /\ server[s].merkle = 0
    BY DEF Init, EmptySlot, Nothing, NoJob
  <2>3. QED
    BY <2>1, <2>2 DEF NumbersOK, NotAfter, Newest, NoJob
<1>3. SharesOK /\ BuildOK
  BY DEF Init, SharesOK, BuildOK, NotBuilding
<1>4. PoolOK /\ ShareResolves /\ AnswerNotOutdated
  BY DEF Init, PoolOK, ShareResolves, AnswerNotOutdated, NothingRead, NoReply
<1>5. QED
  BY <1>1, <1>2, <1>3, <1>4 DEF SharesInv

-----------------------------------------------------------------------------
(* What the pool has under a number after a message about it. *)
After(share, mj, cj) == Told(server[share.slot], share.coinbase, mj, cj)

(* The pool keeps what it had, and takes what the message carries. *)
LEMMA AfterParts ==
  ASSUME TypeOK, NEW share \in Share, NEW mj \in JobId, NEW cj \in JobId
  PROVE LET k == After(share, mj, cj)
            old == server[share.slot]
        IN /\ share.slot \in SlotId /\ share.coinbase \in CoinbaseId
           /\ old \in Known /\ k \in Known
           /\ k.merkle = IF mj # NoJob THEN mj ELSE old.merkle
           /\ \A c \in CoinbaseId :
                k.coinbase[c] = IF cj # NoJob /\ c = share.coinbase THEN cj
                                ELSE old.coinbase[c]
<1>1. share.slot \in SlotId /\ share.coinbase \in CoinbaseId
  BY DEF Share
<1>2. server[share.slot] \in Known
  BY <1>1 DEF TypeOK
<1>3. server[share.slot].coinbase \in [CoinbaseId -> JobId]
      /\ server[share.slot].merkle \in JobId
  BY <1>2 DEF Known
<1> DEFINE old == server[share.slot]
           cbs == IF cj # NoJob THEN [old.coinbase EXCEPT ![share.coinbase] = cj]
                  ELSE old.coinbase
<1>4. cbs \in [CoinbaseId -> JobId]
      /\ \A c \in CoinbaseId :
           cbs[c] = IF cj # NoJob /\ c = share.coinbase THEN cj
                    ELSE old.coinbase[c]
  BY <1>1, <1>3
<1>5. After(share, mj, cj) =
        [merkle |-> IF mj # NoJob THEN mj ELSE old.merkle, coinbase |-> cbs]
  BY DEF After, Told
<1> HIDE DEF cbs
<1>6. After(share, mj, cj) \in Known
  BY <1>3, <1>4, <1>5 DEF Known
<1>7. After(share, mj, cj).merkle = IF mj # NoJob THEN mj ELSE old.merkle
  BY <1>5
<1>8. After(share, mj, cj).coinbase = cbs
  BY <1>5
<1> HIDE DEF old
<1>9. QED
  BY <1>1, <1>2, <1>4, <1>6, <1>7, <1>8 DEF old

(* A message is read by the pool, or lost for good with the session
   (datum_protocol_mining_cmd).                                             *)
LEMMA SendCases ==
  ASSUME TypeOK, NEW share \in Share, NEW a \in Pointer, NEW mj \in JobId,
         NEW cj \in JobId, Send(share, a, mj, cj)
  PROVE LET k == After(share, mj, cj)
        IN /\ reply' = NoReply /\ broken' \in BOOLEAN
           /\ \/ /\ ~ broken /\ ~ broken' /\ phase = "ready"
                 /\ server' = [server EXCEPT ![share.slot] = k]
                 /\ read' = [share |-> share, about |-> a, merkle |-> k.merkle,
                             coinbase |-> k.coinbase[share.coinbase]]
              \/ broken' /\ server' = server /\ read' = NothingRead
<1>1. broken \in BOOLEAN
  BY DEF TypeOK
<1> DEFINE k == After(share, mj, cj)
           Read == /\ ~ broken /\ phase = "ready"
                   /\ server' = [server EXCEPT ![share.slot] = k]
                   /\ read' = [share |-> share, about |-> a,
                               merkle |-> k.merkle,
                               coinbase |-> k.coinbase[share.coinbase]]
                   /\ reply' = NoReply
                   /\ UNCHANGED broken
           Lost == /\ broken' = TRUE /\ server' = server
                   /\ read' = NothingRead /\ reply' = NoReply
<1>2. Read \/ Lost
  BY Zenon DEF Send, After, Silent
<1> HIDE DEF k
<1>3. CASE Read
  BY <1>1, <1>3, Zenon DEF k
<1>4. CASE Lost
  BY <1>4, Zenon
<1>5. QED
  BY <1>2, <1>3, <1>4

(* What the pool and the answer are keeps its type. *)
LEMMA SendTypes ==
  ASSUME TypeOK, NEW share \in Share, NEW a \in Pointer, NEW mj \in JobId,
         NEW cj \in JobId, Send(share, a, mj, cj)
  PROVE /\ broken' \in BOOLEAN
        /\ server' \in [SlotId -> Known]
        /\ read' \in ReadType /\ reply' \in ReplyType
<1> DEFINE k == After(share, mj, cj)
<1>1. share.slot \in SlotId /\ share.coinbase \in CoinbaseId /\ k \in Known
  BY AfterParts
<1>2. k.merkle \in JobId /\ k.coinbase[share.coinbase] \in JobId
  BY <1>1 DEF Known
<1>3. server \in [SlotId -> Known]
  BY DEF TypeOK
<1> HIDE DEF k
<1>4. CASE server' = [server EXCEPT ![share.slot] = k]
           /\ read' = [share |-> share, about |-> a, merkle |-> k.merkle,
                       coinbase |-> k.coinbase[share.coinbase]]
  <2>1. read' \in ReadType
    BY <1>2, <1>4 DEF ReadType
  <2>2. QED
    BY <1>1, <1>3, <1>4, <2>1, SendCases, NothingTypes DEF k
<1>5. CASE server' = server /\ read' = NothingRead
  BY <1>3, <1>5, SendCases, NothingTypes
<1>6. QED
  BY <1>4, <1>5, SendCases DEF k

(* Flags that are honest about the slot of a share, of which the coinbase of
   the share is one, say how the pool reads it.                             *)
LEMMA ReadRight ==
  ASSUME TypeOK, NEW share \in Share, NEW a \in Pointer, NEW p \in Slot,
         NEW k \in Known,
         Honest(p, k), p.server_sjob = a, share.coinbase \in p.has_coinbase,
         share.sjob # Null => OfPlace(share.job, a),
         UNCHANGED list,
         read' = [share |-> share, about |-> a, merkle |-> k.merkle,
                  coinbase |-> k.coinbase[share.coinbase]]
  PROVE ShareResolves'
<1> DEFINE mj == k.merkle
           cj == k.coinbase[share.coinbase]
<1>1. Part(mj, a) /\ Part(cj, a) /\ mj <= cj
  BY DEF Honest
<1>2. share.coinbase \in CoinbaseId
  BY DEF Share
<1>3. mj \in Nat /\ cj \in Nat
  BY <1>2 DEF Known, JobId
<1>4. PlaceOf(mj) = a /\ PlaceOf(cj) = a /\ mj # NoJob
  BY <1>1 DEF Part, OfPlace
<1>5. a \in Address
  BY <1>3, <1>4, PlaceOfType DEF NoJob
<1>6. list[a].id \in Nat
  BY <1>5, Fields
<1>7. InPlace(mj) => cj = mj
  BY <1>1, <1>3, <1>4, <1>6 DEF Part, InPlace
<1>8. share.sjob # Null /\ InPlace(mj) /\ InPlace(share.job) => mj = share.job
  BY <1>4 DEF OfPlace, InPlace
<1> HIDE DEF mj, cj
<1>9. /\ read'.share = share /\ read'.about = a /\ read'.merkle = mj
      /\ read'.coinbase = cj
  BY DEF mj, cj
<1>10. QED
  BY <1>1, <1>7, <1>8, <1>9 DEF ShareResolves, InPlace, OfPlace, Part

-----------------------------------------------------------------------------
(* A new job: its place is overwritten, its number given to it
   (datum_protocol_setup_new_job_idx).                                      *)
LEMMA SetupFacts ==
  ASSUME SharesInv, NEW k \in Kinds, SetupNewJob(k)
  PROVE LET j == made + 1
            a == PlaceOf(j)
        IN /\ made \in Nat /\ j \in Nat \ {0} /\ made' = j
           /\ a \in Address /\ SlotOf(j) \in SlotId
           /\ list' \in [Address -> Job] /\ slots' \in [SlotId -> Slot]
           /\ \A b \in Address :
                list'[b].id = IF b = a THEN j ELSE list[b].id
           /\ \A b \in Address : list[b].id \in Nat /\ list[b].id <= made
           /\ \A s \in SlotId :
                /\ slots'[s].sjob = IF s = SlotOf(j) THEN a ELSE slots[s].sjob
                /\ slots'[s].server_sjob = slots[s].server_sjob
                /\ slots'[s].has_merkle = slots[s].has_merkle
                /\ slots'[s].has_coinbase = slots[s].has_coinbase
           /\ UNCHANGED <<queue, found, build, session, phase, broken, server>>
           /\ read' = NothingRead /\ reply' = NoReply
<1> DEFINE j == made + 1
           a == PlaceOf(j)
           job == [id |-> j, kind |-> k]
           p == [slots[SlotOf(j)] EXCEPT !.sjob = a]
<1> USE DEF SharesInv
<1>1. made \in Nat /\ j \in Nat \ {0} /\ made' = j
  BY DEF SetupNewJob, TypeOK
<1>2. a \in Address /\ SlotOf(j) \in SlotId
  BY <1>1, PlaceOfType, SlotOfType
<1>3. k \in Kind
  BY SharesAssumption DEF Kind
<1>4. job \in Job /\ job.id = j
  BY <1>1, <1>3 DEF Job, JobId
<1>5. list' = [list EXCEPT ![a] = job] /\ list \in [Address -> Job]
  BY DEF SetupNewJob, TypeOK
<1>6. slots' = [slots EXCEPT ![SlotOf(j)] = p] /\ slots \in [SlotId -> Slot]
  BY DEF SetupNewJob, Rebound, TypeOK
<1>7. p \in Slot /\ p.sjob = a
      /\ p.server_sjob = slots[SlotOf(j)].server_sjob
      /\ p.has_merkle = slots[SlotOf(j)].has_merkle
      /\ p.has_coinbase = slots[SlotOf(j)].has_coinbase
  <2>1. slots[SlotOf(j)] \in Slot /\ a \in Pointer
    BY <1>2, <1>6 DEF Pointer
  <2> HIDE DEF a, j
  <2>2. QED
    BY <2>1 DEF Slot
<1>8. UNCHANGED <<queue, found, build, session, phase, broken, server>>
      /\ read' = NothingRead /\ reply' = NoReply
  BY DEF SetupNewJob, Silent
<1>9. \A b \in Address : list[b].id \in Nat /\ list[b].id <= made
  BY <1>1, Fields DEF NumbersOK, NoJob
<1> HIDE DEF a, j, p, job
<1>10. list' \in [Address -> Job]
       /\ \A b \in Address : list'[b].id = IF b = a THEN j ELSE list[b].id
  BY <1>2, <1>4, <1>5
<1>11. slots' \in [SlotId -> Slot]
       /\ \A s \in SlotId : slots'[s] = IF s = SlotOf(j) THEN p ELSE slots[s]
  BY <1>2, <1>6, <1>7
<1>12. \A s \in SlotId :
         /\ slots'[s].sjob = IF s = SlotOf(j) THEN a ELSE slots[s].sjob
         /\ slots'[s].server_sjob = slots[s].server_sjob
         /\ slots'[s].has_merkle = slots[s].has_merkle
         /\ slots'[s].has_coinbase = slots[s].has_coinbase
  BY <1>7, <1>11
<1>13. QED
  BY <1>1, <1>2, <1>8, <1>9, <1>10, <1>11, <1>12 DEF a, j

(* What was said of a number and of a part stays true when a job is made: a job
   that is overwritten has the number of the new one, and is older.          *)
LEMMA SetupKeeps ==
  ASSUME SharesInv, NEW k \in Kinds, SetupNewJob(k)
  PROVE /\ \A a \in Address : list[a].id <= list'[a].id
        /\ \A a, s : Holds(a, s) => Holds(a, s)'
        /\ \A b \in Nat, a \in Address : Part(b, a) => Part(b, a)'
        /\ \A s \in SlotId : Newest(s) <= Newest(s)'
        /\ \A s \in SlotId : slots[s].sjob # Null => slots'[s].sjob # Null
<1> DEFINE j == made + 1
           P == PlaceOf(j)
<1> USE DEF SharesInv
<1>1. /\ made \in Nat /\ j \in Nat \ {0} /\ P \in Address
      /\ SlotOf(j) \in SlotId
      /\ \A b \in Address : list'[b].id = IF b = P THEN j ELSE list[b].id
      /\ \A b \in Address : list[b].id \in Nat /\ list[b].id <= made
      /\ \A s \in SlotId :
           slots'[s].sjob = IF s = SlotOf(j) THEN P ELSE slots[s].sjob
  BY SetupFacts
<1>2. \A a \in Address : /\ list[a].id \in Nat /\ list'[a].id \in Nat
                         /\ list[a].id <= list'[a].id
                         /\ list'[a].id <= j
  BY <1>1
<1>3. ASSUME NEW a, NEW s, Holds(a, s) PROVE Holds(a, s)'
  <2>1. a \in Address /\ list[a].id # NoJob /\ SlotOf(list[a].id) = s
    BY <1>3 DEF Holds
  <2>2. CASE a # P
    BY <2>1, <2>2, <1>1 DEF Holds
  <2>3. CASE a = P
    <3>1. list[a].id \in Nat \ {0} /\ PlaceOf(list[a].id) = P
      BY <2>1, <2>3, <1>2 DEF NumbersOK, OfPlace, NoJob
    <3>2. SlotOf(list[a].id) = SlotOf(j)
      <4> HIDE DEF j
      <4>1. PlaceOf(list[a].id) = PlaceOf(j) /\ j \in Nat \ {0}
        BY <3>1, <1>1
      <4>2. QED
        BY <3>1, <4>1, SameNumber
    <3>3. list'[a].id = j
      BY <1>1, <2>3
    <3>4. QED
      BY <2>1, <3>2, <3>3, <1>1 DEF Holds, NoJob
  <2>4. QED
    BY <2>2, <2>3
<1>4. ASSUME NEW b \in Nat, NEW a \in Address, Part(b, a) PROVE Part(b, a)'
  BY <1>2, <1>4 DEF Part, OfPlace
<1>5. ASSUME NEW s \in SlotId
      PROVE /\ Newest(s) <= Newest(s)'
            /\ slots[s].sjob # Null => slots'[s].sjob # Null
  <2>1. slots[s].sjob \in Pointer
    BY Fields
  <2>2. P # Null
    BY <1>1 DEF Address, Null
  <2>3. CASE s = SlotOf(j)
    <3>1. Newest(s)' = j
      BY <2>2, <2>3, <1>1 DEF Newest
    <3>2. Newest(s) \in Nat /\ Newest(s) <= j
      BY <2>1, <1>1 DEF Newest, Pointer, NoJob
    <3>3. QED
      BY <3>1, <3>2, <2>2, <2>3, <1>1
  <2>4. CASE s # SlotOf(j)
    <3>1. slots'[s].sjob = slots[s].sjob
      BY <2>4, <1>1
    <3>2. QED
      BY <2>1, <3>1, <1>2 DEF Newest, Pointer, NoJob
  <2>5. QED
    BY <2>3, <2>4
<1>6. QED
  BY <1>2, <1>3, <1>4, <1>5

(* A job takes over a number and a place; what the pool has under the number,
   and what the gateway believes it to have, stays as it is
   (datum_protocol_setup_new_job_idx).                                      *)
LEMMA SetupStep ==
  ASSUME SharesInv, NEW k \in Kinds, SetupNewJob(k)
  PROVE SharesInv'
<1> USE DEF SharesInv
<1>0. PICK j : j = made + 1
  OBVIOUS
<1> DEFINE P == PlaceOf(j)
<1>1. /\ made \in Nat /\ j \in Nat \ {0} /\ made' = j
      /\ P \in Address /\ SlotOf(j) \in SlotId
      /\ list' \in [Address -> Job] /\ slots' \in [SlotId -> Slot]
      /\ \A b \in Address : list'[b].id = IF b = P THEN j ELSE list[b].id
      /\ \A b \in Address : list[b].id \in Nat /\ list[b].id <= made
      /\ \A s \in SlotId :
           /\ slots'[s].sjob = IF s = SlotOf(j) THEN P ELSE slots[s].sjob
           /\ slots'[s].server_sjob = slots[s].server_sjob
           /\ slots'[s].has_merkle = slots[s].has_merkle
           /\ slots'[s].has_coinbase = slots[s].has_coinbase
      /\ UNCHANGED <<queue, found, build, session, phase, broken, server>>
      /\ read' = NothingRead /\ reply' = NoReply
  BY <1>0, SetupFacts
<1>2. /\ \A a \in Address : list[a].id <= list'[a].id
      /\ \A a, s : Holds(a, s) => Holds(a, s)'
      /\ \A b \in Nat, a \in Address : Part(b, a) => Part(b, a)'
      /\ \A s \in SlotId : Newest(s) <= Newest(s)'
      /\ \A s \in SlotId : slots[s].sjob # Null => slots'[s].sjob # Null
  BY SetupKeeps
<1> HIDE DEF P
<1>3. TypeOK'
  <2>1. read' \in ReadType /\ reply' \in ReplyType
    BY <1>1, NothingTypes
  <2>2. QED
    BY <1>1, <2>1 DEF TypeOK, ReadType, ReplyType
<1>4. SharesOK'
  <2>1. ASSUME NEW i \in 1..Len(queue) PROVE ShareOK(queue[i])'
    <3>1. queue[i] \in Share
      BY DEF TypeOK
    <3>2. queue[i].slot \in SlotId /\ ShareOK(queue[i])
      BY <3>1 DEF Share, SharesOK
    <3>3. QED
      BY <3>2, <1>1, <1>2 DEF ShareOK, OfPlace
  <2>2. QED
    BY <2>1, <1>1 DEF SharesOK, ShareOK
<1>5. NumbersOK'
  <2>1. ASSUME NEW s \in SlotId
        PROVE Newest(s) \in Nat /\ Newest(s)' \in Nat /\ Newest(s) <= Newest(s)'
    BY <1>2, <1>3, Fields DEF TypeOK, Newest, Pointer, Slot, Job, JobId, NoJob
  <2>2. ASSUME NEW a \in Address, list'[a].id # NoJob
        PROVE /\ list'[a].id <= made' /\ OfPlace(list'[a].id, a)
              /\ NotAfter(list[a].id, SlotOf(list[a].id))'
    <3>1. CASE a = P
      <4>1. list'[a].id = j
        BY <3>1, <1>1
      <4>2. P # Null
        BY <1>1 DEF Address, Null
      <4>3. Newest(SlotOf(j))' = j
        BY <4>1, <4>2, <3>1, <1>1 DEF Newest
      <4>4. QED
        BY <3>1, <4>1, <4>3, <1>1 DEF OfPlace, NotAfter, NoJob, P
    <3>2. CASE a # P
      <4>1. list'[a].id = list[a].id /\ list[a].id \in Nat
        BY <3>2, <1>1
      <4>2. /\ list[a].id <= made /\ OfPlace(list[a].id, a)
            /\ list[a].id <= Newest(SlotOf(list[a].id))
        BY <2>2, <4>1 DEF NumbersOK, NotAfter
      <4>3. SlotOf(list[a].id) \in SlotId
        BY <2>2, <4>1, SlotOfType DEF NoJob
      <4>4. list[a].id <= made'
        BY <4>1, <4>2, <1>0, <1>1
      <4>5. list[a].id <= Newest(SlotOf(list[a].id))'
        BY <4>1, <4>2, <4>3, <2>1
      <4>6. QED
        BY <4>1, <4>2, <4>4, <4>5 DEF NotAfter
    <3>3. QED
      BY <3>1, <3>2
  <2>3. ASSUME NEW s \in SlotId
        PROVE /\ (slots[s].sjob # Null => Holds(slots[s].sjob, s))'
              /\ NotAfter(server[s].merkle, s)'
    <3>1. ASSUME s = SlotOf(j)
          PROVE (slots[s].sjob # Null => Holds(slots[s].sjob, s))'
      BY <3>1, <1>1 DEF Holds, NoJob
    <3>2. ASSUME s # SlotOf(j)
          PROVE (slots[s].sjob # Null => Holds(slots[s].sjob, s))'
      BY <3>2, <1>1, <1>2 DEF NumbersOK
    <3>3. server[s].merkle \in Nat /\ server[s].merkle <= Newest(s)
      BY Fields DEF NumbersOK, NotAfter
    <3>4. NotAfter(server[s].merkle, s)'
      BY <3>3, <2>1, <1>1 DEF NotAfter
    <3>5. (slots[s].sjob # Null => Holds(slots[s].sjob, s))'
      BY <3>1, <3>2
    <3>6. QED
      BY <3>4, <3>5
  <2>4. QED
    BY <2>2, <2>3 DEF NumbersOK, OfPlace
<1>6. BuildOK'
  <2>1. /\ build.share.slot \in SlotId /\ build.merkle \in Nat
        /\ build.coinbase \in Nat
    BY DEF TypeOK, Build, Share, JobId
  <2>2. SUFFICES ASSUME build.on PROVE BuildOK'
    BY <1>1 DEF BuildOK
  <2>3. build.sjob \in Address
    BY <2>2 DEF BuildOK, Holds
  <2>4. Holds(build.sjob, build.share.slot)'
    BY <2>2, <1>1, <1>2 DEF BuildOK
  <2>5. build.merkle # NoJob => Part(build.merkle, build.sjob)'
    BY <2>1, <2>2, <2>3, <1>1, <1>2 DEF BuildOK
  <2>6. build.coinbase # NoJob => Part(build.coinbase, build.sjob)'
    BY <2>1, <2>2, <2>3, <1>1, <1>2 DEF BuildOK
  <2>7. QED
    BY <2>1, <2>2, <2>4, <2>5, <2>6, <1>1 DEF BuildOK, Holds, Part, OfPlace
<1>7. PoolOK'
  <2>1. ASSUME NEW s \in SlotId, Honest(slots[s], server[s])
        PROVE Honest(slots[s], server[s])'
    <3>1. /\ server[s].merkle \in Nat /\ slots[s].has_coinbase \subseteq CoinbaseId
          /\ \A c \in CoinbaseId : server[s].coinbase[c] \in Nat
      BY Fields
    <3>2. ASSUME NEW b \in Nat, Part(b, slots[s].server_sjob)
          PROVE Part(b, slots[s].server_sjob)'
      <4>1. slots[s].server_sjob \in Address
        BY <3>2, PlaceOfType DEF Part, OfPlace, NoJob
      <4>2. Part(b, slots'[s].server_sjob) /\ slots'[s].server_sjob \in Address
        BY <3>2, <4>1, <1>1
      <4>3. \A a \in Address : Part(b, a) => Part(b, a)'
        BY <1>2
      <4>4. QED
        BY <4>1, <4>3, <3>2, <1>1 DEF Part, OfPlace
    <3>3. QED
      BY <2>1, <3>1, <3>2, <1>1 DEF Honest
  <2>2. QED
    BY <2>1, <1>1 DEF PoolOK
<1>8. ShareResolves' /\ AnswerNotOutdated'
  BY <1>1 DEF ShareResolves, AnswerNotOutdated, NothingRead, NoReply
<1>9. QED
  BY <1>3, <1>4, <1>5, <1>6, <1>7, <1>8

(* A step that leaves slots, jobs and pool alone, and in which the pool reads
   nothing, keeps all but the queue and the message in hand.                *)
LEMMA QuietStep ==
  ASSUME SharesInv, UNCHANGED <<made, list, slots, server>>,
         read' = NothingRead, reply' = NoReply
  PROVE /\ made' \in Nat /\ list' \in [Address -> Job]
        /\ slots' \in [SlotId -> Slot]
        /\ server' \in [SlotId -> Known]
        /\ read' \in [share : Share, about : Pointer, merkle : JobId,
                      coinbase : JobId]
        /\ reply' \in [slot : Nat, code : Codes, job : JobId, known : JobId]
        /\ NumbersOK' /\ ShareResolves' /\ AnswerNotOutdated'
<1>1. NumbersOK'
  BY DEF SharesInv, NumbersOK, NotAfter, Newest, Holds, OfPlace
<1>2. ShareResolves' /\ AnswerNotOutdated'
  BY DEF ShareResolves, AnswerNotOutdated, NothingRead, NoReply
<1>3. read' \in ReadType /\ reply' \in ReplyType
  BY NothingTypes
<1>4. QED
  BY <1>1, <1>2, <1>3 DEF SharesInv, TypeOK, ReadType, ReplyType

(* The queue is as it was, or shorter: its shares are still what they were. *)
LEMMA SharesKept ==
  ASSUME SharesOK, UNCHANGED <<list, slots>>,
         \A i \in 1..Len(queue') : \E n \in 1..Len(queue) : queue'[i] = queue[n]
  PROVE SharesOK'
BY DEF SharesOK, ShareOK, Holds, OfPlace

(* A share joins the queue: the job at its address has its number. *)
LEMMA SubmitStep ==
  ASSUME SharesInv, NEW a \in Address, NEW c \in CoinbaseId,
         PowSubmit(a, c)
  PROVE SharesInv'
<1> DEFINE j == list[a].id
           s == [job |-> j, slot |-> SlotOf(j),
                 sjob |-> IF list[a].kind.blake2b THEN a ELSE Null,
                 coinbase |-> c]
<1> USE DEF SharesInv
<1>1. UNCHANGED <<made, list, slots, build, session, phase, broken, server>>
      /\ read' = NothingRead /\ reply' = NoReply /\ found' = found + 1
  BY DEF PowSubmit, Silent
<1>2. queue' = Append(queue, s) \/ queue' = queue
  BY DEF PowSubmit
<1>3. j \in Nat \ {0} /\ SlotOf(j) \in SlotId
  BY Fields, SlotOfType DEF PowSubmit, NoJob
<1>4. s \in Share
  BY <1>3 DEF Share, JobId, Pointer
<1>5. Holds(a, SlotOf(j)) /\ OfPlace(j, a)
  BY <1>3 DEF Holds, NumbersOK, NoJob
<1>6. slots[SlotOf(j)].sjob # Null
  <2>1. j <= Newest(SlotOf(j))
    BY <1>3 DEF NumbersOK, NotAfter, NoJob
  <2>2. QED
    BY <1>3, <2>1 DEF Newest, NoJob
<1>7. ShareOK(s)
  BY <1>5, <1>6 DEF ShareOK
<1> HIDE DEF s, j
<1>8. queue \in Seq(Share) /\ queue' \in Seq(Share)
  <2>1. queue \in Seq(Share)
    BY DEF TypeOK
  <2>2. Append(queue, s) \in Seq(Share)
    BY <2>1, <1>4
  <2>3. QED
    BY <2>1, <2>2, <1>2
<1>9. SharesOK'
  <2>1. ASSUME NEW i \in 1..Len(queue') PROVE ShareOK(queue'[i])
    <3>1. CASE i \in 1..Len(queue) /\ queue'[i] = queue[i]
      BY <3>1 DEF SharesOK
    <3>2. CASE queue'[i] = s
      BY <3>2, <1>7
    <3>3. QED
      BY <3>1, <3>2, <1>2, <1>4, <1>8
  <2>2. QED
    BY <2>1, <1>1 DEF SharesOK, ShareOK, Holds, OfPlace
<1>10. TypeOK'
  BY <1>1, <1>8, QuietStep DEF TypeOK
<1>11. BuildOK' /\ PoolOK'
  BY <1>1 DEF BuildOK, PoolOK, Holds, Part, OfPlace, Honest
<1>12. QED
  BY <1>1, <1>9, <1>10, <1>11, QuietStep

(* The pool answers the hello. *)
LEMMA HandshakeStep == SharesInv /\ Handshake => SharesInv'
<1> SUFFICES ASSUME SharesInv, Handshake PROVE SharesInv'
  OBVIOUS
<1>1. UNCHANGED <<made, list, slots, queue, found, build, session, broken,
                  server>>
      /\ read' = NothingRead /\ reply' = NoReply /\ phase' = "ready"
      /\ phase = "greeting" /\ ~ broken
  BY DEF Handshake, Silent
<1>2. TypeOK'
  BY <1>1, QuietStep DEF TypeOK, SharesInv
<1>3. SharesOK' /\ BuildOK' /\ PoolOK'
  BY <1>1 DEF SharesInv, SharesOK, ShareOK, BuildOK, PoolOK, Holds, Part,
     OfPlace, Honest
<1>4. QED
  BY <1>1, <1>2, <1>3, QuietStep DEF SharesInv

(* A session ends. *)
LEMMA EndStep == SharesInv /\ EndSession => SharesInv'
<1> SUFFICES ASSUME SharesInv, EndSession PROVE SharesInv'
  OBVIOUS
<1>1. UNCHANGED <<made, list, slots, found, build, session, broken, server>>
      /\ read' = NothingRead /\ reply' = NoReply /\ phase' = "down"
      /\ queue' = <<>> /\ ~ build.on
  BY DEF EndSession, Silent
<1>2. TypeOK'
  <2>1. queue' \in Seq(Share)
    BY <1>1
  <2>2. QED
    BY <1>1, <2>1, QuietStep DEF TypeOK, SharesInv
<1>3. SharesOK' /\ BuildOK' /\ PoolOK'
  BY <1>1 DEF SharesOK, BuildOK, PoolOK
<1>4. QED
  BY <1>1, <1>2, <1>3, QuietStep DEF SharesInv

(* A session starts: the flags are reset, and the pool knows nothing. *)
LEMMA StartStep == SharesInv /\ StartSession => SharesInv'
<1> SUFFICES ASSUME SharesInv, StartSession PROVE SharesInv'
  OBVIOUS
<1> USE DEF SharesInv
<1>1. /\ UNCHANGED <<made, list, found, build>> /\ queue' = <<>>
      /\ read' = NothingRead /\ reply' = NoReply /\ phase' = "greeting"
      /\ phase = "down" /\ session' = session + 1 /\ broken' = FALSE
      /\ slots' = Forgotten /\ server' = [s \in SlotId |-> Nothing]
  BY DEF StartSession, Silent
<1>2. ~ build.on
  BY <1>1 DEF BuildOK
<1>3. slots' \in [SlotId -> Slot]
      /\ \A s \in SlotId : /\ slots'[s].sjob = slots[s].sjob
                           /\ slots'[s].has_merkle = FALSE
                           /\ slots'[s].has_coinbase = {}
  BY <1>1 DEF Forgotten, TypeOK, Slot
<1>4. server' \in [SlotId -> Known] /\ \A s \in SlotId : server'[s] = Nothing
  BY <1>1, NothingTypes
<1>5. TypeOK'
  <2>1. queue' \in Seq(Share)
    BY <1>1
  <2>2. read' \in ReadType /\ reply' \in ReplyType
    BY <1>1, NothingTypes
  <2>3. session' \in Nat /\ phase' \in {"down", "greeting", "ready"}
    BY <1>1 DEF TypeOK
  <2>4. /\ made' \in Nat /\ list' \in [Address -> Job] /\ found' \in Nat
        /\ build' \in Build
    BY <1>1 DEF TypeOK
  <2>5. broken' \in BOOLEAN
    BY <1>1, Zenon
  <2>6. QED
    BY <1>3, <1>4, <2>1, <2>2, <2>3, <2>4, <2>5 DEF TypeOK, ReadType, ReplyType
<1>6. NumbersOK'
  <2>1. \A a \in Address : list[a].id # NoJob => SlotOf(list[a].id) \in SlotId
    BY Fields, SlotOfType DEF NoJob
  <2>2. \A s \in SlotId : Newest(s)' = Newest(s) /\ Newest(s) \in Nat
    BY <1>1, <1>3, Fields DEF Newest
  <2>3. \A a \in Address :
          list[a].id # NoJob => NotAfter(list[a].id, SlotOf(list[a].id))'
    BY <2>1, <2>2, <1>1 DEF NumbersOK, NotAfter
  <2>4. \A s \in SlotId : NotAfter(server[s].merkle, s)'
    BY <2>2, <1>4 DEF NotAfter, Nothing, NoJob
  <2>5. QED
    BY <2>3, <2>4, <1>1, <1>3 DEF NumbersOK, Holds, OfPlace
<1>7. SharesOK' /\ BuildOK'
  BY <1>1, <1>2 DEF SharesOK, BuildOK
<1>8. PoolOK'
  BY <1>3 DEF PoolOK, Honest
<1>9. ShareResolves' /\ AnswerNotOutdated'
  BY <1>1 DEF ShareResolves, AnswerNotOutdated, NothingRead, NoReply
<1>10. QED
  BY <1>5, <1>6, <1>7, <1>8, <1>9

(* The pool asks about a number: the answer is about a job at least as young as
   the one whose branches the pool has.                                     *)
LEMMA ValidateStep ==
  ASSUME SharesInv, NEW i \in Requests, Validate(i)
  PROVE SharesInv'
<1> USE DEF SharesInv
<1> DEFINE Good(a) ==
      /\ a \in [slot : Nat, code : Codes, job : JobId, known : JobId]
      /\ a.job # NoJob => a.known <= a.job
           n == JobAt(i).id
<1>1. UNCHANGED <<made, list, slots, queue, found, build, session, phase,
                  server>>
  BY DEF Validate
<1>2. i \in Nat
  BY SharesAssumption
<1>3. ASSUME NEW code \in Codes
      PROVE Good(Answer(i, code, NoJob))
  <2>1. (IF i \in SlotId THEN server[i].merkle ELSE NoJob) \in JobId
    BY DEF TypeOK, Known, JobId, NoJob
  <2>2. QED
    BY <2>1, <1>2 DEF Answer, JobId, NoJob
<1>4. ASSUME NEW code \in Codes, NoAnswer(i) = {}
      PROVE Good(Answer(i, code, n))
  <2>0. NumSlots \in Nat
    BY SharesAssumption
  <2>1. i \in SlotId /\ slots[i].sjob # Null
    BY <1>2, <1>4, <2>0 DEF NoAnswer, SlotId
  <2>2. n = Newest(i)
    BY <2>1 DEF Newest, JobAt
  <2>3. server[i].merkle \in Nat /\ n \in Nat /\ server[i].merkle <= n
    BY <2>1, <2>2, Fields DEF NumbersOK, NotAfter
  <2> HIDE DEF n
  <2>4. QED
    BY <2>1, <2>3, <1>2 DEF Answer, JobId
<1> HIDE DEF n
<1>5. \E a : Good(a) /\ Reply(a)
  <2>1. CASE NoAnswer(i) # {}
    <3>1. PICK a \in NoAnswer(i) : Reply(a)
      BY <2>1 DEF Validate
    <3>2. a = Answer(i, "badIndex", NoJob) \/ a = Answer(i, "noJob", NoJob)
      BY <3>1 DEF NoAnswer
    <3>3. QED
      BY <3>1, <3>2, <1>3 DEF Codes
  <2>2. CASE NoAnswer(i) = {}
    <3>1. \E code \in Codes : Reply(Answer(i, code, n))
      <4>1. CASE Reply(ShortTxnList(i))
        <5>1. \E code \in Codes : ShortTxnList(i) = Answer(i, code, n)
          BY DEF ShortTxnList, Codes, n
        <5>2. QED
          BY <4>1, <5>1
      <4>2. ASSUME NEW l \in 0..1, NEW id \in 0..1, Reply(TxnsById(i, l, id))
            PROVE \E code \in Codes : Reply(Answer(i, code, n))
        <5>1. \E code \in Codes : TxnsById(i, l, id) = Answer(i, code, n)
          BY DEF TxnsById, Codes, n
        <5>2. QED
          BY <4>2, <5>1
      <4>3. CASE Reply(WholeBlock(i))
        BY <4>3 DEF WholeBlock, Codes, n
      <4>4. QED
        BY <2>2, <4>1, <4>2, <4>3 DEF Validate
    <3>2. QED
      BY <3>1, <2>2, <1>4
  <2>3. QED
    BY <2>1, <2>2
<1>6. PICK a : Good(a) /\ Reply(a)
  BY <1>5
<1>7. /\ read' = NothingRead
      /\ broken' \in BOOLEAN /\ (broken => broken')
      /\ Good(reply')
  <2>1. Good(NoReply)
    BY NothingTypes DEF NoReply, ReplyType
  <2>2. broken \in BOOLEAN
    BY DEF TypeOK
  <2>3. CASE reply' = a /\ read' = NothingRead /\ UNCHANGED broken
    BY <1>6, <2>2, <2>3
  <2>4. CASE broken' = TRUE /\ read' = NothingRead /\ reply' = NoReply
    BY <2>1, <2>4
  <2>5. QED
    BY <1>6, <2>3, <2>4 DEF Reply, Silent
<1>8. TypeOK'
  <2>1. read' \in ReadType
    BY <1>7, NothingTypes
  <2>2. QED
    BY <1>1, <1>7, <2>1 DEF TypeOK, ReadType
<1>9. SharesOK' /\ NumbersOK'
  BY <1>1 DEF SharesOK, ShareOK, NumbersOK, NotAfter, Newest, Holds, OfPlace
<1>10. BuildOK' /\ PoolOK'
  BY <1>1, <1>7 DEF BuildOK, PoolOK, Honest, Holds, Part, OfPlace
<1>11. ShareResolves' /\ AnswerNotOutdated'
  BY <1>7 DEF ShareResolves, AnswerNotOutdated, NothingRead
<1>12. QED
  BY <1>8, <1>9, <1>10, <1>11

-----------------------------------------------------------------------------
(* The address a share is described by is one of a job that has its number. *)
LEMMA Described ==
  ASSUME SharesInv, NEW share \in Share, ShareOK(share)
  PROVE LET p == slots[share.slot]
            a == JobOfShare(share, p)
        IN /\ share.slot \in SlotId /\ share.coinbase \in CoinbaseId
           /\ p \in Slot /\ a \in Pointer /\ Holds(a, share.slot)
           /\ share.sjob # Null => OfPlace(share.job, a)
           /\ list[a].id \in Nat \ {0} /\ Part(list[a].id, a)
<1> DEFINE p == slots[share.slot]
           a == JobOfShare(share, p)
<1> USE DEF SharesInv
<1>1. share.slot \in SlotId /\ share.coinbase \in CoinbaseId
      /\ share.sjob \in Pointer
  BY DEF Share
<1>2. p \in Slot /\ p.sjob \in Pointer
  BY <1>1 DEF TypeOK, Slot
<1>3. Holds(a, share.slot) /\ (share.sjob # Null => OfPlace(share.job, a))
  BY <1>1 DEF ShareOK, JobOfShare, NumbersOK
<1> HIDE DEF a
<1>4. a \in Address /\ list[a].id \in Nat \ {0}
  BY <1>3, Fields DEF Holds, NoJob
<1>5. Part(list[a].id, a)
  BY <1>4 DEF Part, NumbersOK, NoJob
<1>6. QED
  BY <1>1, <1>2, <1>3, <1>4, <1>5 DEF a, Pointer

(* A share that needs no parts is sent, one that does waits for the write lock
   with what it has decided on (datum_protocol_pow_build_message).           *)
LEMMA BuildStep == SharesInv /\ BuildMessage => SharesInv'
<1> SUFFICES ASSUME SharesInv, BuildMessage PROVE SharesInv'
  OBVIOUS
<1> USE DEF SharesInv
<1> DEFINE share == Head(queue)
           p == slots[share.slot]
           a == JobOfShare(share, p)
           j == list[a].id
           fresh == NewToServer(p, a)
           merkle == fresh \/ ~ p.has_merkle
           cb == fresh \/ share.coinbase \notin p.has_coinbase
           old == server[share.slot]
<1>1. phase # "down" /\ queue # <<>> /\ queue' = Tail(queue)
      /\ UNCHANGED <<made, list, slots, found, session, phase>>
  BY DEF BuildMessage
<1>2. queue \in Seq(Share)
  BY DEF TypeOK
<1>3. /\ share \in Share /\ Tail(queue) \in Seq(Share) /\ share = queue[1]
      /\ 1 \in 1..Len(queue)
      /\ \A i \in 1..Len(Tail(queue)) :
           i + 1 \in 1..Len(queue) /\ Tail(queue)[i] = queue[i + 1]
  BY <1>1, <1>2, TailIn
<1>4. ShareOK(share)
  BY <1>3 DEF SharesOK
<1>5. /\ share.slot \in SlotId /\ share.coinbase \in CoinbaseId
      /\ p \in Slot /\ a \in Pointer /\ Holds(a, share.slot)
      /\ (share.sjob # Null => OfPlace(share.job, a))
      /\ j \in Nat \ {0} /\ Part(j, a)
  <2> HIDE DEF share
  <2>1. QED
    BY <1>3, <1>4, Described
<1>6. p.has_merkle \in BOOLEAN /\ p.server_sjob \in Pointer
  BY <1>5 DEF Slot
<1>7. fresh \in BOOLEAN /\ fresh = (p.server_sjob # a)
  BY DEF NewToServer
<1>8. SharesOK'
  <2>1. \A i \in 1..Len(queue') : \E n \in 1..Len(queue) : queue'[i] = queue[n]
    BY <1>1, <1>3
  <2>2. QED
    BY <2>1, <1>1, SharesKept
<1>9. CASE merkle \/ cb
  <2> DEFINE b == [on |-> TRUE, share |-> share, sjob |-> a, fresh |-> fresh,
                   merkle |-> IF merkle THEN j ELSE NoJob,
                   coinbase |-> IF merkle THEN NoJob ELSE j]
  <2>1. /\ build' = b
        /\ read' = NothingRead /\ reply' = NoReply
        /\ UNCHANGED <<broken, server>>
    BY <1>9 DEF BuildMessage, Silent
  <2>2. old.merkle \in Nat /\ server \in [SlotId -> Known]
    BY <1>5, Fields DEF TypeOK
  <2>3. phase # "down" /\ ~ broken /\ ~ merkle => old.merkle <= j
    BY <1>5, <1>7 DEF PoolOK, Honest, Part
  <2> HIDE DEF share, p, a, j, fresh, merkle, old
  <2>4. /\ b.on /\ b.share = share /\ b.sjob = a /\ b.fresh = fresh
        /\ (b.merkle # NoJob) = merkle /\ (b.coinbase # NoJob) = ~ merkle
        /\ b.merkle # NoJob => b.merkle = j
        /\ b.coinbase # NoJob => b.coinbase = j
    BY <1>5 DEF NoJob, merkle
  <2>5. b \in Build
    <3>1. merkle \in BOOLEAN
      BY DEF merkle
    <3>2. QED
      BY <3>1, <1>3, <1>5, <1>7 DEF Build, JobId, NoJob
  <2> HIDE DEF b
  <2>6. TypeOK'
    BY <1>1, <1>3, <2>1, <2>5, QuietStep DEF TypeOK
  <2>7. BuildOK'
    <3>1. merkle = (fresh \/ ~ p.has_merkle)
      BY DEF merkle
    <3>2. UNCHANGED <<list, slots, server, broken, phase>> /\ build' = b
      BY <1>1, <2>1
    <3>3. p = slots[share.slot] /\ old = server[share.slot]
      BY DEF p, old
    <3>4. /\ \A x, s : Holds(x, s)' = Holds(x, s)
          /\ \A n, x : Part(n, x)' = Part(n, x)
          /\ \A n, x : OfPlace(n, x)' = OfPlace(n, x)
      BY <3>2 DEF Holds, Part, OfPlace
    <3>5. b.share.slot \in SlotId /\ slots'[b.share.slot] = p
          /\ server'[b.share.slot] = old
      BY <1>5, <2>4, <3>2, <3>3
    <3>6. QED
      BY <1>1, <1>5, <1>7, <2>3, <2>4, <3>1, <3>2, <3>4, <3>5 DEF BuildOK
  <2>8. PoolOK'
    BY <1>1, <2>1 DEF PoolOK, Honest, Part, OfPlace
  <2>9. QED
    BY <1>1, <1>8, <2>1, <2>6, <2>7, <2>8, QuietStep
<1>10. CASE ~ (merkle \/ cb)
  <2>1. Send(share, a, NoJob, NoJob) /\ UNCHANGED build
    BY <1>10 DEF BuildMessage
  <2> DEFINE k == After(share, NoJob, NoJob)
  <2>2. /\ old \in Known /\ k \in Known /\ k.merkle = old.merkle
        /\ \A c \in CoinbaseId : k.coinbase[c] = old.coinbase[c]
    <3> HIDE DEF share
    <3>1. TypeOK /\ NoJob \in JobId
      BY DEF JobId, NoJob
    <3>2. QED
      BY <3>1, <1>3, AfterParts
  <2>3. p.server_sjob = a /\ p.has_merkle /\ share.coinbase \in p.has_coinbase
    BY <1>7, <1>10
  <2>4. NoJob \in JobId
    BY DEF JobId, NoJob
  <2> HIDE DEF k, share, p, a, j, fresh, merkle, cb, old
  <2>5. /\ reply' = NoReply /\ broken' \in BOOLEAN
        /\ \/ /\ ~ broken /\ ~ broken' /\ phase = "ready"
              /\ server' = [server EXCEPT ![share.slot] = k]
              /\ read' = [share |-> share, about |-> a,
                          merkle |-> k.merkle,
                          coinbase |-> k.coinbase[share.coinbase]]
           \/ broken' /\ server' = server /\ read' = NothingRead
    BY <1>3, <1>5, <2>1, <2>4, SendCases DEF k
  <2>6. /\ server' \in [SlotId -> Known]
        /\ read' \in ReadType /\ reply' \in ReplyType
    BY <1>3, <1>5, <2>1, <2>4, SendTypes
  <2>7. TypeOK'
    BY <1>1, <1>3, <2>1, <2>5, <2>6 DEF TypeOK, ReadType, ReplyType
  <2>8. \A s \in SlotId : /\ server'[s].merkle = server[s].merkle
                          /\ \A c \in CoinbaseId :
                               server'[s].coinbase[c] = server[s].coinbase[c]
    <3>1. server \in [SlotId -> Known]
      BY DEF TypeOK
    <3>2. QED
      BY <1>5, <2>2, <2>5, <3>1 DEF old
  <2>9. BuildOK'
    <3>1. ~ build.on
      BY DEF BuildMessage
    <3>2. QED
      BY <3>1, <2>1 DEF BuildOK
  <2>10. AnswerNotOutdated'
    BY <2>5 DEF AnswerNotOutdated, NoReply
  <2>11. NumbersOK'
    BY <1>1, <2>8 DEF NumbersOK, NotAfter, Newest, Holds, OfPlace
  <2>12. PoolOK'
    <3>1. \A s \in SlotId : slots[s].has_coinbase \subseteq CoinbaseId
      BY Fields
    <3>2. broken' \/ ~ broken
      BY <2>5
    <3>3. QED
      BY <1>1, <2>5, <2>8, <3>1, <3>2 DEF PoolOK, Honest, Part, OfPlace
  <2>13. ShareResolves'
    <3>1. CASE read' = NothingRead
      BY <3>1 DEF ShareResolves, NothingRead
    <3>2. CASE /\ ~ broken /\ phase = "ready"
               /\ read' = [share |-> share, about |-> a,
                           merkle |-> k.merkle,
                           coinbase |-> k.coinbase[share.coinbase]]
      <4>1. Honest(p, old)
        BY <1>5, <3>2 DEF PoolOK, p, old
      <4>2. p.has_coinbase \subseteq CoinbaseId
        BY <1>5 DEF Slot
      <4>3. Honest(p, k)
        BY <4>1, <4>2, <2>2 DEF Honest
      <4>4. TypeOK /\ UNCHANGED list
        BY <1>1
      <4>5. QED
        BY <4>3, <4>4, <1>3, <1>5, <2>2, <2>3, <3>2, ReadRight
    <3>3. QED
      BY <2>5, <3>1, <3>2
  <2>14. QED
    BY <1>8, <2>7, <2>9, <2>10, <2>11, <2>12, <2>13
<1>11. QED
  BY <1>9, <1>10

(* The flags after a message with the branches of mj and the coinbase of cj. *)
Flags(p, a, c, mj, cj) == Registered(p, a, c, mj # NoJob, cj # NoJob)

(* What a message adds to honest flags is honest. *)
LEMMA FinishHonest ==
  ASSUME SharesInv, build.on, ~ broken
  PROVE LET share == build.share
            p == slots[share.slot]
            q == Flags(p, build.sjob, share.coinbase, build.merkle, LastPart)
            k == After(share, build.merkle, LastPart)
        IN Honest(q, k) /\ share.coinbase \in q.has_coinbase
<1> DEFINE share == build.share
           s == share.slot
           p == slots[s]
           a == build.sjob
           mj == build.merkle
           cj == LastPart
           j == list[a].id
           old == server[s]
           q == Flags(p, a, share.coinbase, mj, cj)
           k == After(share, mj, cj)
           Sound == /\ share.coinbase \in q.has_coinbase /\ q.has_merkle
                    /\ Part(k.merkle, a)
<1> USE DEF SharesInv
<1>1. /\ share \in Share /\ a \in Pointer /\ build.fresh \in BOOLEAN
      /\ mj \in JobId /\ build.coinbase \in JobId
  BY DEF TypeOK, Build
<1>2. s \in SlotId /\ share.coinbase \in CoinbaseId
  BY <1>1 DEF Share
<1>3. /\ phase # "down" /\ Holds(a, s)
      /\ build.fresh = (p.server_sjob # a)
      /\ (mj # NoJob) = (build.fresh \/ ~ p.has_merkle)
      /\ (build.coinbase # NoJob) = (mj = NoJob)
      /\ mj # NoJob => Part(mj, a)
      /\ build.coinbase # NoJob =>
            Part(build.coinbase, a) /\ old.merkle <= build.coinbase
  BY DEF BuildOK
<1>4. j \in Nat \ {0} /\ Part(j, a)
  <2>1. a \in Address /\ j # NoJob
    BY <1>3 DEF Holds
  <2>2. j \in Nat
    BY <2>1, Fields
  <2>3. QED
    BY <2>1, <2>2 DEF NumbersOK, Part, NoJob
<1>5. p \in Slot /\ p.has_merkle \in BOOLEAN
      /\ p.has_coinbase \subseteq CoinbaseId /\ old.merkle \in Nat
      /\ \A c \in CoinbaseId : old.coinbase[c] \in Nat
  BY <1>2, Fields DEF TypeOK
<1>6. Honest(p, old)
  BY <1>2, <1>3 DEF PoolOK
<1>7. cj = IF build.coinbase # NoJob THEN build.coinbase
           ELSE IF build.fresh \/ share.coinbase \notin p.has_coinbase THEN j
           ELSE NoJob
  BY DEF LastPart
<1>8. cj \in JobId
  BY <1>1, <1>4, <1>7 DEF JobId, NoJob
<1>9. /\ q.server_sjob = a
      /\ q.has_merkle = (p.server_sjob # a \/ mj # NoJob \/ p.has_merkle)
      /\ q.has_coinbase = IF p.server_sjob # a THEN {share.coinbase}
                          ELSE IF cj # NoJob
                          THEN p.has_coinbase \cup {share.coinbase}
                          ELSE p.has_coinbase
  <2> HIDE DEF p, a, share, mj, cj
  <2>1. CASE p.server_sjob # a
    BY <2>1, <1>1, <1>2, <1>5 DEF Flags, Registered, Slot
  <2>2. CASE p.server_sjob = a
    BY <2>2, <1>1, <1>2, <1>5 DEF Flags, Registered, Slot
  <2>3. QED
    BY <2>1, <2>2
<1>10. /\ k.merkle = IF mj # NoJob THEN mj ELSE old.merkle
       /\ \A c \in CoinbaseId :
            k.coinbase[c] = IF cj # NoJob /\ c = share.coinbase THEN cj
                            ELSE old.coinbase[c]
  <2> HIDE DEF share, mj, cj
  <2>1. TypeOK
    OBVIOUS
  <2>2. QED
    BY <2>1, <1>1, <1>8, AfterParts
<1> HIDE DEF q, k, cj, mj, share, p, a, j, old, s
<1>11. cj # NoJob
  <2>1. CASE build.coinbase # NoJob
    BY <2>1, <1>7
  <2>2. CASE build.coinbase = NoJob
    <3>1. build.fresh \/ ~ p.has_merkle
      BY <2>2, <1>3
    <3>2. build.fresh \/ share.coinbase \notin p.has_coinbase
      BY <3>1, <1>6 DEF Honest
    <3>3. QED
      BY <2>2, <3>2, <1>4, <1>7 DEF NoJob
  <2>3. QED
    BY <2>1, <2>2
<1>12. Part(k.merkle, a) /\ q.has_merkle
  <2>1. CASE mj # NoJob
    BY <2>1, <1>3, <1>9, <1>10
  <2>2. CASE mj = NoJob
    <3>1. ~ build.fresh /\ p.has_merkle /\ p.server_sjob = a
      BY <2>2, <1>1, <1>3, <1>5
    <3>2. Part(old.merkle, a)
      BY <3>1, <1>6 DEF Honest
    <3>3. QED
      BY <2>2, <3>1, <3>2, <1>9, <1>10
  <2>3. QED
    BY <2>1, <2>2
<1>13. Part(cj, a) /\ k.merkle <= cj
  <2>1. CASE build.coinbase # NoJob
    BY <2>1, <1>3, <1>7, <1>10
  <2>2. CASE build.coinbase = NoJob
    <3>1. mj # NoJob /\ cj = j /\ k.merkle = mj
      BY <2>2, <1>3, <1>7, <1>10, <1>11
    <3>2. mj <= j
      BY <3>1, <1>3 DEF Part, j
    <3>3. QED
      BY <3>1, <3>2, <1>4
  <2>3. QED
    BY <2>1, <2>2
<1>14. ASSUME NEW c \in q.has_coinbase, c # share.coinbase
       PROVE Part(k.coinbase[c], a) /\ k.merkle <= k.coinbase[c]
  <2>1. p.server_sjob = a /\ c \in p.has_coinbase /\ c \in CoinbaseId
    BY <1>5, <1>9, <1>14
  <2>2. p.has_merkle /\ Part(old.coinbase[c], a) /\ old.merkle <= old.coinbase[c]
    BY <2>1, <1>6 DEF Honest
  <2>3. k.coinbase[c] = old.coinbase[c]
    BY <2>1, <1>10, <1>14
  <2>4. mj = NoJob
    BY <2>1, <2>2, <1>3
  <2>5. QED
    BY <2>2, <2>3, <2>4, <1>10
<1>15. share.coinbase \in q.has_coinbase /\ k.coinbase[share.coinbase] = cj
  BY <1>2, <1>9, <1>10, <1>11
<1>16. Honest(q, k)
  BY <1>9, <1>12, <1>13, <1>14, <1>15 DEF Honest
<1>17. QED
  BY <1>15, <1>16 DEF q, k, cj, mj, share, p, a, s

(* The message is completed under the write lock: the flags then say what the
   pool has after it.                                                       *)
LEMMA FinishStep == SharesInv /\ FinishMessage => SharesInv'
<1> SUFFICES ASSUME SharesInv, FinishMessage PROVE SharesInv'
  OBVIOUS
<1> USE DEF SharesInv
<1> DEFINE share == build.share
           s == share.slot
           p == slots[s]
           a == build.sjob
           mj == build.merkle
           cj == LastPart
           q == Flags(p, a, share.coinbase, mj, cj)
           k == After(share, mj, cj)
<1>1. /\ build.on /\ build' = NotBuilding
      /\ slots' = [slots EXCEPT ![s] = q]
      /\ Send(share, a, mj, cj)
      /\ UNCHANGED <<made, list, queue, found, session, phase>>
  BY DEF FinishMessage, Flags
<1>2. share \in Share /\ a \in Pointer /\ mj \in JobId
      /\ build.coinbase \in JobId
  BY DEF TypeOK, Build
<1>3. s \in SlotId /\ share.coinbase \in CoinbaseId
  BY <1>2 DEF Share
<1>4. p \in Slot /\ slots \in [SlotId -> Slot] /\ server \in [SlotId -> Known]
  BY <1>3 DEF TypeOK
<1>5. Holds(a, s) /\ (share.sjob # Null => OfPlace(share.job, a))
      /\ (mj # NoJob => Part(mj, a))
  BY <1>1 DEF BuildOK
<1>6. list[a].id \in Nat
  BY <1>5, Fields DEF Holds
<1>7. cj \in JobId
  BY <1>2, <1>6 DEF LastPart, JobId, NoJob
<1>8. ~ broken => Honest(q, k) /\ share.coinbase \in q.has_coinbase
  BY <1>1, FinishHonest
<1>9. k \in Known /\ k.merkle = IF mj # NoJob THEN mj ELSE server[s].merkle
  <2> HIDE DEF share, mj, cj
  <2>1. TypeOK
    OBVIOUS
  <2>2. QED
    BY <2>1, <1>2, <1>7, AfterParts DEF s
<1>10. q \in Slot /\ q.sjob = p.sjob /\ q.server_sjob = a
  <2> HIDE DEF p, a, share, mj, cj
  <2>1. CASE p.server_sjob # a
    BY <2>1, <1>2, <1>3, <1>4 DEF Flags, Registered, Slot
  <2>2. CASE p.server_sjob = a
    BY <2>2, <1>2, <1>3, <1>4 DEF Flags, Registered, Slot
  <2>3. QED
    BY <2>1, <2>2
<1>11. /\ reply' = NoReply /\ broken' \in BOOLEAN
       /\ \/ /\ ~ broken /\ ~ broken' /\ phase = "ready"
             /\ server' = [server EXCEPT ![s] = k]
             /\ read' = [share |-> share, about |-> a, merkle |-> k.merkle,
                         coinbase |-> k.coinbase[share.coinbase]]
          \/ broken' /\ server' = server /\ read' = NothingRead
  <2> HIDE DEF share, a, mj, cj
  <2>1. TypeOK
    OBVIOUS
  <2>2. QED
    BY <2>1, <1>1, <1>2, <1>7, SendCases DEF s
<1>12. /\ server' \in [SlotId -> Known]
       /\ read' \in ReadType /\ reply' \in ReplyType
  <2> HIDE DEF share, a, mj, cj
  <2>1. TypeOK
    OBVIOUS
  <2>2. QED
    BY <2>1, <1>1, <1>2, <1>7, SendTypes
<1> HIDE DEF share, a, mj, cj, q, k, p, s
<1>13. slots' \in [SlotId -> Slot]
       /\ \A t \in SlotId : slots'[t] = IF t = s THEN q ELSE slots[t]
  BY <1>1, <1>3, <1>4, <1>10
<1>14. \A t \in SlotId : slots'[t].sjob = slots[t].sjob
  BY <1>10, <1>13 DEF p
<1>15. TypeOK'
  BY <1>1, <1>11, <1>12, <1>13, NothingTypes DEF TypeOK, ReadType, ReplyType
<1>16. SharesOK'
  <2>1. \A i \in 1..Len(queue) : queue[i] \in Share
    BY DEF TypeOK
  <2>2. \A i \in 1..Len(queue) : queue[i].slot \in SlotId
    BY <2>1 DEF Share
  <2>3. QED
    BY <2>2, <1>1, <1>14 DEF SharesOK, ShareOK, Holds, OfPlace
<1>17. BuildOK'
  BY <1>1 DEF BuildOK, NotBuilding
<1>18. NumbersOK'
  <2>1. \A t \in SlotId : Newest(t)' = Newest(t) /\ Newest(t) \in Nat
    BY <1>1, <1>14, Fields DEF Newest
  <2>2. \A b \in Address : list[b].id # NoJob => SlotOf(list[b].id) \in SlotId
    BY Fields, SlotOfType DEF NoJob
  <2>3. list[a].id <= Newest(s)
    BY <1>5 DEF Holds, NumbersOK, NotAfter
  <2>4. k.merkle <= Newest(s)
    <3>1. CASE mj # NoJob
      BY <3>1, <2>1, <2>3, <1>2, <1>3, <1>5, <1>6, <1>9 DEF Part, JobId, mj
    <3>2. CASE mj = NoJob
      BY <3>2, <1>3, <1>9 DEF NumbersOK, NotAfter
    <3>3. QED
      BY <3>1, <3>2
  <2>5. \A t \in SlotId : server'[t].merkle <= Newest(t)
    BY <2>4, <1>3, <1>4, <1>11 DEF NumbersOK, NotAfter
  <2>6. QED
    BY <2>1, <2>2, <2>5, <1>1, <1>14 DEF NumbersOK, NotAfter, Holds, OfPlace
<1>19. PoolOK'
  <2>1. CASE broken'
    BY <2>1 DEF PoolOK
  <2>2. CASE /\ ~ broken /\ phase = "ready"
             /\ server' = [server EXCEPT ![s] = k]
    <3>1. ASSUME NEW t \in SlotId PROVE Honest(slots'[t], server'[t])
      <4>1. CASE t = s
        BY <4>1, <2>2, <1>4, <1>8, <1>13
      <4>2. CASE t # s
        BY <4>2, <2>2, <1>4, <1>13 DEF PoolOK
      <4>3. QED
        BY <4>1, <4>2
    <3>2. QED
      BY <3>1, <1>1 DEF PoolOK, Honest, Part, OfPlace
  <2>3. QED
    BY <2>1, <2>2, <1>11
<1>20. ShareResolves'
  <2>1. CASE read' = NothingRead
    BY <2>1 DEF ShareResolves, NothingRead
  <2>2. CASE /\ ~ broken /\ phase = "ready"
             /\ read' = [share |-> share, about |-> a, merkle |-> k.merkle,
                         coinbase |-> k.coinbase[share.coinbase]]
    <3>1. TypeOK /\ UNCHANGED list
      BY <1>1
    <3>2. QED
      BY <3>1, <2>2, <1>2, <1>5, <1>8, <1>9, <1>10, ReadRight DEF share, a
  <2>3. QED
    BY <2>1, <2>2, <1>11
<1>21. AnswerNotOutdated'
  BY <1>11 DEF AnswerNotOutdated, NoReply
<1>22. QED
  BY <1>15, <1>16, <1>17, <1>18, <1>19, <1>20, <1>21

-----------------------------------------------------------------------------
(* The invariant is kept by every step of the gateway and the pool. *)
LEMMA SharesStep == SharesInv /\ [Next]_vars => SharesInv'
<1> SUFFICES ASSUME SharesInv, [Next]_vars PROVE SharesInv'
  OBVIOUS
<1>1. CASE Next
  BY <1>1, SetupStep, SubmitStep, BuildStep, FinishStep, ValidateStep,
     StartStep, HandshakeStep, EndStep DEF Next
<1>2. CASE UNCHANGED vars
  BY <1>2 DEF vars, history, SharesInv, TypeOK, SharesOK, ShareOK, NumbersOK,
     BuildOK, PoolOK, ShareResolves, AnswerNotOutdated, NotAfter, Newest,
     Holds, Part, OfPlace, InPlace, Honest
<1>3. QED
  BY <1>1, <1>2

(* Flags, server_sjob, numbered jobs and their places, the message between its
   two locks and the pool agree in every state of the gateway.              *)
THEOREM SharesInvariant == Spec => []SharesInv
BY SharesInit, SharesStep, PTL DEF Spec

(* However long a share has waited and whoever had its number in between, the
   pool reads it with branches and a coinbase of a job made at the address of
   its own job, and with those of its own job unless one of the two was
   overwritten (datum_protocol_pow_build_message).                          *)
THEOREM ShareResolvesAlways == Spec => []ShareResolves
<1>1. SharesInv => ShareResolves
  BY DEF SharesInv
<1>2. QED
  BY <1>1, SharesInvariant, PTL

(* What the flags of datum_jobs say the pool has, it has, of a job made at the
   address server_sjob, and all of one job while that one is in its place.  *)
THEOREM FlagsHonestAlways == Spec => []FlagsHonest
<1>1. ASSUME SharesInv PROVE FlagsHonest
  <2>1. ASSUME NEW s \in SlotId, NEW c \in slots[s].has_coinbase,
               Honest(slots[s], server[s]), InPlace(server[s].merkle)
        PROVE server[s].coinbase[c] = server[s].merkle
    <3> DEFINE mj == server[s].merkle
               cj == server[s].coinbase[c]
               a == slots[s].server_sjob
    <3>1. mj \in Nat /\ cj \in Nat
      BY <1>1, Fields DEF SharesInv
    <3>2. Part(mj, a) /\ Part(cj, a) /\ mj <= cj
      BY <2>1 DEF Honest
    <3>3. list[a].id = mj
      BY <2>1, <3>2 DEF Part, OfPlace, InPlace
    <3> HIDE DEF mj, cj, a
    <3>4. cj = mj
      BY <3>1, <3>2, <3>3 DEF Part
    <3>5. QED
      BY <3>4 DEF mj, cj
  <2>2. QED
    BY <1>1, <2>1 DEF SharesInv, FlagsHonest, PoolOK, Honest, Part
<1>2. QED
  BY <1>1, SharesInvariant, PTL

(* No answer to a validation request is about a job older than the one whose
   branches the pool has (datum_protocol_job_validation_cmd).               *)
THEOREM AnswerNotOutdatedAlways == Spec => []AnswerNotOutdated
<1>1. SharesInv => AnswerNotOutdated
  BY DEF SharesInv
<1>2. QED
  BY <1>1, SharesInvariant, PTL

=============================================================================
