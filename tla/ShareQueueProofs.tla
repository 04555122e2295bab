--------------------------- MODULE ShareQueueProofs ---------------------------
(***************************************************************************)
(* Proofs about the queue of datum_queue.c for any number of producers,    *)
(* any buffer capacity and any number of items.                            *)
(***************************************************************************)
EXTENDS ShareQueue, SequenceTheorems, TLAPS

(* Every step of the queue keeps the variables in their types. *)
LEMMA TypeStep == TypeOK /\ [Next]_vars => TypeOK'
<1> SUFFICES ASSUME TypeOK, [Next]_vars PROVE TypeOK'
  OBVIOUS
<1> USE QueueAssumption DEF TypeOK, Buffers, Threads, ProducerPC, ConsumerPC,
        Goto, locks, producerVars
<1>1. ASSUME NEW p \in Producers, CallAdd(p) PROVE TypeOK'
  <2>1. calls' \in [Producers -> 0..MaxItems]
    <3>1. calls[p] \in 0..MaxItems /\ calls[p] < MaxItems
      BY <1>1 DEF CallAdd
    <3>2. \A n \in 0..MaxItems : n < MaxItems => n + 1 \in 0..MaxItems
      BY QueueAssumption
    <3>3. calls[p] + 1 \in 0..MaxItems
      BY <3>1, <3>2
    <3>4. calls' = [calls EXCEPT ![p] = calls[p] + 1]
      BY <1>1 DEF CallAdd
    <3>5. QED
      BY <3>3, <3>4
  <2>2. attempts' \in [Producers -> 0..MaxAttempts]
    <3>1. 0 \in 0..MaxAttempts
      BY QueueAssumption
    <3>2. attempts' = [attempts EXCEPT ![p] = 0]
      BY <1>1 DEF CallAdd
    <3>3. QED
      BY <3>1, <3>2
  <2>3. QED
    BY <1>1, <2>1, <2>2 DEF CallAdd
<1>2. ASSUME NEW p \in Producers, ReadActive(p) PROVE TypeOK'
  <2>0. attempts[p] + 1 \in 0..MaxAttempts
    <3>1. attempts[p] \in 0..MaxAttempts /\ attempts[p] + 1 < MaxAttempts
      BY <1>2 DEF ReadActive
    <3>2. \A n \in 0..MaxAttempts : n + 1 < MaxAttempts => n + 1 \in 0..MaxAttempts
      BY QueueAssumption
    <3>3. QED
      BY <3>1, <3>2
  <2>1. attempts' \in [Producers -> 0..MaxAttempts]
    BY <1>2, <2>0 DEF ReadActive
  <2>2. QED
    BY <1>2, <2>1 DEF ReadActive
<1>3. ASSUME NEW p \in Producers, GiveUp(p) PROVE TypeOK'
  BY <1>3 DEF GiveUp
<1>4. ASSUME NEW p \in Producers, LockBuffer(p) PROVE TypeOK'
  BY <1>4 DEF LockBuffer
<1>5. ASSUME NEW p \in Producers, RetryAdd(p) PROVE TypeOK'
  BY <1>5 DEF RetryAdd
<1>6. ASSUME NEW p \in Producers, RefuseItem(p) PROVE TypeOK'
  BY <1>6 DEF RefuseItem
<1>7. ASSUME NEW p \in Producers, StoreItem(p) PROVE TypeOK'
  <2>1. <<p, calls[p]>> \in Item
    BY DEF Item
  <2>2. seen[p].id \in Buffers
    OBVIOUS
  <2>3. buffer' \in [Buffers -> Seq(Item)]
    <3>1. buffer[seen[p].id] \in Seq(Item)
      BY <2>2
    <3>2. Append(buffer[seen[p].id], <<p, calls[p]>>) \in Seq(Item)
      BY <2>1, <3>1
    <3>3. QED
      BY <1>7, <2>2, <3>2 DEF StoreItem
  <2>4. stored' \in Seq(Item)
    BY <1>7, <2>1 DEF StoreItem
  <2>5. QED
    BY <1>7, <2>2, <2>3, <2>4 DEF StoreItem
<1>8. CASE Peek
  BY <1>8 DEF Peek
<1>9. CASE LockActive
  BY <1>9 DEF LockActive
<1>10. CASE LockDraining
  <2>1. /\ pc' = [pc EXCEPT !["consumer"] = "swap"]
        /\ buffer_lock' = [buffer_lock EXCEPT ![draining] = "consumer"]
        /\ queue_version' = [queue_version EXCEPT ![draining] =
                                queue_version[draining] + 1]
        /\ UNCHANGED <<active_buffer, active_buffer_version, buffer,
                       active_lock, producerVars, draining, done, stored,
                       handled>>
    BY <1>10 DEF LockDraining
  <2>2. queue_version[draining] + 1 \in Nat
    OBVIOUS
  <2>3. queue_version' \in [Buffers -> Nat]
    BY <2>1, <2>2
  <2>4. QED
    BY <2>1, <2>3
<1>11. CASE Swap
  <2> DEFINE b == Other(draining)
  <2>1. b \in Buffers /\ << >> \in Seq(Item)
    BY DEF Other
  <2>2. /\ buffer' = [buffer EXCEPT ![b] = << >>]
        /\ queue_version' = [queue_version EXCEPT ![b] = queue_version[b] + 1]
        /\ active_buffer_version' = queue_version[b] + 1
        /\ active_buffer' = b /\ active_lock' = NoOne /\ done' = 0
        /\ pc' = [pc EXCEPT !["consumer"] = "handle"]
        /\ UNCHANGED <<buffer_lock, producerVars, draining, stored, handled>>
    BY <1>11 DEF Swap
  <2> HIDE DEF b
  <2>3. queue_version[b] + 1 \in Nat
    BY <2>1
  <2>4. buffer' \in [Buffers -> Seq(Item)]
    BY <2>1, <2>2
  <2>5. queue_version' \in [Buffers -> Nat]
    BY <2>2, <2>3
  <2>6. pc' \in [Threads -> ProducerPC \cup ConsumerPC]
    BY <2>2
  <2>7. QED
    BY <2>1, <2>2, <2>3, <2>4, <2>5, <2>6
<1>12. CASE HandleItem
  <2>1. buffer[draining] \in Seq(Item)
    OBVIOUS
  <2>2. buffer[draining][done + 1] \in Item
    BY <1>12, <2>1 DEF HandleItem
  <2>3. handled' \in Seq(Item)
    <3>1. handled \in Seq(Item)
      OBVIOUS
    <3>2. handled' = Append(handled, buffer[draining][done + 1])
      BY <1>12 DEF HandleItem
    <3>3. QED
      BY <2>2, <3>1, <3>2
  <2>4. done' \in Nat
    <3>1. done \in Nat
      OBVIOUS
    <3>2. done' = done + 1
      BY <1>12 DEF HandleItem
    <3>3. QED
      BY <3>1, <3>2
  <2>5. QED
    BY <1>12, <2>3, <2>4 DEF HandleItem
<1>13. CASE FinishDrain
  <2>1. << >> \in Seq(Item)
    OBVIOUS
  <2>2. buffer' \in [Buffers -> Seq(Item)]
    BY <1>13, <2>1 DEF FinishDrain
  <2>3. QED
    BY <1>13, <2>2 DEF FinishDrain
<1>14. CASE UNCHANGED vars
  BY <1>14 DEF vars
<1>15. QED
  BY <1>1, <1>2, <1>3, <1>4, <1>5, <1>6, <1>7, <1>8, <1>9, <1>10, <1>11,
     <1>12, <1>13, <1>14 DEF Next, AddItem, Process

(* A lock is held exactly where the code says it is: the consumer. *)
LEMMA ConsumerStep == TypeOK /\ LockInv /\ [Next]_vars => ConsumerInv'
<1> SUFFICES ASSUME TypeOK, LockInv, [Next]_vars PROVE ConsumerInv'
  OBVIOUS
<1> USE QueueAssumption DEF TypeOK, LockInv, ConsumerInv, ProducerInv, Buffers,
        Threads, ProducerPC, ConsumerPC, Goto, locks, producerVars, Other
<1>1. ASSUME NEW p \in Producers, CallAdd(p) PROVE ConsumerInv'
  BY <1>1 DEF CallAdd
<1>2. ASSUME NEW p \in Producers, ReadActive(p) PROVE ConsumerInv'
  BY <1>2 DEF ReadActive
<1>3. ASSUME NEW p \in Producers, GiveUp(p) PROVE ConsumerInv'
  BY <1>3 DEF GiveUp
<1>4. ASSUME NEW p \in Producers, LockBuffer(p) PROVE ConsumerInv'
  BY <1>4 DEF LockBuffer
<1>5. ASSUME NEW p \in Producers, RetryAdd(p) PROVE ConsumerInv'
  BY <1>5 DEF RetryAdd
<1>6. ASSUME NEW p \in Producers, RefuseItem(p) PROVE ConsumerInv'
  BY <1>6 DEF RefuseItem
<1>7. ASSUME NEW p \in Producers, StoreItem(p) PROVE ConsumerInv'
  <2>1. /\ pc[p] = "write" /\ pc' = [pc EXCEPT ![p] = "idle"]
        /\ buffer_lock' = [buffer_lock EXCEPT ![seen[p].id] = NoOne]
        /\ UNCHANGED <<active_lock, active_buffer, draining, seen>>
    BY <1>7, Zenon DEF StoreItem
  <2>2. QED
    BY <2>1
<1>8. CASE Peek
  BY <1>8 DEF Peek
<1>9. CASE LockActive
  BY <1>9 DEF LockActive
<1>10. CASE LockDraining
  <2>1. /\ pc["consumer"] = "lockBuffer" /\ pc' = [pc EXCEPT !["consumer"] = "swap"]
        /\ buffer_lock[draining] = NoOne
        /\ buffer_lock' = [buffer_lock EXCEPT ![draining] = "consumer"]
        /\ UNCHANGED <<active_lock, active_buffer, draining, seen>>
    BY <1>10, Zenon DEF LockDraining
  <2>2. QED
    BY <2>1
<1>11. CASE Swap
  <2>1. /\ pc["consumer"] = "swap" /\ pc' = [pc EXCEPT !["consumer"] = "handle"]
        /\ active_buffer' = Other(draining) /\ active_lock' = NoOne
        /\ UNCHANGED <<buffer_lock, draining, seen>>
    BY <1>11, Zenon DEF Swap
  <2>2. QED
    BY <2>1
<1>12. CASE HandleItem
  BY <1>12 DEF HandleItem
<1>13. CASE FinishDrain
  <2>1. /\ pc["consumer"] = "handle" /\ pc' = [pc EXCEPT !["consumer"] = "idle"]
        /\ buffer_lock' = [buffer_lock EXCEPT ![draining] = NoOne]
        /\ UNCHANGED <<active_lock, active_buffer, draining, seen>>
    BY <1>13, Zenon DEF FinishDrain
  <2>2. QED
    BY <2>1
<1>14. CASE UNCHANGED vars
  BY <1>14 DEF vars
<1>15. QED
  BY <1>1, <1>2, <1>3, <1>4, <1>5, <1>6, <1>7, <1>8, <1>9, <1>10, <1>11,
     <1>12, <1>13, <1>14 DEF Next, AddItem, Process

(* A lock is held exactly where the code says it is: the producers. *)
LEMMA ProducerStep == TypeOK /\ LockInv /\ [Next]_vars => ProducerInv'
<1> SUFFICES ASSUME TypeOK, LockInv, [Next]_vars PROVE ProducerInv'
  OBVIOUS
<1> USE QueueAssumption DEF TypeOK, LockInv, ConsumerInv, ProducerInv, Buffers,
        Threads, ProducerPC, ConsumerPC, Goto, locks, producerVars, Other
<1>1. ASSUME NEW p \in Producers, CallAdd(p) PROVE ProducerInv'
  BY <1>1 DEF CallAdd
<1>2. ASSUME NEW p \in Producers, ReadActive(p) PROVE ProducerInv'
  BY <1>2 DEF ReadActive
<1>3. ASSUME NEW p \in Producers, GiveUp(p) PROVE ProducerInv'
  BY <1>3 DEF GiveUp
<1>4. ASSUME NEW p \in Producers, LockBuffer(p) PROVE ProducerInv'
  BY <1>4 DEF LockBuffer
<1>5. ASSUME NEW p \in Producers, RetryAdd(p) PROVE ProducerInv'
  BY <1>5 DEF RetryAdd
<1>6. ASSUME NEW p \in Producers, RefuseItem(p) PROVE ProducerInv'
  BY <1>6 DEF RefuseItem
<1>7. ASSUME NEW p \in Producers, StoreItem(p) PROVE ProducerInv'
  <2>1. /\ pc[p] = "write" /\ pc' = [pc EXCEPT ![p] = "idle"]
        /\ buffer_lock' = [buffer_lock EXCEPT ![seen[p].id] = NoOne]
        /\ UNCHANGED <<active_lock, active_buffer, draining, seen>>
    BY <1>7, Zenon DEF StoreItem
  <2>2. QED
    BY <2>1
<1>8. CASE Peek
  BY <1>8 DEF Peek
<1>9. CASE LockActive
  BY <1>9 DEF LockActive
<1>10. CASE LockDraining
  <2>1. /\ pc["consumer"] = "lockBuffer" /\ pc' = [pc EXCEPT !["consumer"] = "swap"]
        /\ buffer_lock[draining] = NoOne
        /\ buffer_lock' = [buffer_lock EXCEPT ![draining] = "consumer"]
        /\ UNCHANGED <<active_lock, active_buffer, draining, seen>>
    BY <1>10, Zenon DEF LockDraining
  <2>2. ASSUME NEW q \in Producers PROVE pc'[q] = pc[q] /\ q # NoOne
    BY <2>1
  <2>3. ASSUME NEW q \in Producers, pc[q] = "write"
        PROVE  buffer_lock'[seen[q].id] = q
    <3>1. buffer_lock[seen[q].id] = q /\ seen[q].id \in Buffers
      BY <2>3
    <3>2. seen[q].id # draining
      BY <2>1, <2>2, <3>1
    <3>3. QED
      BY <2>1, <3>1, <3>2
  <2>4. QED
    BY <2>1, <2>2, <2>3
<1>11. CASE Swap
  <2>1. /\ pc["consumer"] = "swap" /\ pc' = [pc EXCEPT !["consumer"] = "handle"]
        /\ active_buffer' = Other(draining) /\ active_lock' = NoOne
        /\ UNCHANGED <<buffer_lock, draining, seen>>
    BY <1>11, Zenon DEF Swap
  <2>2. QED
    BY <2>1
<1>12. CASE HandleItem
  BY <1>12 DEF HandleItem
<1>13. CASE FinishDrain
  <2>1. /\ pc["consumer"] = "handle" /\ pc' = [pc EXCEPT !["consumer"] = "idle"]
        /\ buffer_lock' = [buffer_lock EXCEPT ![draining] = NoOne]
        /\ UNCHANGED <<active_lock, active_buffer, draining, seen>>
    BY <1>13, Zenon DEF FinishDrain
  <2>2. QED
    BY <2>1
<1>14. CASE UNCHANGED vars
  BY <1>14 DEF vars
<1>15. QED
  BY <1>1, <1>2, <1>3, <1>4, <1>5, <1>6, <1>7, <1>8, <1>9, <1>10, <1>11,
     <1>12, <1>13, <1>14 DEF Next, AddItem, Process

(* What the cases below need of the versions and of the consumer. *)
LEMMA VersionFacts ==
  ASSUME TypeOK, LockInv, VersionInv, pc["consumer"] \in {"lockBuffer", "swap"}
  PROVE  /\ draining = active_buffer /\ active_buffer \in {0, 1}
         /\ Other(draining) \in {0, 1} /\ Other(draining) # draining
         /\ \A b \in {0, 1} : queue_version[b] \in Nat
         /\ \A q \in Producers : /\ pc[q] \in ProducerPC /\ q # "consumer"
                                /\ seen[q].id \in {0, 1}
                                /\ seen[q].version \in Nat
<1>1. draining = active_buffer /\ active_buffer \in {0, 1}
  BY DEF TypeOK, LockInv, ConsumerInv, Buffers
<1>2. Other(draining) \in {0, 1} /\ Other(draining) # draining
  BY <1>1 DEF Other
<1>3. \A b \in {0, 1} : queue_version[b] \in Nat
  BY DEF TypeOK, Buffers
<1>4. \A q \in Producers : pc[q] \in ProducerPC /\ q # "consumer"
  BY QueueAssumption DEF LockInv, ProducerInv
<1>5. \A q \in Producers : seen[q].id \in {0, 1} /\ seen[q].version \in Nat
  BY DEF TypeOK, Buffers
<1>6. QED
  BY <1>1, <1>2, <1>3, <1>4, <1>5

(* Locking the buffer outdates what was read of it. *)
LEMMA VersionLocked ==
  ASSUME TypeOK, LockInv, VersionInv, LockDraining
  PROVE  VersionInv'
<1>1. /\ pc["consumer"] = "lockBuffer" /\ pc' = [pc EXCEPT !["consumer"] = "swap"]
      /\ queue_version' = [queue_version EXCEPT ![draining] =
                              queue_version[draining] + 1]
      /\ UNCHANGED <<active_buffer, active_buffer_version, seen>>
  BY DEF LockDraining, Goto, producerVars
<1>2. /\ draining = active_buffer /\ active_buffer \in {0, 1}
      /\ \A b \in {0, 1} : queue_version[b] \in Nat
      /\ \A q \in Producers : /\ q # "consumer" /\ seen[q].id \in {0, 1}
                             /\ seen[q].version \in Nat
  BY <1>1, VersionFacts
<1>3. /\ queue_version[active_buffer] = active_buffer_version
      /\ active_buffer_version \in Nat
  BY <1>1 DEF VersionInv, TypeOK
<1>4. /\ pc'["consumer"] = "swap"
      /\ \A q \in Producers : pc'[q] = pc[q]
  BY <1>1, <1>2 DEF TypeOK, Threads
<1>5. \A b \in {0, 1} : queue_version'[b] =
                           queue_version[b] + (IF b = draining THEN 1 ELSE 0)
  BY <1>1, <1>2 DEF TypeOK, Buffers
<1>6. queue_version'[active_buffer'] = active_buffer_version' + 1
  BY <1>1, <1>2, <1>3, <1>5
<1>7. ASSUME NEW q \in Producers, pc'[q] \in {"lock", "write"}
      PROVE  /\ seen'[q].version <= queue_version'[seen'[q].id]
             /\ seen'[q].version < queue_version'[seen'[q].id]
  <2> DEFINE b == seen[q].id
             v == seen[q].version
  <2>1. b \in {0, 1} /\ v \in Nat /\ seen' = seen /\ queue_version[b] \in Nat
    BY <1>1, <1>2
  <2>2. v <= queue_version[b] /\ (b = Other(active_buffer) => v < queue_version[b])
    BY <1>4, <1>7 DEF VersionInv
  <2> HIDE DEF b, v
  <2>3. b # draining => b = Other(active_buffer)
    BY <1>2, <2>1 DEF Other
  <2>4. v < queue_version'[b] /\ v <= queue_version'[b]
    BY <1>5, <2>1, <2>2, <2>3
  <2>5. QED
    BY <2>1, <2>4 DEF b, v
<1>8. QED
  BY <1>4, <1>6, <1>7 DEF VersionInv

(* The swap outdates what was read of the other buffer. *)
LEMMA VersionSwapped ==
  ASSUME TypeOK, LockInv, VersionInv, Swap
  PROVE  VersionInv'
<1> DEFINE o == Other(draining)
<1>1. /\ pc["consumer"] = "swap" /\ pc' = [pc EXCEPT !["consumer"] = "handle"]
      /\ active_buffer' = o /\ UNCHANGED seen
      /\ active_buffer_version' = queue_version[o] + 1
      /\ queue_version' = [queue_version EXCEPT ![o] = queue_version[o] + 1]
  BY DEF Swap, Goto, producerVars
<1>2. /\ o \in {0, 1} /\ \A b \in {0, 1} : queue_version[b] \in Nat
      /\ \A q \in Producers : /\ q # "consumer" /\ seen[q].id \in {0, 1}
                             /\ seen[q].version \in Nat
  BY <1>1, VersionFacts
<1> HIDE DEF o
<1>3. /\ pc'["consumer"] = "handle"
      /\ \A q \in Producers : pc'[q] = pc[q]
  BY <1>1, <1>2 DEF TypeOK, Threads
<1>4. \A b \in {0, 1} : queue_version'[b] =
                           queue_version[b] + (IF b = o THEN 1 ELSE 0)
  BY <1>1, <1>2 DEF TypeOK, Buffers
<1>5. queue_version'[active_buffer'] = active_buffer_version' + 0
  BY <1>1, <1>2, <1>4
<1>6. ASSUME NEW q \in Producers, pc'[q] \in {"lock", "write"}
      PROVE  /\ seen'[q].version <= queue_version'[seen'[q].id]
             /\ seen'[q].version < queue_version'[seen'[q].id]
  <2> DEFINE b == seen[q].id
             v == seen[q].version
  <2>1. b \in {0, 1} /\ v \in Nat /\ seen' = seen /\ queue_version[b] \in Nat
    BY <1>1, <1>2
  <2>2. v < queue_version[b]
    BY <1>1, <1>3, <1>6 DEF VersionInv
  <2> HIDE DEF b, v
  <2>3. v < queue_version'[b] /\ v <= queue_version'[b]
    BY <1>4, <2>1, <2>2
  <2>4. QED
    BY <2>1, <2>3 DEF b, v
<1>7. QED
  BY <1>3, <1>5, <1>6 DEF VersionInv

(* Versions only grow, and a swap outdates every version read before. *)
LEMMA VersionStep == TypeOK /\ LockInv /\ VersionInv /\ [Next]_vars => VersionInv'
<1> SUFFICES ASSUME TypeOK, LockInv, VersionInv, [Next]_vars PROVE VersionInv'
  OBVIOUS
<1> USE QueueAssumption DEF TypeOK, LockInv, ConsumerInv, ProducerInv, VersionInv,
        Buffers, Threads, ProducerPC, ConsumerPC, Goto, locks, producerVars, Other
<1>1. ASSUME NEW p \in Producers, CallAdd(p) PROVE VersionInv'
  BY <1>1 DEF CallAdd
<1>2. ASSUME NEW p \in Producers, ReadActive(p) PROVE VersionInv'
  <2>1. /\ seen' = [seen EXCEPT ![p] = [id |-> active_buffer,
                                       version |-> active_buffer_version]]
        /\ pc' = [pc EXCEPT ![p] = "lock"] /\ p # "consumer"
        /\ UNCHANGED <<queue_version, active_buffer, active_buffer_version>>
    BY <1>2 DEF ReadActive
  <2>2. pc["consumer"] # "swap" /\ pc'["consumer"] = pc["consumer"]
    BY <1>2, <2>1 DEF ReadActive
  <2>3. ASSUME NEW q \in Producers, pc'[q] \in {"lock", "write"}
        PROVE  /\ seen'[q].version <= queue_version[seen'[q].id]
               /\ seen'[q].id = Other(active_buffer)
                    => seen'[q].version < queue_version[seen'[q].id]
    <3>1. CASE q = p
      BY <2>1, <2>2, <3>1
    <3>2. CASE q # p
      BY <2>1, <2>2, <2>3, <3>2
    <3>3. QED
      BY <3>1, <3>2
  <2>4. QED
    BY <2>1, <2>2, <2>3
<1>3. ASSUME NEW p \in Producers, GiveUp(p) PROVE VersionInv'
  BY <1>3 DEF GiveUp
<1>4. ASSUME NEW p \in Producers, LockBuffer(p) PROVE VersionInv'
  BY <1>4 DEF LockBuffer
<1>5. ASSUME NEW p \in Producers, RetryAdd(p) PROVE VersionInv'
  BY <1>5 DEF RetryAdd
<1>6. ASSUME NEW p \in Producers, RefuseItem(p) PROVE VersionInv'
  BY <1>6 DEF RefuseItem
<1>7. ASSUME NEW p \in Producers, StoreItem(p) PROVE VersionInv'
  <2>1. /\ pc' = [pc EXCEPT ![p] = "idle"] /\ p # "consumer"
        /\ UNCHANGED <<queue_version, active_buffer, active_buffer_version, seen>>
    BY <1>7 DEF StoreItem
  <2>2. QED
    BY <2>1
<1>8. CASE Peek
  BY <1>8 DEF Peek
<1>9. CASE LockActive
  BY <1>9 DEF LockActive
<1>10. CASE LockDraining
  BY <1>10, VersionLocked
<1>11. CASE Swap
  BY <1>11, VersionSwapped
<1>12. CASE HandleItem
  BY <1>12 DEF HandleItem
<1>13. CASE FinishDrain
  BY <1>13 DEF FinishDrain
<1>14. CASE UNCHANGED vars
  BY <1>14 DEF vars
<1>15. QED
  BY <1>1, <1>2, <1>3, <1>4, <1>5, <1>6, <1>7, <1>8, <1>9, <1>10, <1>11,
     <1>12, <1>13, <1>14 DEF Next, AddItem, Process

(* The position of a waiting item of the draining buffer among the stored. *)
LEMMA PositionDraining ==
  ASSUME NEW s \in Nat, NEW h \in Nat, NEW a \in Nat, NEW d \in Nat,
         NEW n \in Nat, s + n = h + a + d,
         NEW j \in 1..d, NEW k \in 1..(s + 1), k + n = h + j
  PROVE  k \in 1..s
OBVIOUS


(* No step loses, repeats or reorders an item. *)
LEMMA OrderStep == TypeOK /\ LockInv /\ VersionInv /\ OrderInv /\ [Next]_vars => OrderInv'
<1> SUFFICES ASSUME TypeOK, LockInv, VersionInv, OrderInv, [Next]_vars PROVE OrderInv'
  OBVIOUS
<1> USE QueueAssumption
<1>1. ASSUME NEW p \in Producers, CallAdd(p) PROVE OrderInv'
  <2>1. /\ pc'["consumer"] = pc["consumer"]
        /\ UNCHANGED <<buffer, active_buffer, draining, done, stored, handled>>
    BY <1>1 DEF CallAdd, Goto, TypeOK, Threads
  <2>2. ContentInv'
    BY <2>1 DEF OrderInv, ContentInv, Draining
  <2>3. HandledInOrder'
    BY <2>1 DEF OrderInv, HandledInOrder
  <2>4. NothingLost'
    BY <2>1 DEF OrderInv, NothingLost, Draining
  <2>5. QED
    BY <2>2, <2>3, <2>4 DEF OrderInv
<1>2. ASSUME NEW p \in Producers, ReadActive(p) PROVE OrderInv'
  <2>1. /\ pc'["consumer"] = pc["consumer"]
        /\ UNCHANGED <<buffer, active_buffer, draining, done, stored, handled>>
    BY <1>2 DEF ReadActive, Goto, TypeOK, Threads
  <2>2. ContentInv'
    BY <2>1 DEF OrderInv, ContentInv, Draining
  <2>3. HandledInOrder'
    BY <2>1 DEF OrderInv, HandledInOrder
  <2>4. NothingLost'
    BY <2>1 DEF OrderInv, NothingLost, Draining
  <2>5. QED
    BY <2>2, <2>3, <2>4 DEF OrderInv
<1>3. ASSUME NEW p \in Producers, GiveUp(p) PROVE OrderInv'
  <2>1. /\ pc'["consumer"] = pc["consumer"]
        /\ UNCHANGED <<buffer, active_buffer, draining, done, stored, handled>>
    BY <1>3 DEF GiveUp, Goto, TypeOK, Threads
  <2>2. ContentInv'
    BY <2>1 DEF OrderInv, ContentInv, Draining
  <2>3. HandledInOrder'
    BY <2>1 DEF OrderInv, HandledInOrder
  <2>4. NothingLost'
    BY <2>1 DEF OrderInv, NothingLost, Draining
  <2>5. QED
    BY <2>2, <2>3, <2>4 DEF OrderInv
<1>4. ASSUME NEW p \in Producers, LockBuffer(p) PROVE OrderInv'
  <2>1. /\ pc'["consumer"] = pc["consumer"]
        /\ UNCHANGED <<buffer, active_buffer, draining, done, stored, handled>>
    BY <1>4 DEF LockBuffer, Goto, TypeOK, Threads
  <2>2. ContentInv'
    BY <2>1 DEF OrderInv, ContentInv, Draining
  <2>3. HandledInOrder'
    BY <2>1 DEF OrderInv, HandledInOrder
  <2>4. NothingLost'
    BY <2>1 DEF OrderInv, NothingLost, Draining
  <2>5. QED
    BY <2>2, <2>3, <2>4 DEF OrderInv
<1>5. ASSUME NEW p \in Producers, RetryAdd(p) PROVE OrderInv'
  <2>1. /\ pc'["consumer"] = pc["consumer"]
        /\ UNCHANGED <<buffer, active_buffer, draining, done, stored, handled>>
    BY <1>5 DEF RetryAdd, Goto, TypeOK, Threads
  <2>2. ContentInv'
    BY <2>1 DEF OrderInv, ContentInv, Draining
  <2>3. HandledInOrder'
    BY <2>1 DEF OrderInv, HandledInOrder
  <2>4. NothingLost'
    BY <2>1 DEF OrderInv, NothingLost, Draining
  <2>5. QED
    BY <2>2, <2>3, <2>4 DEF OrderInv
<1>6. ASSUME NEW p \in Producers, RefuseItem(p) PROVE OrderInv'
  <2>1. /\ pc'["consumer"] = pc["consumer"]
        /\ UNCHANGED <<buffer, active_buffer, draining, done, stored, handled>>
    BY <1>6 DEF RefuseItem, Goto, TypeOK, Threads
  <2>2. ContentInv'
    BY <2>1 DEF OrderInv, ContentInv, Draining
  <2>3. HandledInOrder'
    BY <2>1 DEF OrderInv, HandledInOrder
  <2>4. NothingLost'
    BY <2>1 DEF OrderInv, NothingLost, Draining
  <2>5. QED
    BY <2>2, <2>3, <2>4 DEF OrderInv
<1>7. ASSUME NEW p \in Producers, StoreItem(p) PROVE OrderInv'
  <2> DEFINE a == active_buffer
             x == <<p, calls[p]>>
  <2>1. seen[p].id = a /\ pc["consumer"] # "swap"
    <3>1. /\ pc[p] \in {"lock", "write"} /\ seen[p].id \in Buffers
          /\ seen[p].version = queue_version[seen[p].id]
          /\ seen[p].version \in Nat /\ active_buffer \in Buffers
      BY <1>7 DEF StoreItem, IsCurrent, Goto, TypeOK
    <3>2. ~ (seen[p].id = Other(active_buffer) \/ pc["consumer"] = "swap")
      BY <3>1 DEF VersionInv
    <3>3. QED
      BY <3>1, <3>2 DEF Buffers, Other
  <2>2. /\ buffer' = [buffer EXCEPT ![a] = Append(@, x)]
        /\ stored' = Append(stored, x)
        /\ UNCHANGED <<active_buffer, draining, done, handled>>
        /\ pc'["consumer"] = pc["consumer"]
    BY <1>7, <2>1 DEF StoreItem, Goto, TypeOK, Threads
  <2>3. x \in Item
    BY DEF Item, TypeOK
  <2>4. /\ buffer[a] \in Seq(Item) /\ a \in Buffers /\ draining \in Buffers
        /\ buffer[draining] \in Seq(Item)
        /\ stored \in Seq(Item) /\ handled \in Seq(Item) /\ done \in Nat
    BY DEF TypeOK
  <2>5. /\ buffer'[a] = Append(buffer[a], x)
        /\ Draining => a # draining /\ buffer'[draining] = buffer[draining]
        /\ Draining' <=> Draining
    <3>1. buffer'[a] = Append(buffer[a], x)
      BY <2>2, <2>4 DEF TypeOK
    <3>2. Draining' <=> Draining
      BY <2>2 DEF Draining
    <3>3. Draining => a # draining
      BY <2>4 DEF LockInv, ConsumerInv, Draining, Other, Buffers
    <3>4. a # draining => buffer'[draining] = buffer[draining]
      BY <2>2, <2>4 DEF TypeOK
    <3>5. QED
      BY <3>1, <3>2, <3>3, <3>4
  <2>6. /\ Len(buffer'[a]) = Len(buffer[a]) + 1
        /\ buffer'[a][Len(buffer[a]) + 1] = x
        /\ \A j \in 1..Len(buffer[a]) : buffer'[a][j] = buffer[a][j]
        /\ Len(stored') = Len(stored) + 1
        /\ stored'[Len(stored) + 1] = x
        /\ \A j \in 1..Len(stored) : stored'[j] = stored[j]
    BY <2>2, <2>3, <2>4, <2>5
  <2>61. /\ Len(buffer'[a]) = Len(buffer[a]) + 1 /\ Len(stored') = Len(stored) + 1
    BY <2>6
  <2>62. /\ Len(stored) \in Nat /\ Len(handled) \in Nat /\ Len(buffer[a]) \in Nat
         /\ Len(buffer[draining]) \in Nat /\ done \in Nat
    BY <2>4
  <2> DEFINE S == Len(stored)
             H == Len(handled)
             A == Len(buffer[a])
             D == Len(buffer[draining])
  <2>63. S \in Nat /\ H \in Nat /\ A \in Nat /\ D \in Nat /\ done \in Nat
    BY <2>62
  <2>7. NothingLost' /\ Len(stored) >= Len(handled) + Len(buffer[a])
    <3>2. CASE Draining
      <4>1. /\ Len(stored) + done = Len(handled) + Len(buffer[a])
                                      + Len(buffer[draining])
            /\ done <= Len(buffer[draining])
        BY <3>2 DEF OrderInv, ContentInv, NothingLost
      <4>11. (S + 1) + done = H + (A + 1) + D /\ S >= H + A
        <5>1. S + done = H + A + D /\ done <= D
          BY <4>1
        <5> HIDE DEF S, H, A, D
        <5>2. QED
          BY <2>63, <5>1
      <4>2. Len(stored') + done = Len(handled) + Len(buffer'[a])
                                    + Len(buffer[draining])
        BY <2>61, <4>11 DEF S, H, A, D
      <4>3. Len(stored) >= Len(handled) + Len(buffer[a])
        BY <4>11
      <4>4. QED
        BY <2>2, <2>5, <3>2, <4>2, <4>3 DEF NothingLost
    <3>3. CASE ~ Draining
      <4>1. Len(stored) = Len(handled) + Len(buffer[a])
        BY <3>3 DEF OrderInv, NothingLost
      <4>2. Len(stored') = Len(handled) + Len(buffer'[a])
        BY <2>61, <2>62, <4>1
      <4>3. Len(stored) >= Len(handled) + Len(buffer[a])
        BY <2>62, <4>1
      <4>4. QED
        BY <2>2, <2>5, <3>3, <4>2, <4>3 DEF NothingLost
    <3>4. QED
      BY <3>2, <3>3
  <2>8. HandledInOrder'
    BY <2>2, <2>4, <2>6 DEF HandledInOrder, OrderInv
  <2>9. ASSUME NEW j \in 1..Len(buffer'[a]), NEW k \in 1..Len(stored'),
               k + Len(buffer'[a]) = Len(stored') + j
        PROVE  buffer'[a][j] = stored'[k]
    <3>1. /\ j \in 1..(Len(buffer[a]) + 1) /\ k \in 1..(Len(stored) + 1)
          /\ k + (Len(buffer[a]) + 1) = (Len(stored) + 1) + j
      BY <2>61, <2>9
    <3>11. /\ j = Len(buffer[a]) + 1 => k = Len(stored) + 1
           /\ j \in 1..Len(buffer[a]) \/ j = Len(buffer[a]) + 1
           /\ j \in 1..Len(buffer[a]) => /\ k \in 1..Len(stored)
                                        /\ k + Len(buffer[a]) = Len(stored) + j
      <4>1. j \in 1..(A + 1) /\ k \in 1..(S + 1) /\ k + (A + 1) = (S + 1) + j
        BY <3>1
      <4>2. /\ j = A + 1 => k = S + 1
            /\ j \in 1..A \/ j = A + 1
            /\ j \in 1..A => k \in 1..S /\ k + A = S + j
        <5> HIDE DEF S, A
        <5>1. QED
          BY <2>63, <4>1
      <4>3. QED
        BY <4>2
    <3>2. CASE j = Len(buffer[a]) + 1
      <4>1. k = Len(stored) + 1
        BY <3>11, <3>2
      <4>2. QED
        BY <2>6, <3>2, <4>1
    <3>3. CASE j \in 1..Len(buffer[a])
      <4>1. k \in 1..Len(stored) /\ k + Len(buffer[a]) = Len(stored) + j
        BY <3>11, <3>3
      <4>2. buffer[a][j] = stored[k]
        BY <3>3, <4>1 DEF OrderInv, ContentInv
      <4>3. QED
        BY <2>6, <3>3, <4>1, <4>2
    <3>4. j \in 1..Len(buffer[a]) \/ j = Len(buffer[a]) + 1
      BY <3>11
    <3>5. QED
      BY <3>2, <3>3, <3>4
  <2>10. ASSUME Draining, NEW j \in 1..Len(buffer[draining]), j > done,
                NEW k \in 1..Len(stored'), k + done = Len(handled) + j
         PROVE  buffer[draining][j] = stored'[k]
    <3>1. Len(stored) + done = Len(handled) + Len(buffer[a]) + Len(buffer[draining])
      BY <2>10 DEF OrderInv, NothingLost
    <3>2. k \in 1..Len(stored)
      <4>1. k \in 1..(Len(stored) + 1) /\ k + done = Len(handled) + j
        BY <2>61, <2>10
      <4>2. QED
        BY <2>62, <2>10, <3>1, <4>1, PositionDraining
    <3>3. QED
      BY <2>6, <2>10, <3>2 DEF OrderInv, ContentInv
  <2>11. ContentInv'
    <3>1. Draining' => done' <= Len(buffer'[draining'])
      BY <2>2, <2>5 DEF OrderInv, ContentInv
    <3>2. \A j \in 1..Len(buffer'[active_buffer']), k \in 1..Len(stored') :
            k + Len(buffer'[active_buffer']) = Len(stored') + j
              => buffer'[active_buffer'][j] = stored'[k]
      <4>1. \A j \in 1..Len(buffer'[a]), k \in 1..Len(stored') :
              k + Len(buffer'[a]) = Len(stored') + j
                => buffer'[a][j] = stored'[k]
        BY <2>9
      <4>2. active_buffer' = a
        BY <2>2
      <4>3. QED
        BY <4>1, <4>2
    <3>3. Draining' =>
            \A j \in 1..Len(buffer'[draining']), k \in 1..Len(stored') :
              j > done' /\ k + done' = Len(handled') + j
                => buffer'[draining'][j] = stored'[k]
      <4>1. /\ done' = done /\ handled' = handled /\ draining' = draining
            /\ Draining' => Draining /\ buffer'[draining] = buffer[draining]
        BY <2>2, <2>5
      <4>2. Draining =>
              \A j \in 1..Len(buffer[draining]), k \in 1..Len(stored') :
                j > done /\ k + done = Len(handled) + j
                  => buffer[draining][j] = stored'[k]
        BY <2>10
      <4>3. QED
        BY <4>1, <4>2
    <3>4. QED
      BY <3>1, <3>2, <3>3 DEF ContentInv
  <2>12. QED
    BY <2>7, <2>8, <2>11 DEF OrderInv
<1>8. CASE Peek
  <2>1. /\ pc["consumer"] # "handle" /\ pc'["consumer"] # "handle"
        /\ UNCHANGED <<buffer, active_buffer, stored, handled>>
    BY <1>8 DEF Peek, Goto, TypeOK, Threads
  <2>2. ContentInv'
    BY <2>1 DEF OrderInv, ContentInv, Draining
  <2>3. HandledInOrder'
    BY <2>1 DEF OrderInv, HandledInOrder
  <2>4. NothingLost'
    BY <2>1 DEF OrderInv, NothingLost, Draining
  <2>5. QED
    BY <2>2, <2>3, <2>4 DEF OrderInv
<1>9. CASE LockActive
  <2>1. /\ pc["consumer"] # "handle" /\ pc'["consumer"] # "handle"
        /\ UNCHANGED <<buffer, active_buffer, stored, handled>>
    BY <1>9 DEF LockActive, Goto, TypeOK, Threads
  <2>2. ContentInv'
    BY <2>1 DEF OrderInv, ContentInv, Draining
  <2>3. HandledInOrder'
    BY <2>1 DEF OrderInv, HandledInOrder
  <2>4. NothingLost'
    BY <2>1 DEF OrderInv, NothingLost, Draining
  <2>5. QED
    BY <2>2, <2>3, <2>4 DEF OrderInv
<1>10. CASE LockDraining
  <2>1. /\ pc["consumer"] # "handle" /\ pc'["consumer"] # "handle"
        /\ UNCHANGED <<buffer, active_buffer, stored, handled>>
    BY <1>10 DEF LockDraining, Goto, TypeOK, Threads
  <2>2. ContentInv'
    BY <2>1 DEF OrderInv, ContentInv, Draining
  <2>3. HandledInOrder'
    BY <2>1 DEF OrderInv, HandledInOrder
  <2>4. NothingLost'
    BY <2>1 DEF OrderInv, NothingLost, Draining
  <2>5. QED
    BY <2>2, <2>3, <2>4 DEF OrderInv
<1>11. CASE Swap
  <2> DEFINE off == Other(draining)
  <2>1. /\ off \in Buffers /\ off # draining /\ draining = active_buffer
        /\ pc["consumer"] = "swap" /\ pc'["consumer"] = "handle"
        /\ active_buffer' = off
        /\ buffer' = [buffer EXCEPT ![off] = << >>]
        /\ done' = 0
        /\ UNCHANGED <<draining, stored, handled>>
    BY <1>11 DEF Swap, Goto, TypeOK, LockInv, ConsumerInv, Threads, Other, Buffers
  <2>2. /\ buffer'[off] = << >> /\ Len(buffer'[off]) = 0
        /\ buffer'[draining] = buffer[draining]
        /\ Draining' /\ ~ Draining
    BY <2>1 DEF TypeOK, Draining
  <2>3. /\ buffer[draining] \in Seq(Item) /\ Len(buffer[draining]) \in Nat
        /\ stored \in Seq(Item) /\ handled \in Seq(Item)
        /\ Len(stored) \in Nat /\ Len(handled) \in Nat
    BY DEF TypeOK
  <2>4. Len(stored) = Len(handled) + Len(buffer[draining])
    BY <2>1, <2>2, <2>3 DEF OrderInv, NothingLost
  <2>5. NothingLost' /\ HandledInOrder'
    <3>1. Len(stored) + 0 = Len(handled) + 0 + Len(buffer[draining])
      BY <2>3, <2>4
    <3>2. NothingLost'
      BY <2>1, <2>2, <3>1 DEF NothingLost
    <3>3. HandledInOrder'
      BY <2>1 DEF OrderInv, HandledInOrder
    <3>4. QED
      BY <3>2, <3>3
  <2>6. ASSUME NEW j \in 1..Len(buffer[draining]), NEW k \in 1..Len(stored),
               k + 0 = Len(handled) + j
        PROVE  buffer[draining][j] = stored[k]
    <3>1. k + Len(buffer[draining]) = Len(stored) + j
      BY <2>3, <2>4, <2>6
    <3>2. QED
      BY <2>1, <3>1 DEF OrderInv, ContentInv
  <2>7. ContentInv'
    <3>1. \A j \in 1..Len(buffer'[active_buffer']) : FALSE
      BY <2>1, <2>2
    <3>2. 0 <= Len(buffer'[draining])
      BY <2>2, <2>3
    <3>3. QED
      BY <2>1, <2>2, <2>6, <3>1, <3>2 DEF ContentInv
  <2>8. QED
    BY <2>5, <2>7 DEF OrderInv
<1>12. CASE HandleItem
  <2> DEFINE x == buffer[draining][done + 1]
  <2>1. /\ Draining /\ Draining' /\ done < Len(buffer[draining])
        /\ handled' = Append(handled, x)
        /\ done' = done + 1
        /\ UNCHANGED <<buffer, draining, active_buffer, stored>>
    BY <1>12 DEF HandleItem, Draining
  <2>2. /\ buffer[draining] \in Seq(Item) /\ Len(buffer[draining]) \in Nat
        /\ buffer[active_buffer] \in Seq(Item) /\ Len(buffer[active_buffer]) \in Nat
        /\ stored \in Seq(Item) /\ handled \in Seq(Item)
        /\ Len(stored) \in Nat /\ Len(handled) \in Nat /\ done \in Nat
    BY DEF TypeOK
  <2>3. x \in Item
    BY <2>1, <2>2
  <2>4. /\ Len(handled') = Len(handled) + 1
        /\ handled'[Len(handled) + 1] = x
        /\ \A j \in 1..Len(handled) : handled'[j] = handled[j]
    BY <2>1, <2>2, <2>3
  <2>5. Len(stored) + done = Len(handled) + Len(buffer[active_buffer])
                               + Len(buffer[draining])
    BY <2>1 DEF OrderInv, NothingLost
  <2>51. Len(handled') = Len(handled) + 1
    BY <2>4
  <2> DEFINE S == Len(stored)
             H == Len(handled)
             A == Len(buffer[active_buffer])
             D == Len(buffer[draining])
  <2>52. /\ S \in Nat /\ H \in Nat /\ A \in Nat /\ D \in Nat /\ done \in Nat
         /\ S + done = H + A + D /\ done < D
    BY <2>1, <2>2, <2>5
  <2>53. /\ S + (done + 1) = (H + 1) + A + D
         /\ done + 1 \in 1..D /\ done + 1 > done /\ done + 1 <= D
         /\ H + 1 \in 1..S /\ H + 1 <= S /\ (H + 1) + done = H + (done + 1)
    <3> HIDE DEF S, H, A, D
    <3>1. QED
      BY <2>52
  <2>6. NothingLost'
    <3>11. Len(stored) + (done + 1) = (Len(handled) + 1) + Len(buffer[active_buffer])
                                        + Len(buffer[draining])
      BY <2>53
    <3>1. Len(stored) + done' = Len(handled') + Len(buffer[active_buffer])
                                  + Len(buffer[draining])
      BY <2>1, <2>51, <3>11
    <3>2. QED
      BY <2>1, <3>1 DEF NothingLost
  <2>7. Len(handled) + 1 <= Len(stored) /\ x = stored[Len(handled) + 1]
    <3>1. /\ done + 1 \in 1..Len(buffer[draining]) /\ done + 1 > done
          /\ Len(handled) + 1 \in 1..Len(stored)
          /\ (Len(handled) + 1) + done = Len(handled) + (done + 1)
          /\ Len(handled) + 1 <= Len(stored)
      BY <2>53
    <3>2. x = stored[Len(handled) + 1]
      BY <2>1, <3>1 DEF OrderInv, ContentInv
    <3>3. QED
      BY <2>2, <3>1, <3>2
  <2>8. HandledInOrder'
    <3>1. ASSUME NEW i \in 1..Len(handled') PROVE handled'[i] = stored[i]
      <4>1. i \in 1..Len(handled) \/ i = Len(handled) + 1
        BY <2>2, <2>51
      <4>2. QED
        BY <2>4, <2>7, <4>1 DEF OrderInv, HandledInOrder
    <3>2. Len(handled') <= Len(stored)
      BY <2>51, <2>7
    <3>3. QED
      BY <2>1, <3>1, <3>2 DEF HandledInOrder
  <2>9. ASSUME NEW j \in 1..Len(buffer[draining]), j > done + 1,
               NEW k \in 1..Len(stored), k + (done + 1) = Len(handled') + j
        PROVE  buffer[draining][j] = stored[k]
    <3>1. j > done /\ k + done = Len(handled) + j
      <4>1. k + (done + 1) = (Len(handled) + 1) + j
        BY <2>51, <2>9
      <4>2. j \in Nat /\ k \in Nat
        BY <2>2
      <4>3. QED
        <5>1. k + (done + 1) = (H + 1) + j /\ j > done + 1
          BY <2>9, <4>1
        <5>2. j > done /\ k + done = H + j
          <6> HIDE DEF H
          <6>1. QED
            BY <2>52, <4>2, <5>1
        <5>3. QED
          BY <5>2
    <3>2. QED
      BY <2>1, <2>9, <3>1 DEF OrderInv, ContentInv
  <2>10. done + 1 <= Len(buffer[draining])
    BY <2>1, <2>2
  <2>11. ContentInv'
    BY <2>1, <2>9, <2>10 DEF OrderInv, ContentInv
  <2>12. QED
    BY <2>6, <2>8, <2>11 DEF OrderInv
<1>13. CASE FinishDrain
  <2>1. /\ Draining /\ ~ Draining' /\ done = Len(buffer[draining])
        /\ buffer' = [buffer EXCEPT ![draining] = << >>]
        /\ UNCHANGED <<active_buffer, stored, handled>>
    BY <1>13 DEF FinishDrain, Draining, Goto, TypeOK, Threads
  <2>2. /\ draining # active_buffer
        /\ buffer'[active_buffer] = buffer[active_buffer]
    BY <2>1 DEF TypeOK, LockInv, ConsumerInv, Draining, Buffers, Other
  <2>3. /\ Len(buffer[draining]) \in Nat /\ Len(buffer[active_buffer]) \in Nat
        /\ Len(stored) \in Nat /\ Len(handled) \in Nat
    BY DEF TypeOK
  <2>4. Len(stored) = Len(handled) + Len(buffer[active_buffer])
    <3>1. Len(stored) + Len(buffer[draining])
            = Len(handled) + Len(buffer[active_buffer]) + Len(buffer[draining])
      BY <2>1 DEF OrderInv, NothingLost
    <3> DEFINE S == Len(stored)
               H == Len(handled)
               A == Len(buffer[active_buffer])
               D == Len(buffer[draining])
    <3>2. /\ S + D = H + A + D
          /\ S \in Nat /\ H \in Nat /\ A \in Nat /\ D \in Nat
      BY <2>3, <3>1
    <3>3. S = H + A
      <4> HIDE DEF S, H, A, D
      <4>1. QED
        BY <3>2
    <3>4. QED
      BY <3>3
  <2>5. NothingLost' /\ HandledInOrder'
    BY <2>1, <2>2, <2>4 DEF OrderInv, NothingLost, HandledInOrder
  <2>6. ContentInv'
    BY <2>1, <2>2 DEF OrderInv, ContentInv
  <2>7. QED
    BY <2>5, <2>6 DEF OrderInv
<1>14. CASE UNCHANGED vars
  <2>1. UNCHANGED <<buffer, active_buffer, draining, done, stored, handled, pc>>
    BY <1>14 DEF vars
  <2>2. ContentInv'
    BY <2>1 DEF OrderInv, ContentInv, Draining
  <2>3. HandledInOrder'
    BY <2>1 DEF OrderInv, HandledInOrder
  <2>4. NothingLost'
    BY <2>1 DEF OrderInv, NothingLost, Draining
  <2>5. QED
    BY <2>2, <2>3, <2>4 DEF OrderInv
<1>15. QED
  BY <1>1, <1>2, <1>3, <1>4, <1>5, <1>6, <1>7, <1>8, <1>9, <1>10, <1>11,
     <1>12, <1>13, <1>14 DEF Next, AddItem, Process

(* QueueInv is an invariant of the queue, whatever the number of producers. *)
THEOREM QueueInvariant == Spec => []QueueInv
<1>1. Init => QueueInv
  <2> SUFFICES ASSUME Init PROVE QueueInv
    OBVIOUS
  <2>1. << >> \in Seq(Item) /\ Len(<< >>) = 0
    OBVIOUS
  <2>2. TypeOK
    BY <2>1, QueueAssumption DEF Init, TypeOK, Buffers, Threads, ProducerPC
  <2>3. LockInv
    BY QueueAssumption DEF Init, LockInv, ConsumerInv, ProducerInv, Threads,
       Buffers, ProducerPC, ConsumerPC
  <2>4. VersionInv
    BY DEF Init, VersionInv, Buffers, Threads
  <2>5. OrderInv
    BY <2>1 DEF Init, OrderInv, ContentInv, HandledInOrder, NothingLost,
       Draining, Buffers, Threads
  <2>6. QED
    BY <2>2, <2>3, <2>4, <2>5 DEF QueueInv
<1>2. QueueInv /\ [Next]_vars => QueueInv'
  BY TypeStep, ConsumerStep, ProducerStep, VersionStep, OrderStep
     DEF QueueInv, LockInv
<1>3. QED
  BY <1>1, <1>2, PTL DEF Spec

(* datum_queue_process hands the handler the accepted items, once each and
   in the order of acceptance.                                              *)
THEOREM HandledInOrderAlways == Spec => []HandledInOrder
<1>1. QueueInv => HandledInOrder
  BY DEF QueueInv, OrderInv
<1>2. QED
  BY <1>1, QueueInvariant, PTL

(* No item for which datum_queue_add_item returned 0 is ever lost. *)
THEOREM NothingLostAlways == Spec => []NothingLost
<1>1. QueueInv => NothingLost
  BY DEF QueueInv, OrderInv
<1>2. QED
  BY <1>1, QueueInvariant, PTL

(* The version check keeps producers off the buffer being drained. *)
THEOREM WritersUseActiveAlways == Spec => []WritersUseActive
<1>1. QueueInv => WritersUseActive
  <2> SUFFICES ASSUME QueueInv, NEW p \in Producers, pc[p] = "write", IsCurrent(p)
               PROVE  /\ seen[p].id = active_buffer
                      /\ ~ (Draining /\ seen[p].id = draining)
    BY DEF WritersUseActive
  <2>1. seen[p].id \in Buffers /\ active_buffer \in Buffers
    BY DEF QueueInv, TypeOK
  <2>2. seen[p].version = queue_version[seen[p].id] /\ seen[p].version \in Nat
    BY DEF IsCurrent, QueueInv, TypeOK
  <2>3. seen[p].id = active_buffer
    BY <2>1, <2>2 DEF QueueInv, VersionInv, Buffers, Other
  <2>4. QED
    BY <2>1, <2>3 DEF QueueInv, LockInv, ConsumerInv, Draining, Buffers, Other
<1>2. QED
  BY <1>1, QueueInvariant, PTL

-----------------------------------------------------------------------------
(* The queue as a FIFO of twice the capacity of a buffer                   *)

(* An element put behind the second of two sequences is behind both. *)
LEMMA AppendToBoth ==
  ASSUME NEW S, NEW s \in Seq(S), NEW t \in Seq(S), NEW x \in S
  PROVE  s \o Append(t, x) = Append(s \o t, x)
<1>1. Append(t, x) = t \o <<x>> /\ <<x>> \in Seq(S)
  BY AppendIsConcat
<1>2. s \o t \in Seq(S)
  BY ConcatProperties
<1>3. Append(s \o t, x) = (s \o t) \o <<x>>
  BY <1>2, AppendIsConcat
<1>4. (s \o t) \o <<x>> = s \o (t \o <<x>>)
  BY <1>1, ConcatAssociative
<1>5. QED
  BY <1>1, <1>3, <1>4

(* The first of what is left of two sequences after d elements. *)
LEMMA TakeFirst ==
  ASSUME NEW S, NEW s \in Seq(S), NEW t \in Seq(S), NEW d \in Nat, d < Len(s)
  PROVE  LET q == SubSeq(s, d + 1, Len(s)) \o t
         IN  /\ q # << >>
             /\ Head(q) = s[d + 1]
             /\ Tail(q) = SubSeq(s, d + 2, Len(s)) \o t
<1> DEFINE k == Len(s) - d
           n == Len(t)
           u == SubSeq(s, d + 1, Len(s))
           v == SubSeq(s, d + 2, Len(s))
           q == u \o t
           r == v \o t
<1>1. Len(s) \in Nat /\ k \in Nat \ {0} /\ n \in Nat
  OBVIOUS
<1>2. u \in Seq(S) /\ Len(u) = k /\ \A i \in 1..k : u[i] = s[d + i]
  <2>1. \A i \in d + 1..Len(s) : s[i] \in S
    BY <1>1
  <2>2. d + 1 \in Int /\ Len(s) \in Int
    BY <1>1
  <2>3. /\ u \in Seq(S)
        /\ Len(u) = IF d + 1 <= Len(s) THEN Len(s) - (d + 1) + 1 ELSE 0
        /\ \A i \in 1..Len(s) - (d + 1) + 1 : u[i] = s[d + 1 + i - 1]
    BY <2>1, <2>2, SubSeqProperties
  <2> HIDE DEF u
  <2>4. QED
    BY <1>1, <2>3
<1>3. v \in Seq(S) /\ Len(v) = k - 1 /\ \A i \in 1..k - 1 : v[i] = s[d + 1 + i]
  <2>1. \A i \in d + 2..Len(s) : s[i] \in S
    BY <1>1
  <2>2. d + 2 \in Int /\ Len(s) \in Int
    BY <1>1
  <2>3. /\ v \in Seq(S)
        /\ Len(v) = IF d + 2 <= Len(s) THEN Len(s) - (d + 2) + 1 ELSE 0
        /\ \A i \in 1..Len(s) - (d + 2) + 1 : v[i] = s[d + 2 + i - 1]
    BY <2>1, <2>2, SubSeqProperties
  <2> HIDE DEF v
  <2>4. QED
    BY <1>1, <2>3
<1> HIDE DEF u, v
<1>4. /\ q \in Seq(S) /\ Len(q) = Len(u) + n
      /\ \A i \in 1..Len(u) + n :
           q[i] = IF i <= Len(u) THEN u[i] ELSE t[i - Len(u)]
  BY <1>2, ConcatProperties
<1>5. /\ r \in Seq(S) /\ Len(r) = Len(v) + n
      /\ \A i \in 1..Len(v) + n :
           r[i] = IF i <= Len(v) THEN v[i] ELSE t[i - Len(v)]
  BY <1>3, ConcatProperties
<1> HIDE DEF k, n, q, r
<1>6. Len(q) = k + n /\ Len(r) = Len(q) - 1 /\ Len(q) \in Nat \ {0}
  <2>1. Len(q) = k + n /\ Len(r) = k - 1 + n
    BY <1>2, <1>3, <1>4, <1>5
  <2>2. QED
    BY <1>1, <2>1
<1>7. q # << >> /\ Head(q) = q[1]
  BY <1>4, <1>6
<1>8. q[1] = s[d + 1]
  <2>1. 1 \in 1..Len(u) + n /\ 1 <= Len(u) /\ 1 \in 1..k
    BY <1>1, <1>2
  <2>2. q[1] = u[1] /\ u[1] = s[d + 1]
    BY <1>2, <1>4, <2>1
  <2>3. QED
    BY <2>2
<1>9. /\ Tail(q) \in Seq(S) /\ Len(Tail(q)) = Len(q) - 1
      /\ \A i \in 1..Len(q) - 1 : Tail(q)[i] = q[i + 1]
  BY <1>4, <1>6, <1>7
<1>10. ASSUME NEW i \in 1..Len(r) PROVE q[i + 1] = r[i]
  <2>1. i \in Nat /\ i \in 1..Len(v) + n /\ i + 1 \in 1..Len(u) + n
    BY <1>1, <1>2, <1>3, <1>5, <1>6
  <2>2. CASE i <= Len(v)
    <3>1. q[i + 1] = u[i + 1] /\ r[i] = v[i]
      BY <1>1, <1>2, <1>3, <1>4, <1>5, <2>1, <2>2
    <3>2. i \in 1..k - 1 /\ i + 1 \in 1..k
      BY <1>1, <1>3, <2>1, <2>2
    <3>3. u[i + 1] = s[d + (i + 1)] /\ v[i] = s[d + 1 + i]
      BY <1>2, <1>3, <3>2
    <3>4. d + (i + 1) = d + 1 + i
      BY <2>1
    <3>5. QED
      BY <3>1, <3>3, <3>4
  <2>3. CASE ~ (i <= Len(v))
    <3>1. q[i + 1] = t[i + 1 - Len(u)] /\ r[i] = t[i - Len(v)]
      <4>1. Len(u) = k /\ Len(v) = k - 1 /\ k \in Int /\ i \in Int
        BY <1>1, <1>2, <1>3, <2>1
      <4>2. ~ (i + 1 <= Len(u))
        BY <2>3, <4>1
      <4>3. q[i + 1] = t[i + 1 - Len(u)]
        BY <1>4, <2>1, <4>2
      <4>4. r[i] = t[i - Len(v)]
        BY <1>5, <2>1, <2>3
      <4>5. QED
        BY <4>3, <4>4
    <3>2. i + 1 - Len(u) = i - Len(v)
      <4>1. Len(u) = k /\ Len(v) = k - 1 /\ k \in Int /\ i \in Int
        BY <1>1, <1>2, <1>3, <2>1
      <4>2. QED
        BY <4>1
    <3>3. QED
      BY <3>1, <3>2
  <2>4. QED
    BY <2>2, <2>3
<1>11. Tail(q) = r
  <2>1. Len(Tail(q)) = Len(r)
    BY <1>6, <1>9
  <2>2. \A i \in 1..Len(Tail(q)) : Tail(q)[i] = r[i]
    BY <1>6, <1>9, <1>10
  <2>3. QED
    BY <2>1, <2>2, <1>5, <1>9, SeqEqual
<1>12. QED
  BY <1>7, <1>8, <1>11 DEF q, r, u, v

(* datum_queue_add_item refuses an item when the buffer is full. *)
BoundInv == \A b \in Buffers : Len(buffer[b]) <= MaxEntries

(* No buffer outgrows max_entries. *)
LEMMA BoundStep ==
  ASSUME TypeOK, BoundInv, [Next]_vars
  PROVE  BoundInv'
<1> USE QueueAssumption DEF BoundInv, TypeOK, Buffers
<1>0. \A b \in Buffers : Len(buffer[b]) \in Nat
  OBVIOUS
<1>1. ASSUME NEW p \in Producers, StoreItem(p) PROVE BoundInv'
  <2>1. seen[p].id \in Buffers /\ <<p, calls[p]>> \in Item
    BY DEF Item
  <2>2. /\ buffer' = [buffer EXCEPT ![seen[p].id] =
                        Append(buffer[seen[p].id], <<p, calls[p]>>)]
        /\ Len(buffer[seen[p].id]) < MaxEntries
    BY <1>1 DEF StoreItem
  <2>3. Len(Append(buffer[seen[p].id], <<p, calls[p]>>))
          = Len(buffer[seen[p].id]) + 1
    BY <2>1
  <2>4. Len(buffer[seen[p].id]) + 1 <= MaxEntries
    BY <1>0, <2>1, <2>2
  <2>5. ASSUME NEW b \in Buffers PROVE Len(buffer'[b]) <= MaxEntries
    <3>1. CASE b = seen[p].id
      BY <2>1, <2>2, <2>3, <2>4, <3>1
    <3>2. CASE b # seen[p].id
      BY <2>1, <2>2, <3>2
    <3>3. QED
      BY <3>1, <3>2
  <2>6. QED
    BY <2>5
<1>2. ASSUME Swap \/ FinishDrain PROVE BoundInv'
  <2>1. PICK b \in Buffers : buffer' = [buffer EXCEPT ![b] = << >>]
    BY <1>2 DEF Swap, FinishDrain, Other
  <2>2. Len(<< >>) = 0
    OBVIOUS
  <2>3. QED
    BY <2>1, <2>2
<1>3. ASSUME UNCHANGED buffer PROVE BoundInv'
  BY <1>3
<1>4. ASSUME NEW p \in Producers, AddItem(p), ~ StoreItem(p)
      PROVE  UNCHANGED buffer
  BY <1>4 DEF AddItem, CallAdd, ReadActive, GiveUp, LockBuffer, RetryAdd,
              RefuseItem
<1>5. ASSUME Process, ~ (Swap \/ FinishDrain) PROVE UNCHANGED buffer
  BY <1>5 DEF Process, Peek, LockActive, LockDraining, HandleItem
<1>6. ASSUME UNCHANGED vars PROVE UNCHANGED buffer
  BY <1>6 DEF vars
<1>7. QED
  BY <1>1, <1>2, <1>3, <1>4, <1>5, <1>6 DEF Next

(* What datum_queue_process has still to hand over, oldest first. *)
Undrained ==
  IF Draining THEN SubSeq(buffer[draining], done + 1, Len(buffer[draining]))
  ELSE << >>

(* Both parts of what is waiting are sequences of items. *)
LEMMA PendingParts ==
  ASSUME QueueInv
  PROVE  /\ Undrained \in Seq(Item)
         /\ active_buffer \in Buffers /\ draining \in Buffers
         /\ buffer[active_buffer] \in Seq(Item)
         /\ buffer[draining] \in Seq(Item)
         /\ Draining => draining # active_buffer
         /\ Draining => done \in 0..Len(buffer[draining])
<1> USE DEF QueueInv, TypeOK
<1>1. buffer[draining] \in Seq(Item)
  OBVIOUS
<1>2. Draining => done \in 0..Len(buffer[draining])
  BY <1>1 DEF OrderInv, ContentInv
<1>3. Undrained \in Seq(Item)
  <2>1. CASE Draining
    <3>1. \A i \in done + 1..Len(buffer[draining]) : buffer[draining][i] \in Item
      BY <1>1
    <3>2. QED
      BY <2>1, <3>1, <1>1, <1>2, SubSeqProperties DEF Undrained
  <2>2. QED
    BY <2>1 DEF Undrained
<1>4. Draining => draining # active_buffer
  BY DEF LockInv, ConsumerInv, Draining, Other, Buffers
<1>5. QED
  BY <1>1, <1>2, <1>3, <1>4

(* An item that is stored joins the end of the queue. *)
LEMMA StoreAccepts ==
  ASSUME QueueInv, WritersUseActive, BoundInv, NEW p \in Producers, StoreItem(p)
  PROVE  Fifo!Accept(<<p, calls[p]>>)
<1> DEFINE item == <<p, calls[p]>>
           active == buffer[active_buffer]
<1>1. item \in Item
  BY DEF QueueInv, TypeOK, Item
<1>2. seen[p].id = active_buffer /\ Len(active) < MaxEntries
  BY DEF StoreItem, WritersUseActive, Goto
<1>3. UNCHANGED <<active_buffer, draining, done, handled, Draining>>
  <2>1. p # "consumer" /\ pc' = [pc EXCEPT ![p] = "idle"]
    BY QueueAssumption DEF StoreItem, Goto
  <2>2. QED
    BY <2>1 DEF StoreItem, Draining, QueueInv, TypeOK, Threads
<1>4. buffer' = [buffer EXCEPT ![active_buffer] = Append(active, item)]
  BY <1>2 DEF StoreItem
<1>5. Undrained' = Undrained /\ buffer'[active_buffer] = Append(active, item)
  <2>1. /\ active_buffer \in Buffers /\ draining \in Buffers
        /\ Draining => draining # active_buffer
    BY PendingParts
  <2>2. /\ buffer \in [Buffers -> Seq(Item)]
        /\ UNCHANGED <<draining, done, Draining>>
    BY <1>3 DEF QueueInv, TypeOK
  <2> HIDE DEF active, item
  <2>3. /\ buffer'[active_buffer] = Append(active, item)
        /\ Draining => buffer'[draining] = buffer[draining]
    BY <1>4, <2>1, <2>2
  <2>4. Undrained' = Undrained
    BY <2>2, <2>3 DEF Undrained
  <2>5. QED
    BY <2>3, <2>4
<1>6. Undrained \o Append(active, item) = Append(Undrained \o active, item)
  <2>1. Undrained \in Seq(Item) /\ active \in Seq(Item)
    BY PendingParts
  <2> HIDE DEF active, item
  <2>2. QED
    BY <1>1, <2>1, AppendToBoth
<1>7. Pending = Undrained \o active
  BY DEF Pending, Undrained
<1>8. Pending' = Undrained' \o buffer'[active_buffer]
  BY <1>3 DEF Pending, Undrained
<1>9. Len(Pending) < 2 * MaxEntries
  <2>1. Len(Pending) = Len(Undrained) + Len(active)
    BY <1>7, PendingParts, ConcatProperties
  <2>2. Len(Undrained) <= MaxEntries
    <3>1. CASE Draining
      <4>1. \A i \in done + 1..Len(buffer[draining]) :
              buffer[draining][i] \in Item
        BY <3>1, PendingParts
      <4>2. Len(Undrained) = IF done + 1 <= Len(buffer[draining])
                             THEN Len(buffer[draining]) - (done + 1) + 1 ELSE 0
        BY <3>1, <4>1, PendingParts, SubSeqProperties DEF Undrained
      <4>3. Len(buffer[draining]) <= MaxEntries
        BY PendingParts DEF BoundInv
      <4>4. QED
        BY <3>1, <4>2, <4>3, PendingParts, QueueAssumption
    <3>2. CASE ~ Draining
      BY <3>2, QueueAssumption DEF Undrained
    <3>3. QED
      BY <3>1, <3>2
  <2>3. Len(Undrained) \in Nat /\ Len(active) \in Nat
    BY PendingParts
  <2>4. QED
    BY <1>2, <2>1, <2>2, <2>3, QueueAssumption
<1>10. QED
  BY <1>3, <1>5, <1>6, <1>7, <1>8, <1>9 DEF Fifo!Accept

(* An item that is handled leaves the front of it. *)
LEMMA HandleDelivers ==
  ASSUME QueueInv, HandleItem
  PROVE  Fifo!Deliver
<1> DEFINE drained == buffer[draining]
           active == buffer[active_buffer]
           rest == SubSeq(drained, done + 2, Len(drained)) \o active
<1>1. Draining /\ Draining' /\ done < Len(drained) /\ done \in Nat
  BY DEF HandleItem, Draining, QueueInv, TypeOK
<1>2. drained \in Seq(Item) /\ active \in Seq(Item)
  BY PendingParts
<1>3. Pending = SubSeq(drained, done + 1, Len(drained)) \o active
  BY <1>1 DEF Pending
<1>4. /\ Pending # << >> /\ Head(Pending) = drained[done + 1]
      /\ Tail(Pending) = rest
  <2> HIDE DEF drained, active
  <2>1. QED
    BY <1>1, <1>2, <1>3, TakeFirst
<1>5. Pending' = rest
  <2>1. UNCHANGED <<buffer, draining, active_buffer>> /\ done' = done + 1
    BY DEF HandleItem
  <2>2. done' + 1 = done + 2
    BY <2>1, <1>1
  <2>3. QED
    BY <1>1, <2>1, <2>2 DEF Pending
<1>6. handled' = Append(handled, drained[done + 1])
  BY DEF HandleItem
<1>7. QED
  BY <1>4, <1>5, <1>6 DEF Fifo!Deliver

(* The swap of the buffers moves what is waiting from one side to the other. *)
LEMMA SwapKeepsPending ==
  ASSUME QueueInv, Swap
  PROVE  UNCHANGED <<Pending, handled>>
<1> DEFINE active == buffer[active_buffer]
<1>1. /\ ~ Draining /\ Draining' /\ draining = active_buffer
      /\ draining' = draining /\ active_buffer' = Other(draining)
      /\ done' = 0 /\ handled' = handled
      /\ buffer' = [buffer EXCEPT ![Other(draining)] = << >>]
  BY DEF Swap, Draining, Goto, QueueInv, LockInv, ConsumerInv, TypeOK, Threads
<1>2. /\ Other(draining) \in Buffers /\ Other(draining) # draining
      /\ draining \in Buffers
  BY PendingParts DEF Other, Buffers
<1>3. buffer'[draining'] = active /\ buffer'[active_buffer'] = << >>
  BY <1>1, <1>2 DEF QueueInv, TypeOK
<1>4. Pending = active
  <2>1. << >> \o active = active
    BY PendingParts, ConcatEmptySeq
  <2>2. QED
    BY <1>1, <2>1 DEF Pending
<1>5. Pending' = SubSeq(active, 1, Len(active)) \o << >>
  <2>1. done' + 1 = 1
    BY <1>1
  <2>2. Pending' = SubSeq(buffer'[draining'], 1, Len(buffer'[draining']))
                     \o buffer'[active_buffer']
    BY <1>1, <2>1 DEF Pending
  <2>3. QED
    BY <1>3, <2>2
<1>6. SubSeq(active, 1, Len(active)) \o << >> = active
  BY PendingParts, SubSeqFull, ConcatEmptySeq
<1>7. QED
  BY <1>1, <1>4, <1>5, <1>6

(* The drained buffer is emptied when nothing in it is waiting any more. *)
LEMMA FinishKeepsPending ==
  ASSUME QueueInv, FinishDrain
  PROVE  UNCHANGED <<Pending, handled>>
<1> DEFINE drained == buffer[draining]
           active == buffer[active_buffer]
<1>1. /\ Draining /\ ~ Draining' /\ done = Len(drained)
      /\ active_buffer' = active_buffer /\ handled' = handled
      /\ buffer' = [buffer EXCEPT ![draining] = << >>]
  BY DEF FinishDrain, Draining, Goto, QueueInv, TypeOK, Threads
<1>2. buffer'[active_buffer'] = active
  BY <1>1, PendingParts DEF QueueInv, TypeOK
<1>3. SubSeq(drained, done + 1, Len(drained)) = << >>
  BY <1>1, PendingParts, SubSeqEmpty
<1>4. QED
  BY <1>1, <1>2, <1>3 DEF Pending

(* Every step of the queue stores, hands over or leaves alone what waits. *)
LEMMA FifoStep ==
  ASSUME QueueInv, WritersUseActive, BoundInv, [Next]_vars
  PROVE  [Fifo!Next]_<<Pending, handled>>
<1> DEFINE Rests == UNCHANGED <<Pending, handled>>
<1>1. ASSUME NEW p \in Producers, StoreItem(p) PROVE Fifo!Next
  <2>1. <<p, calls[p]>> \in Item
    BY DEF QueueInv, TypeOK, Item
  <2>2. QED
    BY <1>1, <2>1, StoreAccepts DEF Fifo!Next
<1>2. ASSUME HandleItem PROVE Fifo!Next
  BY <1>2, HandleDelivers DEF Fifo!Next
<1>3. ASSUME Swap \/ FinishDrain PROVE Rests
  BY <1>3, SwapKeepsPending, FinishKeepsPending
<1>4. ASSUME UNCHANGED <<buffer, active_buffer, draining, done, handled,
                         Draining>>
      PROVE  Rests
  BY <1>4 DEF Pending
<1>5. ASSUME NEW p \in Producers, AddItem(p), ~ StoreItem(p) PROVE Rests
  <2>1. p # "consumer"
    BY QueueAssumption
  <2>2. \E to \in ProducerPC : pc' = [pc EXCEPT ![p] = to]
    BY <1>5 DEF AddItem, CallAdd, ReadActive, GiveUp, LockBuffer, RetryAdd,
                RefuseItem, Goto, ProducerPC
  <2>3. UNCHANGED Draining
    BY <2>1, <2>2 DEF Draining, QueueInv, TypeOK, Threads
  <2>4. UNCHANGED <<buffer, active_buffer, draining, done, handled>>
    BY <1>5 DEF AddItem, CallAdd, ReadActive, GiveUp, LockBuffer, RetryAdd,
                RefuseItem
  <2>5. QED
    BY <1>4, <2>3, <2>4
<1>6. ASSUME LockActive \/ LockDraining PROVE Rests
  <2>1. UNCHANGED <<buffer, active_buffer, draining, done, handled>>
    BY <1>6 DEF LockActive, LockDraining
  <2>2. ~ Draining /\ ~ Draining'
    BY <1>6 DEF LockActive, LockDraining, Goto, Draining, QueueInv, TypeOK,
                Threads
  <2>3. QED
    BY <2>1, <2>2 DEF Pending
<1>7. ASSUME Peek PROVE Rests
  <2>1. ~ Draining /\ ~ Draining'
    BY <1>7 DEF Peek, Goto, Draining, QueueInv, TypeOK, Threads
  <2>2. UNCHANGED <<buffer, active_buffer, handled>>
    BY <1>7 DEF Peek
  <2>3. QED
    BY <2>1, <2>2 DEF Pending
<1>8. ASSUME UNCHANGED vars PROVE Rests
  BY <1>8, <1>4 DEF vars, Draining
<1>9. Fifo!Next \/ Rests
  BY <1>1, <1>2, <1>3, <1>5, <1>6, <1>7, <1>8 DEF Next, Process
<1>10. QED
  BY <1>9

(* The queue of datum_queue.c is a FIFO that holds at most two buffers full:
   locks, versions and swaps reorder, lose and repeat nothing, and a refused
   item changes nothing, for any number of producers and any capacity.  (That
   what is waiting is delivered in the end is liveness and stays with the
   run.)                                                                     *)
THEOREM QueueIsFifo == Spec => Fifo!Spec
<1>1. Init => Fifo!Init /\ BoundInv
  <2> SUFFICES ASSUME Init PROVE Fifo!Init /\ BoundInv
    OBVIOUS
  <2>1. << >> \o << >> = << >> /\ Len(<< >>) = 0
    OBVIOUS
  <2>2. ~ Draining /\ buffer[active_buffer] = << >> /\ handled = << >>
    BY DEF Init, Draining, Buffers, Threads
  <2>3. QED
    BY <2>1, <2>2, QueueAssumption DEF Init, Fifo!Init, Pending, BoundInv
<1>2. QueueInv /\ BoundInv /\ [Next]_vars => BoundInv'
  BY BoundStep DEF QueueInv
<1>3. QueueInv /\ WritersUseActive /\ BoundInv /\ [Next]_vars
        => [Fifo!Next]_(Fifo!fifoVars)
  BY FifoStep DEF Fifo!fifoVars
<1>4. QED
  BY <1>1, <1>2, <1>3, QueueInvariant, WritersUseActiveAlways, PTL
     DEF Spec, Fifo!Spec
=============================================================================
