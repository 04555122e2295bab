------------------------------ MODULE ShareQueue ------------------------------
(***************************************************************************)
(* The double-buffered work queue of datum_queue.c.                        *)
(*                                                                         *)
(* Any number of threads call datum_queue_add_item; one thread calls       *)
(* datum_queue_process.  Two buffers exist.  Producers write to the        *)
(* active one; the consumer makes the other one active and then hands the  *)
(* items of the first to the handler while it still holds that buffer's    *)
(* write lock.  A producer learns which buffer is active under one lock    *)
(* and writes under another, so between the two the consumer may swap; a   *)
(* version number per buffer is how the producer notices.                  *)
(*                                                                         *)
(* A critical section that only touches what its lock protects is one      *)
(* step.  Taking a lock that is kept across steps is a step of its own.    *)
(***************************************************************************)
EXTENDS Integers, Sequences

CONSTANTS
  Producers,     \* threads that call datum_queue_add_item
  NoOne,         \* the owner of a free lock
  MaxEntries,    \* max_entries: the capacity of one buffer
  MaxAttempts,   \* the 10000000 rounds of the race loop of add_item
  MaxItems       \* bound: calls of add_item per producer

ASSUME QueueAssumption ==
  /\ MaxEntries \in Nat \ {0}
  /\ MaxAttempts \in Nat \ {0}
  /\ MaxItems \in Nat
  /\ "consumer" \notin Producers
  /\ NoOne \notin Producers \cup {"consumer"}

VARIABLES
  active_buffer,          \* which buffer producers should use: 0 or 1
  active_buffer_version,  \* the version that goes with it
  queue_version,          \* per buffer
  buffer,                 \* per buffer, the items; queue_next is the length
  active_lock,            \* owner of active_buffer_rwlock held for writing
  buffer_lock,            \* per buffer, owner of buffer_rwlock for writing
  pc,                     \* per thread, the point it has reached
  seen,                   \* per producer, buffer_id and buffer_version read
  attempts,               \* per producer, rounds of the race loop made
  calls,                  \* per producer, calls of add_item made so far
  draining,               \* the consumer's local buffer_id
  done,                   \* the consumer's local i: items handled this time
  stored,                 \* history: items for which add_item returned 0
  handled                 \* history: items given to item_handler

locks == <<active_lock, buffer_lock>>
producerVars == <<seen, attempts, calls>>
vars == <<active_buffer, active_buffer_version, queue_version, buffer,
          active_lock, buffer_lock, pc, seen, attempts, calls, draining,
          done, stored, handled>>

Buffers == {0, 1}
Threads == Producers \cup {"consumer"}
Item == Producers \X (0..MaxItems)

ProducerPC == {"idle", "read", "lock", "write"}
ConsumerPC == {"idle", "lockActive", "lockBuffer", "swap", "handle"}

Other(b) == 1 - b

TypeOK ==
  /\ active_buffer \in Buffers
  /\ active_buffer_version \in Nat
  /\ queue_version \in [Buffers -> Nat]
  /\ buffer \in [Buffers -> Seq(Item)]
  /\ active_lock \in {NoOne, "consumer"}
  /\ buffer_lock \in [Buffers -> Threads \cup {NoOne}]
  /\ pc \in [Threads -> ProducerPC \cup ConsumerPC]
  /\ seen \in [Producers -> [id : Buffers, version : Nat]]
  /\ attempts \in [Producers -> 0..MaxAttempts]
  /\ calls \in [Producers -> 0..MaxItems]
  /\ draining \in Buffers
  /\ done \in Nat
  /\ stored \in Seq(Item)
  /\ handled \in Seq(Item)

-----------------------------------------------------------------------------
(* datum_queue_prep: everything zero except queue_version[1].              *)
Init ==
  /\ active_buffer = 0
  /\ active_buffer_version = 0
  /\ queue_version = [b \in Buffers |-> IF b = 1 THEN 10 ELSE 0]
  /\ buffer = [b \in Buffers |-> << >>]
  /\ active_lock = NoOne
  /\ buffer_lock = [b \in Buffers |-> NoOne]
  /\ pc = [t \in Threads |-> "idle"]
  /\ seen = [p \in Producers |-> [id |-> 0, version |-> 0]]
  /\ attempts = [p \in Producers |-> 0]
  /\ calls = [p \in Producers |-> 0]
  /\ draining = 0
  /\ done = 0
  /\ stored = << >>
  /\ handled = << >>

Goto(t, from, to) ==
  /\ pc[t] = from
  /\ pc' = [pc EXCEPT ![t] = to]

-----------------------------------------------------------------------------
(* datum_queue_add_item                                                    *)

(* A stratum thread calls add_item with its next share. *)
CallAdd(p) ==
  /\ Goto(p, "idle", "read")
  /\ calls[p] < MaxItems
  /\ calls' = [calls EXCEPT ![p] = @ + 1]
  /\ attempts' = [attempts EXCEPT ![p] = 0]
  /\ UNCHANGED <<active_buffer, active_buffer_version, queue_version, buffer,
                 locks, seen, draining, done, stored, handled>>

(* Mutant: the race loop has lost its bound. *)
ReadActiveForever(p) ==
  /\ active_lock = NoOne
  /\ Goto(p, "read", "lock")
  /\ seen' = [seen EXCEPT ![p] = [id |-> active_buffer,
                                  version |-> active_buffer_version]]
  /\ attempts' = [attempts EXCEPT ![p] = @ + 1]
  /\ UNCHANGED <<active_buffer, active_buffer_version, queue_version, buffer,
                 locks, calls, draining, done, stored, handled>>

(* One round of the race loop: which buffer is active, under the read lock.
   The last round is skipped on purpose, so that no lock is left behind.    *)
ReadActive(p) ==
  /\ attempts[p] + 1 < MaxAttempts
  /\ active_lock = NoOne
  /\ Goto(p, "read", "lock")
  /\ seen' = [seen EXCEPT ![p] = [id |-> active_buffer,
                                  version |-> active_buffer_version]]
  /\ attempts' = [attempts EXCEPT ![p] = @ + 1]
  /\ UNCHANGED <<active_buffer, active_buffer_version, queue_version, buffer,
                 locks, calls, draining, done, stored, handled>>

(* The race loop ran out: add_item returns -1 and the share is dropped. *)
GiveUp(p) ==
  /\ attempts[p] + 1 >= MaxAttempts
  /\ Goto(p, "read", "idle")
  /\ UNCHANGED <<active_buffer, active_buffer_version, queue_version, buffer,
                 locks, producerVars, draining, done, stored, handled>>

LockBuffer(p) ==
  /\ buffer_lock[seen[p].id] = NoOne
  /\ Goto(p, "lock", "write")
  /\ buffer_lock' = [buffer_lock EXCEPT ![seen[p].id] = p]
  /\ UNCHANGED <<active_buffer, active_buffer_version, queue_version, buffer,
                 active_lock, producerVars, draining, done, stored, handled>>

(* Mutant: no check for a swap between the two locks. *)
IsCurrentUnchecked(p) == TRUE

IsCurrent(p) == seen[p].version = queue_version[seen[p].id]

(* Mutant: the lock is kept when the race was lost. *)
RetryAddLocked(p) ==
  /\ ~ IsCurrent(p)
  /\ Goto(p, "write", "read")
  /\ UNCHANGED <<active_buffer, active_buffer_version, queue_version, buffer,
                 locks, producerVars, draining, done, stored, handled>>

(* The buffer was swapped out between the two locks: go round again. *)
RetryAdd(p) ==
  /\ ~ IsCurrent(p)
  /\ Goto(p, "write", "read")
  /\ buffer_lock' = [buffer_lock EXCEPT ![seen[p].id] = NoOne]
  /\ UNCHANGED <<active_buffer, active_buffer_version, queue_version, buffer,
                 active_lock, producerVars, draining, done, stored, handled>>

(* Queue overflow: -1, and the share is dropped. *)
RefuseItem(p) ==
  /\ IsCurrent(p)
  /\ Len(buffer[seen[p].id]) >= MaxEntries
  /\ Goto(p, "write", "idle")
  /\ buffer_lock' = [buffer_lock EXCEPT ![seen[p].id] = NoOne]
  /\ UNCHANGED <<active_buffer, active_buffer_version, queue_version, buffer,
                 active_lock, producerVars, draining, done, stored, handled>>

StoreItem(p) ==
  /\ IsCurrent(p)
  /\ Len(buffer[seen[p].id]) < MaxEntries
  /\ Goto(p, "write", "idle")
  /\ buffer' = [buffer EXCEPT ![seen[p].id] = Append(@, <<p, calls[p]>>)]
  /\ stored' = Append(stored, <<p, calls[p]>>)
  /\ buffer_lock' = [buffer_lock EXCEPT ![seen[p].id] = NoOne]
  /\ UNCHANGED <<active_buffer, active_buffer_version, queue_version,
                 active_lock, producerVars, draining, done, handled>>

-----------------------------------------------------------------------------
(* datum_queue_process, called over and over by one thread                 *)

(* Peek at the active buffer under its read lock; nothing to do if empty. *)
Peek ==
  /\ buffer_lock[active_buffer] = NoOne
  /\ buffer[active_buffer] # << >>
  /\ Goto("consumer", "idle", "lockActive")
  /\ draining' = active_buffer
  /\ UNCHANGED <<active_buffer, active_buffer_version, queue_version, buffer,
                 locks, producerVars, done, stored, handled>>

LockActive ==
  /\ active_lock = NoOne
  /\ Goto("consumer", "lockActive", "lockBuffer")
  /\ active_lock' = "consumer"
  /\ UNCHANGED <<active_buffer, active_buffer_version, queue_version, buffer,
                 buffer_lock, producerVars, draining, done, stored, handled>>

(* Mutant: the drained buffer keeps its version. *)
LockDrainingSameVersion ==
  /\ buffer_lock[draining] = NoOne
  /\ Goto("consumer", "lockBuffer", "swap")
  /\ buffer_lock' = [buffer_lock EXCEPT ![draining] = "consumer"]
  /\ UNCHANGED <<active_buffer, active_buffer_version, queue_version, buffer,
                 active_lock, producerVars, draining, done, stored, handled>>

(* Lock the buffer about to be drained and make every producer that chose
   it go round again.                                                       *)
LockDraining ==
  /\ buffer_lock[draining] = NoOne
  /\ Goto("consumer", "lockBuffer", "swap")
  /\ buffer_lock' = [buffer_lock EXCEPT ![draining] = "consumer"]
  /\ queue_version' = [queue_version EXCEPT ![draining] = @ + 1]
  /\ UNCHANGED <<active_buffer, active_buffer_version, buffer, active_lock,
                 producerVars, draining, done, stored, handled>>

(* Lock the other buffer, make it the active one, release it and the index. *)
Swap ==
  LET offline == Other(draining) IN
  /\ buffer_lock[offline] = NoOne
  /\ Goto("consumer", "swap", "handle")
  /\ queue_version' = [queue_version EXCEPT ![offline] = @ + 1]
  /\ active_buffer_version' = queue_version[offline] + 1
  /\ active_buffer' = offline
  /\ buffer' = [buffer EXCEPT ![offline] = << >>]
  /\ active_lock' = NoOne
  /\ done' = 0
  /\ UNCHANGED <<buffer_lock, producerVars, draining, stored, handled>>

(* Mutant: the newest item of the buffer goes first. *)
HandleItemBackwards ==
  /\ pc["consumer"] = "handle"
  /\ done < Len(buffer[draining])
  /\ handled' = Append(handled, buffer[draining][Len(buffer[draining]) - done])
  /\ done' = done + 1
  /\ UNCHANGED <<active_buffer, active_buffer_version, queue_version, buffer,
                 locks, pc, producerVars, draining, stored>>

HandleItem ==
  /\ pc["consumer"] = "handle"
  /\ done < Len(buffer[draining])
  /\ handled' = Append(handled, buffer[draining][done + 1])
  /\ done' = done + 1
  /\ UNCHANGED <<active_buffer, active_buffer_version, queue_version, buffer,
                 locks, pc, producerVars, draining, stored>>

FinishDrain ==
  /\ done = Len(buffer[draining])
  /\ Goto("consumer", "handle", "idle")
  /\ buffer' = [buffer EXCEPT ![draining] = << >>]
  /\ buffer_lock' = [buffer_lock EXCEPT ![draining] = NoOne]
  /\ done' = 0
  /\ UNCHANGED <<active_buffer, active_buffer_version, queue_version,
                 active_lock, producerVars, draining, stored, handled>>

-----------------------------------------------------------------------------
AddItem(p) ==
  \/ CallAdd(p) \/ ReadActive(p) \/ GiveUp(p) \/ LockBuffer(p)
  \/ RetryAdd(p) \/ RefuseItem(p) \/ StoreItem(p)

Process ==
  \/ Peek \/ LockActive \/ LockDraining \/ Swap \/ HandleItem \/ FinishDrain

Next == (\E p \in Producers : AddItem(p)) \/ Process

Spec == Init /\ [][Next]_vars

(* Every thread keeps running; nothing obliges a producer to call add_item. *)
Fairness ==
  /\ WF_vars(Process)
  /\ \A p \in Producers :
       WF_vars(ReadActive(p) \/ GiveUp(p) \/ LockBuffer(p) \/ RetryAdd(p)
               \/ RefuseItem(p) \/ StoreItem(p))

FairSpec == Spec /\ Fairness

-----------------------------------------------------------------------------
(* Properties                                                              *)

Draining == pc["consumer"] = "handle"

(* The item_handler sees exactly the accepted items, in the order in which
   add_item accepted them, whichever buffer they went through and however
   often the buffers were swapped in between: none twice, none skipped.     *)
HandledInOrder ==
  /\ Len(handled) <= Len(stored)
  /\ \A i \in 1..Len(handled) : handled[i] = stored[i]

(* An item that add_item accepted is either handled or still in a buffer
   the consumer will come back to; a swap or a late producer loses none.    *)
NothingLost ==
  /\ ~ Draining => Len(stored) = Len(handled) + Len(buffer[active_buffer])
  /\ Draining => Len(stored) + done = Len(handled) + Len(buffer[active_buffer])
                                        + Len(buffer[draining])

(* A producer about to write past the version check writes to the active
   buffer, never to the one that is being drained.                          *)
WritersUseActive ==
  \A p \in Producers :
    pc[p] = "write" /\ IsCurrent(p) => /\ seen[p].id = active_buffer
                                       /\ ~ (Draining /\ seen[p].id = draining)

(* The consumer holds what its program counter says it holds. *)
ConsumerInv ==
  /\ pc["consumer"] \in ConsumerPC
  /\ active_lock = "consumer" => pc["consumer"] \in {"lockBuffer", "swap"}
  /\ pc["consumer"] \in {"lockBuffer", "swap"} => active_lock = "consumer"
  /\ pc["consumer"] \in {"swap", "handle"} => buffer_lock[draining] = "consumer"
  /\ pc["consumer"] \in {"lockActive", "lockBuffer", "swap"}
       => draining = active_buffer
  /\ pc["consumer"] = "handle" => draining = Other(active_buffer)

(* A producer past LockBuffer holds the lock of the buffer it chose. *)
ProducerInv ==
  \A p \in Producers :
    /\ pc[p] \in ProducerPC
    /\ pc[p] = "write" => buffer_lock[seen[p].id] = p

LockInv == ConsumerInv /\ ProducerInv

(* A version read by a producer is outdated as soon as its buffer is. *)
VersionInv ==
  /\ queue_version[active_buffer]
       = active_buffer_version + (IF pc["consumer"] = "swap" THEN 1 ELSE 0)
  /\ \A p \in Producers : pc[p] \in {"lock", "write"} =>
       /\ seen[p].version <= queue_version[seen[p].id]
       /\ seen[p].id = Other(active_buffer) \/ pc["consumer"] = "swap"
            => seen[p].version < queue_version[seen[p].id]

(* The buffers hold the tail of the accepted items, oldest first. *)
ContentInv ==
  /\ Draining => done <= Len(buffer[draining])
  /\ \A j \in 1..Len(buffer[active_buffer]), k \in 1..Len(stored) :
       k + Len(buffer[active_buffer]) = Len(stored) + j
         => buffer[active_buffer][j] = stored[k]
  /\ Draining =>
       \A j \in 1..Len(buffer[draining]), k \in 1..Len(stored) :
         j > done /\ k + done = Len(handled) + j
           => buffer[draining][j] = stored[k]

OrderInv == ContentInv /\ HandledInOrder /\ NothingLost

(* The inductive invariant behind the safety properties below. *)
QueueInv == TypeOK /\ LockInv /\ VersionInv /\ OrderInv

(* What is waiting, oldest first: the undrained rest, then the active one. *)
Pending ==
  (IF Draining THEN SubSeq(buffer[draining], done + 1, Len(buffer[draining]))
               ELSE << >>) \o buffer[active_buffer]

Fifo == INSTANCE FifoQueue
          WITH Capacity <- 2 * MaxEntries, pending <- Pending,
               delivered <- handled

(* Locks, versions and buffer swaps together implement a bounded FIFO queue
   that delivers everything it accepted.                                    *)
ImplementsFifo == Fifo!FairSpec

(* No call of add_item hangs: it returns, with or without the item stored. *)
AddReturns == \A p \in Producers : (pc[p] # "idle") ~> (pc[p] = "idle")
=============================================================================
