------------------------------ MODULE NodeProofs ------------------------------
(***************************************************************************)
(* The two threads that talk to the node.  Blocks go out: the slot between  *)
(* the stratum threads and the submit thread never loses a wakeup, for any  *)
(* number of stratum threads, nodes and attempts.  Templates come in: no    *)
(* notification of a new block is lost, for any number of blocks and        *)
(* notifications and any size of the ring, as long as the node sends no     *)
(* more templates that cannot be parsed than the thread has retries; and a  *)
(* job refers to the template it was made from for as long as the last      *)
(* templates are kept, however often the ring has gone round.               *)
(***************************************************************************)
EXTENDS SubmitBlock, TemplateRing, TLAPS

(* Every step keeps the types. *)
LEMMA TypeStep == TypeOK /\ SlotInv /\ WorkerInv /\ [Next]_vars => TypeOK'
<1> SUFFICES ASSUME TypeOK, SlotInv, WorkerInv, [Next]_vars PROVE TypeOK'
  OBVIOUS
<1> USE SubmitAssumption DEF TypeOK, slot, retry, history
<1>1. ASSUME NEW w \in Workers, FindBlock(w) PROVE TypeOK'
  <2>1. found[w] + 1 \in 0..MaxBlocks
    BY <1>1 DEF FindBlock
  <2>2. overwritten' \subseteq Block
    <3>1. submitblock_ptr = w => submitblock_hash \in Block
      BY DEF SlotInv
    <3>2. QED
      BY <1>1, <3>1 DEF FindBlock
  <2>3. QED
    BY <1>1, <2>1, <2>2 DEF FindBlock
<1>2. ASSUME NEW w \in Workers, FinishRequest(w) PROVE TypeOK'
  <2>1. BlockOf(w) \in Block
    <3>1. found[w] \in 1..MaxBlocks
      BY <1>2 DEF FinishRequest, WorkerInv
    <3>2. QED
      BY <3>1 DEF BlockOf, Block
  <2>2. QED
    BY <1>2, <2>1 DEF FinishRequest
<1>3. ASSUME NEW w \in Workers, AwaitSlot(w) PROVE TypeOK'
  BY <1>3 DEF AwaitSlot, Threads
<1>4. ASSUME NEW w \in Workers, Trigger(w) PROVE TypeOK'
  <2>1. BlockOf(w) \in Block
    <3>1. found[w] \in 1..MaxBlocks
      BY <1>4 DEF Trigger, WorkerInv
    <3>2. QED
      BY <3>1 DEF BlockOf, Block
  <2>2. waiting' \subseteq Threads
    BY <1>4 DEF Trigger, Signal
  <2>3. Append(handed, BlockOf(w)) \in Seq(Block)
    BY <2>1
  <2>4. QED
    BY <1>4, <2>1, <2>2, <2>3 DEF Trigger
<1>5. ASSUME NEW w \in Workers, CallNode(w) PROVE TypeOK'
  BY <1>5 DEF CallNode
<1>7. ASSUME NEW t \in Threads, SpuriousWakeup(t) PROVE TypeOK'
  BY <1>7 DEF SpuriousWakeup
<1>8. CASE SleepOnCond
  BY <1>8 DEF SleepOnCond, Threads
<1>9. CASE TakeBlock
  BY <1>9 DEF TakeBlock, Nodes, MaxTries
<1>10. CASE SendUnanswered
  <2>1. attempt + 1 \in 1..MaxTries
    BY <1>10 DEF SendUnanswered, MaxTries
  <2>2. backoff_ms' \in Nat
    BY <1>10 DEF SendUnanswered, NextBackoff
  <2>3. sent' \subseteq Nodes \X (Block \cup {Unfinished})
    BY <1>10 DEF SendUnanswered, NoteSent, Request, SlotInv
  <2>4. QED
    BY <1>10, <2>1, <2>2, <2>3 DEF SendUnanswered
<1>11. CASE SendLast
  <2>1. 1 \in 1..MaxTries
    BY DEF MaxTries
  <2>2. submit_block_triggered /\ submitblock_ptr \in Workers /\ submitblock_hash \in Block
    BY <1>11 DEF SendLast, SlotInv
  <2>3. sent' \subseteq Nodes \X (Block \cup {Unfinished})
    BY <1>11, <2>2 DEF SendLast, NoteSent, Request
  <2>4. accepted' \subseteq Block
    BY <1>11 DEF SendLast, NoteAnswer, AnswersTo
  <2>5. claims' \subseteq Block
    BY <1>11, <2>2 DEF SendLast
  <2>6. QED
    BY <1>11, <2>1, <2>3, <2>4, <2>5 DEF SendLast
<1>12. CASE PreciousUnanswered
  <2>1. attempt + 1 \in 1..MaxTries
    BY <1>12 DEF PreciousUnanswered, MaxTries
  <2>2. QED
    BY <1>12, <2>1 DEF PreciousUnanswered
<1>13. CASE NextNode
  <2>1. 1 \in 1..MaxTries /\ node + 1 \in Nodes
    BY <1>13 DEF NextNode, NoNodeLeft, MaxTries, Nodes
  <2>2. QED
    BY <1>13, <2>1 DEF NextNode
<1>14. CASE FinishBlock
  <2>1. Append(served, submitblock_hash) \in Seq(Block)
    BY <1>14 DEF FinishBlock, SlotInv
  <2>2. QED
    BY <1>14, <2>1 DEF FinishBlock, WakeAll
<1>15. CASE UNCHANGED vars
  BY <1>15 DEF vars
<1>16. QED
  BY <1>1, <1>2, <1>3, <1>4, <1>5, <1>7, <1>8, <1>9, <1>10, <1>11,
     <1>12, <1>13, <1>14, <1>15 DEF Next, Worker, Submitter

(* The parts of the slot agree. *)
LEMMA SlotStep == TypeOK /\ SlotInv /\ WorkerInv /\ [Next]_vars => SlotInv'
<1> SUFFICES ASSUME TypeOK, SlotInv, WorkerInv, [Next]_vars PROVE SlotInv'
  OBVIOUS
<1> USE SubmitAssumption DEF TypeOK, SlotInv, slot, retry
<1>1. ASSUME NEW w \in Workers, FindBlock(w) PROVE SlotInv'
  BY <1>1 DEF FindBlock
<1>2. ASSUME NEW w \in Workers, FinishRequest(w) PROVE SlotInv'
  BY <1>2 DEF FinishRequest
<1>3. ASSUME NEW w \in Workers, AwaitSlot(w) PROVE SlotInv'
  BY <1>3 DEF AwaitSlot
<1>4. ASSUME NEW w \in Workers, Trigger(w) PROVE SlotInv'
  <2>1. BlockOf(w) \in Block
    <3>1. found[w] \in 1..MaxBlocks
      BY <1>4 DEF Trigger, WorkerInv
    <3>2. QED
      BY <3>1 DEF BlockOf, Block
  <2>2. BlockOf(w)[1] = w
    BY DEF BlockOf
  <2>3. QED
    BY <1>4, <2>1, <2>2 DEF Trigger
<1>5. ASSUME NEW w \in Workers, CallNode(w) PROVE SlotInv'
  BY <1>5 DEF CallNode
<1>7. ASSUME NEW t \in Threads, SpuriousWakeup(t) PROVE SlotInv'
  BY <1>7 DEF SpuriousWakeup
<1>8. CASE SleepOnCond
  BY <1>8 DEF SleepOnCond
<1>9. CASE TakeBlock
  BY <1>9 DEF TakeBlock
<1>10. CASE SendUnanswered
  BY <1>10 DEF SendUnanswered
<1>11. CASE SendLast
  BY <1>11 DEF SendLast
<1>12. CASE PreciousUnanswered
  BY <1>12 DEF PreciousUnanswered
<1>13. CASE NextNode
  BY <1>13 DEF NextNode
<1>14. CASE FinishBlock
  BY <1>14 DEF FinishBlock
<1>15. CASE UNCHANGED vars
  BY <1>15 DEF vars
<1>16. QED
  BY <1>1, <1>2, <1>3, <1>4, <1>5, <1>7, <1>8, <1>9, <1>10, <1>11,
     <1>12, <1>13, <1>14, <1>15 DEF Next, Worker, Submitter

(* A stratum thread sleeps only on its way into the slot. *)
LEMMA WorkerStep == TypeOK /\ WorkerInv /\ [Next]_vars => WorkerInv'
<1> SUFFICES ASSUME TypeOK, WorkerInv, [Next]_vars PROVE WorkerInv'
  OBVIOUS
<1> USE SubmitAssumption DEF TypeOK, WorkerInv, slot, retry
<1>1. ASSUME NEW w \in Workers, FindBlock(w) PROVE WorkerInv'
  <2>1. found[w] + 1 \in 1..MaxBlocks
    BY <1>1 DEF FindBlock
  <2>3. ASSUME NEW v \in Workers
        PROVE  /\ v \in waiting' => state'[v] = "trigger"
               /\ state'[v] # "idle" => found'[v] \in 1..MaxBlocks
    <3>1. CASE v = w
      BY <1>1, <2>1, <3>1 DEF FindBlock
    <3>2. CASE v # w
      BY <1>1, <3>2 DEF FindBlock
    <3>3. QED
      BY <3>1, <3>2
  <2>4. QED
    BY <2>3
<1>2. ASSUME NEW w \in Workers, FinishRequest(w) PROVE WorkerInv'
  <2>1. ASSUME NEW v \in Workers
        PROVE  /\ v \in waiting' => state'[v] = "trigger"
               /\ state'[v] # "idle" => found'[v] \in 1..MaxBlocks
    <3>1. CASE v = w
      BY <1>2, <3>1 DEF FinishRequest
    <3>2. CASE v # w
      BY <1>2, <3>2 DEF FinishRequest
    <3>3. QED
      BY <3>1, <3>2
  <2>2. QED
    BY <2>1
<1>3. ASSUME NEW w \in Workers, AwaitSlot(w) PROVE WorkerInv'
  BY <1>3 DEF AwaitSlot
<1>4. ASSUME NEW w \in Workers, Trigger(w) PROVE WorkerInv'
  <2>1. waiting' \subseteq waiting
    BY <1>4 DEF Trigger, Signal
  <2>2. QED
    BY <1>4, <2>1 DEF Trigger
<1>5. ASSUME NEW w \in Workers, CallNode(w) PROVE WorkerInv'
  BY <1>5 DEF CallNode
<1>7. ASSUME NEW t \in Threads, SpuriousWakeup(t) PROVE WorkerInv'
  BY <1>7 DEF SpuriousWakeup
<1>8. CASE SleepOnCond
  BY <1>8 DEF SleepOnCond
<1>9. CASE TakeBlock
  BY <1>9 DEF TakeBlock
<1>10. CASE SendUnanswered
  BY <1>10 DEF SendUnanswered
<1>11. CASE SendLast
  BY <1>11 DEF SendLast
<1>12. CASE PreciousUnanswered
  BY <1>12 DEF PreciousUnanswered
<1>13. CASE NextNode
  BY <1>13 DEF NextNode
<1>14. CASE FinishBlock
  BY <1>14 DEF FinishBlock, WakeAll
<1>15. CASE UNCHANGED vars
  BY <1>15 DEF vars
<1>16. QED
  BY <1>1, <1>2, <1>3, <1>4, <1>5, <1>7, <1>8, <1>9, <1>10, <1>11,
     <1>12, <1>13, <1>14, <1>15 DEF Next, Worker, Submitter

(* Nobody is left asleep on a condition that holds. *)
LEMMA WakeupStep == TypeOK /\ SlotInv /\ WorkerInv /\ NoMissedWakeup /\ [Next]_vars => NoMissedWakeup'
<1> SUFFICES ASSUME TypeOK, SlotInv, WorkerInv, NoMissedWakeup, [Next]_vars PROVE NoMissedWakeup'
  OBVIOUS
<1> USE SubmitAssumption DEF TypeOK, SlotInv, NoMissedWakeup, SlotFree,
        Threads, slot, retry
<1>1. ASSUME NEW w \in Workers, FindBlock(w) PROVE NoMissedWakeup'
  BY <1>1 DEF FindBlock
<1>2. ASSUME NEW w \in Workers, FinishRequest(w) PROVE NoMissedWakeup'
  BY <1>2 DEF FinishRequest
<1>3. ASSUME NEW w \in Workers, AwaitSlot(w) PROVE NoMissedWakeup'
  BY <1>3 DEF AwaitSlot
<1>4. ASSUME NEW w \in Workers, Trigger(w) PROVE NoMissedWakeup'
  <2>1. waiting \subseteq {"submitter"}
    BY <1>4 DEF Trigger
  <2>2. waiting' = {}
    BY <1>4, <2>1 DEF Trigger, Signal
  <2>3. QED
    BY <2>2
<1>5. ASSUME NEW w \in Workers, CallNode(w) PROVE NoMissedWakeup'
  BY <1>5 DEF CallNode
<1>7. ASSUME NEW t \in Threads, SpuriousWakeup(t) PROVE NoMissedWakeup'
  BY <1>7 DEF SpuriousWakeup
<1>8. CASE SleepOnCond
  BY <1>8 DEF SleepOnCond
<1>9. CASE TakeBlock
  BY <1>9 DEF TakeBlock
<1>10. CASE SendUnanswered
  BY <1>10 DEF SendUnanswered
<1>11. CASE SendLast
  BY <1>11 DEF SendLast
<1>12. CASE PreciousUnanswered
  BY <1>12 DEF PreciousUnanswered
<1>13. CASE NextNode
  BY <1>13 DEF NextNode
<1>14. CASE FinishBlock
  BY <1>14 DEF FinishBlock, WakeAll
<1>15. CASE UNCHANGED vars
  BY <1>15 DEF vars
<1>16. QED
  BY <1>1, <1>2, <1>3, <1>4, <1>5, <1>7, <1>8, <1>9, <1>10, <1>11,
     <1>12, <1>13, <1>14, <1>15 DEF Next, Worker, Submitter

(* SubmitInv is an invariant of the submission of blocks. *)
THEOREM SubmitInvariant == Spec => []SubmitInv
<1>1. Init => SubmitInv
  <2> SUFFICES ASSUME Init PROVE SubmitInv
    OBVIOUS
  <2>1. << >> \in Seq(Block)
    OBVIOUS
  <2>2. TypeOK
    <3>1. 1 \in 1..MaxTries /\ 0 \in Nodes /\ 0 \in 0..MaxBlocks
      BY SubmitAssumption DEF MaxTries, Nodes
    <3>2. QED
      BY <2>1, <3>1, SubmitAssumption DEF Init, TypeOK
  <2>3. SlotInv /\ WorkerInv /\ NoMissedWakeup
    BY DEF Init, SlotInv, WorkerInv, NoMissedWakeup
  <2>4. QED
    BY <2>2, <2>3 DEF SubmitInv
<1>2. SubmitInv /\ [Next]_vars => SubmitInv'
  BY TypeStep, SlotStep, WorkerStep, WakeupStep DEF SubmitInv
<1>3. QED
  BY <1>1, <1>2, PTL DEF Spec

(* Neither the single signal of datum_submitblock_trigger nor the shared
   condition variable can leave a thread asleep that should run.            *)
THEOREM NoMissedWakeupAlways == Spec => []NoMissedWakeup
<1>1. SubmitInv => NoMissedWakeup
  BY DEF SubmitInv
<1>2. QED
  BY <1>1, SubmitInvariant, PTL

-----------------------------------------------------------------------------
(* The slot as a queue                                                     *)

(* A block that is handed over is a block. *)
LEMMA BlockHandedOver ==
  ASSUME SubmitInv, NEW w \in Workers, state[w] # "idle"
  PROVE  BlockOf(w) \in Block
<1>1. found[w] \in 1..MaxBlocks
  BY DEF SubmitInv, WorkerInv
<1>2. QED
  BY <1>1 DEF BlockOf, Block

(* datum_submitblock_trigger puts a block into the empty queue. *)
LEMMA TriggerAccepts ==
  ASSUME SubmitInv, NEW w \in Workers, Trigger(w)
  PROVE  Mailbox!Accept(BlockOf(w))
<1>1. ~ submit_block_triggered /\ submit_block_triggered'
  BY DEF Trigger, SlotFree
<1>2. submitblock_hash' = BlockOf(w) /\ served' = served
  BY DEF Trigger
<1>3. Append(<< >>, BlockOf(w)) = <<BlockOf(w)>> /\ Len(<< >>) < 1
  OBVIOUS
<1>4. QED
  BY <1>1, <1>2, <1>3 DEF Mailbox!Accept

(* The end of a submission takes the block out of it. *)
LEMMA FinishDelivers ==
  ASSUME SubmitInv, FinishBlock
  PROVE  Mailbox!Deliver
<1>1. submit_block_triggered /\ ~ submit_block_triggered'
  BY DEF FinishBlock, SubmitInv, SlotInv
<1>2. served' = Append(served, submitblock_hash)
  BY DEF FinishBlock
<1>3. /\ <<submitblock_hash>> # << >>
      /\ Head(<<submitblock_hash>>) = submitblock_hash
      /\ Tail(<<submitblock_hash>>) = << >>
  OBVIOUS
<1>4. QED
  BY <1>1, <1>2, <1>3 DEF Mailbox!Deliver

(* Nothing else changes what is waiting or what was served. *)
LEMMA MailboxStep ==
  ASSUME SubmitInv, [Next]_vars
  PROVE  [Mailbox!Next]_<<IF submit_block_triggered
                          THEN <<submitblock_hash>> ELSE << >>, served>>
<1> DEFINE Rests ==
      UNCHANGED <<submit_block_triggered, submitblock_hash, served>>
<1>1. ASSUME NEW w \in Workers, Trigger(w) PROVE Mailbox!Next
  <2>1. BlockOf(w) \in Block
    BY <1>1, BlockHandedOver DEF Trigger
  <2>2. QED
    BY <1>1, <2>1, TriggerAccepts DEF Mailbox!Next
<1>2. ASSUME FinishBlock PROVE Mailbox!Next
  BY <1>2, FinishDelivers DEF Mailbox!Next
<1>3. ASSUME NEW w \in Workers, FindBlock(w) \/ (Worker(w) /\ ~ Trigger(w))
      PROVE  Rests
  BY <1>3 DEF FindBlock, Worker, FinishRequest, AwaitSlot, CallNode,
              slot, history
<1>4. ASSUME NEW t \in Threads, SpuriousWakeup(t) PROVE Rests
  BY <1>4 DEF SpuriousWakeup, slot, history
<1>5. ASSUME Submitter, ~ FinishBlock PROVE Rests
  BY <1>5 DEF Submitter, SleepOnCond, TakeBlock, SendUnanswered, SendLast,
              PreciousUnanswered, NextNode, slot, history
<1>6. ASSUME UNCHANGED vars PROVE Rests
  BY <1>6 DEF vars, slot, history
<1>7. Mailbox!Next \/ Rests
  <2>1. CASE Submitter
    BY <2>1, <1>2, <1>5
  <2>2. CASE \E w \in Workers : FindBlock(w) \/ Worker(w)
    BY <2>2, <1>1, <1>3
  <2>3. CASE \E t \in Threads : SpuriousWakeup(t)
    BY <2>3, <1>4
  <2>4. QED
    BY <2>1, <2>2, <2>3, <1>6 DEF Next
<1>8. QED
  BY <1>7

(* The one-place slot of datum_submitblock.c is a queue: blocks are served in
   the order in which they were handed over, each once, none overwritten, for
   any number of stratum threads, blocks, nodes and attempts.  (That they are
   all served at last is liveness, and stays with the run.)                 *)
THEOREM SlotIsMailbox == Spec => Mailbox!Spec
<1>1. Init => Mailbox!Init
  BY DEF Init, Mailbox!Init
<1>2. SubmitInv /\ [Next]_vars => [Mailbox!Next]_(Mailbox!fifoVars)
  BY MailboxStep DEF Mailbox!fifoVars
<1>3. QED
  BY <1>1, <1>2, SubmitInvariant, PTL DEF Spec, Mailbox!Spec

-----------------------------------------------------------------------------
(* The request that is sent                                                *)

(* The buffer behind a filled slot holds the block the slot names, until its
   owner finds another one and writes that into it.                         *)
RequestInv ==
  /\ \A w \in Workers : state[w] \in {"trigger", "call"} =>
                          payload[w] = BlockOf(w)
  /\ submit_block_triggered /\ submitblock_hash \notin overwritten =>
       /\ payload[submitblock_ptr] = submitblock_hash
       /\ state[submitblock_ptr] \in {"call", "idle"}

(* Nodes before the present one have the block, and so has the present one
   when preciousblock is called.                                            *)
SentInv ==
  /\ submitblock_hash \notin overwritten =>
       /\ step # "check" => \A n \in 0..node - 1 : <<n, submitblock_hash>> \in sent
       /\ step = "precious" => <<node, submitblock_hash>> \in sent
  /\ SentEverywhere

(* A stratum thread writes into its own buffer only, and when that is the one
   in the slot, the block of the slot is overwritten.                       *)
LEMMA RequestStep ==
  ASSUME SubmitInv, RequestInv, [Next]_vars
  PROVE  RequestInv'
<1> USE SubmitAssumption DEF RequestInv, slot, history
<1>0. TypeOK /\ SlotInv /\ WorkerInv
  BY DEF SubmitInv
<1>1. ASSUME NEW w \in Workers, FindBlock(w) PROVE RequestInv'
  <2>1. /\ state' = [state EXCEPT ![w] = "build"]
        /\ payload' = [payload EXCEPT ![w] = Unfinished]
        /\ found' = [found EXCEPT ![w] = @ + 1]
        /\ UNCHANGED slot
    BY <1>1 DEF FindBlock
  <2>2. \A v \in Workers : state'[v] \in {"trigger", "call"} =>
                              payload'[v] = <<v, found'[v]>>
    BY <1>0, <2>1 DEF TypeOK, BlockOf
  <2>3. ASSUME submit_block_triggered', submitblock_hash' \notin overwritten'
        PROVE  /\ payload'[submitblock_ptr'] = submitblock_hash'
               /\ state'[submitblock_ptr'] \in {"call", "idle"}
    <3>1. submitblock_ptr # w /\ submitblock_hash \notin overwritten
      BY <1>1, <2>1, <2>3 DEF FindBlock
    <3>2. submitblock_ptr \in Workers /\ submit_block_triggered
      BY <1>0, <2>1, <2>3 DEF TypeOK, SlotInv
    <3>3. QED
      BY <1>0, <2>1, <3>1, <3>2 DEF TypeOK
  <2>4. QED
    BY <2>2, <2>3 DEF BlockOf
<1>2. ASSUME NEW w \in Workers, FinishRequest(w) PROVE RequestInv'
  <2>1. submit_block_triggered /\ submitblock_hash \notin overwritten
          => w # submitblock_ptr
    BY <1>2 DEF FinishRequest
  <2>2. QED
    BY <1>0, <1>2, <2>1 DEF FinishRequest, TypeOK, BlockOf
<1>3. ASSUME NEW w \in Workers, AwaitSlot(w) PROVE RequestInv'
  BY <1>3 DEF AwaitSlot, BlockOf
<1>4. ASSUME NEW w \in Workers, Trigger(w) PROVE RequestInv'
  <2>1. /\ state' = [state EXCEPT ![w] = "call"]
        /\ payload' = payload /\ found' = found
        /\ submitblock_ptr' = w /\ submitblock_hash' = BlockOf(w)
        /\ state[w] = "trigger"
    BY <1>4 DEF Trigger
  <2>2. QED
    BY <1>0, <2>1 DEF TypeOK, BlockOf
<1>5. ASSUME NEW w \in Workers, CallNode(w) PROVE RequestInv'
  <2>1. /\ state' = [state EXCEPT ![w] = "idle"]
        /\ UNCHANGED <<slot, payload, found, overwritten>>
    BY <1>5 DEF CallNode
  <2>2. QED
    BY <1>0, <2>1 DEF TypeOK, BlockOf
<1>6. ASSUME NEW t \in Threads, SpuriousWakeup(t) PROVE RequestInv'
  BY <1>6 DEF SpuriousWakeup, BlockOf
<1>7. ASSUME Submitter, ~ FinishBlock PROVE RequestInv'
  BY <1>7 DEF Submitter, SleepOnCond, TakeBlock, SendUnanswered, SendLast,
              PreciousUnanswered, NextNode, BlockOf
<1>8. CASE FinishBlock
  BY <1>8 DEF FinishBlock, BlockOf
<1>9. CASE UNCHANGED vars
  BY <1>9 DEF vars, BlockOf
<1>10. QED
  BY <1>1, <1>2, <1>3, <1>4, <1>5, <1>6, <1>7, <1>8, <1>9 DEF Next, Worker

(* Every node is sent the block before the submit thread is done with it. *)
LEMMA SentStep ==
  ASSUME SubmitInv, RequestInv, SentInv, [Next]_vars
  PROVE  SentInv'
<1> USE SubmitAssumption DEF SentInv, SentEverywhere, slot, retry, history
<1>0. TypeOK /\ SlotInv
  BY DEF SubmitInv
<1>1. ASSUME NEW w \in Workers, FindBlock(w) PROVE SentInv'
  <2>1. overwritten \subseteq overwritten'
        /\ UNCHANGED <<submitblock_hash, step, node, sent, served>>
    BY <1>1 DEF FindBlock
  <2>2. QED
    BY <2>1
<1>2. ASSUME NEW w \in Workers, Worker(w) PROVE SentInv'
  BY <1>2 DEF Worker, FinishRequest, AwaitSlot, CallNode, Trigger, MutexFree
<1>3. ASSUME NEW t \in Threads, SpuriousWakeup(t) PROVE SentInv'
  BY <1>3 DEF SpuriousWakeup
<1>4. CASE SleepOnCond
  BY <1>4 DEF SleepOnCond
<1>5. CASE TakeBlock
  BY <1>5 DEF TakeBlock
<1>6. ASSUME SendUnanswered \/ SendLast PROVE SentInv'
  <2>1. /\ sent' = sent \cup {<<node, Request>>}
        /\ UNCHANGED <<node, submitblock_hash, served, overwritten>>
        /\ step # "check"
    BY <1>6 DEF SendUnanswered, SendLast, NoteSent
  <2>2. submitblock_hash \notin overwritten => Request = submitblock_hash
    BY <1>0, <2>1 DEF Request, SlotInv, RequestInv
  <2>3. QED
    BY <2>1, <2>2
<1>7. CASE PreciousUnanswered
  BY <1>7 DEF PreciousUnanswered
<1>8. CASE NextNode
  <2>1. node \in Nat
    BY <1>0 DEF TypeOK, Nodes
  <2>2. \A n \in 0..(node + 1) - 1 : n \in 0..node - 1 \/ n = node
    BY <2>1
  <2>3. QED
    BY <1>8, <2>1, <2>2 DEF NextNode
<1>9. CASE FinishBlock
  <2>1. node = ExtraNodes /\ step = "precious"
    BY <1>9 DEF FinishBlock, NoNodeLeft
  <2>2. submitblock_hash \notin overwritten =>
          \A n \in Nodes : <<n, submitblock_hash>> \in sent
    <3>1. \A n \in Nodes : n \in 0..node - 1 \/ n = node
      BY <2>1 DEF Nodes
    <3>2. QED
      BY <2>1, <3>1
  <2>3. served \in Seq(Block) /\ submitblock_hash \in Block
    BY <1>0, <2>1 DEF TypeOK, SlotInv
  <2>4. /\ served' = Append(served, submitblock_hash)
        /\ sent' = sent /\ step' = "check" /\ overwritten' = overwritten
    BY <1>9 DEF FinishBlock
  <2>5. ASSUME NEW i \in 1..Len(served'), served'[i] \notin overwritten,
               NEW n \in Nodes
        PROVE  <<n, served'[i]>> \in sent
    <3>1. /\ Len(served') = Len(served) + 1 /\ Len(served) \in Nat
          /\ served'[Len(served) + 1] = submitblock_hash
          /\ \A j \in 1..Len(served) : served'[j] = served[j]
      BY <2>3, <2>4
    <3>2. CASE i = Len(served) + 1
      BY <2>2, <2>5, <3>1, <3>2
    <3>3. CASE i \in 1..Len(served)
      <4>1. <<n, served[i]>> \in sent
        BY <2>5, <3>1, <3>3
      <4>2. QED
        BY <3>1, <3>3, <4>1
    <3>4. QED
      BY <3>1, <3>2, <3>3
  <2>6. QED
    BY <2>4, <2>5
<1>10. CASE UNCHANGED vars
  BY <1>10 DEF vars
<1>11. QED
  BY <1>1, <1>2, <1>3, <1>4, <1>5, <1>6, <1>7, <1>8, <1>9, <1>10
     DEF Next, Submitter

(* The submit thread claims what a node has accepted, and only that. *)
LEMMA ClaimsStep ==
  ASSUME SubmitInv, RequestInv, SubmitterClaims, [Next]_vars
  PROVE  SubmitterClaims'
<1> USE SubmitAssumption DEF SubmitterClaims, slot, retry, history
<1>1. ASSUME NEW w \in Workers, FindBlock(w) \/ Worker(w) PROVE SubmitterClaims'
  <2>1. overwritten \subseteq overwritten' /\ UNCHANGED <<claims, accepted>>
    BY <1>1 DEF FindBlock, Worker, FinishRequest, AwaitSlot, Trigger, CallNode
  <2>2. QED
    BY <2>1
<1>3. ASSUME NEW t \in Threads, SpuriousWakeup(t) PROVE SubmitterClaims'
  BY <1>3 DEF SpuriousWakeup
<1>4. ASSUME Submitter, ~ SendLast PROVE SubmitterClaims'
  BY <1>4 DEF Submitter, SleepOnCond, TakeBlock, SendUnanswered,
              PreciousUnanswered, NextNode, FinishBlock
<1>5. CASE SendLast
  <2>1. submitblock_hash \notin overwritten => Request = submitblock_hash
    BY <1>5 DEF SendLast, Request, RequestInv, SubmitInv, SlotInv
  <2>2. PICK answer \in AnswersTo(Request) :
          /\ NoteAnswer(Request, answer)
          /\ claims' = IF answer = "accepted"
                       THEN claims \cup {submitblock_hash} ELSE claims
    BY <1>5 DEF SendLast
  <2>3. overwritten' = overwritten
    BY <1>5 DEF SendLast
  <2>4. QED
    BY <2>1, <2>2, <2>3 DEF NoteAnswer
<1>6. CASE UNCHANGED vars
  BY <1>6 DEF vars
<1>7. QED
  BY <1>1, <1>3, <1>4, <1>5, <1>6 DEF Next

(* The request stays what was handed over until it is overwritten. *)
LEMMA RequestStays == Spec => []RequestInv
<1>1. Init => RequestInv
  BY DEF Init, RequestInv
<1>2. SubmitInv /\ RequestInv /\ [Next]_vars => RequestInv'
  BY RequestStep
<1>3. QED
  BY <1>1, <1>2, SubmitInvariant, PTL DEF Spec

(* When the submit thread is done with a block, every configured node has been
   sent it, retried or not (datum_submitblock_thread), for any number of
   stratum threads, blocks, nodes and attempts, unless its thread found its
   next block while this one was in the slot: the request is overwritten.   *)
THEOREM SentEverywhereAlways == Spec => []SentEverywhere
<1>1. Init => SentInv
  BY DEF Init, SentInv, SentEverywhere
<1>2. SubmitInv /\ RequestInv /\ SentInv /\ [Next]_vars => SentInv'
  BY SentStep
<1>3. SentInv => SentEverywhere
  BY DEF SentInv
<1>4. QED
  BY <1>1, <1>2, <1>3, SubmitInvariant, RequestStays, PTL DEF Spec

(* A block that datum_submitblock_doit logs as submitted was accepted by a
   node, with the same exception.                                           *)
THEOREM SubmitterClaimsAlways == Spec => []SubmitterClaims
<1>1. Init => SubmitterClaims
  BY DEF Init, SubmitterClaims
<1>2. SubmitInv /\ RequestInv /\ SubmitterClaims /\ [Next]_vars
        => SubmitterClaims'
  BY ClaimsStep
<1>3. QED
  BY <1>1, <1>2, SubmitInvariant, RequestStays, PTL DEF Spec

-----------------------------------------------------------------------------
(* The template thread *)

(* What the proof needs of the types; heights are not bounded here. *)
Counters ==
  /\ tip \in Nat /\ got \in Nat /\ p1 \in Nat /\ told \in Nat
  /\ wnc \in Nat /\ errors \in Nat /\ errors <= MaxErrors
  /\ pc \in {"fetch", "process", "wait"}
  /\ was_notified \in BOOLEAN /\ new_notify \in BOOLEAN

(* The thread is never ahead of the node, and no notification is either. *)
Behind == p1 <= got /\ got <= tip /\ told <= tip

(* An answer older than the notification: the flag is still up. *)
OldAnswer == pc = "process" /\ got < told => new_notify

(* A block the thread was told of and does not know: the flag was taken for
   was_notified, and only templates that could not be parsed cost retries.  *)
Pending ==
  p1 < told /\ ~ new_notify =>
    /\ was_notified
    /\ pc = "wait" => wnc < errors
    /\ pc # "wait" => wnc <= errors

ServedInvariant == Counters /\ Behind /\ OldAnswer /\ Pending

(* The two bounds the argument compares. *)
LEMMA RetryBounds ==
  ASSUME Sizes
  PROVE  MaxErrors \in Nat /\ MaxRetries \in Nat
  BY DEF Sizes

(* The thread starts to wait with a job for the tip and nothing announced. *)
LEMMA ServedInit ==
  ASSUME Sizes, RingInit
  PROVE  ServedInvariant
<1>1. was_notified \in BOOLEAN /\ new_notify \in BOOLEAN
  BY DEF RingInit
<1> QED BY <1>1, RetryBounds
        DEF RingInit, ServedInvariant, Counters, Behind, OldAnswer, Pending

(* What the world does to the flags keeps a pending notification pending. *)
LEMMA ServedWorld ==
  ASSUME ServedInvariant, World
  PROVE  ServedInvariant'
<1>1. CASE NewBlock
  BY <1>1 DEF NewBlock, ServedInvariant, Counters, Behind, OldAnswer, Pending,
              thread, flags, bounds
<1>2. CASE BlockSignal
  BY <1>2 DEF BlockSignal, ServedInvariant, Counters, Behind, OldAnswer, Pending,
              thread
<1>3. CASE Fallback
  BY <1>3 DEF Fallback, NotifyNew, ServedInvariant, Counters, Behind,
              OldAnswer, Pending, thread, bounds
<1>4. CASE OwnBlock
  <2> USE DEF ServedInvariant, Counters, Behind, OldAnswer, Pending, NotifyNew,
              thread
  <2>1. tip' \in Nat /\ told' \in Nat /\ tip <= tip' /\ told' <= tip' /\ new_notify'
    BY <1>4 DEF OwnBlock
  <2> QED BY <1>4, <2>1 DEF OwnBlock
<1>5. CASE Urgent
  <2> USE DEF ServedInvariant, Counters, Behind, OldAnswer, Pending, NotifyNew,
              thread
  <2>1. CASE UNCHANGED new_notify
    BY <1>5, <2>1 DEF Urgent
  <2>2. CASE NotifyNew(FastForward, MaxBlock + 2)
    BY <1>5, <2>2 DEF Urgent
  <2> QED BY <1>5, <2>1, <2>2 DEF Urgent
<1>6. CASE TimePasses
  BY <1>6 DEF TimePasses, ServedInvariant, Counters, Behind, OldAnswer,
              Pending, flags, bounds
<1> QED BY <1>1, <1>2, <1>3, <1>4, <1>5, <1>6 DEF World

(* The thread drops was_notified only for a block it has been told of, and
   runs out of retries only after as many templates it could not parse.     *)
LEMMA ServedThread ==
  ASSUME Sizes, ServedInvariant, Thread, MaxErrors <= MaxRetries
  PROVE  ServedInvariant'
<1> USE RetryBounds
        DEF ServedInvariant, Counters, Behind, OldAnswer, Pending
<1>1. CASE Fetch BY <1>1 DEF Fetch, flags, bounds
<1>2. CASE ParseError BY <1>2 DEF ParseError, flags
<1>3. CASE ProcessNewBlock
  <2>1. was_notified' \in BOOLEAN
    BY <1>3 DEF ProcessNewBlock
  <2> QED BY <1>3, <2>1 DEF ProcessNewBlock, bounds
<1>4. CASE ProcessUrgent BY <1>4 DEF ProcessUrgent, bounds
<1>5. CASE ProcessNormal BY <1>5 DEF ProcessNormal, flags, bounds
<1>6. CASE ProcessNotified
  <2>1. wnc' \in Nat /\ was_notified' \in BOOLEAN
    BY <1>6 DEF ProcessNotified
  <2> QED BY <1>6, <2>1 DEF ProcessNotified, flags, bounds
<1>7. CASE ProcessFastForward BY <1>7 DEF ProcessFastForward, bounds
<1>8. CASE Woken
  <2>1. was_notified' /\ was_notified' \in BOOLEAN /\ new_notify' \in BOOLEAN
    BY <1>8 DEF Woken
  <2> QED BY <1>8, <2>1 DEF Woken, bounds
<1>9. CASE FullWait BY <1>9 DEF FullWait, flags, bounds
<1>10. CASE QuickWait BY <1>10 DEF QuickWait, flags, bounds
<1>11. CASE Retry
  <2>1. p1 < told => ~ GivesUp
    BY <1>11 DEF Retry, GivesUp
  <2>2. was_notified' \in BOOLEAN /\ (~ GivesUp => was_notified')
    BY <1>11 DEF Retry
  <2>3. wnc' \in {0, wnc + 1} /\ (~ GivesUp => wnc' = wnc + 1)
    BY <1>11, Zenon DEF Retry
  <2>4. pc = "wait" /\ pc' = "fetch" /\ ~ new_notify
        /\ UNCHANGED <<tip, got, p1, told, new_notify, errors>>
    BY <1>11 DEF Retry, flags, bounds
  <2> QED BY <2>1, <2>2, <2>3, <2>4
<1> QED BY <1>1, <1>2, <1>3, <1>4, <1>5, <1>6, <1>7, <1>8, <1>9, <1>10, <1>11
        DEF Thread

(* A step that changes nothing. *)
LEMMA ServedStutter ==
  ASSUME ServedInvariant, UNCHANGED ringVars
  PROVE  ServedInvariant'
  BY DEF ringVars, thread, flags, bounds, ServedInvariant, Counters, Behind,
         OldAnswer, Pending

(* A block the thread was told of is fetched before it settles for a full
   wait (datum_gateway_template_thread): the flags, was_notified and an answer
   already on its way never lose a notification between them.               *)
THEOREM NoNotificationLost ==
  ASSUME MaxErrors <= MaxRetries
  PROVE  RingSpec => []NotificationServed
<1> USE RingAssumption
<1>1. RingInit => ServedInvariant
  BY ServedInit
<1>2. ServedInvariant /\ [RingNext]_ringVars => ServedInvariant'
  BY ServedWorld, ServedThread, ServedStutter DEF RingNext
<1>3. ServedInvariant => NotificationServed
  BY DEF ServedInvariant, Pending, NotificationServed
<1> QED BY <1>1, <1>2, <1>3, PTL DEF RingSpec

-----------------------------------------------------------------------------
(* Templates in the ring                                                   *)

(* The types, apart: the thread and its flags, and the ring with its jobs. *)
ThreadTypes ==
  /\ tip \in 0..MaxBlock /\ got \in 0..MaxBlock /\ p1 \in 0..MaxBlock
  /\ pc \in {"fetch", "process", "wait"}
  /\ wnc \in 0..MaxRetries /\ quick \in 0..MaxQuick
  /\ new_notify_blockhash \in {Unnamed, FastForward} \cup 0..MaxBlock
  /\ new_notify_height \in Int /\ known \in 0..MaxBlock
  /\ clock \in 0..MaxClock /\ told \in 0..MaxBlock

FlagTypes ==
  /\ was_notified \in BOOLEAN /\ recent \in BOOLEAN
  /\ new_notify \in BOOLEAN /\ notify_othercause \in BOOLEAN

RingTypes ==
  /\ next_template_index \in 0..RingSize - 1 /\ parsed \in Nat
  /\ ring \in [0..RingSize - 1 -> 0..parsed]
  /\ jobs \subseteq [template : 1..parsed, place : 0..RingSize - 1,
                     born : 0..clock]

(* Counted along the ring, the next place lies behind the place of a template
   by as many places as templates have been parsed since.                   *)
AheadOf(next, made, place, template) ==
  \/ next = place + (made - template) + 1
  \/ next = place + (made - template) + 1 - RingSize

(* A template that is not older than the ring is where its job points to. *)
KeptFor(j) ==
  parsed < j.template + RingSize =>
    /\ ring[j.place] = j.template
    /\ AheadOf(next_template_index, parsed, j.place, j.template)

RingInv == ThreadTypes /\ FlagTypes /\ RingTypes /\ \A j \in jobs : KeptFor(j)

(* The parts make up the types of the module. *)
LEMMA TypeParts == RingTypeOK <=> ThreadTypes /\ FlagTypes /\ RingTypes
  BY DEF RingTypeOK, ThreadTypes, FlagTypes, RingTypes, Places

(* The numbers the actions put in, and the bounds they keep to. *)
LEMMA RingConstants ==
  ASSUME Sizes
  PROVE  /\ RingSize \in Nat \ {0} /\ MaxRetries \in Nat /\ MaxQuick \in Nat
         /\ MaxBlock \in Nat /\ MaxClock \in Nat
         /\ Unnamed = 0 - 1 /\ FastForward = 0 - 2
  BY DEF Sizes, Unnamed, FastForward

(* What the world does keeps the thread and the flags within their types. *)
LEMMA WorldTypes ==
  ASSUME Sizes, ThreadTypes, FlagTypes, World
  PROVE  ThreadTypes' /\ FlagTypes'
<1> USE RingConstants
<1>1. \A hash, height \in Int :
        NotifyNew(hash, height) =>
          new_notify_blockhash' = hash /\ new_notify_height' \in Int
  BY DEF NotifyNew, ThreadTypes
<1>2. ThreadTypes'
  <2>1. CASE NewBlock
    BY <2>1 DEF NewBlock, ThreadTypes, thread, flags
  <2>2. CASE BlockSignal
    BY <2>2 DEF BlockSignal, ThreadTypes, thread
  <2>3. CASE Fallback
    <3>1. NotifyNew(tip, 0) /\ tip \in 0..MaxBlock /\ known' = tip /\ told' = tip
      BY <2>3 DEF Fallback, ThreadTypes
    <3>2. UNCHANGED <<tip, pc, got, p1, wnc, quick, clock>>
      BY <2>3 DEF Fallback, thread
    <3>3. new_notify_blockhash' = tip /\ new_notify_height' \in Int
      BY <1>1, <3>1
    <3>4. QED
      BY <3>1, <3>2, <3>3 DEF ThreadTypes
  <2>4. CASE OwnBlock
    <3>1. UNCHANGED <<pc, got, p1, wnc, quick, known, clock>>
      BY <2>4 DEF OwnBlock, thread
    <3>2. CASE tip' = tip + 1 /\ told' = tip + 1 /\ tip < MaxBlock
               /\ NotifyNew(tip + 1, tip + 2)
      <4>1. tip \in 0..MaxBlock
        BY DEF ThreadTypes
      <4>2. new_notify_blockhash' = tip + 1 /\ new_notify_height' \in Int
        BY <1>1, <3>2, <4>1
      <4>3. QED
        BY <3>1, <3>2, <4>1, <4>2 DEF ThreadTypes
    <3>3. CASE NotifyNew(Unnamed, p1 + 2) /\ UNCHANGED <<tip, told>>
      <4>1. p1 \in 0..MaxBlock
        BY DEF ThreadTypes
      <4>2. new_notify_blockhash' = Unnamed /\ new_notify_height' \in Int
        BY <1>1, <3>3, <4>1
      <4>3. QED
        BY <3>1, <3>3, <4>2 DEF ThreadTypes
    <3>4. QED
      BY <2>4, <3>2, <3>3 DEF OwnBlock
  <2>5. CASE Urgent
    <3>1. UNCHANGED <<tip, pc, got, p1, wnc, quick, known, told, clock>>
      BY <2>5 DEF Urgent, thread
    <3>2. CASE UNCHANGED <<new_notify_blockhash, new_notify_height>>
      BY <3>1, <3>2 DEF ThreadTypes
    <3>3. CASE NotifyNew(FastForward, MaxBlock + 2)
      <4>1. new_notify_blockhash' = FastForward /\ new_notify_height' \in Int
        BY <1>1, <3>3
      <4>2. QED
        BY <3>1, <4>1 DEF ThreadTypes
    <3>4. QED
      BY <2>5, <3>2, <3>3 DEF Urgent
  <2>6. CASE TimePasses
    BY <2>6 DEF TimePasses, ThreadTypes, flags
  <2>7. QED
    BY <2>1, <2>2, <2>3, <2>4, <2>5, <2>6 DEF World
<1>3. FlagTypes'
  BY Zenon DEF World, NewBlock, BlockSignal, Fallback, OwnBlock, Urgent, TimePasses,
               NotifyNew, FlagTypes, thread, flags
<1>4. QED
  BY <1>2, <1>3

(* And so does the thread. *)
LEMMA ThreadStepTypes ==
  ASSUME Sizes, ThreadTypes, FlagTypes, Thread
  PROVE  ThreadTypes' /\ FlagTypes'
<1> USE RingConstants
<1>1. ThreadTypes'
  <2>1. CASE Fetch BY <2>1 DEF Fetch, ThreadTypes, flags
  <2>2. CASE ParseError BY <2>2 DEF ParseError, ThreadTypes, flags
  <2>3. CASE ProcessNewBlock BY <2>3 DEF ProcessNewBlock, ThreadTypes
  <2>4. CASE ProcessUrgent BY <2>4 DEF ProcessUrgent, ThreadTypes
  <2>5. CASE ProcessNormal BY <2>5 DEF ProcessNormal, ThreadTypes, flags
  <2>6. CASE ProcessNotified
    BY <2>6 DEF ProcessNotified, ThreadTypes, flags
  <2>7. CASE ProcessFastForward
    <3>1. new_notify_height' \in Int
      BY <2>7 DEF ProcessFastForward, ThreadTypes
    <3>2. new_notify_blockhash' = Unnamed /\ pc' = "wait"
          /\ UNCHANGED <<tip, got, p1, wnc, quick, known, told, clock>>
      BY <2>7 DEF ProcessFastForward
    <3>3. QED
      BY <3>1, <3>2 DEF ThreadTypes
  <2>8. CASE Woken BY <2>8 DEF Woken, ThreadTypes
  <2>9. CASE FullWait BY <2>9 DEF FullWait, ThreadTypes, flags
  <2>10. CASE QuickWait BY <2>10 DEF QuickWait, ThreadTypes, flags
  <2>11. CASE Retry
    <3>1. wnc' \in {0, wnc + 1} /\ (~ GivesUp => wnc' = wnc + 1)
      BY <2>11, Zenon DEF Retry
    <3>2. GivesUp => wnc' = 0
      BY <2>11, Zenon DEF Retry
    <3>3. wnc' \in 0..MaxRetries
      BY <3>1, <3>2 DEF GivesUp, ThreadTypes
    <3>4. pc' = "fetch" /\ UNCHANGED <<tip, got, p1, quick, flags, clock>>
      BY <2>11 DEF Retry
    <3>5. QED
      BY <3>3, <3>4 DEF ThreadTypes, flags
  <2>12. QED
    BY <2>1, <2>2, <2>3, <2>4, <2>5, <2>6, <2>7, <2>8, <2>9, <2>10, <2>11
       DEF Thread
<1>2. FlagTypes'
  <2>1. was_notified' \in BOOLEAN
    BY Zenon DEF Thread, Fetch, ParseError, ProcessNewBlock, ProcessUrgent,
       ProcessNormal, ProcessNotified, ProcessFastForward, Woken, FullWait,
       QuickWait, Retry, FlagTypes
  <2>2. recent' \in BOOLEAN
    BY Zenon DEF Thread, Fetch, ParseError, ProcessNewBlock, ProcessUrgent,
       ProcessNormal, ProcessNotified, ProcessFastForward, Woken, FullWait,
       QuickWait, Retry, FlagTypes
  <2>3. new_notify' \in BOOLEAN /\ notify_othercause' \in BOOLEAN
    BY Zenon DEF Thread, Fetch, ParseError, ProcessNewBlock, ProcessUrgent,
       ProcessNormal, ProcessNotified, ProcessFastForward, Woken, FullWait,
       QuickWait, Retry, FlagTypes, flags
  <2>4. QED
    BY <2>1, <2>2, <2>3 DEF FlagTypes
<1>3. QED
  BY <1>1, <1>2

(* One place on: as long as the template is not older than the ring, the place
   that is taken is not its own, and the next place lies one further ahead.  *)
LEMMA OnePlaceOn ==
  ASSUME Sizes, NEW next \in 0..RingSize - 1, NEW made \in Nat,
         NEW place \in 0..RingSize - 1, NEW template \in 1..made,
         NEW after \in 0..RingSize - 1,
         after = next + 1 \/ after = next + 1 - RingSize,
         AheadOf(next, made, place, template),
         made + 1 < template + RingSize
  PROVE  next # place /\ AheadOf(after, made + 1, place, template)
  BY RingConstants DEF AheadOf

(* A job as the template thread makes it of the template it has just parsed. *)
Made == [template |-> parsed + 1, place |-> next_template_index, born |-> clock]

(* get_next_template_ptr: the place that is taken is that of a template parsed
   RingSize templates ago.                                                  *)
LEMMA TakePlaceStep ==
  ASSUME Sizes, RingInv, TakePlace, jobs' \subseteq jobs \cup {Made}, clock' = clock
  PROVE  RingTypes' /\ \A j \in jobs' : KeptFor(j)'
<1>1. /\ parsed \in Nat /\ next_template_index \in 0..RingSize - 1
      /\ ring \in [0..RingSize - 1 -> 0..parsed] /\ clock \in Nat
      /\ RingSize \in Nat \ {0}
  BY RingConstants DEF RingInv, ThreadTypes, RingTypes
<1>2. /\ parsed' = parsed + 1
      /\ ring' = [ring EXCEPT ![next_template_index] = parsed + 1]
  BY DEF TakePlace
<1>3. next_template_index' = IF next_template_index + 1 >= RingSize THEN 0
                             ELSE next_template_index + 1
  BY DEF TakePlace, NextPlace
<1>4. /\ next_template_index' \in 0..RingSize - 1
      /\ \/ next_template_index' = next_template_index + 1
         \/ next_template_index' = next_template_index + 1 - RingSize
  BY <1>1, <1>3
<1>5. ring' \in [0..RingSize - 1 -> 0..parsed']
  BY <1>1, <1>2
<1>6. ASSUME NEW j \in jobs'
      PROVE  /\ j \in [template : 1..parsed', place : 0..RingSize - 1,
                        born : 0..clock]
             /\ KeptFor(j)'
  <2>1. CASE j = Made
    <3>1. /\ j.template = parsed + 1 /\ j.place = next_template_index
          /\ j \in [template : 1..parsed', place : 0..RingSize - 1,
                     born : 0..clock]
      BY <1>1, <1>2, <2>1 DEF Made
    <3>2. ring'[j.place] = j.template
      BY <1>1, <1>2, <3>1
    <3>3. AheadOf(next_template_index', parsed', j.place, j.template)
      BY <1>1, <1>2, <1>4, <3>1 DEF AheadOf
    <3>4. QED
      BY <3>1, <3>2, <3>3 DEF KeptFor
  <2>2. CASE j \in jobs
    <3>1. j \in [template : 1..parsed, place : 0..RingSize - 1, born : 0..clock]
      BY <2>2 DEF RingInv, RingTypes
    <3>2. j.template \in 1..parsed /\ j.place \in 0..RingSize - 1
      BY <3>1
    <3>3. j \in [template : 1..parsed', place : 0..RingSize - 1, born : 0..clock]
      BY <1>1, <1>2, <3>1
    <3>4. ASSUME parsed' < j.template + RingSize
          PROVE  /\ ring'[j.place] = j.template
                 /\ AheadOf(next_template_index', parsed', j.place, j.template)
      <4>1. ring[j.place] = j.template /\ AheadOf(next_template_index, parsed, j.place, j.template)
        <5>1. parsed < j.template + RingSize
          BY <1>1, <1>2, <3>2, <3>4
        <5>2. KeptFor(j)
          BY <2>2 DEF RingInv
        <5>3. QED
          BY <5>1, <5>2, Zenon DEF KeptFor
      <4>2. /\ next_template_index # j.place
            /\ AheadOf(next_template_index', parsed', j.place, j.template)
        BY <1>1, <1>2, <1>4, <3>2, <3>4, <4>1, OnePlaceOn
      <4>3. ring'[j.place] = ring[j.place]
        BY <1>1, <1>2, <3>2, <4>2
      <4>4. QED
        BY <4>1, <4>2, <4>3
    <3>5. QED
      BY <3>3, <3>4 DEF KeptFor
  <2>3. QED
    BY <2>1, <2>2
<1>7. RingTypes'
  BY <1>1, <1>2, <1>4, <1>5, <1>6 DEF RingTypes
<1>8. QED
  BY <1>6, <1>7

(* What takes a place, and what makes a job of it. *)
Parses ==
  \/ ParseError \/ ProcessNewBlock \/ ProcessUrgent \/ ProcessNormal
  \/ ProcessNotified \/ ProcessFastForward

(* The template thread parses a template, whatever it does with it. *)
LEMMA RingParses ==
  ASSUME Sizes, RingInv, Parses
  PROVE  RingTypes' /\ \A j \in jobs' : KeptFor(j)'
<1>1. TakePlace /\ clock' = clock
  BY DEF Parses, ParseError, ProcessNewBlock, ProcessUrgent, ProcessNormal,
         ProcessNotified, ProcessFastForward
<1>2. jobs' \subseteq jobs \cup {Made}
  BY DEF Parses, ParseError, ProcessNewBlock, ProcessUrgent, ProcessNormal,
         ProcessNotified, ProcessFastForward, Publish, Made
<1>3. QED
  BY <1>1, <1>2, TakePlaceStep

(* Everything else leaves the ring alone and at most forgets jobs. *)
LEMMA RingRests ==
  ASSUME Sizes, RingInv, UNCHANGED templates, jobs' \subseteq jobs,
         clock' = clock \/ clock' = clock + 1
  PROVE  RingTypes' /\ \A j \in jobs' : KeptFor(j)'
<1>1. /\ UNCHANGED <<next_template_index, ring, parsed>>
      /\ clock \in Nat /\ clock' \in Nat /\ clock <= clock'
  BY RingConstants DEF templates, RingInv, ThreadTypes
<1>2. jobs \subseteq [template : 1..parsed, place : 0..RingSize - 1,
                     born : 0..clock']
  <2>1. 0..clock \subseteq 0..clock'
    BY <1>1
  <2>2. QED
    BY <2>1 DEF RingInv, RingTypes
<1>3. RingTypes'
  BY <1>1, <1>2 DEF RingInv, RingTypes
<1>4. \A j \in jobs' : KeptFor(j)'
  BY <1>1 DEF RingInv, KeptFor
<1>5. QED
  BY <1>3, <1>4

(* Every step keeps the ring. *)
LEMMA RingStep ==
  ASSUME Sizes, RingInv, [RingNext]_ringVars
  PROVE  RingInv'
<1>1. CASE Parses
  BY <1>1, RingParses, ThreadStepTypes DEF RingInv, Parses, Thread
<1>2. CASE World
  <2>1. UNCHANGED templates /\ jobs' = jobs /\ clock' = clock
    BY <1>2 DEF World, NewBlock, BlockSignal, Fallback, OwnBlock, Urgent, TimePasses
  <2>2. QED
    BY <1>2, <2>1, RingRests, WorldTypes DEF RingInv
<1>3. CASE Fetch \/ Woken \/ QuickWait \/ Retry \/ FullWait
  <2>1. UNCHANGED templates /\ jobs' \subseteq jobs
        /\ (clock' = clock \/ clock' = clock + 1)
    BY <1>3 DEF Fetch, Woken, QuickWait, Retry, FullWait, StillAccepted
  <2>2. QED
    BY <1>3, <2>1, RingRests, ThreadStepTypes DEF RingInv, Thread
<1>4. CASE UNCHANGED ringVars
  <2>1. UNCHANGED templates /\ jobs' = jobs /\ clock' = clock
    BY <1>4 DEF ringVars
  <2>2. ThreadTypes' /\ FlagTypes'
    BY <1>4 DEF ringVars, thread, flags, RingInv, ThreadTypes, FlagTypes
  <2>3. QED
    BY <2>1, <2>2, RingRests DEF RingInv
<1>5. QED
  BY <1>1, <1>2, <1>3, <1>4 DEF RingNext, Thread, Parses

(* The first template is in place 0. *)
LEMMA RingStarts ==
  ASSUME Sizes, RingInit
  PROVE  RingInv
<1> USE RingConstants
<1>1. 1 % RingSize = IF RingSize = 1 THEN 0 ELSE 1
  OBVIOUS
<1>2. /\ 0 \in 0..RingSize - 1 /\ next_template_index \in 0..RingSize - 1
      /\ next_template_index = (IF RingSize = 1 THEN 0 ELSE 1)
  BY <1>1 DEF RingInit
<1>3. ring \in [0..RingSize - 1 -> 0..1] /\ ring[0] = 1
  BY <1>2 DEF RingInit, Places
<1>4. /\ parsed = 1 /\ clock = 0
      /\ jobs = {[template |-> 1, place |-> 0, born |-> 0]}
  BY DEF RingInit
<1>5. RingTypes
  BY <1>2, <1>3, <1>4 DEF RingTypes
<1>6. ThreadTypes
  BY DEF RingInit, ThreadTypes
<1>7. FlagTypes
  BY Zenon DEF RingInit, FlagTypes
<1>8. ASSUME NEW j \in jobs PROVE KeptFor(j)
  <2>1. j.place = 0 /\ j.template = 1
    BY <1>4
  <2>2. AheadOf(next_template_index, parsed, j.place, j.template)
    BY <1>2, <1>4, <2>1 DEF AheadOf
  <2>3. QED
    BY <1>3, <2>1, <2>2 DEF KeptFor
<1>9. QED
  BY <1>5, <1>6, <1>7, <1>8 DEF RingInv

(* datum_blocktemplates.h:53: a job finds its own template where it points to,
   until RingSize more have been parsed, for a ring of any size and whatever
   the thread makes of its templates.  With RingSize = MAX_TEMPLATES_IN_MEMORY
   these are 32 templates; how long that lasts is another question.         *)
THEOREM LastTemplatesKeptAlways ==
  RingSpec => []LastTemplatesKept
<1> USE RingAssumption
<1>1. RingInit => RingInv
  BY RingStarts
<1>2. RingInv /\ [RingNext]_ringVars => RingInv'
  BY RingStep
<1>3. RingInv => LastTemplatesKept
  BY TypeParts DEF RingInv, KeptFor, LastTemplatesKept
<1>4. QED
  BY <1>1, <1>2, <1>3, PTL DEF RingSpec
=============================================================================
