----------------------------- MODULE SubmitBlock -----------------------------
(***************************************************************************)
(* How a found block reaches the nodes: datum_submitblock.c and the caller *)
(* of it, assembleBlockAndSubmit of datum_stratum.c.                       *)
(*                                                                         *)
(* A stratum thread that finds a block writes the submitblock request into *)
(* the one buffer it owns, hands a pointer to that buffer to the submit    *)
(* thread through a one-place slot (one mutex, one condition variable for  *)
(* both sides), and then also calls the local node itself.  The submit     *)
(* thread keeps the mutex while it sends the request to the local node and *)
(* to the extra ones, with retries; it reads the buffer at every attempt.  *)
(*                                                                         *)
(* The mutex is held across steps by the submit thread only, exactly while *)
(* it is past TakeBlock; every other critical section is one step.         *)
(***************************************************************************)
EXTENDS Integers, Sequences, FiniteSets

CONSTANTS
  Workers,        \* stratum threads
  NoOne,          \* the null submitblock_ptr
  MaxBlocks,      \* bound: blocks one thread finds
  MaxFound,       \* bound: blocks all threads find
  ExtraNodes,     \* extra_block_submissions_count
  MaxAttempts,    \* DATUM_SUBMITBLOCK_MAX_ATTEMPTS
  MaxPrecious,    \* the 5 attempts of preciousblock
  BackoffStart,   \* DATUM_SUBMITBLOCK_BACKOFF_MS
  BackoffMax      \* DATUM_SUBMITBLOCK_BACKOFF_MAX_MS

ASSUME SubmitAssumption ==
  /\ MaxBlocks \in Nat \ {0} /\ MaxFound \in Nat /\ ExtraNodes \in Nat
  /\ MaxAttempts \in Nat \ {0} /\ MaxPrecious \in Nat \ {0}
  /\ BackoffStart \in Nat \ {0} /\ BackoffMax \in Nat \ {0}
  /\ "submitter" \notin Workers
  /\ NoOne \notin Workers

VARIABLES
  submit_block_triggered, submitblock_ptr, submitblock_hash,  \* the slot
  waiting,       \* threads inside pthread_cond_wait
  payload,       \* per worker, what its submitblock_req buffer holds
  state,         \* per worker, the point it has reached
  found,         \* per worker, blocks found so far
  step,          \* the point the submit thread has reached
  node,          \* the node it is sending to; 0 is the local one
  attempt,       \* attempt number of the running retry loop
  backoff_ms,    \* how long a failed attempt sleeps
  handed,        \* history: blocks put into the slot, in order
  served,        \* history: blocks the submit thread is done with, in order
  sent,          \* history: <<node, request>> of the submit thread
  accepted,      \* history: requests of the submit thread that some node
                 \* answered with a null result
  claims,        \* history: blocks it logged as submitted successfully
  overwritten    \* history: blocks in the slot when their thread began to
                 \* write its next request into the same buffer

slot == <<submit_block_triggered, submitblock_ptr, submitblock_hash>>
retry == <<step, node, attempt, backoff_ms>>
history == <<handed, served, sent, accepted, claims, overwritten>>
vars == <<slot, waiting, payload, state, found, retry, history>>

Block == Workers \X (1..MaxBlocks)
Unfinished == <<NoOne, 0>>             \* a buffer that is being written
Threads == Workers \cup {"submitter"}
Nodes == 0..ExtraNodes
Answers == {"accepted", "rejected", "unusable", "none"}

MaxTries == IF MaxAttempts >= MaxPrecious THEN MaxAttempts ELSE MaxPrecious

TypeOK ==
  /\ submit_block_triggered \in BOOLEAN
  /\ submitblock_ptr \in Workers \cup {NoOne}
  /\ submitblock_hash \in Block \cup {Unfinished}
  /\ waiting \subseteq Threads
  /\ payload \in [Workers -> Block \cup {Unfinished}]
  /\ state \in [Workers -> {"idle", "build", "trigger", "call"}]
  /\ found \in [Workers -> 0..MaxBlocks]
  /\ step \in {"check", "send", "precious"}
  /\ node \in Nodes
  /\ attempt \in 1..MaxTries
  /\ backoff_ms \in Nat
  /\ handed \in Seq(Block)
  /\ served \in Seq(Block)
  /\ sent \subseteq Nodes \X (Block \cup {Unfinished})
  /\ accepted \subseteq Block
  /\ claims \subseteq Block
  /\ overwritten \subseteq Block

Init ==
  /\ submit_block_triggered = FALSE
  /\ submitblock_ptr = NoOne
  /\ submitblock_hash = Unfinished
  /\ waiting = {}
  /\ payload = [w \in Workers |-> Unfinished]
  /\ state = [w \in Workers |-> "idle"]
  /\ found = [w \in Workers |-> 0]
  /\ step = "check" /\ node = 0 /\ attempt = 1 /\ backoff_ms = BackoffStart
  /\ handed = << >> /\ served = << >>
  /\ sent = {} /\ accepted = {} /\ claims = {} /\ overwritten = {}

MutexFree == step = "check"
SlotFree == ~ submit_block_triggered /\ submitblock_ptr = NoOne

(* pthread_cond_signal wakes one waiting thread, if there is one. *)
Signal == IF waiting = {} THEN waiting' = {}
          ELSE \E t \in waiting : waiting' = waiting \ {t}

(* What a node can answer to a request: only a finished one is a block. *)
AnswersTo(request) ==
  IF request \in Block THEN Answers ELSE Answers \ {"accepted"}

NoteAnswer(request, answer) ==
  accepted' = IF answer = "accepted" THEN accepted \cup {request} ELSE accepted

-----------------------------------------------------------------------------
(* assembleBlockAndSubmit, on a stratum thread                             *)

BlockOf(w) == <<w, found[w]>>

Found == {b \in Block : b[2] <= found[b[1]]}

(* A share met the block target: start writing the request, whether the one
   before is still in the slot or not.                                      *)
FindBlock(w) ==
  /\ state[w] = "idle" /\ found[w] < MaxBlocks /\ Cardinality(Found) < MaxFound
  /\ found' = [found EXCEPT ![w] = @ + 1]
  /\ payload' = [payload EXCEPT ![w] = Unfinished]
  /\ state' = [state EXCEPT ![w] = "build"]
  /\ overwritten' = IF submitblock_ptr = w THEN overwritten \cup {submitblock_hash}
                    ELSE overwritten
  /\ UNCHANGED <<slot, waiting, retry, handed, served, sent, accepted, claims>>

FinishRequest(w) ==
  /\ state[w] = "build"
  /\ payload' = [payload EXCEPT ![w] = BlockOf(w)]
  /\ state' = [state EXCEPT ![w] = "trigger"]
  /\ UNCHANGED <<slot, waiting, found, retry, history>>

(* datum_submitblock_trigger: the slot is taken, wait for it. *)
AwaitSlot(w) ==
  /\ state[w] = "trigger" /\ w \notin waiting
  /\ MutexFree /\ ~ SlotFree
  /\ waiting' = waiting \cup {w}
  /\ UNCHANGED <<slot, payload, state, found, retry, history>>

(* Mutant: the slot is filled without a look at whether it is free. *)
TriggerUnchecked(w) ==
  /\ state[w] = "trigger" /\ w \notin waiting
  /\ MutexFree
  /\ submitblock_ptr' = w
  /\ submitblock_hash' = BlockOf(w)
  /\ submit_block_triggered' = TRUE
  /\ Signal
  /\ handed' = Append(handed, BlockOf(w))
  /\ state' = [state EXCEPT ![w] = "call"]
  /\ UNCHANGED <<payload, found, retry, served, sent, accepted, claims,
                 overwritten>>

(* datum_submitblock_trigger: fill the slot. *)
Trigger(w) ==
  /\ state[w] = "trigger" /\ w \notin waiting
  /\ MutexFree /\ SlotFree
  /\ submitblock_ptr' = w
  /\ submitblock_hash' = BlockOf(w)
  /\ submit_block_triggered' = TRUE
  /\ Signal
  /\ handed' = Append(handed, BlockOf(w))
  /\ state' = [state EXCEPT ![w] = "call"]
  /\ UNCHANGED <<payload, found, retry, served, sent, accepted, claims,
                 overwritten>>

(* The stratum thread's own call, whatever the node answers and whether
   curl_easy_init gave it a handle or not: it writes a line to the log.     *)
CallNode(w) ==
  /\ state[w] = "call"
  /\ state' = [state EXCEPT ![w] = "idle"]
  /\ UNCHANGED <<slot, waiting, payload, found, retry, history>>

-----------------------------------------------------------------------------
(* datum_submitblock_thread                                                *)

SleepOnCond ==
  /\ step = "check" /\ "submitter" \notin waiting
  /\ ~ submit_block_triggered
  /\ waiting' = waiting \cup {"submitter"}
  /\ UNCHANGED <<slot, payload, state, found, retry, history>>

(* The block is named by submitblock_hash; the slot stays filled. *)
TakeBlock ==
  /\ step = "check" /\ "submitter" \notin waiting
  /\ submit_block_triggered
  /\ step' = "send" /\ node' = 0 /\ attempt' = 1
  /\ backoff_ms' = BackoffStart
  /\ UNCHANGED <<slot, waiting, payload, state, found, history>>

Request == payload[submitblock_ptr]

NoteSent == sent' = sent \cup {<<node, Request>>}

NextBackoff == IF backoff_ms < BackoffMax THEN 2 * backoff_ms ELSE backoff_ms

(* datum_submitblock_doit: no reply, so sleep and try again. *)
SendUnanswered ==
  /\ step = "send" /\ attempt < MaxAttempts
  /\ NoteSent
  /\ attempt' = attempt + 1
  /\ backoff_ms' = NextBackoff
  /\ UNCHANGED <<slot, waiting, payload, state, found, step, node, handed,
                 served, accepted, claims, overwritten>>

(* Mutant: no usable reply is logged as success, as before the retries. *)
SendLastOptimistic ==
  /\ step = "send"
  /\ NoteSent
  /\ \E answer \in AnswersTo(Request) :
       /\ answer = "none" => attempt = MaxAttempts
       /\ NoteAnswer(Request, answer)
       /\ claims' = IF answer # "rejected"
                    THEN claims \cup {submitblock_hash}
                    ELSE claims
  /\ step' = "precious" /\ attempt' = 1
  /\ UNCHANGED <<slot, waiting, payload, state, found, node, backoff_ms,
                 handed, served, overwritten>>

(* datum_submitblock_doit: a reply, or the last attempt without one. *)
SendLast ==
  /\ step = "send"
  /\ NoteSent
  /\ \E answer \in AnswersTo(Request) :
       /\ answer = "none" => attempt = MaxAttempts
       /\ NoteAnswer(Request, answer)
       /\ claims' = IF answer = "accepted"
                    THEN claims \cup {submitblock_hash}
                    ELSE claims
  /\ step' = "precious" /\ attempt' = 1
  /\ UNCHANGED <<slot, waiting, payload, state, found, node, backoff_ms,
                 handed, served, overwritten>>

(* preciousblock: no reply, try again. *)
PreciousUnanswered ==
  /\ step = "precious" /\ attempt < MaxPrecious
  /\ attempt' = attempt + 1
  /\ UNCHANGED <<slot, waiting, payload, state, found, step, node,
                 backoff_ms, history>>

(* Mutant: the last of the extra nodes is left out. *)
NoNodeLeftShort == node + 1 >= ExtraNodes

NoNodeLeft == node = ExtraNodes

(* preciousblock returned, answered or not; the next extra node. *)
NextNode ==
  /\ step = "precious" /\ ~ NoNodeLeft
  /\ step' = "send" /\ node' = node + 1 /\ attempt' = 1
  /\ backoff_ms' = BackoffStart
  /\ UNCHANGED <<slot, waiting, payload, state, found, history>>

(* Mutant: finishing wakes only one of the threads that wait. *)
WakeAllSignal == Signal

(* pthread_cond_broadcast *)
WakeAll == waiting' = {}

(* Mutant: the pointer to the sent request stays in the slot. *)
FinishBlockKeepsPtr ==
  /\ step = "precious" /\ NoNodeLeft
  /\ submit_block_triggered' = FALSE
  /\ WakeAll
  /\ step' = "check"
  /\ served' = Append(served, submitblock_hash)
  /\ UNCHANGED <<submitblock_ptr, submitblock_hash, payload, state, found, node,
                 attempt, backoff_ms, handed, sent, accepted, claims, overwritten>>

(* preciousblock returned and no node is left: empty the slot. *)
FinishBlock ==
  /\ step = "precious" /\ NoNodeLeft
  /\ submitblock_ptr' = NoOne
  /\ submit_block_triggered' = FALSE
  /\ WakeAll
  /\ step' = "check"
  /\ served' = Append(served, submitblock_hash)
  /\ UNCHANGED <<submitblock_hash, payload, state, found, node, attempt,
                 backoff_ms, handed, sent, accepted, claims, overwritten>>

(* POSIX allows pthread_cond_wait to return without a signal. *)
SpuriousWakeup(t) ==
  /\ t \in waiting
  /\ waiting' = waiting \ {t}
  /\ UNCHANGED <<slot, payload, state, found, retry, history>>

-----------------------------------------------------------------------------
Submitter ==
  \/ SleepOnCond \/ TakeBlock \/ SendUnanswered \/ SendLast
  \/ PreciousUnanswered \/ NextNode \/ FinishBlock

Worker(w) ==
  FinishRequest(w) \/ AwaitSlot(w) \/ Trigger(w) \/ CallNode(w)

Next ==
  \/ Submitter
  \/ \E w \in Workers : FindBlock(w) \/ Worker(w)
  \/ \E t \in Threads : SpuriousWakeup(t)

Spec == Init /\ [][Next]_vars

(* Every thread keeps running; no block has to be found. *)
Fairness == WF_vars(Submitter) /\ \A w \in Workers : WF_vars(Worker(w))

FairSpec == Spec /\ Fairness

-----------------------------------------------------------------------------
(* Properties                                                              *)

(* One condition variable serves both directions and datum_submitblock_trigger
   signals only one thread.  Nobody is left asleep on a condition that holds:
   not the submit thread on a filled slot, not a stratum thread on a free one. *)
NoMissedWakeup ==
  /\ submit_block_triggered => "submitter" \notin waiting
  /\ SlotFree => waiting \cap Workers = {}

(* The two flags of the slot agree (the NULL check of the submit thread never
   fails), the hash in it belongs to the thread whose buffer is pointed to,
   and the slot stays filled as long as the block is being sent.            *)
SlotInv ==
  /\ submit_block_triggered <=> submitblock_ptr # NoOne
  /\ submit_block_triggered => /\ submitblock_hash \in Block
                               /\ submitblock_hash[1] = submitblock_ptr
  /\ step # "check" => submit_block_triggered

(* A stratum thread sleeps only on its way into the slot, and one that is
   busy is busy with a block.                                               *)
WorkerInv ==
  \A w \in Workers : /\ w \in waiting => state[w] = "trigger"
                     /\ state[w] # "idle" => found[w] \in 1..MaxBlocks

(* The inductive invariant behind NoMissedWakeup. *)
SubmitInv == TypeOK /\ SlotInv /\ WorkerInv /\ NoMissedWakeup

(* When the submit thread is done with a block, every configured node has
   been sent exactly that block, unless its thread has found another one
   meanwhile: the thread does not wait, and writes the next request into the
   buffer that is being sent.                                               *)
SentEverywhere ==
  \A i \in 1..Len(served) :
    served[i] \notin overwritten => \A n \in Nodes : <<n, served[i]>> \in sent

(* datum_submitblock.c:57-58: "never claim success without" a real reply.
   A block the submit thread logs as submitted was accepted by a node, unless
   it was overwritten while it was sent: the answer was for another request
   then, and the log names the block of the slot.                           *)
SubmitterClaims ==
  claims \ overwritten \subseteq accepted

Mailbox == INSTANCE FifoQueue
             WITH Item <- Block, Capacity <- 1,
                  pending <- IF submit_block_triggered
                             THEN <<submitblock_hash>> ELSE << >>,
                  delivered <- served

(* The slot is a one-place queue: blocks are served in the order in which
   they were handed over, each once, and none is overwritten.               *)
ImplementsMailbox == Mailbox!FairSpec

(* A block that was found is eventually served, whatever the nodes answer. *)
EveryBlockServed ==
  \A b \in Block :
    (found[b[1]] >= b[2]) ~> (\E i \in 1..Len(served) : served[i] = b)
=============================================================================
