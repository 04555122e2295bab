----------------------------- MODULE TemplateRing -----------------------------
(***************************************************************************)
(* The template thread of datum_blocktemplates.c: when it asks the node    *)
(* for a block template, when it turns the template into a stratum job,    *)
(* and how long the template stays in memory.                              *)
(*                                                                         *)
(* Notifications of new blocks come from a signal, the web interface, the  *)
(* pool, the fallback thread that polls the node, and from blocks found    *)
(* by our own miners.  The last two name the block.  A notification that   *)
(* does not lead to a new block makes the thread ask again every quarter   *)
(* of a second, and each answer takes a place in the ring of templates,    *)
(* job or no job.                                                          *)
(*                                                                         *)
(* Blocks are numbered by height; the template after block b is for height *)
(* b + 1.  Time is counted in full waits of work_update_seconds; retries   *)
(* and notifications take much less.                                       *)
(*                                                                         *)
(* Init, Next and Spec have names of their own here, since NodeProofs       *)
(* extends this module and SubmitBlock.                                     *)
(***************************************************************************)
EXTENDS Integers

CONSTANTS
  RingSize,       \* MAX_TEMPLATES_IN_MEMORY
  MaxRetries,     \* retries after a notification, 16 in the code
  AcceptWaits,    \* waits after which shares for a job are stale
  MaxQuick,       \* fast re-cycles of the carousel after a block
  MaxBlock,       \* bound: blocks
  MaxSignals,     \* bound: notifications that do not name a block
  MaxNamed,       \* bound: notifications that do
  MaxUrgent,      \* bound: urgent updates, fast forwards
  MaxErrors,      \* bound: templates that cannot be parsed
  MaxClock        \* bound: full waits

(* The ring has a place, and every bound is a number. *)
Sizes ==
  /\ RingSize \in Nat \ {0} /\ MaxRetries \in Nat /\ AcceptWaits \in Nat
  /\ {MaxQuick, MaxBlock, MaxSignals, MaxNamed, MaxUrgent, MaxErrors,
      MaxClock} \subseteq Nat

ASSUME RingAssumption == Sizes

VARIABLES
  tip,            \* the last block of the node
  pc, got,        \* the thread: where it is, the block its template follows
  p1,             \* ... the block it last knew of
  was_notified, wnc,
  recent,         \* the last block change was less than 2.5 s ago
  quick,          \* fast re-cycles since the last block change
  new_notify,     \* new_notify or new_notify_threadsafe
  new_notify_blockhash, new_notify_height,
  notify_othercause,
  known,          \* the fallback notifier: the best block it last saw
  next_template_index,
  ring,           \* the number of the template in each place
  parsed,         \* templates so far
  jobs,           \* jobs whose shares are accepted
  clock,          \* full waits so far
  told,           \* history: the last block a notification was sent for
  signals, named, urgent, errors

thread == <<pc, got, p1, was_notified, wnc, recent, quick>>
flags == <<new_notify, new_notify_blockhash, new_notify_height,
           notify_othercause, known, told>>
templates == <<next_template_index, ring, parsed>>
bounds == <<signals, named, urgent, errors>>
ringVars == <<tip, thread, flags, templates, jobs, clock, bounds>>

Unnamed == -1             \* new_notify_blockhash is empty or unknown here
FastForward == -2         \* new_notify_blockhash is "T"
Places == 0..RingSize - 1

RingTypeOK ==
  /\ tip \in 0..MaxBlock /\ got \in 0..MaxBlock /\ p1 \in 0..MaxBlock
  /\ pc \in {"fetch", "process", "wait"}
  /\ was_notified \in BOOLEAN /\ wnc \in 0..MaxRetries
  /\ recent \in BOOLEAN /\ quick \in 0..MaxQuick
  /\ new_notify \in BOOLEAN /\ notify_othercause \in BOOLEAN
  /\ new_notify_blockhash \in {Unnamed, FastForward} \cup 0..MaxBlock
  /\ new_notify_height \in Int /\ known \in 0..MaxBlock
  /\ next_template_index \in Places /\ parsed \in Nat
  /\ ring \in [Places -> 0..parsed]
  /\ jobs \subseteq [template : 1..parsed, place : Places, born : 0..clock]
  /\ clock \in 0..MaxClock /\ told \in 0..MaxBlock

(* The thread has its first job out and waits. *)
RingInit ==
  /\ tip = 0 /\ pc = "wait" /\ got = 0 /\ p1 = 0
  /\ was_notified = FALSE /\ wnc = 0 /\ recent = TRUE /\ quick = 0
  /\ new_notify = FALSE /\ notify_othercause = FALSE
  /\ new_notify_blockhash = Unnamed /\ new_notify_height = 0
  /\ known = 0 /\ told = 0
  /\ parsed = 1 /\ next_template_index = 1 % RingSize
  /\ ring = [i \in Places |-> IF i = 0 THEN 1 ELSE 0]
  /\ jobs = {[template |-> 1, place |-> 0, born |-> 0]}
  /\ clock = 0
  /\ signals = 0 /\ named = 0 /\ urgent = 0 /\ errors = 0

-----------------------------------------------------------------------------
(* The world *)

NewBlock ==
  /\ tip < MaxBlock
  /\ tip' = tip + 1
  /\ UNCHANGED <<thread, flags, templates, jobs, clock, bounds>>

(* A signal, the web interface or the pool: no block is named. *)
BlockSignal ==
  /\ signals < MaxSignals
  /\ signals' = signals + 1
  /\ new_notify' = TRUE
  /\ told' = tip
  /\ UNCHANGED <<tip, thread, new_notify_blockhash, new_notify_height,
                 notify_othercause, known, templates, jobs, clock, named,
                 urgent, errors>>

(* datum_blocktemplates_notifynew: the height never goes back. *)
NotifyNew(hash, height) ==
  /\ new_notify' = TRUE
  /\ new_notify_blockhash' = hash
  /\ new_notify_height' = IF height > new_notify_height THEN height
                          ELSE new_notify_height
  /\ UNCHANGED notify_othercause

(* datum_gateway_fallback_notifier *)
Fallback ==
  /\ known # tip
  /\ known' = tip
  /\ NotifyNew(tip, 0)
  /\ told' = tip
  /\ UNCHANGED <<tip, thread, templates, jobs, clock, bounds>>

(* client_mining_submit after a block of ours; the node may have it or not. *)
OwnBlock ==
  /\ named < MaxNamed
  /\ named' = named + 1
  /\ \/ /\ tip = p1 /\ tip < MaxBlock
        /\ tip' = tip + 1 /\ told' = tip + 1
        /\ NotifyNew(tip + 1, tip + 2)
     \/ NotifyNew(Unnamed, p1 + 2) /\ UNCHANGED <<tip, told>>
  /\ UNCHANGED <<thread, known, templates, jobs, clock, signals, urgent,
                 errors>>

(* The pool went away, or the testnet fast forward was asked for. *)
Urgent ==
  /\ urgent < MaxUrgent
  /\ urgent' = urgent + 1
  /\ \/ /\ notify_othercause' = TRUE
        /\ UNCHANGED <<new_notify, new_notify_blockhash, new_notify_height>>
     \/ NotifyNew(FastForward, MaxBlock + 2)
  /\ UNCHANGED <<tip, thread, known, told, templates, jobs, clock, signals,
                 named, errors>>

TimePasses ==
  /\ recent /\ recent' = FALSE
  /\ UNCHANGED <<tip, pc, got, p1, was_notified, wnc, quick, flags, templates,
                 jobs, clock, bounds>>

World == NewBlock \/ BlockSignal \/ Fallback \/ OwnBlock \/ Urgent \/ TimePasses

-----------------------------------------------------------------------------
(* datum_gateway_template_thread *)

(* getblocktemplate answers; without an answer the thread tries again. *)
Fetch ==
  /\ pc = "fetch"
  /\ pc' = "process"
  /\ got' = tip
  /\ UNCHANGED <<tip, p1, was_notified, wnc, recent, quick, flags, templates,
                 jobs, clock, bounds>>

(* Mutant: off by one. *)
NextPlaceLate ==
  IF next_template_index + 1 > RingSize THEN 0 ELSE next_template_index + 1

NextPlace ==
  IF next_template_index + 1 >= RingSize THEN 0 ELSE next_template_index + 1

(* get_next_template_ptr *)
TakePlace ==
  /\ parsed' = parsed + 1
  /\ ring' = [ring EXCEPT ![next_template_index] = parsed + 1]
  /\ next_template_index' = NextPlace

(* update_stratum_job: the template just parsed becomes a job. *)
Publish(others) ==
  jobs' = others \cup {[template |-> parsed + 1, place |-> next_template_index,
                        born |-> clock]}

ParseError ==
  /\ pc = "process" /\ errors < MaxErrors
  /\ errors' = errors + 1
  /\ TakePlace
  /\ pc' = "wait"
  /\ UNCHANGED <<tip, got, p1, was_notified, wnc, recent, quick, flags, jobs,
                 clock, signals, named, urgent>>

(* Mutant: the notification is cleared when the block has been dealt with. *)
ProcessNewBlockClearing ==
  /\ pc = "process" /\ got # p1
  /\ TakePlace /\ Publish({})
  /\ p1' = got
  /\ was_notified' = FALSE /\ recent' = TRUE /\ quick' = 0
  /\ notify_othercause' = FALSE /\ new_notify' = FALSE
  /\ pc' = "wait"
  /\ UNCHANGED <<tip, got, wnc, new_notify_blockhash, new_notify_height, known,
                 told, clock, bounds>>

(* A new block: jobs of the previous one are stale from here on. *)
ProcessNewBlock ==
  /\ pc = "process" /\ got # p1
  /\ TakePlace /\ Publish({})
  /\ p1' = got
  /\ was_notified' = FALSE /\ recent' = TRUE /\ quick' = 0
  /\ notify_othercause' = FALSE
  /\ pc' = "wait"
  /\ UNCHANGED <<tip, got, wnc, new_notify, new_notify_blockhash,
                 new_notify_height, known, told, clock, bounds>>

ProcessUrgent ==
  /\ pc = "process" /\ got = p1 /\ notify_othercause
  /\ TakePlace /\ Publish({})
  /\ notify_othercause' = FALSE
  /\ pc' = "wait"
  /\ UNCHANGED <<tip, got, p1, was_notified, wnc, recent, quick, new_notify,
                 new_notify_blockhash, new_notify_height, known, told, clock,
                 bounds>>

ProcessNormal ==
  /\ pc = "process" /\ got = p1 /\ ~ notify_othercause /\ ~ was_notified
  /\ TakePlace /\ Publish(jobs)
  /\ pc' = "wait"
  /\ UNCHANGED <<tip, got, p1, was_notified, wnc, recent, quick, flags, clock,
                 bounds>>

(* The notification was about a block that is known already. *)
Recognised ==
  /\ new_notify_blockhash = got
  /\ new_notify_height <= 0 \/ new_notify_height = got + 1

(* A notification, but no new block, and so no new job. *)
ProcessNotified ==
  /\ pc = "process" /\ got = p1 /\ ~ notify_othercause /\ was_notified
  /\ new_notify_blockhash # FastForward
  /\ TakePlace
  /\ was_notified' = (~ Recognised /\ ~ recent)
  /\ wnc' = IF Recognised THEN 0 ELSE wnc
  /\ pc' = "wait"
  /\ UNCHANGED <<tip, got, p1, recent, quick, flags, jobs, clock, bounds>>

(* The height that came with the fast forward is a time in the future. *)
ProcessFastForward ==
  /\ pc = "process" /\ got = p1 /\ ~ notify_othercause /\ was_notified
  /\ new_notify_blockhash = FastForward
  /\ TakePlace /\ Publish({})
  /\ was_notified' = FALSE
  /\ new_notify_blockhash' = Unnamed
  /\ new_notify_height' \in {-1, new_notify_height}
  /\ pc' = "wait"
  /\ UNCHANGED <<tip, got, p1, wnc, recent, quick, new_notify,
                 notify_othercause, known, told, clock, bounds>>

-----------------------------------------------------------------------------
(* The wait loop sees a notification. *)
Woken ==
  /\ pc = "wait" /\ new_notify
  /\ new_notify' = FALSE
  /\ was_notified' = TRUE /\ wnc' = 0
  /\ pc' = "fetch"
  /\ UNCHANGED <<tip, got, p1, recent, quick, new_notify_blockhash,
                 new_notify_height, notify_othercause, known, told, templates,
                 jobs, clock, bounds>>

(* Shares for a job are accepted for AcceptWaits waits. *)
StillAccepted == {j \in jobs : clock + 1 - j.born < AcceptWaits}

FullWait ==
  /\ pc = "wait" /\ ~ new_notify /\ ~ was_notified
  /\ clock < MaxClock
  /\ clock' = clock + 1
  /\ jobs' = StillAccepted
  /\ recent' = FALSE /\ quick' = MaxQuick
  /\ pc' = "fetch"
  /\ UNCHANGED <<tip, got, p1, was_notified, wnc, flags, templates, bounds>>

(* The carousel's fast re-cycle in the first seconds of a block. *)
QuickWait ==
  /\ pc = "wait" /\ ~ new_notify /\ ~ was_notified
  /\ quick < MaxQuick
  /\ quick' = quick + 1
  /\ recent' = FALSE
  /\ pc' = "fetch"
  /\ UNCHANGED <<tip, got, p1, was_notified, wnc, flags, templates, jobs,
                 clock, bounds>>

GivesUp == wnc + 1 > MaxRetries

Retry ==
  /\ pc = "wait" /\ ~ new_notify /\ was_notified
  /\ IF GivesUp
     THEN was_notified' = FALSE /\ wnc' = 0
     ELSE wnc' = wnc + 1 /\ UNCHANGED was_notified
  /\ pc' = "fetch"
  /\ UNCHANGED <<tip, got, p1, recent, quick, flags, templates, jobs, clock,
                 bounds>>

Thread ==
  \/ Fetch \/ ParseError \/ ProcessNewBlock \/ ProcessUrgent \/ ProcessNormal
  \/ ProcessNotified \/ ProcessFastForward
  \/ Woken \/ FullWait \/ QuickWait \/ Retry

RingNext == World \/ Thread

RingSpec == RingInit /\ [][RingNext]_ringVars

-----------------------------------------------------------------------------
(* Properties *)

(* datum_blocktemplates.h:53, "32*30 seconds = 16 minutes of work remembered":
   a job keeps a pointer into the ring, and finds its own template there until
   RingSize more have been parsed, by whatever branch of the thread and whether
   they became jobs or not.                                                 *)
LastTemplatesKept ==
  /\ RingTypeOK
  /\ \A j \in jobs : parsed < j.template + RingSize =>
                       ring[j.place] = j.template

(* A notification is never lost between the flags, was_notified and an answer
   that was on its way: as long as the thread does not know the block it was
   told of, it asks again before it settles for a full wait.                *)
NotificationServed == p1 < told => new_notify \/ was_notified
=============================================================================
