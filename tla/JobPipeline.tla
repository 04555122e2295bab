----------------------------- MODULE JobPipeline -----------------------------
(***************************************************************************)
(* How work reaches the miners: the jobs of the template thread            *)
(* (datum_blocktemplates.c), update_stratum_job and the stratum threads    *)
(* (datum_stratum.c) and the coinbaser thread (datum_coinbaser.c).         *)
(*                                                                         *)
(* A new block makes the template thread publish an "empty plus" job, wait *)
(* until every stratum thread has sent it as empty work, and publish a     *)
(* second job that has priority once the coinbaser thread has filled in    *)
(* its coinbase.  In between it publishes normal jobs, which the stratum   *)
(* threads hand out slowly.  A stratum thread runs a loop: look for a new  *)
(* job, send work if it is time to, then handle its clients' commands.     *)
(*                                                                         *)
(* The coinbaser thread changes a job that is already published.  What a   *)
(* client is told about a BLAKE2b job are two fields of it: the coinbase   *)
(* index, which goes into the job id, and the commitment.  They are        *)
(* written and read one after the other, without a lock.                   *)
(*                                                                         *)
(* Jobs are numbered in order of publication; the 256 places are not       *)
(* reused here.  Of time only the order of events is kept.  When the       *)
(* template thread polls and when it leaves a template alone is the        *)
(* subject of module TemplateRing.                                         *)
(***************************************************************************)
EXTENDS Integers, Sequences, FiniteSets

CONSTANTS
  Threads,       \* stratum threads
  Client,        \* client slots: pairs of a thread and a number from 1
  Started,       \* threads that run, and are counted, in the first state
  NoClient,      \* nobody is being notified
  MaxHeight,     \* bound: height of the last block
  MaxUrgent,     \* bound: urgent updates (notify_othercause, fast forward)
  MaxNormal      \* bound: normal jobs

ASSUME PipelineAssumption ==
  /\ IsFiniteSet(Threads) /\ Started \subseteq Threads
  /\ IsFiniteSet(Client) /\ Client \subseteq Threads \X (Nat \ {0})
  /\ MaxHeight \in Nat \ {0} /\ MaxUrgent \in Nat /\ MaxNormal \in Nat
  /\ NoClient \notin Client

VARIABLES
  \* template thread
  stage,          \* the point it has reached
  height,         \* the block of the last template (p1)
  urgent, normal, \* urgent updates and normal jobs so far
  \* jobs and the statistics of the empty work
  jobs,           \* per job: state, height, need_coinbaser, index, ...
  complete_count, ready_for_full, empty_job_index,
  barrier,        \* history: how ready_for_full was last said, and of what
  \* coinbaser thread
  cb_stage, cb_job,
  \* stratum threads
  datum_active_threads,
  uncounted,      \* threads created and not yet in datum_active_threads
  pc, cur, new_job, last_was_empty, full_coinbase_ready,
  blast,          \* the kind of work being sent, and to whom
  reading,        \* send_mining_notify between its two reads of the job
  pace,           \* the slow hand-out of a normal job
  emptied,        \* history: the last job whose empty work a thread sent
  \* clients
  work            \* what a subscribed client was last told to work on

templateVars == <<stage, height, urgent, normal>>
emptyVars == <<complete_count, ready_for_full, empty_job_index, barrier>>
coinbaserVars == <<cb_stage, cb_job>>
poolVars == <<datum_active_threads, uncounted>>
loopVars == <<cur, new_job, last_was_empty, full_coinbase_ready>>
sendVars == <<blast, reading, pace, emptied>>
threadVars == <<poolVars, pc, loopVars, sendVars>>
vars == <<templateVars, jobs, emptyVars, coinbaserVars, threadVars, work>>
shared == <<templateVars, jobs, emptyVars, coinbaserVars>>

ClientsOf(w) == {c \in Client : c[1] = w}

EmptyPlus == 2          \* JOB_STATE_EMPTY_PLUS
FullPriority == 4       \* JOB_STATE_FULL_PRIORITY_WAIT_COINBASER
FullNormal == 5         \* JOB_STATE_FULL_NORMAL_WAIT_COINBASER

PoolCoinbase == 0       \* blake2b_coinbase_index without a split
SplitCoinbase == 4      \* ... with one
Coinbases == {PoolCoinbase, SplitCoinbase}

Job == [state : {EmptyPlus, FullPriority, FullNormal}, height : 1..MaxHeight,
        need_coinbaser : BOOLEAN, index : Coinbases, commitment : Coinbases,
        stale : BOOLEAN, old : BOOLEAN]

Work == [job : Nat, index : Coinbases, commitment : Coinbases, full : BOOLEAN]

NoWork == [job |-> 0, index |-> PoolCoinbase, commitment |-> PoolCoinbase,
           full |-> FALSE]

Latest == Len(jobs)
Subscribed(c) == work[c].job > 0
Subscribers(w) == {c \in ClientsOf(w) : Subscribed(c)}

NoBlast == [kind |-> "none", to |-> {}]
NoPace == [remaining |-> 0, last |-> 0, to |-> {}, fresh |-> FALSE,
           joined |-> FALSE]
NotReading == [client |-> NoClient, index |-> PoolCoinbase]

TypeOK ==
  /\ stage \in {"poll", "publishEmpty", "empties"}
  /\ height \in 1..MaxHeight
  /\ urgent \in 0..MaxUrgent /\ normal \in 0..MaxNormal
  /\ jobs \in Seq(Job)
  /\ complete_count \in 0..Cardinality(Threads)
  /\ ready_for_full \in BOOLEAN /\ empty_job_index \in Nat
  /\ barrier \in [job : Nat, counted : SUBSET Threads, early : SUBSET Threads]
  /\ cb_stage \in {"look", "index", "commitment", "done"}
  /\ cb_job \in 0..Latest
  /\ datum_active_threads \in 0..Cardinality(Threads)
  /\ uncounted \subseteq Threads
  /\ pc \in [Threads -> {"off", "new", "loop", "serve", "send", "count"}]
  /\ cur \in [Threads -> 0..Latest]
  /\ new_job \in [Threads -> BOOLEAN]
  /\ last_was_empty \in [Threads -> BOOLEAN]
  /\ full_coinbase_ready \in [Threads -> BOOLEAN]
  /\ blast \in [Threads -> [kind : {"none", "empty", "full"},
                            to : SUBSET Client]]
  /\ reading \in [Threads -> [client : Client \cup {NoClient},
                              index : Coinbases]]
  /\ pace \in [Threads -> [remaining : 0..Cardinality(Client), last : Nat,
                           to : SUBSET Client, fresh : BOOLEAN,
                           joined : BOOLEAN]]
  /\ emptied \in [Threads -> 0..Latest]
  /\ work \in [Client -> Work]

-----------------------------------------------------------------------------
NewJob(state) ==
  [state |-> state, height |-> height,
   need_coinbaser |-> state \in {FullPriority, FullNormal},
   index |-> PoolCoinbase, commitment |-> PoolCoinbase, stale |-> FALSE,
   old |-> FALSE]

(* The first job is out, so the server listens; the template thread waits for
   the empty work of it.                                                    *)
Init ==
  /\ stage = "empties" /\ height = 1 /\ urgent = 0 /\ normal = 0
  /\ jobs = <<NewJob(EmptyPlus)>>
  /\ complete_count = 0 /\ ready_for_full = TRUE /\ empty_job_index = 1
  /\ barrier = [job |-> 1, counted |-> {}, early |-> {}]
  /\ cb_stage = "look" /\ cb_job = 0
  /\ datum_active_threads = Cardinality(Started)
  /\ uncounted = {}
  /\ pc = [w \in Threads |-> IF w \in Started THEN "loop" ELSE "off"]
  /\ cur = [w \in Threads |-> IF w \in Started THEN 1 ELSE 0]
  /\ new_job = [w \in Threads |-> FALSE]
  /\ last_was_empty = [w \in Threads |-> FALSE]
  /\ full_coinbase_ready = [w \in Threads |-> FALSE]
  /\ blast = [w \in Threads |-> NoBlast]
  /\ reading = [w \in Threads |-> NotReading]
  /\ pace = [w \in Threads |-> NoPace]
  /\ emptied = [w \in Threads |-> 0]
  /\ work = [c \in Client |-> NoWork]

(* Five seconds have passed since job j was published.  The age is looked at
   only for the latest job and for one that a thread has still to serve.    *)
JobAges(j) ==
  /\ j \in 1..Latest /\ ~ jobs[j].old /\ jobs[j].state # EmptyPlus
  /\ j = Latest \/ \E w \in Threads : cur[w] = j /\ new_job[w]
  /\ jobs' = [jobs EXCEPT ![j].old = TRUE]
  /\ UNCHANGED <<templateVars, emptyVars, coinbaserVars, threadVars, work>>

-----------------------------------------------------------------------------
(* datum_gateway_template_thread and update_stratum_job *)

(* Mutant: the statistics of the previous empty job stay. *)
ResetEmptyStatsForgotten ==
  /\ empty_job_index' = Latest + 1
  /\ UNCHANGED <<complete_count, ready_for_full, barrier>>

ResetEmptyStats ==
  /\ complete_count' = 0
  /\ ready_for_full' = FALSE
  /\ empty_job_index' = Latest + 1
  /\ UNCHANGED barrier

AllStale == [j \in 1..Latest |-> [jobs[j] EXCEPT !.stale = TRUE]]

(* A new block, or work that is no longer valid for another reason: the part
   of update_stratum_job that comes before the job is published.            *)
InvalidateWork ==
  /\ stage = "poll"
  /\ \/ height < MaxHeight /\ height' = height + 1 /\ UNCHANGED urgent
     \/ urgent < MaxUrgent /\ urgent' = urgent + 1 /\ UNCHANGED height
  /\ jobs' = AllStale
  /\ ResetEmptyStats
  /\ stage' = "publishEmpty"
  /\ UNCHANGED <<normal, coinbaserVars, threadVars, work>>

PublishEmpty ==
  /\ stage = "publishEmpty"
  /\ jobs' = Append(jobs, NewJob(EmptyPlus))
  /\ stage' = "empties"
  /\ UNCHANGED <<height, urgent, normal, emptyVars, coinbaserVars, threadVars,
                 work>>

(* All empty work is out, or four seconds are over: the priority job. *)
PublishPriority ==
  /\ stage = "empties"
  /\ jobs' = Append(jobs, NewJob(FullPriority))
  /\ stage' = "poll"
  /\ UNCHANGED <<height, urgent, normal, emptyVars, coinbaserVars, threadVars,
                 work>>

(* The same block as before: a normal job. *)
PublishNormal ==
  /\ stage = "poll" /\ normal < MaxNormal
  /\ normal' = normal + 1
  /\ jobs' = Append(jobs, NewJob(FullNormal))
  /\ UNCHANGED <<stage, height, urgent, emptyVars, coinbaserVars, threadVars,
                 work>>

(* The testnet fast forward: a clean priority job, without empty work. *)
FastForward ==
  /\ stage = "poll" /\ urgent < MaxUrgent
  /\ urgent' = urgent + 1
  /\ jobs' = Append(AllStale, NewJob(FullPriority))
  /\ ResetEmptyStats
  /\ UNCHANGED <<stage, height, normal, coinbaserVars, threadVars, work>>

TemplateThread ==
  InvalidateWork \/ PublishEmpty \/ PublishPriority \/ PublishNormal \/ FastForward

-----------------------------------------------------------------------------
(* datum_coinbaser_thread *)

LookForJob ==
  /\ cb_stage = "look" /\ cb_job # Latest
  /\ cb_job' = Latest
  /\ cb_stage' = IF jobs[Latest].need_coinbaser THEN "index" ELSE "look"
  /\ UNCHANGED <<templateVars, jobs, emptyVars, threadVars, work>>

(* generate_coinbase_txns_for_stratum_job, with or without outputs to split;
   its last two steps are seen by the stratum threads one after the other.  *)
GenerateIndex ==
  /\ cb_stage = "index"
  /\ \E i \in Coinbases : jobs' = [jobs EXCEPT ![cb_job].index = i]
  /\ cb_stage' = "commitment"
  /\ UNCHANGED <<templateVars, emptyVars, cb_job, threadVars, work>>

(* datum_stratum_job_refresh_blake2b *)
RefreshCommitment ==
  /\ cb_stage = "commitment"
  /\ jobs' = [jobs EXCEPT ![cb_job].commitment = jobs[cb_job].index]
  /\ cb_stage' = "done"
  /\ UNCHANGED <<templateVars, emptyVars, cb_job, threadVars, work>>

DeclareReady ==
  /\ cb_stage = "done"
  /\ jobs' = [jobs EXCEPT ![cb_job].need_coinbaser = FALSE]
  /\ cb_stage' = "look"
  /\ UNCHANGED <<templateVars, emptyVars, cb_job, threadVars, work>>

CoinbaserThread ==
  LookForJob \/ GenerateIndex \/ RefreshCommitment \/ DeclareReady

-----------------------------------------------------------------------------
(* Threads that were created, and those that have reported the empty work of
   the job in the statistics.                                               *)
Created == {w \in Threads : pc[w] # "off"}
Done == {w \in Threads : emptied[w] = empty_job_index}

(* datum_stratum_v1_socket_server: as many threads have reported the empty
   work as are counted.                                                     *)
MarkReadyForFull ==
  /\ ~ ready_for_full
  /\ complete_count >= datum_active_threads
  /\ ready_for_full' = TRUE
  /\ barrier' = [job |-> empty_job_index, counted |-> Created \ uncounted,
                 early |-> Done \cap uncounted]
  /\ UNCHANGED <<templateVars, jobs, complete_count, empty_job_index,
                 coinbaserVars, threadVars, work>>

Goto(w, from, to) ==
  /\ pc[w] = from
  /\ pc' = [pc EXCEPT ![w] = to]

(* assign_to_thread: create a thread for a new client, then count it. *)
CreateThread(w) ==
  /\ Goto(w, "off", "new")
  /\ uncounted = {}
  /\ uncounted' = {w}
  /\ UNCHANGED <<shared, datum_active_threads, loopVars, sendVars, work>>

CountThread(w) ==
  /\ w \in uncounted
  /\ uncounted' = {}
  /\ datum_active_threads' = datum_active_threads + 1
  /\ UNCHANGED <<shared, pc, loopVars, sendVars, work>>

(* datum_stratum_v1_socket_thread_init: join with the current job. *)
ThreadInit(w) ==
  /\ Goto(w, "new", "loop")
  /\ cur' = [cur EXCEPT ![w] = Latest]
  /\ UNCHANGED <<shared, poolVars, new_job, last_was_empty,
                 full_coinbase_ready, sendVars, work>>

-----------------------------------------------------------------------------
(* datum_stratum_v1_socket_thread_loop.  The look at the latest job and the
   service of the job are one step unless the job is switched.              *)

(* Mutant: no timeout for a coinbaser that does not come. *)
CoinbaserReadyNoTimeout(j) == ~ jobs[j].need_coinbaser

(* stratum_job_coinbaser_ready: its value ... *)
CoinbaserReady(j) == jobs[j].old \/ ~ jobs[j].need_coinbaser

(* Mutant: a timeout counts as a coinbaser that has come. *)
FullCoinbaseAlways(j) == TRUE

(* ... and what it leaves in full_coinbase_ready when it is true. *)
FullCoinbase(j) == ~ jobs[j].old

(* A thread that has empty work out does not see a job yet that is not ready,
   unless it is for another block.                                          *)
ChangeReady(w) ==
  \/ ~ last_was_empty[w]
  \/ jobs[Latest].state < FullPriority
  \/ CoinbaserReady(Latest)
  \/ jobs[cur[w]].height # jobs[Latest].height

SwitchJob(w) ==
  /\ Goto(w, "loop", "serve")
  /\ reading[w].client = NoClient
  /\ cur[w] # Latest /\ ChangeReady(w)
  /\ cur' = [cur EXCEPT ![w] = Latest]
  /\ new_job' = [new_job EXCEPT ![w] = TRUE]
  /\ last_was_empty' = [last_was_empty EXCEPT ![w] =
                          @ /\ jobs[Latest].state # EmptyPlus]
  /\ full_coinbase_ready' = [full_coinbase_ready EXCEPT ![w] = FALSE]
  /\ pace' = [pace EXCEPT ![w] = NoPace]
  /\ UNCHANGED <<shared, poolVars, blast, reading, emptied, work>>

(* The current job is to be served: it was just switched to, or there is no
   other one to switch to.                                                  *)
Serving(w) ==
  /\ pc[w] \in {"loop", "serve"} /\ reading[w].client = NoClient
  /\ pc[w] = "loop" => cur[w] = Latest \/ ~ ChangeReady(w)

(* Not yet: empty work is still going out, or the coinbaser is missing. *)
ServeLater(w) ==
  /\ Serving(w) /\ new_job[w]
  /\ IF jobs[cur[w]].state = EmptyPlus
     THEN last_was_empty[w] /\ ~ ready_for_full
     ELSE ~ CoinbaserReady(cur[w])
  /\ pc' = [pc EXCEPT ![w] = "loop"]
  /\ full_coinbase_ready' = [full_coinbase_ready EXCEPT ![w] = FALSE]
  /\ UNCHANGED <<shared, poolVars, cur, new_job, last_was_empty, sendVars,
                 work>>

(* Nothing new; the round in which a hand-out started is over. *)
ServeNothing(w) ==
  /\ Serving(w) /\ ~ new_job[w]
  /\ pace[w].fresh
  /\ pace' = [pace EXCEPT ![w].fresh = FALSE]
  /\ UNCHANGED <<shared, poolVars, pc, loopVars, blast, reading, emptied, work>>

BlastEmpty(w) ==
  /\ Serving(w) /\ new_job[w]
  /\ jobs[cur[w]].state = EmptyPlus /\ ~ last_was_empty[w]
  /\ blast' = [blast EXCEPT ![w] = [kind |-> "empty", to |-> Subscribers(w)]]
  /\ last_was_empty' = [last_was_empty EXCEPT ![w] = TRUE]
  /\ full_coinbase_ready' = [full_coinbase_ready EXCEPT ![w] = FALSE]
  /\ pc' = [pc EXCEPT ![w] = "send"]
  /\ UNCHANGED <<shared, poolVars, cur, new_job, reading, pace, emptied, work>>

(* Full work to everyone at once: of an empty-plus job when all threads are
   through with the empty work, of a priority job when its coinbaser is
   there, and of a normal job if the clients still have empty work.         *)
BlastFull(w) ==
  LET job == jobs[cur[w]] IN
  /\ Serving(w) /\ new_job[w]
  /\ \/ job.state = EmptyPlus /\ last_was_empty[w] /\ ready_for_full
     \/ job.state = FullPriority /\ CoinbaserReady(cur[w])
     \/ job.state = FullNormal /\ CoinbaserReady(cur[w]) /\ last_was_empty[w]
  /\ blast' = [blast EXCEPT ![w] = [kind |-> "full", to |-> Subscribers(w)]]
  /\ new_job' = [new_job EXCEPT ![w] = FALSE]
  /\ last_was_empty' = [last_was_empty EXCEPT ![w] = FALSE]
  /\ full_coinbase_ready' = [full_coinbase_ready EXCEPT ![w] =
                               job.state # EmptyPlus /\ FullCoinbase(cur[w])]
  /\ pc' = [pc EXCEPT ![w] = "send"]
  /\ UNCHANGED <<shared, poolVars, cur, reading, pace, emptied, work>>

(* Mutant: the count of clients to reach is one short. *)
CountSubscribersShort(w) == Cardinality(Subscribers(w)) - 1

(* datum_stratum_v1_get_thread_subscriber_count *)
CountSubscribers(w) == Cardinality(Subscribers(w))

(* A normal job otherwise: count the clients and hand it out slowly. *)
StartPace(w) ==
  /\ Serving(w) /\ new_job[w]
  /\ jobs[cur[w]].state = FullNormal /\ CoinbaserReady(cur[w])
  /\ ~ last_was_empty[w]
  /\ pace' = [pace EXCEPT ![w] =
                IF Subscribers(w) = {} THEN NoPace
                ELSE [remaining |-> CountSubscribers(w), last |-> 0,
                      to |-> Subscribers(w), fresh |-> TRUE, joined |-> FALSE]]
  /\ new_job' = [new_job EXCEPT ![w] = FALSE]
  /\ full_coinbase_ready' = [full_coinbase_ready EXCEPT ![w] =
                               FullCoinbase(cur[w])]
  /\ pc' = [pc EXCEPT ![w] = "loop"]
  /\ UNCHANGED <<shared, poolVars, cur, last_was_empty, blast, reading,
                 emptied, work>>

-----------------------------------------------------------------------------
(* send_mining_notify reads the coinbase index for the job id ... *)
NotifyRead(w, c) ==
  /\ reading[w].client = NoClient
  /\ reading' = [reading EXCEPT ![w] = [client |-> c,
                                        index |-> jobs[cur[w]].index]]

(* ... and then the commitment. *)
NotifyWrite(w) ==
  /\ reading[w].client # NoClient
  /\ work' = [work EXCEPT ![reading[w].client] =
                [job |-> cur[w], index |-> reading[w].index,
                 commitment |-> jobs[cur[w]].commitment,
                 full |-> /\ jobs[cur[w]].state >= FullPriority
                          /\ full_coinbase_ready[w]]]
  /\ reading' = [reading EXCEPT ![w] = NotReading]

SendNext(w) ==
  /\ pc[w] = "send"
  /\ \E c \in blast[w].to : NotifyRead(w, c)
  /\ UNCHANGED <<shared, poolVars, pc, loopVars, blast, pace, emptied, work>>

SendDone(w) ==
  /\ pc[w] = "send"
  /\ NotifyWrite(w)
  /\ blast' = [blast EXCEPT ![w].to = @ \ {reading[w].client}]
  /\ UNCHANGED <<shared, poolVars, pc, loopVars, pace, emptied>>

BlastDone(w) ==
  /\ pc[w] = "send" /\ blast[w].to = {}
  /\ pc' = [pc EXCEPT ![w] = IF blast[w].kind = "empty" THEN "count" ELSE "loop"]
  /\ blast' = [blast EXCEPT ![w] = NoBlast]
  /\ UNCHANGED <<shared, poolVars, loopVars, reading, pace, emptied, work>>

CountsFor(w) == empty_job_index = cur[w]

(* stratum_latest_empty_increment_complete *)
CountEmpty(w) ==
  /\ Goto(w, "count", "loop")
  /\ complete_count' = IF CountsFor(w) /\ ~ ready_for_full
                       THEN complete_count + 1 ELSE complete_count
  /\ emptied' = [emptied EXCEPT ![w] = cur[w]]
  /\ UNCHANGED <<templateVars, jobs, ready_for_full, empty_job_index, barrier,
                 coinbaserVars, poolVars, loopVars, blast, reading, pace, work>>

(* The clients a slow hand-out still reaches; they are served by slot. *)
PaceCandidates(w) ==
  {c \in pace[w].to : Subscribed(c) /\ c[2] > pace[w].last}

Pacing(w) == pc[w] = "loop" /\ pace[w].remaining > 0

PaceNext(w) ==
  /\ Pacing(w)
  /\ \E c \in PaceCandidates(w) :
       /\ \A d \in PaceCandidates(w) : c[2] <= d[2]
       /\ NotifyRead(w, c)
       /\ pace' = [pace EXCEPT ![w].remaining = @ - 1, ![w].last = c[2]]
  /\ UNCHANGED <<shared, poolVars, pc, loopVars, blast, emptied, work>>

PaceEnd(w) ==
  /\ Pacing(w) /\ PaceCandidates(w) = {} /\ reading[w].client = NoClient
  /\ pace' = [pace EXCEPT ![w].remaining = 0]
  /\ UNCHANGED <<shared, poolVars, pc, loopVars, blast, reading, emptied, work>>

-----------------------------------------------------------------------------
(* Commands of clients, between two rounds of the loop *)

(* client_mining_subscribe.  subscribe_tsms is the time of this round of the
   loop, which is notify_start_time if a hand-out started in this round: the
   client then takes part in it.  joined is history: that has happened.     *)
Subscribe(w, c) ==
  /\ pc[w] = "loop" /\ w \notin uncounted /\ ~ Subscribed(c)
  /\ NotifyRead(w, c)
  /\ pace' = [pace EXCEPT ![w].to = IF pace[w].fresh THEN @ \cup {c}
                                    ELSE @ \ {c},
                          ![w].joined = @ \/ pace[w].fresh]
  /\ UNCHANGED <<shared, poolVars, pc, loopVars, blast, emptied, work>>

(* stratum_update_vardiff: a quick change of difficulty sends the job again. *)
QuickDiff(w, c) ==
  /\ pc[w] = "loop" /\ Subscribed(c)
  /\ NotifyRead(w, c)
  /\ UNCHANGED <<shared, poolVars, pc, loopVars, blast, pace, emptied, work>>

(* The client has what was being sent to it outside of a blast. *)
Notified(w) ==
  /\ pc[w] = "loop"
  /\ NotifyWrite(w)
  /\ UNCHANGED <<shared, poolVars, pc, loopVars, blast, pace, emptied>>

Disconnect(w, c) ==
  /\ pc[w] = "loop" /\ reading[w].client = NoClient /\ Subscribed(c)
  /\ work' = [work EXCEPT ![c] = NoWork]
  /\ UNCHANGED <<shared, threadVars>>

-----------------------------------------------------------------------------
StratumThread(w) ==
  \/ ThreadInit(w) \/ SwitchJob(w) \/ ServeLater(w) \/ ServeNothing(w)
  \/ BlastEmpty(w) \/ BlastFull(w) \/ StartPace(w) \/ SendNext(w)
  \/ SendDone(w) \/ BlastDone(w) \/ CountEmpty(w) \/ PaceNext(w) \/ PaceEnd(w)
  \/ Notified(w)

(* What a round of the loop does when there is something to do. *)
Round(w) ==
  \/ SwitchJob(w) \/ BlastEmpty(w) \/ BlastFull(w) \/ StartPace(w)
  \/ PaceNext(w) \/ PaceEnd(w)

Clients(w) ==
  \E c \in ClientsOf(w) : Subscribe(w, c) \/ QuickDiff(w, c) \/ Disconnect(w, c)

Next ==
  \/ \E j \in 1..Latest : JobAges(j)
  \/ TemplateThread \/ CoinbaserThread \/ MarkReadyForFull
  \/ \E w \in Threads : \/ StratumThread(w) \/ Clients(w)
                        \/ CreateThread(w) \/ CountThread(w)

Spec == Init /\ [][Next]_vars

(* Every thread keeps running and time passes.  No client has to do anything,
   no block has to be found, and the coinbaser thread may wait for a pool
   that does not answer.  A thread finds the time to look at the jobs between
   the commands of its clients.                                             *)
Fairness ==
  /\ WF_vars(PublishEmpty) /\ WF_vars(PublishPriority)
  /\ WF_vars(MarkReadyForFull)
  /\ WF_vars(\E j \in 1..Latest : JobAges(j))
  /\ \A w \in Threads :
       /\ WF_vars(StratumThread(w))
       /\ SF_vars(Round(w))

FairSpec == Spec /\ Fairness

-----------------------------------------------------------------------------
(* Properties *)

(* A share is checked against the commitment its job has then.  Work that was
   sent as work with the full coinbase stays what the job says, whatever is
   published, regenerated or sent later.                                    *)
FullWorkStaysValid ==
  \A c \in Client :
    work[c].full => /\ work[c].index = jobs[work[c].job].index
                    /\ work[c].commitment = jobs[work[c].job].commitment
                    /\ work[c].index = work[c].commitment

(* datum_stratum.c:489: "we do want to make sure everyone got an empty before
   a full still".  A thread sends full work of an empty-plus job only after the
   barrier was passed for it or for a later job, and every thread that was
   counted then had sent its empty work, late reports for earlier blocks and
   threads that are created meanwhile notwithstanding.  The one exception is a
   thread that has reported before it was counted: it stands in for another.  *)
EmptyBeforeFull ==
  \A w \in Threads :
    blast[w].kind = "full" /\ jobs[cur[w]].state = EmptyPlus =>
      /\ barrier.job >= cur[w]
      /\ barrier.early = {} => \A v \in barrier.counted : emptied[v] >= cur[w]

(* No client keeps work for a block that has been replaced, unless a client came
   in the round in which the slow hand-out of the next job began.           *)
StaleWorkReplaced ==
  \A c \in Client :
    (Subscribed(c) /\ jobs[work[c].job].stale)
      ~> (Subscribed(c) => ~ jobs[work[c].job].stale) \/ pace[c[1]].joined

(* No thread leaves its clients on empty work, even if the coinbaser does not
   answer or other threads are slow.                                        *)
EmptyWorkReplaced ==
  \A w \in Threads : last_was_empty[w] ~> ~ last_was_empty[w]

(* datum_stratum.c:567: a normal job "gets slowly sent out over the course of
   the work change time": when the hand-out is over, everyone has it.  A client
   that joins in its first round was not counted and takes another one's turn. *)
HandOutComplete ==
  /\ TypeOK
  /\ \A w \in Threads :
       /\ pc[w] = "loop" /\ reading[w].client = NoClient
       /\ jobs[cur[w]].state = FullNormal /\ ~ new_job[w]
       /\ pace[w].remaining = 0 /\ ~ pace[w].joined
       => \A c \in Subscribers(w) : work[c].job = cur[w]
=============================================================================
