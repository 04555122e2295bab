-------------------------- MODULE JobPipelineProofs --------------------------
(***************************************************************************)
(* Work that was sent with the full coinbase stays valid, for any number of *)
(* threads, clients, blocks and jobs; and everyone has the empty work of a  *)
(* block before anyone gets the full work, threads that come late included. *)
(*                                                                         *)
(* The first argument is about the coinbaser thread: it changes the         *)
(* coinbase of a job only while need_coinbaser is set, and a thread says    *)
(* full_coinbase_ready only of a job for which it is not.  The second       *)
(* counts: the threads that have reported the empty work of the job in the  *)
(* statistics are exactly as many as complete_count says.                   *)
(***************************************************************************)
EXTENDS JobPipeline, FiniteSetTheorems, TLAPS

-----------------------------------------------------------------------------
(* Jobs *)

(* The template thread and the jobs it has published. *)
JobTypes ==
  /\ stage \in {"poll", "publishEmpty", "empties"}
  /\ height \in 1..MaxHeight
  /\ urgent \in 0..MaxUrgent /\ normal \in 0..MaxNormal
  /\ jobs \in Seq(Job) /\ Len(jobs) > 0
  /\ cb_stage \in {"look", "index", "commitment", "done"}
  /\ cb_job \in 0..Latest

(* A job whose coinbaser is done has a commitment to its coinbase; the
   coinbaser thread is at work on a job that is not done.                   *)
CoinbaserInv ==
  /\ \A j \in 1..Latest :
       ~ jobs[j].need_coinbaser => jobs[j].index = jobs[j].commitment
  /\ cb_stage # "look" => cb_job # 0 /\ jobs[cb_job].need_coinbaser
  /\ cb_stage = "done" => jobs[cb_job].index = jobs[cb_job].commitment

(* What is told miners is the same in the jobs j and k. *)
SameFields(j, k) ==
  /\ k.state = j.state /\ k.need_coinbaser = j.need_coinbaser
  /\ k.index = j.index /\ k.commitment = j.commitment

(* What was told miners of job j holds for k. *)
SameForMiners(j, k) ==
  /\ k.state = j.state
  /\ ~ j.need_coinbaser => /\ ~ k.need_coinbaser
                           /\ k.index = j.index /\ k.commitment = j.commitment

(* Jobs are not taken back, and what was ready stays as it is. *)
JobsKept ==
  /\ Len(jobs) <= Len(jobs')
  /\ \A j \in 1..Len(jobs) : SameForMiners(jobs[j], jobs'[j])

(* A job as it is published. *)
LEMMA NewJobParts ==
  ASSUME height \in 1..MaxHeight, NEW s \in {EmptyPlus, FullPriority, FullNormal}
  PROVE  /\ NewJob(s) \in Job /\ NewJob(s).state = s
         /\ NewJob(s).index = NewJob(s).commitment
         /\ NewJob(s).need_coinbaser = (s \in {FullPriority, FullNormal})
<1>1. PoolCoinbase \in Coinbases
  BY DEF Coinbases
<1> QED  BY <1>1 DEF NewJob, Job

(* A job is published, when the others may have become stale. *)
LEMMA PublishStep ==
  ASSUME JobTypes, CoinbaserInv, NEW n \in Job, n.index = n.commitment,
         NEW s \in Seq(Job), Len(s) = Len(jobs),
         \A j \in 1..Len(jobs) : SameFields(jobs[j], s[j]),
         jobs' = Append(s, n), UNCHANGED <<cb_stage, cb_job>>
  PROVE  /\ jobs' \in Seq(Job) /\ Len(jobs') = Len(jobs) + 1
         /\ CoinbaserInv' /\ JobsKept /\ cb_job' \in 0..Latest'
<1>1. jobs \in Seq(Job) /\ Len(jobs) \in Nat /\ cb_job \in 0..Len(jobs)
  BY DEF JobTypes, Latest
<1>2. /\ jobs' \in Seq(Job) /\ Len(jobs') = Len(jobs) + 1
      /\ jobs'[Len(jobs) + 1] = n
      /\ \A j \in 1..Len(jobs) : jobs'[j] = s[j]
  BY <1>1
<1>3. JobsKept
  BY <1>1, <1>2 DEF JobsKept, SameForMiners, SameFields
<1>4. CoinbaserInv'
  <2>1. \A j \in 1..Len(jobs') :
          ~ jobs'[j].need_coinbaser => jobs'[j].index = jobs'[j].commitment
    <3> SUFFICES ASSUME NEW j \in 1..Len(jobs'), ~ jobs'[j].need_coinbaser
                 PROVE  jobs'[j].index = jobs'[j].commitment
      OBVIOUS
    <3>1. CASE j = Len(jobs) + 1
      BY <1>2, <3>1
    <3>2. CASE j # Len(jobs) + 1
      <4>1. j \in 1..Len(jobs)
        BY <1>1, <1>2, <3>2
      <4>2. jobs'[j] = s[j] /\ SameFields(jobs[j], s[j])
        BY <1>2, <4>1
      <4> QED  BY <4>1, <4>2 DEF CoinbaserInv, Latest, SameFields
    <3> QED  BY <3>1, <3>2
  <2>2. cb_job # 0 => jobs'[cb_job] = s[cb_job] /\ SameFields(jobs[cb_job], s[cb_job])
    BY <1>1, <1>2
  <2>3. cb_stage' # "look" => cb_job' # 0 /\ jobs'[cb_job'].need_coinbaser
    BY <2>2 DEF CoinbaserInv, SameFields
  <2>4. cb_stage' = "done" => jobs'[cb_job'].index = jobs'[cb_job'].commitment
    <3>1. cb_stage' = "done" => cb_job # 0 /\ jobs[cb_job].index = jobs[cb_job].commitment
      BY DEF CoinbaserInv
    <3> QED  BY <2>2, <3>1 DEF SameFields
  <2> QED  BY <2>1, <2>3, <2>4 DEF CoinbaserInv, Latest
<1> QED  BY <1>1, <1>2, <1>3, <1>4 DEF Latest

(* Marks that are not for miners: stale and old. *)
LEMMA MarkStep ==
  ASSUME JobTypes, CoinbaserInv, UNCHANGED <<cb_stage, cb_job>>,
         jobs' \in Seq(Job), Len(jobs') = Len(jobs),
         \A j \in 1..Len(jobs) : SameFields(jobs[j], jobs'[j])
  PROVE  CoinbaserInv' /\ JobsKept /\ cb_job' \in 0..Latest'
<1>1. Len(jobs) \in Nat /\ cb_job \in 0..Len(jobs)
  BY DEF JobTypes, Latest
<1>2. JobsKept
  BY <1>1 DEF JobsKept, SameForMiners, SameFields
<1>3. CoinbaserInv'
  BY <1>1 DEF CoinbaserInv, Latest, SameFields
<1> QED  BY <1>1, <1>2, <1>3 DEF Latest

(* The coinbaser thread changes a job that is not ready. *)
LEMMA CoinbaseStep ==
  ASSUME JobTypes, CoinbaserInv, cb_stage # "look", cb_job' = cb_job,
         NEW k \in Job, k.state = jobs[cb_job].state,
         jobs' = [jobs EXCEPT ![cb_job] = k],
         ~ k.need_coinbaser => k.index = k.commitment,
         cb_stage' # "look" => k.need_coinbaser,
         cb_stage' = "done" => k.index = k.commitment
  PROVE  /\ jobs' \in Seq(Job) /\ Len(jobs') = Len(jobs)
         /\ CoinbaserInv' /\ JobsKept /\ cb_job' \in 0..Latest'
<1>1. jobs \in Seq(Job) /\ Len(jobs) \in Nat /\ cb_job \in 1..Len(jobs)
  BY DEF JobTypes, Latest, CoinbaserInv
<1>2. /\ jobs' \in Seq(Job) /\ Len(jobs') = Len(jobs)
      /\ jobs'[cb_job] = k
      /\ \A j \in 1..Len(jobs) : j # cb_job => jobs'[j] = jobs[j]
  BY <1>1
<1>3. jobs[cb_job].need_coinbaser
  BY DEF CoinbaserInv
<1>4. JobsKept
  <2>1. \A j \in 1..Len(jobs) : SameForMiners(jobs[j], jobs'[j])
    BY <1>2, <1>3 DEF SameForMiners
  <2> QED  BY <1>1, <1>2, <2>1 DEF JobsKept
<1>5. CoinbaserInv'
  <2>1. \A j \in 1..Len(jobs') :
          ~ jobs'[j].need_coinbaser => jobs'[j].index = jobs'[j].commitment
    BY <1>2 DEF CoinbaserInv, Latest
  <2>2. cb_stage' # "look" => cb_job' # 0 /\ jobs'[cb_job'].need_coinbaser
    BY <1>1, <1>2
  <2>3. cb_stage' = "done" => jobs'[cb_job'].index = jobs'[cb_job'].commitment
    BY <1>2
  <2> QED  BY <2>1, <2>2, <2>3 DEF CoinbaserInv, Latest
<1> QED  BY <1>1, <1>2, <1>4, <1>5 DEF Latest

(* All jobs become stale. *)
LEMMA StaleJobs ==
  ASSUME jobs \in Seq(Job)
  PROVE  /\ AllStale \in Seq(Job) /\ Len(AllStale) = Len(jobs)
         /\ \A j \in 1..Len(jobs) : SameFields(jobs[j], AllStale[j])
<1>1. \A j \in 1..Len(jobs) : [jobs[j] EXCEPT !.stale = TRUE] \in Job
  <2> SUFFICES ASSUME NEW j \in 1..Len(jobs) PROVE [jobs[j] EXCEPT !.stale = TRUE] \in Job
    OBVIOUS
  <2>1. jobs[j] \in Job
    OBVIOUS
  <2> HIDE DEF Job
  <2> QED  BY <2>1 DEF Job
<1>2. Len(jobs) \in Nat
  OBVIOUS
<1>3. AllStale \in [1..Len(jobs) -> Job]
  BY <1>1 DEF AllStale, Latest
<1>4. AllStale \in Seq(Job)
  BY <1>2, <1>3
<1>5. Len(AllStale) = Len(jobs)
  BY <1>2, <1>3, <1>4
<1>6. ASSUME NEW j \in 1..Len(jobs) PROVE SameFields(jobs[j], AllStale[j])
  <2>1. jobs[j] \in Job /\ AllStale[j] = [jobs[j] EXCEPT !.stale = TRUE]
    BY DEF AllStale, Latest
  <2> QED  BY <2>1 DEF SameFields, Job
<1> QED  BY <1>4, <1>5, <1>6

(* The steps of the template thread, the coinbaser thread and of time. *)
WorldStep ==
  (\E j \in 1..Latest : JobAges(j)) \/ TemplateThread \/ CoinbaserThread

(* The list of jobs only grows, and a job stays what the miners were sent. *)
LEMMA WorldJobs ==
  ASSUME PipelineAssumption, JobTypes, CoinbaserInv, WorldStep
  PROVE  JobTypes' /\ CoinbaserInv' /\ JobsKept
<1>1. /\ jobs \in Seq(Job) /\ Len(jobs) \in Nat /\ Len(jobs) > 0
      /\ height \in 1..MaxHeight /\ \A j \in 1..Len(jobs) : jobs[j] \in Job
  BY DEF JobTypes
<1>2. ASSUME NEW j \in 1..Latest, JobAges(j)
      PROVE  JobTypes' /\ CoinbaserInv' /\ JobsKept
  <2> DEFINE k == [jobs[j] EXCEPT !.old = TRUE]
  <2>1. jobs[j] \in Job /\ j \in 1..Len(jobs)
    BY <1>1 DEF Latest
  <2>2. k \in Job /\ SameFields(jobs[j], k)
    BY <2>1 DEF Job, SameFields
  <2>3. jobs' = [jobs EXCEPT ![j] = k]
    BY <1>1, <1>2 DEF JobAges
  <2> HIDE DEF k
  <2>4. jobs' \in Seq(Job) /\ Len(jobs') = Len(jobs)
    BY <1>1, <2>1, <2>2, <2>3
  <2>5. \A i \in 1..Len(jobs) : SameFields(jobs[i], jobs'[i])
    <3> SUFFICES ASSUME NEW i \in 1..Len(jobs) PROVE SameFields(jobs[i], jobs'[i])
      OBVIOUS
    <3>1. i # j => jobs'[i] = jobs[i]
      BY <1>1, <2>3
    <3>2. i = j => jobs'[i] = k
      BY <1>1, <2>3
    <3> QED  BY <2>2, <3>1, <3>2 DEF SameFields
  <2>6. UNCHANGED <<stage, height, urgent, normal, cb_stage, cb_job>>
    BY <1>2 DEF JobAges, templateVars, coinbaserVars
  <2>7. CoinbaserInv' /\ JobsKept /\ cb_job' \in 0..Latest'
    BY <2>4, <2>5, <2>6, MarkStep
  <2> QED  BY <2>4, <2>6, <2>7 DEF JobTypes
<1>3. ASSUME InvalidateWork
      PROVE  JobTypes' /\ CoinbaserInv' /\ JobsKept
  <2>1. jobs' \in Seq(Job) /\ Len(jobs') = Len(jobs)
    BY <1>1, <1>3, StaleJobs DEF InvalidateWork
  <2>2. \A i \in 1..Len(jobs) : SameFields(jobs[i], jobs'[i])
    BY <1>1, <1>3, StaleJobs DEF InvalidateWork
  <2>3. UNCHANGED <<cb_stage, cb_job, normal>> /\ stage' = "publishEmpty"
    BY <1>3 DEF InvalidateWork, coinbaserVars
  <2>4. CoinbaserInv' /\ JobsKept /\ cb_job' \in 0..Latest'
    BY <2>1, <2>2, <2>3, MarkStep
  <2>5. height' \in 1..MaxHeight /\ urgent' \in 0..MaxUrgent
    BY <1>3 DEF InvalidateWork, JobTypes, PipelineAssumption
  <2> QED  BY <2>1, <2>3, <2>4, <2>5 DEF JobTypes
<1>4. ASSUME NEW s \in {EmptyPlus, FullPriority, FullNormal}, jobs' = Append(jobs, NewJob(s)),
             stage' \in {"poll", "empties"}, UNCHANGED <<height, urgent, cb_stage, cb_job>>,
             normal' \in 0..MaxNormal
      PROVE  JobTypes' /\ CoinbaserInv' /\ JobsKept
  <2>1. NewJob(s) \in Job /\ NewJob(s).index = NewJob(s).commitment
    BY <1>1, NewJobParts
  <2>2. \A j \in 1..Len(jobs) : SameFields(jobs[j], jobs[j])
    BY DEF SameFields
  <2>3. /\ jobs' \in Seq(Job) /\ Len(jobs') = Len(jobs) + 1
        /\ CoinbaserInv' /\ JobsKept /\ cb_job' \in 0..Latest'
    BY <1>1, <1>4, <2>1, <2>2, PublishStep
  <2>4. Len(jobs') > 0
    BY <1>1, <2>3
  <2> QED  BY <1>4, <2>3, <2>4 DEF JobTypes
<1>5. CASE PublishEmpty \/ PublishPriority \/ PublishNormal
  <2>1. normal' \in 0..MaxNormal
    BY <1>5 DEF PublishEmpty, PublishPriority, PublishNormal, JobTypes, PipelineAssumption
  <2>2. UNCHANGED <<height, urgent, cb_stage, cb_job>>
    BY <1>5 DEF PublishEmpty, PublishPriority, PublishNormal, coinbaserVars
  <2>3. stage' \in {"poll", "empties"}
    BY <1>5 DEF PublishEmpty, PublishPriority, PublishNormal
  <2>4. PICK s \in {EmptyPlus, FullPriority, FullNormal} : jobs' = Append(jobs, NewJob(s))
    BY <1>5 DEF PublishEmpty, PublishPriority, PublishNormal
  <2> QED  BY <1>4, <2>1, <2>2, <2>3, <2>4
<1>6. ASSUME FastForward
      PROVE  JobTypes' /\ CoinbaserInv' /\ JobsKept
  <2>1. NewJob(FullPriority) \in Job /\ NewJob(FullPriority).index = NewJob(FullPriority).commitment
    BY <1>1, NewJobParts
  <2>2. /\ AllStale \in Seq(Job) /\ Len(AllStale) = Len(jobs)
        /\ \A j \in 1..Len(jobs) : SameFields(jobs[j], AllStale[j])
    BY <1>1, StaleJobs
  <2>3. jobs' = Append(AllStale, NewJob(FullPriority))
    BY <1>6 DEF FastForward
  <2>4. UNCHANGED <<cb_stage, cb_job, stage, height, normal>>
    BY <1>6 DEF FastForward, coinbaserVars
  <2>5. /\ jobs' \in Seq(Job) /\ Len(jobs') = Len(jobs) + 1
        /\ CoinbaserInv' /\ JobsKept /\ cb_job' \in 0..Latest'
    BY <2>1, <2>2, <2>3, <2>4, PublishStep
  <2>6. Len(jobs') > 0
    BY <1>1, <2>5
  <2>7. urgent' \in 0..MaxUrgent
    BY <1>6 DEF FastForward, JobTypes, PipelineAssumption
  <2> QED  BY <2>4, <2>5, <2>6, <2>7 DEF JobTypes
<1>7. ASSUME LookForJob
      PROVE  JobTypes' /\ CoinbaserInv' /\ JobsKept
  <2>1. /\ jobs' = jobs /\ cb_job' = Len(jobs)
        /\ cb_stage' = IF jobs[Len(jobs)].need_coinbaser THEN "index" ELSE "look"
        /\ UNCHANGED <<stage, height, urgent, normal>>
    BY <1>7 DEF LookForJob, Latest, templateVars
  <2>2. CoinbaserInv'
    <3>1. cb_stage' # "look" => cb_job' # 0 /\ jobs'[cb_job'].need_coinbaser
      BY <1>1, <2>1
    <3>2. cb_stage' # "done"
      BY <2>1
    <3> QED  BY <2>1, <3>1, <3>2 DEF CoinbaserInv, Latest
  <2>3. cb_stage' \in {"look", "index", "commitment", "done"}
    BY <2>1
  <2>4. JobTypes'
    BY <1>1, <2>1, <2>3 DEF JobTypes, Latest
  <2>5. JobsKept
    BY <1>1, <2>1 DEF JobsKept, SameForMiners
  <2> QED  BY <2>2, <2>4, <2>5
<1>8. ASSUME NEW k \in Job, cb_stage # "look", cb_job' = cb_job,
             k.state = jobs[cb_job].state, jobs' = [jobs EXCEPT ![cb_job] = k],
             ~ k.need_coinbaser => k.index = k.commitment,
             cb_stage' # "look" => k.need_coinbaser,
             cb_stage' = "done" => k.index = k.commitment,
             cb_stage' \in {"look", "index", "commitment", "done"},
             UNCHANGED <<stage, height, urgent, normal>>
      PROVE  JobTypes' /\ CoinbaserInv' /\ JobsKept
  <2>1. /\ jobs' \in Seq(Job) /\ Len(jobs') = Len(jobs)
        /\ CoinbaserInv' /\ JobsKept /\ cb_job' \in 0..Latest'
    BY <1>8, CoinbaseStep
  <2> QED  BY <1>1, <1>8, <2>1 DEF JobTypes
<1>9. cb_stage # "look" => /\ cb_job \in 1..Len(jobs) /\ jobs[cb_job] \in Job
                           /\ jobs[cb_job].need_coinbaser
  BY <1>1 DEF CoinbaserInv, JobTypes, Latest
<1>10. ASSUME GenerateIndex
       PROVE  JobTypes' /\ CoinbaserInv' /\ JobsKept
  <2>1. PICK i \in Coinbases : jobs' = [jobs EXCEPT ![cb_job].index = i]
    BY <1>10 DEF GenerateIndex
  <2> DEFINE k == [jobs[cb_job] EXCEPT !.index = i]
  <2>2. cb_stage # "look" /\ cb_job' = cb_job /\ cb_stage' = "commitment"
    BY <1>10 DEF GenerateIndex
  <2>3. UNCHANGED <<stage, height, urgent, normal>>
    BY <1>10 DEF GenerateIndex, templateVars
  <2>4. k \in Job /\ k.state = jobs[cb_job].state /\ k.need_coinbaser
    BY <1>9, <2>2 DEF Job
  <2>5. jobs' = [jobs EXCEPT ![cb_job] = k]
    BY <1>1, <1>9, <2>1, <2>2
  <2> HIDE DEF k
  <2> QED  BY <1>8, <2>2, <2>3, <2>4, <2>5
<1>11. ASSUME RefreshCommitment
       PROVE  JobTypes' /\ CoinbaserInv' /\ JobsKept
  <2> DEFINE k == [jobs[cb_job] EXCEPT !.commitment = jobs[cb_job].index]
  <2>2. cb_stage # "look" /\ cb_job' = cb_job /\ cb_stage' = "done"
    BY <1>11 DEF RefreshCommitment
  <2>3. UNCHANGED <<stage, height, urgent, normal>>
    BY <1>11 DEF RefreshCommitment, templateVars
  <2>4. k \in Job /\ k.state = jobs[cb_job].state /\ k.need_coinbaser /\ k.index = k.commitment
    BY <1>9, <2>2 DEF Job
  <2>5. jobs' = [jobs EXCEPT ![cb_job] = k]
    BY <1>1, <1>9, <1>11, <2>2 DEF RefreshCommitment
  <2> HIDE DEF k
  <2> QED  BY <1>8, <2>2, <2>3, <2>4, <2>5
<1>12. ASSUME DeclareReady
       PROVE  JobTypes' /\ CoinbaserInv' /\ JobsKept
  <2> DEFINE k == [jobs[cb_job] EXCEPT !.need_coinbaser = FALSE]
  <2>2. cb_stage = "done" /\ cb_job' = cb_job /\ cb_stage' = "look"
    BY <1>12 DEF DeclareReady
  <2>3. UNCHANGED <<stage, height, urgent, normal>>
    BY <1>12 DEF DeclareReady, templateVars
  <2>4. jobs[cb_job].index = jobs[cb_job].commitment
    BY <2>2 DEF CoinbaserInv
  <2>5. k \in Job /\ k.state = jobs[cb_job].state /\ k.index = k.commitment
    BY <1>9, <2>2, <2>4 DEF Job
  <2>6. jobs' = [jobs EXCEPT ![cb_job] = k]
    BY <1>1, <1>9, <1>12, <2>2 DEF DeclareReady
  <2> HIDE DEF k
  <2> QED  BY <1>8, <2>2, <2>3, <2>5, <2>6
<1> QED  BY <1>2, <1>3, <1>5, <1>6, <1>7, <1>10, <1>11, <1>12
         DEF WorldStep, TemplateThread, CoinbaserThread

-----------------------------------------------------------------------------
(* Threads *)

PCs == {"off", "new", "loop", "serve", "send", "count"}
Blasts == [kind : {"none", "empty", "full"}, to : SUBSET Client]
Readings == [client : Client \cup {NoClient}, index : Coinbases]
Paces == [remaining : 0..Cardinality(Client), last : Nat, to : SUBSET Client,
          fresh : BOOLEAN, joined : BOOLEAN]

LoopTypes ==
  /\ pc \in [Threads -> PCs]
  /\ cur \in [Threads -> 0..Latest]
  /\ new_job \in [Threads -> BOOLEAN]
  /\ last_was_empty \in [Threads -> BOOLEAN]
  /\ full_coinbase_ready \in [Threads -> BOOLEAN]

SendTypes ==
  /\ blast \in [Threads -> Blasts]
  /\ reading \in [Threads -> Readings]
  /\ pace \in [Threads -> Paces]
  /\ emptied \in [Threads -> 0..Latest]

ThreadTypes == LoopTypes /\ SendTypes

Running(w) == pc[w] \notin {"off", "new"}
SendsEmpty(w) == pc[w] = "count" \/ blast[w].kind = "empty"

(* The loop of a thread: what it is doing fits the work it does it for. *)
LoopInv(w) ==
  /\ Running(w) => cur[w] >= 1
  /\ ~ Running(w) => ~ full_coinbase_ready[w] /\ ~ new_job[w] /\ emptied[w] = 0
  /\ reading[w].client # NoClient =>
       /\ reading[w].client \in ClientsOf(w)
       /\ pc[w] = "loop" \/ (pc[w] = "send" /\ reading[w].client \in blast[w].to)
  /\ blast[w].to \subseteq ClientsOf(w) /\ pace[w].to \subseteq ClientsOf(w)
  /\ pc[w] = "send" <=> blast[w].kind # "none"

(* full_coinbase_ready is said of a job that is ready, and what was read of it
   is what it says.                                                         *)
ReadyInv(w) ==
  full_coinbase_ready[w] =>
    /\ ~ jobs[cur[w]].need_coinbaser
    /\ reading[w].client # NoClient => reading[w].index = jobs[cur[w]].index

(* The empty work of a job is sent, and reported, once. *)
EmptyInv(w) ==
  /\ emptied[w] <= cur[w]
  /\ new_job[w] => cur[w] >= 2
  /\ SendsEmpty(w) => /\ last_was_empty[w] /\ emptied[w] < cur[w]
                      /\ jobs[cur[w]].state = EmptyPlus
  /\ new_job[w] /\ jobs[cur[w]].state = EmptyPlus /\ ~ last_was_empty[w]
       => emptied[w] < cur[w]

ThreadInv(w) == LoopInv(w) /\ ReadyInv(w) /\ EmptyInv(w)

(* Only thread w moves. *)
Still(v) ==
  /\ pc'[v] = pc[v] /\ cur'[v] = cur[v] /\ new_job'[v] = new_job[v]
  /\ last_was_empty'[v] = last_was_empty[v]
  /\ full_coinbase_ready'[v] = full_coinbase_ready[v]
  /\ blast'[v] = blast[v] /\ reading'[v] = reading[v]
  /\ pace'[v] = pace[v] /\ emptied'[v] = emptied[v]

Elsewhere(w) == \A v \in Threads \ {w} : Still(v)

(* A thread that does not move, while jobs come and change. *)
LEMMA StillInv ==
  ASSUME JobTypes, ThreadTypes, NEW v \in Threads, ThreadInv(v), Still(v), JobsKept
  PROVE  ThreadInv(v)'
<1>1. cur[v] \in 0..Len(jobs) /\ Len(jobs) \in Nat
  BY DEF ThreadTypes, LoopTypes, JobTypes, Latest
<1>2. LoopInv(v)'
  BY DEF ThreadInv, LoopInv, Still, Running
<1>3. cur[v] # 0 => SameForMiners(jobs[cur[v]], jobs'[cur[v]])
  BY <1>1 DEF JobsKept
<1>4. ReadyInv(v)'
  <2> SUFFICES ASSUME full_coinbase_ready[v]
               PROVE  /\ ~ jobs'[cur[v]].need_coinbaser
                      /\ reading[v].client # NoClient => reading[v].index = jobs'[cur[v]].index
    BY DEF ReadyInv, Still
  <2>1. cur[v] # 0
    BY <1>1 DEF ThreadInv, LoopInv
  <2> QED  BY <1>3, <2>1 DEF ThreadInv, ReadyInv, SameForMiners
<1>5. EmptyInv(v)'
  <2>0. emptied[v] \in 0..Len(jobs)
    BY DEF ThreadTypes, SendTypes, Latest
  <2>1. new_job[v] \/ SendsEmpty(v) => jobs'[cur[v]].state = jobs[cur[v]].state
    <3>1. new_job[v] \/ SendsEmpty(v) => cur[v] # 0
      BY <1>1, <2>0 DEF ThreadInv, EmptyInv
    <3> QED  BY <1>3, <3>1 DEF SameForMiners
  <2> QED  BY <2>1 DEF ThreadInv, EmptyInv, Still, SendsEmpty
<1> QED  BY <1>2, <1>4, <1>5 DEF ThreadInv

(* A step of thread w is the concern of w. *)
LEMMA OneThreadMoves ==
  ASSUME JobTypes, ThreadTypes, \A v \in Threads : ThreadInv(v), jobs' = jobs,
         NEW w \in Threads, Elsewhere(w), ThreadInv(w)'
  PROVE  \A v \in Threads : ThreadInv(v)'
<1>1. JobsKept
  <2>1. Len(jobs) \in Nat
    BY DEF JobTypes
  <2> QED  BY <2>1 DEF JobsKept, SameForMiners
<1> QED  BY <1>1, StillInv DEF Elsewhere

(* What a step of a thread is to keep. *)
Moves(w) == ThreadTypes' /\ Elsewhere(w) /\ ThreadInv(w)'

(* Facts about one thread. *)
LEMMA OneThread ==
  ASSUME PipelineAssumption, JobTypes, ThreadTypes, NEW w \in Threads
  PROVE  /\ Len(jobs) \in Nat \ {0} /\ Latest = Len(jobs)
         /\ pc[w] \in PCs /\ cur[w] \in 0..Len(jobs) /\ emptied[w] \in 0..Len(jobs)
         /\ new_job[w] \in BOOLEAN /\ last_was_empty[w] \in BOOLEAN
         /\ full_coinbase_ready[w] \in BOOLEAN
         /\ blast[w] \in Blasts /\ reading[w] \in Readings /\ pace[w] \in Paces
  BY DEF JobTypes, ThreadTypes, LoopTypes, SendTypes, Latest

(* Nobody is left to reach. *)
LEMMA NoPaceType ==
  ASSUME PipelineAssumption
  PROVE  NoPace \in Paces /\ NoPace.to = {}
<1>1. Cardinality(Client) \in Nat
  BY FS_CardinalityType DEF PipelineAssumption
<1> QED  BY <1>1 DEF NoPace, Paces

(* The number of clients of a thread. *)
LEMMA CountType ==
  ASSUME PipelineAssumption, NEW w
  PROVE  CountSubscribers(w) \in 0..Cardinality(Client)
<1>1. Subscribers(w) \subseteq Client /\ IsFiniteSet(Client)
  BY DEF Subscribers, ClientsOf, PipelineAssumption
<1>2. /\ IsFiniteSet(Subscribers(w))
      /\ Cardinality(Subscribers(w)) <= Cardinality(Client)
  BY <1>1, FS_Subset
<1>3. Cardinality(Subscribers(w)) \in Nat /\ Cardinality(Client) \in Nat
  BY <1>1, <1>2, FS_CardinalityType
<1> QED  BY <1>2, <1>3 DEF CountSubscribers

(* A stratum thread is created. *)
LEMMA CreateMoves ==
  ASSUME PipelineAssumption, JobTypes, ThreadTypes, NEW w \in Threads, ThreadInv(w),
         CreateThread(w)
  PROVE  Moves(w)
<1>1. pc[w] = "off" /\ pc' = [pc EXCEPT ![w] = "new"] /\ jobs' = jobs
  BY DEF CreateThread, Goto, shared
<1>2. /\ cur' = cur /\ new_job' = new_job /\ last_was_empty' = last_was_empty
      /\ full_coinbase_ready' = full_coinbase_ready
      /\ blast' = blast /\ reading' = reading /\ pace' = pace /\ emptied' = emptied
  BY DEF CreateThread, loopVars, sendVars
<1>3. ThreadTypes' /\ Elsewhere(w) /\ pc'[w] = "new"
  BY <1>1, <1>2 DEF ThreadTypes, LoopTypes, SendTypes, PCs, Latest, Elsewhere, Still
<1>4. ThreadInv(w)'
  BY <1>1, <1>2, <1>3 DEF ThreadInv, LoopInv, ReadyInv, EmptyInv, Running, SendsEmpty
<1> QED  BY <1>3, <1>4 DEF Moves

(* A thread starts with the latest job. *)
LEMMA InitMoves ==
  ASSUME PipelineAssumption, JobTypes, ThreadTypes, NEW w \in Threads, ThreadInv(w),
         ThreadInit(w)
  PROVE  Moves(w)
<1>1. /\ pc[w] = "new" /\ pc' = [pc EXCEPT ![w] = "loop"] /\ jobs' = jobs
      /\ cur' = [cur EXCEPT ![w] = Len(jobs)]
  BY DEF ThreadInit, Goto, shared, Latest
<1>2. /\ new_job' = new_job /\ last_was_empty' = last_was_empty
      /\ full_coinbase_ready' = full_coinbase_ready
      /\ blast' = blast /\ reading' = reading /\ pace' = pace /\ emptied' = emptied
  BY DEF ThreadInit, sendVars
<1>3. Len(jobs) \in Nat \ {0} /\ emptied[w] \in 0..Len(jobs) /\ Latest = Len(jobs)
  BY OneThread
<1>4. cur' \in [Threads -> 0..Len(jobs)] /\ cur'[w] = Len(jobs)
  BY <1>1, <1>3 DEF ThreadTypes, LoopTypes
<1>5. ThreadTypes' /\ Elsewhere(w) /\ pc'[w] = "loop"
  BY <1>1, <1>2, <1>4 DEF ThreadTypes, LoopTypes, SendTypes, PCs, Latest, Elsewhere, Still
<1>6. ~ full_coinbase_ready[w] /\ ~ new_job[w] /\ emptied[w] = 0
      /\ blast[w].kind = "none" /\ blast[w].to \subseteq ClientsOf(w)
      /\ pace[w].to \subseteq ClientsOf(w) /\ reading[w].client = NoClient
  <2>1. blast[w] \in Blasts
    BY OneThread
  <2> QED  BY <1>1, <2>1 DEF ThreadInv, LoopInv, Running, Blasts
<1>7. LoopInv(w)'
  BY <1>2, <1>3, <1>4, <1>5, <1>6 DEF LoopInv, Running
<1>8. ReadyInv(w)'
  BY <1>2, <1>6 DEF ReadyInv
<1>9. EmptyInv(w)'
  BY <1>2, <1>3, <1>4, <1>5, <1>6 DEF EmptyInv, SendsEmpty
<1> QED  BY <1>5, <1>7, <1>8, <1>9 DEF Moves, ThreadInv

(* A thread sees that there is a newer job. *)
LEMMA SwitchMoves ==
  ASSUME PipelineAssumption, JobTypes, ThreadTypes, NEW w \in Threads, ThreadInv(w),
         SwitchJob(w)
  PROVE  Moves(w)
<1>1. /\ pc[w] = "loop" /\ pc' = [pc EXCEPT ![w] = "serve"] /\ jobs' = jobs
      /\ cur[w] # Len(jobs) /\ cur' = [cur EXCEPT ![w] = Len(jobs)]
      /\ reading[w].client = NoClient
  BY DEF SwitchJob, Goto, shared, Latest
<1>2. /\ new_job' = [new_job EXCEPT ![w] = TRUE]
      /\ full_coinbase_ready' = [full_coinbase_ready EXCEPT ![w] = FALSE]
      /\ blast' = blast /\ reading' = reading /\ emptied' = emptied
      /\ pace' = [pace EXCEPT ![w] = NoPace]
  BY DEF SwitchJob
<1>0. NoPace \in Paces /\ NoPace.to = {}
  BY NoPaceType
<1>3. last_was_empty' \in [Threads -> BOOLEAN]
      /\ \A v \in Threads \ {w} : last_was_empty'[v] = last_was_empty[v]
  BY DEF SwitchJob, ThreadTypes, LoopTypes
<1>4. /\ Len(jobs) \in Nat \ {0} /\ emptied[w] \in 0..Len(jobs)
      /\ cur[w] \in 0..Len(jobs) /\ Latest = Len(jobs)
  BY OneThread
<1>5. cur' \in [Threads -> 0..Len(jobs)] /\ cur'[w] = Len(jobs)
  BY <1>1, <1>4 DEF ThreadTypes, LoopTypes
<1>6. ThreadTypes' /\ pace'[w] = NoPace
  BY <1>0, <1>1, <1>2, <1>3, <1>5 DEF ThreadTypes, LoopTypes, SendTypes, PCs, Latest
<1>7. Elsewhere(w)
  BY <1>1, <1>2, <1>3 DEF ThreadTypes, LoopTypes, SendTypes, Elsewhere, Still
<1>8. pc'[w] = "serve" /\ ~ full_coinbase_ready'[w]
  BY <1>1, <1>2 DEF ThreadTypes, LoopTypes
<1>9. /\ cur[w] >= 1 /\ emptied[w] <= cur[w]
      /\ blast[w].to \subseteq ClientsOf(w) /\ blast[w].kind = "none"
  BY <1>1 DEF ThreadInv, LoopInv, EmptyInv, Running
<1>10. emptied[w] < Len(jobs) /\ Len(jobs) >= 2
  BY <1>1, <1>4, <1>9
<1>11. LoopInv(w)'
  BY <1>0, <1>1, <1>6, <1>2, <1>5, <1>8, <1>9, <1>10 DEF LoopInv, Running
<1>12. ReadyInv(w)'
  BY <1>8 DEF ReadyInv
<1>13. EmptyInv(w)'
  BY <1>2, <1>4, <1>5, <1>8, <1>9, <1>10 DEF EmptyInv, SendsEmpty
<1> QED  BY <1>6, <1>7, <1>11, <1>12, <1>13 DEF Moves, ThreadInv

(* A thread that does not send the new work yet goes round once more. *)
LEMMA LaterMoves ==
  ASSUME PipelineAssumption, JobTypes, ThreadTypes, NEW w \in Threads, ThreadInv(w),
         ServeLater(w)
  PROVE  Moves(w)
<1>1. /\ pc[w] \in {"loop", "serve"} /\ pc' = [pc EXCEPT ![w] = "loop"] /\ jobs' = jobs
      /\ full_coinbase_ready' = [full_coinbase_ready EXCEPT ![w] = FALSE]
      /\ reading[w].client = NoClient
  BY DEF ServeLater, Serving, shared
<1>2. /\ cur' = cur /\ new_job' = new_job /\ last_was_empty' = last_was_empty
      /\ blast' = blast /\ reading' = reading /\ pace' = pace /\ emptied' = emptied
  BY DEF ServeLater, sendVars
<1>3. ThreadTypes' /\ Elsewhere(w)
  BY <1>1, <1>2 DEF ThreadTypes, LoopTypes, SendTypes, PCs, Latest, Elsewhere, Still
<1>4. pc'[w] = "loop" /\ ~ full_coinbase_ready'[w]
  BY <1>1 DEF ThreadTypes, LoopTypes
<1>5. LoopInv(w)'
  BY <1>1, <1>2, <1>4 DEF ThreadInv, LoopInv, Running
<1>6. ReadyInv(w)'
  BY <1>4 DEF ReadyInv
<1>7. EmptyInv(w)'
  BY <1>1, <1>2, <1>4 DEF ThreadInv, EmptyInv, SendsEmpty
<1> QED  BY <1>3, <1>5, <1>6, <1>7 DEF Moves, ThreadInv

(* Empty work goes out to all subscribers at once. *)
LEMMA BlastEmptyMoves ==
  ASSUME PipelineAssumption, JobTypes, ThreadTypes, NEW w \in Threads, ThreadInv(w),
         BlastEmpty(w)
  PROVE  Moves(w)
<1> DEFINE b == [kind |-> "empty", to |-> Subscribers(w)]
<1>1. /\ pc[w] \in {"loop", "serve"} /\ pc' = [pc EXCEPT ![w] = "send"] /\ jobs' = jobs
      /\ full_coinbase_ready' = [full_coinbase_ready EXCEPT ![w] = FALSE]
      /\ last_was_empty' = [last_was_empty EXCEPT ![w] = TRUE]
      /\ blast' = [blast EXCEPT ![w] = b]
      /\ reading[w].client = NoClient
  BY DEF BlastEmpty, Serving, shared
<1>2. new_job[w] /\ jobs[cur[w]].state = EmptyPlus /\ ~ last_was_empty[w]
  BY DEF BlastEmpty
<1>3. cur' = cur /\ new_job' = new_job /\ reading' = reading /\ pace' = pace /\ emptied' = emptied
  BY DEF BlastEmpty
<1>4. b \in Blasts /\ b.kind = "empty" /\ b.to \subseteq ClientsOf(w)
  BY DEF Blasts, Subscribers, ClientsOf
<1> HIDE DEF b
<1>5. ThreadTypes' /\ Elsewhere(w)
  BY <1>1, <1>3, <1>4 DEF ThreadTypes, LoopTypes, SendTypes, PCs, Latest, Elsewhere, Still
<1>6. pc'[w] = "send" /\ ~ full_coinbase_ready'[w] /\ last_was_empty'[w] /\ blast'[w] = b
  BY <1>1 DEF ThreadTypes, LoopTypes, SendTypes
<1>7. emptied[w] < cur[w]
  BY <1>2 DEF ThreadInv, EmptyInv
<1>8. LoopInv(w)'
  BY <1>1, <1>3, <1>4, <1>6 DEF ThreadInv, LoopInv, Running
<1>9. ReadyInv(w)'
  BY <1>6 DEF ReadyInv
<1>10. EmptyInv(w)'
  BY <1>1, <1>2, <1>3, <1>6, <1>7 DEF ThreadInv, EmptyInv
<1> QED  BY <1>5, <1>8, <1>9, <1>10 DEF Moves, ThreadInv

(* So does full work for a new block. *)
LEMMA BlastFullMoves ==
  ASSUME PipelineAssumption, JobTypes, ThreadTypes, NEW w \in Threads, ThreadInv(w),
         BlastFull(w)
  PROVE  Moves(w)
<1> DEFINE b == [kind |-> "full", to |-> Subscribers(w)]
           f == jobs[cur[w]].state # EmptyPlus /\ FullCoinbase(cur[w])
<1>1. /\ pc[w] \in {"loop", "serve"} /\ pc' = [pc EXCEPT ![w] = "send"] /\ jobs' = jobs
      /\ full_coinbase_ready' = [full_coinbase_ready EXCEPT ![w] = f]
      /\ last_was_empty' = [last_was_empty EXCEPT ![w] = FALSE]
      /\ new_job' = [new_job EXCEPT ![w] = FALSE]
      /\ blast' = [blast EXCEPT ![w] = b]
      /\ reading[w].client = NoClient
  BY DEF BlastFull, Serving, shared
<1>2. f => ~ jobs[cur[w]].need_coinbaser
  BY DEF BlastFull, FullCoinbase, CoinbaserReady
<1>3. cur' = cur /\ reading' = reading /\ pace' = pace /\ emptied' = emptied
  BY DEF BlastFull
<1>4. b \in Blasts /\ b.kind = "full" /\ b.to \subseteq ClientsOf(w) /\ f \in BOOLEAN
  BY DEF Blasts, Subscribers, ClientsOf
<1> HIDE DEF b, f
<1>5. ThreadTypes'
  BY <1>1, <1>3, <1>4 DEF ThreadTypes, LoopTypes, SendTypes, PCs, Latest
<1>6. Elsewhere(w)
  BY <1>1, <1>3 DEF ThreadTypes, LoopTypes, SendTypes, Elsewhere, Still
<1>7. /\ pc'[w] = "send" /\ full_coinbase_ready'[w] = f /\ blast'[w] = b
      /\ ~ new_job'[w]
  BY <1>1 DEF ThreadTypes, LoopTypes, SendTypes
<1>8. LoopInv(w)'
  BY <1>1, <1>3, <1>4, <1>7 DEF ThreadInv, LoopInv, Running
<1>9. ReadyInv(w)'
  BY <1>1, <1>2, <1>3, <1>7 DEF ReadyInv
<1>10. EmptyInv(w)'
  BY <1>3, <1>4, <1>7 DEF ThreadInv, EmptyInv, SendsEmpty
<1> QED  BY <1>5, <1>6, <1>8, <1>9, <1>10 DEF Moves, ThreadInv

(* Full work without hurry is handed out in turns. *)
LEMMA StartPaceMoves ==
  ASSUME PipelineAssumption, JobTypes, ThreadTypes, NEW w \in Threads, ThreadInv(w),
         StartPace(w)
  PROVE  Moves(w)
<1> DEFINE f == FullCoinbase(cur[w])
           p == IF Subscribers(w) = {} THEN NoPace
                ELSE [remaining |-> CountSubscribers(w), last |-> 0,
                      to |-> Subscribers(w), fresh |-> TRUE, joined |-> FALSE]
<1>1. /\ pc[w] \in {"loop", "serve"} /\ pc' = [pc EXCEPT ![w] = "loop"] /\ jobs' = jobs
      /\ full_coinbase_ready' = [full_coinbase_ready EXCEPT ![w] = f]
      /\ new_job' = [new_job EXCEPT ![w] = FALSE]
      /\ reading[w].client = NoClient
  BY DEF StartPace, Serving, shared
<1>2. f => ~ jobs[cur[w]].need_coinbaser
  BY DEF StartPace, FullCoinbase, CoinbaserReady
<1>3. /\ cur' = cur /\ reading' = reading /\ emptied' = emptied
      /\ blast' = blast /\ last_was_empty' = last_was_empty
      /\ pace' = [pace EXCEPT ![w] = p]
  BY DEF StartPace
<1>0. p \in Paces /\ p.to \subseteq ClientsOf(w)
  <2>1. CountSubscribers(w) \in 0..Cardinality(Client)
    BY CountType
  <2>2. Subscribers(w) \subseteq ClientsOf(w) /\ Subscribers(w) \in SUBSET Client
    BY DEF Subscribers, ClientsOf
  <2>3. NoPace \in Paces /\ NoPace.to = {}
    BY NoPaceType
  <2> QED  BY <2>1, <2>2, <2>3 DEF Paces
<1>4. f \in BOOLEAN
  BY DEF FullCoinbase
<1> HIDE DEF f, p
<1>5. ThreadTypes' /\ Elsewhere(w)
  BY <1>0, <1>1, <1>3, <1>4 DEF ThreadTypes, LoopTypes, SendTypes, PCs, Latest, Elsewhere, Still
<1>6. pc'[w] = "loop" /\ full_coinbase_ready'[w] = f /\ ~ new_job'[w]
      /\ pace'[w] = p
  BY <1>1, <1>3 DEF ThreadTypes, LoopTypes, SendTypes
<1>7. LoopInv(w)'
  BY <1>0, <1>1, <1>3, <1>6 DEF ThreadInv, LoopInv, Running
<1>8. ReadyInv(w)'
  BY <1>1, <1>2, <1>3, <1>6 DEF ReadyInv
<1>9. EmptyInv(w)'
  BY <1>1, <1>3, <1>6 DEF ThreadInv, EmptyInv, SendsEmpty
<1> QED  BY <1>5, <1>7, <1>8, <1>9 DEF Moves, ThreadInv

(* All subscribers have been sent the work. *)
LEMMA BlastDoneMoves ==
  ASSUME PipelineAssumption, JobTypes, ThreadTypes, NEW w \in Threads, ThreadInv(w),
         BlastDone(w)
  PROVE  Moves(w)
<1> DEFINE p == IF blast[w].kind = "empty" THEN "count" ELSE "loop"
<1>1. /\ pc[w] = "send" /\ blast[w].to = {} /\ pc' = [pc EXCEPT ![w] = p]
      /\ blast' = [blast EXCEPT ![w] = NoBlast] /\ jobs' = jobs
  BY DEF BlastDone, shared
<1>2. /\ cur' = cur /\ new_job' = new_job /\ last_was_empty' = last_was_empty
      /\ full_coinbase_ready' = full_coinbase_ready
      /\ reading' = reading /\ pace' = pace /\ emptied' = emptied
  BY DEF BlastDone, loopVars
<1>3. p \in {"count", "loop"} /\ (p = "count" => blast[w].kind = "empty")
  OBVIOUS
<1> HIDE DEF p
<1>4. NoBlast \in Blasts /\ NoBlast.kind = "none" /\ NoBlast.to = {}
  BY DEF NoBlast, Blasts
<1>5. ThreadTypes' /\ Elsewhere(w)
  BY <1>1, <1>2, <1>3, <1>4 DEF ThreadTypes, LoopTypes, SendTypes, PCs, Latest, Elsewhere, Still
<1>6. pc'[w] = p /\ blast'[w] = NoBlast
  BY <1>1 DEF ThreadTypes, LoopTypes, SendTypes
<1>7. LoopInv(w)'
  BY <1>1, <1>2, <1>3, <1>4, <1>6 DEF ThreadInv, LoopInv, Running
<1>8. ReadyInv(w)'
  BY <1>1, <1>2 DEF ThreadInv, ReadyInv
<1>9. EmptyInv(w)'
  BY <1>1, <1>2, <1>3, <1>4, <1>6 DEF ThreadInv, EmptyInv, SendsEmpty
<1> QED  BY <1>5, <1>7, <1>8, <1>9 DEF Moves, ThreadInv

(* A thread reports that its empty work is out. *)
LEMMA CountMoves ==
  ASSUME PipelineAssumption, JobTypes, ThreadTypes, NEW w \in Threads, ThreadInv(w),
         CountEmpty(w)
  PROVE  Moves(w)
<1>1. /\ pc[w] = "count" /\ pc' = [pc EXCEPT ![w] = "loop"]
      /\ emptied' = [emptied EXCEPT ![w] = cur[w]] /\ jobs' = jobs
  BY DEF CountEmpty, Goto
<1>2. /\ cur' = cur /\ new_job' = new_job /\ last_was_empty' = last_was_empty
      /\ full_coinbase_ready' = full_coinbase_ready
      /\ reading' = reading /\ pace' = pace /\ blast' = blast
  BY DEF CountEmpty, loopVars
<1>3. cur[w] \in 0..Len(jobs) /\ Latest = Len(jobs) /\ Len(jobs) \in Nat
  BY OneThread
<1>4. ThreadTypes' /\ Elsewhere(w)
  BY <1>1, <1>2, <1>3 DEF ThreadTypes, LoopTypes, SendTypes, PCs, Latest, Elsewhere, Still
<1>5. pc'[w] = "loop" /\ emptied'[w] = cur[w]
  BY <1>1 DEF ThreadTypes, LoopTypes, SendTypes
<1>6. LoopInv(w)'
  BY <1>1, <1>2, <1>5 DEF ThreadInv, LoopInv, Running
<1>7. ReadyInv(w)'
  BY <1>1, <1>2 DEF ThreadInv, ReadyInv
<1>8. EmptyInv(w)'
  <2>1. blast[w].kind = "none" /\ last_was_empty[w]
    BY <1>1 DEF ThreadInv, LoopInv, EmptyInv, SendsEmpty
  <2>2. new_job[w] => cur[w] >= 2
    BY DEF ThreadInv, EmptyInv
  <2>3. cur[w] <= cur[w]
    BY <1>3
  <2> QED  BY <1>2, <1>5, <2>1, <2>2, <2>3 DEF EmptyInv, SendsEmpty
<1> QED  BY <1>4, <1>6, <1>7, <1>8 DEF Moves, ThreadInv

(* The hand-out of thread w goes on; that of others is left alone. *)
PaceHere(w) ==
  /\ pace' \in [Threads -> Paces] /\ pace'[w].to \subseteq ClientsOf(w)
  /\ \A v \in Threads \ {w} : pace'[v] = pace[v]

(* The index of a job is read for a client. *)
LEMMA ReadMoves ==
  ASSUME PipelineAssumption, JobTypes, ThreadTypes, NEW w \in Threads, ThreadInv(w),
         NEW c \in ClientsOf(w), NotifyRead(w, c), PaceHere(w),
         pc[w] = "loop" \/ (pc[w] = "send" /\ c \in blast[w].to),
         jobs' = jobs, UNCHANGED <<pc, loopVars, blast, emptied>>
  PROVE  Moves(w)
<1> DEFINE r == [client |-> c, index |-> jobs[cur[w]].index]
<1>1. reading' = [reading EXCEPT ![w] = r]
  BY DEF NotifyRead
<1>2. /\ pc' = pc /\ cur' = cur /\ new_job' = new_job /\ last_was_empty' = last_was_empty
      /\ full_coinbase_ready' = full_coinbase_ready
      /\ blast' = blast /\ emptied' = emptied
  BY DEF loopVars
<1>3. cur[w] \in 1..Len(jobs)
  <2>1. cur[w] >= 1
    BY DEF ThreadInv, LoopInv, Running
  <2>2. cur[w] \in 0..Len(jobs) /\ Len(jobs) \in Nat
    BY OneThread
  <2> QED  BY <2>1, <2>2
<1>4. r \in Readings /\ r.client = c /\ r.index = jobs[cur[w]].index
  <2>1. jobs[cur[w]] \in Job
    BY <1>3 DEF JobTypes
  <2>2. jobs[cur[w]].index \in Coinbases
    BY <2>1 DEF Job
  <2> QED  BY <2>2 DEF Readings, ClientsOf
<1> HIDE DEF r
<1>5. ThreadTypes'
  BY <1>1, <1>2, <1>4 DEF ThreadTypes, LoopTypes, SendTypes, Latest, PaceHere
<1>6. Elsewhere(w)
  BY <1>1, <1>2 DEF ThreadTypes, SendTypes, Elsewhere, Still, PaceHere
<1>7. reading'[w] = r
  BY <1>1 DEF ThreadTypes, SendTypes
<1>8. LoopInv(w)'
  BY <1>2, <1>4, <1>7 DEF ThreadInv, LoopInv, Running, PaceHere
<1>9. ReadyInv(w)'
  BY <1>2, <1>4, <1>7 DEF ThreadInv, ReadyInv
<1>10. EmptyInv(w)'
  BY <1>2 DEF ThreadInv, EmptyInv, SendsEmpty
<1> QED  BY <1>5, <1>6, <1>8, <1>9, <1>10 DEF Moves, ThreadInv

(* The client has its work. *)
LEMMA WriteMoves ==
  ASSUME PipelineAssumption, JobTypes, ThreadTypes, NEW w \in Threads, ThreadInv(w),
         NotifyWrite(w), jobs' = jobs,
         UNCHANGED <<pc, loopVars, pace, emptied>>,
         blast' \in [Threads -> Blasts],
         \A v \in Threads \ {w} : blast'[v] = blast[v],
         blast'[w].kind = blast[w].kind, blast'[w].to \subseteq blast[w].to
  PROVE  Moves(w)
<1>1. reading' = [reading EXCEPT ![w] = NotReading]
  BY DEF NotifyWrite
<1>2. /\ pc' = pc /\ cur' = cur /\ new_job' = new_job /\ last_was_empty' = last_was_empty
      /\ full_coinbase_ready' = full_coinbase_ready
      /\ pace' = pace /\ emptied' = emptied
  BY DEF loopVars
<1>3. NotReading \in Readings /\ NotReading.client = NoClient
  BY DEF NotReading, Readings, Coinbases
<1>4. ThreadTypes'
  BY <1>1, <1>2, <1>3 DEF ThreadTypes, LoopTypes, SendTypes, Latest
<1>5. Elsewhere(w)
  BY <1>1, <1>2 DEF ThreadTypes, SendTypes, Elsewhere, Still
<1>6. reading'[w] = NotReading
  BY <1>1 DEF ThreadTypes, SendTypes
<1>7. LoopInv(w)'
  BY <1>2, <1>3, <1>6 DEF ThreadInv, LoopInv, Running
<1>8. ReadyInv(w)'
  BY <1>2, <1>3, <1>6 DEF ThreadInv, ReadyInv
<1>9. EmptyInv(w)'
  BY <1>2 DEF ThreadInv, EmptyInv, SendsEmpty
<1> QED  BY <1>4, <1>5, <1>7, <1>8, <1>9 DEF Moves, ThreadInv

(* Only the hand-out of a thread goes on. *)
LEMMA PaceMoves ==
  ASSUME PipelineAssumption, JobTypes, ThreadTypes, NEW w \in Threads, ThreadInv(w),
         jobs' = jobs, UNCHANGED <<pc, loopVars, blast, reading, emptied>>, PaceHere(w)
  PROVE  Moves(w)
<1>1. /\ pc' = pc /\ cur' = cur /\ new_job' = new_job /\ last_was_empty' = last_was_empty
      /\ full_coinbase_ready' = full_coinbase_ready
      /\ blast' = blast /\ reading' = reading /\ emptied' = emptied
  BY DEF loopVars
<1>2. ThreadTypes'
  BY <1>1 DEF ThreadTypes, LoopTypes, SendTypes, Latest, PaceHere
<1>3. Elsewhere(w)
  BY <1>1 DEF Elsewhere, Still, PaceHere
<1>4. ThreadInv(w)'
  BY <1>1 DEF ThreadInv, LoopInv, ReadyInv, EmptyInv, Running, SendsEmpty, PaceHere
<1> QED  BY <1>2, <1>3, <1>4 DEF Moves

(* All steps of a thread and its clients. *)
ThreadStep(w) ==
  StratumThread(w) \/ Clients(w) \/ CreateThread(w) \/ CountThread(w)

(* Who is left of a paced hand-out are clients of the thread. *)
LEMMA PaceParts ==
  ASSUME PipelineAssumption, JobTypes, ThreadTypes, NEW w \in Threads, ThreadInv(w)
  PROVE  /\ pace[w] \in Paces /\ pace[w].to \subseteq ClientsOf(w)
         /\ pace[w].to \in SUBSET Client /\ ClientsOf(w) \subseteq Client
         /\ \A c \in Client : c[2] \in Nat
         /\ Cardinality(Client) \in Nat
<1>1. pace[w] \in Paces
  BY OneThread
<1>2. pace[w].to \subseteq ClientsOf(w)
  BY DEF ThreadInv, LoopInv
<1>3. Cardinality(Client) \in Nat
  BY FS_CardinalityType DEF PipelineAssumption
<1>4. ClientsOf(w) \subseteq Client
  BY DEF ClientsOf
<1>5. \A c \in Client : c[2] \in Nat
  BY DEF PipelineAssumption
<1>6. pace[w].to \in SUBSET Client
  BY <1>2, <1>4
<1> QED  BY <1>1, <1>2, <1>3, <1>4, <1>5, <1>6

(* A hand-out set to p. *)
LEMMA PaceSet ==
  ASSUME PipelineAssumption, JobTypes, ThreadTypes, NEW w \in Threads, ThreadInv(w),
         NEW p \in Paces, p.to \subseteq ClientsOf(w), pace' = [pace EXCEPT ![w] = p]
  PROVE  PaceHere(w)
  BY DEF PaceHere, ThreadTypes, SendTypes

(* Every step of a thread is one of these. *)
LEMMA ThreadMoves ==
  ASSUME PipelineAssumption, JobTypes, ThreadTypes, NEW w \in Threads, ThreadInv(w),
         ThreadStep(w)
  PROVE  Moves(w)
<1>1. CASE SendNext(w)
  <2>1. PICK c \in blast[w].to : NotifyRead(w, c)
    BY <1>1 DEF SendNext
  <2>2. c \in ClientsOf(w)
    BY DEF ThreadInv, LoopInv
  <2>3. /\ pc[w] = "send" /\ jobs' = jobs /\ UNCHANGED <<pc, loopVars, blast, emptied>>
        /\ pace' = pace
    BY <1>1 DEF SendNext, shared
  <2>4. PaceHere(w)
    BY <2>3 DEF PaceHere, ThreadTypes, SendTypes, ThreadInv, LoopInv
  <2> QED  BY <2>1, <2>2, <2>3, <2>4, ReadMoves
<1>2. CASE SendDone(w)
  <2> DEFINE b == [blast[w] EXCEPT !.to = @ \ {reading[w].client}]
  <2>1. /\ NotifyWrite(w) /\ jobs' = jobs /\ UNCHANGED <<pc, loopVars, pace, emptied>>
        /\ blast' = [blast EXCEPT ![w].to = @ \ {reading[w].client}]
    BY <1>2 DEF SendDone, shared
  <2>2. blast[w] \in Blasts
    BY OneThread
  <2>3. b \in Blasts /\ b.kind = blast[w].kind /\ b.to \subseteq blast[w].to
    BY <2>2 DEF Blasts
  <2>4. blast' = [blast EXCEPT ![w] = b]
    BY <2>1
  <2> HIDE DEF b
  <2>5. /\ blast' \in [Threads -> Blasts] /\ blast'[w] = b
        /\ \A v \in Threads \ {w} : blast'[v] = blast[v]
    BY <2>3, <2>4 DEF ThreadTypes, SendTypes
  <2> QED  BY <2>1, <2>3, <2>5, WriteMoves
<1>3. CASE Notified(w)
  <2>1. /\ NotifyWrite(w) /\ jobs' = jobs /\ UNCHANGED <<pc, loopVars, pace, emptied>>
        /\ blast' = blast
    BY <1>3 DEF Notified, shared
  <2>2. blast' \in [Threads -> Blasts]
    BY <2>1 DEF ThreadTypes, SendTypes
  <2> QED  BY <2>1, <2>2, WriteMoves
<1>4. CASE PaceNext(w)
  <2>1. PICK c \in PaceCandidates(w) :
             /\ NotifyRead(w, c)
             /\ pace' = [pace EXCEPT ![w].remaining = @ - 1, ![w].last = c[2]]
    BY <1>4 DEF PaceNext
  <2>2. /\ pc[w] = "loop" /\ pace[w].remaining > 0 /\ jobs' = jobs
        /\ UNCHANGED <<pc, loopVars, blast, emptied>>
    BY <1>4 DEF PaceNext, Pacing, shared
  <2>3. c \in pace[w].to
    BY DEF PaceCandidates
  <2>4. pace[w] \in Paces /\ c \in ClientsOf(w) /\ c[2] \in Nat /\ Cardinality(Client) \in Nat
    BY <2>3, PaceParts
  <2> DEFINE n == pace[w].remaining - 1
             p == [pace[w] EXCEPT !.remaining = n, !.last = c[2]]
  <2>5. n \in 0..Cardinality(Client)
    BY <2>2, <2>4 DEF Paces
  <2>6. pace' = [pace EXCEPT ![w] = p]
    BY <2>1, <2>4 DEF ThreadTypes, SendTypes
  <2> HIDE DEF n
  <2>7. p \in Paces /\ p.to = pace[w].to
    BY <2>4, <2>5 DEF Paces
  <2> HIDE DEF p
  <2>8. p.to \subseteq ClientsOf(w)
    BY <2>7, PaceParts
  <2>9. PaceHere(w)
    BY <2>6, <2>7, <2>8, PaceSet
  <2> QED  BY <2>1, <2>2, <2>4, <2>9, ReadMoves
<1>5. CASE PaceEnd(w)
  <2> DEFINE p == [pace[w] EXCEPT !.remaining = 0]
  <2>1. /\ jobs' = jobs /\ UNCHANGED <<pc, loopVars, blast, reading, emptied>>
        /\ pace' = [pace EXCEPT ![w].remaining = 0]
    BY <1>5 DEF PaceEnd, shared
  <2>2. pace' = [pace EXCEPT ![w] = p]
    BY <2>1
  <2>3. pace[w] \in Paces /\ Cardinality(Client) \in Nat /\ pace[w].to \subseteq ClientsOf(w)
    BY PaceParts
  <2>4. p \in Paces /\ p.to = pace[w].to
    BY <2>3 DEF Paces
  <2> HIDE DEF p
  <2>5. PaceHere(w)
    BY <2>2, <2>3, <2>4, PaceSet
  <2> QED  BY <2>1, <2>5, PaceMoves
<1>6. CASE ServeNothing(w)
  <2> DEFINE p == [pace[w] EXCEPT !.fresh = FALSE]
  <2>1. /\ jobs' = jobs /\ UNCHANGED <<pc, loopVars, blast, reading, emptied>>
        /\ pace' = [pace EXCEPT ![w].fresh = FALSE]
    BY <1>6 DEF ServeNothing, shared
  <2>2. pace' = [pace EXCEPT ![w] = p]
    BY <2>1
  <2>3. pace[w] \in Paces /\ pace[w].to \subseteq ClientsOf(w)
    BY PaceParts
  <2>4. p \in Paces /\ p.to = pace[w].to
    BY <2>3 DEF Paces
  <2> HIDE DEF p
  <2>5. PaceHere(w)
    BY <2>2, <2>3, <2>4, PaceSet
  <2> QED  BY <2>1, <2>5, PaceMoves
<1>7. ASSUME NEW c \in ClientsOf(w), Subscribe(w, c)
      PROVE  Moves(w)
  <2> DEFINE t == IF pace[w].fresh THEN pace[w].to \cup {c} ELSE pace[w].to \ {c}
             g == pace[w].joined \/ pace[w].fresh
             p == [pace[w] EXCEPT !.to = t, !.joined = g]
  <2>1. /\ NotifyRead(w, c) /\ pc[w] = "loop" /\ jobs' = jobs
        /\ UNCHANGED <<pc, loopVars, blast, emptied>>
        /\ pace' = [pace EXCEPT ![w].to = IF pace[w].fresh THEN @ \cup {c} ELSE @ \ {c},
                                ![w].joined = @ \/ pace[w].fresh]
    BY <1>7 DEF Subscribe, shared
  <2>2. pace' = [pace EXCEPT ![w] = p]
    <3>1. pace \in [Threads -> Paces]
      BY DEF ThreadTypes, SendTypes
    <3> QED  BY <2>1, <3>1
  <2>7. g \in BOOLEAN
    OBVIOUS
  <2>3. /\ pace[w] \in Paces /\ pace[w].to \subseteq ClientsOf(w)
        /\ ClientsOf(w) \subseteq Client
    BY PaceParts
  <2>4. t \subseteq ClientsOf(w) /\ t \in SUBSET Client
    BY <2>3
  <2> HIDE DEF t, g
  <2>5. p \in Paces /\ p.to = t
    BY <2>3, <2>4, <2>7 DEF Paces
  <2> HIDE DEF p
  <2>6. PaceHere(w)
    BY <2>2, <2>4, <2>5, PaceSet
  <2> QED  BY <2>1, <2>6, ReadMoves
<1>8. pace' = pace => PaceHere(w)
  BY DEF PaceHere, ThreadTypes, SendTypes, ThreadInv, LoopInv
<1>9. ASSUME NEW c \in ClientsOf(w), QuickDiff(w, c)
      PROVE  Moves(w)
  <2>1. /\ NotifyRead(w, c) /\ pc[w] = "loop" /\ jobs' = jobs
        /\ UNCHANGED <<pc, loopVars, blast, emptied>> /\ pace' = pace
    BY <1>9 DEF QuickDiff, shared
  <2> QED  BY <1>8, <2>1, ReadMoves
<1>10. ASSUME NEW c \in ClientsOf(w), Disconnect(w, c)
       PROVE  Moves(w)
  <2>1. /\ jobs' = jobs /\ UNCHANGED <<pc, loopVars, blast, reading, emptied>>
        /\ pace' = pace
    BY <1>10 DEF Disconnect, shared, threadVars, sendVars
  <2> QED  BY <1>8, <2>1, PaceMoves
<1>11. CASE CountThread(w)
  <2>1. /\ jobs' = jobs /\ UNCHANGED <<pc, loopVars, blast, reading, emptied>>
        /\ pace' = pace
    BY <1>11 DEF CountThread, shared, sendVars
  <2> QED  BY <1>8, <2>1, PaceMoves
<1> QED  BY <1>1, <1>2, <1>3, <1>4, <1>5, <1>6, <1>7, <1>9, <1>10, <1>11,
            CreateMoves, InitMoves, SwitchMoves, LaterMoves, BlastEmptyMoves,
            BlastFullMoves, StartPaceMoves, BlastDoneMoves, CountMoves
         DEF ThreadStep, StratumThread, Clients

(* What the stratum threads leave to the others. *)
LEMMA ThreadLeaves ==
  ASSUME NEW w \in Threads, ThreadStep(w)
  PROVE  /\ UNCHANGED <<templateVars, jobs, coinbaserVars, empty_job_index, ready_for_full>>
         /\ CountEmpty(w) \/ complete_count' = complete_count
<1>1. CASE Clients(w)
  BY <1>1 DEF Clients, Subscribe, QuickDiff, Disconnect, shared, emptyVars
<1>2. CASE CreateThread(w) \/ CountThread(w)
  BY <1>2 DEF CreateThread, CountThread, shared, emptyVars
<1>3. CASE StratumThread(w)
  BY <1>3 DEF StratumThread, ThreadInit, SwitchJob, ServeLater, ServeNothing, BlastEmpty,
     BlastFull, StartPace, SendNext, SendDone, BlastDone, CountEmpty, PaceNext, PaceEnd,
     Notified, shared, emptyVars
<1> QED  BY <1>1, <1>2, <1>3 DEF ThreadStep

(* ... and the others to the stratum threads. *)
LEMMA WorldLeaves ==
  ASSUME WorldStep
  PROVE  UNCHANGED <<threadVars, work>>
<1>1. CASE \E j \in 1..Latest : JobAges(j)
  BY <1>1 DEF JobAges
<1>2. CASE TemplateThread
  BY <1>2 DEF TemplateThread, InvalidateWork, PublishEmpty, PublishPriority, PublishNormal,
     FastForward
<1>3. CASE CoinbaserThread
  BY <1>3 DEF CoinbaserThread, LookForJob, GenerateIndex, RefreshCommitment, DeclareReady
<1> QED  BY <1>1, <1>2, <1>3 DEF WorldStep

-----------------------------------------------------------------------------
(* The work of the clients *)

(* Work with the full coinbase is what its job says, and the job is ready. *)
Valid(k) ==
  k.full => /\ k.job \in 1..Latest
            /\ ~ jobs[k.job].need_coinbaser
            /\ k.index = jobs[k.job].index
            /\ k.commitment = jobs[k.job].commitment

WorkInv == work \in [Client -> Work] /\ \A c \in Client : Valid(work[c])

PipelineInv ==
  /\ JobTypes /\ CoinbaserInv /\ ThreadTypes
  /\ \A w \in Threads : ThreadInv(w)
  /\ WorkInv

(* What a client is sent is valid. *)
LEMMA WriteValid ==
  ASSUME PipelineAssumption, PipelineInv, NEW w \in Threads, NotifyWrite(w), jobs' = jobs
  PROVE  WorkInv'
<1> DEFINE f == jobs[cur[w]].state >= FullPriority /\ full_coinbase_ready[w]
           k == [job |-> cur[w], index |-> reading[w].index,
                 commitment |-> jobs[cur[w]].commitment, full |-> f]
           r == reading[w].client
<1>1. work' = [work EXCEPT ![r] = k] /\ r # NoClient
  BY DEF NotifyWrite
<1>2. /\ JobTypes /\ ThreadTypes /\ ThreadInv(w)
      /\ work \in [Client -> Work] /\ \A c \in Client : Valid(work[c])
  BY DEF PipelineInv, WorkInv
<1>3. /\ Len(jobs) \in Nat \ {0} /\ cur[w] \in 0..Len(jobs)
      /\ reading[w] \in Readings /\ Latest = Len(jobs)
  BY <1>2, OneThread
<1>4. r \in Client /\ reading[w].index \in Coinbases
  BY <1>1, <1>3 DEF Readings
<1>5. cur[w] \in 1..Len(jobs)
  <2>1. cur[w] >= 1
    BY <1>1, <1>2 DEF ThreadInv, LoopInv, Running
  <2> QED  BY <1>3, <2>1
<1>6. jobs[cur[w]] \in Job
  BY <1>2, <1>5 DEF JobTypes
<1>7. f \in BOOLEAN /\ (f => full_coinbase_ready[w])
  OBVIOUS
<1> HIDE DEF f, r
<1>8. k \in Work
  BY <1>4, <1>5, <1>6, <1>7 DEF Work, Job
<1>9. /\ k.job = cur[w] /\ k.index = reading[w].index
      /\ k.commitment = jobs[cur[w]].commitment /\ k.full = f
  OBVIOUS
<1> HIDE DEF k
<1>10. full_coinbase_ready[w] => /\ ~ jobs[cur[w]].need_coinbaser
                                 /\ reading[w].index = jobs[cur[w]].index
  BY <1>1, <1>2 DEF ThreadInv, ReadyInv, r
<1>11. Valid(k)
  BY <1>3, <1>5, <1>7, <1>9, <1>10 DEF Valid
<1>12. work' \in [Client -> Work]
  BY <1>1, <1>2, <1>8
<1>13. \A c \in Client : Valid(work'[c])
  BY <1>1, <1>2, <1>4, <1>11
<1>14. \A c \in Client : Valid(work'[c]) => Valid(work[c])'
  BY DEF Valid, Latest
<1> QED  BY <1>12, <1>13, <1>14 DEF WorkInv

(* The steps of the threads, for the work. *)
LEMMA ThreadWork ==
  ASSUME PipelineAssumption, PipelineInv, NEW w \in Threads, ThreadStep(w)
  PROVE  WorkInv'
<1>1. jobs' = jobs
  BY ThreadLeaves
<1>2. CASE SendDone(w) \/ Notified(w)
  BY <1>1, <1>2, WriteValid DEF SendDone, Notified
<1>3. CASE work' = work
  BY <1>1, <1>3 DEF PipelineInv, WorkInv, Valid, Latest
<1>4. ASSUME NEW c \in ClientsOf(w), Disconnect(w, c)
      PROVE  WorkInv'
  <2>1. work' = [work EXCEPT ![c] = NoWork]
    BY <1>4 DEF Disconnect
  <2>2. NoWork \in Work /\ ~ NoWork.full
    BY DEF NoWork, Work, Coinbases
  <2>3. work \in [Client -> Work] /\ \A d \in Client : Valid(work[d])
    BY DEF PipelineInv, WorkInv
  <2>4. work' \in [Client -> Work] /\ \A d \in Client : Valid(work'[d])
    BY <2>1, <2>2, <2>3 DEF Valid
  <2>5. \A d \in Client : Valid(work'[d]) => Valid(work[d])'
    BY <1>1 DEF Valid, Latest
  <2> QED  BY <2>4, <2>5 DEF WorkInv
<1>5. SendDone(w) \/ Notified(w) \/ work' = work \/ \E c \in ClientsOf(w) : Disconnect(w, c)
  <2>1. CASE Clients(w)
    BY <2>1 DEF Clients, Subscribe, QuickDiff
  <2>2. CASE CreateThread(w) \/ CountThread(w)
    BY <2>2 DEF CreateThread, CountThread
  <2>3. CASE StratumThread(w)
    BY <2>3 DEF StratumThread, ThreadInit, SwitchJob, ServeLater, ServeNothing, BlastEmpty,
       BlastFull, StartPace, SendNext, BlastDone, CountEmpty, PaceNext, PaceEnd
  <2> QED  BY <2>1, <2>2, <2>3 DEF ThreadStep
<1> QED  BY <1>2, <1>3, <1>4, <1>5

(* Next, by who takes the step. *)
LEMMA WhoSteps ==
  ASSUME [Next]_vars
  PROVE  \/ WorldStep \/ \E w \in Threads : ThreadStep(w)
         \/ MarkReadyForFull \/ UNCHANGED vars
  BY DEF Next, WorldStep, ThreadStep

(* Nothing the pipeline is about changes. *)
LEMMA QuietStep ==
  ASSUME PipelineInv, UNCHANGED <<templateVars, jobs, coinbaserVars, threadVars, work>>
  PROVE  PipelineInv'
<1>1. JobTypes' /\ CoinbaserInv'
  BY DEF PipelineInv, JobTypes, CoinbaserInv, templateVars, coinbaserVars, Latest
<1>2. UNCHANGED <<pc, cur, new_job, last_was_empty, full_coinbase_ready, blast, reading,
                  pace, emptied>>
  BY DEF threadVars, loopVars, sendVars
<1>3. ThreadTypes'
  BY <1>2 DEF PipelineInv, ThreadTypes, LoopTypes, SendTypes, Latest
<1>4. \A w \in Threads : ThreadInv(w)'
  BY <1>2 DEF PipelineInv, ThreadInv, LoopInv, ReadyInv, EmptyInv, Running, SendsEmpty
<1>5. WorkInv'
  BY DEF PipelineInv, WorkInv, Valid, Latest
<1> QED  BY <1>1, <1>3, <1>4, <1>5 DEF PipelineInv

(* The invariant is inductive: one case for the template thread and the
   coinbaser, one for the stratum threads. *)
LEMMA PipelineStep ==
  ASSUME PipelineAssumption, PipelineInv, [Next]_vars
  PROVE  PipelineInv'
<1>1. /\ JobTypes /\ CoinbaserInv /\ ThreadTypes /\ WorkInv
      /\ \A w \in Threads : ThreadInv(w)
  BY DEF PipelineInv
<1>2. CASE WorldStep
  <2>1. JobTypes' /\ CoinbaserInv' /\ JobsKept
    BY <1>1, <1>2, WorldJobs
  <2>2. UNCHANGED <<threadVars, work>>
    BY <1>2, WorldLeaves
  <2>3. UNCHANGED <<pc, cur, new_job, last_was_empty, full_coinbase_ready, blast, reading,
                    pace, emptied>>
    BY <2>2 DEF threadVars, loopVars, sendVars
  <2>4. Len(jobs) \in Nat /\ Len(jobs') \in Nat /\ Len(jobs) <= Len(jobs')
    BY <1>1, <2>1 DEF JobTypes, JobsKept
  <2>5. ThreadTypes'
    <3>1. \A n \in 0..Len(jobs) : n \in 0..Len(jobs')
      BY <2>4
    <3>2. cur' \in [Threads -> 0..Len(jobs')] /\ emptied' \in [Threads -> 0..Len(jobs')]
      BY <1>1, <2>3, <3>1 DEF ThreadTypes, LoopTypes, SendTypes, Latest
    <3> QED  BY <1>1, <2>3, <3>2 DEF ThreadTypes, LoopTypes, SendTypes, Latest
  <2>6. \A w \in Threads : ThreadInv(w)'
    <3>1. \A w \in Threads : Still(w)
      BY <2>3 DEF Still
    <3> QED  BY <1>1, <2>1, <3>1, StillInv
  <2>7. WorkInv'
    <3>1. jobs' \in Seq(Job)
      BY <2>1 DEF JobTypes
    <3>2. work' = work /\ work \in [Client -> Work]
      BY <1>1, <2>2 DEF WorkInv
    <3>3. ASSUME NEW c \in Client PROVE Valid(work[c])'
      <4> DEFINE k == work[c]
      <4>1. k \in Work /\ Valid(k)
        BY <1>1 DEF WorkInv
      <4>2. k' = k
        BY <3>2
      <4> SUFFICES ASSUME k.full
                   PROVE  /\ k.job \in 1..Len(jobs')
                          /\ ~ jobs'[k.job].need_coinbaser
                          /\ k.index = jobs'[k.job].index
                          /\ k.commitment = jobs'[k.job].commitment
        BY <3>2 DEF Valid, Latest
      <4>3. /\ k.job \in 1..Len(jobs) /\ ~ jobs[k.job].need_coinbaser
            /\ k.index = jobs[k.job].index /\ k.commitment = jobs[k.job].commitment
        BY <4>1 DEF Valid, Latest
      <4>4. SameForMiners(jobs[k.job], jobs'[k.job])
        BY <2>1, <4>3 DEF JobsKept
      <4> HIDE DEF k
      <4> QED  BY <2>4, <4>3, <4>4 DEF SameForMiners
    <3> QED  BY <3>2, <3>3 DEF WorkInv
  <2> QED  BY <2>1, <2>5, <2>6, <2>7 DEF PipelineInv
<1>3. ASSUME NEW w \in Threads, ThreadStep(w)
      PROVE  PipelineInv'
  <2>1. UNCHANGED <<templateVars, jobs, coinbaserVars>>
    BY <1>3, ThreadLeaves
  <2>2. JobTypes' /\ CoinbaserInv'
    BY <1>1, <2>1 DEF JobTypes, CoinbaserInv, templateVars, coinbaserVars, Latest
  <2>3. ThreadTypes' /\ Elsewhere(w) /\ ThreadInv(w)'
    BY <1>1, <1>3, ThreadMoves DEF Moves
  <2>4. \A v \in Threads : ThreadInv(v)'
    BY <1>1, <2>1, <2>3, OneThreadMoves
  <2>5. WorkInv'
    BY <1>3, ThreadWork
  <2> QED  BY <2>2, <2>3, <2>4, <2>5 DEF PipelineInv
<1>4. CASE MarkReadyForFull \/ UNCHANGED vars
  <2>1. UNCHANGED <<templateVars, jobs, coinbaserVars, threadVars, work>>
    BY <1>4 DEF MarkReadyForFull, vars
  <2> QED  BY <2>1, QuietStep
<1> QED  BY <1>2, <1>3, <1>4, WhoSteps

(* It holds when the first job is created. *)
LEMMA PipelineInit ==
  ASSUME PipelineAssumption, Init
  PROVE  PipelineInv
<1> DEFINE n == NewJob(EmptyPlus)
<1>1. height = 1 /\ 1 \in 1..MaxHeight /\ MaxUrgent \in Nat /\ MaxNormal \in Nat
  BY DEF Init, PipelineAssumption
<1>2. /\ n \in Job /\ n.state = EmptyPlus /\ n.index = n.commitment
      /\ ~ n.need_coinbaser
  <2>1. height \in 1..MaxHeight
    BY <1>1
  <2>2. EmptyPlus \notin {FullPriority, FullNormal}
    BY DEF EmptyPlus, FullPriority, FullNormal
  <2> QED  BY <2>1, <2>2, NewJobParts
<1> HIDE DEF n
<1>3. jobs = <<n>> /\ jobs \in Seq(Job) /\ Len(jobs) = 1 /\ Latest = 1 /\ jobs[1] = n
  BY <1>2 DEF Init, n, Latest
<1>4. JobTypes
  BY <1>1, <1>3 DEF Init, JobTypes
<1>5. CoinbaserInv
  BY <1>2, <1>3 DEF Init, CoinbaserInv
<1>6. /\ NoBlast \in Blasts /\ NoBlast.kind = "none" /\ NoBlast.to = {}
      /\ NotReading \in Readings /\ NotReading.client = NoClient
      /\ NoWork \in Work /\ ~ NoWork.full
  BY DEF NoBlast, Blasts, NotReading, Readings, NoWork, Work, Coinbases
<1>7. NoPace \in Paces /\ NoPace.to = {}
  BY NoPaceType
<1>8. LoopTypes
  BY <1>3 DEF Init, LoopTypes, PCs
<1>9. SendTypes
  BY <1>3, <1>6, <1>7 DEF Init, SendTypes
<1>10. ASSUME NEW w \in Threads PROVE ThreadInv(w)
  <2>1. /\ pc[w] = IF w \in Started THEN "loop" ELSE "off"
        /\ cur[w] = IF w \in Started THEN 1 ELSE 0
        /\ ~ new_job[w] /\ ~ full_coinbase_ready[w] /\ emptied[w] = 0
        /\ blast[w] = NoBlast /\ reading[w] = NotReading /\ pace[w] = NoPace
    BY DEF Init
  <2>2. LoopInv(w)
    BY <1>6, <1>7, <2>1 DEF LoopInv, Running
  <2>3. ReadyInv(w)
    BY <2>1 DEF ReadyInv
  <2>4. EmptyInv(w)
    BY <1>6, <2>1 DEF EmptyInv, SendsEmpty
  <2> QED  BY <2>2, <2>3, <2>4 DEF ThreadInv
<1>11. WorkInv
  BY <1>6 DEF Init, WorkInv, Valid
<1> QED  BY <1>4, <1>5, <1>8, <1>9, <1>10, <1>11 DEF PipelineInv, ThreadTypes

(* It holds always. *)
LEMMA PipelineAlways ==
  Spec => []PipelineInv
<1>1. Init => PipelineInv
  BY PipelineInit, PipelineAssumption
<1>2. PipelineInv /\ [Next]_vars => PipelineInv'
  BY PipelineStep, PipelineAssumption
<1> QED  BY <1>1, <1>2, PTL DEF Spec

(* Work sent as work with the full coinbase stays what its job says: the index
   in the job id and the commitment fit together and the coinbaser thread no
   longer changes them (datum_coinbaser.c, datum_stratum_job_refresh_blake2b;
   datum_stratum.c, stratum_job_coinbaser_ready).                           *)
THEOREM FullWorkStaysValidAlways ==
  Spec => []FullWorkStaysValid
<1>1. PipelineInv => FullWorkStaysValid
  BY DEF PipelineInv, WorkInv, Valid, CoinbaserInv, FullWorkStaysValid
<1> QED  BY <1>1, PipelineAlways, PTL

-----------------------------------------------------------------------------
(* Empty work first *)

(* Empty-plus jobs are published for the statistics: there is none after the
   job the statistics are for.                                              *)
IndexInv ==
  /\ empty_job_index \in 1..Latest + 1
  /\ stage = "publishEmpty" => empty_job_index = Latest + 1
  /\ \A j \in 1..Latest : jobs[j].state = EmptyPlus => j <= empty_job_index

CountInv ==
  /\ ready_for_full \in BOOLEAN
  /\ ~ ready_for_full => complete_count = Cardinality(Done)

(* datum_active_threads is the number of the threads that are counted; at most
   one has been created and is not.                                         *)
ActiveInv ==
  /\ uncounted \subseteq Created
  /\ uncounted = {} \/ \E w \in Threads : uncounted = {w}
  /\ datum_active_threads = Cardinality(Created \ uncounted)

(* ready_for_full is said of the job in the statistics, and it was said when all
   threads that were counted had sent its empty work.                       *)
BarrierInv ==
  /\ barrier \in [job : Nat, counted : SUBSET Threads, early : SUBSET Threads]
  /\ barrier.job <= empty_job_index
  /\ ready_for_full => barrier.job = empty_job_index
  /\ barrier.early = {} => \A v \in barrier.counted :
                            emptied[v] >= barrier.job

FullInv(w) ==
  blast[w].kind = "full" /\ jobs[cur[w]].state = EmptyPlus => barrier.job >= cur[w]

EmptyFirstInv ==
  /\ PipelineInv /\ IndexInv /\ CountInv /\ ActiveInv /\ BarrierInv
  /\ \A w \in Threads : FullInv(w)

(* Finite sets of threads. *)
LEMMA SomeThreads ==
  ASSUME PipelineAssumption, NEW S, S \subseteq Threads
  PROVE  IsFiniteSet(S) /\ Cardinality(S) \in 0..Cardinality(Threads)
<1>1. IsFiniteSet(Threads)
  BY DEF PipelineAssumption
<1>2. IsFiniteSet(S) /\ Cardinality(S) <= Cardinality(Threads)
  BY <1>1, FS_Subset
<1>3. Cardinality(S) \in Nat /\ Cardinality(Threads) \in Nat
  BY <1>1, <1>2, FS_CardinalityType
<1> QED  BY <1>2, <1>3

(* The count of threads. *)
LEMMA ActiveStep ==
  ASSUME PipelineAssumption, PipelineInv, ActiveInv, [Next]_vars
  PROVE  ActiveInv'
<1>1. pc \in [Threads -> PCs]
  BY DEF PipelineInv, ThreadTypes, LoopTypes
<1>2. /\ uncounted \subseteq Created
      /\ uncounted = {} \/ \E w \in Threads : uncounted = {w}
      /\ datum_active_threads = Cardinality(Created \ uncounted)
  BY DEF ActiveInv
<1>3. ASSUME NEW w \in Threads, CreateThread(w)
      PROVE  ActiveInv'
  <2>1. /\ pc[w] = "off" /\ pc' = [pc EXCEPT ![w] = "new"] /\ uncounted = {}
        /\ uncounted' = {w} /\ datum_active_threads' = datum_active_threads
    BY <1>3 DEF CreateThread, Goto
  <2>2. Created' = Created \cup {w} /\ w \notin Created
    BY <1>1, <2>1 DEF Created
  <2>3. Created' \ uncounted' = Created \ uncounted
    BY <2>1, <2>2
  <2> QED  BY <1>2, <2>1, <2>2, <2>3 DEF ActiveInv
<1>4. ASSUME NEW w \in Threads, CountThread(w)
      PROVE  ActiveInv'
  <2>1. /\ w \in uncounted /\ uncounted' = {} /\ pc' = pc
        /\ datum_active_threads' = datum_active_threads + 1
    BY <1>4 DEF CountThread
  <2>2. uncounted = {w} /\ w \in Created /\ Created' = Created
    BY <1>2, <2>1 DEF Created
  <2>3. Created' \ uncounted' = (Created \ uncounted) \cup {w}
    BY <2>1, <2>2
  <2>4. IsFiniteSet(Created \ uncounted)
    <3>1. Created \ uncounted \subseteq Threads
      BY DEF Created
    <3> QED  BY <3>1, SomeThreads
  <2>5. Cardinality((Created \ uncounted) \cup {w}) = Cardinality(Created \ uncounted) + 1
    BY <2>2, <2>4, FS_AddElement
  <2> QED  BY <1>2, <2>1, <2>3, <2>5 DEF ActiveInv
<1>5. ASSUME NEW w \in Threads, StratumThread(w) \/ Clients(w)
      PROVE  ActiveInv'
  <2>1. uncounted' = uncounted /\ datum_active_threads' = datum_active_threads
    BY <1>5 DEF StratumThread, ThreadInit, SwitchJob, ServeLater, ServeNothing, BlastEmpty,
       BlastFull, StartPace, SendNext, SendDone, BlastDone, CountEmpty, PaceNext, PaceEnd,
       Notified, Clients, Subscribe, QuickDiff, Disconnect, poolVars, threadVars
  <2>2. \/ pc' = pc
        \/ pc[w] # "off" /\ \E p \in {"loop", "serve", "send", "count"} :
                              pc' = [pc EXCEPT ![w] = p]
    <3>1. CASE Clients(w)
      BY <3>1 DEF Clients, Subscribe, QuickDiff, Disconnect, threadVars
    <3>2. CASE StratumThread(w)
      BY <3>2 DEF StratumThread, ThreadInit, SwitchJob, ServeLater, ServeNothing, BlastEmpty,
         BlastFull, StartPace, SendNext, SendDone, BlastDone, CountEmpty, PaceNext, PaceEnd,
         Notified, Goto, Serving
    <3> QED  BY <1>5, <3>1, <3>2
  <2>3. Created' = Created
    BY <1>1, <2>2 DEF Created
  <2> QED  BY <1>2, <2>1, <2>3 DEF ActiveInv
<1>6. CASE WorldStep \/ MarkReadyForFull \/ UNCHANGED vars
  <2>1. UNCHANGED threadVars
    BY <1>6, WorldLeaves DEF MarkReadyForFull, vars
  <2>2. pc' = pc /\ uncounted' = uncounted /\ datum_active_threads' = datum_active_threads
    BY <2>1 DEF threadVars, poolVars
  <2> QED  BY <1>2, <2>2 DEF ActiveInv, Created
<1> QED  BY <1>3, <1>4, <1>5, <1>6, WhoSteps DEF ThreadStep

(* The index of the statistics when jobs come. *)
LEMMA IndexStep ==
  ASSUME PipelineAssumption, PipelineInv, IndexInv, [Next]_vars
  PROVE  IndexInv'
<1>1. /\ Len(jobs) \in Nat /\ Latest = Len(jobs) /\ jobs \in Seq(Job)
      /\ height \in 1..MaxHeight
      /\ empty_job_index \in 1..Len(jobs) + 1
      /\ \A j \in 1..Len(jobs) : jobs[j].state = EmptyPlus => j <= empty_job_index
  BY DEF PipelineInv, JobTypes, IndexInv, Latest
<1>2. JobTypes /\ CoinbaserInv
  BY DEF PipelineInv
<1>3. ASSUME Len(jobs') = Len(jobs), empty_job_index' = empty_job_index,
             JobsKept, stage' = "publishEmpty" => stage = "publishEmpty"
      PROVE  IndexInv'
  <2>1. \A j \in 1..Len(jobs) : jobs'[j].state = jobs[j].state
    BY <1>3 DEF JobsKept, SameForMiners
  <2>2. \A j \in 1..Len(jobs') : jobs'[j].state = EmptyPlus => j <= empty_job_index'
    BY <1>1, <1>3, <2>1
  <2>3. stage' = "publishEmpty" => empty_job_index' = Len(jobs') + 1
    BY <1>1, <1>3 DEF IndexInv
  <2> QED  BY <1>1, <1>3, <2>2, <2>3 DEF IndexInv, Latest
<1>4. ASSUME NEW s \in {FullPriority, FullNormal}, NEW q \in Seq(Job), Len(q) = Len(jobs),
             \A j \in 1..Len(jobs) : SameFields(jobs[j], q[j]),
             jobs' = Append(q, NewJob(s)), stage' # "publishEmpty",
             empty_job_index' = empty_job_index \/ empty_job_index' = Len(jobs) + 1
      PROVE  IndexInv'
  <2>1. NewJob(s) \in Job /\ NewJob(s).state = s
    BY <1>1, NewJobParts
  <2>2. /\ Len(jobs') = Len(jobs) + 1 /\ jobs'[Len(jobs) + 1] = NewJob(s)
        /\ \A j \in 1..Len(jobs) : jobs'[j] = q[j]
    BY <1>1, <1>4, <2>1
  <2>3. s # EmptyPlus
    BY DEF EmptyPlus, FullPriority, FullNormal
  <2>4. \A j \in 1..Len(jobs) : jobs'[j].state = jobs[j].state
    BY <1>4, <2>2 DEF SameFields
  <2>5. jobs'[Len(jobs) + 1].state # EmptyPlus
    BY <2>1, <2>2, <2>3
  <2>6. empty_job_index' \in 1..Len(jobs') + 1 /\ empty_job_index <= empty_job_index'
    BY <1>1, <1>4, <2>2
  <2>7. ASSUME NEW j \in 1..Len(jobs'), jobs'[j].state = EmptyPlus
        PROVE  j <= empty_job_index'
    <3>1. j \in 1..Len(jobs)
      BY <1>1, <2>2, <2>5, <2>7
    <3>2. j <= empty_job_index
      BY <1>1, <2>4, <2>7, <3>1
    <3> QED  BY <1>1, <2>6, <3>1, <3>2
  <2> QED  BY <1>4, <2>6, <2>7 DEF IndexInv, Latest
<1>5. \A j \in 1..Len(jobs) : SameFields(jobs[j], jobs[j])
  BY DEF SameFields
<1>6. CASE InvalidateWork
  <2>1. Len(jobs') = Len(jobs) /\ JobsKept
    <3>1. JobsKept
      BY <1>2, <1>6, WorldJobs DEF WorldStep, TemplateThread
    <3>2. Len(AllStale) = Len(jobs)
      BY <1>1, StaleJobs
    <3> QED  BY <1>6, <3>1, <3>2 DEF InvalidateWork
  <2>2. empty_job_index' = Len(jobs) + 1
    BY <1>6 DEF InvalidateWork, ResetEmptyStats, Latest
  <2>3. \A j \in 1..Len(jobs) : j <= Len(jobs) + 1
    BY <1>1
  <2> QED  BY <1>1, <2>1, <2>2, <2>3 DEF IndexInv, Latest
<1>7. CASE PublishEmpty
  <2>1. /\ empty_job_index = Len(jobs) + 1 /\ empty_job_index' = empty_job_index
        /\ jobs' = Append(jobs, NewJob(EmptyPlus)) /\ stage' = "empties"
    BY <1>7 DEF PublishEmpty, emptyVars, IndexInv, Latest
  <2>2. Len(jobs') = Len(jobs) + 1
    BY <1>1, <2>1
  <2>3. \A j \in 1..Len(jobs') : j <= empty_job_index'
    BY <1>1, <2>1, <2>2
  <2> QED  BY <1>1, <2>1, <2>2, <2>3 DEF IndexInv, Latest
<1>8. CASE PublishPriority
  <2>1. /\ empty_job_index' = empty_job_index /\ stage' # "publishEmpty"
        /\ jobs' = Append(jobs, NewJob(FullPriority))
    BY <1>8 DEF PublishPriority, emptyVars
  <2> QED  BY <1>1, <1>4, <1>5, <2>1
<1>9. CASE PublishNormal
  <2>1. /\ empty_job_index' = empty_job_index /\ stage' # "publishEmpty"
        /\ jobs' = Append(jobs, NewJob(FullNormal))
    BY <1>9 DEF PublishNormal, emptyVars
  <2> QED  BY <1>1, <1>4, <1>5, <2>1
<1>10. CASE FastForward
  <2>1. /\ empty_job_index' = Len(jobs) + 1 /\ stage' # "publishEmpty"
        /\ jobs' = Append(AllStale, NewJob(FullPriority))
    BY <1>10 DEF FastForward, ResetEmptyStats, Latest
  <2> QED  BY <1>1, <1>4, <2>1, StaleJobs
<1>11. CASE (\E j \in 1..Latest : JobAges(j)) \/ CoinbaserThread
  <2>1. empty_job_index' = empty_job_index /\ stage' = stage
    BY <1>11 DEF JobAges, CoinbaserThread, LookForJob, GenerateIndex, RefreshCommitment,
       DeclareReady, emptyVars, templateVars
  <2>2. JobsKept
    BY <1>2, <1>11, WorldJobs DEF WorldStep
  <2>3. \/ jobs' = jobs \/ \E j \in 1..Latest : jobs' = [jobs EXCEPT ![j].old = TRUE]
        \/ \E i \in Coinbases : jobs' = [jobs EXCEPT ![cb_job].index = i]
        \/ jobs' = [jobs EXCEPT ![cb_job].commitment = jobs[cb_job].index]
        \/ jobs' = [jobs EXCEPT ![cb_job].need_coinbaser = FALSE]
    BY <1>11 DEF JobAges, CoinbaserThread, LookForJob, GenerateIndex, RefreshCommitment,
       DeclareReady
  <2>4. Len(jobs') = Len(jobs)
    BY <1>1, <2>3
  <2> QED  BY <1>3, <2>1, <2>2, <2>4
<1>12. CASE (\E w \in Threads : ThreadStep(w)) \/ MarkReadyForFull \/ UNCHANGED vars
  <2>1. jobs' = jobs /\ stage' = stage /\ empty_job_index' = empty_job_index
    BY <1>12, ThreadLeaves DEF MarkReadyForFull, vars, templateVars, emptyVars
  <2> QED  BY <2>1 DEF IndexInv, Latest
<1> QED  BY <1>6, <1>7, <1>8, <1>9, <1>10, <1>11, <1>12, WhoSteps
         DEF WorldStep, TemplateThread

(* What the steps of a thread do to the counting. *)
LEMMA ThreadCounts ==
  ASSUME ThreadTypes, NEW w \in Threads, ThreadInv(w), ThreadStep(w)
  PROVE  /\ barrier' = barrier
         /\ CountEmpty(w) \/ (complete_count' = complete_count /\ emptied' = emptied)
         /\ \/ BlastFull(w)
            \/ blast'[w].kind = "full" => blast[w].kind = "full" /\ cur'[w] = cur[w]
<1>1. blast \in [Threads -> Blasts] /\ cur \in [Threads -> 0..Latest]
  BY DEF ThreadTypes, LoopTypes, SendTypes
<1>2. barrier' = barrier
  <2>1. CASE Clients(w)
    BY <2>1 DEF Clients, Subscribe, QuickDiff, Disconnect, shared, emptyVars
  <2>2. CASE CreateThread(w) \/ CountThread(w)
    BY <2>2 DEF CreateThread, CountThread, shared, emptyVars
  <2>3. CASE StratumThread(w)
    BY <2>3 DEF StratumThread, ThreadInit, SwitchJob, ServeLater, ServeNothing, BlastEmpty,
       BlastFull, StartPace, SendNext, SendDone, BlastDone, CountEmpty, PaceNext, PaceEnd,
       Notified, shared, emptyVars
  <2> QED  BY <2>1, <2>2, <2>3 DEF ThreadStep
<1>6. CountEmpty(w) \/ (complete_count' = complete_count /\ emptied' = emptied)
  <2>1. CASE Clients(w)
    BY <2>1 DEF Clients, Subscribe, QuickDiff, Disconnect, shared, threadVars, sendVars, emptyVars
  <2>3. CASE CreateThread(w) \/ CountThread(w)
    BY <2>3 DEF CreateThread, CountThread, shared, sendVars, emptyVars
  <2>2. CASE StratumThread(w)
    BY <2>2 DEF StratumThread, ThreadInit, SwitchJob, ServeLater, ServeNothing, BlastEmpty,
       BlastFull, StartPace, SendNext, SendDone, BlastDone, PaceNext, PaceEnd,
       Notified, sendVars, shared, emptyVars
  <2> QED  BY <2>1, <2>2, <2>3 DEF ThreadStep
<1>7. ASSUME ~ BlastFull(w), blast'[w].kind = "full"
      PROVE  blast[w].kind = "full" /\ cur'[w] = cur[w]
  <2>1. CASE Clients(w)
    BY <1>7, <2>1 DEF Clients, Subscribe, QuickDiff, Disconnect, threadVars, sendVars, loopVars
  <2>2. CASE SwitchJob(w)
    <3>1. blast' = blast /\ pc[w] = "loop"
      BY <2>2 DEF SwitchJob, Goto
    <3> QED  BY <1>7, <3>1 DEF ThreadInv, LoopInv
  <2>3. CASE BlastEmpty(w)
    <3>1. blast'[w] = [kind |-> "empty", to |-> Subscribers(w)]
      BY <1>1, <2>3 DEF BlastEmpty
    <3> QED  BY <1>7, <3>1
  <2>4. CASE BlastDone(w)
    <3>1. blast'[w] = NoBlast
      BY <1>1, <2>4 DEF BlastDone
    <3> QED  BY <1>7, <3>1 DEF NoBlast
  <2>5. CASE SendDone(w)
    <3>1. cur' = cur /\ blast' = [blast EXCEPT ![w].to = @ \ {reading[w].client}]
      BY <2>5 DEF SendDone, loopVars
    <3>2. blast'[w] = [blast[w] EXCEPT !.to = @ \ {reading[w].client}]
      BY <1>1, <3>1
    <3>3. blast[w] \in Blasts
      BY <1>1
    <3>4. blast'[w].kind = blast[w].kind
      BY <3>2, <3>3 DEF Blasts
    <3> QED  BY <1>7, <3>1, <3>4
  <2>6. CASE ServeLater(w) \/ ServeNothing(w) \/ StartPace(w) \/ SendNext(w) \/ CountEmpty(w)
             \/ PaceNext(w) \/ PaceEnd(w) \/ Notified(w)
    BY <1>7, <2>6 DEF ServeLater, ServeNothing, StartPace, SendNext, CountEmpty, PaceNext,
       PaceEnd, Notified, sendVars, loopVars
  <2>7. CASE CreateThread(w) \/ CountThread(w)
    BY <1>7, <2>7 DEF CreateThread, CountThread, sendVars, loopVars
  <2>8. CASE ThreadInit(w)
    <3>1. blast' = blast /\ pc[w] = "new"
      BY <2>8 DEF ThreadInit, Goto, sendVars
    <3> QED  BY <1>7, <3>1 DEF ThreadInv, LoopInv
  <2> QED  BY <1>7, <2>1, <2>2, <2>3, <2>4, <2>5, <2>6, <2>7, <2>8 DEF ThreadStep, StratumThread
<1> QED  BY <1>2, <1>6, <1>7

(* A thread reports: it is counted once. *)
LEMMA CountEmptyStep ==
  ASSUME PipelineAssumption, PipelineInv, IndexInv, CountInv, NEW w \in Threads,
         CountEmpty(w)
  PROVE  /\ CountInv'
         /\ \A v \in Threads : emptied'[v] >= emptied[v]
<1>1. /\ emptied' = [emptied EXCEPT ![w] = cur[w]] /\ pc[w] = "count"
      /\ ready_for_full' = ready_for_full /\ empty_job_index' = empty_job_index
      /\ complete_count' = IF CountsFor(w) /\ ~ ready_for_full
                           THEN complete_count + 1 ELSE complete_count
  BY DEF CountEmpty, Goto
<1>2. /\ JobTypes /\ ThreadTypes /\ ThreadInv(w) /\ IndexInv /\ CountInv
  BY DEF PipelineInv
<1>3. /\ cur[w] \in 0..Len(jobs) /\ emptied[w] \in 0..Len(jobs) /\ Len(jobs) \in Nat
      /\ Latest = Len(jobs)
  BY <1>2, OneThread
<1>4. emptied[w] < cur[w] /\ jobs[cur[w]].state = EmptyPlus
  BY <1>1, <1>2 DEF ThreadInv, EmptyInv, SendsEmpty
<1>5. cur[w] <= empty_job_index /\ empty_job_index \in Nat
  <2>1. cur[w] \in 1..Len(jobs)
    BY <1>3, <1>4
  <2>2. empty_job_index \in 1..Len(jobs) + 1
    BY <1>2, <1>3 DEF IndexInv
  <2> QED  BY <1>2, <1>3, <1>4, <2>1, <2>2 DEF IndexInv
<1>6. emptied[w] # empty_job_index
  BY <1>3, <1>4, <1>5
<1>7. emptied \in [Threads -> 0..Len(jobs)]
  BY <1>2, <1>3 DEF ThreadTypes, SendTypes
<1>8. \A v \in Threads : emptied'[v] >= emptied[v]
  <2> SUFFICES ASSUME NEW v \in Threads PROVE emptied'[v] >= emptied[v]
    OBVIOUS
  <2>1. emptied[v] \in Nat
    BY <1>3, <1>7
  <2>2. CASE v = w
    BY <1>1, <1>3, <1>4, <1>7, <2>2
  <2>3. CASE v # w
    BY <1>1, <1>7, <2>1, <2>3
  <2> QED  BY <2>2, <2>3
<1>9. CountInv'
  <2>1. ready_for_full' \in BOOLEAN
    BY <1>1, <1>2 DEF CountInv
  <2>2. ASSUME ~ ready_for_full
        PROVE  complete_count' = Cardinality(Done')
    <3>1. complete_count = Cardinality(Done)
      BY <1>2, <2>2 DEF CountInv
    <3>2. w \notin Done
      BY <1>6 DEF Done
    <3>3. CASE CountsFor(w)
      <4>1. Done' = Done \cup {w}
        BY <1>1, <1>7, <3>3 DEF Done, CountsFor
      <4>2. Cardinality(Done \cup {w}) = Cardinality(Done) + 1
        BY <3>2, SomeThreads, FS_AddElement DEF Done
      <4> QED  BY <1>1, <2>2, <3>1, <3>3, <4>1, <4>2
    <3>4. CASE ~ CountsFor(w)
      <4>1. Done' = Done
        BY <1>1, <1>6, <1>7, <3>4 DEF Done, CountsFor
      <4> QED  BY <1>1, <3>1, <3>4, <4>1
    <3> QED  BY <3>3, <3>4
  <2> QED  BY <1>1, <2>1, <2>2 DEF CountInv
<1> QED  BY <1>8, <1>9

(* The statistics when a step of the world is taken. *)
LEMMA WorldCounts ==
  ASSUME WorldStep
  PROVE  /\ emptied' = emptied /\ blast' = blast /\ cur' = cur /\ barrier' = barrier
         /\ \/ ~ ready_for_full' /\ complete_count' = 0 /\ empty_job_index' = Len(jobs) + 1
               /\ ready_for_full' \in BOOLEAN
            \/ UNCHANGED emptyVars
<1>1. emptied' = emptied /\ blast' = blast /\ cur' = cur
  BY WorldLeaves DEF threadVars, sendVars, loopVars
<1>2. \/ ~ ready_for_full' /\ complete_count' = 0 /\ empty_job_index' = Len(jobs) + 1
         /\ ready_for_full' \in BOOLEAN /\ barrier' = barrier
      \/ UNCHANGED emptyVars
  BY DEF WorldStep, JobAges, TemplateThread, InvalidateWork, PublishEmpty, PublishPriority,
     PublishNormal, FastForward, CoinbaserThread, LookForJob, GenerateIndex,
     RefreshCommitment, DeclareReady, ResetEmptyStats, Latest
<1>3. barrier' = barrier
  BY <1>2 DEF emptyVars
<1> QED  BY <1>1, <1>2, <1>3

(* As many threads have reported as are counted, and none of them before it was
   counted: then it is just these.                                          *)
LEMMA AllHaveReported ==
  ASSUME PipelineAssumption, PipelineInv, IndexInv, ActiveInv,
         Cardinality(Done) >= datum_active_threads, Done \cap uncounted = {}
  PROVE  \A v \in Created \ uncounted : emptied[v] = empty_job_index
<1>1. Done \subseteq Created
  <2> SUFFICES ASSUME NEW v \in Threads, emptied[v] = empty_job_index, pc[v] = "off"
               PROVE  FALSE
    BY DEF Done, Created
  <2>1. emptied[v] = 0
    BY DEF PipelineInv, ThreadInv, LoopInv, Running
  <2>2. empty_job_index \in 1..Latest + 1
    BY DEF IndexInv
  <2> QED  BY <2>1, <2>2
<1> DEFINE S == Created \ uncounted
<1>2. Done \subseteq S /\ S \subseteq Threads /\ Done \subseteq Threads
  BY <1>1 DEF Created
<1>3. Cardinality(S) = datum_active_threads
  BY DEF ActiveInv
<1> HIDE DEF S
<1>4. IsFiniteSet(S) /\ Cardinality(S) \in Nat /\ Cardinality(Done) \in Nat
  <2>1. Cardinality(S) \in 0..Cardinality(Threads) /\ Cardinality(Done) \in 0..Cardinality(Threads)
        /\ IsFiniteSet(S)
    BY <1>2, SomeThreads
  <2> QED  BY <2>1
<1>5. /\ Cardinality(Done) <= Cardinality(S)
      /\ Cardinality(S) = Cardinality(Done) => S = Done
  BY <1>2, <1>4, FS_Subset
<1>6. S = Done
  BY <1>3, <1>4, <1>5
<1> QED  BY <1>6 DEF S, Done

(* The order of the two rounds is inductive. *)
LEMMA EmptyFirstStep ==
  ASSUME PipelineAssumption, EmptyFirstInv, [Next]_vars
  PROVE  EmptyFirstInv'
<1>1. /\ PipelineInv /\ IndexInv /\ CountInv /\ ActiveInv /\ BarrierInv
      /\ \A w \in Threads : FullInv(w)
  BY DEF EmptyFirstInv
<1>2. PipelineInv' /\ IndexInv' /\ ActiveInv'
  BY <1>1, PipelineStep, IndexStep, ActiveStep
<1>3. /\ JobTypes /\ CoinbaserInv /\ ThreadTypes /\ \A w \in Threads : ThreadInv(w)
      /\ Len(jobs) \in Nat /\ Latest = Len(jobs)
      /\ emptied \in [Threads -> 0..Len(jobs)] /\ cur \in [Threads -> 0..Len(jobs)]
      /\ empty_job_index \in 1..Len(jobs) + 1 /\ barrier.job \in Nat
  BY <1>1 DEF PipelineInv, JobTypes, ThreadTypes, LoopTypes, SendTypes, Latest, IndexInv,
              BarrierInv
<1>4. ASSUME NEW v \in Threads, JobsKept, barrier'.job \in Nat, barrier'.job >= barrier.job,
             blast'[v].kind = "full" => blast[v].kind = "full" /\ cur'[v] = cur[v]
      PROVE  FullInv(v)'
  <2> SUFFICES ASSUME blast'[v].kind = "full", jobs'[cur'[v]].state = EmptyPlus
               PROVE  barrier'.job >= cur'[v]
    BY DEF FullInv
  <2>1. blast[v].kind = "full" /\ cur'[v] = cur[v]
    BY <1>4
  <2>2. cur[v] \in 1..Len(jobs)
    <3>1. pc[v] = "send"
      BY <1>3, <2>1 DEF ThreadInv, LoopInv
    <3>2. cur[v] >= 1
      BY <1>3, <3>1 DEF ThreadInv, LoopInv, Running
    <3>3. cur[v] \in 0..Len(jobs)
      BY <1>3
    <3> QED  BY <1>3, <3>2, <3>3
  <2>3. jobs[cur[v]].state = EmptyPlus
    BY <1>4, <2>1, <2>2 DEF JobsKept, SameForMiners
  <2>4. barrier.job >= cur[v]
    BY <1>1, <2>1, <2>3 DEF FullInv
  <2> QED  BY <1>3, <1>4, <2>1, <2>2, <2>4
<1>5. barrier' = barrier => barrier'.job \in Nat /\ barrier'.job >= barrier.job
  BY <1>3
<1>6. CASE WorldStep
  <2>1. /\ emptied' = emptied /\ blast' = blast /\ cur' = cur /\ barrier' = barrier
        /\ \/ ~ ready_for_full' /\ complete_count' = 0 /\ empty_job_index' = Len(jobs) + 1
              /\ ready_for_full' \in BOOLEAN
           \/ UNCHANGED emptyVars
    BY <1>6, WorldCounts
  <2>2. JobsKept
    BY <1>3, <1>6, WorldJobs
  <2>3. CountInv' /\ BarrierInv'
    <3>1. CASE UNCHANGED emptyVars
      BY <1>1, <2>1, <3>1 DEF CountInv, BarrierInv, Done, emptyVars
    <3>2. CASE ~ ready_for_full' /\ complete_count' = 0 /\ empty_job_index' = Len(jobs) + 1
               /\ ready_for_full' \in BOOLEAN
      <4>1. Done' = {}
        <5>1. \A v \in Threads : emptied[v] # Len(jobs) + 1
          BY <1>3
        <5> QED  BY <2>1, <3>2, <5>1 DEF Done
      <4>2. Cardinality({}) = 0
        BY FS_EmptySet
      <4>3. CountInv'
        BY <3>2, <4>1, <4>2 DEF CountInv
      <4>4. barrier.job <= Len(jobs) + 1
        BY <1>1, <1>3 DEF BarrierInv
      <4>5. BarrierInv'
        BY <1>1, <2>1, <3>2, <4>4 DEF BarrierInv
      <4> QED  BY <4>3, <4>5
    <3> QED  BY <2>1, <3>1, <3>2
  <2>4. \A w \in Threads : FullInv(w)'
    BY <1>4, <1>5, <2>1, <2>2
  <2> QED  BY <1>2, <2>3, <2>4 DEF EmptyFirstInv
<1>7. ASSUME NEW w \in Threads, ThreadStep(w)
      PROVE  EmptyFirstInv'
  <2>1. /\ UNCHANGED <<jobs, empty_job_index, ready_for_full>>
    BY <1>7, ThreadLeaves
  <2>2. /\ barrier' = barrier
        /\ CountEmpty(w) \/ (complete_count' = complete_count /\ emptied' = emptied)
        /\ \/ BlastFull(w)
           \/ blast'[w].kind = "full" => blast[w].kind = "full" /\ cur'[w] = cur[w]
    BY <1>1, <1>3, <1>7, ThreadCounts
  <2>3. CountInv' /\ \A v \in Threads : emptied'[v] \in Nat /\ emptied'[v] >= emptied[v]
    <3>1. \A v \in Threads : emptied'[v] \in Nat
      <4>1. Len(jobs') \in Nat /\ emptied' \in [Threads -> 0..Len(jobs')]
        BY <1>2 DEF PipelineInv, JobTypes, ThreadTypes, SendTypes, Latest
      <4> QED  BY <4>1
    <3>2. CASE CountEmpty(w)
      BY <1>1, <3>1, <3>2, CountEmptyStep
    <3>3. CASE complete_count' = complete_count /\ emptied' = emptied
      <4>1. CountInv'
        BY <1>1, <2>1, <3>3 DEF CountInv, Done
      <4>2. \A v \in Threads : emptied[v] >= emptied[v]
        BY <1>3
      <4> QED  BY <3>1, <3>3, <4>1, <4>2
    <3> QED  BY <2>2, <3>2, <3>3
  <2>4. BarrierInv'
    <3>1. ASSUME barrier.early = {}, NEW v \in barrier.counted
          PROVE  emptied'[v] >= barrier.job
      <4>1. v \in Threads /\ emptied[v] >= barrier.job
        BY <1>1, <3>1 DEF BarrierInv
      <4>2. emptied[v] \in Nat /\ emptied'[v] \in Nat /\ emptied'[v] >= emptied[v]
        BY <1>3, <2>3, <4>1
      <4> QED  BY <1>3, <4>1, <4>2
    <3> QED  BY <1>1, <2>1, <2>2, <3>1 DEF BarrierInv
  <2>5. JobsKept
    BY <1>3, <2>1 DEF JobsKept, SameForMiners
  <2>6. ASSUME NEW v \in Threads PROVE FullInv(v)'
    <3>1. CASE v # w
      <4>1. Still(v)
        BY <1>3, <1>7, <3>1, ThreadMoves DEF Moves, Elsewhere
      <4>2. blast'[v].kind = "full" => blast[v].kind = "full" /\ cur'[v] = cur[v]
        BY <4>1 DEF Still
      <4> QED  BY <1>4, <1>5, <2>2, <2>5, <4>2
    <3>2. CASE v = w /\ ~ BlastFull(w)
      BY <1>4, <1>5, <2>2, <2>5, <3>2
    <3>3. CASE v = w /\ BlastFull(w)
      <4> SUFFICES ASSUME jobs[cur[w]].state = EmptyPlus
                   PROVE  barrier.job >= cur[w]
        <5>1. jobs' = jobs /\ cur' = cur /\ barrier' = barrier
          BY <2>2, <3>3 DEF BlastFull, shared
        <5> QED  BY <3>3, <5>1 DEF FullInv
      <4>1. new_job[w] /\ ready_for_full
        BY <3>3 DEF BlastFull, EmptyPlus, FullPriority, FullNormal
      <4>2. cur[w] >= 2
        BY <1>3, <4>1 DEF ThreadInv, EmptyInv
      <4>3. cur[w] \in 1..Len(jobs)
        <5>1. cur[w] \in 0..Len(jobs)
          BY <1>3
        <5> QED  BY <1>3, <4>2, <5>1
      <4>4. cur[w] <= empty_job_index
        BY <1>1, <1>3, <4>3 DEF IndexInv
      <4>5. barrier.job = empty_job_index
        BY <1>1, <4>1 DEF BarrierInv
      <4> QED  BY <1>3, <4>3, <4>4, <4>5
    <3> QED  BY <3>1, <3>2, <3>3
  <2> QED  BY <1>2, <2>3, <2>4, <2>6 DEF EmptyFirstInv
<1>8. CASE MarkReadyForFull
  <2>1. /\ ~ ready_for_full /\ complete_count >= datum_active_threads
        /\ ready_for_full' = TRUE
        /\ UNCHANGED <<jobs, empty_job_index, threadVars>>
        /\ barrier' = [job |-> empty_job_index, counted |-> Created \ uncounted,
                       early |-> Done \cap uncounted]
    BY <1>8 DEF MarkReadyForFull
  <2>2. emptied' = emptied /\ blast' = blast /\ cur' = cur
    BY <2>1 DEF threadVars, loopVars, sendVars
  <2>3. complete_count = Cardinality(Done)
    BY <1>1, <2>1 DEF CountInv
  <2>4. barrier'.early = {} => \A v \in barrier'.counted : emptied[v] = empty_job_index
    BY <1>1, <2>1, <2>3, AllHaveReported
  <2>5. /\ barrier'.job = empty_job_index /\ barrier'.job \in Nat
        /\ barrier'.job >= barrier.job
        /\ barrier' \in [job : Nat, counted : SUBSET Threads, early : SUBSET Threads]
    BY <1>1, <1>3, <2>1 DEF BarrierInv, Created, Done
  <2>6. BarrierInv'
    <3>1. empty_job_index >= empty_job_index /\ empty_job_index <= empty_job_index
      BY <1>3
    <3> QED  BY <2>1, <2>2, <2>4, <2>5, <3>1 DEF BarrierInv
  <2>7. CountInv'
    BY <2>1 DEF CountInv
  <2>8. JobsKept
    BY <1>3, <2>1 DEF JobsKept, SameForMiners
  <2>9. \A w \in Threads : FullInv(w)'
    BY <1>4, <2>2, <2>5, <2>8
  <2> QED  BY <1>2, <2>6, <2>7, <2>9 DEF EmptyFirstInv
<1>9. CASE UNCHANGED vars
  <2>1. UNCHANGED <<jobs, emptyVars, threadVars>>
    BY <1>9 DEF vars
  <2>2. /\ emptied' = emptied /\ blast' = blast /\ cur' = cur /\ barrier' = barrier
        /\ complete_count' = complete_count /\ ready_for_full' = ready_for_full
        /\ empty_job_index' = empty_job_index
    BY <2>1 DEF threadVars, loopVars, sendVars, emptyVars
  <2>3. CountInv' /\ BarrierInv'
    BY <1>1, <2>2 DEF CountInv, Done, BarrierInv
  <2>4. \A w \in Threads : FullInv(w)'
    BY <1>1, <2>1, <2>2 DEF FullInv
  <2> QED  BY <1>2, <2>3, <2>4 DEF EmptyFirstInv
<1> QED  BY <1>6, <1>7, <1>8, <1>9, WhoSteps

(* It holds at the start, however many threads run already. *)
LEMMA EmptyFirstInit ==
  ASSUME PipelineAssumption, Init
  PROVE  EmptyFirstInv
<1>1. PipelineInv
  BY PipelineInit
<1>2. /\ Len(jobs) = 1 /\ Latest = 1 /\ stage = "empties" /\ empty_job_index = 1
      /\ ready_for_full = TRUE /\ barrier = [job |-> 1, counted |-> {}, early |-> {}]
  BY DEF Init, Latest
<1>3. IndexInv
  BY <1>2 DEF IndexInv
<1>4. CountInv
  BY <1>2 DEF CountInv
<1>5. ActiveInv
  <2>1. Created = Started
    BY DEF Init, Created, PipelineAssumption
  <2> QED  BY <2>1 DEF Init, ActiveInv
<1>6. BarrierInv
  BY <1>2 DEF BarrierInv
<1>7. \A w \in Threads : FullInv(w)
  BY DEF Init, FullInv, NoBlast
<1> QED  BY <1>1, <1>3, <1>4, <1>5, <1>6, <1>7 DEF EmptyFirstInv

(* It holds always. *)
LEMMA EmptyFirstAlways == Spec => []EmptyFirstInv
<1>1. Init => EmptyFirstInv
  BY EmptyFirstInit, PipelineAssumption
<1>2. EmptyFirstInv /\ [Next]_vars => EmptyFirstInv'
  BY EmptyFirstStep, PipelineAssumption
<1> QED  BY <1>1, <1>2, PTL DEF Spec

(* The full work of a block goes out only when every thread that is counted has
   sent the empty work of it, late reports for earlier blocks and threads that
   are created in the middle included, unless a thread reports before it is
   counted (datum_stratum.c, stratum_latest_empty_increment_complete and case 2
   of datum_stratum_v1_socket_thread_loop; datum_sockets.c, assign_to_thread). *)
THEOREM EmptyBeforeFullAlways ==
  Spec => []EmptyBeforeFull
<1>1. EmptyFirstInv => EmptyBeforeFull
  <2> SUFFICES ASSUME EmptyFirstInv, NEW w \in Threads, blast[w].kind = "full",
                      jobs[cur[w]].state = EmptyPlus
               PROVE  /\ barrier.job >= cur[w]
                      /\ barrier.early = {} =>
                           \A v \in barrier.counted : emptied[v] >= cur[w]
    BY DEF EmptyBeforeFull
  <2>1. barrier.job >= cur[w] /\ BarrierInv
    BY DEF EmptyFirstInv, FullInv
  <2>2. barrier.job \in Nat /\ cur[w] \in Int /\ \A v \in Threads : emptied[v] \in Int
    BY <2>1 DEF BarrierInv, EmptyFirstInv, PipelineInv, ThreadTypes, LoopTypes, SendTypes,
                JobTypes, Latest
  <2>3. ASSUME barrier.early = {}, NEW v \in barrier.counted
        PROVE  emptied[v] >= cur[w]
    <3>1. v \in Threads /\ emptied[v] >= barrier.job
      BY <2>1, <2>3 DEF BarrierInv
    <3> QED  BY <2>1, <2>2, <3>1
  <2> QED  BY <2>1, <2>3
<1> QED  BY <1>1, EmptyFirstAlways, PTL

-----------------------------------------------------------------------------
(* The slow hand-out *)

(* There is no hand-out. *)
Idle(w) == pace[w].to = {} /\ pace[w].remaining = 0 /\ ~ pace[w].fresh

(* A hand-out begins with the service of a job and ends with the next job; a
   client that subscribes meanwhile is no part of it.                       *)
PaceInv(w) ==
  /\ new_job[w] \/ pc[w] = "send" \/ ~ Running(w) => Idle(w)
  /\ ~ Running(w) => Subscribers(w) = {}
  /\ blast[w].kind = "none" => blast[w].to = {}
  /\ \A c \in ClientsOf(w) :
       reading[w].client = c /\ ~ Subscribed(c) /\ pc[w] = "loop"
         => c \notin pace[w].to \/ pace[w].joined

(* Who is still to be sent the current job of a thread. *)
Pending(w) == blast[w].to \cup PaceCandidates(w) \cup {reading[w].client}

(* Nobody is forgotten: who does not have the job is pending, and the count is
   enough for all that are waiting.                                         *)
HandInv(w) ==
  Running(w) /\ jobs[cur[w]].state = FullNormal /\ ~ new_job[w] /\ ~ pace[w].joined =>
    /\ \A c \in Subscribers(w) : work[c].job = cur[w] \/ c \in Pending(w)
    /\ Cardinality(PaceCandidates(w)) <= pace[w].remaining

(* The clients of a thread are told apart by their slots. *)
LEMMA SlotsApart ==
  ASSUME PipelineAssumption, NEW w, NEW c \in ClientsOf(w), NEW d \in ClientsOf(w)
  PROVE  /\ c \in Client /\ c # NoClient /\ c[2] \in Nat /\ c[2] > 0
         /\ c[2] = d[2] => c = d
<1>1. c \in Client /\ d \in Client /\ c[1] = w /\ d[1] = w
  BY DEF ClientsOf
<1>2. c \in Threads \X (Nat \ {0}) /\ d \in Threads \X (Nat \ {0}) /\ c # NoClient
  BY <1>1 DEF PipelineAssumption
<1>3. c = <<c[1], c[2]>> /\ d = <<d[1], d[2]>> /\ c[2] \in Nat \ {0}
  BY <1>2
<1>4. c[2] = d[2] => c = d
  BY <1>1, <1>3
<1> QED  BY <1>1, <1>2, <1>3, <1>4

(* The candidates of a hand-out. *)
LEMMA CandidatesAre ==
  ASSUME PipelineAssumption, NEW w \in Threads, LoopInv(w)
  PROVE  /\ PaceCandidates(w) \subseteq pace[w].to
         /\ PaceCandidates(w) \subseteq Subscribers(w)
         /\ IsFiniteSet(PaceCandidates(w)) /\ Cardinality(PaceCandidates(w)) \in Nat
<1>1. /\ PaceCandidates(w) \subseteq pace[w].to /\ pace[w].to \subseteq ClientsOf(w)
      /\ \A c \in PaceCandidates(w) : Subscribed(c)
  BY DEF PaceCandidates, LoopInv
<1>2. PaceCandidates(w) \subseteq Subscribers(w)
  BY <1>1 DEF Subscribers
<1>3. PaceCandidates(w) \subseteq Client /\ IsFiniteSet(Client)
  BY <1>1 DEF ClientsOf, PipelineAssumption
<1>4. IsFiniteSet(PaceCandidates(w))
  BY <1>3, FS_Subset
<1> QED  BY <1>1, <1>2, <1>4, FS_CardinalityType

(* No candidate is left of an empty list. *)
LEMMA NoCandidates ==
  ASSUME NEW w, pace[w].to = {}
  PROVE  PaceCandidates(w) = {} /\ Cardinality(PaceCandidates(w)) = 0
<1>1. PaceCandidates(w) = {}
  BY DEF PaceCandidates
<1> QED  BY <1>1, FS_EmptySet

(* What is to be shown of a thread that moves. *)
Hands(w) == PaceInv(w)' /\ HandInv(w)'

(* Whoever was pending is, or has the job. *)
LEMMA HandKept ==
  ASSUME PipelineAssumption, NEW w \in Threads, HandInv(w), jobs' = jobs,
         cur' = cur, work' = work, new_job' = new_job, Running(w)' => Running(w),
         ~ pace'[w].joined => /\ ~ pace[w].joined
                              /\ Pending(w) \ {NoClient} \subseteq Pending(w)'
                              /\ Cardinality(PaceCandidates(w)) <= pace[w].remaining
                                   => Cardinality(PaceCandidates(w)') <= pace'[w].remaining
  PROVE  HandInv(w)'
<1>1. SUFFICES ASSUME Running(w)', jobs'[cur'[w]].state = FullNormal, ~ new_job'[w],
                      ~ pace'[w].joined
               PROVE  /\ \A c \in Subscribers(w)' : work'[c].job = cur'[w] \/ c \in Pending(w)'
                      /\ Cardinality(PaceCandidates(w)') <= pace'[w].remaining
  BY DEF HandInv
<1>2. /\ \A c \in Subscribers(w) : work[c].job = cur[w] \/ c \in Pending(w)
      /\ Cardinality(PaceCandidates(w)) <= pace[w].remaining
  BY <1>1 DEF HandInv
<1>3. Subscribers(w)' = Subscribers(w)
  BY DEF Subscribers, ClientsOf, Subscribed
<1>4. ASSUME NEW c \in Subscribers(w) PROVE work'[c].job = cur'[w] \/ c \in Pending(w)'
  <2>1. c # NoClient
    BY SlotsApart DEF Subscribers
  <2> QED  BY <1>1, <1>2, <2>1
<1> QED  BY <1>1, <1>2, <1>3, <1>4

(* The hand-out of a thread that does not move. *)
LEMMA StillHand ==
  ASSUME PipelineAssumption, JobTypes, ThreadTypes, NEW w \in Threads, ThreadInv(w),
         PaceInv(w), HandInv(w), Still(w), JobsKept,
         \A c \in ClientsOf(w) : work'[c] = work[c]
  PROVE  Hands(w)
<1>1. /\ pc'[w] = pc[w] /\ cur'[w] = cur[w] /\ new_job'[w] = new_job[w]
      /\ blast'[w] = blast[w] /\ reading'[w] = reading[w] /\ pace'[w] = pace[w]
  BY DEF Still
<1>2. pace[w].to \subseteq ClientsOf(w)
  BY DEF ThreadInv, LoopInv
<1>3. Subscribers(w)' = Subscribers(w) /\ PaceCandidates(w)' = PaceCandidates(w)
  BY <1>1, <1>2 DEF Subscribers, ClientsOf, Subscribed, PaceCandidates
<1>4. PaceInv(w)'
  BY <1>1, <1>3 DEF PaceInv, Idle, Running, ClientsOf, Subscribed
<1>5. Running(w) => jobs'[cur[w]].state = jobs[cur[w]].state
  <2> SUFFICES ASSUME Running(w) PROVE jobs'[cur[w]].state = jobs[cur[w]].state
    OBVIOUS
  <2>1. cur[w] \in 1..Len(jobs)
    <3>1. cur[w] \in 0..Len(jobs) /\ Len(jobs) \in Nat
      BY OneThread
    <3>2. cur[w] >= 1
      BY DEF ThreadInv, LoopInv
    <3> QED  BY <3>1, <3>2
  <2> QED  BY <2>1 DEF JobsKept, SameForMiners
<1>6. Pending(w)' = Pending(w)
  BY <1>1, <1>3 DEF Pending
<1>7. \A c \in Subscribers(w) : work'[c] = work[c]
  BY DEF Subscribers
<1>8. HandInv(w)'
  BY <1>1, <1>3, <1>5, <1>6, <1>7 DEF HandInv, Running
<1> QED  BY <1>4, <1>8 DEF Hands

(* What is assumed of the thread. *)
Ready(w) == JobTypes /\ ThreadTypes /\ ThreadInv(w) /\ PaceInv(w) /\ HandInv(w)

(* Its parts. *)
LEMMA ReadyParts ==
  ASSUME PipelineAssumption, NEW w \in Threads, Ready(w)
  PROVE  /\ pc \in [Threads -> PCs] /\ cur \in [Threads -> 0..Latest]
         /\ new_job \in [Threads -> BOOLEAN]
         /\ blast \in [Threads -> Blasts] /\ reading \in [Threads -> Readings]
         /\ pace \in [Threads -> Paces] /\ pace[w] \in Paces
         /\ LoopInv(w) /\ PaceInv(w) /\ HandInv(w)
         /\ \A c \in ClientsOf(w) : c # NoClient
  BY SlotsApart DEF Ready, ThreadTypes, LoopTypes, SendTypes, ThreadInv

(* A thread that does not serve a job yet, or has still to serve it. *)
LEMMA NothingHandedOut ==
  ASSUME NEW w \in Threads, Idle(w)', blast'[w].kind = "none" => blast'[w].to = {},
         ~ Running(w)' => Subscribers(w)' = {},
         ~ Running(w)' \/ new_job'[w] \/ Subscribers(w)' = {}
  PROVE  Hands(w)
<1>1. pace'[w].to = {} /\ pace'[w].remaining = 0
  BY DEF Idle
<1>2. PaceInv(w)'
  BY <1>1 DEF PaceInv
<1>3. PaceCandidates(w)' = {}
  BY <1>1 DEF PaceCandidates
<1>4. Cardinality(PaceCandidates(w)') <= pace'[w].remaining
  BY <1>1, <1>3, FS_EmptySet
<1>5. HandInv(w)'
  BY <1>4 DEF HandInv
<1> QED  BY <1>2, <1>5 DEF Hands

(* Threads come, look for jobs and send empty work. *)
LEMMA BeforeHands ==
  ASSUME PipelineAssumption, NEW w \in Threads, Ready(w),
         \/ CreateThread(w) \/ ThreadInit(w) \/ SwitchJob(w) \/ ServeLater(w)
         \/ BlastEmpty(w)
  PROVE  Hands(w)
<1>1. /\ pc \in [Threads -> PCs] /\ new_job \in [Threads -> BOOLEAN]
      /\ blast \in [Threads -> Blasts] /\ pace \in [Threads -> Paces]
      /\ LoopInv(w) /\ PaceInv(w)
  BY ReadyParts
<1>2. work' = work
  BY DEF CreateThread, ThreadInit, SwitchJob, ServeLater, BlastEmpty
<1>3. Subscribers(w)' = Subscribers(w)
  BY <1>2 DEF Subscribers, ClientsOf, Subscribed
<1>4. CASE CreateThread(w) \/ ThreadInit(w)
  <2>1. ~ Running(w) /\ pace' = pace /\ blast' = blast
    BY <1>4 DEF CreateThread, ThreadInit, Goto, Running, sendVars
  <2>2. Idle(w) /\ Subscribers(w) = {}
    BY <1>1, <2>1 DEF PaceInv
  <2>3. Idle(w)'
    BY <2>1, <2>2 DEF Idle
  <2>4. blast'[w].kind = "none" => blast'[w].to = {}
    BY <1>1, <2>1 DEF PaceInv
  <2> QED  BY <1>3, <2>2, <2>3, <2>4, NothingHandedOut
<1>5. CASE SwitchJob(w)
  <2>1. /\ pc[w] = "loop" /\ pc'[w] = "serve" /\ new_job'[w] = TRUE
        /\ pace'[w] = NoPace /\ blast' = blast
    BY <1>1, <1>5 DEF SwitchJob, Goto
  <2>2. Idle(w)'
    BY <2>1 DEF Idle, NoPace
  <2>3. blast'[w].kind = "none" => blast'[w].to = {}
    BY <1>1, <2>1 DEF PaceInv
  <2>4. Running(w)'
    BY <2>1 DEF Running
  <2> QED  BY <2>1, <2>2, <2>3, <2>4, NothingHandedOut
<1>6. CASE ServeLater(w)
  <2>1. /\ new_job[w] /\ pc'[w] = "loop" /\ new_job' = new_job
        /\ pace' = pace /\ blast' = blast
    BY <1>1, <1>6 DEF ServeLater, sendVars
  <2>2. Idle(w)
    BY <1>1, <2>1 DEF PaceInv
  <2>3. Idle(w)'
    BY <2>1, <2>2 DEF Idle
  <2>4. blast'[w].kind = "none" => blast'[w].to = {}
    BY <1>1, <2>1 DEF PaceInv
  <2>5. Running(w)'
    BY <2>1 DEF Running
  <2> QED  BY <2>1, <2>3, <2>4, <2>5, NothingHandedOut
<1>7. CASE BlastEmpty(w)
  <2>1. /\ new_job[w] /\ pc'[w] = "send" /\ new_job' = new_job /\ pace' = pace
        /\ blast'[w] = [kind |-> "empty", to |-> Subscribers(w)]
    BY <1>1, <1>7 DEF BlastEmpty
  <2>2. Idle(w)
    BY <1>1, <2>1 DEF PaceInv
  <2>3. Idle(w)'
    BY <2>1, <2>2 DEF Idle
  <2>4. blast'[w].kind # "none"
    BY <2>1
  <2>5. Running(w)'
    BY <2>1 DEF Running
  <2> QED  BY <2>1, <2>3, <2>4, <2>5, NothingHandedOut
<1> QED  BY <1>4, <1>5, <1>6, <1>7

(* Full work goes to all subscribers at once. *)
LEMMA BlastFullHands ==
  ASSUME PipelineAssumption, NEW w \in Threads, Ready(w), BlastFull(w)
  PROVE  Hands(w)
<1>1. /\ pc \in [Threads -> PCs] /\ new_job \in [Threads -> BOOLEAN]
      /\ blast \in [Threads -> Blasts] /\ pace \in [Threads -> Paces] /\ PaceInv(w)
  BY ReadyParts
<1>2. /\ new_job[w] /\ pc'[w] = "send" /\ pace' = pace /\ work' = work /\ reading' = reading
      /\ blast'[w] = [kind |-> "full", to |-> Subscribers(w)]
  BY <1>1 DEF BlastFull
<1>3. Idle(w)'
  BY <1>1, <1>2 DEF PaceInv, Idle
<1>4. Subscribers(w)' = Subscribers(w)
  BY <1>2 DEF Subscribers, ClientsOf, Subscribed
<1>5. Running(w)' /\ blast'[w].kind # "none" /\ blast'[w].to = Subscribers(w)
  BY <1>2 DEF Running
<1>6. PaceInv(w)'
  BY <1>2, <1>3, <1>5 DEF PaceInv
<1>7. \A c \in Subscribers(w)' : c \in Pending(w)'
  BY <1>4, <1>5 DEF Pending
<1>8. Cardinality(PaceCandidates(w)') <= pace'[w].remaining
  <2>1. PaceCandidates(w)' = {} /\ pace'[w].remaining = 0
    BY <1>3 DEF Idle, PaceCandidates
  <2> QED  BY <2>1, FS_EmptySet
<1>9. HandInv(w)'
  BY <1>7, <1>8 DEF HandInv
<1> QED  BY <1>6, <1>9 DEF Hands

(* ... or the hand-out of it starts. *)
LEMMA StartPaceHands ==
  ASSUME PipelineAssumption, NEW w \in Threads, Ready(w), StartPace(w)
  PROVE  Hands(w)
<1> DEFINE S == Subscribers(w)
<1>1. /\ pc \in [Threads -> PCs] /\ new_job \in [Threads -> BOOLEAN]
      /\ pace \in [Threads -> Paces] /\ PaceInv(w)
      /\ \A c \in ClientsOf(w) : c # NoClient
  BY ReadyParts
<1>2. /\ pc'[w] = "loop" /\ new_job'[w] = FALSE /\ work' = work /\ reading' = reading
      /\ blast' = blast /\ reading[w].client = NoClient
      /\ pace'[w] = IF S = {} THEN NoPace
                    ELSE [remaining |-> CountSubscribers(w), last |-> 0,
                          to |-> S, fresh |-> TRUE, joined |-> FALSE]
  BY <1>1 DEF StartPace, Serving
<1>3. S' = S
  BY <1>2 DEF Subscribers, ClientsOf, Subscribed
<1>4. pace'[w].to = S /\ pace'[w].last = 0 /\ pace'[w].remaining = Cardinality(S)
  <2>1. CASE S = {}
    BY <1>2, <2>1, FS_EmptySet DEF NoPace
  <2>2. CASE S # {}
    BY <1>2, <2>2 DEF CountSubscribers
  <2> QED  BY <2>1, <2>2
<1>5. PaceCandidates(w)' = S
  <2>1. PaceCandidates(w)' = {c \in S : work[c].job > 0 /\ c[2] > 0}
    BY <1>2, <1>4 DEF PaceCandidates, Subscribed
  <2>2. \A c \in S : work[c].job > 0 /\ c[2] > 0
    BY SlotsApart DEF Subscribers, Subscribed
  <2> QED  BY <2>1, <2>2
<1>6. PaceInv(w)'
  BY <1>1, <1>2 DEF PaceInv, Running, ClientsOf
<1>7. \A c \in S' : c \in Pending(w)'
  BY <1>3, <1>5 DEF Pending
<1>8. Cardinality(S) \in Nat
  <2>1. S \subseteq Client /\ IsFiniteSet(Client)
    BY DEF Subscribers, ClientsOf, PipelineAssumption
  <2> QED  BY <2>1, FS_Subset, FS_CardinalityType
<1>9. HandInv(w)'
  BY <1>4, <1>5, <1>7, <1>8 DEF HandInv
<1> QED  BY <1>6, <1>9 DEF Hands

(* Work is prepared for a client: of a blast, or one that asked for a change of
   difficulty.                                                              *)
LEMMA ReadHands ==
  ASSUME PipelineAssumption, NEW w \in Threads, Ready(w), NEW c, NotifyRead(w, c),
         Subscribed(c) \/ pc[w] = "send", jobs' = jobs, work' = work, pace' = pace,
         UNCHANGED <<pc, loopVars, blast>>
  PROVE  Hands(w)
<1>1. /\ reading \in [Threads -> Readings] /\ LoopInv(w) /\ PaceInv(w) /\ HandInv(w)
  BY ReadyParts
<1>2. /\ pc' = pc /\ cur' = cur /\ new_job' = new_job /\ blast' = blast
      /\ reading[w].client = NoClient /\ reading'[w].client = c
  BY <1>1 DEF NotifyRead, loopVars
<1>3. Subscribers(w)' = Subscribers(w)
  BY DEF Subscribers, ClientsOf, Subscribed
<1>4. PaceInv(w)'
  BY <1>1, <1>2, <1>3 DEF PaceInv, Idle, Running, Subscribed
<1>5. PaceCandidates(w)' = PaceCandidates(w)
  BY DEF PaceCandidates, Subscribed
<1>6. Pending(w) \ {NoClient} \subseteq Pending(w)'
  BY <1>2, <1>5 DEF Pending
<1>7. Running(w)' => Running(w)
  BY <1>2 DEF Running
<1>8. HandInv(w)'
  BY <1>1, <1>2, <1>5, <1>6, <1>7, HandKept
<1> QED  BY <1>4, <1>8 DEF Hands

(* A client has its work, in a blast or outside of one. *)
LEMMA WriteHands ==
  ASSUME PipelineAssumption, WorkInv, NEW w \in Threads, Ready(w),
         SendDone(w) \/ Notified(w)
  PROVE  Hands(w)
<1> DEFINE r == reading[w].client
<1>1. /\ pc \in [Threads -> PCs] /\ reading \in [Threads -> Readings]
      /\ blast \in [Threads -> Blasts]
      /\ LoopInv(w) /\ PaceInv(w) /\ HandInv(w) /\ \A c \in ClientsOf(w) : c # NoClient
  BY ReadyParts
<1>2. /\ pc' = pc /\ cur' = cur /\ new_job' = new_job /\ pace' = pace /\ jobs' = jobs
      /\ NotifyWrite(w)
  BY DEF SendDone, Notified, shared, loopVars
<1>3. /\ r # NoClient /\ r \in ClientsOf(w) /\ r \in Client
      /\ pc[w] = "loop" \/ (pc[w] = "send" /\ r \in blast[w].to)
      /\ reading'[w].client = NoClient
  BY <1>1, <1>2 DEF NotifyWrite, LoopInv, ClientsOf, NotReading
<1>4. Running(w) /\ Running(w)'
  BY <1>2, <1>3 DEF Running
<1>5. /\ \A c \in Client \ {r} : work'[c] = work[c]
      /\ work'[r].job = cur[w]
  <2>1. work \in [Client -> Work]
    BY DEF WorkInv
  <2> HIDE DEF r
  <2>2. PICK i, k, f : work' = [work EXCEPT ![r] = [job |-> cur[w], index |-> i,
                                                    commitment |-> k, full |-> f]]
    BY <1>2 DEF NotifyWrite, r
  <2> QED  BY <1>3, <2>1, <2>2
<1>6. cur[w] > 0
  <2>1. cur[w] >= 1 /\ cur[w] \in 0..Len(jobs) /\ Len(jobs) \in Nat
    BY <1>1, <1>4, OneThread DEF LoopInv, Ready
  <2> QED  BY <2>1
<1>7. /\ blast'[w].kind = blast[w].kind /\ blast'[w].to \subseteq blast[w].to
      /\ blast[w].to \subseteq blast'[w].to \cup {r}
  <2>1. CASE Notified(w)
    BY <2>1 DEF Notified
  <2>2. CASE SendDone(w)
    <3>1. blast' = [blast EXCEPT ![w].to = @ \ {r}]
      BY <2>2 DEF SendDone
    <3> HIDE DEF r
    <3>2. blast[w] \in Blasts
      BY <1>1
    <3>3. blast'[w] = [blast[w] EXCEPT !.to = @ \ {r}]
      BY <1>1, <3>1
    <3> QED  BY <3>2, <3>3 DEF Blasts
  <2> QED  BY <2>1, <2>2
<1>8. Subscribers(w)' = Subscribers(w) \cup {r}
  <2>1. \A c \in ClientsOf(w) : c \in Client
    BY DEF ClientsOf
  <2> HIDE DEF r
  <2>2. work'[r].job > 0
    BY <1>5, <1>6
  <2>3. \A c \in ClientsOf(w) : work'[c].job > 0 <=> work[c].job > 0 \/ c = r
    BY <1>5, <2>1, <2>2
  <2> QED  BY <1>3, <2>3 DEF Subscribers, ClientsOf, Subscribed
<1>9. PaceInv(w)'
  <2>1. Idle(w) => Idle(w)'
    BY <1>2 DEF Idle
  <2>2. \A c \in ClientsOf(w) : reading'[w].client # c
    BY <1>1, <1>3
  <2>3. blast'[w].kind = "none" => blast'[w].to = {}
    BY <1>1, <1>7 DEF PaceInv
  <2>4. new_job'[w] \/ pc'[w] = "send" \/ ~ Running(w)' => Idle(w)'
    BY <1>1, <1>2, <1>4, <2>1 DEF PaceInv
  <2> QED  BY <1>4, <2>2, <2>3, <2>4 DEF PaceInv, ClientsOf
<1>10. SUFFICES ASSUME jobs[cur[w]].state = FullNormal, ~ new_job[w], ~ pace[w].joined
                PROVE  HandInv(w)'
  BY <1>2, <1>9 DEF Hands, HandInv
<1>11. /\ \A c \in Subscribers(w) : work[c].job = cur[w] \/ c \in Pending(w)
       /\ Cardinality(PaceCandidates(w)) <= pace[w].remaining
  BY <1>1, <1>4, <1>10 DEF HandInv
<1>12. PaceCandidates(w)' = PaceCandidates(w)
  <2>1. r \in pace[w].to => Subscribed(r)
    <3>1. CASE pc[w] = "send"
      BY <1>1, <3>1 DEF PaceInv, Idle
    <3>2. CASE pc[w] = "loop"
      BY <1>1, <1>3, <1>10, <3>2 DEF PaceInv
    <3> QED  BY <1>3, <3>1, <3>2
  <2>2. pace[w].to \subseteq Client
    BY <1>1 DEF LoopInv, ClientsOf
  <2> HIDE DEF r
  <2>3. \A c \in pace[w].to : work'[c].job > 0 <=> work[c].job > 0
    BY <1>5, <1>6, <2>1, <2>2 DEF Subscribed
  <2> QED  BY <1>2, <2>3 DEF PaceCandidates, Subscribed
<1>13. ASSUME NEW c \in Subscribers(w)'
       PROVE  work'[c].job = cur[w] \/ c \in Pending(w)'
  <2>1. CASE c = r
    BY <1>5, <2>1
  <2>2. CASE c # r
    <3>1. c \in Subscribers(w) /\ c \in Client /\ c # NoClient
      BY <1>1, <1>8, <2>2 DEF Subscribers, ClientsOf
    <3>2. work'[c] = work[c]
      BY <1>5, <2>2, <3>1
    <3>3. c \in Pending(w) => c \in Pending(w)'
      BY <1>7, <1>12, <2>2 DEF Pending
    <3> QED  BY <1>11, <3>1, <3>2, <3>3
  <2> QED  BY <2>1, <2>2
<1> QED  BY <1>2, <1>11, <1>12, <1>13 DEF HandInv

(* A blast is over, or the empty work is counted. *)
LEMMA DoneHands ==
  ASSUME PipelineAssumption, NEW w \in Threads, Ready(w), BlastDone(w) \/ CountEmpty(w)
  PROVE  Hands(w)
<1>1. /\ pc \in [Threads -> PCs] /\ blast \in [Threads -> Blasts]
      /\ LoopInv(w) /\ PaceInv(w) /\ HandInv(w) /\ \A c \in ClientsOf(w) : c # NoClient
  BY ReadyParts
<1>2. /\ cur' = cur /\ new_job' = new_job /\ pace' = pace /\ jobs' = jobs /\ work' = work
      /\ reading' = reading
  BY DEF BlastDone, CountEmpty, shared, loopVars
<1>3. /\ pc[w] \in {"send", "count"} /\ pc'[w] \in {"count", "loop"}
      /\ pc[w] = "send" => blast[w].to = {}
      /\ blast'[w].kind = "none" => blast'[w].to = {}
      /\ blast[w].to \subseteq blast'[w].to
  BY <1>1 DEF BlastDone, CountEmpty, Goto, NoBlast, PaceInv
<1>4. reading[w].client = NoClient
  BY <1>1, <1>3 DEF LoopInv
<1>5. Running(w) /\ Running(w)'
  BY <1>3 DEF Running
<1>6. Subscribers(w)' = Subscribers(w) /\ PaceCandidates(w)' = PaceCandidates(w)
  BY <1>2 DEF Subscribers, ClientsOf, Subscribed, PaceCandidates
<1>7. PaceInv(w)'
  BY <1>1, <1>2, <1>3, <1>4, <1>5 DEF PaceInv, Idle, ClientsOf
<1>8. Pending(w) \ {NoClient} \subseteq Pending(w)'
  BY <1>3, <1>4, <1>6 DEF Pending
<1>9. HandInv(w)'
  BY <1>1, <1>2, <1>5, <1>6, <1>8, HandKept
<1> QED  BY <1>7, <1>9 DEF Hands

(* The next one of a hand-out gets the job. *)
LEMMA PaceNextHands ==
  ASSUME PipelineAssumption, NEW w \in Threads, Ready(w), PaceNext(w)
  PROVE  Hands(w)
<1> DEFINE P == PaceCandidates(w)
<1>1. /\ pc \in [Threads -> PCs] /\ reading \in [Threads -> Readings]
      /\ pace \in [Threads -> Paces] /\ pace[w] \in Paces
      /\ LoopInv(w) /\ PaceInv(w) /\ HandInv(w)
  BY ReadyParts
<1>2. PICK c \in P :
             /\ \A d \in P : c[2] <= d[2]
             /\ NotifyRead(w, c)
             /\ pace' = [pace EXCEPT ![w].remaining = @ - 1, ![w].last = c[2]]
  BY DEF PaceNext
<1>3. /\ pc' = pc /\ cur' = cur /\ new_job' = new_job /\ jobs' = jobs /\ work' = work
      /\ blast' = blast /\ pc[w] = "loop" /\ pace[w].remaining > 0
  BY DEF PaceNext, Pacing, shared, loopVars
<1>4. reading[w].client = NoClient /\ reading'[w].client = c
  BY <1>1, <1>2 DEF NotifyRead
<1>5. /\ pace'[w].remaining = pace[w].remaining - 1 /\ pace'[w].last = c[2]
      /\ pace'[w].to = pace[w].to /\ pace'[w].joined = pace[w].joined
  <2>1. pace'[w] = [pace[w] EXCEPT !.remaining = @ - 1, !.last = c[2]]
    BY <1>1, <1>2
  <2> QED  BY <1>1, <2>1 DEF Paces
<1>6. /\ P \subseteq pace[w].to /\ P \subseteq Subscribers(w)
      /\ IsFiniteSet(P) /\ Cardinality(P) \in Nat
  BY <1>1, CandidatesAre
<1>7. PaceCandidates(w)' = P \ {c}
  <2>1. PaceCandidates(w)' = {d \in pace[w].to : Subscribed(d) /\ d[2] > c[2]}
    BY <1>3, <1>5 DEF PaceCandidates, Subscribed
  <2>2. /\ c \in ClientsOf(w) /\ pace[w].to \subseteq ClientsOf(w)
        /\ c[2] > pace[w].last /\ pace[w].last \in Nat
    BY <1>1, <1>2, <1>6 DEF LoopInv, PaceCandidates, Paces
  <2>3. ASSUME NEW d \in pace[w].to, Subscribed(d)
        PROVE  d[2] > c[2] <=> d[2] > pace[w].last /\ d # c
    <3>1. d[2] \in Nat /\ c[2] \in Nat /\ (d[2] = c[2] => d = c)
      BY <2>2, SlotsApart
    <3>2. d[2] > pace[w].last => c[2] <= d[2]
      BY <1>2, <2>3 DEF PaceCandidates
    <3> QED  BY <2>2, <3>1, <3>2
  <2> QED  BY <2>1, <2>3 DEF PaceCandidates
<1>8. Cardinality(P \ {c}) = Cardinality(P) - 1
  BY <1>2, <1>6, FS_RemoveElement
<1>9. PaceInv(w)'
  <2>1. Subscribed(c)' /\ Running(w)'
    BY <1>2, <1>3 DEF PaceCandidates, Subscribed, Running
  <2>2. ~ new_job[w]
    BY <1>1, <1>3 DEF PaceInv, Idle
  <2>3. ~ new_job'[w] /\ pc'[w] = "loop"
    BY <1>3, <2>2
  <2>4. blast'[w].kind = "none" => blast'[w].to = {}
    BY <1>1, <1>3 DEF PaceInv
  <2>5. \A d \in ClientsOf(w) : reading'[w].client = d => Subscribed(d)'
    BY <1>4, <2>1
  <2> QED  BY <2>1, <2>3, <2>4, <2>5 DEF PaceInv, ClientsOf
<1>10. Pending(w) \ {NoClient} \subseteq Pending(w)'
  <2> HIDE DEF P
  <2>1. Pending(w) = blast[w].to \cup P \cup {NoClient}
    BY <1>4 DEF Pending, P
  <2>2. Pending(w)' = blast[w].to \cup (P \ {c}) \cup {c}
    BY <1>3, <1>4, <1>7 DEF Pending
  <2> QED  BY <2>1, <2>2
<1>11. Cardinality(P) <= pace[w].remaining
         => Cardinality(PaceCandidates(w)') <= pace'[w].remaining
  <2>1. pace[w].remaining \in Int
    <3>1. Cardinality(Client) \in Nat
      BY FS_CardinalityType DEF PipelineAssumption
    <3> QED  BY <1>1, <3>1 DEF Paces
  <2> HIDE DEF P
  <2> QED  BY <1>5, <1>6, <1>7, <1>8, <2>1
<1>12. Running(w)' => Running(w)
  BY <1>3 DEF Running
<1>13. HandInv(w)'
  BY <1>1, <1>3, <1>5, <1>10, <1>11, <1>12, HandKept
<1> QED  BY <1>9, <1>13 DEF Hands

(* The hand-out is over, or its first round is. *)
LEMMA PaceEndHands ==
  ASSUME PipelineAssumption, NEW w \in Threads, Ready(w), PaceEnd(w) \/ ServeNothing(w)
  PROVE  Hands(w)
<1>1. /\ pace \in [Threads -> Paces] /\ pace[w] \in Paces
      /\ LoopInv(w) /\ PaceInv(w) /\ HandInv(w)
  BY ReadyParts
<1>2. /\ pc' = pc /\ cur' = cur /\ new_job' = new_job /\ jobs' = jobs /\ work' = work
      /\ blast' = blast /\ reading' = reading
  BY DEF PaceEnd, ServeNothing, shared, loopVars
<1>3. /\ pace'[w].to = pace[w].to /\ pace'[w].last = pace[w].last
      /\ pace'[w].joined = pace[w].joined
      /\ \/ pace'[w].remaining = pace[w].remaining
         \/ PaceCandidates(w) = {} /\ pace'[w].remaining = 0
      /\ Idle(w) => Idle(w)'
  <2>1. CASE PaceEnd(w)
    <3>1. pace'[w] = [pace[w] EXCEPT !.remaining = 0]
      BY <1>1, <2>1 DEF PaceEnd
    <3>2. PaceCandidates(w) = {}
      BY <2>1 DEF PaceEnd
    <3> QED  BY <1>1, <3>1, <3>2 DEF Paces, Idle
  <2>2. CASE ServeNothing(w)
    <3>1. pace'[w] = [pace[w] EXCEPT !.fresh = FALSE]
      BY <1>1, <2>2 DEF ServeNothing
    <3> QED  BY <1>1, <3>1 DEF Paces, Idle
  <2> QED  BY <2>1, <2>2
<1>4. Subscribers(w)' = Subscribers(w) /\ PaceCandidates(w)' = PaceCandidates(w)
  BY <1>2, <1>3 DEF Subscribers, ClientsOf, Subscribed, PaceCandidates
<1>5. PaceInv(w)'
  BY <1>1, <1>2, <1>3, <1>4 DEF PaceInv, Running, Subscribed
<1>6. Pending(w)' = Pending(w)
  BY <1>2, <1>4 DEF Pending
<1>7. Cardinality(PaceCandidates(w)) <= pace[w].remaining
        => Cardinality(PaceCandidates(w)') <= pace'[w].remaining
  BY <1>3, <1>4, FS_EmptySet
<1>8. Running(w)' => Running(w)
  BY <1>2 DEF Running
<1>9. HandInv(w)'
  BY <1>1, <1>2, <1>3, <1>6, <1>7, <1>8, HandKept
<1> QED  BY <1>5, <1>9 DEF Hands

(* A client subscribes: it is sent the job then, and is no part of a hand-out
   that goes on.  In the first round it would be.                           *)
LEMMA SubscribeHands ==
  ASSUME PipelineAssumption, NEW w \in Threads, Ready(w), NEW c \in ClientsOf(w),
         Subscribe(w, c)
  PROVE  Hands(w)
<1>1. /\ pc \in [Threads -> PCs] /\ reading \in [Threads -> Readings]
      /\ pace \in [Threads -> Paces] /\ pace[w] \in Paces
      /\ LoopInv(w) /\ PaceInv(w) /\ HandInv(w)
  BY ReadyParts
<1>2. /\ pc' = pc /\ cur' = cur /\ new_job' = new_job /\ jobs' = jobs /\ work' = work
      /\ blast' = blast /\ pc[w] = "loop" /\ ~ Subscribed(c)
      /\ reading[w].client = NoClient /\ reading'[w].client = c
  BY <1>1 DEF Subscribe, NotifyRead, shared, loopVars
<1>3. /\ pace'[w].to = IF pace[w].fresh THEN pace[w].to \cup {c} ELSE pace[w].to \ {c}
      /\ pace'[w].joined = (pace[w].joined \/ pace[w].fresh)
      /\ pace'[w].last = pace[w].last /\ pace'[w].remaining = pace[w].remaining
      /\ pace'[w].fresh = pace[w].fresh
  <2> DEFINE t == IF pace[w].fresh THEN pace[w].to \cup {c} ELSE pace[w].to \ {c}
             g == pace[w].joined \/ pace[w].fresh
  <2>1. pace'[w] = [pace[w] EXCEPT !.to = t, !.joined = g]
    BY <1>1 DEF Subscribe
  <2> HIDE DEF t, g
  <2>2. /\ pace'[w].to = t /\ pace'[w].joined = g /\ pace'[w].last = pace[w].last
        /\ pace'[w].remaining = pace[w].remaining /\ pace'[w].fresh = pace[w].fresh
    BY <1>1, <2>1 DEF Paces
  <2> QED  BY <2>2 DEF t, g
<1>4. Subscribers(w)' = Subscribers(w)
  BY <1>2 DEF Subscribers, ClientsOf, Subscribed
<1>5. PaceInv(w)'
  <2>1. Idle(w) => Idle(w)'
    BY <1>3 DEF Idle
  <2>2. new_job'[w] \/ pc'[w] = "send" \/ ~ Running(w)' => Idle(w)'
    BY <1>1, <1>2, <2>1 DEF PaceInv, Running
  <2>3. c \notin pace'[w].to \/ pace'[w].joined
    BY <1>3
  <2> QED  BY <1>1, <1>2, <1>4, <2>2, <2>3 DEF PaceInv, Running, ClientsOf
<1>6. ASSUME ~ pace'[w].joined
      PROVE  /\ ~ pace[w].joined
             /\ PaceCandidates(w)' = PaceCandidates(w)
  <2>1. ~ pace[w].joined /\ pace'[w].to = pace[w].to \ {c}
    BY <1>3, <1>6
  <2>2. PaceCandidates(w)' = {d \in pace[w].to \ {c} : Subscribed(d) /\ d[2] > pace[w].last}
    BY <1>2, <1>3, <2>1 DEF PaceCandidates, Subscribed
  <2> QED  BY <1>2, <2>1, <2>2 DEF PaceCandidates
<1>7. ~ pace'[w].joined => Pending(w) \ {NoClient} \subseteq Pending(w)'
  BY <1>2, <1>6 DEF Pending
<1>8. ~ pace'[w].joined => (Cardinality(PaceCandidates(w)) <= pace[w].remaining
        => Cardinality(PaceCandidates(w)') <= pace'[w].remaining)
  BY <1>3, <1>6
<1>9. Running(w)' => Running(w)
  BY <1>2 DEF Running
<1>10. HandInv(w)'
  BY <1>1, <1>2, <1>6, <1>7, <1>8, <1>9, HandKept
<1> QED  BY <1>5, <1>10 DEF Hands

(* A client leaves. *)
LEMMA DisconnectHands ==
  ASSUME PipelineAssumption, WorkInv, NEW w \in Threads, Ready(w), NEW c \in ClientsOf(w),
         Disconnect(w, c)
  PROVE  Hands(w)
<1>1. LoopInv(w) /\ PaceInv(w) /\ HandInv(w) /\ \A d \in ClientsOf(w) : d # NoClient
  BY ReadyParts
<1>2. /\ pc' = pc /\ cur' = cur /\ new_job' = new_job /\ jobs' = jobs
      /\ pace' = pace /\ blast' = blast /\ reading' = reading
      /\ reading[w].client = NoClient /\ pc[w] = "loop"
      /\ work' = [work EXCEPT ![c] = NoWork]
  BY DEF Disconnect, shared, threadVars, loopVars, sendVars
<1>3. c \in Client /\ \A d \in Client \ {c} : work'[d] = work[d]
  <2>1. work \in [Client -> Work]
    BY DEF WorkInv
  <2> QED  BY <1>2, <2>1 DEF ClientsOf
<1>4. ~ (work'[c].job > 0)
  <2>1. work \in [Client -> Work]
    BY DEF WorkInv
  <2>2. work'[c].job = 0
    BY <1>2, <1>3, <2>1 DEF NoWork
  <2> QED  BY <2>2
<1>5. Subscribers(w)' = Subscribers(w) \ {c}
  <2>1. \A d \in ClientsOf(w) : work'[d].job > 0 <=> work[d].job > 0 /\ d # c
    BY <1>3, <1>4 DEF ClientsOf
  <2> QED  BY <2>1 DEF Subscribers, ClientsOf, Subscribed
<1>6. PaceCandidates(w)' = PaceCandidates(w) \ {c}
  <2>1. pace[w].to \subseteq Client
    BY <1>1 DEF LoopInv, ClientsOf
  <2>2. \A d \in pace[w].to : work'[d].job > 0 <=> work[d].job > 0 /\ d # c
    BY <1>3, <1>4, <2>1
  <2> QED  BY <1>2, <2>2 DEF PaceCandidates, Subscribed
<1>7. PaceInv(w)'
  <2>1. new_job'[w] \/ pc'[w] = "send" \/ ~ Running(w)' => Idle(w)'
    BY <1>1, <1>2 DEF PaceInv, Idle, Running
  <2>2. Running(w)'
    BY <1>2 DEF Running
  <2> QED  BY <1>1, <1>2, <2>1, <2>2 DEF PaceInv, ClientsOf
<1>8. SUFFICES ASSUME Running(w)', jobs[cur[w]].state = FullNormal, ~ new_job[w],
                      ~ pace[w].joined
               PROVE  HandInv(w)'
  BY <1>2, <1>7 DEF Hands, HandInv
<1>9. /\ \A d \in Subscribers(w) : work[d].job = cur[w] \/ d \in Pending(w)
      /\ Cardinality(PaceCandidates(w)) <= pace[w].remaining
  BY <1>1, <1>2, <1>8 DEF HandInv, Running
<1>10. ASSUME NEW d \in Subscribers(w)'
       PROVE  work'[d].job = cur[w] \/ d \in Pending(w)'
  <2>1. d \in Subscribers(w) /\ d \in Client /\ d # c
    BY <1>5 DEF Subscribers, ClientsOf
  <2>2. d \in Pending(w) => d \in Pending(w)'
    BY <1>2, <1>6, <2>1 DEF Pending
  <2> QED  BY <1>3, <1>9, <2>1, <2>2
<1>11. Cardinality(PaceCandidates(w)') <= pace[w].remaining
  <2>1. IsFiniteSet(PaceCandidates(w)) /\ Cardinality(PaceCandidates(w)) \in Nat
    BY <1>1, CandidatesAre
  <2>2. /\ Cardinality(PaceCandidates(w)') <= Cardinality(PaceCandidates(w))
        /\ Cardinality(PaceCandidates(w)') \in Nat
    BY <1>6, <2>1, FS_Subset, FS_CardinalityType
  <2>3. pace[w].remaining \in Int
    <3>1. Cardinality(Client) \in Nat /\ pace[w] \in Paces
      BY FS_CardinalityType, ReadyParts DEF PipelineAssumption
    <3> QED  BY <3>1 DEF Paces
  <2> QED  BY <1>9, <2>1, <2>2, <2>3
<1>12. HandInv(w)'
  BY <1>2, <1>10, <1>11 DEF HandInv
<1> QED  BY <1>12

(* Every step of a thread is one of these. *)
LEMMA ThreadHands ==
  ASSUME PipelineAssumption, WorkInv, NEW w \in Threads, Ready(w), ThreadStep(w)
  PROVE  Hands(w)
<1>1. CASE SendNext(w)
  <2>1. PICK c \in blast[w].to : NotifyRead(w, c)
    BY <1>1 DEF SendNext
  <2>2. /\ pc[w] = "send" /\ jobs' = jobs /\ work' = work /\ pace' = pace
        /\ UNCHANGED <<pc, loopVars, blast>>
    BY <1>1 DEF SendNext, shared
  <2> QED  BY <2>1, <2>2, ReadHands
<1>2. ASSUME NEW c \in ClientsOf(w), QuickDiff(w, c)
      PROVE  Hands(w)
  <2>1. /\ NotifyRead(w, c) /\ Subscribed(c) /\ jobs' = jobs /\ work' = work /\ pace' = pace
        /\ UNCHANGED <<pc, loopVars, blast>>
    BY <1>2 DEF QuickDiff, shared
  <2> QED  BY <2>1, ReadHands
<1>3. CASE CountThread(w)
  <2>1. /\ jobs' = jobs /\ work' = work /\ UNCHANGED <<pc, loopVars, sendVars>>
    BY <1>3 DEF CountThread, shared
  <2>2. Still(w)
    BY <2>1 DEF Still, loopVars, sendVars
  <2>3. JobsKept
    BY <2>1 DEF JobsKept, SameForMiners, Ready, JobTypes
  <2> QED  BY <2>1, <2>2, <2>3, StillHand DEF Ready
<1> QED  BY <1>1, <1>2, <1>3, BeforeHands, BlastFullHands, StartPaceHands, WriteHands,
            DoneHands, PaceNextHands, PaceEndHands, SubscribeHands, DisconnectHands
         DEF ThreadStep, StratumThread, Clients

(* A step of a thread leaves the clients of the others alone. *)
LEMMA OtherClients ==
  ASSUME PipelineAssumption, WorkInv, NEW w \in Threads, LoopInv(w), ThreadStep(w),
         NEW v \in Threads \ {w}, NEW c \in ClientsOf(v)
  PROVE  work'[c] = work[c]
<1>1. work \in [Client -> Work] /\ c \in Client /\ c \notin ClientsOf(w)
  BY DEF WorkInv, ClientsOf
<1>2. CASE SendDone(w) \/ Notified(w)
  <2>1. reading[w].client # NoClient
    BY <1>2 DEF SendDone, Notified, NotifyWrite
  <2>2. reading[w].client # c
    BY <1>1, <2>1 DEF LoopInv
  <2>3. PICK k : work' = [work EXCEPT ![reading[w].client] = k]
    BY <1>2 DEF SendDone, Notified, NotifyWrite
  <2> QED  BY <1>1, <2>2, <2>3
<1>3. ASSUME NEW d \in ClientsOf(w), Disconnect(w, d)
      PROVE  work'[c] = work[c]
  <2>1. work' = [work EXCEPT ![d] = NoWork] /\ d # c
    BY <1>1, <1>3 DEF Disconnect
  <2> QED  BY <1>1, <2>1
<1>4. SendDone(w) \/ Notified(w) \/ work' = work \/ \E d \in ClientsOf(w) : Disconnect(w, d)
  <2>1. CASE Clients(w)
    BY <2>1 DEF Clients, Subscribe, QuickDiff
  <2>2. CASE CreateThread(w) \/ CountThread(w)
    BY <2>2 DEF CreateThread, CountThread
  <2>3. CASE StratumThread(w)
    BY <2>3 DEF StratumThread, ThreadInit, SwitchJob, ServeLater, ServeNothing, BlastEmpty,
       BlastFull, StartPace, SendNext, BlastDone, CountEmpty, PaceNext, PaceEnd
  <2> QED  BY <2>1, <2>2, <2>3 DEF ThreadStep
<1> QED  BY <1>2, <1>3, <1>4

(* The number of threads that have reported is one. *)
TallyInv == complete_count \in 0..Cardinality(Threads) /\ CountInv

HandOutInv ==
  /\ PipelineInv /\ IndexInv /\ TallyInv /\ ActiveInv
  /\ \A w \in Threads : PaceInv(w) /\ HandInv(w)

(* Only CountEmpty reports. *)
LEMMA EmptiedKept ==
  ASSUME NEW w \in Threads, ThreadStep(w), ~ CountEmpty(w)
  PROVE  emptied' = emptied
<1>1. CASE Clients(w)
  BY <1>1 DEF Clients, Subscribe, QuickDiff, Disconnect, threadVars, sendVars
<1>2. CASE CreateThread(w) \/ CountThread(w)
  BY <1>2 DEF CreateThread, CountThread, sendVars
<1>3. CASE StratumThread(w)
  BY <1>3 DEF StratumThread, ThreadInit, SwitchJob, ServeLater, ServeNothing, BlastEmpty,
     BlastFull, StartPace, SendNext, SendDone, BlastDone, PaceNext, PaceEnd, Notified, sendVars
<1> QED  BY <1>1, <1>2, <1>3 DEF ThreadStep

(* The tally of the empty work. *)
LEMMA TallyStep ==
  ASSUME PipelineAssumption, PipelineInv, IndexInv, TallyInv, [Next]_vars
  PROVE  TallyInv'
<1>1. Done \subseteq Threads /\ Done' \subseteq Threads
  BY DEF Done
<1>2. /\ Cardinality(Done) \in 0..Cardinality(Threads)
      /\ Cardinality(Done') \in 0..Cardinality(Threads)
  BY <1>1, SomeThreads
<1>3. /\ Len(jobs) \in Nat /\ emptied \in [Threads -> 0..Len(jobs)]
  BY DEF PipelineInv, JobTypes, ThreadTypes, SendTypes, Latest
<1>4. CASE WorldStep
  <2>1. /\ emptied' = emptied
        /\ \/ ~ ready_for_full' /\ complete_count' = 0 /\ empty_job_index' = Len(jobs) + 1
              /\ ready_for_full' \in BOOLEAN
           \/ UNCHANGED emptyVars
    BY <1>4, WorldCounts
  <2>2. CASE UNCHANGED emptyVars
    BY <2>1, <2>2 DEF TallyInv, CountInv, Done, emptyVars
  <2>3. CASE ~ ready_for_full' /\ complete_count' = 0 /\ empty_job_index' = Len(jobs) + 1
             /\ ready_for_full' \in BOOLEAN
    <3>1. \A v \in Threads : emptied[v] # Len(jobs) + 1
      BY <1>3
    <3>2. Done' = {}
      BY <2>1, <2>3, <3>1 DEF Done
    <3>3. Cardinality(Done') = 0
      BY <3>2, FS_EmptySet
    <3>4. complete_count' \in 0..Cardinality(Threads)
      BY <1>2, <2>3, <3>3
    <3> QED  BY <2>3, <3>3, <3>4 DEF TallyInv, CountInv
  <2> QED  BY <2>1, <2>2, <2>3
<1>5. ASSUME NEW w \in Threads, CountEmpty(w)
      PROVE  TallyInv'
  <2>1. CountInv'
    BY <1>5, CountEmptyStep DEF TallyInv
  <2>2. /\ ready_for_full' = ready_for_full
        /\ ready_for_full => complete_count' = complete_count
    BY <1>5 DEF CountEmpty
  <2>3. CASE ready_for_full
    BY <2>1, <2>2, <2>3 DEF TallyInv
  <2>4. CASE ~ ready_for_full
    <3>1. complete_count' = Cardinality(Done')
      BY <2>1, <2>2, <2>4 DEF CountInv
    <3> QED  BY <1>2, <2>1, <3>1 DEF TallyInv
  <2> QED  BY <2>3, <2>4
<1>6. ASSUME NEW w \in Threads, ThreadStep(w), ~ CountEmpty(w)
      PROVE  TallyInv'
  <2>1. UNCHANGED <<complete_count, ready_for_full, empty_job_index>>
    BY <1>6, ThreadLeaves
  <2>2. emptied' = emptied
    BY <1>6, EmptiedKept
  <2> QED  BY <2>1, <2>2 DEF TallyInv, CountInv, Done
<1>7. CASE MarkReadyForFull
  BY <1>7 DEF MarkReadyForFull, TallyInv, CountInv
<1>8. CASE UNCHANGED vars
  <2>1. UNCHANGED <<complete_count, ready_for_full, empty_job_index, emptied>>
    BY <1>8 DEF vars, emptyVars, threadVars, sendVars
  <2> QED  BY <2>1 DEF TallyInv, CountInv, Done
<1> QED  BY <1>4, <1>5, <1>6, <1>7, <1>8, WhoSteps

(* The invariant is inductive. *)
LEMMA HandOutStep ==
  ASSUME PipelineAssumption, HandOutInv, [Next]_vars
  PROVE  HandOutInv'
<1>1. /\ PipelineInv /\ IndexInv /\ TallyInv /\ ActiveInv
      /\ \A w \in Threads : PaceInv(w) /\ HandInv(w)
      /\ JobTypes /\ CoinbaserInv /\ ThreadTypes /\ WorkInv
      /\ \A w \in Threads : ThreadInv(w) /\ LoopInv(w)
  BY DEF HandOutInv, PipelineInv, ThreadInv
<1>2. PipelineInv' /\ IndexInv' /\ TallyInv' /\ ActiveInv'
  BY <1>1, PipelineStep, IndexStep, TallyStep, ActiveStep
<1>3. ASSUME JobsKept, UNCHANGED threadVars, work' = work
      PROVE  \A w \in Threads : Hands(w)
  <2>1. \A w \in Threads : Still(w)
    BY <1>3 DEF Still, threadVars, loopVars, sendVars
  <2> QED  BY <1>1, <1>3, <2>1, StillHand
<1>4. ASSUME WorldStep
      PROVE  \A w \in Threads : Hands(w)
  <2>1. JobsKept
    BY <1>1, <1>4, WorldJobs
  <2>2. UNCHANGED threadVars /\ work' = work
    BY <1>4, WorldLeaves
  <2> QED  BY <1>3, <2>1, <2>2
<1>5. jobs' = jobs => JobsKept
  BY <1>1 DEF JobsKept, SameForMiners, JobTypes
<1>6. ASSUME MarkReadyForFull \/ UNCHANGED vars
      PROVE  \A w \in Threads : Hands(w)
  <2>1. jobs' = jobs /\ UNCHANGED threadVars /\ work' = work
    BY <1>6 DEF MarkReadyForFull, vars
  <2> QED  BY <1>3, <1>5, <2>1
<1>7. ASSUME NEW w \in Threads, ThreadStep(w)
      PROVE  \A v \in Threads : Hands(v)
  <2>1. Hands(w)
    BY <1>1, <1>7, ThreadHands DEF Ready
  <2>2. Elsewhere(w) /\ jobs' = jobs
    BY <1>1, <1>7, ThreadMoves, ThreadLeaves DEF Moves
  <2>3. ASSUME NEW v \in Threads \ {w} PROVE Hands(v)
    <3>1. Still(v) /\ JobsKept
      BY <1>5, <2>2 DEF Elsewhere
    <3>2. \A c \in ClientsOf(v) : work'[c] = work[c]
      BY <1>1, <1>7, OtherClients
    <3> QED  BY <1>1, <3>1, <3>2, StillHand
  <2> QED  BY <2>1, <2>3
<1>8. \A w \in Threads : Hands(w)
  BY <1>4, <1>6, <1>7, WhoSteps
<1> QED  BY <1>2, <1>8 DEF HandOutInv, Hands

(* It holds at the start, however many threads run already. *)
LEMMA HandOutInit ==
  ASSUME PipelineAssumption, Init
  PROVE  HandOutInv
<1>1. PipelineInv
  BY PipelineInit
<1>2. /\ Len(jobs) = 1 /\ Latest = 1 /\ stage = "empties" /\ empty_job_index = 1
      /\ ready_for_full = TRUE /\ complete_count = 0
  BY DEF Init, Latest
<1>3. IndexInv
  BY <1>2 DEF IndexInv
<1>4. TallyInv
  <2>1. Cardinality(Threads) \in Nat
    BY FS_CardinalityType DEF PipelineAssumption
  <2> QED  BY <1>2, <2>1 DEF TallyInv, CountInv
<1>5. ActiveInv
  <2>1. Created = Started
    BY DEF Init, Created, PipelineAssumption
  <2> QED  BY <2>1 DEF Init, ActiveInv
<1>6. ASSUME NEW w \in Threads PROVE PaceInv(w) /\ HandInv(w)
  <2>1. /\ blast[w] = NoBlast /\ pace[w] = NoPace /\ reading[w] = NotReading
        /\ cur[w] = IF w \in Started THEN 1 ELSE 0
        /\ pc[w] = IF w \in Started THEN "loop" ELSE "off"
    BY DEF Init
  <2>2. \A c \in ClientsOf(w) : ~ Subscribed(c)
    BY DEF Init, ClientsOf, Subscribed, NoWork
  <2>3. Idle(w) /\ blast[w].to = {} /\ Subscribers(w) = {}
    BY <2>1, <2>2 DEF Idle, NoPace, NoBlast, Subscribers
  <2>4. PaceInv(w)
    BY <2>3 DEF PaceInv, Idle
  <2>5. HandInv(w)
    <3>1. PaceCandidates(w) = {} /\ pace[w].remaining = 0
      BY <2>3 DEF Idle, PaceCandidates
    <3> QED  BY <2>3, <3>1, FS_EmptySet DEF HandInv
  <2> QED  BY <2>4, <2>5
<1> QED  BY <1>1, <1>3, <1>4, <1>5, <1>6 DEF HandOutInv

(* When a hand-out is over, every client that subscribes to the thread has the
   job, whoever came and went, unless a client came in the round in which it
   began (datum_stratum.c, case 5 of datum_stratum_v1_socket_thread_loop).  *)
THEOREM HandOutCompleteAlways ==
  Spec => []HandOutComplete
<1>1. Init => HandOutInv
  BY HandOutInit, PipelineAssumption
<1>2. HandOutInv /\ [Next]_vars => HandOutInv'
  BY HandOutStep, PipelineAssumption
<1>3. HandOutInv /\ EmptyFirstInv => HandOutComplete
  <2>1. SUFFICES ASSUME HandOutInv, EmptyFirstInv PROVE HandOutComplete
    OBVIOUS
  <2>2. /\ JobTypes /\ ThreadTypes /\ WorkInv /\ IndexInv /\ TallyInv /\ ActiveInv
        /\ \A w \in Threads : LoopInv(w) /\ PaceInv(w) /\ HandInv(w)
    BY <2>1 DEF HandOutInv, PipelineInv, ThreadInv
  <2>3. TypeOK
    <3>1. datum_active_threads \in 0..Cardinality(Threads) /\ uncounted \subseteq Threads
      <4>1. Created \ uncounted \subseteq Threads /\ uncounted \subseteq Threads
        BY <2>2 DEF ActiveInv, Created
      <4> QED  BY <2>2, <4>1, SomeThreads, PipelineAssumption DEF ActiveInv
    <3>2. empty_job_index \in Nat
      BY <2>2 DEF IndexInv, JobTypes, Latest
    <3>3. complete_count \in 0..Cardinality(Threads) /\ ready_for_full \in BOOLEAN
      BY <2>2 DEF TallyInv, CountInv
    <3>4. /\ stage \in {"poll", "publishEmpty", "empties"} /\ height \in 1..MaxHeight
          /\ urgent \in 0..MaxUrgent /\ normal \in 0..MaxNormal /\ jobs \in Seq(Job)
          /\ cb_stage \in {"look", "index", "commitment", "done"} /\ cb_job \in 0..Latest
      BY <2>2 DEF JobTypes
    <3>5. LoopTypes /\ SendTypes /\ work \in [Client -> Work]
      BY <2>2 DEF ThreadTypes, WorkInv
    <3>6. barrier \in [job : Nat, counted : SUBSET Threads, early : SUBSET Threads]
      BY <2>1 DEF EmptyFirstInv, BarrierInv
    <3> QED  BY <3>1, <3>2, <3>3, <3>4, <3>5, <3>6
             DEF TypeOK, LoopTypes, SendTypes, PCs, Blasts, Readings, Paces
  <2>4. ASSUME NEW w \in Threads, pc[w] = "loop", reading[w].client = NoClient,
               jobs[cur[w]].state = FullNormal, ~ new_job[w],
               pace[w].remaining = 0, ~ pace[w].joined, NEW c \in Subscribers(w)
        PROVE  work[c].job = cur[w]
    <3>1. Running(w)
      BY <2>4 DEF Running
    <3>2. /\ work[c].job = cur[w] \/ c \in Pending(w)
          /\ Cardinality(PaceCandidates(w)) <= pace[w].remaining
      BY <2>2, <2>4, <3>1 DEF HandInv
    <3>3. blast[w].to = {}
      BY <2>2, <2>4 DEF LoopInv, PaceInv
    <3>4. PaceCandidates(w) = {}
      <4>1. IsFiniteSet(PaceCandidates(w)) /\ Cardinality(PaceCandidates(w)) \in Nat
        BY <2>2, CandidatesAre, PipelineAssumption
      <4>2. Cardinality(PaceCandidates(w)) = 0
        BY <2>4, <3>2, <4>1
      <4> QED  BY <4>1, <4>2, FS_EmptySet
    <3>5. c # NoClient
      BY SlotsApart, PipelineAssumption DEF Subscribers
    <3> QED  BY <2>4, <3>2, <3>3, <3>4, <3>5 DEF Pending
  <2> QED  BY <2>3, <2>4 DEF HandOutComplete
<1> QED  BY <1>1, <1>2, <1>3, EmptyFirstAlways, PTL DEF Spec
=============================================================================
