--------------------------- MODULE ShareSubmission ---------------------------
(***************************************************************************)
(* Stratum requests of a client (datum_stratum.c): subscribe, authorize,    *)
(* configure, the work it is sent and the shares it sends back.             *)
(*                                                                         *)
(* A share is judged with what the gateway remembers of the client when the *)
(* share arrives: a table of difficulties by place of the job, one          *)
(* difficulty for quick changes, and the address of the miner.  The share    *)
(* was found with what the client was told, earlier, with the work.          *)
(*                                                                         *)
(* The header is not remembered: it is built again from the job, whose       *)
(* coinbases the coinbaser may have made again since the work was sent.      *)
(*                                                                         *)
(* A hash is the difficulty it proves for the header that the miner hashed;  *)
(* for any other header it proves nothing.  Difficulties are powers of two.  *)
(*                                                                         *)
(* Init, Next and Spec have names of their own here, since ShareProofs      *)
(* extends this module and DupeTable.                                       *)
(***************************************************************************)
EXTENDS Integers, Sequences, FiniteSets

CONSTANTS
  NumPlaces,   \* MAX_STRATUM_JOBS
  Kinds,       \* kinds of jobs
  VardiffMin,  \* stratum_v1_vardiff_min
  HighMin,     \* forced_high_min_diff of the fingerprinted miner
  PoolMins,    \* values of override_vardiff_min
  Lotto,       \* mining_blake2b_personal_lotto
  Users,       \* addresses of miners
  Tags,        \* what tells the shares of a job apart
  Changes,     \* sets of coinbases that are different when made again
  MaxDiff, MaxJobs, MaxWorks, MaxShares

NoUser == 0

Parameters ==
  /\ NumPlaces \in Nat \ {0}
  /\ Kinds \subseteq [blake2b : BOOLEAN, datum : BOOLEAN]
  /\ {VardiffMin, HighMin, MaxDiff} \cup PoolMins \subseteq Nat \ {0}
  /\ VardiffMin <= MaxDiff /\ HighMin <= MaxDiff
  /\ \A p \in PoolMins : p <= MaxDiff
  /\ Lotto \in BOOLEAN /\ Users \subseteq Nat \ {NoUser}
  /\ MaxJobs \in Nat /\ MaxWorks \in Nat /\ MaxShares \in Nat

ASSUME SubmissionAssumption == Parameters

VARIABLES
  jobs,     \* the stratum jobs; job j has place j % NumPlaces
  stale,    \* jobs 1..stale have is_stale_prevblock
  cur,      \* cur_stratum_job of the thread, 0: none
  m,        \* T_DATUM_MINER_DATA
  poolMin,  \* override_vardiff_min
  seen,     \* the duplicate table (DupeTable)
  works     \* history: the work the client was sent

clientVars == <<jobs, stale, cur, m, poolMin, seen, works>>

Diff == 0..MaxDiff
Place == 0..NumPlaces - 1
PlaceOf(j) == j % NumPlaces

(* What the work of a job is made from: coinbase[], or subsidy_only_coinbase;
   for BLAKE2b blake2b_commitment, or the coinbase of a miner with one of its
   own, which begins like coinbase[0].                                      *)
Coinbase == {"plain", "subsidy", "shared", "user"}

(* remade: the coinbaser has made the coinbases again, changed: those that are
   different since.                                                         *)
Job == [blake2b : BOOLEAN, datum : BOOLEAN, remade : BOOLEAN,
        changed : SUBSET Coinbase]

(* diffs: stratum_job_diffs and, as the same table, stratum_job_targets. *)
Miner == [subscribed : BOOLEAN, rolling : BOOLEAN, user : Users \cup {NoUser},
          current : Diff, lastSent : Diff, forcedHigh : Diff,
          quickActive : BOOLEAN, quickValue : Diff, diffs : [Place -> Diff]]

NewMiner == [subscribed |-> FALSE, rolling |-> FALSE, user |-> NoUser,
             current |-> 0, lastSent |-> 0, forcedHigh |-> 0,
             quickActive |-> FALSE, quickValue |-> 0,
             diffs |-> [p \in Place |-> 0]]

(* What a client has of a piece of work: the id names the job and says how it
   was sent ("Q": quick change, "N": empty block), diff is the difficulty in
   force, user whose coinbase it is; min is the minimum of the pool then, and
   changed whether its coinbase was one the coinbaser had changed.          *)
Work == [job : 1..MaxJobs, id : {"plain", "Q", "N"}, diff : Diff,
         user : Users \cup {NoUser}, min : Diff, changed : BOOLEAN]

(* A difficulty the client is told is never below one of the minima: that of
   the configuration and that of the fingerprinted miner.                    *)
ClientTypeOK ==
  /\ jobs \in Seq(Job)
  /\ stale \in 0..Len(jobs) /\ cur \in 0..Len(jobs)
  /\ m \in Miner
  /\ poolMin \in PoolMins
  /\ works \subseteq Work
  /\ m.subscribed => m.lastSent >= VardiffMin /\ m.lastSent >= m.forcedHigh

ClientInit ==
  /\ jobs = <<>> /\ stale = 0 /\ cur = 0
  /\ m = NewMiner
  /\ poolMin \in PoolMins
  /\ seen = {} /\ works = {}

Larger(a, b) == IF a < b THEN b ELSE a

-----------------------------------------------------------------------------
(* Difficulty and work *)

(* Mutant: the minimum of the fingerprinted miner is forgotten. *)
HalvedFreely(x) == Larger(x.current \div 2, VardiffMin)

(* A step down never goes below the two minima. *)
Halved(x) == Larger(Larger(x.current \div 2, x.forcedHigh), VardiffMin)

(* stratum_update_vardiff without a quick change.  Whether there were too many
   or too few shares for the difficulty is left open; a change that has not
   been sent yet comes first.                                               *)
Vardiff(x) ==
  {x} \cup IF x.current # x.lastSent THEN {}
           ELSE {[x EXCEPT !.current = d] :
                   d \in {Halved(x), 2 * x.current} \cap Diff}

(* Mutant: the minimum of the pool is taken for the next notify. *)
RaisedLate(x, k) == x

(* The minimum of the pool, for its own jobs. *)
Raised(x, k) ==
  IF k.datum THEN [x EXCEPT !.current = Larger(x.current, poolMin)] ELSE x

(* send_mining_set_difficulty, which knows no difficulty of zero. *)
SetDifficulty(x) ==
  LET d == IF x.current = 0 THEN VardiffMin ELSE x.current
  IN [x EXCEPT !.current = d, !.lastSent = d]

(* Mutant: a quick change is entered in the table of the jobs, too. *)
EnteredAlways(x, j, quick) ==
  [x EXCEPT !.quickActive = quick, !.diffs[PlaceOf(j)] = x.lastSent,
            !.quickValue = IF quick THEN x.lastSent ELSE @]

(* A quick change is kept out of the table of the jobs. *)
Entered(x, j, quick) ==
  IF quick THEN [x EXCEPT !.quickActive = TRUE, !.quickValue = x.lastSent]
  ELSE [x EXCEPT !.quickActive = FALSE, !.diffs[PlaceOf(j)] = x.lastSent]

(* send_mining_notify: the client x after it, and the work it got. *)
AfterNotify(x, quick) ==
  LET Sent(y) == Entered(IF y.lastSent # y.current THEN SetDifficulty(y) ELSE y,
                         cur, quick)
  IN {Sent(Raised(y, jobs[cur])) : y \in IF quick THEN {x} ELSE Vardiff(x)}

(* Which coinbase work is made from that is sent under this id to this user. *)
MadeFrom(k, id, user) ==
  CASE k.blake2b /\ user = NoUser -> "shared"
    [] k.blake2b /\ user # NoUser -> "user"
    [] ~ k.blake2b /\ id = "N" -> "subsidy"
    [] OTHER -> "plain"

WorkOf(x, quick, newBlock) ==
  LET k == jobs[cur]
      id == IF quick THEN "Q" ELSE IF newBlock /\ ~ k.blake2b THEN "N"
            ELSE "plain"
      user == IF Lotto /\ k.blake2b THEN x.user ELSE NoUser
  IN [job |-> cur, id |-> id, diff |-> x.lastSent, user |-> user,
      min |-> IF k.datum THEN poolMin ELSE 0,
      changed |-> MadeFrom(k, id, user) \in k.changed]

Notify(x, quick, newBlock) ==
  /\ Cardinality(works) < MaxWorks
  /\ m' \in AfterNotify(x, quick)
  /\ works' = works \cup {WorkOf(m', quick, newBlock)}

(* update_stratum_job.  After a new block all other jobs are stale. *)
NewJob(k, newBlock) ==
  /\ Len(jobs) < MaxJobs
  /\ jobs' = Append(jobs, [blake2b |-> k.blake2b, datum |-> k.datum,
                           remade |-> FALSE, changed |-> {}])
  /\ stale' = IF newBlock THEN Len(jobs) ELSE stale
  /\ UNCHANGED <<cur, m, poolMin, seen, works>>

(* The thread takes up the latest job, which is when it judges best
   (JobPipeline).                                                            *)
SwitchJob ==
  /\ cur # Len(jobs) /\ cur' = Len(jobs)
  /\ UNCHANGED <<jobs, stale, m, poolMin, seen, works>>

(* What may be different in coinbases that are made again.  Another script of
   the pool, or another beginning (its tag, the identifiers), changes those of
   SHA256d work; the subsidy-only one is kept as a rule, but the place of the
   difficulty in it moves with the tag.  BLAKE2b work pays the coinbaser's
   outputs only now; the coinbase of a miner has their beginning alone.      *)
MayChange(k) == IF k.blake2b THEN {"shared", "user"} ELSE {"plain", "subsidy"}

(* generate_coinbase_txns_for_stratum_job, in the coinbaser's thread, once for
   a job, which need not be the latest any more.  Whether it is a job of the
   pool is decided anew: the session may have come or gone.  What the job pays
   is written in one step; readiness is JobPipeline's matter.                *)
Coinbased(j, datum, changed) ==
  /\ ~ jobs[j].remade /\ changed \subseteq MayChange(jobs[j])
  /\ [blake2b |-> jobs[j].blake2b, datum |-> datum] \in Kinds
  /\ jobs' = [jobs EXCEPT ![j] = [blake2b |-> @.blake2b, datum |-> datum,
                                  remade |-> TRUE, changed |-> changed]]
  /\ UNCHANGED <<stale, cur, m, poolMin, seen, works>>

(* The thread sends its job, once or more often: empty work and then
   full work, the slow hand-out.  (When it does is JobPipeline's matter.)    *)
SendJob(newBlock) ==
  /\ m.subscribed /\ cur # 0
  /\ Notify(m, FALSE, newBlock)
  /\ UNCHANGED <<jobs, stale, cur, poolMin, seen>>

(* datum_protocol_client_configure *)
PoolConfigures ==
  /\ poolMin' \in PoolMins \ {poolMin}
  /\ UNCHANGED <<jobs, stale, cur, m, seen, works>>

-----------------------------------------------------------------------------
(* Requests: datum_stratum_v1_socket_thread_client_cmd *)

(* client_mining_subscribe, once; high: the fingerprint asks for a high
   difficulty.  The first work goes out at once.                            *)
Subscribe(high) ==
  LET x == [m EXCEPT !.subscribed = TRUE,
                     !.forcedHigh = IF high THEN HighMin ELSE 0,
                     !.current = IF high THEN Larger(HighMin, VardiffMin)
                                 ELSE VardiffMin]
  IN /\ ~ m.subscribed
     /\ IF cur = 0 THEN m' = SetDifficulty(x) /\ UNCHANGED works
        ELSE Notify(SetDifficulty(x), FALSE, FALSE)
     /\ UNCHANGED <<jobs, stale, cur, poolMin, seen>>

(* client_mining_authorize; NoUser: not an address.  No work is sent. *)
Authorize(u) ==
  /\ m' = [m EXCEPT !.user = IF Lotto THEN u ELSE NoUser]
  /\ UNCHANGED <<jobs, stale, cur, poolMin, seen, works>>

(* client_mining_configure *)
Configure ==
  /\ m' = [m EXCEPT !.rolling = TRUE]
  /\ UNCHANGED <<jobs, stale, cur, poolMin, seen, works>>

-----------------------------------------------------------------------------
(* client_mining_submit *)

(* A share of a piece of work: the difficulty that the hash of the miner
   proves, and whether it is a block; the form of the request, and whether it
   comes later than share_stale_seconds + work_update_seconds after the job.  *)
Forms == {"good", "bad", "badVersion", "badTime"}

(* The difficulty of the job for the client, as it is now. *)
JobDiff(w) == IF w.id = "Q" THEN m.quickValue ELSE m.diffs[PlaceOf(w.job)]

(* The place of the job has another job by now. *)
Gone(w) == w.job + NumPlaces <= Len(jobs)

(* The coinbase that the work names is the one the miner has hashed. *)
SameCoinbase(w) ==
  w.changed = (MadeFrom(jobs[w.job], w.id, w.user) \in jobs[w.job].changed)

(* The header is built again: from the coinbases of the job as they are now,
   from that of the miner as it is now, and for SHA256d with the difficulty as
   it is now.                                                               *)
SameHeader(w) ==
  /\ SameCoinbase(w)
  /\ jobs[w.job].blake2b /\ Lotto => w.user = m.user
  /\ ~ jobs[w.job].blake2b => w.diff = JobDiff(w)

Proven(s) == IF SameHeader(s.work) THEN s.proves ELSE 0
IsBlock(s) == s.block /\ SameHeader(s.work)

(* What is wrong before the hash is looked at, if anything. *)
Malformed(s) ==
  IF Gone(s.work) \/ s.form = "bad" THEN "unknown"
  ELSE IF m.rolling /\ s.form = "badVersion" THEN "badVersion"
  ELSE IF ~ jobs[s.work.job].blake2b /\ Proven(s) = 0 THEN "notZero"
  ELSE "no"

Key(s) == <<s.work.job, s.work.id = "Q", s.nonce>>

(* The checks after the one for a block: the code that the client is sent.  The
   time of BLAKE2b work is that of the job.                                 *)
Judge(s) ==
  CASE s.work.job <= stale -> "stalePrev"
    [] s.work.job > stale /\ s.form = "badTime"
         /\ ~ jobs[s.work.job].blake2b -> "time"
    [] OTHER -> IF Proven(s) < JobDiff(s.work) THEN "highHash"
                ELSE IF s.late THEN "stale"
                ELSE IF Key(s) \in seen THEN "duplicate" ELSE "ok"

(* Mutant: old and stale work is looked at before the block. *)
TriedIfCurrent(s) == IsBlock(s) /\ Judge(s) = "ok"

(* A block is submitted before anything else is looked at. *)
Tried(s) == IsBlock(s)

(* The answer to the client. *)
Code(s) == IF Malformed(s) # "no" THEN Malformed(s) ELSE Judge(s)

(* What becomes of a share: the answer to the client, the difficulty that is
   counted for it, whether it is submitted as a block, and whether the pool is
   told (of a block at once, and then not again).                           *)
Outcome(s) ==
  LET code == Code(s)
      tried == Malformed(s) = "no" /\ Tried(s)
  IN [code |-> code, tried |-> tried,
      credit |-> IF code = "ok" THEN JobDiff(s.work) ELSE 0,
      pool |-> (tried \/ code = "ok") /\ jobs[s.work.job].datum]

(* A quick change, at least by four; one at a time. *)
QuickChange(x) ==
  IF x.current # x.lastSent \/ x.quickActive THEN {}
  ELSE {[x EXCEPT !.current = d] :
          d \in {c \in Diff : /\ c >= 4 * x.current
                             /\ \E e \in 0..MaxDiff : c = 2^e * x.current}}

(* An accepted share is remembered, and stratum_update_vardiff called, which may
   send quick work.                                                         *)
Submit(s) ==
  /\ Code(s) = "ok" /\ Cardinality(seen) < MaxShares
  /\ seen' = seen \cup {Key(s)}
  /\ \/ m' \in Vardiff(m) /\ UNCHANGED works
     \/ \E x \in QuickChange(m) : Notify(x, TRUE, FALSE)
  /\ UNCHANGED <<jobs, stale, cur, poolMin>>

(* A rejected share is answered and counted; nothing else changes. *)
Reject(shares) ==
  /\ ~ \A s \in shares : Code(s) = "ok"
  /\ UNCHANGED clientVars

(* The shares a miner may send: found at the difficulty it was told or below it,
   or blocks, of any form, or late.                                         *)
Submissions(proves, block, forms, late) ==
  [work : works, nonce : Tags, proves : proves, block : {block},
   form : forms, late : {late}]

Findable ==
  Submissions({VardiffMin} \cup {w.diff : w \in works}, FALSE,
              {"good"}, FALSE)
  \cup Submissions({MaxDiff}, TRUE, Forms, FALSE)
  \cup Submissions({MaxDiff}, TRUE, {"good"}, TRUE)

ClientNext ==
  \/ \E k \in Kinds, b \in BOOLEAN : NewJob(k, b)
  \/ \E j \in 1..Len(jobs), b \in BOOLEAN :
        \E changed \in Changes : Coinbased(j, b, changed)
  \/ \E b \in BOOLEAN : SendJob(b) \/ Subscribe(b)
  \/ SwitchJob \/ PoolConfigures
  \/ \E u \in Users \cup {NoUser} : Authorize(u)
  \/ Configure
  \/ \E s \in Findable : Submit(s)
  \/ Reject(Findable)

ClientSpec == ClientInit /\ [][ClientNext]_clientVars

-----------------------------------------------------------------------------
(* Properties.  A share is judged by what the gateway remembers.  They say when
   that is what the client was told, for every share of any work it was sent. *)

(* No other work was sent that takes the place of w in the tables. *)
InForce(w) ==
  \A v \in works : v.diff # w.diff =>
    IF w.id = "Q" THEN v.id # "Q" ELSE v.id = "Q" \/ v.job # w.job

(* The miner has not authorized another address since, and the coinbaser has
   not changed the coinbase that the work was made from.                    *)
SameUser(w) == jobs[w.job].blake2b /\ Lotto => w.user = m.user
Standing(w) == InForce(w) /\ SameUser(w) /\ SameCoinbase(w)

(* A share is measured by the difficulty that was announced with its work, and
   counted with it, whatever quick change, other job or change of the minimum
   has been announced since: the quick work does not clobber the table of the
   jobs, nor the job the quick work.  Work sent before the coinbaser was done is
   not always standing: the shares of it may be rejected.                   *)
JudgedAsAnnounced ==
  \A s \in Findable :
    LET o == Outcome(s)
    IN Standing(s.work) =>
         /\ o.code \in {"notZero", "highHash"} => s.proves < s.work.diff
         /\ o.code = "ok" => s.proves >= s.work.diff /\ o.credit = s.work.diff

(* A block on standing work is tried, also when the share is rejected as stale,
   too late or sent before: "even if it's stale or something we're going to try
   it".  A block on work whose coinbase the coinbaser has changed is lost.    *)
BlockTried ==
  \A s \in Findable :
    /\ s.block /\ s.form \in {"good", "badTime"} /\ ~ Gone(s.work)
    /\ Standing(s.work)
    => Outcome(s).tried

(* What the pool is sent proves the minimum the pool had set when the work was
   sent to the client.                                                      *)
PoolMinimumKept ==
  \A s \in Findable :
    InForce(s.work) /\ Outcome(s).pool => s.proves >= s.work.min
=============================================================================
