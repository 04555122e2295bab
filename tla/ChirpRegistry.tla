---------------------------- MODULE ChirpRegistry ----------------------------
(***************************************************************************)
(* The registry of miners behind the CHIRP payouts: datum_chirp.c and the  *)
(* locking and persistence around it in datum_chirp_glue.c.                *)
(*                                                                         *)
(* Stratum threads record accepted shares, the coinbaser thread draws from *)
(* the registry when it builds a coinbase and saves it at most every 30    *)
(* seconds.  Every caller reads the clock before it takes the lock.  The   *)
(* gateway may stop at any moment; it loads the file again when the        *)
(* registry is first used.                                                 *)
(*                                                                         *)
(* All shares have the same work, so the work of a miner is a number of    *)
(* shares; their order does not matter, and the shares of a miner are kept *)
(* as how many there are of each second.  A crash while the file is        *)
(* written leaves the old file, since it is replaced by a rename; saving   *)
(* is therefore one step.                                                  *)
(***************************************************************************)
EXTENDS Integers, Sequences, FiniteSets

CONSTANTS
  Threads,       \* stratum threads
  Addrs,         \* payout addresses
  Window,        \* CHIRP_WINDOW_SECS
  GapCap,        \* CHIRP_ACTIVE_GAP_CAP
  SaveEvery,     \* 30 seconds
  JobEvery,      \* longest time between two coinbases
  MaxTime,       \* bound: the clock
  MaxShares,     \* bound: shares of an address
  MaxCrashes, MaxFailures   \* bounds: restarts, files that cannot be written

ASSUME RegistryAssumption ==
  /\ {Window, GapCap, SaveEvery, JobEvery, MaxTime, MaxShares} \subseteq Nat \ {0}
  /\ {MaxCrashes, MaxFailures} \subseteq Nat

VARIABLES
  clock,
  called,        \* per thread: the address and time of a share to record
  cb,            \* coinbaser: what it does, and the time it has read
  g_inited, registry, g_last_save,
  disk,          \* the file
  last_job,      \* when the last coinbase was finished
  hist,          \* history: per address, the times of its shares and when
                 \* each was recorded
  saved,         \* history: hist when the file was written
  power,         \* history: the shares the present draw has counted
  crashes, failures

glue == <<g_inited, registry, g_last_save, disk>>
history == <<hist, saved, power>>
vars == <<clock, called, cb, glue, last_job, history, crashes, failures>>

NoCall == [addr |-> "none", now |-> 0]
Idle == [at |-> "idle", now |-> 0]

Times == 1..MaxTime

(* An address that is not in the registry, and one that was just added. *)
Unknown == [first_seen |-> 0, last_seen |-> 0, active_secs |-> 0,
            shares |-> [ts \in Times |-> 0]]
Added(now) == [Unknown EXCEPT !.first_seen = now]

NoPower == [a \in Addrs |-> Unknown.shares]

Miner == [first_seen : 0..MaxTime, last_seen : 0..MaxTime, active_secs : Nat,
          shares : [Times -> Nat]]

TypeOK ==
  /\ clock \in Times /\ last_job \in 0..MaxTime
  /\ called \in [Threads -> [addr : Addrs, now : Times] \cup {NoCall}]
  /\ cb \in [at : {"fill", "save"}, now : Times] \cup {Idle}
  /\ g_inited \in BOOLEAN /\ g_last_save \in 0..MaxTime
  /\ registry \in [Addrs -> Miner] /\ disk \in [Addrs -> Miner]
  /\ power \in [Addrs -> [Times -> Nat]]

Init ==
  /\ clock = 1 /\ last_job = 1
  /\ called = [t \in Threads |-> NoCall] /\ cb = Idle
  /\ g_inited = FALSE /\ g_last_save = 0
  /\ registry = [a \in Addrs |-> Unknown] /\ disk = registry
  /\ hist = [a \in Addrs |-> <<>>] /\ saved = hist
  /\ power = NoPower
  /\ crashes = 0 /\ failures = 0

-----------------------------------------------------------------------------
(* Operators of datum_chirp.c *)

Cutoff(now) == IF now > Window THEN now - Window ELSE 0

(* Mutant: a share as old as the window is dropped. *)
InWindowShort(ts, now) == ts > Cutoff(now)

InWindow(ts, now) == ts >= Cutoff(now)

(* window_work drops the old shares; the rest is the work of the miner. *)
Pruned(m, now) ==
  [m EXCEPT !.shares = [ts \in Times |-> IF InWindow(ts, now) THEN m.shares[ts] ELSE 0]]

(* Mutant: the first share counts as well. *)
ActiveGapFirst(m, now) ==
  LET gap == IF now > m.last_seen THEN now - m.last_seen ELSE 0
  IN IF gap < GapCap THEN gap ELSE 0

(* The time a share adds to the active tenure. *)
ActiveGap(m, now) ==
  LET gap == IF now > m.last_seen THEN now - m.last_seen ELSE 0
  IN IF m.last_seen # 0 /\ gap < GapCap THEN gap ELSE 0

(* chirp_record_share *)
RecordShare(r, a, now) ==
  LET m == IF r[a] = Unknown THEN Added(now) ELSE r[a] IN
  [r EXCEPT ![a] = [m EXCEPT !.active_secs = @ + ActiveGap(m, now),
                             !.last_seen = now,
                             !.shares[now] = @ + 1]]

(* chirp_load_locked *)
Loaded(now) == [a \in Addrs |-> Pruned(disk[a], now)]

(* Whoever comes first loads the file. *)
Current(now) == IF g_inited THEN registry ELSE Loaded(now)

Initialised(now) ==
  /\ g_inited' = TRUE
  /\ g_last_save' = IF g_inited THEN g_last_save ELSE now

-----------------------------------------------------------------------------
(* A coinbase is built for every job, and jobs come regularly. *)
Tick ==
  /\ clock < MaxTime /\ clock - last_job < JobEvery
  /\ clock' = clock + 1
  /\ UNCHANGED <<called, cb, glue, last_job, history, crashes, failures>>

(* chirp_glue_record: the clock, then the lock and the share. *)
CallRecord(t, a) ==
  /\ called[t] = NoCall /\ Len(hist[a]) < MaxShares
  /\ called' = [called EXCEPT ![t] = [addr |-> a, now |-> clock]]
  /\ UNCHANGED <<clock, cb, glue, last_job, history, crashes, failures>>

Record(t) ==
  LET a == called[t].addr
      now == called[t].now
  IN /\ called[t] # NoCall
     /\ registry' = RecordShare(Current(now), a, now)
     /\ Initialised(now)
     /\ hist' = [hist EXCEPT ![a] = Append(@, [ts |-> now, at |-> clock])]
     /\ called' = [called EXCEPT ![t] = NoCall]
     /\ UNCHANGED <<clock, cb, disk, last_job, saved, power, crashes, failures>>

(* generate_coinbase_txns_for_stratum_job: chirp_glue_fill_outputs ... *)
CallFill ==
  /\ cb = Idle
  /\ cb' = [at |-> "fill", now |-> clock]
  /\ UNCHANGED <<clock, called, glue, last_job, history, crashes, failures>>

Fill ==
  LET r == Current(cb.now) IN
  /\ cb.at = "fill"
  /\ registry' = [a \in Addrs |-> Pruned(r[a], cb.now)]
  /\ Initialised(cb.now)
  /\ power' = [a \in Addrs |-> Pruned(r[a], cb.now).shares]
  /\ cb' = [at |-> "save", now |-> clock]
  /\ UNCHANGED <<clock, called, disk, last_job, hist, saved, crashes, failures>>

(* Mutant: a save that is overdue is skipped. *)
SaveDueFirst(now) == now - g_last_save = SaveEvery

SaveDue(now) == now - g_last_save >= SaveEvery

(* ... and then chirp_glue_maybe_save. *)
MaybeSave ==
  /\ cb.at = "save"
  /\ cb' = Idle /\ power' = NoPower
  /\ last_job' = clock
  /\ IF SaveDue(cb.now)
     THEN /\ g_last_save' = cb.now
          /\ \/ disk' = registry /\ saved' = hist /\ UNCHANGED failures
             \/ /\ failures < MaxFailures /\ failures' = failures + 1
                /\ UNCHANGED <<disk, saved>>
     ELSE UNCHANGED <<g_last_save, disk, saved, failures>>
  /\ UNCHANGED <<clock, called, g_inited, registry, hist, crashes>>

(* The gateway stops and is started again; what was not saved is gone. *)
Crash ==
  /\ crashes < MaxCrashes
  /\ crashes' = crashes + 1
  /\ called' = [t \in Threads |-> NoCall] /\ cb' = Idle
  /\ g_inited' = FALSE /\ registry' = [a \in Addrs |-> Unknown]
  /\ hist' = saved /\ power' = NoPower /\ last_job' = clock
  /\ UNCHANGED <<clock, g_last_save, disk, saved, failures>>

Next ==
  \/ Tick \/ CallFill \/ Fill \/ MaybeSave \/ Crash
  \/ \E t \in Threads : Record(t) \/ \E a \in Addrs : CallRecord(t, a)

Spec == Init /\ [][Next]_vars

-----------------------------------------------------------------------------
(* Properties *)

(* How many shares of that second a history holds. *)
Recorded(h, ts) == Cardinality({i \in 1..Len(h) : h[i].ts = ts})

(* The draw sees the work of the last 24 hours: every recorded share that is
   in the window when the draw is made, none that is older than the time the
   draw is for, and none twice, across pruning, saving and reloading.       *)
CountsWindow ==
  cb.at = "fill" /\ cb'.at = "save" =>
    \A a \in Addrs : \A ts \in Times :
      /\ power'[a][ts] <= Recorded(hist[a], ts)
      /\ ts >= clock - Window => power'[a][ts] = Recorded(hist[a], ts)
      /\ ts < cb.now - Window => power'[a][ts] = 0

DrawCountsWindow == [][CountsWindow]_vars

(* What a stopped gateway loses is recent, as long as coinbases are built and
   the file written: a save that is not due yet waits for the next coinbase,
   which may be JobEvery seconds away, and whether it is due is decided by
   the time that was read when the coinbase was begun.                      *)
PersistedSoon ==
  g_inited /\ failures = 0 => \A a \in Addrs : \A i \in 1..Len(hist[a]) :
    hist[a][i].at <= clock - (SaveEvery + 2 * JobEvery) => i <= Len(saved[a])

(* The shares of an address were recorded in the order of their times. *)
InOrder(h) == \A i, j \in 1..Len(h) : i < j => h[i].ts <= h[j].ts

(* README.md:10, "active tenure (gaps offline don't count)": the tenure is
   not longer than the miner is known, and a gap counts for less than GapCap,
   unless two threads recorded shares in the other order than they read the
   clock: an interval then counts twice.                                    *)
TenureBounded ==
  /\ TypeOK
  /\ \A a \in Addrs : InOrder(hist[a]) =>
       LET m == registry[a] IN
       /\ m.active_secs <= clock - m.first_seen
       /\ hist[a] # <<>> => m.active_secs <= (Len(hist[a]) - 1) * (GapCap - 1)
=============================================================================
