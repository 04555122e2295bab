------------------------- MODULE ChirpRegistryProofs -------------------------
(***************************************************************************)
(* What the registry of CHIRP promises, for any number of stratum threads  *)
(* and addresses, any window, save interval and time between two           *)
(* coinbases: a draw counts each share of the window exactly once, what a  *)
(* stopped gateway loses is recent, and the tenure of a miner is bounded.  *)
(*                                                                         *)
(* The argument has three layers.  Every clock reading that is still in    *)
(* use was taken between the last coinbase and now (ClockInv).  The last   *)
(* save therefore lags the last coinbase by less than SaveEvery plus       *)
(* JobEvery, and a share that is not in the file was recorded after it     *)
(* (SaveInv).  And each of the two copies of the registry, in memory and   *)
(* on disk, describes a history: the memory what was recorded, the file    *)
(* what had been recorded when it was written (RegistryInv).  A crash only *)
(* replaces the first by the second.                                       *)
(***************************************************************************)
EXTENDS ChirpRegistry, FiniteSetTheorems, TLAPS

Entry == [ts : Times, at : Times]

(* The histories are sequences of recorded shares. *)
HistTypes ==
  /\ hist \in [Addrs -> Seq(Entry)] /\ saved \in [Addrs -> Seq(Entry)]
  /\ failures \in Nat

(* Every time that was read is between the last coinbase and the clock, but
   for a share that waits for the lock of a registry that is in use.         *)
ClockInv ==
  /\ last_job <= clock /\ clock - last_job <= JobEvery
  /\ \A t \in Threads : called[t].now <= clock
  /\ cb # Idle => last_job <= cb.now /\ cb.now <= clock
  /\ ~g_inited => /\ cb.at # "save"
                  /\ \A t \in Threads : called[t] # NoCall => last_job <= called[t].now

(* What is not in the file was recorded after the last save. *)
SaveInv ==
  /\ g_inited => /\ g_last_save <= clock
                 /\ last_job - g_last_save < SaveEvery + JobEvery
  /\ ~g_inited => hist = saved
  /\ g_inited /\ failures = 0 =>
       \A a \in Addrs : \A i \in 1..Len(hist[a]) :
         i > Len(saved[a]) => g_last_save <= hist[a][i].at

(* A history holds shares of the past. *)
Past(h, now) == \A i \in 1..Len(h) : h[i].ts <= now

(* The miner has the shares of its history, each once, but for old ones. *)
WorkKept(m, h, now) ==
  \A ts \in Times :
    /\ m.shares[ts] <= Recorded(h, ts)
    /\ ts >= now - Window => m.shares[ts] = Recorded(h, ts)

(* The miner is known since its first share, and its tenure is bounded. *)
TenureKept(m, h) ==
  /\ h = <<>> => m = Unknown
  /\ h # <<>> =>
       /\ m.last_seen = h[Len(h)].ts
       /\ InOrder(h) => /\ m.active_secs <= m.last_seen - m.first_seen
                        /\ m.active_secs <= (Len(h) - 1) * (GapCap - 1)

Describes(m, h, now) == Past(h, now) /\ WorkKept(m, h, now) /\ TenureKept(m, h)

(* The registry describes what was recorded, the file what was saved. *)
RegistryInv ==
  /\ \A a \in Addrs : Describes(disk[a], saved[a], clock)
  /\ g_inited => \A a \in Addrs : Describes(registry[a], hist[a], clock)
  /\ ~g_inited => registry = [a \in Addrs |-> Unknown]

ChirpInv == TypeOK /\ HistTypes /\ ClockInv /\ SaveInv /\ RegistryInv

-----------------------------------------------------------------------------
(* Histories *)

(* The parameters are numbers, at least one where they are a time. *)
LEMMA Numbers ==
  /\ Window \in Nat \ {0} /\ GapCap \in Nat \ {0} /\ SaveEvery \in Nat \ {0}
  /\ JobEvery \in Nat \ {0} /\ MaxTime \in Nat \ {0}
BY RegistryAssumption

(* The shares of a second are counted, also after one more was recorded. *)
LEMMA RecordedAppend ==
  ASSUME NEW h \in Seq(Entry), NEW e \in Entry, NEW ts \in Times
  PROVE  /\ Recorded(h, ts) \in Nat
         /\ Recorded(Append(h, e), ts)
              = IF e.ts = ts THEN Recorded(h, ts) + 1 ELSE Recorded(h, ts)
<1> DEFINE S == {i \in 1..Len(h) : h[i].ts = ts}
           k == Append(h, e)
           T == {i \in 1..Len(k) : k[i].ts = ts}
<1>1. IsFiniteSet(S)
  <2>1. IsFiniteSet(1..Len(h)) BY FS_Interval
  <2>2. S \subseteq 1..Len(h) OBVIOUS
  <2> QED BY <2>1, <2>2, FS_Subset
<1>2. Recorded(h, ts) = Cardinality(S) /\ Recorded(k, ts) = Cardinality(T)
  BY DEF Recorded
<1>3. Cardinality(S) \in Nat BY <1>1, FS_CardinalityType
<1>4. /\ Len(k) = Len(h) + 1 /\ k[Len(h) + 1] = e
      /\ \A i \in 1..Len(h) : k[i] = h[i]
  OBVIOUS
<1>5. CASE e.ts = ts
  <2>1. T = S \cup {Len(h) + 1} BY <1>4, <1>5
  <2>2. Len(h) + 1 \notin S OBVIOUS
  <2>3. Cardinality(T) = Cardinality(S) + 1 BY <1>1, <2>1, <2>2, FS_AddElement
  <2> QED BY <1>2, <1>3, <1>5, <2>3
<1>6. CASE e.ts # ts
  <2>1. T = S BY <1>4, <1>6
  <2> QED BY <1>2, <1>3, <1>6, <2>1
<1> QED BY <1>5, <1>6

(* An empty history has no shares. *)
LEMMA RecordedEmpty == \A ts : Recorded(<<>>, ts) = 0
<1> TAKE ts
<1>1. {i \in 1..Len(<<>>) : <<>>[i].ts = ts} = {} OBVIOUS
<1> QED BY <1>1, FS_EmptySet DEF Recorded

-----------------------------------------------------------------------------
(* The operators of datum_chirp.c *)

(* window_work changes the shares and nothing else. *)
LEMMA PrunedMiner ==
  ASSUME NEW m \in Miner, NEW now
  PROVE  /\ Pruned(m, now) \in Miner
         /\ Pruned(m, now).first_seen = m.first_seen
         /\ Pruned(m, now).last_seen = m.last_seen
         /\ Pruned(m, now).active_secs = m.active_secs
         /\ \A ts \in Times : Pruned(m, now).shares[ts]
                                = IF InWindow(ts, now) THEN m.shares[ts] ELSE 0
<1> DEFINE s == [ts \in Times |-> IF InWindow(ts, now) THEN m.shares[ts] ELSE 0]
<1>1. m.shares \in [Times -> Nat] BY DEF Miner
<1>2. s \in [Times -> Nat] BY <1>1
<1>3. \A ts \in Times : s[ts] = IF InWindow(ts, now) THEN m.shares[ts] ELSE 0
  OBVIOUS
<1>4. Pruned(m, now) = [m EXCEPT !.shares = s] BY DEF Pruned
<1> HIDE DEF s
<1> QED BY <1>2, <1>3, <1>4 DEF Miner

(* An unknown miner stays unknown. *)
LEMMA UnknownMiner ==
  /\ Unknown \in Miner
  /\ \A now : Pruned(Unknown, now) = Unknown
<1>1. Unknown \in Miner BY Numbers DEF Unknown, Miner
<1>2. ASSUME NEW now PROVE Pruned(Unknown, now) = Unknown
  <2>1. \A ts \in Times : Unknown.shares[ts] = 0 BY DEF Unknown
  <2>2. [ts \in Times |-> IF InWindow(ts, now) THEN Unknown.shares[ts] ELSE 0]
          = [ts \in Times |-> 0]
    BY <2>1
  <2>3. Pruned(Unknown, now) = [Unknown EXCEPT !.shares = [ts \in Times |-> 0]]
    BY <2>2 DEF Pruned
  <2> QED BY <2>3 DEF Unknown
<1> QED BY <1>1, <1>2

(* Without a draw nothing is counted. *)
LEMMA NoPowerType == NoPower \in [Addrs -> [Times -> Nat]]
<1>1. Unknown.shares \in [Times -> Nat] BY UnknownMiner DEF Miner
<1> QED BY <1>1 DEF NoPower

(* The window at a time that has passed still holds what is in it now. *)
LEMMA WindowMoves ==
  ASSUME NEW now \in Times, NEW c \in Times, now <= c,
         NEW ts \in Times, ts >= c - Window
  PROVE  InWindow(ts, now)
BY Numbers DEF InWindow, Cutoff, Times

(* What was too old before the window is dropped. *)
LEMMA WindowDrops ==
  ASSUME NEW now \in Times, NEW ts \in Times, ts < now - Window
  PROVE  ~InWindow(ts, now)
BY Numbers DEF InWindow, Cutoff, Times

(* A gap is less than GapCap, not longer than the time since the last share,
   and counts only after a first share.                                      *)
LEMMA GapBounded ==
  ASSUME NEW m \in Miner, NEW now \in Times
  PROVE  /\ ActiveGap(m, now) \in Nat
         /\ ActiveGap(m, now) <= GapCap - 1
         /\ m.last_seen <= now => ActiveGap(m, now) <= now - m.last_seen
         /\ m.last_seen = 0 => ActiveGap(m, now) = 0
<1>1. m.last_seen \in Nat BY DEF Miner
<1>2. now \in Nat BY DEF Times
<1> QED BY <1>1, <1>2, Numbers DEF ActiveGap

(* The miner a share is recorded for: the known one, or one just added. *)
Holder(r, a, now) == IF r[a] = Unknown THEN Added(now) ELSE r[a]

(* An added miner has no shares and no tenure. *)
LEMMA HolderMiner ==
  ASSUME NEW r \in [Addrs -> Miner], NEW a \in Addrs, NEW now \in Times
  PROVE  /\ Holder(r, a, now) \in Miner
         /\ Holder(r, a, now).shares = r[a].shares
         /\ r[a] = Unknown => /\ Holder(r, a, now).first_seen = now
                              /\ Holder(r, a, now).last_seen = 0
                              /\ Holder(r, a, now).active_secs = 0
<1>1. r[a] \in Miner OBVIOUS
<1>2. CASE r[a] = Unknown
  <2>1. Holder(r, a, now) = [Unknown EXCEPT !.first_seen = now]
    BY <1>2 DEF Holder, Added
  <2>2. now \in 0..MaxTime BY Numbers DEF Times
  <2>3. Holder(r, a, now) \in Miner
    BY <2>1, <2>2, UnknownMiner DEF Miner
  <2>4. /\ Holder(r, a, now).shares = Unknown.shares
        /\ Holder(r, a, now).first_seen = now
        /\ Holder(r, a, now).last_seen = Unknown.last_seen
        /\ Holder(r, a, now).active_secs = Unknown.active_secs
    BY <2>1, UnknownMiner DEF Miner
  <2>5. Unknown.last_seen = 0 /\ Unknown.active_secs = 0 BY DEF Unknown
  <2> QED BY <1>2, <2>3, <2>4, <2>5
<1>3. CASE r[a] # Unknown
  BY <1>1, <1>3 DEF Holder
<1> QED BY <1>2, <1>3

(* chirp_record_share adds one share of the time, and the gap. *)
LEMMA RecordMiner ==
  ASSUME NEW r \in [Addrs -> Miner], NEW a \in Addrs, NEW now \in Times
  PROVE  LET m == Holder(r, a, now)
             q == RecordShare(r, a, now)
         IN /\ q \in [Addrs -> Miner]
            /\ \A b \in Addrs : b # a => q[b] = r[b]
            /\ q[a].first_seen = m.first_seen
            /\ q[a].last_seen = now
            /\ q[a].active_secs = m.active_secs + ActiveGap(m, now)
            /\ \A ts \in Times : q[a].shares[ts]
                 = IF ts = now THEN r[a].shares[ts] + 1 ELSE r[a].shares[ts]
<1> DEFINE m == Holder(r, a, now)
           w == [m.shares EXCEPT ![now] = m.shares[now] + 1]
           g == m.active_secs + ActiveGap(m, now)
           n == [m EXCEPT !.active_secs = g, !.last_seen = now, !.shares = w]
           q == RecordShare(r, a, now)
<1>1. m \in Miner /\ m.shares = r[a].shares BY HolderMiner
<1>2. m.shares \in [Times -> Nat] /\ m.active_secs \in Nat BY <1>1 DEF Miner
<1>3. w \in [Times -> Nat] BY <1>2
<1>4. \A ts \in Times : w[ts] = IF ts = now THEN r[a].shares[ts] + 1
                                            ELSE r[a].shares[ts]
  BY <1>1, <1>2
<1>5. g \in Nat BY <1>1, <1>2, GapBounded
<1>6. now \in 0..MaxTime BY Numbers DEF Times
<1>7. q = [r EXCEPT ![a] = n]
  <2>1. q = [r EXCEPT ![a] =
              [m EXCEPT !.active_secs = @ + ActiveGap(m, now),
                        !.last_seen = now, !.shares[now] = @ + 1]]
    BY DEF RecordShare, Holder
  <2> HIDE DEF m
  <2>2. [m EXCEPT !.active_secs = @ + ActiveGap(m, now),
                  !.last_seen = now, !.shares[now] = @ + 1] = n
    BY <1>1, <1>2 DEF Miner
  <2> QED BY <2>1, <2>2
<1>8. /\ n \in Miner /\ n.first_seen = m.first_seen /\ n.last_seen = now
      /\ n.active_secs = g /\ n.shares = w
  <2> HIDE DEF m, w, g
  <2> QED BY <1>1, <1>3, <1>5, <1>6 DEF Miner
<1> HIDE DEF n, w
<1>9. q[a] = n /\ (\A b \in Addrs : b # a => q[b] = r[b]) BY <1>7
<1>10. q \in [Addrs -> Miner] BY <1>7, <1>8
<1> QED BY <1>4, <1>8, <1>9, <1>10

-----------------------------------------------------------------------------
(* What describes a history goes on doing so *)

(* Time passes: the window only loses seconds. *)
LEMMA LaterDescribes ==
  ASSUME NEW m \in Miner, NEW h \in Seq(Entry),
         NEW now \in Times, NEW c \in Times, now <= c, Describes(m, h, now)
  PROVE  Describes(m, h, c)
<1>1. Past(h, c)
  <2>1. \A i \in 1..Len(h) : h[i] \in Entry OBVIOUS
  <2>2. \A i \in 1..Len(h) : h[i].ts \in Times BY <2>1 DEF Entry
  <2>3. Past(h, now) BY DEF Describes
  <2> QED BY <2>2, <2>3 DEF Past, Times
<1>2. WorkKept(m, h, c)
  BY Numbers DEF Describes, WorkKept, Times
<1> QED BY <1>1, <1>2 DEF Describes

(* Old shares are dropped. *)
LEMMA PruneDescribes ==
  ASSUME NEW m \in Miner, NEW h \in Seq(Entry),
         NEW now \in Times, NEW c \in Times, now <= c, Describes(m, h, c)
  PROVE  Describes(Pruned(m, now), h, c)
<1>1. WorkKept(Pruned(m, now), h, c)
  <2> SUFFICES ASSUME NEW ts \in Times
               PROVE  /\ Pruned(m, now).shares[ts] <= Recorded(h, ts)
                      /\ ts >= c - Window
                           => Pruned(m, now).shares[ts] = Recorded(h, ts)
    BY DEF WorkKept
  <2>1. /\ m.shares[ts] <= Recorded(h, ts)
        /\ ts >= c - Window => m.shares[ts] = Recorded(h, ts)
    BY DEF Describes, WorkKept
  <2>2. m.shares[ts] \in Nat BY DEF Miner
  <2>3. Pruned(m, now).shares[ts] = IF InWindow(ts, now) THEN m.shares[ts] ELSE 0
    BY PrunedMiner
  <2>4. CASE InWindow(ts, now) BY <2>1, <2>3, <2>4
  <2>5. CASE ~InWindow(ts, now)
    <3>1. ~(ts >= c - Window) BY <2>5, WindowMoves
    <3>2. Recorded(h, ts) \in Nat
      <4>1. [ts |-> ts, at |-> ts] \in Entry BY DEF Entry
      <4> QED BY <4>1, RecordedAppend
    <3> QED BY <2>1, <2>2, <2>3, <2>5, <3>1, <3>2
  <2> QED BY <2>4, <2>5
<1>2. TenureKept(Pruned(m, now), h)
  <2>1. TenureKept(m, h) BY DEF Describes
  <2>2. CASE h = <<>> BY <2>1, <2>2, UnknownMiner DEF TenureKept
  <2>3. CASE h # <<>> BY <2>1, <2>3, PrunedMiner DEF TenureKept
  <2> QED BY <2>2, <2>3
<1> QED BY <1>1, <1>2 DEF Describes

(* A share is recorded, with the time its caller has read before. *)
LEMMA RecordDescribes ==
  ASSUME NEW r \in [Addrs -> Miner], NEW a \in Addrs, NEW h \in Seq(Entry),
         NEW now \in Times, NEW c \in Times, now <= c, Describes(r[a], h, c)
  PROVE  Describes(RecordShare(r, a, now)[a], Append(h, [ts |-> now, at |-> c]), c)
<1> DEFINE e == [ts |-> now, at |-> c]
           k == Append(h, e)
           m == Holder(r, a, now)
           n == RecordShare(r, a, now)[a]
<1>1. e \in Entry /\ e.ts = now BY DEF Entry
<1>2. /\ n.first_seen = m.first_seen /\ n.last_seen = now
      /\ n.active_secs = m.active_secs + ActiveGap(m, now)
      /\ \A ts \in Times : n.shares[ts]
           = IF ts = now THEN r[a].shares[ts] + 1 ELSE r[a].shares[ts]
  BY RecordMiner
<1>3. /\ Len(k) = Len(h) + 1 /\ k[Len(h) + 1] = e
      /\ \A i \in 1..Len(h) : k[i] = h[i]
  BY <1>1
<1>4. \A i \in 1..Len(h) : h[i].ts \in Times
  <2>1. \A i \in 1..Len(h) : h[i] \in Entry OBVIOUS
  <2> QED BY <2>1 DEF Entry
<1>5. Past(k, c)
  <2>1. Past(h, c) BY DEF Describes
  <2> HIDE DEF k, e
  <2> QED BY <1>1, <1>3, <2>1 DEF Past
<1>6. WorkKept(n, k, c)
  <2> HIDE DEF n
  <2> SUFFICES ASSUME NEW ts \in Times
               PROVE  /\ n.shares[ts] <= Recorded(k, ts)
                      /\ ts >= c - Window => n.shares[ts] = Recorded(k, ts)
    BY DEF WorkKept
  <2>1. /\ r[a].shares[ts] <= Recorded(h, ts)
        /\ ts >= c - Window => r[a].shares[ts] = Recorded(h, ts)
    BY DEF Describes, WorkKept
  <2>2. r[a] \in Miner OBVIOUS
  <2>3. r[a].shares[ts] \in Nat BY <2>2 DEF Miner
  <2>4. /\ Recorded(h, ts) \in Nat
        /\ Recorded(k, ts) = IF now = ts THEN Recorded(h, ts) + 1
                                         ELSE Recorded(h, ts)
    BY <1>1, RecordedAppend
  <2> HIDE DEF k
  <2> QED BY <1>2, <2>1, <2>3, <2>4
<1>7. TenureKept(n, k)
  <2> HIDE DEF n, m
  <2>1. k # <<>> BY <1>3
  <2>2. n.last_seen = k[Len(k)].ts BY <1>1, <1>2, <1>3
  <2>3. ASSUME InOrder(k)
        PROVE  /\ n.active_secs <= n.last_seen - n.first_seen
               /\ n.active_secs <= (Len(k) - 1) * (GapCap - 1)
    <3>1. TenureKept(r[a], h) BY DEF Describes
    <3>2. CASE h = <<>>
      <4>1. r[a] = Unknown BY <3>1, <3>2 DEF TenureKept
      <4>2. m \in Miner /\ m.first_seen = now /\ m.last_seen = 0 /\ m.active_secs = 0
        BY <4>1, HolderMiner DEF m
      <4>3. ActiveGap(m, now) = 0 BY <4>2, GapBounded
      <4>4. n.active_secs = 0 /\ n.first_seen = now BY <1>2, <4>2, <4>3
      <4>5. Len(k) = 1 BY <1>3, <3>2
      <4>6. (Len(k) - 1) * (GapCap - 1) = 0 BY <4>5, Numbers
      <4> QED BY <1>2, <4>4, <4>6 DEF Times
    <3>3. CASE h # <<>>
      <4>1. Len(h) \in 1..Len(h) /\ Len(h) \in Nat BY <3>3
      <4>2. InOrder(h)
        <5>1. SUFFICES ASSUME NEW i \in 1..Len(h), NEW j \in 1..Len(h), i < j
                       PROVE  h[i].ts <= h[j].ts
          BY DEF InOrder
        <5>2. i \in 1..Len(k) /\ j \in 1..Len(k) BY <1>3
        <5>3. k[i].ts <= k[j].ts BY <2>3, <5>1, <5>2 DEF InOrder
        <5> QED BY <1>3, <5>3
      <4>3. h[Len(h)].ts <= now
        <5>1. Len(h) \in 1..Len(k) /\ Len(h) + 1 \in 1..Len(k) BY <1>3, <4>1
        <5>2. k[Len(h)].ts <= k[Len(h) + 1].ts BY <2>3, <4>1, <5>1 DEF InOrder
        <5> QED BY <1>1, <1>3, <4>1, <5>2
      <4>4. /\ r[a].last_seen = h[Len(h)].ts
            /\ r[a].active_secs <= r[a].last_seen - r[a].first_seen
            /\ r[a].active_secs <= (Len(h) - 1) * (GapCap - 1)
        BY <3>1, <3>3, <4>2 DEF TenureKept
      <4>5. r[a] # Unknown
        <5>1. r[a].last_seen \in Times BY <1>4, <4>1, <4>4
        <5>2. Unknown.last_seen = 0 BY DEF Unknown
        <5> QED BY <5>1, <5>2 DEF Times
      <4>6. m = r[a] BY <4>5 DEF m, Holder
      <4>7. /\ r[a] \in Miner /\ m.active_secs \in Nat /\ m.first_seen \in Nat
            /\ m.last_seen \in Nat
        BY <4>6 DEF Miner
      <4>8. /\ ActiveGap(m, now) \in Nat /\ ActiveGap(m, now) <= GapCap - 1
            /\ ActiveGap(m, now) <= now - m.last_seen
        BY <4>3, <4>4, <4>6, <4>7, GapBounded
      <4>9. n.active_secs <= now - m.first_seen
        <5>1. /\ n.active_secs = m.active_secs + ActiveGap(m, now)
              /\ m.active_secs <= m.last_seen - m.first_seen
          BY <1>2, <4>4, <4>6
        <5>2. now \in Nat BY DEF Times
        <5> QED BY <4>7, <4>8, <5>1, <5>2
      <4>10. (Len(h) - 1) * (GapCap - 1) + (GapCap - 1) = Len(h) * (GapCap - 1)
        BY <4>1, Numbers
      <4>11. (Len(h) - 1) * (GapCap - 1) \in Int BY <4>1, Numbers
      <4>12. n.active_secs <= Len(h) * (GapCap - 1)
        <5> DEFINE x == (Len(h) - 1) * (GapCap - 1)
                   y == Len(h) * (GapCap - 1)
        <5>1. x + (GapCap - 1) = y /\ x \in Int BY <4>10, <4>11
        <5>2. m.active_secs <= x BY <4>4, <4>6
        <5> HIDE DEF x, y
        <5>3. n.active_secs <= y
          BY <1>2, <4>7, <4>8, <5>1, <5>2, Numbers
        <5> QED BY <5>3 DEF y
      <4>13. Len(k) - 1 = Len(h) BY <1>3, <4>1
      <4> QED BY <1>2, <4>9, <4>12, <4>13
    <3> QED BY <3>2, <3>3
  <2> QED BY <2>1, <2>2, <2>3 DEF TenureKept
<1> QED BY <1>5, <1>6, <1>7 DEF Describes

(* Whoever comes first finds the registry that describes what was recorded,
   in memory or in the file.                                                *)
LEMMA CurrentDescribes ==
  ASSUME TypeOK, HistTypes, RegistryInv, ~g_inited => hist = saved,
         NEW now \in Times, now <= clock
  PROVE  /\ Current(now) \in [Addrs -> Miner]
         /\ \A a \in Addrs : Describes(Current(now)[a], hist[a], clock)
<1>1. CASE g_inited
  BY <1>1 DEF Current, TypeOK, RegistryInv
<1>2. CASE ~g_inited
  <2>1. Current(now) = [a \in Addrs |-> Pruned(disk[a], now)]
    BY <1>2 DEF Current, Loaded
  <2>2. \A a \in Addrs : disk[a] \in Miner BY DEF TypeOK
  <2>3. \A a \in Addrs : Pruned(disk[a], now) \in Miner BY <2>2, PrunedMiner
  <2>4. ASSUME NEW a \in Addrs
        PROVE  Describes(Pruned(disk[a], now), hist[a], clock)
    <3>1. saved[a] \in Seq(Entry) /\ hist[a] = saved[a] BY <1>2 DEF HistTypes
    <3>2. Describes(disk[a], saved[a], clock) BY DEF RegistryInv
    <3>3. clock \in Times BY DEF TypeOK
    <3>4. Describes(Pruned(disk[a], now), saved[a], clock)
      BY <2>2, <3>1, <3>2, <3>3, PruneDescribes
    <3> QED BY <3>1, <3>4
  <2> QED BY <2>1, <2>3, <2>4
<1> QED BY <1>1, <1>2

-----------------------------------------------------------------------------
(* The steps *)

(* Everything is empty at the start. *)
LEMMA ChirpInit == Init => ChirpInv
<1> SUFFICES ASSUME Init PROVE ChirpInv OBVIOUS
<1>1. 1 \in Times /\ 0 \in 0..MaxTime /\ 1 \in 0..MaxTime BY Numbers DEF Times
<1>2. TypeOK
  BY <1>1, UnknownMiner, NoPowerType DEF Init, TypeOK
<1>3. HistTypes BY DEF Init, HistTypes
<1>4. ClockInv
  <2>1. Idle.at = "idle" /\ NoCall.now = 0 BY DEF Idle, NoCall
  <2> QED BY <2>1, Numbers DEF Init, ClockInv
<1>5. SaveInv BY DEF Init, SaveInv
<1>6. RegistryInv
  <2>1. \A c : Describes(Unknown, <<>>, c)
    <3> TAKE c
    <3>1. Past(<<>>, c) BY DEF Past
    <3>2. WorkKept(Unknown, <<>>, c)
      <4>1. \A ts \in Times : Unknown.shares[ts] = 0 BY DEF Unknown
      <4> QED BY <4>1, RecordedEmpty DEF WorkKept
    <3>3. TenureKept(Unknown, <<>>) BY DEF TenureKept
    <3> QED BY <3>1, <3>2, <3>3 DEF Describes
  <2> QED BY <2>1 DEF Init, RegistryInv
<1> QED BY <1>2, <1>3, <1>4, <1>5, <1>6 DEF ChirpInv

(* The clock moves only while a coinbase is not overdue. *)
LEMMA TickStep == ChirpInv /\ Tick => ChirpInv'
<1> SUFFICES ASSUME ChirpInv, Tick PROVE ChirpInv' OBVIOUS
<1> USE DEF glue, history
<1>1. TypeOK /\ HistTypes /\ ClockInv /\ SaveInv /\ RegistryInv BY DEF ChirpInv
<1>2. /\ clock' = clock + 1 /\ clock' \in Times /\ clock \in Times
      /\ clock' - last_job <= JobEvery /\ clock \in Nat /\ last_job \in Nat
  BY <1>1, Numbers DEF Tick, TypeOK, Times
<1>3. TypeOK' BY <1>1, <1>2 DEF Tick, TypeOK
<1>4. HistTypes' BY <1>1 DEF Tick, HistTypes
<1>5. ClockInv'
  <2>1. \A t \in Threads : called[t].now \in Nat
    BY <1>1 DEF TypeOK, NoCall, Times
  <2>2. cb # Idle => cb.now \in Nat BY <1>1 DEF TypeOK, Times
  <2> QED BY <1>1, <1>2, <2>1, <2>2 DEF Tick, ClockInv
<1>6. SaveInv'
  <2>1. g_last_save \in Nat BY <1>1 DEF TypeOK
  <2> QED BY <1>1, <1>2, <2>1 DEF Tick, SaveInv
<1>7. RegistryInv'
  <2>1. clock <= clock' BY <1>2
  <2>2. \A a \in Addrs : disk[a] \in Miner /\ registry[a] \in Miner
    BY <1>1 DEF TypeOK
  <2>3. \A a \in Addrs : hist[a] \in Seq(Entry) /\ saved[a] \in Seq(Entry)
    BY <1>1 DEF HistTypes
  <2>4. \A a \in Addrs : Describes(disk[a], saved[a], clock')
    BY <1>1, <1>2, <2>1, <2>2, <2>3, LaterDescribes DEF RegistryInv
  <2>5. g_inited => \A a \in Addrs : Describes(registry[a], hist[a], clock')
    BY <1>1, <1>2, <2>1, <2>2, <2>3, LaterDescribes DEF RegistryInv
  <2> QED BY <1>1, <2>4, <2>5 DEF Tick, RegistryInv
<1> QED BY <1>3, <1>4, <1>5, <1>6, <1>7 DEF ChirpInv

(* A thread reads the clock for a share. *)
LEMMA CallRecordStep ==
  ASSUME ChirpInv, NEW t \in Threads, NEW a \in Addrs, CallRecord(t, a)
  PROVE  ChirpInv'
<1> USE DEF glue, history
<1>1. TypeOK /\ HistTypes /\ ClockInv /\ SaveInv /\ RegistryInv BY DEF ChirpInv
<1> DEFINE c == [addr |-> a, now |-> clock]
<1>2. c \in [addr : Addrs, now : Times] /\ c.now = clock BY <1>1 DEF TypeOK
<1>3. called' = [called EXCEPT ![t] = c] BY DEF CallRecord
<1> HIDE DEF c
<1>4. TypeOK' BY <1>1, <1>2, <1>3 DEF CallRecord, TypeOK
<1>5. HistTypes' BY <1>1 DEF CallRecord, HistTypes
<1>6. ClockInv'
  <2>1. \A u \in Threads : called'[u] = IF u = t THEN c ELSE called[u]
    BY <1>1, <1>3 DEF TypeOK
  <2>2. clock \in Nat BY <1>1 DEF TypeOK, Times
  <2> QED BY <1>1, <1>2, <2>1, <2>2 DEF CallRecord, ClockInv
<1>7. SaveInv' BY <1>1 DEF CallRecord, SaveInv
<1>8. RegistryInv' BY <1>1 DEF CallRecord, RegistryInv
<1> QED BY <1>4, <1>5, <1>6, <1>7, <1>8 DEF ChirpInv

(* The coinbaser reads the clock for a draw. *)
LEMMA CallFillStep == ChirpInv /\ CallFill => ChirpInv'
<1> SUFFICES ASSUME ChirpInv, CallFill PROVE ChirpInv' OBVIOUS
<1> USE DEF glue, history
<1>1. TypeOK /\ HistTypes /\ ClockInv /\ SaveInv /\ RegistryInv BY DEF ChirpInv
<1> DEFINE c == [at |-> "fill", now |-> clock]
<1>2. /\ c \in [at : {"fill", "save"}, now : Times]
      /\ c.now = clock /\ c.at = "fill"
  BY <1>1 DEF TypeOK
<1>3. cb' = c BY DEF CallFill
<1> HIDE DEF c
<1>4. TypeOK' BY <1>1, <1>2, <1>3 DEF CallFill, TypeOK
<1>5. HistTypes' BY <1>1 DEF CallFill, HistTypes
<1>6. ClockInv'
  <2>1. clock \in Nat BY <1>1 DEF TypeOK, Times
  <2> QED BY <1>1, <1>2, <1>3, <2>1 DEF CallFill, ClockInv
<1>7. SaveInv' BY <1>1 DEF CallFill, SaveInv
<1>8. RegistryInv' BY <1>1 DEF CallFill, RegistryInv
<1> QED BY <1>4, <1>5, <1>6, <1>7, <1>8 DEF ChirpInv

(* Whoever comes first starts the interval to the next save. *)
LEMMA InitialisedSaves ==
  ASSUME ChirpInv, NEW now \in Times, ~g_inited => last_job <= now,
         now <= clock, Initialised(now)
  PROVE  /\ g_last_save' \in 0..MaxTime /\ g_last_save' <= clock
         /\ last_job - g_last_save' < SaveEvery + JobEvery
<1>1. now \in 0..MaxTime /\ now \in Nat BY Numbers DEF Times
<1>2. last_job \in Nat /\ g_last_save \in 0..MaxTime BY DEF ChirpInv, TypeOK
<1>3. CASE g_inited
  BY <1>2, <1>3 DEF Initialised, ChirpInv, SaveInv
<1>4. CASE ~g_inited
  BY <1>1, <1>2, <1>4, Numbers DEF Initialised
<1> QED BY <1>3, <1>4

(* A share is recorded. *)
LEMMA RecordStep ==
  ASSUME ChirpInv, NEW t \in Threads, Record(t)
  PROVE  ChirpInv'
<1> USE DEF glue, history
<1>1. TypeOK /\ HistTypes /\ ClockInv /\ SaveInv /\ RegistryInv BY DEF ChirpInv
<1> DEFINE a == called[t].addr
           now == called[t].now
           e == [ts |-> now, at |-> clock]
<1>2. /\ a \in Addrs /\ now \in Times /\ now <= clock
      /\ ~g_inited => last_job <= now
  <2>1. called[t] # NoCall BY DEF Record
  <2>2. called[t] \in [addr : Addrs, now : Times] BY <1>1, <2>1 DEF TypeOK
  <2> QED BY <1>1, <2>1, <2>2 DEF ClockInv
<1>3. /\ registry' = RecordShare(Current(now), a, now)
      /\ hist' = [hist EXCEPT ![a] = Append(hist[a], e)]
      /\ called' = [called EXCEPT ![t] = NoCall]
      /\ Initialised(now)
  BY DEF Record
<1>4. UNCHANGED <<clock, cb, disk, last_job, saved, power, crashes, failures>>
  BY DEF Record
<1>5. e \in Entry /\ e.at = clock BY <1>1, <1>2 DEF Entry, TypeOK
<1> HIDE DEF a, now, e
<1>6. /\ Current(now) \in [Addrs -> Miner]
      /\ \A b \in Addrs : Describes(Current(now)[b], hist[b], clock)
  BY <1>1, <1>2, CurrentDescribes DEF SaveInv
<1>7. /\ registry' \in [Addrs -> Miner]
      /\ \A b \in Addrs : b # a => registry'[b] = Current(now)[b]
  BY <1>2, <1>3, <1>6, RecordMiner
<1>8. /\ hist[a] \in Seq(Entry) /\ hist'[a] = Append(hist[a], e)
      /\ \A b \in Addrs : b # a => hist'[b] = hist[b]
  BY <1>1, <1>2, <1>3 DEF HistTypes
<1>9. g_last_save' \in 0..MaxTime /\ g_last_save' <= clock
      /\ last_job - g_last_save' < SaveEvery + JobEvery
  BY <1>2, <1>3, InitialisedSaves
<1>10. TypeOK'
  <2>1. called' \in [Threads -> [addr : Addrs, now : Times] \cup {NoCall}]
    BY <1>1, <1>3 DEF TypeOK
  <2>2. g_inited' \in BOOLEAN BY DEF Record, Initialised
  <2> QED BY <1>1, <1>4, <1>7, <1>9, <2>1, <2>2 DEF TypeOK
<1>11. HistTypes'
  <2>1. Append(hist[a], e) \in Seq(Entry) BY <1>5, <1>8
  <2> QED BY <1>1, <1>3, <1>4, <2>1 DEF HistTypes
<1>12. ClockInv'
  <2>1. \A u \in Threads : called'[u] = IF u = t THEN NoCall ELSE called[u]
    BY <1>1, <1>3 DEF TypeOK
  <2>2. NoCall.now = 0 BY DEF NoCall
  <2>3. clock \in Nat BY <1>1 DEF TypeOK, Times
  <2> QED BY <1>1, <1>3, <1>4, <2>1, <2>2, <2>3 DEF ClockInv, Initialised
<1>13. SaveInv'
  <2>1. SUFFICES ASSUME failures = 0, NEW b \in Addrs, NEW i \in 1..Len(hist'[b]),
                        i > Len(saved[b])
                 PROVE  g_last_save' <= hist'[b][i].at
    BY <1>3, <1>4, <1>9 DEF SaveInv, Initialised
  <2>2. ASSUME i \in 1..Len(hist[b]) PROVE g_last_save' <= hist[b][i].at
    <3>1. g_inited
      <4>1. SUFFICES ASSUME ~g_inited PROVE FALSE OBVIOUS
      <4>2. hist = saved BY <1>1, <4>1 DEF SaveInv
      <4>3. Len(hist[b]) \in Nat BY <1>1 DEF HistTypes
      <4> QED BY <2>1, <2>2, <4>2, <4>3
    <3> QED BY <1>1, <1>3, <2>1, <2>2, <3>1 DEF SaveInv, Initialised
  <2>3. CASE b = a
    <3>1. /\ Len(hist'[b]) = Len(hist[b]) + 1 /\ hist'[b][Len(hist[b]) + 1] = e
          /\ \A j \in 1..Len(hist[b]) : hist'[b][j] = hist[b][j]
      <4> DEFINE h == hist[b]
      <4>1. h \in Seq(Entry) /\ hist'[b] = Append(h, e) BY <1>8, <2>3
      <4> HIDE DEF h
      <4>2. /\ Len(Append(h, e)) = Len(h) + 1 /\ Append(h, e)[Len(h) + 1] = e
            /\ \A j \in 1..Len(h) : Append(h, e)[j] = h[j]
        BY <1>5, <4>1
      <4> QED BY <4>1, <4>2 DEF h
    <3>2. CASE i \in 1..Len(hist[b]) BY <2>2, <3>1, <3>2
    <3>3. CASE i \notin 1..Len(hist[b])
      <4>1. Len(hist[b]) \in Nat BY <1>8, <2>3
      <4>2. i = Len(hist[b]) + 1 BY <2>1, <3>1, <3>3, <4>1
      <4> QED BY <1>5, <1>9, <3>1, <4>2
    <3> QED BY <3>2, <3>3
  <2>4. CASE b # a BY <1>8, <2>1, <2>2, <2>4
  <2> QED BY <2>3, <2>4
<1>14. RegistryInv'
  <2>1. clock \in Times BY <1>1 DEF TypeOK
  <2>2. Describes(registry'[a], hist'[a], clock)
    BY <1>2, <1>3, <1>6, <1>8, <2>1, RecordDescribes DEF e
  <2>3. \A b \in Addrs : Describes(registry'[b], hist'[b], clock)
    BY <1>6, <1>7, <1>8, <2>2
  <2> QED BY <1>1, <1>3, <1>4, <2>3 DEF RegistryInv, Initialised
<1> QED BY <1>10, <1>11, <1>12, <1>13, <1>14 DEF ChirpInv

(* A draw counts the shares of the window. *)
LEMMA FillStep == ChirpInv /\ Fill => ChirpInv'
<1> SUFFICES ASSUME ChirpInv, Fill PROVE ChirpInv' OBVIOUS
<1> USE DEF glue, history
<1>1. TypeOK /\ HistTypes /\ ClockInv /\ SaveInv /\ RegistryInv BY DEF ChirpInv
<1> DEFINE now == cb.now
           c == [at |-> "save", now |-> clock]
           r == Current(now)
<1>2. /\ now \in Times /\ now <= clock /\ last_job <= now
      /\ clock \in Times /\ last_job \in Nat
  <2>1. cb.at = "fill" BY DEF Fill
  <2>2. cb # Idle BY <2>1 DEF Idle
  <2>3. cb \in [at : {"fill", "save"}, now : Times] BY <1>1, <2>2 DEF TypeOK
  <2> QED BY <1>1, <2>2, <2>3 DEF ClockInv, TypeOK
<1>3. /\ registry' = [a \in Addrs |-> Pruned(r[a], now)]
      /\ power' = [a \in Addrs |-> Pruned(r[a], now).shares]
      /\ cb' = c /\ Initialised(now)
  BY DEF Fill
<1>4. UNCHANGED <<clock, called, disk, last_job, hist, saved, crashes, failures>>
  BY DEF Fill
<1>5. /\ c \in [at : {"fill", "save"}, now : Times] /\ c.now = clock
  BY <1>2
<1> HIDE DEF now, c, r
<1>6. r \in [Addrs -> Miner] /\ \A a \in Addrs : Describes(r[a], hist[a], clock)
  BY <1>1, <1>2, CurrentDescribes DEF SaveInv, r
<1>7. \A a \in Addrs : r[a] \in Miner /\ Pruned(r[a], now) \in Miner
  BY <1>6, PrunedMiner
<1>8. /\ g_last_save' \in 0..MaxTime /\ g_last_save' <= clock
      /\ last_job - g_last_save' < SaveEvery + JobEvery
  BY <1>2, <1>3, InitialisedSaves
<1>9. TypeOK'
  <2>1. registry' \in [Addrs -> Miner] BY <1>3, <1>7
  <2>2. power' \in [Addrs -> [Times -> Nat]] BY <1>3, <1>7 DEF Miner
  <2>3. g_inited' \in BOOLEAN BY <1>3 DEF Initialised
  <2> QED BY <1>1, <1>3, <1>4, <1>5, <1>8, <2>1, <2>2, <2>3 DEF TypeOK
<1>10. HistTypes' BY <1>1, <1>4 DEF HistTypes
<1>11. ClockInv'
  <2>1. clock \in Nat BY <1>2 DEF Times
  <2> QED BY <1>1, <1>2, <1>3, <1>4, <1>5, <2>1 DEF ClockInv, Initialised
<1>12. SaveInv'
  <2>1. SUFFICES ASSUME failures = 0, NEW a \in Addrs, NEW i \in 1..Len(hist[a]),
                        i > Len(saved[a])
                 PROVE  g_last_save' <= hist[a][i].at
    BY <1>3, <1>4, <1>8 DEF SaveInv, Initialised
  <2>2. Len(hist[a]) \in Nat BY <1>1 DEF HistTypes
  <2>3. g_inited BY <1>1, <2>1, <2>2 DEF SaveInv
  <2> QED BY <1>1, <1>3, <2>1, <2>3 DEF SaveInv, Initialised
<1>13. RegistryInv'
  <2>1. \A a \in Addrs : hist[a] \in Seq(Entry) BY <1>1 DEF HistTypes
  <2>2. \A a \in Addrs : Describes(Pruned(r[a], now), hist[a], clock)
    BY <1>2, <1>6, <1>7, <2>1, PruneDescribes
  <2>3. \A a \in Addrs : Describes(registry'[a], hist'[a], clock)
    BY <1>3, <1>4, <2>2
  <2> QED BY <1>1, <1>3, <1>4, <2>3 DEF RegistryInv, Initialised
<1> QED BY <1>9, <1>10, <1>11, <1>12, <1>13 DEF ChirpInv

(* The coinbase is finished, and the registry saved when that is due. *)
LEMMA MaybeSaveStep == ChirpInv /\ MaybeSave => ChirpInv'
<1> SUFFICES ASSUME ChirpInv, MaybeSave PROVE ChirpInv' OBVIOUS
<1> USE DEF glue, history
<1>1. TypeOK /\ HistTypes /\ ClockInv /\ SaveInv /\ RegistryInv BY DEF ChirpInv
<1>2. UNCHANGED <<clock, called, g_inited, registry, hist, crashes>>
      /\ cb' = Idle /\ last_job' = clock /\ power' = NoPower
  BY DEF MaybeSave
<1>3. /\ cb.now \in Times /\ cb.now <= clock /\ last_job <= cb.now
      /\ g_inited /\ cb.now \in 0..MaxTime /\ clock \in Times /\ clock \in 0..MaxTime
  <2>1. cb.at = "save" BY DEF MaybeSave
  <2>2. cb # Idle BY <2>1 DEF Idle
  <2>3. cb \in [at : {"fill", "save"}, now : Times] BY <1>1, <2>2 DEF TypeOK
  <2>4. cb.now \in Times /\ clock \in Times BY <1>1, <2>3 DEF TypeOK
  <2> QED BY <1>1, <2>1, <2>2, <2>4, Numbers DEF ClockInv, Times
<1>4. /\ clock \in Nat /\ last_job \in Nat /\ g_last_save \in Nat /\ cb.now \in Nat
      /\ failures \in Nat
  BY <1>1, <1>3 DEF TypeOK, Times, HistTypes
<1>5. \/ /\ SaveDue(cb.now) /\ g_last_save' = cb.now
         /\ disk' = registry /\ saved' = hist /\ failures' = failures
      \/ /\ SaveDue(cb.now) /\ g_last_save' = cb.now
         /\ failures' = failures + 1 /\ disk' = disk /\ saved' = saved
      \/ /\ ~SaveDue(cb.now) /\ UNCHANGED <<g_last_save, disk, saved, failures>>
  BY DEF MaybeSave
<1>6. TypeOK'
  <2>1. cb' \in [at : {"fill", "save"}, now : Times] \cup {Idle} BY <1>2
  <2>2. last_job' \in 0..MaxTime BY <1>2, <1>3
  <2>3. disk' \in [Addrs -> Miner] /\ g_last_save' \in 0..MaxTime
    BY <1>1, <1>3, <1>5 DEF TypeOK
  <2>4. power' \in [Addrs -> [Times -> Nat]] BY <1>2, NoPowerType
  <2> QED BY <1>1, <1>2, <2>1, <2>2, <2>3, <2>4 DEF TypeOK
<1>7. HistTypes' BY <1>1, <1>2, <1>4, <1>5 DEF HistTypes
<1>8. ClockInv'
  BY <1>1, <1>2, <1>3, <1>4, Numbers DEF ClockInv
<1>9. SaveInv'
  <2>1. g_last_save' <= clock /\ clock - g_last_save' < SaveEvery + JobEvery
    <3>1. clock - cb.now <= JobEvery BY <1>1, <1>3, <1>4, Numbers DEF ClockInv
    <3>2. CASE SaveDue(cb.now) BY <1>3, <1>4, <1>5, <3>1, <3>2, Numbers
    <3>3. CASE ~SaveDue(cb.now)
      <4>1. g_last_save' = g_last_save /\ g_last_save <= clock
        BY <1>1, <1>3, <1>5, <3>3 DEF SaveInv
      <4>2. cb.now - g_last_save < SaveEvery BY <1>4, <3>3, Numbers DEF SaveDue
      <4> QED BY <1>4, <3>1, <4>1, <4>2, Numbers
    <3> QED BY <3>2, <3>3
  <2>2. SUFFICES ASSUME failures' = 0, NEW a \in Addrs, NEW i \in 1..Len(hist[a]),
                        i > Len(saved'[a])
                 PROVE  g_last_save' <= hist[a][i].at
    BY <1>2, <1>3, <2>1 DEF SaveInv
  <2>3. Len(hist[a]) \in Nat BY <1>1 DEF HistTypes
  <2>4. saved' # hist BY <2>2, <2>3
  <2>5. UNCHANGED <<g_last_save, saved, failures>> BY <1>4, <1>5, <2>2, <2>4
  <2> QED BY <1>1, <1>3, <2>2, <2>5 DEF SaveInv
<1>10. RegistryInv' BY <1>1, <1>2, <1>3, <1>5 DEF RegistryInv
<1> QED BY <1>6, <1>7, <1>8, <1>9, <1>10 DEF ChirpInv

(* A restart: what was recorded since the last save is forgotten. *)
LEMMA CrashStep == ChirpInv /\ Crash => ChirpInv'
<1> SUFFICES ASSUME ChirpInv, Crash PROVE ChirpInv' OBVIOUS
<1> USE DEF glue, history
<1>1. TypeOK /\ HistTypes /\ ClockInv /\ SaveInv /\ RegistryInv BY DEF ChirpInv
<1>2. Idle.at = "idle" /\ NoCall.now = 0 BY DEF Idle, NoCall
<1>3. clock \in Nat /\ clock \in 0..MaxTime BY <1>1, Numbers DEF TypeOK, Times
<1>4. TypeOK' BY <1>1, <1>3, UnknownMiner, NoPowerType DEF Crash, TypeOK
<1>5. HistTypes' BY <1>1 DEF Crash, HistTypes
<1>6. ClockInv' BY <1>1, <1>2, <1>3, Numbers DEF Crash, ClockInv
<1>7. SaveInv' BY <1>1 DEF Crash, SaveInv
<1>8. RegistryInv' BY <1>1 DEF Crash, RegistryInv
<1> QED BY <1>4, <1>5, <1>6, <1>7, <1>8 DEF ChirpInv

-----------------------------------------------------------------------------
(* Theorems *)

(* The invariant holds always. *)
LEMMA ChirpAlways == Spec => []ChirpInv
<1>1. Init => ChirpInv BY ChirpInit
<1>2. ChirpInv /\ [Next]_vars => ChirpInv'
  <2> SUFFICES ASSUME ChirpInv, [Next]_vars PROVE ChirpInv' OBVIOUS
  <2>1. CASE Tick BY <2>1, TickStep
  <2>2. CASE CallFill BY <2>2, CallFillStep
  <2>3. CASE Fill BY <2>3, FillStep
  <2>4. CASE MaybeSave BY <2>4, MaybeSaveStep
  <2>5. CASE Crash BY <2>5, CrashStep
  <2>6. CASE \E t \in Threads : Record(t) BY <2>6, RecordStep
  <2>7. CASE \E t \in Threads : \E a \in Addrs : CallRecord(t, a)
    BY <2>7, CallRecordStep
  <2>8. CASE UNCHANGED vars
    BY <2>8 DEF vars, glue, history, ChirpInv, TypeOK, HistTypes, ClockInv,
                SaveInv, RegistryInv
  <2> QED BY <2>1, <2>2, <2>3, <2>4, <2>5, <2>6, <2>7, <2>8 DEF Next
<1> QED BY <1>1, <1>2, PTL DEF Spec

(* What a stopped gateway loses is recent, whatever the save interval and the
   time between two coinbases (chirp_glue_maybe_save, which only the builder
   of coinbases calls): the shares that are not in the file were recorded
   after the last save, which lags the last coinbase by less than the save
   interval and one time between coinbases.                                  *)
THEOREM PersistedSoonAlways == Spec => []PersistedSoon
<1>1. ChirpInv => PersistedSoon
  <2> SUFFICES ASSUME ChirpInv, g_inited, failures = 0, NEW a \in Addrs,
                      NEW i \in 1..Len(hist[a]),
                      hist[a][i].at <= clock - (SaveEvery + 2 * JobEvery),
                      ~(i <= Len(saved[a]))
               PROVE  FALSE
    BY DEF PersistedSoon
  <2>1. TypeOK /\ HistTypes /\ ClockInv /\ SaveInv BY DEF ChirpInv
  <2>2. hist[a] \in Seq(Entry) /\ saved[a] \in Seq(Entry) BY <2>1 DEF HistTypes
  <2>3. i > Len(saved[a]) BY <2>2
  <2>4. g_last_save <= hist[a][i].at BY <2>1, <2>3 DEF SaveInv
  <2>5. hist[a][i] \in Entry BY <2>2
  <2>6. hist[a][i].at \in Nat BY <2>5 DEF Entry, Times
  <2>7. clock \in Nat /\ last_job \in Nat /\ g_last_save \in Nat
    BY <2>1 DEF TypeOK, Times
  <2>8. clock - last_job <= JobEvery /\ last_job - g_last_save < SaveEvery + JobEvery
    BY <2>1 DEF ClockInv, SaveInv
  <2> QED BY <2>4, <2>6, <2>7, <2>8, Numbers
<1> QED BY <1>1, ChirpAlways, PTL

(* The active tenure of a miner whose shares were recorded in the order of
   their times is not longer than the miner is known, and each share after the
   first adds less than GapCap (chirp_record_share), also after restarts that
   go back to the file.                                                      *)
THEOREM TenureBoundedAlways == Spec => []TenureBounded
<1>1. ChirpInv => TenureBounded
  <2> SUFFICES ASSUME ChirpInv PROVE TenureBounded OBVIOUS
  <2>1. TypeOK /\ HistTypes /\ RegistryInv BY DEF ChirpInv
  <2>2. ASSUME NEW a \in Addrs, InOrder(hist[a])
        PROVE  /\ registry[a].active_secs <= clock - registry[a].first_seen
               /\ hist[a] # <<>> =>
                    registry[a].active_secs <= (Len(hist[a]) - 1) * (GapCap - 1)
    <3> DEFINE h == hist[a]
               m == registry[a]
    <3>1. /\ h \in Seq(Entry) /\ m \in Miner /\ clock \in Nat
          /\ InOrder(h)
      BY <2>1, <2>2 DEF HistTypes, TypeOK, Times
    <3>2. m.active_secs \in Nat /\ m.first_seen \in Nat BY <3>1 DEF Miner
    <3>3. CASE m = Unknown
      <4>1. Unknown.active_secs = 0 /\ Unknown.first_seen = 0 BY DEF Unknown
      <4>2. m.active_secs = 0 /\ m.first_seen = 0 BY <3>3, <4>1
      <4>3. h # <<>> => 0 <= (Len(h) - 1) * (GapCap - 1)
        <5> SUFFICES ASSUME h # <<>> PROVE 0 <= (Len(h) - 1) * (GapCap - 1)
          OBVIOUS
        <5>1. Len(h) - 1 \in Nat /\ GapCap - 1 \in Nat BY <3>1, Numbers
        <5> QED BY <5>1
      <4> QED BY <3>1, <4>2, <4>3
    <3>4. CASE m # Unknown
      <4>1. Describes(m, h, clock)
        <5>1. g_inited BY <2>1, <3>4 DEF RegistryInv
        <5> QED BY <2>1, <5>1 DEF RegistryInv
      <4>2. TenureKept(m, h) /\ Past(h, clock) BY <4>1 DEF Describes
      <4>3. h # <<>> BY <3>4, <4>2 DEF TenureKept
      <4>4. /\ m.active_secs <= m.last_seen - m.first_seen
            /\ m.active_secs <= (Len(h) - 1) * (GapCap - 1)
            /\ m.last_seen = h[Len(h)].ts
        BY <3>1, <4>2, <4>3 DEF TenureKept
      <4>5. Len(h) \in 1..Len(h) BY <3>1, <4>3
      <4>6. m.last_seen <= clock BY <4>2, <4>4, <4>5 DEF Past
      <4>7. m.last_seen \in Nat BY <3>1 DEF Miner
      <4> QED BY <3>1, <3>2, <4>4, <4>6, <4>7
    <3> QED BY <3>3, <3>4
  <2> QED BY <2>1, <2>2 DEF TenureBounded
<1> QED BY <1>1, ChirpAlways, PTL

(* A draw counts every recorded share of the window, each once, and none that
   is older than the time it is for (window_work, chirp_load_locked): pruning,
   saving, restarting and loading neither lose nor repeat one.               *)
THEOREM DrawCountsWindowAlways == Spec => DrawCountsWindow
<1>1. ChirpInv /\ Fill => CountsWindow
  <2> SUFFICES ASSUME ChirpInv, Fill, NEW a \in Addrs, NEW ts \in Times
               PROVE  /\ power'[a][ts] <= Recorded(hist[a], ts)
                      /\ ts >= clock - Window => power'[a][ts] = Recorded(hist[a], ts)
                      /\ ts < cb.now - Window => power'[a][ts] = 0
    BY DEF CountsWindow
  <2>1. TypeOK /\ HistTypes /\ ClockInv /\ SaveInv /\ RegistryInv BY DEF ChirpInv
  <2>2. cb.now \in Times /\ cb.now <= clock /\ clock \in Times
    <3>1. cb.at = "fill" BY DEF Fill
    <3>2. cb # Idle BY <3>1 DEF Idle
    <3>3. cb \in [at : {"fill", "save"}, now : Times] BY <2>1, <3>2 DEF TypeOK
    <3> QED BY <2>1, <3>2, <3>3 DEF ClockInv, TypeOK
  <2> DEFINE m == Current(cb.now)[a]
  <2>3. m \in Miner /\ Describes(m, hist[a], clock)
    BY <2>1, <2>2, CurrentDescribes DEF SaveInv
  <2>4. power'[a] = Pruned(m, cb.now).shares BY DEF Fill
  <2> HIDE DEF m
  <2>5. hist[a] \in Seq(Entry) BY <2>1 DEF HistTypes
  <2>6. WorkKept(Pruned(m, cb.now), hist[a], clock)
    BY <2>2, <2>3, <2>5, PruneDescribes DEF Describes
  <2>7. ts < cb.now - Window => power'[a][ts] = 0
    BY <2>2, <2>3, <2>4, WindowDrops, PrunedMiner
  <2> QED BY <2>4, <2>6, <2>7 DEF WorkKept
<1>2. [Next]_vars /\ ~Fill => CountsWindow
  <2> SUFFICES ASSUME [Next]_vars, ~Fill PROVE cb.at # "fill" \/ cb'.at # "save"
    BY DEF CountsWindow
  <2>1. CASE UNCHANGED cb BY <2>1
  <2>2. CASE CallFill BY <2>2 DEF CallFill
  <2>3. CASE MaybeSave \/ Crash BY <2>3 DEF MaybeSave, Crash, Idle
  <2> QED
    BY <2>1, <2>2, <2>3 DEF Next, vars, Tick, CallRecord, Record
<1>3. ChirpInv /\ [Next]_vars => [CountsWindow]_vars BY <1>1, <1>2
<1> QED BY <1>3, ChirpAlways, PTL DEF Spec, DrawCountsWindow
=============================================================================
