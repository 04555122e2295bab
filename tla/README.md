# A TLA+ model of the CHIRP DATUM gateway

The repository is a mining gateway in C. It takes block templates from a
Bitcoin-like node, turns them into stratum jobs (BLAKE2b header version 2
among them), hands the jobs to miners over TCP, checks the shares that come
back, forwards them to a pool (DATUM Prime) or keeps its own record of the
miners (CHIRP), and submits the blocks it finds. It runs about a dozen threads
that share jobs, queues and flags, many of them without a lock.

Paths below are relative to the repository. `PROJECT.json` maps every
definition to the lines it models.

## Inventory

| component | state | operations | hard parts |
|---|---|---|---|
| share queue `datum_queue.c` | two buffers, the index of the active one, versions, three read-write locks | add (stratum threads), process (pool session) | the buffer is chosen under one lock and written under another, swaps in between |
| block submission `datum_submitblock.c`, `assembleBlockAndSubmit` | a one-place slot, one condition variable, a request buffer per stratum thread | trigger, submit with retries to all nodes, `preciousblock`, own call | missed wakeups, retries, a buffer that is rewritten |
| work distribution `datum_stratum.c`, `datum_coinbaser.c`, `datum_blocktemplates.c` | global jobs, statistics of the empty work, per thread current job and hand-out | publish, switch, blast empty or full work, slow hand-out, subscribe, quick difficulty change, coinbaser | the coinbaser rewrites published jobs; a barrier over threads; timeouts |
| block templates `datum_blocktemplates.c` | ring of 32 templates, notification flags, retries | fetch, parse, publish, wait, notify from five sources | notifications race the answers of the node; retries use up the ring |
| duplicate table `datum_stratum_dupes.c` | array of shares with chains through it | check and insert, clean up, grow, relink | pointers across a sort, limits of the cleanup |
| CHIRP registry `datum_chirp.c`, `datum_chirp_glue.c` | per miner first and last share, tenure, shares of the window; a file | record, draw, prune, save, load | clock read before the lock, crashes between saves |
| coinbase transactions `datum_coinbaser.c` | six transactions of a job in two halves each, the subsidy-only one | choose outputs that fit, declare their number, write them; the transaction of a single miner | two passes that must agree; limits of the template; the pool connection changes in between |
| CHIRP payout `datum_chirp.c`, `datum_chirp_glue.c` | | draw winners, split the reward, commit to a snapshot | rounding, byte budget |
| pool session `datum_protocol.c` | session state, keys and nonces, send buffer, numbered jobs with what the pool has of them | connect, hello, configure, send shares, answer validation requests, time out, end | threads of two sessions at once; a stream whose keys advance with every message; numbers that go round while shares wait |
| coinbaser requests `datum_protocol.c` | one response buffer, a mutex and a condition variable | fetch, answer, time out | a second sender into the same stream, late answers |
| carousel `datum_blocktemplates.c` | set of suppliers, position in the cycle | choose, skip, apply | the set changes during a cycle |
| share submission, difficulty `datum_stratum.c`, `datum_pow.c` | difficulty per client and job, one for quick changes, address of the miner | subscribe, authorize, notify, check a share, count it, raise or lower the difficulty | shares are judged by tables that later work has overwritten; order of the checks |
| socket thread pool `datum_sockets.c` | threads, client slots, buffers | accept, assign, read lines, write, kill | slots reused while a thread looks at them |
| gateway main loop `datum_gateway.c` | retries, rejection of miners, panic | start threads, restart the session, turn miners away | tests a plain variable that the session threads write |
| web interface, configuration, logger, JSON-RPC, utilities, third-party code | | | pages, tables, formatting |

Interactions: the template thread publishes jobs, the coinbaser thread
completes them, the stratum threads read them and send them out. Stratum
threads feed the duplicate table (one per thread), the CHIRP registry (under
one mutex), the share queue (drained by the pool session) and, for a block,
the submit thread; a block of our own also notifies the template thread.

What makes each part correct: an accepted share is handled once and in order
(queue); a found block reaches every node and nobody sleeps on it
(submission); miners never stay on stale or empty work, and what they work on
is what their shares are checked against (distribution); a new block that was
announced is fetched, and a template lives as long as shares for it are taken
(templates); a share is accepted once (duplicates); what a miner receives as two
halves is a transaction that pays the coinbase value, no more and no less, and
fits into the block (coinbase); a draw sees the work of
the window exactly once, across restarts (registry); there is one session with
the pool at a time, its keys stay in step, and a lost one is replaced (session);
the pool reads a share with the parts of the job it was found for (pool shares);
a share is measured by the difficulty its work was announced with, and a block
is tried whatever else is wrong with it (submission of shares).

## Modules

| module | models |
|---|---|
| `FifoQueue` | abstract bounded queue: items are delivered once, in order |
| `ShareQueue`, `MCShareQueue`, `ShareQueueProofs` | `datum_queue.c` |
| `SubmitBlock`, `MCSubmitBlock`, `NodeProofs` | `datum_submitblock.c` and `assembleBlockAndSubmit` |
| `JobPipeline`, `MCJobPipeline`, `JobPipelineProofs` | how work reaches the miners: template, coinbaser and stratum threads together |
| `TemplateRing`, `MCTemplateRing`, `NodeProofs` | the template thread, its notifications and the ring |
| `DupeTable`, `MCDupeTable`, `ShareProofs` | `datum_stratum_dupes.c` |
| `CoinbaseTx`, `MCCoinbaseTx`, `CoinbaseTxProofs` | the generation transactions of a job, `datum_coinbaser.c` |
| `ChirpRegistry`, `MCChirpRegistry`, `ChirpRegistryProofs` | recording, window, tenure and persistence of CHIRP |
| `PoolSession`, `MCPoolSession`, `PoolSessionProofs` | the threads of the pool session, the stream they share with the coinbaser, and the main loop that restarts them |
| `PoolShares`, `MCPoolShares`, `PoolSharesProofs` | numbered jobs, the shares sent to the pool and its validation requests |
| `ShareSubmission`, `MCShareSubmission`, `ShareProofs` | the stratum requests of a client: the work it is sent and the shares it sends back |

`NodeProofs` and `ShareProofs` extend two components each, whose state and
constants have nothing in common; that is why `Init`, `Next`, `Spec`, `vars` and
`TypeOK` of `TemplateRing` begin with `Ring` and those of `ShareSubmission` with
`Client` (`ringVars`, `clientVars`).

**ShareQueue.** Every lock is a variable; `ReadActive`, `LockBuffer`,
`RetryAdd`, `GiveUp`, `RefuseItem`, `StoreItem` are the steps of
`datum_queue_add_item`, and `Peek`, `LockActive`, `LockDraining`, `Swap`,
`HandleItem`, `FinishDrain` those of `datum_queue_process`. The versions are
numbers without overflow. The race loop has `MaxAttempts` rounds, as the code
has. `FifoQueue` is instantiated with the buffers as its pending items.

**SubmitBlock.** The mutex is held by the submit thread from `TakeBlock` to
`FinishBlock`; all other critical sections are one step. The condition variable
is the set of waiting threads; `Signal` wakes any one of them, `WakeAll` all. A
node answers `accepted`, `rejected`, something unusable or nothing. The own call
of the stratum thread (`CallNode`) only writes a line of the log, whatever comes
of it; `claims` are the blocks that the submit thread logs as submitted.
`overwritten` remembers the blocks that were in the slot when their thread began
to write its next request into the same buffer. The slot is shown to be a
`FifoQueue` of capacity one.

**JobPipeline.** The template thread goes through `InvalidateWork`,
`PublishEmpty`, `PublishPriority` and `PublishNormal`; the second half of
`update_stratum_job` is a step of its own because the stratum threads see the
statistics reset before the job appears. The coinbaser thread writes index and
commitment in two steps, and a notify reads them in two. The five seconds
after which a job is sent without its coinbaser are the flag `old`, set by
`JobAges` at any time. A stratum thread's loop is cut where another thread can
see a difference: switching, deciding what to serve, each client of a blast,
counting the empty work. Jobs are never reused; the stratum thread's command
handlers are `Subscribe`, `QuickDiff` and `Disconnect`. A thread runs from
`CreateThread` on and is counted later (`CountThread`); `Started` are those that
were there and counted before. `barrier` remembers of the last passing of the
barrier for which job it was, which threads were counted then, and which threads
had reported without being counted (`early`). `pace` is the slow
hand-out: its count, the last slot, who was subscribed before it began; `fresh`
marks its first round, and `joined` remembers that a client subscribed in it.

**TemplateRing.** `Fetch` to the answer, then one action per branch of
`datum_gateway_template_thread`, then the wait loop with its three endings.
Time is counted in full waits. `told` remembers the last announced block.

**DupeTable.** Pointers are positions. `AddNewDupe` includes the cleanup of a
full array, and `Insert` what the caller does with the pointer afterwards. A
chain is the set of positions of its items, which `Before` puts in the order of
the links: by nonce, and equal nonces in the order in which the code inserts
them. `SortByAge` gives every item the place that the number of items before it
says (`Rank`); items of one job keep their order, on which nothing depends.

**CoinbaseTx.** `GenerateBase` is what every job starts with, `FetchOutputs` the
coinbaser thread's call of the pool, `GenerateEmpty` the first half of
`generate_coinbase_txns_for_stratum_job`; then `Fit`, `CountOutput`, `Declare`,
`WriteOutput` and `Finish` go through the five payout types, one output a step,
and `BuildUserCoinbase` makes the transaction of a single miner. A half is a
sequence of fields with their lengths in bytes, as the code adds them up;
`WellFormed` reads the two halves with the extranonce between them as a node
would. The connection to the pool may change between the two places that ask
for it. The lists of outputs are whatever the pool or the CHIRP split names.

**ChirpRegistry.** Every caller reads the clock in one step and takes the lock
in the next. A save replaces the file by a rename, hence one step; it may
fail. `Crash` loses the memory and keeps the file. All shares have the same
work, and only sums of work are ever formed, so the shares of a miner are kept
as how many there are of each second; what a draw has seen is kept the same way.

**PoolSession.** A thread of `datum_protocol_client` goes through `Start`,
`Connect`, then rounds of `Submits`, `Flush`, `Hello` or `Switch` and a poll
(`Receive`, `PollNothing`, `PollFails`); `Close` and `Free` are two steps,
because the main loop may start the next thread between them. Of keys and
nonces only the number of messages since the hello is kept, everything older is
`Stale`. The session thread sends a message in one step, since it is the thread
that would reset the keys; the coinbaser's message takes four (`FetchBox` to
`FetchBody`), since a starting session resets the keys without its lock. The
pool (external) reads the stream part by part and gives up at the first part it
cannot decipher. Time is left out: a timeout may strike whenever the code looks
at the clock. The configuration is that of pooled mining only. Of the messages
from the pool those that change this state are kept.

**PoolShares.** `slots` is `datum_jobs`. `BuildMessage` and `FinishMessage` are
the two halves of `datum_protocol_pow_build_message`, under the read and the
write lock. `server` is what the pool has under each number when it reads the
next message. A SHA256d share does not name its job and is described by the job
that has its number when it is sent, a BLAKE2b share names it. The session is
reduced to three phases (`PoolSession` has the rest). A message is refused by a
full buffer at any time, and the stream is broken from then on. `list` is
`stratum_job_list`: a job has a number and a place, both in turn, and a place is
cleared and filled again by a later job of the same number. The code knows a job
by the address of its place only (`NewToServer`, `Registered`), and whatever it
reads through an address is of the job that is there then. `ShareResolves` and
`FlagsHonest` therefore speak of addresses, and of jobs as long as these are in
their places (`InPlace`).

**ShareSubmission.** One client. `works` remembers what it was told; `m` is
`T_DATUM_MINER_DATA`. Whether there were too many or too few shares is left
open, so `Vardiff` offers every step the code may take; difficulties are powers
of two, as the configuration demands. `Notify` is `send_mining_notify` with
everything it does to the tables. A hash is the difficulty it proves for the
header the miner hashed, and proves nothing for another header; the header is
built again from the job, the miner and the tables as they are at the time of
the share (`SameHeader`). The coinbaser makes the coinbases of a published job
once more (`Coinbased`), at any moment, and those in `changed` are different
afterwards: of SHA256d work the plain or the subsidy-only one, of BLAKE2b work
the one all miners share or that of a single miner. Work remembers whether its
coinbase was a changed one. `Standing` work is work that no later work took the
place of in the tables, whose miner has kept its address and whose coinbase is
still the same. `Outcome` is what `client_mining_submit` makes of a share, in
the order of its checks. The properties look, in every state, at every share
the client could send then. When the thread takes up a job is left open
(`SwitchJob`; `JobPipeline` has that part).

## Runs

| run | asks |
|---|---|
| `queue` | two producers, buffers of two, three items: `QueueInv` (the invariant of the proofs), order, no loss, writes only to the active buffer, refinement of `FifoQueue`, and that every add returns |
| `submit` | three threads and three blocks, up to two of them of one thread, one extra node: slot and wakeups consistent, every node is sent every block that is not overwritten, success only after an answer, refinement of `FifoQueue`, every block is served |
| `job_pipeline` | a thread with a client, a second thread that is created and counted meanwhile, two blocks: full work agrees with its job for good; full work of an empty-plus job only after the empty work of everyone counted |
| `job_live` | one thread, a client that comes and goes, two blocks and a normal update: stale work is replaced, even if the coinbaser never answers, and the slow hand-out reaches everyone |
| `job_empty_live` | a second thread joins at any moment: empty work is always followed by full work |
| `template_notify` | all sources of notifications against all branches: no notification is lost, and the last templates of the ring are kept |
| `dupes` | three jobs, three nonces in two chains, a table of four: chains stay complete and fresh shares are accepted once |
| `coinbase` | twenty kinds of jobs, all lists of up to four outputs: the halves form transactions, no money is lost, payouts are those offered and in order, the half of the special type stays short, the block stays within the template's limits |
| `chirp_registry` | two recording threads, a draw, saves that may fail, a restart: a draw counts the window once, what is lost is recent, the tenure is bounded |
| `pool_shares` | five jobs over two numbers and four places, three shares, two sessions: shares are read with the parts of their own job unless one job overwrote the other, the flags are honest, answers are not outdated |
| `pool_session` | two session threads, the coinbaser, a pool that is slow or malformed: one session at a time, configured in this session, keys in step, loss of the pool handled |
| `share_submission` | SHA256d and BLAKE2b jobs, of the pool or not, coinbases made again meanwhile, two pieces of work: on standing work measured as announced and blocks tried; minima kept |

### Bounds

`queue`: three items through buffers of two give two swaps and a full buffer;
the versions distinguish a double swap. The theorems have no bound. `submit`:
with three threads two wait for the slot while the submit thread sleeps or
sends, which is the case in which a signal can go astray; a thread may find a
second block while its first is in the slot, which overwrites it.
`job_pipeline`: two blocks give one round of the empty protocol with work of the
previous block still out; the second thread is created at any moment, so the
block may change before, between and after its creation and its counting, and it
may report before it is counted. One client is enough: threads meet only in the
jobs and in the statistics of the empty work. A report that is late by two
blocks needs a third one, which is beyond the run; the theorem covers it.
`job_live`: two blocks and one normal update, the second block may come in the
middle of the slow hand-out; one client, since two are too many states for a
liveness property. That clients do not take each other's turns is
`HandOutCompleteAlways`, for any number of slots. `job_empty_live`: an urgent
update stands for a new block, with the same height, which is the harder case
for the thread's decision to wait. `template_notify`: retries cut to one, a ring
of three, every kind of notification once, two blocks; the theorem removes the
bounds. `dupes`: six acceptances fill the table of four, prune or grow it and
fill it again; `Accept` is disabled once a chain has been set to a wrong place
(`misplaced`). `coinbase`: lengths are real; the templates leave exactly the
fixed part, or room for one or two outputs more, in weight or in size, so that
outputs are skipped, cut off and moved between the halves with four of them;
values use up the coinbase value, overshoot it or leave a rest.
`chirp_registry`: window three, gap limit three, saves every two seconds, five
seconds, three shares, one restart, one failed write; the two threads are
interchangeable (symmetry); the theorems remove the bounds. `pool_shares`: with
two numbers the third job takes over the first one's, while shares of both wait,
and with four places the fifth job has the number and the place of the first; a
second session starts with the flags of the first; the theorems remove the
bounds. `pool_session`: the buffer holds one message, so that the next is
refused whole or in half; two messages per session make a key that is not
advanced show; the second thread starts while the first clears up.
`share_submission`: two jobs and two pieces of work are the least in which one
overwrites the table entry of the other; with difficulties up to four there is
one quick change, and one accepted share leads to it. The coinbaser changes the
plain coinbase of SHA256d work and the shared one of BLAKE2b work, and leaves
the other two; it makes those of one job again, after work of that job was sent
(`OneLateCoinbaser`), and the pool raises its minimum only. The theorems have
none of these bounds. The place of a job is not given away in this instance: the
answer for it (`Gone`) is modelled and not reached. Deadlock is not checked
where the bounds end the behaviour.

### Fairness

`AddReturns` and `EveryBlockServed` need that threads that can run do run: weak
fairness of the producers and the consumer, of the submit thread and the
stratum threads; no item and no block has to appear. `StaleWorkReplaced` and
`EmptyWorkReplaced` need in addition that time passes (`JobAges`), and strong
fairness of a stratum thread's round, since the round is disabled while a
notify of a client command is being written; the code enters a round after
every pass over the clients. The coinbaser thread is *not* fair: it may wait
for a pool that never answers. `PoolLossHandled` needs that the session thread,
the main loop and the coinbaser's five seconds go on (weak fairness), and strong
fairness of the timeout of a session that is not configured: the code looks at
the clock in every round, and a pool that does not configure a session is taken
to fall silent. A pool that keeps sending pings without ever configuring would
hold such a session open for ever (`datum_protocol.c:1720`).

## What the model shows against the text

Found with the models, each as a counterexample to the property that the text
suggests. None of these properties is part of a run; the properties of the runs
say what does hold.

* `JobPipeline`: `docs/design/chirp-carousel.md:24` says that commitment, job id
  and submit path point at the same coinbase. `send_mining_notify` reads index
  and commitment of a published job without a lock while the coinbaser thread
  writes them, and clients notified before the coinbaser has finished hold work
  the job no longer describes; what becomes of their shares is in the items on
  `ShareSubmission`. What does hold is `FullWorkStaysValid`.
* `TemplateRing`: `datum_blocktemplates.h:53` promises 16 minutes of work. Two
  notifications that lead to no new block use up the 32 places within seconds,
  and a job that is still accepted loses its template. What does hold is
  `LastTemplatesKept`.
* `CoinbaseTx`: the 84 bytes by which header version 2 is longer are
  reserved in the comparison with `sizelimit` and forgotten in the one with
  `weightlimit` (`datum_coinbaser.c:344-354`). In a template full by weight with
  more payouts than fit, the block is up to 336 weight units too heavy. What
  does hold is `TemplateLimitsKept`.
* `ShareSubmission`: quick work is said to be made "unique", lest the miner be
  "forced to redo work" (`datum_stratum.c:1225-1227`). For BLAKE2b work it is not:
  the header is that of the plain work, and since the key of the duplicate table
  inverts the time of quick work (`:1461`) the same hash is counted twice. The
  version bits are in that key, too, but not in the BLAKE2b header.
* `ShareSubmission`: the coinbase of a single miner is said to be "siempre
  consistente con lo que minó el cliente" (`datum_stratum.c:1197`). The first work
  is sent by the subscription, before the authorization names the address, and
  the authorization sends no new work: shares of that first work are rebuilt
  with another coinbase and rejected. And the coinbaser makes the coinbases of a
  published job again (`datum_coinbaser.c:549-700`, for BLAKE2b index and
  commitment, `:797-798`), while the header of a share is built from them as they
  are when it arrives (`datum_stratum.c:1195`, `:1216-1223`, `:1332`): work sent
  before no longer hashes, and a block found on it is not tried, against "even if
  it's stale or something we're going to try it" (`:1375-1377`). What does hold is
  stated for `Standing` work.
* `PoolSession`: `docs/UPSTREAM-README.md:284` has the gateway turn its miners
  away when the pool cannot be reached. An error that `connect` reports at once
  closes the socket, and the inner loop calls `connect` with socket -1 for ever
  (`datum_protocol.c:1660-1665`); `active` stays 1 and the main loop starts no
  other thread, counts no retry and turns nobody away. What does hold is
  `PoolLossHandled`.

Noticed on the same models, and kept out of the properties by a condition or a
bound:

* `submit`: a thread that finds a second block rewrites the buffer the submit
  thread still retries from (`datum_stratum.c:2545`); nodes may then get half a
  request, or the second block in place of the first, which is logged as
  submitted. `SentEverywhere` and `SubmitterClaims` speak of the blocks that are
  not `overwritten`; both fail without that condition.
* `job_pipeline`: a thread runs before it is counted (`datum_sockets.c:439-443`).
  When it reports empty work first, it stands in for a counted thread, and full
  work goes out although that one has not sent its empty work: `EmptyBeforeFull`
  does not speak of a barrier that was passed after such a report (`early`), and
  fails without that condition.
* `pool_shares`: `server_sjob` is kept when its number goes to another job
  (`datum_protocol.c:145-147`), and compared by address (`:1423`, `:1517`), while
  the 256 places are used again in turn (`datum_stratum.c:2321-2326`); 256 is a
  multiple of the eight numbers. When, after 256 jobs without a share under this
  number in the same session, a share comes for the job that is now at the
  remembered address, its branches and coinbase count as known and are not sent:
  the pool reads it with those of the old job. `ShareResolves` and `FlagsHonest`
  speak of jobs that are in their places (`InPlace`) and fail without that
  condition. A new session clears the flags and ends this.
* `dupes`: `datum_stratum_check_for_dupe` sets the head of a chain to the place
  where the share was stored before the cleanup moved it
  (`datum_stratum_dupes.c:301`); a share can then be accepted twice. The property
  speaks of tables in which that has not happened, and the model accepts no
  share behind one.
* `coinbase`: with an input of more than 85 bytes (long tags) coinb1 of the
  empty transaction already contains the sequence number, the output count and
  the extranonce output; `datum_blake2b_build_user_coinbase` appends a second
  sequence number and count, and the miner's own transaction is not one.
  `HalvesFormTx` is limited to shorter inputs there.
* `coinbase`: the fixed part is reserved with 119 bytes (the comment above adds
  up 123), and takes 122: the witness output has 47 bytes. Type 1 may have 503
  bytes instead of 500, and with more than 252 transactions in the template,
  whose count takes three bytes, a block may be one byte over the limit.
  `TemplateLimitsKept` is stated for a count of one byte.
* `coinbase`: when the secondary tag is removed beside a headline, the announced
  length shrinks by one only (`datum_coinbaser.c:126-128`), and the process
  panics although the primary tag alone would fit (headline of 70 bytes and
  default tags).
* `job_live` with two slots: a client that subscribes in the round in which the
  hand-out starts has the subscription time that the comparison at
  `datum_stratum.c:632` lets in, but was not counted. It takes the turn of
  another one, who stays with the work it had until the next job:
  `HandOutComplete` without the field `joined` of `pace` fails. If the work it
  had is of the last block, `StaleWorkReplaced` fails for the same reason, so it
  makes the same exception.
* `dupes`: shares of jobs between `share_stale_seconds` and
  `share_stale_seconds + work_update_seconds` are forgotten by the cleanup and
  still accepted; `repeated` is then not empty.
* `chirp_registry`: two threads that record shares of one address in the other
  order than they read the clock count an interval twice; `TenureBounded`
  speaks of shares recorded in order.
* `pool_session`: `active` is reset before the queue is freed
  (`datum_protocol.c:1970-1971`), so the old thread may free the queue that the
  next session has just prepared; shares are dropped until the session after.
* `pool_session`: the coinbaser tests the session once (`:352`); a message it
  enciphers for one session may reach the buffer of the next. Nobody looks at
  the result of a send, so a refused header or body, too, leaves the pool unable
  to read on. Shares that are queued before the handshake are enciphered with
  keys the pool does not have, since the queue is drained in every state
  (`:1739`). All three are `fault` in `PoolUnderstands`.
* `pool_session`: a malformed configuration is taken over up to the field where
  it ends (`:404-431`), while the session stays unconfigured.
* `pool_shares`: a SHA256d share whose number was given away is described with
  the younger job; the pool then cannot verify it. `ShareResolves` says this in
  its last line.
* `share_submission`: the same job sent again with another difficulty (empty and
  then full work, or the slow hand-out) overwrites the table. For SHA256d the
  difficulty is part of the coinbase, so honest shares on their way, blocks
  included, no longer hash. `InForce` excludes such work.
* `share_submission`: whether a job is the pool's is decided anew when the
  coinbaser is done (`datum_coinbaser.c:554-561`). A job that becomes the pool's
  then has work out below the minimum of the pool, and its job number was never
  set up (`datum_stratum.c:2434`). `PoolMinimumKept` speaks of work that was
  sent for the pool.
* `pool_session`: the pool may configure a session again at any time
  (`datum_protocol.c:393-394`); the pool of the model does so until the first
  complete configuration only, so a second one that is taken over in part is not
  covered by `ConfiguredHere`.

## Proofs

`tlapm` checks every proof; no theorem is assumed.

* `ShareQueueProofs`: `QueueInv` is inductive: lock ownership, the points
  at which producer and consumer hold which lock, the versions (a buffer's
  version changes whenever it starts to be drained, so that a producer whose
  version is current knows the buffer is active), and the equation "accepted =
  handled, then the drained rest, then the active buffer". From it follow
  `HandledInOrder`, `NothingLost` and `WritersUseActive`, for every number of
  producers and every capacity. `QueueIsFifo` is the refinement: with the
  drained rest and the active buffer as the pending items, `StoreItem` adds one
  to the abstract queue, `HandleItem` delivers the first, and no other step
  changes it. Assumptions: `QueueAssumption`.
* `NodeProofs`, on `SubmitBlock`: `SubmitInv` = types, `SlotInv`, `WorkerInv` and
  `NoMissedWakeup`. The wakeup alone is not inductive: that a worker sleeps only
  on its way into the slot, and that the slot stays filled while the block is
  sent, are needed to see that a signal meant for the submit thread cannot be
  swallowed by a worker. `SlotIsMailbox` shows every step to be one of a queue
  of capacity one. `SentEverywhere` and `SubmitterClaims` are proved for any
  number of blocks of a thread: `RequestInv` says that the buffer behind a filled
  slot holds the block the slot names until that block is `overwritten`, `SentInv`
  that until then the nodes before the present one have it.
  Assumptions: `SubmitAssumption`.
* `NodeProofs`, on `TemplateRing`: `NotificationServed` under `MaxErrors <=
  MaxRetries`. The strengthening bounds the retries used for a pending
  notification by the number of templates that could not be parsed; without the
  hypothesis the retries can run out on bad templates and the notification is
  lost until the next full wait. `LastTemplatesKept` needs no hypothesis:
  `RingInv` says how far the write position is ahead of the place of a job, by
  the number of templates parsed since (`AheadOf`). Assumptions:
  `RingAssumption`.
* `PoolSharesProofs`: `SharesInv` is inductive. The flags of a slot mean
  something only together with `server_sjob`, and for a message between its two
  locks only because nobody else changes them: the invariant records what the
  message decided on under the read lock (`BuildOK`). In the greeting the flags
  are honest because they are empty or the stream is broken (`PoolOK` covers
  both phases). An address says only where a job was made, so the invariant says
  of every part the pool has that its job was made at the address in question and
  is not younger than the one that is there now (`Part`); if the job of the
  branches is still in its place, no other has been there since, and the coinbases
  are its own. That numbers and places go round in step, because the number of
  places is a multiple of the number of numbers (`SameNumber`), is used in
  `NumbersOK`: the job at the address kept under a number has that number
  (`Holds`), and is at least as young as every job that is on its way under it
  (`Newest`). From it follow `ShareResolves`, `FlagsHonest` and
  `AnswerNotOutdated`, for every number of jobs, numbers, places, shares and
  sessions.
  Assumptions: `SharesAssumption`.
* `PoolSessionProofs`: for any number of threads, of messages and any buffer.
  `OneThread` says that no two threads have a session in hand and that `active`
  tells whether one has; it is what makes the plain variable a lock, and gives
  `OneSession`. With `SessionInv`, a session is ready only with all fields, hence
  `ConfiguredHere`. `PoolUnderstands` is proved by counting: every part of the
  stream has a place that follows from the key it was enciphered with, and what
  the pool has read, what the buffer holds and what the coinbaser thread has in
  hand are consecutive (`PhasesInv`), until `fault` is set. Assumptions:
  `SessionAssumption`; thread 1 is the one the gateway starts with.
* `ShareProofs`, on `ShareSubmission`: `SubmissionInv` relates what the client
  was told (`MinerInv`), the work it holds (`WorkInv`) and the tables
  (`TablesInv`): as long as a piece of work is in force and its job not gone,
  the table has the difficulty it was announced with. Of what the coinbaser
  changes nothing is assumed but what `MayChange` says; that a header is the one
  the miner hashed follows for `Standing` work. The lemma behind it is
  `PlacesApart`: two jobs that share a place are a whole round of places apart.
  From it follow `JudgedAsAnnounced`, `BlockTried` and `PoolMinimumKept`, for
  any number of jobs, places and difficulties. `QuickChange` picks the power of
  two that the code reaches by doubling. Assumptions: `SubmissionAssumption`.
* `ShareProofs`, on `DupeTable`: `IInv` says that an older job is never fresher
  (`AgesFall`) and, until a chain is set to a wrong place, that every item is a
  share (`Filled`), every chain begins with its first item and every link leads to
  the next one (`Linked`), and every accepted share of a fresh job is an item
  (`Remembered`). The last one is what makes a second acceptance impossible, and
  it needs the other three. A walk visits every item of the chain before it goes
  past it (`Visits`), and ends, since it never comes twice to one item; so it finds
  the share if it is there, and otherwise stops in the gap where it belongs
  (`Gap`), and an item put into that gap keeps the chain whole (`PutInChains`).
  Sorting moves every item and loses none, because ranks are all different and as
  many as there are places; the jobs then fall, so that with `AgesFall`
  everything fresh is in front of the first stale item, which is all that is cut
  off (`FirstStale`, `Kept`). The chains linked anew are whole, because a finite set
  of items has a first one (`Reorganize`). From it follow `ChainsComplete` and
  `AcceptedOnceUnlessMisplaced`, for any number of jobs, nonces, chains and
  acceptances and any size of the table. Assumptions: `TableAssumption`; that the
  table begins with four places or more makes every growth add at least one.
* `JobPipelineProofs`: `PipelineInv` says what may not change under a thread:
  full work is read only of a job whose coinbaser is done (`ReadyInv`), and the
  coinbaser thread writes only a job that is not done (`CoinbaserInv`).
  `FullWorkStaysValid` follows for any number of threads, clients and blocks.
  `EmptyBeforeFull` needs `CountInv`, that until the barrier is passed the
  counter is the number of threads that have reported empty work of the job in
  the statistics, and `ActiveInv`, that the number it is compared with is that
  of the threads counted; when nobody has reported early, reaching it means that
  all of them have (`AllHaveReported`). `BarrierInv` keeps what was so when the
  barrier was passed. Threads may be created at any moment. `HandOutComplete`
  has an invariant of its own, `HandOutInv`: a subscriber has the job of the
  thread, or it is pending (in the list of a blast, a candidate of the hand-out,
  or the one being written), and the count is enough for all candidates
  (`HandInv`); a hand-out belongs to the job that is served (`PaceInv`).
  Candidates are taken in the order of slots, so a turn removes one candidate
  and takes one off the count; who disconnects or subscribes anew leaves the
  candidates without a turn, which leaves the count too high and never too low.
  `TallyInv` and `ActiveInv` also bound the counters for the types. Assumptions:
  `PipelineAssumption`.
* `ChirpRegistryProofs`: three layers. Every clock reading still in use was
  taken between the last coinbase and now (`ClockInv`). The last save lags the
  last coinbase by less than `SaveEvery + JobEvery`, and what is not in the file
  was recorded after it (`SaveInv`). The memory describes what was recorded, and
  the file what had been recorded when it was written (`RegistryInv`); a crash
  replaces the first by the second. From these follow `PersistedSoon`,
  `TenureBounded` and `DrawCountsWindow` for any number of threads, addresses,
  shares, restarts and any window. The bound of `PersistedSoon` has two
  `JobEvery` because a save that is just not due waits for the next coinbase,
  and whether it is due is decided by a time read when the coinbase was begun.
  Assumptions: `RegistryAssumption`.

* `CoinbaseTxProofs`: all five properties of `CoinbaseTx`, for every job and
  every list of outputs of any length. A module of its own length, since the
  sums have to be built first. `Total` is a recursive function; that it exists
  is shown by the least number for which it would not (`TotalIsLast`), and from
  it follow the sum of a joined sequence and the count of outputs as a
  cardinality. The centre is `Walk`: the loop variables `tr[0], tr[1], ...` of a
  pass over the outputs, each one `Counted` from the one before, up to the first
  output after which the loop stops (`Stops`). The invariant `IInv` says in the
  first pass that the loop variables are the end of such a walk (`InFirstPass`).
  In the second pass it keeps the whole walk of the first one: the pass has come
  to its `k`-th place with the same room and the same money (`Follows`), the
  outputs it has written are the chosen ones up to there, in two increasing
  lists of indices of which every one of coinb1 is below every one of coinb2
  (`Written`), and the halves are these fields behind their head (`Form`). The
  announced number of outputs is that of the end of the walk, so the two passes
  agree when the second one gets there (`ClosedIs`). A finished type is
  `Complete`, which says everything the properties need of it without reference
  to the passes: its shape, the outputs, the money, the bytes. `Others` and
  `Generated` carry the finished types, the empty transaction and the miner's
  own one. That an output takes at least eleven bytes bounds the number of
  outputs by the space (`Point`), hence the bytes of the count; that the shape
  of the halves makes `WellFormed` true is `ShapeWellFormed`. `IInv` is not the
  invariant of a run: it begins with a choice of a walk, which TLC would have to
  enumerate. Assumptions: `JobsAssumption`, `ResponsesAssumption`.

Only model-checked, and why:

* all liveness properties, and with them the liveness halves of
  `ImplementsFifo` and `ImplementsMailbox`: out of the prover's reach.

Every safety property of the runs is a theorem.

## Not modelled

* The array of the duplicate table may move when it grows; the model keeps it
  in place, so what it shows about stale pointers is the milder half.
* The reuse of the 256 job places in `JobPipeline` (it is in `PoolShares`, and in
  `ShareSubmission` as the answer for it), and of client slots. A job made while
  the pool is not connected takes a place and no number (and uses number 0 if the
  coinbaser makes it the pool's later); `PoolShares` has jobs made for the pool
  only, so that numbers and places stay in step.
* That the coinbaser writes a job piece by piece in `ShareSubmission`, where it is
  one step; a commitment read in the middle is `JobPipeline`'s.
* The scratch list of the merkle branches (`datum_stratum.c:2107-2215`): a count
  near its 16384 entries is a matter of array bounds and not of states.
* The tallies of `datum_protocol_share_response`: sums that nothing decides on.
* The carousel of suppliers, the CHIRP draw, and the buffers of the socket thread
  pool.
* Hashes, cryptography, JSON, address and script encodings; the web pages, the
  configuration and the logger.
* `datum_submitblock_waitfree`.

## What is left

1. `ChirpPayout`: draw and split on top of the registry: nothing is paid twice,
   the rest goes to the pool, the byte budget holds.
2. The carousel and the socket thread pool.
