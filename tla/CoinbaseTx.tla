----------------------------- MODULE CoinbaseTx -----------------------------
(***************************************************************************)
(* How the gateway builds the generation transactions of one stratum job   *)
(* (datum_coinbaser.c): the coinbase input, the empty and the subsidy-only  *)
(* transaction, the five payout transactions of bounded size, and the      *)
(* transaction of a single miner.                                          *)
(*                                                                         *)
(* A miner receives a transaction as two halves, coinb1 and coinb2, and    *)
(* puts the extranonce between them.  A half is a sequence of fields; of a *)
(* field the model keeps what kind it is, how many bytes it takes and its   *)
(* number (the amount of an output, the announced number of outputs).       *)
(* Lengths are the bytes of the code.  Amounts of money are below 2^51, so  *)
(* no sum of at most 512 of them wraps around in 64 bits.                   *)
(***************************************************************************)
EXTENDS Integers, Sequences, FiniteSets

CONSTANTS
  Jobs,       \* the jobs: template, tags, pool script, amounts (see JobType)
  Responses   \* the lists of outputs the pool, or the CHIRP split, may name

VARIABLES
  job,        \* what the job was created from; does not change
  pc,         \* where the generation is
  active,     \* datum_protocol_is_active(): a pool connection is up
  outs,       \* available_coinbase_outputs
  input,      \* cb_input_sz
  coinbase,   \* coinbase[0..5], the halves as fields
  subsidy,    \* subsidy_only_coinbase
  user,       \* the last transaction built for a single miner
  type,       \* the payout type being generated
  scan,       \* the loop variables of the two passes over outs
  index       \* blake2b_coinbase_index

vars == <<job, pc, active, outs, input, coinbase, subsidy, user, type, scan,
          index>>

(* value: coinbase_value; reward: block_reward(height); pool: length of the
   pool's script; primary, pooltag, secondary: lengths of the configured and of
   the pool's primary tag and of the secondary tag; prime: a pool has set
   prime_id; headline: length of the activation headline; header:
   header_version; free: weight and bytes the transactions of the template
   leave under its limits; new: the job is for a new block; need: it waits for
   a coinbaser; chirp: blake2b_chirp; supplier: length of the supplier's
   script, 0 without a template supplier.                                  *)
JobType ==
  [value : Nat, reward : Nat, pool : 2..64, primary : 0..60,
   pooltag : 0..255, secondary : 0..95, prime : BOOLEAN, headline : 0..100, header : {0, 2},
   free : [weight : Int, size : Int], new : BOOLEAN, need : BOOLEAN,
   chirp : BOOLEAN, supplier : 0..64]

ASSUME JobsAssumption == Jobs \subseteq JobType

(* The length of a script is one byte; the parser stops after 512 outputs. *)
ASSUME ResponsesAssumption ==
  /\ Responses \subseteq Seq([len : 0..255, value : Nat])
  /\ \A r \in Responses : Len(r) <= 512

-----------------------------------------------------------------------------
(* Fields *)

Field(kind, bytes, n) == [kind |-> kind, bytes |-> bytes, n |-> n]

CbStart(len) == Field("input", 42 + len, 0)     \* cbstart, length and input
EnPush == Field("push", 3, 0)                   \* 0E and the prefix
SequenceNo == Field("sequence", 4, 0)
Count(n) == Field("count", IF n < 253 THEN 1 ELSE 3, n)
Output(len, value) == Field("out", len + 9, value)
EnOutput == Field("enout", 13, 0)               \* OP_RETURN up to its prefix
Witness == Output(38, 0)
DeadOutput == Output(3, 0)
LockTime == Field("lock", 4, 0)

Unbuilt == [c1 |-> <<>>, c2 |-> <<>>]

(* The sum of a sequence of integers. *)
Total(a) ==
  LET sum[i \in 0..Len(a)] == IF i = 0 THEN 0 ELSE sum[i - 1] + a[i]
  IN sum[Len(a)]

SumBytes(s) == Total([i \in DOMAIN s |-> s[i].bytes])

(* The transaction without its witness, the twelve extranonce bytes in. *)
TxBytes(tx) == SumBytes(tx.c1) + 12 + SumBytes(tx.c2)

-----------------------------------------------------------------------------
(* The coinbase input *)

MaxTagSpace == 86

(* The space left for the tags beside the headline. *)
TagSpace ==
  LET headline == IF job.header >= 2 THEN job.headline ELSE 0
  IN IF headline = 0 THEN MaxTagSpace
     ELSE IF headline + 2 > MaxTagSpace THEN 0
     ELSE MaxTagSpace - (headline + 2)

(* push: the length announced for the tags; second: what is left of the
   secondary tag.  A removed tag takes one byte off the length, whatever its
   length was.                                                             *)
Tags(t0, t1, space) ==
  LET all == t0 + (IF t0 + t1 > 0 THEN 1 ELSE 0)
                + t1 + (IF t1 > 0 THEN 1 ELSE 0)
      excess == all - space
  IN IF excess <= 0 THEN [push |-> all, second |-> t1]
     ELSE IF t1 > excess THEN [push |-> space, second |-> t1 - excess]
     ELSE IF t1 > 0 THEN [push |-> all - 1, second |-> 0]
     ELSE [push |-> all, second |-> 0]

TagBytes(t0, t1) ==
  (IF t0 > 0 THEN t0 + 1 ELSE IF t1 > 0 THEN 1 ELSE 0)
    + (IF t1 > 0 THEN t1 + 1 ELSE 0)

PushBytes(n) == IF n <= 75 THEN n + 1 ELSE n + 2

Primary == IF active THEN job.pooltag ELSE job.primary

(* generate_coinbase_input: the tags do not fit at all, or the length. *)
TagsPanic == Tags(Primary, job.secondary, TagSpace).push > TagSpace

InputBytes ==
  LET headline == IF job.header >= 2 THEN job.headline ELSE 0
      tags == Tags(Primary, job.secondary, TagSpace)
  IN 4 + (IF headline = 0 THEN 0 ELSE PushBytes(headline))
       + (IF tags.push > 0
          THEN PushBytes(tags.push) - tags.push
                 + TagBytes(Primary, tags.second)
          ELSE 2)
       + (IF active \/ job.prime THEN 8 ELSE 4)

SpaceForEn(len) == len <= 85

-----------------------------------------------------------------------------
(* The transactions without payouts *)

(* Where coinb1 stops before the outputs. *)
Opening(len, en) ==
  <<CbStart(len)>> \o (IF en THEN <<EnPush>> ELSE <<SequenceNo>>)

(* One output to the pool, with or without a witness commitment. *)
PoolOnly(len, value, last) ==
  LET en == SpaceForEn(len)
      n == 1 + Len(last)
      tail == <<Output(job.pool, value)>> \o last \o <<LockTime>>
  IN IF en THEN [c1 |-> Opening(len, en), c2 |-> <<SequenceNo, Count(n)>> \o tail]
     ELSE [c1 |-> Opening(len, en) \o <<Count(n + 1), EnOutput>>, c2 |-> tail]

EmptyTx(len) == PoolOnly(len, job.value, <<Witness>>)
SubsidyTx(len) == PoolOnly(len, job.reward, <<>>)

(* generate_base_coinbase_txns_for_stratum_job: every job starts with it. *)
GenerateBase ==
  /\ pc = "base"
  /\ UNCHANGED <<job, active, outs, user, type, scan, index>>
  /\ IF TagsPanic
     THEN pc' = "panic" /\ UNCHANGED <<input, coinbase, subsidy>>
     ELSE /\ pc' = IF job.need THEN "offer" ELSE "done"
          /\ input' = InputBytes
          /\ coinbase' = [coinbase EXCEPT ![0] = EmptyTx(input')]
          /\ subsidy' = IF job.new THEN SubsidyTx(input') ELSE subsidy

-----------------------------------------------------------------------------
(* The outputs *)

(* The first entry that would pay more than there is ends the list; an entry
   of invalid length before it voids the list.                             *)
Affordable(r, n) == Total([i \in 1..n |-> r[i].value]) <= job.value

ParsedLength(r) ==
  CHOOSE n \in 0..Len(r) :
    /\ Affordable(r, n)
    /\ n < Len(r) => ~ Affordable(r, n + 1)

Parsed(r) ==
  LET list == SubSeq(r, 1, ParsedLength(r))
  IN IF \E i \in DOMAIN list : list[i].len \notin 2..64 THEN <<>> ELSE list

(* datum_coinbaser_thread: the pool's outputs, or none without a pool. *)
FetchOutputs ==
  /\ pc = "offer"
  /\ pc' = "generate"
  /\ IF active THEN \E r \in Responses : outs' = Parsed(r) ELSE outs' = <<>>
  /\ UNCHANGED <<job, active, input, coinbase, subsidy, user, type, scan, index>>

(* The pool connection comes up or goes down while the coinbaser thread is
   between its two looks at it.                                            *)
ConnectionChanges ==
  /\ pc \in {"offer", "generate"}
  /\ active' = ~ active
  /\ UNCHANGED <<job, pc, outs, input, coinbase, subsidy, user, type, scan,
                 index>>

(* What chirp_glue_fill_outputs may put into an empty list: outputs that
   together pay no more than the coinbase has.                             *)
ChirpFill ==
  IF ~ active /\ job.chirp /\ job.header >= 2 /\ outs = <<>>
  THEN {<<>>} \cup {r \in Responses : Affordable(r, Len(r))
                       /\ \A i \in DOMAIN r : r[i].len \in 2..64}
  ELSE {outs}

(* generate_coinbase_txns_for_stratum_job up to the end of type 0. *)
GenerateEmpty ==
  /\ pc = "generate"
  /\ outs' \in ChirpFill
  /\ UNCHANGED <<job, active, user, scan>>
  /\ IF TagsPanic
     THEN pc' = "panic" /\ UNCHANGED <<input, coinbase, subsidy, type, index>>
     ELSE /\ input' = InputBytes
          /\ IF outs' = <<>>
             THEN /\ coinbase' = [t \in 0..5 |-> EmptyTx(input')]
                  /\ subsidy' = SubsidyTx(input')
                  /\ index' = 0
                  /\ pc' = "done"
                  /\ UNCHANGED type
             ELSE /\ coinbase' =
                       [t \in 0..5 |->
                          IF t = 0 THEN EmptyTx(input')
                          ELSE [c1 |-> Opening(input',
                                            SpaceForEn(input') /\ t # 2),
                                c2 |-> <<>>]]
                  /\ type' = 1
                  /\ pc' = "fit"
                  /\ UNCHANGED <<subsidy, index>>

-----------------------------------------------------------------------------
(* The payout transactions *)

PayoutOrder == <<1, 3, 4, 5, 2>>
MaxSize == <<500, 755, 6500, 16000, 2250>>

Special == type = 2
EnInInput == SpaceForEn(input) /\ ~ Special

RequiredBytes ==
  119 + job.pool + input + (IF EnInInput THEN 0 ELSE 10)

(* Mutant: only the header of 80 bytes is thought of. *)
HeaderReserveShort == 0

(* What is reserved for the header beyond 80 bytes. *)
HeaderReserve == IF job.header >= 2 THEN 84 ELSE 0

(* datum_stratum_coinbase_fit_to_template: of the two limits the weight is
   looked at last, and wins.                                               *)
FitToTemplate(max, fixed) ==
  LET bySize == job.free.size - (121 + HeaderReserve) - fixed
      byWeight == ((job.free.weight - 376) \div 4) - fixed
      overSize == max + fixed + 121 + HeaderReserve > job.free.size
      overWeight == 4 * (max + fixed) + 376 > job.free.weight
      left == IF overWeight THEN byWeight
              ELSE IF overSize THEN bySize ELSE max + fixed
  IN IF (overSize /\ bySize < 0) \/ (overWeight /\ byWeight < 0) THEN 0
     ELSE IF left < max - fixed THEN left ELSE max - fixed

(* Mutant: what is in coinb1 already is not subtracted. *)
Coinb1RoomWhole == IF Special THEN 150 ELSE 0

(* Bytes for outputs in coinb1 of the special type. *)
Coinb1Room ==
  LET room == 150 - SumBytes(coinbase[2].c1)
  IN IF Special /\ room > 0 THEN room ELSE 0

NoScan ==
  [k |-> 0, room |-> 0, room1 |-> 0, mval |-> 0, m |-> 0, c1cnt |-> 0,
   c1full |-> FALSE, en_done |-> FALSE, size |-> 0]

Fit ==
  /\ pc = "fit"
  /\ pc' = "count"
  /\ LET size == FitToTemplate(MaxSize[type], RequiredBytes)
     IN scan' = [NoScan EXCEPT !.size = size, !.room = size,
                               !.room1 = Coinb1Room]
  /\ UNCHANGED <<job, active, outs, input, coinbase, subsidy, user, type, index>>

Next1 == outs[scan.k + 1]

Fits ==
  /\ Next1.len + 9 <= scan.room
  /\ scan.mval + Next1.value <= job.value

(* The output is the last one the code looks at. *)
Enough(room, mval) == room < 30 \/ mval >= job.value

(* First pass: how many outputs fit, and how many of them into coinb1. *)
CountOutput ==
  /\ pc = "count"
  /\ LET bytes == Next1.len + 9
         first == Special /\ ~ scan.c1full /\ bytes <= scan.room1
     IN scan' =
          IF ~ Fits THEN [scan EXCEPT !.k = @ + 1]
          ELSE [scan EXCEPT
                  !.k = @ + 1, !.m = @ + 1,
                  !.room = @ - bytes,
                  !.mval = @ + Next1.value,
                  !.room1 = IF first THEN @ - bytes ELSE @,
                  !.c1cnt = IF first THEN @ + 1 ELSE @,
                  !.c1full = ~ first]
  /\ pc' = IF \/ scan'.k = Len(outs)
              \/ Fits /\ Enough(scan'.room, scan'.mval)
           THEN "declare" ELSE "count"
  /\ UNCHANGED <<job, active, outs, input, coinbase, subsidy, user, type, index>>

(* Mutant: the second pass goes on with the space the first one left. *)
SecondPassNoReset(n) ==
  [scan EXCEPT !.k = 0, !.mval = 0, !.m = n,
               !.en_done = ~ EnInInput /\ ~ Special]

(* The loop variables of the second pass; n outputs are announced. *)
SecondPass(n) ==
  [scan EXCEPT !.k = 0, !.room = scan.size, !.mval = 0, !.m = n,
               !.en_done = ~ EnInInput /\ ~ Special]

(* The number of outputs is written before the outputs are. *)
Declare ==
  /\ pc = "declare"
  /\ pc' = "write"
  /\ LET n == scan.m + (IF EnInInput THEN 2 ELSE 3)
     IN /\ scan' = SecondPass(n)
        /\ coinbase' =
             IF EnInInput
             THEN [coinbase EXCEPT ![type].c2 = <<SequenceNo, Count(n)>>]
             ELSE [coinbase EXCEPT
                     ![type].c1 = @ \o <<Count(n)>>
                          \o (IF Special THEN <<>> ELSE <<EnOutput>>)]
  /\ UNCHANGED <<job, active, outs, input, subsidy, user, type, index>>

(* Mutant: any short output goes into the first half. *)
InFirstHalfShort == Special /\ Next1.len < 30

InFirstHalf == Special /\ scan.k < scan.c1cnt

(* Second pass: the outputs are chosen once more, and written. *)
WriteOutput ==
  /\ pc = "write"
  /\ LET out == Output(Next1.len, Next1.value)
         en == Special /\ scan.k = scan.c1cnt
     IN IF ~ Fits
        THEN scan' = [scan EXCEPT !.k = @ + 1] /\ UNCHANGED coinbase
        ELSE /\ scan' = [scan EXCEPT
                           !.k = @ + 1, !.m = @ - 1,
                           !.room = @ - out.bytes,
                           !.mval = @ + Next1.value,
                           !.en_done = @ \/ en]
             /\ coinbase' =
                  IF InFirstHalf
                  THEN [coinbase EXCEPT ![type].c1 = Append(@, out)]
                  ELSE [coinbase EXCEPT
                          ![type].c1 = @ \o (IF en THEN <<EnOutput>> ELSE <<>>),
                          ![type].c2 = Append(@, out)]
  /\ pc' = IF \/ scan'.k = Len(outs)
              \/ Fits /\ (scan'.m = 0 \/ Enough(scan'.room, scan'.mval))
           THEN "finish" ELSE "write"
  /\ UNCHANGED <<job, active, outs, input, subsidy, user, type, index>>

(* Mutant: a rest that looks like dust is dropped. *)
PoolOutputNoDust(rest) ==
  IF rest > 546 THEN Output(job.pool, rest) ELSE DeadOutput

(* The count promises an output even when nothing is left for it. *)
PoolOutput(rest) == IF rest > 0 THEN Output(job.pool, rest) ELSE DeadOutput

(* The rest goes to the pool; then the next type, or the job is complete. *)
Finish ==
  /\ pc = "finish"
  /\ LET rest == job.value - scan.mval
         pool == PoolOutput(rest)
         en == ~ EnInInput /\ ~ scan.en_done
         last == type = 2
     IN /\ coinbase' =
             [coinbase EXCEPT
                ![type].c1 = @ \o (IF en THEN <<EnOutput>> ELSE <<>>),
                ![type].c2 = @ \o <<pool, Witness, LockTime>>]
        /\ pc' = IF last THEN "done" ELSE "fit"
        /\ type' = IF last THEN type
                   ELSE PayoutOrder[1 + CHOOSE i \in 1..4 : PayoutOrder[i] = type]
        /\ index' = IF last THEN 4 ELSE index
  /\ scan' = NoScan
  /\ UNCHANGED <<job, active, outs, input, subsidy, user>>

-----------------------------------------------------------------------------
(* The transaction of a single miner *)

LottoFee == 90          \* BLAKE2B_LOTTO_FEE_BPS
TemplatePool == 100     \* template_pool_bps
TemplateSupplier == 100 \* template_supplier_bps

Bps(n) == (job.value * n) \div 10000

(* datum_blake2b_build_user_coinbase: coinb1 of the empty transaction, and
   outputs of its own.                                                     *)
UserTx ==
  LET supplied == job.supplier > 0
      fee == Bps(IF supplied THEN TemplatePool ELSE LottoFee)
      supplier == IF supplied THEN Bps(TemplateSupplier) ELSE 0
  IN [c1 |-> coinbase[0].c1,
      c2 |-> <<SequenceNo, Count(IF supplied THEN 4 ELSE 3),
               Output(22, job.value - fee - supplier)>>
             \o (IF supplied THEN <<Output(job.supplier, supplier)>> ELSE <<>>)
             \o <<Output(22, fee), Witness, LockTime>>]

BuildUserCoinbase ==
  /\ pc = "done" /\ job.header >= 2 /\ ~ job.chirp
  /\ user' = UserTx
  /\ UNCHANGED <<job, pc, active, outs, input, coinbase, subsidy, type, scan,
                 index>>

-----------------------------------------------------------------------------
Init ==
  /\ job \in Jobs
  /\ active \in BOOLEAN
  /\ pc = "base" /\ outs = <<>> /\ input = 0
  /\ coinbase = [t \in 0..5 |-> Unbuilt]
  /\ subsidy = Unbuilt /\ user = Unbuilt
  /\ type = 0 /\ scan = NoScan /\ index = 0

Next ==
  \/ GenerateBase \/ FetchOutputs \/ ConnectionChanges \/ GenerateEmpty
  \/ Fit \/ CountOutput \/ Declare \/ WriteOutput \/ Finish
  \/ BuildUserCoinbase

Spec == Init /\ [][Next]_vars

-----------------------------------------------------------------------------
(* Properties *)

Built == {t \in 0..5 : pc = "done" /\ coinbase[t] # Unbuilt}

TypeOK ==
  /\ job \in Jobs /\ active \in BOOLEAN
  /\ pc \in {"base", "offer", "generate", "fit", "count", "declare", "write",
              "finish", "done", "panic"}
  /\ type \in 0..5 /\ index \in {0, 4} /\ input \in Nat
  /\ pc \in {"count", "write"} => scan.k \in 0..(Len(outs) - 1)
  /\ scan.room \in Nat /\ scan.room1 \in Nat /\ scan.m \in Nat
  /\ scan.mval \in 0..job.value

(* What the miner hashes: the extranonce between the halves. *)
Whole(tx) == tx.c1 \o <<Field("en", 12, 0)>> \o tx.c2

IsOutput(f) == f.kind \in {"out", "enout"}

(* What comes before the outputs. *)
InInput(w) == w[2].kind = "push"
HeadKinds(w) == IF InInput(w) THEN <<"input", "push", "en", "sequence", "count">>
                ELSE <<"input", "sequence", "count">>

(* The fields are those of a transaction: an input that is either closed by
   the extranonce or complete, as many outputs as announced, the extranonce
   nowhere but behind its push or its OP_RETURN.                            *)
WellFormed(tx) ==
  LET w == Whole(tx)
      kinds == HeadKinds(w)
      rest == SubSeq(w, Len(kinds) + 1, Len(w) - 1)
  IN /\ Len(w) > Len(kinds)
     /\ \A i \in DOMAIN kinds : w[i].kind = kinds[i]
     /\ w[Len(w)].kind = "lock"
     /\ w[Len(kinds)].n = Cardinality({i \in DOMAIN rest : IsOutput(rest[i])})
     /\ \A i \in DOMAIN rest :
          IF rest[i].kind = "en" THEN i > 1 /\ rest[i - 1].kind = "enout"
          ELSE IsOutput(rest[i])
     /\ InInput(w) <=> \A i \in DOMAIN rest : rest[i].kind # "enout"

(* The number of outputs is written from a first pass over the outputs and
   the outputs by a second one, coinb1 of the special type while the pass is
   under way: whatever fits and whatever is skipped, the halves of every
   transaction of a finished job make a transaction, and the one the job
   names is among them.  A miner's own transaction, which takes over coinb1 of
   the empty one, is one only when the extranonce is in the input.          *)
HalvesFormTx ==
  /\ TypeOK
  /\ \A t \in Built : WellFormed(coinbase[t])
  /\ pc = "done" => index \in Built
  /\ pc = "done" /\ subsidy # Unbuilt => WellFormed(subsidy)
  /\ user # Unbuilt /\ SpaceForEn(input) => WellFormed(user)

Amount(f) == IF IsOutput(f) THEN f.n ELSE 0
Amounts(s) == [i \in DOMAIN s |-> Amount(s[i])]
Paid(tx) == Total(Amounts(tx.c1 \o tx.c2))

(* A block may pay less than its reward, and loses the rest for good: every
   transaction pays the whole coinbase value and not more, the subsidy-only
   one the subsidy, a miner's own one the value less nothing.              *)
NoMoneyLost ==
  /\ \A t \in Built : Paid(coinbase[t]) = job.value
  /\ pc = "done" /\ subsidy # Unbuilt => Paid(subsidy) = job.reward
  /\ user # Unbuilt => Paid(user) = job.value

(* No member is paid twice, in another order or another amount than offered,
   although coinb1 and coinb2 are filled in turn: the outputs of a payout
   transaction up to those of pool and witness are offered ones, in order.   *)
PaidAsOffered ==
  index = 4 /\ pc = "done" =>
    \A t \in Built \ {0} :
      LET all == coinbase[t].c1 \o coinbase[t].c2
          places == {i \in 1..Len(all) - 3 : all[i].kind = "out"}
      IN \E offer \in [places -> DOMAIN outs] :
           /\ \A i, j \in places : i < j => offer[i] < offer[j]
           /\ \A i \in places :
                all[i] = Output(outs[offer[i]].len, outs[offer[i]].value)

(* The firmware behind the special type takes a first half of 150 bytes plus
   the output count and the extranonce output; outputs are moved into it only
   while they fit.  An input of more than 104 bytes, with a headline of more
   than 88, takes more by itself.                                          *)
SpecialHalfShort ==
  2 \in Built /\ index = 4 =>
    LET start == SumBytes(Opening(input, FALSE))
    IN SumBytes(coinbase[2].c1) <= (IF start > 150 THEN start ELSE 150) + 1 + 13

(* Block size and weight with a transaction count of one byte; 36 bytes of
   witness are added to the n bytes of the coinbase transaction.            *)
HeaderExtra == IF job.header >= 2 THEN 84 ELSE 0
BlockBytes(n) == 80 + HeaderExtra + 1 + n + 36
BlockWeight(n) == 4 * (80 + HeaderExtra + 1 + n) + 36

WithinLimits(n) ==
  /\ BlockBytes(n) <= job.free.size
  /\ job.header = 0 => BlockWeight(n) <= job.free.weight

(* The largest transaction that pays nobody but the pool. *)
PoolAlone ==
  SumBytes(Opening(input, FALSE)) + 1 + 13 + 12
    + ((IF job.pool > 3 THEN job.pool ELSE 3) + 9) + 47 + 4

(* Of the two limits the one on weight is the tighter one or is not reached: a
   template has one number for both, and transactions weigh at least as much
   as they have bytes.                                                     *)
WeightIsTighter ==
  \/ job.free.weight <= 4 * (job.free.size - 111)
  \/ job.free.weight >= 4 * (16000 + 309) + 376

OneByteCount(tx) ==
  LET all == tx.c1 \o tx.c2
  IN \A i \in DOMAIN all : all[i].kind = "count" => all[i].bytes = 1

(* A block over a limit of the template is rejected by every node.  With the
   header of 80 bytes both limits hold, with the long one the limit on bytes
   does, however many outputs compete for the space, when the template leaves
   space for the pool's output and the count of outputs takes one byte.      *)
TemplateLimitsKept ==
  WithinLimits(PoolAlone) /\ WeightIsTighter =>
    \A t \in Built :
      OneByteCount(coinbase[t]) => WithinLimits(TxBytes(coinbase[t]))

=============================================================================
