----------------------------- MODULE PoolShares -----------------------------
(***************************************************************************)
(* How shares are described to the pool (datum_protocol.c).                *)
(*                                                                         *)
(* The pool keeps a few numbered jobs.  The gateway numbers its stratum     *)
(* jobs round robin (datum_jobs), sends the merkle branches and the         *)
(* coinbase of a job with the first share that needs them and remembers     *)
(* what the pool already has.  A share waits in a queue meanwhile: when it  *)
(* is sent its number may belong to a younger job.                          *)
(*                                                                         *)
(* Jobs live in the places of stratum_job_list, which are used again in     *)
(* turn.  A job is known by the address of its place only, and what is read  *)
(* through an address is of the job that is there now.                      *)
(*                                                                         *)
(* The pool reads the messages of a session in the order in which they were *)
(* put into the send buffer, so `server` is advanced when a message is      *)
(* buffered: it is what the pool has in hand when it reads that message.    *)
(* A message that the full buffer refuses, or that is sent before the pool  *)
(* has answered the hello, leaves the keys of the two sides out of step: the *)
(* pool can read nothing more of the session.                               *)
(***************************************************************************)
EXTENDS Integers, Sequences, FiniteSets

CONSTANTS
  NumSlots,       \* MAX_DATUM_PROTOCOL_JOBS
  NumPlaces,      \* MAX_STRATUM_JOBS
  Coinbases,      \* the coinbase types of a job
  Kinds,          \* the kinds of jobs: header version, transactions
  Requests,       \* indices a pool may ask about, valid or not
  MaxJobs, MaxShares, MaxSessions, MaxQueue

ASSUME SharesAssumption ==
  /\ NumSlots \in Nat \ {0}
  /\ NumPlaces \in Nat \ {0} /\ \E q \in 1..NumPlaces : NumPlaces = q * NumSlots
  /\ Coinbases \subseteq 0..7
  /\ Kinds \subseteq [blake2b : BOOLEAN, txns : Nat]
  /\ Requests \subseteq Nat
  /\ MaxJobs \in Nat /\ MaxShares \in Nat
  /\ MaxSessions \in Nat /\ MaxQueue \in Nat

VARIABLES
  made,       \* number of jobs made so far by update_stratum_job
  list,       \* stratum_job_list: the job at each address
  slots,      \* datum_jobs
  queue,      \* pow_queue
  found,      \* number of shares submitted so far
  build,      \* datum_protocol_pow_build_message between its two locks
  session,    \* number of the session with the pool
  phase,      \* of the session: its queue exists in "greeting" and "ready",
              \* its keys are agreed in "ready" (datum_state >= 2)
  broken,     \* the pool cannot read the stream of this session any more
  server,     \* what the pool knows of its numbered jobs
  read,       \* history: the share of this step, and what the pool knew then
  reply       \* history: the answer of this step to a validation request, and
              \* which job the pool had under that number then

history == <<read, reply>>
vars == <<made, list, slots, queue, found, build, session, phase, broken, server,
          history>>

NoJob == 0
JobId == Nat
SlotId == 0..NumSlots - 1

(* The addresses of the places, and the null pointer. *)
Null == 0
Address == 1..NumPlaces
Pointer == {Null} \cup Address

(* blake2b: header_version >= 2; txns: txn_count of the block template. *)
Kind == [blake2b : BOOLEAN, txns : Nat]

(* A place: which job it holds, and of what kind it is. *)
Job == [id : JobId, kind : Kind]

Unused == [id |-> NoJob, kind |-> [blake2b |-> FALSE, txns |-> 0]]

(* A coinbase of a share: one of the types, or the subsidy-only one. *)
SubsidyOnly == 255
CoinbaseId == Coinbases \cup {SubsidyOnly}

(* has_coinbase: server_has_coinbase and server_has_coinbase_empty. *)
Slot == [sjob : Pointer, server_sjob : Pointer, has_merkle : BOOLEAN,
         has_coinbase : SUBSET CoinbaseId]

(* job is the job the share was found for, sjob the address in the record of
   the queue: SHA256d shares leave it empty.                                *)
Share == [job : JobId, slot : SlotId, sjob : Pointer, coinbase : CoinbaseId]

NoShare == [job |-> NoJob, slot |-> 0, sjob |-> Null, coinbase |-> SubsidyOnly]

(* sjob: the address of the job the message is about; fresh: new_to_server;
   merkle, coinbase: the job whose branches and whose coinbase are in the
   message so far.                                                          *)
Build == [on : BOOLEAN, share : Share, sjob : Pointer, fresh : BOOLEAN,
          merkle : JobId, coinbase : JobId]

NotBuilding == [on |-> FALSE, share |-> NoShare, sjob |-> Null,
                fresh |-> FALSE, merkle |-> NoJob, coinbase |-> NoJob]

Known == [merkle : JobId, coinbase : [CoinbaseId -> JobId]]

Nothing == [merkle |-> NoJob, coinbase |-> [c \in CoinbaseId |-> NoJob]]

NothingRead == [share |-> NoShare, about |-> Null, merkle |-> NoJob,
                coinbase |-> NoJob]

NoReply == [slot |-> 0, code |-> "none", job |-> NoJob, known |-> NoJob]

Codes == {"none", "list", "txns", "block", "empty", "noJob", "badIndex",
          "tooMany", "badRequest"}

TypeOK ==
  /\ made \in Nat /\ list \in [Address -> Job]
  /\ slots \in [SlotId -> Slot]
  /\ queue \in Seq(Share)
  /\ found \in Nat
  /\ build \in Build
  /\ session \in Nat /\ phase \in {"down", "greeting", "ready"}
  /\ broken \in BOOLEAN
  /\ server \in [SlotId -> Known]
  /\ read \in [share : Share, about : Pointer, merkle : JobId,
                coinbase : JobId]
  /\ reply \in [slot : Nat, code : Codes, job : JobId, known : JobId]

-----------------------------------------------------------------------------
EmptySlot == [sjob |-> Null, server_sjob |-> Null, has_merkle |-> FALSE,
              has_coinbase |-> {}]

Init ==
  /\ made = 0 /\ list = [a \in Address |-> Unused]
  /\ slots = [s \in SlotId |-> EmptySlot]
  /\ queue = <<>> /\ found = 0
  /\ build = NotBuilding
  /\ session = 0 /\ phase = "down" /\ broken = FALSE
  /\ server = [s \in SlotId |-> Nothing]
  /\ read = NothingRead /\ reply = NoReply

(* Steps in which the pool reads nothing. *)
Silent == read' = NothingRead /\ reply' = NoReply

(* datum_protocol_next_job_idx and stratum_job_next: the numbers go round, and
   so do the places.                                                        *)
SlotOf(j) == (j - 1) % NumSlots
PlaceOf(j) == ((j - 1) % NumPlaces) + 1

(* Mutant: a number of which the pool has seen shares is not given away. *)
ReboundUnlessKnown(p, a) == IF p.server_sjob # Null THEN p
                            ELSE [p EXCEPT !.sjob = a]

Rebound(p, a) == [p EXCEPT !.sjob = a]

(* update_stratum_job clears the next place and fills it with a new job, and
   datum_protocol_setup_new_job_idx gives the job its number.  What is
   remembered of the number stays as it is.                                 *)
SetupNewJob(k) ==
  LET j == made + 1
  IN /\ made < MaxJobs
     /\ made' = j
     /\ list' = [list EXCEPT ![PlaceOf(j)] = [id |-> j, kind |-> k]]
     /\ slots' = [slots EXCEPT ![SlotOf(j)] = Rebound(@, PlaceOf(j))]
     /\ Silent
     /\ UNCHANGED <<queue, found, build, session, phase, broken, server>>

-----------------------------------------------------------------------------
(* Shares *)

(* datum_protocol_pow_submit on a stratum thread, for the job at address a.
   BLAKE2b work has no subsidy-only coinbase.  The queue takes shares as soon
   as the thread of the session has prepared it, long before the pool has
   answered.                                                                *)
PowSubmit(a, c) ==
  LET j == list[a].id
      s == [job |-> j, slot |-> SlotOf(j),
            sjob |-> IF list[a].kind.blake2b THEN a ELSE Null, coinbase |-> c]
  IN /\ found < MaxShares /\ j # NoJob
     /\ c = SubsidyOnly => ~ list[a].kind.blake2b
     /\ found' = found + 1
     /\ queue' = IF phase # "down" /\ Len(queue) < MaxQueue THEN Append(queue, s)
                 ELSE queue
     /\ Silent
     /\ UNCHANGED <<made, list, slots, build, session, phase, broken, server>>

(* The pool stores the parts a message carries under the number of the job:
   the branches of job mj and coinbase c of job cj, where there are any.    *)
Told(known, c, mj, cj) ==
  [merkle |-> IF mj # NoJob THEN mj ELSE known.merkle,
   coinbase |-> IF cj # NoJob THEN [known.coinbase EXCEPT ![c] = cj]
                ELSE known.coinbase]

(* datum_protocol_mining_cmd for a share: the message reaches the buffer, or
   is refused.  In the greeting it is enciphered with keys that the pool does
   not have.                                                                *)
Send(share, a, mj, cj) ==
  LET known == Told(server[share.slot], share.coinbase, mj, cj)
  IN \/ /\ ~ broken /\ phase = "ready"
        /\ server' = [server EXCEPT ![share.slot] = known]
        /\ read' = [share |-> share, about |-> a, merkle |-> known.merkle,
                    coinbase |-> known.coinbase[share.coinbase]]
        /\ reply' = NoReply
        /\ UNCHANGED broken
     \/ broken' = TRUE /\ Silent /\ UNCHANGED server

(* Mutant: the job that has the number now is the one the share is for. *)
JobOfShareBySlot(share, p) == p.sjob

JobOfShare(share, p) == IF share.sjob # Null THEN share.sjob ELSE p.sjob

(* Jobs are compared by their addresses. *)
NewToServer(p, a) == p.server_sjob # a

(* The part of datum_protocol_pow_build_message under the read lock: either
   the pool has all it needs and the share is sent, or the flags have to be
   changed and the lock is given up to get the write lock.                  *)
BuildMessage ==
  /\ phase # "down" /\ ~ build.on /\ queue # <<>>
  /\ LET share == Head(queue)
         p == slots[share.slot]
         a == JobOfShare(share, p)
         fresh == NewToServer(p, a)
         merkle == fresh \/ ~ p.has_merkle
         cb == fresh \/ share.coinbase \notin p.has_coinbase
     IN /\ queue' = Tail(queue)
        /\ IF merkle \/ cb
           THEN /\ build' = [on |-> TRUE, share |-> share, sjob |-> a,
                             fresh |-> fresh,
                             merkle |-> IF merkle THEN list[a].id ELSE NoJob,
                             coinbase |-> IF merkle THEN NoJob ELSE list[a].id]
                /\ Silent /\ UNCHANGED <<broken, server>>
           ELSE /\ Send(share, a, NoJob, NoJob)
                /\ UNCHANGED build
  /\ UNCHANGED <<made, list, slots, found, session, phase>>

(* Mutant: the coinbases of the previous job stay registered. *)
RegisteredKeeps(p, sjob, c, merkle, cb) ==
  [p EXCEPT !.server_sjob = sjob, !.has_merkle = TRUE,
            !.has_coinbase = p.has_coinbase \cup {c}]

(* The flags of a slot after a message for the job at sjob with coinbase c. *)
Registered(p, sjob, c, merkle, cb) ==
  IF p.server_sjob # sjob
  THEN [p EXCEPT !.server_sjob = sjob, !.has_merkle = TRUE,
                 !.has_coinbase = {c}]
  ELSE [p EXCEPT !.has_merkle = merkle \/ p.has_merkle,
                 !.has_coinbase = IF cb THEN p.has_coinbase \cup {c}
                                  ELSE p.has_coinbase]

(* The coinbase of the message: if it carries the branches, it is only under
   the write lock that the flag of the coinbase is looked at.               *)
LastPart ==
  LET p == slots[build.share.slot]
  IN IF build.coinbase # NoJob THEN build.coinbase
     ELSE IF build.fresh \/ build.share.coinbase \notin p.has_coinbase
          THEN list[build.sjob].id
     ELSE NoJob

(* The rest of datum_protocol_pow_build_message, under the write lock, and the
   message into the send buffer.                                            *)
FinishMessage ==
  /\ build.on
  /\ LET share == build.share
     IN /\ slots' = [slots EXCEPT ![share.slot] =
                       Registered(@, build.sjob, share.coinbase,
                                  build.merkle # NoJob, LastPart # NoJob)]
        /\ Send(share, build.sjob, build.merkle, LastPart)
  /\ build' = NotBuilding
  /\ UNCHANGED <<made, list, queue, found, session, phase>>

-----------------------------------------------------------------------------
(* Job validation: the pool asks about a numbered job *)

MaxListed == 16383

(* What all three requests have in common: a wrong number, or one that no job
   has yet.                                                                 *)
Answer(i, code, j) ==
  [slot |-> i, code |-> code, job |-> j,
   known |-> IF i \in SlotId THEN server[i].merkle ELSE NoJob]

NoAnswer(i) ==
  IF i >= NumSlots THEN {Answer(i, "badIndex", NoJob)}
  ELSE IF slots[i].sjob = Null THEN {Answer(i, "noJob", NoJob)}
  ELSE {}

(* The job at the address that is kept under a number. *)
JobAt(i) == list[slots[i].sjob]

(* datum_protocol_job_validation_stxlist *)
ShortTxnList(i) ==
  LET n == JobAt(i).kind.txns
  IN Answer(i, CASE n = 0 -> "empty" [] n > MaxListed -> "tooMany"
                 [] OTHER -> "list", JobAt(i).id)

(* datum_protocol_job_validation_stxlist_byid: n transactions, the highest of
   them number id.                                                          *)
TxnsById(i, n, id) ==
  Answer(i, IF n = 0 \/ n > JobAt(i).kind.txns \/ id >= JobAt(i).kind.txns
            THEN "badRequest" ELSE "txns", JobAt(i).id)

(* datum_protocol_job_validation_sblock *)
WholeBlock(i) == Answer(i, "block", JobAt(i).id)

(* The message to the pool may be refused like any other. *)
Reply(a) ==
  \/ ~ broken /\ reply' = a /\ read' = NothingRead /\ UNCHANGED broken
  \/ broken' = TRUE /\ Silent

(* datum_protocol_job_validation_cmd, in the session's thread. *)
Validate(i) ==
  /\ phase = "ready" /\ ~ build.on
  /\ IF NoAnswer(i) # {} THEN \E a \in NoAnswer(i) : Reply(a)
     ELSE \/ Reply(ShortTxnList(i))
          \/ \E n \in 0..1, id \in 0..1 : Reply(TxnsById(i, n, id))
          \/ Reply(WholeBlock(i))
  /\ UNCHANGED <<made, list, slots, queue, found, build, session, phase, server>>

-----------------------------------------------------------------------------
(* Sessions *)

Forgotten == [s \in SlotId |-> [slots[s] EXCEPT !.has_merkle = FALSE,
                                                !.has_coinbase = {}]]

(* The start of datum_protocol_client.  server_sjob is kept, the flags are
   not; the pool starts with nothing.                                       *)
StartSession ==
  /\ phase = "down" /\ session < MaxSessions
  /\ phase' = "greeting" /\ session' = session + 1 /\ broken' = FALSE
  /\ slots' = Forgotten
  /\ server' = [s \in SlotId |-> Nothing]
  /\ queue' = <<>>
  /\ Silent
  /\ UNCHANGED <<made, list, found, build>>

(* datum_protocol_handshake_response: the pool has read the hello. *)
Handshake ==
  /\ phase = "greeting" /\ ~ broken /\ ~ build.on
  /\ phase' = "ready"
  /\ Silent
  /\ UNCHANGED <<made, list, slots, queue, found, build, session, broken, server>>

(* The end of datum_protocol_client: the queue and its shares are gone. *)
EndSession ==
  /\ phase # "down" /\ ~ build.on
  /\ phase' = "down" /\ queue' = <<>>
  /\ Silent
  /\ UNCHANGED <<made, list, slots, found, build, session, broken, server>>

Next ==
  \/ \E k \in Kinds : SetupNewJob(k)
  \/ \E a \in Address, c \in CoinbaseId : PowSubmit(a, c)
  \/ BuildMessage \/ FinishMessage
  \/ \E i \in Requests : Validate(i)
  \/ StartSession \/ Handshake \/ EndSession

Spec == Init /\ [][Next]_vars

-----------------------------------------------------------------------------
(* The job is still where it was made. *)
InPlace(j) == list[PlaceOf(j)].id = j

(* A part is of a job that was at this address. *)
OfPlace(j, a) == j # NoJob /\ PlaceOf(j) = a

(* When the pool reads a share, the branches and the coinbase it has under the
   number are of a job at the address the message is about, and that is the
   address of the job the share was found for, however long the share has
   waited and whoever had the number in between.  They are of one job, and of
   the share's own, as long as that job and the one whose branches the pool
   has are in their places: the gateway, which compares addresses, mistakes
   for each other only jobs of which one was overwritten by the other.  A
   SHA256d share does not name its job, the message is about the job that has
   its number.  (datum_protocol_pow_build_message.)                         *)
ShareResolves ==
  read.share # NoShare =>
    /\ OfPlace(read.merkle, read.about) /\ OfPlace(read.coinbase, read.about)
    /\ InPlace(read.merkle) => read.coinbase = read.merkle
    /\ read.share.sjob # Null =>
         /\ OfPlace(read.share.job, read.about)
         /\ InPlace(read.merkle) /\ InPlace(read.share.job) =>
              read.merkle = read.share.job

(* Whatever the flags of a slot say the pool has, it has: parts of a job at the
   address server_sjob, a coinbase never of an older job than the branches, and
   all of the same job as long as that one is in its place; between the two
   locks as well.                                                           *)
FlagsHonest ==
  /\ TypeOK
  /\ phase = "ready" /\ ~ broken =>
       \A s \in SlotId :
         LET p == slots[s]
             known == server[s]
         IN /\ p.has_merkle => OfPlace(known.merkle, p.server_sjob)
            /\ \A c \in p.has_coinbase :
                 /\ p.has_merkle
                 /\ OfPlace(known.coinbase[c], p.server_sjob)
                 /\ known.merkle <= known.coinbase[c]
                 /\ InPlace(known.merkle) => known.coinbase[c] = known.merkle

(* The transactions sent for validation are never those of a job older than
   the one whose branches the pool has under that number.  (They may be those
   of a younger one: the answer is about the job that has the number now,
   whatever the pool has under it.)                                         *)
AnswerNotOutdated == reply.job # NoJob => reply.known <= reply.job
=============================================================================
