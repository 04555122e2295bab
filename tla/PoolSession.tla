---------------------------- MODULE PoolSession ----------------------------
(***************************************************************************)
(* The session with the pool (datum_protocol.c) and the loop that keeps it  *)
(* up (datum_gateway.c).                                                    *)
(*                                                                         *)
(* The main loop starts a thread for every session.  The thread connects,   *)
(* says hello, waits for the answer and for the configuration, and carries   *)
(* shares to the pool; when it stops, the main loop starts another one,      *)
(* while the old one may still be clearing up.  The coinbaser thread sends   *)
(* requests of its own into the same stream.  Keys and nonces of the stream  *)
(* advance with every message: gateway and pool must stay in step.          *)
(*                                                                         *)
(* Of a key or nonce the model keeps how often it has advanced since the     *)
(* hello of this session.  All others, of earlier sessions or advanced       *)
(* before the hello, are Stale: the hello draws new ones at random.  Time is *)
(* left out: a timeout may strike whenever the code looks at the clock.  The *)
(* pool is external.                                                        *)
(***************************************************************************)
EXTENDS Integers, Sequences, FiniteSets

CONSTANTS
  Threads,     \* threads of datum_protocol_client
  Capacity,    \* of the send buffer, in parts of messages
  MaxSends,    \* messages of a session
  MaxPending,  \* shares waiting in pow_queue
  MaxInbox,    \* messages on their way from the pool
  Cuts         \* number of fields a malformed configuration still has

Fields == 4    \* script, prime id, tag, minimum difficulty
RejectAfter == 2

ASSUME SessionAssumption ==
  /\ Threads \subseteq Nat \ {0} /\ 1 \in Threads
  /\ Capacity \in Nat /\ MaxSends \in Nat /\ MaxPending \in Nat
  /\ MaxInbox \in Nat
  /\ Cuts \subseteq 0..Fields

VARIABLES
  active,     \* datum_protocol_client_active
  state,      \* datum_state
  pc,         \* where each thread of datum_protocol_client is
  queue,      \* the thread that prepared pow_queue, 0: not initialized
  pending,    \* number of shares in it
  key,        \* sending_header_key
  nonce,      \* session_nonce_sender
  out,        \* server_send_buffer
  config,     \* history: configuration fields that came in this session
  pool,       \* the other end of the connection
  inbox,      \* messages from the pool that were not received yet
  fetch,      \* the coinbaser thread in datum_protocol_coinbaser_fetch
  booting, retries, rejecting,   \* main: fail_retries, rejecting_stratum
  pooled,     \* there are jobs of the pool
  fault       \* history: a message was lost or enciphered for another session

stream == <<key, nonce, out>>
shares == <<queue, pending>>
link == <<pool, inbox>>
mainloop == <<booting, retries, rejecting>>
vars == <<active, state, pc, queue, pending, stream, config, pool, inbox,
          fetch, mainloop, pooled, fault>>

Stale == -1
Initial == -2   \* 0xDC871829, as set at the start of the thread
Key == Stale..MaxSends

(* What goes into the stream: a hello, or a header and then a body, with the
   key or nonce they are enciphered with.                                   *)
Part == [part : {"hello", "header", "body"}, key : Key \cup {Initial}]

(* n: messages read, body: the next part is the body of a message. *)
PoolState == [at : {"none", "new", "greeted", "shaken", "ready", "lost"},
              n : 0..MaxSends, body : BOOLEAN]

Nowhere == [at |-> "none", n |-> 0, body |-> FALSE]

Message == [msg : {"answer", "split"}]
           \cup [msg : {"configure"}, fields : 0..Fields, whole : BOOLEAN]

(* box: the nonce of the message in hand; header: the key of its header. *)
Fetch == [at : {"idle", "checked", "boxed", "keyed", "headed", "sent",
                "waiting"}, box : Key, header : Key \cup {Initial}]
Idle == [at |-> "idle", box |-> Stale, header |-> Stale]

Places == {"none", "start", "connect", "spin", "top", "send", "poll", "free"}

(* Where a thread has the session in hand. *)
InSession == Places \ {"none", "free"}

TypeOK ==
  /\ active \in 0..3 /\ state \in 0..3
  /\ pc \in [Threads -> Places]
  /\ queue \in Threads \cup {0} /\ pending \in 0..MaxPending
  /\ key \in Key \cup {Initial} /\ nonce \in Key
  /\ out \in Seq(Part) /\ Len(out) <= Capacity
  /\ config \in 0..Fields
  /\ pool \in PoolState
  /\ inbox \in Seq(Message)
  /\ fetch \in Fetch
  /\ booting \in BOOLEAN /\ retries \in 0..RejectAfter
  /\ rejecting \in BOOLEAN /\ pooled \in BOOLEAN /\ fault \in BOOLEAN

(* Threads are interchangeable: the first idle one is taken. *)
FirstOf(S, t) == t \in S /\ \A u \in S : t <= u
NextThread == {t \in Threads : FirstOf({u \in Threads : pc[u] = "none"}, t)}

(* datum_protocol_init has started the first thread. *)
Init ==
  /\ active = 1 /\ state = 0
  /\ pc = [t \in Threads |-> IF FirstOf(Threads, t) THEN "start" ELSE "none"]
  /\ queue = 0 /\ pending = 0
  /\ key = Initial /\ nonce = Stale
  /\ out = <<>> /\ config = 0
  /\ pool = Nowhere /\ inbox = <<>> /\ fetch = Idle
  /\ booting = TRUE /\ retries = 0 /\ rejecting = FALSE
  /\ pooled = FALSE /\ fault = FALSE

-----------------------------------------------------------------------------
(* Sending *)

(* Messages that are not numbered yet; the bound on messages counts them. *)
Unsent == pending + IF fetch.at \in {"checked", "boxed"} THEN 1 ELSE 0
Affordable == \A sent \in {0, key, nonce} : sent + Unsent < MaxSends

(* Mutant: the key of a message is used again. *)
AdvancedNot(k) == IF k < 0 THEN Stale ELSE k

(* datum_header_xor_feedback, datum_increment_session_nonce *)
Advanced(k) == IF k < 0 THEN Stale ELSE k + 1

(* The nonce a message is enciphered with; before the answer to the hello the
   keys of the session are still those of the last one.                     *)
BoxNonce == IF state >= 2 THEN nonce ELSE Stale

(* datum_protocol_chars_to_server: parts that are still free in the buffer. *)
Room(parts) == Len(parts) < Capacity

(* datum_protocol_mining_cmd of the session's thread, which holds the lock of
   the sender from beginning to end.  Its result is not looked at.          *)
MiningCmd ==
  LET header == Append(out, [part |-> "header", key |-> key])
      all == Append(header, [part |-> "body", key |-> BoxNonce])
  IN /\ fetch.at \notin {"boxed", "keyed", "headed"}
     /\ key' = Advanced(key) /\ nonce' = Advanced(nonce)
     /\ out' = IF ~ Room(out) THEN out
               ELSE IF ~ Room(header) THEN header ELSE all
     /\ fault' = (fault \/ ~ Room(out) \/ ~ Room(header) \/ BoxNonce = Stale)

-----------------------------------------------------------------------------
(* The coinbaser thread: datum_protocol_coinbaser_fetch *)

(* The session is looked at once, before the message is enciphered. *)
FetchCheck ==
  /\ fetch.at = "idle" /\ active = 3
  /\ Affordable
  /\ fetch' = [Idle EXCEPT !.at = "checked"]
  /\ UNCHANGED <<active, state, pc, shares, stream, config, link, mainloop,
                 pooled, fault>>

(* datum_protocol_mining_cmd again, step by step: a thread that starts a
   session resets the keys without the lock of the sender.                  *)
FetchBox ==
  /\ fetch.at = "checked"
  /\ fetch' = [fetch EXCEPT !.at = "boxed",
                            !.box = BoxNonce]
  /\ UNCHANGED <<active, state, pc, shares, stream, config, link, mainloop,
                 pooled, fault>>

FetchKey ==
  /\ fetch.at = "boxed"
  /\ fetch' = [fetch EXCEPT !.at = "keyed", !.header = key]
  /\ key' = Advanced(key) /\ nonce' = Advanced(nonce)
  /\ fault' = (fault \/ fetch.box = Stale)
  /\ UNCHANGED <<active, state, pc, shares, out, config, link, mainloop,
                 pooled>>

FetchSend(from, to, part) ==
  /\ fetch.at = from
  /\ fetch' = IF Room(out) /\ to = "headed" THEN [fetch EXCEPT !.at = to]
              ELSE [Idle EXCEPT !.at = "sent"]
  /\ out' = IF Room(out) THEN Append(out, part) ELSE out
  /\ fault' = (fault \/ ~ Room(out) \/ fetch.box = Stale)
  /\ UNCHANGED <<active, state, pc, shares, key, nonce, config, link,
                 mainloop, pooled>>

FetchHeader == FetchSend("keyed", "headed",
                         [part |-> "header", key |-> fetch.header])

FetchBody == FetchSend("headed", "sent", [part |-> "body", key |-> fetch.box])

FetchWait ==
  /\ fetch.at = "sent"
  /\ fetch' = [fetch EXCEPT !.at = "waiting"]
  /\ UNCHANGED <<active, state, pc, shares, stream, config, link, mainloop,
                 pooled, fault>>

(* After five seconds at the latest; a signal that was sent before the thread
   waits is lost.                                                           *)
FetchTimeout ==
  /\ fetch.at = "waiting"
  /\ fetch' = Idle
  /\ UNCHANGED <<active, state, pc, shares, stream, config, link, mainloop,
                 pooled, fault>>

-----------------------------------------------------------------------------
(* The thread of a session: datum_protocol_client *)

StateAtStart == 0

(* Early ends of the thread: active is reset, the queue is not freed. *)
GiveUp(t) ==
  /\ pc' = [pc EXCEPT ![t] = "none"]
  /\ active' = 0

(* Buffers and keys are reset under the lock of the buffer; what is still in
   hand was enciphered for an earlier session.  Then datum_queue_prep, which
   may fail, takes no notice of what was in the queue.                      *)
Start(t) ==
  /\ pc[t] = "start"
  /\ state' = StateAtStart
  /\ key' = Initial /\ nonce' = Stale /\ out' = <<>>
  /\ fetch' = [fetch EXCEPT !.box = Stale, !.header = Stale]
  /\ config' = 0 /\ fault' = FALSE
  /\ pending' = 0
  /\ \/ /\ queue' = t /\ pc' = [pc EXCEPT ![t] = "connect"]
        /\ active' = 1
     \/ queue' = 0 /\ GiveUp(t)
  /\ UNCHANGED <<link, mainloop, pooled>>

(* The name cannot be resolved, there is no socket, no epoll; an error that
   connect reports at once, after which the inner loop calls connect again and
   again with socket -1; or the connection is under way.                    *)
Connect(t) ==
  /\ pc[t] = "connect"
  /\ \/ GiveUp(t) /\ UNCHANGED <<pool, inbox>>
     \/ /\ pc' = [pc EXCEPT ![t] = "spin"]
        /\ UNCHANGED <<active, link>>
     \/ /\ pc' = [pc EXCEPT ![t] = "top"]
        /\ pool' = [Nowhere EXCEPT !.at = "new"] /\ inbox' = <<>>
        /\ UNCHANGED active
  /\ UNCHANGED <<state, shares, stream, config, fetch, mainloop, pooled,
                 fault>>

(* close, then active = 0; the queue comes after it. *)
Close(t) ==
  /\ pc' = [pc EXCEPT ![t] = "free"]
  /\ active' = 0
  /\ pool' = Nowhere /\ inbox' = <<>>

(* Nothing from the pool for too long, or no acceptance of shares. *)
TimeOut(t) ==
  /\ pc[t] = "top" /\ Close(t)
  /\ UNCHANGED <<state, shares, stream, config, fetch, mainloop, pooled,
                 fault>>

(* datum_protocol_pow_queue_submits, whatever state the session is in. *)
Submits(t) ==
  /\ pc[t] = "top"
  /\ IF queue # 0 /\ pending > 0
     THEN /\ MiningCmd
          /\ pending' = pending - 1 /\ UNCHANGED pc
     ELSE /\ pc' = [pc EXCEPT ![t] = "send"]
          /\ UNCHANGED <<pending, stream, pooled, fault>>
  /\ UNCHANGED <<active, state, queue, config, link, fetch, mainloop, pooled>>

(* External: the pool reads the next part of the stream, and makes sense of it
   or not.                                                                  *)
Reads(p, x) ==
  CASE p.at = "new" /\ x.part = "hello" /\ x.key = Initial ->
         [p EXCEPT !.at = "greeted"]
    [] p.at # "new" /\ ~ p.body /\ x.part = "header" /\ x.key = p.n ->
         [p EXCEPT !.body = TRUE]
    [] p.at # "new" /\ p.body /\ x.part = "body" /\ x.key = p.n ->
         [p EXCEPT !.body = FALSE, !.n = @ + 1]
    [] OTHER -> [p EXCEPT !.at = "lost"]

(* send: some of the buffer goes out, part by part. *)
Flush(t) ==
  /\ pc[t] = "send" /\ out # <<>>
  /\ out' = Tail(out)
  /\ pool' = IF pool.at = "lost" THEN pool ELSE Reads(pool, Head(out))
  /\ UNCHANGED <<active, state, pc, shares, key, nonce, config, inbox, fetch,
                 mainloop, pooled, fault>>

FlushFails(t) ==
  /\ pc[t] = "send" /\ out # <<>> /\ Close(t)
  /\ UNCHANGED <<state, shares, stream, config, fetch, mainloop, pooled,
                 fault>>

(* datum_protocol_send_hello: the keys change without the lock of the sender,
   and even if there is no room for the message.                            *)
Hello(t) ==
  /\ pc[t] = "send" /\ state = 0
  /\ key' = 0 /\ nonce' = 0
  /\ IF Room(out)
     THEN /\ out' = Append(out, [part |-> "hello", key |-> key])
          /\ state' = 1
          /\ pc' = [pc EXCEPT ![t] = "poll"]
          /\ UNCHANGED <<active, link>>
     ELSE Close(t) /\ UNCHANGED <<out, state>>
  /\ UNCHANGED <<shares, config, fetch, mainloop, pooled, fault>>

(* The switch over datum_state, past the hello. *)
Switch(t) ==
  /\ pc[t] = "send" /\ state # 0
  /\ active' = IF state = 1 THEN active ELSE state
  /\ pooled' = (pooled \/ state = 3)
  /\ pc' = [pc EXCEPT ![t] = "poll"]
  /\ UNCHANGED <<state, shares, stream, config, link, fetch, mainloop, fault>>

(* Mutant: the session is ready before the fields have been read. *)
ConfiguredStateEarly(m) == 3

(* datum_protocol_client_configure: the fields of a message that ends early
   have been taken over, but the session is not ready.                      *)
ConfiguredState(m) == IF m.whole THEN 3 ELSE state

Larger(a, b) == IF a < b THEN b ELSE a

(* datum_protocol_server_msg: the answer to the hello, the configuration, or a
   split, which wakes the coinbaser thread if it waits.  The other messages
   change nothing here: share responses, validation requests (PoolShares),
   new blocks (TemplateRing), pings, texts.                                 *)
Receive(t) ==
  /\ pc[t] = "poll" /\ inbox # <<>>
  /\ LET m == Head(inbox)
     IN /\ state' = CASE m.msg = "answer" -> 2
                     [] m.msg = "configure" -> ConfiguredState(m)
                     [] m.msg = "split" -> state
        /\ config' = IF m.msg = "configure" THEN Larger(config, m.fields)
                     ELSE config
        /\ fetch' = IF m.msg = "split" /\ fetch.at = "waiting" THEN Idle
                    ELSE fetch
  /\ inbox' = Tail(inbox)
  /\ pc' = [pc EXCEPT ![t] = "top"]
  /\ UNCHANGED <<active, shares, stream, pool, mainloop, pooled, fault>>

(* Nothing has come within five milliseconds. *)
PollNothing(t) ==
  /\ pc[t] = "poll"
  /\ pc' = [pc EXCEPT ![t] = "top"]
  /\ UNCHANGED <<active, state, shares, stream, config, link, fetch, mainloop,
                 pooled, fault>>

(* The connection has ended, the message cannot be deciphered, or its header
   has come in three pieces.                                                *)
PollFails(t) ==
  /\ pc[t] = "poll" /\ Close(t)
  /\ UNCHANGED <<state, shares, stream, config, fetch, mainloop, pooled,
                 fault>>

(* datum_queue_free, of whatever queue there is by now.  The thread then waits
   for up to five seconds for the next session and asks for a new job; that is
   the urgent notification of TemplateRing.                                 *)
Free(t) ==
  /\ pc[t] = "free"
  /\ pc' = [pc EXCEPT ![t] = "none"]
  /\ queue' = 0 /\ pending' = 0
  /\ UNCHANGED <<active, state, stream, config, link, fetch, mainloop, pooled,
                 fault>>

-----------------------------------------------------------------------------
(* Stratum threads and the pool *)

(* datum_protocol_pow_submit: a share of a job of the pool.  There are such
   jobs as soon as there has been a session, and they outlive it.           *)
PowSubmit ==
  /\ pooled
  /\ queue # 0 /\ pending < MaxPending /\ Affordable
  /\ pending' = pending + 1
  /\ UNCHANGED <<active, state, pc, queue, stream, config, link, fetch,
                 mainloop, pooled, fault>>

(* External: the pool answers a hello, configures the session, well or not,
   and sends splits afterwards, asked or not.                               *)
PoolSends ==
  /\ Len(inbox) < MaxInbox
  /\ \/ /\ pool.at = "greeted"
        /\ pool' = [pool EXCEPT !.at = "shaken"]
        /\ inbox' = Append(inbox, [msg |-> "answer"])
     \/ /\ pool.at = "shaken"
        /\ \E n \in Cuts :
             inbox' = Append(inbox, [msg |-> "configure", fields |-> n,
                                     whole |-> FALSE])
        /\ UNCHANGED pool
     \/ /\ pool.at = "shaken"
        /\ pool' = [pool EXCEPT !.at = "ready"]
        /\ inbox' = Append(inbox, [msg |-> "configure", fields |-> Fields,
                                   whole |-> TRUE])
     \/ /\ pool.at = "ready"
        /\ inbox' = Append(inbox, [msg |-> "split"])
        /\ UNCHANGED pool
  /\ UNCHANGED <<active, state, pc, shares, stream, config, fetch, mainloop,
                 pooled, fault>>

-----------------------------------------------------------------------------
(* The main loop *)

(* Mutant: active is left to the thread. *)
StartConnectorLate(t) == pc' = [pc EXCEPT ![t] = "start"] /\ UNCHANGED active

(* datum_protocol_start_connector; the thread may not come about. *)
StartConnector(t) ==
  \/ pc' = [pc EXCEPT ![t] = "start"] /\ active' = 1
  \/ UNCHANGED <<pc, active>>

(* The fifteen seconds that main waits for the pool. *)
Boot ==
  /\ booting
  /\ \/ /\ active = 0
        /\ \E t \in NextThread : StartConnector(t)
        /\ UNCHANGED booting
     \/ booting' = FALSE /\ UNCHANGED <<pc, active>>
  /\ UNCHANGED <<state, shares, stream, config, link, fetch, retries,
                 rejecting, pooled, fault>>

(* Mutant: a thread that runs counts as a session. *)
RetriesNowThread == IF active # 0 THEN 0 ELSE retries

RetriesNow == IF active = 3 THEN 0 ELSE retries

(* A pass of the loop, in pooled mining only: fail_retries, rejecting, and a
   new thread if there is none and the delay has passed.                    *)
MainLoop(due) ==
  /\ ~ booting
  /\ rejecting' = (RetriesNow >= RejectAfter /\ active # 3)
  /\ \/ /\ active = 0 /\ due
        /\ \E t \in NextThread : StartConnector(t)
        /\ retries' = IF RetriesNow < RejectAfter THEN RetriesNow + 1
                      ELSE RejectAfter
     \/ /\ active # 0 \/ ~ due
        /\ retries' = RetriesNow
        /\ UNCHANGED <<pc, active>>
  /\ UNCHANGED <<state, shares, stream, config, link, fetch, booting, pooled,
                 fault>>

Run(t) ==
  \/ Start(t) \/ Connect(t)
  \/ Submits(t) \/ Flush(t) \/ Hello(t) \/ Switch(t)
  \/ Receive(t) \/ PollNothing(t)
  \/ Free(t)

Coinbaser ==
  FetchCheck \/ FetchBox \/ FetchKey \/ FetchHeader \/ FetchBody \/ FetchWait
  \/ FetchTimeout

Next ==
  \/ \E t \in Threads :
       Run(t) \/ TimeOut(t) \/ FlushFails(t) \/ PollFails(t)
  \/ Coinbaser \/ PowSubmit \/ PoolSends
  \/ Boot \/ \E due \in BOOLEAN : MainLoop(due)

Spec == Init /\ [][Next]_vars

(* The threads keep running; the delay between two attempts passes; a session
   that the pool does not configure is given up in the end, as the pool falls
   silent then.                                                             *)
FairSpec ==
  /\ Spec
  /\ \A t \in Threads : WF_vars(Run(t)) /\ SF_vars(TimeOut(t) /\ active # 3)
  /\ WF_vars(Boot /\ ~ booting') /\ WF_vars(MainLoop(TRUE))
  /\ WF_vars(Coinbaser)

-----------------------------------------------------------------------------
(* There is never more than one thread with a session in hand, although active
   is a plain variable that the main loop tests and the threads reset.      *)
OneSession ==
  /\ TypeOK
  /\ Cardinality({t \in Threads : pc[t] \in InSession}) =
       IF active = 0 THEN 0 ELSE 1

(* Work is made for the pool only with a configuration that came, completely,
   in this session.                                                         *)
ConfiguredHere == active = 3 => config = Fields

(* As long as no message is refused by the buffer, sent before the pool has
   answered, or carried over from the last session, the pool can read all of
   the stream: threads never get keys and nonces out of step.               *)
PoolUnderstands == pool.at = "lost" => fault

(* A session that is lost is replaced, or the miners are turned away, unless
   the thread is stuck in its connect loop.                                 *)
PoolLossHandled ==
  active # 3 ~> (active = 3 \/ rejecting \/ \E t \in Threads : pc[t] = "spin")
=============================================================================
