-------------------------- MODULE PoolSessionProofs --------------------------
(***************************************************************************)
(* Sessions with the pool: there is one at a time, it is configured by its *)
(* own messages, and its stream can be read as long as nothing was lost or *)
(* enciphered for another session; for any number of threads, messages and *)
(* shares and any size of the send buffer.                                 *)
(*                                                                         *)
(* That keys and nonces stay in step is shown by counting: every part of   *)
(* the stream has a place in it that follows from the key it was enciphered *)
(* with, and what the pool has read, what the buffer holds and what the     *)
(* coinbaser thread has in hand are consecutive.                            *)
(***************************************************************************)
EXTENDS PoolSession, FiniteSetTheorems, TLAPS

(* The types, apart: what belongs to the session, and to its stream. *)
SessionTypes ==
  /\ active \in 0..3 /\ state \in 0..3
  /\ queue \in Threads \cup {0}
  /\ config \in 0..Fields
  /\ inbox \in Seq(Message)
  /\ retries \in 0..RejectAfter

FlagTypes ==
  /\ booting \in BOOLEAN /\ rejecting \in BOOLEAN /\ pooled \in BOOLEAN
  /\ fault \in BOOLEAN

StreamTypes ==
  /\ pending \in 0..MaxPending
  /\ key \in Key \cup {Initial} /\ nonce \in Key
  /\ out \in Seq(Part) /\ Len(out) <= Capacity
  /\ pool \in PoolState
  /\ fetch \in Fetch

(* Every message that waits still has a number to get. *)
Numbered ==
  /\ Unsent <= MaxSends /\ key + Unsent <= MaxSends /\ nonce + Unsent <= MaxSends
  /\ fetch.box < MaxSends /\ fetch.header < MaxSends
  /\ \A i \in 1..Len(out) : out[i].part = "hello" \/ out[i].key < MaxSends

(* active tells whether some thread has a session in hand, and no two have. *)
OneThread ==
  /\ pc \in [Threads -> Places]
  /\ active # 0 <=> \E t \in Threads : pc[t] \in InSession
  /\ \A t, u \in Threads :
       pc[t] \in InSession /\ pc[u] \in InSession => t = u

(* The state is that of the configuration, and the pool sends whole ones. *)
Configured ==
  /\ active = 3 \/ state = 3 => config = Fields
  /\ \A i \in 1..Len(inbox) :
       inbox[i].msg = "configure" /\ inbox[i].whole => inbox[i].fields = Fields

Opening == \E t \in Threads : pc[t] \in {"connect", "spin"}

Connected == \E t \in Threads : pc[t] \in {"top", "send", "poll"}

(* Where the threads are and how far the session is. *)
Phases ==
  /\ pool.at # "none" => Connected
  /\ Opening => state = 0
  /\ \A t \in Threads : pc[t] = "poll" => state # 0
  /\ state < 2 => fetch.box = Stale

BeforeHello == key = Initial /\ out = <<>>

(* The place of a part in the stream, and the place the pool reads next. *)
PlaceOf(x, i) ==
  \/ x.part = "hello" /\ x.key = Initial /\ i = 0
  \/ x.part = "header" /\ x.key \in Nat /\ i = 2 * x.key + 1
  \/ x.part = "body" /\ x.key \in Nat /\ i = 2 * x.key + 2

Position(p) == IF p.at = "new" THEN 0 ELSE 2 * p.n + IF p.body THEN 2 ELSE 1

(* The coinbaser thread has a message of this session in hand. *)
InHand(at) == fetch.at = at /\ fetch.box # Stale

(* Where the next part that is sent goes. *)
NextAt == Position(pool) + Len(out)

InStep ==
  /\ \A i \in 1..Len(out) : PlaceOf(out[i], Position(pool) + i - 1)
  /\ key = nonce /\ nonce \in Nat
  /\ InHand("boxed") => fetch.box = nonce
  /\ InHand("keyed") => /\ nonce = fetch.box + 1 /\ fetch.header = fetch.box
                        /\ NextAt = 2 * fetch.box + 1
  /\ InHand("headed") => /\ nonce = fetch.box + 1
                         /\ NextAt = 2 * fetch.box + 2
  /\ ~ InHand("keyed") /\ ~ InHand("headed") => NextAt = 2 * nonce + 1

StreamOK ==
  /\ pool.at \notin {"none", "lost"}
  /\ pool.at = "new" => pool.n = 0 /\ ~ pool.body
  /\ IF state = 0 THEN pool.at = "new" /\ BeforeHello ELSE InStep

StreamInv ==
  ~ fault => (Opening => BeforeHello) /\ (Connected => StreamOK)

-----------------------------------------------------------------------------
(* The threads                                                             *)

(* The thread with the session goes on, gives it up, or is started; one that
   has given it up is done; everybody else leaves threads and active alone.  *)
GoesOn(t, p) ==
  /\ pc[t] \in InSession /\ p \in InSession
  /\ pc' = [pc EXCEPT ![t] = p] /\ active' # 0
Ends(t, p) ==
  /\ pc[t] \in InSession /\ p \in {"none", "free"}
  /\ pc' = [pc EXCEPT ![t] = p] /\ active' = 0
Begins(t) ==
  /\ pc[t] = "none" /\ active = 0
  /\ pc' = [pc EXCEPT ![t] = "start"] /\ active' = 1
Leaves(t) ==
  /\ pc[t] = "free"
  /\ pc' = [pc EXCEPT ![t] = "none"] /\ active' = active
Rests == UNCHANGED <<pc, active>>

(* Every step is one of these. *)
LEMMA StartMoves ==
  ASSUME NEW t \in Threads, pc \in [Threads -> Places], OneThread,
         Start(t) \/ Connect(t)
  PROVE  \E p \in InSession : GoesOn(t, p) \/ Ends(t, "none")
<1>0. pc[t] \in InSession => active # 0
  BY DEF OneThread
<1>1. CASE Start(t)
  <2>1. /\ pc[t] = "start"
        /\ \/ pc' = [pc EXCEPT ![t] = "connect"] /\ active' = 1
           \/ pc' = [pc EXCEPT ![t] = "none"] /\ active' = 0
    BY <1>1, Zenon DEF Start, GiveUp
  <2>2. QED
    BY <2>1 DEF GoesOn, Ends, InSession, Places
<1>2. CASE Connect(t)
  <2>1. /\ pc[t] = "connect"
        /\ \/ pc' = [pc EXCEPT ![t] = "none"] /\ active' = 0
           \/ pc' = [pc EXCEPT ![t] = "spin"] /\ active' = active
           \/ pc' = [pc EXCEPT ![t] = "top"] /\ active' = active
    BY <1>2, Zenon DEF Connect, GiveUp
  <2>2. active # 0
    BY <1>0, <2>1 DEF InSession, Places
  <2>3. QED
    BY <2>1, <2>2 DEF GoesOn, Ends, InSession, Places
<1>3. QED
  BY <1>1, <1>2

(* What a step of the connection thread does to the places of the threads. *)
LEMMA RunMoves ==
  ASSUME NEW t \in Threads, OneThread, active \in 0..3, state \in 0..3,
         Run(t) \/ TimeOut(t) \/ FlushFails(t) \/ PollFails(t)
  PROVE  \/ \E p \in InSession : GoesOn(t, p)
         \/ Ends(t, "none") \/ Ends(t, "free") \/ Leaves(t) \/ Rests
<1>0. /\ pc \in [Threads -> Places]
      /\ pc[t] \in InSession => active # 0
  BY DEF OneThread
<1>1. CASE Start(t) \/ Connect(t)
  BY <1>0, <1>1, StartMoves
<1>2. CASE Submits(t)
  BY <1>0, <1>2 DEF Submits, GoesOn, Rests, InSession, Places
<1>3. CASE Flush(t)
  BY <1>3 DEF Flush, Rests
<1>4. CASE Hello(t)
  BY <1>0, <1>4 DEF Hello, Close, GoesOn, Ends, InSession, Places
<1>5. CASE Switch(t)
  BY <1>0, <1>5 DEF Switch, GoesOn, InSession, Places
<1>6. CASE Receive(t)
  BY <1>0, <1>6 DEF Receive, GoesOn, InSession, Places
<1>7. CASE PollNothing(t)
  BY <1>0, <1>7 DEF PollNothing, GoesOn, InSession, Places
<1>8. CASE Free(t)
  BY <1>8 DEF Free, Leaves
<1>9. CASE TimeOut(t) \/ FlushFails(t) \/ PollFails(t)
  BY <1>9 DEF TimeOut, FlushFails, PollFails, Close, Ends, InSession, Places
<1>10. QED
  BY <1>1, <1>2, <1>3, <1>4, <1>5, <1>6, <1>7, <1>8, <1>9 DEF Run

(* The main loop starts a thread only where active says that there is none. *)
LEMMA MainMoves ==
  ASSUME Boot \/ \E due \in BOOLEAN : MainLoop(due)
  PROVE  Rests \/ \E t \in Threads : Begins(t)
<1>1. ASSUME NEW t \in NextThread, StartConnector(t), active = 0
      PROVE  Rests \/ \E u \in Threads : Begins(u)
  <2>1. t \in Threads /\ pc[t] = "none"
    BY DEF NextThread, FirstOf
  <2>2. QED
    BY <1>1, <2>1 DEF StartConnector, Begins, Rests
<1>2. CASE Boot
  BY <1>1, <1>2 DEF Boot, Rests
<1>3. ASSUME NEW due \in BOOLEAN, MainLoop(due)
      PROVE  Rests \/ \E t \in Threads : Begins(t)
  BY <1>1, <1>3 DEF MainLoop, Rests
<1>4. QED
  BY <1>2, <1>3

(* The other actors do not move the connection threads. *)
LEMMA OtherMoves ==
  ASSUME Coinbaser \/ PowSubmit \/ PoolSends \/ UNCHANGED vars
  PROVE  Rests
  BY DEF Coinbaser, FetchCheck, FetchBox, FetchKey, FetchHeader, FetchBody,
         FetchSend, FetchWait, FetchTimeout, PowSubmit, PoolSends, vars, Rests

(* One thread at a time, whatever it does. *)
LEMMA OneThreadMoves ==
  ASSUME OneThread,
         \/ \E t \in Threads : \/ \E p \in InSession : GoesOn(t, p)
                               \/ Ends(t, "none") \/ Ends(t, "free")
                               \/ Begins(t) \/ Leaves(t)
         \/ Rests
  PROVE  OneThread'
<1>1. InSession \subseteq Places /\ "start" \in InSession
      /\ "none" \in Places \ InSession /\ "free" \in Places \ InSession
  BY DEF InSession, Places
<1>2. ASSUME NEW t \in Threads, NEW p \in InSession, GoesOn(t, p)
      PROVE  OneThread'
  BY <1>1, <1>2 DEF OneThread, GoesOn
<1>3. ASSUME NEW t \in Threads, NEW p \in {"none", "free"}, Ends(t, p)
      PROVE  OneThread'
  BY <1>1, <1>3 DEF OneThread, Ends
<1>4. ASSUME NEW t \in Threads, Begins(t)
      PROVE  OneThread'
  BY <1>1, <1>4 DEF OneThread, Begins
<1>5. ASSUME NEW t \in Threads, Leaves(t)
      PROVE  OneThread'
  BY <1>1, <1>5 DEF OneThread, Leaves
<1>6. CASE Rests
  BY <1>6 DEF OneThread, Rests
<1>7. QED
  BY <1>2, <1>3, <1>4, <1>5, <1>6

(* At most one thread has a session in hand, whoever takes the step. *)
LEMMA OneThreadStep ==
  ASSUME OneThread, active \in 0..3, state \in 0..3, [Next]_vars
  PROVE  OneThread'
<1>1. ASSUME NEW t \in Threads,
             Run(t) \/ TimeOut(t) \/ FlushFails(t) \/ PollFails(t)
      PROVE  OneThread'
  BY <1>1, RunMoves, OneThreadMoves
<1>2. CASE Boot \/ \E due \in BOOLEAN : MainLoop(due)
  BY <1>2, MainMoves, OneThreadMoves
<1>3. CASE Coinbaser \/ PowSubmit \/ PoolSends \/ UNCHANGED vars
  BY <1>3, OtherMoves, OneThreadMoves
<1>4. QED
  BY <1>1, <1>2, <1>3 DEF Next

(* The thread that datum_protocol_init starts is the only one. *)
LEMMA OneThreadInit ==
  ASSUME Init
  PROVE  OneThread
<1>1. 1 \in Threads /\ \A u \in Threads : FirstOf(Threads, u) <=> u = 1
  BY SessionAssumption DEF FirstOf
<1>2. \A u \in Threads : pc[u] = IF u = 1 THEN "start" ELSE "none"
  BY <1>1 DEF Init
<1>3. pc \in [Threads -> Places] /\ active # 0
  BY DEF Init, Places
<1>4. QED
  BY <1>1, <1>2, <1>3 DEF OneThread, InSession, Places

-----------------------------------------------------------------------------
(* The session and its configuration                                       *)

(* Queues of messages or parts, at their two ends. *)
LEMMA QueueEnds ==
  ASSUME NEW S, NEW q \in Seq(S)
  PROVE  /\ \A x \in S : /\ Append(q, x) \in Seq(S)
                         /\ Len(Append(q, x)) = Len(q) + 1
                         /\ Append(q, x)[Len(q) + 1] = x
                         /\ \A i \in 1..Len(q) : Append(q, x)[i] = q[i]
         /\ q # <<>> => /\ Head(q) \in S /\ Tail(q) \in Seq(S)
                        /\ 1 \in 1..Len(q) /\ Head(q) = q[1]
                        /\ Len(Tail(q)) = Len(q) - 1
                        /\ \A i \in 1..Len(Tail(q)) : i + 1 \in 1..Len(q)
                                                      /\ Tail(q)[i] = q[i + 1]
  OBVIOUS

(* Only a configuration has fields. *)
LEMMA MessageFields ==
  ASSUME NEW m \in Message, m.msg = "configure"
  PROVE  m.fields \in 0..Fields /\ m.whole \in BOOLEAN
  BY DEF Message

SessionInv == SessionTypes /\ Configured

(* datum_protocol_client_configure: the session is ready only with all fields. *)
LEMMA SessionReceive ==
  ASSUME SessionInv, NEW t \in Threads, Receive(t)
  PROVE  SessionInv'
<1> DEFINE m == Head(inbox)
<1>1. /\ inbox # <<>> /\ inbox \in Seq(Message) /\ inbox' = Tail(inbox)
      /\ config \in 0..Fields /\ state \in 0..3 /\ active \in 0..3
      /\ UNCHANGED <<active, queue, retries>>
  BY DEF Receive, SessionInv, SessionTypes, shares, mainloop
<1>2. /\ state' = CASE m.msg = "answer" -> 2
                    [] m.msg = "configure" -> ConfiguredState(m)
                    [] m.msg = "split" -> state
      /\ config' = IF m.msg = "configure" THEN Larger(config, m.fields)
                   ELSE config
  BY DEF Receive
<1>3. /\ m \in Message /\ m.msg \in {"answer", "configure", "split"}
      /\ m = inbox[1] /\ 1 \in 1..Len(inbox)
      /\ inbox' \in Seq(Message)
      /\ \A i \in 1..Len(inbox') : i + 1 \in 1..Len(inbox)
                                   /\ inbox'[i] = inbox[i + 1]
  <2>1. \A x \in Message : x.msg \in {"answer", "configure", "split"}
    BY DEF Message
  <2>2. QED
    BY <1>1, <2>1, QueueEnds
<1>4. config' \in 0..Fields /\ config <= config'
  <2>1. m.msg = "configure" => m.fields \in 0..Fields
    BY <1>3, MessageFields
  <2>2. QED
    BY <1>1, <1>2, <2>1 DEF Larger, Fields
<1>5. state' \in 0..3 /\ (state' = 3 => config' = Fields)
  <2>1. CASE m.msg = "configure" /\ m.whole
    <3>1. m.fields = Fields
      BY <1>3, <2>1 DEF SessionInv, Configured
    <3>2. state' = 3
      BY <1>2, <2>1 DEF ConfiguredState
    <3>3. config' = Larger(config, Fields)
      BY <1>2, <2>1, <3>1
    <3>4. QED
      BY <1>1, <3>2, <3>3 DEF Larger, Fields
  <2>2. CASE m.msg = "configure" /\ ~ m.whole
    <3>1. state' = state
      BY <1>2, <2>2 DEF ConfiguredState
    <3>2. QED
      BY <1>1, <1>4, <3>1 DEF SessionInv, Configured, Fields
  <2>3. CASE m.msg = "answer"
    BY <1>2, <2>3
  <2>4. CASE m.msg = "split"
    <3>1. state' = state
      BY <1>2, <2>4
    <3>2. QED
      BY <1>1, <1>4, <3>1 DEF SessionInv, Configured, Fields
  <2>5. QED
    BY <1>3, <2>1, <2>2, <2>3, <2>4
<1>6. Configured'
  <2>1. active = 3 => config' = Fields
    BY <1>1, <1>4 DEF SessionInv, Configured, Fields
  <2>2. QED
    BY <1>1, <1>3, <1>5, <2>1 DEF SessionInv, Configured
<1>7. QED
  BY <1>1, <1>3, <1>4, <1>5, <1>6 DEF SessionInv, SessionTypes

(* External: what the pool sends as a whole configuration is one. *)
LEMMA SessionPoolSends ==
  ASSUME SessionInv, PoolSends
  PROVE  SessionInv'
<1>1. UNCHANGED <<active, state, queue, config, retries>>
  BY DEF PoolSends, shares, mainloop
<1>2. PICK m \in Message :
        /\ inbox' = Append(inbox, m)
        /\ m.msg = "configure" /\ m.whole => m.fields = Fields
  <2>1. Cuts \subseteq 0..Fields /\ Fields \in 0..Fields
    BY SessionAssumption DEF Fields
  <2>2. /\ [msg |-> "answer"] \in Message /\ [msg |-> "split"] \in Message
        /\ \A n \in 0..Fields, w \in BOOLEAN :
             [msg |-> "configure", fields |-> n, whole |-> w] \in Message
    BY DEF Message
  <2>3. QED
    BY <2>1, <2>2 DEF PoolSends
<1>3. /\ inbox \in Seq(Message) /\ inbox' \in Seq(Message)
      /\ Len(inbox') = Len(inbox) + 1 /\ inbox'[Len(inbox) + 1] = m
      /\ \A i \in 1..Len(inbox) : inbox'[i] = inbox[i]
  BY <1>2, QueueEnds DEF SessionInv, SessionTypes
<1>4. Configured'
  <2>1. ASSUME NEW i \in 1..Len(inbox'), inbox'[i].msg = "configure",
               inbox'[i].whole
        PROVE  inbox'[i].fields = Fields
    <3>1. CASE i = Len(inbox) + 1
      BY <1>2, <1>3, <2>1, <3>1
    <3>2. CASE i \in 1..Len(inbox)
      BY <1>3, <2>1, <3>2 DEF SessionInv, Configured
    <3>3. QED
      BY <1>3, <3>1, <3>2
  <2>2. QED
    BY <1>1, <2>1 DEF SessionInv, Configured
<1>5. QED
  BY <1>1, <1>3, <1>4 DEF SessionInv, SessionTypes

(* Threads that start, connect or close a session. *)
LEMMA SessionRuns ==
  ASSUME SessionInv, NEW t \in Threads,
         Run(t) \/ TimeOut(t) \/ FlushFails(t) \/ PollFails(t)
  PROVE  SessionInv'
<1>1. ASSUME active' \in 0..3, state' \in 0..3, config' = config, queue' = queue,
             retries' = retries, inbox' = <<>>, active' = 3 \/ state' = 3 =>
                                                active = 3 \/ state = 3
      PROVE  SessionInv'
  <2>1. inbox' \in Seq(Message) /\ \A i \in 1..Len(inbox') : FALSE
    BY <1>1
  <2>2. QED
    BY <1>1, <2>1 DEF SessionInv, SessionTypes, Configured
<1> USE DEF SessionInv, SessionTypes, Configured, shares, link, mainloop
<1>2. CASE Start(t)
  BY <1>2 DEF Start, StateAtStart, GiveUp, Fields
<1>3. CASE Connect(t)
  <2>1. CASE UNCHANGED inbox
    BY <1>3, <2>1 DEF Connect, GiveUp
  <2>2. CASE inbox' = <<>>
    <3>1. active' \in 0..3 /\ (active' = 3 => active = 3)
          /\ UNCHANGED <<state, config, queue, retries>>
      BY <1>3 DEF Connect, GiveUp
    <3>2. QED
      BY <1>1, <2>2, <3>1
  <2>3. QED
    BY <1>3, <2>1, <2>2 DEF Connect
<1>4. CASE Submits(t)
  BY <1>4 DEF Submits
<1>5. CASE Flush(t)
  BY <1>5 DEF Flush
<1>6. CASE Hello(t)
  <2>1. CASE Room(out)
    BY <1>6, <2>1 DEF Hello
  <2>2. CASE ~ Room(out)
    <3>1. active' = 0 /\ inbox' = <<>>
          /\ UNCHANGED <<state, config, queue, retries>>
      BY <1>6, <2>2 DEF Hello, Close
    <3>2. QED
      BY <1>1, <3>1
  <2>3. QED
    BY <2>1, <2>2
<1>7. CASE Switch(t)
  BY <1>7 DEF Switch
<1>8. CASE Receive(t)
  BY <1>8, SessionReceive
<1>9. CASE PollNothing(t)
  BY <1>9 DEF PollNothing
<1>10. CASE Free(t)
  BY <1>10 DEF Free
<1>11. CASE TimeOut(t) \/ FlushFails(t) \/ PollFails(t)
  <2>1. active' = 0 /\ inbox' = <<>>
        /\ UNCHANGED <<state, config, queue, retries>>
    BY <1>11 DEF TimeOut, FlushFails, PollFails, Close
  <2>2. QED
    BY <1>1, <2>1
<1>12. QED
  BY <1>2, <1>3, <1>4, <1>5, <1>6, <1>7, <1>8, <1>9, <1>10, <1>11 DEF Run

(* What a session knows of the pool belongs to it, whoever takes the step. *)
LEMMA SessionStep ==
  ASSUME SessionInv, [Next]_vars
  PROVE  SessionInv'
<1>1. ASSUME NEW t \in Threads,
             Run(t) \/ TimeOut(t) \/ FlushFails(t) \/ PollFails(t)
      PROVE  SessionInv'
  BY <1>1, SessionRuns
<1>2. CASE Boot \/ \E due \in BOOLEAN : MainLoop(due)
  <2>1. active' \in {1, active} /\ retries' \in 0..RejectAfter
        /\ UNCHANGED <<state, queue, config, inbox>>
    BY <1>2 DEF Boot, MainLoop, StartConnector, RetriesNow, RejectAfter,
                SessionInv, SessionTypes, shares, link
  <2>2. QED
    BY <2>1 DEF SessionInv, SessionTypes, Configured
<1>3. CASE Coinbaser \/ PowSubmit \/ UNCHANGED vars
  <2>1. UNCHANGED <<active, state, queue, config, inbox, retries>>
    BY <1>3 DEF Coinbaser, FetchCheck, FetchBox, FetchKey, FetchHeader,
       FetchBody, FetchSend, FetchWait, FetchTimeout, PowSubmit, vars, shares,
       link, mainloop
  <2>2. QED
    BY <2>1 DEF SessionInv, SessionTypes, Configured
<1>4. CASE PoolSends
  BY <1>4, SessionPoolSends
<1>5. QED
  BY <1>1, <1>2, <1>3, <1>4 DEF Next

(* Before the first session there is nothing to know. *)
LEMMA SessionInit ==
  ASSUME Init
  PROVE  SessionInv
  BY DEF Init, SessionInv, SessionTypes, Configured, Fields, RejectAfter

(* datum_protocol_client_configure: work is made for the pool only with a
   configuration that came, completely, in this session.                    *)
THEOREM ConfiguredHereAlways == Spec => []ConfiguredHere
<1>1. Init => SessionInv
  BY SessionInit
<1>2. SessionInv /\ [Next]_vars => SessionInv'
  BY SessionStep
<1>3. SessionInv => ConfiguredHere
  BY DEF SessionInv, Configured, ConfiguredHere
<1>4. QED
  BY <1>1, <1>2, <1>3, PTL DEF Spec

-----------------------------------------------------------------------------
(* The types of the stream                                                 *)

StreamBounds == StreamTypes /\ Numbered

(* The part of a message that goes into the buffer. *)
LEMMA PartAppended ==
  ASSUME NEW q \in Seq(Part), NEW x \in Part, Len(q) < Capacity,
         x.part = "hello" \/ x.key < MaxSends,
         \A i \in 1..Len(q) : q[i].part = "hello" \/ q[i].key < MaxSends
  PROVE  /\ Append(q, x) \in Seq(Part) /\ Len(Append(q, x)) <= Capacity
         /\ \A i \in 1..Len(Append(q, x)) :
              Append(q, x)[i].part = "hello" \/ Append(q, x)[i].key < MaxSends
<1>1. /\ Append(q, x) \in Seq(Part) /\ Len(Append(q, x)) = Len(q) + 1
      /\ Append(q, x)[Len(q) + 1] = x
      /\ \A i \in 1..Len(q) : Append(q, x)[i] = q[i]
  BY QueueEnds
<1>2. Len(q) \in Nat /\ Capacity \in Nat
  BY SessionAssumption
<1>3. ASSUME NEW i \in 1..Len(Append(q, x))
      PROVE  Append(q, x)[i].part = "hello" \/ Append(q, x)[i].key < MaxSends
  <2>1. i = Len(q) + 1 \/ i \in 1..Len(q)
    BY <1>1, <1>2
  <2>2. QED
    BY <1>1, <2>1
<1>4. QED
  BY <1>1, <1>2, <1>3

(* The numbers of the types. *)
LEMMA StreamNumbers ==
  ASSUME StreamBounds
  PROVE  /\ MaxSends \in Nat /\ MaxPending \in Nat /\ Capacity \in Nat
         /\ pending \in Nat /\ key \in Int /\ nonce \in Int
         /\ -2 <= key /\ -1 <= nonce
         /\ Unsent = pending + (IF fetch.at \in {"checked", "boxed"} THEN 1 ELSE 0)
         /\ Unsent \in Nat
         /\ Stale = 0 - 1 /\ Initial = 0 - 2
         /\ fetch.box \in Key /\ fetch.header \in Key \cup {Initial}
  BY SessionAssumption
     DEF StreamBounds, StreamTypes, Key, Stale, Initial, Unsent, Fetch

(* Keys and nonces stay within the bound as long as a number is left. *)
LEMMA AdvancedBound ==
  ASSUME MaxSends \in Nat, NEW k \in Key \cup {Initial}, k < MaxSends
  PROVE  Advanced(k) \in Key /\ Advanced(k) <= k + 1
  BY DEF Advanced, Key, Stale, Initial

(* datum_protocol_mining_cmd uses up one number. *)
LEMMA MiningBounds ==
  ASSUME StreamBounds, MiningCmd, pending > 0, pending' = pending - 1,
         UNCHANGED <<fetch, pool>>
  PROVE  StreamBounds'
<1> USE StreamNumbers
<1>1. /\ key + Unsent <= MaxSends /\ nonce + Unsent <= MaxSends
      /\ Unsent <= MaxSends /\ Unsent >= 1
  BY DEF StreamBounds, Numbered
<1>2. /\ key < MaxSends /\ nonce < MaxSends
      /\ key \in Key \cup {Initial} /\ nonce \in Key
  <2>1. key < MaxSends /\ nonce < MaxSends
    BY <1>1
  <2>2. key \in Key \cup {Initial} /\ nonce \in Key
    BY DEF StreamBounds, StreamTypes
  <2>3. QED
    BY <2>1, <2>2
<1>3. key' = Advanced(key) /\ nonce' = Advanced(nonce)
  BY DEF MiningCmd
<1>4. key' \in Key /\ nonce' \in Key /\ key' <= key + 1 /\ nonce' <= nonce + 1
  BY <1>2, <1>3, AdvancedBound
<1>5. Unsent' = Unsent - 1
  BY DEF Unsent
<1>6. /\ out' \in Seq(Part) /\ Len(out') <= Capacity
      /\ \A i \in 1..Len(out') : out'[i].part = "hello" \/ out'[i].key < MaxSends
  <2> DEFINE h == [part |-> "header", key |-> key]
             b == [part |-> "body", key |-> BoxNonce]
  <2>1. h \in Part /\ b \in Part /\ h.key < MaxSends /\ b.key < MaxSends
    <3>1. /\ BoxNonce \in Key \cup {Initial} /\ BoxNonce < MaxSends
          /\ key \in Key \cup {Initial} /\ key < MaxSends
      BY <1>2 DEF BoxNonce, Key
    <3>2. QED
      BY <3>1 DEF Part
  <2>2. /\ out \in Seq(Part) /\ Len(out) <= Capacity
        /\ \A i \in 1..Len(out) : out[i].part = "hello" \/ out[i].key < MaxSends
    BY DEF StreamBounds, StreamTypes, Numbered
  <2>3. out' = IF ~ Room(out) THEN out
               ELSE IF ~ Room(Append(out, h)) THEN Append(out, h)
               ELSE Append(Append(out, h), b)
    BY DEF MiningCmd
  <2> HIDE DEF h, b
  <2>4. CASE ~ Room(out)
    BY <2>2, <2>3, <2>4
  <2>5. CASE Room(out) /\ ~ Room(Append(out, h))
    BY <2>1, <2>2, <2>3, <2>5, PartAppended DEF Room
  <2>6. CASE Room(out) /\ Room(Append(out, h))
    <3>1. out' = Append(Append(out, h), b)
      BY <2>3, <2>6
    <3>2. /\ Append(out, h) \in Seq(Part) /\ Len(Append(out, h)) < Capacity
          /\ \A i \in 1..Len(Append(out, h)) :
               Append(out, h)[i].part = "hello" \/ Append(out, h)[i].key < MaxSends
      BY <2>1, <2>2, <2>6, PartAppended DEF Room
    <3>3. QED
      BY <2>1, <3>1, <3>2, PartAppended
  <2>7. QED
    BY <2>4, <2>5, <2>6
<1>7. StreamTypes'
  BY <1>1, <1>4, <1>6 DEF StreamBounds, StreamTypes
<1>8. Numbered'
  <2>1. Unsent' <= MaxSends /\ key' + Unsent' <= MaxSends
        /\ nonce' + Unsent' <= MaxSends
    BY <1>1, <1>4, <1>5 DEF Key, Stale
  <2>2. fetch'.box < MaxSends /\ fetch'.header < MaxSends
    BY DEF StreamBounds, Numbered
  <2>3. QED
    BY <1>6, <2>1, <2>2 DEF Numbered
<1>9. QED
  BY <1>7, <1>8 DEF StreamBounds

(* What the pool reads makes it a pool that has read so many messages. *)
LEMMA ReadsType ==
  ASSUME NEW p \in PoolState, NEW x \in Part,
         x.part = "hello" \/ x.key < MaxSends
  PROVE  Reads(p, x) \in PoolState
<1>1. /\ MaxSends \in Nat /\ p.n \in 0..MaxSends /\ p.body \in BOOLEAN
      /\ p = [at |-> p.at, n |-> p.n, body |-> p.body]
  BY SessionAssumption DEF PoolState
<1>2. CASE p.at = "new" /\ x.part = "hello" /\ x.key = Initial
  BY <1>2 DEF Reads, PoolState
<1>3. CASE p.at # "new" /\ ~ p.body /\ x.part = "header" /\ x.key = p.n
  BY <1>3 DEF Reads, PoolState
<1>4. CASE p.at # "new" /\ p.body /\ x.part = "body" /\ x.key = p.n
  <2>1. p.n + 1 \in 0..MaxSends
    BY <1>1, <1>4
  <2>2. Reads(p, x) = [p EXCEPT !.body = FALSE, !.n = @ + 1]
    BY <1>4 DEF Reads
  <2>3. QED
    BY <1>1, <2>1, <2>2 DEF PoolState
<1>5. CASE /\ ~ (p.at = "new" /\ x.part = "hello" /\ x.key = Initial)
           /\ ~ (p.at # "new" /\ ~ p.body /\ x.part = "header" /\ x.key = p.n)
           /\ ~ (p.at # "new" /\ p.body /\ x.part = "body" /\ x.key = p.n)
  <2>1. Reads(p, x) = [p EXCEPT !.at = "lost"]
    BY <1>5 DEF Reads
  <2>2. QED
    BY <2>1 DEF PoolState
<1>6. QED
  BY <1>2, <1>3, <1>4, <1>5

(* Keys, buffer and coinbaser thread stay, or shares are forgotten. *)
LEMMA BoundsRest ==
  ASSUME StreamBounds, UNCHANGED stream, UNCHANGED fetch,
         pending' = pending \/ pending' = 0, pool' \in PoolState
  PROVE  StreamBounds'
<1> USE StreamNumbers
<1>1. /\ key + Unsent <= MaxSends /\ nonce + Unsent <= MaxSends
      /\ Unsent <= MaxSends
  BY DEF StreamBounds, Numbered
<1>2. Unsent' <= Unsent /\ pending' \in 0..MaxPending
  BY DEF Unsent, StreamBounds, StreamTypes
<1>3. UNCHANGED <<key, nonce, out, fetch>>
  BY DEF stream
<1>4. StreamTypes'
  BY <1>2, <1>3 DEF StreamBounds, StreamTypes
<1>5. Unsent' \in Int
  BY <1>2, <1>3 DEF Unsent
<1>6. Numbered'
  <2>1. Unsent' <= MaxSends /\ key' + Unsent' <= MaxSends
        /\ nonce' + Unsent' <= MaxSends
    BY <1>1, <1>2, <1>3, <1>5
  <2>2. /\ fetch'.box < MaxSends /\ fetch'.header < MaxSends
        /\ \A i \in 1..Len(out') : out'[i].part = "hello" \/ out'[i].key < MaxSends
    BY <1>3 DEF StreamBounds, Numbered
  <2>3. QED
    BY <2>1, <2>2 DEF Numbered
<1>7. QED
  BY <1>4, <1>6 DEF StreamBounds

(* The coinbaser thread alone moves, without a message in hand. *)
LEMMA FetchRests ==
  ASSUME StreamBounds, UNCHANGED <<pending, key, nonce, out, pool>>,
         fetch' \in Fetch, fetch'.box < MaxSends, fetch'.header < MaxSends,
         fetch'.at \in {"checked", "boxed"} => fetch.at \in {"checked", "boxed"}
  PROVE  StreamBounds'
<1> USE StreamNumbers
<1>1. /\ key + Unsent <= MaxSends /\ nonce + Unsent <= MaxSends
      /\ Unsent <= MaxSends
  BY DEF StreamBounds, Numbered
<1>2. Unsent' <= Unsent /\ Unsent' \in Int
  BY DEF Unsent
<1>3. StreamTypes'
  BY DEF StreamBounds, StreamTypes
<1>4. Numbered'
  <2>1. Unsent' <= MaxSends /\ key' + Unsent' <= MaxSends
        /\ nonce' + Unsent' <= MaxSends
    BY <1>1, <1>2
  <2>2. \A i \in 1..Len(out') : out'[i].part = "hello" \/ out'[i].key < MaxSends
    BY DEF StreamBounds, Numbered
  <2>3. QED
    BY <2>1, <2>2 DEF Numbered
<1>5. QED
  BY <1>3, <1>4 DEF StreamBounds

(* Values for a coinbaser thread and a pool that have nothing to do. *)
LEMMA IdleType ==
  /\ Idle \in Fetch /\ Idle.at = "idle" /\ Idle.box = Stale /\ Idle.header = Stale
  /\ Nowhere \in PoolState
  /\ [Nowhere EXCEPT !.at = "new"] \in PoolState
  /\ MaxSends \in Nat /\ Stale < MaxSends /\ Initial < MaxSends /\ Stale \in Key
<1>1. MaxSends \in Nat /\ Stale < MaxSends /\ Initial < MaxSends /\ Stale \in Key
  BY SessionAssumption DEF Key, Stale, Initial
<1>2. Idle \in Fetch /\ Idle.at = "idle" /\ Idle.box = Stale /\ Idle.header = Stale
  BY <1>1 DEF Idle, Fetch
<1>3. Nowhere \in PoolState /\ [Nowhere EXCEPT !.at = "new"] \in PoolState
  <2>1. Nowhere \in PoolState
    BY <1>1 DEF Nowhere, PoolState
  <2>2. QED
    BY <2>1 DEF PoolState
<1>4. QED
  BY <1>1, <1>2, <1>3

(* A session starts, connects, says hello, ends. *)
LEMMA BoundsRun ==
  ASSUME StreamBounds, NEW t \in Threads,
         Run(t) \/ TimeOut(t) \/ FlushFails(t) \/ PollFails(t)
  PROVE  StreamBounds'
<1> USE StreamNumbers
<1>0. /\ key + Unsent <= MaxSends /\ nonce + Unsent <= MaxSends
      /\ Unsent <= MaxSends /\ pool \in PoolState /\ fetch \in Fetch
  BY DEF StreamBounds, StreamTypes, Numbered
<1>1. CASE Start(t)
  <2>1. /\ pending' = 0 /\ key' = Initial /\ nonce' = Stale /\ out' = <<>>
        /\ fetch' = [fetch EXCEPT !.box = Stale, !.header = Stale]
        /\ pool' = pool
    BY <1>1 DEF Start, link
  <2>2. /\ fetch' \in Fetch /\ fetch'.box = Stale /\ fetch'.header = Stale
        /\ fetch'.at = fetch.at
    <3>1. fetch \in Fetch /\ Stale \in Key /\ Stale \in Key \cup {Initial}
      BY <1>0, IdleType
    <3>2. fetch' = [fetch EXCEPT !.box = Stale, !.header = Stale]
      BY <2>1
    <3>3. QED
      BY <3>1, <3>2 DEF Fetch
  <2>3. Unsent' <= Unsent /\ Unsent' \in Int
    BY <2>1, <2>2 DEF Unsent
  <2>4. out' \in Seq(Part) /\ Len(out') = 0
    BY <2>1
  <2>5. StreamTypes'
    BY <1>0, <2>1, <2>2, <2>4 DEF StreamTypes, Key
  <2>6. Numbered'
    <3>1. Unsent' <= MaxSends /\ Unsent' \in Int
      BY <1>0, <2>3
    <3>2. key' + Unsent' <= MaxSends /\ nonce' + Unsent' <= MaxSends
      BY <2>1, <3>1
    <3>3. fetch'.box < MaxSends /\ fetch'.header < MaxSends
      BY <2>2, IdleType
    <3>4. \A i \in 1..Len(out') : out'[i].part = "hello" \/ out'[i].key < MaxSends
      BY <2>4
    <3>5. QED
      BY <3>1, <3>2, <3>3, <3>4 DEF Numbered
  <2>7. QED
    BY <2>5, <2>6 DEF StreamBounds
<1>2. CASE Connect(t)
  <2>1. pool' \in PoolState /\ UNCHANGED <<stream, fetch, pending>>
    BY <1>0, <1>2, IdleType DEF Connect, link, shares
  <2>2. QED
    BY <2>1, BoundsRest
<1>3. CASE Submits(t)
  <2>1. CASE queue # 0 /\ pending > 0
    <3>1. MiningCmd /\ pending' = pending - 1 /\ UNCHANGED <<fetch, pool>>
      BY <1>3, <2>1 DEF Submits, link
    <3>2. QED
      BY <2>1, <3>1, MiningBounds
  <2>2. CASE ~ (queue # 0 /\ pending > 0)
    <3>1. UNCHANGED <<stream, fetch, pending, pool>>
      BY <1>3, <2>2 DEF Submits, link
    <3>2. QED
      BY <1>0, <3>1, BoundsRest
  <2>3. QED
    BY <2>1, <2>2
<1>4. CASE Flush(t)
  <2>1. /\ out # <<>> /\ out' = Tail(out) /\ out \in Seq(Part) /\ Len(out) <= Capacity
        /\ pool' = IF pool.at = "lost" THEN pool ELSE Reads(pool, Head(out))
        /\ UNCHANGED <<key, nonce, fetch, pending>>
        /\ \A i \in 1..Len(out) : out[i].part = "hello" \/ out[i].key < MaxSends
    BY <1>4 DEF Flush, shares, StreamBounds, StreamTypes, Numbered
  <2>2. /\ Head(out) \in Part /\ out' \in Seq(Part) /\ 1 \in 1..Len(out)
        /\ Head(out) = out[1] /\ Len(out') = Len(out) - 1
        /\ \A i \in 1..Len(out') : i + 1 \in 1..Len(out) /\ out'[i] = out[i + 1]
    BY <2>1, QueueEnds
  <2>3. pool' \in PoolState
    BY <1>0, <2>1, <2>2, ReadsType
  <2>4. /\ Len(out') <= Capacity
        /\ \A i \in 1..Len(out') : out'[i].part = "hello" \/ out'[i].key < MaxSends
    BY <2>1, <2>2
  <2>5. StreamTypes'
    BY <2>1, <2>2, <2>3, <2>4 DEF StreamBounds, StreamTypes
  <2>6. Unsent' = Unsent
    BY <2>1 DEF Unsent
  <2>7. Numbered'
    BY <1>0, <2>1, <2>4, <2>6 DEF StreamBounds, Numbered
  <2>8. QED
    BY <2>5, <2>7 DEF StreamBounds
<1>5. CASE Hello(t)
  <2>1. /\ key' = 0 /\ nonce' = 0 /\ UNCHANGED <<pending, fetch>>
        /\ out' = IF Room(out) THEN Append(out, [part |-> "hello", key |-> key])
                  ELSE out
        /\ pool' \in {pool, Nowhere}
    BY <1>5, Zenon DEF Hello, Close, shares, link
  <2>2. /\ out \in Seq(Part) /\ Len(out) <= Capacity
        /\ \A i \in 1..Len(out) : out[i].part = "hello" \/ out[i].key < MaxSends
    BY DEF StreamBounds, StreamTypes, Numbered
  <2>3. /\ out' \in Seq(Part) /\ Len(out') <= Capacity
        /\ \A i \in 1..Len(out') : out'[i].part = "hello" \/ out'[i].key < MaxSends
    <3> DEFINE h == [part |-> "hello", key |-> key]
    <3>1. h \in Part /\ h.part = "hello"
      BY DEF Part, StreamBounds, StreamTypes
    <3>2. out' = IF Room(out) THEN Append(out, h) ELSE out
      BY <2>1
    <3> HIDE DEF h
    <3>3. QED
      BY <2>2, <3>1, <3>2, PartAppended DEF Room
  <2>4. Unsent' = Unsent
    BY <2>1 DEF Unsent
  <2>5. pool' \in PoolState
    BY <1>0, <2>1, IdleType
  <2>6. StreamTypes'
    <3>1. key' \in Key \cup {Initial} /\ nonce' \in Key
      BY <2>1 DEF Key
    <3>2. pending' \in 0..MaxPending /\ fetch' \in Fetch
      BY <2>1 DEF StreamBounds, StreamTypes
    <3>3. QED
      BY <2>3, <2>5, <3>1, <3>2 DEF StreamTypes
  <2>7. Numbered'
    <3>1. Unsent' <= MaxSends /\ Unsent' \in Int
      BY <1>0, <2>4
    <3>2. key' + Unsent' <= MaxSends /\ nonce' + Unsent' <= MaxSends
      BY <2>1, <3>1
    <3>3. fetch'.box < MaxSends /\ fetch'.header < MaxSends
      BY <2>1 DEF StreamBounds, Numbered
    <3>4. QED
      BY <2>3, <3>1, <3>2, <3>3 DEF Numbered
  <2>8. QED
    BY <2>6, <2>7 DEF StreamBounds
<1>6. CASE Receive(t)
  <2>1. /\ fetch' \in {fetch, Idle}
        /\ UNCHANGED <<pending, key, nonce, out, pool>>
    BY <1>6, Zenon DEF Receive, shares, stream
  <2>2. QED
    BY <1>0, <2>1, IdleType, FetchRests DEF StreamBounds, Numbered
<1>7. CASE Switch(t) \/ PollNothing(t) \/ Free(t)
  <2>1. UNCHANGED <<stream, fetch, pool>> /\ pending' \in {pending, 0}
    BY <1>7 DEF Switch, PollNothing, Free, shares, link
  <2>2. QED
    BY <1>0, <2>1, BoundsRest
<1>8. CASE TimeOut(t) \/ FlushFails(t) \/ PollFails(t)
  <2>1. UNCHANGED <<stream, fetch, pending>> /\ pool' = Nowhere
    BY <1>8 DEF TimeOut, FlushFails, PollFails, Close, shares
  <2>2. QED
    BY <2>1, IdleType, BoundsRest
<1>9. QED
  BY <1>1, <1>2, <1>3, <1>4, <1>5, <1>6, <1>7, <1>8 DEF Run

(* datum_protocol_coinbaser_fetch *)
LEMMA BoundsCoinbaser ==
  ASSUME StreamBounds, Coinbaser
  PROVE  StreamBounds'
<1> USE StreamNumbers
<1>0. /\ key + Unsent <= MaxSends /\ nonce + Unsent <= MaxSends
      /\ Unsent <= MaxSends /\ fetch \in Fetch
      /\ fetch.box < MaxSends /\ fetch.header < MaxSends
      /\ key \in Key \cup {Initial} /\ nonce \in Key
      /\ out \in Seq(Part) /\ Len(out) <= Capacity
      /\ \A i \in 1..Len(out) : out[i].part = "hello" \/ out[i].key < MaxSends
  BY DEF StreamBounds, StreamTypes, Numbered
<1>1. CASE FetchCheck
  <2>1. /\ Affordable /\ fetch.at = "idle"
        /\ fetch' = [Idle EXCEPT !.at = "checked"]
        /\ UNCHANGED <<pending, key, nonce, out, pool>>
    BY <1>1 DEF FetchCheck, shares, stream, link
  <2>2. /\ fetch' \in Fetch /\ fetch'.at = "checked"
        /\ fetch'.box = Stale /\ fetch'.header = Stale
    BY <2>1, IdleType DEF Fetch
  <2>3. Unsent' = Unsent + 1
    BY <2>1, <2>2 DEF Unsent
  <2>4. Unsent < MaxSends /\ key + Unsent < MaxSends /\ nonce + Unsent < MaxSends
    BY <2>1 DEF Affordable
  <2>5. StreamTypes'
    BY <2>1, <2>2 DEF StreamBounds, StreamTypes
  <2>6. Unsent' <= MaxSends /\ key' + Unsent' <= MaxSends
        /\ nonce' + Unsent' <= MaxSends
    BY <2>1, <2>3, <2>4
  <2>7. fetch'.box < MaxSends /\ fetch'.header < MaxSends
    BY <2>2, IdleType
  <2>8. Numbered'
    BY <1>0, <2>1, <2>6, <2>7 DEF Numbered
  <2>9. QED
    BY <2>5, <2>8 DEF StreamBounds
<1>2. CASE FetchBox
  <2>1. /\ fetch.at = "checked" /\ fetch' = [fetch EXCEPT !.at = "boxed", !.box = BoxNonce]
        /\ UNCHANGED <<pending, key, nonce, out, pool>>
    BY <1>2 DEF FetchBox, shares, stream, link
  <2>2. nonce < MaxSends
    <3>1. Unsent = pending + 1
      BY <2>1
    <3>2. nonce + Unsent <= MaxSends /\ pending \in Nat /\ nonce \in Int
      BY <1>0
    <3>3. QED
      BY <3>1, <3>2
  <2>3. BoxNonce \in Key /\ BoxNonce < MaxSends
    BY <1>0, <2>2, IdleType DEF BoxNonce
  <2>4. /\ fetch' \in Fetch /\ fetch'.box < MaxSends /\ fetch'.header < MaxSends
    BY <1>0, <2>1, <2>3 DEF Fetch
  <2>5. QED
    BY <2>1, <2>4, FetchRests
<1>3. CASE FetchKey
  <2>1. /\ fetch.at = "boxed" /\ fetch' = [fetch EXCEPT !.at = "keyed", !.header = key]
        /\ key' = Advanced(key) /\ nonce' = Advanced(nonce)
        /\ UNCHANGED <<pending, out, pool>>
    BY <1>3 DEF FetchKey, shares, link
  <2>2. key < MaxSends /\ nonce < MaxSends
    <3>1. Unsent = pending + 1
      BY <2>1
    <3>2. /\ key + Unsent <= MaxSends /\ nonce + Unsent <= MaxSends
          /\ pending \in Nat /\ key \in Int /\ nonce \in Int
      BY <1>0
    <3>3. QED
      BY <3>1, <3>2
  <2>3. key' \in Key /\ nonce' \in Key /\ key' <= key + 1 /\ nonce' <= nonce + 1
    BY <1>0, <2>1, <2>2, AdvancedBound
  <2>4. /\ fetch' \in Fetch /\ fetch'.at = "keyed"
        /\ fetch'.box < MaxSends /\ fetch'.header < MaxSends
    BY <1>0, <2>1, <2>2 DEF Fetch
  <2>5. Unsent' = Unsent - 1
    BY <2>1, <2>4 DEF Unsent
  <2>6. StreamTypes'
    BY <2>1, <2>3, <2>4 DEF StreamBounds, StreamTypes
  <2>7. Unsent' <= MaxSends /\ key' + Unsent' <= MaxSends
        /\ nonce' + Unsent' <= MaxSends
    <3>1. key + Unsent <= MaxSends /\ nonce + Unsent <= MaxSends /\ Unsent <= MaxSends
      BY <1>0
    <3>2. QED
      BY <2>3, <2>5, <3>1 DEF Key, Stale
  <2>8. Numbered'
    BY <1>0, <2>1, <2>4, <2>7 DEF Numbered
  <2>9. QED
    BY <2>6, <2>8 DEF StreamBounds
<1>4. ASSUME NEW from \in {"keyed", "headed"}, NEW to \in {"headed", "sent"},
             NEW x \in Part, x.key < MaxSends, FetchSend(from, to, x)
      PROVE  StreamBounds'
  <2>1. /\ fetch.at = from
        /\ out' = IF Room(out) THEN Append(out, x) ELSE out
        /\ UNCHANGED <<pending, key, nonce, pool>>
        /\ fetch' = IF Room(out) /\ to = "headed" THEN [fetch EXCEPT !.at = to]
                    ELSE [Idle EXCEPT !.at = "sent"]
    BY <1>4, Zenon DEF FetchSend, shares, link
  <2>2. /\ fetch' \in Fetch /\ fetch'.at \in {"headed", "sent"}
        /\ fetch'.box < MaxSends /\ fetch'.header < MaxSends
    <3>1. CASE fetch' = [fetch EXCEPT !.at = "headed"]
      BY <1>0, <3>1 DEF Fetch
    <3>2. CASE fetch' = [Idle EXCEPT !.at = "sent"]
      BY <3>2, IdleType DEF Fetch
    <3>3. QED
      BY <2>1, <3>1, <3>2
  <2>3. /\ out' \in Seq(Part) /\ Len(out') <= Capacity
        /\ \A i \in 1..Len(out') : out'[i].part = "hello" \/ out'[i].key < MaxSends
    BY <1>0, <1>4, <2>1, PartAppended DEF Room
  <2>4. Unsent' = Unsent
    BY <2>1, <2>2 DEF Unsent
  <2>5. StreamTypes'
    BY <2>1, <2>2, <2>3 DEF StreamBounds, StreamTypes
  <2>6. Unsent' <= MaxSends /\ key' + Unsent' <= MaxSends
        /\ nonce' + Unsent' <= MaxSends
    BY <1>0, <2>1, <2>4
  <2>7. Numbered'
    BY <2>2, <2>3, <2>6 DEF Numbered
  <2>8. QED
    BY <2>5, <2>7 DEF StreamBounds
<1>5. CASE FetchHeader
  <2>1. [part |-> "header", key |-> fetch.header] \in Part
    BY DEF Part
  <2>2. QED
    BY <1>0, <1>4, <1>5, <2>1 DEF FetchHeader
<1>6. CASE FetchBody
  <2>1. [part |-> "body", key |-> fetch.box] \in Part
    BY DEF Part
  <2>2. QED
    BY <1>0, <1>4, <1>6, <2>1 DEF FetchBody
<1>7. CASE FetchWait
  <2>1. /\ fetch' = [fetch EXCEPT !.at = "waiting"]
        /\ UNCHANGED <<pending, key, nonce, out, pool>>
    BY <1>7 DEF FetchWait, shares, stream, link
  <2>2. /\ fetch' \in Fetch /\ fetch'.at = "waiting"
        /\ fetch'.box < MaxSends /\ fetch'.header < MaxSends
    BY <1>0, <2>1 DEF Fetch
  <2>3. QED
    BY <2>1, <2>2, FetchRests
<1>8. CASE FetchTimeout
  <2>1. fetch' = Idle /\ UNCHANGED <<pending, key, nonce, out, pool>>
    BY <1>8 DEF FetchTimeout, shares, stream, link
  <2>2. QED
    BY <2>1, IdleType, FetchRests
<1>9. QED
  BY <1>1, <1>2, <1>3, <1>5, <1>6, <1>7, <1>8 DEF Coinbaser

(* Shares that are queued, and everything that leaves the stream alone. *)
LEMMA BoundsOthers ==
  ASSUME StreamBounds,
         \/ PowSubmit \/ PoolSends \/ Boot \/ \E due \in BOOLEAN : MainLoop(due)
         \/ UNCHANGED vars
  PROVE  StreamBounds'
<1> USE StreamNumbers
<1>1. CASE PowSubmit
  <2>1. /\ pending < MaxPending /\ Affordable /\ pending' = pending + 1
        /\ UNCHANGED <<key, nonce, out, fetch, pool>>
    BY <1>1 DEF PowSubmit, stream, link
  <2>2. Unsent < MaxSends /\ key + Unsent < MaxSends /\ nonce + Unsent < MaxSends
    BY <2>1 DEF Affordable
  <2>3. Unsent' = Unsent + 1
    BY <2>1 DEF Unsent
  <2>4. StreamTypes'
    BY <2>1 DEF StreamBounds, StreamTypes
  <2>5. Unsent' <= MaxSends /\ key' + Unsent' <= MaxSends
        /\ nonce' + Unsent' <= MaxSends
    BY <2>1, <2>2, <2>3
  <2>6. /\ fetch'.box < MaxSends /\ fetch'.header < MaxSends
        /\ \A i \in 1..Len(out') : out'[i].part = "hello" \/ out'[i].key < MaxSends
    BY <2>1 DEF StreamBounds, Numbered
  <2>7. Numbered'
    BY <2>5, <2>6 DEF Numbered
  <2>8. QED
    BY <2>4, <2>7 DEF StreamBounds
<1>2. CASE PoolSends
  <2>1. UNCHANGED <<stream, fetch, pending>>
    BY <1>2 DEF PoolSends, shares
  <2>2. \/ pool' = pool \/ pool' = [pool EXCEPT !.at = "shaken"]
        \/ pool' = [pool EXCEPT !.at = "ready"]
    BY <1>2 DEF PoolSends
  <2>3. pool' \in PoolState
    BY <2>2 DEF PoolState, StreamBounds, StreamTypes
  <2>4. QED
    BY <2>1, <2>3, BoundsRest
<1>3. CASE \/ Boot \/ \E due \in BOOLEAN : MainLoop(due) \/ UNCHANGED vars
  <2>1. UNCHANGED <<stream, fetch, pending, pool>>
    BY <1>3 DEF Boot, MainLoop, vars, shares, link
  <2>2. pool' \in PoolState
    BY <2>1 DEF StreamBounds, StreamTypes
  <2>3. QED
    BY <2>1, <2>2, BoundsRest
<1>4. QED
  BY <1>1, <1>2, <1>3

(* The parts of the stream stay within their types and their numbering. *)
LEMMA BoundsStep ==
  ASSUME StreamBounds, [Next]_vars
  PROVE  StreamBounds'
  BY BoundsRun, BoundsCoinbaser, BoundsOthers DEF Next

(* Nothing was sent at the start. *)
LEMMA BoundsInit ==
  ASSUME Init
  PROVE  StreamBounds
<1>1. /\ pending = 0 /\ key = Initial /\ nonce = Stale /\ out = <<>>
      /\ pool = Nowhere /\ fetch = Idle
  BY DEF Init
<1>2. Unsent = 0
  BY <1>1, IdleType DEF Unsent
<1>3. out \in Seq(Part) /\ Len(out) = 0
  BY <1>1
<1>4. StreamTypes
  BY <1>1, <1>3, IdleType, SessionAssumption DEF StreamTypes
<1>5. Numbered
  BY <1>1, <1>2, <1>3, IdleType DEF Numbered, Stale, Initial
<1>6. QED
  BY <1>4, <1>5 DEF StreamBounds

-----------------------------------------------------------------------------
(* One session                                                             *)

(* The type invariant in the parts that are proved one by one. *)
LEMMA TypeParts ==
  TypeOK <=> /\ SessionTypes /\ FlagTypes /\ StreamTypes
             /\ pc \in [Threads -> Places]
<1>1. TypeOK => SessionTypes /\ StreamTypes /\ pc \in [Threads -> Places]
  BY DEF TypeOK, SessionTypes, StreamTypes
<1>2. TypeOK => FlagTypes
  BY Zenon DEF TypeOK, FlagTypes
<1>3. SessionTypes /\ FlagTypes /\ StreamTypes /\ pc \in [Threads -> Places]
      => TypeOK
  BY Zenon DEF TypeOK, SessionTypes, StreamTypes, FlagTypes
<1>4. QED
  BY <1>1, <1>2, <1>3

(* The flags stay flags. *)
LEMMA FlagStep ==
  ASSUME FlagTypes, [Next]_vars
  PROVE  FlagTypes'
<1>1. ASSUME NEW t \in Threads,
             Run(t) \/ TimeOut(t) \/ FlushFails(t) \/ PollFails(t)
      PROVE  FlagTypes'
  BY <1>1, Zenon DEF FlagTypes, Run, Start, Connect, Submits, MiningCmd, Flush,
     Hello, Switch, Receive, PollNothing, Free, TimeOut, FlushFails, PollFails,
     mainloop
<1>2. CASE Coinbaser \/ PowSubmit \/ PoolSends \/ UNCHANGED vars
  BY <1>2, Zenon DEF FlagTypes, Coinbaser, FetchCheck, FetchBox, FetchKey,
     FetchHeader, FetchBody, FetchSend, FetchWait, FetchTimeout, PowSubmit,
     PoolSends, vars, mainloop
<1>3. CASE Boot \/ \E due \in BOOLEAN : MainLoop(due)
  BY <1>3, Zenon DEF FlagTypes, Boot, MainLoop
<1>4. QED
  BY <1>1, <1>2, <1>3 DEF Next

SessionsInv == OneThread /\ SessionInv /\ StreamBounds /\ FlagTypes

(* These parts hold at the start, *)
LEMMA SessionsInit == Init => SessionsInv
<1>1. Init => FlagTypes
  BY Zenon DEF Init, FlagTypes
<1>2. QED
  BY <1>1, OneThreadInit, SessionInit, BoundsInit DEF SessionsInv

(* and every step keeps them. *)
LEMMA SessionsStep == SessionsInv /\ [Next]_vars => SessionsInv'
<1>1. SessionInv => active \in 0..3 /\ state \in 0..3
  BY DEF SessionInv, SessionTypes
<1>2. QED
  BY <1>1, OneThreadStep, SessionStep, BoundsStep, FlagStep DEF SessionsInv

(* Of the threads that have a session in hand there is one, or none if active
   says so.                                                                 *)
LEMMA SessionsCounted ==
  ASSUME OneThread
  PROVE  Cardinality({t \in Threads : pc[t] \in InSession}) =
           IF active = 0 THEN 0 ELSE 1
<1> DEFINE S == {t \in Threads : pc[t] \in InSession}
<1>1. CASE active = 0
  <2>1. S = {}
    BY <1>1 DEF OneThread
  <2>2. QED
    BY <1>1, <2>1, FS_EmptySet
<1>2. CASE active # 0
  <2>1. PICK t \in Threads : pc[t] \in InSession
    BY <1>2 DEF OneThread
  <2>2. S = {t}
    BY <2>1 DEF OneThread
  <2>3. Cardinality({t}) = 1
    BY FS_Singleton
  <2>4. QED
    BY <1>2, <2>2, <2>3
<1>3. QED
  BY <1>1, <1>2

(* datum_protocol_client_active is a plain variable that the main loop tests
   and the threads reset; still there is never more than one thread with a
   session in hand, and every variable keeps its type.                      *)
THEOREM OneSessionAlways == Spec => []OneSession
<1>1. SessionsInv => OneSession
  BY TypeParts, SessionsCounted
     DEF SessionsInv, OneSession, OneThread, SessionInv, StreamBounds
<1>2. QED
  BY <1>1, SessionsInit, SessionsStep, PTL DEF Spec

-----------------------------------------------------------------------------
(* Keys and nonces                                                         *)

PhasesInv == Phases /\ StreamInv

(* The thread with the session tells where the session is. *)
LEMMA WhereNow ==
  ASSUME OneThread, NEW t \in Threads, pc[t] \in InSession
  PROVE  /\ Opening <=> pc[t] \in {"connect", "spin"}
         /\ Connected <=> pc[t] \in {"top", "send", "poll"}
         /\ \A u \in Threads : pc[u] = "poll" => u = t
  BY DEF OneThread, Opening, Connected, InSession, Places

(* Where the one session is after its thread moved to p. *)
LEMMA WhereNext ==
  ASSUME OneThread, NEW t \in Threads, pc[t] \in InSession, NEW p \in Places,
         pc' = [pc EXCEPT ![t] = p]
  PROVE  /\ Opening' <=> p \in {"connect", "spin"}
         /\ Connected' <=> p \in {"top", "send", "poll"}
         /\ \A u \in Threads : pc'[u] = "poll" => p = "poll"
<1>1. /\ pc' \in [Threads -> Places] /\ pc'[t] = p
      /\ \A u \in Threads : u # t => pc'[u] \notin InSession
  BY DEF OneThread
<1>2. {"connect", "spin", "top", "send", "poll"} \subseteq InSession
  BY DEF InSession, Places
<1>3. QED
  BY <1>1, <1>2 DEF Opening, Connected

(* Nothing is open and nobody connected when no thread has a session. *)
LEMMA WhereNobody ==
  ASSUME \A t \in Threads : pc[t] \notin InSession
  PROVE  ~ Opening /\ ~ Connected /\ \A u \in Threads : pc[u] # "poll"
  BY DEF Opening, Connected, InSession, Places

(* A session that has ended has nothing to keep in step. *)
LEMMA PhasesEnd ==
  ASSUME OneThread, PhasesInv, NEW t \in Threads, pc[t] \in InSession,
         Close(t), UNCHANGED <<state, fetch>>
  PROVE  PhasesInv'
<1>1. ~ Opening' /\ ~ Connected' /\ \A u \in Threads : pc'[u] # "poll"
  BY WhereNext DEF Close, Places
<1>2. pool'.at = "none"
  BY DEF Close, Nowhere
<1>3. Phases'
  BY <1>1, <1>2 DEF Phases, PhasesInv
<1>4. StreamInv'
  BY <1>1 DEF StreamInv
<1>5. QED
  BY <1>3, <1>4 DEF PhasesInv

(* The stream and what the coinbaser thread has in hand stay as they are. *)
LEMMA InStepStays ==
  ASSUME InStep, UNCHANGED <<key, nonce, out>>, Position(pool') = Position(pool),
         \/ UNCHANGED fetch
         \/ /\ fetch.at \notin {"boxed", "keyed", "headed"}
            /\ fetch'.at \notin {"boxed", "keyed", "headed"}
  PROVE  InStep'
<1>1. NextAt' = NextAt
  BY DEF NextAt
<1>2. \A i \in 1..Len(out') : PlaceOf(out'[i], Position(pool') + i - 1)
  BY DEF InStep
<1>3. CASE UNCHANGED fetch
  BY <1>1, <1>2, <1>3 DEF InStep, InHand
<1>4. CASE /\ fetch.at \notin {"boxed", "keyed", "headed"}
           /\ fetch'.at \notin {"boxed", "keyed", "headed"}
  BY <1>1, <1>2, <1>4 DEF InStep, InHand
<1>5. QED
  BY <1>3, <1>4

(* The session goes on and its stream is left alone. *)
LEMMA StreamStays ==
  ASSUME StreamInv, UNCHANGED <<key, nonce, out, pool>>, fault' = fault,
         state' = state \/ (state # 0 /\ state' # 0),
         Opening' => Opening, Connected' => Connected,
         \/ UNCHANGED fetch
         \/ /\ fetch.at \notin {"boxed", "keyed", "headed"}
            /\ fetch'.at \notin {"boxed", "keyed", "headed"}
  PROVE  StreamInv'
<1>1. InStep => InStep'
  BY InStepStays
<1>2. BeforeHello => BeforeHello'
  BY DEF BeforeHello
<1>3. StreamOK => StreamOK'
  BY <1>1, <1>2 DEF StreamOK
<1>4. QED
  BY <1>2, <1>3 DEF StreamInv

(* A thread starts: buffers and keys are those of a new session. *)
LEMMA PhasesStart ==
  ASSUME OneThread, PhasesInv, fetch \in Fetch, NEW t \in Threads, Start(t)
  PROVE  PhasesInv'
<1>1. pc[t] = "start" /\ pc[t] \in InSession
  BY DEF Start, InSession, Places
<1>2. PICK p \in {"connect", "none"} : pc' = [pc EXCEPT ![t] = p]
  BY DEF Start, GiveUp
<1>3. ~ Connected /\ ~ Connected' /\ \A u \in Threads : pc'[u] # "poll"
  BY <1>1, <1>2, WhereNow, WhereNext DEF Places
<1>4. /\ state' = 0 /\ key' = Initial /\ out' = <<>> /\ pool' = pool
      /\ fetch' = [fetch EXCEPT !.box = Stale, !.header = Stale]
  BY DEF Start, StateAtStart, link
<1>5. pool'.at = "none"
  BY <1>3, <1>4 DEF PhasesInv, Phases
<1>6. fetch'.box = Stale
  BY <1>4 DEF Fetch
<1>7. BeforeHello'
  BY <1>4 DEF BeforeHello
<1>8. StreamInv'
  BY <1>3, <1>7 DEF StreamInv
<1>9. Phases'
  BY <1>3, <1>4, <1>5, <1>6 DEF Phases
<1>10. QED
  BY <1>8, <1>9 DEF PhasesInv

(* A new connection begins with nothing sent. *)
LEMMA PhasesConnect ==
  ASSUME OneThread, PhasesInv, NEW t \in Threads, Connect(t)
  PROVE  PhasesInv'
<1>1. pc[t] = "connect" /\ pc[t] \in InSession
  BY DEF Connect, InSession, Places
<1>2. Opening /\ ~ Connected /\ state = 0 /\ pool.at = "none"
      /\ fetch.box = Stale
  BY <1>1, WhereNow DEF PhasesInv, Phases
<1>3. UNCHANGED <<state, key, nonce, out, fetch, fault>>
  BY DEF Connect, stream
<1>4. ~ fault' => BeforeHello'
  BY <1>2, <1>3 DEF PhasesInv, StreamInv, BeforeHello
<1>5. CASE pc' = [pc EXCEPT ![t] = "none"] \/ pc' = [pc EXCEPT ![t] = "spin"]
  <2>1. ~ Connected' /\ \A u \in Threads : pc'[u] # "poll"
    BY <1>1, <1>5, WhereNext DEF Places
  <2>2. pool' = pool
    <3>1. pc' # [pc EXCEPT ![t] = "top"]
      BY <1>5 DEF OneThread
    <3>2. QED
      BY <3>1 DEF Connect, link
  <2>3. QED
    BY <1>2, <1>3, <1>4, <2>1, <2>2 DEF PhasesInv, Phases, StreamInv
<1>6. CASE /\ pc' = [pc EXCEPT ![t] = "top"]
           /\ pool' = [Nowhere EXCEPT !.at = "new"]
  <2>1. ~ Opening' /\ Connected' /\ \A u \in Threads : pc'[u] # "poll"
    BY <1>1, <1>6, WhereNext DEF Places
  <2>2. pool'.at = "new" /\ pool'.n = 0 /\ ~ pool'.body
    BY <1>6 DEF Nowhere
  <2>3. ~ fault' => StreamOK'
    BY <1>2, <1>3, <1>4, <2>2 DEF StreamOK
  <2>4. QED
    BY <1>2, <1>3, <2>1, <2>3 DEF PhasesInv, Phases, StreamInv
<1>7. QED
  BY <1>5, <1>6 DEF Connect, GiveUp

(* A part goes to the next place of the stream. *)
LEMMA PartSent ==
  ASSUME StreamTypes, NEW x \in Part, NEW q \in Seq(Part),
         \A i \in 1..Len(q) : PlaceOf(q[i], Position(pool) + i - 1),
         PlaceOf(x, Position(pool) + Len(q))
  PROVE  /\ Append(q, x) \in Seq(Part) /\ Len(Append(q, x)) = Len(q) + 1
         /\ \A i \in 1..Len(Append(q, x)) :
              PlaceOf(Append(q, x)[i], Position(pool) + i - 1)
<1>1. /\ Append(q, x) \in Seq(Part) /\ Len(Append(q, x)) = Len(q) + 1
      /\ Append(q, x)[Len(q) + 1] = x
      /\ \A i \in 1..Len(q) : Append(q, x)[i] = q[i]
  BY QueueEnds
<1>2. Len(q) \in Nat /\ Position(pool) \in Int
  BY DEF StreamTypes, PoolState, Position
<1>3. Position(pool) + (Len(q) + 1) - 1 = Position(pool) + Len(q)
  BY <1>2
<1>4. ASSUME NEW i \in 1..Len(Append(q, x))
      PROVE  PlaceOf(Append(q, x)[i], Position(pool) + i - 1)
  <2>1. CASE i = Len(q) + 1
    BY <1>1, <1>3, <2>1
  <2>2. CASE i \in 1..Len(q)
    BY <1>1, <2>2
  <2>3. QED
    BY <1>1, <1>2, <2>1, <2>2
<1>5. QED
  BY <1>1, <1>4

(* datum_protocol_mining_cmd: header and body go out with the same number. *)
LEMMA StreamMining ==
  ASSUME StreamBounds, PhasesInv, MiningCmd, UNCHANGED <<pc, state, fetch, pool>>
  PROVE  PhasesInv'
<1>1. UNCHANGED <<Opening, Connected>>
  BY DEF Opening, Connected
<1>2. Phases'
  BY <1>1 DEF PhasesInv, Phases
<1>3. ASSUME ~ fault'
      PROVE  /\ ~ fault /\ Room(out) /\ Room(Append(out, [part |-> "header", key |-> key]))
             /\ BoxNonce # Stale
  BY <1>3 DEF MiningCmd
<1>4. ASSUME ~ fault' PROVE ~ Opening'
  <2>1. state # 0
    BY <1>3, <1>4 DEF BoxNonce
  <2>2. QED
    BY <1>1, <2>1 DEF PhasesInv, Phases
<1>5. ASSUME ~ fault', Connected' PROVE StreamOK'
  <2>1. state # 0 /\ BoxNonce = nonce
    BY <1>3, <1>5 DEF BoxNonce
  <2>2. StreamOK /\ InStep
    BY <1>1, <1>3, <1>5, <2>1 DEF PhasesInv, StreamInv, StreamOK
  <2>3. /\ ~ InHand("boxed") /\ ~ InHand("keyed") /\ ~ InHand("headed")
        /\ ~ InHand("boxed")' /\ ~ InHand("keyed")' /\ ~ InHand("headed")'
    BY DEF MiningCmd, InHand
  <2>4. /\ nonce \in Nat /\ key = nonce /\ Position(pool) + Len(out) = 2 * nonce + 1
        /\ \A i \in 1..Len(out) : PlaceOf(out[i], Position(pool) + i - 1)
    BY <2>2, <2>3 DEF InStep, NextAt
  <2>5. nonce' = nonce + 1 /\ key' = nonce + 1
    BY <2>4 DEF MiningCmd, Advanced
  <2> DEFINE h == [part |-> "header", key |-> nonce]
             b == [part |-> "body", key |-> nonce]
  <2>6. out' = Append(Append(out, h), b)
    BY <1>3, <1>5, <2>1, <2>4 DEF MiningCmd
  <2>7. /\ h \in Part /\ h.part = "header" /\ h.key = nonce
        /\ b \in Part /\ b.part = "body" /\ b.key = nonce
    BY DEF Part, StreamBounds, StreamTypes
  <2> HIDE DEF h, b
  <2>8. out \in Seq(Part) /\ Len(out) \in Nat /\ Position(pool) \in Int
    BY DEF StreamBounds, StreamTypes, Position, PoolState
  <2>9. PlaceOf(h, Position(pool) + Len(out))
    BY <2>4, <2>7, <2>8 DEF PlaceOf
  <2>10. /\ Append(out, h) \in Seq(Part) /\ Len(Append(out, h)) = Len(out) + 1
         /\ \A i \in 1..Len(Append(out, h)) :
              PlaceOf(Append(out, h)[i], Position(pool) + i - 1)
    BY <2>4, <2>7, <2>8, <2>9, PartSent DEF StreamBounds
  <2>11. PlaceOf(b, Position(pool) + Len(Append(out, h)))
    <3>1. Position(pool) + Len(Append(out, h)) = 2 * nonce + 2
      <4>1. Len(Append(out, h)) = Len(out) + 1
        BY <2>10
      <4>2. Position(pool) + Len(out) = 2 * nonce + 1 /\ nonce \in Nat
        BY <2>4
      <4>3. QED
        BY <2>8, <4>1, <4>2
    <3>2. nonce \in Nat
      BY <2>4
    <3>3. QED
      BY <2>7, <3>1, <3>2 DEF PlaceOf
  <2>12. /\ Len(out') = Len(out) + 2
         /\ \A i \in 1..Len(out') : PlaceOf(out'[i], Position(pool) + i - 1)
    BY <2>6, <2>7, <2>8, <2>10, <2>11, PartSent DEF StreamBounds
  <2>13. NextAt' = 2 * nonce' + 1
    BY <2>4, <2>5, <2>8, <2>12 DEF NextAt
  <2>14. InStep'
    BY <2>3, <2>4, <2>5, <2>12, <2>13 DEF InStep
  <2>15. QED
    BY <2>1, <2>2, <2>14 DEF StreamOK
<1>6. QED
  BY <1>2, <1>4, <1>5 DEF PhasesInv, StreamInv

(* External: the pool makes sense of the part whose turn it is. *)
LEMMA ReadsNext ==
  ASSUME NEW p \in PoolState, NEW x \in Part,
         NEW i \in Int, i = Position(p), PlaceOf(x, i),
         p.at \notin {"none", "lost"}, p.at = "new" => p.n = 0 /\ ~ p.body
  PROVE  /\ Position(Reads(p, x)) = i + 1
         /\ Reads(p, x).at \notin {"none", "lost", "new"}
<1>1. /\ p.n \in Nat /\ p.body \in BOOLEAN
      /\ p = [at |-> p.at, n |-> p.n, body |-> p.body]
      /\ x.key \in Int
  BY SessionAssumption DEF PoolState, Part, Key, Stale, Initial
<1>2. CASE p.at = "new"
  <2>1. i = 0
    BY <1>2 DEF Position
  <2>2. x.part = "hello" /\ x.key = Initial
    BY <1>1, <2>1 DEF PlaceOf
  <2>3. Reads(p, x) = [p EXCEPT !.at = "greeted"]
    BY <1>2, <2>2 DEF Reads
  <2>4. /\ Reads(p, x).at = "greeted" /\ Reads(p, x).n = 0
        /\ Reads(p, x).body = p.body
    BY <1>2, <2>3 DEF PoolState
  <2>5. Position(Reads(p, x)) = 1
    BY <1>2, <2>4 DEF Position
  <2>6. QED
    BY <2>1, <2>4, <2>5
<1>3. CASE p.at # "new" /\ ~ p.body
  <2>1. i = 2 * p.n + 1
    BY <1>3 DEF Position
  <2>2. x.part = "header" /\ x.key = p.n
    BY <1>1, <2>1 DEF PlaceOf
  <2>3. Reads(p, x) = [p EXCEPT !.body = TRUE]
    BY <1>3, <2>2 DEF Reads
  <2>4. /\ Reads(p, x).at = p.at /\ Reads(p, x).n = p.n /\ Reads(p, x).body
    BY <2>3 DEF PoolState
  <2>5. Position(Reads(p, x)) = 2 * p.n + 2
    BY <1>3, <2>4 DEF Position
  <2>6. QED
    BY <1>1, <1>3, <2>1, <2>4, <2>5
<1>4. CASE p.at # "new" /\ p.body
  <2>1. i = 2 * p.n + 2
    BY <1>4 DEF Position
  <2>2. x.part = "body" /\ x.key = p.n
    BY <1>1, <2>1 DEF PlaceOf
  <2>3. Reads(p, x) = [p EXCEPT !.body = FALSE, !.n = @ + 1]
    BY <1>4, <2>2 DEF Reads
  <2>4. /\ Reads(p, x).at = p.at /\ Reads(p, x).n = p.n + 1
        /\ Reads(p, x).body = FALSE
    BY <2>3 DEF PoolState
  <2>5. Position(Reads(p, x)) = 2 * (p.n + 1) + 1
    BY <1>4, <2>4 DEF Position
  <2>6. QED
    BY <1>1, <1>4, <2>1, <2>4, <2>5
<1>5. QED
  BY <1>2, <1>3, <1>4

(* send: what leaves the buffer is what the pool reads. *)
LEMMA PhasesFlush ==
  ASSUME OneThread, StreamBounds, PhasesInv, NEW t \in Threads, Flush(t)
  PROVE  PhasesInv'
<1>1. /\ pc[t] = "send" /\ pc[t] \in InSession /\ out # <<>> /\ out' = Tail(out)
      /\ pool' = IF pool.at = "lost" THEN pool ELSE Reads(pool, Head(out))
      /\ UNCHANGED <<state, pc, key, nonce, fetch, fault>>
  BY DEF Flush, InSession, Places
<1>2. Connected /\ ~ Opening /\ UNCHANGED <<Opening, Connected>>
  BY <1>1, WhereNow DEF Opening, Connected
<1>3. Phases'
  BY <1>1, <1>2 DEF PhasesInv, Phases
<1>4. ASSUME ~ fault' PROVE StreamOK'
  <2>1. StreamOK
    BY <1>1, <1>2, <1>4 DEF PhasesInv, StreamInv
  <2>2. state # 0 /\ InStep
    BY <1>1, <2>1 DEF StreamOK, BeforeHello
  <2>3. /\ out \in Seq(Part) /\ pool \in PoolState /\ Position(pool) \in Int
    BY DEF StreamBounds, StreamTypes, PoolState, Position
  <2>4. /\ Head(out) \in Part /\ 1 \in 1..Len(out) /\ Head(out) = out[1]
        /\ Len(out') = Len(out) - 1
        /\ \A i \in 1..Len(out') : i + 1 \in 1..Len(out) /\ out'[i] = out[i + 1]
    BY <1>1, <2>3, QueueEnds
  <2>5. PlaceOf(Head(out), Position(pool))
    <3>1. PlaceOf(out[1], Position(pool) + 1 - 1)
      BY <2>2, <2>4 DEF InStep
    <3>2. Position(pool) + 1 - 1 = Position(pool)
      BY <2>3
    <3>3. QED
      BY <2>4, <3>1, <3>2
  <2>6. /\ Position(pool') = Position(pool) + 1
        /\ pool'.at \notin {"none", "lost", "new"}
    BY <1>1, <2>1, <2>3, <2>4, <2>5, ReadsNext DEF StreamOK
  <2>7. \A i \in 1..Len(out') : PlaceOf(out'[i], Position(pool') + i - 1)
    <3>1. ASSUME NEW i \in 1..Len(out')
          PROVE  PlaceOf(out'[i], Position(pool') + i - 1)
      <4>1. PlaceOf(out[i + 1], Position(pool) + (i + 1) - 1)
        BY <2>2, <2>4 DEF InStep
      <4>2. Position(pool) + (i + 1) - 1 = Position(pool') + i - 1
        BY <2>3, <2>6
      <4>3. QED
        BY <2>4, <4>1, <4>2
    <3>2. QED
      BY <3>1
  <2>8. NextAt' = NextAt
    <3>1. Len(out) \in Nat
      BY <2>3
    <3>2. QED
      BY <2>3, <2>4, <2>6, <3>1 DEF NextAt
  <2>9. InStep'
    BY <1>1, <2>2, <2>7, <2>8 DEF InStep, InHand
  <2>10. QED
    BY <1>1, <2>2, <2>6, <2>9 DEF StreamOK
<1>5. QED
  BY <1>2, <1>3, <1>4 DEF PhasesInv, StreamInv

(* datum_protocol_send_hello begins the stream. *)
LEMMA PhasesHello ==
  ASSUME OneThread, StreamBounds, PhasesInv, NEW t \in Threads, Hello(t)
  PROVE  PhasesInv'
<1>1. pc[t] = "send" /\ pc[t] \in InSession /\ state = 0 /\ fetch' = fetch
  BY DEF Hello, InSession, Places
<1>2. CASE ~ Room(out)
  <2>1. Close(t) /\ UNCHANGED <<state, fetch>>
    BY <1>1, <1>2 DEF Hello
  <2>2. QED
    BY <1>1, <2>1, PhasesEnd
<1>3. CASE Room(out)
  <2>1. /\ out' = Append(out, [part |-> "hello", key |-> key])
        /\ key' = 0 /\ nonce' = 0 /\ state' = 1 /\ pool' = pool /\ fault' = fault
        /\ pc' = [pc EXCEPT ![t] = "poll"]
    BY <1>3 DEF Hello, link
  <2>2. ~ Opening' /\ Connected' /\ Connected /\ fetch'.box = Stale
    <3>1. fetch'.box = Stale
      BY <1>1 DEF PhasesInv, Phases
    <3>2. ~ Opening' /\ Connected'
      BY <1>1, <2>1, WhereNext DEF Places
    <3>3. Connected
      BY <1>1, WhereNow
    <3>4. QED
      BY <3>1, <3>2, <3>3
  <2>3. Phases'
    BY <2>1, <2>2 DEF Phases
  <2>4. ASSUME ~ fault' PROVE StreamOK'
    <3>1. /\ pool.at = "new" /\ pool.n = 0 /\ ~ pool.body
          /\ key = Initial /\ out = <<>>
      BY <1>1, <2>1, <2>2, <2>4 DEF PhasesInv, StreamInv, StreamOK, BeforeHello
    <3>2. Position(pool') = 0
      BY <2>1, <3>1 DEF Position
    <3> DEFINE h == [part |-> "hello", key |-> Initial]
    <3>3. h.part = "hello" /\ h.key = Initial
      OBVIOUS
    <3>4. out' = Append(<<>>, h)
      BY <2>1, <3>1
    <3> HIDE DEF h
    <3>5. Len(out') = 1 /\ out'[1] = h
      BY <3>4
    <3>6. \A i \in 1..Len(out') : PlaceOf(out'[i], Position(pool') + i - 1)
      <4>1. PlaceOf(h, 0)
        BY <3>3 DEF PlaceOf
      <4>2. \A i \in 1..Len(out') : i = 1 /\ Position(pool') + i - 1 = 0
        BY <3>2, <3>5
      <4>3. QED
        BY <3>5, <4>1, <4>2
    <3>7. NextAt' = 1
      BY <3>2, <3>5 DEF NextAt
    <3>8. InStep'
      BY <2>1, <2>2, <3>6, <3>7 DEF InStep, InHand
    <3>9. QED
      BY <2>1, <3>1, <3>8 DEF StreamOK
  <2>5. QED
    BY <2>2, <2>3, <2>4 DEF PhasesInv, StreamInv
<1>4. QED
  BY <1>2, <1>3

(* datum_protocol_server_msg: the session goes on; a split wakes the coinbaser
   thread, which has nothing in hand then.                                  *)
LEMMA PhasesReceive ==
  ASSUME OneThread, StreamBounds, PhasesInv, SessionInv, NEW t \in Threads,
         Receive(t)
  PROVE  PhasesInv'
<1>1. /\ pc[t] = "poll" /\ pc[t] \in InSession /\ state # 0
      /\ pc' = [pc EXCEPT ![t] = "top"]
      /\ UNCHANGED <<key, nonce, out, pool, fault>>
  BY DEF Receive, InSession, Places, PhasesInv, Phases, stream
<1>2. state' \in {2, 3, state}
  <2> DEFINE m == Head(inbox)
  <2>1. m.msg \in {"answer", "configure", "split"}
    <3>1. m \in Message
      BY QueueEnds DEF Receive, SessionInv, SessionTypes
    <3>2. QED
      BY <3>1 DEF Message
  <2>2. state' = CASE m.msg = "answer" -> 2
                   [] m.msg = "configure" -> ConfiguredState(m)
                   [] m.msg = "split" -> state
    BY DEF Receive
  <2> HIDE DEF m
  <2>3. QED
    BY <2>1, <2>2 DEF ConfiguredState
<1>3. fetch' = fetch \/ (fetch.at = "waiting" /\ fetch' = Idle)
  BY Zenon DEF Receive
<1>4. ~ Opening' /\ Connected' /\ Connected /\ \A u \in Threads : pc'[u] # "poll"
  BY <1>1, WhereNow, WhereNext DEF Places
<1>5. /\ state' # 0
      /\ state' < 2 => state' = state
  BY <1>1, <1>2
<1>6. Phases'
  BY <1>1, <1>3, <1>4, <1>5, IdleType DEF PhasesInv, Phases
<1>7. StreamInv'
  <2>1. \/ UNCHANGED fetch
        \/ /\ fetch.at \notin {"boxed", "keyed", "headed"}
           /\ fetch'.at \notin {"boxed", "keyed", "headed"}
    BY <1>3, IdleType
  <2>2. QED
    BY <1>1, <1>4, <1>5, <2>1, StreamStays DEF PhasesInv
<1>8. QED
  BY <1>6, <1>7 DEF PhasesInv

(* The threads of sessions. *)
LEMMA PhasesRun ==
  ASSUME SessionsInv, PhasesInv, NEW t \in Threads,
         Run(t) \/ TimeOut(t) \/ FlushFails(t) \/ PollFails(t)
  PROVE  PhasesInv'
<1>0. OneThread /\ StreamBounds /\ SessionInv /\ fetch \in Fetch
  BY DEF SessionsInv, StreamBounds, StreamTypes
<1>1. CASE Start(t)
  BY <1>0, <1>1, PhasesStart
<1>2. CASE Connect(t)
  BY <1>0, <1>2, PhasesConnect
<1>3. CASE Submits(t) /\ queue # 0 /\ pending > 0
  <2>1. MiningCmd /\ UNCHANGED <<pc, state, fetch, pool>>
    BY <1>3 DEF Submits, link
  <2>2. QED
    BY <1>0, <2>1, StreamMining
<1>4. CASE Flush(t)
  BY <1>0, <1>4, PhasesFlush
<1>5. CASE Hello(t)
  BY <1>0, <1>5, PhasesHello
<1>6. CASE Receive(t)
  BY <1>0, <1>6, PhasesReceive
<1>7. CASE \/ Submits(t) /\ ~ (queue # 0 /\ pending > 0)
           \/ Switch(t) \/ PollNothing(t)
  <2>1. /\ pc[t] \in {"top", "send", "poll"} /\ pc[t] \in InSession
        /\ UNCHANGED <<state, key, nonce, out, pool, fetch, fault>>
    BY <1>7 DEF Submits, Switch, PollNothing, stream, link, InSession, Places
  <2>2. PICK p \in {"top", "send", "poll"} :
          pc' = [pc EXCEPT ![t] = p] /\ (p = "poll" => state # 0)
    BY <1>7 DEF Submits, Switch, PollNothing
  <2>3. /\ ~ Opening' /\ Connected' /\ Connected
        /\ \A u \in Threads : pc'[u] = "poll" => state # 0
    BY <1>0, <2>1, <2>2, WhereNow, WhereNext DEF Places
  <2>4. Phases'
    BY <2>1, <2>3 DEF PhasesInv, Phases
  <2>5. StreamInv'
    BY <2>1, <2>3, StreamStays DEF PhasesInv
  <2>6. QED
    BY <2>4, <2>5 DEF PhasesInv
<1>8. CASE Free(t)
  <2>1. /\ pc[t] = "free" /\ pc' = [pc EXCEPT ![t] = "none"]
        /\ UNCHANGED <<state, key, nonce, out, pool, fetch, fault>>
    BY <1>8 DEF Free, stream, link
  <2>2. /\ (Opening' <=> Opening) /\ (Connected' <=> Connected)
        /\ \A u \in Threads : pc'[u] = "poll" => pc[u] = "poll"
    BY <1>0, <2>1 DEF OneThread, Opening, Connected
  <2>3. Phases'
    BY <2>1, <2>2 DEF PhasesInv, Phases
  <2>4. StreamInv'
    BY <2>1, <2>2, StreamStays DEF PhasesInv
  <2>5. QED
    BY <2>3, <2>4 DEF PhasesInv
<1>9. CASE TimeOut(t) \/ FlushFails(t) \/ PollFails(t)
  <2>1. Close(t) /\ UNCHANGED <<state, fetch>> /\ pc[t] \in InSession
    BY <1>9 DEF TimeOut, FlushFails, PollFails, InSession, Places
  <2>2. QED
    BY <1>0, <2>1, PhasesEnd
<1>10. QED
  BY <1>1, <1>2, <1>3, <1>4, <1>5, <1>6, <1>7, <1>8, <1>9 DEF Run

(* A part of the coinbaser thread's message. *)
LEMMA PhasesFetchSend ==
  ASSUME StreamBounds, PhasesInv, FetchHeader \/ FetchBody
  PROVE  PhasesInv'
<1>1. /\ UNCHANGED <<state, pc, key, nonce, pool>>
      /\ fault' = (fault \/ ~ Room(out) \/ fetch.box = Stale)
  BY DEF FetchHeader, FetchBody, FetchSend, link
<1>2. UNCHANGED <<Opening, Connected>>
  BY <1>1 DEF Opening, Connected
<1>3. fetch'.box = fetch.box \/ fetch'.box = Stale
  <2>1. fetch' = [fetch EXCEPT !.at = "headed"] \/ fetch' = [Idle EXCEPT !.at = "sent"]
    BY Zenon DEF FetchHeader, FetchBody, FetchSend
  <2>2. CASE fetch' = [fetch EXCEPT !.at = "headed"]
    BY <2>2 DEF StreamBounds, StreamTypes, Fetch
  <2>3. CASE fetch' = [Idle EXCEPT !.at = "sent"]
    BY <2>3, IdleType DEF Fetch
  <2>4. QED
    BY <2>1, <2>2, <2>3
<1>4. Phases'
  BY <1>1, <1>2, <1>3 DEF PhasesInv, Phases
<1>5. ASSUME ~ fault' PROVE ~ fault /\ Room(out) /\ fetch.box # Stale
  BY <1>1, <1>5
<1>6. ASSUME ~ fault' PROVE ~ Opening'
  <2>1. state # 0
    BY <1>5, <1>6 DEF PhasesInv, Phases
  <2>2. QED
    BY <1>2, <2>1 DEF PhasesInv, Phases
<1>7. ASSUME ~ fault', Connected' PROVE StreamOK'
  <2>1. state # 0 /\ fetch.box # Stale /\ Room(out)
    BY <1>5, <1>7 DEF PhasesInv, Phases
  <2>2. StreamOK /\ InStep
    BY <1>2, <1>5, <1>7, <2>1 DEF PhasesInv, StreamInv, StreamOK
  <2>3. /\ nonce \in Nat /\ key = nonce
        /\ \A i \in 1..Len(out) : PlaceOf(out[i], Position(pool) + i - 1)
    BY <2>2 DEF InStep
  <2>4. /\ out \in Seq(Part) /\ Len(out) \in Nat /\ Position(pool) \in Int
        /\ fetch \in Fetch /\ fetch.box \in Key /\ fetch.box \in Nat
    <3>1. fetch \in Fetch /\ fetch.box \in Key
      BY DEF StreamBounds, StreamTypes, Fetch
    <3>2. fetch.box \in Nat
      BY <2>1, <3>1, SessionAssumption DEF Key, Stale
    <3>3. QED
      BY <3>1, <3>2 DEF StreamBounds, StreamTypes, Position, PoolState
  <2>5. CASE FetchHeader
    <3> DEFINE x == [part |-> "header", key |-> fetch.box]
    <3>1. /\ nonce = fetch.box + 1 /\ fetch.header = fetch.box
          /\ Position(pool) + Len(out) = 2 * fetch.box + 1
      <4>1. InHand("keyed")
        BY <2>1, <2>5 DEF FetchHeader, FetchSend, InHand
      <4>2. QED
        BY <2>2, <4>1 DEF InStep, NextAt
    <3>2. out' = Append(out, x) /\ fetch' = [fetch EXCEPT !.at = "headed"]
      BY <2>1, <2>5, <3>1 DEF FetchHeader, FetchSend
    <3>3. x \in Part /\ x.part = "header" /\ x.key = fetch.box
      BY <2>4 DEF Part
    <3> HIDE DEF x
    <3>4. PlaceOf(x, Position(pool) + Len(out))
      BY <2>4, <3>1, <3>3 DEF PlaceOf
    <3>5. /\ Len(out') = Len(out) + 1
          /\ \A i \in 1..Len(out') : PlaceOf(out'[i], Position(pool) + i - 1)
      BY <2>3, <2>4, <3>2, <3>3, <3>4, PartSent DEF StreamBounds
    <3>6. NextAt' = 2 * fetch.box + 2
      <4>1. NextAt' = Position(pool) + Len(out')
        BY <1>1 DEF NextAt
      <4>2. Position(pool) + Len(out) = 2 * fetch.box + 1
        BY <3>1
      <4>3. Len(out') = Len(out) + 1
        BY <3>5
      <4>4. Position(pool) + Len(out') = 2 * fetch.box + 2
        <5>1. Position(pool) \in Int /\ Len(out) \in Int /\ fetch.box \in Int
          BY <2>4
        <5>2. QED
          BY <4>2, <4>3, <5>1
      <4>5. QED
        BY <4>1, <4>4
    <3>7. fetch'.at = "headed" /\ fetch'.box = fetch.box
      BY <2>4, <3>2 DEF Fetch
    <3>8. /\ ~ InHand("boxed")' /\ ~ InHand("keyed")' /\ InHand("headed")'
      BY <2>1, <3>7 DEF InHand
    <3>9. InStep'
      BY <1>1, <2>3, <3>1, <3>5, <3>6, <3>7, <3>8 DEF InStep
    <3>10. QED
      BY <1>1, <2>1, <2>2, <3>9 DEF StreamOK
  <2>6. CASE FetchBody
    <3> DEFINE x == [part |-> "body", key |-> fetch.box]
    <3>1. /\ nonce = fetch.box + 1
          /\ Position(pool) + Len(out) = 2 * fetch.box + 2
      <4>1. InHand("headed")
        BY <2>1, <2>6 DEF FetchBody, FetchSend, InHand
      <4>2. QED
        BY <2>2, <4>1 DEF InStep, NextAt
    <3>2. out' = Append(out, x) /\ fetch' = [Idle EXCEPT !.at = "sent"]
      BY <2>1, <2>6 DEF FetchBody, FetchSend
    <3>3. x \in Part /\ x.part = "body" /\ x.key = fetch.box
      BY <2>4 DEF Part
    <3> HIDE DEF x
    <3>4. PlaceOf(x, Position(pool) + Len(out))
      BY <2>4, <3>1, <3>3 DEF PlaceOf
    <3>5. /\ Len(out') = Len(out) + 1
          /\ \A i \in 1..Len(out') : PlaceOf(out'[i], Position(pool) + i - 1)
      BY <2>3, <2>4, <3>2, <3>3, <3>4, PartSent DEF StreamBounds
    <3>6. NextAt' = 2 * nonce' + 1
      <4>1. NextAt' = Position(pool) + Len(out') /\ nonce' = nonce
        BY <1>1 DEF NextAt
      <4>2. Position(pool) + Len(out') = 2 * fetch.box + 3
        <5>1. Len(out') = Len(out) + 1
          BY <3>5
        <5>2. /\ Len(out) \in Nat /\ Position(pool) \in Int /\ fetch.box \in Nat
              /\ Position(pool) + Len(out) = 2 * fetch.box + 2
          BY <2>4, <3>1
        <5>3. QED
          BY <5>1, <5>2
      <4>3. 2 * nonce + 1 = 2 * fetch.box + 3
        BY <2>4, <3>1
      <4>4. QED
        BY <4>1, <4>2, <4>3
    <3>7. fetch'.at = "sent"
      BY <3>2, IdleType DEF Fetch
    <3>8. /\ ~ InHand("boxed")' /\ ~ InHand("keyed")' /\ ~ InHand("headed")'
      BY <3>7 DEF InHand
    <3>9. InStep'
      BY <1>1, <2>3, <3>5, <3>6, <3>8 DEF InStep
    <3>10. QED
      BY <1>1, <2>1, <2>2, <3>9 DEF StreamOK
  <2>7. QED
    BY <2>5, <2>6
<1>8. QED
  BY <1>4, <1>6, <1>7 DEF PhasesInv, StreamInv

(* The message gets its number: the one its body was enciphered with. *)
LEMMA PhasesFetchKey ==
  ASSUME StreamBounds, PhasesInv, FetchKey
  PROVE  PhasesInv'
<1>1. /\ fetch.at = "boxed" /\ fetch' = [fetch EXCEPT !.at = "keyed", !.header = key]
      /\ key' = Advanced(key) /\ nonce' = Advanced(nonce)
      /\ fault' = (fault \/ fetch.box = Stale)
      /\ UNCHANGED <<state, pc, out, pool>>
  BY DEF FetchKey, link
<1>2. UNCHANGED <<Opening, Connected>>
  BY <1>1 DEF Opening, Connected
<1>3. fetch'.at = "keyed" /\ fetch'.box = fetch.box /\ fetch'.header = key
  BY <1>1 DEF StreamBounds, StreamTypes, Fetch
<1>4. Phases'
  BY <1>1, <1>2, <1>3 DEF PhasesInv, Phases
<1>5. ASSUME ~ fault' PROVE ~ fault /\ fetch.box # Stale /\ state # 0
  <2>1. ~ fault /\ fetch.box # Stale
    BY <1>1, <1>5
  <2>2. QED
    BY <2>1 DEF PhasesInv, Phases
<1>6. ASSUME ~ fault' PROVE ~ Opening'
  BY <1>2, <1>5, <1>6 DEF PhasesInv, Phases
<1>7. ASSUME ~ fault', Connected' PROVE StreamOK'
  <2>1. StreamOK /\ InStep /\ fetch.box # Stale /\ state # 0
    BY <1>2, <1>5, <1>7 DEF PhasesInv, StreamInv, StreamOK
  <2>2. /\ nonce \in Nat /\ key = nonce /\ fetch.box = nonce
        /\ NextAt = 2 * nonce + 1
        /\ \A i \in 1..Len(out) : PlaceOf(out[i], Position(pool) + i - 1)
    BY <1>1, <2>1 DEF InStep, InHand
  <2>3. key' = nonce + 1 /\ nonce' = nonce + 1
    BY <1>1, <2>2 DEF Advanced
  <2>4. NextAt' = NextAt
    BY <1>1 DEF NextAt
  <2>5. /\ ~ InHand("boxed")' /\ InHand("keyed")' /\ ~ InHand("headed")'
    BY <1>3, <2>1 DEF InHand
  <2>6. InStep'
    BY <1>1, <1>3, <2>2, <2>3, <2>4, <2>5 DEF InStep
  <2>7. QED
    BY <1>1, <2>1, <2>6 DEF StreamOK
<1>8. QED
  BY <1>4, <1>6, <1>7 DEF PhasesInv, StreamInv

(* The message is enciphered. *)
LEMMA PhasesFetchBox ==
  ASSUME StreamBounds, SessionInv, PhasesInv, FetchBox
  PROVE  PhasesInv'
<1>1. /\ fetch.at = "checked" /\ fetch' = [fetch EXCEPT !.at = "boxed", !.box = BoxNonce]
      /\ UNCHANGED <<state, pc, key, nonce, out, pool, fault>>
  BY DEF FetchBox, link, stream
<1>2. UNCHANGED <<Opening, Connected>>
  BY <1>1 DEF Opening, Connected
<1>3. fetch'.at = "boxed" /\ fetch'.box = BoxNonce
  BY <1>1 DEF StreamBounds, StreamTypes, Fetch
<1>4. Phases'
  <2>1. state < 2 => BoxNonce = Stale
    <3>1. state < 2 => ~ (state >= 2)
      BY DEF SessionInv, SessionTypes
    <3>2. QED
      BY <3>1 DEF BoxNonce
  <2>2. QED
    BY <1>1, <1>2, <1>3, <2>1 DEF PhasesInv, Phases
<1>5. InStep => InStep'
  <2>1. /\ ~ InHand("keyed") /\ ~ InHand("headed")
        /\ ~ InHand("keyed")' /\ ~ InHand("headed")'
    BY <1>1, <1>3 DEF InHand
  <2>2. InHand("boxed")' => fetch'.box = nonce'
    BY <1>1, <1>3 DEF InHand, BoxNonce
  <2>3. NextAt' = NextAt
    BY <1>1 DEF NextAt
  <2>4. QED
    BY <1>1, <2>1, <2>2, <2>3 DEF InStep
<1>6. StreamOK => StreamOK'
  BY <1>1, <1>5 DEF StreamOK, BeforeHello
<1>7. QED
  BY <1>1, <1>2, <1>4, <1>6 DEF PhasesInv, StreamInv, BeforeHello

(* Everything that does not touch the stream. *)
LEMMA PhasesOthers ==
  ASSUME SessionsInv, PhasesInv,
         \/ FetchCheck \/ FetchWait \/ FetchTimeout \/ PowSubmit \/ PoolSends
         \/ Boot \/ \E due \in BOOLEAN : MainLoop(due)
         \/ UNCHANGED vars
  PROVE  PhasesInv'
<1>1. CASE FetchCheck \/ FetchWait \/ FetchTimeout \/ PowSubmit \/ UNCHANGED vars
  <2>1. UNCHANGED <<state, pc, key, nonce, out, pool, fault>>
    BY <1>1 DEF FetchCheck, FetchWait, FetchTimeout, PowSubmit, vars, link, stream
  <2>2. UNCHANGED <<Opening, Connected>>
    BY <2>1 DEF Opening, Connected
  <2>3. \/ UNCHANGED fetch
        \/ /\ fetch.at \notin {"boxed", "keyed", "headed"}
           /\ fetch'.at \notin {"boxed", "keyed", "headed"}
           /\ fetch'.box = fetch.box \/ fetch'.box = Stale
    <3>1. CASE FetchCheck
      BY <3>1, IdleType DEF FetchCheck, Fetch
    <3>2. CASE FetchWait
      BY <3>2 DEF FetchWait, SessionsInv, StreamBounds, StreamTypes, Fetch
    <3>3. CASE FetchTimeout
      BY <3>3, IdleType DEF FetchTimeout
    <3>4. CASE PowSubmit \/ UNCHANGED vars
      BY <3>4 DEF PowSubmit, vars
    <3>5. QED
      BY <1>1, <3>1, <3>2, <3>3, <3>4
  <2>4. Phases'
    BY <2>1, <2>2, <2>3 DEF PhasesInv, Phases
  <2>5. StreamInv'
    BY <2>1, <2>2, <2>3, StreamStays DEF PhasesInv
  <2>6. QED
    BY <2>4, <2>5 DEF PhasesInv
<1>2. CASE PoolSends
  <2>1. UNCHANGED <<state, pc, key, nonce, out, fetch, fault>>
    BY <1>2 DEF PoolSends, stream
  <2>2. UNCHANGED <<Opening, Connected>>
    BY <2>1 DEF Opening, Connected
  <2>3. \/ pool' = pool
        \/ /\ pool.at \in {"greeted", "shaken"}
           /\ \/ pool' = [pool EXCEPT !.at = "shaken"]
              \/ pool' = [pool EXCEPT !.at = "ready"]
    BY <1>2 DEF PoolSends
  <2>4. \/ pool' = pool
        \/ /\ pool.at \in {"greeted", "shaken"} /\ pool'.at \in {"shaken", "ready"}
           /\ pool'.n = pool.n /\ pool'.body = pool.body
    BY <2>3 DEF SessionsInv, StreamBounds, StreamTypes, PoolState
  <2>5. /\ Position(pool') = Position(pool)
        /\ pool'.at \in {"none", "lost", "new"} => pool' = pool
        /\ pool.at \in {"none", "lost", "new"} => pool' = pool
    BY <2>4 DEF Position
  <2>6. Phases'
    BY <2>1, <2>2, <2>5 DEF PhasesInv, Phases
  <2>7. InStep => InStep'
    BY <2>1, <2>5, InStepStays
  <2>8. StreamOK => StreamOK'
    BY <2>1, <2>5, <2>7 DEF StreamOK, BeforeHello
  <2>9. StreamInv'
    BY <2>1, <2>2, <2>8 DEF PhasesInv, StreamInv, BeforeHello
  <2>10. QED
    BY <2>6, <2>9 DEF PhasesInv
<1>3. CASE Boot \/ \E due \in BOOLEAN : MainLoop(due)
  <2>1. UNCHANGED <<state, key, nonce, out, pool, fetch, fault>>
    BY <1>3 DEF Boot, MainLoop, link, stream
  <2>2. CASE Rests
    <3>1. UNCHANGED <<Opening, Connected, pc>>
      BY <2>2 DEF Opening, Connected, Rests
    <3>2. Phases'
      BY <2>1, <3>1 DEF PhasesInv, Phases
    <3>3. StreamInv'
      BY <2>1, <3>1, StreamStays DEF PhasesInv
    <3>4. QED
      BY <3>2, <3>3 DEF PhasesInv
  <2>3. ASSUME NEW t \in Threads, Begins(t) PROVE PhasesInv'
    <3>1. \A u \in Threads : pc[u] \notin InSession
      BY <2>3 DEF Begins, SessionsInv, OneThread
    <3>2. \A u \in Threads : pc'[u] = "start" \/ pc'[u] \notin InSession
      BY <2>3, <3>1 DEF Begins, SessionsInv, OneThread
    <3>3. ~ Opening' /\ ~ Connected' /\ ~ Connected
          /\ \A u \in Threads : pc'[u] # "poll"
      BY <3>1, <3>2 DEF Opening, Connected, InSession, Places
    <3>4. QED
      BY <2>1, <3>3 DEF PhasesInv, Phases, StreamInv
  <2>4. QED
    BY <1>3, <2>2, <2>3, MainMoves
<1>4. QED
  BY <1>1, <1>2, <1>3

(* At the start no phase of the handshake has begun. *)
LEMMA PhasesInit == Init => PhasesInv
<1> SUFFICES ASSUME Init PROVE PhasesInv
  OBVIOUS
<1>1. \A t \in Threads : pc[t] \in {"start", "none"}
  BY DEF Init
<1>2. ~ Opening /\ ~ Connected /\ \A t \in Threads : pc[t] # "poll"
  BY <1>1 DEF Opening, Connected
<1>3. fetch.box = Stale /\ pool.at = "none"
  BY IdleType DEF Init, Nowhere
<1>4. QED
  BY <1>2, <1>3 DEF PhasesInv, Phases, StreamInv

(* datum_protocol_mining_cmd, datum_protocol_coinbaser_fetch and the hello share
   keys and nonces, with and without the lock of the sender; as long as nothing
   was refused by the buffer, sent before the pool answered, or carried over
   from another session, the pool can read every part of the stream.        *)
THEOREM PoolUnderstandsAlways == Spec => []PoolUnderstands
<1> DEFINE Inv == SessionsInv /\ PhasesInv
<1>1. Init => Inv
  BY SessionsInit, PhasesInit
<1>2. Inv /\ [Next]_vars => Inv'
  <2> SUFFICES ASSUME Inv, [Next]_vars PROVE Inv'
    OBVIOUS
  <2>1. SessionsInv'
    BY SessionsStep
  <2>2. ASSUME Coinbaser PROVE PhasesInv'
    <3>1. StreamBounds /\ SessionInv /\ PhasesInv
      BY DEF SessionsInv
    <3>2. CASE FetchHeader \/ FetchBody
      BY <3>1, <3>2, PhasesFetchSend
    <3>3. CASE FetchKey
      BY <3>1, <3>3, PhasesFetchKey
    <3>4. CASE FetchBox
      BY <3>1, <3>4, PhasesFetchBox
    <3>5. CASE FetchCheck \/ FetchWait \/ FetchTimeout
      BY <3>5, PhasesOthers
    <3>6. QED
      BY <2>2, <3>2, <3>3, <3>4, <3>5 DEF Coinbaser
  <2>3. ASSUME NEW t \in Threads,
               Run(t) \/ TimeOut(t) \/ FlushFails(t) \/ PollFails(t)
        PROVE  PhasesInv'
    BY <2>3, PhasesRun
  <2>4. ASSUME \/ PowSubmit \/ PoolSends
               \/ Boot \/ \E due \in BOOLEAN : MainLoop(due)
               \/ UNCHANGED vars
        PROVE  PhasesInv'
    BY <2>4, PhasesOthers
  <2>5. PhasesInv'
    BY <2>2, <2>3, <2>4 DEF Next
  <2>6. QED
    BY <2>1, <2>5
<1>3. Inv => PoolUnderstands
  <2> SUFFICES ASSUME Inv, ~ fault PROVE pool.at # "lost"
    BY DEF PoolUnderstands
  <2>1. pool.at # "none" => Connected
    BY DEF PhasesInv, Phases
  <2>2. QED
    BY <2>1 DEF PhasesInv, StreamInv, StreamOK
<1>4. QED
  BY <1>1, <1>2, <1>3, PTL DEF Spec
=============================================================================
