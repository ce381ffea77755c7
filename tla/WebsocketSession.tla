--------------------------- MODULE WebsocketSession ---------------------------
(***************************************************************************)
(* The chat core of the server: every websocket_session from the upgrade   *)
(* request to its destructor, the shared_state they are registered in, and *)
(* the shutdown of the io_context that owns their handlers.                *)
(*                                                                         *)
(* A session is owned only by the completion handlers of its outstanding   *)
(* asynchronous operations (each captures shared_from_this()).  When the   *)
(* last of them is gone the destructor runs, in the same step.             *)
(***************************************************************************)
EXTENDS SharedState, Jwt

CONSTANTS TokenNames,  \* the tokens clients present
          TokenOf,     \* what each of them decodes to
          MaxTime,     \* bound: ticks of the clock
          IdAt,        \* generate_random_string(16) as a function of the clock
          Leavers,     \* bound: the sessions whose peer may hang up
          MaxChat      \* bound: chat messages read by the server

ASSUME SessionAssumption ==
  /\ MaxTime \in Nat
  /\ MaxChat \in Nat
  /\ IdAt \in [0..MaxTime -> Ids]
  /\ \A t, u \in 0..MaxTime : to_time_t(t) = to_time_t(u) => IdAt[t] = IdAt[u]

VARIABLES
  life,           \* "unborn", "alive" or "destroyed"
  connection_id,  \* websocket_session::connection_id
  reads,          \* number of outstanding ws_.async_read operations
  setup,          \* outstanding operations of run(): "accept", "close", "write401"
  status,         \* state of ws_ and its socket (Beast)
  token,          \* the token the upgrade request carried
  presented,      \* history: the tick at which it did
  wire,           \* messages whose async_write completed without error
  hungup,         \* the peer has closed or reset the connection
  now,            \* the system clock, in ticks
  said,           \* number of chat messages read so far
  stopped         \* ioc.stop() was called: no handler runs any more

sessionVars ==
  <<life, connection_id, reads, setup, status, token, presented, wire, hungup>>
vars == <<sessions_, queue_, writes, sessionVars, now, said, stopped>>

NoToken == "no token yet"
Never == -1

Message == {Greeting(id) : id \in Ids} \cup {Farewell(id) : id \in Ids}
             \cup {Chat(n) : n \in 1..MaxChat}

Init ==
  /\ sessions_ = [id \in Ids |-> nullptr]
  /\ queue_ = [s \in Sessions |-> <<>>]
  /\ writes = [s \in Sessions |-> <<>>]
  /\ life = [s \in Sessions |-> "unborn"]
  /\ connection_id = [s \in Sessions |-> NoId]
  /\ reads = [s \in Sessions |-> 0]
  /\ setup = [s \in Sessions |-> {}]
  /\ status = [s \in Sessions |-> "closed"]
  /\ token = [s \in Sessions |-> NoToken]
  /\ presented = [s \in Sessions |-> Never]
  /\ wire = [s \in Sessions |-> <<>>]
  /\ hungup = [s \in Sessions |-> FALSE]
  /\ now = 0
  /\ said = 0
  /\ stopped = FALSE

-----------------------------------------------------------------------------

(* The handler of s returns and drops its shared_ptr, leaving the operations
   r, w and u outstanding and the queues q.  Without a remaining owner the
   destructor runs disconnect(connection_id). *)
Owned(s, r, w, u) == r[s] > 0 \/ w[s] # <<>> \/ u[s] # {}

Destructor(s, q, w) ==
  /\ life' = [life EXCEPT ![s] = "destroyed"]
  /\ disconnect(connection_id[s], q, w)

(* Faulty variant: the map itself keeps the sessions in it alive. *)
Return_OwningMap(s, q, r, w, u) ==
  /\ reads' = r
  /\ setup' = u
  /\ \/ /\ Owned(s, r, w, u) \/ s \in Registered(sessions_)
        /\ queue_' = q
        /\ writes' = w
        /\ UNCHANGED <<sessions_, life>>
     \/ /\ ~(Owned(s, r, w, u) \/ s \in Registered(sessions_))
        /\ Destructor(s, q, w)

Return(s, q, r, w, u) ==
  /\ reads' = r
  /\ setup' = u
  /\ \/ /\ Owned(s, r, w, u)
        /\ queue_' = q
        /\ writes' = w
        /\ UNCHANGED <<sessions_, life>>
     \/ /\ ~Owned(s, r, w, u)
        /\ Destructor(s, q, w)

(* http_session::on_read moves the socket into a new session and calls run().
   A verified token starts the handshake; any exception starts the closing
   and the 401 response side by side. *)
close_with_401 == {"close", "write401"}

(* Faulty variant: the handshake goes on after close_with_401. *)
run_NoReturn(s, tok) ==
  setup' = [setup EXCEPT ![s] =
              {"accept"} \cup (IF Accepts(TokenOf[tok], now) THEN {} ELSE close_with_401)]

(* Faulty variant: the clock was read once, when the server started. *)
run_StaleClock(s, tok) ==
  setup' = [setup EXCEPT ![s] =
              IF Accepts(TokenOf[tok], 0) THEN {"accept"} ELSE close_with_401]

run(s, tok) ==
  setup' = [setup EXCEPT ![s] =
              IF Accepts(TokenOf[tok], now) THEN {"accept"} ELSE close_with_401]

Upgrade(s) ==
  /\ ~stopped
  /\ life[s] = "unborn"
  /\ life' = [life EXCEPT ![s] = "alive"]
  /\ \E tok \in TokenNames :
       /\ token' = [token EXCEPT ![s] = tok]
       /\ run(s, tok)
  /\ presented' = [presented EXCEPT ![s] = now]
  /\ UNCHANGED <<sessions_, queue_, writes, connection_id, reads, status, wire,
                 hungup, now, said, stopped>>

(* The random generator is seeded with std::time(nullptr): within one second
   every call returns the same string. *)
generate_random_string == IdAt[now]

(* Faulty variant: nothing is read from the new session. *)
OnAccept_NoRead(s) ==
  /\ ~stopped
  /\ "accept" \in setup[s]
  /\ status' = [status EXCEPT ![s] = "open"]
  /\ connection_id' = [connection_id EXCEPT ![s] = generate_random_string]
  /\ connect(generate_random_string, s, queue_, writes)
  /\ setup' = [setup EXCEPT ![s] = @ \ {"accept"}]
  /\ UNCHANGED <<life, reads, token, presented, wire, hungup, now, said, stopped>>

OnAccept(s) ==
  /\ ~stopped
  /\ "accept" \in setup[s]
  /\ status' = [status EXCEPT ![s] = "open"]
  /\ connection_id' = [connection_id EXCEPT ![s] = generate_random_string]
  /\ connect(generate_random_string, s, queue_, writes)
  /\ reads' = [reads EXCEPT ![s] = @ + 1]
  /\ setup' = [setup EXCEPT ![s] = @ \ {"accept"}]
  /\ UNCHANGED <<life, token, presented, wire, hungup, now, said, stopped>>

OnAcceptError(s) ==
  /\ ~stopped
  /\ "accept" \in setup[s]
  /\ status' = [status EXCEPT ![s] = "failed"]
  /\ Return(s, queue_, reads, writes, [setup EXCEPT ![s] = @ \ {"accept"}])
  /\ UNCHANGED <<connection_id, token, presented, wire, hungup, now, said, stopped>>

(* The session goes on reading, so its owner count does not change.  A read, or
   a write, that was complete before the other direction of the stream failed
   is still reported without an error after it. *)
OnRead(s) ==
  /\ ~stopped
  /\ reads[s] > 0
  /\ said < MaxChat
  /\ said' = said + 1
  /\ broadcast(sessions_, Chat(said + 1), queue_, writes)
  /\ UNCHANGED <<sessions_, sessionVars, now, stopped>>

(* Faulty variant: the read is started again after an error. *)
OnReadError_Retry(s) ==
  /\ ~stopped
  /\ reads[s] > 0
  /\ status' = [status EXCEPT ![s] = "failed"]
  /\ Return(s, queue_, reads, writes, setup)
  /\ UNCHANGED <<connection_id, token, presented, wire, hungup, now, said, stopped>>

OnReadError(s) ==
  /\ ~stopped
  /\ reads[s] > 0
  /\ status' = [status EXCEPT ![s] = "failed"]
  /\ Return(s, queue_, [reads EXCEPT ![s] = @ - 1], writes, setup)
  /\ UNCHANGED <<connection_id, token, presented, wire, hungup, now, said, stopped>>

(* The front of the queue was written: erase it, write the next one if any. *)
OnWrite(s) ==
  /\ ~stopped
  /\ writes[s] # <<>>
  /\ wire' = [wire EXCEPT ![s] = Append(@, Head(writes[s]))]
  /\ LET rest == Tail(queue_[s])
         next == IF rest # <<>> THEN <<Head(rest)>> ELSE <<>>
     IN  Return(s, [queue_ EXCEPT ![s] = rest], reads,
                [writes EXCEPT ![s] = Tail(@) \o next], setup)
  /\ UNCHANGED <<connection_id, status, token, presented, hungup, now, said, stopped>>

OnWriteError(s) ==
  /\ ~stopped
  /\ writes[s] # <<>>
  /\ status' = [status EXCEPT ![s] = "failed"]
  /\ Return(s, queue_, reads, [writes EXCEPT ![s] = Tail(@)], setup)
  /\ UNCHANGED <<connection_id, token, presented, wire, hungup, now, said, stopped>>

(* With or without an error, on_close only reports. *)
OnClose(s) ==
  /\ ~stopped
  /\ "close" \in setup[s]
  /\ Return(s, queue_, reads, writes, [setup EXCEPT ![s] = @ \ {"close"}])
  /\ UNCHANGED <<connection_id, status, token, presented, wire, hungup, now, said, stopped>>

(* A written response is followed by shutting down the sending side. *)
OnWrite401(s) ==
  /\ ~stopped
  /\ "write401" \in setup[s]
  /\ status' \in {[status EXCEPT ![s] = "shutdown"], [status EXCEPT ![s] = "failed"]}
  /\ Return(s, queue_, reads, writes, [setup EXCEPT ![s] = @ \ {"write401"}])
  /\ UNCHANGED <<connection_id, token, presented, wire, hungup, now, said, stopped>>

-----------------------------------------------------------------------------
(* main: a signal stops the io_context.  Leaving main destroys it together
   with the handlers that never ran, one after the other; a destructor that
   runs meanwhile may still start operations, which join the ones to destroy. *)

Stop ==
  /\ ~stopped
  /\ stopped' = TRUE
  /\ UNCHANGED <<sessions_, queue_, writes, sessionVars, now, said>>

DestroyHandler(s) ==
  /\ stopped
  /\ \/ /\ reads[s] > 0
        /\ Return(s, queue_, [reads EXCEPT ![s] = @ - 1], writes, setup)
     \/ /\ writes[s] # <<>>
        /\ Return(s, queue_, reads, [writes EXCEPT ![s] = Tail(@)], setup)
     \/ \E u \in setup[s] :
          Return(s, queue_, reads, writes, [setup EXCEPT ![s] = @ \ {u}])
  /\ UNCHANGED <<connection_id, status, token, presented, wire, hungup, now, said, stopped>>

(* No handler is left and main has returned: nothing more happens. *)
Exited ==
  /\ stopped
  /\ \A s \in Sessions : ~Owned(s, reads, writes, setup)
  /\ UNCHANGED vars

-----------------------------------------------------------------------------
(* Environment. *)

Hangup(s) ==
  /\ s \in Leavers
  /\ life[s] = "alive"
  /\ ~hungup[s]
  /\ hungup' = [hungup EXCEPT ![s] = TRUE]
  /\ UNCHANGED <<sessions_, queue_, writes, life, connection_id, reads, setup,
                 status, token, presented, wire, now, said, stopped>>

Tick ==
  /\ ~stopped
  /\ now < MaxTime
  /\ now' = now + 1
  /\ UNCHANGED <<sessions_, queue_, writes, sessionVars, said, stopped>>

Handler(s) ==
  \/ OnAccept(s)
  \/ OnAcceptError(s)
  \/ OnRead(s)
  \/ OnReadError(s)
  \/ OnWrite(s)
  \/ OnWriteError(s)
  \/ OnClose(s)
  \/ OnWrite401(s)

Next ==
  \/ \E s \in Sessions : Upgrade(s) \/ Handler(s) \/ Hangup(s) \/ DestroyHandler(s)
  \/ Stop
  \/ Tick
  \/ Exited

(* The kernel completes every operation on a connection whose peer is gone,
   and destroying the io_context runs to its end.  Nothing else is promised:
   no timeout is set on any stream, so a silent or slow peer may keep its
   operations pending for ever. *)
Fairness ==
  /\ \A s \in Sessions :
       /\ WF_vars(hungup[s] /\ (OnAccept(s) \/ OnAcceptError(s)))
       /\ WF_vars(hungup[s] /\ OnReadError(s))
       /\ WF_vars(hungup[s] /\ (OnWrite(s) \/ OnWriteError(s)))
       /\ WF_vars(hungup[s] /\ OnClose(s))
       /\ WF_vars(hungup[s] /\ OnWrite401(s))
       /\ WF_vars(DestroyHandler(s))

Spec == Init /\ [][Next]_vars /\ Fairness

-----------------------------------------------------------------------------
(* Properties. *)

TypeOK ==
  /\ sessions_ \in [Ids -> Sessions \cup {nullptr}]
  /\ queue_ \in [Sessions -> Seq(Message)]
  /\ writes \in [Sessions -> Seq(Message)]
  /\ life \in [Sessions -> {"unborn", "alive", "destroyed"}]
  /\ connection_id \in [Sessions -> Ids \cup {NoId}]
  /\ reads \in [Sessions -> Nat]
  /\ setup \in [Sessions -> SUBSET {"accept", "close", "write401"}]
  /\ status \in [Sessions -> {"closed", "open", "failed", "shutdown"}]
  /\ token \in [Sessions -> TokenNames \cup {NoToken}]
  /\ presented \in [Sessions -> {Never} \cup 0..MaxTime]
  /\ wire \in [Sessions -> Seq(Message)]
  /\ hungup \in [Sessions -> BOOLEAN]
  /\ now \in 0..MaxTime
  /\ said \in 0..MaxChat
  /\ stopped \in BOOLEAN

(* Everything ever handed to send() of a session, in order. *)
Inbox == [s \in Sessions |-> wire[s] \o queue_[s]]

(* The chat core implements the abstract room: a session's inbox is what is on
   the wire followed by what is queued, so finishing a write changes nothing
   and every handler adds exactly what its room action adds. *)
Room == INSTANCE ChatRoom WITH
  Members <- Sessions, Names <- Ids, NoName <- NoId, Nobody <- nullptr,
  Welcome <- Greeting, Goodbye <- Farewell, Texts <- {Chat(n) : n \in 1..MaxChat},
  room <- sessions_, name <- connection_id, inbox <- Inbox,
  left <- {s \in Sessions : life[s] = "destroyed" /\ connection_id[s] # NoId}

ImplementsRoom == Room!Spec

(* sessions_ holds raw pointers.  Each of them points to a session that has
   not been destroyed, and sits under that session's own id, whatever ids
   collide and in whatever order the sessions of one id die. *)
NoDanglingPointer ==
  \A id \in Ids : sessions_[id] # nullptr =>
    /\ life[sessions_[id]] = "alive"
    /\ connection_id[sessions_[id]] = id

(* Beast allows one outstanding write per stream, and its buffer must stay
   valid: the only write under way is of the front of queue_, and while the
   server runs a stream that works is never left with queued messages and no
   write. *)
WriteDiscipline ==
  \A s \in Sessions :
    /\ \/ writes[s] = <<>>
       \/ queue_[s] # <<>> /\ writes[s] = <<Head(queue_[s])>>
    /\ life[s] = "alive" /\ status[s] = "open" /\ ~stopped /\ queue_[s] # <<>>
         => writes[s] # <<>>

(* An accepted session keeps exactly one read going until its stream fails
   (or shutdown destroys the read), and a session is alive exactly as long as
   some operation owns it. *)
OwnedWhileAlive ==
  \A s \in Sessions :
    /\ life[s] = "alive" <=> Owned(s, reads, writes, setup)
    /\ reads[s] <= 1
    /\ life[s] = "alive" /\ status[s] = "open" /\ ~stopped => reads[s] = 1

(* The phases of a session do not overlap: the handshake excludes the refusal,
   and neither goes on once the session has an id.  Without an id a session is
   not reading, has never been handed a message and its stream is not open. *)
PhasesApart ==
  \A s \in Sessions :
    /\ life[s] = "unborn" => setup[s] = {} /\ connection_id[s] = NoId
    /\ setup[s] # {} => connection_id[s] = NoId
    /\ "accept" \in setup[s] => setup[s] = {"accept"}
    /\ connection_id[s] = NoId =>
         /\ reads[s] = 0
         /\ queue_[s] = <<>> /\ writes[s] = <<>> /\ wire[s] = <<>>
         /\ status[s] # "open"

(* The first thing a client is sent is its own id, and nobody is greeted
   twice: connect() greets the session it has just registered, before any
   broadcast can reach it. *)
GreetedFirst == Room!GreetedFirst

(* Registered sessions have been sent the same messages in the same order
   since the younger one joined, however their writes interleave. *)
SameOrder == Room!SameOrder

(* A live, accepted session that broadcasts no longer reach shares its id with
   another session: it has lost its place to a collision of ids, to the
   newcomer or to the newcomer's destructor, never for any other reason. *)
UnreachedOnlyByCollision == Room!UnheldOnlyByCollision

(* The inductive invariant behind the properties above. *)
IInv == TypeOK /\ NoDanglingPointer /\ WriteDiscipline /\ OwnedWhileAlive /\ PhasesApart

(* Only a session whose token was accepted, by the clock as it stood when the
   token was presented, gets an id, is registered or is sent anything: refused
   ones never join the chat.  Nothing is asked of the token after that. *)
OnlyVerifiedJoin ==
  \A s \in Sessions :
    connection_id[s] # NoId \/ "accept" \in setup[s] =>
      presented[s] \in 0..now /\ Accepts(TokenOf[token[s]], presented[s])

(* A connection whose peer is gone is always reclaimed. *)
HangupReclaimed ==
  \A s \in Sessions : hungup[s] ~> life[s] = "destroyed"

(* After a signal every session is destroyed, although the destructors keep
   broadcasting to the sessions that are left. *)
ShutdownReclaims ==
  stopped ~> \A s \in Sessions : life[s] # "alive"

(* What the comment in on_read says of broadcast(): "Send to all connections". *)
AllConnectionsReached ==
  \A s \in Sessions :
    life[s] = "alive" /\ connection_id[s] # NoId => s \in Registered(sessions_)

(* What the comment in the destructor says of disconnect(): "Remove this
   session from the list of active sessions".  No other session is removed. *)
RemovesOnlyItself ==
  [][\A s \in Sessions :
       life[s] = "alive" /\ life'[s] = "destroyed" =>
         Registered(sessions_) \ {s} \subseteq Registered(sessions_')]_vars

=============================================================================
