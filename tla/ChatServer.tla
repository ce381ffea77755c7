----------------------------- MODULE ChatServer -----------------------------
(***************************************************************************)
(* The whole program: the HTTP side (Server) and the chat core             *)
(* (WebsocketSession) on one io_context.  A connection goes from the       *)
(* backlog over its http_session to the websocket_session that takes its   *)
(* socket, and a client takes its token from one response to the upgrade   *)
(* request on the same or another connection.                              *)
(***************************************************************************)
EXTENDS Server

CONSTANTS Ids, NoId, nullptr, IdAt, MaxTime, MaxChat,          \* of the chat core
          TicksPerSecond, ClockLimit, LifetimeSeconds,         \* of the tokens
          TokenOf,      \* what each of Tokens decodes to
          IssuedAs      \* the token that GET /api/ws gives at each tick

VARIABLES
  sessions_, queue_, writes, life, connection_id, reads, setup, stream, token, presented,
  wire, now, said,
  offered,    \* the token in the response a session is writing
  known       \* the tokens in responses that have been written

coreVars ==
  <<sessions_, queue_, writes, life, connection_id, reads, setup, stream, token, presented, wire,
    now, said>>
tokenVars == <<offered, known>>
chatVars == <<vars, coreVars, tokenVars>>

(* Each connection has its websocket_session, if it ever comes to it.  A peer
   that is gone is seen here in client; the chat core's own record of it, which
   only serves its fairness, stays unused. *)
Core == INSTANCE WebsocketSession WITH
  Sessions <- Connections, TokenNames <- Tokens, Leavers <- {}, status <- stream,
  hungup <- [c \in Connections |-> FALSE],
  stopped <- status \in {"stopping", "leaving", "exited"}

(* The tokens that are not the server's to issue: made up, or none at all. *)
Issuable == {IssuedAs[t] : t \in 0..MaxTime}
Unissued == Tokens \ Issuable

(* What the chat core assumes; and that a client cannot make up a token that is
   accepted, which TokenLifecycle is about.  The two readings of the clock that
   go into a token, told apart in TokenLifecycle, fall into one tick here. *)
ASSUME ChatServerAssumption ==
  /\ nullptr \notin Connections
  /\ NoId \notin Ids
  /\ TicksPerSecond \in Nat \ {0}
  /\ ClockLimit \in Nat \ {0}
  /\ LifetimeSeconds \in Nat
  /\ MaxTime \in Nat
  /\ MaxChat \in Nat
  /\ IdAt \in [0..MaxTime -> Ids]
  /\ \A t, u \in 0..MaxTime : Core!to_time_t(t) = Core!to_time_t(u) => IdAt[t] = IdAt[u]
  /\ IssuedAs \in [0..MaxTime -> Tokens]
  /\ \A t \in 0..MaxTime : TokenOf[IssuedAs[t]] = Core!IssuedToken(t, t)
  /\ \A n \in Unissued : \A t \in 0..MaxTime : ~Core!Accepts(TokenOf[n], t)

NoOffer == "no token"

ChatInit ==
  /\ Init
  /\ Core!Init
  /\ offered = [c \in Connections |-> NoOffer]
  /\ known = {}

-----------------------------------------------------------------------------
(* HTTP.  handle_request issues a token at the tick it runs; the client has it
   when the response is written. *)

CoreIdle == UNCHANGED coreVars /\ UNCHANGED tokenVars
Running == status = "running" /\ UNCHANGED mainVars

AsksForToken(r) == r.target = "/api/ws" /\ r.method = "GET"

Answer(c) ==
  /\ Running
  /\ OnReadRequest(c)
  /\ offered' = [offered EXCEPT ![c] = IF AsksForToken(req_'[c]) THEN IssuedAs[now] ELSE NoOffer]
  /\ UNCHANGED <<coreVars, known>>

Respond(c) ==
  /\ Running
  /\ OnWrite(c)
  /\ known' = known \cup ({offered[c]} \ {NoOffer})
  /\ offered' = [offered EXCEPT ![c] = NoOffer]
  /\ UNCHANGED coreVars

FailRead(c) ==
  /\ Running
  /\ OnReadEof(c) \/ OnReadError(c)
  /\ CoreIdle

(* A token in a response that could not be written is lost. *)
FailWrite(c) ==
  /\ Running
  /\ OnWriteError(c)
  /\ offered' = [offered EXCEPT ![c] = NoOffer]
  /\ UNCHANGED <<coreVars, known>>

(* The socket and the request move to a new websocket_session, whose run() looks
   at the token in the target.  Faulty variants: the http_session goes on
   reading from the socket it gave away; the request is moved away before the
   token is taken from it, so that another may be seen. *)
HandOver_KeepReading(c) ==
  /\ Running
  /\ \E r \in Requests : Arrived(c, r) /\ r.upgrade
  /\ Core!Upgrade(c)
  /\ token'[c] = req_'[c].token
  /\ UNCHANGED <<owner, op, response, sent, received, client, tokenVars>>

HandOver_AnyToken(c) ==
  /\ Running
  /\ OnReadUpgrade(c)
  /\ Core!Upgrade(c)
  /\ UNCHANGED tokenVars

HandOver(c) ==
  /\ Running
  /\ OnReadUpgrade(c)
  /\ Core!Upgrade(c)
  /\ token'[c] = req_'[c].token
  /\ UNCHANGED tokenVars

-----------------------------------------------------------------------------
(* The socket is closed with the session that holds it. *)

SocketFollows(c) ==
  /\ \/ life'[c] = "destroyed" /\ Finish(c, "closed")
     \/ life'[c] # "destroyed" /\ UNCHANGED <<owner, op>>
  /\ UNCHANGED <<req_, taken, response, sent, received, client, tokenVars>>

WebsocketHandler(c) ==
  /\ Running
  /\ Core!Handler(c)
  /\ SocketFollows(c)

(* Leaving main: the handlers of websocket_sessions are destroyed among the
   others, and their destructors still broadcast.  Faulty variants: ioc.stop()
   destroys the handlers already; a session goes with its operations, but
   without its destructor. *)
DestroyWebsocketHandler_Early(c) ==
  /\ status \in {"stopping", "leaving"}
  /\ UNCHANGED mainVars
  /\ Core!DestroyHandler(c)
  /\ SocketFollows(c)

DestroyWebsocketHandler_AtOnce(c) ==
  /\ status = "leaving"
  /\ UNCHANGED mainVars
  /\ life[c] = "alive"
  /\ life' = [life EXCEPT ![c] = "destroyed"]
  /\ reads' = [reads EXCEPT ![c] = 0]
  /\ writes' = [writes EXCEPT ![c] = <<>>]
  /\ setup' = [setup EXCEPT ![c] = {}]
  /\ UNCHANGED <<sessions_, queue_, connection_id, stream, token, presented, wire, now,
                 said>>
  /\ SocketFollows(c)

DestroyWebsocketHandler(c) ==
  /\ status = "leaving"
  /\ UNCHANGED mainVars
  /\ Core!DestroyHandler(c)
  /\ SocketFollows(c)

DestroyOther ==
  /\ DestroyListener \/ \E c \in Connections : owner[c] = "http" /\ DestroySession(c)
  /\ CoreIdle

MainAction ==
  /\ Start \/ OnAcceptError \/ Signal \/ OnSignal \/ RunReturns \/ Exit
  /\ CoreIdle

Accept(c) == OnAccept(c) /\ CoreIdle

-----------------------------------------------------------------------------
(* Clients present tokens that some client was given, or ones that the server
   never issues. *)

Request(c) ==
  /\ SendRequest(c)
  /\ sent'[c][Len(sent'[c])].token \in known \cup Unissued
  /\ UNCHANGED mainVars
  /\ CoreIdle

Go(c) == Leave(c) /\ UNCHANGED mainVars /\ CoreIdle

Arrive(c) == Connect(c) /\ CoreIdle

Tick ==
  /\ UNCHANGED vars
  /\ Core!Tick
  /\ UNCHANGED tokenVars

ChatNext ==
  \/ MainAction \/ DestroyOther \/ Tick
  \/ \E c \in Connections :
       \/ Accept(c) \/ Answer(c) \/ Respond(c) \/ FailRead(c) \/ FailWrite(c) \/ HandOver(c)
       \/ WebsocketHandler(c) \/ DestroyWebsocketHandler(c)
       \/ Arrive(c) \/ Request(c) \/ Go(c)

ChatSpec == ChatInit /\ [][ChatNext]_chatVars

-----------------------------------------------------------------------------
(* Properties. *)

(* A socket has one owner: a websocket_session exists exactly while it holds
   its connection's socket, and no http_session goes on with a socket that was
   given away. *)
SocketHandedOver ==
  \A c \in Connections :
    /\ owner[c] = "websocket" <=> life[c] = "alive"
    /\ life[c] # "unborn" => op[c] = "none" /\ owner[c] \in {"websocket", "closed"}

(* Nobody joins the chat but with a token that the server issued and has handed
   to a client in a complete response to GET /api/ws. *)
JoinedByToken ==
  \A c \in Connections : connection_id[c] # NoId => token[c] \in known \cap Issuable

(* Who is in the chat presented a token issued at or before that moment, and
   within the lifetime it was issued with: the upgrade compares the token with
   the clock as it is then, however long the client kept the token or the
   upgrade waited in the receive buffer.  How long the chat lasts after that
   does not matter. *)
JoinedInLifetime ==
  \A c \in Connections : connection_id[c] # NoId =>
    \E t \in 0..presented[c] :
      token[c] = IssuedAs[t] /\ presented[c] <= t + LifetimeSeconds * TicksPerSecond

(* When main has returned, no session, no entry of the map and no operation is
   left, although the destructors of the last sessions still broadcast. *)
NothingLeft ==
  status = "exited" =>
    /\ \A c \in Connections :
         /\ life[c] # "alive"
         /\ reads[c] = 0 /\ writes[c] = <<>> /\ setup[c] = {}
    /\ \A id \in Ids : sessions_[id] = nullptr

(* Seen from the HTTP side, a WebSocket is a socket in use that is closed at
   some time. *)
ImplementsServer == Init /\ [][Next]_vars

(* Seen from the chat core, sessions appear by upgrades and everything else of
   the HTTP side is silent. *)
ImplementsCore == Core!Init /\ [][Core!Next]_Core!vars

=============================================================================
