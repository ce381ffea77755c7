----------------------------- MODULE HttpSession -----------------------------
(***************************************************************************)
(* http_session: one per accepted connection.  It reads a request, answers *)
(* it and reads the next one, until the peer goes away, an answer says     *)
(* that the connection closes, or a request asks for a WebSocket.          *)
(*                                                                         *)
(* A session is owned by its single outstanding operation: a handler that  *)
(* starts no further one destroys the session, which closes the socket     *)
(* unless the session gave it away.                                        *)
(***************************************************************************)
EXTENDS Naturals, Sequences

CONSTANTS Connections,
          Requests,      \* the requests clients send
          Tokens,        \* what may stand behind "?token=" in a target
          MaxRequests    \* bound: requests sent on one connection

(* What the path of a target leads to.  A directory is opened like a file. *)
Targets == {"/api/ws", "file", "directory", "missing", "unreadable", "illegal"}

RequestType ==
  [method : {"GET", "HEAD", "POST", "malformed"}, target : Targets, token : Tokens,
   keep_alive : BOOLEAN, upgrade : BOOLEAN]

ASSUME RequestAssumption ==
  /\ Requests \subseteq RequestType
  /\ MaxRequests \in Nat

VARIABLES
  owner,      \* who has the socket: "none", "backlog", "http", "websocket", "closed"
  op,         \* the outstanding operation: "none", "read", "write"
  req_,       \* http_session::req_
  taken,      \* number of requests read off the connection
  response,   \* the response being written
  sent,       \* the requests the client sent, in order
  received,   \* the responses written to it, in order
  client      \* "open", "eof" (it sends no more) or "gone"

httpVars == <<owner, op, req_, taken, response, sent, received, client>>

(* A default-constructed request. *)
NoRequest ==
  [method |-> "unknown", target |-> "", token |-> "", keep_alive |-> TRUE, upgrade |-> FALSE]
NoResponse == [status |-> 0]

HttpInit ==
  /\ owner = [c \in Connections |-> "none"]
  /\ op = [c \in Connections |-> "none"]
  /\ req_ = [c \in Connections |-> NoRequest]
  /\ taken = [c \in Connections |-> 0]
  /\ response = [c \in Connections |-> NoResponse]
  /\ sent = [c \in Connections |-> <<>>]
  /\ received = [c \in Connections |-> <<>>]
  /\ client = [c \in Connections |-> "open"]

-----------------------------------------------------------------------------
(* handle_request: the response to a request.  Every response has a length,
   so it ends the connection exactly if the request did not ask to keep it. *)

Response(status, body, r) == [status |-> status, body |-> body, close |-> ~r.keep_alive, to |-> r]

handle_request(r) ==
  IF r.target = "/api/ws" /\ r.method = "GET" THEN Response(200, TRUE, r)
  ELSE IF r.method \notin {"GET", "HEAD"} THEN Response(400, TRUE, r)
  ELSE IF r.target = "illegal" THEN Response(400, TRUE, r)
  ELSE IF r.target \in {"missing", "/api/ws"} THEN Response(404, TRUE, r)
  ELSE IF r.target = "unreadable" THEN Response(500, TRUE, r)
  ELSE Response(200, r.method = "GET", r)

run(c) ==
  /\ owner' = [owner EXCEPT ![c] = "http"]
  /\ op' = [op EXCEPT ![c] = "read"]
  /\ UNCHANGED <<req_, taken, response, sent, received, client>>

(* The handler returns without a further operation.  Faulty variant: something
   else still owns the session. *)
Finish_Leak(c, heir) ==
  /\ op' = [op EXCEPT ![c] = "none"]
  /\ UNCHANGED owner

Finish(c, heir) ==
  /\ owner' = [owner EXCEPT ![c] = heir]
  /\ op' = [op EXCEPT ![c] = "none"]

(* async_read fills req_, which must be empty: fields that are left over from
   the last request may survive in the new one. *)
Parsed(old, new) == IF old = NoRequest THEN {new} ELSE {old, new}

(* A complete request has arrived: r is what it looks like in req_.  It may be
   one that buffer_ already held when the client left. *)
Arrived(c, r) ==
  /\ op[c] = "read"
  /\ taken[c] < Len(sent[c])
  /\ sent[c][taken[c] + 1].method # "malformed"
  /\ r \in Parsed(req_[c], sent[c][taken[c] + 1])
  /\ taken' = [taken EXCEPT ![c] = @ + 1]
  /\ req_' = [req_ EXCEPT ![c] = r]

OnReadRequest(c) ==
  /\ \E r \in Requests :
       /\ Arrived(c, r)
       /\ ~r.upgrade
       /\ response' = [response EXCEPT ![c] = handle_request(r)]
  /\ op' = [op EXCEPT ![c] = "write"]
  /\ UNCHANGED <<owner, sent, received, client>>

(* The socket moves on to a websocket_session; what buffer_ still holds of
   later requests is lost with this session. *)
OnReadUpgrade(c) ==
  /\ \E r \in Requests : Arrived(c, r) /\ r.upgrade
  /\ Finish(c, "websocket")
  /\ UNCHANGED <<response, sent, received, client>>

(* end_of_stream: the client sends no more, and nothing of what it sent is left
   in buffer_.  Faulty variant: the requests left there are dropped. *)
OnReadEof_Early(c) ==
  /\ op[c] = "read"
  /\ client[c] = "eof"
  /\ Finish(c, "closed")
  /\ UNCHANGED <<req_, taken, response, sent, received, client>>

OnReadEof(c) ==
  /\ op[c] = "read"
  /\ client[c] = "eof"
  /\ taken[c] = Len(sent[c])
  /\ Finish(c, "closed")
  /\ UNCHANGED <<req_, taken, response, sent, received, client>>

(* The connection was reset, or what arrived is no request. *)
OnReadError(c) ==
  /\ op[c] = "read"
  /\ \/ client[c] = "gone"
     \/ taken[c] < Len(sent[c]) /\ sent[c][taken[c] + 1].method = "malformed"
  /\ Finish(c, "closed")
  /\ UNCHANGED <<req_, taken, response, sent, received, client>>

(* A directory can be opened like a file, but reading it fails, so nothing of
   the response is written. *)
Unsendable(res) == res.status = 200 /\ res.body /\ res.to.target = "directory"

(* Faulty variant: the message is destroyed while it is being written. *)
Written_Dangling(c) ==
  /\ op[c] = "write"
  /\ client[c] # "gone" /\ ~Unsendable(response[c])
  /\ received' = [received EXCEPT ![c] = Append(@, NoResponse)]
  /\ response' = [response EXCEPT ![c] = NoResponse]

Written(c) ==
  /\ op[c] = "write"
  /\ client[c] # "gone" /\ ~Unsendable(response[c])
  /\ received' = [received EXCEPT ![c] = Append(@, response[c])]
  /\ response' = [response EXCEPT ![c] = NoResponse]

(* Faulty variants: the next request is read into the old one; the connection
   is kept although the response said otherwise. *)
OnWrite_KeepRequest(c) ==
  /\ Written(c)
  /\ \/ response[c].close /\ Finish(c, "closed") /\ UNCHANGED req_
     \/ ~response[c].close /\ op' = [op EXCEPT ![c] = "read"] /\ UNCHANGED <<owner, req_>>
  /\ UNCHANGED <<taken, sent, client>>

OnWrite_KeepOpen(c) ==
  /\ Written(c)
  /\ req_' = [req_ EXCEPT ![c] = NoRequest]
  /\ op' = [op EXCEPT ![c] = "read"]
  /\ UNCHANGED <<owner, taken, sent, client>>

OnWrite(c) ==
  /\ Written(c)
  /\ \/ /\ response[c].close
        /\ Finish(c, "closed")
        /\ UNCHANGED req_
     \/ /\ ~response[c].close
        /\ req_' = [req_ EXCEPT ![c] = NoRequest]
        /\ op' = [op EXCEPT ![c] = "read"]
        /\ UNCHANGED owner
  /\ UNCHANGED <<taken, sent, client>>

OnWriteError(c) ==
  /\ op[c] = "write"
  /\ client[c] = "gone" \/ Unsendable(response[c])
  /\ Finish(c, "closed")
  /\ response' = [response EXCEPT ![c] = NoResponse]
  /\ UNCHANGED <<req_, taken, sent, received, client>>

HttpHandler(c) ==
  \/ OnReadRequest(c)
  \/ OnReadUpgrade(c)
  \/ OnReadEof(c)
  \/ OnReadError(c)
  \/ OnWrite(c)
  \/ OnWriteError(c)

-----------------------------------------------------------------------------
(* The client may send the next request before the last one is answered. *)

SendRequest(c) ==
  /\ owner[c] \in {"backlog", "http"}
  /\ client[c] = "open"
  /\ Len(sent[c]) < MaxRequests
  /\ \E r \in Requests : sent' = [sent EXCEPT ![c] = Append(@, r)]
  /\ UNCHANGED <<owner, op, req_, taken, response, received, client>>

(* It shuts down its sending side, or resets the connection. *)
Leave(c) ==
  /\ owner[c] \in {"backlog", "http", "websocket"}
  /\ \/ client[c] = "open" /\ client' = [client EXCEPT ![c] = "eof"]
     \/ client[c] # "gone" /\ client' = [client EXCEPT ![c] = "gone"]
  /\ UNCHANGED <<owner, op, req_, taken, response, sent, received>>

HttpClient(c) == SendRequest(c) \/ Leave(c)

(* A listener hands an accepted socket to a new session, at once or from its
   backlog. *)
Accepted(c) ==
  /\ owner[c] \in {"none", "backlog"}
  /\ run(c)

HttpNext == \E c \in Connections : Accepted(c) \/ HttpHandler(c) \/ HttpClient(c)

(* The kernel reports what has arrived, and clients read what they asked for
   until they leave. *)
HttpSpec ==
  HttpInit /\ [][HttpNext]_httpVars /\ \A c \in Connections : WF_httpVars(HttpHandler(c))

-----------------------------------------------------------------------------
(* Properties. *)

Responses == {handle_request(r) : r \in Requests}

HttpTypeOK ==
  /\ owner \in [Connections -> {"none", "backlog", "http", "websocket", "closed"}]
  /\ op \in [Connections -> {"none", "read", "write"}]
  /\ req_ \in [Connections -> Requests \cup {NoRequest}]
  /\ taken \in [Connections -> 0..MaxRequests]
  /\ response \in [Connections -> Responses \cup {NoResponse}]
  /\ sent \in [Connections -> Seq(Requests)]
  /\ received \in [Connections -> Seq(Responses)]
  /\ client \in [Connections -> {"open", "eof", "gone"}]

(* A session has exactly one operation, it reads into an empty request, as the
   comment in on_write demands ("otherwise the read behavior is undefined"),
   and it has read no more than was sent. *)
OneAtATime ==
  \A c \in Connections :
    /\ op[c] # "none" <=> owner[c] = "http"
    /\ op[c] = "read" \/ owner[c] \in {"none", "backlog"} => req_[c] = NoRequest
    /\ op[c] = "write" => response[c] \in Responses
    /\ owner[c] \in {"none", "backlog"} => taken[c] = 0 /\ received[c] = <<>>
    /\ taken[c] <= Len(sent[c]) /\ Len(sent[c]) <= MaxRequests

(* The responses given so far, the one being written included. *)
Answers(c) == IF op[c] = "write" THEN Append(received[c], response[c]) ELSE received[c]

(* Requests are answered one by one and in order, also when they are
   pipelined: the k-th response answers the k-th request and no other, and
   while a session waits for a request it has answered all it has read. *)
AnswersInOrder ==
  \A c \in Connections :
    /\ Len(Answers(c)) <= taken[c]
    /\ \A k \in 1..Len(Answers(c)) : Answers(c)[k] = handle_request(sent[c][k])
    /\ op[c] # "none" => Len(Answers(c)) = taken[c]

(* Nothing is answered after a response that announced the end of the
   connection, and the connection does end with it. *)
QuietAfterClose ==
  \A c \in Connections :
    /\ \A k \in 1..(Len(Answers(c)) - 1) : ~Answers(c)[k].close
    /\ \A k \in 1..Len(received[c]) : received[c][k].close => owner[c] = "closed"

(* The inductive invariant behind the three. *)
HttpInv == HttpTypeOK /\ OneAtATime /\ AnswersInOrder /\ QuietAfterClose

(* Seen from outside, a connection is an exchange of requests and answers: each
   request is answered once and in order, also behind a half-close, and a
   connection ends only by a closing answer, by its client, or by a request
   that is no request, asks for a WebSocket or names a directory. *)
Phase(who) ==
  IF who \in {"none", "backlog"} THEN "waiting" ELSE IF who = "http" THEN "open" ELSE "ended"

Unanswered(r) == r.upgrade \/ r.method = "malformed" \/ Unsendable(handle_request(r))

Abstract == INSTANCE Exchange WITH
  AnswerTo <- [r \in Requests |-> handle_request(r)],
  ClosingAnswer <- {res \in Responses : res.close},
  LastRequest <- {r \in Requests : Unanswered(r)},
  phase <- [c \in Connections |-> Phase(owner[c])],
  asked <- sent, answered <- received, leaving <- client

ImplementsExchange == Abstract!Init /\ [][Abstract!Next]_Abstract!vars

(* A client that stays gets an answer to each of its requests, or sees the
   connection end or turn into a WebSocket. *)
EventuallyAnswered ==
  \A c \in Connections : \A k \in 1..MaxRequests :
    Len(sent[c]) >= k ~> Len(received[c]) >= k \/ owner[c] # "http"

(* What the comment above handle_request says: it "produces an HTTP response
   for the given request".  The response to HEAD has no body: a client does
   not look for one and would take it for the beginning of the next response. *)
HeadHasNoBody ==
  \A c \in Connections : \A k \in 1..Len(received[c]) :
    sent[c][k].method = "HEAD" => ~received[c][k].body

=============================================================================
