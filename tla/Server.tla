------------------------------- MODULE Server -------------------------------
(***************************************************************************)
(* main() and the listener around the HTTP sessions: start-up, accepting   *)
(* connections, and the shutdown on a signal.  What becomes of a socket    *)
(* that an http_session hands to a websocket_session is the subject of     *)
(* WebsocketSession; here such a socket is merely in use for a while.      *)
(***************************************************************************)
EXTENDS HttpSession, FiniteSets

CONSTANT MaxSockets   \* descriptors the process has for accepted sockets

ASSUME ServerAssumption == MaxSockets \in Nat

VARIABLES
  status,     \* of the process: "starting", "running", "stopping" (ioc.stop() was
              \* called), "leaving" (ioc.run() has returned), "exited" or "aborted"
  acceptor,   \* listener::acceptor_: "closed", "open", "bound", "listening"
  accepting,  \* an async_accept is outstanding, and owns the listener
  signalled   \* SIGINT or SIGTERM has arrived

mainVars == <<status, acceptor, accepting, signalled>>
vars == <<httpVars, mainVars>>

Init ==
  /\ HttpInit
  /\ status = "starting"
  /\ acceptor = "closed"
  /\ accepting = FALSE
  /\ signalled = FALSE

InUse == {c \in Connections : owner[c] \in {"http", "websocket"}}

-----------------------------------------------------------------------------

(* main up to ioc.run(): the listener opens, binds and listens as far as it
   gets, and is run in any case.  The process ends if an argument is wrong, or
   if setting the option of the acceptor fails: that call is not given the
   error code, so it throws, and nothing catches it. *)
Start ==
  /\ status = "starting"
  /\ \/ /\ status' = "aborted"
        /\ UNCHANGED <<acceptor, accepting>>
     \/ /\ status' = "running"
        /\ acceptor' \in {"closed", "open", "bound", "listening"}
        /\ accepting' = TRUE
  /\ UNCHANGED <<httpVars, signalled>>

(* listener::on_accept: a new session runs, and the next accept is started. *)
OnAccept(c) ==
  /\ status = "running"
  /\ accepting /\ acceptor = "listening"
  /\ owner[c] = "backlog"
  /\ Cardinality(InUse) < MaxSockets
  /\ run(c)
  /\ UNCHANGED mainVars

(* With the last operation of the listener the acceptor is gone, and with it
   the connections that wait to be accepted. *)
ListenerGone ==
  /\ accepting' = FALSE
  /\ acceptor' = "closed"
  /\ owner' = [c \in Connections |-> IF owner[c] = "backlog" THEN "closed" ELSE owner[c]]
  /\ UNCHANGED <<op, req_, taken, response, sent, received, client>>

(* The accept is certain to fail: the acceptor does not listen, or the process
   has no descriptor left for the connection at the head of the backlog. *)
CannotAccept ==
  \/ acceptor # "listening"
  \/ Cardinality(InUse) = MaxSockets /\ \E c \in Connections : owner[c] = "backlog"

(* Faulty variant: something else, main for one, keeps the listener and with it
   the open acceptor. *)
OnAcceptError_Kept ==
  /\ status = "running"
  /\ accepting
  /\ accepting' = FALSE
  /\ UNCHANGED <<httpVars, status, acceptor, signalled>>

(* on_accept with an error, whatever it is: no other accept is started. *)
OnAcceptError ==
  /\ status = "running"
  /\ accepting
  /\ ListenerGone
  /\ UNCHANGED <<status, signalled>>

Signal ==
  /\ status = "running"
  /\ ~signalled
  /\ signalled' = TRUE
  /\ UNCHANGED <<httpVars, status, acceptor, accepting>>

(* The handler of signals.async_wait. *)
OnSignal ==
  /\ status = "running"
  /\ signalled
  /\ status' = "stopping"
  /\ UNCHANGED <<httpVars, acceptor, accepting, signalled>>

(* The operations that keep ioc.run() going: the accept, those of the sessions
   and, until it is stopped, the wait for a signal.  Faulty variant: there is
   no such wait. *)
Working_NoSignals == accepting \/ InUse # {}
Working == accepting \/ InUse # {} \/ status = "running"

(* Faulty variant: what is under way when the signal comes is finished first. *)
RunReturns_Drain ==
  /\ status \in {"running", "stopping"}
  /\ ~Working
  /\ status' = "leaving"
  /\ UNCHANGED <<httpVars, acceptor, accepting, signalled>>

RunReturns ==
  /\ status \in {"running", "stopping"}
  /\ status = "running" => ~Working
  /\ status' = "leaving"
  /\ UNCHANGED <<httpVars, acceptor, accepting, signalled>>

(* Leaving main destroys the io_context and with it the handlers left, one
   after the other, and the objects they own. *)
DestroyListener ==
  /\ status = "leaving"
  /\ accepting
  /\ ListenerGone
  /\ UNCHANGED <<status, signalled>>

DestroySession(c) ==
  /\ status = "leaving"
  /\ c \in InUse
  /\ Finish(c, "closed")
  /\ UNCHANGED <<req_, taken, response, sent, received, client, mainVars>>

DestroyHandler == DestroyListener \/ \E c \in Connections : DestroySession(c)

Exit ==
  /\ status = "leaving"
  /\ ~accepting /\ InUse = {}
  /\ status' = "exited"
  /\ UNCHANGED <<httpVars, acceptor, accepting, signalled>>

-----------------------------------------------------------------------------

Connect(c) ==
  /\ owner[c] = "none"
  /\ acceptor = "listening"
  /\ owner' = [owner EXCEPT ![c] = "backlog"]
  /\ UNCHANGED <<op, req_, taken, response, sent, received, client, mainVars>>

(* A WebSocket session comes to its end. *)
WebsocketEnds(c) ==
  /\ status = "running"
  /\ owner[c] = "websocket"
  /\ Finish(c, "closed")
  /\ UNCHANGED <<req_, taken, response, sent, received, client, mainVars>>

Session(c) == status = "running" /\ HttpHandler(c) /\ UNCHANGED mainVars
Client(c) == HttpClient(c) /\ UNCHANGED mainVars

Next ==
  \/ Start \/ OnAcceptError \/ Signal \/ OnSignal \/ RunReturns \/ DestroyHandler \/ Exit
  \/ \E c \in Connections :
       OnAccept(c) \/ Connect(c) \/ Session(c) \/ WebsocketEnds(c) \/ Client(c)

(* The scheduler runs what is ready.  Nothing makes a signal or a client come,
   nothing makes a WebSocket end, and no accept fails that need not. *)
Fairness ==
  /\ \A c \in Connections : WF_vars(OnAccept(c) \/ (CannotAccept /\ OnAcceptError))
  /\ WF_vars(OnSignal)
  /\ WF_vars(RunReturns)
  /\ WF_vars(DestroyHandler)
  /\ WF_vars(Exit)

Spec == Init /\ [][Next]_vars /\ Fairness

-----------------------------------------------------------------------------
(* Properties. *)

TypeOK ==
  /\ HttpTypeOK
  /\ status \in {"starting", "running", "stopping", "leaving", "exited", "aborted"}
  /\ acceptor \in {"closed", "open", "bound", "listening"}
  /\ accepting \in BOOLEAN
  /\ signalled \in BOOLEAN

(* What the comment behind ioc.run() says: "If we get here, it means we got a
   SIGINT or SIGTERM".  The server never leaves for want of work, not even
   after its listener has failed and the last session has ended. *)
LeavesOnlyOnSignal == status \in {"leaving", "exited"} => signalled

(* The sockets are accounted for: an HTTP session has an operation that will
   end it, no other connection has one, and none is open after the exit. *)
SocketsAccounted ==
  /\ \A c \in Connections : owner[c] = "http" <=> op[c] # "none"
  /\ status = "exited" => \A c \in Connections : owner[c] \in {"none", "closed"}
  /\ Cardinality(InUse) <= MaxSockets

(* A client that has connected is accepted or turned away, and is not left in
   the backlog while the server runs: not even by an accept that fails. *)
NobodyWaits ==
  \A c \in Connections : owner[c] = "backlog" ~> owner[c] # "backlog"

(* A signal ends the server, whatever its clients do. *)
SignalEnds == signalled ~> status = "exited"

(* What listener.hpp says of the listener, that it "accepts incoming
   connections": while the server runs and its acceptor once listened, another
   accept is always started. *)
KeepsAccepting ==
  [][status = "running" /\ accepting /\ acceptor = "listening" => accepting']_vars

=============================================================================
