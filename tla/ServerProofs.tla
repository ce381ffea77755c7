---------------------------- MODULE ServerProofs ----------------------------
(***************************************************************************)
(* The server around its HTTP sessions, for any number of clients and of   *)
(* descriptors: it leaves only on a signal, its connections answer as in   *)
(* HttpSessionProofs, and its sockets are accounted for.                   *)
(***************************************************************************)
EXTENDS Server, HttpSessionProofs, FiniteSetTheorems, TLAPS

(* On the way out, and already before it, a signal has been seen. *)
StopsOnlyOnSignal == status \in {"stopping", "leaving", "exited"} => signalled

MainTypeOK ==
  /\ status \in {"starting", "running", "stopping", "leaving", "exited", "aborted"}
  /\ acceptor \in {"closed", "open", "bound", "listening"}
  /\ accepting \in BOOLEAN
  /\ signalled \in BOOLEAN

(* Only a listener with an accept under way has a backlog, and behind the exit
   neither it nor a session is left. *)
ListenerOwns ==
  /\ acceptor = "listening" => accepting
  /\ \A c \in Connections : owner[c] = "backlog" => accepting
  /\ status = "exited" => ~accepting /\ InUse = {}

Descriptors == IsFiniteSet(InUse) /\ Cardinality(InUse) <= MaxSockets

ServerInv == HttpInv /\ MainTypeOK /\ StopsOnlyOnSignal /\ ListenerOwns /\ Descriptors

-----------------------------------------------------------------------------
(* The steps that the HTTP sessions do not know of. *)

(* The socket of a session that holds one is closed. *)
LEMMA FinishStep ==
  ASSUME HttpInv, NEW c \in Connections, owner[c] \in {"http", "websocket"},
         Finish(c, "closed"), UNCHANGED <<req_, taken, response, sent, received, client>>
  PROVE  HttpInv'
<1>1. HttpTypeOK'
  BY DEF HttpInv, HttpTypeOK, Finish
<1>2. OneAtATime'
  BY DEF HttpInv, HttpTypeOK, OneAtATime, Finish
<1>3. ASSUME NEW d \in Connections PROVE Good(d)'
  <2>1. Good(d)
    BY GoodEverywhere DEF HttpInv
  <2>2. received[d] \in Seq(Responses) /\ taken[d] \in Nat
    BY RequestAssumption DEF HttpInv, HttpTypeOK, RequestAssumption
  <2>3. CASE d # c \/ op[c] # "write"
    <3>1. Answers(d)' = Answers(d)
      BY <2>3 DEF Answers, Finish, HttpInv, HttpTypeOK
    <3>2. /\ owner'[d] \in {owner[d], "closed"}
          /\ op'[d] # "none" => op[d] # "none"
      BY DEF Finish, HttpInv, HttpTypeOK
    <3> QED
      BY <2>1, <3>1, <3>2 DEF Good, InOrder, Quiet
  <2>4. CASE d = c /\ op[c] = "write"
    <3>1. /\ Answers(c) = Append(received[c], response[c]) /\ Answers(c)' = received[c]
          /\ response[c] \in Responses /\ op'[c] = "none" /\ owner'[c] = "closed"
      BY <2>4 DEF Answers, Finish, HttpInv, HttpTypeOK, OneAtATime
    <3>2. /\ Len(Answers(c)) = Len(received[c]) + 1
          /\ \A k \in 1..Len(received[c]) : Answers(c)[k] = received[c][k]
          /\ Len(received[c]) \in Nat
      BY <2>2, <2>4, <3>1, Appended
    <3>3. InOrder(Answers(c), sent[c], taken[c], TRUE) /\ Quiet(Answers(c), received[c], owner[c])
      BY <2>1, <2>4 DEF Good
    <3>4. InOrder(received[c], sent[c], taken[c], FALSE)
      BY <2>2, <2>4, <3>2, <3>3 DEF InOrder
    <3>5. Quiet(received[c], received[c], "closed")
      BY <3>2, <3>3 DEF Quiet
    <3> QED
      BY <2>4, <3>1, <3>4, <3>5 DEF Good
  <2> QED
    BY <2>3, <2>4
<1>4. (AnswersInOrder /\ QuietAfterClose)'
  BY <1>3 DEF AnswersInOrder, QuietAfterClose, Good, InOrder, Quiet
<1> QED
  BY <1>1, <1>2, <1>4 DEF HttpInv

(* A connection without a session enters the backlog or leaves it. *)
LEMMA BacklogStep ==
  ASSUME HttpInv, owner' \in [Connections -> {"none", "backlog", "http", "websocket", "closed"}],
         \A c \in Connections : owner'[c] = owner[c] \/ (owner[c] = "none" /\ owner'[c] = "backlog")
                                  \/ (owner[c] = "backlog" /\ owner'[c] = "closed"),
         UNCHANGED <<op, req_, taken, response, sent, received, client>>
  PROVE  HttpInv'
<1>1. HttpTypeOK' /\ OneAtATime'
  BY DEF HttpInv, HttpTypeOK, OneAtATime
<1>2. \A c \in Connections : Answers(c)' = Answers(c)
  BY DEF Answers
<1>3. AnswersInOrder' /\ QuietAfterClose'
  BY <1>2 DEF HttpInv, AnswersInOrder, QuietAfterClose
<1> QED
  BY <1>1, <1>3 DEF HttpInv

LEMMA HttpInvNext ==
  ASSUME HttpInv, [Next]_vars
  PROVE  HttpInv'
<1>1. CASE Start \/ Signal \/ OnSignal \/ RunReturns \/ Exit \/ UNCHANGED vars
  BY <1>1, HttpInvStutter DEF Start, Signal, OnSignal, RunReturns, Exit, vars
<1>2. CASE OnAcceptError \/ DestroyListener
  <2>1. ListenerGone
    BY <1>2 DEF OnAcceptError, DestroyListener
  <2> QED
    BY <2>1, BacklogStep DEF ListenerGone, HttpInv, HttpTypeOK
<1>3. ASSUME NEW c \in Connections, DestroySession(c) \/ WebsocketEnds(c) PROVE HttpInv'
  BY <1>3, FinishStep DEF DestroySession, WebsocketEnds, InUse
<1>4. ASSUME NEW c \in Connections, OnAccept(c) \/ Session(c) \/ Client(c) PROVE HttpInv'
  <2>1. Step(c)
    BY <1>4 DEF OnAccept, Session, Client, Step, Accepted
  <2> QED
    BY <2>1, HttpInvStep
<1>5. ASSUME NEW c \in Connections, Connect(c) PROVE HttpInv'
  BY <1>5, BacklogStep DEF Connect, HttpInv, HttpTypeOK
<1> QED
  BY <1>1, <1>2, <1>3, <1>4, <1>5 DEF Next, DestroyHandler

-----------------------------------------------------------------------------
(* main and the listener. *)

LEMMA MainInvStep ==
  ASSUME MainTypeOK, StopsOnlyOnSignal, [Next]_vars
  PROVE  MainTypeOK' /\ StopsOnlyOnSignal'
<1> USE DEF MainTypeOK, StopsOnlyOnSignal
<1>1. CASE Start
  BY <1>1 DEF Start
<1>2. CASE OnAcceptError \/ Signal
  BY <1>2 DEF OnAcceptError, Signal, ListenerGone
<1>3. CASE OnSignal
  BY <1>3 DEF OnSignal
<1>4. CASE RunReturns
  BY <1>4 DEF RunReturns, Working
<1>5. CASE DestroyListener
  BY <1>5 DEF DestroyListener, ListenerGone
<1>6. CASE Exit
  BY <1>6 DEF Exit
<1>7. ASSUME NEW c \in Connections,
             \/ OnAccept(c) \/ Connect(c) \/ Session(c) \/ WebsocketEnds(c) \/ Client(c)
             \/ DestroySession(c)
      PROVE  MainTypeOK' /\ StopsOnlyOnSignal'
  <2>1. UNCHANGED mainVars
    BY <1>7 DEF OnAccept, Connect, Session, WebsocketEnds, Client, DestroySession
  <2> QED
    BY <2>1 DEF mainVars
<1>8. CASE UNCHANGED vars
  BY <1>8 DEF vars, mainVars
<1> QED
  BY <1>1, <1>2, <1>3, <1>4, <1>5, <1>6, <1>7, <1>8 DEF Next, DestroyHandler

(* What a handler of an HTTP session, or its client, does to the owners. *)
LEMMA SessionOwners ==
  ASSUME HttpTypeOK, OneAtATime, NEW c \in Connections, HttpHandler(c) \/ HttpClient(c)
  PROVE  \/ owner' = owner
         \/ /\ owner[c] = "http"
            /\ \E heir \in {"closed", "websocket"} : owner' = [owner EXCEPT ![c] = heir]
BY DEF HttpHandler, HttpClient, OnReadRequest, OnReadUpgrade, OnReadEof, OnReadError, OnWrite,
       OnWriteError, SendRequest, Leave, Arrived, Written, Finish, OneAtATime

LEMMA ListenerStep ==
  ASSUME HttpInv, MainTypeOK, ListenerOwns, [Next]_vars
  PROVE  ListenerOwns'
<1> USE DEF MainTypeOK, ListenerOwns
<1>1. CASE Start
  BY <1>1 DEF Start, httpVars, InUse
<1>2. CASE Signal \/ OnSignal \/ RunReturns \/ Exit \/ UNCHANGED vars
  BY <1>2 DEF Signal, OnSignal, RunReturns, Exit, vars, httpVars, mainVars, InUse
<1>3. CASE OnAcceptError \/ DestroyListener
  BY <1>3 DEF OnAcceptError, DestroyListener, ListenerGone, InUse
<1>4. ASSUME NEW c \in Connections,
             OnAccept(c) \/ WebsocketEnds(c) \/ DestroySession(c) \/ Connect(c)
      PROVE  ListenerOwns'
  <2>1. (UNCHANGED mainVars /\ status # "exited") \/ Connect(c)
    BY <1>4 DEF OnAccept, WebsocketEnds, DestroySession
  <2>2. \A d \in Connections : owner'[d] = "backlog" => owner[d] = "backlog" \/ acceptor = "listening"
    BY <1>4 DEF OnAccept, run, WebsocketEnds, DestroySession, Connect, Finish, HttpInv, HttpTypeOK
  <2>3. CASE Connect(c)
    BY <2>2, <2>3 DEF Connect, mainVars
  <2> QED
    BY <2>1, <2>2, <2>3 DEF mainVars
<1>5. ASSUME NEW c \in Connections, Session(c) \/ Client(c)
      PROVE  ListenerOwns'
  <2>1. UNCHANGED mainVars
    BY <1>5 DEF Session, Client
  <2>2. \/ owner' = owner
        \/ owner[c] = "http" /\ \E heir \in {"closed", "websocket"} : owner' = [owner EXCEPT ![c] = heir]
    BY <1>5, SessionOwners DEF Session, Client, HttpInv
  <2>3. status = "exited" => owner[c] # "http"
    BY DEF InUse
  <2> QED
    BY <2>1, <2>2, <2>3 DEF mainVars, InUse, HttpInv, HttpTypeOK
<1> QED
  BY <1>1, <1>2, <1>3, <1>4, <1>5 DEF Next, DestroyHandler

(* Only an accept adds a socket to those in use, and only one that has a
   descriptor left. *)
LEMMA DescriptorStep ==
  ASSUME HttpInv, Descriptors, [Next]_vars
  PROVE  Descriptors'
<1>1. CASE InUse' \subseteq InUse
  <2>1. IsFiniteSet(InUse') /\ Cardinality(InUse') <= Cardinality(InUse)
    BY <1>1, FS_Subset DEF Descriptors
  <2>2. Cardinality(InUse) \in Nat /\ Cardinality(InUse') \in Nat
    BY <2>1, FS_CardinalityType DEF Descriptors
  <2> QED
    BY <2>1, <2>2, ServerAssumption DEF Descriptors, ServerAssumption
<1>2. ASSUME NEW c \in Connections, OnAccept(c)
      PROVE  Descriptors'
  <2>1. InUse' = InUse \cup {c} /\ Cardinality(InUse) < MaxSockets
    BY <1>2 DEF OnAccept, run, InUse, HttpInv, HttpTypeOK
  <2>2. /\ IsFiniteSet(InUse')
        /\ Cardinality(InUse') = IF c \in InUse THEN Cardinality(InUse) ELSE Cardinality(InUse) + 1
    BY <2>1, FS_AddElement DEF Descriptors
  <2>3. Cardinality(InUse) \in Nat
    BY FS_CardinalityType DEF Descriptors
  <2> QED
    BY <2>1, <2>2, <2>3, ServerAssumption DEF Descriptors, ServerAssumption
<1>3. CASE Start \/ Signal \/ OnSignal \/ RunReturns \/ Exit \/ UNCHANGED vars
  BY <1>1, <1>3 DEF Start, Signal, OnSignal, RunReturns, Exit, vars, httpVars, InUse
<1>4. CASE OnAcceptError \/ DestroyListener
  BY <1>1, <1>4 DEF OnAcceptError, DestroyListener, ListenerGone, InUse
<1>5. ASSUME NEW c \in Connections,
             WebsocketEnds(c) \/ DestroySession(c) \/ Connect(c) \/ Session(c) \/ Client(c)
      PROVE  Descriptors'
  <2>1. CASE WebsocketEnds(c) \/ DestroySession(c)
    BY <1>1, <2>1 DEF WebsocketEnds, DestroySession, Finish, InUse, HttpInv, HttpTypeOK
  <2>2. CASE Connect(c)
    BY <1>1, <2>2 DEF Connect, InUse, HttpInv, HttpTypeOK
  <2>3. CASE Session(c) \/ Client(c)
    <3>1. \/ owner' = owner
          \/ owner[c] = "http" /\ \E heir \in {"closed", "websocket"} : owner' = [owner EXCEPT ![c] = heir]
      BY <2>3, SessionOwners DEF Session, Client, HttpInv
    <3> QED
      BY <1>1, <3>1 DEF InUse, HttpInv, HttpTypeOK
  <2> QED
    BY <1>5, <2>1, <2>2, <2>3
<1> QED
  BY <1>2, <1>3, <1>4, <1>5 DEF Next, DestroyHandler

-----------------------------------------------------------------------------

LEMMA ServerInvInit == Init => ServerInv
<1> SUFFICES ASSUME Init PROVE ServerInv
  OBVIOUS
<1>1. HttpInv
  BY HttpInvInit DEF Init
<1>2. InUse = {}
  BY DEF Init, HttpInit, InUse
<1>3. Descriptors
  BY <1>2, FS_EmptySet, ServerAssumption DEF Descriptors, ServerAssumption
<1>4. MainTypeOK /\ StopsOnlyOnSignal /\ ListenerOwns
  BY <1>2 DEF Init, HttpInit, MainTypeOK, StopsOnlyOnSignal, ListenerOwns
<1> QED
  BY <1>1, <1>3, <1>4 DEF ServerInv

LEMMA ServerInvNext == ServerInv /\ [Next]_vars => ServerInv'
BY HttpInvNext, MainInvStep, ListenerStep, DescriptorStep DEF ServerInv

(* The inductive invariant holds throughout. *)
THEOREM ServerInvariance == Spec => []ServerInv
BY ServerInvInit, ServerInvNext, PTL DEF Spec

(* Every variable of the server keeps its type. *)
THEOREM ServerTypeCorrect == Spec => []TypeOK
<1>1. ServerInv => TypeOK
  BY DEF ServerInv, HttpInv, MainTypeOK, TypeOK
<1> QED
  BY <1>1, ServerInvariance, PTL

(* The server does not leave for want of work: ioc.run() returns only after a
   signal, as the comment behind it says. *)
THEOREM LeavesOnSignal == Spec => []LeavesOnlyOnSignal
<1>1. ServerInv => LeavesOnlyOnSignal
  BY DEF ServerInv, StopsOnlyOnSignal, LeavesOnlyOnSignal
<1> QED
  BY <1>1, ServerInvariance, PTL

LEMMA InvAccounts == ServerInv => SocketsAccounted
<1> SUFFICES ASSUME ServerInv PROVE SocketsAccounted
  OBVIOUS
<1>1. \A c \in Connections : owner[c] = "http" <=> op[c] # "none"
  BY DEF ServerInv, HttpInv, OneAtATime
<1>2. status = "exited" => \A c \in Connections : owner[c] \in {"none", "closed"}
  BY DEF ServerInv, HttpInv, HttpTypeOK, ListenerOwns, InUse
<1>3. Cardinality(InUse) <= MaxSockets
  BY DEF ServerInv, Descriptors
<1> QED
  BY <1>1, <1>2, <1>3 DEF SocketsAccounted

(* There are never more sockets in use than descriptors, each HTTP session has
   an operation that will end it, and behind the exit no socket is open, not
   even one in the backlog. *)
THEOREM SocketsCounted == Spec => []SocketsAccounted
BY InvAccounts, ServerInvariance, PTL

-----------------------------------------------------------------------------
(* What the clients of a running server can rely on. *)

(* With the listener gone, whoever waits in its backlog is turned away, and
   nobody else notices. *)
TurnedAway ==
  /\ ~accepting'
  /\ \A c \in Connections :
       Phase(owner'[c]) = IF owner[c] = "backlog" THEN "ended" ELSE Phase(owner[c])
  /\ UNCHANGED <<sent, received, client>>

(* Until main is left, a connection goes as Exchange says: it ends only by a
   closing answer, by its client, by a request without an answer, or in the
   backlog of a listener that is gone. *)
EndsForCause ==
  Abstract!Init /\ [][status # "leaving" => Abstract!Next \/ TurnedAway]_Abstract!vars

(* Steps that leave the operations alone, or end one, keep what is answered. *)
LEMMA AnswerableKept ==
  ASSUME HttpTypeOK, Answerable, UNCHANGED <<taken, sent>>,
         \A c \in Connections : op'[c] = "write" => op[c] = "write"
  PROVE  Answerable'
BY DEF Answerable

LEMMA CauseStep ==
  ASSUME HttpInv, Answerable, [Next]_vars
  PROVE  /\ Answerable'
         /\ status = "leaving" \/ Abstract!Next \/ TurnedAway \/ UNCHANGED Abstract!vars
<1>1. CASE Start \/ Signal \/ OnSignal \/ RunReturns \/ Exit \/ UNCHANGED vars
  <2>1. UNCHANGED httpVars
    BY <1>1 DEF Start, Signal, OnSignal, RunReturns, Exit, vars
  <2> QED
    BY <2>1 DEF httpVars, Answerable, Abstract!vars
<1>2. CASE OnAcceptError \/ DestroyListener
  <2>1. ListenerGone
    BY <1>2 DEF OnAcceptError, DestroyListener
  <2>2. Answerable'
    BY <2>1, AnswerableKept DEF ListenerGone, HttpInv
  <2>3. TurnedAway
    BY <2>1 DEF ListenerGone, TurnedAway, Phase
  <2> QED
    BY <2>2, <2>3
<1>3. ASSUME NEW c \in Connections, DestroySession(c)
      PROVE  Answerable' /\ status = "leaving"
  BY <1>3, AnswerableKept DEF DestroySession, Finish, HttpInv, HttpTypeOK
<1>4. ASSUME NEW c \in Connections, WebsocketEnds(c) \/ Connect(c)
      PROVE  Answerable' /\ UNCHANGED Abstract!vars
  <2>1. Answerable'
    BY <1>4, AnswerableKept DEF WebsocketEnds, Connect, Finish, HttpInv, HttpTypeOK
  <2>2. \A d \in Connections : Phase(owner'[d]) = Phase(owner[d])
    BY <1>4 DEF WebsocketEnds, Connect, Finish, HttpInv, HttpTypeOK, Phase
  <2>3. UNCHANGED <<sent, received, client>>
    BY <1>4 DEF WebsocketEnds, Connect
  <2> QED
    BY <2>1, <2>2, <2>3 DEF Abstract!vars
<1>5. ASSUME NEW c \in Connections, OnAccept(c) \/ Session(c) \/ Client(c)
      PROVE  Answerable' /\ [Abstract!Next]_Abstract!vars
  <2>1. Step(c)
    BY <1>5 DEF OnAccept, Session, Client, Step, Accepted
  <2> QED
    BY <2>1, AnswerableStep, ExchangeStep
<1> QED
  BY <1>1, <1>2, <1>3, <1>4, <1>5 DEF Next, DestroyHandler

LEMMA CauseInit == Init => Answerable /\ Abstract!Init
BY DEF Init, HttpInit, Answerable, Abstract!Init, Phase

(* While the server runs no connection ends without a cause its client can
   tell, whatever else is accepted, fails or is shut down around it. *)
THEOREM NoEndWithoutCause == Spec => EndsForCause
<1>1. ServerInv /\ Answerable /\ [Next]_vars
        => Answerable' /\ [status # "leaving" => Abstract!Next \/ TurnedAway]_Abstract!vars
  BY CauseStep DEF ServerInv
<1> QED
  BY <1>1, CauseInit, ServerInvariance, PTL DEF Spec, EndsForCause

=============================================================================
