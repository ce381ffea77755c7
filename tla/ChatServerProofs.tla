-------------------------- MODULE ChatServerProofs --------------------------
(***************************************************************************)
(* The whole program implements both of its parts and the abstract room,   *)
(* so what is proved of any of them holds of it; and what no part can say  *)
(* of itself: a socket has one owner, nothing is left at the exit, and     *)
(* nobody joins without a token that the server gave away and that was     *)
(* within its lifetime when it was presented.                              *)
(***************************************************************************)
EXTENDS ChatServer, ServerProofs

CoreProofs == INSTANCE WebsocketRefinementProofs WITH
  Sessions <- Connections, TokenNames <- Tokens, Leavers <- {}, status <- stream,
  hungup <- [c \in Connections |-> FALSE],
  stopped <- status \in {"stopping", "leaving", "exited"}

-----------------------------------------------------------------------------
(* The parameters of the chat core are as it assumes, and both instances of it
   are the same. *)

LEMMA CoreParameters ==
  /\ CoreProofs!SharedStateAssumption
  /\ CoreProofs!ClockAssumption
  /\ CoreProofs!SessionAssumption
BY ChatServerAssumption
   DEF ChatServerAssumption, CoreProofs!SharedStateAssumption, CoreProofs!ClockAssumption,
       CoreProofs!SessionAssumption, Core!to_time_t, CoreProofs!to_time_t

LEMMA SameInit == Core!Init <=> CoreProofs!Init
BY DEF Core!Init, CoreProofs!Init, Core!NoToken, CoreProofs!NoToken, Core!Never, CoreProofs!Never

LEMMA SameAccepts ==
  \A tok, t : Core!Accepts(tok, t) <=> CoreProofs!Accepts(tok, t)
<1>1. /\ Core!Empty = CoreProofs!Empty
      /\ \A m, n, v : Core!Put(m, n, v) = CoreProofs!Put(m, n, v)
  BY DEF Core!Empty, CoreProofs!Empty, Core!Put, CoreProofs!Put
<1>2. \A t, v : Core!Claim(t, v) = CoreProofs!Claim(t, v)
  BY DEF Core!Claim, CoreProofs!Claim
<1>3. \A c : /\ Core!TypeError(c) = CoreProofs!TypeError(c)
             /\ Core!SetError(c) = CoreProofs!SetError(c)
             /\ Core!as_set(c) = CoreProofs!as_set(c)
  BY DEF Core!TypeError, CoreProofs!TypeError, Core!CastError, CoreProofs!CastError,
         Core!SetError, CoreProofs!SetError, Core!as_set, CoreProofs!as_set
<1>4. \A c : /\ Core!DateError(c) = CoreProofs!DateError(c)
             /\ Core!as_date(c) = CoreProofs!as_date(c)
  BY DEF Core!TypeError, CoreProofs!TypeError, Core!CastError, CoreProofs!CastError,
         Core!DateError, CoreProofs!DateError, Core!as_date, CoreProofs!as_date,
         Core!from_time_t, CoreProofs!from_time_t, Core!Round, CoreProofs!Round, Core!Wrap,
         CoreProofs!Wrap
<1>5. \A c, l, t : /\ Core!Expired(c, l, t) = CoreProofs!Expired(c, l, t)
                   /\ Core!NotYet(c, l, t) = CoreProofs!NotYet(c, l, t)
  BY <1>4 DEF Core!Expired, CoreProofs!Expired, Core!NotYet, CoreProofs!NotYet, Core!Slack,
         CoreProofs!Slack, Core!Wrap, CoreProofs!Wrap
<1>6. \A x : /\ Core!claim(x) = CoreProofs!claim(x)
             /\ Core!MissingError(x) = CoreProofs!MissingError(x)
  BY DEF Core!claim, CoreProofs!claim, Core!MissingError, CoreProofs!MissingError,
         Core!has_claim, CoreProofs!has_claim
<1>7. \A x, t : Core!MismatchError(x, t) = CoreProofs!MismatchError(x, t)
  BY <1>3, <1>6 DEF Core!MismatchError, CoreProofs!MismatchError
<1>8. \A x, y : Core!equals_claim(y, x) = CoreProofs!equals_claim(y, x)
  BY <1>6, <1>7 DEF Core!equals_claim, CoreProofs!equals_claim
<1>9. \A x, y : Core!is_subset_claim(y, x) = CoreProofs!is_subset_claim(y, x)
  BY <1>3, <1>6 DEF Core!is_subset_claim, CoreProofs!is_subset_claim
<1>10. \A x : /\ Core!ExpiresError(x) = CoreProofs!ExpiresError(x)
              /\ Core!IssuedError(x) = CoreProofs!IssuedError(x)
  BY <1>4, <1>5, <1>6 DEF Core!ExpiresError, CoreProofs!ExpiresError, Core!IssuedError, CoreProofs!IssuedError
<1>11. \A x, l : /\ Core!date_before_claim(l, x) = CoreProofs!date_before_claim(l, x)
                 /\ Core!date_after_claim(l, x) = CoreProofs!date_after_claim(l, x)
  BY <1>5, <1>6, <1>7 DEF Core!date_before_claim, CoreProofs!date_before_claim, Core!date_after_claim,
         CoreProofs!date_after_claim
<1>12. \A k, x : Core!CheckError(k, x) = CoreProofs!CheckError(k, x)
  BY <1>8, <1>9, <1>10, <1>11 DEF Core!CheckError, CoreProofs!CheckError
<1>13. \A v, j, t : Core!ClaimErrors(v, j, t) = CoreProofs!ClaimErrors(v, j, t)
  BY <1>12 DEF Core!ClaimErrors, CoreProofs!ClaimErrors, Core!verify_context,
         CoreProofs!verify_context
<1>14. Core!Verifier = CoreProofs!Verifier
  BY <1>1, <1>2 DEF Core!Verifier, CoreProofs!Verifier, Core!verifier, CoreProofs!verifier,
         Core!with_audience, CoreProofs!with_audience, Core!with_issuer, CoreProofs!with_issuer,
         Core!with_claim, CoreProofs!with_claim, Core!allow_algorithm,
         CoreProofs!allow_algorithm, Core!hs256, CoreProofs!hs256, Core!Secret,
         CoreProofs!Secret, Core!Issuer, CoreProofs!Issuer, Core!Audience, CoreProofs!Audience
<1>15. \A k : /\ Core!DecodeError(k) = CoreProofs!DecodeError(k)
              /\ Core!decoded_jwt(k) = CoreProofs!decoded_jwt(k)
  BY DEF Core!DecodeError, CoreProofs!DecodeError, Core!ParseError, CoreProofs!ParseError,
         Core!decoded_jwt, CoreProofs!decoded_jwt
<1>16. /\ \A j : Core!AlgorithmError(j) = CoreProofs!AlgorithmError(j)
       /\ \A a, d, h : Core!Matches(a, d, h) = CoreProofs!Matches(a, d, h)
  BY DEF Core!AlgorithmError, CoreProofs!AlgorithmError, Core!ClaimError, CoreProofs!ClaimError,
         Core!has_claim, CoreProofs!has_claim,
         Core!CastError, CoreProofs!CastError, Core!Matches, CoreProofs!Matches, Core!Hmac,
         CoreProofs!Hmac
<1>17. \A v, j, t : Core!Outcomes(v, j, t) = CoreProofs!Outcomes(v, j, t)
  BY <1>13, <1>16 DEF Core!Outcomes, CoreProofs!Outcomes
<1>18. \A k, t : Core!Verify(k, t) = CoreProofs!Verify(k, t)
  BY <1>14, <1>15, <1>17 DEF Core!Verify, CoreProofs!Verify, Core!VerifyWith, CoreProofs!VerifyWith
<1> QED
  BY <1>18 DEF Core!Accepts, CoreProofs!Accepts

LEMMA SameNext ==
  [Core!Next]_Core!vars <=> [CoreProofs!Next]_CoreProofs!vars
<1>1. \A s \in Connections : Core!Upgrade(s) <=> CoreProofs!Upgrade(s)
  BY SameAccepts
     DEF Core!Upgrade, CoreProofs!Upgrade, Core!run, CoreProofs!run, Core!close_with_401,
         CoreProofs!close_with_401
<1>2. \A s \in Connections : Core!Handler(s) <=> CoreProofs!Handler(s)
  BY DEF Core!Handler, CoreProofs!Handler, Core!OnAccept, CoreProofs!OnAccept,
         Core!OnAcceptError, CoreProofs!OnAcceptError, Core!OnRead, CoreProofs!OnRead,
         Core!OnReadError, CoreProofs!OnReadError, Core!OnWrite, CoreProofs!OnWrite,
         Core!OnWriteError, CoreProofs!OnWriteError, Core!OnClose, CoreProofs!OnClose,
         Core!OnWrite401, CoreProofs!OnWrite401, Core!generate_random_string,
         CoreProofs!generate_random_string, Core!Owned, CoreProofs!Owned, Core!Destructor,
         CoreProofs!Destructor, Core!Return, CoreProofs!Return, Core!sessionVars,
         CoreProofs!sessionVars, Core!Greeting, CoreProofs!Greeting, Core!Farewell,
         CoreProofs!Farewell, Core!Chat, CoreProofs!Chat, Core!Pushed, CoreProofs!Pushed,
         Core!Idle, CoreProofs!Idle, Core!Started, CoreProofs!Started, Core!SessionSend,
         CoreProofs!SessionSend, Core!get, CoreProofs!get, Core!Registered,
         CoreProofs!Registered, Core!broadcast, CoreProofs!broadcast, Core!SendTo,
         CoreProofs!SendTo, Core!connect, CoreProofs!connect, Core!disconnect,
         CoreProofs!disconnect
<1>3. \A s \in Connections : Core!DestroyHandler(s) <=> CoreProofs!DestroyHandler(s)
  BY DEF Core!DestroyHandler, CoreProofs!DestroyHandler, Core!Owned, CoreProofs!Owned,
         Core!Destructor, CoreProofs!Destructor, Core!Return, CoreProofs!Return, Core!Farewell,
         CoreProofs!Farewell, Core!Pushed, CoreProofs!Pushed, Core!Idle, CoreProofs!Idle,
         Core!Started, CoreProofs!Started, Core!SessionSend, CoreProofs!SessionSend,
         Core!Registered, CoreProofs!Registered, Core!broadcast, CoreProofs!broadcast,
         Core!disconnect, CoreProofs!disconnect
<1>4. /\ \A s \in Connections : Core!Hangup(s) <=> CoreProofs!Hangup(s)
      /\ Core!Stop \/ Core!Tick \/ Core!Exited <=> CoreProofs!Stop \/ CoreProofs!Tick \/ CoreProofs!Exited
      /\ UNCHANGED Core!vars <=> UNCHANGED CoreProofs!vars
  BY DEF Core!Hangup, CoreProofs!Hangup, Core!Stop, CoreProofs!Stop, Core!Tick, CoreProofs!Tick,
         Core!Exited, CoreProofs!Exited, Core!Owned, CoreProofs!Owned, Core!vars,
         CoreProofs!vars, Core!sessionVars, CoreProofs!sessionVars
<1>5. Core!Next <=> CoreProofs!Next
  BY <1>1, <1>2, <1>3, <1>4 DEF Core!Next, CoreProofs!Next
<1> QED
  BY <1>4, <1>5

-----------------------------------------------------------------------------
(* Every step of the whole is one of the chat core, or none. *)

LEMMA CoreStutters ==
  ASSUME UNCHANGED coreVars,
         (status' \in {"stopping", "leaving", "exited"}) = (status \in {"stopping", "leaving", "exited"})
  PROVE  UNCHANGED Core!vars
BY DEF coreVars, Core!vars, Core!sessionVars

LEMMA StepOfCore ==
  ASSUME MainTypeOK, [ChatNext]_chatVars
  PROVE  [Core!Next]_Core!vars
<1>1. CASE OnSignal /\ CoreIdle
  <2>1. Core!Stop
    BY <1>1 DEF OnSignal, CoreIdle, coreVars, Core!Stop, Core!sessionVars
  <2> QED
    BY <2>1 DEF Core!Next
<1>2. CASE MainAction /\ ~OnSignal
  <2>1. UNCHANGED coreVars
    BY <1>2 DEF MainAction, CoreIdle
  <2>2. CASE Start
    BY <2>1, <2>2, CoreStutters DEF Start
  <2>3. CASE OnAcceptError \/ Signal
    BY <2>1, <2>3, CoreStutters DEF OnAcceptError, Signal
  <2>4. CASE RunReturns
    BY <2>1, <2>4, CoreStutters DEF RunReturns, Working
  <2>5. CASE Exit
    BY <2>1, <2>5, CoreStutters DEF Exit
  <2> QED
    BY <1>2, <2>2, <2>3, <2>4, <2>5 DEF MainAction
<1>3. CASE DestroyOther
  BY <1>3, CoreStutters DEF DestroyOther, CoreIdle, DestroyListener, DestroySession, mainVars
<1>4. CASE Tick
  BY <1>4 DEF Tick, Core!Next
<1>5. ASSUME NEW c \in Connections,
             \/ Accept(c) \/ Answer(c) \/ Respond(c) \/ FailRead(c) \/ FailWrite(c)
             \/ Arrive(c) \/ Request(c) \/ Go(c)
      PROVE  UNCHANGED Core!vars
  BY <1>5, CoreStutters
     DEF Accept, OnAccept, Answer, Respond, FailRead, FailWrite, Arrive, Connect, Request, Go,
         Running, CoreIdle, mainVars
<1>6. ASSUME NEW c \in Connections,
             HandOver(c) \/ WebsocketHandler(c) \/ DestroyWebsocketHandler(c)
      PROVE  Core!Next
  BY <1>6 DEF HandOver, WebsocketHandler, DestroyWebsocketHandler, Core!Next
<1>7. CASE UNCHANGED chatVars
  BY <1>7, CoreStutters DEF chatVars, vars, mainVars
<1> QED
  BY <1>1, <1>2, <1>3, <1>4, <1>5, <1>6, <1>7 DEF ChatNext, MainAction

-----------------------------------------------------------------------------
(* The life of a websocket_session, as its connection sees it. *)

LEMMA HandlerLife ==
  ASSUME CoreProofs!IInv, NEW c \in Connections, Core!Handler(c) \/ Core!DestroyHandler(c)
  PROVE  /\ life[c] = "alive"
         /\ life' = life \/ life' = [life EXCEPT ![c] = "destroyed"]
         /\ token' = token
<1>1. Core!Owned(c, reads, writes, setup)
  BY DEF Core!Handler, Core!DestroyHandler, Core!OnAccept, Core!OnAcceptError, Core!OnRead,
         Core!OnReadError, Core!OnWrite, Core!OnWriteError, Core!OnClose, Core!OnWrite401, Core!Owned
<1>2. life[c] = "alive"
  BY <1>1 DEF Core!Owned, CoreProofs!Owned, CoreProofs!IInv, CoreProofs!OwnedWhileAlive
<1>3. /\ token' = token
      /\ life' = life \/ (\E q, r, w, u : Core!Return(c, q, r, w, u))
  BY DEF Core!Handler, Core!DestroyHandler, Core!OnAccept, Core!OnAcceptError, Core!OnRead,
         Core!OnReadError, Core!OnWrite, Core!OnWriteError, Core!OnClose, Core!OnWrite401,
         Core!sessionVars
<1>4. ASSUME NEW q, NEW r, NEW w, NEW u, Core!Return(c, q, r, w, u)
      PROVE  life' = life \/ life' = [life EXCEPT ![c] = "destroyed"]
  BY <1>4 DEF Core!Return, Core!Destructor
<1> QED
  BY <1>2, <1>3, <1>4

(* Every step of the whole is one of the server around the HTTP sessions, or
   none. *)
LEMMA StepOfServer ==
  ASSUME HttpTypeOK, CoreProofs!IInv, SocketHandedOver, [ChatNext]_chatVars
  PROVE  [Next]_vars
<1>1. CASE MainAction \/ DestroyOther
  BY <1>1 DEF MainAction, DestroyOther, Next, DestroyHandler
<1>2. CASE Tick \/ UNCHANGED chatVars
  BY <1>2 DEF Tick, chatVars
<1>3. ASSUME NEW c \in Connections, Accept(c) \/ Arrive(c) \/ Request(c) \/ Go(c)
      PROVE  Next
  BY <1>3 DEF Accept, Arrive, Request, Go, Next, Client, HttpClient
<1>4. ASSUME NEW c \in Connections, Answer(c) \/ Respond(c) \/ FailRead(c) \/ FailWrite(c) \/ HandOver(c)
      PROVE  Next
  BY <1>4 DEF Answer, Respond, FailRead, FailWrite, HandOver, Running, Next, Session, HttpHandler
<1>5. ASSUME NEW c \in Connections, WebsocketHandler(c) \/ DestroyWebsocketHandler(c)
      PROVE  [Next]_vars
  <2>1. life[c] = "alive" /\ SocketFollows(c) /\ UNCHANGED mainVars
    BY <1>5, HandlerLife DEF WebsocketHandler, DestroyWebsocketHandler, Running
  <2>2. owner[c] = "websocket"
    BY <2>1 DEF SocketHandedOver
  <2>3. CASE life'[c] # "destroyed"
    BY <2>1, <2>3 DEF SocketFollows, vars, httpVars
  <2>4. CASE life'[c] = "destroyed"
    <3>1. WebsocketEnds(c) \/ DestroySession(c)
      BY <1>5, <2>1, <2>2, <2>4 DEF WebsocketHandler, DestroyWebsocketHandler, Running, SocketFollows,
         WebsocketEnds, DestroySession, InUse
    <3> QED
      BY <3>1 DEF Next, DestroyHandler
  <2> QED
    BY <2>3, <2>4
<1> QED
  BY <1>1, <1>2, <1>3, <1>4, <1>5 DEF ChatNext

-----------------------------------------------------------------------------
(* A socket has one owner. *)

LEMMA HandedOverStep ==
  ASSUME ServerInv, CoreProofs!IInv, SocketHandedOver, [ChatNext]_chatVars
  PROVE  SocketHandedOver'
<1> USE DEF SocketHandedOver
<1>0. /\ owner \in [Connections -> {"none", "backlog", "http", "websocket", "closed"}]
      /\ op \in [Connections -> {"none", "read", "write"}]
      /\ \A c \in Connections : op[c] # "none" <=> owner[c] = "http"
      /\ life \in [Connections -> {"unborn", "alive", "destroyed"}]
  BY DEF ServerInv, HttpInv, HttpTypeOK, OneAtATime, CoreProofs!IInv, CoreProofs!TypeOK
<1>1. CASE Tick \/ UNCHANGED chatVars
  BY <1>1 DEF Tick, Core!Tick, Core!sessionVars, chatVars, vars, httpVars, coreVars
<1>2. CASE MainAction
  <2>1. op' = op /\ life' = life /\ (owner' = owner \/ ListenerGone)
    BY <1>2 DEF MainAction, CoreIdle, coreVars, Start, OnAcceptError, Signal, OnSignal, RunReturns, Exit,
       ListenerGone, httpVars
  <2> QED
    BY <1>0, <2>1 DEF ListenerGone
<1>3. CASE DestroyOther
  <2>1. life' = life
    BY <1>3 DEF DestroyOther, CoreIdle, coreVars
  <2>2. CASE DestroyListener
    BY <1>0, <2>1, <2>2 DEF DestroyListener, ListenerGone
  <2>3. ASSUME NEW c \in Connections, owner[c] = "http", DestroySession(c)
        PROVE  SocketHandedOver'
    BY <1>0, <2>1, <2>3 DEF DestroySession, Finish
  <2> QED
    BY <1>3, <2>2, <2>3 DEF DestroyOther
<1>4. ASSUME NEW c \in Connections, Accept(c) \/ Arrive(c)
      PROVE  SocketHandedOver'
  <2>1. life' = life
    BY <1>4 DEF Accept, Arrive, CoreIdle, coreVars
  <2> QED
    BY <1>0, <1>4, <2>1 DEF Accept, OnAccept, run, Arrive, Connect
<1>5. ASSUME NEW c \in Connections, Request(c) \/ Go(c)
      PROVE  SocketHandedOver'
  BY <1>5 DEF Request, SendRequest, Go, Leave, CoreIdle, coreVars
<1>6. ASSUME NEW c \in Connections, Answer(c) \/ Respond(c) \/ FailRead(c) \/ FailWrite(c)
      PROVE  SocketHandedOver'
  <2>1. life' = life
    BY <1>6 DEF Answer, Respond, FailRead, FailWrite, CoreIdle, coreVars
  <2>2. op[c] # "none" /\ owner[c] = "http" /\ life[c] = "unborn"
    BY <1>0, <1>6 DEF Answer, Respond, FailRead, FailWrite, OnReadRequest, Arrived, OnReadEof, OnReadError,
       OnWrite, Written, OnWriteError
  <2>3. /\ owner' \in {owner, [owner EXCEPT ![c] = "closed"]}
        /\ \E o : op' = [op EXCEPT ![c] = o]
    BY <1>6 DEF Answer, Respond, FailRead, FailWrite, OnReadRequest, Arrived, OnReadEof, OnReadError,
       OnWrite, Written, OnWriteError, Finish
  <2> QED
    BY <1>0, <2>1, <2>2, <2>3
<1>7. ASSUME NEW c \in Connections, HandOver(c)
      PROVE  SocketHandedOver'
  <2>1. /\ life[c] = "unborn" /\ life' = [life EXCEPT ![c] = "alive"]
        /\ owner' = [owner EXCEPT ![c] = "websocket"] /\ op' = [op EXCEPT ![c] = "none"]
    BY <1>7 DEF HandOver, Core!Upgrade, OnReadUpgrade, Finish
  <2> QED
    BY <1>0, <2>1
<1>8. ASSUME NEW c \in Connections, WebsocketHandler(c) \/ DestroyWebsocketHandler(c)
      PROVE  SocketHandedOver'
  <2>1. life[c] = "alive" /\ (life' = life \/ life' = [life EXCEPT ![c] = "destroyed"])
    BY <1>8, HandlerLife DEF WebsocketHandler, DestroyWebsocketHandler
  <2>2. SocketFollows(c)
    BY <1>8 DEF WebsocketHandler, DestroyWebsocketHandler
  <2> QED
    BY <1>0, <2>1, <2>2 DEF SocketFollows, Finish
<1> QED
  BY <1>1, <1>2, <1>3, <1>4, <1>5, <1>6, <1>7, <1>8 DEF ChatNext

-----------------------------------------------------------------------------
(* Where tokens come from: a token under way to a client was issued, one that
   a request carries is known to clients or is nobody's, and a session got its
   token from a request. *)
Traced ==
  /\ offered \in [Connections -> Issuable \cup {NoOffer}]
  /\ known \subseteq Issuable
  /\ \A c \in Connections : \A k \in 1..Len(sent[c]) : sent[c][k].token \in known \cup Unissued
  /\ \A c \in Connections : life[c] # "unborn" => token[c] \in known \cup Unissued

LEMMA TracedStep ==
  ASSUME ServerInv, CoreProofs!IInv, Traced, [ChatNext]_chatVars
  PROVE  Traced'
<1>0. /\ sent \in [Connections -> Seq(Requests)]
      /\ now \in 0..MaxTime
      /\ token \in [Connections -> Tokens \cup {CoreProofs!NoToken}]
      /\ life \in [Connections -> {"unborn", "alive", "destroyed"}]
  BY DEF ServerInv, HttpInv, HttpTypeOK, CoreProofs!IInv, CoreProofs!TypeOK
<1>1. CASE UNCHANGED <<sent, token, life, tokenVars>>
  BY <1>1 DEF Traced, tokenVars
<1>2. CASE Tick \/ UNCHANGED chatVars
  BY <1>1, <1>2 DEF Tick, Core!Tick, Core!sessionVars, chatVars, vars, httpVars, coreVars
<1>3. CASE MainAction \/ DestroyOther
  BY <1>1, <1>3 DEF MainAction, DestroyOther, CoreIdle, coreVars, Start, OnAcceptError, Signal, OnSignal,
     RunReturns, Exit, DestroyListener, DestroySession, ListenerGone, httpVars
<1>4. ASSUME NEW c \in Connections, Accept(c) \/ FailRead(c) \/ Arrive(c) \/ Go(c)
      PROVE  Traced'
  BY <1>1, <1>4 DEF Accept, OnAccept, run, FailRead, OnReadEof, OnReadError, Arrive, Connect, Go, Leave,
     CoreIdle, coreVars
<1>5. ASSUME NEW c \in Connections, Answer(c) \/ FailWrite(c)
      PROVE  Traced'
  <2>1. sent' = sent /\ token' = token /\ life' = life /\ known' = known
    BY <1>5 DEF Answer, FailWrite, OnReadRequest, OnWriteError, coreVars
  <2>2. IssuedAs[now] \in Issuable
    BY <1>0 DEF Issuable
  <2>3. \E o \in Issuable \cup {NoOffer} : offered' = [offered EXCEPT ![c] = o]
    BY <1>5, <2>2 DEF Answer, FailWrite
  <2> QED
    BY <2>1, <2>3 DEF Traced
<1>6. ASSUME NEW c \in Connections, Respond(c)
      PROVE  Traced'
  <2>1. /\ sent' = sent /\ token' = token /\ life' = life
        /\ known' = known \cup ({offered[c]} \ {NoOffer})
        /\ offered' = [offered EXCEPT ![c] = NoOffer]
    BY <1>6 DEF Respond, OnWrite, coreVars
  <2>2. known \subseteq known' /\ known' \subseteq Issuable
    BY <2>1 DEF Traced
  <2> QED
    BY <2>1, <2>2 DEF Traced
<1>7. ASSUME NEW c \in Connections, Request(c)
      PROVE  Traced'
  <2>1. PICK r \in Requests : sent' = [sent EXCEPT ![c] = Append(@, r)]
    BY <1>7 DEF Request, SendRequest
  <2>2. token' = token /\ life' = life /\ known' = known /\ offered' = offered
    BY <1>7 DEF Request, CoreIdle, coreVars, tokenVars
  <2>3. /\ sent'[c] = Append(sent[c], r)
        /\ Len(sent'[c]) = Len(sent[c]) + 1 /\ Len(sent[c]) \in Nat
        /\ \A k \in 1..Len(sent[c]) : sent'[c][k] = sent[c][k]
        /\ sent'[c][Len(sent'[c])] = r
    BY <1>0, <2>1, Appended
  <2>4. r.token \in known \cup Unissued
    BY <1>7, <2>3 DEF Request
  <2>5. ASSUME NEW k \in 1..Len(sent'[c])
        PROVE  sent'[c][k].token \in known \cup Unissued
    BY <2>3, <2>4, <2>5 DEF Traced
  <2>6. \A d \in Connections : d # c => sent'[d] = sent[d]
    BY <1>0, <2>1
  <2> QED
    BY <2>2, <2>5, <2>6 DEF Traced
<1>8. ASSUME NEW c \in Connections, HandOver(c)
      PROVE  Traced'
  <2>1. PICK r \in Requests : Arrived(c, r)
    BY <1>8 DEF HandOver, OnReadUpgrade
  <2>2. r = sent[c][taken[c] + 1] /\ taken[c] + 1 \in 1..Len(sent[c])
    BY <2>1, RequestAssumption
       DEF Arrived, Parsed, ServerInv, HttpInv, HttpTypeOK, OneAtATime, RequestAssumption
  <2>3. /\ sent' = sent /\ known' = known /\ offered' = offered
        /\ life' = [life EXCEPT ![c] = "alive"]
        /\ \E tok \in Tokens : token' = [token EXCEPT ![c] = tok]
        /\ token'[c] = req_'[c].token
    BY <1>8 DEF HandOver, OnReadUpgrade, Core!Upgrade, tokenVars
  <2>4. req_'[c] = r
    BY <2>1 DEF Arrived, ServerInv, HttpInv, HttpTypeOK
  <2>5. token'[c] \in known \cup Unissued
    BY <2>2, <2>3, <2>4 DEF Traced
  <2>6. \A d \in Connections : d # c => token'[d] = token[d] /\ life'[d] = life[d]
    BY <1>0, <2>3
  <2> QED
    BY <2>3, <2>5, <2>6 DEF Traced
<1>9. ASSUME NEW c \in Connections, WebsocketHandler(c) \/ DestroyWebsocketHandler(c)
      PROVE  Traced'
  <2>1. /\ life[c] = "alive" /\ (life' = life \/ life' = [life EXCEPT ![c] = "destroyed"])
        /\ token' = token
    BY <1>9, HandlerLife DEF WebsocketHandler, DestroyWebsocketHandler
  <2>2. sent' = sent /\ known' = known /\ offered' = offered
    BY <1>9 DEF WebsocketHandler, DestroyWebsocketHandler, SocketFollows, tokenVars
  <2> QED
    BY <1>0, <2>1, <2>2 DEF Traced
<1> QED
  BY <1>2, <1>3, <1>4, <1>5, <1>6, <1>7, <1>8, <1>9 DEF ChatNext

-----------------------------------------------------------------------------

ChatInv ==
  /\ ServerInv
  /\ CoreProofs!IInv
  /\ CoreProofs!OnlyVerifiedJoin
  /\ SocketHandedOver
  /\ Traced

LEMMA ChatInvInit == ChatInit => ChatInv
<1> SUFFICES ASSUME ChatInit PROVE ChatInv
  OBVIOUS
<1>1. ServerInv
  BY ServerInvInit DEF ChatInit
<1>2. CoreProofs!IInv /\ CoreProofs!OnlyVerifiedJoin
  BY SameInit, CoreParameters, CoreProofs!InitIInv, CoreProofs!InitVerified DEF ChatInit
<1>3. SocketHandedOver
  BY DEF ChatInit, Init, HttpInit, Core!Init, SocketHandedOver
<1>4. Traced
  BY DEF ChatInit, Init, HttpInit, Core!Init, Traced
<1> QED
  BY <1>1, <1>2, <1>3, <1>4 DEF ChatInv

LEMMA ChatInvNext == ChatInv /\ [ChatNext]_chatVars => ChatInv'
<1> SUFFICES ASSUME ChatInv, [ChatNext]_chatVars PROVE ChatInv'
  OBVIOUS
<1> USE DEF ChatInv
<1>1. [Next]_vars
  BY StepOfServer DEF ServerInv, HttpInv
<1>2. [CoreProofs!Next]_CoreProofs!vars
  BY StepOfCore, SameNext DEF ServerInv
<1>3. ServerInv'
  BY <1>1, ServerInvNext
<1>4. CoreProofs!IInv' /\ CoreProofs!OnlyVerifiedJoin'
  BY <1>2, CoreParameters, CoreProofs!NextIInv, CoreProofs!NextVerified
<1> QED
  BY <1>3, <1>4, HandedOverStep, TracedStep

(* The invariants of both parts, and the two that tie them together, hold
   throughout. *)
THEOREM ChatInvariance == ChatSpec => []ChatInv
BY ChatInvInit, ChatInvNext, PTL DEF ChatSpec

(* The whole program behaves as the server around the HTTP sessions: whatever
   happens in the chat, to it a WebSocket is a socket that closes at some
   time. *)
THEOREM ServerRefined == ChatSpec => ImplementsServer
<1>1. ChatInv /\ [ChatNext]_chatVars => [Next]_vars
  BY StepOfServer DEF ChatInv, ServerInv, HttpInv
<1>2. ChatInit => Init
  BY DEF ChatInit
<1> QED
  BY <1>1, <1>2, ChatInvariance, PTL DEF ChatSpec, ImplementsServer

(* The whole program behaves as the chat core, whatever happens on the HTTP
   side. *)
THEOREM CoreRefined == ChatSpec => ImplementsCore
<1>1. ChatInv /\ [ChatNext]_chatVars => [Core!Next]_Core!vars
  BY StepOfCore DEF ChatInv, ServerInv
<1>2. ChatInit => Core!Init
  BY DEF ChatInit
<1> QED
  BY <1>1, <1>2, ChatInvariance, PTL DEF ChatSpec, ImplementsCore

(* A websocket_session exists exactly while it holds its connection's socket. *)
THEOREM OneOwner == ChatSpec => []SocketHandedOver
<1>1. ChatInv => SocketHandedOver
  BY DEF ChatInv
<1> QED
  BY <1>1, ChatInvariance, PTL

LEMMA InvNothingLeft == ChatInv => NothingLeft
<1> SUFFICES ASSUME ChatInv, status = "exited" PROVE
      /\ \A c \in Connections :
           /\ life[c] # "alive"
           /\ reads[c] = 0 /\ writes[c] = <<>> /\ setup[c] = {}
      /\ \A id \in Ids : sessions_[id] = nullptr
  BY DEF NothingLeft
<1>1. \A c \in Connections : life[c] # "alive"
  BY DEF ChatInv, ServerInv, ListenerOwns, InUse, SocketHandedOver
<1>2. ASSUME NEW c \in Connections
      PROVE  reads[c] = 0 /\ writes[c] = <<>> /\ setup[c] = {}
  <2>1. ~CoreProofs!Owned(c, reads, writes, setup) /\ reads[c] \in Nat
    BY <1>1 DEF ChatInv, CoreProofs!IInv, CoreProofs!OwnedWhileAlive, CoreProofs!TypeOK
  <2> QED
    BY <2>1 DEF CoreProofs!Owned
<1>3. ASSUME NEW id \in Ids
      PROVE  sessions_[id] = nullptr
  BY <1>1 DEF ChatInv, CoreProofs!IInv, CoreProofs!NoDanglingPointer, CoreProofs!TypeOK
<1> QED
  BY <1>1, <1>2, <1>3

(* When main has returned, every session is destroyed, and no entry and no
   operation is left of them. *)
THEOREM NothingLeftAtExit == ChatSpec => []NothingLeft
BY InvNothingLeft, ChatInvariance, PTL

LEMMA InvJoined == ChatInv => JoinedByToken
<1> SUFFICES ASSUME ChatInv, NEW c \in Connections, connection_id[c] # NoId
             PROVE  token[c] \in known \cap Issuable
  BY DEF JoinedByToken
<1>1. life[c] # "unborn"
  BY DEF ChatInv, CoreProofs!IInv, CoreProofs!PhasesApart
<1>2. presented[c] \in 0..now /\ Core!Accepts(TokenOf[token[c]], presented[c])
  BY SameAccepts DEF ChatInv, CoreProofs!OnlyVerifiedJoin
<1>3. presented[c] \in 0..MaxTime
  BY <1>2, ChatServerAssumption DEF ChatInv, CoreProofs!IInv, CoreProofs!TypeOK, ChatServerAssumption
<1>4. token[c] \notin Unissued
  BY <1>2, <1>3, ChatServerAssumption DEF ChatServerAssumption
<1> QED
  BY <1>1, <1>4 DEF ChatInv, Traced

(* Nobody joins the chat but with a token that the server issued and gave to a
   client in an earlier response. *)
THEOREM JoinedOnlyByToken == ChatSpec => []JoinedByToken
BY InvJoined, ChatInvariance, PTL

-----------------------------------------------------------------------------
(* What the chat core promises, it promises in the whole program. *)

(* In the whole program the chat is the abstract room: members join, speak and
   leave, whatever connections, requests, failures and shutdown do around it. *)
THEOREM WholeIsRoom == ChatSpec => CoreProofs!ImplementsRoom
<1>1. CoreProofs!Init => CoreProofs!Room!Init
  BY CoreParameters, CoreProofs!RoomInit
<1>2. CoreProofs!IInv /\ [CoreProofs!Next]_CoreProofs!vars => [CoreProofs!Room!Next]_CoreProofs!Room!roomVars
  BY CoreParameters, CoreProofs!NextRefines
<1>3. ChatInit => CoreProofs!Room!Init
  BY <1>1, SameInit DEF ChatInit
<1>4. ChatInv /\ [ChatNext]_chatVars => [CoreProofs!Room!Next]_CoreProofs!Room!roomVars
  BY <1>2, StepOfCore, SameNext DEF ChatInv, ServerInv
<1> QED
  BY <1>3, <1>4, ChatInvariance, PTL DEF ChatSpec, CoreProofs!ImplementsRoom, CoreProofs!Room!Spec

(* The room and what was proved of it are about the same one. *)
LEMMA RoomSpecInWhole == ChatSpec => CoreProofs!RoomProofs!Spec
<1>1. /\ CoreProofs!Room!Init => CoreProofs!RoomProofs!Init
      /\ [CoreProofs!Room!Next]_CoreProofs!Room!roomVars
           => [CoreProofs!RoomProofs!Next]_CoreProofs!RoomProofs!roomVars
  BY CoreParameters, CoreProofs!SameRoom
<1>2. CoreProofs!ImplementsRoom => CoreProofs!RoomProofs!Spec
  BY <1>1, PTL DEF CoreProofs!ImplementsRoom, CoreProofs!Room!Spec, CoreProofs!RoomProofs!Spec
<1> QED
  BY <1>2, WholeIsRoom, PTL

(* In the whole program every client that is accepted is first told its own id
   and greeted once, the registered ones agree on what they were sent, and only
   a collision of ids takes a live one out of the chat. *)
THEOREM RoomKeptInWhole ==
  ChatSpec => [](CoreProofs!GreetedFirst /\ CoreProofs!SameOrder /\ CoreProofs!UnreachedOnlyByCollision)
<1>1. CoreProofs!RoomProofs!Spec => []CoreProofs!RoomProofs!RoomInv
  BY CoreParameters, CoreProofs!RoomParameters, CoreProofs!RoomProofs!RoomCorrect
<1>2. CoreProofs!RoomProofs!RoomInv
        => CoreProofs!GreetedFirst /\ CoreProofs!SameOrder /\ CoreProofs!UnreachedOnlyByCollision
  BY DEF CoreProofs!RoomProofs!RoomInv, CoreProofs!RoomProofs!GreetedFirst,
         CoreProofs!GreetedFirst, CoreProofs!Room!GreetedFirst,
         CoreProofs!RoomProofs!SameOrder, CoreProofs!RoomProofs!Present,
         CoreProofs!SameOrder, CoreProofs!Room!SameOrder, CoreProofs!Room!Present,
         CoreProofs!RoomProofs!UnheldOnlyByCollision,
         CoreProofs!UnreachedOnlyByCollision, CoreProofs!Room!UnheldOnlyByCollision
<1> QED
  BY <1>1, <1>2, RoomSpecInWhole, PTL

(* In the whole program no message is lost or reordered between send() and the
   wire, whatever the HTTP side does. *)
THEOREM NoMessageLostInWhole == ChatSpec => CoreProofs!RoomProofs!OnlyAppended
<1>1. CoreProofs!RoomProofs!Spec => CoreProofs!RoomProofs!OnlyAppended
  BY CoreParameters, CoreProofs!RoomParameters, CoreProofs!RoomProofs!NothingTakenBack
<1> QED
  BY <1>1, RoomSpecInWhole, PTL

(* In the whole program a session lives once, keeps the token it presented when
   it came to life, has one id at most, and is used no more once it is
   destroyed, not even while main is being left. *)
THEOREM OneWayInWhole == ChatSpec => CoreProofs!GoesOneWay
<1>1. ChatInv /\ [ChatNext]_chatVars =>
        [\A s \in Connections :
           /\ life'[s] # life[s] =>
                \/ life[s] = "unborn" /\ life'[s] = "alive"
                \/ life[s] = "alive" /\ life'[s] = "destroyed"
           /\ life[s] = "unborn" /\ life'[s] # life[s] => presented'[s] = now
           /\ life[s] # "unborn" => UNCHANGED <<token[s], presented[s]>>
           /\ connection_id[s] # NoId => connection_id'[s] = connection_id[s]
           /\ life[s] = "destroyed" =>
                UNCHANGED <<connection_id[s], queue_[s], writes[s], reads[s], setup[s],
                            stream[s], wire[s], [c \in Connections |-> FALSE][s]>>]_CoreProofs!vars
  <2>1. ChatInv /\ [ChatNext]_chatVars => CoreProofs!IInv /\ [CoreProofs!Next]_CoreProofs!vars
    BY StepOfCore, SameNext DEF ChatInv, ServerInv
  <2> QED
    BY <2>1, CoreParameters, CoreProofs!OneWayStep DEF CoreProofs!Spared
<1> QED
  BY <1>1, ChatInvariance, PTL DEF ChatSpec, CoreProofs!GoesOneWay

(* In the whole program sessions_ never points to a destroyed session, a stream
   has one write under way at most, a session lives as long as its operations,
   and only who presented a token that was valid then joins. *)
THEOREM CoreSafeInWhole ==
  ChatSpec => [](/\ CoreProofs!NoDanglingPointer /\ CoreProofs!WriteDiscipline
                 /\ CoreProofs!OwnedWhileAlive /\ CoreProofs!PhasesApart
                 /\ CoreProofs!OnlyVerifiedJoin)
<1>1. ChatInv => /\ CoreProofs!NoDanglingPointer /\ CoreProofs!WriteDiscipline
                 /\ CoreProofs!OwnedWhileAlive /\ CoreProofs!PhasesApart
                 /\ CoreProofs!OnlyVerifiedJoin
  BY DEF ChatInv, CoreProofs!IInv
<1> QED
  BY <1>1, ChatInvariance, PTL

(* In the whole program requests are answered in order and nothing follows a
   closing answer, the server leaves only on a signal, and its sockets are
   accounted for. *)
THEOREM ServerSafeInWhole ==
  ChatSpec => [](/\ OneAtATime /\ AnswersInOrder /\ QuietAfterClose
                 /\ LeavesOnlyOnSignal /\ SocketsAccounted)
<1>1. ChatInv => /\ OneAtATime /\ AnswersInOrder /\ QuietAfterClose
                 /\ LeavesOnlyOnSignal /\ SocketsAccounted
  BY InvAccounts DEF ChatInv, ServerInv, HttpInv, StopsOnlyOnSignal, LeavesOnlyOnSignal
<1> QED
  BY <1>1, ChatInvariance, PTL

(* Whatever happens in the chat, no HTTP connection of a running server ends
   without a cause that its client can tell. *)
THEOREM NoEndWithoutCauseInWhole == ChatSpec => EndsForCause
<1>1. ChatInit => Answerable /\ Abstract!Init
  BY CauseInit DEF ChatInit
<1>2. ChatInv /\ Answerable /\ [ChatNext]_chatVars
        => Answerable' /\ [status # "leaving" => Abstract!Next \/ TurnedAway]_Abstract!vars
  BY StepOfServer, CauseStep DEF ChatInv, ServerInv, HttpInv
<1> QED
  BY <1>1, <1>2, ChatInvariance, PTL DEF ChatSpec, EndsForCause

-----------------------------------------------------------------------------
(* The times at which tokens are given and presented. *)

(* A token with a client, or on its way to one, was issued at some earlier
   tick, and one that let a session in no later than it was presented. *)
Dated ==
  /\ \A n \in known : \E t \in 0..now : n = IssuedAs[t]
  /\ \A c \in Connections : offered[c] # NoOffer => \E t \in 0..now : offered[c] = IssuedAs[t]
  /\ \A c \in Connections :
       connection_id[c] # NoId \/ "accept" \in setup[c] =>
         \E t \in 0..presented[c] : token[c] = IssuedAs[t]

(* Where a token with a client, or on its way to one, may come from in a
   step. *)
LEMMA TokensStep ==
  ASSUME Traced, [ChatNext]_chatVars
  PROVE  /\ \A n \in known' : n \in known \/ \E c \in Connections : offered[c] = n /\ n # NoOffer
         /\ \A c \in Connections : offered'[c] \in {offered[c], NoOffer, IssuedAs[now]}
<1>1. DOMAIN offered = Connections
  BY DEF Traced
<1>2. CASE UNCHANGED tokenVars
  BY <1>2 DEF tokenVars
<1>3. ASSUME NEW c \in Connections, Answer(c) \/ FailWrite(c)
      PROVE  /\ known' = known
             /\ \A d \in Connections : offered'[d] \in {offered[d], NoOffer, IssuedAs[now]}
  BY <1>1, <1>3 DEF Answer, FailWrite
<1>4. ASSUME NEW c \in Connections, Respond(c)
      PROVE  /\ known' = known \cup ({offered[c]} \ {NoOffer})
             /\ \A d \in Connections : offered'[d] \in {offered[d], NoOffer}
  BY <1>1, <1>4 DEF Respond
<1>5. ASSUME NEW c \in Connections,
             \/ Accept(c) \/ FailRead(c) \/ HandOver(c)
             \/ WebsocketHandler(c) \/ DestroyWebsocketHandler(c) \/ Arrive(c) \/ Request(c) \/ Go(c)
      PROVE  UNCHANGED tokenVars
  BY <1>5 DEF Accept, FailRead, HandOver, WebsocketHandler, DestroyWebsocketHandler, Arrive, Request,
       Go, SocketFollows, CoreIdle
<1>6. CASE MainAction \/ DestroyOther \/ Tick \/ UNCHANGED chatVars
  <2>1. UNCHANGED tokenVars
    BY <1>6 DEF MainAction, DestroyOther, Tick, CoreIdle, chatVars
  <2> QED
    BY <2>1, <1>2
<1> QED
  BY <1>2, <1>3, <1>4, <1>5, <1>6 DEF ChatNext

(* The clock of the chat does not go back. *)
LEMMA ClockStep ==
  ASSUME CoreProofs!IInv, [CoreProofs!Next]_CoreProofs!vars
  PROVE  now \in 0..MaxTime /\ now' \in 0..MaxTime /\ now <= now'
<1>1. now \in 0..MaxTime /\ now' \in 0..MaxTime
  BY CoreParameters, CoreProofs!NextIInv DEF CoreProofs!IInv, CoreProofs!TypeOK
<1>2. now' \in {now, now + 1}
  BY DEF CoreProofs!Next, CoreProofs!Upgrade, CoreProofs!Handler, CoreProofs!Hangup,
         CoreProofs!DestroyHandler, CoreProofs!Stop, CoreProofs!Tick, CoreProofs!Exited,
         CoreProofs!OnAccept, CoreProofs!OnAcceptError, CoreProofs!OnRead, CoreProofs!OnReadError,
         CoreProofs!OnWrite, CoreProofs!OnWriteError, CoreProofs!OnClose, CoreProofs!OnWrite401,
         CoreProofs!vars
<1> QED
  BY <1>1, <1>2, ChatServerAssumption DEF ChatServerAssumption

LEMMA DatedStep ==
  ASSUME ChatInv, Dated, [ChatNext]_chatVars
  PROVE  Dated'
<1>1. [CoreProofs!Next]_CoreProofs!vars /\ CoreProofs!IInv /\ Traced
  BY StepOfCore, SameNext DEF ChatInv, ServerInv
<1>2. now \in 0..MaxTime /\ now' \in 0..MaxTime /\ now <= now' /\ MaxTime \in Nat
  BY <1>1, ClockStep, ChatServerAssumption DEF ChatServerAssumption
<1>3. 0..now \subseteq 0..now' /\ now \in 0..now'
  BY <1>2
<1>4. \A n \in known' : \E t \in 0..now : n = IssuedAs[t]
  BY <1>1, TokensStep DEF Dated
<1>5. ASSUME NEW c \in Connections, offered'[c] # NoOffer
      PROVE  \E t \in 0..now' : offered'[c] = IssuedAs[t]
  BY <1>1, <1>3, <1>5, TokensStep DEF Dated
<1>6. ASSUME NEW c \in Connections, connection_id'[c] # NoId \/ "accept" \in setup'[c]
      PROVE  \E t \in 0..presented'[c] : token'[c] = IssuedAs[t]
  <2>1. CASE CoreProofs!Upgrade(c)
    <3>1. PICK tok \in Tokens : token' = [token EXCEPT ![c] = tok] /\ CoreProofs!run(c, tok)
      BY <2>1 DEF CoreProofs!Upgrade
    <3>2. /\ life[c] = "unborn" /\ life'[c] = "alive" /\ connection_id' = connection_id
          /\ now' = now /\ presented'[c] = now
      BY <1>1, <2>1 DEF CoreProofs!Upgrade, CoreProofs!IInv, CoreProofs!TypeOK
    <3>3. "accept" \in setup'[c] /\ token'[c] = tok
      BY <1>1, <1>6, <3>1, <3>2 DEF CoreProofs!IInv, CoreProofs!TypeOK, CoreProofs!PhasesApart
    <3>4. CoreProofs!Accepts(TokenOf[tok], now)
      BY <1>1, <3>1, <3>3 DEF CoreProofs!run, CoreProofs!close_with_401, CoreProofs!IInv, CoreProofs!TypeOK
    <3>5. tok \in known' \cup Unissued
      <4>1. Traced'
        BY TracedStep DEF ChatInv
      <4> QED
        BY <3>2, <3>3, <4>1 DEF Traced
    <3>6. tok \notin Unissued
      BY <1>2, <3>4, SameAccepts, ChatServerAssumption DEF ChatServerAssumption
    <3> QED
      BY <1>4, <3>2, <3>3, <3>5, <3>6
  <2>2. CASE ~CoreProofs!Upgrade(c)
    <3>1. /\ token'[c] = token[c] /\ presented'[c] = presented[c]
          /\ connection_id[c] # NoId \/ "accept" \in setup[c]
      BY <1>1, <1>6, <2>2, CoreParameters, CoreProofs!JoinSteps
    <3> QED
      BY <3>1 DEF Dated
  <2> QED
    BY <2>1, <2>2
<1> QED
  BY <1>3, <1>4, <1>5, <1>6 DEF Dated

(* Tokens are dated throughout. *)
THEOREM DatedInvariance == ChatSpec => []Dated
<1>1. ChatInit => Dated
  BY DEF ChatInit, Core!Init, Dated
<1> QED
  BY <1>1, DatedStep, ChatInvariance, PTL DEF ChatSpec

(* What is proved of the life of a token, for the tokens of the whole program:
   each is issued within one tick. *)
Life == INSTANCE TokenLifecycleProofs WITH
  issued <- {[token |-> TokenOf[IssuedAs[t]], t1 |-> t, t2 |-> t] : t \in 0..MaxTime},
  MaxIssued <- 0, MaxLeeway <- 0, Inventions <- {}, Partner <- {}

LEMMA LifeAccepts ==
  \A tok, t : CoreProofs!Accepts(tok, t) <=> Life!Accepts(tok, t)
<1>1. /\ CoreProofs!Empty = Life!Empty
      /\ \A m, n, v : CoreProofs!Put(m, n, v) = Life!Put(m, n, v)
  BY DEF CoreProofs!Empty, Life!Empty, CoreProofs!Put, Life!Put
<1>2. \A t, v : CoreProofs!Claim(t, v) = Life!Claim(t, v)
  BY DEF CoreProofs!Claim, Life!Claim
<1>3. \A c : /\ CoreProofs!TypeError(c) = Life!TypeError(c)
             /\ CoreProofs!SetError(c) = Life!SetError(c)
             /\ CoreProofs!as_set(c) = Life!as_set(c)
  BY DEF CoreProofs!TypeError, Life!TypeError, CoreProofs!CastError, Life!CastError,
         CoreProofs!SetError, Life!SetError, CoreProofs!as_set, Life!as_set
<1>4. \A c : /\ CoreProofs!DateError(c) = Life!DateError(c)
             /\ CoreProofs!as_date(c) = Life!as_date(c)
  BY DEF CoreProofs!TypeError, Life!TypeError, CoreProofs!CastError, Life!CastError,
         CoreProofs!DateError, Life!DateError, CoreProofs!as_date, Life!as_date,
         CoreProofs!from_time_t, Life!from_time_t, CoreProofs!Round, Life!Round,
         CoreProofs!Wrap, Life!Wrap
<1>5. \A c, l, t : /\ CoreProofs!Expired(c, l, t) = Life!Expired(c, l, t)
                   /\ CoreProofs!NotYet(c, l, t) = Life!NotYet(c, l, t)
  BY <1>4 DEF CoreProofs!Expired, Life!Expired, CoreProofs!NotYet, Life!NotYet, CoreProofs!Slack,
         Life!Slack, CoreProofs!Wrap, Life!Wrap
<1>6. \A x : /\ CoreProofs!claim(x) = Life!claim(x)
             /\ CoreProofs!MissingError(x) = Life!MissingError(x)
  BY DEF CoreProofs!claim, Life!claim, CoreProofs!MissingError, Life!MissingError,
         CoreProofs!has_claim, Life!has_claim
<1>7. \A x, t : CoreProofs!MismatchError(x, t) = Life!MismatchError(x, t)
  BY <1>3, <1>6 DEF CoreProofs!MismatchError, Life!MismatchError
<1>8. \A x, y : CoreProofs!equals_claim(y, x) = Life!equals_claim(y, x)
  BY <1>6, <1>7 DEF CoreProofs!equals_claim, Life!equals_claim
<1>9. \A x, y : CoreProofs!is_subset_claim(y, x) = Life!is_subset_claim(y, x)
  BY <1>3, <1>6 DEF CoreProofs!is_subset_claim, Life!is_subset_claim
<1>10. \A x : /\ CoreProofs!ExpiresError(x) = Life!ExpiresError(x)
              /\ CoreProofs!IssuedError(x) = Life!IssuedError(x)
  BY <1>4, <1>5, <1>6 DEF CoreProofs!ExpiresError, Life!ExpiresError, CoreProofs!IssuedError, Life!IssuedError
<1>11. \A x, l : /\ CoreProofs!date_before_claim(l, x) = Life!date_before_claim(l, x)
                 /\ CoreProofs!date_after_claim(l, x) = Life!date_after_claim(l, x)
  BY <1>5, <1>6, <1>7 DEF CoreProofs!date_before_claim, Life!date_before_claim, CoreProofs!date_after_claim,
         Life!date_after_claim
<1>12. \A k, x : CoreProofs!CheckError(k, x) = Life!CheckError(k, x)
  BY <1>8, <1>9, <1>10, <1>11 DEF CoreProofs!CheckError, Life!CheckError
<1>13. \A v, j, t : CoreProofs!ClaimErrors(v, j, t) = Life!ClaimErrors(v, j, t)
  BY <1>12 DEF CoreProofs!ClaimErrors, Life!ClaimErrors, CoreProofs!verify_context,
         Life!verify_context
<1>14. CoreProofs!Verifier = Life!Verifier
  BY <1>1, <1>2 DEF CoreProofs!Verifier, Life!Verifier, CoreProofs!verifier, Life!verifier,
         CoreProofs!with_audience, Life!with_audience, CoreProofs!with_issuer, Life!with_issuer,
         CoreProofs!with_claim, Life!with_claim, CoreProofs!allow_algorithm,
         Life!allow_algorithm, CoreProofs!hs256, Life!hs256, CoreProofs!Secret, Life!Secret,
         CoreProofs!Issuer, Life!Issuer, CoreProofs!Audience, Life!Audience
<1>15. \A k : /\ CoreProofs!DecodeError(k) = Life!DecodeError(k)
              /\ CoreProofs!decoded_jwt(k) = Life!decoded_jwt(k)
  BY DEF CoreProofs!DecodeError, Life!DecodeError, CoreProofs!ParseError, Life!ParseError,
         CoreProofs!decoded_jwt, Life!decoded_jwt
<1>16. /\ \A j : CoreProofs!AlgorithmError(j) = Life!AlgorithmError(j)
       /\ \A a, d, h : CoreProofs!Matches(a, d, h) = Life!Matches(a, d, h)
  BY DEF CoreProofs!AlgorithmError, Life!AlgorithmError, CoreProofs!ClaimError, Life!ClaimError,
         CoreProofs!has_claim, Life!has_claim,
         CoreProofs!CastError, Life!CastError, CoreProofs!Matches, Life!Matches,
         CoreProofs!Hmac, Life!Hmac
<1>17. \A v, j, t : CoreProofs!Outcomes(v, j, t) = Life!Outcomes(v, j, t)
  BY <1>13, <1>16 DEF CoreProofs!Outcomes, Life!Outcomes
<1>18. \A k, t : CoreProofs!Verify(k, t) = Life!Verify(k, t)
  BY <1>14, <1>15, <1>17 DEF CoreProofs!Verify, Life!Verify, CoreProofs!VerifyWith, Life!VerifyWith
<1> QED
  BY <1>18 DEF CoreProofs!Accepts, Life!Accepts

LEMMA LifeIssued ==
  \A t1, t2 : Core!IssuedToken(t1, t2) = Life!IssuedToken(t1, t2)
<1>1. /\ Core!builder = Life!builder
      /\ \A m, n, v : Core!Put(m, n, v) = Life!Put(m, n, v)
      /\ \A t, v : Core!Claim(t, v) = Life!Claim(t, v)
      /\ \A d : Core!DateClaim(d) = Life!DateClaim(d)
  BY DEF Core!builder, Life!builder, Core!Empty, Life!Empty, Core!Put, Life!Put, Core!Claim,
         Life!Claim, Core!DateClaim, Life!DateClaim, Core!to_time_t, Life!to_time_t
<1>2. \A b, n, c : /\ Core!set_header_claim(b, n, c) = Life!set_header_claim(b, n, c)
                   /\ Core!set_payload_claim(b, n, c) = Life!set_payload_claim(b, n, c)
  BY <1>1 DEF Core!set_header_claim, Life!set_header_claim, Core!set_payload_claim,
         Life!set_payload_claim
<1>3. \A t1, t2 : Core!Issued(t1, t2) = Life!Issued(t1, t2)
  BY <1>1, <1>2
     DEF Core!Issued, Life!Issued, Core!set_issued_at, Life!set_issued_at, Core!set_expires_at,
         Life!set_expires_at, Core!set_audience, Life!set_audience, Core!set_issuer,
         Life!set_issuer, Core!Issuer, Life!Issuer, Core!Audience, Life!Audience
<1>4. \A b, a : Core!sign(b, a) = Life!sign(b, a)
  BY <1>1, <1>2 DEF Core!sign, Life!sign, Core!has_claim, Life!has_claim, Core!Object, Life!Object,
         Core!Hmac, Life!Hmac
<1> QED
  BY <1>3, <1>4 DEF Core!IssuedToken, Life!IssuedToken, Core!hs256, Life!hs256, Core!Secret, Life!Secret

(* Within the range of the clock, that is before the year 2262, nobody is in
   the chat on a token that the server did not issue, or that had outlived its
   lifetime at the moment it was presented. *)
THEOREM OnlyWithinLifetime ==
  ASSUME MaxTime + LifetimeSeconds * TicksPerSecond < ClockLimit
  PROVE  ChatSpec => []JoinedInLifetime
<1>1. /\ TicksPerSecond \in Nat \ {0} /\ LifetimeSeconds \in Nat /\ MaxTime \in Nat
      /\ ClockLimit \in Nat \ {0}
  BY ChatServerAssumption DEF ChatServerAssumption
<1>2. Life!ClockAssumption /\ Life!LifecycleAssumption
  BY <1>1 DEF Life!ClockAssumption, Life!LifecycleAssumption
<1>3. ChatInv => Life!TypeOK
  <2>1. \A t \in 0..MaxTime : TokenOf[IssuedAs[t]] = Life!IssuedToken(t, t)
    BY LifeIssued, ChatServerAssumption DEF ChatServerAssumption
  <2> QED
    BY <1>1, <2>1 DEF Life!TypeOK, ChatInv, CoreProofs!IInv, CoreProofs!TypeOK
<1>4. ASSUME ChatInv, Dated
      PROVE  JoinedInLifetime
  <2> DEFINE u(c) == presented[c]
  <2> SUFFICES ASSUME NEW c \in Connections, connection_id[c] # NoId
               PROVE  \E t \in 0..u(c) :
                        token[c] = IssuedAs[t] /\ u(c) <= t + LifetimeSeconds * TicksPerSecond
    BY DEF JoinedInLifetime
  <2>1. u(c) \in 0..now /\ CoreProofs!Accepts(TokenOf[token[c]], u(c))
    BY <1>4 DEF ChatInv, CoreProofs!OnlyVerifiedJoin
  <2>2. PICK t \in 0..u(c) : token[c] = IssuedAs[t]
    BY <1>4 DEF Dated
  <2>3. now \in 0..MaxTime /\ u(c) \in 0..MaxTime /\ t \in 0..MaxTime /\ u(c) \in Int
    BY <1>1, <1>4, <2>1 DEF ChatInv, CoreProofs!IInv, CoreProofs!TypeOK
  <2> DEFINE i == [token |-> TokenOf[IssuedAs[t]], t1 |-> t, t2 |-> t]
             tokens == {[token |-> TokenOf[IssuedAs[x]], t1 |-> x, t2 |-> x] : x \in 0..MaxTime}
             last == t + LifetimeSeconds * TicksPerSecond
             exp == Life!as_date(Life!DateClaim(last))
             iat == Life!as_date(Life!DateClaim(t))
  <2>4. i \in tokens /\ i.t1 = t /\ i.t2 = t /\ i.token = TokenOf[token[c]]
    BY <2>2, <2>3
  <2>5. Life!Verify(i.token, u(c)) = IF iat <= u(c) /\ u(c) <= exp THEN {"ok"} ELSE {"token_expired"}
    BY <1>2, <1>3, <1>4, <2>3, <2>4, Life!IssuedGoodPlain
  <2>6. exp \in 0..last /\ last \in Nat
    BY <1>2, <1>3, <1>4, <2>4, Life!IssuedInterval
  <2>7. "ok" \in Life!Verify(i.token, u(c))
    BY <2>1, <2>4, LifeAccepts DEF Life!Accepts
  <2> HIDE DEF exp, iat, i, last, u
  <2>8. u(c) <= exp
    BY <2>5, <2>7
  <2>9. u(c) <= last
    BY <2>3, <2>6, <2>8
  <2> QED
    BY <2>2, <2>9 DEF last
<1> QED
  BY <1>4, ChatInvariance, DatedInvariance, PTL

=============================================================================
