----------------------- MODULE WebsocketSessionProofs -----------------------
(***************************************************************************)
(* Proofs about the chat core, for any number of sessions, any ids and any *)
(* bounds.                                                                 *)
(***************************************************************************)
EXTENDS WebsocketSession, SequenceTheorems, TLAPS

Queues == [Sessions -> Seq(Message)]

(* What a step does to the outgoing side of a session that had queue q[t] and
   writes w[t] and now has p[t] and v[t]: nothing, or send(m). *)
Kept(q, w, p, v, t) == p[t] = q[t] /\ v[t] = w[t]

Delivered(m, q, w, p, v, t) ==
  /\ p[t] = Append(q[t], m)
  /\ q[t] = <<>> => v[t] = Append(w[t], m)
  /\ q[t] # <<>> => v[t] = w[t]

(* The texts the server sends are messages. *)
LEMMA MessageTypes ==
  /\ \A id \in Ids : Greeting(id) \in Message /\ Farewell(id) \in Message
  /\ \A n \in 1..MaxChat : Chat(n) \in Message
BY DEF Message

(* push_back() on a queue. *)
LEMMA AppendFacts ==
  ASSUME NEW S, NEW u \in Seq(S), NEW e \in S
  PROVE  /\ Append(u, e) \in Seq(S)
         /\ Append(u, e) # <<>>
         /\ Len(Append(u, e)) > 1 <=> u # <<>>
         /\ u = <<>> => Append(u, e) = <<e>>
         /\ u # <<>> => Head(Append(u, e)) = Head(u)
         /\ u = <<>> => Head(Append(u, e)) = e
<1>1. Append(u, e) \in Seq(S) /\ Append(u, e) # <<>> /\ Len(Append(u, e)) = Len(u) + 1
  BY AppendProperties
<1>2. Len(u) \in Nat /\ Len(<<>>) = 0 /\ (u # <<>> => Len(u) # 0)
  BY LenProperties, EmptySeq
<1>3. Head(Append(u, e)) = IF u = <<>> THEN e ELSE Head(u)
  BY HeadTailAppend
<1>4. u = <<>> => Append(u, e) = <<e>>
  BY AppendIsConcat, ConcatEmptySeq, <<e>> \in Seq(S)
<1> QED
  BY <1>1, <1>2, <1>3, <1>4

(* What websocket_session::send does to each session. *)
LEMMA SendEffect ==
  ASSUME NEW T \in SUBSET Sessions, NEW m \in Message,
         NEW q \in Queues, NEW w \in Queues
  PROVE  /\ Pushed(T, m, q) \in Queues
         /\ Started(T, Pushed(T, m, q), w) \in Queues
         /\ \A t \in Sessions \ T : Kept(q, w, Pushed(T, m, q), Started(T, Pushed(T, m, q), w), t)
         /\ \A t \in T : Delivered(m, q, w, Pushed(T, m, q), Started(T, Pushed(T, m, q), w), t)
<1> DEFINE pushed == Pushed(T, m, q)
<1>1. \A t \in T : /\ Append(q[t], m) \in Seq(Message)
                   /\ Append(w[t], m) \in Seq(Message)
                   /\ Len(Append(q[t], m)) > 1 <=> q[t] # <<>>
                   /\ q[t] = <<>> => Head(Append(q[t], m)) = m
  BY AppendFacts DEF Queues
<1>2. pushed \in Queues /\ \A t \in T : pushed[t] = Append(q[t], m)
  BY <1>1 DEF Queues, Pushed
<1>3. Idle(T, pushed) \subseteq T /\ \A t \in T : t \in Idle(T, pushed) <=> q[t] = <<>>
  BY <1>1, <1>2 DEF Idle
<1>4. \A t \in Sessions \ T : pushed[t] = q[t]
  BY DEF Pushed
<1> HIDE DEF pushed
<1>5. \A t \in Sessions :
        Started(T, pushed, w)[t] = IF t \in Idle(T, pushed) THEN Append(w[t], m) ELSE w[t]
  BY <1>1, <1>2, <1>3 DEF Started
<1>6. Started(T, pushed, w) \in Queues
  BY <1>1, <1>2, <1>3, <1>5 DEF Queues, Started
<1> QED
  BY <1>2, <1>3, <1>4, <1>5, <1>6 DEF pushed, Kept, Delivered

-----------------------------------------------------------------------------
(* At most the front of the queue is being written. *)
FrontOnly(u, v) == v = <<>> \/ (u # <<>> /\ v = <<Head(u)>>)

(* The write discipline, session by session. *)
LEMMA FrontOnlyNow ==
  ASSUME WriteDiscipline
  PROVE  \A t \in Sessions : FrontOnly(queue_[t], writes[t])
BY DEF WriteDiscipline, FrontOnly

(* send() keeps the write discipline, and leaves no working queue without a
   write that had one or was empty. *)
LEMMA DeliveryKeeps ==
  ASSUME NEW t \in Sessions, NEW m \in Message, NEW q \in Queues, NEW w \in Queues,
         NEW p, NEW v, FrontOnly(q[t], w[t])
  PROVE  /\ Kept(q, w, p, v, t) => FrontOnly(p[t], v[t])
         /\ Delivered(m, q, w, p, v, t) =>
              /\ FrontOnly(p[t], v[t])
              /\ w[t] # <<>> => v[t] # <<>>
              /\ q[t] = <<>> => v[t] # <<>>
              /\ p[t] # <<>>
<1>1. q[t] \in Seq(Message) /\ w[t] \in Seq(Message)
  BY DEF Queues
<1>2. /\ Append(q[t], m) # <<>> /\ Append(w[t], m) # <<>>
      /\ q[t] = <<>> => Head(Append(q[t], m)) = m
      /\ q[t] # <<>> => Head(Append(q[t], m)) = Head(q[t])
      /\ w[t] = <<>> => Append(w[t], m) = <<m>>
  BY <1>1, AppendFacts
<1> QED
  BY <1>2 DEF FrontOnly, Kept, Delivered

(* The sessions that broadcast() visits are alive, accepted and found under
   their own id. *)
LEMMA RegisteredFacts ==
  ASSUME TypeOK, NoDanglingPointer, NEW t \in Registered(sessions_)
  PROVE  /\ t \in Sessions
         /\ life[t] = "alive"
         /\ connection_id[t] \in Ids
         /\ sessions_[connection_id[t]] = t
         /\ connection_id[t] # NoId
BY SharedStateAssumption DEF TypeOK, NoDanglingPointer, Registered

(* The end of a handler: either some operation still owns the session and
   nothing else changes, or its destructor takes it out of the map and tells
   the sessions that are left, all of them alive and other ones. *)
LEMMA ReturnEffect ==
  ASSUME TypeOK, NoDanglingPointer, NEW s \in Sessions,
         NEW q \in Queues, NEW w \in Queues, NEW r, NEW u,
         Return(s, q, r, w, u)
  PROVE  /\ reads' = r /\ setup' = u
         /\ queue_' \in Queues /\ writes' \in Queues
         /\ sessions_' \in [Ids -> Sessions \cup {nullptr}]
         /\ \A id \in Ids : sessions_'[id] # nullptr => sessions_'[id] = sessions_[id]
         /\ Owned(s, r, w, u) => life' = life
         /\ ~Owned(s, r, w, u) =>
              /\ life' = [life EXCEPT ![s] = "destroyed"]
              /\ \A id \in Ids : sessions_'[id] # s
         /\ \A t \in Sessions :
              \/ Kept(q, w, queue_', writes', t)
              \/ /\ t # s /\ life[t] = "alive" /\ connection_id[t] # NoId
                 /\ \E m \in Message : Delivered(m, q, w, queue_', writes', t)
<1>0. reads' = r /\ setup' = u
  BY DEF Return
<1>1. CASE Owned(s, r, w, u)
  <2>1. queue_' = q /\ writes' = w /\ sessions_' = sessions_ /\ life' = life
    BY <1>1 DEF Return
  <2> QED
    BY <1>0, <1>1, <2>1 DEF TypeOK, Kept
<1>2. CASE ~Owned(s, r, w, u) /\ connection_id[s] = NoId
  <2>1. /\ queue_' = q /\ writes' = w /\ sessions_' = sessions_
        /\ life' = [life EXCEPT ![s] = "destroyed"]
    BY <1>2 DEF Return, Destructor, disconnect
  <2>2. \A id \in Ids : sessions_[id] # s
    BY <1>2, SharedStateAssumption DEF NoDanglingPointer
  <2> QED
    BY <1>0, <1>2, <2>1, <2>2 DEF TypeOK, Kept
<1>3. CASE ~Owned(s, r, w, u) /\ connection_id[s] # NoId
  <2> DEFINE id == connection_id[s]
             map == [sessions_ EXCEPT ![id] = nullptr]
             T == Registered(map)
  <2>1. /\ sessions_' = map
        /\ SessionSend(T, Farewell(id), q, w)
        /\ life' = [life EXCEPT ![s] = "destroyed"]
    BY <1>3 DEF Return, Destructor, disconnect, broadcast
  <2>2. id \in Ids /\ Farewell(id) \in Message
    BY <1>3, MessageTypes DEF TypeOK
  <2>3. /\ map \in [Ids -> Sessions \cup {nullptr}]
        /\ \A i \in Ids : map[i] # nullptr => map[i] = sessions_[i] /\ i # id
    BY <2>2 DEF TypeOK
  <2>4. \A i \in Ids : map[i] # s
    BY <2>3, SharedStateAssumption DEF NoDanglingPointer
  <2>5. T \subseteq Registered(sessions_) /\ s \notin T
    BY <2>3, <2>4 DEF Registered
  <2>6. \A t \in T : t \in Sessions /\ life[t] = "alive" /\ connection_id[t] # NoId
    BY <2>5, RegisteredFacts
  <2> HIDE DEF T, map, id
  <2>7. /\ queue_' \in Queues /\ writes' \in Queues
        /\ \A t \in Sessions \ T : Kept(q, w, queue_', writes', t)
        /\ \A t \in T : Delivered(Farewell(id), q, w, queue_', writes', t)
    <3>1. T \in SUBSET Sessions
      BY <2>6
    <3> QED
      BY <2>1, <2>2, <3>1, SendEffect DEF SessionSend
  <2>8. ASSUME NEW t \in Sessions
        PROVE  \/ Kept(q, w, queue_', writes', t)
               \/ /\ t # s /\ life[t] = "alive" /\ connection_id[t] # NoId
                  /\ \E m \in Message : Delivered(m, q, w, queue_', writes', t)
    BY <2>2, <2>5, <2>6, <2>7
  <2> QED
    BY <1>0, <1>3, <2>1, <2>3, <2>4, <2>7, <2>8
<1> QED
  BY <1>1, <1>2, <1>3

-----------------------------------------------------------------------------
(* A handler of s that ends in Return keeps the inductive invariant if what it
   hands to Return and leaves in the stream is in order for s itself and
   touches no other session. *)
Untouched(s, q, r, w, u) ==
  \A t \in Sessions \ {s} :
    /\ q[t] = queue_[t] /\ w[t] = writes[t] /\ r[t] = reads[t] /\ u[t] = setup[t]
    /\ status'[t] = status[t] /\ wire'[t] = wire[t]

InOrder(s, q, r, w, u) ==
  /\ FrontOnly(q[s], w[s])
  /\ r[s] <= 1
  /\ u[s] \subseteq setup[s]
  /\ status'[s] = "open" /\ ~stopped => r[s] = 1 /\ (q[s] # <<>> => w[s] # <<>>)
  /\ connection_id[s] = NoId =>
       r[s] = 0 /\ q[s] = <<>> /\ w[s] = <<>> /\ wire'[s] = <<>> /\ status'[s] # "open"

LEMMA ReturnPreserves ==
  ASSUME IInv, NEW s \in Sessions, life[s] = "alive",
         NEW q \in Queues, NEW w \in Queues, NEW r \in [Sessions -> Nat],
         NEW u \in [Sessions -> SUBSET {"accept", "close", "write401"}],
         Return(s, q, r, w, u),
         Untouched(s, q, r, w, u), InOrder(s, q, r, w, u),
         status' \in [Sessions -> {"closed", "open", "failed", "shutdown"}],
         wire' \in [Sessions -> Seq(Message)],
         UNCHANGED <<connection_id, token, presented, hungup, now, said, stopped>>
  PROVE  IInv'
<1>1. /\ reads' = r /\ setup' = u
      /\ queue_' \in Queues /\ writes' \in Queues
      /\ sessions_' \in [Ids -> Sessions \cup {nullptr}]
      /\ \A id \in Ids : sessions_'[id] # nullptr => sessions_'[id] = sessions_[id]
      /\ Owned(s, r, w, u) => life' = life
      /\ ~Owned(s, r, w, u) =>
           /\ life' = [life EXCEPT ![s] = "destroyed"]
           /\ \A id \in Ids : sessions_'[id] # s
      /\ \A t \in Sessions :
           \/ Kept(q, w, queue_', writes', t)
           \/ /\ t # s /\ life[t] = "alive" /\ connection_id[t] # NoId
              /\ \E m \in Message : Delivered(m, q, w, queue_', writes', t)
  BY ReturnEffect DEF IInv
<1> USE DEF IInv
<1>2. TypeOK'
  BY <1>1 DEF TypeOK, Queues
<1>3. NoDanglingPointer'
  BY <1>1 DEF TypeOK, NoDanglingPointer
<1>4. ASSUME NEW t \in Sessions PROVE FrontOnly(q[t], w[t])
  <2>1. CASE t = s
    BY <2>1 DEF InOrder
  <2>2. CASE t # s
    <3>1. q[t] = queue_[t] /\ w[t] = writes[t]
      BY <2>2 DEF Untouched
    <3>2. FrontOnly(queue_[t], writes[t])
      BY FrontOnlyNow
    <3> QED
      BY <3>1, <3>2
  <2> QED
    BY <2>1, <2>2
<1>5. ASSUME NEW t \in Sessions
      PROVE  /\ FrontOnly(queue_'[t], writes'[t])
             /\ w[t] # <<>> => writes'[t] # <<>>
             /\ \/ Kept(q, w, queue_', writes', t)
                \/ /\ t # s /\ life[t] = "alive" /\ connection_id[t] # NoId
                   /\ q[t] = <<>> => writes'[t] # <<>>
                   /\ queue_'[t] # <<>>
  BY <1>1, <1>4, DeliveryKeeps DEF Kept
<1>6. \A t \in Sessions : life'[t] = IF t = s /\ ~Owned(s, r, w, u) THEN "destroyed" ELSE life[t]
  BY <1>1 DEF TypeOK
<1>7. WriteDiscipline'
  <2> SUFFICES ASSUME NEW t \in Sessions
               PROVE  /\ FrontOnly(queue_'[t], writes'[t])
                      /\ life'[t] = "alive" /\ status'[t] = "open" /\ ~stopped' /\ queue_'[t] # <<>>
                           => writes'[t] # <<>>
    BY DEF WriteDiscipline, FrontOnly
  <2>1. life'[t] = "alive" => life[t] = "alive"
    BY <1>6
  <2> QED
    BY <1>5, <2>1 DEF WriteDiscipline, Untouched, InOrder, Kept
<1>8. OwnedWhileAlive'
  <2> SUFFICES ASSUME NEW t \in Sessions
               PROVE  /\ life'[t] = "alive" <=> Owned(t, reads', writes', setup')
                      /\ reads'[t] <= 1
                      /\ life'[t] = "alive" /\ status'[t] = "open" /\ ~stopped' => reads'[t] = 1
    BY DEF OwnedWhileAlive
  <2>1. CASE t = s
    BY <1>1, <1>5, <1>6, <2>1 DEF Owned, Kept, InOrder
  <2>2. CASE t # s
    <3>1. /\ life'[t] = life[t] /\ reads'[t] = reads[t] /\ setup'[t] = setup[t]
          /\ status'[t] = status[t] /\ w[t] = writes[t]
      BY <1>1, <1>6, <2>2 DEF Untouched
    <3>2. /\ life[t] = "alive" <=> Owned(t, reads, writes, setup)
          /\ reads[t] <= 1
          /\ life[t] = "alive" /\ status[t] = "open" /\ ~stopped => reads[t] = 1
      BY DEF OwnedWhileAlive
    <3>3. writes'[t] = writes[t] \/ (life[t] = "alive" /\ (writes[t] # <<>> => writes'[t] # <<>>))
      BY <1>5, <3>1 DEF Kept
    <3> QED
      BY <3>1, <3>2, <3>3 DEF Owned
  <2> QED
    BY <2>1, <2>2
<1>9. PhasesApart'
  <2> SUFFICES ASSUME NEW t \in Sessions
               PROVE  /\ life'[t] = "unborn" => setup'[t] = {} /\ connection_id'[t] = NoId
                      /\ setup'[t] # {} => connection_id'[t] = NoId
                      /\ "accept" \in setup'[t] => setup'[t] = {"accept"}
                      /\ connection_id'[t] = NoId =>
                           /\ reads'[t] = 0
                           /\ queue_'[t] = <<>> /\ writes'[t] = <<>> /\ wire'[t] = <<>>
                           /\ status'[t] # "open"
    BY DEF PhasesApart
  <2>1. life'[t] = "unborn" => life[t] = "unborn" /\ t # s
    BY <1>6
  <2>2. connection_id[t] = NoId => Kept(q, w, queue_', writes', t)
    BY <1>5
  <2>3. CASE t = s
    <3>1. /\ setup'[s] \subseteq setup[s]
          /\ setup[s] # {} => connection_id[s] = NoId
          /\ "accept" \in setup[s] => setup[s] = {"accept"}
      BY <1>1 DEF PhasesApart, InOrder
    <3>2. setup'[s] # {} => connection_id[s] = NoId
      BY <3>1
    <3>3. "accept" \in setup'[s] => setup'[s] = {"accept"}
      BY <3>1
    <3>4. connection_id[s] = NoId =>
            /\ reads'[s] = 0
            /\ queue_'[s] = <<>> /\ writes'[s] = <<>> /\ wire'[s] = <<>>
            /\ status'[s] # "open"
      BY <1>1, <2>2, <2>3 DEF InOrder, Kept
    <3> QED
      BY <2>1, <2>3, <3>2, <3>3, <3>4
  <2>4. CASE t # s
    <3>1. /\ q[t] = queue_[t] /\ w[t] = writes[t] /\ reads'[t] = reads[t]
          /\ setup'[t] = setup[t] /\ status'[t] = status[t] /\ wire'[t] = wire[t]
      BY <1>1, <2>4 DEF Untouched
    <3>2. connection_id[t] = NoId => queue_'[t] = q[t] /\ writes'[t] = w[t]
      BY <2>2 DEF Kept
    <3> QED
      BY <2>1, <3>1, <3>2 DEF PhasesApart
  <2> QED
    BY <2>3, <2>4
<1> QED
  BY <1>2, <1>3, <1>7, <1>8, <1>9

-----------------------------------------------------------------------------
(* The handlers that end in Return. *)

(* A session with an operation outstanding is alive. *)
LEMMA OwnerAlive ==
  ASSUME IInv, NEW s \in Sessions, Owned(s, reads, writes, setup)
  PROVE  life[s] = "alive"
BY DEF IInv, OwnedWhileAlive

(* The parts of the invariant that say what a session may have outstanding. *)
LEMMA SessionFacts ==
  ASSUME IInv, NEW s \in Sessions
  PROVE  /\ queue_ \in Queues /\ writes \in Queues
         /\ reads \in [Sessions -> Nat]
         /\ setup \in [Sessions -> SUBSET {"accept", "close", "write401"}]
         /\ status \in [Sessions -> {"closed", "open", "failed", "shutdown"}]
         /\ wire \in [Sessions -> Seq(Message)]
         /\ FrontOnly(queue_[s], writes[s])
         /\ reads[s] <= 1
         /\ writes[s] # <<>> => queue_[s] # <<>> /\ Tail(writes[s]) = <<>>
         /\ life[s] = "alive" /\ status[s] = "open" /\ ~stopped =>
              reads[s] = 1 /\ (queue_[s] # <<>> => writes[s] # <<>>)
         /\ connection_id[s] = NoId =>
              /\ reads[s] = 0 /\ queue_[s] = <<>> /\ writes[s] = <<>>
              /\ wire[s] = <<>> /\ status[s] # "open"
<1>1. FrontOnly(queue_[s], writes[s])
  BY FrontOnlyNow DEF IInv
<1>2. writes[s] # <<>> => queue_[s] # <<>> /\ Tail(writes[s]) = <<>>
  <2> SUFFICES ASSUME writes[s] # <<>> PROVE queue_[s] # <<>> /\ Tail(writes[s]) = <<>>
    OBVIOUS
  <2>1. queue_[s] # <<>> /\ writes[s] = <<Head(queue_[s])>>
    BY <1>1 DEF FrontOnly
  <2>2. Head(queue_[s]) \in Message
    BY <2>1, HeadTailProperties DEF IInv, TypeOK
  <2>3. Tail(<<>> \o <<Head(queue_[s])>>) = <<>>
    BY <2>2, HeadTailAppend, AppendIsConcat, EmptySeq
  <2>4. <<>> \o <<Head(queue_[s])>> = <<Head(queue_[s])>>
    BY <2>2, ConcatEmptySeq, <<Head(queue_[s])>> \in Seq(Message)
  <2> QED
    BY <2>1, <2>3, <2>4
<1> QED
  BY <1>1, <1>2 DEF IInv, TypeOK, WriteDiscipline, OwnedWhileAlive, PhasesApart, Queues

(* Handlers that fail, only report, or finish the refusal: no queue changes. *)
LEMMA OnAcceptErrorStep ==
  ASSUME IInv, NEW s \in Sessions, OnAcceptError(s) PROVE IInv'
<1> DEFINE u == [setup EXCEPT ![s] = @ \ {"accept"}]
<1>1. Return(s, queue_, reads, writes, u) /\ status' = [status EXCEPT ![s] = "failed"]
      /\ UNCHANGED <<connection_id, token, presented, wire, hungup, now, said, stopped>>
  BY DEF OnAcceptError
<1>2. life[s] = "alive"
  BY OwnerAlive DEF OnAcceptError, Owned
<1>3. u \in [Sessions -> SUBSET {"accept", "close", "write401"}]
  BY SessionFacts
<1>4. Untouched(s, queue_, reads, writes, u) /\ InOrder(s, queue_, reads, writes, u)
  BY <1>1, SessionFacts DEF Untouched, InOrder
<1> HIDE DEF u
<1> QED
  BY <1>1, <1>2, <1>3, <1>4, SessionFacts, ReturnPreserves

LEMMA OnCloseStep ==
  ASSUME IInv, NEW s \in Sessions, OnClose(s) PROVE IInv'
<1> DEFINE u == [setup EXCEPT ![s] = @ \ {"close"}]
<1>1. Return(s, queue_, reads, writes, u) /\ status' = status
      /\ UNCHANGED <<connection_id, token, presented, wire, hungup, now, said, stopped>>
  BY DEF OnClose
<1>2. life[s] = "alive"
  BY OwnerAlive DEF OnClose, Owned
<1>3. u \in [Sessions -> SUBSET {"accept", "close", "write401"}]
  BY SessionFacts
<1>4. Untouched(s, queue_, reads, writes, u) /\ InOrder(s, queue_, reads, writes, u)
  BY <1>1, <1>2, SessionFacts DEF Untouched, InOrder
<1> HIDE DEF u
<1> QED
  BY <1>1, <1>2, <1>3, <1>4, SessionFacts, ReturnPreserves

LEMMA OnWrite401Step ==
  ASSUME IInv, NEW s \in Sessions, OnWrite401(s) PROVE IInv'
<1> DEFINE u == [setup EXCEPT ![s] = @ \ {"write401"}]
<1>1. /\ Return(s, queue_, reads, writes, u)
      /\ status' \in {[status EXCEPT ![s] = "shutdown"], [status EXCEPT ![s] = "failed"]}
      /\ UNCHANGED <<connection_id, token, presented, wire, hungup, now, said, stopped>>
  BY DEF OnWrite401
<1>2. life[s] = "alive"
  BY OwnerAlive DEF OnWrite401, Owned
<1>3. u \in [Sessions -> SUBSET {"accept", "close", "write401"}]
  BY SessionFacts
<1>4. Untouched(s, queue_, reads, writes, u) /\ InOrder(s, queue_, reads, writes, u)
  BY <1>1, SessionFacts DEF Untouched, InOrder
<1>5. status' \in [Sessions -> {"closed", "open", "failed", "shutdown"}]
  BY <1>1, SessionFacts
<1> HIDE DEF u
<1> QED
  BY <1>1, <1>2, <1>3, <1>4, <1>5, SessionFacts, ReturnPreserves

LEMMA OnReadErrorStep ==
  ASSUME IInv, NEW s \in Sessions, OnReadError(s) PROVE IInv'
<1> DEFINE r == [reads EXCEPT ![s] = @ - 1]
<1>1. Return(s, queue_, r, writes, setup) /\ status' = [status EXCEPT ![s] = "failed"]
      /\ UNCHANGED <<connection_id, token, presented, wire, hungup, now, said, stopped>>
  BY DEF OnReadError
<1>2. life[s] = "alive" /\ reads[s] > 0
  BY OwnerAlive DEF OnReadError, Owned
<1>3. r \in [Sessions -> Nat]
  BY <1>2, SessionFacts
<1>4. Untouched(s, queue_, r, writes, setup) /\ InOrder(s, queue_, r, writes, setup)
  BY <1>1, <1>2, SessionFacts DEF Untouched, InOrder
<1> HIDE DEF r
<1> QED
  BY <1>1, <1>2, <1>3, <1>4, SessionFacts, ReturnPreserves

(* The write handlers.  A failed write leaves its message in the queue, where
   it keeps send() from starting another one. *)
LEMMA OnWriteErrorStep ==
  ASSUME IInv, NEW s \in Sessions, OnWriteError(s) PROVE IInv'
<1> DEFINE w == [writes EXCEPT ![s] = Tail(@)]
<1>1. Return(s, queue_, reads, w, setup) /\ status' = [status EXCEPT ![s] = "failed"]
      /\ UNCHANGED <<connection_id, token, presented, wire, hungup, now, said, stopped>>
  BY DEF OnWriteError
<1>2. life[s] = "alive" /\ writes[s] # <<>>
  BY OwnerAlive DEF OnWriteError, Owned
<1>3. w = [writes EXCEPT ![s] = <<>>]
  BY <1>2, SessionFacts
<1>4. w \in Queues
  <2>1. <<>> \in Seq(Message)
    BY EmptySeq
  <2> HIDE DEF w
  <2> QED
    BY <1>3, <2>1, SessionFacts DEF Queues
<1>5. Untouched(s, queue_, reads, w, setup) /\ InOrder(s, queue_, reads, w, setup)
  BY <1>1, <1>2, <1>3, SessionFacts DEF Untouched, InOrder, FrontOnly, Queues
<1> HIDE DEF w
<1> QED
  BY <1>1, <1>2, <1>4, <1>5, SessionFacts, ReturnPreserves

LEMMA OnWriteStep ==
  ASSUME IInv, NEW s \in Sessions, OnWrite(s) PROVE IInv'
<1> DEFINE rest == Tail(queue_[s])
           next == IF rest # <<>> THEN <<Head(rest)>> ELSE <<>>
           q == [queue_ EXCEPT ![s] = rest]
           w == [writes EXCEPT ![s] = Tail(@) \o next]
<1>1. /\ Return(s, q, reads, w, setup)
      /\ wire' = [wire EXCEPT ![s] = Append(@, Head(writes[s]))]
      /\ UNCHANGED <<connection_id, status, token, presented, hungup, now, said, stopped>>
  BY DEF OnWrite
<1>2. life[s] = "alive" /\ writes[s] # <<>> /\ ~stopped
  BY OwnerAlive DEF OnWrite, Owned
<1>3. rest \in Seq(Message)
  BY <1>2, SessionFacts, HeadTailProperties DEF Queues
<1>4. next \in Seq(Message)
  <2>1. CASE rest # <<>>
    BY <2>1, <1>3, HeadTailProperties, <<Head(rest)>> \in Seq(Message)
  <2>2. CASE rest = <<>>
    BY <2>2, EmptySeq
  <2> QED
    BY <2>1, <2>2
<1>5. w = [writes EXCEPT ![s] = next]
  <2>1. Tail(writes[s]) = <<>> /\ <<>> \o next = next
    BY <1>2, <1>4, SessionFacts, ConcatEmptySeq
  <2> QED
    BY <2>1
<1>6. FrontOnly(rest, next) /\ (rest # <<>> => next # <<>>)
  BY DEF FrontOnly
<1>7. wire' \in [Sessions -> Seq(Message)]
  <2>1. Head(writes[s]) \in Message
    BY <1>2, SessionFacts, HeadTailProperties DEF Queues
  <2>2. Append(wire[s], Head(writes[s])) \in Seq(Message)
    BY <2>1, SessionFacts, AppendProperties
  <2> QED
    BY <1>1, <2>2, SessionFacts
<1> HIDE DEF rest, next
<1>8. q \in Queues /\ w \in Queues /\ q[s] = rest /\ w[s] = next
  BY <1>3, <1>4, <1>5, SessionFacts DEF Queues
<1>9. Untouched(s, q, reads, w, setup)
  BY <1>1, <1>5, SessionFacts DEF Untouched, Queues
<1>10. InOrder(s, q, reads, w, setup)
  BY <1>1, <1>2, <1>6, <1>8, SessionFacts DEF InOrder
<1> HIDE DEF q, w
<1> QED
  BY <1>1, <1>2, <1>7, <1>8, <1>9, <1>10, SessionFacts, ReturnPreserves

(* The same for a handler that is destroyed instead of run. *)
LEMMA DestroyHandlerStep ==
  ASSUME IInv, NEW s \in Sessions, DestroyHandler(s) PROVE IInv'
<1>1. /\ stopped
      /\ UNCHANGED <<connection_id, status, token, presented, wire, hungup, now, said, stopped>>
  BY DEF DestroyHandler
<1>2. life[s] = "alive"
  BY OwnerAlive DEF DestroyHandler, Owned
<1>3. CASE reads[s] > 0 /\ Return(s, queue_, [reads EXCEPT ![s] = @ - 1], writes, setup)
  <2> DEFINE r == [reads EXCEPT ![s] = @ - 1]
  <2>1. r \in [Sessions -> Nat]
    BY <1>3, SessionFacts
  <2>2. Untouched(s, queue_, r, writes, setup) /\ InOrder(s, queue_, r, writes, setup)
    BY <1>1, <1>3, SessionFacts DEF Untouched, InOrder
  <2>3. Return(s, queue_, r, writes, setup)
    BY <1>3
  <2> HIDE DEF r
  <2> QED
    BY <1>1, <1>2, <2>1, <2>2, <2>3, SessionFacts, ReturnPreserves
<1>4. CASE writes[s] # <<>> /\ Return(s, queue_, reads, [writes EXCEPT ![s] = Tail(@)], setup)
  <2> DEFINE w == [writes EXCEPT ![s] = Tail(@)]
  <2>0. Return(s, queue_, reads, w, setup)
    BY <1>4
  <2>1. w = [writes EXCEPT ![s] = <<>>]
    BY <1>4, SessionFacts
  <2>2. w \in Queues
    <3>1. <<>> \in Seq(Message)
      BY EmptySeq
    <3> HIDE DEF w
    <3> QED
      BY <2>1, <3>1, SessionFacts DEF Queues
  <2>3. Untouched(s, queue_, reads, w, setup) /\ InOrder(s, queue_, reads, w, setup)
    BY <1>1, <1>4, <2>1, SessionFacts DEF Untouched, InOrder, FrontOnly, Queues
  <2> HIDE DEF w
  <2> QED
    BY <1>1, <1>2, <2>0, <2>2, <2>3, SessionFacts, ReturnPreserves
<1>5. CASE \E op \in setup[s] :
             Return(s, queue_, reads, writes, [setup EXCEPT ![s] = @ \ {op}])
  <2>1. PICK op \in setup[s] :
               Return(s, queue_, reads, writes, [setup EXCEPT ![s] = @ \ {op}])
    BY <1>5
  <2> DEFINE u == [setup EXCEPT ![s] = @ \ {op}]
  <2>2. u \in [Sessions -> SUBSET {"accept", "close", "write401"}]
    BY SessionFacts
  <2>3. Untouched(s, queue_, reads, writes, u) /\ InOrder(s, queue_, reads, writes, u)
    BY <1>1, SessionFacts DEF Untouched, InOrder
  <2>4. Return(s, queue_, reads, writes, u)
    BY <2>1
  <2> HIDE DEF u
  <2> QED
    BY <1>1, <1>2, <2>2, <2>3, <2>4, SessionFacts, ReturnPreserves
<1> QED
  BY <1>3, <1>4, <1>5 DEF DestroyHandler

-----------------------------------------------------------------------------
(* The handlers that keep the session going, and the environment. *)

LEMMA UpgradeStep ==
  ASSUME IInv, NEW s \in Sessions, Upgrade(s) PROVE IInv'
<1>1. PICK tok \in TokenNames : token' = [token EXCEPT ![s] = tok] /\ run(s, tok)
  BY DEF Upgrade
<1>2. /\ life[s] = "unborn" /\ life' = [life EXCEPT ![s] = "alive"]
      /\ presented' = [presented EXCEPT ![s] = now]
      /\ UNCHANGED <<sessions_, queue_, writes, connection_id, reads, status, wire,
                     hungup, now, said, stopped>>
  BY DEF Upgrade
<1>3. PICK ops \in {{"accept"}, close_with_401} : setup' = [setup EXCEPT ![s] = ops]
  BY <1>1 DEF run
<1>4. /\ ops \in SUBSET {"accept", "close", "write401"} /\ ops # {}
      /\ "accept" \in ops => ops = {"accept"}
  BY DEF close_with_401
<1>5. connection_id[s] = NoId /\ reads[s] = 0 /\ writes[s] = <<>> /\ status[s] # "open"
  BY <1>2 DEF IInv, PhasesApart
<1>6. TypeOK'
  BY <1>1, <1>2, <1>3, <1>4 DEF IInv, TypeOK
<1>7. NoDanglingPointer'
  BY <1>2 DEF IInv, TypeOK, NoDanglingPointer
<1>8. WriteDiscipline'
  BY <1>2, <1>5 DEF IInv, TypeOK, WriteDiscipline
<1>9. OwnedWhileAlive'
  BY <1>2, <1>3, <1>4, <1>5 DEF IInv, TypeOK, OwnedWhileAlive, Owned
<1>10. PhasesApart'
  BY <1>2, <1>3, <1>4, <1>5 DEF IInv, TypeOK, PhasesApart
<1> QED
  BY <1>6, <1>7, <1>8, <1>9, <1>10 DEF IInv

LEMMA OnAcceptStep ==
  ASSUME IInv, NEW s \in Sessions, OnAccept(s) PROVE IInv'
<1> DEFINE id == generate_random_string
           m == Greeting(id)
<1>1. /\ ~stopped /\ "accept" \in setup[s]
      /\ status' = [status EXCEPT ![s] = "open"]
      /\ connection_id' = [connection_id EXCEPT ![s] = id]
      /\ reads' = [reads EXCEPT ![s] = @ + 1]
      /\ setup' = [setup EXCEPT ![s] = @ \ {"accept"}]
      /\ UNCHANGED <<life, token, presented, wire, hungup, now, said, stopped>>
  BY DEF OnAccept
<1>2. id \in Ids /\ id # NoId
  BY SessionAssumption, SharedStateAssumption DEF generate_random_string, IInv, TypeOK
<1>3. /\ sessions_' = [sessions_ EXCEPT ![id] = s]
      /\ SessionSend({s}, m, queue_, writes)
  <2>1. sessions_ \in [Ids -> Sessions \cup {nullptr}] /\ s # nullptr
    BY SharedStateAssumption DEF IInv, TypeOK
  <2>2. {get([sessions_ EXCEPT ![id] = s], id)} \ {nullptr} = {s}
    BY <1>2, <2>1 DEF get
  <2> QED
    BY <2>2 DEF OnAccept, connect, SendTo
<1>4. /\ connection_id[s] = NoId /\ setup[s] = {"accept"} /\ life[s] = "alive"
      /\ reads[s] = 0 /\ queue_[s] = <<>> /\ writes[s] = <<>>
  BY <1>1 DEF IInv, PhasesApart, OwnedWhileAlive, Owned
<1>5. m \in Message
  BY <1>2, MessageTypes
<1> HIDE DEF id, m
<1>6. /\ queue_' \in Queues /\ writes' \in Queues
      /\ \A t \in Sessions \ {s} : Kept(queue_, writes, queue_', writes', t)
      /\ Delivered(m, queue_, writes, queue_', writes', s)
  BY <1>3, <1>5, SessionFacts, SendEffect DEF SessionSend
<1>7. FrontOnly(queue_'[s], writes'[s]) /\ writes'[s] # <<>> /\ queue_'[s] # <<>>
  BY <1>4, <1>5, <1>6, SessionFacts, DeliveryKeeps
<1>8. TypeOK'
  <2>1. TypeOK
    BY DEF IInv
  <2>2. sessions_' \in [Ids -> Sessions \cup {nullptr}]
    BY <1>3, <2>1 DEF TypeOK
  <2>3. connection_id' \in [Sessions -> Ids \cup {NoId}]
    BY <1>1, <1>2, <2>1 DEF TypeOK
  <2>4. /\ reads' \in [Sessions -> Nat]
        /\ setup' \in [Sessions -> SUBSET {"accept", "close", "write401"}]
        /\ status' \in [Sessions -> {"closed", "open", "failed", "shutdown"}]
    BY <1>1, <2>1 DEF TypeOK
  <2> QED
    BY <1>1, <1>6, <2>1, <2>2, <2>3, <2>4 DEF TypeOK, Queues
<1>9. NoDanglingPointer'
  <2>1. ASSUME NEW i \in Ids, sessions_'[i] # nullptr
        PROVE  life'[sessions_'[i]] = "alive" /\ connection_id'[sessions_'[i]] = i
    <3>1. CASE i = id
      BY <1>1, <1>3, <1>4, <3>1 DEF IInv, TypeOK
    <3>2. CASE i # id
      <4>1. sessions_'[i] = sessions_[i] /\ sessions_[i] \in Sessions
        BY <1>3, <2>1, <3>2 DEF IInv, TypeOK
      <4>2. life[sessions_[i]] = "alive" /\ connection_id[sessions_[i]] = i /\ i # NoId
        BY <2>1, <4>1, SharedStateAssumption DEF IInv, NoDanglingPointer
      <4> QED
        BY <1>1, <1>4, <4>1, <4>2 DEF IInv, TypeOK
    <3> QED
      BY <3>1, <3>2
  <2> QED
    BY <2>1 DEF NoDanglingPointer
<1>10. WriteDiscipline'
  BY <1>1, <1>6, <1>7 DEF IInv, TypeOK, WriteDiscipline, Kept, FrontOnly
<1>11. OwnedWhileAlive'
  BY <1>1, <1>4, <1>6 DEF IInv, TypeOK, OwnedWhileAlive, Owned, Kept
<1>12. PhasesApart'
  BY <1>1, <1>2, <1>4, <1>6 DEF IInv, TypeOK, PhasesApart, Kept
<1> QED
  BY <1>8, <1>9, <1>10, <1>11, <1>12 DEF IInv

LEMMA OnReadStep ==
  ASSUME IInv, NEW s \in Sessions, OnRead(s) PROVE IInv'
<1> DEFINE m == Chat(said + 1)
           T == Registered(sessions_)
<1>1. /\ said < MaxChat /\ said' = said + 1
      /\ SessionSend(T, m, queue_, writes)
      /\ sessions_' = sessions_ /\ life' = life /\ connection_id' = connection_id
      /\ reads' = reads /\ setup' = setup /\ status' = status /\ token' = token /\ presented' = presented
      /\ wire' = wire /\ hungup' = hungup /\ now' = now /\ stopped' = stopped
  BY DEF OnRead, broadcast, sessionVars
<1>2. said' \in 0..MaxChat /\ m \in Message
  BY <1>1, SessionAssumption, MessageTypes DEF IInv, TypeOK
<1>3. /\ T \subseteq Sessions
      /\ \A t \in T : life[t] = "alive" /\ connection_id[t] # NoId
  BY RegisteredFacts DEF IInv
<1> HIDE DEF m, T
<1>4. /\ queue_' \in Queues /\ writes' \in Queues
      /\ \A t \in Sessions \ T : Kept(queue_, writes, queue_', writes', t)
      /\ \A t \in T : Delivered(m, queue_, writes, queue_', writes', t)
  BY <1>1, <1>2, <1>3, SessionFacts, SendEffect DEF SessionSend
<1>5. ASSUME NEW t \in Sessions
      PROVE  /\ FrontOnly(queue_'[t], writes'[t])
             /\ \/ queue_'[t] = queue_[t] /\ writes'[t] = writes[t]
                \/ /\ life[t] = "alive" /\ connection_id[t] # NoId
                   /\ writes[t] # <<>> \/ queue_[t] = <<>> => writes'[t] # <<>>
  <2>1. FrontOnly(queue_[t], writes[t])
    BY FrontOnlyNow DEF IInv
  <2>2. CASE t \in T
    BY <1>2, <1>3, <1>4, <2>1, <2>2, SessionFacts, DeliveryKeeps
  <2>3. CASE t \notin T
    BY <1>4, <2>1, <2>3 DEF Kept
  <2> QED
    BY <2>2, <2>3
<1>6. TypeOK'
  BY <1>1, <1>2, <1>4 DEF IInv, TypeOK, Queues
<1>7. NoDanglingPointer'
  BY <1>1 DEF IInv, NoDanglingPointer
<1>8. WriteDiscipline'
  BY <1>1, <1>5 DEF IInv, WriteDiscipline, FrontOnly
<1>9. OwnedWhileAlive'
  BY <1>1, <1>5 DEF IInv, OwnedWhileAlive, Owned
<1>10. PhasesApart'
  BY <1>1, <1>5 DEF IInv, PhasesApart
<1> QED
  BY <1>6, <1>7, <1>8, <1>9, <1>10 DEF IInv

(* Stopping, hanging up, the clock and idling do not touch what the invariant
   is about; stopping only weakens it. *)
LEMMA EnvironmentStep ==
  ASSUME IInv,
         Stop \/ Tick \/ Exited \/ UNCHANGED vars \/ (\E s \in Sessions : Hangup(s))
  PROVE  IInv'
<1>1. /\ UNCHANGED <<sessions_, queue_, writes, life, connection_id, reads, setup,
                     status, token, presented, wire, said>>
      /\ hungup' \in [Sessions -> BOOLEAN]
      /\ now' \in 0..MaxTime
      /\ stopped' \in BOOLEAN /\ (stopped => stopped')
  <2>0. hungup \in [Sessions -> BOOLEAN] /\ now \in 0..MaxTime /\ stopped \in BOOLEAN
    BY DEF IInv, TypeOK
  <2>1. CASE Stop
    BY <2>0, <2>1 DEF Stop, sessionVars
  <2>2. CASE Tick
    BY <2>0, <2>2, SessionAssumption DEF Tick, sessionVars
  <2>3. CASE Exited \/ UNCHANGED vars
    BY <2>0, <2>3 DEF Exited, vars, sessionVars
  <2>4. CASE \E s \in Sessions : Hangup(s)
    BY <2>0, <2>4 DEF Hangup
  <2> QED
    BY <2>1, <2>2, <2>3, <2>4
<1>2. TypeOK' /\ NoDanglingPointer' /\ PhasesApart'
  BY <1>1 DEF IInv, TypeOK, NoDanglingPointer, PhasesApart
<1>3. WriteDiscipline' /\ OwnedWhileAlive'
  BY <1>1 DEF IInv, WriteDiscipline, OwnedWhileAlive, Owned
<1> QED
  BY <1>2, <1>3 DEF IInv

-----------------------------------------------------------------------------
LEMMA InitIInv == Init => IInv
<1> SUFFICES ASSUME Init PROVE IInv
  OBVIOUS
<1>1. <<>> \in Seq(Message)
  BY EmptySeq
<1>2. 0 \in 0..MaxTime /\ 0 \in 0..MaxChat
  BY SessionAssumption
<1>3. TypeOK
  BY <1>1, <1>2 DEF Init, TypeOK
<1>4. NoDanglingPointer /\ WriteDiscipline /\ OwnedWhileAlive /\ PhasesApart
  BY DEF Init, NoDanglingPointer, WriteDiscipline, OwnedWhileAlive, Owned, PhasesApart
<1> QED
  BY <1>3, <1>4 DEF IInv

LEMMA NextIInv == IInv /\ [Next]_vars => IInv'
<1> SUFFICES ASSUME IInv, [Next]_vars PROVE IInv'
  OBVIOUS
<1>1. ASSUME NEW s \in Sessions, Upgrade(s) PROVE IInv'
  BY <1>1, UpgradeStep
<1>2. ASSUME NEW s \in Sessions, Handler(s) PROVE IInv'
  BY <1>2, OnAcceptStep, OnAcceptErrorStep, OnReadStep, OnReadErrorStep, OnWriteStep,
     OnWriteErrorStep, OnCloseStep, OnWrite401Step DEF Handler
<1>3. ASSUME NEW s \in Sessions, DestroyHandler(s) PROVE IInv'
  BY <1>3, DestroyHandlerStep
<1>4. CASE Stop \/ Tick \/ Exited \/ UNCHANGED vars \/ (\E s \in Sessions : Hangup(s))
  BY <1>4, EnvironmentStep
<1> QED
  BY <1>1, <1>2, <1>3, <1>4 DEF Next

(* The inductive invariant holds throughout every behaviour. *)
THEOREM Invariance == Spec => []IInv
<1> QED
  BY InitIInv, NextIInv, PTL DEF Spec

(* Every variable keeps its type. *)
THEOREM TypeCorrect == Spec => []TypeOK
<1>1. IInv => TypeOK
  BY DEF IInv
<1> QED
  BY <1>1, Invariance, PTL

(* The handshake, the refusal and the chat of a session never overlap. *)
THEOREM PhasesSeparate == Spec => []PhasesApart
<1>1. IInv => PhasesApart
  BY DEF IInv
<1> QED
  BY <1>1, Invariance, PTL

(* However ids collide and in whatever order sessions die, the raw pointers
   in sessions_ only ever point to sessions that have not been destroyed. *)
THEOREM PointersValid == Spec => []NoDanglingPointer
<1>1. IInv => NoDanglingPointer
  BY DEF IInv
<1> QED
  BY <1>1, Invariance, PTL

(* No stream ever has two writes outstanding, and the buffer being written is
   the front of the queue that owns it. *)
THEOREM OneWritePerStream == Spec => []WriteDiscipline
<1>1. IInv => WriteDiscipline
  BY DEF IInv
<1> QED
  BY <1>1, Invariance, PTL

(* A session lives exactly as long as an operation owns it, and a session
   whose stream works always has its read going. *)
THEOREM LifetimeIsOwnership == Spec => []OwnedWhileAlive
<1>1. IInv => OwnedWhileAlive
  BY DEF IInv
<1> QED
  BY <1>1, Invariance, PTL

-----------------------------------------------------------------------------
(* Who may join. *)

(* A session enters the handshake, or gets its id, in a step of its own. *)
LEMMA JoinSteps ==
  ASSUME IInv, [Next]_vars, NEW t \in Sessions, ~Upgrade(t)
  PROVE  /\ token'[t] = token[t] /\ presented'[t] = presented[t]
         /\ connection_id'[t] # NoId \/ "accept" \in setup'[t] =>
              connection_id[t] # NoId \/ "accept" \in setup[t]
         /\ now <= now' /\ now' \in Nat /\ now \in Nat
<1> USE SessionAssumption DEF IInv, TypeOK
<1>1. ASSUME NEW s \in Sessions, Upgrade(s)
      PROVE  /\ token'[t] = token[t] /\ presented'[t] = presented[t] /\ setup'[t] = setup[t]
             /\ connection_id' = connection_id /\ now' = now
  BY <1>1 DEF Upgrade, run
<1>2. ASSUME NEW s \in Sessions, OnAccept(s)
      PROVE  /\ token' = token /\ presented' = presented /\ now' = now
             /\ t # s => setup'[t] = setup[t] /\ connection_id'[t] = connection_id[t]
             /\ "accept" \in setup[s]
  BY <1>2 DEF OnAccept
<1>3. ASSUME NEW s \in Sessions, \E op : setup' = [setup EXCEPT ![s] = @ \ {op}]
      PROVE  setup'[t] \subseteq setup[t]
  BY <1>3
<1>4. ASSUME NEW s \in Sessions, Handler(s), ~OnAccept(s)
      PROVE  /\ token'[t] = token[t] /\ presented'[t] = presented[t] /\ setup'[t] \subseteq setup[t]
             /\ connection_id' = connection_id /\ now' = now
  <2>1. CASE OnRead(s)
    BY <2>1 DEF OnRead, sessionVars
  <2>2. CASE OnReadError(s) \/ OnWrite(s) \/ OnWriteError(s)
    BY <2>2 DEF OnReadError, OnWrite, OnWriteError, Return
  <2>3. CASE OnAcceptError(s) \/ OnClose(s) \/ OnWrite401(s)
    <3>1. /\ token' = token /\ presented' = presented /\ connection_id' = connection_id /\ now' = now
          /\ \E op : setup' = [setup EXCEPT ![s] = @ \ {op}]
      BY <2>3 DEF OnAcceptError, OnClose, OnWrite401, Return
    <3> QED
      BY <3>1, <1>3
  <2> QED
    BY <1>4, <2>1, <2>2, <2>3 DEF Handler
<1>5. ASSUME NEW s \in Sessions, DestroyHandler(s)
      PROVE  /\ token'[t] = token[t] /\ presented'[t] = presented[t] /\ setup'[t] \subseteq setup[t]
             /\ connection_id' = connection_id /\ now' = now
  <2>1. /\ token' = token /\ presented' = presented /\ connection_id' = connection_id /\ now' = now
        /\ setup' = setup \/ (\E op : setup' = [setup EXCEPT ![s] = @ \ {op}])
    BY <1>5 DEF DestroyHandler, Return
  <2> QED
    BY <2>1, <1>3
<1>6. ASSUME Stop \/ Tick \/ Exited \/ UNCHANGED vars \/ (\E s \in Sessions : Hangup(s))
      PROVE  /\ token' = token /\ presented' = presented /\ setup' = setup /\ connection_id' = connection_id
             /\ now' \in {now, now + 1}
  BY <1>6 DEF Stop, Tick, Exited, Hangup, vars, sessionVars
<1>7. now \in Nat /\ now <= now /\ now <= now + 1 /\ now + 1 \in Nat
  OBVIOUS
<1> QED
  BY <1>1, <1>2, <1>4, <1>5, <1>6, <1>7 DEF Next

LEMMA InitVerified == Init => OnlyVerifiedJoin
BY DEF Init, OnlyVerifiedJoin

LEMMA NextVerified == IInv /\ OnlyVerifiedJoin /\ [Next]_vars => OnlyVerifiedJoin'
<1> SUFFICES ASSUME IInv, OnlyVerifiedJoin, [Next]_vars, NEW s \in Sessions,
                    connection_id'[s] # NoId \/ "accept" \in setup'[s]
             PROVE  presented'[s] \in 0..now' /\ Accepts(TokenOf[token'[s]], presented'[s])
  BY DEF OnlyVerifiedJoin
<1>1. CASE Upgrade(s)
  <2>1. PICK tok \in TokenNames : token' = [token EXCEPT ![s] = tok] /\ run(s, tok)
    BY <1>1 DEF Upgrade
  <2>2. /\ life[s] = "unborn" /\ connection_id' = connection_id /\ now' = now
        /\ presented' = [presented EXCEPT ![s] = now]
    BY <1>1 DEF Upgrade
  <2>3. "accept" \in setup'[s] /\ token'[s] = tok /\ presented'[s] = now /\ now \in 0..now'
    BY <2>1, <2>2, SessionAssumption DEF IInv, TypeOK, PhasesApart
  <2>4. Accepts(TokenOf[tok], now)
    BY <2>1, <2>3 DEF run, close_with_401, IInv, TypeOK
  <2> QED
    BY <2>3, <2>4
<1>2. CASE ~Upgrade(s)
  <2>1. /\ token'[s] = token[s] /\ presented'[s] = presented[s]
        /\ now <= now' /\ now' \in Nat /\ now \in Nat
        /\ connection_id[s] # NoId \/ "accept" \in setup[s]
    BY <1>2, JoinSteps
  <2>2. presented[s] \in 0..now /\ Accepts(TokenOf[token[s]], presented[s])
    BY <2>1 DEF OnlyVerifiedJoin
  <2>3. presented'[s] \in 0..now'
    BY <2>1, <2>2
  <2> QED
    BY <2>1, <2>2, <2>3
<1> QED
  BY <1>1, <1>2

(* No session joins the chat, or is on its way to, unless its token passed
   verification at the tick at which it was presented, which is past and, by
   NothingAfterDestruction below, the tick of the session's upgrade. *)
THEOREM VerifiedJoin == Spec => []OnlyVerifiedJoin
BY InitVerified, NextVerified, Invariance, PTL DEF Spec

-----------------------------------------------------------------------------
(* The life of a session goes one way. *)

(* A session is constructed once and destroyed once, presents one token, when
   it is constructed, gets one id at most, and once destroyed is touched no more: no handler runs on it, no broadcast
   pushes to its queue and no write starts on its stream. *)
GoesOneWay ==
  [][\A s \in Sessions :
       /\ life'[s] # life[s] =>
            \/ life[s] = "unborn" /\ life'[s] = "alive"
            \/ life[s] = "alive" /\ life'[s] = "destroyed"
       /\ life[s] = "unborn" /\ life'[s] # life[s] => presented'[s] = now
       /\ life[s] # "unborn" => UNCHANGED <<token[s], presented[s]>>
       /\ connection_id[s] # NoId => connection_id'[s] = connection_id[s]
       /\ life[s] = "destroyed" =>
            UNCHANGED <<connection_id[s], queue_[s], writes[s], reads[s], setup[s],
                        status[s], wire[s], hungup[s]>>]_vars

(* Everything of session t is as before. *)
Spared(t) ==
  UNCHANGED <<life[t], connection_id[t], queue_[t], writes[t], reads[t], setup[t],
              status[t], token[t], presented[t], wire[t], hungup[t]>>

(* Sending to living sessions spares the others. *)
LEMMA SendSpares ==
  ASSUME NEW t \in Sessions, NEW T, t \notin T, NEW m, NEW q, NEW w, SessionSend(T, m, q, w)
  PROVE  queue_'[t] = q[t] /\ writes'[t] = w[t]
BY DEF SessionSend, Pushed, Started, Idle

(* So does the end of a handler, with or without the destructor. *)
LEMMA ReturnSpares ==
  ASSUME IInv, NEW s \in Sessions, NEW t \in Sessions, t # s, life[t] = "destroyed",
         NEW q, NEW w, NEW r, NEW u, Return(s, q, r, w, u)
  PROVE  /\ queue_'[t] = q[t] /\ writes'[t] = w[t] /\ reads'[t] = r[t] /\ setup'[t] = u[t]
         /\ life'[t] = life[t]
<1>1. life'[t] = life[t] /\ reads' = r /\ setup' = u
  BY DEF Return, Destructor, IInv, TypeOK
<1>2. ASSUME NEW id \in Ids
      PROVE  t \notin Registered([sessions_ EXCEPT ![id] = nullptr])
  <2>1. ASSUME NEW i \in Ids, [sessions_ EXCEPT ![id] = nullptr][i] # nullptr
        PROVE  [sessions_ EXCEPT ![id] = nullptr][i] # t
    BY <2>1 DEF IInv, TypeOK, NoDanglingPointer
  <2>2. nullptr \notin Sessions
    BY SharedStateAssumption
  <2> QED
    BY <2>1, <2>2 DEF Registered
<1>3. CASE queue_' = q /\ writes' = w
  BY <1>1, <1>3
<1>4. CASE ~(queue_' = q /\ writes' = w)
  <2>1. connection_id[s] \in Ids /\ disconnect(connection_id[s], q, w)
    BY <1>4 DEF Return, Destructor, disconnect, IInv, TypeOK
  <2>2. SessionSend(Registered([sessions_ EXCEPT ![connection_id[s]] = nullptr]),
                    Farewell(connection_id[s]), q, w)
    BY <1>4, <2>1 DEF disconnect, broadcast
  <2> QED
    BY <1>1, <1>2, <2>1, <2>2, SendSpares
<1> QED
  BY <1>3, <1>4

(* Handlers run on living sessions, and spare the destroyed ones. *)
LEMMA HandlerSpares ==
  ASSUME IInv, NEW s \in Sessions, Handler(s) \/ DestroyHandler(s),
         NEW t \in Sessions, life[t] = "destroyed"
  PROVE  Spared(t)
<1> USE DEF Spared
<1>1. t # s
  <2>1. Owned(s, reads, writes, setup)
    BY DEF Handler, DestroyHandler, OnAccept, OnAcceptError, OnRead, OnReadError, OnWrite,
           OnWriteError, OnClose, OnWrite401, Owned
  <2> QED
    BY <2>1, OwnerAlive
<1>2. /\ reads \in [Sessions -> Nat] /\ DOMAIN queue_ = Sessions /\ DOMAIN writes = Sessions
      /\ DOMAIN setup = Sessions /\ DOMAIN status = Sessions /\ DOMAIN wire = Sessions
      /\ DOMAIN connection_id = Sessions /\ sessions_ \in [Ids -> Sessions \cup {nullptr}]
      /\ nullptr \notin Sessions
  BY SharedStateAssumption DEF IInv, TypeOK
<1>3. t \notin Registered(sessions_)
  BY <1>2 DEF Registered, IInv, NoDanglingPointer
<1>4. CASE OnAccept(s)
  <2>1. /\ life' = life /\ token' = token /\ presented' = presented /\ wire' = wire /\ hungup' = hungup
        /\ status' = [status EXCEPT ![s] = "open"]
        /\ connection_id' = [connection_id EXCEPT ![s] = generate_random_string]
        /\ reads' = [reads EXCEPT ![s] = @ + 1]
        /\ setup' = [setup EXCEPT ![s] = @ \ {"accept"}]
        /\ connect(generate_random_string, s, queue_, writes)
    BY <1>4 DEF OnAccept
  <2> DEFINE id == generate_random_string
             map == [sessions_ EXCEPT ![id] = s]
  <2>2. id \in Ids
    BY SessionAssumption DEF generate_random_string, IInv, TypeOK
  <2>3. map[id] = s
    BY <1>2, <2>2
  <2>4. SessionSend({map[id]} \ {nullptr}, Greeting(id), queue_, writes)
    BY <2>1 DEF connect, SendTo, get
  <2>5. t \notin {map[id]} \ {nullptr}
    BY <1>1, <2>3
  <2>6. queue_'[t] = queue_[t] /\ writes'[t] = writes[t]
    <3> DEFINE T == {map[id]} \ {nullptr}
    <3>1. t \notin T /\ SessionSend(T, Greeting(id), queue_, writes)
      BY <2>4, <2>5
    <3> HIDE DEF T, id
    <3> QED
      BY <3>1, SendSpares
  <2> QED
    BY <1>1, <1>2, <2>1, <2>6
<1>5. CASE OnRead(s)
  <2>1. SessionSend(Registered(sessions_), Chat(said + 1), queue_, writes)
    BY <1>5 DEF OnRead, broadcast
  <2> QED
    BY <1>3, <1>5, <2>1, SendSpares DEF OnRead, sessionVars
<1>6. CASE OnAcceptError(s) \/ OnReadError(s) \/ OnWriteError(s) \/ OnClose(s) \/ OnWrite401(s)
             \/ DestroyHandler(s)
  <2>1. /\ UNCHANGED <<connection_id, token, presented, wire, hungup>>
        /\ status'[t] = status[t]
    BY <1>1, <1>2, <1>6 DEF OnAcceptError, OnReadError, OnWriteError, OnClose, OnWrite401, DestroyHandler
  <2>2. CASE Return(s, queue_, [reads EXCEPT ![s] = @ - 1], writes, setup)
    <3> DEFINE r == [reads EXCEPT ![s] = @ - 1]
    <3>1. r[t] = reads[t] /\ Return(s, queue_, r, writes, setup)
      BY <1>1, <1>2, <2>2
    <3> HIDE DEF r
    <3> QED
      BY <1>1, <2>1, <3>1, ReturnSpares
  <2>3. CASE Return(s, queue_, reads, [writes EXCEPT ![s] = Tail(@)], setup)
    <3> DEFINE w == [writes EXCEPT ![s] = Tail(@)]
    <3>1. w[t] = writes[t] /\ Return(s, queue_, reads, w, setup)
      BY <1>1, <1>2, <2>3
    <3> HIDE DEF w
    <3> QED
      BY <1>1, <2>1, <3>1, ReturnSpares
  <2>4. ASSUME NEW x, Return(s, queue_, reads, writes, [setup EXCEPT ![s] = @ \ {x}])
        PROVE  Spared(t)
    <3> DEFINE u == [setup EXCEPT ![s] = @ \ {x}]
    <3>1. u[t] = setup[t] /\ Return(s, queue_, reads, writes, u)
      BY <1>1, <1>2, <2>4
    <3> HIDE DEF u
    <3> QED
      BY <1>1, <2>1, <3>1, ReturnSpares
  <2> QED
    BY <1>6, <2>2, <2>3, <2>4
       DEF OnAcceptError, OnReadError, OnWriteError, OnClose, OnWrite401, DestroyHandler
<1>7. CASE OnWrite(s)
  <2>1. /\ UNCHANGED <<connection_id, status, token, presented, hungup>>
        /\ wire'[t] = wire[t]
    BY <1>1, <1>2, <1>7 DEF OnWrite
  <2>2. PICK x, y : Return(s, [queue_ EXCEPT ![s] = x], reads, [writes EXCEPT ![s] = y], setup)
    BY <1>7 DEF OnWrite
  <2> DEFINE q == [queue_ EXCEPT ![s] = x]
             w == [writes EXCEPT ![s] = y]
  <2>3. q[t] = queue_[t] /\ w[t] = writes[t] /\ Return(s, q, reads, w, setup)
    BY <1>1, <1>2, <2>2
  <2> HIDE DEF q, w
  <2> QED
    BY <1>1, <2>1, <2>3, ReturnSpares
<1> QED
  BY <1>4, <1>5, <1>6, <1>7 DEF Handler

(* A handler only destroys its own session, and only the end of the handshake
   gives an id. *)
LEMMA HandlerLives ==
  ASSUME IInv, NEW s \in Sessions, Handler(s) \/ DestroyHandler(s)
  PROVE  /\ life[s] = "alive"
         /\ life' = life \/ life' = [life EXCEPT ![s] = "destroyed"]
         /\ \A t \in Sessions :
              connection_id'[t] = connection_id[t] \/ (t = s /\ connection_id[s] = NoId)
<1>1. Owned(s, reads, writes, setup)
  BY DEF Handler, DestroyHandler, OnAccept, OnAcceptError, OnRead, OnReadError, OnWrite,
         OnWriteError, OnClose, OnWrite401, Owned
<1>2. life' = life \/ (\E q, r, w, u : Return(s, q, r, w, u))
  BY DEF Handler, DestroyHandler, OnAccept, OnAcceptError, OnRead, OnReadError, OnWrite,
         OnWriteError, OnClose, OnWrite401, sessionVars
<1>3. ASSUME NEW q, NEW r, NEW w, NEW u, Return(s, q, r, w, u)
      PROVE  life' = life \/ life' = [life EXCEPT ![s] = "destroyed"]
  BY <1>3 DEF Return, Destructor
<1>4. ASSUME OnAccept(s)
      PROVE  /\ connection_id[s] = NoId
             /\ \A t \in Sessions \ {s} : connection_id'[t] = connection_id[t]
  BY <1>4 DEF OnAccept, IInv, PhasesApart, TypeOK
<1>5. ASSUME ~OnAccept(s)
      PROVE  connection_id' = connection_id
  BY <1>5 DEF Handler, DestroyHandler, OnAcceptError, OnRead, OnReadError, OnWrite,
         OnWriteError, OnClose, OnWrite401, sessionVars
<1>6. life[s] = "alive"
  BY <1>1, OwnerAlive
<1>7. life' = life \/ life' = [life EXCEPT ![s] = "destroyed"]
  BY <1>2, <1>3
<1> QED
  BY <1>4, <1>5, <1>6, <1>7

LEMMA OneWayStep ==
  ASSUME IInv, [Next]_vars, NEW t \in Sessions
  PROVE  /\ life'[t] # life[t] =>
              \/ life[t] = "unborn" /\ life'[t] = "alive"
              \/ life[t] = "alive" /\ life'[t] = "destroyed"
         /\ life[t] = "unborn" /\ life'[t] # life[t] => presented'[t] = now
         /\ life[t] # "unborn" => UNCHANGED <<token[t], presented[t]>>
         /\ connection_id[t] # NoId => connection_id'[t] = connection_id[t]
         /\ life[t] = "destroyed" => Spared(t)
<1>1. life \in [Sessions -> {"unborn", "alive", "destroyed"}] /\ DOMAIN connection_id = Sessions
      /\ DOMAIN setup = Sessions /\ DOMAIN token = Sessions /\ DOMAIN hungup = Sessions
      /\ DOMAIN presented = Sessions
  BY DEF IInv, TypeOK
<1>2. CASE \E s \in Sessions : Handler(s) \/ DestroyHandler(s)
  <2>1. token' = token /\ presented' = presented
    BY <1>2 DEF Handler, DestroyHandler, OnAccept, OnAcceptError, OnRead, OnReadError, OnWrite,
           OnWriteError, OnClose, OnWrite401, sessionVars
  <2> QED
    BY <1>1, <1>2, <2>1, HandlerLives, HandlerSpares
<1>3. ASSUME NEW s \in Sessions, Upgrade(s)
      PROVE  /\ life[s] = "unborn" /\ life' = [life EXCEPT ![s] = "alive"]
             /\ connection_id' = connection_id
             /\ presented' = [presented EXCEPT ![s] = now]
             /\ t # s => token'[t] = token[t]
             /\ life[t] = "destroyed" => Spared(t)
  BY <1>1, <1>3 DEF Upgrade, run, Spared
<1>4. ASSUME NEW s \in Sessions, Hangup(s)
      PROVE  /\ life' = life /\ connection_id' = connection_id
             /\ token' = token /\ presented' = presented
             /\ life[t] = "destroyed" => Spared(t)
  BY <1>1, <1>4 DEF Hangup, Spared
<1>5. CASE Stop \/ Tick \/ Exited \/ UNCHANGED vars
  BY <1>5 DEF Stop, Tick, Exited, vars, sessionVars, Spared
<1> QED
  BY <1>1, <1>2, <1>3, <1>4, <1>5 DEF Next

(* No session comes back, changes its token or its id, or is used after its
   destructor ran:
   the raw pointers in sessions_ are never followed to a destroyed one. *)
THEOREM NothingAfterDestruction == Spec => GoesOneWay
<1>1. IInv /\ [Next]_vars =>
        [\A s \in Sessions :
           /\ life'[s] # life[s] =>
                \/ life[s] = "unborn" /\ life'[s] = "alive"
                \/ life[s] = "alive" /\ life'[s] = "destroyed"
           /\ life[s] = "unborn" /\ life'[s] # life[s] => presented'[s] = now
           /\ life[s] # "unborn" => UNCHANGED <<token[s], presented[s]>>
           /\ connection_id[s] # NoId => connection_id'[s] = connection_id[s]
           /\ life[s] = "destroyed" =>
                UNCHANGED <<connection_id[s], queue_[s], writes[s], reads[s], setup[s],
                            status[s], wire[s], hungup[s]>>]_vars
  BY OneWayStep DEF Spared
<1> QED
  BY <1>1, Invariance, PTL DEF Spec, GoesOneWay

=============================================================================
