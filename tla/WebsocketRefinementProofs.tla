---------------------- MODULE WebsocketRefinementProofs ----------------------
(***************************************************************************)
(* The chat core implements the abstract room, and inherits what the room  *)
(* guarantees.                                                             *)
(***************************************************************************)
EXTENDS WebsocketSessionProofs

(* The members that have left, in the refinement mapping. *)
Left == {s \in Sessions : life[s] = "destroyed" /\ connection_id[s] # NoId}

(* What reaches the wire and the queue together. *)
LEMMA InboxPush ==
  ASSUME NEW x \in Seq(Message), NEW u \in Seq(Message), NEW m \in Message
  PROVE  x \o Append(u, m) = Append(x \o u, m)
<1>1. <<m>> \in Seq(Message)
  OBVIOUS
<1>2. x \o u \in Seq(Message)
  BY ConcatProperties
<1>3. x \o (u \o <<m>>) = (x \o u) \o <<m>>
  BY <1>1, ConcatAssociative
<1> QED
  BY <1>2, <1>3, AppendIsConcat

(* Sending m to the sessions of T posts it to their inboxes. *)
LEMMA SendPosts ==
  ASSUME NEW T \in SUBSET Sessions, NEW m \in Message, NEW q \in Queues,
         queue_' = Pushed(T, m, q), wire' \in Queues,
         \A t \in Sessions : wire'[t] \o q[t] = Inbox[t]
  PROVE  Inbox' = Room!Post(T, m)
<1>1. ASSUME NEW t \in Sessions
      PROVE  wire'[t] \o queue_'[t] = IF t \in T THEN Append(Inbox[t], m) ELSE Inbox[t]
  <2>1. wire'[t] \in Seq(Message) /\ q[t] \in Seq(Message)
    BY DEF Queues
  <2>2. wire'[t] \o Append(q[t], m) = Append(wire'[t] \o q[t], m)
    BY <2>1, InboxPush
  <2>3. queue_'[t] = IF t \in T THEN Append(q[t], m) ELSE q[t]
    BY DEF Pushed
  <2> QED
    BY <2>2, <2>3
<1> QED
  BY <1>1 DEF Inbox, Room!Post

LEMMA RoomInit == Init => Room!Init
<1> SUFFICES ASSUME Init PROVE Room!Init
  OBVIOUS
<1>1. Inbox = [s \in Sessions |-> <<>>]
  <2>1. <<>> \o <<>> = <<>>
    BY ConcatEmptySeq, EmptySeq
  <2> QED
    BY <2>1 DEF Init, Inbox
<1> QED
  BY <1>1 DEF Init, Room!Init

(* A handler that ends in Return is a Leave of the room if the destructor of
   an accepted session runs, and else nothing the room notices. *)
LEMMA ReturnRefines ==
  ASSUME IInv, NEW s \in Sessions, life[s] = "alive",
         NEW q \in Queues, NEW w, NEW r, NEW u,
         Return(s, q, r, w, u),
         wire' \in Queues, connection_id' = connection_id,
         \A t \in Sessions : wire'[t] \o q[t] = Inbox[t]
  PROVE  Room!Leave(s) \/ UNCHANGED Room!roomVars
<1>1. life \in [Sessions -> {"unborn", "alive", "destroyed"}] /\ Inbox = [t \in Sessions |-> Inbox[t]]
  BY DEF IInv, TypeOK, Inbox
<1>2. CASE Owned(s, r, w, u)
  <2>1. queue_' = q /\ sessions_' = sessions_ /\ life' = life
    BY <1>2 DEF Return
  <2>2. Inbox' = Inbox
    BY <1>1, <2>1 DEF Inbox
  <2> QED
    BY <2>1, <2>2 DEF Room!roomVars
<1>3. CASE ~Owned(s, r, w, u) /\ connection_id[s] = NoId
  <2>1. queue_' = q /\ sessions_' = sessions_ /\ life' = [life EXCEPT ![s] = "destroyed"]
    BY <1>3 DEF Return, Destructor, disconnect
  <2>2. Inbox' = Inbox
    BY <1>1, <2>1 DEF Inbox
  <2>3. Left' = Left
    BY <1>1, <1>3, <2>1 DEF Left
  <2> QED
    BY <2>1, <2>2, <2>3 DEF Room!roomVars, Left
<1>4. CASE ~Owned(s, r, w, u) /\ connection_id[s] # NoId
  <2> DEFINE id == connection_id[s]
             T == Registered([sessions_ EXCEPT ![id] = nullptr])
  <2>1. /\ sessions_' = [sessions_ EXCEPT ![id] = nullptr]
        /\ queue_' = Pushed(T, Farewell(id), q)
        /\ life' = [life EXCEPT ![s] = "destroyed"]
    BY <1>4 DEF Return, Destructor, disconnect, broadcast, SessionSend
  <2>2. id \in Ids /\ Farewell(id) \in Message
    BY <1>4, MessageTypes DEF IInv, TypeOK
  <2>3. T \in SUBSET Sessions
    BY <2>2 DEF Registered, IInv, TypeOK
  <2>4. T = Room!Present(sessions_')
    BY <2>1 DEF Registered, Room!Present
  <2>5. Inbox' = Room!Post(T, Farewell(id))
    <3> DEFINE m == Farewell(id)
    <3>1. m \in Message /\ queue_' = Pushed(T, m, q)
      BY <2>1, <2>2
    <3> HIDE DEF T, m
    <3> QED
      BY <2>3, <3>1, SendPosts DEF m
  <2>6. Left' = Left \cup {s} /\ s \notin Left
    BY <1>1, <1>4, <2>1 DEF Left
  <2> HIDE DEF T
  <2> QED
    BY <1>4, <2>1, <2>4, <2>5, <2>6 DEF Room!Leave, Left
<1> QED
  BY <1>2, <1>3, <1>4

(* Handlers whose queues and wire are as before reach Return. *)
LEMMA QuietReturn ==
  ASSUME IInv, NEW s \in Sessions, Owned(s, reads, writes, setup),
         NEW w, NEW r, NEW u, Return(s, queue_, r, w, u),
         wire' = wire, connection_id' = connection_id
  PROVE  Room!Leave(s) \/ UNCHANGED Room!roomVars
<1>1. /\ life[s] = "alive" /\ queue_ \in Queues /\ wire' \in Queues
      /\ \A t \in Sessions : wire'[t] \o queue_[t] = Inbox[t]
  BY OwnerAlive DEF IInv, TypeOK, Queues, Inbox
<1> QED
  BY <1>1, ReturnRefines

(* Finishing a write moves the front of the queue to the end of the wire. *)
LEMMA OnWriteRefines ==
  ASSUME IInv, NEW s \in Sessions, OnWrite(s)
  PROVE  Room!Leave(s) \/ UNCHANGED Room!roomVars
<1> DEFINE rest == Tail(queue_[s])
           next == IF rest # <<>> THEN <<Head(rest)>> ELSE <<>>
           q == [queue_ EXCEPT ![s] = rest]
           w == [writes EXCEPT ![s] = Tail(@) \o next]
<1>1. /\ Return(s, q, reads, w, setup)
      /\ wire' = [wire EXCEPT ![s] = Append(@, Head(writes[s]))]
      /\ connection_id' = connection_id /\ writes[s] # <<>>
  BY DEF OnWrite
<1>2. life[s] = "alive"
  BY <1>1, OwnerAlive DEF Owned
<1>3. queue_[s] # <<>> /\ writes[s] = <<Head(queue_[s])>>
  BY <1>1, FrontOnlyNow DEF IInv, FrontOnly
<1>4. /\ wire[s] \in Seq(Message) /\ queue_[s] \in Seq(Message)
      /\ rest \in Seq(Message) /\ Head(queue_[s]) \in Message
  BY <1>3, SessionFacts, HeadTailProperties DEF Queues
<1>5. Head(writes[s]) = Head(queue_[s])
  BY <1>3
<1>6. Append(wire[s], Head(queue_[s])) \o rest = wire[s] \o queue_[s]
  <2> DEFINE h == Head(queue_[s])
  <2>1. <<h>> \in Seq(Message)
    BY <1>4
  <2>2. Append(wire[s], h) = wire[s] \o <<h>>
    BY <1>4, AppendIsConcat
  <2>3. (wire[s] \o <<h>>) \o rest = wire[s] \o (<<h>> \o rest)
    <3> DEFINE x == wire[s]
               y == <<h>>
    <3>1. x \in Seq(Message) /\ y \in Seq(Message) /\ rest \in Seq(Message)
      BY <1>4, <2>1
    <3> HIDE DEF x, y, rest
    <3>2. (x \o y) \o rest = x \o (y \o rest)
      BY <3>1, ConcatAssociative
    <3> QED
      BY <3>2 DEF x, y
  <2>4. <<h>> \o rest = queue_[s]
    <3>1. /\ <<h>> \o rest \in Seq(Message) /\ Len(<<h>> \o rest) = 1 + Len(rest)
          /\ \A i \in 1..1 + Len(rest) :
               (<<h>> \o rest)[i] = IF i <= 1 THEN <<h>>[i] ELSE rest[i - 1]
      BY <1>4, <2>1, ConcatProperties, Len(<<h>>) = 1
    <3>2. /\ Len(rest) = Len(queue_[s]) - 1 /\ Len(queue_[s]) \in Nat /\ h = queue_[s][1]
          /\ \A i \in 1..Len(rest) : rest[i] = queue_[s][i + 1]
      BY <1>3, <1>4, HeadTailProperties, LenProperties
    <3> HIDE DEF h, rest
    <3>3. Len(<<h>> \o rest) = Len(queue_[s])
      BY <3>1, <3>2
    <3>4. ASSUME NEW i \in 1..Len(<<h>> \o rest)
          PROVE  (<<h>> \o rest)[i] = queue_[s][i]
      <4>1. CASE i = 1
        BY <3>1, <3>2, <3>3, <4>1
      <4>2. CASE i # 1
        <5>1. i - 1 \in 1..Len(rest) /\ (i - 1) + 1 = i /\ ~(i <= 1)
          BY <3>2, <3>3, <4>2
        <5>2. rest[i - 1] = queue_[s][(i - 1) + 1]
          BY <3>2, <5>1
        <5>3. (<<h>> \o rest)[i] = rest[i - 1]
          BY <3>1, <5>1
        <5> QED
          BY <5>1, <5>2, <5>3
      <4> QED
        BY <4>1, <4>2
    <3> QED
      BY <1>4, <3>1, <3>3, <3>4, SeqEqual
  <2> QED
    BY <2>2, <2>3, <2>4
<1>7. Append(wire[s], Head(queue_[s])) \in Seq(Message)
  BY <1>4, AppendProperties
<1> HIDE DEF rest, w
<1>8. q \in Queues /\ wire' \in Queues
  BY <1>1, <1>4, <1>5, <1>7, SessionFacts DEF Queues
<1>9. \A t \in Sessions : wire'[t] \o q[t] = Inbox[t]
  BY <1>1, <1>4, <1>5, <1>6, SessionFacts DEF Queues, Inbox
<1> HIDE DEF q
<1> QED
  BY <1>1, <1>2, <1>8, <1>9, ReturnRefines

(* The handshake is the moment of joining. *)
LEMMA OnAcceptRefines ==
  ASSUME IInv, NEW s \in Sessions, OnAccept(s)
  PROVE  \E n \in Ids : Room!Join(s, n)
<1> DEFINE id == generate_random_string
<1>1. /\ "accept" \in setup[s] /\ life' = life /\ wire' = wire
      /\ connection_id' = [connection_id EXCEPT ![s] = id]
      /\ sessions_' = [sessions_ EXCEPT ![id] = s]
      /\ queue_' = Pushed({get([sessions_ EXCEPT ![id] = s], id)} \ {nullptr},
                          Greeting(id), queue_)
  BY DEF OnAccept, connect, SendTo, SessionSend
<1>2. id \in Ids /\ id # NoId
  BY SessionAssumption, SharedStateAssumption DEF generate_random_string, IInv, TypeOK
<1>3. {get([sessions_ EXCEPT ![id] = s], id)} \ {nullptr} = {s}
  BY <1>2, SharedStateAssumption DEF get, IInv, TypeOK
<1>4. connection_id[s] = NoId /\ queue_[s] = <<>> /\ wire[s] = <<>> /\ life[s] = "alive"
  BY <1>1 DEF IInv, PhasesApart, OwnedWhileAlive, Owned
<1>5. Greeting(id) \in Message
  BY <1>2, MessageTypes
<1> HIDE DEF id
<1>6. Inbox' = [Inbox EXCEPT ![s] = <<Greeting(id)>>]
  <2>1. <<>> \o Append(<<>>, Greeting(id)) = <<Greeting(id)>>
    BY <1>5, AppendFacts, ConcatEmptySeq, EmptySeq, <<Greeting(id)>> \in Seq(Message)
  <2>2. queue_' = [queue_ EXCEPT ![s] = Append(<<>>, Greeting(id))]
    BY <1>1, <1>3, <1>4, SessionFacts DEF Pushed, Queues
  <2> QED
    BY <1>1, <1>4, <2>1, <2>2, SessionFacts DEF Inbox, Queues
<1>7. Left' = Left
  BY <1>1, <1>4 DEF Left, IInv, TypeOK
<1>8. Room!Join(s, id)
  BY <1>1, <1>4, <1>6, <1>7 DEF Room!Join, Left
<1> QED
  BY <1>2, <1>8

LEMMA OnReadRefines ==
  ASSUME IInv, NEW s \in Sessions, OnRead(s)
  PROVE  \E m \in {Chat(n) : n \in 1..MaxChat} : Room!Say(m)
<1> DEFINE m == Chat(said + 1)
           T == Registered(sessions_)
<1>1. /\ said < MaxChat /\ queue_' = Pushed(T, m, queue_)
      /\ sessions_' = sessions_ /\ connection_id' = connection_id
      /\ life' = life /\ wire' = wire
  BY DEF OnRead, broadcast, SessionSend, sessionVars
<1>2. said + 1 \in 1..MaxChat /\ m \in Message
  BY <1>1, SessionAssumption, MessageTypes DEF IInv, TypeOK
<1>3. T \in SUBSET Sessions /\ T = Room!Present(sessions_)
  BY DEF IInv, TypeOK, Registered, Room!Present
<1>4. /\ queue_ \in Queues /\ wire' \in Queues
      /\ \A t \in Sessions : wire'[t] \o queue_[t] = Inbox[t]
  BY <1>1 DEF IInv, TypeOK, Queues, Inbox
<1>5. m \in {Chat(n) : n \in 1..MaxChat}
  BY <1>2
<1> HIDE DEF m, T
<1>6. Inbox' = Room!Post(T, m)
  BY <1>1, <1>2, <1>3, <1>4, SendPosts
<1>7. Room!Say(m)
  BY <1>1, <1>3, <1>6 DEF Room!Say
<1> QED
  BY <1>5, <1>7

LEMMA UpgradeRefines ==
  ASSUME IInv, NEW s \in Sessions, Upgrade(s)
  PROVE  UNCHANGED Room!roomVars
<1>1. /\ life[s] = "unborn" /\ life' = [life EXCEPT ![s] = "alive"]
      /\ sessions_' = sessions_ /\ connection_id' = connection_id
      /\ queue_' = queue_ /\ wire' = wire
  BY DEF Upgrade
<1>2. Left' = Left
  BY <1>1 DEF Left, IInv, TypeOK
<1>3. Inbox' = Inbox
  BY <1>1 DEF Inbox
<1> QED
  BY <1>1, <1>2, <1>3 DEF Room!roomVars, Left

LEMMA EnvironmentRefines ==
  ASSUME Stop \/ Tick \/ Exited \/ UNCHANGED vars \/ (\E s \in Sessions : Hangup(s))
  PROVE  UNCHANGED Room!roomVars
<1>1. /\ sessions_' = sessions_ /\ connection_id' = connection_id
      /\ queue_' = queue_ /\ wire' = wire /\ life' = life
  BY DEF Stop, Tick, Exited, Hangup, vars, sessionVars
<1> QED
  BY <1>1 DEF Room!roomVars, Inbox

LEMMA DestroyHandlerRefines ==
  ASSUME IInv, NEW s \in Sessions, DestroyHandler(s)
  PROVE  Room!Leave(s) \/ UNCHANGED Room!roomVars
<1>1. wire' = wire /\ connection_id' = connection_id /\ Owned(s, reads, writes, setup)
  BY DEF DestroyHandler, Owned
<1>2. CASE Return(s, queue_, [reads EXCEPT ![s] = @ - 1], writes, setup)
  BY <1>1, <1>2, QuietReturn
<1>3. CASE Return(s, queue_, reads, [writes EXCEPT ![s] = Tail(@)], setup)
  BY <1>1, <1>3, QuietReturn
<1>4. CASE \E op \in setup[s] :
             Return(s, queue_, reads, writes, [setup EXCEPT ![s] = @ \ {op}])
  BY <1>1, <1>4, QuietReturn
<1> QED
  BY <1>2, <1>3, <1>4 DEF DestroyHandler

LEMMA HandlerRefines ==
  ASSUME IInv, NEW s \in Sessions, Handler(s)
  PROVE  [Room!Next]_Room!roomVars
<1>1. CASE OnAccept(s)
  BY <1>1, OnAcceptRefines DEF Room!Next
<1>2. CASE OnRead(s)
  BY <1>2, OnReadRefines DEF Room!Next
<1>3. CASE OnWrite(s)
  BY <1>3, OnWriteRefines DEF Room!Next
<1>4. CASE OnAcceptError(s) \/ OnReadError(s) \/ OnWriteError(s) \/ OnClose(s) \/ OnWrite401(s)
  <2>1. Owned(s, reads, writes, setup) /\ wire' = wire /\ connection_id' = connection_id
    BY <1>4 DEF OnAcceptError, OnReadError, OnWriteError, OnClose, OnWrite401, Owned
  <2>2. \E r, w, u : Return(s, queue_, r, w, u)
    BY <1>4 DEF OnAcceptError, OnReadError, OnWriteError, OnClose, OnWrite401
  <2> QED
    BY <2>1, <2>2, QuietReturn DEF Room!Next
<1> QED
  BY <1>1, <1>2, <1>3, <1>4 DEF Handler

LEMMA NextRefines == IInv /\ [Next]_vars => [Room!Next]_Room!roomVars
<1> SUFFICES ASSUME IInv, [Next]_vars PROVE [Room!Next]_Room!roomVars
  OBVIOUS
<1>1. ASSUME NEW s \in Sessions, DestroyHandler(s) PROVE [Room!Next]_Room!roomVars
  BY <1>1, DestroyHandlerRefines DEF Room!Next
<1> QED
  BY <1>1, UpgradeRefines, HandlerRefines, EnvironmentRefines DEF Next

(* The chat core implements the abstract room. *)
THEOREM Refinement == Spec => ImplementsRoom
<1> QED
  BY RoomInit, NextRefines, Invariance, PTL DEF Spec, ImplementsRoom, Room!Spec

-----------------------------------------------------------------------------
(* What the room guarantees, carried over to the chat core. *)

RoomProofs == INSTANCE ChatRoomProofs WITH
  Members <- Sessions, Names <- Ids, NoName <- NoId, Nobody <- nullptr,
  Welcome <- Greeting, Goodbye <- Farewell, Texts <- {Chat(n) : n \in 1..MaxChat},
  room <- sessions_, name <- connection_id, inbox <- Inbox,
  left <- {s \in Sessions : life[s] = "destroyed" /\ connection_id[s] # NoId}

(* The parameters of the room are as it assumes. *)
LEMMA RoomParameters == RoomProofs!RoomAssumption
BY SharedStateAssumption DEF RoomProofs!RoomAssumption, Greeting, Farewell, Chat

(* Both instances are the same room. *)
LEMMA SameRoom ==
  /\ Room!Init <=> RoomProofs!Init
  /\ [Room!Next]_Room!roomVars <=> [RoomProofs!Next]_RoomProofs!roomVars
BY DEF Room!Init, RoomProofs!Init, Room!Next, RoomProofs!Next, Room!roomVars, RoomProofs!roomVars,
       Room!Join, RoomProofs!Join, Room!Say, RoomProofs!Say, Room!Leave, RoomProofs!Leave,
       Room!Post, RoomProofs!Post, Room!Present, RoomProofs!Present

LEMMA RoomInvariance == Spec => []RoomProofs!RoomInv
<1>1. ImplementsRoom => RoomProofs!Spec
  BY SameRoom, PTL DEF ImplementsRoom, Room!Spec, RoomProofs!Spec
<1>2. RoomProofs!Spec => []RoomProofs!RoomInv
  BY RoomParameters, RoomProofs!RoomCorrect
<1> QED
  BY <1>1, <1>2, Refinement, PTL

(* Every accepted client is first told its own id, and nobody is greeted
   again. *)
THEOREM GreetedFirstAlways == Spec => []GreetedFirst
<1>1. RoomProofs!RoomInv => GreetedFirst
  BY DEF RoomProofs!RoomInv, RoomProofs!GreetedFirst, GreetedFirst, Room!GreetedFirst
<1> QED
  BY <1>1, RoomInvariance, PTL

(* Registered sessions agree on what they were sent and in which order. *)
THEOREM OneOrderForAll == Spec => []SameOrder
<1>1. RoomProofs!RoomInv => SameOrder
  BY DEF RoomProofs!RoomInv, RoomProofs!SameOrder, RoomProofs!Present,
         SameOrder, Room!SameOrder, Room!Present
<1> QED
  BY <1>1, RoomInvariance, PTL

(* Only a collision of ids takes a live session out of the chat. *)
THEOREM OnlyCollisionsUnregister == Spec => []UnreachedOnlyByCollision
<1>1. RoomProofs!RoomInv => UnreachedOnlyByCollision
  BY DEF RoomProofs!RoomInv, RoomProofs!UnheldOnlyByCollision,
         UnreachedOnlyByCollision, Room!UnheldOnlyByCollision
<1> QED
  BY <1>1, RoomInvariance, PTL

(* Nothing that send() took for a session is lost, doubled or reordered on its
   way to the wire, and a session that has left is sent nothing: what is on the
   wire and in the queue together only grows, by one message at a time. *)
THEOREM NoMessageLost == Spec => RoomProofs!OnlyAppended
<1>1. ImplementsRoom => RoomProofs!Spec
  BY SameRoom, PTL DEF ImplementsRoom, Room!Spec, RoomProofs!Spec
<1>2. RoomProofs!Spec => RoomProofs!OnlyAppended
  BY RoomParameters, RoomProofs!NothingTakenBack
<1> QED
  BY <1>1, <1>2, Refinement, PTL

=============================================================================
