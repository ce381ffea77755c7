--------------------------- MODULE ChatRoomProofs ---------------------------
(***************************************************************************)
(* What the abstract room guarantees, for any members, names and texts.    *)
(***************************************************************************)
EXTENDS ChatRoom, SequenceTheorems, TLAPS

RoomInv == RoomTypeOK /\ HeldByPresent /\ GreetedFirst /\ SameOrder /\ UnheldOnlyByCollision

(* Members that hold places are members and have a name. *)
LEMMA PresentFacts ==
  ASSUME RoomAssumption, RoomTypeOK, HeldByPresent, NEW p \in Present(room)
  PROVE  p \in Members /\ name[p] \in Names /\ name[p] # NoName
                       /\ room[name[p]] = p /\ p \notin left
BY DEF RoomAssumption, Present, RoomTypeOK, HeldByPresent

(* Posting a message that is no welcome to members that have one keeps what
   the inboxes promise. *)
LEMMA PostKeeps ==
  ASSUME RoomTypeOK, GreetedFirst, SameOrder,
         NEW T \in SUBSET Present(room), NEW m \in Message,
         m \notin {Welcome(n) : n \in Names},
         \A p \in T : p \in Members /\ name[p] # NoName,
         inbox' = Post(T, m), name' = name, Present(room') = T
  PROVE  inbox' \in [Members -> Seq(Message)] /\ GreetedFirst' /\ SameOrder'
<1>1. ASSUME NEW p \in T
      PROVE  /\ inbox[p] \in Seq(Message)
             /\ inbox'[p] \in Seq(Message) /\ inbox'[p] # <<>>
             /\ Len(inbox[p]) \in Nat /\ Len(inbox'[p]) = Len(inbox[p]) + 1
             /\ \A i \in 1..Len(inbox[p]) : inbox'[p][i] = inbox[p][i]
             /\ inbox'[p][Len(inbox[p]) + 1] = m
  <2>1. inbox[p] \in Seq(Message) /\ inbox'[p] = Append(inbox[p], m)
    BY DEF RoomTypeOK, Post
  <2> QED
    BY <2>1, AppendProperties, LenProperties
<1>2. \A p \in Members \ T : inbox'[p] = inbox[p]
  BY DEF RoomTypeOK, Post
<1>3. inbox' \in [Members -> Seq(Message)]
  BY <1>1, <1>2 DEF RoomTypeOK, Post
<1>4. GreetedFirst'
  <2> SUFFICES ASSUME NEW p \in Members
               PROVE  /\ name[p] = NoName => inbox'[p] = <<>>
                      /\ name[p] # NoName =>
                           /\ inbox'[p] # <<>>
                           /\ inbox'[p][1] = Welcome(name[p])
                           /\ \A i \in 2..Len(inbox'[p]) :
                                inbox'[p][i] \notin {Welcome(n) : n \in Names}
    BY DEF GreetedFirst
  <2>1. CASE p \in T
    <3>1. /\ inbox[p] # <<>> /\ inbox[p][1] = Welcome(name[p])
          /\ \A i \in 2..Len(inbox[p]) : inbox[p][i] \notin {Welcome(n) : n \in Names}
      BY <2>1 DEF GreetedFirst
    <3>2. Len(inbox[p]) > 0
      BY <1>1, <2>1, <3>1, EmptySeq
    <3>3. inbox'[p][1] = inbox[p][1]
      BY <1>1, <2>1, <3>2
    <3>4. ASSUME NEW i \in 2..Len(inbox'[p])
          PROVE  inbox'[p][i] \notin {Welcome(n) : n \in Names}
      <4>1. CASE i = Len(inbox[p]) + 1
        BY <1>1, <2>1, <4>1
      <4>2. CASE i # Len(inbox[p]) + 1
        <5>1. i \in 2..Len(inbox[p]) /\ i \in 1..Len(inbox[p])
          BY <1>1, <2>1, <4>2
        <5> QED
          BY <1>1, <2>1, <3>1, <5>1
      <4> QED
        BY <4>1, <4>2
    <3> QED
      BY <1>1, <2>1, <3>1, <3>3, <3>4
  <2>2. CASE p \notin T
    BY <1>2, <2>2 DEF GreetedFirst
  <2> QED
    BY <2>1, <2>2
<1>5. SameOrder'
  <2> SUFFICES ASSUME NEW p \in T, NEW q \in T, NEW k \in 0..Len(inbox'[p]),
                      k + 1 < Len(inbox'[p]), k + 1 < Len(inbox'[q])
               PROVE  inbox'[p][Len(inbox'[p]) - k] = inbox'[q][Len(inbox'[q]) - k]
    BY DEF SameOrder
  <2>1. k \in Nat /\ k < Len(inbox[p]) /\ k < Len(inbox[q])
    BY <1>1
  <2>2. CASE k = 0
    BY <1>1, <2>2
  <2>3. CASE k # 0
    <3>1. /\ k - 1 \in 0..Len(inbox[p])
          /\ (k - 1) + 1 < Len(inbox[p]) /\ (k - 1) + 1 < Len(inbox[q])
      BY <1>1, <2>1, <2>3
    <3>2. inbox[p][Len(inbox[p]) - (k - 1)] = inbox[q][Len(inbox[q]) - (k - 1)]
      BY <3>1 DEF SameOrder
    <3>3. /\ Len(inbox'[p]) - k = Len(inbox[p]) - (k - 1)
          /\ Len(inbox'[q]) - k = Len(inbox[q]) - (k - 1)
          /\ Len(inbox[p]) - (k - 1) \in 1..Len(inbox[p])
          /\ Len(inbox[q]) - (k - 1) \in 1..Len(inbox[q])
      BY <1>1, <2>1, <2>3
    <3>4. inbox'[p][Len(inbox[p]) - (k - 1)] = inbox[p][Len(inbox[p]) - (k - 1)]
      BY <1>1, <3>3
    <3>5. inbox'[q][Len(inbox[q]) - (k - 1)] = inbox[q][Len(inbox[q]) - (k - 1)]
      BY <1>1, <3>3
    <3> QED
      BY <3>2, <3>3, <3>4, <3>5
  <2> QED
    BY <2>2, <2>3
<1> QED
  BY <1>3, <1>4, <1>5

-----------------------------------------------------------------------------
LEMMA InitRoomInv == Init => RoomInv
<1> SUFFICES ASSUME Init PROVE RoomInv
  OBVIOUS
<1>1. <<>> \in Seq(Message)
  BY EmptySeq
<1>2. RoomTypeOK /\ HeldByPresent
  BY <1>1 DEF Init, RoomTypeOK, HeldByPresent
<1>3. GreetedFirst /\ UnheldOnlyByCollision
  BY DEF Init, GreetedFirst, UnheldOnlyByCollision
<1>4. SameOrder
  BY DEF Init, SameOrder, Present
<1> QED
  BY <1>2, <1>3, <1>4 DEF RoomInv

LEMMA SayStep ==
  ASSUME RoomAssumption, RoomInv, NEW m \in Texts, Say(m) PROVE RoomInv'
<1>1. /\ inbox' = Post(Present(room), m)
      /\ room' = room /\ name' = name /\ left' = left
  BY DEF Say
<1>2. m \in Message /\ m \notin {Welcome(n) : n \in Names}
  BY DEF RoomAssumption, Message
<1>3. \A p \in Present(room) : p \in Members /\ name[p] # NoName
  BY PresentFacts DEF RoomInv
<1>4. inbox' \in [Members -> Seq(Message)] /\ GreetedFirst' /\ SameOrder'
  BY <1>1, <1>2, <1>3, PostKeeps DEF RoomInv
<1>5. RoomTypeOK' /\ HeldByPresent' /\ UnheldOnlyByCollision'
  BY <1>1, <1>4 DEF RoomInv, RoomTypeOK, HeldByPresent, UnheldOnlyByCollision
<1> QED
  BY <1>4, <1>5 DEF RoomInv

LEMMA LeaveStep ==
  ASSUME RoomAssumption, RoomInv, NEW p \in Members, Leave(p) PROVE RoomInv'
<1> DEFINE m == Goodbye(name[p])
<1>1. /\ name[p] # NoName /\ p \notin left
      /\ left' = left \cup {p} /\ name' = name
      /\ room' = [room EXCEPT ![name[p]] = Nobody]
      /\ inbox' = Post(Present(room'), m)
  BY DEF Leave
<1>2. name[p] \in Names
  BY <1>1 DEF RoomInv, RoomTypeOK
<1>3. m \in Message /\ m \notin {Welcome(n) : n \in Names}
  BY <1>2 DEF RoomAssumption, Message
<1>4. \A n \in Names : room'[n] # Nobody => room'[n] = room[n] /\ n # name[p]
  BY <1>1, <1>2 DEF RoomInv, RoomTypeOK
<1>5. Present(room') \subseteq Present(room)
  BY <1>4 DEF Present
<1>6. \A q \in Present(room') : q \in Members /\ name[q] # NoName
  BY <1>5, PresentFacts DEF RoomInv
<1> HIDE DEF m
<1>7. inbox' \in [Members -> Seq(Message)] /\ GreetedFirst' /\ SameOrder'
  <2> DEFINE T == Present(room')
  <2>1. T \in SUBSET Present(room) /\ Present(room') = T
    BY <1>5
  <2> HIDE DEF T
  <2> QED
    BY <1>1, <1>3, <1>6, <2>1, PostKeeps DEF RoomInv
<1>8. RoomTypeOK'
  BY <1>1, <1>7 DEF RoomInv, RoomTypeOK
<1>9. HeldByPresent'
  BY <1>1, <1>4 DEF RoomInv, HeldByPresent
<1>10. UnheldOnlyByCollision'
  <2> SUFFICES ASSUME NEW q \in Members, q \notin left, q # p,
                      name[q] # NoName, room'[name[q]] # q
               PROVE  \E o \in Members \ {q} : name[o] = name[q]
    BY <1>1 DEF UnheldOnlyByCollision
  <2>1. CASE name[q] = name[p]
    BY <2>1
  <2>2. CASE name[q] # name[p]
    <3>1. room'[name[q]] = room[name[q]]
      BY <1>1, <1>2, <2>2 DEF RoomInv, RoomTypeOK
    <3> QED
      BY <3>1 DEF RoomInv, UnheldOnlyByCollision
  <2> QED
    BY <2>1, <2>2
<1> QED
  BY <1>7, <1>8, <1>9, <1>10 DEF RoomInv

(* A newcomer takes a place from a member with the same name, or an empty
   one, and has been sent nothing but the welcome. *)
LEMMA JoinStep ==
  ASSUME RoomAssumption, RoomInv, NEW p \in Members, NEW n \in Names, Join(p, n) PROVE RoomInv'
<1>1. /\ name[p] = NoName /\ name' = [name EXCEPT ![p] = n]
      /\ room' = [room EXCEPT ![n] = p]
      /\ inbox' = [inbox EXCEPT ![p] = <<Welcome(n)>>]
      /\ left' = left
  BY DEF Join
<1>2. Welcome(n) \in Message /\ n # NoName
  BY DEF RoomAssumption, Message
<1>3. <<Welcome(n)>> \in Seq(Message) /\ <<Welcome(n)>> # <<>> /\ Len(<<Welcome(n)>>) = 1
  BY <1>2
<1>4. RoomTypeOK'
  BY <1>1, <1>2, <1>3 DEF RoomInv, RoomTypeOK
<1>5. \A o \in Names : room[o] # p
  BY <1>1 DEF RoomAssumption, RoomInv, HeldByPresent
<1>6. HeldByPresent'
  <2> SUFFICES ASSUME NEW o \in Names, room'[o] # Nobody
               PROVE  name'[room'[o]] = o /\ room'[o] \notin left
    BY <1>1 DEF HeldByPresent
  <2>1. CASE o = n
    BY <1>1, <2>1 DEF RoomInv, RoomTypeOK
  <2>2. CASE o # n
    <3>1. room'[o] = room[o] /\ room[o] \in Members /\ room[o] # p
      BY <1>1, <1>5, <2>2 DEF RoomInv, RoomTypeOK
    <3> QED
      BY <1>1, <3>1 DEF RoomInv, RoomTypeOK, HeldByPresent
  <2> QED
    BY <2>1, <2>2
<1>7. \A q \in Members \ {p} : inbox'[q] = inbox[q] /\ name'[q] = name[q]
  BY <1>1 DEF RoomInv, RoomTypeOK
<1>8. inbox'[p] = <<Welcome(n)>> /\ name'[p] = n
  BY <1>1 DEF RoomInv, RoomTypeOK
<1>9. GreetedFirst'
  <2> SUFFICES ASSUME NEW q \in Members
               PROVE  /\ name'[q] = NoName => inbox'[q] = <<>>
                      /\ name'[q] # NoName =>
                           /\ inbox'[q] # <<>>
                           /\ inbox'[q][1] = Welcome(name'[q])
                           /\ \A i \in 2..Len(inbox'[q]) :
                                inbox'[q][i] \notin {Welcome(o) : o \in Names}
    BY DEF GreetedFirst
  <2>1. CASE q = p
    BY <1>2, <1>3, <1>8, <2>1
  <2>2. CASE q # p
    BY <1>7, <2>2 DEF RoomInv, GreetedFirst
  <2> QED
    BY <2>1, <2>2
<1>10. SameOrder'
  <2> SUFFICES ASSUME NEW q \in Present(room'), NEW o \in Present(room'),
                      NEW k \in 0..Len(inbox'[q]),
                      k + 1 < Len(inbox'[q]), k + 1 < Len(inbox'[o])
               PROVE  inbox'[q][Len(inbox'[q]) - k] = inbox'[o][Len(inbox'[o]) - k]
    BY DEF SameOrder
  <2>1. q # p /\ o # p
    <3>1. Len(inbox'[p]) = 1 /\ k \in Int /\ ~(k + 1 < 1)
      BY <1>3, <1>8
    <3> QED
      BY <3>1
  <2>2. q \in Present(room) /\ o \in Present(room)
    BY <1>1, <2>1 DEF Present, RoomInv, RoomTypeOK
  <2>3. inbox'[q] = inbox[q] /\ inbox'[o] = inbox[o]
    BY <1>7, <2>1, <2>2, PresentFacts DEF RoomInv
  <2> QED
    BY <2>2, <2>3 DEF RoomInv, SameOrder
<1>11. UnheldOnlyByCollision'
  <2> SUFFICES ASSUME NEW q \in Members, q \notin left,
                      name'[q] # NoName, room'[name'[q]] # q
               PROVE  \E o \in Members \ {q} : name'[o] = name'[q]
    BY <1>1 DEF UnheldOnlyByCollision
  <2>1. q # p
    BY <1>1, <1>8 DEF RoomInv, RoomTypeOK
  <2>2. name'[q] = name[q] /\ name[q] \in Names
    BY <1>7, <2>1 DEF RoomInv, RoomTypeOK
  <2>3. CASE name[q] = n
    BY <1>8, <2>1, <2>2, <2>3
  <2>4. CASE name[q] # n
    <3>1. room'[name[q]] = room[name[q]]
      BY <1>1, <2>2, <2>4 DEF RoomInv, RoomTypeOK
    <3>2. PICK o \in Members \ {q} : name[o] = name[q]
      BY <2>2, <3>1 DEF RoomInv, UnheldOnlyByCollision
    <3>3. o # p
      BY <1>1, <2>2, <3>2 DEF RoomAssumption
    <3> QED
      BY <1>7, <2>2, <3>2, <3>3
  <2> QED
    BY <2>3, <2>4
<1> QED
  BY <1>4, <1>6, <1>9, <1>10, <1>11 DEF RoomInv

LEMMA NextRoomInv == RoomAssumption /\ RoomInv /\ [Next]_roomVars => RoomInv'
<1> SUFFICES ASSUME RoomAssumption, RoomInv, [Next]_roomVars PROVE RoomInv'
  OBVIOUS
<1>1. CASE UNCHANGED roomVars
  BY <1>1 DEF roomVars, RoomInv, RoomTypeOK, HeldByPresent, GreetedFirst, SameOrder,
              Present, UnheldOnlyByCollision
<1> QED
  BY <1>1, SayStep, LeaveStep, JoinStep DEF Next

(* The room keeps everything it promises. *)
THEOREM RoomCorrect ==
  ASSUME RoomAssumption PROVE Spec => []RoomInv
<1>1. Init => RoomInv
  BY InitRoomInv
<1>2. RoomInv /\ [Next]_roomVars => RoomInv'
  BY NextRoomInv
<1> QED
  BY <1>1, <1>2, PTL DEF Spec

-----------------------------------------------------------------------------
(* A step adds one message at most to an inbox, none to the inbox of a member
   that has left, and takes nothing back. *)
OnlyAppended ==
  [][\A p \in Members :
       \/ inbox'[p] = inbox[p]
       \/ p \notin left /\ \E m \in Message : inbox'[p] = Append(inbox[p], m)]_roomVars

LEMMA AppendedStep ==
  ASSUME RoomAssumption, RoomInv, [Next]_roomVars, NEW p \in Members
  PROVE  \/ inbox'[p] = inbox[p]
         \/ p \notin left /\ \E m \in Message : inbox'[p] = Append(inbox[p], m)
<1>1. ASSUME NEW T \in SUBSET Present(room), NEW m \in Message, inbox' = Post(T, m)
      PROVE  \/ inbox'[p] = inbox[p]
             \/ p \notin left /\ inbox'[p] = Append(inbox[p], m)
  BY <1>1, PresentFacts DEF Post, RoomInv
<1>2. ASSUME NEW m \in Texts, Say(m)
      PROVE  inbox' = Post(Present(room), m) /\ m \in Message
  BY <1>2 DEF Say, Message
<1>3. ASSUME NEW q \in Members, Leave(q)
      PROVE  /\ inbox' = Post(Present(room'), Goodbye(name[q])) /\ Goodbye(name[q]) \in Message
             /\ Present(room') \subseteq Present(room)
  <2>1. /\ name[q] \in Names /\ room' = [room EXCEPT ![name[q]] = Nobody]
        /\ inbox' = Post(Present(room'), Goodbye(name[q]))
    BY <1>3 DEF Leave, RoomInv, RoomTypeOK
  <2>2. \A n \in Names : room'[n] # Nobody => room'[n] = room[n]
    BY <2>1 DEF RoomInv, RoomTypeOK
  <2> QED
    BY <2>1, <2>2 DEF Present, Message
<1>4. ASSUME NEW q \in Members, NEW n \in Names, Join(q, n)
      PROVE  \/ inbox'[p] = inbox[p]
             \/ p \notin left /\ \E m \in Message : inbox'[p] = Append(inbox[p], m)
  <2>1. /\ name[q] = NoName /\ inbox' = [inbox EXCEPT ![q] = <<Welcome(n)>>]
        /\ Welcome(n) \in Message
    BY <1>4 DEF Join, Message
  <2>2. q \notin left /\ inbox[q] = <<>>
    BY <2>1 DEF RoomInv, RoomTypeOK, GreetedFirst
  <2>3. Append(<<>>, Welcome(n)) = <<Welcome(n)>>
    OBVIOUS
  <2> QED
    BY <2>1, <2>2, <2>3 DEF RoomInv, RoomTypeOK
<1>5. CASE UNCHANGED roomVars
  BY <1>5 DEF roomVars
<1> QED
  BY <1>1, <1>2, <1>3, <1>4, <1>5 DEF Next

(* Nothing that was sent to a member is lost or reordered, and a member that
   has left is sent nothing. *)
THEOREM NothingTakenBack ==
  ASSUME RoomAssumption PROVE Spec => OnlyAppended
<1>1. RoomInv /\ [Next]_roomVars =>
        [\A p \in Members :
           \/ inbox'[p] = inbox[p]
           \/ p \notin left /\ \E m \in Message : inbox'[p] = Append(inbox[p], m)]_roomVars
  BY AppendedStep
<1> QED
  BY <1>1, RoomCorrect, PTL DEF Spec, OnlyAppended

=============================================================================
