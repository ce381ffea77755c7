------------------------------- MODULE ChatRoom -------------------------------
(***************************************************************************)
(* What the chat core promises, without queues, streams, handlers or       *)
(* ownership: a room with named places.  A member who joins takes a place, *)
(* even an occupied one, and is told its name.  A message is appended to   *)
(* the inbox of every member that holds a place.  A member leaves at most  *)
(* once; its place is vacated and the remaining members are told.          *)
(***************************************************************************)
EXTENDS Naturals, Sequences

CONSTANTS Members, Names, NoName, Nobody,
          Welcome(_), Goodbye(_),   \* the texts for a name
          Texts                     \* the chat messages

(* What a room may assume of its parameters. *)
RoomAssumption ==
  /\ NoName \notin Names
  /\ Nobody \notin Members
  /\ \A n \in Names : Welcome(n) \notin {Goodbye(o) : o \in Names} \cup Texts

VARIABLES room,    \* who holds each place
          name,    \* the name each member joined under
          left,    \* members that have left
          inbox    \* everything each member has been sent, in order

roomVars == <<room, name, left, inbox>>

Present(r) == {r[n] : n \in Names} \ {Nobody}

Post(T, m) == [p \in Members |-> IF p \in T THEN Append(inbox[p], m) ELSE inbox[p]]

Init ==
  /\ room = [n \in Names |-> Nobody]
  /\ name = [p \in Members |-> NoName]
  /\ left = {}
  /\ inbox = [p \in Members |-> <<>>]

Join(p, n) ==
  /\ name[p] = NoName
  /\ name' = [name EXCEPT ![p] = n]
  /\ room' = [room EXCEPT ![n] = p]
  /\ inbox' = [inbox EXCEPT ![p] = <<Welcome(n)>>]
  /\ UNCHANGED left

Say(m) ==
  /\ inbox' = Post(Present(room), m)
  /\ UNCHANGED <<room, name, left>>

Leave(p) ==
  /\ name[p] # NoName
  /\ p \notin left
  /\ left' = left \cup {p}
  /\ room' = [room EXCEPT ![name[p]] = Nobody]
  /\ inbox' = Post(Present(room'), Goodbye(name[p]))
  /\ UNCHANGED name

Next ==
  \/ \E p \in Members, n \in Names : Join(p, n)
  \/ \E m \in Texts : Say(m)
  \/ \E p \in Members : Leave(p)

Spec == Init /\ [][Next]_roomVars

-----------------------------------------------------------------------------
(* Properties of the room. *)

Message == {Welcome(n) : n \in Names} \cup {Goodbye(n) : n \in Names} \cup Texts

RoomTypeOK ==
  /\ room \in [Names -> Members \cup {Nobody}]
  /\ name \in [Members -> Names \cup {NoName}]
  /\ left \subseteq {p \in Members : name[p] # NoName}
  /\ inbox \in [Members -> Seq(Message)]

(* Whoever holds a place joined under its name and has not left. *)
HeldByPresent ==
  \A n \in Names : room[n] # Nobody => name[room[n]] = n /\ room[n] \notin left

(* The first thing a member is sent is its own name, and nobody is welcomed
   twice. *)
GreetedFirst ==
  \A p \in Members :
    /\ name[p] = NoName => inbox[p] = <<>>
    /\ name[p] # NoName =>
         /\ inbox[p] # <<>>
         /\ inbox[p][1] = Welcome(name[p])
         /\ \A i \in 2..Len(inbox[p]) : inbox[p][i] \notin {Welcome(n) : n \in Names}

(* Two members that hold places have been sent the same messages in the same
   order since the younger one joined: counted from the end, and up to the
   welcome, their inboxes agree. *)
SameOrder ==
  \A p, q \in Present(room) :
    \A k \in 0..Len(inbox[p]) :
      k + 1 < Len(inbox[p]) /\ k + 1 < Len(inbox[q]) =>
        inbox[p][Len(inbox[p]) - k] = inbox[q][Len(inbox[q]) - k]

(* A member that has not left but holds no place shares its name. *)
UnheldOnlyByCollision ==
  \A p \in Members \ left :
    name[p] # NoName /\ room[name[p]] # p => \E q \in Members \ {p} : name[q] = name[p]

=============================================================================
