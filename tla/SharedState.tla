----------------------------- MODULE SharedState -----------------------------
(***************************************************************************)
(* shared_state: the map from connection ids to WebSocket sessions, and    *)
(* the operations that hand a message to the sessions in it.               *)
(*                                                                         *)
(* As in the C++ headers, shared_state and websocket_session refer to each *)
(* other: the outgoing side of a session (queue_ and the async_write       *)
(* operations under way) is declared here because connect, disconnect and  *)
(* broadcast change it through websocket_session::send.                    *)
(*                                                                         *)
(* The program is single threaded, so a handler is one step.  A handler    *)
(* may call several of these operations one after the other: each takes    *)
(* the values its predecessor left (map, q, w) as arguments.               *)
(***************************************************************************)
EXTENDS Naturals, Sequences

CONSTANTS Sessions,    \* the websocket_session objects that may be created
          Ids,         \* the strings generate_random_string can return
          NoId,        \* the empty connection_id of a session not yet accepted
          nullptr

ASSUME SharedStateAssumption ==
  /\ nullptr \notin Sessions
  /\ NoId \notin Ids

VARIABLES sessions_,   \* shared_state::sessions_; an id not in the map is nullptr
          queue_,      \* websocket_session::queue_ of each session
          writes       \* the buffers of each session's outstanding async_writes

(* The texts the server sends: the greeting of connect(), the announcement of
   disconnect(), and the n-th chat message read from any client. *)
Greeting(id) == [kind |-> "connected", id |-> id]
Farewell(id) == [kind |-> "disconnected", id |-> id]
Chat(n) == [kind |-> "chat", n |-> n]

-----------------------------------------------------------------------------

(* websocket_session::send(m) on every session of T: queue the message, and
   start writing the front of the queue unless a write is already under way. *)

(* Faulty variant: the message goes before the ones that wait. *)
Pushed_NewestNext(T, m, q) ==
  LET jumped(u) == IF u = <<>> THEN <<m>> ELSE <<Head(u), m>> \o Tail(u)
  IN  [t \in Sessions |-> IF t \in T THEN jumped(q[t]) ELSE q[t]]

Pushed(T, m, q) == [t \in Sessions |-> IF t \in T THEN Append(q[t], m) ELSE q[t]]

(* Faulty variant: the test for a write under way is missing. *)
Idle_Always(T, q) == T

Idle(T, q) == {t \in T : ~(Len(q[t]) > 1)}

Started(T, q, w) ==
  [t \in Sessions |-> IF t \in Idle(T, q) THEN Append(w[t], Head(q[t])) ELSE w[t]]

SessionSend(T, m, q, w) ==
  /\ queue_' = Pushed(T, m, q)
  /\ writes' = Started(T, Pushed(T, m, q), w)

get(map, id) == map[id]

(* The sessions broadcast() visits: every value of the map that is not null. *)
Registered(map) == {map[id] : id \in Ids} \ {nullptr}

broadcast(map, m, q, w) == SessionSend(Registered(map), m, q, w)

SendTo(map, id, m, q, w) == SessionSend({get(map, id)} \ {nullptr}, m, q, w)

(* Faulty variant: the greeting goes to everybody. *)
connect_GreetAll(id, s, q, w) ==
  LET map == [sessions_ EXCEPT ![id] = s]
  IN  /\ sessions_' = map
      /\ broadcast(map, Greeting(id), q, w)

connect(id, s, q, w) ==
  LET map == [sessions_ EXCEPT ![id] = s]
  IN  /\ sessions_' = map
      /\ SendTo(map, id, Greeting(id), q, w)

(* Faulty variants of disconnect: without the test for the empty id, without
   the erase, erasing only after the broadcast, and clearing the whole map. *)
disconnect_NoTest(id, q, w) ==
  LET map == [sessions_ EXCEPT ![id] = nullptr]
  IN  /\ sessions_' = map
      /\ broadcast(map, Farewell(id), q, w)

disconnect_NoErase(id, q, w) ==
  /\ UNCHANGED sessions_
  /\ \/ id = NoId /\ queue_' = q /\ writes' = w
     \/ id # NoId /\ broadcast(sessions_, Farewell(id), q, w)

disconnect_EraseLast(id, q, w) ==
  \/ id = NoId /\ queue_' = q /\ writes' = w /\ UNCHANGED sessions_
  \/ /\ id # NoId
     /\ sessions_' = [sessions_ EXCEPT ![id] = nullptr]
     /\ broadcast(sessions_, Farewell(id), q, w)

disconnect_Clear(id, q, w) ==
  \/ id = NoId /\ queue_' = q /\ writes' = w /\ UNCHANGED sessions_
  \/ /\ id # NoId
     /\ sessions_' = [i \in Ids |-> nullptr]
     /\ broadcast(sessions_', Farewell(id), q, w)

disconnect(id, q, w) ==
  \/ /\ id = NoId
     /\ queue_' = q
     /\ writes' = w
     /\ UNCHANGED sessions_
  \/ /\ id # NoId
     /\ LET map == [sessions_ EXCEPT ![id] = nullptr]
        IN  /\ sessions_' = map
            /\ broadcast(map, Farewell(id), q, w)

=============================================================================
