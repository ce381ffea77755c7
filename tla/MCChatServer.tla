---------------------------- MODULE MCChatServer ----------------------------
(***************************************************************************)
(* Instance of ChatServer for TLC: one tick is one second, a token issued  *)
(* at the first has expired at the second.                                 *)
(***************************************************************************)
EXTENDS ChatServer, TLC

Jwt == INSTANCE Jwt

MCTokens == {"t0", "t1", "none"}
MCIssuedAs == [t \in 0..MaxTime |-> IF t = 0 THEN "t0" ELSE "t1"]
MCTokenOf ==
  [n \in Tokens |-> CASE n = "t0" -> Jwt!IssuedToken(0, 0)
                      [] n = "t1" -> Jwt!IssuedToken(1, 1)
                      [] n = "none" -> <<>>]

MCIds == {"id"}
MCIdAt == [t \in 0..MaxTime |-> "id"]

TokenRequest ==
  [method |-> "GET", target |-> "/api/ws", token |-> "none", keep_alive |-> TRUE, upgrade |-> FALSE]

MCRequests ==
  {TokenRequest} \cup {[TokenRequest EXCEPT !.token = tok, !.upgrade = TRUE] : tok \in {"t0", "none"}}

Symmetry == Permutations(Connections)

(* Bound: clients send nothing behind an upgrade request.  No http_session reads
   beyond one, so that such a request would stay in the connection for ever. *)
MCRequest(c) ==
  /\ \A k \in DOMAIN sent[c] : ~sent[c][k].upgrade
  /\ Request(c)

MCNext ==
  \/ MainAction \/ DestroyOther \/ Tick
  \/ \E c \in Connections :
       \/ Accept(c) \/ Answer(c) \/ Respond(c) \/ FailRead(c) \/ FailWrite(c) \/ HandOver(c)
       \/ WebsocketHandler(c) \/ DestroyWebsocketHandler(c)
       \/ Arrive(c) \/ MCRequest(c) \/ Go(c)

MCSpec == ChatInit /\ [][MCNext]_chatVars

=============================================================================
