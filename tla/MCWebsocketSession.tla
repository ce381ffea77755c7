------------------------- MODULE MCWebsocketSession -------------------------
(***************************************************************************)
(* Instance of WebsocketSession for TLC.  One tick is one second: sessions *)
(* accepted at the same tick get the same id, later ones another.          *)
(***************************************************************************)
EXTENDS WebsocketSession, TLC

(* The string generated in each second. *)
MCIdAt == [t \in 0..MaxTime |-> IF to_time_t(t) = 0 THEN "id0" ELSE "id1"]
MCIds == {MCIdAt[t] : t \in 0..MaxTime}

(* A token the server issued at tick 0, the same one with a lifetime that has
   run out at tick 1, and one signed with another secret. *)
MCTokenOf ==
  LET b == Issued(0, 0)
  IN  [n \in TokenNames |->
         CASE n = "issued" -> sign(b, hs256(Secret))
           [] n = "short" -> sign(set_expires_at(b, 0), hs256(Secret))
           [] n = "forged" -> sign(b, hs256("guess"))]

Symmetry == Permutations(Sessions)

=============================================================================
