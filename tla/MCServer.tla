------------------------------ MODULE MCServer ------------------------------
(***************************************************************************)
(* Instance of Server for TLC: a plain request, the last request of a      *)
(* connection and an upgrade.                                              *)
(***************************************************************************)
EXTENDS Server

Request(target, keep, upgrade) ==
  [method |-> "GET", target |-> target, token |-> "none", keep_alive |-> keep, upgrade |-> upgrade]

MCRequests ==
  {Request("file", TRUE, FALSE), Request("file", FALSE, FALSE), Request("/api/ws", TRUE, TRUE)}

=============================================================================
