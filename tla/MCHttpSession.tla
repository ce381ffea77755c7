--------------------------- MODULE MCHttpSession ---------------------------
(***************************************************************************)
(* Instance of HttpSession for TLC.                                        *)
(***************************************************************************)
EXTENDS HttpSession

Request(method, target, keep) ==
  [method |-> method, target |-> target, token |-> "none", keep_alive |-> keep, upgrade |-> FALSE]

MCRequests ==
  {Request("GET", "file", TRUE), Request("GET", "/api/ws", FALSE), Request("HEAD", "file", TRUE),
   Request("GET", "directory", TRUE),
   Request("HEAD", "missing", TRUE), Request("POST", "file", TRUE),
   Request("malformed", "illegal", FALSE),
   [Request("GET", "file", TRUE) EXCEPT !.upgrade = TRUE]}

=============================================================================
