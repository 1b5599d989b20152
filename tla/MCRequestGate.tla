--------------------------- MODULE MCRequestGate ----------------------------
(* Three hosts and the bearer, for a limiter that remembers two keys.  On  *)
(* every host there are calls without the bearer, and a holder of it who   *)
(* asks, searches with too long a query, and gives feedback.               *)
EXTENDS RequestGate, TLC

CONSTANTS bearer

Hosts == Callers \ {bearer}

MCRequests ==
  [host : Hosts, bearer : {FALSE}, route : {"ask"}, oversized : {FALSE}]
  \cup [host : Hosts, bearer : {TRUE}, route : {"ask", "feedback"}, oversized : {FALSE}]
  \cup [host : Hosts, bearer : {TRUE}, route : {"search"}, oversized : {TRUE}]

Symmetric == Permutations(Hosts)
=============================================================================
