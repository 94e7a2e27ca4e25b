---------------------------- MODULE MCHttpServer ----------------------------
(* Three clients for a table of two sockets.  One sends two requests of any
   form, the second also without waiting for the answer; one asks once and may
   leave whenever it likes; one comes and stays. *)
EXTENDS HttpServer, TLC

CONSTANTS c1, c2, c3

Visitors == {c1, c2, c3}
Going == {c2}
Hurry == {c1}
Tidy == {c2}
Limit == c1 :> 2 @@ c2 :> 1 @@ c3 :> 0
Lines == c1 :> 2 @@ c2 :> 1 @@ c3 :> 0
=============================================================================
