----------------------------- MODULE MCRequests -----------------------------
(* A small instance of Requests: fewer connections than requests.          *)
EXTENDS Requests

CONSTANTS r1, r2
=============================================================================
