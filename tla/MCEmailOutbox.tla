---------------------------- MODULE MCEmailOutbox ----------------------------
(***************************************************************************)
(* A small instance of EmailOutbox: one notice, one invite and one test     *)
(* send, two attempts.  A batch holds both messages, so that one can be      *)
(* claimed and left behind while the other is sent.                          *)
(***************************************************************************)
EXTENDS EmailOutbox

\* Every retry waits for one unit of time.
Delays == [n \in 0..(MaxAttempts - 1) |-> 1]
=============================================================================
