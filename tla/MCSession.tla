----------------------------- MODULE MCSession -----------------------------
(***************************************************************************)
(* Instances of Session: which lines the user types and what the commands  *)
(* they start may do.                                                      *)
(***************************************************************************)
EXTENDS Session

(* Every kind of line but a background command found through PATH; what the *)
(* commands do that the user starts and waits for.                          *)
Lines == {"direct", "direct&", "lookup", "bad", "builtin", "exit"}
JobControl == {"read", "nap", "kill job", "kavana"}

(* Lines found as typed, in the foreground and in the background. *)
MixedJobs == {"direct", "direct&", "exit"}
=============================================================================
