----------------------------- MODULE MCTerminal -----------------------------
(***************************************************************************)
(* Instances of Terminal.                                                  *)
(***************************************************************************)
EXTENDS Terminal

Shifted == [c \in {"a"} |-> "A"]
=============================================================================
