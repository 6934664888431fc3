------------------------------- MODULE MCTui -------------------------------
(* Two markets, lists of windows with no, one or two rows.                   *)
EXTENDS Tui
=============================================================================
