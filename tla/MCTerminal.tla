----------------------------- MODULE MCTerminal -----------------------------
(* Two letters that are shortcuts with ctrl, space, backspace, enter on    *)
(* both sides, both ctrl keys and an extended alt; a line of six cells, so *)
(* that three words fit, and an argv of two.                               *)
EXTENDS Terminal
=============================================================================
