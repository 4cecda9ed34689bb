------------------------------- MODULE MCServer -------------------------------
(* Instances of Server for TLC: a command that the task resolver knows, and one *)
(* that it does not.                                                           *)
EXTENDS Server, TLC

CONSTANTS paths, other, echo, opt1, opt2
===============================================================================
