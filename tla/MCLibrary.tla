----------------------------- MODULE MCLibrary -----------------------------
(* Library for TLC: -1 is an int whose low byte is the largest one.        *)
EXTENDS Library

MCInts == {-1, 0}
=============================================================================
