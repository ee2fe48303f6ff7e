----------------------------- MODULE MCMachine -----------------------------
(* Machine for TLC: one of two contents has a null selector in %ds.        *)
EXTENDS Machine

MCDataSelector == [v \in Values |-> IF v = 0 THEN AppData ELSE 0]
=============================================================================
