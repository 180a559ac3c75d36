------------------------------ MODULE Optional ------------------------------
(* Optional fields: a field that is not set has the value NONE.            *)
CONSTANT NONE

Opt(S) == S \cup {NONE}
Default(x, d) == IF x = NONE THEN d ELSE x
=============================================================================
