----------------------------- MODULE MCFinalize -----------------------------
(* Two works, the second after the first; the second has spec drafts. *)
EXTENDS Finalize

CONSTANTS w1, w2, x, y

MCDependsOn == [w \in Works |-> IF w = w2 THEN {w1} ELSE {}]
MCDrafts == [w \in Works |-> IF w = w2 THEN {x} ELSE {}]
============================================================================
