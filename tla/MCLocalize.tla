----------------------------- MODULE MCLocalize -----------------------------
(* One localize beside two kerf new, three codenames, one of them archived too. *)
EXTENDS Doctor

CONSTANTS w1, w2, w3
=============================================================================
