------------------------------- MODULE MCFeed -------------------------------
(* Three works, the third without a bead at first; two agents. *)
EXTENDS Feed

CONSTANTS b1, b2, a1, a2

\* The second before both others and the third before the first; or the first
\* two before each other.
MCDeps == {<<{2, 3}, {}, {2}>>, <<{2}, {1}, {}>>}
MCFilters == {<<{b1}, {b2}, {}>>}
MCArchived == {{}, {3}}
MCFlags == [a \in Agents |-> [Default EXCEPT !.include = {"warning"}]]
=============================================================================
