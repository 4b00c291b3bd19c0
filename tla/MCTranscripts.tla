--------------------------- MODULE MCTranscripts ---------------------------
(* One session with one dispatch, whose commit may name a subtask, beside  *)
(* two kerf next.                                                          *)
EXTENDS Transcripts, TLC

CONSTANTS f1, a1, bead, subtask

MCFileOf == a1 :> f1
MCBeadOf == a1 :> bead
Symmetry == Permutations(Nexts)
MCParentOf == (bead :> bead) @@ (subtask :> bead)
=============================================================================
