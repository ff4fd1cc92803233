--------------------------- MODULE MCTranscription ---------------------------
(* Transcription on small instances.                                       *)
EXTENDS Transcription, TLC

CONSTANTS p1, r1, r2, c1, w1, w2

TranscriptionSymmetry == Permutations({w1, w2}) \cup Permutations({r1, r2})
=============================================================================
