--------------------------- MODULE MCAudioDecoder ---------------------------
(* Small instances of AudioDecoder: a ring of six slots, which the pointers *)
(* wrap around; decoders are compared for equality only.                    *)
EXTENDS AudioDecoder, TLC

\* No step of the decoder module depends on what it has asked for (req).
AllButRequests == <<stream, decoders, outputs, task, irq, fault>>
Symmetry == Permutations(Decoders)
=============================================================================
