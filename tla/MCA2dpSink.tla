----------------------------- MODULE MCA2dpSink -----------------------------
(* Small instances of A2dpSink: the thresholds of the list of raw frames are *)
(* small but keep their order, so that the list fills up.                    *)
EXTENDS A2dpSink, TLC
=============================================================================
