------------------------------ MODULE A2dpSink ------------------------------
(***************************************************************************)
(* The A2DP sink scene (components/modules/audio/audio_a2dp_sink.c) on top *)
(* of the audio decoder module.  Encoded frames arrive as events of the    *)
(* audio task and wait in raw_frame_list; the decoder is started when      *)
(* start_thd of them have been counted, and stopped by the interrupt of    *)
(* the audio hardware as soon as samples are missing.  The decoder module  *)
(* asks for data from the same interrupt, with an event that the audio     *)
(* task serves by decoding frames from the list.                           *)
(*                                                                         *)
(* Every step is a step of AudioDecoder that says in addition what the     *)
(* scene does in it.                                                       *)
(***************************************************************************)
EXTENDS AudioDecoder

CONSTANTS
  ReadyThd,  \* DECODER_DATA_READY_THD
  MaxThd,    \* DECODER_DATA_MAX_THD
  MaxReqs,   \* bound: requests queued; one more is lost as if malloc failed
  Speaker    \* the output to the audio hardware

ASSUME SinkAssumption ==
  /\ ReadyThd \in Nat \ {0} /\ MaxThd \in Nat /\ ReadyThd < MaxThd
  /\ MaxReqs \in Nat \ {0}

VARIABLES
  thd,   \* env->start_thd
  nb,    \* env->raw_frame_nb_in_list, the length of raw_frame_list
  reqs,  \* REQ_ENCODED_FRAME events queued to the audio task
  step   \* where the audio task is in this scene

sink == <<thd, nb, reqs, step>>
sinkVars == <<vars, sink>>

SinkInit ==
  /\ Init
  /\ thd = 0 /\ nb = 0 /\ reqs = 0
  /\ step = "off"

\* A request of the decoder module is turned into an event at once.
NoRequest == req = {}

DecoderRequestRawData ==
  /\ req = {Host}
  /\ req' = {}
  /\ reqs' = IF reqs < MaxReqs THEN reqs + 1 ELSE reqs
  /\ UNCHANGED <<stream, decoders, outputs, task, irq, fault, thd, nb, step>>

-----------------------------------------------------------------------------
(***************************************************************************)
(* init and destroy.  The hardware is started last and stopped first.      *)
(***************************************************************************)
\* Mutant: the threshold is left as an earlier scene had it.
SceneInitKeepsThd ==
  /\ step = "off" /\ step' = "adding"
  /\ DecoderInit
  /\ nb' = 0
  /\ UNCHANGED <<reqs, thd>>

SceneInit ==
  /\ step = "off" /\ step' = "adding"
  /\ DecoderInit
  /\ thd' = ReadyThd /\ nb' = 0
  /\ UNCHANGED reqs

SceneAddDecoder ==
  /\ step = "adding" /\ step' = "opening"
  /\ DecoderAdd(Host)
  /\ UNCHANGED <<thd, nb, reqs>>

SceneAddOutput ==
  /\ step = "opening" /\ step' = "wait"
  /\ OutputAdd(Speaker)
  /\ UNCHANGED <<thd, nb, reqs>>

SceneDestroy ==
  /\ step = "wait" /\ step' = "off"
  /\ DecoderDestroy
  /\ nb' = 0
  /\ UNCHANGED <<thd, reqs>>

\* A request for a scene that is gone is not delivered.
RequestTooLate ==
  /\ step = "off" /\ reqs > 0
  /\ reqs' = reqs - 1
  /\ UNCHANGED <<vars, thd, nb, step>>

-----------------------------------------------------------------------------
(***************************************************************************)
(* event_handler                                                           *)
(***************************************************************************)
Start == IF state[Host] = "decoding" THEN TaskFree /\ UNCHANGED vars ELSE DecoderStart(Host)

\* Mutant: the frame is dropped and that is all.
FrameDroppedSilently ==
  /\ nb > MaxThd
  /\ TaskFree /\ UNCHANGED <<vars, thd, nb>>

\* RECV_ENCODED_FRAME: a full list starts the decoder and drops the frame.
FrameDropped ==
  /\ nb > MaxThd
  /\ Start
  /\ UNCHANGED <<thd, nb>>

\* Mutant: the list grows as long as the threshold is being counted.
FrameKeptWhileCounting ==
  /\ nb <= MaxThd + thd + 1
  /\ nb' = nb + 1
  /\ thd' = IF thd > 0 THEN thd - 1 ELSE 0
  /\ IF thd = 1 THEN Start ELSE TaskFree /\ UNCHANGED vars

FrameKept ==
  /\ nb <= MaxThd
  /\ nb' = nb + 1
  /\ thd' = IF thd > 0 THEN thd - 1 ELSE 0
  /\ IF thd = 1 THEN Start ELSE TaskFree /\ UNCHANGED vars

RecvFrame ==
  /\ step = "wait"
  /\ FrameDropped \/ FrameKept
  /\ UNCHANGED <<reqs, step>>

\* REQ_ENCODED_FRAME: what is still waiting to be mixed comes first.
ReqFrame ==
  /\ step = "wait" /\ reqs > 0
  /\ Decode(Host)
  /\ reqs' = reqs - 1
  /\ step' = IF state[Host] = "decoding" THEN "asked" ELSE "wait"
  /\ UNCHANGED <<thd, nb>>

\* The head of the list is given to the decoder, which the interrupt may have
\* stopped in the meantime.
PickFrame ==
  /\ step = "next"
  /\ Decode(Host)
  /\ step' = IF state[Host] = "decoding" THEN "frame" ELSE "wait"
  /\ UNCHANGED <<thd, nb, reqs>>

\* The ring is almost full: the frame stays in the list.
SinkStatus ==
  /\ Status
  /\ step' = IF AlmostFull(cur) THEN "wait" ELSE step
  /\ UNCHANGED <<thd, nb, reqs>>

\* A frame is decoded once.
SinkDecodeFrame ==
  /\ step = "frame" /\ step' = "decoded"
  /\ DecodeFrame
  /\ UNCHANGED <<thd, nb, reqs>>

\* audio_decoder_decode returns: the list is served unless frames are still
\* being counted, the frame that has been used up goes, and so on until the
\* ring is almost full or the list is empty.
Continues(left) == IF ~AlmostFull(cur) /\ left > 0 THEN "next" ELSE "wait"

SinkReturns ==
  /\ InputUsedUp
  /\ IF step = "asked"
     THEN step' = (IF thd = 0 THEN Continues(nb) ELSE "wait") /\ UNCHANGED nb
     ELSE step' = Continues(nb - 1) /\ nb' = nb - 1
  /\ UNCHANGED <<thd, reqs>>

SinkMixes ==
  /\ \/ MixBegin \/ MixSearch \/ MixPick \/ MixSave \/ MixAdvance \/ MixEnd
     \/ UpdateMin \/ UpdateCommit
  /\ UNCHANGED sink

-----------------------------------------------------------------------------
(***************************************************************************)
(* hw_request_pcm_handler: audio_decoder_get_pcm; if samples are missing   *)
(* the decoder is stopped, and frames are counted anew if there are few.   *)
(***************************************************************************)
SinkPull == IsrPull(Speaker) /\ UNCHANGED sink

SinkPullGoesOn == (IsrCheck \/ IsrConsumed) /\ UNCHANGED sink

SinkMissed ==
  /\ IsrMissed
  /\ thd' = IF missed[irq.output] > 0 /\ thd = 0 /\ nb < ReadyThd THEN ReadyThd ELSE thd
  /\ UNCHANGED <<nb, reqs, step>>

-----------------------------------------------------------------------------
SceneCalls == SceneInit \/ SceneAddDecoder \/ SceneAddOutput \/ SceneDestroy
SinkTask == ReqFrame \/ PickFrame \/ SinkStatus \/ SinkDecodeFrame \/ SinkReturns
              \/ SinkMixes \/ RequestTooLate
SinkIsr == SinkPullGoesOn \/ SinkMissed

SinkNext ==
  \/ DecoderRequestRawData
  \/ NoRequest /\ (SceneCalls \/ RecvFrame \/ SinkTask \/ SinkPull \/ SinkIsr)

\* The audio task serves its queue in order, so a frame that keeps arriving is
\* handled however many requests come in between; an interrupt runs to its end
\* and the hardware pulls as long as it is on.
SinkFairness ==
  /\ WF_sinkVars(DecoderRequestRawData)
  /\ WF_sinkVars(NoRequest /\ SinkIsr)
  /\ WF_sinkVars(NoRequest /\ SinkPull)
  /\ SF_sinkVars(NoRequest /\ SinkTask)
  /\ SF_sinkVars(NoRequest /\ RecvFrame)

SinkSpec == SinkInit /\ [][SinkNext]_sinkVars /\ SinkFairness

-----------------------------------------------------------------------------
\* The scene's own counters stay within their limits; the list of raw frames
\* holds at most one more than DECODER_DATA_MAX_THD (lines 20-22).
SinkTypeOK ==
  /\ thd \in 0 .. ReadyThd /\ nb \in 0 .. MaxThd + 1 /\ reqs \in 0 .. MaxReqs
  /\ req \subseteq {Host}
  /\ step \in {"off", "adding", "opening", "wait", "asked", "next", "frame", "decoded"}

\* A stream that the interrupt has stopped is started again, in whatever state
\* start_thd and the list were when it stopped (the silent stream of the comment
\* at line 172), as long as frames keep arriving.
StreamResumes ==
  step = "wait" /\ ~Listed(Host) ~> Listed(Host) \/ step = "off"

\* The decoder never starts on fewer frames than DECODER_DATA_READY_THD, though
\* the interrupt sets start_thd from a number of frames that the task, in the
\* middle of decoding one, is about to lower (lines 41 and 155).
StartsWithReserve ==
  [][~Listed(Host) /\ Listed(Host)' => nb' >= ReadyThd]_sinkVars
=============================================================================
