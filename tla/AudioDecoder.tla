---------------------------- MODULE AudioDecoder ----------------------------
(***************************************************************************)
(* The audio decoder module (components/modules/audio/audio_decoder.c): a  *)
(* ring of mixed PCM.  Every started decoder writes it at its own offset,  *)
(* wr_ptr follows the slowest of them; every output reads it up to wr_ptr  *)
(* and rd_ptr follows the slowest output.                                  *)
(*                                                                         *)
(* The audio task decodes and mixes; the interrupt of the audio hardware   *)
(* reads, and mixes what is left of a decoder whose input is over.  The    *)
(* interrupt preempts the task between any two steps that do not run with  *)
(* interrupts masked.  Of the sound itself the model keeps, per slot, whose *)
(* samples have been mixed into it since it was last read.                 *)
(***************************************************************************)
EXTENDS Naturals, Sequences, SequencesExt, FiniteSetsExt

CONSTANTS
  Decoders, Outputs, NULL,
  N,          \* pcm_total_samples
  Rsv,        \* samples kept ahead of a starting decoder
  ReqThd,     \* request_data_thd
  FullThd,    \* mixed_buffer_almost_full_thd
  Frames,     \* how many samples one frame decodes to
  Pull,       \* how many samples the hardware asks for at a time
  MaxPending, \* bound: samples waiting in the PCM list of a decoder
  MaxMissed,  \* bound: samples an output may have missed when it pulls
  Immediate,  \* the outputs that want zeros when samples are missing
  InputEnds,  \* callers tell a decoder that its input is over
  Host        \* decoder that a2dp_sink stops when samples are missing, or NULL

ASSUME DecoderAssumption ==
  /\ NULL \notin Decoders /\ NULL \notin Outputs
  /\ {N, Rsv, ReqThd, FullThd, Pull, MaxPending, MaxMissed} \subseteq Nat
  /\ 0 < FullThd /\ FullThd < Rsv /\ Rsv < ReqThd /\ ReqThd + 2 < N
  /\ Frames \subseteq 1..MaxPending
  /\ Pull > 0 /\ Immediate \subseteq Outputs
  /\ Host \in Decoders \cup {NULL}
  /\ InputEnds \in BOOLEAN

VARIABLES
  inited, wr, rd,  \* audio_decoder_env
  ring,            \* audio_decoder_env.pcm: whose samples are in each slot
  list,            \* decoder_list
  at,              \* which of the lists each decoder is in
  state,           \* decoder->state
  dwr,             \* decoder->wr_ptr
  pending,         \* samples waiting in decoder->pcm_list
  outs,            \* output_list
  ord,             \* output->rd_ptr
  missed,          \* output->missed_samples
  req,             \* decoders that have asked the upper layer for raw data
  pc, cur,         \* the audio task, and the decoder it works on
  resume,          \* where the task goes on after mixing
  fast, dist,      \* locals of mix_decoded_data: fastest_wr_ptr, max_distance
  blk, dealt,      \* the block it is mixing, and how much it has just mixed
  min,             \* min_distance of update_wr_ptr
  irq,             \* how far get_pcm, or output_remove, has come with interrupts masked
  fault            \* why the program stopped, if it did

stream   == <<inited, wr, rd, ring>>
decoders == <<list, at, state, dwr, pending>>
outputs  == <<outs, ord, missed>>
locals   == <<resume, fast, dist, blk, dealt, min>>
task     == <<pc, cur, locals>>
vars     == <<stream, decoders, outputs, req, task, irq, fault>>

Slots == 0 .. N - 1
STALE == NULL   \* the sample an earlier lap, or malloc, left in a slot
Content == SUBSET (Decoders \cup {STALE})
States == {"idle", "decoding", "input_over", "all_mixed"}
Lists == {"none", "wait_start", "decoder_list", "wait_pcm_consumed", "to_be_destroyed"}
Steps == {"idle", "status", "input", "over", "mix", "mix_search", "mix_pick", "mix_save",
          "mix_advance", "mix_end", "update_min", "update_commit"}

\* Positions of the ring: how far b is ahead of a, the k-th after a, the k
\* slots from a on.
Ahead(a, b) == IF b >= a THEN b - a ELSE b + N - a
PlusNoWrapAtEnd(a, k) == IF a + k > N THEN a + k - N ELSE a + k
Plus(a, k) == IF a + k >= N THEN a + k - N ELSE a + k
Span(a, k) == {i \in Slots : Ahead(a, i) < k}

Irq(where, o, i) == [at |-> where, output |-> o, index |-> i]
NoIrq == Irq("none", NULL, 0)

Init ==
  /\ inited = FALSE /\ wr = 0 /\ rd = 0
  /\ ring = [i \in Slots |-> {STALE}]
  /\ list = <<>>
  /\ at = [d \in Decoders |-> "none"]
  /\ state = [d \in Decoders |-> "idle"]
  /\ dwr = [d \in Decoders |-> 0]
  /\ pending = [d \in Decoders |-> 0]
  /\ outs = {}
  /\ ord = [o \in Outputs |-> 0]
  /\ missed = [o \in Outputs |-> 0]
  /\ req = {}
  /\ pc = "idle" /\ cur = NULL
  /\ resume = "idle" /\ fast = 0 /\ dist = 0 /\ blk = 0 /\ dealt = 0 /\ min = 0
  /\ irq = NoIrq
  /\ fault = "none"

-----------------------------------------------------------------------------
(***************************************************************************)
(* The pointers                                                            *)
(***************************************************************************)
\* update_wr_ptr: the write pointer goes on by the distance of the slowest.
MinDistance(l, w, from) == Min({Ahead(from, w[d]) : d \in Range(l)})
Slowest(l, w, from) == IF l = <<>> THEN from ELSE Plus(from, MinDistance(l, w, from))

\* update_rd_ptr: the read pointer goes on by the distance of the slowest output.
SlowestOutput(os, p) == Plus(rd, Min({Ahead(rd, p[o]) : o \in os}))

\* The furthest any started decoder is ahead of wr_ptr.
MaxDistance == Max({Ahead(wr, dwr[d]) : d \in Range(list)} \cup {0})
Fastest == Plus(wr, MaxDistance)

\* AUDIO_DECODER_MIXED_STORE_UPPER and the status it gives.
BeforeKeepsNoGap(p) == p
Before(p) == IF p = 0 THEN N - 1 ELSE p - 1
Space(w) == IF w >= Before(rd) THEN Before(rd) + N - w ELSE Before(rd) - w
NeedMore(d) == Space(dwr[d]) >= ReqThd
AlmostFull(d) == Space(dwr[d]) < ReqThd /\ Space(dwr[d]) < FullThd

\* save_data_to_mixed_buffer: up to the fastest writer samples are added, from
\* there on they are copied, as far as there is space.
Added(d, f, k) == IF k > Ahead(dwr[d], f) THEN Ahead(dwr[d], f) ELSE k
CopiedPastTheReader(d, f, k) == IF k <= Ahead(dwr[d], f) THEN 0 ELSE k - Ahead(dwr[d], f)
Copied(d, f, k) ==
  IF k <= Ahead(dwr[d], f) THEN 0
  ELSE Min({k - Ahead(dwr[d], f), Ahead(f, Before(Before(rd)))})
Dealt(d, f, k) == Added(d, f, k) + Copied(d, f, k)
MixedCopiesAll(d, f, k) ==
  [i \in Slots |-> IF i \in Span(dwr[d], Dealt(d, f, k)) THEN {d} ELSE ring[i]]
Mixed(d, f, k) ==
  [i \in Slots |-> IF i \in Span(f, Copied(d, f, k)) THEN {d}
                   ELSE IF i \in Span(dwr[d], Added(d, f, k)) THEN ring[i] \cup {d}
                   ELSE ring[i]]

Without(d) == RemoveFirst(list, d)
Listed(d) == d \in Range(list)

\* audio_decoder_stop
Stop(d) ==
  /\ list' = Without(d)
  /\ wr' = IF Listed(d) THEN Slowest(Without(d), dwr, wr) ELSE wr
  /\ at' = IF Listed(d) THEN [at EXCEPT ![d] = "wait_start"] ELSE at
  /\ state' = IF Listed(d) THEN [state EXCEPT ![d] = "idle"] ELSE state

\* What mix_decoded_data and audio_decoder_decode do, interrupts masked, when the
\* input of d is over and its PCM list is empty; w are the offsets by then.
Drained(d, w) ==
  /\ list' = Without(d)
  /\ wr' = IF Listed(d) THEN Slowest(Without(d), w, wr) ELSE wr
  /\ at' = [at EXCEPT ![d] = "wait_pcm_consumed"]
  /\ state' = [state EXCEPT ![d] = "all_mixed"]

-----------------------------------------------------------------------------
(***************************************************************************)
(* Calls from the audio task.  Each runs with interrupts masked where it   *)
(* touches what the interrupt reads, so each is one step.                  *)
(***************************************************************************)
TaskFree == fault = "none" /\ irq = NoIrq /\ pc = "idle"

DecoderInit ==
  /\ TaskFree /\ ~inited
  /\ inited' = TRUE /\ wr' = 0 /\ rd' = N - Rsv
  /\ ring' = [i \in Slots |-> IF i >= N - Rsv THEN {} ELSE {STALE}]
  /\ UNCHANGED <<decoders, outputs, req, task, irq, fault>>

DecoderAdd(d) ==
  /\ TaskFree /\ inited /\ at[d] = "none"
  /\ at' = [at EXCEPT ![d] = "wait_start"]
  /\ state' = [state EXCEPT ![d] = "idle"]
  /\ dwr' = [dwr EXCEPT ![d] = 0]
  /\ pending' = [pending EXCEPT ![d] = 0]
  /\ UNCHANGED <<stream, list, outputs, req, task, irq, fault>>

\* A decoder starts where the fastest one is, but at least Rsv ahead of the read
\* pointer; the ring is filled with zeros up to there.
StartsAt == IF Ahead(rd, Fastest) < Rsv THEN Plus(rd, Rsv) ELSE Fastest
ZeroedNothing == {}
Zeroed == Span(Fastest, Ahead(Fastest, StartsAt))

\* What is played before the first sample of d counts as silence of d.  The
\* assertion at line 651 wants d to be in wait_start_list.
DecoderStart(d) ==
  /\ TaskFree /\ at[d] = "wait_start"
  /\ dwr' = [dwr EXCEPT ![d] = StartsAt]
  /\ ring' = [i \in Slots |-> (IF i \in Zeroed THEN {} ELSE ring[i])
                                \cup (IF i \in Span(rd, Ahead(rd, StartsAt)) THEN {d} ELSE {})]
  /\ list' = Append(list, d)
  /\ at' = [at EXCEPT ![d] = "decoder_list"]
  /\ state' = [state EXCEPT ![d] = "decoding"]
  /\ wr' = Slowest(list', dwr', wr)
  /\ UNCHANGED <<inited, rd, pending, outputs, req, task, irq, fault>>

DecoderStop(d) ==
  /\ TaskFree /\ Listed(d)
  /\ Stop(d)
  /\ UNCHANGED <<inited, rd, ring, dwr, pending, outputs, req, task, irq, fault>>

\* stop, then out of whichever list it is in; the PCM list is freed.
DecoderRemove(d) ==
  /\ TaskFree /\ at[d] # "none"
  /\ list' = Without(d)
  /\ wr' = IF Listed(d) THEN Slowest(Without(d), dwr, wr) ELSE wr
  /\ at' = [at EXCEPT ![d] = "none"]
  /\ state' = [state EXCEPT ![d] = "idle"]
  /\ pending' = [pending EXCEPT ![d] = 0]
  /\ req' = req \ {d}
  /\ UNCHANGED <<inited, rd, ring, dwr, outputs, task, irq, fault>>

OutputAdd(o) ==
  /\ TaskFree /\ inited /\ o \notin outs
  /\ outs' = outs \cup {o}
  /\ ord' = [ord EXCEPT ![o] = rd]
  /\ missed' = [missed EXCEPT ![o] = 0]
  /\ UNCHANGED <<stream, decoders, req, task, irq, fault>>

\* The last output goes only with the module, in audio_decoder_destroy.
OutputRemove(o) ==
  LET moved == SlowestOutput(outs \ {o}, ord)
  IN /\ TaskFree /\ o \in outs /\ outs # {o}
     /\ outs' = outs \ {o}
     /\ rd' = moved
     /\ ring' = [i \in Slots |-> IF i \in Span(rd, Ahead(rd, moved)) THEN {STALE} ELSE ring[i]]
     /\ irq' = IF moved # rd THEN Irq("check", NULL, 1) ELSE NoIrq
     /\ UNCHANGED <<inited, wr, decoders, ord, missed, req, task, fault>>

\* Everything is removed.  The pointers are as good as new: nothing reads them
\* before audio_decoder_init has set them.
DecoderDestroy ==
  /\ TaskFree /\ inited
  /\ inited' = FALSE /\ wr' = 0 /\ rd' = 0
  /\ ring' = [i \in Slots |-> {STALE}]
  /\ list' = <<>>
  /\ at' = [d \in Decoders |-> "none"]
  /\ state' = [d \in Decoders |-> "idle"]
  /\ dwr' = [d \in Decoders |-> 0]
  /\ pending' = [d \in Decoders |-> 0]
  /\ outs' = {}
  /\ ord' = [o \in Outputs |-> 0]
  /\ missed' = [o \in Outputs |-> 0]
  /\ req' = {}
  /\ UNCHANGED <<task, irq, fault>>

-----------------------------------------------------------------------------
(***************************************************************************)
(* audio_decoder_decode and mix_decoded_data in the audio task.  The       *)
(* interrupt can come between any two of these steps.                      *)
(***************************************************************************)
TaskAt(p) == fault = "none" /\ irq = NoIrq /\ pc = p

Goto(p) == pc' = p
Done == pc' = "idle" /\ cur' = NULL /\ resume' = "idle"

\* The upper layer calls when it was asked for raw data, or because some came in.
Decode(d) ==
  /\ TaskAt("idle") /\ at[d] # "none"
  /\ req' = req \ {d}
  /\ IF state[d] # "decoding" THEN UNCHANGED <<pc, cur, resume>>
     ELSE /\ cur' = d /\ resume' = "status"
          /\ Goto(IF pending[d] > 0 THEN "mix" ELSE "input")
  /\ UNCHANGED <<stream, decoders, outputs, fast, dist, blk, dealt, min, irq, fault>>

\* No raw data is decoded while the ring is almost full.
Status ==
  /\ TaskAt("status")
  /\ IF AlmostFull(cur) THEN Done ELSE Goto("input") /\ UNCHANGED <<cur, resume>>
  /\ UNCHANGED <<stream, decoders, outputs, req, fast, dist, blk, dealt, min, irq, fault>>

Save(f) ==
  /\ pending[cur] + f <= MaxPending
  /\ pending' = [pending EXCEPT ![cur] = @ + f]
  /\ Goto("mix")

\* A frame of the raw data is decoded, saved in the PCM list and mixed.
DecodeFrame ==
  /\ TaskAt("input")
  /\ \E f \in Frames : Save(f)
  /\ resume' = "input"
  /\ UNCHANGED <<stream, list, at, state, dwr, outputs, req, cur, fast, dist, blk, dealt, min, irq, fault>>

\* The raw data is used up, or gave no PCM.
InputUsedUp ==
  /\ TaskAt("input")
  /\ Done
  /\ UNCHANGED <<stream, decoders, outputs, req, fast, dist, blk, dealt, min, irq, fault>>

\* AUDIO_SPECIAL_LENGTH_FOR_INPUT_OVER, and the codec has given its last samples.
InputOver ==
  /\ TaskAt("input") /\ InputEnds
  /\ state' = [state EXCEPT ![cur] = "input_over"]
  /\ Goto("over")
  /\ UNCHANGED <<stream, list, at, dwr, pending, outputs, req, cur, locals, irq, fault>>

LastFrame ==
  /\ TaskAt("over")
  /\ \E f \in Frames : Save(f)
  /\ resume' = "idle"
  /\ UNCHANGED <<stream, list, at, state, dwr, outputs, req, cur, fast, dist, blk, dealt, min, irq, fault>>

NoLastFrame ==
  /\ TaskAt("over")
  /\ IF pending[cur] = 0 THEN Drained(cur, dwr) ELSE UNCHANGED <<wr, list, at, state>>
  /\ Done
  /\ UNCHANGED <<inited, rd, ring, dwr, pending, outputs, req, fast, dist, blk, dealt, min, irq, fault>>

\* Where decode goes on after mix_decoded_data.
Return == IF resume = "idle" THEN Done ELSE Goto(resume) /\ UNCHANGED <<cur, resume>>

\* The write pointer is read before interrupts are masked.
MixBegin ==
  /\ TaskAt("mix")
  /\ IF pending[cur] = 0 THEN Return /\ UNCHANGED fast
     ELSE fast' = wr /\ Goto("mix_search") /\ UNCHANGED <<cur, resume>>
  /\ UNCHANGED <<stream, decoders, outputs, req, dist, blk, dealt, min, irq, fault>>

\* The furthest decoder is looked for, interrupts masked; what was read before
\* stays if no decoder is ahead.
MixSearch ==
  /\ TaskAt("mix_search")
  /\ dist' = MaxDistance
  /\ fast' = IF MaxDistance = 0 THEN fast ELSE Fastest
  /\ Goto("mix_pick")
  /\ UNCHANGED <<stream, decoders, outputs, req, cur, resume, blk, dealt, min, irq, fault>>

\* The first block of the PCM list; its length is any a frame, or what is left
\* of one, can have.
Blocks(left) == {k \in 1 .. left : \E f \in Frames : k <= f}
Pick(left) ==
  IF left = 0 THEN Goto("mix_end") /\ blk' = 0
  ELSE Goto("mix_save") /\ blk' \in Blocks(left)

MixPick ==
  /\ TaskAt("mix_pick")
  /\ Pick(pending[cur])
  /\ UNCHANGED <<stream, decoders, outputs, req, cur, resume, fast, dist, dealt, min, irq, fault>>

\* blk is 0 when the interrupt has mixed and freed the block in the meantime.
MixSave ==
  /\ TaskAt("mix_save")
  /\ IF blk = 0 THEN fault' = "use_after_free" /\ UNCHANGED <<ring, dealt, pc>>
     ELSE /\ ring' = Mixed(cur, fast, blk)
          /\ dealt' = Dealt(cur, fast, blk)
          /\ Goto("mix_advance") /\ UNCHANGED fault
  /\ UNCHANGED <<inited, wr, rd, decoders, outputs, req, cur, resume, fast, dist, blk, min, irq>>

MixAdvance ==
  LET past == Plus(dwr[cur], dealt)
  IN /\ TaskAt("mix_advance")
     /\ IF blk = 0 THEN fault' = "use_after_free" /\ UNCHANGED <<dwr, pending, pc, fast, blk>>
        ELSE IF dealt > blk THEN fault' = "hang" /\ UNCHANGED <<dwr, pending, pc, fast, blk>>
        ELSE /\ dwr' = [dwr EXCEPT ![cur] = past]
             /\ pending' = [pending EXCEPT ![cur] = @ - dealt]
             /\ IF dealt < blk THEN Goto("mix_end") /\ blk' = 0 /\ UNCHANGED fast
                ELSE /\ fast' = IF Ahead(wr, past) > dist THEN past ELSE fast
                     /\ Pick(pending[cur] - dealt)
             /\ UNCHANGED fault
     /\ dealt' = 0
     /\ UNCHANGED <<stream, list, at, state, outputs, req, cur, resume, dist, min, irq>>

MixEnd ==
  /\ TaskAt("mix_end")
  /\ IF state[cur] = "input_over" /\ pending[cur] = 0 THEN Drained(cur, dwr)
     ELSE UNCHANGED <<wr, list, at, state>>
  /\ Goto("update_min")
  /\ fast' = 0 /\ dist' = 0
  /\ UNCHANGED <<inited, rd, ring, dwr, pending, outputs, req, cur, resume, blk, dealt, min, irq, fault>>

\* update_wr_ptr: the distance is looked for with interrupts masked, and added
\* after they are enabled.
UpdateMin ==
  /\ TaskAt("update_min")
  /\ min' = IF list = <<>> THEN 0 ELSE MinDistance(list, dwr, wr)
  /\ Goto("update_commit")
  /\ UNCHANGED <<stream, decoders, outputs, req, cur, resume, fast, dist, blk, dealt, irq, fault>>

UpdateCommit ==
  /\ TaskAt("update_commit")
  /\ wr' = Plus(wr, min)
  /\ min' = 0
  /\ Return
  /\ UNCHANGED <<inited, rd, ring, decoders, outputs, req, fast, dist, blk, dealt, irq, fault>>

-----------------------------------------------------------------------------
(***************************************************************************)
(* audio_decoder_get_pcm, from the interrupt of the audio hardware.        *)
(***************************************************************************)
\* Is it worth asking for raw data: the read pointer has moved, or samples were
\* missing.
ChecksWhenMoved(moved, take) == moved # rd
Checks(moved, take) == moved # rd \/ take < Pull

\* Samples are discarded for those that were missed, taken, and replaced by
\* zeros if there are too few.
IsrPull(o) ==
  LET avail == Ahead(ord[o], wr)
      discard == Min({missed[o], avail})
      take == Min({avail - discard, Pull})
      zeros == IF o \in Immediate THEN Pull - take ELSE 0
      moved == SlowestOutput(outs, ord')
  IN /\ fault = "none" /\ irq = NoIrq /\ o \in outs /\ missed[o] <= MaxMissed
     /\ inited /\ (list # <<>> \/ \E d \in Decoders : at[d] = "wait_pcm_consumed")
     /\ ord' = [ord EXCEPT ![o] = Plus(@, discard + take)]
     /\ missed' = [missed EXCEPT ![o] = @ - discard + zeros]
     /\ rd' = moved
     /\ ring' = [i \in Slots |-> IF i \in Span(rd, Ahead(rd, moved)) THEN {STALE} ELSE ring[i]]
     /\ irq' = Irq(IF Checks(moved, take) THEN "check" ELSE "consumed", o, 1)
     /\ UNCHANGED <<inited, wr, decoders, outs, req, task, fault>>

\* The interrupt mixes what is left of a decoder whose input is over; the block
\* the task is at, if it is the same decoder, shrinks or is freed.
IsrMix(d) ==
  LET k == Dealt(d, Fastest, pending[d])
      w == [dwr EXCEPT ![d] = Plus(@, k)]
  IN /\ ring' = Mixed(d, Fastest, pending[d])
     /\ dwr' = w
     /\ pending' = [pending EXCEPT ![d] = @ - k]
     /\ blk' = IF d = cur THEN (IF k < blk THEN blk - k ELSE 0) ELSE blk
     /\ IF k = pending[d] THEN Drained(d, w)
        ELSE UNCHANGED <<list, at, state>> /\ wr' = Slowest(list, w, wr)

\* check_request_raw_data at the index-th started decoder.  The list is walked
\* through hdr.next, which a decoder that has left the list no longer has.
IsrCheck ==
  LET d == list[irq.index]
  IN /\ fault = "none" /\ irq.at = "check"
     /\ IF irq.index > Len(list)
        THEN /\ irq' = IF irq.output = NULL THEN NoIrq ELSE Irq("consumed", irq.output, 1)
             /\ UNCHANGED <<wr, ring, decoders, req, blk>>
        ELSE /\ IF state[d] = "decoding"
                THEN /\ req' = IF NeedMore(d) THEN req \cup {d} ELSE req
                     /\ UNCHANGED <<wr, ring, decoders, blk>>
                ELSE /\ IF state[d] = "input_over" /\ pending[d] > 0 THEN IsrMix(d)
                        ELSE UNCHANGED <<wr, ring, decoders, blk>>
                     /\ UNCHANGED req
             /\ irq' = [irq EXCEPT !.index = IF d \in Range(list') THEN @ + 1 ELSE N]
     /\ UNCHANGED <<inited, rd, outputs, pc, cur, resume, fast, dist, dealt, min, fault>>

\* Decoders all of whose samples have been played are told so.
Consumed(d) ==
  /\ at[d] = "wait_pcm_consumed"
  /\ (IF rd >= dwr[d] THEN dwr[d] + N - rd ELSE dwr[d] - rd) <= Pull

IsrConsumed ==
  /\ fault = "none" /\ irq.at = "consumed"
  /\ at' = [d \in Decoders |-> IF Consumed(d) THEN "to_be_destroyed" ELSE at[d]]
  /\ state' = [d \in Decoders |-> IF Consumed(d) THEN "idle" ELSE state[d]]
  /\ irq' = Irq("missed", irq.output, 1)
  /\ UNCHANGED <<stream, list, dwr, pending, outputs, req, task, fault>>

\* hw_request_pcm_handler of audio_a2dp_sink.c: samples were missing.
IsrMissed ==
  /\ fault = "none" /\ irq.at = "missed"
  /\ IF Host # NULL /\ missed[irq.output] > 0
     THEN Stop(Host) /\ missed' = [missed EXCEPT ![irq.output] = 0]
     ELSE UNCHANGED <<wr, list, at, state, missed>>
  /\ irq' = NoIrq
  /\ UNCHANGED <<inited, rd, ring, dwr, pending, outs, ord, req, task, fault>>

-----------------------------------------------------------------------------
Calls ==
  \/ DecoderInit \/ DecoderDestroy
  \/ \E d \in Decoders : DecoderAdd(d) \/ DecoderStart(d) \/ DecoderStop(d) \/ DecoderRemove(d)
                         \/ Decode(d)
  \/ \E o \in Outputs : OutputAdd(o) \/ OutputRemove(o)

Decoding ==
  \/ Status \/ DecodeFrame \/ InputUsedUp \/ InputOver \/ LastFrame \/ NoLastFrame
  \/ MixBegin \/ MixSearch \/ MixPick \/ MixSave \/ MixAdvance \/ MixEnd
  \/ UpdateMin \/ UpdateCommit

InterruptGoesOn == IsrCheck \/ IsrConsumed \/ IsrMissed

Next == Calls \/ Decoding \/ InterruptGoesOn \/ \E o \in Outputs : IsrPull(o)

\* An interrupt handler runs to its end, and the hardware pulls at its sample
\* rate as long as it is on.  Nothing is assumed of the callers.
Fairness ==
  /\ WF_vars(InterruptGoesOn)
  /\ \A o \in Outputs : WF_vars(IsrPull(o))

Spec == Init /\ [][Next]_vars /\ Fairness

-----------------------------------------------------------------------------
\* Every variable stays within what the program can hold.
TypeOK ==
  /\ inited \in BOOLEAN /\ wr \in Slots /\ rd \in Slots
  /\ ring \in [Slots -> Content]
  /\ Range(list) \subseteq Decoders /\ Len(list) = Cardinality(Range(list))
  /\ at \in [Decoders -> Lists]
  /\ \A d \in Decoders : at[d] = "decoder_list" <=> Listed(d)
  /\ state \in [Decoders -> States]
  /\ dwr \in [Decoders -> Slots]
  /\ pending \in [Decoders -> 0 .. MaxPending]
  /\ outs \subseteq Outputs
  /\ ord \in [Outputs -> Slots]
  /\ missed \in [Outputs -> 0 .. MaxMissed + Pull]
  /\ req \subseteq Decoders
  /\ pc \in Steps /\ cur \in Decoders \cup {NULL} /\ resume \in {"idle", "status", "input"}
  /\ fast \in Slots /\ dist \in Slots /\ {blk, dealt} \subseteq 0 .. MaxPending /\ min \in Slots
  /\ irq.at \in {"none", "check", "consumed", "missed"}
  /\ fault \in {"none", "use_after_free", "hang"}

\* From the read pointer on come the outputs, then the write pointer, then the
\* started decoders, and none is so far ahead that it would look behind (the
\* pointer arithmetic of audio_decoder.c, all of it modulo the ring).
WindowOrdered ==
  inited =>
    /\ outs # {} => \E o \in outs : ord[o] = rd
    /\ \A o \in outs : Ahead(rd, ord[o]) <= Ahead(rd, wr)
    /\ \A d \in Range(list) : Ahead(rd, wr) <= Ahead(rd, dwr[d]) /\ Ahead(rd, dwr[d]) <= N - 2

\* Between the read pointer and its own offset every started decoder is in the
\* mix, and nothing of an earlier lap is: adding and copying
\* (save_data_to_mixed_buffer) never overwrites and never adds to old samples.
\* Not while mix_decoded_data is between writing the samples and advancing.
AllMixed ==
  pc # "mix_advance" =>
    \A d \in Range(list) : \A i \in Span(rd, Ahead(rd, dwr[d])) : d \in ring[i] /\ STALE \notin ring[i]

\* What an output may take, up to the write pointer, is never of an earlier lap.
NothingStaleIsPlayed ==
  inited => \A i \in Span(rd, Ahead(rd, wr)) : STALE \notin ring[i]

\* A started decoder short of samples is asked for raw data, or is no longer
\* short of them (get_pcm, the three cases of the comment at line 1078), once
\* the outputs no longer come and go (nor are cut off by the bound MaxMissed),
\* unless the program has stopped.
Needy(d) == Listed(d) /\ state[d] = "decoding" /\ NeedMore(d)
NeedyIsAsked ==
  <>[](outs = Outputs /\ \A o \in Outputs : missed[o] <= MaxMissed) =>
    \A d \in Decoders : Needy(d) ~> (d \in req \/ ~Needy(d) \/ fault # "none")

\* The task never touches a block that has been freed (the corruption token
\* that heap_mem_free checks), nor reaches the while(1) of mix_decoded_data.
BlocksIntact == fault = "none"
=============================================================================
