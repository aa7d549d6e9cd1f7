------------------------------ MODULE Capture ------------------------------
(***************************************************************************)
(* The way of a recorded sample (components/modules/audio): the receive    *)
(* interrupt of the audio hardware (audio_hw.c) stores it in a ring and    *)
(* queues an event; the audio task reads the ring on behalf of the scene   *)
(* that runs, which hands it on:                                           *)
(*                                                                         *)
(*  - a call (audio_sco.c) collects frames for the echo canceller and      *)
(*    sends its output through the encoder (audio_encoder.c) to the peer,  *)
(*    as PCM of any length ("cvsd") or in whole packets ("msbc");          *)
(*  - the recorder (recorder.c) encodes what it reads and reports it;      *)
(*  - voice recognition (voice_recognize.c) hands over what it reads;      *)
(*  - loopback (loopback.c) keeps it in a buffer that the transmit         *)
(*    interrupt plays half a buffer later; both interrupts are of one      *)
(*    hardware here (inout_mode), with one clock and one start.            *)
(*                                                                         *)
(* A sample is the number of the instant it was recorded at, modulo Wrap.  *)
(***************************************************************************)
EXTENDS Integers, Sequences, SequencesExt

CONSTANTS
  Addrs, NULL,   \* addresses malloc can return for an audio_scene_t
  Kinds,         \* the kinds of scene the application creates
  TaskPreempts,  \* the audio task has a higher priority than its callers
  Chunk,         \* samples per interrupt: I2S_FIFO_HALF_DEPTH
  RingChunks,    \* AUDIO_HW_STORE_FRAME_COUNT
  AlgoFrame,     \* env->algo_frame_size of a call
  AdcFrames,     \* AUDIO_ALGO_ADC_IN_BUFFER_FRAME_COUNT
  LoopSize,      \* STORE_IN_PCM_DATA_SAMPLES of loopback
  FrameMax,      \* encoder->frame_max_length of a call, in samples
  MaxEvts,       \* bound on the queue of the audio task
  MaxEarly,      \* bound: interrupts before the output has been added
  Wrap           \* bound: samples are numbered modulo this

ASSUME CaptureAssumption ==
  /\ NULL \notin Addrs
  /\ Kinds \subseteq {"cvsd", "msbc", "recorder", "voice", "loopback"}
  /\ TaskPreempts \in BOOLEAN
  /\ {Chunk, RingChunks, AlgoFrame, AdcFrames, LoopSize, FrameMax, MaxEvts}
       \subseteq Nat \ {0}
  /\ MaxEarly \in Nat /\ Wrap \in Nat
  /\ Chunk <= AlgoFrame /\ AlgoFrame + Chunk < AlgoFrame * AdcFrames
  /\ LoopSize % (2 * Chunk) = 0
  /\ Wrap > Max({LoopSize, AlgoFrame * (AdcFrames + 1) + FrameMax})
              + Chunk * RingChunks

VARIABLES
  scene,     \* audio_scene
  life,      \* state of the memory at each scene address
  kind,      \* scene->op
  apc,       \* where the application is in its call
  evts,      \* evt_list
  tpc, cur,  \* where the audio task is, and the event it serves
  rest,      \* samples of that event it has still to read
  owner,     \* sco_scene, recoder_scene or loopback_scene
  hw,        \* the audio_hw_t: whether it exists, interrupts, has an output
  ring, wr, rd,        \* hw->pcm, hw->wr_ptr, output->rd_ptr
  buf, bufWr, bufRd,   \* adc_input of a call, buffer of loopback
  enc,       \* audio_encoder_t
  now,       \* number of the next sample to be recorded
  sent,      \* number of the next sample to be reported or played
  ahead,     \* transmit interrupts minus receive interrupts
  early,     \* receive interrupts since the hardware started, without output
  late,      \* the audio task was once late by more than the buffers hold
  fault      \* why the program stopped, if it did

manager  == <<scene, life, kind, apc>>
task     == <<tpc, cur, rest>>
hardware == <<owner, hw, ring, wr, rd>>
buffer   == <<buf, bufWr, bufRd>>
clock    == <<now, sent, ahead, early, late>>
vars == <<manager, evts, task, hardware, buffer, enc, clock, fault>>

Ptr == Addrs \cup {NULL}
Evt(t, s) == [type |-> t, scene |-> s]
NoEvt == Evt("HW_IN", NULL)
LifeCycle == {"CREATE", "DESTROY"}

Sample == 0 .. Wrap - 1
Noise == Wrap                       \* memory that has not been written
RingSize == Chunk * RingChunks

\* The n samples from number s on, and how many there are from a to b.
Run(s, n) == [i \in 1 .. n |-> (s + i - 1) % Wrap]
Span(a, b) == (b - a) % Wrap

\* The n cells of a buffer of the given size from cell p on, around its end.
Cells(mem, size, p, n) == [i \in 1 .. n |-> mem[(p + i - 1) % size]]
Stored(mem, size, p, data) ==
  [c \in DOMAIN mem |->
     LET i == (c - p) % size IN IF i < Len(data) THEN data[i + 1] ELSE mem[c]]

InCall(k) == k \in {"cvsd", "msbc"}
Here == IF owner = NULL THEN "none" ELSE kind[owner]
BufSize == IF InCall(Here) THEN AlgoFrame * AdcFrames ELSE LoopSize

\* Samples announced to the scene that runs and not yet read.
Announced == {i \in DOMAIN evts : evts[i] = Evt("HW_IN", owner)}
Backlog == Chunk * Cardinality(Announced) + rest

(***************************************************************************)
(* The encoder: frame_list, frame_count, frame_tmp and what the codec      *)
(* keeps until it has enough for a packet.                                 *)
(***************************************************************************)
NewEncoder == [list |-> <<>>, count |-> 0, tmp |-> <<>>, codec |-> <<>>]

Pushed(e, frame) ==
  [e EXCEPT !.list = Append(@, frame), !.count = @ + 1, !.tmp = <<>>]

\* A frame that is full when it is allocated goes to the list at once; the
\* recorder's frames are as long as what is saved in them.
NewFrame(e, data) ==
  IF Here = "recorder" \/ Len(data) = FrameMax
  THEN Pushed(e, data)
  ELSE [e EXCEPT !.tmp = data]

\* Mutant: the part that fills the last frame is saved again in the next.
SaveWhole(e, data) ==
  LET space == FrameMax - Len(e.tmp) IN
  CASE e.tmp = <<>> -> NewFrame(e, data)
    [] e.tmp # <<>> /\ Len(data) <= space -> [e EXCEPT !.tmp = @ \o data]
    [] OTHER -> NewFrame(Pushed(e, e.tmp \o SubSeq(data, 1, space)), data)

\* save_encoded_data: a frame that later data fill stays until there is more.
Save(e, data) ==
  LET space == FrameMax - Len(e.tmp) IN
  CASE e.tmp = <<>> -> NewFrame(e, data)
    [] e.tmp # <<>> /\ Len(data) <= space -> [e EXCEPT !.tmp = @ \o data]
    [] OTHER -> NewFrame(Pushed(e, e.tmp \o SubSeq(data, 1, space)),
                         SubSeq(data, space + 1, Len(data)))

\* data cut into pieces of n samples, the last one shorter.
Pieces(data, n) ==
  [i \in 1 .. (Len(data) + n - 1) \div n |->
     SubSeq(data, n * (i - 1) + 1, Min({n * i, Len(data)}))]

\* The loop over the pieces: save_encoded_data once for each.
SaveAll(e, pieces) ==
  LET saved[i \in 0 .. Len(pieces)] ==
        IF i = 0 THEN e ELSE Save(saved[i - 1], pieces[i])
  IN saved[Len(pieces)]

\* audio_encoder_encode of a frame from the canceller.  PCM is handed over in
\* pieces that fit a packet; the mSBC codec, on the DSP, returns whole packets.
Encoded(e, data) ==
  IF Here = "cvsd" THEN SaveAll(e, Pieces(data, FrameMax))
  ELSE LET all == e.codec \o data
           whole == Len(all) - (Len(all) % FrameMax)
       IN SaveAll([e EXCEPT !.codec = SubSeq(all, whole + 1, Len(all))],
                  Pieces(SubSeq(all, 1, whole), FrameMax))

-----------------------------------------------------------------------------
Init ==
  /\ scene = NULL /\ owner = NULL
  /\ life = [a \in Addrs |-> "free"]
  /\ kind = [a \in Addrs |-> "none"]
  /\ apc = "idle"
  /\ evts = <<>>
  /\ tpc = "wait" /\ cur = NoEvt /\ rest = 0
  /\ hw = [memory |-> FALSE, on |-> FALSE, output |-> FALSE]
  /\ ring = [c \in 0 .. RingSize - 1 |-> Noise] /\ wr = 0 /\ rd = 0
  /\ buf = <<>> /\ bufWr = 0 /\ bufRd = 0
  /\ enc = NewEncoder
  /\ now = 0 /\ sent = 0 /\ ahead = 0 /\ early = 0 /\ late = FALSE
  /\ fault = "none"

Runs == fault = "none"

Crash(why) ==
  /\ fault' = why
  /\ UNCHANGED <<manager, evts, task, hardware, buffer, enc, clock>>

(***************************************************************************)
(* The application creates and destroys scenes.  The semaphore of the      *)
(* scene manager, modelled in AudioScene, is free when no event of the     *)
(* life cycle is queued or being served.                                   *)
(***************************************************************************)
SemaphoreFree ==
  /\ \A i \in DOMAIN evts : evts[i].type \notin LifeCycle
  /\ cur.type \in LifeCycle => tpc = "wait"

AppAt(where) ==
  /\ Runs /\ apc = where
  /\ TaskPreempts => tpc = "wait" /\ evts = <<>>

CreateScene ==
  /\ AppAt("idle") /\ SemaphoreFree
  /\ evts' = IF scene = NULL THEN evts ELSE Append(evts, Evt("DESTROY", scene))
  /\ apc' = "alloc"
  /\ UNCHANGED <<scene, life, kind, task, hardware, buffer, enc, clock, fault>>

AllocateScene ==
  /\ AppAt("alloc")
  /\ \E a \in Addrs, k \in Kinds :
       /\ life[a] = "free"
       /\ life' = [life EXCEPT ![a] = "allocated"]
       /\ kind' = [kind EXCEPT ![a] = k]
       /\ scene' = a
  /\ apc' = "post"
  /\ UNCHANGED <<evts, task, hardware, buffer, enc, clock, fault>>

PostCreate ==
  /\ AppAt("post") /\ SemaphoreFree
  /\ evts' = Append(evts, Evt("CREATE", scene))
  /\ apc' = "idle"
  /\ UNCHANGED <<scene, life, kind, task, hardware, buffer, enc, clock, fault>>

DestroyScene ==
  /\ AppAt("idle") /\ SemaphoreFree /\ scene # NULL
  /\ evts' = Append(evts, Evt("DESTROY", scene))
  /\ UNCHANGED <<manager, task, hardware, buffer, enc, clock, fault>>

-----------------------------------------------------------------------------
(***************************************************************************)
(* Interrupts of the audio hardware, from its start until it is stopped.   *)
(***************************************************************************)
\* How far the audio task may be behind before samples are overwritten, or
\* played before they are there.
Slack ==
  IF Here = "loopback"
  THEN Min({RingSize, LoopSize \div 2 - Chunk * (MaxEarly + 1)})
  ELSE RingSize

NextWr == IF wr + Chunk >= RingSize THEN 0 ELSE wr + Chunk

\* i2s_rx_callback, pdm_rx_callback and the hw_receive handlers of the scenes.
Receive ==
  /\ Runs /\ hw.on
  /\ Len(evts) < MaxEvts
  /\ hw.output \/ early < MaxEarly
  /\ Here = "loopback" => ahead > -1
  /\ IF ~hw.memory THEN Crash("use_after_free")
     ELSE /\ ring' = Stored(ring, RingSize, wr, Run(now, Chunk))
          /\ wr' = NextWr
          /\ now' = (now + Chunk) % Wrap
          /\ IF hw.output
             THEN /\ evts' = Append(evts, Evt("HW_IN", owner))
                  /\ late' = (late \/ Backlog + Chunk > Slack)
                  /\ UNCHANGED early
             ELSE early' = early + 1 /\ UNCHANGED <<evts, late>>
          /\ ahead' = IF Here = "loopback" THEN ahead - 1 ELSE ahead
          /\ UNCHANGED <<manager, task, owner, hw, rd, buffer, enc, sent, fault>>

\* hw_request_pcm of loopback in inout_mode: one FIFO and one clock for both
\* interrupts.  Two instances of the hardware may take different numbers of samples
\* per interrupt and drift apart.
Transmit ==
  /\ Runs /\ hw.on
  /\ Here = "loopback" /\ ahead < 1
  /\ bufRd' = IF LoopSize - bufRd > Chunk THEN bufRd + Chunk ELSE 0
  /\ sent' = (sent + Chunk) % Wrap
  /\ ahead' = ahead + 1
  /\ UNCHANGED <<manager, evts, task, hardware, buf, bufWr, enc, now, early,
                 late, fault>>

-----------------------------------------------------------------------------
(***************************************************************************)
(* The audio task                                                          *)
(***************************************************************************)
TaskAt(where) == Runs /\ tpc = where

\* The first dereference of a scene that init has not seen is the last.
Pop ==
  /\ TaskAt("wait") /\ evts # <<>>
  /\ LET e == Head(evts) IN
       \/ /\ e.type \in LifeCycle
          /\ evts' = Tail(evts) /\ cur' = e
          /\ tpc' = IF e.type = "CREATE" THEN "init" ELSE "stop_hw"
          /\ UNCHANGED <<manager, rest, hardware, buffer, enc, clock, fault>>
       \/ /\ e.type = "HW_IN" /\ e.scene = scene /\ scene # NULL
          /\ life[scene] = "running"
          /\ evts' = Tail(evts) /\ cur' = e
          /\ tpc' = "read" /\ rest' = Chunk
          /\ UNCHANGED <<manager, hardware, buffer, enc, clock, fault>>
       \/ /\ e.type = "HW_IN" /\ e.scene \notin {scene, NULL}
          /\ evts' = Tail(evts) /\ cur' = e
          /\ UNCHANGED <<manager, tpc, rest, hardware, buffer, enc, clock, fault>>
       \/ /\ e.type = "HW_IN" /\ e.scene \in {scene, NULL}
          /\ e.scene # NULL => life[e.scene] # "running"
          /\ Crash("uninitialised")

\* init, up to the hardware.  Only this task uses the encoder, so that the
\* recorder may create it after the hardware.
InitScene ==
  /\ TaskAt("init")
  /\ owner' = cur.scene
  /\ LET k == kind[cur.scene]
         size == IF InCall(k) THEN AlgoFrame * AdcFrames ELSE LoopSize
     IN /\ buf' = IF k \in {"recorder", "voice"} THEN <<>> ELSE [c \in 0 .. size - 1 |-> Noise]
        /\ bufRd' = IF k = "loopback" THEN LoopSize \div 2 ELSE 0
  /\ bufWr' = 0
  /\ enc' = NewEncoder
  /\ tpc' = "start_hw"
  /\ UNCHANGED <<manager, evts, cur, rest, hw, ring, wr, rd, clock, fault>>

\* Mutant: the interrupt is not enabled.
HwCreateDisabled ==
  /\ TaskAt("start_hw")
  /\ hw' = [memory |-> TRUE, on |-> FALSE, output |-> FALSE]
  /\ wr' = 0
  /\ tpc' = "add_output"
  /\ UNCHANGED <<manager, evts, cur, rest, owner, ring, rd, buffer, enc, clock, fault>>

\* audio_hw_create ends by enabling the interrupt.
HwCreate ==
  /\ TaskAt("start_hw")
  /\ hw' = [memory |-> TRUE, on |-> TRUE, output |-> FALSE]
  /\ wr' = 0
  /\ tpc' = "add_output"
  /\ UNCHANGED <<manager, evts, cur, rest, owner, ring, rd, buffer, enc, clock, fault>>

Filled == (bufWr - bufRd) % BufSize

\* Mutant: the output starts to read where the ring starts.
HwOutputAddAtZero ==
  /\ TaskAt("add_output")
  /\ hw' = [hw EXCEPT !.output = TRUE]
  /\ rd' = 0
  /\ sent' = (now - Filled) % Wrap
  /\ life' = [life EXCEPT ![owner] = "running"]
  /\ tpc' = "wait"
  /\ UNCHANGED <<scene, kind, apc, evts, cur, rest, owner, ring, wr, buffer, enc,
                 now, ahead, early, late, fault>>

\* audio_hw_output_add: what is recorded from now on will be read.
HwOutputAdd ==
  /\ TaskAt("add_output")
  /\ hw' = [hw EXCEPT !.output = TRUE]
  /\ rd' = wr
  /\ sent' = (now - Filled) % Wrap
  /\ life' = [life EXCEPT ![owner] = "running"]
  /\ tpc' = "wait"
  /\ UNCHANGED <<scene, kind, apc, evts, cur, rest, owner, ring, wr, buffer, enc,
                 now, ahead, early, late, fault>>

\* Mutant: the interrupt stays enabled.
HwStopForgotten ==
  /\ TaskAt("stop_hw") /\ tpc' = "free"
  /\ UNCHANGED <<manager, evts, cur, rest, hardware, buffer, enc, clock, fault>>

\* audio_hw_destroy stops the interrupt first, with interrupts masked.
HwStop ==
  /\ TaskAt("stop_hw") /\ tpc' = "free"
  /\ hw' = [hw EXCEPT !.on = FALSE]
  /\ UNCHANGED <<manager, evts, cur, rest, owner, ring, wr, rd, buffer, enc,
                 clock, fault>>

\* The rest of audio_hw_destroy and of the destroy of the scene.  Samples are
\* numbered from the start of the hardware; what freed memory holds is noise.
FreeScene ==
  /\ TaskAt("free") /\ tpc' = "wait"
  /\ hw' = [hw EXCEPT !.memory = FALSE, !.output = FALSE]
  /\ life' = [life EXCEPT ![cur.scene] = "free"]
  /\ kind' = [kind EXCEPT ![cur.scene] = "none"]
  /\ owner' = NULL
  /\ scene' = IF cur.scene = scene THEN NULL ELSE scene
  /\ buf' = <<>> /\ bufWr' = 0 /\ bufRd' = 0
  /\ enc' = NewEncoder
  /\ ring' = [c \in 0 .. RingSize - 1 |-> Noise] /\ wr' = 0 /\ rd' = 0
  /\ now' = 0 /\ sent' = 0 /\ ahead' = 0 /\ early' = 0 /\ late' = FALSE
  /\ UNCHANGED <<apc, evts, cur, rest, fault>>

\* Mutant: a read that reaches the end of the ring does not wrap.
AfterReadPastEnd(n) ==
  IF RingSize - rd < n THEN n - (RingSize - rd) ELSE rd + n

\* audio_hw_read_pcm: rd_ptr after n samples have been read.
AfterRead(n) ==
  IF RingSize - rd <= n THEN n - (RingSize - rd) ELSE rd + n

\* A call and loopback copy into their buffer, in two parts at its end.
ReadToBuffer ==
  /\ TaskAt("read") /\ Here \notin {"recorder", "voice"}
  /\ LET n == Min({rest, BufSize - bufWr}) IN
       /\ buf' = Stored(buf, BufSize, bufWr, Cells(ring, RingSize, rd, n))
       /\ bufWr' = (bufWr + n) % BufSize
       /\ rd' = AfterRead(n)
       /\ rest' = rest - n
       /\ tpc' = IF rest > n THEN "read" ELSE IF InCall(Here) THEN "launch" ELSE "wait"
  /\ UNCHANGED <<manager, evts, cur, owner, hw, ring, wr, bufRd, enc, clock, fault>>

\* An event never announces more than the 128 samples the recorder reads at once.
ReadAndEncode ==
  /\ TaskAt("read") /\ Here = "recorder"
  /\ enc' = Save(enc, Cells(ring, RingSize, rd, rest))
  /\ rd' = AfterRead(rest)
  /\ rest' = 0
  /\ tpc' = "report"
  /\ UNCHANGED <<manager, evts, cur, owner, hw, ring, wr, buffer, clock, fault>>

\* The recogniser, which takes the samples at once, is not in the repository.
ReadAndRecognize ==
  /\ TaskAt("read") /\ Here = "voice"
  /\ sent' = (sent + rest) % Wrap
  /\ rd' = AfterRead(rest)
  /\ rest' = 0
  /\ tpc' = "wait"
  /\ UNCHANGED <<manager, evts, cur, owner, hw, ring, wr, buffer, enc, now, ahead,
                 early, late, fault>>

\* The decoder output for the canceller is complete at every event: an
\* immediate output of the decoder module returns all it is asked for.
FrameReady == Filled >= AlgoFrame

Launch ==
  /\ TaskAt("launch")
  /\ IF FrameReady
     THEN /\ enc' = Encoded(enc, Cells(buf, BufSize, bufRd, AlgoFrame))
          /\ bufRd' = (bufRd + AlgoFrame) % BufSize
          /\ tpc' = "report"
     ELSE tpc' = "wait" /\ UNCHANGED <<enc, bufRd>>
  /\ UNCHANGED <<manager, evts, cur, rest, hardware, buf, bufWr, clock, fault>>

\* Mutant: one frame per event is reported.
ReportOne ==
  /\ TaskAt("report") /\ enc.count > 0
  /\ enc' = [enc EXCEPT !.list = Tail(@), !.count = @ - 1]
  /\ sent' = (sent + Len(Head(enc.list))) % Wrap
  /\ tpc' = "wait"
  /\ UNCHANGED <<manager, evts, cur, rest, hardware, buffer, now, ahead, early,
                 late, fault>>

\* audio_encoder_frame_pop and the callback of the scene, once per frame.
Report ==
  /\ TaskAt("report") /\ enc.count > 0
  /\ enc' = [enc EXCEPT !.list = Tail(@), !.count = @ - 1]
  /\ sent' = (sent + Len(Head(enc.list))) % Wrap
  /\ UNCHANGED <<manager, evts, task, hardware, buffer, now, ahead, early, late, fault>>

Reported ==
  /\ TaskAt("report") /\ enc.count = 0
  /\ tpc' = "wait"
  /\ UNCHANGED <<manager, evts, cur, rest, hardware, buffer, enc, clock, fault>>

-----------------------------------------------------------------------------
App  == CreateScene \/ AllocateScene \/ PostCreate \/ DestroyScene
Interrupts == Receive \/ Transmit
Task == \/ Pop \/ InitScene \/ HwCreate \/ HwOutputAdd \/ HwStop \/ FreeScene
        \/ ReadToBuffer \/ ReadAndEncode \/ ReadAndRecognize \/ Launch \/ Report \/ Reported

Next == App \/ Interrupts \/ Task

\* The sample clock goes on, and the scheduler runs a task that is ready.
Fairness == WF_vars(Receive) /\ WF_vars(Transmit) /\ WF_vars(Task)

Spec == Init /\ [][Next]_vars /\ Fairness

-----------------------------------------------------------------------------
(***************************************************************************)
(* Properties                                                              *)
(***************************************************************************)
Samples == Seq(Sample \cup {Noise})

\* Every pointer stays inside its buffer: the read pointer of the hardware
\* ring in particular, which two different comparisons wrap; and frame_count is
\* the length of frame_list.
TypeOK ==
  /\ scene \in Ptr /\ owner \in Ptr
  /\ life \in [Addrs -> {"free", "allocated", "running"}]
  /\ apc \in {"idle", "alloc", "post"}
  /\ \A i \in DOMAIN evts :
       evts[i] \in [type : LifeCycle \cup {"HW_IN"}, scene : Ptr]
  /\ rest \in 0 .. Chunk
  /\ hw \in [memory : BOOLEAN, on : BOOLEAN, output : BOOLEAN]
  /\ wr \in 0 .. RingSize - 1 /\ rd \in 0 .. RingSize - 1
  /\ bufWr \in 0 .. BufSize - 1 /\ bufRd \in 0 .. BufSize - 1
  /\ enc.list \in Seq(Samples) /\ enc.count = Len(enc.list)
  /\ now \in Sample /\ sent \in Sample
  /\ ahead \in -1 .. 1 /\ early \in 0 .. MaxEarly /\ late \in BOOLEAN

\* The scene that runs is the current one; once it is replaced its last
\* events are dropped.
Live == owner # NULL /\ owner = scene /\ life[owner] = "running"

\* The interrupts find the memory they use, their events find a scene that
\* has been initialised, and none of them outlives its scene.
NoFault == fault = "none"

\* Everything between the microphone and the peer, oldest sample first.
Pipeline ==
  FlattenSeq(enc.list) \o enc.tmp \o enc.codec
    \o Cells(buf, BufSize, bufRd, Filled) \o Cells(ring, RingSize, rd, Backlog)

\* From the interrupt through two rings, the canceller and the framing no
\* sample is lost, doubled or out of order, unless the audio task was late;
\* loopback first plays the half of its buffer that nothing has written.
NothingLost ==
  Live /\ ~late =>
    LET p == Pipeline IN
    /\ Len(p) = Span(sent, now)
    /\ \A i \in DOMAIN p : \/ p[i] = (sent + i - 1) % Wrap
                           \/ p[i] = Noise /\ Here = "loopback"

\* A task that was late finds its place again: what the interrupt has
\* announced is exactly what separates the two pointers, overrun or not.
ReaderInStep == Live => (rd + Backlog) % RingSize = wr

\* Between events no frame in frame_list waits for another event to be reported
\* (one in frame_tmp does, even a full one: audio_encoder.c:78) and the canceller
\* waits for less than a frame: a call does not gather delay.
NothingWaits ==
  tpc = "wait" /\ Live =>
    /\ enc.list = <<>> /\ enc.count = 0
    /\ InCall(Here) => Filled < AlgoFrame

\* As long as the scene runs the peer goes on to get sound.
KeepsReporting == <>[]Live => []<><<sent' # sent>>_vars
=============================================================================
