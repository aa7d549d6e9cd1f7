--------------------------- MODULE CaptureProofs ---------------------------
(* Theorems about Capture for any sizes of the buffers, the frames and the  *)
(* interrupt's chunks, as long as the audio task preempts its callers.      *)
EXTENDS Capture, TLAPS, WellFoundedInduction, FiniteSetTheorems,
        SequenceTheorems

-----------------------------------------------------------------------------
(* Arithmetic. *)

LEMMA ModRange ==
  ASSUME NEW x \in Int, NEW n \in Nat \ {0}
  PROVE  x % n \in 0 .. n - 1
OBVIOUS

LEMMA ModStep ==
  ASSUME NEW x \in Int, NEW n \in Nat \ {0}, x >= 0 - n, x < 2 * n
  PROVE  x % n = IF x < 0 THEN x + n ELSE IF x < n THEN x ELSE x - n
OBVIOUS

\* Whole turns around a ring do not move.
LEMMA ModTurns ==
  ASSUME NEW n \in Nat \ {0}, NEW x \in Int, NEW y \in 0 .. n - 1, NEW k \in Int,
         x = y + n * k
  PROVE  x % n = y
OBVIOUS

LEMMA MinIs ==
  ASSUME NEW x \in Int, NEW y \in Int
  PROVE  Min({x, y}) = IF x <= y THEN x ELSE y
<1> DEFINE m == IF x <= y THEN x ELSE y
<1>1. m \in {x, y} /\ \A z \in {x, y} : m <= z
  OBVIOUS
<1>2. \A m1, m2 \in {x, y} : (\A z \in {x, y} : m1 <= z) /\ (\A z \in {x, y} : m2 <= z) => m1 = m2
  OBVIOUS
<1> QED BY <1>1, <1>2 DEF Min

LEMMA MaxIsOne ==
  ASSUME NEW x \in Int, NEW y \in Int
  PROVE  Max({x, y}) \in {x, y}
<1>1. \E m \in {x, y} : \A z \in {x, y} : m >= z
  OBVIOUS
<1> QED BY <1>1 DEF Max

\* The sizes of the buffers.
LEMMA Sizes ==
  /\ Chunk \in Nat \ {0} /\ RingChunks \in Nat \ {0} /\ RingSize \in Nat \ {0}
  /\ Chunk <= RingSize
  /\ AlgoFrame \in Nat \ {0} /\ AlgoFrame * AdcFrames \in Nat \ {0}
  /\ Chunk <= AlgoFrame /\ AlgoFrame + Chunk < AlgoFrame * AdcFrames
  /\ LoopSize \in Nat \ {0} /\ LoopSize \div 2 \in 0 .. LoopSize - 1
  /\ FrameMax \in Nat \ {0} /\ MaxEarly \in Nat
  /\ Wrap \in Nat \ {0}
<1> USE CaptureAssumption
<1>1. /\ Chunk \in Nat \ {0} /\ RingChunks \in Nat \ {0} /\ AlgoFrame \in Nat \ {0}
      /\ AdcFrames \in Nat \ {0} /\ LoopSize \in Nat \ {0} /\ FrameMax \in Nat \ {0}
      /\ Chunk <= AlgoFrame /\ AlgoFrame + Chunk < AlgoFrame * AdcFrames
      /\ MaxEarly \in Nat /\ Wrap \in Nat
  OBVIOUS
<1>2. Chunk * RingChunks \in Nat /\ Chunk * RingChunks >= Chunk
  BY <1>1
<1>3. AlgoFrame * AdcFrames \in Nat
  BY <1>1
<1>4. Wrap > 0
  <2> DEFINE x == LoopSize
             y == AlgoFrame * (AdcFrames + 1) + FrameMax
  <2>1. x \in Nat /\ y \in Nat
    BY <1>1
  <2>2. Max({x, y}) \in Nat
    BY <2>1, MaxIsOne
  <2>3. Wrap > Max({x, y}) + Chunk * RingChunks
    OBVIOUS
  <2> HIDE DEF x, y
  <2> QED BY <1>1, <1>2, <2>2, <2>3
<1> QED BY <1>1, <1>2, <1>3, <1>4 DEF RingSize

-----------------------------------------------------------------------------
(* Type correctness of the control of the program and of its pointers. *)

Event == [type : LifeCycle \cup {"HW_IN"}, scene : Ptr]
Cell == Sample \cup {Noise}

BaseType ==
  /\ scene \in Ptr /\ owner \in Ptr
  /\ life \in [Addrs -> {"free", "allocated", "running"}]
  /\ kind \in [Addrs -> Kinds \cup {"none"}]
  /\ apc \in {"idle", "alloc", "post"}
  /\ evts \in Seq(Event) /\ cur \in Event
  /\ tpc \in {"wait", "init", "start_hw", "add_output", "read", "launch", "report",
              "stop_hw", "free"}
  /\ rest \in 0 .. Chunk /\ (tpc # "read" => rest = 0)
  /\ hw \in [memory : BOOLEAN, on : BOOLEAN, output : BOOLEAN]
  /\ \E k \in 0 .. RingChunks - 1 : wr = Chunk * k
  /\ rd \in 0 .. RingSize - 1
  /\ bufWr \in 0 .. BufSize - 1 /\ bufRd \in 0 .. BufSize - 1
  /\ now \in Sample
  /\ ahead \in -1 .. 1 /\ early \in 0 .. MaxEarly /\ late \in BOOLEAN

LEMMA EvtIsEvent ==
  ASSUME NEW t \in LifeCycle \cup {"HW_IN"}, NEW s \in Ptr
  PROVE  /\ Evt(t, s) \in Event
         /\ Evt(t, s).type = t /\ Evt(t, s).scene = s
BY DEF Evt, Event

LEMMA EventFields ==
  ASSUME NEW e \in Event
  PROVE  e.type \in {"CREATE", "DESTROY", "HW_IN"} /\ e.scene \in Ptr
BY DEF Event, LifeCycle

\* The buffer of a scene does not change its size while the scene has it.
LEMMA BufSizes ==
  /\ BufSize \in Nat \ {0} /\ Chunk <= RingSize
  /\ UNCHANGED <<owner, kind>> => BufSize' = BufSize
BY Sizes DEF BufSize, Here

\* The write pointer goes around in chunks.
LEMMA WriteGoesRound ==
  ASSUME NEW k \in 0 .. RingChunks - 1, wr = Chunk * k
  PROVE  /\ wr \in 0 .. RingSize - 1 /\ NextWr \in Int
         /\ \E j \in 0 .. RingChunks - 1 : NextWr = Chunk * j
         /\ \E t \in {0, 1} : wr + Chunk = NextWr + RingSize * t
<1>1. Chunk \in Nat \ {0} /\ RingChunks \in Nat \ {0} /\ RingSize \in Nat \ {0}
  BY Sizes
<1>2. wr \in Nat /\ wr + Chunk = Chunk * (k + 1)
  BY <1>1
<1>3. CASE k + 1 = RingChunks
  <2>1. wr + Chunk = RingSize /\ NextWr = 0
    BY <1>1, <1>2, <1>3 DEF NextWr, RingSize
  <2>2. NextWr = Chunk * 0 /\ 0 \in 0 .. RingChunks - 1
    BY <1>1, <2>1
  <2>3. wr + Chunk = NextWr + RingSize * 1
    BY <1>1, <2>1
  <2> QED BY <1>1, <1>2, <2>1, <2>2, <2>3
<1>4. CASE k + 1 # RingChunks
  <2>1. k + 1 \in 0 .. RingChunks - 1 /\ RingChunks - (k + 1) >= 1 /\ RingChunks - (k + 1) \in Nat
    BY <1>1, <1>4
  <2>2. Chunk * (RingChunks - (k + 1)) >= Chunk
    BY <1>1, <2>1
  <2>3. Chunk * (RingChunks - (k + 1)) = RingSize - Chunk * (k + 1)
    BY <1>1, <2>1 DEF RingSize
  <2>4. wr + Chunk < RingSize /\ NextWr = wr + Chunk
    BY <1>1, <1>2, <2>2, <2>3 DEF NextWr
  <2>5. wr + Chunk = NextWr + RingSize * 0
    BY <1>1, <1>2, <2>4
  <2> QED BY <1>1, <1>2, <2>1, <2>4, <2>5
<1> QED BY <1>3, <1>4

\* The two comparisons that wrap the read pointer.
LEMMA ReadGoesRound ==
  ASSUME rd \in 0 .. RingSize - 1, NEW n \in 0 .. Chunk
  PROVE  /\ AfterRead(n) \in 0 .. RingSize - 1
         /\ \E t \in {0, 1} : rd + n = AfterRead(n) + RingSize * t
<1>1. Chunk \in Nat \ {0} /\ RingSize \in Nat \ {0} /\ Chunk <= RingSize
  BY Sizes
<1>2. CASE RingSize - rd <= n
  <2>1. AfterRead(n) = n - (RingSize - rd) /\ rd + n = AfterRead(n) + RingSize * 1
    BY <1>1, <1>2 DEF AfterRead
  <2> QED BY <1>1, <1>2, <2>1
<1>3. CASE ~(RingSize - rd <= n)
  <2>1. AfterRead(n) = rd + n /\ rd + n = AfterRead(n) + RingSize * 0
    BY <1>1, <1>3 DEF AfterRead
  <2> QED BY <1>1, <1>3, <2>1
<1> QED BY <1>2, <1>3

LEMMA CrashType ==
  ASSUME BaseType, NEW why, Crash(why)
  PROVE  BaseType'
BY BufSizes DEF BaseType, Crash, manager, task, hardware, buffer, clock

LEMMA BaseInit == Init => BaseType
<1> SUFFICES ASSUME Init PROVE BaseType
  OBVIOUS
<1> USE Sizes
<1>1. NoEvt \in Event
  BY EvtIsEvent DEF NoEvt, Ptr
<1>2. 0 \in 0 .. RingChunks - 1 /\ wr = Chunk * 0
  BY DEF Init
<1>3. /\ 0 \in Sample /\ 0 \in 0 .. RingSize - 1 /\ 0 \in 0 .. Chunk
      /\ 0 \in 0 .. BufSize - 1 /\ 0 \in -1 .. 1 /\ 0 \in 0 .. MaxEarly
  BY BufSizes DEF Sample
<1>4. evts \in Seq(Event) /\ hw \in [memory : BOOLEAN, on : BOOLEAN, output : BOOLEAN]
  BY DEF Init
<1>5. /\ life \in [Addrs -> {"free", "allocated", "running"}]
      /\ kind \in [Addrs -> Kinds \cup {"none"}]
  BY DEF Init
<1> QED BY <1>1, <1>2, <1>3, <1>4, <1>5 DEF Init, BaseType, Ptr

LEMMA AppType ==
  ASSUME BaseType, owner # NULL => life[owner] # "free", App
  PROVE  BaseType'
<1>1. ASSUME NEW t \in LifeCycle, evts' = Append(evts, Evt(t, scene))
      PROVE  evts' \in Seq(Event)
  BY <1>1, EvtIsEvent DEF BaseType
<1> USE BufSizes
<1>2. CASE CreateScene
  <2>1. evts' \in Seq(Event)
    BY <1>1, <1>2 DEF CreateScene, BaseType, LifeCycle
  <2> QED BY <1>2, <2>1 DEF CreateScene, BaseType, task, hardware, buffer, clock
<1>3. CASE AllocateScene
  <2>1. PICK a \in Addrs, k \in Kinds :
          /\ life[a] = "free"
          /\ life' = [life EXCEPT ![a] = "allocated"]
          /\ kind' = [kind EXCEPT ![a] = k] /\ scene' = a
    BY <1>3 DEF AllocateScene
  <2>2. BufSize' = BufSize
    BY <1>3, <2>1 DEF AllocateScene, BufSize, Here, BaseType, Ptr, hardware
  <2>3. /\ life' \in [Addrs -> {"free", "allocated", "running"}]
        /\ kind' \in [Addrs -> Kinds \cup {"none"}] /\ scene' \in Ptr
    BY <2>1 DEF BaseType, Ptr
  <2> QED BY <1>3, <2>2, <2>3 DEF AllocateScene, BaseType, task, hardware, buffer, clock
<1>4. CASE PostCreate
  <2>1. evts' \in Seq(Event)
    BY <1>1, <1>4 DEF PostCreate, LifeCycle
  <2> QED BY <1>4, <2>1 DEF PostCreate, BaseType, task, hardware, buffer, clock
<1>5. CASE DestroyScene
  <2>1. evts' \in Seq(Event)
    BY <1>1, <1>5 DEF DestroyScene, LifeCycle
  <2> QED BY <1>5, <2>1 DEF DestroyScene, BaseType, manager, task, hardware, buffer, clock
<1> QED BY <1>2, <1>3, <1>4, <1>5 DEF App

\* What the receive interrupt does when the hardware's memory is there.
LEMMA Received ==
  ASSUME Receive, hw.memory
  PROVE  /\ hw.on /\ (hw.output \/ early < MaxEarly)
         /\ Here = "loopback" => ahead > -1
         /\ ring' = Stored(ring, RingSize, wr, Run(now, Chunk))
         /\ wr' = NextWr /\ now' = (now + Chunk) % Wrap
         /\ hw.output => /\ evts' = Append(evts, Evt("HW_IN", owner)) /\ early' = early
                         /\ late' = (late \/ Backlog + Chunk > Slack)
         /\ ~hw.output => early' = early + 1 /\ UNCHANGED <<evts, late>>
         /\ ahead' = IF Here = "loopback" THEN ahead - 1 ELSE ahead
         /\ UNCHANGED <<manager, task, owner, hw, rd, buffer, enc, sent, fault>>
BY DEF Receive

LEMMA InterruptType ==
  ASSUME BaseType, Interrupts
  PROVE  BaseType'
<1> USE Sizes, BufSizes
<1>1. CASE Receive /\ ~hw.memory
  BY <1>1, CrashType DEF Receive
<1>2. CASE Receive /\ hw.memory
  <2>1. \E k \in 0 .. RingChunks - 1 : wr' = Chunk * k
    <3>1. PICK k \in 0 .. RingChunks - 1 : wr = Chunk * k
      BY DEF BaseType
    <3> QED BY <1>2, <3>1, WriteGoesRound, Received
  <2>2. now' \in Sample
    <3>1. now + Chunk \in Int
      BY DEF BaseType, Sample
    <3> QED BY <1>2, <3>1, ModRange, Received DEF Sample
  <2>3. evts' \in Seq(Event)
    <3>1. Evt("HW_IN", owner) \in Event
      BY EvtIsEvent DEF BaseType
    <3>2. evts \in Seq(Event) /\ (evts' = Append(evts, Evt("HW_IN", owner)) \/ evts' = evts)
      BY <1>2, Received DEF BaseType
    <3> QED BY <3>1, <3>2
  <2>4. ahead' \in -1 .. 1
    <3>1. ahead \in -1 .. 1
      BY DEF BaseType
    <3> QED BY <1>2, <3>1, Received
  <2>5. early' \in 0 .. MaxEarly /\ late' \in BOOLEAN
    <3>1. early \in 0 .. MaxEarly /\ late \in BOOLEAN /\ hw.output \in BOOLEAN
      BY DEF BaseType
    <3> QED BY <1>2, <3>1, Received
  <2> QED BY <1>2, <2>1, <2>2, <2>3, <2>4, <2>5, Received
          DEF BaseType, manager, task, buffer
<1>3. CASE Transmit
  <2>1. ahead' \in -1 .. 1
    BY <1>3 DEF Transmit, BaseType
  <2>2. bufRd' \in 0 .. BufSize - 1
    BY <1>3 DEF Transmit, BaseType, BufSize, InCall
  <2> QED BY <1>3, <2>1, <2>2 DEF Transmit, BaseType, manager, task, hardware
<1> QED BY <1>1, <1>2, <1>3 DEF Interrupts, Receive

\* What is copied into the buffer at once fits it.
LEMMA CopyFits ==
  ASSUME BaseType, NEW n, n = Min({rest, BufSize - bufWr})
  PROVE  /\ n \in 0 .. rest /\ n \in 0 .. Chunk /\ n <= BufSize - bufWr /\ rest - n \in 0 .. Chunk
         /\ (bufWr + n) % BufSize \in 0 .. BufSize - 1
         /\ rest > 0 => n > 0
<1>1. rest \in 0 .. Chunk /\ bufWr \in 0 .. BufSize - 1 /\ BufSize \in Nat \ {0} /\ Chunk \in Nat
  BY BufSizes, Sizes DEF BaseType
<1>2. n = IF rest <= BufSize - bufWr THEN rest ELSE BufSize - bufWr
  BY <1>1, MinIs
<1>3. bufWr + n \in Int
  BY <1>1, <1>2
<1>4. (bufWr + n) % BufSize \in 0 .. BufSize - 1
  BY <1>1, <1>3, ModRange
<1>5. /\ n \in 0 .. rest /\ n \in 0 .. Chunk /\ n <= BufSize - bufWr /\ rest - n \in 0 .. Chunk
      /\ rest > 0 => n > 0
  BY <1>1, <1>2
<1> QED BY <1>4, <1>5

LEMMA PopType ==
  ASSUME BaseType, Pop
  PROVE  BaseType'
<1> USE Sizes, BufSizes
<1>1. Head(evts) \in Event /\ Tail(evts) \in Seq(Event)
  BY DEF Pop, BaseType
<1>2. CASE Crash("uninitialised")
  BY <1>2, CrashType
<1>3. ASSUME evts' = Tail(evts), cur' = Head(evts), tpc = "wait",
             \/ tpc' \in {"wait", "init", "stop_hw"} /\ rest' = rest
             \/ tpc' = "read" /\ rest' = Chunk,
             UNCHANGED <<manager, hardware, buffer, clock>>
      PROVE  BaseType'
  <2>1. Chunk \in 0 .. Chunk
    OBVIOUS
  <2>2. rest' \in 0 .. Chunk /\ (tpc' # "read" => rest' = 0)
    BY <1>3, <2>1 DEF BaseType
  <2>3. BufSize' = BufSize
    BY <1>3 DEF manager, hardware
  <2> QED BY <1>1, <1>3, <2>2, <2>3 DEF BaseType, manager, hardware, buffer, clock
<1>4. ASSUME ~Crash("uninitialised")
      PROVE  /\ evts' = Tail(evts) /\ cur' = Head(evts) /\ tpc = "wait"
             /\ \/ tpc' \in {"wait", "init", "stop_hw"} /\ rest' = rest
                \/ tpc' = "read" /\ rest' = Chunk
             /\ UNCHANGED <<manager, hardware, buffer, clock>>
  BY <1>4 DEF Pop, TaskAt
<1> QED BY <1>2, <1>3, <1>4

LEMMA TaskType ==
  ASSUME BaseType, Task
  PROVE  BaseType'
<1> USE Sizes, BufSizes
<1>0. cur.scene \in Ptr
  BY EventFields DEF BaseType
<1>2. CASE InitScene
  <2>1. bufWr' \in 0 .. BufSize' - 1 /\ bufRd' \in 0 .. BufSize' - 1
    <3> DEFINE size == IF InCall(kind[cur.scene]) THEN AlgoFrame * AdcFrames ELSE LoopSize
    <3>1. bufWr' = 0 /\ bufRd' = IF kind[cur.scene] = "loopback" THEN LoopSize \div 2 ELSE 0
      BY <1>2 DEF InitScene
    <3>2. Here' = IF cur.scene = NULL THEN "none" ELSE kind[cur.scene]
      BY <1>2 DEF InitScene, Here, manager
    <3>3. size \in Nat /\ size > 0 /\ LoopSize \div 2 \in 0 .. LoopSize - 1
      OBVIOUS
    <3>4. cur.scene # NULL => BufSize' = size
      BY <3>2 DEF BufSize
    <3>5. cur.scene = NULL => BufSize' = LoopSize
      BY <3>2 DEF BufSize, InCall
    <3>6. kind[cur.scene] = "loopback" => size = LoopSize
      BY DEF InCall
    <3> HIDE DEF size
    <3>7. bufRd' \in 0 .. size - 1 /\ bufRd' \in 0 .. LoopSize - 1
      BY <3>1, <3>3, <3>6
    <3> QED BY <3>1, <3>3, <3>4, <3>5, <3>7
  <2> QED BY <1>0, <1>2, <2>1 DEF InitScene, TaskAt, BaseType, manager, clock
<1>3. CASE HwCreate
  <2>1. wr' = Chunk * 0 /\ 0 \in 0 .. RingChunks - 1
    BY <1>3 DEF HwCreate
  <2> QED BY <1>3, <2>1 DEF HwCreate, TaskAt, BaseType, manager, buffer, clock
<1>4. CASE HwOutputAdd
  <2>1. rd' \in 0 .. RingSize - 1
    <3>1. PICK k \in 0 .. RingChunks - 1 : wr = Chunk * k
      BY DEF BaseType
    <3> QED BY <1>4, <3>1, WriteGoesRound DEF HwOutputAdd
  <2> QED BY <1>4, <2>1 DEF HwOutputAdd, TaskAt, BaseType, buffer
<1>5. CASE HwStop
  BY <1>5 DEF HwStop, TaskAt, BaseType, manager, buffer, clock
<1>6. CASE FreeScene
  <2>1. /\ wr' = Chunk * 0 /\ 0 \in 0 .. RingChunks - 1 /\ 0 \in 0 .. RingSize - 1 /\ 0 \in Sample
        /\ 0 \in -1 .. 1 /\ 0 \in 0 .. MaxEarly /\ 0 \in 0 .. BufSize' - 1
    BY <1>6 DEF FreeScene, Sample, BufSize, Here, InCall
  <2>2. /\ life' \in [Addrs -> {"free", "allocated", "running"}]
        /\ kind' \in [Addrs -> Kinds \cup {"none"}]
        /\ scene' \in Ptr /\ owner' \in Ptr
    BY <1>6 DEF FreeScene, BaseType, Ptr
  <2>3. /\ hw' \in [memory : BOOLEAN, on : BOOLEAN, output : BOOLEAN]
        /\ tpc' = "wait" /\ rest' = 0 /\ rest' \in 0 .. Chunk
        /\ UNCHANGED <<apc, evts, cur>>
    BY <1>6 DEF FreeScene, BaseType, TaskAt
  <2>4. /\ bufWr' = 0 /\ bufRd' = 0 /\ rd' = 0 /\ now' = 0 /\ ahead' = 0 /\ early' = 0
        /\ late' = FALSE
    BY <1>6 DEF FreeScene
  <2> QED BY <2>1, <2>2, <2>3, <2>4 DEF BaseType
<1>7. CASE ReadToBuffer
  <2>1. PICK n : /\ n = Min({rest, BufSize - bufWr})
                 /\ bufWr' = (bufWr + n) % BufSize /\ rd' = AfterRead(n) /\ rest' = rest - n
                 /\ tpc' = IF rest > n THEN "read" ELSE IF InCall(Here) THEN "launch" ELSE "wait"
    BY <1>7 DEF ReadToBuffer
  <2>2. /\ rest' \in 0 .. Chunk /\ bufWr' \in 0 .. BufSize - 1 /\ rd' \in 0 .. RingSize - 1
    BY <2>1, CopyFits, ReadGoesRound DEF BaseType
  <2>3. tpc' # "read" => rest' = 0
    <3>1. n \in 0 .. rest
      BY <2>1, CopyFits
    <3>2. rest \in Nat
      BY DEF BaseType
    <3> QED BY <2>1, <3>1, <3>2
  <2> QED BY <1>7, <2>1, <2>2, <2>3 DEF ReadToBuffer, BaseType, manager, clock
<1>8. CASE ReadAndEncode \/ ReadAndRecognize
  <2>1. rest \in 0 .. Chunk
    BY DEF BaseType
  <2>2. rd' \in 0 .. RingSize - 1
    BY <1>8, <2>1, ReadGoesRound DEF ReadAndEncode, ReadAndRecognize, BaseType
  <2>3. rest' = 0 /\ rest' \in 0 .. Chunk
    BY <1>8, <2>1 DEF ReadAndEncode, ReadAndRecognize
  <2> QED BY <1>8, <2>2, <2>3 DEF ReadAndEncode, ReadAndRecognize, BaseType, manager, buffer, clock
<1>9. CASE Launch
  <2>1. bufRd' \in 0 .. BufSize - 1
    <3>1. bufRd \in 0 .. BufSize - 1 /\ bufRd + AlgoFrame \in Int
      BY DEF BaseType
    <3>2. (bufRd + AlgoFrame) % BufSize \in 0 .. BufSize - 1
      BY <3>1, ModRange
    <3> QED BY <1>9, <3>1, <3>2 DEF Launch
  <2> QED BY <1>9, <2>1 DEF Launch, TaskAt, BaseType, manager, hardware, clock
<1>10. CASE Report \/ Reported
  BY <1>10 DEF Report, Reported, TaskAt, BaseType, manager, task, hardware, buffer, clock
<1> QED BY <1>2, <1>3, <1>4, <1>5, <1>6, <1>7, <1>8, <1>9, <1>10, PopType DEF Task

-----------------------------------------------------------------------------
(* Where the scene that runs is in its life. *)

\* A life-cycle event is first in the queue and is served before anything else.
InOrder == \A i \in DOMAIN evts : evts[i].type \in LifeCycle => i = 1 /\ tpc = "wait"
Pending == \E i \in DOMAIN evts : evts[i].type \in LifeCycle

\* Nobody owns the hardware; its interrupts are off and its memory is free.
Silent == owner = NULL /\ ~hw.on /\ ~hw.memory /\ ~hw.output
OwnEvents == \A i \in DOMAIN evts : evts[i].type = "HW_IN" => evts[i].scene = owner
Owned(s) == s # NULL /\ owner = s /\ scene = s

\* The stages: no scene, one that is allocated, one whose hardware is being
\* started, one that runs, one that has been stopped.
Empty == Silent /\ scene = NULL /\ apc # "post" /\ \A i \in DOMAIN evts : evts[i].scene # NULL
Fresh(s) == Silent /\ s # NULL /\ scene = s /\ life[s] = "allocated"
Prepared == Fresh(scene) /\ apc = "post" /\ tpc = "wait" /\ evts = <<>>
Creating(s) == Fresh(s) /\ apc = "idle"
Starting(s) == Owned(s) /\ life[s] = "allocated" /\ ~hw.output /\ apc = "idle" /\ evts = <<>>
On(s) == Owned(s) /\ life[s] = "running" /\ hw.on /\ hw.memory /\ hw.output /\ OwnEvents
Playing == On(scene) /\ apc = "idle"
Destroying(s) == On(s) /\ apc # "post"
Stopped(s) ==
  Owned(s) /\ life[s] = "running" /\ ~hw.on /\ hw.memory /\ hw.output /\ OwnEvents /\ apc # "post"

Served(e) ==
  /\ e.type = "CREATE" => Creating(e.scene) /\ Len(evts) = 1
  /\ e.type = "DESTROY" => Destroying(e.scene)
Stages ==
  /\ tpc = "wait" /\ ~Pending => Empty \/ Prepared \/ Playing
  /\ tpc \in {"read", "launch", "report"} => Playing
  /\ Pending => Served(evts[1])
  /\ tpc = "init" => Creating(cur.scene) /\ evts = <<>>
  /\ tpc = "start_hw" => Starting(cur.scene) /\ ~hw.on /\ ~hw.memory
  /\ tpc = "add_output" => Starting(cur.scene) /\ hw.on /\ hw.memory
  /\ tpc = "stop_hw" => Destroying(cur.scene)
  /\ tpc = "free" => Stopped(cur.scene)

Control == BaseType /\ InOrder /\ Stages /\ NoFault

\* The queue after an event has been posted, and after one has been popped.
LEMMA PostQueue ==
  ASSUME evts \in Seq(Event), NEW e \in Event, evts' = Append(evts, e)
  PROVE  /\ DOMAIN evts' = DOMAIN evts \cup {Len(evts) + 1}
         /\ Len(evts) + 1 \notin DOMAIN evts
         /\ \A i \in DOMAIN evts : evts'[i] = evts[i]
         /\ evts'[Len(evts) + 1] = e
         /\ evts = <<>> => DOMAIN evts' = {1} /\ evts'[1] = e /\ Len(evts') = 1
OBVIOUS

LEMMA PopQueue ==
  ASSUME evts \in Seq(Event), evts # <<>>, evts' = Tail(evts)
  PROVE  /\ 1 \in DOMAIN evts /\ evts[1] = Head(evts)
         /\ \A i \in DOMAIN evts' : i \in Nat /\ i >= 1 /\ i + 1 \in DOMAIN evts /\ evts'[i] = evts[i + 1]
         /\ \A i \in DOMAIN evts \ {1} : i - 1 \in DOMAIN evts' /\ evts'[i - 1] = evts[i]
         /\ Len(evts) = 1 => evts' = <<>>
OBVIOUS

\* A pending event is the first one.
LEMMA PendingFirst ==
  ASSUME InOrder, Pending
  PROVE  1 \in DOMAIN evts /\ evts[1].type \in LifeCycle /\ tpc = "wait"
BY DEF InOrder, Pending

\* Every address that is not NULL.
LEMMA Addresses ==
  ASSUME BaseType
  PROVE  /\ owner # NULL => owner \in Addrs
         /\ scene # NULL => scene \in Addrs
         /\ cur.scene # NULL => cur.scene \in Addrs
BY EventFields DEF BaseType, Ptr

\* In whatever stage, the owner of the hardware is in memory, and the interrupt
\* that is on finds its memory.
LEMMA OwnerAlive ==
  ASSUME Control
  PROVE  /\ owner # NULL => life[owner] # "free"
         /\ hw.on => hw.memory /\ owner # NULL
         /\ hw.output => owner # NULL /\ OwnEvents /\ owner = scene /\ life[owner] = "running"
<1>1. CASE Pending
  <2>1. Served(evts[1]) /\ evts[1].type \in LifeCycle
    BY <1>1, PendingFirst DEF Control, Stages
  <2> QED BY <2>1 DEF Served, Creating, Fresh, Silent, Destroying, On, Owned, LifeCycle
<1>2. CASE tpc = "wait" /\ ~Pending
  BY <1>2 DEF Control, Stages, Empty, Prepared, Playing, Fresh, Silent, On, Owned
<1>3. CASE tpc # "wait"
  BY <1>3
  DEF Control, BaseType, Stages, Playing, Creating, Fresh, Silent, Starting, Destroying, On,
      Owned, Stopped
<1> QED BY <1>1, <1>2, <1>3

-----------------------------------------------------------------------------
(* The application. *)

LEMMA AppAlone ==
  ASSUME TaskPreempts = TRUE, Control, NEW where, AppAt(where)
  PROVE  /\ tpc = "wait" /\ evts = <<>> /\ ~Pending /\ apc = where
         /\ Empty \/ Prepared \/ Playing
<1>1. tpc = "wait" /\ evts = <<>> /\ apc = where
  BY DEF AppAt
<1>2. ~Pending
  BY <1>1 DEF Pending
<1> QED BY <1>1, <1>2 DEF Control, Stages

\* The application posts the first event.
LEMMA AppPosts ==
  ASSUME BaseType, evts = <<>>, tpc = "wait", NEW t \in LifeCycle, NEW s \in Ptr,
         evts' = Append(evts, Evt(t, s)), UNCHANGED <<task, fault>>, NoFault,
         t = "CREATE" => Creating(s)',
         t = "DESTROY" => s # NULL /\ On(s) /\ UNCHANGED <<owner, scene, life, hw>> /\ apc' # "post"
  PROVE  InOrder' /\ Stages' /\ NoFault'
<1>1. Evt(t, s) \in Event /\ Evt(t, s).type = t /\ Evt(t, s).scene = s
  BY EvtIsEvent
<1>2. DOMAIN evts' = {1} /\ evts'[1] = Evt(t, s) /\ Len(evts') = 1 /\ tpc' = "wait" /\ fault' = fault
  BY <1>1, PostQueue DEF BaseType, task
<1>3. Pending' /\ InOrder'
  BY <1>1, <1>2 DEF Pending, InOrder
<1>4. t = "DESTROY" => Destroying(s)'
  BY <1>1, <1>2 DEF Destroying, On, Owned, OwnEvents, LifeCycle
<1>5. Served(evts[1])'
  BY <1>1, <1>2, <1>4 DEF Served
<1> QED BY <1>2, <1>3, <1>5 DEF Stages, NoFault

LEMMA AppStages ==
  ASSUME TaskPreempts = TRUE, Control, App
  PROVE  InOrder' /\ Stages' /\ NoFault'
<1>0. BaseType /\ NoFault
  BY DEF Control
<1>a. ASSUME evts = <<>>, evts' = evts, UNCHANGED <<task, fault>>, tpc = "wait",
             (Empty \/ Prepared \/ Playing)'
      PROVE  InOrder' /\ Stages' /\ NoFault'
  BY <1>0, <1>a DEF InOrder, Stages, NoFault, Pending, task
<1>1. CASE CreateScene
  <2>1. tpc = "wait" /\ evts = <<>> /\ (Empty \/ Playing)
    BY <1>1, AppAlone DEF CreateScene, Prepared
  <2>2. CASE scene = NULL
    <3>1. Empty'
      BY <1>1, <2>1, <2>2 DEF CreateScene, Empty, Playing, On, Owned, Silent, hardware
    <3> QED BY <1>1, <1>a, <2>1, <2>2, <3>1 DEF CreateScene
  <2>3. CASE scene # NULL
    <3>1. On(scene)
      BY <2>1, <2>3 DEF Empty, Playing
    <3> QED BY <1>0, <1>1, <2>1, <2>3, <3>1, AppPosts
            DEF CreateScene, BaseType, hardware, LifeCycle
  <2> QED BY <2>2, <2>3
<1>2. CASE AllocateScene
  <2>1. tpc = "wait" /\ evts = <<>> /\ Empty
    BY <1>2, AppAlone DEF AllocateScene, Prepared, Playing
  <2>2. PICK a \in Addrs :
          life' = [life EXCEPT ![a] = "allocated"] /\ scene' = a
    BY <1>2 DEF AllocateScene
  <2>3. a # NULL /\ life'[a] = "allocated"
    BY <1>0, <2>2, CaptureAssumption DEF BaseType
  <2>4. Prepared'
    BY <1>2, <2>1, <2>2, <2>3 DEF AllocateScene, Prepared, Fresh, Empty, Silent, hardware, task
  <2> QED BY <1>2, <1>a, <2>1, <2>4 DEF AllocateScene
<1>3. CASE PostCreate
  <2>1. tpc = "wait" /\ evts = <<>> /\ Prepared
    BY <1>3, AppAlone DEF PostCreate, Empty, Playing
  <2>2. ASSUME NEW s, s = scene PROVE Creating(s)'
    BY <1>3, <2>1, <2>2 DEF PostCreate, Prepared, Creating, Fresh, Silent, hardware
  <2> QED BY <1>0, <1>3, <2>1, <2>2, AppPosts DEF PostCreate, LifeCycle, BaseType
<1>4. CASE DestroyScene
  <2>1. tpc = "wait" /\ evts = <<>> /\ apc = "idle" /\ On(scene) /\ scene # NULL
    BY <1>4, AppAlone DEF DestroyScene, Prepared, Empty, Playing
  <2> QED BY <1>0, <1>4, <2>1, AppPosts
          DEF DestroyScene, BaseType, manager, hardware, LifeCycle
<1> QED BY <1>1, <1>2, <1>3, <1>4 DEF App

-----------------------------------------------------------------------------
(* The interrupts. *)

\* Steps that touch neither the scenes, the queue, the audio task nor whether
\* the hardware runs.
LEMMA SameStages ==
  ASSUME Control, UNCHANGED <<manager, evts, tpc, cur, owner, hw, fault>>
  PROVE  InOrder' /\ Stages' /\ NoFault'
<1> USE DEF manager
<1>1. (InOrder' <=> InOrder) /\ (Pending' <=> Pending)
  BY DEF InOrder, Pending
<1>2. (Empty' <=> Empty) /\ (Prepared' <=> Prepared) /\ (Playing' <=> Playing)
  BY DEF Empty, Prepared, Playing, Silent, Fresh, On, Owned, OwnEvents
<1>3. ASSUME NEW s
      PROVE  /\ Creating(s)' <=> Creating(s)
             /\ Starting(s)' <=> Starting(s)
             /\ Destroying(s)' <=> Destroying(s)
             /\ Stopped(s)' <=> Stopped(s)
  BY DEF Creating, Starting, Destroying, Stopped, Silent, Fresh, On, Owned, OwnEvents
<1>4. Served(evts[1])' <=> Served(evts[1])
  BY <1>3 DEF Served
<1> QED BY <1>1, <1>2, <1>3, <1>4 DEF Control, Stages, NoFault

LEMMA InterruptStages ==
  ASSUME Control, Interrupts
  PROVE  InOrder' /\ Stages' /\ NoFault'
<1>0. BaseType /\ InOrder /\ Stages /\ NoFault
  BY DEF Control
<1>1. CASE Transmit
  BY <1>1, SameStages DEF Transmit, task, hardware
<1>2. CASE Receive
  <2>1. hw.memory /\ hw.on
    BY <1>2, OwnerAlive DEF Receive
  <2>2. CASE ~hw.output
    BY <1>2, <2>1, <2>2, Received, SameStages DEF task
  <2>3. CASE hw.output
    <3>1. /\ evts' = Append(evts, Evt("HW_IN", owner))
          /\ UNCHANGED <<manager, task, owner, hw, fault>>
      BY <1>2, <2>1, <2>3, Received
    <3>2. /\ Evt("HW_IN", owner) \in Event /\ Evt("HW_IN", owner).type = "HW_IN"
          /\ Evt("HW_IN", owner).scene = owner
      <4>1. owner \in Ptr
        BY <1>0 DEF BaseType
      <4> QED BY <4>1, EvtIsEvent
    <3>3. /\ DOMAIN evts' = DOMAIN evts \cup {Len(evts) + 1}
          /\ \A i \in DOMAIN evts : evts'[i] = evts[i]
          /\ evts'[Len(evts) + 1] = Evt("HW_IN", owner)
      BY <1>0, <3>1, <3>2, PostQueue DEF BaseType
    <3>4. InOrder' /\ (Pending' <=> Pending)
      BY <1>0, <3>1, <3>2, <3>3 DEF InOrder, Pending, LifeCycle, task
    <3>5. Pending => evts'[1] = evts[1]
      BY <1>0, <3>3, PendingFirst
    <3>6. OwnEvents => OwnEvents'
      BY <3>1, <3>2, <3>3 DEF OwnEvents
    <3>7. \A s : On(s) => On(s)'
      BY <3>1, <3>6 DEF On, Owned, manager
    <3>8. Playing => Playing'
      BY <3>1, <3>7 DEF Playing, manager
    <3>9. \A s : ~Creating(s) /\ ~Starting(s) /\ ~Stopped(s)
      BY <2>1, <2>3 DEF Creating, Starting, Stopped, Fresh, Silent
    <3>10. ~Empty /\ ~Prepared
      BY <2>1 DEF Empty, Prepared, Fresh, Silent
    <3>11. \A s : Destroying(s) => Destroying(s)'
      BY <3>1, <3>7 DEF Destroying, manager
    <3>12. Pending => Served(evts[1])'
      BY <1>0, <3>5, <3>9, <3>11 DEF Stages, Served
    <3>13. Stages'
      BY <1>0, <3>1, <3>4, <3>8, <3>9, <3>10, <3>11, <3>12 DEF Stages, task
    <3> QED BY <1>0, <3>1, <3>4, <3>13 DEF NoFault
  <2> QED BY <2>2, <2>3
<1> QED BY <1>1, <1>2 DEF Interrupts

-----------------------------------------------------------------------------
(* The audio task. *)

\* Away from the queue no life-cycle event is pending.
LEMMA NothingPends ==
  ASSUME InOrder, tpc # "wait", evts' = evts
  PROVE  ~Pending /\ ~Pending' /\ InOrder'
BY DEF InOrder, Pending

LEMMA PopStages ==
  ASSUME Control, Pop
  PROVE  InOrder' /\ Stages' /\ NoFault'
<1>0. BaseType /\ InOrder /\ Stages /\ NoFault /\ tpc = "wait" /\ evts # <<>>
  BY DEF Control, Pop, TaskAt
<1> DEFINE e == Head(evts)
<1>1. /\ 1 \in DOMAIN evts /\ evts[1] = e /\ e \in Event
      /\ e.type \in {"CREATE", "DESTROY", "HW_IN"}
  BY <1>0, PopQueue, EventFields DEF BaseType
<1> HIDE DEF e
<1>2. Pending <=> e.type \in LifeCycle
  BY <1>0, <1>1 DEF InOrder, Pending
<1>3. Pending => Served(e)
  BY <1>0, <1>1 DEF Stages
<1>4. ~Pending => Empty \/ Playing
  BY <1>0 DEF Stages, Prepared
<1>5. ~Crash("uninitialised")
  <2> SUFFICES ASSUME e.type = "HW_IN", e.scene \in {scene, NULL}, e.scene # NULL => life[e.scene] # "running"
               PROVE  FALSE
    BY <1>0, <1>1 DEF Pop, e, Crash, NoFault
  <2>1. ~Pending
    BY <1>2 DEF LifeCycle
  <2> QED BY <1>1, <1>4, <2>1 DEF Empty, Playing, On, Owned, OwnEvents
<1>6. /\ evts' = Tail(evts) /\ cur' = e /\ UNCHANGED <<manager, owner, hw, fault>>
      /\ e.type = "CREATE" => tpc' = "init"
      /\ e.type = "DESTROY" => tpc' = "stop_hw"
      /\ e.type = "HW_IN" => \/ tpc' = "read" /\ scene # NULL
                             \/ tpc' = "wait" /\ e.scene # scene
  BY <1>0, <1>1, <1>5 DEF Pop, e, hardware, LifeCycle
<1>7. \A i \in DOMAIN evts' : i \in Nat /\ i >= 1 /\ i + 1 \in DOMAIN evts /\ evts'[i] = evts[i + 1]
  BY <1>0, <1>6, PopQueue DEF BaseType
<1>8. InOrder' /\ ~Pending'
  BY <1>0, <1>7 DEF InOrder, Pending
<1>9. OwnEvents => OwnEvents'
  BY <1>6, <1>7 DEF OwnEvents
<1>10. \A s : On(s) => On(s)'
  BY <1>6, <1>9 DEF On, Owned, manager
<1>11. CASE e.type = "CREATE"
  <2>1. Creating(e.scene) /\ Len(evts) = 1 /\ tpc' = "init"
    BY <1>2, <1>3, <1>6, <1>11 DEF Served, LifeCycle
  <2>2. evts' = <<>>
    BY <1>0, <1>6, <2>1, PopQueue DEF BaseType
  <2>3. PICK s : s = e.scene
    OBVIOUS
  <2>4. Creating(s)'
    BY <1>6, <2>1, <2>3 DEF Creating, Fresh, Silent, manager
  <2> QED BY <1>0, <1>6, <1>8, <2>1, <2>2, <2>3, <2>4 DEF Stages, NoFault
<1>12. CASE e.type = "DESTROY"
  <2>1. Destroying(e.scene) /\ tpc' = "stop_hw"
    BY <1>2, <1>3, <1>6, <1>12 DEF Served, LifeCycle
  <2>2. PICK s : s = e.scene
    OBVIOUS
  <2>3. Destroying(s)'
    BY <1>6, <1>10, <2>1, <2>2 DEF Destroying, manager
  <2> QED BY <1>0, <1>6, <1>8, <2>1, <2>2, <2>3 DEF Stages, NoFault
<1>13. CASE e.type = "HW_IN"
  <2>1. Empty \/ Playing
    BY <1>2, <1>4, <1>13 DEF LifeCycle
  <2>2. Playing => Playing'
    BY <1>6, <1>10 DEF Playing, manager
  <2>3. Empty => Empty'
    BY <1>6, <1>7 DEF Empty, Silent, manager
  <2>4. tpc' = "read" => ~Empty
    BY <1>6, <1>13 DEF Empty
  <2>5. tpc' \in {"read", "wait"}
    BY <1>6, <1>13
  <2> QED BY <1>0, <1>6, <1>8, <2>1, <2>2, <2>3, <2>4, <2>5 DEF Stages, NoFault
<1> QED BY <1>1, <1>11, <1>12, <1>13

LEMMA TaskStages ==
  ASSUME Control, Task
  PROVE  InOrder' /\ Stages' /\ NoFault'
<1>0. BaseType /\ InOrder /\ Stages /\ NoFault
  BY DEF Control
<1>1. CASE InitScene
  <2>1. tpc = "init" /\ tpc' = "start_hw" /\ evts' = evts /\ fault' = fault
    BY <1>1 DEF InitScene, TaskAt
  <2>2. PICK s : s = cur.scene /\ s = cur'.scene
    BY <1>1 DEF InitScene
  <2>3. Creating(s) /\ evts = <<>>
    BY <1>0, <2>1, <2>2 DEF Stages
  <2>4. Starting(s)' /\ ~hw'.on /\ ~hw'.memory
    BY <1>1, <2>1, <2>2, <2>3 DEF InitScene, Creating, Fresh, Silent, Starting, Owned, manager
  <2> QED BY <1>0, <2>1, <2>2, <2>4, NothingPends DEF Stages, NoFault
<1>2. CASE HwCreate
  <2>1. tpc = "start_hw" /\ tpc' = "add_output" /\ evts' = evts /\ fault' = fault
    BY <1>2 DEF HwCreate, TaskAt
  <2>2. PICK s : s = cur.scene /\ s = cur'.scene
    BY <1>2 DEF HwCreate
  <2>3. Starting(s)
    BY <1>0, <2>1, <2>2 DEF Stages
  <2>4. Starting(s)' /\ hw'.on /\ hw'.memory
    BY <1>2, <2>3 DEF HwCreate, Starting, Owned, manager
  <2> QED BY <1>0, <2>1, <2>2, <2>4, NothingPends DEF Stages, NoFault
<1>3. CASE HwOutputAdd
  <2>1. tpc = "add_output" /\ tpc' = "wait" /\ evts' = evts /\ fault' = fault
    BY <1>3 DEF HwOutputAdd, TaskAt
  <2>2. Starting(scene) /\ hw.on /\ hw.memory
    BY <1>0, <2>1 DEF Stages, Starting, Owned
  <2>3. scene \in Addrs /\ owner = scene
    BY <1>0, <2>2, Addresses DEF Starting, Owned
  <2>4. Playing'
    BY <1>0, <1>3, <2>2, <2>3
    DEF HwOutputAdd, Starting, Playing, On, Owned, OwnEvents, BaseType
  <2> QED BY <1>0, <2>1, <2>4, NothingPends DEF Stages, NoFault
<1>4. CASE HwStop
  <2>1. tpc = "stop_hw" /\ tpc' = "free" /\ evts' = evts /\ fault' = fault
    BY <1>4 DEF HwStop, TaskAt
  <2>2. PICK s : s = cur.scene /\ s = cur'.scene
    BY <1>4 DEF HwStop
  <2>3. Destroying(s)
    BY <1>0, <2>1, <2>2 DEF Stages
  <2>4. Stopped(s)'
    BY <1>0, <1>4, <2>3 DEF HwStop, Destroying, On, Stopped, Owned, OwnEvents, manager, BaseType
  <2> QED BY <1>0, <2>1, <2>2, <2>4, NothingPends DEF Stages, NoFault
<1>5. CASE FreeScene
  <2>1. tpc = "free" /\ tpc' = "wait" /\ evts' = evts /\ fault' = fault
    BY <1>5 DEF FreeScene, TaskAt
  <2>2. Stopped(cur.scene)
    BY <1>0, <2>1 DEF Stages
  <2>3. \A i \in DOMAIN evts : evts[i].type = "HW_IN"
    <3>1. \A i \in DOMAIN evts : evts[i] \in Event
      BY <1>0 DEF BaseType
    <3> QED BY <1>0, <2>1, <3>1, EventFields DEF InOrder, LifeCycle
  <2>4. Empty'
    BY <1>0, <1>5, <2>1, <2>2, <2>3
    DEF FreeScene, Stopped, Empty, Silent, Owned, OwnEvents, BaseType
  <2> QED BY <1>0, <2>1, <2>4, NothingPends DEF Stages, NoFault
<1>6. ASSUME tpc \in {"read", "launch", "report"}, tpc' \in {"wait", "read", "launch", "report"},
             UNCHANGED <<manager, evts, owner, hw, fault>>
      PROVE  InOrder' /\ Stages' /\ NoFault'
  <2>1. Playing'
    BY <1>0, <1>6 DEF Stages, Playing, On, Owned, OwnEvents, manager
  <2> QED BY <1>0, <1>6, <2>1, NothingPends DEF Stages, NoFault
<1>7. CASE ReadToBuffer
  <2>1. tpc' \in {"wait", "read", "launch"}
    BY <1>7 DEF ReadToBuffer
  <2> QED BY <1>6, <1>7, <2>1 DEF ReadToBuffer, TaskAt
<1>8. CASE ReadAndEncode \/ ReadAndRecognize
  BY <1>6, <1>8 DEF ReadAndEncode, ReadAndRecognize, TaskAt
<1>9. CASE Launch
  BY <1>6, <1>9 DEF Launch, TaskAt, hardware
<1>10. CASE Report \/ Reported
  BY <1>6, <1>10 DEF Report, Reported, TaskAt, hardware, task
<1> QED BY <1>1, <1>2, <1>3, <1>4, <1>5, <1>7, <1>8, <1>9, <1>10, PopStages DEF Task

LEMMA ControlInit == Init => Control
<1> SUFFICES ASSUME Init PROVE Control
  OBVIOUS
<1>1. evts = <<>> /\ ~Pending /\ InOrder
  BY DEF Init, Pending, InOrder
<1>2. Empty
  BY <1>1 DEF Init, Empty, Silent
<1> QED BY <1>1, <1>2, BaseInit DEF Control, Stages, Init, NoFault

LEMMA ControlStep ==
  ASSUME TaskPreempts = TRUE, Control, [Next]_vars
  PROVE  Control'
<1>1. CASE App
  BY <1>1, AppType, AppStages, OwnerAlive DEF Control
<1>2. CASE Interrupts
  BY <1>2, InterruptType, InterruptStages DEF Control
<1>3. CASE Task
  BY <1>3, TaskType, TaskStages DEF Control
<1>4. CASE UNCHANGED vars
  <2>1. BaseType'
    BY <1>4, BufSizes DEF vars, manager, task, hardware, buffer, clock, Control, BaseType
  <2> QED BY <1>4, <2>1, SameStages DEF vars, task, hardware, Control
<1> QED BY <1>1, <1>2, <1>3, <1>4 DEF Next

LEMMA ControlAlways ==
  ASSUME TaskPreempts = TRUE
  PROVE  Spec => []Control
<1>1. Control /\ [Next]_vars => Control'
  BY ControlStep
<1> QED BY <1>1, ControlInit, PTL DEF Spec

\* The interrupts find the memory they use and their events find a scene that
\* has been initialised, whatever the sizes of the buffers and the bounds.
THEOREM NeverFaults ==
  ASSUME TaskPreempts = TRUE
  PROVE  Spec => []NoFault
<1>1. Control => NoFault
  BY DEF Control
<1> QED BY <1>1, ControlAlways, PTL

-----------------------------------------------------------------------------
(* The reader of the ring is in step with the interrupt that fills it. *)

LEMMA AnnouncedFinite ==
  ASSUME evts \in Seq(Event)
  PROVE  IsFiniteSet(Announced) /\ Cardinality(Announced) \in Nat
<1>1. Len(evts) \in Nat /\ Announced \in SUBSET (1 .. Len(evts))
  BY DEF Announced
<1>2. IsFiniteSet(1 .. Len(evts))
  BY <1>1, FS_Interval
<1>3. IsFiniteSet(Announced)
  BY <1>1, <1>2, FS_Subset
<1> QED BY <1>3, FS_CardinalityType

\* One event more.
LEMMA AnnounceOne ==
  ASSUME evts \in Seq(Event), NEW e \in Event, evts' = Append(evts, e), owner' = owner
  PROVE  Cardinality(Announced') =
           IF e = Evt("HW_IN", owner) THEN Cardinality(Announced) + 1 ELSE Cardinality(Announced)
<1>1. /\ DOMAIN evts' = DOMAIN evts \cup {Len(evts) + 1}
      /\ Len(evts) + 1 \notin DOMAIN evts
      /\ \A i \in DOMAIN evts : evts'[i] = evts[i]
      /\ evts'[Len(evts) + 1] = e
  BY PostQueue
<1>2. IsFiniteSet(Announced) /\ Len(evts) + 1 \notin Announced
  BY <1>1, AnnouncedFinite DEF Announced
<1>3. Evt("HW_IN", owner)' = Evt("HW_IN", owner)
  BY DEF Evt
<1>4. CASE e = Evt("HW_IN", owner)
  <2>1. Announced' = Announced \cup {Len(evts) + 1}
    BY <1>1, <1>3, <1>4 DEF Announced
  <2> QED BY <1>2, <1>4, <2>1, FS_AddElement
<1>5. CASE e # Evt("HW_IN", owner)
  <2>1. Announced' = Announced
    BY <1>1, <1>3, <1>5 DEF Announced
  <2> QED BY <1>5, <2>1
<1> QED BY <1>4, <1>5

\* One event less.
LEMMA ServeOne ==
  ASSUME evts \in Seq(Event), evts # <<>>, evts' = Tail(evts), owner' = owner
  PROVE  /\ Cardinality(Announced') \in Nat
         /\ Cardinality(Announced) =
              IF Head(evts) = Evt("HW_IN", owner) THEN Cardinality(Announced') + 1
              ELSE Cardinality(Announced')
<1> DEFINE A == Announced \ {1}
           f == [i \in A |-> i - 1]
<1>1. /\ 1 \in DOMAIN evts /\ evts[1] = Head(evts) /\ DOMAIN evts \subseteq Nat
      /\ \A i \in DOMAIN evts' : i \in Nat /\ i >= 1 /\ i + 1 \in DOMAIN evts /\ evts'[i] = evts[i + 1]
      /\ \A i \in DOMAIN evts \ {1} : i - 1 \in DOMAIN evts' /\ evts'[i - 1] = evts[i]
  BY PopQueue
<1>2. Evt("HW_IN", owner)' = Evt("HW_IN", owner)
  BY DEF Evt
<1>3. \A i \in A : i \in Nat /\ i - 1 \in Announced'
  BY <1>1, <1>2 DEF Announced
<1>4. \A j \in Announced' : j \in Nat /\ j + 1 \in A
  BY <1>1, <1>2 DEF Announced
<1> HIDE DEF A
<1>5. f \in Bijection(A, Announced')
  <2>1. f \in [A -> Announced']
    BY <1>3
  <2>2. \A i, j \in A : f[i] = f[j] => i = j
    BY <1>3
  <2>3. \A j \in Announced' : \E i \in A : f[i] = j
    <3> SUFFICES ASSUME NEW j \in Announced' PROVE \E i \in A : f[i] = j
      OBVIOUS
    <3>1. f[j + 1] = j /\ j + 1 \in A
      BY <1>4
    <3> QED BY <3>1
  <2> HIDE DEF f
  <2>4. f \in Injection(A, Announced')
    BY <2>1, <2>2 DEF Injection, IsInjective
  <2>5. f \in Surjection(A, Announced')
    BY <2>1, <2>3 DEF Surjection
  <2> QED BY <2>4, <2>5 DEF Bijection
<1>6. IsFiniteSet(Announced) /\ Cardinality(Announced) \in Nat
  BY AnnouncedFinite
<1>7. /\ IsFiniteSet(A)
      /\ Cardinality(A) = IF 1 \in Announced THEN Cardinality(Announced) - 1 ELSE Cardinality(Announced)
  BY <1>6, FS_RemoveElement DEF A
<1>8. Cardinality(Announced') = Cardinality(A)
  BY <1>5, <1>7, FS_Bijection DEF ExistsBijection
<1>9. 1 \in Announced <=> Head(evts) = Evt("HW_IN", owner)
  BY <1>1 DEF Announced
<1>10. Cardinality(A) \in Nat
  BY <1>7, FS_CardinalityType
<1> QED BY <1>6, <1>7, <1>8, <1>9, <1>10

InStep == hw.output => \E k \in Int : rd + Backlog = wr + RingSize * k

\* The numbers behind InStep.
LEMMA Numbers ==
  ASSUME BaseType
  PROVE  /\ rd \in Int /\ wr \in Int /\ rest \in Nat /\ Cardinality(Announced) \in Nat
         /\ Backlog \in Nat /\ Backlog = Chunk * Cardinality(Announced) + rest
         /\ RingSize \in Nat \ {0} /\ Chunk \in Nat \ {0}
         /\ wr \in 0 .. RingSize - 1
<1>1. Cardinality(Announced) \in Nat
  BY AnnouncedFinite DEF BaseType
<1>2. wr \in 0 .. RingSize - 1
  BY WriteGoesRound DEF BaseType
<1>3. Chunk * Cardinality(Announced) \in Nat
  BY <1>1, Sizes
<1> QED BY <1>1, <1>2, <1>3, Sizes DEF BaseType, Backlog

\* What moves the pointers and the backlog keeps them in step.
LEMMA Moves ==
  ASSUME BaseType, InStep, hw.output,
         NEW r \in Int, NEW w \in Int, NEW b \in Int, NEW t \in Int,
         r + b = rd + Backlog + w - wr + RingSize * t
  PROVE  \E k \in Int : r + b = w + RingSize * k
<1>1. PICK k \in Int : rd + Backlog = wr + RingSize * k
  BY DEF InStep
<1>2. RingSize * (k + t) = RingSize * k + RingSize * t
  BY Numbers
<1>3. RingSize * k \in Int /\ RingSize * t \in Int
  BY Numbers
<1>4. r + b = w + RingSize * (k + t)
  BY <1>1, <1>2, <1>3, Numbers
<1> QED BY <1>4

LEMMA StepSame ==
  ASSUME InStep, UNCHANGED <<hw, rd, wr, rest, evts, owner>>
  PROVE  InStep'
<1>1. Evt("HW_IN", owner)' = Evt("HW_IN", owner)
  BY DEF Evt
<1>2. Announced' = Announced
  BY <1>1 DEF Announced
<1>3. Backlog' = Backlog
  BY <1>2 DEF Backlog
<1> QED BY <1>3 DEF InStep

\* The interrupt announces what it has stored.
LEMMA ReceiveBacklog ==
  ASSUME Control, Receive
  PROVE  Backlog' = IF hw.output THEN Backlog + Chunk ELSE Backlog
<1>0. BaseType /\ hw.memory
  BY OwnerAlive DEF Control, Receive
<1>1. CASE ~hw.output
  <2>1. Announced' = Announced /\ rest' = rest
    BY <1>0, <1>1, Received DEF Announced, Evt, task
  <2> QED BY <1>1, <2>1 DEF Backlog
<1>2. CASE hw.output
  <2>1. Evt("HW_IN", owner) \in Event
    <3>1. owner \in Ptr
      BY <1>0 DEF BaseType
    <3> QED BY <3>1, EvtIsEvent
  <2>2. evts' = Append(evts, Evt("HW_IN", owner)) /\ UNCHANGED <<rest, owner>>
    BY <1>0, <1>2, Received DEF task
  <2>3. Cardinality(Announced') = Cardinality(Announced) + 1
    BY <1>0, <2>1, <2>2, AnnounceOne DEF BaseType
  <2>4. Chunk * (Cardinality(Announced) + 1) = Chunk * Cardinality(Announced) + Chunk
    BY <1>0, Numbers
  <2>5. Backlog' = Chunk * (Cardinality(Announced) + 1) + rest
    BY <2>2, <2>3 DEF Backlog
  <2>6. Chunk * Cardinality(Announced) \in Nat
    BY <1>0, Numbers
  <2>7. Backlog' = Backlog + Chunk
    BY <1>0, <2>4, <2>5, <2>6, Numbers
  <2> QED BY <1>2, <2>7
<1> QED BY <1>1, <1>2

LEMMA InStepReceive ==
  ASSUME Control, InStep, Receive
  PROVE  InStep'
<1>0. BaseType /\ hw.memory
  BY OwnerAlive DEF Control, Receive
<1>1. CASE ~hw.output
  BY <1>0, <1>1, Received DEF InStep
<1>2. CASE hw.output
  <2>1. wr' = NextWr /\ UNCHANGED <<rd, hw>> /\ Backlog' = Backlog + Chunk
    BY <1>0, <1>2, Received, ReceiveBacklog
  <2>2. PICK t \in {0, 1} : wr + Chunk = NextWr + RingSize * t /\ NextWr \in Int
    BY <1>0, WriteGoesRound DEF BaseType
  <2>3. rd + (Backlog + Chunk) = rd + Backlog + NextWr - wr + RingSize * t
    <3>1. RingSize * t \in Int
      BY <1>0, Numbers
    <3> QED BY <1>0, <2>2, <3>1, Numbers
  <2>4. \E k \in Int : rd + (Backlog + Chunk) = NextWr + RingSize * k
    <3>1. rd \in Int /\ Backlog + Chunk \in Int /\ t \in Int /\ NextWr \in Int
      BY <1>0, <2>2, Numbers
    <3> QED BY <1>0, <1>2, <2>3, <3>1, Moves
  <2> QED BY <2>1, <2>4 DEF InStep
<1> QED BY <1>1, <1>2

\* Reading n samples takes them from the backlog.
LEMMA ReadBacklog ==
  ASSUME BaseType, NEW n \in 0 .. Chunk, n <= rest, rest' = rest - n, UNCHANGED <<evts, owner>>
  PROVE  Backlog' = Backlog - n /\ n <= Backlog
<1>1. Announced' = Announced
  BY DEF Announced, Evt
<1>2. Backlog' = Chunk * Cardinality(Announced) + (rest - n)
  BY <1>1 DEF Backlog
<1>3. Chunk * Cardinality(Announced) \in Nat /\ n \in Int
  BY Numbers
<1> QED BY <1>2, <1>3, Numbers

LEMMA InStepRead ==
  ASSUME BaseType, InStep, NEW n \in 0 .. Chunk, n <= rest,
         rd' = AfterRead(n), rest' = rest - n, UNCHANGED <<evts, owner, hw, wr>>
  PROVE  InStep'
<1>1. CASE ~hw.output
  BY <1>1 DEF InStep
<1>2. CASE hw.output
  <2>1. Backlog' = Backlog - n /\ n \in Int
    BY ReadBacklog
  <2>2. PICK t \in {0, 1} : rd + n = AfterRead(n) + RingSize * t /\ AfterRead(n) \in Int
    BY ReadGoesRound, Sizes DEF BaseType
  <2>3. RingSize * (0 - t) = 0 - RingSize * t /\ RingSize * t \in Int /\ 0 - t \in Int
    BY Numbers
  <2>4. AfterRead(n) + (Backlog - n) = rd + Backlog + wr - wr + RingSize * (0 - t)
    <3>1. PICK x \in Int : x = RingSize * t
      BY <2>3
    <3>2. rd + n = AfterRead(n) + x /\ RingSize * (0 - t) = 0 - x
      BY <2>2, <2>3, <3>1
    <3>3. rd \in Int /\ wr \in Int /\ Backlog \in Int /\ AfterRead(n) \in Int /\ n \in Int
      BY <2>1, <2>2, Numbers
    <3> QED BY <3>2, <3>3
  <2>5. Backlog - n \in Int
    BY <2>1, Numbers
  <2>6. \E k \in Int : AfterRead(n) + (Backlog - n) = wr + RingSize * k
    BY <1>2, <2>2, <2>3, <2>4, <2>5, Moves, Numbers
  <2> QED BY <2>1, <2>6 DEF InStep
<1> QED BY <1>1, <1>2

\* An event that is served has its samples left to read.
LEMMA PopBacklog ==
  ASSUME Control, Pop, hw.output
  PROVE  Backlog' = Backlog /\ UNCHANGED <<owner, hw, rd, wr>>
<1>0. BaseType /\ evts \in Seq(Event) /\ evts # <<>> /\ rest = 0 /\ NoFault /\ NoFault'
  BY PopStages DEF Control, Pop, TaskAt, BaseType
<1> DEFINE e == Head(evts)
<1>1. owner # NULL /\ owner = scene /\ life[owner] = "running"
  BY OwnerAlive
<1>2. /\ evts' = Tail(evts) /\ UNCHANGED <<owner, hw, rd, wr>>
      /\ e = Evt("HW_IN", owner) => rest' = Chunk
      /\ e # Evt("HW_IN", owner) => rest' = 0
  <2>1. ~Crash("uninitialised")
    BY <1>0 DEF Crash, NoFault
  <2>2. e \in Event
    BY <1>0 DEF BaseType
  <2>3. e.type = "HW_IN" /\ e.scene = owner <=> e = Evt("HW_IN", owner)
    BY <2>2 DEF Event, Evt
  <2> QED BY <1>0, <1>1, <2>1, <2>3 DEF Pop, hardware, LifeCycle
<1> HIDE DEF e
<1>3. Cardinality(Announced') \in Nat
  BY <1>0, <1>2, ServeOne
<1>4. Cardinality(Announced) =
         IF e = Evt("HW_IN", owner) THEN Cardinality(Announced') + 1 ELSE Cardinality(Announced')
  BY <1>0, <1>2, ServeOne DEF e
<1>5. Chunk * (Cardinality(Announced') + 1) = Chunk * Cardinality(Announced') + Chunk
  BY <1>0, <1>3, Numbers
<1>6. Backlog' = Chunk * Cardinality(Announced') + rest'
  BY DEF Backlog
<1>7. Chunk * Cardinality(Announced') \in Nat
  BY <1>0, <1>3, Numbers
<1>8. Backlog' = Backlog
  <2>1. CASE e = Evt("HW_IN", owner)
    BY <1>0, <1>2, <1>4, <1>5, <1>6, <1>7, <2>1, Numbers
  <2>2. CASE e # Evt("HW_IN", owner)
    BY <1>0, <1>2, <1>4, <1>6, <1>7, <2>2, Numbers
  <2> QED BY <2>1, <2>2
<1> QED BY <1>2, <1>8

\* The events that the application posts announce no samples.
LEMMA AppBacklog ==
  ASSUME BaseType, App
  PROVE  Backlog' = Backlog /\ UNCHANGED <<owner, hw, rd, wr, rest>>
<1>1. UNCHANGED <<owner, hw, rd, wr, rest>>
  BY DEF App, CreateScene, AllocateScene, PostCreate, DestroyScene, task, hardware
<1>2. CASE evts' = evts
  BY <1>1, <1>2 DEF Backlog, Announced, Evt
<1>3. ASSUME NEW t \in LifeCycle, evts' = Append(evts, Evt(t, scene))
      PROVE  Backlog' = Backlog
  <2>1. Evt(t, scene) \in Event /\ Evt(t, scene) # Evt("HW_IN", owner)
    <3>1. scene \in Ptr
      BY DEF BaseType
    <3> QED BY <3>1, EvtIsEvent DEF Evt, LifeCycle
  <2>2. Cardinality(Announced') = Cardinality(Announced)
    BY <1>1, <1>3, <2>1, AnnounceOne DEF BaseType
  <2> QED BY <1>1, <2>2 DEF Backlog
<1>4. Backlog' = Backlog
  BY <1>2, <1>3 DEF App, CreateScene, AllocateScene, PostCreate, DestroyScene, LifeCycle
<1> QED BY <1>1, <1>4

LEMMA InStepStep ==
  ASSUME TaskPreempts = TRUE, Control, InStep, [Next]_vars
  PROVE  InStep'
<1>0. BaseType
  BY DEF Control
<1>1. CASE App
  BY <1>0, <1>1, AppBacklog DEF InStep
<1>2. CASE Pop
  <2>1. CASE ~hw.output
    BY <1>2, <2>1 DEF Pop, InStep, hardware, Crash
  <2>2. CASE hw.output
    BY <1>2, <2>2, PopBacklog DEF InStep
  <2> QED BY <2>1, <2>2
<1>3. CASE InitScene \/ HwCreate \/ FreeScene
  <2>1. ~hw'.output
    <3>1. CASE InitScene
      <4>1. Creating(cur.scene) /\ hw' = hw
        BY <3>1 DEF InitScene, TaskAt, Control, Stages
      <4> QED BY <4>1 DEF Creating, Fresh, Silent
    <3>2. CASE HwCreate
      BY <3>2 DEF HwCreate
    <3>3. CASE FreeScene
      BY <1>0, <3>3 DEF FreeScene, BaseType
    <3> QED BY <1>3, <3>1, <3>2, <3>3
  <2> QED BY <2>1 DEF InStep
<1>4. CASE HwOutputAdd
  <2>1. rd' = wr /\ wr' = wr /\ rest' = 0 /\ evts' = <<>>
    BY <1>0, <1>4 DEF HwOutputAdd, TaskAt, Control, Stages, Starting, BaseType
  <2>2. Announced' = {}
    BY <2>1 DEF Announced
  <2>3. Cardinality(Announced') = 0
    BY <2>2, FS_EmptySet
  <2>4. Backlog' = 0
    BY <2>1, <2>3, Sizes DEF Backlog
  <2>5. wr + 0 = wr + RingSize * 0
    BY <1>0, Numbers
  <2> QED BY <2>1, <2>4, <2>5 DEF InStep
<1>5. CASE HwStop
  <2>1. hw.output = hw'.output
    BY <1>0, <1>5 DEF HwStop, BaseType
  <2>2. Announced' = Announced
    BY <1>5 DEF HwStop, Announced, Evt
  <2>3. Backlog' = Backlog
    BY <1>5, <2>2 DEF HwStop, Backlog
  <2> QED BY <1>5, <2>1, <2>3 DEF HwStop, InStep
<1>6. CASE ReadToBuffer
  <2>1. PICK n : /\ n = Min({rest, BufSize - bufWr})
                 /\ rd' = AfterRead(n) /\ rest' = rest - n
    BY <1>6 DEF ReadToBuffer
  <2>2. n \in 0 .. Chunk /\ n <= rest
    <3>1. rest \in Nat /\ rest <= Chunk
      BY <1>0, Sizes DEF BaseType
    <3>2. n \in 0 .. rest
      BY <1>0, <2>1, CopyFits
    <3> QED BY <3>1, <3>2, Sizes
  <2> QED BY <1>0, <1>6, <2>1, <2>2, InStepRead DEF ReadToBuffer
<1>7. CASE ReadAndEncode \/ ReadAndRecognize
  <2>1. rest \in 0 .. Chunk /\ rest <= rest /\ rest - rest = 0
    BY <1>0, Sizes DEF BaseType
  <2>2. /\ rd' = AfterRead(rest) /\ rest' = rest - rest
        /\ UNCHANGED <<evts, owner, hw, wr>>
    BY <1>7, <2>1 DEF ReadAndEncode, ReadAndRecognize
  <2> QED BY <1>0, <2>1, <2>2, InStepRead
<1>8. CASE Launch \/ Report \/ Reported
  BY <1>8, StepSame DEF Launch, Report, Reported, hardware, task
<1>9. CASE UNCHANGED vars
  BY <1>9, StepSame DEF vars, hardware, task
<1>10. CASE Transmit
  BY <1>10, StepSame DEF Transmit, task, hardware
<1> QED BY <1>1, <1>2, <1>3, <1>4, <1>5, <1>6, <1>7, <1>8, <1>9, <1>10, InStepReceive
        DEF Next, Interrupts, Task

\* A scene that runs has its output.
LEMMA LiveHasOutput ==
  ASSUME Control, Live
  PROVE  hw.output
<1>1. owner # NULL /\ owner = scene /\ life[owner] = "running" /\ BaseType
  BY DEF Live, Control
<1>2. CASE Pending
  <2>1. Served(evts[1]) /\ evts[1].type \in LifeCycle
    BY <1>2, PendingFirst DEF Control, Stages
  <2> QED BY <1>1, <2>1 DEF Served, Creating, Fresh, Silent, Destroying, On, LifeCycle
<1>3. CASE tpc = "wait" /\ ~Pending
  BY <1>1, <1>3 DEF Control, Stages, Empty, Prepared, Playing, Fresh, Silent, On
<1>4. CASE tpc # "wait"
  BY <1>1, <1>4
  DEF BaseType, Control, Stages, Playing, Creating, Fresh, Silent, Starting, Destroying,
      Stopped, On, Owned
<1> QED BY <1>2, <1>3, <1>4

\* A reader that was late finds its place again: what the interrupt has announced
\* is what separates the two pointers of the ring, for any size of the ring.
THEOREM ReaderStaysInStep ==
  ASSUME TaskPreempts = TRUE
  PROVE  Spec => []ReaderInStep
<1>1. Init => InStep
  BY DEF Init, InStep
<1>2. Control /\ InStep /\ [Next]_vars => InStep'
  BY InStepStep
<1>3. ASSUME Control, InStep
      PROVE  ReaderInStep
  <2> SUFFICES ASSUME Live PROVE (rd + Backlog) % RingSize = wr
    BY DEF ReaderInStep
  <2>1. BaseType
    BY <1>3 DEF Control
  <2>2. hw.output
    BY <1>3, LiveHasOutput
  <2>3. PICK k \in Int : rd + Backlog = wr + RingSize * k
    BY <1>3, <2>2 DEF InStep
  <2>4. rd + Backlog \in Int
    BY <2>1, Numbers
  <2> QED BY <2>1, <2>3, <2>4, ModTurns, Numbers
<1> QED BY <1>1, <1>2, <1>3, ControlAlways, PTL DEF Spec

-----------------------------------------------------------------------------
(* What the buffers and the encoder hold. *)

\* An encoder: the frames of the list are counted, and the frame that is being
\* filled is not longer than a packet.
Encoders ==
  {e \in [list : Seq(Samples), count : Nat, tmp : Samples, codec : Samples] :
     e.count = Len(e.list) /\ Len(e.tmp) <= FrameMax}

\* The recorder's frames are never filled up.
Recorder(e) == Here = "recorder" => e.tmp = <<>>

HasBuffer == InCall(Here) \/ Here = "loopback"

DataType ==
  /\ ring \in [0 .. RingSize - 1 -> Cell]
  /\ HasBuffer => buf \in [0 .. BufSize - 1 -> Cell]
  /\ enc \in Encoders /\ Recorder(enc)
  /\ sent \in Sample
  /\ \A a \in Addrs : life[a] # "free" => kind[a] \in Kinds
  /\ tpc = "launch" => InCall(Here)

LEMMA SamplesClosed ==
  /\ \A s, t \in Samples : s \o t \in Samples /\ Len(s \o t) = Len(s) + Len(t)
  /\ \A s \in Samples : Len(s) \in Nat
  /\ \A s \in Samples, m \in Nat \ {0}, n \in Nat :
       n <= Len(s) => /\ SubSeq(s, m, n) \in Samples
                      /\ Len(SubSeq(s, m, n)) = IF m <= n THEN n - m + 1 ELSE 0
  /\ <<>> \in Samples /\ Len(<<>>) = 0
BY DEF Samples

LEMMA CellsAreSamples ==
  ASSUME NEW size \in Nat \ {0}, NEW mem \in [0 .. size - 1 -> Cell], NEW p \in Int, NEW n \in Nat
  PROVE  Cells(mem, size, p, n) \in Samples /\ Len(Cells(mem, size, p, n)) = n
<1>1. \A i \in 1 .. n : mem[(p + i - 1) % size] \in Cell
  <2> SUFFICES ASSUME NEW i \in 1 .. n PROVE mem[(p + i - 1) % size] \in Cell
    OBVIOUS
  <2>1. p + i - 1 \in Int
    OBVIOUS
  <2> QED BY <2>1, ModRange
<1>2. Cells(mem, size, p, n) \in [1 .. n -> Cell]
  BY <1>1 DEF Cells
<1> QED BY <1>2 DEF Samples, Cell

LEMMA StoredIsTyped ==
  ASSUME NEW size \in Nat \ {0}, NEW mem \in [0 .. size - 1 -> Cell], NEW p \in Int,
         NEW data \in Samples
  PROVE  Stored(mem, size, p, data) \in [0 .. size - 1 -> Cell]
<1>1. ASSUME NEW c \in 0 .. size - 1
      PROVE  (IF (c - p) % size < Len(data) THEN data[((c - p) % size) + 1] ELSE mem[c]) \in Cell
  <2>1. (c - p) % size \in 0 .. size - 1
    BY ModRange
  <2>2. data \in Seq(Cell) /\ Len(data) \in Nat
    BY DEF Samples, Cell
  <2> QED BY <2>1, <2>2
<1>2. DOMAIN mem = 0 .. size - 1
  OBVIOUS
<1> QED BY <1>1, <1>2 DEF Stored

LEMMA RunIsSamples ==
  ASSUME NEW s \in Int, NEW n \in Nat
  PROVE  Run(s, n) \in Samples /\ Len(Run(s, n)) = n
<1>1. ASSUME NEW i \in 1 .. n PROVE (s + i - 1) % Wrap \in Sample
  <2>1. s + i - 1 \in Int
    OBVIOUS
  <2> QED BY <2>1, ModRange, Sizes DEF Sample
<1>2. Run(s, n) \in [1 .. n -> Cell]
  BY <1>1 DEF Run, Cell
<1> QED BY <1>2 DEF Samples, Cell

-----------------------------------------------------------------------------
(* The encoder. *)

LEMMA NewEncoderIsOne == NewEncoder \in Encoders /\ NewEncoder.tmp = <<>> /\ NewEncoder.count = 0
<1>1. <<>> \in Seq(Samples) /\ <<>> \in Samples /\ Len(<<>>) = 0 /\ 0 \in Nat /\ 0 <= FrameMax
  BY SamplesClosed, Sizes
<1>2. NewEncoder \in [list : Seq(Samples), count : Nat, tmp : Samples, codec : Samples]
  BY <1>1 DEF NewEncoder
<1> QED BY <1>1, <1>2 DEF NewEncoder, Encoders

LEMMA PushedType ==
  ASSUME NEW e \in Encoders, NEW frame \in Samples
  PROVE  /\ Pushed(e, frame) \in Encoders
         /\ Pushed(e, frame).list = Append(e.list, frame) /\ Pushed(e, frame).count = e.count + 1
         /\ Pushed(e, frame).tmp = <<>> /\ Pushed(e, frame).codec = e.codec
<1> DEFINE R == [list : Seq(Samples), count : Nat, tmp : Samples, codec : Samples]
           l == Append(e.list, frame)
           c == e.count + 1
           f == [e EXCEPT !.list = l, !.count = c, !.tmp = <<>>]
<1>1. /\ e \in R /\ e.count = Len(e.list) /\ <<>> \in Samples /\ Len(<<>>) = 0
  BY SamplesClosed DEF Encoders
<1>5. l \in Seq(Samples) /\ Len(l) = c /\ c \in Nat
  BY <1>1
<1>2. Pushed(e, frame) = f
  BY <1>1 DEF Pushed
<1> HIDE DEF l, c
<1>3. f \in R
  BY <1>1, <1>5
<1>4. f.list = l /\ f.count = c /\ f.tmp = <<>> /\ f.codec = e.codec
  BY <1>1
<1> HIDE DEF f
<1> QED BY <1>1, <1>2, <1>3, <1>4, <1>5, Sizes DEF Encoders, l, c

LEMMA NewFrameType ==
  ASSUME NEW e \in Encoders, NEW data \in Samples, e.tmp = <<>>,
         Here # "recorder" => Len(data) <= FrameMax
  PROVE  NewFrame(e, data) \in Encoders /\ Recorder(NewFrame(e, data))
<1>1. /\ e \in [list : Seq(Samples), count : Nat, tmp : Samples, codec : Samples]
      /\ e.count = Len(e.list) /\ FrameMax \in Nat /\ <<>> \in Samples /\ Len(<<>>) = 0
  BY Sizes, SamplesClosed DEF Encoders
<1>2. CASE Here = "recorder" \/ Len(data) = FrameMax
  <2>1. NewFrame(e, data) = Pushed(e, data)
    BY <1>2 DEF NewFrame
  <2> QED BY <2>1, PushedType DEF Recorder
<1>3. CASE ~(Here = "recorder" \/ Len(data) = FrameMax)
  <2>1. NewFrame(e, data) = [e EXCEPT !.tmp = data]
    BY <1>3 DEF NewFrame
  <2> QED BY <1>1, <1>3, <2>1 DEF Encoders, Recorder
<1> QED BY <1>2, <1>3

LEMMA SaveType ==
  ASSUME NEW e \in Encoders, Recorder(e), NEW data \in Samples,
         Here # "recorder" => Len(data) <= FrameMax
  PROVE  Save(e, data) \in Encoders /\ Recorder(Save(e, data))
<1>1. /\ e \in [list : Seq(Samples), count : Nat, tmp : Samples, codec : Samples]
      /\ e.count = Len(e.list) /\ FrameMax \in Nat
      /\ Len(e.tmp) \in 0 .. FrameMax /\ Len(data) \in Nat
  BY Sizes, SamplesClosed DEF Encoders
<1> DEFINE space == FrameMax - Len(e.tmp)
<1>2. CASE e.tmp = <<>>
  <2>1. Save(e, data) = NewFrame(e, data)
    BY <1>2 DEF Save
  <2> QED BY <1>2, <2>1, NewFrameType
<1>3. CASE e.tmp # <<>> /\ Len(data) <= space
  <2>1. Save(e, data) = [e EXCEPT !.tmp = e.tmp \o data] /\ Here # "recorder"
    BY <1>3 DEF Save, Recorder
  <2>2. e.tmp \o data \in Samples /\ Len(e.tmp \o data) <= FrameMax
    BY <1>1, <1>3, SamplesClosed
  <2> QED BY <1>1, <2>1, <2>2 DEF Encoders, Recorder
<1>4. CASE e.tmp # <<>> /\ ~(Len(data) <= space)
  <2> DEFINE full == e.tmp \o SubSeq(data, 1, space)
             part == SubSeq(data, space + 1, Len(data))
             f == Pushed(e, full)
  <2>1. Save(e, data) = NewFrame(f, part) /\ Here # "recorder"
    BY <1>4 DEF Save, Recorder
  <2>2. space \in Nat /\ space < Len(data)
    BY <1>1, <1>4
  <2> HIDE DEF space
  <2>3. full \in Samples
    BY <1>1, <2>2, SamplesClosed
  <2>4. part \in Samples /\ Len(part) <= Len(data)
    <3>1. space + 1 \in Nat \ {0} /\ Len(data) \in Nat /\ Len(data) <= Len(data)
      BY <1>1, <2>2
    <3> DEFINE m == space + 1
    <3> HIDE DEF m
    <3>2. /\ SubSeq(data, m, Len(data)) \in Samples
          /\ Len(SubSeq(data, m, Len(data))) = IF m <= Len(data) THEN Len(data) - m + 1 ELSE 0
      BY <3>1, SamplesClosed DEF m
    <3>3. part = SubSeq(data, m, Len(data))
      BY DEF m
    <3> QED BY <1>1, <2>2, <3>2, <3>3 DEF m
  <2> HIDE DEF full, part
  <2>5. f \in Encoders /\ f.tmp = <<>>
    BY <2>3, PushedType
  <2>6. Len(part) <= FrameMax
    BY <1>1, <2>1, <2>4, SamplesClosed
  <2> QED BY <2>1, <2>4, <2>5, <2>6, NewFrameType
<1> QED BY <1>2, <1>3, <1>4

\* The loop over the pieces is well defined.
LEMMA SavedExists ==
  ASSUME NEW e, NEW pieces, NEW n \in Nat
  PROVE  \E g : g = [i \in 0 .. n |-> IF i = 0 THEN e ELSE Save(g[i - 1], pieces[i])]
<1> DEFINE G(g, k) == g = [i \in 0 .. k |-> IF i = 0 THEN e ELSE Save(g[i - 1], pieces[i])]
           T == {k \in Nat : ~ \E g : G(g, k)}
<1>1. SUFFICES ASSUME T # {} PROVE FALSE
  OBVIOUS
<1>2. PICK k \in T : \A j \in T : ~(<<j, k>> \in OpToRel(<, Nat))
  <2>1. T \subseteq Nat
    OBVIOUS
  <2> HIDE DEF T
  <2> QED BY <1>1, <2>1, WFMin, NatLessThanWellFounded
<1>3. \A j \in T : ~(j < k)
  BY <1>2 DEF OpToRel
<1>4. CASE k = 0
  <2>1. G([i \in 0 .. 0 |-> e], 0)
    OBVIOUS
  <2> QED BY <1>4, <2>1
<1>5. CASE k # 0
  <2>1. k - 1 \in Nat /\ k - 1 \notin T
    <3>1. k \in Nat
      OBVIOUS
    <3> HIDE DEF T
    <3>2. k - 1 \in Nat /\ k - 1 < k
      BY <1>5, <3>1
    <3> QED BY <1>3, <3>2
  <2>2. PICK g : G(g, k - 1)
    BY <2>1
  <2> DEFINE h == [i \in 0 .. k |-> IF i = k THEN Save(g[k - 1], pieces[k]) ELSE g[i]]
  <2>3. \A i \in 0 .. k - 1 : g[i] = IF i = 0 THEN e ELSE Save(g[i - 1], pieces[i])
    BY <2>2, <2>1
  <2>4. ASSUME NEW i \in 0 .. k
        PROVE  h[i] = IF i = 0 THEN e ELSE Save(h[i - 1], pieces[i])
    <3>1. CASE i = k
      BY <1>5, <3>1
    <3>2. CASE i # k
      BY <2>3, <3>2
    <3> QED BY <3>1, <3>2
  <2>5. G(h, k)
    BY <2>4
  <2> QED BY <2>5
<1> QED BY <1>4, <1>5

LEMMA SaveAllIs ==
  ASSUME NEW e, NEW pieces, Len(pieces) \in Nat
  PROVE  \E g : /\ g[0] = e
                /\ \A i \in 1 .. Len(pieces) : g[i] = Save(g[i - 1], pieces[i])
                /\ SaveAll(e, pieces) = g[Len(pieces)]
<1> DEFINE f == CHOOSE g : g = [i \in 0 .. Len(pieces) |-> IF i = 0 THEN e ELSE Save(g[i - 1], pieces[i])]
<1>1. f = [i \in 0 .. Len(pieces) |-> IF i = 0 THEN e ELSE Save(f[i - 1], pieces[i])]
  BY SavedExists
<1>2. SaveAll(e, pieces) = f[Len(pieces)]
  BY DEF SaveAll
<1> HIDE DEF f
<1> WITNESS f
<1> QED BY <1>1, <1>2

\* What every piece keeps, the loop over the pieces keeps.
LEMMA SaveAllKeeps ==
  ASSUME NEW S, NEW e \in S, NEW pieces, Len(pieces) \in Nat,
         \A x \in S : \A i \in 1 .. Len(pieces) : Save(x, pieces[i]) \in S
  PROVE  SaveAll(e, pieces) \in S
<1> DEFINE n == Len(pieces)
<1>1. PICK g : /\ g[0] = e
               /\ \A i \in 1 .. n : g[i] = Save(g[i - 1], pieces[i])
               /\ SaveAll(e, pieces) = g[n]
  BY SaveAllIs
<1> DEFINE T == {k \in Nat : k <= n /\ g[k] \notin S}
<1>2. SUFFICES ASSUME T # {} PROVE FALSE
  BY <1>1
<1>3. PICK k \in T : \A j \in T : ~(<<j, k>> \in OpToRel(<, Nat))
  <2>1. T \subseteq Nat
    OBVIOUS
  <2> HIDE DEF T
  <2> QED BY <1>2, <2>1, WFMin, NatLessThanWellFounded
<1>4. k \in 0 .. n /\ g[k] \notin S /\ \A j \in T : ~(j < k)
  <2>1. \A j \in T : ~(j < k)
    BY <1>3 DEF OpToRel
  <2> QED BY <2>1
<1>5. k # 0 /\ k \in 1 .. n
  BY <1>1, <1>4
<1>6. k - 1 \in 0 .. n /\ k - 1 < k
  BY <1>5
<1>7. g[k - 1] \in S
  BY <1>4, <1>6
<1>8. g[k] = Save(g[k - 1], pieces[k])
  BY <1>1, <1>5
<1> QED BY <1>4, <1>5, <1>7, <1>8

LEMMA DivBounds ==
  ASSUME NEW n \in Nat \ {0}, NEW x \in Nat
  PROVE  /\ x \div n \in Nat /\ n * (x \div n) <= x /\ x < n * (x \div n) + n
         /\ n * (x \div n) \in Nat
OBVIOUS

\* A piece is not longer than the length it is cut to.
LEMMA PieceIs ==
  ASSUME NEW data \in Samples, NEW n \in Nat \ {0}
  PROVE  /\ Len(Pieces(data, n)) = (Len(data) + n - 1) \div n
         /\ Len(Pieces(data, n)) \in Nat
         /\ \A i \in 1 .. Len(Pieces(data, n)) :
              /\ Pieces(data, n)[i] = SubSeq(data, n * (i - 1) + 1, Min({n * i, Len(data)}))
              /\ Pieces(data, n)[i] \in Samples
              /\ n * (i - 1) \in Nat /\ n * i = n * (i - 1) + n /\ n * (i - 1) < Len(data)
              /\ Len(Pieces(data, n)[i]) = IF n * i <= Len(data) THEN n ELSE Len(data) - n * (i - 1)
<1> DEFINE L == Len(data)
           m == (L + n - 1) \div n
           p == Pieces(data, n)
<1>1. L \in Nat /\ L + n - 1 \in Nat
  BY SamplesClosed
<1>2. m \in Nat /\ n * m <= L + n - 1 /\ n * m \in Nat
  BY <1>1, DivBounds
<1>3. p = [i \in 1 .. m |-> SubSeq(data, n * (i - 1) + 1, Min({n * i, L}))]
  BY DEF Pieces
<1> HIDE DEF m, p, L
<1>4. Len(p) = m
  BY <1>2, <1>3
<1>5. ASSUME NEW i \in 1 .. m
      PROVE  /\ p[i] = SubSeq(data, n * (i - 1) + 1, Min({n * i, L}))
             /\ p[i] \in Samples
             /\ n * (i - 1) \in Nat /\ n * i = n * (i - 1) + n /\ n * (i - 1) < L
             /\ Len(p[i]) = IF n * i <= L THEN n ELSE L - n * (i - 1)
  <2>1. m - i \in Nat /\ n * m = n * i + n * (m - i) /\ n * (m - i) \in Nat
    BY <1>2
  <2>2. i - 1 \in Nat /\ n * (i - 1) \in Nat /\ n * i = n * (i - 1) + n
    BY <1>2
  <2>3. n * (i - 1) < L
    BY <1>1, <1>2, <2>1, <2>2
  <2> DEFINE from == n * (i - 1) + 1
             to == Min({n * i, L})
  <2>4. /\ from \in Nat \ {0} /\ to \in Nat /\ to <= L
        /\ to = IF n * i <= L THEN n * i ELSE L
    BY <1>1, <2>2, MinIs
  <2>5. p[i] = SubSeq(data, from, to)
    BY <1>3
  <2>6. from <= to /\ to - from + 1 = IF n * i <= L THEN n ELSE L - n * (i - 1)
    BY <1>1, <2>2, <2>3, <2>4
  <2> HIDE DEF from, to
  <2>7. p[i] \in Samples /\ Len(p[i]) = to - from + 1
    <3>1. to <= Len(data) /\ from \in Nat \ {0} /\ to \in Nat /\ from <= to
      BY <2>4, <2>6 DEF L
    <3>2. /\ SubSeq(data, from, to) \in Samples
          /\ Len(SubSeq(data, from, to)) = IF from <= to THEN to - from + 1 ELSE 0
      BY <3>1, SamplesClosed
    <3> QED BY <2>5, <3>1, <3>2
  <2> QED BY <2>2, <2>3, <2>5, <2>6, <2>7 DEF from, to
<1> QED BY <1>2, <1>4, <1>5 DEF m, p, L

LEMMA SaveAllType ==
  ASSUME NEW e \in Encoders, Here # "recorder", NEW data \in Samples
  PROVE  SaveAll(e, Pieces(data, FrameMax)) \in Encoders
<1> DEFINE p == Pieces(data, FrameMax)
<1>1. /\ Len(p) \in Nat
      /\ \A i \in 1 .. Len(p) : p[i] \in Samples /\ Len(p[i]) <= FrameMax
  <2>1. FrameMax \in Nat \ {0}
    BY Sizes
  <2>2. Len(p) \in Nat
    BY <2>1, PieceIs
  <2>3. ASSUME NEW i \in 1 .. Len(p)
        PROVE  p[i] \in Samples /\ Len(p[i]) <= FrameMax
    <3>1. /\ p[i] \in Samples /\ FrameMax * (i - 1) \in Nat /\ FrameMax * i = FrameMax * (i - 1) + FrameMax
          /\ Len(p[i]) = IF FrameMax * i <= Len(data) THEN FrameMax ELSE Len(data) - FrameMax * (i - 1)
      BY <2>1, PieceIs
    <3>2. Len(data) \in Nat
      BY SamplesClosed
    <3> QED BY <2>1, <3>1, <3>2
  <2> QED BY <2>2, <2>3
<1> HIDE DEF p
<1>2. \A x \in Encoders : \A i \in 1 .. Len(p) : Save(x, p[i]) \in Encoders
  BY <1>1, SaveType DEF Recorder
<1>3. SaveAll(e, p) \in Encoders
  BY <1>1, <1>2, SaveAllKeeps
<1> QED BY <1>3 DEF p

\* The codec keeps what is left of a packet.
LEMMA CodecKeeps ==
  ASSUME NEW e \in Encoders, NEW all \in Samples, NEW whole,
         whole = Len(all) - (Len(all) % FrameMax)
  PROVE  /\ whole \in 0 .. Len(all) /\ Len(all) - whole \in 0 .. FrameMax - 1
         /\ SubSeq(all, whole + 1, Len(all)) \in Samples
         /\ Len(SubSeq(all, whole + 1, Len(all))) = Len(all) - whole
         /\ SubSeq(all, 1, whole) \in Samples /\ Len(SubSeq(all, 1, whole)) = whole
         /\ \A rem \in Samples : [e EXCEPT !.codec = rem] \in Encoders
<1>1. Len(all) \in Nat /\ FrameMax \in Nat \ {0}
  BY Sizes, SamplesClosed
<1>2. /\ Len(all) % FrameMax \in 0 .. FrameMax - 1 /\ Len(all) % FrameMax <= Len(all)
  BY <1>1
<1>3. whole \in 0 .. Len(all) /\ Len(all) - whole \in 0 .. FrameMax - 1
  BY <1>1, <1>2
<1>4. /\ SubSeq(all, 1, whole) \in Samples /\ Len(SubSeq(all, 1, whole)) = whole
  <2>1. whole \in Nat /\ whole <= Len(all) /\ 1 \in Nat \ {0}
    BY <1>1, <1>3
  <2>2. SubSeq(all, 1, whole) \in Samples /\ Len(SubSeq(all, 1, whole)) = IF 1 <= whole THEN whole - 1 + 1 ELSE 0
    BY <2>1, SamplesClosed
  <2> QED BY <2>1, <2>2
<1>5. /\ SubSeq(all, whole + 1, Len(all)) \in Samples
      /\ Len(SubSeq(all, whole + 1, Len(all))) = Len(all) - whole
  <2> DEFINE m == whole + 1
  <2>1. m \in Nat \ {0} /\ Len(all) \in Nat /\ Len(all) <= Len(all)
    BY <1>1, <1>3
  <2> HIDE DEF m
  <2>2. /\ SubSeq(all, m, Len(all)) \in Samples
        /\ Len(SubSeq(all, m, Len(all))) = IF m <= Len(all) THEN Len(all) - m + 1 ELSE 0
    BY <2>1, SamplesClosed
  <2> QED BY <1>1, <1>3, <2>2 DEF m
<1>6. ASSUME NEW rem \in Samples
      PROVE  [e EXCEPT !.codec = rem] \in Encoders
  <2>1. e \in [list : Seq(Samples), count : Nat, tmp : Samples, codec : Samples]
    BY DEF Encoders
  <2>2. [e EXCEPT !.codec = rem] \in [list : Seq(Samples), count : Nat, tmp : Samples, codec : Samples]
    BY <2>1
  <2>3. /\ [e EXCEPT !.codec = rem].list = e.list /\ [e EXCEPT !.codec = rem].count = e.count
        /\ [e EXCEPT !.codec = rem].tmp = e.tmp
    BY <2>1
  <2> QED BY <2>2, <2>3 DEF Encoders
<1> QED BY <1>3, <1>4, <1>5, <1>6

LEMMA EncodedType ==
  ASSUME NEW e \in Encoders, InCall(Here), NEW data \in Samples
  PROVE  Encoded(e, data) \in Encoders
<1>0. Here # "recorder"
  BY DEF InCall
<1>1. CASE Here = "cvsd"
  BY <1>0, <1>1, SaveAllType DEF Encoded
<1>2. CASE Here # "cvsd"
  <2> DEFINE all == e.codec \o data
             whole == Len(all) - (Len(all) % FrameMax)
             f == [e EXCEPT !.codec = SubSeq(all, whole + 1, Len(all))]
  <2>1. all \in Samples
    BY SamplesClosed DEF Encoders
  <2>2. Encoded(e, data) = SaveAll(f, Pieces(SubSeq(all, 1, whole), FrameMax))
    BY <1>2 DEF Encoded
  <2>3. f \in Encoders /\ SubSeq(all, 1, whole) \in Samples
    <3> HIDE DEF all
    <3>1. PICK w : w = whole
      OBVIOUS
    <3>2. /\ SubSeq(all, w + 1, Len(all)) \in Samples /\ SubSeq(all, 1, w) \in Samples
          /\ \A rem \in Samples : [e EXCEPT !.codec = rem] \in Encoders
      BY <2>1, <3>1, CodecKeeps
    <3> QED BY <3>1, <3>2
  <2> HIDE DEF f, all, whole
  <2> QED BY <1>0, <2>2, <2>3, SaveAllType
<1> QED BY <1>1, <1>2
-----------------------------------------------------------------------------
(* The steps keep what the buffers and the encoder hold. *)

\* The kind of the scene that owns the hardware does not change.
LEMMA HereSame ==
  ASSUME owner' = owner, owner # NULL => kind'[owner] = kind[owner]
  PROVE  Here' = Here /\ BufSize' = BufSize /\ (HasBuffer' <=> HasBuffer)
BY DEF Here, BufSize, HasBuffer

LEMMA DataSame ==
  ASSUME DataType, UNCHANGED <<owner, life, kind, ring, buf, enc, sent>>,
         tpc' = "launch" => InCall(Here)
  PROVE  DataType'
<1>1. Here' = Here /\ BufSize' = BufSize /\ (HasBuffer' <=> HasBuffer)
  BY HereSame
<1> QED BY <1>1 DEF DataType, Recorder

LEMMA DataInit == Init => DataType
<1> SUFFICES ASSUME Init PROVE DataType
  OBVIOUS
<1>1. 0 \in Sample /\ Noise \in Cell
  BY Sizes DEF Sample, Cell
<1>2. ring \in [0 .. RingSize - 1 -> Cell]
  BY <1>1 DEF Init
<1>3. ~HasBuffer /\ ~InCall(Here)
  BY DEF Init, HasBuffer, Here, InCall
<1>4. enc \in Encoders /\ Recorder(enc)
  BY NewEncoderIsOne DEF Init, Recorder
<1>5. \A a \in Addrs : life[a] = "free"
  BY DEF Init
<1> QED BY <1>1, <1>2, <1>3, <1>4, <1>5 DEF DataType, Init

\* A scene that reads has one of the kinds the application creates.
LEMMA HereWhileReading ==
  ASSUME Control, DataType, tpc \in {"read", "launch", "report"}
  PROVE  /\ owner \in Addrs /\ Here = kind[owner] /\ Here \in Kinds
         /\ Here \notin {"recorder", "voice"} => HasBuffer
<1>1. owner # NULL /\ life[owner] = "running"
  BY DEF Control, Stages, Playing, On, Owned
<1>2. owner \in Addrs
  BY <1>1, Addresses DEF Control
<1>3. Here = kind[owner] /\ Here \in Kinds
  BY <1>1, <1>2 DEF Here, DataType
<1>4. Here \in {"cvsd", "msbc", "recorder", "voice", "loopback"}
  BY <1>3, CaptureAssumption
<1> QED BY <1>2, <1>3, <1>4 DEF HasBuffer, InCall

LEMMA DataApp ==
  ASSUME Control, DataType, App
  PROVE  DataType'
<1>0. tpc' = tpc /\ (owner # NULL => life[owner] # "free") /\ BaseType
  BY OwnerAlive DEF App, CreateScene, AllocateScene, PostCreate, DestroyScene, task, Control
<1>1. CASE AllocateScene
  <2>1. PICK a \in Addrs, k \in Kinds :
          /\ life[a] = "free"
          /\ life' = [life EXCEPT ![a] = "allocated"]
          /\ kind' = [kind EXCEPT ![a] = k]
    BY <1>1 DEF AllocateScene
  <2>2. UNCHANGED <<owner, ring, buf, enc, sent>>
    BY <1>1 DEF AllocateScene, hardware, buffer, clock
  <2>3. owner # NULL => kind'[owner] = kind[owner]
    BY <1>0, <2>1 DEF BaseType, Ptr
  <2>4. Here' = Here /\ BufSize' = BufSize /\ (HasBuffer' <=> HasBuffer)
    BY <2>2, <2>3, HereSame
  <2>5. \A b \in Addrs : life'[b] # "free" => kind'[b] \in Kinds
    BY <1>0, <2>1 DEF BaseType, DataType
  <2> QED BY <1>0, <2>2, <2>4, <2>5 DEF DataType, Recorder
<1>2. CASE CreateScene \/ PostCreate \/ DestroyScene
  BY <1>0, <1>2, DataSame
  DEF CreateScene, PostCreate, DestroyScene, manager, hardware, buffer, clock, DataType
<1> QED BY <1>1, <1>2 DEF App

LEMMA DataInterrupts ==
  ASSUME Control, DataType, Interrupts
  PROVE  DataType'
<1>0. BaseType
  BY DEF Control
<1>1. CASE Receive
  <2>1. hw.memory
    BY <1>1, OwnerAlive DEF Receive
  <2>2. /\ ring' = Stored(ring, RingSize, wr, Run(now, Chunk))
        /\ UNCHANGED <<owner, life, kind, buf, enc, sent, tpc>>
    BY <1>1, <2>1, Received DEF manager, task, buffer
  <2>3. wr \in Int /\ now \in Int /\ Chunk \in Nat /\ RingSize \in Nat \ {0}
    BY <1>0, Sizes, WriteGoesRound DEF BaseType, Sample
  <2>4. Run(now, Chunk) \in Samples
    BY <2>3, RunIsSamples
  <2>5. ring' \in [0 .. RingSize - 1 -> Cell]
    BY <2>2, <2>3, <2>4, StoredIsTyped DEF DataType
  <2>6. Here' = Here /\ BufSize' = BufSize /\ (HasBuffer' <=> HasBuffer)
    BY <2>2, HereSame
  <2> QED BY <2>2, <2>5, <2>6 DEF DataType, Recorder
<1>2. CASE Transmit
  <2>1. UNCHANGED <<owner, life, kind, ring, buf, enc, tpc>> /\ sent' = (sent + Chunk) % Wrap
    BY <1>2 DEF Transmit, manager, task, hardware
  <2>2. sent' \in Sample
    <3>1. sent + Chunk \in Int
      BY Sizes DEF DataType, Sample
    <3> QED BY <2>1, <3>1, ModRange, Sizes DEF Sample
  <2>3. Here' = Here /\ BufSize' = BufSize /\ (HasBuffer' <=> HasBuffer)
    BY <2>1, HereSame
  <2> QED BY <2>1, <2>2, <2>3 DEF DataType, Recorder
<1> QED BY <1>1, <1>2 DEF Interrupts

LEMMA DataScene ==
  ASSUME Control, DataType, InitScene \/ HwCreate \/ HwOutputAdd \/ HwStop \/ FreeScene
  PROVE  DataType'
<1>0. BaseType
  BY DEF Control
<1>1. CASE InitScene
  <2> DEFINE k == kind[cur.scene]
             size == IF InCall(k) THEN AlgoFrame * AdcFrames ELSE LoopSize
  <2>1. /\ owner' = cur.scene /\ cur.scene # NULL
        /\ buf' = IF k \in {"recorder", "voice"} THEN <<>> ELSE [c \in 0 .. size - 1 |-> Noise]
        /\ enc' = NewEncoder /\ tpc' = "start_hw" /\ UNCHANGED <<life, kind, ring, sent>>
    BY <1>1 DEF InitScene, manager, clock, TaskAt, Control, Stages, Creating, Fresh
  <2>2. Here' = k
    BY <2>1 DEF Here
  <2>3. HasBuffer' => k \notin {"recorder", "voice"} /\ BufSize' = size
    BY <2>2 DEF HasBuffer, InCall, BufSize
  <2>4. [c \in 0 .. size - 1 |-> Noise] \in [0 .. size - 1 -> Cell]
    BY DEF Cell
  <2>5. HasBuffer' => buf' \in [0 .. BufSize' - 1 -> Cell]
    BY <2>1, <2>3, <2>4
  <2>6. enc' \in Encoders /\ Recorder(enc)'
    BY <2>1, NewEncoderIsOne DEF Recorder
  <2> QED BY <2>1, <2>5, <2>6 DEF DataType
<1>2. CASE HwCreate \/ HwStop
  BY <1>2, DataSame DEF HwCreate, HwStop, manager, buffer, clock
<1>3. CASE HwOutputAdd
  <2>1. /\ UNCHANGED <<owner, kind, ring, buf, enc>> /\ tpc' = "wait"
        /\ sent' = (now - Filled) % Wrap /\ life' = [life EXCEPT ![owner] = "running"]
    BY <1>3 DEF HwOutputAdd, buffer
  <2>2. Filled \in Int
    BY <1>0, BufSizes, ModRange DEF Filled, BaseType
  <2>3. sent' \in Sample
    <3>1. now - Filled \in Int
      BY <1>0, <2>2 DEF BaseType, Sample
    <3> QED BY <2>1, <3>1, ModRange, Sizes DEF Sample
  <2>4. Here' = Here /\ BufSize' = BufSize /\ (HasBuffer' <=> HasBuffer)
    BY <2>1, HereSame
  <2>5. owner # NULL => life[owner] # "free"
    BY OwnerAlive
  <2>6. \A a \in Addrs : life'[a] # "free" => kind'[a] \in Kinds
    <3> SUFFICES ASSUME NEW a \in Addrs, life'[a] # "free" PROVE kind[a] \in Kinds
      BY <2>1
    <3>1. life[a] # "free"
      <4>1. CASE a = owner
        BY <2>5, <4>1, CaptureAssumption
      <4>2. CASE a # owner
        BY <1>0, <2>1, <4>2 DEF BaseType
      <4> QED BY <4>1, <4>2
    <3> QED BY <3>1 DEF DataType
  <2> QED BY <2>1, <2>3, <2>4, <2>6 DEF DataType, Recorder
<1>4. CASE FreeScene
  <2>1. /\ owner' = NULL /\ enc' = NewEncoder /\ tpc' = "wait" /\ sent' = 0
        /\ ring' = [c \in 0 .. RingSize - 1 |-> Noise]
        /\ life' = [life EXCEPT ![cur.scene] = "free"]
        /\ kind' = [kind EXCEPT ![cur.scene] = "none"]
    BY <1>4 DEF FreeScene
  <2>2. ~HasBuffer' /\ ring' \in [0 .. RingSize - 1 -> Cell] /\ sent' \in Sample
    BY <2>1, Sizes DEF HasBuffer, Here, InCall, Cell, Sample
  <2>3. enc' \in Encoders /\ Recorder(enc)'
    BY <2>1, NewEncoderIsOne DEF Recorder
  <2>4. \A a \in Addrs : life'[a] # "free" => kind'[a] \in Kinds
    BY <1>0, <2>1 DEF BaseType, DataType
  <2> QED BY <2>1, <2>2, <2>3, <2>4 DEF DataType
<1> QED BY <1>1, <1>2, <1>3, <1>4

LEMMA DataRead ==
  ASSUME Control, DataType, ReadToBuffer \/ ReadAndEncode \/ ReadAndRecognize
  PROVE  DataType'
<1>0. BaseType /\ RingSize \in Nat \ {0} /\ rd \in Int /\ rest \in Nat /\ wr \in Int
  BY Sizes, WriteGoesRound DEF Control, BaseType
<1>1. CASE ReadToBuffer
  <2>1. tpc = "read" /\ HasBuffer
    BY <1>1, HereWhileReading DEF ReadToBuffer, TaskAt
  <2>2. PICK n : /\ n = Min({rest, BufSize - bufWr})
                 /\ buf' = Stored(buf, BufSize, bufWr, Cells(ring, RingSize, rd, n))
                 /\ tpc' = IF rest > n THEN "read" ELSE IF InCall(Here) THEN "launch" ELSE "wait"
    BY <1>1 DEF ReadToBuffer
  <2>3. n \in 0 .. rest
    BY <1>0, <2>2, CopyFits
  <2>4. n \in Nat
    BY <1>0, <2>3
  <2>5. Cells(ring, RingSize, rd, n) \in Samples
    BY <1>0, <2>4, CellsAreSamples DEF DataType
  <2>6. BufSize \in Nat \ {0} /\ bufWr \in Int
    BY <1>0, BufSizes DEF BaseType
  <2>7. buf' \in [0 .. BufSize - 1 -> Cell]
    BY <2>1, <2>2, <2>5, <2>6, StoredIsTyped DEF DataType
  <2>8. UNCHANGED <<owner, life, kind, ring, enc, sent>>
    BY <1>1 DEF ReadToBuffer, manager, clock
  <2>9. Here' = Here /\ BufSize' = BufSize /\ (HasBuffer' <=> HasBuffer)
    BY <2>8, HereSame
  <2> QED BY <2>2, <2>7, <2>8, <2>9 DEF DataType, Recorder
<1>2. CASE ReadAndEncode
  <2>1. /\ enc' = Save(enc, Cells(ring, RingSize, rd, rest)) /\ tpc' = "report" /\ Here = "recorder"
        /\ UNCHANGED <<owner, life, kind, ring, buf, sent>>
    BY <1>2 DEF ReadAndEncode, manager, buffer, clock
  <2>2. Cells(ring, RingSize, rd, rest) \in Samples
    BY <1>0, CellsAreSamples DEF DataType
  <2>3. enc' \in Encoders /\ Recorder(enc')
    BY <2>1, <2>2, SaveType DEF DataType
  <2>4. Here' = Here /\ BufSize' = BufSize /\ (HasBuffer' <=> HasBuffer)
    BY <2>1, HereSame
  <2> QED BY <2>1, <2>3, <2>4 DEF DataType, Recorder
<1>3. CASE ReadAndRecognize
  <2>1. /\ sent' = (sent + rest) % Wrap /\ tpc' = "wait"
        /\ UNCHANGED <<owner, life, kind, ring, buf, enc>>
    BY <1>3 DEF ReadAndRecognize, manager, buffer
  <2>2. sent' \in Sample
    <3>1. sent + rest \in Int
      BY <1>0 DEF DataType, Sample
    <3> QED BY <2>1, <3>1, ModRange, Sizes DEF Sample
  <2>4. Here' = Here /\ BufSize' = BufSize /\ (HasBuffer' <=> HasBuffer)
    BY <2>1, HereSame
  <2> QED BY <2>1, <2>2, <2>4 DEF DataType, Recorder
<1> QED BY <1>1, <1>2, <1>3

LEMMA DataSend ==
  ASSUME Control, DataType, Launch \/ Report \/ Reported
  PROVE  DataType'
<1>0. BaseType /\ AlgoFrame \in Nat /\ BufSize \in Nat \ {0} /\ bufRd \in Int
  BY Sizes, BufSizes DEF Control, BaseType
<1>1. CASE Launch
  <2>1. InCall(Here) /\ HasBuffer /\ Here # "recorder"
    BY <1>1 DEF Launch, TaskAt, DataType, HasBuffer, InCall
  <2>2. /\ UNCHANGED <<owner, life, kind, ring, buf, sent>> /\ tpc' # "launch"
        /\ enc' \in {enc, Encoded(enc, Cells(buf, BufSize, bufRd, AlgoFrame))}
    BY <1>1 DEF Launch, manager, hardware, clock
  <2>3. Cells(buf, BufSize, bufRd, AlgoFrame) \in Samples
    BY <1>0, <2>1, CellsAreSamples DEF DataType
  <2>4. enc' \in Encoders
    BY <2>1, <2>2, <2>3, EncodedType DEF DataType
  <2>5. Here' = Here /\ BufSize' = BufSize /\ (HasBuffer' <=> HasBuffer)
    BY <2>2, HereSame
  <2> QED BY <2>1, <2>2, <2>4, <2>5 DEF DataType, Recorder
<1>2. CASE Report
  <2> DEFINE l == Tail(enc.list)
             c == enc.count - 1
             f == [enc EXCEPT !.list = l, !.count = c]
  <2>1. /\ enc \in [list : Seq(Samples), count : Nat, tmp : Samples, codec : Samples]
        /\ enc.count = Len(enc.list) /\ enc.count > 0 /\ Len(enc.tmp) <= FrameMax
    BY <1>2 DEF Report, DataType, Encoders
  <2>2. l \in Seq(Samples) /\ c = Len(l) /\ c \in Nat /\ Head(enc.list) \in Samples
    BY <2>1
  <2>3. enc' = f
    BY <1>2 DEF Report
  <2> HIDE DEF l, c
  <2>4. f \in [list : Seq(Samples), count : Nat, tmp : Samples, codec : Samples]
    BY <2>1, <2>2
  <2>5. f.list = l /\ f.count = c /\ f.tmp = enc.tmp
    BY <2>1
  <2> HIDE DEF f
  <2>6. enc' \in Encoders /\ enc'.tmp = enc.tmp
    BY <2>1, <2>2, <2>3, <2>4, <2>5 DEF Encoders
  <2>7. sent' \in Sample
    <3>1. sent + Len(Head(enc.list)) \in Int
      BY <2>2, SamplesClosed DEF DataType, Sample
    <3> QED BY <1>2, <3>1, ModRange, Sizes DEF Report, Sample
  <2>8. UNCHANGED <<owner, life, kind, ring, buf, tpc>>
    BY <1>2 DEF Report, manager, task, hardware, buffer
  <2>9. Here' = Here /\ BufSize' = BufSize /\ (HasBuffer' <=> HasBuffer)
    BY <2>8, HereSame
  <2> QED BY <2>6, <2>7, <2>8, <2>9 DEF DataType, Recorder
<1>3. CASE Reported
  BY <1>3, DataSame DEF Reported, manager, hardware, buffer, clock
<1> QED BY <1>1, <1>2, <1>3

LEMMA DataStep ==
  ASSUME Control, DataType, [Next]_vars
  PROVE  DataType'
<1>1. CASE Pop
  <2>1. UNCHANGED <<owner, life, kind, ring, buf, enc, sent>> /\ tpc' # "launch"
    BY <1>1 DEF Pop, Crash, TaskAt, manager, task, hardware, buffer, clock
  <2> QED BY <2>1, DataSame
<1>2. CASE UNCHANGED vars
  BY <1>2, DataSame DEF vars, manager, task, hardware, buffer, clock, DataType
<1> QED BY <1>1, <1>2, DataApp, DataInterrupts, DataScene, DataRead, DataSend DEF Next, Task

LEMMA DataAlways ==
  ASSUME TaskPreempts = TRUE
  PROVE  Spec => [](Control /\ DataType)
<1>1. Control /\ DataType /\ [Next]_vars => Control' /\ DataType'
  BY ControlStep, DataStep
<1>2. Init => Control /\ DataType
  BY ControlInit, DataInit
<1> QED BY <1>1, <1>2, PTL DEF Spec

\* Every pointer stays inside its buffer, every event names a scene and the
\* frames are counted, whatever the sizes of the buffers and the frames.
THEOREM TypeCorrect ==
  ASSUME TaskPreempts = TRUE
  PROVE  Spec => []TypeOK
<1>1. ASSUME Control, DataType PROVE TypeOK
  <2>1. BaseType
    BY <1>1 DEF Control
  <2>2. wr \in 0 .. RingSize - 1
    BY <2>1, WriteGoesRound DEF BaseType
  <2>3. \A i \in DOMAIN evts : evts[i] \in [type : LifeCycle \cup {"HW_IN"}, scene : Ptr]
    <3>1. evts \in Seq(Event)
      BY <2>1 DEF BaseType
    <3>2. \A i \in DOMAIN evts : evts[i] \in Event
      BY <3>1
    <3> QED BY <3>2 DEF Event
  <2>4. enc.list \in Seq(Samples) /\ enc.count = Len(enc.list)
    BY <1>1 DEF DataType, Encoders
  <2> QED BY <1>1, <2>1, <2>2, <2>3, <2>4 DEF TypeOK, BaseType, DataType
<1> QED BY <1>1, DataAlways, PTL
-----------------------------------------------------------------------------
(* Nothing waits: the canceller takes a frame as soon as there is one. *)

\* What a call has read and not yet handed to the canceller, and how much of
\* it there may be where the audio task is.
Due == IF tpc \in {"read", "launch"} THEN AlgoFrame + Chunk ELSE AlgoFrame

Prompt ==
  /\ tpc # "report" => enc.count = 0
  /\ InCall(Here) => Filled + rest < Due

LEMMA ModSum ==
  ASSUME NEW x \in Int, NEW y \in Int, NEW n \in Nat \ {0}
  PROVE  /\ x - y >= 0 - n /\ x - y < 2 * n =>
              (x - y) % n = IF x - y < 0 THEN x - y + n ELSE IF x - y < n THEN x - y ELSE x - y - n
         /\ x + y >= 0 - n /\ x + y < 2 * n =>
              (x + y) % n = IF x + y < 0 THEN x + y + n ELSE IF x + y < n THEN x + y ELSE x + y - n
<1>1. PICK d \in Int : d = x - y
  OBVIOUS
<1>2. PICK d2 \in Int : d2 = x + y
  OBVIOUS
<1>3. d >= 0 - n /\ d < 2 * n => d % n = IF d < 0 THEN d + n ELSE IF d < n THEN d ELSE d - n
  BY ModStep
<1>4. d2 >= 0 - n /\ d2 < 2 * n => d2 % n = IF d2 < 0 THEN d2 + n ELSE IF d2 < n THEN d2 ELSE d2 - n
  BY ModStep
<1> QED BY <1>1, <1>2, <1>3, <1>4

LEMMA AroundTheBuffer ==
  ASSUME NEW size \in Nat \ {0}, NEW w \in 0 .. size - 1, NEW r \in 0 .. size - 1, NEW n \in Nat
  PROVE  /\ (w - r) % size \in 0 .. size - 1
         /\ ((w - r) % size) + n < size =>
              (((w + n) % size) - r) % size = ((w - r) % size) + n
         /\ n <= (w - r) % size =>
              (w - ((r + n) % size)) % size = ((w - r) % size) - n
<1> DEFINE f == (w - r) % size
<1>1. f = IF w < r THEN w - r + size ELSE w - r
  <2>1. w - r \in Int /\ w - r >= 0 - size /\ w - r < 2 * size
    OBVIOUS
  <2> QED BY <2>1, ModSum
<1>2. f \in 0 .. size - 1
  BY <1>1
<1> HIDE DEF f
<1>3. ASSUME f + n < size
      PROVE  (((w + n) % size) - r) % size = f + n
  <2>1. w + n \in Int /\ w + n >= 0 - size /\ w + n < 2 * size
    BY <1>2, <1>3
  <2>2. (w + n) % size = IF w + n < size THEN w + n ELSE w + n - size
    BY <2>1, ModSum
  <2> DEFINE v == (w + n) % size
  <2>3. v \in 0 .. size - 1
    BY <2>1, <2>2
  <2> HIDE DEF v
  <2>4. v - r \in Int /\ v - r >= 0 - size /\ v - r < 2 * size
    BY <2>3
  <2>5. (v - r) % size = IF v - r < 0 THEN v - r + size ELSE v - r
    BY <2>3, <2>4, ModSum
  <2>6. v = IF w + n < size THEN w + n ELSE w + n - size
    BY <2>2 DEF v
  <2> HIDE <2>2
  <2>7. (v - r) % size = f + n
    BY <1>1, <1>3, <2>5, <2>6
  <2> QED BY <2>7 DEF v
<1>4. ASSUME n <= f
      PROVE  (w - ((r + n) % size)) % size = f - n
  <2>1. r + n \in Int /\ r + n >= 0 - size /\ r + n < 2 * size
    BY <1>2, <1>4
  <2> DEFINE v == (r + n) % size
  <2>2. v = IF r + n < size THEN r + n ELSE r + n - size
    BY <2>1, ModSum
  <2>3. v \in 0 .. size - 1
    BY <2>1, <2>2
  <2>7. v = (r + n) % size
    OBVIOUS
  <2> HIDE DEF v
  <2>4. w - v \in Int /\ w - v >= 0 - size /\ w - v < 2 * size
    BY <2>3
  <2>5. (w - v) % size = IF w - v < 0 THEN w - v + size ELSE w - v
    BY <2>3, <2>4, ModSum
  <2>6. (w - v) % size = f - n
    BY <1>1, <1>4, <2>2, <2>5
  <2> QED BY <2>6, <2>7
<1> QED BY <1>2, <1>3, <1>4 DEF f

\* The numbers behind Prompt.
LEMMA FillNumbers ==
  ASSUME BaseType
  PROVE  /\ BufSize \in Nat \ {0} /\ bufWr \in 0 .. BufSize - 1 /\ bufRd \in 0 .. BufSize - 1
         /\ Filled \in 0 .. BufSize - 1 /\ rest \in Nat /\ rest <= Chunk
         /\ Chunk \in Nat /\ AlgoFrame \in Nat /\ Chunk <= AlgoFrame /\ Chunk > 0 /\ AlgoFrame > 0
         /\ InCall(Here) => AlgoFrame + Chunk < BufSize
<1>1. BufSize \in Nat \ {0} /\ bufWr \in 0 .. BufSize - 1 /\ bufRd \in 0 .. BufSize - 1
  BY BufSizes DEF BaseType
<1>2. Filled \in 0 .. BufSize - 1
  <2>1. bufWr - bufRd \in Int
    BY <1>1
  <2> QED BY <1>1, <2>1, ModRange DEF Filled
<1>3. InCall(Here) => AlgoFrame + Chunk < BufSize
  BY Sizes DEF BufSize
<1> QED BY <1>1, <1>2, <1>3, Sizes DEF BaseType

\* A step that leaves the buffer and the encoder alone.
LEMMA PromptSame ==
  ASSUME Prompt, UNCHANGED <<bufWr, bufRd, enc, rest, tpc>>, Here' = Here, BufSize' = BufSize
  PROVE  Prompt'
BY DEF Prompt, Filled, Due

LEMMA PromptApp ==
  ASSUME Control, Prompt, App
  PROVE  Prompt'
<1>0. (owner # NULL => life[owner] # "free") /\ BaseType
  BY OwnerAlive DEF Control
<1>1. UNCHANGED <<bufWr, bufRd, enc, rest, tpc, owner>>
  BY DEF App, CreateScene, AllocateScene, PostCreate, DestroyScene, task, buffer, hardware
<1>2. owner # NULL => kind'[owner] = kind[owner]
  BY <1>0 DEF App, CreateScene, AllocateScene, PostCreate, DestroyScene, manager, BaseType, Ptr
<1> QED BY <1>1, <1>2, HereSame, PromptSame

LEMMA PromptInterrupts ==
  ASSUME Control, Prompt, Interrupts
  PROVE  Prompt'
<1>1. CASE Receive
  <2>1. hw.memory
    BY <1>1, OwnerAlive DEF Receive
  <2> QED BY <1>1, <2>1, Received, HereSame, PromptSame DEF manager, task, buffer
<1>2. CASE Transmit
  <2>1. UNCHANGED <<owner, kind, enc, tpc>> /\ ~InCall(Here)
    BY <1>2 DEF Transmit, manager, task, hardware, InCall
  <2>2. Here' = Here
    BY <2>1, HereSame
  <2> QED BY <2>1, <2>2 DEF Prompt
<1> QED BY <1>1, <1>2 DEF Interrupts

LEMMA PromptTask ==
  ASSUME Control, DataType, Prompt, Task
  PROVE  Prompt'
<1>0. BaseType
  BY DEF Control
<1>1. CASE Pop
  <2>1. UNCHANGED <<owner, kind, bufWr, bufRd, enc>> /\ tpc = "wait"
    BY <1>1 DEF Pop, Crash, TaskAt, manager, hardware, buffer
  <2>2. \/ tpc' # "read" /\ tpc' # "report" /\ rest' = rest
        \/ tpc' = "read" /\ rest' = Chunk
    BY <1>1, <2>1 DEF Pop, Crash, task
  <2>3. Here' = Here /\ BufSize' = BufSize
    BY <2>1, HereSame
  <2>4. Filled' = Filled
    BY <2>1, <2>3 DEF Filled
  <2>5. InCall(Here) => Filled + rest < AlgoFrame
    BY <2>1 DEF Prompt, Due
  <2>6. InCall(Here') => Filled + rest' < Due'
    <3>1. CASE tpc' = "read" /\ rest' = Chunk
      BY <1>0, <2>3, <2>5, <3>1, FillNumbers DEF Due
    <3>2. CASE tpc' # "read" /\ tpc' # "report" /\ rest' = rest
      BY <1>0, <2>3, <2>5, <3>2, FillNumbers DEF Due
    <3> QED BY <2>2, <3>1, <3>2
  <2>7. enc'.count = 0
    BY <2>1 DEF Prompt
  <2> QED BY <2>4, <2>6, <2>7 DEF Prompt
<1>2. CASE InitScene
  <2> DEFINE k == kind[cur.scene]
  <2>1. /\ enc' = NewEncoder /\ bufWr' = 0 /\ tpc' = "start_hw" /\ rest' = rest /\ rest = 0
        /\ bufRd' = IF k = "loopback" THEN LoopSize \div 2 ELSE 0
        /\ owner' = cur.scene /\ kind' = kind /\ cur.scene # NULL
    BY <1>0, <1>2 DEF InitScene, manager, TaskAt, BaseType, Control, Stages, Creating, Fresh
  <2>2. Here' = k
    BY <2>1 DEF Here
  <2>3. InCall(Here') => bufRd' = 0 /\ BufSize' = AlgoFrame * AdcFrames
    BY <2>1, <2>2 DEF InCall, BufSize
  <2>4. InCall(Here') => Filled' = 0
    <3>1. AlgoFrame * AdcFrames \in Nat \ {0} /\ (0 - 0) % (AlgoFrame * AdcFrames) = 0
      BY Sizes
    <3> QED BY <2>1, <2>3, <3>1 DEF Filled
  <2>5. Due' = AlgoFrame
    BY <2>1 DEF Due
  <2>6. InCall(Here') => Filled' + rest' < Due'
    BY <1>0, <2>1, <2>4, <2>5, FillNumbers
  <2> QED BY <2>1, <2>6, NewEncoderIsOne DEF Prompt
<1>3. CASE HwCreate \/ HwOutputAdd \/ HwStop
  <2>1. /\ UNCHANGED <<bufWr, bufRd, enc, rest, owner, kind>>
        /\ tpc # "report" /\ tpc \notin {"read", "launch"}
        /\ tpc' # "report" /\ tpc' \notin {"read", "launch"}
    BY <1>3 DEF HwCreate, HwOutputAdd, HwStop, TaskAt, manager, buffer
  <2>2. Here' = Here /\ BufSize' = BufSize
    BY <2>1, HereSame
  <2> QED BY <2>1, <2>2 DEF Prompt, Filled, Due
<1>4. CASE FreeScene
  <2>1. owner' = NULL /\ enc' = NewEncoder /\ tpc' = "wait"
    BY <1>4 DEF FreeScene
  <2> QED BY <2>1, NewEncoderIsOne DEF Prompt, Here, InCall
<1>5. CASE ReadToBuffer
  <2>1. PICK n : /\ n = Min({rest, BufSize - bufWr})
                 /\ bufWr' = (bufWr + n) % BufSize /\ rest' = rest - n
                 /\ tpc' = IF rest > n THEN "read" ELSE IF InCall(Here) THEN "launch" ELSE "wait"
    BY <1>5 DEF ReadToBuffer
  <2>2. tpc = "read" /\ UNCHANGED <<owner, kind, enc, bufRd>>
    BY <1>5 DEF ReadToBuffer, TaskAt, manager
  <2>3. Here' = Here /\ BufSize' = BufSize
    BY <2>2, HereSame
  <2>4. n \in 0 .. rest
    BY <1>0, <2>1, CopyFits
  <2>5. ASSUME InCall(Here)
        PROVE  Filled' + rest' < Due'
    <3>1. Filled + rest < AlgoFrame + Chunk
      BY <2>2, <2>5 DEF Prompt, Due
    <3>2. n \in Nat /\ Filled + n < BufSize
      BY <1>0, <2>4, <2>5, <3>1, FillNumbers
    <3>3. Filled' = Filled + n
      BY <1>0, <2>1, <2>2, <2>3, <3>2, FillNumbers, AroundTheBuffer DEF Filled
    <3>4. Due' = AlgoFrame + Chunk
      BY <2>1, <2>5 DEF Due
    <3> QED BY <1>0, <2>1, <2>4, <3>1, <3>3, <3>4, FillNumbers
  <2> QED BY <2>1, <2>2, <2>3, <2>5 DEF Prompt
<1>6. CASE ReadAndEncode \/ ReadAndRecognize
  <2>1. /\ UNCHANGED <<owner, kind>> /\ ~InCall(Here)
        /\ ReadAndRecognize => enc' = enc
        /\ ReadAndEncode => tpc' = "report"
        /\ tpc = "read"
    BY <1>6 DEF ReadAndEncode, ReadAndRecognize, TaskAt, manager, InCall
  <2>2. Here' = Here
    BY <1>6, <2>1, HereSame DEF ReadAndEncode, ReadAndRecognize
  <2> QED BY <1>6, <2>1, <2>2 DEF Prompt
<1>7. CASE Launch
  <2>1. tpc = "launch" /\ UNCHANGED <<owner, kind, bufWr, rest>>
    BY <1>7 DEF Launch, TaskAt, manager, hardware
  <2>2. rest = 0 /\ InCall(Here) /\ Filled + rest < AlgoFrame + Chunk /\ enc.count = 0
    BY <1>0, <2>1 DEF BaseType, DataType, Prompt, Due
  <2>3. Here' = Here /\ BufSize' = BufSize
    BY <2>1, HereSame
  <2>4. CASE FrameReady
    <3>1. tpc' = "report" /\ bufRd' = (bufRd + AlgoFrame) % BufSize
      BY <1>7, <2>4 DEF Launch
    <3>2. AlgoFrame <= Filled /\ AlgoFrame \in Nat
      BY <1>0, <2>4, FillNumbers DEF FrameReady
    <3>5. /\ BufSize \in Nat \ {0} /\ bufWr \in 0 .. BufSize - 1 /\ bufRd \in 0 .. BufSize - 1
          /\ AlgoFrame <= (bufWr - bufRd) % BufSize
      BY <1>0, <3>2, FillNumbers DEF Filled
    <3>6. (bufWr - ((bufRd + AlgoFrame) % BufSize)) % BufSize = ((bufWr - bufRd) % BufSize) - AlgoFrame
      BY <3>2, <3>5, AroundTheBuffer
    <3>7. Filled' = (bufWr' - bufRd') % BufSize'
      BY DEF Filled
    <3>8. Filled' = (bufWr - ((bufRd + AlgoFrame) % BufSize)) % BufSize
      BY <2>1, <2>3, <3>1, <3>7
    <3>3. Filled' = Filled - AlgoFrame
      BY <3>6, <3>8 DEF Filled
    <3>4. Filled' + rest' < AlgoFrame
      BY <1>0, <2>1, <2>2, <3>3, FillNumbers
    <3> QED BY <3>1, <3>4 DEF Prompt, Due
  <2>5. CASE ~FrameReady
    <3>1. tpc' = "wait" /\ UNCHANGED <<enc, bufRd>>
      BY <1>7, <2>5 DEF Launch
    <3>2. Filled' = Filled
      BY <2>1, <2>3, <3>1 DEF Filled
    <3>3. Filled' + rest' < AlgoFrame
      BY <1>0, <2>1, <2>2, <2>5, <3>2, FillNumbers DEF FrameReady
    <3> QED BY <2>2, <3>1, <3>3 DEF Prompt, Due
  <2> QED BY <2>4, <2>5
<1>8. CASE Report
  <2>1. UNCHANGED <<owner, kind, bufWr, bufRd, rest, tpc>> /\ tpc = "report"
    BY <1>8 DEF Report, TaskAt, manager, task, hardware, buffer
  <2>2. Here' = Here /\ BufSize' = BufSize
    BY <2>1, HereSame
  <2> QED BY <2>1, <2>2 DEF Prompt, Filled, Due
<1>9. CASE Reported
  <2>1. UNCHANGED <<owner, kind, bufWr, bufRd, rest, enc>> /\ tpc = "report" /\ tpc' = "wait" /\ enc.count = 0
    BY <1>9 DEF Reported, TaskAt, manager, hardware, buffer
  <2>2. Here' = Here /\ BufSize' = BufSize
    BY <2>1, HereSame
  <2> QED BY <2>1, <2>2 DEF Prompt, Filled, Due
<1> QED BY <1>1, <1>2, <1>3, <1>4, <1>5, <1>6, <1>7, <1>8, <1>9 DEF Task

LEMMA PromptStep ==
  ASSUME Control, DataType, Prompt, [Next]_vars
  PROVE  Prompt'
<1>1. CASE UNCHANGED vars
  <2>1. UNCHANGED <<bufWr, bufRd, enc, rest, tpc, owner, kind>>
    BY <1>1 DEF vars, manager, task, hardware, buffer
  <2> QED BY <2>1, HereSame, PromptSame
<1> QED BY <1>1, PromptApp, PromptInterrupts, PromptTask DEF Next

\* Between events no frame waits to be reported and the canceller waits for
\* less than a frame, for every length of the frames and size of the buffers.
THEOREM NothingIsHeldBack ==
  ASSUME TaskPreempts = TRUE
  PROVE  Spec => []NothingWaits
<1>1. Init => Prompt
  BY NewEncoderIsOne DEF Init, Prompt, Here, InCall
<1>2. Control /\ DataType /\ Prompt /\ [Next]_vars => Prompt'
  BY PromptStep
<1>3. ASSUME Control, DataType, Prompt PROVE NothingWaits
  <2> SUFFICES ASSUME tpc = "wait"
               PROVE  /\ enc.list = <<>> /\ enc.count = 0
                      /\ InCall(Here) => Filled < AlgoFrame
    BY DEF NothingWaits
  <2>1. enc.count = 0 /\ enc.list \in Seq(Samples) /\ enc.count = Len(enc.list)
    BY <1>3 DEF Prompt, DataType, Encoders
  <2>2. enc.list = <<>>
    BY <2>1
  <2>3. rest = 0 /\ BaseType
    BY <1>3 DEF Control, BaseType
  <2>4. InCall(Here) => Filled + 0 < AlgoFrame
    BY <1>3, <2>3 DEF Prompt, Due
  <2> QED BY <2>1, <2>2, <2>3, <2>4, FillNumbers
<1> QED BY <1>1, <1>2, <1>3, DataAlways, PTL DEF Spec

-----------------------------------------------------------------------------
(* Nothing is lost: arithmetic of numbers that wrap. *)

LEMMA DivMod ==
  ASSUME NEW x \in Int, NEW n \in Nat \ {0}
  PROVE  x \div n \in Int /\ x % n \in 0 .. n - 1 /\ x = (x % n) + n * (x \div n)
OBVIOUS

LEMMA ModPlus ==
  ASSUME NEW x \in Int, NEW y \in Int, NEW n \in Nat \ {0}
  PROVE  ((x % n) + y) % n = (x + y) % n
<1> DEFINE r == x % n
           m == (r + y) % n
           q == x \div n
           p == (r + y) \div n
<1>1. r \in 0 .. n - 1 /\ q \in Int /\ x = r + n * q
  BY DivMod
<1> HIDE DEF r, q
<1>2. r + y \in Int
  BY <1>1
<1>3. m \in 0 .. n - 1 /\ p \in Int /\ r + y = m + n * p
  BY <1>2, DivMod
<1> HIDE DEF m, p
<1>4. n * (p + q) = n * p + n * q /\ n * p \in Int /\ n * q \in Int
  BY <1>1, <1>3
<1>5. x + y = m + n * (p + q) /\ p + q \in Int /\ x + y \in Int
  BY <1>1, <1>3, <1>4
<1>6. (x + y) % n = m
  BY <1>3, <1>5, ModTurns
<1> QED BY <1>6 DEF m, r

LEMMA ModMinus ==
  ASSUME NEW x \in Int, NEW y \in Int, NEW n \in Nat \ {0}
  PROVE  ((x % n) - (y % n)) % n = (x - y) % n
<1>1. y % n \in Int /\ y \div n \in Int /\ y = (y % n) + n * (y \div n)
  BY DivMod
<1> DEFINE r == y % n
           q == y \div n
           m == (x - r) % n
           p == (x - r) \div n
<1>2. r \in Int /\ q \in Int /\ y = r + n * q
  BY <1>1
<1> HIDE DEF r, q
<1>3. PICK z \in Int : z = 0 - r
  BY <1>2
<1>4. ((x % n) + z) % n = (x + z) % n
  BY ModPlus
<1>5. ((x % n) - r) % n = (x - r) % n
  <2>1. x % n \in Int
    BY DivMod
  <2>2. (x % n) - r = (x % n) + z /\ x - r = x + z
    BY <1>2, <1>3, <2>1
  <2> QED BY <1>4, <2>2
<1>6. x - r \in Int
  BY <1>2
<1>7. m \in 0 .. n - 1 /\ p \in Int /\ x - r = m + n * p
  BY <1>6, DivMod
<1> HIDE DEF m, p
<1>8. n * (p - q) = n * p - n * q /\ n * p \in Int /\ n * q \in Int
  BY <1>2, <1>7
<1>9. x - y = m + n * (p - q) /\ p - q \in Int /\ x - y \in Int
  BY <1>2, <1>7, <1>8
<1>10. (x - y) % n = m
  BY <1>7, <1>9, ModTurns
<1> QED BY <1>5, <1>10 DEF m, r

LEMMA ModSmall ==
  ASSUME NEW n \in Nat \ {0}, NEW x \in 0 .. n - 1
  PROVE  x % n = x
OBVIOUS

\* Numbers that are the same after wrapping stay so when they are moved.
LEMMA ModMoved ==
  ASSUME NEW x \in Int, NEW y \in Int, NEW z \in Int, NEW n \in Nat \ {0}, x % n = y % n
  PROVE  (x + z) % n = (y + z) % n
<1>1. ((x % n) + z) % n = (x + z) % n
  BY ModPlus
<1>2. ((y % n) + z) % n = (y + z) % n
  BY ModPlus
<1> QED BY <1>1, <1>2

-----------------------------------------------------------------------------
(* Sequences and buffers that hold the samples from a number on; the ones of *)
(* loopback may hold the noise of memory nothing has written instead.        *)

Numbered(s, a, noisy) ==
  \A i \in 1 .. Len(s) : s[i] = (a + i - 1) % Wrap \/ (noisy /\ s[i] = Noise)
Holds(mem, size, p, n, a, noisy) ==
  \A j \in 0 .. n - 1 :
    mem[(p + j) % size] = (a + j) % Wrap \/ (noisy /\ mem[(p + j) % size] = Noise)

LEMMA NumberedFrom ==
  ASSUME NEW s \in Samples, NEW a \in Int, NEW b \in Int, a % Wrap = b % Wrap, NEW noisy,
         Numbered(s, a, noisy)
  PROVE  Numbered(s, b, noisy)
<1> SUFFICES ASSUME NEW i \in 1 .. Len(s)
             PROVE  s[i] = (b + i - 1) % Wrap \/ (noisy /\ s[i] = Noise)
  BY DEF Numbered
<1>1. Len(s) \in Nat
  BY SamplesClosed
<1>2. i - 1 \in Int /\ i \in Int
  BY <1>1
<1>3. (a + (i - 1)) % Wrap = (b + (i - 1)) % Wrap
  <2>1. PICK z \in Int : z = i - 1
    BY <1>2
  <2>2. Wrap \in Nat \ {0}
    BY Sizes
  <2>3. (a + z) % Wrap = (b + z) % Wrap
    BY <2>2, ModMoved
  <2> QED BY <2>1, <2>3
<1>4. a + (i - 1) = a + i - 1 /\ b + (i - 1) = b + i - 1
  BY <1>2
<1> QED BY <1>3, <1>4 DEF Numbered

LEMMA HoldsFrom ==
  ASSUME NEW mem, NEW size, NEW p, NEW n \in Int, NEW a \in Int, NEW b \in Int,
         a % Wrap = b % Wrap, NEW noisy, Holds(mem, size, p, n, a, noisy)
  PROVE  Holds(mem, size, p, n, b, noisy)
<1> SUFFICES ASSUME NEW j \in 0 .. n - 1
             PROVE  mem[(p + j) % size] = (b + j) % Wrap \/ (noisy /\ mem[(p + j) % size] = Noise)
  BY DEF Holds
<1>1. (a + j) % Wrap = (b + j) % Wrap
  <2>1. Wrap \in Nat \ {0} /\ j \in Int
    BY Sizes
  <2> QED BY <2>1, ModMoved
<1> QED BY <1>1 DEF Holds

LEMMA NumberedConcat ==
  ASSUME NEW s \in Samples, NEW t \in Samples, NEW a \in Int, NEW noisy
  PROVE  Numbered(s \o t, a, noisy) <=> /\ Numbered(s, a, noisy)
                                        /\ Numbered(t, a + Len(s), noisy)
<1>1. /\ Len(s) \in Nat /\ Len(t) \in Nat /\ Len(s \o t) = Len(s) + Len(t)
      /\ \A i \in 1 .. Len(s) + Len(t) : (s \o t)[i] = IF i <= Len(s) THEN s[i] ELSE t[i - Len(s)]
  BY ConcatProperties DEF Samples
<1>2. ASSUME Numbered(s \o t, a, noisy), NEW i \in 1 .. Len(s)
      PROVE  s[i] = (a + i - 1) % Wrap \/ (noisy /\ s[i] = Noise)
  <2>1. i \in 1 .. Len(s) + Len(t) /\ (s \o t)[i] = s[i]
    BY <1>1
  <2> QED BY <1>1, <1>2, <2>1 DEF Numbered
<1>3. ASSUME Numbered(s \o t, a, noisy), NEW i \in 1 .. Len(t)
      PROVE  t[i] = (a + Len(s) + i - 1) % Wrap \/ (noisy /\ t[i] = Noise)
  <2> DEFINE k == Len(s) + i
  <2>1. k \in 1 .. Len(s) + Len(t) /\ (s \o t)[k] = t[i] /\ a + k - 1 = a + Len(s) + i - 1
    BY <1>1
  <2> HIDE DEF k
  <2>2. (s \o t)[k] = (a + k - 1) % Wrap \/ (noisy /\ (s \o t)[k] = Noise)
    BY <1>1, <1>3, <2>1 DEF Numbered
  <2> QED BY <2>1, <2>2
<1>4. ASSUME Numbered(s, a, noisy), Numbered(t, a + Len(s), noisy),
             NEW i \in 1 .. Len(s) + Len(t)
      PROVE  (s \o t)[i] = (a + i - 1) % Wrap \/ (noisy /\ (s \o t)[i] = Noise)
  <2>1. CASE i <= Len(s)
    <3>1. i \in 1 .. Len(s) /\ (s \o t)[i] = s[i]
      BY <1>1, <2>1
    <3> QED BY <1>4, <3>1 DEF Numbered
  <2>2. CASE ~(i <= Len(s))
    <3> DEFINE k == i - Len(s)
    <3>1. k \in 1 .. Len(t) /\ (s \o t)[i] = t[k] /\ a + Len(s) + k - 1 = a + i - 1
      BY <1>1, <2>2
    <3> HIDE DEF k
    <3>2. t[k] = (a + Len(s) + k - 1) % Wrap \/ (noisy /\ t[k] = Noise)
      BY <1>4, <3>1 DEF Numbered
    <3> QED BY <3>1, <3>2
  <2> QED BY <2>1, <2>2
<1> QED BY <1>1, <1>2, <1>3, <1>4 DEF Numbered

LEMMA RunIsNumbered ==
  ASSUME NEW a \in Int, NEW n \in Nat, NEW noisy
  PROVE  Numbered(Run(a, n), a, noisy)
BY RunIsSamples DEF Numbered, Run

LEMMA HoldsCells ==
  ASSUME NEW size \in Nat \ {0}, NEW mem \in [0 .. size - 1 -> Cell], NEW p \in Int, NEW n \in Nat,
         NEW a \in Int, NEW noisy, Holds(mem, size, p, n, a, noisy),
         NEW k \in 0 .. n
  PROVE  Numbered(Cells(mem, size, p, k), a, noisy)
<1>1. Len(Cells(mem, size, p, k)) = k
  BY CellsAreSamples
<1>2. ASSUME NEW i \in 1 .. k
      PROVE  Cells(mem, size, p, k)[i] = (a + i - 1) % Wrap
               \/ (noisy /\ Cells(mem, size, p, k)[i] = Noise)
  <2> DEFINE j == i - 1
  <2>1. j \in 0 .. n - 1 /\ p + i - 1 = p + j /\ a + i - 1 = a + j
    OBVIOUS
  <2>2. Cells(mem, size, p, k)[i] = mem[(p + i - 1) % size]
    BY DEF Cells
  <2> HIDE DEF j
  <2>3. mem[(p + j) % size] = (a + j) % Wrap \/ (noisy /\ mem[(p + j) % size] = Noise)
    BY <2>1 DEF Holds
  <2> QED BY <2>1, <2>2, <2>3
<1> QED BY <1>1, <1>2 DEF Numbered

\* The first k samples are taken out.
LEMMA HoldsDrop ==
  ASSUME NEW size \in Nat \ {0}, NEW mem, NEW p \in Int, NEW n \in Nat, NEW k \in 0 .. n,
         NEW a \in Int, NEW noisy, Holds(mem, size, p, n, a, noisy)
  PROVE  Holds(mem, size, (p + k) % size, n - k, a + k, noisy)
<1> SUFFICES ASSUME NEW j \in 0 .. n - k - 1
             PROVE  \/ mem[(((p + k) % size) + j) % size] = (a + k + j) % Wrap
                    \/ noisy /\ mem[(((p + k) % size) + j) % size] = Noise
  BY DEF Holds
<1> DEFINE i == k + j
<1>1. i \in 0 .. n - 1 /\ p + k \in Int /\ j \in Int /\ p + k + j = p + i /\ a + k + j = a + i
  OBVIOUS
<1>2. (((p + k) % size) + j) % size = (p + k + j) % size
  BY <1>1, ModPlus
<1> HIDE DEF i
<1>3. mem[(p + i) % size] = (a + i) % Wrap \/ (noisy /\ mem[(p + i) % size] = Noise)
  BY <1>1 DEF Holds
<1> QED BY <1>1, <1>2, <1>3

\* Samples are stored behind the last one.
LEMMA HoldsStored ==
  ASSUME NEW size \in Nat \ {0}, NEW mem \in [0 .. size - 1 -> Cell], NEW p \in Int, NEW n \in Nat,
         NEW a \in Int, NEW noisy, Holds(mem, size, p, n, a, noisy),
         NEW data \in Samples, n + Len(data) <= size, Numbered(data, a + n, noisy),
         NEW w, w = (p + n) % size
  PROVE  Holds(Stored(mem, size, w, data), size, p, n + Len(data), a, noisy)
<1>0. Len(data) \in Nat
  BY SamplesClosed
<1> SUFFICES ASSUME NEW j \in 0 .. n + Len(data) - 1
             PROVE  \/ Stored(mem, size, w, data)[(p + j) % size] = (a + j) % Wrap
                    \/ noisy /\ Stored(mem, size, w, data)[(p + j) % size] = Noise
  BY DEF Holds
<1> DEFINE c == (p + j) % size
           i == (c - w) % size
<1>1. p + j \in Int /\ p + n \in Int /\ j \in Int
  BY <1>0
<1>2. c \in 0 .. size - 1
  BY <1>1, ModRange
<1>3. i = (p + j - (p + n)) % size
  <2>1. PICK x \in Int : x = p + j
    BY <1>1
  <2>2. PICK y \in Int : y = p + n
    BY <1>1
  <2>3. ((x % size) - (y % size)) % size = (x - y) % size
    BY ModMinus
  <2> QED BY <2>1, <2>2, <2>3
<1>4. Stored(mem, size, w, data)[c] = IF i < Len(data) THEN data[i + 1] ELSE mem[c]
  BY <1>2 DEF Stored
<1> HIDE DEF i
<1>5. p + j - (p + n) = j - n
  BY <1>1
<1>6. CASE j < n
  <2>1. j - n \in Int /\ j - n >= 0 - size /\ j - n < 2 * size /\ j - n < 0
    BY <1>0, <1>6
  <2>2. i = j - n + size
    BY <1>3, <1>5, <2>1, ModStep
  <2>3. ~(i < Len(data))
    BY <1>0, <2>2
  <2>4. mem[c] = (a + j) % Wrap \/ (noisy /\ mem[c] = Noise)
    BY <1>6, <1>0 DEF Holds
  <2> QED BY <1>4, <2>3, <2>4
<1>7. CASE ~(j < n)
  <2>1. j - n \in Int /\ j - n >= 0 - size /\ j - n < 2 * size /\ j - n >= 0 /\ j - n < size
    BY <1>0, <1>7
  <2>2. i = j - n
    BY <1>3, <1>5, <2>1, ModStep
  <2>3. i < Len(data) /\ i + 1 \in 1 .. Len(data) /\ a + n + (i + 1) - 1 = a + j
    BY <1>0, <1>7, <2>2
  <2>4. data[i + 1] = (a + n + (i + 1) - 1) % Wrap \/ (noisy /\ data[i + 1] = Noise)
    BY <2>3 DEF Numbered
  <2> QED BY <1>4, <2>3, <2>4
<1> QED BY <1>6, <1>7

-----------------------------------------------------------------------------
(* The frames of a list, one after the other. *)

LEMMA SamplesAssoc ==
  ASSUME NEW s \in Samples, NEW t \in Samples, NEW u \in Samples
  PROVE  (s \o t) \o u = s \o (t \o u)
BY ConcatAssociative DEF Samples

LEMMA SamplesEmpty ==
  ASSUME NEW s \in Samples
  PROVE  s \o <<>> = s /\ <<>> \o s = s
BY ConcatEmptySeq DEF Samples

\* The concatenation is well defined.
LEMMA FlatExists ==
  ASSUME NEW l, NEW n \in Nat
  PROVE  \E g : g = [i \in 1 .. n |-> IF i = 1 THEN l[i] ELSE g[i - 1] \o l[i]]
<1> DEFINE G(g, k) == g = [i \in 1 .. k |-> IF i = 1 THEN l[i] ELSE g[i - 1] \o l[i]]
           T == {k \in Nat : ~ \E g : G(g, k)}
<1>1. SUFFICES ASSUME T # {} PROVE FALSE
  OBVIOUS
<1>2. PICK k \in T : \A j \in T : ~(<<j, k>> \in OpToRel(<, Nat))
  <2>1. T \subseteq Nat
    OBVIOUS
  <2> HIDE DEF T
  <2> QED BY <1>1, <2>1, WFMin, NatLessThanWellFounded
<1>3. \A j \in T : ~(j < k)
  BY <1>2 DEF OpToRel
<1>4. CASE k = 0
  <2>1. G([i \in 1 .. 0 |-> l[i]], 0)
    OBVIOUS
  <2> QED BY <1>4, <2>1
<1>5. CASE k # 0
  <2>1. k - 1 \in Nat /\ k - 1 \notin T
    <3>1. k \in Nat
      OBVIOUS
    <3> HIDE DEF T
    <3>2. k - 1 \in Nat /\ k - 1 < k
      BY <1>5, <3>1
    <3> QED BY <1>3, <3>2
  <2>2. PICK g : G(g, k - 1)
    BY <2>1
  <2> DEFINE h == [i \in 1 .. k |-> IF i = k THEN IF k = 1 THEN l[k] ELSE g[k - 1] \o l[k] ELSE g[i]]
  <2>3. \A i \in 1 .. k - 1 : g[i] = IF i = 1 THEN l[i] ELSE g[i - 1] \o l[i]
    BY <2>2, <2>1
  <2>4. ASSUME NEW i \in 1 .. k
        PROVE  h[i] = IF i = 1 THEN l[i] ELSE h[i - 1] \o l[i]
    <3>1. CASE i = k
      BY <1>5, <3>1
    <3>2. CASE i # k
      BY <2>3, <3>2
    <3> QED BY <3>1, <3>2
  <2>5. G(h, k)
    BY <2>4
  <2> QED BY <2>5
<1> QED BY <1>4, <1>5

LEMMA FlatIs ==
  ASSUME NEW l \in Seq(Samples), l # <<>>
  PROVE  \E g : /\ g[1] = l[1]
                /\ \A i \in 2 .. Len(l) : g[i] = g[i - 1] \o l[i]
                /\ FlattenSeq(l) = g[Len(l)]
<1> DEFINE n == Len(l)
           f == CHOOSE g : g = [i \in 1 .. n |-> IF i = 1 THEN l[i] ELSE g[i - 1] \o l[i]]
<1>1. n \in Nat \ {0}
  OBVIOUS
<1>2. f = [i \in 1 .. n |-> IF i = 1 THEN l[i] ELSE f[i - 1] \o l[i]]
  BY <1>1, FlatExists
<1>3. FlattenSeq(l) = f[n]
  BY <1>1 DEF FlattenSeq
<1> HIDE DEF f
<1>4. f[1] = l[1]
  BY <1>1, <1>2
<1>5. ASSUME NEW i \in 2 .. n PROVE f[i] = f[i - 1] \o l[i]
  <2>1. i \in 1 .. n /\ i # 1
    BY <1>1
  <2> QED BY <1>2, <2>1
<1> WITNESS f
<1> QED BY <1>3, <1>4, <1>5

\* What joins the first n frames of a list, up to each of them.
Joins(f, l, n) == f[1] = l[1] /\ \A i \in 2 .. n : f[i] = f[i - 1] \o l[i]

LEMMA FlatAgree ==
  ASSUME NEW n \in Nat \ {0}, NEW f, NEW g, NEW l, Joins(f, l, n), Joins(g, l, n)
  PROVE  f[n] = g[n]
<1>0. /\ f[1] = g[1]
      /\ \A i \in 2 .. n : f[i] = f[i - 1] \o l[i]
      /\ \A i \in 2 .. n : g[i] = g[i - 1] \o l[i]
  BY DEF Joins
<1> DEFINE T == {k \in Nat : k \in 1 .. n /\ f[k] # g[k]}
<1>1. SUFFICES ASSUME T # {} PROVE FALSE
  OBVIOUS
<1>2. PICK k \in T : \A j \in T : ~(<<j, k>> \in OpToRel(<, Nat))
  <2>1. T \subseteq Nat
    OBVIOUS
  <2> HIDE DEF T
  <2> QED BY <1>1, <2>1, WFMin, NatLessThanWellFounded
<1>3. k \in 2 .. n /\ f[k] # g[k] /\ \A j \in T : ~(j < k)
  <2>1. \A j \in T : ~(j < k)
    BY <1>2 DEF OpToRel
  <2> QED BY <1>0, <2>1
<1>4. k - 1 \in 1 .. n /\ k - 1 < k /\ k - 1 \in Nat
  BY <1>3
<1>5. f[k - 1] = g[k - 1]
  BY <1>3, <1>4
<1> QED BY <1>0, <1>3, <1>5

LEMMA FlatEmpty == FlattenSeq(<<>>) = <<>>
BY DEF FlattenSeq

\* All the frames are samples; so are the frames up to any one.
LEMMA FlatUpTo ==
  ASSUME NEW l \in Seq(Samples), NEW g, g[1] = l[1],
         \A i \in 2 .. Len(l) : g[i] = g[i - 1] \o l[i]
  PROVE  \A i \in 1 .. Len(l) : g[i] \in Samples
<1> DEFINE n == Len(l)
           T == {k \in Nat : k \in 1 .. n /\ g[k] \notin Samples}
<1>0. n \in Nat /\ \A i \in 1 .. n : l[i] \in Samples
  OBVIOUS
<1>1. SUFFICES ASSUME T # {} PROVE FALSE
  BY <1>0
<1>2. PICK k \in T : \A j \in T : ~(<<j, k>> \in OpToRel(<, Nat))
  <2>1. T \subseteq Nat
    OBVIOUS
  <2> HIDE DEF T
  <2> QED BY <1>1, <2>1, WFMin, NatLessThanWellFounded
<1>3. k \in 2 .. n /\ g[k] \notin Samples /\ \A j \in T : ~(j < k)
  <2>1. \A j \in T : ~(j < k)
    BY <1>2 DEF OpToRel
  <2>2. k # 1
    BY <1>0
  <2> QED BY <2>1, <2>2
<1>4. k - 1 \in 1 .. n /\ k - 1 < k /\ k - 1 \in Nat /\ k \in 1 .. n
  BY <1>0, <1>3
<1>5. g[k - 1] \in Samples /\ l[k] \in Samples
  BY <1>0, <1>3, <1>4
<1>6. g[k] = g[k - 1] \o l[k]
  BY <1>3
<1> QED BY <1>3, <1>5, <1>6, SamplesClosed

LEMMA FlatType ==
  ASSUME NEW l \in Seq(Samples)
  PROVE  FlattenSeq(l) \in Samples
<1>1. CASE l = <<>>
  BY <1>1, FlatEmpty, SamplesClosed
<1>2. CASE l # <<>>
  <2>1. PICK g : /\ g[1] = l[1]
                 /\ \A i \in 2 .. Len(l) : g[i] = g[i - 1] \o l[i]
                 /\ FlattenSeq(l) = g[Len(l)]
    BY <1>2, FlatIs
  <2>2. Len(l) \in 1 .. Len(l)
    BY <1>2
  <2>3. \A i \in 1 .. Len(l) : g[i] \in Samples
    BY <2>1, FlatUpTo
  <2> QED BY <2>1, <2>2, <2>3
<1> QED BY <1>1, <1>2

\* A frame at the end of the list.
LEMMA FlatAppend ==
  ASSUME NEW l \in Seq(Samples), NEW x \in Samples
  PROVE  FlattenSeq(Append(l, x)) = FlattenSeq(l) \o x
<1> DEFINE m == Append(l, x)
           n == Len(l)
<1>1. /\ m \in Seq(Samples) /\ m # <<>> /\ Len(m) = n + 1 /\ n \in Nat
      /\ (\A i \in 1 .. n : m[i] = l[i]) /\ m[n + 1] = x
  BY AppendProperties
<1> HIDE DEF m
<1>2. PICK g : /\ g[1] = m[1]
               /\ \A i \in 2 .. Len(m) : g[i] = g[i - 1] \o m[i]
               /\ FlattenSeq(m) = g[Len(m)]
  BY <1>1, FlatIs
<1>3. CASE l = <<>>
  <2>1. n = 0 /\ FlattenSeq(m) = x /\ FlattenSeq(l) = <<>>
    BY <1>1, <1>2, <1>3, FlatEmpty
  <2>2. <<>> \o x = x
    BY ConcatEmptySeq DEF Samples
  <2> QED BY <2>1, <2>2 DEF m
<1>4. CASE l # <<>>
  <2>1. PICK f : /\ f[1] = l[1]
                 /\ \A i \in 2 .. n : f[i] = f[i - 1] \o l[i]
                 /\ FlattenSeq(l) = f[n]
    BY <1>4, FlatIs
  <2>2. n \in Nat \ {0} /\ n + 1 \in 2 .. Len(m) /\ n + 1 - 1 = n
    BY <1>1, <1>4
  <2>3. f[n] = g[n]
    <3>1. \A i \in 2 .. n : i \in 1 .. n /\ i \in 2 .. Len(m)
      BY <1>1
    <3>2. \A i \in 2 .. n : g[i] = g[i - 1] \o l[i]
      BY <1>1, <1>2, <3>1
    <3>3. g[1] = l[1]
      BY <1>1, <1>2, <2>2
    <3>4. Joins(f, l, n) /\ Joins(g, l, n)
      BY <2>1, <3>2, <3>3 DEF Joins
    <3>5. n \in Nat \ {0}
      BY <2>2
    <3> HIDE DEF n
    <3> QED BY <3>4, <3>5, FlatAgree
  <2>4. g[n + 1] = g[n] \o x
    <3>1. PICK i \in 2 .. Len(m) : i = n + 1
      BY <2>2
    <3>2. g[i] = g[i - 1] \o m[i]
      BY <1>2
    <3>3. i - 1 = n
      BY <2>2, <3>1
    <3> QED BY <1>1, <3>1, <3>2, <3>3
  <2> QED BY <1>1, <1>2, <2>1, <2>3, <2>4 DEF m
<1> QED BY <1>3, <1>4

\* The frame at the head of the list.
LEMMA FlatHead ==
  ASSUME NEW l \in Seq(Samples), l # <<>>
  PROVE  FlattenSeq(l) = Head(l) \o FlattenSeq(Tail(l))
<1> DEFINE h == Head(l)
           m == Tail(l)
           n == Len(m)
<1>1. /\ h \in Samples /\ h = l[1] /\ m \in Seq(Samples) /\ Len(l) = n + 1 /\ n \in Nat
      /\ \A i \in 1 .. n : m[i] = l[i + 1]
  BY HeadTailProperties
<1> HIDE DEF h, m
<1>2. PICK g : /\ g[1] = l[1]
               /\ \A i \in 2 .. Len(l) : g[i] = g[i - 1] \o l[i]
               /\ FlattenSeq(l) = g[Len(l)]
  BY FlatIs
<1>3. CASE m = <<>>
  <2>1. n = 0 /\ FlattenSeq(l) = h /\ FlattenSeq(m) = <<>>
    BY <1>1, <1>2, <1>3, FlatEmpty
  <2>2. h \o <<>> = h
    BY <1>1, ConcatEmptySeq DEF Samples
  <2> QED BY <2>1, <2>2 DEF h, m
<1>4. CASE m # <<>>
  <2>1. PICK f : /\ f[1] = m[1]
                 /\ \A i \in 2 .. n : f[i] = f[i - 1] \o m[i]
                 /\ FlattenSeq(m) = f[n]
    BY <1>1, <1>4, FlatIs
  <2>2. \A i \in 1 .. n : f[i] \in Samples
    BY <1>1, <2>1, FlatUpTo
  <2>0. n \in Nat \ {0}
    BY <1>1, <1>4
  <2> DEFINE T == {k \in Nat : k \in 1 .. n /\ g[k + 1] # h \o f[k]}
  <2>3. T = {}
    <3> SUFFICES ASSUME T # {} PROVE FALSE
      OBVIOUS
    <3>1. PICK k \in T : \A j \in T : ~(<<j, k>> \in OpToRel(<, Nat))
      <4>1. T \subseteq Nat
        OBVIOUS
      <4> HIDE DEF T
      <4> QED BY <4>1, WFMin, NatLessThanWellFounded
    <3>2. k \in 1 .. n /\ g[k + 1] # h \o f[k] /\ \A j \in T : ~(j < k)
      <4>1. \A j \in T : ~(j < k)
        BY <3>1 DEF OpToRel
      <4> QED BY <4>1
    <3>3. k + 1 \in 2 .. Len(l) /\ k + 1 - 1 = k /\ l[k + 1] = m[k]
      BY <1>1, <3>2
    <3>4. g[k + 1] = g[k] \o m[k]
      <4>1. PICK i \in 2 .. Len(l) : i = k + 1
        BY <3>3
      <4>2. g[i] = g[i - 1] \o l[i]
        BY <1>2
      <4>3. i - 1 = k
        BY <3>3, <4>1
      <4> QED BY <3>3, <4>1, <4>2, <4>3
    <3>5. CASE k = 1
      <4>1. g[k] = h /\ f[k] = m[k]
        BY <1>1, <1>2, <2>1, <3>5
      <4> QED BY <3>2, <3>4, <4>1
    <3>6. CASE k # 1
      <4>1. k \in 2 .. n /\ k - 1 \in 1 .. n /\ k - 1 < k /\ k - 1 \in Nat /\ k - 1 + 1 = k
        BY <2>0, <3>2, <3>6
      <4>2. g[k] = h \o f[k - 1]
        BY <3>2, <4>1
      <4>3. f[k] = f[k - 1] \o m[k]
        BY <2>1, <4>1
      <4>4. f[k - 1] \in Samples /\ m[k] \in Samples
        BY <1>1, <2>2, <3>2, <4>1
      <4>5. (h \o f[k - 1]) \o m[k] = h \o (f[k - 1] \o m[k])
        BY <1>1, <4>4, SamplesAssoc
      <4> QED BY <3>2, <3>4, <4>2, <4>3, <4>5
    <3> QED BY <3>5, <3>6
  <2>4. n \in 1 .. n
    BY <2>0
  <2>5. g[n + 1] = h \o f[n]
    BY <2>0, <2>3, <2>4
  <2> QED BY <1>1, <1>2, <2>1, <2>5 DEF h, m
<1> QED BY <1>3, <1>4

-----------------------------------------------------------------------------
(* Nothing is lost in the encoder. *)

\* What the encoder holds: frames, the frame that is filled, and the codec.
Out(e) == FlattenSeq(e.list) \o e.tmp
Body(e) == Out(e) \o e.codec

\* Only the codec of an mSBC call keeps samples, and it returns whole frames.
Framed(e) ==
  /\ Here # "msbc" => e.codec = <<>>
  /\ Here # "cvsd" => e.tmp = <<>>
  /\ Len(e.codec) <= FrameMax

LEMMA EncoderFields ==
  ASSUME NEW e \in Encoders
  PROVE  /\ e \in [list : Seq(Samples), count : Nat, tmp : Samples, codec : Samples]
         /\ e.list \in Seq(Samples) /\ e.tmp \in Samples /\ e.codec \in Samples
         /\ e.count = Len(e.list) /\ Len(e.tmp) <= FrameMax
         /\ FlattenSeq(e.list) \in Samples /\ Out(e) \in Samples /\ Body(e) \in Samples
<1>1. /\ e \in [list : Seq(Samples), count : Nat, tmp : Samples, codec : Samples]
      /\ e.count = Len(e.list) /\ Len(e.tmp) <= FrameMax
  BY DEF Encoders
<1>2. e.list \in Seq(Samples) /\ e.tmp \in Samples /\ e.codec \in Samples
  BY <1>1
<1>3. FlattenSeq(e.list) \in Samples
  BY <1>2, FlatType
<1>4. Out(e) \in Samples
  BY <1>2, <1>3, SamplesClosed DEF Out
<1>5. Body(e) \in Samples
  BY <1>2, <1>4, SamplesClosed DEF Body
<1> QED BY <1>1, <1>2, <1>3, <1>4, <1>5

LEMMA NewFrameOut ==
  ASSUME NEW e \in Encoders, NEW data \in Samples, e.tmp = <<>>
  PROVE  Out(NewFrame(e, data)) = Out(e) \o data /\ NewFrame(e, data).codec = e.codec
<1>1. /\ e \in [list : Seq(Samples), count : Nat, tmp : Samples, codec : Samples]
      /\ e.list \in Seq(Samples) /\ FlattenSeq(e.list) \in Samples
  BY EncoderFields
<1>2. Out(e) = FlattenSeq(e.list)
  BY <1>1, SamplesEmpty DEF Out
<1>3. CASE Here = "recorder" \/ Len(data) = FrameMax
  <2> DEFINE f == Pushed(e, data)
  <2>1. NewFrame(e, data) = f
    BY <1>3 DEF NewFrame
  <2>2. f.list = Append(e.list, data) /\ f.tmp = <<>> /\ f.codec = e.codec
    BY PushedType
  <2> HIDE DEF f
  <2>3. FlattenSeq(f.list) = FlattenSeq(e.list) \o data
    BY <1>1, <2>2, FlatAppend
  <2>4. FlattenSeq(e.list) \o data \in Samples
    BY <1>1, SamplesClosed
  <2>5. Out(f) = FlattenSeq(e.list) \o data
    BY <2>2, <2>3, <2>4, SamplesEmpty DEF Out
  <2> QED BY <1>2, <2>1, <2>2, <2>5
<1>4. CASE ~(Here = "recorder" \/ Len(data) = FrameMax)
  <2> DEFINE f == [e EXCEPT !.tmp = data]
  <2>1. NewFrame(e, data) = f
    BY <1>4 DEF NewFrame
  <2>2. f.list = e.list /\ f.tmp = data /\ f.codec = e.codec
    BY <1>1
  <2> HIDE DEF f
  <2> QED BY <1>2, <2>1, <2>2 DEF Out
<1> QED BY <1>3, <1>4

\* A sequence is its first part and the rest.
LEMMA Parts ==
  ASSUME NEW data \in Samples, NEW k \in 0 .. Len(data), NEW n \in k .. Len(data)
  PROVE  /\ SubSeq(data, 1, k) \o SubSeq(data, k + 1, n) = SubSeq(data, 1, n)
         /\ SubSeq(data, 1, k) \o SubSeq(data, k + 1, Len(data)) = data
         /\ SubSeq(data, 1, Len(data)) = data
         /\ SubSeq(data, 1, k) \in Samples /\ Len(SubSeq(data, 1, k)) = k
         /\ SubSeq(data, k + 1, Len(data)) \in Samples
         /\ Len(SubSeq(data, k + 1, Len(data))) = Len(data) - k
<1>1. Len(data) \in Nat
  BY SamplesClosed
<1>2. /\ 1 \in 1 .. Len(data) + 1 /\ k \in 1 - 1 .. Len(data) /\ n \in k .. Len(data)
      /\ Len(data) \in k .. Len(data)
  BY <1>1
<1>3. /\ SubSeq(data, 1, k) \o SubSeq(data, k + 1, n) = SubSeq(data, 1, n)
      /\ SubSeq(data, 1, k) \o SubSeq(data, k + 1, Len(data)) = SubSeq(data, 1, Len(data))
  BY <1>2, ConcatAdjacentSubSeq DEF Samples
<1>4. SubSeq(data, 1, Len(data)) = data
  BY SubSeqFull DEF Samples
<1>5. SubSeq(data, 1, k) \in Samples /\ Len(SubSeq(data, 1, k)) = k
  <2>1. k \in Nat /\ k <= Len(data) /\ 1 \in Nat \ {0}
    BY <1>1
  <2>2. SubSeq(data, 1, k) \in Samples /\ Len(SubSeq(data, 1, k)) = IF 1 <= k THEN k - 1 + 1 ELSE 0
    BY <2>1, SamplesClosed
  <2> QED BY <2>1, <2>2
<1>6. /\ SubSeq(data, k + 1, Len(data)) \in Samples
      /\ Len(SubSeq(data, k + 1, Len(data))) = Len(data) - k
  <2>1. PICK m \in Nat \ {0} : m = k + 1
    BY <1>1
  <2>2. /\ SubSeq(data, m, Len(data)) \in Samples
        /\ Len(SubSeq(data, m, Len(data))) = IF m <= Len(data) THEN Len(data) - m + 1 ELSE 0
    BY <1>1, SamplesClosed
  <2> QED BY <1>1, <2>1, <2>2
<1> QED BY <1>3, <1>4, <1>5, <1>6

\* What is saved comes out behind what was there.
LEMMA SaveOut ==
  ASSUME NEW e \in Encoders, Recorder(e), NEW data \in Samples,
         Here # "recorder" => Len(data) <= FrameMax
  PROVE  Out(Save(e, data)) = Out(e) \o data /\ Save(e, data).codec = e.codec
<1>1. /\ e \in [list : Seq(Samples), count : Nat, tmp : Samples, codec : Samples]
      /\ e.list \in Seq(Samples) /\ e.tmp \in Samples /\ FlattenSeq(e.list) \in Samples
      /\ FrameMax \in Nat /\ Len(e.tmp) \in 0 .. FrameMax /\ Len(data) \in Nat
  BY Sizes, SamplesClosed, EncoderFields
<1> DEFINE space == FrameMax - Len(e.tmp)
           F == FlattenSeq(e.list)
<1>2. CASE e.tmp = <<>>
  <2>1. Save(e, data) = NewFrame(e, data)
    BY <1>2 DEF Save
  <2> QED BY <1>2, <2>1, NewFrameOut
<1>3. CASE e.tmp # <<>> /\ Len(data) <= space
  <2> DEFINE f == [e EXCEPT !.tmp = e.tmp \o data]
  <2>1. Save(e, data) = f
    BY <1>3 DEF Save
  <2>2. f.list = e.list /\ f.tmp = e.tmp \o data /\ f.codec = e.codec
    BY <1>1
  <2> HIDE DEF f
  <2>3. Out(f) = F \o (e.tmp \o data)
    BY <2>2 DEF Out
  <2>4. (F \o e.tmp) \o data = F \o (e.tmp \o data)
    BY <1>1, SamplesAssoc
  <2> QED BY <2>1, <2>2, <2>3, <2>4 DEF Out
<1>4. CASE e.tmp # <<>> /\ ~(Len(data) <= space)
  <2> DEFINE part == SubSeq(data, 1, space)
             left == SubSeq(data, space + 1, Len(data))
             f == Pushed(e, e.tmp \o part)
  <2>1. Save(e, data) = NewFrame(f, left)
    BY <1>4 DEF Save
  <2>2. space \in 0 .. Len(data) /\ space \in space .. Len(data)
    BY <1>1, <1>4
  <2> HIDE DEF space
  <2>3. part \o left = data /\ part \in Samples /\ left \in Samples
    BY <2>2, Parts
  <2> HIDE DEF part, left
  <2>4. e.tmp \o part \in Samples
    BY <1>1, <2>3, SamplesClosed
  <2>5. f \in Encoders /\ f.list = Append(e.list, e.tmp \o part) /\ f.tmp = <<>> /\ f.codec = e.codec
    BY <2>4, PushedType
  <2> HIDE DEF f
  <2>6. Out(NewFrame(f, left)) = Out(f) \o left /\ NewFrame(f, left).codec = f.codec
    BY <2>3, <2>5, NewFrameOut
  <2>7. Out(f) = F \o (e.tmp \o part)
    <3>1. FlattenSeq(f.list) = F \o (e.tmp \o part)
      BY <1>1, <2>4, <2>5, FlatAppend
    <3>2. F \o (e.tmp \o part) \in Samples
      BY <1>1, <2>4, SamplesClosed
    <3> QED BY <2>5, <3>1, <3>2, SamplesEmpty DEF Out
  <2>8. F \o (e.tmp \o part) = (F \o e.tmp) \o part
    BY <1>1, <2>3, SamplesAssoc
  <2>9. ((F \o e.tmp) \o part) \o left = (F \o e.tmp) \o (part \o left)
    <3>1. F \o e.tmp \in Samples
      BY <1>1, SamplesClosed
    <3> QED BY <2>3, <3>1, SamplesAssoc
  <2> QED BY <2>1, <2>3, <2>5, <2>6, <2>7, <2>8, <2>9 DEF Out
<1> QED BY <1>2, <1>3, <1>4

\* So does what is saved piece by piece.
LEMMA SaveAllOut ==
  ASSUME NEW e \in Encoders, Here # "recorder", NEW data \in Samples
  PROVE  /\ Out(SaveAll(e, Pieces(data, FrameMax))) = Out(e) \o data
         /\ SaveAll(e, Pieces(data, FrameMax)).codec = e.codec
<1> DEFINE n == FrameMax
           p == Pieces(data, n)
           m == Len(p)
           L == Len(data)
           to(k) == IF n * k <= L THEN n * k ELSE L
<1>1. n \in Nat \ {0} /\ L \in Nat /\ m \in Nat /\ m = (L + n - 1) \div n
  BY Sizes, SamplesClosed, PieceIs
<1>2. ASSUME NEW i \in 1 .. m
      PROVE  /\ p[i] = SubSeq(data, n * (i - 1) + 1, Min({n * i, L})) /\ p[i] \in Samples
             /\ n * (i - 1) \in Nat /\ n * i = n * (i - 1) + n /\ n * (i - 1) < L
             /\ Len(p[i]) <= n
  <2>1. /\ p[i] = SubSeq(data, n * (i - 1) + 1, Min({n * i, L})) /\ p[i] \in Samples
        /\ n * (i - 1) \in Nat /\ n * i = n * (i - 1) + n /\ n * (i - 1) < L
        /\ Len(p[i]) = IF n * i <= L THEN n ELSE L - n * (i - 1)
    BY <1>1, PieceIs
  <2>2. n \in Nat /\ L \in Nat
    BY <1>1
  <2> HIDE DEF p, L, n, m
  <2>3. Len(p[i]) <= n
    <3>1. PICK x \in Nat : x = n * (i - 1)
      BY <2>1
    <3>2. n * i = x + n /\ x < L /\ Len(p[i]) = IF n * i <= L THEN n ELSE L - x
      BY <2>1, <3>1
    <3> QED BY <2>2, <3>1, <3>2
  <2> QED BY <2>1, <2>3
<1>3. PICK g : /\ g[0] = e
               /\ \A i \in 1 .. m : g[i] = Save(g[i - 1], p[i])
               /\ SaveAll(e, p) = g[m]
  BY <1>1, SaveAllIs
<1> HIDE DEF m, p, n, L
<1> DEFINE Right(k) == /\ g[k] \in Encoders /\ g[k].codec = e.codec
                       /\ Out(g[k]) = Out(e) \o SubSeq(data, 1, to(k))
           T == {k \in Nat : k <= m /\ ~Right(k)}
<1>4. Right(0)
  <2>1. n * 0 = 0 /\ to(0) = 0
    BY <1>1
  <2>2. SubSeq(data, 1, 0) = <<>>
    BY SubSeqEmpty
  <2>3. Out(e) \o <<>> = Out(e)
    BY EncoderFields, SamplesEmpty
  <2> QED BY <1>3, <2>1, <2>2, <2>3
<1>5. ASSUME NEW k \in 1 .. m, Right(k - 1)
      PROVE  Right(k)
  <2>1. /\ p[k] = SubSeq(data, n * (k - 1) + 1, Min({n * k, L})) /\ p[k] \in Samples
        /\ n * (k - 1) \in Nat /\ n * k = n * (k - 1) + n /\ n * (k - 1) < L
        /\ Len(p[k]) <= n
    BY <1>2
  <2>2. Min({n * k, L}) = to(k) /\ to(k - 1) = n * (k - 1) /\ to(k) \in n * (k - 1) .. L
    BY <1>1, <2>1, MinIs
  <2>3. g[k] = Save(g[k - 1], p[k])
    BY <1>3
  <2>4. g[k] \in Encoders /\ Out(g[k]) = Out(g[k - 1]) \o p[k] /\ g[k].codec = g[k - 1].codec
    <3>1. PICK f \in Encoders : f = g[k - 1]
      BY <1>5
    <3>2. PICK d \in Samples : d = p[k]
      BY <2>1
    <3>3. Len(d) <= FrameMax /\ Recorder(f)
      BY <2>1, <3>2 DEF Recorder, n
    <3>4. Save(f, d) \in Encoders
      BY <3>3, SaveType
    <3>5. Out(Save(f, d)) = Out(f) \o d /\ Save(f, d).codec = f.codec
      BY <3>3, SaveOut
    <3> QED BY <2>3, <3>1, <3>2, <3>4, <3>5
  <2> DEFINE from == n * (k - 1)
             t == to(k)
             u == to(k - 1)
  <2>5. u = from /\ p[k] = SubSeq(data, from + 1, t) /\ t \in from .. L
    BY <2>1, <2>2
  <2> HIDE DEF t, u, to
  <2>6. from \in 0 .. L
    BY <1>1, <2>1
  <2> HIDE DEF from
  <2>7. SubSeq(data, 1, from) \o p[k] = SubSeq(data, 1, t) /\ SubSeq(data, 1, from) \in Samples
    <3>1. PICK w : w = t
      OBVIOUS
    <3>2. from \in 0 .. Len(data) /\ w \in from .. Len(data)
      BY <2>5, <2>6, <3>1 DEF L
    <3>3. /\ SubSeq(data, 1, from) \o SubSeq(data, from + 1, w) = SubSeq(data, 1, w)
          /\ SubSeq(data, 1, from) \in Samples
      BY <3>2, Parts
    <3> QED BY <2>5, <3>1, <3>3
  <2>8. Out(e) \in Samples
    BY EncoderFields
  <2>9. (Out(e) \o SubSeq(data, 1, from)) \o p[k] = Out(e) \o (SubSeq(data, 1, from) \o p[k])
    BY <2>1, <2>7, <2>8, SamplesAssoc
  <2>10. Out(g[k - 1]) = Out(e) \o SubSeq(data, 1, u) /\ g[k - 1].codec = e.codec
    BY <1>5 DEF u
  <2> QED BY <2>4, <2>5, <2>7, <2>9, <2>10 DEF t
<1> HIDE DEF Right
<1>6. T = {}
  <2> SUFFICES ASSUME T # {} PROVE FALSE
    OBVIOUS
  <2>1. PICK k \in T : \A j \in T : ~(<<j, k>> \in OpToRel(<, Nat))
    <3>1. T \subseteq Nat
      OBVIOUS
    <3> HIDE DEF T
    <3> QED BY <3>1, WFMin, NatLessThanWellFounded
  <2>2. k \in 0 .. m /\ ~Right(k) /\ \A j \in T : ~(j < k)
    <3>1. \A j \in T : ~(j < k)
      BY <2>1 DEF OpToRel
    <3> QED BY <1>1, <3>1
  <2>3. k \in 1 .. m /\ k - 1 \in 0 .. m /\ k - 1 < k /\ k - 1 \in Nat
    BY <1>1, <1>4, <2>2
  <2>4. Right(k - 1)
    BY <1>1, <2>2, <2>3
  <2> QED BY <1>5, <2>2, <2>3, <2>4
<1>7. Right(m)
  BY <1>1, <1>6
<1>8. to(m) = L
  <2>1. L + n - 1 \in Nat
    BY <1>1
  <2>2. L + n - 1 < n * m + n /\ n * m \in Nat
    BY <1>1, <2>1, DivBounds
  <2> QED BY <1>1, <2>2
<1>9. Out(g[m]) = Out(e) \o SubSeq(data, 1, L) /\ g[m].codec = e.codec
  BY <1>7, <1>8 DEF Right
<1>10. SubSeq(data, 1, L) = data
  BY SubSeqFull DEF L, Samples
<1> QED BY <1>3, <1>9, <1>10 DEF p, n

\* Pieces that are whole frames leave no frame to be filled.
LEMMA WholePieces ==
  ASSUME NEW e \in Encoders, e.tmp = <<>>, NEW data \in Samples, NEW q \in Nat,
         Len(data) = FrameMax * q, Here # "recorder"
  PROVE  SaveAll(e, Pieces(data, FrameMax)).tmp = <<>>
<1> DEFINE n == FrameMax
           p == Pieces(data, n)
           S == {x \in Encoders : x.tmp = <<>>}
<1>1. n \in Nat \ {0} /\ Len(p) \in Nat
  BY Sizes, PieceIs
<1>2. ASSUME NEW i \in 1 .. Len(p)
      PROVE  p[i] \in Samples /\ Len(p[i]) = n
  <2>1. /\ p[i] \in Samples /\ n * (i - 1) \in Nat /\ n * i = n * (i - 1) + n
        /\ n * (i - 1) < Len(data)
        /\ Len(p[i]) = IF n * i <= Len(data) THEN n ELSE Len(data) - n * (i - 1)
    BY <1>1, PieceIs
  <2>2. n * (i - 1) < n * q
    BY <2>1
  <2>3. i - 1 < q
    <3>1. i - 1 \in Nat
      BY <1>1
    <3>2. CASE i - 1 >= q
      <4>1. i - 1 - q \in Nat /\ n * (i - 1 - q) \in Nat /\ n * (i - 1) = n * q + n * (i - 1 - q)
        BY <1>1, <3>1, <3>2
      <4>2. n * q \in Nat
        BY <1>1
      <4> QED BY <2>2, <4>1, <4>2
    <3> QED BY <3>1, <3>2
  <2>4. n * i <= n * q
    <3>1. i \in Nat /\ q - i \in Nat /\ n * (q - i) \in Nat /\ n * q = n * i + n * (q - i) /\ n * i \in Nat
      BY <1>1, <2>3
    <3> QED BY <3>1
  <2> QED BY <2>1, <2>4
<1> HIDE DEF p
<1>3. ASSUME NEW x \in S, NEW i \in 1 .. Len(p)
      PROVE  Save(x, p[i]) \in S
  <2>1. p[i] \in Samples /\ Len(p[i]) = FrameMax
    BY <1>2
  <2>2. Save(x, p[i]) = Pushed(x, p[i])
    BY <1>3, <2>1 DEF Save, NewFrame
  <2> QED BY <2>1, <2>2, PushedType
<1>4. SaveAll(e, p) \in S
  <2>1. e \in S
    OBVIOUS
  <2> HIDE DEF S
  <2> QED BY <1>1, <1>3, <2>1, SaveAllKeeps
<1> QED BY <1>4 DEF p

\* What the canceller hands over comes out behind what was there.
LEMMA EncodedBody ==
  ASSUME NEW e \in Encoders, InCall(Here), Framed(e), NEW data \in Samples
  PROVE  Body(Encoded(e, data)) = Body(e) \o data /\ Framed(Encoded(e, data))
<1>0. /\ Here # "recorder" /\ (Here = "cvsd" \/ Here = "msbc")
      /\ Out(e) \in Samples /\ e.codec \in Samples /\ e.tmp \in Samples
  BY EncoderFields DEF InCall
<1>1. CASE Here = "cvsd"
  <2> DEFINE f == SaveAll(e, Pieces(data, FrameMax))
  <2>1. Encoded(e, data) = f
    BY <1>1 DEF Encoded
  <2>2. f \in Encoders /\ Out(f) = Out(e) \o data /\ f.codec = e.codec
    BY <1>0, SaveAllType, SaveAllOut
  <2> HIDE DEF f
  <2>3. e.codec = <<>>
    BY <1>1 DEF Framed
  <2>4. Out(e) \o data \in Samples
    BY <1>0, SamplesClosed
  <2>5. Body(f) = Out(e) \o data /\ Body(e) = Out(e)
    BY <1>0, <2>2, <2>3, <2>4, SamplesEmpty DEF Body
  <2> QED BY <1>1, <2>1, <2>2, <2>3, <2>5 DEF Framed
<1>2. CASE Here = "msbc"
  <2> DEFINE all == e.codec \o data
             whole == Len(all) - (Len(all) % FrameMax)
             pack == SubSeq(all, 1, whole)
             left == SubSeq(all, whole + 1, Len(all))
             f == [e EXCEPT !.codec = left]
             g == SaveAll(f, Pieces(pack, FrameMax))
  <2>1. Encoded(e, data) = g
    BY <1>2 DEF Encoded
  <2>2. all \in Samples /\ Len(all) \in Nat /\ FrameMax \in Nat \ {0}
    BY <1>0, SamplesClosed, Sizes
  <2> HIDE DEF all
  <2>3. /\ Len(all) \div FrameMax \in Int /\ Len(all) % FrameMax \in 0 .. FrameMax - 1
        /\ whole = FrameMax * (Len(all) \div FrameMax) /\ Len(all) \div FrameMax \in Nat
    <3>1. /\ Len(all) \div FrameMax \in Int /\ Len(all) % FrameMax \in 0 .. FrameMax - 1
          /\ Len(all) = (Len(all) % FrameMax) + FrameMax * (Len(all) \div FrameMax)
      BY <2>2, DivMod
    <3>2. Len(all) \div FrameMax \in Nat /\ FrameMax * (Len(all) \div FrameMax) \in Nat
      BY <2>2, DivBounds
    <3> QED BY <2>2, <3>1, <3>2
  <2>4. PICK w : w = whole
    OBVIOUS
  <2>5. /\ w \in 0 .. Len(all) /\ Len(all) - w \in 0 .. FrameMax - 1
        /\ left \in Samples /\ Len(left) = Len(all) - w
        /\ pack \in Samples /\ Len(pack) = w
        /\ f \in Encoders
    <3>1. /\ w \in 0 .. Len(all) /\ Len(all) - w \in 0 .. FrameMax - 1
          /\ SubSeq(all, w + 1, Len(all)) \in Samples
          /\ Len(SubSeq(all, w + 1, Len(all))) = Len(all) - w
          /\ SubSeq(all, 1, w) \in Samples /\ Len(SubSeq(all, 1, w)) = w
          /\ \A rem \in Samples : [e EXCEPT !.codec = rem] \in Encoders
      BY <2>2, <2>4, CodecKeeps
    <3> QED BY <2>4, <3>1
  <2>6. pack \o left = all
    <3>1. w \in w .. Len(all)
      BY <2>2, <2>5
    <3> QED BY <2>2, <2>4, <2>5, <3>1, Parts
  <2>7. f.list = e.list /\ f.tmp = e.tmp /\ f.codec = left
    BY EncoderFields
  <2>8. Out(f) = Out(e)
    BY <2>7 DEF Out
  <2>9. f.tmp = <<>>
    BY <1>2, <2>7 DEF Framed
  <2>10. Len(pack) = FrameMax * (Len(all) \div FrameMax)
    BY <2>3, <2>4, <2>5
  <2> HIDE DEF f, pack, left, whole
  <2>11. Out(g) = Out(e) \o pack /\ g.codec = left /\ g.tmp = <<>>
    BY <1>0, <2>3, <2>5, <2>7, <2>8, <2>9, <2>10, SaveAllOut, WholePieces
  <2> HIDE DEF g
  <2>12. (Out(e) \o pack) \o left = Out(e) \o (pack \o left)
    <3>1. Out(e) \in Samples /\ pack \in Samples /\ left \in Samples
      BY <1>0, <2>5
    <3> QED BY ONLY <3>1, SamplesAssoc, Zenon
  <2>13. (Out(e) \o e.codec) \o data = Out(e) \o (e.codec \o data)
    BY <1>0, SamplesAssoc
  <2>14. Body(g) = Body(e) \o data
    BY <2>6, <2>11, <2>12, <2>13 DEF Body, all
  <2>15. Framed(g)
    BY <1>2, <2>2, <2>5, <2>11 DEF Framed
  <2> QED BY <2>1, <2>14, <2>15
<1> QED BY <1>0, <1>1, <1>2

\* What is reported comes from the head.
LEMMA ReportedBody ==
  ASSUME NEW e \in Encoders, e.count > 0, NEW f, f = [e EXCEPT !.list = Tail(@), !.count = @ - 1]
  PROVE  /\ Body(e) = Head(e.list) \o Body(f) /\ Head(e.list) \in Samples /\ Body(f) \in Samples
         /\ Framed(e) => Framed(f)
<1>1. /\ e \in [list : Seq(Samples), count : Nat, tmp : Samples, codec : Samples]
      /\ e.list \in Seq(Samples) /\ e.tmp \in Samples /\ e.codec \in Samples
      /\ e.count = Len(e.list)
  BY EncoderFields
<1>2. f.list = Tail(e.list) /\ f.tmp = e.tmp /\ f.codec = e.codec
  BY <1>1
<1>3. e.list # <<>> /\ Head(e.list) \in Samples /\ Tail(e.list) \in Seq(Samples)
  BY <1>1
<1> DEFINE h == Head(e.list)
           F == FlattenSeq(Tail(e.list))
<1>4. FlattenSeq(e.list) = h \o F /\ F \in Samples /\ h \in Samples
  BY <1>1, <1>3, FlatHead, FlatType
<1> HIDE DEF h, F
<1>5. (h \o F) \o e.tmp = h \o (F \o e.tmp) /\ F \o e.tmp \in Samples
  BY <1>1, <1>4, SamplesAssoc, SamplesClosed
<1>6. (h \o (F \o e.tmp)) \o e.codec = h \o ((F \o e.tmp) \o e.codec)
  BY <1>1, <1>4, <1>5, SamplesAssoc
<1>7. (F \o e.tmp) \o e.codec \in Samples
  BY <1>1, <1>5, SamplesClosed
<1>8. Body(f) = (F \o e.tmp) \o e.codec
  BY <1>2 DEF Body, Out, F
<1>9. Body(e) = h \o Body(f)
  BY <1>4, <1>5, <1>6, <1>8 DEF Body, Out
<1>10. Framed(e) => Framed(f)
  BY <1>2 DEF Framed
<1> QED BY <1>4, <1>7, <1>8, <1>9, <1>10 DEF h

-----------------------------------------------------------------------------
(* Nothing is lost between the microphone and the encoder. *)

\* Loopback starts with half of its buffer to play, and the interrupts that come
\* before its output has been added must not use that up: in the code the half is
\* 32 chunks (loopback.c:9, and I2S_FIFO_HALF_DEPTH), so 31 of them are harmless.
Roomy == "loopback" \in Kinds => Chunk * (MaxEarly + 1) <= LoopSize \div 2

Noisy == Here = "loopback"
Coded == Len(Body(enc))
Room  == IF InCall(Here) THEN FrameMax + BufSize ELSE LoopSize

Frames ==
  /\ Framed(enc)
  /\ tpc = "report" => InCall(Here) \/ Here = "recorder"

\* What the buffer of the scene is filled with, and how far behind the task is.
Filling ==
  /\ owner = NULL => ahead = 0 /\ early = 0
  /\ ~HasBuffer => bufWr = 0 /\ bufRd = 0
  /\ Noisy => \E k \in Nat : bufRd = Chunk * k
  /\ owner # NULL /\ ~late => Backlog <= Slack
  /\ Noisy /\ ~late => Filled + Backlog + Chunk * (ahead + early) = LoopSize \div 2
  /\ ~hw.output => /\ enc = NewEncoder
                   /\ \A c \in DOMAIN buf : buf[c] = Noise
                   /\ InCall(Here) => bufWr = 0 /\ bufRd = 0

\* Encoder, buffer and ring hold the samples from sent to now.
Content ==
  hw.output /\ ~late =>
    /\ Coded + Filled <= Room
    /\ Numbered(Body(enc), sent, Noisy)
    /\ Holds(buf, BufSize, bufRd, Filled, sent + Coded, Noisy)
    /\ Holds(ring, RingSize, rd, Backlog, sent + Coded + Filled, Noisy)
    /\ (sent + Coded + Filled + Backlog) % Wrap = now

Kept == Frames /\ Filling /\ Content

LEMMA Halves ==
  \E m \in Nat \ {0} : LoopSize = 2 * (Chunk * m) /\ LoopSize \div 2 = Chunk * m /\ Chunk * m \in Nat
<1> DEFINE c == 2 * Chunk
           q == LoopSize \div c
<1>1. c \in Nat \ {0} /\ LoopSize \in Nat \ {0} /\ Chunk \in Nat \ {0} /\ LoopSize % c = 0
  BY Sizes, CaptureAssumption
<1>2. q \in Int /\ LoopSize = (LoopSize % c) + c * q
  <2>1. PICK d \in Nat \ {0} : d = c
    BY <1>1
  <2>2. LoopSize \div d \in Int /\ LoopSize = (LoopSize % d) + d * (LoopSize \div d)
    <3>1. LoopSize \in Int
      BY <1>1
    <3> QED BY <3>1, DivMod
  <2> QED BY <2>1, <2>2
<1> HIDE DEF q
<1>3. LoopSize = c * q /\ c * q = 2 * (Chunk * q) /\ Chunk * q \in Int
  BY <1>1, <1>2
<1>4. PICK x \in Int : x = Chunk * q
  BY <1>3
<1>5. LoopSize = 2 * x /\ x > 0
  BY <1>1, <1>3, <1>4
<1>6. LoopSize \div 2 = x
  BY <1>5
<1>7. q \in Nat \ {0}
  <2>1. CASE q <= 0
    <3>1. 0 - q \in Nat /\ Chunk * (0 - q) \in Nat /\ Chunk * (0 - q) = 0 - Chunk * q
      BY <1>1, <1>2, <2>1
    <3> QED BY <1>4, <1>5, <3>1
  <2> QED BY <1>2, <2>1
<1> QED BY <1>4, <1>5, <1>6, <1>7

LEMMA WrapIsLarge ==
  Wrap > LoopSize + RingSize /\ Wrap > FrameMax + AlgoFrame * AdcFrames + RingSize
<1> DEFINE x == LoopSize
           y == AlgoFrame * (AdcFrames + 1) + FrameMax
<1>1. /\ AlgoFrame \in Nat \ {0} /\ AdcFrames \in Nat \ {0} /\ FrameMax \in Nat \ {0} /\ x \in Nat
      /\ RingSize \in Nat /\ Wrap \in Nat /\ AlgoFrame * AdcFrames \in Nat
  BY Sizes, CaptureAssumption
<1>2. y = AlgoFrame * AdcFrames + AlgoFrame + FrameMax /\ y \in Nat
  BY <1>1
<1>3. Wrap > Max({x, y}) + RingSize
  BY CaptureAssumption DEF RingSize
<1> HIDE DEF x, y
<1>4. Max({x, y}) \in Int /\ Max({x, y}) >= x /\ Max({x, y}) >= y
  <2>1. \E m \in {x, y} : \A z \in {x, y} : m >= z
    BY <1>1, <1>2
  <2> QED BY <1>1, <1>2, <2>1 DEF Max
<1>5. Wrap > x + RingSize /\ Wrap > y + RingSize
  BY <1>1, <1>2, <1>3, <1>4
<1> QED BY <1>1, <1>2, <1>5 DEF x

LEMMA LoopSlack ==
  ASSUME NEW s, s = Min({RingSize, LoopSize \div 2 - Chunk * (MaxEarly + 1)})
  PROVE  /\ s \in Int /\ s <= RingSize /\ s <= LoopSize \div 2 - Chunk * (MaxEarly + 1)
         /\ Chunk * (MaxEarly + 1) <= LoopSize \div 2 => s >= 0
         /\ Chunk * (MaxEarly + 1) = Chunk * MaxEarly + Chunk /\ Chunk * MaxEarly \in Nat
<1>1. /\ Chunk \in Nat \ {0} /\ MaxEarly \in Nat /\ RingSize \in Nat /\ LoopSize \div 2 \in Nat
  BY Sizes
<1>2. Chunk * (MaxEarly + 1) = Chunk * MaxEarly + Chunk /\ Chunk * MaxEarly \in Nat
  BY <1>1
<1>3. PICK x \in Int : x = LoopSize \div 2 - Chunk * (MaxEarly + 1)
  BY <1>1, <1>2
<1>4. s = IF RingSize <= x THEN RingSize ELSE x
  BY <1>1, <1>3, MinIs
<1>5. s \in Int /\ s <= RingSize /\ s <= x
  BY <1>1, <1>3, <1>4
<1>6. Chunk * (MaxEarly + 1) <= LoopSize \div 2 => s >= 0
  BY <1>1, <1>2, <1>3, <1>4
<1> QED BY <1>2, <1>3, <1>5, <1>6

LEMMA SlackIs ==
  /\ Slack \in Int /\ Slack <= RingSize
  /\ Noisy => Slack <= LoopSize \div 2 - (Chunk * MaxEarly + Chunk)
<1>1. RingSize \in Int
  BY Sizes
<1>2. CASE Noisy
  BY <1>2, LoopSlack DEF Noisy, Slack
<1>3. CASE ~Noisy
  BY <1>1, <1>3 DEF Noisy, Slack
<1> QED BY <1>2, <1>3

\* The numbers behind Kept.
LEMMA Amounts ==
  ASSUME BaseType, DataType
  PROVE  /\ sent \in Int /\ now \in Int /\ now % Wrap = now /\ Wrap \in Nat \ {0}
         /\ Coded \in Nat /\ Body(enc) \in Samples
         /\ Filled \in Nat /\ Filled < BufSize /\ BufSize \in Nat \ {0} /\ Backlog \in Nat
         /\ bufRd \in Int /\ bufWr \in Int /\ rd \in Int /\ RingSize \in Nat \ {0}
         /\ bufWr = (bufRd + Filled) % BufSize
         /\ ring \in [0 .. RingSize - 1 -> Cell]
         /\ HasBuffer => buf \in [0 .. BufSize - 1 -> Cell]
         /\ rest \in Nat /\ rest <= Chunk /\ Chunk \in Nat \ {0}
<1>1. /\ BufSize \in Nat \ {0} /\ bufWr \in 0 .. BufSize - 1 /\ bufRd \in 0 .. BufSize - 1
      /\ Filled \in 0 .. BufSize - 1 /\ rest \in Nat /\ rest <= Chunk /\ Chunk \in Nat \ {0}
  BY FillNumbers
<1>2. bufWr = (bufRd + Filled) % BufSize
  <2>1. PICK x \in Int : x = bufWr - bufRd
    BY <1>1
  <2>2. ((x % BufSize) + bufRd) % BufSize = (x + bufRd) % BufSize
    <3>1. bufRd \in Int /\ BufSize \in Nat \ {0}
      BY <1>1
    <3> QED BY <3>1, ModPlus
  <2>3. x + bufRd = bufWr /\ Filled = x % BufSize /\ bufRd + Filled = Filled + bufRd
    BY <1>1, <2>1 DEF Filled
  <2>4. bufWr % BufSize = bufWr
    BY <1>1, ModSmall
  <2> QED BY <2>2, <2>3, <2>4
<1>3. Body(enc) \in Samples /\ Coded \in Nat
  BY EncoderFields, SamplesClosed DEF DataType, Coded
<1>4. now \in Sample /\ sent \in Sample /\ Wrap \in Nat \ {0}
  BY Sizes DEF BaseType, DataType
<1>5. now % Wrap = now
  BY <1>4, ModSmall DEF Sample
<1>6. /\ ring \in [0 .. RingSize - 1 -> Cell]
      /\ HasBuffer => buf \in [0 .. BufSize - 1 -> Cell]
  BY DEF DataType
<1> QED BY <1>1, <1>2, <1>3, <1>4, <1>5, <1>6, Numbers DEF Sample

LEMMA WriterIsAhead ==
  ASSUME BaseType, InStep, hw.output
  PROVE  wr = (rd + Backlog) % RingSize
<1>1. PICK k \in Int : rd + Backlog = wr + RingSize * k
  BY DEF InStep
<1>2. rd + Backlog \in Int
  BY Numbers
<1> QED BY <1>1, <1>2, ModTurns, Numbers

LEMMA ReadIsMod ==
  ASSUME BaseType, NEW n \in 0 .. Chunk
  PROVE  AfterRead(n) = (rd + n) % RingSize
<1>1. PICK t \in {0, 1} : rd + n = AfterRead(n) + RingSize * t
  BY ReadGoesRound DEF BaseType
<1>2. AfterRead(n) \in 0 .. RingSize - 1 /\ RingSize \in Nat \ {0} /\ rd + n \in Int /\ t \in Int
  BY ReadGoesRound, Sizes DEF BaseType
<1> QED BY <1>1, <1>2, ModTurns

\* Samples that are handed on move the number of the first one.
LEMMA SentMoves ==
  ASSUME NEW s \in Int, NEW k \in Int, NEW y \in Int
  PROVE  (((s + k) % Wrap) + y) % Wrap = (s + k + y) % Wrap /\ (s + k) % Wrap \in Int
<1>1. PICK x \in Int : x = s + k
  OBVIOUS
<1>2. Wrap \in Nat \ {0}
  BY Sizes
<1>3. ((x % Wrap) + y) % Wrap = (x + y) % Wrap /\ x % Wrap \in 0 .. Wrap - 1
  BY <1>2, ModPlus, ModRange
<1> QED BY <1>1, <1>2, <1>3

\* While no frame is reported the encoder holds less than two frames.
LEMMA BetweenFrames ==
  ASSUME DataType, Prompt, Frames, tpc # "report" \/ Here = "loopback" \/ Here = "voice"
  PROVE  /\ Coded <= FrameMax
         /\ ~InCall(Here) => Coded = 0 /\ Body(enc) = <<>>
<1>0. tpc # "report"
  BY DEF Frames, InCall
<1>1. /\ enc.list \in Seq(Samples) /\ enc.tmp \in Samples /\ enc.codec \in Samples
      /\ enc.count = Len(enc.list) /\ Len(enc.tmp) <= FrameMax
  BY EncoderFields DEF DataType
<1>2. enc.list = <<>>
  BY <1>0, <1>1 DEF Prompt
<1>3. Body(enc) = enc.tmp \o enc.codec
  BY <1>1, <1>2, FlatEmpty, SamplesEmpty DEF Body, Out
<1>4. Framed(enc)
  BY DEF Frames
<1>5. CASE Here = "msbc"
  <2>1. Body(enc) = enc.codec
    BY <1>1, <1>3, <1>4, <1>5, SamplesEmpty DEF Framed
  <2> QED BY <1>4, <1>5, <2>1 DEF Framed, Coded, InCall
<1>6. CASE Here # "msbc"
  <2>1. Body(enc) = enc.tmp
    BY <1>1, <1>3, <1>4, <1>6, SamplesEmpty DEF Framed
  <2>2. ~InCall(Here) => enc.tmp = <<>>
    BY <1>4 DEF Framed, InCall
  <2> QED BY <1>1, <2>1, <2>2, SamplesClosed DEF Coded
<1> QED BY <1>5, <1>6

-----------------------------------------------------------------------------
(* The steps lose nothing. *)

\* The scene that owns the hardware stays.
LEMMA SceneSame ==
  ASSUME owner' = owner, owner # NULL => kind'[owner] = kind[owner]
  PROVE  /\ Here' = Here /\ BufSize' = BufSize /\ Noisy' = Noisy /\ Room' = Room /\ Slack' = Slack
         /\ InCall(Here)' = InCall(Here) /\ HasBuffer' = HasBuffer
<1>1. Here' = Here /\ BufSize' = BufSize
  BY HereSame
<1>2. InCall(Here)' = InCall(Here)
  BY <1>1 DEF InCall
<1>3. Noisy' = Noisy /\ HasBuffer' = HasBuffer
  BY <1>1, <1>2 DEF Noisy, HasBuffer
<1>4. Room' = Room
  BY <1>1, <1>2 DEF Room
<1>5. Slack' = Slack
  BY <1>1 DEF Slack
<1> QED BY <1>1, <1>2, <1>3, <1>4, <1>5

LEMMA FramesSame ==
  ASSUME Frames, enc' = enc, Here' = Here, tpc' = "report" => tpc = "report"
  PROVE  Frames'
BY DEF Frames, Framed, InCall

\* A step that moves no sample.
LEMMA KeptSame ==
  ASSUME Control, Kept, owner # NULL => kind'[owner] = kind[owner],
         UNCHANGED <<owner, rd, ring, buf, bufWr, bufRd, enc, clock>>, hw'.output = hw.output,
         owner # NULL => Backlog' = Backlog,
         tpc' = "report" => tpc = "report"
  PROVE  Kept'
<1>1. /\ Here' = Here /\ BufSize' = BufSize /\ Noisy' = Noisy /\ Room' = Room /\ Slack' = Slack
      /\ InCall(Here)' = InCall(Here) /\ HasBuffer' = HasBuffer
  BY SceneSame
<1>2. Filled' = Filled /\ Coded' = Coded /\ UNCHANGED <<sent, now, ahead, early, late>>
  BY <1>1 DEF Filled, Coded, clock
<1>3. Frames'
  BY <1>1, FramesSame DEF Kept
<1>4. Noisy => owner # NULL
  BY DEF Noisy, Here
<1>5. Filling'
  BY <1>1, <1>2, <1>4 DEF Kept, Filling
<1>6. hw.output => owner # NULL
  BY OwnerAlive
<1>7. Content'
  BY <1>1, <1>2, <1>6 DEF Kept, Content
<1> QED BY <1>3, <1>5, <1>7 DEF Kept

\* A step of the audio task that reads nothing new.
LEMMA KeptBacklog ==
  ASSUME UNCHANGED <<evts, owner, rest>>
  PROVE  Backlog' = Backlog
<1>1. Announced' = Announced
  BY DEF Announced, Evt
<1> QED BY <1>1 DEF Backlog

LEMMA KeptReceive ==
  ASSUME Control, DataType, InStep, Kept, Receive
  PROVE  Kept'
<1>0. BaseType /\ hw.memory /\ owner # NULL
  BY OwnerAlive DEF Control, Receive
<1>1. /\ ring' = Stored(ring, RingSize, wr, Run(now, Chunk)) /\ now' = (now + Chunk) % Wrap
      /\ UNCHANGED <<scene, life, kind, tpc, rest, owner, hw, rd, buf, bufWr, bufRd, enc, sent>>
      /\ Noisy => ahead' = ahead - 1
      /\ hw.output => early' = early /\ late' = (late \/ Backlog + Chunk > Slack)
      /\ ~hw.output => early' = early + 1 /\ late' = late
  BY <1>0, Received DEF manager, task, buffer, Noisy
<1>2. /\ Here' = Here /\ BufSize' = BufSize /\ Noisy' = Noisy /\ Room' = Room /\ Slack' = Slack
      /\ InCall(Here)' = InCall(Here) /\ HasBuffer' = HasBuffer
  BY <1>1, SceneSame
<1>3. Frames'
  BY <1>1, <1>2, FramesSame DEF Kept
<1>4. Filled' = Filled /\ Coded' = Coded
  BY <1>1, <1>2 DEF Filled, Coded
<1>5. Backlog' = IF hw.output THEN Backlog + Chunk ELSE Backlog
  BY ReceiveBacklog
<1>6. /\ Filled \in Nat /\ Coded \in Nat /\ Backlog \in Nat /\ Chunk \in Nat \ {0} /\ sent \in Int
      /\ now \in Int /\ now % Wrap = now /\ Wrap \in Nat \ {0} /\ rd \in Int /\ RingSize \in Nat \ {0}
      /\ ring \in [0 .. RingSize - 1 -> Cell]
  BY <1>0, Amounts
<1>7. ~late' => ~late /\ Backlog' <= Slack
  <2>1. Slack \in Int /\ (~late => Backlog <= Slack)
    BY <1>0, SlackIs DEF Kept, Filling
  <2>2. CASE hw.output
    <3>1. ~late' => ~late /\ ~(Backlog + Chunk > Slack)
      BY <1>1, <2>2, Zenon
    <3> QED BY <1>5, <1>6, <2>1, <2>2, <3>1
  <2>3. CASE ~hw.output
    BY <1>1, <1>5, <2>1, <2>3
  <2> QED BY <2>2, <2>3
<1>9. ASSUME Noisy, ~late'
      PROVE  Filled + Backlog' + Chunk * (ahead' + early') = LoopSize \div 2
  <2>1. Filled + Backlog + Chunk * (ahead + early) = LoopSize \div 2
    BY <1>7, <1>9 DEF Kept, Filling
  <2>2. ahead \in Int /\ early \in Int
    BY <1>0 DEF BaseType
  <2>3. PICK x \in Int : x = ahead + early
    BY <2>2
  <2>4. CASE hw.output
    <3>1. ahead' + early' = x - 1 /\ Backlog' = Backlog + Chunk
      BY <1>1, <1>5, <1>9, <2>2, <2>3, <2>4
    <3>2. Chunk * (x - 1) = Chunk * x - Chunk /\ Chunk * x \in Int
      BY <1>6, <2>3
    <3> QED BY <1>6, <2>1, <2>3, <3>1, <3>2
  <2>5. CASE ~hw.output
    <3>1. ahead' + early' = x /\ Backlog' = Backlog
      BY <1>1, <1>5, <1>9, <2>2, <2>3, <2>5
    <3> QED BY <2>1, <2>3, <3>1
  <2> QED BY <2>4, <2>5
<1>10. Filling'
  BY <1>0, <1>1, <1>2, <1>4, <1>7, <1>9 DEF Kept, Filling
<1>11. ASSUME hw.output, ~late'
       PROVE  /\ Holds(ring', RingSize, rd, Backlog + Chunk, sent + Coded + Filled, Noisy)
              /\ (sent + Coded + Filled + (Backlog + Chunk)) % Wrap = now'
  <2>1. /\ Holds(ring, RingSize, rd, Backlog, sent + Coded + Filled, Noisy)
        /\ (sent + Coded + Filled + Backlog) % Wrap = now
    BY <1>7, <1>11 DEF Kept, Content
  <2>2. PICK a \in Int : a = sent + Coded + Filled
    BY <1>6
  <2>3. PICK z \in Int : z = a + Backlog
    BY <1>6
  <2>4. z % Wrap = now /\ z % Wrap = now % Wrap
    BY <1>6, <2>1, <2>2, <2>3
  <2>5. Run(now, Chunk) \in Samples /\ Len(Run(now, Chunk)) = Chunk /\ Numbered(Run(now, Chunk), now, Noisy)
    BY <1>6, RunIsSamples, RunIsNumbered
  <2>6. Numbered(Run(now, Chunk), z, Noisy)
    BY <1>6, <2>4, <2>5, NumberedFrom
  <2>7. wr = (rd + Backlog) % RingSize
    BY <1>0, <1>11, WriterIsAhead
  <2>8. Backlog + Chunk <= RingSize
    <3>1. Slack \in Int /\ Slack <= RingSize /\ Backlog' <= Slack
      BY <1>7, <1>11, SlackIs
    <3> QED BY <1>5, <1>6, <1>11, <3>1
  <2>9. Holds(Stored(ring, RingSize, wr, Run(now, Chunk)), RingSize, rd,
              Backlog + Len(Run(now, Chunk)), a, Noisy)
    BY <1>6, <2>1, <2>2, <2>3, <2>5, <2>6, <2>7, <2>8, HoldsStored
  <2>10. (z + Chunk) % Wrap = (now + Chunk) % Wrap
    <3>1. /\ Chunk \in Int /\ now \in Int /\ z \in Int /\ Wrap \in Nat \ {0}
          /\ z % Wrap = now % Wrap
      BY <1>6, <2>4
    <3> QED BY <3>1, ModMoved
  <2>11. z + Chunk = sent + Coded + Filled + (Backlog + Chunk)
    BY <1>6, <2>2, <2>3
  <2> QED BY <1>1, <2>2, <2>5, <2>9, <2>10, <2>11
<1>12. Content'
  BY <1>1, <1>2, <1>4, <1>5, <1>7, <1>11 DEF Kept, Content
<1> QED BY <1>3, <1>10, <1>12 DEF Kept

LEMMA KeptTransmit ==
  ASSUME Control, DataType, InStep, Prompt, Kept, Transmit
  PROVE  Kept'
<1>0. BaseType /\ owner # NULL /\ Noisy /\ Here = "loopback" /\ ahead \in -1 .. 0
  BY OwnerAlive DEF Control, Transmit, BaseType, Noisy
<1>1. /\ bufRd' = (IF LoopSize - bufRd > Chunk THEN bufRd + Chunk ELSE 0)
      /\ sent' = (sent + Chunk) % Wrap /\ ahead' = ahead + 1
      /\ UNCHANGED <<kind, tpc, evts, rest, owner, hw, rd, ring, buf, bufWr, enc, now, early, late>>
  BY DEF Transmit, manager, task, hardware
<1>2. /\ Here' = Here /\ BufSize' = BufSize /\ Noisy' = Noisy /\ Room' = Room /\ Slack' = Slack
      /\ InCall(Here)' = InCall(Here) /\ HasBuffer' = HasBuffer
  BY <1>1, SceneSame
<1>3. Frames'
  BY <1>1, <1>2, FramesSame DEF Kept
<1>4. Coded' = Coded /\ Backlog' = Backlog /\ Coded = 0 /\ Body(enc) = <<>>
  BY <1>0, <1>1, KeptBacklog, BetweenFrames DEF Coded, Kept, InCall
<1>5. /\ Filled \in Nat /\ Coded \in Nat /\ Backlog \in Nat /\ Chunk \in Nat \ {0} /\ sent \in Int
      /\ now \in Int /\ now % Wrap = now /\ Wrap \in Nat \ {0} /\ bufRd \in Int
      /\ BufSize \in Nat \ {0} /\ HasBuffer /\ ~InCall(Here) /\ BufSize = LoopSize
      /\ early \in 0 .. MaxEarly /\ Room = LoopSize /\ Filled < BufSize
      /\ bufRd \in 0 .. BufSize - 1 /\ bufWr \in 0 .. BufSize - 1
  BY <1>0, Amounts, FillNumbers DEF BaseType, HasBuffer, InCall, BufSize, Room
\* What is played next is there.
<1>6. ~late => Chunk <= Filled
  <2> SUFFICES ASSUME ~late PROVE Chunk <= Filled
    OBVIOUS
  <2>1. Filled + Backlog + Chunk * (ahead + early) = LoopSize \div 2 /\ Backlog <= Slack
    BY <1>0 DEF Kept, Filling
  <2>2. /\ Slack \in Int /\ Slack <= LoopSize \div 2 - (Chunk * MaxEarly + Chunk)
        /\ LoopSize \div 2 \in Int /\ MaxEarly \in Nat
    BY <1>0, SlackIs, Sizes
  <2>3. PICK d \in Nat : d = MaxEarly - (ahead + early)
    BY <1>0, <1>5, <2>2
  <2>4. ahead + early = MaxEarly - d /\ Chunk * (MaxEarly - d) = Chunk * MaxEarly - Chunk * d
        /\ Chunk * d \in Nat /\ Chunk * MaxEarly \in Nat
    BY <1>0, <1>5, <2>2, <2>3
  <2> QED BY <1>5, <2>1, <2>2, <2>4
<1>7. PICK k \in Nat : bufRd = Chunk * k
  BY <1>0 DEF Kept, Filling
<1>8. PICK m \in Nat \ {0} : LoopSize = 2 * (Chunk * m) /\ Chunk * m \in Nat
  BY Halves
<1>9. (\E j \in Nat : bufRd' = Chunk * j) /\ bufRd' = (bufRd + Chunk) % BufSize
  <2>1. LoopSize - bufRd = Chunk * (2 * m - k) /\ 2 * m - k \in Int
    BY <1>5, <1>7, <1>8
  <2>2. 2 * m - k >= 1
    <3>1. CASE 2 * m - k <= 0
      <4>1. Chunk * (0 - (2 * m - k)) \in Nat /\ Chunk * (0 - (2 * m - k)) = 0 - Chunk * (2 * m - k)
        BY <1>5, <2>1, <3>1
      <4> QED BY <1>5, <2>1, <4>1
    <3> QED BY <2>1, <3>1
  <2>3. CASE LoopSize - bufRd > Chunk
    <3>1. bufRd' = bufRd + Chunk /\ bufRd + Chunk \in 0 .. BufSize - 1
      BY <1>1, <1>5, <2>3
    <3>2. bufRd + Chunk = Chunk * (k + 1) /\ k + 1 \in Nat
      BY <1>5, <1>7
    <3>3. (bufRd + Chunk) % BufSize = bufRd + Chunk
      BY <1>5, <3>1, ModSmall
    <3> QED BY <3>1, <3>2, <3>3
  <2>4. CASE ~(LoopSize - bufRd > Chunk)
    <3>1. Chunk * (2 * m - k) >= Chunk
      BY <1>5, <2>1, <2>2
    <3>2. bufRd + Chunk = BufSize /\ bufRd' = 0
      BY <1>1, <1>5, <2>1, <2>4, <3>1
    <3>3. BufSize % BufSize = 0 /\ Chunk * 0 = 0
      BY <1>5
    <3> QED BY <3>2, <3>3
  <2> QED BY <2>3, <2>4
<1>10. Chunk <= Filled => Filled' = Filled - Chunk
  <2> SUFFICES ASSUME Chunk <= Filled PROVE Filled' = Filled - Chunk
    OBVIOUS
  <2>1. Chunk <= (bufWr - bufRd) % BufSize /\ Chunk \in Nat
    BY <1>5 DEF Filled
  <2>2. (bufWr - ((bufRd + Chunk) % BufSize)) % BufSize = ((bufWr - bufRd) % BufSize) - Chunk
    BY <1>5, <2>1, AroundTheBuffer
  <2>3. Filled' = (bufWr' - bufRd') % BufSize'
    BY DEF Filled
  <2>4. Filled' = (bufWr - ((bufRd + Chunk) % BufSize)) % BufSize
    BY <1>1, <1>2, <1>9, <2>3
  <2> QED BY <2>2, <2>4 DEF Filled
<1>11. ASSUME ~late
       PROVE  Filled' + Backlog + Chunk * (ahead' + early) = LoopSize \div 2
  <2>1. Filled + Backlog + Chunk * (ahead + early) = LoopSize \div 2
    BY <1>0, <1>11 DEF Kept, Filling
  <2>2. PICK x \in Int : x = ahead + early
    BY <1>0, <1>5
  <2>3. ahead' + early = x + 1 /\ Chunk * (x + 1) = Chunk * x + Chunk /\ Chunk * x \in Int
    BY <1>0, <1>1, <1>5, <2>2
  <2> QED BY <1>5, <1>6, <1>10, <1>11, <2>1, <2>2, <2>3
<1>12. Filling'
  BY <1>0, <1>1, <1>2, <1>4, <1>5, <1>9, <1>11 DEF Kept, Filling
<1>13. ASSUME hw.output, ~late
       PROVE  /\ Coded + Filled' <= Room
              /\ Numbered(Body(enc), sent', Noisy)
              /\ Holds(buf, BufSize, bufRd', Filled', sent' + Coded, Noisy)
              /\ Holds(ring, RingSize, rd, Backlog, sent' + Coded + Filled', Noisy)
              /\ (sent' + Coded + Filled' + Backlog) % Wrap = now
  <2>1. /\ Holds(buf, BufSize, bufRd, Filled, sent + Coded, Noisy)
        /\ Holds(ring, RingSize, rd, Backlog, sent + Coded + Filled, Noisy)
        /\ (sent + Coded + Filled + Backlog) % Wrap = now
    BY <1>13 DEF Kept, Content
  <2>2. PICK f \in Nat : f = Filled - Chunk /\ Filled' = f
    BY <1>5, <1>6, <1>10, <1>13
  <2>3. sent' \in Int /\ \A y \in Int : (sent' + y) % Wrap = (sent + Chunk + y) % Wrap
    <3>1. Chunk \in Int /\ sent \in Int
      BY <1>5
    <3>2. (sent + Chunk) % Wrap \in Int
      <4>1. 0 \in Int
        OBVIOUS
      <4> QED BY <3>1, <4>1, SentMoves
    <3>3. ASSUME NEW y \in Int
          PROVE  (((sent + Chunk) % Wrap) + y) % Wrap = (sent + Chunk + y) % Wrap
      BY <3>1, SentMoves
    <3> QED BY <1>1, <3>2, <3>3
  <2>4. Coded + Filled' <= Room
    BY <1>4, <1>5, <2>2
  <2>5. Numbered(Body(enc), sent', Noisy)
    BY <1>4 DEF Numbered
  <2>6. Holds(buf, BufSize, bufRd', Filled', sent' + Coded, Noisy)
    <3>1. PICK a \in Int : a = sent + Coded
      BY <1>5
    <3>2. Chunk \in 0 .. Filled
      BY <1>5, <1>6, <1>13
    <3>3. Holds(buf, BufSize, (bufRd + Chunk) % BufSize, Filled - Chunk, a + Chunk, Noisy)
      BY <1>5, <2>1, <3>1, <3>2, HoldsDrop
    <3>4. a + Chunk = sent + Chunk + 0 /\ sent' + Coded = sent' + 0 /\ a + Chunk \in Int /\ sent' + Coded \in Int
      BY <1>4, <1>5, <2>3, <3>1
    <3>5. (a + Chunk) % Wrap = (sent' + Coded) % Wrap
      BY <2>3, <3>4
    <3> QED BY <1>9, <2>2, <3>3, <3>4, <3>5, HoldsFrom
  <2>7. Holds(ring, RingSize, rd, Backlog, sent' + Coded + Filled', Noisy)
    <3>1. /\ sent + Coded + Filled = sent + Chunk + f /\ sent' + Coded + Filled' = sent' + f
          /\ sent + Chunk + f \in Int /\ sent' + f \in Int
      <4>1. sent' \in Int
        BY <2>3
      <4> QED BY <1>4, <1>5, <2>2, <4>1
    <3>2. (sent + Chunk + f) % Wrap = (sent' + f) % Wrap
      BY <2>2, <2>3
    <3>3. Holds(ring, RingSize, rd, Backlog, sent + Chunk + f, Noisy)
      BY <2>1, <3>1
    <3>4. Holds(ring, RingSize, rd, Backlog, sent' + f, Noisy)
      BY <1>5, <3>1, <3>2, <3>3, HoldsFrom
    <3> QED BY <3>1, <3>4
  <2>8. (sent' + Coded + Filled' + Backlog) % Wrap = now
    <3>1. PICK y \in Int : y = f + Backlog
      BY <1>5
    <3>2. /\ sent + Coded + Filled + Backlog = sent + Chunk + y
          /\ sent' + Coded + Filled' + Backlog = sent' + y
      BY <1>4, <1>5, <2>2, <2>3, <3>1
    <3> QED BY <2>1, <2>3, <3>2
  <2> QED BY <2>4, <2>5, <2>6, <2>7, <2>8
<1>14. Content'
  BY <1>1, <1>2, <1>4, <1>13 DEF Kept, Content
<1> QED BY <1>3, <1>12, <1>14 DEF Kept

-----------------------------------------------------------------------------
\* The steps that start and stop a scene.

LEMMA NewEncoderIsEmpty ==
  /\ NewEncoder.list = <<>> /\ NewEncoder.tmp = <<>> /\ NewEncoder.codec = <<>>
  /\ Body(NewEncoder) = <<>>
<1>1. /\ NewEncoder.list = <<>> /\ NewEncoder.tmp = <<>> /\ NewEncoder.codec = <<>>
  BY DEF NewEncoder
<1> QED BY <1>1, FlatEmpty, SamplesClosed, SamplesEmpty DEF Body, Out

LEMMA FramesNew ==
  ASSUME enc' = NewEncoder, tpc' # "report"
  PROVE  Frames'
<1>1. Len(<<>>) = 0 /\ 0 <= FrameMax
  BY SamplesClosed, Sizes
<1> QED BY <1>1, NewEncoderIsEmpty DEF Frames, Framed

\* An empty queue announces nothing.
LEMMA NothingAnnounced ==
  ASSUME evts' = <<>>, rest' = 0
  PROVE  Backlog' = 0
<1>1. Announced' = {}
  BY DEF Announced
<1>2. Cardinality(Announced') = 0
  BY <1>1, FS_EmptySet
<1> QED BY <1>2, Sizes DEF Backlog

LEMMA KeptInitScene ==
  ASSUME Roomy, Control, DataType, Kept, InitScene
  PROVE  Kept'
<1> DEFINE k == kind[cur.scene]
           size == IF InCall(k) THEN AlgoFrame * AdcFrames ELSE LoopSize
<1>0. BaseType /\ Creating(cur.scene) /\ evts = <<>> /\ tpc = "init" /\ rest = 0
  BY DEF Control, InitScene, TaskAt, Stages, BaseType
<1>1. owner = NULL /\ ~hw.output /\ cur.scene # NULL /\ cur.scene \in Addrs /\ k \in Kinds
  <2>1. owner = NULL /\ ~hw.output /\ cur.scene # NULL /\ life[cur.scene] = "allocated"
    BY <1>0 DEF Creating, Fresh, Silent
  <2>2. cur.scene \in Addrs
    BY <1>0, <2>1, Addresses
  <2> QED BY <2>1, <2>2 DEF DataType
<1>2. /\ owner' = cur.scene /\ bufWr' = 0 /\ enc' = NewEncoder /\ tpc' = "start_hw"
      /\ buf' = (IF k \in {"recorder", "voice"} THEN <<>> ELSE [c \in 0 .. size - 1 |-> Noise])
      /\ bufRd' = (IF k = "loopback" THEN LoopSize \div 2 ELSE 0)
      /\ evts' = <<>> /\ rest' = 0
      /\ UNCHANGED <<kind, hw, ring, rd, now, sent, ahead, early, late>>
  BY <1>0 DEF InitScene, manager, clock
<1>3. Here' = k
  BY <1>1, <1>2 DEF Here
<1>4. Frames'
  BY <1>2, FramesNew
<1>5. Backlog' = 0
  BY <1>2, NothingAnnounced
<1>6. ahead = 0 /\ early = 0
  BY <1>1 DEF Kept, Filling
<1>7. Noisy' => (\E j \in Nat : bufRd' = Chunk * j) /\ Filled' = LoopSize \div 2
  <2> SUFFICES ASSUME k = "loopback"
               PROVE  (\E j \in Nat : bufRd' = Chunk * j) /\ Filled' = LoopSize \div 2
    BY <1>3 DEF Noisy
  <2>1. PICK m \in Nat \ {0} : /\ LoopSize = 2 * (Chunk * m) /\ LoopSize \div 2 = Chunk * m
                               /\ Chunk * m \in Nat
    BY Halves
  <2>2. PICK x \in Nat : x = Chunk * m
    BY <2>1
  <2>3. BufSize' = LoopSize /\ bufRd' = x /\ LoopSize = 2 * x /\ x > 0
    BY <1>2, <1>3, <2>1, <2>2, Sizes DEF BufSize, InCall
  <2>4. (0 - x) % (2 * x) = x
    <3>1. PICK y \in Nat \ {0} : y = 2 * x
      BY <2>3
    <3>2. PICK z \in Int : z = 0 - x
      OBVIOUS
    <3>3. z >= 0 - y /\ z < 2 * y /\ z < 0
      BY <2>3, <3>1, <3>2
    <3>4. z % y = z + y
      BY <3>3, ModStep
    <3> QED BY <3>1, <3>2, <3>4
  <2>5. Filled' = (0 - x) % (2 * x)
    BY <1>2, <2>3 DEF Filled
  <2> QED BY <2>1, <2>2, <2>3, <2>4, <2>5
<1>8. Backlog' <= Slack'
  <2>1. RingSize \in Nat
    BY Sizes
  <2>2. CASE k = "loopback"
    <3>1. Slack' = Min({RingSize, LoopSize \div 2 - Chunk * (MaxEarly + 1)})
      BY <1>3, <2>2 DEF Slack
    <3>2. Chunk * (MaxEarly + 1) <= LoopSize \div 2
      BY <1>1, <2>2 DEF Roomy
    <3> QED BY <1>5, <3>1, <3>2, LoopSlack
  <2>3. CASE k # "loopback"
    BY <1>3, <1>5, <2>1, <2>3 DEF Slack
  <2> QED BY <2>2, <2>3
<1>9. Noisy' => Filled' + Backlog' + Chunk * (ahead' + early') = LoopSize \div 2
  <2>1. Chunk * (0 + 0) = 0 /\ LoopSize \div 2 \in Int
    BY Sizes
  <2> QED BY <1>2, <1>5, <1>6, <1>7, <2>1
<1>10. \A c \in DOMAIN buf' : buf'[c] = Noise
  BY <1>2
<1>11. ~HasBuffer' => bufWr' = 0 /\ bufRd' = 0
  BY <1>2, <1>3 DEF HasBuffer
<1>12. InCall(Here') => bufWr' = 0 /\ bufRd' = 0
  BY <1>2, <1>3 DEF InCall
<1>13. Filling'
  BY <1>1, <1>2, <1>7, <1>8, <1>9, <1>10, <1>11, <1>12 DEF Filling
<1>14. Content'
  BY <1>1, <1>2 DEF Content
<1> QED BY <1>4, <1>13, <1>14 DEF Kept

LEMMA KeptOutputAdd ==
  ASSUME Control, DataType, Kept, HwOutputAdd
  PROVE  Kept'
<1>0. BaseType /\ evts = <<>> /\ rest = 0 /\ tpc = "add_output" /\ ~hw.output /\ owner # NULL
  BY DEF Control, HwOutputAdd, TaskAt, Stages, Starting, Owned, BaseType
<1>1. /\ rd' = wr /\ sent' = (now - Filled) % Wrap /\ tpc' = "wait" /\ evts' = <<>> /\ rest' = 0
      /\ UNCHANGED <<kind, owner, ring, buf, bufWr, bufRd, enc, now, ahead, early, late>>
  BY <1>0 DEF HwOutputAdd, buffer
<1>2. /\ Here' = Here /\ BufSize' = BufSize /\ Noisy' = Noisy /\ Room' = Room /\ Slack' = Slack
      /\ InCall(Here)' = InCall(Here) /\ HasBuffer' = HasBuffer
  BY <1>1, SceneSame
<1>3. Frames'
  BY <1>1, <1>2, FramesSame DEF Kept
<1>4. Backlog' = 0 /\ Backlog = 0
  <2>1. Backlog' = Backlog
    BY <1>0, <1>1, KeptBacklog
  <2> QED BY <1>1, <2>1, NothingAnnounced
<1>5. Filled' = Filled /\ Coded' = Coded
  BY <1>1, <1>2 DEF Filled, Coded
<1>6. /\ enc = NewEncoder /\ \A c \in DOMAIN buf : buf[c] = Noise
      /\ InCall(Here) => bufWr = 0 /\ bufRd = 0
      /\ ~HasBuffer => bufWr = 0 /\ bufRd = 0
  BY <1>0 DEF Kept, Filling
<1>7. Body(enc) = <<>> /\ Coded = 0
  BY <1>6, NewEncoderIsEmpty, SamplesClosed DEF Coded
<1>8. /\ Filled \in Nat /\ sent \in Int /\ now \in Int /\ now % Wrap = now /\ Wrap \in Nat \ {0}
      /\ BufSize \in Nat \ {0} /\ Filled < BufSize /\ bufRd \in Int
      /\ HasBuffer => buf \in [0 .. BufSize - 1 -> Cell]
  BY <1>0, Amounts
<1>9. ~Noisy => Filled = 0
  <2>1. (0 - 0) % BufSize = 0
    BY <1>8
  <2> QED BY <1>6, <2>1 DEF Noisy, HasBuffer, Filled
<1>10. Filling'
  BY <1>1, <1>2, <1>4, <1>5, <1>6 DEF Kept, Filling
<1>11. 0 + Filled <= Room
  <2>1. InCall(Here) => ~Noisy
    BY DEF InCall, Noisy
  <2>2. Noisy => BufSize = LoopSize /\ Room = LoopSize
    BY <2>1 DEF BufSize, Room
  <2>3. Room \in Nat
    BY <1>8, Sizes DEF Room
  <2> QED BY <1>8, <1>9, <2>2, <2>3
<1>12. Numbered(<<>>, sent', Noisy)
  BY DEF Numbered
<1>13. Holds(buf, BufSize, bufRd, Filled, sent' + 0, Noisy)
  <2>1. CASE ~Noisy
    BY <1>9, <2>1 DEF Holds
  <2>2. CASE Noisy
    <3>1. ASSUME NEW j \in 0 .. Filled - 1
          PROVE  buf[(bufRd + j) % BufSize] = Noise
      <4>1. bufRd + j \in Int
        BY <1>8
      <4>2. (bufRd + j) % BufSize \in 0 .. BufSize - 1
        BY <1>8, <4>1, ModRange
      <4>3. HasBuffer
        BY <2>2 DEF Noisy, HasBuffer
      <4> QED BY <1>6, <1>8, <4>2, <4>3
    <3> QED BY <2>2, <3>1 DEF Holds
  <2> QED BY <2>1, <2>2
<1>14. Holds(ring, RingSize, rd', 0, sent' + 0 + Filled, Noisy)
  BY DEF Holds
<1>15. (sent' + 0 + Filled + 0) % Wrap = now
  <2>1. PICK x \in Int : x = now - Filled
    BY <1>8
  <2>2. ((x % Wrap) + Filled) % Wrap = (x + Filled) % Wrap /\ x % Wrap \in Int
    <3>1. Filled \in Int /\ Wrap \in Nat \ {0}
      BY <1>8
    <3>2. x % Wrap \in 0 .. Wrap - 1
      BY <3>1, ModRange
    <3>3. ((x % Wrap) + Filled) % Wrap = (x + Filled) % Wrap
      BY <3>1, ModPlus
    <3> QED BY <3>1, <3>2, <3>3
  <2>3. x + Filled = now /\ sent' = x % Wrap
    BY <1>1, <1>8, <2>1
  <2>4. sent' + 0 + Filled + 0 = (x % Wrap) + Filled
    BY <1>8, <2>2, <2>3
  <2> QED BY <1>8, <2>2, <2>3, <2>4
<1>16. Content'
  BY <1>1, <1>2, <1>4, <1>5, <1>7, <1>11, <1>12, <1>13, <1>14, <1>15 DEF Content
<1> QED BY <1>3, <1>10, <1>16 DEF Kept

LEMMA KeptFree ==
  ASSUME Control, FreeScene
  PROVE  Kept'
<1>1. /\ owner' = NULL /\ tpc' = "wait" /\ buf' = <<>> /\ bufWr' = 0 /\ bufRd' = 0
      /\ enc' = NewEncoder /\ ahead' = 0 /\ early' = 0 /\ hw' = [hw EXCEPT !.memory = FALSE, !.output = FALSE]
  BY DEF FreeScene
<1>2. ~hw'.output
  BY <1>1 DEF Control, BaseType
<1>3. Frames'
  BY <1>1, FramesNew
<1>4. Here' = "none" /\ ~Noisy' /\ ~InCall(Here') /\ DOMAIN buf' = {}
  BY <1>1 DEF Here, Noisy, InCall
<1>5. Filling'
  BY <1>1, <1>4 DEF Filling
<1>6. Content'
  BY <1>2 DEF Content
<1> QED BY <1>3, <1>5, <1>6 DEF Kept

LEMMA KeptInit == Init => Kept
<1> SUFFICES ASSUME Init PROVE Kept
  OBVIOUS
<1>1. /\ owner = NULL /\ tpc = "wait" /\ buf = <<>> /\ bufWr = 0 /\ bufRd = 0
      /\ enc = NewEncoder /\ ahead = 0 /\ early = 0 /\ ~hw.output
  BY DEF Init
<1>2. Here = "none" /\ ~Noisy /\ ~InCall(Here) /\ DOMAIN buf = {}
  BY <1>1 DEF Here, Noisy, InCall
<1>3. Len(<<>>) = 0 /\ 0 <= FrameMax
  BY SamplesClosed, Sizes
<1>4. Frames
  BY <1>1, <1>3, NewEncoderIsEmpty DEF Frames, Framed
<1>5. Filling
  BY <1>1, <1>2 DEF Filling
<1>6. Content
  BY <1>1 DEF Content
<1> QED BY <1>4, <1>5, <1>6 DEF Kept

-----------------------------------------------------------------------------
\* The steps that read, encode and report.

LEMMA ReaderPlays ==
  ASSUME Control, tpc \in {"read", "launch", "report"}
  PROVE  owner # NULL /\ hw.output
BY DEF Control, Stages, Playing, On, Owned

\* The samples that are read are the ones the interrupt stored first.
LEMMA ReadRing ==
  ASSUME BaseType, DataType, NEW n \in 0 .. Chunk, n <= Backlog, NEW a \in Int,
         Holds(ring, RingSize, rd, Backlog, a, Noisy)
  PROVE  /\ Cells(ring, RingSize, rd, n) \in Samples /\ Len(Cells(ring, RingSize, rd, n)) = n
         /\ Numbered(Cells(ring, RingSize, rd, n), a, Noisy)
         /\ Holds(ring, RingSize, AfterRead(n), Backlog - n, a + n, Noisy)
<1>1. /\ RingSize \in Nat \ {0} /\ rd \in Int /\ Backlog \in Nat
      /\ ring \in [0 .. RingSize - 1 -> Cell] /\ n \in Nat /\ n \in 0 .. Backlog
  BY Amounts
<1>2. Cells(ring, RingSize, rd, n) \in Samples /\ Len(Cells(ring, RingSize, rd, n)) = n
  BY <1>1, CellsAreSamples
<1>3. Numbered(Cells(ring, RingSize, rd, n), a, Noisy)
  BY <1>1, HoldsCells
<1>4. Holds(ring, RingSize, (rd + n) % RingSize, Backlog - n, a + n, Noisy)
  BY <1>1, HoldsDrop
<1> QED BY <1>2, <1>3, <1>4, ReadIsMod

LEMMA KeptReadToBuffer ==
  ASSUME Control, DataType, InStep, Prompt, Kept, ReadToBuffer
  PROVE  Kept'
<1>0. BaseType /\ tpc = "read" /\ owner # NULL /\ hw.output /\ HasBuffer /\ Here \notin {"recorder", "voice"}
  BY ReaderPlays, HereWhileReading DEF Control, ReadToBuffer, TaskAt
<1>1. PICK n : /\ n = Min({rest, BufSize - bufWr})
               /\ buf' = Stored(buf, BufSize, bufWr, Cells(ring, RingSize, rd, n))
               /\ bufWr' = (bufWr + n) % BufSize /\ rd' = AfterRead(n) /\ rest' = rest - n
               /\ tpc' = IF rest > n THEN "read" ELSE IF InCall(Here) THEN "launch" ELSE "wait"
  BY DEF ReadToBuffer
<1>2. UNCHANGED <<kind, evts, owner, hw, ring, bufRd, enc, sent, now, ahead, early, late>>
  BY DEF ReadToBuffer, manager, clock
<1>3. /\ Here' = Here /\ BufSize' = BufSize /\ Noisy' = Noisy /\ Room' = Room /\ Slack' = Slack
      /\ InCall(Here)' = InCall(Here) /\ HasBuffer' = HasBuffer
  BY <1>2, SceneSame
<1>4. Frames'
  BY <1>1, <1>2, <1>3, FramesSame DEF Kept
<1>5. n \in 0 .. rest /\ n \in 0 .. Chunk
  BY <1>0, <1>1, CopyFits
<1>6. /\ Filled \in Nat /\ Coded \in Nat /\ Backlog \in Nat /\ Chunk \in Nat \ {0} /\ sent \in Int
      /\ rest \in Nat /\ BufSize \in Nat \ {0} /\ Filled < BufSize
      /\ bufRd \in Int /\ bufWr = (bufRd + Filled) % BufSize
      /\ buf \in [0 .. BufSize - 1 -> Cell] /\ Body(enc) \in Samples
  BY <1>0, Amounts
<1>7. Backlog' = Backlog - n /\ n <= Backlog /\ n \in Nat /\ n <= rest
  <2>1. n <= rest /\ n \in Nat
    BY <1>5, <1>6
  <2> QED BY <1>0, <1>1, <1>2, <1>5, <2>1, ReadBacklog
\* What is read finds room behind what the buffer holds.
<1>8. ~late => Filled + n < BufSize
  <2> SUFFICES ASSUME ~late PROVE Filled + n < BufSize
    OBVIOUS
  <2>1. CASE InCall(Here)
    <3>1. Filled + rest < AlgoFrame + Chunk /\ AlgoFrame + Chunk < BufSize /\ AlgoFrame \in Nat
      BY <1>0, <2>1, FillNumbers DEF Prompt, Due
    <3> QED BY <1>6, <1>7, <3>1
  <2>2. CASE ~InCall(Here)
    <3>1. Noisy /\ BufSize = LoopSize
      BY <1>0, <2>2 DEF HasBuffer, Noisy, BufSize
    <3>2. Filled + Backlog + Chunk * (ahead + early) = LoopSize \div 2 /\ Backlog <= Slack
      BY <1>0, <3>1 DEF Kept, Filling
    <3>3. PICK m \in Nat \ {0} : /\ LoopSize = 2 * (Chunk * m) /\ LoopSize \div 2 = Chunk * m
                                 /\ Chunk * m \in Nat
      BY Halves
    <3>4. PICK x \in Nat : x = Chunk * m
      BY <3>3
    <3>5. LoopSize = 2 * x /\ LoopSize \div 2 = x
      BY <3>3, <3>4
    <3>6. PICK d \in Nat : d = ahead + early + 1
      <4>1. ahead \in -1 .. 1 /\ early \in Nat
        BY <1>0, Sizes DEF BaseType
      <4> QED BY <4>1
    <3>7. /\ ahead + early = d - 1 /\ Chunk * (d - 1) = Chunk * d - Chunk /\ Chunk * d \in Nat
      <4>1. ahead \in Int /\ early \in Int
        BY <1>0 DEF BaseType
      <4> QED BY <1>6, <3>6, <4>1
    <3>8. Slack \in Int /\ Slack <= x - (Chunk * MaxEarly + Chunk) /\ Chunk * MaxEarly \in Nat
      <4>1. Chunk * MaxEarly \in Nat
        BY Sizes
      <4> QED BY <3>1, <3>5, <4>1, SlackIs
    <3>9. Filled + Backlog <= x + Chunk
      BY <1>6, <3>2, <3>5, <3>7
    <3>10. CASE n = 0
      BY <1>6, <3>10
    <3>11. CASE n # 0
      BY <1>6, <1>7, <3>1, <3>2, <3>5, <3>8, <3>9, <3>11
    <3> QED BY <3>10, <3>11
  <2> QED BY <2>1, <2>2
<1>9. ~late => Filled' = Filled + n
  <2> SUFFICES ASSUME ~late PROVE Filled' = Filled + n
    OBVIOUS
  <2>1. Filled + n < BufSize
    BY <1>8
  <2>2. bufWr \in 0 .. BufSize - 1 /\ bufRd \in 0 .. BufSize - 1 /\ BufSize \in Nat \ {0} /\ n \in Nat
    BY <1>0, <1>7, FillNumbers
  <2>3. (((bufWr + n) % BufSize) - bufRd) % BufSize = ((bufWr - bufRd) % BufSize) + n
    BY <2>1, <2>2, AroundTheBuffer DEF Filled
  <2>4. Filled' = (bufWr' - bufRd') % BufSize'
    BY DEF Filled
  <2> QED BY <1>1, <1>2, <1>3, <2>3, <2>4 DEF Filled
<1>10. ~late => Backlog' <= Slack
  <2>1. Slack \in Int /\ (~late => Backlog <= Slack)
    BY <1>0, SlackIs DEF Kept, Filling
  <2> QED BY <1>6, <1>7, <2>1
<1>11. Noisy /\ ~late => Filled' + Backlog' + Chunk * (ahead + early) = LoopSize \div 2
  <2> SUFFICES ASSUME Noisy, ~late
               PROVE  Filled' + Backlog' + Chunk * (ahead + early) = LoopSize \div 2
    OBVIOUS
  <2>1. Filled + Backlog + Chunk * (ahead + early) = LoopSize \div 2
    BY DEF Kept, Filling
  <2>2. Filled' + Backlog' = Filled + Backlog
    BY <1>6, <1>7, <1>9
  <2> QED BY <2>1, <2>2
<1>12. Filling'
  BY <1>0, <1>2, <1>3, <1>10, <1>11 DEF Kept, Filling
<1>13. Coded' = Coded
  BY <1>2 DEF Coded
<1>14. ASSUME ~late
       PROVE  /\ Coded + Filled' <= Room
              /\ Holds(buf', BufSize, bufRd, Filled', sent + Coded, Noisy)
              /\ Holds(ring, RingSize, rd', Backlog', sent + Coded + Filled', Noisy)
              /\ (sent + Coded + Filled' + Backlog') % Wrap = now
  <2>1. /\ Holds(buf, BufSize, bufRd, Filled, sent + Coded, Noisy)
        /\ Holds(ring, RingSize, rd, Backlog, sent + Coded + Filled, Noisy)
        /\ (sent + Coded + Filled + Backlog) % Wrap = now
    BY <1>0, <1>14 DEF Kept, Content
  <2>2. PICK a \in Int : a = sent + Coded
    BY <1>6
  <2>3. PICK b \in Int : b = a + Filled
    BY <1>6
  <2>4. Holds(ring, RingSize, rd, Backlog, b, Noisy) /\ Holds(buf, BufSize, bufRd, Filled, a, Noisy)
    BY <2>1, <2>2, <2>3
  <2> DEFINE data == Cells(ring, RingSize, rd, n)
  <2>5. /\ data \in Samples /\ Len(data) = n /\ Numbered(data, b, Noisy)
        /\ Holds(ring, RingSize, AfterRead(n), Backlog - n, b + n, Noisy)
    BY <1>0, <1>5, <1>7, <2>4, ReadRing
  <2>6. buf' = Stored(buf, BufSize, bufWr, data)
    BY <1>1
  <2> HIDE DEF data
  <2>7. Filled' = Filled + n /\ Filled + n < BufSize
    BY <1>8, <1>9, <1>14
  <2>8. Holds(buf', BufSize, bufRd, Filled', a, Noisy)
    <3>1. Filled + Len(data) <= BufSize /\ Numbered(data, a + Filled, Noisy)
      BY <1>6, <1>7, <2>3, <2>5, <2>7
    <3>2. Holds(Stored(buf, BufSize, bufWr, data), BufSize, bufRd, Filled + Len(data), a, Noisy)
      BY <1>6, <2>4, <2>5, <3>1, HoldsStored
    <3> QED BY <2>5, <2>6, <2>7, <3>2
  <2>9. sent + Coded + Filled' = b + n /\ sent + Coded + Filled' + Backlog' = sent + Coded + Filled + Backlog
    BY <1>6, <1>7, <2>2, <2>3, <2>7
  <2>10. Coded + Filled' <= Room
    <3>1. FrameMax \in Nat /\ Coded <= FrameMax /\ (~InCall(Here) => Coded = 0)
      BY <1>0, Sizes, BetweenFrames DEF Kept
    <3>2. Room = IF InCall(Here) THEN FrameMax + BufSize ELSE BufSize
      BY DEF Room, BufSize
    <3> QED BY <1>6, <1>7, <2>7, <3>1, <3>2
  <2> QED BY <1>1, <1>7, <2>1, <2>2, <2>5, <2>8, <2>9, <2>10
<1>15. ~late => Numbered(Body(enc), sent, Noisy)
  BY <1>0 DEF Kept, Content
<1>16. Content'
  BY <1>2, <1>3, <1>13, <1>14, <1>15 DEF Content
<1> QED BY <1>4, <1>12, <1>16 DEF Kept

\* A scene without a buffer reads all that its event announced.
LEMMA ReadAtOnce ==
  ASSUME Control, DataType, Kept, ReadAndEncode \/ ReadAndRecognize
  PROVE  /\ BaseType /\ tpc = "read" /\ owner # NULL /\ hw.output
         /\ ~HasBuffer /\ ~InCall(Here) /\ ~Noisy /\ Filled = 0 /\ Room = LoopSize
         /\ rd' = AfterRead(rest) /\ rest \in 0 .. Chunk /\ rest <= Backlog /\ Backlog' = Backlog - rest
         /\ UNCHANGED <<kind, evts, owner, hw, ring, buf, bufWr, bufRd, now, ahead, early, late>>
         /\ Filled' = 0 /\ (~late => Backlog' <= Slack)
         /\ Here' = Here /\ BufSize' = BufSize /\ Noisy' = Noisy /\ Room' = Room /\ Slack' = Slack
         /\ InCall(Here)' = InCall(Here) /\ HasBuffer' = HasBuffer
         /\ Chunk <= LoopSize
<1>1. /\ BaseType /\ tpc = "read" /\ owner # NULL /\ hw.output
      /\ Here \in {"recorder", "voice"} /\ rd' = AfterRead(rest) /\ rest' = 0
      /\ UNCHANGED <<kind, evts, owner, hw, ring, buf, bufWr, bufRd, now, ahead, early, late>>
  BY ReaderPlays DEF Control, ReadAndEncode, ReadAndRecognize, TaskAt, manager, buffer, clock
<1>2. ~HasBuffer /\ ~InCall(Here) /\ ~Noisy /\ Room = LoopSize
  BY <1>1 DEF HasBuffer, InCall, Noisy, Room
<1>3. /\ Here' = Here /\ BufSize' = BufSize /\ Noisy' = Noisy /\ Room' = Room /\ Slack' = Slack
      /\ InCall(Here)' = InCall(Here) /\ HasBuffer' = HasBuffer
  BY <1>1, SceneSame
<1>4. Filled = 0 /\ Filled' = 0
  <2>1. bufWr = 0 /\ bufRd = 0
    BY <1>2 DEF Kept, Filling
  <2>2. BufSize \in Nat \ {0} /\ (0 - 0) % BufSize = 0
    BY BufSizes
  <2> QED BY <1>1, <1>3, <2>1, <2>2 DEF Filled
<1>5. rest \in Nat /\ rest <= Chunk /\ Chunk \in Nat /\ Backlog \in Nat
  BY <1>1, Amounts
<1>6. rest \in 0 .. Chunk /\ rest <= rest /\ rest' = rest - rest
  BY <1>1, <1>5
<1>7. rest <= Backlog /\ Backlog' = Backlog - rest
  BY <1>1, <1>6, ReadBacklog
<1>8. ~late => Backlog' <= Slack
  <2>1. Slack \in Int /\ (~late => Backlog <= Slack)
    BY <1>1, SlackIs DEF Kept, Filling
  <2> QED BY <1>5, <1>7, <2>1
<1>9. Chunk <= LoopSize
  <2>1. PICK m \in Nat \ {0} : LoopSize = 2 * (Chunk * m) /\ Chunk * m \in Nat
    BY Halves
  <2>2. Chunk * m >= Chunk
    BY <1>5, <2>1
  <2> QED BY <1>5, <2>1, <2>2
<1> QED BY <1>1, <1>2, <1>3, <1>4, <1>6, <1>7, <1>8, <1>9

LEMMA KeptReadAndEncode ==
  ASSUME Control, DataType, InStep, Prompt, Kept, ReadAndEncode
  PROVE  Kept'
<1>0. /\ BaseType /\ tpc = "read" /\ owner # NULL /\ hw.output
      /\ ~HasBuffer /\ ~InCall(Here) /\ ~Noisy /\ Filled = 0 /\ Room = LoopSize
      /\ rd' = AfterRead(rest) /\ rest \in 0 .. Chunk /\ rest <= Backlog /\ Backlog' = Backlog - rest
      /\ UNCHANGED <<kind, evts, owner, hw, ring, buf, bufWr, bufRd, now, ahead, early, late>>
      /\ Filled' = 0 /\ (~late => Backlog' <= Slack)
      /\ Here' = Here /\ BufSize' = BufSize /\ Noisy' = Noisy /\ Room' = Room /\ Slack' = Slack
      /\ InCall(Here)' = InCall(Here) /\ HasBuffer' = HasBuffer
      /\ Chunk <= LoopSize
  BY ReadAtOnce
<1> DEFINE data == Cells(ring, RingSize, rd, rest)
<1>1. enc' = Save(enc, data) /\ tpc' = "report" /\ sent' = sent /\ Here = "recorder"
  BY DEF ReadAndEncode, clock
<1>2. /\ sent \in Int /\ Backlog \in Nat /\ Body(enc) = <<>> /\ Coded = 0 /\ rest \in Nat
      /\ LoopSize \in Nat
  BY <1>0, Amounts, BetweenFrames, Sizes DEF Kept
<1>3. data \in Samples /\ Len(data) = rest
  <2>1. RingSize \in Nat \ {0} /\ rd \in Int /\ ring \in [0 .. RingSize - 1 -> Cell]
    BY <1>0, Amounts
  <2> QED BY <1>2, <2>1, CellsAreSamples
<1> HIDE DEF data
<1>4. Recorder(enc') /\ Out(enc') = Out(enc) \o data /\ enc'.codec = enc.codec /\ enc' \in Encoders
  BY <1>1, <1>3, SaveType, SaveOut DEF DataType
<1>5. enc.codec = <<>> /\ enc.tmp = <<>> /\ Len(enc.codec) <= FrameMax
  BY <1>1 DEF Kept, Frames, Framed
<1>6. Out(enc) \in Samples /\ Out(enc') \in Samples
  BY <1>4, EncoderFields DEF DataType
<1>7. Body(enc') = data /\ Coded' = rest
  <2>1. Body(enc') = Out(enc') /\ Body(enc) = Out(enc)
    BY <1>4, <1>5, <1>6, SamplesEmpty DEF Body
  <2>2. Body(enc') = data
    BY <1>2, <1>3, <1>4, <2>1, SamplesEmpty
  <2> QED BY <1>3, <2>2 DEF Coded
<1>8. Frames'
  BY <1>0, <1>1, <1>4, <1>5 DEF Frames, Framed, Recorder
<1>9. Filling'
  BY <1>0 DEF Kept, Filling
<1>10. ASSUME ~late
       PROVE  /\ Numbered(data, sent, Noisy)
              /\ Holds(buf, BufSize, bufRd, 0, sent + rest, Noisy)
              /\ Holds(ring, RingSize, rd', Backlog - rest, sent + rest + 0, Noisy)
              /\ (sent + rest + 0 + (Backlog - rest)) % Wrap = now
              /\ rest + 0 <= Room
  <2>1. /\ Holds(ring, RingSize, rd, Backlog, sent + Coded + Filled, Noisy)
        /\ (sent + Coded + Filled + Backlog) % Wrap = now
    BY <1>0, <1>10 DEF Kept, Content
  <2>2. sent + Coded + Filled = sent /\ sent + rest + 0 = sent + rest
    BY <1>0, <1>2
  <2>3. Holds(ring, RingSize, rd, Backlog, sent, Noisy)
    BY <2>1, <2>2
  <2>4. Numbered(data, sent, Noisy) /\ Holds(ring, RingSize, AfterRead(rest), Backlog - rest, sent + rest, Noisy)
    BY <1>0, <1>2, <2>3, ReadRing DEF data
  <2>5. Holds(buf, BufSize, bufRd, 0, sent + rest, Noisy)
    BY DEF Holds
  <2>6. sent + rest + 0 + (Backlog - rest) = sent + Coded + Filled + Backlog /\ rest + 0 <= Room
    <3>1. rest + 0 <= Room
      BY <1>0, <1>2, Sizes
    <3>2. sent + rest + 0 + (Backlog - rest) = sent + Coded + Filled + Backlog
      BY <1>0, <1>2
    <3> QED BY <3>1, <3>2
  <2> QED BY <1>0, <2>1, <2>2, <2>4, <2>5, <2>6
<1>11. Content'
  BY <1>0, <1>1, <1>7, <1>10 DEF Content
<1> QED BY <1>8, <1>9, <1>11 DEF Kept

LEMMA KeptReadAndRecognize ==
  ASSUME Control, DataType, InStep, Prompt, Kept, ReadAndRecognize
  PROVE  Kept'
<1>0. /\ BaseType /\ tpc = "read" /\ owner # NULL /\ hw.output
      /\ ~HasBuffer /\ ~InCall(Here) /\ ~Noisy /\ Filled = 0 /\ Room = LoopSize
      /\ rd' = AfterRead(rest) /\ rest \in 0 .. Chunk /\ rest <= Backlog /\ Backlog' = Backlog - rest
      /\ UNCHANGED <<kind, evts, owner, hw, ring, buf, bufWr, bufRd, now, ahead, early, late>>
      /\ Filled' = 0 /\ (~late => Backlog' <= Slack)
      /\ Here' = Here /\ BufSize' = BufSize /\ Noisy' = Noisy /\ Room' = Room /\ Slack' = Slack
      /\ InCall(Here)' = InCall(Here) /\ HasBuffer' = HasBuffer
      /\ Chunk <= LoopSize
  BY ReadAtOnce
<1>1. enc' = enc /\ tpc' = "wait" /\ sent' = (sent + rest) % Wrap
  BY DEF ReadAndRecognize
<1>2. /\ sent \in Int /\ Backlog \in Nat /\ Body(enc) = <<>> /\ Coded = 0 /\ rest \in Nat
      /\ LoopSize \in Nat /\ Coded' = Coded
  BY <1>0, <1>1, Amounts, BetweenFrames, Sizes DEF Kept, Coded
<1>3. Frames'
  BY <1>0, <1>1, FramesSame DEF Kept
<1>4. Filling'
  BY <1>0 DEF Kept, Filling
<1>5. ASSUME ~late
      PROVE  /\ Numbered(<<>>, sent', Noisy)
             /\ Holds(buf, BufSize, bufRd, 0, sent' + 0, Noisy)
             /\ Holds(ring, RingSize, rd', Backlog - rest, sent' + 0 + 0, Noisy)
             /\ (sent' + 0 + 0 + (Backlog - rest)) % Wrap = now
  <2>1. /\ Holds(ring, RingSize, rd, Backlog, sent + Coded + Filled, Noisy)
        /\ (sent + Coded + Filled + Backlog) % Wrap = now
    BY <1>0, <1>5 DEF Kept, Content
  <2>2. sent + Coded + Filled = sent /\ sent + Coded + Filled + Backlog = sent + Backlog
    BY <1>0, <1>2
  <2>3. Holds(ring, RingSize, rd, Backlog, sent, Noisy)
    BY <2>1, <2>2
  <2>4. Holds(ring, RingSize, AfterRead(rest), Backlog - rest, sent + rest, Noisy)
    BY <1>0, <1>2, <2>3, ReadRing
  <2>5. sent' \in Int
    <3>1. rest \in Int /\ 0 \in Int
      BY <1>2
    <3> QED BY <1>1, <1>2, <3>1, SentMoves
  <2>6. sent' % Wrap = (sent + rest) % Wrap
    <3>1. sent + rest \in Int /\ Wrap \in Nat \ {0}
      BY <1>2, Sizes
    <3>2. PICK x \in Int : x = sent + rest
      BY <3>1
    <3>3. x % Wrap \in 0 .. Wrap - 1
      BY <3>1, ModRange
    <3>4. (x % Wrap) % Wrap = x % Wrap
      BY <3>1, <3>3, ModSmall
    <3> QED BY <1>1, <3>2, <3>4
  <2>7. Holds(ring, RingSize, rd', Backlog - rest, sent', Noisy)
    <3>1. sent + rest \in Int /\ Backlog - rest \in Int
      BY <1>2
    <3> QED BY <1>0, <2>4, <2>5, <2>6, <3>1, HoldsFrom
  <2>8. (sent' + (Backlog - rest)) % Wrap = now
    <3>1. PICK y \in Int : y = Backlog - rest
      BY <1>2
    <3>2. (sent' + y) % Wrap = (sent + rest + y) % Wrap
      <4>1. rest \in Int
        BY <1>2
      <4> QED BY <1>1, <1>2, <4>1, SentMoves
    <3>3. sent + rest + y = sent + Backlog
      BY <1>2, <3>1
    <3> QED BY <2>1, <2>2, <3>1, <3>2, <3>3
  <2>9. sent' + 0 + 0 = sent' /\ sent' + 0 = sent'
    <3>1. PICK x \in Int : x = sent'
      BY <2>5
    <3>2. x + 0 + 0 = x /\ x + 0 = x
      OBVIOUS
    <3> QED BY <3>1, <3>2
  <2> QED BY <2>7, <2>8, <2>9 DEF Holds, Numbered
<1>6. Content'
  BY <1>0, <1>1, <1>2, <1>5 DEF Content
<1> QED BY <1>3, <1>4, <1>6 DEF Kept

-----------------------------------------------------------------------------
LEMMA KeptLaunch ==
  ASSUME Control, DataType, InStep, Prompt, Kept, Launch
  PROVE  Kept'
<1>0. BaseType /\ tpc = "launch" /\ owner # NULL /\ hw.output /\ InCall(Here) /\ HasBuffer /\ ~Noisy
  BY ReaderPlays DEF Control, Launch, TaskAt, DataType, HasBuffer, InCall, Noisy
<1>1. UNCHANGED <<kind, evts, rest, owner, hw, ring, rd, buf, bufWr, clock>>
  BY DEF Launch, manager, hardware
<1>2. CASE ~FrameReady
  <2>1. tpc' = "wait" /\ UNCHANGED <<enc, bufRd>>
    BY <1>2 DEF Launch
  <2>2. Backlog' = Backlog
    BY <1>1, KeptBacklog
  <2> QED BY <1>1, <2>1, <2>2, KeptSame
<1>3. CASE FrameReady
  <2> DEFINE data == Cells(buf, BufSize, bufRd, AlgoFrame)
  <2>1. enc' = Encoded(enc, data) /\ bufRd' = (bufRd + AlgoFrame) % BufSize /\ tpc' = "report"
    BY <1>3 DEF Launch
  <2>2. /\ Here' = Here /\ BufSize' = BufSize /\ Noisy' = Noisy /\ Room' = Room /\ Slack' = Slack
        /\ InCall(Here)' = InCall(Here) /\ HasBuffer' = HasBuffer
    BY <1>1, SceneSame
  <2>3. /\ UNCHANGED <<sent, now, ahead, early, late>> /\ Backlog' = Backlog
    BY <1>1, KeptBacklog DEF clock
  <2>4. /\ Filled \in Nat /\ Coded \in Nat /\ Backlog \in Nat /\ sent \in Int /\ Body(enc) \in Samples
        /\ BufSize \in Nat \ {0} /\ bufRd \in Int /\ buf \in [0 .. BufSize - 1 -> Cell]
        /\ bufWr \in 0 .. BufSize - 1 /\ bufRd \in 0 .. BufSize - 1
        /\ AlgoFrame \in Nat /\ AlgoFrame <= Filled /\ AlgoFrame \in 0 .. Filled
    BY <1>0, <1>3, Amounts, FillNumbers DEF FrameReady
  <2>5. Filled' = Filled - AlgoFrame
    <3>1. AlgoFrame <= (bufWr - bufRd) % BufSize
      BY <2>4 DEF Filled
    <3>2. (bufWr - ((bufRd + AlgoFrame) % BufSize)) % BufSize = ((bufWr - bufRd) % BufSize) - AlgoFrame
      BY <2>4, <3>1, AroundTheBuffer
    <3>3. Filled' = (bufWr' - bufRd') % BufSize'
      BY DEF Filled
    <3> QED BY <1>1, <2>1, <2>2, <3>2, <3>3 DEF Filled
  <2>6. data \in Samples /\ Len(data) = AlgoFrame
    BY <2>4, CellsAreSamples
  <2>7. Body(enc') = Body(enc) \o data /\ Framed(enc')
    <3>1. enc \in Encoders /\ Framed(enc)
      BY DEF DataType, Kept, Frames
    <3> HIDE DEF data
    <3> QED BY <1>0, <2>1, <2>6, <3>1, EncodedBody
  <2>8. Coded' = Coded + AlgoFrame
    <3> HIDE DEF data
    <3>1. Len(Body(enc) \o data) = Len(Body(enc)) + Len(data)
      BY <2>4, <2>6, SamplesClosed
    <3>2. Coded' = Len(Body(enc'))
      BY DEF Coded
    <3> QED BY <2>6, <2>7, <3>1, <3>2 DEF Coded
  <2>9. Frames'
    BY <1>0, <2>2, <2>7 DEF Frames, Framed
  <2>10. Filling'
    BY <1>0, <1>1, <2>2, <2>3 DEF Kept, Filling
  <2>11. ASSUME ~late
         PROVE  /\ Coded' + Filled' <= Room
                /\ Numbered(Body(enc'), sent, Noisy)
                /\ Holds(buf, BufSize, bufRd', Filled', sent + Coded', Noisy)
                /\ Holds(ring, RingSize, rd, Backlog, sent + Coded' + Filled', Noisy)
                /\ (sent + Coded' + Filled' + Backlog) % Wrap = now
    <3>1. /\ Coded + Filled <= Room
          /\ Numbered(Body(enc), sent, Noisy)
          /\ Holds(buf, BufSize, bufRd, Filled, sent + Coded, Noisy)
          /\ Holds(ring, RingSize, rd, Backlog, sent + Coded + Filled, Noisy)
          /\ (sent + Coded + Filled + Backlog) % Wrap = now
      BY <1>0, <2>11 DEF Kept, Content
    <3>2. PICK a \in Int : a = sent + Coded
      BY <2>4
    <3>3. Numbered(data, a, Noisy)
      BY <2>4, <3>1, <3>2, HoldsCells
    <3>4. Holds(buf, BufSize, (bufRd + AlgoFrame) % BufSize, Filled - AlgoFrame, a + AlgoFrame, Noisy)
      BY <2>4, <3>1, <3>2, HoldsDrop
    <3> HIDE DEF data
    <3>5. Numbered(Body(enc) \o data, sent, Noisy)
      <4>1. Numbered(data, sent + Len(Body(enc)), Noisy)
        BY <3>2, <3>3 DEF Coded
      <4> QED BY <2>4, <2>6, <3>1, <4>1, NumberedConcat
    <3>6. /\ Coded' + Filled' = Coded + Filled
          /\ sent + Coded' = a + AlgoFrame /\ sent + Coded' + Filled' = sent + Coded + Filled
      BY <2>4, <2>5, <2>8, <3>2
    <3> QED BY <2>1, <2>5, <2>7, <3>1, <3>4, <3>5, <3>6
  <2>12. Content'
    BY <1>0, <1>1, <2>2, <2>3, <2>11 DEF Content
  <2> QED BY <2>9, <2>10, <2>12 DEF Kept
<1> QED BY <1>2, <1>3

LEMMA KeptReport ==
  ASSUME Control, DataType, InStep, Kept, Report
  PROVE  Kept'
<1>0. /\ BaseType /\ tpc = "report" /\ owner # NULL /\ hw.output /\ ~Noisy /\ enc.count > 0
      /\ enc \in Encoders
  <2>1. tpc = "report" /\ BaseType /\ enc.count > 0 /\ enc \in Encoders
    BY DEF Control, Report, TaskAt, DataType
  <2>2. ~Noisy
    BY <2>1 DEF Kept, Frames, InCall, Noisy
  <2> QED BY <2>1, <2>2, ReaderPlays
<1> DEFINE h == Head(enc.list)
<1>1. /\ enc' = [enc EXCEPT !.list = Tail(@), !.count = @ - 1] /\ sent' = (sent + Len(h)) % Wrap
      /\ tpc' = "report"
      /\ UNCHANGED <<kind, evts, rest, owner, hw, ring, rd, buf, bufWr, bufRd, now, ahead, early, late>>
  BY <1>0 DEF Report, manager, task, hardware, buffer
<1>2. /\ Here' = Here /\ BufSize' = BufSize /\ Noisy' = Noisy /\ Room' = Room /\ Slack' = Slack
      /\ InCall(Here)' = InCall(Here) /\ HasBuffer' = HasBuffer
  BY <1>1, SceneSame
<1>3. Filled' = Filled /\ Backlog' = Backlog
  BY <1>1, <1>2, KeptBacklog DEF Filled
<1>4. Body(enc) = h \o Body(enc') /\ h \in Samples /\ Body(enc') \in Samples /\ (Framed(enc) => Framed(enc'))
  BY <1>0, <1>1, ReportedBody
<1> HIDE DEF h
<1>5. Coded = Len(h) + Coded' /\ Len(h) \in Nat /\ Coded' \in Nat
  BY <1>4, SamplesClosed DEF Coded
<1>6. Filled \in Nat /\ Backlog \in Nat /\ sent \in Int /\ Coded \in Nat
  BY <1>0, Amounts
<1>7. Frames'
  BY <1>0, <1>2, <1>4 DEF Kept, Frames, Framed, InCall
<1>8. Filling'
  BY <1>0, <1>1, <1>2, <1>3 DEF Kept, Filling
<1>9. ASSUME ~late
      PROVE  /\ Coded' + Filled <= Room
             /\ Numbered(Body(enc'), sent', Noisy)
             /\ Holds(buf, BufSize, bufRd, Filled, sent' + Coded', Noisy)
             /\ Holds(ring, RingSize, rd, Backlog, sent' + Coded' + Filled, Noisy)
             /\ (sent' + Coded' + Filled + Backlog) % Wrap = now
  <2>1. /\ Coded + Filled <= Room
        /\ Numbered(Body(enc), sent, Noisy)
        /\ Holds(buf, BufSize, bufRd, Filled, sent + Coded, Noisy)
        /\ Holds(ring, RingSize, rd, Backlog, sent + Coded + Filled, Noisy)
        /\ (sent + Coded + Filled + Backlog) % Wrap = now
    BY <1>0, <1>9 DEF Kept, Content
  <2>2. PICK a \in Int : a = sent + Len(h)
    BY <1>5, <1>6
  <2>3. sent' \in Int /\ sent' = a % Wrap /\ Wrap \in Nat \ {0}
    <3>1. Wrap \in Nat \ {0}
      BY Sizes
    <3>2. a % Wrap \in 0 .. Wrap - 1
      BY <3>1, ModRange
    <3> QED BY <1>1, <2>2, <3>1, <3>2
  <2>4. ASSUME NEW y \in Int PROVE (a + y) % Wrap = (sent' + y) % Wrap
    <3>1. ((a % Wrap) + y) % Wrap = (a + y) % Wrap
      BY <2>3, ModPlus
    <3> QED BY <2>3, <3>1
  <2>5. Coded' + Filled <= Room
    <3>1. Room \in Int
      BY Sizes, BufSizes DEF Room
    <3>2. PICK x \in Nat : x = Coded'
      BY <1>5
    <3>3. PICK l \in Nat : l = Len(h)
      BY <1>5
    <3>4. x + Filled <= Room
      <4>1. Coded = l + x
        BY <1>5, <3>2, <3>3
      <4>2. Coded + Filled <= Room
        BY <2>1
      <4> QED BY <1>6, <3>1, <4>1, <4>2
    <3> QED BY <3>2, <3>4
  <2>6. Numbered(Body(enc'), sent', Noisy)
    <3>1. Numbered(Body(enc'), a, Noisy)
      <4>1. Numbered(h \o Body(enc'), sent, Noisy)
        BY <1>4, <2>1
      <4> QED BY <1>4, <1>6, <2>2, <4>1, NumberedConcat
    <3>2. a % Wrap = sent' % Wrap
      <4>1. a % Wrap \in 0 .. Wrap - 1
        BY <2>3, ModRange
      <4>2. (a % Wrap) % Wrap = a % Wrap
        BY <2>3, <4>1, ModSmall
      <4> QED BY <2>3, <4>2
    <3> QED BY <1>4, <2>3, <3>1, <3>2, NumberedFrom
  <2>7. PICK x \in Int : x = Coded'
    BY <1>5
  <2>8. sent + Coded = a + x
    BY <1>5, <1>6, <2>2, <2>7
  <2>9. Holds(buf, BufSize, bufRd, Filled, sent' + Coded', Noisy)
    <3>1. a + x \in Int /\ sent' + x \in Int /\ Filled \in Int
      BY <1>6, <2>3
    <3>2. (a + x) % Wrap = (sent' + x) % Wrap
      BY <2>4
    <3>3. Holds(buf, BufSize, bufRd, Filled, a + x, Noisy)
      BY <2>1, <2>8
    <3> QED BY <2>7, <3>1, <3>2, <3>3, HoldsFrom
  <2>10. Holds(ring, RingSize, rd, Backlog, sent' + Coded' + Filled, Noisy)
    <3>1. PICK y \in Int : y = x + Filled
      BY <1>6
    <3>2. sent + Coded + Filled = a + y /\ sent' + Coded' + Filled = sent' + y
      <4>1. PICK s \in Int : s = sent'
        BY <2>3
      <4>2. a + x + Filled = a + y /\ s + x + Filled = s + y
        BY <1>6, <2>2, <2>7, <3>1, <4>1
      <4> QED BY <2>7, <2>8, <4>1, <4>2
    <3>3. a + y \in Int /\ sent' + y \in Int /\ Backlog \in Int
      BY <1>6, <2>3
    <3>4. (a + y) % Wrap = (sent' + y) % Wrap
      BY <2>4
    <3>5. Holds(ring, RingSize, rd, Backlog, a + y, Noisy)
      BY <2>1, <3>2
    <3>6. Holds(ring, RingSize, rd, Backlog, sent' + y, Noisy)
      BY <3>3, <3>4, <3>5, HoldsFrom
    <3> QED BY <3>2, <3>6
  <2>11. (sent' + Coded' + Filled + Backlog) % Wrap = now
    <3>1. PICK y \in Int : y = x + Filled + Backlog
      BY <1>6
    <3>2. sent + Coded + Filled + Backlog = a + y /\ sent' + Coded' + Filled + Backlog = sent' + y
      <4>1. PICK s \in Int : s = sent'
        BY <2>3
      <4>2. a + x + Filled + Backlog = a + y /\ s + x + Filled + Backlog = s + y
        BY <1>6, <2>2, <2>7, <3>1, <4>1
      <4> QED BY <2>7, <2>8, <4>1, <4>2
    <3> QED BY <2>1, <2>4, <3>2
  <2> QED BY <2>5, <2>6, <2>9, <2>10, <2>11
<1>10. Content'
  BY <1>0, <1>1, <1>2, <1>3, <1>9 DEF Content
<1> QED BY <1>7, <1>8, <1>10 DEF Kept

LEMMA KeptStep ==
  ASSUME Roomy, Control, DataType, InStep, Prompt, Kept, [Next]_vars
  PROVE  Kept'
<1>0. BaseType /\ (owner # NULL => life[owner] # "free")
  BY OwnerAlive DEF Control
<1>1. CASE App
  <2>1. UNCHANGED <<owner, rd, ring, buf, bufWr, bufRd, enc, clock, hw, tpc>>
    BY <1>1 DEF App, CreateScene, AllocateScene, PostCreate, DestroyScene, hardware, buffer, task
  <2>2. owner # NULL => kind'[owner] = kind[owner]
    BY <1>0, <1>1 DEF App, CreateScene, AllocateScene, PostCreate, DestroyScene, manager, BaseType, Ptr
  <2>3. Backlog' = Backlog
    BY <1>0, <1>1, AppBacklog
  <2> QED BY <2>1, <2>2, <2>3, KeptSame
<1>2. CASE Pop
  <2>1. UNCHANGED <<owner, kind, rd, ring, buf, bufWr, bufRd, enc, clock, hw>> /\ tpc = "wait" /\ tpc' # "report"
    BY <1>2 DEF Pop, Crash, TaskAt, manager, task, hardware, buffer, clock
  <2>2. owner # NULL => Backlog' = Backlog
    <3>1. owner # NULL => hw.output
      <4>1. CASE Pending
        <5>1. Served(evts[1]) /\ evts[1].type \in LifeCycle
          BY <4>1, PendingFirst DEF Control, Stages
        <5> QED BY <5>1 DEF Served, Creating, Fresh, Silent, Destroying, On, LifeCycle
      <4>2. CASE ~Pending
        BY <2>1, <4>2 DEF Control, Stages, Empty, Prepared, Playing, Fresh, Silent, On
      <4> QED BY <4>1, <4>2
    <3> QED BY <1>2, <3>1, PopBacklog
  <2> QED BY <2>1, <2>2, KeptSame
<1>3. CASE HwCreate \/ HwStop
  <2>1. /\ UNCHANGED <<owner, kind, evts, rest, rd, ring, buf, bufWr, bufRd, enc, clock>>
        /\ tpc' # "report"
    BY <1>3 DEF HwCreate, HwStop, manager, buffer
  <2>2. hw'.output = hw.output
    <3>1. CASE HwCreate
      BY <1>0, <3>1 DEF HwCreate, TaskAt, Control, Stages, Starting, BaseType
    <3>2. CASE HwStop
      BY <1>0, <3>2 DEF HwStop, BaseType
    <3> QED BY <1>3, <3>1, <3>2
  <2>3. Backlog' = Backlog
    BY <2>1, KeptBacklog
  <2> QED BY <2>1, <2>2, <2>3, KeptSame
<1>4. CASE Reported
  <2>1. /\ UNCHANGED <<owner, kind, evts, rest, rd, ring, buf, bufWr, bufRd, enc, clock, hw>>
        /\ tpc' # "report"
    BY <1>4 DEF Reported, manager, hardware, buffer
  <2>2. Backlog' = Backlog
    BY <2>1, KeptBacklog
  <2> QED BY <2>1, <2>2, KeptSame
<1>5. CASE UNCHANGED vars
  <2>1. UNCHANGED <<owner, kind, evts, rest, rd, ring, buf, bufWr, bufRd, enc, clock, hw, tpc>>
    BY <1>5 DEF vars, manager, task, hardware, buffer
  <2>2. Backlog' = Backlog
    BY <2>1, KeptBacklog
  <2> QED BY <2>1, <2>2, KeptSame
<1> QED BY <1>1, <1>2, <1>3, <1>4, <1>5, KeptReceive, KeptTransmit, KeptInitScene, KeptOutputAdd, KeptFree,
           KeptReadToBuffer, KeptReadAndEncode, KeptReadAndRecognize, KeptLaunch, KeptReport
        DEF Next, Interrupts, Task

\* What is kept is what the property asks for.
LEMMA KeptIsEnough ==
  ASSUME Control, DataType, InStep, Kept
  PROVE  NothingLost
<1> DEFINE B == Cells(buf, BufSize, bufRd, Filled)
           R == Cells(ring, RingSize, rd, Backlog)
           p == Body(enc) \o B \o R
<1> SUFFICES ASSUME Live, ~late
             PROVE  /\ Len(p) = Span(sent, now)
                    /\ \A i \in DOMAIN p : p[i] = (sent + i - 1) % Wrap \/ (p[i] = Noise /\ Here = "loopback")
  <2>1. Pipeline = p
    BY DEF Pipeline, Body, Out
  <2> HIDE DEF p
  <2> QED BY <2>1 DEF NothingLost
<1>0. BaseType /\ hw.output /\ owner # NULL
  BY LiveHasOutput DEF Control, Live
<1>1. /\ Coded + Filled <= Room
      /\ Numbered(Body(enc), sent, Noisy)
      /\ Holds(buf, BufSize, bufRd, Filled, sent + Coded, Noisy)
      /\ Holds(ring, RingSize, rd, Backlog, sent + Coded + Filled, Noisy)
      /\ (sent + Coded + Filled + Backlog) % Wrap = now
  BY <1>0 DEF Kept, Content
<1>2. /\ sent \in Int /\ now \in Int /\ now % Wrap = now /\ Wrap \in Nat \ {0}
      /\ Coded \in Nat /\ Body(enc) \in Samples
      /\ Filled \in Nat /\ BufSize \in Nat \ {0} /\ Backlog \in Nat
      /\ bufRd \in Int /\ rd \in Int /\ RingSize \in Nat \ {0}
      /\ ring \in [0 .. RingSize - 1 -> Cell]
      /\ HasBuffer => buf \in [0 .. BufSize - 1 -> Cell]
  BY <1>0, Amounts
<1>3. PICK a \in Int : a = sent + Coded
  BY <1>2
<1>4. PICK b \in Int : b = a + Filled
  BY <1>2
<1>5. B \in Samples /\ Len(B) = Filled /\ Numbered(B, a, Noisy)
  <2>1. CASE HasBuffer
    BY <1>1, <1>2, <1>3, <2>1, CellsAreSamples, HoldsCells
  <2>2. CASE ~HasBuffer
    <3>1. bufWr = 0 /\ bufRd = 0 /\ (0 - 0) % BufSize = 0
      BY <1>2, <2>2 DEF Kept, Filling
    <3>2. Filled = 0
      BY <3>1 DEF Filled
    <3>3. B = <<>>
      BY <3>2 DEF Cells
    <3> QED BY <3>2, <3>3, SamplesClosed DEF Numbered
  <2> QED BY <2>1, <2>2
<1>6. R \in Samples /\ Len(R) = Backlog /\ Numbered(R, b, Noisy)
  <2>1. Holds(ring, RingSize, rd, Backlog, b, Noisy)
    BY <1>1, <1>2, <1>3, <1>4
  <2>2. Backlog \in 0 .. Backlog
    BY <1>2
  <2> QED BY <1>2, <2>1, <2>2, CellsAreSamples, HoldsCells
<1> HIDE DEF B, R
<1>7. Body(enc) \o B \in Samples /\ Len(Body(enc) \o B) = Coded + Filled
  BY <1>2, <1>5, SamplesClosed DEF Coded
<1>8. Numbered(Body(enc) \o B, sent, Noisy)
  <2>1. Numbered(B, sent + Len(Body(enc)), Noisy)
    BY <1>3, <1>5 DEF Coded
  <2> QED BY <1>1, <1>2, <1>5, <2>1, NumberedConcat
<1>9. p \in Samples /\ Len(p) = Coded + Filled + Backlog
  BY <1>6, <1>7, SamplesClosed
<1>10. Numbered(p, sent, Noisy)
  <2>1. sent + Len(Body(enc) \o B) = b
    BY <1>2, <1>3, <1>4, <1>7
  <2> QED BY <1>2, <1>6, <1>7, <1>8, <2>1, NumberedConcat
<1> HIDE DEF p
<1>11. Coded + Filled + Backlog < Wrap
  <2>1. Slack \in Int /\ Slack <= RingSize /\ Backlog <= Slack
    BY <1>0, SlackIs DEF Kept, Filling
  <2>2. Room = IF InCall(Here) THEN FrameMax + AlgoFrame * AdcFrames ELSE LoopSize
    BY DEF Room, BufSize
  <2>3. /\ FrameMax \in Nat /\ AlgoFrame * AdcFrames \in Nat /\ LoopSize \in Nat
    BY Sizes
  <2>4. Wrap > Room + RingSize /\ Room \in Nat
    BY <2>2, <2>3, WrapIsLarge
  <2> QED BY <1>1, <1>2, <2>1, <2>4
<1>12. Span(sent, now) = Coded + Filled + Backlog
  <2>1. PICK y \in 0 .. Wrap - 1 : y = Coded + Filled + Backlog
    BY <1>2, <1>11
  <2>2. PICK x \in Int : x = sent + y
    BY <1>2
  <2>3. x % Wrap = now
    <3>1. sent + Coded + Filled + Backlog = x
      BY <1>2, <2>1, <2>2
    <3> QED BY <1>1, <3>1
  <2>4. PICK z \in Int : z = 0 - sent
    BY <1>2
  <2>5. ((x % Wrap) + z) % Wrap = (x + z) % Wrap
    BY <1>2, ModPlus
  <2>6. x + z = y /\ (x % Wrap) + z = now - sent
    BY <1>2, <2>1, <2>2, <2>3, <2>4
  <2>7. y % Wrap = y
    BY <1>2, ModSmall
  <2> QED BY <2>1, <2>5, <2>6, <2>7 DEF Span
<1>13. DOMAIN p = 1 .. Len(p)
  BY <1>9 DEF Samples
<1> QED BY <1>9, <1>10, <1>12, <1>13 DEF Numbered, Noisy

\* From the interrupt through two rings, the canceller and the framing no sample
\* is lost, doubled or out of order unless the audio task was late: for every
\* size of the buffers, the frames and the chunks, with any number of scenes.
THEOREM NoSampleIsLost ==
  ASSUME TaskPreempts = TRUE, Roomy
  PROVE  Spec => []NothingLost
<1> DEFINE Inv == Control /\ DataType /\ InStep /\ Prompt /\ Kept
<1>1. Init => Inv
  <2>1. Init => InStep
    BY DEF Init, InStep
  <2>2. Init => Prompt
    BY NewEncoderIsOne DEF Init, Prompt, Here, InCall
  <2> QED BY <2>1, <2>2, ControlInit, DataInit, KeptInit
<1>2. Inv /\ [Next]_vars => Inv'
  BY ControlStep, DataStep, InStepStep, PromptStep, KeptStep
<1>3. Inv => NothingLost
  BY KeptIsEnough
<1> HIDE DEF Inv
<1> QED BY <1>1, <1>2, <1>3, PTL DEF Spec
=============================================================================
