-------------------------- MODULE AudioSceneProofs --------------------------
(* Theorems about AudioScene for any threads, addresses and event bound. *)
EXTENDS AudioScene, TLAPS

-----------------------------------------------------------------------------
(* Events and the queue. *)

\* An event the helper Evt builds is an event the audio task knows.
LEMMA EvtIsEvent ==
  ASSUME NEW t \in Lifecycle \cup {"RECV"}, NEW s \in Ptr
  PROVE  Evt(t, s) \in Events
BY DEF Evt, Events

\* The fields of an event.
LEMMA EventFields ==
  ASSUME NEW e \in Events
  PROVE  /\ e.scene \in Ptr
         /\ e.type \in {"CREATE", "DESTROY", "RECV", "REQ"}
BY DEF Events, Lifecycle

\* Queueing an event keeps the queue well typed.
LEMMA PostType ==
  ASSUME evts \in Seq(Events), NEW e \in Events, Post(e)
  PROVE  evts' \in Seq(Events)
BY DEF Post

\* Queueing an event a thread holds in its hand.
LEMMA PostEvt ==
  ASSUME evts \in Seq(Events),
         NEW t \in Lifecycle \cup {"RECV"}, NEW s \in Ptr, Post(Evt(t, s))
  PROVE  evts' \in Seq(Events)
BY EvtIsEvent, PostType

\* malloc and the initialisation that follows keep the memory well typed.
LEMMA AllocatedType ==
  ASSUME TypeOK, NEW s \in Ptr, NEW k \in Kinds, Allocated(s, k)
  PROVE  /\ life' \in [Scenes -> {"free", "allocated", "inited"}]
         /\ kind' \in [Scenes -> Kinds]
BY DEF TypeOK, Allocated, memory

-----------------------------------------------------------------------------
(* Type correctness. *)

LEMMA CrashType ==
  ASSUME TypeOK, NEW why \in Faults, Crash(why)
  PROVE  TypeOK'
BY DEF TypeOK, Crash, threads, memory, audio

LEMMA DereferenceFault ==
  ASSUME NEW s
  PROVE  Dereference(s) \in Faults
BY DEF Dereference, Faults

LEMMA NoEvtIsEvent == NoEvt \in Events
BY EvtIsEvent DEF NoEvt, Ptr

LEMMA TypeInit == Init => TypeOK
<1>1. NoArg \in Args
  BY DEF NoArg, Args, Kinds
<1>2. <<>> \in Seq(Events)
  OBVIOUS
<1>3. NULL \in Ptr /\ "host" \in Kinds /\ "idle" \in AppPcs /\ "none" \in Faults
  BY DEF Ptr, Kinds, AppPcs, Faults
<1> SUFFICES ASSUME Init PROVE TypeOK
  OBVIOUS
<1>4. /\ main \in Ptr /\ tone \in Ptr /\ hw \in Ptr /\ sema \in {0, 1}
      /\ evts \in Seq(Events) /\ cur \in Events
  BY <1>2, <1>3, NoEvtIsEvent DEF Init
<1>5. /\ pc \in [Apps -> AppPcs]
      /\ arg \in [Apps -> Args]
      /\ handle \in [Apps -> Ptr]
      /\ kind \in [Scenes -> Kinds]
  BY <1>1, <1>3 DEF Init
<1> QED BY <1>3, <1>4, <1>5 DEF Init, TypeOK

LEMMA TypeCall ==
  ASSUME TypeOK, NEW a \in Apps, NEW where \in AppPcs, NEW args \in Args,
         Call(a, where, args)
  PROVE  TypeOK'
BY DEF TypeOK, Call, Goto, memory, audio

LEMMA TypeNewCall ==
  ASSUME TypeOK, NEW a \in Apps, NewCall(a)
  PROVE  TypeOK'
<1>1. CASE CallCreate(a)
  <2>1. PICK k \in MainKinds : Call(a, "create_take", [NoArg EXCEPT !.kind = k])
    BY <1>1 DEF CallCreate
  <2>2. [NoArg EXCEPT !.kind = k] \in Args
    BY SceneAssumption DEF NoArg, Args, Kinds
  <2> QED BY <2>1, <2>2, TypeCall DEF AppPcs, Takers
<1>2. CASE CallTonePlay(a)
  <2>1. [NoArg EXCEPT !.kind = "tone", !.viaTone = TRUE] \in Args
    BY DEF NoArg, Args, Kinds
  <2> QED BY <1>2, <2>1, TypeCall DEF CallTonePlay, AppPcs, Takers
<1>3. CASE CallToneStop(a)
  <2>1. PICK i \in BOOLEAN : Call(a, "stop_take", [NoArg EXCEPT !.immediate = i])
    BY <1>3 DEF CallToneStop
  <2>2. [NoArg EXCEPT !.immediate = i] \in Args
    BY DEF NoArg, Args, Kinds
  <2> QED BY <2>1, <2>2, TypeCall DEF AppPcs, Takers
<1>4. CASE CallDestroy(a)
  <2>1. NoArg \in Args
    BY DEF NoArg, Args, Kinds
  <2> QED BY <1>4, <2>1, TypeCall DEF CallDestroy, AppPcs, Takers
<1>5. CASE RecvEncodedData(a)
  <2>1. evts' \in Seq(Events)
    BY <1>5, PostEvt DEF RecvEncodedData, TypeOK
  <2> QED BY <1>5, <2>1 DEF RecvEncodedData, TypeOK, threads, memory, audio
<1> QED BY <1>1, <1>2, <1>3, <1>4, <1>5 DEF NewCall

LEMMA TypeTake ==
  ASSUME TypeOK, NEW a \in Apps, Take(a)
  PROVE  TypeOK'
BY DEF TypeOK, Take, Goto, AppPcs, Takers, Holders, memory, audio

LEMMA TypeContinue ==
  ASSUME TypeOK, NEW a \in Apps, Continue(a)
  PROVE  TypeOK'
<1>1. CASE TakeMissing(a)
  BY <1>1, CrashType DEF TakeMissing, Faults
<1>2. CASE CreateRetire(a)
  <2>1. evts' \in Seq(Events)
    BY <1>2, PostEvt DEF CreateRetire, TypeOK, Lifecycle
  <2> QED BY <1>2, <2>1 DEF CreateRetire, Goto, TypeOK, AppPcs, memory, audio
<1>3. CASE CreateAlloc(a)
  <2>1. CASE OutOfMemory /\ Crash("out_of_memory")
    BY <2>1, CrashType DEF Faults
  <2>2. ASSUME NEW s \in Ptr, Allocated(s, arg[a].kind), main' = s,
               Goto(a, IF s = NULL THEN "create_return" ELSE "create_retake"),
               UNCHANGED <<tone, sema, evts, tpc, cur, arg, handle, audio, fault>>
        PROVE  TypeOK'
    <3>1. arg[a].kind \in Kinds
      BY DEF TypeOK, Args
    <3> QED BY <2>2, <3>1, AllocatedType DEF Goto, TypeOK, AppPcs, Takers, audio
  <2> QED BY <1>3, <2>1, <2>2 DEF CreateAlloc
<1>4. CASE CreatePost(a)
  <2>1. evts' \in Seq(Events)
    BY <1>4, PostEvt DEF CreatePost, TypeOK, Lifecycle
  <2> QED BY <1>4, <2>1 DEF CreatePost, Goto, TypeOK, AppPcs, memory, audio
<1>5. CASE CreateReturn(a)
  <2>1. NoArg \in Args
    BY DEF NoArg, Args, Kinds
  <2> QED BY <1>5, <2>1 DEF CreateReturn, Return, Goto, TypeOK, AppPcs, memory, audio
<1>6. CASE DestroyPost(a)
  <2>1. NoArg \in Args
    BY DEF NoArg, Args, Kinds
  <2>2. evts' \in Seq(Events)
    BY <1>6, PostEvt DEF DestroyPost, TypeOK, Lifecycle
  <2> QED BY <1>6, <2>1, <2>2 DEF DestroyPost, Return, Goto, TypeOK, AppPcs, memory, audio
<1>7. CASE TonePlay(a)
  <2>1. NoArg \in Args
    BY DEF NoArg, Args, Kinds
  <2>2. ASSUME PlayAttach(a), UNCHANGED <<tpc, cur, audio, fault>>
        PROVE  TypeOK'
    <3>1. PICK s \in Ptr : Allocated(s, "tone") /\ tone' = s /\ Post(Evt("CREATE", s))
      BY <2>2 DEF PlayAttach
    <3>2. evts' \in Seq(Events)
      BY <3>1, PostEvt DEF TypeOK, Lifecycle
    <3>3. "tone" \in Kinds
      BY DEF Kinds
    <3> QED BY <2>1, <2>2, <3>1, <3>2, <3>3, AllocatedType
            DEF PlayAttach, Return, Goto, TypeOK, AppPcs, audio
  <2>3. ASSUME PlayRefused(a), UNCHANGED <<tpc, cur, audio, fault>>
        PROVE  TypeOK'
    BY <2>1, <2>3 DEF PlayRefused, Return, Goto, TypeOK, AppPcs, memory, audio
  <2>4. ASSUME PlayAlone(a), UNCHANGED <<tpc, cur, audio, fault>>
        PROVE  TypeOK'
    BY <2>4 DEF PlayAlone, Goto, TypeOK, AppPcs, Takers, memory, audio
  <2>5. ASSUME NEW why \in Faults, Crash(why)
        PROVE  TypeOK'
    BY <2>5, CrashType
  <2>6. "out_of_memory" \in Faults /\ Dereference(main) \in Faults
    BY DereferenceFault DEF Faults
  <2> QED BY <1>7, <2>2, <2>3, <2>4, <2>5, <2>6 DEF TonePlay
<1>8. CASE ToneStop(a)
  <2>1. NoArg \in Args
    BY DEF NoArg, Args, Kinds
  <2>2. evts' \in Seq(Events)
    BY <1>8, PostEvt DEF ToneStop, TypeOK, Lifecycle
  <2> QED BY <1>8, <2>1, <2>2 DEF ToneStop, Return, Goto, TypeOK, AppPcs, memory, audio
<1> QED BY <1>1, <1>2, <1>3, <1>4, <1>5, <1>6, <1>7, <1>8 DEF Continue

LEMMA TypeIsr ==
  ASSUME TypeOK, Isr
  PROVE  TypeOK'
<1>1. CASE SpeakerCrash
  BY <1>1, CrashType, DereferenceFault DEF SpeakerCrash
<1>2. ASSUME NEW d \in Scenes, RequestRawData(d)
      PROVE  TypeOK'
  <2>1. [type |-> "REQ", scene |-> tone, dec |-> d] \in Events
    BY DEF TypeOK, Events
  <2>2. evts' \in Seq(Events)
    BY <1>2, <2>1, PostType DEF RequestRawData, TypeOK
  <2> QED BY <1>2, <2>2 DEF RequestRawData, TypeOK, threads, memory, audio
<1>3. ASSUME NEW d \in Scenes, PcmConsumed(d)
      PROVE  TypeOK'
  <2>1. evts' \in Seq(Events)
    BY <1>3, PostEvt DEF PcmConsumed, TypeOK, Lifecycle
  <2> QED BY <1>3, <2>1 DEF PcmConsumed, TypeOK, threads, memory
<1> QED BY <1>1, <1>2, <1>3 DEF Isr

\* Destroying a tone, a main scene, and the step of the audio task around it.
LEMMA DestroyType ==
  ASSUME TypeOK, NEW s \in Ptr, DestroyTone \/ DestroyMain(s),
         NEW where \in {"wait", "give", "destroy_scene", "destroy_clear"}, TaskStep(where)
  PROVE  TypeOK'
<1>1. hw' \in Ptr /\ mixer' \in BOOLEAN
      /\ dec' \in [Scenes -> {"none", "decoding", "draining", "consumed"}]
  BY DEF DestroyTone, DestroyMain, SpeakerOff, MixerOff, TypeOK, Ptr
<1>2. tone' \in Ptr /\ life' \in [Scenes -> {"free", "allocated", "inited"}]
  BY DEF DestroyTone, DestroyMain, TypeOK, Ptr
<1> QED BY <1>1, <1>2, NoEvtIsEvent DEF TaskStep, TypeOK, threads

LEMMA StepType ==
  ASSUME TypeOK, NEW where \in {"wait", "give", "destroy_scene", "destroy_clear"},
         TaskStep(where), tone' \in Ptr,
         life' \in [Scenes -> {"free", "allocated", "inited"}], UNCHANGED <<hw, mixer>>,
         dec' \in [Scenes -> {"none", "decoding", "draining", "consumed"}]
  PROVE  TypeOK'
BY NoEvtIsEvent DEF TaskStep, TypeOK, threads

LEMMA ToneFaultType ==
  /\ ToneFault \in Faults
  /\ \A s \in Ptr : HandlerFault(s) \in Faults
BY DereferenceFault DEF ToneFault, HandlerFault, Faults

LEMMA TypeTask ==
  ASSUME TypeOK, Task
  PROVE  TypeOK'
<1> USE EventFields
<1>0. cur.scene \in Ptr
  BY DEF TypeOK
<1>1. CASE TaskStart
  BY <1>1 DEF TaskStart, TypeOK, threads, memory, audio
<1>2. CASE Pop
  <2>1. Head(evts) \in Events /\ Tail(evts) \in Seq(Events)
    BY <1>2 DEF Pop, TypeOK
  <2>2. tpc' \in {"create", "destroy_tone", "deliver"}
    BY <1>2 DEF Pop
  <2> QED BY <1>2, <2>1, <2>2 DEF Pop, TypeOK, threads, memory, audio
<1>3. CASE HandleCreate
  <2>1. ASSUME InitTone(cur.scene) \/ InitMain(cur.scene),
               life' = [life EXCEPT ![cur.scene] = "inited"], tpc' = "give",
               UNCHANGED <<main, sema, evts, cur, threads, kind, fault>>
        PROVE  TypeOK'
    <3>1. tone' \in Ptr /\ hw' \in Ptr /\ mixer' \in BOOLEAN
          /\ dec' \in [Scenes -> {"none", "decoding", "draining", "consumed"}]
      BY <1>0, <2>1 DEF InitTone, InitMain, Speakers, TypeOK, Ptr
    <3> QED BY <2>1, <3>1 DEF TypeOK, threads
  <2>2. ASSUME NEW why \in {"assert", "use_after_free", "null_pointer"}, Crash(why)
        PROVE  TypeOK'
    BY <2>2, CrashType DEF Faults
  <2> QED BY <1>3, <2>1, <2>2 DEF HandleCreate
<1>4. CASE HandleDestroyTone
  <2>1. ASSUME NEW where \in {"give", "destroy_scene"}, TaskStep(where),
               UNCHANGED <<tone, life, audio>>
        PROVE  TypeOK'
    BY <2>1, StepType DEF TypeOK, audio
  <2>2. ASSUME DestroyTone, TaskStep("destroy_scene")
        PROVE  TypeOK'
    BY <1>0, <2>2, DestroyType
  <2>3. ASSUME NEW why \in Faults, Crash(why)
        PROVE  TypeOK'
    BY <2>3, CrashType
  <2>4. "use_after_free" \in Faults
    BY DEF Faults
  <2> QED BY <1>4, <2>1, <2>2, <2>3, <2>4, ToneFaultType DEF HandleDestroyTone
<1>5. CASE HandleDestroyScene
  <2>1. ASSUME TaskStep("destroy_clear"), UNCHANGED <<tone, life, audio>>
        PROVE  TypeOK'
    BY <2>1, StepType DEF TypeOK, audio
  <2>2. ASSUME DestroyTone \/ DestroyMain(cur.scene), TaskStep("destroy_clear")
        PROVE  TypeOK'
    BY <1>0, <2>2, DestroyType
  <2>3. ASSUME NEW why \in Faults, Crash(why)
        PROVE  TypeOK'
    BY <2>3, CrashType
  <2>4. {"use_after_free", "uninitialised"} \subseteq Faults
    BY DEF Faults
  <2> QED BY <1>5, <2>1, <2>2, <2>3, <2>4, ToneFaultType DEF HandleDestroyScene
<1>6. CASE HandleDestroyClear
  BY <1>6 DEF HandleDestroyClear, TypeOK, Ptr, threads, memory, audio
<1>7. CASE Give
  BY <1>7, NoEvtIsEvent DEF Give, TypeOK, threads, memory, audio
<1>8. CASE Deliver
  <2>1. CASE TaskStep("wait") /\ UNCHANGED <<tone, life, audio>>
    BY <2>1, StepType DEF TypeOK, audio
  <2>2. CASE /\ Handler(cur.scene) /\ TaskStep("wait")
             /\ UNCHANGED <<tone, life, hw, mixer>>
    <3>1. dec' \in [Scenes -> {"none", "decoding", "draining", "consumed"}]
      BY <2>2 DEF Handler, TypeOK
    <3> QED BY <2>2, <3>1, StepType DEF TypeOK
  <2>3. CASE Crash(HandlerFault(cur.scene))
    BY <1>0, <2>3, CrashType, ToneFaultType
  <2> QED BY <1>8, <2>1, <2>2, <2>3 DEF Deliver
<1> QED BY <1>1, <1>2, <1>3, <1>4, <1>5, <1>6, <1>7, <1>8 DEF Task

LEMMA TypeNext == TypeOK /\ [Next]_vars => TypeOK'
<1> SUFFICES ASSUME TypeOK, [Next]_vars PROVE TypeOK'
  OBVIOUS
<1>1. CASE UNCHANGED vars
  BY <1>1 DEF vars, TypeOK, threads, memory, audio
<1>2. CASE Next
  BY <1>1, <1>2, TypeTask, TypeIsr, TypeNewCall, TypeTake, TypeContinue DEF Next, Stopped
<1> QED BY <1>1, <1>2

\* Every pointer stays NULL or a scene address and every queued event one the
\* audio task knows, whatever the threads, the interrupts and malloc do.
THEOREM TypeCorrect == Spec => []TypeOK
BY TypeInit, TypeNext, PTL DEF Spec

-----------------------------------------------------------------------------
(* Every step, seen from the semaphore. *)

\* Nobody but a starts or stops holding the semaphore.
OthersHold(a) == \A b \in Apps \ {a} : Holding(b)' <=> Holding(b)
HoldersSame == \A b \in Apps : Holding(b)' <=> Holding(b)
TaskSame == (Serving' <=> Serving) /\ (tpc' = "start" <=> tpc = "start")
PostsOther == \E e \in Events : e.type \notin Lifecycle /\ Post(e)
PostsLifecycle == \E e \in Events : e.type \in Lifecycle /\ Post(e)

Leaves == sema' = sema /\ HoldersSame /\ TaskSame /\ (evts' = evts \/ PostsOther)
Takes(a) == /\ tpc # "start" /\ sema = 1 /\ sema' = 0
            /\ ~Holding(a) /\ Holding(a)' /\ OthersHold(a)
            /\ TaskSame /\ evts' = evts
Returns(a) == /\ Holding(a) /\ ~Holding(a)' /\ OthersHold(a)
              /\ sema' = 1 /\ TaskSame /\ evts' = evts
HandsOver(a) == /\ Holding(a) /\ ~Holding(a)' /\ OthersHold(a)
                /\ sema' = sema /\ TaskSame /\ PostsLifecycle
Pops == /\ sema' = sema /\ HoldersSame
        /\ tpc = "wait" /\ tpc' # "start" /\ evts # <<>> /\ evts' = Tail(evts)
        /\ Serving' <=> Head(evts).type \in Lifecycle
Finishes == /\ tpc = "start" \/ Serving
            /\ tpc' = "wait" /\ sema' = 1 /\ HoldersSame /\ evts' = evts
Steals == /\ \E d \in Scenes : dec[d] = "draining"
          /\ sema' = 0 /\ HoldersSame /\ TaskSame /\ PostsLifecycle

TokenStep == \/ Leaves \/ Pops \/ Finishes \/ Steals
             \/ \E a \in Apps : Takes(a) \/ Returns(a) \/ HandsOver(a)

\* The threads a step of another thread leaves where they are.
LEMMA PcSame ==
  ASSUME pc' = pc
  PROVE  HoldersSame
BY DEF HoldersSame, Holding

LEMMA GotoOthers ==
  ASSUME TypeOK, NEW a \in Apps, NEW where \in AppPcs, Goto(a, where)
  PROVE  /\ OthersHold(a)
         /\ Holding(a)' <=> where \in Holders
BY DEF TypeOK, Goto, OthersHold, Holding

LEMMA CrashLeaves ==
  ASSUME NEW why, Crash(why)
  PROVE  Leaves
BY PcSame DEF Crash, Leaves, TaskSame, Serving, threads

\* An event built with Evt, by its type.
LEMMA PostEvtKind ==
  ASSUME NEW t \in Lifecycle \cup {"RECV"}, NEW s \in Ptr, Post(Evt(t, s))
  PROVE  IF t \in Lifecycle THEN PostsLifecycle ELSE PostsOther
<1>1. Evt(t, s) \in Events /\ Evt(t, s).type = t
  BY EvtIsEvent DEF Evt
<1> QED BY <1>1 DEF PostsLifecycle, PostsOther

LEMMA CallToken ==
  ASSUME TypeOK, NEW a \in Apps, NEW where \in AppPcs, NEW args,
         where \notin Holders, Call(a, where, args)
  PROVE  Leaves
<1>1. ~Holding(a) /\ ~Holding(a)' /\ OthersHold(a)
  BY GotoOthers DEF Call, At, Holding, Holders
<1> QED BY <1>1 DEF Call, Leaves, HoldersSame, OthersHold, TaskSame, Serving

LEMMA NewCallToken ==
  ASSUME TypeOK, NEW a \in Apps, NewCall(a)
  PROVE  TokenStep
<1> SUFFICES Leaves
  BY DEF TokenStep
<1>1. Takers \subseteq AppPcs /\ Takers \cap Holders = {}
  BY DEF AppPcs, Takers, Holders
<1>2. {"create_take", "play_take", "stop_take", "destroy_take"} \subseteq Takers
  BY DEF Takers
<1>3. CASE CallCreate(a)
  BY <1>1, <1>2, <1>3, CallToken DEF CallCreate
<1>4. CASE CallTonePlay(a)
  BY <1>1, <1>2, <1>4, CallToken DEF CallTonePlay
<1>5. CASE CallToneStop(a)
  BY <1>1, <1>2, <1>5, CallToken DEF CallToneStop
<1>6. CASE CallDestroy(a)
  BY <1>1, <1>2, <1>6, CallToken DEF CallDestroy
<1>7. CASE RecvEncodedData(a)
  <2>1. PostsOther
    BY <1>7, PostEvtKind DEF RecvEncodedData, TypeOK, Lifecycle
  <2> QED BY <1>7, <2>1, PcSame DEF RecvEncodedData, threads, Leaves, TaskSame, Serving
<1> QED BY <1>3, <1>4, <1>5, <1>6, <1>7 DEF NewCall

LEMMA TakeToken ==
  ASSUME TypeOK, NEW a \in Apps, Take(a)
  PROVE  TokenStep
<1>1. PICK where \in Holders : Goto(a, where)
  BY DEF Take, Holders
<1>2. Holding(a)' /\ OthersHold(a)
  BY <1>1, GotoOthers DEF AppPcs
<1>3. ~Holding(a)
  BY DEF Take, Holding, Holders
<1>4. Takes(a)
  BY <1>2, <1>3 DEF Takes, Take, TaskSame, Serving
<1> QED BY <1>4 DEF TokenStep

\* A step of a thread that holds the semaphore and goes somewhere else.
LEMMA LeavesHolding ==
  ASSUME TypeOK, NEW a \in Apps, pc[a] \in Holders, NEW where \in AppPcs \ Holders,
         Goto(a, where), tpc' = tpc
  PROVE  /\ sema' = 1 /\ evts' = evts => TokenStep
         /\ sema' = sema /\ PostsLifecycle => TokenStep
<1>1. Holding(a) /\ ~Holding(a)' /\ OthersHold(a)
  BY GotoOthers DEF Holding
<1>2. TaskSame
  BY DEF TaskSame, Serving
<1> QED BY <1>1, <1>2 DEF TokenStep, Returns, HandsOver

\* A step of a thread that does not hold it and queues nothing.
LEMMA LeavesIdle ==
  ASSUME TypeOK, NEW a \in Apps, pc[a] \notin Holders, NEW where \in AppPcs \ Holders,
         Goto(a, where), UNCHANGED <<sema, tpc, evts>>
  PROVE  TokenStep
<1>1. HoldersSame
  BY GotoOthers DEF Holding, HoldersSame, OthersHold
<1> QED BY <1>1 DEF TokenStep, Leaves, TaskSame, Serving

LEMMA ContinueToken ==
  ASSUME TypeOK, NEW a \in Apps, Continue(a)
  PROVE  TokenStep
<1> DEFINE Outside == {"idle", "create_alloc", "create_return", "create_retake", "create_take"}
<1>0. Outside \subseteq AppPcs \ Holders
  BY DEF AppPcs, Takers, Holders
<1>a. ASSUME NEW why, Crash(why) PROVE TokenStep
  BY <1>a, CrashLeaves DEF TokenStep
<1>b. ASSUME NEW t \in Lifecycle, NEW s \in Ptr, Post(Evt(t, s)) PROVE PostsLifecycle
  BY <1>b, PostEvtKind
<1>c. "CREATE" \in Lifecycle /\ "DESTROY" \in Lifecycle
  BY DEF Lifecycle
<1> HIDE DEF Outside
<1>o. /\ "idle" \in Outside /\ "create_alloc" \in Outside /\ "create_take" \in Outside
      /\ "create_return" \in Outside /\ "create_retake" \in Outside
  BY DEF Outside
<1>1. CASE TakeMissing(a)
  BY <1>1, <1>a DEF TakeMissing
<1>2. CASE CreateRetire(a)
  <2>1. pc[a] \in Holders
    BY <1>2 DEF CreateRetire, At, Holders
  <2>2. (sema' = 1 /\ evts' = evts) \/ (sema' = sema /\ PostsLifecycle)
    BY <1>2, <1>b, <1>c DEF CreateRetire, TypeOK
  <2> QED BY <1>2, <2>1, <2>2, <1>0, <1>o, LeavesHolding DEF CreateRetire
<1>3. CASE CreateAlloc(a)
  <2>1. pc[a] \notin Holders
    BY <1>3 DEF CreateAlloc, At, Holders
  <2>2. CASE Crash("out_of_memory")
    BY <2>2, <1>a
  <2>3. ASSUME NEW where \in Outside, Goto(a, where), UNCHANGED <<sema, tpc, evts>>
        PROVE  TokenStep
    BY <2>1, <2>3, <1>0, LeavesIdle
  <2> QED BY <1>3, <2>2, <2>3, <1>o DEF CreateAlloc
<1>4. CASE CreatePost(a)
  <2>1. pc[a] \in Holders
    BY <1>4 DEF CreatePost, At, Holders
  <2>2. PostsLifecycle
    BY <1>4, <1>b, <1>c DEF CreatePost, TypeOK
  <2> QED BY <1>4, <2>1, <2>2, <1>0, <1>o, LeavesHolding DEF CreatePost
<1>5. CASE CreateReturn(a)
  <2>1. pc[a] \notin Holders
    BY <1>5 DEF CreateReturn, At, Holders
  <2> QED BY <1>5, <2>1, <1>0, <1>o, LeavesIdle DEF CreateReturn, Return
<1>6. CASE DestroyPost(a)
  <2>1. pc[a] \in Holders
    BY <1>6 DEF DestroyPost, At, Holders
  <2>2. PostsLifecycle
    BY <1>6, <1>b, <1>c DEF DestroyPost, TypeOK
  <2> QED BY <1>6, <2>1, <2>2, <1>0, <1>o, LeavesHolding DEF DestroyPost, Return
<1>7. CASE TonePlay(a)
  <2>1. pc[a] \in Holders
    BY <1>7 DEF TonePlay, At, Holders
  <2>2. CASE PlayAttach(a) /\ UNCHANGED <<tpc, cur, audio, fault>>
    <3>1. PostsLifecycle
      BY <2>2, <1>b, <1>c DEF PlayAttach
    <3> QED BY <2>1, <2>2, <3>1, <1>0, <1>o, LeavesHolding DEF PlayAttach, Return
  <2>3. CASE PlayRefused(a) /\ UNCHANGED <<tpc, cur, audio, fault>>
    BY <2>1, <2>3, <1>0, <1>o, LeavesHolding DEF PlayRefused, Return
  <2>4. CASE PlayAlone(a) /\ UNCHANGED <<tpc, cur, audio, fault>>
    BY <2>1, <2>4, <1>0, <1>o, LeavesHolding DEF PlayAlone
  <2> QED BY <1>7, <1>a, <2>2, <2>3, <2>4 DEF TonePlay
<1>8. CASE ToneStop(a)
  <2>1. pc[a] \in Holders
    BY <1>8 DEF ToneStop, At, Holders
  <2>2. (sema' = 1 /\ evts' = evts) \/ (sema' = sema /\ PostsLifecycle)
    BY <1>8, <1>b, <1>c DEF ToneStop, TypeOK
  <2> QED BY <1>8, <2>1, <2>2, <1>0, <1>o, LeavesHolding DEF ToneStop, Return
<1> QED BY <1>1, <1>2, <1>3, <1>4, <1>5, <1>6, <1>7, <1>8 DEF Continue

LEMMA IsrToken ==
  ASSUME TypeOK, Isr
  PROVE  TokenStep
<1>1. CASE SpeakerCrash
  BY <1>1, CrashLeaves DEF SpeakerCrash, TokenStep
<1>2. ASSUME NEW d \in Scenes, RequestRawData(d)
      PROVE  TokenStep
  <2>1. [type |-> "REQ", scene |-> tone, dec |-> d] \in Events
    BY DEF TypeOK, Events
  <2>2. PostsOther
    BY <1>2, <2>1 DEF RequestRawData, PostsOther, Lifecycle
  <2> QED BY <1>2, <2>2, PcSame DEF RequestRawData, threads, TokenStep, Leaves, TaskSame, Serving
<1>3. ASSUME NEW d \in Scenes, PcmConsumed(d)
      PROVE  TokenStep
  <2>1. PostsLifecycle
    BY <1>3, PostEvtKind DEF PcmConsumed, TypeOK, Lifecycle
  <2> QED BY <1>3, <2>1, PcSame DEF PcmConsumed, threads, TokenStep, Steals, TaskSame, Serving
<1> QED BY <1>1, <1>2, <1>3 DEF Isr

\* The audio task between two events.
LEMMA StepToken ==
  ASSUME NEW where, TaskStep(where), Serving' <=> Serving, tpc # "start", where # "start"
  PROVE  TokenStep
BY PcSame DEF TaskStep, threads, TokenStep, Leaves, TaskSame

LEMMA TaskToken ==
  ASSUME TypeOK, Task
  PROVE  TokenStep
<1>a. ASSUME NEW why, Crash(why) PROVE TokenStep
  BY <1>a, CrashLeaves DEF TokenStep
<1>b. ASSUME NEW where \in {"give", "destroy_scene", "destroy_clear"}, TaskStep(where),
             Serving, tpc # "start"
      PROVE  TokenStep
  <2>1. Serving'
    BY <1>b DEF TaskStep, Serving
  <2> QED BY <1>b, <2>1, StepToken
<1>1. CASE TaskStart
  BY <1>1, PcSame DEF TaskStart, TaskAt, threads, TokenStep, Finishes
<1>2. CASE Pop
  <2>1. Head(evts).type \in {"CREATE", "DESTROY", "RECV", "REQ"}
    BY <1>2, EventFields DEF Pop, TypeOK
  <2>2. Serving' <=> Head(evts).type \in Lifecycle
    BY <1>2, <2>1 DEF Pop, Serving, Lifecycle
  <2>3. tpc' # "start"
    BY <1>2 DEF Pop
  <2> QED BY <1>2, <2>2, <2>3, PcSame DEF Pop, TaskAt, threads, TokenStep, Pops
<1>3. CASE HandleCreate
  <2>1. CASE tpc' = "give" /\ UNCHANGED <<sema, evts, pc>>
    BY <1>3, <2>1, PcSame
    DEF HandleCreate, TaskAt, TokenStep, Leaves, TaskSame, Serving
  <2> QED BY <1>3, <1>a, <2>1 DEF HandleCreate, threads
<1>4. CASE HandleDestroyTone
  <2>1. Serving /\ tpc # "start"
    BY <1>4 DEF HandleDestroyTone, TaskAt, Serving
  <2> QED BY <1>4, <1>a, <1>b, <2>1 DEF HandleDestroyTone
<1>5. CASE HandleDestroyScene
  <2>1. Serving /\ tpc # "start"
    BY <1>5 DEF HandleDestroyScene, TaskAt, Serving
  <2> QED BY <1>5, <1>a, <1>b, <2>1 DEF HandleDestroyScene
<1>6. CASE HandleDestroyClear
  BY <1>6, PcSame
  DEF HandleDestroyClear, TaskAt, threads, TokenStep, Leaves, TaskSame, Serving
<1>7. CASE Give
  BY <1>7, PcSame DEF Give, TaskAt, threads, TokenStep, Finishes, Serving
<1>8. CASE Deliver
  <2>1. CASE TaskStep("wait")
    <3>1. ~Serving /\ ~Serving' /\ tpc # "start"
      BY <1>8, <2>1 DEF Deliver, TaskAt, TaskStep, Serving
    <3> QED BY <2>1, <3>1, StepToken
  <2> QED BY <1>8, <1>a, <2>1 DEF Deliver
<1> QED BY <1>1, <1>2, <1>3, <1>4, <1>5, <1>6, <1>7, <1>8 DEF Task

\* Every step of the program is one of the eight.
LEMMA NextToken ==
  ASSUME TypeOK, [Next]_vars
  PROVE  TokenStep
<1>1. CASE UNCHANGED vars
  BY <1>1, PcSame DEF vars, threads, TokenStep, Leaves, TaskSame, Serving
<1> QED BY <1>1, TaskToken, IsrToken, NewCallToken, TakeToken, ContinueToken
    DEF Next, Stopped

-----------------------------------------------------------------------------
(* Life-cycle events in the queue. *)

Pending == \E i \in DOMAIN evts : Queued(i)

\* The queue after an event has been posted.
LEMMA PostQueue ==
  ASSUME evts \in Seq(Events), NEW e \in Events, Post(e)
  PROVE  /\ DOMAIN evts' = DOMAIN evts \cup {Len(evts) + 1}
         /\ Len(evts) + 1 \notin DOMAIN evts
         /\ \A i \in DOMAIN evts : evts'[i] = evts[i]
         /\ evts'[Len(evts) + 1] = e
BY DEF Post

\* The queue after the audio task has popped its first event.
LEMMA PopQueue ==
  ASSUME evts \in Seq(Events), evts # <<>>, evts' = Tail(evts)
  PROVE  /\ 1 \in DOMAIN evts /\ evts[1] = Head(evts)
         /\ \A i \in DOMAIN evts' : i + 1 \in DOMAIN evts /\ evts'[i] = evts[i + 1]
         /\ \A i \in DOMAIN evts \ {1} : i - 1 \in DOMAIN evts' /\ evts'[i - 1] = evts[i]
OBVIOUS

LEMMA OtherKeepsPending ==
  ASSUME TypeOK, evts' = evts \/ PostsOther
  PROVE  Pending' <=> Pending
<1>1. CASE evts' = evts
  BY <1>1 DEF Pending, Queued
<1>2. CASE PostsOther
  <2>1. PICK e \in Events : e.type \notin Lifecycle /\ Post(e)
    BY <1>2 DEF PostsOther
  <2> QED BY <2>1, PostQueue DEF Pending, Queued, TypeOK
<1> QED BY <1>1, <1>2

LEMMA LifecyclePends ==
  ASSUME TypeOK, PostsLifecycle
  PROVE  Pending'
<1>1. PICK e \in Events : e.type \in Lifecycle /\ Post(e)
  BY DEF PostsLifecycle
<1> QED BY <1>1, PostQueue DEF Pending, Queued, TypeOK

LEMMA PopPending ==
  ASSUME TypeOK, evts # <<>>, evts' = Tail(evts), Pending
  PROVE  Head(evts).type \in Lifecycle \/ Pending'
<1>1. PICK i \in DOMAIN evts : Queued(i)
  BY DEF Pending
<1>2. CASE i = 1
  BY <1>1, <1>2, PopQueue DEF Queued, TypeOK
<1>3. CASE i # 1
  BY <1>1, <1>3, PopQueue DEF Pending, Queued, TypeOK
<1> QED BY <1>2, <1>3

-----------------------------------------------------------------------------
LEMMA TokenNeverLostStep ==
  ASSUME TypeOK, TokenNeverLost, TokenStep
  PROVE  TokenNeverLost'
<1> USE DEF TokenNeverLost
<1>1. CASE Leaves
  BY <1>1, OtherKeepsPending DEF Leaves, HoldersSame, TaskSame, Pending
<1>2. CASE Pops
  BY <1>2, PopPending DEF Pops, HoldersSame, Pending, Serving
<1>3. CASE Finishes
  BY <1>3 DEF Finishes
<1>4. CASE Steals
  BY <1>4, LifecyclePends DEF Steals, Pending
<1>5. ASSUME NEW a \in Apps, Takes(a)
      PROVE  TokenNeverLost'
  BY <1>5 DEF Takes
<1>6. ASSUME NEW a \in Apps, Returns(a)
      PROVE  TokenNeverLost'
  BY <1>6 DEF Returns
<1>7. ASSUME NEW a \in Apps, HandsOver(a)
      PROVE  TokenNeverLost'
  BY <1>7, LifecyclePends DEF HandsOver, Pending
<1> QED BY <1>1, <1>2, <1>3, <1>4, <1>5, <1>6, <1>7 DEF TokenStep

\* The semaphore of the scene manager is never lost, whatever the number of
\* callers, the priorities, failing allocations and tones ending by themselves:
\* there is always a thread, an event or the audio task that will give it back.
THEOREM SemaphoreNeverLost == Spec => []TokenNeverLost
<1>1. Init => TokenNeverLost
  BY DEF Init, TokenNeverLost
<1>2. TypeOK /\ TokenNeverLost /\ [Next]_vars => TokenNeverLost'
  BY NextToken, TokenNeverLostStep
<1> QED BY <1>1, <1>2, TypeCorrect, PTL DEF Spec

-----------------------------------------------------------------------------
(* One operation at a time, when no tone ends by itself. *)

\* Before the audio task runs there is nothing to own; a decoder whose input
\* never ends is never draining.
Quiet == \A a \in Apps : ~Holding(a)
StartQuiet == tpc = "start" => sema = 0 /\ Quiet /\ ~Pending
NoDrain == \A d \in Scenes : dec[d] # "draining"
Exclusive == TypeOK /\ OneOperationAtATime /\ StartQuiet /\ NoDrain

LEMMA OnePending ==
  ASSUME TypeOK, ~Pending, PostsLifecycle
  PROVE  \A i, j \in DOMAIN evts' : Queued(i)' /\ Queued(j)' => i = j
<1>1. PICK e \in Events : Post(e)
  BY DEF PostsLifecycle
<1> QED BY <1>1, PostQueue DEF Pending, Queued, TypeOK

LEMMA OtherKeepsOne ==
  ASSUME TypeOK, evts' = evts \/ PostsOther,
         \A i, j \in DOMAIN evts : Queued(i) /\ Queued(j) => i = j
  PROVE  \A i, j \in DOMAIN evts' : Queued(i)' /\ Queued(j)' => i = j
<1>1. CASE evts' = evts
  BY <1>1 DEF Queued
<1>2. CASE PostsOther
  <2>1. PICK e \in Events : e.type \notin Lifecycle /\ Post(e)
    BY <1>2 DEF PostsOther
  <2> QED BY <2>1, PostQueue DEF Queued, TypeOK
<1> QED BY <1>1, <1>2

LEMMA PopKeepsOne ==
  ASSUME TypeOK, evts # <<>>, evts' = Tail(evts),
         \A i, j \in DOMAIN evts : Queued(i) /\ Queued(j) => i = j
  PROVE  /\ \A i, j \in DOMAIN evts' : Queued(i)' /\ Queued(j)' => i = j
         /\ Head(evts).type \in Lifecycle => Pending /\ ~Pending'
         /\ Pending' => Pending
<1>1. \A i \in DOMAIN evts' : i \in Nat /\ i + 1 \in DOMAIN evts /\ (Queued(i)' => Queued(i + 1))
  BY PopQueue DEF Queued, TypeOK
<1>2. Head(evts).type \in Lifecycle => 1 \in DOMAIN evts /\ Queued(1)
  BY PopQueue DEF Queued, TypeOK
<1>3. \A i, j \in DOMAIN evts' : Queued(i)' /\ Queued(j)' => i = j
  <2> SUFFICES ASSUME NEW i \in DOMAIN evts', NEW j \in DOMAIN evts', Queued(i)', Queued(j)'
               PROVE  i = j
    OBVIOUS
  <2>1. i + 1 = j + 1
    BY <1>1
  <2> QED BY <1>1, <2>1
<1>4. ASSUME Head(evts).type \in Lifecycle, NEW i \in DOMAIN evts', Queued(i)'
      PROVE  FALSE
  <2>1. i + 1 = 1
    BY <1>1, <1>2, <1>4
  <2>2. i >= 1
    BY DEF TypeOK
  <2> QED BY <1>1, <2>1, <2>2
<1> QED BY <1>1, <1>2, <1>3, <1>4 DEF Pending

\* The ways one operation follows another.
LEMMA OneOperationStep ==
  ASSUME TypeOK, OneOperationAtATime, StartQuiet, NoDrain, TokenStep
  PROVE  OneOperationAtATime' /\ StartQuiet'
<1> DEFINE Unique == \A i, j \in DOMAIN evts : Queued(i) /\ Queued(j) => i = j
           OneHolder == \A a, b \in Apps : Holding(a) /\ Holding(b) => a = b
           Alone == /\ sema = 1 => Quiet /\ ~Pending /\ ~Serving
                    /\ ~Quiet => ~Serving /\ ~Pending
                    /\ Serving => ~Pending
<1>1. Unique /\ OneHolder /\ Alone
  BY DEF OneOperationAtATime, Pending, Quiet
<1>2. SUFFICES Unique' /\ OneHolder' /\ Alone' /\ StartQuiet'
  BY DEF OneOperationAtATime, Pending, Quiet
<1>3. CASE Leaves
  <2>1. (Pending' <=> Pending) /\ Unique'
    BY <1>1, <1>3, OtherKeepsPending, OtherKeepsOne DEF Leaves
  <2>2. (Quiet' <=> Quiet) /\ OneHolder'
    BY <1>1, <1>3 DEF Leaves, HoldersSame, Quiet
  <2> QED BY <1>1, <1>3, <2>1, <2>2 DEF Leaves, TaskSame, StartQuiet
<1>4. CASE Pops
  <2>1. /\ Unique' /\ (Pending' => Pending)
        /\ Head(evts).type \in Lifecycle => Pending /\ ~Pending'
    BY <1>1, <1>4, PopKeepsOne DEF Pops
  <2>2. (Quiet' <=> Quiet) /\ OneHolder'
    BY <1>1, <1>4 DEF Pops, HoldersSame, Quiet
  <2> QED BY <1>1, <1>4, <2>1, <2>2 DEF Pops, StartQuiet
<1>5. CASE Finishes
  <2>1. Quiet /\ ~Pending
    BY <1>1, <1>5 DEF Finishes, StartQuiet
  <2>2. (Pending' <=> Pending) /\ Unique'
    BY <1>1, <1>5, OtherKeepsPending, OtherKeepsOne DEF Finishes
  <2>3. Quiet' /\ OneHolder'
    BY <1>5, <2>1 DEF Finishes, HoldersSame, Quiet
  <2>4. ~Serving'
    BY <1>5 DEF Finishes, Serving
  <2> QED BY <1>5, <2>1, <2>2, <2>3, <2>4 DEF Finishes, StartQuiet
<1>6. CASE Steals
  BY <1>6 DEF Steals, NoDrain
<1>7. ASSUME NEW a \in Apps, Takes(a)
      PROVE  Unique' /\ OneHolder' /\ Alone' /\ StartQuiet'
  <2>1. Quiet /\ ~Pending /\ ~Serving
    BY <1>1, <1>7 DEF Takes
  <2>2. ~Pending' /\ Unique'
    BY <1>1, <1>7, <2>1, OtherKeepsPending, OtherKeepsOne DEF Takes
  <2>3. OneHolder'
    BY <1>7, <2>1 DEF Takes, OthersHold, Quiet
  <2> QED BY <1>7, <2>1, <2>2, <2>3 DEF Takes, TaskSame, StartQuiet
<1>8. ASSUME NEW a \in Apps, Returns(a)
      PROVE  Unique' /\ OneHolder' /\ Alone' /\ StartQuiet'
  <2>1. ~Quiet /\ ~Pending /\ ~Serving
    BY <1>1, <1>8 DEF Returns, Quiet
  <2>2. ~Pending' /\ Unique'
    BY <1>1, <1>8, <2>1, OtherKeepsPending, OtherKeepsOne DEF Returns
  <2>3. Quiet' /\ OneHolder'
    BY <1>1, <1>8 DEF Returns, OthersHold, Quiet
  <2> QED BY <1>8, <2>1, <2>2, <2>3 DEF Returns, TaskSame, StartQuiet
<1>9. ASSUME NEW a \in Apps, HandsOver(a)
      PROVE  Unique' /\ OneHolder' /\ Alone' /\ StartQuiet'
  <2>1. ~Quiet /\ ~Pending /\ ~Serving /\ sema # 1
    BY <1>1, <1>9 DEF HandsOver, Quiet
  <2>2. Unique'
    BY <1>9, <2>1, OnePending DEF HandsOver
  <2>3. Quiet' /\ OneHolder'
    BY <1>1, <1>9 DEF HandsOver, OthersHold, Quiet
  <2> QED BY <1>9, <2>1, <2>2, <2>3 DEF HandsOver, TaskSame, StartQuiet
<1> QED BY <1>3, <1>4, <1>5, <1>6, <1>7, <1>8, <1>9 DEF TokenStep

\* A tone that never reports its end is never draining.
LEMMA NoDrainStep ==
  ASSUME TonesEnd = FALSE, NoDrain, TypeOK, [Next]_vars
  PROVE  NoDrain'
<1> USE DEF NoDrain
<1>1. CASE dec' = dec
  BY <1>1
<1>2. CASE MixerOff
  BY <1>2 DEF MixerOff
<1>3. ASSUME NEW s, DestroyTone \/ DestroyMain(s)
      PROVE  NoDrain'
  BY <1>1, <1>2, <1>3 DEF DestroyTone, DestroyMain, TypeOK
<1>4. ASSUME NEW s, InitTone(s) \/ InitMain(s)
      PROVE  NoDrain'
  BY <1>4 DEF InitTone, InitMain, TypeOK
<1>5. ASSUME NEW s, Handler(s)
      PROVE  NoDrain'
  BY <1>5 DEF Handler
<1>6. CASE Task
  BY <1>1, <1>3, <1>4, <1>5, <1>6
  DEF Task, TaskStart, Pop, HandleCreate, HandleDestroyTone, HandleDestroyScene,
      HandleDestroyClear, Give, Deliver, Crash, audio
<1>7. CASE Isr
  BY <1>1, <1>7 DEF Isr, SpeakerCrash, RequestRawData, PcmConsumed, Crash, audio
<1>8. ASSUME NEW a \in Apps, NewCall(a) \/ Take(a) \/ Continue(a)
      PROVE  NoDrain'
  BY <1>1, <1>8
  DEF NewCall, CallCreate, CallDestroy, CallTonePlay, CallToneStop, Call, RecvEncodedData,
      Take, Continue, TakeMissing, CreateRetire, CreateAlloc, CreatePost, CreateReturn,
      DestroyPost, TonePlay, ToneStop, Crash, audio
<1>9. CASE UNCHANGED vars
  BY <1>1, <1>9 DEF vars, audio
<1> QED BY <1>6, <1>7, <1>8, <1>9 DEF Next, Stopped

LEMMA ExclusiveInit == Init => Exclusive
<1> SUFFICES ASSUME Init PROVE Exclusive
  OBVIOUS
<1>1. \A a \in Apps : ~Holding(a)
  BY DEF Init, Holding, Holders
<1>2. DOMAIN evts = {} /\ ~Serving /\ sema = 0 /\ NoDrain
  BY DEF Init, Serving, NoDrain
<1> QED BY <1>1, <1>2, TypeInit
        DEF Exclusive, OneOperationAtATime, StartQuiet, Quiet, Pending

LEMMA ExclusiveStep ==
  ASSUME TonesEnd = FALSE, Exclusive, [Next]_vars
  PROVE  Exclusive'
BY TypeNext, NextToken, OneOperationStep, NoDrainStep DEF Exclusive

\* The semaphore admits one life-cycle operation at a time, for any number of
\* threads and scenes, as long as no tone ends by itself.
THEOREM OneOperation ==
  ASSUME TonesEnd = FALSE
  PROVE  Spec => []OneOperationAtATime
<1>1. Exclusive => OneOperationAtATime
  BY DEF Exclusive
<1>2. Exclusive /\ [Next]_vars => Exclusive'
  BY ExclusiveStep
<1> QED BY <1>1, <1>2, ExclusiveInit, PTL DEF Spec

-----------------------------------------------------------------------------
(* The refinement. *)

OwnerForm ==
  /\ tpc = "start" \/ Serving => owner = <<"task">>
  /\ sema = 1 => owner = <<"nobody">>
  /\ Pending => owner = <<"event">>
  /\ \A a \in Apps : Holding(a) => owner = <<"app", a>>

Inv == Exclusive /\ TokenNeverLost

LEMMA OwnerIs == Inv => OwnerForm
<1> SUFFICES ASSUME Inv PROVE OwnerForm
  OBVIOUS
<1> USE DEF Inv, Exclusive, StartQuiet, Quiet, OneOperationAtATime, Pending
<1>1. ASSUME NEW a \in Apps, Holding(a)
      PROVE  owner = <<"app", a>>
  <2>1. tpc # "start" /\ ~Serving /\ sema # 1
    BY <1>1
  <2>2. (CHOOSE b \in Apps : Holding(b)) = a
    BY <1>1
  <2> QED BY <1>1, <2>1, <2>2 DEF owner
<1>2. tpc = "start" \/ Serving => owner = <<"task">>
  BY DEF owner
<1>3. sema = 1 => owner = <<"nobody">>
  BY DEF owner
<1>4. Pending => owner = <<"event">>
  BY DEF owner
<1> QED BY <1>1, <1>2, <1>3, <1>4 DEF OwnerForm

LEMMA OwnerStep ==
  ASSUME Inv, Inv', OwnerForm, OwnerForm', TokenStep
  PROVE  [Owner!Next]_owner
<1> USE DEF Owner!Next, Owner!Nobody, Owner!App, Owner!Event, Owner!AudioTask
<1>0. TypeOK /\ OneOperationAtATime /\ StartQuiet /\ NoDrain /\ TokenNeverLost
  BY DEF Inv, Exclusive
<1>1. CASE Leaves
  <2>1. CASE tpc = "start" \/ Serving
    BY <1>1, <2>1 DEF Leaves, TaskSame, OwnerForm
  <2>2. CASE sema = 1
    BY <1>1, <2>2 DEF Leaves, OwnerForm
  <2>3. CASE Pending
    BY <1>0, <1>1, <2>3, OtherKeepsPending DEF Leaves, OwnerForm
  <2>4. CASE \E a \in Apps : Holding(a)
    BY <1>1, <2>4 DEF Leaves, HoldersSame, OwnerForm
  <2> QED BY <1>0, <2>1, <2>2, <2>3, <2>4 DEF TokenNeverLost, Pending
<1>2. CASE Pops
  <2>0. tpc = "wait" /\ ~Serving
    BY <1>2 DEF Pops, Serving
  <2>1. CASE Head(evts).type \in Lifecycle
    <3>1. Pending
      BY <1>0, <1>2, <2>1, PopQueue DEF Pops, Pending, Queued, TypeOK
    <3> QED BY <1>2, <2>1, <3>1 DEF Pops, OwnerForm, Owner!Serve
  <2>2. CASE Head(evts).type \notin Lifecycle
    <3>1. CASE sema = 1
      BY <1>2, <3>1 DEF Pops, OwnerForm
    <3>2. CASE Pending
      BY <1>0, <1>2, <2>2, <3>2, PopPending DEF Pops, OwnerForm
    <3>3. CASE \E a \in Apps : Holding(a)
      BY <1>2, <3>3 DEF Pops, HoldersSame, OwnerForm
    <3> QED BY <1>0, <2>0, <3>1, <3>2, <3>3 DEF TokenNeverLost, Pending
  <2> QED BY <2>1, <2>2
<1>3. CASE Finishes
  BY <1>3 DEF Finishes, OwnerForm, Owner!Finish
<1>4. CASE Steals
  BY <1>0, <1>4 DEF Steals, NoDrain
<1>5. ASSUME NEW a \in Apps, Takes(a)
      PROVE  Owner!Next
  BY <1>5 DEF Takes, OwnerForm, Owner!Take
<1>6. ASSUME NEW a \in Apps, Returns(a)
      PROVE  Owner!Next
  BY <1>6 DEF Returns, OwnerForm, Owner!Give
<1>7. ASSUME NEW a \in Apps, HandsOver(a)
      PROVE  Owner!Next
  <2>1. Pending'
    BY <1>0, <1>7, LifecyclePends DEF HandsOver
  <2> QED BY <1>7, <2>1 DEF HandsOver, OwnerForm, Owner!Queue
<1> QED BY <1>1, <1>2, <1>3, <1>4, <1>5, <1>6, <1>7 DEF TokenStep

\* The audio scene manager implements SceneOwner, for any number of threads and
\* scenes, as long as no tone ends by itself: the right to change the scenes
\* goes from a thread to its event, from the event to the audio task, and back.
THEOREM ImplementsSingleOwner ==
  ASSUME TonesEnd = FALSE
  PROVE  Spec => SingleOwner
<1>1. Init => owner = <<"task">>
  BY DEF Init, owner
<1>2. Init => Owner!Init
  BY <1>1 DEF Owner!Init, Owner!AudioTask
<1>3. Exclusive /\ [Next]_vars => Exclusive'
  BY ExclusiveStep
<1>4. Init => Inv
  BY ExclusiveInit DEF Inv, Init, TokenNeverLost
<1>5. Inv /\ [Next]_vars => Inv'
  BY <1>3, NextToken, TokenNeverLostStep DEF Inv, Exclusive
<1>6. Inv /\ Inv' /\ OwnerForm /\ OwnerForm' /\ [Next]_vars => [Owner!Next]_owner
  BY NextToken, OwnerStep DEF Inv, Exclusive
<1> QED BY <1>2, <1>4, <1>5, <1>6, OwnerIs, PTL DEF Spec, SingleOwner, Owner!Spec

-----------------------------------------------------------------------------
(* The scenes themselves, for one caller below the audio task in priority. *)

\* The setting of these theorems: the audio task preempts its only caller, no
\* tone ends by itself, and memory is never short of the two scenes that one
\* caller can have.
Undisturbed ==
  /\ TaskPreempts = TRUE /\ TonesEnd = FALSE /\ AllocMayFail = FALSE
  /\ \E a : Apps = {a}
  /\ \E s, t \in Scenes : s # t

\* The memory in use, and the decoders.
OnlyIn(S) == \A s \in Scenes : life[s] # "free" => s \in S
NoDecoders == \A s \in Scenes : dec[s] = "none"

\* Globals, memory, speaker and decoder module agree.
CoherentTone ==
  /\ life[tone] = "inited" /\ kind[tone] = "tone"
  /\ tone = main \/ kind[main] = "host"
CoherentMain ==
  /\ life[main] = "inited" /\ hw = main
  /\ mixer <=> kind[main] # "solo"
  /\ kind[main] = "tone" => tone = main
Coherent ==
  /\ OnlyIn({main, tone})
  /\ \A s \in Scenes : dec[s] = IF s = tone THEN "decoding" ELSE "none"
  /\ main = NULL => tone = NULL /\ hw = NULL /\ ~mixer
  /\ main # NULL => CoherentMain
  /\ tone # NULL => CoherentTone

\* A scene that has been allocated and not yet initialised: as the main scene,
\* or as the tone of a host.
FreshMain(s) ==
  /\ s # NULL /\ main = s /\ tone = NULL /\ hw = NULL /\ ~mixer
  /\ life[s] = "allocated" /\ OnlyIn({s}) /\ NoDecoders
FreshTone(s) ==
  /\ s # NULL /\ tone = s /\ main \notin {NULL, s} /\ hw = main /\ mixer
  /\ life[s] = "allocated" /\ kind[s] = "tone"
  /\ life[main] = "inited" /\ kind[main] = "host"
  /\ OnlyIn({main, s}) /\ NoDecoders

\* What holds while an event is queued or served, and what its caller does.
CreatingMain(s) ==
  FreshMain(s) /\ \A a \in Apps : pc[a] = "create_return" /\ kind[s] = arg[a].kind
CreatingTone(s) == FreshTone(s) /\ \A a \in Apps : pc[a] = "idle"
Creating(s) == CreatingMain(s) \/ CreatingTone(s)
Retiring(s) ==
  \A a \in Apps : pc[a] \in {"idle", "create_alloc"} /\ (pc[a] = "create_alloc" => s = main)
Destroying(s) == Coherent /\ s \in {main, tone} /\ Retiring(s)
Emptied == hw = NULL /\ ~mixer /\ OnlyIn({}) /\ NoDecoders
Cleared(s) ==
  /\ s # NULL /\ tone = NULL /\ Retiring(s)
  /\ s = main => Emptied
  /\ s # main => Coherent

\* No life-cycle event is under way: the caller's next step is safe, or it is
\* about to queue the creation of the main scene.
Calling(a) ==
  /\ pc[a] \notin {"create_retake", "create_post"}
  /\ pc[a] = "create_alloc" => main = NULL
  /\ pc[a] = "create_return" => main # NULL /\ kind[main] = arg[a].kind
  /\ pc[a] \in {"destroy_take", "destroy_post"} => handle[a] \in {main, tone}
Rest == Coherent /\ \A a \in Apps : Calling(a)
Prepared ==
  /\ FreshMain(main) /\ evts = <<>> /\ tpc = "wait"
  /\ \A a \in Apps : pc[a] \in {"create_retake", "create_post"} /\ kind[main] = arg[a].kind

Served(e) ==
  /\ e.type = "CREATE" => Creating(e.scene)
  /\ e.type = "DESTROY" => Destroying(e.scene)
Phases ==
  /\ tpc \in {"start", "wait", "deliver", "give"} /\ ~Pending => Rest \/ Prepared
  /\ Pending => Served(evts[1])
  /\ tpc = "create" => Creating(cur.scene)
  /\ tpc = "destroy_tone" => Destroying(cur.scene)
  /\ tpc = "destroy_scene" =>
       Destroying(cur.scene) /\ cur.scene # NULL /\ tone \in {NULL, cur.scene}
  /\ tpc = "destroy_clear" => Cleared(cur.scene)

\* A life-cycle event is first in the queue and served at once; only the
\* destruction of a scene that is not there names none.
InOrder ==
  /\ \A i \in DOMAIN evts :
       /\ evts[i].scene = NULL => evts[i].type = "DESTROY"
       /\ Queued(i) => i = 1 /\ tpc = "wait"
  /\ tpc = "deliver" => cur.scene # NULL /\ cur.type \notin Lifecycle
TonesAreTones == \A a \in Apps : arg[a].viaTone <=> arg[a].kind = "tone"

SceneInv == Exclusive /\ Phases /\ InOrder /\ TonesAreTones /\ NoFault

-----------------------------------------------------------------------------
\* A scene in memory can be followed.
LEMMA NotDead ==
  ASSUME NEW s, NULL \notin Scenes
  PROVE  Dead(s) <=> ~(s \in Scenes /\ life[s] # "free")
BY DEF Dead

\* The globals that are not NULL are addresses.
LEMMA Addresses ==
  ASSUME TypeOK
  PROVE  /\ main # NULL => main \in Scenes
         /\ tone # NULL => tone \in Scenes
         /\ cur.scene # NULL => cur.scene \in Scenes
BY EventFields DEF TypeOK, Ptr

\* A caller runs only when the audio task has nothing to do.
LEMMA CallerAlone ==
  ASSUME Undisturbed, SceneInv, MayRun
  PROVE  /\ tpc = "wait" /\ evts = <<>> /\ ~Pending
         /\ Rest \/ Prepared
<1>1. tpc = "wait" /\ evts = <<>>
  BY DEF Undisturbed, MayRun
<1>2. ~Pending
  BY <1>1 DEF Pending
<1> QED BY <1>1, <1>2 DEF SceneInv, Phases

\* Queueing an event on an empty queue.
LEMMA FirstPosted ==
  ASSUME TypeOK, evts = <<>>, NEW e \in Events, Post(e)
  PROVE  /\ DOMAIN evts' = {1} /\ evts'[1] = e
         /\ Pending' <=> e.type \in Lifecycle
<1>1. DOMAIN evts' = {1} /\ evts'[1] = e
  BY DEF Post
<1> QED BY <1>1 DEF Pending, Queued

\* The caller queues a life-cycle event and the audio task will serve it.
LEMMA CallerPosts ==
  ASSUME SceneInv, tpc = "wait", tpc' = "wait", evts = <<>>, cur' = cur, fault' = fault,
         TonesAreTones', NEW t \in Lifecycle, NEW s \in Ptr, Post(Evt(t, s)),
         t = "CREATE" => Creating(s)', t = "DESTROY" => Destroying(s)'
  PROVE  Phases' /\ InOrder' /\ TonesAreTones' /\ NoFault'
<1>1. TypeOK /\ NoFault
  BY DEF SceneInv, Exclusive
<1>2. Evt(t, s) \in Events /\ Evt(t, s).type = t /\ Evt(t, s).scene = s
  BY EvtIsEvent DEF Evt
<1>3. DOMAIN evts' = {1} /\ evts'[1] = Evt(t, s) /\ Pending'
  BY <1>1, <1>2, FirstPosted
<1>4. s = NULL => t = "DESTROY"
  BY DEF Lifecycle, Creating, CreatingMain, CreatingTone, FreshMain, FreshTone
<1>5. Served(evts[1])'
  BY <1>2, <1>3 DEF Served
<1>6. Phases'
  BY <1>3, <1>5 DEF Phases
<1>7. InOrder'
  BY <1>2, <1>3, <1>4 DEF InOrder
<1> QED BY <1>1, <1>6, <1>7 DEF NoFault

\* A step of the caller that queues nothing and keeps the queue empty.
LEMMA CallerQuiet ==
  ASSUME SceneInv, tpc = "wait", tpc' = "wait", evts = <<>>, evts' = <<>>, cur' = cur,
         fault' = fault, TonesAreTones', Rest' \/ Prepared'
  PROVE  Phases' /\ InOrder' /\ TonesAreTones' /\ NoFault'
<1>1. ~Pending' /\ NoFault'
  BY DEF SceneInv, Pending, NoFault
<1>2. InOrder'
  BY DEF InOrder
<1> QED BY <1>1, <1>2 DEF Phases

\* Nothing that the data predicates read has changed.
DataSame == UNCHANGED <<main, tone, memory, audio>>

LEMMA CoherentSame ==
  ASSUME DataSame
  PROVE  /\ Coherent' <=> Coherent
         /\ \A s : FreshMain(s)' <=> FreshMain(s)
         /\ \A s : FreshTone(s)' <=> FreshTone(s)
<1> USE DEF DataSame, memory, audio
<1>1. Coherent' <=> Coherent
  BY DEF Coherent, CoherentMain, CoherentTone, OnlyIn
<1>2. ASSUME NEW s PROVE FreshMain(s)' <=> FreshMain(s)
  BY DEF FreshMain, OnlyIn, NoDecoders
<1>3. ASSUME NEW s PROVE FreshTone(s)' <=> FreshTone(s)
  BY DEF FreshTone, OnlyIn, NoDecoders
<1> QED BY <1>1, <1>2, <1>3

-----------------------------------------------------------------------------
(* The caller. *)

\* The only caller's program counter and arguments after a step of it.
LEMMA OnlyCaller ==
  ASSUME Undisturbed, TypeOK, NEW a \in Apps, NEW where, Goto(a, where)
  PROVE  /\ pc'[a] = where
         /\ \A b \in Apps : b = a
BY DEF Undisturbed, TypeOK, Goto

LEMMA CallStep ==
  ASSUME Undisturbed, SceneInv, NEW a \in Apps,
         NEW where \in Takers \ {"create_retake"}, NEW args, Call(a, where, args),
         args.viaTone <=> args.kind = "tone",
         where = "destroy_take" => handle[a] \in {main, tone}
  PROVE  Phases' /\ InOrder' /\ TonesAreTones' /\ NoFault'
<1>0. TypeOK /\ TonesAreTones
  BY DEF SceneInv, Exclusive
<1>1. tpc = "wait" /\ evts = <<>> /\ (Rest \/ Prepared)
  BY CallerAlone DEF Call, At
<1>2. pc[a] = "idle"
  BY DEF Call, At
<1>3. Rest
  BY <1>1, <1>2 DEF Prepared
<1>4. pc'[a] = where /\ \A b \in Apps : b = a
  BY <1>0, OnlyCaller DEF Call
<1>5. Coherent'
  BY <1>3, CoherentSame DEF Rest, DataSame, Call
<1>6. Calling(a)'
  BY <1>4 DEF Calling, Call, Takers
<1>7. Rest'
  BY <1>4, <1>5, <1>6 DEF Rest
<1>8. TonesAreTones'
  BY <1>0, <1>4 DEF TonesAreTones, Call, TypeOK
<1> QED BY <1>1, <1>7, <1>8, CallerQuiet DEF Call

LEMMA CallKeeps ==
  ASSUME Undisturbed, SceneInv, NEW a \in Apps, NewCall(a)
  PROVE  Phases' /\ InOrder' /\ TonesAreTones' /\ NoFault'
<1> USE DEF Takers
<1>1. CASE CallCreate(a)
  <2>1. PICK k \in MainKinds : Call(a, "create_take", [NoArg EXCEPT !.kind = k])
    BY <1>1 DEF CallCreate
  <2>2. k # "tone"
    BY SceneAssumption
  <2> QED BY <2>1, <2>2, CallStep DEF NoArg
<1>2. CASE CallTonePlay(a)
  <2>1. PICK args : /\ args = [NoArg EXCEPT !.kind = "tone", !.viaTone = TRUE]
                    /\ Call(a, "play_take", args)
    BY <1>2 DEF CallTonePlay
  <2>2. args.viaTone = TRUE /\ args.kind = "tone"
    BY <2>1 DEF NoArg
  <2>3. "play_take" \in Takers \ {"create_retake"} /\ "play_take" # "destroy_take"
    OBVIOUS
  <2> HIDE DEF Takers
  <2> QED BY <2>1, <2>2, <2>3, CallStep
<1>3. CASE CallToneStop(a)
  <2>1. PICK i \in BOOLEAN : Call(a, "stop_take", [NoArg EXCEPT !.immediate = i])
    BY <1>3 DEF CallToneStop
  <2> QED BY <2>1, CallStep DEF NoArg
<1>4. CASE CallDestroy(a)
  BY <1>4, CallStep DEF CallDestroy, NoArg
<1>5. CASE RecvEncodedData(a)
  <2>0. TypeOK /\ NoFault /\ TonesAreTones
    BY DEF SceneInv, Exclusive
  <2>1. tpc = "wait" /\ evts = <<>> /\ (Rest \/ Prepared)
    BY <1>5, CallerAlone DEF RecvEncodedData, At
  <2>2. pc[a] = "idle" /\ Rest
    BY <1>5, <2>1 DEF RecvEncodedData, At, Prepared
  <2>3. handle[a] \in Ptr /\ handle[a] # NULL
    BY <1>5, <2>0 DEF RecvEncodedData, TypeOK
  <2>4. /\ Evt("RECV", handle[a]) \in Events
        /\ Evt("RECV", handle[a]).type = "RECV" /\ Evt("RECV", handle[a]).scene = handle[a]
    BY <2>3, EvtIsEvent DEF Evt
  <2>5. DOMAIN evts' = {1} /\ evts'[1] = Evt("RECV", handle[a]) /\ ~Pending'
    BY <1>5, <2>0, <2>1, <2>4, FirstPosted DEF RecvEncodedData, Lifecycle
  <2>6. Rest'
    <3>1. Coherent'
      BY <1>5, <2>2, CoherentSame DEF Rest, DataSame, RecvEncodedData
    <3> QED BY <1>5, <2>2, <3>1 DEF RecvEncodedData, Rest, Calling, threads, memory
  <2>7. InOrder'
    BY <1>5, <2>1, <2>3, <2>4, <2>5 DEF RecvEncodedData, InOrder, Queued, Lifecycle
  <2> QED BY <1>5, <2>0, <2>1, <2>5, <2>6, <2>7
          DEF RecvEncodedData, Phases, NoFault, TonesAreTones, threads
<1> QED BY <1>1, <1>2, <1>3, <1>4, <1>5 DEF NewCall

\* The semaphore, once taken: a create resumes where it prepared the scene.
LEMMA TakeKeeps ==
  ASSUME Undisturbed, SceneInv, NEW a \in Apps, Take(a)
  PROVE  Phases' /\ InOrder' /\ TonesAreTones' /\ NoFault'
<1>0. TypeOK /\ TonesAreTones
  BY DEF SceneInv, Exclusive
<1>1. tpc = "wait" /\ evts = <<>> /\ (Rest \/ Prepared)
  BY CallerAlone DEF Take
<1>2. \A b \in Apps : b = a
  BY DEF Undisturbed
<1>3. TonesAreTones'
  BY <1>0 DEF TonesAreTones, Take
<1>4. CASE Rest
  <2>1. Coherent'
    BY <1>4, CoherentSame DEF Rest, DataSame, Take
  <2>2. Calling(a)'
    BY <1>0, <1>4 DEF Calling, Rest, Take, Goto, TypeOK
  <2>3. Rest'
    BY <1>2, <2>1, <2>2 DEF Rest
  <2> QED BY <1>1, <1>3, <2>3, CallerQuiet DEF Take
<1>5. CASE Prepared
  <2>1. FreshMain(main)'
    BY <1>5, CoherentSame DEF Prepared, DataSame, Take
  <2>2. pc'[a] = "create_post"
    BY <1>0, <1>5 DEF Prepared, Take, Goto, TypeOK
  <2>3. Prepared'
    BY <1>1, <1>2, <1>5, <2>1, <2>2 DEF Prepared, Take, memory
  <2> QED BY <1>1, <1>3, <2>3, CallerQuiet DEF Take
<1> QED BY <1>1, <1>4, <1>5

\* A call that returns leaves the caller idle, with no arguments.
LEMMA ReturnKeeps ==
  ASSUME Undisturbed, TypeOK, TonesAreTones, NEW a \in Apps, Return(a)
  PROVE  /\ pc'[a] = "idle" /\ TonesAreTones'
         /\ \A b \in Apps : b = a
<1>1. pc'[a] = "idle" /\ \A b \in Apps : b = a
  BY OnlyCaller DEF Return
<1> QED BY <1>1 DEF Return, TonesAreTones, TypeOK, NoArg

LEMMA RetireKeeps ==
  ASSUME Undisturbed, SceneInv, NEW a \in Apps, CreateRetire(a)
  PROVE  Phases' /\ InOrder' /\ TonesAreTones' /\ NoFault'
<1>0. TypeOK /\ TonesAreTones
  BY DEF SceneInv, Exclusive
<1>1. tpc = "wait" /\ evts = <<>> /\ (Rest \/ Prepared)
  BY CallerAlone DEF CreateRetire, At
<1>2. Rest
  BY <1>1 DEF CreateRetire, At, Prepared
<1>3. pc'[a] = "create_alloc" /\ \A b \in Apps : b = a
  BY <1>0, OnlyCaller DEF CreateRetire
<1>4. Coherent' /\ TonesAreTones'
  BY <1>0, <1>2, CoherentSame DEF Rest, DataSame, CreateRetire, TonesAreTones
<1>5. CASE main # NULL /\ Post(Evt("DESTROY", main))
  <2>1. Destroying(main)'
    BY <1>3, <1>4, <1>5 DEF Destroying, Retiring, CreateRetire
  <2>2. main \in Scenes
    BY <1>0, <1>5, Addresses
  <2>3. main' = main /\ cur' = cur /\ tpc' = tpc /\ fault' = fault
    BY DEF CreateRetire
  <2>4. ASSUME NEW s \in Scenes, s = main PROVE Destroying(s)'
    BY <2>1, <2>3, <2>4 DEF Destroying, Retiring
  <2> QED BY <1>1, <1>4, <1>5, <2>2, <2>3, <2>4, CallerPosts DEF Lifecycle, Ptr
<1>6. CASE main = NULL /\ evts' = evts
  <2>1. Calling(a)'
    BY <1>3, <1>6 DEF Calling, CreateRetire
  <2>2. Rest'
    BY <1>3, <1>4, <2>1 DEF Rest
  <2> QED BY <1>1, <1>4, <1>6, <2>2, CallerQuiet DEF CreateRetire
<1> QED BY <1>2, <1>5, <1>6 DEF CreateRetire, Rest, Coherent

LEMMA AllocKeeps ==
  ASSUME Undisturbed, SceneInv, NEW a \in Apps, CreateAlloc(a)
  PROVE  Phases' /\ InOrder' /\ TonesAreTones' /\ NoFault'
<1>0. TypeOK /\ TonesAreTones
  BY DEF SceneInv, Exclusive
<1>1. tpc = "wait" /\ evts = <<>> /\ (Rest \/ Prepared)
  BY CallerAlone DEF CreateAlloc, At
<1>2. pc[a] = "create_alloc" /\ Rest
  BY <1>1 DEF CreateAlloc, At, Prepared
<1>3. main = NULL /\ tone = NULL /\ hw = NULL /\ ~mixer
  BY <1>2 DEF Rest, Calling, Coherent
<1>4. \A x \in Scenes : life[x] = "free" /\ dec[x] = "none"
  BY <1>2, <1>3, SceneAssumption DEF Rest, Coherent, OnlyIn
<1>5. ~OutOfMemory
  BY <1>4 DEF OutOfMemory, Undisturbed
<1>6. PICK s \in Scenes :
        /\ Allocated(s, arg[a].kind) /\ main' = s /\ Goto(a, "create_retake")
        /\ UNCHANGED <<tone, sema, evts, tpc, cur, arg, handle, audio, fault>>
  BY <1>5, SceneAssumption DEF CreateAlloc, Allocated, Undisturbed, Ptr
<1>7. /\ life' = [life EXCEPT ![s] = "allocated"]
      /\ kind' = [kind EXCEPT ![s] = arg[a].kind]
  BY <1>6, SceneAssumption DEF Allocated
<1>8. pc'[a] = "create_retake" /\ \A b \in Apps : b = a
  BY <1>0, <1>6, OnlyCaller
<1>9. FreshMain(main)'
  <2>1. OnlyIn({s})' /\ life'[s] = "allocated"
    BY <1>0, <1>4, <1>7 DEF OnlyIn, TypeOK
  <2>2. NoDecoders'
    BY <1>4, <1>6 DEF NoDecoders, audio
  <2> QED BY <1>3, <1>6, <2>1, <2>2, SceneAssumption DEF FreshMain, audio, OnlyIn
<1>10. kind'[main'] = arg'[a].kind
  BY <1>0, <1>6, <1>7 DEF TypeOK
<1>11. Prepared'
  BY <1>1, <1>6, <1>8, <1>9, <1>10 DEF Prepared
<1>12. TonesAreTones'
  BY <1>0, <1>6 DEF TonesAreTones
<1> QED BY <1>1, <1>6, <1>11, <1>12, CallerQuiet

LEMMA CreatePostKeeps ==
  ASSUME Undisturbed, SceneInv, NEW a \in Apps, CreatePost(a)
  PROVE  Phases' /\ InOrder' /\ TonesAreTones' /\ NoFault'
<1>0. TypeOK /\ TonesAreTones
  BY DEF SceneInv, Exclusive
<1>1. tpc = "wait" /\ evts = <<>> /\ (Rest \/ Prepared)
  BY CallerAlone DEF CreatePost, At
<1>2. Prepared
  BY <1>1 DEF CreatePost, At, Rest, Calling
<1>3. pc'[a] = "create_return" /\ \A b \in Apps : b = a
  BY <1>0, OnlyCaller DEF CreatePost
<1>4. FreshMain(main)' /\ TonesAreTones'
  BY <1>0, <1>2, CoherentSame DEF Prepared, DataSame, CreatePost, TonesAreTones
<1>5. main \in Scenes
  BY <1>0, <1>2, Addresses DEF Prepared, FreshMain
<1>6. ASSUME NEW s \in Scenes, s = main PROVE Creating(s)'
  <2>1. FreshMain(s)'
    BY <1>4, <1>6 DEF FreshMain, OnlyIn, CreatePost
  <2>2. kind'[s] = arg'[a].kind
    BY <1>2, <1>6 DEF Prepared, CreatePost, memory
  <2> QED BY <1>3, <2>1, <2>2 DEF Creating, CreatingMain
<1> QED BY <1>1, <1>4, <1>5, <1>6, CallerPosts DEF CreatePost, Lifecycle, Ptr

\* audio_tone_scene is set to what it already was, or not at all.
LEMMA CreateReturnKeeps ==
  ASSUME Undisturbed, SceneInv, NEW a \in Apps, CreateReturn(a)
  PROVE  Phases' /\ InOrder' /\ TonesAreTones' /\ NoFault'
<1>0. TypeOK /\ TonesAreTones
  BY DEF SceneInv, Exclusive
<1>1. tpc = "wait" /\ evts = <<>> /\ (Rest \/ Prepared)
  BY CallerAlone DEF CreateReturn, At
<1>2. pc[a] = "create_return" /\ Rest
  BY <1>1 DEF CreateReturn, At, Prepared
<1>3. main # NULL /\ kind[main] = arg[a].kind
  BY <1>2 DEF Rest, Calling
<1>4. tone' = tone
  BY <1>0, <1>2, <1>3 DEF CreateReturn, TonesAreTones, Rest, Coherent, CoherentMain
<1>5. pc'[a] = "idle" /\ TonesAreTones' /\ \A b \in Apps : b = a
  BY <1>0, ReturnKeeps DEF CreateReturn
<1>6. Coherent'
  BY <1>2, <1>4, CoherentSame DEF Rest, DataSame, CreateReturn
<1>7. Rest'
  BY <1>5, <1>6 DEF Rest, Calling
<1> QED BY <1>1, <1>5, <1>7, CallerQuiet DEF CreateReturn

LEMMA DestroyPostKeeps ==
  ASSUME Undisturbed, SceneInv, NEW a \in Apps, DestroyPost(a)
  PROVE  Phases' /\ InOrder' /\ TonesAreTones' /\ NoFault'
<1>0. TypeOK /\ TonesAreTones
  BY DEF SceneInv, Exclusive
<1>1. tpc = "wait" /\ evts = <<>> /\ (Rest \/ Prepared)
  BY CallerAlone DEF DestroyPost, At
<1>2. pc[a] = "destroy_post" /\ Rest
  BY <1>1 DEF DestroyPost, At, Prepared
<1>3. handle[a] \in {main, tone}
  BY <1>2 DEF Rest, Calling
<1>4. handle[a] \in Ptr
  BY <1>0 DEF TypeOK
<1>5. pc'[a] = "idle" /\ TonesAreTones' /\ \A b \in Apps : b = a
  BY <1>0, ReturnKeeps DEF DestroyPost
<1>6. Coherent'
  BY <1>2, CoherentSame DEF Rest, DataSame, DestroyPost
<1>7. ASSUME NEW s \in Ptr, s = handle[a] PROVE Destroying(s)'
  BY <1>3, <1>5, <1>6, <1>7 DEF Destroying, Retiring, DestroyPost
<1> QED BY <1>1, <1>4, <1>5, <1>7, CallerPosts DEF DestroyPost, Lifecycle

\* audio_tone_scene_play: the main scene is followed only while it is in memory,
\* and a host has room for its tone.
LEMMA TonePlayKeeps ==
  ASSUME Undisturbed, SceneInv, NEW a \in Apps, TonePlay(a)
  PROVE  Phases' /\ InOrder' /\ TonesAreTones' /\ NoFault'
<1>0. TypeOK /\ TonesAreTones
  BY DEF SceneInv, Exclusive
<1>1. tpc = "wait" /\ evts = <<>> /\ (Rest \/ Prepared)
  BY CallerAlone DEF TonePlay, At
<1>2. Rest /\ Coherent
  BY <1>1 DEF TonePlay, At, Prepared, Rest
<1>3. main # NULL => main \in Scenes /\ life[main] = "inited" /\ ~Dead(main)
  BY <1>0, <1>2, Addresses, NotDead, SceneAssumption DEF Coherent, CoherentMain
<1>4. main # NULL /\ tone = NULL => ~OutOfMemory
  <2> SUFFICES ASSUME main # NULL, tone = NULL PROVE ~OutOfMemory
    OBVIOUS
  <2>1. PICK s \in Scenes : s # main
    BY DEF Undisturbed
  <2>2. life[s] = "free"
    BY <1>2, <2>1, SceneAssumption DEF Coherent, OnlyIn
  <2> QED BY <2>2 DEF OutOfMemory
<1>5. CASE PlayAttach(a) /\ UNCHANGED <<tpc, cur, audio, fault>>
  <2>1. /\ main # NULL /\ tone = NULL /\ kind[main] = "host" /\ main' = main
        /\ Return(a)
    BY <1>5 DEF PlayAttach
  <2>2. PICK s \in Scenes : Allocated(s, "tone") /\ tone' = s /\ Post(Evt("CREATE", s))
    BY <1>5, SceneAssumption DEF PlayAttach, Allocated, Undisturbed, Ptr
  <2>3. /\ life[s] = "free"
        /\ life' = [life EXCEPT ![s] = "allocated"]
        /\ kind' = [kind EXCEPT ![s] = "tone"]
    BY <2>2, SceneAssumption DEF Allocated
  <2>4. main \in Scenes /\ main # s /\ s # NULL
    BY <1>3, <2>1, <2>3, SceneAssumption
  <2>5. hw' = main /\ mixer' /\ dec' = dec
    BY <1>2, <1>5, <2>1 DEF Coherent, CoherentMain, audio
  <2>6. /\ life'[s] = "allocated" /\ kind'[s] = "tone"
        /\ life'[main] = "inited" /\ kind'[main] = "host"
    BY <1>0, <1>3, <2>1, <2>3, <2>4 DEF TypeOK
  <2>7. OnlyIn({main, s})' /\ NoDecoders'
    BY <1>0, <1>2, <2>1, <2>3, <2>5, SceneAssumption DEF OnlyIn, NoDecoders, Coherent, TypeOK
  <2>8. FreshTone(s)'
    BY <2>1, <2>2, <2>4, <2>5, <2>6, <2>7 DEF FreshTone, OnlyIn
  <2>9. /\ pc'[a] = "idle" /\ TonesAreTones'
        /\ \A b \in Apps : b = a
    BY <1>0, <2>1, ReturnKeeps
  <2>10. Creating(s)'
    BY <2>8, <2>9 DEF Creating, CreatingTone
  <2> QED BY <1>1, <1>5, <2>2, <2>9, <2>10, CallerPosts DEF Lifecycle, Ptr
<1>6. CASE PlayRefused(a) /\ UNCHANGED <<tpc, cur, audio, fault>>
  <2>1. pc'[a] = "idle" /\ TonesAreTones' /\ \A b \in Apps : b = a
    BY <1>0, <1>6, ReturnKeeps DEF PlayRefused
  <2>2. Coherent'
    BY <1>2, <1>6, CoherentSame DEF DataSame, PlayRefused
  <2>3. Rest'
    BY <2>1, <2>2 DEF Rest, Calling
  <2> QED BY <1>1, <1>6, <2>1, <2>3, CallerQuiet DEF PlayRefused
<1>7. CASE PlayAlone(a) /\ UNCHANGED <<tpc, cur, audio, fault>>
  <2>1. pc'[a] = "create_take" /\ \A b \in Apps : b = a
    BY <1>0, <1>7, OnlyCaller DEF PlayAlone
  <2>2. Coherent' /\ TonesAreTones'
    BY <1>0, <1>2, <1>7, CoherentSame DEF DataSame, PlayAlone, TonesAreTones
  <2>3. Rest'
    BY <2>1, <2>2 DEF Rest, Calling
  <2> QED BY <1>1, <1>7, <2>2, <2>3, CallerQuiet DEF PlayAlone
<1> QED BY <1>3, <1>4, <1>5, <1>6, <1>7 DEF TonePlay

LEMMA StopKeeps ==
  ASSUME Undisturbed, SceneInv, NEW a \in Apps, ToneStop(a)
  PROVE  Phases' /\ InOrder' /\ TonesAreTones' /\ NoFault'
<1>0. TypeOK /\ TonesAreTones
  BY DEF SceneInv, Exclusive
<1>1. tpc = "wait" /\ evts = <<>> /\ (Rest \/ Prepared)
  BY CallerAlone DEF ToneStop, At
<1>2. Rest /\ Coherent
  BY <1>1 DEF ToneStop, At, Prepared, Rest
<1>3. pc'[a] = "idle" /\ TonesAreTones' /\ \A b \in Apps : b = a
  BY <1>0, ReturnKeeps DEF ToneStop
<1>4. Coherent'
  BY <1>2, CoherentSame DEF DataSame, ToneStop
<1>5. CASE tone # NULL /\ Post(Evt("DESTROY", tone))
  <2>1. tone \in Scenes
    BY <1>0, <1>5, Addresses
  <2>2. ASSUME NEW s \in Scenes, s = tone PROVE Destroying(s)'
    BY <1>3, <1>4, <1>5, <2>2 DEF Destroying, Retiring, ToneStop
  <2> QED BY <1>1, <1>3, <1>5, <2>1, <2>2, CallerPosts DEF ToneStop, Lifecycle, Ptr
<1>6. CASE evts' = evts
  <2>1. Rest'
    BY <1>3, <1>4 DEF Rest, Calling
  <2> QED BY <1>1, <1>3, <1>6, <2>1, CallerQuiet DEF ToneStop
<1>7. \/ tone # NULL /\ Post(Evt("DESTROY", tone))
      \/ evts' = evts
  <2>1. arg[a].immediate \in BOOLEAN
    BY <1>0 DEF TypeOK, Args
  <2> QED BY <2>1 DEF ToneStop
<1> QED BY <1>5, <1>6, <1>7

LEMMA ContinueKeeps ==
  ASSUME Undisturbed, SceneInv, NEW a \in Apps, Continue(a)
  PROVE  Phases' /\ InOrder' /\ TonesAreTones' /\ NoFault'
<1>1. CASE TakeMissing(a)
  BY <1>1, CallerAlone DEF TakeMissing
<1> QED BY <1>1, RetireKeeps, AllocKeeps, CreatePostKeeps, CreateReturnKeeps,
          DestroyPostKeeps, TonePlayKeeps, StopKeeps DEF Continue

-----------------------------------------------------------------------------
(* The speaker's interrupt. *)

\* Whatever is under way, the scenes are coherent, or one of them is still to be
\* initialised, or all are gone.
LEMMA SceneCases ==
  ASSUME SceneInv
  PROVE  \/ Coherent
         \/ tone = NULL /\ Emptied
         \/ \E s : FreshMain(s) \/ FreshTone(s)
<1>0. TypeOK /\ Phases
  BY DEF SceneInv, Exclusive
<1> USE DEF Creating, CreatingMain, CreatingTone, Destroying
<1>1. CASE Pending
  <2>1. PICK i \in DOMAIN evts : Queued(i)
    BY <1>1 DEF Pending
  <2>2. i = 1
    BY <2>1 DEF SceneInv, InOrder
  <2>3. evts[1].type \in Lifecycle /\ Served(evts[1])
    BY <1>0, <1>1, <2>1, <2>2 DEF Queued, Phases
  <2> QED BY <2>3 DEF Served, Lifecycle
<1>2. CASE Rest \/ Prepared
  BY <1>2 DEF Rest, Prepared
<1>3. CASE tpc \in {"create", "destroy_tone", "destroy_scene", "destroy_clear"}
  BY <1>0, <1>3 DEF Phases, Cleared
<1> QED BY <1>0, <1>1, <1>2, <1>3 DEF Phases, TypeOK

\* The scene that runs the speaker as a tone is the tone scene, in memory.
LEMMA SpeakerSafe ==
  ASSUME SceneInv, hw # NULL, kind[hw] = "tone"
  PROVE  ~Dead(tone)
<1>1. TypeOK
  BY DEF SceneInv, Exclusive
<1>2. Coherent
  BY SceneCases DEF Emptied, FreshMain, FreshTone
<1> QED BY <1>1, <1>2, Addresses, NotDead, SceneAssumption
        DEF Coherent, CoherentMain, CoherentTone

\* A decoder is at work only in a coherent state, for the tone scene.
LEMMA DecodingTone ==
  ASSUME SceneInv, NEW d \in Scenes, dec[d] = "decoding"
  PROVE  tone = d /\ ~Prepared
<1>1. ~NoDecoders
  BY DEF NoDecoders
<1> QED BY <1>1, SceneCases DEF Coherent, Emptied, FreshMain, FreshTone, Prepared

\* Nothing that the control predicates read has changed.
LEMMA PhaseSame ==
  ASSUME DataSame, UNCHANGED threads
  PROVE  /\ Rest' <=> Rest
         /\ \A s : /\ Creating(s)' <=> Creating(s)
                   /\ Destroying(s)' <=> Destroying(s)
                   /\ Cleared(s)' <=> Cleared(s)
<1> USE CoherentSame DEF DataSame, threads, memory, audio
<1>1. Rest' <=> Rest
  BY DEF Rest, Calling
<1>2. ASSUME NEW s PROVE Creating(s)' <=> Creating(s)
  BY DEF Creating, CreatingMain, CreatingTone
<1>3. ASSUME NEW s PROVE Destroying(s)' <=> Destroying(s)
  BY DEF Destroying, Retiring
<1>4. ASSUME NEW s PROVE Cleared(s)' <=> Cleared(s)
  BY DEF Cleared, Retiring, Emptied, OnlyIn, NoDecoders
<1> QED BY <1>1, <1>2, <1>3, <1>4

LEMMA RequestKeeps ==
  ASSUME SceneInv, NEW d \in Scenes, RequestRawData(d)
  PROVE  Phases' /\ InOrder' /\ TonesAreTones' /\ NoFault'
<1>0. TypeOK /\ Phases /\ InOrder /\ TonesAreTones /\ NoFault
  BY DEF SceneInv, Exclusive
<1> DEFINE e == [type |-> "REQ", scene |-> tone, dec |-> d]
<1>1. tone = d /\ ~Prepared
  BY DecodingTone DEF RequestRawData
<1>2. e \in Events /\ e.type = "REQ" /\ e.scene = tone /\ tone # NULL
  BY <1>0, <1>1, SceneAssumption DEF TypeOK, Events
<1>3. /\ Post(e) /\ UNCHANGED <<main, tone, tpc, cur, threads, memory, audio, fault>>
  BY DEF RequestRawData
<1>4. PostsOther
  BY <1>2, <1>3 DEF PostsOther, Lifecycle
<1> HIDE DEF e
<1>5. /\ DOMAIN evts' = DOMAIN evts \cup {Len(evts) + 1}
      /\ \A i \in DOMAIN evts : evts'[i] = evts[i]
      /\ evts'[Len(evts) + 1] = e
  BY <1>0, <1>2, <1>3, PostQueue DEF TypeOK
<1>6. Pending' <=> Pending
  BY <1>0, <1>4, OtherKeepsPending
<1>7. DataSame
  BY <1>3 DEF DataSame
<1>8. Pending => evts'[1] = evts[1]
  BY <1>0, <1>5 DEF Pending, InOrder
<1>9. Pending => Served(evts[1])'
  BY <1>0, <1>3, <1>7, <1>8, PhaseSame DEF Phases, Served
<1>10. Phases'
  BY <1>0, <1>1, <1>3, <1>6, <1>7, <1>9, PhaseSame DEF Phases
<1>11. InOrder'
  BY <1>0, <1>2, <1>3, <1>5 DEF InOrder, Queued, Lifecycle
<1> QED BY <1>0, <1>3, <1>10, <1>11 DEF TonesAreTones, NoFault, threads

LEMMA IsrKeeps ==
  ASSUME SceneInv, Isr
  PROVE  Phases' /\ InOrder' /\ TonesAreTones' /\ NoFault'
<1>1. ~SpeakerCrash
  BY SpeakerSafe DEF SpeakerCrash, Speaker
<1>2. \A d \in Scenes : ~PcmConsumed(d)
  BY DEF PcmConsumed, SceneInv, Exclusive, NoDrain
<1> QED BY <1>1, <1>2, RequestKeeps DEF Isr

-----------------------------------------------------------------------------
(* The audio task. *)

\* A step of the audio task that leaves the queue alone.
LEMMA TaskGoesOn ==
  ASSUME SceneInv, tpc # "wait", tpc' # "deliver", evts' = evts, fault' = fault,
         UNCHANGED threads
  PROVE  ~Pending /\ ~Pending' /\ InOrder' /\ TonesAreTones' /\ NoFault'
<1>1. InOrder /\ TonesAreTones /\ NoFault
  BY DEF SceneInv
<1>2. ~Pending /\ ~Pending'
  BY <1>1 DEF InOrder, Pending, Queued
<1>3. InOrder'
  BY <1>1 DEF InOrder, Queued
<1> QED BY <1>1, <1>2, <1>3 DEF TonesAreTones, NoFault, threads

LEMMA StartKeeps ==
  ASSUME SceneInv, TaskStart
  PROVE  Phases' /\ InOrder' /\ TonesAreTones' /\ NoFault'
<1>1. ~Pending /\ ~Pending' /\ InOrder' /\ TonesAreTones' /\ NoFault'
  BY TaskGoesOn DEF TaskStart, TaskAt
<1>2. Rest'
  BY <1>1, PhaseSame DEF TaskStart, TaskAt, SceneInv, Phases, Prepared, DataSame
<1> QED BY <1>1, <1>2 DEF Phases, TaskStart

LEMMA PopKeeps ==
  ASSUME SceneInv, Pop
  PROVE  Phases' /\ InOrder' /\ TonesAreTones' /\ NoFault'
<1>0. TypeOK /\ Phases /\ InOrder /\ TonesAreTones /\ NoFault
  BY DEF SceneInv, Exclusive
<1>1. /\ 1 \in DOMAIN evts /\ evts[1] = cur' /\ (cur'.scene = NULL => cur'.type = "DESTROY")
      /\ \A i \in DOMAIN evts' : i \in Nat /\ i >= 1 /\ i + 1 \in DOMAIN evts /\ evts'[i] = evts[i + 1]
  BY <1>0, PopQueue DEF Pop, InOrder, TypeOK
<1>2. \A i \in DOMAIN evts' :
        /\ evts'[i].scene = NULL => evts'[i].type = "DESTROY"
        /\ ~Queued(i)'
  BY <1>0, <1>1 DEF InOrder, Queued
<1>3. ~Pending'
  BY <1>2 DEF Pending
<1>4. Pending <=> cur'.type \in Lifecycle
  BY <1>0, <1>1 DEF InOrder, Pending, Queued
<1>5. InOrder'
  BY <1>1, <1>2 DEF InOrder, Pop, Lifecycle
<1>6. TonesAreTones' /\ NoFault'
  BY <1>0 DEF TonesAreTones, NoFault, Pop, threads
<1>7. DataSame /\ UNCHANGED threads
  BY DEF Pop, DataSame
<1>8. CASE Pending
  <2>1. Served(cur')
    BY <1>0, <1>1, <1>8 DEF Phases
  <2>2. PICK s : s = cur'.scene
    OBVIOUS
  <2>3. CASE cur'.type = "CREATE"
    <3>1. tpc' = "create"
      BY <2>3 DEF Pop
    <3>2. Creating(s)'
      BY <1>7, <2>1, <2>2, <2>3, PhaseSame DEF Served
    <3> QED BY <1>3, <1>5, <1>6, <2>2, <3>1, <3>2 DEF Phases
  <2>4. CASE cur'.type = "DESTROY"
    <3>1. tpc' = "destroy_tone"
      BY <2>4 DEF Pop
    <3>2. Destroying(s)'
      BY <1>7, <2>1, <2>2, <2>4, PhaseSame DEF Served
    <3> QED BY <1>3, <1>5, <1>6, <2>2, <3>1, <3>2 DEF Phases
  <2> QED BY <1>4, <1>8, <2>3, <2>4 DEF Lifecycle
<1>9. CASE ~Pending
  <2>1. Rest'
    BY <1>0, <1>7, <1>9, PhaseSame DEF Phases, Pop, TaskAt, Prepared
  <2>2. tpc' = "deliver"
    BY <1>4, <1>9 DEF Pop, Lifecycle
  <2> QED BY <1>3, <1>5, <1>6, <2>1, <2>2 DEF Phases
<1> QED BY <1>8, <1>9

LEMMA CreateKeeps ==
  ASSUME SceneInv, HandleCreate
  PROVE  Phases' /\ InOrder' /\ TonesAreTones' /\ NoFault'
<1>0. TypeOK /\ Phases /\ tpc = "create"
  BY DEF SceneInv, Exclusive, HandleCreate, TaskAt
<1> DEFINE s == cur.scene
<1>1. Creating(s)
  BY <1>0 DEF Phases
<1>2. s \in Scenes /\ life[s] = "allocated"
  BY <1>0, <1>1, Addresses
  DEF Creating, CreatingMain, CreatingTone, FreshMain, FreshTone
<1> HIDE DEF s
<1>3. s # NULL /\ ~Dead(s)
  BY <1>2, NotDead, SceneAssumption
<1>4. kind[s] = "tone" /\ main # s => mixer
  BY <1>1 DEF Creating, CreatingMain, CreatingTone, FreshMain, FreshTone
<1>5. /\ InitTone(s) \/ InitMain(s)
      /\ life' = [life EXCEPT ![s] = "inited"]
      /\ tpc' = "give"
      /\ UNCHANGED <<main, sema, evts, cur, threads, kind, fault>>
  BY <1>3, <1>4 DEF HandleCreate, s
<1>6. ~Pending' /\ InOrder' /\ TonesAreTones' /\ NoFault'
  BY <1>0, <1>5, TaskGoesOn
<1>7. CASE CreatingMain(s)
  <2>1. FreshMain(s) /\ \A a \in Apps : pc[a] = "create_return" /\ kind[s] = arg[a].kind
    BY <1>7 DEF CreatingMain
  <2>2. main' = s /\ life'[s] = "inited" /\ hw' = s
    BY <1>0, <1>2, <1>5, <2>1 DEF FreshMain, InitTone, InitMain, Speakers, TypeOK
  <2>3. OnlyIn({main, tone})'
    BY <1>0, <1>5, <2>1 DEF FreshMain, OnlyIn, TypeOK
  <2>4. ASSUME kind[s] = "tone" PROVE Coherent'
    <3>1. /\ tone' = s /\ mixer' = TRUE
          /\ \A x \in Scenes : dec'[x] = IF x = s THEN "decoding" ELSE "none"
      BY <1>0, <1>5, <2>1, <2>4 DEF InitTone, InitMain, FreshMain, NoDecoders, TypeOK
    <3> QED BY <1>3, <1>5, <2>2, <2>3, <2>4, <3>1 DEF Coherent, CoherentMain, CoherentTone
  <2>5. ASSUME kind[s] # "tone" PROVE Coherent'
    <3>1. /\ tone' = NULL /\ (mixer' <=> kind[s] = "host")
          /\ \A x \in Scenes : dec'[x] = "none"
      BY <1>0, <1>5, <2>1, <2>5 DEF InitTone, InitMain, FreshMain, NoDecoders, TypeOK
    <3>2. kind[s] \in {"host", "solo"}
      BY <1>0, <1>2, <2>5 DEF TypeOK, Kinds
    <3> QED BY <1>3, <1>5, <2>2, <2>3, <2>5, <3>1, <3>2, SceneAssumption
            DEF Coherent, CoherentMain, CoherentTone
  <2>6. Rest'
    BY <1>3, <1>5, <2>1, <2>2, <2>4, <2>5 DEF Rest, Calling, threads
  <2> QED BY <1>5, <1>6, <2>6 DEF Phases
<1>8. CASE CreatingTone(s)
  <2>1. FreshTone(s) /\ \A a \in Apps : pc[a] = "idle"
    BY <1>8 DEF CreatingTone
  <2>2. /\ tone' = s /\ mixer' /\ hw' = main
        /\ \A x \in Scenes : dec'[x] = IF x = s THEN "decoding" ELSE "none"
    BY <1>0, <1>5, <2>1 DEF InitTone, InitMain, FreshTone, NoDecoders, TypeOK
  <2>3. /\ life'[s] = "inited" /\ life'[main] = "inited" /\ OnlyIn({main, tone})'
    BY <1>0, <1>2, <1>5, <2>1, <2>2 DEF FreshTone, OnlyIn, TypeOK
  <2>4. Coherent'
    BY <1>3, <1>5, <2>1, <2>2, <2>3 DEF Coherent, CoherentMain, CoherentTone, FreshTone
  <2>5. Rest'
    BY <1>5, <2>1, <2>4 DEF Rest, Calling, threads
  <2> QED BY <1>5, <1>6, <2>5 DEF Phases
<1> QED BY <1>1, <1>7, <1>8 DEF Creating

\* The audio task is destroying: the scene of its event is in memory.
LEMMA DestroyingSafe ==
  ASSUME TypeOK, Destroying(cur.scene), cur.scene # NULL
  PROVE  /\ Coherent /\ cur.scene \in {main, tone} \ {NULL} /\ main # NULL
         /\ main \in Scenes /\ life[main] = "inited" /\ hw = main
         /\ cur.scene \in Scenes /\ ~Dead(cur.scene) /\ life[cur.scene] = "inited"
         /\ tone # NULL => tone \in Scenes /\ life[tone] = "inited" /\ kind[tone] = "tone"
                           /\ ~Dead(tone) /\ ToneFault = "none"
<1>1. Coherent /\ cur.scene \in {main, tone} \ {NULL} /\ main # NULL
  BY DEF Destroying, Coherent
<1>2. main \in Scenes /\ CoherentMain
  BY <1>1, Addresses DEF Coherent
<1>3. ASSUME tone # NULL
      PROVE  /\ tone \in Scenes /\ life[tone] = "inited" /\ kind[tone] = "tone"
             /\ ~Dead(tone) /\ ToneFault = "none"
  <2>1. tone \in Scenes /\ CoherentTone /\ dec[tone] = "decoding"
    BY <1>1, <1>3, Addresses DEF Coherent
  <2>2. ~Dead(tone)
    BY <2>1, NotDead, SceneAssumption DEF CoherentTone
  <2> QED BY <2>1, <2>2 DEF CoherentTone, ToneFault
<1>4. cur.scene \in Scenes /\ life[cur.scene] = "inited"
  BY <1>1, <1>2, <1>3 DEF CoherentMain
<1>5. ~Dead(cur.scene)
  BY <1>4, NotDead, SceneAssumption
<1> QED BY <1>1, <1>2, <1>3, <1>4, <1>5 DEF CoherentMain

\* A tone that is the guest of a host is destroyed and the host is left as it was.
LEMMA GuestDestroyed ==
  ASSUME TypeOK, Coherent, tone # NULL, main # NULL, main # tone, DestroyTone,
         UNCHANGED <<main, kind>>
  PROVE  Coherent' /\ tone' = NULL
<1>1. main \in Scenes /\ tone \in Scenes
  BY Addresses
<1>2. /\ tone' = NULL /\ UNCHANGED <<hw, mixer>>
      /\ dec' = [dec EXCEPT ![tone] = "none"] /\ life' = [life EXCEPT ![tone] = "free"]
  BY DEF DestroyTone
<1>3. kind[main] = "host" /\ CoherentMain /\ OnlyIn({main, tone})
      /\ \A s \in Scenes : dec[s] = IF s = tone THEN "decoding" ELSE "none"
  BY DEF Coherent, CoherentTone
<1>4. \A s \in Scenes : dec'[s] = "none"
  BY <1>2, <1>3 DEF TypeOK
<1>5. OnlyIn({main, tone})'
  BY <1>1, <1>2, <1>3 DEF OnlyIn, TypeOK
<1>6. CoherentMain'
  BY <1>1, <1>2, <1>3 DEF CoherentMain, TypeOK
<1> QED BY <1>2, <1>4, <1>5, <1>6, SceneAssumption DEF Coherent

LEMMA DestroyToneKeeps ==
  ASSUME SceneInv, HandleDestroyTone
  PROVE  Phases' /\ InOrder' /\ TonesAreTones' /\ NoFault'
<1>0. TypeOK /\ Phases /\ tpc = "destroy_tone"
  BY DEF SceneInv, Exclusive, HandleDestroyTone, TaskAt
<1>1. Destroying(cur.scene)
  BY <1>0 DEF Phases
<1>n. CASE cur.scene = NULL
  <2>1. /\ tpc' = "give" /\ evts' = evts /\ fault' = fault
        /\ DataSame /\ UNCHANGED threads
    BY <1>n DEF HandleDestroyTone, TaskStep, DataSame, memory
  <2>2. ~Pending' /\ InOrder' /\ TonesAreTones' /\ NoFault'
    BY <1>0, <2>1, TaskGoesOn
  <2>3. Rest
    BY <1>1, <1>n DEF Destroying, Retiring, Rest, Calling
  <2> QED BY <2>1, <2>2, <2>3, PhaseSame DEF Phases
<1> SUFFICES ASSUME cur.scene # NULL
             PROVE  Phases' /\ InOrder' /\ TonesAreTones' /\ NoFault'
  BY <1>n
<1>2. /\ Coherent /\ cur.scene \in {main, tone} \ {NULL} /\ main # NULL
      /\ cur.scene = tone => ~Dead(tone)
      /\ tone # NULL => ToneFault = "none"
  BY <1>0, <1>1, DestroyingSafe
<1>3. /\ TaskStep("destroy_scene")
      /\ \/ tone \in {NULL, cur.scene} /\ UNCHANGED <<tone, life, audio>>
         \/ tone \notin {NULL, cur.scene} /\ DestroyTone
  BY <1>2 DEF HandleDestroyTone
<1>4. /\ tpc' = "destroy_scene" /\ cur' = cur
      /\ UNCHANGED <<main, evts, threads, kind, fault>>
  BY <1>3 DEF TaskStep
<1>5. ~Pending' /\ InOrder' /\ TonesAreTones' /\ NoFault'
  BY <1>0, <1>4, TaskGoesOn
<1>6. PICK s : s = cur.scene /\ s = cur'.scene
  BY <1>4
<1>7. CASE tone \in {NULL, cur.scene} /\ UNCHANGED <<tone, life, audio>>
  <2>1. Destroying(s)'
    BY <1>1, <1>4, <1>6, <1>7, PhaseSame DEF DataSame, memory
  <2> QED BY <1>2, <1>4, <1>5, <1>6, <1>7, <2>1 DEF Phases
<1>8. CASE tone \notin {NULL, cur.scene} /\ DestroyTone
  <2>1. s = main /\ main # tone
    BY <1>2, <1>6, <1>8
  <2>2. Coherent' /\ tone' = NULL
    BY <1>0, <1>2, <1>4, <1>8, <2>1, GuestDestroyed
  <2>3. Destroying(s)'
    BY <1>1, <1>2, <1>4, <1>6, <2>1, <2>2 DEF Destroying, Retiring, threads
  <2> QED BY <1>2, <1>4, <1>5, <1>6, <2>2, <2>3 DEF Phases
<1> QED BY <1>3, <1>7, <1>8

\* Taking the last scene down leaves neither memory nor speaker nor decoder.
LEMMA DestroySceneKeeps ==
  ASSUME SceneInv, HandleDestroyScene
  PROVE  Phases' /\ InOrder' /\ TonesAreTones' /\ NoFault'
<1>0. TypeOK /\ Phases /\ tpc = "destroy_scene"
  BY DEF SceneInv, Exclusive, HandleDestroyScene, TaskAt
<1> DEFINE s == cur.scene
<1>1. Destroying(s) /\ s # NULL /\ tone \in {NULL, s}
  BY <1>0 DEF Phases
<1>2. /\ Coherent /\ s \in {main, tone} \ {NULL} /\ main # NULL /\ main \in Scenes /\ hw = main
      /\ s \in Scenes /\ ~Dead(s) /\ life[s] = "inited"
      /\ tone # NULL => tone \in Scenes /\ kind[tone] = "tone" /\ ToneFault = "none"
  BY <1>0, <1>1, DestroyingSafe
<1>3. kind[s] = "tone" => s = tone
  BY <1>2 DEF Coherent, CoherentMain
<1>4. kind[s] # "tone" => s = main /\ tone = NULL
  BY <1>1, <1>2
<1>5. /\ TaskStep("destroy_clear")
      /\ kind[s] = "tone" => DestroyTone
      /\ kind[s] # "tone" => DestroyMain(s)
  BY <1>2, <1>3 DEF HandleDestroyScene
<1>6. /\ tpc' = "destroy_clear" /\ cur' = cur
      /\ UNCHANGED <<main, evts, threads, kind, fault>>
  BY <1>5 DEF TaskStep
<1>7. ~Pending' /\ InOrder' /\ TonesAreTones' /\ NoFault'
  BY <1>0, <1>6, TaskGoesOn
<1>8. PICK x : x = s /\ x = cur'.scene
  BY <1>6
<1> HIDE DEF s
<1>9. Retiring(x)'
  BY <1>1, <1>6, <1>8 DEF Destroying, Retiring, threads
<1>10. /\ OnlyIn({main, tone})
       /\ \A d \in Scenes : dec[d] = IF d = tone THEN "decoding" ELSE "none"
       /\ mixer <=> kind[main] # "solo"
  BY <1>2 DEF Coherent, CoherentMain
<1>11. ASSUME kind[s] = "tone" PROVE Cleared(x)'
  <2>1. s = tone /\ DestroyTone /\ tone # NULL
    BY <1>2, <1>3, <1>5, <1>11
  <2>2. CASE main = tone
    <3>1. hw' = NULL /\ ~mixer' /\ NoDecoders' /\ life' = [life EXCEPT ![tone] = "free"] /\ tone' = NULL
      BY <1>2, <2>1, <2>2 DEF DestroyTone, SpeakerOff, MixerOff, NoDecoders
    <3>2. OnlyIn({})'
      BY <1>0, <1>10, <2>2, <3>1 DEF OnlyIn, TypeOK
    <3> QED BY <1>2, <1>6, <1>8, <1>9, <2>1, <2>2, <3>1, <3>2 DEF Cleared, Emptied, OnlyIn
  <2>3. CASE main # tone
    <3>1. Coherent' /\ tone' = NULL
      BY <1>0, <1>2, <1>6, <2>1, <2>3, GuestDestroyed
    <3> QED BY <1>2, <1>6, <1>8, <1>9, <2>1, <2>3, <3>1 DEF Cleared
  <2> QED BY <2>2, <2>3
<1>12. ASSUME kind[s] # "tone" PROVE Cleared(x)'
  <2>1. s = main /\ tone = NULL /\ DestroyMain(s)
    BY <1>4, <1>5, <1>12
  <2>2. hw' = NULL /\ life' = [life EXCEPT ![s] = "free"] /\ tone' = NULL
    BY <1>2, <2>1 DEF DestroyMain, SpeakerOff
  <2>3. kind[s] \in {"host", "solo"}
    BY <1>0, <1>2, <1>12 DEF TypeOK, Kinds
  <2>4. ~mixer' /\ NoDecoders'
    BY <1>2, <1>10, <2>1, <2>3, SceneAssumption DEF DestroyMain, MixerOff, NoDecoders
  <2>5. OnlyIn({})'
    BY <1>0, <1>10, <2>1, <2>2, SceneAssumption DEF OnlyIn, TypeOK
  <2> QED BY <1>2, <1>6, <1>8, <1>9, <2>1, <2>2, <2>4, <2>5 DEF Cleared, Emptied, OnlyIn
<1> QED BY <1>6, <1>7, <1>8, <1>11, <1>12 DEF Phases

LEMMA DestroyClearKeeps ==
  ASSUME SceneInv, HandleDestroyClear
  PROVE  Phases' /\ InOrder' /\ TonesAreTones' /\ NoFault'
<1>0. Cleared(cur.scene) /\ tpc = "destroy_clear"
  BY DEF SceneInv, Phases, HandleDestroyClear, TaskAt
<1>1. /\ tpc' = "give" /\ UNCHANGED <<tone, sema, evts, cur, threads, memory, audio, fault>>
      /\ main' = IF cur.scene = main THEN NULL ELSE main
  BY DEF HandleDestroyClear
<1>2. ~Pending' /\ InOrder' /\ TonesAreTones' /\ NoFault'
  BY <1>0, <1>1, TaskGoesOn
<1>3. Coherent'
  <2>1. CASE cur.scene = main
    BY <1>0, <1>1, <2>1, SceneAssumption
    DEF Cleared, Emptied, Coherent, OnlyIn, NoDecoders, memory, audio
  <2>2. CASE cur.scene # main
    BY <1>0, <1>1, <2>2, CoherentSame DEF Cleared, DataSame
  <2> QED BY <2>1, <2>2
<1>4. Rest'
  BY <1>0, <1>1, <1>3 DEF Cleared, Retiring, Rest, Calling, threads
<1> QED BY <1>1, <1>2, <1>4 DEF Phases

LEMMA GiveKeeps ==
  ASSUME SceneInv, Give
  PROVE  Phases' /\ InOrder' /\ TonesAreTones' /\ NoFault'
<1>1. ~Pending /\ ~Pending' /\ InOrder' /\ TonesAreTones' /\ NoFault'
  BY TaskGoesOn DEF Give, TaskAt
<1>2. Rest'
  BY <1>1, PhaseSame DEF Give, TaskAt, SceneInv, Phases, Prepared, DataSame
<1> QED BY <1>1, <1>2 DEF Phases, Give

LEMMA DeliverKeeps ==
  ASSUME Undisturbed, SceneInv, Deliver
  PROVE  Phases' /\ InOrder' /\ TonesAreTones' /\ NoFault'
<1>0. TypeOK /\ tpc = "deliver" /\ cur.scene # NULL
  BY DEF SceneInv, Exclusive, Deliver, TaskAt, InOrder
<1>1. Rest /\ Coherent
  BY <1>0, TaskGoesOn DEF SceneInv, Phases, Prepared, Rest, InOrder, Pending, Queued
<1>2. cur.scene \in {main, tone} => HandlerFault(cur.scene) = "none"
  <2> SUFFICES ASSUME cur.scene \in {main, tone} PROVE HandlerFault(cur.scene) = "none"
    OBVIOUS
  <2>1. cur.scene \in Scenes /\ life[cur.scene] = "inited"
    BY <1>0, <1>1, Addresses DEF Coherent, CoherentMain, CoherentTone
  <2>2. ~Dead(cur.scene)
    BY <2>1, NotDead, SceneAssumption
  <2>3. kind[cur.scene] = "tone" => dec[cur.scene] = "decoding"
    BY <1>0, <1>1, <2>1 DEF Coherent, CoherentMain
  <2> QED BY <2>1, <2>2, <2>3 DEF HandlerFault
<1>3. TaskStep("wait") /\ UNCHANGED <<tone, life, audio>>
  BY <1>2 DEF Deliver, Handler, Undisturbed, audio
<1>4. tpc' = "wait" /\ UNCHANGED <<main, evts, threads, kind, fault>>
  BY <1>3 DEF TaskStep
<1>5. ~Pending' /\ InOrder' /\ TonesAreTones' /\ NoFault'
  BY <1>0, <1>4, TaskGoesOn
<1>6. Rest'
  BY <1>1, <1>3, <1>4, PhaseSame DEF DataSame, memory
<1> QED BY <1>4, <1>5, <1>6 DEF Phases

-----------------------------------------------------------------------------
LEMMA SceneInit == Init => SceneInv
<1> SUFFICES ASSUME Init PROVE SceneInv
  OBVIOUS
<1>1. Exclusive
  BY ExclusiveInit
<1>2. evts = <<>> /\ ~Pending
  BY DEF Init, Pending
<1>3. Coherent
  BY SceneAssumption DEF Init, Coherent, OnlyIn
<1>4. Rest
  BY <1>3 DEF Init, Rest, Calling
<1>5. Phases
  BY <1>2, <1>4 DEF Phases, Init
<1>6. InOrder /\ TonesAreTones /\ NoFault
  BY <1>2 DEF Init, InOrder, TonesAreTones, NoArg, NoFault
<1> QED BY <1>1, <1>5, <1>6 DEF SceneInv

LEMMA SceneStep ==
  ASSUME Undisturbed, SceneInv, [Next]_vars
  PROVE  SceneInv'
<1>1. Exclusive'
  BY ExclusiveStep DEF SceneInv, Undisturbed
<1>2. Phases' /\ InOrder' /\ TonesAreTones' /\ NoFault'
  <2>1. CASE Task
    BY <2>1, StartKeeps, PopKeeps, CreateKeeps, DestroyToneKeeps, DestroySceneKeeps,
       DestroyClearKeeps, GiveKeeps, DeliverKeeps DEF Task
  <2>2. CASE Isr
    BY <2>2, IsrKeeps
  <2>3. ASSUME NEW a \in Apps, NewCall(a) \/ Take(a) \/ Continue(a)
        PROVE  Phases' /\ InOrder' /\ TonesAreTones' /\ NoFault'
    BY <2>3, CallKeeps, TakeKeeps, ContinueKeeps
  <2>4. ~Stopped
    BY DEF Stopped, SceneInv, NoFault
  <2>5. CASE UNCHANGED vars
    <3>1. DataSame /\ UNCHANGED threads /\ UNCHANGED <<tpc, cur, evts, fault>>
      BY <2>5 DEF vars, DataSame
    <3>2. Phases /\ InOrder /\ TonesAreTones /\ NoFault
      BY DEF SceneInv
    <3>3. Pending' <=> Pending
      BY <3>1 DEF Pending, Queued
    <3>4. InOrder' /\ TonesAreTones' /\ NoFault'
      BY <3>1, <3>2 DEF InOrder, Queued, TonesAreTones, NoFault, threads
    <3>5. Prepared' <=> Prepared
      BY <3>1, CoherentSame DEF Prepared, DataSame, threads, memory, FreshMain, OnlyIn
    <3>6. Served(evts[1])' <=> Served(evts[1])
      BY <3>1, PhaseSame DEF Served
    <3> QED BY <3>1, <3>2, <3>3, <3>4, <3>5, <3>6, PhaseSame DEF Phases, DataSame
  <2> QED BY <2>1, <2>2, <2>3, <2>4, <2>5 DEF Next
<1> QED BY <1>1, <1>2 DEF SceneInv

LEMMA SceneAlways ==
  ASSUME Undisturbed
  PROVE  Spec => []SceneInv
<1>1. SceneInv /\ [Next]_vars => SceneInv'
  BY SceneStep
<1> QED BY <1>1, SceneInit, PTL DEF Spec

\* No step of the scene manager follows a NULL or freed scene, uses memory that
\* nobody has initialised or runs out of memory, as long as the audio task
\* preempts its only caller and no tone ends by itself, whatever the number of
\* addresses, the kinds of scene and the queue's bound.
THEOREM NeverFaults ==
  ASSUME Undisturbed
  PROVE  Spec => []NoFault
<1>1. SceneInv => NoFault
  BY DEF SceneInv
<1> QED BY <1>1, SceneAlways, PTL

\* No scene is ever leaked: one that is in memory is always the main scene or
\* the tone scene.
THEOREM NoSceneIsLeaked ==
  ASSUME Undisturbed
  PROVE  Spec => []NoOrphanScene
<1>1. SceneInv => NoOrphanScene
  BY SceneCases DEF Coherent, Emptied, FreshMain, FreshTone, OnlyIn, NoOrphanScene
<1> QED BY <1>1, SceneAlways, PTL

\* Between two operations the globals, the memory, the speaker and the decoder
\* module agree.
THEOREM SettledIsCoherent ==
  ASSUME Undisturbed
  PROVE  Spec => []CoherentWhenSettled
<1>1. ASSUME SceneInv, Settled
      PROVE  Coherent
  <2>1. PICK a \in Apps : TRUE
    BY DEF Undisturbed
  <2>2. pc[a] \notin {"create_retake", "create_post"}
    BY <1>1 DEF Settled, SceneInv, Exclusive, OneOperationAtATime, Holding, Holders
  <2>3. ~Prepared
    BY <2>2 DEF Prepared
  <2> QED BY <1>1, <2>3 DEF SceneInv, Phases, Rest, Settled, Pending
<1>2. SceneInv => CoherentWhenSettled
  <2> SUFFICES ASSUME SceneInv, Settled PROVE CoherentWhenSettled
    BY DEF CoherentWhenSettled
  <2>1. TypeOK /\ Coherent
    BY <1>1 DEF SceneInv, Exclusive
  <2> QED BY <2>1 DEF Coherent, CoherentMain, CoherentTone, CoherentWhenSettled
<1> QED BY <1>2, SceneAlways, PTL

=============================================================================
