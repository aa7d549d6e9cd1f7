----------------------------- MODULE AudioScene -----------------------------
(***************************************************************************)
(* The audio scene manager (components/modules/audio/audio_scene.c): one   *)
(* main scene and one tone scene, created and destroyed by the audio task  *)
(* on behalf of application threads that queue events to it.  A binary     *)
(* semaphore is meant to admit one life-cycle operation at a time: a call  *)
(* takes it and the audio task gives it back when the event is done.       *)
(*                                                                         *)
(* Threads are interleaved at every point where another thread or an       *)
(* interrupt can see a difference; memory that the code frees is tracked,  *)
(* and an access the build does not survive ends the behaviour in "fault". *)
(* The callback an application may register for the end of a tone          *)
(* (tone_destroyed_cb, line 267), which runs in the audio task while the   *)
(* semaphore is held, is taken not to call the scene manager.              *)
(***************************************************************************)
EXTENDS Naturals, Sequences

CONSTANTS
  Apps,          \* application threads that call the API
  Scenes,        \* addresses malloc can return for an audio_scene_t
  NULL,
  TaskPreempts,  \* the audio task has a higher priority than every caller
  TonesEnd,      \* the decoder may report that a tone has been played out
  AllocMayFail,  \* the linked heap port returns NULL when memory is short
  MainKinds,     \* the kinds of main scene the threads create
  MaxEvts        \* bound on the queue for events posted without the semaphore

ASSUME SceneAssumption ==
  /\ NULL \notin Scenes
  /\ {TaskPreempts, TonesEnd, AllocMayFail} \subseteq BOOLEAN
  /\ MainKinds \subseteq {"host", "solo"}
  /\ MaxEvts \in Nat

VARIABLES
  main,    \* audio_scene
  tone,    \* audio_tone_scene
  sema,    \* sema_audio_scene, a binary semaphore
  evts,    \* evt_list
  tpc,     \* where the audio task is
  cur,     \* the event the audio task has popped
  pc,      \* where each application thread is
  arg,     \* the arguments of its call
  handle,  \* the scene pointer the thread got from the API
  life,    \* state of the memory at each scene address
  kind,    \* scene->op
  hw,      \* the scene whose speaker (audio_hw_t) is running
  mixer,   \* audio_decoder_env.inited
  dec,     \* state of the decoder of a tone scene
  fault    \* why the program stopped, if it did

memory  == <<life, kind>>
audio   == <<hw, mixer, dec>>
threads == <<pc, arg, handle>>
vars == <<main, tone, sema, evts, tpc, cur, threads, memory, audio, fault>>

Ptr == Scenes \cup {NULL}

\* Hosts (a2dp_sink, sco) decode and support a tone; solo scenes (loopback,
\* recorder) only drive the hardware.
Kinds == {"host", "solo", "tone"}

Faults == {"none", "assert", "null_pointer", "use_after_free", "uninitialised",
           "out_of_memory"}

Takers  == {"create_take", "create_retake", "destroy_take", "play_take", "stop_take"}
Holders == {"create_held", "create_post", "destroy_post", "play_held", "stop_held"}
AppPcs  == Takers \cup Holders \cup {"idle", "create_alloc", "create_return"}

Lifecycle == {"CREATE", "DESTROY"}
Events == [type : Lifecycle \cup {"RECV"}, scene : Ptr, dec : {NULL}]
            \cup [type : {"REQ"}, scene : Ptr, dec : Scenes]

Evt(t, s) == [type |-> t, scene |-> s, dec |-> NULL]
NoEvt == Evt("RECV", NULL)
Post(e) == evts' = Append(evts, e)

Args == [kind : Kinds, viaTone : BOOLEAN, immediate : BOOLEAN]
NoArg == [kind |-> "host", viaTone |-> FALSE, immediate |-> FALSE]

(***************************************************************************)
(* audio_scene_init has created the task, which has not run yet.           *)
(***************************************************************************)
Init ==
  /\ main = NULL /\ tone = NULL
  /\ sema = 0
  /\ evts = <<>>
  /\ tpc = "start"
  /\ cur = NoEvt
  /\ pc = [a \in Apps |-> "idle"]
  /\ arg = [a \in Apps |-> NoArg]
  /\ handle = [a \in Apps |-> NULL]
  /\ life = [s \in Scenes |-> "free"]
  /\ kind = [s \in Scenes |-> "host"]
  /\ hw = NULL
  /\ mixer = FALSE
  /\ dec = [s \in Scenes |-> "none"]
  /\ fault = "none"

Crash(why) ==
  /\ fault' = why
  /\ UNCHANGED <<main, tone, sema, evts, tpc, cur, threads, memory, audio>>

Dead(s) == s \notin {x \in Scenes : life[x] # "free"}
Dereference(s) == IF s = NULL THEN "null_pointer" ELSE "use_after_free"

\* allocate: malloc returns any free address, or NULL if the port lets it.
Allocated(s, k) ==
  \/ /\ s \in Scenes /\ life[s] = "free"
     /\ life' = [life EXCEPT ![s] = "allocated"]
     /\ kind' = [kind EXCEPT ![s] = k]
  \/ /\ s = NULL /\ AllocMayFail
     /\ UNCHANGED memory

\* heap_mem_alloc, the port the SDK links, never returns instead.
OutOfMemory == ~AllocMayFail /\ \A s \in Scenes : life[s] # "free"

-----------------------------------------------------------------------------
(***************************************************************************)
(* Application threads                                                     *)
(***************************************************************************)
\* With a higher priority the audio task runs until it has no event left
\* before any caller goes on.
MayRun == fault = "none" /\ (TaskPreempts => tpc = "wait" /\ evts = <<>>)

At(a, where) == MayRun /\ pc[a] = where
Goto(a, where) == pc' = [pc EXCEPT ![a] = where]
Return(a) == Goto(a, "idle") /\ arg' = [arg EXCEPT ![a] = NoArg]
Call(a, where, args) ==
  /\ At(a, "idle")
  /\ Goto(a, where)
  /\ arg' = [arg EXCEPT ![a] = args]
  /\ UNCHANGED <<main, tone, sema, evts, tpc, cur, handle, memory, audio, fault>>

CallCreate(a) ==
  \E k \in MainKinds : Call(a, "create_take", [NoArg EXCEPT !.kind = k])
CallTonePlay(a) ==
  Call(a, "play_take", [NoArg EXCEPT !.kind = "tone", !.viaTone = TRUE])
CallToneStop(a) ==
  \E i \in BOOLEAN : Call(a, "stop_take", [NoArg EXCEPT !.immediate = i])

\* audio_scene_destroy looks at the globals before it takes the semaphore: NULL
\* passes too while one of them is NULL.
CallDestroy(a) ==
  /\ handle[a] \in {main, tone}
  /\ Call(a, "destroy_take", NoArg)

\* Mutant: a take that times out goes on without the semaphore.
TakeTimesOut(a) ==
  /\ MayRun /\ tpc # "start"
  /\ sema' = 0
  /\ \/ pc[a] = "create_take"   /\ Goto(a, "create_held")
     \/ pc[a] = "create_retake" /\ Goto(a, "create_post")
     \/ pc[a] = "destroy_take"  /\ Goto(a, "destroy_post")
     \/ pc[a] = "play_take"     /\ Goto(a, "play_held")
     \/ pc[a] = "stop_take"     /\ Goto(a, "stop_held")
  /\ UNCHANGED <<main, tone, evts, tpc, cur, arg, handle, memory, audio, fault>>

\* xSemaphoreTake(sema_audio_scene, portMAX_DELAY)
Take(a) ==
  /\ MayRun /\ tpc # "start"
  /\ sema = 1 /\ sema' = 0
  /\ \/ pc[a] = "create_take"   /\ Goto(a, "create_held")
     \/ pc[a] = "create_retake" /\ Goto(a, "create_post")
     \/ pc[a] = "destroy_take"  /\ Goto(a, "destroy_post")
     \/ pc[a] = "play_take"     /\ Goto(a, "play_held")
     \/ pc[a] = "stop_take"     /\ Goto(a, "stop_held")
  /\ UNCHANGED <<main, tone, evts, tpc, cur, arg, handle, memory, audio, fault>>

\* Before the audio task has run there is no semaphore to take.
TakeMissing(a) ==
  /\ MayRun /\ tpc = "start" /\ pc[a] \in Takers
  /\ Crash("null_pointer")

\* Mutant: a create does not wait for the running scene to be destroyed.
CreateRetireNothing(a) ==
  /\ At(a, "create_held") /\ Goto(a, "create_alloc")
  /\ sema' = 1
  /\ UNCHANGED <<main, tone, evts, tpc, cur, arg, handle, memory, audio, fault>>

\* The scene that is running is queued for destruction, the tone if there is
\* no main scene.
CreateRetire(a) ==
  /\ At(a, "create_held") /\ Goto(a, "create_alloc")
  /\ \/ main # NULL /\ Post(Evt("DESTROY", main)) /\ UNCHANGED sema
     \/ main = NULL /\ tone # NULL /\ Post(Evt("DESTROY", tone)) /\ UNCHANGED sema
     \/ main = NULL /\ tone = NULL /\ sema' = 1 /\ UNCHANGED evts
  /\ UNCHANGED <<main, tone, tpc, cur, arg, handle, memory, audio, fault>>

\* audio_scene is overwritten whether or not the old one has been destroyed.
CreateAlloc(a) ==
  /\ At(a, "create_alloc")
  /\ \/ /\ \E s \in Ptr :
             /\ Allocated(s, arg[a].kind)
             /\ main' = s
             /\ Goto(a, IF s = NULL THEN "create_return" ELSE "create_retake")
        /\ UNCHANGED <<tone, sema, evts, tpc, cur, arg, handle, audio, fault>>
     \/ OutOfMemory /\ Crash("out_of_memory")

CreatePost(a) ==
  /\ At(a, "create_post") /\ Goto(a, "create_return")
  /\ Post(Evt("CREATE", main))
  /\ UNCHANGED <<main, tone, sema, tpc, cur, arg, handle, memory, audio, fault>>

\* The global is read again for the result; audio_scene_tone_play stores it.
CreateReturn(a) ==
  /\ At(a, "create_return") /\ Return(a)
  /\ handle' = [handle EXCEPT ![a] = main]
  /\ tone' = IF arg[a].viaTone THEN main ELSE tone
  /\ UNCHANGED <<main, sema, evts, tpc, cur, memory, audio, fault>>

DestroyPost(a) ==
  /\ At(a, "destroy_post") /\ Return(a)
  /\ Post(Evt("DESTROY", handle[a]))
  /\ UNCHANGED <<main, tone, sema, tpc, cur, handle, memory, audio, fault>>

\* Mutant: the semaphore is given although the event is still to be served.
PlayAttachAndGive(a) ==
  /\ main # NULL /\ tone = NULL /\ ~Dead(main) /\ kind[main] = "host"
  /\ \E s \in Ptr :
       /\ Allocated(s, "tone")
       /\ tone' = s
       /\ Post(Evt("CREATE", s))
  /\ sema' = 1
  /\ Return(a)
  /\ handle' = [handle EXCEPT ![a] = main]
  /\ UNCHANGED main

\* A host takes the tone as a guest; the result is audio_scene.
PlayAttach(a) ==
  /\ main # NULL /\ tone = NULL /\ ~Dead(main) /\ kind[main] = "host"
  /\ \E s \in Ptr :
       /\ Allocated(s, "tone")
       /\ tone' = s
       /\ Post(Evt("CREATE", s))
  /\ Return(a)
  /\ handle' = [handle EXCEPT ![a] = main]
  /\ UNCHANGED <<main, sema>>

\* A main scene that takes no tone, a tone that plays already, or a NULL
\* parameter and no main scene.
PlayRefused(a) ==
  /\ (main # NULL /\ tone = NULL) => ~Dead(main) /\ kind[main] # "host"
  /\ sema' = 1
  /\ Return(a)
  /\ handle' = [handle EXCEPT ![a] = main]
  /\ UNCHANGED <<main, tone, evts, memory>>

\* Without a main scene the semaphore is given up and, for a parameter that is
\* not NULL, taken again by audio_scene_create.
PlayAlone(a) ==
  /\ main = NULL
  /\ sema' = 1
  /\ Goto(a, "create_take")
  /\ UNCHANGED <<main, tone, evts, arg, handle, memory>>

TonePlay(a) ==
  /\ At(a, "play_held")
  /\ \/ /\ PlayAttach(a) \/ PlayRefused(a) \/ PlayAlone(a)
        /\ UNCHANGED <<tpc, cur, audio, fault>>
     \/ /\ main # NULL /\ tone = NULL /\ Dead(main)
        /\ Crash(Dereference(main))
     \/ /\ main # NULL /\ tone = NULL /\ ~Dead(main) /\ kind[main] = "host"
        /\ OutOfMemory /\ Crash("out_of_memory")

\* Mutant: without a tone to stop the semaphore is kept.
ToneStopKeeps(a) ==
  /\ At(a, "stop_held") /\ Return(a)
  /\ IF tone # NULL /\ arg[a].immediate
     THEN Post(Evt("DESTROY", tone)) /\ UNCHANGED sema
     ELSE UNCHANGED <<sema, evts>>
  /\ UNCHANGED <<main, tone, tpc, cur, handle, memory, audio, fault>>

ToneStop(a) ==
  /\ At(a, "stop_held") /\ Return(a)
  /\ IF tone # NULL /\ arg[a].immediate
     THEN Post(Evt("DESTROY", tone)) /\ UNCHANGED sema
     ELSE sema' = 1 /\ UNCHANGED evts
  /\ UNCHANGED <<main, tone, tpc, cur, handle, memory, audio, fault>>

\* audio_scene_recv_encoded_data, called with the pointer the thread holds; who
\* passes NULL (no caller in the repository does) would have the task follow it.
RecvEncodedData(a) ==
  /\ At(a, "idle") /\ handle[a] # NULL
  /\ Len(evts) < MaxEvts
  /\ Post(Evt("RECV", handle[a]))
  /\ UNCHANGED <<main, tone, sema, tpc, cur, threads, memory, audio, fault>>

-----------------------------------------------------------------------------
(***************************************************************************)
(* Interrupts: the speaker asks the decoder module for PCM, which calls    *)
(* back into the tone scene.                                               *)
(***************************************************************************)
Speaker == fault = "none" /\ hw # NULL /\ kind[hw] # "solo"

\* hw_request_pcm_handler of a tone follows audio_tone_scene blindly.
SpeakerCrash ==
  /\ Speaker /\ kind[hw] = "tone" /\ Dead(tone)
  /\ Crash(Dereference(tone))

SpeakerPulls == Speaker /\ mixer /\ ~(kind[hw] = "tone" /\ Dead(tone))

RequestRawData(d) ==
  /\ SpeakerPulls /\ dec[d] = "decoding"
  /\ Len(evts) < MaxEvts
  /\ Post([type |-> "REQ", scene |-> tone, dec |-> d])
  /\ UNCHANGED <<main, tone, sema, tpc, cur, threads, memory, audio, fault>>

\* xSemaphoreTakeFromISR does not block and its result is not looked at.
PcmConsumed(d) ==
  /\ SpeakerPulls /\ dec[d] = "draining"
  /\ sema' = 0
  /\ Post(Evt("DESTROY", tone))
  /\ dec' = [dec EXCEPT ![d] = "consumed"]
  /\ UNCHANGED <<main, tone, tpc, cur, threads, memory, hw, mixer, fault>>

-----------------------------------------------------------------------------
(***************************************************************************)
(* The audio task                                                          *)
(***************************************************************************)
TaskAt(where) == fault = "none" /\ tpc = where

TaskStart ==
  /\ TaskAt("start")
  /\ sema' = 1
  /\ tpc' = "wait"
  /\ UNCHANGED <<main, tone, evts, cur, threads, memory, audio, fault>>

Pop ==
  /\ TaskAt("wait") /\ evts # <<>>
  /\ cur' = Head(evts)
  /\ evts' = Tail(evts)
  /\ tpc' = CASE Head(evts).type = "CREATE"  -> "create"
              [] Head(evts).type = "DESTROY" -> "destroy_tone"
              [] OTHER -> "deliver"
  /\ UNCHANGED <<main, tone, sema, threads, memory, audio, fault>>

\* audio_hw_create refuses a second instance; init ignores it.
Speakers(s) == hw' = IF hw = NULL THEN s ELSE hw
SpeakerOff(s) == hw' = IF hw = s THEN NULL ELSE hw
MixerOff == mixer' = FALSE /\ dec' = [d \in Scenes |-> "none"]

\* op->init(scene)
InitTone(s) ==
  /\ kind[s] = "tone"
  /\ tone' = s
  /\ dec' = [dec EXCEPT ![s] = "decoding"]
  /\ \/ main = s /\ mixer' = TRUE /\ Speakers(s)
     \/ main # s /\ mixer /\ UNCHANGED <<mixer, hw>>

InitMain(s) ==
  /\ kind[s] # "tone"
  /\ Speakers(s)
  /\ mixer' = (mixer \/ kind[s] = "host")
  /\ UNCHANGED <<tone, dec>>

HandleCreate ==
  /\ TaskAt("create")
  /\ \/ /\ ~Dead(cur.scene)
        /\ InitTone(cur.scene) \/ InitMain(cur.scene)
        /\ life' = [life EXCEPT ![cur.scene] = "inited"]
        /\ tpc' = "give"
        /\ UNCHANGED <<main, sema, evts, cur, threads, kind, fault>>
     \/ cur.scene = NULL /\ Crash("assert")
     \/ cur.scene # NULL /\ Dead(cur.scene) /\ Crash("use_after_free")
     \* audio_decoder_add returns NULL, audio_decoder_start follows it
     \/ /\ ~Dead(cur.scene) /\ kind[cur.scene] = "tone"
        /\ main # cur.scene /\ ~mixer /\ Crash("null_pointer")

\* Mutant: destroy leaves audio_tone_scene set.
DestroyToneKeepsPointer ==
  /\ \/ main = tone /\ SpeakerOff(tone) /\ MixerOff
     \/ main # tone /\ dec' = [dec EXCEPT ![tone] = "none"] /\ UNCHANGED <<hw, mixer>>
  /\ life' = [life EXCEPT ![tone] = "free"]
  /\ UNCHANGED tone

\* destroy(audio_tone_scene): as the main scene it takes the module and the
\* speaker down, as a guest it only removes its decoder.
DestroyTone ==
  /\ \/ main = tone /\ SpeakerOff(tone) /\ MixerOff
     \/ main # tone /\ dec' = [dec EXCEPT ![tone] = "none"] /\ UNCHANGED <<hw, mixer>>
  /\ life' = [life EXCEPT ![tone] = "free"]
  /\ tone' = NULL

\* What destroying the tone trips over: its memory is gone, its raw data
\* buffer was never allocated, or the module has already freed its decoder.
ToneFault ==
  IF Dead(tone) THEN Dereference(tone)
  ELSE IF life[tone] = "allocated" THEN "assert"
  ELSE IF main # tone /\ dec[tone] = "none" THEN "use_after_free"
  ELSE "none"

DestroyMain(s) ==
  /\ SpeakerOff(s)
  /\ IF kind[s] = "host" THEN MixerOff ELSE UNCHANGED <<mixer, dec>>
  /\ life' = [life EXCEPT ![s] = "free"]
  /\ UNCHANGED tone

TaskStep(where) ==
  /\ tpc' = where
  /\ cur' = IF where = "wait" THEN NoEvt ELSE cur
  /\ UNCHANGED <<main, sema, evts, threads, kind, fault>>

\* Mutant: destroying a main scene leaves its tone alone.
HandleDestroyLeavesTone ==
  /\ TaskAt("destroy_tone")
  /\ TaskStep(IF cur.scene = NULL THEN "give" ELSE "destroy_scene")
  /\ UNCHANGED <<tone, life, audio>>

\* Destroying a main scene takes the tone with it.
HandleDestroyTone ==
  /\ TaskAt("destroy_tone")
  /\ \/ /\ cur.scene = NULL
        /\ TaskStep("give") /\ UNCHANGED <<tone, life, audio>>
     \/ /\ cur.scene # NULL /\ cur.scene = tone /\ ~Dead(tone)
        /\ TaskStep("destroy_scene") /\ UNCHANGED <<tone, life, audio>>
     \/ /\ cur.scene # NULL /\ cur.scene = tone /\ Dead(tone)
        /\ Crash("use_after_free")
     \/ /\ cur.scene # NULL /\ tone = NULL
        /\ TaskStep("destroy_scene") /\ UNCHANGED <<tone, life, audio>>
     \/ /\ cur.scene # NULL /\ tone \notin {NULL, cur.scene}
        /\ \/ ToneFault = "none" /\ DestroyTone /\ TaskStep("destroy_scene")
           \/ ToneFault # "none" /\ Crash(ToneFault)

HandleDestroyScene ==
  /\ TaskAt("destroy_scene")
  /\ \/ Dead(cur.scene) /\ Crash("use_after_free")
     \/ /\ ~Dead(cur.scene) /\ kind[cur.scene] = "tone"
        /\ \/ /\ cur.scene # tone
              /\ TaskStep("destroy_clear") /\ UNCHANGED <<tone, life, audio>>
           \/ cur.scene = tone /\ ToneFault = "none" /\ DestroyTone /\ TaskStep("destroy_clear")
           \/ cur.scene = tone /\ ToneFault # "none" /\ Crash(ToneFault)
     \/ /\ ~Dead(cur.scene) /\ kind[cur.scene] # "tone"
        /\ \/ life[cur.scene] = "inited" /\ DestroyMain(cur.scene) /\ TaskStep("destroy_clear")
           \/ life[cur.scene] = "allocated" /\ Crash("uninitialised")

HandleDestroyClear ==
  /\ TaskAt("destroy_clear")
  /\ main' = IF cur.scene = main THEN NULL ELSE main
  /\ tpc' = "give"
  /\ UNCHANGED <<tone, sema, evts, cur, threads, memory, audio, fault>>

\* Mutant: the audio task goes on to the next event without giving.
GiveForgotten ==
  /\ TaskAt("give")
  /\ tpc' = "wait"
  /\ cur' = NoEvt
  /\ UNCHANGED <<main, tone, sema, evts, threads, memory, audio, fault>>

\* xSemaphoreGive has no effect on a semaphore that is already available.
Give ==
  /\ TaskAt("give")
  /\ sema' = 1
  /\ tpc' = "wait"
  /\ cur' = NoEvt
  /\ UNCHANGED <<main, tone, evts, threads, memory, audio, fault>>

\* event_handler of the scene the event names.
Handler(s) ==
  \/ /\ cur.type = "REQ" /\ kind[s] = "tone" /\ cur.dec = s /\ dec[s] = "decoding"
     /\ dec' \in {dec} \cup (IF TonesEnd THEN {[dec EXCEPT ![s] = "draining"]} ELSE {})
  \/ /\ ~(cur.type = "REQ" /\ kind[s] = "tone" /\ cur.dec = s /\ dec[s] = "decoding")
     /\ UNCHANGED dec

HandlerFault(s) ==
  IF Dead(s) THEN Dereference(s)
  ELSE IF life[s] = "allocated" /\ kind[s] # "tone" THEN "uninitialised"
  ELSE IF /\ cur.type = "REQ" /\ kind[s] = "tone" /\ cur.dec = s
          /\ life[s] = "inited" /\ dec[s] = "none"
       THEN "use_after_free"
       ELSE "none"

Deliver ==
  /\ TaskAt("deliver")
  /\ \/ /\ cur.scene \notin {main, tone}
        /\ TaskStep("wait") /\ UNCHANGED <<tone, life, audio>>
     \/ /\ cur.scene \in {main, tone} /\ HandlerFault(cur.scene) = "none"
        /\ Handler(cur.scene)
        /\ TaskStep("wait") /\ UNCHANGED <<tone, life, hw, mixer>>
     \/ /\ cur.scene \in {main, tone} /\ HandlerFault(cur.scene) # "none"
        /\ Crash(HandlerFault(cur.scene))

-----------------------------------------------------------------------------
Task == \/ TaskStart \/ Pop \/ HandleCreate \/ HandleDestroyTone
        \/ HandleDestroyScene \/ HandleDestroyClear \/ Give \/ Deliver

NewCall(a) == \/ CallCreate(a) \/ CallDestroy(a) \/ CallTonePlay(a)
              \/ CallToneStop(a) \/ RecvEncodedData(a)

Continue(a) == \/ TakeMissing(a) \/ CreateRetire(a) \/ CreateAlloc(a) \/ CreatePost(a)
               \/ CreateReturn(a) \/ DestroyPost(a) \/ TonePlay(a) \/ ToneStop(a)

Isr == SpeakerCrash \/ \E d \in Scenes : RequestRawData(d) \/ PcmConsumed(d)

\* A fault ends the program.
Stopped == fault # "none" /\ UNCHANGED vars

Next == \/ Task \/ Isr \/ Stopped
        \/ \E a \in Apps : NewCall(a) \/ Take(a) \/ Continue(a)

Spec == Init /\ [][Next]_vars

\* The scheduler runs ready tasks, and waiters of a semaphore get it in turn.
FairSpec ==
  /\ Spec
  /\ WF_vars(Task)
  /\ \A a \in Apps : SF_vars(Continue(a)) /\ SF_vars(Take(a))

-----------------------------------------------------------------------------
(***************************************************************************)
(* Properties                                                              *)
(***************************************************************************)
\* Every pointer is NULL or an address, every event one the code queues.
TypeOK ==
  /\ main \in Ptr /\ tone \in Ptr /\ hw \in Ptr
  /\ sema \in {0, 1}
  /\ evts \in Seq(Events) /\ cur \in Events
  /\ tpc \in {"start", "wait", "create", "destroy_tone", "destroy_scene",
              "destroy_clear", "give", "deliver"}
  /\ pc \in [Apps -> AppPcs]
  /\ arg \in [Apps -> Args]
  /\ handle \in [Apps -> Ptr]
  /\ life \in [Scenes -> {"free", "allocated", "inited"}]
  /\ kind \in [Scenes -> Kinds]
  /\ mixer \in BOOLEAN
  /\ dec \in [Scenes -> {"none", "decoding", "draining", "consumed"}]
  /\ fault \in Faults

\* Who owns the right to change the scenes: a thread that has taken the
\* semaphore, a queued life-cycle event, or the audio task until it gives.
Holding(a) == pc[a] \in Holders
Queued(i) == evts[i].type \in Lifecycle
Serving == tpc \in {"create", "destroy_tone", "destroy_scene", "destroy_clear", "give"}

\* The semaphore is never lost: it is available, or some thread, event or the
\* audio task will give it back.  Otherwise every later call blocks forever.
TokenNeverLost ==
  tpc # "start" =>
    \/ sema = 1
    \/ \E a \in Apps : Holding(a)
    \/ \E i \in DOMAIN evts : Queued(i)
    \/ Serving

\* The semaphore does its job: at most one life-cycle operation is under way,
\* counting threads inside a call, queued events and the audio task.
OneOperationAtATime ==
  /\ sema = 1 => /\ \A a \in Apps : ~Holding(a)
                 /\ \A i \in DOMAIN evts : ~Queued(i)
                 /\ ~Serving
  /\ \A a, b \in Apps : Holding(a) /\ Holding(b) => a = b
  /\ \A i, j \in DOMAIN evts : Queued(i) /\ Queued(j) => i = j
  /\ (\E a \in Apps : Holding(a)) => ~Serving /\ \A i \in DOMAIN evts : ~Queued(i)
  /\ Serving => \A i \in DOMAIN evts : ~Queued(i)

\* The owner of the right to change the scenes, and the promise that it moves
\* only as SceneOwner says.
owner ==
  IF tpc = "start" \/ Serving THEN <<"task">>
  ELSE IF sema = 1 THEN <<"nobody">>
  ELSE IF \E a \in Apps : Holding(a) THEN <<"app", CHOOSE a \in Apps : Holding(a)>>
  ELSE <<"event">>

Owner == INSTANCE SceneOwner WITH owner <- owner

\* The semaphore implements a single owner: as long as no tone ends by itself,
\* every step of the program is a step of SceneOwner or leaves the owner alone.
SingleOwner == Owner!Spec

\* No step follows a NULL or freed scene, uses memory nobody has initialised or
\* trips an assertion.
NoFault == fault = "none"

\* Nothing leaks: a scene in memory can still be reached by a global or by the
\* event that will initialise or destroy it.
NoOrphanScene ==
  \A s \in Scenes :
    life[s] # "free" =>
      \/ s \in {main, tone}
      \/ \E i \in DOMAIN evts : Queued(i) /\ evts[i].scene = s
      \/ Serving /\ cur.scene = s

\* Between two operations the globals, the memory, the speaker and the decoder
\* module agree: the main scene is initialised and owns the speaker, and a tone
\* decodes into the module of a host or is itself the main scene.
Settled == sema = 1 /\ evts = <<>> /\ tpc = "wait"
              /\ \A a \in Apps : pc[a] \notin {"create_alloc", "create_retake", "create_return"}
CoherentWhenSettled ==
  Settled =>
    /\ main # NULL => life[main] = "inited" /\ hw = main
    /\ main = NULL => hw = NULL /\ ~mixer
    /\ tone # NULL => main # NULL /\ (tone = main \/ kind[main] = "host")
    /\ \A s \in Scenes : dec[s] # "none" <=> s = tone

\* Every call of the API returns, unless the program has stopped.
CallsReturn ==
  \A a \in Apps : pc[a] # "idle" ~> (pc[a] = "idle" \/ fault # "none")

=============================================================================
