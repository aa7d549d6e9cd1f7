----------------------------- MODULE SceneOwner -----------------------------
(***************************************************************************)
(* What the semaphore of the audio scene manager promises: the right to    *)
(* change the scenes has one owner.  A thread that takes it returns it, or *)
(* passes it on with the event it queues; the audio task serves the event  *)
(* and returns it.                                                         *)
(***************************************************************************)
CONSTANT Apps
VARIABLE owner

Nobody == <<"nobody">>
App(a) == <<"app", a>>
Event == <<"event">>
AudioTask == <<"task">>

\* The audio task makes the semaphore before anyone can own it.
Init == owner = AudioTask

Take(a)  == owner = Nobody /\ owner' = App(a)
Give(a)  == owner = App(a) /\ owner' = Nobody
Queue(a) == owner = App(a) /\ owner' = Event
Serve    == owner = Event /\ owner' = AudioTask
Finish   == owner = AudioTask /\ owner' = Nobody

Next == Serve \/ Finish \/ \E a \in Apps : Take(a) \/ Give(a) \/ Queue(a)

Spec == Init /\ [][Next]_owner
=============================================================================
