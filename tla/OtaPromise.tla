----------------------------- MODULE OtaPromise -----------------------------
(***************************************************************************)
(* What the update over the air promises whatever the power does: an image *)
(* is committed as a whole or not at all, a committed image stays so until *)
(* it is installed, and nothing else is ever installed.                    *)
(***************************************************************************)
CONSTANTS Images, Nothing
VARIABLES running, committed

Init == running \in Images /\ committed = Nothing

Commit(i) == committed = Nothing /\ committed' = i /\ UNCHANGED running

Install ==
  /\ committed \in Images
  /\ running' = committed
  /\ committed' = Nothing

Next == Install \/ \E i \in Images : Commit(i)

Spec == Init /\ [][Next]_<<running, committed>>
=============================================================================
