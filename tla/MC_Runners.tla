------------------------------ MODULE MC_Runners ------------------------------
(* The guest of isolate i1 holds a reference to a value of its own (h1) *)
(* and one to a value of i2 (h2); one one-shot, which a call can pass     *)
(* twice (receiver and argument); two task slots.                         *)
EXTENDS Runners, TLC

CONSTANTS i1, i2, h1, h2, d1, t1, t2

MCIsolates == {i1, i2}
MCHandles  == {h1, h2}
MCOneShots == {d1}
MCTasks    == {t1, t2}
MCOwner    == (h1 :> i1 @@ h2 :> i2)

(* A receiver is passed: a plain value or a one-shot. *)
MCReceivers == {"plain", d1}
(* The modes of apply/copy/get/set: all of them, and two subsets. *)
MCModes        == {"sync", "async", "ignored", "promise"}
MCPromiseModes == {"promise", "async"}
MCPromiseOnly  == {"promise"}
(* Both references name values of i2, the isolate applySyncPromise is    *)
(* meant to target.                                                        *)
MCOwnerOne == (h1 :> i2 @@ h2 :> i2)

(* The receiver is omitted. *)
MCNoReceiver == {"absent"}

=============================================================================
