----------------------------- MODULE SharedHandle -----------------------------
(***************************************************************************)
(* ShareablePersistent, src/src/shareable_persistent.h: a Persistent kept  *)
(* alive for its owning isolate and shared among threads through a         *)
(* shared_ptr. Whichever thread drops the last share runs the destructor:  *)
(* it asks the owner to run a disposal task (D(handle, isolate); Reset;    *)
(* delete) on the owner's thread, and when ScheduleHandleTask refuses      *)
(* because the isolate is gone it runs D(handle, nullptr); delete inline.  *)
(*                                                                         *)
(* The owner's side (ShareableIsolate::ScheduleHandleTask, its task queue   *)
(* and its teardown) is not under src/ and follows spec.md 2 and 4.4: a    *)
(* task is accepted while the isolate is alive, queued tasks run on the    *)
(* owner's thread, and scheduling fails once the isolate is torn down.     *)
(* What teardown does with tasks already accepted is stated nowhere; the   *)
(* model lets them run later or never.                                     *)
(***************************************************************************)
EXTENDS Naturals, Sequences

CONSTANTS
  Threads,    \* threads that can hold a share; OwnerThread is one of them
  OwnerThread,
  Handles     \* ShareablePersistent objects

ASSUME OwnerThread \in Threads

VARIABLES
  alive,      \* the owning isolate accepts tasks
  shares,     \* shares[h]: threads holding a shared_ptr to h
  hstate,     \* "unborn" | "live" | "queued" | "freed"
  queue,      \* the owner's handle-task queue
  frees       \* frees[h]: times `delete handle` ran for h

vars == <<alive, shares, hstate, queue, frees>>

-----------------------------------------------------------------------------
(* Constructor: runs in the current isolate's thread and captures it. *)
Construct(h) ==
  /\ alive
  /\ hstate[h] = "unborn"
  /\ hstate' = [hstate EXCEPT ![h] = "live"]
  /\ shares' = [shares EXCEPT ![h] = {OwnerThread}]
  /\ UNCHANGED <<alive, queue, frees>>

(* A copy of the shared_ptr handed to another thread. *)
Share(h, t, t2) ==
  /\ t \in shares[h]
  /\ t2 \notin shares[h]
  /\ shares' = [shares EXCEPT ![h] = @ \cup {t2}]
  /\ UNCHANGED <<alive, hstate, queue, frees>>

(* Mutant: the inline fallback also runs after the task was accepted. *)
DestroyBothPaths(h) ==
  /\ hstate' = [hstate EXCEPT ![h] = IF alive THEN "queued" ELSE "freed"]
  /\ frees' = [frees EXCEPT ![h] = @ + 1]
  /\ queue' = IF alive THEN Append(queue, h) ELSE queue

(* ~ShareablePersistent: handle.release(); then ScheduleHandleTask on the *)
(* owner, or, when it refuses, D(handle, nullptr); delete handle.        *)
Destroy(h) ==
  IF alive
    THEN /\ queue' = Append(queue, h)
         /\ hstate' = [hstate EXCEPT ![h] = "queued"]
         /\ UNCHANGED frees
    ELSE /\ hstate' = [hstate EXCEPT ![h] = "freed"]
         /\ frees' = [frees EXCEPT ![h] = @ + 1]
         /\ UNCHANGED queue

(* Thread t drops its share; the last one out runs the destructor. *)
Drop(h, t) ==
  /\ t \in shares[h]
  /\ shares' = [shares EXCEPT ![h] = @ \ {t}]
  /\ IF shares[h] = {t}
       THEN Destroy(h)
       ELSE UNCHANGED <<hstate, queue, frees>>
  /\ UNCHANGED alive

(* The owner's thread runs the disposal task: D(handle, isolate.get());  *)
(* handle->Reset(); delete handle.                                         *)
RunHandleTask ==
  /\ queue # <<>>
  /\ LET h == Head(queue) IN
       /\ hstate' = [hstate EXCEPT ![h] = "freed"]
       /\ frees' = [frees EXCEPT ![h] = @ + 1]
  /\ queue' = Tail(queue)
  /\ UNCHANGED <<alive, shares>>

(* The owning isolate is torn down; ScheduleHandleTask fails from now on. *)
Teardown ==
  /\ alive
  /\ alive' = FALSE
  /\ UNCHANGED <<shares, hstate, queue, frees>>

-----------------------------------------------------------------------------
Init ==
  /\ alive = TRUE
  /\ shares = [h \in Handles |-> {}]
  /\ hstate = [h \in Handles |-> "unborn"]
  /\ queue = <<>>
  /\ frees = [h \in Handles |-> 0]

Next ==
  \/ \E h \in Handles : Construct(h)
  \/ \E h \in Handles, t, t2 \in Threads : Share(h, t, t2)
  \/ \E h \in Handles, t \in Threads : Drop(h, t)
  \/ RunHandleTask
  \/ Teardown

(* Only safety is checked here, so no step is required to happen. *)
Spec == Init /\ [][Next]_vars

-----------------------------------------------------------------------------
TypeOK ==
  /\ alive \in BOOLEAN
  /\ shares \in [Handles -> SUBSET Threads]
  /\ hstate \in [Handles -> {"unborn", "live", "queued", "freed"}]
  /\ queue \in Seq(Handles)
  /\ frees \in [Handles -> 0..1]      \* `delete handle` runs at most once

=============================================================================
