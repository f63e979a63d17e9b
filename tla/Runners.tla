------------------------------- MODULE Runners -------------------------------
(***************************************************************************)
(* The runners of Reference.apply/copy/get/set, src/src/reference_handle.cc *)
(* (ApplyRunner, CopyRunner, GetRunner, SetRunner), composed with the      *)
(* Reference module through an INSTANCE sharing its variables.             *)
(*                                                                         *)
(* A call runs the runner's constructor in the caller's isolate (phase 1): *)
(* it copies the reference's `context` and `reference`, checks the        *)
(* reference and the arguments, and transfers out the transferable inputs *)
(* (receiver, arguments, the value to set). Inputs that carry state are   *)
(* derefInto() one-shots: TransferOut moves their value into a capsule.   *)
(* The task is then run by ThreePhaseTask (not under src/, spec 4.3): a   *)
(* synchronous call takes the target isolate's lock while its caller      *)
(* blocks, an asynchronous or ignored call is queued on the target. Phase *)
(* 2 runs under the target's lock and transfers the capsules in; phase 3  *)
(* runs back on the caller's thread, except for the ignored variant.      *)
(***************************************************************************)
EXTENDS Naturals, Sequences

CONSTANTS
  Isolates, Handles, OneShots, None,  \* as in Reference
  Caller,     \* the isolate whose guest makes the calls
  Owner,      \* Owner[h]: the isolate owning the value reference h names
  Tasks,      \* ThreePhaseTask objects that can exist at once (bound on calls)
  Receivers,  \* apply's receiver: "absent", "plain" or a one-shot
  MaxArgs,    \* longest run of one-shot arguments before a failing one
  Modes       \* Run<0> "sync", <1> "async", <2> "ignored", <4> "promise"

ASSUME /\ Receivers \subseteq {"absent", "plain"} \cup OneShots
       /\ Caller \in Isolates /\ Owner \in [Handles -> Isolates]
       /\ Modes \subseteq {"sync", "async", "ignored", "promise"}

VARIABLES
  ref, once, capsule, delivered, emptyDeref, reuseErr,   \* Reference
  task,   \* task[t]: the runner and its ThreePhaseTask state
  queue,  \* queue[i]: tasks dispatched to isolate i, not yet run
  wrapper,        \* the isolate that compiled the static callback_persistent, or None
  wrapperUsedIn,  \* isolates in which Phase2Async dereferenced callback_persistent
  nullIsolate     \* a call dereferenced the empty `isolate` of a released reference

(* The runners never read the kind of the referenced value (apply's       *)
(* IsFunction check is the per-call choice isFn), so it is fixed here.   *)
R == INSTANCE Reference WITH ValueKinds <- {"object"}

refVars == <<ref, once, capsule, delivered, emptyDeref, reuseErr>>
vars == <<ref, once, capsule, delivered, emptyDeref, reuseErr, task, queue,
         wrapper, wrapperUsedIn, nullIsolate>>

(* The modes in which the caller's thread blocks until phase 3. *)
Blocking == {"sync", "promise"}

NoTask == [op |-> "none", mode |-> "sync", h |-> None, live |-> FALSE,
           recv |-> "plain", argv |-> <<>>, val |-> "plain", ret |-> "default",
           state |-> "free"]

(* The one-shots among a list of inputs. *)
OneShotsIn(xs) == SelectSeq(xs, LAMBDA x : x \in OneShots)

(* Capsules a task owns: its receiver, arguments and value. *)
Captured(k) == {k.recv, k.val} \cup {k.argv[n] : n \in DOMAIN k.argv}

(* Destroying a runner destroys the capsules it still holds. *)
Dropped(c, ds) ==
  [d \in DOMAIN c |-> IF d \in ds /\ c[d].state = "flight"
                        THEN [c[d] EXCEPT !.state = "dropped"] ELSE c[d]]

(* The caller's thread is blocked in a synchronous call. *)
Busy == \E t \in Tasks : /\ task[t].mode \in Blocking
                          /\ task[t].state \in {"running", "awaiting", "phase3"}

(* The isolate a task's phase 2 runs in. *)
Target(k) == Owner[k.h]

(* Transferable::TransferOut of each input in order, as the constructors  *)
(* do; the first one-shot that was already used throws and stops it.      *)
RECURSIVE TransferOutSeq(_, _, _, _)
TransferOutSeq(xs, dest, o, c) ==
  IF xs = <<>> THEN [once |-> o, capsule |-> c, reused |-> {}]
  ELSE LET d == Head(xs) IN
       IF o[d].live
         THEN TransferOutSeq(Tail(xs), dest, R!Moved(o, d), R!InFlight(c, o, d, dest))
         ELSE [once |-> o, capsule |-> c, reused |-> {d}]

(* TransferIn of each capsule in order in isolate `at` (TransferArguments,  *)
(* recv->TransferIn, val->TransferIn); the first that throws stops it.    *)
RECURSIVE TransferInSeq(_, _, _, _)
TransferInSeq(ds, at, c, dl) ==
  IF ds = <<>> THEN [capsule |-> c, delivered |-> dl, res |-> "ok"]
  ELSE LET d == Head(ds)
           c2 == [c EXCEPT ![d].state = "done"]
       IN IF R!CanTransferIn(c, d, at)
            THEN TransferInSeq(Tail(ds), at, c2, [dl EXCEPT ![d] = @ + 1])
            ELSE [capsule |-> c2, delivered |-> dl, res |-> "error"]

-----------------------------------------------------------------------------
(* Phase 1 *)

(* `*isolate` in Apply, Copy, Get and Set: the target handed to          *)
(* ThreePhaseTask::Run is read from the ReferenceHandle's shared_ptr as   *)
(* the call's arguments are evaluated, before the runner's constructor    *)
(* calls CheckDisposed; release() has reset it to empty.                 *)
IsolateOf(h) == ref[h].isolate

(* ThreePhaseTask::Run: the runner's constructor has transferred out `xs`; *)
(* if it threw (`fails`, or a one-shot reuse), the error goes to the      *)
(* caller and the runner is destroyed with its capsules; otherwise the    *)
(* task is run synchronously or queued on the target isolate.             *)
Start(t, k, xs, fails) ==
  LET r == TransferOutSeq(xs, Target(k), once, capsule)
      moved == {d \in OneShots : r.capsule[d] # capsule[d]}
  IN /\ once' = r.once
     /\ reuseErr' = reuseErr \cup r.reused
     /\ IF fails \/ r.reused # {}
          THEN /\ capsule' = Dropped(r.capsule, moved)
               /\ UNCHANGED <<task, queue>>
          ELSE /\ capsule' = r.capsule
               /\ task' = [task EXCEPT ![t] =
                             [k EXCEPT !.state = IF k.mode \in Blocking
                                                   THEN "running" ELSE "queued"]]
               /\ queue' = IF k.mode \in Blocking THEN queue
                           ELSE [queue EXCEPT ![Target(k)] = Append(@, t)]
     /\ nullIsolate' = (nullIsolate \/ IsolateOf(k.h) = None)
     /\ UNCHANGED <<ref, delivered, emptyDeref, wrapper, wrapperUsedIn>>

(* The guest holds every one-shot it passes. *)
Held(xs) == \A n \in DOMAIN xs : once[xs[n]].holder # None

(* A call on reference h from the caller's thread, task slot t free. *)
CanCall(t, h) ==
  /\ task[t].state = "free"
  /\ ~Busy

(* The task a call builds: it copies `context` and `reference` from h. *)
Task(op, m, h) ==
  [NoTask EXCEPT !.op = op, !.mode = m, !.h = h, !.live = R!CheckDisposed(h)]

(* apply(recv, arguments, options): ApplyRunner's constructor. After      *)
(* CheckDisposed it transfers the receiver out, then checks the options   *)
(* (`optsBad`), then transfers the arguments out one by one; `argsBad`    *)
(* says an argument after `argv` is not at its index or not transferable. *)
(* `retCustom`: a `return` transfer option was given.                     *)
Apply(t, h, m, recv, argv, optsBad, argsBad, retCustom) ==
  LET recvOut == OneShotsIn(<<recv>>)
      xs == IF ~R!CheckDisposed(h) THEN <<>>
            ELSE IF optsBad THEN recvOut ELSE recvOut \o argv
  IN /\ CanCall(t, h)
     /\ Held(recvOut \o argv)
     /\ Start(t, [Task("apply", m, h) EXCEPT !.recv = recv, !.argv = argv,
                                             !.ret = IF retCustom THEN "custom"
                                                                 ELSE "default"], xs,
              ~R!CheckDisposed(h) \/ optsBad \/ argsBad)

(* copy(): CopyRunner's constructor only checks the reference. *)
Copy(t, h, m) ==
  /\ m \in {"sync", "async"}
  /\ CanCall(t, h)
  /\ Start(t, Task("copy", m, h), <<>>, ~R!CheckDisposed(h))

(* get(key): GetRunner checks the reference, then the key. *)
Get(t, h, m, badKey) ==
  /\ m \in {"sync", "async"}
  /\ CanCall(t, h)
  /\ Start(t, Task("get", m, h), <<>>, ~R!CheckDisposed(h) \/ badKey)

(* set(key, val): SetRunner's member initialisers transfer `val` out     *)
(* before the body checks the reference and the key.                      *)
Set(t, h, m, val, badKey) ==
  /\ m # "promise"
  /\ CanCall(t, h)
  /\ Held(OneShotsIn(<<val>>))
  /\ Start(t, [Task("set", m, h) EXCEPT !.val = val], OneShotsIn(<<val>>),
           ~R!CheckDisposed(h) \/ badKey)

-----------------------------------------------------------------------------
(* Phase 2, in the target isolate under its lock *)

(* Deref(reference) in Phase2 uses the runner's own RemoteHandle copy.    *)
Referenced(k) == k.live

Outcome(res) == [capsule |-> capsule, delivered |-> delivered, res |-> res]

(* ApplyRunner::Phase2: Deref(reference), TypeError if not a function;    *)
(* TransferArguments(); recv->TransferIn(), where `recv` is null when no  *)
(* receiver was passed; the call under RunWithTimeout may throw or be     *)
(* interrupted.                                                            *)
ApplyPhase2(k, isFn, callOk) ==
  LET args == TransferInSeq(k.argv, Target(k), capsule, delivered)
      rcv  == TransferInSeq(OneShotsIn(<<k.recv>>), Target(k),
                            args.capsule, args.delivered)
  IN IF ~isFn THEN Outcome("error")
     ELSE IF args.res = "error" THEN args
     ELSE IF k.recv = "absent" THEN [args EXCEPT !.res = "crash"]
     ELSE IF rcv.res = "error" THEN rcv
     ELSE [rcv EXCEPT !.res = IF callOk THEN "ok" ELSE "error"]

(* SetRunner::Phase2: delete the key, val->TransferIn(), set the key (a   *)
(* guest setter may throw).                                                *)
SetPhase2(k, setOk) ==
  LET v == TransferInSeq(OneShotsIn(<<k.val>>), Target(k), capsule, delivered)
  IN IF v.res = "error" THEN v
     ELSE [v EXCEPT !.res = IF setOk THEN "ok" ELSE "error"]

(* GetRunner::Phase2: read the key (a guest getter may throw), transfer   *)
(* the value out as a reference.                                           *)
GetPhase2(k, ok) == Outcome(IF ok THEN "ok" ELSE "error")

(* CopyRunner::Phase2: ExternalCopy::Copy of the value (may be refused).  *)
CopyPhase2(k, ok) == Outcome(IF ok THEN "ok" ELSE "error")

(* ApplyRunner::Phase2Async (applySyncPromise): the `return` option is   *)
(* refused here, in phase 2; then Deref(reference) and the function test; *)
(* recv->TransferIn() before TransferArguments(), the reverse of Phase2;   *)
(* the call. A promise result is handed to the wrapper function and the   *)
(* task waits on it.                                                       *)
ApplyPhase2Async(k, isFn, callOk, promised) ==
  LET rcv  == TransferInSeq(OneShotsIn(<<k.recv>>), Target(k), capsule, delivered)
      args == TransferInSeq(k.argv, Target(k), rcv.capsule, rcv.delivered)
  IN IF k.ret = "custom" \/ ~isFn THEN Outcome("error")
     ELSE IF k.recv = "absent" THEN Outcome("crash")
     ELSE IF rcv.res = "error" THEN rcv
     ELSE IF args.res = "error" THEN args
     ELSE [args EXCEPT !.res = CASE ~callOk -> "error"
                                 [] promised -> "promise"
                                 [] OTHER -> "ok"]

(* `static Persistent<Function> callback_persistent{isolate,              *)
(* CompileAsyncWrapper()}` is initialised by the first Phase2Async that   *)
(* gets a promise, in the isolate it runs in; every such call then        *)
(* dereferences it in its own isolate.                                    *)
UseWrapper(at) ==
  /\ wrapper' = IF wrapper = None THEN at ELSE wrapper
  /\ wrapperUsedIn' = wrapperUsedIn \cup {at}

Phase2(k, ok, isFn, promised) ==
  CASE k.op = "apply" /\ k.mode = "promise" -> ApplyPhase2Async(k, isFn, ok, promised)
    [] k.op = "apply" -> ApplyPhase2(k, isFn, ok)
    [] k.op = "set"   -> SetPhase2(k, ok)
    [] k.op = "get"   -> GetPhase2(k, ok)
    [] k.op = "copy"  -> CopyPhase2(k, ok)

(* The end of phase 2: the capsules the runner did not transfer in die    *)
(* with it; an ignored task ends here (its errors are dropped), the       *)
(* others wait for phase 3; a null dereference ends the process.          *)
Complete(t, r) ==
  /\ emptyDeref' = (emptyDeref \/ ~Referenced(task[t]))
  /\ capsule' = Dropped(r.capsule, Captured(task[t]))
  /\ delivered' = r.delivered
  /\ task' = [task EXCEPT ![t] =
                CASE r.res = "crash" -> [NoTask EXCEPT !.state = "crashed"]
                  [] r.res = "promise" -> [NoTask EXCEPT !.mode = "promise",
                                                         !.state = "awaiting"]
                  [] task[t].mode = "ignored" -> NoTask
                  [] OTHER -> [NoTask EXCEPT !.mode = task[t].mode,
                                             !.state = "phase3"]]
  /\ UNCHANGED <<ref, once, reuseErr>>

(* The target isolate's thread runs the task at the head of its queue.   *)
RunQueued(i) ==
  /\ queue[i] # <<>>
  /\ \E ok, isFn \in BOOLEAN : Complete(Head(queue[i]),
                                         Phase2(task[Head(queue[i])], ok, isFn, FALSE))
  /\ queue' = [queue EXCEPT ![i] = Tail(@)]
  /\ UNCHANGED <<wrapper, wrapperUsedIn, nullIsolate>>

(* A synchronous task runs phase 2 under the target's lock while its      *)
(* caller's thread blocks.                                                 *)
RunSync(t) ==
  /\ task[t].state = "running"
  /\ \E ok, isFn, promised \in BOOLEAN :
       LET r == Phase2(task[t], ok, isFn, promised) IN
       /\ Complete(t, r)
       /\ IF r.res = "promise" THEN UseWrapper(Target(task[t]))
                               ELSE UNCHANGED <<wrapper, wrapperUsedIn>>
  /\ UNCHANGED <<queue, nullIsolate>>

(* applySyncPromise: the AsyncWait ends when the promise reaction wakes   *)
(* it or the deadline fires (ApplyPromise models this step by step); a    *)
(* promise that never settles without a deadline blocks the caller.      *)
AwaitEnds(t) ==
  /\ task[t].state = "awaiting"
  /\ task' = [task EXCEPT ![t].state = "phase3"]
  /\ UNCHANGED <<ref, once, capsule, delivered, emptyDeref, reuseErr, queue,
                 wrapper, wrapperUsedIn, nullIsolate>>

(* Phase 3 on the caller's thread: the blocked caller of a sync task, or  *)
(* the caller's event loop for an async one, gets the result or error.    *)
Phase3(t) ==
  /\ task[t].state = "phase3"
  /\ task[t].mode \in Blocking \/ ~Busy
  /\ task' = [task EXCEPT ![t] = NoTask]
  /\ UNCHANGED <<ref, once, capsule, delivered, emptyDeref, reuseErr, queue,
                 wrapper, wrapperUsedIn, nullIsolate>>

-----------------------------------------------------------------------------
Args == UNION {[1..n -> OneShots] : n \in 0..MaxArgs}

(* The caller holds a reference to each value, made by new Reference()  *)
(* in the owner or passed in from it; neither has been used yet.          *)
Init ==
  /\ ref = [h \in Handles |-> [holder |-> Caller, isolate |-> Owner[h], live |-> TRUE,
                               value |-> "object", typeOf |-> "Object"]]
  /\ once = [d \in OneShots |-> R!NoOneShot]
  /\ capsule = [d \in OneShots |-> R!NoCapsule]
  /\ delivered = [d \in OneShots |-> 0]
  /\ emptyDeref = FALSE
  /\ reuseErr = {}
  /\ task = [t \in Tasks |-> NoTask]
  /\ queue = [i \in Isolates |-> <<>>]
  /\ wrapper = None
  /\ wrapperUsedIn = {}
  /\ nullIsolate = FALSE

(* The guest's own steps on its references, outside any task. *)
RefStep ==
  /\ ~Busy
  /\ \/ \E h \in Handles : R!Release(h)
     \/ \E h \in Handles, d \in OneShots, rel \in BOOLEAN : R!DerefInto(h, d, rel, FALSE)
  /\ UNCHANGED <<task, queue, wrapper, wrapperUsedIn, nullIsolate>>

(* Outside applySyncPromise the `return` option only shapes how the result *)
(* is transferred, which the model leaves out.                              *)
CallStep ==
  \E t \in Tasks, h \in Handles, m \in Modes :
    \/ \E recv \in Receivers, argv \in Args, optsBad, argsBad \in BOOLEAN,
          retCustom \in IF m = "promise" THEN BOOLEAN ELSE {FALSE} :
         Apply(t, h, m, recv, argv, optsBad, argsBad, retCustom)
    \/ Copy(t, h, m)
    \/ \E badKey \in BOOLEAN : Get(t, h, m, badKey)
    \/ \E val \in {"plain"} \cup OneShots, badKey \in BOOLEAN :
         Set(t, h, m, val, badKey)

TargetStep == (\E i \in Isolates : RunQueued(i)) \/ (\E t \in Tasks : RunSync(t))
CallerStep == \E t \in Tasks : Phase3(t) \/ AwaitEnds(t)

Next == RefStep \/ CallStep \/ TargetStep \/ CallerStep

(* Only safety is checked of the runners, so no step is required to    *)
(* happen.                                                                *)
Spec == Init /\ [][Next]_vars

-----------------------------------------------------------------------------
TaskRec == [op : {"apply", "copy", "get", "set"}, mode : Modes,
            h : Handles, live : BOOLEAN,
            recv : Receivers \cup {"plain"}, argv : Seq(OneShots),
            val : {"plain"} \cup OneShots, ret : {"default", "custom"},
            state : {"running", "queued"}]

(* After phase 2 a task keeps only its mode and where it is. *)
Finished == {[NoTask EXCEPT !.mode = m, !.state = st] :
               m \in Modes, st \in {"phase3", "awaiting", "crashed"}}

TypeOK ==
  /\ R!TypeOK
  /\ task \in [Tasks -> TaskRec \cup Finished \cup {NoTask}]
  /\ queue \in [Isolates -> Seq(Tasks)]
  /\ wrapper \in Isolates \cup {None}
  /\ wrapperUsedIn \subseteq Isolates
  /\ nullIsolate \in BOOLEAN

(* A one-shot's value that a runner moved out is never lost in between: a *)
(* capsule still in flight belongs to exactly one task that has yet to    *)
(* run phase 2. A constructor that throws after a TransferOut, and a      *)
(* Phase2 that throws between two TransferIns, destroy the capsules they  *)
(* hold.                                                                   *)
CapsulesOwned ==
  \A d \in OneShots :
    capsule[d].state = "flight" =>
      \E t \in Tasks : /\ task[t].state \in {"running", "queued"}
                       /\ d \in Captured(task[t])
                       /\ \A u \in Tasks \ {t} : d \notin Captured(task[u])
                                                  \/ task[u].state \notin {"running", "queued"}

(* The "should only be used once" error of a one-shot passed to a call is *)
(* raised only for a one-shot that was used before (spec 4.2, 8).         *)
ReuseErrorOnlyAfterUse ==
  R!ReuseErrorOnlyAfterUse

(* An apply() on a function never dereferences a null receiver:           *)
(* `r.applySync()` with no receiver returns the function's result (spec 8).*)
NoNullReceiver ==
  \A t \in Tasks : task[t].state # "crashed"

(* callback_persistent, a V8 handle created in the isolate that compiled  *)
(* it, is only ever dereferenced in that isolate; the code's comment at   *)
(* its declaration rests on this ("only called from the default isolate").*)
WrapperUsedInOwnIsolate ==
  wrapperUsedIn \subseteq {wrapper}

(* Every operation on a released Reference fails as released before it   *)
(* touches anything else (spec 3: "every other operation first checks     *)
(* this and fails if empty"): Apply/Copy/Get/Set must not dereference the *)
(* empty `isolate` shared_ptr that release() left behind.                 *)
NoNullIsolate ==
  ~nullIsolate

=============================================================================
