# TLA+ models of isolated-vm's Reference core

This directory holds TLA+ models of `src/src/reference_handle.cc` and
`src/src/shareable_persistent.h`, the configurations TLC checks them with,
and `PROJECT.json`, which maps every definition to the source lines it models.
Run every check from this directory:

    tlc -workers 2 -config ApplyPromise.cfg MC_ApplyPromise

## 1. Inventory

### Components and their state

| Component | Source | State | Operations |
|---|---|---|---|
| **ReferenceHandle** (a `Reference`) | reference_handle.cc 80-201, 550-561 | `isolate` (owner, shared_ptr), `reference` (RemoteHandle to the value), `context`, cached `type_of` | `new`, `typeof`, `deref`, `derefInto`, `release`, `copy*`, `get*`, `set*`, `apply*`, TransferOut / TransferIn to another isolate |
| **DereferenceHandle** (result of `derefInto`) | 37-74 | `isolate`, `reference` moved out on first TransferOut | TransferOut ("should only be used once"), TransferIn (owner isolate only, else TypeError) |
| **ApplyRunner** | 206-421 | captured `recv`, `argv`, `timeout`, transfer options, `ret`, `async_error`, `did_finish` (shared bool), `async_wait` | constructor (phase 1), `Phase2`, `Phase2Async`, `Phase3`, `AsyncCallback` (promise reaction), `CompileAsyncWrapper` (static, compiled once) |
| **CopyRunner / GetRunner / SetRunner** | 426-548 | captured key (`ExternalCopy`), value `Transferable`, `ret` / `did_set` | constructor, Phase2 (delete-then-set for set), Phase3 |
| **ShareablePersistent** | shareable_persistent.h | `isolate` (strong shared_ptr), `handle` (Persistent) | constructor in current isolate, `Deref`, destructor: schedule disposal on owner or dispose inline |
| ThreePhaseTask, Scheduler::AsyncWait, RunWithTimeout, Transferable/ExternalCopy, IsolateEnvironment | *not in src/* | queues, locks, waits | used by the above; modelled from `spec.md` only where the code above depends on them |

### How they interact

A guest in isolate A calls a method of a Reference whose value lives in
isolate B. `typeof`, `deref`, `derefInto` and `release` run entirely in A.
The others build a runner: its constructor runs in A (phase 1: check
`CheckDisposed`, validate options, *transfer out* the key, value, receiver and
arguments), `Phase2` runs in B under B's lock (transfer in, touch the value,
transfer the result out), `Phase3` runs back in A. `applySyncPromise` uses
`Phase2Async`: if the call returns a promise, B installs a reaction through a
JS wrapper; the reaction runs `AsyncCallback` on B's thread later, which stores
the result and wakes A, which has been blocked on an `AsyncWait` with the
`timeout` as deadline. A and B communicate through the runner object and the
shared `did_finish` bool, with no lock between them.

A `ShareablePersistent` may lose its last share on any thread; its destructor
hands the Persistent to a task on the owner's queue, or frees it inline when
the owner is gone.

### What is hard

* **Cross-thread completion** (`applySyncPromise`): the deadline (caller
  thread) and the promise settlement (target thread) race over a plain bool
  and over the lifetime of the runner and the wait.
* **Guest reentrancy**: option objects are read with property gets that can
  run guest code (`IsOptionSet`, `options->Get`), including a `release()` of the
  very reference being used.
* **Partial failure in phase 1**: transferables (notably one-shot
  `derefInto` handles) are consumed in constructors before later checks throw.
* **Cross-thread disposal** of Persistents against isolate teardown.
* **Ordering** of synchronous, asynchronous and fire-and-forget tasks on the
  same isolate (set then get).

### Correctness properties per component

* Reference: every operation after `release()` fails as released; `deref`
  only from the owner; no operation dereferences an emptied handle; `typeof`
  answers JavaScript's typeof of the value (with "null" for null).
* DereferenceHandle: materialised at most once, only in the owner isolate.
* ApplyRunner (promise path): exactly one outcome reaches the caller; a
  result is delivered only if it was stored; a timeout only with a positive
  `timeout`; a settlement after the deadline has no effect; the caller is
  always woken; the reaction box is owned by one AsyncCallback only, even
  with a `then` the guest replaced.
* Runners: the static promise wrapper is used only in the isolate that
  compiled it; every capsule in flight has exactly one owner; no call
  dereferences a null receiver or the emptied `isolate` of a released
  reference. The spec also expects that a failing call does not consume its
  one-shot inputs; the code breaks this (see the findings).
* ShareablePersistent: the Persistent is deleted at most once, however the
  last share is dropped.

The full hazard list, each at its source line, is in `PROJECT.json`.

## 2. Plan

In order of importance; done items are marked.

1. **ApplyPromise** (done): the `applySyncPromise` race.
2. **Reference** (done): handles, release, deref and derefInto with
   reentrant option getters, one-shots, and transfer between isolates.
3. **Runners** (done): Apply/Copy/Get/Set phase 1, phase 2 and phase 3
   against Reference state (it INSTANCEs Reference), dispatched sync, async
   or ignored onto per-isolate queues, and `applySyncPromise` (Run<4>) with
   Phase2Async and the static promise wrapper (done).
4. **SharedHandle** (done): ShareablePersistent disposal against isolate
   teardown.
5. **AwaitCall** (done): the abstract promise-awaiting call, with
   ApplyPromise shown to implement it through INSTANCE ... WITH.
6. **TypeOf** (done): InferTypeOf and the `typeof` getter as operators,
   the tag cached in Reference state and checked against ECMAScript typeof.
7. **Guest `then`** (done): the wrapper's `promise.then` on a promise whose
   `then` the guest replaced, calling back zero, one or two times, or
   throwing out of Phase2Async.
8. Next steps:
   * an abstract three-phase task that Runners refines;
   * a fault model for isolate teardown while tasks are queued, once the
     behaviour of ShareableIsolate (not under src/) is pinned down;
   * object contents (set then get), once the engine's order between a sync
     call and queued tasks is known;
   * two callers issuing calls concurrently.

## 3. Modules and runs

### ApplyPromise (`ApplyPromise.tla`, `MC_ApplyPromise.tla`)

One `applySyncPromise` call. Variables follow ApplyRunner's members
(`timeout`, `ret`, `asyncError`, `flagMade` = `did_finish != nullptr`,
`didFinish` = `*did_finish`), plus `callerPc`, `cbPc` (program counters of the
two threads), `promise`, `runnerAlive` (runner and wait not yet destroyed),
`woken` (AsyncWait state) and `outcome`. Four more follow the promise
reaction: `thenKind` (the `then` the wrapper found on the promise: native,
or one the guest put there), `calls` (handler calls so far), `boxFreed` (the
`new shared_ptr<bool>` box of line 313 was deleted) and `boxReused` (an
AsyncCallback took ownership of the box after it was deleted).

Actions:

* `Phase1`: the constructor's option checks.
* `Phase2Async`: one atomic step under the target lock. It throws before the
  promise test (the refused `return` option, a non-function, a TransferIn,
  the call), stores a plain value, or takes the promise path: did_finish and
  the box are made and the wrapper calls `promise.then`. With a guest `then`
  that call may also throw (Unmaybe at 316) after the guest kept the
  handlers; the task then ends with the runner destroyed and the flag false.
* `SettlePromise`: a native promise settles once and queues one reaction.
* `GuestCall`: a guest `then` calls a handler, with any value, at any time,
  up to `MaxCalls` times in all, before or after the task ended.
* `CbCheck` (the unique_ptr taking the box at 344, the test at 345),
  `CbStore` (348-364), `CbFinish` (365), `CbWake` (366, then the box is
  deleted on return): AsyncCallback as separate steps.
* `WaitReturns`, `DeadlineFires`, `P3Check`, `P3Timeout`: the wait and
  Phase3's read and write of the flag as separate steps.

Reads and writes of the unsynchronised bool are separate steps because the
two threads interleave between them; this is the outcome set of the data
race under sequentially consistent memory. A guest `then` that calls a
handler synchronously, inside the call at 316, is covered by a `GuestCall`
right after `Phase2Async`: the caller is blocked either way.

Fairness: weak fairness of the caller thread, of the target thread and of the
deadline timer (threads that can run do; a timer that is armed fires). The
guest has none: its promise may never settle and its `then` may never call
back. A call really ends once the caller has returned, so deadlock checking
is off and `CallerReturns` is the check that nothing else stops.

Bounds: `Timeouts = {0, 1}` (unbounded and one armed deadline; its length is
irrelevant, only whether it can fire), four settlement kinds, both function
and non-function targets, both `return`-option kinds, both kinds of `then`.
`MaxCalls` is 1 in the pass run (a guest `then` that calls back at most once
behaves, for the caller, like a promise) and 2 in the run about calling
twice. 348 states.

* `apply_promise` (pass, native and guest `then`, at most one call back):
  * `CallerReturns`: a caller blocked in the wait returns once the promise
    settled or a deadline is armed;
  * `ImplementsAwaitCall`: the refinement below.
* `apply_promise_uaf` (violation, native `then`): `NoUseAfterFree`. TLC's
  trace: the promise is pending; the deadline fires; Phase3 reads
  `did_finish == false`; then the promise settles; AsyncCallback reads
  `did_finish == false` at 345; Phase3 sets the flag and throws the timeout,
  and the runner is destroyed; AsyncCallback is left to write `self.ret`
  into the dead runner. The model reaches the other orders too: settlement
  before the deadline, and a deadline between line 365 and 366, which ends
  with `Wake()` on a destroyed wait. With a guest `then` allowed, TLC finds a
  shorter path: Phase2Async throws at 316 after the guest kept the handlers,
  and a later handler call finds the flag false and writes through the dead
  runner. **Finding**: the completion flag is not a first-writer-wins flag
  as the spec requires.
* `apply_promise_then_twice` (violation, guest `then`, up to two calls):
  `ReactionBoxOwnedOnce`. TLC's trace: the guest's `then` calls the
  fulfilment handler; AsyncCallback stores the result, sets the flag, wakes
  the caller and deletes the box; the guest calls the handler again, and
  AsyncCallback wraps the same pointer in a new unique_ptr at 344. This is a
  double delete and a read of freed memory at 345, reachable by guest code.
  `value->IsPromise()` (305) does not protect it: a real Promise with an own
  `then` property passes it. **Finding.**

### AwaitCall (`AwaitCall.tla`): abstract spec, and the refinement

AwaitCall states what a promise-awaiting call promises its caller (spec 4.3,
5, 7):

* the call is validated, invoked, and then either ends or waits on a promise;
* exactly one writer sets the completion flag: the value itself, the promise
  settling, or a deadline that only a positive `timeout` arms;
* `Finish` reports what that first writer decided.

ApplyPromise maps onto it (`AW == INSTANCE AwaitCall WITH ...`):

* `Stage` maps the two program counters to the abstract stage;
* `FlagWriter` maps them to the first writer of `did_finish`: Phase3's timeout
  branch, the callback that both created and set the flag, or a plain return
  value;
* `Settlement` is the promise and `result` the outcome. A call that
  Phase2Async threw from is over for its caller: what a guest `then` does
  with the handlers afterwards maps to no abstract step.

`ImplementsAwaitCall == AW!ASpec` is a PROPERTY of the `apply_promise` run.
It includes the abstract fairness: the wait ends once the promise settles or
the deadline is armed.

What the refinement shows:

* It holds on every behaviour, the use-after-free traces included: the caller
  still sees a single first-writer outcome. The race's harm is confined to
  writes into freed memory, which `apply_promise_uaf` catches.
* It replaces the earlier, shallower checks that a delivered result was
  stored and that an unbounded call never times out.

### Reference (`Reference.tla`, `MC_Reference.tla`)

`ref[h]` is a ReferenceHandle object (`holder` isolate, `isolate` owner or
None, `live` = `reference` non-empty, `value` the kind of the referenced
value, `typeOf` the cached `type_of` tag); `once[d]` a DereferenceHandle;
`capsule[d]` its transferable; `delivered[d]` counts materialisations;
`emptyDeref` records a Deref of an empty handle. `Deref` and `DerefInto` take
the `release` option value and whether its getter calls `release()` on the same
reference.

`New` picks the value's kind from the constant `ValueKinds` and caches
`T!InferTypeOf` of it; `Received` (ReferenceHandleTransferable::TransferIn)
carries the whole ReferenceData, tag included, into the destination.

Bounds: 2 isolates, 2 handles, 2 one-shots, with symmetry over each (the
model treats members of each set alike). `reference` lets a value be of any
of the 12 kinds of TypeOf whose typeof the spec's tag set covers (162841
states); the two violation runs fix the kind to one object. `reuseErr` records one-shots whose TransferOut threw "should
only be used once".

* `reference` (pass): `OneShotDeliveredOnce`, and `TypeOfAgrees`: `typeof`
  on every live reference, including references passed to the other
  isolate, equals TypeOf's reference definition (ECMAScript typeof, "null"
  for null) of the value it names.

### TypeOf (`TypeOf.tla`)

Pure operators, INSTANCEd by Reference as `T`:

* `Kinds`: the kinds of V8 value that the predicates tell apart: null,
  undefined, smi, double, string, boolean, function, class, callable proxy,
  plain object, array, Number wrapper object, symbol, bigint.
* `IsNull` ... `IsFunction`: each V8 predicate as the set of kinds it holds
  for.
* `InferTypeOf`: the if / else-if chain, as the first predicate of the
  sequence that holds (SequencesExt's `SelectInSeq`), else Object.
* `TypeOfGetter`: the switch from tag to string.
* The reference definition `ReferenceTypeof`: the ECMAScript typeof table
  over language types ("function" for callables), with "null" for null.

Symbols and BigInts reach the `Object` default and report "object", where
JavaScript says "symbol" and "bigint". The spec's tag set (spec 3) has no
entry for them, so they are left outside `SpecKinds` and the check rather
than reported as a divergence.
* `reference_derefinto_reuse` (violation): `ReuseErrorOnlyAfterUse` (an
  action property: the reuse error is thrown only for a one-shot already
  transferred out). **Finding**: `derefInto({get release() { ref.release();
  return false; }})` yields a one-shot that is empty from birth, and its first
  use throws the reuse error.
* `reference_reentrant_release` (violation): `NoEmptyDeref` — **finding**:
  `deref({get release() { ref.release(); return false; }})` passes
  CheckDisposed, then dereferences the handle its own option getter emptied.

### Runners (`Runners.tla`, `MC_Runners.tla`)

Runners composes the runners with Reference (`R == INSTANCE Reference`,
sharing its variables) and adds two variables:

* `task[t]`: a runner object. It records the operation, the mode (`Run<0>`
  sync, `<1>` async, `<2>` ignored, `<4>` promise), the reference, the
  `return` option (`ret`), the runner's own copy of
  `reference` (`live`), the receiver, the arguments, the value, and the phase.
* `queue[i]`: the isolate's task queue.
* `wrapper`, `wrapperUsedIn`: the isolate that compiled the static
  `callback_persistent` of Phase2Async (lines 305-309), and the isolates
  that have dereferenced it.
* `nullIsolate`: some call dereferenced the empty `isolate` shared_ptr of a
  released reference (`IsolateOf`, the `*isolate` argument of
  `ThreePhaseTask::Run` in Apply/Copy/Get/Set).

The constant `Modes` chooses which of the four modes the guest uses.

Phase 1 actions:

* `Apply`, `Copy`, `Get` and `Set` are the constructors, in the order of their
  checks and transfers.
* `TransferOutSeq` is the recursive TransferOut of inputs in order; a reused
  one-shot throws.
* `Start` is ThreePhaseTask::Run. A failing phase 1 destroys the runner, and
  the capsules it had already moved are dropped.

Phase 2 actions:

* `ApplyPhase2`, `SetPhase2`, `GetPhase2` and `CopyPhase2` are the Phase2
  bodies; `ApplyPhase2Async` is Phase2Async for `applySyncPromise`: the
  receiver is transferred in before the arguments, a custom `return` option
  or a non-function throws, and a promise result takes the wrapper
  (`UseWrapper`) and leaves the task `awaiting`.
* `TransferInSeq` is TransferArguments and the other TransferIn calls.
* `Complete` ends phase 2: an ignored task ends there, a null `recv` crashes.

Dispatch and phase 3:

* `RunQueued` (an async or ignored task at the head of a queue) and `RunSync`
  are the engine.
* `AwaitEnds` is the end of the Run<4> wait (the promise settles or the
  deadline fires; the race itself is ApplyPromise's).
* `Phase3` delivers the result on the caller's thread.

`release()` and `derefInto()` by the guest interleave through `RefStep`.

The engine, not under src/, is modelled from the spec (spec_modelled in
`PROJECT.json`):

* a sync or promise call blocks the caller's thread, so nothing else is issued from it
  until its phase 3;
* async tasks run in queue order on the target isolate's thread.

Only safety properties are checked of the runners, so the specification
has no fairness. Deadlock checking is off: a guest that has made its calls
may stop.

Bounds: two isolates, two references (one owned by each), one one-shot, two
task slots, and at most one argument. These bounds cover:

* a one-shot passed as receiver, argument or value;
* reuse after a failed call;
* a release between a call and its phase 2;
* an async task behind a sync one, on either isolate.

Init starts with the references already made; `new` and passing references
are covered by the Reference runs. With all four modes the `runners` run
reaches 381908 states in about a minute and a half.

Runs:

* `runners` (pass, all four modes) checks `CapsulesOwned`: every capsule in
  flight belongs to exactly one running or queued task, through phase-1
  throws after a TransferOut, phase-2 throws between two TransferIns,
  Phase2Async's receiver-first order and its refusal of the `return`
  option after phase 1 spent the inputs.
* `runners_released_isolate` (violation), `NoNullIsolate`: `release()` then
  `copySync()` (or any call) evaluates `*isolate` on the emptied shared_ptr
  before the runner's constructor reaches CheckDisposed, where the spec says
  every operation first checks for emptiness and fails. **Finding**
  (undefined behaviour in C++; whether ThreePhaseTask::Run, not under src/,
  then reads through the null reference is outside the model).
* `runners_wrapper` (violation), `WrapperUsedInOwnIsolate`: the code's
  comment says Phase2Async is "only called from the default isolate", yet
  `applySyncPromise` runs it in whichever isolate owns the reference. TLC's
  trace: a promise apply on a reference owned by one isolate compiles the
  static wrapper there; a later one on a reference owned by the other
  isolate dereferences that isolate-bound Persistent in a foreign isolate.
  **Finding** (it rests on the owner isolates being distinct).
* `runners_failed_call_burns_oneshot` (violation), `ReuseErrorOnlyAfterUse`:
  a one-shot is spent by a call whose phase 1 threw after transferring it out,
  before its option or key checks. **Finding.**
* `runners_apply_without_receiver` (violation), `NoNullReceiver`: `recv` is
  null when no receiver was given, and Phase2 calls `recv->TransferIn()`.
  **Finding**, under the assumption that the binding (not under src/) passes
  an omitted receiver as an empty MaybeLocal.

### SharedHandle (`SharedHandle.tla`, `MC_SharedHandle.tla`)

`shares[h]` are the threads holding a `shared_ptr` to ShareablePersistent
`h`; `hstate[h]` its life; `queue` the owner's handle-task queue; `alive`
whether the owner accepts tasks; `frees[h]` the `delete handle` count.
`Destroy` is the whole destructor: schedule the disposal task, or, when
refused, run `D(handle, nullptr); delete` inline. `RunHandleTask` is the task
lambda. `Share`, `Drop` (shared_ptr copies and releases) and `Teardown` (the
owner side, outside src/) are spec-modelled. What ShareableIsolate does with
tasks it accepted before teardown is stated nowhere, so `Teardown` may come
with tasks still queued, and the model lets them run later or never.
`Deref` reads the handle and changes no state, so it is no action.

Only safety is checked, so there is no fairness. When every handle is freed
and the isolate is gone nothing can happen, so deadlock checking is off.
Bounds: the owner's thread plus two others, two handles: drops on every
thread, before and after teardown, with tasks queued across it. 202 states.

* `shared_handle` (pass): `TypeOK`, which includes "deleted at most once":
  the task path and the inline path never both run for one handle, however
  the last drop and teardown interleave.

Not checked here, for want of the owner's side in src/: whether D and
Reset may see a torn-down isolate (a task accepted before teardown and run
after it), and whether every accepted disposal eventually runs.

## 4. Not modelled (yet), and why

* The value codec (`ExternalCopy`, `Transferable`): outside src/ and pure data
  conversion. Only whether a transfer succeeds is modelled.
* Object contents: keys and values are not told apart; get and set phase 2
  succeed or throw. Whether a get issued after a set sees it depends on the
  engine's order between a sync call and queued tasks, which neither src/
  nor the spec states.
* ThreePhaseTask, the scheduler and RunWithTimeout: outside src/. They are
  modelled from the spec where the runners depend on them (spec_modelled).
  Locks and thread pools are abstracted to one step per phase.
* The JavaScript text of `CompileAsyncWrapper`: modelled by what it does
  (`SettlePromise` and `GuestCall` in ApplyPromise); its compile-once static is state of
  Runners.
* Symbols and BigInts in `typeof` (see TypeOf).
* Weak memory ordering of the `did_finish` data race: the model is
  sequentially consistent (see the hazard at line 332).
