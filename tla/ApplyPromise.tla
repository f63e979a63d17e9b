---------------------------- MODULE ApplyPromise ----------------------------
(***************************************************************************)
(* The promise-awaiting variant of Reference.apply (`applySyncPromise`),  *)
(* src/src/reference_handle.cc, class ApplyRunner.                         *)
(*                                                                         *)
(* Three actors share one ApplyRunner:                                     *)
(*  - the caller thread, which runs phase 1 (the constructor), blocks on  *)
(*    the Scheduler::AsyncWait, then runs Phase3 and destroys the runner; *)
(*  - the target isolate's thread, which runs Phase2Async under the       *)
(*    target's lock and later, from a promise reaction, AsyncCallback;    *)
(*  - the deadline of the wait (the `timeout` option), which wakes the    *)
(*    caller while the task is WaitingOnPromise.                           *)
(* Phase3 and AsyncCallback run on different threads under different      *)
(* isolate locks; both read and write the plain bool `*did_finish`.       *)
(* Every read and every write of it is a step of its own, so TLC explores *)
(* each order in which the two threads can meet it.                       *)
(***************************************************************************)
EXTENDS Naturals

CONSTANTS
  Timeouts,        \* values a guest may pass as `timeout` (Uint32); 0 = unbounded
  BadOption,       \* a `timeout` / `return` option of the wrong JS type
  ThenKinds,       \* "native": Promise.prototype.then; "guest": a `then` the guest replaced
  MaxCalls         \* how often a guest `then` may call back the handlers it was given

ASSUME Timeouts \subseteq Nat /\ 0 \in Timeouts /\ \E t \in Timeouts : t > 0
ASSUME ThenKinds \subseteq {"native", "guest"} /\ ThenKinds # {}
ASSUME MaxCalls \in Nat \ {0}

VARIABLES
  callerPc,    \* where the calling thread is
  timeout,     \* ApplyRunner::timeout
  retOpts,     \* "default" | "custom": return_transfer_options == Options{}?
  fnKind,      \* "function" | "object": what Deref(reference) is
  promise,     \* state of the promise the guest function returned
  cbPc,        \* where AsyncCallback is, on the target thread
  flagMade,    \* did_finish != nullptr (the promise path was taken)
  didFinish,   \* *did_finish
  ret,         \* ApplyRunner::ret was assigned
  asyncError,  \* ApplyRunner::async_error was assigned
  runnerAlive, \* the ApplyRunner (and the AsyncWait it points to) exists
  woken,       \* AsyncWait was woken by Wake()
  outcome,     \* what the caller's applySyncPromise() produced
  thenKind,    \* the `then` the wrapper's `promise.then(...)` found: "none" before
  calls,       \* how many times a reaction handler called AsyncCallback
  boxFreed,    \* the `new shared_ptr<bool>` box (argv[1]) was deleted
  boxReused    \* an AsyncCallback took ownership of the box after it was deleted

reactionVars == <<thenKind, calls, boxFreed, boxReused>>

vars == <<callerPc, timeout, retOpts, fnKind, promise, cbPc, flagMade,
          didFinish, ret, asyncError, runnerAlive, woken, outcome, reactionVars>>

CallerPcs  == {"phase1", "waiting", "phase3", "p3_timeout", "done"}
CbPcs      == {"none", "installed", "queued", "store", "finish", "wake", "exited"}
Settled    == {"resolved_ok", "resolved_bad", "rejected_error", "rejected_other"}
Outcomes   == {"none", "phase1_error", "phase2_error", "result",
               "runtime_error", "timeout"}

(* The caller leaves the runner behind: ThreePhaseTask destroys it, and the *)
(* AsyncWait on the caller's stack, as soon as the call returns or throws. *)
Return(o) ==
  /\ callerPc' = "done"
  /\ outcome' = o
  /\ runnerAlive' = FALSE

-----------------------------------------------------------------------------
(* Caller thread *)

(* Mutant: the constructor stores `timeout` without the IsUint32 check. *)
Phase1NoTimeoutCheck ==
  /\ callerPc = "phase1"
  /\ \E t \in Timeouts \cup {BadOption}, r \in {"absent", "custom", BadOption},
        f \in {"function", "object"} :
       IF r = BadOption
         THEN /\ Return("phase1_error")
              /\ UNCHANGED <<timeout, retOpts, fnKind>>
         ELSE /\ timeout' = t
              /\ retOpts' = IF r = "absent" THEN "default" ELSE "custom"
              /\ fnKind' = f
              /\ callerPc' = "waiting"
              /\ UNCHANGED <<outcome, runnerAlive>>
  /\ UNCHANGED <<promise, cbPc, flagMade, didFinish, ret, asyncError, woken>>
  /\ UNCHANGED reactionVars

(* ApplyRunner constructor: read `timeout` and `return` from the options.  *)
(* A wrong type is a TypeError thrown synchronously to the caller.         *)
Phase1 ==
  /\ callerPc = "phase1"
  /\ \E t \in Timeouts \cup {BadOption}, r \in {"absent", "custom", BadOption},
        f \in {"function", "object"} :
       IF t = BadOption \/ r = BadOption
         THEN /\ Return("phase1_error")
              /\ UNCHANGED <<timeout, retOpts, fnKind>>
         ELSE /\ timeout' = t
              /\ retOpts' = IF r = "absent" THEN "default" ELSE "custom"
              /\ fnKind' = f
              /\ callerPc' = "waiting"
              /\ UNCHANGED <<outcome, runnerAlive>>
  /\ UNCHANGED <<promise, cbPc, flagMade, didFinish, ret, asyncError, woken>>
  /\ UNCHANGED reactionVars

(* The AsyncWait returns to the caller once woken. *)
WaitReturns ==
  /\ callerPc = "waiting"
  /\ woken
  /\ callerPc' = "phase3"
  /\ UNCHANGED <<timeout, retOpts, fnKind, promise, cbPc, flagMade, didFinish,
                 ret, asyncError, runnerAlive, woken, outcome>>
  /\ UNCHANGED reactionVars

(* The wait's deadline expires while the task is WaitingOnPromise. *)
DeadlineFires ==
  /\ callerPc = "waiting"
  /\ flagMade
  /\ ~woken
  /\ timeout > 0
  /\ callerPc' = "phase3"
  /\ UNCHANGED <<timeout, retOpts, fnKind, promise, cbPc, flagMade, didFinish,
                 ret, asyncError, runnerAlive, woken, outcome>>
  /\ UNCHANGED reactionVars

(* Mutant: Phase3 without the async_error branch. *)
P3CheckNoErrorBranch ==
  /\ callerPc = "phase3"
  /\ IF flagMade /\ ~didFinish
       THEN /\ callerPc' = "p3_timeout"
            /\ UNCHANGED <<outcome, runnerAlive>>
       ELSE Return("result")
  /\ UNCHANGED <<timeout, retOpts, fnKind, promise, cbPc, flagMade, didFinish,
                 ret, asyncError, woken>>
  /\ UNCHANGED reactionVars

(* Phase3, first statement: `if (did_finish && !did_finish-value)` reads the  *)
(* flag; then async_error, then ret->TransferIn().                         *)
P3Check ==
  /\ callerPc = "phase3"
  /\ IF flagMade /\ ~didFinish
       THEN /\ callerPc' = "p3_timeout"
            /\ UNCHANGED <<outcome, runnerAlive>>
       ELSE IF asyncError
              THEN Return("runtime_error")
              ELSE Return("result")
  /\ UNCHANGED <<timeout, retOpts, fnKind, promise, cbPc, flagMade, didFinish,
                 ret, asyncError, woken>>
  /\ UNCHANGED reactionVars

(* Mutant: the timeout branch throws without marking did_finish. *)
P3TimeoutNoFlag ==
  /\ callerPc = "p3_timeout"
  /\ Return("timeout")
  /\ UNCHANGED <<timeout, retOpts, fnKind, promise, cbPc, flagMade, didFinish,
                 ret, asyncError, woken>>
  /\ UNCHANGED reactionVars

(* Phase3, timeout branch: `*did_finish = true; throw ... timed out`. *)
P3Timeout ==
  /\ callerPc = "p3_timeout"
  /\ didFinish' = TRUE
  /\ Return("timeout")
  /\ UNCHANGED <<timeout, retOpts, fnKind, promise, cbPc, flagMade, ret,
                 asyncError, woken>>
  /\ UNCHANGED reactionVars

-----------------------------------------------------------------------------
(* Target isolate thread *)

(* Phase2Async, run once under the target's lock. Everything before the  *)
(* promise test can throw: the refused `return` option, a non-function,   *)
(* a TransferIn of the receiver or an argument, and the guest function    *)
(* call itself (bounded by RunWithTimeout). A throw ends the task: the    *)
(* engine rethrows it to the caller in place of Phase3. A plain value is  *)
(* stored in `ret`. For a promise, did_finish and the box are made and    *)
(* the wrapper runs `promise.then(...)`; a native `then` returns, a `then` *)
(* the guest put on the promise object may keep the two handlers and then *)
(* throw, and Unmaybe turns that into a throw of Phase2Async: flag, box   *)
(* and handlers outlive the task.                                          *)
Phase2Async ==
  /\ callerPc = "waiting"
  /\ ~woken /\ ~flagMade
  /\ \/ /\ Return("phase2_error")
        /\ UNCHANGED <<promise, cbPc, flagMade, didFinish, ret, woken, thenKind>>
     \/ /\ retOpts = "default"
        /\ fnKind = "function"
        /\ \/ /\ ret' = TRUE
              /\ woken' = TRUE
              /\ UNCHANGED <<promise, cbPc, flagMade, didFinish, callerPc,
                             outcome, runnerAlive, thenKind>>
           \/ /\ promise' = "pending"
              /\ cbPc' = "installed"
              /\ flagMade' = TRUE
              /\ didFinish' = FALSE
              /\ \E k \in ThenKinds :
                   /\ thenKind' = k
                   /\ \/ UNCHANGED <<callerPc, outcome, runnerAlive>>
                      \/ k = "guest" /\ Return("phase2_error")
              /\ UNCHANGED <<ret, woken>>
  /\ UNCHANGED <<timeout, retOpts, fnKind, asyncError, calls, boxFreed, boxReused>>

(* A native promise settles once, at any time or never, and its `then`    *)
(* queues exactly one reaction: AsyncCallback(ptr, did_finish, val) or    *)
(* (ptr, did_finish, null, err).                                           *)
SettlePromise ==
  /\ thenKind = "native"
  /\ promise = "pending"
  /\ cbPc = "installed"
  /\ \E s \in Settled : promise' = s
  /\ cbPc' = "queued"
  /\ calls' = calls + 1
  /\ UNCHANGED <<callerPc, timeout, retOpts, fnKind, flagMade, didFinish, ret,
                 asyncError, runnerAlive, woken, outcome, thenKind, boxFreed,
                 boxReused>>

(* A guest `then` calls one of the handlers the wrapper passed it, with   *)
(* any value, whenever it likes and as often as it likes (up to MaxCalls): *)
(* before or after the task ended. Calls run one at a time on the target  *)
(* thread. Every call hands AsyncCallback the same two raw pointers.      *)
GuestCall ==
  /\ thenKind = "guest"
  /\ cbPc \in {"installed", "exited"}
  /\ calls < MaxCalls
  /\ \E s \in Settled : promise' = s
  /\ cbPc' = "queued"
  /\ calls' = calls + 1
  /\ UNCHANGED <<callerPc, timeout, retOpts, fnKind, flagMade, didFinish, ret,
                 asyncError, runnerAlive, woken, outcome, thenKind, boxFreed,
                 boxReused>>

(* AsyncCallback: a unique_ptr takes ownership of the box (344), then     *)
(* the early return on a set did_finish deletes it at once.              *)
CbCheck ==
  /\ cbPc = "queued"
  /\ cbPc' = IF didFinish THEN "exited" ELSE "store"
  /\ boxReused' = (boxReused \/ boxFreed)
  /\ boxFreed' = (boxFreed \/ didFinish)
  /\ UNCHANGED <<callerPc, timeout, retOpts, fnKind, promise, flagMade,
                 didFinish, ret, asyncError, runnerAlive, woken, outcome,
                 thenKind, calls>>

(* AsyncCallback: store self.ret, or self.async_error when the resolved   *)
(* value cannot be transferred out or the promise rejected. Writes through *)
(* `self`; once the runner is gone the write lands in freed memory, which  *)
(* the model leaves without effect.                                        *)
CbStore ==
  /\ cbPc = "store"
  /\ cbPc' = "finish"
  /\ IF runnerAlive
       THEN /\ ret' = (promise = "resolved_ok")
            /\ asyncError' = (promise # "resolved_ok")
       ELSE UNCHANGED <<ret, asyncError>>
  /\ UNCHANGED <<callerPc, timeout, retOpts, fnKind, promise, flagMade,
                 didFinish, runnerAlive, woken, outcome>>
  /\ UNCHANGED reactionVars

(* AsyncCallback: `*self.did_finish = true;` *)
CbFinish ==
  /\ cbPc = "finish"
  /\ cbPc' = "wake"
  /\ didFinish' = TRUE
  /\ UNCHANGED <<callerPc, timeout, retOpts, fnKind, promise, flagMade, ret,
                 asyncError, runnerAlive, woken, outcome>>
  /\ UNCHANGED reactionVars

(* Mutant: AsyncCallback returns without waking the wait. *)
CbWakeLost ==
  /\ cbPc = "wake"
  /\ cbPc' = "exited"
  /\ boxFreed' = TRUE
  /\ UNCHANGED <<callerPc, timeout, retOpts, fnKind, promise, flagMade,
                 didFinish, ret, asyncError, runnerAlive, woken, outcome,
                 thenKind, calls, boxReused>>

(* AsyncCallback: `self.async_wait->Wake();`, then the unique_ptr deletes *)
(* the box as the function returns.                                        *)
CbWake ==
  /\ cbPc = "wake"
  /\ cbPc' = "exited"
  /\ woken' = runnerAlive
  /\ boxFreed' = TRUE
  /\ UNCHANGED <<callerPc, timeout, retOpts, fnKind, promise, flagMade,
                 didFinish, ret, asyncError, runnerAlive, outcome, thenKind,
                 calls, boxReused>>

-----------------------------------------------------------------------------
Init ==
  /\ callerPc = "phase1"
  /\ timeout = 0
  /\ retOpts = "default"
  /\ fnKind = "function"
  /\ promise = "none"
  /\ cbPc = "none"
  /\ flagMade = FALSE
  /\ didFinish = FALSE
  /\ ret = FALSE
  /\ asyncError = FALSE
  /\ runnerAlive = TRUE
  /\ woken = FALSE
  /\ outcome = "none"
  /\ thenKind = "none"
  /\ calls = 0
  /\ boxFreed = FALSE
  /\ boxReused = FALSE

CallerStep == Phase1 \/ WaitReturns \/ P3Check \/ P3Timeout
TargetStep == Phase2Async \/ CbCheck \/ CbStore \/ CbFinish \/ CbWake

Next ==
  \/ CallerStep
  \/ TargetStep
  \/ DeadlineFires
  \/ SettlePromise
  \/ GuestCall

(* Both threads run whenever they can and the deadline timer fires; the   *)
(* guest's promise is under no obligation to settle, nor a guest `then`   *)
(* to call back.                                                           *)
Fairness ==
  /\ WF_vars(CallerStep)
  /\ WF_vars(TargetStep)
  /\ WF_vars(DeadlineFires)

(* A call ends when the caller has returned and no callback can still run; *)
(* that is the one state in which nothing is enabled, and CallerReturns   *)
(* rules out every other stop.                                             *)
Spec == Init /\ [][Next]_vars /\ Fairness

-----------------------------------------------------------------------------
TypeOK ==
  /\ callerPc \in CallerPcs
  /\ timeout \in Timeouts
  /\ retOpts \in {"default", "custom"}
  /\ fnKind \in {"function", "object"}
  /\ promise \in {"none", "pending"} \cup Settled
  /\ cbPc \in CbPcs
  /\ {flagMade, didFinish, ret, asyncError, runnerAlive, woken} \subseteq BOOLEAN
  /\ outcome \in Outcomes
  /\ thenKind \in {"none"} \cup ThenKinds
  /\ calls \in 0..MaxCalls
  /\ {boxFreed, boxReused} \subseteq BOOLEAN

(* AsyncCallback dereferences `self` (the ApplyRunner and, through it, the *)
(* AsyncWait) only while the runner is alive: a settlement that arrives    *)
(* around the deadline has no effect once Phase3 has returned (spec 4.3:   *)
(* first writer of the completion flag wins, no double delivery).         *)
NoUseAfterFree ==
  cbPc \in {"store", "finish", "wake"} => runnerAlive

(* A caller blocked in applySyncPromise returns once the promise has       *)
(* settled or a positive deadline is armed: Wake() is never lost.          *)
CallerReturns ==
  (callerPc = "waiting" /\ (promise \in Settled \/ timeout > 0))
    ~> callerPc = "done"

(* The box `new shared_ptr<bool>(did_finish)` made in Phase2Async is     *)
(* passed, as a raw pointer, to both reaction handlers; each call of      *)
(* AsyncCallback wraps it in a unique_ptr (344) and deletes it on return. *)
(* The code is right only if at most one call ever happens: no call of    *)
(* AsyncCallback takes ownership of a box an earlier call deleted (a      *)
(* double delete, and a read of **did_finish through freed memory).       *)
ReactionBoxOwnedOnce == ~boxReused

-----------------------------------------------------------------------------
(* Refinement of AwaitCall. The completion flag's first writer is the    *)
(* deadline once Phase3 has read the flag unset, the promise reaction     *)
(* once it has set the flag, and the plain value when Phase2Async stored  *)
(* one without a promise. A call Phase2Async threw from is over for its  *)
(* caller: the handlers a guest `then` kept and calls later are invisible *)
(* to it.                                                                  *)
FlagWriter ==
  IF outcome \in {"phase1_error", "phase2_error"} THEN "none"
  ELSE IF callerPc = "p3_timeout" \/ outcome = "timeout" THEN "deadline"
  ELSE IF flagMade /\ didFinish THEN "settlement"
  ELSE IF ~flagMade /\ ret THEN "value"
  ELSE "none"

Stage ==
  IF callerPc \in {"phase1", "done"} THEN callerPc
  ELSE IF FlagWriter # "none" THEN "phase3"
  ELSE IF ~flagMade THEN "phase2"
  ELSE "waiting"

Settlement == IF outcome = "phase2_error" THEN "none" ELSE promise

AW == INSTANCE AwaitCall WITH
        stage <- Stage, bounded <- (timeout > 0), settlement <- Settlement,
        winner <- FlagWriter, result <- outcome

(* applySyncPromise keeps the promise of spec 4.3.1 and 7 as its caller   *)
(* sees it: one outcome, decided by the first writer of did_finish; a     *)
(* result only for a plain value or a promise resolved with a             *)
(* transferable value, a runtime error for any other settlement, and a    *)
(* timeout only when a positive deadline fired before the settlement was  *)
(* recorded. Phase3, AsyncCallback and the deadline together implement it. *)
ImplementsAwaitCall == AW!ASpec

=============================================================================
