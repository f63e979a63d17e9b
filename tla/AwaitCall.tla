------------------------------ MODULE AwaitCall ------------------------------
(***************************************************************************)
(* What a promise-awaiting apply promises its caller (spec 4.3.1, 5, 7):   *)
(* the call is validated, runs in the target, and either ends there or    *)
(* waits on the promise it returned. A completion flag is then set once,  *)
(* by whichever comes first: the settlement of the promise, or a deadline *)
(* that only a positive timeout arms. Phase 3 reports the first writer:   *)
(* the settled value or error, or a timeout; a later settlement has no    *)
(* effect. This is the abstract specification ApplyPromise implements.    *)
(***************************************************************************)

VARIABLES
  stage,       \* "phase1" | "phase2" | "waiting" | "phase3" | "done"
  bounded,     \* a positive `timeout` was accepted
  settlement,  \* the promise: "none" | "pending" | how it settled
  winner,      \* who set the completion flag: "none" | "value" | "settlement" | "deadline"
  result       \* what the caller got

avars == <<stage, bounded, settlement, winner, result>>

Settlements == {"resolved_ok", "resolved_bad", "rejected_error", "rejected_other"}

AInit ==
  /\ stage = "phase1"
  /\ bounded = FALSE
  /\ settlement = "none"
  /\ winner = "none"
  /\ result = "none"

(* Phase 1 rejects the options, or accepts them with or without a deadline. *)
Validate ==
  /\ stage = "phase1"
  /\ \/ stage' = "done" /\ result' = "phase1_error" /\ UNCHANGED bounded
     \/ stage' = "phase2" /\ bounded' \in BOOLEAN /\ UNCHANGED result
  /\ UNCHANGED <<settlement, winner>>

(* Phase 2 throws, returns a plain value, or returns a promise. *)
Invoke ==
  /\ stage = "phase2"
  /\ \/ stage' = "done" /\ result' = "phase2_error" /\ UNCHANGED <<settlement, winner>>
     \/ stage' = "phase3" /\ winner' = "value" /\ UNCHANGED <<settlement, result>>
     \/ stage' = "waiting" /\ settlement' = "pending" /\ UNCHANGED <<winner, result>>
  /\ UNCHANGED bounded

(* The guest's promise settles, at any time, or never. *)
Settle ==
  /\ settlement = "pending"
  /\ settlement' \in Settlements
  /\ UNCHANGED <<stage, bounded, winner, result>>

(* The first writer of the completion flag. *)
SettlementWins ==
  /\ stage = "waiting" /\ winner = "none"
  /\ settlement \in Settlements
  /\ winner' = "settlement" /\ stage' = "phase3"
  /\ UNCHANGED <<bounded, settlement, result>>

DeadlineWins ==
  /\ stage = "waiting" /\ winner = "none"
  /\ bounded
  /\ winner' = "deadline" /\ stage' = "phase3"
  /\ UNCHANGED <<bounded, settlement, result>>

(* Phase 3 reports what the first writer decided. *)
Finish ==
  /\ stage = "phase3"
  /\ stage' = "done"
  /\ result' = CASE winner = "deadline" -> "timeout"
                 [] winner = "value" -> "result"
                 [] winner = "settlement" /\ settlement = "resolved_ok" -> "result"
                 [] OTHER -> "runtime_error"
  /\ UNCHANGED <<bounded, settlement, winner>>

ANext == Validate \/ Invoke \/ Settle \/ SettlementWins \/ DeadlineWins \/ Finish

(* The call makes progress on its own; the promise need not settle. A     *)
(* settled promise or an armed deadline ends the wait.                    *)
ASpec ==
  /\ AInit /\ [][ANext]_avars
  /\ WF_avars(Validate) /\ WF_avars(Invoke) /\ WF_avars(Finish)
  /\ WF_avars(SettlementWins \/ DeadlineWins)

=============================================================================
