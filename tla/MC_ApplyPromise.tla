-------------------------- MODULE MC_ApplyPromise --------------------------
(* applySyncPromise with `timeout` drawn from {0, 1}: unbounded, and one     *)
(* positive deadline (its length is irrelevant, only whether it is armed).  *)
(* The promise's `then` is the native one or one the guest replaced; a     *)
(* guest `then` calls back at most once or at most twice.                  *)
EXTENDS ApplyPromise

MCTimeouts == {0, 1}

MCBothThens == {"native", "guest"}
MCNativeThen == {"native"}
MCGuestThen == {"guest"}

=============================================================================
