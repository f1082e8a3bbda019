----------------------------- MODULE CountingSem ------------------------------
(*****************************************************************************)
(* What a semaphore promises: tokens are made by Post and each is taken by   *)
(* one Take, never more than there are.                                      *)
(*****************************************************************************)
EXTENDS Naturals

CONSTANT Initial      \* the tokens at the start
VARIABLE tokens

Init == tokens = Initial
Post == tokens' = tokens + 1
Take == tokens > 0 /\ tokens' = tokens - 1
Next == Post \/ Take
Spec == Init /\ [][Next]_tokens
===============================================================================
