-------------------------------- MODULE Checks --------------------------------
(***************************************************************************)
(* Ordered checks.  The contract's asserts, the relay's verification and   *)
(* the SDK's builder are each a list of conditions of which the first that *)
(* fails decides the error: here a sequence of [holds, error].             *)
(***************************************************************************)
EXTENDS Integers, Sequences, FiniteSetsExt

CONSTANT None        \* no principal: an absent integrator or sponsor

Check(holds, error) == [holds |-> holds, error |-> error]

Failing(checks) == {i \in DOMAIN checks : ~checks[i].holds}

Passes(checks) == Failing(checks) = {}

Verdict(checks) == IF Passes(checks) THEN "ok" ELSE checks[Min(Failing(checks))].error
=============================================================================
