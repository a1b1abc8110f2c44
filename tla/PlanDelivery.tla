---------------------------- MODULE PlanDelivery ----------------------------
(***************************************************************************)
(* What the planner may rely on when it gives plans to one machine: the    *)
(* view of the plan secret that SecretToNode returns and every operation   *)
(* of the planner decides on.  PlanSecret, with its three writers and      *)
(* their caches, implements it.                                            *)
(***************************************************************************)
CONSTANTS Plans, NoPlan

VARIABLES plan,     \* the plan assigned
          applied,  \* the plan recorded as applied: in sync when it is the one assigned
          failed,   \* the plan assigned is seen failed
          passed    \* its probes are recorded to have passed

vars == <<plan, applied, failed, passed>>

Init == plan = NoPlan /\ applied = NoPlan /\ failed = FALSE /\ passed = FALSE

(* A plan that was assigned before may be in sync, or failed, at once.     *)
Assign(p) ==
    /\ p # plan /\ plan' = p
    /\ passed' = FALSE
    /\ failed' \in BOOLEAN
    /\ UNCHANGED applied

(* Only the plan that is there is recorded as applied.  Its probes may be  *)
(* recorded with it, or later.                                             *)
Apply ==
    /\ plan # NoPlan
    /\ applied' = plan /\ failed' = FALSE
    /\ passed' \in {passed, TRUE}
    /\ UNCHANGED plan

(* A plan fails before its probes have passed, not after.                  *)
Fail == ~passed /\ failed' = TRUE /\ UNCHANGED <<plan, applied, passed>>

(* Another try succeeds; applied follows.                                  *)
Retry == failed' = FALSE /\ UNCHANGED <<plan, applied, passed>>

(* A planner that loaded the secret earlier writes the empty annotation    *)
(* back; it is recorded again with what is applied.                        *)
Forget == passed' = FALSE /\ UNCHANGED <<plan, applied, failed>>

Next == (\E p \in Plans : Assign(p)) \/ Apply \/ Fail \/ Retry \/ Forget

Spec == Init /\ [][Next]_vars
=============================================================================
