-------------------------- MODULE PlanSecretProofs --------------------------
(***************************************************************************)
(* Proofs, for any set of plans and any limits, that a plan in sync ran on *)
(* the machine, that the probes-passed annotation belongs to the plan it   *)
(* stands beside, that failed operations stay failed, and that the         *)
(* protocol over the secret implements PlanDelivery.                       *)
(***************************************************************************)
EXTENDS PlanSecret, TLAPS

(* What the secret and the agent say was applied, was. *)
ReportsAreTrue ==
    /\ secret.appliedChecksum \in ran \cup {NoPlan}
    /\ secret.appliedPlan \in ran \cup {NoPlan}
    /\ outcome = "done" => running \in ran

(* Whoever holds the annotation, in the secret or in the planner's pass, holds
   one made after the plan was last updated. *)
AnnotationsAreFresh ==
    \/ passedSince
    \/ secret.probesPassed # "time" /\ loaded # "time" /\ secret.probes # "passing"

IInv == TypeOK /\ ReportsAreTrue /\ AnnotationsAreFresh

LEMMA InitIInv == Init => IInv
<1> SUFFICES ASSUME Init PROVE IInv
  OBVIOUS
<1>1. NewSecret \in Secrets
  BY LimitsAssumption DEF NewSecret, Secrets
<1>2. TypeOK
  BY Zenon, <1>1, PlansAssumption DEF Init, TypeOK
<1>3. ReportsAreTrue /\ AnnotationsAreFresh
  BY DEF Init, NewSecret, ReportsAreTrue, AnnotationsAreFresh
<1> QED
  BY <1>2, <1>3 DEF IInv

(* A new plan, with whatever limits it comes. *)
LEMMA UpdatePlanIInv ==
    ASSUME IInv, NEW p \in Plans, NEW f \in -1 .. MaxFailureCount,
           NEW t \in -1 .. MaxFailureCount, UpdatePlan(p, f, t)
    PROVE  IInv'
<1> USE DEF IInv, UpdatePlan
<1>1. TypeOK'
  <2>1. secret' \in Secrets
    BY Zenon DEF TypeOK, Secrets
  <2> QED
    BY Zenon, <2>1 DEF TypeOK
<1>2. ReportsAreTrue'
  BY DEF TypeOK, Secrets, ReportsAreTrue
<1>3. AnnotationsAreFresh'
  BY DEF TypeOK, Secrets, AnnotationsAreFresh
<1> QED
  BY <1>1, <1>2, <1>3

(* The planner's other steps. *)
LEMMA PlannerIInv ==
    ASSUME IInv, Planner
    PROVE  IInv'
<1>1. ASSUME NEW p \in Plans, reconcile(p) PROVE IInv'
  BY <1>1, UpdatePlanIInv, LimitsAssumption DEF reconcile
<1>2. ASSUME NEW p \in Plans, NEW l \in Limits, assignAndCheckPlan(p, l[1], l[2]) PROVE IInv'
  <2>1. l[1] \in -1 .. MaxFailureCount /\ l[2] \in -1 .. MaxFailureCount
    BY LimitsAssumption
  <2> QED
    BY <1>2, <2>1, UpdatePlanIInv DEF assignAndCheckPlan
<1>3. CASE Load
  BY <1>3 DEF IInv, TypeOK, ReportsAreTrue, AnnotationsAreFresh, Load, Secrets, agentVars
<1>4. CASE updatePlanSecretLabelsAndAnnotations
  BY <1>4
  DEF IInv, TypeOK, ReportsAreTrue, AnnotationsAreFresh, updatePlanSecretLabelsAndAnnotations,
      Secrets, agentVars
<1> QED
  BY <1>1, <1>2, <1>3, <1>4 DEF Planner

(* The controller records what the secret it saw says, and only over that one. *)
LEMMA ControllerIInv ==
    ASSUME IInv, CacheSync \/ OnChange
    PROVE  IInv'
<1>1. CASE CacheSync
  BY <1>1 DEF IInv, TypeOK, ReportsAreTrue, AnnotationsAreFresh, CacheSync, agentVars
<1>2. CASE OnChange
  <2>1. planApplied' \in {"Unknown", "True", "False"}
    BY <1>2 DEF IInv, TypeOK, OnChange, reconcileMachinePlanAppliedCondition
  <2>2. CASE Reconciled(cached) = cached
    BY <1>2, <2>1, <2>2 DEF IInv, TypeOK, ReportsAreTrue, AnnotationsAreFresh, OnChange, agentVars
  <2>3. CASE Reconciled(cached) # cached
    <3>1. secret' = Reconciled(secret)
      BY <1>2, <2>3 DEF OnChange
    <3>2. secret.plan # NoPlan
      BY <1>2, <2>3 DEF OnChange
    <3>3. UNCHANGED <<loaded, cached, running, outcome, ran, passedSince, quiet>>
      BY <1>2 DEF OnChange, agentVars
    <3>4. TypeOK'
      <4>1. secret' \in Secrets
        <5> DEFINE applied == IF secret.appliedChecksum = secret.plan
                              THEN secret.plan ELSE secret.appliedPlan
                   passed == IF secret.probes = "passing" /\ secret.probesPassed # "time"
                             THEN "time" ELSE secret.probesPassed
        <5>1. applied \in Plans \cup {NoPlan} /\ passed \in {"absent", "empty", "time"}
          BY DEF IInv, TypeOK, Secrets
        <5>2. secret' = [secret EXCEPT !.appliedPlan = applied, !.probesPassed = passed]
          BY <3>1 DEF Reconciled
        <5> HIDE DEF applied, passed
        <5> QED
          BY <5>1, <5>2, Zenon DEF IInv, TypeOK, Secrets
      <4> QED
        BY <2>1, <3>3, <4>1 DEF IInv, TypeOK
    <3>5. ReportsAreTrue'
      BY <3>1, <3>2, <3>3 DEF IInv, TypeOK, ReportsAreTrue, Reconciled, Secrets
    <3>6. AnnotationsAreFresh'
      BY <3>1, <3>3 DEF IInv, TypeOK, AnnotationsAreFresh, Reconciled, Secrets
    <3> QED
      BY <3>4, <3>5, <3>6 DEF IInv
  <2> QED
    BY <2>2, <2>3
<1> QED
  BY <1>1, <1>2

(* The agent reports only what it ran. *)
LEMMA AgentIInv ==
    ASSUME IInv, Agent \/ AgentRestarts
    PROVE  IInv'
<1> USE DEF IInv, TypeOK
<1>1. CASE AgentStarts
  BY <1>1, PlansAssumption DEF ReportsAreTrue, AnnotationsAreFresh, AgentStarts, Secrets
<1>2. ASSUME NEW result \in {"done", "error"}, AgentFinishes(result) PROVE IInv'
  BY <1>2 DEF ReportsAreTrue, AnnotationsAreFresh, AgentFinishes
<1>3. CASE AgentReports
  <2>1. secret' \in Secrets
    <3>1. CASE running # secret.plan
      BY <1>3, <3>1 DEF AgentReports
    <3>2. CASE running = secret.plan /\ outcome = "done"
      <4>1. secret' = [secret EXCEPT !.appliedChecksum = running, !.failedChecksum = NoPlan,
                                     !.failureCount = 0, !.probes = "failing"]
        BY <1>3, <3>2 DEF AgentReports
      <4>2. 0 \in 0 .. MaxFailureCount
        BY LimitsAssumption
      <4> QED
        BY <4>1, <4>2, Zenon DEF Secrets
    <3>3. CASE running = secret.plan /\ outcome = "error"
      <4> DEFINE count == IF secret.failedChecksum # running THEN 1
                          ELSE IF secret.failureCount < MaxFailureCount THEN secret.failureCount + 1
                          ELSE secret.failureCount
      <4>1. count \in 0 .. MaxFailureCount
        BY LimitsAssumption DEF Secrets
      <4>2. secret' = [secret EXCEPT !.failedChecksum = running, !.failureCount = count]
        BY <1>3, <3>3 DEF AgentReports
      <4> HIDE DEF count
      <4> QED
        BY <4>1, <4>2, Zenon DEF Secrets
    <3> QED
      BY <1>3, <3>1, <3>2, <3>3 DEF AgentReports
  <2>2. TypeOK'
    BY <1>3, <2>1 DEF AgentReports
  <2>3. ReportsAreTrue'
    BY <1>3 DEF AgentReports, ReportsAreTrue, Secrets
  <2>4. AnnotationsAreFresh'
    BY <1>3 DEF AgentReports, AnnotationsAreFresh, Secrets
  <2> QED
    BY <2>2, <2>3, <2>4
<1>4. CASE AgentRestarts
  BY <1>4 DEF ReportsAreTrue, AnnotationsAreFresh, AgentRestarts
<1> QED
  BY <1>1, <1>2, <1>3, <1>4 DEF Agent

LEMMA ProbesIInv ==
    ASSUME IInv, NEW result \in {"failing", "passing"}, AgentProbes(result)
    PROVE  IInv'
<1> USE DEF IInv, TypeOK, AgentProbes
<1>1. secret' \in Secrets
  BY DEF Secrets
<1>2. passedSince' \in BOOLEAN
  OBVIOUS
<1>3. TypeOK'
  BY <1>1, <1>2
<1>4. ReportsAreTrue'
  BY DEF ReportsAreTrue, Secrets
<1>5. AnnotationsAreFresh'
  <2>1. CASE passedSince \/ result = "passing"
    BY Zenon, <2>1 DEF AnnotationsAreFresh
  <2>2. CASE ~passedSince /\ result = "failing"
    BY <2>2 DEF AnnotationsAreFresh, Secrets
  <2> QED
    BY <2>1, <2>2
<1> QED
  BY <1>3, <1>4, <1>5

(* Every step keeps the inductive invariant. *)
LEMMA NextIInv == IInv /\ [Next]_vars => IInv'
<1>1. ASSUME IInv, Quieten \/ UNCHANGED vars PROVE IInv'
  BY ZenonT(60), <1>1 DEF IInv, TypeOK, ReportsAreTrue, AnnotationsAreFresh, Quieten, vars, agentVars
<1> QED
  BY <1>1, PlannerIInv, ControllerIInv, AgentIInv, ProbesIInv DEF Next

(* Type correctness, for any set of plans and limits. *)
THEOREM TypeCorrect == Spec => []TypeOK
<1>1. IInv => TypeOK
  BY DEF IInv
<1> QED
  BY InitIInv, NextIInv, <1>1, PTL DEF Spec

(* A plan the planner takes for in sync (store.go:297) ran to completion on the
   machine: the controller copies a plan only beside its own checksum. *)
THEOREM InSyncPlansRan == Spec => []InSyncPlanRan
<1>1. IInv => InSyncPlanRan
  BY DEF IInv, ReportsAreTrue, InSyncPlanRan, InSync
<1> QED
  BY InitIInv, NextIInv, <1>1, PTL DEF Spec

(* The probes-passed annotation (plansecret.go:90) speaks of the plan it stands
   beside, although the planner writes back annotations it loaded earlier. *)
THEOREM AnnotationsBelongToThePlan == Spec => []ProbesPassedForThisPlan
<1>1. IInv => ProbesPassedForThisPlan
  BY DEF IInv, AnnotationsAreFresh, ProbesPassedForThisPlan
<1> QED
  BY InitIInv, NextIInv, <1>1, PTL DEF Spec

-----------------------------------------------------------------------------
(* What the refinement needs besides: a plan is run or failed only while its
   checksum is not the applied one, probes are run only while it is, and a pass
   does not carry an annotation that the secret has lost. *)
OutcomesExclude ==
    /\ running # NoPlan => running # secret.appliedChecksum
    /\ secret.failedChecksum # NoPlan => secret.failedChecksum # secret.appliedChecksum
    /\ secret.failureCount > 0 => secret.failedChecksum # NoPlan
    /\ secret.probes = "passing" \/ passedSince => secret.appliedChecksum = secret.plan
    /\ secret.probes = "passing" \/ passedSince => secret.plan # NoPlan
    /\ loaded = "time" => secret.probesPassed = "time"

RInv == IInv /\ OutcomesExclude

LEMMA InitRInv == Init => RInv
<1> SUFFICES ASSUME Init PROVE OutcomesExclude
  BY InitIInv DEF RInv
<1> QED
  BY DEF Init, NewSecret, OutcomesExclude

(* Every step keeps it. *)
LEMMA NextOutcomesExclude ==
    ASSUME IInv, OutcomesExclude, [Next]_vars
    PROVE  OutcomesExclude'
<1> USE DEF IInv, TypeOK, Secrets, OutcomesExclude, agentVars
<1>1. ASSUME NEW p \in Plans, NEW f, NEW t, UpdatePlan(p, f, t) PROVE OutcomesExclude'
  BY <1>1 DEF UpdatePlan
<1>2. CASE Load
  BY <1>2 DEF Load
<1>3. CASE updatePlanSecretLabelsAndAnnotations
  BY <1>3 DEF updatePlanSecretLabelsAndAnnotations
<1>4. CASE CacheSync
  BY <1>4 DEF CacheSync
<1>5. CASE OnChange
  <2>1. CASE Reconciled(cached) = cached
    BY <1>5, <2>1 DEF OnChange
  <2>2. CASE Reconciled(cached) # cached
    <3>1. /\ secret' = Reconciled(secret)
          /\ UNCHANGED <<loaded, cached, running, outcome, ran, passedSince, quiet>>
      BY <1>5, <2>2 DEF OnChange
    <3> QED
      BY <3>1 DEF Reconciled
  <2> QED
    BY <2>1, <2>2
<1>6. CASE AgentStarts
  BY <1>6, PlansAssumption DEF AgentStarts
<1>7. ASSUME NEW result \in {"done", "error"}, AgentFinishes(result) PROVE OutcomesExclude'
  BY <1>7 DEF AgentFinishes
<1>8. CASE AgentReports
  <2>1. CASE running # secret.plan
    BY <1>8, <2>1 DEF AgentReports
  <2>2. CASE running = secret.plan /\ outcome = "done"
    BY <1>8, <2>2 DEF AgentReports
  <2>3. CASE running = secret.plan /\ outcome = "error"
    BY <1>8, <2>3 DEF AgentReports
  <2> QED
    BY <1>8, <2>1, <2>2, <2>3 DEF AgentReports
<1>9. ASSUME NEW result \in {"failing", "passing"}, AgentProbes(result) PROVE OutcomesExclude'
  BY <1>9 DEF AgentProbes
<1>10. CASE AgentRestarts \/ Quieten \/ UNCHANGED vars
  BY <1>10 DEF AgentRestarts, Quieten, vars
<1> QED
  BY <1>1, <1>2, <1>3, <1>4, <1>5, <1>6, <1>7, <1>8, <1>9, <1>10
  DEF Next, Planner, Agent, reconcile, assignAndCheckPlan

LEMMA NextRInv == RInv /\ [Next]_vars => RInv'
  BY NextIInv, NextOutcomesExclude DEF RInv

(* An operation that the planner reports as failed (assignAndCheckPlan, with as many
   attempts as failures tolerated) is not run again behind its back. *)
THEOREM FailedPlansStayFailed == Spec => FailedPlanStaysFailed
<1> DEFINE Stays ==
      /\ Failed(secret) /\ running # secret.plan
      /\ secret.maxFailures = secret.failureThreshold /\ secret.maxFailures > 0
      /\ secret'.plan = secret.plan
      => Failed(secret') /\ running' # secret.plan
<1>1. ASSUME RInv, [Next]_vars PROVE [Stays]_vars
  <2> SUFFICES ASSUME Failed(secret), running # secret.plan,
                      secret.maxFailures = secret.failureThreshold, secret.maxFailures > 0,
                      secret'.plan = secret.plan
               PROVE  Failed(secret') /\ running' # secret.plan
    OBVIOUS
  <2> USE <1>1 DEF RInv, IInv, TypeOK, Secrets, OutcomesExclude, Failed, agentVars
  <2>1. secret.plan # NoPlan /\ GivenUp(secret)
    BY DEF GivenUp
  <2>2. ASSUME NEW p, NEW f, NEW t, UpdatePlan(p, f, t) PROVE FALSE
    BY <2>2 DEF UpdatePlan
  <2>3. CASE Load \/ CacheSync \/ Quieten \/ UNCHANGED vars
    BY <2>3 DEF Load, CacheSync, Quieten, vars
  <2>4. CASE updatePlanSecretLabelsAndAnnotations
    BY <2>4 DEF updatePlanSecretLabelsAndAnnotations
  <2>5. CASE OnChange
    <3>1. CASE Reconciled(cached) = cached
      BY <2>5, <3>1 DEF OnChange
    <3>2. CASE Reconciled(cached) # cached
      <4>1. secret' = Reconciled(secret) /\ running' = running
        BY <2>5, <3>2 DEF OnChange
      <4> QED
        BY <4>1 DEF Reconciled
    <3> QED
      BY <3>1, <3>2
  <2>6. CASE AgentStarts
    BY <2>1, <2>6 DEF AgentStarts
  <2>7. ASSUME NEW result, AgentFinishes(result) PROVE Failed(secret') /\ running' # secret.plan
    BY <2>7 DEF AgentFinishes
  <2>8. CASE AgentReports
    BY <2>1, <2>8 DEF AgentReports
  <2>9. ASSUME NEW result, AgentProbes(result) PROVE Failed(secret') /\ running' # secret.plan
    BY <2>9 DEF AgentProbes
  <2>10. CASE AgentRestarts
    BY <2>1, <2>10 DEF AgentRestarts
  <2> QED
    BY <2>2, <2>3, <2>4, <2>5, <2>6, <2>7, <2>8, <2>9, <2>10
    DEF Next, Planner, Agent, reconcile, assignAndCheckPlan
<1> QED
  BY InitRInv, NextRInv, <1>1, PTL DEF Spec, FailedPlanStaysFailed

-----------------------------------------------------------------------------
(* The refinement of PlanDelivery, step by step. *)

LEMMA InitDelivers == Init => Delivery!Init
  BY LimitsAssumption DEF Init, NewSecret, Failed, Delivery!Init

(* A step that leaves the plan, the applied plan, the failures and the annotation
   alone is none of PlanDelivery. *)
LEMMA Stutters ==
    ASSUME secret'.plan = secret.plan, secret'.appliedPlan = secret.appliedPlan,
           secret'.failedChecksum = secret.failedChecksum,
           secret'.failureCount = secret.failureCount,
           secret'.failureThreshold = secret.failureThreshold,
           secret'.probesPassed = secret.probesPassed
    PROVE  UNCHANGED Delivery!vars
  BY DEF Delivery!vars, Failed

(* A new plan is assigned, whatever failures of it the secret still counts. *)
LEMMA UpdatePlanDelivers ==
    ASSUME RInv, NEW p \in Plans, NEW f, NEW t, UpdatePlan(p, f, t)
    PROVE  Delivery!Next
<1>1. Delivery!Assign(p)
  <2>1. /\ p # secret.plan /\ secret'.plan = p /\ secret'.appliedPlan = secret.appliedPlan
        /\ secret'.probesPassed = "empty"
    BY DEF UpdatePlan, RInv, IInv, TypeOK, Secrets
  <2>2. Failed(secret)' \in BOOLEAN
    BY DEF Failed
  <2> QED
    BY <2>1, <2>2 DEF Delivery!Assign
<1> QED
  BY <1>1 DEF Delivery!Next

(* A pass that writes back what it loaded can only forget that the probes passed. *)
LEMMA WriteBackDelivers ==
    ASSUME RInv, updatePlanSecretLabelsAndAnnotations
    PROVE  [Delivery!Next]_(Delivery!vars)
<1>1. /\ secret'.plan = secret.plan /\ secret'.appliedPlan = secret.appliedPlan
      /\ secret'.failedChecksum = secret.failedChecksum
      /\ secret'.failureCount = secret.failureCount
      /\ secret'.failureThreshold = secret.failureThreshold
      /\ secret'.probesPassed = loaded
  BY DEF updatePlanSecretLabelsAndAnnotations, RInv, IInv, TypeOK, Secrets
<1>2. CASE loaded = "time"
  BY <1>1, <1>2, Stutters DEF RInv, OutcomesExclude
<1>3. CASE loaded # "time"
  <2>1. (secret.probesPassed = "time")' = FALSE
    BY <1>1, <1>3
  <2>2. Failed(secret)' = Failed(secret)
    BY <1>1 DEF Failed
  <2>3. Delivery!Forget
    BY <1>1, <2>1, <2>2 DEF Delivery!Forget
  <2> QED
    BY <2>3 DEF Delivery!Next
<1> QED
  BY <1>2, <1>3

(* The controller records the plan that is there, which has not failed. *)
LEMMA OnChangeDelivers ==
    ASSUME RInv, OnChange
    PROVE  [Delivery!Next]_(Delivery!vars)
<1> USE DEF RInv, IInv, TypeOK, Secrets, OutcomesExclude
<1>1. CASE Reconciled(cached) = cached
  BY <1>1, Stutters DEF OnChange
<1>2. CASE Reconciled(cached) # cached
  <2>1. secret' = Reconciled(secret) /\ secret.plan # NoPlan
    BY <1>2 DEF OnChange
  <2>2. CASE secret.appliedChecksum = secret.plan
    <3>1. secret'.plan = secret.plan /\ secret'.appliedPlan = secret.plan
      BY <2>1, <2>2 DEF Reconciled
    <3>2. Failed(secret)' = FALSE
      BY <2>1, <2>2 DEF Reconciled, Failed
    <3>3. secret'.probesPassed = secret.probesPassed \/ secret'.probesPassed = "time"
      BY <2>1 DEF Reconciled
    <3>4. (secret.probesPassed = "time")' \in {secret.probesPassed = "time", TRUE}
      BY Zenon, <3>3
    <3>5. Delivery!Apply
      BY Zenon, <2>1, <3>1, <3>2, <3>4 DEF Delivery!Apply
    <3> QED
      BY <3>5 DEF Delivery!Next
  <2>3. CASE secret.appliedChecksum # secret.plan
    BY <2>1, <2>3, Stutters DEF Reconciled
  <2> QED
    BY <2>2, <2>3
<1> QED
  BY <1>1, <1>2

(* The agent's report of a failure precedes every passing probe of the plan. *)
LEMMA ReportsDeliver ==
    ASSUME RInv, AgentReports
    PROVE  [Delivery!Next]_(Delivery!vars)
<1> USE DEF RInv, IInv, TypeOK, Secrets, OutcomesExclude
<1>1. CASE running # secret.plan
  BY <1>1, Stutters DEF AgentReports
<1>2. CASE running = secret.plan
  <2>1. /\ secret'.plan = secret.plan /\ secret'.appliedPlan = secret.appliedPlan
        /\ secret'.probesPassed = secret.probesPassed
    BY <1>2 DEF AgentReports
  <2>2. secret.probesPassed # "time"
    BY <1>2 DEF AnnotationsAreFresh, AgentReports
  <2>3. CASE Failed(secret)'
    BY <2>1, <2>2, <2>3 DEF Delivery!Next, Delivery!Fail
  <2>4. CASE ~Failed(secret)'
    BY <2>1, <2>4 DEF Delivery!Next, Delivery!Retry
  <2> QED
    BY <2>3, <2>4
<1> QED
  BY <1>1, <1>2

LEMMA NextDelivers == RInv /\ [Next]_vars => [Delivery!Next]_(Delivery!vars)
<1> SUFFICES ASSUME RInv, [Next]_vars PROVE [Delivery!Next]_(Delivery!vars)
  OBVIOUS
<1>1. ASSUME NEW result, AgentProbes(result) PROVE UNCHANGED Delivery!vars
  BY <1>1, Stutters DEF AgentProbes, RInv, IInv, TypeOK, Secrets
<1>2. ASSUME NEW result, AgentFinishes(result) PROVE UNCHANGED Delivery!vars
  BY <1>2, Stutters DEF AgentFinishes
<1>3. CASE Load \/ CacheSync \/ AgentStarts \/ AgentRestarts \/ Quieten \/ UNCHANGED vars
  BY <1>3, Stutters DEF Load, CacheSync, AgentStarts, AgentRestarts, Quieten, vars
<1> QED
  BY <1>1, <1>2, <1>3, UpdatePlanDelivers, WriteBackDelivers, OnChangeDelivers, ReportsDeliver
  DEF Next, Planner, Agent, reconcile, assignAndCheckPlan

(* What SecretToNode (store.go) makes of the secret changes as PlanDelivery allows,
   with any number of stale readings by the planner, the controller and the agent. *)
THEOREM PlansAreDelivered == Spec => ImplementsDelivery
  BY InitRInv, NextRInv, InitDelivers, NextDelivers, PTL
  DEF Spec, ImplementsDelivery, Delivery!Spec

=============================================================================
