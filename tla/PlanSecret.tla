----------------------------- MODULE PlanSecret -----------------------------
(***************************************************************************)
(* How a plan reaches one machine and how its outcome comes back: the plan *)
(* store of the planner (pkg/capr/planner/store.go), the plan-secret       *)
(* controller (pkg/controllers/capr/plansecret) and the system-agent on    *)
(* the machine, which is external.  They share the machine plan secret and *)
(* nothing else.                                                           *)
(*                                                                         *)
(* A plan stands for its bytes and for their checksum.  A writer updates   *)
(* the version of the secret it read or conflicts, so a write that         *)
(* succeeds is one step; what a writer carries over from an EARLIER read   *)
(* is state: the annotation the planner loaded, the secret the controller  *)
(* has cached, the plan the agent is running.                              *)
(***************************************************************************)
EXTENDS Integers

CONSTANTS Plans,            \* the plans the planner may render for the machine
          NoPlan,
          Limits,           \* <<failureThreshold, maxRetries>> of assignAndCheckPlan's callers
          MaxFailureCount   \* failure counts saturate here, above every limit

ASSUME PlansAssumption == NoPlan \notin Plans
ASSUME LimitsAssumption ==
    /\ MaxFailureCount \in Nat \ {0}
    /\ Limits \subseteq (-1 .. MaxFailureCount) \X (-1 .. MaxFailureCount)

VARIABLES
    secret,       \* the machine plan secret
    loaded,       \* the probes-passed annotation as the planner's pass carries it
    cached,       \* the secret as the plan-secret controller sees it
    planApplied,  \* the PlanApplied condition of the machine
    running,      \* the plan the agent is at, or NoPlan
    outcome,      \* how far it got with it
    ran,          \* every plan whose instructions ever ran to completion
    passedSince,  \* the probes passed since the plan was last updated
    quiet         \* no more new plans, restarts, failing probes and failed writes

agentVars == <<running, outcome, ran, passedSince>>
vars == <<secret, loaded, cached, planApplied, agentVars, quiet>>

(* planner: plan, maxFailures, failureThreshold (0: absent), probesPassed;
   controller: appliedPlan, probesPassed; agent: the rest. *)
Secrets == [plan             : Plans \cup {NoPlan},
            maxFailures      : -1 .. MaxFailureCount,
            failureThreshold : -1 .. MaxFailureCount,
            appliedPlan      : Plans \cup {NoPlan},
            probesPassed     : {"absent", "empty", "time"},
            appliedChecksum  : Plans \cup {NoPlan},
            failedChecksum   : Plans \cup {NoPlan},
            failureCount     : 0 .. MaxFailureCount,
            probes           : {"none", "failing", "passing"}]

NewSecret == [plan |-> NoPlan, maxFailures |-> 0, failureThreshold |-> 0,
              appliedPlan |-> NoPlan, probesPassed |-> "absent",
              appliedChecksum |-> NoPlan, failedChecksum |-> NoPlan, failureCount |-> 0,
              probes |-> "none"]

-----------------------------------------------------------------------------
(* SecretToNode: what the planner makes of a secret that has a plan. *)
InSync(s) == s.plan = s.appliedPlan

(* Faulty: the failures of an earlier plan count against the current one. *)
FailedEver(s) ==
    /\ s.failureCount > 0
    /\ s.failureThreshold # 0 =>
          s.failureThreshold # -1 /\ s.failureCount >= s.failureThreshold

(* Faulty: the threshold has to be exceeded. *)
FailedAboveThreshold(s) ==
    /\ s.plan = s.failedChecksum
    /\ s.failureCount > 0
    /\ s.failureThreshold # 0 =>
          s.failureThreshold # -1 /\ s.failureCount > s.failureThreshold

Failed(s) ==
    /\ s.plan = s.failedChecksum
    /\ s.failureCount > 0
    /\ s.failureThreshold # 0 =>
          s.failureThreshold # -1 /\ s.failureCount >= s.failureThreshold

(* Faulty: the annotation of the previous plan survives the update. *)
UpdatePlanKeepsAnnotation(p, maxFailures, failureThreshold) ==
    /\ ~quiet
    /\ p # secret.plan
    /\ maxFailures >= failureThreshold \/ failureThreshold = -1 \/ maxFailures = -1
    /\ secret' = [secret EXCEPT !.plan = p,
                                !.maxFailures = maxFailures,
                                !.failureThreshold = failureThreshold,
                                !.probes = "none"]
    /\ passedSince' = FALSE
    /\ UNCHANGED <<loaded, cached, planApplied, running, outcome, ran, quiet>>

(* Faulty: the annotation is set to the zero time, not emptied. *)
UpdatePlanZeroTime(p, maxFailures, failureThreshold) ==
    /\ ~quiet
    /\ p # secret.plan
    /\ secret' = [secret EXCEPT !.plan = p, !.probesPassed = "zero"]
    /\ UNCHANGED <<loaded, cached, planApplied, agentVars, quiet>>

(* UpdatePlan, for a plan that differs: the plan, its limits, no probe results,
   and the annotations the pass carries with the probes-passed one emptied. *)
UpdatePlan(p, maxFailures, failureThreshold) ==
    /\ ~quiet
    /\ p # secret.plan
    /\ maxFailures >= failureThreshold \/ failureThreshold = -1 \/ maxFailures = -1
    /\ secret' = [secret EXCEPT !.plan = p,
                                !.maxFailures = maxFailures,
                                !.failureThreshold = failureThreshold,
                                !.probesPassed = "empty",
                                !.probes = "none"]
    /\ loaded' = "empty"
    /\ passedSince' = FALSE
    /\ UNCHANGED <<cached, planApplied, running, outcome, ran, quiet>>

(* assignAndCheckPlan passes its failureThreshold and maxRetries on in this order. *)
assignAndCheckPlan(p, failureThreshold, maxRetries) ==
    UpdatePlan(p, failureThreshold, maxRetries)

(* The reconcile loop: retried for ever, failed at the first failure. *)
reconcile(p) == UpdatePlan(p, -1, 1)

(* Load: a pass of the planner takes over the annotations. *)
Load ==
    /\ loaded' = secret.probesPassed
    /\ UNCHANGED <<secret, cached, planApplied, agentVars, quiet>>

(* updatePlanSecretLabelsAndAnnotations: and writes them over the live ones. *)
updatePlanSecretLabelsAndAnnotations ==
    /\ ~quiet
    /\ loaded # "absent"
    /\ secret' = [secret EXCEPT !.probesPassed = loaded]
    /\ UNCHANGED <<loaded, cached, planApplied, agentVars, quiet>>

-----------------------------------------------------------------------------
CacheSync ==
    /\ cached' = secret
    /\ UNCHANGED <<secret, loaded, planApplied, agentVars, quiet>>

(* Faulty: the plan that is there when the agent reports is the applied one. *)
ReconciledWithoutChecksum(s) ==
    [s EXCEPT !.appliedPlan = IF s.appliedChecksum # NoPlan THEN s.plan ELSE s.appliedPlan,
              !.probesPassed = IF s.probes = "passing" /\ s.probesPassed # "time"
                               THEN "time" ELSE s.probesPassed]

(* Faulty: the plan the agent applied is recorded, whether it is the one there or not. *)
ReconciledApplied(s) ==
    [s EXCEPT !.appliedPlan = s.appliedChecksum,
              !.probesPassed = IF s.probes = "passing" /\ s.probesPassed # "time"
                               THEN "time" ELSE s.probesPassed]

(* plansecret OnChange: the secret it wants. *)
Reconciled(s) ==
    [s EXCEPT !.appliedPlan = IF s.appliedChecksum = s.plan THEN s.plan ELSE s.appliedPlan,
              !.probesPassed = IF s.probes = "passing" /\ s.probesPassed # "time"
                               THEN "time" ELSE s.probesPassed]

(* Faulty: the condition is only ever worsened. *)
reconcileMachinePlanAppliedConditionOnFailure(s) ==
    \/ s.failedChecksum = s.plan /\ planApplied' = "False"
    \/ s.failedChecksum # s.plan /\ UNCHANGED planApplied

(* The machine's condition follows the same version of the secret; its update
   may conflict on the machine, and is then retried. *)
reconcileMachinePlanAppliedCondition(s) ==
    \/ planApplied' = IF s.failedChecksum = s.plan THEN "False" ELSE "True"
    \/ ~quiet /\ UNCHANGED planApplied

(* OnChange of the cached secret.  When that is no longer the live one an update
   conflicts and nothing happens; without a need for one the condition is still
   set, from what the cache says. *)
OnChange ==
    /\ cached.plan # NoPlan
    /\ Reconciled(cached) # cached => cached = secret
    /\ secret' = IF Reconciled(cached) # cached THEN Reconciled(cached) ELSE secret
    /\ reconcileMachinePlanAppliedCondition(cached)
    /\ UNCHANGED <<loaded, cached, agentVars, quiet>>

-----------------------------------------------------------------------------
(* The system-agent runs a plan whose checksum it has not applied, until it has
   failed max-failures times; without that limit, for ever. *)
GivenUp(s) ==
    /\ s.plan = s.failedChecksum
    /\ s.maxFailures > 0
    /\ s.failureCount >= s.maxFailures

AgentStarts ==
    /\ running = NoPlan
    /\ secret.plan \notin {NoPlan, secret.appliedChecksum}
    /\ ~GivenUp(secret)
    /\ running' = secret.plan
    /\ outcome' = "running"
    /\ UNCHANGED <<secret, loaded, cached, planApplied, ran, passedSince, quiet>>

AgentFinishes(result) ==
    /\ outcome = "running"
    /\ outcome' = result
    /\ ran' = IF result = "done" THEN ran \cup {running} ELSE ran
    /\ UNCHANGED <<secret, loaded, cached, planApplied, running, passedSince, quiet>>

(* A report, dropped when the plan was replaced while the agent ran the old one. *)
AgentReports ==
    /\ outcome \in {"done", "error"}
    /\ secret' =
         IF running # secret.plan THEN secret
         ELSE IF outcome = "done"
         THEN [secret EXCEPT !.appliedChecksum = running, !.failedChecksum = NoPlan,
                             !.failureCount = 0, !.probes = "failing"]
         ELSE [secret EXCEPT !.failedChecksum = running,
                             !.failureCount = IF secret.failedChecksum # running THEN 1
                                              ELSE IF @ < MaxFailureCount THEN @ + 1 ELSE @]
    /\ running' = NoPlan
    /\ outcome' = "idle"
    /\ UNCHANGED <<loaded, cached, planApplied, ran, passedSince, quiet>>

AgentProbes(result) ==
    /\ running = NoPlan
    /\ secret.plan # NoPlan
    /\ secret.plan = secret.appliedChecksum
    /\ quiet => result = "passing"
    /\ secret' = [secret EXCEPT !.probes = result]
    /\ passedSince' = (passedSince \/ result = "passing")
    /\ UNCHANGED <<loaded, cached, planApplied, running, outcome, ran, quiet>>

AgentRestarts ==
    /\ ~quiet
    /\ running # NoPlan
    /\ running' = NoPlan
    /\ outcome' = "idle"
    /\ UNCHANGED <<secret, loaded, cached, planApplied, ran, passedSince, quiet>>

Quieten ==
    /\ quiet' = TRUE
    /\ UNCHANGED <<secret, loaded, cached, planApplied, agentVars>>

-----------------------------------------------------------------------------
Init ==
    /\ secret = NewSecret
    /\ loaded = "absent"
    /\ cached = NewSecret
    /\ planApplied = "Unknown"
    /\ running = NoPlan
    /\ outcome = "idle"
    /\ ran = {}
    /\ passedSince = FALSE
    /\ quiet = FALSE

Planner ==
    \/ \E p \in Plans : reconcile(p) \/ \E l \in Limits : assignAndCheckPlan(p, l[1], l[2])
    \/ Load
    \/ updatePlanSecretLabelsAndAnnotations

Agent ==
    \/ AgentStarts
    \/ \E result \in {"done", "error"} : AgentFinishes(result)
    \/ AgentReports

Next ==
    \/ Planner
    \/ CacheSync
    \/ OnChange
    \/ Agent
    \/ \E result \in {"failing", "passing"} : AgentProbes(result)
    \/ AgentRestarts
    \/ Quieten

Spec == Init /\ [][Next]_vars /\ WF_vars(CacheSync) /\ WF_vars(OnChange) /\ WF_vars(Agent)

-----------------------------------------------------------------------------
(* Every variable stays in its domain. *)
TypeOK ==
    /\ secret \in Secrets /\ cached \in Secrets
    /\ loaded \in {"absent", "empty", "time"}
    /\ planApplied \in {"Unknown", "True", "False"}
    /\ running \in Plans \cup {NoPlan}
    /\ outcome \in {"idle", "running", "done", "error"}
    /\ (running = NoPlan) <=> (outcome = "idle")
    /\ ran \subseteq Plans
    /\ passedSince \in BOOLEAN /\ quiet \in BOOLEAN

(* A plan the planner takes for in sync did run to completion on the machine at
   some time, whatever the controller had cached when it recorded that. *)
InSyncPlanRan == secret.plan # NoPlan /\ InSync(secret) => secret.plan \in ran

(* "a non-zero value for this annotation indicates the probes for this specific
   plan have passed at least once": also after the planner has written the
   annotation it loaded earlier over the live one. *)
ProbesPassedForThisPlan == secret.probesPassed = "time" => passedSince

(* An operation that is reported failed is over: when its retries equal its
   threshold and no run of the plan is under way, the agent does not run it again
   behind the planner's back. *)
FailedPlanStaysFailed ==
    [][/\ Failed(secret) /\ running # secret.plan
       /\ secret.maxFailures = secret.failureThreshold /\ secret.maxFailures > 0
       /\ secret'.plan = secret.plan
       => Failed(secret') /\ running' # secret.plan]_vars

(* No plan is left hanging: when nothing changes any more the planner sees it in
   sync or failed. *)
PlanConcludes == (<>quiet) => <>[](secret.plan # NoPlan => InSync(secret) \/ Failed(secret))

(* The machine's PlanApplied condition ends up telling what became of the plan
   that is there, although it is set from a cached secret. *)
ConditionFollowsSecret ==
    (<>quiet) =>
        \/ []<>(Failed(secret) /\ ~GivenUp(secret))
        \/ <>[](/\ secret.plan # NoPlan /\ secret.appliedChecksum = secret.plan =>
                     planApplied = "True"
                /\ GivenUp(secret) => planApplied = "False")

(* The secret as the planner sees it. *)
Delivery == INSTANCE PlanDelivery
    WITH plan <- secret.plan, applied <- secret.appliedPlan,
         failed <- Failed(secret), passed <- secret.probesPassed = "time"

(* The planner, the plan-secret controller and the agent, each with its own earlier
   reading of the secret, together deliver plans as PlanDelivery says: what SecretToNode
   makes of the secret changes by those steps only. *)
ImplementsDelivery == Delivery!Spec

=============================================================================
