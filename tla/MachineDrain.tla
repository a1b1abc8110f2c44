---------------------------- MODULE MachineDrain ----------------------------
(***************************************************************************)
(* Draining one machine before a plan that restarts its engine, and        *)
(* uncordoning it afterwards: the planner's side (pkg/capr/planner,        *)
(* drain.go and the drain branches of reconcile) and the machine-drain     *)
(* controller's (pkg/controllers/capr/machinedrain).                       *)
(*                                                                         *)
(* The two talk through annotations of the plan secret.  The planner       *)
(* decides on the annotations its pass loaded and writes ALL of them over  *)
(* the live ones; the controller decides on the secret its cache holds,    *)
(* calls the downstream cluster, and then edits the live secret.           *)
(***************************************************************************)
EXTENDS Naturals

CONSTANTS Options,        \* drain options, as the annotations spell them out
          Enabled,        \* the options that ask for a drain, not only for hooks
          PreHooked,      \* the options with a pre-drain hook
          PostHooked,     \* the options with a post-drain hook
          Stamps,         \* restart stamps of the plans rendered for the machine
          None            \* no options, an annotation that is not there

ASSUME OptionsAssumption ==
    /\ None \notin Options
    /\ Enabled \subseteq Options /\ PreHooked \subseteq Options /\ PostHooked \subseteq Options

VARIABLES
    want,      \* what the control plane asks for: restart stamp and drain options
    plan,      \* stamp of the plan in the secret
    applied,   \* stamp of the applied plan
    ann,       \* the drain annotations of the secret
    pass,      \* what the planner's pass loaded, or None
    cache,     \* the annotations the controller's cache holds
    mpc,       \* how far the controller's handler is
    cordoned,  \* the node takes no new pods
    drained,   \* the node has been drained and has taken no pods since
    answered,  \* the pre-drain hook has been answered since the last clean-up
    upgrade,   \* is a restart that asked for a drain under way, and had an
               \* uncordon been requested when its plan was delivered
    quiet      \* the user makes no more changes and calls succeed

vars == <<want, plan, applied, ann, pass, cache, mpc, cordoned, drained, answered, upgrade, quiet>>
controllerVars == <<cache, mpc, cordoned, drained, answered>>

Values == Options \cup {None}
Annotations == [drain : Values, drainDone : Values, unCordon : Values,
                preDrain : Values, preHook : Values, postDrain : Values, postHook : Values,
                drainError : {None, "error", "unreachable"}]
NoAnnotations == [drain |-> None, drainDone |-> None, unCordon |-> None,
                  preDrain |-> None, preHook |-> None, postDrain |-> None, postHook |-> None,
                  drainError |-> None]

-----------------------------------------------------------------------------
(* The planner. *)

Load ==
    /\ pass = None
    /\ pass' = [want |-> want, plan |-> plan, applied |-> applied, ann |-> ann]
    /\ UNCHANGED <<want, plan, applied, ann, upgrade, controllerVars, quiet>>

(* CopyPlanMetadataToSecret: every loaded key goes over the live one; a key that
   was deleted meanwhile comes back. *)
CopyPlanMetadataToSecret(meta) ==
    [k \in DOMAIN ann |-> IF meta[k] # None THEN meta[k] ELSE ann[k]]

updatePlanSecretLabelsAndAnnotations(meta) ==
    /\ ann' = CopyPlanMetadataToSecret(meta)
    /\ UNCHANGED <<plan, upgrade>>

(* There is something to drain for: a drain or hooks are asked for, and the engine
   will restart. *)
shouldDrain(o) ==
    /\ o \in Enabled \cup PreHooked \cup PostHooked
    /\ pass.applied # pass.want.stamp

UpdatePlan ==
    /\ plan' = pass.want.stamp
    /\ ann' = CopyPlanMetadataToSecret(pass.ann)
    /\ upgrade' = IF pass.want.options \in Enabled /\ pass.applied # pass.want.stamp
                  THEN IF pass.ann.unCordon = None THEN "clean" ELSE "racing"
                  ELSE "none"

checkForDrainError == pass.ann.drainError = "error"

(* reconcile on a changed plan: drain, and once that is done update the plan. *)
drain ==
    LET o == pass.want.options IN
    /\ pass.plan # pass.want.stamp
    /\ \/ ~shouldDrain(o) /\ UpdatePlan
       \/ /\ shouldDrain(o)
          /\ pass.ann.drain # o
          /\ updatePlanSecretLabelsAndAnnotations([pass.ann EXCEPT !.drain = o])
       \/ /\ shouldDrain(o)
          /\ pass.ann.drain = o
          /\ ~checkForDrainError /\ pass.ann.drainDone = o
          /\ UpdatePlan
       \/ /\ shouldDrain(o)
          /\ pass.ann.drain = o
          /\ checkForDrainError \/ pass.ann.drainDone # o
          /\ UNCHANGED <<plan, ann, upgrade>>

(* reconcile on an unchanged plan, once it has been applied. *)
undrain ==
    /\ pass.plan = pass.want.stamp
    /\ \/ /\ pass.applied = pass.plan
          /\ pass.ann.drain \notin {None, pass.ann.unCordon}
          /\ updatePlanSecretLabelsAndAnnotations([pass.ann EXCEPT !.unCordon = pass.ann.drain])
       \/ /\ pass.applied # pass.plan \/ pass.ann.drain \in {None, pass.ann.unCordon}
          /\ UNCHANGED <<plan, ann, upgrade>>

reconcile ==
    /\ pass # None
    /\ drain \/ undrain
    /\ pass' = None
    /\ UNCHANGED <<want, applied, controllerVars, quiet>>

PassInterrupted ==
    /\ pass # None
    /\ ~quiet
    /\ pass' = None
    /\ UNCHANGED <<want, plan, applied, ann, upgrade, controllerVars, quiet>>

-----------------------------------------------------------------------------
(* The machine-drain controller. *)

plannerVars == <<want, plan, applied, pass, upgrade, quiet>>

(* The informer delivers the secret; a handler that runs keeps the copy it got. *)
CacheSync ==
    /\ mpc = "idle"
    /\ cache' = ann
    /\ UNCHANGED <<plannerVars, ann, mpc, cordoned, drained, answered>>

(* The deferred update of the handler, after an error and after success.  An update
   of a copy that is no longer current conflicts, and the conflict is dropped. *)
recordDrainError ==
    \/ ann = cache /\ \E e \in {"error", "unreachable"} : ann' = [ann EXCEPT !.drainError = e]
    \/ ann # cache /\ UNCHANGED ann

(* A mutant: the annotation says that it was done, not for which options. *)
updateSecretAnnotationToTrue(key, o, check) ==
    IF check /\ ann[key] # o THEN [ann EXCEPT ![key] = TRUE] ELSE [ann EXCEPT !.drainError = None]

(* What the live secret becomes when the handler sets an annotation of it.  When there
   is nothing to set the copy it read is current, and the deferred update removes the
   error; after a write of its own the copy is not. *)
updateSecretAnnotationIfCheckTrue(key, o, check) ==
    IF check /\ ann[key] # o THEN [ann EXCEPT ![key] = o] ELSE [ann EXCEPT !.drainError = None]

(* A mutant: the error of an earlier run stays. *)
clearDrainErrorNever == ann' = ann

clearDrainError ==
    ann' = IF ann = cache THEN [ann EXCEPT !.drainError = None] ELSE ann

Idle ==
    /\ cache.drain = None \/ cache.drainDone = cache.drain
    /\ cache.unCordon = None
    /\ clearDrainError
    /\ UNCHANGED <<mpc, cordoned, drained>>

Draining == cache.drain # None /\ cache.drainDone # cache.drain

(* drain: cordon the node, then announce the pre-drain hooks and wait for them. *)
cordon ==
    LET o == cache.drain IN
    /\ Draining
    /\ cordoned' = TRUE
    /\ UNCHANGED drained
    /\ \/ /\ o \in PreHooked /\ cache.preDrain # o
          /\ ann' = updateSecretAnnotationIfCheckTrue("preDrain", o, TRUE)
          /\ UNCHANGED mpc
       \/ /\ o \in PreHooked /\ cache.preDrain = o /\ cache.preHook # o
          /\ clearDrainError
          /\ UNCHANGED mpc
       \/ /\ o \in PreHooked => cache.preDrain = o /\ cache.preHook = o
          /\ mpc' = "drain"
          /\ UNCHANGED ann

(* drain: evict the pods and set the drain-done annotation of the live secret, unless
   its pre-drain hooks no longer agree. *)
performDrain ==
    LET o == cache.drain IN
    /\ mpc = "drain"
    /\ drained' = (drained \/ o \in Enabled)
    /\ ann' = updateSecretAnnotationIfCheckTrue("drainDone", o,
                                                o \in PreHooked => ann.preHook = o)
    /\ mpc' = "idle"
    /\ UNCHANGED cordoned

UnDraining == ~Draining /\ cache.unCordon # None

(* unDrain: announce the post-drain hooks and wait for them, then uncordon the node.
   Without drain options there is nothing to parse, and the handler fails. *)
unDrain ==
    LET o == cache.drain IN
    /\ UnDraining
    /\ \/ /\ o \in PostHooked /\ cache.postDrain # o
          /\ ann' = updateSecretAnnotationIfCheckTrue("postDrain", o, TRUE)
          /\ UNCHANGED <<mpc, cordoned, drained>>
       \/ /\ o \in PostHooked /\ cache.postDrain = o /\ cache.postHook # o
          /\ clearDrainError
          /\ UNCHANGED <<mpc, cordoned, drained>>
       \/ /\ o # None
          /\ o \in PostHooked => cache.postDrain = o /\ cache.postHook = o
          /\ cordoned' = FALSE
          /\ drained' = FALSE
          /\ mpc' = "clean"
          /\ UNCHANGED ann

(* A mutant: the answer of the pre-drain hook stays. *)
cleanSecretAnnotationsKeepsHook ==
    /\ mpc = "clean"
    /\ ann' = [NoAnnotations EXCEPT !.preHook = ann.preHook]
    /\ mpc' = "idle"
    /\ UNCHANGED <<cordoned, drained>>
(* Mutants: the drain-done or the uncordon annotation stays. *)
cleanSecretAnnotationsKeepsDone ==
    /\ mpc = "clean"
    /\ ann' = [NoAnnotations EXCEPT !.drainDone = ann.drainDone]
    /\ mpc' = "idle"
    /\ UNCHANGED <<cordoned, drained>>
cleanSecretAnnotationsKeepsUnCordon ==
    /\ mpc = "clean"
    /\ ann' = [NoAnnotations EXCEPT !.unCordon = ann.unCordon]
    /\ mpc' = "idle"
    /\ UNCHANGED <<cordoned, drained>>

(* unDrain: remove the annotations from the live secret. *)
cleanSecretAnnotationsIfCheckTrue ==
    LET o == cache.drain IN
    /\ mpc = "clean"
    /\ ann' = IF o \in PostHooked => ann.postHook = o
              THEN [NoAnnotations EXCEPT
                       !.drainError = ann.drainError,
                       !.preHook    = IF o \in PreHooked THEN None ELSE ann.preHook,
                       !.postHook   = IF o \in PostHooked THEN None ELSE ann.postHook]
              ELSE [ann EXCEPT !.drainError = None]
    /\ mpc' = "idle"
    /\ UNCHANGED <<cordoned, drained>>

OnChange ==
    /\ \/ mpc = "idle" /\ (Idle \/ cordon \/ unDrain) /\ UNCHANGED answered
       \/ performDrain /\ UNCHANGED answered
       \/ cleanSecretAnnotationsIfCheckTrue /\ answered' = FALSE
    /\ UNCHANGED <<plannerVars, cache>>

(* A call to the downstream cluster fails, or the drain options cannot be parsed: the
   handler records the error and is run again.  A restart of the controller loses the run
   as well. *)
OnChangeFails ==
    /\ ~quiet \/ (UnDraining /\ cache.drain = None)
    /\ mpc # "idle" \/ Draining \/ UnDraining
    /\ recordDrainError \/ UNCHANGED ann
    /\ mpc' = "idle"
    /\ UNCHANGED <<plannerVars, cache, cordoned, drained, answered>>

-----------------------------------------------------------------------------
(* The system agent, the owners of the hooks and the user. *)

AgentApplies ==
    /\ applied # plan
    /\ applied' = plan
    /\ upgrade' = "none"
    /\ UNCHANGED <<want, plan, ann, pass, controllerVars, quiet>>

HookAnswers ==
    /\ \/ /\ ann.preDrain # None
          /\ ann' = [ann EXCEPT !.preHook = ann.preDrain]
          /\ answered' = TRUE
       \/ /\ ann.postDrain # None
          /\ ann' = [ann EXCEPT !.postHook = ann.postDrain]
          /\ UNCHANGED answered
    /\ UNCHANGED <<plannerVars, cache, mpc, cordoned, drained>>

SpecChanges ==
    /\ ~quiet
    /\ \E s \in Stamps, o \in Options : want' = [stamp |-> s, options |-> o]
    /\ UNCHANGED <<plan, applied, ann, pass, upgrade, controllerVars, quiet>>

Quieten ==
    /\ ~quiet
    /\ quiet' = TRUE
    /\ UNCHANGED <<want, plan, applied, ann, pass, upgrade, controllerVars>>

-----------------------------------------------------------------------------
Init ==
    /\ \E s \in Stamps, o \in Options :
          /\ want = [stamp |-> s, options |-> o]
          /\ plan = s /\ applied = s
    /\ ann = NoAnnotations /\ cache = NoAnnotations
    /\ pass = None /\ mpc = "idle"
    /\ cordoned = FALSE /\ drained = FALSE /\ answered = FALSE
    /\ upgrade = "none" /\ quiet = FALSE

Next ==
    \/ Load \/ reconcile \/ PassInterrupted
    \/ CacheSync \/ OnChange \/ OnChangeFails
    \/ AgentApplies \/ HookAnswers \/ SpecChanges \/ Quieten

Fairness ==
    /\ WF_vars(Load) /\ WF_vars(reconcile)
    /\ SF_vars(CacheSync) /\ WF_vars(OnChange)
    /\ WF_vars(AgentApplies) /\ WF_vars(HookAnswers)

Spec == Init /\ [][Next]_vars /\ Fairness

-----------------------------------------------------------------------------
Wants == [stamp : Stamps, options : Options]

(* Every variable stays in its domain. *)
TypeOK ==
    /\ want \in Wants /\ plan \in Stamps /\ applied \in Stamps
    /\ ann \in Annotations /\ cache \in Annotations
    /\ pass \in {None} \cup [want : Wants, plan : Stamps, applied : Stamps, ann : Annotations]
    /\ mpc \in {"idle", "drain", "clean"}
    /\ cordoned \in BOOLEAN /\ drained \in BOOLEAN
    /\ answered \in BOOLEAN /\ quiet \in BOOLEAN
    /\ upgrade \in {"none", "clean", "racing"}

(* A plan that restarts the engine, delivered when no uncordon had been requested, runs
   on a node that is drained and takes no pods, until the plan has been applied:
   whatever the controller's cache lags behind and the planner writes back. *)
DrainedUntilApplied == upgrade = "clean" => cordoned /\ drained

(* A node is drained only when the owner of the pre-drain hook has answered for this
   drain: the answer to an earlier one does not survive its clean-up, even when the
   planner writes back what it loaded before.  This takes drain options that stay: after
   a change the clean-up leaves the answers to the former hooks behind, and a drain that
   is switched off is delivered with all the annotations the pass had loaded. *)
DrainWaitsForHook == mpc = "drain" /\ cache.drain \in PreHooked => answered

(* An uncordon request always has the drain options it undoes beside it: the handler can
   parse them, and does not fail on the request for ever. *)
UnCordonHasOptions == \A a \in {ann, cache} : a.unCordon # None => a.drain # None

(* When nothing disturbs the system any more the plan is delivered, and the node ends up
   uncordoned and without drain annotations: no drain or uncordon request is lost, and
   none comes back for good with a stale write. *)
UpgradeConcludes ==
    (<>quiet) => <>[](/\ plan = want.stamp /\ applied = plan
                      /\ ~cordoned
                      /\ ann.drain = None /\ ann.drainDone = None /\ ann.unCordon = None)

(* "Enable will require nodes be drained before upgrade" (DrainOptions.Enabled): a node
   whose engine restarts under a drain that was asked for is drained.  The code keeps
   this only as long as no uncordon is pending. *)
UpgradeRequiresDrain == upgrade # "none" => drained

=============================================================================
