------------------------- MODULE MachineDrainProofs -------------------------
(***************************************************************************)
(* Proofs, for any drain options, any hooks and any restart stamps, that a *)
(* node whose engine restarts is drained, that an uncordon request can be  *)
(* carried out, and that a drain waits for its hook.                       *)
(***************************************************************************)
EXTENDS MachineDrain, TLAPS

(* The annotations that the planner's pass carries, if there is one, and those of the
   secret. *)
Carried == IF pass = None THEN {ann} ELSE {ann, pass.ann}

(* The handler drains what its cache asks it to drain, on a cordoned node, and cleans
   up after what its cache asks it to undo. *)
HandlerOnItsWay ==
    /\ mpc = "drain" => Draining /\ cordoned
    /\ mpc = "clean" => UnDraining /\ cache.drain # None

(* While a pass is under way only the agent, and only by applying the plan, moves what it
   loaded; nobody else asks for an uncordon. *)
PassIsCurrent ==
    pass # None => /\ pass.plan = plan /\ applied \in {pass.applied, plan}
                   /\ pass.ann.unCordon = None => ann.unCordon = None

(* An uncordon request that the cache still has and the secret has lost was carried out
   with that very cache. *)
RequestsSurvive == cache.unCordon # None /\ ann.unCordon = None => UnDraining

(* A drain reported done and not yet to be undone: the node is drained, and the
   controller knows of nothing to undo. *)
DrainDoneHolds ==
    \A a \in Carried : a.drainDone # None /\ a.unCordon = None =>
        cache.unCordon = None /\ cordoned /\ (a.drainDone \in Enabled => drained)

(* The same while the plan that the node was drained for has not been applied. *)
DrainedForThePlan ==
    upgrade = "clean" =>
        /\ cordoned /\ drained /\ plan # applied
        /\ cache.unCordon = None
        /\ \A a \in Carried : a.unCordon = None

RequestsHaveOptions == \A a \in Carried \cup {cache} : a.unCordon # None => a.drain # None

IInv ==
    /\ TypeOK /\ HandlerOnItsWay /\ PassIsCurrent /\ RequestsSurvive
    /\ DrainDoneHolds /\ DrainedForThePlan /\ RequestsHaveOptions

(* With one set of options: what the secret has of a pre-drain hook is of this drain. *)
HookOfThisDrain ==
    \A a \in Carried : (a.preDrain # None \/ a.preHook # None) /\ a.unCordon = None =>
        cache.unCordon = None

(* An uncordon requested before the drain was done: the drain was called off, and the plan
   is the applied one. *)
CalledOff ==
    /\ ann.unCordon # None /\ ann.drainDone = None => plan = applied
    /\ pass # None /\ pass.ann.unCordon # None /\ pass.ann.drainDone = None => pass.plan = pass.applied
    /\ UnDraining /\ ann.unCordon # None /\ (ann.preDrain # None \/ ann.preHook # None)
         => ann.drainDone # None

(* An answer that can still start a drain was given since the last clean-up. *)
AnswersAreFresh ==
    /\ \A a \in {ann, cache} : a.preHook # None /\ (a.unCordon = None \/ a.drainDone = None) => answered
    /\ pass # None /\ pass.ann.preHook # None /\ pass.ann.unCordon = None => answered

HInv == HookOfThisDrain /\ CalledOff /\ AnswersAreFresh /\ DrainWaitsForHook

-----------------------------------------------------------------------------
(* What the planner's write does to each annotation. *)
LEMMA CopyFields ==
    ASSUME ann \in Annotations, NEW meta \in Annotations
    PROVE  LET c == CopyPlanMetadataToSecret(meta)
               Merged(m, a) == IF m # None THEN m ELSE a
           IN  c = [drain |-> Merged(meta.drain, ann.drain),
                    drainDone |-> Merged(meta.drainDone, ann.drainDone),
                    unCordon |-> Merged(meta.unCordon, ann.unCordon),
                    preDrain |-> Merged(meta.preDrain, ann.preDrain),
                    preHook |-> Merged(meta.preHook, ann.preHook),
                    postDrain |-> Merged(meta.postDrain, ann.postDrain),
                    postHook |-> Merged(meta.postHook, ann.postHook),
                    drainError |-> Merged(meta.drainError, ann.drainError)]
  BY DEF CopyPlanMetadataToSecret, Annotations

LEMMA CopyType ==
    ASSUME ann \in Annotations, NEW meta \in Annotations
    PROVE  CopyPlanMetadataToSecret(meta) \in Annotations
  BY CopyFields DEF Annotations, Values

LEMMA InitIInv == Init => IInv
<1> SUFFICES ASSUME Init PROVE IInv
  BY Zenon
<1>1. NoAnnotations \in Annotations
  BY Zenon DEF NoAnnotations, Annotations, Values
<1>2. TypeOK
  <2>1. PICK s \in Stamps, o \in Options :
           want = [stamp |-> s, options |-> o] /\ plan = s /\ applied = s
    BY Zenon DEF Init
  <2>2. want \in Wants
    BY Zenon, <2>1 DEF Wants
  <2> QED
    BY Zenon, <1>1, <2>1, <2>2 DEF Init, TypeOK
<1>3. HandlerOnItsWay /\ PassIsCurrent /\ RequestsSurvive /\ DrainedForThePlan
  BY Zenon DEF Init, NoAnnotations, HandlerOnItsWay, PassIsCurrent, RequestsSurvive, DrainedForThePlan
<1>4. DrainDoneHolds /\ RequestsHaveOptions
  BY DEF Init, NoAnnotations, DrainDoneHolds, RequestsHaveOptions, Carried
<1> QED
  BY Zenon, <1>2, <1>3, <1>4 DEF IInv

(* The steps that leave the annotations alone. *)
LEMMA QuietStepsIInv ==
    ASSUME IInv, Load \/ PassInterrupted \/ CacheSync \/ AgentApplies \/ SpecChanges \/ Quieten
                 \/ UNCHANGED vars
    PROVE  IInv'
<1> USE DEF IInv, TypeOK, HandlerOnItsWay, PassIsCurrent, RequestsSurvive, DrainDoneHolds,
            DrainedForThePlan, RequestsHaveOptions, Carried, Draining, UnDraining,
            controllerVars, plannerVars
<1>1. CASE Load
  BY <1>1 DEF Load
<1>2. CASE PassInterrupted
  BY Zenon, <1>2 DEF PassInterrupted
<1>3. CASE CacheSync
  BY <1>3 DEF CacheSync
<1>4. CASE AgentApplies
  BY <1>4 DEF AgentApplies
<1>5. CASE SpecChanges
  BY <1>5 DEF SpecChanges, Wants
<1>6. CASE Quieten \/ UNCHANGED vars
  BY ZenonT(60), <1>6 DEF Quieten, vars
<1> QED
  BY Zenon, <1>1, <1>2, <1>3, <1>4, <1>5, <1>6

(* The planner writes over the secret what it loaded, and what it adds to that. *)
LEMMA WriteIInv ==
    ASSUME IInv, pass # None, pass' = None,
           NEW meta \in Annotations, ann' = CopyPlanMetadataToSecret(meta),
           meta.drainDone = pass.ann.drainDone,
           meta.drain # None \/ meta.drain = pass.ann.drain,
           \/ meta.unCordon = pass.ann.unCordon
           \/ meta.unCordon # None /\ meta.drain # None /\ upgrade # "clean",
           UNCHANGED controllerVars
    PROVE  /\ ann' \in Annotations
           /\ HandlerOnItsWay' /\ PassIsCurrent' /\ RequestsSurvive'
           /\ DrainDoneHolds' /\ RequestsHaveOptions'
           /\ upgrade = "clean" => ann'.unCordon = None
<1> USE DEF IInv, TypeOK, controllerVars
<1>1. ann' \in Annotations
  BY Zenon, CopyType
<1>2. /\ ann'.drain = IF meta.drain # None THEN meta.drain ELSE ann.drain
      /\ ann'.drainDone = IF meta.drainDone # None THEN meta.drainDone ELSE ann.drainDone
      /\ ann'.unCordon = IF meta.unCordon # None THEN meta.unCordon ELSE ann.unCordon
  BY CopyFields
<1>3. HandlerOnItsWay' /\ PassIsCurrent'
  BY Zenon DEF HandlerOnItsWay, PassIsCurrent, Draining, UnDraining
<1>4. RequestsSurvive'
  BY Zenon, <1>2 DEF RequestsSurvive, Draining, UnDraining
<1>5. DrainDoneHolds'
  BY Zenon, <1>2 DEF DrainDoneHolds, Carried, PassIsCurrent
<1>6. RequestsHaveOptions'
  BY Zenon, <1>2 DEF RequestsHaveOptions, Carried
<1>7. upgrade = "clean" => ann'.unCordon = None
  BY Zenon, <1>2 DEF DrainedForThePlan, Carried
<1> QED
  BY Zenon, <1>1, <1>3, <1>4, <1>5, <1>6, <1>7

(* A pass: it delivers a plan to a node that it has seen drained, and asks for an uncordon
   only when the plan has been applied. *)
LEMMA ReconcileIInv ==
    ASSUME IInv, reconcile
    PROVE  IInv'
<1>1. /\ pass # None /\ pass' = None /\ UNCHANGED <<want, applied, quiet>>
      /\ UNCHANGED <<cache, mpc, cordoned, drained, answered>> /\ UNCHANGED controllerVars
  BY Zenon DEF reconcile, controllerVars
<1>2. pass \in [want : Wants, plan : Stamps, applied : Stamps, ann : Annotations]
  BY Zenon, <1>1 DEF IInv, TypeOK
<1>3. CASE UNCHANGED <<plan, ann, upgrade>>
  BY <1>1, <1>3 DEF IInv, TypeOK, HandlerOnItsWay, PassIsCurrent, RequestsSurvive, DrainDoneHolds,
            DrainedForThePlan, RequestsHaveOptions, Carried, Draining, UnDraining
<1>4. CASE UpdatePlan /\ (~shouldDrain(pass.want.options) \/ pass.ann.drainDone = pass.want.options)
           /\ pass.plan # pass.want.stamp
  <2>1. /\ ann' \in Annotations
        /\ HandlerOnItsWay' /\ PassIsCurrent' /\ RequestsSurvive'
        /\ DrainDoneHolds' /\ RequestsHaveOptions'
    BY Zenon, <1>1, <1>2, <1>4, WriteIInv DEF UpdatePlan
  <2>2. plan' \in Stamps /\ upgrade' \in {"none", "clean", "racing"}
    BY Zenon, <1>2, <1>4 DEF UpdatePlan, Wants
  <2>3. DrainedForThePlan'
    <3> SUFFICES ASSUME upgrade' = "clean" PROVE DrainedForThePlan'
      BY Zenon DEF DrainedForThePlan
    <3>1. /\ pass.want.options \in Enabled /\ pass.applied # pass.want.stamp
          /\ pass.ann.unCordon = None
      BY Zenon, <1>4 DEF UpdatePlan
    <3>2. pass.ann.drainDone = pass.want.options /\ pass.ann.drainDone # None
      BY Zenon, <1>2, <1>4, <3>1, OptionsAssumption DEF shouldDrain, Wants
    <3>3. cordoned /\ drained /\ cache.unCordon = None
      BY Zenon, <1>1, <3>1, <3>2 DEF IInv, DrainDoneHolds, Carried
    <3>4. ann.unCordon = None /\ plan = pass.plan /\ applied \in {pass.applied, plan}
      BY Zenon, <1>1, <3>1 DEF IInv, PassIsCurrent
    <3>5. plan' # applied
      BY Zenon, <1>4, <3>1, <3>4 DEF UpdatePlan
    <3>6. ann'.unCordon = None
      BY <1>2, <1>4, <3>1, <3>4, CopyFields DEF IInv, TypeOK, UpdatePlan
    <3> QED
      BY Zenon, <1>1, <3>3, <3>5, <3>6 DEF DrainedForThePlan, Carried
  <2> QED
    BY Zenon, <1>1, <2>1, <2>2, <2>3 DEF IInv, TypeOK
<1>5. ASSUME shouldDrain(pass.want.options), pass.ann.drain # pass.want.options,
             updatePlanSecretLabelsAndAnnotations([pass.ann EXCEPT !.drain = pass.want.options])
      PROVE  IInv'
  <2> DEFINE meta == [pass.ann EXCEPT !.drain = pass.want.options]
  <2>1. /\ meta \in Annotations /\ meta.drain # None
        /\ meta.drainDone = pass.ann.drainDone /\ meta.unCordon = pass.ann.unCordon
    BY Zenon, <1>2, OptionsAssumption DEF Annotations, Values, Wants
  <2>2. ann' = CopyPlanMetadataToSecret(meta) /\ UNCHANGED <<plan, upgrade>>
    BY Zenon, <1>5 DEF updatePlanSecretLabelsAndAnnotations
  <2> HIDE DEF meta
  <2>3. /\ ann' \in Annotations
        /\ HandlerOnItsWay' /\ PassIsCurrent' /\ RequestsSurvive'
        /\ DrainDoneHolds' /\ RequestsHaveOptions'
        /\ upgrade = "clean" => ann'.unCordon = None
    BY Zenon, <1>1, <2>1, <2>2, WriteIInv
  <2>4. DrainedForThePlan'
    BY Zenon, <1>1, <2>2, <2>3 DEF IInv, DrainedForThePlan, Carried
  <2> QED
    BY Zenon, <1>1, <2>2, <2>3, <2>4 DEF IInv, TypeOK
<1>6. ASSUME pass.plan = pass.want.stamp, pass.applied = pass.plan,
             pass.ann.drain \notin {None, pass.ann.unCordon},
             updatePlanSecretLabelsAndAnnotations([pass.ann EXCEPT !.unCordon = pass.ann.drain])
      PROVE  IInv'
  <2> DEFINE meta == [pass.ann EXCEPT !.unCordon = pass.ann.drain]
  <2>1. /\ meta \in Annotations /\ meta.drain = pass.ann.drain /\ meta.drain # None
        /\ meta.drainDone = pass.ann.drainDone /\ meta.unCordon # None
    BY Zenon, <1>2, <1>6 DEF Annotations, Values
  <2>2. ann' = CopyPlanMetadataToSecret(meta) /\ UNCHANGED <<plan, upgrade>>
    BY Zenon, <1>6 DEF updatePlanSecretLabelsAndAnnotations
  <2>3. upgrade # "clean"
    BY Zenon, <1>1, <1>6 DEF IInv, DrainedForThePlan, PassIsCurrent
  <2> HIDE DEF meta
  <2>4. /\ ann' \in Annotations
        /\ HandlerOnItsWay' /\ PassIsCurrent' /\ RequestsSurvive'
        /\ DrainDoneHolds' /\ RequestsHaveOptions'
    BY Zenon, <1>1, <2>1, <2>2, <2>3, WriteIInv
  <2>5. DrainedForThePlan'
    BY Zenon, <2>2, <2>3 DEF DrainedForThePlan
  <2> QED
    BY Zenon, <1>1, <2>2, <2>4, <2>5 DEF IInv, TypeOK
<1> QED
  BY Zenon, <1>3, <1>4, <1>5, <1>6 DEF reconcile, drain, undrain

(* A step of the controller or of a hook's owner that leaves the requests alone. *)
LEMMA SameRequestsIInv ==
    ASSUME IInv, ann' \in Annotations,
           ann'.drain = ann.drain, ann'.drainDone = ann.drainDone, ann'.unCordon = ann.unCordon,
           UNCHANGED <<plannerVars, cache, drained>>,
           cordoned' \in {cordoned, TRUE}, answered' \in BOOLEAN,
           mpc' \in {"idle", "drain", "clean"}, HandlerOnItsWay'
    PROVE  IInv'
<1> USE DEF IInv, plannerVars
<1>1. TypeOK' /\ PassIsCurrent' /\ RequestsSurvive'
  BY Zenon DEF TypeOK, PassIsCurrent, RequestsSurvive, UnDraining, Draining
<1>2. DrainDoneHolds' /\ RequestsHaveOptions'
  BY Zenon DEF TypeOK, DrainDoneHolds, RequestsHaveOptions, Carried
<1>3. DrainedForThePlan'
  BY Zenon DEF TypeOK, DrainedForThePlan, Carried
<1> QED
  BY Zenon, <1>1, <1>2, <1>3

(* The edits of the annotations that are neither requests nor the report of a drain. *)
LEMMA EditsKeepRequests ==
    ASSUME ann \in Annotations,
           NEW key \in {"preDrain", "postDrain", "preHook", "postHook", "drainError"},
           NEW v \in IF key = "drainError" THEN {None, "error", "unreachable"} ELSE Values,
           ann' = [ann EXCEPT ![key] = v]
    PROVE  /\ ann' \in Annotations
           /\ ann'.drain = ann.drain /\ ann'.drainDone = ann.drainDone
           /\ ann'.unCordon = ann.unCordon
<1>1. CASE key = "preDrain"
  BY Zenon, <1>1 DEF Annotations
<1>2. CASE key = "postDrain"
  BY Zenon, <1>2 DEF Annotations
<1>3. CASE key = "preHook"
  BY Zenon, <1>3 DEF Annotations
<1>4. CASE key = "postHook"
  BY Zenon, <1>4 DEF Annotations
<1>5. CASE key = "drainError"
  BY Zenon, <1>5 DEF Annotations
<1> QED
  BY Zenon, <1>1, <1>2, <1>3, <1>4, <1>5

(* The node is drained under the request that the cache holds, and nothing asks for its
   uncordon. *)
LEMMA PerformDrainIInv ==
    ASSUME IInv, performDrain, UNCHANGED <<plannerVars, cache, answered>>
    PROVE  IInv'
<1> USE DEF IInv
<1>1. Draining /\ cordoned /\ cache.drain \in Values /\ cache.drain # None
  BY Zenon DEF performDrain, HandlerOnItsWay, Draining, TypeOK, Annotations
<1>2. /\ mpc' = "idle" /\ cordoned' = cordoned
      /\ drained' \in BOOLEAN /\ (drained => drained')
      /\ cache.drain \in Enabled => drained'
  BY Zenon DEF performDrain, TypeOK
<1>3. /\ ann' \in Annotations
      /\ ann'.drain = ann.drain /\ ann'.unCordon = ann.unCordon
      /\ ann'.drainDone \in {ann.drainDone, cache.drain}
  BY Zenon, <1>1 DEF performDrain, updateSecretAnnotationIfCheckTrue, TypeOK, Annotations
<1>4. TypeOK' /\ HandlerOnItsWay' /\ PassIsCurrent' /\ RequestsSurvive'
  BY <1>2, <1>3 DEF TypeOK, HandlerOnItsWay, PassIsCurrent, RequestsSurvive, UnDraining, Draining,
                    plannerVars
<1>5. DrainDoneHolds'
  BY Zenon, <1>1, <1>2, <1>3 DEF DrainDoneHolds, Carried, RequestsSurvive, UnDraining, plannerVars
<1>6. DrainedForThePlan' /\ RequestsHaveOptions'
  BY Zenon, <1>1, <1>2, <1>3 DEF DrainedForThePlan, RequestsHaveOptions, Carried, plannerVars, TypeOK
<1> QED
  BY Zenon, <1>4, <1>5, <1>6

(* The node is uncordoned under an uncordon request that the cache holds, which no plan on
   its way to a drained node allows; then the annotations go. *)
LEMMA UnCordonIInv ==
    ASSUME IInv, mpc = "idle", UnDraining, cache.drain # None,
           cordoned' = FALSE, drained' = FALSE, mpc' = "clean",
           UNCHANGED <<plannerVars, cache, ann, answered>>
    PROVE  IInv'
<1> USE DEF IInv, plannerVars
<1>1. cache.unCordon # None
  BY Zenon DEF UnDraining
<1>2. TypeOK' /\ HandlerOnItsWay' /\ PassIsCurrent' /\ RequestsSurvive'
  BY Zenon DEF TypeOK, HandlerOnItsWay, PassIsCurrent, RequestsSurvive, UnDraining, Draining
<1>3. DrainDoneHolds' /\ DrainedForThePlan' /\ RequestsHaveOptions'
  BY Zenon, <1>1 DEF DrainDoneHolds, DrainedForThePlan, RequestsHaveOptions, Carried
<1> QED
  BY Zenon, <1>2, <1>3

LEMMA CleanIInv ==
    ASSUME IInv, cleanSecretAnnotationsIfCheckTrue, answered' = FALSE,
           UNCHANGED <<plannerVars, cache>>
    PROVE  IInv'
<1> USE DEF IInv, plannerVars
<1>1. UnDraining /\ cache.drain # None /\ mpc' = "idle" /\ UNCHANGED <<cordoned, drained>>
  BY Zenon DEF cleanSecretAnnotationsIfCheckTrue, HandlerOnItsWay
<1>2. CASE ann' = [ann EXCEPT !.drainError = None]
  <2>1. HandlerOnItsWay'
    BY Zenon, <1>1 DEF HandlerOnItsWay
  <2> QED
    BY Zenon, <1>1, <1>2, <2>1, SameRequestsIInv, EditsKeepRequests DEF TypeOK
<1>3. CASE \E p, q \in Values : ann' = [NoAnnotations EXCEPT !.drainError = ann.drainError,
                                                !.preHook = p, !.postHook = q]
  <2>1. /\ ann' \in Annotations /\ ann'.unCordon = None /\ ann'.drainDone = None
    BY ZenonT(60), <1>3 DEF NoAnnotations, Annotations, Values, TypeOK
  <2>2. TypeOK' /\ HandlerOnItsWay' /\ PassIsCurrent' /\ RequestsSurvive'
    BY Zenon, <1>1, <2>1 DEF TypeOK, HandlerOnItsWay, PassIsCurrent, RequestsSurvive, UnDraining, Draining
  <2>3. DrainDoneHolds' /\ DrainedForThePlan' /\ RequestsHaveOptions'
    BY Zenon, <1>1, <2>1 DEF DrainDoneHolds, DrainedForThePlan, RequestsHaveOptions, Carried, TypeOK
  <2> QED
    BY Zenon, <2>2, <2>3
<1>4. \A P : (IF P THEN None ELSE ann.preHook) \in Values /\ (IF P THEN None ELSE ann.postHook) \in Values
  BY Zenon DEF TypeOK, Annotations, Values
<1> QED
  BY Zenon, <1>2, <1>3, <1>4 DEF cleanSecretAnnotationsIfCheckTrue

(* The controller edits the live secret: it never asks for an uncordon, and takes a request
   away only when it cleans up. *)
LEMMA ControllerIInv ==
    ASSUME IInv, OnChange \/ OnChangeFails \/ HookAnswers
    PROVE  IInv'
<1>0. /\ TypeOK /\ HandlerOnItsWay
      /\ cache.drain \in Values /\ ann.preDrain \in Values /\ ann.postDrain \in Values
  BY Zenon DEF IInv, TypeOK, Annotations
<1>1. ASSUME clearDrainError, UNCHANGED <<plannerVars, cache, answered, mpc, drained>>,
             cordoned' \in {cordoned, TRUE}, mpc = "idle"
      PROVE  IInv'
  <2>1. HandlerOnItsWay'
    BY Zenon, <1>0, <1>1 DEF HandlerOnItsWay
  <2> QED
    BY Zenon, <1>0, <1>1, <2>1, SameRequestsIInv, EditsKeepRequests DEF clearDrainError, TypeOK
<1>2. ASSUME NEW key \in {"preDrain", "postDrain"},
             ann' = updateSecretAnnotationIfCheckTrue(key, cache.drain, TRUE),
             UNCHANGED <<plannerVars, cache, answered, mpc, drained>>,
             cordoned' \in {cordoned, TRUE}, mpc = "idle"
      PROVE  IInv'
  <2>1. HandlerOnItsWay'
    BY Zenon, <1>0, <1>2 DEF HandlerOnItsWay
  <2>2. CASE ann' = [ann EXCEPT ![key] = cache.drain]
    <3>1. /\ ann' \in Annotations /\ ann'.drain = ann.drain
          /\ ann'.drainDone = ann.drainDone /\ ann'.unCordon = ann.unCordon
      BY Zenon, <1>0, <2>2, EditsKeepRequests DEF TypeOK
    <3> QED
      BY Zenon, <1>0, <1>2, <2>1, <3>1, SameRequestsIInv DEF TypeOK
  <2>3. CASE ann' = [ann EXCEPT !.drainError = None]
    BY Zenon, <1>0, <1>2, <2>1, <2>3, SameRequestsIInv, EditsKeepRequests DEF TypeOK
  <2> QED
    BY Zenon, <1>2, <2>2, <2>3 DEF updateSecretAnnotationIfCheckTrue
<1>3. CASE mpc = "idle" /\ Idle /\ UNCHANGED <<plannerVars, cache, answered>>
  BY Zenon, <1>1, <1>3 DEF Idle
<1>4. CASE mpc = "idle" /\ cordon /\ UNCHANGED <<plannerVars, cache, answered>>
  <2>1. CASE mpc' = "drain" /\ UNCHANGED ann
    <3>1. HandlerOnItsWay'
      BY Zenon, <1>4, <2>1 DEF cordon, HandlerOnItsWay, Draining
    <3> QED
      BY Zenon, <1>0, <1>4, <2>1, <3>1, SameRequestsIInv DEF cordon, TypeOK
  <2> QED
    BY Zenon, <1>1, <1>2, <1>4, <2>1 DEF cordon
<1>5. CASE mpc = "idle" /\ unDrain /\ UNCHANGED <<plannerVars, cache, answered>>
  BY Zenon, <1>1, <1>2, <1>5, UnCordonIInv DEF unDrain
<1>6. CASE OnChangeFails
  <2>1. HandlerOnItsWay'
    BY Zenon, <1>6 DEF HandlerOnItsWay, OnChangeFails
  <2>2. /\ ann' \in Annotations /\ ann'.drain = ann.drain
        /\ ann'.drainDone = ann.drainDone /\ ann'.unCordon = ann.unCordon
    BY Zenon, <1>0, <1>6, EditsKeepRequests DEF OnChangeFails, recordDrainError, TypeOK
  <2> QED
    BY Zenon, <1>0, <1>6, <2>1, <2>2, SameRequestsIInv DEF OnChangeFails, TypeOK
<1>7. CASE HookAnswers
  <2>1. HandlerOnItsWay'
    BY Zenon, <1>0, <1>7 DEF HandlerOnItsWay, HookAnswers, Draining, UnDraining
  <2>2. /\ ann' \in Annotations /\ ann'.drain = ann.drain
        /\ ann'.drainDone = ann.drainDone /\ ann'.unCordon = ann.unCordon
    BY Zenon, <1>0, <1>7, EditsKeepRequests DEF HookAnswers, TypeOK
  <2> QED
    BY Zenon, <1>0, <1>7, <2>1, <2>2, SameRequestsIInv DEF HookAnswers, TypeOK
<1> QED
  BY Zenon, <1>3, <1>4, <1>5, <1>6, <1>7, PerformDrainIInv, CleanIInv DEF OnChange

LEMMA NextIInv == IInv /\ [Next]_vars => IInv'
  BY Zenon, QuietStepsIInv, ReconcileIInv, ControllerIInv DEF Next

(* Every variable of planner, secret and controller stays in its domain. *)
THEOREM TypeCorrect == Spec => []TypeOK
<1>1. IInv => TypeOK
  BY Zenon DEF IInv
<1> QED
  BY InitIInv, NextIInv, <1>1, PTL DEF Spec

(* Planner.drain and the machine-drain controller's drain and unDrain: a plan that restarts
   the engine runs on a drained node, whatever the cache lags behind and the planner writes
   back, as long as no uncordon was pending when it was delivered. *)
THEOREM NodesStayDrained == Spec => []DrainedUntilApplied
<1>1. IInv => DrainedUntilApplied
  BY Zenon DEF IInv, DrainedForThePlan, DrainedUntilApplied
<1> QED
  BY InitIInv, NextIInv, <1>1, PTL DEF Spec

(* Planner.undrain: an uncordon request never stands without the drain options that the
   controller's unDrain parses. *)
THEOREM UnCordonsCanBeCarriedOut == Spec => []UnCordonHasOptions
<1>1. IInv => UnCordonHasOptions
  BY DEF IInv, RequestsHaveOptions, Carried, UnCordonHasOptions
<1> QED
  BY InitIInv, NextIInv, <1>1, PTL DEF Spec

-----------------------------------------------------------------------------
(* One set of drain options, with a pre-drain hook. *)

LEMMA InitHInv == Init => HInv
  BY DEF Init, HInv, HookOfThisDrain, CalledOff, AnswersAreFresh, DrainWaitsForHook, Carried,
         NoAnnotations

LEMMA QuietStepsHInv ==
    ASSUME IInv, HInv, NEW o, Options = {o},
           Load \/ PassInterrupted \/ CacheSync \/ AgentApplies \/ SpecChanges \/ Quieten
             \/ UNCHANGED vars
    PROVE  HInv'
<1> USE DEF IInv, HInv, HookOfThisDrain, CalledOff, AnswersAreFresh, DrainWaitsForHook, Carried,
            Draining, UnDraining, controllerVars, plannerVars
<1>1. CASE Load
  BY Zenon, <1>1 DEF Load, TypeOK
<1>2. CASE PassInterrupted
  BY Zenon, <1>2 DEF PassInterrupted
<1>3. CASE CacheSync
  BY Zenon, <1>3 DEF CacheSync, PassIsCurrent, RequestsHaveOptions
<1>4. CASE AgentApplies
  BY Zenon, <1>4 DEF AgentApplies
<1>5. CASE SpecChanges \/ Quieten \/ UNCHANGED vars
  BY Zenon, <1>5 DEF SpecChanges, Quieten, vars
<1> QED
  BY Zenon, <1>1, <1>2, <1>3, <1>4, <1>5

(* A write that finds no uncordon requested, and a write that keeps the request of a drain
   that is done or asks for one with the plan applied. *)
LEMMA WriteHInv ==
    ASSUME IInv, HInv, pass # None, pass' = None,
           NEW meta \in Annotations, ann' = CopyPlanMetadataToSecret(meta),
           meta.drainDone = pass.ann.drainDone,
           meta.preDrain = pass.ann.preDrain, meta.preHook = pass.ann.preHook,
           \/ pass.ann.unCordon = None /\ meta.unCordon = None
           \/ pass.ann.unCordon = None /\ meta.unCordon # None /\ plan' = applied
           \/ meta.unCordon # None /\ pass.ann.drainDone # None,
           UNCHANGED <<controllerVars, applied>>
    PROVE  HInv'
<1> USE DEF IInv, HInv, controllerVars
<1>1. /\ ann'.drainDone = IF meta.drainDone # None THEN meta.drainDone ELSE ann.drainDone
      /\ ann'.unCordon = IF meta.unCordon # None THEN meta.unCordon ELSE ann.unCordon
      /\ ann'.preDrain = IF meta.preDrain # None THEN meta.preDrain ELSE ann.preDrain
      /\ ann'.preHook = IF meta.preHook # None THEN meta.preHook ELSE ann.preHook
  BY CopyFields DEF TypeOK
<1>2. /\ pass.ann.unCordon = None => ann.unCordon = None
      /\ Carried = {ann, pass.ann} /\ Carried' = {ann'}
  BY Zenon DEF PassIsCurrent, Carried
<1>3. HookOfThisDrain'
  BY Zenon, <1>1, <1>2 DEF HookOfThisDrain
<1>4. CalledOff'
  BY Zenon, <1>1, <1>2 DEF HookOfThisDrain, CalledOff, UnDraining, Draining
<1>5. AnswersAreFresh' /\ DrainWaitsForHook'
  BY Zenon, <1>1, <1>2 DEF AnswersAreFresh, DrainWaitsForHook
<1> QED
  BY Zenon, <1>3, <1>4, <1>5

LEMMA ReconcileHInv ==
    ASSUME IInv, HInv, NEW o, Options = {o}, o \in PreHooked, reconcile
    PROVE  HInv'
<1>1. /\ pass # None /\ pass' = None /\ UNCHANGED applied
      /\ UNCHANGED <<cache, mpc, cordoned, drained, answered>> /\ UNCHANGED controllerVars
  BY Zenon DEF reconcile, controllerVars
<1>2. pass \in [want : Wants, plan : Stamps, applied : Stamps, ann : Annotations]
  BY Zenon, <1>1 DEF IInv, TypeOK
<1>3. /\ pass.want.options = o /\ o # None
      /\ pass.ann.drain \in {o, None} /\ pass.ann.unCordon \in {o, None}
  BY Zenon, <1>2, OptionsAssumption DEF Wants, Annotations, Values
<1>4. CASE UNCHANGED <<plan, ann, upgrade>>
  BY Zenon, <1>1, <1>4 DEF HInv, HookOfThisDrain, CalledOff, AnswersAreFresh, DrainWaitsForHook, Carried,
                    Draining, UnDraining
<1>5. CASE UpdatePlan /\ (~shouldDrain(pass.want.options) \/ pass.ann.drainDone = pass.want.options)
           /\ pass.plan # pass.want.stamp
  <2>1. pass.ann.drainDone # None \/ pass.applied # pass.plan
    BY Zenon, <1>3, <1>5 DEF shouldDrain
  <2>2. pass.ann.unCordon # None => pass.ann.drainDone # None
    BY Zenon, <1>1, <2>1 DEF HInv, CalledOff
  <2> QED
    BY Zenon, <1>1, <1>2, <1>5, <2>2, WriteHInv DEF UpdatePlan
<1>6. ASSUME pass.ann.drain # pass.want.options,
             updatePlanSecretLabelsAndAnnotations([pass.ann EXCEPT !.drain = pass.want.options])
      PROVE  HInv'
  <2> DEFINE meta == [pass.ann EXCEPT !.drain = pass.want.options]
  <2>1. /\ meta \in Annotations /\ meta.drainDone = pass.ann.drainDone
        /\ meta.unCordon = pass.ann.unCordon
        /\ meta.preDrain = pass.ann.preDrain /\ meta.preHook = pass.ann.preHook
    BY Zenon, <1>2 DEF Annotations, Values, Wants
  <2>2. pass.ann.unCordon = None
    BY <1>1, <1>3, <1>6 DEF IInv, RequestsHaveOptions, Carried
  <2>3. ann' = CopyPlanMetadataToSecret(meta)
    BY Zenon, <1>6 DEF updatePlanSecretLabelsAndAnnotations
  <2> HIDE DEF meta
  <2> QED
    BY Zenon, <1>1, <2>1, <2>2, <2>3, WriteHInv
<1>7. ASSUME pass.plan = pass.want.stamp, pass.applied = pass.plan,
             pass.ann.drain \notin {None, pass.ann.unCordon},
             updatePlanSecretLabelsAndAnnotations([pass.ann EXCEPT !.unCordon = pass.ann.drain])
      PROVE  HInv'
  <2> DEFINE meta == [pass.ann EXCEPT !.unCordon = pass.ann.drain]
  <2>1. /\ meta \in Annotations /\ meta.drainDone = pass.ann.drainDone
        /\ meta.unCordon # None /\ pass.ann.unCordon = None
        /\ meta.preDrain = pass.ann.preDrain /\ meta.preHook = pass.ann.preHook
    BY <1>2, <1>3, <1>7 DEF Annotations, Values
  <2>2. ann' = CopyPlanMetadataToSecret(meta) /\ plan' = applied
    BY Zenon, <1>1, <1>7 DEF updatePlanSecretLabelsAndAnnotations, IInv, PassIsCurrent
  <2> HIDE DEF meta
  <2> QED
    BY Zenon, <1>1, <2>1, <2>2, WriteHInv
<1> QED
  BY Zenon, <1>4, <1>5, <1>6, <1>7 DEF reconcile, drain, undrain

(* A step of the controller that leaves the uncordon request and the hook's answer alone,
   and neither takes the report of a drain away nor announces a hook outside a drain. *)
LEMMA SameHooksHInv ==
    ASSUME IInv, HInv, ann'.unCordon = ann.unCordon, ann'.preHook = ann.preHook,
           ann'.drainDone = ann.drainDone \/ ann'.drainDone # None,
           ann'.preDrain = ann.preDrain \/ Draining,
           UNCHANGED <<plannerVars, cache, answered>>, DrainWaitsForHook'
    PROVE  HInv'
<1> USE DEF IInv, HInv, plannerVars
<1>1. HookOfThisDrain'
  BY Zenon DEF HookOfThisDrain, Carried, RequestsSurvive, UnDraining
<1>2. CalledOff'
  BY Zenon DEF CalledOff, UnDraining, Draining
<1>3. AnswersAreFresh'
  BY Zenon DEF AnswersAreFresh
<1> QED
  BY Zenon, <1>1, <1>2, <1>3

(* The clean-up forgets the answer: nothing that can start a drain has one left. *)
LEMMA CleanHInv ==
    ASSUME IInv, HInv, NEW o, Options = {o}, o \in PreHooked,
           cleanSecretAnnotationsIfCheckTrue, answered' = FALSE, UNCHANGED <<plannerVars, cache>>
    PROVE  HInv'
<1> USE DEF IInv, HInv, plannerVars
<1>1. UnDraining /\ cache.unCordon # None /\ cache.drain = o /\ cache.drainDone = o /\ o # None
  BY Zenon, OptionsAssumption DEF cleanSecretAnnotationsIfCheckTrue, HandlerOnItsWay, UnDraining, Draining,
                           TypeOK, Annotations, Values
<1>2. pass # None /\ (pass.ann.preDrain # None \/ pass.ann.preHook # None) => pass.ann.unCordon # None
  BY Zenon, <1>1 DEF HookOfThisDrain, Carried
<1>3. CASE ann' = [ann EXCEPT !.drainError = None]
  <2>1. /\ ann'.unCordon = ann.unCordon /\ ann'.preHook = ann.preHook
        /\ ann'.drainDone = ann.drainDone /\ ann'.preDrain = ann.preDrain
    BY Zenon, <1>3 DEF TypeOK, Annotations
  <2>2. mpc' = "idle"
    BY Zenon DEF cleanSecretAnnotationsIfCheckTrue
  <2>3. HookOfThisDrain' /\ CalledOff' /\ DrainWaitsForHook'
    BY Zenon, <2>1, <2>2 DEF HookOfThisDrain, CalledOff, DrainWaitsForHook, Carried, UnDraining, Draining
  <2>4. ann.preHook # None => ann.unCordon # None /\ ann.drainDone # None
    BY Zenon, <1>1 DEF HookOfThisDrain, CalledOff, Carried
  <2>5. AnswersAreFresh'
    BY Zenon, <1>1, <1>2, <2>1, <2>4 DEF AnswersAreFresh
  <2> QED
    BY Zenon, <2>3, <2>5
<1>4. CASE \E q : ann' = [NoAnnotations EXCEPT !.drainError = ann.drainError,
                                              !.preHook = None, !.postHook = q]
  <2>1. ann'.unCordon = None /\ ann'.preHook = None /\ ann'.preDrain = None
    BY Zenon, <1>4 DEF NoAnnotations
  <2>2. HookOfThisDrain' /\ CalledOff' /\ DrainWaitsForHook'
    BY Zenon, <1>1, <1>2, <2>1 DEF HookOfThisDrain, CalledOff, DrainWaitsForHook, Carried,
                            cleanSecretAnnotationsIfCheckTrue
  <2>3. AnswersAreFresh'
    BY Zenon, <1>1, <1>2, <2>1 DEF AnswersAreFresh
  <2> QED
    BY Zenon, <2>2, <2>3
<1> QED
  BY Zenon, <1>1, <1>3, <1>4 DEF cleanSecretAnnotationsIfCheckTrue

LEMMA ControllerHInv ==
    ASSUME IInv, HInv, NEW d, Options = {d}, d \in PreHooked,
           OnChange \/ OnChangeFails \/ HookAnswers
    PROVE  HInv'
<1>0. /\ ann \in Annotations /\ cache \in Annotations /\ cache.drain \in {d, None} /\ d # None
      /\ cache.drainDone \in {d, None}
  BY Zenon, OptionsAssumption DEF IInv, TypeOK, Annotations, Values
<1>1. ASSUME mpc = "idle", UNCHANGED <<plannerVars, cache, answered, mpc>>,
             \/ clearDrainError
             \/ ann' = updateSecretAnnotationIfCheckTrue("postDrain", cache.drain, TRUE)
             \/ Draining /\ ann' = updateSecretAnnotationIfCheckTrue("preDrain", cache.drain, TRUE)
      PROVE  HInv'
  <2>1. /\ ann'.unCordon = ann.unCordon /\ ann'.preHook = ann.preHook
        /\ ann'.drainDone = ann.drainDone
        /\ ann'.preDrain = ann.preDrain \/ Draining
    BY Zenon, <1>0, <1>1 DEF clearDrainError, updateSecretAnnotationIfCheckTrue, Annotations
  <2> QED
    BY Zenon, <1>1, <2>1, SameHooksHInv DEF DrainWaitsForHook
<1>2. CASE mpc = "idle" /\ Idle /\ UNCHANGED <<plannerVars, cache, answered>>
  BY Zenon, <1>1, <1>2 DEF Idle
<1>3. CASE mpc = "idle" /\ cordon /\ UNCHANGED <<plannerVars, cache, answered>>
  <2>1. CASE mpc' = "drain" /\ UNCHANGED ann
             /\ (cache.drain \in PreHooked => cache.preHook = cache.drain)
    <3>1. cache.preHook # None /\ cache.drainDone = None
      BY Zenon, <1>0, <1>3, <2>1 DEF cordon, Draining
    <3>2. DrainWaitsForHook'
      BY Zenon, <1>3, <3>1 DEF HInv, AnswersAreFresh, DrainWaitsForHook
    <3> QED
      BY Zenon, <1>3, <2>1, <3>2, SameHooksHInv
  <2> QED
    BY Zenon, <1>1, <1>3, <2>1 DEF cordon
<1>4. CASE mpc = "idle" /\ unDrain /\ UNCHANGED <<plannerVars, cache, answered>>
  <2>1. CASE mpc' = "clean" /\ UNCHANGED ann
    BY Zenon, <1>4, <2>1, SameHooksHInv DEF DrainWaitsForHook
  <2> QED
    BY Zenon, <1>1, <1>4, <2>1 DEF unDrain
<1>5. CASE performDrain /\ UNCHANGED <<plannerVars, cache, answered>>
  <2>1. cache.drain # None
    BY Zenon, <1>5 DEF performDrain, IInv, HandlerOnItsWay, Draining
  <2>2. /\ ann'.unCordon = ann.unCordon /\ ann'.preHook = ann.preHook /\ ann'.preDrain = ann.preDrain
        /\ ann'.drainDone = ann.drainDone \/ ann'.drainDone # None
    BY Zenon, <1>0, <1>5, <2>1 DEF performDrain, updateSecretAnnotationIfCheckTrue, Annotations
  <2>3. DrainWaitsForHook'
    BY Zenon, <1>5 DEF performDrain, DrainWaitsForHook
  <2> QED
    BY Zenon, <1>5, <2>2, <2>3, SameHooksHInv
<1>6. CASE OnChangeFails
  <2>1. /\ ann'.unCordon = ann.unCordon /\ ann'.preHook = ann.preHook /\ ann'.preDrain = ann.preDrain
        /\ ann'.drainDone = ann.drainDone
    BY Zenon, <1>0, <1>6 DEF OnChangeFails, recordDrainError, Annotations
  <2> QED
    BY Zenon, <1>6, <2>1, SameHooksHInv DEF OnChangeFails, DrainWaitsForHook
<1>7. CASE HookAnswers /\ ann' = [ann EXCEPT !.postHook = ann.postDrain] /\ UNCHANGED answered
  <2>1. /\ ann'.unCordon = ann.unCordon /\ ann'.preHook = ann.preHook /\ ann'.preDrain = ann.preDrain
        /\ ann'.drainDone = ann.drainDone
    BY Zenon, <1>0, <1>7 DEF Annotations
  <2> QED
    BY Zenon, <1>7, <2>1, SameHooksHInv DEF HookAnswers, HInv, DrainWaitsForHook
<1>8. CASE HookAnswers /\ ann' = [ann EXCEPT !.preHook = ann.preDrain] /\ answered' = TRUE
           /\ ann.preDrain # None
  <2>1. /\ ann'.unCordon = ann.unCordon /\ ann'.preDrain = ann.preDrain
        /\ ann'.drainDone = ann.drainDone
    BY Zenon, <1>0, <1>8 DEF Annotations
  <2> QED
    BY Zenon, <1>8, <2>1 DEF HookAnswers, plannerVars, HInv, HookOfThisDrain, CalledOff, AnswersAreFresh,
                      DrainWaitsForHook, Carried, UnDraining, Draining
<1> QED
  BY Zenon, <1>2, <1>3, <1>4, <1>5, <1>6, <1>7, <1>8, CleanHInv DEF OnChange, HookAnswers

(* The machine-drain controller's drain, for drain options that stay: it evicts the pods only
   after the owner of the pre-drain hook has answered for this drain.  (When the options
   change the code does not keep this: see DrainWaitsForHook.) *)
THEOREM DrainsWaitForTheirHook ==
    ASSUME NEW CONSTANT o, Options = {o}
    PROVE  Spec => []DrainWaitsForHook
<1>1. CASE o \in PreHooked
  <2>1. IInv /\ HInv /\ [Next]_vars => IInv' /\ HInv'
    BY Zenon, <1>1, NextIInv, QuietStepsHInv, ReconcileHInv, ControllerHInv DEF Next
  <2>2. HInv => DrainWaitsForHook
    BY Zenon DEF HInv
  <2> QED
    BY InitIInv, InitHInv, <2>1, <2>2, PTL DEF Spec
<1>2. CASE o \notin PreHooked
  <2>1. IInv => DrainWaitsForHook
    BY Zenon, <1>2, OptionsAssumption DEF DrainWaitsForHook
  <2> QED
    BY InitIInv, NextIInv, <2>1, PTL DEF Spec
<1> QED
  BY Zenon, <1>1, <1>2
=============================================================================
