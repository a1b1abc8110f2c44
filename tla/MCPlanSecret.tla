---------------------------- MODULE MCPlanSecret ----------------------------
(* Model values and limits for checking PlanSecret. *)
EXTENDS PlanSecret

(* The attempts of a one-time operation, more than one.  Those of certificate rotation, 0 and
   0, are to agent and planner what -1 and 1, the limits of the roll-out, are. *)
OneLimit == {<<2, 2>>}
=============================================================================
