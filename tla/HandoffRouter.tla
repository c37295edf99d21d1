--------------------------- MODULE HandoffRouter ---------------------------
(***************************************************************************)
(* HandoffRouter._resolve over a team registry.  A registry is a record of *)
(* the members, the edges in file order and the manager.  What a `when:`   *)
(* condition computes from a payload is given by the set of tasks it is    *)
(* true of: an expression that raises is true of none, as the evaluator    *)
(* fails closed.                                                           *)
(***************************************************************************)
EXTENDS Integers, Sequences

CONSTANTS Agents,     \* names: members, and names that are not members
          Tasks,      \* what a delegation asks for, as far as edges tell
          None        \* no manager; a route that raises

AutoTarget == "auto"

Edge == [from : Agents, to : Agents, auto : BOOLEAN, when : SUBSET Tasks]

Registry == [members : SUBSET Agents, edges : Seq(Edge),
             manager : Agents \cup {None}]

\* The edge takes a handoff of sender with this task.
Matches(edge, sender, task) ==
  edge.from = sender /\ (edge.auto \/ task \in edge.when)

Matching(reg, sender, task) ==
  {i \in DOMAIN reg.edges : Matches(reg.edges[i], sender, task)}

First(S) == CHOOSE i \in S : \A j \in S : i <= j

\* The agent a handoff goes to, or None where the code raises ValueError.
\* The target of an edge is not looked up in the members.
Resolve(reg, sender, to, task) ==
  IF to # AutoTarget
    THEN IF to \in reg.members THEN to ELSE None
    ELSE LET hits == Matching(reg, sender, task)
         IN  IF hits # {} THEN reg.edges[First(hits)].to ELSE reg.manager

\* The outcome route() writes to handoff_audit.
Outcomes == {"routed", "unknown_target", "no_match"}

RouteOutcome(reg, sender, to, task) ==
  IF Resolve(reg, sender, to, task) # None THEN "routed"
  ELSE IF to # AutoTarget THEN "unknown_target" ELSE "no_match"
=============================================================================
