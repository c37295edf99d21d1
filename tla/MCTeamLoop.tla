----------------------------- MODULE MCTeamLoop -----------------------------
(* Instances of TeamLoop for TLC. *)
EXTENDS TeamLoopRefinement

CONSTANTS ana, pm, ext, ghost   \* agents; ghost is no member of the team

MCAgents == {ana, pm, ext, ghost}
MCTasks == {"plan", "other"}

\* pm has an edge for one task and, behind it, an automatic one to a name
\* that has no configuration; ana has none and goes to the manager.
MCTeam ==
  [members |-> {ana, pm, ext}, manager |-> pm,
   edges |-> <<[from |-> pm, to |-> ana, auto |-> FALSE, when |-> {"plan"}],
               [from |-> pm, to |-> ghost, auto |-> TRUE, when |-> {}]>>]

MCTools == {"web_fetch", "wiki_read", "send_mail", "frobnicate"}
MCDeclared ==
  [t \in MCTools |-> IF t = "web_fetch" THEN "untrusted_read"
                     ELSE IF t = "send_mail" THEN Misspelt ELSE Undeclared]
MCHeuristic ==
  [t \in MCTools |-> CASE t = "web_fetch" -> "untrusted_read"
                       [] t = "wiki_read" -> "private_read"
                       [] t = "send_mail" -> "external_write"
                       [] OTHER -> Undeclared]

ToolCalls == [kind : {"tool"}, tool : MCTools]
To(agent, task, returnOn) ==
  [kind |-> "delegate", to |-> agent, task |-> task, returnOn |-> returnOn]

\* Every kind of call.
MCCalls ==
  ToolCalls \cup BadDelegateCall
    \cup {To(ana, "other", FALSE), To(ghost, "other", FALSE),
          To(AutoTarget, "plan", FALSE), To(AutoTarget, "other", FALSE)}
=============================================================================
