--------------------------- MODULE TrifectaGuard ---------------------------
(***************************************************************************)
(* The deterministic taint tracker of core/trifecta: the classes a tool    *)
(* call may carry, how the class of a tool is found, and the rule that     *)
(* refuses an external write once the turn has read both untrusted and     *)
(* private data.  A guard is one set, its taint; the modules that own      *)
(* guards keep that set in their state and use the operators below.        *)
(***************************************************************************)

CONSTANTS Tools,      \* names the LLM may put in a tool call
          Declared,   \* tool -> the tag string of tool_tags, or Undeclared
          Heuristic   \* tool -> what the name patterns of tags.py answer

DataClass == {"untrusted_read", "private_read", "external_write", "safe"}

\* No class: no entry in tool_tags, or no pattern matches the name.
Undeclared == "undeclared"

\* A tag string of tool_tags that is not one of the four classes.
Misspelt == "misspelt"

ASSUME GuardAssumption ==
         /\ Declared \in [Tools -> DataClass \cup {Undeclared, Misspelt}]
         /\ Heuristic \in [Tools -> DataClass \cup {Undeclared}]

\* The constructor drops misspelt entries, so the lookup of such a tool falls
\* through to the name patterns, as that of an undeclared one does.
TagOf(tool) ==
  IF Declared[tool] \in DataClass THEN Declared[tool] ELSE Heuristic[tool]

\* The taint from which a write could leak: untrusted input may steer it and
\* private data may be in it.
Exfil(taint) == {"untrusted_read", "private_read"} \subseteq taint

\* Bug: only the declared class is looked at.
RefusesDeclared(taint, cleared, tool) ==
  \/ TagOf(tool) = Undeclared
  \/ Declared[tool] = "external_write" /\ ~cleared /\ Exfil(taint)

\* check_and_record raises, and records nothing.  cleared: an operator gave a
\* reason for lifting the boundary (clear_boundary, or a handoff that has one).
Refuses(taint, cleared, tool) ==
  \/ TagOf(tool) = Undeclared
  \/ TagOf(tool) = "external_write" /\ ~cleared /\ Exfil(taint)

\* check_and_record returns: the taint after it.
Recorded(taint, tool) == taint \cup {TagOf(tool)}
=============================================================================
