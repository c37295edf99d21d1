-------------------------- MODULE MCStudioSessions --------------------------
(***************************************************************************)
(* Instances of StudioSessions: what a tools.py may be.                    *)
(***************************************************************************)
EXTENDS StudioSessions

CONSTANTS ping, memory_set, private

Class(names) == [scanned |-> names, makes |-> TRUE, described |-> names, callable |-> names]

MCScaffolded == Class({ping})
MCIdentityTools == {memory_set}
MCForms == {{ping}, {memory_set}, {private}}

\* A class of its own for a tool of an identity, a private method beside ping, the
\* class of the tools after another one, annotations that cannot be evaluated, and a
\* create_cli_tools that raises.
MCModules ==
  {MCScaffolded, Class({memory_set}),
   [MCScaffolded EXCEPT !.described = {ping, private}],
   [MCScaffolded EXCEPT !.scanned = {memory_set}],
   [MCScaffolded EXCEPT !.described = {}],
   [MCScaffolded EXCEPT !.makes = FALSE]}

PlainModules == {MCScaffolded, Class({memory_set})}
=============================================================================
