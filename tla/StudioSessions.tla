--------------------------- MODULE StudioSessions ---------------------------
(***************************************************************************)
(* The folder of Studio together with those that run the agent in it: the  *)
(* test sessions that the Studio keeps, and `conexus run-agent`, a process *)
(* of its own that reads the folder in three steps.                        *)
(*                                                                         *)
(* A runtime is built from the object that create_cli_tools of tools.py    *)
(* returns and the tools that SKILL.md lists; save asks validate_agent     *)
(* whether that will go well, but after it has written.  The two, and the  *)
(* registry that calls the tools, look at three different things.          *)
(*                                                                         *)
(* A tools.py, which is edited by hand, is a record:                       *)
(*   scanned    the public methods of its first class, as validate_agent   *)
(*              reads them in the source;                                  *)
(*   makes      create_cli_tools returns, and does not raise;              *)
(*   described  the attributes of the class of the object it returns that  *)
(*              have a signature and annotations that can be evaluated;    *)
(*   callable   the public callables of that object.                       *)
(***************************************************************************)
EXTENDS Studio

CONSTANTS
  Sids,           \* browsers
  Modules,        \* what tools.py may be
  Scaffolded,     \* the tools.py of a template
  IdentityTools,  \* the public methods of IdentityTools
  Forms           \* the tools that a form may list

\* validate_agent looks for public names only.  Where a class has a signature for such
\* a name, its objects can be called by it.
Looked == IdentityTools \cup UNION {m.scanned : m \in Modules}

ASSUME SessionsAssumption ==
         /\ Scaffolded \in Modules
         /\ \A m \in Modules : m.described \cap Looked \subseteq m.callable

VARIABLES
  listed,      \* text of SKILL.md, the present or the next -> the tools it lists
  code,        \* tools.py, when it is whole
  saved,       \* history: save answered "saved" for the folder as it is
  session,     \* browser -> the session it has in _SESSIONS
  cli          \* a run of `conexus run-agent`

runners == <<session, cli>>
sessionVars == <<vars, listed, code, saved, runners>>

\* What a runner was built with: the tools.py of its object, the tools it has schemas
\* for, and the tools of its registry's second backend; valid is history: whether save
\* had answered "saved".
NoRunner == [at |-> "none"]

SInit ==
  /\ Init
  /\ listed = [t \in 1..MaxEdits |-> {}] /\ code = Scaffolded /\ saved = FALSE
  /\ session = [s \in Sids |-> NoRunner] /\ cli = NoRunner

-----------------------------------------------------------------------------
(* What the text lists, and what is there *)

\* Bug: the tools are only looked up when there is no identity.
ValidWithIdentity ==
  /\ Listed /\ file[Tools] = "whole"
  /\ skill.identity \/ listed[skill.text] \subseteq code.scanned

\* Bug: the class is asked, as generate_tool_schemas does.
ValidByAttribute ==
  /\ Listed /\ file[Tools] = "whole"
  /\ listed[skill.text] \subseteq
       code.described \cup (IF skill.identity THEN IdentityTools ELSE {})

\* validate_agent.  Its smoke test imports tools.py and calls nothing.
Valid ==
  /\ Listed /\ file[Tools] = "whole"
  /\ listed[skill.text] \subseteq
       code.scanned \cup (IF skill.identity THEN IdentityTools ELSE {})

\* build_runtime with the object of a tools.py: its class has every tool listed.
Builds(c) == Listed /\ c.makes /\ listed[skill.text] \subseteq c.described

Runner(c, second) ==
  [at |-> "runs", code |-> c, schemas |-> listed[skill.text],
   second |-> IF second /\ skill.identity THEN IdentityTools ELSE {}, valid |-> saved]

\* A handler of the Studio goes on.  Where it replaces a text by one from the form,
\* it validates the agent and answers.
FolderStep ==
  /\ Works
  /\ \/ edits' = edits /\ UNCHANGED listed
     \/ /\ edits' # edits
        /\ \E names \in IF there THEN Forms ELSE {Scaffolded.scanned} :
             listed' = [t \in 1..MaxEdits |-> CASE t = edits' -> names
                                               [] t = skill.text -> listed[t]
                                               [] OTHER -> {}]
  /\ code' = IF file'[Tools] = "whole" /\ file[Tools] # "whole" THEN Scaffolded ELSE code
  /\ saved' = IF skill'.text # skill.text THEN Listed /\ Valid' ELSE saved /\ file'[Tools] = "whole"
  /\ UNCHANGED runners

EditTools ==
  /\ file[Tools] = "whole" /\ code' \in Modules \ {code} /\ saved' = FALSE
  /\ UNCHANGED <<vars, listed, runners>>

-----------------------------------------------------------------------------
(* The sessions of the Studio *)

\* Bound: runners write nothing that another reads, so there is one at a time.
Alone(r) == \A other \in {session[s] : s \in Sids} \cup {cli} : other \in {r, NoRunner}

\* run_one_message: the session is built once, with one backend.
SessionOf(s) ==
  IF session[s] = NoRunner /\ file[Tools] = "whole" /\ Builds(code)
    THEN Runner(code, FALSE) ELSE session[s]

Test(s) ==
  /\ todo = <<>> /\ Alone(session[s])
  /\ session' = [session EXCEPT ![s] = SessionOf(s)]
  /\ UNCHANGED <<vars, listed, code, saved, cli>>

\* reset_session
Reset(s) ==
  /\ todo = <<>> /\ session' = [session EXCEPT ![s] = NoRunner]
  /\ UNCHANGED <<vars, listed, code, saved, cli>>

StudioCrash ==
  /\ Crash /\ session' = [s \in Sids |-> NoRunner]
  /\ UNCHANGED <<listed, code, saved, cli>>

-----------------------------------------------------------------------------
(* conexus run-agent *)

CliStep(from, to) ==
  /\ cli.at = from /\ cli' = to
  /\ UNCHANGED <<vars, listed, code, saved, session>>

\* _make_tools
CliImports ==
  /\ Listed /\ file[Tools] = "whole" /\ code.makes /\ Alone(cli)
  /\ CliStep("none", [at |-> "imported", code |-> code])

\* _run_loop reads the prompt from the text.
CliReads ==
  CliStep("imported", IF Listed THEN [cli EXCEPT !.at = "read"] ELSE NoRunner)

\* build_runtime reads the text once more; an identity's tools are a second backend.
CliBuilds ==
  /\ cli.at = "read"
  /\ CliStep("read", IF Builds(cli.code) THEN Runner(cli.code, TRUE)
                     ELSE NoRunner)

CliEnds == CliStep("runs", NoRunner)

-----------------------------------------------------------------------------

SNext ==
  \/ FolderStep \/ EditTools \/ StudioCrash
  \/ CliImports \/ CliReads \/ CliBuilds \/ CliEnds
  \/ \E s \in Sids : Test(s) \/ Reset(s)

SSpec == SInit /\ [][SNext]_sessionVars

-----------------------------------------------------------------------------
(* Properties *)

Runs == {r \in {session[s] : s \in Sids} \cup {cli} : r.at = "runs"}

\* A tool that a session or a run offers the LLM is found in its registry when save
\* had answered "saved" before it was built, however the agent and tools.py have been
\* edited, deleted or made anew meanwhile and since.  Without that answer a session may
\* offer what its registry refuses, such as a private method: save writes before it
\* validates, and the builder takes any attribute.  In a run, a tool of an identity
\* that tools.py defines too is found twice, and refused.
ValidatedToolsServed ==
  \A r \in Runs : r.valid =>
    \A t \in r.schemas : t \in r.code.callable /\ (t \in r.second => r = cli)

\* What validate_agent reads of tools.py is what create_cli_tools returns: false when
\* tools.py has another class first, annotations that cannot be evaluated, or a
\* create_cli_tools that raises.
ReadAsBuilt == code.makes /\ code.scanned \subseteq code.described

\* An agent saved without an error can be tested and run, as long as tools.py is
\* not edited: also when connectors are installed, or a form is saved over it that
\* fails.  But not where tools.py is not as it was read, or where SKILL.md lists a tool
\* of its identity that tools.py does not define: validation lets both through.
SavedStarts ==
  saved /\ ReadAsBuilt => \/ Builds(code)
                          \/ skill.identity /\ listed[skill.text] \cap IdentityTools # {}

\* The tutorial on agents (docs/wiki/agents-framework/16-tutorial-create-agent.md:127)
\* says that an agent with an identity gains its tools automatically, with no changes
\* to tools.py, once they are listed (146).  Then what is saved without an error starts, with a
\* tools.py that is as it was read.
IdentityToolsNeedNoChanges == saved /\ ReadAsBuilt => Builds(code)
=============================================================================
