------------------------------- MODULE Studio -------------------------------
(***************************************************************************)
(* The folder of one agent as Conexus Studio works on it: scaffolded from  *)
(* a template, saved from a form, given connectors, and deleted.  The      *)
(* handlers do not await between file operations, so one runs at a time;   *)
(* but an operation may fail and end its handler, the process may die, and *)
(* the agent may be started by another process from the folder as it is    *)
(* between two operations.                                                 *)
(*                                                                         *)
(* A handler is the sequence of the operations it has left.  SKILL.md is   *)
(* replaced as a whole; write_text empties a file before it fills it.      *)
(***************************************************************************)
EXTENDS Integers, Sequences

CONSTANTS
  Connectors,
  TemplateConnector, TemplateVersion, \* the connector one template comes with
  Versions,    \* versions of a connector in the registry
  MaxEdits     \* bound: texts of SKILL.md

ASSUME StudioAssumption ==
         /\ TemplateConnector \in Connectors /\ TemplateVersion \in Versions
         /\ Versions \subseteq Nat /\ MaxEdits \in Nat

VARIABLES
  there,       \* the folder exists
  file,        \* the state of the other files of the folder
  skill,       \* SKILL.md
  tmp,         \* temporary files: that of the handler, and those a dead process left
  todo,        \* the operations that the running handler has left
  registry,    \* connector -> its version in the registry
  edits,       \* texts of SKILL.md so far
  deleting,    \* history: a delete of this folder has begun
  reinstalling \* history: connectors with a ref whose files are being rewritten

disk == <<there, file, skill, tmp>>
history == <<deleting, reinstalling>>
vars == <<disk, todo, registry, edits, history>>

Tools == <<"tools.py">>
Pack(c) == <<c, "SKILL_PACK.md">>
Descriptor(c) == <<c, "connector.json">>
Files == {Tools} \cup {Pack(c) : c \in Connectors} \cup {Descriptor(c) : c \in Connectors}

\* text: which edit the form's fields are from; dashes: "---" is in one of them, as role,
\* goal, the model or a tool; identity, refs: the keys the form does not have.
NoSkill == [text |-> 0, dashes |-> FALSE, identity |-> FALSE, refs |-> {}]
Listed == skill # NoSkill
HasRef(c) == \E v \in Versions : <<c, v>> \in skill.refs

Init ==
  /\ there = FALSE /\ file = [f \in Files |-> "none"] /\ skill = NoSkill /\ tmp = {}
  /\ todo = <<>> /\ registry \in [Connectors -> Versions]
  /\ edits = 0 /\ deleting = FALSE /\ reinstalling = {}

-----------------------------------------------------------------------------
(* Operations *)

Writes(f) == <<[op |-> "empty", file |-> f], [op |-> "fill", file |-> f]>>
WritesPack(c) == Writes(Pack(c)) \o Writes(Descriptor(c))

\* write_skill_md
Replaces(s) == <<[op |-> "tmp"], [op |-> "replace", skill |-> s]>>

Begins(ops) == todo = <<>> /\ todo' = ops
Does(op) == todo # <<>> /\ Head(todo).op = op /\ todo' = Tail(todo)

\* A whole pack: the reinstallation is over.
Rewritten(f) == {c \in reinstalling : f = Descriptor(c)}

WriteFile(op, state) ==
  /\ Does(op)
  /\ file' = [file EXCEPT ![Head(todo).file] = state]
  /\ reinstalling' = reinstalling \ (IF state = "whole" THEN Rewritten(Head(todo).file) ELSE {})
  /\ UNCHANGED <<there, skill, tmp, registry, edits, deleting>>

Empty == WriteFile("empty", "torn")
Fill == WriteFile("fill", "whole")

Tmp ==
  /\ Does("tmp") /\ tmp' = tmp \cup {"own"}
  /\ UNCHANGED <<there, file, skill, registry, edits, history>>

Replace ==
  /\ Does("replace") /\ skill' = Head(todo).skill /\ tmp' = tmp \ {"own"}
  /\ UNCHANGED <<there, file, registry, edits, history>>

NothingThere == ~Listed /\ tmp = {} /\ \A f \in Files : file[f] = "none"

\* rmtree: the files in any order, then the folder.
RemoveNext ==
  /\ todo # <<>> /\ Head(todo).op = "remove"
  /\ \/ \E f \in Files : /\ file[f] # "none" /\ file' = [file EXCEPT ![f] = "none"]
                         /\ UNCHANGED <<there, skill, tmp, todo, history>>
     \/ /\ Listed /\ skill' = NoSkill
        /\ UNCHANGED <<there, file, tmp, todo, history>>
     \/ /\ tmp # {} /\ tmp' = {}
        /\ UNCHANGED <<there, file, skill, todo, history>>
     \/ /\ NothingThere
        /\ there' = FALSE /\ todo' = <<>> /\ deleting' = FALSE /\ reinstalling' = {}
        /\ UNCHANGED <<file, skill, tmp>>
  /\ UNCHANGED <<registry, edits>>

\* An operation raises; a temporary file is removed.
Raises ==
  /\ todo # <<>> /\ todo' = <<>>
  /\ tmp' = tmp \ {"own"}
  /\ UNCHANGED <<there, file, skill, registry, edits, history>>

\* The process dies, and the Studio is started again.
Crash ==
  /\ todo' = <<>> /\ tmp' = IF tmp = {} THEN {} ELSE {"left"}
  /\ UNCHANGED <<there, file, skill, registry, edits, history>>

-----------------------------------------------------------------------------
(* Handlers *)

NewText == edits < MaxEdits /\ edits' = edits + 1

\* Bug: SKILL.md comes first.
ScaffoldsListedFirst(pack, s) ==
  Replaces(s) \o Writes(Tools) \o (IF pack THEN WritesPack(TemplateConnector) ELSE <<>>)

Scaffolds(pack, s) ==
  Writes(Tools) \o (IF pack THEN WritesPack(TemplateConnector) ELSE <<>>) \o Replaces(s)

\* scaffold_agent: one template has an identity, and one of those a connector.
Create ==
  /\ ~there /\ NewText
  /\ \E identity, pack \in BOOLEAN :
       /\ pack => identity
       /\ LET refs == IF pack THEN {<<TemplateConnector, TemplateVersion>>} ELSE {}
              s == [NoSkill EXCEPT !.text = edits', !.identity = identity, !.refs = refs]
          IN  Begins(Scaffolds(pack, s))
  /\ there' = TRUE
  /\ UNCHANGED <<file, skill, tmp, registry, history>>

\* Bug: the form has all there is to a SKILL.md.
KeptNothing == NoSkill

\* What save keeps of the text it finds: the keys up to the second "---".
Kept == IF skill.dashes THEN NoSkill ELSE skill

\* A form may be older than the text it is saved over.  Where "---" cuts a quoted
\* value, save raises before it writes.
Save ==
  /\ Listed /\ NewText
  /\ \E dashes \in BOOLEAN :
       Begins(Replaces([Kept EXCEPT !.text = edits', !.dashes = dashes]))
  /\ UNCHANGED <<disk, registry, history>>

Installs(c, s) == WritesPack(c) \o (IF s = skill THEN <<>> ELSE Replaces(s))

\* install_connector
Install(c) ==
  /\ Listed
  /\ Begins(Installs(c, [skill EXCEPT !.refs = @ \cup {<<c, registry[c]>>}]))
  /\ reinstalling' = IF HasRef(c) THEN reinstalling \cup {c} ELSE reinstalling
  /\ UNCHANGED <<disk, registry, edits, deleting>>

Delete ==
  /\ there /\ Begins(<<[op |-> "remove"]>>) /\ deleting' = TRUE
  /\ UNCHANGED <<disk, registry, edits, reinstalling>>

Upgrade(c) ==
  /\ registry[c] + 1 \in Versions /\ registry' = [registry EXCEPT ![c] = @ + 1]
  /\ UNCHANGED <<disk, todo, edits, history>>

-----------------------------------------------------------------------------

\* Whatever happens while the Studio runs.
Works ==
  \/ Empty \/ Fill \/ Tmp \/ Replace \/ RemoveNext \/ Raises
  \/ Create \/ Save \/ Delete
  \/ \E c \in Connectors : Install(c) \/ Upgrade(c)

Next == Works \/ Crash

Spec == Init /\ [][Next]_vars

-----------------------------------------------------------------------------
(* Properties *)

\* An agent that has a SKILL.md, and so is listed and can be started, has its
\* tools and the packs of all its refs, at every moment and wherever a handler
\* breaks off or the Studio dies; but for a folder being deleted, and a connector
\* with a ref that is being installed again.
ListedIsWhole ==
  Listed /\ ~deleting =>
    /\ file[Tools] = "whole"
    /\ \A c \in Connectors \ reinstalling :
         HasRef(c) => file[Pack(c)] = "whole" /\ file[Descriptor(c)] = "whole"

\* A connector that was installed, and an identity, stay in SKILL.md: also when a
\* form opened before the installation is saved after it.  They go with the
\* folder, or with a field of the form that has "---" in it.
KeysKept ==
  [][ skill' # skill =>
        \/ skill.dashes \/ deleting
        \/ skill.refs \subseteq skill'.refs /\ (skill.identity => skill'.identity) ]_vars
=============================================================================
