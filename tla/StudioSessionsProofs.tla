------------------------ MODULE StudioSessionsProofs ------------------------
(***************************************************************************)
(* Theorems about the folder of an agent, its sessions and its runs, for   *)
(* any connectors, versions, texts and tools, and wherever an operation    *)
(* raises or the Studio dies.                                              *)
(***************************************************************************)
EXTENDS StudioSessions, SequenceTheorems, TLAPS

USE StudioAssumption

Skills == [text : 0..MaxEdits, dashes : BOOLEAN, identity : BOOLEAN,
           refs : SUBSET (Connectors \X Versions)]
Operations ==
  [op : {"empty", "fill"}, file : Files] \cup [op : {"tmp", "remove"}]
    \cup [op : {"replace"}, skill : Skills]

TypesOK ==
  /\ there \in BOOLEAN
  /\ file \in [Files -> {"none", "torn", "whole"}]
  /\ skill \in Skills
  /\ todo \in Seq(Operations)
  /\ registry \in [Connectors -> Versions]
  /\ edits \in 0..MaxEdits
  /\ deleting \in BOOLEAN
  /\ reinstalling \subseteq Connectors

\* An operation writes a file, or fills it; a handler fills it.
Writing(o, f) == o.op \in {"empty", "fill"} /\ o.file = f
Filling(o, f) == o.op = "fill" /\ o.file = f
Fills(ops, f) == \E i \in DOMAIN ops : Filling(ops[i], f)

\* A handler writes in order: a file is filled after it is emptied, a pack before its
\* descriptor, and SKILL.md last.
Ordered(ops) ==
  \A i \in DOMAIN ops :
    /\ ops[i].op = "empty" =>
         \E k \in DOMAIN ops : k > i /\ Filling(ops[k], ops[i].file)
    /\ \A c \in Connectors : Writing(ops[i], Descriptor(c)) =>
         \A k \in DOMAIN ops : k >= i => ~Writing(ops[k], Pack(c))
    /\ \A c \in Connectors : Filling(ops[i], Descriptor(c)) =>
         \A k \in DOMAIN ops : k > i => ~Writing(ops[k], Descriptor(c))
    /\ ops[i].op \in {"replace", "remove"} => i = Len(ops)

\* The files that the handler writes are those that no SKILL.md needs yet, or those of
\* a connector that is being installed again.
Spares(o) ==
  /\ Writing(o, Tools) => ~Listed
  /\ \A c \in Connectors :
       Writing(o, Pack(c)) \/ Writing(o, Descriptor(c)) => c \in reinstalling \/ ~HasRef(c)
  /\ o.op = "remove" => deleting
HandlerInv ==
  /\ Ordered(todo)
  /\ \A i \in DOMAIN todo : Spares(todo[i])
  /\ ~there => todo = <<>> /\ ~Listed

\* What a SKILL.md will refer to once it is replaced is there, or to be filled before.
Refers(s, c) == \E v \in Versions : <<c, v>> \in s.refs
Comes(f) == file[f] = "whole" \/ Fills(todo, f)
Promises(s) ==
  /\ Comes(Tools)
  /\ \A c \in Connectors \ reinstalling :
       Refers(s, c) => Comes(Pack(c)) /\ Comes(Descriptor(c))
PromiseInv ==
  /\ \A c \in Connectors : Fills(todo, Descriptor(c)) => Comes(Pack(c))
  /\ ~deleting => \A i \in DOMAIN todo : todo[i].op = "replace" => Promises(todo[i].skill)

\* The next SKILL.md has the keys of the present one that no form has.
Keeps(s) ==
  /\ s.text \in 1..edits
  /\ \/ skill.dashes \/ deleting
     \/ skill.refs \subseteq s.refs /\ (skill.identity => s.identity)
  /\ s.text = skill.text => s.identity = skill.identity
KeysInv ==
  /\ skill.text <= edits
  /\ skill.text = 0 => skill = NoSkill
  /\ \A i \in DOMAIN todo : todo[i].op = "replace" => Keeps(todo[i].skill)

FolderInv == TypesOK /\ HandlerInv /\ PromiseInv /\ KeysInv /\ ListedIsWhole

\* A folder for which save answered "saved" would be validated again.
SavedInv == saved => Valid

\* Who runs was built from one tools.py, and when save had answered "saved" with nothing
\* but names that validate_agent looks for; a session has one backend.
Built(r) ==
  /\ r.code \in Modules /\ r.schemas \subseteq r.code.described
  /\ r.valid => r.schemas \subseteq Looked
RunnersInv ==
  /\ DOMAIN session = Sids /\ code \in Modules
  /\ cli.at = "imported" => cli = [at |-> "imported", code |-> cli.code]
  /\ cli.at \in {"imported", "read"} => cli.code \in Modules
  /\ \A s \in Sids : session[s].at = "runs" => Built(session[s]) /\ session[s].second = {}
  /\ cli.at = "runs" => Built(cli)

IInv == FolderInv /\ SavedInv /\ RunnersInv

-----------------------------------------------------------------------------
(* The operations of a handler *)

\* The files of a folder.
LEMMA FilesApart ==
  /\ Tools \in Files
  /\ \A c \in Connectors : Pack(c) \in Files /\ Descriptor(c) \in Files
  /\ \A c \in Connectors : Pack(c) # Tools /\ Descriptor(c) # Tools
  /\ \A c, d \in Connectors : /\ Pack(c) # Descriptor(d)
                              /\ Pack(c) = Pack(d) => c = d
                              /\ Descriptor(c) = Descriptor(d) => c = d
  BY DEF Files, Tools, Pack, Descriptor

\* What kinds of operations there are.
LEMMA Kinds ==
  ASSUME NEW o \in Operations
  PROVE  /\ o.op \in {"empty", "fill", "tmp", "remove", "replace"}
         /\ o.op \in {"empty", "fill"} => o.file \in Files
         /\ o.op = "replace" => o.skill \in Skills
  BY DEF Operations

\* A handler writes these files, ends with one of these texts, and removes nothing.
Plan(ops, files, skills) ==
  /\ ops \in Seq(Operations) /\ Ordered(ops)
  /\ \A i \in DOMAIN ops :
       /\ ops[i].op # "remove"
       /\ ops[i].op = "replace" => ops[i].skill \in skills
       /\ ops[i].op \in {"empty", "fill"} => ops[i].file \in files
  /\ \A f \in files : Fills(ops, f)

\* Nothing to do.
LEMMA NoPlan == Plan(<<>>, {}, {})
  BY DEF Plan, Ordered

\* A file is written by two operations.
LEMMA WritesPlan ==
  ASSUME NEW f \in Files
  PROVE  Plan(Writes(f), {f}, {})
<1> DEFINE a == [op |-> "empty", file |-> f]
           b == [op |-> "fill", file |-> f]
           ops == <<a, b>>
<1>1. a \in Operations /\ b \in Operations
  BY DEF Operations
<1>2. /\ ops \in Seq(Operations) /\ Len(ops) = 2 /\ DOMAIN ops = {1, 2}
      /\ ops[1] = a /\ ops[2] = b
  BY <1>1
<1>3. /\ a.op = "empty" /\ a.file = f
      /\ b.op = "fill" /\ b.file = f
  OBVIOUS
<1> HIDE DEF a, b, ops
<1>4. Ordered(ops)
  <2>1. ASSUME NEW c \in Connectors
        PROVE  f = Descriptor(c) => f # Pack(c)
    BY FilesApart
  <2>2. QED
    BY <1>2, <1>3, <2>1 DEF Ordered, Writing, Filling
<1>5. Fills(ops, f)
  BY <1>2, <1>3 DEF Fills, Filling
<1>6. Writes(f) = ops
  BY DEF Writes, ops, a, b
<1>7. QED
  BY <1>2, <1>3, <1>4, <1>5, <1>6 DEF Plan

\* SKILL.md is replaced by two operations.
LEMMA ReplacesPlan ==
  ASSUME NEW s \in Skills
  PROVE  Plan(Replaces(s), {}, {s})
<1> DEFINE a == [op |-> "tmp"]
           b == [op |-> "replace", skill |-> s]
           ops == <<a, b>>
<1>1. a \in Operations /\ b \in Operations
  BY DEF Operations
<1>2. /\ ops \in Seq(Operations) /\ Len(ops) = 2 /\ DOMAIN ops = {1, 2}
      /\ ops[1] = a /\ ops[2] = b
  BY <1>1
<1>3. a.op = "tmp" /\ b.op = "replace" /\ b.skill = s
  OBVIOUS
<1> HIDE DEF a, b, ops
<1>4. Ordered(ops)
  BY <1>2, <1>3 DEF Ordered, Writing, Filling
<1>5. Replaces(s) = ops
  BY DEF Replaces, ops, a, b
<1>6. QED
  BY <1>2, <1>3, <1>4, <1>5 DEF Plan

\* One plan after another, about other files, or about a descriptor after its pack.
LEMMA PlansJoin ==
  ASSUME NEW p, NEW q, NEW pf, NEW qf, NEW skills,
         Plan(p, pf, {}), Plan(q, qf, skills), pf \cap qf = {},
         \A c \in Connectors : Descriptor(c) \in pf => Pack(c) \notin qf
  PROVE  Plan(p \o q, pf \cup qf, skills)
<1> DEFINE r == p \o q
           m == Len(p)
           n == Len(q)
<1>1. /\ p \in Seq(Operations) /\ q \in Seq(Operations)
      /\ m \in Nat /\ n \in Nat /\ DOMAIN p = 1..m /\ DOMAIN q = 1..n
  BY LenProperties DEF Plan
<1>2. /\ r \in Seq(Operations) /\ Len(r) = m + n /\ DOMAIN r = 1..m + n
      /\ \A i \in 1..m + n : r[i] = IF i <= m THEN p[i] ELSE q[i - m]
  BY <1>1
<1> HIDE DEF r, m, n
<1>3. /\ \A i \in 1..m : i \in DOMAIN r /\ r[i] = p[i]
      /\ \A i \in 1..n : m + i \in DOMAIN r /\ r[m + i] = q[i]
  <2>1. ASSUME NEW i \in 1..n
        PROVE  m + i \in DOMAIN r /\ r[m + i] = q[i]
    <3>1. m + i \in 1..m + n /\ ~(m + i <= m) /\ (m + i) - m = i
      BY <1>1
    <3>2. QED
      BY <1>2, <3>1
  <2>2. QED
    BY <1>1, <1>2, <2>1
<1>4. ASSUME NEW i \in DOMAIN r
      PROVE  (i \in 1..m /\ r[i] = p[i]) \/ (i > m /\ i - m \in 1..n /\ r[i] = q[i - m])
  BY <1>1, <1>2, <1>4
<1>5. /\ \A i \in 1..m : /\ p[i].op \notin {"remove", "replace"}
                         /\ p[i].op \in {"empty", "fill"} => p[i].file \in pf
      /\ \A i \in 1..n : /\ q[i].op # "remove"
                         /\ q[i].op = "replace" => q[i].skill \in skills
                         /\ q[i].op \in {"empty", "fill"} => q[i].file \in qf
  BY <1>1 DEF Plan
<1>6. \A f \in pf \cup qf : Fills(r, f)
  <2>1. \A f \in pf : Fills(r, f)
    BY <1>1, <1>3 DEF Plan, Fills
  <2>2. \A f \in qf : Fills(r, f)
    BY <1>1, <1>3 DEF Plan, Fills
  <2>3. QED
    BY <2>1, <2>2
<1>7. Ordered(r)
  <2> SUFFICES ASSUME NEW i \in DOMAIN r
               PROVE  /\ r[i].op = "empty" =>
                           \E k \in DOMAIN r : k > i /\ Filling(r[k], r[i].file)
                      /\ \A c \in Connectors : Writing(r[i], Descriptor(c)) =>
                           \A k \in DOMAIN r : k >= i => ~Writing(r[k], Pack(c))
                      /\ \A c \in Connectors : Filling(r[i], Descriptor(c)) =>
                           \A k \in DOMAIN r : k > i => ~Writing(r[k], Descriptor(c))
                      /\ r[i].op \in {"replace", "remove"} => i = Len(r)
    BY DEF Ordered
  <2>1. Ordered(p) /\ Ordered(q) /\ i \in Int
    BY <1>2 DEF Plan
  <2>2. CASE i \in 1..m /\ r[i] = p[i]
    <3>1. r[i].op = "empty" => \E k \in DOMAIN r : k > i /\ Filling(r[k], r[i].file)
      <4>1. p[i].op = "empty" => \E k \in 1..m : k > i /\ Filling(p[k], p[i].file)
        BY <1>1, <2>1, <2>2 DEF Ordered
      <4>2. QED
        BY <1>3, <2>2, <4>1
    <3>2. ASSUME NEW c \in Connectors, Writing(r[i], Descriptor(c)), NEW k \in DOMAIN r, k >= i
          PROVE  ~Writing(r[k], Pack(c))
      <4>1. CASE k \in 1..m /\ r[k] = p[k]
        BY <1>1, <2>1, <2>2, <3>2, <4>1 DEF Ordered
      <4>2. CASE k - m \in 1..n /\ r[k] = q[k - m]
        BY <1>5, <2>2, <3>2, <4>2 DEF Writing
      <4>3. QED
        BY <1>4, <4>1, <4>2
    <3>3. ASSUME NEW c \in Connectors, Filling(r[i], Descriptor(c)), NEW k \in DOMAIN r, k > i
          PROVE  ~Writing(r[k], Descriptor(c))
      <4>1. CASE k \in 1..m /\ r[k] = p[k]
        BY <1>1, <2>1, <2>2, <3>3, <4>1 DEF Ordered
      <4>2. CASE k - m \in 1..n /\ r[k] = q[k - m]
        BY <1>5, <2>2, <3>3, <4>2 DEF Writing, Filling
      <4>3. QED
        BY <1>4, <4>1, <4>2
    <3>4. r[i].op \notin {"replace", "remove"}
      BY <1>5, <2>2
    <3>5. QED
      BY <3>1, <3>2, <3>3, <3>4
  <2>3. CASE i > m /\ i - m \in 1..n /\ r[i] = q[i - m]
    <3>1. ASSUME NEW k \in DOMAIN r, k >= i
          PROVE  k - m \in 1..n /\ r[k] = q[k - m] /\ k - m >= i - m /\ (k > i => k - m > i - m)
      <4>1. k > m
        BY <1>1, <1>2, <2>1, <2>3, <3>1
      <4>2. ~(k \in 1..m)
        BY <1>1, <4>1
      <4>3. QED
        BY <1>1, <1>2, <1>4, <2>1, <3>1, <4>2
    <3>2. r[i].op = "empty" => \E k \in DOMAIN r : k > i /\ Filling(r[k], r[i].file)
      <4>1. SUFFICES ASSUME q[i - m].op = "empty"
                     PROVE  \E k \in DOMAIN r : k > i /\ Filling(r[k], q[i - m].file)
        BY <2>3
      <4>2. PICK k \in 1..n : k > i - m /\ Filling(q[k], q[i - m].file)
        BY <1>1, <2>1, <2>3, <4>1 DEF Ordered
      <4>3. m + k > i
        BY <1>1, <2>1, <4>2
      <4>4. QED
        BY <1>3, <4>2, <4>3
    <3>3. \A c \in Connectors : Writing(r[i], Descriptor(c)) =>
            \A k \in DOMAIN r : k >= i => ~Writing(r[k], Pack(c))
      BY <1>1, <2>1, <2>3, <3>1 DEF Ordered
    <3>4. \A c \in Connectors : Filling(r[i], Descriptor(c)) =>
            \A k \in DOMAIN r : k > i => ~Writing(r[k], Descriptor(c))
      <4> SUFFICES ASSUME NEW c \in Connectors, Filling(q[i - m], Descriptor(c)),
                          NEW k \in DOMAIN r, k > i
                   PROVE  ~Writing(r[k], Descriptor(c))
        BY <2>3
      <4>1. k >= i
        BY <1>2, <2>1
      <4>2. QED
        BY <1>1, <2>1, <2>3, <3>1, <4>1 DEF Ordered
    <3>5. r[i].op \in {"replace", "remove"} => i = Len(r)
      <4>1. q[i - m].op \in {"replace", "remove"} => i - m = n
        BY <1>1, <2>1, <2>3 DEF Ordered, n
      <4>2. i - m = n => i = Len(r)
        BY <1>1, <1>2, <2>1
      <4>3. QED
        BY <2>3, <4>1, <4>2
    <3>6. QED
      BY <3>2, <3>3, <3>4, <3>5
  <2>4. QED
    BY <1>4, <2>2, <2>3
<1>8. ASSUME NEW i \in DOMAIN r
      PROVE  /\ r[i].op # "remove"
             /\ r[i].op = "replace" => r[i].skill \in skills
             /\ r[i].op \in {"empty", "fill"} => r[i].file \in pf \cup qf
  BY <1>4, <1>5
<1>9. QED
  BY <1>2, <1>6, <1>7, <1>8 DEF Plan, r

\* A pack has two files.
PackFiles(c) == {Pack(c), Descriptor(c)}

LEMMA PackPlan ==
  ASSUME NEW c \in Connectors
  PROVE  Plan(WritesPack(c), PackFiles(c), {})
<1>1. Plan(Writes(Pack(c)), {Pack(c)}, {}) /\ Plan(Writes(Descriptor(c)), {Descriptor(c)}, {})
  BY WritesPlan, FilesApart
<1>2. Plan(WritesPack(c), {Pack(c)} \cup {Descriptor(c)}, {})
  BY <1>1, PlansJoin, FilesApart DEF WritesPack
<1>3. {Pack(c)} \cup {Descriptor(c)} = PackFiles(c)
  BY DEF PackFiles
<1>4. QED
  BY <1>2, <1>3

\* A new agent, with the connector of its template or without.
LEMMA ScaffoldsPlan ==
  ASSUME NEW pack \in BOOLEAN, NEW s \in Skills
  PROVE  Plan(Scaffolds(pack, s),
              {Tools} \cup (IF pack THEN PackFiles(TemplateConnector) ELSE {}), {s})
<1> DEFINE w == Writes(Tools)
           p == IF pack THEN WritesPack(TemplateConnector) ELSE <<>>
           f == IF pack THEN PackFiles(TemplateConnector) ELSE {}
<1>1. Plan(w, {Tools}, {})
  BY WritesPlan, FilesApart
<1>2. Plan(p, f, {})
  BY NoPlan, PackPlan
<1>3. {Tools} \cap f = {} /\ \A c \in Connectors : Descriptor(c) \notin {Tools}
  BY FilesApart DEF PackFiles
<1>4. Scaffolds(pack, s) = w \o p \o Replaces(s)
  BY DEF Scaffolds
<1> HIDE DEF w, p, f
<1>5. Plan(w \o p, {Tools} \cup f, {})
  BY <1>1, <1>2, <1>3, PlansJoin
<1>6. Plan(w \o p \o Replaces(s), ({Tools} \cup f) \cup {}, {s})
  BY <1>5, ReplacesPlan, PlansJoin
<1>7. ({Tools} \cup f) \cup {} = {Tools} \cup f
  OBVIOUS
<1>8. QED
  BY <1>4, <1>6, <1>7 DEF f

\* A connector that is installed, with a new reference or without.
LEMMA InstallsPlan ==
  ASSUME NEW c \in Connectors, NEW s \in Skills
  PROVE  Plan(Installs(c, s), PackFiles(c), {s})
<1>1. Plan(WritesPack(c), PackFiles(c), {}) /\ Plan(Replaces(s), {}, {s})
  BY PackPlan, ReplacesPlan
<1>2. Plan(<<>>, {}, {s})
  BY NoPlan DEF Plan
<1>3. Plan(IF s = skill THEN <<>> ELSE Replaces(s), {}, {s})
  BY <1>1, <1>2
<1>4. Plan(Installs(c, s), PackFiles(c) \cup {}, {s})
  BY <1>1, <1>3, PlansJoin DEF Installs
<1>5. PackFiles(c) \cup {} = PackFiles(c)
  OBVIOUS
<1>6. QED
  BY <1>4, <1>5

-----------------------------------------------------------------------------
(* The operations that are left *)

\* The first operation, and the others.
LEMMA Shift ==
  ASSUME TypesOK, todo # <<>>, todo' = Tail(todo)
  PROVE  /\ Len(todo) \in Nat \ {0} /\ DOMAIN todo = 1..Len(todo)
         /\ 1 \in DOMAIN todo /\ Head(todo) = todo[1] /\ Head(todo) \in Operations
         /\ todo' \in Seq(Operations)
         /\ Len(todo') = Len(todo) - 1 /\ DOMAIN todo' = 1..Len(todo) - 1
         /\ \A i \in DOMAIN todo' : i + 1 \in DOMAIN todo /\ todo'[i] = todo[i + 1]
         /\ \A i \in DOMAIN todo : i # 1 => i - 1 \in DOMAIN todo' /\ todo'[i - 1] = todo[i]
<1>1. todo \in Seq(Operations)
  BY DEF TypesOK
<1>2. /\ Len(todo) \in Nat \ {0} /\ DOMAIN todo = 1..Len(todo)
      /\ Head(todo) = todo[1]
  BY <1>1, EmptySeq
<1>3. Head(todo) \in Operations
  BY <1>1, HeadTailProperties
<1>4. /\ todo' \in Seq(Operations) /\ Len(todo') = Len(todo) - 1
      /\ \A i \in 1..Len(todo) - 1 : todo'[i] = todo[i + 1]
  BY <1>1, HeadTailProperties
<1>5. DOMAIN todo' = 1..Len(todo) - 1
  BY <1>4, LenProperties
<1>6. \A i \in DOMAIN todo' : i + 1 \in DOMAIN todo /\ todo'[i] = todo[i + 1]
  BY <1>2, <1>4, <1>5
<1>7. ASSUME NEW i \in DOMAIN todo, i # 1
      PROVE  i - 1 \in DOMAIN todo' /\ todo'[i - 1] = todo[i]
  <2>1. i - 1 \in 1..Len(todo) - 1 /\ (i - 1) + 1 = i
    BY <1>2, <1>7
  <2>2. QED
    BY <1>4, <1>5, <2>1
<1>8. QED
  BY <1>2, <1>3, <1>4, <1>5, <1>6, <1>7

\* What is left is still in order.
LEMMA TailOrdered ==
  ASSUME TypesOK, todo # <<>>, todo' = Tail(todo), Ordered(todo)
  PROVE  Ordered(todo')
<1> SUFFICES ASSUME NEW i \in DOMAIN todo'
             PROVE  /\ todo'[i].op = "empty" =>
                         \E k \in DOMAIN todo' : k > i /\ Filling(todo'[k], todo'[i].file)
                    /\ \A c \in Connectors : Writing(todo'[i], Descriptor(c)) =>
                         \A k \in DOMAIN todo' : k >= i => ~Writing(todo'[k], Pack(c))
                    /\ \A c \in Connectors : Filling(todo'[i], Descriptor(c)) =>
                         \A k \in DOMAIN todo' : k > i => ~Writing(todo'[k], Descriptor(c))
                    /\ todo'[i].op \in {"replace", "remove"} => i = Len(todo')
  BY DEF Ordered
<1>1. /\ i \in Int /\ i >= 1 /\ i + 1 \in DOMAIN todo /\ todo'[i] = todo[i + 1]
      /\ DOMAIN todo \subseteq Int /\ DOMAIN todo' \subseteq Int
      /\ \A k \in DOMAIN todo' : k + 1 \in DOMAIN todo /\ todo'[k] = todo[k + 1]
  BY Shift
<1>2. ASSUME todo[i + 1].op = "empty"
      PROVE  \E k \in DOMAIN todo' : k > i /\ Filling(todo'[k], todo[i + 1].file)
  <2>1. PICK k \in DOMAIN todo : k > i + 1 /\ Filling(todo[k], todo[i + 1].file)
    BY <1>1, <1>2 DEF Ordered
  <2>2. k # 1 /\ k - 1 > i
    BY <1>1, <2>1
  <2>3. k - 1 \in DOMAIN todo' /\ todo'[k - 1] = todo[k]
    BY <2>2, Shift
  <2>4. QED
    BY <2>1, <2>2, <2>3
<1>3. ASSUME NEW c \in Connectors, Writing(todo[i + 1], Descriptor(c)),
             NEW k \in DOMAIN todo', k >= i
      PROVE  ~Writing(todo'[k], Pack(c))
  <2>1. k + 1 >= i + 1
    BY <1>1, <1>3
  <2>2. QED
    BY <1>1, <1>3, <2>1 DEF Ordered
<1>4. ASSUME NEW c \in Connectors, Filling(todo[i + 1], Descriptor(c)),
             NEW k \in DOMAIN todo', k > i
      PROVE  ~Writing(todo'[k], Descriptor(c))
  <2>1. k + 1 > i + 1
    BY <1>1, <1>4
  <2>2. QED
    BY <1>1, <1>4, <2>1 DEF Ordered
<1>5. todo[i + 1].op \in {"replace", "remove"} => i = Len(todo')
  <2>1. todo[i + 1].op \in {"replace", "remove"} => i + 1 = Len(todo)
    BY <1>1 DEF Ordered
  <2>2. QED
    BY <1>1, <2>1, Shift
<1>6. QED
  BY <1>1, <1>2, <1>3, <1>4, <1>5

\* A file that the handler fills is filled later, unless it is filled now.
LEMMA TailFills ==
  ASSUME TypesOK, todo # <<>>, todo' = Tail(todo), NEW f
  PROVE  /\ Fills(todo, f) => Filling(Head(todo), f) \/ Fills(todo', f)
         /\ Fills(todo', f) => Fills(todo, f)
<1>1. /\ Head(todo) = todo[1]
      /\ \A i \in DOMAIN todo' : i + 1 \in DOMAIN todo /\ todo'[i] = todo[i + 1]
      /\ \A i \in DOMAIN todo : i # 1 => i - 1 \in DOMAIN todo' /\ todo'[i - 1] = todo[i]
  BY Shift
<1>2. QED
  BY <1>1 DEF Fills

\* The operation that replaces SKILL.md, or removes the folder, is the last.
LEMMA LastOne ==
  ASSUME TypesOK, HandlerInv, todo # <<>>, Head(todo).op \in {"replace", "remove"}
  PROVE  /\ Tail(todo) = <<>> /\ DOMAIN todo = {1} /\ todo[1] = Head(todo)
         /\ \A f : ~Fills(todo, f)
<1>1. /\ todo \in Seq(Operations) /\ Len(todo) \in Nat \ {0}
      /\ DOMAIN todo = 1..Len(todo) /\ Head(todo) = todo[1]
  BY EmptySeq DEF TypesOK
<1>2. Len(todo) = 1
  BY <1>1 DEF HandlerInv, Ordered
<1>3. Tail(todo) \in Seq(Operations) /\ Len(Tail(todo)) = 0
  BY <1>1, <1>2, HeadTailProperties
<1>4. Tail(todo) = <<>>
  BY <1>3, EmptySeq
<1>5. DOMAIN todo = {1}
  BY <1>1, <1>2
<1>6. QED
  BY <1>1, <1>4, <1>5 DEF Fills, Filling

-----------------------------------------------------------------------------
(* What the operations of a handler keep *)

\* A file is emptied or filled: no SKILL.md needs it, unless it is filled later.
LEMMA WriteFileStep ==
  ASSUME FolderInv, NEW op, NEW state,
         \/ op = "empty" /\ state = "torn"
         \/ op = "fill" /\ state = "whole",
         WriteFile(op, state)
  PROVE  FolderInv'
<1> DEFINE h == Head(todo)
           g == h.file
<1>1. /\ todo # <<>> /\ h.op = op /\ todo' = Tail(todo)
      /\ file' = [file EXCEPT ![g] = state]
      /\ reinstalling' = reinstalling \ (IF state = "whole" THEN Rewritten(g) ELSE {})
      /\ UNCHANGED <<there, skill, tmp, registry, edits, deleting>>
  BY DEF WriteFile, Does
<1>2. TypesOK /\ HandlerInv /\ PromiseInv /\ KeysInv /\ ListedIsWhole
  BY DEF FolderInv
<1>3. /\ Len(todo) \in Nat \ {0} /\ DOMAIN todo = 1..Len(todo)
      /\ 1 \in DOMAIN todo /\ h = todo[1] /\ h \in Operations
      /\ todo' \in Seq(Operations)
      /\ \A i \in DOMAIN todo' : i + 1 \in DOMAIN todo /\ todo'[i] = todo[i + 1]
  BY <1>1, <1>2, Shift
<1>4. g \in Files
  BY <1>1, <1>3, Kinds
<1>5. /\ file \in [Files -> {"none", "torn", "whole"}]
      /\ file'[g] = state /\ \A f \in Files : f # g => file'[f] = file[f]
      /\ file' \in [Files -> {"none", "torn", "whole"}]
  BY <1>1, <1>2, <1>4 DEF TypesOK
<1>6. Writing(h, g) /\ (op = "fill" => Filling(h, g)) /\ \A f : Writing(h, f) => f = g
  BY <1>1 DEF Writing, Filling
<1>7. \A f : /\ Fills(todo, f) => (op = "fill" /\ f = g) \/ Fills(todo', f)
             /\ Fills(todo', f) => Fills(todo, f)
  BY <1>1, <1>2, TailFills DEF Filling
<1>8. op = "empty" => Fills(todo', g)
  <2>1. op = "empty" => \E k \in DOMAIN todo : Filling(todo[k], g)
    BY <1>1, <1>2, <1>3 DEF HandlerInv, Ordered
  <2>2. QED
    BY <1>1, <1>7, <2>1 DEF Fills
<1>9. \A f \in Files : Comes(f) => Comes(f)'
  BY <1>5, <1>7, <1>8 DEF Comes
<1>10. \A c \in reinstalling \ reinstalling' : c \in Connectors /\ g = Descriptor(c) /\ op = "fill"
  BY <1>1, <1>2 DEF Rewritten, TypesOK
<1>11. reinstalling' \subseteq reinstalling
  BY <1>1
<1> HIDE DEF h, g
<1>13. Listed' = Listed /\ \A c : HasRef(c)' = HasRef(c)
  BY <1>1 DEF Listed, HasRef
<1>14. TypesOK'
  BY <1>1, <1>2, <1>3, <1>5, <1>11 DEF TypesOK
<1>15. \A c \in reinstalling \ reinstalling' :
         file'[Pack(c)] = "whole" /\ file'[Descriptor(c)] = "whole"
  <2> SUFFICES ASSUME NEW c \in reinstalling \ reinstalling'
               PROVE  file'[Pack(c)] = "whole" /\ file'[Descriptor(c)] = "whole"
    OBVIOUS
  <2>1. c \in Connectors /\ g = Descriptor(c) /\ op = "fill"
    BY <1>10
  <2>2. Fills(todo, Descriptor(c))
    BY <1>3, <1>6, <2>1 DEF Fills
  <2>3. Comes(Pack(c))
    BY <1>2, <2>1, <2>2 DEF PromiseInv
  <2>4. \A k \in DOMAIN todo : ~Writing(todo[k], Pack(c))
    BY <1>2, <1>3, <1>6, <2>1 DEF HandlerInv, Ordered
  <2>5. ~Fills(todo, Pack(c))
    BY <2>4 DEF Fills, Filling, Writing
  <2>6. Pack(c) \in Files /\ Pack(c) # g
    BY <2>1, FilesApart
  <2>7. QED
    BY <1>1, <1>5, <2>1, <2>3, <2>5, <2>6 DEF Comes
<1>16. HandlerInv'
  <2>1. Ordered(todo')
    BY <1>1, <1>2, TailOrdered DEF HandlerInv
  <2>2. ASSUME NEW i \in DOMAIN todo'
        PROVE  Spares(todo[i])'
    <3> DEFINE o == todo[i + 1]
    <3>1. i + 1 \in DOMAIN todo /\ todo'[i] = o /\ i + 1 > 1
      BY <1>3, Shift, <1>1, <1>2
    <3>2. Spares(o)
      BY <1>2, <3>1 DEF HandlerInv
    <3>3. ASSUME NEW c \in Connectors, Writing(o, Pack(c)) \/ Writing(o, Descriptor(c)),
                 c \in reinstalling
          PROVE  c \in reinstalling'
      <4> SUFFICES ASSUME c \notin reinstalling'
                   PROVE  FALSE
        OBVIOUS
      <4>1. Filling(h, Descriptor(c)) /\ Writing(h, Descriptor(c))
        BY <1>6, <1>10, <3>3
      <4>2. ~Writing(o, Pack(c)) /\ ~Writing(o, Descriptor(c))
        BY <1>2, <1>3, <3>1, <4>1 DEF HandlerInv, Ordered
      <4>3. QED
        BY <3>3, <4>2
    <3>4. QED
      BY <1>1, <1>13, <3>1, <3>2, <3>3 DEF Spares, Writing
  <2>3. there' = TRUE
    BY <1>1, <1>2 DEF HandlerInv, TypesOK
  <2>4. QED
    BY <2>1, <2>2, <2>3 DEF HandlerInv
<1>17. PromiseInv'
  <2>1. ASSUME NEW c \in Connectors, Fills(todo', Descriptor(c))
        PROVE  Comes(Pack(c))'
    BY <1>2, <1>7, <1>9, <2>1, FilesApart DEF PromiseInv
  <2> DEFINE Promised(s) ==
               /\ Comes(Tools)'
               /\ \A c \in Connectors \ reinstalling' :
                    Refers(s, c) => Comes(Pack(c))' /\ Comes(Descriptor(c))'
  <2>2. ASSUME NEW s, Promises(s)
        PROVE  Promised(s)
    <3>1. Comes(Tools)'
      BY <1>9, <2>2, FilesApart DEF Promises
    <3>2. ASSUME NEW c \in Connectors, c \notin reinstalling', Refers(s, c)
          PROVE  Comes(Pack(c))' /\ Comes(Descriptor(c))'
      <4>1. CASE c \in reinstalling
        BY <1>15, <3>2, <4>1 DEF Comes
      <4>2. CASE c \notin reinstalling
        BY <1>9, <2>2, <3>2, <4>2, FilesApart DEF Promises
      <4>3. QED
        BY <4>1, <4>2
    <3>3. QED
      BY <3>1, <3>2
  <2>3. ASSUME ~deleting', NEW i \in DOMAIN todo', todo'[i].op = "replace"
        PROVE  Promises(todo[i].skill)'
    <3>1. Promises(todo'[i].skill)
      BY <1>1, <1>2, <1>3, <2>3 DEF PromiseInv
    <3>2. Promised(todo'[i].skill)
      BY <2>2, <3>1
    <3>3. QED
      BY <3>2 DEF Promises, Refers
  <2>4. QED
    BY <2>1, <2>3 DEF PromiseInv
<1>18. KeysInv'
  <2>1. ASSUME NEW i \in DOMAIN todo', todo'[i].op = "replace"
        PROVE  Keeps(todo[i].skill)'
    <3>1. Keeps(todo'[i].skill)
      BY <1>2, <1>3, <2>1 DEF KeysInv
    <3>2. QED
      BY <1>1, <3>1 DEF Keeps
  <2>2. QED
    BY <1>1, <1>2, <2>1 DEF KeysInv
<1>19. ListedIsWhole'
  <2> SUFFICES ASSUME Listed, ~deleting
               PROVE  /\ file'[Tools] = "whole"
                      /\ \A c \in Connectors \ reinstalling' : HasRef(c) =>
                           file'[Pack(c)] = "whole" /\ file'[Descriptor(c)] = "whole"
    BY <1>1, <1>13 DEF ListedIsWhole
  <2>1. Spares(h)
    BY <1>2, <1>3 DEF HandlerInv
  <2>2. file'[Tools] = "whole"
    BY <1>2, <1>5, <1>6, <2>1, FilesApart DEF ListedIsWhole, Spares
  <2>3. ASSUME NEW c \in Connectors, c \notin reinstalling', HasRef(c)
        PROVE  file'[Pack(c)] = "whole" /\ file'[Descriptor(c)] = "whole"
    <3>1. CASE c \in reinstalling
      BY <1>15, <2>3, <3>1
    <3>2. CASE c \notin reinstalling
      <4>1. g # Pack(c) /\ g # Descriptor(c)
        BY <1>6, <2>1, <2>3, <3>2 DEF Spares
      <4>2. QED
        BY <1>2, <1>5, <2>3, <3>2, <4>1, FilesApart DEF ListedIsWhole
    <3>3. QED
      BY <3>1, <3>2
  <2>4. QED
    BY <2>2, <2>3
<1>20. QED
  BY <1>14, <1>16, <1>17, <1>18, <1>19 DEF FolderInv

\* Nothing is left to do.
LEMMA Stops ==
  ASSUME FolderInv, todo' = <<>>,
         UNCHANGED <<there, file, skill, registry, edits, deleting, reinstalling>>
  PROVE  FolderInv'
<1>1. DOMAIN todo' = {} /\ todo' \in Seq(Operations)
  BY EmptySeq
<1>2. TypesOK /\ HandlerInv /\ PromiseInv /\ KeysInv /\ ListedIsWhole
  BY DEF FolderInv
<1>3. TypesOK'
  BY <1>1, <1>2 DEF TypesOK
<1>4. HandlerInv'
  BY <1>1, <1>2 DEF HandlerInv, Ordered, Listed
<1>5. PromiseInv'
  BY <1>1 DEF PromiseInv, Fills
<1>6. KeysInv'
  BY <1>1, <1>2 DEF KeysInv
<1>7. ListedIsWhole'
  BY <1>2 DEF ListedIsWhole, Listed, HasRef
<1>8. QED
  BY <1>3, <1>4, <1>5, <1>6, <1>7 DEF FolderInv

\* A temporary file is written.
LEMMA TmpStep ==
  ASSUME FolderInv, Tmp
  PROVE  FolderInv'
<1>1. /\ todo # <<>> /\ Head(todo).op = "tmp" /\ todo' = Tail(todo)
      /\ UNCHANGED <<there, file, skill, registry, edits, deleting, reinstalling>>
  BY DEF Tmp, Does, history
<1>2. TypesOK /\ HandlerInv /\ PromiseInv /\ KeysInv /\ ListedIsWhole
  BY DEF FolderInv
<1>3. /\ todo' \in Seq(Operations)
      /\ \A i \in DOMAIN todo' : i + 1 \in DOMAIN todo /\ todo'[i] = todo[i + 1]
  BY <1>1, <1>2, Shift
<1>4. \A f : Fills(todo, f) <=> Fills(todo', f)
  BY <1>1, <1>2, TailFills DEF Filling
<1>5. TypesOK'
  BY <1>1, <1>2, <1>3 DEF TypesOK
<1>6. HandlerInv'
  <2>1. Ordered(todo')
    BY <1>1, <1>2, TailOrdered DEF HandlerInv
  <2>2. ASSUME NEW i \in DOMAIN todo'
        PROVE  Spares(todo[i])'
    <3>1. Spares(todo[i + 1])
      BY <1>2, <1>3 DEF HandlerInv
    <3>2. QED
      BY <1>1, <1>3, <3>1 DEF Spares, Writing, Listed, HasRef
  <2>3. there' = TRUE
    BY <1>1, <1>2 DEF HandlerInv, TypesOK
  <2>4. QED
    BY <2>1, <2>2, <2>3 DEF HandlerInv
<1>7. PromiseInv'
  <2>1. ASSUME NEW c \in Connectors, Fills(todo', Descriptor(c))
        PROVE  Comes(Pack(c))'
    BY <1>1, <1>2, <1>4, <2>1 DEF PromiseInv, Comes
  <2>2. ASSUME ~deleting', NEW i \in DOMAIN todo', todo'[i].op = "replace"
        PROVE  Promises(todo[i].skill)'
    <3>1. Promises(todo'[i].skill)
      BY <1>1, <1>2, <1>3, <2>2 DEF PromiseInv
    <3>2. QED
      BY <1>1, <1>4, <3>1 DEF Promises, Refers, Comes
  <2>3. QED
    BY <2>1, <2>2 DEF PromiseInv
<1>8. KeysInv'
  <2>1. ASSUME NEW i \in DOMAIN todo', todo'[i].op = "replace"
        PROVE  Keeps(todo[i].skill)'
    <3>1. Keeps(todo'[i].skill)
      BY <1>2, <1>3, <2>1 DEF KeysInv
    <3>2. QED
      BY <1>1, <3>1 DEF Keeps
  <2>2. QED
    BY <1>1, <1>2, <2>1 DEF KeysInv
<1>9. ListedIsWhole'
  BY <1>1, <1>2 DEF ListedIsWhole, Listed, HasRef
<1>10. QED
  BY <1>5, <1>6, <1>7, <1>8, <1>9 DEF FolderInv

\* SKILL.md is replaced: what it refers to has been written.
LEMMA ReplaceStep ==
  ASSUME FolderInv, Replace
  PROVE  FolderInv'
<1>1. /\ todo # <<>> /\ Head(todo).op = "replace" /\ todo' = Tail(todo)
      /\ skill' = Head(todo).skill
      /\ UNCHANGED <<there, file, registry, edits, deleting, reinstalling>>
  BY DEF Replace, Does, history
<1>2. TypesOK /\ HandlerInv /\ PromiseInv /\ KeysInv
  BY DEF FolderInv
<1>3. /\ todo' = <<>> /\ DOMAIN todo = {1} /\ todo[1] = Head(todo)
      /\ \A f : ~Fills(todo, f)
  BY <1>1, <1>2, LastOne
<1>4. Head(todo) \in Operations
  BY <1>1, <1>2, Shift
<1>5. skill' \in Skills
  BY <1>1, <1>4, Kinds
<1>6. DOMAIN todo' = {} /\ todo' \in Seq(Operations)
  BY <1>3, EmptySeq
<1>7. TypesOK'
  BY <1>1, <1>2, <1>5, <1>6 DEF TypesOK
<1>8. HandlerInv'
  <2>1. there' = TRUE
    BY <1>1, <1>2 DEF HandlerInv, TypesOK
  <2>2. QED
    BY <1>6, <2>1 DEF HandlerInv, Ordered
<1>9. PromiseInv'
  BY <1>6 DEF PromiseInv, Fills
<1>10. KeysInv'
  <2>1. Keeps(skill')
    BY <1>1, <1>2, <1>3 DEF KeysInv
  <2>2. skill'.text <= edits' /\ skill'.text # 0
    BY <1>1, <1>2, <2>1 DEF Keeps, TypesOK
  <2>3. QED
    BY <1>6, <2>2 DEF KeysInv
<1>11. ListedIsWhole'
  <2>1. ~deleting => Promises(skill')
    BY <1>1, <1>2, <1>3 DEF PromiseInv
  <2>2. QED
    BY <1>1, <1>3, <2>1 DEF ListedIsWhole, Promises, Comes, Refers, HasRef
<1>12. QED
  BY <1>7, <1>8, <1>9, <1>10, <1>11 DEF FolderInv

\* The folder goes piece by piece.
LEMMA RemoveNextStep ==
  ASSUME FolderInv, RemoveNext
  PROVE  FolderInv'
<1>1. /\ todo # <<>> /\ Head(todo).op = "remove"
      /\ UNCHANGED <<registry, edits>>
  BY DEF RemoveNext
<1>2. TypesOK /\ HandlerInv /\ PromiseInv /\ KeysInv
  BY DEF FolderInv
<1>3. /\ DOMAIN todo = {1} /\ todo[1].op = "remove"
      /\ \A f : ~Fills(todo, f)
  BY <1>1, <1>2, LastOne
<1>4. deleting /\ there = TRUE
  BY <1>1, <1>2, <1>3 DEF HandlerInv, Spares, TypesOK
<1>5. NoSkill \in Skills
  BY DEF NoSkill, Skills
<1>6. CASE /\ file' \in [Files -> {"none", "torn", "whole"}] /\ (skill' = skill \/ skill' = NoSkill)
           /\ UNCHANGED <<there, todo, deleting, reinstalling>>
  <2>1. TypesOK'
    BY <1>1, <1>2, <1>5, <1>6 DEF TypesOK
  <2>2. Ordered(todo')
    BY <1>2, <1>6 DEF HandlerInv
  <2>3. Spares(todo[1])'
    BY <1>3, <1>4, <1>6 DEF Spares, Writing
  <2>4. HandlerInv'
    BY <1>3, <1>4, <1>6, <2>2, <2>3 DEF HandlerInv
  <2>5. PromiseInv'
    BY <1>3, <1>6 DEF PromiseInv
  <2>6. KeysInv'
    <3>1. skill'.text <= edits' /\ (skill'.text = 0 => skill' = NoSkill)
      BY <1>1, <1>2, <1>6 DEF KeysInv, TypesOK, NoSkill
    <3>2. QED
      BY <1>3, <1>6, <3>1 DEF KeysInv
  <2>7. ListedIsWhole'
    BY <1>4, <1>6 DEF ListedIsWhole
  <2>8. QED
    BY <2>1, <2>4, <2>5, <2>6, <2>7 DEF FolderInv
<1>7. CASE /\ NothingThere
           /\ there' = FALSE /\ todo' = <<>> /\ deleting' = FALSE /\ reinstalling' = {}
           /\ UNCHANGED <<file, skill, tmp>>
  <2>1. skill' = NoSkill
    BY <1>7 DEF NothingThere, Listed
  <2>2. DOMAIN todo' = {} /\ todo' \in Seq(Operations)
    BY <1>7, EmptySeq
  <2>3. TypesOK'
    BY <1>1, <1>2, <1>7, <2>2 DEF TypesOK
  <2>4. HandlerInv'
    BY <1>7, <2>1, <2>2 DEF HandlerInv, Ordered, Listed
  <2>5. PromiseInv'
    BY <2>2 DEF PromiseInv, Fills
  <2>6. KeysInv'
    BY <1>1, <1>2, <1>7, <2>2 DEF KeysInv
  <2>7. ListedIsWhole'
    BY <2>1 DEF ListedIsWhole, Listed
  <2>8. QED
    BY <2>3, <2>4, <2>5, <2>6, <2>7 DEF FolderInv
<1>8. CASE \E f \in Files : /\ file[f] # "none" /\ file' = [file EXCEPT ![f] = "none"]
                            /\ UNCHANGED <<there, skill, tmp, todo, history>>
  <2>1. file' \in [Files -> {"none", "torn", "whole"}]
    BY <1>2, <1>8 DEF TypesOK
  <2>2. QED
    BY <1>6, <1>8, <2>1 DEF history
<1>9. CASE /\ skill' \in {skill, NoSkill}
           /\ UNCHANGED <<there, file, todo, history>>
  BY <1>2, <1>6, <1>9 DEF history, TypesOK
<1>10. QED
  BY <1>7, <1>8, <1>9 DEF RemoveNext

-----------------------------------------------------------------------------
(* What the handlers begin with *)

\* A new folder: nothing refers to it yet.
LEMMA CreateStep ==
  ASSUME FolderInv, Create
  PROVE  FolderInv'
<1>1. /\ ~there /\ edits < MaxEdits /\ edits' = edits + 1
      /\ there' = TRUE
      /\ UNCHANGED <<file, skill, registry, deleting, reinstalling>>
  BY DEF Create, NewText, history
<1>2. TypesOK /\ HandlerInv /\ KeysInv
  BY DEF FolderInv
<1>3. ~Listed /\ skill = NoSkill
  BY <1>1, <1>2 DEF HandlerInv, Listed
<1>4. PICK identity \in BOOLEAN, pack \in BOOLEAN :
        LET refs == IF pack THEN {<<TemplateConnector, TemplateVersion>>} ELSE {}
            s == [NoSkill EXCEPT !.text = edits', !.identity = identity, !.refs = refs]
        IN  Begins(Scaffolds(pack, s))
  BY DEF Create
<1> DEFINE refs == IF pack THEN {<<TemplateConnector, TemplateVersion>>} ELSE {}
           s == [NoSkill EXCEPT !.text = edits', !.identity = identity, !.refs = refs]
           files == {Tools} \cup (IF pack THEN PackFiles(TemplateConnector) ELSE {})
<1>5. todo = <<>> /\ todo' = Scaffolds(pack, s)
  BY <1>4 DEF Begins
<1>6. NoSkill \in Skills /\ NoSkill.text = 0 /\ NoSkill.refs = {} /\ NoSkill.identity = FALSE
  BY DEF NoSkill, Skills
<1>7. edits' \in 1..MaxEdits /\ edits \in 0..MaxEdits /\ MaxEdits \in Nat
  BY <1>1, <1>2 DEF TypesOK
<1>8. refs \in SUBSET (Connectors \X Versions)
  OBVIOUS
<1>9. s \in Skills /\ s.text = edits' /\ s.refs = refs
  <2> HIDE DEF refs
  <2>1. s \in Skills
    <3>1. edits' \in 0..MaxEdits /\ identity \in BOOLEAN
      BY <1>7
    <3>2. QED
      BY <1>6, <1>8, <3>1 DEF Skills
  <2>2. s.text = edits'
    BY <1>6 DEF Skills
  <2>3. s.refs = refs
    BY <1>6 DEF Skills
  <2>4. QED
    BY <2>1, <2>2, <2>3
<1> HIDE DEF s
<1>10. Plan(todo', files, {s})
  BY <1>5, <1>9, ScaffoldsPlan
<1> HIDE DEF files
<1>11. /\ todo' \in Seq(Operations) /\ Ordered(todo')
       /\ \A i \in DOMAIN todo' :
            /\ todo'[i].op # "remove"
            /\ todo'[i].op = "replace" => todo'[i].skill = s
            /\ todo'[i].op \in {"empty", "fill"} => todo'[i].file \in files
       /\ \A f \in files : Fills(todo', f)
  BY <1>10 DEF Plan
<1>12. TypesOK'
  BY <1>1, <1>2, <1>7, <1>11 DEF TypesOK
<1>13. ~Listed' /\ \A c : ~HasRef(c)'
  BY <1>1, <1>3 DEF Listed, HasRef, NoSkill
<1>14. HandlerInv'
  BY <1>1, <1>11, <1>13 DEF HandlerInv, Spares
<1>15. \A c \in Connectors : \A v : <<c, v>> \in s.refs => pack /\ c = TemplateConnector
  BY <1>9
<1>16. Tools \in files /\ (pack => PackFiles(TemplateConnector) \subseteq files)
  BY DEF files
<1>17. \A c \in Connectors : pack /\ c = TemplateConnector =>
         Fills(todo', Pack(c)) /\ Fills(todo', Descriptor(c))
  BY <1>11, <1>16 DEF PackFiles
<1>18. PromiseInv'
  <2>1. ASSUME NEW c \in Connectors, Fills(todo', Descriptor(c))
        PROVE  Comes(Pack(c))'
    <3>1. Descriptor(c) \in files
      BY <1>11, <2>1 DEF Fills, Filling
    <3>2. pack /\ c = TemplateConnector
      BY <3>1, FilesApart DEF files, PackFiles
    <3>3. QED
      BY <1>17, <3>2 DEF Comes
  <2>2. ASSUME NEW i \in DOMAIN todo', todo'[i].op = "replace"
        PROVE  Promises(todo[i].skill)'
    BY <1>11, <1>15, <1>16, <1>17, <2>2 DEF Promises, Refers, Comes
  <2>3. QED
    BY <2>1, <2>2 DEF PromiseInv
<1>19. KeysInv'
  <2>1. ASSUME NEW i \in DOMAIN todo', todo'[i].op = "replace"
        PROVE  Keeps(todo[i].skill)'
    <3>1. todo'[i].skill = s
      BY <1>11, <2>1
    <3>2. s.text \in 1..edits' /\ s.text # skill'.text
      BY <1>1, <1>3, <1>7, <1>9 DEF NoSkill
    <3>3. skill'.refs = {} /\ skill'.identity = FALSE
      BY <1>1, <1>3 DEF NoSkill
    <3>4. QED
      BY <3>1, <3>2, <3>3 DEF Keeps
  <2>2. skill' = NoSkill /\ skill'.text <= edits'
    BY <1>1, <1>3, <1>7 DEF NoSkill
  <2>3. QED
    BY <2>1, <2>2 DEF KeysInv
<1>20. ListedIsWhole'
  BY <1>13 DEF ListedIsWhole
<1>21. QED
  BY <1>12, <1>14, <1>18, <1>19, <1>20 DEF FolderInv

\* A form is saved over the text that is there.
LEMMA SaveStep ==
  ASSUME FolderInv, Save
  PROVE  FolderInv'
<1>1. /\ Listed /\ edits < MaxEdits /\ edits' = edits + 1
      /\ UNCHANGED <<there, file, skill, registry, deleting, reinstalling>>
  BY DEF Save, NewText, disk, history
<1>2. TypesOK /\ HandlerInv /\ KeysInv /\ ListedIsWhole
  BY DEF FolderInv
<1>3. PICK dashes \in BOOLEAN :
        Begins(Replaces([Kept EXCEPT !.text = edits', !.dashes = dashes]))
  BY DEF Save
<1> DEFINE s == [Kept EXCEPT !.text = edits', !.dashes = dashes]
<1>4. todo = <<>> /\ todo' = Replaces(s)
  BY <1>3 DEF Begins
<1>5. edits' \in 1..MaxEdits /\ edits \in 0..MaxEdits /\ MaxEdits \in Nat
  BY <1>1, <1>2 DEF TypesOK
<1>6. skill \in Skills /\ Kept \in Skills
  BY <1>2 DEF TypesOK, Kept, NoSkill, Skills
<1>7. /\ s \in Skills /\ s.text = edits'
      /\ s.identity = Kept.identity /\ s.refs = Kept.refs
  <2>1. s \in Skills
    <3>1. edits' \in 0..MaxEdits /\ dashes \in BOOLEAN
      BY <1>5
    <3>2. QED
      BY <1>6, <3>1 DEF Skills
  <2>2. s.text = edits'
    BY <1>6 DEF Skills
  <2>3. s.identity = Kept.identity
    BY <1>6 DEF Skills
  <2>4. s.refs = Kept.refs
    BY <1>6 DEF Skills
  <2>5. QED
    BY <2>1, <2>2, <2>3, <2>4
<1> HIDE DEF s
<1>8. Plan(todo', {}, {s})
  BY <1>4, <1>7, ReplacesPlan
<1>9. /\ todo' \in Seq(Operations) /\ Ordered(todo')
      /\ \A i \in DOMAIN todo' :
           /\ todo'[i].op \notin {"remove", "empty", "fill"}
           /\ todo'[i].op = "replace" => todo'[i].skill = s
      /\ \A f : ~Fills(todo', f)
  BY <1>8 DEF Plan, Fills, Filling
<1>10. there = TRUE
  BY <1>1, <1>2 DEF HandlerInv, TypesOK
<1>11. s.refs \subseteq skill.refs
  BY <1>7 DEF Kept, NoSkill
<1>12. skill.dashes \/ (s.refs = skill.refs /\ s.identity = skill.identity)
  BY <1>7 DEF Kept
<1>13. TypesOK'
  BY <1>1, <1>2, <1>5, <1>9 DEF TypesOK
<1>14. HandlerInv'
  BY <1>1, <1>9, <1>10 DEF HandlerInv, Spares, Writing
<1>15. PromiseInv'
  <2>1. ASSUME ~deleting', NEW i \in DOMAIN todo', todo'[i].op = "replace"
        PROVE  Promises(todo[i].skill)'
    <3>1. file[Tools] = "whole"
      BY <1>1, <1>2, <2>1 DEF ListedIsWhole
    <3>2. \A c \in Connectors \ reinstalling : Refers(s, c) =>
            file[Pack(c)] = "whole" /\ file[Descriptor(c)] = "whole"
      BY <1>1, <1>2, <1>11, <2>1 DEF ListedIsWhole, Refers, HasRef
    <3>3. QED
      BY <1>1, <1>9, <2>1, <3>1, <3>2 DEF Promises, Refers, Comes
  <2>2. QED
    BY <1>9, <2>1 DEF PromiseInv
<1>16. KeysInv'
  <2>1. ASSUME NEW i \in DOMAIN todo', todo'[i].op = "replace"
        PROVE  Keeps(todo[i].skill)'
    <3>1. todo'[i].skill = s
      BY <1>9, <2>1
    <3>2. s.text \in 1..edits' /\ s.text # skill'.text
      BY <1>1, <1>2, <1>5, <1>6, <1>7 DEF KeysInv, Skills
    <3>3. QED
      BY <1>1, <1>12, <3>1, <3>2 DEF Keeps
  <2>2. skill'.text <= edits' /\ (skill'.text = 0 => skill' = NoSkill)
    BY <1>1, <1>2, <1>5, <1>6 DEF KeysInv, Skills
  <2>3. QED
    BY <2>1, <2>2 DEF KeysInv
<1>17. ListedIsWhole'
  BY <1>1, <1>2 DEF ListedIsWhole, Listed, HasRef
<1>18. QED
  BY <1>13, <1>14, <1>15, <1>16, <1>17 DEF FolderInv

\* A connector is installed: with a ref already, its files are no longer counted on.
LEMMA InstallStep ==
  ASSUME FolderInv, NEW d \in Connectors, Install(d)
  PROVE  FolderInv'
<1> DEFINE s == [skill EXCEPT !.refs = @ \cup {<<d, registry[d]>>}]
<1>1. /\ Listed /\ todo = <<>> /\ todo' = Installs(d, s)
      /\ reinstalling' = IF HasRef(d) THEN reinstalling \cup {d} ELSE reinstalling
      /\ UNCHANGED <<there, file, skill, registry, edits, deleting>>
  BY DEF Install, Begins, disk
<1>2. TypesOK /\ HandlerInv /\ KeysInv /\ ListedIsWhole
  BY DEF FolderInv
<1>3. skill \in Skills /\ registry[d] \in Versions
  BY <1>2 DEF TypesOK
<1>4. /\ s.text = skill.text /\ s.identity = skill.identity /\ s.dashes = skill.dashes
      /\ s.refs = skill.refs \cup {<<d, registry[d]>>}
      /\ s \in Skills
  <2>1. skill = [text |-> skill.text, dashes |-> skill.dashes, identity |-> skill.identity,
                 refs |-> skill.refs]
    BY <1>3 DEF Skills
  <2>2. s = [text |-> skill.text, dashes |-> skill.dashes, identity |-> skill.identity,
             refs |-> skill.refs \cup {<<d, registry[d]>>}]
    BY <2>1
  <2>3. /\ skill.text \in 0..MaxEdits /\ skill.dashes \in BOOLEAN /\ skill.identity \in BOOLEAN
        /\ skill.refs \cup {<<d, registry[d]>>} \in SUBSET (Connectors \X Versions)
    BY <1>3 DEF Skills
  <2> HIDE DEF s
  <2>4. QED
    BY <2>2, <2>3 DEF Skills
<1> HIDE DEF s
<1>5. Plan(todo', PackFiles(d), {s})
  BY <1>1, <1>4, InstallsPlan
<1>6. /\ todo' \in Seq(Operations) /\ Ordered(todo')
      /\ \A i \in DOMAIN todo' :
           /\ todo'[i].op # "remove"
           /\ todo'[i].op = "replace" => todo'[i].skill = s
           /\ todo'[i].op \in {"empty", "fill"} => todo'[i].file \in PackFiles(d)
      /\ Fills(todo', Pack(d)) /\ Fills(todo', Descriptor(d))
  BY <1>5 DEF Plan, PackFiles
<1>7. there = TRUE
  BY <1>1, <1>2 DEF HandlerInv, TypesOK
<1>8. reinstalling \subseteq reinstalling' /\ reinstalling' \subseteq Connectors
  BY <1>1, <1>2 DEF TypesOK
<1>9. TypesOK'
  BY <1>1, <1>2, <1>6, <1>8 DEF TypesOK
<1>10. Listed' /\ \A c : HasRef(c)' <=> HasRef(c)
  BY <1>1 DEF Listed, HasRef
<1>11. Tools \notin PackFiles(d)
       /\ \A c \in Connectors : /\ Pack(c) \in PackFiles(d) => c = d
                                /\ Descriptor(c) \in PackFiles(d) => c = d
  BY FilesApart DEF PackFiles
<1>12. HandlerInv'
  <2>1. ASSUME NEW i \in DOMAIN todo'
        PROVE  Spares(todo[i])'
    <3>1. ~Writing(todo'[i], Tools)
      BY <1>6, <1>11, <2>1 DEF Writing
    <3>2. ASSUME NEW c \in Connectors, Writing(todo'[i], Pack(c)) \/ Writing(todo'[i], Descriptor(c))
          PROVE  c \in reinstalling' \/ ~HasRef(c)
      <4>1. c = d
        BY <1>6, <1>11, <2>1, <3>2 DEF Writing
      <4>2. QED
        BY <1>1, <4>1
    <3>3. todo'[i].op # "remove"
      BY <1>6, <2>1
    <3>4. QED
      BY <1>10, <3>1, <3>2, <3>3 DEF Spares, Writing
  <2>2. QED
    BY <1>1, <1>6, <1>7, <2>1 DEF HandlerInv
<1>13. PromiseInv'
  <2>1. ASSUME NEW c \in Connectors, Fills(todo', Descriptor(c))
        PROVE  Comes(Pack(c))'
    <3>1. Descriptor(c) \in PackFiles(d)
      BY <1>6, <2>1 DEF Fills, Filling
    <3>2. QED
      BY <1>6, <1>11, <3>1 DEF Comes
  <2>2. ASSUME ~deleting', NEW i \in DOMAIN todo', todo'[i].op = "replace"
        PROVE  Promises(todo[i].skill)'
    <3>1. todo'[i].skill = s
      BY <1>6, <2>2
    <3>2. file[Tools] = "whole"
      BY <1>1, <1>2, <2>2 DEF ListedIsWhole
    <3>3. ASSUME NEW c \in Connectors, c \notin reinstalling', Refers(s, c), c # d
          PROVE  file[Pack(c)] = "whole" /\ file[Descriptor(c)] = "whole"
      <4>1. HasRef(c)
        BY <1>4, <3>3 DEF Refers, HasRef
      <4>2. QED
        BY <1>1, <1>2, <1>8, <2>2, <3>3, <4>1 DEF ListedIsWhole
    <3>4. QED
      BY <1>1, <1>6, <3>1, <3>2, <3>3 DEF Promises, Refers, Comes
  <2>3. QED
    BY <2>1, <2>2 DEF PromiseInv
<1>14. KeysInv'
  <2>1. ASSUME NEW i \in DOMAIN todo', todo'[i].op = "replace"
        PROVE  Keeps(todo[i].skill)'
    <3>1. todo'[i].skill = s
      BY <1>6, <2>1
    <3>2. s.text \in 1..edits'
      BY <1>1, <1>2, <1>3, <1>4 DEF KeysInv, Listed, Skills, TypesOK
    <3>3. QED
      BY <1>1, <1>4, <3>1, <3>2 DEF Keeps
  <2>2. QED
    BY <1>1, <1>2, <2>1 DEF KeysInv
<1>15. ListedIsWhole'
  BY <1>1, <1>2, <1>8 DEF ListedIsWhole, Listed, HasRef
<1>16. QED
  BY <1>9, <1>12, <1>13, <1>14, <1>15 DEF FolderInv

\* A deletion begins.
LEMMA DeleteStep ==
  ASSUME FolderInv, Delete
  PROVE  FolderInv'
<1> DEFINE o == [op |-> "remove"]
<1>1. /\ there /\ todo' = <<o>> /\ deleting' = TRUE
      /\ UNCHANGED <<there, file, skill, registry, edits, reinstalling>>
  BY DEF Delete, Begins, disk
<1>2. TypesOK /\ HandlerInv /\ KeysInv
  BY DEF FolderInv
<1>3. o \in Operations /\ o.op = "remove"
  BY DEF Operations
<1> HIDE DEF o
<1>4. todo' \in Seq(Operations) /\ DOMAIN todo' = {1} /\ todo'[1] = o /\ Len(todo') = 1
  BY <1>1, <1>3
<1>5. TypesOK'
  BY <1>1, <1>2, <1>4 DEF TypesOK
<1>6. Ordered(todo')
  BY <1>3, <1>4 DEF Ordered, Writing, Filling
<1>7. HandlerInv'
  BY <1>1, <1>3, <1>4, <1>6 DEF HandlerInv, Spares, Writing
<1>8. PromiseInv'
  BY <1>1, <1>3, <1>4 DEF PromiseInv, Fills, Filling
<1>9. KeysInv'
  BY <1>1, <1>2, <1>3, <1>4 DEF KeysInv
<1>10. ListedIsWhole'
  BY <1>1 DEF ListedIsWhole
<1>11. QED
  BY <1>5, <1>7, <1>8, <1>9, <1>10 DEF FolderInv

\* The registry has a later version.
LEMMA UpgradeStep ==
  ASSUME FolderInv, NEW c \in Connectors, Upgrade(c)
  PROVE  FolderInv'
<1>1. /\ registry[c] + 1 \in Versions /\ registry' = [registry EXCEPT ![c] = registry[c] + 1]
      /\ UNCHANGED <<there, file, skill, todo, edits, deleting, reinstalling>>
  BY DEF Upgrade, disk, history
<1>2. TypesOK /\ HandlerInv /\ PromiseInv /\ KeysInv /\ ListedIsWhole
  BY DEF FolderInv
<1>3. TypesOK'
  BY <1>1, <1>2 DEF TypesOK
<1>4. HandlerInv'
  BY <1>1, <1>2 DEF HandlerInv, Spares, Listed, HasRef
<1>5. PromiseInv'
  BY <1>1, <1>2 DEF PromiseInv, Promises, Comes
<1>6. KeysInv'
  BY <1>1, <1>2 DEF KeysInv, Keeps
<1>7. ListedIsWhole'
  BY <1>1, <1>2 DEF ListedIsWhole, Listed, HasRef
<1>8. QED
  BY <1>3, <1>4, <1>5, <1>6, <1>7 DEF FolderInv

-----------------------------------------------------------------------------
(* The folder *)

\* Whatever happens to the folder, it stays as it must be, and a text that replaces
\* SKILL.md keeps its keys.
LEMMA WorksStep ==
  ASSUME FolderInv, Works
  PROVE  /\ FolderInv'
         /\ edits' \in {edits, edits + 1}
         /\ skill' = skill \/ Keeps(skill') \/ (deleting /\ skill' = NoSkill)
<1>1. CASE Empty \/ Fill
  <2>1. FolderInv'
    BY <1>1, WriteFileStep DEF Empty, Fill
  <2>2. QED
    BY <1>1, <2>1 DEF Empty, Fill, WriteFile
<1>2. CASE Tmp
  BY <1>2, TmpStep DEF Tmp
<1>3. CASE Replace
  <2>1. FolderInv'
    BY <1>3, ReplaceStep
  <2>2. /\ todo # <<>> /\ Head(todo).op = "replace" /\ skill' = Head(todo).skill
        /\ edits' = edits
    BY <1>3 DEF Replace, Does
  <2>3. TypesOK /\ HandlerInv /\ KeysInv
    BY DEF FolderInv
  <2>4. 1 \in DOMAIN todo /\ todo[1] = Head(todo)
    BY <2>2, <2>3, LastOne
  <2>5. Keeps(skill')
    BY <2>2, <2>3, <2>4 DEF KeysInv
  <2>6. QED
    BY <2>1, <2>2, <2>5
<1>4. CASE RemoveNext
  <2>1. FolderInv'
    BY <1>4, RemoveNextStep
  <2>2. /\ todo # <<>> /\ Head(todo).op = "remove" /\ edits' = edits
        /\ skill' = skill \/ skill' = NoSkill
    BY <1>4 DEF RemoveNext
  <2>3. TypesOK /\ HandlerInv
    BY DEF FolderInv
  <2>4. 1 \in DOMAIN todo /\ todo[1].op = "remove"
    BY <2>2, <2>3, LastOne
  <2>5. deleting
    BY <2>3, <2>4 DEF HandlerInv, Spares
  <2>6. QED
    BY <2>1, <2>2, <2>5
<1>5. CASE Raises
  BY <1>5, Stops DEF Raises, history
<1>6. CASE Create
  BY <1>6, CreateStep DEF Create, NewText
<1>7. CASE Save
  BY <1>7, SaveStep DEF Save, NewText, disk
<1>8. CASE Delete
  BY <1>8, DeleteStep DEF Delete, disk
<1>9. ASSUME NEW c \in Connectors, Install(c)
      PROVE  FolderInv' /\ edits' = edits /\ skill' = skill
  BY <1>9, InstallStep DEF Install, disk
<1>10. ASSUME NEW c \in Connectors, Upgrade(c)
       PROVE  FolderInv' /\ edits' = edits /\ skill' = skill
  BY <1>10, UpgradeStep DEF Upgrade, disk
<1>11. QED
  BY <1>1, <1>2, <1>3, <1>4, <1>5, <1>6, <1>7, <1>8, <1>9, <1>10 DEF Works

\* The Studio dies.
LEMMA CrashStep ==
  ASSUME FolderInv, Crash
  PROVE  FolderInv'
BY Stops DEF Crash, history

\* Nothing happens to the folder.
LEMMA FolderStays ==
  ASSUME FolderInv, UNCHANGED vars
  PROVE  FolderInv'
<1>1. UNCHANGED <<there, file, skill, todo, registry, edits, deleting, reinstalling>>
  BY DEF vars, disk, history
<1>2. TypesOK /\ HandlerInv /\ PromiseInv /\ KeysInv /\ ListedIsWhole
  BY DEF FolderInv
<1>3. TypesOK'
  BY <1>1, <1>2 DEF TypesOK
<1>4. HandlerInv'
  BY <1>1, <1>2 DEF HandlerInv, Spares, Listed, HasRef
<1>5. PromiseInv'
  BY <1>1, <1>2 DEF PromiseInv, Promises, Comes
<1>6. KeysInv'
  BY <1>1, <1>2 DEF KeysInv, Keeps
<1>7. ListedIsWhole'
  BY <1>1, <1>2 DEF ListedIsWhole, Listed, HasRef
<1>8. QED
  BY <1>3, <1>4, <1>5, <1>6, <1>7 DEF FolderInv

-----------------------------------------------------------------------------
(* Sessions and runs *)

\* A handler goes on: what was saved is still valid, or is saved no more.
LEMMA FolderStepKeeps ==
  ASSUME IInv, FolderStep
  PROVE  IInv'
<1>1. FolderInv /\ SavedInv /\ RunnersInv
  BY DEF IInv
<1>2. Works /\ UNCHANGED <<session, cli>>
  BY DEF FolderStep, runners
<1>3. /\ FolderInv'
      /\ edits' \in {edits, edits + 1}
      /\ skill' = skill \/ Keeps(skill') \/ (deleting /\ skill' = NoSkill)
  BY <1>1, <1>2, WorksStep
<1>4. RunnersInv'
  <2>1. code' \in Modules
    BY <1>1, SessionsAssumption DEF RunnersInv, FolderStep
  <2>2. QED
    BY <1>1, <1>2, <2>1 DEF RunnersInv, Built
<1>5. SavedInv'
  <2> SUFFICES ASSUME saved'
               PROVE  Valid'
    BY DEF SavedInv
  <2>1. CASE skill'.text # skill.text
    BY <2>1 DEF FolderStep
  <2>2. CASE skill'.text = skill.text
    <3>1. saved /\ file'[Tools] = "whole"
      BY <2>2 DEF FolderStep
    <3>2. /\ Listed /\ file[Tools] = "whole"
          /\ listed[skill.text] \subseteq
               code.scanned \cup (IF skill.identity THEN IdentityTools ELSE {})
      BY <1>1, <3>1 DEF SavedInv, Valid
    <3>3. code' = code
      BY <3>2 DEF FolderStep
    <3>4. /\ KeysInv /\ skill \in Skills /\ edits \in 0..MaxEdits /\ MaxEdits \in Nat
          /\ edits' \in 0..MaxEdits
      BY <1>1, <1>3 DEF FolderInv, TypesOK
    <3>5. skill.text \in 1..edits /\ skill.text \in 1..MaxEdits
      BY <3>2, <3>4 DEF KeysInv, Listed, Skills
    <3>6. skill' # NoSkill
      BY <2>2, <3>5 DEF NoSkill
    <3>7. skill'.identity = skill.identity
      BY <1>3, <2>2, <3>6 DEF Keeps
    <3>8. listed'[skill.text] = listed[skill.text]
      <4>1. CASE UNCHANGED listed
        BY <4>1
      <4>2. CASE edits' # edits
        <5>1. skill.text # edits'
          BY <1>3, <3>4, <3>5, <4>2
        <5>2. PICK names :
                listed' = [t \in 1..MaxEdits |-> CASE t = edits' -> names
                                                   [] t = skill.text -> listed[t]
                                                   [] OTHER -> {}]
          BY <4>2 DEF FolderStep
        <5>3. QED
          BY <3>5, <5>1, <5>2
      <4>3. QED
        BY <4>1, <4>2 DEF FolderStep
    <3>9. QED
      BY <2>2, <3>1, <3>2, <3>3, <3>6, <3>7, <3>8 DEF Valid, Listed
  <2>3. QED
    BY <2>1, <2>2
<1>6. QED
  BY <1>3, <1>4, <1>5 DEF IInv

\* A runtime that is built has all the tools that the text lists.
LEMMA BuildsWhole ==
  ASSUME NEW c \in Modules, NEW second \in BOOLEAN, RunnersInv, SavedInv, Builds(c)
  PROVE  /\ Built(Runner(c, second))
         /\ ~second => Runner(c, second).second = {}
<1>1. saved => listed[skill.text] \subseteq Looked
  <2>1. code.scanned \subseteq Looked
    BY DEF RunnersInv, Looked
  <2>2. QED
    BY <2>1 DEF SavedInv, Valid, Looked
<1>2. QED
  BY <1>1 DEF Builds, Runner, Built

\* The folder stays as it is while it is read.
LEMMA ReadersKeep ==
  ASSUME FolderInv, SavedInv, UNCHANGED <<vars, listed, code, saved>>
  PROVE  FolderInv' /\ SavedInv'
<1>1. FolderInv'
  BY FolderStays
<1>2. SavedInv'
  BY DEF SavedInv, Valid, Listed, vars, disk
<1>3. QED
  BY <1>1, <1>2

\* Each step keeps all of it.
LEMMA IInvStep ==
  ASSUME IInv, [SNext]_sessionVars
  PROVE  IInv'
<1>1. FolderInv /\ SavedInv /\ RunnersInv
  BY DEF IInv
<1>2. CASE FolderStep
  BY <1>2, FolderStepKeeps
<1>3. CASE EditTools
  <2>1. FolderInv' /\ ~saved'
    BY <1>1, <1>3, FolderStays DEF EditTools
  <2>2. RunnersInv'
    BY <1>1, <1>3 DEF EditTools, RunnersInv, runners
  <2>3. QED
    BY <2>1, <2>2 DEF IInv, SavedInv
<1>4. CASE StudioCrash
  <2>1. FolderInv'
    BY <1>1, <1>4, CrashStep DEF StudioCrash
  <2>2. SavedInv'
    BY <1>1, <1>4 DEF StudioCrash, Crash, SavedInv, Valid, Listed
  <2>3. RunnersInv'
    BY <1>1, <1>4 DEF StudioCrash, RunnersInv, NoRunner
  <2>4. QED
    BY <2>1, <2>2, <2>3 DEF IInv
<1>5. ASSUME NEW s \in Sids, Test(s)
      PROVE  IInv'
  <2>1. FolderInv' /\ SavedInv'
    BY <1>1, <1>5, ReadersKeep DEF Test
  <2>2. session' = [session EXCEPT ![s] = SessionOf(s)] /\ cli' = cli /\ code' = code
    BY <1>5 DEF Test
  <2>3. SessionOf(s).at = "runs" => Built(SessionOf(s)) /\ SessionOf(s).second = {}
    <3>1. CASE session[s] = NoRunner /\ file[Tools] = "whole" /\ Builds(code)
      <4>1. code \in Modules
        BY <1>1 DEF RunnersInv
      <4>2. QED
        BY <1>1, <3>1, <4>1, BuildsWhole DEF SessionOf
    <3>2. CASE ~(session[s] = NoRunner /\ file[Tools] = "whole" /\ Builds(code))
      BY <1>1, <3>2 DEF SessionOf, RunnersInv
    <3>3. QED
      BY <3>1, <3>2
  <2>4. RunnersInv'
    BY <1>1, <2>2, <2>3 DEF RunnersInv, Built
  <2>5. QED
    BY <2>1, <2>4 DEF IInv
<1>6. ASSUME NEW s \in Sids, Reset(s)
      PROVE  IInv'
  <2>1. FolderInv' /\ SavedInv'
    BY <1>1, <1>6, ReadersKeep DEF Reset
  <2>2. RunnersInv'
    BY <1>1, <1>6 DEF Reset, RunnersInv, NoRunner
  <2>3. QED
    BY <2>1, <2>2 DEF IInv
<1>7. ASSUME NEW from, NEW to, CliStep(from, cli'),
             cli'.at = "imported" => cli' = [at |-> "imported", code |-> cli'.code],
             cli'.at \in {"imported", "read"} => cli'.code \in Modules,
             cli'.at = "runs" => Built(cli')
      PROVE  IInv'
  <2>1. FolderInv' /\ SavedInv'
    BY <1>1, <1>7, ReadersKeep DEF CliStep
  <2>2. RunnersInv'
    BY <1>1, <1>7 DEF CliStep, RunnersInv
  <2>3. QED
    BY <2>1, <2>2 DEF IInv
<1>8. CASE CliImports
  <2>1. CliStep("none", cli') /\ cli' = [at |-> "imported", code |-> code]
    BY <1>8 DEF CliImports, CliStep
  <2>2. code \in Modules
    BY <1>1 DEF RunnersInv
  <2>3. QED
    BY <1>7, <2>1, <2>2
<1>9. CASE CliReads
  <2>1. CliStep("imported", cli') /\ cli' \in {[cli EXCEPT !.at = "read"], NoRunner}
    BY <1>9 DEF CliReads, CliStep
  <2>2. cli = [at |-> "imported", code |-> cli.code] /\ cli.code \in Modules
    BY <1>1, <2>1 DEF CliStep, RunnersInv
  <2>3. /\ [cli EXCEPT !.at = "read"].at = "read" /\ NoRunner.at = "none"
        /\ [cli EXCEPT !.at = "read"].code = cli.code
    BY <2>2 DEF NoRunner
  <2>4. cli'.at \in {"read", "none"} /\ (cli'.at = "read" => cli'.code \in Modules)
    BY <2>1, <2>2, <2>3
  <2>5. QED
    BY <1>7, <2>1, <2>4
<1>10. CASE CliBuilds
  <2>1. /\ CliStep("read", cli')
        /\ cli' = IF Builds(cli.code) THEN Runner(cli.code, TRUE) ELSE NoRunner
    BY <1>10 DEF CliBuilds, CliStep
  <2>2. cli'.at \notin {"imported", "read"}
    BY <2>1 DEF Runner, NoRunner
  <2>3. cli'.at = "runs" => Built(cli')
    <3>1. cli.code \in Modules
      BY <1>1, <2>1 DEF CliStep, RunnersInv
    <3>2. QED
      BY <1>1, <2>1, <3>1, BuildsWhole DEF NoRunner
  <2>4. QED
    BY <1>7, <2>1, <2>2, <2>3
<1>11. CASE CliEnds
  <2>1. CliStep("runs", cli') /\ cli' = NoRunner
    BY <1>11 DEF CliEnds, CliStep
  <2>2. cli'.at = "none"
    BY <2>1 DEF NoRunner
  <2>3. QED
    BY <1>7, <2>1, <2>2
<1>12. CASE UNCHANGED sessionVars
  <2>1. FolderInv' /\ SavedInv'
    BY <1>1, <1>12, ReadersKeep DEF sessionVars
  <2>2. RunnersInv'
    BY <1>1, <1>12 DEF sessionVars, runners, RunnersInv
  <2>3. QED
    BY <2>1, <2>2 DEF IInv
<1>13. QED
  BY <1>2, <1>3, <1>4, <1>5, <1>6, <1>8, <1>9, <1>10, <1>11, <1>12 DEF SNext

\* There is no folder, and nobody runs.
LEMMA IInvInit == SInit => IInv
<1> SUFFICES ASSUME SInit
             PROVE  IInv
  OBVIOUS
<1>1. /\ there = FALSE /\ file = [f \in Files |-> "none"] /\ skill = NoSkill
      /\ todo = <<>> /\ registry \in [Connectors -> Versions]
      /\ edits = 0 /\ deleting = FALSE /\ reinstalling = {}
      /\ saved = FALSE /\ code = Scaffolded /\ session = [s \in Sids |-> NoRunner] /\ cli = NoRunner
  BY DEF SInit, Init
<1>2. DOMAIN todo = {} /\ todo \in Seq(Operations)
  BY <1>1, EmptySeq
<1>3. NoSkill \in Skills /\ NoSkill.text = 0 /\ NoRunner.at = "none"
  BY DEF NoSkill, Skills, NoRunner
<1>4. TypesOK
  <2>1. file \in [Files -> {"none", "torn", "whole"}]
    BY <1>1
  <2>2. edits \in 0..MaxEdits
    BY <1>1
  <2>3. there \in BOOLEAN /\ deleting \in BOOLEAN /\ reinstalling \subseteq Connectors
    BY <1>1
  <2>4. QED
    BY <1>1, <1>2, <1>3, <2>1, <2>2, <2>3 DEF TypesOK
<1>5. HandlerInv /\ PromiseInv
  BY <1>1, <1>2 DEF HandlerInv, Ordered, PromiseInv, Fills, Listed
<1>6. KeysInv
  BY <1>1, <1>2, <1>3 DEF KeysInv
<1>7. ListedIsWhole
  BY <1>1 DEF ListedIsWhole, Listed
<1>8. SavedInv /\ RunnersInv
  BY <1>1, <1>3, SessionsAssumption DEF SavedInv, RunnersInv
<1>9. QED
  BY <1>4, <1>5, <1>6, <1>7, <1>8 DEF IInv, FolderInv

-----------------------------------------------------------------------------
(* Theorems *)

\* The folder, what was saved and who runs are as they must be, whatever the Studio
\* and `conexus run-agent` do.
THEOREM SessionsInvariant == SSpec => []IInv
<1>1. SInit => IInv
  BY IInvInit
<1>2. IInv /\ [SNext]_sessionVars => IInv'
  BY IInvStep
<1>3. QED
  BY <1>1, <1>2, PTL DEF SSpec

\* An agent that can be started has its tools and its packs, wherever a handler of the
\* Studio breaks off (scaffold_agent, save, install_connector); but for a folder that a
\* deletion has begun to empty, and a connector whose pack is being rewritten.
THEOREM ListedAreWhole == SSpec => []ListedIsWhole
<1>1. IInv => ListedIsWhole
  BY DEF IInv, FolderInv
<1>2. QED
  BY <1>1, SessionsInvariant, PTL

\* What a form does not have is kept by every replacement of SKILL.md.
THEOREM KeysAreKept == SSpec => KeysKept
<1>1. IInv /\ [SNext]_sessionVars =>
        [ skill' # skill =>
            \/ skill.dashes \/ deleting
            \/ skill.refs \subseteq skill'.refs /\ (skill.identity => skill'.identity) ]_vars
  <2> SUFFICES ASSUME IInv, SNext, skill' # skill
               PROVE  \/ skill.dashes \/ deleting
                      \/ skill.refs \subseteq skill'.refs /\ (skill.identity => skill'.identity)
    BY DEF sessionVars, vars, disk
  <2>1. Works
    BY DEF SNext, FolderStep, EditTools, StudioCrash, Crash, CliImports, CliReads, CliBuilds,
           CliEnds, CliStep, Test, Reset, vars, disk
  <2>2. Keeps(skill') \/ deleting
    BY <2>1, WorksStep DEF IInv
  <2>3. QED
    BY <2>2 DEF Keeps
<1>2. QED
  BY <1>1, SessionsInvariant, PTL DEF SSpec, KeysKept

\* What a session or a run offers the LLM is in its registry, when validate_agent had
\* let the agent through: it looks for public names only, and build_runtime has a
\* schema for each (run_one_message, build_runtime).
THEOREM ValidatedAreServed == SSpec => []ValidatedToolsServed
<1>1. IInv => ValidatedToolsServed
  <2> SUFFICES ASSUME IInv, NEW r \in Runs, r.valid, NEW t \in r.schemas
               PROVE  t \in r.code.callable /\ (t \in r.second => r = cli)
    BY DEF ValidatedToolsServed
  <2>1. RunnersInv
    BY DEF IInv
  <2>2. r.at = "runs" /\ (r = cli \/ \E s \in Sids : r = session[s])
    BY DEF Runs
  <2>3. Built(r) /\ (t \in r.second => r = cli)
    BY <2>1, <2>2 DEF RunnersInv
  <2>4. QED
    BY <2>3, SessionsAssumption DEF Built
<1>2. QED
  BY <1>1, SessionsInvariant, PTL

\* What save answered "saved" for starts, where tools.py is as validate_agent reads it,
\* or lists a tool that it takes for one of the identity (validate_agent, build_runtime).
THEOREM SavedAgentsStart == SSpec => []SavedStarts
<1>1. IInv => SavedStarts
  <2> SUFFICES ASSUME IInv, saved, ReadAsBuilt, ~Builds(code)
               PROVE  skill.identity /\ listed[skill.text] \cap IdentityTools # {}
    BY DEF SavedStarts
  <2>1. /\ Listed
        /\ listed[skill.text] \subseteq
             code.scanned \cup (IF skill.identity THEN IdentityTools ELSE {})
    BY DEF IInv, SavedInv, Valid
  <2>2. PICK t \in listed[skill.text] : t \notin code.described
    BY <2>1 DEF Builds, ReadAsBuilt
  <2>3. t \notin code.scanned
    BY <2>2 DEF ReadAsBuilt
  <2>4. QED
    BY <2>1, <2>2, <2>3
<1>2. QED
  BY <1>1, SessionsInvariant, PTL
=============================================================================
