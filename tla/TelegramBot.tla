---------------------------- MODULE TelegramBot ----------------------------
(***************************************************************************)
(* One TelegramBot: the updates it is given, one after the other, and the  *)
(* texts that scheduled jobs send through it at the same time.  A text     *)
(* longer than Limit goes out in parts, each a request of its own that may *)
(* fail.  Telegram, the agent behind message_handler and the transcription *)
(* are external.  A step is the code between two awaits.                   *)
(*                                                                         *)
(* A text is a sequence: NL is a newline, any other number a character.    *)
(***************************************************************************)
EXTENDS Integers, Sequences, FiniteSetsExt

CONSTANTS
  Limit,        \* the longest message Telegram takes (4096 in the code)
  Replies, JobTexts, \* texts of the agent and of jobs
  Users, Owner, \* Owner is the authorized user
  MaxOrphans    \* bound: files nobody will remove

NL == 0
Texts == Seq(Nat)
Apology == <<1>>           \* a short text
Heading == <<1, NL, NL>>   \* what was heard

ASSUME BotAssumption ==
         /\ Limit \in Nat /\ Limit >= Len(Heading)
         /\ Replies \cup JobTexts \subseteq Texts \ {Apology}
         /\ Owner \in Users /\ MaxOrphans \in Nat

VARIABLES
  update,       \* the update that is handled
  job,          \* the text that a job sends
  shown,        \* the parts that the chat shows of each of the two: the text, and, for
                \* history, where in the whole text it begins
  files,        \* temporary files of PDFs, how many
  orphans       \* history: files of failed writes and of dead processes

botVars == <<update, job, shown, files, orphans>>

\* pc: "ack", "fetch" (the transcription, or the file of a PDF), "write" that file,
\* "handle", "send" what is left of a text, "sorry".  path: the path of the file is
\* known.  answered: the agent has answered, so the chat history has the exchange.
Kinds == {"text", "voice", "pdf", "usage"}
NoUpdate == [pc |-> "idle", kind |-> "none", full |-> <<>>, left |-> <<>>,
             path |-> FALSE, answered |-> FALSE]
NoJob == [busy |-> FALSE, full |-> <<>>, left |-> <<>>]

BotInit ==
  /\ update = NoUpdate /\ job = NoJob
  /\ shown = [update |-> <<>>, job |-> <<>>]
  /\ files = 0 /\ orphans = 0

UpdateAt(pc) == update.pc = pc
UpdateGoes(pc) == update' = [update EXCEPT !.pc = pc]

-----------------------------------------------------------------------------
(* _split_text *)

\* Bug: newlines at the cut stay, at the start of the rest.
NoStrip(text) == text

\* lstrip("\n")
Strip(text) ==
  LET at == {i \in DOMAIN text : text[i] # NL}
  IN  IF at = {} THEN <<>> ELSE SubSeq(text, Min(at), Len(text))

\* The length of the first part: up to the last newline within Limit, but for one at
\* the very beginning.
Cut(text) ==
  LET at == {i \in 2..Limit : text[i] = NL}
  IN  IF at = {} THEN Limit ELSE Max(at) - 1

Part(text) == IF Len(text) <= Limit THEN text ELSE SubSeq(text, 1, Cut(text))
Rest(text) ==
  IF Len(text) <= Limit THEN <<>> ELSE Strip(SubSeq(text, Cut(text) + 1, Len(text)))

\* Telegram refuses a message without text.
Refused(part) == \A i \in DOMAIN part : part[i] = NL

\* A part that is sent, of a text of which only some is left.
PartOf(s) == [text |-> Part(s.left), at |-> Len(s.full) - Len(s.left) + 1]

-----------------------------------------------------------------------------
(* Updates *)

\* An update comes from a user in the chat with the bot, in an allowed group or in
\* another one, and may address the bot.
Updates == [kind : Kinds, from : Users, chat : {"private", "allowed", "other"},
            addressed : BOOLEAN]
Authorized(u) == u.from = Owner /\ u.chat # "other"
IsForMe(u) == u.chat = "private" \/ u.addressed

\* The next update is begun; others are dropped.
Take(u) ==
  /\ UpdateAt("idle") /\ Authorized(u) /\ (IsForMe(u) \/ u.kind = "usage")
  /\ update' = [NoUpdate EXCEPT !.kind = u.kind,
                   !.pc = IF u.kind \in {"voice", "pdf"} THEN "ack" ELSE "handle"]
  /\ shown' = [shown EXCEPT !.update = <<>>]
  /\ UNCHANGED <<job, files, orphans>>

\* Bug: the file of a PDF is removed when its answer was sent.
EndsWithoutFinally ==
  /\ update' = NoUpdate
  /\ files' = IF update.path /\ UpdateAt("send") THEN files - 1 ELSE files

\* The handler is left; finally removes the file, if its path is known.
Ends ==
  /\ update' = NoUpdate
  /\ files' = IF update.path THEN files - 1 ELSE files

\* Bug: the sending of an answer to a text is inside the try as well.
CaughtEverywhere == update.kind # "usage" /\ update.pc \in {"fetch", "handle", "send"}

\* Where an exception is caught: for voice and PDF also around the sending.
Caught ==
  /\ update.kind \in {"text", "voice", "pdf"}
  /\ UpdateAt("handle") \/ (update.kind # "text" /\ update.pc \in {"fetch", "send"})

SendsText(text) == update' = [update EXCEPT !.pc = "send", !.full = text, !.left = text]

HandlerRaises ==
  IF ~Caught THEN Ends
  ELSE /\ IF update.kind = "text" THEN SendsText(Apology) ELSE UpdateGoes("sorry")
       /\ UNCHANGED files

Ack ==
  /\ UpdateAt("ack") /\ UpdateGoes("fetch")
  /\ UNCHANGED <<job, shown, files, orphans>>

Fetched ==
  /\ UpdateAt("fetch") /\ UpdateGoes(IF update.kind = "pdf" THEN "write" ELSE "handle")
  /\ UNCHANGED <<job, shown, files, orphans>>

\* NamedTemporaryFile makes the file; its path is known once it is written.
Written ==
  /\ UpdateAt("write")
  /\ update' = [update EXCEPT !.pc = "handle", !.path = TRUE]
  /\ files' = files + 1
  /\ UNCHANGED <<job, shown, orphans>>

WriteFails ==
  /\ UpdateAt("write") /\ orphans < MaxOrphans /\ UpdateGoes("sorry")
  /\ files' = files + 1 /\ orphans' = orphans + 1
  /\ UNCHANGED <<job, shown>>

\* message_handler, or the handler of the usage command, returns.
Answer(reply) ==
  /\ UpdateAt("handle")
  /\ LET text == IF update.kind = "voice" THEN Heading \o reply ELSE reply
     IN  update' = [update EXCEPT !.pc = "send", !.full = text, !.left = text,
                                  !.answered = TRUE]
  /\ UNCHANGED <<job, shown, files, orphans>>

SendPart ==
  /\ UpdateAt("send") /\ ~Refused(Part(update.left))
  /\ shown' = [shown EXCEPT !.update = Append(@, PartOf(update))]
  /\ IF Rest(update.left) = <<>> THEN Ends
     ELSE update' = [update EXCEPT !.left = Rest(@)] /\ UNCHANGED files
  /\ UNCHANGED <<job, orphans>>

Sorry ==
  /\ UpdateAt("sorry") /\ Ends
  /\ UNCHANGED <<job, shown, orphans>>

\* Bug: a part that could not be sent is sent again, for as long as it takes.
FailsAndTriesAgain ==
  /\ update.pc \in {"ack", "fetch", "handle", "sorry"} /\ HandlerRaises
  /\ UNCHANGED <<job, shown, orphans>>

\* A request fails, or message_handler raises, also because a progress report could
\* not be sent.
Fails ==
  /\ update.pc \in {"ack", "fetch", "handle", "send", "sorry"} /\ HandlerRaises
  /\ UNCHANGED <<job, shown, orphans>>

-----------------------------------------------------------------------------
(* Jobs *)

\* send
JobSends(text) ==
  /\ ~job.busy /\ job' = [busy |-> TRUE, full |-> text, left |-> text]
  /\ shown' = [shown EXCEPT !.job = <<>>]
  /\ UNCHANGED <<update, files, orphans>>

JobPart ==
  /\ job.busy /\ ~Refused(Part(job.left))
  /\ shown' = [shown EXCEPT !.job = Append(@, PartOf(job))]
  /\ job' = IF Rest(job.left) = <<>> THEN NoJob ELSE [job EXCEPT !.left = Rest(@)]
  /\ UNCHANGED <<update, files, orphans>>

JobFails ==
  /\ job.busy /\ job' = NoJob
  /\ UNCHANGED <<update, shown, files, orphans>>

\* The process dies and is started again; the update is lost.
BotCrash ==
  /\ files <= MaxOrphans
  /\ update' = NoUpdate /\ job' = NoJob /\ orphans' = files
  /\ UNCHANGED <<shown, files>>

-----------------------------------------------------------------------------

Handling ==
  \/ Ack \/ Fetched \/ Written \/ WriteFails
  \/ \E reply \in Replies : Answer(reply)
  \/ SendPart \/ Sorry \/ Fails

BotNext ==
  \/ \E u \in Updates : Take(u)
  \/ Handling
  \/ \E text \in JobTexts : JobSends(text)
  \/ JobPart \/ JobFails \/ BotCrash

BotSpec == BotInit /\ [][BotNext]_botVars

\* A request is answered or times out, and message_handler returns or raises.
FairBotSpec == BotSpec /\ WF_botVars(Handling)

-----------------------------------------------------------------------------
(* Properties *)

\* Between two places of a text there are only newlines.
OnlyNewlines(text, first, last) == \A k \in first..last : text[k] = NL

\* The parts are pieces of the text that follow on one another, and what is left of it
\* on them; between them are only newlines.
InOrder(parts, s) ==
  LET n == Len(parts)
      left == Len(s.full) - Len(s.left) + 1
      start(i) == IF i > n THEN left ELSE parts[i].at
      end(i) == parts[i].at + Len(parts[i].text) - 1
  IN  /\ start(1) = 1 /\ s.left = SubSeq(s.full, left, Len(s.full))
      /\ \A i \in 1..n : /\ parts[i].text = SubSeq(s.full, parts[i].at, end(i))
                         /\ end(i) < start(i + 1)
                         /\ OnlyNewlines(s.full, end(i) + 1, start(i + 1) - 1)

\* Telegram refuses a part without text; such a part is only the first, of a text
\* that is empty or begins with a newline (_split_text strips newlines at a cut).  And
\* when no part remains after this one, only newlines are left out.
NothingLost(s) ==
  /\ Refused(Part(s.left)) => s.left = s.full /\ (s.full = <<>> \/ s.full[1] = NL)
  /\ Rest(s.left) = <<>> => OnlyNewlines(s.left, Len(Part(s.left)) + 1, Len(s.left))

\* What the chat shows of an answer and of a job's text is its beginning, in order
\* and with every character but newlines, in parts that Telegram takes, and the rest
\* of a text is never lost to a part without text: also while the two are sent in
\* turns, and when a part fails.
PartsInOrder ==
  /\ \A by \in {"update", "job"} : \A i \in DOMAIN shown[by] :
       Len(shown[by][i].text) <= Limit /\ ~Refused(shown[by][i].text)
  /\ UpdateAt("send") => InOrder(shown.update, update) /\ NothingLost(update)
  /\ job.busy => InOrder(shown.job, job) /\ NothingLost(job)

\* The file of a PDF is there while the agent works with it, and gone when the
\* update is done, however it ends: but for a process that died, and a write that
\* failed after the file was made.
FilesGone == files = orphans + (IF update.path THEN 1 ELSE 0)

\* A user who sent a text and is told to try again has not been answered: the chat
\* history does not have the exchange yet.  (After voice and PDF it may.)
SorryOnlyUnanswered ==
  update.kind = "text" /\ update.full = Apology => ~update.answered

\* Every update comes to its end, and the next one is taken.
EveryUpdateEnds == ~UpdateAt("idle") ~> UpdateAt("idle")
=============================================================================
