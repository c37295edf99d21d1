# Conexus framework in TLA+

Specifications of the concurrent and stateful parts of the Conexus agent
framework, TLC configurations that check them on small instances, and TLAPS
proofs of the properties that matter most.

Paths below are relative to `src/src/conexus/` unless they start with `docs/`
(which is `src/docs/wiki/agents-framework/`).

1. [Inventory](#inventory)
2. [Modules and code](#modules-and-code)
3. [Runs](#runs)
4. [Fairness](#fairness)
5. [Proofs](#proofs)
6. [Where code and documents disagree](#where-code-and-documents-disagree)
7. [What is not modelled](#what-is-not-modelled)
8. [Plan](#plan)

To check everything:

    tlc -workers 2 -config TeamLoop.cfg MCTeamLoop      # and so on, see Runs
    tlapm TeamLoopProofs.tla                            # and the other *Proofs.tla

## Inventory

The framework runs LLM agents.  A message reaches an agent from Telegram, from
the command line or from the Studio (a web interface); the agent's loop asks an
LLM, which answers with text or with calls of tools; tools are Python functions
or come from MCP servers.  Agents of a team delegate to each other.  All of it
is one process with one asyncio event loop, so code between two awaits is
atomic; but several processes (bot, command line, Studio) may share one SQLite
file and one agent folder.

| Component | State it keeps | Operations | What is hard | What makes it correct |
|---|---|---|---|---|
| Team loop (`core/agent_handler.py`, `handle_team_message`) | a stack of frames, each with its transcript, turns, guard and the handoff that started it | LLM turn, tool call, delegation, reply | the order of checks inside a batch, what survives a delegation or a return, the four ways a session ends | no leak along a chain of guards, bounded depth, every session ends, audit rows match what was done |
| Trifecta guard (`core/trifecta`) | taint set, clearance | `check_and_record`, `from_handoff`, `clear_boundary` | taint over several frames, undeclared and misspelt tags | no external write after an untrusted and a private read |
| Handoff, router, registry (`core/team`) | members, edges, manager; one audit row per route | `next_hop`, `route` | hop accounting, the order of resolution, conditions that raise | hops bound depth; every route leaves a row with its outcome |
| Audit and replay (`core/memory/*_audit.py`, `core/team/replay.py`) | audit tables | `record_handoff`, `record_tool_call`, `replay_session` | calls that leave the loop before their row | nothing but the last call of a session lacks a row |
| Single-agent loop (`handle_agent_message`) | chat history, guard | LLM turn, tool call, reply | several messages of one agent interleave at every await | every user row is answered or its message broke; every message ends |
| Budgets (`core/budget`, `core/team/budget_cascader.py`) | usage rows; spent per member, halted members | `check`, `log_call`, `check_and_debit` | check then act over awaits, UTC stamps against local days, the pool against the shares | overshoot of a cap is bounded; nobody starts over the cap of the local day; what is borrowed is in the pool |
| LLM router (`core/llm/router.py`) | one semaphore, usage rows | `complete`, `acall` | retries, fallbacks, slots, failed bookkeeping | slots never sit in a pause; each provider tried has its row |
| History compactor (`core/history`) | chat rows, one rolling summary | `build` | three statements without a transaction, several processes | a summary is made of exactly the rows it says it covers; prompts repeat nothing, and have no gap where they were compacted |
| MCP over stdio (`core/backends/mcp_stdio_backend.py`) and skill loader (`core/skills`) | child process, request id, lock | `start`, `stop`, `_call`, `execute`, `start_all`, `stop_all` | correlation of answers, cancelled calls, servers that die or block, starts that fail halfway | a call takes its own answer; the handshake is first; nothing outlives a `stop_all` that comes to it |
| MCP over HTTP (`core/backends/mcp_http_backend.py`) and vault (`core/vault`) | token row shared by backends, a lock per backend, HTTP session | `start`, `_call`, `execute`, `_refresh_then_get` | refresh after a 401, refreshes that race, answers that are lost, calls cancelled and processes that die in the middle | a spent refresh token stays in the vault only if the call that had sent it was broken off; the lock is always released |
| OAuth connect (`core/oauth`, `web/oauth_router.py`) | client rows, pending verifiers | start, callback, refresh | links opened twice, redirects repeated, two registrations at once, restart | a callback sends the verifier of its own link, once, for the registered client |
| Scheduler (`core/scheduler`, `ping_log`) | rows of pings | tick, catch-up | restart between ticks, ticks during catch-up, a job that raises or is cancelled, also after its message went out | a message is sent again only after an overlap or a run that broke off; catch-up leaves nothing due |
| Wiki store (`core/memory/wiki_store.py`) | files, index, git repository | write, delete, append, commit and push | every git command may fail or be cut off | a page written is not lost; a push publishes all |
| Studio files (`web/admin`) | the folder of an agent | create, save, install, delete | failure between two file operations, a stale form | a listed agent is whole; keys the form does not show are kept |
| Studio sessions and validation (`web/admin/services/runner_proxy.py`, `validators.py`), `conexus run-agent` (`cli/runner.py`) | cached sessions; one runtime per run | chat, reset, validate, build | a session older than the agent it runs; validator, builder and registry each look at something else | the tools the LLM is told of can be called, if the agent was validated; what was saved without an error starts, if `tools.py` is as it was read |
| Telegram bot (`core/messaging`, `adapters`) | the update that is handled, a temporary file, a job's text | split, authorise, dispatch, send | an answer sent in parts, each of which may fail; exceptions inside and outside the try | parts in order and complete; files removed; no apology for what was answered; the next update is taken |
| Identity (`core/identity`) | memory blocks, facts | set, read | size caps | not modelled, see below |
| The rest: configuration, prices, schemas, command line, MCP producer, calendar client | none that changes while messages are handled | parsing, wiring, pure I/O | | not modelled |

How they interact: both loops call the LLM router (`acall`) and the tool
backends (`execute`), and write audit and usage rows; the single-agent loop
builds its prompt with the compactor and asks the cap first; a delegation of the
team loop goes through `next_hop` and the router, and hands the taint of the
guard on to the next frame; HTTP backends share token rows with the OAuth router;
the scheduler's jobs and the tools of the wiki run inside the same event loop.
`PROJECT.json` lists every component with its status, and under `hazards` what is
hard to test, each at its line with the properties that watch it.

## Modules and code

One module per component.  A step is the code between two awaits unless the
module says otherwise, so that a step is atomic exactly where the event loop
makes it so; where the state is shared by processes (compactor) or a step may
fail in the middle (wiki, Studio), a step is one statement, command or file
operation.  Texts are abstracted to what the properties tell apart.

| Module | Models | Uses |
|---|---|---|
| `TrifectaGuard` | the class of a tool, what the guard refuses and records | |
| `HandoffRouter` | resolution of a target over members, edges and manager; the outcome of the row | |
| `TeamLoop` | `handle_team_message` | extends both |
| `SerialDelegation` | the abstract promise of a team session: nested, serial, bounded work | |
| `TeamLoopRefinement` | the mapping from the loop to `SerialDelegation` | `TeamLoop`, `SerialDelegation` |
| `LLMRouter` | `acall` with providers, attempts, the semaphore, usage rows | |
| `AgentMessages` | `handle_agent_message`, many messages at a time, `CapChecker` | extends `LLMRouter` |
| `HistoryCompactor` | `build` and its statements on chat and summary rows | |
| `McpStdio` | stdio backends, `start_all`, `stop_all` | |
| `McpHttpCalls` | calls over HTTP with refresh, the token row | |
| `OAuthConnect` | `/oauth/start`, `/oauth/callback`, `ensure_client` | |
| `ConexusScheduler` | ticks, `catchup`, `ping_log` | |
| `WikiStore` | the wiki's files and every git command after a change | |
| `Studio` | the folder of one agent and the handlers that change it | |
| `StudioSessions` | the test sessions of the Studio, validation, `conexus run-agent` | extends `Studio` |
| `TelegramBot` | every handler of the bot, the parts of a text, jobs that send | |
| `TeamBudgets` | `CapChecker` over rows in UTC, `BudgetCascader` | |
| `TeamLoopProofs` | theorems about the team loop and its refinement | `TeamLoopRefinement` |
| `AgentMessagesProofs` | theorems about messages and LLM calls | `AgentMessages` |
| `OAuthProofs` | theorems about connecting and about the vault | `OAuthConnect`, `McpHttpCalls` |
| `StudioSessionsProofs` | theorems about the Studio | `StudioSessions` |
| `PeriodProofs` | theorems about what goes by days: caps, the team's pool, scheduled jobs | `TeamBudgets`, `ConexusScheduler` |
| `ConversationProofs` | theorems about what is told: the parts of a text, the compactor's prompts | `TelegramBot`, `HistoryCompactor` |
| `McpStdioProofs`, `WikiStoreProofs` | theorems | the modules they are named after |
| `MC...` | constants for TLC | |

### TeamLoop

State: `stack` is `stack` of the code, a sequence of frames with the fields of
`_Frame` the control depends on: who, `turns_left`, `hop` (the `hop_count` of
`last_handoff`, or `NoHandoff` at the root), `return_on`, and the guard's taint.
`own` is history: the classes recorded in that frame itself, against which the
taint is judged.  `pc` says which await the loop is at; `left` how many calls of
the batch remain (which ones is chosen when each is reached: the code looks at a
call only in its turn, so this gives the same behaviours with less state).
`chat` and `lastRow` are the rows the session writes; `unrecorded` counts tool
calls without an audit row.

| Action | Code (`core/agent_handler.py`) |
|---|---|
| `DropExhausted`, `AskLLM`, `Finish` | head of the loop: a frame without turns is popped and nothing is said to its parent; a turn is paid; an empty stack stores and returns `last_reply` |
| `LLMFails`, `LLMCalls`, `Reply`, `ReplyTerminates` | what `acall` does; a reply pops its frame, the termination text ends the session from any frame |
| `DelegateMalformed`, `DelegateHopLimit`, `DelegateUnroutable`, `DelegateUnconfigured`, `Delegate` | the branches of a delegation in the order of their checks; a delegation drops the rest of its batch |
| `ToolBlocked`, `ToolStarts`, `ToolReturns`, `ToolNeedsAuth`, `ToolFails` | the guard, `execute_tool`, the audit row, and the two ways the call leaves the loop |
| `StatementFails` | a statement of the loop's own raises: the reply's row, the row of a blocked call, the row of a handoff |

`SerialDelegation` says what a session is to whoever starts it: one member works
at a time, at the cost of its turns, like nested procedure calls of bounded
depth.  The loop implements it, with `FramesBar`, `WorkingBar` and `OverBar` as
the mapping, liveness included.

### LLMRouter and AgentMessages

`sem` is the waiting line of the semaphore, whose first `Slots` tasks have a slot
(asyncio's semaphore is first in, first out).  `acall[t]` is a call: provider,
attempt, the providers with an error row.  `Answered`, `Overloaded`, `Retry`,
`Failed`, `RowFails` are the branches of the try of `acall`; `Failed` covers an
answer whose row could not be written, which the code treats as an error of that
provider, and `RowFails` an error row that could not be written, which leaves
`acall` at once.  `Take`, `NextTurn`, `Reply`, `Breaks` are the message around
it.  `Allowed` is `CapChecker.check` against the rows written so far.

### HistoryCompactor

`rows` holds the tokens of each chat row, `summary` the one row of
`chat_summaries` with `made`, the ids its text was made from: history, against
which `covers` is judged.  `ReadSummary`, `Fetch` and `Compact` are the three
statements of `build`; two processes run them in any order.  The messages of one
process are handled one after another.

### McpStdio

`queue[b]` is the lock of a backend with its waiters, `asker[b]` who made each
request (the position is the id), `pipe[b]` what is in the server's stdout.
Cancellation gives up the lock at any await; the answer then comes to the next
call, which must drop it.  `results` is history: who asked for what, and which
response it took.  The servers are external: they answer in any order, with results or
errors, write notifications, log to a stderr nobody reads, and die.

`start_all` may fail at each of its awaits: the command cannot be started
(`SpawnFails`), a request is answered by an error or by something `start` cannot use
(`ReadAnswer` with `ok` false), a line cannot be read (`ReadBreaks`), the server dies
(`CallFails`), or the task is cancelled (`Cancel`).  All but the first leave a process
that runs and is not initialised.  `stop_all` has no try: `StopRaises` is the
`ProcessLookupError` of a server that is dead already, or a cancellation.

### McpHttpCalls

`vault` is the row of `oauth_tokens`, shared by every backend for the server;
each backend has its own lock (`queue`).  Tokens are numbered by the grant that
issued them.  `_bearer` and the post are `Unconnected`, `Expired`, `Send`; the
401 path is `Refused`, `RefreshStored`, `RefreshGivesUp`, `RefusedForGood`.  The
server may refuse any token, as nothing depends on when it ended.  The
answer of the authorization server may be lost, which `RefreshGivesUp` in state
"refresh" or "answer" covers.

`BreaksOff` is a call that ends where it is without the code of the error path: its
task is cancelled (`CancelledError` is no `Exception`, so the `except` of
`_refresh_then_get` does not catch it), or the vault raises, also in `put` and
`delete`.  The lock is released, the row stays.  `Crash` is the death of the process:
all calls and locks are gone, the row stays.  After either a request that was sent may
still be accepted (`AuthServerAcceptsAdrift`).  `adrift` has those tokens, as only they
may be spent without anybody replacing their row.

The authorization server is external.  `rotates` says whether it gives a new refresh
token with each refresh and takes the old one no more, or never does; then the code
keeps the old one (`core/oauth/client.py` 143).  Nothing is claimed for a server that
rotates now and then.  That it ends a refresh token by itself is left out: the refusal
that follows is that of a spent one.

### OAuthConnect

`client` is the row of `oauth_clients`, `pkce` the table keyed by the nonce of a
link, `req` what each HTTP request is doing.  The authorization server registers
clients, opens consent pages and redeems a code once.  `sent` is history.
Requests with an invalid or expired state change nothing and are left out.

### ConexusScheduler

Time is in hours.  A job's `RefAt` is the day or week; a run of a job is
`MarkPending`, work, `Sends`, `MarkSent`.  `Raises` ends it at any of them: a
statement on `ping_log` may fail, the work or the sending may raise, and a message may
have been delivered before its sending raises (a lost answer, a later part).
`process` is up, shut or down: `Shutdown` cancels what cron runs, in a process that
lives on with what catch-up runs; `Crash` ends everything.  `CatchupFails` is a
`ping_was_sent` of catch-up itself that raises.  The jobs are external (they live with
the agents); they are modelled from the `ping_*` functions they call.

`delivered`, `again`, `met` and `cut` are history: what was sent, what was sent once
more, what two runs were at together, and what a run broke off from between
the delivery and its row.

### WikiStore

Page contents are version numbers; `Markers` is a file with conflict markers.
Every command of `_git_commit_push` is an action that works, fails (`GivesUp`,
`PullFails`) or is cut off (`PullCutOff`).  The function is synchronous and
blocks the event loop, so only the remote moves meanwhile.

### Studio

A handler is the sequence of file operations it has left; any may raise, the
process may die between two, and the state between two is visible to a process
that starts the agent.  A `write_text` empties and then fills; `SKILL.md` is
written to a temporary file and replaced.  `Works` is a step of a handler, which
`StudioSessions` takes over; `Next` adds the death of the process.

### StudioSessions

The folder of `Studio` together with those who read it.  `listed` gives each text
of `SKILL.md` the tools it lists.  `code` is `tools.py`, which is written by hand, as
the three that look at it see it:

| Field | Who looks | Code |
|---|---|---|
| `scanned` | `validate_agent`, `Valid`: the public methods of the first class in the source | `web/admin/services/tools_inspector.py` 25-29, 68-76 |
| `makes`, `described` | `build_runtime`, `Builds`: whether `create_cli_tools` returns, and the attributes of the class of what it returns, private ones too, whose annotations can be evaluated | `core/tools/schema_gen.py` 56-58 |
| `callable` | the registry: the public callables of that object | `core/backends/python_backend.py` 28-29 |

`SessionsAssumption` ties them in one place: a public name for which the class has a
signature can be called by it on its objects.  A save that reaches `Valid` answers
"saved" or 422 after it has written (`saved`); a runner remembers whether it was built
after a "saved" (`valid`).

| Action | Code |
|---|---|
| `FolderStep` | a file operation of a handler of `Studio`, and the validation that follows a new text |
| `EditTools` | `tools.py` becomes any of `Modules`, by hand or by the tool editor |
| `Test`, `Reset` | `run_one_message` and `reset_session`: the session is built once and kept, whatever becomes of the agent |
| `CliImports`, `CliReads`, `CliBuilds`, `CliEnds` | `run-agent`: the tools are imported, then the text is read twice, with the Studio writing in between |

Runners only read, so `Alone` lets one exist at a time: two of them would show
nothing that one does not.

### TelegramBot

`update` is the update that is handled (the bot takes them one after another),
`job` a text that a job of the scheduler sends through `send` meanwhile, at any
await.  A text is a sequence in which only newlines differ from other characters,
since that is what `_split_text` looks at; `Cut`, `Part` and `Rest` are its loop.
`Caught` says where an exception is inside the handler's try and what it leads to
(`HandlerRaises`): an apology in place of the answer for texts, an apology on top for
voice and PDF, nothing for the usage command.  `Ends` is the end of the handler with
its finally.  `shown` has the parts the chat shows; the place `at` of each in the whole
text is history, without which texts that repeat themselves could be confused.  `files` counts the temporary files of PDFs, `orphans` those that
nobody can remove, since their write failed or their process died.

### TeamBudgets

Time is in slots, `slot` of them gone by; a row's stamp is in UTC, `Offset` slots ahead,
and `Since` compares it with a local day as the code does, by the text of the date.  `Ask`, `Pay`, `End`
are a message, `Debit` is `check_and_debit` under each policy, `Restart` forgets the
cascader and keeps the rows.  Who calls the two is external: no code under `core/`
uses the cascader.

## Runs

"States" are distinct states.  Eleven runs must pass; one shows a statement of the
documentation that the code does not keep.  Names of definitions with a "Bug:"
comment are faults a plausible edit of the code would make; replacing the
definition they belong to by them makes TLC find a violation of the property they
are listed with in `PROJECT.json`, so that each property is known to be one the
code could break.

| Run | Module, cfg | States | What it shows |
|---|---|---|---|
| team_loop | `MCTeamLoop`, `TeamLoop.cfg` | 29,626 | taint follows the chain of guards and no call crosses it; depth is bounded; the tool audit lacks the last call at most; the session ends; the loop implements `SerialDelegation` |
| agent_messages | `AgentMessages`, `AgentMessages.cfg` | 233,582 | slots, usage rows, chat rows, the bound on overshoot, every message ends |
| history | `HistoryCompactor`, `HistoryCompactor.cfg` | 265,443 | a summary is the prefix it claims, without the newest rows, whichever builds interleave; prompts repeat nothing, and those that were compacted have no gap |
| mcp_stdio | `MCMcpStdio`, `McpStdio.cfg` | 148,212 | a call takes its own answer; the handshake comes first; what `stop_all` has gone through is gone, also after a start that failed at any await; calls end unless their server is blocked |
| mcp_http | `MCMcpHttpCalls`, `McpHttp.cfg` | 149,706 | spent refresh tokens leave the vault, and a backend never resends its own, but for calls that were broken off; through cancellations, failures of the vault and deaths of the process; every call ends |
| oauth_connect | `OAuthConnect`, `MCOAuthConnect.cfg` | 62,081 | client, verifier of the link, one exchange per verifier |
| scheduler | `MCConexusScheduler`, `ConexusScheduler.cfg` | 408,474 | what is sent again met another run or follows one that broke off; catch-up is complete, and ends |
| wiki | `WikiStore`, `WikiStore.cfg` | 213,787 | a page is lost only if written in a rebase left open; a push publishes the tree |
| telegram | `MCTelegramBot`, `TelegramBot.cfg` | 24,552 | texts arrive in order and complete but for what failed, files are removed, apologies are for what was not answered, every update ends |
| budgets | `MCTeamBudgets`, `TeamBudgets.cfg` | 2.9 million | caps hold in local time over rows in UTC; how far the pool can be overspent |
| studio | `MCStudioSessions`, `StudioSessions.cfg` | 4.96 million | listed agents are whole; keys are kept; sessions and runs of a validated agent can call what they list; what was saved starts |
| claim_identity_tools | `MCStudioSessions`, `ClaimIdentityTools.cfg` | violation | tools of an identity, listed as the tutorial says and "no `tools.py` changes needed": the save says "saved", and neither a session nor a run can be built |

Deadlock is checked in `mcp_http`, `oauth_connect`, `telegram`, `budgets` and
`studio`, which never stop.  The others may stop: a session is done, messages,
versions or hours are used up, or all servers are dead.

Type invariants are stated where proofs rest on them: `TypeOK` in `TeamLoop` and
`OAuthConnect`, and in the proof modules, where it is proved, `TypesOK`, or `UpdateOK`
for the bot and `SpendingTypesOK` for budgets.

### Bounds, and why they are enough

- **team_loop.** Three configured members (two with a guard, one without) and a
  name that an edge leads to but that has no configuration; `MaxHops` 1 gives
  stacks of three frames, so a guard may have a chain of two above it, and a
  broken one; `MaxTurns` 2 lets a frame go on after a child has returned; batches
  of two calls let a delegation drop a call and a tool follow a hop limit.  Tools
  of every class, declared, misspelt and undeclared.  The theorems remove these
  bounds for safety.
- **agent_messages.** Three tasks on two slots, so that one waits; two providers
  with two attempts each (three in the code) reach the second attempt, the
  fallback and the end of both; two turns; four messages under a cap of one
  call, so that the cap can be spent before three more begin together, which is
  what the bound on overshoot is about.
- **history.** Two processes; `KeepVerbatim` 2 of at most 6 rows, costs 1 and 3
  against a budget of 5, so that older rows fit, do not fit, or the pinned rows
  alone exceed it; summaries of two lengths, one too long for its budget.
- **mcp_stdio.** Two servers, so that one can fail before or after the other; two
  callers on the first, who may be cancelled, one behind the other in line.  The bound
  of three requests, two of which are the handshake, is looked at when a call begins, so
  that both may begin and the answer to a cancelled one come to the other.
- **mcp_http.** Two tasks on one backend and one on another: a race under one lock
  and a race across locks.  Three grants: connect, a refresh, and a second
  refresh or connect; calls are broken off and the process dies at any point and any
  number of times.  The theorems remove these bounds for safety.
- **oauth_connect.** Two requests at a time, two links, two registrations, three
  verifiers: a link opened twice and another one beside it.  The theorems remove
  these bounds.
- **scheduler.** Days of three hours, weeks of two days, hours 0 to 4 (so that the day
  changes and the first tick comes a second time), two starts of the process, three jobs:
  one with a window, one not to be caught up, one weekly without a window.
- **wiki.** Two pages and five versions: a conflict needs two, a loss after a
  rebase left open two more.
- **telegram.** A limit of three characters and texts of up to five with newlines at
  the start, at the cut, before it and in a row, so that each branch of the split
  is taken and a text has up to three parts; the heading of a voice answer makes
  them longer.  A job's text of two parts beside it; two files that nobody removes.
- **budgets.** Two members, one halted and one notified at its cap; two days of two
  slots and a month of two days, with UTC one slot ahead, so that the second half
  of each day has the stamp of the next, and the last one that of the next month;
  four calls of cost 1 or 2 against a daily cap of 2, a monthly one of 3 and a
  pool of 5; all three policies.
- **studio.** One connector in two versions, which the template may come with, and two
  texts, the one of the template and one that is saved over it: a form older than an
  installation, an upgrade, a text with "---".  One browser and one run, one at a
  time.  Six kinds of `tools.py`: the
  template's; one that defines a tool of the identity's name; one with a private
  method; one with another class first; one whose annotations cannot be evaluated; one
  whose `create_cli_tools` raises.  Forms list a public tool, a tool of the identity, or
  the private method.  `claim_identity_tools` has the first two kinds only.  The theorems
  remove these bounds.

`MaxGrants`, `MaxClients`, `MaxVerifiers`, `MaxCalls`, `MaxMessages`, `MaxRows`,
`MaxNow`, `MaxSlot`, `MaxBoots`, `MaxVersions`, `MaxEdits`, `MaxOrphans`, `MaxLength` and
`MaxBatch` are bounds of the models, and so is the guard `Alone`; `MaxHops`, `MaxTurns`, `MaxAttempts`, `Slots`, `Cap`, `KeepVerbatim`,
`Budget` and `TriggerPct` are parameters of the code.

### Some properties in more words

- **TaintIsTheChain.** A child's guard starts from the tags of its parent's guard;
  a member without tags has no guard and breaks the chain.  So a guard knows what
  the unbroken chain above it read and what it read itself, no more and no less.
  That the chain breaks at a member without a guard is what the code does, and a
  reader should know it: what was read above such a member is unknown below it.
- **OvershootBounded.** The cap is checked once per message, and charged when an
  answer's row is written, so messages handled together go over it.  The bound is
  what all tasks may take together.
- **EveryUserRowAnswered.** The user row is written before the LLM is asked and
  the assistant row on three ways out.  Rows without an answer are exactly those
  in progress and those whose handler raised.
- **VaultHonoured.** Two backends refresh the same row with a lock each.  Whoever
  loses the race gives up and deletes the row, the winner's too; what a refresh that
  comes to its end never leaves there is a spent token.  A refresh that is broken off
  does: its task was cancelled while it waited for the answer, or the process died, or
  `vault.put` raised.  Such a token is refused, and its row deleted, at its next use.
- **OwnTokensSentOnce.** The lock of a backend spans the refresh, so of two calls of
  one backend the second reads what the first has stored.  The same exception: after a
  refresh that was broken off the next call of the same backend reads the spent row and
  sends it again.
- **StopAllLeavesNothing.** A start that fails leaves a process that runs without
  `_initialized`, which `execute` takes for one that was never started; `stop` must not.
  It speaks of what `stop_all` has gone through: a stop that raises leaves the later
  servers running (see the divergences).
- **PromptSeamless.** The newest rows of a prompt follow each other, and nothing is
  told twice.  Where the build compacted, they begin right after what the summary covers.
  Where it did not, since what fits stays below the trigger (`core/history/compactor.py`
  82), the rows between the summary and those that fit are in neither, and the property
  allows it.
- **LostOnlyMidRebase.** The exception is a pull that its timeout cuts off, which
  skips the abort: a rebase left open, later writes committed in its middle, and
  the branch checked out over them.
- **ListedIsWhole.** Scaffolding writes `SKILL.md` last, and an installation adds
  its reference last, so a listed agent has its files wherever a handler breaks
  off.  Two cases are excepted because the code does not keep it there: a folder
  whose deletion has begun, and a connector that is installed over itself.
- **ValidatedToolsServed.** A schema is made for any attribute of the class, a private
  method too, and the registry serves public callables: an agent that lists such a name
  is built, and the LLM is told of a tool that is refused.  What stops it is the
  validator, which knows public names only; but `save` writes first and validates then,
  so the property is about runners that were built after a "saved".  A session
  keeps schemas, tools object and registry from one moment, so it stays consistent
  however old it is.  `run-agent` is not built at one moment: its object was imported
  before the text was read, and the schemas are made from that object, so a text that
  was saved in between can only make it fail.  A tool that both `tools.py` and the
  identity define is found twice in a run, and never in a session, which has no second
  backend.
- **SavedStarts.** `saved` is about the folder as it is: an installation or a save
  that fails may follow.  Validation lets two things through.  One is a `tools.py` that
  is not as it was read (`ReadAsBuilt` is false): another class comes first,
  annotations cannot be evaluated, or `create_cli_tools` raises.  The other is a tool of
  an identity that `tools.py` does not define; this is what `claim_identity_tools` shows.
- **PartsInOrder.** Each part is the piece of the text at its place, the parts follow
  one another, and only newlines lie between them, before what is left and, once
  the last part is sent, after it.  `_split_text` strips newlines at a cut, so only the
  first part can be without text; Telegram refuses it, and then nothing was sent yet.
- **SorryOnlyUnanswered.** For a text the sending is outside the try, so who is asked
  to try again was not answered.  For voice and PDF it is inside: the history may
  have the exchange, and a part of the answer may be on the screen.
- **CapsHoldInLocalTime.** The stamp of an evening row is the next day's.  Today's
  rows all count today, and those of the last evening too: the cap is strict, and
  may refuse early.  With UTC behind local time it would let through instead, and
  `Offset` covers only the zones west of it.
- **OverspentByOthersShares.** A member that borrows takes what is inside another's
  share; the other is then let through by its share.  So the pool does not bound
  what all spend; it bounds what those over their share have spent.  All together
  spend the pool twice at most (`TeamSpendsAtMostTwice`).
- **RepeatsExplained.** A message is sent again only if two runs, a tick's and
  catch-up's, were at it together, or if a run of it broke off between the delivery and
  `ping_mark_sent`: the sending raised although the message went out, the row could not be
  written, the run was cancelled or the process died.  What it excludes is a repeat by a
  tick that comes after catch-up is through, by the next start, or after a failure
  before the delivery.

## Fairness

Liveness is stated under weak fairness of what the event loop and the timeouts of
the code guarantee, and of one thing more: **that tool calls and jobs return or raise**, and that a stdio server
which can answer does.
`execute_tool` has no timeout (`core/agent_handler.py` 210, 439), nor has a read of a
stdio server or a job of the scheduler.  A tool that never returns keeps its session,
its message or catch-up waiting for ever, and `SessionEnds`,
`ImplementsSerialDelegation`, `EveryMessageEnds`, `EveryUpdateEnds` and `CatchupEnds`
say nothing of it.

| Run | Fairness | Because |
|---|---|---|
| team_loop | `WF_vars(Next)` | every await is an LLM call, which has a timeout of 60 s, or a tool call, which is assumed to return or raise; the loop has no other way to wait |
| agent_messages | `WF` of each task's `MessageStep` | requests time out after 60 s, pauses end, and the semaphore is a queue; tools are assumed to return; nothing makes a provider succeed |
| mcp_http | `WF` of each `CallerStep` | requests time out (30 s to the server, 10 s to the authorization server); `RefreshGivesUp` and `Answered` are those timeouts too.  The servers themselves need not do anything |
| mcp_stdio | `WF` of `CallStep` and of `ServerAnswers` | a read has no timeout in the code, so an answer must be assumed of a server that is neither dead nor blocked; the property excepts the blocked ones |
| telegram | `WF` of `Handling` | requests to Telegram time out, `message_handler` returns or raises, and both are steps of `Handling`; the process may die as often as it likes, jobs and users need not do anything |
| scheduler | `WF` of `Skips \/ Catches \/ CatchupFails` and of `RunStep` | jobs are assumed to return or raise, and the event loop runs tasks that can go on; ticks, time and the end of the process are not fair |

Safety-only runs (`history`, `wiki`, `studio`, `budgets`, `oauth_connect`) assume none.

## Proofs

Theorems hold for every value of the constants that the assumptions allow.  The
assumptions only give the constants their types, with these exceptions, which the
code justifies: tasks are finitely many (`MessagesAssumption`; the overshoot is
counted in tasks), backends are distinct objects (`StdioAssumption`; `SkillLoader.load`
makes one for each pack), a job's hour lies in its period (`SchedulerAssumption`), UTC is
ahead of local time, by a day at most (`BudgetAssumption`), a public name for which a
class has a signature can be called on its objects (`SessionsAssumption`), and
members are finitely many, with shares that add up to the pool within one per cent
(`BudgetAssumption`; `TeamLoader` refuses others).  TLC evaluates them in the runs.

Each component has one inductive invariant, mostly called `IInv`, and draws the properties from it:
`Init => IInv`, `IInv /\ [Next]_vars => IInv'`, and `IInv` implies the property.  TLC
has checked each `IInv` on the instance of the module's run.

Where a proof needs induction over data (the least row that fits, the elements of a
sum, the newlines at the start of a text), it takes a least counterexample instead:
`LeastNumber` gives the least of a set of naturals, `LeastSubset` the least of some
subsets of a finite set, both from well-founded relations of the library.

### The team loop (`TeamLoopProofs`)

| Theorem | States |
|---|---|
| `LoopTypes` | `Spec => [](TypeOK /\ ChatAnsweredByReplies)` |
| `AuditBehindByOne` | `Spec => []AuditMissesOnlyTheLastCall` |
| `TaintOfTheChain` | `Spec => []TaintIsTheChain` |
| `HopsBoundDepth` | `Spec => [](HopIsDepth /\ DepthBounded)` |
| `NoExfil` | `Spec => NoExfilDownTheChain` |
| `EveryStepLowers` | `Spec => [][Lower(Rank', Rank)]_vars`: every step lowers the rank of the session |
| `NoEndlessDescent` | no infinite sequence of ranks has each one lower than the one before |

The inductive invariant is `IInv == TypeInv /\ FramesInv`.

- `TypeInv` adds two things to the types.  `ControlOK` says what the loop holds at
  each `pc` (a frame while it waits, calls left while it handles a batch, no frame
  when it is done): without it `Top` would have no value and `left - 1` no type.
  `AuditOK` counts the rows missing at each `pc`, as `unrecorded - 1` is natural
  only when a tool is running.
- `FramesInv` is about the stack.  `TaintIsTheChain` alone is not inductive: a
  delegation seeds the child with `Top.taint`, and if the top has no guard the
  chain of the child begins with itself, so its seed must be empty.  That is
  `UnguardedUntainted`.  `DepthBounded` alone is not inductive either: the loop
  compares hop counts and never the length of the stack; `HopIsDepth` ties one to
  the other.

The proof of a step has one case per action.  Most actions pop frames or change
fields the invariant is not about, and follow from one lemma (`FramesKept`); the
two that change what guards know have a lemma each: `FramesDelegate` (the child's
chain is the parent's plus an empty frame) and `FramesToolStarts` (the top is the
end of its own chain only, so no other frame's chain changes).  `NoExfil` follows
from `TaintIsTheChain` at the step that starts the tool.

The last two theorems are the safety half of `SessionEnds`: a session has finitely many
steps, for every team, policy and LLM.  No number counts down at every step, as a
delegation starts a frame with all its turns.  But the parent has spent a turn on it,
and the parent comes first: `Rank` has a place for each frame that there may be, from
the bottom of the stack up (what is left of its turns), and a last one for what the turn
that is paid for may still do; `Lower` compares two ranks at the first place where they
differ.  That there are finitely many places is `DepthBounded`.  `NoEndlessDescent` goes
by a place that cannot come to rest while those before it have (`LeastNumber`).  What
is left to TLC is that the loop takes its next step at all, which is fairness.

### The refinement of `SerialDelegation` (`TeamLoopProofs`)

`SerialSafety`: `Spec => Serial!Init /\ [][Serial!Next]_(Serial!vars)`, where
`Serial` is the instance of `SerialDelegation` under the mapping of
`TeamLoopRefinement`.  Lemmas say what the mapping makes of an append, of a pop
and of a stack whose names and turns are unchanged (`BarAppend`, `BarBelow`,
`BarSame`); then each action is a `Work`, `Settle`, `Call`, `Return` or `Stop`, or
a stutter.  That a delegation stays within the depth of `SerialDelegation` needs
`HopIsDepth`.  The fairness of `Serial!Spec` is left to TLC
(`ImplementsSerialDelegation` in run team_loop), as it is about `ENABLED`.

### Connecting (`OAuthProofs`)

| Theorem | States |
|---|---|
| `ConnectTypes` | `ConnectSpec => []TypeOK` |
| `OneClient` | `ConnectSpec => []OneClientForStartAndCallback` |
| `LinkVerifier` | `ConnectSpec => []VerifierOfTheLink` |
| `OneExchange` | `ConnectSpec => VerifierSentOnce` |

`ConnectInv` adds `RequestsOK`: a request that is not idle has a link, and a callback
a verifier of a consent page.  `VerifierInv` adds `TableOfTheLink` (the verifiers
of the table belong to the link they are filed under), `NextIsNew` (a verifier yet
to be made is nowhere) and `InOnePlace`: a verifier is in the table under one
link, or with one callback that has yet to send it, or sent.  `VerifierSentOnce`
is a corollary of the last: a callback about to send a verifier has it, so it was
not sent.  It is why the row is deleted before anything is awaited.

### The vault (`OAuthProofs`)

| Theorem | States |
|---|---|
| `CallsInvariant` | `Spec => []IInv` |
| `VaultIsHonoured` | `Spec => []VaultHonoured` |
| `OwnTokensOnce` | `Spec => []OwnTokensSentOnce` |
| `CallsGoOn` | each step of a call, or of the authorization server for it, brings it nearer to its end, and nothing sets it back |
| `LinesAreServed` | a call that waits for the lock is overtaken by none: it keeps its place or moves up when the holder has left |

`IInv == TypeInv /\ Lines /\ TokenInv`.

- `TypeInv` has the types, `OnlyIssued` (no token is anywhere before it is issued, so
  that a new one is new to everybody) and `LocksKept`: past "wait" a caller holds
  the lock of its backend.  Two callers that hold locks therefore use different
  backends (`HoldersApart`).
- `VaultHonoured` alone is not inductive.  That some caller is refreshing with the
  spent token of the row is not enough: the one who has the answer must be the one
  who spent it, as only that caller is bound to replace the row.  That is
  `SpenderAnswers`.
- `NewTokens` says that a token which was answered and not yet stored is good, not in
  the row, not adrift, and with nobody else; so what is stored at last is good.  That
  is when the authorization server rotates; when it does not, what is stored is the
  token that was sent, and `NothingSpent` says that it is still good.
- `OwnTokensSentOnce` needs `SpenderAnswers` when a caller reads the row: if the token
  is spent, its spender still holds a lock, which is not the reader's.

Calls that are broken off and deaths of the process are steps like any other: whatever
was sent is adrift from then on, which both properties except, and the rest of the
invariant is about calls that are gone.  A call may be broken off in the middle of the
line; `Lines` has each call once, so what is removed is its place and no other.

`CallsGoOn` bounds what a call does with the lock at seven steps (`Ahead`; it may be
broken off at each): it may ask to
refresh when the row has expired, post, ask again after a 401, and post again.  It is
`again` that lets the second refresh not lead to a third.  `LinesAreServed` is about the
calls that wait: the line of a backend has each call under way once, so in front of one
that waits are finitely many calls, each of which ends as `CallsGoOn` says.  An exception
that left the lock held would leave a line headed by a call that is over, which `Lines`
excludes.

### Messages and LLM calls (`AgentMessagesProofs`)

| Theorem | States |
|---|---|
| `MessagesInvariant` | `Spec => []IInv` |
| `SlotsServe`, `RequestsBounded` | `Spec => []SlotsServeRequests`, and never more requests than slots |
| `ProvidersAccounted` | `Spec => []EveryProviderAccounted` |
| `UserRowsAnswered` | `Spec => []EveryUserRowAnswered` |
| `OvershootIsBounded` | `Spec => []OvershootBounded` |
| `RequestsOfAMessage` | a message sends at most `MaxTurns * Providers * MaxAttempts` requests |

`IInv == TypesOK /\ SemInv /\ CallsInv /\ BusyInv /\ EveryUserRowAnswered /\ CapInv`.

- `SemInv`: the semaphore's line has each task that waits for a slot or for an answer,
  once, and no other (`Queues`), and a task that waits for an answer in one of the
  first `Slots` places (`Slotted`).  The first is `SlotsServeRequests` made exact; the
  second is needed for the bound on requests, and kept because a task that leaves
  moves the others forward only (`Leaves`).
- `CallsInv`: at every provider the error rows are those of the providers before it.
  `EveryProviderAccounted` speaks of ended calls only, and is not inductive.
- `BusyInv` (a task has a call exactly while it has a message) is what lets
  `EveryUserRowAnswered` count messages and `CapInv` count calls.
- `OvershootBounded` says nothing of what calls under way will still add.  `CapInv`
  does: what is charged and what the messages in hand may still be charged for
  (`Owed`, a set of pairs of a task and a turn, so that it can be counted) stay
  together under the bound.  A message that begins under the cap owes at most
  `MaxTurns` more (`AllowedOwes`); an answer moves one from owed to charged
  (`OwedIsCharged`); everything else only lowers what is owed (`OwesNoMore`).
- `RequestsOfAMessage` counts down the requests that a message may still send
  (`RequestsLeft`): each one sent lowers the count, and only the next message of the task
  raises it.  Attempts, fallbacks and turns are bounded one by one in the code; that
  their product bounds the message is nowhere written.

### The compactor (`ConversationProofs`)

| Theorem | States |
|---|---|
| `CompactorInvariant` | `Spec => []IInv` |
| `SummariesAreWhole` | `Spec => []SummaryIsThePrefix` |
| `PromptsAreSeamless` | `Spec => []PromptSeamless` |

Two processes build at once, and whoever writes last wins.  `SummaryIsThePrefix` is
about the row, `BuildInv` about what every build under way has read: a summary that is
such a prefix itself (perhaps an old one), and rows that begin after it and end before
the newest `KeepVerbatim` as of the read.  Rows are only added, so whichever
of them is written, it is the prefix it claims.  The first verbatim row is a `CHOOSE` of
the least that fits; `LeastNumber` shows that there is one.  Token
sums stay opaque: of `Fits` the proofs use that the pinned rows alone always fit, and
nothing else, so what rows cost does not matter.

### MCP over stdio (`McpStdioProofs`)

| Theorem | States |
|---|---|
| `StdioInvariant` | `Spec => []IInv` |
| `AnswersAreOwn` | `Spec => []AnswerIsOwn` |
| `OneReads` | one call of a backend reads at a time, and waits for the newest request, its own |
| `HandshakesComeFirst` | `Spec => []HandshakeFirst` |
| `NothingOutlivesStopAll` | `Spec => []StopAllLeavesNothing` |

- `LockInv` and `ReadInv`: the lock's line has each call under way, once; a call that
  reads is at its head, and the id it waits for is that of the last request, which it
  made.  `AnswerIsOwn` needs the last part: an id is a call's own only because nobody
  writes between its write and its read.
- `HandshakeFirst` counts requests, and the code never does: it looks at
  `_initialized`.  `AskedInv` ties the two: what `start_all` has yet to start (`Ahead`) is
  not initialised and has no caller, what it is starting has as many requests as
  `Asked` says, and what is initialised, or called, has had two.
- `LoaderInv`: what has no process is not initialised, and what `stop_all` has passed
  has no process.  The first is why `stop` may skip a backend without a process.  The
  converse does not hold, as a start may fail after the process was made: that is why
  `stop` must look at the process and not at `_initialized`.

The servers stay as the model has them: they answer in any order, with errors, or die.

### The scheduler (`PeriodProofs`)

| Theorem | States |
|---|---|
| `SchedulerInvariant` | `Spec => []IInv` |
| `RepeatsAreExplained` | `Spec => []RepeatsExplained` |
| `NothingLeftDue` | `Spec => []CatchupLeavesNothingDue` |
| `CatchupGoesThrough` | catch-up takes at most four steps at a job and is never set back |

`RepeatsExplained` needs `HistoryInv`: two runs that are at one message, past the look at
`ping_log`, have met (`MetInv`), and a run that works at a message already delivered
has met another or comes after one that broke off (`RepeatInv`).  The second rests on
`DeliveredIsRecorded`: what was delivered is recorded as sent, or its run is about to do
so, or broke off.  So whoever has found no row for a delivered message found another run
at it, or one that is gone.

`SentInv` is the converse of `DeliveredIsRecorded`: a row that says sent, or is about
to, has its message.  Catch-up skips a job that has such a row, so without it nothing
would follow for that job.  `LoopInv` says that catch-up awaits the job it is at, and
that this run goes by a period between catch-up's start and now (`Periods`);
`PassedInv` that the jobs before it are caught up.  `CatchupLeavesNothingDue` is
`PassedInv` at the end of the list.  That time goes on between the two is the
reason for an interval of periods; `DivBounds` and `DivGrows` are the facts about
division that order them.

`CatchupGoesThrough` needs `LoopInv` too: a run of catch-up that was not the one awaited
could move the loop on when it returns, and runs of cron never do.

### The bot (`ConversationProofs`)

| Theorem | States |
|---|---|
| `BotInvariant` | `BotSpec => []BotInv` |
| `FilesAreGone` | `BotSpec => []FilesGone` |
| `SorryBeforeAnswer` | `BotSpec => []SorryOnlyUnanswered` |
| `SplitLosesOnlyNewlines` | of any text, `Part` is a beginning that fits, and `Rest` the end after it but for newlines, and shorter |
| `PartsAreInOrder` | `BotSpec => []PartsInOrder` |
| `UpdatesGoOn` | `BotSpec => [][UpdateGoesOn]_botVars`: each step of a handler brings its update nearer to the end |

`UpdateOK` ties the path of a PDF's file and the answer to where the handler is: no
path is known before the file is written, and there is no answer before
`message_handler` has returned.  The first is what `FilesGone` needs when a second
file might be made over the first, the second what `SorryOnlyUnanswered` needs when
an exception is caught.

`SplitLosesOnlyNewlines` is about `_split_text` alone.  The cut is the last newline of the
piece that fits, if it has one (`MaxOfNumbers`; the piece is finite and texts are not
bounded), and the rest begins at the first character that is no newline
(`MinOfNumbers`).  That the rest is shorter is why splitting ends.

`PartsAreInOrder` has an invariant of its own, `ChatInv == SendsUpdate /\ SendsJob /\
ShownOK`, proved by `ChatInvariant` beside `BotInv`.  It says of a text that is being sent
(`Sending`) that its parts are in order up to what is left of it, and that what is left
begins with a character or is the whole text (`Begins`).  The latter is what a refusal
needs: a part of newlines only can be cut off nothing but the whole text, so nothing
was shown before it.  An update and a job are sent beside each other, and each has
its own parts: neither's steps touch what the other shows.

`UpdatesGoOn` compares the places of a handler (`Stage`) and, while a text is sent, what is
left of it, which `SplitLosesOnlyNewlines` shows to be shorter after each part.  An exception
leads to the apology or out of the handler, and an apology that fails is not caught.

### Budgets (`PeriodProofs`)

| Theorem | States |
|---|---|
| `BudgetsInvariant` | `BudgetsSpec => []BudgetsInv` |
| `CapsHold` | `BudgetsSpec => CapsHoldInLocalTime`, where UTC is ahead of local time |
| `OverspendingBounded` | `BudgetsSpec => []OverspentByOthersShares` |
| `TeamSpendsAtMostTwice` | `BudgetsSpec => []SpentWithinTwicePool`: the team has spent at most 201 per cent of its pool, and 101 if the policy does not lend |

`BudgetsInv == SpendingTypesOK /\ NoRowsAhead /\ OverspentByOthersShares`.

- `OverspentByOthersShares` is inductive, for two different reasons.  A debit within
  the share leaves who is over as they were (`WithinKeeps`).  A loan looks at the
  pool, so after it what *all* have spent is within the pool, and so is what those
  who are over have (`LendsKeeps`); later debits within shares may go over the pool,
  which the invariant never claimed.
- `SpentWithinTwicePool` follows from it: who is over has spent the pool at most, the
  others their shares, and the shares are the pool and one per cent at most.
- A day in UTC is never before the local day (`DaysOfStamps`), so what the cap adds up
  has all that was spent on the local day (`SpentIsStamped`): whoever is let through
  is under the cap.  The other half of `CapsHoldInLocalTime`, that nobody is refused for
  less, needs what is added up exactly (`SinceIsStamped`): no row is later than now,
  which is `NoRowsAhead`.

The sums are of `MapThenSumSet`, a choice of a function that satisfies a recursive
equation.  `SumsExist` shows that there is one over the subsets of a finite set,
`SumsAgree` that it does not depend on anything but the summands, and `TotalUnfolds`
draws from them what a sum is; the other lemmas (`TotalAdds`, `TotalSplits`,
`TotalGrows`, `TotalLess`, `TotalOfZeros`) use only that.

### The wiki (`WikiStoreProofs`)

| Theorem | States |
|---|---|
| `WikiInvariant` | `Spec => []IInv` |
| `NothingElseIsLost` | `Spec => []LostOnlyMidRebase` |
| `PushesPublish` | `Spec => PushPublishes` |

A version that is not yet on the remote, and not written in a rebase left open, has to
be somewhere git will come back to.  `KeptInv` says where: in the working tree while a
branch is checked out, on the branch while HEAD is detached, and during a rebase in
the commit an abort goes back to.  `HeadInv` is what makes these the only cases:
HEAD is detached only in a rebase, and a push is reached only without one, with the
tree committed.  That is also why a push publishes the tree.

### The Studio (`StudioSessionsProofs`)

| Theorem | States |
|---|---|
| `SessionsInvariant` | `SSpec => []IInv` |
| `ListedAreWhole` | `SSpec => []ListedIsWhole` |
| `KeysAreKept` | `SSpec => KeysKept` |
| `ValidatedAreServed` | `SSpec => []ValidatedToolsServed` |
| `SavedAgentsStart` | `SSpec => []SavedStarts` |

`IInv == FolderInv /\ SavedInv /\ RunnersInv`.  `ListedIsWhole` is about the disk, and
what breaks it is in the operations a handler has left, so most of `FolderInv` is
about those.

- `HandlerInv`: they are `Ordered` (a file that is emptied is filled later, a pack
  comes before its descriptor, `SKILL.md` last), and each one spares what a listed
  agent needs: `tools.py` is written only while nothing is listed, a pack only while
  there is no reference to it or it is being installed again.
- `PromiseInv`: a `SKILL.md` that is to be put in place refers to files that are whole,
  or still to be filled.  When it is the only operation left, nothing is to be filled.
- `KeysInv`: that `SKILL.md` keeps what the present one has.  No form is written over
  anything newer, as one handler runs at a time and a save reads when it begins.

A handler's operations come from sequences that are put together when it begins
(`Scaffolds`, `Installs`).  `Plan` says what such a sequence writes and that it is
ordered; `PlansJoin` proves it of two plans one after the other, and `ScaffoldsPlan`
and `InstallsPlan` follow from it, so no handler's operations are counted out.
A handler that raises, or dies, has nothing left to do, and the invariant asks
nothing more of it (`Stops`): that is why breaking off is harmless anywhere.

`SavedInv` says that a folder saved without an error would be validated again:
what may follow (`Install`, a save that fails) keeps the text that was validated, its
identity and `tools.py`.

`RunnersInv` says of those who were built that every schema is of an attribute of their
own object (`Built`), and, after a "saved", of a name that `validate_agent` looks for.
Validator and builder speak of one name, then: the first knows it is public, the second
that the class has a signature for it, and `SessionsAssumption` makes it callable.
Neither alone would do: a private attribute has a schema, and a public name of the first
class in the source may belong to a class that was never instantiated.

### Only model-checked

Liveness, and the fairness part of the refinement: `SessionEnds`, and its like in the
other runs, and `ImplementsSerialDelegation`.  They are about fairness and `ENABLED`,
which are out of the prover's reach.  What can be said without fairness is proved for
the team loop, calls over HTTP, catch-up and updates of the bot: that every step leads
nearer to the end, and none back.  So their liveness rests on two things that only
TLC shows, on the instance: that there is a step to take, and that it is taken.  For
messages only the requests are bounded by a theorem, as a slot is waited for; and for a
call over stdio there is no such bound, as a server may send notifications for as long
as it likes.

Every safety invariant and action property that a run checks is also a theorem.

## Where code and documents disagree

One of these is a run that ends in a violation, with the trace:
`claim_identity_tools`.  The others were met while modelling; the models follow the
code.

- `docs/16-tutorial-create-agent.md` (127, 146) has the tools of an identity work
  without a change of `tools.py` once they are listed.  `validate_agent` lets them
  through (`web/admin/services/validators.py` 87), and `build_runtime` then looks for
  them in the class of `tools.py` (`cli/runner.py` 61, `core/tools/schema_gen.py` 56)
  and raises.
- `stop_all` stops "all backends" (`core/skills/skill_resolver.py` 111): a server that died
  before makes `terminate()` raise, and the servers after it are left running
  (`StopRaises` in `McpStdio`).
- "so the repo isn't left mid-rebase" (`core/memory/wiki_store.py` 173): a pull that
  its timeout cuts off skips the abort (`PullCutOff`).
- Catch-up is for "missed ticks" (`core/scheduler/scheduler.py` 1): a job of the day or
  the week is also run before its tick has come (`Missed` in `ConexusScheduler`).
- `core/team/budget_cascader.py` (1) enforces the team pool; with `borrow_from_pool` all
  members together may spend more (`OverspentByOthersShares`).  Nothing resets it
  at midnight, and a restart forgets it.
- `CapChecker` takes the day from local midnight (`core/budget/cap_checker.py` 31) and
  compares it as text with stamps in UTC, so an evening counts again the next day.
- The docstring of `core/team/handoff_router.py` (3-8) matches `auto: true` edges
  before `when:` edges; the code takes the first edge of either kind.

- `docs/17-tutorial-create-team.md` (151-153) says `handle_team_message` uses the
  per-agent `CapChecker`; it takes `cap_checker` (`core/agent_handler.py` 244) and never
  asks it, so `TeamLoop` has no cap.
- The same tutorial (65) calls `max_hops` a hard cap for the whole session.
  `next_hop` counts from the handoff of the current frame (`core/agent_handler.py`
  388-389): the root may delegate without limit, turns permitting, and only the
  depth is bounded (`DepthBounded`).
- `docs/06-multi-agent-orchestration.md` (428) has a child return on a plain reply
  "and there is no `return_on`", or when `return_on` is found; in the code (463-471)
  every plain reply returns, and so it does in `Reply`.
- The docstring at `core/agent_handler.py` 258 has every tool call in the audit; a call
  that asks for permission or raises has no row (`AuditMissesOnlyTheLastCall`), nor
  has a delegation over the hop limit.
- A hop-limit answer leaves no row in `handoff_audit`.
- `_notify` of the HTTP backend skips `notifications/initialized` silently when
  the token is about to expire (`core/backends/mcp_http_backend.py` 126-131, against the comment
  at 147).
- `docs/11-mcp.md` (251) has HTTP backends started per request; nothing starts
  them, and `SkillLoader` gives them no metadata of an authorization server
  (`core/skills/skill_resolver.py` 98), so a backend it builds never refreshes: it
  asks the user to connect when the token has expired.  `McpHttpCalls` checks the
  backend with metadata, `CanRefresh` TRUE, where the races are.
- `docs/20-connector-marketplace.md` (178): the stale row is deleted.  The delete is
  by user and server, so it may delete a newer row another backend stored
  (`core/backends/mcp_http_backend.py` 67).
- An answer whose usage row cannot be written is thrown away, paid, and not
  charged (`core/llm/router.py` 144).
- `build_runtime` never sets `summarize_fn`: the compactor runs only for callers
  that set it themselves.
- After a conflict in the wiki every later pull conflicts again: nothing resolves
  it.
- A job that raises ends the rest of `catchup`.
- Studio's `save` validates after it has written: a form answered with 422 was
  saved (`web/admin/routes/agents.py` 105-110).

## What is not modelled

- **Pure text and parsing**: team files, skill files, tool schemas and the tool
  editor, prices, the evaluator of `when:` conditions (given by the tasks it is true
  of), transcripts and their trimming, replay.
- **Pure I/O**: calendar client, MCP producer, the commands of the command line other
  than `run-agent`, Studio pages.
- **Cryptography**: signing of states, PKCE digests, encryption of the vault.  A
  state is valid or not, a challenge belongs to one verifier.
- **Rare cases outside**: an authorization server that rotates refresh tokens only now
  and then, and a `tools.py` that cannot be imported at all (validator, builder and
  `run-agent` all refuse it).
- **Identity** (`core/identity`): each memory block is changed by one statement under
  one check of its size, in one step; `StudioSessions` has the names of its tools.
- **Parts of modelled components**: `start`, `_notify` and the SSE parsing of the
  HTTP backend, which nothing under `src/` starts (`start` follows `nextCursor` without
  a limit, `core/backends/mcp_http_backend.py` 151); the synchronous `complete` of the
  router, without a caller in the loops; `SkillLoader.load`, called by tests only;
  `clear_boundary`, which no code under `core/` calls and which is the parameter
  `cleared` of `Refuses`.
- **Known and without a property**: after a delegation the rest of a batch is
  dropped, and its tool calls stay without an answer in the transcript
  (`core/agent_handler.py` 424; `Delegate` does drop them, but transcripts are left
  out); a newer version of a connector is appended beside the older reference, and
  both name one folder (`web/admin/services/connector_installer.py` 53).

## Plan

The order in which the modules were planned, most important first:

1. done: the team loop with guard and router; its abstract specification; proofs;
2. done: the single-agent loop with router and cap; the compactor; proofs;
3. done: MCP over stdio and HTTP with deaths of the process, OAuth connect; proofs;
4. done: scheduler and wiki, with proofs; Studio files, with proofs;
5. done: the Telegram bot, Studio sessions and `run-agent` over the folder, with
   proofs; caps in local time and the team's pool.

Left to model, if their code comes into use: `start` of the HTTP backend with its
pages and handshake, `SkillLoader.load` with two versions of one connector, the
cascader inside the team loop.

Theorems to come:

- that a place in line only ever gets better also for the lock of stdio backends, where
  a task may be cancelled in line, and for the router's semaphore (`LinesAreServed` has
  it for HTTP);
- abstract specifications worth stating: a lock served in order (both MCP clients),
  a mailbox with at-most-once delivery save for a crash (scheduler).
