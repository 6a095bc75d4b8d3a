# design-lint in TLA+

A formal model of design-lint: TLA+ modules that follow the
code, TLC configurations that check them on small instances, and theorems that
the TLAPS proof system checks for every instance.  Paths below are relative to
the repository; `PROJECT.json` maps every definition to the lines it models.

    tlc -config cache_cli.cfg MCDocumentCache    # one run
    tlapm DocumentCacheProofs.tla                # the proofs of one module

## 1. The system

design-lint reads source files (CSS, TypeScript/JSX, Vue, Svelte), runs rules
over their syntax trees and compares what they use with a design system's
tokens.  The tokens live in a long-running process, the *DSR kernel*, which the
command line starts when it is not there.  Around that core there are a result
cache, a watch mode, configuration and policy files, plugins, and servers for
editors (LSP) and agents (MCP).

    command line ──> configuration, policy ──> linter <── plugins, rules
         │                                       │  ▲
         │ starts                                │  └── watch mode, LSP, MCP
         ▼                                       ▼
     DSR kernel ──tokens──> token provider ──> runner ──> cache ──> files

Everything but the kernel runs in one Node process, so concurrency is that of
`await`: between two awaits code is atomic, and at an await anything else may
run.  The kernel daemon and the commands are processes that share files (PID
file, socket, ready file).  Editors change files at any moment.

| Component | Code | State it keeps | Operations | Hard because | Correct if |
|---|---|---|---|---|---|
| Result cache and runner | `src/core/runner.ts`, `cache-manager.ts`, `cache-service.ts`, `src/adapters/node/node-cache-provider.ts` | entries in memory, the cache file, one task per document | run, prune, look up, lint, fix, store, save | files change between stat, read, fix and store; runs overlap in watch mode; kills lose or tear the save | an accepted entry describes what the file holds; a result describes what the file held; the save has what the run linted; a run ends |
| Token usage | `src/core/token-tracker.ts`, `linter.ts`, `src/rules/no-unused-tokens.ts` | used-token keys, shared by the runs of a linter | begin a run, track a text, collect, report | overlapping runs share the tracker; cached documents are not tracked | the report is exactly the tokens no linted text uses, but for what `ignore` names |
| Kernel life cycle | `src/cli/kernel.ts`, `kernel-daemon.ts`, `env.ts`, `src/adapters/node/dsr-token-provider.ts` | PID, socket and ready files; the daemon's graph | start, poll, stop, bootstrap, connect | processes race, crash and time out; files outlive their writers | one kernel; a start that returns has left it loaded; commands return |
| Language server | `packages/lsp/src/server.ts` | documents, dependency graph, published diagnostics | open, change, close, token change, exit | lints overlap and end out of order | what is shown comes from one lint, and from the current text |
| Watch mode | `src/cli/watch.ts`, `execute.ts`, `src/adapters/node/file-source.ts` | linter, cache, configuration, watched paths | event, lint, reload, update | handlers overlap, reloads interleave with lints and may fail | no lost edit; no stale configuration; comes to rest, but for the saves of a watched cache file |
| Configuration and policy | `src/config/*.ts` | merged configuration, policy tree | search, merge, extend, enforce | merges over a tree, two readers of one setting, reloads | no file of the tree is weakened; it ends |
| Rules and plugins | `src/core/rule-registry.ts`, `plugin-manager.ts`, `src/adapters/node/plugin-loader.ts` | rule map | load, enable | clashes, unknown rules | one origin per rule |
| Lint service, file discovery | `src/core/lint-service.ts`, `src/adapters/node/file-source.ts` | none | scan, lint targets | globbing is I/O | as far as WatchMode uses them |
| Fixes | `src/core/apply-fixes.ts` | none | sort, choose, apply from the end | overlapping ranges, fixes that call for further fixes | the text is that of the chosen fixes, fixing settles, elements stay balanced |
| Parsers, listener dispatch, directives | `src/core/linter.ts`, `parser-registry.ts`, `framework-parsers/` | listeners of a text, lines switched off | create, parse, dispatch, filter | a listener that throws, lines counted from one or zero | one message for it, the others run; what is reported is what the rules make of what was visited and is not switched off |
| Rules | `src/rules/`, `src/utils/` | none, but for the usage of a run | report, fix | values within values, fixes of several rules in one value | as far as the text's properties tell |
| Tokens | `src/cli/kernel-client.ts`, `write.ts`, `snapshot.ts`, `tokens.ts`, `docs.ts`, `export-design-system-md.ts`, `kernel-daemon.ts`, `src/adapters/node/dsr-token-provider.ts`, `src/core/token-registry.ts`, `src/utils/tokens/` | the kernel's graph and ledger, connections | bootstrap, add, deprecate, query, snapshot | a graph that changes while it is read, lost answers, dying kernels | a reading loses no token; a command gives up its connection and says what happened |
| MCP server | `packages/mcp/src/` | the buffer, the handlers at work, the tokens | frame, dispatch, four tools, exit | chunks end anywhere, handlers overlap, tokens may not load | one right answer per request, soon |
| Registry development kit | `packages/rdk/src/` | watched packages | watch, rebuild | events during a build | the last change is built |
| Telemetry | `packages/telemetry/src/` | none | fold events | – | pure |
| Formatters, output, options of the command line | `src/formatters/`, `src/output/`, `src/cli/index.ts` | none | – | – | pure functions of a text, of results, of arguments |

What can go wrong in these, each at its line, is the list of hazards in
`PROJECT.json`; the properties below are there for it.

## 2. The modules

Each component is a module of its own; `MC*` gives it a small instance;
`*Proofs` extends it with theorems.  One action stands for the code between two
awaits, or for one step that other processes can see.  Variables marked
*history* in a module exist for the properties only.

**DocumentCache** — `Runner.run`, `CacheService.prune`,
`CacheManager.processDocument`, `NodeCacheProvider`.  `disk` is the file system
(a content and an mtime per document), `cache` and `saved` are flat-cache in
memory and on disk, `task[r][d]` holds the locals of `processDocument` for one
document: its phases follow the function's awaits — `get` (stat, look up),
`read`, `lint`, `write` (the fix), `relint`, `restat`, `store`.  `Edit` and
`Delete` are an editor's, `Forget` is watch mode's unlink handler, `Restart` a
kill and a new process, `TornSave` a kill inside the save.  A lint result is
identified with the content it describes, because the rules are functions of
the text; every write gets a fresh mtime.

**LintPromise** — the abstract specification: a linter without a cache.  An
answer describes some content the file held while the question was open, or
says that linting failed.  `DocumentCache` implements it (`PromiseKept`), with
`now`, `window` and `answer` computed from its state.

**TokenUsage** — `Linter.lintDocuments` and `lintText`, `TokenTracker`, the
rule `no-unused-tokens`.  `used` is the tracker's set, shared by all runs of a
linter; `Begin` clears it (`beginRun`), `LintDoc` and `RelintDoc` add what a
parser found, `ServeDoc` is a cache hit, which adds nothing, `Collect` computes
the report.  Tokens have several identities (name, pointer, value), and a
reference matches all tokens with that identity, as in `token-tracker.ts`.  A fix
that was written and linted stays tracked when the stat that follows throws, and
`FailDoc` may leave the fixed text behind.

**KernelLifecycle** — `kernelStart`, `kernelStop`, `startDaemon`, the launch in
`prepareEnvironment` and the connection of the provider.  `pidFile`, `socket`
and `readyFile` are the three files, by writer; `daemon[k]` is how far a daemon
has come, `process[c]` how far a command.  `Kill` is a SIGKILL, `PollTimeout`
the five seconds of the poll, a failed bootstrap leaves the tokens out.  The
history variable `mishaps` records which of overlap, crash, slow start and
failed bootstrap have occurred, so that a property can name what it needs.
`KernelProcess` is a package of its own and marked external.  The constants that
it shares with TokenGraph, kernels and commands, are in **KernelProcesses**.

**LspServer** — `didOpen`, `didChange`, `didClose`, token changes and `exit`,
and `lintAndPublish`, whose lints are a sequence per document that can end in
any order.  The tokens are loaded twice: by the linter's constructor
(`LoadTokens`) and, when the first lint reaches `TokenTracker.configure`, by the
tracker, with a request of its own.  Lints that get there before any has
succeeded ask once each; `Configure` is one that succeeds, after which no later
lint asks again, and `Reject` one that fails, or the linter's load that
failed.  What is loaded is kept, so a lint's result is a function of the text, and
a text stands for its diagnostics.  `overdue` and `upset` are history.

**WatchMode** — `startWatch`: the watcher's pending events, the handlers
`handle` and `handleUnlink`, which nothing serialises, `reload` step by step,
`runAndUpdate`, `executeLint`, and the scan that finds the ignore files.
A linter carries the configuration it was built from and the entries its cache
was loaded with.  A text or a configuration is its version number.  What a run
writes itself is there: `FixTo` is what `--fix` makes of a version, and
`WriteFixes` puts it over whatever the file holds by then; the save at the end of
`Lint`, and `UnlinkCache` in a reload, are seen where the cache file is watched.
Whether it is (a target covers it and no ignore file names it) is chosen in
`Init` and stays (`cacheWatched`).  `unlinkSync` is taken to succeed, as its error
is swallowed, and the files to lie below the working directory, outside of which
`canWriteFix` refuses.  A handler fails at any await, also with its work half
done (`FailsLate`).

**Policy** — `loadConfig` (search and merge), `loadPolicy` (search, `extends`,
merge), `enforcePolicy`, `PluginManager`, `RuleRegistry`, `executeLint`'s call
of `enforceRuntimePolicy`, `validateConfig`, and the reload of watch mode.  The
recursion of `resolveExtends` is explicit: `chain` is the call stack, `todo`
and `merged` are the locals of each call.  What a file holds is chosen when it
is read.  A policy's floors are 0 to 2; coverage is the set of the types
demanded wholly, since a lower ratio is never enforced.

**Rules** — every built-in rule as what it reports and fixes of one declaration
or one node.  A value is a sequence of words, numbers, strings, functions and
references, so that a rule's way into it (what is nested, what has a unit, what
comes first) stays, and its spelling does not.  The module has no state.

**LintText** — one text through `lintText`: `createListeners` of the enabled
rules (a `create` may throw), the parse into visits in the order of each of the
four parsers, the dispatch of a visit to every rule, of which any may throw
before or after it reported, the directives that switch lines off, `applyFixes`,
and the lint of the text that comes of it, up to `MaxPasses`.  Offsets are
cells, `Width` of them to a line, so that a fix moves what follows it on its
line.  What the code does in a loop over a text, its messages or its fixes is a
function over positions or a concatenation, so that it can be proved about.
`ReportsOn` and `HiddenBy` say, for a rule and a line, what the text asks for,
without the order of visits or an offset, and `Enclosed` which lines stand in a
disabled block, whatever directive they have themselves; the properties hold the pass against
them, for style sheets and modules without a tagged template (`InPlace`), where
line and offset of a declaration are its own.

**McpServer** — the server of `packages/mcp`: `wire` is what the client has
written and the process has yet to get, `buffer` what `processBuffer` has yet to
cut into messages.  `Data` delivers a chunk of any length, `Dispatch` and
`StopReading` are the turns of the loop, `task` the handlers under way, which
overlap: passes of `lint-snippet` within a budget, the wait for the linter's
tokens and then for its tracker's (`Configure`, `LintThrows`), the hash that
validation asks for.  `End` is the end of the input, which
exits.  The framing of the language server (`packages/lsp/src/server.ts:551-620`)
is the same code.

**AgentPromise** — the abstract specification: messages arrive whole, in order;
each that wants an answer gets one, the right one, and gets it some time.
`McpServer` implements it (`PromiseKept`), liveness included.

**TokenGraph** — the kernel's graph and the commands that share it.  A daemon
serves while it is still injecting themes; `Connect` and `ConnectHttp` are
`connectClient`, `Accept`, `Refuse` and `Cut` what comes of `voidRequest`,
`EndWrite` and `EndSnapshot` the two ways of letting go; a disconnect may fail
(`Disconnects`), and then the link is *stuck*.  The three queries of
`tryFetchKernelData` are an action each, with other writers in between.  Three
commands read: `tokens`, and as `documents` both `docs` and
`export-design-system-md`, which go on without a kernel.  Only the last uses the
deprecations.
`always` and `ever` are history: what was in the graph all through a reading, or
at some moment of it.

The modules meet at a few places: WatchMode takes from DocumentCache that a
cached result is that of the file and adds which configuration it belongs to;
DocumentCache's watch instance takes the overlap of runs from WatchMode, and
TokenUsage does too; Policy's `Reload` is WatchMode's `reload`, seen from the
rules.  What DocumentCache and TokenUsage take for one step, the lint of a text,
is LintText; the daemon that TokenGraph fills is one that KernelLifecycle has
started.  DocumentCache with LintPromise and McpServer with AgentPromise are
composed by refinement.

## 3. The runs

| Run | Instance | Shows |
|---|---|---|
| `cache_cli` | one run at a time, two documents, two contents of one size, `--concurrency` 0 | `TypeOK`, `EntryUsable`, `SaveExact`, `RunTerminates` |
| `cache_watch` | two overlapping runs, one document, a chain of two fixes | `CacheSound`, `ResultSound`, `PromiseKept` |
| `usage_watch` | two runs, two documents, `--cache`, one edit | `TypeOK`, `ReportExact`, `LastRunSound` |
| `kernel_any` | two commands, two daemons | `LifeTypeOK`, `SingleKernel`, `StartMeansLoaded`, `CommandsReturn` |
| `lsp_any` | two documents, three texts, two tokens, two lints each | `TypeOK`, `OneLint`, `Settled`, `RelintsAffected`, `CatchesUp` |
| `watch_any` | two files, one ignore file, two handlers, two changes, a chain of two fixes, the cache file watched or not | `TypeOK`, `CacheOfConfig`, `EditsReported`, `CalmIsCurrent`, `SettlesDown` |
| `policy_any` | three policy files, two directories, two rules and plugins, one reload | `TypeOK`, `EnforcedAtStart`, `CoveredByAll`, `AgentOfLast`, `OneSource`, `Terminates` |
| `lint_any` | a style sheet with two values for every rule, every sheet of three lines out of seven, elements and what stands between their tags, one of each kind of file; a plugin that throws | `TypeOK`, `PassExact`, `FixesSettle`, `FixesExact`, `PairsKept` |
| `mcp_any` | two messages of 17 kinds behind five headers, cut anywhere | `TypeOK`, `PromiseKept` |
| `tokens_any` | two commands of seven kinds, two kernels, two themes | `TypeOK`, `ViewComplete`, `EndsWell` |
| `policy_watch` | *violated*: `NeverWeakened` | a configuration edited in watch mode escapes the policy |
| `fix_embedded` | *violated*: `FixesMatched` | a fix in a template literal replaces text elsewhere |

What the properties say:

* *CacheSound*: an entry the next run would accept holds the result of what the
  file holds now, whatever came between stat, read and store.  One exception is
  real: somebody writes between the `writeFile` of a fix and the second stat.
* *ResultSound*, *PromiseKept*: a result that is handed out describes a content
  the file held while the task was at work.
* *EntryUsable*, *SaveExact*: the cache is not merely sound by being empty: a
  linted document has an entry the next run accepts, also after a fix, and the
  saved keys are those of the documents that did not fail.
* *ReportExact*, *LastRunSound*: a run that overlaps no other reports every
  token that its texts do not use and `ignore` does not name, and none that they
  use or whose value is ignored; the run that began last reports none that it saw
  used.  Of a token that `ignore` names by its path or its variable nothing is
  said, since the rule's page and the code disagree (section 6).
* *SingleKernel*, *StartMeansLoaded*: without overlap, crash or slow start there
  is one kernel, and a start whose poll succeeds has left it with its tokens.
* *OneLint*, *Settled*, *RelintsAffected*: documents, graph and diagnostics come
  from one lint; after the last lint they are of the last text, and token
  changes relint what they concern, except for documents that a close, a token
  change during a lint, an overtaking lint or the rejection of their last lint
  upset.  A rejection at the tracker's load needs no mistake of anybody's, and is
  in section 6.
* *CacheOfConfig*, *EditsReported*, *CalmIsCurrent*: no linter has another
  configuration's results in its cache; every edit gets reported; and when
  handlers did not overlap or fail, screen, linter, watched paths and cache file
  are all of the current configuration.
* *SettlesDown*: when the user stops, what they began ends: fixes start further
  runs, but not for ever, every file is reported as it is, no reload is left.
  Where the cache file is not watched nothing goes on at all; where it is, each
  save starts a run that saves again, and nothing else does.
* *EnforcedAtStart*, *CoveredByAll*, *OneSource*: what any file of the tree asks
  for holds at a start, and a rule has one origin.
* *AgentOfLast*: the scalars of the agent policy are those of the file resolved
  last; its agents are trusted, and nobody whom no file trusts.  Whether the
  agents of the other files are trusted is left open (section 6).
* *PassExact*: a pass reports exactly what the listeners that did not throw make
  of the visits on lines that are not switched off, and one message for each
  that threw.  Lines of a disabled block that the code switches on by a directive
  of their own may have their messages or not (section 6).
* *FixesSettle*, *FixesExact*, *PairsKept*: fixing comes to an end, unless a
  token's replacements lead in a circle; what was not spoiled by an offset that
  does not count from the start of the file has become what the chosen fixes
  say; an element's two tags go on matching unless a comment hides one of them.
* *PromiseKept* of McpServer: each message that arrived whole before a wrong
  header is answered once, with what its own request asks for, and in time,
  while the process runs and the tokens have loaded or failed.
* *ViewComplete*: the tokens and deprecations that one reading gets may be of
  different moments, but a token that was there all along, and not added anew
  meanwhile, is in one of the two, because the deprecations are asked for after
  the tokens; and nothing is in either that never was.
* *EndsWell*: a command that has ended has tried to give up its connection,
  except a snapshot that was cut off, and says that it failed when it could not,
  except a reading, which ignores that; a write that claims to be done was done.
* Liveness: *RunTerminates*, *CommandsReturn*, *CatchesUp*, *SettlesDown*,
  *Terminates*.

**Bounds.**  Two runs, handlers, commands, daemons or lints are enough for one
to overtake, overlap or outlive another; no property relates three.  Two
documents show that one does not disturb the other; `cache_watch` needs only
one, because the document's own actors interfere.
Contents: two texts of one size leave the mtime as the only difference, a third
that is fixed to one that is fixed again makes a fix change the text twice.
`MaxClock`, `MaxEdits`, `MaxChanges`, `MaxLints` and `MaxReloads` cap what users
do, not what the code does: three clock ticks allow an edit between any two
steps of a task and a further run.  In watch mode two changes allow two edits of
a file, or an edit and a configuration change, each at any step of what the other
started; the fixes, the saves and the unlinked cache file add events that are no
changes of the user's, and a third change only repeats.  Version 2 takes two
passes to be fixed, so that a run's own write starts another run that writes.
Policy needs three files for a chain, a
diamond, two entries in both orders, and circles of one and two; two directories
for a merge; one reload, since reloads start from the same state.  Each daemon
is started at most once and a command slot can be used again: two daemons allow
a crash and a successor.  Three lines of a style
sheet are a declaration, a directive and a line it hides or does not; four lines
of code are an import, two tags and something between them.  `Width` is 12
cells, more than most values need after a fix; a line that outgrows it ends the
behaviour as spoiled.  `MaxPasses` is the length of the longest chain of
replacements among the tokens.  None of these bounds is in the theorems about
LintText: they hold for texts of every length.  An MCP body is two cells (`BodySize`) and a stream has two messages
(`MaxMessages`): a chunk can end in a header, between the two, in a body, or
hold all, and one handler can overtake another.  Two commands and two kernels
let one command write while the other reads, and a kernel die between two steps
and be replaced.  Symmetry is used in `cache_watch` (runs), `usage_watch` (documents)
and `tokens_any` (commands), which check no liveness property.

`CHECK_DEADLOCK FALSE` stands where the system really stops: the language
server after `exit`, watch mode when the user's changes are used up, a start
that has passed, failed or validated, the MCP server after the end of its input,
commands that have all ended.

**Fairness.**  Fairness, weak but for one case, is assumed of the process's own
steps and of nothing else: the event loop runs continuations that are ready (`FairSpec` of
DocumentCache, WatchMode, LspServer), the operating system runs processes that
are ready (KernelLifecycle), a start goes on (Policy), and in McpServer the pipe
delivers what was written, handlers go on and the tokens load or fail; a client
need not write, nor ever close.  AgentPromise demands its answers of that
fairness alone.  `kernelStart`
sleeps and polls against a deadline, so `PollTimeout` is a step of the command
like any other.  Users, editors, kills, kernel notifications and
failures owe nothing.  In WatchMode the watcher's events are fair as one action,
and *strongly* fair without those of the cache file: the code starts a handler at
once for every event, while the model has two slots, which the events of a
watched cache file may keep taking, so that the event of an edit would be enabled
again and again and never taken.  `CatchesUp` and `SettlesDown` are conditional on
the user stopping.

## 4. The proofs

All theorems hold for any sets of documents, contents, runs, files, rules,
messages and so on, under the `ASSUME`s of the module, which TLC evaluates in the
runs.  They are facts of type only, but for those of LintText, given below:
numbers are naturals, `None` and the words
for a missing answer are no members of the sets they are told apart from, a table
is a function between its sets, the texts that a message names are in the tables.
KernelLifecycle needs no more than `None \notin Kernels`.

| Theorem | Rests on |
|---|---|
| `DocumentCacheProofs`: `VersionTheorem`, `TypeTheorem`, `CacheSoundTheorem`, `ResultSoundTheorem` | `VersionInv`: a write's mtime is above every stamp taken so far, so whatever carries the stamp of a version of a file holds that version's content.  CacheSound alone is not inductive: it says nothing of a task between its stat and its store. |
| `DocumentCacheProofs`: `HeldTheorem`, `PromiseTheorem` | `HeldInv`: what a task could still answer with is among what the file held while it was at work. |
| `DocumentCacheProofs`: `SoloTheorem`, `EntryUsableTheorem`, `SaveExactTheorem` | `SoloInv`: outside watch mode the keys, the prune and the entries are those of one run, and a task's stamp is the file's until somebody else writes. |
| `TokenUsageProofs`: `UsageTheorem`, `TypeTheorem`, `ReportExactTheorem`, `LastRunTheorem`, `NoFalseUnusedTheorem` (the last without `--cache`) | `UsageInv`: for a run that is alone the tracker's keys are what it has linted; for the run that began last they are at least that. |
| `KernelProofs`: `KernelTheorem`, `LifeTypeTheorem`, `SingleKernelTheorem`, `StartMeansLoadedTheorem` | `KernelInv`: while commands are orderly, at most one is at work, a spawned daemon is awaited by it, and the three files tell the truth. |
| `LspServerProofs`: `TypeTheorem`, `OneLintTheorem`, `LastLintTheorem`, `SettledTheorem`, `RelintsAffectedTheorem` | `LastLint`: for a document that is not upset, the lint that will end last is of the editor's text. |
| `WatchModeProofs`: `TypeTheorem`, `CacheOfConfigTheorem`, `WatchTheorem`, `EditsReportedTheorem` | `NoEditLost`: what is not yet reported of a file is announced, is about to be linted, or has been read as it is. |
| `WatchModeProofs`: `CalmTheorem`, `CalmIsCurrentTheorem` | `CalmInv`: the one handler at work has what was current when it began; screen, sources and cache file follow the configuration unless its event is pending or a reload is on its way to them. |
| `PolicyProofs`: `TypeTheorem`, `PolicyTheorem`, `EnforcedTheorem`, `CoveredTheorem`, `OneSourceTheorem` | `AllKept`: what a visited file asks for is still to be merged, or part of what is merged into a file on the chain, or part of the policy; `PhaseInv`: how far each phase has come; `SourceInv` for plugins. |
| `PolicyProofs`: `AgentTheorem`, `AgentOfLastTheorem` | `AgentInv`: the order of resolution falls into one piece for each file on the chain, from where it was opened to where the next one was. |
| `KernelProofs`: `TokensTheorem`, `TypeTheorem`, `EndsWellTheorem`, `ViewCompleteTheorem` | `TokensInv`: what is answered was done, and nothing is open before it is connected (`Conversation`); as long as the kernel is up, what was there all along is there still, and what is not among the listed tokens is among the deprecations to come (`Reading`). |
| `McpServerProofs`: `ServerTheorem`, `TypeTheorem`, `PromiseSafe` | `ServerInv`: the last piece of a body stands where its message ends (`StreamInv`), a handler is at work only on what has arrived and is right so far (`TaskInv`), and a response means that its handler is done (`OutInv`). |
| `LintTextProofs`: `LintTypes` | `TypeInv`: the text has the document's lines and no other kind of item (`TextInv`), each rule is in one of three places, to be created, listening or not created (`RulesInv`), and a message's fix is a piece of the line it is for (`MessagesInv`). |
| `LintTextProofs`: `LintPassExact` | `PassInv`: what a rule has said of a line and what it will say at the visits that are due add up to what the line asks of it (`VisitInv`); the filter leaves all of that or nothing (`FixInv`); every error is of one failed hook (`ErrorsInv`). |
| `LintTextProofs`: `LintFixesExact` | `FixesInv`: a message carries only fixes that its line asks of its rule; as long as no listener has failed, each fix that a line asks for is carried or still to be offered, and after the filter each that is not hidden is carried. |
| `McpServerProofs`: `ProgressTheorem`, `NoneForgottenTheorem` | `ProgressInv`: the frames of counted messages stand in the stream at their places (`FrameInv`), the loop stands before the first that is not handled (`PlaceInv`), and it has not stopped before a whole message. |

Each proof has the form `Init => Inv`, `Inv /\ [Next]_vars => Inv'` with a step
per action, and `Inv => Property`.

*The two refinements.*  `PromiseTheorem` shows that each step of DocumentCache is
a step of LintPromise or a stutter: a write that moves the file on, a task that
starts or ends, with `nowBar`, `windowBar` and `answerBar` for the promise's
state.  The difficult step is the one that serves a hit: the entry may have been
stored by a task of another run, after an edit, so that `HeldInv` has to speak of
what is in the cache and of what others are about to put there.

`PromiseSafe` shows it for McpServer and AgentPromise.  A message is asked when
its last cell has arrived, and an answer may come only then and only once.  The
loop does not know of that: it searches for `\r\n\r\n`, counts, and cuts.  After a
wrong header it may cut anywhere, so what is invariant is weaker than "the buffer
starts with a frame": a body is understood only if its last piece is the last
thing cut off, and that piece exists once and stands at the end of its message.
Therefore a message is dispatched once, after it has arrived, whatever the
headers say.

`NoneForgotten` is what a promise of an answer comes to without time: as soon as
the loop has stopped and no handler is under way, all messages that arrived
behind right headers have their answers.  Here the stream does matter, cell by
cell (`FrameInv`).  With the fairness of `FairSpec` the rest of `InTime` follows.

*The exact cache.*  `EntryUsable` and `SaveExact` say that nothing is lost, and so
need that nobody else interferes: outside watch mode runs do not overlap
(`RunsApart`), each key is of a document of the run once the prune is through
(`KeysOfRuns`), and a task that succeeds has an entry with its own stamp until
its failure removes it (`EntriesOfTasks`).

*The last agent policy.*  The tree of `extends` is walked depth first, and a file
met again makes the start fail.  No induction over the tree is needed: `AgentInv`
keeps the order of resolution in consecutive pieces, one for each file on the
chain, and closing a file joins its piece to that of the file
below it.

*One text.*  A property of LintText compares two ways through a document: what
the code does, parser by parser and visit by visit, and what each line asks for.
`LintTextProofs` goes from the one to the other in four parts.

1. *Sequences.*  The parsers, the dispatch and the filter concatenate what they
   make of each element, so there are lemmas on what concatenation holds, on the
   last value of a walk along a sequence, and on `Total`, the sum of a weight
   along a sequence, which splits where the sequence does.
2. *Types*, rule by rule and parser by parser: what is reported of a value are
   offers within it, and what a document is parsed into are visits.  Visits of
   style sheets and of modules cover each area once, in order.
3. *Messages.*  A message counts for its rule and line, so that counting becomes a
   `Total`.  At the parse the total over all visits is what the lines ask for
   (`VisitInv`); each dispatch moves the part of one visit from what is due to
   what is said; a rule that throws loses its part and gets one error.  What a tag
   is told depends on the imports visited before it, so `VisitInv` keeps, for each
   tag that is due, that these are the imports above it in the text.  The comments
   are read in another order by the code (a block, a line, the next line) than by
   `HiddenBy`, and agree.
4. *Fixes.*  The fixes taken are a maximal set of separate ones.  They are spliced
   from the end, so that a splice leaves the offsets of those before it as they
   were: after each splice a line is the line with the fixes behind that offset
   replaced (`ReplacedMore`, `AppliedLines`), and lines without a chosen fix stay
   the same.

These theorems assume of a document that the areas of a style sheet or a module
follow each other and hold what their kind of code can hold, that a rule is
enabled once and that the name of a rule is not the name of an error
(`JobsAssumption`), that a line has cells (`WidthAssumption`), that tokens have a
place in the registry and a value (`TokensAssumption`), and that the options of
the rules are tables of names (`OptionsAssumption`).

**Model-checked only.**  The liveness properties, which TLAPS does not prove
under fairness: `RunTerminates`, `CommandsReturn`, `CatchesUp`, `SettlesDown`,
`Terminates`, and of McpServer's `PromiseKept` the half that says in time.
`FixesSettle` bounds the passes by the longest chain of replacements among the
tokens at hand, which is an induction over the tokens.  `PairsKept` rests on
every rule fixing a closing tag as it fixes the opening one, which is a fact about
pairs of lines, where the invariants of LintText are about one line each.

## 5. What is not modelled

* Syntax trees and the spelling of values, formatters, colours, wording, the
  parsing of options: functions without state.
* In LintText: one position on a line is one cell, and a line that outgrows its
  cells is *spoiled*, which the properties say; newlines are never replaced; the
  imports of a component file are one scope; a style attribute is one visit for
  each of its entries; names are in lower case; colour and timing functions are
  single cells; references are `var()` ones (braces and pointers left out), and
  so are style attributes that are strings in JSX.  A Vue template or a Svelte
  file that does not parse makes the whole lint fail and is left out.
* In McpServer: bytes are cells, so a wrong length eats whole cells; which tokens
  suit a property is a table; the hash provider returns a hash, none, or throws;
  the texts of explanations and the CSS variables are left out.
* In TokenGraph: values, types and metadata of tokens (the hash of `docs` and
  `tokens` is of the pointers alone), `diff`, which compares two files, and the
  lookups of `token-registry.ts`, which are functions of what was loaded.
* Globbing, `chokidar`, `flat-cache`, `KernelProcess`, the language client:
  third-party code, modelled only by what the code relies on.
* Two writes within the resolution of `mtimeMs`; clocks that go back.
* In WatchMode the output and report files, the patterns of ignore files,
  options, and targets outside the working directory, which are never fixed; in
  Policy the tokens, patterns and ignore lists of a configuration and the options
  of a rule; in LspServer the framing and requests that only read.
* `kernelStatus`, which only reads, and `dispose`, which nobody calls.
* The registry development kit, telemetry, the commands `docs` and
  `export-design-system-md` (but for what they read; the lint that the latter runs
  with `--lint` is a lint like any other), `migrate`, `init` and `diff`: pure, or
  one file read and one written.

## 6. What the modelling brought up

The two violated runs are findings, quoted in `PROJECT.json`.  Other places
where the code does something a reader might not expect, and which the models
follow.

The cache, the tracker and the kernel:

* With `--cache` a document that is served is not tracked
  (`cache-manager.ts:42`), so a second run reports as unused what its documents
  use; `docs/rules/design-system/no-unused-tokens.md:9` says "never referenced in
  any linted file".  `NoFalseUnused` is proved without `--cache`, and fails with
  it.
* `ignore` of `no-unused-tokens` is compared with the display value alone
  (`token-tracker.ts:114`), while `docs/rules/design-system/no-unused-tokens.md:48`
  allows "token values, token paths, or CSS variable names" and its example at 38
  has `--custom-color`.  `ReportExact` leaves such tokens open.
* A ready file that a killed daemon left answers for the next one
  (`kernel.ts:123`), against the comment at 115-118.
* With `--watch --cache`, which `docs/usage.md:327-333` recommends, and a target
  that covers the cache file, as `.` covers the default one, each save starts a
  run, which saves again, without end: `watch.ts:194-203` ignores the output and
  report files, and not the cache.
* The language server's first lint loads the tokens a second time
  (`linter.ts:166`, `token-tracker.ts:52`).  When that load fails, after the
  linter's succeeded, `didOpen` ends in an error response or silence, the document
  is neither recorded nor shown, and no token change relints it
  (`server.ts:653`); only an edit does.
* Overlapping runs on one linter: the second `beginRun` clears what the first
  has tracked, so the first reports too much (`linter.ts`, `ReportExact` is about
  runs that overlap no other).
* A bootstrap that fails is logged, and the ready file is written all the same
  (`kernel-daemon.ts:141`, against the comment at 148).
* `didClose` does nothing about a lint in flight, which publishes for the closed
  document when it ends (`packages/lsp/src/server.ts:384`).
* A token change relints the text that was last recorded, which may be older than
  the one being linted (`server.ts:660`), and concerns only documents whose
  diagnostics name the token (`server.ts:309`; `types.ts:67` says more).
* `validate` creates a linter without a plugin loader (`validate-config.ts:34`),
  so a configuration that turns on a plugin's rule fails with "Unknown rule(s)",
  and one with a plugin that is missing is valid.
* A diamond in `extends` is refused as circular, because a visited file stays
  visited (`policy-loader.ts:160`).
* `docs/policy.md:138` says that all arrays and maps are merged; `agentPolicy`,
  with its array `trustedAgents`, and `ratchet` are replaced as a whole
  (`policy-loader.ts:138-146`).  Since the schema gives each policy file a ratchet
  (line 51), that of a base file never survives the merge.
* Ratchet and trusted agents need `--baseline` and an agent id, and the command
  line has no such options (`src/cli/index.ts:62-107`).
* Coverage below 1 is never enforced (`policy-enforcer.ts:200`; `docs/policy.md`
  says it is a threshold).
* A plugin that two configurations of a chain name conflicts with itself, since
  the lists are concatenated (`loader.ts:69`, `plugin-manager.ts:61`); relative
  plugin paths are resolved from the nearest configuration, whichever names them.
* A reload drops `--concurrency`, and `refreshIgnore` goes on with the ignore
  patterns of the first configuration (`watch.ts:246`, `env.ts:172`).
* The cache is not keyed by the configuration: watch mode empties it on a reload,
  the command line does not when the configuration changed between two runs.
* A run over some files prunes the entries of all others (`cache-service.ts:8`).
* The lint of an older text that ends last replaces the diagnostics of the newer
  one for good (`packages/lsp/src/server.ts:290`; `tests/lsp.test.ts:517` expects
  those of the change).
* A header block without a content length wedges the language server's buffer
  (`server.ts:596`), and the MCP server's.

A text and its fixes:

* A declaration in a tagged template, or an entry of a style attribute, is
  reported one line above its own (`ts-parser.ts:228`, `:268`: the start is counted
  from zero), so a directive for it must stand a line higher than
  `docs/troubleshooting.md:96` says; `tests/tagged-template.test.ts:49` expects
  line 3 for what stands on line 4.  Its offsets count from the start of the literal (`fix_embedded`).
* `docs/troubleshooting.md:98` says that a disable comment suppresses its rules up
  to the enable comment; a line in between with a directive of its own leaves the
  block, and a second disable comment replaces the rules of the first
  (`linter.ts:676-692`).  `PassExact` accepts either reading.
* Deprecated tokens that replace each other in a circle are fixed round it, a step
  each pass (`deprecation.ts:93`).
* `colors` offers fixes only under `strictReference`.
* A Vue file with both `script` and `script setup` has its template visited
  twice.
* Each tag of an element is fixed by itself, so a comment that hides one of them
  leaves the element unbalanced (`icon-usage.ts:101`).

The MCP server:

* When the budget of `lint-snippet` runs out, diagnostics,
  `violationsRemaining` and `converged` describe the text before its last fix
  (`lint-snippet.ts:60`; `types.ts:66`); a depth of zero or less, or none at all,
  has "converged" without a lint.
* The kernel's hash is asked for after the lint, while the linter's tokens were
  loaded once, so the two need not belong together ("snapshot that produced
  them", `aep-v1.md`).  The error of a wrong version and the fields of a response
  differ from `aep-v1.md` sections 3 and 4.1.
* Notifications that are not known are answered, with a null id.
* The end of the input exits the process with answers outstanding.
* A provider that fails while no lint awaits it is an unhandled rejection, which
  ends the process (`linter.ts:131`); the same happens to the command line while
  it scans for files, and there the message of `index.ts` is never printed.
* Completions are empty until the tokens have loaded; the link of an explanation
  is `rules/design-token-colors.md`, where the file is
  `docs/rules/design-token/colors.md`.

Tokens:

* A write command puts a slash in front of `#/color/old` (`write.ts:117`), so the
  pointer that `docs/usage.md:274` names goes out as `/#/color/old`, which is no
  pointer of a document; unless the kernel undoes that, a deprecation concerns no
  configured token, and `tokens` and `docs` leave out what was added, since it is
  no JSON pointer (`kernel-client.ts:67`).
* The snapshot command takes a refusal for a success, with hash "(unknown)", and
  does not disconnect when its request fails (`snapshot.ts:83`).
* A write whose disconnect fails has printed its success and fails all the same
  (`write.ts:143`).
* `export-design-system-md` is the only command that uses the deprecations it
  reads; `tokens` and `docs` drop them.
* `--socket-path` of a kernel that is not there falls back to the default HTTP
  port, hence to another kernel (`write.ts:66`).
* The daemon adds the tokens of all themes under their pointers, so the last
  theme wins (`kernel-daemon.ts:102`), and it serves its socket before they are
  all in: a lint that finds the socket may load a part of them, for good.
* Each linter loads its tokens twice, each time with a connection of its own
  (`dsr-token-provider.ts:86`), and nothing closes either; in watch mode each
  reload adds two.

## 7. The plan

Done, in this order: DocumentCache, LintPromise, TokenUsage, KernelLifecycle,
LspServer, WatchMode, Policy, because the cache, the tracker and the kernel are
what every lint depends on; then Rules and LintText, which are the lint itself,
McpServer with AgentPromise, TokenGraph; the proofs of each, those of LintText
last.

To come, in this order:

1. *LintSession*: Policy's rules and WatchMode's reload composed with the cache,
   so that a cached result also names the rules it was computed with.
2. The requests of the language server that read (code actions, hover,
   completion) while lints are in flight; *RdkWatcher*: events during a build.
3. The lookups by pointer, name and theme of the token registry.

Runs stay few: a new module brings one passing run and, where code and documents
differ, one violated one; a violated run makes room when it is no longer the
sharpest way to show its point.
