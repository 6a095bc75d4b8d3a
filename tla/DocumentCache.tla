--------------------------- MODULE DocumentCache ---------------------------
(***************************************************************************)
(* The per-file result cache of design-lint: Runner.run, CacheService,     *)
(* CacheManager.processDocument and NodeCacheProvider, with the files on   *)
(* disk, an editor that changes them at any moment, and a process that can *)
(* be killed and started again.                                            *)
(*                                                                         *)
(* A lint result is identified with the content it describes: rules are    *)
(* deterministic functions of the text, so two results differ only if the  *)
(* texts do.  One action stands for the code between two awaits.           *)
(***************************************************************************)
EXTENDS Integers, FiniteSets

CONSTANTS
  Docs,         \* absolute paths of the documents a run may be given
  Contents,     \* what a file can hold
  Runs,         \* slots for runs of one process that may overlap
  Fixed,        \* Fixed[c]: c after applyFixes with the messages c gets
  Size,         \* Size[c]: size of a file that holds c
  Writable,     \* the documents canWriteFix accepts (inside the project)
  Concurrency,  \* floor(config.concurrency), any natural number
  Watch,        \* TRUE in watch mode: runs overlap and unlinks are handled
  MaxClock,     \* bound: no edit and no new run once the clock reads this
  None,         \* undefined: no file, no entry, no stat, no text
  Failed        \* the result that holds one rule-execution-error message

ASSUME FixedAssumption == Fixed \in [Contents -> Contents]
ASSUME SizeAssumption == Size \in [Contents -> Nat]
ASSUME FailedAssumption == Failed \notin Contents
ASSUME ConcurrencyAssumption == Concurrency \in Nat
ASSUME MaxClockAssumption == MaxClock \in Nat
\* A result is told apart from what AnswerOf says of a task without one.
ASSUME AnswerAssumption ==
  {"idle", "waiting", "unpromised"} \cap (Contents \cup {None, Failed}) = {}

VARIABLES
  disk,   \* disk[d]: the file at d and its mtime, or None
  clock,  \* the mtime of the last write: every write gets a fresh one
  cache,  \* the entries of the process's flat-cache, in memory
  saved,  \* the entries of the cache file
  run,    \* run[r]: phase, --fix, documents and keys still to prune
  task    \* task[r][d]: the progress of processDocument for d in run r

vars == <<disk, clock, cache, saved, run, task>>

File == [content: Contents, mtime: Nat]

Stamp == [mtime: Nat, size: Nat]

\* CacheEntry.  "raced" is history: the stamp was taken by the re-stat of a
\* fix after somebody else had written the file.
Entry == [mtime: Nat, size: Nat, result: Contents, raced: BOOLEAN]

ASSUME NoneAssumption == None \notin File /\ None \notin Entry

\* The locals of processDocument.  "text" is the content being linted and,
\* once "done", the content the returned result describes.  "foreign" is
\* history: somebody else wrote the file since the task's stat or its own
\* write, whichever is later; "held" is what the file held, None for no file,
\* while the task was at work; "raced" is what Entry says.
Task == [pc: {"none", "queued", "get", "read", "lint", "write", "relint",
              "restat", "store", "done"},
         stamp: Stamp \cup {None},
         text: Contents \cup {None, Failed},
         foreign: BOOLEAN,
         held: SUBSET (Contents \cup {None}),
         raced: BOOLEAN]

Run == [phase: {"idle", "prune", "tasks"},
        fix: BOOLEAN,
        docs: SUBSET Docs,
        stale: SUBSET Docs]

NoTask == [pc |-> "none", stamp |-> None, text |-> None,
           foreign |-> FALSE, held |-> {}, raced |-> FALSE]
QueuedTask == [pc |-> "queued", stamp |-> None, text |-> None,
               foreign |-> FALSE, held |-> {}, raced |-> FALSE]
NoTasks == [d \in Docs |-> NoTask]
NoRun == [phase |-> "idle", fix |-> FALSE, docs |-> {}, stale |-> {}]
EmptyCache == [d \in Docs |-> None]

----------------------------------------------------------------------------
(* What the steps read.                                                    *)

\* The two fields of fs.stat that the cache uses.
StatOf(f) == [mtime |-> f.mtime, size |-> Size[f.content]]

\* Faulty variant: the limit without its lower bound.
LimitUnclamped == Concurrency

\* Math.max(1, Math.floor(config.concurrency)).
Limit == IF Concurrency < 1 THEN 1 ELSE Concurrency

\* p-limit has started the task and not seen it settle.
Working(r, d) == task[r][d].pc \notin {"none", "queued", "done"}

Active(r) == {d \in Docs : Working(r, d)}

Holds(d) == IF disk[d] = None THEN None ELSE disk[d].content

\* Faulty variant: an entry is accepted by its size alone.
IsCacheValidBySize(r, d) ==
  /\ ~ run[r].fix
  /\ task[r][d].stamp # None
  /\ cache[d] # None
  /\ cache[d].size = task[r][d].stamp.size

\* isCacheValid, with the entry the provider returned.
IsCacheValid(r, d) ==
  /\ ~ run[r].fix
  /\ task[r][d].stamp # None
  /\ cache[d] # None
  /\ cache[d].mtime = task[r][d].stamp.mtime
  /\ cache[d].size = task[r][d].stamp.size

\* The fix branch: --fix, a file that was there, fixes that change the text,
\* and a path inside the project root.
WritesFix(r, d) ==
  /\ run[r].fix
  /\ task[r][d].stamp # None
  /\ Fixed[task[r][d].text] # task[r][d].text
  /\ d \in Writable

\* The stamp the entry gets.  Without a stat it is Date.now() and the text's
\* length.  Date.now() is whole milliseconds and mtimeMs is not: the model
\* takes the two never to be equal, and 0 is no file's mtime.
StampToStore(t) ==
  IF t.stamp = None THEN [mtime |-> 0, size |-> Size[t.text]] ELSE t.stamp

EntryToStore(t) ==
  [mtime |-> StampToStore(t).mtime, size |-> StampToStore(t).size,
   result |-> t.text, raced |-> t.raced]

\* The tasks after d came to hold v, or, with None, was removed: history only.
Disturbed(d, v) ==
  [r \in Runs |->
     [task[r] EXCEPT ![d] =
        [task[r][d] EXCEPT !.foreign = TRUE,
                           !.held = IF Working(r, d) THEN @ \cup {v} ELSE {}]]]

AllDone(r) == \A d \in run[r].docs : task[r][d].pc = "done"
CanSave(r) == run[r].phase = "tasks" /\ AllDone(r)

----------------------------------------------------------------------------
(* A run: Runner.run.  A run without documents returns a warning before it *)
(* touches the cache; it changes nothing and has no action.                *)

Init ==
  /\ disk \in [Docs -> [content: Contents, mtime: {1}] \cup {None}]
  /\ clock = 1
  /\ cache = EmptyCache
  /\ saved = EmptyCache
  /\ run = [r \in Runs |-> NoRun]
  /\ task = [r \in Runs |-> NoTasks]

\* A run starts: the snapshot of the keys that are not in its documents, and
\* one queued task for each document.
Start(r, docs, fix) ==
  /\ run[r].phase = "idle"
  /\ Watch \/ \A s \in Runs : run[s].phase = "idle"
  /\ clock < MaxClock
  /\ run' = [run EXCEPT ![r] =
               [phase |-> "prune", fix |-> fix, docs |-> docs,
                stale |-> {k \in Docs \ docs : cache[k] # None}]]
  /\ task' = [task EXCEPT ![r] =
                [d \in Docs |-> IF d \in docs THEN QueuedTask ELSE NoTask]]
  /\ UNCHANGED <<disk, clock, cache, saved>>

\* One cache.remove of the loop in CacheService.prune.
PruneKey(r, k) ==
  /\ run[r].phase = "prune"
  /\ k \in run[r].stale
  /\ cache' = [cache EXCEPT ![k] = None]
  /\ run' = [run EXCEPT ![r].stale = @ \ {k}]
  /\ UNCHANGED <<disk, clock, saved, task>>

EndPrune(r) ==
  /\ run[r].phase = "prune"
  /\ run[r].stale = {}
  /\ run' = [run EXCEPT ![r].phase = "tasks"]
  /\ UNCHANGED <<disk, clock, cache, saved, task>>

\* Promise.all has settled: the cache file is replaced and the run returns.
Save(r) ==
  /\ CanSave(r)
  /\ saved' = cache
  /\ run' = [run EXCEPT ![r] = NoRun]
  /\ task' = [task EXCEPT ![r] = NoTasks]
  /\ UNCHANGED <<disk, clock, cache>>

----------------------------------------------------------------------------
(* A task: CacheManager.processDocument.                                   *)

\* p-limit lets the task start and it stats the file.
Stat(r, d) ==
  /\ run[r].phase = "tasks"
  /\ task[r][d].pc = "queued"
  /\ Cardinality(Active(r)) < Limit
  /\ task' = [task EXCEPT ![r][d] =
                [pc |-> "get",
                 stamp |-> IF disk[d] = None THEN None ELSE StatOf(disk[d]),
                 text |-> None, foreign |-> FALSE, held |-> {Holds(d)},
                 raced |-> FALSE]]
  /\ UNCHANGED <<disk, clock, cache, saved, run>>

\* The cached result is returned: nothing is read and nothing is linted.
Hit(r, d) ==
  /\ task[r][d].pc = "get"
  /\ IsCacheValid(r, d)
  /\ task' = [task EXCEPT ![r][d] =
                [@ EXCEPT !.pc = "done", !.text = cache[d].result,
                          !.held = {}, !.raced = cache[d].raced]]
  /\ UNCHANGED <<disk, clock, cache, saved, run>>

Miss(r, d) ==
  /\ task[r][d].pc = "get"
  /\ ~ IsCacheValid(r, d)
  /\ task' = [task EXCEPT ![r][d] = [@ EXCEPT !.pc = "read"]]
  /\ UNCHANGED <<disk, clock, cache, saved, run>>

Read(r, d) ==
  /\ task[r][d].pc = "read"
  /\ disk[d] # None
  /\ task' = [task EXCEPT ![r][d] =
                [@ EXCEPT !.pc = "lint", !.text = disk[d].content]]
  /\ UNCHANGED <<disk, clock, cache, saved, run>>

Lint(r, d) ==
  /\ task[r][d].pc = "lint"
  /\ task' = [task EXCEPT ![r][d] =
                [@ EXCEPT !.pc = IF WritesFix(r, d) THEN "write" ELSE "store"]]
  /\ UNCHANGED <<disk, clock, cache, saved, run>>

\* Faulty variant: the fixed file is not linted again, the first result stays.
WriteWithoutRelint(r, d) ==
  /\ task[r][d].pc = "write"
  /\ disk' = [disk EXCEPT ![d] =
                [content |-> Fixed[task[r][d].text], mtime |-> clock + 1]]
  /\ task' = [Disturbed(d, Fixed[task[r][d].text]) EXCEPT ![r][d] =
                [task[r][d] EXCEPT !.pc = "relint", !.foreign = FALSE,
                                   !.held = @ \cup {Fixed[task[r][d].text]}]]
  /\ clock' = clock + 1
  /\ UNCHANGED <<cache, saved, run>>

\* writeFile puts the fixed text in place of whatever the file holds now.
Write(r, d) ==
  /\ task[r][d].pc = "write"
  /\ LET output == Fixed[task[r][d].text] IN
       /\ disk' = [disk EXCEPT ![d] = [content |-> output, mtime |-> clock + 1]]
       /\ task' = [Disturbed(d, output) EXCEPT ![r][d] =
                     [task[r][d] EXCEPT !.pc = "relint", !.text = output,
                                        !.foreign = FALSE,
                                        !.held = @ \cup {output}]]
  /\ clock' = clock + 1
  /\ UNCHANGED <<cache, saved, run>>

Relint(r, d) ==
  /\ task[r][d].pc = "relint"
  /\ task' = [task EXCEPT ![r][d] = [@ EXCEPT !.pc = "restat"]]
  /\ UNCHANGED <<disk, clock, cache, saved, run>>

\* Faulty variant: the entry of a fixed file keeps the stamp of the old one.
RestatKeepsStamp(r, d) ==
  /\ task[r][d].pc = "restat"
  /\ disk[d] # None
  /\ task' = [task EXCEPT ![r][d] =
                [@ EXCEPT !.pc = "store", !.raced = task[r][d].foreign]]
  /\ UNCHANGED <<disk, clock, cache, saved, run>>

Restat(r, d) ==
  /\ task[r][d].pc = "restat"
  /\ disk[d] # None
  /\ task' = [task EXCEPT ![r][d] =
                [@ EXCEPT !.pc = "store", !.stamp = StatOf(disk[d]),
                          !.raced = task[r][d].foreign]]
  /\ UNCHANGED <<disk, clock, cache, saved, run>>

\* Faulty variant: the stamp is taken when the entry is made, after the read.
StoreStatsLate(r, d) ==
  /\ task[r][d].pc = "store"
  /\ LET stamp == IF disk[d] = None THEN None ELSE StatOf(disk[d]) IN
       /\ cache' = [cache EXCEPT ![d] =
                      EntryToStore([task[r][d] EXCEPT !.stamp = stamp])]
       /\ task' = [task EXCEPT ![r][d] =
                     [@ EXCEPT !.pc = "done", !.stamp = stamp, !.held = {}]]
  /\ UNCHANGED <<disk, clock, saved, run>>

Store(r, d) ==
  /\ task[r][d].pc = "store"
  /\ cache' = [cache EXCEPT ![d] = EntryToStore(task[r][d])]
  /\ task' = [task EXCEPT ![r][d] = [@ EXCEPT !.pc = "done", !.held = {}]]
  /\ UNCHANGED <<disk, clock, saved, run>>

\* Faulty variant: a failed task caches its error message.
FailCached(r, d) ==
  /\ task[r][d].pc \in {"read", "lint", "write", "relint", "restat"}
  /\ cache' = [cache EXCEPT ![d] =
                 [mtime |-> clock, size |-> 0, result |-> Failed,
                  raced |-> FALSE]]
  /\ task' = [task EXCEPT ![r][d] =
                [@ EXCEPT !.pc = "done", !.text = Failed, !.held = {}]]
  /\ UNCHANGED <<disk, clock, saved, run>>

\* Faulty variant: a failed task leaves the old entry where it is.
FailKeepsEntry(r, d) ==
  /\ task[r][d].pc \in {"read", "lint", "write", "relint", "restat"}
  /\ task' = [task EXCEPT ![r][d] =
                [@ EXCEPT !.pc = "done", !.text = Failed, !.held = {}]]
  /\ UNCHANGED <<disk, clock, cache, saved, run>>

\* handleRuntimeError: the read, a lint, the write or the re-stat throws.
\* The entry goes and the result is a single error message.
Fail(r, d) ==
  /\ task[r][d].pc \in {"read", "lint", "write", "relint", "restat"}
  /\ cache' = [cache EXCEPT ![d] = None]
  /\ task' = [task EXCEPT ![r][d] =
                [@ EXCEPT !.pc = "done", !.text = Failed, !.held = {}]]
  /\ UNCHANGED <<disk, clock, saved, run>>

----------------------------------------------------------------------------
(* The surroundings: an editor, watch mode's unlink handler, the end of    *)
(* the process.                                                            *)

Edit(d, c) ==
  /\ clock < MaxClock
  /\ disk' = [disk EXCEPT ![d] = [content |-> c, mtime |-> clock + 1]]
  /\ clock' = clock + 1
  /\ task' = Disturbed(d, c)
  /\ UNCHANGED <<cache, saved, run>>

Delete(d) ==
  /\ disk[d] # None
  /\ disk' = [disk EXCEPT ![d] = None]
  /\ task' = Disturbed(d, None)
  /\ UNCHANGED <<clock, cache, saved, run>>

\* handleUnlink drops the entry of a path chokidar reported as removed; by
\* the time it runs the file may be back.
Forget(d) ==
  /\ Watch
  /\ cache[d] # None
  /\ cache' = [cache EXCEPT ![d] = None]
  /\ UNCHANGED <<disk, clock, saved, run, task>>

\* The process ends, in the middle of anything, and a new one loads the file.
Restart ==
  /\ cache' = saved
  /\ run' = [r \in Runs |-> NoRun]
  /\ task' = [r \in Runs |-> NoTasks]
  /\ UNCHANGED <<disk, clock, saved>>

\* The process ends while it writes the cache file: what is left does not
\* parse and flat-cache starts empty.
TornSave ==
  /\ \E r \in Runs : CanSave(r)
  /\ cache' = EmptyCache
  /\ saved' = EmptyCache
  /\ run' = [r \in Runs |-> NoRun]
  /\ task' = [r \in Runs |-> NoTasks]
  /\ UNCHANGED <<disk, clock>>

----------------------------------------------------------------------------

TaskStep(r, d) ==
  \/ Stat(r, d) \/ Hit(r, d) \/ Miss(r, d) \/ Read(r, d) \/ Lint(r, d)
  \/ Write(r, d) \/ Relint(r, d) \/ Restat(r, d) \/ Store(r, d) \/ Fail(r, d)

RunStep(r) ==
  \/ \E k \in Docs : PruneKey(r, k)
  \/ EndPrune(r)
  \/ \E d \in Docs : TaskStep(r, d)
  \/ Save(r)

UserStep ==
  \/ \E r \in Runs, docs \in SUBSET Docs \ {{}}, fix \in BOOLEAN :
       Start(r, docs, fix)
  \/ \E d \in Docs, c \in Contents : Edit(d, c)
  \/ \E d \in Docs : Delete(d) \/ Forget(d)
  \/ Restart
  \/ TornSave

Next == (\E r \in Runs : RunStep(r)) \/ UserStep

Spec == Init /\ [][Next]_vars

\* The event loop keeps running the continuations of a live run.  Nothing is
\* assumed of the users.
FairSpec == Spec /\ \A r \in Runs : WF_vars(RunStep(r))

----------------------------------------------------------------------------
(* Properties.                                                             *)

\* Every variable keeps its type.
TypeOK ==
  /\ disk \in [Docs -> File \cup {None}]
  /\ clock \in Nat
  /\ cache \in [Docs -> Entry \cup {None}]
  /\ saved \in [Docs -> Entry \cup {None}]
  /\ run \in [Runs -> Run]
  /\ task \in [Runs -> [Docs -> Task]]

\* The stamp [mtime, size] is that of the file at d as it is now.
Current(stamp, d) ==
  /\ disk[d] # None
  /\ stamp.mtime = disk[d].mtime
  /\ stamp.size = Size[disk[d].content]

SoundEntries(entries) ==
  \A d \in Docs :
    entries[d] # None /\ Current(entries[d], d) /\ ~ entries[d].raced
      => entries[d].result = disk[d].content

\* An entry that the next run would accept, in memory or in the cache file,
\* holds the result of what the file holds now, whatever edits, overlapping
\* runs, failures and kills came between the stat, the read and the store.
\* The one exception is an entry whose fix was overtaken by another writer
\* between its writeFile and its second stat (cache-manager.ts 60-64).
CacheSound == SoundEntries(cache) /\ SoundEntries(saved)

\* A returned result, cached or not, describes the version of the file that
\* its stamp names: if the file is still that version, the report is about
\* what is in it.
ResultSound ==
  \A r \in Runs, d \in Docs :
    LET t == task[r][d] IN
      /\ t.pc = "done"
      /\ t.text # Failed
      /\ t.stamp # None /\ Current(t.stamp, d)
      /\ ~ t.raced
      => t.text = disk[d].content

\* Outside watch mode: a document that was linted without failure and that
\* nobody else wrote meanwhile has an entry the next run will accept, also
\* when the run itself rewrote the file.
EntryUsable ==
  ~ Watch =>
    \A r \in Runs, d \in Docs :
      LET t == task[r][d] IN
        t.pc = "done" /\ t.text # Failed /\ t.stamp # None /\ ~ t.foreign
          => cache[d] # None /\ Current(cache[d], d)

\* Outside watch mode: the cache file a run leaves has an entry for exactly
\* the documents of the run that did not fail: the prune left no other key,
\* and no failure left an old one.
SaveExact ==
  [][\A r \in Runs : Save(r) /\ ~ Watch =>
       {d \in Docs : saved'[d] # None}
         = {d \in run[r].docs : task[r][d].text # Failed}]_vars

\* A run without --fix may pass on an entry whose fix was overtaken by
\* another writer: nothing is promised of that result.
AnswerOf(r, d) ==
  CASE task[r][d].pc \in {"none", "queued"} -> "idle"
    [] Working(r, d) -> "waiting"
    [] OTHER -> IF task[r][d].raced /\ ~ run[r].fix THEN "unpromised"
                                                    ELSE task[r][d].text

nowBar == [d \in Docs |-> Holds(d)]
windowBar == [r \in Runs |-> [d \in Docs |-> task[r][d].held]]
answerBar == [r \in Runs |-> [d \in Docs |-> AnswerOf(r, d)]]

Promise == INSTANCE LintPromise WITH
  now <- nowBar, window <- windowBar, answer <- answerBar

\* The cached linter keeps the promise of the linter without a cache: each
\* result a task hands out, from the cache or not, describes a content the
\* file held while that task was at work (cache-manager.ts 26-71), save the
\* results of entries left by a raced fix.
PromiseKept == Promise!Spec

\* Why the cache is sound: the inductive invariant behind CacheSound and
\* ResultSound.  A write gets an mtime above every stamp taken so far, so a
\* stamp that equals the file's mtime was taken of the file as it is; the
\* text, read after the stat, is then what the stamp stands for.
TextRead ==
  \A r \in Runs, d \in Docs :
    task[r][d].pc \in {"lint", "write", "relint", "restat", "store"}
      => task[r][d].text \in Contents

ClockAhead ==
  /\ \A d \in Docs : disk[d] # None => 0 < disk[d].mtime /\ disk[d].mtime <= clock
  /\ \A d \in Docs : cache[d] # None => cache[d].mtime <= clock
  /\ \A d \in Docs : saved[d] # None => saved[d].mtime <= clock
  /\ \A r \in Runs, d \in Docs :
       task[r][d].stamp # None => task[r][d].stamp.mtime <= clock

\* An entry or a task's text belongs to the version its mtime names.
OfVersion(mtime, content, d) ==
  disk[d] # None /\ disk[d].mtime = mtime => disk[d].content = content

EntriesOfVersion(entries) ==
  \A d \in Docs : entries[d] # None /\ ~ entries[d].raced
                   => OfVersion(entries[d].mtime, entries[d].result, d)

TasksOfVersion ==
  \A r \in Runs, d \in Docs :
    LET t == task[r][d] IN
      /\ t.pc \in {"lint", "write", "store", "done"} /\ t.text # Failed
      /\ t.stamp # None /\ ~ t.raced
      => OfVersion(t.stamp.mtime, t.text, d)

\* Until somebody else writes, the file holds what the fix wrote.
FixesInPlace ==
  \A r \in Runs, d \in Docs :
    task[r][d].pc \in {"relint", "restat"} /\ ~ task[r][d].foreign
      => disk[d] # None /\ disk[d].content = task[r][d].text

VersionInv ==
  /\ TypeOK /\ TextRead /\ ClockAhead
  /\ EntriesOfVersion(cache) /\ EntriesOfVersion(saved)
  /\ TasksOfVersion /\ FixesInPlace

\* Why the promise is kept: what a task at work may answer with is among what
\* the file held meanwhile.  That is its own text, and any entry that it could
\* still accept: one in the cache, or one that another task is about to store.
Answerable(r, d, mtime, raced, content) ==
  /\ task[r][d].pc = "get" /\ task[r][d].stamp # None
  /\ task[r][d].stamp.mtime = mtime /\ ~ raced
  => content \in task[r][d].held

WindowsOpen ==
  \A r \in Runs, d \in Docs :
    IF Working(r, d) THEN Holds(d) \in task[r][d].held ELSE task[r][d].held = {}

TextsHeld ==
  \A r \in Runs, d \in Docs :
    task[r][d].pc \in {"lint", "write", "relint", "restat", "store"}
      => task[r][d].text \in task[r][d].held

StampsPositive ==
  \A r \in Runs, d \in Docs :
    task[r][d].stamp # None => 0 < task[r][d].stamp.mtime

EntriesAnswerable ==
  \A r \in Runs, d \in Docs :
    cache[d] # None => Answerable(r, d, cache[d].mtime, cache[d].raced, cache[d].result)

StoresAnswerable ==
  \A r \in Runs, s \in Runs, d \in Docs :
    task[s][d].pc \in {"lint", "write", "store"} /\ task[s][d].stamp # None
      => Answerable(r, d, task[s][d].stamp.mtime, task[s][d].raced, task[s][d].text)

HeldInv ==
  /\ WindowsOpen /\ TextsHeld /\ StampsPositive
  /\ EntriesAnswerable /\ StoresAnswerable

\* Why the cache file is exact: outside watch mode runs do not overlap, so the
\* entries belong to the one run there is.  Those of other documents are
\* pruned before its tasks start; one of its own is there as soon as the task
\* has succeeded, with the task's stamp, and gone once it has failed.  Until
\* somebody else writes the file, or the task itself does, its stamp is the
\* file's.
RunsApart ==
  ~ Watch => \A r \in Runs, s \in Runs :
    run[r].phase # "idle" /\ run[s].phase # "idle" => r = s

TasksOfRuns ==
  \A r \in Runs, d \in Docs :
    /\ task[r][d].pc # "none" <=> run[r].phase # "idle" /\ d \in run[r].docs
    /\ run[r].phase = "prune" => task[r][d].pc \in {"none", "queued"}

KeysOfRuns ==
  ~ Watch => \A r \in Runs : \A d \in Docs \ run[r].docs :
    /\ run[r].phase = "prune" /\ cache[d] # None => d \in run[r].stale
    /\ run[r].phase = "tasks" => cache[d] = None

PrunesOthers == \A r \in Runs : run[r].stale \cap run[r].docs = {}

EntriesOfTasks ==
  ~ Watch => \A r \in Runs, d \in Docs :
    task[r][d].pc = "done" =>
      IF task[r][d].text = Failed THEN cache[d] = None
      ELSE /\ cache[d] # None
           /\ task[r][d].stamp # None =>
                /\ cache[d].mtime = task[r][d].stamp.mtime
                /\ cache[d].size = task[r][d].stamp.size

StampsCurrent ==
  \A r \in Runs, d \in Docs :
    /\ task[r][d].pc \notin {"relint", "restat"}
    /\ ~ (task[r][d].pc = "done" /\ task[r][d].text = Failed)
    /\ task[r][d].stamp # None /\ ~ task[r][d].foreign
    => Current(task[r][d].stamp, d)

SoloInv ==
  /\ RunsApart /\ TasksOfRuns /\ KeysOfRuns /\ PrunesOthers
  /\ EntriesOfTasks /\ StampsCurrent

\* A run that has started returns, or ends with its process.
RunTerminates == \A r \in Runs : run[r].phase # "idle" ~> run[r].phase = "idle"
=============================================================================
