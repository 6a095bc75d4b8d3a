------------------------------ MODULE WatchMode ------------------------------
(***************************************************************************)
(* Watch mode: the events of the file watcher, the handlers they start,    *)
(* which overlap because nothing waits for the one before, the reload of   *)
(* the configuration, and the variables of startWatch they share: the      *)
(* current linter with its cache, the watched ignore files, and what is on *)
(* the screen.  A file, and the configuration, is its version number.      *)
(***************************************************************************)
EXTENDS Integers, Sequences

CONSTANTS
  Files,         \* the files the targets cover
  IgnoreFiles,   \* ignore files, other than the two at the root
  AtStart,       \* the ignore files that are there at the start
  Config,        \* the path of the configuration file
  CacheFile,     \* the path of the cache file
  Handlers,      \* slots for event handlers at work
  RunLevel,      \* the configurations that enable a run-level rule
  FixTo,         \* FixTo[v]: what --fix makes of the version v; v without it
  MaxChanges,    \* bound on what the user changes
  None           \* no file

ASSUME MaxChangesAssumption == MaxChanges \in Nat
ASSUME AtStartAssumption == AtStart \subseteq IgnoreFiles
ASSUME FilesAssumption ==
  /\ Files \cap (IgnoreFiles \cup {Config, CacheFile}) = {}
  /\ Config \notin IgnoreFiles /\ CacheFile \notin IgnoreFiles \cup {Config}
ASSUME NoneAssumption == None \notin Nat

Paths == Files \cup IgnoreFiles \cup {Config, CacheFile}
Versions == 0..MaxChanges

ASSUME FixAssumption == FixTo \in [Versions -> Versions]

VARIABLES
  text,       \* text[f]: the version of the file f on disk, or None
  present,    \* the ignore files on disk
  settings,   \* the version of the configuration file
  pending,    \* pending[p]: the event the watcher has still to emit for p
  handler,    \* handler[h]: the locals of one call of handle, handleUnlink
  config,     \* startWatch's variable
  linters,    \* every linter made so far; linterRef.current is the last
  cacheFile,  \* the configurations behind the results in the cache file
  sources,    \* the configurations pluginPaths and configSourcePaths are of
  ignored,    \* ignoreFilePaths
  watching,   \* the ignore files the watcher watches
  cacheWatched, \* whether the cache file lies in a target and is not ignored
  screen,     \* screen[f]: the text and configuration of f's last report
  reported,   \* history: the files whose present text was ever reported
  mishaps,    \* history: "overlap", "failure"
  changes     \* the number of changes so far

disk == <<text, present, settings>>
watched == <<sources, ignored, watching, cacheWatched>>
vars == <<disk, pending, handler, config, linters, cacheFile, watched, screen,
          reported, mishaps, changes>>

Linter == [config: Versions, entries: SUBSET Versions]

\* What a scan reads: the versions of some files.
Readings == UNION {[fs -> Versions] : fs \in SUBSET Files}

\* "paths" are those to lint, "previous" and "found" the ignore files before
\* and after, "read" the texts of the documents found.
Locals == [pc: {"idle", "load", "loaded", "purged", "refresh", "plugins",
                "rules", "scan", "lint", "report"},
           loaded: Versions,
           linter: Nat,
           paths: SUBSET Paths,
           previous: SUBSET IgnoreFiles,
           found: SUBSET IgnoreFiles,
           read: Readings]

Idle == [pc |-> "idle", loaded |-> 0, linter |-> 1, paths |-> {},
         previous |-> {}, found |-> {}, read |-> <<>>]

Quiet == /\ \A p \in Paths : pending[p] = "none"
         /\ \A h \in Handlers : handler[h].pc = "idle"

Existing == {f \in Files : text[f] # None}

Init ==
  /\ text = [f \in Files |-> 0]
  /\ present = AtStart
  /\ settings = 0
  /\ pending = [p \in Paths |-> "none"]
  /\ handler = [h \in Handlers |-> Idle]
  /\ config = 0
  /\ linters = <<[config |-> 0, entries |-> {0}]>>
  /\ cacheFile = {0}
  /\ sources = [plugins |-> 0, config |-> 0]
  /\ ignored = present /\ watching = present
  /\ cacheWatched \in BOOLEAN
  /\ screen = [f \in Files |-> [text |-> 0, config |-> 0]]
  /\ reported = Files
  /\ mishaps = {}
  /\ changes = 0

----------------------------------------------------------------------------
(* The user.                                                               *)

Change ==
  /\ changes < MaxChanges
  /\ changes' = changes + 1
  /\ UNCHANGED <<handler, config, linters, cacheFile, watched, screen, mishaps>>

EditFile(f) ==
  /\ Change
  /\ text' = [text EXCEPT ![f] = changes + 1]
  /\ pending' = [pending EXCEPT ![f] = "change"]
  /\ reported' = reported \ {f}
  /\ UNCHANGED <<present, settings>>

DeleteFile(f) ==
  /\ Change
  /\ text[f] # None
  /\ text' = [text EXCEPT ![f] = None]
  /\ pending' = [pending EXCEPT ![f] = "unlink"]
  /\ UNCHANGED <<present, settings, reported>>

EditConfig ==
  /\ Change
  /\ settings' = settings + 1
  /\ pending' = [pending EXCEPT ![Config] = "change"]
  /\ UNCHANGED <<text, present, reported>>

\* An ignore file comes, goes or is edited; one that is not watched may lie
\* in a target and be noticed all the same.
ChangeIgnore(i) ==
  /\ Change
  /\ \E there \in BOOLEAN :
       /\ present' = IF there THEN present \cup {i} ELSE present \ {i}
       /\ \E event \in {IF there THEN "change" ELSE "unlink"}
                       \cup IF i \in watching THEN {} ELSE {pending[i]} :
            pending' = [pending EXCEPT ![i] = event]
  /\ UNCHANGED <<text, settings, reported>>

----------------------------------------------------------------------------
(* The handlers.                                                           *)

At(h, pc) == handler[h].pc = pc

\* linterRef.current.
Current == linters[Len(linters)]

Update(h, locals) == handler' = [handler EXCEPT ![h] = locals]

\* The start of runAndUpdate: with a run-level rule every target is linted.
RunAndUpdate(h, paths) ==
  Update(h, [Idle EXCEPT
               !.pc = "rules", !.previous = ignored,
               !.paths = IF Current.config \in RunLevel THEN Files ELSE paths])

\* Faulty variant: an event that comes while another is handled is dropped.
DeliverUnlessBusy(h, p) ==
  /\ At(h, "idle") /\ pending[p] # "none"
  /\ pending' = [pending EXCEPT ![p] = "none"]
  /\ LET busy == \E g \in Handlers : ~ At(g, "idle") IN
       /\ mishaps' = IF busy THEN mishaps \cup {"overlap"} ELSE mishaps
       /\ CASE busy -> UNCHANGED handler
            [] ~ busy /\ p \in ignored \cup {Config} ->
                 Update(h, [Idle EXCEPT !.pc = "load"])
            [] OTHER ->
                 RunAndUpdate(h, IF pending[p] = "unlink" THEN Files ELSE {p})
  /\ UNCHANGED <<disk, config, linters, cacheFile, watched, screen, reported,
                 changes>>

\* The watcher emits an event: handle or handleUnlink starts, up to its first
\* await.  That handleUnlink first drops the cache entry is in DocumentCache.
Deliver(h, p) ==
  /\ At(h, "idle") /\ pending[p] # "none"
  /\ pending' = [pending EXCEPT ![p] = "none"]
  /\ mishaps' = IF \E g \in Handlers : ~ At(g, "idle")
                THEN mishaps \cup {"overlap"} ELSE mishaps
  /\ IF p \in ignored \cup {Config}
     THEN Update(h, [Idle EXCEPT !.pc = "load"])
     ELSE RunAndUpdate(h, IF pending[p] = "unlink" THEN Files ELSE {p})
  /\ UNCHANGED <<disk, config, linters, cacheFile, watched, screen, reported,
                 changes>>

\* loadConfig reads the configuration file ...
ReadConfig(h) ==
  /\ At(h, "load")
  /\ Update(h, [handler[h] EXCEPT !.pc = "loaded", !.loaded = settings])
  /\ UNCHANGED <<disk, pending, config, linters, cacheFile, watched, screen,
                 reported, mishaps, changes>>

\* ... and returns; the entries of the current cache are removed.
ConfigLoaded(h) ==
  /\ At(h, "loaded")
  /\ config' = handler[h].loaded
  /\ linters' = [linters EXCEPT ![Len(linters)].entries = {}]
  /\ Update(h, [handler[h] EXCEPT !.pc = "purged"])
  /\ UNCHANGED <<disk, pending, cacheFile, watched, screen, reported, mishaps,
                 changes>>

\* Faulty variant: the new cache loads the file before it is unlinked.
LoadedEntriesEarly == cacheFile

\* What flat-cache loads: the file as it is once it is unlinked.
LoadedEntries == cacheFile'

UnlinkCache ==
  /\ cacheFile' = {}
  /\ pending' = IF cacheWatched /\ cacheFile # {}
                THEN [pending EXCEPT ![CacheFile] = "unlink"] ELSE pending

\* The cache file is unlinked; then the new environment, whose cache loads
\* what is left of it, and the new linter, in the same turn.
BuildLinter(h) ==
  /\ At(h, "purged")
  /\ UnlinkCache
  /\ linters' = Append(linters, [config |-> config, entries |-> LoadedEntries])
  /\ Update(h, [handler[h] EXCEPT !.pc = "refresh"])
  /\ UNCHANGED <<disk, config, watched, screen, reported, mishaps,
                 changes>>

\* refreshIgnore has returned and linterRef.current is asked for its plugins.
AskPlugins(h) ==
  /\ At(h, "refresh")
  /\ Update(h, [handler[h] EXCEPT !.pc = "plugins", !.linter = Len(linters)])
  /\ UNCHANGED <<disk, pending, config, linters, cacheFile, watched, screen,
                 reported, mishaps, changes>>

\* Faulty variant: after a reload nothing is linted.
UpdateSourcesOnly(h) ==
  /\ At(h, "plugins")
  /\ sources' = [plugins |-> linters[handler[h].linter].config,
                 config |-> handler[h].loaded]
  /\ Update(h, Idle)
  /\ UNCHANGED <<disk, pending, config, linters, cacheFile, ignored, watching,
                 cacheWatched, screen, reported, mishaps, changes>>

\* pluginPaths and configSourcePaths are replaced, and the targets linted.
UpdateSources(h) ==
  /\ At(h, "plugins")
  /\ sources' = [plugins |-> linters[handler[h].linter].config,
                 config |-> handler[h].loaded]
  /\ RunAndUpdate(h, Files)
  /\ UNCHANGED <<disk, pending, config, linters, cacheFile, ignored, watching,
                 cacheWatched, screen, reported, mishaps, changes>>

\* hasRunLevelRules has returned: executeLint takes the linter that is current
\* now, and the scan of the disk begins.
StartLint(h) ==
  /\ At(h, "rules")
  /\ Update(h, [handler[h] EXCEPT !.pc = "scan", !.linter = Len(linters)])
  /\ UNCHANGED <<disk, pending, config, linters, cacheFile, watched, screen,
                 reported, mishaps, changes>>

\* Faulty variant: a file that is gone is taken for a document.
FoundUnchecked(paths) == paths

\* The documents among the paths: what exists.
Found(paths) ==
  paths \cap (Existing \cup present \cup IF cacheFile = {} THEN {} ELSE {CacheFile})

\* The scan: the ignore files and the documents on disk are found and read.
Scan(h) ==
  /\ At(h, "scan")
  /\ LET documents == Found(handler[h].paths) IN
       Update(h, [handler[h] EXCEPT
                    !.pc = "lint", !.paths = documents, !.found = present,
                    !.read = [f \in documents \cap Files |-> text[f]]])
  /\ UNCHANGED <<disk, pending, config, linters, cacheFile, watched, screen,
                 reported, mishaps, changes>>

\* Faulty variant: every document is written back, fixed or not.
RewrittenAlways(h) == DOMAIN handler[h].read

\* The documents whose fixes are not empty.
Rewritten(h) == {f \in DOMAIN handler[h].read :
                   FixTo[handler[h].read[f]] # handler[h].read[f]}

\* The fixed texts of fs are written over whatever the files hold by now.  The
\* watcher sees them, and the other files that are written.
WriteFixes(h, fs, others) ==
  /\ text' = [f \in Files |->
                IF f \in fs THEN FixTo[handler[h].read[f]] ELSE text[f]]
  /\ pending' = [p \in Paths |->
                   IF p \in fs \cup others THEN "change" ELSE pending[p]]
  /\ reported' = reported \ fs

\* watcher.add and watcher.unwatch with the difference of the ignore files.
Watching(previous, found) ==
  (watching \cup (found \ previous)) \ (previous \ found)

\* The lint ends: the documents are fixed, and unless there were none the
\* cache is saved.
Lint(h) ==
  LET l == handler[h].linter
      read == handler[h].read
      saves == handler[h].paths # {}
      entries == linters[l].entries \cup {linters[l].config} IN
  /\ At(h, "lint")
  /\ Update(h, [handler[h] EXCEPT
                  !.pc = "report", !.paths = {},
                  !.read = [f \in DOMAIN read |-> FixTo[read[f]]]])
  /\ WriteFixes(h, Rewritten(h),
                IF saves /\ cacheWatched THEN {CacheFile} ELSE {})
  /\ linters' = IF saves THEN [linters EXCEPT ![l].entries = entries] ELSE linters
  /\ cacheFile' = IF saves THEN entries ELSE cacheFile
  /\ UNCHANGED <<present, settings, config, watched, screen, mishaps, changes>>

\* executeLint formats the results and prints them, or writes them to a file.
Show(h) ==
  LET read == handler[h].read IN
  /\ screen' = [f \in Files |-> IF f \in DOMAIN read
                  THEN [text |-> read[f],
                        config |-> linters[handler[h].linter].config]
                  ELSE screen[f]]
  /\ reported' = reported \cup {f \in DOMAIN read : read[f] = text[f]}

\* executeLint returns; the ignore files of its scan are watched from now on.
Report(h) ==
  /\ At(h, "report")
  /\ Show(h)
  /\ watching' = Watching(handler[h].previous, handler[h].found)
  /\ ignored' = handler[h].found
  /\ Update(h, Idle)
  /\ UNCHANGED <<disk, pending, config, linters, cacheFile, sources,
                 cacheWatched, mishaps, changes>>

\* What may still be done by a handler that is about to fail: the cache file is
\* gone when the new environment throws, some documents are fixed when a lint
\* does, and the results are shown when the policy does.
FailsLate(h) ==
  \/ At(h, "purged") /\ UnlinkCache /\ UNCHANGED <<text, screen, reported>>
  \/ /\ At(h, "lint")
     /\ \E fs \in SUBSET Rewritten(h) : WriteFixes(h, fs, {})
     /\ UNCHANGED <<cacheFile, screen>>
  \/ At(h, "report") /\ Show(h) /\ UNCHANGED <<text, pending, cacheFile>>

\* An await of the handler rejects: the message is printed and watching goes on
\* with what was assigned.
Fails(h) ==
  /\ \/ FailsLate(h)
     \/ /\ handler[h].pc \in {"loaded", "refresh", "plugins", "rules", "scan",
                              "report"}
        /\ UNCHANGED <<text, pending, cacheFile, screen, reported>>
  /\ mishaps' = mishaps \cup {"failure"}
  /\ Update(h, Idle)
  /\ UNCHANGED <<present, settings, config, linters, watched, changes>>

User ==
  \/ \E f \in Files : EditFile(f) \/ DeleteFile(f)
  \/ EditConfig
  \/ \E i \in IgnoreFiles : ChangeIgnore(i)

Continue(h) ==
  \/ ReadConfig(h) \/ ConfigLoaded(h) \/ BuildLinter(h) \/ AskPlugins(h)
  \/ UpdateSources(h) \/ StartLint(h) \/ Scan(h) \/ Lint(h)
  \/ Report(h) \/ Fails(h)

Watcher == \E h \in Handlers, p \in Paths : Deliver(h, p)

Next == User \/ Watcher \/ \E h \in Handlers : Continue(h)

Spec == Init /\ [][Next]_vars

\* The event loop runs every handler on, and the watcher emits what it saw.  It
\* does not wait for a handler, nor for the cache file to come to rest: that
\* there may be no slot for an event is a bound of the model, hence the strong
\* fairness.
FairSpec ==
  /\ Spec
  /\ WF_vars(Watcher)
  /\ SF_vars(\E h \in Handlers, p \in Paths \ {CacheFile} : Deliver(h, p))
  /\ \A h \in Handlers : WF_vars(Continue(h))

----------------------------------------------------------------------------

\* Every variable has its type.
TypeOK ==
  /\ text \in [Files -> Versions \cup {None}]
  /\ present \subseteq IgnoreFiles
  /\ settings \in 0..changes
  /\ pending \in [Paths -> {"none", "change", "unlink"}]
  /\ handler \in [Handlers -> Locals]
  /\ \A h \in Handlers : handler[h].linter \in DOMAIN linters
  /\ config \in Versions
  /\ linters \in Seq(Linter) /\ linters # <<>>
  /\ cacheFile \subseteq Versions
  /\ sources \in [plugins: Versions, config: Versions]
  /\ ignored \subseteq IgnoreFiles /\ watching \subseteq IgnoreFiles
  /\ cacheWatched \in BOOLEAN
  /\ screen \in [Files -> [text: Versions, config: Versions]]
  /\ reported \subseteq Files
  /\ mishaps \subseteq {"overlap", "failure"}
  /\ changes \in Versions

\* However runs and reloads overlap and fail, and although the runs of old
\* linters go on saving their results into the one cache file, no linter ever
\* has a result in its cache that another configuration gave.
CacheOfConfig ==
  \A l \in DOMAIN linters : linters[l].entries \subseteq {linters[l].config}

\* No edit is lost: once the watcher is quiet and unless a handler failed, the
\* text of every file has been reported, however events and reloads overlap.
EditsReported ==
  Quiet /\ "failure" \notin mishaps => Existing \subseteq reported

\* If no two handlers overlapped and none failed, a quiet watcher shows every
\* file as it is under the configuration as it is, watches the plugins and
\* sources of that configuration and the ignore files last found, and leaves
\* no other configuration's results in the cache file.
CalmIsCurrent ==
  Quiet /\ mishaps = {} =>
    /\ \A f \in Existing : screen[f] = [text |-> text[f], config |-> settings]
    /\ Current.config = settings
    /\ sources = [plugins |-> settings, config |-> settings]
    /\ watching = ignored
    /\ cacheFile \subseteq {settings}

Reloading(h) ==
  handler[h].pc \in {"load", "loaded", "purged", "refresh", "plugins"}

\* When the user makes no more changes, what they started ends, whatever
\* overlaps and fails: the fixes that runs write themselves start further runs,
\* but not for ever; no reload is left to do, and unless a handler failed every
\* file has been reported as it is.  Where the watcher does not see the cache
\* file nothing goes on at all; where it does, each save of the cache starts a
\* run that saves it again, and this is the only thing that goes on
\* (docs/usage.md 327: lints rerun when files change).
SettlesDown ==
  <>[][~ User]_vars =>
    <>[](/\ \A p \in Paths \ {CacheFile} : pending[p] = "none"
         /\ \A h \in Handlers : ~ Reloading(h)
         /\ "failure" \in mishaps \/ Existing \subseteq reported
         /\ cacheWatched \/ Quiet)

\* Why no edit is lost: the inductive invariant.  What is not yet reported of
\* a file is announced, will be linted after a reload, is about to be linted,
\* or has been read as it is now.
Carries(h, f) ==
  \/ Reloading(h)
  \/ handler[h].pc \in {"rules", "scan"} /\ f \in handler[h].paths
  \/ /\ handler[h].pc \in {"lint", "report"}
     /\ f \in DOMAIN handler[h].read
     /\ handler[h].read[f] = text[f]

OnItsWay(f) == pending[f] # "none" \/ \E h \in Handlers : Carries(h, f)

NoEditLost ==
  "failure" \notin mishaps => \A f \in Existing \ reported : OnItsWay(f)

WatchInv == TypeOK /\ CacheOfConfig /\ NoEditLost

\* Why a calm watcher is current: nothing happened twice at a time, so one
\* handler at most is at work, with what was current when it began.  The
\* screen, the sources and the cache file follow the configuration unless its
\* event is pending or a reload is on its way to them.
OneAtWork ==
  \A g \in Handlers, h \in Handlers : ~ At(g, "idle") /\ ~ At(h, "idle") => g = h

LintersCurrent ==
  \A h \in Handlers :
    handler[h].pc \in {"plugins", "scan", "lint", "report"}
      => handler[h].linter = Len(linters)

WatchesIgnored ==
  /\ watching = ignored
  /\ \A h \in Handlers :
       handler[h].pc \in {"rules", "scan", "lint", "report"}
         => handler[h].previous = ignored

Settled ==
  /\ Current.config = settings
  /\ sources = [plugins |-> settings, config |-> settings]
  /\ cacheFile \subseteq {settings}

SettlesConfig ==
  pending[Config] = "none" =>
    /\ (\A h \in Handlers : ~ Reloading(h)) => Settled
    /\ \A h \in Handlers :
         /\ handler[h].pc \in {"loaded", "purged", "refresh", "plugins"}
              => handler[h].loaded = settings
         /\ handler[h].pc = "purged" => config = settings
         /\ handler[h].pc \in {"refresh", "plugins"}
              => Current.config = settings /\ cacheFile = {}

ReadsCurrent ==
  \A h \in Handlers :
    handler[h].pc \in {"lint", "report"} =>
      \A f \in Existing \cap DOMAIN handler[h].read :
        handler[h].read[f] = text[f] \/ pending[f] # "none"

ScreenCurrent ==
  \A f \in Existing :
    \/ screen[f] = [text |-> text[f], config |-> settings]
    \/ OnItsWay(f)
    \/ pending[Config] # "none"

CalmInv ==
  mishaps = {} =>
    /\ OneAtWork /\ LintersCurrent /\ WatchesIgnored /\ SettlesConfig
    /\ ReadsCurrent /\ ScreenCurrent
=============================================================================
