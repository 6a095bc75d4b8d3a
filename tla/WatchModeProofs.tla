-------------------------- MODULE WatchModeProofs --------------------------
(***************************************************************************)
(* Proofs about WatchMode for any files, ignore files and handlers, and    *)
(* any number of changes, whether or not the cache file is watched.        *)
(***************************************************************************)
EXTENDS WatchMode, SequenceTheorems, TLAPS

USE MaxChangesAssumption, NoneAssumption, AtStartAssumption, FixAssumption

----------------------------------------------------------------------------
(* Types, and the results in the caches.                                   *)

\* What a scan reads of files that exist are versions.
LEMMA ReadingType ==
  ASSUME TypeOK, NEW fs \in SUBSET Existing
  PROVE  [f \in fs |-> text[f]] \in Readings
<1>1. fs \in SUBSET Files /\ \A f \in fs : text[f] \in Versions
  BY DEF TypeOK, Existing
<1>2. [f \in fs |-> text[f]] \in [fs -> Versions]
  BY <1>1
<1>3. QED
  BY <1>1, <1>2 DEF Readings

\* The fixes that a handler writes keep the types and are announced; of the
\* other files, and of the configuration, nothing changes.
LEMMA FixesWritten ==
  ASSUME TypeOK, NEW h \in Handlers, NEW fs \in SUBSET Rewritten(h),
         NEW others \in SUBSET {CacheFile}, WriteFixes(h, fs, others)
  PROVE  /\ fs \subseteq Files
         /\ text' \in [Files -> Versions \cup {None}]
         /\ pending' \in [Paths -> {"none", "change", "unlink"}]
         /\ reported' \subseteq Files
         /\ \A f \in fs : /\ text'[f] = FixTo[handler[h].read[f]]
                          /\ text'[f] # None /\ pending'[f] = "change"
         /\ \A f \in Files \ fs :
              /\ text'[f] = text[f] /\ (f \in reported' <=> f \in reported)
              /\ pending'[f] = pending[f]
         /\ pending'[Config] = pending[Config]
<1>1. handler[h].read \in Readings
  BY DEF TypeOK, Locals
<1>2. PICK domain \in SUBSET Files : handler[h].read \in [domain -> Versions]
  BY <1>1 DEF Readings
<1>3. /\ fs \subseteq Files
      /\ \A f \in fs : FixTo[handler[h].read[f]] \in Versions
  BY <1>2 DEF Rewritten
<1>4. text' \in [Files -> Versions \cup {None}]
  BY <1>3 DEF WriteFixes, TypeOK
<1>5. pending' \in [Paths -> {"none", "change", "unlink"}]
  BY DEF WriteFixes, TypeOK
<1>6. \A f \in fs : FixTo[handler[h].read[f]] # None
  BY <1>3 DEF Versions
<1>7. /\ \A f \in Files : f # CacheFile /\ f # Config /\ f \in Paths
      /\ Config # CacheFile /\ Config \in Paths
  BY FilesAssumption DEF Paths
<1>8. QED
  BY <1>3, <1>4, <1>5, <1>6, <1>7 DEF WriteFixes, TypeOK

\* The results of a run that fixed its documents describe the fixed texts.
LEMMA FixedReadings ==
  ASSUME NEW read \in Readings
  PROVE  [f \in DOMAIN read |-> FixTo[read[f]]] \in Readings
<1>1. PICK domain \in SUBSET Files : read \in [domain -> Versions]
  BY DEF Readings
<1>2. [f \in DOMAIN read |-> FixTo[read[f]]] \in [domain -> Versions]
  BY <1>1
<1>3. QED
  BY <1>2 DEF Readings

\* A lint fixes every document whose fixes are not empty.
LEMMA LintFixes ==
  ASSUME NEW h \in Handlers, Lint(h)
  PROVE  \E others \in SUBSET {CacheFile} : WriteFixes(h, Rewritten(h), others)
BY DEF Lint

\* What becomes of a file that a lint fixes, and of one that it does not.
LEMMA FileAfterLint ==
  ASSUME TypeOK, NEW h \in Handlers, Lint(h), NEW f \in Files
  PROVE  /\ f \in Rewritten(h) => pending'[f] # "none"
         /\ f \notin Rewritten(h) =>
              /\ text'[f] = text[f] /\ (f \in reported' <=> f \in reported)
              /\ pending'[f] = pending[f]
         /\ pending'[Config] = pending[Config]
<1>1. PICK others \in SUBSET {CacheFile} : WriteFixes(h, Rewritten(h), others)
  BY LintFixes
<1>2. Rewritten(h) \in SUBSET Rewritten(h)
  OBVIOUS
<1>3. QED
  BY <1>1, <1>2, FixesWritten

\* A handler that fails may have fixed some documents, unlinked the cache file
\* or shown its results.
LEMMA FailsKeepTypes ==
  ASSUME TypeOK, NEW h \in Handlers, Fails(h)
  PROVE  /\ text' \in [Files -> Versions \cup {None}]
         /\ pending' \in [Paths -> {"none", "change", "unlink"}]
         /\ cacheFile' \subseteq Versions
         /\ reported' \subseteq Files \/ Show(h)
         /\ screen' = screen \/ Show(h)
<1>1. CASE At(h, "purged") /\ UnlinkCache /\ UNCHANGED <<text, screen, reported>>
  BY <1>1 DEF UnlinkCache, TypeOK, Paths
<1>2. CASE /\ \E fs \in SUBSET Rewritten(h) : WriteFixes(h, fs, {})
           /\ UNCHANGED <<cacheFile, screen>>
  <2>1. PICK fs \in SUBSET Rewritten(h) : WriteFixes(h, fs, {})
    BY <1>2
  <2>2. QED
    BY <1>2, <2>1, FixesWritten DEF TypeOK
<1>3. CASE Show(h) /\ UNCHANGED <<text, pending, cacheFile>>
  BY <1>3 DEF TypeOK
<1>4. CASE UNCHANGED <<text, pending, cacheFile, screen, reported>>
  BY <1>4 DEF TypeOK
<1>5. QED
  BY <1>1, <1>2, <1>3, <1>4 DEF Fails, FailsLate

\* A handler without work has the type of the locals.
LEMMA IdleType == Idle \in Locals
<1>1. <<>> \in [{} -> Versions]
  OBVIOUS
<1>2. <<>> \in Readings
  BY <1>1 DEF Readings
<1>3. 0 \in Versions /\ 1 \in Nat
  BY DEF Versions
<1>4. QED
  BY <1>2, <1>3 DEF Idle, Locals

\* Linters are only added and their caches only change: each keeps its place.
LEMMA EntriesType ==
  ASSUME TypeOK, NEW l \in DOMAIN linters, NEW entries \in SUBSET Versions
  PROVE  LET after == [linters EXCEPT ![l].entries = entries] IN
           /\ after \in Seq(Linter) /\ after # <<>>
           /\ DOMAIN after = DOMAIN linters
           /\ \A k \in DOMAIN linters :
                after[k] = IF k = l THEN [linters[l] EXCEPT !.entries = entries]
                                    ELSE linters[k]
<1>1. /\ linters \in Seq(Linter) /\ linters # <<>>
      /\ l \in 1..Len(linters) /\ DOMAIN linters = 1..Len(linters)
      /\ Len(linters) \in Nat
  BY LenProperties DEF TypeOK
<1>2. linters[l] \in Linter
  BY <1>1, ElementOfSeq
<1> DEFINE new == [linters[l] EXCEPT !.entries = entries]
           after == [linters EXCEPT ![l] = new]
<1>3. new \in Linter
  BY <1>2 DEF Linter
<1> HIDE DEF new
<1>4. /\ after \in Seq(Linter) /\ Len(after) = Len(linters)
      /\ \A k \in 1..Len(linters) :
           after[k] = IF k = l THEN new ELSE linters[k]
  BY <1>1, <1>3, ExceptSeq
<1>5. DOMAIN after = DOMAIN linters /\ after # <<>>
  BY <1>1, <1>4, LenProperties, EmptySeq
<1>6. QED
  BY <1>1, <1>4, <1>5 DEF new

\* A handler's locals change in the type.
LEMMA UpdateType ==
  ASSUME TypeOK, NEW h \in Handlers, NEW locals \in Locals, Update(h, locals)
  PROVE  /\ handler' \in [Handlers -> Locals]
         /\ handler'[h] = locals
         /\ \A g \in Handlers : g # h => handler'[g] = handler[g]
BY DEF TypeOK, Update

\* There is a first linter and a current one.
LEMMA SomeLinter ==
  ASSUME TypeOK
  PROVE  /\ Len(linters) \in Nat
         /\ DOMAIN linters = 1..Len(linters)
         /\ 1 \in DOMAIN linters /\ Len(linters) \in DOMAIN linters
         /\ \A l \in DOMAIN linters : linters[l] \in Linter
<1>1. linters \in Seq(Linter) /\ linters # <<>>
  BY DEF TypeOK
<1>2. Len(linters) \in Nat /\ DOMAIN linters = 1..Len(linters) /\ Len(linters) # 0
  BY <1>1, LenProperties, EmptySeq
<1>3. QED
  BY <1>1, <1>2, ElementOfSeq

\* A step that gives h other locals and takes no linter away keeps the types
\* that have to do with handlers and linters.
LEMMA HandlersType ==
  ASSUME TypeOK, NEW h \in Handlers, NEW locals \in Locals, Update(h, locals),
         linters' \in Seq(Linter), linters' # <<>>,
         DOMAIN linters \subseteq DOMAIN linters',
         locals.linter \in DOMAIN linters'
  PROVE  /\ handler' \in [Handlers -> Locals]
         /\ \A g \in Handlers : handler'[g].linter \in DOMAIN linters'
         /\ linters' \in Seq(Linter) /\ linters' # <<>>
<1>1. \A g \in Handlers : handler[g].linter \in DOMAIN linters
  BY DEF TypeOK
<1>2. QED
  BY <1>1, UpdateType

\* The locals at the start of runAndUpdate.
LEMMA RunAndUpdateType ==
  ASSUME TypeOK, NEW h \in Handlers, NEW paths \in SUBSET Paths,
         RunAndUpdate(h, paths)
  PROVE  \E locals \in Locals :
           /\ Update(h, locals)
           /\ locals.linter = 1 /\ locals.pc = "rules" /\ locals.previous = ignored
           /\ paths \subseteq locals.paths \/ Files \subseteq locals.paths
<1> DEFINE all == IF Current.config \in RunLevel THEN Files ELSE paths
           locals == [Idle EXCEPT !.pc = "rules", !.previous = ignored,
                                  !.paths = all]
<1>1. all \in SUBSET Paths /\ ignored \in SUBSET IgnoreFiles
  BY DEF Paths, TypeOK
<1>2. paths \subseteq all \/ Files \subseteq all
  OBVIOUS
<1>3. Update(h, locals)
  BY DEF RunAndUpdate
<1> HIDE DEF all
<1>4. locals \in Locals
  BY <1>1, IdleType DEF Locals
<1>5. /\ locals.linter = 1 /\ locals.pc = "rules" /\ locals.previous = ignored
      /\ locals.paths = all
  BY DEF Idle
<1>6. QED
  BY <1>2, <1>3, <1>4, <1>5

\* What the user does keeps the types.
LEMMA UserTypeOK ==
  ASSUME TypeOK, User
  PROVE  TypeOK'
<1> changes \in Nat /\ settings \in 0..changes
  BY DEF TypeOK, Versions
<1>1. ASSUME Change
      PROVE  changes + 1 \in Versions /\ changes' \in Versions /\ changes' = changes + 1
  BY <1>1 DEF Change, Versions, TypeOK
<1>2. ASSUME NEW f \in Files, EditFile(f) \/ DeleteFile(f)
      PROVE  TypeOK'
  <2>1. f \in Paths /\ Change
    BY <1>2 DEF Paths, EditFile, DeleteFile
  <2>2. text' \in [Files -> Versions \cup {None}]
    BY <1>1, <1>2, <2>1 DEF TypeOK, EditFile, DeleteFile
  <2>3. pending' \in [Paths -> {"none", "change", "unlink"}]
    BY <1>2, <2>1 DEF TypeOK, EditFile, DeleteFile
  <2>4. settings' \in 0..changes'
    BY <1>1, <1>2, <2>1 DEF EditFile, DeleteFile
  <2>5. QED
    BY <1>1, <1>2, <2>1, <2>2, <2>3, <2>4
       DEF TypeOK, EditFile, DeleteFile, Change, watched
<1>3. ASSUME EditConfig
      PROVE  TypeOK'
  <2>1. Config \in Paths /\ Change
    BY <1>3 DEF Paths, EditConfig
  <2>2. settings' \in 0..changes'
    BY <1>1, <1>3, <2>1 DEF EditConfig
  <2>3. QED
    BY <1>1, <1>3, <2>1, <2>2 DEF TypeOK, EditConfig, Change, watched
<1>4. ASSUME NEW i \in IgnoreFiles, ChangeIgnore(i)
      PROVE  TypeOK'
  <2>1. i \in Paths /\ Change
    BY <1>4 DEF Paths, ChangeIgnore
  <2>2. present' \in SUBSET IgnoreFiles
    BY <1>4 DEF TypeOK, ChangeIgnore
  <2>3. pending' \in [Paths -> {"none", "change", "unlink"}]
    BY <1>4, <2>1 DEF TypeOK, ChangeIgnore
  <2>4. settings' \in 0..changes'
    BY <1>1, <1>4, <2>1 DEF ChangeIgnore
  <2>5. QED
    BY <1>1, <1>4, <2>1, <2>2, <2>3, <2>4 DEF TypeOK, ChangeIgnore, Change, watched
<1>5. QED
  BY <1>2, <1>3, <1>4 DEF User

\* An event that is delivered keeps the types.
LEMMA DeliverTypeOK ==
  ASSUME TypeOK, NEW h \in Handlers, NEW p \in Paths, Deliver(h, p)
  PROVE  TypeOK'
<1>1. \E locals \in Locals : Update(h, locals) /\ locals.linter = 1
  <2>1. CASE p \in ignored \cup {Config}
    <3>1. Update(h, [Idle EXCEPT !.pc = "load"])
      BY <2>1 DEF Deliver
    <3>2. [Idle EXCEPT !.pc = "load"] \in Locals
      BY IdleType DEF Locals
    <3>3. QED
      BY <3>1, <3>2 DEF Idle
  <2>2. CASE p \notin ignored \cup {Config}
    <3>1. PICK paths \in SUBSET Paths : RunAndUpdate(h, paths)
      BY <2>2 DEF Deliver, Paths
    <3>2. QED
      BY <3>1, RunAndUpdateType
  <2>3. QED
    BY <2>1, <2>2
<1>2. /\ linters' \in Seq(Linter) /\ linters' # <<>>
      /\ DOMAIN linters' = DOMAIN linters
  BY DEF Deliver, TypeOK
<1>3. /\ handler' \in [Handlers -> Locals]
      /\ \A g \in Handlers : handler'[g].linter \in DOMAIN linters'
  BY <1>1, <1>2, SomeLinter, HandlersType
<1>4. pending' \in [Paths -> {"none", "change", "unlink"}]
  BY DEF Deliver, TypeOK
<1>5. mishaps' \subseteq {"overlap", "failure"}
  BY DEF Deliver, TypeOK
<1>6. QED
  BY <1>2, <1>3, <1>4, <1>5 DEF Deliver, TypeOK, disk, watched

\* A step of a handler keeps the types.
LEMMA ContinueTypeOK ==
  ASSUME TypeOK, NEW h \in Handlers, Continue(h)
  PROVE  TypeOK'
<1> handler[h] \in Locals /\ handler[h].linter \in DOMAIN linters
  BY DEF TypeOK
<1>1. CASE ReadConfig(h)
  <2> DEFINE locals == [handler[h] EXCEPT !.pc = "loaded", !.loaded = settings]
  <2>1. settings \in Versions
    BY DEF TypeOK, Versions
  <2>2. locals \in Locals /\ locals.linter \in DOMAIN linters
    BY <2>1 DEF Locals
  <2>3. Update(h, locals) /\ UNCHANGED linters
    BY <1>1 DEF ReadConfig
  <2>4. QED
    BY <1>1, <2>2, <2>3, HandlersType DEF ReadConfig, TypeOK, disk, watched
<1>2. CASE ConfigLoaded(h)
  <2> DEFINE locals == [handler[h] EXCEPT !.pc = "purged"]
  <2>1. locals \in Locals /\ locals.linter \in DOMAIN linters
    BY DEF Locals
  <2>2. handler[h].loaded \in Versions
    BY DEF Locals
  <2>3. /\ linters' \in Seq(Linter) /\ linters' # <<>>
        /\ DOMAIN linters' = DOMAIN linters
    BY <1>2, SomeLinter, EntriesType DEF ConfigLoaded
  <2>4. Update(h, locals)
    BY <1>2 DEF ConfigLoaded
  <2>5. QED
    BY <1>2, <2>1, <2>2, <2>3, <2>4, HandlersType
       DEF ConfigLoaded, TypeOK, disk, watched
<1>3. CASE BuildLinter(h)
  <2> DEFINE locals == [handler[h] EXCEPT !.pc = "refresh"]
             new == [config |-> config, entries |-> {}]
  <2>1. locals \in Locals /\ locals.linter \in DOMAIN linters
    BY DEF Locals
  <2>2. new \in Linter
    BY DEF Linter, TypeOK
  <2>3. linters' = Append(linters, new) /\ cacheFile' = {} /\ Update(h, locals)
    BY <1>3 DEF BuildLinter, UnlinkCache, LoadedEntries
  <2> HIDE DEF new, locals
  <2>4. /\ linters' \in Seq(Linter) /\ linters' # <<>>
        /\ DOMAIN linters \subseteq DOMAIN linters'
    <3>1. linters \in Seq(Linter)
      BY DEF TypeOK
    <3>2. /\ linters' \in Seq(Linter) /\ linters' # <<>>
          /\ Len(linters') = Len(linters) + 1
      BY <2>2, <2>3, <3>1, AppendProperties
    <3>3. DOMAIN linters' = 1..Len(linters')
      BY <3>2, LenProperties
    <3>4. QED
      BY <3>2, <3>3, SomeLinter
  <2>5. /\ handler' \in [Handlers -> Locals]
        /\ \A g \in Handlers : handler'[g].linter \in DOMAIN linters'
    BY <2>1, <2>3, <2>4, HandlersType
  <2>6. pending' \in [Paths -> {"none", "change", "unlink"}]
    BY <1>3 DEF BuildLinter, UnlinkCache, TypeOK, Paths
  <2>7. QED
    BY <1>3, <2>3, <2>4, <2>5, <2>6 DEF BuildLinter, TypeOK, disk, watched
<1>4. CASE AskPlugins(h)
  <2> DEFINE locals == [handler[h] EXCEPT !.pc = "plugins", !.linter = Len(linters)]
  <2>1. locals \in Locals /\ locals.linter \in DOMAIN linters
    BY SomeLinter DEF Locals
  <2>2. Update(h, locals) /\ UNCHANGED linters
    BY <1>4 DEF AskPlugins
  <2>3. QED
    BY <1>4, <2>1, <2>2, HandlersType DEF AskPlugins, TypeOK, disk, watched
<1>5. CASE UpdateSources(h)
  <2>1. Files \in SUBSET Paths
    BY DEF Paths
  <2>2. PICK locals \in Locals : Update(h, locals) /\ locals.linter = 1
    BY <1>5, <2>1, RunAndUpdateType DEF UpdateSources
  <2>3. UNCHANGED linters
    BY <1>5 DEF UpdateSources
  <2>4. sources' \in [plugins: Versions, config: Versions]
    BY <1>5, SomeLinter DEF UpdateSources, Linter, Locals
  <2>5. QED
    BY <1>5, <2>2, <2>3, <2>4, SomeLinter, HandlersType
       DEF UpdateSources, TypeOK, disk
<1>6. CASE StartLint(h)
  <2> DEFINE locals == [handler[h] EXCEPT !.pc = "scan", !.linter = Len(linters)]
  <2>1. locals \in Locals /\ locals.linter \in DOMAIN linters
    BY SomeLinter DEF Locals
  <2>2. Update(h, locals) /\ UNCHANGED linters
    BY <1>6 DEF StartLint
  <2>3. QED
    BY <1>6, <2>1, <2>2, HandlersType DEF StartLint, TypeOK, disk, watched
<1>7. CASE Scan(h)
  <2> DEFINE documents == Found(handler[h].paths)
             read == [f \in documents \cap Files |-> text[f]]
             locals == [handler[h] EXCEPT !.pc = "lint", !.paths = documents,
                                          !.found = present, !.read = read]
  <2>1. documents \in SUBSET Paths
    BY DEF Found, Locals
  <2>2. documents \cap Files \in SUBSET Existing
    BY FilesAssumption DEF Found, TypeOK
  <2>3. Update(h, locals) /\ UNCHANGED linters
    BY <1>7 DEF Scan
  <2> HIDE DEF documents
  <2>4. read \in Readings
    BY <2>2, ReadingType
  <2> HIDE DEF read
  <2>5. locals \in Locals /\ locals.linter \in DOMAIN linters
    BY <2>1, <2>4 DEF Locals, TypeOK
  <2>6. QED
    BY <1>7, <2>3, <2>5, HandlersType DEF Scan, TypeOK, disk, watched
<1>8. CASE Lint(h)
  <2> DEFINE fixed == [f \in DOMAIN handler[h].read |-> FixTo[handler[h].read[f]]]
             locals == [handler[h] EXCEPT !.pc = "report", !.paths = {},
                                          !.read = fixed]
             l == handler[h].linter
             entries == linters[l].entries \cup {linters[l].config}
  <2>0. fixed \in Readings
    BY FixedReadings DEF Locals
  <2>2. Update(h, locals)
    BY <1>8 DEF Lint
  <2> HIDE DEF fixed
  <2>1. locals \in Locals /\ locals.linter \in DOMAIN linters
    BY <2>0 DEF Locals
  <2>3. entries \in SUBSET Versions
    BY SomeLinter DEF Linter
  <2>4. /\ linters' \in Seq(Linter) /\ linters' # <<>>
        /\ DOMAIN linters' = DOMAIN linters
        /\ cacheFile' \subseteq Versions
    <3>1. CASE handler[h].paths = {}
      BY <1>8, <3>1 DEF Lint, TypeOK
    <3>2. CASE handler[h].paths # {}
      <4>1. /\ linters' = [linters EXCEPT ![l].entries = entries]
            /\ cacheFile' = entries
        BY <1>8, <3>2 DEF Lint
      <4> HIDE DEF entries
      <4>2. QED
        BY <2>3, <4>1, EntriesType
    <3>3. QED
      BY <3>1, <3>2
  <2>5. /\ text' \in [Files -> Versions \cup {None}] /\ reported' \subseteq Files
        /\ pending' \in [Paths -> {"none", "change", "unlink"}]
    <3>1. PICK others \in SUBSET {CacheFile} : WriteFixes(h, Rewritten(h), others)
      BY <1>8, LintFixes
    <3>2. Rewritten(h) \in SUBSET Rewritten(h)
      OBVIOUS
    <3>3. QED
      BY <3>1, <3>2, FixesWritten
  <2>6. /\ handler' \in [Handlers -> Locals]
        /\ \A g \in Handlers : handler'[g].linter \in DOMAIN linters'
    BY <2>1, <2>2, <2>4, HandlersType
  <2>7. QED
    BY <1>8, <2>4, <2>5, <2>6 DEF Lint, TypeOK, disk, watched
<1>9. ASSUME Show(h)
      PROVE  /\ screen' \in [Files -> [text: Versions, config: Versions]]
             /\ reported' \subseteq Files
  <2>1. PICK fs \in SUBSET Files : handler[h].read \in [fs -> Versions]
    BY DEF Locals, Readings
  <2>2. linters[handler[h].linter].config \in Versions
    BY SomeLinter DEF Linter
  <2>3. QED
    BY <1>9, <2>1, <2>2 DEF Show, TypeOK
<1>10. CASE Report(h) \/ Fails(h)
  <2>1. Update(h, Idle) /\ UNCHANGED linters
    BY <1>10 DEF Report, Fails
  <2>2. /\ handler' \in [Handlers -> Locals]
        /\ \A g \in Handlers : handler'[g].linter \in DOMAIN linters'
    BY <2>1, SomeLinter, IdleType, HandlersType DEF Idle, TypeOK
  <2>3. /\ screen' \in [Files -> [text: Versions, config: Versions]]
        /\ reported' \subseteq Files
    BY <1>9, <1>10, FailsKeepTypes DEF Report, TypeOK
  <2>4. ignored' \subseteq IgnoreFiles /\ watching' \subseteq IgnoreFiles
    BY <1>10 DEF Report, Fails, Watching, watched, TypeOK, Locals
  <2>5. mishaps' \subseteq {"overlap", "failure"}
    BY <1>10 DEF Report, Fails, TypeOK
  <2>6. /\ text' \in [Files -> Versions \cup {None}]
        /\ pending' \in [Paths -> {"none", "change", "unlink"}]
        /\ cacheFile' \subseteq Versions
    BY <1>10, FailsKeepTypes DEF Report, TypeOK, disk
  <2>7. /\ UNCHANGED <<present, settings, config, sources, cacheWatched, changes>>
    BY <1>10 DEF Report, Fails, disk, watched
  <2>8. QED
    BY <2>1, <2>2, <2>3, <2>4, <2>5, <2>6, <2>7 DEF TypeOK
<1>11. QED
  BY <1>1, <1>2, <1>3, <1>4, <1>5, <1>6, <1>7, <1>8, <1>10 DEF Continue

\* Every step keeps the types.
LEMMA NextTypeOK == TypeOK /\ [Next]_vars => TypeOK'
<1>1. CASE UNCHANGED vars
  BY <1>1 DEF TypeOK, vars, disk, watched
<1>2. QED
  BY <1>1, UserTypeOK, DeliverTypeOK, ContinueTypeOK DEF Next, Watcher

\* The first state has the types.
LEMMA InitTypeOK == Init => TypeOK
<1> SUFFICES ASSUME Init PROVE TypeOK
  OBVIOUS
<1>1. 0 \in Versions
  BY DEF Versions
<1>2. linters \in Seq(Linter) /\ linters # <<>> /\ 1 \in DOMAIN linters
  BY <1>1 DEF Init, Linter
<1>3. QED
  BY <1>1, <1>2, IdleType DEF Init, TypeOK, Idle

\* TypeOK: every variable of watch mode keeps its type.
THEOREM TypeTheorem == Spec => []TypeOK
BY InitTypeOK, NextTypeOK, PTL DEF Spec

\* The results in a linter's cache stay those of its own configuration.
LEMMA NextCacheOfConfig ==
  ASSUME TypeOK, CacheOfConfig, [Next]_vars
  PROVE  CacheOfConfig'
<1>1. ASSUME UNCHANGED linters
      PROVE  CacheOfConfig'
  BY <1>1 DEF CacheOfConfig
<1>2. ASSUME NEW h \in Handlers, ConfigLoaded(h)
      PROVE  CacheOfConfig'
  <2>1. linters' = [linters EXCEPT ![Len(linters)].entries = {}]
    BY <1>2 DEF ConfigLoaded
  <2>2. \A k \in DOMAIN linters :
          linters'[k] = IF k = Len(linters)
                        THEN [linters[k] EXCEPT !.entries = {}] ELSE linters[k]
    BY <2>1, SomeLinter, EntriesType
  <2>3. DOMAIN linters' = DOMAIN linters
    BY <2>1
  <2>4. QED
    BY <2>2, <2>3, SomeLinter DEF CacheOfConfig, Linter
<1>3. ASSUME NEW h \in Handlers, BuildLinter(h)
      PROVE  CacheOfConfig'
  <2> DEFINE new == [config |-> config, entries |-> {}]
  <2>1. linters' = Append(linters, new)
    BY <1>3 DEF BuildLinter, UnlinkCache, LoadedEntries
  <2>2. new \in Linter /\ new.entries = {}
    BY DEF Linter, TypeOK
  <2> HIDE DEF new
  <2>3. /\ linters' \in Seq(Linter) /\ Len(linters') = Len(linters) + 1
        /\ \A k \in 1..Len(linters) : linters'[k] = linters[k]
        /\ linters'[Len(linters) + 1] = new
    BY <2>1, <2>2, AppendProperties DEF TypeOK
  <2>4. DOMAIN linters' = 1..(Len(linters) + 1)
    BY <2>3, LenProperties
  <2>5. \A k \in 1..(Len(linters) + 1) :
          k \in 1..Len(linters) \/ k = Len(linters) + 1
    BY SomeLinter
  <2>6. QED
    BY <2>2, <2>3, <2>4, <2>5, SomeLinter DEF CacheOfConfig
<1>4. ASSUME NEW h \in Handlers, Lint(h)
      PROVE  CacheOfConfig'
  <2> DEFINE l == handler[h].linter
             entries == linters[l].entries \cup {linters[l].config}
  <2>1. CASE handler[h].paths = {}
    BY <1>1, <1>4, <2>1 DEF Lint
  <2>2. CASE handler[h].paths # {}
    <3>1. l \in DOMAIN linters
      BY DEF TypeOK
    <3>2. entries \subseteq {linters[l].config} /\ entries \in SUBSET Versions
      BY <3>1, SomeLinter DEF CacheOfConfig, Linter
    <3>3. linters' = [linters EXCEPT ![l].entries = entries]
      BY <1>4, <2>2 DEF Lint
    <3> HIDE DEF entries, l
    <3>4. /\ DOMAIN linters' = DOMAIN linters
          /\ \A k \in DOMAIN linters :
               linters'[k] = IF k = l THEN [linters[l] EXCEPT !.entries = entries]
                                      ELSE linters[k]
      BY <3>1, <3>2, <3>3, EntriesType
    <3>5. QED
      BY <3>1, <3>2, <3>4, SomeLinter DEF CacheOfConfig, Linter
  <2>3. QED
    BY <2>1, <2>2
<1>5. QED
  BY <1>1, <1>2, <1>3, <1>4
     DEF Next, User, EditFile, DeleteFile, EditConfig, ChangeIgnore, Change,
         Watcher, Deliver, Continue, ReadConfig, AskPlugins, UpdateSources,
         StartLint, Scan, Report, Fails, vars

\* CacheOfConfig: no linter ever holds a result of another configuration.
THEOREM CacheOfConfigTheorem == Spec => []CacheOfConfig
<1>1. Init => CacheOfConfig
  BY DEF Init, CacheOfConfig
<1>2. TypeOK /\ CacheOfConfig /\ [Next]_vars => CacheOfConfig'
  BY NextCacheOfConfig
<1>3. QED
  BY <1>1, <1>2, TypeTheorem, PTL DEF Spec

----------------------------------------------------------------------------
(* No edit is lost.                                                        *)

\* An edit stays on its way in a step of one handler that passes on what it
\* carries.
LEMMA StaysOnItsWay ==
  ASSUME NEW f \in Files, OnItsWay(f),
         pending[f] # "none" => OnItsWay(f)', text'[f] = text[f],
         NEW h \in Handlers, Carries(h, f) => Carries(h, f)',
         \A g \in Handlers : g # h => handler'[g] = handler[g]
  PROVE  OnItsWay(f)'
<1>1. ASSUME NEW g \in Handlers, g # h, Carries(g, f)
      PROVE  Carries(g, f)'
  BY <1>1 DEF Carries, Reloading
<1>2. QED
  BY <1>1 DEF OnItsWay

\* What the user changes is announced, and nothing else is lost by it.
LEMMA UserLosesNoEdit ==
  ASSUME TypeOK, NoEditLost, User
  PROVE  NoEditLost'
<1> SUFFICES ASSUME "failure" \notin mishaps', NEW f \in Files,
                    f \in Existing' \ reported'
             PROVE  OnItsWay(f)'
  BY DEF NoEditLost, Existing
<1>1. UNCHANGED <<mishaps, handler>>
  BY DEF User, EditFile, DeleteFile, EditConfig, ChangeIgnore, Change
<1>2. f \in Paths
  BY DEF Paths
<1>3. pending[f] # "none" => pending'[f] # "none"
  BY <1>2 DEF User, EditFile, DeleteFile, EditConfig, ChangeIgnore, TypeOK
<1>4. ASSUME EditFile(f)
      PROVE  OnItsWay(f)'
  BY <1>2, <1>4 DEF EditFile, OnItsWay, TypeOK
<1>5. ASSUME ~ EditFile(f)
      PROVE  text'[f] = text[f] /\ f \notin reported
  <2>1. f \notin reported' /\ text'[f] # None
    BY DEF Existing
  <2>2. ASSUME NEW g \in Files, EditFile(g) \/ DeleteFile(g)
        PROVE  text'[f] = text[f] /\ f \notin reported
    BY <1>5, <2>1, <2>2 DEF EditFile, DeleteFile, TypeOK
  <2>3. ASSUME EditConfig \/ \E i \in IgnoreFiles : ChangeIgnore(i)
        PROVE  text'[f] = text[f] /\ f \notin reported
    BY <2>1, <2>3 DEF EditConfig, ChangeIgnore
  <2>4. QED
    BY <2>2, <2>3 DEF User
<1>6. ASSUME ~ EditFile(f)
      PROVE  OnItsWay(f)'
  <2>1. f \in Existing \ reported
    BY <1>5, <1>6 DEF Existing
  <2>2. OnItsWay(f)
    BY <1>1, <2>1 DEF NoEditLost
  <2>3. QED
    BY <1>1, <1>3, <1>5, <1>6, <2>2 DEF OnItsWay, Carries, Reloading
<1>7. QED
  BY <1>4, <1>6

\* The handler that an event starts carries it.
LEMMA DeliverLosesNoEdit ==
  ASSUME TypeOK, NoEditLost, NEW h \in Handlers, NEW p \in Paths, Deliver(h, p)
  PROVE  NoEditLost'
<1> SUFFICES ASSUME "failure" \notin mishaps', NEW f \in Files,
                    f \in Existing' \ reported'
             PROVE  OnItsWay(f)'
  BY DEF NoEditLost, Existing
<1>1. /\ text' = text /\ reported' = reported
      /\ "failure" \notin mishaps
  BY DEF Deliver, disk
<1>2. OnItsWay(f)
  BY <1>1 DEF NoEditLost, Existing
<1>3. \E locals \in Locals :
        /\ Update(h, locals)
        /\ \/ locals.pc = "load"
           \/ locals.pc = "rules" /\ (p = f => f \in locals.paths)
  <2>1. CASE p \in ignored \cup {Config}
    <3>1. Update(h, [Idle EXCEPT !.pc = "load"])
      BY <2>1 DEF Deliver
    <3>2. [Idle EXCEPT !.pc = "load"] \in Locals
      BY IdleType DEF Locals
    <3>3. QED
      BY <3>1, <3>2 DEF Idle
  <2>2. CASE p \notin ignored \cup {Config}
    <3>1. PICK paths \in SUBSET Paths : paths \in {Files, {p}} /\ RunAndUpdate(h, paths)
      BY <2>2 DEF Deliver, Paths
    <3>2. PICK locals \in Locals :
            /\ Update(h, locals) /\ locals.pc = "rules"
            /\ paths \subseteq locals.paths \/ Files \subseteq locals.paths
      BY <3>1, RunAndUpdateType
    <3>3. p = f => f \in locals.paths
      BY <3>1, <3>2
    <3>4. QED
      BY <3>2, <3>3
  <2>3. QED
    BY <2>1, <2>2
<1>4. PICK locals \in Locals :
        /\ Update(h, locals)
        /\ \/ locals.pc = "load"
           \/ locals.pc = "rules" /\ (p = f => f \in locals.paths)
  BY <1>3
<1>5. handler'[h] = locals /\ \A g \in Handlers : g # h => handler'[g] = handler[g]
  BY <1>4, UpdateType
<1>6. p = f => Carries(h, f)'
  BY <1>4, <1>5 DEF Carries, Reloading
<1>7. pending[f] # "none" => OnItsWay(f)'
  <2>1. p # f => pending'[f] = pending[f]
    BY DEF Deliver, TypeOK
  <2>2. QED
    BY <1>6, <2>1 DEF OnItsWay
<1>8. ~ Carries(h, f)
  BY DEF Deliver, At, Carries, Reloading
<1>9. QED
  BY <1>1, <1>2, <1>5, <1>7, <1>8, StaysOnItsWay

\* A handler at work on a file goes on to be, until it fixes the file, reports
\* or fails.
LEMMA CarriesOn ==
  ASSUME TypeOK, NEW h \in Handlers, Continue(h), ~ Report(h), ~ Fails(h),
         NEW f \in Existing, Carries(h, f), ~ Lint(h) \/ f \notin Rewritten(h)
  PROVE  Carries(h, f)'
<1>1. /\ handler[h] \in Locals /\ handler \in [Handlers -> Locals]
      /\ ~ Lint(h) => text' = text
      /\ f \in Files /\ f \in Existing
  BY DEF Continue, ReadConfig, ConfigLoaded, BuildLinter, AskPlugins,
         UpdateSources, StartLint, Scan, disk, Existing, TypeOK
<1>2. CASE \/ ReadConfig(h) \/ ConfigLoaded(h) \/ BuildLinter(h) \/ AskPlugins(h)
  <2>1. handler'[h].pc \in {"loaded", "purged", "refresh", "plugins"}
    <3>1. CASE ReadConfig(h)
      BY <1>1, <3>1 DEF ReadConfig, Update, Locals
    <3>2. CASE ConfigLoaded(h)
      BY <1>1, <3>2 DEF ConfigLoaded, Update, Locals
    <3>3. CASE BuildLinter(h)
      BY <1>1, <3>3 DEF BuildLinter, Update, Locals
    <3>4. CASE AskPlugins(h)
      BY <1>1, <3>4 DEF AskPlugins, Update, Locals
    <3>5. QED
      BY <1>2, <3>1, <3>2, <3>3, <3>4
  <2>2. QED
    BY <2>1 DEF Carries, Reloading
<1>3. CASE UpdateSources(h)
  <2>1. Files \in SUBSET Paths /\ RunAndUpdate(h, Files)
    BY <1>3 DEF UpdateSources, Paths
  <2>2. PICK locals \in Locals :
          /\ Update(h, locals) /\ locals.pc = "rules"
          /\ Files \subseteq locals.paths
    BY <2>1, RunAndUpdateType
  <2>3. handler'[h] = locals
    BY <2>2, UpdateType
  <2>4. QED
    BY <1>1, <2>2, <2>3 DEF Carries
<1>4. CASE StartLint(h)
  <2>1. /\ handler[h].pc = "rules"
        /\ handler'[h].pc = "scan" /\ handler'[h].paths = handler[h].paths
    BY <1>1, <1>4 DEF StartLint, At, Update, Locals
  <2>2. QED
    BY <2>1 DEF Carries, Reloading
<1>5. CASE Scan(h)
  <2>1. /\ handler[h].pc = "scan"
        /\ handler'[h].pc = "lint"
        /\ handler'[h].read = [g \in Found(handler[h].paths) \cap Files |-> text[g]]
    BY <1>1, <1>5 DEF Scan, At, Update, Locals
  <2>2. f \in handler[h].paths
    BY <2>1 DEF Carries, Reloading
  <2>3. f \in Found(handler[h].paths) \cap Files
    BY <1>1, <2>2 DEF Found
  <2>4. f \in DOMAIN handler'[h].read /\ handler'[h].read[f] = text[f]
    BY <2>1, <2>3
  <2>5. text' = text
    BY <1>5 DEF Scan, disk
  <2>6. QED
    BY <2>1, <2>4, <2>5 DEF Carries
<1>6. CASE Lint(h)
  <2> DEFINE read == handler[h].read
  <2>1. /\ handler[h].pc = "lint"
        /\ handler'[h].pc = "report"
        /\ handler'[h].read = [g \in DOMAIN read |-> FixTo[read[g]]]
    BY <1>1, <1>6 DEF Lint, At, Update, Locals
  <2>2. f \in DOMAIN read /\ read[f] = text[f]
    BY <2>1 DEF Carries, Reloading
  <2>3. FixTo[read[f]] = read[f]
    BY <1>6, <2>2 DEF Rewritten
  <2>4. text'[f] = text[f]
    BY <1>1, <1>6 DEF Lint, WriteFixes
  <2>5. QED
    BY <2>1, <2>2, <2>3, <2>4 DEF Carries
<1>7. QED
  BY <1>2, <1>3, <1>4, <1>5, <1>6 DEF Continue

\* A handler passes an edit on from step to step, until it is reported.
LEMMA ContinueLosesNoEdit ==
  ASSUME TypeOK, NoEditLost, NEW h \in Handlers, Continue(h)
  PROVE  NoEditLost'
<1>0. ASSUME Lint(h), NEW f \in Files
      PROVE  /\ f \in Rewritten(h) => OnItsWay(f)'
             /\ f \notin Rewritten(h) =>
                  /\ text'[f] = text[f] /\ (f \in reported' <=> f \in reported)
                  /\ pending'[f] = pending[f]
  BY <1>0, FileAfterLint DEF OnItsWay
<1> SUFFICES ASSUME "failure" \notin mishaps', NEW f \in Files,
                    f \in Existing' \ reported',
                    ~ Lint(h) \/ f \notin Rewritten(h)
             PROVE  OnItsWay(f)'
  BY <1>0 DEF NoEditLost, Existing
<1>1. text'[f] = text[f] /\ f \in Existing /\ ~ Fails(h)
  <2>1. ~ Fails(h)
    BY DEF Fails
  <2>2. ~ Lint(h) => text' = text
    BY <2>1 DEF Continue, ReadConfig, ConfigLoaded, BuildLinter, AskPlugins,
         UpdateSources, StartLint, Scan, Report, disk
  <2>3. QED
    BY <1>0, <2>1, <2>2 DEF Existing
<1>2. f \notin reported /\ UNCHANGED mishaps
  <2>1. ~ Lint(h) => reported \subseteq reported'
    BY <1>1 DEF Continue, ReadConfig, ConfigLoaded, BuildLinter, AskPlugins,
                UpdateSources, StartLint, Scan, Report, Show, watched
  <2>2. UNCHANGED mishaps
    BY <1>1 DEF Continue, ReadConfig, ConfigLoaded, BuildLinter, AskPlugins,
                UpdateSources, StartLint, Scan, Lint, Report
  <2>3. QED
    BY <1>0, <2>1, <2>2
<1>3. OnItsWay(f)
  BY <1>1, <1>2 DEF NoEditLost
<1>4. f \in Paths /\ CacheFile \in Paths
  BY DEF Paths
<1>5. pending[f] # "none" => pending'[f] # "none"
  <2>1. CASE Lint(h)
    BY <1>0, <2>1
  <2>2. CASE ~ Lint(h)
    BY <1>1, <1>4, <2>2 DEF Continue, ReadConfig, ConfigLoaded, BuildLinter,
         UnlinkCache, AskPlugins, UpdateSources, StartLint, Scan, Report, TypeOK
  <2>3. QED
    BY <2>1, <2>2
<1>6. handler[h] \in Locals
  BY DEF TypeOK
<1>7. \A g \in Handlers : g # h => handler'[g] = handler[g]
  BY <1>1 DEF Continue, ReadConfig, ConfigLoaded, BuildLinter, AskPlugins,
              UpdateSources, RunAndUpdate, StartLint, Scan, Lint, Report,
              Update, TypeOK
<1>8. ASSUME Carries(h, f)
      PROVE  Carries(h, f)'
  <2>1. CASE Report(h)
    <3>1. handler[h].pc = "report" /\ Show(h)
      BY <2>1 DEF Report, At
    <3>2. f \in DOMAIN handler[h].read /\ handler[h].read[f] = text[f]
      BY <1>8, <3>1 DEF Carries, Reloading
    <3>3. f \in reported'
      BY <3>1, <3>2 DEF Show
    <3>4. QED
      BY <3>3
  <2>2. QED
    BY <1>1, <1>8, <2>1, CarriesOn
<1>9. pending[f] # "none" => OnItsWay(f)'
  BY <1>5 DEF OnItsWay
<1>10. QED
  BY <1>1, <1>3, <1>7, <1>8, <1>9, StaysOnItsWay

\* No step loses an edit.
LEMMA NextLosesNoEdit == TypeOK /\ NoEditLost /\ [Next]_vars => NoEditLost'
<1>1. CASE UNCHANGED vars
  BY <1>1 DEF NoEditLost, Existing, OnItsWay, Carries, Reloading, vars, disk
<1>2. QED
  BY <1>1, UserLosesNoEdit, DeliverLosesNoEdit, ContinueLosesNoEdit DEF Next, Watcher

\* The inductive invariant: an edit that is not reported is on its way, and
\* the caches hold what their configuration gave.
THEOREM WatchTheorem == Spec => []WatchInv
<1>1. Init => NoEditLost
  BY DEF Init, NoEditLost, Existing
<1>2. QED
  BY <1>1, NextLosesNoEdit, TypeTheorem, CacheOfConfigTheorem, PTL DEF Spec, WatchInv

\* EditsReported: when the watcher is quiet, unless a handler failed, every
\* text has been reported.
THEOREM EditsReportedTheorem == Spec => []EditsReported
<1>1. WatchInv => EditsReported
  <2> SUFFICES ASSUME NoEditLost, Quiet, "failure" \notin mishaps, NEW f \in Existing
               PROVE  f \in reported
    BY DEF WatchInv, EditsReported
  <2>1. pending[f] = "none" /\ \A h \in Handlers : ~ Carries(h, f)
    BY DEF Quiet, Carries, Reloading, Paths, Existing
  <2>2. QED
    BY <2>1 DEF NoEditLost, OnItsWay
<1>2. QED
  BY <1>1, WatchTheorem, PTL

----------------------------------------------------------------------------
(* A calm watcher is current.                                              *)

\* What the user changes is announced.
LEMMA UserKeepsCalm ==
  ASSUME TypeOK, CalmInv, mishaps = {}, User
  PROVE  CalmInv'
<1> OneAtWork /\ LintersCurrent /\ WatchesIgnored /\ SettlesConfig /\ ReadsCurrent
    /\ ScreenCurrent
  BY DEF CalmInv
<1>1. UNCHANGED <<handler, config, linters, cacheFile, sources, ignored, watching, screen, mishaps>>
  BY DEF User, EditFile, DeleteFile, EditConfig, ChangeIgnore, Change, watched
<1>2. OneAtWork' /\ LintersCurrent' /\ WatchesIgnored'
  BY <1>1 DEF OneAtWork, LintersCurrent, WatchesIgnored, At
<1>3. \A p \in Files \cup {Config} : pending[p] # "none" => pending'[p] # "none"
  BY DEF User, EditFile, DeleteFile, EditConfig, ChangeIgnore, TypeOK, Paths
<1>4. \A f \in Files : text'[f] = text[f] \/ text'[f] = None \/ pending'[f] # "none"
  BY DEF User, EditFile, DeleteFile, EditConfig, ChangeIgnore, TypeOK, Paths
<1>5. settings' = settings \/ pending'[Config] # "none"
  BY DEF User, EditFile, DeleteFile, EditConfig, ChangeIgnore, TypeOK, Paths
<1>6. SettlesConfig'
  <2> SUFFICES ASSUME pending'[Config] = "none" PROVE SettlesConfig'
    BY DEF SettlesConfig
  <2>1. pending[Config] = "none" /\ settings' = settings
    BY <1>3, <1>5
  <2> QED BY <1>1, <2>1 DEF SettlesConfig, Settled, Reloading, Current
<1>7. ReadsCurrent'
  BY <1>1, <1>3, <1>4 DEF ReadsCurrent, Existing
<1>8. ScreenCurrent'
  <2> SUFFICES ASSUME NEW f \in Existing', ~ OnItsWay(f)', pending'[Config] = "none"
               PROVE  screen'[f] = [text |-> text'[f], config |-> settings']
    BY DEF ScreenCurrent
  <2>0. pending'[f] = "none"
    BY DEF OnItsWay
  <2>1. f \in Files /\ text'[f] = text[f] /\ settings' = settings
    BY <1>4, <1>5, <2>0 DEF Existing
  <2>2. f \in Existing /\ pending[f] = "none" /\ pending[Config] = "none"
    BY <1>3, <2>0, <2>1 DEF Existing
  <2>3. screen[f] = [text |-> text[f], config |-> settings] \/ \E h \in Handlers : Carries(h, f)
    BY <2>2 DEF ScreenCurrent, OnItsWay
  <2>4. ASSUME NEW h \in Handlers, Carries(h, f) PROVE Carries(h, f)'
    BY <1>1, <2>1, <2>4 DEF Carries, Reloading
  <2> QED BY <1>1, <2>1, <2>3, <2>4 DEF OnItsWay
<1> QED BY <1>2, <1>6, <1>7, <1>8 DEF CalmInv

\* An event is delivered when nobody is at work, or else handlers overlap.
LEMMA DeliverKeepsCalm ==
  ASSUME TypeOK, CalmInv, mishaps = {}, NEW h \in Handlers, NEW p \in Paths, Deliver(h, p)
  PROVE  CalmInv'
<1> SUFFICES ASSUME mishaps' = {}
             PROVE  /\ OneAtWork' /\ LintersCurrent' /\ WatchesIgnored' /\ SettlesConfig'
                    /\ ReadsCurrent' /\ ScreenCurrent'
  BY DEF CalmInv
<1> OneAtWork /\ LintersCurrent /\ WatchesIgnored /\ SettlesConfig /\ ReadsCurrent
    /\ ScreenCurrent
  BY DEF CalmInv
<1>1. /\ text' = text /\ settings' = settings
      /\ UNCHANGED <<config, linters, cacheFile, sources, ignored, watching, screen>>
      /\ \A g \in Handlers : handler[g].pc = "idle"
  BY DEF Deliver, disk, watched, At
<1>2. \E locals \in Locals :
        /\ Update(h, locals)
        /\ \/ locals.pc = "load"
           \/ /\ locals.pc = "rules" /\ locals.previous = ignored /\ p # Config
              /\ p \in Files => p \in locals.paths
  <2>1. CASE p \in ignored \cup {Config}
    <3>1. Update(h, [Idle EXCEPT !.pc = "load"])
      BY <2>1 DEF Deliver
    <3>2. [Idle EXCEPT !.pc = "load"] \in Locals
      BY IdleType DEF Locals
    <3> QED BY <3>1, <3>2 DEF Idle
  <2>2. CASE p \notin ignored \cup {Config}
    <3>1. PICK paths \in SUBSET Paths : paths \in {Files, {p}} /\ RunAndUpdate(h, paths)
      BY <2>2 DEF Deliver, Paths
    <3>2. PICK locals \in Locals :
            /\ Update(h, locals) /\ locals.pc = "rules" /\ locals.previous = ignored
            /\ paths \subseteq locals.paths \/ Files \subseteq locals.paths
      BY <3>1, RunAndUpdateType
    <3>3. p \in Files => p \in locals.paths
      BY <3>1, <3>2
    <3> QED BY <2>2, <3>2, <3>3
  <2> QED BY <2>1, <2>2
<1>3. PICK locals \in Locals :
        /\ Update(h, locals)
        /\ \/ locals.pc = "load"
           \/ /\ locals.pc = "rules" /\ locals.previous = ignored /\ p # Config
              /\ p \in Files => p \in locals.paths
  BY <1>2
<1>4. handler'[h] = locals /\ \A g \in Handlers : g # h => handler'[g].pc = "idle"
  BY <1>1, <1>3, UpdateType
<1>5. OneAtWork'
  BY <1>4 DEF OneAtWork, At
<1>6. LintersCurrent'
  BY <1>3, <1>4 DEF LintersCurrent
<1>7. WatchesIgnored'
  BY <1>1, <1>3, <1>4 DEF WatchesIgnored
<1>8. \A q \in Paths : q # p => pending'[q] = pending[q]
  BY DEF Deliver, TypeOK
<1>9. locals.pc = "load" => Reloading(h)'
  BY <1>4 DEF Reloading
<1>10. SettlesConfig'
  <2>1. \A g \in Handlers : ~ Reloading(g)
    BY <1>1 DEF Reloading
  <2>2. locals.pc = "rules" => pending'[Config] = pending[Config]
    BY <1>3, <1>8 DEF Paths
  <2>3. locals.pc = "rules" /\ pending'[Config] = "none" => Settled'
    BY <1>1, <2>1, <2>2 DEF SettlesConfig, Settled, Current
  <2>4. \A g \in Handlers : handler'[g].pc \in {"idle", "load", "rules"}
    BY <1>3, <1>4
  <2> QED BY <1>3, <1>9, <2>3, <2>4 DEF SettlesConfig
<1>11. ReadsCurrent'
  BY <1>3, <1>4 DEF ReadsCurrent
<1>12. ScreenCurrent'
  <2> SUFFICES ASSUME NEW f \in Existing
               PROVE  \/ screen[f] = [text |-> text[f], config |-> settings]
                      \/ OnItsWay(f)'
                      \/ pending'[Config] # "none"
    BY <1>1 DEF ScreenCurrent, Existing
  <2>1. f \in Files /\ f \in Paths /\ Config \in Paths
    BY DEF Existing, Paths
  <2>2. ~ Carries(h, f) /\ \A g \in Handlers : ~ Carries(g, f)
    BY <1>1 DEF Carries, Reloading
  <2>3. CASE locals.pc = "load"
    BY <1>9, <2>3 DEF OnItsWay, Carries
  <2>4. CASE locals.pc = "rules"
    <3>1. p = f => Carries(h, f)'
      BY <1>3, <1>4, <2>1, <2>4 DEF Carries
    <3>2. p # f => pending'[f] = pending[f]
      BY <1>8, <2>1
    <3>3. pending'[Config] = pending[Config]
      BY <1>3, <1>8, <2>1, <2>4
    <3> QED BY <2>2, <3>1, <3>2, <3>3 DEF ScreenCurrent, OnItsWay
  <2> QED BY <1>3, <2>3, <2>4
<1> QED BY <1>5, <1>6, <1>7, <1>10, <1>11, <1>12

\* A reload carries every file until its lint.
LEMMA ReloadKeepsCalm ==
  ASSUME TypeOK, OneAtWork, WatchesIgnored, NEW h \in Handlers, ~ At(h, "idle"),
         \A g \in Handlers : g # h => handler'[g] = handler[g],
         handler'[h].pc \in {"loaded", "purged", "refresh", "plugins"},
         ignored' = ignored, watching' = watching
  PROVE  /\ OneAtWork' /\ WatchesIgnored' /\ ReadsCurrent' /\ ScreenCurrent'
         /\ Reloading(h)' /\ \A g \in Handlers : g # h => handler'[g].pc = "idle"
<1>1. \A g \in Handlers : g # h => handler'[g].pc = "idle"
  BY DEF OneAtWork, At
<1>2. OneAtWork' /\ WatchesIgnored' /\ ReadsCurrent'
  BY <1>1 DEF OneAtWork, At, WatchesIgnored, ReadsCurrent
<1>3. Reloading(h)'
  BY DEF Reloading
<1>4. ScreenCurrent'
  BY <1>3 DEF ScreenCurrent, OnItsWay, Carries
<1> QED BY <1>1, <1>2, <1>3, <1>4

\* A handler at work on its own leaves everything as the configuration says.
LEMMA ContinueKeepsCalm ==
  ASSUME TypeOK, CacheOfConfig, CalmInv, mishaps = {}, NEW h \in Handlers, Continue(h)
  PROVE  CalmInv'
<1> SUFFICES ASSUME mishaps' = {}
             PROVE  /\ OneAtWork' /\ LintersCurrent' /\ WatchesIgnored' /\ SettlesConfig'
                    /\ ReadsCurrent' /\ ScreenCurrent'
  BY DEF CalmInv
<1> OneAtWork /\ LintersCurrent /\ WatchesIgnored /\ SettlesConfig /\ ReadsCurrent
    /\ ScreenCurrent
  BY DEF CalmInv
<1>0. ~ Fails(h)
  BY DEF Fails
<1>1. /\ ~ Fails(h) /\ ~ At(h, "idle")
      /\ settings' = settings
  BY <1>0 DEF Continue, ReadConfig, ConfigLoaded, BuildLinter, AskPlugins,
         UpdateSources, StartLint, Scan, Lint, Report, disk, At
<1>2. \A g \in Handlers : g # h => handler'[g] = handler[g] /\ handler[g].pc = "idle"
  BY <1>1 DEF Continue, ReadConfig, ConfigLoaded, BuildLinter, AskPlugins,
              UpdateSources, RunAndUpdate, StartLint, Scan, Lint, Report,
              Update, TypeOK, OneAtWork, At
<1>3. /\ handler[h] \in Locals /\ handler \in [Handlers -> Locals]
      /\ handler[h].linter \in DOMAIN linters
  BY DEF TypeOK
<1>4. /\ pending'[Config] = pending[Config]
      /\ \A f \in Files :
           ~ Lint(h) \/ f \notin Rewritten(h) =>
             pending'[f] = pending[f] /\ text'[f] = text[f]
  <2>1. CASE Lint(h)
    BY <2>1, FileAfterLint, LintFixes, FixesWritten
  <2>2. CASE ~ Lint(h)
    <3>1. text' = text
      BY <1>1, <2>2 DEF Continue, ReadConfig, ConfigLoaded, BuildLinter, AskPlugins,
           UpdateSources, StartLint, Scan, Report, disk
    <3>2. \A p \in Files \cup {Config} : pending'[p] = pending[p]
      BY <1>1, <2>2, FilesAssumption DEF Continue, ReadConfig, ConfigLoaded,
           BuildLinter, UnlinkCache, AskPlugins, UpdateSources, StartLint, Scan,
           Report, TypeOK, Paths
    <3> QED BY <3>1, <3>2
  <2> QED BY <2>1, <2>2
<1>5. OneAtWork'
  BY <1>2 DEF OneAtWork, At
<1>6. CASE ReadConfig(h)
  <2>1. handler'[h].pc = "loaded" /\ handler'[h].loaded = settings
    BY <1>3, <1>6 DEF ReadConfig, Update, Locals
  <2>2. ignored' = ignored /\ watching' = watching
    BY <1>6 DEF ReadConfig, watched
  <2>3. /\ WatchesIgnored' /\ ReadsCurrent' /\ ScreenCurrent' /\ Reloading(h)'
        /\ \A g \in Handlers : g # h => handler'[g].pc = "idle"
    BY <1>1, <1>2, <2>1, <2>2, ReloadKeepsCalm
  <2>4. LintersCurrent'
    BY <2>1, <2>3 DEF LintersCurrent
  <2>5. SettlesConfig'
    BY <1>1, <2>1, <2>3 DEF SettlesConfig
  <2> QED BY <1>5, <2>3, <2>4, <2>5
<1>7. CASE ConfigLoaded(h)
  <2>1. /\ handler[h].pc = "loaded"
        /\ handler'[h].pc = "purged" /\ handler'[h].loaded = handler[h].loaded
        /\ config' = handler[h].loaded
    BY <1>3, <1>7 DEF ConfigLoaded, Update, Locals, At
  <2>2. ignored' = ignored /\ watching' = watching
    BY <1>7 DEF ConfigLoaded, watched
  <2>3. /\ WatchesIgnored' /\ ReadsCurrent' /\ ScreenCurrent' /\ Reloading(h)'
        /\ \A g \in Handlers : g # h => handler'[g].pc = "idle"
    BY <1>1, <1>2, <2>1, <2>2, ReloadKeepsCalm
  <2>4. LintersCurrent'
    BY <2>1, <2>3 DEF LintersCurrent
  <2>5. SettlesConfig'
    BY <1>1, <1>4, <2>1, <2>3 DEF SettlesConfig
  <2> QED BY <1>5, <2>3, <2>4, <2>5
<1>8. CASE BuildLinter(h)
  <2>1. /\ handler[h].pc = "purged"
        /\ handler'[h].pc = "refresh" /\ handler'[h].loaded = handler[h].loaded
        /\ cacheFile' = {}
    BY <1>3, <1>8 DEF BuildLinter, UnlinkCache, Update, Locals, At
  <2>2. ignored' = ignored /\ watching' = watching
    BY <1>8 DEF BuildLinter, watched
  <2>3. /\ WatchesIgnored' /\ ReadsCurrent' /\ ScreenCurrent' /\ Reloading(h)'
        /\ \A g \in Handlers : g # h => handler'[g].pc = "idle"
    BY <1>1, <1>2, <2>1, <2>2, ReloadKeepsCalm
  <2>4. Current'.config = config
    <3> DEFINE new == [config |-> config, entries |-> {}]
    <3>1. linters' = Append(linters, new)
      BY <1>8 DEF BuildLinter, UnlinkCache, LoadedEntries
    <3>2. linters \in Seq(Linter) /\ new \in Linter
      BY DEF TypeOK, Linter
    <3>3. new.config = config
      OBVIOUS
    <3> HIDE DEF new
    <3>4. Len(linters') = Len(linters) + 1 /\ linters'[Len(linters) + 1] = new
      BY <3>1, <3>2, AppendProperties
    <3> QED BY <3>3, <3>4 DEF Current
  <2>5. LintersCurrent'
    BY <2>1, <2>3 DEF LintersCurrent
  <2>6. SettlesConfig'
    BY <1>1, <1>4, <2>1, <2>3, <2>4 DEF SettlesConfig
  <2> QED BY <1>5, <2>3, <2>5, <2>6
<1>9. CASE AskPlugins(h)
  <2>1. /\ handler[h].pc = "refresh"
        /\ handler'[h].pc = "plugins" /\ handler'[h].loaded = handler[h].loaded
        /\ handler'[h].linter = Len(linters)
        /\ UNCHANGED <<linters, cacheFile>>
    BY <1>3, <1>9 DEF AskPlugins, Update, Locals, At
  <2>2. ignored' = ignored /\ watching' = watching
    BY <1>9 DEF AskPlugins, watched
  <2>3. /\ WatchesIgnored' /\ ReadsCurrent' /\ ScreenCurrent' /\ Reloading(h)'
        /\ \A g \in Handlers : g # h => handler'[g].pc = "idle"
    BY <1>1, <1>2, <2>1, <2>2, ReloadKeepsCalm
  <2>4. LintersCurrent'
    BY <2>1, <2>3 DEF LintersCurrent
  <2>5. SettlesConfig'
    BY <1>1, <1>4, <2>1, <2>3 DEF SettlesConfig, Current
  <2> QED BY <1>5, <2>3, <2>4, <2>5
\* The lint goes on with the linter, and the configuration, it began with.
<1>10. ASSUME ~ Report(h), handler[h].pc \in {"plugins", "rules", "scan", "lint"},
              handler'[h].pc \in {"rules", "scan", "lint", "report"},
              screen' = screen
       PROVE  ScreenCurrent'
  <2> SUFFICES ASSUME NEW f \in Existing', ~ OnItsWay(f)', pending'[Config] = "none"
               PROVE  screen[f] = [text |-> text'[f], config |-> settings]
    BY <1>1, <1>10 DEF ScreenCurrent
  <2>1. f \in Files /\ (~ Lint(h) \/ f \notin Rewritten(h))
    BY FileAfterLint DEF Existing, OnItsWay
  <2>2. f \in Existing /\ text'[f] = text[f] /\ pending'[f] = pending[f]
    BY <1>4, <2>1 DEF Existing
  <2>3. ASSUME NEW g \in Handlers, Carries(g, f)
        PROVE  Carries(g, f)'
    <3>1. CASE g = h
      BY <1>1, <1>10, <2>1, <2>2, <2>3, <3>1, CarriesOn
    <3>2. CASE g # h
      BY <1>2, <2>3, <3>2 DEF Carries, Reloading
    <3> QED BY <3>1, <3>2
  <2> QED BY <1>4, <2>2, <2>3 DEF ScreenCurrent, OnItsWay
<1>11. \A g \in Handlers : g # h => handler'[g].pc = "idle"
  BY <1>2
<1>12. ASSUME handler[h].pc \in {"rules", "scan", "lint", "report"},
              handler'[h].pc \in {"idle", "rules", "scan", "lint", "report"}
       PROVE  /\ pending'[Config] = "none" => Settled
              /\ (pending'[Config] = "none" => Settled') => SettlesConfig'
  <2>1. pending'[Config] = pending[Config]
    BY <1>4
  <2>2. \A g \in Handlers : ~ Reloading(g)
    BY <1>2, <1>12 DEF Reloading
  <2>3. pending'[Config] = "none" => Settled
    BY <2>1, <2>2 DEF SettlesConfig
  <2>4. (pending'[Config] = "none" => Settled') => SettlesConfig'
    BY <1>11, <1>12 DEF SettlesConfig
  <2> QED BY <2>3, <2>4
<1>13. CASE UpdateSources(h)
  <2>1. Files \in SUBSET Paths /\ RunAndUpdate(h, Files)
    BY <1>13 DEF UpdateSources, Paths
  <2>2. PICK locals \in Locals :
          Update(h, locals) /\ locals.pc = "rules" /\ locals.previous = ignored
    BY <2>1, RunAndUpdateType
  <2>3. handler'[h] = locals
    BY <2>2, UpdateType
  <2>4. /\ handler[h].pc = "plugins"
        /\ sources' = [plugins |-> linters[handler[h].linter].config,
                       config |-> handler[h].loaded]
        /\ UNCHANGED <<linters, cacheFile, ignored, watching, screen>>
    BY <1>13 DEF UpdateSources, At
  <2>5. ScreenCurrent'
    BY <1>10, <1>13, <2>2, <2>3, <2>4 DEF Report, At
  <2>6. LintersCurrent' /\ ReadsCurrent'
    BY <1>11, <2>2, <2>3 DEF LintersCurrent, ReadsCurrent
  <2>7. WatchesIgnored'
    BY <1>11, <2>2, <2>3, <2>4 DEF WatchesIgnored
  <2>8. SettlesConfig'
    <3>1. handler[h].linter = Len(linters)
      BY <2>4 DEF LintersCurrent
    <3>2. pending'[Config] = "none" =>
            handler[h].loaded = settings /\ Current.config = settings /\ cacheFile = {}
      BY <1>4, <2>4 DEF SettlesConfig
    <3>3. pending'[Config] = "none" => Settled'
      BY <1>1, <2>4, <3>1, <3>2 DEF Settled, Current
    <3> QED BY <1>11, <2>2, <2>3, <3>3 DEF SettlesConfig
  <2> QED BY <1>5, <2>5, <2>6, <2>7, <2>8
<1>14. CASE StartLint(h)
  <2>1. /\ handler[h].pc = "rules" /\ handler'[h].pc = "scan"
        /\ handler'[h].linter = Len(linters)
        /\ handler'[h].previous = handler[h].previous
    BY <1>3, <1>14 DEF StartLint, Update, Locals, At
  <2>2. UNCHANGED <<linters, cacheFile, sources, ignored, watching, screen>>
    BY <1>14 DEF StartLint, watched
  <2>3. ScreenCurrent'
    BY <1>10, <1>14, <2>1, <2>2 DEF Report, At
  <2>4. LintersCurrent' /\ ReadsCurrent'
    BY <1>11, <2>1, <2>2 DEF LintersCurrent, ReadsCurrent
  <2>5. WatchesIgnored'
    BY <1>11, <2>1, <2>2 DEF WatchesIgnored
  <2>6. SettlesConfig'
    BY <1>1, <1>12, <2>1, <2>2 DEF Settled, Current
  <2> QED BY <1>5, <2>3, <2>4, <2>5, <2>6
<1>15. CASE Scan(h)
  <2>1. /\ handler[h].pc = "scan" /\ handler'[h].pc = "lint"
        /\ handler'[h].linter = handler[h].linter
        /\ handler'[h].previous = handler[h].previous
        /\ handler'[h].read = [f \in Found(handler[h].paths) \cap Files |-> text[f]]
    BY <1>3, <1>15 DEF Scan, Update, Locals, At
  <2>2. UNCHANGED <<linters, cacheFile, sources, ignored, watching, screen>>
    BY <1>15 DEF Scan, watched
  <2>3. ScreenCurrent'
    BY <1>10, <1>15, <2>1, <2>2 DEF Report, At
  <2>4. LintersCurrent'
    BY <1>11, <2>1, <2>2 DEF LintersCurrent
  <2>5. ReadsCurrent'
    <3>1. \A f \in DOMAIN handler'[h].read : handler'[h].read[f] = text[f]
      BY <2>1
    <3>2. text' = text
      BY <1>15 DEF Scan, disk
    <3> QED BY <1>11, <3>1, <3>2 DEF ReadsCurrent
  <2>6. WatchesIgnored'
    BY <1>11, <2>1, <2>2 DEF WatchesIgnored
  <2>7. SettlesConfig'
    BY <1>1, <1>12, <2>1, <2>2 DEF Settled, Current
  <2> QED BY <1>5, <2>3, <2>4, <2>5, <2>6, <2>7
<1>16. CASE Lint(h)
  <2> DEFINE l == handler[h].linter
             entries == linters[l].entries \cup {linters[l].config}
  <2>1. /\ handler[h].pc = "lint" /\ handler'[h].pc = "report"
        /\ handler'[h].linter = l
        /\ handler'[h].previous = handler[h].previous
        /\ DOMAIN handler'[h].read = DOMAIN handler[h].read
        /\ \A f \in DOMAIN handler[h].read :
             handler'[h].read[f] = FixTo[handler[h].read[f]]
    BY <1>3, <1>16 DEF Lint, Update, Locals, At
  <2>2. UNCHANGED <<sources, ignored, watching, screen>>
    BY <1>16 DEF Lint, watched
  <2>3. ScreenCurrent'
    BY <1>10, <1>16, <2>1, <2>2 DEF Report, At
  <2>4. l = Len(linters)
    BY <2>1 DEF LintersCurrent
  <2>5. linters[l].entries \subseteq {linters[l].config} /\ linters[l] \in Linter
    BY <1>3, SomeLinter DEF CacheOfConfig
  <2>6. Len(linters') = Len(linters) /\ Current'.config = Current.config
        /\ (cacheFile' = cacheFile \/ cacheFile' \subseteq {Current.config})
    <3>1. CASE handler[h].paths = {}
      BY <1>16, <3>1 DEF Lint, Current
    <3>2. CASE handler[h].paths # {}
      <4>1. linters' = [linters EXCEPT ![l].entries = entries] /\ cacheFile' = entries
        BY <1>16, <3>2 DEF Lint
      <4>2. entries = {linters[l].config} /\ entries \in SUBSET Versions
        BY <2>5 DEF Linter
      <4> HIDE DEF entries
      <4>3. /\ linters' \in Seq(Linter) /\ DOMAIN linters' = DOMAIN linters
            /\ linters'[l] = [linters[l] EXCEPT !.entries = entries]
        BY <1>3, <4>1, <4>2, EntriesType
      <4>4. Len(linters') = Len(linters)
        BY <4>3, SomeLinter, LenProperties
      <4>5. linters'[l].config = linters[l].config
        BY <2>5, <4>3 DEF Linter
      <4> QED BY <2>4, <4>1, <4>2, <4>4, <4>5 DEF Current
    <3> QED BY <3>1, <3>2
  <2>7. LintersCurrent'
    BY <1>11, <2>1, <2>4, <2>6 DEF LintersCurrent
  <2>8. ReadsCurrent'
    <3> SUFFICES ASSUME NEW f \in Existing', f \in DOMAIN handler'[h].read,
                        pending'[f] = "none"
                 PROVE  handler'[h].read[f] = text'[f]
      BY <1>11, <2>1 DEF ReadsCurrent
    <3>1. f \in Files /\ f \notin Rewritten(h)
      BY <1>16, FileAfterLint DEF Existing
    <3>2. f \in Existing /\ text'[f] = text[f] /\ pending[f] = "none"
      BY <1>4, <3>1 DEF Existing
    <3>3. handler[h].read[f] = text[f]
      BY <2>1, <3>2 DEF ReadsCurrent
    <3> QED BY <2>1, <3>1, <3>2, <3>3 DEF Rewritten
  <2>9. WatchesIgnored'
    BY <1>11, <2>1, <2>2 DEF WatchesIgnored
  <2>10. SettlesConfig'
    BY <1>1, <1>12, <2>1, <2>2, <2>6 DEF Settled
  <2> QED BY <1>5, <2>3, <2>7, <2>8, <2>9, <2>10
<1>17. CASE Report(h)
  <2> DEFINE read == handler[h].read
  <2>1. /\ handler[h].pc = "report" /\ handler'[h] = Idle
        /\ Show(h)
        /\ watching' = Watching(handler[h].previous, handler[h].found)
        /\ ignored' = handler[h].found
        /\ UNCHANGED <<linters, cacheFile, sources>>
    BY <1>3, <1>17 DEF Report, Update, At
  <2>2. handler'[h].pc = "idle"
    BY <2>1 DEF Idle
  <2>3. LintersCurrent' /\ ReadsCurrent'
    BY <1>11, <2>2 DEF LintersCurrent, ReadsCurrent
  <2>4. WatchesIgnored'
    <3>1. watching = handler[h].previous
      BY <2>1 DEF WatchesIgnored
    <3>2. watching' = ignored'
      BY <2>1, <3>1 DEF Watching
    <3> QED BY <1>11, <2>2, <3>2 DEF WatchesIgnored
  <2>5. SettlesConfig'
    BY <1>1, <1>12, <2>1, <2>2 DEF Settled, Current
  <2>6. ScreenCurrent'
    <3>0. text' = text /\ pending' = pending
      BY <1>17 DEF Report, disk
    <3> SUFFICES ASSUME NEW f \in Existing, pending'[f] = "none", pending'[Config] = "none"
                 PROVE  screen'[f] = [text |-> text[f], config |-> settings]
      BY <1>1, <3>0 DEF ScreenCurrent, Existing, OnItsWay
    <3>1. f \in Files /\ pending[f] = "none" /\ pending[Config] = "none"
      BY <3>0 DEF Existing
    <3>2. \A g \in Handlers : g # h => ~ Carries(g, f)
      BY <1>2 DEF Carries, Reloading
    <3>3. Current.config = settings
      BY <1>12, <2>1, <2>2 DEF Settled
    <3>4. handler[h].linter = Len(linters)
      BY <2>1 DEF LintersCurrent
    <3>5. screen'[f] = IF f \in DOMAIN read
                       THEN [text |-> read[f], config |-> linters[handler[h].linter].config]
                       ELSE screen[f]
      BY <2>1, <3>1 DEF Show
    <3>6. CASE f \in DOMAIN read
      <4>1. read[f] = text[f]
        BY <2>1, <3>1, <3>6 DEF ReadsCurrent
      <4> QED BY <3>3, <3>4, <3>5, <3>6, <4>1 DEF Current
    <3>7. CASE f \notin DOMAIN read
      <4>1. ~ Carries(h, f)
        BY <2>1, <3>7 DEF Carries, Reloading
      <4>2. screen[f] = [text |-> text[f], config |-> settings]
        BY <3>1, <3>2, <4>1 DEF ScreenCurrent, OnItsWay
      <4> QED BY <3>5, <3>7, <4>2
    <3> QED BY <3>6, <3>7
  <2> QED BY <1>5, <2>3, <2>4, <2>5, <2>6
<1> QED
  BY <1>1, <1>6, <1>7, <1>8, <1>9, <1>13, <1>14, <1>15, <1>16, <1>17 DEF Continue

\* Every step keeps the watcher calm or is a mishap.
LEMMA NextKeepsCalm == TypeOK /\ CacheOfConfig /\ CalmInv /\ [Next]_vars => CalmInv'
<1> SUFFICES ASSUME TypeOK, CacheOfConfig, CalmInv, [Next]_vars, mishaps' = {}
             PROVE  CalmInv'
  BY DEF CalmInv
<1>1. mishaps = {}
  BY DEF Next, User, EditFile, DeleteFile, EditConfig, ChangeIgnore, Change, Watcher,
         Deliver, Continue, ReadConfig, ConfigLoaded, BuildLinter, AskPlugins,
         UpdateSources, StartLint, Scan, Lint, Report, Fails, vars
<1>2. CASE UNCHANGED vars
  BY <1>1, <1>2 DEF CalmInv, OneAtWork, LintersCurrent, WatchesIgnored, SettlesConfig,
       Settled, ReadsCurrent, ScreenCurrent, OnItsWay, Carries, Reloading, Existing,
       Current, At, vars, disk, watched
<1> QED
  BY <1>1, <1>2, UserKeepsCalm, DeliverKeepsCalm, ContinueKeepsCalm DEF Next, Watcher

\* At the start nobody is at work and everything is as the first run left it.
LEMMA InitCalmInv == Init => CalmInv
<1> SUFFICES ASSUME Init PROVE CalmInv
  OBVIOUS
<1>1. \A h \in Handlers : handler[h].pc = "idle"
  BY DEF Init, Idle
<1>2. Settled
  BY DEF Init, Settled, Current
<1>3. ScreenCurrent
  BY DEF Init, ScreenCurrent, Existing
<1> QED
  BY <1>1, <1>2, <1>3
  DEF Init, CalmInv, OneAtWork, LintersCurrent, WatchesIgnored, SettlesConfig,
      ReadsCurrent, At

\* Why a calm watcher is current.
THEOREM CalmTheorem == Spec => []CalmInv
<1>1. TypeOK /\ CacheOfConfig /\ CalmInv /\ [Next]_vars => CalmInv'
  BY NextKeepsCalm
<1>2. QED
  BY <1>1, InitCalmInv, TypeTheorem, CacheOfConfigTheorem, PTL DEF Spec

\* CalmIsCurrent: if no two handlers overlapped and none failed, a quiet
\* watcher shows every file as it is under the configuration as it is.
THEOREM CalmIsCurrentTheorem == Spec => []CalmIsCurrent
<1>1. CalmInv => CalmIsCurrent
  <2> SUFFICES ASSUME OneAtWork, WatchesIgnored, SettlesConfig, ScreenCurrent, Quiet
               PROVE  /\ \A f \in Existing :
                           screen[f] = [text |-> text[f], config |-> settings]
                      /\ Settled /\ watching = ignored
    BY DEF CalmInv, CalmIsCurrent, Settled
  <2>1. /\ \A p \in Files \cup {Config} : pending[p] = "none"
        /\ \A h \in Handlers : ~ Reloading(h)
        /\ \A h \in Handlers, f \in Files : ~ Carries(h, f)
    BY DEF Quiet, Paths, Reloading, Carries
  <2>2. Settled
    BY <2>1 DEF SettlesConfig
  <2>3. ASSUME NEW f \in Existing
        PROVE  screen[f] = [text |-> text[f], config |-> settings]
    <3>1. pending[f] = "none" /\ \A h \in Handlers : ~ Carries(h, f)
      BY <2>1 DEF Existing
    <3> QED BY <2>1, <3>1 DEF ScreenCurrent, OnItsWay
  <2> QED BY <2>2, <2>3 DEF WatchesIgnored
<1>2. QED
  BY <1>1, CalmTheorem, PTL
=============================================================================
