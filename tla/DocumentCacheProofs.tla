------------------------ MODULE DocumentCacheProofs ------------------------
(***************************************************************************)
(* Proofs about DocumentCache for any documents, contents, runs, fixes and *)
(* concurrency.                                                            *)
(***************************************************************************)
EXTENDS DocumentCache, TLAPS

USE FixedAssumption, SizeAssumption

----------------------------------------------------------------------------
(* Type correctness.                                                       *)

\* The initial state has the types.
LEMMA InitTypeOK == Init => TypeOK
BY DEF Init, TypeOK, File, Entry, Run, Task, NoRun, NoTask, EmptyCache, NoTasks

\* The history marker keeps the type of the tasks.
LEMMA DisturbedType ==
  ASSUME TypeOK, NEW d \in Docs, NEW v \in Contents \cup {None}
  PROVE  Disturbed(d, v) \in [Runs -> [Docs -> Task]]
<1> DEFINE new(r) ==
      [task[r][d] EXCEPT !.foreign = TRUE,
                         !.held = IF Working(r, d) THEN @ \cup {v} ELSE {}]
<1>1. ASSUME NEW r \in Runs
      PROVE  [task[r] EXCEPT ![d] = new(r)] \in [Docs -> Task]
  <2>1. task[r] \in [Docs -> Task] /\ task[r][d] \in Task
    BY DEF TypeOK
  <2>2. new(r) \in Task
    BY <2>1 DEF Task
  <2>3. QED
    BY <2>1, <2>2
<1>2. QED
  BY <1>1 DEF Disturbed

\* The content of a file, or None.
LEMMA HoldsType ==
  ASSUME TypeOK, NEW d \in Docs
  PROVE  Holds(d) \in Contents \cup {None}
BY DEF TypeOK, Holds, File

\* Every step of a task, a run or the surroundings keeps the types.
LEMMA NextTypeOK == TypeOK /\ TextRead /\ [Next]_vars => TypeOK'
<1> SUFFICES ASSUME TypeOK, TextRead, [Next]_vars PROVE TypeOK'
  OBVIOUS
<1>1. ASSUME NEW r \in Runs, NEW docs \in SUBSET Docs, NEW fix \in BOOLEAN,
             Start(r, docs, fix)
      PROVE  TypeOK'
  BY <1>1 DEF TypeOK, Start, Run, Task, QueuedTask, NoTask, NoTasks
<1>2. ASSUME NEW r \in Runs, NEW k \in Docs, PruneKey(r, k)
      PROVE  TypeOK'
  BY <1>2 DEF TypeOK, PruneKey, Run
<1>3. ASSUME NEW r \in Runs, EndPrune(r)
      PROVE  TypeOK'
  BY <1>3 DEF TypeOK, EndPrune, Run
<1>4. ASSUME NEW r \in Runs, Save(r)
      PROVE  TypeOK'
  BY <1>4 DEF TypeOK, Save, Run, NoRun, Task, NoTask, NoTasks
<1>5. ASSUME NEW r \in Runs, NEW d \in Docs, TaskStep(r, d)
      PROVE  TypeOK'
  <2> task[r] \in [Docs -> Task] /\ task[r][d] \in Task
    BY DEF TypeOK
  <2>1. CASE Stat(r, d)
    BY <2>1, HoldsType DEF TypeOK, Stat, Task, Stamp, StatOf, File
  <2>2. CASE Hit(r, d)
    BY <2>2 DEF TypeOK, Hit, IsCacheValid, Task, Entry
  <2>3. CASE Miss(r, d)
    BY <2>3 DEF TypeOK, Miss, Task
  <2>4. CASE Read(r, d)
    BY <2>4 DEF TypeOK, Read, Task, File
  <2>5. CASE Lint(r, d)
    BY <2>5 DEF TypeOK, Lint, Task
  <2>6. CASE Write(r, d)
    <3> DEFINE output == Fixed[task[r][d].text]
               new == [task[r][d] EXCEPT !.pc = "relint", !.text = output,
                                         !.foreign = FALSE,
                                         !.held = @ \cup {output}]
    <3>1. task[r][d].text \in Contents
      BY <2>6 DEF TextRead, Write
    <3>2. output \in Contents
      BY <3>1
    <3> HIDE DEF output
    <3>6. new \in Task
      <4>1. task[r][d].held \cup {output} \in SUBSET (Contents \cup {None})
        BY <3>2 DEF Task
      <4>2. QED
        BY <3>2, <4>1 DEF Task
    <3>3. task' \in [Runs -> [Docs -> Task]]
      BY <2>6, <3>2, <3>6, DisturbedType DEF Write, output
    <3>4. disk' \in [Docs -> File \cup {None}] /\ clock' \in Nat
      BY <2>6, <3>2 DEF Write, TypeOK, File, output
    <3>5. QED
      BY <2>6, <3>3, <3>4 DEF Write, TypeOK
  <2>7. CASE Relint(r, d)
    BY <2>7 DEF TypeOK, Relint, Task
  <2>8. CASE Restat(r, d)
    BY <2>8 DEF TypeOK, Restat, Task, Stamp, StatOf, File
  <2>9. CASE Store(r, d)
    <3>1. task[r][d].text \in Contents
      BY <2>9 DEF TextRead, Store
    <3>2. EntryToStore(task[r][d]) \in Entry
      BY <3>1 DEF EntryToStore, StampToStore, Entry, Stamp, Task
    <3>3. QED
      BY <2>9, <3>2 DEF TypeOK, Store, Task
  <2>10. CASE Fail(r, d)
    BY <2>10 DEF TypeOK, Fail, Task
  <2>11. QED
    BY <1>5, <2>1, <2>2, <2>3, <2>4, <2>5, <2>6, <2>7, <2>8, <2>9, <2>10
       DEF TaskStep
<1>6. ASSUME NEW d \in Docs, NEW c \in Contents, Edit(d, c)
      PROVE  TypeOK'
  BY <1>6, DisturbedType DEF TypeOK, Edit, File
<1>7. ASSUME NEW d \in Docs, Delete(d)
      PROVE  TypeOK'
  BY <1>7, DisturbedType DEF TypeOK, Delete
<1>8. ASSUME NEW d \in Docs, Forget(d)
      PROVE  TypeOK'
  BY <1>8 DEF TypeOK, Forget
<1>9. ASSUME Restart
      PROVE  TypeOK'
  BY <1>9 DEF TypeOK, Restart, Run, NoRun, Task, NoTask, NoTasks
<1>10. ASSUME TornSave
       PROVE  TypeOK'
  BY <1>10 DEF TypeOK, TornSave, EmptyCache, Run, NoRun, Task, NoTask, NoTasks
<1>11. ASSUME UNCHANGED vars
       PROVE  TypeOK'
  BY <1>11 DEF TypeOK, vars
<1>12. QED
  BY <1>1, <1>2, <1>3, <1>4, <1>5, <1>6, <1>7, <1>8, <1>9, <1>10, <1>11
     DEF Next, RunStep, UserStep

----------------------------------------------------------------------------
(* The cache is sound.                                                     *)

\* The history marker changes nothing but the mark and the window of the tasks
\* of d.
LEMMA DisturbedFields ==
  ASSUME TypeOK, NEW d \in Docs, NEW v \in Contents \cup {None}
  PROVE  \A r \in Runs, e \in Docs :
           /\ Disturbed(d, v)[r][e].pc = task[r][e].pc
           /\ Disturbed(d, v)[r][e].stamp = task[r][e].stamp
           /\ Disturbed(d, v)[r][e].text = task[r][e].text
           /\ Disturbed(d, v)[r][e].raced = task[r][e].raced
           /\ e # d => Disturbed(d, v)[r][e].foreign = task[r][e].foreign
           /\ e = d => Disturbed(d, v)[r][e].foreign
<1> SUFFICES ASSUME NEW r \in Runs, NEW e \in Docs
             PROVE  /\ Disturbed(d, v)[r][e].pc = task[r][e].pc
                    /\ Disturbed(d, v)[r][e].stamp = task[r][e].stamp
                    /\ Disturbed(d, v)[r][e].text = task[r][e].text
                    /\ Disturbed(d, v)[r][e].raced = task[r][e].raced
                    /\ e # d => Disturbed(d, v)[r][e].foreign = task[r][e].foreign
                    /\ e = d => Disturbed(d, v)[r][e].foreign
  OBVIOUS
<1> DEFINE new ==
      [task[r][d] EXCEPT !.foreign = TRUE,
                         !.held = IF Working(r, d) THEN @ \cup {v} ELSE {}]
<1>1. task[r] \in [Docs -> Task] /\ task[r][e] \in Task
  BY DEF TypeOK
<1>2. Disturbed(d, v)[r][e] = IF e = d THEN new ELSE task[r][e]
  BY <1>1 DEF Disturbed
<1>3. /\ new.foreign
      /\ new.pc = task[r][d].pc /\ new.stamp = task[r][d].stamp
      /\ new.text = task[r][d].text /\ new.raced = task[r][d].raced
  BY <1>1 DEF TypeOK, Task
<1> HIDE DEF new
<1>4. CASE e = d
  BY <1>2, <1>3, <1>4
<1>5. CASE e # d
  BY <1>2, <1>5
<1>6. QED
  BY <1>4, <1>5

\* The windows on d of the tasks at work grow by v, the others are empty.
LEMMA DisturbedHeld ==
  ASSUME TypeOK, NEW d \in Docs, NEW v \in Contents \cup {None},
         NEW r \in Runs, NEW e \in Docs
  PROVE  /\ e # d => Disturbed(d, v)[r][e].held = task[r][e].held
         /\ e = d /\ Working(r, e) => Disturbed(d, v)[r][e].held = task[r][e].held \cup {v}
         /\ e = d /\ ~ Working(r, e) => Disturbed(d, v)[r][e].held = {}
<1> DEFINE new ==
      [task[r][d] EXCEPT !.foreign = TRUE,
                         !.held = IF Working(r, d) THEN @ \cup {v} ELSE {}]
<1>1. task[r] \in [Docs -> Task] /\ task[r][d] \in Task
  BY DEF TypeOK
<1>2. Disturbed(d, v)[r][e] = IF e = d THEN new ELSE task[r][e]
  BY <1>1 DEF Disturbed
<1>3. new.held = IF Working(r, d) THEN task[r][d].held \cup {v} ELSE {}
  BY <1>1 DEF Task
<1> HIDE DEF new
<1> QED BY <1>2, <1>3

\* A write makes every stamp taken so far one of an older version.
LEMMA NewVersion ==
  ASSUME TypeOK, ClockAhead, EntriesOfVersion(cache), EntriesOfVersion(saved),
         NEW d \in Docs, NEW c \in Contents,
         disk' = [disk EXCEPT ![d] = [content |-> c, mtime |-> clock + 1]],
         clock' = clock + 1, UNCHANGED <<cache, saved>>
  PROVE  /\ \A e \in Docs : disk'[e] # None
                => 0 < disk'[e].mtime /\ disk'[e].mtime <= clock'
         /\ \A e \in Docs : cache'[e] # None => cache'[e].mtime <= clock'
         /\ \A e \in Docs : saved'[e] # None => saved'[e].mtime <= clock'
         /\ EntriesOfVersion(cache)'
         /\ EntriesOfVersion(saved)'
         /\ \A m \in Nat : \A v : m <= clock =>
              \A e \in Docs : OfVersion(m, v, e) => OfVersion(m, v, e)'
<1> USE DEF TypeOK, ClockAhead
<1>1. disk'[d] = [content |-> c, mtime |-> clock + 1]
  OBVIOUS
<1>2. \A e \in Docs : e # d => disk'[e] = disk[e]
  OBVIOUS
<1>3. \A e \in Docs : disk'[e] # None
         => 0 < disk'[e].mtime /\ disk'[e].mtime <= clock'
  <2> SUFFICES ASSUME NEW e \in Docs, disk'[e] # None
               PROVE  0 < disk'[e].mtime /\ disk'[e].mtime <= clock'
    OBVIOUS
  <2>1. CASE e = d
    BY <1>1, <2>1
  <2>2. CASE e # d
    BY <1>2, <2>2 DEF File
  <2>3. QED
    BY <2>1, <2>2
<1>4. \A e \in Docs : cache'[e] # None => cache'[e].mtime <= clock'
  BY DEF Entry
<1>5. \A e \in Docs : saved'[e] # None => saved'[e].mtime <= clock'
  BY DEF Entry
<1>6. \A m \in Nat : \A v : m <= clock =>
        \A e \in Docs : OfVersion(m, v, e) => OfVersion(m, v, e)'
  BY <1>1, <1>2 DEF OfVersion
<1>7. EntriesOfVersion(cache)'
  BY <1>6 DEF EntriesOfVersion, Entry
<1>8. EntriesOfVersion(saved)'
  BY <1>6 DEF EntriesOfVersion, Entry
<1>9. QED
  BY <1>3, <1>4, <1>5, <1>6, <1>7, <1>8

\* To show TasksOfVersion after a step of one task it is enough to look at
\* that task, if the files stay as they are.
LEMMA OneTaskVersion ==
  ASSUME TasksOfVersion, NEW r \in Runs, NEW d \in Docs, disk' = disk,
         \A s \in Runs, e \in Docs :
           s # r \/ e # d => task'[s][e] = task[s][e],
         /\ task'[r][d].pc \in {"lint", "write", "store", "done"}
         /\ task'[r][d].text # Failed
         /\ task'[r][d].stamp # None /\ ~ task'[r][d].raced
         => OfVersion(task'[r][d].stamp.mtime, task'[r][d].text, d)
  PROVE  TasksOfVersion'
<1>1. \A m, v, e : OfVersion(m, v, e)' <=> OfVersion(m, v, e)
  BY DEF OfVersion
<1>2. SUFFICES ASSUME NEW s \in Runs, NEW e \in Docs,
                      /\ task'[s][e].pc \in {"lint", "write", "store", "done"}
                      /\ task'[s][e].text # Failed
                      /\ task'[s][e].stamp # None /\ ~ task'[s][e].raced
               PROVE  OfVersion(task'[s][e].stamp.mtime, task'[s][e].text, e)
  BY <1>1 DEF TasksOfVersion
<1>3. CASE s = r /\ e = d
  BY <1>2, <1>3
<1>4. CASE s # r \/ e # d
  BY <1>2, <1>4 DEF TasksOfVersion
<1>5. QED
  BY <1>3, <1>4

\* Every step keeps stamps, texts and entries with the versions they belong to.
LEMMA NextVersionInv == VersionInv /\ [Next]_vars => VersionInv'
<1> SUFFICES ASSUME TypeOK, TextRead, ClockAhead, EntriesOfVersion(cache),
                    EntriesOfVersion(saved), TasksOfVersion, FixesInPlace,
                    [Next]_vars
             PROVE  VersionInv'
  BY DEF VersionInv
<1> USE DEF VersionInv
<1>1. TypeOK'
  BY NextTypeOK
<1>2. ASSUME NEW r \in Runs, NEW docs \in SUBSET Docs, NEW fix \in BOOLEAN,
             Start(r, docs, fix)
      PROVE  VersionInv'
  <2>1. TextRead'
    BY <1>2 DEF TypeOK, Start, QueuedTask, NoTask, TextRead
  <2>2. ClockAhead'
    BY <1>2 DEF TypeOK, Start, QueuedTask, NoTask, ClockAhead
  <2>3. EntriesOfVersion(cache)'
    BY <1>2 DEF TypeOK, Start, QueuedTask, NoTask, EntriesOfVersion, OfVersion
  <2>4. EntriesOfVersion(saved)'
    BY <1>2 DEF TypeOK, Start, QueuedTask, NoTask, EntriesOfVersion, OfVersion
  <2>5. TasksOfVersion'
    BY <1>2 DEF TypeOK, Start, QueuedTask, NoTask, TasksOfVersion, OfVersion
  <2>6. FixesInPlace'
    BY <1>2 DEF TypeOK, Start, QueuedTask, NoTask, FixesInPlace
  <2>7. QED
    BY <1>1, <2>1, <2>2, <2>3, <2>4, <2>5, <2>6
<1>3. ASSUME NEW r \in Runs, NEW k \in Docs, PruneKey(r, k)
      PROVE  VersionInv'
  <2>1. TextRead'
    BY <1>3 DEF TypeOK, PruneKey, TextRead
  <2>2. ClockAhead'
    BY <1>3 DEF TypeOK, PruneKey, ClockAhead
  <2>3. EntriesOfVersion(cache)'
    BY <1>3 DEF TypeOK, PruneKey, EntriesOfVersion, OfVersion
  <2>4. EntriesOfVersion(saved)'
    BY <1>3 DEF TypeOK, PruneKey, EntriesOfVersion, OfVersion
  <2>5. TasksOfVersion'
    BY <1>3 DEF TypeOK, PruneKey, TasksOfVersion, OfVersion
  <2>6. FixesInPlace'
    BY <1>3 DEF TypeOK, PruneKey, FixesInPlace
  <2>7. QED
    BY <1>1, <2>1, <2>2, <2>3, <2>4, <2>5, <2>6
<1>4. ASSUME NEW r \in Runs, EndPrune(r)
      PROVE  VersionInv'
  <2>1. TextRead'
    BY <1>4 DEF TypeOK, EndPrune, TextRead
  <2>2. ClockAhead'
    BY <1>4 DEF TypeOK, EndPrune, ClockAhead
  <2>3. EntriesOfVersion(cache)'
    BY <1>4 DEF TypeOK, EndPrune, EntriesOfVersion, OfVersion
  <2>4. EntriesOfVersion(saved)'
    BY <1>4 DEF TypeOK, EndPrune, EntriesOfVersion, OfVersion
  <2>5. TasksOfVersion'
    BY <1>4 DEF TypeOK, EndPrune, TasksOfVersion, OfVersion
  <2>6. FixesInPlace'
    BY <1>4 DEF TypeOK, EndPrune, FixesInPlace
  <2>7. QED
    BY <1>1, <2>1, <2>2, <2>3, <2>4, <2>5, <2>6
<1>5. ASSUME NEW r \in Runs, Save(r)
      PROVE  VersionInv'
  <2>1. TextRead'
    BY <1>5 DEF TypeOK, Save, NoTasks, NoTask, TextRead
  <2>2. ClockAhead'
    BY <1>5 DEF TypeOK, Save, NoTasks, NoTask, ClockAhead
  <2>3. EntriesOfVersion(cache)'
    BY <1>5 DEF TypeOK, Save, NoTasks, NoTask, EntriesOfVersion, OfVersion
  <2>4. EntriesOfVersion(saved)'
    BY <1>5 DEF TypeOK, Save, NoTasks, NoTask, EntriesOfVersion, OfVersion
  <2>5. TasksOfVersion'
    BY <1>5 DEF TypeOK, Save, NoTasks, NoTask, TasksOfVersion, OfVersion
  <2>6. FixesInPlace'
    BY <1>5 DEF TypeOK, Save, NoTasks, NoTask, FixesInPlace
  <2>7. QED
    BY <1>1, <2>1, <2>2, <2>3, <2>4, <2>5, <2>6
<1>6. ASSUME NEW r \in Runs, NEW d \in Docs, TaskStep(r, d)
      PROVE  VersionInv'
  <2>1. CASE Stat(r, d)
    <3>1. TextRead'
      BY <2>1 DEF TypeOK, Stat, StatOf, TextRead
    <3>2. ClockAhead'
      BY <2>1 DEF TypeOK, Stat, StatOf, ClockAhead
    <3>3. EntriesOfVersion(cache)'
      BY <2>1 DEF TypeOK, Stat, StatOf, EntriesOfVersion, OfVersion
    <3>4. EntriesOfVersion(saved)'
      BY <2>1 DEF TypeOK, Stat, StatOf, EntriesOfVersion, OfVersion
    <3>5. TasksOfVersion'
      BY <2>1 DEF TypeOK, Stat, StatOf, TasksOfVersion, OfVersion
    <3>6. FixesInPlace'
      BY <2>1 DEF TypeOK, Stat, StatOf, FixesInPlace
    <3>7. QED
      BY <1>1, <3>1, <3>2, <3>3, <3>4, <3>5, <3>6
  <2>2. CASE Hit(r, d)
    <3>1. TextRead'
      BY <2>2 DEF TypeOK, Hit, IsCacheValid, TextRead
    <3>2. ClockAhead'
      BY <2>2 DEF TypeOK, Hit, IsCacheValid, ClockAhead
    <3>3. EntriesOfVersion(cache)'
      BY <2>2 DEF TypeOK, Hit, IsCacheValid, EntriesOfVersion, OfVersion
    <3>4. EntriesOfVersion(saved)'
      BY <2>2 DEF TypeOK, Hit, IsCacheValid, EntriesOfVersion, OfVersion
    <3>5. TasksOfVersion'
      <4>1. /\ disk' = disk
            /\ \A s \in Runs, e \in Docs :
                 s # r \/ e # d => task'[s][e] = task[s][e]
        BY <2>2 DEF Hit, TypeOK
      <4>2. ~ task'[r][d].raced
              => OfVersion(task'[r][d].stamp.mtime, task'[r][d].text, d)
        <5>1. /\ task'[r][d].raced = cache[d].raced
              /\ task'[r][d].text = cache[d].result
              /\ task'[r][d].stamp = task[r][d].stamp
          BY <2>2 DEF Hit, TypeOK, Task
        <5>2. cache[d] # None /\ cache[d].mtime = task[r][d].stamp.mtime
          BY <2>2 DEF Hit, IsCacheValid
        <5>3. QED
          BY <5>1, <5>2 DEF EntriesOfVersion
      <4>3. QED
        BY <4>1, <4>2, OneTaskVersion
    <3>6. FixesInPlace'
      BY <2>2 DEF TypeOK, Hit, IsCacheValid, FixesInPlace
    <3>7. QED
      BY <1>1, <3>1, <3>2, <3>3, <3>4, <3>5, <3>6
  <2>3. CASE Miss(r, d)
    <3>1. TextRead'
      BY <2>3 DEF TypeOK, Miss, TextRead
    <3>2. ClockAhead'
      BY <2>3 DEF TypeOK, Miss, ClockAhead
    <3>3. EntriesOfVersion(cache)'
      BY <2>3 DEF TypeOK, Miss, EntriesOfVersion, OfVersion
    <3>4. EntriesOfVersion(saved)'
      BY <2>3 DEF TypeOK, Miss, EntriesOfVersion, OfVersion
    <3>5. TasksOfVersion'
      BY <2>3, SMTT(30) DEF TypeOK, Miss, TasksOfVersion, OfVersion
    <3>6. FixesInPlace'
      BY <2>3 DEF TypeOK, Miss, FixesInPlace
    <3>7. QED
      BY <1>1, <3>1, <3>2, <3>3, <3>4, <3>5, <3>6
  <2>4. CASE Read(r, d)
    <3>1. TextRead'
      BY <2>4 DEF TypeOK, Read, File, Task, TextRead
    <3>2. ClockAhead'
      BY <2>4 DEF TypeOK, Read, ClockAhead
    <3>3. EntriesOfVersion(cache)'
      BY <2>4 DEF TypeOK, Read, EntriesOfVersion, OfVersion
    <3>4. EntriesOfVersion(saved)'
      BY <2>4 DEF TypeOK, Read, EntriesOfVersion, OfVersion
    <3>5. TasksOfVersion'
      BY <2>4 DEF TypeOK, Read, TasksOfVersion, OfVersion
    <3>6. FixesInPlace'
      BY <2>4 DEF TypeOK, Read, FixesInPlace
    <3>7. QED
      BY <1>1, <3>1, <3>2, <3>3, <3>4, <3>5, <3>6
  <2>5. CASE Lint(r, d)
    <3>1. TextRead'
      BY <2>5 DEF TypeOK, Lint, TextRead
    <3>2. ClockAhead'
      BY <2>5 DEF TypeOK, Lint, ClockAhead
    <3>3. EntriesOfVersion(cache)'
      BY <2>5 DEF TypeOK, Lint, EntriesOfVersion, OfVersion
    <3>4. EntriesOfVersion(saved)'
      BY <2>5 DEF TypeOK, Lint, EntriesOfVersion, OfVersion
    <3>5. TasksOfVersion'
      <4>1. /\ disk' = disk
            /\ \A s \in Runs, e \in Docs :
                 s # r \/ e # d => task'[s][e] = task[s][e]
        BY <2>5 DEF Lint, TypeOK
      <4>2. /\ task[r][d].pc = "lint"
            /\ task'[r][d].text = task[r][d].text
            /\ task'[r][d].stamp = task[r][d].stamp
            /\ task'[r][d].raced = task[r][d].raced
        BY <2>5 DEF Lint, TypeOK, Task
      <4>3. QED
        BY <4>1, <4>2, OneTaskVersion DEF TasksOfVersion
    <3>6. FixesInPlace'
      BY <2>5 DEF TypeOK, Lint, FixesInPlace
    <3>7. QED
      BY <1>1, <3>1, <3>2, <3>3, <3>4, <3>5, <3>6
  <2>6. CASE Write(r, d)
    <3> DEFINE output == Fixed[task[r][d].text]
               t == [task[r][d] EXCEPT !.pc = "relint", !.text = output,
                                       !.foreign = FALSE,
                                       !.held = @ \cup {output}]
    <3>1. /\ output \in Contents
          /\ disk' = [disk EXCEPT ![d] = [content |-> output, mtime |-> clock + 1]]
          /\ clock' = clock + 1
          /\ task' = [Disturbed(d, output) EXCEPT ![r][d] = t]
          /\ UNCHANGED <<cache, saved>>
      BY <2>6 DEF Write, TextRead
    <3> HIDE DEF output
    <3>2. /\ t.pc = "relint" /\ t.text = output /\ ~ t.foreign
          /\ t.stamp = task[r][d].stamp
          /\ task'[r][d] = t
      BY <3>1, DisturbedType DEF TypeOK, Task
    <3> HIDE DEF t
    <3>3. \A s \in Runs, e \in Docs : s # r \/ e # d =>
            task'[s][e] = Disturbed(d, output)[s][e]
      BY <3>1, DisturbedType
    <3>4. \A s \in Runs, e \in Docs : s # r \/ e # d =>
            /\ task'[s][e].pc = task[s][e].pc
            /\ task'[s][e].stamp = task[s][e].stamp
            /\ task'[s][e].text = task[s][e].text
            /\ task'[s][e].raced = task[s][e].raced
            /\ e # d => task'[s][e].foreign = task[s][e].foreign
            /\ e = d => task'[s][e].foreign
      BY <3>1, <3>3, DisturbedFields
    <3>5. TextRead'
      BY <3>1, <3>2, <3>4 DEF TextRead
    <3>6. ClockAhead'
      <4>1. \A s \in Runs, e \in Docs : task'[s][e].stamp = task[s][e].stamp
        BY <3>2, <3>4
      <4>2. \A s \in Runs, e \in Docs :
              task'[s][e].stamp # None => task'[s][e].stamp.mtime <= clock'
        BY <3>1, <4>1 DEF ClockAhead, TypeOK, Task, Stamp
      <4>3. QED
        BY <3>1, <4>2, NewVersion DEF ClockAhead
    <3>7. EntriesOfVersion(cache)' /\ EntriesOfVersion(saved)'
      BY <3>1, NewVersion
    <3>8. TasksOfVersion'
      <4>1. \A m \in Nat : \A v : m <= clock =>
              \A e \in Docs : OfVersion(m, v, e) => OfVersion(m, v, e)'
        BY <3>1, NewVersion
      <4>2. QED
        BY <3>2, <3>4, <4>1 DEF TasksOfVersion, ClockAhead, TypeOK, Task, Stamp
    <3>9. FixesInPlace'
      <4>1. disk'[d] = [content |-> output, mtime |-> clock + 1]
            /\ \A e \in Docs : e # d => disk'[e] = disk[e]
        BY <3>1 DEF TypeOK
      <4>2. disk'[d] # None /\ disk'[d].content = task'[r][d].text
        BY <3>1, <3>2, <4>1, NoneAssumption DEF File, TypeOK
      <4>3. ASSUME NEW s \in Runs, NEW e \in Docs, s # r \/ e # d,
                   task'[s][e].pc \in {"relint", "restat"},
                   ~ task'[s][e].foreign
            PROVE  disk'[e] # None /\ disk'[e].content = task'[s][e].text
        BY <3>4, <4>1, <4>3 DEF FixesInPlace
      <4>4. QED
        BY <4>2, <4>3 DEF FixesInPlace
    <3>10. QED
      BY <1>1, <3>5, <3>6, <3>7, <3>8, <3>9
  <2>7. CASE Relint(r, d)
    <3>1. TextRead'
      BY <2>7 DEF TypeOK, Relint, TextRead
    <3>2. ClockAhead'
      BY <2>7 DEF TypeOK, Relint, ClockAhead
    <3>3. EntriesOfVersion(cache)'
      BY <2>7 DEF TypeOK, Relint, EntriesOfVersion, OfVersion
    <3>4. EntriesOfVersion(saved)'
      BY <2>7 DEF TypeOK, Relint, EntriesOfVersion, OfVersion
    <3>5. TasksOfVersion'
      BY <2>7, SMTT(30) DEF TypeOK, Relint, TasksOfVersion, OfVersion
    <3>6. FixesInPlace'
      BY <2>7 DEF TypeOK, Relint, FixesInPlace
    <3>7. QED
      BY <1>1, <3>1, <3>2, <3>3, <3>4, <3>5, <3>6
  <2>8. CASE Restat(r, d)
    <3>1. TextRead'
      BY <2>8 DEF TypeOK, Restat, StatOf, TextRead
    <3>2. ClockAhead'
      BY <2>8 DEF TypeOK, Restat, StatOf, ClockAhead
    <3>3. EntriesOfVersion(cache)'
      BY <2>8 DEF TypeOK, Restat, StatOf, EntriesOfVersion, OfVersion
    <3>4. EntriesOfVersion(saved)'
      BY <2>8 DEF TypeOK, Restat, StatOf, EntriesOfVersion, OfVersion
    <3>5. TasksOfVersion'
      <4>1. /\ disk' = disk
            /\ \A s \in Runs, e \in Docs :
                 s # r \/ e # d => task'[s][e] = task[s][e]
        BY <2>8 DEF Restat, TypeOK
      <4>2. ~ task'[r][d].raced
              => OfVersion(task'[r][d].stamp.mtime, task'[r][d].text, d)
        BY <2>8 DEF Restat, StatOf, FixesInPlace, OfVersion, TypeOK, Task
      <4>3. QED
        BY <4>1, <4>2, OneTaskVersion
    <3>6. FixesInPlace'
      BY <2>8 DEF TypeOK, Restat, StatOf, FixesInPlace
    <3>7. QED
      BY <1>1, <3>1, <3>2, <3>3, <3>4, <3>5, <3>6
  <2>9. CASE Store(r, d)
    <3>1. TextRead'
      BY <2>9 DEF TypeOK, Store, EntryToStore, StampToStore, TextRead
    <3>2. ClockAhead'
      BY <2>9 DEF TypeOK, Store, EntryToStore, StampToStore, ClockAhead
    <3>3. EntriesOfVersion(cache)'
      <4> DEFINE t == task[r][d]
      <4>1. t.stamp = None =>
              OfVersion(EntryToStore(t).mtime, EntryToStore(t).result, d)
        BY DEF EntryToStore, StampToStore, OfVersion, ClockAhead
      <4>2. t.stamp # None /\ ~ t.raced =>
              OfVersion(EntryToStore(t).mtime, EntryToStore(t).result, d)
        <5>1. t.text # Failed
          BY <2>9, FailedAssumption DEF Store, TextRead
        <5>2. QED
          BY <2>9, <5>1 DEF Store, EntryToStore, StampToStore, TasksOfVersion
      <4>3. ~ EntryToStore(t).raced =>
              OfVersion(EntryToStore(t).mtime, EntryToStore(t).result, d)
        BY <4>1, <4>2 DEF EntryToStore
      <4>4. QED
        BY <2>9, <4>3 DEF Store, TypeOK, EntriesOfVersion, OfVersion
    <3>4. EntriesOfVersion(saved)'
      BY <2>9 DEF TypeOK, Store, EntryToStore, StampToStore, EntriesOfVersion, OfVersion
    <3>5. TasksOfVersion'
      BY <2>9 DEF TypeOK, Store, EntryToStore, StampToStore, TasksOfVersion, OfVersion
    <3>6. FixesInPlace'
      BY <2>9 DEF TypeOK, Store, EntryToStore, StampToStore, FixesInPlace
    <3>7. QED
      BY <1>1, <3>1, <3>2, <3>3, <3>4, <3>5, <3>6
  <2>10. CASE Fail(r, d)
    <3>1. TextRead'
      BY <2>10 DEF TypeOK, Fail, TextRead
    <3>2. ClockAhead'
      BY <2>10 DEF TypeOK, Fail, ClockAhead
    <3>3. EntriesOfVersion(cache)'
      BY <2>10 DEF TypeOK, Fail, EntriesOfVersion, OfVersion
    <3>4. EntriesOfVersion(saved)'
      BY <2>10 DEF TypeOK, Fail, EntriesOfVersion, OfVersion
    <3>5. TasksOfVersion'
      <4>1. /\ disk' = disk
            /\ \A s \in Runs, e \in Docs :
                 s # r \/ e # d => task'[s][e] = task[s][e]
        BY <2>10 DEF Fail, TypeOK
      <4>2. task'[r][d].text = Failed
        BY <2>10 DEF Fail, TypeOK, Task
      <4>3. QED
        BY <4>1, <4>2, OneTaskVersion
    <3>6. FixesInPlace'
      BY <2>10 DEF TypeOK, Fail, FixesInPlace
    <3>7. QED
      BY <1>1, <3>1, <3>2, <3>3, <3>4, <3>5, <3>6
  <2>11. QED
    BY <1>6, <2>1, <2>2, <2>3, <2>4, <2>5, <2>6, <2>7, <2>8, <2>9, <2>10
       DEF TaskStep
<1>7. ASSUME NEW d \in Docs, NEW c \in Contents, Edit(d, c)
      PROVE  VersionInv'
  <2>1. /\ disk' = [disk EXCEPT ![d] = [content |-> c, mtime |-> clock + 1]]
        /\ clock' = clock + 1
        /\ task' = Disturbed(d, c)
        /\ UNCHANGED <<cache, saved>>
    BY <1>7 DEF Edit
  <2>2. \A s \in Runs, e \in Docs :
           /\ task'[s][e].pc = task[s][e].pc
           /\ task'[s][e].stamp = task[s][e].stamp
           /\ task'[s][e].text = task[s][e].text
           /\ task'[s][e].raced = task[s][e].raced
           /\ e # d => task'[s][e].foreign = task[s][e].foreign
           /\ e = d => task'[s][e].foreign
    BY <2>1, DisturbedFields
  <2>3. TextRead'
    BY <2>2 DEF TextRead
  <2>4. ClockAhead'
    <3>1. \A s \in Runs, e \in Docs :
            task'[s][e].stamp # None => task'[s][e].stamp.mtime <= clock'
      BY <2>1, <2>2 DEF ClockAhead, TypeOK, Task, Stamp
    <3>2. QED
      BY <2>1, <3>1, NewVersion DEF ClockAhead
  <2>5. EntriesOfVersion(cache)' /\ EntriesOfVersion(saved)'
    BY <2>1, NewVersion
  <2>6. TasksOfVersion'
    <3>1. \A m \in Nat : \A v : m <= clock =>
            \A e \in Docs : OfVersion(m, v, e) => OfVersion(m, v, e)'
      BY <2>1, NewVersion
    <3>2. QED
      BY <2>2, <3>1 DEF TasksOfVersion, ClockAhead, TypeOK, Task, Stamp
  <2>7. FixesInPlace'
    BY <2>1, <2>2, SMTT(30) DEF FixesInPlace, TypeOK
  <2>8. QED
    BY <1>1, <2>3, <2>4, <2>5, <2>6, <2>7
<1>8. ASSUME NEW d \in Docs, Delete(d)
      PROVE  VersionInv'
  <2>1. /\ disk' = [disk EXCEPT ![d] = None]
        /\ task' = Disturbed(d, None)
        /\ UNCHANGED <<clock, cache, saved>>
    BY <1>8 DEF Delete
  <2>2. \A s \in Runs, e \in Docs :
           /\ task'[s][e].pc = task[s][e].pc
           /\ task'[s][e].stamp = task[s][e].stamp
           /\ task'[s][e].text = task[s][e].text
           /\ task'[s][e].raced = task[s][e].raced
           /\ e # d => task'[s][e].foreign = task[s][e].foreign
           /\ e = d => task'[s][e].foreign
    BY <2>1, DisturbedFields
  <2>3. TextRead'
    BY <2>2 DEF TextRead
  <2>4. ClockAhead'
    BY <2>1, <2>2 DEF ClockAhead, TypeOK
  <2>5. EntriesOfVersion(cache)' /\ EntriesOfVersion(saved)'
    BY <2>1 DEF EntriesOfVersion, OfVersion, TypeOK
  <2>6. TasksOfVersion'
    <3>1. \A e \in Docs : \A m, v : OfVersion(m, v, e) => OfVersion(m, v, e)'
      BY <2>1 DEF OfVersion, TypeOK
    <3>2. QED
      BY <2>2, <3>1 DEF TasksOfVersion
  <2>7. FixesInPlace'
    <3>1. \A e \in Docs : e # d => disk'[e] = disk[e]
      BY <2>1 DEF TypeOK
    <3>2. QED
      BY <2>2, <3>1 DEF FixesInPlace
  <2>8. QED
    BY <1>1, <2>3, <2>4, <2>5, <2>6, <2>7
<1>9. ASSUME NEW d \in Docs, Forget(d)
      PROVE  VersionInv'
  <2>1. TextRead'
    BY <1>9 DEF TypeOK, Forget, TextRead
  <2>2. ClockAhead'
    BY <1>9 DEF TypeOK, Forget, ClockAhead
  <2>3. EntriesOfVersion(cache)'
    BY <1>9 DEF TypeOK, Forget, EntriesOfVersion, OfVersion
  <2>4. EntriesOfVersion(saved)'
    BY <1>9 DEF TypeOK, Forget, EntriesOfVersion, OfVersion
  <2>5. TasksOfVersion'
    BY <1>9 DEF TypeOK, Forget, TasksOfVersion, OfVersion
  <2>6. FixesInPlace'
    BY <1>9 DEF TypeOK, Forget, FixesInPlace
  <2>7. QED
    BY <1>1, <2>1, <2>2, <2>3, <2>4, <2>5, <2>6
<1>10. ASSUME Restart
      PROVE  VersionInv'
  <2>1. TextRead'
    BY <1>10 DEF TypeOK, Restart, NoTasks, NoTask, TextRead
  <2>2. ClockAhead'
    BY <1>10 DEF TypeOK, Restart, NoTasks, NoTask, ClockAhead
  <2>3. EntriesOfVersion(cache)'
    BY <1>10 DEF TypeOK, Restart, NoTasks, NoTask, EntriesOfVersion, OfVersion
  <2>4. EntriesOfVersion(saved)'
    BY <1>10 DEF TypeOK, Restart, NoTasks, NoTask, EntriesOfVersion, OfVersion
  <2>5. TasksOfVersion'
    BY <1>10 DEF TypeOK, Restart, NoTasks, NoTask, TasksOfVersion, OfVersion
  <2>6. FixesInPlace'
    BY <1>10 DEF TypeOK, Restart, NoTasks, NoTask, FixesInPlace
  <2>7. QED
    BY <1>1, <2>1, <2>2, <2>3, <2>4, <2>5, <2>6
<1>11. ASSUME TornSave
      PROVE  VersionInv'
  <2>1. TextRead'
    BY <1>11 DEF TypeOK, TornSave, EmptyCache, NoTasks, NoTask, TextRead
  <2>2. ClockAhead'
    BY <1>11 DEF TypeOK, TornSave, EmptyCache, NoTasks, NoTask, ClockAhead
  <2>3. EntriesOfVersion(cache)'
    BY <1>11 DEF TypeOK, TornSave, EmptyCache, NoTasks, NoTask, EntriesOfVersion, OfVersion
  <2>4. EntriesOfVersion(saved)'
    BY <1>11 DEF TypeOK, TornSave, EmptyCache, NoTasks, NoTask, EntriesOfVersion, OfVersion
  <2>5. TasksOfVersion'
    BY <1>11 DEF TypeOK, TornSave, EmptyCache, NoTasks, NoTask, TasksOfVersion, OfVersion
  <2>6. FixesInPlace'
    BY <1>11 DEF TypeOK, TornSave, EmptyCache, NoTasks, NoTask, FixesInPlace
  <2>7. QED
    BY <1>1, <2>1, <2>2, <2>3, <2>4, <2>5, <2>6
<1>12. ASSUME UNCHANGED vars
      PROVE  VersionInv'
  <2>1. TextRead'
    BY <1>12 DEF TypeOK, vars, TextRead
  <2>2. ClockAhead'
    BY <1>12 DEF TypeOK, vars, ClockAhead
  <2>3. EntriesOfVersion(cache)'
    BY <1>12 DEF TypeOK, vars, EntriesOfVersion, OfVersion
  <2>4. EntriesOfVersion(saved)'
    BY <1>12 DEF TypeOK, vars, EntriesOfVersion, OfVersion
  <2>5. TasksOfVersion'
    BY <1>12 DEF TypeOK, vars, TasksOfVersion, OfVersion
  <2>6. FixesInPlace'
    BY <1>12 DEF TypeOK, vars, FixesInPlace
  <2>7. QED
    BY <1>1, <2>1, <2>2, <2>3, <2>4, <2>5, <2>6
<1>13. QED
  BY <1>2, <1>3, <1>4, <1>5, <1>6, <1>7, <1>8, <1>9, <1>10, <1>11, <1>12
     DEF Next, RunStep, UserStep

\* Initially there is no stamp, no text and no entry.
LEMMA InitVersionInv == Init => VersionInv
<1>1. Init => TypeOK
  BY InitTypeOK
<1>2. Init => TextRead /\ ClockAhead /\ TasksOfVersion /\ FixesInPlace
  BY DEF Init, NoTasks, NoTask, EmptyCache, TextRead, ClockAhead,
         TasksOfVersion, FixesInPlace
<1>3. Init => EntriesOfVersion(cache) /\ EntriesOfVersion(saved)
  BY DEF Init, EmptyCache, EntriesOfVersion
<1>4. QED
  BY <1>1, <1>2, <1>3 DEF VersionInv

\* The invariant that explains the cache: whatever has taken the stamp of the
\* file's present version holds that version's content.
THEOREM VersionTheorem == Spec => []VersionInv
<1>1. VersionInv /\ [Next]_vars => VersionInv'
  BY NextVersionInv
<1>2. QED
  BY <1>1, InitVersionInv, PTL DEF Spec

\* Every variable of the cache and of its tasks keeps its type.
THEOREM TypeTheorem == Spec => []TypeOK
<1>1. VersionInv => TypeOK
  BY DEF VersionInv
<1>2. QED
  BY <1>1, VersionTheorem, PTL

\* No entry, in memory or in the cache file, is accepted for a content it was
\* not made from, but for the entry of a fix that was overtaken by a writer.
THEOREM CacheSoundTheorem == Spec => []CacheSound
<1>1. VersionInv => CacheSound
  BY DEF VersionInv, CacheSound, SoundEntries, EntriesOfVersion, OfVersion,
         Current
<1>2. QED
  BY <1>1, VersionTheorem, PTL

\* A result describes the version of the file its stamp names.
THEOREM ResultSoundTheorem == Spec => []ResultSound
<1>1. VersionInv => ResultSound
  BY DEF VersionInv, ResultSound, TasksOfVersion, OfVersion, Current
<1>2. QED
  BY <1>1, VersionTheorem, PTL

----------------------------------------------------------------------------
(* The windows: what a task at work may answer with is in its window.      *)

\* A step of one task keeps them if that task's new window has what it needs
\* and what it is about to store suits the others.
LEMMA HeldOneTask ==
  ASSUME TypeOK, HeldInv, NEW r \in Runs, NEW d \in Docs, NEW t \in Task,
         task' = [task EXCEPT ![r][d] = t], disk' = disk,
         IF t.pc \in {"none", "queued", "done"} THEN t.held = {} ELSE Holds(d) \in t.held,
         t.pc \in {"lint", "write", "relint", "restat", "store"} => t.text \in t.held,
         t.stamp # None => 0 < t.stamp.mtime,
         t.pc = "get" /\ t.stamp # None =>
           /\ /\ cache[d] # None /\ ~ cache[d].raced
              /\ cache[d].mtime = t.stamp.mtime
              => cache[d].result \in t.held
           /\ \A s \in Runs \ {r} :
                /\ task[s][d].pc \in {"lint", "write", "store"}
                /\ task[s][d].stamp # None /\ ~ task[s][d].raced
                /\ task[s][d].stamp.mtime = t.stamp.mtime
                => task[s][d].text \in t.held,
         t.pc \in {"lint", "write", "store"} /\ t.stamp # None =>
           \A s \in Runs \ {r} : Answerable(s, d, t.stamp.mtime, t.raced, t.text),
         \/ cache' = cache
         \/ /\ \A e \in Docs \ {d} : cache'[e] = cache[e]
            /\ t.pc = "done"
            /\ cache'[d] # None => \A s \in Runs \ {r} :
                 Answerable(s, d, cache'[d].mtime, cache'[d].raced, cache'[d].result)
  PROVE  HeldInv'
<1>1. /\ task'[r][d] = t
      /\ \A s \in Runs, e \in Docs : s # r \/ e # d => task'[s][e] = task[s][e]
      /\ \A e \in Docs : Holds(e)' = Holds(e)
  BY DEF TypeOK, Holds
<1>2. \A s \in Runs, e \in Docs : \A m, ra, c :
        s # r \/ e # d => (Answerable(s, e, m, ra, c)' <=> Answerable(s, e, m, ra, c))
  BY <1>1 DEF Answerable
<1>3. WindowsOpen'
  BY <1>1 DEF HeldInv, WindowsOpen, Working
<1>4. TextsHeld' /\ StampsPositive'
  BY <1>1 DEF HeldInv, TextsHeld, StampsPositive
<1>5. EntriesAnswerable'
  <2> SUFFICES ASSUME NEW s \in Runs, NEW e \in Docs, cache'[e] # None
               PROVE  Answerable(s, e, cache[e].mtime, cache[e].raced, cache[e].result)'
    BY DEF EntriesAnswerable
  <2>1. CASE s = r /\ e = d
    BY <1>1, <2>1 DEF Answerable
  <2>2. CASE (s # r \/ e # d) /\ cache'[e] = cache[e]
    BY <1>2, <2>2 DEF HeldInv, EntriesAnswerable
  <2>3. CASE s # r /\ e = d /\ cache'[e] # cache[e]
    BY <1>2, <2>3
  <2> QED BY <2>1, <2>2, <2>3
<1>6. StoresAnswerable'
  <2> SUFFICES ASSUME NEW s \in Runs, NEW q \in Runs, NEW e \in Docs,
                      task'[q][e].pc \in {"lint", "write", "store"}, task'[q][e].stamp # None
               PROVE  Answerable(s, e, task[q][e].stamp.mtime, task[q][e].raced,
                                 task[q][e].text)'
    BY DEF StoresAnswerable
  <2>1. CASE s = r /\ q = r /\ e = d
    BY <1>1, <2>1 DEF Answerable
  <2>2. CASE s = r /\ q # r /\ e = d
    BY <1>1, <2>2 DEF Answerable
  <2>3. CASE s # r /\ q = r /\ e = d
    BY <1>1, <1>2, <2>3
  <2>4. CASE (s # r \/ e # d) /\ (q # r \/ e # d)
    BY <1>1, <1>2, <2>4 DEF HeldInv, StoresAnswerable
  <2> QED BY <2>1, <2>2, <2>3, <2>4
<1> QED BY <1>3, <1>4, <1>5, <1>6 DEF HeldInv

\* A file changes: the windows on it grow, and a task may start to relint.
LEMMA HeldChange ==
  ASSUME HeldInv, NEW d \in Docs, NEW v, cache' = cache,
         \A e \in Docs : Holds(e)' = IF e = d THEN v ELSE Holds(e),
         \A s \in Runs, e \in Docs :
           /\ task'[s][e].stamp = task[s][e].stamp
           /\ task'[s][e].raced = task[s][e].raced
           /\ e # d => task'[s][e].held = task[s][e].held
           /\ e = d /\ Working(s, e) => task'[s][e].held = task[s][e].held \cup {v}
           /\ e = d /\ ~ Working(s, e) => task'[s][e].held = {}
           /\ \/ task'[s][e].pc = task[s][e].pc /\ task'[s][e].text = task[s][e].text
              \/ /\ task'[s][e].pc = "relint" /\ task'[s][e].text = v
                 /\ e = d /\ Working(s, e)
  PROVE  HeldInv'
<1>1. \A s \in Runs, e \in Docs : Working(s, e)' <=> Working(s, e)
  BY DEF Working
<1>2. WindowsOpen'
  <2> SUFFICES ASSUME NEW s \in Runs, NEW e \in Docs
               PROVE  IF Working(s, e)' THEN Holds(e)' \in task'[s][e].held
                      ELSE task'[s][e].held = {}
    BY DEF WindowsOpen
  <2>1. CASE e = d
    BY <1>1, <2>1
  <2>2. CASE e # d
    <3>1. IF Working(s, e) THEN Holds(e) \in task[s][e].held ELSE task[s][e].held = {}
      BY DEF HeldInv, WindowsOpen
    <3>2. task'[s][e].held = task[s][e].held /\ Holds(e)' = Holds(e)
      BY <2>2
    <3> QED BY <1>1, <3>1, <3>2
  <2> QED BY <2>1, <2>2
<1>3. TextsHeld'
  <2> SUFFICES ASSUME NEW s \in Runs, NEW e \in Docs,
                      task'[s][e].pc \in {"lint", "write", "relint", "restat", "store"}
               PROVE  task'[s][e].text \in task'[s][e].held
    BY DEF TextsHeld
  <2>1. CASE task'[s][e].pc = task[s][e].pc /\ task'[s][e].text = task[s][e].text
    <3>1. task[s][e].text \in task[s][e].held /\ Working(s, e)
      BY <2>1 DEF HeldInv, TextsHeld, Working
    <3> QED BY <2>1, <3>1
  <2>2. CASE task'[s][e].text = v /\ e = d /\ Working(s, e)
    BY <2>2
  <2> QED BY <2>1, <2>2
<1>4. StampsPositive'
  BY DEF HeldInv, StampsPositive
<1>5. \A s \in Runs, e \in Docs : \A m, ra, c :
        Answerable(s, e, m, ra, c) => Answerable(s, e, m, ra, c)'
  BY DEF Answerable, Working
<1>6. EntriesAnswerable'
  BY <1>5 DEF HeldInv, EntriesAnswerable
<1>7. StoresAnswerable'
  <2> SUFFICES ASSUME NEW s \in Runs, NEW q \in Runs, NEW e \in Docs,
                      task'[q][e].pc \in {"lint", "write", "store"}, task'[q][e].stamp # None
               PROVE  Answerable(s, e, task[q][e].stamp.mtime, task[q][e].raced,
                                 task[q][e].text)'
    BY DEF StoresAnswerable
  <2>1. /\ task'[q][e].pc = task[q][e].pc /\ task'[q][e].text = task[q][e].text
        /\ task'[q][e].stamp = task[q][e].stamp /\ task'[q][e].raced = task[q][e].raced
    OBVIOUS
  <2>2. Answerable(s, e, task[q][e].stamp.mtime, task[q][e].raced, task[q][e].text)
    BY <2>1 DEF HeldInv, StoresAnswerable
  <2> QED BY <1>5, <2>1, <2>2
<1> QED BY <1>2, <1>3, <1>4, <1>6, <1>7 DEF HeldInv

\* Tasks that have not begun have nothing in their windows, and an entry that
\* is gone is accepted by nobody.
LEMMA HeldReset ==
  ASSUME HeldInv, disk' = disk,
         \A s \in Runs, e \in Docs :
           \/ task'[s][e] \in {NoTask, QueuedTask}
           \/ task'[s][e] = task[s][e] /\ cache'[e] \in {None, cache[e]}
  PROVE  HeldInv'
<1>1. \A e \in Docs : Holds(e)' = Holds(e)
  BY DEF Holds
<1>2. WindowsOpen'
  BY <1>1 DEF HeldInv, WindowsOpen, Working, NoTask, QueuedTask
<1>3. TextsHeld' /\ StampsPositive'
  BY DEF HeldInv, TextsHeld, StampsPositive, NoTask, QueuedTask
<1>4. \A s \in Runs, e \in Docs : \A m, ra, c :
        /\ task'[s][e] \in {NoTask, QueuedTask} => Answerable(s, e, m, ra, c)'
        /\ task'[s][e] = task[s][e] => (Answerable(s, e, m, ra, c)' <=> Answerable(s, e, m, ra, c))
  BY DEF Answerable, NoTask, QueuedTask
<1>5. EntriesAnswerable'
  BY <1>4 DEF HeldInv, EntriesAnswerable
<1>6. StoresAnswerable'
  BY <1>4 DEF HeldInv, StoresAnswerable, NoTask, QueuedTask
<1> QED BY <1>2, <1>3, <1>5, <1>6 DEF HeldInv

\* The fix of a task changes the file, the windows on it, and of the tasks
\* only its own, which goes on working.
LEMMA WriteChanges ==
  ASSUME VersionInv, NEW r \in Runs, NEW d \in Docs, Write(r, d)
  PROVE  \E output \in Contents :
           /\ \A e \in Docs : Holds(e)' = IF e = d THEN output ELSE Holds(e)
           /\ \A s \in Runs, e \in Docs :
                /\ task'[s][e].stamp = task[s][e].stamp
                /\ task'[s][e].raced = task[s][e].raced
                /\ e # d => task'[s][e].held = task[s][e].held
                /\ e = d /\ Working(s, e) => task'[s][e].held = task[s][e].held \cup {output}
                /\ e = d /\ ~ Working(s, e) => task'[s][e].held = {}
                /\ \/ /\ task'[s][e].pc = task[s][e].pc /\ task'[s][e].text = task[s][e].text
                      /\ e # d => task'[s][e].foreign = task[s][e].foreign
                      /\ e = d => task'[s][e].foreign
                   \/ /\ task'[s][e].pc = "relint" /\ task'[s][e].text = output
                      /\ e = d /\ Working(s, e)
<1> DEFINE t == task[r][d]
<1>1. TypeOK /\ t \in Task /\ task[r] \in [Docs -> Task]
  BY DEF VersionInv, TypeOK
<1>2. PICK output \in Contents : output = Fixed[t.text]
  BY DEF Write, VersionInv, TextRead
<1> DEFINE u == [t EXCEPT !.pc = "relint", !.text = output, !.foreign = FALSE,
                          !.held = @ \cup {output}]
<1>3. /\ output \in Contents /\ t.pc = "write"
      /\ disk' = [disk EXCEPT ![d] = [content |-> output, mtime |-> clock + 1]]
      /\ task' = [Disturbed(d, output) EXCEPT ![r][d] = u]
      /\ UNCHANGED cache
  BY <1>2 DEF Write
<1>4. /\ u.pc = "relint" /\ u.text = output /\ u.stamp = t.stamp /\ u.raced = t.raced
      /\ u.held = t.held \cup {output}
  BY <1>1 DEF Task
<1>5. \A e \in Docs : Holds(e)' = IF e = d THEN output ELSE Holds(e)
  <2>1. [content |-> output, mtime |-> clock + 1] \in File
    BY <1>3 DEF VersionInv, TypeOK, File
  <2> QED BY <1>3, <2>1, NoneAssumption DEF Holds, VersionInv, TypeOK
<1> HIDE DEF u
<1>6. \A s \in Runs, e \in Docs :
        task'[s][e] = IF s = r /\ e = d THEN u ELSE Disturbed(d, output)[s][e]
  BY <1>1, <1>3, DisturbedType
<1>7. \A s \in Runs, e \in Docs :
        /\ Disturbed(d, output)[s][e].pc = task[s][e].pc
        /\ Disturbed(d, output)[s][e].stamp = task[s][e].stamp
        /\ Disturbed(d, output)[s][e].text = task[s][e].text
        /\ Disturbed(d, output)[s][e].raced = task[s][e].raced
        /\ e # d => Disturbed(d, output)[s][e].foreign = task[s][e].foreign
        /\ e = d => Disturbed(d, output)[s][e].foreign
        /\ e # d => Disturbed(d, output)[s][e].held = task[s][e].held
        /\ e = d /\ Working(s, e) =>
             Disturbed(d, output)[s][e].held = task[s][e].held \cup {output}
        /\ e = d /\ ~ Working(s, e) => Disturbed(d, output)[s][e].held = {}
  <2> SUFFICES ASSUME NEW s \in Runs, NEW e \in Docs
               PROVE  /\ Disturbed(d, output)[s][e].pc = task[s][e].pc
                      /\ Disturbed(d, output)[s][e].stamp = task[s][e].stamp
                      /\ Disturbed(d, output)[s][e].text = task[s][e].text
                      /\ Disturbed(d, output)[s][e].raced = task[s][e].raced
                      /\ e # d => Disturbed(d, output)[s][e].foreign = task[s][e].foreign
                      /\ e = d => Disturbed(d, output)[s][e].foreign
                      /\ e # d => Disturbed(d, output)[s][e].held = task[s][e].held
                      /\ e = d /\ Working(s, e) =>
                           Disturbed(d, output)[s][e].held = task[s][e].held \cup {output}
                      /\ e = d /\ ~ Working(s, e) => Disturbed(d, output)[s][e].held = {}
    OBVIOUS
  <2> QED BY <1>1, <1>3, DisturbedFields, DisturbedHeld
<1>8. Working(r, d)
  BY <1>3 DEF Working
<1> HIDE DEF t
<1>9. ASSUME NEW s \in Runs, NEW e \in Docs
      PROVE  /\ task'[s][e].stamp = task[s][e].stamp
             /\ task'[s][e].raced = task[s][e].raced
             /\ e # d => task'[s][e].held = task[s][e].held
             /\ e = d /\ Working(s, e) => task'[s][e].held = task[s][e].held \cup {output}
             /\ e = d /\ ~ Working(s, e) => task'[s][e].held = {}
             /\ \/ /\ task'[s][e].pc = task[s][e].pc /\ task'[s][e].text = task[s][e].text
                   /\ e # d => task'[s][e].foreign = task[s][e].foreign
                   /\ e = d => task'[s][e].foreign
                \/ /\ task'[s][e].pc = "relint" /\ task'[s][e].text = output
                   /\ e = d /\ Working(s, e)
  <2>1. CASE s = r /\ e = d
    BY <1>4, <1>6, <1>8, <2>1 DEF t
  <2>2. CASE s # r \/ e # d
    BY <1>6, <1>7, <2>2
  <2> QED BY <2>1, <2>2
<1> QED BY <1>5, <1>9

\* The steps of a task keep the windows, the fix's write among them.
LEMMA TaskHeld ==
  ASSUME VersionInv, HeldInv, NEW r \in Runs, NEW d \in Docs, TaskStep(r, d)
  PROVE  HeldInv'
<1> DEFINE t == task[r][d]
<1>1. TypeOK /\ t \in Task /\ task[r] \in [Docs -> Task]
  BY DEF VersionInv, TypeOK
<1>2. /\ IF t.pc \in {"none", "queued", "done"} THEN t.held = {} ELSE Holds(d) \in t.held
      /\ t.pc \in {"lint", "write", "relint", "restat", "store"} => t.text \in t.held
      /\ t.stamp # None => 0 < t.stamp.mtime
  <2>1. Working(r, d) => Holds(d) \in t.held
    BY DEF HeldInv, WindowsOpen
  <2>2. ~ Working(r, d) => t.held = {}
    BY DEF HeldInv, WindowsOpen
  <2>3. /\ t.pc \in {"lint", "write", "relint", "restat", "store"} => t.text \in t.held
        /\ t.stamp # None => 0 < t.stamp.mtime
    BY DEF HeldInv, TextsHeld, StampsPositive
  <2> HIDE DEF t
  <2> QED BY <2>1, <2>2, <2>3 DEF Working, t
<1>3. ASSUME NEW u \in Task, task' = [task EXCEPT ![r][d] = u], UNCHANGED <<disk, cache>>,
             u.held = t.held, u.stamp = t.stamp, u.raced = t.raced,
             u.pc \notin {"none", "queued", "get", "done"}, t.pc \notin {"none", "queued", "done"},
             u.pc \in {"lint", "write", "store"} =>
               u.text = t.text /\ t.pc \in {"lint", "write", "store"},
             u.pc \in {"relint", "restat"} => t.pc = "relint" /\ u.text = t.text
      PROVE  HeldInv'
  <2>1. u.pc \in {"lint", "write", "store"} /\ u.stamp # None =>
          \A s \in Runs \ {r} : Answerable(s, d, u.stamp.mtime, u.raced, u.text)
    BY <1>3 DEF HeldInv, StoresAnswerable
  <2> HIDE DEF t
  <2> QED BY <1>1, <1>2, <1>3, <2>1, HeldOneTask
<1>4. CASE Stat(r, d)
  <2> DEFINE u == [pc |-> "get", stamp |-> IF disk[d] = None THEN None ELSE StatOf(disk[d]),
                   text |-> None, foreign |-> FALSE, held |-> {Holds(d)}, raced |-> FALSE]
  <2>1. u \in Task
    BY <1>1, HoldsType DEF TypeOK, Task, Stamp, StatOf, File
  <2>2. task' = [task EXCEPT ![r][d] = u] /\ UNCHANGED <<disk, cache>>
    BY <1>4 DEF Stat
  <2>3. u.stamp # None =>
          /\ disk[d] # None /\ u.stamp.mtime = disk[d].mtime /\ 0 < u.stamp.mtime
          /\ Holds(d) = disk[d].content
    BY DEF StatOf, Holds, VersionInv, ClockAhead
  <2>4. /\ cache[d] # None /\ ~ cache[d].raced /\ u.stamp # None
        /\ cache[d].mtime = u.stamp.mtime
        => cache[d].result = Holds(d)
    BY <2>3 DEF VersionInv, EntriesOfVersion, OfVersion
  <2>5. ASSUME NEW s \in Runs, task[s][d].pc \in {"lint", "write", "store"}, u.stamp # None,
               task[s][d].stamp # None /\ ~ task[s][d].raced,
               task[s][d].stamp.mtime = u.stamp.mtime
        PROVE  task[s][d].text = Holds(d)
    <3>1. task[s][d].text # Failed
      BY <2>5, FailedAssumption DEF VersionInv, TextRead
    <3> QED BY <2>3, <2>5, <3>1 DEF VersionInv, TasksOfVersion, OfVersion
  <2>6. u.pc = "get" /\ u.held = {Holds(d)}
    OBVIOUS
  <2> HIDE DEF u
  <2> QED BY <1>1, <2>1, <2>2, <2>3, <2>4, <2>5, <2>6, HeldOneTask
<1>5. CASE Hit(r, d)
  <2> DEFINE u == [t EXCEPT !.pc = "done", !.text = cache[d].result,
                            !.held = {}, !.raced = cache[d].raced]
  <2>1. u \in Task
    BY <1>1, <1>5 DEF TypeOK, Hit, IsCacheValid, Task, Entry
  <2>2. task' = [task EXCEPT ![r][d] = u] /\ UNCHANGED <<disk, cache>>
    BY <1>5 DEF Hit
  <2>3. u.pc = "done" /\ u.held = {} /\ u.stamp = t.stamp
    BY <1>1 DEF Task
  <2> HIDE DEF u, t
  <2> QED BY <1>1, <1>2, <2>1, <2>2, <2>3, HeldOneTask
<1>6. CASE Miss(r, d)
  <2> DEFINE u == [t EXCEPT !.pc = "read"]
  <2>1. u \in Task /\ task' = [task EXCEPT ![r][d] = u] /\ UNCHANGED <<disk, cache>>
    BY <1>1, <1>6 DEF Miss, Task
  <2>2. u.pc = "read" /\ u.held = t.held /\ u.stamp = t.stamp /\ u.raced = t.raced /\ t.pc = "get"
    BY <1>1, <1>6 DEF Task, Miss
  <2> HIDE DEF u, t
  <2> QED BY <1>3, <2>1, <2>2
<1>7. CASE Read(r, d)
  <2> DEFINE u == [t EXCEPT !.pc = "lint", !.text = disk[d].content]
  <2>1. /\ u \in Task /\ task' = [task EXCEPT ![r][d] = u] /\ UNCHANGED <<disk, cache>>
        /\ disk[d].content = Holds(d)
    BY <1>1, <1>7 DEF Read, Task, TypeOK, File, Holds
  <2>2. /\ u.pc = "lint" /\ u.held = t.held /\ u.stamp = t.stamp /\ u.raced = t.raced
        /\ u.text = Holds(d) /\ t.pc = "read"
    BY <1>1, <1>7, <2>1 DEF Task, Read
  <2>3. ASSUME NEW s \in Runs PROVE Answerable(s, d, u.stamp.mtime, u.raced, u.text)
    BY <2>2 DEF HeldInv, WindowsOpen, Working, Answerable
  <2> HIDE DEF u, t
  <2> QED BY <1>1, <1>2, <2>1, <2>2, <2>3, HeldOneTask
<1>8. CASE Lint(r, d)
  <2> DEFINE u == [t EXCEPT !.pc = IF WritesFix(r, d) THEN "write" ELSE "store"]
  <2>1. u \in Task /\ task' = [task EXCEPT ![r][d] = u] /\ UNCHANGED <<disk, cache>>
    BY <1>1, <1>8 DEF Lint, Task
  <2>2. /\ u.pc \in {"write", "store"} /\ u.held = t.held /\ u.stamp = t.stamp
        /\ u.raced = t.raced /\ u.text = t.text /\ t.pc = "lint"
    BY <1>1, <1>8 DEF Task, Lint
  <2> HIDE DEF u, t
  <2> QED BY <1>3, <2>1, <2>2
<1>9. CASE Write(r, d)
  <2>1. cache' = cache
    BY <1>9 DEF Write
  <2> HIDE DEF t
  <2>2. PICK output \in Contents :
          /\ \A e \in Docs : Holds(e)' = IF e = d THEN output ELSE Holds(e)
          /\ \A s \in Runs, e \in Docs :
               /\ task'[s][e].stamp = task[s][e].stamp
               /\ task'[s][e].raced = task[s][e].raced
               /\ e # d => task'[s][e].held = task[s][e].held
               /\ e = d /\ Working(s, e) => task'[s][e].held = task[s][e].held \cup {output}
               /\ e = d /\ ~ Working(s, e) => task'[s][e].held = {}
               /\ \/ task'[s][e].pc = task[s][e].pc /\ task'[s][e].text = task[s][e].text
                  \/ /\ task'[s][e].pc = "relint" /\ task'[s][e].text = output
                     /\ e = d /\ Working(s, e)
    BY <1>9, WriteChanges
  <2> QED BY <2>1, <2>2, HeldChange
<1>10. CASE Relint(r, d)
  <2> DEFINE u == [t EXCEPT !.pc = "restat"]
  <2>1. u \in Task /\ task' = [task EXCEPT ![r][d] = u] /\ UNCHANGED <<disk, cache>>
    BY <1>1, <1>10 DEF Relint, Task
  <2>2. /\ u.pc = "restat" /\ u.held = t.held /\ u.stamp = t.stamp /\ u.raced = t.raced
        /\ u.text = t.text /\ t.pc = "relint"
    BY <1>1, <1>10 DEF Task, Relint
  <2> HIDE DEF u, t
  <2> QED BY <1>3, <2>1, <2>2
<1>11. CASE Restat(r, d)
  <2> DEFINE u == [t EXCEPT !.pc = "store", !.stamp = StatOf(disk[d]), !.raced = t.foreign]
  <2>1. /\ u \in Task /\ task' = [task EXCEPT ![r][d] = u] /\ UNCHANGED <<disk, cache>>
        /\ disk[d] # None /\ t.pc = "restat"
    BY <1>1, <1>11 DEF Restat, Task, Stamp, StatOf, TypeOK, File
  <2>2. /\ u.pc = "store" /\ u.held = t.held /\ u.stamp = StatOf(disk[d])
        /\ u.raced = t.foreign /\ u.text = t.text
    BY <1>1 DEF Task
  <2>3. u.stamp # None => 0 < u.stamp.mtime
    BY <2>1, <2>2 DEF StatOf, VersionInv, ClockAhead
  <2>4. ~ u.raced => u.text = Holds(d)
    BY <2>1, <2>2 DEF VersionInv, FixesInPlace, Holds
  <2>5. ASSUME NEW s \in Runs PROVE Answerable(s, d, u.stamp.mtime, u.raced, u.text)
    BY <2>4 DEF HeldInv, WindowsOpen, Working, Answerable
  <2> HIDE DEF u, t
  <2> QED BY <1>1, <1>2, <2>1, <2>2, <2>3, <2>5, HeldOneTask
<1>12. CASE Store(r, d)
  <2> DEFINE u == [t EXCEPT !.pc = "done", !.held = {}]
             entry == EntryToStore(t)
  <2>1. /\ u \in Task /\ task' = [task EXCEPT ![r][d] = u] /\ UNCHANGED disk
        /\ cache' = [cache EXCEPT ![d] = entry] /\ t.pc = "store"
    BY <1>1, <1>12 DEF Store, Task
  <2>2. u.pc = "done" /\ u.held = {} /\ u.stamp = t.stamp
    BY <1>1 DEF Task
  <2>3. ASSUME NEW s \in Runs PROVE Answerable(s, d, entry.mtime, entry.raced, entry.result)
    <3>1. CASE t.stamp = None
      BY <3>1 DEF EntryToStore, StampToStore, Answerable, HeldInv, StampsPositive
    <3>2. CASE t.stamp # None
      <4>1. entry.mtime = t.stamp.mtime /\ entry.raced = t.raced /\ entry.result = t.text
        BY <3>2 DEF EntryToStore, StampToStore
      <4> HIDE DEF entry
      <4> QED BY <2>1, <3>2, <4>1 DEF HeldInv, StoresAnswerable
    <3> QED BY <3>1, <3>2
  <2>4. cache'[d] = entry /\ \A e \in Docs \ {d} : cache'[e] = cache[e]
    BY <1>1, <2>1 DEF TypeOK
  <2> HIDE DEF u, t, entry
  <2> QED BY <1>1, <1>2, <2>1, <2>2, <2>3, <2>4, HeldOneTask
<1>13. CASE Fail(r, d)
  <2> DEFINE u == [t EXCEPT !.pc = "done", !.text = Failed, !.held = {}]
  <2>1. /\ u \in Task /\ task' = [task EXCEPT ![r][d] = u] /\ UNCHANGED disk
        /\ cache'[d] = None /\ \A e \in Docs \ {d} : cache'[e] = cache[e]
    BY <1>1, <1>13 DEF Fail, Task, TypeOK
  <2>2. u.pc = "done" /\ u.held = {} /\ u.stamp = t.stamp
    BY <1>1 DEF Task
  <2> HIDE DEF u, t
  <2> QED BY <1>1, <1>2, <2>1, <2>2, HeldOneTask
<1> QED BY <1>4, <1>5, <1>6, <1>7, <1>8, <1>9, <1>10, <1>11, <1>12, <1>13 DEF TaskStep

\* A change by somebody else keeps the windows.
LEMMA DisturbedHolds ==
  ASSUME TypeOK, HeldInv, NEW d \in Docs, NEW v \in Contents \cup {None}, cache' = cache,
         task' = Disturbed(d, v), \A e \in Docs : Holds(e)' = IF e = d THEN v ELSE Holds(e)
  PROVE  HeldInv'
<1>1. ASSUME NEW s \in Runs, NEW e \in Docs
      PROVE  /\ task'[s][e].stamp = task[s][e].stamp
             /\ task'[s][e].raced = task[s][e].raced
             /\ task'[s][e].pc = task[s][e].pc /\ task'[s][e].text = task[s][e].text
  BY DisturbedFields
<1>2. ASSUME NEW s \in Runs, NEW e \in Docs
      PROVE  /\ e # d => task'[s][e].held = task[s][e].held
             /\ e = d /\ Working(s, e) => task'[s][e].held = task[s][e].held \cup {v}
             /\ e = d /\ ~ Working(s, e) => task'[s][e].held = {}
  BY DisturbedHeld
<1> QED BY <1>1, <1>2, HeldChange

\* Every step keeps the windows.
LEMMA NextHeldInv == VersionInv /\ HeldInv /\ [Next]_vars => HeldInv'
<1> SUFFICES ASSUME VersionInv, HeldInv, [Next]_vars PROVE HeldInv'
  OBVIOUS
<1>1. TypeOK
  BY DEF VersionInv
<1>2. ASSUME NEW r \in Runs, NEW docs \in SUBSET Docs, NEW fix \in BOOLEAN,
             Start(r, docs, fix)
      PROVE  HeldInv'
  BY <1>1, <1>2, HeldReset DEF Start, TypeOK
<1>3. ASSUME NEW r \in Runs, (\E k \in Docs : PruneKey(r, k)) \/ EndPrune(r) \/ Save(r)
      PROVE  HeldInv'
  BY <1>1, <1>3, HeldReset DEF PruneKey, EndPrune, Save, NoTasks, TypeOK
<1>4. ASSUME NEW d \in Docs, NEW c \in Contents, Edit(d, c)
      PROVE  HeldInv'
  <2>1. [content |-> c, mtime |-> clock + 1] \in File
    BY <1>1 DEF TypeOK, File
  <2>2. \A e \in Docs : Holds(e)' = IF e = d THEN c ELSE Holds(e)
    BY <1>1, <1>4, <2>1, NoneAssumption DEF Holds, Edit, TypeOK
  <2>3. task' = Disturbed(d, c) /\ cache' = cache
    BY <1>4 DEF Edit
  <2> QED BY <1>1, <2>2, <2>3, DisturbedHolds
<1>5. ASSUME NEW d \in Docs, Delete(d)
      PROVE  HeldInv'
  <2>1. \A e \in Docs : Holds(e)' = IF e = d THEN None ELSE Holds(e)
    BY <1>1, <1>5 DEF Holds, Delete, TypeOK
  <2>2. task' = Disturbed(d, None) /\ cache' = cache
    BY <1>5 DEF Delete
  <2> QED BY <1>1, <2>1, <2>2, DisturbedHolds
<1>6. ASSUME (\E d \in Docs : Forget(d)) \/ Restart \/ TornSave \/ UNCHANGED vars
      PROVE  HeldInv'
  BY <1>1, <1>6, HeldReset DEF Forget, Restart, TornSave, vars, NoTasks, TypeOK
<1> QED BY <1>2, <1>3, <1>4, <1>5, <1>6, TaskHeld DEF Next, RunStep, UserStep

\* In the beginning no task has begun.
LEMMA InitHeldInv == Init => HeldInv
BY DEF Init, NoTasks, NoTask, HeldInv, WindowsOpen, TextsHeld, StampsPositive,
       EntriesAnswerable, StoresAnswerable, Answerable, Working, EmptyCache

----------------------------------------------------------------------------
(* The cached linter keeps the promise of the linter without a cache.      *)

\* What AnswerOf says of a task at work and of one that has not begun.
LEMMA AnswerIs ==
  ASSUME TypeOK, NEW r \in Runs, NEW d \in Docs
  PROVE  /\ Working(r, d) <=> AnswerOf(r, d) = "waiting"
         /\ task[r][d].pc \in {"none", "queued"} => AnswerOf(r, d) = "idle"
<1>1. task[r][d].text \in Contents \cup {None, Failed}
  BY DEF TypeOK, Task
<1>2. "unpromised" # "waiting" /\ "idle" # "waiting" /\ task[r][d].text # "waiting"
  BY <1>1, AnswerAssumption
<1>3. CASE task[r][d].pc \in {"none", "queued"}
  BY <1>2, <1>3 DEF AnswerOf, Working
<1>4. CASE Working(r, d)
  BY <1>4 DEF AnswerOf, Working
<1>5. CASE task[r][d].pc \notin {"none", "queued"} /\ ~ Working(r, d)
  BY <1>2, <1>5 DEF AnswerOf, Working
<1> QED BY <1>3, <1>4, <1>5

\* A step of one task changes one window and one answer.
LEMMA OneAnswer ==
  ASSUME TypeOK, NEW r \in Runs, NEW d \in Docs, NEW t \in Task,
         task' = [task EXCEPT ![r][d] = t], run' = run, disk' = disk
  PROVE  /\ nowBar' = nowBar
         /\ windowBar' = [windowBar EXCEPT ![r][d] = t.held]
         /\ answerBar' = [answerBar EXCEPT ![r][d] = AnswerOf(r, d)']
<1>1. /\ task'[r][d] = t
      /\ \A s \in Runs, e \in Docs : s # r \/ e # d => task'[s][e] = task[s][e]
  BY DEF TypeOK
<1>2. nowBar' = nowBar
  BY DEF nowBar, Holds
<1>3. windowBar' = [windowBar EXCEPT ![r][d] = t.held]
  <2>1. \A s \in Runs : s # r => windowBar'[s] = windowBar[s]
    BY <1>1 DEF windowBar
  <2>2. windowBar'[r] = [windowBar[r] EXCEPT ![d] = t.held]
    <3>1. \A e \in Docs : task'[r][e].held = IF e = d THEN t.held ELSE task[r][e].held
      BY <1>1
    <3>2. windowBar'[r] = [e \in Docs |-> task'[r][e].held]
      BY DEF windowBar
    <3>3. windowBar[r] = [e \in Docs |-> task[r][e].held]
      BY DEF windowBar
    <3> QED BY <3>1, <3>2, <3>3
  <2>3. /\ windowBar = [s \in Runs |-> windowBar[s]]
        /\ windowBar' = [s \in Runs |-> windowBar'[s]]
    BY DEF windowBar
  <2> HIDE DEF windowBar
  <2> QED BY <2>1, <2>2, <2>3
<1>4. \A s \in Runs, e \in Docs : s # r \/ e # d => AnswerOf(s, e)' = AnswerOf(s, e)
  BY <1>1 DEF AnswerOf, Working
<1>5. answerBar' = [answerBar EXCEPT ![r][d] = AnswerOf(r, d)']
  BY <1>4 DEF answerBar
<1> QED BY <1>2, <1>3, <1>5

\* A task that goes on working goes on waiting.
LEMMA StillWaiting ==
  ASSUME TypeOK, TypeOK', NEW r \in Runs, NEW d \in Docs, NEW t \in Task,
         task' = [task EXCEPT ![r][d] = t], run' = run, disk' = disk,
         Working(r, d), Working(r, d)', t.held = task[r][d].held
  PROVE  UNCHANGED Promise!vars
<1>1. /\ nowBar' = nowBar
      /\ windowBar' = [windowBar EXCEPT ![r][d] = t.held]
      /\ answerBar' = [answerBar EXCEPT ![r][d] = AnswerOf(r, d)']
  BY OneAnswer
<1>2. AnswerOf(r, d) = "waiting" /\ AnswerOf(r, d)' = "waiting"
  BY DEF AnswerOf, Working
<1>3. windowBar' = windowBar
  <2>1. windowBar[r][d] = t.held
    BY DEF windowBar
  <2>2. /\ windowBar = [s \in Runs |-> windowBar[s]]
        /\ windowBar[r] = [e \in Docs |-> windowBar[r][e]]
    BY DEF windowBar
  <2> QED BY <1>1, <2>1, <2>2
<1>4. answerBar' = answerBar
  <2>1. answerBar[r][d] = AnswerOf(r, d)'
    BY <1>2 DEF answerBar
  <2>2. /\ answerBar = [s \in Runs |-> answerBar[s]]
        /\ answerBar[r] = [e \in Docs |-> answerBar[r][e]]
    BY DEF answerBar
  <2>3. PICK a : a = AnswerOf(r, d)'
    OBVIOUS
  <2> QED BY <1>1, <2>1, <2>2, <2>3
<1> QED BY <1>1, <1>3, <1>4 DEF Promise!vars

\* A task answers with what its window holds, with its failure, or without a
\* promise.
LEMMA TaskAnswers ==
  ASSUME TypeOK, NEW r \in Runs, NEW d \in Docs, NEW t \in Task,
         task' = [task EXCEPT ![r][d] = t], run' = run, disk' = disk,
         Working(r, d), t.pc = "done", t.held = {},
         \/ t.text \in task[r][d].held /\ t.text \in Contents
         \/ t.text = Failed
         \/ t.raced /\ ~ run[r].fix
  PROVE  Promise!Next
<1>1. /\ nowBar' = nowBar
      /\ windowBar' = [windowBar EXCEPT ![r][d] = t.held]
      /\ answerBar' = [answerBar EXCEPT ![r][d] = AnswerOf(r, d)']
  BY OneAnswer
<1>2. answerBar[r][d] = "waiting" /\ windowBar[r][d] = task[r][d].held
  BY AnswerIs DEF answerBar, windowBar
<1>3. task'[r][d] = t
  BY DEF TypeOK
<1>4. AnswerOf(r, d)' = IF t.raced /\ ~ run[r].fix THEN "unpromised" ELSE t.text
  BY <1>3 DEF AnswerOf, Working
<1>5. PICK result : result = AnswerOf(r, d)'
  OBVIOUS
<1>6. result \in (windowBar[r][d] \cap Contents) \cup {Failed, "unpromised"}
  BY <1>2, <1>4, <1>5
<1>7. Promise!Answer(r, d, result)
  BY <1>1, <1>2, <1>5, <1>6 DEF Promise!Answer
<1> QED BY <1>6, <1>7 DEF Promise!Next

\* Somebody, a task's fix or another program, changes the file.
LEMMA FileChanges ==
  ASSUME TypeOK, HeldInv, NEW d \in Docs, NEW v \in Contents \cup {None},
         \A e \in Docs : Holds(e)' = IF e = d THEN v ELSE Holds(e),
         \A s \in Runs, e \in Docs :
           /\ e # d => task'[s][e].held = task[s][e].held
           /\ e = d /\ Working(s, e) => task'[s][e].held = task[s][e].held \cup {v}
           /\ e = d /\ ~ Working(s, e) => task'[s][e].held = {},
         \A s \in Runs, e \in Docs : AnswerOf(s, e)' = AnswerOf(s, e)
  PROVE  Promise!Next
<1>1. nowBar' = [nowBar EXCEPT ![d] = v]
  BY DEF nowBar
<1>2. answerBar' = answerBar
  BY DEF answerBar
<1>3. ASSUME NEW s \in Runs
      PROVE  windowBar'[s] = IF answerBar[s][d] = "waiting"
                               THEN [windowBar[s] EXCEPT ![d] = @ \cup {v}] ELSE windowBar[s]
  <2>1. answerBar[s][d] = "waiting" <=> Working(s, d)
    BY AnswerIs DEF answerBar
  <2>2. ~ Working(s, d) => task[s][d].held = {}
    BY DEF HeldInv, WindowsOpen
  <2>3. CASE Working(s, d)
    <3>1. windowBar'[s] = [windowBar[s] EXCEPT ![d] = @ \cup {v}]
      BY <2>3 DEF windowBar
    <3> QED BY <2>1, <2>3, <3>1
  <2>4. CASE ~ Working(s, d)
    <3>1. windowBar'[s] = windowBar[s]
      BY <2>2, <2>4 DEF windowBar
    <3> QED BY <2>1, <2>4, <3>1
  <2> QED BY <2>3, <2>4
<1>4. windowBar' = [s \in Runs |->
                     IF answerBar[s][d] = "waiting"
                       THEN [windowBar[s] EXCEPT ![d] = @ \cup {v}] ELSE windowBar[s]]
  BY <1>3 DEF windowBar
<1>5. Promise!Change(d, v)
  BY <1>1, <1>2, <1>4 DEF Promise!Change
<1> QED BY <1>5 DEF Promise!Next

\* Runs begin or end: their tasks have no answers, the others keep theirs.
LEMMA RunsClose ==
  ASSUME NEW rs \in SUBSET Runs, disk' = disk,
         \A r \in rs, d \in Docs : task'[r][d] \in {NoTask, QueuedTask},
         \A r \in Runs \ rs : task'[r] = task[r] /\ run'[r] = run[r]
  PROVE  Promise!Next
<1>1. ASSUME NEW r \in rs, NEW d \in Docs
      PROVE  AnswerOf(r, d)' = "idle" /\ task'[r][d].held = {}
  <2>1. task'[r][d].pc \in {"none", "queued"} /\ task'[r][d].held = {}
    BY DEF NoTask, QueuedTask
  <2> QED BY <2>1 DEF AnswerOf, Working
<1>2. \A r \in Runs \ rs : \A d \in Docs : AnswerOf(r, d)' = AnswerOf(r, d)
  BY DEF AnswerOf, Working
<1>3. nowBar' = nowBar
  BY DEF nowBar, Holds
<1>4. answerBar' = [r \in Runs |-> IF r \in rs THEN [d \in Docs |-> "idle"] ELSE answerBar[r]]
  BY <1>1, <1>2 DEF answerBar
<1>5. windowBar' = [r \in Runs |-> IF r \in rs THEN [d \in Docs |-> {}] ELSE windowBar[r]]
  BY <1>1 DEF windowBar
<1>6. Promise!Close(rs)
  BY <1>3, <1>4, <1>5 DEF Promise!Close
<1> QED BY <1>6 DEF Promise!Next

\* A step of a task is a step of the linter without a cache, or none.
LEMMA TaskPromise ==
  ASSUME VersionInv, HeldInv, TypeOK', NEW r \in Runs, NEW d \in Docs, TaskStep(r, d)
  PROVE  [Promise!Next]_(Promise!vars)
<1> DEFINE t == task[r][d]
<1>1. TypeOK /\ t \in Task /\ task[r] \in [Docs -> Task]
  BY DEF VersionInv, TypeOK
<1>2. ASSUME NEW u \in Task, task' = [task EXCEPT ![r][d] = u], UNCHANGED <<run, disk>>,
             t.pc \notin {"none", "queued", "done"}, u.pc \notin {"none", "queued", "done"},
             u.held = t.held
      PROVE  UNCHANGED Promise!vars
  <2>1. task'[r][d] = u
    BY <1>1, <1>2 DEF TypeOK
  <2>2. Working(r, d) /\ Working(r, d)'
    BY <1>2, <2>1 DEF Working
  <2> QED BY <1>1, <1>2, <2>2, StillWaiting
<1>3. ASSUME NEW u \in Task, task' = [task EXCEPT ![r][d] = u], UNCHANGED <<run, disk>>,
             t.pc \notin {"none", "queued", "done"}, u.pc = "done", u.held = {},
             \/ u.text \in t.held /\ u.text \in Contents
             \/ u.text = Failed
             \/ u.raced /\ ~ run[r].fix
      PROVE  Promise!Next
  <2>1. Working(r, d)
    BY <1>3 DEF Working
  <2> QED BY <1>1, <1>3, <2>1, TaskAnswers
<1>4. CASE Stat(r, d)
  <2> DEFINE u == [pc |-> "get", stamp |-> IF disk[d] = None THEN None ELSE StatOf(disk[d]),
                   text |-> None, foreign |-> FALSE, held |-> {Holds(d)}, raced |-> FALSE]
  <2>1. u \in Task
    BY <1>1, HoldsType DEF TypeOK, Task, Stamp, StatOf, File
  <2>2. task' = [task EXCEPT ![r][d] = u] /\ UNCHANGED <<run, disk>>
    BY <1>4 DEF Stat
  <2>3. u.pc = "get" /\ u.held = {Holds(d)} /\ t.pc = "queued"
    BY <1>4 DEF Stat
  <2> HIDE DEF u
  <2>4. /\ nowBar' = nowBar
        /\ windowBar' = [windowBar EXCEPT ![r][d] = u.held]
        /\ answerBar' = [answerBar EXCEPT ![r][d] = AnswerOf(r, d)']
    BY <1>1, <2>1, <2>2, OneAnswer
  <2>5. task'[r][d] = u
    BY <1>1, <2>2 DEF TypeOK
  <2>6. AnswerOf(r, d)' = "waiting"
    BY <2>3, <2>5 DEF AnswerOf, Working
  <2>7. answerBar[r][d] = "idle"
    BY <1>1, <2>3, AnswerIs DEF answerBar
  <2>8. u.held = {nowBar[d]}
    BY <2>3 DEF nowBar
  <2>9. Promise!Begin(r, d)
    BY <2>4, <2>6, <2>7, <2>8 DEF Promise!Begin
  <2> QED BY <2>9 DEF Promise!Next
<1>5. CASE Hit(r, d)
  <2> DEFINE u == [t EXCEPT !.pc = "done", !.text = cache[d].result,
                            !.held = {}, !.raced = cache[d].raced]
  <2>1. /\ u \in Task /\ task' = [task EXCEPT ![r][d] = u] /\ UNCHANGED <<run, disk>>
        /\ cache[d].result \in Contents
    BY <1>1, <1>5 DEF TypeOK, Hit, IsCacheValid, Task, Entry
  <2>2. /\ u.pc = "done" /\ u.held = {} /\ u.text = cache[d].result
        /\ u.raced = cache[d].raced /\ t.pc = "get"
    BY <1>1, <1>5 DEF Task, Hit
  <2>3. ~ cache[d].raced => cache[d].result \in t.held
    BY <1>5 DEF Hit, IsCacheValid, HeldInv, EntriesAnswerable, Answerable
  <2>4. ~ run[r].fix
    BY <1>5 DEF Hit, IsCacheValid
  <2> HIDE DEF u, t
  <2> QED BY <1>3, <2>1, <2>2, <2>3, <2>4
<1>6. CASE Miss(r, d)
  <2> DEFINE u == [t EXCEPT !.pc = "read"]
  <2>1. u \in Task /\ task' = [task EXCEPT ![r][d] = u] /\ UNCHANGED <<run, disk>>
    BY <1>1, <1>6 DEF Miss, Task
  <2>2. u.pc = "read" /\ u.held = t.held /\ t.pc = "get"
    BY <1>1, <1>6 DEF Task, Miss
  <2> HIDE DEF u, t
  <2> QED BY <1>2, <2>1, <2>2
<1>7. CASE Read(r, d)
  <2> DEFINE u == [t EXCEPT !.pc = "lint", !.text = disk[d].content]
  <2>1. u \in Task /\ task' = [task EXCEPT ![r][d] = u] /\ UNCHANGED <<run, disk>>
    BY <1>1, <1>7 DEF Read, Task, TypeOK, File
  <2>2. u.pc = "lint" /\ u.held = t.held /\ t.pc = "read"
    BY <1>1, <1>7 DEF Task, Read
  <2> HIDE DEF u, t
  <2> QED BY <1>2, <2>1, <2>2
<1>8. CASE Lint(r, d)
  <2> DEFINE u == [t EXCEPT !.pc = IF WritesFix(r, d) THEN "write" ELSE "store"]
  <2>1. u \in Task /\ task' = [task EXCEPT ![r][d] = u] /\ UNCHANGED <<run, disk>>
    BY <1>1, <1>8 DEF Lint, Task
  <2>2. u.pc \in {"write", "store"} /\ u.held = t.held /\ t.pc = "lint"
    BY <1>1, <1>8 DEF Task, Lint
  <2> HIDE DEF u, t
  <2> QED BY <1>2, <2>1, <2>2
<1>9. CASE Write(r, d)
  <2>1. PICK output \in Contents :
          /\ \A e \in Docs : Holds(e)' = IF e = d THEN output ELSE Holds(e)
          /\ \A s \in Runs, e \in Docs :
               /\ task'[s][e].raced = task[s][e].raced
               /\ e # d => task'[s][e].held = task[s][e].held
               /\ e = d /\ Working(s, e) => task'[s][e].held = task[s][e].held \cup {output}
               /\ e = d /\ ~ Working(s, e) => task'[s][e].held = {}
               /\ \/ task'[s][e].pc = task[s][e].pc /\ task'[s][e].text = task[s][e].text
                  \/ task'[s][e].pc = "relint" /\ Working(s, e)
    BY <1>9, WriteChanges
  <2>2. run' = run
    BY <1>9 DEF Write
  <2>3. \A s \in Runs, e \in Docs : AnswerOf(s, e)' = AnswerOf(s, e)
    BY <2>1, <2>2 DEF AnswerOf, Working
  <2> QED BY <1>1, <2>1, <2>3, FileChanges
<1>10. CASE Relint(r, d)
  <2> DEFINE u == [t EXCEPT !.pc = "restat"]
  <2>1. u \in Task /\ task' = [task EXCEPT ![r][d] = u] /\ UNCHANGED <<run, disk>>
    BY <1>1, <1>10 DEF Relint, Task
  <2>2. u.pc = "restat" /\ u.held = t.held /\ t.pc = "relint"
    BY <1>1, <1>10 DEF Task, Relint
  <2> HIDE DEF u, t
  <2> QED BY <1>2, <2>1, <2>2
<1>11. CASE Restat(r, d)
  <2> DEFINE u == [t EXCEPT !.pc = "store", !.stamp = StatOf(disk[d]), !.raced = t.foreign]
  <2>1. u \in Task /\ task' = [task EXCEPT ![r][d] = u] /\ UNCHANGED <<run, disk>>
    BY <1>1, <1>11 DEF Restat, Task, Stamp, StatOf, TypeOK, File
  <2>2. u.pc = "store" /\ u.held = t.held /\ t.pc = "restat"
    BY <1>1, <1>11 DEF Task, Restat
  <2> HIDE DEF u, t
  <2> QED BY <1>2, <2>1, <2>2
<1>12. CASE Store(r, d)
  <2> DEFINE u == [t EXCEPT !.pc = "done", !.held = {}]
  <2>1. u \in Task /\ task' = [task EXCEPT ![r][d] = u] /\ UNCHANGED <<run, disk>>
    BY <1>1, <1>12 DEF Store, Task
  <2>2. u.pc = "done" /\ u.held = {} /\ u.text = t.text /\ t.pc = "store"
    BY <1>1, <1>12 DEF Task, Store
  <2>3. u.text \in t.held /\ u.text \in Contents
    BY <2>2 DEF HeldInv, TextsHeld, VersionInv, TextRead
  <2> HIDE DEF u, t
  <2> QED BY <1>3, <2>1, <2>2, <2>3
<1>13. CASE Fail(r, d)
  <2> DEFINE u == [t EXCEPT !.pc = "done", !.text = Failed, !.held = {}]
  <2>1. u \in Task /\ task' = [task EXCEPT ![r][d] = u] /\ UNCHANGED <<run, disk>>
    BY <1>1, <1>13 DEF Fail, Task
  <2>2. /\ u.pc = "done" /\ u.held = {}
        /\ u.text = Failed
        /\ t.pc \notin {"none", "queued", "done"}
    BY <1>1, <1>13 DEF Task, Fail
  <2> HIDE DEF u, t
  <2> QED BY <1>3, <2>1, <2>2
<1> QED BY <1>4, <1>5, <1>6, <1>7, <1>8, <1>9, <1>10, <1>11, <1>12, <1>13 DEF TaskStep

\* So is every other step: a change by another program, the begin or the end
\* of runs, or, where only entries change, none.
LEMMA NextPromise ==
  VersionInv /\ HeldInv /\ TypeOK' /\ [Next]_vars => [Promise!Next]_(Promise!vars)
<1> SUFFICES ASSUME VersionInv, HeldInv, TypeOK', [Next]_vars
             PROVE  [Promise!Next]_(Promise!vars)
  OBVIOUS
<1>1. TypeOK
  BY DEF VersionInv
<1>2. ASSUME UNCHANGED <<disk, task>>,
             \A r \in Runs : run'[r].fix = run[r].fix
      PROVE  UNCHANGED Promise!vars
  <2>1. \A r \in Runs, d \in Docs : AnswerOf(r, d)' = AnswerOf(r, d)
    BY <1>2 DEF AnswerOf, Working
  <2> QED BY <1>2, <2>1 DEF Promise!vars, nowBar, windowBar, answerBar, Holds
<1>3. ASSUME NEW r \in Runs, NEW docs \in SUBSET Docs, NEW fix \in BOOLEAN,
             Start(r, docs, fix)
      PROVE  Promise!Next
  <2>1. /\ disk' = disk
        /\ \A d \in Docs : task'[r][d] \in {NoTask, QueuedTask}
        /\ \A s \in Runs \ {r} : task'[s] = task[s] /\ run'[s] = run[s]
    BY <1>1, <1>3 DEF Start, TypeOK
  <2>2. PICK rs \in SUBSET Runs : rs = {r}
    OBVIOUS
  <2>3. /\ \A s \in rs, d \in Docs : task'[s][d] \in {NoTask, QueuedTask}
        /\ \A s \in Runs \ rs : task'[s] = task[s] /\ run'[s] = run[s]
    BY <2>1, <2>2
  <2> QED BY <2>1, <2>3, RunsClose
<1>4. ASSUME NEW r \in Runs, (\E k \in Docs : PruneKey(r, k)) \/ EndPrune(r)
      PROVE  UNCHANGED Promise!vars
  <2>1. UNCHANGED <<disk, task>>
    BY <1>4 DEF PruneKey, EndPrune
  <2>2. ASSUME NEW s \in Runs PROVE run'[s].fix = run[s].fix
    <3>1. run[s] \in Run /\ run[r] \in Run
      BY <1>1 DEF TypeOK
    <3>2. CASE EndPrune(r)
      BY <1>1, <3>1, <3>2 DEF EndPrune, TypeOK, Run
    <3>3. ASSUME NEW k \in Docs, PruneKey(r, k) PROVE run'[s].fix = run[s].fix
      BY <1>1, <3>1, <3>3 DEF PruneKey, TypeOK, Run
    <3> QED BY <1>4, <3>2, <3>3
  <2> QED BY <1>2, <2>1, <2>2
<1>5. ASSUME NEW r \in Runs, Save(r)
      PROVE  Promise!Next
  <2>1. /\ disk' = disk
        /\ \A d \in Docs : task'[r][d] \in {NoTask, QueuedTask}
        /\ \A s \in Runs \ {r} : task'[s] = task[s] /\ run'[s] = run[s]
    BY <1>1, <1>5 DEF Save, NoTasks, TypeOK
  <2>2. PICK rs \in SUBSET Runs : rs = {r}
    OBVIOUS
  <2>3. /\ \A s \in rs, d \in Docs : task'[s][d] \in {NoTask, QueuedTask}
        /\ \A s \in Runs \ rs : task'[s] = task[s] /\ run'[s] = run[s]
    BY <2>1, <2>2
  <2> QED BY <2>1, <2>3, RunsClose
<1>6. ASSUME NEW d \in Docs, NEW v \in Contents \cup {None},
             \A e \in Docs : Holds(e)' = IF e = d THEN v ELSE Holds(e),
             task' = Disturbed(d, v), run' = run
      PROVE  Promise!Next
  <2>1. ASSUME NEW s \in Runs, NEW e \in Docs
        PROVE  /\ e # d => task'[s][e].held = task[s][e].held
               /\ e = d /\ Working(s, e) => task'[s][e].held = task[s][e].held \cup {v}
               /\ e = d /\ ~ Working(s, e) => task'[s][e].held = {}
    BY <1>1, <1>6, DisturbedHeld
  <2>2. \A s \in Runs, e \in Docs : AnswerOf(s, e)' = AnswerOf(s, e)
    BY <1>1, <1>6, DisturbedFields DEF AnswerOf, Working
  <2> QED BY <1>1, <1>6, <2>1, <2>2, FileChanges, SMTT(30)
<1>7. ASSUME NEW d \in Docs, NEW c \in Contents, Edit(d, c)
      PROVE  Promise!Next
  <2>1. [content |-> c, mtime |-> clock + 1] \in File
    BY <1>1 DEF TypeOK, File
  <2>2. \A e \in Docs : Holds(e)' = IF e = d THEN c ELSE Holds(e)
    BY <1>1, <1>7, <2>1, NoneAssumption DEF Holds, Edit, TypeOK
  <2>3. task' = Disturbed(d, c) /\ run' = run
    BY <1>7 DEF Edit
  <2> QED BY <1>6, <2>2, <2>3
<1>8. ASSUME NEW d \in Docs, Delete(d)
      PROVE  Promise!Next
  <2>1. \A e \in Docs : Holds(e)' = IF e = d THEN None ELSE Holds(e)
    BY <1>1, <1>8 DEF Holds, Delete, TypeOK
  <2>2. task' = Disturbed(d, None) /\ run' = run
    BY <1>8 DEF Delete
  <2> QED BY <1>6, <2>1, <2>2
<1>9. ASSUME Restart \/ TornSave
      PROVE  Promise!Next
  <2>1. /\ disk' = disk
        /\ \A s \in Runs, d \in Docs : task'[s][d] \in {NoTask, QueuedTask}
    BY <1>9 DEF Restart, TornSave, NoTasks
  <2> QED BY <2>1, RunsClose
<1>10. ASSUME (\E d \in Docs : Forget(d)) \/ UNCHANGED vars
       PROVE  UNCHANGED Promise!vars
  BY <1>2, <1>10 DEF Forget, vars
<1> QED
  BY <1>3, <1>4, <1>5, <1>7, <1>8, <1>9, <1>10, TaskPromise DEF Next, RunStep, UserStep

\* In the beginning no task has begun and nothing was promised.
LEMMA InitPromise == Init => Promise!Init
<1> SUFFICES ASSUME Init PROVE Promise!Init
  OBVIOUS
<1>1. \A r \in Runs, d \in Docs : AnswerOf(r, d) = "idle" /\ task[r][d].held = {}
  <2> SUFFICES ASSUME NEW r \in Runs, NEW d \in Docs
               PROVE  AnswerOf(r, d) = "idle" /\ task[r][d].held = {}
    OBVIOUS
  <2>1. task[r][d].pc = "none" /\ task[r][d].held = {}
    BY DEF Init, NoTasks, NoTask
  <2> QED BY <2>1, InitTypeOK, AnswerIs
<1>2. nowBar \in [Docs -> Contents \cup {None}]
  BY InitTypeOK, HoldsType DEF nowBar
<1> QED BY <1>1, <1>2 DEF Promise!Init, windowBar, answerBar

\* What a task at work may still answer with is something the file held while
\* it was at work.
THEOREM HeldTheorem == Spec => []HeldInv
<1>1. VersionInv /\ HeldInv /\ [Next]_vars => HeldInv'
  BY NextHeldInv
<1>2. QED
  BY <1>1, InitHeldInv, VersionTheorem, PTL DEF Spec

\* The linter with its cache implements the promise of the linter without one:
\* every answer describes a content the file held while its task was at work,
\* or is one of a raced fix's entry.
THEOREM PromiseTheorem == Spec => PromiseKept
<1>1. VersionInv /\ HeldInv /\ TypeOK' /\ [Next]_vars => [Promise!Next]_(Promise!vars)
  BY NextPromise
<1>2. QED
  BY <1>1, InitPromise, VersionTheorem, TypeTheorem, HeldTheorem, PTL
  DEF Spec, PromiseKept, Promise!Spec

----------------------------------------------------------------------------
(* The cache file is exact.                                                *)

\* A step of one task keeps the agreement of runs and entries if its outcome
\* agrees with its entry.
LEMMA SoloOneTask ==
  ASSUME TypeOK, SoloInv, NEW r \in Runs, NEW d \in Docs, NEW u \in Task,
         task' = [task EXCEPT ![r][d] = u], run' = run, disk' = disk,
         task[r][d].pc # "none", u.pc # "none", run[r].phase # "prune",
         \A e \in Docs \ {d} : cache'[e] = cache[e],
         u.pc = "done" /\ u.text = Failed => cache'[d] = None,
         u.pc = "done" /\ u.text # Failed => cache'[d] # None,
         u.pc = "done" /\ u.text # Failed /\ u.stamp # None
           => cache'[d].mtime = u.stamp.mtime /\ cache'[d].size = u.stamp.size,
         /\ u.pc \notin {"relint", "restat"} /\ ~ (u.pc = "done" /\ u.text = Failed)
         /\ u.stamp # None /\ ~ u.foreign
         => Current(u.stamp, d)
  PROVE  SoloInv'
<1>1. /\ task'[r][d] = u
      /\ \A s \in Runs, e \in Docs : s # r \/ e # d => task'[s][e] = task[s][e]
  BY DEF TypeOK
<1>2. run[r].phase # "idle" /\ d \in run[r].docs
  BY DEF SoloInv, TasksOfRuns
<1>3. ~ Watch => \A s \in Runs : run[s].phase # "idle" => s = r
  BY <1>2 DEF SoloInv, RunsApart
<1>4. RunsApart'
  BY DEF SoloInv, RunsApart
<1>5. TasksOfRuns'
  BY <1>1, <1>2 DEF SoloInv, TasksOfRuns
<1>6. KeysOfRuns'
  <2> SUFFICES ASSUME ~ Watch, NEW s \in Runs, NEW e \in Docs \ run[s].docs
               PROVE  /\ run[s].phase = "prune" /\ cache'[e] # None => e \in run[s].stale
                      /\ run[s].phase = "tasks" => cache'[e] = None
    BY DEF KeysOfRuns
  <2>1. run[s].phase # "idle" => e # d
    BY <1>2, <1>3
  <2> QED BY <2>1 DEF SoloInv, KeysOfRuns
<1>7. PrunesOthers'
  BY DEF SoloInv, PrunesOthers
<1>8. EntriesOfTasks'
  <2> SUFFICES ASSUME ~ Watch, NEW s \in Runs, NEW e \in Docs, task'[s][e].pc = "done"
               PROVE  IF task'[s][e].text = Failed THEN cache'[e] = None
                      ELSE /\ cache'[e] # None
                           /\ task'[s][e].stamp # None =>
                                /\ cache'[e].mtime = task'[s][e].stamp.mtime
                                /\ cache'[e].size = task'[s][e].stamp.size
    BY DEF EntriesOfTasks
  <2>1. CASE s = r /\ e = d
    BY <1>1, <2>1
  <2>2. CASE s # r \/ e # d
    <3>1. task'[s][e] = task[s][e]
      BY <1>1, <2>2
    <3>2. run[s].phase # "idle"
      BY <3>1 DEF SoloInv, TasksOfRuns
    <3>3. cache'[e] = cache[e]
      BY <1>3, <2>2, <3>2
    <3> QED BY <3>1, <3>3 DEF SoloInv, EntriesOfTasks
  <2> QED BY <2>1, <2>2
<1>9. StampsCurrent'
  <2> SUFFICES ASSUME NEW s \in Runs, NEW e \in Docs,
                      task'[s][e].pc \notin {"relint", "restat"},
                      ~ (task'[s][e].pc = "done" /\ task'[s][e].text = Failed),
                      task'[s][e].stamp # None /\ ~ task'[s][e].foreign
               PROVE  Current(task[s][e].stamp, e)'
    BY DEF StampsCurrent
  <2>1. CASE s = r /\ e = d
    BY <1>1, <2>1 DEF Current
  <2>2. CASE s # r \/ e # d
    BY <1>1, <2>2 DEF SoloInv, StampsCurrent, Current
  <2> QED BY <2>1, <2>2
<1> QED BY <1>4, <1>5, <1>6, <1>7, <1>8, <1>9 DEF SoloInv

\* A change of a file leaves its tasks marked or about to take a new stamp.
LEMMA SoloChange ==
  ASSUME SoloInv, NEW d \in Docs, run' = run, cache' = cache,
         \A e \in Docs \ {d} : disk'[e] = disk[e],
         \A s \in Runs, e \in Docs :
           /\ task'[s][e].stamp = task[s][e].stamp
           /\ \/ /\ task'[s][e].pc = task[s][e].pc /\ task'[s][e].text = task[s][e].text
                 /\ e # d => task'[s][e].foreign = task[s][e].foreign
                 /\ e = d => task'[s][e].foreign
              \/ task'[s][e].pc = "relint" /\ Working(s, e)
  PROVE  SoloInv'
<1>1. RunsApart' /\ KeysOfRuns' /\ PrunesOthers'
  BY DEF SoloInv, RunsApart, KeysOfRuns, PrunesOthers
<1>2. TasksOfRuns'
  <2> SUFFICES ASSUME NEW r \in Runs, NEW e \in Docs
               PROVE  /\ task'[r][e].pc # "none" <=> run[r].phase # "idle" /\ e \in run[r].docs
                      /\ run[r].phase = "prune" => task'[r][e].pc \in {"none", "queued"}
    BY DEF TasksOfRuns
  <2>1. \/ task'[r][e].pc = task[r][e].pc
        \/ /\ task'[r][e].pc = "relint"
           /\ task[r][e].pc # "none" /\ task[r][e].pc # "queued"
    BY DEF Working
  <2> QED BY <2>1 DEF SoloInv, TasksOfRuns
<1>3. EntriesOfTasks'
  BY DEF SoloInv, EntriesOfTasks
<1>4. StampsCurrent'
  BY DEF SoloInv, StampsCurrent, Current
<1> QED BY <1>1, <1>2, <1>3, <1>4 DEF SoloInv

\* So do the steps of a task.
LEMMA TaskSolo ==
  ASSUME VersionInv, SoloInv, NEW r \in Runs, NEW d \in Docs, TaskStep(r, d)
  PROVE  SoloInv'
<1> DEFINE t == task[r][d]
<1>1. /\ TypeOK /\ t \in Task /\ task[r] \in [Docs -> Task]
      /\ disk \in [Docs -> File \cup {None}] /\ cache \in [Docs -> Entry \cup {None}]
  BY DEF VersionInv, TypeOK
<1>2. run[r].phase = "prune" => t.pc \in {"none", "queued"}
  BY DEF SoloInv, TasksOfRuns
<1>3. /\ t.pc \notin {"relint", "restat"} /\ ~ (t.pc = "done" /\ t.text = Failed)
      /\ t.stamp # None /\ ~ t.foreign
      => Current(t.stamp, d)
  BY DEF SoloInv, StampsCurrent
<1>4. ASSUME NEW u \in Task, task' = [task EXCEPT ![r][d] = u],
             UNCHANGED <<run, disk, cache>>,
             t.pc \notin {"none", "queued", "done"}, u.pc \notin {"none", "queued", "done"},
             u.stamp = t.stamp, u.foreign = t.foreign,
             t.pc \in {"relint", "restat"} => u.pc \in {"relint", "restat"}
      PROVE  SoloInv'
  <2> HIDE DEF t
  <2>1. \A e \in Docs \ {d} : cache'[e] = cache[e]
    BY <1>4
  <2>2. run[r].phase # "prune"
    BY <1>2, <1>4
  <2>3. t.pc # "none" /\ u.pc # "none" /\ u.pc # "done"
    BY <1>4
  <2>4. /\ u.pc \notin {"relint", "restat"} /\ ~ (u.pc = "done" /\ u.text = Failed)
        /\ u.stamp # None /\ ~ u.foreign
        => Current(u.stamp, d)
    BY <1>3, <1>4
  <2> QED BY <1>1, <1>4, <2>1, <2>2, <2>3, <2>4, SoloOneTask DEF t
<1>5. CASE Stat(r, d)
  <2> DEFINE u == [pc |-> "get", stamp |-> IF disk[d] = None THEN None ELSE StatOf(disk[d]),
                   text |-> None, foreign |-> FALSE, held |-> {Holds(d)}, raced |-> FALSE]
  <2>1. u \in Task
    BY <1>1, HoldsType DEF Task, Stamp, StatOf, File
  <2>2. /\ task' = [task EXCEPT ![r][d] = u] /\ UNCHANGED <<run, disk, cache>>
        /\ t.pc = "queued" /\ run[r].phase = "tasks"
    BY <1>5 DEF Stat
  <2>3. u.pc = "get" /\ (u.stamp # None => Current(u.stamp, d))
    BY DEF Current, StatOf
  <2> HIDE DEF u
  <2> QED BY <1>1, <2>1, <2>2, <2>3, SoloOneTask
<1>6. CASE Hit(r, d)
  <2> DEFINE u == [t EXCEPT !.pc = "done", !.text = cache[d].result,
                            !.held = {}, !.raced = cache[d].raced]
  <2>1. /\ u \in Task /\ task' = [task EXCEPT ![r][d] = u] /\ UNCHANGED <<run, disk, cache>>
        /\ cache[d].result # Failed
    <3>1. /\ cache[d] # None /\ task' = [task EXCEPT ![r][d] = u] /\ UNCHANGED <<run, disk, cache>>
      BY <1>6 DEF Hit, IsCacheValid
    <3>2. cache[d].result \in Contents /\ cache[d].raced \in BOOLEAN
      BY <1>1, <3>1 DEF Entry
    <3>3. u \in Task
      BY <1>1, <3>2 DEF Task
    <3> QED BY <3>1, <3>2, <3>3, FailedAssumption
  <2>2. /\ u.pc = "done" /\ u.text = cache[d].result /\ u.stamp = t.stamp
        /\ u.foreign = t.foreign /\ t.pc = "get"
    BY <1>1, <1>6 DEF Task, Hit
  <2>3. /\ cache[d] # None
        /\ cache[d].mtime = t.stamp.mtime /\ cache[d].size = t.stamp.size
    BY <1>6 DEF Hit, IsCacheValid
  <2> HIDE DEF u
  <2> QED BY <1>1, <1>2, <1>3, <2>1, <2>2, <2>3, SoloOneTask
<1>7. CASE Miss(r, d)
  <2> DEFINE u == [t EXCEPT !.pc = "read"]
  <2>1. u \in Task /\ task' = [task EXCEPT ![r][d] = u] /\ UNCHANGED <<run, disk, cache>>
    BY <1>1, <1>7 DEF Miss, Task
  <2>2. u.pc = "read" /\ u.stamp = t.stamp /\ u.foreign = t.foreign /\ t.pc = "get"
    BY <1>1, <1>7 DEF Task, Miss
  <2> HIDE DEF u, t
  <2> QED BY <1>4, <2>1, <2>2
<1>8. CASE Read(r, d)
  <2> DEFINE u == [t EXCEPT !.pc = "lint", !.text = disk[d].content]
  <2>1. u \in Task /\ task' = [task EXCEPT ![r][d] = u] /\ UNCHANGED <<run, disk, cache>>
    BY <1>1, <1>8 DEF Read, Task, File
  <2>2. u.pc = "lint" /\ u.stamp = t.stamp /\ u.foreign = t.foreign /\ t.pc = "read"
    BY <1>1, <1>8 DEF Task, Read
  <2> HIDE DEF u, t
  <2> QED BY <1>4, <2>1, <2>2
<1>9. CASE Lint(r, d)
  <2> DEFINE u == [t EXCEPT !.pc = IF WritesFix(r, d) THEN "write" ELSE "store"]
  <2>1. u \in Task /\ task' = [task EXCEPT ![r][d] = u] /\ UNCHANGED <<run, disk, cache>>
    BY <1>1, <1>9 DEF Lint, Task
  <2>2. /\ u.pc \in {"write", "store"} /\ u.stamp = t.stamp /\ u.foreign = t.foreign
        /\ t.pc = "lint"
    BY <1>1, <1>9 DEF Task, Lint
  <2> HIDE DEF u, t
  <2> QED BY <1>4, <2>1, <2>2
<1>10. CASE Write(r, d)
  <2>1. run' = run /\ cache' = cache /\ \A e \in Docs \ {d} : disk'[e] = disk[e]
    BY <1>1, <1>10 DEF Write
  <2>2. PICK output \in Contents :
          \A s \in Runs, e \in Docs :
            /\ task'[s][e].stamp = task[s][e].stamp
            /\ \/ /\ task'[s][e].pc = task[s][e].pc /\ task'[s][e].text = task[s][e].text
                  /\ e # d => task'[s][e].foreign = task[s][e].foreign
                  /\ e = d => task'[s][e].foreign
               \/ task'[s][e].pc = "relint" /\ Working(s, e)
    BY <1>10, WriteChanges
  <2> QED BY <2>1, <2>2, SoloChange
<1>11. CASE Relint(r, d)
  <2> DEFINE u == [t EXCEPT !.pc = "restat"]
  <2>1. u \in Task /\ task' = [task EXCEPT ![r][d] = u] /\ UNCHANGED <<run, disk, cache>>
    BY <1>1, <1>11 DEF Relint, Task
  <2>2. u.pc = "restat" /\ u.stamp = t.stamp /\ u.foreign = t.foreign /\ t.pc = "relint"
    BY <1>1, <1>11 DEF Task, Relint
  <2> HIDE DEF u, t
  <2> QED BY <1>4, <2>1, <2>2
<1>12. CASE Restat(r, d)
  <2> DEFINE u == [t EXCEPT !.pc = "store", !.stamp = StatOf(disk[d]), !.raced = t.foreign]
  <2>1. /\ u \in Task /\ task' = [task EXCEPT ![r][d] = u] /\ UNCHANGED <<run, disk, cache>>
        /\ disk[d] # None /\ t.pc = "restat"
    BY <1>1, <1>12 DEF Restat, Task, Stamp, StatOf, File
  <2>2. u.pc = "store" /\ u.stamp = StatOf(disk[d])
    BY <1>1 DEF Task
  <2>3. Current(u.stamp, d)
    BY <2>1, <2>2 DEF Current, StatOf
  <2> HIDE DEF u
  <2> QED BY <1>1, <1>2, <2>1, <2>2, <2>3, SoloOneTask
<1>13. CASE Store(r, d)
  <2> DEFINE u == [t EXCEPT !.pc = "done", !.held = {}]
  <2>1. /\ u \in Task /\ task' = [task EXCEPT ![r][d] = u] /\ UNCHANGED <<run, disk>>
        /\ cache'[d] = EntryToStore(t) /\ \A e \in Docs \ {d} : cache'[e] = cache[e]
        /\ t.pc = "store"
    BY <1>1, <1>13 DEF Store, Task
  <2>2. u.pc = "done" /\ u.text = t.text /\ u.stamp = t.stamp /\ u.foreign = t.foreign
    BY <1>1 DEF Task
  <2>3. t.text # Failed
    BY <2>1, FailedAssumption DEF VersionInv, TextRead
  <2>4. /\ cache'[d] # None
        /\ t.stamp # None =>
             cache'[d].mtime = t.stamp.mtime /\ cache'[d].size = t.stamp.size
    <3>1. EntryToStore(t) \in Entry
      BY <1>1, <2>1, SizeAssumption
      DEF VersionInv, TextRead, EntryToStore, StampToStore, Entry, Task, Stamp
    <3>2. cache'[d] # None
      BY <2>1, <3>1, NoneAssumption
    <3>3. EntryToStore(t).mtime = StampToStore(t).mtime /\ EntryToStore(t).size = StampToStore(t).size
      BY DEF EntryToStore
    <3>4. t.stamp # None => StampToStore(t) = t.stamp
      BY DEF StampToStore
    <3> QED BY <2>1, <3>2, <3>3, <3>4
  <2> HIDE DEF u
  <2> QED BY <1>1, <1>2, <1>3, <2>1, <2>2, <2>3, <2>4, SoloOneTask
<1>14. CASE Fail(r, d)
  <2> DEFINE u == [t EXCEPT !.pc = "done", !.text = Failed, !.held = {}]
  <2>1. /\ u \in Task /\ task' = [task EXCEPT ![r][d] = u] /\ UNCHANGED <<run, disk>>
        /\ cache'[d] = None /\ \A e \in Docs \ {d} : cache'[e] = cache[e]
        /\ t.pc \notin {"none", "queued", "done"}
    BY <1>1, <1>14 DEF Fail, Task
  <2>2. u.pc = "done" /\ u.text = Failed
    BY <1>1 DEF Task
  <2> HIDE DEF u
  <2> QED BY <1>1, <1>2, <2>1, <2>2, SoloOneTask
<1> QED
  BY <1>5, <1>6, <1>7, <1>8, <1>9, <1>10, <1>11, <1>12, <1>13, <1>14 DEF TaskStep

\* And so does every other step.
LEMMA NextSoloInv == VersionInv /\ SoloInv /\ [Next]_vars => SoloInv'
<1> SUFFICES ASSUME VersionInv, SoloInv, [Next]_vars PROVE SoloInv'
  OBVIOUS
<1>1. TypeOK
  BY DEF VersionInv
<1> USE <1>1 DEF TypeOK
<1>2. ASSUME NEW r \in Runs, NEW docs \in SUBSET Docs, NEW fix \in BOOLEAN,
             Start(r, docs, fix)
      PROVE  SoloInv'
  <2> DEFINE new == [phase |-> "prune", fix |-> fix, docs |-> docs,
                     stale |-> {k \in Docs \ docs : cache[k] # None}]
  <2>1. /\ run'[r] = new
        /\ \A s \in Runs : s # r => run'[s] = run[s] /\ task'[s] = task[s]
        /\ task'[r] = [d \in Docs |-> IF d \in docs THEN QueuedTask ELSE NoTask]
        /\ cache' = cache /\ disk' = disk
        /\ Watch \/ \A s \in Runs : run[s].phase = "idle"
    BY <1>2 DEF Start
  <2>2. /\ new.phase = "prune" /\ new.docs = docs
        /\ new.stale = {k \in Docs \ docs : cache[k] # None}
    OBVIOUS
  <2>3. \A d \in Docs : /\ task'[r][d].pc = IF d \in docs THEN "queued" ELSE "none"
                        /\ task'[r][d].stamp = None
    BY <2>1 DEF QueuedTask, NoTask
  <2> HIDE DEF new
  <2>4. RunsApart'
    BY <2>1 DEF RunsApart
  <2>5. TasksOfRuns'
    BY <2>1, <2>2, <2>3 DEF SoloInv, TasksOfRuns
  <2>6. KeysOfRuns'
    BY <2>1, <2>2 DEF SoloInv, KeysOfRuns
  <2>7. PrunesOthers'
    BY <2>1, <2>2 DEF SoloInv, PrunesOthers
  <2>8. EntriesOfTasks'
    BY <2>1, <2>3 DEF SoloInv, EntriesOfTasks
  <2>9. StampsCurrent'
    BY <2>1, <2>3 DEF SoloInv, StampsCurrent, Current
  <2> QED BY <2>4, <2>5, <2>6, <2>7, <2>8, <2>9 DEF SoloInv
<1>3. ASSUME NEW r \in Runs, NEW k \in Docs, PruneKey(r, k)
      PROVE  SoloInv'
  <2>1. /\ run[r].phase = "prune" /\ k \in run[r].stale
        /\ cache' = [cache EXCEPT ![k] = None]
        /\ UNCHANGED <<disk, task>>
    BY <1>3 DEF PruneKey
  <2>2. \A s \in Runs : /\ run'[s].phase = run[s].phase /\ run'[s].docs = run[s].docs
                        /\ run'[s].stale = IF s = r THEN run[s].stale \ {k} ELSE run[s].stale
    <3> SUFFICES ASSUME NEW s \in Runs
                 PROVE  /\ run'[s].phase = run[s].phase /\ run'[s].docs = run[s].docs
                        /\ run'[s].stale = IF s = r THEN run[s].stale \ {k} ELSE run[s].stale
      OBVIOUS
    <3>1. run[s] \in Run /\ run[r] \in Run
      OBVIOUS
    <3>2. run' = [run EXCEPT ![r].stale = @ \ {k}]
      BY <1>3 DEF PruneKey
    <3> QED BY <3>1, <3>2 DEF Run
  <2>3. RunsApart'
    BY <2>2 DEF SoloInv, RunsApart
  <2>4. TasksOfRuns'
    BY <2>1, <2>2 DEF SoloInv, TasksOfRuns
  <2>5. KeysOfRuns'
    <3> SUFFICES ASSUME ~ Watch, NEW s \in Runs, NEW e \in Docs \ run[s].docs
                 PROVE  /\ run'[s].phase = "prune" /\ cache'[e] # None => e \in run'[s].stale
                        /\ run'[s].phase = "tasks" => cache'[e] = None
      BY <2>2 DEF KeysOfRuns
    <3>1. cache'[e] # None => cache[e] # None /\ e # k
      BY <2>1
    <3> QED BY <2>2, <3>1 DEF SoloInv, KeysOfRuns
  <2>6. PrunesOthers'
    BY <2>2 DEF SoloInv, PrunesOthers
  <2>7. EntriesOfTasks'
    <3> SUFFICES ASSUME ~ Watch, NEW s \in Runs, NEW e \in Docs, task[s][e].pc = "done"
                 PROVE  e # k
      BY <2>1 DEF SoloInv, EntriesOfTasks
    <3>1. run[s].phase # "idle" /\ e \in run[s].docs
      BY DEF SoloInv, TasksOfRuns
    <3>2. s = r
      BY <2>1, <3>1 DEF SoloInv, RunsApart
    <3> QED BY <2>1, <3>1, <3>2 DEF SoloInv, PrunesOthers
  <2>8. StampsCurrent'
    BY <2>1 DEF SoloInv, StampsCurrent, Current
  <2> QED BY <2>3, <2>4, <2>5, <2>6, <2>7, <2>8 DEF SoloInv
<1>4. ASSUME NEW r \in Runs, EndPrune(r)
      PROVE  SoloInv'
  <2>1. /\ run[r].phase = "prune" /\ run[r].stale = {}
        /\ UNCHANGED <<disk, task, cache>>
    BY <1>4 DEF EndPrune
  <2>2. ASSUME NEW s \in Runs
        PROVE  /\ run'[s].phase = IF s = r THEN "tasks" ELSE run[s].phase
               /\ run'[s].docs = run[s].docs /\ run'[s].stale = run[s].stale
    <3>1. run[s] \in Run /\ run[r] \in Run
      OBVIOUS
    <3> QED BY <1>4, <3>1 DEF EndPrune, Run
  <2>3. RunsApart'
    BY <2>1, <2>2 DEF SoloInv, RunsApart
  <2>4. TasksOfRuns'
    BY <2>1, <2>2 DEF SoloInv, TasksOfRuns
  <2>5. KeysOfRuns'
    BY <2>1, <2>2 DEF SoloInv, KeysOfRuns
  <2>6. PrunesOthers'
    BY <2>2 DEF SoloInv, PrunesOthers
  <2>7. EntriesOfTasks'
    BY <2>1 DEF SoloInv, EntriesOfTasks
  <2>8. StampsCurrent'
    BY <2>1 DEF SoloInv, StampsCurrent, Current
  <2> QED BY <2>3, <2>4, <2>5, <2>6, <2>7, <2>8 DEF SoloInv
<1>5. ASSUME NEW rs \in SUBSET Runs, disk' = disk,
             rs = Runs \/ cache' = cache,
             \A s \in rs : run'[s] = NoRun /\ task'[s] = NoTasks,
             \A s \in Runs \ rs : run'[s] = run[s] /\ task'[s] = task[s]
      PROVE  SoloInv'
  <2>1. \A s \in rs : /\ run'[s].phase = "idle" /\ run'[s].stale = {}
                      /\ \A d \in Docs : task'[s][d].pc = "none" /\ task'[s][d].stamp = None
    BY <1>5 DEF NoRun, NoTasks, NoTask
  <2>2. RunsApart'
    BY <1>5, <2>1 DEF SoloInv, RunsApart
  <2>3. TasksOfRuns'
    BY <1>5, <2>1 DEF SoloInv, TasksOfRuns
  <2>4. KeysOfRuns'
    BY <1>5, <2>1 DEF SoloInv, KeysOfRuns
  <2>5. PrunesOthers'
    BY <1>5, <2>1 DEF SoloInv, PrunesOthers
  <2>6. EntriesOfTasks'
    BY <1>5, <2>1 DEF SoloInv, EntriesOfTasks
  <2>7. StampsCurrent'
    BY <1>5, <2>1 DEF SoloInv, StampsCurrent, Current
  <2> QED BY <2>2, <2>3, <2>4, <2>5, <2>6, <2>7 DEF SoloInv
<1>6. ASSUME NEW r \in Runs, Save(r)
      PROVE  SoloInv'
  <2>1. PICK rs \in SUBSET Runs : rs = {r}
    OBVIOUS
  <2>2. /\ disk' = disk /\ cache' = cache
        /\ \A s \in rs : run'[s] = NoRun /\ task'[s] = NoTasks
        /\ \A s \in Runs \ rs : run'[s] = run[s] /\ task'[s] = task[s]
    BY <1>6, <2>1 DEF Save
  <2> QED BY <1>5, <2>2
<1>7. ASSUME Restart \/ TornSave
      PROVE  SoloInv'
  BY <1>5, <1>7 DEF Restart, TornSave
<1>8. ASSUME NEW d \in Docs, NEW v \in Contents \cup {None}, task' = Disturbed(d, v),
             run' = run, cache' = cache, \A e \in Docs \ {d} : disk'[e] = disk[e]
      PROVE  SoloInv'
  <2>1. \A s \in Runs, e \in Docs :
          /\ task'[s][e].stamp = task[s][e].stamp
          /\ task'[s][e].pc = task[s][e].pc /\ task'[s][e].text = task[s][e].text
          /\ e # d => task'[s][e].foreign = task[s][e].foreign
          /\ e = d => task'[s][e].foreign
    BY <1>8, DisturbedFields
  <2> QED BY <1>8, <2>1, SoloChange
<1>9. ASSUME NEW d \in Docs, NEW c \in Contents, Edit(d, c)
      PROVE  SoloInv'
  BY <1>8, <1>9 DEF Edit
<1>10. ASSUME NEW d \in Docs, Delete(d)
      PROVE  SoloInv'
  BY <1>8, <1>10 DEF Delete
<1>11. ASSUME NEW d \in Docs, Forget(d)
       PROVE  SoloInv'
  BY <1>11 DEF Forget, SoloInv, RunsApart, TasksOfRuns, KeysOfRuns, PrunesOthers,
               EntriesOfTasks, StampsCurrent, Current
<1>12. CASE UNCHANGED vars
  BY <1>12 DEF vars, SoloInv, RunsApart, TasksOfRuns, KeysOfRuns, PrunesOthers,
               EntriesOfTasks, StampsCurrent, Current
<1> QED
  BY <1>2, <1>3, <1>4, <1>6, <1>7, <1>9, <1>10, <1>11, <1>12, TaskSolo
  DEF Next, RunStep, UserStep

\* In the beginning there is no run.
LEMMA InitSoloInv == Init => SoloInv
BY DEF Init, NoRun, NoTasks, NoTask, SoloInv, RunsApart, TasksOfRuns, KeysOfRuns,
       PrunesOthers, EntriesOfTasks, StampsCurrent

\* What a run leaves in the cache: runs and entries agree.
THEOREM SoloTheorem == Spec => []SoloInv
<1>1. VersionInv /\ SoloInv /\ [Next]_vars => SoloInv'
  BY NextSoloInv
<1>2. QED
  BY <1>1, InitSoloInv, VersionTheorem, PTL DEF Spec

\* A document linted without failure and disturbance has an entry the next
\* run accepts.
THEOREM EntryUsableTheorem == Spec => []EntryUsable
<1>1. SoloInv => EntryUsable
  <2> SUFFICES ASSUME SoloInv, ~ Watch, NEW r \in Runs, NEW d \in Docs,
                      task[r][d].pc = "done", task[r][d].text # Failed,
                      task[r][d].stamp # None, ~ task[r][d].foreign
               PROVE  cache[d] # None /\ Current(cache[d], d)
    BY DEF EntryUsable
  <2>1. /\ cache[d] # None
        /\ cache[d].mtime = task[r][d].stamp.mtime
        /\ cache[d].size = task[r][d].stamp.size
    BY DEF SoloInv, EntriesOfTasks
  <2>2. Current(task[r][d].stamp, d)
    BY DEF SoloInv, StampsCurrent
  <2> QED BY <2>1, <2>2 DEF Current
<1>2. QED
  BY <1>1, SoloTheorem, PTL

\* The cache file a run leaves has an entry for exactly the documents of the
\* run that did not fail.
THEOREM SaveExactTheorem == Spec => SaveExact
<1>1. TypeOK /\ SoloInv /\ [Next]_vars
        => [\A r \in Runs : Save(r) /\ ~ Watch =>
              {d \in Docs : saved'[d] # None}
                = {d \in run[r].docs : task[r][d].text # Failed}]_vars
  <2> SUFFICES ASSUME TypeOK, SoloInv, NEW r \in Runs, Save(r), ~ Watch
               PROVE  {d \in Docs : saved'[d] # None}
                        = {d \in run[r].docs : task[r][d].text # Failed}
    OBVIOUS
  <2>1. /\ saved' = cache /\ run[r].phase = "tasks"
        /\ \A d \in run[r].docs : task[r][d].pc = "done"
    BY DEF Save, CanSave, AllDone
  <2>2. \A d \in Docs \ run[r].docs : cache[d] = None
    BY <2>1 DEF SoloInv, KeysOfRuns
  <2>3. \A d \in Docs \cap run[r].docs : cache[d] # None <=> task[r][d].text # Failed
    BY <2>1 DEF SoloInv, EntriesOfTasks
  <2>4. run[r].docs \in SUBSET Docs
    BY DEF TypeOK, Run
  <2> QED BY <2>1, <2>2, <2>3, <2>4
<1>2. QED
  BY <1>1, TypeTheorem, SoloTheorem, PTL DEF Spec, SaveExact
=============================================================================
