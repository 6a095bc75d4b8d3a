-------------------------- MODULE KernelLifecycle --------------------------
(***************************************************************************)
(* The DSR kernel as the command line starts, awaits, uses and stops it:   *)
(* cli/kernel.ts, cli/kernel-daemon.ts, the launch in cli/env.ts and the   *)
(* connection of DsrTokenProvider.  Commands and daemons are processes;    *)
(* they share three files: the PID file, the socket and the ready file.    *)
(* KernelProcess itself is external: its start() leaves the socket and the *)
(* PID file, and on SIGTERM it takes both away and exits.                  *)
(***************************************************************************)
EXTENDS KernelProcesses, Integers, FiniteSets

\* A command is a slot here, which can be used again; None is also no file.
VARIABLES
  pidFile,     \* the daemon whose PID the file holds
  socketFile,  \* the daemon that made the socket file
  readyFile,   \* the daemon that wrote the ready file
  daemon,      \* daemon[k]: how far startDaemon has come
  loaded,      \* the daemons whose token graph holds the configured tokens
  signalled,   \* the daemons with a SIGTERM on its way
  process,     \* process[c]: what c runs, where it is, the daemon it spawned
  mishaps      \* history: what has ever got in the way

files == <<pidFile, socketFile, readyFile>>
lifeVars == <<files, daemon, loaded, signalled, process, mishaps>>

\* Commands that overlap, a daemon killed without a chance to clean up, a
\* start that outlasts the 5 s kernelStart polls, a bootstrap that throws.
Mishap == {"overlap", "crash", "slow", "bootstrap"}

Stage == {"none", "spawned", "started", "bootstrapped", "ready", "dead"}

\* "launch" and "poll" are inside kernelStart; "check" and "connect" inside
\* prepareEnvironment and the load of the token provider.
Process == [runs: {"none", "start", "lint"},
            pc: {"idle", "launch", "poll", "check", "connect"},
            child: Kernels \cup {None}]
NoProcess == [runs |-> "none", pc |-> "idle", child |-> None]

Running(k) == k # None /\ daemon[k] \notin {"none", "dead"}
Serving(k) == k # None /\ daemon[k] \in {"started", "bootstrapped", "ready"}

\* A command begins, perhaps while others are under way.
NoteOverlap ==
  mishaps' = IF \A b \in Commands : process[b] = NoProcess
             THEN mishaps ELSE mishaps \cup {"overlap"}

MayBegin(c) == process[c] = NoProcess /\ NoteOverlap

\* The bound: there is a daemon left for one more command besides those that
\* have yet to spawn one.
DaemonLeft ==
  Cardinality({k \in Kernels : daemon[k] = "none"})
    > Cardinality({b \in Commands : process[b].pc = "launch"})

----------------------------------------------------------------------------

LifeInit ==
  /\ pidFile = None /\ socketFile = None /\ readyFile = None
  /\ daemon = [k \in Kernels |-> "none"]
  /\ loaded = {}
  /\ signalled = {}
  /\ process = [c \in Commands |-> NoProcess]
  /\ mishaps = {}

\* design-lint kernel start --config-path ...
BeginStart(c) ==
  /\ MayBegin(c)
  /\ DaemonLeft
  /\ process' = [process EXCEPT ![c] =
                   [runs |-> "start", pc |-> "launch", child |-> None]]
  /\ UNCHANGED <<files, daemon, loaded, signalled>>

\* design-lint <files>: prepareEnvironment launches the kernel only if there
\* is no socket file.
BeginLint(c) ==
  /\ MayBegin(c)
  /\ socketFile = None => DaemonLeft
  /\ process' = [process EXCEPT ![c] =
                   [runs |-> "lint", child |-> None,
                    pc |-> IF socketFile = None THEN "launch" ELSE "connect"]]
  /\ UNCHANGED <<files, daemon, loaded, signalled>>

\* kernelStart returns: to the shell, or to prepareEnvironment.
ReturnFromStart(c) ==
  process' = [process EXCEPT ![c] =
                IF process[c].runs = "lint"
                THEN [@ EXCEPT !.pc = "check"] ELSE NoProcess]

\* The PID file names a process that runs: nothing is started or awaited.
AlreadyRunning(c) ==
  /\ process[c].pc = "launch"
  /\ Running(pidFile)
  /\ ReturnFromStart(c)
  /\ UNCHANGED <<files, daemon, loaded, signalled, mishaps>>

\* Faulty variant: the PID file is not looked at.
SpawnAnyway(c, k) ==
  /\ process[c].pc = "launch"
  /\ daemon[k] = "none"
  /\ daemon' = [daemon EXCEPT ![k] = "spawned"]
  /\ process' = [process EXCEPT ![c].pc = "poll", ![c].child = k]
  /\ UNCHANGED <<files, loaded, signalled, mishaps>>

\* The detached daemon is spawned; a ready file that is there stays.
Spawn(c, k) ==
  /\ process[c].pc = "launch"
  /\ ~ Running(pidFile)
  /\ daemon[k] = "none"
  /\ daemon' = [daemon EXCEPT ![k] = "spawned"]
  /\ process' = [process EXCEPT ![c].pc = "poll", ![c].child = k]
  /\ UNCHANGED <<files, loaded, signalled, mishaps>>

\* A poll finds a ready file, whoever wrote it.
PollReady(c) ==
  /\ process[c].pc = "poll"
  /\ readyFile # None
  /\ ReturnFromStart(c)
  /\ UNCHANGED <<files, daemon, loaded, signalled, mishaps>>

\* Faulty variant: the deadline is set anew whenever it passes.
PollForever(c) ==
  /\ process[c].pc = "poll"
  /\ readyFile = None
  /\ UNCHANGED lifeVars

\* The deadline passes: the daemon died, could not write its ready file or
\* is slow.  kernelStart prints an error, sets the exit code and returns.
PollTimeout(c) ==
  /\ process[c].pc = "poll"
  /\ readyFile = None
  /\ mishaps' = IF daemon[process[c].child] \in {"ready", "dead"}
                THEN mishaps ELSE mishaps \cup {"slow"}
  /\ ReturnFromStart(c)
  /\ UNCHANGED <<files, daemon, loaded, signalled>>

\* prepareEnvironment after kernelStart: without a socket it throws.
CheckSocket(c) ==
  /\ process[c].pc = "check"
  /\ process' = [process EXCEPT ![c] =
                   IF socketFile = None THEN NoProcess ELSE [@ EXCEPT !.pc = "connect"]]
  /\ UNCHANGED <<files, daemon, loaded, signalled, mishaps>>

\* DsrTokenProvider.load: the tokens the kernel has now, or an error if
\* nothing serves the socket.  The command ends either way.
ConnectLint(c) ==
  /\ process[c].pc = "connect"
  /\ process' = [process EXCEPT ![c] = NoProcess]
  /\ UNCHANGED <<files, daemon, loaded, signalled, mishaps>>

\* Faulty variant: a PID file that cannot be read is not told from a PID.
KernelStopUnread(c) ==
  /\ MayBegin(c)
  /\ IF pidFile # None /\ ~ Running(pidFile)
     THEN pidFile' = None /\ readyFile' = None /\ UNCHANGED <<socketFile, signalled>>
     ELSE signalled' = signalled \cup {pidFile} /\ UNCHANGED files
  /\ UNCHANGED <<daemon, loaded, process>>

\* design-lint kernel stop.
KernelStop(c) ==
  /\ MayBegin(c)
  /\ \/ pidFile = None /\ UNCHANGED <<files, signalled>>
     \/ /\ pidFile # None /\ ~ Running(pidFile)
        /\ pidFile' = None /\ readyFile' = None
        /\ UNCHANGED <<socketFile, signalled>>
     \/ /\ Running(pidFile)
        /\ signalled' = signalled \cup {pidFile}
        /\ UNCHANGED files
  /\ UNCHANGED <<daemon, loaded, process>>

----------------------------------------------------------------------------
(* The daemon.                                                             *)

\* kernel.start() has resolved.
KernelStarted(k) ==
  /\ daemon[k] = "spawned"
  /\ daemon' = [daemon EXCEPT ![k] = "started"]
  /\ pidFile' = k /\ socketFile' = k
  /\ UNCHANGED <<readyFile, loaded, signalled, process, mishaps>>

\* kernel.start() rejects, which ends the process.
StartRejected(k) ==
  /\ daemon[k] = "spawned"
  /\ daemon' = [daemon EXCEPT ![k] = "dead"]
  /\ UNCHANGED <<files, loaded, signalled, process, mishaps>>

\* bootstrapTokens; what it throws is logged and startDaemon goes on.
Bootstrap(k) ==
  /\ daemon[k] = "started"
  /\ daemon' = [daemon EXCEPT ![k] = "bootstrapped"]
  /\ \/ loaded' = loaded \cup {k} /\ UNCHANGED mishaps
     \/ mishaps' = mishaps \cup {"bootstrap"} /\ UNCHANGED loaded
  /\ UNCHANGED <<files, signalled, process>>

\* Faulty variant: the ready file is written once the kernel listens.
WriteReadyEarly(k) ==
  /\ daemon[k] \in {"started", "bootstrapped"}
  /\ readyFile' = k
  /\ daemon' = [daemon EXCEPT ![k] = IF @ = "started" THEN @ ELSE "ready"]
  /\ UNCHANGED <<pidFile, socketFile, loaded, signalled, process, mishaps>>

\* The ready file, if it can be written, and the handlers that unlink it.
WriteReady(k) ==
  /\ daemon[k] = "bootstrapped"
  /\ readyFile' \in {k, readyFile}
  /\ daemon' = [daemon EXCEPT ![k] = "ready"]
  /\ UNCHANGED <<pidFile, socketFile, loaded, signalled, process, mishaps>>

\* SIGTERM arrives: the kernel takes its files away, and once its handlers
\* are there startDaemon takes the ready file away.
Terminate(k) ==
  /\ k \in signalled /\ Running(k)
  /\ pidFile' = None /\ socketFile' = None
  /\ readyFile' = IF daemon[k] = "ready" THEN None ELSE readyFile
  /\ daemon' = [daemon EXCEPT ![k] = "dead"]
  /\ UNCHANGED <<loaded, signalled, process, mishaps>>

\* SIGKILL, or out of memory: every file stays.
Kill(k) ==
  /\ Running(k)
  /\ daemon' = [daemon EXCEPT ![k] = "dead"]
  /\ mishaps' = mishaps \cup {"crash"}
  /\ UNCHANGED <<files, loaded, signalled, process>>

----------------------------------------------------------------------------

CommandStep(c) ==
  \/ AlreadyRunning(c) \/ PollReady(c) \/ PollTimeout(c)
  \/ CheckSocket(c) \/ ConnectLint(c)
  \/ \E k \in Kernels : Spawn(c, k)

DaemonStep(k) ==
  KernelStarted(k) \/ StartRejected(k) \/ Bootstrap(k) \/ WriteReady(k)

LifeNext ==
  \/ \E c \in Commands :
       BeginStart(c) \/ BeginLint(c) \/ KernelStop(c) \/ CommandStep(c)
  \/ \E k \in Kernels : DaemonStep(k) \/ Terminate(k) \/ Kill(k)

LifeSpec == LifeInit /\ [][LifeNext]_lifeVars

\* A command that can go on does, and so does a daemon that was spawned.
FairLife ==
  /\ LifeSpec
  /\ \A c \in Commands : WF_lifeVars(CommandStep(c))
  /\ \A k \in Kernels : WF_lifeVars(DaemonStep(k))

----------------------------------------------------------------------------

\* Every variable keeps its type.
LifeTypeOK ==
  /\ {pidFile, socketFile, readyFile} \subseteq Kernels \cup {None}
  /\ daemon \in [Kernels -> Stage]
  /\ loaded \in SUBSET Kernels
  /\ signalled \in SUBSET Kernels
  /\ process \in [Commands -> Process]
  /\ mishaps \subseteq Mishap

\* The mishaps that can leave two kernels have not happened.
Orderly == mishaps \subseteq {"bootstrap"}

\* kernel.ts 115-118: when kernelStart returns because its poll found the
\* ready file, the kernel that the PID file names has its tokens, if nothing
\* ever got in the way.
StartMeansLoaded ==
  [][mishaps = {} => \A c \in Commands : PollReady(c) => pidFile \in loaded]_lifeVars

\* No two kernels serve at a time: the PID file, which only ever names one,
\* keeps a second from being started.
SingleKernel ==
  Orderly => \A j, k \in Kernels : Serving(j) /\ Serving(k) => j = k

\* Every command comes to an end, whatever becomes of the daemons it waits for.
CommandsReturn ==
  \A c \in Commands : process[c] # NoProcess ~> process[c] = NoProcess

\* Why there is only one kernel, and why it is loaded, as long as commands do
\* not overlap, no daemon is killed and none is slow: the inductive invariant.
OneCommand ==
  \A b, c \in Commands : process[b] # NoProcess /\ process[c] # NoProcess => b = c

\* While a daemon is on its way, the command that spawned it awaits it and no
\* other daemon runs.
Awaited ==
  /\ \A k \in Kernels :
       daemon[k] = "spawned" =>
         \E c \in Commands : process[c].pc = "poll" /\ process[c].child = k
  /\ \A c \in Commands : process[c].pc = "poll" =>
       /\ process[c].child # None
       /\ \A k \in Kernels : Running(k) => k = process[c].child

FilesTell ==
  /\ \A k \in Kernels : Serving(k) => pidFile = k
  /\ pidFile # None => Serving(pidFile)
  /\ readyFile # None => daemon[readyFile] = "ready"
  /\ \A k \in signalled : daemon[k] \notin {"none", "spawned"}

LoadedOnceBootstrapped ==
  "bootstrap" \notin mishaps =>
    \A k \in Kernels : daemon[k] \in {"bootstrapped", "ready"} => k \in loaded

KernelInv ==
  /\ LifeTypeOK
  /\ LoadedOnceBootstrapped
  /\ Orderly => OneCommand /\ Awaited /\ FilesTell
=============================================================================
