----------------------------- MODULE TokenGraph -----------------------------
(***************************************************************************)
(* The token graph in the DSR kernel and the commands that share it:       *)
(* cli/kernel-daemon.ts fills it theme by theme while it is already being  *)
(* served, cli/write.ts and cli/snapshot.ts send it one request, and       *)
(* cli/kernel-client.ts reads it in three queries.  The commands run side  *)
(* by side, a kernel may die and another take its place, and any step of a *)
(* conversation may fail.  The kernel is external: it may refuse a write,  *)
(* a deprecation is an entry of its ledger, forProperty('') lists what the *)
(* ledger does not name.                                                   *)
(***************************************************************************)
EXTENDS KernelProcesses, Integers, FiniteSets, Sequences

\* Each command is run once (a bound); None is also no pointer.
CONSTANTS
  Names,     \* names of tokens
  Themes,    \* the configured themes in their order: the names each defines
  Written,   \* pointers given to write commands (a bound)
  WithHttp   \* kernels that were not started with --no-http

ASSUME HttpAssumption == WithHttp \subseteq Kernels
ASSUME ThemesAssumption == Themes \in Seq(SUBSET Names)

VARIABLES
  kernel,    \* kernel[k]: the process and what its graph and ledger hold
  socket,    \* there is a socket file
  command    \* command[c]: a design-lint command and its conversation

vars == <<kernel, socket, command>>

\* A pointer as it is spelled: "#/x" in DTIF documents, "/x", "x".
Prefix == {"", "/", "#/", "/#/"}
Pointer == [prefix: Prefix, name: Names]
InDocument(x) == [prefix |-> "#/", name |-> x]

ASSUME WrittenAssumption == Written \subseteq Pointer

\* What a write command makes of the pointer it is given: it puts a slash in
\* front of whatever does not begin with one.
Sent(p) ==
  [p EXCEPT !.prefix = CASE @ = "" -> "/" [] @ = "#/" -> "/#/" [] OTHER -> @]

IsJsonPointer(p) == p.prefix = "#/"

\* "stage" counts the themes that bootstrapTokens has injected or given up.
Kernel == [state: {"none", "up", "dead"},
           stage: 0..Len(Themes),
           tokens: SUBSET Pointer,
           ledger: SUBSET Pointer]
NoKernel == [state |-> "none", stage |-> 0, tokens |-> {}, ledger |-> {}]

Up(k) == k # None /\ kernel[k].state = "up"
Live(k) == kernel[k].tokens \ kernel[k].ledger

Writes == {"add", "deprecate", "register", "configure"}
\* docs and export-design-system-md both make documents of what they read.
Reads == {"tokens", "documents"}
Kind == Writes \cup Reads \cup {"snapshot"}

\* "on" is the kernel it is connected to; a "stuck" link is one whose
\* disconnect has failed.  "took", "always" and "ever" are history: the kernel
\* has done what was asked; the tokens that were in the graph all through a
\* reading and were not added anew; what was in the graph or the ledger at
\* some moment of it.
Command == [runs: Kind \cup {None},
            pc: {"idle", "connect", "http", "request", "answer", "refusal", "cut",
                 "tokens", "deprecated", "components", "return", "ended"},
            pointer: Pointer \cup {None},
            on: Kernels \cup {None},
            link: {"none", "open", "stuck"},
            said: {"nothing", "done", "failed"},
            took: BOOLEAN,
            tokens: SUBSET Pointer,
            deprecations: SUBSET Pointer,
            always: SUBSET Pointer,
            ever: SUBSET Pointer]
Idle == [runs |-> None, pc |-> "idle", pointer |-> None, on |-> None, link |-> "none",
         said |-> "nothing", took |-> FALSE, tokens |-> {}, deprecations |-> {},
         always |-> {}, ever |-> {}]

TypeOK ==
  /\ kernel \in [Kernels -> Kernel]
  /\ socket \in BOOLEAN
  /\ command \in [Commands -> Command]

Init ==
  /\ kernel = [k \in Kernels |-> NoKernel]
  /\ socket = FALSE
  /\ command = [c \in Commands |-> Idle]

-----------------------------------------------------------------------------
(* The kernel.                                                             *)

\* The kernel k becomes g; readers of k live through it.
Becomes(k, g, commands) ==
  /\ kernel' = [kernel EXCEPT ![k] = g]
  /\ command' = [c \in Commands |->
       IF commands[c].on = k /\ commands[c].runs \in Reads
       THEN [commands[c] EXCEPT
               !.always = (@ \cap g.tokens) \ (kernel[k].ledger \ g.ledger),
               !.ever = @ \cup g.tokens \cup g.ledger]
       ELSE commands[c]]

\* A daemon starts and serves its socket; without a configuration it has
\* nothing to inject.
StartDaemon(k) ==
  /\ kernel[k].state = "none"
  /\ \A j \in Kernels : kernel[j].state # "up"
  /\ \E n \in {0, Len(Themes)} :
       kernel' = [kernel EXCEPT ![k] = [NoKernel EXCEPT !.state = "up", !.stage = n]]
  /\ socket' = TRUE
  /\ UNCHANGED command

\* One theme is parsed, which takes a while, and its tokens are added.
InjectTheme(k) ==
  /\ Up(k) /\ kernel[k].stage < Len(Themes)
  /\ LET n == kernel[k].stage + 1 IN
       Becomes(k, [kernel[k] EXCEPT !.stage = n,
                     !.tokens = @ \cup {InDocument(x) : x \in Themes[n]}], command)
  /\ UNCHANGED socket

\* Faulty variant: the theme that failed is counted twice.
BootstrapFailsTwice(k) ==
  /\ Up(k) /\ kernel[k].stage < Len(Themes)
  /\ kernel' = [kernel EXCEPT ![k].stage = Len(Themes) + 1]
  /\ UNCHANGED <<socket, command>>

\* A theme does not parse: the rest is given up and the daemon goes on.
BootstrapFails(k) ==
  /\ Up(k) /\ kernel[k].stage < Len(Themes)
  /\ kernel' = [kernel EXCEPT ![k].stage = Len(Themes)]
  /\ UNCHANGED <<socket, command>>

\* The kernel stops, or is killed and leaves its socket file.
Stop(k) ==
  /\ Up(k)
  /\ kernel' = [kernel EXCEPT ![k] = [NoKernel EXCEPT !.state = "dead"]]
  /\ socket' \in BOOLEAN
  /\ UNCHANGED command

\* Another program, an agent say, adds or deprecates a token.
OtherWrite(k) ==
  /\ Up(k)
  /\ \E x \in Names :
       LET p == InDocument(x) IN
         \/ /\ p \in Live(k)
            /\ Becomes(k, [kernel[k] EXCEPT !.ledger = @ \cup {p}], command)
         \/ /\ p \in kernel[k].ledger
            /\ Becomes(k, [kernel[k] EXCEPT !.tokens = @ \cup {p}, !.ledger = @ \ {p}], command)
  /\ UNCHANGED socket

-----------------------------------------------------------------------------
(* Write commands and the snapshot.                                        *)

Set(c, t) == command' = [command EXCEPT ![c] = t]
End(t, said) ==
  [t EXCEPT !.pc = "ended", !.said = said, !.on = None, !.pointer = None,
            !.tokens = {}, !.deprecations = {}, !.always = {}, !.ever = {}]

\* disconnect, of what is connected; it may fail.
Disconnects(t) ==
  IF t.link = "open" THEN {[t EXCEPT !.link = "none"], [t EXCEPT !.link = "stuck"]} ELSE {t}

\* What may come of a reading: tokens needs one, the pages of docs and the
\* document of export-design-system-md do without; writing them out may fail.
Outcomes(kind, tokens) ==
  IF kind = "tokens" /\ tokens = {} THEN {"failed"} ELSE {"done", "failed"}

\* A command begins.  Before it connects, rule configure may refuse its
\* options, and a read may find no configuration; a read looks for the socket
\* file first.
Begin(c) ==
  /\ command[c] = Idle
  /\ \E kind \in Kind, p \in Written :
       LET t == [Idle EXCEPT !.runs = kind, !.pc = "connect",
                   !.pointer = IF kind \in {"add", "deprecate"} THEN Sent(p) ELSE None] IN
         \/ /\ kind \in Reads => socket
            /\ Set(c, t)
         \/ kind \in Reads \cup {"configure"} /\ Set(c, End(t, "failed"))
         \/ /\ kind \in Reads /\ ~ socket
            /\ \E said \in Outcomes(kind, {}) : Set(c, End(t, said))
  /\ UNCHANGED <<kernel, socket>>

\* By the socket; a write and a snapshot turn to HTTP when that fails, for
\* want of a kernel or of time.
Connect(c) ==
  /\ command[c].pc = "connect" /\ command[c].runs \notin Reads
  /\ \/ \E k \in Kernels :
          /\ Up(k) /\ socket
          /\ Set(c, [command[c] EXCEPT !.pc = "request", !.on = k, !.link = "open"])
     \/ Set(c, [command[c] EXCEPT !.pc = "http"])
  /\ UNCHANGED <<kernel, socket>>

ConnectHttp(c) ==
  /\ command[c].pc = "http"
  /\ \/ \E k \in WithHttp :
          /\ Up(k)
          /\ Set(c, [command[c] EXCEPT !.pc = "request", !.on = k, !.link = "open"])
     \/ Set(c, End(command[c], "failed"))
  /\ UNCHANGED <<kernel, socket>>

\* The graph after the kernel has done what t asks for.  Whether a token that
\* is added anew stays deprecated is the kernel's affair.
Effect(k, t, after) ==
  \/ /\ t.runs = "add"
     /\ \E ledger \in {kernel[k].ledger, kernel[k].ledger \ {t.pointer}} :
          Becomes(k, [kernel[k] EXCEPT !.tokens = @ \cup {t.pointer}, !.ledger = ledger], after)
  \/ /\ t.runs = "deprecate"
     /\ Becomes(k, [kernel[k] EXCEPT !.ledger = @ \cup {t.pointer}], after)
  \/ /\ t.runs \notin {"add", "deprecate"}
     /\ Becomes(k, kernel[k], after)

\* The kernel does as it is asked; its answer arrives, or is lost.
Accept(c) ==
  /\ command[c].pc = "request" /\ Up(command[c].on)
  /\ \E pc \in {"answer", "cut"} :
       Effect(command[c].on, command[c],
              [command EXCEPT ![c].pc = pc, ![c].took = TRUE])
  /\ UNCHANGED socket

\* The kernel answers with an error; the request gets nowhere.
Refuse(c) ==
  /\ command[c].pc = "request" /\ Up(command[c].on)
  /\ Set(c, [command[c] EXCEPT !.pc = "refusal"])
  /\ UNCHANGED <<kernel, socket>>

Cut(c) ==
  /\ command[c].pc = "request"
  /\ Set(c, [command[c] EXCEPT !.pc = "cut"])
  /\ UNCHANGED <<kernel, socket>>

\* Faulty variant: the error of an answer is overlooked, as a snapshot does.
EndWriteUnread(c) ==
  /\ command[c].runs \in Writes /\ command[c].pc \in {"answer", "refusal", "cut"}
  /\ \E t \in Disconnects(command[c]) :
       Set(c, End(t, IF t.pc # "cut" /\ t.link # "stuck" THEN "done" ELSE "failed"))
  /\ UNCHANGED <<kernel, socket>>

\* A write prints that it is done as soon as it is answered without an error,
\* and disconnects whatever came of the request: finally.  A failing
\* disconnect makes a failed command of it.
EndWrite(c) ==
  /\ command[c].runs \in Writes /\ command[c].pc \in {"answer", "refusal", "cut"}
  /\ \E t \in Disconnects(command[c]) :
       Set(c, End(t, IF t.pc = "answer" /\ t.link # "stuck" THEN "done" ELSE "failed"))
  /\ UNCHANGED <<kernel, socket>>

\* A snapshot does not look at the error of an answer, and disconnects only
\* when there was one.
EndSnapshot(c) ==
  /\ command[c].runs = "snapshot" /\ command[c].pc \in {"answer", "refusal", "cut"}
  /\ IF command[c].pc = "cut"
     THEN Set(c, End(command[c], "failed"))
     ELSE \E t \in Disconnects(command[c]) :
            Set(c, End(t, IF t.link # "stuck" THEN "done" ELSE "failed"))
  /\ UNCHANGED <<kernel, socket>>

-----------------------------------------------------------------------------
(* tryFetchKernelData.                                                     *)

\* Faulty variant: the deprecations are asked for first.
DeprecatedFirst(pc) == CASE pc = "connect" -> "deprecated"
                         [] pc = "deprecated" -> "tokens"
                         [] pc = "tokens" -> "components"
                         [] OTHER -> "return"

\* Three queries, one after the other; the graph may change in between.
After(pc) == CASE pc = "connect" -> "tokens"
               [] pc = "tokens" -> "deprecated"
               [] pc = "deprecated" -> "components"
               [] OTHER -> "return"

ConnectReader(c) ==
  /\ command[c].pc = "connect" /\ command[c].runs \in Reads
  /\ \E k \in Kernels :
       /\ Up(k) /\ socket
       /\ Set(c, [command[c] EXCEPT !.pc = After(@), !.on = k, !.link = "open",
                    !.always = kernel[k].tokens,
                    !.ever = kernel[k].tokens \cup kernel[k].ledger])
  /\ UNCHANGED <<kernel, socket>>

\* The tokens that the ledger does not name; what is no JSON pointer is left
\* out.
QueryTokens(c) ==
  /\ command[c].pc = "tokens" /\ Up(command[c].on)
  /\ Set(c, [command[c] EXCEPT !.pc = After(@),
               !.tokens = {p \in Live(command[c].on) : IsJsonPointer(p)}])
  /\ UNCHANGED <<kernel, socket>>

QueryDeprecated(c) ==
  /\ command[c].pc = "deprecated" /\ Up(command[c].on)
  /\ Set(c, [command[c] EXCEPT !.pc = After(@),
               !.deprecations = kernel[command[c].on].ledger])
  /\ UNCHANGED <<kernel, socket>>

QueryComponents(c) ==
  /\ command[c].pc = "components" /\ Up(command[c].on)
  /\ Set(c, [command[c] EXCEPT !.pc = After(@)])
  /\ UNCHANGED <<kernel, socket>>

\* The data are there and the connection is given up, whether that works or
\* not.
Return(c) ==
  /\ command[c].pc = "return"
  /\ \E t \in Disconnects(command[c]), said \in Outcomes(command[c].runs, command[c].tokens) :
       Set(c, End(t, said))
  /\ UNCHANGED <<kernel, socket>>

\* Anything that goes wrong makes null of the data; the connection is given up
\* as well.
ReadFails(c) ==
  /\ command[c].runs \in Reads
  /\ command[c].pc \in {"connect", "tokens", "deprecated", "components"}
  /\ \E t \in Disconnects(command[c]), said \in Outcomes(command[c].runs, {}) :
       Set(c, End(t, said))
  /\ UNCHANGED <<kernel, socket>>

Next ==
  \/ \E k \in Kernels :
       \/ StartDaemon(k) \/ InjectTheme(k) \/ BootstrapFails(k) \/ Stop(k)
       \/ OtherWrite(k)
  \/ \E c \in Commands :
       \/ Begin(c) \/ Connect(c) \/ ConnectHttp(c) \/ Accept(c) \/ Refuse(c) \/ Cut(c)
       \/ EndWrite(c) \/ EndSnapshot(c)
       \/ ConnectReader(c) \/ QueryTokens(c) \/ QueryDeprecated(c)
       \/ QueryComponents(c) \/ Return(c) \/ ReadFails(c)

Spec == Init /\ [][Next]_vars

-----------------------------------------------------------------------------
(* Properties.                                                             *)

\* A token is in one of the two lists if it was there all the while, though
\* it may be deprecated half way: the tokens are asked for before the
\* deprecations.
NothingLost(t) ==
  \A p \in t.always : IsJsonPointer(p) => p \in t.tokens \cup t.deprecations

\* Nothing is listed that was never there while the reader was.
NothingMadeUp(t) == t.tokens \cup t.deprecations \subseteq t.ever

\* What tokens, docs and export-design-system-md get of a kernel
\* (kernel-client.ts 42-108) may mix moments, since it is read in three queries
\* while others write, but it loses no token and makes none up, and it is all
\* of one kernel.  Only the last of the three looks at the deprecations.
ViewComplete ==
  \A c \in Commands :
    command[c].runs \in Reads /\ command[c].pc = "return"
      => NothingLost(command[c]) /\ NothingMadeUp(command[c])

\* A command that has ended has tried to give up its connection, whichever
\* step failed, save a snapshot whose request was cut off; one that could not
\* says that it failed, save a reading.
Released(t) ==
  /\ t.link = "open" => t.runs = "snapshot" /\ t.said = "failed"
  /\ t.link = "stuck" => t.runs \in Reads \/ t.said = "failed"

\* A write that says it is done was done by a kernel, and by the one it was
\* connected to; nothing is claimed of a failed one, whose effect may have
\* come about all the same, or of a snapshot, which also boasts of a refusal.
Truthful(t) == t.runs \in Writes /\ t.said = "done" => t.took

\* How commands end (write.ts 52-90 and the finally blocks, snapshot.ts
\* 58-95, kernel-client.ts 101-108), over lost answers, dying kernels, the
\* fallback to HTTP and refusals.
EndsWell ==
  \A c \in Commands :
    command[c].pc = "ended" => Released(command[c]) /\ Truthful(command[c])

\* Why they hold.  A conversation is with a kernel that was started; before
\* it is connected nothing is open; what is asked, answered or cut off is not
\* a reading, and what is answered was done.
Conversation(t) ==
  /\ t.on # None => kernel[t.on].state # "none"
  /\ t.pc \in {"idle", "connect", "http"} => t.link = "none"
  /\ t.pc \in {"request", "answer", "refusal", "cut", "tokens", "deprecated", "components",
               "return"} => t.on # None
  /\ t.pc \in {"http", "request", "answer", "refusal", "cut"} => t.runs \notin Reads
  /\ t.pc \in {"tokens", "deprecated", "components", "return"} => t.runs \in Reads
  /\ t.pc = "answer" => t.took
  /\ t.pc \notin {"idle", "ended"} /\ t.runs \in {"add", "deprecate"} => t.pointer \in Pointer

\* How much of a reading is safe: as long as the kernel is up, what was there
\* all along is there still, and what is not among the tokens that were listed
\* is among the deprecations to come.
Reading(t) ==
  LET held == kernel[t.on].tokens
      ledger == kernel[t.on].ledger IN
    t.runs \in Reads =>
      /\ t.pc \in {"tokens", "deprecated"} /\ Up(t.on)
           => t.always \subseteq held
      /\ t.pc \in {"tokens", "deprecated", "components"} /\ Up(t.on)
           => held \cup ledger \subseteq t.ever
      /\ t.pc = "deprecated" /\ Up(t.on)
           => \A p \in t.always : IsJsonPointer(p) => p \in t.tokens \cup ledger
      /\ t.pc \in {"deprecated", "components", "return"} => t.tokens \subseteq t.ever
      /\ t.pc \in {"components", "return"} => NothingLost(t) /\ t.deprecations \subseteq t.ever

TokensInv ==
  /\ TypeOK /\ EndsWell
  /\ \A c \in Commands : Conversation(command[c]) /\ Reading(command[c])
=============================================================================
