------------------------------- MODULE KernelProofs --------------------------
(***************************************************************************)
(* How commands end and what readers see of the token graph, and that one  *)
(* kernel serves them, for every number of kernels, commands, names and    *)
(* themes.                                                                 *)
(***************************************************************************)
EXTENDS TokenGraph, KernelLifecycle, TLAPS

-----------------------------------------------------------------------------
(* Types.                                                                  *)

\* A pointer within a document is a pointer (KernelTokenEntry).
LEMMA InDocumentType ==
  ASSUME NEW x \in Names
  PROVE  InDocument(x) \in Pointer
BY DEF InDocument, Pointer, Prefix

\* What is sent in place of a pointer is a pointer (write.ts 117-119).
LEMMA SentType ==
  ASSUME NEW p \in Pointer
  PROVE  Sent(p) \in Pointer
BY DEF Sent, Pointer, Prefix

\* The effect of any request is a change of one graph into another.
LEMMA EffectIsChange ==
  ASSUME NEW k \in Kernels, kernel[k] \in Kernel, NEW t \in Command, NEW after,
         t.runs \in {"add", "deprecate"} => t.pointer \in Pointer,
         Effect(k, t, after)
  PROVE  \E g \in Kernel : g.state = kernel[k].state /\ Becomes(k, g, after)
<1>1. CASE t.runs = "add"
  <2>1. PICK ledger \in {kernel[k].ledger, kernel[k].ledger \ {t.pointer}} :
          Becomes(k, [kernel[k] EXCEPT !.tokens = @ \cup {t.pointer}, !.ledger = ledger], after)
    BY <1>1 DEF Effect
  <2>2. ledger \in SUBSET Pointer /\ kernel[k].tokens \cup {t.pointer} \in SUBSET Pointer
    BY <1>1, <2>1 DEF Kernel
  <2>3. [kernel[k] EXCEPT !.tokens = @ \cup {t.pointer}, !.ledger = ledger] \in Kernel
    BY <2>2 DEF Kernel
  <2> QED BY <2>1, <2>3 DEF Kernel
<1>2. CASE t.runs = "deprecate"
  <2>1. Becomes(k, [kernel[k] EXCEPT !.ledger = @ \cup {t.pointer}], after)
    BY <1>2 DEF Effect
  <2>2. [kernel[k] EXCEPT !.ledger = @ \cup {t.pointer}] \in Kernel
    BY <1>2 DEF Kernel
  <2> QED BY <2>1, <2>2 DEF Kernel
<1>3. CASE t.runs \notin {"add", "deprecate"}
  BY <1>3 DEF Effect
<1> QED BY <1>1, <1>2, <1>3

\* A change of a graph keeps the types.
LEMMA ChangeType ==
  ASSUME TypeOK, NEW k \in Kernels, NEW g \in Kernel,
         NEW after \in [Commands -> Command], Becomes(k, g, after)
  PROVE  kernel' \in [Kernels -> Kernel] /\ command' \in [Commands -> Command]
<1>1. kernel' \in [Kernels -> Kernel]
  BY DEF Becomes, TypeOK
<1>2. ASSUME NEW d \in Commands PROVE command'[d] \in Command
  <2>1. after[d] \in Command
    OBVIOUS
  <2>2. (after[d].always \cap g.tokens) \ (kernel[k].ledger \ g.ledger) \in SUBSET Pointer
        /\ after[d].ever \cup g.tokens \cup g.ledger \in SUBSET Pointer
    BY <2>1 DEF Command, Kernel
  <2>3. [after[d] EXCEPT
           !.always = (@ \cap g.tokens) \ (kernel[k].ledger \ g.ledger),
           !.ever = @ \cup g.tokens \cup g.ledger] \in Command
    BY <2>1, <2>2 DEF Command
  <2> QED BY <2>1, <2>3 DEF Becomes
<1> QED BY <1>1, <1>2 DEF Becomes

\* So does a step of one command.
LEMMA SetType ==
  ASSUME TypeOK, NEW c \in Commands, NEW t \in Command, Set(c, t)
  PROVE  command' \in [Commands -> Command]
BY DEF Set, TypeOK

\* A command that ends is a command.
LEMMA EndType ==
  ASSUME NEW t \in Command, NEW said \in {"done", "failed"}
  PROVE  End(t, said) \in Command
BY DEF End, Command

\* A reading makes a command that succeeds or one that fails (tokens.ts 29-34).
LEMMA OutcomeType ==
  ASSUME NEW kind, NEW tokens
  PROVE  Outcomes(kind, tokens) \subseteq {"done", "failed"}
BY DEF Outcomes

\* After a disconnect the connection is closed or could not be; the rest of
\* the command is as before (write.ts 143-145, kernel-client.ts 104-108).
LEMMA DisconnectsType ==
  ASSUME NEW t \in Command, NEW u \in Disconnects(t)
  PROVE  /\ u \in Command /\ u.link # "open" /\ u.pc = t.pc /\ u.on = t.on
         /\ u.took = t.took /\ u.runs = t.runs /\ u.pointer = t.pointer
BY DEF Disconnects, Command

-----------------------------------------------------------------------------
(* The invariant.                                                          *)

\* What TokensInv says of one command besides its type.
GoesWell(t) ==
  /\ Conversation(t) /\ Reading(t)
  /\ t.pc = "ended" => Released(t) /\ Truthful(t)

\* The invariant, command by command.
LEMMA InvIsPerCommand ==
  TokensInv <=> TypeOK /\ \A c \in Commands : GoesWell(command[c])
BY DEF TokensInv, GoesWell, EndsWell

\* In the beginning nothing is under way.
LEMMA InitTokens == Init => TokensInv
<1> SUFFICES ASSUME Init PROVE TypeOK /\ \A c \in Commands : GoesWell(command[c])
  BY InvIsPerCommand
<1>1. Idle \in Command /\ NoKernel \in Kernel
  <2>1. Len(Themes) \in Nat
    BY ThemesAssumption
  <2> QED BY <2>1 DEF Idle, Command, NoKernel, Kernel
<1>2. TypeOK
  BY <1>1 DEF Init, TypeOK
<1>3. GoesWell(Idle)
  BY NoneAssumption DEF GoesWell, Conversation, Reading, Idle, Kind, Reads, Writes
<1> QED BY <1>2, <1>3 DEF Init

\* A step of one command keeps the invariant if the command goes well then.
LEMMA SetStep ==
  ASSUME TokensInv, NEW c \in Commands, NEW t \in Command, Set(c, t),
         UNCHANGED <<kernel, socket>>, GoesWell(t)
  PROVE  TokensInv'
<1>1. TypeOK'
  BY SetType DEF TokensInv, TypeOK
<1>2. ASSUME NEW d \in Commands PROVE GoesWell(command[d])'
  <2>1. command'[d] = IF d = c THEN t ELSE command[d]
    BY DEF Set, TokensInv, TypeOK
  <2>2. GoesWell(command[d])
    BY InvIsPerCommand
  <2>3. CASE d = c
    BY <2>1, <2>3 DEF GoesWell, Conversation, Reading, Up
  <2>4. CASE d # c
    BY <2>1, <2>2, <2>4 DEF GoesWell, Conversation, Reading, Up
  <2> QED BY <2>3, <2>4
<1> QED
  <2>1. TypeOK' /\ \A d \in Commands : GoesWell(command[d])'
    BY <1>1, <1>2
  <2> QED BY <2>1 DEF TokensInv, GoesWell, EndsWell

\* A change of a graph keeps it: what a reader has, and what is to come,
\* still hold all that was there throughout.
LEMMA ChangeStep ==
  ASSUME TokensInv, NEW k \in Kernels, Up(k),
         NEW g \in Kernel, g.state = kernel[k].state,
         NEW after \in [Commands -> Command], \A d \in Commands : GoesWell(after[d]),
         Becomes(k, g, after), UNCHANGED socket
  PROVE  TokensInv'
<1>1. TypeOK'
  BY ChangeType DEF TokensInv, TypeOK
<1>2. ASSUME NEW d \in Commands PROVE GoesWell(command[d])'
  <2> DEFINE t == after[d]
             u == [t EXCEPT !.always = (@ \cap g.tokens) \ (kernel[k].ledger \ g.ledger),
                            !.ever = @ \cup g.tokens \cup g.ledger]
  <2>0. t \in Command /\ GoesWell(t) /\ t.on \in Kernels \cup {None}
    BY DEF Command
  <2>1. /\ \A j \in Kernels : kernel'[j].state = kernel[j].state
        /\ \A j \in Kernels \ {k} : kernel'[j] = kernel[j]
        /\ kernel'[k] = g
    BY DEF Becomes, TokensInv, TypeOK
  <2>2. \A j \in Kernels \cup {None} : Up(j)' <=> Up(j)
    BY <2>1, NoneAssumption DEF Up
  <2>3. CASE t.on = k /\ t.runs \in Reads
    <3>1. command'[d] = u
      BY <2>3 DEF Becomes
    <3>2. /\ u.on = t.on /\ u.pc = t.pc /\ u.link = t.link /\ u.runs = t.runs
          /\ u.took = t.took /\ u.pointer = t.pointer /\ u.said = t.said
          /\ u.tokens = t.tokens /\ u.deprecations = t.deprecations
          /\ u.always = (t.always \cap g.tokens) \ (kernel[k].ledger \ g.ledger)
          /\ u.ever = t.ever \cup g.tokens \cup g.ledger
      BY <2>0 DEF Command
    <3> HIDE DEF u, t
    <3>3. Conversation(command[d])'
      BY <2>0, <2>1, <2>3, <3>1, <3>2 DEF GoesWell, Conversation
    <3>4. Reading(command[d])'
      <4>1. u.pc = "deprecated" =>
              \A p \in u.always : IsJsonPointer(p) => p \in u.tokens \cup g.ledger
        BY <2>0, <2>3, <3>2 DEF GoesWell, Reading
      <4>2. u.pc \in {"components", "return"} => NothingLost(u)
        BY <2>0, <2>3, <3>2 DEF GoesWell, Reading, NothingLost
      <4> QED BY <2>0, <2>1, <2>2, <2>3, <3>1, <3>2, <4>1, <4>2 DEF GoesWell, Reading
    <3> QED BY <2>0, <3>1, <3>2, <3>3, <3>4 DEF GoesWell, Released, Truthful
  <2>4. CASE ~ (t.on = k /\ t.runs \in Reads)
    <3>1. command'[d] = t
      BY <2>4 DEF Becomes
    <3> HIDE DEF t
    <3>2. Conversation(command[d])'
      BY <2>0, <2>1, <3>1 DEF GoesWell, Conversation
    <3>3. Reading(command[d])'
      <4>1. CASE t.runs \notin Reads
        BY <3>1, <4>1 DEF Reading
      <4>2. CASE t.runs \in Reads /\ ~ Up(t.on)
        BY <2>0, <2>2, <3>1, <4>2 DEF GoesWell, Reading
      <4>3. CASE t.runs \in Reads /\ Up(t.on)
        <5>1. kernel'[t.on] = kernel[t.on]
          BY <2>0, <2>1, <2>4, <4>3 DEF Up
        <5> QED BY <2>0, <2>2, <3>1, <4>3, <5>1 DEF GoesWell, Reading
      <4> QED BY <4>1, <4>2, <4>3
    <3> QED BY <2>0, <3>1, <3>2, <3>3 DEF GoesWell, Released, Truthful
  <2> QED BY <2>3, <2>4
<1> QED
  <2>1. TypeOK' /\ \A d \in Commands : GoesWell(command[d])'
    BY <1>1, <1>2
  <2> QED BY <2>1 DEF TokensInv, GoesWell, EndsWell

\* Whoever ends after a disconnect, with no word of success if that failed or
\* if a write was not done, ends well.
LEMMA EndGoesWell ==
  ASSUME NEW t \in Command, NEW said \in {"done", "failed"},
         t.link # "open", Conversation(t),
         t.link = "stuck" => t.runs \in Reads \/ said = "failed",
         t.runs \in Writes /\ said = "done" => t.took
  PROVE  End(t, said) \in Command /\ GoesWell(End(t, said))
<1>1. End(t, said) \in Command
  BY EndType
<1>2. /\ End(t, said).pc = "ended" /\ End(t, said).said = said /\ End(t, said).on = None
      /\ End(t, said).link = t.link /\ End(t, said).took = t.took
      /\ End(t, said).runs = t.runs
  BY DEF End, Command
<1> QED BY <1>1, <1>2 DEF GoesWell, Conversation, Reading, Released, Truthful

\* Beginning, whether the options are refused, the socket missing or not.
LEMMA BeginStep ==
  ASSUME TokensInv, NEW c \in Commands, Begin(c)
  PROVE  TokensInv'
<1>1. PICK kind \in Kind, p \in Written :
        LET t == [Idle EXCEPT !.runs = kind, !.pc = "connect",
                    !.pointer = IF kind \in {"add", "deprecate"} THEN Sent(p) ELSE None] IN
          \/ Set(c, t)
          \/ Set(c, End(t, "failed"))
          \/ /\ kind \in Reads
             /\ \E said \in Outcomes(kind, {}) : Set(c, End(t, said))
  BY DEF Begin
<1> DEFINE t == [Idle EXCEPT !.runs = kind, !.pc = "connect",
                   !.pointer = IF kind \in {"add", "deprecate"} THEN Sent(p) ELSE None]
<1> DEFINE pointer == IF kind \in {"add", "deprecate"} THEN Sent(p) ELSE None
<1>2. Sent(p) \in Pointer
  BY SentType, WrittenAssumption
<1>3. t \in Command
  <2>1. pointer \in Pointer \cup {None}
    BY <1>2
  <2> HIDE DEF pointer
  <2>2. [Idle EXCEPT !.runs = kind, !.pc = "connect", !.pointer = pointer] \in Command
    BY <2>1 DEF Idle, Command
  <2> QED BY <2>2 DEF pointer
<1>4. /\ t.runs = kind /\ t.pc = "connect" /\ t.on = None /\ t.link = "none" /\ ~ t.took
      /\ kind \in {"add", "deprecate"} => t.pointer \in Pointer
  BY <1>2 DEF Idle
<1>5. UNCHANGED <<kernel, socket>>
  BY DEF Begin
<1>6. \/ Set(c, t)
      \/ Set(c, End(t, "failed"))
      \/ kind \in Reads /\ \E said \in Outcomes(kind, {}) : Set(c, End(t, said))
  BY <1>1
<1> HIDE DEF t
<1>7. Conversation(t) /\ GoesWell(t)
  BY <1>4 DEF GoesWell, Conversation, Reading
<1>8. CASE Set(c, t)
  BY <1>3, <1>5, <1>7, <1>8, SetStep
<1>9. CASE Set(c, End(t, "failed"))
  BY <1>3, <1>4, <1>5, <1>7, <1>9, SetStep, EndGoesWell
<1>10. CASE kind \in Reads /\ \E said \in Outcomes(kind, {}) : Set(c, End(t, said))
  <2>1. t.runs \notin Writes
    BY <1>4, <1>10 DEF Reads, Writes
  <2>2. PICK said \in {"done", "failed"} : Set(c, End(t, said))
    BY <1>10, OutcomeType
  <2>3. End(t, said) \in Command /\ GoesWell(End(t, said))
    BY <1>3, <1>4, <1>7, <2>1, EndGoesWell
  <2> QED BY <1>5, <2>2, <2>3, SetStep
<1> QED BY <1>6, <1>8, <1>9, <1>10

\* By the socket or by HTTP, or not at all.
LEMMA ConnectStep ==
  ASSUME TokensInv, NEW c \in Commands, Connect(c) \/ ConnectHttp(c)
  PROVE  TokensInv'
<1> DEFINE t == command[c]
<1>1. t \in Command /\ GoesWell(t) /\ UNCHANGED <<kernel, socket>>
  BY InvIsPerCommand DEF TokensInv, TypeOK, Connect, ConnectHttp
<1>2. t.pc \in {"connect", "http"} /\ t.link = "none" /\ t.runs \in Kind \cup {None}
  BY <1>1 DEF Connect, ConnectHttp, GoesWell, Conversation, Command
<1>3. ASSUME t.runs \notin Reads, NEW k \in Kernels, Up(k),
             Set(c, [t EXCEPT !.pc = "request", !.on = k, !.link = "open"])
      PROVE  TokensInv'
  <2>1. [t EXCEPT !.pc = "request", !.on = k, !.link = "open"] \in Command
    BY <1>1 DEF Command
  <2>2. GoesWell([t EXCEPT !.pc = "request", !.on = k, !.link = "open"])
    BY <1>1, <1>2, <1>3, NoneAssumption DEF GoesWell, Conversation, Reading, Command, Up
  <2> QED BY <1>1, <1>3, <2>1, <2>2, SetStep
<1>4. ASSUME Set(c, [t EXCEPT !.pc = "http"]), t.runs \notin Reads
      PROVE  TokensInv'
  <2>1. [t EXCEPT !.pc = "http"] \in Command
    BY <1>1 DEF Command
  <2>2. GoesWell([t EXCEPT !.pc = "http"])
    BY <1>1, <1>2, <1>4 DEF GoesWell, Conversation, Reading, Command
  <2> QED BY <1>1, <1>4, <2>1, <2>2, SetStep
<1>5. ASSUME Set(c, End(t, "failed"))
      PROVE  TokensInv'
  BY <1>1, <1>2, <1>5, EndGoesWell, SetStep DEF GoesWell
<1>6. CASE Connect(c)
  BY <1>3, <1>4, <1>6 DEF Connect
<1>7. CASE ConnectHttp(c)
  <2>1. t.runs \notin Reads
    BY <1>1, <1>7 DEF ConnectHttp, GoesWell, Conversation
  <2> QED BY <1>3, <1>5, <1>7, <2>1, HttpAssumption DEF ConnectHttp
<1> QED BY <1>6, <1>7

\* A request is carried out: the command goes on and the graph changes.
LEMMA AcceptStep ==
  ASSUME TokensInv, NEW c \in Commands, Accept(c)
  PROVE  TokensInv'
<1>1. command[c] \in Command /\ GoesWell(command[c]) /\ command[c].pc = "request"
  BY InvIsPerCommand DEF TokensInv, TypeOK, Accept
<1>2. PICK pc \in {"answer", "cut"} :
        Effect(command[c].on, command[c], [command EXCEPT ![c].pc = pc, ![c].took = TRUE])
  BY DEF Accept
<1> DEFINE after == [command EXCEPT ![c].pc = pc, ![c].took = TRUE]
<1>3. command[c].on \in Kernels /\ Up(command[c].on) /\ UNCHANGED socket
  BY <1>1 DEF Accept, Command, Up
<1>4. kernel[command[c].on] \in Kernel
  BY <1>3 DEF TokensInv, TypeOK
<1>5. command[c].runs \in {"add", "deprecate"} => command[c].pointer \in Pointer
  BY <1>1 DEF GoesWell, Conversation
<1>6. PICK g \in Kernel :
        g.state = kernel[command[c].on].state /\ Becomes(command[c].on, g, after)
  BY <1>1, <1>2, <1>3, <1>4, <1>5, EffectIsChange
<1>7. after \in [Commands -> Command]
  <2>1. [command[c] EXCEPT !.pc = pc, !.took = TRUE] \in Command
    BY <1>1 DEF Command
  <2> QED BY <2>1 DEF TokensInv, TypeOK
<1>8. ASSUME NEW d \in Commands PROVE GoesWell(after[d])
  <2>1. CASE d # c
    BY <2>1, InvIsPerCommand DEF TokensInv, TypeOK
  <2>2. CASE d = c
    <3> DEFINE t == command[c]
               u == after[c]
    <3>1. /\ u.pc = pc /\ u.took = TRUE /\ u.on = t.on /\ u.link = t.link
          /\ u.runs = t.runs /\ u.pointer = t.pointer
      BY <1>1, <2>2 DEF TokensInv, TypeOK, Command
    <3> HIDE DEF u, t, after
    <3>2. GoesWell(u)
      BY <1>1, <3>1 DEF GoesWell, Conversation, Reading, t
    <3> QED BY <2>2, <3>2 DEF u
  <2> QED BY <2>1, <2>2
<1> HIDE DEF after
<1> QED BY <1>3, <1>6, <1>7, <1>8, ChangeStep

\* An error for an answer, or none.
LEMMA NoAnswerStep ==
  ASSUME TokensInv, NEW c \in Commands, Refuse(c) \/ Cut(c)
  PROVE  TokensInv'
<1>1. command[c] \in Command /\ GoesWell(command[c]) /\ UNCHANGED <<kernel, socket>>
  BY InvIsPerCommand DEF TokensInv, TypeOK, Refuse, Cut
<1>2. PICK pc \in {"refusal", "cut"} :
        command[c].pc = "request" /\ Set(c, [command[c] EXCEPT !.pc = pc])
  BY DEF Refuse, Cut
<1>3. [command[c] EXCEPT !.pc = pc] \in Command
  BY <1>1 DEF Command
<1>4. GoesWell([command[c] EXCEPT !.pc = pc])
  BY <1>1, <1>2 DEF GoesWell, Conversation, Reading, Command
<1> QED BY <1>1, <1>2, <1>3, <1>4, SetStep

\* A command that gives up its connection and says that it failed, or that it
\* is done, which a write may say only of what was done, and only a reading if
\* the disconnect failed.
LEMMA LetGoStep ==
  ASSUME TokensInv, NEW c \in Commands, NEW said \in {"done", "failed"},
         NEW t \in Disconnects(command[c]),
         command[c].pc \notin {"idle", "http"},
         t.link = "stuck" => command[c].runs \in Reads \/ said = "failed",
         command[c].runs \in Writes /\ said = "done" => command[c].took,
         Set(c, End(t, said)), UNCHANGED <<kernel, socket>>
  PROVE  TokensInv'
<1>1. command[c] \in Command /\ GoesWell(command[c])
  BY InvIsPerCommand DEF TokensInv, TypeOK
<1>2. /\ t \in Command /\ t.link # "open" /\ t.pc = command[c].pc /\ t.on = command[c].on
      /\ t.took = command[c].took /\ t.runs = command[c].runs
      /\ t.pointer = command[c].pointer
  BY <1>1, DisconnectsType
<1>3. command[c].link = "none" => t.link = "none"
  BY DEF Disconnects
<1>4. Conversation(t)
  BY <1>1, <1>2, <1>3 DEF GoesWell, Conversation
<1>5. End(t, said) \in Command /\ GoesWell(End(t, said))
  BY <1>2, <1>4, EndGoesWell
<1> QED BY <1>5, SetStep

\* The end of a write and of a snapshot.
LEMMA EndStep ==
  ASSUME TokensInv, NEW c \in Commands, EndWrite(c) \/ EndSnapshot(c)
  PROVE  TokensInv'
<1>1. command[c] \in Command /\ GoesWell(command[c]) /\ UNCHANGED <<kernel, socket>>
  BY InvIsPerCommand DEF TokensInv, TypeOK, EndWrite, EndSnapshot
<1>2. CASE EndWrite(c)
  <2>1. PICK t \in Disconnects(command[c]) :
          Set(c, End(t, IF t.pc = "answer" /\ t.link # "stuck" THEN "done" ELSE "failed"))
    BY <1>2 DEF EndWrite
  <2>2. PICK said \in {"done", "failed"} :
          said = IF t.pc = "answer" /\ t.link # "stuck" THEN "done" ELSE "failed"
    OBVIOUS
  <2>3. t.pc = command[c].pc
    BY <1>1, DisconnectsType
  <2>4. command[c].pc \notin {"idle", "http"} /\ (said = "done" => command[c].took)
    BY <1>1, <1>2, <2>2, <2>3 DEF EndWrite, GoesWell, Conversation
  <2>5. Set(c, End(t, said)) /\ (t.link = "stuck" => said = "failed")
    BY <2>1, <2>2
  <2> QED BY <1>1, <2>4, <2>5, LetGoStep
<1>3. CASE EndSnapshot(c) /\ command[c].pc # "cut"
  <2>1. PICK t \in Disconnects(command[c]) :
          Set(c, End(t, IF t.link # "stuck" THEN "done" ELSE "failed"))
    BY <1>3 DEF EndSnapshot
  <2>2. PICK said \in {"done", "failed"} : said = IF t.link # "stuck" THEN "done" ELSE "failed"
    OBVIOUS
  <2>3. Set(c, End(t, said)) /\ (t.link = "stuck" => said = "failed")
    BY <2>1, <2>2
  <2>4. command[c].pc \notin {"idle", "http"} /\ command[c].runs \notin Writes
    BY <1>3 DEF EndSnapshot, Writes
  <2> QED BY <1>1, <2>3, <2>4, LetGoStep
<1>4. CASE EndSnapshot(c) /\ command[c].pc = "cut"
  <2> DEFINE u == End(command[c], "failed")
  <2>1. u \in Command /\ Set(c, u) /\ command[c].runs = "snapshot"
    BY <1>1, <1>4, EndType DEF EndSnapshot
  <2>2. u.pc = "ended" /\ u.said = "failed" /\ u.on = None /\ u.runs = "snapshot"
    BY <1>1, <2>1 DEF End, Command
  <2> HIDE DEF u
  <2>3. GoesWell(u)
    BY <2>2 DEF GoesWell, Conversation, Reading, Released, Truthful, Reads, Writes
  <2> QED BY <1>1, <2>1, <2>3, SetStep
<1> QED BY <1>2, <1>3, <1>4

\* The steps of a reading, one query after the other.
LEMMA ReadStep ==
  ASSUME TokensInv, NEW c \in Commands,
         ConnectReader(c) \/ QueryTokens(c) \/ QueryDeprecated(c) \/ QueryComponents(c)
  PROVE  TokensInv'
<1> DEFINE t == command[c]
<1>1. t \in Command /\ GoesWell(t) /\ UNCHANGED <<kernel, socket>>
  BY InvIsPerCommand
     DEF TokensInv, TypeOK, ConnectReader, QueryTokens, QueryDeprecated, QueryComponents
<1>2. CASE ConnectReader(c)
  <2>1. PICK k \in Kernels :
          /\ Up(k)
          /\ Set(c, [t EXCEPT !.pc = "tokens", !.on = k, !.link = "open", !.always = kernel[k].tokens,
                              !.ever = kernel[k].tokens \cup kernel[k].ledger])
    BY <1>2 DEF ConnectReader, After
  <2> DEFINE u == [t EXCEPT !.pc = "tokens", !.on = k, !.link = "open", !.always = kernel[k].tokens,
                            !.ever = kernel[k].tokens \cup kernel[k].ledger]
  <2>2. u \in Command
    <3>1. /\ kernel[k].tokens \in SUBSET Pointer
          /\ kernel[k].tokens \cup kernel[k].ledger \in SUBSET Pointer
      BY DEF TokensInv, TypeOK, Kernel
    <3> QED BY <1>1, <3>1 DEF Command
  <2>3. /\ u.pc = "tokens" /\ u.on = k /\ u.runs = t.runs /\ t.runs \in Reads
        /\ u.always = kernel[k].tokens /\ u.ever = kernel[k].tokens \cup kernel[k].ledger
    BY <1>1, <1>2 DEF ConnectReader, Command
  <2> HIDE DEF u, t
  <2>4. GoesWell(u)
    BY <2>1, <2>3, NoneAssumption DEF GoesWell, Conversation, Reading, Up, Reads
  <2> QED BY <1>1, <2>1, <2>2, <2>4, SetStep DEF u, t
<1>3. CASE QueryTokens(c)
  <2> DEFINE listed == {p \in Live(t.on) : IsJsonPointer(p)}
             u == [t EXCEPT !.pc = "deprecated", !.tokens = listed]
  <2>1. Set(c, u) /\ t.pc = "tokens" /\ Up(t.on) /\ t.on \in Kernels
    BY <1>1, <1>3 DEF QueryTokens, After, Up, Command
  <2>2. kernel[t.on] \in Kernel
    BY <2>1 DEF TokensInv, TypeOK
  <2>3. u \in Command
    <3>1. listed \in SUBSET Pointer
      BY <2>2 DEF Live, Kernel
    <3> HIDE DEF listed
    <3> QED BY <1>1, <3>1 DEF Command
  <2>4. /\ u.pc = "deprecated" /\ u.on = t.on /\ u.runs = t.runs /\ u.tokens = listed
        /\ u.always = t.always /\ u.ever = t.ever /\ u.pointer = t.pointer
    BY <1>1 DEF Command
  <2> HIDE DEF u, t
  <2>5. GoesWell(u)
    BY <1>1, <2>1, <2>4 DEF GoesWell, Conversation, Reading, Live
  <2> QED BY <1>1, <2>1, <2>3, <2>5, SetStep
<1>4. CASE QueryDeprecated(c)
  <2> DEFINE u == [t EXCEPT !.pc = "components", !.deprecations = kernel[t.on].ledger]
  <2>1. Set(c, u) /\ t.pc = "deprecated" /\ Up(t.on) /\ t.on \in Kernels
    BY <1>1, <1>4 DEF QueryDeprecated, After, Up, Command
  <2>2. u \in Command
    <3>1. kernel[t.on].ledger \in SUBSET Pointer
      BY <2>1 DEF TokensInv, TypeOK, Kernel
    <3> QED BY <1>1, <3>1 DEF Command
  <2>3. /\ u.pc = "components" /\ u.on = t.on /\ u.runs = t.runs /\ u.tokens = t.tokens
        /\ u.deprecations = kernel[t.on].ledger
        /\ u.always = t.always /\ u.ever = t.ever /\ u.pointer = t.pointer
    BY <1>1 DEF Command
  <2> HIDE DEF u, t
  <2>4. GoesWell(u)
    BY <1>1, <2>1, <2>3 DEF GoesWell, Conversation, Reading, NothingLost
  <2> QED BY <1>1, <2>1, <2>2, <2>4, SetStep
<1>5. CASE QueryComponents(c)
  <2> DEFINE u == [t EXCEPT !.pc = "return"]
  <2>1. Set(c, u) /\ t.pc = "components"
    BY <1>5 DEF QueryComponents, After
  <2>2. u \in Command
    BY <1>1 DEF Command
  <2>3. /\ u.pc = "return" /\ u.on = t.on /\ u.runs = t.runs /\ u.tokens = t.tokens
        /\ u.deprecations = t.deprecations
        /\ u.always = t.always /\ u.ever = t.ever /\ u.pointer = t.pointer
    BY <1>1 DEF Command
  <2> HIDE DEF u, t
  <2>4. GoesWell(u)
    BY <1>1, <2>1, <2>3 DEF GoesWell, Conversation, Reading, NothingLost
  <2> QED BY <1>1, <2>1, <2>2, <2>4, SetStep
<1> QED BY <1>2, <1>3, <1>4, <1>5

\* Its end, with data or without.
LEMMA ReadEndStep ==
  ASSUME TokensInv, NEW c \in Commands, Return(c) \/ ReadFails(c)
  PROVE  TokensInv'
<1>1. command[c] \in Command /\ GoesWell(command[c]) /\ UNCHANGED <<kernel, socket>>
  BY InvIsPerCommand DEF TokensInv, TypeOK, Return, ReadFails
<1>2. PICK t \in Disconnects(command[c]), said \in {"done", "failed"} : Set(c, End(t, said))
  BY OutcomeType DEF Return, ReadFails
<1>3. command[c].pc \notin {"idle", "http"}
  BY DEF Return, ReadFails
<1>4. command[c].runs \in Reads
  BY <1>1 DEF Return, ReadFails, GoesWell, Conversation
<1>5. command[c].runs \notin Writes
  BY <1>4 DEF Writes, Reads
<1> QED BY <1>1, <1>2, <1>3, <1>4, <1>5, LetGoStep

-----------------------------------------------------------------------------
(* The kernels' own steps.                                                 *)

\* A kernel may start, stop or count its themes: nobody is connected to one
\* that has not started, and nothing is asked of a reading's kernel that died.
LEMMA KernelStep ==
  ASSUME TokensInv, NEW k \in Kernels, NEW g \in Kernel,
         kernel' = [kernel EXCEPT ![k] = g], socket' \in BOOLEAN, UNCHANGED command,
         g.state # "none",
         \/ kernel[k].state = "none"
         \/ g.state = "dead"
         \/ /\ g.state = kernel[k].state
            /\ g.tokens = kernel[k].tokens /\ g.ledger = kernel[k].ledger
  PROVE  TokensInv'
<1>1. TypeOK'
  BY DEF TokensInv, TypeOK
<1>2. /\ kernel'[k] = g
      /\ \A j \in Kernels \ {k} : kernel'[j] = kernel[j]
  BY DEF TokensInv, TypeOK
<1>3. ASSUME NEW d \in Commands PROVE GoesWell(command[d])'
  <2> DEFINE t == command[d]
  <2>1. GoesWell(t) /\ t.on \in Kernels \cup {None} /\ command'[d] = t
    BY InvIsPerCommand DEF TokensInv, TypeOK, Command
  <2> HIDE DEF t
  <2>2. Conversation(command[d])'
    BY <1>2, <2>1 DEF GoesWell, Conversation
  <2>3. ASSUME NEW j \in Kernels \cup {None}, j # None => kernel[j].state # "none", Up(j)'
        PROVE  /\ Up(j)
               /\ kernel'[j].tokens = kernel[j].tokens
               /\ kernel'[j].ledger = kernel[j].ledger
    <3>1. j \in Kernels
      BY <2>3 DEF Up
    <3>2. CASE j = k
      BY <1>2, <2>3, <3>2 DEF Up
    <3>3. CASE j # k
      BY <1>2, <2>3, <3>1, <3>3 DEF Up
    <3> QED BY <3>2, <3>3
  <2>4. t.on # None => kernel[t.on].state # "none"
    BY <2>1 DEF GoesWell, Conversation
  <2>5. Reading(command[d])'
    BY <2>1, <2>3, <2>4 DEF GoesWell, Reading
  <2> QED BY <2>1, <2>2, <2>5 DEF GoesWell, Released, Truthful
<1> QED
  <2>1. TypeOK' /\ \A d \in Commands : GoesWell(command[d])'
    BY <1>1, <1>3
  <2> QED BY <2>1 DEF TokensInv, GoesWell, EndsWell

\* The daemon starts, gives its themes up, or stops.
LEMMA DaemonLifeStep ==
  ASSUME TokensInv, NEW k \in Kernels, StartDaemon(k) \/ BootstrapFails(k) \/ Stop(k)
  PROVE  TokensInv'
<1>1. kernel[k] \in Kernel /\ socket \in BOOLEAN /\ Len(Themes) \in Nat
  BY ThemesAssumption DEF TokensInv, TypeOK
<1>2. NoKernel \in Kernel
  BY <1>1 DEF NoKernel, Kernel
<1>3. CASE StartDaemon(k)
  <2>1. PICK n \in {0, Len(Themes)} :
          kernel' = [kernel EXCEPT ![k] = [NoKernel EXCEPT !.state = "up", !.stage = n]]
    BY <1>3 DEF StartDaemon
  <2> DEFINE g == [NoKernel EXCEPT !.state = "up", !.stage = n]
  <2>2. g \in Kernel /\ g.state = "up"
    <3>1. n \in 0..Len(Themes)
      BY <1>1
    <3> QED BY <1>2, <3>1 DEF Kernel
  <2> HIDE DEF g
  <2>3. kernel[k].state = "none" /\ socket' \in BOOLEAN /\ UNCHANGED command
    BY <1>3 DEF StartDaemon
  <2>4. kernel' = [kernel EXCEPT ![k] = g]
    BY <2>1 DEF g
  <2> QED BY <2>2, <2>3, <2>4, KernelStep
<1>4. CASE BootstrapFails(k)
  <2> DEFINE g == [kernel[k] EXCEPT !.stage = Len(Themes)]
  <2>1. g \in Kernel /\ g.state = kernel[k].state
        /\ g.tokens = kernel[k].tokens /\ g.ledger = kernel[k].ledger
    BY <1>1 DEF Kernel
  <2>2. kernel' = [kernel EXCEPT ![k] = g]
    BY <1>4 DEF BootstrapFails
  <2>3. kernel[k].state = "up" /\ socket' \in BOOLEAN /\ UNCHANGED command
    BY <1>1, <1>4 DEF BootstrapFails, Up
  <2> HIDE DEF g
  <2> QED BY <2>1, <2>2, <2>3, KernelStep
<1>5. CASE Stop(k)
  <2> DEFINE g == [NoKernel EXCEPT !.state = "dead"]
  <2>1. g \in Kernel /\ g.state = "dead"
    BY <1>2 DEF Kernel
  <2>2. kernel' = [kernel EXCEPT ![k] = g] /\ socket' \in BOOLEAN /\ UNCHANGED command
    BY <1>5 DEF Stop
  <2> HIDE DEF g
  <2> QED BY <2>1, <2>2, KernelStep
<1> QED BY <1>3, <1>4, <1>5

\* A theme is injected, or another program writes.
LEMMA FillStep ==
  ASSUME TokensInv, NEW k \in Kernels, InjectTheme(k) \/ OtherWrite(k)
  PROVE  TokensInv'
<1>1. kernel[k] \in Kernel /\ command \in [Commands -> Command] /\ Len(Themes) \in Nat
  BY ThemesAssumption DEF TokensInv, TypeOK
<1>2. \A d \in Commands : GoesWell(command[d])
  BY InvIsPerCommand
<1>3. Up(k) /\ UNCHANGED socket
  BY DEF InjectTheme, OtherWrite
<1>4. ASSUME NEW g \in Kernel, g.state = kernel[k].state, Becomes(k, g, command)
      PROVE  TokensInv'
  BY <1>1, <1>2, <1>3, <1>4, ChangeStep
<1>5. CASE InjectTheme(k)
  <2> DEFINE n == kernel[k].stage + 1
             new == {InDocument(x) : x \in Themes[n]}
             g == [kernel[k] EXCEPT !.stage = n, !.tokens = @ \cup new]
  <2>1. n \in 1..Len(Themes)
    BY <1>1, <1>5 DEF InjectTheme, Kernel
  <2>2. Themes[n] \subseteq Names
    BY <2>1, ThemesAssumption
  <2>3. new \in SUBSET Pointer
    BY <2>2, InDocumentType
  <2>4. Becomes(k, g, command)
    BY <1>5 DEF InjectTheme
  <2>5. g \in Kernel /\ g.state = kernel[k].state
    <3>1. n \in 0..Len(Themes) /\ kernel[k].tokens \cup new \in SUBSET Pointer
      BY <1>1, <2>1, <2>3 DEF Kernel
    <3> HIDE DEF n, new
    <3> QED BY <1>1, <3>1 DEF Kernel
  <2> HIDE DEF g
  <2> QED BY <1>4, <2>4, <2>5
<1>6. CASE OtherWrite(k)
  <2>1. PICK x \in Names :
          \/ Becomes(k, [kernel[k] EXCEPT !.ledger = @ \cup {InDocument(x)}], command)
          \/ Becomes(k, [kernel[k] EXCEPT !.tokens = @ \cup {InDocument(x)},
                                          !.ledger = @ \ {InDocument(x)}], command)
    BY <1>6 DEF OtherWrite
  <2>2. {InDocument(x)} \in SUBSET Pointer
    BY InDocumentType
  <2> DEFINE g == [kernel[k] EXCEPT !.ledger = @ \cup {InDocument(x)}]
             h == [kernel[k] EXCEPT !.tokens = @ \cup {InDocument(x)},
                                    !.ledger = @ \ {InDocument(x)}]
  <2>3. g \in Kernel /\ g.state = kernel[k].state
    BY <1>1, <2>2 DEF Kernel
  <2>4. h \in Kernel /\ h.state = kernel[k].state
    BY <1>1, <2>2 DEF Kernel
  <2> QED BY <1>4, <2>1, <2>3, <2>4
<1> QED BY <1>5, <1>6

-----------------------------------------------------------------------------
(* The theorems.                                                           *)

\* Every step keeps the invariant.
LEMMA NextTokens == TokensInv /\ [Next]_vars => TokensInv'
<1> SUFFICES ASSUME TokensInv, [Next]_vars PROVE TokensInv'
  OBVIOUS
<1>1. CASE \E k \in Kernels :
             \/ StartDaemon(k) \/ InjectTheme(k) \/ BootstrapFails(k) \/ Stop(k)
             \/ OtherWrite(k)
  BY <1>1, DaemonLifeStep, FillStep
<1>2. CASE \E c \in Commands : Begin(c) \/ Connect(c) \/ ConnectHttp(c)
  BY <1>2, BeginStep, ConnectStep
<1>3. CASE \E c \in Commands : Accept(c) \/ Refuse(c) \/ Cut(c)
  BY <1>3, AcceptStep, NoAnswerStep
<1>4. CASE \E c \in Commands : EndWrite(c) \/ EndSnapshot(c)
  BY <1>4, EndStep
<1>5. CASE \E c \in Commands :
             \/ ConnectReader(c) \/ QueryTokens(c) \/ QueryDeprecated(c) \/ QueryComponents(c)
             \/ Return(c) \/ ReadFails(c)
  BY <1>5, ReadStep, ReadEndStep
<1>6. CASE UNCHANGED vars
  BY <1>6 DEF vars, TokensInv, TypeOK, Kernel, Command, EndsWell, Released, Truthful,
              Conversation, Reading, NothingLost, Up
<1> QED BY <1>1, <1>2, <1>3, <1>4, <1>5, <1>6 DEF Next

\* The invariant holds throughout, however commands, kernels and other
\* programs interleave (kernel-client.ts 42-108, write.ts 52-290, snapshot.ts
\* 44-96, kernel-daemon.ts 81-146).
THEOREM TokensTheorem == Spec => []TokensInv
BY InitTokens, NextTokens, PTL DEF Spec

\* Types are kept; in particular the bootstrap never counts past its themes
\* (kernel-daemon.ts 81-118).
THEOREM TypeTheorem == Spec => []TypeOK
<1>1. TokensInv => TypeOK
  BY DEF TokensInv
<1> QED BY <1>1, TokensTheorem, PTL

\* A command that has ended has tried to give up its connection, but for a
\* snapshot that was cut off, none but a reading says that it is done when
\* that failed, and a write that says it is done was done (write.ts 52-90 and
\* its finally blocks, snapshot.ts 58-95, kernel-client.ts 101-108).
THEOREM EndsWellTheorem == Spec => []EndsWell
<1>1. TokensInv => EndsWell
  BY DEF TokensInv
<1> QED BY <1>1, TokensTheorem, PTL

\* What a reader is given loses no token that was in the graph all along,
\* and makes none up, though it is read in three queries while others write
\* (kernel-client.ts 57-99).
THEOREM ViewCompleteTheorem == Spec => []ViewComplete
<1>1. TokensInv => ViewComplete
  BY DEF TokensInv, ViewComplete, Reading, NothingMadeUp
<1> QED BY <1>1, TokensTheorem, PTL

-----------------------------------------------------------------------------
(***************************************************************************)
(* How the kernel processes themselves come and go.                        *)
(***************************************************************************)
USE NoneAssumption

\* Every step keeps the types.
LEMMA NextLifeType == LifeTypeOK /\ [LifeNext]_lifeVars => LifeTypeOK'
<1> SUFFICES ASSUME LifeTypeOK, [LifeNext]_lifeVars PROVE LifeTypeOK'
  OBVIOUS
<1>1. ASSUME NEW c \in Commands, BeginStart(c) \/ BeginLint(c) \/ KernelStop(c)
      PROVE  LifeTypeOK'
  <2>1. CASE BeginStart(c)
    BY <2>1 DEF BeginStart, MayBegin, NoteOverlap, Mishap, LifeTypeOK,
                Process, files
  <2>2. CASE BeginLint(c)
    BY <2>2 DEF BeginLint, MayBegin, NoteOverlap, Mishap, LifeTypeOK,
                Process, files
  <2>3. CASE KernelStop(c)
    BY <2>3 DEF KernelStop, MayBegin, NoteOverlap, Mishap, LifeTypeOK,
                files, Running
  <2>4. QED
    BY <1>1, <2>1, <2>2, <2>3
<1>2. ASSUME NEW c \in Commands, CommandStep(c)
      PROVE  LifeTypeOK'
  <2>1. process[c] \in Process
    BY DEF LifeTypeOK
  <2>2. ASSUME ReturnFromStart(c) PROVE process' \in [Commands -> Process]
    BY <2>1, <2>2 DEF ReturnFromStart, LifeTypeOK, Process, NoProcess
  <2>3. CASE AlreadyRunning(c) \/ PollReady(c) \/ PollTimeout(c)
    BY <2>2, <2>3 DEF AlreadyRunning, PollReady, PollTimeout, LifeTypeOK,
                      Mishap, files
  <2>4. CASE CheckSocket(c) \/ ConnectLint(c)
    BY <2>1, <2>4 DEF CheckSocket, ConnectLint, LifeTypeOK, Process, NoProcess,
                      files
  <2>5. ASSUME NEW k \in Kernels, Spawn(c, k) PROVE LifeTypeOK'
    BY <2>1, <2>5 DEF Spawn, LifeTypeOK, Process, Stage, files
  <2>6. QED
    BY <1>2, <2>3, <2>4, <2>5 DEF CommandStep
<1>3. ASSUME NEW k \in Kernels, DaemonStep(k) \/ Terminate(k) \/ Kill(k)
      PROVE  LifeTypeOK'
  BY <1>3 DEF DaemonStep, KernelStarted, StartRejected, Bootstrap,
              WriteReady,
              Terminate, Kill, LifeTypeOK, Stage, Mishap, files
<1>4. CASE UNCHANGED lifeVars
  BY <1>4 DEF lifeVars, files, LifeTypeOK
<1>5. QED
  BY <1>1, <1>2, <1>3, <1>4 DEF LifeNext

\* Initially nothing runs and no file is there.
LEMMA InitKernelInv == LifeInit => KernelInv
BY DEF LifeInit, KernelInv, LifeTypeOK, LoadedOnceBootstrapped, OneCommand,
       Awaited,
       FilesTell, Running, Serving, NoProcess, Process, Stage

\* What has happened stays on record.
LEMMA MishapsStay == [LifeNext]_lifeVars => mishaps \subseteq mishaps'
<1> SUFFICES ASSUME [LifeNext]_lifeVars PROVE mishaps \subseteq mishaps'
  OBVIOUS
<1>1. ASSUME NEW c \in Commands, BeginStart(c) \/ BeginLint(c) \/ KernelStop(c)
      PROVE  mishaps \subseteq mishaps'
  BY <1>1 DEF BeginStart, BeginLint, KernelStop, MayBegin, NoteOverlap
<1>2. ASSUME NEW c \in Commands, CommandStep(c)
      PROVE  mishaps \subseteq mishaps'
  BY <1>2 DEF CommandStep, AlreadyRunning, PollReady, PollTimeout,
              CheckSocket,
              ConnectLint, Spawn
<1>3. ASSUME NEW k \in Kernels, DaemonStep(k) \/ Terminate(k) \/ Kill(k)
      PROVE  mishaps \subseteq mishaps'
  BY <1>3 DEF DaemonStep, KernelStarted, StartRejected, Bootstrap,
              WriteReady,
              Terminate, Kill
<1>4. CASE UNCHANGED lifeVars
  BY <1>4 DEF lifeVars
<1>5. QED
  BY <1>1, <1>2, <1>3, <1>4 DEF LifeNext

\* A daemon is past its bootstrap only with its tokens, unless that may fail.
LEMMA NextLoaded ==
  LifeTypeOK /\ LoadedOnceBootstrapped /\ [LifeNext]_lifeVars => LoadedOnceBootstrapped'
<1> SUFFICES ASSUME LifeTypeOK, LoadedOnceBootstrapped, [LifeNext]_lifeVars,
                    "bootstrap" \notin mishaps',
                    NEW k \in Kernels,
                    daemon'[k] \in {"bootstrapped", "ready"}
             PROVE  k \in loaded'
  BY DEF LoadedOnceBootstrapped
<1> "bootstrap" \notin mishaps
  BY MishapsStay
<1>1. ASSUME NEW c \in Commands,
             BeginStart(c) \/ BeginLint(c) \/ KernelStop(c) \/ CommandStep(c)
      PROVE  k \in loaded'
  BY <1>1 DEF BeginStart, BeginLint, KernelStop, CommandStep,
              AlreadyRunning, PollReady,
              PollTimeout, CheckSocket, ConnectLint, Spawn,
              LoadedOnceBootstrapped,
              LifeTypeOK
<1>2. ASSUME NEW j \in Kernels, DaemonStep(j) \/ Terminate(j) \/ Kill(j)
      PROVE  k \in loaded'
  BY <1>2 DEF DaemonStep, KernelStarted, StartRejected, Bootstrap,
              WriteReady,
              Terminate, Kill, LoadedOnceBootstrapped, LifeTypeOK
<1>3. CASE UNCHANGED lifeVars
  BY <1>3 DEF lifeVars, LoadedOnceBootstrapped
<1>4. QED
  BY <1>1, <1>2, <1>3 DEF LifeNext

\* With commands one at a time, no kill and no slow start, every step keeps
\* the files in agreement with the one daemon that runs.
LEMMA NextOrderly ==
  ASSUME Orderly', LifeTypeOK, LifeTypeOK', OneCommand, Awaited, FilesTell, [LifeNext]_lifeVars
  PROVE  OneCommand' /\ Awaited' /\ FilesTell'
<1>1. ASSUME NEW c \in Commands, BeginStart(c) \/ BeginLint(c)
      PROVE  OneCommand' /\ Awaited' /\ FilesTell'
  <2>1. /\ \A b \in Commands : process[b] = NoProcess
        /\ \A b \in Commands \ {c} : process'[b] = process[b]
        /\ process'[c].pc # "poll"
        /\ UNCHANGED <<files, daemon, loaded, signalled>>
    BY <1>1 DEF BeginStart, BeginLint, MayBegin, NoteOverlap, Orderly,
                LifeTypeOK
  <2>2. \A k \in Kernels : daemon[k] # "spawned"
    BY <2>1 DEF Awaited, NoProcess
  <2>3. OneCommand'
    BY <2>1 DEF OneCommand
  <2>4. Awaited'
    BY <2>1, <2>2 DEF Awaited, NoProcess
  <2>5. FilesTell'
    BY <2>1 DEF FilesTell, files, Serving
  <2>6. QED
    BY <2>3, <2>4, <2>5
<1>2. ASSUME NEW c \in Commands, KernelStop(c)
      PROVE  OneCommand' /\ Awaited' /\ FilesTell'
  <2>1. /\ UNCHANGED <<files, daemon, loaded, process>>
        /\ \/ signalled' = signalled
           \/ pidFile # None /\ signalled' = signalled \cup {pidFile}
    BY <1>2 DEF KernelStop, FilesTell, Running, Serving, files
  <2>2. OneCommand' /\ Awaited'
    BY <2>1 DEF OneCommand, Awaited, Running
  <2>3. FilesTell'
    BY <2>1 DEF FilesTell, files, Serving
  <2>4. QED
    BY <2>2, <2>3
<1>3. ASSUME NEW c \in Commands, NEW k \in Kernels, Spawn(c, k)
      PROVE  OneCommand' /\ Awaited' /\ FilesTell'
  <2>1. /\ process[c] # NoProcess /\ process[c].pc = "launch"
        /\ \A b \in Commands \ {c} : process'[b] = process[b]
        /\ process'[c].pc = "poll" /\ process'[c].child = k
        /\ \A j \in Kernels \ {k} : daemon'[j] = daemon[j]
        /\ daemon'[k] = "spawned" /\ daemon[k] = "none"
        /\ UNCHANGED <<files, loaded, signalled>>
    BY <1>3 DEF Spawn, LifeTypeOK, Process, NoProcess
  <2>2. \A b \in Commands \ {c} : process[b] = NoProcess
    BY <2>1 DEF OneCommand
  <2>3. \A j \in Kernels : daemon[j] # "spawned"
    BY <2>1, <2>2 DEF Awaited, NoProcess
  <2>4. pidFile = None /\ \A j \in Kernels : ~ Running(j)
    BY <1>3, <2>3 DEF Spawn, FilesTell, Running, Serving, LifeTypeOK,
                      Stage
  <2>5. OneCommand'
    BY <2>1, <2>2 DEF OneCommand
  <2>6. Awaited'
    BY <2>1, <2>2, <2>3, <2>4 DEF Awaited, Running, NoProcess
  <2>7. readyFile = None
    BY <2>4 DEF FilesTell, Running, LifeTypeOK
  <2>8. FilesTell'
    BY <2>1, <2>4, <2>7 DEF FilesTell, Running, Serving, files, LifeTypeOK
  <2>9. QED
    BY <2>5, <2>6, <2>8
<1>4. ASSUME NEW c \in Commands, AlreadyRunning(c) \/ CheckSocket(c) \/ ConnectLint(c)
      PROVE  OneCommand' /\ Awaited' /\ FilesTell'
  <2>1. /\ process[c] # NoProcess /\ process[c].pc # "poll" /\ process'[c].pc # "poll"
        /\ \A b \in Commands \ {c} : process'[b] = process[b]
        /\ UNCHANGED <<files, daemon, loaded, signalled>>
    BY <1>4 DEF AlreadyRunning, CheckSocket, ConnectLint, ReturnFromStart,
                LifeTypeOK,
                Process, NoProcess
  <2>2. OneCommand'
    BY <2>1 DEF OneCommand
  <2>3. Awaited'
    BY <2>1 DEF Awaited, Running
  <2>4. FilesTell'
    BY <2>1 DEF FilesTell, files, Serving
  <2>5. QED
    BY <2>2, <2>3, <2>4
<1>5. ASSUME NEW c \in Commands, PollReady(c) \/ PollTimeout(c)
      PROVE  OneCommand' /\ Awaited' /\ FilesTell'
  <2>1. /\ process[c] # NoProcess /\ process[c].pc = "poll" /\ process'[c].pc # "poll"
        /\ \A b \in Commands \ {c} : process'[b] = process[b]
        /\ UNCHANGED <<files, daemon, loaded, signalled>>
    BY <1>5 DEF PollReady, PollTimeout, ReturnFromStart, LifeTypeOK,
                Process, NoProcess
  <2>2. daemon[process[c].child] \in {"ready", "dead"}
    BY <1>5, <2>1 DEF PollReady, PollTimeout, Orderly, Awaited,
                      FilesTell, Running,
                      LifeTypeOK
  <2>3. \A k \in Kernels : daemon[k] # "spawned"
    BY <2>1, <2>2 DEF Awaited, Running
  <2>4. OneCommand'
    BY <2>1 DEF OneCommand
  <2>5. Awaited'
    BY <2>1, <2>3 DEF Awaited, Running
  <2>6. FilesTell'
    BY <2>1 DEF FilesTell, files, Serving
  <2>7. QED
    BY <2>4, <2>5, <2>6
<1>6. ASSUME NEW k \in Kernels, DaemonStep(k)
      PROVE  OneCommand' /\ Awaited' /\ FilesTell'
  <2>1. /\ UNCHANGED <<process, signalled>>
        /\ \A j \in Kernels \ {k} : daemon'[j] = daemon[j]
        /\ daemon[k] \notin {"none", "dead"} /\ daemon'[k] # "spawned"
    BY <1>6 DEF DaemonStep, KernelStarted, StartRejected, Bootstrap,
                WriteReady,
                LifeTypeOK
  <2>2. OneCommand'
    BY <2>1 DEF OneCommand
  <2>3. Awaited'
    BY <2>1 DEF Awaited, Running
  <2>4. CASE KernelStarted(k)
    <3>1. \A j \in Kernels \ {k} : ~ Running(j)
      BY <2>4 DEF KernelStarted, Awaited
    <3>2. /\ daemon[k] = "spawned" /\ daemon'[k] = "started"
          /\ pidFile' = k /\ readyFile' = readyFile
      BY <2>4 DEF KernelStarted, LifeTypeOK
    <3>3. readyFile = None
      BY <3>1, <3>2 DEF FilesTell, Running, LifeTypeOK
    <3>4. FilesTell'
      BY <2>1, <3>1, <3>2, <3>3 DEF FilesTell, Running, Serving, LifeTypeOK
    <3>5. QED
      BY <2>2, <2>3, <3>4
  <2>5. CASE StartRejected(k)
    <3>1. /\ daemon[k] = "spawned" /\ daemon'[k] = "dead" /\ UNCHANGED files
      BY <2>5 DEF StartRejected, LifeTypeOK
    <3>2. FilesTell'
      BY <2>1, <3>1 DEF FilesTell, Serving, files, LifeTypeOK
    <3>3. QED
      BY <2>2, <2>3, <3>2
  <2>6. CASE Bootstrap(k)
    <3>1. /\ daemon[k] = "started" /\ daemon'[k] = "bootstrapped" /\ UNCHANGED files
      BY <2>6 DEF Bootstrap, LifeTypeOK
    <3>2. FilesTell'
      BY <2>1, <3>1 DEF FilesTell, Serving, files, LifeTypeOK
    <3>3. QED
      BY <2>2, <2>3, <3>2
  <2>7. CASE WriteReady(k)
    <3>1. /\ daemon[k] = "bootstrapped" /\ daemon'[k] = "ready"
          /\ pidFile' = pidFile /\ readyFile' \in {k, readyFile}
      BY <2>7 DEF WriteReady, LifeTypeOK
    <3>2. FilesTell'
      BY <2>1, <3>1 DEF FilesTell, Serving, LifeTypeOK
    <3>3. QED
      BY <2>2, <2>3, <3>2
  <2>8. QED
    BY <1>6, <2>4, <2>5, <2>6, <2>7 DEF DaemonStep
<1>7. ASSUME NEW k \in Kernels, Terminate(k)
      PROVE  OneCommand' /\ Awaited' /\ FilesTell'
  <2>1. /\ UNCHANGED <<process, signalled>>
        /\ \A j \in Kernels \ {k} : daemon'[j] = daemon[j]
        /\ daemon'[k] = "dead" /\ k \in signalled /\ Running(k)
        /\ pidFile' = None
        /\ readyFile' = IF daemon[k] = "ready" THEN None ELSE readyFile
    BY <1>7 DEF Terminate, LifeTypeOK
  <2>2. Serving(k) /\ pidFile = k /\ \A j \in Kernels \ {k} : ~ Serving(j)
    BY <2>1 DEF FilesTell, Running, Serving, LifeTypeOK, Stage
  <2>3. readyFile # None => readyFile = k
    BY <2>2 DEF FilesTell, Serving, LifeTypeOK
  <2>4. readyFile' = None
    BY <2>1, <2>3 DEF FilesTell
  <2>5. OneCommand' /\ Awaited'
    BY <2>1 DEF OneCommand, Awaited, Running
  <2>6. FilesTell'
    BY <2>1, <2>2, <2>4 DEF FilesTell, Serving, LifeTypeOK
  <2>7. QED
    BY <2>5, <2>6
<1>8. CASE UNCHANGED lifeVars
  BY <1>8 DEF lifeVars, files, OneCommand, Awaited, FilesTell,
              Running, Serving
<1>9. ASSUME NEW k \in Kernels, Kill(k) PROVE FALSE
  BY <1>9 DEF Kill, Orderly
<1>10. QED
  BY <1>1, <1>2, <1>3, <1>4, <1>5, <1>6, <1>7, <1>8, <1>9 DEF LifeNext, CommandStep

\* The invariant of the kernel's files.
THEOREM KernelTheorem == LifeSpec => []KernelInv
<1>1. LifeInit => KernelInv
  BY InitKernelInv
<1>2. KernelInv /\ [LifeNext]_lifeVars => KernelInv'
  <2> SUFFICES ASSUME KernelInv, [LifeNext]_lifeVars PROVE KernelInv'
    OBVIOUS
  <2>1. LifeTypeOK' /\ LoadedOnceBootstrapped'
    BY NextLifeType, NextLoaded DEF KernelInv
  <2>2. ASSUME Orderly' PROVE OneCommand' /\ Awaited' /\ FilesTell'
    <3>1. Orderly
      BY <2>2, MishapsStay DEF Orderly
    <3>2. QED
      BY <2>1, <2>2, <3>1, NextOrderly DEF KernelInv
  <2>3. QED
    BY <2>1, <2>2 DEF KernelInv
<1>3. QED
  BY <1>1, <1>2, PTL DEF LifeSpec

\* Every variable of the commands and daemons keeps its type.
THEOREM LifeTypeTheorem == LifeSpec => []LifeTypeOK
<1>1. KernelInv => LifeTypeOK
  BY DEF KernelInv
<1>2. QED
  BY <1>1, KernelTheorem, PTL

\* kernel.ts never lets a second kernel serve as long as commands come one at
\* a time, no daemon is killed and every start is in time.
THEOREM SingleKernelTheorem == LifeSpec => []SingleKernel
<1>1. KernelInv => SingleKernel
  BY DEF KernelInv, FilesTell, SingleKernel
<1>2. QED
  BY <1>1, KernelTheorem, PTL

\* As long as, moreover, no bootstrap fails, kernelStart's poll returns with
\* the tokens in the kernel that the PID file names.
THEOREM StartMeansLoadedTheorem == LifeSpec => StartMeansLoaded
<1>1. KernelInv /\ [LifeNext]_lifeVars
        => [mishaps = {} => \A c \in Commands : PollReady(c) => pidFile \in loaded]_lifeVars
  <2> SUFFICES ASSUME KernelInv, mishaps = {}, NEW c \in Commands, PollReady(c)
               PROVE  pidFile \in loaded
    OBVIOUS
  <2>1. FilesTell /\ LoadedOnceBootstrapped
    BY DEF KernelInv, Orderly
  <2>2. readyFile \in Kernels /\ daemon[readyFile] = "ready"
    BY <2>1 DEF PollReady, KernelInv, LifeTypeOK, FilesTell
  <2>3. pidFile = readyFile
    BY <2>1, <2>2 DEF FilesTell, Serving
  <2>4. QED
    BY <2>1, <2>2, <2>3 DEF LoadedOnceBootstrapped
<1>2. QED
  BY <1>1, KernelTheorem, PTL DEF LifeSpec, StartMeansLoaded
=============================================================================
