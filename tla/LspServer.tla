----------------------------- MODULE LspServer -----------------------------
(***************************************************************************)
(* The language server of packages/lsp: the map of linted documents, the   *)
(* token dependency graph, the diagnostics published to the editor, and    *)
(* the lints in flight between the await of lintAndPublish and the turn    *)
(* that records and publishes its result.  The editor sends full texts.    *)
(* The tokens are loaded twice, by the linter when it is built and by its  *)
(* tracker at the first lint, and either load may fail.  What is loaded is *)
(* kept, so what a lint reports is a function of the text: a text stands   *)
(* for its diagnostics.                                                    *)
(***************************************************************************)
EXTENDS Naturals, SequencesExt

CONSTANTS
  Uris,
  Texts,
  Pointers,     \* token pointers
  Reported,     \* Reported[t]: the pointers that the diagnostics of t name
  MaxLints,     \* bound on the lints of one document in flight
  None          \* no document; no diagnostics

ASSUME NoneAssumption == None \notin Texts
ASSUME PointersAssumption == Reported \in [Texts -> SUBSET Pointers]
ASSUME BoundAssumption == MaxLints \in Nat

VARIABLES
  editor,     \* editor[u]: the text the editor last sent; None when closed
  shown,      \* shown[u]: the text whose diagnostics were last published
  documents,  \* documents[u]: the text of the recorded lint
  graph,      \* graph[u]: dependencyGraph.entries[u], {} when absent
  lints,      \* lints[u]: the texts under lint, in the order they began, and
              \* whether each is past the load of the tracker
  server,     \* whether the linter's tokens are loaded, whether the tracker's
              \* are too, and exit
  overdue,    \* history: the open documents whose text is about a token that
              \* changed since a lint of them last began
  upset       \* history: the documents that, since a lint of them last began
              \* with no other in flight, were closed or caught by a change of
              \* tokens during a lint, had lints end out of order, or their
              \* latest lint rejected

vars == <<editor, shown, documents, graph, lints, server, overdue, upset>>

Served == server # "exited"

Init ==
  /\ editor = [u \in Uris |-> None]
  /\ shown = [u \in Uris |-> None]
  /\ documents = [u \in Uris |-> None]
  /\ graph = [u \in Uris |-> {}]
  /\ lints = [u \in Uris |-> <<>>]
  /\ server = "loading"
  /\ overdue = {}
  /\ upset = {}

\* With the tracker loaded nothing is left that a lint could fail on.
Begun(t) == [text |-> t, ready |-> server = "tracked"]

\* A lint of text t begins: the call of lintAndPublish up to its await.
Lint(u, t) ==
  /\ Len(lints[u]) < MaxLints
  /\ lints' = [lints EXCEPT ![u] = Append(@, Begun(t))]
  /\ overdue' = overdue \ {u}
  /\ upset' = IF lints[u] = <<>> THEN upset \ {u} ELSE upset

DidOpen(u, t) ==
  /\ Served
  /\ editor[u] = None
  /\ editor' = [editor EXCEPT ![u] = t]
  /\ Lint(u, t)
  /\ UNCHANGED <<shown, documents, graph, server>>

\* Faulty variant: a change is not linted while a lint is in flight.
ChangeSkipsBusy(u, t) ==
  /\ Served
  /\ editor[u] \notin {None, t}
  /\ editor' = [editor EXCEPT ![u] = t]
  /\ IF lints[u] = <<>> THEN Lint(u, t) ELSE UNCHANGED <<lints, overdue, upset>>
  /\ UNCHANGED <<shown, documents, graph, server>>

\* Faulty variant: a change is linted as the text on record.
ChangeLintsRecorded(u, t) ==
  /\ Served
  /\ editor[u] \notin {None, t}
  /\ editor' = [editor EXCEPT ![u] = t]
  /\ Lint(u, IF documents[u] = None THEN t ELSE documents[u])
  /\ UNCHANGED <<shown, documents, graph, server>>

DidChange(u, t) ==
  /\ Served
  /\ editor[u] \notin {None, t}
  /\ editor' = [editor EXCEPT ![u] = t]
  /\ Lint(u, t)
  /\ UNCHANGED <<shown, documents, graph, server>>

\* Faulty variant: the close leaves the graph entry behind.
CloseKeepsGraph(u) ==
  /\ Served
  /\ editor[u] # None
  /\ editor' = [editor EXCEPT ![u] = None]
  /\ documents' = [documents EXCEPT ![u] = None]
  /\ shown' = [shown EXCEPT ![u] = None]
  /\ overdue' = overdue \ {u}
  /\ upset' = IF lints[u] # <<>> THEN upset \cup {u} ELSE upset
  /\ UNCHANGED <<graph, lints, server>>

\* Nothing is done about the lints of u in flight.
DidClose(u) ==
  /\ Served
  /\ editor[u] # None
  /\ editor' = [editor EXCEPT ![u] = None]
  /\ documents' = [documents EXCEPT ![u] = None]
  /\ graph' = [graph EXCEPT ![u] = {}]
  /\ shown' = [shown EXCEPT ![u] = None]
  /\ overdue' = overdue \ {u}
  /\ upset' = IF lints[u] # <<>> THEN upset \cup {u} ELSE upset
  /\ UNCHANGED <<lints, server>>

\* The i-th lint of u in flight ends: its document state, graph entry and
\* diagnostics are set in one turn of the event loop, whatever else was sent
\* or published meanwhile.
LintAndPublish(u, i) ==
  /\ Served
  /\ i \in DOMAIN lints[u]
  /\ lints[u][i].ready
  /\ documents' = [documents EXCEPT ![u] = lints[u][i].text]
  /\ graph' = [graph EXCEPT ![u] = Reported[lints[u][i].text]]
  /\ shown' = [shown EXCEPT ![u] = lints[u][i].text]
  /\ lints' = [lints EXCEPT ![u] = RemoveAt(@, i)]
  /\ upset' = IF i # 1 THEN upset \cup {u} ELSE upset
  /\ UNCHANGED <<editor, server, overdue>>

\* The tracker's tokens are there for the i-th lint of u: it loaded them, or
\* another did.
Configure(u, i) ==
  /\ server \in {"loaded", "tracked"}
  /\ i \in DOMAIN lints[u]
  /\ ~ lints[u][i].ready
  /\ lints' = [lints EXCEPT ![u][i] = [text |-> @.text, ready |-> TRUE]]
  /\ server' = "tracked"
  /\ UNCHANGED <<editor, shown, documents, graph, overdue, upset>>

\* The linter's load failed, and every lint with it, or the load of the tracker
\* that this lint began fails, even when another's succeeded: an error response
\* or silence, and nothing else.
Reject(u, i) ==
  /\ server \in {"failed", "loaded", "tracked"}
  /\ i \in DOMAIN lints[u]
  /\ ~ lints[u][i].ready
  /\ lints' = [lints EXCEPT ![u] = RemoveAt(@, i)]
  /\ upset' = IF i = Len(lints[u]) THEN upset \cup {u} ELSE upset
  /\ UNCHANGED <<editor, shown, documents, graph, server, overdue>>

\* The load that the linter's constructor began settles, once.
LoadTokens ==
  /\ server = "loading"
  /\ server' \in {"loaded", "failed"}
  /\ UNCHANGED <<editor, shown, documents, graph, lints, overdue, upset>>

\* The diagnostics of the text the editor holds name one of the pointers.
Concerns(u, pointers) ==
  /\ editor[u] # None
  /\ pointers = {} \/ Reported[editor[u]] \cap pointers # {}

\* Faulty variant: documents without a recorded lint count as well.
AffectedUnrecorded(u, pointers) ==
  pointers = {} \/ graph[u] \cap pointers # {}

\* Faulty variant: an empty list of pointers relints nothing.
AffectedByPointers(u, pointers) ==
  /\ documents[u] # None
  /\ graph[u] \cap pointers # {}

\* The subscriber's callback; an empty list invalidates the whole graph.
Affected(u, pointers) ==
  /\ documents[u] # None
  /\ pointers = {} \/ graph[u] \cap pointers # {}

TokensChanged(pointers) ==
  /\ Served
  /\ \E u \in Uris : documents[u] # None
  /\ \A u \in Uris : Affected(u, pointers) => Len(lints[u]) < MaxLints
  /\ lints' = [u \in Uris |-> IF Affected(u, pointers)
                              THEN Append(lints[u], Begun(documents[u]))
                              ELSE lints[u]]
  /\ overdue' = {u \in Uris : /\ u \in overdue \/ Concerns(u, pointers)
                              /\ ~ Affected(u, pointers)}
  /\ upset' = upset \cup {u \in Uris : lints[u] # <<>>}
  /\ UNCHANGED <<editor, shown, documents, graph, server>>

\* An exit notification or the end of the input: process.exit(0).
Exit ==
  /\ Served
  /\ server' = "exited"
  /\ lints' = [u \in Uris |-> <<>>]
  /\ overdue' = {}
  /\ UNCHANGED <<editor, shown, documents, graph, upset>>

\* A lint of u in flight proceeds.
Lints(u) ==
  \E i \in 1..MaxLints : LintAndPublish(u, i) \/ Configure(u, i) \/ Reject(u, i)

Edit ==
  \E u \in Uris : DidClose(u) \/ \E t \in Texts : DidOpen(u, t) \/ DidChange(u, t)

Next ==
  \/ Edit
  \/ \E u \in Uris : Lints(u)
  \/ LoadTokens
  \/ \E pointers \in SUBSET Pointers : TokensChanged(pointers)
  \/ Exit

Spec == Init /\ [][Next]_vars

\* Every awaited lint and the load of the tokens settle; the editor, the
\* kernel and the end of the input owe nothing.
FairSpec ==
  /\ Spec
  /\ WF_vars(LoadTokens)
  /\ \A u \in Uris : WF_vars(Lints(u))

----------------------------------------------------------------------------

\* The lints that may be in flight.
InFlight == [text : Texts, ready : BOOLEAN]

\* Every variable has its type.
TypeOK ==
  /\ editor \in [Uris -> Texts \cup {None}]
  /\ shown \in [Uris -> Texts \cup {None}]
  /\ documents \in [Uris -> Texts \cup {None}]
  /\ graph \in [Uris -> SUBSET Pointers]
  /\ lints \in [Uris -> Seq(InFlight)]
  /\ server \in {"loading", "loaded", "tracked", "failed", "exited"}
  /\ overdue \subseteq Uris
  /\ upset \subseteq Uris

\* A code action, the dependency graph and the diagnostics on the screen come
\* from one and the same lint, also while others are in flight, end out of
\* order, or outlive the document.
OneLint ==
  \A u \in Uris :
    /\ documents[u] = shown[u]
    /\ graph[u] = IF documents[u] = None THEN {} ELSE Reported[documents[u]]

\* Once the lints of a document have ended, the diagnostics shown are those of
\* the text the editor last sent, and none when it is closed; but for what a
\* close, a change of tokens, an overtaking among its own lints or a rejection
\* of the latest of them upset.
Settled ==
  \A u \in Uris :
    Served /\ lints[u] = <<>> /\ u \notin upset => shown[u] = editor[u]

\* When tokens change in the kernel, a lint begins of every open document whose
\* current text they concern, although the server decides from the last lint
\* that ended; but for the documents upset, those whose lint was rejected and
\* that no token change relints among them.
RelintsAffected == overdue \subseteq upset

\* When the editor stops sending, the diagnostics of every document catch up
\* with its text and stay so, unless the document is upset or the server was
\* told to exit: each lint in flight is recorded or rejected.
CatchesUp ==
  <>[][~Edit]_vars =>
    <>[](~ Served \/ \A u \in Uris : u \in upset \/ shown[u] = editor[u])

\* Inductive: of a document not upset the lint that ends last is of the
\* editor's text.
LastLint ==
  \A u \in Uris :
    Served /\ u \notin upset =>
      IF lints[u] = <<>>
      THEN documents[u] = editor[u]
      ELSE lints[u][Len(lints[u])].text = editor[u]

LspInv == TypeOK /\ OneLint /\ LastLint /\ RelintsAffected

============================================================================
