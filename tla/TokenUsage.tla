----------------------------- MODULE TokenUsage -----------------------------
(***************************************************************************)
(* Token usage across a lint run: Linter.lintDocuments and lintText, the   *)
(* TokenTracker that one linter shares between its runs, and the run-level *)
(* rule design-system/no-unused-tokens, which is taken to be enabled.      *)
(* DocumentCache has the cache in detail; here an entry is valid for the   *)
(* file as it is, or not, and a document is read, linted and cached in one *)
(* step.                                                                   *)
(***************************************************************************)
EXTENDS Integers, FiniteSets

CONSTANTS
  Docs,        \* the documents the linter may be given
  Contents,    \* what a file can hold
  Tokens,      \* the tokens the tracker loaded
  Identities,  \* Identities[t]: the names, paths, pointers and values of t
  Refs,        \* Refs[c]: the identities a parser finds in c
  Value,       \* Value[t]: the display value of t
  Ignored,     \* the entries of the rule's "ignore" option
  Fixed,       \* Fixed[c]: c after applyFixes with the messages c gets
  Runs,        \* slots for runs on one linter: watch mode starts one for each
               \* event, whether the one before has returned or not
  Cached,      \* TRUE with --cache
  MaxEdits,    \* bound: the number of edits
  None         \* no rewritten text; no run has begun

ASSUME FixedAssumption == Fixed \in [Contents -> Contents]
ASSUME CachedAssumption == Cached \in BOOLEAN
ASSUME MaxEditsAssumption == MaxEdits \in Nat
ASSUME NoneAssumption == None \notin Contents /\ None \notin Runs

VARIABLES
  text,    \* text[d]: what the file d holds
  fresh,   \* the documents whose cache entry fits what the file holds
  used,    \* usedTokenKeys
  run,     \* run[r]: one call of lintDocuments
  rewrite, \* rewrite[r][d]: the fixed text still to be written and linted
  last,    \* history: the run whose beginRun came last
  alone,   \* history: the runs that overlapped no other up to their report
  edits    \* the number of edits so far

vars == <<text, fresh, used, run, rewrite, last, alone, edits>>

\* "todo" are the documents whose task is still to come.  History: "linted"
\* are the texts the run gave to lintText, "shown" those its results describe.
Run == [phase: {"idle", "lint", "collected"},
        fix: BOOLEAN,
        todo: SUBSET Docs,
        linted: SUBSET Contents,
        shown: SUBSET Contents,
        report: SUBSET Tokens]

NoRewrite == [d \in Docs |-> None]

NoRun == [phase |-> "idle", fix |-> FALSE, todo |-> {},
          linted |-> {}, shown |-> {}, report |-> {}]

----------------------------------------------------------------------------

\* The tokens that c refers to: one identity may stand for several tokens.
TokensIn(c) == {t \in Tokens : Identities[t] \cap Refs[c] # {}}

\* Faulty variant: the keys of the last text take the place of the others.
TrackUsageOverwrites(c) == TokensIn(c)

\* Faulty variant: the identities found are kept, not the keys they stand for.
TrackUsageRaw(c) == used \cup Refs[c]

\* trackUsage.
TrackUsage(c) == used \cup TokensIn(c)

\* getUnusedTokens.
UnusedTokens == {t \in Tokens \ used : Value[t] \notin Ignored}

Served(r, d) == Cached /\ ~ run[r].fix /\ d \in fresh

\* The documents of CacheManager.processDocument whose entry is replaced.
Refresh(d) == IF Cached THEN fresh \cup {d} ELSE fresh

----------------------------------------------------------------------------

Init ==
  /\ text \in [Docs -> Contents]
  /\ fresh = {}
  /\ used = {}
  /\ run = [r \in Runs |-> NoRun]
  /\ rewrite = [r \in Runs |-> NoRewrite]
  /\ last = None
  /\ alone = {}
  /\ edits = 0

\* The history of the runs that do not overlap, when r begins.
NoteOverlap(r) ==
  LET linting == {s \in Runs : run[s].phase = "lint"} IN
  alone' = IF linting = {} THEN alone \cup {r} ELSE alone \ (linting \cup {r})

\* Faulty variant: a run starts from the keys the one before it left.
BeginKeepsUsage(r, docs, fix) ==
  /\ run[r].phase = "idle"
  /\ fresh' = IF docs = {} THEN fresh ELSE fresh \cap docs
  /\ run' = [run EXCEPT ![r] =
               [NoRun EXCEPT !.phase = "lint", !.fix = fix, !.todo = docs]]
  /\ last' = r
  /\ NoteOverlap(r)
  /\ UNCHANGED <<text, used, rewrite, edits>>

\* beginRun, and the prune with which Runner.run starts unless it has no
\* documents.
Begin(r, docs, fix) ==
  /\ run[r].phase = "idle"
  /\ used' = {}
  /\ fresh' = IF docs = {} THEN fresh ELSE fresh \cap docs
  /\ run' = [run EXCEPT ![r] =
               [NoRun EXCEPT !.phase = "lint", !.fix = fix, !.todo = docs]]
  /\ last' = r
  /\ NoteOverlap(r)
  /\ UNCHANGED <<text, rewrite, edits>>

\* A cached result: lintText is not called and nothing is tracked.
ServeDoc(r, d) ==
  /\ d \in run[r].todo
  /\ Served(r, d)
  /\ run' = [run EXCEPT ![r].todo = @ \ {d}, ![r].shown = @ \cup {text[d]}]
  /\ UNCHANGED <<text, fresh, used, rewrite, last, alone, edits>>

\* lintText of what the file holds: its references are tracked.  With fixes
\* that change the text a second pass follows.
LintDoc(r, d) ==
  /\ d \in run[r].todo
  /\ ~ Served(r, d)
  /\ used' = TrackUsage(text[d])
  /\ LET again == run[r].fix /\ Fixed[text[d]] # text[d] IN
       /\ fresh' = IF again THEN fresh ELSE Refresh(d)
       /\ rewrite' = [rewrite EXCEPT
                        ![r][d] = IF again THEN Fixed[text[d]] ELSE None]
       /\ run' = [run EXCEPT
                    ![r].todo = @ \ {d},
                    ![r].linted = @ \cup {text[d]},
                    ![r].shown = IF again THEN @ ELSE @ \cup {text[d]}]
  /\ UNCHANGED <<text, last, alone, edits>>

\* The fixed text is written and linted; what the first pass tracked stays.
\* If the stat that follows throws, the result is an error message and the
\* entry is removed, but what was tracked stays as well.
RelintDoc(r, d, statted) ==
  /\ rewrite[r][d] # None
  /\ LET output == rewrite[r][d] IN
       /\ text' = [text EXCEPT ![d] = output]
       /\ used' = TrackUsage(output)
       /\ run' = [run EXCEPT
                    ![r].linted = @ \cup {output},
                    ![r].shown = IF statted THEN @ \cup {output} ELSE @]
  /\ rewrite' = [rewrite EXCEPT ![r][d] = None]
  /\ fresh' = IF statted THEN Refresh(d) ELSE fresh \ {d}
  /\ UNCHANGED <<last, alone, edits>>

\* The read, the lint or the write of a document throws, or the lint of what
\* was written: its result is one error message and its entry is removed.
FailDoc(r, d) ==
  /\ \/ d \in run[r].todo /\ ~ Served(r, d) /\ text' = text
     \/ /\ rewrite[r][d] # None
        /\ text' \in {text, [text EXCEPT ![d] = rewrite[r][d]]}
  /\ fresh' = fresh \ {d}
  /\ run' = [run EXCEPT ![r].todo = @ \ {d}]
  /\ rewrite' = [rewrite EXCEPT ![r][d] = None]
  /\ UNCHANGED <<used, last, alone, edits>>

\* Runner.run has returned and onRunComplete reports the unused tokens.
Collect(r) ==
  /\ run[r].phase = "lint"
  /\ run[r].todo = {} /\ rewrite[r] = NoRewrite
  /\ run' = [run EXCEPT ![r].phase = "collected", ![r].report = UnusedTokens]
  /\ UNCHANGED <<text, fresh, used, rewrite, last, alone, edits>>

Return(r) ==
  /\ run[r].phase = "collected"
  /\ run' = [run EXCEPT ![r] = NoRun]
  /\ UNCHANGED <<text, fresh, used, rewrite, last, alone, edits>>

\* An editor, or another program, writes a file.
Edit(d, c) ==
  /\ edits < MaxEdits
  /\ text' = [text EXCEPT ![d] = c]
  /\ fresh' = fresh \ {d}
  /\ edits' = edits + 1
  /\ UNCHANGED <<used, run, rewrite, last, alone>>

Next ==
  \/ \E r \in Runs, docs \in SUBSET Docs, fix \in BOOLEAN : Begin(r, docs, fix)
  \/ \E r \in Runs, d \in Docs :
       \/ ServeDoc(r, d) \/ LintDoc(r, d) \/ FailDoc(r, d)
       \/ \E statted \in BOOLEAN : RelintDoc(r, d, statted)
  \/ \E r \in Runs : Collect(r) \/ Return(r)
  \/ \E d \in Docs, c \in Contents : Edit(d, c)

Spec == Init /\ [][Next]_vars

----------------------------------------------------------------------------

\* Every variable keeps its type.
TypeOK ==
  /\ text \in [Docs -> Contents]
  /\ fresh \in SUBSET Docs
  /\ used \in SUBSET Tokens
  /\ run \in [Runs -> Run]
  /\ rewrite \in [Runs -> [Docs -> Contents \cup {None}]]
  /\ last \in Runs \cup {None}
  /\ alone \subseteq Runs
  /\ edits \in 0 .. MaxEdits

Mentions(texts) == UNION {TokensIn(c) : c \in texts}

\* The tokens that an entry of the option stands for, read as the rule's page
\* reads it: by the value, the path or the name of the CSS variable.
Named == {t \in Tokens : ({Value[t]} \cup Identities[t]) \cap Ignored # {}}

\* A run that overlaps no other judges by the texts it linted itself, and by
\* all of them: it reports no token that one of them refers to by any identity
\* or whose value the option holds, and every other that the option does not
\* name.  Of the tokens whose path or variable it names nothing is said: the
\* page exempts them and the code does not.  (token-tracker.ts: usage is that
\* of one whole run.)
ReportExact ==
  \A r \in alone :
    run[r].phase = "collected" =>
      LET unused == Tokens \ Mentions(run[r].linted) IN
        /\ run[r].report \subseteq {t \in unused : Value[t] \notin Ignored}
        /\ unused \ Named \subseteq run[r].report

\* Only the start of another run can make a report claim too much: the run
\* that began last reports no token that it saw referred to itself, however
\* the others track and collect meanwhile.
LastRunSound ==
  last # None => run[last].report \cap Mentions(run[last].linted) = {}

\* What docs/rules/design-system/no-unused-tokens.md promises, for a run that
\* overlaps no other: no token is reported that a file whose result the run
\* returns refers to.
NoFalseUnused ==
  \A r \in alone : run[r].report \cap Mentions(run[r].shown) = {}

\* Why they hold: the inductive invariant.  A task belongs to a run that is
\* linting; the keys cover what the run that began last linted, and are no
\* more than what a run linted that has the tracker for itself.
Quiet ==
  \A r \in Runs :
    /\ run[r].phase # "lint" => run[r].todo = {} /\ rewrite[r] = NoRewrite
    /\ run[r].phase # "collected" => run[r].report = {}
    /\ run[r].phase = "idle" => run[r].linted = {} /\ run[r].shown = {}

LastTracked == last # None => Mentions(run[last].linted) \subseteq used

UsageOfRun ==
  \A r \in alone :
    run[r].phase = "lint" =>
      /\ \A s \in Runs : run[s].phase = "lint" => s = r
      /\ used = Mentions(run[r].linted)

ShownLinted == ~ Cached => \A r \in Runs : run[r].shown \subseteq run[r].linted

UsageInv ==
  /\ TypeOK /\ Quiet /\ LastTracked /\ UsageOfRun /\ ShownLinted
  /\ LastRunSound /\ ReportExact
=============================================================================
