-------------------------- MODULE TokenUsageProofs --------------------------
(***************************************************************************)
(* Proofs about TokenUsage for any documents, texts, tokens and runs.      *)
(***************************************************************************)
EXTENDS TokenUsage, TLAPS

USE FixedAssumption, NoneAssumption

\* Initially nothing is tracked and no run has begun.
LEMMA InitUsageInv == Init => UsageInv
<1> SUFFICES ASSUME Init PROVE UsageInv
  OBVIOUS
<1>1. TypeOK
  BY MaxEditsAssumption DEF Init, TypeOK, Run, NoRun, NoRewrite
<1>2. QED
  BY <1>1 DEF Init, UsageInv, Quiet, LastTracked, UsageOfRun, ShownLinted,
              LastRunSound, ReportExact, NoRun

\* A run with other tasks and histories is still a run.
LEMMA WithHistory ==
  ASSUME run \in [Runs -> Run], NEW r \in Runs, NEW todo \in SUBSET Docs,
         NEW linted \in SUBSET Contents, NEW shown \in SUBSET Contents
  PROVE  /\ [run EXCEPT ![r].todo = todo, ![r].linted = linted,
                         ![r].shown = shown] \in [Runs -> Run]
         /\ [run EXCEPT ![r].linted = linted, ![r].shown = shown]
              \in [Runs -> Run]
<1>1. run[r] \in Run
  OBVIOUS
<1>2. /\ [run[r] EXCEPT !.todo = todo, !.linted = linted, !.shown = shown]
           \in Run
      /\ [run[r] EXCEPT !.linted = linted, !.shown = shown] \in Run
  BY <1>1 DEF Run
<1>3. QED
  BY <1>2

\* Every step keeps the types.
LEMMA NextTypeOK == TypeOK /\ [Next]_vars => TypeOK'
<1> SUFFICES ASSUME TypeOK, [Next]_vars PROVE TypeOK'
  OBVIOUS
<1>1. ASSUME NEW r \in Runs, NEW docs \in SUBSET Docs, NEW fix \in BOOLEAN,
             Begin(r, docs, fix)
      PROVE  TypeOK'
  <2> run[r] \in Run
    BY DEF TypeOK
  <2> QED
    BY <1>1 DEF TypeOK, Run, NoRun, NoRewrite, Begin, NoteOverlap
<1>2. ASSUME NEW r \in Runs, NEW d \in Docs, ServeDoc(r, d)
      PROVE  TypeOK'
  <2> run[r] \in Run
    BY DEF TypeOK
  <2> QED
    BY <1>2 DEF TypeOK, Run, ServeDoc
<1>3. ASSUME NEW r \in Runs, NEW d \in Docs, LintDoc(r, d)
      PROVE  TypeOK'
  <2>1. text[d] \in Contents /\ Fixed[text[d]] \in Contents
    BY DEF TypeOK
  <2>2. used' \in SUBSET Tokens
    BY <1>3 DEF TypeOK, LintDoc, TrackUsage, TokensIn
  <2>3. fresh' \in SUBSET Docs
    BY <1>3 DEF TypeOK, LintDoc, Refresh
  <2>4. rewrite' \in [Runs -> [Docs -> Contents \cup {None}]]
    BY <1>3, <2>1 DEF TypeOK, LintDoc
  <2>5. run' \in [Runs -> Run]
    <3>1. PICK shown \in SUBSET Contents :
            run' = [run EXCEPT ![r].todo = run[r].todo \ {d},
                               ![r].linted = run[r].linted \cup {text[d]},
                               ![r].shown = shown]
      BY <1>3, <2>1 DEF TypeOK, Run, LintDoc
    <3>2. /\ run[r] \in Run
          /\ run[r].todo \ {d} \in SUBSET Docs
          /\ run[r].linted \cup {text[d]} \in SUBSET Contents
      BY <2>1 DEF TypeOK, Run
    <3>3. QED
      BY <3>1, <3>2, WithHistory DEF TypeOK
  <2>6. QED
    BY <1>3, <2>2, <2>3, <2>4, <2>5 DEF TypeOK, LintDoc
<1>4. ASSUME NEW r \in Runs, NEW d \in Docs, NEW statted \in BOOLEAN,
             RelintDoc(r, d, statted)
      PROVE  TypeOK'
  <2>1. rewrite[r][d] \in Contents
    BY <1>4 DEF TypeOK, Run, RelintDoc
  <2>2. used' \in SUBSET Tokens /\ fresh' \in SUBSET Docs
    BY <1>4 DEF TypeOK, RelintDoc, TrackUsage, TokensIn, Refresh
  <2>3. text' \in [Docs -> Contents]
    BY <1>4, <2>1 DEF TypeOK, RelintDoc
  <2>4. run' \in [Runs -> Run]
    <3>1. PICK shown \in SUBSET Contents :
            run' = [run EXCEPT ![r].linted = run[r].linted \cup {rewrite[r][d]},
                               ![r].shown = shown]
      BY <1>4, <2>1 DEF TypeOK, Run, RelintDoc
    <3>2. /\ run[r] \in Run
          /\ run[r].linted \cup {rewrite[r][d]} \in SUBSET Contents
      BY <2>1 DEF TypeOK, Run
    <3>3. QED
      BY <3>1, <3>2, WithHistory DEF TypeOK
  <2>5. QED
    BY <1>4, <2>2, <2>3, <2>4, <2>1 DEF TypeOK, RelintDoc
<1>5. ASSUME NEW r \in Runs, NEW d \in Docs, FailDoc(r, d)
      PROVE  TypeOK'
  <2> run[r] \in Run
    BY DEF TypeOK
  <2>1. text' \in [Docs -> Contents]
    BY <1>5 DEF TypeOK, FailDoc
  <2>2. fresh' \in SUBSET Docs /\ run' \in [Runs -> Run]
    BY <1>5 DEF TypeOK, Run, FailDoc
  <2>3. rewrite' \in [Runs -> [Docs -> Contents \cup {None}]]
    BY <1>5 DEF TypeOK, FailDoc
  <2> QED
    BY <1>5, <2>1, <2>2, <2>3 DEF TypeOK, FailDoc
<1>6. ASSUME NEW r \in Runs, Collect(r)
      PROVE  TypeOK'
  <2> run[r] \in Run
    BY DEF TypeOK
  <2> QED
    BY <1>6 DEF TypeOK, Run, Collect, UnusedTokens
<1>7. ASSUME NEW r \in Runs, Return(r)
      PROVE  TypeOK'
  <2> run[r] \in Run
    BY DEF TypeOK
  <2> QED
    BY <1>7 DEF TypeOK, Run, NoRun, NoRewrite, Return
<1>8. ASSUME NEW d \in Docs, NEW c \in Contents, Edit(d, c)
      PROVE  TypeOK'
  BY <1>8, MaxEditsAssumption DEF TypeOK, Edit
<1>9. CASE UNCHANGED vars
  BY <1>9 DEF TypeOK, vars
<1>10. QED
  BY <1>1, <1>2, <1>3, <1>4, <1>5, <1>6, <1>7, <1>8, <1>9 DEF Next

\* One more text adds what it refers to; fewer texts refer to no more.
LEMMA MentionsGrow ==
  /\ Mentions({}) = {}
  /\ \A texts, c : Mentions(texts \cup {c}) = Mentions(texts) \cup TokensIn(c)
  /\ \A texts, more : texts \subseteq more => Mentions(texts) \subseteq Mentions(more)
BY DEF Mentions

\* A text more is linted, by a run that is linting, and its tokens are tracked.
LEMMA Tracked ==
  ASSUME TypeOK, TypeOK', Quiet, LastTracked, UsageOfRun, ShownLinted,
         LastRunSound, ReportExact,
         NEW r \in Runs, NEW c,
         \A s \in Runs \ {r} : run'[s] = run[s] /\ rewrite'[s] = rewrite[s],
         run'[r].phase = "lint", run[r].phase = "lint",
         run'[r].report = run[r].report,
         run'[r].linted = run[r].linted \cup {c},
         run'[r].shown \subseteq run[r].shown \cup {c},
         last' = last, alone' = alone, used' = used \cup TokensIn(c)
  PROVE  /\ Quiet' /\ LastTracked' /\ UsageOfRun' /\ ShownLinted'
         /\ LastRunSound' /\ ReportExact'
<1>1. Mentions(run'[r].linted) = Mentions(run[r].linted) \cup TokensIn(c)
  BY MentionsGrow
<1>2. run[r].report = {} /\ run'[r].report = {}
  BY DEF Quiet
<1>3. Quiet'
  BY <1>2 DEF Quiet
<1>4. LastTracked' /\ LastRunSound'
  BY <1>1, <1>2 DEF LastTracked, LastRunSound, TypeOK
<1>5. UsageOfRun'
  BY <1>1 DEF UsageOfRun, TypeOK
<1>6. ShownLinted'
  BY DEF ShownLinted
<1>7. ReportExact'
  BY DEF ReportExact, TypeOK
<1>8. QED
  BY <1>3, <1>4, <1>5, <1>6, <1>7

\* Every step keeps the invariant.
LEMMA NextUsageInv == UsageInv /\ [Next]_vars => UsageInv'
<1> SUFFICES ASSUME UsageInv, [Next]_vars PROVE UsageInv'
  OBVIOUS
<1> TypeOK /\ TypeOK'
  BY NextTypeOK DEF UsageInv
<1> /\ Quiet /\ LastTracked /\ UsageOfRun /\ ShownLinted /\ LastRunSound
    /\ ReportExact
  BY DEF UsageInv
<1> DEFINE Rest == /\ Quiet /\ LastTracked /\ UsageOfRun /\ ShownLinted
                   /\ LastRunSound /\ ReportExact
<1>1. ASSUME NEW r \in Runs, NEW docs \in SUBSET Docs, NEW fix \in BOOLEAN,
             Begin(r, docs, fix)
      PROVE  Rest'
  <2>1. /\ \A s \in Runs \ {r} : run'[s] = run[s]
        /\ run'[r] = [NoRun EXCEPT !.phase = "lint", !.fix = fix, !.todo = docs]
        /\ rewrite' = rewrite /\ last' = r /\ used' = {}
    BY <1>1 DEF Begin, TypeOK
  <2>2. /\ run'[r].phase = "lint" /\ run'[r].report = {}
        /\ run'[r].linted = {} /\ run'[r].shown = {}
    BY <2>1 DEF NoRun
  <2>3. /\ \A s \in alone' : s = r \/ (s \in alone /\ run[s].phase # "lint")
        /\ r \in alone' => \A s \in Runs : run[s].phase # "lint"
    BY <1>1 DEF Begin, NoteOverlap, TypeOK
  <2>4. Quiet'
    BY <2>1, <2>2 DEF Quiet
  <2>5. LastTracked' /\ LastRunSound'
    BY <2>1, <2>2, MentionsGrow DEF LastTracked, LastRunSound
  <2>6. UsageOfRun'
    BY <2>1, <2>2, <2>3, MentionsGrow DEF UsageOfRun, TypeOK
  <2>7. ShownLinted'
    BY <2>1, <2>2 DEF ShownLinted
  <2>8. ReportExact'
    BY <2>1, <2>2, <2>3 DEF ReportExact, TypeOK
  <2>9. QED
    BY <2>4, <2>5, <2>6, <2>7, <2>8
<1>2. ASSUME NEW r \in Runs, NEW d \in Docs, ServeDoc(r, d)
      PROVE  Rest'
  <2>1. /\ \A s \in Runs : /\ run'[s].phase = run[s].phase
                           /\ run'[s].report = run[s].report
                           /\ run'[s].linted = run[s].linted
        /\ \A s \in Runs \ {r} : run'[s] = run[s]
        /\ Cached /\ run[r].phase = "lint"
        /\ rewrite' = rewrite /\ last' = last /\ alone' = alone /\ used' = used
    BY <1>2 DEF ServeDoc, Served, TypeOK, Run, Quiet
  <2>2. Quiet'
    BY <2>1 DEF Quiet
  <2>3. LastTracked' /\ LastRunSound' /\ UsageOfRun' /\ ShownLinted'
    BY <2>1 DEF LastTracked, LastRunSound, UsageOfRun, ShownLinted, TypeOK
  <2>4. ReportExact'
    BY <2>1 DEF ReportExact, TypeOK
  <2>5. QED
    BY <2>2, <2>3, <2>4
<1>3. ASSUME NEW r \in Runs, NEW d \in Docs, LintDoc(r, d)
      PROVE  Rest'
  <2>1. /\ \A s \in Runs \ {r} : run'[s] = run[s] /\ rewrite'[s] = rewrite[s]
        /\ run'[r].phase = "lint" /\ run[r].phase = "lint"
        /\ run'[r].report = run[r].report
        /\ run'[r].linted = run[r].linted \cup {text[d]}
        /\ run'[r].shown \subseteq run[r].shown \cup {text[d]}
        /\ last' = last /\ alone' = alone /\ used' = used \cup TokensIn(text[d])
    BY <1>3 DEF LintDoc, TrackUsage, TypeOK, Run, Quiet
  <2>2. QED
    BY <2>1, Tracked
<1>4. ASSUME NEW r \in Runs, NEW d \in Docs, NEW statted \in BOOLEAN,
             RelintDoc(r, d, statted)
      PROVE  Rest'
  <2> DEFINE output == rewrite[r][d]
  <2>1. /\ \A s \in Runs \ {r} : run'[s] = run[s] /\ rewrite'[s] = rewrite[s]
        /\ run'[r].phase = "lint" /\ run[r].phase = "lint"
        /\ run'[r].report = run[r].report
        /\ run'[r].linted = run[r].linted \cup {output}
        /\ run'[r].shown \subseteq run[r].shown \cup {output}
        /\ last' = last /\ alone' = alone /\ used' = used \cup TokensIn(output)
    BY <1>4 DEF RelintDoc, TrackUsage, TypeOK, Run, Quiet, NoRewrite
  <2>2. QED
    BY <2>1, Tracked
<1>5. ASSUME NEW r \in Runs, NEW d \in Docs, FailDoc(r, d)
      PROVE  Rest'
  <2>1. /\ \A s \in Runs : /\ run'[s].phase = run[s].phase
                           /\ run'[s].report = run[s].report
                           /\ run'[s].linted = run[s].linted
                           /\ run'[s].shown = run[s].shown
        /\ \A s \in Runs \ {r} : run'[s] = run[s] /\ rewrite'[s] = rewrite[s]
        /\ run[r].phase = "lint"
        /\ last' = last /\ alone' = alone /\ used' = used
    BY <1>5 DEF FailDoc, TypeOK, Run, Quiet, NoRewrite
  <2>2. Quiet'
    BY <2>1 DEF Quiet
  <2>3. LastTracked' /\ LastRunSound' /\ UsageOfRun' /\ ShownLinted'
    BY <2>1 DEF LastTracked, LastRunSound, UsageOfRun, ShownLinted, TypeOK
  <2>4. ReportExact'
    BY <2>1 DEF ReportExact, TypeOK
  <2>5. QED
    BY <2>2, <2>3, <2>4
<1>6. ASSUME NEW r \in Runs, Collect(r)
      PROVE  Rest'
  <2>1. /\ \A s \in Runs \ {r} : run'[s] = run[s]
        /\ run[r].phase = "lint" /\ run'[r].phase = "collected"
        /\ run'[r].todo = {} /\ rewrite'[r] = NoRewrite
        /\ run'[r].linted = run[r].linted /\ run'[r].shown = run[r].shown
        /\ run'[r].report = UnusedTokens
        /\ rewrite' = rewrite /\ last' = last /\ alone' = alone /\ used' = used
    BY <1>6 DEF Collect, TypeOK, Run
  <2>2. Quiet'
    BY <2>1 DEF Quiet
  <2>3. LastTracked' /\ ShownLinted' /\ UsageOfRun'
    BY <2>1 DEF LastTracked, ShownLinted, UsageOfRun, TypeOK
  <2>4. LastRunSound'
    BY <2>1 DEF LastRunSound, LastTracked, UnusedTokens, TypeOK
  <2>5. ReportExact'
    <3>1. r \in alone => used = Mentions(run[r].linted)
      BY <2>1 DEF UsageOfRun
    <3>2. QED
      BY <2>1, <3>1 DEF ReportExact, UnusedTokens, Named, TypeOK
  <2>6. QED
    BY <2>2, <2>3, <2>4, <2>5
<1>7. ASSUME NEW r \in Runs, Return(r)
      PROVE  Rest'
  <2>1. /\ \A s \in Runs \ {r} : run'[s] = run[s]
        /\ run'[r] = NoRun
        /\ rewrite' = rewrite /\ last' = last /\ alone' = alone /\ used' = used
        /\ run[r].phase = "collected"
    BY <1>7 DEF Return, TypeOK
  <2>2. /\ run'[r].phase = "idle" /\ run'[r].todo = {} /\ run'[r].report = {}
        /\ run'[r].linted = {} /\ run'[r].shown = {}
    BY <2>1 DEF NoRun
  <2>3. Quiet'
    BY <2>1, <2>2 DEF Quiet
  <2>4. LastTracked' /\ LastRunSound'
    BY <2>1, <2>2, MentionsGrow DEF LastTracked, LastRunSound, TypeOK
  <2>5. UsageOfRun' /\ ShownLinted'
    BY <2>1, <2>2, ZenonT(30) DEF UsageOfRun, ShownLinted, TypeOK
  <2>6. ReportExact'
    BY <2>1, <2>2 DEF ReportExact, TypeOK
  <2>7. QED
    BY <2>3, <2>4, <2>5, <2>6
<1>8. ASSUME NEW d \in Docs, NEW c \in Contents, Edit(d, c)
      PROVE  Rest'
  BY <1>8 DEF Edit, Quiet, LastTracked, UsageOfRun, ShownLinted, LastRunSound,
              ReportExact
<1>9. ASSUME UNCHANGED vars PROVE Rest'
  <2>1. run' = run /\ rewrite' = rewrite /\ last' = last /\ alone' = alone /\ used' = used
    BY <1>9 DEF vars
  <2>2. QED
    BY <2>1 DEF Quiet, LastTracked, UsageOfRun, ShownLinted, LastRunSound,
                ReportExact
<1> HIDE DEF Rest
<1>10. Rest'
  BY <1>1, <1>2, <1>3, <1>4, <1>5, <1>6, <1>7, <1>8, <1>9 DEF Next
<1>11. QED
  BY <1>10 DEF UsageInv, Rest

\* The invariant of the shared tracker.
THEOREM UsageTheorem == Spec => []UsageInv
<1>1. Init => UsageInv
  BY InitUsageInv
<1>2. UsageInv /\ [Next]_vars => UsageInv'
  BY NextUsageInv
<1>3. QED
  BY <1>1, <1>2, PTL DEF Spec

\* The tracker's keys, the runs and what they read keep their types.
THEOREM TypeTheorem == Spec => []TypeOK
<1>1. UsageInv => TypeOK
  BY DEF UsageInv
<1>2. QED
  BY <1>1, UsageTheorem, PTL

\* The report of a run that overlaps no other is exact for the texts the run
\* linted: Linter.lintDocuments with TokenTracker.
THEOREM ReportExactTheorem == Spec => []ReportExact
<1>1. UsageInv => ReportExact
  BY DEF UsageInv
<1>2. QED
  BY <1>1, UsageTheorem, PTL

\* Whatever overlaps, the run that called TokenTracker.beginRun last reports
\* no token that it saw referred to.
THEOREM LastRunTheorem == Spec => []LastRunSound
<1>1. UsageInv => LastRunSound
  BY DEF UsageInv
<1>2. QED
  BY <1>1, UsageTheorem, PTL

\* What the rule's page promises holds without --cache, of a run that overlaps
\* no other.
THEOREM NoFalseUnusedTheorem == ASSUME ~ Cached PROVE Spec => []NoFalseUnused
<1>1. UsageInv => NoFalseUnused
  <2> SUFFICES ASSUME UsageInv, NEW r \in alone
               PROVE  run[r].report \cap Mentions(run[r].shown) = {}
    BY DEF NoFalseUnused
  <2> r \in Runs
    BY DEF UsageInv, TypeOK
  <2>1. Mentions(run[r].shown) \subseteq Mentions(run[r].linted)
    BY MentionsGrow DEF UsageInv, ShownLinted
  <2>2. CASE run[r].phase = "collected"
    BY <2>1, <2>2 DEF UsageInv, ReportExact
  <2>3. CASE run[r].phase # "collected"
    BY <2>3 DEF UsageInv, Quiet
  <2>4. QED
    BY <2>2, <2>3
<1>2. QED
  BY <1>1, UsageTheorem, PTL
=============================================================================
