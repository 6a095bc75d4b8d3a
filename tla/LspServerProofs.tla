-------------------------- MODULE LspServerProofs --------------------------
(***************************************************************************)
(* Proofs about LspServer for any documents, texts and pointers, and any   *)
(* number of lints in flight.                                              *)
(***************************************************************************)
EXTENDS LspServer, SequenceTheorems, TLAPS

USE NoneAssumption

\* What is left of the lints in flight when the i-th has ended: they are still
\* lints of texts, and one fewer.
LEMMA RemoveAtType ==
  ASSUME NEW S, NEW s \in Seq(S), NEW i \in 1..Len(s)
  PROVE  /\ RemoveAt(s, i) \in Seq(S)
         /\ Len(RemoveAt(s, i)) = Len(s) - 1
<1>1. /\ SubSeq(s, 1, i - 1) \in Seq(S)
      /\ Len(SubSeq(s, 1, i - 1)) = i - 1
  BY SubSeqProperties
<1>2. /\ SubSeq(s, i + 1, Len(s)) \in Seq(S)
      /\ Len(SubSeq(s, i + 1, Len(s))) = Len(s) - i
  BY SubSeqProperties, LenProperties
<1> DEFINE front == SubSeq(s, 1, i - 1)
           rest == SubSeq(s, i + 1, Len(s))
<1> HIDE DEF front, rest
<1>3. /\ front \o rest \in Seq(S)
      /\ Len(front \o rest) = Len(front) + Len(rest)
  BY <1>1, <1>2, ConcatProperties DEF front, rest
<1>4. /\ Len(s) \in Nat /\ i \in Int
      /\ Len(front) = i - 1 /\ Len(rest) = Len(s) - i
  BY <1>1, <1>2, LenProperties DEF front, rest
<1>5. Len(front) + Len(rest) = Len(s) - 1
  BY <1>4
<1>6. QED
  BY <1>3, <1>5 DEF RemoveAt, front, rest

\* When a lint in flight but the last has ended, the last one is as before.
LEMMA RemoveAtKeepsLast ==
  ASSUME NEW S, NEW s \in Seq(S), NEW i \in 1..Len(s), i # Len(s)
  PROVE  /\ RemoveAt(s, i) # <<>>
         /\ RemoveAt(s, i)[Len(RemoveAt(s, i))] = s[Len(s)]
<1> DEFINE front == SubSeq(s, 1, i - 1)
           rest == SubSeq(s, i + 1, Len(s))
<1>1. Len(s) \in Nat /\ i \in Nat /\ i >= 1 /\ i < Len(s)
  BY LenProperties
<1>2. front \in Seq(S) /\ Len(front) = i - 1
  BY <1>1, SubSeqProperties
<1>3. /\ rest \in Seq(S) /\ Len(rest) = Len(s) - i
      /\ rest[Len(s) - i] = s[Len(s)]
  BY <1>1, SubSeqProperties
<1> HIDE DEF front, rest
<1>4. /\ front \o rest \in Seq(S)
      /\ Len(front \o rest) = Len(front) + Len(rest)
      /\ \A k \in 1..Len(front) + Len(rest) :
           (front \o rest)[k] = IF k <= Len(front) THEN front[k]
                                ELSE rest[k - Len(front)]
  BY <1>2, <1>3, ConcatProperties
<1>5. /\ Len(front) + Len(rest) = Len(s) - 1
      /\ Len(s) - 1 \in 1..Len(front) + Len(rest)
      /\ ~ (Len(s) - 1 <= Len(front))
      /\ (Len(s) - 1) - Len(front) = Len(s) - i
  BY <1>1, <1>2, <1>3
<1>6. (front \o rest)[Len(s) - 1] = s[Len(s)]
  BY <1>3, <1>4, <1>5
<1>7. RemoveAt(s, i) = front \o rest
  BY DEF RemoveAt, front, rest
<1>8. Len(RemoveAt(s, i)) = Len(s) - 1
  BY <1>4, <1>5, <1>7
<1>9. RemoveAt(s, i) # <<>>
  BY <1>1, <1>8, EmptySeq
<1>10. QED
  BY <1>6, <1>7, <1>8, <1>9

\* The lints of a document when the i-th has become ready.
Readied(s, i) == [s EXCEPT ![i] = [text |-> @.text, ready |-> TRUE]]

\* A lint that becomes ready is a lint of the text it was.
LEMMA ReadyType ==
  ASSUME NEW s \in Seq(InFlight), NEW i \in 1..Len(s)
  PROVE  /\ Readied(s, i) \in Seq(InFlight)
         /\ Len(Readied(s, i)) = Len(s)
         /\ s # <<>> /\ Readied(s, i) # <<>>
         /\ Readied(s, i)[Len(s)].text = s[Len(s)].text
<1> DEFINE r == Readied(s, i)
<1>1. /\ Len(s) \in Nat /\ Len(s) >= 1 /\ DOMAIN s = 1..Len(s)
      /\ s \in [1..Len(s) -> InFlight]
  BY LenProperties
<1>2. s[i] \in InFlight /\ s[Len(s)] \in InFlight
  BY <1>1
<1>3. r \in [1..Len(s) -> InFlight] /\ r[Len(s)].text = s[Len(s)].text
  BY <1>1, <1>2 DEF Readied, InFlight
<1>4. r \in Seq(InFlight) /\ Len(r) = Len(s)
  BY <1>1, <1>3, SeqDef, LenProperties
<1>5. s # <<>> /\ r # <<>>
  BY <1>1, <1>4, EmptySeq
<1>6. QED
  BY <1>3, <1>4, <1>5

\* A lint that begins is a lint of its text.
LEMMA BegunType ==
  ASSUME NEW t
  PROVE  /\ t \in Texts => Begun(t) \in InFlight
         /\ Begun(t).text = t
  BY DEF Begun, InFlight

\* Every step keeps the types.
LEMMA NextTypeOK == TypeOK /\ [Next]_vars => TypeOK'
<1> SUFFICES ASSUME TypeOK, [Next]_vars PROVE TypeOK'
  OBVIOUS
<1>1. ASSUME NEW u \in Uris, NEW t \in Texts, DidOpen(u, t) \/ DidChange(u, t)
      PROVE  TypeOK'
  <2>1. Append(lints[u], Begun(t)) \in Seq(InFlight)
    BY AppendProperties, BegunType DEF TypeOK
  <2>2. CASE DidOpen(u, t)
    BY <2>1, <2>2 DEF DidOpen, Lint, TypeOK
  <2>3. CASE DidChange(u, t)
    BY <2>1, <2>3 DEF DidChange, Lint, TypeOK
  <2>4. QED
    BY <1>1, <2>2, <2>3
<1>2. ASSUME NEW u \in Uris, DidClose(u) PROVE TypeOK'
  BY <1>2 DEF DidClose, TypeOK
<1>3. ASSUME NEW u \in Uris, NEW i \in 1..MaxLints,
             LintAndPublish(u, i) \/ Reject(u, i)
      PROVE  TypeOK'
  <2>1. /\ lints[u] \in Seq(InFlight)
        /\ i \in 1..Len(lints[u])
    BY <1>3 DEF LintAndPublish, Reject, TypeOK
  <2>2. lints[u][i] \in InFlight
    BY <2>1, ElementOfSeq
  <2>3. lints[u][i].text \in Texts /\ Reported[lints[u][i].text] \subseteq Pointers
    BY <2>2, PointersAssumption DEF InFlight
  <2>4. RemoveAt(lints[u], i) \in Seq(InFlight)
    BY <2>1, RemoveAtType
  <2>5. CASE LintAndPublish(u, i)
    BY <2>3, <2>4, <2>5 DEF LintAndPublish, TypeOK
  <2>6. CASE Reject(u, i)
    BY <2>4, <2>6 DEF Reject, TypeOK
  <2>7. QED
    BY <1>3, <2>5, <2>6
<1>4. ASSUME NEW u \in Uris, NEW i \in 1..MaxLints, Configure(u, i)
      PROVE  TypeOK'
  <2>1. /\ lints[u] \in Seq(InFlight)
        /\ i \in 1..Len(lints[u])
    BY <1>4 DEF Configure, TypeOK
  <2>2. Readied(lints[u], i) \in Seq(InFlight)
    BY <2>1, ReadyType
  <2>3. QED
    BY <1>4, <2>2 DEF Configure, Readied, TypeOK
<1>5. CASE LoadTokens \/ Exit
  BY <1>5, EmptySeq DEF LoadTokens, Exit, TypeOK
<1>6. ASSUME NEW pointers \in SUBSET Pointers, TokensChanged(pointers)
      PROVE  TypeOK'
  <2>1. ASSUME NEW u \in Uris, Affected(u, pointers)
        PROVE  Append(lints[u], Begun(documents[u]))
                 \in Seq(InFlight)
    BY <2>1, AppendProperties, BegunType DEF Affected, TypeOK
  <2>2. lints' \in [Uris -> Seq(InFlight)]
    BY <1>6, <2>1 DEF TokensChanged, TypeOK
  <2>3. QED
    BY <1>6, <2>2 DEF TokensChanged, TypeOK
<1>7. CASE UNCHANGED vars
  BY <1>7 DEF vars, TypeOK
<1>8. QED
  BY <1>1, <1>2, <1>3, <1>4, <1>5, <1>6, <1>7 DEF Next, Edit, Lints

\* The diagnostics shown, the graph and the recorded state stay together.
LEMMA NextOneLint == TypeOK /\ OneLint /\ [Next]_vars => OneLint'
<1> SUFFICES ASSUME TypeOK, OneLint, [Next]_vars, NEW v \in Uris
             PROVE  /\ documents'[v] = shown'[v]
                    /\ graph'[v] = IF documents'[v] = None THEN {}
                                   ELSE Reported[documents'[v]]
  BY DEF OneLint
<1>1. /\ documents[v] = shown[v]
      /\ graph[v] = IF documents[v] = None THEN {} ELSE Reported[documents[v]]
  BY DEF OneLint
<1>2. CASE UNCHANGED <<shown, documents, graph>>
  BY <1>1, <1>2
<1>3. ASSUME NEW u \in Uris, DidClose(u)
      PROVE  /\ documents'[v] = shown'[v]
             /\ graph'[v] = IF documents'[v] = None THEN {}
                            ELSE Reported[documents'[v]]
  BY <1>1, <1>3 DEF DidClose, TypeOK
<1>4. ASSUME NEW u \in Uris, NEW i \in 1..MaxLints, LintAndPublish(u, i)
      PROVE  /\ documents'[v] = shown'[v]
             /\ graph'[v] = IF documents'[v] = None THEN {}
                            ELSE Reported[documents'[v]]
  <2>1. lints[u] \in Seq(InFlight) /\ i \in 1..Len(lints[u])
    BY <1>4 DEF LintAndPublish, TypeOK
  <2>2. lints[u][i] \in InFlight
    BY <2>1, ElementOfSeq
  <2>3. lints[u][i].text \in Texts
    BY <2>2 DEF InFlight
  <2>4. QED
    BY <1>1, <1>4, <2>3 DEF LintAndPublish, TypeOK
<1>5. QED
  BY <1>2, <1>3, <1>4 DEF Next, Edit, Lints, DidOpen, DidChange, Configure,
                          Reject, LoadTokens, TokensChanged, Exit, vars

\* Of a document not upset the lint that ends last stays one of its text.
LEMMA NextLastLint == TypeOK /\ LastLint /\ [Next]_vars => LastLint'
<1> DEFINE Tame(v) ==
             Served /\ v \notin upset =>
               IF lints[v] = <<>>
               THEN documents[v] = editor[v]
               ELSE lints[v][Len(lints[v])].text = editor[v]
<1> SUFFICES ASSUME TypeOK, LastLint, [Next]_vars, NEW v \in Uris
             PROVE  Tame(v)'
  BY DEF LastLint
<1>1. Tame(v) /\ lints[v] \in Seq(InFlight)
  BY DEF LastLint, TypeOK
<1>2. ASSUME NEW u \in Uris, NEW t \in Texts, DidOpen(u, t) \/ DidChange(u, t)
      PROVE  Tame(v)'
  <2>1. CASE u = v
    <3>1. /\ lints'[v] = Append(lints[v], Begun(t)) /\ editor'[v] = t
          /\ UNCHANGED <<documents, server>>
      BY <1>2, <2>1 DEF DidOpen, DidChange, Lint, TypeOK
    <3>2. /\ lints'[v] # <<>> /\ lints'[v][Len(lints'[v])].text = t
      BY <1>1, <3>1, BegunType, AppendProperties
    <3>3. QED
      BY <1>1, <3>1, <3>2
  <2>2. CASE u # v
    BY <1>1, <1>2, <2>2 DEF DidOpen, DidChange, Lint, TypeOK
  <2>3. QED
    BY <2>1, <2>2
<1>3. ASSUME NEW u \in Uris, DidClose(u) PROVE Tame(v)'
  BY <1>1, <1>3 DEF DidClose, Served, TypeOK
<1>4. ASSUME NEW u \in Uris, NEW i \in 1..MaxLints, LintAndPublish(u, i)
      PROVE  Tame(v)'
  <2>1. Served /\ Served'
    BY <1>4 DEF LintAndPublish, Served
  <2>2. CASE u = v /\ i = 1
    <3>1. /\ Len(lints[v]) \in Nat /\ Len(lints[v]) >= 1
          /\ lints'[v] = RemoveAt(lints[v], 1)
          /\ documents'[v] = lints[v][1].text
          /\ UNCHANGED <<editor, upset>>
      BY <1>1, <1>4, <2>2 DEF LintAndPublish, TypeOK
    <3>2. v \notin upset => lints[v][Len(lints[v])].text = editor[v]
      BY <1>1, <2>1, <3>1, EmptySeq
    <3>3. CASE Len(lints[v]) = 1
      BY <1>1, <2>1, <3>1, <3>2, <3>3, RemoveAtType, EmptySeq
    <3>4. CASE Len(lints[v]) > 1
      BY <1>1, <2>1, <3>1, <3>2, <3>4, RemoveAtType, RemoveAtKeepsLast, EmptySeq
    <3>5. \A n \in Nat : n >= 1 => n = 1 \/ n > 1
      OBVIOUS
    <3>6. QED
      BY <3>1, <3>3, <3>4, <3>5
  <2>3. CASE u = v /\ i # 1
    BY <1>4, <2>1, <2>3 DEF LintAndPublish
  <2>4. CASE u # v
    BY <1>1, <1>4, <2>4 DEF LintAndPublish, TypeOK
  <2>5. QED
    BY <2>2, <2>3, <2>4
<1>5. ASSUME NEW u \in Uris, NEW i \in 1..MaxLints, Reject(u, i)
      PROVE  Tame(v)'
  <2>1. /\ UNCHANGED <<editor, documents, server>>
        /\ Served
    BY <1>5 DEF Reject, Served
  <2>2. CASE u = v /\ i = Len(lints[v])
    BY <1>5, <2>2 DEF Reject
  <2>3. CASE u = v /\ i # Len(lints[v])
    <3>1. /\ lints'[v] = RemoveAt(lints[v], i) /\ upset' = upset
          /\ i \in 1..Len(lints[v])
      BY <1>1, <1>5, <2>3 DEF Reject, TypeOK
    <3>2. /\ lints'[v] # <<>>
          /\ lints'[v][Len(lints'[v])] = lints[v][Len(lints[v])]
      BY <1>1, <2>3, <3>1, RemoveAtKeepsLast
    <3>3. lints[v] # <<>>
      BY <1>1, <3>1, EmptySeq
    <3>4. QED
      BY <1>1, <2>1, <3>1, <3>2, <3>3 DEF Served
  <2>4. CASE u # v
    BY <1>1, <1>5, <2>1, <2>4 DEF Reject, Served, TypeOK
  <2>5. QED
    BY <2>2, <2>3, <2>4
<1>6. ASSUME NEW u \in Uris, NEW i \in 1..MaxLints, Configure(u, i)
      PROVE  Tame(v)'
  <2>1. /\ UNCHANGED <<editor, documents, upset>> /\ Served
    BY <1>6 DEF Configure, Served
  <2>2. CASE u = v
    <3>1. /\ lints'[v] = Readied(lints[v], i)
          /\ i \in 1..Len(lints[v])
      BY <1>1, <1>6, <2>2 DEF Configure, Readied, TypeOK
    <3>2. /\ lints[v] # <<>> /\ lints'[v] # <<>>
          /\ lints'[v][Len(lints'[v])].text = lints[v][Len(lints[v])].text
      BY <1>1, <3>1, ReadyType
    <3>3. QED
      BY <1>1, <2>1, <3>2
  <2>3. CASE u # v
    BY <1>1, <1>6, <2>1, <2>3 DEF Configure, TypeOK
  <2>4. QED
    BY <2>2, <2>3
<1>7. CASE LoadTokens \/ Exit
  BY <1>1, <1>7 DEF LoadTokens, Exit, Served, TypeOK
<1>8. ASSUME NEW pointers \in SUBSET Pointers, TokensChanged(pointers)
      PROVE  Tame(v)'
  <2>1. /\ UNCHANGED <<editor, documents, server>> /\ Served
        /\ v \notin upset' => v \notin upset /\ lints[v] = <<>>
    BY <1>8 DEF TokensChanged
  <2>2. CASE lints[v] # <<>>
    BY <1>1, <2>1, <2>2
  <2>3. CASE lints[v] = <<>> /\ Affected(v, pointers)
    <3>1. /\ documents[v] \in Texts
          /\ lints'[v] = Append(<<>>, Begun(documents[v]))
      BY <1>8, <2>3 DEF TokensChanged, Affected, TypeOK
    <3>2. lints'[v] # <<>> /\ lints'[v][Len(lints'[v])].text = documents[v]
      BY <1>1, <2>3, <3>1, BegunType, AppendProperties
    <3>3. QED
      BY <1>1, <2>1, <2>3, <3>2
  <2>4. CASE lints[v] = <<>> /\ ~ Affected(v, pointers)
    BY <1>1, <1>8, <2>1, <2>4 DEF TokensChanged, Served
  <2>5. QED
    BY <2>2, <2>3, <2>4
<1>9. CASE UNCHANGED vars
  BY <1>1, <1>9 DEF vars, Served
<1>10. QED
  BY <1>2, <1>3, <1>4, <1>5, <1>6, <1>7, <1>8, <1>9 DEF Next, Edit, Lints

\* No open document that a change of tokens concerns goes without a lint, but
\* for the documents upset.
LEMMA NextOverdue ==
  TypeOK /\ OneLint /\ LastLint /\ RelintsAffected /\ [Next]_vars
    => RelintsAffected'
<1> SUFFICES ASSUME TypeOK, OneLint, LastLint, overdue \subseteq upset, [Next]_vars
             PROVE  overdue' \subseteq upset'
  BY DEF RelintsAffected
<1>1. ASSUME NEW pointers \in SUBSET Pointers, TokensChanged(pointers)
      PROVE  overdue' \subseteq upset'
  <2>1. SUFFICES ASSUME NEW u \in Uris, u \notin upset', Concerns(u, pointers)
                 PROVE  Affected(u, pointers)
    BY <1>1 DEF TokensChanged
  <2>2. lints[u] = <<>> /\ u \notin upset /\ Served
    BY <1>1, <2>1 DEF TokensChanged
  <2>3. documents[u] = editor[u]
    BY <2>2 DEF LastLint
  <2>4. editor[u] # None /\ graph[u] = Reported[editor[u]]
    BY <2>1, <2>3 DEF Concerns, OneLint
  <2>5. QED
    BY <2>1, <2>3, <2>4 DEF Concerns, Affected
<1>2. ASSUME NEW u \in Uris, NEW t \in Texts, DidOpen(u, t) \/ DidChange(u, t)
      PROVE  overdue' \subseteq upset'
  BY <1>2 DEF DidOpen, DidChange, Lint
<1>3. QED
  BY <1>1, <1>2 DEF Next, Edit, Lints, DidClose, LintAndPublish, Configure,
                    Reject, LoadTokens, Exit, vars

----------------------------------------------------------------------------

\* The types hold throughout.
THEOREM TypeTheorem == Spec => []TypeOK
<1>1. Init => TypeOK
  BY EmptySeq DEF Init, TypeOK
<1>2. QED
  BY <1>1, NextTypeOK, PTL DEF Spec

\* Code actions, dependency graph and diagnostics come from one lint, in
\* whatever order lints end and whatever is closed or relinted meanwhile.
THEOREM OneLintTheorem == Spec => []OneLint
<1>1. Init => OneLint
  BY DEF Init, OneLint
<1>2. QED
  BY <1>1, TypeTheorem, NextOneLint, PTL DEF Spec

\* The inductive invariant: of a document not upset, the lint that ends last is
\* one of the text the editor holds.
THEOREM LastLintTheorem == Spec => []LastLint
<1>1. Init => LastLint
  BY DEF Init, LastLint
<1>2. QED
  BY <1>1, NextLastLint, TypeTheorem, PTL DEF Spec

\* Once its lints have ended, what is shown of a document is what the editor
\* holds, but for the documents upset.
THEOREM SettledTheorem == Spec => []Settled
<1>1. OneLint /\ LastLint => Settled
  BY DEF OneLint, LastLint, Settled
<1>2. QED
  BY <1>1, OneLintTheorem, LastLintTheorem, PTL

\* A change of tokens relints every open document it concerns, but for the
\* documents upset.
THEOREM RelintsAffectedTheorem == Spec => []RelintsAffected
<1>1. Init => RelintsAffected
  BY DEF Init, RelintsAffected
<1>2. QED
  BY <1>1, NextOverdue, TypeTheorem, OneLintTheorem, LastLintTheorem, PTL DEF Spec

============================================================================
