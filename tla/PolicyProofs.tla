---------------------------- MODULE PolicyProofs ----------------------------
(***************************************************************************)
(* Proofs about Policy for any tree of policy files, any configurations,   *)
(* rules and plugins.                                                      *)
(***************************************************************************)
EXTENDS Policy, SequenceTheorems, TLAPS

USE DepthAssumption, BoundsAssumption, RulesAssumption, ConfigAssumption,
    PolicyAssumption, ContextAssumption, NoneAssumption, NoneSetAssumption

----------------------------------------------------------------------------
(* Types.                                                                  *)

\* The policy that every merge starts from is a policy.
LEMMA NoPolicyType == NoPolicy \in Policies
<1>1. [r \in Rules |-> 0] \in [Rules -> 0..2]
  OBVIOUS
<1>2. [mode |-> "entropy", limit |-> 0] \in Ratchets
  BY DEF Ratchets
<1>3. QED
  BY <1>1, <1>2 DEF NoPolicy, Policies

\* Merging policies gives a policy.
LEMMA MergeType ==
  ASSUME NEW p \in Policies, NEW q \in Policies
  PROVE  Merge(p, q) \in Policies
<1>1. /\ p.required \in SUBSET Rules /\ q.required \in SUBSET Rules
      /\ p.coverage \in SUBSET Types /\ q.coverage \in SUBSET Types
      /\ p.agent \in AgentPolicies \cup {None} /\ q.agent \in AgentPolicies \cup {None}
      /\ q.ratchet \in Ratchets
      /\ p.floor \in [Rules -> 0..2] /\ q.floor \in [Rules -> 0..2]
  BY DEF Policies
<1>2. [r \in Rules |-> Larger(p.floor[r], q.floor[r])] \in [Rules -> 0..2]
  BY <1>1 DEF Larger
<1>3. QED
  BY <1>1, <1>2 DEF Merge, Policies

\* While policy files are resolved, there is a current one, which was read.
LEMMA CurrentType ==
  ASSUME TypeOK, phase = "extends"
  PROVE  /\ Len(chain) \in Nat /\ Len(chain) >= 1
         /\ Current \in Files
         /\ todo[Current] \in Seq(Files)
<1>1. chain \in Seq(Files) /\ chain # <<>> /\ todo \in [Files -> Seq(Files)]
  BY DEF TypeOK
<1>2. Len(chain) \in Nat /\ Len(chain) >= 1
  BY <1>1, EmptySeq
<1>3. Current \in Files
  BY <1>1, <1>2, ElementOfSeq DEF Current
<1>4. QED
  BY <1>1, <1>2, <1>3

\* The next entry of the current file's extends is a file.
LEMMA RestType ==
  ASSUME TypeOK, Extend
  PROVE  /\ Head(todo[Current]) \in Files
         /\ [todo EXCEPT ![Current] = Tail(todo[Current])] \in [Files -> Seq(Files)]
<1>1. phase = "extends" /\ todo[Current] # <<>>
  BY DEF Extend
<1>2. Current \in Files /\ todo[Current] \in Seq(Files)
  BY <1>1, CurrentType
<1>3. Head(todo[Current]) \in Files /\ Tail(todo[Current]) \in Seq(Files)
  BY <1>1, <1>2, HeadTailProperties
<1>4. todo \in [Files -> Seq(Files)]
  BY DEF TypeOK
<1>5. QED
  BY <1>2, <1>3, <1>4

\* A file that is opened has the type of a frame.
LEMMA OpenType ==
  ASSUME TypeOK, NEW f \in Files, NEW rest \in [Files -> Seq(Files)], Open(f, rest)
  PROVE  /\ content' \in [Files -> PolicyContents \cup {None}]
         /\ todo' \in [Files -> Seq(Files)]
         /\ merged' \in [Files -> Policies]
         /\ chain' \in Seq(Files) /\ chain' # <<>>
         /\ \A i \in 1..Len(chain') : content'[chain'[i]] # None
         /\ Len(chain) \in Nat /\ Len(chain') = Len(chain) + 1
         /\ \A i \in 1..Len(chain) : chain'[i] = chain[i]
         /\ chain'[Len(chain) + 1] = f
         /\ content'[f] # None
         /\ \A g \in Files : g # f => content'[g] = content[g] /\ merged'[g] = merged[g]
<1>1. PICK c \in PolicyContents : /\ content' = [content EXCEPT ![f] = c]
                                  /\ todo' = [rest EXCEPT ![f] = c.extends]
  BY DEF Open
<1>2. c.extends \in Seq(Files)
  OBVIOUS
<1>3. merged' = [merged EXCEPT ![f] = NoPolicy] /\ chain' = Append(chain, f)
  BY DEF Open
<1>4. /\ content \in [Files -> PolicyContents \cup {None}]
      /\ merged \in [Files -> Policies]
      /\ chain \in Seq(Files)
  BY DEF TypeOK
<1>5. /\ chain' \in Seq(Files) /\ chain' # <<>>
      /\ Len(chain) \in Nat /\ Len(chain') = Len(chain) + 1
      /\ \A i \in 1..Len(chain) : chain'[i] = chain[i]
      /\ chain'[Len(chain) + 1] = f
  <2> DEFINE longer == Append(chain, f)
  <2>1. chain \in Seq(Files) /\ Len(chain) \in Nat
    BY <1>4, LenProperties
  <2>2. longer \in Seq(Files) /\ longer # <<>> /\ Len(longer) = Len(chain) + 1
    BY <2>1, AppendProperties
  <2>3. /\ \A i \in 1..Len(chain) : longer[i] = chain[i]
        /\ longer[Len(chain) + 1] = f
    BY <2>1, AppendProperties
  <2>4. chain' = longer
    BY <1>3
  <2> HIDE DEF longer
  <2>5. QED
    BY <2>1, <2>2, <2>3, <2>4
<1>6. c # None
  OBVIOUS
<1>7. \A i \in 1..Len(chain') : content'[chain'[i]] # None
  <2>1. SUFFICES ASSUME NEW i \in 1..Len(chain')
                 PROVE  content'[chain'[i]] # None
    OBVIOUS
  <2>2. CASE i = Len(chain) + 1
    BY <2>2, <1>1, <1>4, <1>5, <1>6
  <2>3. CASE i # Len(chain) + 1
    <3>1. i \in 1..Len(chain)
      BY <2>1, <2>3, <1>5
    <3>2. chain'[i] = chain[i] /\ content[chain[i]] # None /\ chain[i] \in Files
      BY <3>1, <1>4, <1>5, ElementOfSeq DEF TypeOK
    <3>3. QED
      BY <3>2, <1>1, <1>4, <1>6
  <2>4. QED
    BY <2>2, <2>3
<1>8. QED
  BY <1>1, <1>2, <1>3, <1>4, <1>5, <1>6, <1>7, NoPolicyType

\* What is merged when a resolution ends is a policy; so is what that makes of
\* the policy of the extending file.
LEMMA ReturnType ==
  ASSUME TypeOK, Return
  PROVE  LET whole == Merge(merged[Current], content[Current].policy)
             g == chain[Len(chain) - 1]
         IN /\ whole \in Policies
            /\ Len(chain) # 1 => g \in Files /\ Merge(merged[g], whole) \in Policies
            /\ chain' \in Seq(Files) /\ Len(chain') = Len(chain) - 1
            /\ \A i \in 1..Len(chain) - 1 : chain'[i] = chain[i]
            /\ order' \in Seq(Files)
            /\ Len(chain) \in Nat /\ Len(chain) >= 1 /\ Current \in Files
<1> DEFINE whole == Merge(merged[Current], content[Current].policy)
           g == chain[Len(chain) - 1]
<1>1. phase = "extends"
  BY DEF Return
<1>2. /\ Len(chain) \in Nat /\ Len(chain) >= 1
      /\ Current \in Files
  BY <1>1, CurrentType
<1>3. /\ merged \in [Files -> Policies]
      /\ content \in [Files -> PolicyContents \cup {None}]
      /\ chain \in Seq(Files) /\ order \in Seq(Files)
  BY DEF TypeOK
<1>4. content[Current] # None
  <2>1. Len(chain) \in 1..Len(chain)
    BY <1>2
  <2>2. QED
    BY <2>1 DEF TypeOK, Current
<1>5. whole \in Policies
  <2>1. merged[Current] \in Policies /\ content[Current] \in PolicyContents
    BY <1>4, <1>2, <1>3
  <2>2. content[Current].policy \in Policies
    BY <2>1
  <2>3. QED
    BY <2>1, <2>2, MergeType
<1>6. ASSUME Len(chain) # 1
      PROVE  g \in Files /\ Merge(merged[g], whole) \in Policies
  <2> HIDE DEF whole, g
  <2>0. \A n \in Nat : n >= 1 /\ n # 1 => n - 1 \in 1..n
    OBVIOUS
  <2>1. Len(chain) - 1 \in 1..Len(chain)
    BY <1>2, <1>6, <2>0
  <2>2. g \in Files
    BY <2>1, <1>3, ElementOfSeq DEF g
  <2>3. merged[g] \in Policies
    BY <2>2, <1>3
  <2>4. QED
    BY <2>2, <2>3, <1>5, MergeType
<1>7. /\ chain' = SubSeq(chain, 1, Len(chain) - 1)
      /\ order' = Append(order, Current)
  BY DEF Return
<1>8. /\ chain' \in Seq(Files) /\ Len(chain') = Len(chain) - 1
      /\ \A i \in 1..Len(chain) - 1 : chain'[i] = chain[i]
  <2>1. \A i \in 1..Len(chain) - 1 : chain[i] \in Files
    BY <1>2, <1>3, ElementOfSeq
  <2>2. Len(chain) - 1 \in Int /\ 1 \in Int
    BY <1>2
  <2>3. /\ SubSeq(chain, 1, Len(chain) - 1) \in Seq(Files)
        /\ Len(SubSeq(chain, 1, Len(chain) - 1))
             = IF 1 <= Len(chain) - 1 THEN (Len(chain) - 1) - 1 + 1 ELSE 0
        /\ \A i \in 1..(Len(chain) - 1) - 1 + 1 :
             SubSeq(chain, 1, Len(chain) - 1)[i] = chain[1 + i - 1]
    BY <2>1, <2>2, SubSeqProperties
  <2>4. \A i \in 1..Len(chain) - 1 : 1 + i - 1 = i
    OBVIOUS
  <2>5. (Len(chain) - 1) - 1 + 1 = Len(chain) - 1
    BY <1>2
  <2>6. QED
    BY <2>3, <2>4, <2>5, <1>2, <1>7
<1>9. order' \in Seq(Files)
  BY <1>2, <1>3, <1>7, AppendProperties
<1>10. QED
  BY <1>2, <1>5, <1>6, <1>8, <1>9

\* What a rule is linted with, if it is on, is a severity.
LEMMA EnabledType ==
  ASSUME NEW rs \in RuleSettings
  PROVE  /\ DOMAIN rs \in SUBSET Rules
         /\ DOMAIN EnabledRules(rs) = {r \in DOMAIN rs : NormalizeSeverity(rs[r]) # 0}
         /\ \A r \in DOMAIN EnabledRules(rs) : EnabledRules(rs)[r] = NormalizeSeverity(rs[r])
         /\ \A r \in DOMAIN rs : NormalizeSeverity(rs[r]) \in 0..2
         /\ EnabledRules(rs) \in [DOMAIN EnabledRules(rs) -> 1..2]
<1>1. PICK R \in SUBSET Rules : rs \in [R -> Settings]
  BY DEF RuleSettings
<1>2. \A r \in R : NormalizeSeverity(rs[r]) \in 0..2
  BY <1>1 DEF NormalizeSeverity, Settings
<1>3. QED
  BY <1>1, <1>2 DEF EnabledRules

\* None is no set of rules.
LEMMA NoneSets == None \notin SUBSET Rules
OBVIOUS

\* The values that a start begins with have their types.
LEMMA EmptyTypes == Empty \in RuleSettings /\ NoResults \in Outcome
<1>1. Empty \in [{} -> Settings]
  BY DEF Empty
<1>2. <<>> \in Seq(Rules)
  BY EmptySeq
<1>3. QED
  BY <1>1, <1>2 DEF RuleSettings, NoResults, Outcome

\* The types of what a linter brings.
BeginningType ==
    /\ DOMAIN source \in SUBSET Rules
    /\ source \in [DOMAIN source -> Plugins \cup {"built-in"}]
    /\ offered \in [Plugins -> (SUBSET Rules) \cup {None}]
    /\ DOMAIN enabled \in SUBSET Rules
    /\ enabled \in [DOMAIN enabled -> 1..2]

\* A linter without plugins or enabled rules has them.
LEMMA BeginningTypes ==
  ASSUME NEW src, NEW off, NEW en,
         src = [r \in Builtin |-> "built-in"], off = [p \in Plugins |-> None], en = NoRules
  PROVE  /\ DOMAIN src \in SUBSET Rules
         /\ src \in [DOMAIN src -> Plugins \cup {"built-in"}]
         /\ off \in [Plugins -> (SUBSET Rules) \cup {None}]
         /\ DOMAIN en \in SUBSET Rules
         /\ en \in [DOMAIN en -> 1..2]
<1>1. DOMAIN src = Builtin /\ src \in [Builtin -> Plugins \cup {"built-in"}]
  OBVIOUS
<1>2. DOMAIN en = {}
  BY DEF NoRules
<1>3. en \in [{} -> 1..2]
  BY DEF NoRules
<1>4. off \in [Plugins -> (SUBSET Rules) \cup {None}]
  OBVIOUS
<1>5. QED
  BY <1>1, <1>2, <1>3, <1>4

\* What a lint finds is an outcome.
LEMMA OutcomeType ==
  ASSUME TypeOK, NEW o \in Outcomes
  PROVE  o \in Outcome
<1>1. PICK k \in 0..MaxMessages : o.messages \in [1..k -> DOMAIN enabled]
  BY DEF Outcomes
<1>2. o.files \in Nat /\ o = [messages |-> o.messages, files |-> o.files]
  BY DEF Outcomes
<1>3. DOMAIN enabled \subseteq Rules
  BY DEF TypeOK
<1>4. o.messages \in [1..k -> Rules] /\ k \in Nat
  BY <1>1, <1>3
<1>5. o.messages \in Seq(Rules)
  BY <1>4
<1>6. QED
  BY <1>2, <1>5 DEF Outcome

----------------------------------------------------------------------------

\* Every action keeps the types.
LEMMA TypeStep == TypeOK /\ [Next]_vars => TypeOK'
<1> SUFFICES ASSUME TypeOK, [Next]_vars
             PROVE  TypeOK'
  OBVIOUS
<1> USE DEF searching, registry, resolving
<1>1. ASSUME Look PROVE TypeOK'
  <2>1. dir' \in 1..Depth + 1
    BY <1>1 DEF Look, TypeOK
  <2>2. found' \in Seq(ConfigContents)
    <3>1. found \in Seq(ConfigContents)
      BY DEF TypeOK
    <3>2. \A c \in ConfigContents : <<c>> \o found \in Seq(ConfigContents)
      <4>1. SUFFICES ASSUME NEW c \in ConfigContents
                     PROVE  <<c>> \o found \in Seq(ConfigContents)
        OBVIOUS
      <4>2. <<c>> \in Seq(ConfigContents)
        OBVIOUS
      <4>3. QED
        BY <3>1, <4>2, ConcatProperties
    <3>3. QED
      BY <1>1, <3>1, <3>2 DEF Look
  <2>3. QED
    BY <1>1, <2>1, <2>2 DEF Look, TypeOK
<1>2. ASSUME MergeConfig PROVE TypeOK'
  <2>1. found \in Seq(ConfigContents) /\ found # <<>>
    BY <1>2 DEF MergeConfig, TypeOK
  <2>2. Head(found) \in ConfigContents /\ Tail(found) \in Seq(ConfigContents)
    BY <2>1, HeadTailProperties
  <2>3. Head(found).rules \in RuleSettings \cup {None} /\ Head(found).plugins \in Seq(Plugins)
    BY <2>2
  <2>4. plugins' \in Seq(Plugins)
    <3>1. plugins \in Seq(Plugins) /\ plugins' = plugins \o Head(found).plugins
      BY <1>2 DEF MergeConfig, TypeOK
    <3>2. QED
      BY <2>3, <3>1, ConcatProperties
  <2>5. rules' \in RuleSettings
    BY <1>2, <2>3 DEF MergeConfig, TypeOK
  <2>6. QED
    BY <1>2, <2>2, <2>4, <2>5 DEF MergeConfig, TypeOK
<1>3. ASSUME ConfigLoaded PROVE TypeOK'
  <2>1. phase' \in {"policy", "plugins"}
    BY <1>3 DEF ConfigLoaded
  <2>2. QED
    BY <1>3, <2>1 DEF ConfigLoaded, TypeOK, Phases
<1>4. ASSUME SearchFails PROVE TypeOK'
  BY <1>4 DEF SearchFails, TypeOK, Phases
<1>5. ASSUME NoPolicyFile PROVE TypeOK'
  <2>1. phase' \in {"plugins", "valid"}
    BY <1>5 DEF NoPolicyFile, AfterPolicy
  <2>2. QED
    BY <1>5, <2>1 DEF NoPolicyFile, TypeOK, Phases
<1>6. ASSUME FindPolicy PROVE TypeOK'
  <2>1. PICK f \in Files : Open(f, todo)
    BY <1>6 DEF FindPolicy
  <2>2. todo \in [Files -> Seq(Files)]
    BY DEF TypeOK
  <2>3. QED
    BY <1>6, <2>1, <2>2, OpenType DEF FindPolicy, TypeOK, Phases
<1>7. ASSUME Extend PROVE TypeOK'
  <2> DEFINE rest == [todo EXCEPT ![Current] = Tail(todo[Current])]
  <2>1. Head(todo[Current]) \in Files /\ rest \in [Files -> Seq(Files)]
    BY <1>7, RestType
  <2>2. Open(Head(todo[Current]), rest)
    BY <1>7 DEF Extend
  <2> HIDE DEF rest
  <2>3. QED
    BY <1>7, <2>1, <2>2, OpenType DEF Extend, TypeOK, Phases
<1>8. ASSUME PolicyFails PROVE TypeOK'
  BY <1>8 DEF PolicyFails, TypeOK, Phases
<1>9. ASSUME Return PROVE TypeOK'
  <2> DEFINE whole == Merge(merged[Current], content[Current].policy)
             g == chain[Len(chain) - 1]
  <2>1. /\ whole \in Policies
        /\ Len(chain) # 1 => g \in Files /\ Merge(merged[g], whole) \in Policies
        /\ chain' \in Seq(Files) /\ Len(chain') = Len(chain) - 1
        /\ \A i \in 1..Len(chain) - 1 : chain'[i] = chain[i]
        /\ order' \in Seq(Files)
        /\ Len(chain) \in Nat /\ Len(chain) >= 1 /\ Current \in Files
    BY <1>9, ReturnType
  <2>2. UNCHANGED <<command, context, reloads, dir, found, rules, plugins, source, offered,
                    enabled, results, content, todo>>
    BY <1>9 DEF Return
  <2>3. \A i \in 1..Len(chain') : content'[chain'[i]] # None
    <3>1. SUFFICES ASSUME NEW i \in 1..Len(chain')
                   PROVE  content'[chain'[i]] # None
      OBVIOUS
    <3>2. i \in 1..Len(chain) - 1 /\ i \in 1..Len(chain)
      BY <2>1
    <3>3. chain'[i] = chain[i] /\ content' = content
      BY <2>1, <2>2, <3>2
    <3>4. content[chain[i]] # None
      BY <3>2 DEF TypeOK
    <3>5. QED
      BY <3>3, <3>4
  <2>4. CASE Len(chain) = 1
    <3>1. policy' = whole /\ phase' = "enforce" /\ merged' = merged
      BY <1>9, <2>4 DEF Return
    <3> HIDE DEF whole, g
    <3>2. whole # None
      BY <2>1
    <3>3. QED
      BY <2>1, <2>2, <2>3, <3>1, <3>2 DEF TypeOK, Phases
  <2>5. CASE Len(chain) # 1
    <3>1. /\ merged' = [merged EXCEPT ![g] = Merge(merged[g], whole)]
          /\ phase' = phase /\ policy' = policy
      BY <1>9, <2>5 DEF Return
    <3> HIDE DEF whole, g
    <3>2. merged' \in [Files -> Policies]
      BY <2>1, <2>5, <3>1 DEF TypeOK
    <3>4. chain' # <<>>
      BY <2>1, <2>5, EmptySeq
    <3>5. phase' \in Phases /\ phase' # "enforce"
      BY <3>1, <1>9 DEF Return, Phases
    <3>6. policy' \in Policies \cup {None}
      BY <3>1 DEF TypeOK
    <3>7. QED
      BY <2>1, <2>2, <2>3, <3>2, <3>4, <3>5, <3>6 DEF TypeOK
  <2>6. QED
    BY <2>4, <2>5
<1>10. ASSUME Enforce PROVE TypeOK'
  <2>1. phase' \in {"plugins", "valid", "failed"}
    BY <1>10 DEF Enforce, AfterPolicy
  <2>2. QED
    BY <1>10, <2>1 DEF Enforce, TypeOK, Phases
<1>11. ASSUME LoadPlugin PROVE TypeOK'
  <2>1. plugins \in Seq(Plugins) /\ plugins # <<>> /\ plugins' = Tail(plugins)
    BY <1>11 DEF LoadPlugin, TypeOK
  <2>2. Head(plugins) \in Plugins /\ plugins' \in Seq(Plugins)
    BY <2>1, HeadTailProperties
  <2>3. PICK rs \in SUBSET Rules :
             /\ source' = [r \in DOMAIN source \cup rs |->
                             IF r \in rs THEN Head(plugins) ELSE source[r]]
             /\ offered' = [offered EXCEPT ![Head(plugins)] = rs]
    BY <1>11 DEF LoadPlugin
  <2>4. offered' \in [Plugins -> (SUBSET Rules) \cup {None}]
    BY <2>2, <2>3 DEF TypeOK
  <2>5. /\ DOMAIN source' = DOMAIN source \cup rs
        /\ source' \in [DOMAIN source \cup rs -> Plugins \cup {"built-in"}]
    BY <2>2, <2>3 DEF TypeOK
  <2>6. DOMAIN source' \in SUBSET Rules
    BY <2>5 DEF TypeOK
  <2>7. QED
    BY <1>11, <2>2, <2>4, <2>5, <2>6 DEF LoadPlugin, TypeOK
<1>12. ASSUME PluginFails PROVE TypeOK'
  BY <1>12 DEF PluginFails, TypeOK, Phases
<1>13. ASSUME EnableRules PROVE TypeOK'
  <2>1. rules \in RuleSettings
    BY DEF TypeOK
  <2>2. /\ DOMAIN EnabledRules(rules) \in SUBSET Rules
        /\ EnabledRules(rules) \in [DOMAIN EnabledRules(rules) -> 1..2]
    BY <2>1, EnabledType
  <2>3. enabled' \in {EnabledRules(rules), enabled}
    BY <1>13 DEF EnableRules
  <2>4. phase' \in {"lint", "policy", "failed"}
    BY <1>13 DEF EnableRules
  <2>5. DOMAIN enabled' \in SUBSET Rules /\ enabled' \in [DOMAIN enabled' -> 1..2]
    BY <2>2, <2>3 DEF TypeOK
  <2>6. QED
    BY <1>13, <2>4, <2>5 DEF EnableRules, TypeOK, Phases
<1>14. ASSUME Lint PROVE TypeOK'
  <2>1. results' \in Outcome
    BY <1>14, OutcomeType DEF Lint
  <2>2. QED
    BY <1>14, <2>1 DEF Lint, TypeOK, Phases
<1>15. ASSUME EnforceRuntime PROVE TypeOK'
  <2>1. phase' \in {"passed", "failed"}
    BY <1>15 DEF EnforceRuntime
  <2>2. QED
    BY <1>15, <2>1 DEF EnforceRuntime, TypeOK, Phases
<1>16. ASSUME Reload PROVE TypeOK'
  <2>1. reloads' \in 0..MaxReloads
    BY <1>16 DEF Reload, TypeOK
  <2>2. Empty \in RuleSettings /\ NoResults \in Outcome
    BY EmptyTypes
  <2>3. BeginningType'
    BY <1>16, BeginningTypes DEF Reload, BeginningType
  <2>4. QED
    BY <1>16, <2>1, <2>2, <2>3 DEF Reload, TypeOK, Phases, BeginningType
<1>17. CASE UNCHANGED vars
  BY <1>17 DEF vars, TypeOK
<1>18. QED
  BY <1>1, <1>2, <1>3, <1>4, <1>5, <1>6, <1>7, <1>8, <1>9, <1>10, <1>11, <1>12, <1>13,
     <1>14, <1>15, <1>16, <1>17 DEF Next, Step

\* So do the initial states.
LEMMA TypeInit == Init => TypeOK
<1>1. Empty \in RuleSettings /\ NoResults \in Outcome
  BY EmptyTypes
<1>2. SUFFICES ASSUME Init PROVE TypeOK
  OBVIOUS
<1>3. BeginningType
  BY <1>2, BeginningTypes DEF Init, BeginningType
<1>4. chain = <<>> /\ Len(chain) = 0
  BY <1>2 DEF Init
<1>5. \A i \in 1..Len(chain) : content[chain[i]] # None
  BY <1>4
<1>6. QED
  BY <1>1, <1>2, <1>3, <1>5, NoPolicyType DEF Init, TypeOK, Phases, BeginningType

\* The variables of a start, of a validation and of watch mode keep their types.
THEOREM TypeTheorem == Spec => []TypeOK
BY TypeInit, TypeStep, PTL DEF Spec

----------------------------------------------------------------------------
(* Merging loses nothing.                                                  *)

LEMMA BelowRefl == ASSUME NEW p \in Policies PROVE Below(p, p)
BY DEF Below, Policies

\* A policy that is above another is above what that one is above.
LEMMA BelowTrans ==
  ASSUME NEW p \in Policies, NEW q \in Policies, NEW w \in Policies, Below(p, q), Below(q, w)
  PROVE  Below(p, w)
<1>1. \A r \in Rules : p.floor[r] \in 0..2 /\ q.floor[r] \in 0..2 /\ w.floor[r] \in 0..2
  BY DEF Policies
<1>2. \A r \in Rules : p.floor[r] <= w.floor[r]
  BY <1>1 DEF Below
<1>3. QED
  BY <1>2 DEF Below

\* Both policies are part of what they are merged into.
LEMMA MergeBelow ==
  ASSUME NEW p \in Policies, NEW q \in Policies
  PROVE  Below(p, Merge(p, q)) /\ Below(q, Merge(p, q))
<1>1. \A r \in Rules : p.floor[r] \in 0..2 /\ q.floor[r] \in 0..2
  BY DEF Policies
<1>2. \A r \in Rules : Merge(p, q).floor[r] = Larger(p.floor[r], q.floor[r])
  BY DEF Merge
<1>3. \A r \in Rules : /\ p.floor[r] <= Merge(p, q).floor[r]
                        /\ q.floor[r] <= Merge(p, q).floor[r]
  BY <1>1, <1>2 DEF Larger
<1>4. /\ p.required \subseteq Merge(p, q).required /\ q.required \subseteq Merge(p, q).required
      /\ p.coverage \subseteq Merge(p, q).coverage /\ q.coverage \subseteq Merge(p, q).coverage
  BY DEF Merge
<1>5. QED
  BY <1>3, <1>4 DEF Below

\* A visited file's own policy is a policy, and so are the merged ones.
LEMMA ContentType ==
  ASSUME TypeOK, NEW f \in Visited
  PROVE  f \in Files /\ content[f].policy \in Policies
<1>1. f \in Files /\ content[f] \in PolicyContents
  BY DEF TypeOK, Visited
<1>2. QED
  BY <1>1

\* Opening a file keeps what the others ask for where it is.
LEMMA OpenKeeps ==
  ASSUME TypeOK, AllKept, NEW f \in Files, NEW rest \in [Files -> Seq(Files)], Open(f, rest),
         policy' = policy
  PROVE  AllKept'
<1>1. /\ Len(chain) \in Nat /\ Len(chain') = Len(chain) + 1
      /\ \A i \in 1..Len(chain) : chain'[i] = chain[i]
      /\ chain'[Len(chain) + 1] = f
      /\ \A g \in Files : g # f => content'[g] = content[g] /\ merged'[g] = merged[g]
  BY OpenType
<1>2. content[f] = None
  BY DEF Open
<1>3. \A i \in 1..Len(chain) : i \in 1..Len(chain') /\ chain[i] \in Files /\ chain[i] # f
  <2>1. \A i \in 1..Len(chain) : i \in 1..Len(chain')
    BY <1>1
  <2>2. \A i \in 1..Len(chain) : content[chain[i]] # None
    BY DEF TypeOK
  <2>3. \A i \in 1..Len(chain) : chain[i] \in Files
    BY ElementOfSeq DEF TypeOK
  <2>4. QED
    BY <1>2, <2>1, <2>2, <2>3
<1>4. SUFFICES ASSUME NEW g \in Visited' PROVE Kept(g)'
  BY DEF AllKept
<1>5. CASE g = f
  <2>1. Len(chain) + 1 \in 1..Len(chain')
    BY <1>1
  <2>2. QED
    BY <1>1, <1>5, <2>1 DEF Kept
<1>6. CASE g # f
  <2>1. g \in Files /\ content'[g] = content[g] /\ content'[g] # None
    BY <1>1, <1>4, <1>6 DEF Visited
  <2>2. Kept(g)
    BY <2>1 DEF AllKept, Visited
  <2>3. CASE \E i \in 1..Len(chain) : chain[i] = g
    BY <1>1, <1>3, <2>3 DEF Kept
  <2>4. CASE \E i \in 1..Len(chain) : Below(content[g].policy, merged[chain[i]])
    <3>1. PICK i \in 1..Len(chain) : Below(content[g].policy, merged[chain[i]])
      BY <2>4
    <3>2. chain'[i] = chain[i] /\ merged'[chain[i]] = merged[chain[i]] /\ i \in 1..Len(chain')
      BY <1>1, <1>3
    <3>3. Below(content'[g].policy, merged'[chain'[i]])
      BY <2>1, <3>1, <3>2
    <3>4. QED
      BY <3>2, <3>3 DEF Kept
  <2>5. CASE policy # None /\ Below(content[g].policy, policy)
    BY <2>1, <2>5 DEF Kept
  <2>6. QED
    BY <2>2, <2>3, <2>4, <2>5 DEF Kept
<1>7. QED
  BY <1>5, <1>6

\* When a file's resolution ends, what is kept in its frame goes over to the
\* file that extends it, or to the policy.
LEMMA ReturnKeeps ==
  ASSUME TypeOK, AllKept, policy = None, Return
  PROVE  AllKept'
<1> DEFINE n == Len(chain)
           whole == Merge(merged[Current], content[Current].policy)
           g == chain[n - 1]
<1>1. /\ whole \in Policies
      /\ n # 1 => g \in Files /\ Merge(merged[g], whole) \in Policies
      /\ chain' \in Seq(Files) /\ Len(chain') = n - 1
      /\ \A i \in 1..n - 1 : chain'[i] = chain[i]
      /\ n \in Nat /\ n >= 1 /\ Current \in Files
  BY ReturnType
<1>2. content' = content /\ Visited' = Visited
  BY DEF Return, Visited
<1>3. /\ \A i \in 1..n : chain[i] \in Files /\ content[chain[i]] # None
      /\ merged \in [Files -> Policies]
  BY ElementOfSeq DEF TypeOK
<1>4. n \in 1..n /\ Current = chain[n]
  BY <1>1 DEF Current
<1>5. /\ merged[Current] \in Policies /\ content[Current].policy \in Policies
      /\ Below(merged[Current], whole) /\ Below(content[Current].policy, whole)
  <2>1. Current \in Visited
    BY <1>3, <1>4 DEF Visited
  <2>2. merged[Current] \in Policies /\ content[Current].policy \in Policies
    BY <2>1, <1>1, <1>3, ContentType
  <2>3. QED
    BY <2>2, MergeBelow
<1>6. SUFFICES ASSUME NEW f \in Visited PROVE Kept(f)'
  BY <1>2 DEF AllKept
<1>7. f \in Files /\ content[f].policy \in Policies
  BY ContentType
<1>8. \/ \E i \in 1..n - 1 : chain[i] = f
      \/ \E i \in 1..n - 1 : Below(content[f].policy, merged[chain[i]])
      \/ Below(content[f].policy, whole)
  <2>1. Kept(f)
    BY DEF AllKept
  <2>2. CASE \E i \in 1..n : chain[i] = f
    <3>1. PICK i \in 1..n : chain[i] = f
      BY <2>2
    <3>2. CASE i = n
      BY <1>4, <1>5, <3>1, <3>2
    <3>3. CASE i # n
      <4>1. i \in 1..n - 1
        BY <1>1, <3>3
      <4>2. QED
        BY <3>1, <4>1
    <3>4. QED
      BY <3>2, <3>3
  <2>3. CASE \E i \in 1..n : Below(content[f].policy, merged[chain[i]])
    <3>1. PICK i \in 1..n : Below(content[f].policy, merged[chain[i]])
      BY <2>3
    <3>2. CASE i = n
      <4>1. Below(content[f].policy, merged[Current])
        BY <1>4, <3>1, <3>2
      <4> HIDE DEF whole
      <4>2. QED
        BY <1>1, <1>5, <1>7, <4>1, BelowTrans
    <3>3. CASE i # n
      <4>1. i \in 1..n - 1
        BY <1>1, <3>3
      <4>2. QED
        BY <3>1, <4>1
    <3>4. QED
      BY <3>2, <3>3
  <2>4. QED
    BY <2>1, <2>2, <2>3 DEF Kept
<1>9. CASE n = 1
  <2>1. policy' = whole
    BY <1>9 DEF Return
  <2> HIDE DEF whole
  <2>2. ~ \E i \in 1..n - 1 : TRUE
    BY <1>9
  <2>3. Below(content'[f].policy, policy') /\ policy' # None
    BY <1>1, <1>2, <1>8, <2>1, <2>2
  <2>4. QED
    BY <2>3 DEF Kept
<1>10. CASE n # 1
  <2>1. merged' = [merged EXCEPT ![g] = Merge(merged[g], whole)]
    BY <1>10 DEF Return
  <2>2. /\ n - 1 \in 1..n - 1 /\ chain'[n - 1] = g
        /\ g \in Files /\ merged[g] \in Policies
    <3>1. \A m \in Nat : m >= 1 /\ m # 1 => m - 1 \in 1..m - 1
      OBVIOUS
    <3> HIDE DEF whole
    <3>2. n - 1 \in 1..n - 1
      BY <1>1, <1>10, <3>1
    <3>3. QED
      BY <1>1, <1>3, <1>10, <3>2
  <2> HIDE DEF whole, g
  <2>3. /\ Below(merged[g], merged'[g]) /\ Below(whole, merged'[g])
        /\ merged'[g] \in Policies
    BY <1>1, <1>3, <1>10, <2>1, <2>2, MergeBelow
  <2>4. CASE \E i \in 1..n - 1 : chain[i] = f
    BY <1>1, <2>4 DEF Kept
  <2>5. CASE \E i \in 1..n - 1 : Below(content[f].policy, merged[chain[i]])
    <3>1. PICK i \in 1..n - 1 : Below(content[f].policy, merged[chain[i]])
      BY <2>5
    <3>2. i \in 1..n /\ chain[i] \in Files /\ chain'[i] = chain[i]
      BY <1>1, <1>3
    <3>3. Below(content[f].policy, merged'[chain[i]])
      <4>1. CASE chain[i] = g
        BY <1>7, <2>2, <2>3, <3>1, <4>1, BelowTrans
      <4>2. CASE chain[i] # g
        BY <1>3, <2>1, <3>1, <3>2, <4>2
      <4>3. QED
        BY <4>1, <4>2
    <3>4. Below(content'[f].policy, merged'[chain'[i]])
      BY <1>2, <3>2, <3>3
    <3>5. QED
      BY <1>1, <3>4 DEF Kept
  <2>6. CASE Below(content[f].policy, whole)
    <3>1. Below(content[f].policy, merged'[g])
      BY <1>1, <1>7, <2>3, <2>6, BelowTrans
    <3>2. Below(content'[f].policy, merged'[chain'[n - 1]])
      BY <1>2, <2>2, <3>1
    <3>3. QED
      BY <1>1, <2>2, <3>2 DEF Kept
  <2>7. QED
    BY <1>8, <2>4, <2>5, <2>6
<1>11. QED
  BY <1>9, <1>10

----------------------------------------------------------------------------
(* The invariant.                                                          *)

\* A step that leaves the policy files alone leaves all about them as it is.
LEMMA Same ==
  ASSUME UNCHANGED resolving
  PROVE  /\ AllKept' = AllKept
         /\ Settled' = Settled
         /\ NothingRead' = NothingRead
         /\ policy' = policy
         /\ Visited' = Visited
BY DEF resolving, AllKept, Kept, Settled, NothingRead, Visited

\* Every action keeps the invariant.
LEMMA PolicyStep == TypeOK /\ PolicyInv /\ [Next]_vars => PolicyInv'
<1> SUFFICES ASSUME TypeOK, AllKept, PhaseInv, [Next]_vars
             PROVE  AllKept' /\ PhaseInv'
  BY DEF PolicyInv
<1> USE DEF searching, registry
<1>1. ASSUME Look PROVE AllKept' /\ PhaseInv'
  <2>1. UNCHANGED resolving
    BY <1>1 DEF Look
  <2>2. QED
    BY <1>1, <2>1, Same DEF Look, PhaseInv, Ready
<1>2. ASSUME MergeConfig PROVE AllKept' /\ PhaseInv'
  <2>1. UNCHANGED resolving
    BY <1>2 DEF MergeConfig
  <2>2. QED
    BY <1>2, <2>1, Same DEF MergeConfig, PhaseInv, Ready
<1>3. ASSUME ConfigLoaded PROVE AllKept' /\ PhaseInv'
  <2>1. UNCHANGED resolving
    BY <1>3 DEF ConfigLoaded
  <2>2. NothingRead => Settled
    BY DEF NothingRead, Settled
  <2>3. NothingRead => policy = None
    BY DEF NothingRead
  <2>4. command \in {"lint", "validate"}
    BY DEF TypeOK
  <2>5. CASE command = "lint" /\ reloads = 0
    BY <1>3, <2>1, <2>2, <2>3, <2>5, Same DEF ConfigLoaded, PhaseInv, Ready
  <2>6. CASE ~ (command = "lint" /\ reloads = 0)
    <3>1. phase = "search" /\ phase' = "plugins" /\ UNCHANGED <<command, reloads, rules>>
      BY <1>3, <2>6 DEF ConfigLoaded
    <3>2. reloads \in Nat
      BY DEF TypeOK
    <3>3. command = "lint" => reloads > 0
      BY <2>6, <3>2
    <3>4. command = "validate" => reloads = 0 /\ NothingRead
      BY <3>1 DEF PhaseInv
    <3>5. Settled /\ (reloads = 0 => policy = None)
      BY <2>2, <2>3, <2>4, <3>3, <3>4 DEF PhaseInv
    <3>6. QED
      BY <2>1, <2>4, <3>1, <3>4, <3>5, Same DEF PhaseInv, Ready
  <2>7. QED
    BY <2>5, <2>6
<1>4. ASSUME SearchFails PROVE AllKept' /\ PhaseInv'
  <2>1. UNCHANGED resolving
    BY <1>4 DEF SearchFails
  <2>2. QED
    BY <1>4, <2>1, Same DEF SearchFails, PhaseInv, Ready
<1>5. ASSUME NoPolicyFile PROVE AllKept' /\ PhaseInv'
  <2>1. UNCHANGED resolving
    BY <1>5 DEF NoPolicyFile
  <2>2. Settled /\ policy = None
    BY <1>5 DEF NoPolicyFile, PhaseInv, NothingRead, Settled
  <2>3. CASE command = "lint"
    BY <1>5, <2>1, <2>2, <2>3, Same DEF NoPolicyFile, AfterPolicy, PhaseInv, Ready
  <2>4. CASE command = "validate"
    BY <1>5, <2>1, <2>2, <2>4, Same DEF NoPolicyFile, AfterPolicy, PhaseInv, Ready
  <2>5. QED
    BY <2>3, <2>4 DEF TypeOK
<1>6. ASSUME FindPolicy PROVE AllKept' /\ PhaseInv'
  <2>1. PICK f \in Files : Open(f, todo)
    BY <1>6 DEF FindPolicy
  <2>2. todo \in [Files -> Seq(Files)]
    BY DEF TypeOK
  <2>3. AllKept'
    BY <1>6, <2>1, <2>2, OpenKeeps DEF FindPolicy
  <2>4. policy = None /\ reloads = 0
    BY <1>6 DEF FindPolicy, PhaseInv, NothingRead
  <2>5. PhaseInv'
    BY <1>6, <2>4 DEF FindPolicy, PhaseInv, Ready
  <2>6. QED
    BY <2>3, <2>5
<1>7. ASSUME Extend PROVE AllKept' /\ PhaseInv'
  <2> DEFINE rest == [todo EXCEPT ![Current] = Tail(todo[Current])]
  <2>1. Head(todo[Current]) \in Files /\ rest \in [Files -> Seq(Files)]
    BY <1>7, RestType
  <2>2. Open(Head(todo[Current]), rest)
    BY <1>7 DEF Extend
  <2> HIDE DEF rest
  <2>3. AllKept'
    BY <1>7, <2>1, <2>2, OpenKeeps DEF Extend
  <2>4. PhaseInv'
    BY <1>7 DEF Extend, PhaseInv, Ready
  <2>5. QED
    BY <2>3, <2>4
<1>8. ASSUME PolicyFails PROVE AllKept' /\ PhaseInv'
  <2>1. UNCHANGED resolving
    BY <1>8 DEF PolicyFails
  <2>2. QED
    BY <1>8, <2>1, Same DEF PolicyFails, PhaseInv, Ready
<1>9. ASSUME Return PROVE AllKept' /\ PhaseInv'
  <2>1. phase = "extends" /\ policy = None /\ reloads = 0
    BY <1>9 DEF Return, PhaseInv
  <2>2. AllKept'
    BY <1>9, <2>1, ReturnKeeps
  <2>3. UNCHANGED <<command, reloads, rules, enabled, results>>
    BY <1>9 DEF Return
  <2>4. PhaseInv'
    <3>1. CASE Len(chain) = 1
      <4> DEFINE whole == Merge(merged[Current], content[Current].policy)
      <4>1. whole \in Policies /\ chain' \in Seq(Files) /\ Len(chain') = Len(chain) - 1
        BY <1>9, ReturnType
      <4>2. policy' = whole /\ phase' = "enforce"
        BY <1>9, <3>1 DEF Return
      <4> HIDE DEF whole
      <4>3. policy' # None
        BY <4>1, <4>2
      <4>4. chain' = <<>>
        BY <3>1, <4>1, EmptySeq
      <4>5. Settled'
        BY <4>3, <4>4 DEF Settled
      <4>6. QED
        BY <2>1, <2>3, <4>2, <4>3, <4>5 DEF PhaseInv, Ready
    <3>2. CASE Len(chain) # 1
      <4>1. phase' = phase /\ policy' = policy
        BY <1>9, <3>2 DEF Return
      <4>2. QED
        BY <2>1, <2>3, <4>1 DEF PhaseInv, Ready
    <3>3. QED
      BY <3>1, <3>2
  <2>5. QED
    BY <2>2, <2>4
<1>10. ASSUME Enforce PROVE AllKept' /\ PhaseInv'
  <2>1. UNCHANGED resolving /\ UNCHANGED <<command, reloads, rules, enabled, results>>
    BY <1>10 DEF Enforce
  <2>2. phase = "enforce" /\ Settled /\ policy # None /\ reloads = 0
    BY <1>10 DEF Enforce, PhaseInv
  <2>3. Accepts(policy', rules') = Accepts(policy, rules)
    BY <2>1, Same
  <2>4. CASE Accepts(policy, rules) /\ command = "lint"
    BY <1>10, <2>1, <2>2, <2>3, <2>4, Same DEF Enforce, AfterPolicy, PhaseInv, Ready
  <2>5. CASE Accepts(policy, rules) /\ command = "validate"
    BY <1>10, <2>1, <2>2, <2>3, <2>5, Same DEF Enforce, AfterPolicy, PhaseInv, Ready
  <2>6. CASE ~ Accepts(policy, rules)
    BY <1>10, <2>1, <2>2, <2>6, Same DEF Enforce, PhaseInv, Ready
  <2>7. QED
    BY <2>4, <2>5, <2>6 DEF TypeOK
<1>11. ASSUME LoadPlugin PROVE AllKept' /\ PhaseInv'
  <2>1. UNCHANGED resolving /\ UNCHANGED <<command, phase, reloads, rules, enabled, results>>
    BY <1>11 DEF LoadPlugin
  <2>2. phase = "plugins"
    BY <1>11 DEF LoadPlugin
  <2>3. QED
    BY <2>1, <2>2, Same DEF PhaseInv, Ready
<1>12. ASSUME PluginFails PROVE AllKept' /\ PhaseInv'
  <2>1. UNCHANGED resolving
    BY <1>12 DEF PluginFails
  <2>2. QED
    BY <1>12, <2>1, Same DEF PluginFails, PhaseInv, Ready
<1>13. ASSUME EnableRules PROVE AllKept' /\ PhaseInv'
  <2>1. UNCHANGED resolving /\ UNCHANGED <<command, reloads, rules, results>> /\ phase = "plugins"
    BY <1>13 DEF EnableRules
  <2>2. CASE DOMAIN rules \subseteq DOMAIN source
    <3>1. enabled' = EnabledRules(rules)
      BY <1>13, <2>2 DEF EnableRules
    <3>2. phase' = IF command = "lint" THEN "lint" ELSE "policy"
      BY <1>13, <2>2 DEF EnableRules
    <3>3. enabled' = EnabledRules(rules')
      BY <2>1, <3>1
    <3>4. CASE command = "lint"
      BY <2>1, <3>2, <3>3, <3>4, Same DEF PhaseInv, Ready
    <3>5. CASE command = "validate"
      BY <2>1, <3>2, <3>3, <3>5, Same DEF PhaseInv, Ready
    <3>6. QED
      BY <3>4, <3>5 DEF TypeOK
  <2>3. CASE ~ (DOMAIN rules \subseteq DOMAIN source)
    BY <1>13, <2>1, <2>3, Same DEF EnableRules, PhaseInv, Ready
  <2>4. QED
    BY <2>2, <2>3
<1>14. ASSUME Lint PROVE AllKept' /\ PhaseInv'
  <2>1. UNCHANGED resolving
    BY <1>14 DEF Lint
  <2>2. QED
    BY <1>14, <2>1, Same DEF Lint, PhaseInv, Ready
<1>15. ASSUME EnforceRuntime PROVE AllKept' /\ PhaseInv'
  <2>1. UNCHANGED resolving /\ UNCHANGED <<command, reloads, rules, enabled, results>>
    BY <1>15 DEF EnforceRuntime
  <2>2. phase = "runtime" /\ Violated' = Violated
    BY <1>15, <2>1 DEF EnforceRuntime, Violated, Total
  <2>3. CASE policy # None => RuntimeAccepts(policy)
    <3>1. policy # None => policy.coverage \cap Violated = {}
      BY <2>3 DEF RuntimeAccepts
    <3>2. phase' = "passed"
      BY <1>15, <2>3 DEF EnforceRuntime
    <3>3. QED
      BY <2>1, <2>2, <3>1, <3>2, Same DEF PhaseInv, Ready
  <2>4. CASE ~ (policy # None => RuntimeAccepts(policy))
    <3>1. phase' = "failed"
      BY <1>15, <2>4 DEF EnforceRuntime
    <3>2. QED
      BY <2>1, <2>2, <3>1, Same DEF PhaseInv, Ready
  <2>5. QED
    BY <2>3, <2>4
<1>16. ASSUME Reload PROVE AllKept' /\ PhaseInv'
  <2>1. UNCHANGED resolving /\ command = "lint" /\ command' = command
    BY <1>16 DEF Reload
  <2>2. phase' = "search" /\ reloads' = reloads + 1
    BY <1>16 DEF Reload
  <2>3. reloads \in Nat /\ reloads' # 0
    BY <2>2 DEF TypeOK
  <2>4. Settled
    <3>1. phase = "passed" \/ reloads > 0
      BY <1>16 DEF Reload
    <3>2. QED
      BY <3>1 DEF PhaseInv, Ready
  <2>5. QED
    BY <2>1, <2>2, <2>3, <2>4, Same DEF PhaseInv, Ready
<1>17. ASSUME UNCHANGED vars PROVE AllKept' /\ PhaseInv'
  <2>1. /\ UNCHANGED resolving
        /\ UNCHANGED <<command, phase, reloads, rules, enabled, results>>
    BY <1>17 DEF vars
  <2>2. Violated' = Violated
    BY <2>1 DEF Violated, Total
  <2>3. QED
    BY <2>1, <2>2, Same DEF PhaseInv, Ready
<1>18. QED
  BY <1>1, <1>2, <1>3, <1>4, <1>5, <1>6, <1>7, <1>8, <1>9, <1>10, <1>11, <1>12, <1>13,
     <1>14, <1>15, <1>16, <1>17 DEF Next, Step

\* The invariant holds at first.
LEMMA PolicyInit == Init => PolicyInv
<1>1. SUFFICES ASSUME Init PROVE PolicyInv
  OBVIOUS
<1>2. Visited = {} /\ chain = <<>> /\ policy = None
  BY <1>1 DEF Init, Visited
<1>3. AllKept /\ NothingRead /\ Settled
  BY <1>2 DEF AllKept, NothingRead, Settled
<1>4. QED
  BY <1>1, <1>3 DEF Init, PolicyInv, PhaseInv, Ready

\* The inductive invariant: no demand of a visited policy file is lost on its
\* way to the policy, and no phase begins before what it relies on is there.
THEOREM PolicyTheorem == Spec => [](TypeOK /\ PolicyInv)
<1>1. Init => TypeOK /\ PolicyInv
  BY TypeInit, PolicyInit
<1>2. TypeOK /\ PolicyInv /\ [Next]_vars => TypeOK' /\ PolicyInv'
  BY TypeStep, PolicyStep
<1>3. QED
  BY <1>1, <1>2, PTL DEF Spec

----------------------------------------------------------------------------
(* What follows.                                                           *)

\* When all files are merged, the policy has what each of them asks for.
LEMMA AllBelow ==
  ASSUME TypeOK, AllKept, Settled, NEW f \in Visited
  PROVE  policy # None /\ Below(content[f].policy, policy)
<1>1. Kept(f) /\ chain = <<>> /\ policy # None
  BY DEF AllKept, Settled
<1>2. Len(chain) = 0
  BY <1>1
<1>3. QED
  BY <1>1, <1>2 DEF Kept

\* The two readings of a setting agree.
LEMMA SeveritiesAgree ==
  ASSUME NEW setting \in Settings
  PROVE  ToSeverity(setting) = NormalizeSeverity(setting)
BY DEF Settings, ToSeverity, NormalizeSeverity

\* What the policy accepts, every policy below it holds of the enabled rules.
LEMMA AcceptedHolds ==
  ASSUME TypeOK, NEW p \in Policies, policy \in Policies, Below(p, policy),
         Accepts(policy, rules), enabled = EnabledRules(rules)
  PROVE  RulesHold(p)
<1>1. rules \in RuleSettings
  BY DEF TypeOK
<1>2. PICK R \in SUBSET Rules : rules \in [R -> Settings]
  BY <1>1 DEF RuleSettings
<1>3. \A r \in R : ToSeverity(rules[r]) = NormalizeSeverity(rules[r])
  BY <1>2, SeveritiesAgree
<1>4. /\ DOMAIN enabled = {r \in R : NormalizeSeverity(rules[r]) # 0}
      /\ \A r \in DOMAIN enabled : enabled[r] = NormalizeSeverity(rules[r])
      /\ \A r \in R : NormalizeSeverity(rules[r]) \in 0..2
  BY <1>1, <1>2, EnabledType
<1>5. p.required \subseteq DOMAIN enabled
  <2>1. SUFFICES ASSUME NEW r \in p.required PROVE r \in DOMAIN enabled
    OBVIOUS
  <2>2. r \in policy.required
    BY DEF Below
  <2>3. r \in R /\ ToSeverity(rules[r]) > 0
    BY <1>2, <2>2 DEF Accepts
  <2>4. NormalizeSeverity(rules[r]) # 0
    BY <1>3, <1>4, <2>3
  <2>5. QED
    BY <1>4, <2>3, <2>4
<1>6. ASSUME NEW r \in R, p.floor[r] > 0
      PROVE  r \in DOMAIN enabled /\ enabled[r] >= p.floor[r]
  <2>1. p.floor[r] <= policy.floor[r] /\ p.floor[r] \in Nat /\ policy.floor[r] \in Nat
    <3>1. r \in Rules
      BY <1>6
    <3>2. p.floor \in [Rules -> 0..2] /\ policy.floor \in [Rules -> 0..2]
      BY DEF Policies
    <3>3. p.floor[r] \in 0..2 /\ policy.floor[r] \in 0..2
      BY <3>1, <3>2
    <3>4. p.floor[r] <= policy.floor[r]
      BY <3>1 DEF Below
    <3>5. QED
      BY <3>3, <3>4
  <2>2. NormalizeSeverity(rules[r]) >= policy.floor[r]
    BY <1>2, <1>3, <1>6 DEF Accepts
  <2>3. NormalizeSeverity(rules[r]) \in 0..2
    BY <1>4, <1>6
  <2>4. NormalizeSeverity(rules[r]) >= p.floor[r] /\ NormalizeSeverity(rules[r]) # 0
    BY <1>6, <2>1, <2>2, <2>3
  <2>5. QED
    BY <1>4, <1>6, <2>4
<1>7. QED
  BY <1>2, <1>5, <1>6 DEF RulesHold

\* No start lints, and validate accepts nothing, without what every policy
\* file in the tree of extends asks of the rules.
THEOREM EnforcedTheorem == Spec => []EnforcedAtStart
<1>1. TypeOK /\ PolicyInv => EnforcedAtStart
  <2>1. SUFFICES ASSUME TypeOK, PolicyInv, Ready, reloads = 0, NEW f \in Visited
                 PROVE  RulesHold(content[f].policy)
    BY DEF EnforcedAtStart
  <2>2. Settled /\ AllKept /\ enabled = EnabledRules(rules)
    BY <2>1 DEF PolicyInv, PhaseInv, Ready
  <2>3. policy # None /\ Below(content[f].policy, policy)
    BY <2>1, <2>2, AllBelow
  <2>4. Accepts(policy, rules)
    BY <2>1, <2>3 DEF PolicyInv, PhaseInv
  <2>5. policy \in Policies /\ content[f].policy \in Policies
    BY <2>1, <2>3, ContentType DEF TypeOK
  <2>6. QED
    BY <2>1, <2>2, <2>3, <2>4, <2>5, AcceptedHolds
<1>2. QED
  BY <1>1, PolicyTheorem, PTL

\* No lint passes, at the start or in watch mode, with a message about a token
\* type that some policy file of the tree wants covered wholly.
THEOREM CoveredTheorem == Spec => []CoveredByAll
<1>1. TypeOK /\ PolicyInv => CoveredByAll
  <2>1. SUFFICES ASSUME TypeOK, PolicyInv, phase = "passed", NEW f \in Visited
                 PROVE  content[f].policy.coverage \cap Violated = {}
    BY DEF CoveredByAll
  <2>2. Settled /\ AllKept
    BY <2>1 DEF PolicyInv, PhaseInv, Ready
  <2>3. policy # None /\ Below(content[f].policy, policy)
    BY <2>1, <2>2, AllBelow
  <2>4. policy.coverage \cap Violated = {}
    BY <2>1, <2>3 DEF PolicyInv, PhaseInv
  <2>5. QED
    BY <2>3, <2>4 DEF Below
<1>2. QED
  BY <1>1, PolicyTheorem, PTL

\* No plugin replaces a built-in rule or another plugin's, in any order of
\* loading and over all reloads.
THEOREM OneSourceTheorem == Spec => []OneSource
<1>1. Init => SourceInv
  BY DEF Init, SourceInv, OneSource
<1>2. TypeOK /\ SourceInv /\ [Next]_vars => SourceInv'
  <2>1. SUFFICES ASSUME TypeOK, SourceInv, [Next]_vars
                 PROVE  SourceInv'
    OBVIOUS
  <2>2. CASE UNCHANGED <<source, offered>>
    BY <2>1, <2>2 DEF SourceInv, OneSource
  <2>3. CASE LoadPlugin
    <3> DEFINE h == Head(plugins)
    <3>1. plugins \in Seq(Plugins) /\ plugins # <<>>
      BY <2>1, <2>3 DEF LoadPlugin, TypeOK
    <3>2. h \in Plugins
      BY <3>1, HeadTailProperties
    <3>3. PICK rs \in SUBSET Rules :
             /\ rs \cap DOMAIN source = {}
             /\ source' = [r \in DOMAIN source \cup rs |-> IF r \in rs THEN h ELSE source[r]]
             /\ offered[h] \in {None, rs}
             /\ offered' = [offered EXCEPT ![h] = rs]
      BY <2>3 DEF LoadPlugin
    <3> HIDE DEF h
    <3>4. rs # None
      <4>1. None \notin SUBSET Rules
        BY NoneSets
      <4>2. QED
        BY <4>1
    <3>5. /\ DOMAIN source' = DOMAIN source \cup rs
          /\ \A r \in DOMAIN source : source'[r] = source[r]
          /\ \A r \in rs : source'[r] = h
      BY <3>3
    <3>6. /\ offered \in [Plugins -> (SUBSET Rules) \cup {None}]
          /\ offered'[h] = rs
          /\ \A p \in Plugins : p # h => offered'[p] = offered[p]
      BY <2>1, <3>2, <3>3 DEF TypeOK
    <3>7. \A p \in Plugins : offered'[p] # None => offered'[p] \subseteq DOMAIN source'
      BY <2>1, <3>5, <3>6 DEF SourceInv
    <3>8. OneSource'
      <4>1. SUFFICES ASSUME NEW r \in DOMAIN source'
                     PROVE  {p \in Plugins : offered'[p] # None /\ r \in offered'[p]}
                              = IF r \in Builtin THEN {} ELSE {source'[r]}
        BY DEF OneSource
      <4>2. CASE r \in DOMAIN source
        <5>1. r \notin rs /\ source'[r] = source[r]
          BY <3>3, <3>5, <4>2
        <5>2. \A p \in Plugins : (offered'[p] # None /\ r \in offered'[p])
                                   <=> (offered[p] # None /\ r \in offered[p])
          BY <3>3, <3>4, <3>6, <5>1
        <5>3. {p \in Plugins : offered[p] # None /\ r \in offered[p]}
                = IF r \in Builtin THEN {} ELSE {source[r]}
          BY <2>1, <4>2 DEF SourceInv, OneSource
        <5>4. QED
          BY <5>1, <5>2, <5>3
      <4>3. CASE r \notin DOMAIN source
        <5>1. r \in rs /\ source'[r] = h /\ r \notin Builtin
          BY <2>1, <3>5, <4>1, <4>3 DEF SourceInv
        <5>2. \A p \in Plugins : (offered'[p] # None /\ r \in offered'[p]) <=> p = h
          BY <2>1, <3>2, <3>4, <3>6, <4>3, <5>1 DEF SourceInv
        <5>3. QED
          BY <3>2, <5>1, <5>2
      <4>4. QED
        BY <4>2, <4>3
    <3>9. QED
      BY <2>1, <3>5, <3>7, <3>8 DEF SourceInv
  <2>4. CASE Reload
    <3>1. /\ source' = [r \in Builtin |-> "built-in"]
          /\ offered' = [p \in Plugins |-> None]
      BY <2>4 DEF Reload
    <3>2. QED
      BY <3>1 DEF SourceInv, OneSource
  <2>5. QED
    BY <2>1, <2>2, <2>3, <2>4
       DEF Next, Step, vars, registry, Look, MergeConfig, ConfigLoaded, SearchFails,
           NoPolicyFile, FindPolicy, Extend, PolicyFails, Return, Enforce, PluginFails,
           EnableRules, Lint, EnforceRuntime
<1>3. SourceInv => OneSource
  BY DEF SourceInv
<1>4. QED
  BY <1>1, <1>2, <1>3, TypeTheorem, PTL DEF Spec

----------------------------------------------------------------------------
(* The agent policy in force.                                              *)

\* Sequences that agree at some places have the same last agent policy there.
LEMMA LastOfSame ==
  ASSUME NEW seq, NEW other, NEW S, NEW a, \A i \in S : other[i] = seq[i],
         LastOf(seq, S, a)
  PROVE  LastOf(other, S, a)
BY DEF LastOf

\* Of two pieces, the later one's agent policy is the last, if it has one.
LEMMA LastOfBoth ==
  ASSUME NEW seq, NEW lo \in Nat, NEW mid \in Nat, NEW hi \in Nat, lo <= mid, mid <= hi,
         NEW a, NEW b, NEW c, c = IF b # None THEN b ELSE a,
         LastOf(seq, lo + 1..mid, a), LastOf(seq, mid + 1..hi, b)
  PROVE  LastOf(seq, lo + 1..hi, c)
<1>1. \A i \in lo + 1..hi : i \in lo + 1..mid \/ i \in mid + 1..hi
  OBVIOUS
<1>2. CASE b # None
  <2>1. PICK k \in mid + 1..hi :
          seq[k] = b /\ \A i \in mid + 1..hi : i > k => seq[i] = None
    BY <1>2 DEF LastOf
  <2>2. k \in lo + 1..hi /\ \A i \in lo + 1..hi : i > k => i \in mid + 1..hi
    OBVIOUS
  <2>3. QED
    BY <1>2, <2>1, <2>2 DEF LastOf
<1>3. CASE b = None
  <2>1. \A i \in mid + 1..hi : seq[i] = None
    BY <1>3 DEF LastOf
  <2>2. CASE a = None
    BY <1>1, <1>3, <2>1, <2>2 DEF LastOf
  <2>3. CASE a # None
    <3>1. PICK k \in lo + 1..mid :
            seq[k] = a /\ \A i \in lo + 1..mid : i > k => seq[i] = None
      BY <2>3 DEF LastOf
    <3>2. k \in lo + 1..hi /\ \A i \in lo + 1..hi : i > k => seq[i] = None
      BY <1>1, <2>1, <3>1
    <3>3. c = a
      BY <1>3
    <3>4. QED
      BY <2>3, <3>1, <3>2, <3>3 DEF LastOf
  <2>4. QED
    BY <2>2, <2>3
<1>4. QED
  BY <1>2, <1>3

\* The last agent policy of one file is its own.
LEMMA LastOfOne ==
  ASSUME NEW seq, NEW m \in Nat
  PROVE  LastOf(seq, m + 1..m + 1, seq[m + 1])
BY DEF LastOf

\* Before a file is opened, the frames in the chain are others'; the file's own
\* piece is empty.
LEMMA OpenAgent ==
  ASSUME TypeOK, AgentInv, policy = None, UNCHANGED <<order, policy>>,
         NEW f \in Files, NEW rest \in [Files -> Seq(Files)], Open(f, rest)
  PROVE  AgentInv'
<1> DEFINE n == Len(chain)
           m == Len(order)
<1>1. /\ n \in Nat /\ Len(chain') = n + 1
      /\ \A i \in 1..n : chain'[i] = chain[i]
      /\ chain'[n + 1] = f
      /\ content'[f] # None
      /\ \A g \in Files : g # f => content'[g] = content[g] /\ merged'[g] = merged[g]
  BY OpenType
<1>2. content[f] = None
  BY DEF Open
<1>3. \A i \in 1..n : chain[i] \in Files /\ chain[i] # f
  BY <1>2, ElementOfSeq DEF TypeOK
<1>4. m \in Nat /\ \A i \in 1..m : order[i] \in Files /\ order[i] # f
  <2>1. m \in Nat
    BY LenProperties DEF TypeOK
  <2>2. \A i \in 1..m : order[i] \in Files /\ content[order[i]] # None
    BY DEF AgentInv, Visited
  <2>3. QED
    BY <1>2, <2>1, <2>2
<1>5. /\ InOrder' = InOrder
      /\ \A i \in 1..Len(order') : order'[i] \in Visited'
  <2>1. \A i \in 1..m : content'[order[i]] = content[order[i]]
    BY <1>1, <1>4
  <2>2. InOrder' = InOrder
    BY <2>1 DEF InOrder
  <2>3. \A i \in 1..m : order[i] \in Visited'
    BY <1>4, <2>1 DEF AgentInv, Visited
  <2>4. QED
    BY <2>2, <2>3
<1>6. OpenedOnce'
  <2>1. SUFFICES ASSUME NEW i \in 1..n + 1, NEW j \in 1..n + 1, chain'[i] = chain'[j]
                 PROVE  i = j
    BY <1>1 DEF OpenedOnce
  <2>2. \A k \in 1..n + 1 : k = n + 1 \/ k \in 1..n
    BY <1>1
  <2>3. OpenedOnce
    BY DEF AgentInv
  <2>4. CASE i = n + 1
    <3>1. j \notin 1..n
      BY <1>1, <1>3, <2>1, <2>4
    <3>2. QED
      BY <2>2, <2>4, <3>1
  <2>5. CASE i # n + 1
    <3>1. i \in 1..n /\ j # n + 1
      BY <1>1, <1>3, <2>1, <2>2, <2>5
    <3>2. j \in 1..n
      BY <2>2, <3>1
    <3>3. chain[i] = chain[j]
      BY <1>1, <2>1, <3>1, <3>2
    <3>4. QED
      BY <2>3, <3>1, <3>2, <3>3 DEF OpenedOnce
  <2>6. QED
    BY <2>4, <2>5
<1>7. PICK cuts \in [1..n + 1 -> 0..m] : Pieces(cuts)
  BY DEF AgentInv
<1>8. /\ cuts[1] = 0 /\ cuts[n + 1] = m
      /\ \A i \in 1..n : cuts[i] <= cuts[i + 1]
                         /\ LastOf(InOrder, cuts[i] + 1..cuts[i + 1], merged[chain[i]].agent)
  BY <1>7 DEF Pieces
<1>9. PICK more : more = [i \in 1..n + 2 |-> IF i = n + 2 THEN m ELSE cuts[i]]
  OBVIOUS
<1>10. more \in [1..(n + 1) + 1 -> 0..m]
  <2>1. (n + 1) + 1 = n + 2
    BY <1>1
  <2>2. \A i \in 1..n + 2 : i = n + 2 \/ i \in 1..n + 1
    BY <1>1
  <2>3. QED
    BY <1>4, <1>7, <1>9, <2>1, <2>2
<1>11. more[1] = 0 /\ more[(n + 1) + 1] = m /\ more[n + 1] = m
       /\ \A i \in 1..n : more[i] = cuts[i] /\ more[i + 1] = cuts[i + 1]
  <2>1. /\ (n + 1) + 1 = n + 2 /\ n + 2 \in 1..n + 2
        /\ 1 \in 1..n + 2 /\ 1 # n + 2
        /\ n + 1 \in 1..n + 2 /\ n + 1 # n + 2
        /\ \A i \in 1..n : i \in 1..n + 2 /\ i # n + 2 /\ i + 1 \in 1..n + 2 /\ i + 1 # n + 2
    BY <1>1
  <2>2. QED
    BY <1>8, <1>9, <2>1
<1>12. ASSUME NEW i \in 1..n + 1
       PROVE  /\ more[i] <= more[i + 1]
              /\ LastOf(InOrder, more[i] + 1..more[i + 1], merged'[chain'[i]].agent)
  <2>1. CASE i = n + 1
    <3>1. merged' = [merged EXCEPT ![f] = NoPolicy] /\ merged \in [Files -> Policies]
      BY DEF Open, TypeOK
    <3>2. merged'[chain'[i]].agent = None
      BY <1>1, <2>1, <3>1 DEF NoPolicy
    <3>3. m + 1..m = {}
      BY <1>4
    <3>4. LastOf(InOrder, m + 1..m, None)
      BY <3>3 DEF LastOf
    <3>5. more[i] = m /\ more[i + 1] = m
      BY <1>11, <2>1
    <3>6. QED
      BY <1>4, <3>2, <3>4, <3>5
  <2>2. CASE i # n + 1
    <3>1. i \in 1..n
      BY <1>1, <2>2
    <3>2. chain'[i] = chain[i] /\ merged'[chain[i]] = merged[chain[i]]
      BY <1>1, <1>3, <3>1
    <3>3. QED
      BY <1>8, <1>11, <3>1, <3>2
  <2>3. QED
    BY <2>1, <2>2
<1>13. Pieces(more)'
  BY <1>1, <1>5, <1>11, <1>12 DEF Pieces
<1>14. \E c \in [1..Len(chain') + 1 -> 0..Len(order')] : Pieces(c)'
  BY <1>1, <1>10, <1>13
<1>15. QED
  BY <1>5, <1>6, <1>14 DEF AgentInv

\* When a file's resolution ends, its piece, with itself last, is joined to
\* that of the file that extends it, or is the whole order.
LEMMA ReturnAgent ==
  ASSUME TypeOK, AgentInv, policy = None, Return
  PROVE  AgentInv'
<1> DEFINE n == Len(chain)
           m == Len(order)
           own == content[Current].policy
           whole == Merge(merged[Current], own)
           g == chain[n - 1]
<1>1. /\ whole \in Policies
      /\ chain' \in Seq(Files) /\ Len(chain') = n - 1
      /\ \A i \in 1..n - 1 : chain'[i] = chain[i]
      /\ n \in Nat /\ n >= 1 /\ Current \in Files
      /\ n # 1 => g \in Files
  BY ReturnType
<1>2. content' = content /\ Visited' = Visited /\ order' = Append(order, Current)
  BY DEF Return, Visited
<1>3. /\ \A i \in 1..n : chain[i] \in Files /\ content[chain[i]] # None
      /\ merged \in [Files -> Policies]
      /\ order \in Seq(Files) /\ m \in Nat
  BY ElementOfSeq, LenProperties DEF TypeOK
<1>4. n \in 1..n /\ Current = chain[n] /\ Current \in Visited
  BY <1>1, <1>3 DEF Current, Visited
<1>5. /\ Len(order') = m + 1
      /\ \A i \in 1..m : order'[i] = order[i]
      /\ order'[m + 1] = Current
  BY <1>1, <1>2, <1>3, AppendProperties
<1>6. \A i \in 1..m + 1 : i = m + 1 \/ i \in 1..m
  BY <1>3
<1>7. \A i \in 1..Len(order') : order'[i] \in Visited'
  BY <1>2, <1>4, <1>5, <1>6 DEF AgentInv
<1>8. PICK now : now = InOrder
  OBVIOUS
<1>9. PICK then : then = InOrder'
  OBVIOUS
<1>10. /\ \A i \in 1..m : then[i] = now[i]
       /\ then[m + 1] = own.agent
  <2>1. then = [i \in 1..m + 1 |-> content[order'[i]].policy.agent]
    BY <1>2, <1>5, <1>9 DEF InOrder
  <2>2. now = [i \in 1..m |-> content[order[i]].policy.agent]
    BY <1>8 DEF InOrder
  <2>3. m + 1 \in 1..m + 1 /\ \A i \in 1..m : i \in 1..m + 1
    BY <1>3
  <2>4. QED
    BY <1>5, <2>1, <2>2, <2>3
<1>11. PICK cuts \in [1..n + 1 -> 0..m] : Pieces(cuts)
  BY DEF AgentInv
<1>12. /\ cuts[1] = 0 /\ cuts[n + 1] = m
       /\ \A i \in 1..n : cuts[i] <= cuts[i + 1]
                          /\ LastOf(now, cuts[i] + 1..cuts[i + 1], merged[chain[i]].agent)
  BY <1>8, <1>11 DEF Pieces
<1>13. \A i \in 1..n + 1 : cuts[i] \in 0..m
  BY <1>11
<1>14. ASSUME NEW i \in 1..n
       PROVE  LastOf(then, cuts[i] + 1..cuts[i + 1], merged[chain[i]].agent)
  <2>1. cuts[i] \in 0..m /\ cuts[i + 1] \in 0..m
    BY <1>1, <1>13
  <2>2. \A j \in cuts[i] + 1..cuts[i + 1] : then[j] = now[j]
    BY <1>3, <1>10, <2>1
  <2>3. QED
    BY <1>12, <2>2, LastOfSame
<1>15. PICK low : low = cuts[n]
  OBVIOUS
<1>16. low \in Nat /\ low <= m
  BY <1>1, <1>3, <1>13, <1>15
<1>17. LastOf(then, low + 1..m + 1, whole.agent)
  <2>1. LastOf(then, low + 1..m, merged[Current].agent)
    BY <1>4, <1>12, <1>14, <1>15
  <2>2. LastOf(then, m + 1..m + 1, own.agent)
    BY <1>3, <1>10, LastOfOne
  <2>3. whole.agent = IF own.agent # None THEN own.agent ELSE merged[Current].agent
    BY DEF Merge
  <2> HIDE DEF whole, own
  <2>4. m + 1 \in Nat /\ m <= m + 1
    BY <1>3
  <2>5. PICK a : a = merged[Current].agent
    OBVIOUS
  <2>6. PICK b : b = own.agent
    OBVIOUS
  <2>7. PICK c : c = whole.agent
    OBVIOUS
  <2>8. PICK top \in Nat : top = m
    BY <1>3
  <2>9. PICK end \in Nat : end = m + 1
    BY <2>4
  <2>10. LastOf(then, low + 1..top, a) /\ LastOf(then, top + 1..end, b)
    BY <2>1, <2>2, <2>5, <2>6, <2>8, <2>9
  <2>11. LastOf(then, low + 1..end, c)
    <3>1. c = IF b # None THEN b ELSE a
      BY <2>3, <2>5, <2>6, <2>7
    <3>2. low <= top /\ top <= end
      BY <1>16, <2>4, <2>8, <2>9
    <3>3. low \in Nat
      BY <1>16
    <3>4. QED
      BY ONLY <2>10, <3>1, <3>2, <3>3, LastOfBoth
  <2>12. QED
    BY <2>7, <2>9, <2>11
<1>18. OpenedOnce'
  <2>1. OpenedOnce /\ \A i \in 1..n - 1 : i \in 1..n
    BY <1>1 DEF AgentInv
  <2>2. QED
    BY <1>1, <2>1 DEF OpenedOnce
<1>19. CASE n = 1
  <2>1. policy' = whole
    BY <1>19 DEF Return
  <2> HIDE DEF whole
  <2>2. policy' # None
    BY <1>1, <2>1
  <2>3. low + 1 = 1
    BY <1>12, <1>15, <1>19
  <2>4. LastOf(InOrder', 1..Len(order'), policy'.agent)
    BY <1>5, <1>9, <1>17, <2>1, <2>3
  <2>5. QED
    BY <1>7, <1>18, <2>2, <2>4 DEF AgentInv
<1>20. CASE n # 1
  <2>1. merged' = [merged EXCEPT ![g] = Merge(merged[g], whole)] /\ policy' = policy
    BY <1>20 DEF Return
  <2>2. merged'[g] = Merge(merged[g], whole) /\ g \in Files
    BY <1>1, <1>3, <1>20, <2>1
  <2>3. merged'[g].agent = IF whole.agent # None THEN whole.agent ELSE merged[g].agent
    BY <2>2 DEF Merge
  <2> HIDE DEF whole, own, g
  <2>4. /\ n - 1 \in Nat /\ n - 1 \in 1..n /\ (n - 1) + 1 = n
        /\ n - 1 \in 1..n + 1
    BY <1>1, <1>20
  <2>5. PICK start : start = cuts[n - 1]
    OBVIOUS
  <2>6. start \in Nat /\ start <= low /\ LastOf(then, start + 1..low, merged[g].agent)
    <3>1. start \in 0..m
      BY <1>13, <2>4, <2>5
    <3>2. start <= low
      BY <1>12, <1>15, <2>4, <2>5
    <3>3. LastOf(then, cuts[n - 1] + 1..cuts[(n - 1) + 1], merged[chain[n - 1]].agent)
      BY <1>14, <2>4
    <3>4. QED
      BY <1>15, <2>4, <2>5, <3>1, <3>2, <3>3 DEF g
  <2>7. LastOf(then, start + 1..m + 1, merged'[g].agent)
    <3>1. m + 1 \in Nat /\ low <= m + 1
      BY <1>3, <1>16
    <3>2. QED
      BY <1>16, <1>17, <2>3, <2>6, <3>1, LastOfBoth
  <2>8. PICK less : less = [i \in 1..n |-> IF i = n THEN m + 1 ELSE cuts[i]]
    OBVIOUS
  <2>9. less \in [1..(n - 1) + 1 -> 0..m + 1]
    <3>1. \A i \in 1..n : i \in 1..n + 1
      BY <1>1
    <3>2. \A i \in 1..n : (IF i = n THEN m + 1 ELSE cuts[i]) \in 0..m + 1
      BY <1>3, <1>13, <3>1
    <3>3. QED
      BY <2>4, <2>8, <3>2
  <2>10. /\ less[1] = 0 /\ less[(n - 1) + 1] = m + 1
         /\ \A i \in 1..n - 1 : less[i] = cuts[i]
         /\ \A i \in 1..n - 1 : i # n - 1 => less[i + 1] = cuts[i + 1]
    <3>1. /\ 1 \in 1..n /\ 1 # n
          /\ \A i \in 1..n - 1 : i \in 1..n /\ i # n
          /\ \A i \in 1..n - 1 : i # n - 1 => i + 1 \in 1..n /\ i + 1 # n
      BY <1>1, <1>20
    <3>2. QED
      BY <1>4, <1>12, <2>4, <2>8, <3>1
  <2>11. ASSUME NEW i \in 1..n - 1
         PROVE  /\ less[i] <= less[i + 1]
                /\ LastOf(then, less[i] + 1..less[i + 1], merged'[chain'[i]].agent)
    <3>1. chain'[i] = chain[i] /\ i \in 1..n
      BY <1>1
    <3>2. CASE i = n - 1
      <4>1. less[i] = start /\ less[i + 1] = m + 1 /\ chain'[i] = g
        BY <2>5, <2>10, <3>1, <3>2 DEF g
      <4>2. start <= m + 1
        BY <1>3, <1>16, <2>6
      <4>3. QED
        BY <2>7, <4>1, <4>2
    <3>3. CASE i # n - 1
      <4>1. less[i] = cuts[i] /\ less[i + 1] = cuts[i + 1]
        BY <2>10, <3>3
      <4>2. chain[i] # g
        BY <2>4, <3>1, <3>3 DEF AgentInv, OpenedOnce, g
      <4>3. merged'[chain[i]] = merged[chain[i]]
        BY <1>3, <2>1, <3>1, <4>2
      <4>4. QED
        BY <1>12, <1>14, <3>1, <4>1, <4>3
    <3>4. QED
      BY <3>2, <3>3
  <2>12. Pieces(less)'
    <3>1. Len(chain') = n - 1 /\ Len(order') = m + 1
      BY <1>1, <1>5
    <3>2. QED
      BY <1>9, <2>10, <2>11, <3>1 DEF Pieces
  <2>13. \E c \in [1..Len(chain') + 1 -> 0..Len(order')] : Pieces(c)'
    BY <1>1, <1>5, <2>9, <2>12
  <2>14. QED
    BY <1>7, <1>18, <2>1, <2>13 DEF AgentInv
<1>21. QED
  BY <1>19, <1>20

\* Every action keeps the pieces.
LEMMA AgentStep == TypeOK /\ PolicyInv /\ AgentInv /\ [Next]_vars => AgentInv'
<1> SUFFICES ASSUME TypeOK, PolicyInv, AgentInv, [Next]_vars
             PROVE  AgentInv'
  OBVIOUS
<1>1. CASE UNCHANGED resolving
  BY <1>1 DEF resolving, AgentInv, OpenedOnce, Pieces, InOrder, Visited
<1>2. CASE FindPolicy
  <2>1. PICK f \in Files : Open(f, todo)
    BY <1>2 DEF FindPolicy
  <2>2. policy = None
    BY <1>2 DEF FindPolicy, PolicyInv, PhaseInv, NothingRead
  <2>3. UNCHANGED <<order, policy>> /\ todo \in [Files -> Seq(Files)]
    BY <1>2 DEF FindPolicy, TypeOK
  <2>4. QED
    BY <2>1, <2>2, <2>3, OpenAgent
<1>3. CASE Extend
  <2> DEFINE rest == [todo EXCEPT ![Current] = Tail(todo[Current])]
  <2>1. Head(todo[Current]) \in Files /\ rest \in [Files -> Seq(Files)]
    BY <1>3, RestType
  <2>2. Open(Head(todo[Current]), rest) /\ UNCHANGED <<order, policy>>
    BY <1>3 DEF Extend
  <2>3. policy = None
    BY <1>3 DEF Extend, PolicyInv, PhaseInv
  <2> HIDE DEF rest
  <2>4. QED
    BY <2>1, <2>2, <2>3, OpenAgent
<1>4. CASE Return
  <2>1. policy = None
    BY <1>4 DEF Return, PolicyInv, PhaseInv
  <2>2. QED
    BY <1>4, <2>1, ReturnAgent
<1>5. QED
  BY <1>1, <1>2, <1>3, <1>4
     DEF Next, Step, vars, Look, MergeConfig, ConfigLoaded, SearchFails, NoPolicyFile,
         PolicyFails, Enforce, LoadPlugin, PluginFails, EnableRules, Lint, EnforceRuntime,
         Reload

\* Before any policy file is read, the one piece is empty.
LEMMA AgentInit == Init => AgentInv
<1>1. SUFFICES ASSUME Init PROVE AgentInv
  OBVIOUS
<1>2. Len(chain) = 0 /\ Len(order) = 0 /\ policy = None
  BY <1>1 DEF Init
<1>3. PICK cuts : cuts = [i \in 1..1 |-> 0]
  OBVIOUS
<1>4. cuts \in [1..0 + 1 -> 0..0] /\ cuts[1] = 0 /\ cuts[0 + 1] = 0
  BY <1>3
<1>5. Pieces(cuts)
  BY <1>2, <1>4 DEF Pieces
<1>6. QED
  BY <1>2, <1>4, <1>5 DEF AgentInv, OpenedOnce

\* The invariant that no file's agent policy is merged out of its turn.
THEOREM AgentTheorem == Spec => []AgentInv
<1>1. TypeOK /\ PolicyInv /\ AgentInv /\ [Next]_vars => AgentInv'
  BY AgentStep
<1>2. QED
  BY <1>1, AgentInit, PolicyTheorem, PTL DEF Spec

\* The scalars of the agent policy in force are those of the last one of the
\* tree of extends (the extending file's, else its last entry's that has one,
\* at every level), and it trusts at least whom that one trusts and nobody whom
\* no file trusts.
THEOREM AgentOfLastTheorem == Spec => []AgentOfLast
<1>1. TypeOK /\ AgentInv => AgentOfLast
  <2>1. SUFFICES ASSUME TypeOK, AgentInv, policy # None
                 PROVE  AgentOfLast
    BY DEF AgentOfLast
  <2> DEFINE m == Len(order)
             having == {i \in 1..m : content[order[i]].policy.agent # None}
             last == CHOOSE i \in having : \A j \in having : j <= i
  <2>2. m \in Nat
    BY <2>1, LenProperties DEF TypeOK
  <2>3. LastOf(InOrder, 1..m, policy.agent)
    BY <2>1 DEF AgentInv
  <2>4. \A i \in 1..m : InOrder[i] = content[order[i]].policy.agent
    BY DEF InOrder
  <2>5. CASE policy.agent = None
    <3>1. having = {}
      BY <2>3, <2>4, <2>5 DEF LastOf
    <3>2. QED
      BY <2>5, <3>1 DEF AgentOfLast
  <2>6. CASE policy.agent # None
    <3>1. PICK k \in 1..m : InOrder[k] = policy.agent
                            /\ \A i \in 1..m : i > k => InOrder[i] = None
      BY <2>3, <2>6 DEF LastOf
    <3>2. k \in having /\ \A j \in having : j <= k
      BY <2>2, <2>4, <2>6, <3>1
    <3>3. last \in having /\ \A j \in having : j <= last
      BY <3>2
    <3>4. last = k
      <4>1. last <= k /\ k <= last
        BY <3>2, <3>3
      <4>2. last \in 1..m
        BY <3>3
      <4> HIDE DEF last, having
      <4>3. last \in Nat /\ k \in Nat
        BY <2>2, <4>2
      <4>4. QED
        BY <4>1, <4>3
    <3>5. content[order[k]].policy.agent = policy.agent
      BY <2>4, <3>1
    <3>6. having # {} /\ policy.agent = content[order[last]].policy.agent
      BY <3>2, <3>4, <3>5
    <3>7. policy.agent.trusted
              \subseteq UNION {content[order[i]].policy.agent.trusted : i \in having}
      BY <3>2, <3>5
    <3> HIDE DEF last, having
    <3>8. /\ having # {}
          /\ policy.agent # None
          /\ policy.agent.rate = content[order[last]].policy.agent.rate
          /\ policy.agent.convergence = content[order[last]].policy.agent.convergence
          /\ content[order[last]].policy.agent.trusted \subseteq policy.agent.trusted
      BY <2>6, <3>6
    <3>9. QED
      BY <3>7, <3>8 DEF AgentOfLast, last, having
  <2>7. QED
    BY <2>5, <2>6
<1>2. QED
  BY <1>1, TypeTheorem, AgentTheorem, PTL

=============================================================================
