------------------------------- MODULE Policy -------------------------------
(***************************************************************************)
(* How a lint gets its rules, and what a designlint.policy.json holds it   *)
(* to.  A start loads the configuration files from the working directory   *)
(* up to the root (src/config), then the policy and the files it extends,  *)
(* refuses the configuration or goes on to load the plugins, turns the     *)
(* configured rules on, lints, and holds the results to the policy as      *)
(* well.  `validate` goes another way round, with neither plugins nor a    *)
(* lint; in watch mode a changed configuration is loaded again, and the    *)
(* policy of the start remains.                                            *)
(*                                                                         *)
(* What a file holds is chosen when it is read: each is read once.  The    *)
(* recursion of resolveExtends is `chain`, the files whose `extends` are   *)
(* being resolved, each with the entries still to come and the policy      *)
(* merged so far.                                                          *)
(***************************************************************************)
EXTENDS Naturals, Sequences, FiniteSets

CONSTANTS
    Depth,           \* directories from the working directory to the root
    Files,           \* policy files
    Rules,           \* rule ids
    Builtin,         \* the rules that need no plugin
    Plugins,         \* plugin modules
    Types,           \* token types
    TypeOf,          \* the token type a rule is about, or None
    Agents,          \* agent ids
    ConfigContents,  \* what a configuration file may hold
    PolicyContents,  \* what a policy file may hold
    Contexts,        \* --baseline and agent id of a run
    MaxMessages, MaxFiles, MaxReloads,
    None

Settings == {"off", "warn", "error", "0", "1", "2"}

\* Config.rules as written: some rules, each with a setting.  (A setting may
\* also be a list that starts with one of these: both readers take its head.)
RuleSettings == UNION {[R -> Settings] : R \in SUBSET Rules}

\* agentPolicy: the rate is in hundredths of a violation per file.
AgentPolicies == [rate : Nat, convergence : BOOLEAN, trusted : SUBSET Agents]

\* ratchet: limit is maxDelta in metric mode and minScore in entropy mode,
\* where 0 stands for none as well: no score is below it.
Ratchets == [mode : {"metric", "entropy"}, limit : Nat]

\* DesignLintPolicy: floor 0 stands for a rule without minSeverity, and
\* coverage is the set of the types demanded at 100 %: of two ratios the merge
\* keeps the larger, and nothing below 1 is ever enforced.
Policies ==
    [required : SUBSET Rules, floor : [Rules -> 0..2], coverage : SUBSET Types,
     agent : AgentPolicies \cup {None}, ratchet : Ratchets]

ASSUME DepthAssumption == Depth \in Nat
ASSUME BoundsAssumption == /\ MaxMessages \in Nat
                           /\ MaxFiles \in Nat
                           /\ MaxReloads \in Nat
ASSUME RulesAssumption == Builtin \subseteq Rules /\ TypeOf \in [Rules -> Types \cup {None}]
ASSUME ConfigAssumption ==
    \A c \in ConfigContents : c.rules \in RuleSettings \cup {None} /\ c.plugins \in Seq(Plugins)
ASSUME PolicyAssumption ==
    \A c \in PolicyContents : c.extends \in Seq(Files) /\ c.policy \in Policies
ASSUME ContextAssumption ==
    \A c \in Contexts : c.baseline \in Nat \cup {None} /\ c.agent \in Agents \cup {None}
ASSUME NoneAssumption ==
    None \notin Files \cup Types \cup Nat \cup Agents \cup RuleSettings \cup Policies
                \cup AgentPolicies \cup PolicyContents
ASSUME NoneSetAssumption == \A R \in SUBSET Rules : R # None

VARIABLES
    command,   \* "lint" (which may go on watching) or "validate"
    context,   \* the baseline and the agent id of the process
    phase,     \* how far the start, or the reload, has come
    reloads,   \* how often watch mode has loaded the configuration again
    dir,       \* the next directory to look into
    found,     \* the configurations found and not merged yet, root first
    rules,     \* the merged Config.rules
    plugins,   \* the merged Config.plugins still to be loaded
    source,    \* RuleRegistry.ruleMap: where each known rule comes from
    offered,   \* the rules that each loaded plugin exports, None before
    enabled,   \* the severity each rule is linted with
    results,   \* the messages of the lint, by rule, and the number of files
    content,   \* what each policy file held when it was read, None before
    chain,     \* the policy files being resolved, outermost first
    todo,      \* the entries of extends each of them has not resolved yet
    merged,    \* resolveExtends' merged, per file
    order,     \* the policy files in the order their resolution ended
    policy     \* the policy of the run; None: there is none

searching == <<dir, found, rules>>
registry == <<plugins, source, offered, enabled>>
resolving == <<content, chain, todo, merged, order, policy>>
vars == <<command, context, phase, reloads, searching, registry, results, resolving>>

Empty == [r \in {} |-> "off"]
NoRules == [r \in {} |-> 0]
NoResults == [messages |-> <<>>, files |-> 0]

\* The policy resolveExtends starts to merge into, and the schema's defaults.
NoPolicy == [required |-> {}, floor |-> [r \in Rules |-> 0], coverage |-> {},
             agent |-> None, ratchet |-> [mode |-> "entropy", limit |-> 0]]

Init ==
    /\ command \in {"lint", "validate"}
    /\ context \in Contexts
    /\ phase = "search"
    /\ reloads = 0
    /\ dir = 1
    /\ found = <<>>
    /\ rules = Empty
    /\ plugins = <<>>
    /\ source = [r \in Builtin |-> "built-in"]
    /\ offered = [p \in Plugins |-> None]
    /\ enabled = NoRules
    /\ results = NoResults
    /\ content = [f \in Files |-> None]
    /\ chain = <<>>
    /\ todo = [f \in Files |-> <<>>]
    /\ merged = [f \in Files |-> NoPolicy]
    /\ order = <<>>
    /\ policy = None

----------------------------------------------------------------------------
(* Loading the configuration: loadConfig.                                  *)

\* The next directory towards the root has a configuration file, or none.
Look ==
    /\ phase = "search"
    /\ dir <= Depth
    /\ \/ \E c \in ConfigContents : found' = <<c>> \o found
       \/ UNCHANGED found
    /\ dir' = dir + 1
    /\ UNCHANGED <<command, context, phase, reloads, rules, registry, results, resolving>>

\* Faulty variant: the nearest configuration decides, with rules or without.
MergeNearest ==
    /\ phase = "search"
    /\ dir > Depth
    /\ found # <<>>
    /\ rules' = Head(found).rules
    /\ plugins' = plugins \o Head(found).plugins
    /\ found' = Tail(found)
    /\ UNCHANGED <<command, context, phase, reloads, dir, source, offered, enabled, results, resolving>>

\* The configurations are merged from root to leaf: arrays are concatenated,
\* objects come whole from the nearest configuration that has them.
MergeConfig ==
    /\ phase = "search"
    /\ dir > Depth
    /\ found # <<>>
    /\ rules' = IF Head(found).rules # None THEN Head(found).rules ELSE rules
    /\ plugins' = plugins \o Head(found).plugins
    /\ found' = Tail(found)
    /\ UNCHANGED <<command, context, phase, reloads, dir, source, offered, enabled, results, resolving>>

\* What a start does once it has its configuration: validateConfig and the
\* reload of watch mode create the linter at once, and the latter never looks
\* at the policy again.
ConfigLoaded ==
    /\ phase = "search"
    /\ dir > Depth
    /\ found = <<>>
    /\ phase' = IF command = "lint" /\ reloads = 0 THEN "policy" ELSE "plugins"
    /\ UNCHANGED <<command, context, reloads, searching, registry, results, resolving>>

\* A configuration file cannot be loaded, or the schema refuses the merge.
SearchFails ==
    /\ phase = "search"
    /\ phase' = "failed"
    /\ UNCHANGED <<command, context, reloads, searching, registry, results, resolving>>

----------------------------------------------------------------------------
(* Loading the policy: loadPolicy.                                         *)

\* Faulty variant: validate goes on as a lint does.
AfterPolicyAlike == "plugins"

AfterPolicy == IF command = "lint" THEN "plugins" ELSE "valid"

\* No directory from the configuration's upwards has a policy file.
NoPolicyFile ==
    /\ phase = "policy"
    /\ phase' = AfterPolicy
    /\ UNCHANGED <<command, context, reloads, searching, registry, results, resolving>>

\* parseRaw: a file that was not visited before is read and its frame opened;
\* rest is what the other files have still to resolve.
Open(f, rest) ==
    /\ content[f] = None
    /\ \E c \in PolicyContents :
         /\ content' = [content EXCEPT ![f] = c]
         /\ todo' = [rest EXCEPT ![f] = c.extends]
    /\ merged' = [merged EXCEPT ![f] = NoPolicy]
    /\ chain' = Append(chain, f)

\* findPolicyFile found a file.
FindPolicy ==
    /\ phase = "policy"
    /\ phase' = "extends"
    /\ \E f \in Files : Open(f, todo)
    /\ UNCHANGED <<command, context, reloads, searching, registry, results, order, policy>>

Current == chain[Len(chain)]

\* resolveExtends is called for the next entry of the current file's extends.
Extend ==
    /\ phase = "extends"
    /\ todo[Current] # <<>>
    /\ Open(Head(todo[Current]), [todo EXCEPT ![Current] = Tail(todo[Current])])
    /\ UNCHANGED <<command, context, phase, reloads, searching, registry, results, order, policy>>

\* The entry was visited before, on the way here or in an earlier branch, or
\* its file cannot be resolved, read or parsed.
PolicyFails ==
    /\ phase \in {"policy", "extends"}
    /\ phase = "extends" => todo[Current] # <<>>
    /\ phase' = "failed"
    /\ UNCHANGED <<command, context, reloads, searching, registry, results, resolving>>

Larger(m, n) == IF m >= n THEN m ELSE n

\* Faulty variant: the overriding floors replace the others, as in a spread.
MergeFloors(base, override) ==
    [required |-> base.required \cup override.required,
     floor |-> [r \in Rules |-> IF override.floor[r] # 0 THEN override.floor[r] ELSE base.floor[r]],
     coverage |-> base.coverage \cup override.coverage,
     agent |-> IF override.agent # None THEN override.agent ELSE base.agent,
     ratchet |-> override.ratchet]

\* Faulty variant: coverage is taken as a whole from the policy that has it.
MergeCoverage(base, override) ==
    [required |-> base.required \cup override.required,
     floor |-> [r \in Rules |-> Larger(base.floor[r], override.floor[r])],
     coverage |-> IF override.coverage # {} THEN override.coverage ELSE base.coverage,
     agent |-> IF override.agent # None THEN override.agent ELSE base.agent,
     ratchet |-> override.ratchet]

\* Faulty variant: the agent policy that is there first stays.
MergeAgent(base, override) ==
    [required |-> base.required \cup override.required,
     floor |-> [r \in Rules |-> Larger(base.floor[r], override.floor[r])],
     coverage |-> base.coverage \cup override.coverage,
     agent |-> IF base.agent # None THEN base.agent ELSE override.agent,
     ratchet |-> override.ratchet]

\* mergePolicies
Merge(base, override) ==
    [required |-> base.required \cup override.required,
     floor |-> [r \in Rules |-> Larger(base.floor[r], override.floor[r])],
     coverage |-> base.coverage \cup override.coverage,
     agent |-> IF override.agent # None THEN override.agent ELSE base.agent,
     ratchet |-> override.ratchet]

\* The current file's entries are all resolved: its own policy is merged over
\* them and the result into what the file that extends it has merged so far.
Return ==
    LET f == Current
        whole == Merge(merged[f], content[f].policy)
    IN /\ phase = "extends"
       /\ todo[f] = <<>>
       /\ order' = Append(order, f)
       /\ chain' = SubSeq(chain, 1, Len(chain) - 1)
       /\ IF Len(chain) = 1
          THEN /\ policy' = whole
               /\ phase' = "enforce"
               /\ UNCHANGED merged
          ELSE LET g == chain[Len(chain) - 1]
               IN /\ merged' = [merged EXCEPT ![g] = Merge(merged[g], whole)]
                  /\ UNCHANGED <<phase, policy>>
       /\ UNCHANGED <<command, context, reloads, searching, registry, results, content, todo>>

----------------------------------------------------------------------------
(* Enforcing it: enforcePolicy.                                            *)

ToSeverity(setting) ==
    CASE setting \in {"error", "2"} -> 2
      [] setting \in {"warn", "1"} -> 1
      [] OTHER -> 0

\* Required rules are on, and no configured rule is below its floor.
Accepts(p, rs) ==
    /\ \A r \in p.required : r \in DOMAIN rs /\ ToSeverity(rs[r]) > 0
    /\ \A r \in DOMAIN rs : ToSeverity(rs[r]) >= p.floor[r]

Enforce ==
    /\ phase = "enforce"
    /\ phase' = IF Accepts(policy, rules) THEN AfterPolicy ELSE "failed"
    /\ UNCHANGED <<command, context, reloads, searching, registry, results, resolving>>

----------------------------------------------------------------------------
(* The linter: RuleRegistry and PluginManager.                             *)

\* Faulty variant: a rule that is known already is replaced.
LoadPluginOver ==
    /\ phase = "plugins"
    /\ command = "lint"
    /\ plugins # <<>>
    /\ \E rs \in SUBSET Rules :
         /\ source' = [r \in DOMAIN source \cup rs |->
                         IF r \in rs THEN Head(plugins) ELSE source[r]]
         /\ offered[Head(plugins)] \in {None, rs}
         /\ offered' = [offered EXCEPT ![Head(plugins)] = rs]
    /\ plugins' = Tail(plugins)
    /\ UNCHANGED <<command, context, phase, reloads, searching, enabled, results, resolving>>

\* The next plugin is loaded and adds its rules, which must be new.  The
\* environment of validateConfig has no plugin loader.
LoadPlugin ==
    /\ phase = "plugins"
    /\ command = "lint"
    /\ plugins # <<>>
    /\ \E rs \in SUBSET Rules :
         /\ rs \cap DOMAIN source = {}
         /\ source' = [r \in DOMAIN source \cup rs |->
                         IF r \in rs THEN Head(plugins) ELSE source[r]]
         /\ offered[Head(plugins)] \in {None, rs}
         /\ offered' = [offered EXCEPT ![Head(plugins)] = rs]
    /\ plugins' = Tail(plugins)
    /\ UNCHANGED <<command, context, phase, reloads, searching, enabled, results, resolving>>

\* It cannot be loaded, or one of its rules is invalid or already known.  What
\* it added before is not read again: pluginLoad stays rejected.
PluginFails ==
    /\ phase = "plugins"
    /\ command = "lint"
    /\ plugins # <<>>
    /\ phase' = "failed"
    /\ UNCHANGED <<command, context, reloads, searching, registry, results, resolving>>

\* normalizeSeverity, with 0 for undefined
NormalizeSeverity(value) ==
    CASE value \in {"0", "off"} -> 0
      [] value \in {"2", "error"} -> 2
      [] value \in {"1", "warn"} -> 1

EnabledRules(rs) ==
    [r \in {q \in DOMAIN rs : NormalizeSeverity(rs[q]) # 0} |-> NormalizeSeverity(rs[r])]

\* getEnabledRules, which refuses a rule that nobody brought.
EnableRules ==
    /\ phase = "plugins"
    /\ command = "lint" => plugins = <<>>
    /\ IF DOMAIN rules \subseteq DOMAIN source
       THEN /\ enabled' = EnabledRules(rules)
            /\ phase' = IF command = "lint" THEN "lint" ELSE "policy"
       ELSE phase' = "failed" /\ UNCHANGED enabled
    /\ UNCHANGED <<command, context, reloads, searching, plugins, source, offered, results, resolving>>

----------------------------------------------------------------------------
(* The lint and the policy's part after it: executeLint.                   *)

\* What a lint may find: messages of the enabled rules.
Outcomes ==
    {o \in [messages : UNION {[1..k -> DOMAIN enabled] : k \in 0..MaxMessages},
            files : 0..MaxFiles] : o.files = 0 => o.messages = <<>>}

\* lintTargets, and the report of its results.
Lint ==
    /\ phase = "lint"
    /\ results' \in Outcomes
    /\ phase' = "runtime"
    /\ UNCHANGED <<command, context, reloads, searching, registry, resolving>>

Total == Len(results.messages)
FileCount == Larger(1, results.files)
Errors == {i \in 1..Total : enabled[results.messages[i]] = 2}

\* computeScore, times the number of files
Score == IF 10 * Total >= 100 * FileCount THEN 0 ELSE 100 * FileCount - 10 * Total

\* The types that some message is about.
Violated == {TypeOf[results.messages[i]] : i \in 1..Total}

RatchetHolds(ratchet, baseline) ==
    IF ratchet.mode = "metric" THEN Total <= baseline + ratchet.limit
    ELSE Score >= ratchet.limit * FileCount

AgentHolds(agent, id) ==
    \/ id # None /\ id \in agent.trusted
    \/ /\ agent.convergence => Errors = {}
       /\ 100 * Total <= agent.rate * FileCount

\* enforceRuntimePolicy
RuntimeAccepts(p) ==
    /\ p.coverage \cap Violated = {}
    /\ context.baseline # None => RatchetHolds(p.ratchet, context.baseline)
    /\ p.agent # None => AgentHolds(p.agent, context.agent)

EnforceRuntime ==
    /\ phase = "runtime"
    /\ phase' = IF policy # None => RuntimeAccepts(policy) THEN "passed" ELSE "failed"
    /\ UNCHANGED <<command, context, reloads, searching, registry, results, resolving>>

\* Watch mode, which is entered when the first lint went through: a changed
\* configuration is loaded into a new linter.
Reload ==
    /\ command = "lint"
    /\ phase = "failed" => reloads > 0
    /\ phase \in {"passed", "failed"}
    /\ reloads < MaxReloads
    /\ reloads' = reloads + 1
    /\ phase' = "search"
    /\ dir' = 1
    /\ found' = <<>>
    /\ rules' = Empty
    /\ plugins' = <<>>
    /\ source' = [r \in Builtin |-> "built-in"]
    /\ offered' = [p \in Plugins |-> None]
    /\ enabled' = NoRules
    /\ results' = NoResults
    /\ UNCHANGED <<command, context, resolving>>

----------------------------------------------------------------------------

Step ==
    \/ Look \/ MergeConfig \/ ConfigLoaded \/ SearchFails
    \/ NoPolicyFile \/ FindPolicy \/ Extend \/ PolicyFails \/ Return \/ Enforce
    \/ LoadPlugin \/ PluginFails \/ EnableRules
    \/ Lint \/ EnforceRuntime

Next == Step \/ Reload

Spec == Init /\ [][Next]_vars /\ WF_vars(Step)

----------------------------------------------------------------------------

Phases == {"search", "policy", "extends", "enforce", "plugins", "lint", "runtime",
           "passed", "failed", "valid"}

Outcome == [messages : Seq(Rules), files : Nat]

TypeOK ==
    /\ command \in {"lint", "validate"}
    /\ context \in Contexts
    /\ phase \in Phases
    /\ reloads \in 0..MaxReloads
    /\ dir \in 1..Depth + 1
    /\ found \in Seq(ConfigContents)
    /\ rules \in RuleSettings
    /\ plugins \in Seq(Plugins)
    /\ DOMAIN source \in SUBSET Rules
    /\ source \in [DOMAIN source -> Plugins \cup {"built-in"}]
    /\ offered \in [Plugins -> (SUBSET Rules) \cup {None}]
    /\ DOMAIN enabled \in SUBSET Rules
    /\ enabled \in [DOMAIN enabled -> 1..2]
    /\ results \in Outcome
    /\ content \in [Files -> PolicyContents \cup {None}]
    /\ chain \in Seq(Files)
    /\ todo \in [Files -> Seq(Files)]
    /\ merged \in [Files -> Policies]
    /\ order \in Seq(Files)
    /\ policy \in Policies \cup {None}
    /\ \A i \in 1..Len(chain) : content[chain[i]] # None
    /\ phase = "extends" => chain # <<>>
    /\ phase = "enforce" => policy # None

Visited == {f \in Files : content[f] # None}

\* What a policy file asks of the configuration holds of the rules that are
\* linted with: those it requires are on, and none is below its floor.
RulesHold(p) ==
    /\ p.required \subseteq DOMAIN enabled
    /\ \A r \in DOMAIN rules : p.floor[r] > 0 => r \in DOMAIN enabled /\ enabled[r] >= p.floor[r]

\* The linter has its rules, or validate has said that it would.
Ready == phase \in {"lint", "runtime", "passed", "valid"}

\* A start gets as far as linting, and validate accepts, only if every policy
\* file in the tree of extends has its way with the enabled rules.
EnforcedAtStart == Ready /\ reloads = 0 => \A f \in Visited : RulesHold(content[f].policy)

\* The same of every lint, those of watch mode included.
NeverWeakened == Ready => \A f \in Visited : RulesHold(content[f].policy)

\* A lint passes only if it found nothing of the types that some file of the
\* tree wants covered wholly.
CoveredByAll ==
    phase = "passed" => \A f \in Visited : content[f].policy.coverage \cap Violated = {}

\* The scalars of the agent policy in force are those of the last file that has
\* one: a later entry of extends goes before an earlier one, and the extending
\* file before all of them, at every level. The agents that file trusts are
\* trusted, and none that no file of the tree trusts; whether those of the
\* files before it are is left open: docs/policy.md:138 says that arrays are
\* merged, and the code takes the last agent policy as a whole.
AgentOfLast ==
    policy # None =>
        LET having == {i \in 1..Len(order) : content[order[i]].policy.agent # None}
            last == content[order[CHOOSE i \in having : \A j \in having : j <= i]].policy.agent
        IN IF having = {} THEN policy.agent = None
           ELSE /\ policy.agent # None
                /\ policy.agent.rate = last.rate
                /\ policy.agent.convergence = last.convergence
                /\ last.trusted \subseteq policy.agent.trusted
                /\ policy.agent.trusted
                       \subseteq UNION {content[order[i]].policy.agent.trusted : i \in having}

\* Every known rule has one origin: no plugin replaces a rule of another one
\* or a built-in rule, which a policy may count on.
OneSource ==
    \A r \in DOMAIN source :
        {p \in Plugins : offered[p] # None /\ r \in offered[p]}
            = IF r \in Builtin THEN {} ELSE {source[r]}

\* With it: what a loaded plugin exports is known, as are the built-in rules.
SourceInv ==
    /\ OneSource
    /\ Builtin \subseteq DOMAIN source
    /\ \A p \in Plugins : offered[p] # None => offered[p] \subseteq DOMAIN source

(* What the proofs rest on: at any time, what a visited file asks for is    *)
(* waiting to be merged, is part of what was merged into a file that is     *)
(* being resolved, or is part of the policy.                                *)

Below(p, q) ==
    /\ p.required \subseteq q.required
    /\ \A r \in Rules : p.floor[r] <= q.floor[r]
    /\ p.coverage \subseteq q.coverage

Kept(f) ==
    \/ \E i \in 1..Len(chain) : chain[i] = f
    \/ \E i \in 1..Len(chain) : Below(content[f].policy, merged[chain[i]])
    \/ policy # None /\ Below(content[f].policy, policy)

AllKept == \A f \in Visited : Kept(f)

NothingRead == Visited = {} /\ chain = <<>> /\ policy = None

\* No file is left to be merged.
Settled == chain = <<>> /\ (Visited = {} \/ policy # None)

\* How far each phase has come.
PhaseInv ==
    /\ command = "validate" => reloads = 0 /\ phase \notin {"lint", "runtime", "passed"}
    /\ command = "lint" => phase # "valid"
    /\ phase \in {"policy", "extends", "enforce"} => reloads = 0
    /\ phase \in {"search", "policy"} /\ reloads = 0 => NothingRead
    /\ phase = "plugins" /\ command = "validate" => NothingRead
    /\ phase = "extends" => policy = None
    /\ phase = "enforce" => Settled /\ policy # None
    /\ reloads > 0 => Settled
    /\ Ready \/ phase = "plugins" => Settled
    /\ (Ready \/ phase = "plugins") /\ reloads = 0 /\ policy # None => Accepts(policy, rules)
    /\ phase \in {"lint", "runtime", "passed", "valid"} => enabled = EnabledRules(rules)
    /\ command = "validate" /\ phase \in {"policy", "extends", "enforce"}
         => enabled = EnabledRules(rules)
    /\ phase = "passed" /\ policy # None => policy.coverage \cap Violated = {}

PolicyInv == AllKept /\ PhaseInv

\* The agent policies of the files, in the order of their resolution.
InOrder == [i \in 1..Len(order) |-> content[order[i]].policy.agent]

\* a is the last of the agent policies that seq has at the places S, if any.
LastOf(seq, S, a) ==
    /\ a = None => \A i \in S : seq[i] = None
    /\ a # None => \E k \in S : seq[k] = a /\ \A i \in S : i > k => seq[i] = None

\* The order falls into one piece for each file that is being resolved: from
\* where it was opened to where the next one was.  What it has merged so far
\* has the last agent policy of its piece.
Pieces(cuts) ==
    /\ cuts[1] = 0
    /\ cuts[Len(chain) + 1] = Len(order)
    /\ \A i \in 1..Len(chain) :
         /\ cuts[i] <= cuts[i + 1]
         /\ LastOf(InOrder, cuts[i] + 1..cuts[i + 1], merged[chain[i]].agent)

OpenedOnce == \A i, j \in 1..Len(chain) : chain[i] = chain[j] => i = j

AgentInv ==
    /\ \A i \in 1..Len(order) : order[i] \in Visited
    /\ OpenedOnce
    /\ policy = None => \E cuts \in [1..Len(chain) + 1 -> 0..Len(order)] : Pieces(cuts)
    /\ policy # None => LastOf(InOrder, 1..Len(order), policy.agent)

\* Every start, every validation and every reload comes to an end, whatever
\* the policy files extend.
Terminates == []<>(phase \in {"passed", "failed", "valid"})

=============================================================================
