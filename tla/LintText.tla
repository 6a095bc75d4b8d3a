------------------------------ MODULE LintText -------------------------------
(***************************************************************************)
(* One text linted, fixed and linted again: the hooks of the rules are     *)
(* created, the parser visits the declarations and nodes of the text in    *)
(* its order and dispatches each to the listeners, the comments suppress   *)
(* messages by line, and the fixes of those left are applied.              *)
(*                                                                         *)
(* A text is a sequence of lines, each with at most one item and one       *)
(* directive.  A document divides its lines into areas: the blocks of a    *)
(* Vue or Svelte file, the template literals of a TypeScript one.  Offsets *)
(* are counted in cells, the same number of them on every line.            *)
(***************************************************************************)
EXTENDS Rules

CONSTANTS
  Jobs,       \* documents, each with the rules it is linted under
  MayThrow,   \* the rules whose hooks may throw
  Width,      \* cells of a line, in offsets
  MaxPasses   \* a bound on the passes: the longest chain of replacements

ASSUME WidthAssumption == Width \in Nat \ {0}

\* A line, its item and its directive; the lines an area has.
Line == {l \in [item : Items,
                dir : [d : {"none", "next", "line", "disable", "enable"}, rules : SUBSET STRING]] :
           Len(l.item.value) < Width}
Area == {a \in [kind : STRING, first : Nat \ {0}, last : Nat, lang : STRING] : a.first <= a.last}

\* A style sheet and a module are divided into areas one after the other;
\* an area has what its kind of code can have.
Divided(lines, areas) ==
  /\ areas # <<>> /\ areas[1].first = 1 /\ areas[Len(areas)].last = Len(lines)
  /\ \A k \in 2..Len(areas) : areas[k].first = areas[k - 1].last + 1
Suits(item, type, area) ==
  IF type = "css" \/ area = "literal" THEN item.kind \in {"declaration", "blank", "broken"}
  ELSE IF area = "object"
  THEN item.kind = "blank" \/ (item.kind = "entry" /\ item.place \in {"attribute", "text"})
  ELSE item.kind # "declaration"

\* Each rule is enabled once, and none has the name of an error.
ASSUME JobsAssumption == \A j \in Jobs :
  /\ j \in [type : STRING, lines : Seq(Line), areas : Seq(Area), rules : Seq(STRING)]
  /\ \A a \in Range(j.areas) : a.last <= Len(j.lines)
  /\ IsInjective(j.rules) /\ Range(j.rules) \cap {"parse-error", "runtime-error"} = {}
  /\ j.type \in {"css", "ts"} =>
       /\ Divided(j.lines, j.areas)
       /\ \A a \in Range(j.areas) : \A i \in a.first..a.last : Suits(j.lines[i].item, j.type, a.kind)

VARIABLES
  job,        \* the document and the rules, the same in every pass
  text,       \* the lines of the document
  phase,      \* "create", "visit", "fix"; then "settled" or "spoiled"
  listeners,  \* the rules with a listener, in order
  due,        \* the rules still to create; then the visits to dispatch
  seen,       \* imports visited: the maps that two of the rules keep
  failed,     \* failedHooks: <<rule, hook>>
  messages,   \* the messages of the pass
  references, \* token references the parser collects
  uncreated,  \* history: the rules whose create threw
  passes      \* history: how often fixes were applied

vars == <<job, text, phase, listeners, due, seen, failed, messages, references, uncreated, passes>>

Lines == DOMAIN text
Item(i) == text[i].item

(***************************************************************************)
(* The parsers.  A visit says which hook it is for, under which line the   *)
(* item is reported, and at which line the offsets of its fixes fall; 0    *)
(* stands for a declaration without an offset.                             *)
(***************************************************************************)
Visit(hook, as, i, line, off) ==
  [hook |-> hook, as |-> as, item |-> Item(i), line |-> line, off |-> off]
Declare(i, line, off) == Visit("onCSSDeclaration", "declaration", i, line, off)
Node(i, line) == Visit("onNode", Item(i).kind, i, line, line)
ParseError(line) ==
  [hook |-> "error", as |-> "error", item |-> [kind |-> "blank", value |-> <<>>],
   line |-> line, off |-> 0]

Each(s, Op(_)) == [k \in DOMAIN s |-> Op(s[k])]
Keep(s, Test(_)) == FlattenSeq(Each(s, LAMBDA x : When(Test(x), x)))
PerLine(a, Op(_)) == FlattenSeq([k \in 1..(a.last - a.first + 1) |-> Op(a.first + k - 1)])
PerArea(Op(_)) == FlattenSeq(Each(job.areas, Op))
InAreas(kind, Op(_)) == PerArea(LAMBDA a : IF a.kind = kind THEN Op(a) ELSE <<>>)
HasArea(kind) == \E k \in DOMAIN job.areas : job.areas[k].kind = kind
IsDecl(i) == Item(i).kind = "declaration"

\* parseCSS: all the declarations of a text, or one error and none of them.
\* above lines are not counted by line numbers, before ones not by offsets.
ParseCSS(a, above, before) ==
  IF a.lang = "sass" THEN <<ParseError(a.first - above)>>
  ELSE IF \E i \in a.first..a.last : Item(i).kind = "broken"
  THEN <<ParseError((CHOOSE i \in a.first..a.last :
           /\ Item(i).kind = "broken"
           /\ \A j \in a.first..(i - 1) : Item(j).kind # "broken") - above)>>
  ELSE PerLine(a, LAMBDA i : When(IsDecl(i), Declare(i, i - above, i - before)))

VisitCSS == PerArea(LAMBDA a : ParseCSS(a, 0, 0))

\* A style object of JSX: its literal entries become declarations, which
\* have no offset; strings, and the numbers of five properties, are
\* consumed and not visited as nodes.  Its attribute is visited before.
Literal(e) == e.form \in {"string", "number", "minus"}
ConsumedProps == {"font-weight", "letter-spacing", "line-height", "opacity", "z-index"}
Consumed(e) == Literal(e) /\ (e.form = "string" \/ e.prop \in ConsumedProps)
IsEntry(i) == Item(i).kind = "entry"
OfAttribute(i) == IsEntry(i) /\ Item(i).place \in {"attribute", "text"}
AsAttribute(i, line) == Visit("onNode", "attribute", i, line, line)
StyleObject(a) ==
  PerLine(a, LAMBDA i : When(OfAttribute(i), AsAttribute(i, i)))
  \o PerLine(a, LAMBDA i : When(OfAttribute(i) /\ Literal(Item(i)), Declare(i, i, 0)))
  \o PerLine(a, LAMBDA i : When(OfAttribute(i) /\ ~Consumed(Item(i)), Node(i, i)))

\* The offsets of embedded CSS are those of the template's own text, and its
\* lines, added to a start that counts from 0, are those before.
Literals(a) == ParseCSS(a, 1, a.first - 1)
Nodes(a) == PerLine(a, LAMBDA i :
  When(Item(i).kind \in {"entry", "string", "tag", "import"}, Node(i, i)))
VisitTS == PerArea(LAMBDA a : CASE a.kind = "literal" -> Literals(a)
                                [] a.kind = "object" -> StyleObject(a)
                                [] OTHER -> Nodes(a))

\* Script and template of a component are parsed as one text: the template
\* starts two lines below the last line feed of the script.
NodesOf(a, shift) == PerLine(a, LAMBDA i :
  CASE Item(i).kind \in {"string", "tag", "import"} -> <<Node(i, i - a.first + shift)>>
    [] IsEntry(i) -> <<AsAttribute(i, i - a.first + shift), Node(i, i - a.first + shift)>>
    [] OTHER -> <<>>)
Static(i) == OfAttribute(i) /\ Item(i).form # "dynamic"
StylesOf(a) == PerLine(a, LAMBDA i : When(Static(i), Declare(i, i, 0)))
TemplateStyles == InAreas("template", StylesOf)
Combined(height, script) ==
  script \o InAreas("template", LAMBDA a : NodesOf(a, height + 2))
Scripts ==
  IF HasArea("script")
  THEN InAreas("script", LAMBDA a : Combined(a.last - a.first, NodesOf(a, 1)))
  ELSE Combined(0, <<>>)
StyleBlocks == InAreas("style", LAMBDA a : ParseCSS(a, a.first - 1, a.first - 1))

\* Svelte takes the style attributes out of the template before it is
\* parsed as code, Vue turns its bindings into attributes of the code.
WithoutEntries(visits) == Keep(visits, LAMBDA v : v.as \notin {"entry", "attribute"})
VisitVue == TemplateStyles \o Scripts \o StyleBlocks
\* An entry with an expression that is not a literal is left out.
SvelteStyles == TemplateStyles
VisitSvelte == WithoutEntries(Scripts) \o SvelteStyles \o StyleBlocks

Visits ==
  CASE job.type = "css" -> VisitCSS
    [] job.type = "ts" -> VisitTS
    [] job.type = "vue" -> VisitVue
    [] job.type = "svelte" -> VisitSvelte
    [] OTHER -> <<ParseError(1)>>

(***************************************************************************)
(* The messages.                                                           *)
(***************************************************************************)
Imports == {Item(i) : i \in {j \in Lines : Item(j).kind = "import"}}
Scope == {i.local : i \in Imports}
         \cup {Item(i).name : i \in {j \in Lines : Item(j).kind = "local"}}
Reports(r, v) ==
  IF Unconfigured(r) THEN <<>>
  ELSE IF v.hook = "onNode" THEN OnNode(r, v.as, v.item, seen, Imports, Scope)
  ELSE OnDeclaration(r, v.item)

Message(rule, of, line, fix) == [rule |-> rule, of |-> of, line |-> line, fix |-> fix]
\* Faulty variant: columns count from 0.
FaultyPlace(line, cell) == line * Width + cell - 1
Place(line, cell) == line * Width + cell
FixAt(off, f) ==
  IF off = 0 \/ f = NoFix THEN NoFix
  ELSE <<[start |-> Place(off, f[1].from), end |-> Place(off, f[1].to) + 1,
          with |-> f[1].with]>>
Reported(r, v) == Each(Reports(r, v), LAMBDA f : Message(r, r, v.line, FixAt(v.off, f)))
RuntimeError(r, line) == Message("runtime-error", r, line, NoFix)

\* dispatch: every listener that has not failed in this hook; one that
\* throws may have reported before it did.
Dispatched(v, throwing, late) ==
  FlattenSeq(Each(listeners, LAMBDA r :
    IF <<r, v.hook>> \in failed THEN <<>>
    ELSE IF r \in throwing
    THEN (IF late THEN Reported(r, v) ELSE <<>>) \o <<RuntimeError(r, v.line)>>
    ELSE Reported(r, v)))

Mentions(v) == {v[i].s : i \in {j \in DOMAIN v : j > 1 /\ v[j - 1] = Open("var")}}
VisitReferences(visits) ==
  UNION {{<<n, visits[k].line>> : n \in Mentions(visits[k].item.value)} :
           k \in {j \in DOMAIN visits : visits[j].as \in {"declaration", "entry", "string"}}}
InTemplate(i) == \E a \in Range(job.areas) : a.kind = "template" /\ i \in a.first..a.last
\* The text of a Vue template is searched as a whole, on line 1.
TemplateReferences ==
  IF job.type # "vue" THEN {}
  ELSE UNION {{<<n, 1>> : n \in Mentions(Item(i).value)} : i \in {j \in Lines : InTemplate(j)}}
Referenced(visits) == VisitReferences(visits) \cup TemplateReferences

(***************************************************************************)
(* The directives.                                                         *)
(***************************************************************************)
Directive(i) == IF i \in Lines THEN text[i].dir ELSE [d |-> "none", rules |-> {}]
InBlock[i \in Nat] ==
  IF i = 0 THEN {}
  ELSE CASE Directive(i).d = "disable" -> Directive(i).rules
         [] Directive(i).d = "enable" -> {}
         [] OTHER -> InBlock[i - 1]
\* Faulty variant: what the line above says of a line stays all there is.
FaultyDisabled(i) ==
  IF Directive(i - 1).d = "next" THEN Directive(i - 1).rules
  ELSE CASE Directive(i).d = "line" -> Directive(i).rules
         [] Directive(i).d = "none" -> InBlock[i]
         [] OTHER -> {}
\* A line with a directive of its own is not under the block's.
Disabled(i) ==
  (IF Directive(i - 1).d = "next" THEN Directive(i - 1).rules ELSE {})
  \cup CASE Directive(i).d = "line" -> Directive(i).rules
         [] Directive(i).d = "none" -> InBlock[i]
         [] OTHER -> {}
Suppressed(m) == Disabled(m.line) \cap {"*", m.rule} # {}

(***************************************************************************)
(* applyFixes.                                                             *)
(***************************************************************************)
Offered == FlattenSeq(Each(messages, LAMBDA m : m.fix))
\* The sort is stable: fixes of one start keep the order of their messages.
InOrder ==
  LET sorted[n \in 0..Len(Offered)] ==
        IF n = 0 THEN <<>>
        ELSE LET before == sorted[n - 1]
                 next == Offered[n]
             IN  Keep(before, LAMBDA f : f.start <= next.start) \o <<next>>
                 \o Keep(before, LAMBDA f : f.start > next.start)
  IN  sorted[Len(Offered)]
\* Faulty variant: overlapping fixes are all applied.
FaultyTaken(fs) == fs
\* A fix that starts before the end of the last one taken is dropped.
End(fs) == IF fs = <<>> THEN 0 ELSE fs[Len(fs)].end
Taken(fs) ==
  LET taken[n \in 0..Len(fs)] ==
        IF n = 0 THEN <<>>
        ELSE LET before == taken[n - 1]
             IN  before \o When(fs[n].start >= End(before), fs[n])
  IN  taken[Len(fs)]

\* Replaced cells of an item that has them; any other place in the text
\* is spoiled.
Splice(lines, f) ==
  LET row == f.start \div Width
      i == IF row > Len(lines) THEN Len(lines) ELSE row
      from == f.start % Width
      to == (f.end - 1) % Width
      value == lines[i].item.value
  IN  [lines EXCEPT ![i].item =
         IF row = i /\ to <= Len(value)
         THEN [@ EXCEPT !.value = SubSeq(value, 1, from - 1) \o f.with
                                  \o SubSeq(value, to + 1, Len(value))]
         ELSE [kind |-> "spoiled", value |-> <<>>]]
\* From the end, so that no offset moves before it is used.
Applied(lines, fs) ==
  LET applied[n \in 0..Len(fs)] ==
        IF n = 0 THEN lines ELSE Splice(applied[n - 1], fs[Len(fs) + 1 - n])
  IN  applied[Len(fs)]
Fixed == Applied(text, Taken(InOrder))
\* A fix was applied somewhere else, or a line has outgrown its cells (a bound).
Spoiled(lines) == \E i \in DOMAIN lines :
  lines[i].item.kind = "spoiled" \/ Len(lines[i].item.value) >= Width

(***************************************************************************)
(* A pass.                                                                 *)
(***************************************************************************)
Begin ==
  /\ phase' = "create" /\ due' = job'.rules
  /\ listeners' = <<>> /\ seen' = {} /\ failed' = {} /\ messages' = <<>>
  /\ references' = {} /\ uncreated' = {} /\ passes' = passes + 1

Init ==
  /\ job \in Jobs /\ text = job.lines
  /\ phase = "create" /\ due = job.rules
  /\ listeners = <<>> /\ seen = {} /\ failed = {} /\ messages = <<>>
  /\ references = {} /\ uncreated = {} /\ passes = 0

\* buildRuleContexts: the next rule's create returns its listener.
Create ==
  /\ phase = "create" /\ due # <<>>
  /\ due' = Tail(due) /\ listeners' = Append(listeners, Head(due))
  /\ messages' = messages \o When(Unconfigured(Head(due)),
                                   Message(Head(due), Head(due), 1, NoFix))
  /\ UNCHANGED <<job, text, phase, seen, failed, references, uncreated, passes>>

\* ... or it throws: an error of the linter, and no listener.
CreateThrows ==
  /\ phase = "create" /\ due # <<>> /\ Head(due) \in MayThrow
  /\ due' = Tail(due) /\ uncreated' = uncreated \cup {Head(due)}
  /\ messages' = Append(messages, RuntimeError(Head(due), 1))
  /\ UNCHANGED <<job, text, phase, listeners, seen, failed, references, passes>>

\* runParser, up to the first dispatch.
Parse ==
  /\ phase = "create" /\ due = <<>>
  /\ phase' = "visit"
  /\ \E visits \in {Visits} : due' = visits /\ references' = Referenced(visits)
  /\ UNCHANGED <<job, text, listeners, seen, failed, messages, uncreated, passes>>

Dispatch ==
  /\ phase = "visit" /\ due # <<>> /\ Head(due).hook # "error"
  /\ LET v == Head(due)
         able == {r \in Range(listeners) \cap MayThrow : <<r, v.hook>> \notin failed}
     IN  \E throwing \in SUBSET able, late \in BOOLEAN :
           /\ late => throwing # {}
           /\ messages' = messages \o Dispatched(v, throwing, late)
           /\ failed' = failed \cup {<<r, v.hook>> : r \in throwing}
           /\ seen' = IF v.as = "import" THEN seen \cup {v.item} ELSE seen
  /\ due' = Tail(due)
  /\ UNCHANGED <<job, text, phase, listeners, references, uncreated, passes>>

PushParseError ==
  /\ phase = "visit" /\ due # <<>> /\ Head(due).hook = "error"
  /\ messages' = Append(messages, Message("parse-error", "parser", Head(due).line, NoFix))
  /\ due' = Tail(due)
  /\ UNCHANGED <<job, text, phase, listeners, seen, failed, references, uncreated, passes>>

\* filterDisabledMessages; the document is linted.
Filter ==
  /\ phase = "visit" /\ due = <<>>
  /\ messages' = Keep(messages, LAMBDA m : ~Suppressed(m))
  /\ phase' = "fix"
  /\ UNCHANGED <<job, text, listeners, due, seen, failed, references, uncreated, passes>>

\* applyFixes, and the text it made is linted again.
Fix ==
  /\ phase = "fix"
  /\ \E fixed \in {Fixed} :
       /\ fixed # text
       /\ text' = fixed /\ UNCHANGED job
       /\ IF Spoiled(fixed)
          THEN phase' = "spoiled" /\ UNCHANGED <<listeners, due, seen, failed, messages,
                                                 references, uncreated, passes>>
          ELSE Begin

Settle ==
  /\ phase = "fix" /\ text \in {Fixed}
  /\ phase' = "settled"
  /\ UNCHANGED <<job, text, listeners, due, seen, failed, messages, references, uncreated, passes>>

Next == Create \/ CreateThrows \/ Parse \/ Dispatch \/ PushParseError
        \/ Filter \/ Fix \/ Settle

Spec == Init /\ [][Next]_vars

(***************************************************************************)
(* What a pass must hand on, read off the text line by line.               *)
(***************************************************************************)
Plain == job.type \in {"css", "ts"}
InPlace == Plain /\ ~HasArea("literal")
AreaOf(i) == CHOOSE a \in Range(job.areas) : i \in a.first..a.last
Parses(a) == a.lang # "sass" /\ \A j \in a.first..a.last : Item(j).kind # "broken"
Parsed(i) == /\ Item(i).kind \in {"declaration", "entry", "string"}
             /\ IsDecl(i) => Parses(AreaOf(i))
WithoutOffset(fs) == [k \in DOMAIN fs |-> NoFix]
Before(i) == {m \in Imports : \E j \in 1..(i - 1) : Item(j) = m}

ReportsOn(r, i) ==
  LET node(as) == OnNode(r, as, Item(i), Before(i), Imports, Scope)
      inObject == AreaOf(i).kind = "object"
  IN  IF Unconfigured(r) THEN <<>>
      ELSE CASE IsDecl(i) -> IF Parses(AreaOf(i)) THEN OnDeclaration(r, Item(i)) ELSE <<>>
             [] IsEntry(i) ->
                  (IF inObject THEN node("attribute") ELSE <<>>)
                  \o (IF inObject /\ Literal(Item(i))
                      THEN WithoutOffset(OnDeclaration(r, Item(i))) ELSE <<>>)
                  \o (IF inObject /\ Consumed(Item(i)) THEN <<>> ELSE node("entry"))
             [] OTHER -> node(Item(i).kind)

Covers(j, r) == Directive(j).rules \cap {"*", r} # {}
\* The line stands between a comment that disables the rule and the next that
\* enables: troubleshooting.md:98 has a block suppress the rule there.
Enclosed(i, r) ==
  /\ Directive(i).d # "enable"
  /\ \E j \in 1..(i - 1) : /\ Directive(j).d = "disable" /\ Covers(j, r)
                           /\ \A k \in (j + 1)..(i - 1) : Directive(k).d # "enable"
\* The code lets a line with a directive of its own leave the block, and a
\* later disable replace an earlier one.
HiddenBy(i, r) ==
  \/ Directive(i - 1).d = "next" /\ Covers(i - 1, r)
  \/ Directive(i).d = "line" /\ Covers(i, r)
  \/ /\ Directive(i).d = "none"
     /\ \E j \in 1..(i - 1) :
          /\ Directive(j).d = "disable" /\ Covers(j, r)
          /\ \A k \in (j + 1)..(i - 1) : Directive(k).d \notin {"enable", "disable"}

Count(r, i) == Cardinality({k \in DOMAIN messages : /\ messages[k].rule = r
                                                    /\ messages[k].line = i})
Due(r, i) == Len(ReportsOn(r, i)) + (IF Unconfigured(r) /\ i = 1 THEN 1 ELSE 0)
Threw(r) == r \in uncreated \/ \E h \in {"onNode", "onCSSDeclaration"} : <<r, h>> \in failed
ErrorsOf(r) == {k \in DOMAIN messages : messages[k].rule = "runtime-error" /\ messages[k].of = r}

TypeOK ==
  /\ job \in Jobs
  /\ Len(text) = Len(job.lines)
  /\ phase \in {"create", "visit", "fix", "settled", "spoiled"}
  /\ Range(listeners) \subseteq Range(job.rules) \ uncreated
  /\ uncreated \subseteq MayThrow
  /\ failed \subseteq MayThrow \X {"onNode", "onCSSDeclaration"}
  /\ \A k \in DOMAIN messages : messages[k].line \in Nat
  /\ \A m \in Range(Offered) : m.start < m.end /\ m.start % Width # 0

\* Whatever else is enabled, and whichever other rules throw, a rule's
\* messages are its reports on each line that no comment hides; a rule that
\* throws is heard up to there, with one error for each hook that failed.
\* The references are those of the whole text, consumed or not.  A line of a
\* block that the code does not hide, and the documentation does, may have
\* its messages or not.
PassExact ==
  phase \in {"fix", "settled"} /\ InPlace =>
    /\ \A r \in Range(job.rules), i \in Lines :
         IF HiddenBy(i, r) THEN Count(r, i) = 0
         ELSE /\ Count(r, i) <= Due(r, i)
              /\ ~Threw(r) /\ ~Enclosed(i, r) => Count(r, i) = Due(r, i)
    /\ \A r \in Range(job.rules) :
         Cardinality(ErrorsOf(r)) <= Cardinality({h \in failed : h[1] = r})
                                     + Cardinality(uncreated \cap {r})
    /\ references = UNION {{<<n, i>> : n \in Mentions(Item(i).value)} :
                             i \in {j \in Lines : Parsed(j)}}

(***************************************************************************)
(* What the fixes must do.                                                 *)
(***************************************************************************)
FixesOn(i) == UNION {{f[1] : f \in Range(ReportsOn(r, i)) \ {NoFix}} :
                       r \in {q \in Range(listeners) : ~HiddenBy(i, q)}}
Disjoint(f, g) == f.to < g.from \/ g.to < f.from
Chosen(fs, s) ==
  /\ \A f, g \in s : f = g \/ Disjoint(f, g)
  /\ \A f \in fs \ s : \E g \in s : ~Disjoint(f, g)
Replaced(v, s) == FlattenSeq([c \in DOMAIN v |->
  IF \E f \in s : f.from = c THEN (CHOOSE f \in s : f.from = c).with
  ELSE IF \E f \in s : c \in f.from..f.to THEN <<>> ELSE <<v[c]>>])
FixedAsReported ==
  \A i \in Lines : \E s \in SUBSET FixesOn(i) :
    /\ Chosen(FixesOn(i), s)
    /\ text'[i] = [text[i] EXCEPT !.item.value = Replaced(@, s)]

\* Every line of the fixed text is its line with fixes its own items asked
\* for, all of them that do not overlap, and nothing else is touched: where
\* the offsets are those of the file, that is outside embedded CSS.
FixesExact ==
  [][phase = "fix" /\ InPlace /\ failed = {} => FixedAsReported]_vars

\* colors.md and composite-equivalence.md: a fix replaces the matched value,
\* wherever the declaration stands.
FixesMatched ==
  [][phase = "fix" /\ failed = {} => FixedAsReported]_vars

Element(i) == Item(i).kind = "tag" /\ Item(i).form = "open"
Paired(lines) == \A i \in Lines : Element(i) => lines[i].item.value = lines[Item(i).mate].item.value
Split == \E i \in Lines, r \in Range(listeners) :
           Element(i) /\ HiddenBy(i, r) # HiddenBy(Item(i).mate, r)

\* Opening and closing tags are reported and fixed on their own, and still
\* name the same element afterwards, when no comment hides one of the two.
PairsKept ==
  [][phase = "fix" /\ InPlace /\ failed = {} /\ Paired(text) /\ ~Split => Paired(text')]_vars

\* Fixing and linting again comes to an end: a fix may make room for another
\* one, but for no more than a chain of replaced tokens is long.
FixesSettle == InPlace => passes <= MaxPasses
=============================================================================
