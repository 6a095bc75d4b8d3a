-------------------------------- MODULE Rules --------------------------------
(***************************************************************************)
(* What the built-in rules say of one declaration or one node.  A value is *)
(* a sequence of cells; a function is its opening cell, its arguments and  *)
(* a closing cell.  A color function, a timing function and a bare word    *)
(* are one cell each.  Names are in lower case where the code lowers them. *)
(* A report is the sequence of the fixes it offers, empty or of length 1.  *)
(***************************************************************************)
EXTENDS Integers, SequencesExt

CONSTANTS
  Tokens,          \* the flattened tokens, as records
  Strict,          \* the option strictReference
  Base,            \* the option base of design-token/spacing
  Units,           \* the option units
  IconFor,         \* substitutions of icon-usage, by tag name
  InsteadOf,       \* substitutions of component-usage, by tag name
  Packages,        \* the option packages
  Components,      \* the option components
  Origins,         \* the option importOrigins
  Variants,        \* the allowed variants, by component
  HasProgram,      \* TRUE: a type checker resolves the tag names
  Colors,          \* external: the names that spell a color
  Easings,         \* external: the names that spell a timing function
  Pascal, Dashed,  \* tag names with a capital first letter, or a dash
  Dotted,          \* dotted tag names, as records
  Prefixed,        \* Prefixed[n]: the name n behind the required prefix
  HasPrefix        \* the tag names that start with their prefix

ASSUME BaseAssumption == Base \in Nat \ {0}

Num(n, u) == [w |-> "num", n |-> n, u |-> u]
Name(s) == [w |-> "name", s |-> s]
Open(f) == [w |-> "fn", s |-> f]
Close == [w |-> "end"]
Comma == [w |-> "comma"]
Cell == [w : {"num"}, n : Int, u : STRING] \cup [w : {"name", "fn"}, s : STRING]
        \cup {Open("var"), Close, Comma}
Value == Seq(Cell)

\* What a line of a text holds.
Items ==
  [kind : {"declaration"}, prop : STRING, value : Value]
  \cup [kind : {"entry"}, place : STRING, prop : STRING, form : STRING, value : Value]
  \cup [kind : {"string"}, place : STRING, value : Value]
  \cup {t \in [kind : {"tag"}, form : STRING, value : Value, mate : Nat,
                attrs : SUBSET STRING, variant : STRING] : t.value # <<>> /\ IsFiniteSet(t.attrs)}
  \cup [kind : {"import"}, form : STRING, local : STRING, imported : STRING,
        from : STRING, value : {<<>>}]
  \cup [kind : {"local"}, name : STRING, value : {<<>>}]
  \cup [kind : {"blank", "broken"}, value : {<<>>}]

\* The flattened tokens in their order, each with a value.
ASSUME TokensAssumption ==
  /\ IsFiniteSet(Tokens)
  /\ Tokens \subseteq [rank : 1..Cardinality(Tokens), type : STRING, group : STRING,
                       path : STRING, var : STRING, value : Value \ {<<>>},
                       deprecated : BOOLEAN, supersededBy : STRING]
ASSUME OptionsAssumption ==
  /\ IconFor \in [DOMAIN IconFor -> STRING]
  /\ InsteadOf \in [DOMAIN InsteadOf -> STRING]
  /\ Prefixed \in [Pascal \cup Dashed -> STRING]
VarOf(name) == <<Open("var"), Name(name), Close>>

When(test, x) == IF test THEN <<x>> ELSE <<>>
NoFix == <<>>
FixBy(from, to, with) == <<[from |-> from, to |-> to, with |-> with]>>

Is(c, kind) == c.w = kind
Depth(v, i) == Cardinality({j \in 1..(i - 1) : Is(v[j], "fn")})
               - Cardinality({j \in 1..(i - 1) : Is(v[j], "end")})
Top(v, i) == Depth(v, i) = 0
TopLength(c) == Is(c, "num") /\ c.u \in Units

TokensOf(type) == {t \in Tokens : t.type = type}
InGroup(type, group) == {t \in TokensOf(type) : t.group = group}
Single(t) == Len(t.value) = 1 /\ Is(t.value[1], "num")
Numbers(type, group) == {t.value[1].n : t \in {s \in InGroup(type, group) : Single(s)}}
Values(type, group) == {t.value : t \in InGroup(type, group)}

(* What each rule allows, read off the tokens when the rule is created. *)
Spacings == Numbers("dimension", "spacing")
Widths == Numbers("dimension", "borderWidths")
Radii == Numbers("dimension", "radius")
Blurs == Numbers("dimension", "blurs")
Millis(c) == IF c.u = "s" THEN 1000 * c.n ELSE c.n
Durations == {Millis(t.value[1]) : t \in
               {s \in InGroup("duration", "durations") :
                  Single(s) /\ s.value[1].u \in {"s", "ms"}}}
Pixels(c) == IF c.u = "px" THEN c.n ELSE 16 * c.n
Sizes(group) == {Pixels(t.value[1]) : t \in
                   {s \in InGroup("dimension", group) : Single(s)}}
FontSizes == Sizes("fontSizes")
LineHeights == Numbers("number", "lineHeights")
LetterSpacings == Sizes("letterSpacings")
LetterSpacingValues == Values("dimension", "letterSpacings")
Opacities == Numbers("number", "opacity")
Layers == Numbers("number", "zIndex")
Weights == Values("fontWeight", "fontWeights")
Fonts == Values("fontFamily", "fonts")
WithoutZeroUnits(v) ==
  [i \in DOMAIN v |-> IF Is(v[i], "num") /\ v[i].n = 0 THEN Num(0, "") ELSE v[i]]
Shadows == {WithoutZeroUnits(v) : v \in Values("shadow", "shadows")}
Animations == Values("string", "animations")
Outlines == Values("string", "outlines")
Curves == {t.value : t \in TokensOf("cubicBezier")}
ColorValues == {t.value[1] : t \in {s \in TokensOf("color") : Len(s.value) = 1}}
BorderColors == ColorValues

(* Dimension rules: the first bad length of the value is the report. *)
OffScale(v, scale) ==
  \E i \in DOMAIN v : Top(v, i) /\ TopLength(v[i]) /\ v[i].n \notin scale

SpacingAllowed(n) ==
  ~Strict /\ (n \in Spacings \/ n % Base = 0)
Spacing(d) == \E i \in DOMAIN d.value :
  (Strict \/ Top(d.value, i)) /\ TopLength(d.value[i]) /\ ~SpacingAllowed(d.value[i].n)
BorderWidth(d) == d.prop = "border-width"
                  /\ OffScale(d.value, Widths)
BorderRadius(d) == d.prop = "border-radius"
                   /\ OffScale(d.value, Radii)
Blur(d) == d.prop \in {"filter", "backdrop-filter"} /\ \E i \in DOMAIN d.value :
  /\ i > 1 /\ d.value[i - 1] = Open("blur") /\ TopLength(d.value[i])
  /\ d.value[i].n \notin Blurs

Duration(d) ==
  /\ d.prop \in {"transition", "transition-duration", "animation", "animation-duration"}
  /\ \E i \in DOMAIN d.value : /\ Top(d.value, i) /\ Is(d.value[i], "num")
                               /\ d.value[i].u \in {"s", "ms"}
                               /\ Millis(d.value[i]) \notin Durations

(* Rules that read the value as one number. *)
OneNumber(v) == Len(v) = 1 /\ Is(v[1], "num")
FontSize(d) == /\ d.prop = "font-size" /\ OneNumber(d.value)
               /\ d.value[1].u \in {"px", "rem", "em"} /\ d.value[1].n >= 0
               /\ Pixels(d.value[1]) \notin FontSizes

\* Line heights in hundredths; a negative length is no number.
Hundredths(c) == CASE c.u = "%" -> c.n
                   [] c.u \in {"", "px"} -> 100 * c.n
                   [] OTHER -> 1600 * c.n
LineHeight(d) ==
  /\ d.prop = "line-height" /\ OneNumber(d.value)
  /\ d.value[1].u = "" \/ (d.value[1].u \in {"px", "rem", "em", "%"} /\ d.value[1].n >= 0)
  /\ Hundredths(d.value[1]) \notin {100 * n : n \in LineHeights}
LetterSpacing(d) ==
  /\ d.prop = "letter-spacing"
  /\ IF OneNumber(d.value) /\ (d.value[1].u \in {"px", "rem", "em"}
                               \/ d.value[1] = Num(0, ""))
     THEN Pixels(d.value[1]) \notin LetterSpacings
     ELSE d.value \notin LetterSpacingValues
Opacity(d) == d.prop = "opacity" /\ OneNumber(d.value)
              /\ d.value[1].n \notin Opacities
ZIndex(d) == d.prop = "z-index" /\ OneNumber(d.value) /\ d.value[1].u = ""
             /\ d.value[1].n \notin Layers
FontWeight(d) == d.prop = "font-weight"
                 /\ d.value \notin Weights

(* Rules that compare the value, or each part between commas, as a text. *)
IsPart(v, i, j) ==
  LET comma(k) == Is(v[k], "comma") /\ Top(v, k)
  IN  /\ i <= j /\ \A k \in i..j : ~comma(k)
      /\ i = 1 \/ comma(i - 1)
      /\ j = Len(v) \/ comma(j + 1)
Parts(v) == {SubSeq(v, p[1], p[2]) :
               p \in {q \in (DOMAIN v) \X (DOMAIN v) : IsPart(v, q[1], q[2])}}
OneFunction(v) == Is(v[1], "fn") /\ \A i \in 2..Len(v) : ~Top(v, i)
FontFamily(d) == d.prop = "font-family"
                 /\ \E p \in Parts(d.value) : p \notin Fonts
BoxShadow(d) == d.prop = "box-shadow" /\ \E p \in Parts(WithoutZeroUnits(d.value)) :
  ~OneFunction(p) /\ p \notin Shadows
Animation(d) == /\ d.prop = "animation"
                /\ ~\E i \in DOMAIN d.value : d.value[i] = Open("var")
                /\ d.value \notin Animations
Outline(d) == d.prop = "outline" /\ d.value \notin Outlines

SpacingProps == {"margin", "padding", "gap", "width"}
HardcodedSpacing(d) ==
  /\ d.prop \in SpacingProps /\ OneNumber(d.value) /\ d.value[1].n # 0
  /\ d.value[1].u \in {"", "px", "rem", "em", "vh", "vw", "%"}

(* Rules with a report for each offending word. *)
RawColor(v, i) == Is(v[i], "name") /\ v[i].s \in Colors
                  /\ (v[i] \notin ColorValues \/ Strict)
\* Of the tokens of one value the last in the list names the variable.
LastOf(ts) == CHOOSE t \in ts : \A u \in ts : u.rank <= t.rank
ColorFix(v, i) ==
  LET same == {t \in TokensOf("color") : t.value = <<v[i]>>}
  IN  IF same = {} THEN NoFix ELSE FixBy(i, i, VarOf(LastOf(same).var))
EachOf(v, Bad(_), fix(_)) == FlattenSeq([i \in DOMAIN v |-> When(Bad(i), fix(i))])
ColorReports(v) == EachOf(v, LAMBDA i : RawColor(v, i), LAMBDA i : ColorFix(v, i))
BorderColorReports(d) ==
  IF d.prop # "border-color" THEN <<>>
  ELSE EachOf(d.value, LAMBDA i : /\ Is(d.value[i], "name") /\ d.value[i].s \in Colors
                                  /\ d.value[i] \notin BorderColors, LAMBDA i : NoFix)
EasingReports(d) ==
  IF d.prop \notin {"animation-timing-function", "transition-timing-function", "animation"}
  THEN <<>>
  ELSE EachOf(d.value, LAMBDA i : /\ Is(d.value[i], "name") /\ d.value[i].s \in Easings
                                  /\ <<d.value[i]>> \notin Curves,
              LAMBDA i : NoFix)
ProvenanceReports(d) ==
  EachOf(d.value, LAMBDA i : /\ i > 1 /\ d.value[i - 1] = Open("var") /\ Is(d.value[i], "name")
                             /\ d.value[i].s \notin {t.var : t \in Tokens},
         LAMBDA i : NoFix)

(* Rules about tokens themselves. *)
CompositeTypes == <<"boxShadow", "border", "typography", "transition">>
TypeRank(t) == CHOOSE k \in DOMAIN CompositeTypes : CompositeTypes[k] = t.type
Composite(v) == {t \in Tokens : t.value = v /\ \E k \in DOMAIN CompositeTypes : CompositeTypes[k] = t.type}
LastComposite(v) == CHOOSE t \in Composite(v) : \A u \in Composite(v) :
  TypeRank(u) < TypeRank(t) \/ (TypeRank(u) = TypeRank(t) /\ u.rank <= t.rank)
CompositeReports(d) ==
  IF Composite(d.value) = {} THEN <<>>
  ELSE <<FixBy(1, Len(d.value), VarOf(LastComposite(d.value).var))>>

Deprecated(name) == {t \in Tokens : t.deprecated /\ t.path = name}
\* Faulty variant: the token this one itself supersedes is preferred.
FaultySuggestion(t) ==
  IF \E o \in Tokens : o.supersededBy = t.path
  THEN (CHOOSE o \in Tokens : o.supersededBy = t.path).path ELSE t.supersededBy
Suggestion(t) == t.supersededBy
DeprecatedReports(v, fixable) ==
  IF Len(v) # 1 \/ ~Is(v[1], "name") \/ Deprecated(v[1].s) = {} THEN <<>>
  ELSE LET s == Suggestion(LastOf(Deprecated(v[1].s)))
       IN  <<IF fixable /\ s # "" THEN FixBy(1, 1, <<Name(s)>>) ELSE NoFix>>

(***************************************************************************)
(* Nodes.  A style value is an entry of a style object, a tag an opening,  *)
(* self-closing or closing element; "seen" are the imports visited before  *)
(* the node, "scope" the names the source file imports or declares.        *)
(***************************************************************************)
Number(e) == IF e.form = "minus" THEN -e.value[1].n ELSE e.value[1].n
Digits(e) == e.form \in {"number", "minus"}
Template(e) == e.form = "template" /\ OneNumber(e.value)

\* The sign of a negative number is a node of its own, which only some
\* rules read; the others see the literal behind it.
SpacingStyle(e) == (Digits(e) \/ Template(e)) /\ ~SpacingAllowed(Number(e))
BorderWidthStyle(e) == (Digits(e) \/ Template(e)) /\ Number(e) \notin Widths
LineHeightStyle(e) ==
  e.prop = "line-height" /\ \/ Digits(e) /\ Number(e) \notin LineHeights
                            \/ Template(e) /\ LineHeight(e)
BorderRadiusStyle(e) == Digits(e) /\ e.value[1].n \notin Radii
DurationStyle(e) == Digits(e) /\ e.value[1].n \notin Durations
OpacityStyle(e) == Digits(e) /\ e.value[1].n \notin Opacities
FontWeightStyle(e) == Digits(e) /\ <<e.value[1]>> \notin Weights
LetterSpacingStyle(e) == Digits(e) /\ e.value[1].n \notin LetterSpacings
ZIndexStyle(e) == Digits(e) /\ e.prop = "z-index" /\ e.value[1].n \notin Layers
HardcodedStyle(e) ==
  /\ e.form \in {"string", "number"} /\ e.place # "text" /\ e.prop \in SpacingProps
  /\ ~(e.value # <<>> /\ Is(Head(e.value), "num") /\ Head(e.value).n = 0)

RawStyleEntry(e) ==
  /\ e.place = "attribute"
  /\ \/ /\ e.form = "string" /\ e.value # <<>> /\ Head(e.value) # Open("var")
        /\ e.value \notin {<<Name("inherit")>>, <<Name("initial")>>}
     \/ e.form = "number" /\ e.value[1].n # 0

IsElement(t) == t.form \in {"open", "self"}
Tag(t) == t.value[1].s
Component(n) == n \in Pascal \cup Dashed
Root(n) == IF \E d \in Dotted : d.name = n THEN (CHOOSE d \in Dotted : d.name = n).root ELSE n
Member(n, i) == IF n \in {d.name : d \in Dotted}
                THEN (CHOOSE d \in Dotted : d.name = n).member ELSE i.imported
Bound(n, imports) == {i \in imports : i.local = n}
Symbol(n, imports) ==
  IF HasProgram /\ Bound(n, imports) # {}
  THEN (CHOOSE i \in Bound(n, imports) : TRUE).imported ELSE n

DesignSystem(n, seen, imports) ==
  LET known == Bound(Root(n), seen)
               \cup (IF HasProgram THEN Bound(Root(n), imports) ELSE {})
  IN  IF known = {}
      THEN (IF n \in {d.name : d \in Dotted} THEN Member(n, {}) ELSE n) \in Components
      ELSE LET i == CHOOSE i \in known : TRUE
           IN  /\ Packages = {} \/ i.from \in Packages
               /\ Components = {} \/ Member(n, i) \in Components
MissingPrefix(t, seen, imports) ==
  LET n == Tag(t)
  IN  /\ Packages \cup Components # {}
      /\ Component(n) \/ n \in {d.name : d \in Dotted}
      /\ DesignSystem(n, seen, imports)
      /\ n \notin HasPrefix
PrefixFix(t) == IF Tag(t) \in {d.name : d \in Dotted} THEN NoFix
                ELSE FixBy(1, 1, <<Name(Prefixed[Tag(t)])>>)

RenameFix(to, scope) == IF to \in scope THEN FixBy(1, 1, <<Name(to)>>) ELSE NoFix
\* Faulty variant: closing elements are not looked at.
FaultyRawIcon(t) == IsElement(t) /\ Tag(t) \in DOMAIN IconFor /\ (Tag(t) = "svg" \/ Component(Tag(t)))
RawIcon(t) == Tag(t) \in DOMAIN IconFor /\ (Tag(t) = "svg" \/ Component(Tag(t)))
Replacement(t, imports) ==
  LET s == Symbol(Tag(t), imports)
  IN  IF s \in DOMAIN InsteadOf THEN InsteadOf[s]
      ELSE IF Tag(t) \in DOMAIN InsteadOf THEN InsteadOf[Tag(t)] ELSE ""

FromOrigin(t, seen, imports) ==
  \E i \in Bound(Root(Tag(t)), IF HasProgram THEN imports ELSE seen) : i.from \in Origins
InlineStyles(t, seen, imports) ==
  /\ IsElement(t) /\ Component(Tag(t))
  /\ {Tag(t), Symbol(Tag(t), imports)} \cap Components # {} \/ FromOrigin(t, seen, imports)
BadVariant(t, imports) ==
  LET s == Symbol(Tag(t), imports)
      of == IF s \in DOMAIN Variants THEN s ELSE Tag(t)
  IN  IsElement(t) /\ of \in DOMAIN Variants /\ t.variant \notin Variants[of] \cup {""}
WrongPath(i) ==
  LET n == IF HasProgram \/ i.form = "named" THEN i.imported ELSE i.local
  IN  i.form # "namespace" /\ i.from \notin Packages /\ n \in Components

(***************************************************************************)
(* The rules as the linter calls them.                                     *)
(***************************************************************************)
OneIf(bad) == When(bad, NoFix)

\* A rule without the tokens or options it needs reports that, and no more.
Unconfigured(r) ==
  CASE r = "spacing" -> Spacings = {}
    [] r = "border-width" -> Widths = {}
    [] r = "border-radius" -> Radii = {}
    [] r = "blur" -> Blurs = {}
    [] r = "duration" -> Durations = {}
    [] r = "font-size" -> FontSizes = {}
    [] r = "line-height" -> LineHeights = {}
    [] r = "letter-spacing" -> LetterSpacings = {}
    [] r = "opacity" -> Opacities = {}
    [] r = "z-index" -> Layers = {}
    [] r = "font-weight" -> Weights = {}
    [] r = "font-family" -> Fonts = {}
    [] r = "box-shadow" -> Shadows = {}
    [] r = "animation" -> Animations = {}
    [] r = "outline" -> Outlines = {}
    [] r = "easing" -> Curves = {}
    [] r = "colors" -> ColorValues = {}
    [] r = "border-color" -> BorderColors = {}
    [] r = "no-inline-styles" -> Components \cup Origins = {}
    [] OTHER -> FALSE

OnDeclaration(r, d) ==
  CASE r = "spacing" -> OneIf(Spacing(d))
    [] r = "border-width" -> OneIf(BorderWidth(d))
    [] r = "border-radius" -> OneIf(BorderRadius(d))
    [] r = "blur" -> OneIf(Blur(d))
    [] r = "duration" -> OneIf(Duration(d))
    [] r = "font-size" -> OneIf(FontSize(d))
    [] r = "line-height" -> OneIf(LineHeight(d))
    [] r = "letter-spacing" -> OneIf(LetterSpacing(d))
    [] r = "opacity" -> OneIf(Opacity(d))
    [] r = "z-index" -> OneIf(ZIndex(d))
    [] r = "font-weight" -> OneIf(FontWeight(d))
    [] r = "font-family" -> OneIf(FontFamily(d))
    [] r = "box-shadow" -> OneIf(BoxShadow(d))
    [] r = "animation" -> OneIf(Animation(d))
    [] r = "outline" -> OneIf(Outline(d))
    [] r = "easing" -> EasingReports(d)
    [] r = "border-color" -> BorderColorReports(d)
    [] r = "colors" -> ColorReports(d.value)
    [] r = "css-var-provenance" -> ProvenanceReports(d)
    [] r = "composite-equivalence" -> CompositeReports(d)
    [] r = "deprecation" -> DeprecatedReports(d.value, FALSE)
    [] r = "no-hardcoded-spacing" -> OneIf(HardcodedSpacing(d))
    [] r = "plugin" -> <<NoFix>>
    [] OTHER -> <<>>

OnEntry(r, e) ==
  CASE r = "colors" -> IF Digits(e) THEN <<>> ELSE ColorReports(e.value)
    [] r = "deprecation" -> IF e.form = "string" THEN DeprecatedReports(e.value, TRUE) ELSE <<>>
    [] r = "spacing" -> OneIf(SpacingStyle(e))
    [] r = "border-width" -> OneIf(BorderWidthStyle(e))
    [] r = "line-height" -> OneIf(LineHeightStyle(e))
    [] r = "border-radius" -> OneIf(BorderRadiusStyle(e))
    [] r = "duration" -> OneIf(DurationStyle(e))
    [] r = "opacity" -> OneIf(OpacityStyle(e))
    [] r = "font-weight" -> OneIf(FontWeightStyle(e))
    [] r = "letter-spacing" -> OneIf(LetterSpacingStyle(e))
    [] r = "z-index" -> OneIf(ZIndexStyle(e))
    [] r = "no-hardcoded-spacing" -> OneIf(HardcodedStyle(e))
    [] OTHER -> <<>>

OnTag(r, t, seen, imports, scope) ==
  CASE r = "component-prefix" -> IF MissingPrefix(t, seen, imports) THEN <<PrefixFix(t)>> ELSE <<>>
    [] r = "icon-usage" -> IF RawIcon(t) THEN <<RenameFix(IconFor[Tag(t)], scope)>> ELSE <<>>
    [] r = "component-usage" ->
         IF ~IsElement(t) \/ Replacement(t, imports) = "" THEN <<>>
         ELSE <<IF t.form = "self" THEN RenameFix(Replacement(t, imports), scope) ELSE NoFix>>
    [] r = "no-inline-styles" ->
         IF InlineStyles(t, seen, imports) THEN [a \in 1..Cardinality(t.attrs) |-> NoFix] ELSE <<>>
    [] r = "variant-prop" -> OneIf(BadVariant(t, imports))
    [] r = "plugin" -> <<NoFix>>
    [] OTHER -> <<>>

\* A string literal of the code may name a deprecated token; a string in an
\* attribute other than style may not.
OnNode(r, as, item, seen, imports, scope) ==
  CASE as = "entry" -> OnEntry(r, item)
    [] as = "attribute" -> OneIf(r = "jsx-style-values" /\ RawStyleEntry(item))
    [] as = "string" -> IF r = "deprecation" /\ item.place = "code"
                        THEN DeprecatedReports(item.value, TRUE) ELSE <<>>
    [] as = "tag" -> OnTag(r, item, seen, imports, scope)
    [] as = "import" -> OneIf(r = "import-path" /\ WrongPath(item))
    [] OTHER -> <<>>
=============================================================================
