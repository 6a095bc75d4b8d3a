----------------------------- MODULE MCLintText ------------------------------
(***************************************************************************)
(* Documents for TLC: style sheets of every rule's values, all the short   *)
(* style sheets over a few lines and directives, elements and their        *)
(* imports, style objects, template literals and components.               *)
(***************************************************************************)
EXTENDS LintText, TLC

Token(rank, type, group, path, value) ==
  [rank |-> rank, type |-> type, group |-> group, path |-> path, value |-> value,
   var |-> "--" \o path, deprecated |-> FALSE, supersededBy |-> ""]
Old(t, next) == [t EXCEPT !.deprecated = TRUE, !.supersededBy = next]

MCTokens == {
  Token(1, "dimension", "spacing", "sp", <<Num(6, "px")>>),
  Token(2, "dimension", "borderWidths", "bw", <<Num(1, "px")>>),
  Token(3, "dimension", "radius", "ra", <<Num(3, "px")>>),
  Token(4, "dimension", "blurs", "bl", <<Num(2, "px")>>),
  Token(5, "dimension", "fontSizes", "fs", <<Num(1, "rem")>>),
  Token(6, "dimension", "letterSpacings", "ls", <<Num(1, "px")>>),
  Token(7, "duration", "durations", "du", <<Num(1, "s")>>),
  Token(8, "number", "lineHeights", "lh", <<Num(2, "")>>),
  Token(9, "number", "opacity", "op", <<Num(1, "")>>),
  Token(10, "number", "zIndex", "z", <<Num(10, "")>>),
  Token(11, "fontWeight", "fontWeights", "fw", <<Num(400, "")>>),
  Token(12, "fontFamily", "fonts", "ff", <<Name("inter")>>),
  Token(13, "shadow", "shadows", "sh", <<Num(0, "px"), Num(1, "px"), Name("red")>>),
  Token(14, "string", "animations", "an", <<Name("spin"), Num(1, "s")>>),
  Token(15, "string", "outlines", "ou", <<Num(1, "px"), Name("solid")>>),
  Token(16, "cubicBezier", "easings", "ea", <<Name("steps(2)")>>),
  Token(17, "color", "colors", "c1", <<Name("red")>>),
  Token(18, "color", "colors", "c2", <<Name("red")>>),
  Token(19, "border", "borders", "b1", <<Num(1, "px"), Name("red")>>),
  Old(Token(20, "color", "colors", "a.old", <<Name("x")>>), "b.old"),
  Old(Token(21, "color", "colors", "b.old", <<Name("y")>>), "c.new"),
  Old(Token(22, "color", "colors", "d.old", <<Name("v")>>), ""),
  Token(23, "color", "colors", "c.new", <<Name("w")>>) }

MCIconFor == "svg" :> "Icon" @@ "Glyph" :> "Icon"
MCInsteadOf == "button" :> "Button" @@ "svg" :> "Picture"
MCVariants == "Button" :> {"main"}
MCDotted == {[name |-> "ns.Icon", root |-> "ns", member |-> "Icon"]}
MCPrefixed == "Icon" :> "DSIcon" @@ "Button" :> "DSButton" @@ "Glyph" :> "DSGlyph"
              @@ "Picture" :> "DSPicture" @@ "DSIcon" :> "DSDSIcon"
              @@ "DSButton" :> "DSDSButton" @@ "DSGlyph" :> "DSDSGlyph"

None == [d |-> "none", rules |-> {}]
Dir(d, rules) == [d |-> d, rules |-> rules]
L(item) == [item |-> item, dir |-> None]
With(item, dir) == [item |-> item, dir |-> dir]
Blank == [kind |-> "blank", value |-> <<>>]
Broken == [kind |-> "broken", value |-> <<>>]
Decl(prop, value) == [kind |-> "declaration", prop |-> prop, value |-> value]
Entry(place, prop, form, value) ==
  [kind |-> "entry", place |-> place, prop |-> prop, form |-> form, value |-> value]
Str(place, name) == [kind |-> "string", place |-> place, value |-> <<Name(name)>>]
Tag3(form, name, mate) == [kind |-> "tag", form |-> form, value |-> <<Name(name)>>,
                           mate |-> mate, attrs |-> {}, variant |-> ""]
Attr(tag, attrs, variant) == [tag EXCEPT !.attrs = attrs, !.variant = variant]
Import(form, local, imported, from) ==
  [kind |-> "import", form |-> form, local |-> local, imported |-> imported,
   from |-> from, value |-> <<>>]
Local(name) == [kind |-> "local", name |-> name, value |-> <<>>]

Part(kind, first, last) == [kind |-> kind, first |-> first, last |-> last, lang |-> "css"]
Job(type, lines, areas, rules) ==
  [type |-> type, lines |-> lines, areas |-> areas, rules |-> rules]
Sheet(lines, rules) == Job("css", lines, <<Part("sheet", 1, Len(lines))>>, rules)

px(n) == Num(n, "px")
TokenRules == <<"spacing", "border-width", "border-radius", "blur", "duration", "font-size",
  "line-height", "letter-spacing", "opacity", "z-index", "font-weight", "font-family",
  "box-shadow", "animation", "outline", "easing", "border-color", "colors",
  "css-var-provenance", "composite-equivalence", "deprecation", "no-hardcoded-spacing">>

\* A good and a bad declaration for each rule.
Catalogue == <<
  L(Decl("margin", <<px(5)>>)), L(Decl("border-width", <<px(1), px(2)>>)),
  L(Decl("border-radius", <<px(8)>>)), L(Decl("filter", <<Open("blur"), px(4), Close>>)),
  L(Decl("transition", <<Name("all"), Num(1000, "ms"), Num(2, "s")>>)),
  L(Decl("font-size", <<px(16)>>)), L(Decl("font-size", <<px(12)>>)),
  L(Decl("line-height", <<Num(200, "%")>>)), L(Decl("line-height", <<Num(3, "")>>)),
  L(Decl("letter-spacing", <<Name("normal")>>)), L(Decl("letter-spacing", <<Num(0, "")>>)),
  L(Decl("opacity", <<Num(0, "")>>)), L(Decl("z-index", <<Num(9, "")>>)),
  L(Decl("font-weight", <<Name("bold")>>)), L(Decl("font-weight", <<Num(400, "")>>)),
  L(Decl("font-family", <<Name("inter"), Comma, Name("arial")>>)),
  L(Decl("box-shadow", <<Num(0, ""), px(1), Name("red"), Comma, Open("var"), Name("--sh"), Close>>)),
  L(Decl("box-shadow", <<px(2), px(2), Name("red")>>)),
  L(Decl("animation", <<Name("spin"), Num(1, "s"), Name("steps(4)")>>)),
  L(Decl("animation", <<Open("var"), Name("--an"), Close>>)),
  L(Decl("outline", <<px(1), Name("solid")>>)), L(Decl("border-color", <<Name("blue"), Name("red")>>)),
  L(Decl("color", <<Open("var"), Name("--none"), Close>>)),
  L(Decl("border", <<px(1), Name("red")>>)), L(Decl("color", <<Name("a.old")>>)),
  L(Decl("width", <<Num(50, "%")>>)) >>

\* Short style sheets: every choice of three lines out of these.
SheetLine == {L(Decl("border", <<px(1), Name("red")>>)), L(Decl("fill", <<Name("red"), Comma, Name("red")>>)),
         With(Blank, Dir("disable", {"*"})), With(Blank, Dir("disable", {"colors"})),
         With(Blank, Dir("enable", {"*"})), With(Blank, Dir("next", {"plugin"})),
         With(Decl("fill", <<Name("red")>>), Dir("line", {"colors", "runtime-error"}))}
Sheets == {Sheet(<<x, y, z>>, rules) : x \in SheetLine, y \in SheetLine, z \in SheetLine,
             rules \in {<<"colors", "plugin", "composite-equivalence">>, <<"composite-equivalence", "colors">>}}

Module == Part("code", 1, 99)
IconImport == Import("named", "Icon", "Icon", "@ds")
Code(lines, rules) == Job("ts", lines, <<[Module EXCEPT !.last = Len(lines)]>>, rules)
Elements == {Code(<<first, L(Tag3("open", n, 4)), middle, L(Tag3("close", n, 2))>>, rules) :
  first \in {L(IconImport), L(Import("default", "Button", "Button", "@x")), L(Local("Icon"))},
  n \in {"svg", "Glyph", "Icon", "ns.Icon", "button"},
  middle \in {L(Attr(Tag3("self", "Button", 0), {"style", "class"}, "odd")),
              With(Blank, Dir("next", {"icon-usage"})), L(Attr(Tag3("self", "svg", 0), {"style"}, "")),
              L(Import("namespace", "ns", "ns", "@ds"))},
  rules \in {<<"icon-usage", "component-prefix", "component-usage">>,
             <<"component-prefix", "import-path", "no-inline-styles", "icon-usage", "variant-prop", "plugin">>}}
Strings == {Code(<<L(Str("code", "a.old")), L(Str("jsx", "a.old")), L(Str("code", "d.old")),
                   L(Entry("call", "color", "string", <<Name("a.old")>>))>>, <<"deprecation", "plugin">>)}

StyleObjects == {Job("ts",
  <<L(Entry("attribute", "margin", f, <<px(5)>>)), L(Entry("attribute", "opacity", "number", <<Num(0, "")>>)),
    L(Entry("attribute", "line-height", "minus", <<Num(3, "")>>)),
    L(Entry("attribute", "color", g, <<Name("red")>>)), L(Entry("call", "color", "string", <<Name("red")>>))>>,
  <<Part("object", 1, 4), Part("code", 5, 5)>>,
  <<"spacing", "colors", "jsx-style-values", "line-height", "opacity", "no-hardcoded-spacing", "border-width",
    "border-radius", "duration", "font-weight", "letter-spacing", "z-index">>) :
  f \in {"string", "number", "template"}, g \in {"string", "template", "dynamic"}}

Bordered == Decl("border", <<px(1), Name("red")>>)
Embedded == {Job("ts", <<L(Str("code", "a.old")), L(Bordered), L(x)>>,
                 <<Part("code", 1, 1), Part("literal", 2, 3)>>, <<"deprecation", "composite-equivalence">>) :
               x \in {Broken, Bordered}}
Others == {Job("css", <<L(Decl("fill", <<Name("red")>>)), L(Broken)>>,
               <<[Part("sheet", 1, 2) EXCEPT !.lang = l]>>, <<"colors">>) : l \in {"css", "sass"}}
          \cup {Job("md", <<L(Blank)>>, <<>>, <<"colors">>)}

Component3(type, two) == Job(type,
  <<L(Blank), L(IconImport), L(Blank), L(Blank), L(Tag3("self", "svg", 0)),
    L(Entry("attribute", "color", "string", <<Name("red")>>)), L(Entry("text", "margin", "dynamic", <<>>)),
    L(Blank), With(Blank, Dir("disable", {"colors"})), L(Decl("fill", <<Name("red")>>)), L(Blank)>>,
  IF two THEN <<Part("script", 1, 3), Part("template", 4, 8), Part("style", 9, 11), Part("script", 3, 3)>>
  ELSE <<Part("script", 1, 3), Part("template", 4, 8), Part("style", 9, 11)>>,
  <<"colors", "icon-usage", "spacing", "jsx-style-values">>)
Files == {Component3(t, two) : t \in {"vue", "svelte"}, two \in BOOLEAN}
         \cup {Job("vue", <<L(Tag3("self", "svg", 0)), L(Entry("text", "color", "string", <<Name("red")>>))>>,
                   <<Part("template", 1, 2)>>, <<"colors", "icon-usage">>)}

AllJobs == {Sheet(Catalogue, TokenRules)} \cup Sheets \cup Elements \cup Strings \cup StyleObjects
           \cup Embedded \cup Others \cup Files
=============================================================================
