---------------------------- MODULE MCCompilation ----------------------------
EXTENDS Compilation, Toolchain

\* Short forms for the programs below.
N(x) == Name(<<x>>)
M(x, m) == Name(<<x, m>>)
L(i) == Literal(AnInt(i))
Plus(x, y) == Binary("+", x, y)
More(x, y) == Binary(">", x, y)
Is(op, x, y) == Binary(op, x, y)
IsPresent(d) == Binary(Present, N(d), NoExpression)
Live(x) == Name(Capture(<<x>>))
Set(path, e) == Assignment(path, "=", e)
Increase(path, e) == Assignment(path, "+", e)
Do(name, body) == Action(<<name>>, <<>>, body)
Value(e) == ValueArgument(e)
Of(name, e) == Derived(<<name>>, e)

Doc == Model("Doc", <<State(<<"count">>, IntType, L(1)),
                      Of("twice", Plus(N("count"), N("count")))>>)
Box == Model("Box", <<
  State(<<"size">>, IntType, L(1)),
  State(<<"docs">>, SequenceType("Doc"), LiveSequence(<<>>)),
  State(<<"link">>, MaybeLiveType("Doc"), N("none")),
  Of("view", Filter(N("docs"), "d", More(M("d", "count"), N("size")), M("d", "count"), TRUE, "")),
  Of("total", Reduction(<<"docs">>, L(0), "acc", "d", Plus(N("acc"), M("d", "count")), "")),
  Of("seen", Reduction(<<"view">>, N("size"), "acc", "d", Plus(N("acc"), L(1)), ""))>>)
Models_ == <<Doc, Box>>
\* state a: Doc  state b: Doc  state box: Box, and what the actions select among.
Frame == <<
  ModelState(<<"a">>, "Doc"), ModelState(<<"b">>, "Doc"), ModelState(<<"box">>, "Box"),
  State(<<"list">>, SequenceType("Doc"), LiveSequence(<<<<"a">>, <<"b">>>>)),
  State(<<"cur">>, LiveType("Doc"), Live("a")),
  State(<<"opt">>, MaybeLiveType("Doc"), N("none")),
  State(<<"n">>, IntType, L(1)), State(<<"used">>, IntType, L(1))>>
\* Two insertions: the third overflows `used`, and is undone.
Fill == Do("fill", <<Insert(<<"cur">>, <<"box", "docs">>), Increase(<<"used">>, L(1))>>)
Choose == Do("choose", <<Set(<<"cur">>, Live("b"))>>)
Back == Do("back", <<Set(<<"cur">>, IndexedDesignation(<<"box", "docs">>, L(0)))>>)
Pick == Do("pick", <<Set(<<"opt">>, N("cur"))>>)
Clear == Do("clear", <<Set(<<"opt">>, N("none"))>>)
Swap == Do("swap", <<Set(<<"list">>, LiveSequence(<<<<"b">>, <<"a">>>>))>>)
Grow == Do("grow", <<Increase(<<"a", "count">>, L(1))>>)
Selection == <<Choose, Pick, Clear, Swap>>
Reads == Program(Models_, Frame \o <<
    Of("direct", Plus(M("a", "twice"), M("cur", "count"))),
    Of("designated", M("cur", "twice")),
    Of("absent", M("opt", "count")),
    Of("guarded", Choice(IsPresent("opt"), M("opt", "count"), L(0))),
    Of("circuit", Is("and", IsPresent("opt"), More(M("opt", "count"), L(1)))),
    Of("first", Name(<<"list", "#0", "count">>)),
    Of("at", IndexedMember(<<"box", "docs">>, N("n"), "count")),
    Of("top", Name(<<"box", "view", "#0", "count">>)),
    Of("inDocs", Is("is in", N("cur"), M("box", "docs"))),
    Of("inView", Is("is in", N("cur"), M("box", "view"))),
    Of("sum", Reduction(<<"list">>, N("n"), "acc", "d", Plus(N("acc"), M("d", "count")), "")),
    Of("hidden", Reduction(<<"list">>, L(0), "n", "a", Plus(N("n"), M("a", "count")), "")),
    LiveDerived(<<"active">>, "Doc", IndexedDesignation(<<"box", "docs">>, L(0))),
    Of("ofActive", M("active", "count")),
    LiveDerived(<<"after">>, "Doc", Is("next in", N("cur"), M("box", "docs")))
  >> \o Selection \o <<Fill, Grow>>)
State_(x) == Parameter("state", <<x>>, IntType)
Value_(x) == Parameter("value", <<x>>, IntType)
Grant(path) == StateGrant(path)
ThroughPath(path) == StateGrant(Through(path))
\* Actions that are granted cells: the grant names a cell from the call on.
Add == Action(<<"add">>, <<State_("target"), Value_("by")>>, <<Increase(<<"target">>, N("by"))>>)
Reselect == Action(<<"reselect">>, <<State_("target")>>,
  <<Set(<<"cur">>, Live("b")), Set(<<"opt">>, N("none")), Set(<<"n">>, L(0)), Increase(<<"target">>, L(1))>>)
Both == Action(<<"both">>, <<State_("x"), State_("y")>>,
  <<Increase(<<"x">>, L(1)), If(More(N("y"), L(2)), <<Fail(Literal(AString(<<"m">>)))>>, <<>>), Set(<<"y">>, N("x"))>>)
Outer == Action(<<"outer">>, <<State_("t")>>,
  <<Call(<<"add">>, <<Grant(<<"t">>), Value(M("cur", "count"))>>),
    Call(<<"reselect">>, <<Grant(<<"t">>)>>)>>)
Whole == Action(<<"whole">>, <<Parameter("state", <<"doc">>, NamedType("Doc"))>>,
  <<Set(<<"cur">>, Live("b")), Increase(<<"doc", "count">>, M("doc", "twice")),
    Call(<<"add">>, <<Grant(<<"doc", "count">>), Value(L(-1))>>)>>)
Look == Action(<<"look">>, <<Parameter("value", <<"seen">>, NamedType("Doc")), Value_("n")>>,
  <<Increase(<<"a", "count">>, L(1)), Set(<<"b", "count">>, Plus(M("seen", "count"), N("n")))>>)
Grants_ == Program(Models_, Frame \o <<Add, Reselect, Both, Outer, Whole, Look, Fill, Choose, Pick,
  Do("through", <<Call(<<"reselect">>, <<ThroughPath(<<"cur", "count">>)>>)>>),
  Do("maybe", <<Call(<<"reselect">>, <<ThroughPath(<<"opt", "count">>)>>)>>),
  Do("place", <<Call(<<"reselect">>, <<ThroughPath(<<"list", "#1", "count">>)>>)>>),
  Do("at", <<Call(<<"reselect">>, <<IndexedStateGrant(<<"box", "docs">>, N("n"), "count")>>)>>),
  Do("inView", <<Call(<<"outer">>, <<ThroughPath(<<"box", "view", "#0", "count">>)>>)>>),
  Do("inDocs", <<Call(<<"add">>, <<ThroughPath(<<"box", "docs", "#0", "count">>), Value(L(1))>>)>>),
  Do("alias", <<Call(<<"both">>, <<Grant(<<"a", "count">>), ThroughPath(<<"cur", "count">>)>>)>>),
  Do("nested", <<Call(<<"outer">>, <<ThroughPath(<<"cur", "count">>)>>)>>),
  Do("model", <<Call(<<"whole">>, <<ThroughPath(<<"cur">>)>>)>>),
  Do("modelMaybe", <<Call(<<"whole">>, <<ThroughPath(<<"opt">>)>>)>>),
  Do("modelAt", <<Call(<<"whole">>, <<ThroughPath(<<"list", "#0">>)>>)>>),
  Do("copy", <<Call(<<"look">>, <<Value(N("a")), Value(N("n"))>>)>>),
  Do("again", <<Call(<<"again">>, <<>>)>>)>>)
\* Assignments through designations and places, slots, and insertions that are undone.
Stores == Program(Models_, Frame \o <<
  State(<<"place">>, LiveType("Box"), Live("box"))>> \o Selection \o <<Fill,
  Do("through", <<Increase(Through(<<"cur", "count">>), L(1))>>),
  Do("maybe", <<Set(Through(<<"opt", "count">>), M("cur", "twice"))>>),
  Do("static", <<Increase(Through(<<"list", "#0", "count">>), N("n"))>>),
  Do("at", <<IndexedThroughAssignment(<<"box", "docs">>, N("n"), "count", "+", L(1))>>),
  Do("second", <<Set(Through(<<"box", "docs", "#1", "count">>), N("n"))>>),
  Do("inView", <<IndexedThroughAssignment(<<"box", "view">>, L(0), "count", "-", M("box", "size"))>>),
  Do("link", <<Set(Through(<<"place", "link">>), N("cur"))>>),
  Do("unlink", <<Set(Through(<<"place", "link">>), N("none"))>>),
  Do("follow", <<Set(<<"opt">>, M("place", "link"))>>),
  Do("next", <<Set(<<"cur">>, Is("next in", N("cur"), M("box", "docs")))>>),
  Do("first", <<Set(<<"cur">>, IndexedDesignation(<<"box", "view">>, L(0)))>>)
  >>)
\* Other types than Int: widening, special floats, strings, connectives, and what may fail.
True == Literal(ABool(TRUE))
Text == Literal(AString(<<"m">>))
Real(x) == Literal(AFloat(Finite(x)))
Rated == Model("Rated", <<State(<<"rate">>, FloatType, L(1)), State(<<"good">>, BoolType, True),
  State(<<"tag">>, StringType, Text),
  Of("fair", Choice(Is("and", N("good"), Is("<=", N("rate"), L(2))), N("rate"), Real(4)))>>)
Shelf == Model("Shelf", <<State(<<"items">>, SequenceType("Rated"), LiveSequence(<<>>)),
  State(<<"low">>, FloatType, L(1)),
  Of("best", Filter(N("items"), "r", Is("or", M("r", "good"), More(M("r", "rate"), N("low"))), NoExpression, FALSE, "")),
  Of("mass", Reduction(<<"best">>, Real(0), "sum", "r", Plus(N("sum"), M("r", "fair")), ""))>>)
Give == Action(<<"give">>, <<Parameter("state", <<"to">>, FloatType), Parameter("value", <<"by">>, FloatType)>>,
  <<Assignment(<<"to">>, "*", N("by"))>>)
Mixed == Program(<<Rated, Shelf>>, <<
  ModelState(<<"x">>, "Rated"), ModelState(<<"y">>, "Rated"), ModelState(<<"shelf">>, "Shelf"),
  State(<<"cur">>, LiveType("Rated"), Live("x")), State(<<"f">>, FloatType, L(1)),
  State(<<"used">>, IntType, L(1)),
  Of("share", Is("/", N("f"), M("cur", "rate"))),
  Of("named", Is("contains", M("cur", "tag"), Text)), Of("different", Is("!=", N("f"), N("used"))),
  Of("least", Choice(Is("<", N("f"), M("cur", "fair")), N("f"), M("cur", "fair"))),
  Give,
  Do("fill", <<Insert(<<"cur">>, <<"shelf", "items">>), Increase(<<"used">>, L(1))>>),
  Do("other", <<Set(<<"cur">>, Live("y"))>>),
  Do("back", <<Set(<<"cur">>, Is("previous in", N("cur"), M("shelf", "items")))>>),
  Do("double", <<Call(<<"give">>, <<Grant(<<"f">>), Value(L(2))>>)>>),
  Do("zero", <<Call(<<"give">>, <<ThroughPath(<<"cur", "rate">>), Value(L(0))>>)>>),
  Do("store", <<Set(Through(<<"cur", "rate">>), Is("-", N("f"), L(1)))>>),
  Do("flip", <<Set(Through(<<"cur", "good">>), Is("==", M("cur", "good"), Literal(ABool(FALSE))))>>),
  Do("retag", <<Set(<<"x", "tag">>, Text),
                If(Is("is in", N("cur"), M("shelf", "items")),
                   <<Set(<<"x", "tag">>, Plus(M("x", "tag"), Text)), If(More(N("f"), L(2)), <<Fail(M("x", "tag"))>>, <<>>)>>,
                   <<Set(<<"y", "rate">>, Is("/", L(2), M("x", "rate")))>>)>>)>>)
\* Programs one declaration or model away from one of the language.
Adding(args) == <<Add, Do("act", <<Call(<<"add">>, args)>>)>>
Typed == <<State(<<"flag">>, BoolType, True), State(<<"half">>, FloatType, L(1)),
           State(<<"place">>, LiveType("Box"), Live("box"))>>
Wrong == <<
  <<Of("x", Plus(N("n"), True))>>, <<Of("x", M("a", "typo"))>>, <<Of("x", N("list"))>>,
  <<Of("x", Is("is in", N("opt"), N("list")))>>, <<Of("x", N("cur"))>>,
  <<Of("x", IndexedMember(<<"box", "docs">>, True, "count"))>>,
  <<Of("x", Name(<<"list", "#2", "count">>))>>, <<Of("x", IsPresent("cur"))>>,
  <<Of("x", Reduction(<<"list">>, L(0), "acc", "d", Plus(N("acc"), N("d")), ""))>>,
  <<Of("x", Reduction(<<"list">>, L(0), "acc", "d", M("d", "typo"), ""))>>,
  <<Of("x", Choice(N("n"), L(1), L(2)))>>, <<Of("x", M("later", "count")), State(<<"later">>, LiveType("Doc"), Live("a"))>>,
  <<State(<<"x">>, IntType, Text)>>, <<State(<<"x">>, LiveType("Doc"), Live("box"))>>,
  <<State(<<"x">>, SequenceType("Doc"), LiveSequence(<<<<"box">>>>))>>,
  <<Do("act", <<Set(<<"a", "twice">>, L(1))>>)>>, <<Do("act", <<Set(Through(<<"cur", "twice">>), L(1))>>)>>,
  <<Do("act", <<Set(<<"cur">>, N("opt"))>>)>>, <<Do("act", <<Set(<<"cur">>, N("none"))>>)>>,
  <<Do("act", <<Set(<<"cur">>, L(1))>>)>>, <<Do("act", <<Set(<<"n">>, N("half"))>>)>>,
  <<Do("act", <<Increase(<<"flag">>, True)>>)>>, <<Do("act", <<Fail(L(1))>>)>>,
  <<Do("act", <<If(N("n"), <<>>, <<>>)>>)>>, <<Do("act", <<Set(Through(<<"place", "link">>), N("place"))>>)>>,
  <<Do("act", <<Insert(<<"place">>, <<"box", "docs">>)>>)>>,
  <<Do("act", <<Set(<<"list">>, LiveSequence(<<>>))>>), Of("x", Name(<<"list", "#0", "count">>))>>,
  Adding(<<Value(L(1)), Value(L(1))>>), Adding(<<Grant(<<"n">>)>>),
  Adding(<<Grant(<<"half">>), Value(L(1))>>), Adding(<<Grant(<<"a", "twice">>), Value(L(1))>>),
  Adding(<<Grant(<<"n">>), Value(N("half"))>>), Adding(<<Grant(<<"box", "docs">>), Value(L(1))>>),
  <<Whole, Do("act", <<Call(<<"whole">>, <<Grant(<<"box">>)>>)>>)>>,
  <<Whole, Do("act", <<Call(<<"whole">>, <<ThroughPath(<<"place">>)>>)>>)>>,
  <<Action(<<"act">>, <<Value_("x")>>, <<Set(<<"x">>, L(1))>>)>>,
  <<Add, Action(<<"act">>, <<Value_("x")>>, <<Call(<<"add">>, <<Grant(<<"x">>), Value(L(1))>>)>>)>>>>
WrongBoxes == <<
  <<Of("view", Filter(N("docs"), "d", M("d", "count"), NoExpression, FALSE, ""))>>,
  <<Of("view", Filter(N("docs"), "d", True, N("size"), FALSE, ""))>>,
  <<Of("view", Filter(N("size"), "d", True, NoExpression, FALSE, ""))>>,
  <<Of("all", Filter(N("docs"), "d", True, NoExpression, FALSE, "")),
    Of("view", Filter(N("all"), "d", True, NoExpression, FALSE, ""))>>,
  <<Of("total", Reduction(<<"docs">>, L(0), "acc", "d", More(N("acc"), L(0)), ""))>>,
  <<Of("total", Reduction(<<"docs">>, N("total"), "acc", "d", L(0), ""))>>,
  <<Of("total", Reduction(<<"size">>, L(0), "acc", "d", L(0), ""))>>,
  <<Of("total", N("docs"))>>, <<Of("size", L(0))>>, <<Of("total", Plus(N("link"), L(1)))>>>>
\* Programs that do not start: an initial value fails.
Unstarted == <<<<State(<<"x">>, IntType, Plus(L(3), L(3)))>>, <<State(<<"x">>, IntType, M("opt", "count"))>>>>
Extended(declarations) == Program(Models_, Frame \o Typed \o declarations)
Boxed(members) == Program(<<Doc, Model("Box", SubSeq(Box.members, 1, 3) \o members)>>, Frame)
Programs ==
  Image(LAMBDA p : [program |-> p, fits |-> TRUE], <<Reads, Grants_, Stores, Mixed>> \o Image(Extended, Unstarted))
    \o Image(LAMBDA p : [program |-> p, fits |-> FALSE], Image(Extended, Wrong) \o Image(Boxed, WrongBoxes))
=============================================================================
