------------------------ MODULE ReductionIntegration ------------------------
(***************************************************************************)
(* compiler/src/reduction_integration.rs: a reduction that is a member of  *)
(* a state model becomes one derived declaration after each root of the    *)
(* model; a reduction of a declaration learns the model of its source.     *)
(***************************************************************************)
EXTENDS ModelTypes

IsReduction(m) == m.d = "derived" /\ m.expr.e = "reduction"
Prior(model, m) == SubSeq(model.members, 1, SelectInSeq(model.members, LAMBDA x : x.n = m.n) - 1)
\* reduction_sequence_source: the binding prefix of an earlier local sequence, or "".
SourceKind(facts, model, m) ==
  LET source == SelectSeq(Prior(model, m), LAMBDA x : x.n = m.expr.source) IN
  IF Len(source) = 0 \/ facts[model.n].types[m.expr.source].type.t # "Sequence" THEN ""
  ELSE IF source[1].d = "state" THEN "$mseq"
  ELSE IF source[1].expr.e = "filter" THEN "$filter" ELSE ""
\* collect_owner_value_members
OwnerValues(facts, model, m) ==
  Names(SelectSeq(Prior(model, m), LAMBDA x :
          facts[model.n].types[x.n].type.t # "Sequence" /\ ~ IsReduction(x)))
RECURSIVE Rooted(_, _)
\* validate_rooted_owner_expr and validate_rooted_step: `names` are those it may read.
Rooted(e, names) ==
  CASE e.e = "name" -> e.n \in names
    [] e.e \in {"filter", "reduction", "indexed member", "indexed designation"} -> FALSE
    [] OTHER -> \A i \in DOMAIN Parts(e) : Rooted(Parts(e)[i], names)
\* validate_model_local_reduction
Valid(program, facts, model, m) ==
  LET owner == OwnerValues(facts, model, m)
      element == facts[model.n].types[m.expr.source].type.model
      reached == {<<m.expr.element>> \o n : n \in Names(Models(program)[element])}
  IN  /\ Len(m.expr.source) = 1 /\ SourceKind(facts, model, m) # ""
      /\ m.expr.accumulator # m.expr.element
      /\ Rooted(m.expr.initial, owner)
      /\ Rooted(m.expr.step, ({<<m.expr.accumulator>>} \cup reached \cup owner) \ {<<m.expr.element>>})
\* expression_mentions_any, the key of an ordered view left out as the code does.
RECURSIVE MentionsAny(_, _)
MentionsAny(e, names) ==
  \/ e.e = "name" /\ e.n # <<>> /\ <<e.n[1]>> \in names
  \/ e.e \in {"indexed member", "indexed designation"} /\ e.n \in names
  \/ \E i \in DOMAIN Parts(e) : (e.e = "filter" => i # 3) /\ MentionsAny(Parts(e)[i], names)
\* reject_model_local_reduction_chaining
Chained(model) ==
  LET reductions == Names(SelectSeq(model.members, IsReduction)) IN
  \E i \in DOMAIN model.members : LET m == model.members[i] IN
    m.n \notin reductions /\ MentionsAny(IF m.d = "state" THEN m.init ELSE m.expr, reductions)
-----------------------------------------------------------------------------
\* collect_top_level_sequences
TopLevelSequences(program) ==
  ByName(SelectSeq(program.decls, LAMBDA d : d.d = "state" /\ d.type.t = "Sequence"),
         LAMBDA d : d.type.model)
\* rewrite_path: `root.member` and what follows it.
Renamed(paths, n) ==
  IF Len(n) > 1 /\ SubSeq(n, 1, 2) \in DOMAIN paths
  THEN paths[SubSeq(n, 1, 2)] \o SubSeq(n, 3, Len(n)) ELSE n
RECURSIVE AnnotateExpr(_, _), AnnotateStatement(_, _)
\* annotate_top_level_expr
AnnotateExpr(t, e) ==
  CASE e.e = "name" -> Name(Renamed(t.paths, e.n))
    [] e.e = "reduction" ->
         IF e.source \in DOMAIN t.sequences THEN [e EXCEPT !.model = t.sequences[e.source]]
         ELSE Rejected
    [] e.e \in {"indexed member", "indexed designation"} ->
         [e EXCEPT !.n = Renamed(t.paths, @), !.index = AnnotateExpr(t, @)]
    [] OTHER -> WithParts(e, Image(LAMBDA p : AnnotateExpr(t, p), Parts(e)))
AnnotateArgument(t, a) ==
  CASE a.a = "value" -> ValueArgument(AnnotateExpr(t, a.value))
    [] a.a = "state" -> StateGrant(Renamed(t.paths, a.n))
    [] OTHER -> [a EXCEPT !.source = Renamed(t.paths, @), !.index = AnnotateExpr(t, @)]
\* annotate_statement
AnnotateStatement(t, s) ==
  LET Branch(b) == Image(LAMBDA x : AnnotateStatement(t, x), b) IN
  CASE s.s = "assign" -> [s EXCEPT !.target = Renamed(t.paths, @), !.value = AnnotateExpr(t, @)]
    [] s.s = "indexed through" ->
         [s EXCEPT !.source = Renamed(t.paths, @), !.index = AnnotateExpr(t, @), !.value = AnnotateExpr(t, @)]
    [] s.s = "call" -> [s EXCEPT !.arguments = Image(LAMBDA a : AnnotateArgument(t, a), @)]
    [] s.s = "fail" -> Fail(AnnotateExpr(t, s.message))
    [] s.s = "if" -> If(AnnotateExpr(t, s.condition), Branch(s.yes), Branch(s.no))
    [] OTHER -> Unreachable
\* annotate_top_level_declaration
AnnotateDeclaration(t, d) ==
  CASE d.d = "state" -> [d EXCEPT !.init = AnnotateExpr(t, @)]
    [] d.d = "derived" -> [d EXCEPT !.expr = AnnotateExpr(t, @)]
    [] OTHER -> [d EXCEPT !.body = Image(LAMBDA s : AnnotateStatement(t, s), @)]

\* The source of the reduction of one root: its stored sequence or its view.
ReductionBinding(kind, root, r) == <<kind>> \o root \o r.source
\* lower
LowerReductions(program) ==
  LET facts == ModelFacts(program.models)
      roots == Roots(program)
      Of(model) == SelectSeq(model.members, IsReduction)
      ModelOf(root) == Named(program.models, roots[root])
      OfRoot(root, m) ==
        LET model == ModelOf(root) IN
        Derived(<<"$reduce">> \o root \o m.n,
                [m.expr EXCEPT !.source = ReductionBinding(SourceKind(facts, model, m), root, m.expr),
                               !.model = facts[model.n].types[m.expr.source].type.model])
      reached == UNION {{root \o n : n \in Names(Of(ModelOf(root)))} : root \in DOMAIN roots}
      t == [sequences |-> TopLevelSequences(program),
            paths |-> [p \in reached |-> <<"$reduce">> \o p]]
      One(d) == <<AnnotateDeclaration(t, d)>> \o
                (IF d.n \in DOMAIN roots THEN Image(LAMBDA m : OfRoot(d.n, m), Of(ModelOf(d.n))) ELSE <<>>)
      fits == /\ ModelsFit(program.models)
              /\ \A i \in DOMAIN program.models : LET model == program.models[i] IN
                   /\ ~ Chained(model)
                   /\ \A j \in DOMAIN Of(model) : Valid(program, facts, model, Of(model)[j])
  IN  IF ~ fits THEN Refused
      ELSE Program(Image(LAMBDA m : [m EXCEPT !.members = SelectSeq(@, LAMBDA x : ~ IsReduction(x))],
                         program.models),
                   FlattenSeq(Image(One, program.decls)))
=============================================================================
