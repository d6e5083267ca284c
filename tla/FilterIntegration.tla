-------------------------- MODULE FilterIntegration --------------------------
(***************************************************************************)
(* compiler/src/filter_integration.rs: a filter view of a state model      *)
(* becomes one derived declaration after each root of the model, over the  *)
(* cells of that root; the paths that index a view, or ask for membership  *)
(* in it, reach that declaration.                                          *)
(***************************************************************************)
EXTENDS ModelTypes

IsFilter(m) == m.d = "derived" /\ m.expr.e = "filter"
Prior(model, m) == SubSeq(model.members, 1, SelectInSeq(model.members, LAMBDA x : x.n = m.n) - 1)
\* earlier_sequence_source: stored membership only, so no view of a view.
StoredSource(model, m) ==
  SelectSeq(Prior(model, m), LAMBDA x :
    NameOnly(m.expr.source, x.n[1]) /\ x.d = "state" /\ x.type.t = "Sequence")
\* collect_owner_value_members
OwnerValues(facts, model, m) ==
  Names(SelectSeq(Prior(model, m), LAMBDA x : facts[model.n].types[x.n].type.t # "Sequence"))
\* infer_predicate_type: members of the element and earlier values of the owner.
PredicateType(facts, model, m) ==
  LET owner == OwnerValues(facts, model, m)
      element == facts[StoredSource(model, m)[1].type.model].types
      reached == {<<m.expr.element>> \o n : n \in DOMAIN element}
      scope == [symbols |-> << >>,
                params |-> [n \in (owner \cup reached) \ {<<m.expr.element>>} |->
                              IF n \in reached THEN element[Tail(n)] ELSE facts[model.n].types[n]]]
  IN  IF Kinds(m.expr.predicate) \cap {"filter", "reduction"} # {} THEN ErrorType
      ELSE TypeOf(scope, m.expr.predicate)
\* validate_order_key
OrderKeyFits(facts, model, m) ==
  LET element == facts[StoredSource(model, m)[1].type.model].types
      key == m.expr.order
  IN  \/ key.e = "none"
      \/ /\ key.e = "name" /\ Len(key.n) = 2 /\ key.n[1] = m.expr.element
         /\ Tail(key.n) \in DOMAIN element /\ element[Tail(key.n)].type.t = "Int"
\* collect_model_filters
Valid(facts, model, m) ==
  /\ Len(StoredSource(model, m)) = 1 /\ StoredSource(model, m)[1].type.model \in DOMAIN facts
  /\ PredicateType(facts, model, m).t = "Bool"
  /\ OrderKeyFits(facts, model, m)
RECURSIVE MentionsAny(_, _)
MentionsAny(e, names) ==   \* expression_mentions_any
  \/ e.e \in {"name", "indexed member", "indexed designation"} /\ e.n \in names
  \/ \E i \in DOMAIN Parts(e) : MentionsAny(Parts(e)[i], names)
MemberExpr(m) == IF m.d = "state" THEN m.init ELSE m.expr
\* reject_non_model_filters and reject_unsupported_filter_chaining
Supported(program) ==
  /\ \A i \in DOMAIN program.decls : "filter" \notin DeclarationKinds(program.decls[i])
  /\ \A i \in DOMAIN program.models :
       LET members == program.models[i].members
           views == Names(SelectSeq(members, IsFilter))
       IN  \A j \in DOMAIN members :
             ~ IsFilter(members[j]) => /\ "filter" \notin Kinds(MemberExpr(members[j]))
                                       /\ ~ MentionsAny(MemberExpr(members[j]), views)
-----------------------------------------------------------------------------
ViewOf(views, n) == IF n \in DOMAIN views THEN views[n] ELSE n
\* decode_static_filtered_index_path: root.view.#i and what follows, or <<>>.
Indexed(views, n) ==
  SelectSeq(IndexPath(n), LAMBDA path : path.source \in DOMAIN views)
RECURSIVE RewriteReads(_, _), RewriteStatement(_, _)
\* rewrite_indexed_filter_reads
RewriteReads(views, e) ==
  CASE e.e = "name" ->
         LET path == Indexed(views, e.n) IN
         IF path = <<>> THEN e
         ELSE IF path[1].member = <<>> THEN IndexedDesignation(views[path[1].source], path[1].index)
         ELSE IndexedMember(views[path[1].source], path[1].index, path[1].member[1])
    [] e.e = "binary" /\ e.op \in Membership /\ e.r.e = "name" ->
         [e EXCEPT !.l = RewriteReads(views, @),
                   !.r = IF @.n \in DOMAIN views THEN Name(views[@.n]) ELSE RewriteReads(views, @)]
    [] e.e \in {"indexed member", "indexed designation"} ->
         [e EXCEPT !.n = ViewOf(views, @), !.index = RewriteReads(views, @)]
    [] OTHER -> WithParts(e, Image(LAMBDA p : RewriteReads(views, p), Parts(e)))
\* decode_static_filtered_through: a member of a place of a view, or <<>>.
ThroughPath(views, n) ==
  IF IsThrough(n) THEN SelectSeq(Indexed(views, Tail(n)), LAMBDA path : path.member # <<>>) ELSE <<>>
RewriteArgument(views, a) ==
  CASE a.a = "value" -> ValueArgument(RewriteReads(views, a.value))
    [] a.a = "state" ->
         LET path == ThroughPath(views, a.n) IN
         IF path = <<>> THEN a
         ELSE IndexedStateGrant(views[path[1].source], path[1].index, path[1].member[1])
    [] OTHER -> [a EXCEPT !.source = ViewOf(views, @), !.index = RewriteReads(views, @)]
\* rewrite_indexed_filter_reads_in_statement
RewriteStatement(views, s) ==
  LET E(e) == RewriteReads(views, e)
      Branch(b) == Image(LAMBDA x : RewriteStatement(views, x), b)
  IN  CASE s.s = "assign" ->
             LET path == ThroughPath(views, s.target) IN
             IF path = <<>> THEN [s EXCEPT !.value = E(@)]
             ELSE IndexedThroughAssignment(views[path[1].source], path[1].index, path[1].member[1],
                                           s.op, E(s.value))
        [] s.s = "indexed through" ->
             [s EXCEPT !.source = ViewOf(views, @), !.index = E(@), !.value = E(@)]
        [] s.s = "call" -> [s EXCEPT !.arguments = Image(LAMBDA a : RewriteArgument(views, a), @)]
        [] s.s = "fail" -> Fail(E(s.message))
        [] s.s = "if" -> If(E(s.condition), Branch(s.yes), Branch(s.no))
        [] OTHER -> s
RewriteDeclaration(views, d) ==
  CASE d.d = "state" -> [d EXCEPT !.init = RewriteReads(views, @)]
    [] d.d = "derived" -> [d EXCEPT !.expr = RewriteReads(views, @)]
    [] OTHER -> [d EXCEPT !.body = Image(LAMBDA s : RewriteStatement(views, s), @)]

RECURSIVE LowerOwnerNames(_, _, _)
\* lower_owner_names: the owner is the root, by the name of its cells.
LowerOwnerNames(e, root, owner) ==
  CASE e.e = "name" -> IF e.n \in owner THEN Name(Binding(root, e.n[1])) ELSE e
    [] e.e \in {"filter", "indexed member", "indexed designation"} -> Unreachable
    [] OTHER -> WithParts(e, Image(LAMBDA p : LowerOwnerNames(p, root, owner), Parts(e)))
\* lower
LowerFilters(program) ==
  LET facts == ModelFacts(program.models)
      roots == Roots(program)
      Of(model) == SelectSeq(model.members, IsFilter)
      ModelOf(root) == Named(program.models, roots[root])
      OfRoot(root, m) ==
        LET owner == OwnerValues(facts, ModelOf(root), m) IN
        Derived(<<"$filter">> \o root \o m.n,
                [m.expr EXCEPT !.source = Name(<<"$mseq">> \o root \o @.n),
                               !.predicate = LowerOwnerNames(@, root, owner),
                               !.order = LowerOwnerNames(@, root, owner),
                               !.model = StoredSource(ModelOf(root), m)[1].type.model])
      reached == UNION {{root \o n : n \in Names(Of(ModelOf(root)))} : root \in DOMAIN roots}
      views == [n \in reached |-> <<"$filter">> \o n]
      One(d) == <<RewriteDeclaration(views, d)>> \o
                (IF d.n \in DOMAIN roots THEN Image(LAMBDA m : OfRoot(d.n, m), Of(ModelOf(d.n))) ELSE <<>>)
      fits == /\ ModelsFit(program.models) /\ Supported(program)
              /\ \A i \in DOMAIN program.models : LET model == program.models[i] IN
                   \A j \in DOMAIN Of(model) : Valid(facts, model, Of(model)[j])
  IN  IF ~ fits THEN Refused
      ELSE Program(Image(LAMBDA m : [m EXCEPT !.members = SelectSeq(@, LAMBDA x : ~ IsFilter(x))],
                         program.models),
                   FlattenSeq(Image(One, program.decls)))
=============================================================================
