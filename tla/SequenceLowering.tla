--------------------------- MODULE SequenceLowering ---------------------------
(***************************************************************************)
(* compiler/src/sequence_lowering.rs: a [live T] state holds a string that *)
(* encodes one of the literals the program assigns to it, and reading or   *)
(* reaching through a place of it is a choice between those variants; a    *)
(* member sequence, a view, or a sequence of a designated element is       *)
(* indexed at run time.                                                    *)
(***************************************************************************)
EXTENDS ModelTypes, FiniteSetsExt

IsSequenceState(d) == d.d = "state" /\ d.type.t = "Sequence"
Encoded(targets) == Literal(AString(<<"$seq">> \o FlattenSeq(targets)))  \* encode_sequence_value
RECURSIVE AssignedLiterals(_, _)
\* collect_variants_from_statements
AssignedLiterals(statements, name) ==
  LET Of(s) == CASE s.s = "assign" ->
                      IF s.target = name /\ s.op = "=" /\ s.value.e = "live sequence"
                      THEN <<s.value.targets>> ELSE <<>>
                 [] s.s = "if" -> AssignedLiterals(s.yes, name) \o AssignedLiterals(s.no, name)
                 [] OTHER -> <<>>
  IN  FlattenSeq(Image(Of, statements))
\* collect_sequences and collect_assignment_variants: each literal once, in order.
Sequences(program, externalized) ==
  LET bodies == FlattenSeq(Image(LAMBDA a : a.body, Declarations(program, "action")))
      Add(variants, v) == IF Contains(variants, v) THEN variants ELSE Append(variants, v)
      Start(d) == IF d.init.e = "live sequence" THEN <<d.init.targets>> ELSE <<>>
      Info(d) == [n |-> d.n, model |-> d.type.model, at |-> Place(program, d.n),
                  candidates |-> RootsBefore(program, Place(program, d.n), d.type.model),
                  variants |-> FoldLeft(Add, <<>>, Start(d) \o AssignedLiterals(bodies, d.n)),
                  external |-> d.n \in DOMAIN externalized]
  IN  ByName(SelectSeq(program.decls, IsSequenceState), Info)
\* collect_designation_models, collect_filter_views
Designations(program) ==
  ByName(SelectSeq(program.decls, LAMBDA d : d.d = "state" /\ IsDesignation(d.type)),
         LAMBDA d : [model |-> d.type.model, at |-> Place(program, d.n)])
FilterViews(program) ==
  ByName(SelectSeq(program.decls, LAMBDA d : d.d = "derived" /\ Has(d.n, "$filter")),
         LAMBDA d : d.expr.model)
\* reject_deferred_sequence_positions, and the targets of every literal
Supported(program, sequences) ==
  /\ \A i \in DOMAIN program.models : LET members == program.models[i].members IN
       \A j \in DOMAIN members : ~ IsSequenceState(members[j])
  /\ \A i \in DOMAIN program.decls : LET d == program.decls[i] IN
       CASE d.d = "action" -> \A j \in DOMAIN d.params : d.params[j].type.t # "Sequence"
         [] IsSequenceState(d) ->
              LET info == sequences[d.n] IN
              /\ d.type.model \in DOMAIN Models(program) /\ d.init.e = "live sequence"
              /\ \A v \in DOMAIN info.variants : ToSet(info.variants[v]) \subseteq info.candidates
         [] OTHER -> TRUE
-----------------------------------------------------------------------------
LowerLiteral(info, e) == IF e.e = "live sequence" THEN Encoded(e.targets) ELSE Rejected
IsVariant(info, v) == Binary("==", Name(info.n), Encoded(info.variants[v]))   \* sequence_condition
Earlier(info) == [v \in 1 .. Len(info.variants) - 1 |-> v]
\* build_expr_choice, between one branch for each known value: the last without asking.
ExprChoice(info, branches) ==
  FoldRight(LAMBDA v, rest : Choice(IsVariant(info, v), branches[v], rest), Earlier(info), Last(branches))
\* build_statement_choice
StatementChoice(info, branches) ==
  FoldRight(LAMBDA v, rest : If(IsVariant(info, v), <<branches[v]>>, <<rest>>), Earlier(info), Last(branches))
\* The root every known value has at a place.
RootsAt(info, i) == Image(LAMBDA v : v[i], info.variants)
\* variant_roots_at: every known value reaches the place.
AllReach(info, i) == info.variants # <<>> /\ \A v \in DOMAIN info.variants : i <= Len(info.variants[v])
At(index) == index.v.v + 1

\* resolve_designation_sequence_member: d.lines, for a sequence member of the model of d.
IsDesignationSequence(c, n) ==
  /\ Len(n) = 2 /\ <<n[1]>> \in DOMAIN c.designations
  /\ LET model == c.designations[<<n[1]>>].model IN
     HasMember(c.templates, model, n[2]) /\ TypeOfMember(c.templates, model, <<n[2]>>).t = "Sequence"
DesignationSequence(c, n) ==
  LET model == c.designations[<<n[1]>>].model
      type == TypeOfMember(c.templates, model, <<n[2]>>)
  IN  [expr |-> RuntimeDesignationMember(Name(<<n[1]>>), n[2], model, type), model |-> type.model]
\* The membership a name stands for at run time: a view, d.lines, or a member sequence.
IsRuntimeSource(c, n) ==
  \/ n \in DOMAIN c.views \/ IsDesignationSequence(c, n)
  \/ n \in DOMAIN c.sequences /\ c.sequences[n].external
RuntimeSource(c, n) ==
  IF n \in DOMAIN c.views THEN [expr |-> Name(n), model |-> c.views[n]]
  ELSE IF IsDesignationSequence(c, n) THEN DesignationSequence(c, n)
  ELSE [expr |-> Name(n), model |-> c.sequences[n].model]
\* lower_runtime_indexed_member_read, lower_runtime_indexed_designation
IndexedRead(c, n, index, member) ==
  LET source == RuntimeSource(c, n) IN
  IF ~ IsRuntimeSource(c, n) THEN Rejected
  ELSE IF member = <<>> THEN RuntimeIndexDesignation(source.expr, index, source.model)
  ELSE IF ~ HasMember(c.templates, source.model, member[1]) THEN Rejected
  ELSE RuntimeIndexMember(source.expr, index, member[1], source.model,
                          TypeOfMember(c.templates, source.model, member))
\* lower_indexed_member_read, for seq[1].m with seq before the declaration.
StaticRead(c, path) ==
  LET n == path.source IN
  IF IsDesignationSequence(c, n) THEN IndexedRead(c, n, path.index, path.member)
  ELSE IF n \notin DOMAIN c.sequences \/ c.sequences[n].at >= c.at THEN Rejected
  ELSE LET info == c.sequences[n] IN
       IF info.external THEN IndexedRead(c, n, path.index, path.member)
       ELSE IF path.member = <<>> \/ MemberKind(c.program, info.model, path.member[1]) = "none"
               \/ ~ AllReach(info, At(path.index))
       THEN Rejected
       ELSE ExprChoice(info, Image(LAMBDA root : Name(root \o path.member), RootsAt(info, At(path.index))))
\* A designation and a membership of one model; which model a name ranges over.
MembershipFits(c, e) ==
  LET n == e.r.n
      d == c.designations[e.l.n]
      model == IF n \in DOMAIN c.sequences THEN c.sequences[n].model ELSE RuntimeSource(c, n).model
  IN  /\ e.l.e = "name" /\ e.r.e = "name"
      /\ e.l.n \in DOMAIN c.designations /\ d.at < c.at
      /\ n \in DOMAIN c.sequences \/ IsRuntimeSource(c, n)
      /\ d.model = model
RECURSIVE LowerExpr(_, _), LowerStatement(_, _), LowerCall(_, _)
\* lower_expr
LowerExpr(c, e) ==
  CASE e.e = "live sequence" -> Rejected
    [] e.e = "name" ->
         LET path == IndexPath(e.n) IN
         IF path # <<>> THEN StaticRead(c, path[1])
         ELSE IF e.n \in DOMAIN c.sequences THEN Rejected ELSE e
    [] e.e = "binary" /\ e.op \in Membership -> IF MembershipFits(c, e) THEN e ELSE Rejected
    [] e.e \in {"indexed member", "indexed designation"} ->
         IndexedRead(c, e.n, LowerExpr(c, e.index),
                     IF e.e = "indexed member" THEN <<e.member>> ELSE <<>>)
    [] e.e \in {"runtime index member", "runtime index designation",
                "runtime designation member", "filter"} -> e
    [] OTHER -> WithParts(e, Image(LAMBDA p : LowerExpr(c, p), Parts(e)))
\* lower_runtime_indexed_through_assignment, for a stored member of the element.
IndexedStore(c, n, index, member, op, value) ==
  LET model == RuntimeSource(c, n).model IN
  IF IsDesignationSequence(c, n) \/ ~ IsRuntimeSource(c, n) THEN Rejected
  ELSE IF ~ HasMember(c.templates, model, member) \/ KindOf(c.templates, model, member) # "state"
  THEN Rejected
  ELSE RuntimeIndexAssignment(n, index, member, model, TypeOfMember(c.templates, model, <<member>>),
                              op, value)
\* lower_through_assignment: a choice between assignments for a static sequence.
StaticStore(c, path, op, value) ==
  LET n == path.source
      info == c.sequences[n]
  IN  IF path.member = <<>> \/ n \notin DOMAIN c.sequences THEN Rejected
      ELSE IF info.external THEN IndexedStore(c, n, path.index, path.member[1], op, value)
      ELSE IF MemberKind(c.program, info.model, path.member[1]) # "state" \/ ~ AllReach(info, At(path.index))
      THEN Rejected
      ELSE StatementChoice(info, Image(LAMBDA root : Assignment(root \o path.member, op, value),
                                       RootsAt(info, At(path.index))))
LowerAssignment(c, s) ==
  LET through == IF IsThrough(s.target) THEN IndexPath(Tail(s.target)) ELSE <<>> IN
  IF through # <<>> THEN StaticStore(c, through[1], s.op, LowerExpr(c, s.value))
  ELSE IF s.target \in DOMAIN c.sequences
  THEN IF s.op = "=" THEN [s EXCEPT !.value = LowerLiteral(c.sequences[s.target], @)] ELSE Rejected
  ELSE IF IndexPath(s.target) # <<>> THEN Rejected
  ELSE [s EXCEPT !.value = LowerExpr(c, @)]
\* expand_action_call: the first grant through a place becomes a choice between calls.
\* The target of an insertion may be a sequence.
LowerArgument(c, a, structural) ==
  CASE a.a = "value" -> ValueArgument(LowerExpr(c, a.value))
    [] a.a = "indexed state" -> Unreachable
    [] OTHER -> IF (a.n \in DOMAIN c.sequences /\ ~ structural) \/ IndexPath(a.n) # <<>> THEN Rejected ELSE a
ThroughPlace(a) == IF a.a = "state" /\ IsThrough(a.n) THEN IndexPath(Tail(a.n)) ELSE <<>>
LowerCall(c, s) ==
  LET places == {i \in DOMAIN s.arguments : ThroughPlace(s.arguments[i]) # <<>>}
      i == Min(places)
      path == ThroughPlace(s.arguments[i])[1]
      info == c.sequences[path.source]
      stored == path.member # <<>> => MemberKind(c.program, info.model, path.member[1]) = "state"
      Granting(root) == LowerCall(c, [s EXCEPT !.arguments[i] = StateGrant(root \o path.member)])
  IN  IF places = {} THEN [s EXCEPT !.arguments = Image(LAMBDA a : LowerArgument(c, a, IsInsert(s.action)), @)]
      ELSE IF path.source \notin DOMAIN c.sequences \/ ~ stored \/ ~ AllReach(info, At(path.index))
      THEN Rejected
      ELSE StatementChoice(info, Image(Granting, RootsAt(info, At(path.index))))
\* lower_statement
LowerStatement(c, s) ==
  LET E(e) == LowerExpr(c, e)
      Branch(b) == Image(LAMBDA x : LowerStatement(c, x), b)
  IN  CASE s.s = "assign" -> LowerAssignment(c, s)
        [] s.s = "indexed through" -> IndexedStore(c, s.source, E(s.index), s.member, s.op, E(s.value))
        [] s.s = "call" -> LowerCall(c, s)
        [] s.s = "fail" -> Fail(E(s.message))
        [] s.s = "if" -> If(E(s.condition), Branch(s.yes), Branch(s.no))
        [] OTHER -> IF s.s = "runtime designation assign" THEN Unreachable ELSE s
\* lower
LowerSequences(program, templates, externalized) ==
  LET sequences == Sequences(program, externalized)
      tables == [program |-> program, templates |-> templates, sequences |-> sequences, at |-> 0,
                 views |-> FilterViews(program), designations |-> Designations(program)]
      One(c, d) ==
        CASE d.n \in DOMAIN sequences -> State(d.n, StringType, LowerLiteral(sequences[d.n], d.init))
          [] d.d = "state" /\ d.n \notin DOMAIN sequences -> [d EXCEPT !.init = LowerExpr(c, @)]
          [] d.d = "derived" -> [d EXCEPT !.expr = LowerExpr(c, @)]
          [] d.d = "action" -> [d EXCEPT !.body = Image(LAMBDA s : LowerStatement(c, s), @)]
  IN  IF ~ Supported(program, sequences) THEN Refused
      ELSE [program EXCEPT !.decls = [i \in DOMAIN @ |-> One([tables EXCEPT !.at = i], @[i])]]
=============================================================================
