---------------------------- MODULE ModelLowering ----------------------------
(***************************************************************************)
(* compiler/src/model_lowering.rs: the pass that replaces every model root *)
(* and model parameter by one cell or parameter for each member.           *)
(***************************************************************************)
EXTENDS ModelTypes

ParameterBinding(parameter, member) == <<"$smp", parameter, member>>   \* model_parameter_member_name

\* The tables of the pass.  A member of a model is named <<member>>.
Tables(program) ==
  [models |-> Models(program),
   facts |-> ModelFacts(program.models),
   roots |-> Roots(program),
   actions |-> ByName(Declarations(program, "action"), LAMBDA a : a.params),
   params |-> << >>]       \* model_parameters of the action being lowered
IsModel(tables, type) == type.t = "Named" /\ type.model \in DOMAIN tables.models
StateMembers(tables, model) == SelectSeq(tables.models[model], LAMBDA m : m.d = "state")
MemberExpression(tables, model, name) ==
  LET m == tables.models[model][CHOOSE i \in DOMAIN tables.models[model] : tables.models[model][i].n = name] IN
  IF name \in tables.facts[model].designations THEN Literal(AString(<<>>))
  ELSE IF m.d = "state" THEN m.init ELSE m.expr

RECURSIVE ForRoot(_, _), ForParameter(_, _, _, _)
Opaque == {"runtime index member", "runtime index designation", "runtime designation member", "filter"}
\* rewrite_model_expr_for_root
ForRoot(e, root) ==
  CASE e.e = "name" -> Name(Binding(root, e.n[1]))
    [] e.e \in Opaque -> e
    [] OTHER -> WithParts(e, Image(LAMBDA p : ForRoot(p, root), Parts(e)))
\* rewrite_model_expr_for_parameter: a derived member of a parameter is written out in full.
ForParameter(tables, e, model, parameter) ==
  CASE e.e = "name" ->
         IF KindOf(tables.facts, model, e.n[1]) = "state" THEN Name(ParameterBinding(parameter, e.n[1]))
         ELSE ForParameter(tables, MemberExpression(tables, model, e.n), model, parameter)
    [] e.e \in Opaque -> e
    [] OTHER -> WithParts(e, Image(LAMBDA p : ForParameter(tables, p, model, parameter), Parts(e)))
\* expand_model_state
Expanded(tables, root, model) ==
  Image(LAMBDA m : LET e == ForRoot(MemberExpression(tables, model, m.n), root)
                       n == Binding(root, m.n[1])
                   IN  IF m.d = "state" THEN State(n, TypeOfMember(tables.facts, model, m.n), e) ELSE Derived(n, e),
        tables.models[model])

\* A root hides a model parameter of the same name: every lookup tries roots first.
IsRoot(tables, n) == n \in DOMAIN tables.roots
IsModelName(tables, n) == n \in DOMAIN tables.roots \cup DOMAIN tables.params
ModelOf(tables, n) == IF IsRoot(tables, n) THEN tables.roots[n] ELSE tables.params[n].model
Cell(tables, n, member) ==
  IF IsRoot(tables, n) THEN Binding(n, member) ELSE ParameterBinding(n[1], member)
\* A path to a member that may be used as an ordinary value.
ReachesMember(tables, n) ==
  /\ Len(n) = 2 /\ IsModelName(tables, <<n[1]>>)
  /\ HasMember(tables.facts, ModelOf(tables, <<n[1]>>), n[2])
  /\ ~ Designates(tables.facts, ModelOf(tables, <<n[1]>>), n[2])
\* lower_name_expr and lower_member_expr
LowerName(tables, n) ==
  IF IsGenerated(n) THEN Name(n)
  ELSE IF Len(n) = 1 THEN IF IsModelName(tables, n) THEN Rejected ELSE Name(n)
  ELSE IF ~ ReachesMember(tables, n) THEN Rejected
  ELSE LET root == <<n[1]>>
           model == ModelOf(tables, root)
       IN  IF IsRoot(tables, root) \/ KindOf(tables.facts, model, n[2]) = "state"
           THEN Name(Cell(tables, root, n[2]))
           ELSE ForParameter(tables, Name(<<n[2]>>), model, n[1])
RECURSIVE LowerModelExpr(_, _)
\* lower_expr: the source of a runtime index and a whole filter are left as they are.
LowerModelExpr(tables, e) ==
  CASE e.e = "name" -> LowerName(tables, e.n)
    [] e.e = "filter" -> e
    [] e.e \in {"runtime index member", "runtime index designation"} ->
         [e EXCEPT !.index = LowerModelExpr(tables, @)]
    [] OTHER -> WithParts(e, Image(LAMBDA p : LowerModelExpr(tables, p), Parts(e)))
\* lower_assignment_target and lower_state_grant: the cell or parameter, or <<>>.
\* An assignment checks neither the kind of a root's member nor a value parameter: the
\* semantic check does.
LowerTarget(tables, n, grant) ==
  IF IsGenerated(n) THEN n
  ELSE IF Len(n) = 1 THEN IF IsModelName(tables, n) THEN <<>> ELSE n
  ELSE LET root == <<n[1]>>
           viaParameter == ~ IsRoot(tables, root)
           stored == KindOf(tables.facts, ModelOf(tables, root), n[2]) = "state"
       IN  IF /\ ReachesMember(tables, n)
              /\ grant \/ viaParameter => stored
              /\ grant /\ viaParameter => tables.params[root].kind = "state"
           THEN Cell(tables, root, n[2]) ELSE <<>>
\* lower_generic_argument, and lower_action_call for one parameter: a model argument
\* becomes one argument for each stored member.
LowerArgument(tables, argument) ==
  IF argument.a = "value" THEN <<ValueArgument(LowerModelExpr(tables, argument.value))>>
  ELSE LET n == LowerTarget(tables, argument.n, TRUE) IN
       IF n = <<>> THEN <<Rejected>> ELSE <<StateGrant(n)>>
LowerModelArgument(tables, parameter, argument) ==
  LET byName == argument.a = "state" \/ (argument.a = "value" /\ argument.value.e = "name")
      n == IF argument.a = "state" THEN argument.n ELSE argument.value.n
      model == parameter.type.model
      allowed == /\ byName /\ argument.a = parameter.kind /\ IsModelName(tables, n)
                 /\ ModelOf(tables, n) = model
                 /\ parameter.kind = "state" /\ ~ IsRoot(tables, n) => tables.params[n].kind = "state"
      One(m) == IF parameter.kind = "state" THEN StateGrant(Cell(tables, n, m.n[1]))
                ELSE ValueArgument(Name(Cell(tables, n, m.n[1])))
  IN  IF allowed THEN Image(One, StateMembers(tables, model)) ELSE <<Rejected>>
\* lower_action_call
LowerCall(tables, call) ==
  LET One(p, a) == IF IsModel(tables, p.type) THEN LowerModelArgument(tables, p, a)
                   ELSE LowerArgument(tables, a)
      known == call.action \in DOMAIN tables.actions
      params == tables.actions[call.action]
  IN  IF ~ known THEN [call EXCEPT !.arguments = FlattenSeq(Image(LAMBDA a : LowerArgument(tables, a), @))]
      ELSE IF Len(params) # Len(call.arguments) THEN Rejected
      ELSE [call EXCEPT !.arguments =
              FlattenSeq([i \in DOMAIN params |-> One(params[i], call.arguments[i])])]
RECURSIVE LowerModelStatement(_, _)
\* lower_statement
LowerModelStatement(tables, s) ==
  LET E(e) == LowerModelExpr(tables, e)
      Branch(b) == Image(LAMBDA x : LowerModelStatement(tables, x), b)
  IN  CASE s.s = "assign" ->
             LET n == LowerTarget(tables, s.target, FALSE) IN
             IF n = <<>> THEN Rejected ELSE [s EXCEPT !.target = n, !.value = E(@)]
        [] s.s = "runtime index assign" -> [s EXCEPT !.index = E(@), !.value = E(@)]
        [] s.s = "call" -> LowerCall(tables, s)
        [] s.s = "fail" -> Fail(E(s.message))
        [] s.s = "if" -> If(E(s.condition), Branch(s.yes), Branch(s.no))
        [] OTHER -> s
\* lower_action
LowerModelAction(tables, action) ==
  LET models == SelectSeq(action.params, LAMBDA p : IsModel(tables, p.type))
      inside == [tables EXCEPT !.params = ByName(models, LAMBDA p : [model |-> p.type.model, kind |-> p.kind])]
      Spread(p) == IF ~ IsModel(tables, p.type) THEN <<p>>
                   ELSE Image(LAMBDA m : Parameter(p.kind, ParameterBinding(p.n[1], m.n[1]),
                                                   TypeOfMember(tables.facts, p.type.model, m.n)),
                              StateMembers(tables, p.type.model))
  IN  Action(action.n, FlattenSeq(Image(Spread, action.params)),
             Image(LAMBDA s : LowerModelStatement(inside, s), action.body))
\* lower
LowerModels(program) ==
  LET tables == Tables(program)
      One(d) == CASE d.d = "state" /\ d.implicit ->
                       IF IsRoot(tables, d.n) THEN Expanded(tables, d.n, tables.roots[d.n])
                       ELSE <<State(d.n, d.type, Rejected)>>
                  [] d.d = "state" /\ ~ d.implicit ->
                       <<IF IsModel(tables, d.type) THEN [d EXCEPT !.init = Rejected]
                         ELSE [d EXCEPT !.init = LowerModelExpr(tables, @)]>>
                  [] d.d = "derived" -> <<[d EXCEPT !.expr = LowerModelExpr(tables, @)]>>
                  [] OTHER -> <<LowerModelAction(tables, d)>>
      refused == ~ ModelsFit(program.models) \/ ~ Distinct(program.decls)
  IN  Program(<<>>, IF refused THEN <<State(<<"$refused">>, IntType, Rejected)>>
                    ELSE FlattenSeq(Image(One, program.decls)))
=============================================================================
