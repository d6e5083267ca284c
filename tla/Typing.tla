------------------------------- MODULE Typing -------------------------------
(***************************************************************************)
(* compiler/src/semantic.rs: the static check of a lowered program.  The   *)
(* code goes on after an error to report more of them; a program is        *)
(* accepted when there is none, so here an error is the type ErrorType and *)
(* everything that contains it is one.                                     *)
(*                                                                         *)
(* A scope maps names to [kind, type]; parameters hide symbols.            *)
(***************************************************************************)
EXTENDS Syntax

ErrorType == [t |-> "error"]
Numeric(type) == type.t \in {"Int", "Float"}
Same(a, b) ==
  a.t = b.t /\ (a.t \in {"Sequence", "Named", "live", "maybe"} => a.model = b.model)
TypesCompatible(a, b) == Same(a, b) \/ (Numeric(a) /\ Numeric(b))
\* assignable_to
Assignable(target, source) ==
  Same(target, source) \/ (target.t = "Float" /\ source.t = "Int")
CommonType(a, b) == IF "Float" \in {a.t, b.t} THEN FloatType ELSE a
\* parse_source_type_name: other names are unknown types.
Known(type) == type.t \in {"Int", "Float", "Bool", "String", "Sequence"}

\* binary_result_type
BinaryType(op, a, b) ==
  LET both(type) == a.t = type /\ b.t = type
      numbers == Numeric(a) /\ Numeric(b)
      inSequence == a.t = "String" /\ b.t = "Sequence"
  IN  CASE op = "+" /\ both("String") -> StringType
        [] op \in Arithmetic /\ numbers -> CommonType(a, b)
        [] op \in {"and", "or"} /\ both("Bool") -> BoolType
        [] op \in {"previous in", "next in"} /\ inSequence -> StringType
        [] op = "is in" /\ inSequence -> BoolType
        [] op \in {"contains", "contains ignoring case"} /\ both("String") -> BoolType
        [] op \in {"==", "!="} /\ (numbers \/ (Same(a, b) /\ a.t \in {"Bool", "String", "Sequence"}))
             -> BoolType
        [] op \in Orderings /\ numbers -> BoolType
        [] OTHER -> ErrorType

RECURSIVE TypeOf(_, _)
\* infer_expr for the three forms that reach a member of a live element.
RuntimeTypeOf(scope, e) ==
  LET sequenceOf == IF e.e = "runtime designation member" THEN TRUE
                    ELSE /\ Same(TypeOf(scope, e.source), SequenceType(e.model))
                         /\ TypeOf(scope, e.index).t = "Int"
      carrier == IF e.e = "runtime designation member"
                 THEN TypeOf(scope, e.designation).t = "String" ELSE TRUE
  IN  IF ~ sequenceOf \/ ~ carrier THEN ErrorType
      ELSE IF e.e = "runtime index designation" THEN StringType
      ELSE IF Known(e.type) THEN e.type ELSE ErrorType
ChoiceType(scope, e) ==
  LET a == TypeOf(scope, e.l)
      b == TypeOf(scope, e.r)
  IN  IF TypeOf(scope, e.c).t = "Bool" /\ TypesCompatible(a, b) /\ a.t # "error"
      THEN CommonType(a, b) ELSE ErrorType
\* infer_expr
TypeOf(scope, e) ==
  CASE e.e = "literal" ->
         IF e.v.t = "Sequence" THEN SequenceType(e.v.model) ELSE [t |-> e.v.t]
    [] e.e = "name" ->
         IF e.n \in DOMAIN scope.params THEN scope.params[e.n].type
         ELSE IF e.n \in DOMAIN scope.symbols /\ scope.symbols[e.n].kind # "action"
         THEN scope.symbols[e.n].type ELSE ErrorType
    [] e.e = "binary" ->
         LET a == TypeOf(scope, e.l)
             b == TypeOf(scope, e.r)
         IN  IF "error" \in {a.t, b.t} THEN ErrorType ELSE BinaryType(e.op, a, b)
    [] e.e = "if" -> ChoiceType(scope, e)
    [] e.e \in {"runtime index member", "runtime index designation",
                "runtime designation member"} -> RuntimeTypeOf(scope, e)
    [] e.e = "filter" ->
         IF e.model # "" /\ Same(TypeOf(scope, e.source), SequenceType(e.model))
         THEN SequenceType(e.model) ELSE ErrorType
    [] e.e \in {"reduction", "live sequence"} -> StringType    \* markers of the surfaces
    [] OTHER -> ErrorType    \* a source form that lowering should have removed

\* check_assignment_against_type
AssignmentFits(target, op, value) ==
  IF op = "=" THEN Assignable(target, value)
  ELSE Numeric(target) /\ Numeric(value) /\ Assignable(target, CommonType(target, value))
\* The laxer rule of RuntimeDesignationAssignment: an undefined operator counts as `=`.
DesignationAssignmentFits(target, op, value) ==
  LET result == IF op = "=" THEN value ELSE BinaryType(op, target, value) IN
  Assignable(target, IF result.t = "error" THEN value ELSE result)

\* resolve_writable_state_grant: the type of a state that may be granted.
GrantedType(scope, name) ==
  IF name \in DOMAIN scope.params
  THEN IF scope.params[name].kind = "state" THEN scope.params[name].type ELSE ErrorType
  ELSE IF name \in DOMAIN scope.symbols /\ scope.symbols[name].kind = "state"
  THEN scope.symbols[name].type ELSE ErrorType
MutantArgumentFits(scope, parameter, argument) ==
  IF argument.a = "value" THEN parameter.kind = "value"
     /\ Assignable(parameter.type, TypeOf(scope, argument.value))
  ELSE argument.a = "state" /\ parameter.kind = "state"
     /\ Assignable(GrantedType(scope, argument.n), parameter.type)
ArgumentFits(scope, parameter, argument) ==
  IF argument.a = "value" THEN parameter.kind = "value"
     /\ Assignable(parameter.type, TypeOf(scope, argument.value))
  ELSE argument.a = "state" /\ parameter.kind = "state"
     /\ Same(GrantedType(scope, argument.n), parameter.type)
\* check_action_call; the signatures are those of the whole program.
CallFits(scope, call) ==
  call.action \in DOMAIN scope.signatures
    /\ LET params == scope.signatures[call.action] IN
       /\ Len(params) = Len(call.arguments)
       /\ \A i \in DOMAIN params : ArgumentFits(scope, params[i], call.arguments[i])

RECURSIVE StatementFits(_, _)
\* check_statement_at_current_location
StatementFits(scope, s) ==
  CASE s.s = "assign" ->
         LET target == GrantedType(scope, s.target)
             value == TypeOf(scope, s.value)
         IN  "error" \notin {target.t, value.t} /\ AssignmentFits(target, s.op, value)
    [] s.s = "runtime index assign" ->
         /\ Same(TypeOf([scope EXCEPT !.params = << >>], Name(s.source)), SequenceType(s.model))
         /\ Known(s.type) /\ AssignmentFits(s.type, s.op, TypeOf(scope, s.value))
    [] s.s = "runtime designation assign" ->
         /\ TypeOf(scope, s.designation).t = "String"
         /\ Known(s.type) /\ TypeOf(scope, s.value).t # "error"
         /\ DesignationAssignmentFits(s.type, s.op, TypeOf(scope, s.value))
    [] s.s = "call" -> CallFits(scope, s)
    [] s.s = "fail" -> TypeOf(scope, s.message).t = "String"
    [] s.s = "if" -> /\ TypeOf(scope, s.condition).t = "Bool"
                     /\ \A i \in DOMAIN s.yes : StatementFits(scope, s.yes[i])
                     /\ \A i \in DOMAIN s.no : StatementFits(scope, s.no[i])
    [] OTHER -> FALSE
-----------------------------------------------------------------------------
\* One declaration against the symbols of those before it: the scope after it, or "rejected".
Declared(scope, d) ==
  LET type == IF d.d = "action" THEN ErrorType
              ELSE IF d.d = "state" THEN IF d.type.t # "undeclared" THEN d.type ELSE TypeOf(scope, d.init)
              ELSE IF d.n \in DOMAIN scope.reductions THEN scope.reductions[d.n]
              ELSE TypeOf(scope, d.expr)
      fits ==
        CASE d.d = "state" ->
               /\ TypeOf(scope, d.init).t # "error"
               /\ Known(type) /\ Assignable(type, TypeOf(scope, d.init))
          [] d.d = "derived" -> type.t # "error"
          [] OTHER ->
               LET inside == [scope EXCEPT !.params = ByName(d.params, LAMBDA p : p),
                                           !.symbols = (d.n :> [kind |-> "action", type |-> ErrorType])
                                                         @@ scope.symbols]
               IN  /\ Distinct(d.params)
                   /\ \A i \in DOMAIN d.params : Known(d.params[i].type)
                   /\ \A i \in DOMAIN d.body : StatementFits(inside, d.body[i])
  IN  IF scope.ok /\ d.n \notin DOMAIN scope.symbols /\ fits
      THEN [scope EXCEPT !.symbols = (d.n :> [kind |-> d.d, type |-> type]) @@ scope.symbols]
      ELSE [scope EXCEPT !.ok = FALSE]
\* check_with_runtime_reductions: the checked program, or why there is none.
Checked(program, reductions) ==
  LET start == [ok |-> TRUE, symbols |-> << >>, params |-> << >>, reductions |-> reductions,
                signatures |-> ByName(Declarations(program, "action"), LAMBDA a : a.params)]
  IN  FoldLeft(Declared, start, program.decls)
=============================================================================
