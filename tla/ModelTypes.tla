----------------------------- MODULE ModelTypes -----------------------------
(***************************************************************************)
(* The types of the members of the state models: model_types.rs, with the  *)
(* parts of runtime_model_templates.rs and program_facts.rs the passes of  *)
(* the compiler ask.  A member of a model is named <<member>>.             *)
(***************************************************************************)
EXTENDS Typing

PrimitiveNames == {"Int", "Float", "Bool", "String"}
IsDesignation(type) == type.t \in {"live", "maybe"}
NameOnly(e, n) == e.e = "name" /\ e.n = <<n>>

RECURSIVE Mentions(_, _)
Mentions(e, names) ==   \* expression_references_designation
  \/ e.e = "name" /\ e.n \in names
  \/ \E i \in DOMAIN Parts(e) : Mentions(Parts(e)[i], names)
\* infer_model_expr_type: only earlier members of the model are in scope.
MemberTypeOf(locals, e) ==
  LET scope == [symbols |-> locals, params |-> << >>] IN
  IF e.e = "filter"
  THEN LET source == TypeOf(scope, e.source) IN IF source.t = "Sequence" THEN source ELSE ErrorType
  ELSE TypeOf(scope, e)
\* resolve_model, one member after those before it.
ResolvedMember(facts, m, models) ==
  LET expression == IF m.d = "state" THEN m.init ELSE m.expr
      declared == IF m.d = "state" THEN m.type ELSE Undeclared
      designation == declared.t = "maybe"
      inferred == IF designation THEN IF NameOnly(expression, "none") THEN StringType ELSE ErrorType
                  ELSE IF declared.t = "Sequence" /\ expression.e = "live sequence" THEN declared
                  ELSE MemberTypeOf(facts.types, expression)
      type == IF designation THEN StringType
              ELSE IF declared.t = "undeclared" THEN inferred ELSE declared
      ok == /\ m.n \notin DOMAIN facts.types
            /\ declared.t \in PrimitiveNames \cup {"Sequence", "maybe", "undeclared"}
            /\ designation => declared.model \in models
            /\ ~ designation => ~ Mentions(expression, facts.designations)
            /\ inferred.t # "error" /\ Assignable(type, inferred)
  IN  [ok |-> facts.ok /\ ok,
       types |-> (m.n :> [kind |-> m.d, type |-> type]) @@ facts.types,
       designations |-> facts.designations \cup (IF designation THEN {m.n} ELSE {})]
\* resolve
ModelFacts(models) ==
  LET names == {models[i].n : i \in DOMAIN models}
      start == [ok |-> TRUE, types |-> << >>, designations |-> {}]
  IN  ByName(models, LAMBDA m : FoldLeft(LAMBDA f, x : ResolvedMember(f, x, names), start, m.members))
ModelsFit(models) ==
  /\ Distinct(models)
  /\ \A i \in DOMAIN models : models[i].n \notin PrimitiveNames
  /\ \A n \in DOMAIN ModelFacts(models) : ModelFacts(models)[n].ok
-----------------------------------------------------------------------------
\* ProgramFacts: the roots `state a: Model` of known models.
RootDeclarations(program) ==
  SelectSeq(program.decls, LAMBDA d :
    d.d = "state" /\ d.implicit /\ d.type.t = "Named"
      /\ d.type.model \in {program.models[i].n : i \in DOMAIN program.models})
Roots(program) == ByName(RootDeclarations(program), LAMBDA d : d.type.model)
Models(program) == ByName(program.models, LAMBDA m : m.members)
\* Where a name is declared, for "not available before its declaration".
Place(program, n) == CHOOSE i \in DOMAIN program.decls : program.decls[i].n = n
RootsBefore(program, i, model) ==
  {n \in DOMAIN Roots(program) : Roots(program)[n] = model /\ Place(program, n) < i}
\* The kind of a member in the program as it is now: "state", "derived" or "none".
MemberKind(program, model, member) ==
  LET members == Models(program)[model]
      found == {i \in DOMAIN members : members[i].n = <<member>>}
  IN  IF found = {} THEN "none" ELSE members[CHOOSE i \in found : TRUE].d
\* A member of the template of a model, of the program as it was written.
HasMember(templates, model, member) == <<member>> \in DOMAIN templates[model].types
KindOf(templates, model, member) == templates[model].types[<<member>>].kind
TypeOfMember(templates, model, member) == templates[model].types[member].type
Designates(templates, model, member) == <<member>> \in templates[model].designations
=============================================================================
