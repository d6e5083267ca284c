----------------------- MODULE ExistingDesignationInsert -----------------------
(***************************************************************************)
(* compiler/src/existing_designation_insert_surface.rs: `insert d into     *)
(* owner.docs` becomes the call of a generated action that takes the       *)
(* identity and the authority to the membership.  The code generates one   *)
(* action for each statement; here there is one for each element model.    *)
(***************************************************************************)
EXTENDS ModelTypes

\* collect_persistent_designation_models
DesignationModels(program) ==
  ByName(SelectSeq(program.decls, LAMBDA d : d.d = "state" /\ IsDesignation(d.type)),
         LAMBDA d : d.type.model)
\* The model of the owner of a target, root or designation, or "".
OwnerModel(t, n) ==
  IF n \in DOMAIN t.roots THEN t.roots[n]
  ELSE IF n \in DOMAIN t.designations THEN t.designations[n] ELSE ""
RECURSIVE LowerStatement(_, _), Finalized(_)
\* lower_insert: stored membership of the model the designation has.
LowerInsert(t, s) ==
  LET d == s.designation
      n == s.target
      model == OwnerModel(t, <<n[1]>>)
  IN  IF /\ d \in DOMAIN t.designations /\ Len(n) = 2 /\ model # ""
         /\ HasMember(t.templates, model, n[2]) /\ KindOf(t.templates, model, n[2]) = "state"
         /\ Same(TypeOfMember(t.templates, model, <<n[2]>>), SequenceType(t.designations[d]))
      THEN Call(InsertAction(t.designations[d]), <<ValueArgument(Name(d)), StateGrant(n)>>)
      ELSE Rejected
\* lower_statements
LowerStatement(t, s) ==
  LET Branch(b) == Image(LAMBDA x : LowerStatement(t, x), b) IN
  CASE s.s = "insert" -> LowerInsert(t, s)
    [] s.s = "if" -> [s EXCEPT !.yes = Branch(@), !.no = Branch(@)]
    [] OTHER -> s
\* lower
LowerInserts(program, templates) ==
  LET t == [templates |-> templates, roots |-> Roots(program),
            designations |-> DesignationModels(program)]
      One(d) == IF d.d # "action" THEN d
                ELSE [d EXCEPT !.body = Image(LAMBDA s : LowerStatement(t, s), @)]
  IN  [program EXCEPT !.decls = Image(One, @)]
-----------------------------------------------------------------------------
\* finalize_statements: the models a generated action is needed for.
Finalized(s) ==
  IF s.s = "call" THEN IF IsInsert(s.action) THEN {s.action[2]} ELSE {}
  ELSE UNION {Finalized(Branches(s)[i]) : i \in DOMAIN Branches(s)}
Helper(model) ==
  Action(InsertAction(model), <<Parameter("value", <<"identity">>, StringType),
                                Parameter("state", <<"target">>, SequenceType(model))>>, <<>>)
\* finalize
FinalizeInserts(program) ==
  LET bodies == FlattenSeq(Image(LAMBDA a : a.body, Declarations(program, "action")))
      models == UNION {Finalized(bodies[i]) : i \in DOMAIN bodies}
  IN  [program EXCEPT !.decls = @ \o Image(Helper, SetToSeq(models))]
=============================================================================
