------------------------ MODULE LiveDesignationLowering ------------------------
(***************************************************************************)
(* compiler/src/live_designation_lowering.rs: a designation is a string,   *)
(* the name of its target or "" for none.  A member is read and assigned   *)
(* through it at run time; a grant through it is a choice between the      *)
(* roots declared before the designation, its candidates.                  *)
(***************************************************************************)
EXTENDS ModelTypes

None == Literal(AString(<<>>))
IsLiveState(d) == d.d = "state" /\ IsDesignation(d.type)
IsLiveDerived(d) == d.d = "derived" /\ IsCapture(d.n)
SourceName(d) == IF IsLiveDerived(d) THEN SubSeq(d.n, 3, Len(d.n)) ELSE d.n
Lowered(n) == <<"$dsg">> \o n                            \* lowered_designation_name
\* collect_designations
Designations(program) ==
  LET live == SelectSeq(program.decls, LAMBDA d : IsLiveState(d) \/ IsLiveDerived(d))
      Info(d) ==
        LET model == IF d.d = "state" THEN d.type.model ELSE d.n[2]
            at == Place(program, d.n)
        IN  [n |-> Lowered(SourceName(d)), model |-> model, kind |-> d.d, at |-> at,
             optional |-> d.d = "state" /\ d.type.t = "maybe",
             candidates |-> SelectSeq(Image(LAMBDA r : r.n, RootDeclarations(program)),
                                      LAMBDA n : n \in RootsBefore(program, at, model))]
      named == Image(LAMBDA d : [n |-> SourceName(d), info |-> Info(d)], live)
  IN  ByName(named, LAMBDA x : x.info)
\* check_duplicate_source_names, and the models of the designations
Supported(program) ==
  /\ Distinct(Image(LAMBDA d : [n |-> SourceName(d)], program.decls))
  /\ \A n \in DOMAIN Designations(program) : Designations(program)[n].model \in DOMAIN Models(program)
IsLive(c, n) == n \in DOMAIN c.live
Available(c, n) == IsLive(c, n) /\ c.live[n].at < c.at
Chained(n) == ~ IsGenerated(n) /\ ~ IsCapture(n) /\ Len(n) > 2        \* split_exact_member_path
\* The designation whose member a name reads, and that member.
Owner(c, n) == c.live[<<n[1]>>]
OfDesignation(c, n) == Len(n) = 2 /\ IsLive(c, <<n[1]>>)
OwnerHas(c, n) == HasMember(c.templates, Owner(c, n).model, n[2])
IsSlot(c, n) ==   \* a model-local maybe live
  OfDesignation(c, n) /\ OwnerHas(c, n) /\ Designates(c.templates, Owner(c, n).model, n[2])
SlotModel(c, n) == Named(Named(c.source, Owner(c, n).model).members, <<n[2]>>).type.model
ReadThrough(c, n, type) ==
  RuntimeDesignationMember(Name(Owner(c, n).n), n[2], Owner(c, n).model, type)
-----------------------------------------------------------------------------
RECURSIVE LowerDesignation(_, _, _), LowerExpr(_, _), LowerStatement(_, _), LowerCall(_, _)
\* lower_designation_member_read: the code answers 0 for a member the model does not have.
MemberRead(c, n) ==
  IF ~ Available(c, <<n[1]>>) \/ IsSlot(c, n) THEN Rejected
  ELSE IF ~ OwnerHas(c, n) THEN Literal(AnInt(0))
  ELSE ReadThrough(c, n, TypeOfMember(c.templates, Owner(c, n).model, <<n[2]>>))
\* lower_expr
LowerExpr(c, e) ==
  CASE e.e = "name" ->
         IF IsCapture(e.n) \/ Chained(e.n) \/ IsLive(c, e.n) THEN Rejected
         ELSE IF OfDesignation(c, e.n) THEN MemberRead(c, e.n) ELSE e
    [] e.e = "binary" /\ e.op \in Navigation -> Rejected
    [] e.e = "binary" /\ e.op = "is in" ->
         IF e.l.e = "name" /\ Available(c, e.l.n)
         THEN Binary("is in", Name(c.live[e.l.n].n), LowerExpr(c, e.r)) ELSE Rejected
    [] e.e = "binary" /\ e.op = Present ->
         IF e.l.e = "name" /\ IsLive(c, e.l.n) /\ c.live[e.l.n].optional
         THEN Binary("!=", Name(c.live[e.l.n].n), None) ELSE Rejected
    [] e.e \in {"indexed member", "indexed designation"} -> Unreachable
    [] e.e = "runtime designation member" ->     \* lower_runtime_designation_operand
         LET d == e.designation IN
         IF d.e = "name" /\ IsLive(c, d.n)
         THEN IF Available(c, d.n) THEN [e EXCEPT !.designation = Name(c.live[d.n].n)] ELSE Rejected
         ELSE [e EXCEPT !.designation = LowerExpr(c, @)]
    [] e.e = "filter" -> e
    [] OTHER -> WithParts(e, Image(LAMBDA p : LowerExpr(c, p), Parts(e)))
MutantCopyFits(c, n, want) == Available(c, n) /\ c.live[n].model = want.model
\* A designation may be copied to one that may have all of its targets.
CopyFits(c, n, want) ==
  /\ Available(c, n) /\ c.live[n].model = want.model
  /\ c.live[n].optional => want.optional
  /\ ToSet(c.live[n].candidates) \subseteq ToSet(want.candidates)
\* lower_designation_expr, for the designation `want`.
LowerDesignation(c, e, want) ==
  CASE e.e = "name" ->
         IF e.n = <<"none">> THEN IF want.optional THEN None ELSE Rejected
         ELSE IF IsSlot(c, e.n)                         \* lower_model_local_designation_read
         THEN IF Available(c, <<e.n[1]>>) /\ SlotModel(c, e.n) = want.model /\ want.optional
              THEN ReadThrough(c, e.n, StringType) ELSE Rejected
         ELSE IF IsCapture(e.n)
         THEN IF Contains(want.candidates, Tail(e.n)) THEN Literal(AString(Tail(e.n))) ELSE Rejected
         ELSE IF CopyFits(c, e.n, want) THEN Name(c.live[e.n].n) ELSE Rejected
    [] e.e = "binary" ->
         IF e.op \in Navigation /\ e.l.e = "name" /\ Available(c, e.l.n)
            /\ c.live[e.l.n].model = want.model
         THEN Binary(e.op, Name(c.live[e.l.n].n), LowerExpr(c, e.r)) ELSE Rejected
    [] e.e = "runtime index designation" ->
         IF e.model = want.model THEN WithParts(e, Image(LAMBDA p : LowerExpr(c, p), Parts(e)))
         ELSE Rejected
    [] e.e = "if" -> Choice(LowerExpr(c, e.c), LowerDesignation(c, e.l, want), LowerDesignation(c, e.r, want))
    [] OTHER -> Rejected
\* lower_model_local_designation_assignment_value
SlotValue(c, model, e) ==
  IF e.e # "name" THEN Rejected
  ELSE IF e.n = <<"none">> THEN None
  ELSE IF Available(c, e.n) /\ c.live[e.n].model = model THEN Name(c.live[e.n].n) ELSE Rejected
\* lower_through_assignment
StoreThrough(c, n, op, value) ==
  LET model == Owner(c, n).model
      Store(type, v) == RuntimeDesignationAssignment(Name(Owner(c, n).n), n[2], model, type, op, v)
  IN  IF ~ OfDesignation(c, n) \/ MemberKind(c.program, model, n[2]) # "state" THEN Rejected
      ELSE IF IsSlot(c, n)
      THEN IF op = "=" THEN Store(StringType, SlotValue(c, SlotModel(c, n), value)) ELSE Rejected
      ELSE Store(TypeOfMember(c.templates, model, <<n[2]>>), LowerExpr(c, value))
LowerAssignment(c, s) ==
  LET n == s.target IN
  IF IsThrough(n) THEN StoreThrough(c, Tail(n), s.op, s.value)
  ELSE IF IsLive(c, n)
  THEN IF c.live[n].kind = "state" /\ s.op = "="
       THEN Assignment(c.live[n].n, "=", LowerDesignation(c, s.value, c.live[n])) ELSE Rejected
  ELSE IF Chained(n) \/ OfDesignation(c, n) THEN Rejected
  ELSE [s EXCEPT !.value = LowerExpr(c, @)]
MutantTargetChoice(info, branches) == branches[info.candidates[1]]
\* build_statement_choice: without absence the last candidate is taken without asking.
TargetChoice(info, branches) ==
  LET Selected(root, rest) ==
        If(Binary("==", Name(info.n), Literal(AString(root))), <<branches[root]>>, <<rest>>)
      absent == Fail(Literal(AString(<<"no target">>)))
  IN  IF info.optional THEN FoldRight(Selected, info.candidates, absent)
      ELSE FoldRight(Selected, Front(info.candidates), branches[Last(info.candidates)])
\* The identity an insertion takes is a designation.
LowerArgument(c, a, structural) ==
  CASE a.a = "value" ->
         IF structural /\ a.value.e = "name" /\ IsLive(c, a.value.n)
         THEN ValueArgument(Name(c.live[a.value.n].n)) ELSE ValueArgument(LowerExpr(c, a.value))
    [] a.a = "state" -> IF IsLive(c, a.n) \/ Chained(a.n) \/ OfDesignation(c, a.n) THEN Rejected ELSE a
    [] OTHER -> Unreachable
\* expand_action_call: the first grant through a designation.
LowerCall(c, s) ==
  LET granted == {i \in DOMAIN s.arguments : s.arguments[i].a = "state" /\ IsThrough(s.arguments[i].n)}
      i == CHOOSE i \in granted : \A j \in granted : i <= j
      path == Tail(s.arguments[i].n)
      info == c.live[<<path[1]>>]
      fits == /\ IsLive(c, <<path[1]>>) /\ Len(path) <= 2 /\ info.candidates # <<>>
              /\ Len(path) = 2 => MemberKind(c.program, info.model, path[2]) = "state"
      Granting(root) == LowerCall(c, [s EXCEPT !.arguments[i] = StateGrant(root \o Tail(path))])
  IN  IF granted = {} THEN [s EXCEPT !.arguments = Image(LAMBDA a : LowerArgument(c, a, IsInsert(s.action)), @)]
      ELSE IF fits THEN TargetChoice(info, [root \in ToSet(info.candidates) |-> Granting(root)]) ELSE Rejected
\* lower_statement; the index of a runtime assignment is left as it is.
LowerStatement(c, s) ==
  LET Branch(b) == Image(LAMBDA x : LowerStatement(c, x), b) IN
  CASE s.s = "assign" -> LowerAssignment(c, s)
    [] s.s = "runtime index assign" -> [s EXCEPT !.value = LowerExpr(c, @)]
    [] s.s = "call" -> LowerCall(c, s)
    [] s.s = "fail" -> Fail(LowerExpr(c, s.message))
    [] s.s = "if" -> If(LowerExpr(c, s.condition), Branch(s.yes), Branch(s.no))
    [] OTHER -> IF s.s = "indexed through" THEN Unreachable ELSE s
\* lower; `source` are the models as the program was written.
LowerDesignations(program, source, templates) ==
  LET tables == [program |-> program, source |-> source, templates |-> templates, at |-> 0,
                 live |-> Designations(program)]
      One(c, d) ==
        CASE d.d = "state" ->
               IF IsLiveState(d)
               THEN State(Lowered(d.n), StringType, LowerDesignation(c, d.init, c.live[d.n]))
               ELSE [d EXCEPT !.init = LowerExpr(c, @)]
          [] d.d = "derived" ->
               IF IsLiveDerived(d)
               THEN Derived(Lowered(SourceName(d)), LowerDesignation(c, d.expr, c.live[SourceName(d)]))
               ELSE [d EXCEPT !.expr = LowerExpr(c, @)]
          [] OTHER -> [d EXCEPT !.body = Image(LAMBDA s : LowerStatement(c, s), @)]
  IN  IF ~ Supported(program) THEN Refused
      ELSE [program EXCEPT !.decls = [i \in DOMAIN @ |-> One([tables EXCEPT !.at = i], @[i])]]
=============================================================================
