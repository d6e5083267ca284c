--------------------------- MODULE ReductionLowering ---------------------------
(***************************************************************************)
(* compiler/src/reduction_lowering.rs: a reduction over a [live T] state   *)
(* is written out, for each of the values the state may have, as the step  *)
(* substituted into itself once for each element.  Those over a member     *)
(* sequence or a view are preserved for the runtime.                       *)
(***************************************************************************)
EXTENDS ModelTypes

IsEncoded(e) == e.e = "literal" /\ e.v.t = "String" /\ Has(e.v.v, "$seq")   \* decode_sequence_value
Targets(e) == Tail(e.v.v)
RECURSIVE Assigned(_, _)
\* collect_assignment_variants
Assigned(statements, n) ==
  LET Of(s) == CASE s.s = "assign" -> IF s.target = n /\ IsEncoded(s.value) THEN <<s.value>> ELSE <<>>
                 [] s.s = "if" -> Assigned(s.yes, n) \o Assigned(s.no, n)
                 [] OTHER -> <<>>
  IN  FlattenSeq(Image(Of, statements))
\* collect_sequences
Sequences(program) ==
  LET bodies == FlattenSeq(Image(LAMBDA a : a.body, Declarations(program, "action")))
      Add(variants, e) == IF \E i \in DOMAIN variants : variants[i].v = e.v THEN variants
                          ELSE Append(variants, e)
  IN  ByName(SelectSeq(program.decls, LAMBDA d : d.d = "state" /\ IsEncoded(d.init)),
             LAMBDA d : [n |-> d.n, at |-> Place(program, d.n),
                         variants |-> FoldLeft(Add, <<d.init>>, Assigned(bodies, d.n))])
RuntimeForms == {"runtime index member", "runtime index designation", "runtime designation member"}
Indexed == {"indexed member", "indexed designation"}
-----------------------------------------------------------------------------
RECURSIVE ReadsFit(_, _, _, _)
\* reject_sequence_projection and validate_step: what a fragment may read.
ReadsFit(c, r, e, bindings) ==
  IF e.e # "name"
  THEN /\ e.e \notin RuntimeForms \cup {"filter"}
       /\ bindings => e.e # "reduction"
       /\ \A i \in DOMAIN Parts(e) : ReadsFit(c, r, Parts(e)[i], bindings)
  ELSE IF bindings /\ e.n[1] = r.element
  THEN Len(e.n) = 2 /\ MemberKind(c.program, r.model, e.n[2]) # "none"
  ELSE (bindings /\ e.n = <<r.accumulator>>) \/ <<e.n[1]>> \notin DOMAIN c.sequences
RECURSIVE Substituted(_, _, _, _)
\* substitute_step
Substituted(r, e, accumulator, target) ==
  CASE e.e = "name" -> IF e.n = <<r.accumulator>> THEN accumulator
                       ELSE IF e.n[1] = r.element THEN Name(<<target>> \o Tail(e.n)) ELSE e
    [] OTHER -> WithParts(e, Image(LAMBDA p : Substituted(r, p, accumulator, target), Parts(e)))
\* build_variant_choice
VariantChoice(info, values) ==
  FoldRight(LAMBDA v, rest : Choice(Binary("==", Name(info.n), info.variants[v]), values[v], rest),
            [v \in 1 .. Len(values) - 1 |-> v], Last(values))
RECURSIVE LowerExpr(_, _)
\* lower_reduction; rewrite_owner_local_names panics on an index of either fragment.
Written(c, r) ==
  LET info == c.sequences[r.source]
      Value(v) == LowerExpr(c, FoldLeft(LAMBDA acc, target : Substituted(r, r.step, acc, target),
                                        r.initial, Targets(v)))
  IN  IF r.source \notin DOMAIN c.sequences \/ r.model \notin DOMAIN Models(c.program) THEN Rejected
      ELSE IF (Kinds(r.initial) \cup Kinds(r.step)) \cap Indexed # {} THEN Unreachable
      ELSE IF /\ info.at < c.at
              /\ ReadsFit(c, r, r.initial, FALSE) /\ ReadsFit(c, r, r.step, TRUE)
      THEN VariantChoice(info, Image(Value, info.variants)) ELSE Rejected
\* lower_expr
LowerExpr(c, e) ==
  CASE e.e = "reduction" -> IF e.source[1] \in {"$mseq", "$filter"} THEN e ELSE Written(c, e)
    [] e.e \in Indexed -> Unreachable
    [] e.e \in RuntimeForms \cup {"filter"} -> e
    [] OTHER -> WithParts(e, Image(LAMBDA p : LowerExpr(c, p), Parts(e)))
RECURSIVE LowerStatement(_, _)
LowerArgument(c, a) ==
  CASE a.a = "value" -> ValueArgument(LowerExpr(c, a.value))
    [] a.a = "indexed state" -> Unreachable
    [] OTHER -> a
\* lower_statement
LowerStatement(c, s) ==
  LET Branch(b) == Image(LAMBDA x : LowerStatement(c, x), b) IN
  CASE s.s \in {"assign", "runtime index assign"} -> [s EXCEPT !.value = LowerExpr(c, @)]
    [] s.s = "call" -> [s EXCEPT !.arguments = Image(LAMBDA a : LowerArgument(c, a), @)]
    [] s.s = "fail" -> Fail(LowerExpr(c, s.message))
    [] s.s = "if" -> If(LowerExpr(c, s.condition), Branch(s.yes), Branch(s.no))
    [] OTHER -> Unreachable
\* lower_preserving_model_sequences, with reject_unlowered_model_reductions
LowerStaticReductions(program) ==
  LET tables == [program |-> program, sequences |-> Sequences(program), at |-> 0]
      MemberKinds(m) == Kinds(IF m.d = "state" THEN m.init ELSE m.expr)
      fits == \A i \in DOMAIN program.models : LET members == program.models[i].members IN
                \A j \in DOMAIN members : "reduction" \notin MemberKinds(members[j])
      One(c, d) == CASE d.d = "state" -> [d EXCEPT !.init = LowerExpr(c, @)]
                     [] d.d = "derived" -> [d EXCEPT !.expr = LowerExpr(c, @)]
                     [] OTHER -> [d EXCEPT !.body = Image(LAMBDA s : LowerStatement(c, s), @)]
  IN  IF ~ fits THEN Refused
      ELSE [program EXCEPT !.decls = [i \in DOMAIN @ |-> One([tables EXCEPT !.at = i], @[i])]]
=============================================================================
