------------------------- MODULE RuntimeReductionTyping -------------------------
(***************************************************************************)
(* compiler/src/runtime_reduction_typing.rs: the type of a reduction that  *)
(* stays for the runtime is that of its initial, and its step must fit it. *)
(***************************************************************************)
EXTENDS ModelTypes

\* is_owner_relative_source
IsRuntimeReduction(d) ==
  d.d = "derived" /\ d.expr.e = "reduction" /\ d.expr.source[1] \in {"$mseq", "$filter"}
\* infer_reduction_expr: members of the owner, and in the step the bindings over them.
StepType(scope, r, accumulator) ==
  TypeOf([scope EXCEPT !.params = (<<r.accumulator>> :> [kind |-> "value", type |-> accumulator]) @@ @],
         r.step)
ReductionType(facts, roots, r) ==
  LET element == facts[r.model].types
      reached == {<<r.element>> \o n : n \in DOMAIN element}
      owner == [params |-> << >>,
                symbols |-> [n \in DOMAIN facts[roots[<<r.source[2]>>]].types \ {<<r.accumulator>>, <<r.element>>} |->
                               facts[roots[<<r.source[2]>>]].types[n]]]
      initial == TypeOf(owner, r.initial)
      step == StepType([owner EXCEPT !.params = [n \in reached |-> element[Tail(n)]]], r, initial)
      nested == "reduction" \in Kinds(r.initial) \cup Kinds(r.step)
  IN  IF <<r.source[2]>> \notin DOMAIN roots \/ r.model \notin DOMAIN facts \/ nested THEN ErrorType
      ELSE IF initial.t = "error" \/ ~ Known(initial) \/ initial.t = "Sequence" THEN ErrorType
      ELSE IF step.t = "error" \/ ~ Assignable(initial, step) THEN ErrorType ELSE initial
\* check: the types of the reductions, by name of their declarations; whether it panics.
RuntimeReductionTypes(program) ==
  LET facts == ModelFacts(program.models) IN
  ByName(SelectSeq(program.decls, IsRuntimeReduction),
         LAMBDA d : ReductionType(facts, Roots(program), d.expr))
RuntimeReductionsFit(program) ==
  LET types == RuntimeReductionTypes(program) IN
  ModelsFit(program.models) /\ \A n \in DOMAIN types : types[n].t # "error"
Panics(program) ==
  \E i \in DOMAIN program.decls : LET d == program.decls[i] IN
    IsRuntimeReduction(d) /\ (Kinds(d.expr.initial) \cup Kinds(d.expr.step))
                                 \cap {"indexed member", "indexed designation"} # {}
=============================================================================
