---------------------- MODULE RuntimeSequenceRealization ----------------------
(***************************************************************************)
(* compiler/src/runtime_sequence_realization.rs: the member sequences that *)
(* the program indexes, filters, reduces or inserts into become runtime    *)
(* sequences, and the reductions over them payloads of the runtime.        *)
(***************************************************************************)
EXTENDS ModelTypes

RECURSIVE UsedIn(_), UsedBy(_)
\* collect_runtime_index_sequences_from_expr: [n, model] of the sequences it names.
UsedIn(e) ==
  CASE e.e \in {"runtime index member", "runtime index designation"} ->
         IF e.source.e = "name" THEN <<[n |-> e.source.n, model |-> e.model]>> ELSE UsedIn(e.source)
    [] e.e = "filter" -> UsedIn(e.source) \o UsedIn(e.predicate)
    [] OTHER -> FlattenSeq(Image(UsedIn, Parts(e)))
\* collect_mutation_sequences_from_statements; of a call only the target of an insertion counts.
UsedBy(s) ==
  CASE s.s = "runtime index assign" -> <<[n |-> s.source, model |-> s.model]>> \o UsedIn(s.value)
    [] s.s = "call" ->
         IF IsInsert(s.action) /\ ~ Has(s.arguments[2].n, "$grant")
         THEN <<[n |-> s.arguments[2].n, model |-> s.action[2]]>> ELSE <<>>
    [] OTHER -> FlattenSeq(Image(UsedIn, Expressions(s))) \o FlattenSeq(Image(UsedBy, Branches(s)))
\* collect_runtime_sequences: by binding, the model of the elements.
RuntimeSequences(program, externalized) ==
  LET Of(d) ==
        CASE d.d = "state" -> UsedIn(d.init)
          [] d.d = "action" -> FlattenSeq(Image(UsedBy, d.body))
          [] d.expr.e = "filter" ->
               IF d.expr.source.n \in DOMAIN externalized
               THEN <<[n |-> d.expr.source.n, model |-> d.expr.model]>> ELSE <<>>
          [] d.expr.e = "reduction" ->
               IF d.expr.source \in DOMAIN externalized
               THEN <<[n |-> d.expr.source, model |-> d.expr.model]>> ELSE <<>>
          [] OTHER -> UsedIn(d.expr)
  IN  ByName(FlattenSeq(Image(Of, program.decls)), LAMBDA u : u.model)
-----------------------------------------------------------------------------
IsEncoded(e) == e.e = "literal" /\ e.v.t = "String" /\ Has(e.v.v, "$seq")
\* lower_sequence_value_for
Realized(e, model) ==
  IF IsEncoded(e) THEN Literal(ASequence(model, Image(LAMBDA target : <<target>>, Tail(e.v.v))))
  ELSE Rejected
RECURSIVE RealizeExpr(_, _), RealizeStatement(_, _)
\* lower_sequence_comparison_side
Side(sequences, value, other) ==
  IF IsEncoded(value) /\ other.e = "name" /\ other.n \in DOMAIN sequences
  THEN Realized(value, sequences[other.n]) ELSE value
\* lower_expr
RealizeExpr(sequences, e) ==
  CASE e.e = "binary" ->
         LET a == RealizeExpr(sequences, e.l)
             b == RealizeExpr(sequences, e.r)
         IN  IF e.op \in {"==", "!="}
             THEN Binary(e.op, Side(sequences, a, b), Side(sequences, b, a))
             ELSE Binary(e.op, a, b)
    [] e.e = "filter" -> e
    [] e.e \in {"indexed member", "indexed designation"} -> Unreachable
    [] OTHER -> WithParts(e, Image(LAMBDA p : RealizeExpr(sequences, p), Parts(e)))
RealizeStatement(sequences, s) ==
  LET E(e) == RealizeExpr(sequences, e)
      Branch(b) == Image(LAMBDA x : RealizeStatement(sequences, x), b)
      Argument(a) == CASE a.a = "value" -> ValueArgument(E(a.value))
                       [] a.a = "state" -> a
                       [] OTHER -> Unreachable
  IN  CASE s.s = "assign" ->
             [s EXCEPT !.value = IF s.target \in DOMAIN sequences THEN Realized(@, sequences[s.target])
                                 ELSE E(@)]
        [] s.s = "runtime index assign" -> [s EXCEPT !.value = E(@)]
        [] s.s = "runtime designation assign" -> [s EXCEPT !.designation = E(@), !.value = E(@)]
        [] s.s = "call" -> [s EXCEPT !.arguments = Image(Argument, @)]
        [] s.s = "fail" -> Fail(E(s.message))
        [] s.s = "if" -> If(E(s.condition), Branch(s.yes), Branch(s.no))
        [] OTHER -> Unreachable
-----------------------------------------------------------------------------
IsPayload(d, externalized) ==   \* is_runtime_reduction_source
  d.d = "derived" /\ d.expr.e = "reduction"
    /\ (d.expr.source \in DOMAIN externalized \/ Has(d.expr.source, "$filter"))
RECURSIVE OwnerNames(_, _, _)
\* rewrite_runtime_reduction_owner_names
OwnerNames(r, e, bindings) ==
  IF e.e = "name"
  THEN IF Len(e.n) > 1 \/ e.n[1] \in bindings THEN e ELSE Name(Binding(<<r.source[2]>>, e.n[1]))
  ELSE WithParts(e, Image(LAMBDA p : OwnerNames(r, p, bindings), Parts(e)))
\* lower_runtime_reduction
Payload(r, type) ==
  [source |-> r.source, model |-> r.model, type |-> type,
   accumulator |-> r.accumulator, element |-> r.element,
   initial |-> OwnerNames(r, r.initial, {}),
   step |-> OwnerNames(r, r.step, {r.accumulator, r.element})]
Payloads(program, types, externalized) ==
  ByName(SelectSeq(program.decls, LAMBDA d : IsPayload(d, externalized)),
         LAMBDA d : Payload(d.expr, types[d.n]))
Default(type) ==
  CASE type.t = "Int" -> AnInt(0)
    [] type.t = "Float" -> AFloat(Finite(0))
    [] type.t = "Bool" -> ABool(FALSE)
    [] OTHER -> AString(<<>>)
\* lower
Realize(program, types, externalized) ==
  LET sequences == RuntimeSequences(program, externalized)
      One(d) ==
        CASE d.d = "state" ->
               IF d.n \in DOMAIN sequences
               THEN [d EXCEPT !.type = SequenceType(sequences[d.n]), !.init = Realized(@, sequences[d.n])]
               ELSE [d EXCEPT !.init = RealizeExpr(sequences, @)]
          [] d.d = "derived" ->
               IF IsPayload(d, externalized) THEN [d EXCEPT !.expr = Literal(Default(types[d.n]))]
               ELSE [d EXCEPT !.expr = RealizeExpr(sequences, @)]
          [] OTHER -> [d EXCEPT !.body = Image(LAMBDA s : RealizeStatement(sequences, s), @)]
  IN  [program EXCEPT !.decls = Image(One, @)]
=============================================================================
