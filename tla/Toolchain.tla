------------------------------ MODULE Toolchain ------------------------------
(***************************************************************************)
(* check_source_with_runtime_models of compiler/src/lib.rs, the passes in  *)
(* their order; then Runtime::from_program, run_action, and what a host    *)
(* reads of the runtime by the paths of the source.  The surfaces for      *)
(* elements created at run time and for structural edits leave the         *)
(* programs here as they are.                                              *)
(***************************************************************************)
EXTENDS Interpreter, ModelTypes

Inserts == INSTANCE ExistingDesignationInsert
Reductions == INSTANCE ReductionIntegration
Filters == INSTANCE FilterIntegration
MemberSequences == INSTANCE ModelSequenceIntegration
Grants == INSTANCE RuntimeIndexGrantTransport
Sequences == INSTANCE SequenceLowering
StaticReductions == INSTANCE ReductionLowering
ReductionTypes == INSTANCE RuntimeReductionTyping
Designations == INSTANCE LiveDesignationLowering
ModelRoots == INSTANCE ModelLowering
Realization == INSTANCE RuntimeSequenceRealization

\* The next pass, unless one has reported an error (`?` in the code).
Then(program, Pass(_)) ==
  IF ProgramKinds(program) \cap {"rejected", "unreachable"} = {} THEN Pass(program) ELSE program
\* check_source_with_runtime_models, and from_checked_source
Compile(source) ==
  LET templates == ModelFacts(source.models)
      Transport(p) == Grants!TransportGrants(p, templates)
      inserted == Inserts!LowerInserts(source, templates)
      filtered == Then(Then(inserted, Reductions!LowerReductions), Filters!LowerFilters)
      externalized == MemberSequences!ExternalizedSequences(filtered)
      LowerSequences(p) == Sequences!LowerSequences(p, templates, externalized)
      Typed(p) == IF ReductionTypes!Panics(p) THEN [p EXCEPT !.decls = <<State(<<"$panic">>, IntType, Unreachable)>>]
                  ELSE IF ReductionTypes!RuntimeReductionsFit(p) THEN p ELSE Refused
      sequenced == Then(Then(Then(filtered, MemberSequences!LowerModelSequences), Transport), LowerSequences)
      reduced == Then(Then(sequenced, StaticReductions!LowerStaticReductions), Typed)
      types == ReductionTypes!RuntimeReductionTypes(reduced)
      LowerDesignations(p) == Designations!LowerDesignations(p, source.models, templates)
      Realized(p) == Realization!Realize(p, types, externalized)
      finalized == Then(Then(reduced, LowerDesignations), Inserts!FinalizeInserts)
      lowered == Then(finalized, ModelRoots!LowerModels)
      realized == Then(lowered, Realized)
      checked == Checked(realized, types)
      symbols == [n \in {x \in DOMAIN checked.symbols : checked.symbols[x].kind # "action"} |->
                    checked.symbols[n].type]
      kinds == ProgramKinds(realized)
      verdict == IF "unreachable" \in kinds THEN "panicked"
                 ELSE IF "rejected" \in kinds \/ ~ checked.ok THEN "refused" ELSE "checked"
  IN  [verdict |-> verdict, program |-> realized, types |-> symbols, roots |-> DOMAIN Roots(source),
       payloads |-> Realization!Payloads(lowered, types, externalized)]
\* The host reads a path through the binding it was lowered to.
ModelMembers(source, root, kind) ==
  SelectSeq(Models(source)[Roots(source)[root]], LAMBDA m : m.d = kind)
MemberPaths(source, kind) ==
  UNION {{root \o m : m \in Names(ModelMembers(source, root, kind))} : root \in DOMAIN Roots(source)}
Bound_(n, bindings) ==
  CHOOSE b \in IF Len(n) = 1 THEN {n, <<"$dsg">> \o n}
               ELSE {<<mark>> \o n : mark \in {"$sm", "$mseq", "$filter", "$reduce"}} : b \in bindings
Seen(v, type) ==
  IF type.t = "Sequence" /\ v.t = "String"
  THEN ASequence(type.model, Image(LAMBDA x : <<x>>, Tail(v.v)))
  ELSE IF v.t = "Failure" THEN Failure("") ELSE v
WorldOf(source, held) ==
  LET states == SelectSeq(Declarations(source, "state"), LAMBDA d : ~ d.implicit)
      TypeAt(n) == IF Len(n) = 1 THEN Named(states, n).type
                   ELSE Named(ModelMembers(source, <<n[1]>>, "state"), <<n[2]>>).type
  IN  [n \in Names(states) \cup MemberPaths(source, "state") |-> Seen(held[Bound_(n, DOMAIN held)], TypeAt(n))]
ShownOf(source, rt, held) ==
  LET declared == {IF IsCapture(n) THEN SubSeq(n, 3, Len(n)) ELSE n : n \in Names(Declarations(source, "derived"))}
  IN  [n \in declared \cup MemberPaths(source, "derived") |->
         Seen(ReadName(rt, Idle(held), Bound_(n, DOMAIN rt.derived)), Undeclared)]
-----------------------------------------------------------------------------
\* from_program: an initial value that fails is an error, and there is no runtime.
Boot(compiled) ==
  LET booted == Booted(compiled.program, compiled.types, compiled.payloads, compiled.roots)
      errors == {n \in DOMAIN booted.cells : IsError(booted.cells[n])}
  IN  booted @@ [outcome |-> IF errors = {} THEN "done"
                             ELSE IF \E n \in errors : booted.cells[n].t = "Stuck" THEN "stuck"
                             ELSE "unstarted"]
\* run_action, with no arguments.
RunAction(rt, cells, name) ==
  LET ran == Ran(rt, cells, name, <<>>) IN
  [cells |-> ran.cells,
   outcome |-> IF ran.error = NoFrame THEN "done"
               ELSE IF ran.error.t = "Stuck" THEN "stuck" ELSE "failed"]
=============================================================================
