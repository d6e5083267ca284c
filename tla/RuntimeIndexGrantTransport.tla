--------------------- MODULE RuntimeIndexGrantTransport ---------------------
(***************************************************************************)
(* compiler/src/runtime_index_grant_transport.rs: a grant of the member of *)
(* an element of a runtime sequence, or of a member of a designation,      *)
(* becomes the grant of a carrier: a generated state declared before the   *)
(* action, whose initializer says what to grant.  The code numbers the     *)
(* carriers; here one is named by the place of its argument.               *)
(***************************************************************************)
EXTENDS ModelTypes

\* collect_filter_view_types, collect_model_sequence_types
IndexedSources(program) ==
  ByName(SelectSeq(program.decls, LAMBDA d :
           \/ d.d = "state" /\ Has(d.n, "$mseq") /\ d.type.t = "Sequence"
           \/ d.d = "derived" /\ Has(d.n, "$filter")),
         LAMBDA d : IF d.d = "state" THEN d.type.model ELSE d.expr.model)
\* collect_persistent_designation_models
DesignationModels(program) ==
  ByName(SelectSeq(program.decls, LAMBDA d : d.d = "state" /\ IsDesignation(d.type)),
         LAMBDA d : d.type.model)
\* indexed_grant_expression
IndexedGrant(t, source, index, member) ==
  LET model == t.sources[source] IN
  IF HasMember(t.templates, model, member) /\ KindOf(t.templates, model, member) = "state"
  THEN RuntimeIndexMember(Name(source), index, member, model, TypeOfMember(t.templates, model, <<member>>))
  ELSE Rejected
\* parse_runtime_index_grant, or <<>>
StaticGrant(t, n) ==
  IF ~ IsThrough(n) THEN <<>>
  ELSE SelectSeq(IndexPath(Tail(n)), LAMBDA path :
         Has(path.source, "$mseq") /\ path.source \in DOMAIN t.sources /\ path.member # <<>>)
\* parse_designation_member_grant: a stored member of a top-level designation.
MemberGrant(t, n) ==
  /\ Len(n) = 2 /\ <<n[1]>> \in DOMAIN t.designations
  /\ LET model == t.designations[<<n[1]>>] IN
     HasMember(t.templates, model, n[2]) /\ KindOf(t.templates, model, n[2]) = "state"
\* lower_argument: what the carrier of an argument holds; none when it needs no carrier.
Carried(t, a) ==
  LET n == IF a.a # "state" THEN <<>> ELSE IF IsThrough(a.n) THEN Tail(a.n) ELSE a.n
      path == IF a.a = "state" THEN StaticGrant(t, a.n) ELSE <<>>
      model == t.designations[<<n[1]>>]
  IN  IF a.a = "indexed state" /\ a.source \in DOMAIN t.sources
      THEN IndexedGrant(t, a.source, a.index, a.member)
      ELSE IF path # <<>> THEN IndexedGrant(t, path[1].source, path[1].index, path[1].member[1])
      ELSE IF MemberGrant(t, n)
      THEN RuntimeDesignationMember(Name(<<n[1]>>), n[2], model, TypeOfMember(t.templates, model, <<n[2]>>))
      ELSE NoExpression

Tags == <<"1", "2", "3", "4", "5", "6", "7", "8">>      \* places, bounded by the length
RECURSIVE LowerStatement(_, _, _), CarriersOf(_, _, _)
\* lower_statements
LowerStatement(t, s, at) ==
  LET Branch(b, side) == [i \in DOMAIN b |-> LowerStatement(t, b[i], at \o <<side, Tags[i]>>)]
      One(i, a) == IF Carried(t, a).e = "none" THEN a ELSE StateGrant(Append(at, Tags[i]))
  IN  CASE s.s = "call" -> [s EXCEPT !.arguments = [i \in DOMAIN @ |-> One(i, @[i])]]
        [] s.s = "if" -> [s EXCEPT !.yes = Branch(@, "yes"), !.no = Branch(@, "no")]
        [] OTHER -> s
\* carrier_declaration, for every argument of a statement that has a carrier.
CarriersOf(t, s, at) ==
  LET Branch(b, side) == FlattenSeq([i \in DOMAIN b |-> CarriersOf(t, b[i], at \o <<side, Tags[i]>>)])
      One(i, e) == IF e.e = "none" THEN <<>>
                   ELSE <<State(Append(at, Tags[i]), IF e.e = "rejected" THEN IntType ELSE e.type, e)>>
  IN  CASE s.s = "call" -> FlattenSeq([i \in DOMAIN s.arguments |-> One(i, Carried(t, s.arguments[i]))])
        [] s.s = "if" -> Branch(s.yes, "yes") \o Branch(s.no, "no")
        [] OTHER -> <<>>
\* lower
TransportGrants(program, templates) ==
  LET t == [sources |-> IndexedSources(program), designations |-> DesignationModels(program),
            templates |-> templates]
      At(d, i) == <<"$grant">> \o d.n \o <<Tags[i]>>
      One(d) == IF d.d # "action" THEN <<d>>
                ELSE Append(FlattenSeq([i \in DOMAIN d.body |-> CarriersOf(t, d.body[i], At(d, i))]),
                            [d EXCEPT !.body = [i \in DOMAIN @ |-> LowerStatement(t, @[i], At(d, i))]])
  IN  [program EXCEPT !.decls = FlattenSeq(Image(One, @))]
=============================================================================
