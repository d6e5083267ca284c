------------------------------- MODULE Syntax -------------------------------
(***************************************************************************)
(* The syntax tree of compiler/src/ast.rs, as the passes of the compiler   *)
(* exchange it.  A name is the sequence of its segments: `a.count` is      *)
(* <<"a", "count">>, and a prefix that a pass encodes into a name or into  *)
(* a type (through, live capture, the generated bindings) is a first       *)
(* segment of its own.  Source locations and Display are left out.         *)
(***************************************************************************)
EXTENDS Numbers, SequencesExt

\* Types: parse_type_name of the surface forms.
IntType == [t |-> "Int"]
FloatType == [t |-> "Float"]
BoolType == [t |-> "Bool"]
StringType == [t |-> "String"]
SequenceType(model) == [t |-> "Sequence", model |-> model]
NamedType(name) == [t |-> "Named", model |-> name]
LiveType(model) == [t |-> "live", model |-> model]              \* live T
MaybeLiveType(model) == [t |-> "maybe", model |-> model]        \* maybe live T
Undeclared == [t |-> "undeclared"]                              \* type_name: None

\* Expressions.
Literal(value) == [e |-> "literal", v |-> value]
Name(name) == [e |-> "name", n |-> name]
Binary(op, left, right) == [e |-> "binary", op |-> op, l |-> left, r |-> right]
Choice(condition, yes, no) == [e |-> "if", c |-> condition, l |-> yes, r |-> no]
Filter(source, element, predicate, order, descending, model) ==
  [e |-> "filter", source |-> source, element |-> element, predicate |-> predicate,
   order |-> order, descending |-> descending, model |-> model]
\* seq[index].member and live seq[index], before sequence lowering.
IndexedMember(source, index, member) ==
  [e |-> "indexed member", n |-> source, index |-> index, member |-> member]
IndexedDesignation(source, index) ==
  [e |-> "indexed designation", n |-> source, index |-> index]
\* What sequence and designation lowering leave for the runtime.
RuntimeIndexMember(source, index, member, model, type) ==
  [e |-> "runtime index member", source |-> source, index |-> index, member |-> member,
   model |-> model, type |-> type]
RuntimeIndexDesignation(source, index, model) ==
  [e |-> "runtime index designation", source |-> source, index |-> index, model |-> model]
RuntimeDesignationMember(designation, member, model, type) ==
  [e |-> "runtime designation member", designation |-> designation, member |-> member,
   model |-> model, type |-> type]
\* Strings the surfaces encode: [live a, live b], reduce, and the absent expression.
LiveSequence(targets) == [e |-> "live sequence", targets |-> targets]
Reduction(source, initial, accumulator, element, step, model) ==
  [e |-> "reduction", source |-> source, initial |-> initial, accumulator |-> accumulator,
   element |-> element, step |-> step, model |-> model]
NoExpression == [e |-> "none"]

\* Statements, and arguments of a call.
Assignment(target, op, value) ==
  [s |-> "assign", target |-> target, op |-> op, value |-> value]
IndexedThroughAssignment(source, index, member, op, value) ==
  [s |-> "indexed through", source |-> source, index |-> index, member |-> member,
   op |-> op, value |-> value]
RuntimeIndexAssignment(source, index, member, model, type, op, value) ==
  [s |-> "runtime index assign", source |-> source, index |-> index, member |-> member,
   model |-> model, type |-> type, op |-> op, value |-> value]
RuntimeDesignationAssignment(designation, member, model, type, op, value) ==
  [s |-> "runtime designation assign", designation |-> designation, member |-> member,
   model |-> model, type |-> type, op |-> op, value |-> value]
Call(action, arguments) == [s |-> "call", action |-> action, arguments |-> arguments]
Fail(message) == [s |-> "fail", message |-> message]
Insert(designation, target) == [s |-> "insert", designation |-> designation, target |-> target]
\* The action the code generates for an insertion, one for each element model here.
InsertAction(model) == <<"$insert", model>>
If(condition, yes, no) == [s |-> "if", condition |-> condition, yes |-> yes, no |-> no]

ValueArgument(value) == [a |-> "value", value |-> value]
StateGrant(name) == [a |-> "state", n |-> name]
IndexedStateGrant(source, index, member) ==
  [a |-> "indexed state", source |-> source, index |-> index, member |-> member]

\* Declarations.  An implicit initializer is `state a: Model`.
State(name, type, initializer) ==
  [d |-> "state", n |-> name, type |-> type, init |-> initializer, implicit |-> FALSE]
ModelState(name, model) ==
  [d |-> "state", n |-> name, type |-> NamedType(model), init |-> NoExpression, implicit |-> TRUE]
Derived(name, expression) == [d |-> "derived", n |-> name, expr |-> expression]
\* derived active: live T = ... (decode_live_derived_name)
LiveDerived(name, model, expression) == Derived(<<"$live", model>> \o name, expression)
Parameter(kind, name, type) == [kind |-> kind, n |-> name, type |-> type]
Action(name, parameters, body) ==
  [d |-> "action", n |-> name, params |-> parameters, body |-> body]
\* Members of a model are State and Derived declarations.
Model(name, members) == [n |-> name, members |-> members]
Program(models, declarations) == [models |-> models, decls |-> declarations]

\* What a pass leaves where it reports an error, and where it panics at an unreachable!().
Rejected == [e |-> "rejected", s |-> "rejected", a |-> "rejected"]
Unreachable == [e |-> "unreachable", s |-> "unreachable", a |-> "unreachable"]
Refused == Program(<<>>, <<State(<<"$refused">>, IntType, Rejected)>>)
\* The subexpressions a pass walks through, and the expression with new ones.  The
\* fragments of a reduction are still text: reduction_surface::encode_reduction.
Parts(e) ==
  CASE e.e = "binary" -> <<e.l, e.r>>
    [] e.e = "if" -> <<e.c, e.l, e.r>>
    [] e.e \in {"indexed member", "indexed designation"} -> <<e.index>>
    [] e.e \in {"runtime index member", "runtime index designation"} -> <<e.source, e.index>>
    [] e.e = "runtime designation member" -> <<e.designation>>
    [] e.e = "filter" -> <<e.source, e.predicate, e.order>>
    [] OTHER -> <<>>
WithParts(e, p) ==
  CASE e.e = "binary" -> [e EXCEPT !.l = p[1], !.r = p[2]]
    [] e.e = "if" -> [e EXCEPT !.c = p[1], !.l = p[2], !.r = p[3]]
    [] e.e \in {"indexed member", "indexed designation"} -> [e EXCEPT !.index = p[1]]
    [] e.e \in {"runtime index member", "runtime index designation"} ->
         [e EXCEPT !.source = p[1], !.index = p[2]]
    [] e.e = "runtime designation member" -> [e EXCEPT !.designation = p[1]]
    [] e.e = "filter" -> [e EXCEPT !.source = p[1], !.predicate = p[2], !.order = p[3]]
    [] OTHER -> e

Through(name) == <<"$through">> \o name                 \* encode_through_path
Capture(name) == <<"$live">> \o name                    \* encode_live_capture
Has(name, mark) == Len(name) > 0 /\ name[1] = mark
IsThrough(name) == Has(name, "$through")                \* decode_through_path: Tail(name)
IsCapture(n) == Has(n, "$live")
IsInsert(action) == Has(action, "$insert")
\* Names a pass generated hold no dot.
Generated == {"$sm", "$smp", "$grant", "$mseq", "$filter", "$reduce", "$dsg"}
IsGenerated(n) == Len(n) > 0 /\ n[1] \in Generated
Binding(identity, member) == <<"$sm">> \o identity \o <<member>>   \* model_binding_name
\* A static index is a segment of the path: seq[1].m is seq.#1.m.
Segments == <<"#0", "#1", "#2">>
Index(segment) == CHOOSE i \in 0 .. 2 : Segments[i + 1] = segment
\* decode_index_path, or <<>>
IndexPath(n) ==
  LET at == {i \in DOMAIN n : i > 1 /\ Contains(Segments, n[i]) /\ i + 1 >= Len(n)} IN
  IF at = {} THEN <<>>
  ELSE LET i == CHOOSE i \in at : TRUE IN
       <<[source |-> SubSeq(n, 1, i - 1), index |-> Literal(AnInt(Index(n[i]))),
          member |-> SubSeq(n, i + 1, Len(n))]>>
Present == "is present"
Navigation == {"previous in", "next in"}
Membership == Navigation \cup {"is in"}

Image(Op(_), items) == [i \in DOMAIN items |-> Op(items[i])]
Named(items, n) == items[CHOOSE i \in DOMAIN items : items[i].n = n]
Names(items) == {items[i].n : i \in DOMAIN items}
ByName(items, entry(_)) == [n \in Names(items) |-> entry(Named(items, n))]
Distinct(items) == \A i, j \in DOMAIN items : items[i].n = items[j].n => i = j
Declarations(program, kind) == SelectSeq(program.decls, LAMBDA d : d.d = kind)

\* The kinds of node in an expression, and in a whole program.
RECURSIVE Kinds(_), StatementKinds(_)
Kinds(e) == {e.e} \cup UNION {Kinds(Parts(e)[i]) : i \in DOMAIN Parts(e)}
Expressions(s) ==   \* of a statement itself
  CASE s.s = "assign" -> <<s.value>>
    [] s.s \in {"indexed through", "runtime index assign"} -> <<s.index, s.value>>
    [] s.s = "runtime designation assign" -> <<s.designation, s.value>>
    [] s.s = "fail" -> <<s.message>>
    [] s.s = "if" -> <<s.condition>>
    [] s.s = "insert" -> <<>>
    [] s.s = "call" ->
         Image(LAMBDA a : IF a.a = "value" THEN a.value
                          ELSE IF a.a = "indexed state" THEN a.index
                          ELSE IF a.a = "state" THEN NoExpression ELSE a, s.arguments)
    [] OTHER -> <<s>>
Branches(s) == IF s.s = "if" THEN s.yes \o s.no ELSE <<>>
StatementKinds(s) ==
  UNION ({Kinds(Expressions(s)[i]) : i \in DOMAIN Expressions(s)}
           \cup {StatementKinds(Branches(s)[i]) : i \in DOMAIN Branches(s)})
DeclarationKinds(d) ==
  IF d.d = "action" THEN UNION {StatementKinds(d.body[i]) : i \in DOMAIN d.body}
  ELSE Kinds(IF d.d = "state" THEN d.init ELSE d.expr)
ProgramKinds(program) ==
  UNION {DeclarationKinds(program.decls[i]) : i \in DOMAIN program.decls}
=============================================================================
