----------------------------- MODULE Interpreter -----------------------------
(***************************************************************************)
(* How compiler/src/runtime.rs executes a checked program: expressions,    *)
(* statements, action calls and state grants, from Runtime::from_program   *)
(* on.  The transaction is a working copy of the cells, dropped when the   *)
(* action fails; caches and edges are DerivedCache's subject, identities   *)
(* created at run time Lifetime's, structural edits OrderedStructure's.    *)
(*                                                                         *)
(* A runtime rt holds what does not change while it runs: the types of the *)
(* cells, the derived expressions, reductions, actions and grant carriers. *)
(* A context holds the cells and what read_name looks through: the frame   *)
(* of the action, the innermost accumulator and traversal element, the     *)
(* derived cells under evaluation.                                         *)
(***************************************************************************)
EXTENDS Typing

NoFrame == [n |-> <<>>]
Idle(cells) == [cells |-> cells, frame |-> << >>, acc |-> NoFrame, element |-> NoFrame, stack |-> <<>>]
InDerived(ctx) == ctx.stack # <<>>      \* owner.is_some()

RECURSIVE Eval(_, _, _), ReadName(_, _, _)
\* runtime_index_target: the index first, then the sequence.
IndexTarget(rt, ctx, e) ==
  LET index == Eval(rt, ctx, e.index)
      source == Eval(rt, ctx, e.source)
  IN  IF IsError(index) THEN index
      ELSE IF index.t # "Int" THEN Stuck("index type")
      ELSE IF index.v < 0 THEN Failure("negative index")
      ELSE IF IsError(source) THEN source
      ELSE IF source.t # "Sequence" \/ source.model # e.model THEN Stuck("index source")
      ELSE IF index.v >= Len(source.v) THEN Failure("out of bounds")
      ELSE AString(source.v[index.v + 1])
\* The identity a designation carries.
DesignationTarget(rt, ctx, e) ==
  LET target == Eval(rt, ctx, e) IN
  IF IsError(target) THEN target
  ELSE IF target.t # "String" THEN Stuck("designation carrier")
  ELSE IF target.v = <<>> THEN Failure("no target") ELSE target
\* A stored or derived member of a live identity (read_designation_member).
ReadMember(rt, ctx, target, member) ==
  IF IsError(target) THEN target ELSE ReadName(rt, ctx, Binding(target.v, member))

\* eval_filter: the retained elements, stably sorted by the key.
EvalFilter(rt, ctx, e) ==
  LET source == Eval(rt, ctx, e.source)
      At(target, x) == Eval(rt, [ctx EXCEPT !.element = [n |-> <<e.element>>, target |-> target]], x)
      test == [i \in DOMAIN source.v |-> At(source.v[i], e.predicate)]
      kept == SelectSeq([i \in DOMAIN source.v |-> i], LAMBDA i : test[i] = ABool(TRUE))
      key == [i \in DOMAIN source.v |-> At(source.v[i], e.order)]
      Before(i, j) == IF key[i].v = key[j].v THEN i < j
                      ELSE (key[i].v < key[j].v) = ~ e.descending
      sorted == IF e.order.e = "none" THEN kept ELSE SortSeq(kept, Before)
  IN  IF IsError(source) THEN source
      ELSE IF source.t # "Sequence" \/ source.model # e.model THEN Stuck("filter source")
      ELSE IF \E i \in DOMAIN test : IsError(test[i])
      THEN test[CHOOSE i \in DOMAIN test : IsError(test[i]) /\ \A j \in 1 .. i - 1 : ~ IsError(test[j])]
      ELSE IF \E i \in DOMAIN test : test[i].t # "Bool" THEN Stuck("predicate type")
      ELSE IF e.order.e # "none" /\ \E i \in DOMAIN kept : key[kept[i]].t # "Int"
      THEN Stuck("ordering key")
      ELSE ASequence(source.model, [i \in DOMAIN sorted |-> source.v[sorted[i]]])
\* eval_runtime_reduction
EvalReduction(rt, ctx, r) ==
  LET source == ReadName(rt, ctx, r.source)
      start == Coerced(Eval(rt, ctx, r.initial), r.type)
      Step(acc, target) ==
        IF IsError(acc) THEN acc
        ELSE Coerced(Eval(rt, [ctx EXCEPT !.acc = [n |-> <<r.accumulator>>, v |-> acc],
                                          !.element = [n |-> <<r.element>>, target |-> target]],
                          r.step), r.type)
  IN  IF IsError(source) THEN source
      ELSE IF source.t # "Sequence" \/ source.model # r.model THEN Stuck("reduction source")
      ELSE FoldLeft(Step, start, source.v)
\* eval_derived, the cache left out.  Frames stay visible below it.
EvalDerived(rt, ctx, n) ==
  LET inside == [ctx EXCEPT !.stack = Append(@, n)] IN
  IF Contains(ctx.stack, n) THEN Stuck("cyclic derived")
  ELSE Coerced(IF n \in DOMAIN rt.reductions THEN EvalReduction(rt, inside, rt.reductions[n])
               ELSE Eval(rt, inside, rt.derived[n]), rt.types[n])
\* read_name
ReadName(rt, ctx, n) ==
  IF n = ctx.acc.n /\ n # <<>> THEN ctx.acc.v
  ELSE IF ctx.element.n # <<>> /\ Len(n) > 0 /\ n[1] = ctx.element.n[1]
  THEN IF Len(n) = 2 THEN ReadName(rt, ctx, Binding(ctx.element.target, n[2]))
       ELSE Stuck("element as a value")
  ELSE IF ~ InDerived(ctx) /\ n \in DOMAIN ctx.frame
  THEN IF ctx.frame[n].kind = "value" THEN ctx.frame[n].v ELSE ctx.cells[ctx.frame[n].n]
  ELSE IF n \in DOMAIN ctx.cells THEN ctx.cells[n]
  ELSE IF n \in DOMAIN rt.derived THEN EvalDerived(rt, ctx, n)
  ELSE Stuck("unknown value")
\* eval_expr
Eval(rt, ctx, e) ==
  CASE e.e = "literal" -> e.v
    [] e.e = "name" -> ReadName(rt, ctx, e.n)
    [] e.e = "binary" /\ e.op \in {"and", "or"} ->
         LET a == Eval(rt, ctx, e.l)
             b == Eval(rt, ctx, e.r)
         IN  IF IsError(a) THEN a
             ELSE IF a.t # "Bool" THEN Stuck("operand type")
             ELSE IF a.v = (e.op = "or") THEN a
             ELSE IF IsError(b) \/ b.t = "Bool" THEN b ELSE Stuck("operand type")
    [] e.e = "binary" /\ e.op \notin {"and", "or"} ->
         LET a == Eval(rt, ctx, e.l)
             b == Eval(rt, ctx, e.r)
         IN  IF IsError(a) THEN a ELSE IF IsError(b) THEN b ELSE ApplyBinary(e.op, a, b)
    [] e.e = "if" ->
         LET c == Eval(rt, ctx, e.c) IN
         IF IsError(c) THEN c
         ELSE IF c.t # "Bool" THEN Stuck("condition type")
         ELSE Eval(rt, ctx, IF c.v THEN e.l ELSE e.r)
    [] e.e = "runtime index designation" -> IndexTarget(rt, ctx, e)
    [] e.e = "runtime index member" -> ReadMember(rt, ctx, IndexTarget(rt, ctx, e), e.member)
    [] e.e = "runtime designation member" ->
         ReadMember(rt, ctx, DesignationTarget(rt, ctx, e.designation), e.member)
    [] e.e = "filter" -> EvalFilter(rt, ctx, e)
    [] OTHER -> Stuck("source form")
-----------------------------------------------------------------------------
\* A running action: the cells so far, the frame on top, the calls below it.
InAction(cells, frame) == [cells |-> cells, frame |-> frame, calls |-> <<>>, error |-> NoFrame]
Stopped(st) == st.error # NoFrame
Raise(st, error) == [st EXCEPT !.error = error]
Context(st) == [Idle(st.cells) EXCEPT !.frame = st.frame]

\* resolve_state_grant: the cell a grant names now.
ResolveGrant(rt, st, n) ==
  IF n \in DOMAIN rt.carriers
  THEN LET e == rt.carriers[n]
           target == IF e.e = "runtime index member" THEN IndexTarget(rt, Context(st), e)
                     ELSE DesignationTarget(rt, Context(st), e.designation)
       IN  IF IsError(target) THEN target ELSE AString(Binding(target.v, e.member))
  ELSE IF n \in DOMAIN st.frame
  THEN IF st.frame[n].kind = "state" THEN AString(st.frame[n].n) ELSE Stuck("no authority")
  ELSE IF n \in DOMAIN st.cells THEN AString(n) ELSE Stuck("unknown writable state")
\* bind_action_arguments, one argument: a value or a cell of exactly that type.
Bound(rt, st, parameter, argument) ==
  IF parameter.kind = "value" /\ argument.a = "value"
  THEN LET v == Coerced(Eval(rt, Context(st), argument.value), parameter.type) IN
       IF IsError(v) THEN v ELSE [t |-> "bound", kind |-> "value", v |-> v]
  ELSE IF parameter.kind # "state" \/ argument.a # "state" THEN Stuck("argument kind")
  ELSE LET cell == ResolveGrant(rt, st, argument.n) IN
       IF IsError(cell) THEN cell
       ELSE IF cell.v \notin DOMAIN st.cells \/ ~ Same(rt.types[cell.v], parameter.type)
       THEN Stuck("granted type")
       ELSE [t |-> "bound", kind |-> "state", n |-> cell.v]
\* write_state
Write(rt, st, n, value) ==
  LET hidden == n \in DOMAIN st.frame
      cell == IF hidden /\ st.frame[n].kind = "state" THEN st.frame[n].n ELSE n
      v == Coerced(value, rt.types[cell])
  IN  IF hidden /\ st.frame[n].kind = "value" THEN Raise(st, Stuck("value parameter"))
      ELSE IF cell \notin DOMAIN st.cells THEN Raise(st, Stuck("unknown state"))
      ELSE IF IsError(v) THEN Raise(st, v)
      ELSE [st EXCEPT !.cells[cell] = v]
\* The value is evaluated before the old one is read for a compound operator.
Store(rt, st, n, op, value) ==
  LET right == Eval(rt, Context(st), value)
      left == ReadName(rt, Context(st), n)
  IN  IF IsError(right) THEN Raise(st, right)
      ELSE IF op = "=" THEN Write(rt, st, n, right)
      ELSE IF IsError(left) THEN Raise(st, left)
      ELSE LET r == ApplyBinary(op, left, right) IN
           IF IsError(r) THEN Raise(st, r) ELSE Write(rt, st, n, r)

\* invoke_scoped_insert: an existing identity joins the membership a grant names now.
InvokeInsert(rt, st, arguments) ==
  LET identity == Eval(rt, Context(st), arguments[1].value)
      cell == ResolveGrant(rt, st, arguments[2].n)
      member == st.cells[cell.v]
  IN  IF IsError(identity) THEN Raise(st, identity)
      ELSE IF IsError(cell) THEN Raise(st, cell)
      ELSE IF cell.v \notin DOMAIN st.cells \/ member.t # "Sequence" THEN Raise(st, Stuck("target"))
      ELSE IF identity.v \notin rt.roots THEN Raise(st, Failure("no such identity"))
      ELSE Write(rt, st, cell.v, ASequence(member.model, Append(member.v, identity.v)))

RECURSIVE Exec(_, _, _)
\* invoke_action for a declared action: bind in the caller's frame, run in the new one.
Invoke(rt, st, name, arguments) ==
  LET action == rt.actions[name]
      bindings == [i \in DOMAIN arguments |-> Bound(rt, st, action.params[i], arguments[i])]
      failed == {i \in DOMAIN bindings : IsError(bindings[i])}
      first == CHOOSE i \in failed : \A j \in failed : i <= j
      inside == [st EXCEPT !.frame = [n \in {action.params[i].n : i \in DOMAIN bindings} |->
                                        bindings[CHOOSE i \in DOMAIN bindings : action.params[i].n = n]],
                           !.calls = Append(@, name)]
      after == FoldLeft(LAMBDA s, x : Exec(rt, s, x), inside, action.body)
  IN  IF IsInsert(name) THEN InvokeInsert(rt, st, arguments)
      ELSE IF Contains(st.calls, name) THEN Raise(st, Failure("recursive call"))
      ELSE IF name \notin DOMAIN rt.actions \/ Len(arguments) # Len(action.params)
      THEN Raise(st, Stuck("unknown action"))
      ELSE IF failed # {} THEN Raise(st, bindings[first])
      ELSE [after EXCEPT !.frame = st.frame, !.calls = st.calls]
\* exec_statement
Exec(rt, st, s) ==
  IF Stopped(st) THEN st
  ELSE CASE s.s = "assign" -> Store(rt, st, s.target, s.op, s.value)
         [] s.s \in {"runtime index assign", "runtime designation assign"} ->
              LET target == IF s.s = "runtime index assign"
                            THEN IndexTarget(rt, Context(st), [s EXCEPT !.source = Name(@)])
                            ELSE DesignationTarget(rt, Context(st), s.designation)
              IN  IF IsError(target) THEN Raise(st, target)
                  ELSE Store(rt, st, Binding(target.v, s.member), s.op, s.value)
         [] s.s = "call" -> Invoke(rt, st, s.action, s.arguments)
         [] s.s = "fail" ->
              LET message == Eval(rt, Context(st), s.message) IN
              Raise(st, IF IsError(message) THEN message ELSE Failure("fail"))
         [] s.s = "if" ->
              LET c == Eval(rt, Context(st), s.condition) IN
              IF IsError(c) THEN Raise(st, c)
              ELSE IF c.t # "Bool" THEN Raise(st, Stuck("condition type"))
              ELSE FoldLeft(LAMBDA r, x : Exec(rt, r, x), st, IF c.v THEN s.yes ELSE s.no)
         [] OTHER -> Raise(st, Stuck("source form"))
-----------------------------------------------------------------------------
IsCarrier(n) == Has(n, "$grant")
\* Runtime::from_program: states are evaluated in the order of their declarations.
Booted(program, types, reductions, roots) ==
  LET Decls(kind) == Declarations(program, kind)
      kept == SelectSeq(Decls("state"), LAMBDA d : ~ IsCarrier(d.n))
      static == [types |-> types, reductions |-> reductions, roots |-> roots,
                 derived |-> ByName(Decls("derived"), LAMBDA d : d.expr),
                 actions |-> ByName(Decls("action"), LAMBDA d : d),
                 carriers |-> ByName(SelectSeq(Decls("state"), LAMBDA d : IsCarrier(d.n)),
                                     LAMBDA d : d.init)]
      Start(cells, d) ==
        (d.n :> Coerced(Eval(static, Idle(cells), d.init), types[d.n])) @@ cells
  IN  [rt |-> static, cells |-> FoldLeft(Start, << >>, kept)]
\* run_action: all of an action or nothing.
Ran(rt, cells, name, arguments) ==
  LET st == Invoke(rt, InAction(cells, << >>), name, arguments) IN
  [cells |-> IF Stopped(st) THEN cells ELSE st.cells, error |-> st.error]
=============================================================================
