------------------------------- MODULE Language -------------------------------
(***************************************************************************)
(* What a program means, read from its source: names are scoped lexically, *)
(* a designation is followed to the element it designates now, a grant     *)
(* names one cell from the call on, an action happens whole or not at all. *)
(* There is no compilation here: the world is the members of the roots and *)
(* the states, by the paths the program uses.                              *)
(*                                                                         *)
(* An element is AString of the name of its root, and a designation the    *)
(* element it designates, or AString(<<>>).  A scope holds the names an    *)
(* expression may use: values, elements, cells granted, copies of models,  *)
(* and the owner, the element whose members need no path.                  *)
(***************************************************************************)
EXTENDS Syntax

CONSTANT Sources     \* the programs, of which one runs

VARIABLES
  choice,    \* which program
  world,     \* the members and states it has, by path
  shown,     \* its derived values
  asked,     \* the action the host asks for, or <<>>
  outcome    \* of the last thing the host asked for

vars == <<choice, world, shown, asked, outcome>>

Declared(p, x) ==     \* the declaration of a top-level name
  LET at == {i \in DOMAIN p.decls : x = IF IsCapture(p.decls[i].n) THEN SubSeq(p.decls[i].n, 3, Len(p.decls[i].n))
                                        ELSE p.decls[i].n} IN
  p.decls[CHOOSE i \in at : TRUE]
IsRoot(d) == d.d = "state" /\ d.implicit
Members(p, model) == Named(p.models, model).members

Nobody == [t |-> "nobody"]
Outside == [names |-> << >>, owner |-> Nobody, calls |-> <<>>]
ModelOf(p, o) == IF o.t = "copy" THEN o.model ELSE Declared(p, o.v).type.model
Kept(type, v) ==     \* a value as a state of a declared type keeps it
  IF IsError(v) THEN v
  ELSE IF type.t = "Sequence" THEN ASequence(type.model, v.v)
  ELSE IF type.t \in {"Int", "Float", "Bool", "String"} THEN Coerced(v, type) ELSE v
-----------------------------------------------------------------------------
RECURSIVE Eval(_, _, _, _), Follow(_, _, _, _)
\* A member of an element or of a copy; what is derived is derived from its owner alone.
MemberOf(p, w, o, m) ==
  LET member == Named(Members(p, ModelOf(p, o)), <<m>>) IN
  IF member.d = "derived" THEN Eval(p, w, [Outside EXCEPT !.owner = o], member.expr)
  ELSE IF o.t = "copy" THEN o.vs[<<m>>] ELSE w[o.v \o <<m>>]
ElementAt(v, index) ==
  IF IsError(v) THEN v ELSE IF IsError(index) THEN index
  ELSE IF index.v + 1 \in DOMAIN v.v THEN AString(v.v[index.v + 1]) ELSE Failure("no such place")
\* What a path leads to from a value.
Follow(p, w, v, path) ==
  IF IsError(v) \/ path = <<>> THEN v
  ELSE IF v.t = "Sequence" THEN Follow(p, w, ElementAt(v, AnInt(Index(path[1]))), Tail(path))
  ELSE IF v.t = "String" /\ v.v = <<>> THEN Failure("no target")
  ELSE Follow(p, w, MemberOf(p, w, v, path[1]), Tail(path))
\* What a name is: the innermost binding, a member of the owner, a root, a state, a derived.
Read(p, w, scope, n) ==
  LET x == <<n[1]>>
      head == CASE x \in DOMAIN scope.names ->
                     IF scope.names[x].t = "cell" THEN w[scope.names[x].n] ELSE scope.names[x]
                [] x \notin DOMAIN scope.names /\ scope.owner.t # "nobody"
                     /\ x \in Names(Members(p, ModelOf(p, scope.owner))) -> MemberOf(p, w, scope.owner, n[1])
                [] OTHER -> IF x = <<"none">> THEN AString(<<>>)
                            ELSE IF IsRoot(Declared(p, x)) THEN AString(x)
                            ELSE IF x \in DOMAIN w THEN w[x]
                            ELSE Eval(p, w, Outside, Declared(p, x).expr)
  IN  Follow(p, w, head, Tail(n))
With(scope, x, v) == [scope EXCEPT !.names = (<<x>> :> v) @@ @]
\* The elements the predicate holds of, in the order of the key and else of the source.
Filtered(p, w, scope, e) ==
  LET source == Eval(p, w, scope, e.source)
      At(i, x) == Eval(p, w, With(scope, e.element, AString(source.v[i])), x)
      Key(i) == IF e.order.e = "none" THEN 0 ELSE At(i, e.order).v
      Before(i, j) == IF Key(i) = Key(j) THEN i < j ELSE (Key(i) < Key(j)) = ~ e.descending
      chosen == SelectSeq([i \in DOMAIN source.v |-> i], LAMBDA i : At(i, e.predicate) = ABool(TRUE))
  IN  IF IsError(source) THEN source
      ELSE IF \E i \in DOMAIN source.v : IsError(At(i, e.predicate)) THEN Failure("predicate")
      ELSE IF \E i \in ToSet(chosen) : e.order.e # "none" /\ IsError(At(i, e.order)) THEN Failure("key")
      ELSE ASequence(source.model, Image(LAMBDA i : source.v[i], SortSeq(chosen, Before)))
\* The step from the first element to the last; the type is that of the initial.
Reduced(p, w, scope, e) ==
  LET source == Read(p, w, scope, e.source)
      initial == Eval(p, w, scope, e.initial)
      Step(acc, target) ==
        IF IsError(acc) THEN acc
        ELSE Kept(initial, Eval(p, w, With(With(scope, e.element, AString(target)), e.accumulator, acc), e.step))
  IN  IF IsError(source) THEN source ELSE FoldLeft(Step, initial, source.v)
Eval(p, w, scope, e) ==
  CASE e.e = "literal" -> e.v
    [] e.e = "live sequence" -> ASequence("", e.targets)
    [] e.e = "none" -> AString(<<>>)
    [] e.e = "name" -> IF IsCapture(e.n) THEN AString(Tail(e.n)) ELSE Read(p, w, scope, e.n)
    [] e.e = "indexed designation" -> ElementAt(Read(p, w, scope, e.n), Eval(p, w, scope, e.index))
    [] e.e = "indexed member" ->
         Follow(p, w, ElementAt(Read(p, w, scope, e.n), Eval(p, w, scope, e.index)), <<e.member>>)
    [] e.e = "filter" -> Filtered(p, w, scope, e)
    [] e.e = "reduction" -> Reduced(p, w, scope, e)
    [] e.e = "if" ->
         LET c == Eval(p, w, scope, e.c) IN
         IF IsError(c) THEN c ELSE Eval(p, w, scope, IF c.v THEN e.l ELSE e.r)
    [] OTHER ->
         LET a == Eval(p, w, scope, e.l)
             b == Eval(p, w, scope, e.r)
         IN  IF IsError(a) THEN a
             ELSE IF e.op = Present THEN ABool(a.v # <<>>)
             ELSE IF e.op \in {"and", "or"} THEN IF a.v = (e.op = "or") THEN a ELSE b
             ELSE IF IsError(b) THEN b ELSE ApplyBinary(e.op, a, b)
-----------------------------------------------------------------------------
\* The cell a path names: an error when the element on the way is absent.
CellAt(p, w, scope, path) ==
  LET n == IF IsThrough(path) THEN Tail(path) ELSE path
      owner == Read(p, w, scope, Front(n))
  IN  IF Len(n) = 1
      THEN IF n \in DOMAIN scope.names THEN scope.names[n] ELSE [t |-> "cell", n |-> n]
      ELSE IF IsError(owner) THEN owner
      ELSE IF owner.v = <<>> THEN Failure("no target")
      ELSE [t |-> "cell", n |-> owner.v \o <<Last(n)>>]
CellOf(p, w, scope, source, index, member) ==
  LET element == ElementAt(Read(p, w, scope, source), Eval(p, w, scope, index)) IN
  IF IsError(element) THEN element ELSE [t |-> "cell", n |-> element.v \o <<member>>]
\* What a parameter stands for in the call.
ArgumentOf(p, w, scope, parameter, a) ==
  LET copied == Read(p, w, scope, a.value.n)
      granted == Read(p, w, scope, IF IsThrough(a.n) THEN Tail(a.n) ELSE a.n)
      stored == SelectSeq(Members(p, parameter.type.model), LAMBDA m : m.d = "state")
  IN  CASE parameter.kind = "value" /\ parameter.type.t = "Named" ->
             IF copied.t = "copy" \/ IsError(copied) THEN copied
             ELSE [t |-> "copy", model |-> parameter.type.model,
                   vs |-> [m \in Names(stored) |-> w[copied.v \o m]]]
        [] parameter.kind = "value" /\ parameter.type.t # "Named" ->
             Kept(parameter.type, Eval(p, w, scope, a.value))
        [] OTHER -> IF parameter.type.t = "Named"
                    THEN IF granted.v = <<>> THEN Failure("no target") ELSE granted
                    ELSE IF a.a = "state" THEN CellAt(p, w, scope, a.n)
                    ELSE CellOf(p, w, scope, a.source, a.index, a.member)
\* Where a run of statements is: the world so far, or the error it stopped with.
Going(w) == [w |-> w, error |-> Nobody]
Went(r) == r.error.t = "nobody"
Halt(r, error) == [r EXCEPT !.error = error]
Assign(r, cell, op, v) ==
  LET old == r.w[cell.n]
      value == IF op = "=" THEN v ELSE ApplyBinary(op, old, v)
      stored == Kept(IF old.t = "Sequence" THEN SequenceType(old.model) ELSE [t |-> old.t], value)
  IN  IF IsError(v) THEN Halt(r, v) ELSE IF IsError(cell) THEN Halt(r, cell)
      ELSE IF IsError(stored) THEN Halt(r, stored)
      ELSE [r EXCEPT !.w[cell.n] = stored]
RECURSIVE Run(_, _, _, _)
Block(p, r, scope, statements) == FoldLeft(LAMBDA q, s : Run(p, q, scope, s), r, statements)
Called(p, r, scope, name, arguments) ==
  LET action == Declared(p, name)
      bound == [i \in DOMAIN arguments |-> ArgumentOf(p, r.w, scope, action.params[i], arguments[i])]
      failed == {i \in DOMAIN bound : IsError(bound[i])}
      At(n) == CHOOSE i \in DOMAIN bound : action.params[i].n = n
      inside == [Outside EXCEPT !.names = [n \in Names(action.params) |-> bound[At(n)]],
                                !.calls = Append(scope.calls, name)]
  IN  IF Contains(scope.calls, name) THEN Halt(r, Failure("recursive call"))
      ELSE IF failed # {} THEN Halt(r, Failure("argument"))
      ELSE Block(p, r, inside, action.body)
Run(p, r, scope, s) ==
  LET E(e) == Eval(p, r.w, scope, e) IN
  IF ~ Went(r) THEN r
  ELSE CASE s.s = "assign" -> Assign(r, CellAt(p, r.w, scope, s.target), s.op, E(s.value))
         [] s.s = "indexed through" ->
              Assign(r, CellOf(p, r.w, scope, s.source, s.index, s.member), s.op, E(s.value))
         [] s.s = "insert" ->
              LET element == Read(p, r.w, scope, s.designation)
                  cell == CellAt(p, r.w, scope, s.target)
              IN  IF IsError(element) \/ element.v = <<>> THEN Halt(r, Failure("no element"))
                  ELSE IF IsError(cell) THEN Halt(r, cell)
                  ELSE [r EXCEPT !.w[cell.n].v = Append(@, element.v)]
         [] s.s = "call" -> Called(p, r, scope, s.action, s.arguments)
         [] s.s = "if" -> LET c == E(s.condition) IN
                          IF IsError(c) THEN Halt(r, c) ELSE Block(p, r, scope, IF c.v THEN s.yes ELSE s.no)
         [] OTHER -> Halt(r, Failure("fail"))
-----------------------------------------------------------------------------
\* The members of a root, then the states, in the order they are declared.
RECURSIVE Grown(_, _, _)
Grown(p, w, d) ==
  LET Member(v, m) ==
        IF m.d = "derived" THEN v
        ELSE ((d.n \o m.n) :> Kept(m.type, Eval(p, v, [Outside EXCEPT !.owner = AString(d.n)], m.init))) @@ v
  IN  IF d.d # "state" THEN w
      ELSE IF d.implicit THEN FoldLeft(Member, w, Members(p, d.type.model))
      ELSE (d.n :> Kept(d.type, Eval(p, w, Outside, d.init))) @@ w
Beginning(p) == FoldLeft(LAMBDA w, d : Grown(p, w, d), << >>, p.decls)
\* Derived values by their paths; which failure one is does not matter.
Derivable(p) ==
  LET Derived_(items) == Names(SelectSeq(items, LAMBDA d : d.d = "derived"))
      roots == SelectSeq(p.decls, IsRoot)
  IN  {IF IsCapture(n) THEN SubSeq(n, 3, Len(n)) ELSE n : n \in Derived_(p.decls)}
        \cup UNION {{roots[i].n \o m : m \in Derived_(Members(p, roots[i].type.model))} : i \in DOMAIN roots}
Plain(v) == IF v.t = "Failure" THEN Failure("") ELSE v
Derivation(p, w) == [n \in Derivable(p) |-> Plain(Read(p, w, Outside, n))]
-----------------------------------------------------------------------------
Init ==
  /\ choice \in DOMAIN Sources
  /\ world = << >> /\ shown = << >> /\ asked = <<>> /\ outcome = "source"
\* A program that is not one of the language is refused; another starts, unless an initial
\* value fails.
Refuse ==
  /\ outcome = "source" /\ outcome' = "refused"
  /\ UNCHANGED <<choice, world, shown, asked>>
Start ==
  LET p == Sources[choice].program
      w == Beginning(p)
  IN  /\ outcome = "source" /\ UNCHANGED <<choice, asked>>
      /\ IF \E n \in DOMAIN w : IsError(w[n])
         THEN outcome' = "unstarted" /\ UNCHANGED <<world, shown>>
         ELSE outcome' = "done" /\ world' = w /\ shown' = Derivation(p, w)
\* The host asks for an action that takes no parameter.
Ask(action) ==
  /\ outcome \in {"done", "failed"} /\ action.params = <<>>
  /\ asked' = action.n /\ outcome' = "asked"
  /\ UNCHANGED <<choice, world, shown>>
Perform ==
  LET p == Sources[choice].program
      r == Called(p, Going(world), Outside, asked, <<>>)
  IN  /\ outcome = "asked" /\ asked' = <<>>
      /\ outcome' = IF Went(r) THEN "done" ELSE "failed"
      /\ world' = IF Went(r) THEN r.w ELSE world
      /\ shown' = IF Went(r) THEN Derivation(p, r.w) ELSE shown
      /\ UNCHANGED choice
Next ==
  \/ Refuse
  \/ Start
  \/ \E action \in ToSet(Declarations(Sources[choice].program, "action")) : Ask(action)
  \/ Perform
Spec == Init /\ [][Next]_vars
=============================================================================
