---------------------- MODULE ModelSequenceIntegration ----------------------
(***************************************************************************)
(* compiler/src/model_sequence_integration.rs: a [live T] member of a      *)
(* state model becomes one sequence state after each root of the model,    *)
(* and the paths to it are renamed, also those reached through.            *)
(***************************************************************************)
EXTENDS ModelTypes

IsSequence(m) == m.d = "state" /\ m.type.t = "Sequence"
MemberExpr(m) == IF m.d = "state" THEN m.init ELSE m.expr
RECURSIVE MentionsMember(_, _)
MentionsMember(e, names) ==   \* expr_mentions_member
  \/ e.e = "name" /\ e.n # <<>> /\ <<e.n[1]>> \in names
  \/ e.e \in {"indexed member", "indexed designation"} /\ e.n \in names
  \/ \E i \in DOMAIN Parts(e) : MentionsMember(Parts(e)[i], names)
\* collect_sequence_members, reject_model_local_sequence_reads, reject_owner_model_parameters
Supported(program) ==
  LET models == Models(program)
      Sequences(model) == SelectSeq(models[model], IsSequence)
  IN  /\ \A model \in DOMAIN models :
           LET s == Sequences(model) IN
           /\ \A i \in DOMAIN s : /\ s[i].type.model \in DOMAIN models
                                  /\ s[i].init.e = "live sequence" /\ s[i].init.targets = <<>>
           /\ \A i \in DOMAIN models[model] : LET m == models[model][i] IN
                ~ IsSequence(m) => ~ MentionsMember(MemberExpr(m), Names(s))
      /\ \A i \in DOMAIN program.decls : LET d == program.decls[i] IN
           d.d = "action" => \A j \in DOMAIN d.params :
             d.params[j].type.t \in {"Named", "live"} /\ d.params[j].type.model \in DOMAIN models
               => Sequences(d.params[j].type.model) = <<>>
-----------------------------------------------------------------------------
\* rewrite_plain_path and rewrite_state_path
PlainPath(paths, n) ==
  IF Len(n) > 1 /\ SubSeq(n, 1, 2) \in DOMAIN paths
  THEN paths[SubSeq(n, 1, 2)] \o SubSeq(n, 3, Len(n)) ELSE n
StatePath(paths, n) == IF IsThrough(n) THEN Through(PlainPath(paths, Tail(n))) ELSE PlainPath(paths, n)
RECURSIVE RewriteExpr(_, _), RewriteStatement(_, _)
\* rewrite_expr; a designation is indexed by its whole path.
RewriteExpr(paths, e) ==
  CASE e.e = "name" -> Name(PlainPath(paths, e.n))
    [] e.e \in {"indexed member", "indexed designation"} ->
         [e EXCEPT !.n = IF e.e = "indexed member" THEN PlainPath(paths, @)
                         ELSE IF @ \in DOMAIN paths THEN paths[@] ELSE @,
                   !.index = RewriteExpr(paths, @)]
    [] OTHER -> WithParts(e, Image(LAMBDA p : RewriteExpr(paths, p), Parts(e)))
RewriteArgument(paths, a) ==
  CASE a.a = "value" -> ValueArgument(RewriteExpr(paths, a.value))
    [] a.a = "state" -> StateGrant(StatePath(paths, a.n))
    [] OTHER -> [a EXCEPT !.source = PlainPath(paths, @), !.index = RewriteExpr(paths, @)]
\* rewrite_statement
RewriteStatement(paths, s) ==
  LET E(e) == RewriteExpr(paths, e)
      Branch(b) == Image(LAMBDA x : RewriteStatement(paths, x), b)
  IN  CASE s.s = "assign" -> [s EXCEPT !.target = StatePath(paths, @), !.value = E(@)]
        [] s.s = "indexed through" ->
             [s EXCEPT !.source = PlainPath(paths, @), !.index = E(@), !.value = E(@)]
        [] s.s = "call" -> [s EXCEPT !.arguments = Image(LAMBDA a : RewriteArgument(paths, a), @)]
        [] s.s = "fail" -> Fail(E(s.message))
        [] s.s = "if" -> If(E(s.condition), Branch(s.yes), Branch(s.no))
        [] OTHER -> Unreachable
\* rewrite_declaration
RewriteDeclaration(paths, d) ==
  CASE d.d = "state" -> [d EXCEPT !.init = RewriteExpr(paths, @)]
    [] d.d = "derived" -> [d EXCEPT !.expr = RewriteExpr(paths, @)]
    [] OTHER -> [d EXCEPT !.body = Image(LAMBDA s : RewriteStatement(paths, s), @)]

\* collect_root_members: the sequence members of every root, by their path.
Externalized(program) ==
  LET roots == Roots(program)
      Of(root) == SelectSeq(Models(program)[roots[root]], IsSequence)
  IN  [n \in UNION {{root \o m : m \in Names(Of(root))} : root \in DOMAIN roots} |->
         Named(Of(SubSeq(n, 1, Len(n) - 1)), <<n[Len(n)]>>).type.model]
\* lower: the program and the sequences it made, each with the model of its elements.
LowerModelSequences(program) ==
  LET members == Externalized(program)
      paths == [n \in DOMAIN members |-> <<"$mseq">> \o n]
      roots == Roots(program)
      Of(root) == SelectSeq(Models(program)[roots[root]], IsSequence)
      One(d) == <<RewriteDeclaration(paths, d)>> \o
                (IF d.n \in DOMAIN roots
                 THEN Image(LAMBDA m : State(paths[d.n \o m.n], m.type, m.init), Of(d.n)) ELSE <<>>)
  IN  IF ~ Supported(program) THEN Refused
      ELSE Program(Image(LAMBDA m : [m EXCEPT !.members = SelectSeq(@, LAMBDA x : ~ IsSequence(x))],
                         program.models),
                   FlattenSeq(Image(One, program.decls)))
ExternalizedSequences(program) ==
  LET members == Externalized(program) IN
  [n \in {<<"$mseq">> \o m : m \in DOMAIN members} |-> members[Tail(n)]]
=============================================================================
