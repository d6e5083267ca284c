------------------------ MODULE MCPartialPersistence ------------------------
(* Every action body of at most two statements over the designations, for TLC. *)
EXTENDS PartialPersistence

Statements ==
  ({"copy", "set", "insert"} \X Designations \X Designations)
    \cup {<<op, d, d>> : op \in {"create", "destroy", "fail"}, d \in Designations}

Bodies == BoundedSeq(Statements, 2) \ {<<>>}

OrderedBodies == {p \in Bodies : ~ReadsAfterDestroy(p)}

\* The few bodies that show it: b ends, then the dormant a is asked whom it names.
LateReads ==
  LET d == CHOOSE x \in Designations : TRUE
      e == CHOOSE x \in Designations : x # d
  IN  {<<<<"create", d, d>>>>, <<<<"create", e, e>>>>, <<<<"set", d, e>>>>,
       <<<<"destroy", e, e>>, <<"copy", e, d>>>>}

DesignationSymmetry == Permutations(Designations)
=============================================================================
