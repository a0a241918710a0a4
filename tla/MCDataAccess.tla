---------------------------- MODULE MCDataAccess ----------------------------
(***************************************************************************)
(* DataAccess on small instances.  Ways, tags, sets and the values of a    *)
(* byte are interchangeable.                                               *)
(***************************************************************************)
EXTENDS DataAccess, TLC

System(writethrough, widths, mmuens, requests) ==
  [writethrough |-> writethrough, write_alloc |-> ~writethrough,
   widths |-> widths, mmuens |-> mmuens, requests |-> requests,
   all_tags |-> ~writethrough]
WriteBack == System(FALSE, {{0}}, {FALSE}, {"invalidate", "writeback"})
WriteThrough == System(TRUE, {{0}, {0, 1}}, BOOLEAN, {"invalidate"})
Both == {WriteBack, WriteThrough}
OnlyWriteBack == {WriteBack}
WithoutWriteback == {System(FALSE, {{0}}, {FALSE}, {"invalidate"})}
WithWriteback == {System(TRUE, {{0}}, {FALSE}, {"invalidate", "writeback"})}

\* Blocks wrap round: which of their words is watched makes no difference.
InitOneOffset == Init /\ watched.addr.offset = 0
OneOffset == InitOneOffset /\ [][Next]_vars /\ WF_vars(Next)

Symmetry ==
  UNION {Permutations(S) : S \in {Ways, Tags, Indexes, Values}}
=============================================================================
