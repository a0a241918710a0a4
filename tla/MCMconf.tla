------------------------------- MODULE MCMconf -------------------------------
(* Instances of MconfDialogs for TLC. *)
EXTENDS MconfDialogs

MCEntries == {"menu", "choice", "comment", "string"}
MCKindOf == [e \in MCEntries |-> e]
\* One item answers to a command, and two to the same letter.
MCKeyOf ==
  [e \in MCEntries |-> CASE e = "string" -> "s" [] e = "menu" -> "l" [] OTHER -> "c"]
MCLists == {<<>>, <<"string">>, <<"menu", "choice", "comment", "string">>}
MCTerms == {0, 1, 2, 3}
\* The longest text is longer than the buffer.
MCTexts ==
  {[text |-> [i \in 0 .. n - 1 |-> IF i % 2 = 0 THEN "a" ELSE "b"], len |-> n] : n \in {0, 3, 5}}
=============================================================================
