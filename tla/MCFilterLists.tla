---------------------------- MODULE MCFilterLists ----------------------------
(* Instances of FilterLists for TLC.                                       *)
EXTENDS FilterLists, TLC

\* The sources, the rules, the user rules and the handlers are interchangeable.
Symmetry ==
    UNION {Permutations(S) : S \in {URL, Rules, UserRules, Handler}}
==============================================================================
