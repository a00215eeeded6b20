-------------------------- MODULE MCClientSession --------------------------
(* Two tabs of one browser, two accounts, one factor and one challenge.    *)
EXTENDS ClientSession

\* Sessions and listeners without factors, factors in one session, and both.
MCBudgets ==
  { [signIns |-> 2, requests |-> 0, calls |-> 3],
    [signIns |-> 1, requests |-> 4, calls |-> 0],
    [signIns |-> 2, requests |-> 3, calls |-> 0] }

Symmetry ==
  Permutations(Accounts) \cup Permutations(Slots) \cup Permutations(Tabs)
    \cup Permutations(Listeners)
=============================================================================
