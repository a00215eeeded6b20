------------------------------ MODULE MCStudio ------------------------------
(* Two rows on pages of one, two projects, two keys; three actions of the  *)
(* operator alone, or two next to a write of somebody else, on a service   *)
(* that answers arrays; and one action on the service as it is.            *)
EXTENDS Studio

MCSettings ==
  {[acts |-> 3, writes |-> 0, answers |-> "array"],
   [acts |-> 2, writes |-> 1, answers |-> "array"],
   [acts |-> 1, writes |-> 0, answers |-> "object"]}

=============================================================================
