---------------------------- MODULE MCDispatcher ----------------------------
(***************************************************************************)
(* An instance of the webhooks worker for TLC: changes of two tables of    *)
(* one name, an endpoint on the bare name for one event and one on a       *)
(* qualified name, so that each endpoint matches one of the changes.       *)
(***************************************************************************)
EXTENDS Dispatcher

MCChanges == <<[schema |-> "public", table |-> "orders", type |-> "INSERT"],
               [schema |-> "app", table |-> "orders", type |-> "DELETE"]>>

MCEndpoints == [e \in {"bare", "qualified"} |->
  IF e = "bare" THEN [schema |-> "", table |-> "orders", events |-> {"DELETE"}]
  ELSE [schema |-> "public", table |-> "orders", events |-> {"INSERT", "DELETE"}]]
=============================================================================
