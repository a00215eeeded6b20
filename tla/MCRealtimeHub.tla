--------------------------- MODULE MCRealtimeHub ----------------------------
(***************************************************************************)
(* Instances of the realtime hub: two browsers on two channels, and for    *)
(* each channel rows of every kind that the owner gate tells apart.        *)
(***************************************************************************)
EXTENDS RealtimeHub, TLC

ClaimsDef == [s \in Socket |->
  IF s = "a" THEN [sub |-> "5", role |-> "authenticated"]
  ELSE IF s = "b" THEN [sub |-> "amina", role |-> "authenticated"]
  ELSE [sub |-> "worker", role |-> "service"]]

Columns == <<"user_id", "owner">>

ChannelSymmetry == Permutations(Channel)

\* One browser subscribes with a filter, the other without.
FiltersDef == [s \in Socket |->
  IF s = "b" THEN {[column |-> "id", value |-> <<"string", "1">>]} ELSE {NoFilter}]

Note(table, type, record, old, truncated) ==
  [table |-> table, type |-> type, record |-> record, old |-> old, truncated |-> truncated]

Id(v) == "id" :> <<"number", v>>

\* A row of the number 5, of amina (behind a null owner), a deleted row, a row
\* without owner column, a truncated one.
SomeNotes == UNION {{
  Note(ch, "INSERT", Id("1") @@ ("owner" :> <<"number", "5">>), NoRow, FALSE),
  Note(ch, "UPDATE", Id("2") @@ ("user_id" :> <<"null", "null">>) @@ ("owner" :> <<"string", "amina">>),
       NoRow, FALSE),
  Note(ch, "DELETE", NoRow, Id("1") @@ ("user_id" :> <<"string", "amina">>), FALSE),
  Note(ch, "INSERT", Id("1"), NoRow, FALSE),
  Note(ch, "INSERT", NoRow, NoRow, TRUE)} : ch \in Channel}
=============================================================================
