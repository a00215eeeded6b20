-------------------------- MODULE MCRealtimeClient --------------------------
(***************************************************************************)
(* Instances of the realtime client and server: sockets 1, 2, 3 of the     *)
(* library and one socket of a peer.                                       *)
(***************************************************************************)
EXTENDS RealtimeClient

ClaimsDef == [s \in Socket |-> [sub |-> IF s = Peer THEN "peer" ELSE "me",
                                role |-> "authenticated"]]
Columns == <<"user_id", "owner">>
NoNotes == {}
NoFilters == [s \in Socket |-> {NoFilter}]
=============================================================================
