--------------------------- MODULE MCAuthSessions ---------------------------
(* One username, address, phone number and Google account, whose email     *)
(* claim is that address or absent.                                        *)
EXTENDS AuthSessions, TLC

CONSTANTS n1, e1, p1, g1

EmailsOfDef == [s \in Subjects |-> {e1, None}]

MaxEventsDef == [k \in EventKinds |-> IF k = "request" THEN 4 ELSE 2]

Symmetry == Permutations(Requests)

=============================================================================
