---------------------------- MODULE MCMigrations ----------------------------
EXTENDS Migrations

MCCheckouts == {{2}, {1, 2}}
MCBounds == [edit |-> 1, fault |-> 1, restore |-> 2]
=============================================================================
