------------------------------ MODULE MCDupeTable ------------------------------
(* Small tables that fill up: two chains with several nonces each.           *)
EXTENDS DupeTable
=============================================================================
