---------------------------- MODULE MCStateFile ----------------------------
(* A small instance of StateFile: three maps and both goroutines.          *)
EXTENDS StateFile

CONSTANTS m0, m1, m2, rpc, maint

=============================================================================
