-------------------------- MODULE MCMigrationService --------------------------
(* Small instances of MigrationService for TLC.                            *)
EXTENDS MigrationService, TLC

CONSTANTS p1, p2, m1, m2

(* A rolling deployment: p1 runs the release before that of p2.            *)
TwoReleases == (p1 :> {m1}) @@ (p2 :> {m1, m2})
TwoKeys == <<1, 2>>
OneKey == <<1>>
=============================================================================
