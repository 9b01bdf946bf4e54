---------------------------- MODULE MCInstaller -----------------------------
(* An instance of Installer for TLC.                                       *)
EXTENDS Installer, TLC

CONSTANTS r1, r2

Stmt(kind, name, shape) == [kind |-> kind, name |-> name, shape |-> shape]
Foundation == <<Stmt("table", "t", "1"), Stmt("index", "i", "1")>>

(* The second release has edited the second migration.                      *)
MCText ==
    (r1 :> <<Foundation, <<Stmt("table", "u", "1"), Stmt("table", "w", "1")>>>>) @@
    (r2 :> <<Foundation, <<Stmt("table", "u", "2"), Stmt("index", "j", "1")>>>>)
MCContract ==
    (r1 :> [hash |-> "c1", keys |-> {"k1", "k2"}]) @@ (r2 :> [hash |-> "c2", keys |-> {"k3"}])
=============================================================================
