----------------------------- MODULE MCAccounts -----------------------------
(***************************************************************************)
(* The first administrator, an operator and an account yet to be created.  *)
(***************************************************************************)
EXTENDS Accounts, TLC

Founders == "ada" :> "admin" @@ "bob" :> "operator"
Founder == "ada" :> "admin"
Body == [role |-> None, active |-> None, revoke |-> FALSE]
Bodies == {Body, [Body EXCEPT !.role = "admin"], [Body EXCEPT !.role = "viewer"], [Body EXCEPT !.active = FALSE],
           [Body EXCEPT !.active = TRUE, !.revoke = TRUE]}
Demoting == {Body, [Body EXCEPT !.role = "viewer"]}
Disabling == {[Body EXCEPT !.active = FALSE]}
Symmetric == Permutations(Requests)
=============================================================================
