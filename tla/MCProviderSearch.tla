--------------------------- MODULE MCProviderSearch ---------------------------
(***************************************************************************)
(* Two searches, by one operation of each form.  Two records name one      *)
(* account.                                                                *)
(***************************************************************************)
EXTENDS ProviderSearchProperties, TLC

CONSTANTS account, process, web, text, email, outbound, table

MCForm ==
    (account :> "candidates") @@ (process :> "records") @@ (web :> "evidence") @@
    (text :> "text") @@ (email :> "identity") @@ (outbound :> "outbound") @@
    (table :> "sql")
MCNamed == [r \in Rows |-> IF r = 3 THEN 1 ELSE r]
=============================================================================
