------------------------- MODULE MCPurchaseRecovery -------------------------
(* Instances of PurchaseRecovery for model checking.                          *)
EXTENDS PurchaseRecovery

CONSTANTS A, B

RouteA  == <<A>>
RouteAB == <<A, B>>
OnlyA   == {A}

AllAnswers == [p \in Providers |-> KnownAnswers]
FewAnswers == [p \in Providers |-> {"ok", "pending", "error"}]
Always == {Providers}
=============================================================================
