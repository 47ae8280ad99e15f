--------------------------- MODULE MCPurchaseSaga ---------------------------
(* Instances of PurchaseSaga for model checking.                              *)
EXTENDS PurchaseSaga

CONSTANTS A, B

RouteA  == <<A>>
RouteAB == <<A, B>>

Prompt == KnownAnswers \ {"pending"}
\* The first provider of the route may say "pending", the others answer at once.
FirstMayPend == [p \in Providers |-> IF p = A THEN KnownAnswers ELSE Prompt]
AllAnswers   == [p \in Providers |-> KnownAnswers]
OnlyA == {A}

Always  == {Providers}         \* every routed provider is usable, always
Changes == SUBSET Providers    \* switched off, broken or switched on again at any time
=============================================================================
