--------------------------- MODULE ServicesProofs ---------------------------
(* The eleven services together: whichever of them is followed, it keeps its  *)
(* types, its bounds and its promises.  Each has its invariant and the proof  *)
(* that its steps keep it; a step of one leaves the others alone.             *)
EXTENDS MCServices, CreditProofs, PurchaseGuardsProofs, ProviderProofs, AdminProofs

ServicesInv ==
  /\ FInv /\ GuardInv /\ RewardInv /\ CircuitInv /\ ReversalInv
  /\ AdapterInv /\ AdapterTypeOK /\ SessionInv /\ DeliveryInv
  /\ AccountInv /\ RegistrationInv /\ PageInv

LEMMA ServicesStart == ServicesInit => ServicesInv
<1>1. AdapterInit => AdapterTypeOK
  BY AdapterAssumption DEF AdapterInit, AdapterTypeOK, NoId, Truths
<1> QED
  BY <1>1, InitEstablishes, GuardsStart, RewardsStart, CircuitStarts, ReversalStarts, AdapterStarts,
     SessionStarts, DeliveryStarts, AccountStarts, RegistrationStarts, PageStarts
  DEF ServicesInit, ServicesInv

\* What a step of another part leaves alone, each part keeps.
LEMMA PartStep ==
  ASSUME [ServicesNext]_servicesVars
  PROVE  /\ [Next]_vars /\ [GuardNext]_guardVars /\ [ReferralNext]_referralVars
         /\ [CircuitNext]_circuitVars /\ [ReversalNext]_reversalVars
         /\ [AdapterNext]_adapterVars /\ [SessionNext]_sessionVars
         /\ [DeliveryNext]_deliveryVars /\ [AccountNext]_accountVars
         /\ [RegistrationNext]_registrationVars /\ [PageNext]_pageVars
BY Zenon DEF ServicesNext, servicesVars, OnlyFunding, OnlyGuards, OnlyReferral, OnlyCircuit,
   OnlyReversal, OnlyAdapters, OnlySession, OnlyDelivery, OnlyAccounts, OnlyRegistration, OnlyPage

LEMMA ServicesStep == ServicesInv /\ [ServicesNext]_servicesVars => ServicesInv'
BY PartStep, FundingStep, GuardStep, ReferralStep, CircuitPreserved, ReversalPreserved,
   AdapterPreserved, AdapterTypesKept, SessionStep, DeliveryPreserved, AccountPreserved,
   RegistrationPreserved, PagePreserved
DEF ServicesInv

THEOREM ServicesInvariant == ServicesSpec => []ServicesInv
BY ServicesStart, ServicesStep, PTL DEF ServicesSpec

\* Every service keeps its types and its bounds.
THEOREM ServicesTypeCorrect == ServicesSpec => []ServicesTypeOK
<1>1. ServicesInv => ServicesTypeOK
  BY DEF ServicesInv, ServicesTypeOK, FInv, GuardInv, RewardInv, CircuitInv, ReversalInv, SessionInv,
     DeliveryInv, AccountInv, RegistrationInv, PageInv
<1> QED BY <1>1, ServicesInvariant, PTL

\* All that the services promise, of money above all: each payment, purchase, reward
\* and reversal moves it once, and what is shown of them is so.
Promises ==
  /\ FundedOnce /\ FundingIsTrue
  /\ OneChargePerKey /\ OneChargePerWindow /\ AnswersMatchPurchases
  /\ RewardsAreTrue /\ RewardsAreEarned /\ MilestonesReached
  /\ OpenAfterThreshold /\ CutOffIsReviewed /\ VerdictIsTrue
  /\ SettledOnce /\ PageSurvivesRefresh /\ SentToAll
  /\ AccountsAgree /\ RegistrationsAgree /\ PageShowsOutcome

\* In every state of the services each of them keeps its promises.
THEOREM ServicesKeepPromises == ServicesSpec => []Promises
<1>1. ServicesInv => Promises
  BY FundingKeeps, GuardsKeep, RewardsKeep, SessionKeeps, ReversalKeeps, DeliveryKeeps, AccountsKeep
  DEF ServicesInv, Promises, CircuitInv, AdapterInv, RegistrationInv, PageInv
<1> QED BY <1>1, ServicesInvariant, PTL
=============================================================================
