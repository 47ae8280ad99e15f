----------------------------- MODULE MCServices -----------------------------
(* The components that work beside the ledger and the purchase saga, checked  *)
(* in one run.  They share no state, so their interleavings are of no         *)
(* interest: a behaviour follows one of them, `active`, and the others stay   *)
(* in one of their initial states.                                            *)
EXTENDS WalletFunding, PurchaseGuards, ReferralReward, CircuitBreaker, FinanceReversal,
        ProviderAdapters, AdminSession, NotificationDelivery, VirtualAccounts,
        Registration, PurchasePage

VARIABLE active

Parts == {"funding", "guards", "referral", "circuit", "reversal", "adapters", "session", "delivery",
          "accounts", "registration", "page"}

\* The initial state of a part that is not active, where it has several.
AtRest ==
  /\ active # "funding" => kind = "checkout"
  /\ active # "reversal" => txStatus = "pending"
  /\ active # "accounts" => accountGateway = "squad"
  /\ active # "adapters" => adapter = "vtpass" /\ token = "none"

ServicesInit ==
  /\ active \in Parts /\ AtRest
  /\ Init /\ GuardInit /\ ReferralInit /\ CircuitInit /\ ReversalInit /\ AdapterInit
  /\ SessionInit /\ DeliveryInit /\ AccountInit /\ RegistrationInit /\ PageInit
  /\ active # "registration" =>
       \A s \in SignUps : {identity.password, signUp[s].password} = {CHOOSE p \in Passwords : TRUE}

\* A step of one part leaves the others alone.
OnlyFunding ==
  /\ active = "funding"
  /\ UNCHANGED <<active, guardVars, referralVars, circuitVars, reversalVars,
                 adapterVars, sessionVars, deliveryVars, accountVars, registrationVars, pageVars>>
OnlyGuards ==
  /\ active = "guards"
  /\ UNCHANGED <<active, vars, referralVars, circuitVars, reversalVars,
                 adapterVars, sessionVars, deliveryVars, accountVars, registrationVars, pageVars>>
OnlyReferral ==
  /\ active = "referral"
  /\ UNCHANGED <<active, vars, guardVars, circuitVars, reversalVars,
                 adapterVars, sessionVars, deliveryVars, accountVars, registrationVars, pageVars>>
OnlyCircuit ==
  /\ active = "circuit"
  /\ UNCHANGED <<active, vars, guardVars, referralVars, reversalVars,
                 adapterVars, sessionVars, deliveryVars, accountVars, registrationVars, pageVars>>
OnlyReversal ==
  /\ active = "reversal"
  /\ UNCHANGED <<active, vars, guardVars, referralVars, circuitVars,
                 adapterVars, sessionVars, deliveryVars, accountVars, registrationVars, pageVars>>
OnlyAdapters ==
  /\ active = "adapters"
  /\ UNCHANGED <<active, vars, guardVars, referralVars, circuitVars,
                 reversalVars, sessionVars, deliveryVars, accountVars, registrationVars, pageVars>>
OnlySession ==
  /\ active = "session"
  /\ UNCHANGED <<active, vars, guardVars, referralVars, circuitVars,
                 reversalVars, adapterVars, deliveryVars, accountVars, registrationVars, pageVars>>
OnlyDelivery ==
  /\ active = "delivery"
  /\ UNCHANGED <<active, vars, guardVars, referralVars, circuitVars,
                 reversalVars, adapterVars, sessionVars, accountVars, registrationVars, pageVars>>
OnlyAccounts ==
  /\ active = "accounts"
  /\ UNCHANGED <<active, vars, guardVars, referralVars, circuitVars,
                 reversalVars, adapterVars, sessionVars, deliveryVars, registrationVars, pageVars>>
OnlyRegistration ==
  /\ active = "registration"
  /\ UNCHANGED <<active, vars, guardVars, referralVars, circuitVars,
                 reversalVars, adapterVars, sessionVars, deliveryVars, accountVars, pageVars>>
OnlyPage ==
  /\ active = "page"
  /\ UNCHANGED <<active, vars, guardVars, referralVars, circuitVars, reversalVars, adapterVars,
                 sessionVars, deliveryVars, accountVars, registrationVars>>

ServicesNext ==
  \/ Next /\ OnlyFunding
  \/ GuardNext /\ OnlyGuards
  \/ ReferralNext /\ OnlyReferral
  \/ CircuitNext /\ OnlyCircuit
  \/ ReversalNext /\ OnlyReversal
  \/ AdapterNext /\ OnlyAdapters
  \/ SessionNext /\ OnlySession
  \/ DeliveryNext /\ OnlyDelivery
  \/ AccountNext /\ OnlyAccounts
  \/ RegistrationNext /\ OnlyRegistration
  \/ PageNext /\ OnlyPage

servicesVars == <<active, vars, guardVars, referralVars, circuitVars, reversalVars, adapterVars,
                  sessionVars, deliveryVars, accountVars, registrationVars, pageVars>>

\* The fairness of FairSpec for a payment; time passes for an open circuit.
ServicesFairness ==
  /\ WF_servicesVars(Deliver /\ ~acked /\ OnlyFunding)
  /\ WF_servicesVars(Webhook /\ OnlyFunding)
  /\ WF_servicesVars(Step(Job) /\ OnlyFunding)
  /\ WF_servicesVars(CircuitTick /\ OnlyCircuit)

ServicesSpec == ServicesInit /\ [][ServicesNext]_servicesVars /\ ServicesFairness

-----------------------------------------------------------------------------
\* Every part keeps its types and its bounds.
ServicesTypeOK ==
  /\ FTypeOK /\ GuardTypeOK /\ ReferralTypeOK /\ CircuitTypeOK
  /\ ReversalTypeOK /\ AdapterTypeOK /\ SessionTypeOK /\ DeliveryTypeOK
  /\ AccountTypeOK /\ RegistrationTypeOK /\ PageTypeOK
=============================================================================
