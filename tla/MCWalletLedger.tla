--------------------------- MODULE MCWalletLedger ---------------------------
(***************************************************************************)
(* Instances of WalletLedger for TLC.                                      *)
(***************************************************************************)
EXTENDS WalletLedger, TLC

CONSTANTS u1, settle, equity, ghost, closed, NGN, USD, k1, k2, kg

Call(kind, from, to, amount, currency, key) ==
  [kind |-> kind, from |-> from, to |-> to, amount |-> amount,
   currency |-> currency, key |-> key]

MCCurrencyOf == [w \in Wallets |-> NGN]
MCOverdraft  == [w \in Wallets |-> IF w \in {u1, settle} THEN 1 ELSE 0]
\* u1 and settle have the same advisory lock key, as hashtext may give them.
MCHashText   == [w \in Wallets |-> IF w = u1 THEN settle ELSE w]
MCOwnHash    == [w \in Wallets |-> w]
MCLockKeys   == Wallets

Purchase == Call("transfer", u1, settle, 1, NGN, k1)
Funding  == Call("credit", settle, u1, 1, NGN, k2)
Manual   == Call("debit", u1, settle, 1, NGN, NoKey)
Opening  == Call("genesis", equity, settle, 2, NGN, kg)

\* A purchase, a funding credit, a debit without a key and the genesis posting,
\* each of which any session may make again.
RaceRequests == {Purchase, Funding, Manual, Opening}

\* One request for each way a call is rejected, with the ones that succeed.
ErrorRequests ==
  {Purchase, Opening,
   Call("credit", settle, settle, 1, NGN, NoKey),
   Call("transfer", u1, u1, 1, NGN, NoKey),
   Call("debit", u1, settle, 0, NGN, NoKey),
   Call("debit", u1, settle, 9, NGN, NoKey),
   Call("debit", ghost, settle, 1, NGN, NoKey),
   Call("credit", closed, u1, 1, NGN, NoKey),
   Call("credit", settle, u1, 1, USD, NoKey),
   Call("genesis", equity, u1, 1, NGN, k2)}

Symm == Permutations(Sessions)
=============================================================================
