---------------------------- MODULE AtomicLedger ----------------------------
(***************************************************************************)
(* What the wallet ledger promises its callers: a posting moves an amount  *)
(* between two wallets in one step, an idempotency key is used by at most  *)
(* one posting, and a posting never takes a wallet below its overdraft     *)
(* limit.  Exempt are the equity wallets that a genesis posting debits.      *)
(* WalletLedger, which models the SQL functions statement by statement, is *)
(* shown to implement this specification.                                  *)
(***************************************************************************)
EXTENDS Integers

CONSTANTS
  Wallets,     \* the wallets
  Overdraft,   \* overdraft limit of each wallet
  Exempt,      \* wallets that may go below their limit
  Amounts,     \* amounts that are posted
  Keys,        \* idempotency keys
  NoKey        \* the absent (NULL) key

VARIABLES
  balance,     \* balance of each wallet
  used         \* keys of the postings made so far

avars == <<balance, used>>

\* The balances after `amount` has moved from one wallet to another.
Moved(b, from, to, amount) ==
  [w \in Wallets |-> b[w] + (IF w = to THEN amount ELSE 0)
                          - (IF w = from THEN amount ELSE 0)]

AInit ==
  /\ balance = [w \in Wallets |-> 0]
  /\ used = {}

\* A posting between two wallets; the debited one can afford it, unless it is
\* exempt.
Post(from, to, amount, key) ==
  /\ key \notin used
  /\ amount > 0
  /\ from \in Exempt \/ balance[from] + Overdraft[from] >= amount
  /\ balance' = Moved(balance, from, to, amount)
  /\ used' = used \cup ({key} \ {NoKey})

ANext ==
  \E from, to \in Wallets, amount \in Amounts, key \in Keys \cup {NoKey} :
    Post(from, to, amount, key)

ASpec == AInit /\ [][ANext]_avars
=============================================================================
