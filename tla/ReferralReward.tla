--------------------------- MODULE ReferralReward ---------------------------
(* The rewards of one referrer for one trigger.  Every qualifying event of a   *)
(* referred user calls processReferralReward and does not wait for it, so the  *)
(* calls of several users, and several calls of one user, run side by side;    *)
(* nothing repeats a call that failed.  A reward is either paid for each       *)
(* referral or, in milestone mode, as a lump sum when their number reaches a   *)
(* tier; an administrator may change the mode at any time.                     *)
EXTENDS Naturals, FiniteSets

CONSTANTS
  Referred,     \* the users he referred
  Calls,        \* calls of processReferralReward, a user may have several
  Tiers,        \* the counts at which a milestone is paid
  Recipients    \* who is rewarded for a referral: the referrer, or the referred user too

ASSUME ReferralAssumption ==
  /\ IsFiniteSet(Referred) /\ Tiers \subseteq Nat \ {0}
  /\ "referrer" \in Recipients /\ Recipients \subseteq {"referrer", "referred"}
  /\ "nobody" \notin Referred

VARIABLES
  rewardMode,   \* referral_settings.reward_mode
  reward,       \* referral_rewards: the row of each referred user
  payout,       \* referral_milestone_payouts: the status of each tier's row
  bonus,        \* the credits posted for a referral: user and recipient
  lumpSums,     \* the tiers whose credit is posted
  call,         \* where each call is
  gap           \* ghost: a call died, or a payout's insert failed, after its event was
                \* recorded, and no event was recorded since

referralVars == <<rewardMode, reward, payout, bonus, lumpSums, call, gap>>

Modes == {"per_referral", "milestone"}
NotCalled == [pc |-> "idle", user |-> "nobody", counted |-> 0, left |-> {},
              wallet |-> TRUE, complete |-> TRUE]

ReferralInit ==
  /\ rewardMode = "per_referral"
  /\ reward = [u \in Referred |-> [status |-> "none", mode |-> "per_referral"]]
  /\ payout = [n \in Tiers |-> "none"]
  /\ bonus = {} /\ lumpSums = {} /\ gap = FALSE
  /\ call = [c \in Calls |-> NotCalled]

Enter(c, pc) == call' = [call EXCEPT ![c].pc = pc]
Leave(c) == Enter(c, "done")
User(c) == call[c].user

Rewarded == {u \in Referred : reward[u].status # "none"}
MilestoneEvents == {u \in Rewarded : reward[u].mode = "milestone"}

UpdateReferralSettings ==
  /\ rewardMode' \in Modes \ {rewardMode}
  /\ UNCHANGED <<reward, payout, bonus, lumpSums, call, gap>>

\* An event that passes the settings' gates, for a user with a referrer; the
\* settings are read once.
ProcessReferralReward(c) ==
  /\ call[c].pc = "idle"
  /\ \E u \in Referred :
       call' = [call EXCEPT ![c].user = u,
                  ![c].pc = IF rewardMode = "milestone" THEN "event" ELSE "reward"]
  /\ UNCHANGED <<rewardMode, reward, payout, bonus, lumpSums, gap>>

-----------------------------------------------------------------------------
\* Per-referral mode.

\* (referred_id, trigger_type) is unique; any error of the insert ends the call.
InsertReward(c) ==
  /\ call[c].pc = "reward"
  /\ IF reward[User(c)].status # "none" THEN Leave(c) /\ UNCHANGED reward
     ELSE /\ reward' = [reward EXCEPT ![User(c)] =
                          [status |-> "processing", mode |-> "per_referral"]]
          /\ Enter(c, "settlement")
  /\ UNCHANGED <<rewardMode, payout, bonus, lumpSums, gap>>

\* Without SYSTEM_SETTLEMENT_WALLET_ID in this process the reward is failed.
FindSettlementWallet(c) ==
  /\ call[c].pc = "settlement"
  /\ \/ Enter(c, "creditReferrer") /\ UNCHANGED reward
     \/ reward' = [reward EXCEPT ![User(c)].status = "failed"] /\ Leave(c)
  /\ UNCHANGED <<rewardMode, payout, bonus, lumpSums, gap>>

BugComplete == TRUE
\* What a referrer without a wallet leaves of `completed`.
Complete == FALSE

CreditReferrer(c) ==
  /\ call[c].pc = "creditReferrer"
  /\ \/ bonus' = bonus \union {<<User(c), "referrer">>} /\ Enter(c, "creditReferred")
     \/ /\ call' = [call EXCEPT ![c].pc = "creditReferred", ![c].complete = Complete]
        /\ UNCHANGED bonus
  /\ UNCHANGED <<rewardMode, reward, payout, lumpSums, gap>>

\* A missing wallet of the referred user is not fatal.
CreditReferred(c) ==
  /\ call[c].pc = "creditReferred" /\ Enter(c, "close")
  /\ \/ "referred" \in Recipients /\ bonus' = bonus \union {<<User(c), "referred">>}
     \/ UNCHANGED bonus
  /\ UNCHANGED <<rewardMode, reward, payout, lumpSums, gap>>

CloseReward(c) ==
  /\ call[c].pc = "close" /\ Leave(c)
  /\ reward' = [reward EXCEPT ![User(c)].status =
                  IF call[c].complete THEN "completed" ELSE "processing"]
  /\ UNCHANGED <<rewardMode, payout, bonus, lumpSums, gap>>

-----------------------------------------------------------------------------
\* Milestone mode.

InsertEvent(c) ==
  /\ call[c].pc = "event"
  /\ IF reward[User(c)].status # "none" THEN Leave(c) /\ UNCHANGED <<reward, gap>>
     ELSE /\ reward' = [reward EXCEPT ![User(c)] =
                          [status |-> "completed", mode |-> "milestone"]]
          /\ gap' = FALSE /\ Enter(c, "count")
  /\ UNCHANGED <<rewardMode, payout, bonus, lumpSums>>

BugQualifiedCount(c) == Cardinality(Rewarded \ {User(c)})
\* All rows of the referrer, those of the other mode included.
QualifiedCount(c) == Cardinality(Rewarded)

\* The count, the tiers, the settlement wallet and the referrer's wallet.
CountEvents(c) ==
  /\ call[c].pc = "count"
  /\ \/ /\ \E found \in BOOLEAN :
             call' = [call EXCEPT ![c].pc = "tiers", ![c].counted = QualifiedCount(c),
                                  ![c].left = Tiers, ![c].wallet = found]
        /\ UNCHANGED gap
     \/ Leave(c) /\ gap' = TRUE                  \* no settlement wallet configured
  /\ UNCHANGED <<rewardMode, reward, payout, bonus, lumpSums>>

\* The lowest tier not dealt with yet.
IsNext(c, n) == n \in call[c].left /\ \A m \in call[c].left : n <= m

Dealt(c, n) == call' = [call EXCEPT ![c].pc = "tiers", ![c].left = call[c].left \ {n}]

BugReached(c, n) == call[c].counted + 1 >= n
Reached(c, n) == call[c].counted >= n

\* (referrer_id, trigger_type, milestone_count) is unique.
InsertPayout(c, n) ==
  /\ call[c].pc = "tiers" /\ IsNext(c, n)
  /\ IF Reached(c, n) /\ payout[n] = "none"
     THEN payout' = [payout EXCEPT ![n] = "processing"] /\ Enter(c, "payTier")
     ELSE UNCHANGED payout /\ Dealt(c, n)
  /\ UNCHANGED <<rewardMode, reward, bonus, lumpSums, gap>>

\* Any other error of the insert, before or after it was written, is taken for the
\* same and skips the tier.
InsertPayoutFails(c, n) ==
  /\ call[c].pc = "tiers" /\ IsNext(c, n) /\ Reached(c, n)
  /\ payout' = payout \/ (payout[n] = "none" /\ payout' = [payout EXCEPT ![n] = "processing"])
  /\ Dealt(c, n) /\ gap' = TRUE
  /\ UNCHANGED <<rewardMode, reward, bonus, lumpSums>>

CreditMilestone(c, n) ==
  /\ call[c].pc = "payTier" /\ IsNext(c, n)
  /\ IF call[c].wallet
     THEN lumpSums' = lumpSums \union {n} /\ Enter(c, "closeTier") /\ UNCHANGED payout
     ELSE payout' = [payout EXCEPT ![n] = "failed"] /\ Dealt(c, n) /\ UNCHANGED lumpSums
  /\ UNCHANGED <<rewardMode, reward, bonus, gap>>

ClosePayout(c, n) ==
  /\ call[c].pc = "closeTier" /\ IsNext(c, n)
  /\ payout' = [payout EXCEPT ![n] = "completed"] /\ Dealt(c, n)
  /\ UNCHANGED <<rewardMode, reward, bonus, lumpSums, gap>>

TiersEnd(c) ==
  /\ call[c].pc = "tiers" /\ call[c].left = {} /\ Leave(c)
  /\ UNCHANGED <<rewardMode, reward, payout, bonus, lumpSums, gap>>

InPerReferral == {"reward", "settlement", "creditReferrer", "creditReferred", "close"}
InMilestones == {"count", "tiers", "payTier", "closeTier"}

\* A database call or a credit rejects, or the process dies.  The caller's .catch
\* logs it, and nobody calls again for this event.
CallDies(c) ==
  /\ call[c].pc \in InPerReferral \union {"event"} \union InMilestones
  /\ Leave(c)
  /\ gap' = (gap \/ call[c].pc \in InMilestones)
  /\ UNCHANGED <<rewardMode, reward, payout, bonus, lumpSums>>

RewardStep(c) ==
  \/ ProcessReferralReward(c) \/ InsertReward(c) \/ FindSettlementWallet(c)
  \/ CreditReferrer(c) \/ CreditReferred(c) \/ CloseReward(c)
  \/ InsertEvent(c) \/ CountEvents(c) \/ TiersEnd(c) \/ CallDies(c)
  \/ \E n \in Tiers : \/ InsertPayout(c, n) \/ InsertPayoutFails(c, n)
                      \/ CreditMilestone(c, n) \/ ClosePayout(c, n)

ReferralNext == UpdateReferralSettings \/ \E c \in Calls : RewardStep(c)

ReferralSpec == ReferralInit /\ [][ReferralNext]_referralVars

-----------------------------------------------------------------------------
CallStates == [pc : {"idle", "event", "done"} \union InPerReferral \union InMilestones,
               user : Referred \union {"nobody"}, counted : Nat, left : SUBSET Tiers,
               wallet : BOOLEAN, complete : BOOLEAN]
Statuses == {"none", "processing", "completed", "failed"}

\* Settings, rows, credits and calls keep their types.
ReferralTypeOK ==
  /\ rewardMode \in Modes /\ gap \in BOOLEAN
  /\ reward \in [Referred -> [status : Statuses, mode : Modes]]
  /\ payout \in [Tiers -> Statuses]
  /\ bonus \subseteq Referred \X Recipients /\ lumpSums \subseteq Tiers
  /\ call \in [Calls -> CallStates]

\* A reward or milestone shown as completed is in the referrer's wallet, and one
\* shown as failed is not, whichever calls raced, failed or changed the mode.
RewardsAreTrue ==
  /\ \A u \in Referred : reward[u].mode = "per_referral" =>
       /\ reward[u].status = "completed" => <<u, "referrer">> \in bonus
       /\ reward[u].status = "failed" => <<u, "referrer">> \notin bonus
  /\ \A n \in Tiers :
       /\ payout[n] = "completed" => n \in lumpSums
       /\ payout[n] = "failed" => n \notin lumpSums

\* A lump sum is paid for as many referrals as its tier asks for, and a bonus for
\* a referral that was recorded in per-referral mode.
RewardsAreEarned ==
  /\ \A n \in lumpSums : Cardinality(Rewarded) >= n
  /\ \A b \in bonus : reward[b[1]].status # "none" /\ reward[b[1]].mode = "per_referral"

\* Of the events recorded in milestone mode, however closely they fell together,
\* some call counts them all: once the calls are through, every tier they reach has
\* its payout.  A call that died in between, or skipped a tier because its insert
\* failed, is made good by the next event.
MilestonesReached ==
  \/ gap
  \/ \E c \in Calls : call[c].pc \in InMilestones
  \/ \A n \in Tiers : n <= Cardinality(MilestoneEvents) => payout[n] # "none"
=============================================================================
