--------------------------- MODULE BillingSession ---------------------------
(***************************************************************************)
(* The life cycle of the money held for one relayed request                *)
(* (service/billing.go, service/billing_session.go,                        *)
(* service/funding_source.go).  Several requests of one user run           *)
(* concurrently, all with the same token, over shared rows: the user's     *)
(* wallet, the token and the user's subscriptions.  Every database access  *)
(* is a step of its own, and every write may fail.  A transaction on a     *)
(* subscription is two steps: it reads the rows, and later saves a whole   *)
(* row computed from what it read.  The row lock it asks for is an option  *)
(* that gorm v2 ignores, so other transactions may commit in between.      *)
(*                                                                         *)
(* The caller of a session is the relay handler: it may call Reserve and   *)
(* Settle any number of times while it runs (the mutex of the session      *)
(* makes each call exclude the others) and then, in a deferred function,   *)
(* Refund; or it returns without Refund, or it is lost (panic, crash).     *)
(* Amounts are whole quota units.                                          *)
(***************************************************************************)
EXTENDS Integers, FiniteSets, Functions

CONSTANTS
    Sessions,        \* the requests, each with a billing session
    Quotas,          \* amounts a request may ask for or really use
    Prefs,           \* billing preferences of the user that are considered
    Options,         \* sets of options a request may come with
    TokenUnlimited,  \* "yes" or "no": token.UnlimitedQuota
    TrustQuota,      \* common.GetTrustQuota(), 0 when the bypass is off
    InitUserQuota, InitTokenQuota, \* balances at the start
    Subs,            \* the user's subscriptions, in the order of their end
    SubTotal,        \* amount_total of a subscription, 0 for unlimited
    MaxAttempts,     \* attempts of refundWithRetry
    MaxCalls,        \* bound: Reserve and Settle calls per session
    MaxFaults        \* bound: failing database writes

AllPrefs == {"subscription_only", "wallet_only", "wallet_first", "subscription_first"}

AllOptions == {"playground", "forcePreConsume"}

ASSUME ConstantsAssumption ==
    /\ Quotas \subseteq Nat
    /\ Prefs \subseteq AllPrefs
    /\ Options \subseteq SUBSET AllOptions
    /\ TokenUnlimited \in {"yes", "no"}
    /\ TrustQuota \in Nat /\ SubTotal \in Nat /\ Subs \subseteq Nat \ {0}
    /\ InitUserQuota \in Int /\ InitTokenQuota \in Int
    /\ MaxAttempts \in Nat /\ MaxCalls \in Nat /\ MaxFaults \in Nat

VARIABLES
    userQuota,    \* users.quota
    tokenRemain,  \* tokens.remain_quota
    subUsed,      \* user_subscriptions.amount_used, by subscription
    subStatus,    \* user_subscriptions.status, by subscription
    record,       \* subscription_pre_consume_records.status, by request
    txn,          \* the rows that the open transaction of a request has read
    subId,        \* SubscriptionFunding.subscriptionId, 0 until it is funded
    pc,           \* where the request is
    req,          \* the request: what it asks for, its options
    loc,          \* the locals of the call the request is in
    ses,          \* its BillingSession and FundingSource
    paid,         \* history: net amount asked of each row on behalf of the request
    faults,       \* history: the writes of the request that failed
    nFaults,      \* number of failed writes so far
    overwritten   \* history: subscriptions saved over a change that was not read

rows == <<userQuota, tokenRemain, subUsed, subStatus, record>>
vars == <<userQuota, tokenRemain, subUsed, subStatus, record, txn, subId,
          pc, req, loc, ses, paid, faults, nFaults, overwritten>>

Sources == {"wallet", "subscription"}

Flags == {"trusted", "fundingSettled", "settled", "refunded"}

FaultPoints == {"rollbackToken", "reserveUndo", "settleFunding", "settleToken",
                "refundFunding", "refundSave", "refundAck", "refundExtra", "refundToken",
                "other"}

PreConsumePcs == {"wallet", "token", "tokenDec", "fund", "rollback"}

ReservePcs == {"reserveFund", "reserveToken", "reserveTokenDec", "reserveUndo"}

SettlePcs == {"settle", "settleToken"}

RefundPcs == {"refund", "refundSave", "refundExtra", "refundToken"}

EndPcs == {"rejected", "closed", "lost"}

Pcs == {"idle", "live"} \cup PreConsumePcs \cup ReservePcs \cup SettlePcs \cup RefundPcs \cup EndPcs

\* quota: what the request asks for; tokenQuota: the token balance that the
\* authentication read and put into the context.
NewRequest == [quota |-> 0, opts |-> {}, tokenQuota |-> 0]
RequestType == [quota : Nat, opts : SUBSET AllOptions, tokenQuota : Int]

\* arg: effectiveQuota in preConsume, delta in Reserve, actualQuota in Settle;
\* alt: the source to fall back to; err: class of the last funding error;
\* tries: attempts of refundWithRetry; calls: Reserve and Settle calls so far.
NewLocals == [arg |-> 0, alt |-> "none", err |-> "none", tries |-> 0, calls |-> 0]
LocalsType == [arg : Nat, alt : Sources \cup {"none"}, err : {"none", "insufficient", "other"},
               tries : Nat, calls : Nat]

\* consumed is a field of WalletFunding, preConsumed of SubscriptionFunding.
NewSession ==
    [funding |-> "none", preConsumedQuota |-> 0, tokenConsumed |-> 0,
     extraReserved |-> 0, consumed |-> 0, preConsumed |-> 0, flags |-> {}]
SessionType ==
    [funding : Sources \cup {"none"}, preConsumedQuota : Nat, tokenConsumed : Nat,
     extraReserved : Nat, consumed : Int, preConsumed : Nat, flags : SUBSET Flags]

NoSub == 0

SubStatuses == {"active", "none", "expired"}

\* Outside a transaction on the subscriptions.
NoTxn == [open |-> "no", used |-> [u \in Subs |-> 0], status |-> [u \in Subs |-> "none"]]
TxnType == [open : {"no", "yes"}, used : [Subs -> Nat], status : [Subs -> SubStatuses]]

Init ==
    /\ userQuota = InitUserQuota
    /\ tokenRemain = InitTokenQuota
    /\ subUsed = [u \in Subs |-> 0]
    /\ subStatus \in [Subs -> {"active", "none"}]
    /\ record = [s \in Sessions |-> "none"]
    /\ txn = [s \in Sessions |-> NoTxn]
    /\ subId = [s \in Sessions |-> NoSub]
    /\ pc = [s \in Sessions |-> "idle"]
    /\ req = [s \in Sessions |-> NewRequest]
    /\ loc = [s \in Sessions |-> NewLocals]
    /\ ses = [s \in Sessions |-> NewSession]
    /\ paid = [s \in Sessions |-> [wallet |-> 0, token |-> 0, sub |-> 0]]
    /\ faults = [s \in Sessions |-> {}]
    /\ nFaults = 0
    /\ overwritten = {}

-----------------------------------------------------------------------------
(* Database writes.  A negative amount gives back. *)

IsPlayground(s) == "playground" \in req[s].opts

Goto(s, p) == pc' = [pc EXCEPT ![s] = p]

SetLocals(s, l) == loc' = [loc EXCEPT ![s] = l]

SetSession(s, r) == ses' = [ses EXCEPT ![s] = r]

KeepSession == UNCHANGED <<req, loc, ses>>

NoFault == UNCHANGED <<faults, nFaults>>

\* The transaction on the subscriptions, if one is open, is over.
EndTxn(s) == txn' = [txn EXCEPT ![s] = NoTxn]

\* A write fails: nothing is stored, the error comes back to the caller.
Fault(s, f) ==
    /\ nFaults < MaxFaults
    /\ nFaults' = nFaults + 1
    /\ faults' = [faults EXCEPT ![s] = @ \cup {f}]
    /\ EndTxn(s)
    /\ UNCHANGED <<rows, subId, paid, overwritten>>

\* DecreaseUserQuota and IncreaseUserQuota: an unconditional quota -= n.
ChargeWallet(s, n) ==
    /\ userQuota' = userQuota - n
    /\ paid' = [paid EXCEPT ![s].wallet = @ + n]
    /\ NoFault
    /\ EndTxn(s)
    /\ UNCHANGED <<tokenRemain, subUsed, subStatus, record, subId, overwritten>>

\* DecreaseTokenQuota and IncreaseTokenQuota: an unconditional remain_quota -= n.
ChargeToken(s, n) ==
    /\ tokenRemain' = tokenRemain - n
    /\ paid' = [paid EXCEPT ![s].token = @ + n]
    /\ NoFault
    /\ EndTxn(s)
    /\ UNCHANGED <<userQuota, subUsed, subStatus, record, subId, overwritten>>

\* A step that touches no row and cannot fail.
NoCharge(s) == NoFault /\ EndTxn(s) /\ UNCHANGED <<rows, subId, paid, overwritten>>

-----------------------------------------------------------------------------
(* Transactions on the subscriptions *)

\* The places at which a request has a transaction on the subscriptions.
NeedsSubscription(s) ==
    /\ ses[s].funding = "subscription"
    /\ \/ pc[s] \in {"fund", "reserveFund", "reserveUndo", "settle"}
       \/ pc[s] = "refund" /\ record[s] = "consumed"
       \/ pc[s] = "refundExtra" /\ ses[s].extraReserved > 0

\* The transaction begins and reads; nothing keeps the rows as they are.
ReadSubscription(s) ==
    /\ NeedsSubscription(s) /\ txn[s].open = "no"
    /\ txn' = [txn EXCEPT ![s] = [open |-> "yes", used |-> subUsed, status |-> subStatus]]
    /\ UNCHANGED <<rows, subId, pc, req, loc, ses, paid, faults, nFaults, overwritten>>

\* tx.Save stores every column of the row as it was read, the status too,
\* with the new amount_used, and the transaction commits.
SaveSubscription(s, u, used) ==
    /\ subUsed' = [subUsed EXCEPT ![u] = used]
    /\ subStatus' = [subStatus EXCEPT ![u] = txn[s].status[u]]
    /\ overwritten' = IF txn[s].used[u] = subUsed[u] THEN overwritten ELSE overwritten \cup {u}
    /\ EndTxn(s)
    /\ UNCHANGED <<userQuota, tokenRemain>>

\* Mutant: the new amount is not clamped at zero.
NewUsedUnclamped(s, delta) == txn[s].used[subId[s]] + delta

NewUsed(s, delta) ==
    LET used == txn[s].used[subId[s]] + delta IN IF used < 0 THEN 0 ELSE used

ExceedsTotal(s, delta) == SubTotal > 0 /\ NewUsed(s, delta) > SubTotal

\* The second half of PostConsumeUserSubscriptionDelta: the check and the save.
PostConsumeUserSubscriptionDelta(s, delta) ==
    /\ txn[s].open = "yes"
    /\ ~ExceedsTotal(s, delta)
    /\ SaveSubscription(s, subId[s], NewUsed(s, delta))
    /\ paid' = [paid EXCEPT ![s].sub = @ + delta]
    /\ NoFault
    /\ UNCHANGED <<record, subId>>

\* ... or the check fails and the transaction is rolled back.
DeltaRefused(s, delta) ==
    /\ ses[s].funding = "subscription" /\ txn[s].open = "yes"
    /\ ExceedsTotal(s, delta)
    /\ NoCharge(s)

-----------------------------------------------------------------------------
(* NewBillingSession and preConsume *)

\* preConsume with an effective quota: the token first, unless there is
\* nothing to take from it.
BeginPreConsume(s, opts, l, source, flags) ==
    LET takesToken == l.arg > 0 /\ "playground" \notin opts
    IN  /\ Goto(s, IF takesToken THEN "token" ELSE "fund")
        /\ SetLocals(s, l)
        /\ SetSession(s, [NewSession EXCEPT !.funding = source, !.flags = flags,
                                            !.tokenConsumed = IF takesToken THEN 0 ELSE l.arg])

TryWallet(s, l, alt) ==
    /\ Goto(s, "wallet")
    /\ SetLocals(s, [l EXCEPT !.alt = alt])
    /\ SetSession(s, NewSession)

\* A subscription always pre-consumes at least one unit.
TrySubscription(s, q, opts, l, alt) ==
    BeginPreConsume(s, opts, [l EXCEPT !.alt = alt, !.arg = IF q <= 0 THEN 1 ELSE q],
                    "subscription", {})

Reject(s) == Goto(s, "rejected") /\ UNCHANGED <<loc, ses>>

HasActive == \E u \in Subs : subStatus[u] = "active"

\* NewBillingSession chooses the first source to try.
NewBillingSession(s) ==
    /\ pc[s] = "idle"
    /\ NoCharge(s)
    /\ \E pref \in Prefs, opts \in Options, q \in Quotas :
         /\ req' = [req EXCEPT ![s] = [quota |-> q, opts |-> opts, tokenQuota |-> tokenRemain]]
         /\ \/ pref = "subscription_only" /\ TrySubscription(s, q, opts, NewLocals, "none")
            \/ pref = "wallet_only" /\ TryWallet(s, NewLocals, "none")
            \/ pref = "wallet_first" /\ TryWallet(s, NewLocals, "subscription")
            \/ /\ pref = "subscription_first" /\ HasActive
               /\ TrySubscription(s, q, opts, NewLocals, "wallet")
            \/ /\ pref = "subscription_first" /\ ~HasActive
               /\ TryWallet(s, NewLocals, "none")
            \/ pref = "subscription_first" /\ Reject(s)   \* the query failed

\* A source has too little: the other one, if the preference names it.
FallBack(s) ==
    \/ /\ loc[s].alt = "subscription"
       /\ TrySubscription(s, req[s].quota, req[s].opts, loc[s], "none")
    \/ loc[s].alt = "wallet" /\ TryWallet(s, loc[s], "none")
    \/ loc[s].alt = "none" /\ Reject(s)

ShouldTrust(s) ==
    /\ "forcePreConsume" \notin req[s].opts
    /\ TrustQuota > 0
    /\ TokenUnlimited = "yes" \/ req[s].tokenQuota > TrustQuota
    /\ userQuota > TrustQuota

\* tryWallet reads the balance once and decides everything from that value.
CheckWallet(s) ==
    /\ pc[s] = "wallet"
    /\ NoCharge(s)
    /\ UNCHANGED req
    /\ IF userQuota <= 0 \/ userQuota - req[s].quota < 0
       THEN FallBack(s)
       ELSE IF ShouldTrust(s)
            THEN BeginPreConsume(s, req[s].opts, [loc[s] EXCEPT !.arg = 0], "wallet", {"trusted"})
            ELSE BeginPreConsume(s, req[s].opts, [loc[s] EXCEPT !.arg = req[s].quota], "wallet", {})

\* PreConsumeTokenQuota reads the token and checks it...
CheckToken(s) ==
    /\ pc[s] = "token"
    /\ NoCharge(s)
    /\ KeepSession
    /\ Goto(s, IF TokenUnlimited = "yes" \/ tokenRemain >= loc[s].arg
               THEN "tokenDec" ELSE "rejected")

\* ... and takes the amount in a second access.
TakeToken(s) ==
    /\ pc[s] = "tokenDec"
    /\ \/ /\ ChargeToken(s, loc[s].arg)
          /\ SetSession(s, [ses[s] EXCEPT !.tokenConsumed = loc[s].arg])
          /\ Goto(s, "fund")
       \/ Fault(s, "other") /\ Goto(s, "rejected") /\ UNCHANGED ses
    /\ UNCHANGED <<req, loc>>

\* A query fails: no source is tried after that.
QueryFails(s) ==
    /\ pc[s] \in {"wallet", "token"}
    /\ NoCharge(s)
    /\ KeepSession
    /\ Goto(s, "rejected")

FundingError(s, e) ==
    SetLocals(s, [loc[s] EXCEPT !.err = e]) /\ Goto(s, "rollback") /\ UNCHANGED ses

\* WalletFunding.PreConsume: no condition on the balance any more.
FundFromWallet(s) ==
    /\ pc[s] = "fund" /\ ses[s].funding = "wallet"
    /\ UNCHANGED req
    /\ \/ /\ IF loc[s].arg > 0 THEN ChargeWallet(s, loc[s].arg) ELSE NoCharge(s)
          /\ SetSession(s, [ses[s] EXCEPT !.consumed = loc[s].arg,
                                          !.preConsumedQuota = loc[s].arg])
          /\ Goto(s, "live")
          /\ UNCHANGED loc
       \/ loc[s].arg > 0 /\ Fault(s, "other") /\ FundingError(s, "other")

\* The active subscriptions that have the amount left, as they were read.
Fitting(s, n) ==
    {u \in Subs : /\ txn[s].status[u] = "active"
                  /\ SubTotal > 0 => SubTotal - txn[s].used[u] >= n}

\* The rest of PreConsumeUserSubscription takes the first that fits, records
\* it and saves.
TakeSubscription(s) ==
    \E u \in Fitting(s, loc[s].arg) :
        /\ \A v \in Fitting(s, loc[s].arg) : u <= v
        /\ SaveSubscription(s, u, txn[s].used[u] + loc[s].arg)
        /\ record' = [record EXCEPT ![s] = "consumed"]
        /\ subId' = [subId EXCEPT ![s] = u]
        /\ paid' = [paid EXCEPT ![s].sub = @ + loc[s].arg]
        /\ NoFault

\* SubscriptionFunding.PreConsume.  The query that finds the subscriptions
\* reports its own failure as "no active subscription".
FundFromSubscription(s) ==
    /\ pc[s] = "fund" /\ ses[s].funding = "subscription"
    /\ UNCHANGED req
    /\ \/ /\ txn[s].open = "yes"
          /\ TakeSubscription(s)
          /\ SetSession(s, [ses[s] EXCEPT !.preConsumed = loc[s].arg,
                                          !.preConsumedQuota = loc[s].arg])
          /\ Goto(s, "live")
          /\ UNCHANGED loc
       \/ /\ txn[s].open = "no" \/ Fitting(s, loc[s].arg) = {}
          /\ NoCharge(s) /\ FundingError(s, "insufficient")
       \/ Fault(s, "other") /\ FundingError(s, "other")

AfterFundingError(s) ==
    IF loc[s].err = "insufficient" THEN FallBack(s) ELSE Reject(s)

\* Mutant: the token is not given back.
RollbackTokenSkipped(s) ==
    pc[s] = "rollback" /\ NoCharge(s) /\ AfterFundingError(s) /\ UNCHANGED req

\* preConsume gives the token back when the funding source failed.
RollbackToken(s) ==
    /\ pc[s] = "rollback"
    /\ IF ses[s].tokenConsumed > 0 /\ ~IsPlayground(s)
       THEN \/ ChargeToken(s, -ses[s].tokenConsumed)
            \/ Fault(s, "rollbackToken")
       ELSE NoCharge(s)
    /\ AfterFundingError(s)
    /\ UNCHANGED req

-----------------------------------------------------------------------------
(* Reserve *)

ReserveIsNoOp(s, target) ==
    \/ ses[s].flags \cap {"settled", "refunded", "trusted"} # {}
    \/ target <= ses[s].preConsumedQuota

Reserve(s) ==
    /\ pc[s] = "live" /\ loc[s].calls < MaxCalls
    /\ NoCharge(s)
    /\ \E target \in Quotas :
         /\ ~ReserveIsNoOp(s, target)
         /\ SetLocals(s, [loc[s] EXCEPT !.arg = target - ses[s].preConsumedQuota,
                                        !.calls = @ + 1])
    /\ Goto(s, "reserveFund")
    /\ UNCHANGED <<req, ses>>

\* Mutant: the token part of a reserve is not remembered.
CommitReserveNoToken(s, r) ==
    /\ Goto(s, "live")
    /\ SetSession(s, [r EXCEPT !.preConsumedQuota = @ + loc[s].arg,
                               !.extraReserved = @ + loc[s].arg])

CommitReserve(s, r) ==
    /\ Goto(s, "live")
    /\ SetSession(s, [r EXCEPT !.preConsumedQuota = @ + loc[s].arg,
                               !.tokenConsumed = @ + loc[s].arg,
                               !.extraReserved = @ + loc[s].arg])

ReserveFunding(s) ==
    /\ pc[s] = "reserveFund"
    /\ UNCHANGED <<req, loc>>
    /\ \/ /\ IF ses[s].funding = "wallet"
             THEN ChargeWallet(s, loc[s].arg)
             ELSE PostConsumeUserSubscriptionDelta(s, loc[s].arg)
          /\ LET r == IF ses[s].funding = "wallet"
                      THEN [ses[s] EXCEPT !.consumed = @ + loc[s].arg] ELSE ses[s]
             IN  IF IsPlayground(s)
                 THEN CommitReserve(s, r)
                 ELSE Goto(s, "reserveToken") /\ SetSession(s, r)
       \/ DeltaRefused(s, loc[s].arg) /\ Goto(s, "live") /\ UNCHANGED ses
       \/ Fault(s, "other") /\ Goto(s, "live") /\ UNCHANGED ses

ReserveCheckToken(s) ==
    /\ pc[s] = "reserveToken"
    /\ NoCharge(s)
    /\ KeepSession
    /\ \/ /\ TokenUnlimited = "yes" \/ tokenRemain >= loc[s].arg
          /\ Goto(s, "reserveTokenDec")
       \/ Goto(s, "reserveUndo")     \* too little, or the query failed

ReserveTakeToken(s) ==
    /\ pc[s] = "reserveTokenDec"
    /\ UNCHANGED <<req, loc>>
    /\ \/ ChargeToken(s, loc[s].arg) /\ CommitReserve(s, ses[s])
       \/ Fault(s, "other") /\ Goto(s, "reserveUndo") /\ UNCHANGED ses

\* Mutant: the rolled back amount still counts as consumed.
RollbackKeepsConsumed(s) ==
    /\ pc[s] = "reserveUndo" /\ ses[s].funding = "wallet"
    /\ ChargeWallet(s, -loc[s].arg)
    /\ Goto(s, "live")
    /\ KeepSession

\* rollbackFundingReserve: a failure is logged and forgotten.
RollbackFundingReserve(s) ==
    /\ pc[s] = "reserveUndo"
    /\ Goto(s, "live")
    /\ UNCHANGED <<req, loc>>
    /\ \/ /\ ses[s].funding = "wallet"
          /\ ChargeWallet(s, -loc[s].arg)
          /\ SetSession(s, [ses[s] EXCEPT !.consumed = @ - loc[s].arg])
       \/ /\ ses[s].funding = "subscription"
          /\ PostConsumeUserSubscriptionDelta(s, -loc[s].arg)
          /\ UNCHANGED ses
       \/ Fault(s, "reserveUndo") /\ UNCHANGED ses

-----------------------------------------------------------------------------
(* Settle *)

AddFlag(s, flag) == SetSession(s, [ses[s] EXCEPT !.flags = @ \cup {flag}])

SettleDelta(s) == loc[s].arg - ses[s].preConsumedQuota

\* A Settle call that finds the session unsettled; any other is a no-op.
Settle(s) ==
    /\ pc[s] = "live" /\ loc[s].calls < MaxCalls
    /\ "settled" \notin ses[s].flags
    /\ NoCharge(s)
    /\ UNCHANGED req
    /\ \E actual \in Quotas :
         /\ SetLocals(s, [loc[s] EXCEPT !.arg = actual, !.calls = @ + 1])
         /\ IF actual = ses[s].preConsumedQuota
            THEN Goto(s, "live") /\ AddFlag(s, "settled")
            ELSE /\ Goto(s, IF "fundingSettled" \in ses[s].flags THEN "settleToken" ELSE "settle")
                 /\ UNCHANGED ses

\* The funding source takes or returns the difference; an error ends the call.
SettleFunding(s) ==
    /\ pc[s] = "settle"
    /\ UNCHANGED <<req, loc>>
    /\ \/ /\ IF ses[s].funding = "wallet"
             THEN ChargeWallet(s, SettleDelta(s))
             ELSE PostConsumeUserSubscriptionDelta(s, SettleDelta(s))
          /\ AddFlag(s, "fundingSettled")
          /\ Goto(s, "settleToken")
       \/ DeltaRefused(s, SettleDelta(s)) /\ Goto(s, "live") /\ UNCHANGED ses
       \/ Fault(s, "settleFunding") /\ Goto(s, "live") /\ UNCHANGED ses

\* The token follows; an error is logged, the session is settled either way.
SettleToken(s) ==
    /\ pc[s] = "settleToken"
    /\ IF IsPlayground(s)
       THEN NoCharge(s)
       ELSE ChargeToken(s, SettleDelta(s)) \/ Fault(s, "settleToken")
    /\ AddFlag(s, "settled")
    /\ Goto(s, "live")
    /\ UNCHANGED <<req, loc>>

-----------------------------------------------------------------------------
(* Refund *)

NeedsRefund(s) ==
    /\ ses[s].flags \cap {"settled", "refunded", "fundingSettled"} = {}
    /\ \/ ses[s].tokenConsumed > 0
       \/ ses[s].funding = "subscription" /\ ses[s].preConsumed > 0

\* Mutant: only an earlier refund stops a refund.
RefundAfterSettle(s) ==
    /\ pc[s] = "live"
    /\ NoCharge(s)
    /\ UNCHANGED <<req, loc>>
    /\ IF "refunded" \in ses[s].flags \/ ses[s].tokenConsumed = 0
       THEN Goto(s, "closed") /\ UNCHANGED ses
       ELSE Goto(s, "refund") /\ AddFlag(s, "refunded")

\* The deferred call of the handler; the rest runs in another goroutine.
Refund(s) ==
    /\ pc[s] = "live"
    /\ NoCharge(s)
    /\ UNCHANGED <<req, loc>>
    /\ IF ses[s].flags \cap {"settled", "refunded"} # {} \/ ~NeedsRefund(s)
       THEN Goto(s, "closed") /\ UNCHANGED ses
       ELSE Goto(s, "refund") /\ AddFlag(s, "refunded")

\* WalletFunding.Refund: one attempt.
RefundWallet(s) ==
    /\ pc[s] = "refund" /\ ses[s].funding = "wallet"
    /\ IF ses[s].consumed > 0
       THEN ChargeWallet(s, -ses[s].consumed) \/ Fault(s, "refundFunding")
       ELSE NoCharge(s)
    /\ Goto(s, "refundToken")
    /\ KeepSession

\* The next attempt of refundWithRetry, or its end.
RetryRefund(s) ==
    /\ IF loc[s].tries + 1 < MaxAttempts
       THEN Goto(s, "refund") /\ SetLocals(s, [loc[s] EXCEPT !.tries = @ + 1])
       ELSE Goto(s, "refundExtra") /\ UNCHANGED loc
    /\ UNCHANGED <<req, ses>>

\* RefundSubscriptionPreConsume up to the inner transaction, which commits
\* on its own connection.
RefundSubscription(s) ==
    /\ pc[s] = "refund" /\ ses[s].funding = "subscription"
    /\ \/ record[s] # "consumed" /\ NoCharge(s) /\ Goto(s, "refundExtra") /\ KeepSession
       \/ /\ record[s] = "consumed"
          /\ PostConsumeUserSubscriptionDelta(s, -ses[s].preConsumed)
          /\ Goto(s, "refundSave") /\ KeepSession
       \/ record[s] = "consumed" /\ Fault(s, "refundFunding") /\ RetryRefund(s)

\* The outer transaction marks the record and commits, or fails as a whole,
\* or commits while the caller gets an error (the answer is lost).
SaveRefundRecord(s) ==
    /\ pc[s] = "refundSave"
    /\ \/ /\ record' = [record EXCEPT ![s] = "refunded"]
          /\ NoFault
          /\ Goto(s, "refundExtra")
          /\ KeepSession
          /\ UNCHANGED <<userQuota, tokenRemain, subUsed, subStatus, txn, subId, paid, overwritten>>
       \/ Fault(s, "refundSave") /\ RetryRefund(s)
       \/ /\ nFaults < MaxFaults
          /\ nFaults' = nFaults + 1
          /\ faults' = [faults EXCEPT ![s] = @ \cup {"refundAck"}]
          /\ record' = [record EXCEPT ![s] = "refunded"]
          /\ RetryRefund(s)
          /\ UNCHANGED <<userQuota, tokenRemain, subUsed, subStatus, txn, subId, paid, overwritten>>

\* Mutant: what Reserve added is not returned.
RefundExtraForgotten(s) ==
    pc[s] = "refundExtra" /\ NoCharge(s) /\ Goto(s, "refundToken") /\ KeepSession

\* Mutant: the goroutine goes on only when something was reserved.
RefundExtraStuck(s) ==
    /\ pc[s] = "refundExtra" /\ ses[s].extraReserved > 0
    /\ PostConsumeUserSubscriptionDelta(s, -ses[s].extraReserved)
    /\ Goto(s, "refundToken")
    /\ KeepSession

RefundExtraReserved(s) ==
    /\ pc[s] = "refundExtra"
    /\ IF ses[s].extraReserved > 0
       THEN \/ PostConsumeUserSubscriptionDelta(s, -ses[s].extraReserved)
            \/ Fault(s, "refundExtra")
       ELSE NoCharge(s)
    /\ Goto(s, "refundToken")
    /\ KeepSession

\* Mutant: extraReserved is counted a second time.
RefundTokenTwice(s) ==
    /\ pc[s] = "refundToken"
    /\ IF ses[s].tokenConsumed > 0 /\ ~IsPlayground(s)
       THEN ChargeToken(s, -(ses[s].tokenConsumed + ses[s].extraReserved))
       ELSE NoCharge(s)
    /\ Goto(s, "closed")
    /\ KeepSession

RefundToken(s) ==
    /\ pc[s] = "refundToken"
    /\ IF ses[s].tokenConsumed > 0 /\ ~IsPlayground(s)
       THEN ChargeToken(s, -ses[s].tokenConsumed) \/ Fault(s, "refundToken")
       ELSE NoCharge(s)
    /\ Goto(s, "closed")
    /\ KeepSession

-----------------------------------------------------------------------------
(* The rest of the world *)

\* The handler ends without an error, so the deferred function does nothing.
HandlerReturns(s) ==
    /\ pc[s] = "live"
    /\ Goto(s, "closed")
    /\ NoCharge(s) /\ KeepSession

\* A panic of the handler (newAPIError is nil in the deferred function) or
\* a crash of the process: no step of the request follows.
Lost(s) ==
    /\ pc[s] \notin EndPcs \cup {"idle"}
    /\ Goto(s, "lost")
    /\ NoCharge(s) /\ KeepSession

\* A subscription ends, or is ended, while requests are in flight.
ExpireSubscription(u) ==
    /\ subStatus[u] = "active"
    /\ subStatus' = [subStatus EXCEPT ![u] = "expired"]
    /\ UNCHANGED <<userQuota, tokenRemain, subUsed, record, txn, subId, pc, req, loc, ses, paid,
                   faults, nFaults, overwritten>>

PreConsumeStep(s) ==
    \/ CheckWallet(s) \/ CheckToken(s) \/ TakeToken(s) \/ QueryFails(s)
    \/ FundFromWallet(s) \/ FundFromSubscription(s) \/ RollbackToken(s)

ReserveStep(s) ==
    \/ ReserveFunding(s) \/ ReserveCheckToken(s)
    \/ ReserveTakeToken(s) \/ RollbackFundingReserve(s)

SettleStep(s) == SettleFunding(s) \/ SettleToken(s)

RefundStep(s) ==
    \/ RefundWallet(s) \/ RefundSubscription(s) \/ SaveRefundRecord(s)
    \/ RefundExtraReserved(s) \/ RefundToken(s)

Call(s) == NewBillingSession(s) \/ Reserve(s) \/ Settle(s) \/ Refund(s) \/ HandlerReturns(s)

Next ==
    \/ \E s \in Sessions :
         \/ Call(s) \/ PreConsumeStep(s) \/ ReserveStep(s)
         \/ SettleStep(s) \/ RefundStep(s) \/ Lost(s) \/ ReadSubscription(s)
    \/ \E u \in Subs : ExpireSubscription(u)

Spec == Init /\ [][Next]_vars

\* The goroutine of a refund is scheduled and its database calls return.
FairSpec ==
    /\ Spec
    /\ \A s \in Sessions :
          WF_vars(RefundStep(s) \/ (pc[s] \in RefundPcs /\ ReadSubscription(s)))

-----------------------------------------------------------------------------
(* Properties *)

RowsTypeOK ==
    /\ userQuota \in Int /\ tokenRemain \in Int
    /\ subUsed \in [Subs -> Nat] /\ subStatus \in [Subs -> SubStatuses]
    /\ txn \in [Sessions -> TxnType]
    /\ subId \in [Sessions -> Subs \cup {NoSub}]
    /\ record \in [Sessions -> {"none", "consumed", "refunded"}]
    /\ paid \in [Sessions -> [wallet : Int, token : Int, sub : Int]]
    /\ faults \in [Sessions -> SUBSET FaultPoints]
    /\ nFaults \in Nat
    /\ overwritten \in SUBSET (Subs \cup {NoSub})

\* The type invariant; in particular amount_used never becomes negative
\* (PostConsumeUserSubscriptionDelta clamps it) while balances may.
TypeOK ==
    /\ RowsTypeOK
    /\ pc \in [Sessions -> Pcs]
    /\ req \in [Sessions -> RequestType]
    /\ loc \in [Sessions -> LocalsType]
    /\ ses \in [Sessions -> SessionType]

\* What the request took from its own funding source and from the other one.
FundingPaid(s) == IF ses[s].funding = "subscription" THEN paid[s].sub ELSE paid[s].wallet

OtherPaid(s) == IF ses[s].funding = "subscription" THEN paid[s].wallet ELSE paid[s].sub

NoFaultIn(s, F) == faults[s] \cap F = {}

(***************************************************************************)
(* A settled session has taken exactly the actual quota from its funding   *)
(* source and from the token (nothing from the token in the playground),   *)
(* and nothing from the other source, whatever was pre-consumed, reserved, *)
(* tried first, or called later (a deferred Refund included).  The only    *)
(* exceptions are the writes whose failure the code just logs: the         *)
(* roll-backs and the token adjustment.                                    *)
(***************************************************************************)
SettledPaysActual ==
    \A s \in Sessions : "settled" \in ses[s].flags =>
        /\ NoFaultIn(s, {"reserveUndo"}) => FundingPaid(s) = loc[s].arg
        /\ OtherPaid(s) = 0
        /\ NoFaultIn(s, {"rollbackToken", "settleToken"}) =>
               paid[s].token = IF IsPlayground(s) THEN 0 ELSE loc[s].arg

SubscriptionRefundFaults == {"reserveUndo", "refundFunding", "refundSave", "refundExtra"}

(***************************************************************************)
(* When the goroutine of Refund has ended, everything the request took is  *)
(* back, unless a write of the refund itself (or an earlier roll-back) was *)
(* lost.  The wallet survives even a lost roll-back of Reserve, because    *)
(* consumed still counts it.                                               *)
(***************************************************************************)
RefundReturnsAll ==
    \A s \in Sessions : pc[s] = "closed" /\ "refunded" \in ses[s].flags =>
        /\ ses[s].funding = "wallet" /\ NoFaultIn(s, {"refundFunding"}) => paid[s].wallet = 0
        /\ ses[s].funding = "subscription" /\ NoFaultIn(s, SubscriptionRefundFaults)
              => paid[s].sub = 0
        /\ OtherPaid(s) = 0
        /\ NoFaultIn(s, {"rollbackToken", "refundToken"}) => paid[s].token = 0

(***************************************************************************)
(* A request that NewBillingSession rejects, after trying one source or    *)
(* both, has paid nothing unless giving the token back failed.             *)
(***************************************************************************)
RejectedPaysNothing ==
    \A s \in Sessions : pc[s] = "rejected" =>
        /\ paid[s].wallet = 0 /\ paid[s].sub = 0
        /\ NoFaultIn(s, {"rollbackToken"}) => paid[s].token = 0

(***************************************************************************)
(* At no point has a request got back more than it took, from any row,     *)
(* unless saving the refund record failed after the subscription was       *)
(* already credited.                                                       *)
(***************************************************************************)
NeverOverRefunded ==
    \A s \in Sessions :
        /\ paid[s].wallet >= 0 /\ paid[s].token >= 0
        /\ NoFaultIn(s, {"refundSave"}) => paid[s].sub >= 0

(***************************************************************************)
(* The comment on RefundSubscriptionPreConsume: it is idempotent by        *)
(* requestId, so that a retried refund never returns more than its own     *)
(* request took: the row keeps at least what any other request holds.      *)
(***************************************************************************)
SubscriptionRefundIsIdempotent ==
    \A s \in Sessions :
        subId[s] \in Subs \ overwritten /\ "refunded" \notin ses[s].flags
            => subUsed[subId[s]] >= paid[s].sub

(***************************************************************************)
(* The accounting invariant behind these properties: what a request has    *)
(* taken, as a function of where it is and of the fields of its session.   *)
(* p is its place, r its session, a the argument of its current or last    *)
(* call, o its options, d what it paid, f its failed writes, q the status  *)
(* of its pre-consume record.                                              *)
(***************************************************************************)
TokenTaken(r, o) == IF "playground" \in o THEN 0 ELSE r.tokenConsumed

OwnPaid(r, d) == IF r.funding = "subscription" THEN d.sub ELSE d.wallet

\* Until a source is funded only the token may have been charged.
AccountBeforeFunding(p, r, a, o, d, f) ==
    p \in {"idle", "rejected"} \cup PreConsumePcs =>
        /\ d.wallet = 0 /\ d.sub = 0
        /\ r.flags \subseteq {"trusted"} /\ "settleToken" \notin f
        /\ r.extraReserved = 0 /\ r.consumed = 0 /\ r.preConsumed = 0
        /\ p \in {"token", "tokenDec", "fund", "rollback"} => r.funding \in Sources
        /\ p \in {"token", "tokenDec"} => "playground" \notin o
        /\ p \in {"fund", "rollback"} => r.tokenConsumed = a
        /\ LET held == IF p \in {"fund", "rollback"} THEN TokenTaken(r, o) ELSE 0
           IN  /\ d.token >= held
               /\ "rollbackToken" \notin f => d.token = held

LivePcs == {"live", "closed"} \cup ReservePcs \cup SettlePcs \cup RefundPcs

\* The fields of a funded session agree with each other.
AccountFields(p, r, d, f) ==
    p \in LivePcs =>
        /\ r.funding \in Sources
        /\ r.tokenConsumed = r.preConsumedQuota
        /\ r.funding = "subscription" =>
               /\ r.preConsumed + r.extraReserved = r.preConsumedQuota
               /\ r.consumed = 0 /\ d.wallet = 0
        /\ r.funding = "wallet" => d.sub = 0
        /\ ~(("settled" \in r.flags \/ "fundingSettled" \in r.flags) /\ "refunded" \in r.flags)
        /\ "fundingSettled" \in r.flags => "settled" \in r.flags \/ p = "settleToken"
        /\ "settleToken" \in f => "settled" \in r.flags
        /\ p \in ReservePcs \cup SettlePcs => "settled" \notin r.flags
        /\ p \in {"live"} \cup ReservePcs \cup SettlePcs => "refunded" \notin r.flags
        /\ p \in RefundPcs => "refunded" \in r.flags
        /\ p \in {"refundSave", "refundExtra"} => r.funding = "subscription"

\* What the funding source should have given up before any refund.
FundingHeld(p, r, a) ==
    IF "settled" \in r.flags \/ p = "settleToken" THEN a
    ELSE IF p \in ReservePcs \ {"reserveFund"}
         THEN r.preConsumedQuota + a ELSE r.preConsumedQuota

AccountFunding(p, r, a, d, f) ==
    p \in LivePcs /\ "refunded" \notin r.flags =>
        /\ OwnPaid(r, d) >= FundingHeld(p, r, a)
        /\ "reserveUndo" \notin f => OwnPaid(r, d) = FundingHeld(p, r, a)
        /\ r.funding = "wallet" =>
              d.wallet - r.consumed =
                  IF "settled" \in r.flags \/ p = "settleToken"
                  THEN a - r.preConsumedQuota ELSE 0

\* What the token should have given up.
TokenHeld(p, r, a, o) ==
    IF "playground" \in o \/ (p = "closed" /\ "refunded" \in r.flags) THEN 0
    ELSE IF "settled" \in r.flags THEN a ELSE r.tokenConsumed

AccountToken(p, r, a, o, d, f) ==
    p \in LivePcs =>
        /\ d.token >= 0
        /\ p \in {"reserveToken", "reserveTokenDec"} => "playground" \notin o
        /\ "settled" \notin r.flags => d.token >= TokenHeld(p, r, a, o)
        /\ "rollbackToken" \notin f /\ "refundToken" \notin f /\ "refunded" \in r.flags
              => d.token = TokenHeld(p, r, a, o)
        /\ "rollbackToken" \notin f /\ "settleToken" \notin f /\ "refunded" \notin r.flags
              => d.token = TokenHeld(p, r, a, o)

\* What the subscription still has to get back.
RestOfRefund(p, r, q) ==
    IF p = "refund" /\ q = "consumed" THEN r.preConsumedQuota
    ELSE IF p \in {"refund", "refundSave", "refundExtra"} THEN r.extraReserved ELSE 0

\* The record says consumed until the refund marks it.
AccountRefund(p, r, d, f, q) ==
    /\ p \in LivePcs /\ "refunded" \notin r.flags /\ r.funding = "subscription" => q = "consumed"
    /\ p \in LivePcs /\ "refunded" \in r.flags /\ r.funding = "wallet" =>
        /\ p = "refund" => d.wallet = r.consumed
        /\ d.wallet >= 0
        /\ p # "refund" /\ "refundFunding" \notin f => d.wallet = 0
    /\ p \in LivePcs /\ "refunded" \in r.flags /\ r.funding = "subscription" =>
        /\ p = "refundSave" => q = "consumed"
        /\ "refundSave" \notin f => d.sub >= RestOfRefund(p, r, q)
        /\ (\A x \in SubscriptionRefundFaults : x \notin f) => d.sub = RestOfRefund(p, r, q)

\* A request that was lost after Settle has paid for it.
AccountLost(p, r, a, o, d, f) ==
    p = "lost" =>
        /\ d.wallet >= 0 /\ d.token >= 0
        /\ "refundSave" \notin f => d.sub >= 0
        /\ "settled" \in r.flags =>
              /\ "reserveUndo" \notin f => OwnPaid(r, d) = a
              /\ IF r.funding = "subscription" THEN d.wallet = 0 ELSE d.sub = 0
              /\ "rollbackToken" \notin f /\ "settleToken" \notin f
                    => d.token = TokenHeld(p, r, a, o)

Account(p, r, a, o, d, f, q) ==
    /\ AccountBeforeFunding(p, r, a, o, d, f)
    /\ AccountFields(p, r, d, f)
    /\ AccountFunding(p, r, a, d, f)
    /\ AccountToken(p, r, a, o, d, f)
    /\ AccountRefund(p, r, d, f, q)
    /\ AccountLost(p, r, a, o, d, f)

(***************************************************************************)
(* At every moment the rows have given each request what its session says  *)
(* it took, up to the failed writes that the code only logs: the inductive *)
(* invariant of this module.                                               *)
(***************************************************************************)
Accounting == \A s \in Sessions :
    Account(pc[s], ses[s], loc[s].arg, req[s].opts, paid[s], faults[s], record[s])

\* What a request that is over should have cost, when no write failed.
Owed(s) ==
    CASE "settled" \in ses[s].flags -> loc[s].arg
      [] "refunded" \in ses[s].flags -> 0
      [] OTHER -> IF pc[s] = "closed" THEN ses[s].preConsumedQuota ELSE 0

OwedBy(S) == SumFunctionOnSet([s \in Sessions |-> Owed(s)], S)

\* The requests that a subscription has funded.
FundedBy(u) == {s \in Sessions : ses[s].funding = "subscription" /\ subId[s] = u}

(***************************************************************************)
(* When every request is over and no write failed, the rows differ from    *)
(* their initial values by exactly what the requests owe: settled requests *)
(* their actual quota, refunded and rejected ones nothing.  Each row is    *)
(* changed by all requests at once: the wallet and the token in separate   *)
(* statements that add, a subscription by transactions that read it and    *)
(* save a new value.  Two transactions that overlap on a subscription lose *)
(* an update, and only such a subscription (overwritten) is excepted.      *)
(***************************************************************************)
BooksBalance ==
    (nFaults = 0 /\ \A s \in Sessions : pc[s] \in {"idle", "rejected", "closed"}) =>
        /\ InitUserQuota - userQuota = OwedBy({s \in Sessions : ses[s].funding = "wallet"})
        /\ InitTokenQuota - tokenRemain = OwedBy({s \in Sessions : ~IsPlayground(s)})
        /\ \A u \in Subs \ overwritten : subUsed[u] = OwedBy(FundedBy(u))

(***************************************************************************)
(* Once Refund has started its goroutine, the refund ends (unless the      *)
(* process is lost), however often the subscription refund is retried.     *)
(***************************************************************************)
RefundCompletes ==
    \A s \in Sessions : pc[s] \in RefundPcs ~> pc[s] \in {"closed", "lost"}

=============================================================================
