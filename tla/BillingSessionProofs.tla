------------------------ MODULE BillingSessionProofs ------------------------
(***************************************************************************)
(* Proofs about BillingSession, for every number of requests, all amounts  *)
(* and any number of failing writes.                                       *)
(***************************************************************************)
EXTENDS BillingSession, FiniteSetTheorems, TLAPS

-----------------------------------------------------------------------------
(* Type correctness: the pieces that actions are made of *)

\* Goto moves a request to a place of the state machine.
LEMMA GotoType ==
    ASSUME TypeOK, NEW s \in Sessions, NEW p \in Pcs, Goto(s, p)
    PROVE  pc' \in [Sessions -> Pcs]
  BY DEF TypeOK, Goto, Pcs

\* SetLocals stores well-typed locals.
LEMMA SetLocalsType ==
    ASSUME TypeOK, NEW s \in Sessions, NEW l \in LocalsType, SetLocals(s, l)
    PROVE  loc' \in [Sessions -> LocalsType]
  BY DEF TypeOK, SetLocals

\* SetSession stores a well-typed session.
LEMMA SetSessionType ==
    ASSUME TypeOK, NEW s \in Sessions, NEW r \in SessionType, SetSession(s, r)
    PROVE  ses' \in [Sessions -> SessionType]
  BY DEF TypeOK, SetSession

\* AddFlag sets one of the flags of a session.
LEMMA AddFlagType ==
    ASSUME TypeOK, NEW s \in Sessions, NEW flag \in Flags, AddFlag(s, flag)
    PROVE  ses' \in [Sessions -> SessionType]
  <1>1. [ses[s] EXCEPT !.flags = @ \cup {flag}] \in SessionType
    BY DEF TypeOK, SessionType
  <1> QED
    BY <1>1, SetSessionType DEF AddFlag

\* A transaction that is over has read nothing.
LEMMA EndTxnType ==
    ASSUME TypeOK, NEW s \in Sessions, EndTxn(s)
    PROVE  txn' \in [Sessions -> TxnType]
  <1>1. NoTxn \in TxnType
    BY DEF NoTxn, TxnType, SubStatuses
  <1> QED
    BY <1>1 DEF TypeOK, RowsTypeOK, EndTxn

\* What a transaction has read is typed.
LEMMA TxnFields ==
    ASSUME TypeOK, NEW s \in Sessions
    PROVE  /\ txn[s] \in TxnType
           /\ txn[s].used \in [Subs -> Nat] /\ txn[s].status \in [Subs -> SubStatuses]
           /\ subId[s] \in Subs \cup {NoSub}
           /\ \A u \in Subs : txn[s].used[u] \in Nat /\ subUsed[u] \in Nat
  BY DEF TypeOK, RowsTypeOK, TxnType

\* A save keeps the subscriptions typed.
LEMMA SaveType ==
    ASSUME TypeOK, NEW s \in Sessions, NEW u \in Subs \cup {NoSub}, NEW n,
           u \in Subs => n \in Nat, SaveSubscription(s, u, n)
    PROVE  /\ subUsed' \in [Subs -> Nat] /\ subStatus' \in [Subs -> SubStatuses]
           /\ txn' \in [Sessions -> TxnType] /\ overwritten' \in SUBSET (Subs \cup {NoSub})
           /\ UNCHANGED <<userQuota, tokenRemain>>
  <1>1. /\ txn' \in [Sessions -> TxnType] /\ overwritten' \in SUBSET (Subs \cup {NoSub})
        /\ UNCHANGED <<userQuota, tokenRemain>>
    BY EndTxnType DEF SaveSubscription, TypeOK, RowsTypeOK
  <1>2. /\ subUsed' = [subUsed EXCEPT ![u] = n] /\ subUsed \in [Subs -> Nat]
        /\ subStatus' = [subStatus EXCEPT ![u] = txn[s].status[u]]
        /\ subStatus \in [Subs -> SubStatuses]
        /\ u \in Subs => txn[s].status[u] \in SubStatuses
    BY TxnFields DEF SaveSubscription, TypeOK, RowsTypeOK
  <1> QED
    BY <1>1, <1>2

\* The clamp keeps amount_used in Nat.
LEMMA NewUsedType ==
    ASSUME TypeOK, NEW s \in Sessions, NEW n \in Int, subId[s] \in Subs
    PROVE  NewUsed(s, n) \in Nat
  <1>1. txn[s].used[subId[s]] \in Nat
    BY TxnFields
  <1> QED
    BY <1>1 DEF NewUsed

\* A step without a database access leaves the rows alone.
LEMMA NoChargeType ==
    ASSUME TypeOK, NEW s \in Sessions, NoCharge(s)
    PROVE  RowsTypeOK'
  BY EndTxnType DEF TypeOK, RowsTypeOK, NoCharge, NoFault, rows

\* A failed write is only counted.
LEMMA FaultType ==
    ASSUME TypeOK, NEW s \in Sessions, NEW f \in FaultPoints, Fault(s, f)
    PROVE  RowsTypeOK'
  BY EndTxnType DEF TypeOK, RowsTypeOK, Fault, rows

\* Each write keeps the rows typed; the clamp keeps amount_used in Nat.
LEMMA ChargeType ==
    ASSUME TypeOK, NEW s \in Sessions, NEW n \in Int,
           \/ ChargeWallet(s, n) \/ ChargeToken(s, n)
           \/ PostConsumeUserSubscriptionDelta(s, n)
    PROVE  RowsTypeOK'
  <1>1. CASE ChargeWallet(s, n) \/ ChargeToken(s, n)
    BY <1>1, EndTxnType DEF TypeOK, RowsTypeOK, ChargeWallet, ChargeToken, NoFault
  <1>2. CASE PostConsumeUserSubscriptionDelta(s, n)
    <2>1. /\ SaveSubscription(s, subId[s], NewUsed(s, n))
          /\ paid' = [paid EXCEPT ![s].sub = @ + n]
          /\ NoFault
          /\ UNCHANGED <<record, subId>>
      BY <1>2 DEF PostConsumeUserSubscriptionDelta
    <2>2. /\ subUsed' \in [Subs -> Nat] /\ subStatus' \in [Subs -> SubStatuses]
          /\ txn' \in [Sessions -> TxnType] /\ overwritten' \in SUBSET (Subs \cup {NoSub})
          /\ UNCHANGED <<userQuota, tokenRemain>>
      BY <2>1, SaveType, NewUsedType, TxnFields
    <2>3. paid' \in [Sessions -> [wallet : Int, token : Int, sub : Int]]
      BY <2>1 DEF TypeOK, RowsTypeOK
    <2> QED
      BY <2>1, <2>2, <2>3 DEF TypeOK, RowsTypeOK, NoFault
  <1> QED
    BY <1>1, <1>2

\* The fields a step reads have their types.
LEMMA FieldTypes ==
    ASSUME TypeOK, NEW s \in Sessions
    PROVE  /\ pc[s] \in Pcs
           /\ req[s].quota \in Nat /\ req[s].opts \in SUBSET AllOptions
           /\ loc[s] \in LocalsType /\ loc[s].arg \in Nat
           /\ loc[s].tries \in Nat /\ loc[s].calls \in Nat
           /\ ses[s] \in SessionType
           /\ ses[s].preConsumedQuota \in Nat /\ ses[s].tokenConsumed \in Nat
           /\ ses[s].extraReserved \in Nat /\ ses[s].consumed \in Int
           /\ ses[s].preConsumed \in Nat /\ ses[s].flags \in SUBSET Flags
  BY DEF TypeOK, RequestType, LocalsType, SessionType

\* Updates of the locals keep them typed.
LEMMA LocalsUpdates ==
    ASSUME NEW l \in LocalsType
    PROVE  /\ \A n \in Nat : [l EXCEPT !.arg = n] \in LocalsType
           /\ \A n \in Nat : [l EXCEPT !.tries = n] \in LocalsType
           /\ \A n, c \in Nat : [l EXCEPT !.arg = n, !.calls = c] \in LocalsType
           /\ \A a \in Sources \cup {"none"} :
                 /\ [l EXCEPT !.alt = a] \in LocalsType
                 /\ \A n \in Nat : [l EXCEPT !.alt = a, !.arg = n] \in LocalsType
           /\ \A e \in {"none", "insufficient", "other"} : [l EXCEPT !.err = e] \in LocalsType
  BY DEF LocalsType

\* Updates of one field keep a session typed.
LEMMA SessionUpdates ==
    ASSUME NEW r \in SessionType
    PROVE  /\ \A source \in Sources : [r EXCEPT !.funding = source] \in SessionType
           /\ \A n \in Nat : [r EXCEPT !.preConsumedQuota = n] \in SessionType
           /\ \A n \in Nat : [r EXCEPT !.tokenConsumed = n] \in SessionType
           /\ \A n \in Nat : [r EXCEPT !.extraReserved = n] \in SessionType
           /\ \A i \in Int : [r EXCEPT !.consumed = i] \in SessionType
           /\ \A n \in Nat : [r EXCEPT !.preConsumed = n] \in SessionType
           /\ \A fl \in SUBSET Flags : [r EXCEPT !.flags = fl] \in SessionType
  BY DEF SessionType

LEMMA InitialTypes == NewRequest \in RequestType /\ NewLocals \in LocalsType /\ NewSession \in SessionType
  BY DEF NewRequest, NewLocals, NewSession, RequestType, LocalsType, SessionType

LEMMA InitType == Init => TypeOK
  <1>1. NoTxn \in TxnType
    BY DEF NoTxn, TxnType, SubStatuses
  <1> QED
    BY <1>1, ConstantsAssumption, InitialTypes DEF Init, TypeOK, RowsTypeOK, Pcs, SubStatuses

-----------------------------------------------------------------------------
(* Type correctness: the actions of pre-consume *)

LEMMA BeginPreConsumeType ==
    ASSUME TypeOK, NEW s \in Sessions, NEW o, NEW l \in LocalsType,
           NEW source \in Sources, NEW fl \in SUBSET Flags,
           BeginPreConsume(s, o, l, source, fl)
    PROVE  pc' \in [Sessions -> Pcs] /\ loc' \in [Sessions -> LocalsType]
               /\ ses' \in [Sessions -> SessionType]
  <1> DEFINE n == IF l.arg > 0 /\ "playground" \notin o THEN 0 ELSE l.arg
             r0 == [NewSession EXCEPT !.funding = source]
             r1 == [r0 EXCEPT !.flags = fl]
             r2 == [r1 EXCEPT !.tokenConsumed = n]
  <1>1. n \in Nat
    BY DEF LocalsType
  <1>2. r2 \in SessionType
    <2>1. r0 \in SessionType
      BY InitialTypes, SessionUpdates
    <2>2. r1 \in SessionType
      BY <2>1, SessionUpdates
    <2> HIDE DEF n, r1
    <2> QED
      BY <1>1, <2>2, SessionUpdates
  <1>3. r2 = [NewSession EXCEPT !.funding = source, !.flags = fl, !.tokenConsumed = n]
    BY DEF NewSession
  <1> QED
    BY <1>2, <1>3, GotoType, SetLocalsType, SetSessionType
    DEF BeginPreConsume, Pcs, PreConsumePcs

LEMMA TryWalletType ==
    ASSUME TypeOK, NEW s \in Sessions, NEW l \in LocalsType,
           NEW a \in Sources \cup {"none"}, TryWallet(s, l, a)
    PROVE  pc' \in [Sessions -> Pcs] /\ loc' \in [Sessions -> LocalsType]
               /\ ses' \in [Sessions -> SessionType]
  BY GotoType, SetLocalsType, SetSessionType, LocalsUpdates, InitialTypes
  DEF TryWallet, Pcs, PreConsumePcs

LEMMA TrySubscriptionType ==
    ASSUME TypeOK, NEW s \in Sessions, NEW q \in Nat, NEW o, NEW l \in LocalsType,
           NEW a \in Sources \cup {"none"}, TrySubscription(s, q, o, l, a)
    PROVE  pc' \in [Sessions -> Pcs] /\ loc' \in [Sessions -> LocalsType]
               /\ ses' \in [Sessions -> SessionType]
  <1> DEFINE m == IF q <= 0 THEN 1 ELSE q
             nl == [l EXCEPT !.alt = a, !.arg = m]
  <1>1. BeginPreConsume(s, o, nl, "subscription", {})
    BY DEF TrySubscription
  <1>2. m \in Nat
    OBVIOUS
  <1> HIDE DEF m
  <1>3. nl \in LocalsType
    BY <1>2, LocalsUpdates
  <1>4. "subscription" \in Sources /\ {} \in SUBSET Flags
    BY DEF Sources
  <1> HIDE DEF nl
  <1> QED
    BY <1>1, <1>3, <1>4, BeginPreConsumeType

LEMMA RejectType ==
    ASSUME TypeOK, NEW s \in Sessions, Reject(s)
    PROVE  pc' \in [Sessions -> Pcs] /\ loc' \in [Sessions -> LocalsType]
               /\ ses' \in [Sessions -> SessionType]
  BY GotoType DEF TypeOK, Reject, Pcs, EndPcs

LEMMA FallBackType ==
    ASSUME TypeOK, NEW s \in Sessions, FallBack(s)
    PROVE  pc' \in [Sessions -> Pcs] /\ loc' \in [Sessions -> LocalsType]
               /\ ses' \in [Sessions -> SessionType]
  BY FieldTypes, TrySubscriptionType, TryWalletType, RejectType DEF FallBack

LEMMA NewBillingSessionType ==
    ASSUME TypeOK, NEW s \in Sessions, NewBillingSession(s)
    PROVE  TypeOK'
  <1>1. RowsTypeOK'
    BY NoChargeType DEF NewBillingSession
  <1>2. PICK pref \in Prefs, o \in Options, q \in Quotas :
          /\ req' = [req EXCEPT ![s] = [quota |-> q, opts |-> o, tokenQuota |-> tokenRemain]]
          /\ \/ TrySubscription(s, q, o, NewLocals, "none")
             \/ TryWallet(s, NewLocals, "none")
             \/ TryWallet(s, NewLocals, "subscription")
             \/ TrySubscription(s, q, o, NewLocals, "wallet")
             \/ Reject(s)
    BY DEF NewBillingSession
  <1>3. q \in Nat /\ o \in SUBSET AllOptions /\ tokenRemain \in Int
    BY ConstantsAssumption DEF TypeOK, RowsTypeOK
  <1>4. req' \in [Sessions -> RequestType]
    BY <1>2, <1>3 DEF TypeOK, RequestType
  <1> QED
    BY <1>1, <1>2, <1>3, <1>4, InitialTypes, TrySubscriptionType, TryWalletType, RejectType
    DEF TypeOK, Sources

LEMMA CheckWalletType ==
    ASSUME TypeOK, NEW s \in Sessions, CheckWallet(s)
    PROVE  TypeOK'
  <1>1. RowsTypeOK' /\ req' \in [Sessions -> RequestType]
    BY NoChargeType DEF CheckWallet, TypeOK
  <1> DEFINE l0 == [loc[s] EXCEPT !.arg = 0]
             l1 == [loc[s] EXCEPT !.arg = req[s].quota]
  <1>2. \/ FallBack(s)
        \/ BeginPreConsume(s, req[s].opts, l0, "wallet", {"trusted"})
        \/ BeginPreConsume(s, req[s].opts, l1, "wallet", {})
    BY DEF CheckWallet
  <1>3. l0 \in LocalsType /\ l1 \in LocalsType
    BY FieldTypes, LocalsUpdates
  <1>4. "wallet" \in Sources /\ {} \in SUBSET Flags /\ {"trusted"} \in SUBSET Flags
    BY DEF Flags, Sources
  <1> HIDE DEF l0, l1
  <1> QED
    BY <1>1, <1>2, <1>3, <1>4, FallBackType, BeginPreConsumeType DEF TypeOK

LEMMA CheckTokenType ==
    ASSUME TypeOK, NEW s \in Sessions, CheckToken(s) \/ QueryFails(s)
    PROVE  TypeOK'
  <1>1. RowsTypeOK'
    BY NoChargeType DEF CheckToken, QueryFails
  <1>2. pc' \in [Sessions -> Pcs]
    BY GotoType DEF CheckToken, QueryFails, Pcs, PreConsumePcs, EndPcs
  <1> QED
    BY <1>1, <1>2 DEF TypeOK, CheckToken, QueryFails, KeepSession

LEMMA TakeTokenType ==
    ASSUME TypeOK, NEW s \in Sessions, TakeToken(s)
    PROVE  TypeOK'
  <1> DEFINE r == [ses[s] EXCEPT !.tokenConsumed = loc[s].arg]
  <1>1. loc[s].arg \in Int /\ r \in SessionType /\ "other" \in FaultPoints
    BY FieldTypes, SessionUpdates DEF FaultPoints
  <1>2. RowsTypeOK' /\ pc' \in [Sessions -> Pcs]
    BY <1>1, ChargeType, FaultType, GotoType DEF TakeToken, Pcs, PreConsumePcs, EndPcs
  <1>3. \/ SetSession(s, r) /\ UNCHANGED <<req, loc>>
        \/ UNCHANGED <<req, loc, ses>>
    BY DEF TakeToken
  <1> HIDE DEF r
  <1> QED
    BY <1>1, <1>2, <1>3, SetSessionType DEF TypeOK

LEMMA FundingErrorType ==
    ASSUME TypeOK, NEW s \in Sessions, NEW e \in {"none", "insufficient", "other"},
           FundingError(s, e)
    PROVE  pc' \in [Sessions -> Pcs] /\ loc' \in [Sessions -> LocalsType]
               /\ ses' \in [Sessions -> SessionType]
  <1> DEFINE l == [loc[s] EXCEPT !.err = e]
  <1>1. l \in LocalsType
    BY FieldTypes, LocalsUpdates
  <1>2. SetLocals(s, l) /\ Goto(s, "rollback") /\ UNCHANGED ses
    BY DEF FundingError
  <1> HIDE DEF l
  <1> QED
    BY <1>1, <1>2, SetLocalsType, GotoType DEF TypeOK, Pcs, PreConsumePcs

LEMMA FundFromWalletType ==
    ASSUME TypeOK, NEW s \in Sessions, FundFromWallet(s)
    PROVE  TypeOK'
  <1> DEFINE r == [ses[s] EXCEPT !.consumed = loc[s].arg, !.preConsumedQuota = loc[s].arg]
  <1>1. loc[s].arg \in Nat /\ loc[s].arg \in Int /\ "other" \in FaultPoints
    BY FieldTypes DEF FaultPoints
  <1>2. r \in SessionType
    <2>1. ses[s] \in SessionType
      BY FieldTypes
    <2> QED
      BY <1>1, <2>1 DEF SessionType
  <1>3. RowsTypeOK'
    BY <1>1, ChargeType, FaultType, NoChargeType DEF FundFromWallet
  <1>4. /\ UNCHANGED req
        /\ \/ SetSession(s, r) /\ Goto(s, "live") /\ UNCHANGED loc
           \/ FundingError(s, "other")
    BY DEF FundFromWallet
  <1> HIDE DEF r
  <1> QED
    BY <1>2, <1>3, <1>4, SetSessionType, GotoType, FundingErrorType DEF TypeOK, Pcs

LEMMA FundFromSubscriptionType ==
    ASSUME TypeOK, NEW s \in Sessions, FundFromSubscription(s)
    PROVE  TypeOK'
  <1> DEFINE r == [ses[s] EXCEPT !.preConsumed = loc[s].arg, !.preConsumedQuota = loc[s].arg]
  <1>1. loc[s].arg \in Nat /\ "other" \in FaultPoints
    BY FieldTypes DEF FaultPoints
  <1>2. r \in SessionType
    BY FieldTypes DEF SessionType
  <1>3. RowsTypeOK'
    <2>1. CASE NoCharge(s)
      BY <2>1, NoChargeType
    <2>2. CASE Fault(s, "other")
      BY <1>1, <2>2, FaultType
    <2>3. CASE TakeSubscription(s)
      <3>1. PICK u \in Subs :
              /\ SaveSubscription(s, u, txn[s].used[u] + loc[s].arg)
              /\ record' = [record EXCEPT ![s] = "consumed"]
              /\ subId' = [subId EXCEPT ![s] = u]
              /\ paid' = [paid EXCEPT ![s].sub = @ + loc[s].arg]
              /\ NoFault
        BY <2>3 DEF TakeSubscription, Fitting
      <3>2. txn[s].used[u] + loc[s].arg \in Nat
        BY <1>1, TxnFields
      <3>3. /\ subUsed' \in [Subs -> Nat] /\ subStatus' \in [Subs -> SubStatuses]
            /\ txn' \in [Sessions -> TxnType] /\ overwritten' \in SUBSET (Subs \cup {NoSub})
            /\ UNCHANGED <<userQuota, tokenRemain>>
        BY <3>1, <3>2, SaveType
      <3>4. /\ paid' \in [Sessions -> [wallet : Int, token : Int, sub : Int]]
            /\ record' \in [Sessions -> {"none", "consumed", "refunded"}]
            /\ subId' \in [Sessions -> Subs \cup {NoSub}]
        BY <1>1, <3>1 DEF TypeOK, RowsTypeOK
      <3> QED
        BY <3>1, <3>3, <3>4 DEF TypeOK, RowsTypeOK, NoFault
    <2> QED
      BY <2>1, <2>2, <2>3 DEF FundFromSubscription
  <1>4. /\ UNCHANGED req
        /\ \/ SetSession(s, r) /\ Goto(s, "live") /\ UNCHANGED loc
           \/ FundingError(s, "other")
           \/ FundingError(s, "insufficient")
    BY DEF FundFromSubscription
  <1> HIDE DEF r
  <1> QED
    BY <1>2, <1>3, <1>4, SetSessionType, GotoType, FundingErrorType DEF TypeOK, Pcs

LEMMA RollbackTokenType ==
    ASSUME TypeOK, NEW s \in Sessions, RollbackToken(s)
    PROVE  TypeOK'
  <1>1. -ses[s].tokenConsumed \in Int /\ "rollbackToken" \in FaultPoints
    BY FieldTypes DEF FaultPoints
  <1>2. RowsTypeOK'
    BY <1>1, ChargeType, FaultType, NoChargeType DEF RollbackToken
  <1>3. UNCHANGED req /\ (FallBack(s) \/ Reject(s))
    BY DEF RollbackToken, AfterFundingError
  <1> QED
    BY <1>2, <1>3, FallBackType, RejectType DEF TypeOK

-----------------------------------------------------------------------------
(* Type correctness: the actions of Reserve, Settle and Refund *)

LEMMA ReserveType ==
    ASSUME TypeOK, NEW s \in Sessions, Reserve(s)
    PROVE  TypeOK'
  <1>1. RowsTypeOK' /\ pc' \in [Sessions -> Pcs]
    BY NoChargeType, GotoType DEF Reserve, Pcs, ReservePcs
  <1>2. PICK target \in Quotas :
          /\ ~ReserveIsNoOp(s, target)
          /\ SetLocals(s, [loc[s] EXCEPT !.arg = target - ses[s].preConsumedQuota,
                                         !.calls = @ + 1])
    BY DEF Reserve
  <1> DEFINE l == [loc[s] EXCEPT !.arg = target - ses[s].preConsumedQuota, !.calls = @ + 1]
  <1>3. target \in Nat /\ target - ses[s].preConsumedQuota \in Nat
    BY <1>2, ConstantsAssumption, FieldTypes DEF ReserveIsNoOp
  <1>4. l \in LocalsType
    <2>1. loc[s] \in LocalsType /\ loc[s].calls + 1 \in Nat
      BY FieldTypes
    <2> QED
      BY <1>3, <2>1 DEF LocalsType
  <1>5. SetLocals(s, l) /\ UNCHANGED <<req, ses>>
    BY <1>2 DEF Reserve
  <1> HIDE DEF l
  <1> QED
    BY <1>1, <1>4, <1>5, SetLocalsType DEF TypeOK

LEMMA CommitReserveType ==
    ASSUME TypeOK, NEW s \in Sessions, NEW r \in SessionType, CommitReserve(s, r)
    PROVE  pc' \in [Sessions -> Pcs] /\ ses' \in [Sessions -> SessionType]
  <1> DEFINE n == loc[s].arg
             r1 == [r EXCEPT !.preConsumedQuota = r.preConsumedQuota + n]
             r2 == [r1 EXCEPT !.tokenConsumed = r1.tokenConsumed + n]
             r3 == [r2 EXCEPT !.extraReserved = r2.extraReserved + n]
  <1>1. n \in Nat
    BY FieldTypes
  <1>2. r1 \in SessionType
    BY <1>1 DEF SessionType
  <1>3. r1.tokenConsumed \in Nat
    BY <1>2 DEF SessionType
  <1>4. r2 \in SessionType
    <2>1. r1.tokenConsumed + n \in Nat
      BY <1>1, <1>3
    <2> HIDE DEF r1, n
    <2> QED
      BY <1>2, <2>1 DEF SessionType
  <1>5. r2.extraReserved \in Nat
    BY <1>4 DEF SessionType
  <1>6. r3 \in SessionType
    <2>1. r2.extraReserved + n \in Nat
      BY <1>1, <1>5
    <2> HIDE DEF r2, n
    <2> QED
      BY <1>4, <2>1 DEF SessionType
  <1>7. r3 = [r EXCEPT !.preConsumedQuota = @ + n, !.tokenConsumed = @ + n,
                       !.extraReserved = @ + n]
    BY DEF SessionType
  <1>8. SetSession(s, r3)
    BY <1>7 DEF CommitReserve
  <1> HIDE DEF r3
  <1> QED
    BY <1>6, <1>8, SetSessionType, GotoType DEF CommitReserve, Pcs

LEMMA ReserveFundingType ==
    ASSUME TypeOK, NEW s \in Sessions, ReserveFunding(s)
    PROVE  TypeOK'
  <1> DEFINE r == IF ses[s].funding = "wallet"
                  THEN [ses[s] EXCEPT !.consumed = ses[s].consumed + loc[s].arg] ELSE ses[s]
  <1>1. loc[s].arg \in Int /\ "other" \in FaultPoints
    BY FieldTypes DEF FaultPoints
  <1>2. r \in SessionType
    BY FieldTypes, SessionUpdates
  <1>3. RowsTypeOK'
    BY <1>1, ChargeType, FaultType, NoChargeType DEF ReserveFunding, DeltaRefused
  <1>4. /\ UNCHANGED <<req, loc>>
        /\ \/ CommitReserve(s, r)
           \/ Goto(s, "reserveToken") /\ SetSession(s, r)
           \/ Goto(s, "live") /\ UNCHANGED ses
    BY DEF ReserveFunding
  <1> HIDE DEF r
  <1> QED
    BY <1>2, <1>3, <1>4, CommitReserveType, SetSessionType, GotoType
    DEF TypeOK, Pcs, ReservePcs

LEMMA ReserveTokenType ==
    ASSUME TypeOK, NEW s \in Sessions, ReserveCheckToken(s) \/ ReserveTakeToken(s)
    PROVE  TypeOK'
  <1>1. loc[s].arg \in Int /\ "other" \in FaultPoints
    BY FieldTypes DEF FaultPoints
  <1>2. RowsTypeOK'
    BY <1>1, ChargeType, FaultType, NoChargeType DEF ReserveCheckToken, ReserveTakeToken
  <1>3. /\ UNCHANGED <<req, loc>>
        /\ \/ CommitReserve(s, ses[s])
           \/ Goto(s, "reserveTokenDec") /\ UNCHANGED ses
           \/ Goto(s, "reserveUndo") /\ UNCHANGED ses
    BY DEF ReserveCheckToken, ReserveTakeToken, KeepSession
  <1> QED
    BY <1>2, <1>3, FieldTypes, CommitReserveType, GotoType DEF TypeOK, Pcs, ReservePcs

LEMMA RollbackFundingReserveType ==
    ASSUME TypeOK, NEW s \in Sessions, RollbackFundingReserve(s)
    PROVE  TypeOK'
  <1> DEFINE r == [ses[s] EXCEPT !.consumed = ses[s].consumed - loc[s].arg]
  <1>1. -loc[s].arg \in Int /\ "reserveUndo" \in FaultPoints
    BY FieldTypes DEF FaultPoints
  <1>2. r \in SessionType
    BY FieldTypes, SessionUpdates
  <1>3. RowsTypeOK'
    BY <1>1, ChargeType, FaultType DEF RollbackFundingReserve
  <1>4. /\ UNCHANGED <<req, loc>>
        /\ Goto(s, "live")
        /\ SetSession(s, r) \/ UNCHANGED ses
    BY DEF RollbackFundingReserve
  <1> HIDE DEF r
  <1> QED
    BY <1>2, <1>3, <1>4, SetSessionType, GotoType DEF TypeOK, Pcs

LEMMA SettleType ==
    ASSUME TypeOK, NEW s \in Sessions, Settle(s)
    PROVE  TypeOK'
  <1>1. RowsTypeOK'
    BY NoChargeType DEF Settle
  <1>2. PICK actual \in Quotas :
          /\ SetLocals(s, [loc[s] EXCEPT !.arg = actual, !.calls = @ + 1])
          /\ \/ Goto(s, "live") /\ AddFlag(s, "settled")
             \/ (Goto(s, "settleToken") \/ Goto(s, "settle")) /\ UNCHANGED ses
    BY DEF Settle
  <1> DEFINE l == [loc[s] EXCEPT !.arg = actual, !.calls = @ + 1]
  <1>3. l \in LocalsType
    <2>1. loc[s] \in LocalsType /\ loc[s].calls + 1 \in Nat /\ actual \in Nat
      BY FieldTypes, ConstantsAssumption
    <2> QED
      BY <2>1 DEF LocalsType
  <1>4. SetLocals(s, l) /\ UNCHANGED req
    BY <1>2 DEF Settle
  <1>5. "settled" \in Flags
    BY DEF Flags
  <1> HIDE DEF l
  <1> QED
    BY <1>1, <1>2, <1>3, <1>4, <1>5, SetLocalsType, AddFlagType, GotoType
    DEF TypeOK, Pcs, SettlePcs

LEMMA SettleStepType ==
    ASSUME TypeOK, NEW s \in Sessions, SettleFunding(s) \/ SettleToken(s)
    PROVE  TypeOK'
  <1>1. SettleDelta(s) \in Int /\ {"settleFunding", "settleToken"} \subseteq FaultPoints
    BY FieldTypes DEF SettleDelta, FaultPoints
  <1>2. RowsTypeOK'
    <2>1. CASE SettleFunding(s)
      BY <1>1, <2>1, ChargeType, FaultType, NoChargeType DEF SettleFunding, DeltaRefused
    <2>2. CASE SettleToken(s)
      BY <1>1, <2>2, ChargeType, FaultType, NoChargeType DEF SettleToken
    <2> QED
      BY <2>1, <2>2
  <1>3. /\ UNCHANGED <<req, loc>>
        /\ Goto(s, "live") \/ Goto(s, "settleToken")
        /\ AddFlag(s, "fundingSettled") \/ AddFlag(s, "settled") \/ UNCHANGED ses
    BY DEF SettleFunding, SettleToken
  <1>4. {"fundingSettled", "settled"} \subseteq Flags
    BY DEF Flags
  <1> QED
    BY <1>2, <1>3, <1>4, AddFlagType, GotoType DEF TypeOK, Pcs, SettlePcs

LEMMA RefundType ==
    ASSUME TypeOK, NEW s \in Sessions, Refund(s)
    PROVE  TypeOK'
  <1>1. RowsTypeOK'
    BY NoChargeType DEF Refund
  <1>2. /\ UNCHANGED <<req, loc>>
        /\ Goto(s, "closed") \/ Goto(s, "refund")
        /\ AddFlag(s, "refunded") \/ UNCHANGED ses
    BY DEF Refund
  <1>3. "refunded" \in Flags
    BY DEF Flags
  <1> QED
    BY <1>1, <1>2, <1>3, AddFlagType, GotoType DEF TypeOK, Pcs, RefundPcs, EndPcs

LEMMA RetryRefundType ==
    ASSUME TypeOK, NEW s \in Sessions, RetryRefund(s)
    PROVE  /\ pc' \in [Sessions -> Pcs] /\ loc' \in [Sessions -> LocalsType]
           /\ UNCHANGED <<req, ses>>
  <1> DEFINE l == [loc[s] EXCEPT !.tries = @ + 1]
  <1>1. l \in LocalsType
    <2>1. loc[s] \in LocalsType /\ loc[s].tries + 1 \in Nat
      BY FieldTypes
    <2> QED
      BY <2>1 DEF LocalsType
  <1>2. /\ UNCHANGED <<req, ses>>
        /\ \/ Goto(s, "refund") /\ SetLocals(s, l)
           \/ Goto(s, "refundExtra") /\ UNCHANGED loc
    BY DEF RetryRefund
  <1> HIDE DEF l
  <1> QED
    BY <1>1, <1>2, SetLocalsType, GotoType DEF TypeOK, Pcs, RefundPcs

LEMMA RefundSubscriptionType ==
    ASSUME TypeOK, NEW s \in Sessions, RefundSubscription(s)
    PROVE  TypeOK'
  <1>1. -ses[s].preConsumed \in Int /\ "refundFunding" \in FaultPoints
    BY FieldTypes DEF FaultPoints
  <1>2. RowsTypeOK'
    BY <1>1, ChargeType, FaultType, NoChargeType DEF RefundSubscription
  <1>3. \/ RetryRefund(s)
        \/ (Goto(s, "refundSave") \/ Goto(s, "refundExtra")) /\ KeepSession
    BY DEF RefundSubscription
  <1> QED
    BY <1>2, <1>3, RetryRefundType, GotoType DEF TypeOK, KeepSession, Pcs, RefundPcs

LEMMA SaveRefundRecordType ==
    ASSUME TypeOK, NEW s \in Sessions, SaveRefundRecord(s)
    PROVE  TypeOK'
  <1>1. {"refundSave", "refundAck"} \subseteq FaultPoints
    BY DEF FaultPoints
  <1>2. RowsTypeOK'
    <2>1. CASE Fault(s, "refundSave")
      BY <1>1, <2>1, FaultType
    <2>2. CASE /\ record' = [record EXCEPT ![s] = "refunded"]
               /\ UNCHANGED <<userQuota, tokenRemain, subUsed, subStatus, paid>>
               /\ UNCHANGED <<txn, subId, overwritten>>
               /\ \/ NoFault
                  \/ /\ nFaults' = nFaults + 1
                     /\ faults' = [faults EXCEPT ![s] = @ \cup {"refundAck"}]
      BY <1>1, <2>2 DEF TypeOK, RowsTypeOK, NoFault
    <2> QED
      BY <2>1, <2>2 DEF SaveRefundRecord
  <1>3. RetryRefund(s) \/ (Goto(s, "refundExtra") /\ KeepSession)
    BY DEF SaveRefundRecord
  <1> QED
    BY <1>2, <1>3, RetryRefundType, GotoType DEF TypeOK, KeepSession, Pcs, RefundPcs

LEMMA RefundRestType ==
    ASSUME TypeOK, NEW s \in Sessions,
           RefundWallet(s) \/ RefundExtraReserved(s) \/ RefundToken(s)
    PROVE  TypeOK'
  <1>1. /\ -ses[s].consumed \in Int /\ -ses[s].extraReserved \in Int
        /\ -ses[s].tokenConsumed \in Int
        /\ {"refundFunding", "refundExtra", "refundToken"} \subseteq FaultPoints
    BY FieldTypes DEF FaultPoints
  <1>2. RowsTypeOK'
    <2>1. CASE RefundWallet(s)
      BY <1>1, <2>1, ChargeType, FaultType, NoChargeType DEF RefundWallet
    <2>2. CASE RefundExtraReserved(s)
      BY <1>1, <2>2, ChargeType, FaultType, NoChargeType DEF RefundExtraReserved
    <2>3. CASE RefundToken(s)
      BY <1>1, <2>3, ChargeType, FaultType, NoChargeType DEF RefundToken
    <2> QED
      BY <2>1, <2>2, <2>3
  <1>3. KeepSession /\ (Goto(s, "refundToken") \/ Goto(s, "closed"))
    BY DEF RefundWallet, RefundExtraReserved, RefundToken
  <1> QED
    BY <1>2, <1>3, GotoType DEF TypeOK, KeepSession, Pcs, RefundPcs, EndPcs

LEMMA EndType ==
    ASSUME TypeOK, NEW s \in Sessions, HandlerReturns(s) \/ Lost(s)
    PROVE  TypeOK'
  <1>1. RowsTypeOK'
    BY NoChargeType DEF HandlerReturns, Lost
  <1> QED
    BY <1>1, GotoType DEF HandlerReturns, Lost, KeepSession, TypeOK, Pcs, EndPcs

\* Every step of the system keeps the types.
LEMMA NextType ==
    ASSUME TypeOK, [Next]_vars
    PROVE  TypeOK'
  <1>1. CASE UNCHANGED vars
    BY <1>1 DEF vars, TypeOK, RowsTypeOK
  <1>2. ASSUME NEW u \in Subs, ExpireSubscription(u)
        PROVE  TypeOK'
    BY <1>2 DEF ExpireSubscription, TypeOK, RowsTypeOK, SubStatuses
  <1>9. ASSUME NEW s \in Sessions, ReadSubscription(s)
        PROVE  TypeOK'
    <2>1. [open |-> "yes", used |-> subUsed, status |-> subStatus] \in TxnType
      BY DEF TypeOK, RowsTypeOK, TxnType
    <2> QED
      BY <1>9, <2>1 DEF ReadSubscription, TypeOK, RowsTypeOK, rows
  <1>3. ASSUME NEW s \in Sessions, Call(s)
        PROVE  TypeOK'
    BY <1>3, NewBillingSessionType, ReserveType, SettleType, RefundType, EndType DEF Call
  <1>4. ASSUME NEW s \in Sessions, PreConsumeStep(s)
        PROVE  TypeOK'
    BY <1>4, CheckWalletType, CheckTokenType, TakeTokenType, FundFromWalletType,
       FundFromSubscriptionType, RollbackTokenType
    DEF PreConsumeStep
  <1>5. ASSUME NEW s \in Sessions, ReserveStep(s)
        PROVE  TypeOK'
    BY <1>5, ReserveFundingType, ReserveTokenType, RollbackFundingReserveType DEF ReserveStep
  <1>6. ASSUME NEW s \in Sessions, SettleStep(s)
        PROVE  TypeOK'
    BY <1>6, SettleStepType DEF SettleStep
  <1>7. ASSUME NEW s \in Sessions, RefundStep(s)
        PROVE  TypeOK'
    BY <1>7, RefundSubscriptionType, SaveRefundRecordType, RefundRestType DEF RefundStep
  <1>8. ASSUME NEW s \in Sessions, Lost(s)
        PROVE  TypeOK'
    BY <1>8, EndType
  <1> QED
    BY <1>1, <1>2, <1>3, <1>4, <1>5, <1>6, <1>7, <1>8, <1>9 DEF Next

(***************************************************************************)
(* The billing session keeps its types whatever fails and whatever the     *)
(* order of the requests; amount_used never becomes negative.              *)
(***************************************************************************)
THEOREM TypeCorrect == Spec => []TypeOK
  BY InitType, NextType, PTL DEF Spec

-----------------------------------------------------------------------------
(* The accounting invariant is inductive.  A step of one request leaves the *)
(* account of the others alone (Frame); its own account is recomputed from  *)
(* the values the step assigns.                                             *)

AccountOf(s) ==
    Account(pc[s], ses[s], loc[s].arg, req[s].opts, paid[s], faults[s], record[s])

\* The step concerns no request but s.
Local(s) ==
    \A t \in Sessions \ {s} :
        /\ pc'[t] = pc[t] /\ ses'[t] = ses[t] /\ loc'[t] = loc[t] /\ req'[t] = req[t]
        /\ paid'[t] = paid[t] /\ faults'[t] = faults[t] /\ record'[t] = record[t]

LEMMA Frame ==
    ASSUME Accounting, NEW s \in Sessions, Local(s), AccountOf(s)'
    PROVE  Accounting'
  BY DEF Accounting, AccountOf, Local

\* The values of paid, faults and record at s after each kind of write.
LEMMA NoChargeValues ==
    ASSUME TypeOK, NEW s \in Sessions, NoCharge(s)
    PROVE  UNCHANGED <<paid, faults, record>>
  BY DEF NoCharge, NoFault, rows

LEMMA FaultValues ==
    ASSUME TypeOK, NEW s \in Sessions, NEW f, Fault(s, f)
    PROVE  /\ UNCHANGED <<paid, record>>
           /\ faults'[s] = faults[s] \cup {f}
           /\ \A t \in Sessions \ {s} : faults'[t] = faults[t]
  BY DEF Fault, TypeOK, RowsTypeOK, rows

LEMMA ChargeWalletValues ==
    ASSUME TypeOK, NEW s \in Sessions, NEW n \in Int, ChargeWallet(s, n)
    PROVE  /\ UNCHANGED <<faults, record>>
           /\ paid'[s].wallet = paid[s].wallet + n
           /\ paid'[s].token = paid[s].token /\ paid'[s].sub = paid[s].sub
           /\ \A t \in Sessions \ {s} : paid'[t] = paid[t]
  BY DEF ChargeWallet, NoFault, TypeOK, RowsTypeOK

LEMMA ChargeTokenValues ==
    ASSUME TypeOK, NEW s \in Sessions, NEW n \in Int, ChargeToken(s, n)
    PROVE  /\ UNCHANGED <<faults, record>>
           /\ paid'[s].token = paid[s].token + n
           /\ paid'[s].wallet = paid[s].wallet /\ paid'[s].sub = paid[s].sub
           /\ \A t \in Sessions \ {s} : paid'[t] = paid[t]
  BY DEF ChargeToken, NoFault, TypeOK, RowsTypeOK

LEMMA SubscriptionDeltaValues ==
    ASSUME TypeOK, NEW s \in Sessions, NEW n \in Int, PostConsumeUserSubscriptionDelta(s, n)
    PROVE  /\ UNCHANGED <<faults, record>>
           /\ paid'[s].sub = paid[s].sub + n
           /\ paid'[s].wallet = paid[s].wallet /\ paid'[s].token = paid[s].token
           /\ \A t \in Sessions \ {s} : paid'[t] = paid[t]
  BY DEF PostConsumeUserSubscriptionDelta, NoFault, TypeOK, RowsTypeOK

LEMMA PaidTypes ==
    ASSUME TypeOK, NEW s \in Sessions
    PROVE  paid[s].wallet \in Int /\ paid[s].token \in Int /\ paid[s].sub \in Int
  BY DEF TypeOK, RowsTypeOK

LEMMA GotoValues ==
    ASSUME TypeOK, NEW s \in Sessions, NEW p, Goto(s, p)
    PROVE  pc'[s] = p /\ \A t \in Sessions \ {s} : pc'[t] = pc[t]
  BY DEF TypeOK, Goto

LEMMA SetLocalsValues ==
    ASSUME TypeOK, NEW s \in Sessions, NEW l, SetLocals(s, l)
    PROVE  loc'[s] = l /\ \A t \in Sessions \ {s} : loc'[t] = loc[t]
  BY DEF TypeOK, SetLocals

LEMMA SetSessionValues ==
    ASSUME TypeOK, NEW s \in Sessions, NEW r, SetSession(s, r)
    PROVE  ses'[s] = r /\ \A t \in Sessions \ {s} : ses'[t] = ses[t]
  BY DEF TypeOK, SetSession

LEMMA AddFlagValues ==
    ASSUME TypeOK, NEW s \in Sessions, NEW flag, AddFlag(s, flag)
    PROVE  /\ ses'[s].flags = ses[s].flags \cup {flag}
           /\ ses'[s].funding = ses[s].funding
           /\ ses'[s].preConsumedQuota = ses[s].preConsumedQuota
           /\ ses'[s].tokenConsumed = ses[s].tokenConsumed
           /\ ses'[s].extraReserved = ses[s].extraReserved
           /\ ses'[s].consumed = ses[s].consumed
           /\ ses'[s].preConsumed = ses[s].preConsumed
           /\ \A t \in Sessions \ {s} : ses'[t] = ses[t]
  BY FieldTypes, SetSessionValues DEF AddFlag, SessionType

\* The amounts in the account of s are integers.
Amounts(s) ==
    /\ loc[s].arg \in Nat
    /\ ses[s].preConsumedQuota \in Nat /\ ses[s].tokenConsumed \in Nat
    /\ ses[s].extraReserved \in Nat /\ ses[s].consumed \in Int /\ ses[s].preConsumed \in Nat
    /\ paid[s].wallet \in Int /\ paid[s].token \in Int /\ paid[s].sub \in Int

LEMMA AccountNow ==
    ASSUME TypeOK, Accounting, NEW s \in Sessions
    PROVE  AccountOf(s) /\ Amounts(s)
  BY FieldTypes, PaidTypes DEF Accounting, AccountOf, Amounts

\* The account is visible in the rest of this section.
USE DEF AccountOf, Account, AccountBeforeFunding, AccountFields, AccountFunding,
        AccountToken, AccountRefund, AccountLost, FundingHeld, OwnPaid, TokenTaken,
        TokenHeld, RestOfRefund, Amounts, PreConsumePcs, ReservePcs, SettlePcs, RefundPcs, LivePcs, Sources,
        SubscriptionRefundFaults

-----------------------------------------------------------------------------
(* Accounting: pre-consume *)

\* Nothing is taken, except what giving the token back failed to return.
Unfunded(s) ==
    /\ paid[s].wallet = 0 /\ paid[s].sub = 0 /\ paid[s].token >= 0
    /\ "rollbackToken" \notin faults[s] => paid[s].token = 0
    /\ "settleToken" \notin faults[s]

\* The step writes no other request's history, and no request but s.
RowsLocal(s) ==
    \A t \in Sessions \ {s} :
        /\ paid'[t] = paid[t] /\ faults'[t] = faults[t] /\ record'[t] = record[t]
        /\ req'[t] = req[t]

LEMMA BeginPreConsumeAccount ==
    ASSUME TypeOK, Accounting, NEW s \in Sessions, NEW l \in LocalsType,
           NEW source \in Sources, NEW fl \in SUBSET {"trusted"},
           Unfunded(s)', RowsLocal(s), BeginPreConsume(s, req'[s].opts, l, source, fl)
    PROVE  Accounting'
  <1>0. AccountOf(s) /\ Amounts(s)
    BY AccountNow
  <1> DEFINE n == IF l.arg > 0 /\ "playground" \notin req'[s].opts THEN 0 ELSE l.arg
             r == [NewSession EXCEPT !.funding = source, !.flags = fl, !.tokenConsumed = n]
  <1>1. Goto(s, IF n = l.arg THEN "fund" ELSE "token") /\ SetLocals(s, l) /\ SetSession(s, r)
    BY DEF BeginPreConsume, LocalsType
  <1>2. /\ r.funding = source /\ r.flags = fl /\ r.tokenConsumed = n
        /\ r.extraReserved = 0 /\ r.consumed = 0 /\ r.preConsumed = 0
    BY DEF NewSession
  <1>3. l.arg \in Nat
    BY DEF LocalsType
  <1>4. \/ n = l.arg /\ (l.arg > 0 => "playground" \in req'[s].opts)
        \/ n = 0 /\ l.arg > 0 /\ "playground" \notin req'[s].opts
    BY <1>3
  <1> HIDE DEF n, r
  <1>5. Local(s)
    BY <1>1, GotoValues, SetLocalsValues, SetSessionValues DEF Local, RowsLocal
  <1>6. /\ pc'[s] = (IF n = l.arg THEN "fund" ELSE "token")
        /\ loc'[s].arg = l.arg
        /\ ses'[s].funding = source /\ ses'[s].flags = fl /\ ses'[s].tokenConsumed = n
        /\ ses'[s].extraReserved = 0 /\ ses'[s].consumed = 0 /\ ses'[s].preConsumed = 0
    BY <1>1, <1>2, GotoValues, SetLocalsValues, SetSessionValues
  <1>7. AccountOf(s)'
    <2>1. CASE n = l.arg
      <3>1. TokenTaken(ses'[s], req'[s].opts) = 0
        BY <1>3, <1>4, <1>6, <2>1
      <3> QED
        BY <1>6, <2>1, <3>1 DEF Unfunded
    <2>2. CASE n # l.arg
      BY <1>4, <1>6, <2>2 DEF Unfunded
    <2> QED
      BY <2>1, <2>2
  <1> QED
    BY <1>5, <1>7, Frame

LEMMA TryWalletAccount ==
    ASSUME TypeOK, Accounting, NEW s \in Sessions, NEW l \in LocalsType, NEW a,
           Unfunded(s)', RowsLocal(s), TryWallet(s, l, a)
    PROVE  Accounting'
  <1>0. AccountOf(s) /\ Amounts(s)
    BY AccountNow
  <1>1. Local(s)
    BY GotoValues, SetLocalsValues, SetSessionValues DEF TryWallet, Local, RowsLocal
  <1>2. pc'[s] = "wallet" /\ ses'[s] = NewSession
    BY GotoValues, SetSessionValues DEF TryWallet
  <1>3. AccountOf(s)'
    BY <1>2 DEF Unfunded, NewSession
  <1> QED
    BY <1>1, <1>3, Frame

LEMMA TrySubscriptionAccount ==
    ASSUME TypeOK, Accounting, NEW s \in Sessions, NEW q \in Nat, NEW l \in LocalsType,
           NEW a \in Sources \cup {"none"},
           Unfunded(s)', RowsLocal(s), TrySubscription(s, q, req'[s].opts, l, a)
    PROVE  Accounting'
  <1>0. AccountOf(s) /\ Amounts(s)
    BY AccountNow
  <1> DEFINE m == IF q <= 0 THEN 1 ELSE q
             nl == [l EXCEPT !.alt = a, !.arg = m]
  <1>1. BeginPreConsume(s, req'[s].opts, nl, "subscription", {})
    BY DEF TrySubscription
  <1>2. m \in Nat
    OBVIOUS
  <1> HIDE DEF m
  <1>3. nl \in LocalsType
    BY <1>2, LocalsUpdates
  <1>4. "subscription" \in Sources /\ {} \in SUBSET {"trusted"}
    OBVIOUS
  <1> HIDE DEF nl
  <1> QED
    BY <1>1, <1>3, <1>4, BeginPreConsumeAccount

LEMMA RejectAccount ==
    ASSUME TypeOK, Accounting, NEW s \in Sessions, pc[s] \in {"idle"} \cup PreConsumePcs,
           Unfunded(s)', RowsLocal(s), Reject(s)
    PROVE  Accounting'
  <1>0. AccountOf(s) /\ Amounts(s)
    BY AccountNow
  <1>1. Local(s)
    BY GotoValues DEF Reject, Local, RowsLocal
  <1>2. pc'[s] = "rejected" /\ ses' = ses
    BY GotoValues DEF Reject
  <1>3. AccountOf(s)'
    BY <1>2, <1>0 DEF Unfunded
  <1> QED
    BY <1>1, <1>3, Frame

LEMMA FallBackAccount ==
    ASSUME TypeOK, Accounting, NEW s \in Sessions, pc[s] \in {"idle"} \cup PreConsumePcs,
           Unfunded(s)', RowsLocal(s), UNCHANGED req, FallBack(s)
    PROVE  Accounting'
  <1>0. AccountOf(s) /\ Amounts(s)
    BY AccountNow
  <1>1. /\ loc[s] \in LocalsType /\ req[s].quota \in Nat /\ req[s].opts = req'[s].opts
        /\ "none" \in Sources \cup {"none"}
    BY FieldTypes
  <1>2. \/ TrySubscription(s, req[s].quota, req'[s].opts, loc[s], "none")
        \/ TryWallet(s, loc[s], "none")
        \/ Reject(s)
    BY <1>1 DEF FallBack
  <1> QED
    BY <1>1, <1>2, TrySubscriptionAccount, TryWalletAccount, RejectAccount

\* The first source is chosen: nothing has been taken yet.
LEMMA NewBillingSessionAccount ==
    ASSUME TypeOK, Accounting, NEW s \in Sessions, NewBillingSession(s)
    PROVE  Accounting'
  <1>0. AccountOf(s) /\ Amounts(s)
    BY AccountNow
  <1>1. PICK pref \in Prefs, o \in Options, q \in Quotas :
          /\ req' = [req EXCEPT ![s] = [quota |-> q, opts |-> o, tokenQuota |-> tokenRemain]]
          /\ \/ TrySubscription(s, q, o, NewLocals, "none")
             \/ TryWallet(s, NewLocals, "none")
             \/ TryWallet(s, NewLocals, "subscription")
             \/ TrySubscription(s, q, o, NewLocals, "wallet")
             \/ Reject(s)
    BY DEF NewBillingSession
  <1>2. pc[s] = "idle" /\ UNCHANGED <<paid, faults, record>>
    BY NoChargeValues DEF NewBillingSession
  <1>3. Unfunded(s)'
    BY <1>2, <1>0 DEF Unfunded
  <1>4. RowsLocal(s) /\ req'[s].opts = o
    BY <1>1, <1>2 DEF RowsLocal, TypeOK
  <1>5. q \in Nat /\ NewLocals \in LocalsType /\ {"none", "wallet"} \subseteq Sources \cup {"none"}
    BY ConstantsAssumption, InitialTypes
  <1> QED
    BY <1>1, <1>2, <1>3, <1>4, <1>5, TrySubscriptionAccount, TryWalletAccount, RejectAccount

LEMMA CheckWalletAccount ==
    ASSUME TypeOK, Accounting, NEW s \in Sessions, CheckWallet(s)
    PROVE  Accounting'
  <1>0. AccountOf(s) /\ Amounts(s)
    BY AccountNow
  <1> DEFINE l0 == [loc[s] EXCEPT !.arg = 0]
             l1 == [loc[s] EXCEPT !.arg = req[s].quota]
  <1>1. \/ FallBack(s)
        \/ BeginPreConsume(s, req'[s].opts, l0, "wallet", {"trusted"})
        \/ BeginPreConsume(s, req'[s].opts, l1, "wallet", {})
    BY DEF CheckWallet
  <1>2. l0 \in LocalsType /\ l1 \in LocalsType
    BY FieldTypes, LocalsUpdates
  <1>3. pc[s] = "wallet" /\ UNCHANGED <<paid, faults, record, req>>
    BY NoChargeValues DEF CheckWallet
  <1>4. Unfunded(s)' /\ RowsLocal(s)
    BY <1>3, <1>0 DEF Unfunded, RowsLocal
  <1>5. "wallet" \in Sources /\ {} \in SUBSET {"trusted"} /\ {"trusted"} \in SUBSET {"trusted"}
    OBVIOUS
  <1> HIDE DEF l0, l1
  <1> QED
    BY <1>1, <1>2, <1>3, <1>4, <1>5, FallBackAccount, BeginPreConsumeAccount

LEMMA CheckTokenAccount ==
    ASSUME TypeOK, Accounting, NEW s \in Sessions, CheckToken(s) \/ QueryFails(s)
    PROVE  Accounting'
  <1>0. AccountOf(s) /\ Amounts(s)
    BY AccountNow
  <1>1. /\ pc[s] \in {"wallet", "token"} /\ pc'[s] \in {"tokenDec", "rejected"}
        /\ pc[s] = "wallet" => pc'[s] = "rejected"
        /\ UNCHANGED <<req, loc, ses, paid, faults, record>>
    BY GotoValues, NoChargeValues DEF CheckToken, QueryFails, KeepSession
  <1>2. Local(s)
    BY <1>1, GotoValues DEF CheckToken, QueryFails, Local
  <1>3. AccountOf(s)'
    BY <1>1, <1>0
  <1> QED
    BY <1>2, <1>3, Frame

LEMMA TakeTokenAccount ==
    ASSUME TypeOK, Accounting, NEW s \in Sessions, TakeToken(s)
    PROVE  Accounting'
  <1>0. AccountOf(s) /\ Amounts(s)
    BY AccountNow
  <1> DEFINE r == [ses[s] EXCEPT !.tokenConsumed = loc[s].arg]
  <1>1. /\ r.funding = ses[s].funding /\ r.flags = ses[s].flags /\ r.tokenConsumed = loc[s].arg
        /\ r.extraReserved = ses[s].extraReserved /\ r.consumed = ses[s].consumed
        /\ r.preConsumed = ses[s].preConsumed
    BY FieldTypes DEF SessionType
  <1>2. /\ pc[s] = "tokenDec" /\ UNCHANGED <<req, loc>>
        /\ \/ ChargeToken(s, loc[s].arg) /\ SetSession(s, r) /\ Goto(s, "fund")
           \/ Fault(s, "other") /\ Goto(s, "rejected") /\ UNCHANGED ses
    BY DEF TakeToken
  <1>3. loc[s].arg \in Nat /\ loc[s].arg \in Int
    BY FieldTypes
  <1> HIDE DEF r
  <1>4. CASE ChargeToken(s, loc[s].arg) /\ SetSession(s, r) /\ Goto(s, "fund")
    <2>1. Local(s)
      BY <1>2, <1>3, <1>4, ChargeTokenValues, SetSessionValues, GotoValues DEF Local
    <2>2. /\ pc'[s] = "fund" /\ ses'[s] = r /\ UNCHANGED <<req, loc, faults, record>>
          /\ paid'[s].token = paid[s].token + loc[s].arg
          /\ paid'[s].wallet = paid[s].wallet /\ paid'[s].sub = paid[s].sub
      BY <1>2, <1>3, <1>4, ChargeTokenValues, SetSessionValues, GotoValues
    <2>3. AccountOf(s)'
      BY <1>1, <1>2, <1>3, <2>2, <1>0
    <2> QED
      BY <2>1, <2>3, Frame
  <1>5. CASE Fault(s, "other") /\ Goto(s, "rejected") /\ UNCHANGED ses
    <2>1. Local(s)
      BY <1>2, <1>5, FaultValues, GotoValues DEF Local
    <2>2. /\ pc'[s] = "rejected" /\ UNCHANGED <<req, loc, ses, paid, record>>
          /\ faults'[s] = faults[s] \cup {"other"}
      BY <1>2, <1>5, FaultValues, GotoValues
    <2>3. AccountOf(s)'
      BY <1>2, <2>2, <1>0
    <2> QED
      BY <2>1, <2>3, Frame
  <1> QED
    BY <1>2, <1>4, <1>5

LEMMA FundingErrorAccount ==
    ASSUME TypeOK, Accounting, NEW s \in Sessions, NEW e, pc[s] = "fund",
           FundingError(s, e), UNCHANGED req, Fault(s, "other") \/ NoCharge(s)
    PROVE  Accounting'
  <1>0. AccountOf(s) /\ Amounts(s)
    BY AccountNow
  <1> DEFINE l == [loc[s] EXCEPT !.err = e]
  <1>1. SetLocals(s, l) /\ Goto(s, "rollback") /\ UNCHANGED ses
    BY DEF FundingError
  <1>2. l.arg = loc[s].arg
    BY FieldTypes DEF LocalsType
  <1> HIDE DEF l
  <1>3. /\ UNCHANGED <<ses, paid, record, req>> /\ pc'[s] = "rollback"
        /\ loc'[s].arg = loc[s].arg
        /\ faults'[s] = faults[s] \cup {"other"} \/ faults' = faults
    BY <1>1, <1>2, FaultValues, NoChargeValues, SetLocalsValues, GotoValues
  <1>4. Local(s)
    BY <1>1, FaultValues, NoChargeValues, SetLocalsValues, GotoValues DEF Local
  <1>5. AccountOf(s)'
    BY <1>3, <1>0
  <1> QED
    BY <1>4, <1>5, Frame

LEMMA FundFromWalletAccount ==
    ASSUME TypeOK, Accounting, NEW s \in Sessions, FundFromWallet(s)
    PROVE  Accounting'
  <1>0. AccountOf(s) /\ Amounts(s)
    BY AccountNow
  <1> DEFINE r == [ses[s] EXCEPT !.consumed = loc[s].arg, !.preConsumedQuota = loc[s].arg]
  <1>1. /\ r.funding = ses[s].funding /\ r.flags = ses[s].flags
        /\ r.tokenConsumed = ses[s].tokenConsumed /\ r.extraReserved = ses[s].extraReserved
        /\ r.preConsumed = ses[s].preConsumed
        /\ r.consumed = loc[s].arg /\ r.preConsumedQuota = loc[s].arg
    BY FieldTypes DEF SessionType
  <1>2. /\ pc[s] = "fund" /\ ses[s].funding = "wallet" /\ UNCHANGED req
        /\ \/ /\ IF loc[s].arg > 0 THEN ChargeWallet(s, loc[s].arg) ELSE NoCharge(s)
              /\ SetSession(s, r) /\ Goto(s, "live") /\ UNCHANGED loc
           \/ Fault(s, "other") /\ FundingError(s, "other")
    BY DEF FundFromWallet
  <1>3. loc[s].arg \in Nat /\ loc[s].arg \in Int
    BY FieldTypes
  <1> HIDE DEF r
  <1>4. CASE Fault(s, "other") /\ FundingError(s, "other")
    BY <1>2, <1>4, FundingErrorAccount
  <1>5. CASE /\ IF loc[s].arg > 0 THEN ChargeWallet(s, loc[s].arg) ELSE NoCharge(s)
             /\ SetSession(s, r) /\ Goto(s, "live") /\ UNCHANGED loc
    <2>1. Local(s)
      BY <1>2, <1>3, <1>5, ChargeWalletValues, NoChargeValues, SetSessionValues, GotoValues
      DEF Local
    <2>2. /\ pc'[s] = "live" /\ ses'[s] = r /\ UNCHANGED <<req, loc, faults, record>>
          /\ paid'[s].wallet = paid[s].wallet + loc[s].arg
          /\ paid'[s].token = paid[s].token /\ paid'[s].sub = paid[s].sub
      BY <1>2, <1>3, <1>5, ChargeWalletValues, NoChargeValues, SetSessionValues, GotoValues,
         PaidTypes
    <2>3. AccountOf(s)'
      BY <1>1, <1>2, <1>3, <2>2, <1>0
    <2> QED
      BY <2>1, <2>3, Frame
  <1> QED
    BY <1>2, <1>4, <1>5

LEMMA FundFromSubscriptionAccount ==
    ASSUME TypeOK, Accounting, NEW s \in Sessions, FundFromSubscription(s)
    PROVE  Accounting'
  <1>0. AccountOf(s) /\ Amounts(s)
    BY AccountNow
  <1> DEFINE r == [ses[s] EXCEPT !.preConsumed = loc[s].arg, !.preConsumedQuota = loc[s].arg]
             took == /\ record' = [record EXCEPT ![s] = "consumed"]
                     /\ paid' = [paid EXCEPT ![s].sub = @ + loc[s].arg]
                     /\ NoFault
  <1>1. /\ r.funding = ses[s].funding /\ r.flags = ses[s].flags
        /\ r.tokenConsumed = ses[s].tokenConsumed /\ r.extraReserved = ses[s].extraReserved
        /\ r.consumed = ses[s].consumed
        /\ r.preConsumed = loc[s].arg /\ r.preConsumedQuota = loc[s].arg
    BY FieldTypes DEF SessionType
  <1>2. /\ pc[s] = "fund" /\ ses[s].funding = "subscription" /\ UNCHANGED req
        /\ \/ took /\ SetSession(s, r) /\ Goto(s, "live") /\ UNCHANGED loc
           \/ NoCharge(s) /\ FundingError(s, "insufficient")
           \/ Fault(s, "other") /\ FundingError(s, "other")
    BY DEF FundFromSubscription, TakeSubscription
  <1>3. loc[s].arg \in Nat
    BY FieldTypes
  <1> HIDE DEF r
  <1>4. CASE \/ NoCharge(s) /\ FundingError(s, "insufficient")
             \/ Fault(s, "other") /\ FundingError(s, "other")
    BY <1>2, <1>4, FundingErrorAccount
  <1>5. CASE took /\ SetSession(s, r) /\ Goto(s, "live") /\ UNCHANGED loc
    <2>1. /\ paid'[s].sub = paid[s].sub + loc[s].arg
          /\ paid'[s].token = paid[s].token /\ paid'[s].wallet = paid[s].wallet
          /\ record'[s] = "consumed" /\ faults' = faults
          /\ \A t \in Sessions \ {s} : paid'[t] = paid[t] /\ record'[t] = record[t]
      BY <1>5 DEF TypeOK, RowsTypeOK, NoFault
    <2>2. Local(s)
      BY <1>2, <1>5, <2>1, SetSessionValues, GotoValues DEF Local
    <2>3. pc'[s] = "live" /\ ses'[s] = r /\ UNCHANGED <<req, loc>>
      BY <1>2, <1>5, SetSessionValues, GotoValues
    <2>4. AccountOf(s)'
      BY <1>1, <1>2, <1>3, <2>1, <2>3, <1>0
    <2> QED
      BY <2>2, <2>4, Frame
  <1> QED
    BY <1>2, <1>4, <1>5

LEMMA RollbackTokenAccount ==
    ASSUME TypeOK, Accounting, NEW s \in Sessions, RollbackToken(s)
    PROVE  Accounting'
  <1>0. AccountOf(s) /\ Amounts(s)
    BY AccountNow
  <1>1. pc[s] = "rollback" /\ UNCHANGED req /\ (FallBack(s) \/ Reject(s))
    BY DEF RollbackToken, AfterFundingError
  <1>2. -ses[s].tokenConsumed \in Int /\ ses[s].tokenConsumed \in Nat
    BY FieldTypes
  <1>3. Unfunded(s)' /\ RowsLocal(s)
    <2>1. CASE /\ ses[s].tokenConsumed > 0 /\ ~IsPlayground(s)
               /\ ChargeToken(s, -ses[s].tokenConsumed)
      <3>1. /\ paid'[s].token = paid[s].token - ses[s].tokenConsumed
            /\ paid'[s].wallet = paid[s].wallet /\ paid'[s].sub = paid[s].sub
            /\ UNCHANGED <<faults, record, req>>
            /\ RowsLocal(s)
        BY <1>1, <1>2, <2>1, ChargeTokenValues, PaidTypes DEF RowsLocal
      <3> QED
        BY <1>1, <1>2, <2>1, <3>1, <1>0 DEF Unfunded, IsPlayground
    <2>2. CASE Fault(s, "rollbackToken")
      <3>1. /\ UNCHANGED <<paid, record, req>> /\ faults'[s] = faults[s] \cup {"rollbackToken"}
            /\ RowsLocal(s)
        BY <1>1, <2>2, FaultValues DEF RowsLocal
      <3> QED
        BY <1>1, <1>2, <3>1, <1>0 DEF Unfunded
    <2>3. CASE ~(ses[s].tokenConsumed > 0 /\ ~IsPlayground(s)) /\ NoCharge(s)
      <3>1. UNCHANGED <<paid, faults, record, req>> /\ RowsLocal(s)
        BY <1>1, <2>3, NoChargeValues DEF RowsLocal
      <3> QED
        BY <1>1, <1>2, <2>3, <3>1, <1>0 DEF Unfunded, IsPlayground
    <2> QED
      BY <2>1, <2>2, <2>3 DEF RollbackToken
  <1> QED
    BY <1>1, <1>3, FallBackAccount, RejectAccount

-----------------------------------------------------------------------------
(* Accounting: Reserve *)

LEMMA ReserveAccount ==
    ASSUME TypeOK, Accounting, NEW s \in Sessions, Reserve(s)
    PROVE  Accounting'
  <1>0. AccountOf(s) /\ Amounts(s)
    BY AccountNow
  <1>1. PICK target \in Quotas :
          /\ ~ReserveIsNoOp(s, target)
          /\ SetLocals(s, [loc[s] EXCEPT !.arg = target - ses[s].preConsumedQuota,
                                         !.calls = @ + 1])
    BY DEF Reserve
  <1> DEFINE l == [loc[s] EXCEPT !.arg = target - ses[s].preConsumedQuota, !.calls = @ + 1]
  <1>2. SetLocals(s, l)
    BY <1>1
  <1> HIDE DEF l
  <1>3. /\ pc[s] = "live" /\ pc'[s] = "reserveFund"
        /\ UNCHANGED <<req, ses, paid, faults, record>>
    BY GotoValues, NoChargeValues DEF Reserve
  <1>4. Local(s)
    BY <1>2, <1>3, GotoValues, SetLocalsValues DEF Reserve, Local
  <1>5. "settled" \notin ses[s].flags /\ "refunded" \notin ses[s].flags
    BY <1>1 DEF ReserveIsNoOp
  <1>6. AccountOf(s)'
    BY <1>3, <1>5, <1>0
  <1> QED
    BY <1>4, <1>6, Frame

\* The three fields that a successful Reserve raises, and the others.
LEMMA CommitReserveValues ==
    ASSUME TypeOK, NEW s \in Sessions, NEW r \in SessionType, CommitReserve(s, r)
    PROVE  /\ pc'[s] = "live"
           /\ ses'[s].preConsumedQuota = r.preConsumedQuota + loc[s].arg
           /\ ses'[s].tokenConsumed = r.tokenConsumed + loc[s].arg
           /\ ses'[s].extraReserved = r.extraReserved + loc[s].arg
           /\ ses'[s].funding = r.funding /\ ses'[s].flags = r.flags
           /\ ses'[s].consumed = r.consumed /\ ses'[s].preConsumed = r.preConsumed
           /\ \A t \in Sessions \ {s} : ses'[t] = ses[t] /\ pc'[t] = pc[t]
  <1> DEFINE u == [r EXCEPT !.preConsumedQuota = @ + loc[s].arg,
                            !.tokenConsumed = @ + loc[s].arg,
                            !.extraReserved = @ + loc[s].arg]
  <1>1. SetSession(s, u) /\ Goto(s, "live")
    BY DEF CommitReserve
  <1>2. /\ u.preConsumedQuota = r.preConsumedQuota + loc[s].arg
        /\ u.tokenConsumed = r.tokenConsumed + loc[s].arg
        /\ u.extraReserved = r.extraReserved + loc[s].arg
        /\ u.funding = r.funding /\ u.flags = r.flags
        /\ u.consumed = r.consumed /\ u.preConsumed = r.preConsumed
    BY DEF SessionType
  <1> HIDE DEF u
  <1> QED
    BY <1>1, <1>2, SetSessionValues, GotoValues

LEMMA ReserveFundingAccount ==
    ASSUME TypeOK, Accounting, NEW s \in Sessions, ReserveFunding(s)
    PROVE  Accounting'
  <1>0. AccountOf(s) /\ Amounts(s)
    BY AccountNow
  <1> DEFINE r == IF ses[s].funding = "wallet"
                  THEN [ses[s] EXCEPT !.consumed = ses[s].consumed + loc[s].arg] ELSE ses[s]
             charged == IF ses[s].funding = "wallet"
                        THEN ChargeWallet(s, loc[s].arg)
                        ELSE PostConsumeUserSubscriptionDelta(s, loc[s].arg)
  <1>1. /\ pc[s] = "reserveFund" /\ UNCHANGED <<req, loc>>
        /\ \/ /\ charged
              /\ IF IsPlayground(s)
                 THEN CommitReserve(s, r) ELSE Goto(s, "reserveToken") /\ SetSession(s, r)
           \/ (NoCharge(s) \/ Fault(s, "other")) /\ Goto(s, "live") /\ UNCHANGED ses
    BY DEF ReserveFunding, DeltaRefused
  <1>2. r \in SessionType /\ ses[s] \in SessionType
    <2>1. ses[s] \in SessionType /\ ses[s].consumed + loc[s].arg \in Int
      BY FieldTypes
    <2>2. [ses[s] EXCEPT !.consumed = ses[s].consumed + loc[s].arg] \in SessionType
      BY <2>1, SessionUpdates
    <2> QED
      BY <2>1, <2>2
  <1>3. /\ r.funding = ses[s].funding /\ r.flags = ses[s].flags
        /\ r.preConsumedQuota = ses[s].preConsumedQuota
        /\ r.tokenConsumed = ses[s].tokenConsumed /\ r.extraReserved = ses[s].extraReserved
        /\ r.preConsumed = ses[s].preConsumed
        /\ r.consumed = IF ses[s].funding = "wallet"
                        THEN ses[s].consumed + loc[s].arg ELSE ses[s].consumed
    BY <1>2 DEF SessionType
  <1>4. loc[s].arg \in Nat /\ loc[s].arg \in Int
    BY FieldTypes
  <1> HIDE DEF r
  <1>5. CASE (NoCharge(s) \/ Fault(s, "other")) /\ Goto(s, "live") /\ UNCHANGED ses
    <2>1. /\ pc'[s] = "live" /\ UNCHANGED <<req, loc, ses, paid, record>>
          /\ faults'[s] = faults[s] \cup {"other"} \/ faults' = faults
      BY <1>1, <1>5, NoChargeValues, FaultValues, GotoValues
    <2>2. Local(s)
      BY <1>1, <1>5, NoChargeValues, FaultValues, GotoValues DEF Local
    <2>3. AccountOf(s)'
      BY <1>1, <2>1, <1>0
    <2> QED
      BY <2>2, <2>3, Frame
  <1>6. CASE /\ charged
             /\ IF IsPlayground(s)
                THEN CommitReserve(s, r) ELSE Goto(s, "reserveToken") /\ SetSession(s, r)
    <2>1. /\ UNCHANGED <<req, loc, faults, record>>
          /\ paid'[s].token = paid[s].token
          /\ ses[s].funding = "wallet" => /\ paid'[s].wallet = paid[s].wallet + loc[s].arg
                                          /\ paid'[s].sub = paid[s].sub
          /\ ses[s].funding # "wallet" => /\ paid'[s].sub = paid[s].sub + loc[s].arg
                                          /\ paid'[s].wallet = paid[s].wallet
          /\ \A t \in Sessions \ {s} : paid'[t] = paid[t]
      BY <1>1, <1>4, <1>6, ChargeWalletValues, SubscriptionDeltaValues
    <2>2. CASE IsPlayground(s) /\ CommitReserve(s, r)
      <3>1. Local(s)
        BY <1>2, <2>1, <2>2, CommitReserveValues DEF Local
      <3>2. /\ pc'[s] = "live"
            /\ ses'[s].preConsumedQuota = ses[s].preConsumedQuota + loc[s].arg
            /\ ses'[s].tokenConsumed = ses[s].tokenConsumed + loc[s].arg
            /\ ses'[s].extraReserved = ses[s].extraReserved + loc[s].arg
            /\ ses'[s].funding = ses[s].funding /\ ses'[s].flags = ses[s].flags
            /\ ses'[s].consumed = r.consumed /\ ses'[s].preConsumed = ses[s].preConsumed
        BY <1>2, <1>3, <2>2, CommitReserveValues
      <3>3. AccountOf(s)'
        <4>1. CASE ses[s].funding = "wallet"
          BY <1>1, <1>3, <1>4, <2>1, <2>2, <3>2, <4>1, <1>0
          DEF IsPlayground
        <4>2. CASE ses[s].funding # "wallet"
          <5>1. AccountBeforeFunding(pc[s], ses[s], loc[s].arg, req[s].opts, paid[s], faults[s])'
            BY <1>0, <1>1, <1>3, <1>4, <2>1, <2>2, <3>2, <4>2 DEF IsPlayground
          <5>2. AccountFields(pc[s], ses[s], paid[s], faults[s])'
            BY <1>0, <1>1, <1>3, <1>4, <2>1, <2>2, <3>2, <4>2 DEF IsPlayground
          <5>3. AccountFunding(pc[s], ses[s], loc[s].arg, paid[s], faults[s])'
            BY <1>0, <1>1, <1>3, <1>4, <2>1, <2>2, <3>2, <4>2 DEF IsPlayground
          <5>4. AccountToken(pc[s], ses[s], loc[s].arg, req[s].opts, paid[s], faults[s])'
            BY <1>0, <1>1, <1>3, <1>4, <2>1, <2>2, <3>2, <4>2 DEF IsPlayground
          <5>5. AccountRefund(pc[s], ses[s], paid[s], faults[s], record[s])'
            BY <1>0, <1>1, <1>3, <1>4, <2>1, <2>2, <3>2, <4>2 DEF IsPlayground
          <5>6. AccountLost(pc[s], ses[s], loc[s].arg, req[s].opts, paid[s], faults[s])'
            BY <1>0, <1>1, <1>3, <1>4, <2>1, <2>2, <3>2, <4>2 DEF IsPlayground
          <5> QED
            BY <5>1, <5>2, <5>3, <5>4, <5>5, <5>6
        <4> QED
          BY <4>1, <4>2
      <3> QED
        BY <3>1, <3>3, Frame
    <2>3. CASE ~IsPlayground(s) /\ Goto(s, "reserveToken") /\ SetSession(s, r)
      <3>1. Local(s) /\ pc'[s] = "reserveToken" /\ ses'[s] = r
        BY <2>1, <2>3, GotoValues, SetSessionValues DEF Local
      <3>2. AccountOf(s)'
        <4>1. CASE ses[s].funding = "wallet"
          BY <1>0, <1>1, <1>3, <1>4, <2>1, <2>3, <3>1, <4>1 DEF IsPlayground
        <4>2. CASE ses[s].funding # "wallet"
          BY <1>0, <1>1, <1>3, <1>4, <2>1, <2>3, <3>1, <4>2 DEF IsPlayground
        <4> QED
          BY <4>1, <4>2
      <3> QED
        BY <3>1, <3>2, Frame
    <2> QED
      BY <1>6, <2>2, <2>3
  <1> QED
    BY <1>1, <1>5, <1>6

LEMMA ReserveTokenAccount ==
    ASSUME TypeOK, Accounting, NEW s \in Sessions, ReserveCheckToken(s) \/ ReserveTakeToken(s)
    PROVE  Accounting'
  <1>0. AccountOf(s) /\ Amounts(s)
    BY AccountNow
  <1>1. loc[s].arg \in Nat /\ loc[s].arg \in Int /\ ses[s] \in SessionType
    BY FieldTypes
  <1>2. CASE ReserveTakeToken(s) /\ ChargeToken(s, loc[s].arg) /\ CommitReserve(s, ses[s])
    <2>1. /\ pc[s] = "reserveTokenDec" /\ UNCHANGED <<req, loc, faults, record>>
          /\ paid'[s].token = paid[s].token + loc[s].arg
          /\ paid'[s].wallet = paid[s].wallet /\ paid'[s].sub = paid[s].sub
      BY <1>1, <1>2, ChargeTokenValues DEF ReserveTakeToken
    <2>2. Local(s)
      BY <1>1, <1>2, <2>1, ChargeTokenValues, CommitReserveValues DEF Local
    <2>3. /\ pc'[s] = "live"
          /\ ses'[s].preConsumedQuota = ses[s].preConsumedQuota + loc[s].arg
          /\ ses'[s].tokenConsumed = ses[s].tokenConsumed + loc[s].arg
          /\ ses'[s].extraReserved = ses[s].extraReserved + loc[s].arg
          /\ ses'[s].funding = ses[s].funding /\ ses'[s].flags = ses[s].flags
          /\ ses'[s].consumed = ses[s].consumed /\ ses'[s].preConsumed = ses[s].preConsumed
      BY <1>1, <1>2, CommitReserveValues
    <2>4. AccountOf(s)'
      <3>1. AccountBeforeFunding(pc[s], ses[s], loc[s].arg, req[s].opts, paid[s], faults[s])'
        BY <1>0, <1>1, <2>1, <2>3
      <3>2. AccountFields(pc[s], ses[s], paid[s], faults[s])'
        BY <1>0, <1>1, <2>1, <2>3
      <3>3. AccountFunding(pc[s], ses[s], loc[s].arg, paid[s], faults[s])'
        BY <1>0, <1>1, <2>1, <2>3
      <3>4. AccountToken(pc[s], ses[s], loc[s].arg, req[s].opts, paid[s], faults[s])'
        BY <1>0, <1>1, <2>1, <2>3
      <3>5. AccountRefund(pc[s], ses[s], paid[s], faults[s], record[s])'
        BY <1>0, <1>1, <2>1, <2>3
      <3>6. AccountLost(pc[s], ses[s], loc[s].arg, req[s].opts, paid[s], faults[s])'
        BY <1>0, <1>1, <2>1, <2>3
      <3> QED
        BY <3>1, <3>2, <3>3, <3>4, <3>5, <3>6
    <2> QED
      BY <2>2, <2>4, Frame
  <1>3. CASE /\ pc[s] \in {"reserveToken", "reserveTokenDec"}
             /\ Goto(s, "reserveTokenDec") \/ Goto(s, "reserveUndo")
             /\ NoCharge(s) \/ Fault(s, "other")
             /\ UNCHANGED <<req, loc, ses>>
    <2>1. /\ pc'[s] \in {"reserveTokenDec", "reserveUndo"}
          /\ UNCHANGED <<req, loc, ses, paid, record>>
          /\ faults'[s] = faults[s] \cup {"other"} \/ faults' = faults
      BY <1>3, NoChargeValues, FaultValues, GotoValues
    <2>2. Local(s)
      BY <1>3, NoChargeValues, FaultValues, GotoValues DEF Local
    <2>3. AccountOf(s)'
      BY <1>3, <2>1, <1>0
    <2> QED
      BY <2>2, <2>3, Frame
  <1> QED
    BY <1>2, <1>3 DEF ReserveCheckToken, ReserveTakeToken, KeepSession

LEMMA RollbackFundingReserveAccount ==
    ASSUME TypeOK, Accounting, NEW s \in Sessions, RollbackFundingReserve(s)
    PROVE  Accounting'
  <1>0. AccountOf(s) /\ Amounts(s)
    BY AccountNow
  <1> DEFINE r == [ses[s] EXCEPT !.consumed = ses[s].consumed - loc[s].arg]
  <1>1. /\ pc[s] = "reserveUndo" /\ Goto(s, "live") /\ UNCHANGED <<req, loc>>
        /\ \/ ses[s].funding = "wallet" /\ ChargeWallet(s, -loc[s].arg) /\ SetSession(s, r)
           \/ /\ ses[s].funding = "subscription"
              /\ PostConsumeUserSubscriptionDelta(s, -loc[s].arg) /\ UNCHANGED ses
           \/ Fault(s, "reserveUndo") /\ UNCHANGED ses
    BY DEF RollbackFundingReserve
  <1>2. /\ r.funding = ses[s].funding /\ r.flags = ses[s].flags
        /\ r.preConsumedQuota = ses[s].preConsumedQuota
        /\ r.tokenConsumed = ses[s].tokenConsumed /\ r.extraReserved = ses[s].extraReserved
        /\ r.preConsumed = ses[s].preConsumed /\ r.consumed = ses[s].consumed - loc[s].arg
    BY FieldTypes DEF SessionType
  <1>3. -loc[s].arg \in Int /\ loc[s].arg \in Nat
    BY FieldTypes
  <1> HIDE DEF r
  <1>4. CASE ses[s].funding = "wallet" /\ ChargeWallet(s, -loc[s].arg) /\ SetSession(s, r)
    <2>1. /\ Local(s) /\ pc'[s] = "live" /\ ses'[s] = r /\ UNCHANGED <<req, loc, faults, record>>
          /\ paid'[s].wallet = paid[s].wallet - loc[s].arg
          /\ paid'[s].token = paid[s].token /\ paid'[s].sub = paid[s].sub
      BY <1>1, <1>3, <1>4, ChargeWalletValues, SetSessionValues, GotoValues, PaidTypes DEF Local
    <2>2. AccountOf(s)'
      BY <1>1, <1>2, <1>3, <1>4, <2>1, <1>0
    <2> QED
      BY <2>1, <2>2, Frame
  <1>5. CASE /\ ses[s].funding = "subscription"
             /\ PostConsumeUserSubscriptionDelta(s, -loc[s].arg) /\ UNCHANGED ses
    <2>1. /\ Local(s) /\ pc'[s] = "live" /\ UNCHANGED <<req, loc, ses, faults, record>>
          /\ paid'[s].sub = paid[s].sub - loc[s].arg
          /\ paid'[s].token = paid[s].token /\ paid'[s].wallet = paid[s].wallet
      BY <1>1, <1>3, <1>5, SubscriptionDeltaValues, GotoValues, PaidTypes DEF Local
    <2>2. AccountOf(s)'
      BY <1>1, <1>3, <1>5, <2>1, <1>0
    <2> QED
      BY <2>1, <2>2, Frame
  <1>6. CASE Fault(s, "reserveUndo") /\ UNCHANGED ses
    <2>1. /\ Local(s) /\ pc'[s] = "live" /\ UNCHANGED <<req, loc, ses, paid, record>>
          /\ faults'[s] = faults[s] \cup {"reserveUndo"}
      BY <1>1, <1>6, FaultValues, GotoValues DEF Local
    <2>2. AccountOf(s)'
      BY <1>1, <1>3, <2>1, <1>0
    <2> QED
      BY <2>1, <2>2, Frame
  <1> QED
    BY <1>1, <1>4, <1>5, <1>6

-----------------------------------------------------------------------------
(* Accounting: Settle *)

LEMMA SettleAccount ==
    ASSUME TypeOK, Accounting, NEW s \in Sessions, Settle(s)
    PROVE  Accounting'
  <1>0. AccountOf(s) /\ Amounts(s)
    BY AccountNow
  <1>1. PICK actual \in Quotas :
          /\ SetLocals(s, [loc[s] EXCEPT !.arg = actual, !.calls = @ + 1])
          /\ \/ actual = ses[s].preConsumedQuota /\ Goto(s, "live") /\ AddFlag(s, "settled")
             \/ "fundingSettled" \in ses[s].flags /\ Goto(s, "settleToken") /\ UNCHANGED ses
             \/ Goto(s, "settle") /\ UNCHANGED ses
    BY DEF Settle
  <1> DEFINE l == [loc[s] EXCEPT !.arg = actual, !.calls = @ + 1]
  <1>2. SetLocals(s, l) /\ l.arg = actual /\ actual \in Nat
    BY <1>1, FieldTypes, ConstantsAssumption DEF LocalsType
  <1> HIDE DEF l
  <1>3. /\ pc[s] = "live" /\ "settled" \notin ses[s].flags /\ loc'[s].arg = actual
        /\ UNCHANGED <<req, paid, faults, record>>
    BY <1>2, NoChargeValues, SetLocalsValues DEF Settle
  <1>4. "fundingSettled" \notin ses[s].flags /\ "refunded" \notin ses[s].flags
    BY <1>3, <1>0
  <1>5. CASE actual = ses[s].preConsumedQuota /\ Goto(s, "live") /\ AddFlag(s, "settled")
    <2>1. Local(s) /\ pc'[s] = "live"
      BY <1>2, <1>3, <1>5, GotoValues, AddFlagValues, SetLocalsValues DEF Local
    <2>2. AccountOf(s)'
      BY <1>2, <1>3, <1>4, <1>5, <2>1, AddFlagValues, <1>0
    <2> QED
      BY <2>1, <2>2, Frame
  <1>6. CASE Goto(s, "settle") /\ UNCHANGED ses
    <2>1. Local(s) /\ pc'[s] = "settle"
      BY <1>2, <1>3, <1>6, GotoValues, SetLocalsValues DEF Local
    <2>2. AccountOf(s)'
      BY <1>3, <1>4, <1>6, <2>1, <1>0
    <2> QED
      BY <2>1, <2>2, Frame
  <1> QED
    BY <1>1, <1>4, <1>5, <1>6

LEMMA SettleFundingAccount ==
    ASSUME TypeOK, Accounting, NEW s \in Sessions, SettleFunding(s)
    PROVE  Accounting'
  <1>0. AccountOf(s) /\ Amounts(s)
    BY AccountNow
  <1> DEFINE n == loc[s].arg - ses[s].preConsumedQuota
             charged == IF ses[s].funding = "wallet"
                        THEN ChargeWallet(s, n) ELSE PostConsumeUserSubscriptionDelta(s, n)
  <1>1. /\ pc[s] = "settle" /\ UNCHANGED <<req, loc>>
        /\ \/ charged /\ AddFlag(s, "fundingSettled") /\ Goto(s, "settleToken")
           \/ (NoCharge(s) \/ Fault(s, "settleFunding")) /\ Goto(s, "live") /\ UNCHANGED ses
    BY DEF SettleFunding, SettleDelta, DeltaRefused
  <1>2. n \in Int /\ loc[s].arg \in Nat /\ ses[s].preConsumedQuota \in Nat
    BY FieldTypes
  <1>3. n = loc[s].arg - ses[s].preConsumedQuota
    OBVIOUS
  <1>4. CASE (NoCharge(s) \/ Fault(s, "settleFunding")) /\ Goto(s, "live") /\ UNCHANGED ses
    <2>1. /\ Local(s) /\ pc'[s] = "live" /\ UNCHANGED <<req, loc, ses, paid, record>>
          /\ faults'[s] = faults[s] \cup {"settleFunding"} \/ faults' = faults
      BY <1>1, <1>4, NoChargeValues, FaultValues, GotoValues DEF Local
    <2>2. AccountOf(s)'
      BY <1>1, <2>1, <1>0
    <2> QED
      BY <2>1, <2>2, Frame
  <1>5. CASE charged /\ AddFlag(s, "fundingSettled") /\ Goto(s, "settleToken")
    <2> HIDE DEF n
    <2>1. /\ UNCHANGED <<req, loc, faults, record>> /\ pc'[s] = "settleToken"
          /\ paid'[s].token = paid[s].token
          /\ ses[s].funding = "wallet" => /\ paid'[s].wallet = paid[s].wallet + n
                                          /\ paid'[s].sub = paid[s].sub
          /\ ses[s].funding # "wallet" => /\ paid'[s].sub = paid[s].sub + n
                                          /\ paid'[s].wallet = paid[s].wallet
          /\ \A t \in Sessions \ {s} : paid'[t] = paid[t]
      BY <1>1, <1>2, <1>5, ChargeWalletValues, SubscriptionDeltaValues, GotoValues
    <2>2. Local(s)
      BY <1>5, <2>1, AddFlagValues, GotoValues DEF Local
    <2>3. AccountOf(s)'
      <3>1. CASE ses[s].funding = "wallet"
        BY <1>1, <1>2, <1>3, <1>5, <2>1, <3>1, AddFlagValues, <1>0
      <3>2. CASE ses[s].funding # "wallet"
        BY <1>1, <1>2, <1>3, <1>5, <2>1, <3>2, AddFlagValues, <1>0
      <3> QED
        BY <3>1, <3>2
    <2> QED
      BY <2>2, <2>3, Frame
  <1> QED
    BY <1>1, <1>4, <1>5

LEMMA SettleTokenAccount ==
    ASSUME TypeOK, Accounting, NEW s \in Sessions, SettleToken(s)
    PROVE  Accounting'
  <1>0. AccountOf(s) /\ Amounts(s)
    BY AccountNow
  <1> DEFINE n == loc[s].arg - ses[s].preConsumedQuota
  <1>1. /\ pc[s] = "settleToken" /\ pc'[s] = "live" /\ UNCHANGED <<req, loc>>
        /\ AddFlag(s, "settled") /\ Goto(s, "live")
        /\ \/ IsPlayground(s) /\ NoCharge(s)
           \/ ~IsPlayground(s) /\ ChargeToken(s, n)
           \/ ~IsPlayground(s) /\ Fault(s, "settleToken")
    BY GotoValues DEF SettleToken, SettleDelta
  <1>2. n \in Int /\ loc[s].arg \in Nat /\ ses[s].preConsumedQuota \in Nat
        /\ n = loc[s].arg - ses[s].preConsumedQuota
    BY FieldTypes
  <1> HIDE DEF n
  <1>3. CASE IsPlayground(s) /\ NoCharge(s)
    <2>1. UNCHANGED <<paid, faults, record>> /\ Local(s)
      BY <1>1, <1>3, NoChargeValues, AddFlagValues, GotoValues DEF Local
    <2>2. AccountOf(s)'
      BY <1>1, <1>2, <1>3, <2>1, AddFlagValues, <1>0
      DEF IsPlayground
    <2> QED
      BY <2>1, <2>2, Frame
  <1>4. CASE ~IsPlayground(s) /\ ChargeToken(s, n)
    <2>1. /\ UNCHANGED <<faults, record>> /\ Local(s)
          /\ paid'[s].token = paid[s].token + n
          /\ paid'[s].wallet = paid[s].wallet /\ paid'[s].sub = paid[s].sub
      BY <1>1, <1>2, <1>4, ChargeTokenValues, AddFlagValues, GotoValues DEF Local
    <2>2. AccountOf(s)'
      <3>1. AccountBeforeFunding(pc[s], ses[s], loc[s].arg, req[s].opts, paid[s], faults[s])'
        BY <1>1, <1>2, <1>4, <2>1, AddFlagValues, <1>0 DEF IsPlayground
      <3>2. AccountFields(pc[s], ses[s], paid[s], faults[s])'
        BY <1>1, <1>2, <1>4, <2>1, AddFlagValues, <1>0 DEF IsPlayground
      <3>3. AccountFunding(pc[s], ses[s], loc[s].arg, paid[s], faults[s])'
        BY <1>1, <1>2, <1>4, <2>1, AddFlagValues, <1>0 DEF IsPlayground
      <3>4. AccountToken(pc[s], ses[s], loc[s].arg, req[s].opts, paid[s], faults[s])'
        BY <1>1, <1>2, <1>4, <2>1, AddFlagValues, <1>0 DEF IsPlayground
      <3>5. AccountRefund(pc[s], ses[s], paid[s], faults[s], record[s])'
        BY <1>1, <1>2, <1>4, <2>1, AddFlagValues, <1>0 DEF IsPlayground
      <3>6. AccountLost(pc[s], ses[s], loc[s].arg, req[s].opts, paid[s], faults[s])'
        BY <1>1, <1>2, <1>4, <2>1, AddFlagValues, <1>0 DEF IsPlayground
      <3> QED
        BY <3>1, <3>2, <3>3, <3>4, <3>5, <3>6
    <2> QED
      BY <2>1, <2>2, Frame
  <1>5. CASE ~IsPlayground(s) /\ Fault(s, "settleToken")
    <2>1. /\ UNCHANGED <<paid, record>> /\ Local(s)
          /\ faults'[s] = faults[s] \cup {"settleToken"}
      BY <1>1, <1>5, FaultValues, AddFlagValues, GotoValues DEF Local
    <2>2. AccountOf(s)'
      <3>1. AccountBeforeFunding(pc[s], ses[s], loc[s].arg, req[s].opts, paid[s], faults[s])'
        BY <1>1, <1>2, <1>5, <2>1, AddFlagValues, <1>0 DEF IsPlayground
      <3>2. AccountFields(pc[s], ses[s], paid[s], faults[s])'
        BY <1>1, <1>2, <1>5, <2>1, AddFlagValues, <1>0 DEF IsPlayground
      <3>3. AccountFunding(pc[s], ses[s], loc[s].arg, paid[s], faults[s])'
        BY <1>1, <1>2, <1>5, <2>1, AddFlagValues, <1>0 DEF IsPlayground
      <3>4. AccountToken(pc[s], ses[s], loc[s].arg, req[s].opts, paid[s], faults[s])'
        BY <1>1, <1>2, <1>5, <2>1, AddFlagValues, <1>0 DEF IsPlayground
      <3>5. AccountRefund(pc[s], ses[s], paid[s], faults[s], record[s])'
        BY <1>1, <1>2, <1>5, <2>1, AddFlagValues, <1>0 DEF IsPlayground
      <3>6. AccountLost(pc[s], ses[s], loc[s].arg, req[s].opts, paid[s], faults[s])'
        BY <1>1, <1>2, <1>5, <2>1, AddFlagValues, <1>0 DEF IsPlayground
      <3> QED
        BY <3>1, <3>2, <3>3, <3>4, <3>5, <3>6
    <2> QED
      BY <2>1, <2>2, Frame
  <1> QED
    BY <1>1, <1>3, <1>4, <1>5

-----------------------------------------------------------------------------
(* Accounting: Refund *)

LEMMA RefundAccount ==
    ASSUME TypeOK, Accounting, NEW s \in Sessions, Refund(s)
    PROVE  Accounting'
  <1>0. AccountOf(s) /\ Amounts(s)
    BY AccountNow
  <1>1. /\ pc[s] = "live" /\ UNCHANGED <<req, loc, paid, faults, record>>
        /\ \/ Goto(s, "closed") /\ UNCHANGED ses
           \/ NeedsRefund(s) /\ Goto(s, "refund") /\ AddFlag(s, "refunded")
    BY NoChargeValues DEF Refund
  <1>2. CASE Goto(s, "closed") /\ UNCHANGED ses
    <2>1. Local(s) /\ pc'[s] = "closed"
      BY <1>1, <1>2, GotoValues DEF Local
    <2>2. AccountOf(s)'
      BY <1>1, <1>2, <2>1, <1>0
    <2> QED
      BY <2>1, <2>2, Frame
  <1>3. CASE NeedsRefund(s) /\ Goto(s, "refund") /\ AddFlag(s, "refunded")
    <2>1. Local(s) /\ pc'[s] = "refund"
      BY <1>1, <1>3, GotoValues, AddFlagValues DEF Local
    <2>2. "settled" \notin ses[s].flags /\ "fundingSettled" \notin ses[s].flags
      BY <1>3 DEF NeedsRefund
    <2>3. AccountOf(s)'
      <3>1. AccountBeforeFunding(pc[s], ses[s], loc[s].arg, req[s].opts, paid[s], faults[s])'
        BY <1>1, <1>3, <2>1, <2>2, AddFlagValues, <1>0
      <3>2. AccountFields(pc[s], ses[s], paid[s], faults[s])'
        BY <1>1, <1>3, <2>1, <2>2, AddFlagValues, <1>0
      <3>3. AccountFunding(pc[s], ses[s], loc[s].arg, paid[s], faults[s])'
        BY <1>1, <1>3, <2>1, <2>2, AddFlagValues, <1>0
      <3>4. AccountToken(pc[s], ses[s], loc[s].arg, req[s].opts, paid[s], faults[s])'
        BY <1>1, <1>3, <2>1, <2>2, AddFlagValues, <1>0
      <3>5. AccountRefund(pc[s], ses[s], paid[s], faults[s], record[s])'
        BY <1>1, <1>3, <2>1, <2>2, AddFlagValues, <1>0
      <3>6. AccountLost(pc[s], ses[s], loc[s].arg, req[s].opts, paid[s], faults[s])'
        BY <1>1, <1>3, <2>1, <2>2, AddFlagValues, <1>0
      <3> QED
        BY <3>1, <3>2, <3>3, <3>4, <3>5, <3>6
    <2> QED
      BY <2>1, <2>3, Frame
  <1> QED
    BY <1>1, <1>2, <1>3

LEMMA RefundWalletAccount ==
    ASSUME TypeOK, Accounting, NEW s \in Sessions, RefundWallet(s)
    PROVE  Accounting'
  <1>0. AccountOf(s) /\ Amounts(s)
    BY AccountNow
  <1>1. /\ pc[s] = "refund" /\ ses[s].funding = "wallet" /\ pc'[s] = "refundToken"
        /\ UNCHANGED <<req, loc, ses>> /\ Goto(s, "refundToken")
        /\ -ses[s].consumed \in Int /\ ses[s].consumed \in Int
    BY GotoValues, FieldTypes DEF RefundWallet, KeepSession
  <1>2. CASE ChargeWallet(s, -ses[s].consumed)
    <2>1. /\ UNCHANGED <<faults, record>> /\ Local(s)
          /\ paid'[s].wallet = paid[s].wallet - ses[s].consumed
          /\ paid'[s].token = paid[s].token /\ paid'[s].sub = paid[s].sub
      BY <1>1, <1>2, ChargeWalletValues, GotoValues, PaidTypes DEF Local
    <2>2. AccountOf(s)'
      BY <1>1, <2>1, <1>0
    <2> QED
      BY <2>1, <2>2, Frame
  <1>3. CASE Fault(s, "refundFunding")
    <2>1. /\ UNCHANGED <<paid, record>> /\ Local(s)
          /\ faults'[s] = faults[s] \cup {"refundFunding"}
      BY <1>1, <1>3, FaultValues, GotoValues DEF Local
    <2>2. AccountOf(s)'
      BY <1>1, <2>1, <1>0
    <2> QED
      BY <2>1, <2>2, Frame
  <1>4. CASE ~(ses[s].consumed > 0) /\ NoCharge(s)
    <2>1. UNCHANGED <<paid, faults, record>> /\ Local(s)
      BY <1>1, <1>4, NoChargeValues, GotoValues DEF Local
    <2>2. AccountOf(s)'
      BY <1>1, <1>4, <2>1, <1>0
    <2> QED
      BY <2>1, <2>2, Frame
  <1> QED
    BY <1>2, <1>3, <1>4 DEF RefundWallet

\* A retry changes neither the session nor the amounts.
LEMMA RetryRefundValues ==
    ASSUME TypeOK, NEW s \in Sessions, RetryRefund(s)
    PROVE  /\ pc'[s] \in {"refund", "refundExtra"} /\ loc'[s].arg = loc[s].arg
           /\ UNCHANGED <<req, ses>>
           /\ \A t \in Sessions \ {s} : pc'[t] = pc[t] /\ loc'[t] = loc[t]
  <1> DEFINE l == [loc[s] EXCEPT !.tries = @ + 1]
  <1>1. l.arg = loc[s].arg
    BY FieldTypes DEF LocalsType
  <1>2. /\ UNCHANGED <<req, ses>>
        /\ \/ Goto(s, "refund") /\ SetLocals(s, l)
           \/ Goto(s, "refundExtra") /\ UNCHANGED loc
    BY DEF RetryRefund
  <1> HIDE DEF l
  <1> QED
    BY <1>1, <1>2, GotoValues, SetLocalsValues

LEMMA RefundSubscriptionAccount ==
    ASSUME TypeOK, Accounting, NEW s \in Sessions, RefundSubscription(s)
    PROVE  Accounting'
  <1>0. AccountOf(s) /\ Amounts(s)
    BY AccountNow
  <1>1. pc[s] = "refund" /\ ses[s].funding = "subscription" /\ -ses[s].preConsumed \in Int
    BY <1>0 DEF RefundSubscription
  <1>2. CASE record[s] # "consumed" /\ NoCharge(s) /\ Goto(s, "refundExtra") /\ KeepSession
    <2>1. /\ UNCHANGED <<req, loc, ses, paid, faults, record>> /\ pc'[s] = "refundExtra"
          /\ Local(s)
      BY <1>2, NoChargeValues, GotoValues DEF KeepSession, Local
    <2>2. AccountOf(s)'
      BY <1>0, <1>1, <1>2, <2>1
    <2> QED
      BY <2>1, <2>2, Frame
  <1>3. CASE /\ record[s] = "consumed" /\ Goto(s, "refundSave") /\ KeepSession
             /\ PostConsumeUserSubscriptionDelta(s, -ses[s].preConsumed)
    <2>1. /\ UNCHANGED <<req, loc, ses, faults, record>> /\ pc'[s] = "refundSave"
          /\ paid'[s].sub = paid[s].sub - ses[s].preConsumed
          /\ paid'[s].wallet = paid[s].wallet /\ paid'[s].token = paid[s].token
          /\ Local(s)
      BY <1>0, <1>1, <1>3, SubscriptionDeltaValues, GotoValues DEF KeepSession, Local
    <2>2. AccountOf(s)'
      BY <1>0, <1>1, <1>3, <2>1
    <2> QED
      BY <2>1, <2>2, Frame
  <1>4. CASE record[s] = "consumed" /\ Fault(s, "refundFunding") /\ RetryRefund(s)
    <2>1. /\ UNCHANGED <<req, ses, paid, record>> /\ pc'[s] \in {"refund", "refundExtra"}
          /\ loc'[s].arg = loc[s].arg /\ faults'[s] = faults[s] \cup {"refundFunding"}
          /\ Local(s)
      BY <1>4, FaultValues, RetryRefundValues DEF Local
    <2>2. AccountOf(s)'
      BY <1>0, <1>1, <1>4, <2>1
    <2> QED
      BY <2>1, <2>2, Frame
  <1> QED
    BY <1>2, <1>3, <1>4 DEF RefundSubscription

LEMMA SaveRefundRecordAccount ==
    ASSUME TypeOK, Accounting, NEW s \in Sessions, SaveRefundRecord(s)
    PROVE  Accounting'
  <1>0. AccountOf(s) /\ Amounts(s)
    BY AccountNow
  <1>1. pc[s] = "refundSave"
    BY DEF SaveRefundRecord
  <1>2. CASE Fault(s, "refundSave") /\ RetryRefund(s)
    <2>1. /\ UNCHANGED <<req, ses, paid, record>> /\ pc'[s] \in {"refund", "refundExtra"}
          /\ loc'[s].arg = loc[s].arg /\ faults'[s] = faults[s] \cup {"refundSave"}
          /\ Local(s)
      BY <1>2, FaultValues, RetryRefundValues DEF Local
    <2>2. AccountOf(s)'
      BY <1>0, <1>1, <2>1
    <2> QED
      BY <2>1, <2>2, Frame
  <1>3. CASE /\ record' = [record EXCEPT ![s] = "refunded"]
             /\ paid' = paid
             /\ \/ NoFault /\ Goto(s, "refundExtra") /\ KeepSession
                \/ faults' = [faults EXCEPT ![s] = @ \cup {"refundAck"}] /\ RetryRefund(s)
    <2>1. /\ record'[s] = "refunded"
          /\ faults'[s] = faults[s] \/ faults'[s] = faults[s] \cup {"refundAck"}
          /\ \A t \in Sessions \ {s} : record'[t] = record[t] /\ faults'[t] = faults[t]
      BY <1>3 DEF NoFault, TypeOK, RowsTypeOK
    <2>2. /\ UNCHANGED <<req, ses, paid>> /\ pc'[s] \in {"refund", "refundExtra"}
          /\ loc'[s].arg = loc[s].arg
          /\ \A t \in Sessions \ {s} : pc'[t] = pc[t] /\ loc'[t] = loc[t]
      BY <1>3, RetryRefundValues, GotoValues DEF KeepSession
    <2>3. Local(s)
      BY <2>1, <2>2 DEF Local
    <2>4. AccountOf(s)'
      BY <1>0, <1>1, <2>1, <2>2
    <2> QED
      BY <2>3, <2>4, Frame
  <1> QED
    BY <1>2, <1>3 DEF SaveRefundRecord

LEMMA RefundExtraReservedAccount ==
    ASSUME TypeOK, Accounting, NEW s \in Sessions, RefundExtraReserved(s)
    PROVE  Accounting'
  <1>0. AccountOf(s) /\ Amounts(s)
    BY AccountNow
  <1>1. /\ pc[s] = "refundExtra" /\ pc'[s] = "refundToken" /\ Goto(s, "refundToken")
        /\ UNCHANGED <<req, loc, ses>> /\ -ses[s].extraReserved \in Int
    BY <1>0, GotoValues DEF RefundExtraReserved, KeepSession
  <1>2. CASE PostConsumeUserSubscriptionDelta(s, -ses[s].extraReserved)
    <2>1. /\ UNCHANGED <<faults, record>> /\ Local(s)
          /\ paid'[s].sub = paid[s].sub - ses[s].extraReserved
          /\ paid'[s].wallet = paid[s].wallet /\ paid'[s].token = paid[s].token
      BY <1>0, <1>1, <1>2, SubscriptionDeltaValues, GotoValues DEF Local
    <2>2. AccountOf(s)'
      BY <1>0, <1>1, <2>1
    <2> QED
      BY <2>1, <2>2, Frame
  <1>3. CASE Fault(s, "refundExtra")
    <2>1. /\ UNCHANGED <<paid, record>> /\ Local(s)
          /\ faults'[s] = faults[s] \cup {"refundExtra"}
      BY <1>1, <1>3, FaultValues, GotoValues DEF Local
    <2>2. AccountOf(s)'
      BY <1>0, <1>1, <2>1
    <2> QED
      BY <2>1, <2>2, Frame
  <1>4. CASE ~(ses[s].extraReserved > 0) /\ NoCharge(s)
    <2>1. UNCHANGED <<paid, faults, record>> /\ Local(s)
      BY <1>1, <1>4, NoChargeValues, GotoValues DEF Local
    <2>2. AccountOf(s)'
      BY <1>0, <1>1, <1>4, <2>1
    <2> QED
      BY <2>1, <2>2, Frame
  <1> QED
    BY <1>2, <1>3, <1>4 DEF RefundExtraReserved

LEMMA RefundTokenAccount ==
    ASSUME TypeOK, Accounting, NEW s \in Sessions, RefundToken(s)
    PROVE  Accounting'
  <1>0. AccountOf(s) /\ Amounts(s)
    BY AccountNow
  <1>1. /\ pc[s] = "refundToken" /\ pc'[s] = "closed" /\ Goto(s, "closed")
        /\ UNCHANGED <<req, loc, ses>> /\ -ses[s].tokenConsumed \in Int
    BY <1>0, GotoValues DEF RefundToken, KeepSession
  <1>2. CASE ~IsPlayground(s) /\ ChargeToken(s, -ses[s].tokenConsumed)
    <2>1. /\ UNCHANGED <<faults, record>> /\ Local(s)
          /\ paid'[s].token = paid[s].token - ses[s].tokenConsumed
          /\ paid'[s].wallet = paid[s].wallet /\ paid'[s].sub = paid[s].sub
      BY <1>0, <1>1, <1>2, ChargeTokenValues, GotoValues DEF Local
    <2>2. AccountOf(s)'
      BY <1>0, <1>1, <1>2, <2>1 DEF IsPlayground
    <2> QED
      BY <2>1, <2>2, Frame
  <1>3. CASE Fault(s, "refundToken")
    <2>1. /\ UNCHANGED <<paid, record>> /\ Local(s)
          /\ faults'[s] = faults[s] \cup {"refundToken"}
      BY <1>1, <1>3, FaultValues, GotoValues DEF Local
    <2>2. AccountOf(s)'
      BY <1>0, <1>1, <2>1
    <2> QED
      BY <2>1, <2>2, Frame
  <1>4. CASE ~(ses[s].tokenConsumed > 0 /\ ~IsPlayground(s)) /\ NoCharge(s)
    <2>1. UNCHANGED <<paid, faults, record>> /\ Local(s)
      BY <1>1, <1>4, NoChargeValues, GotoValues DEF Local
    <2>2. AccountOf(s)'
      BY <1>0, <1>1, <1>4, <2>1 DEF IsPlayground
    <2> QED
      BY <2>1, <2>2, Frame
  <1> QED
    BY <1>2, <1>3, <1>4 DEF RefundToken

LEMMA EndAccount ==
    ASSUME TypeOK, Accounting, NEW s \in Sessions, HandlerReturns(s) \/ Lost(s)
    PROVE  Accounting'
  <1>0. AccountOf(s) /\ Amounts(s)
    BY AccountNow
  <1>1. UNCHANGED <<req, loc, ses, paid, faults, record>>
    BY NoChargeValues DEF HandlerReturns, Lost, KeepSession
  <1>2. Local(s)
    BY <1>1, GotoValues DEF HandlerReturns, Lost, Local
  <1>3. CASE pc[s] = "live" /\ pc'[s] = "closed"
    <2>1. AccountOf(s)'
      BY <1>0, <1>1, <1>3
    <2> QED
      BY <1>2, <2>1, Frame
  <1>4. CASE pc[s] \notin EndPcs \cup {"idle"} /\ pc'[s] = "lost"
    <2>1. pc[s] \in Pcs
      BY FieldTypes
    <2>2. AccountLost(pc[s], ses[s], loc[s].arg, req[s].opts, paid[s], faults[s])'
      BY <1>0, <1>1, <1>4, <2>1 DEF Pcs, EndPcs
    <2>3. AccountOf(s)'
      BY <1>4, <2>2
    <2> QED
      BY <1>2, <2>3, Frame
  <1> QED
    BY <1>3, <1>4, GotoValues DEF HandlerReturns, Lost

LEMMA InitAccount == Init => Accounting
  BY DEF Init, Accounting, NewSession, NewLocals, NewRequest

\* Every step of the system keeps the accounts in order.
LEMMA NextAccount ==
    ASSUME TypeOK, Accounting, [Next]_vars
    PROVE  Accounting'
  <1>1. CASE UNCHANGED vars
    BY <1>1 DEF vars, Accounting
  <1>2. ASSUME NEW u \in Subs, ExpireSubscription(u)
        PROVE  Accounting'
    BY <1>2 DEF ExpireSubscription, Accounting
  <1>9. ASSUME NEW s \in Sessions, ReadSubscription(s)
        PROVE  Accounting'
    BY <1>9 DEF ReadSubscription, Accounting, rows
  <1>3. ASSUME NEW s \in Sessions, Call(s)
        PROVE  Accounting'
    BY <1>3, NewBillingSessionAccount, ReserveAccount, SettleAccount, RefundAccount, EndAccount
    DEF Call
  <1>4. ASSUME NEW s \in Sessions, PreConsumeStep(s)
        PROVE  Accounting'
    BY <1>4, CheckWalletAccount, CheckTokenAccount, TakeTokenAccount, FundFromWalletAccount,
       FundFromSubscriptionAccount, RollbackTokenAccount
    DEF PreConsumeStep
  <1>5. ASSUME NEW s \in Sessions, ReserveStep(s)
        PROVE  Accounting'
    BY <1>5, ReserveFundingAccount, ReserveTokenAccount, RollbackFundingReserveAccount
    DEF ReserveStep
  <1>6. ASSUME NEW s \in Sessions, SettleStep(s)
        PROVE  Accounting'
    BY <1>6, SettleFundingAccount, SettleTokenAccount DEF SettleStep
  <1>7. ASSUME NEW s \in Sessions, RefundStep(s)
        PROVE  Accounting'
    BY <1>7, RefundWalletAccount, RefundSubscriptionAccount, SaveRefundRecordAccount,
       RefundExtraReservedAccount, RefundTokenAccount
    DEF RefundStep
  <1>8. ASSUME NEW s \in Sessions, Lost(s)
        PROVE  Accounting'
    BY <1>8, EndAccount
  <1> QED
    BY <1>1, <1>2, <1>3, <1>4, <1>5, <1>6, <1>7, <1>8, <1>9 DEF Next

(***************************************************************************)
(* At every moment, for any number of concurrent requests and any failing  *)
(* writes, what a request has taken from each row is what its session says *)
(* it has taken.                                                           *)
(***************************************************************************)
THEOREM AccountingCorrect == Spec => []Accounting
  BY InitType, NextType, InitAccount, NextAccount, PTL DEF Spec

-----------------------------------------------------------------------------
(* What each outcome costs follows from the accounts. *)

LEMMA SettledFromAccount ==
    ASSUME TypeOK, Accounting
    PROVE  SettledPaysActual
  <1> SUFFICES ASSUME NEW s \in Sessions, "settled" \in ses[s].flags
               PROVE  /\ NoFaultIn(s, {"reserveUndo"}) => FundingPaid(s) = loc[s].arg
                      /\ OtherPaid(s) = 0
                      /\ NoFaultIn(s, {"rollbackToken", "settleToken"}) =>
                            paid[s].token = IF IsPlayground(s) THEN 0 ELSE loc[s].arg
    BY DEF SettledPaysActual
  <1>1. AccountOf(s) /\ pc[s] \in Pcs
    BY AccountNow, FieldTypes
  <1>2. pc[s] \in LivePcs \cup {"lost"} /\ (pc[s] # "lost" => "refunded" \notin ses[s].flags)
    BY <1>1 DEF Pcs, EndPcs
  <1>3. FundingPaid(s) = OwnPaid(ses[s], paid[s])
    BY DEF FundingPaid
  <1>4. NoFaultIn(s, {"reserveUndo"}) => FundingPaid(s) = loc[s].arg
    BY <1>1, <1>2, <1>3 DEF NoFaultIn
  <1>5. OtherPaid(s) = 0
    BY <1>1, <1>2 DEF OtherPaid
  <1>6. ASSUME NoFaultIn(s, {"rollbackToken", "settleToken"})
        PROVE  paid[s].token = IF IsPlayground(s) THEN 0 ELSE loc[s].arg
    <2>1. "rollbackToken" \notin faults[s] /\ "settleToken" \notin faults[s]
      BY <1>6 DEF NoFaultIn
    <2> QED
      BY <1>1, <1>2, <2>1 DEF IsPlayground
  <1> QED
    BY <1>4, <1>5, <1>6

LEMMA RefundFromAccount ==
    ASSUME TypeOK, Accounting
    PROVE  RefundReturnsAll
  <1> SUFFICES ASSUME NEW s \in Sessions, pc[s] = "closed", "refunded" \in ses[s].flags
               PROVE  /\ ses[s].funding = "wallet" /\ NoFaultIn(s, {"refundFunding"})
                            => paid[s].wallet = 0
                      /\ ses[s].funding = "subscription" /\ NoFaultIn(s, SubscriptionRefundFaults)
                            => paid[s].sub = 0
                      /\ OtherPaid(s) = 0
                      /\ NoFaultIn(s, {"rollbackToken", "refundToken"}) => paid[s].token = 0
    BY DEF RefundReturnsAll
  <1>1. AccountOf(s)
    BY AccountNow
  <1>2. ses[s].funding = "wallet" /\ NoFaultIn(s, {"refundFunding"}) => paid[s].wallet = 0
    BY <1>1 DEF NoFaultIn
  <1>3. ses[s].funding = "subscription" /\ NoFaultIn(s, SubscriptionRefundFaults)
            => paid[s].sub = 0
    BY <1>1 DEF NoFaultIn
  <1>4. OtherPaid(s) = 0
    BY <1>1 DEF OtherPaid
  <1>5. NoFaultIn(s, {"rollbackToken", "refundToken"}) => paid[s].token = 0
    BY <1>1 DEF NoFaultIn
  <1> QED
    BY <1>2, <1>3, <1>4, <1>5

LEMMA OthersFromAccount ==
    ASSUME TypeOK, Accounting
    PROVE  RejectedPaysNothing /\ NeverOverRefunded
  <1>1. ASSUME NEW s \in Sessions, pc[s] = "rejected"
        PROVE  /\ paid[s].wallet = 0 /\ paid[s].sub = 0
               /\ NoFaultIn(s, {"rollbackToken"}) => paid[s].token = 0
    BY <1>1, AccountNow DEF NoFaultIn
  <1>2. ASSUME NEW s \in Sessions
        PROVE  /\ paid[s].wallet >= 0 /\ paid[s].token >= 0
               /\ NoFaultIn(s, {"refundSave"}) => paid[s].sub >= 0
    <2>1. AccountOf(s) /\ Amounts(s) /\ pc[s] \in Pcs
      BY AccountNow, FieldTypes
    <2>2. CASE pc[s] \in {"idle", "rejected"} \cup PreConsumePcs
      BY <2>1, <2>2
    <2>3. CASE pc[s] = "lost"
      BY <2>1, <2>3 DEF NoFaultIn
    <2>4. CASE pc[s] \in LivePcs
      BY <2>1, <2>4 DEF NoFaultIn
    <2> QED
      BY <2>1, <2>2, <2>3, <2>4 DEF Pcs, EndPcs
  <1> QED
    BY <1>1, <1>2 DEF RejectedPaysNothing, NeverOverRefunded

(***************************************************************************)
(* A settled request has paid its actual quota, once: from its source and  *)
(* from the token, up to the roll-backs and adjustments that were lost.    *)
(***************************************************************************)
THEOREM SettleCorrect == Spec => []SettledPaysActual
  BY InitType, NextType, InitAccount, NextAccount, SettledFromAccount, PTL DEF Spec

(***************************************************************************)
(* A refunded request has got back all it took, whatever was reserved in   *)
(* between and however often the refund was retried.                       *)
(***************************************************************************)
THEOREM RefundCorrect == Spec => []RefundReturnsAll
  BY InitType, NextType, InitAccount, NextAccount, RefundFromAccount, PTL DEF Spec

(***************************************************************************)
(* A request that NewBillingSession rejects has paid nothing.              *)
(***************************************************************************)
THEOREM RejectCorrect == Spec => []RejectedPaysNothing
  BY InitType, NextType, InitAccount, NextAccount, OthersFromAccount, PTL DEF Spec

(***************************************************************************)
(* No request ever gets back more than it took.                            *)
(***************************************************************************)
THEOREM NoOverRefund == Spec => []NeverOverRefunded
  BY InitType, NextType, InitAccount, NextAccount, OthersFromAccount, PTL DEF Spec

-----------------------------------------------------------------------------
(* Sums over finite sets.  SumFunctionOnSet is a fold that removes one      *)
(* chosen element at a time; the lemmas show that its recursion has a       *)
(* solution and that the sum does not depend on the choice.  Induction over *)
(* sets is written as the absence of a smallest counterexample (Smallest).  *)
IntegerOn(f, D) == \A x \in D : f[x] \in Int

Pick(S) == CHOOSE x \in S : TRUE

\* R has the empty set with sum 0, and with a set also the set with one more.
Adds(f, D, R) ==
    /\ <<{}, 0>> \in R
    /\ \A S \in SUBSET D : \A v \in Int : \A x \in D \ S :
          <<S, v>> \in R => <<S \cup {x}, v + f[x]>> \in R

Pairs(D) == (SUBSET D) \X Int

\* The least such relation.
Sums(f, D) == {p \in Pairs(D) : \A R \in SUBSET Pairs(D) : Adds(f, D, R) => p \in R}

SumIs(f, D, S, v) == <<S, v>> \in Sums(f, D)

LEMMA SumEmpty == ASSUME NEW f, NEW D PROVE SumIs(f, D, {}, 0)
  BY DEF SumIs, Sums, Adds, Pairs

LEMMA SumAdd ==
    ASSUME NEW D, NEW f, IntegerOn(f, D), NEW S \in SUBSET D, NEW v \in Int, NEW x \in D, x \notin S,
           SumIs(f, D, S, v)
    PROVE  SumIs(f, D, S \cup {x}, v + f[x])
  <1>1. ASSUME NEW R \in SUBSET Pairs(D), Adds(f, D, R)
        PROVE  <<S \cup {x}, v + f[x]>> \in R
    <2>1. <<S, v>> \in R
      BY <1>1 DEF SumIs, Sums
    <2> QED
      BY <1>1, <2>1 DEF Adds
  <1>2. <<S \cup {x}, v + f[x]>> \in Pairs(D)
    BY DEF Pairs, IntegerOn
  <1> QED
    BY <1>1, <1>2 DEF SumIs, Sums

LEMMA SumOfEmpty ==
    ASSUME NEW D, NEW f, IntegerOn(f, D), NEW v \in Int, SumIs(f, D, {}, v)
    PROVE  v = 0
  <1> DEFINE R == {p \in Pairs(D) : p[1] = {} => p[2] = 0}
  <1>1. <<{}, 0>> \in R
    BY DEF Pairs
  <1>2. ASSUME NEW S \in SUBSET D, NEW w \in Int, NEW x \in D \ S, <<S, w>> \in R
        PROVE  <<S \cup {x}, w + f[x]>> \in R
    <2>1. S \cup {x} # {}
      OBVIOUS
    <2> QED
      BY <2>1 DEF Pairs, IntegerOn
  <1>3. Adds(f, D, R)
    BY <1>1, <1>2 DEF Adds
  <1>4. <<{}, v>> \in R
    BY <1>3 DEF SumIs, Sums
  <1> QED
    BY <1>4

LEMMA SumRemove ==
    ASSUME NEW D, NEW f, IntegerOn(f, D), NEW S \in SUBSET D, NEW v \in Int, NEW j \in S,
           SumIs(f, D, S, v)
    PROVE  SumIs(f, D, S \ {j}, v - f[j])
  <1> DEFINE R == {p \in Pairs(D) : p \in Sums(f, D) /\ \A k \in p[1] : SumIs(f, D, p[1] \ {k}, p[2] - f[k])}
  <1>1. <<{}, 0>> \in R
    BY SumEmpty DEF SumIs, Pairs
  <1>2. ASSUME NEW T \in SUBSET D, NEW w \in Int, NEW x \in D, x \notin T, <<T, w>> \in R
        PROVE  <<T \cup {x}, w + f[x]>> \in R
    <2>1. SumIs(f, D, T, w) /\ \A k \in T : SumIs(f, D, T \ {k}, w - f[k])
      BY <1>2 DEF SumIs
    <2>2. SumIs(f, D, T \cup {x}, w + f[x])
      BY <1>2, <2>1, SumAdd
    <2>3. ASSUME NEW k \in T \cup {x}
          PROVE  SumIs(f, D, (T \cup {x}) \ {k}, (w + f[x]) - f[k])
      <3>1. CASE k = x
        <4>1. (T \cup {x}) \ {k} = T /\ (w + f[x]) - f[k] = w
          BY <1>2, <3>1 DEF IntegerOn
        <4> QED
          BY <2>1, <4>1
      <3>2. CASE k # x
        <4>1. SumIs(f, D, (T \ {k}) \cup {x}, (w - f[k]) + f[x])
          <5>1. T \ {k} \in SUBSET D /\ w - f[k] \in Int /\ x \notin T \ {k} /\ SumIs(f, D, T \ {k}, w - f[k])
            BY <1>2, <2>1, <3>2 DEF IntegerOn
          <5> QED
            BY <5>1, SumAdd
        <4>2. (T \cup {x}) \ {k} = (T \ {k}) \cup {x} /\ (w + f[x]) - f[k] = (w - f[k]) + f[x]
          BY <3>2 DEF IntegerOn
        <4> QED
          BY <4>1, <4>2
      <3> QED
        BY <3>1, <3>2
    <2>4. <<T \cup {x}, w + f[x]>> \in Pairs(D)
      BY DEF Pairs, IntegerOn
    <2> QED
      BY <2>2, <2>3, <2>4 DEF SumIs
  <1>3. Adds(f, D, R)
    BY <1>1, <1>2 DEF Adds
  <1>4. <<S, v>> \in R
    BY <1>3 DEF SumIs, Sums
  <1> QED
    BY <1>4

LEMMA Smallest ==
    ASSUME NEW D, IsFiniteSet(D), NEW T \in SUBSET (SUBSET D), T # {}
    PROVE  \E U \in T : \A V \in SUBSET U : V # U => V \notin T
  <1>1. T \subseteq FiniteSubsetsOf(D)
    BY FS_Subset DEF FiniteSubsetsOf
  <1>2. PICK U \in T : \A V \in T : ~(<<V, U>> \in StrictSubsetOrdering(D))
    BY <1>1, FS_StrictSubsetOrderingWellFounded, WFMin
  <1> QED
    BY <1>2 DEF StrictSubsetOrdering

\* Every set has exactly one sum.
LEMMA SumExists ==
    ASSUME NEW D, IsFiniteSet(D), NEW f, IntegerOn(f, D), NEW S \in SUBSET D
    PROVE  \E v \in Int : SumIs(f, D, S, v)
  <1> DEFINE T == {U \in SUBSET D : ~\E v \in Int : SumIs(f, D, U, v)}
  <1> SUFFICES ASSUME T # {} PROVE FALSE
    OBVIOUS
  <1>0. T \in SUBSET (SUBSET D)
    OBVIOUS
  <1>1. PICK U \in T : \A V \in SUBSET U : V # U => V \notin T
    <2> HIDE DEF T
    <2> QED
      BY <1>0, Smallest
  <1>2. U # {}
    BY SumEmpty
  <1>3. PICK x \in U : TRUE
    BY <1>2
  <1>4. PICK v \in Int : SumIs(f, D, U \ {x}, v)
    BY <1>1
  <1>5. SumIs(f, D, (U \ {x}) \cup {x}, v + f[x])
    BY <1>4, SumAdd
  <1>6. (U \ {x}) \cup {x} = U /\ v + f[x] \in Int
    BY DEF IntegerOn
  <1>7. SumIs(f, D, U, v + f[x])
    BY <1>5, <1>6
  <1> QED
    BY <1>6, <1>7

LEMMA SumUnique ==
    ASSUME NEW D, IsFiniteSet(D), NEW f, IntegerOn(f, D), NEW S \in SUBSET D,
           NEW v \in Int, NEW w \in Int, SumIs(f, D, S, v), SumIs(f, D, S, w)
    PROVE  v = w
  <1> DEFINE T == {U \in SUBSET D : \E a, b \in Int : SumIs(f, D, U, a) /\ SumIs(f, D, U, b) /\ a # b}
  <1> SUFFICES ASSUME T # {} PROVE FALSE
    OBVIOUS
  <1>0. T \in SUBSET (SUBSET D)
    OBVIOUS
  <1>1. PICK U \in T : \A V \in SUBSET U : V # U => V \notin T
    <2> HIDE DEF T
    <2> QED
      BY <1>0, Smallest
  <1>2. PICK a \in Int, b \in Int : SumIs(f, D, U, a) /\ SumIs(f, D, U, b) /\ a # b
    OBVIOUS
  <1>3. U # {}
    BY <1>2, SumOfEmpty
  <1>4. PICK x \in U : TRUE
    BY <1>3
  <1>5. SumIs(f, D, U \ {x}, a - f[x]) /\ SumIs(f, D, U \ {x}, b - f[x])
    BY <1>2, SumRemove
  <1>6. a - f[x] = b - f[x]
    BY <1>1, <1>5 DEF IntegerOn
  <1> QED
    BY <1>2, <1>6 DEF IntegerOn

\* What SumFunctionOnSet(f, D) unfolds to.
Solves(f, D, g) ==
    g = [S \in SUBSET D |-> IF S = {} THEN 0 ELSE f[Pick(S)] + g[S \ {Pick(S)}]]

LEMMA SumUnfolds ==
    ASSUME NEW f, NEW D
    PROVE  SumFunctionOnSet(f, D) = (CHOOSE g : Solves(f, D, g))[D]
  BY DEF SumFunctionOnSet, FoldFunctionOnSet, MapThenFoldSet, Solves, Pick

LEMMA SolutionExists ==
    ASSUME NEW D, IsFiniteSet(D), NEW f, IntegerOn(f, D)
    PROVE  \E g : Solves(f, D, g)
  <1> DEFINE g == [S \in SUBSET D |-> CHOOSE v \in Int : SumIs(f, D, S, v)]
  <1>1. \A S \in SUBSET D : g[S] \in Int /\ SumIs(f, D, S, g[S])
    BY SumExists
  <1>2. g[{}] = 0
    BY <1>1, SumOfEmpty
  <1>3. ASSUME NEW S \in SUBSET D, S # {}
        PROVE  g[S] = f[Pick(S)] + g[S \ {Pick(S)}]
    <2>1. Pick(S) \in S
      BY <1>3 DEF Pick
    <2>2. SumIs(f, D, S \ {Pick(S)}, g[S] - f[Pick(S)])
      BY <1>1, <2>1, SumRemove
    <2>3. g[S] - f[Pick(S)] = g[S \ {Pick(S)}]
      <3> HIDE DEF g
      <3>1. S \ {Pick(S)} \in SUBSET D /\ g[S] - f[Pick(S)] \in Int
        BY <1>1, <2>1 DEF IntegerOn
      <3>2. g[S \ {Pick(S)}] \in Int /\ SumIs(f, D, S \ {Pick(S)}, g[S \ {Pick(S)}])
        BY <1>1, <3>1
      <3> QED
        BY <2>2, <3>1, <3>2, SumUnique
    <2> QED
      BY <1>1, <2>1, <2>3 DEF IntegerOn
  <1>4. Solves(f, D, g)
    <2> HIDE DEF g
    <2>1. g = [S \in SUBSET D |-> g[S]]
      BY DEF g
    <2> QED
      BY <1>2, <1>3, <2>1 DEF Solves
  <1> QED
    BY <1>4

LEMMA SumFunctionIs ==
    ASSUME NEW D, IsFiniteSet(D), NEW f, IntegerOn(f, D)
    PROVE  SumFunctionOnSet(f, D) \in Int /\ SumIs(f, D, D, SumFunctionOnSet(f, D))
  <1> DEFINE g == CHOOSE h : Solves(f, D, h)
             T == {U \in SUBSET D : ~(g[U] \in Int /\ SumIs(f, D, U, g[U]))}
  <1>1. Solves(f, D, g)
    BY SolutionExists
  <1>2. ASSUME T # {} PROVE FALSE
    <2>0. T \in SUBSET (SUBSET D)
      OBVIOUS
    <2>1. PICK U \in T : \A V \in SUBSET U : V # U => V \notin T
      <3> HIDE DEF T
      <3> QED
        BY <1>2, <2>0, Smallest
    <2> HIDE DEF g
    <2>2. g[U] = IF U = {} THEN 0 ELSE f[Pick(U)] + g[U \ {Pick(U)}]
      BY <1>1 DEF Solves
    <2>3. U # {}
      BY <2>2, SumEmpty DEF IntegerOn
    <2>4. Pick(U) \in U
      BY <2>3 DEF Pick
    <2>5. g[U \ {Pick(U)}] \in Int /\ SumIs(f, D, U \ {Pick(U)}, g[U \ {Pick(U)}])
      BY <2>1, <2>4
    <2>6. SumIs(f, D, (U \ {Pick(U)}) \cup {Pick(U)}, g[U \ {Pick(U)}] + f[Pick(U)])
      BY <2>4, <2>5, SumAdd
    <2>7. (U \ {Pick(U)}) \cup {Pick(U)} = U
      BY <2>4
    <2>8. g[U] = g[U \ {Pick(U)}] + f[Pick(U)] /\ g[U] \in Int
      BY <2>2, <2>3, <2>4, <2>5 DEF IntegerOn
    <2>9. SumIs(f, D, U, g[U])
      BY <2>6, <2>7, <2>8
    <2> QED
      BY <2>8, <2>9
  <1>3. g[D] \in Int /\ SumIs(f, D, D, g[D])
    BY <1>2
  <1> QED
    BY <1>3, SumUnfolds
\* The sum over a set does not depend on the larger set.
LEMMA SumWider ==
    ASSUME NEW f, NEW D, NEW E \in SUBSET D, NEW S, NEW v, SumIs(f, E, S, v)
    PROVE  SumIs(f, D, S, v)
  <1>1. <<S, v>> \in Pairs(E)
    BY DEF SumIs, Sums
  <1>2. <<S, v>> \in Pairs(D)
    BY <1>1 DEF Pairs
  <1>3. ASSUME NEW R \in SUBSET Pairs(D), Adds(f, D, R)
        PROVE  <<S, v>> \in R
    <2> DEFINE Q == {p \in Pairs(E) : p \in R}
    <2>1. <<{}, 0>> \in Q
      BY <1>3 DEF Adds, Pairs
    <2>2. ASSUME NEW U \in SUBSET E, NEW w \in Int, NEW x \in E \ U, <<U, w>> \in Q
          PROVE  <<U \cup {x}, w + f[x]>> \in Q
      <3>1. <<U \cup {x}, w + f[x]>> \in R
        BY <1>3, <2>2 DEF Adds
      <3>2. w + f[x] \in Int /\ U \cup {x} \in SUBSET E
        BY <3>1 DEF Pairs
      <3> QED
        BY <3>1, <3>2 DEF Pairs
    <2>3. Adds(f, E, Q)
      BY <2>1, <2>2 DEF Adds
    <2>4. Q \in SUBSET Pairs(E)
      OBVIOUS
    <2>5. <<S, v>> \in Q
      BY <2>3, <2>4 DEF SumIs, Sums
    <2> QED
      BY <2>5
  <1> QED
    BY <1>2, <1>3 DEF SumIs, Sums

Total(f, S) == SumFunctionOnSet(f, S)

LEMMA TotalType ==
    ASSUME NEW D, IsFiniteSet(D), NEW f, IntegerOn(f, D)
    PROVE  Total(f, D) \in Int
  BY SumFunctionIs DEF Total

LEMMA TotalEmpty == ASSUME NEW f PROVE Total(f, {}) = 0
  <1>1. IsFiniteSet({}) /\ IntegerOn(f, {})
    BY FS_EmptySet DEF IntegerOn
  <1> QED
    BY <1>1, SumFunctionIs, SumOfEmpty DEF Total

LEMMA TotalPeel ==
    ASSUME NEW D, IsFiniteSet(D), NEW f, IntegerOn(f, D), NEW x \in D
    PROVE  Total(f, D) = f[x] + Total(f, D \ {x})
  <1> DEFINE E == D \ {x}
             v == SumFunctionOnSet(f, D)
             w == SumFunctionOnSet(f, E)
  <1>1. E \in SUBSET D /\ IsFiniteSet(E) /\ IntegerOn(f, E)
    BY FS_RemoveElement DEF IntegerOn
  <1>2. v \in Int /\ SumIs(f, D, D, v)
    BY SumFunctionIs
  <1>3. w \in Int /\ SumIs(f, E, E, w)
    <2> HIDE DEF E
    <2> QED
      BY <1>1, SumFunctionIs
  <1> HIDE DEF v, w
  <1>4. SumIs(f, D, E, v - f[x])
    BY <1>2, SumRemove
  <1> HIDE DEF E
  <1>5. SumIs(f, D, E, w)
    BY <1>1, <1>3, SumWider
  <1>6. v - f[x] \in Int
    BY <1>2 DEF IntegerOn
  <1>7. v - f[x] = w
    BY <1>1, <1>3, <1>4, <1>5, <1>6, SumUnique
  <1> QED
    BY <1>2, <1>3, <1>7 DEF Total, v, w, E, IntegerOn

\* Functions that agree have the same sum.
LEMMA TotalSame ==
    ASSUME NEW D, IsFiniteSet(D), NEW f, NEW g, IntegerOn(f, D), \A x \in D : g[x] = f[x]
    PROVE  Total(g, D) = Total(f, D)
  <1> DEFINE T == {U \in SUBSET D : Total(g, U) # Total(f, U)}
  <1> SUFFICES ASSUME T # {} PROVE FALSE
    OBVIOUS
  <1>0. T \in SUBSET (SUBSET D)
    OBVIOUS
  <1>1. PICK U \in T : \A V \in SUBSET U : V # U => V \notin T
    <2> HIDE DEF T
    <2> QED
      BY <1>0, Smallest
  <1>2. U # {}
    BY TotalEmpty
  <1>3. PICK x \in U : TRUE
    BY <1>2
  <1>4. IsFiniteSet(U) /\ IntegerOn(f, U) /\ IntegerOn(g, U)
    BY FS_Subset DEF IntegerOn
  <1>5. Total(f, U) = f[x] + Total(f, U \ {x}) /\ Total(g, U) = g[x] + Total(g, U \ {x})
    BY <1>4, TotalPeel
  <1>6. Total(g, U \ {x}) = Total(f, U \ {x})
    BY <1>1
  <1> QED
    BY <1>5, <1>6

\* Elements with value zero do not count.
LEMMA TotalSupport ==
    ASSUME NEW D, IsFiniteSet(D), NEW f, IntegerOn(f, D), NEW E \in SUBSET D,
           \A x \in D \ E : f[x] = 0
    PROVE  Total(f, D) = Total(f, E)
  <1> DEFINE T == {U \in SUBSET D : E \subseteq U /\ Total(f, U) # Total(f, E)}
  <1> SUFFICES ASSUME T # {} PROVE FALSE
    OBVIOUS
  <1>0. T \in SUBSET (SUBSET D)
    OBVIOUS
  <1>1. PICK U \in T : \A V \in SUBSET U : V # U => V \notin T
    <2> HIDE DEF T
    <2> QED
      BY <1>0, Smallest
  <1>2. PICK x \in U : x \notin E
    OBVIOUS
  <1>3. IsFiniteSet(U) /\ IntegerOn(f, U) /\ IsFiniteSet(U \ {x}) /\ IntegerOn(f, U \ {x})
    BY FS_Subset DEF IntegerOn
  <1>4. Total(f, U) = f[x] + Total(f, U \ {x}) /\ Total(f, U \ {x}) \in Int
    BY <1>3, TotalPeel, TotalType
  <1>5. Total(f, U \ {x}) = Total(f, E)
    BY <1>1, <1>2
  <1>6. f[x] = 0
    BY <1>2
  <1> QED
    BY <1>4, <1>5, <1>6

LEMMA TotalNatural ==
    ASSUME NEW D, IsFiniteSet(D), NEW f, \A x \in D : f[x] \in Nat
    PROVE  Total(f, D) \in Nat
  <1> DEFINE T == {U \in SUBSET D : Total(f, U) \notin Nat}
  <1> SUFFICES ASSUME T # {} PROVE FALSE
    OBVIOUS
  <1>0. T \in SUBSET (SUBSET D)
    OBVIOUS
  <1>1. PICK U \in T : \A V \in SUBSET U : V # U => V \notin T
    <2> HIDE DEF T
    <2> QED
      BY <1>0, Smallest
  <1>2. U # {}
    BY TotalEmpty
  <1>3. PICK x \in U : TRUE
    BY <1>2
  <1>4. IsFiniteSet(U) /\ IntegerOn(f, U) /\ f[x] \in Nat
    BY FS_Subset DEF IntegerOn
  <1>5. Total(f, U) = f[x] + Total(f, U \ {x})
    BY <1>4, TotalPeel
  <1>6. Total(f, U \ {x}) \in Nat
    BY <1>1
  <1> QED
    BY <1>4, <1>5, <1>6

\* A change of one value.
LEMMA TotalUpdate ==
    ASSUME NEW D, IsFiniteSet(D), NEW f, NEW g, IntegerOn(f, D), IntegerOn(g, D), NEW x \in D,
           \A y \in D : y # x => g[y] = f[y]
    PROVE  Total(g, D) = Total(f, D) + (g[x] - f[x])
  <1> DEFINE E == D \ {x}
  <1>1. IsFiniteSet(E) /\ IntegerOn(f, E) /\ \A y \in E : g[y] = f[y]
    BY FS_RemoveElement DEF IntegerOn
  <1>2. Total(f, D) = f[x] + Total(f, E) /\ Total(g, D) = g[x] + Total(g, E)
    BY TotalPeel
  <1> HIDE DEF E
  <1>3. Total(g, E) = Total(f, E) /\ Total(f, E) \in Int
    BY <1>1, TotalSame, TotalType
  <1> QED
    BY <1>2, <1>3 DEF IntegerOn

-----------------------------------------------------------------------------
(* The books: what the three shared rows hold in terms of what each request *)
(* has paid.                                                                *)

WalletPaid == [s \in Sessions |-> paid[s].wallet]
TokenPaid == [s \in Sessions |-> paid[s].token]
SubPaid(u) == [s \in Sessions |-> IF subId[s] = u THEN paid[s].sub ELSE 0]

(***************************************************************************)
(* The wallet and the token row differ from their initial values by        *)
(* exactly what the requests have paid, at every moment and whatever       *)
(* fails.  A subscription holds what its requests have paid while no write *)
(* has failed (the clamp at zero does nothing until then) and no two       *)
(* transactions have overlapped on it.                                     *)
(***************************************************************************)
Books ==
    /\ userQuota = InitUserQuota - Total(WalletPaid, Sessions)
    /\ tokenRemain = InitTokenQuota - Total(TokenPaid, Sessions)
    /\ nFaults = 0 =>
          /\ \A u \in Subs \ overwritten : subUsed[u] = Total(SubPaid(u), Sessions)
          /\ \A s \in Sessions : faults[s] = {}

\* A step that moves no money.
RowsKept == UNCHANGED <<userQuota, tokenRemain, subUsed, subId, paid, overwritten>>

Clamp(n) == IF n < 0 THEN 0 ELSE n

\* A write to the subscription of the request, by pre-consume (which chooses
\* it) or by a delta.
ChargeSubscription(s, n) ==
    /\ subUsed' = [subUsed EXCEPT ![subId'[s]] = Clamp(txn[s].used[subId'[s]] + n)]
    /\ overwritten' = IF txn[s].used[subId'[s]] = subUsed[subId'[s]]
                      THEN overwritten ELSE overwritten \cup {subId'[s]}
    /\ paid' = [paid EXCEPT ![s].sub = @ + n]
    /\ subId'[s] = subId[s] \/ paid[s].sub = 0
    /\ \A t \in Sessions \ {s} : subId'[t] = subId[t]
    /\ NoFault
    /\ UNCHANGED <<userQuota, tokenRemain>>

\* A step writes one row, once, or fails, or writes none.
OneWrite(s) ==
    \/ RowsKept /\ NoFault
    \/ RowsKept /\ nFaults' = nFaults + 1
    \/ \E n \in Int : ChargeWallet(s, n) \/ ChargeToken(s, n) \/ ChargeSubscription(s, n)

LEMMA DeltaIsCharge ==
    ASSUME NEW s \in Sessions, NEW n \in Int, PostConsumeUserSubscriptionDelta(s, n)
    PROVE  ChargeSubscription(s, n)
  BY DEF PostConsumeUserSubscriptionDelta, ChargeSubscription, SaveSubscription, NewUsed, Clamp

LEMMA QuietStep ==
    ASSUME NEW s, NoCharge(s) \/ \E x : Fault(s, x)
    PROVE  (RowsKept /\ NoFault) \/ (RowsKept /\ nFaults' = nFaults + 1)
  BY DEF NoCharge, NoFault, RowsKept, rows, Fault

LEMMA EachStepWritesOnce ==
    ASSUME TypeOK, Accounting, NEW s \in Sessions,
           \/ Call(s) \/ PreConsumeStep(s) \/ ReserveStep(s)
           \/ SettleStep(s) \/ RefundStep(s) \/ Lost(s)
    PROVE  OneWrite(s)
  <1>1. /\ loc[s].arg \in Int /\ -loc[s].arg \in Int /\ SettleDelta(s) \in Int
        /\ -ses[s].preConsumed \in Int /\ -ses[s].extraReserved \in Int
        /\ -ses[s].tokenConsumed \in Int /\ -ses[s].consumed \in Int
    BY FieldTypes DEF SettleDelta
  <1>2. ASSUME \/ NoCharge(s) \/ \E x : Fault(s, x)
               \/ \E n \in Int : \/ ChargeWallet(s, n) \/ ChargeToken(s, n)
                                 \/ PostConsumeUserSubscriptionDelta(s, n)
        PROVE  OneWrite(s)
    BY <1>2, QuietStep, DeltaIsCharge DEF OneWrite
  <1>3. CASE Call(s) \/ Lost(s)
    BY <1>2, <1>3 DEF Call, NewBillingSession, Reserve, Settle, Refund, HandlerReturns, Lost
  <1>4. CASE PreConsumeStep(s) /\ ~FundFromSubscription(s)
    BY <1>1, <1>2, <1>4 DEF PreConsumeStep, CheckWallet, CheckToken, TakeToken, QueryFails,
       FundFromWallet, RollbackToken
  <1>5. CASE FundFromSubscription(s)
    <2>1. CASE NoCharge(s) \/ Fault(s, "other")
      BY <1>2, <2>1
    <2>2. CASE TakeSubscription(s)
      <3>1. PICK u \in Subs :
              /\ SaveSubscription(s, u, txn[s].used[u] + loc[s].arg)
              /\ subId' = [subId EXCEPT ![s] = u]
              /\ paid' = [paid EXCEPT ![s].sub = @ + loc[s].arg]
              /\ NoFault
        BY <2>2 DEF TakeSubscription, Fitting
      <3>2. /\ subId'[s] = u
            /\ \A t \in Sessions \ {s} : subId'[t] = subId[t]
        BY <3>1 DEF TypeOK, RowsTypeOK
      <3>3. paid[s].sub = 0
        BY <1>5, AccountNow DEF FundFromSubscription
      <3>4. Clamp(txn[s].used[u] + loc[s].arg) = txn[s].used[u] + loc[s].arg
        BY FieldTypes, TxnFields DEF Clamp
      <3>5. ChargeSubscription(s, loc[s].arg)
        BY <3>1, <3>2, <3>3, <3>4 DEF ChargeSubscription, SaveSubscription
      <3> QED
        BY <1>1, <3>5 DEF OneWrite
    <2> QED
      BY <1>5, <2>1, <2>2 DEF FundFromSubscription
  <1>6. CASE ReserveStep(s)
    BY <1>1, <1>2, <1>6 DEF ReserveStep, ReserveFunding, DeltaRefused, ReserveCheckToken, ReserveTakeToken,
       RollbackFundingReserve
  <1>7. CASE SettleStep(s)
    BY <1>1, <1>2, <1>7 DEF SettleStep, SettleFunding, DeltaRefused, SettleToken
  <1>8. CASE RefundStep(s) /\ ~SaveRefundRecord(s)
    BY <1>1, <1>2, <1>8 DEF RefundStep, RefundWallet, RefundSubscription,
       RefundExtraReserved, RefundToken
  <1>9. CASE SaveRefundRecord(s)
    BY <1>9 DEF SaveRefundRecord, OneWrite, RowsKept, Fault, rows
  <1> QED
    BY <1>3, <1>4, <1>5, <1>6, <1>7, <1>8, <1>9

LEMMA PaidAreIntegers ==
    ASSUME TypeOK
    PROVE  /\ IntegerOn(WalletPaid, Sessions) /\ IntegerOn(TokenPaid, Sessions)
           /\ \A u : IntegerOn(SubPaid(u), Sessions)
  BY PaidTypes DEF IntegerOn, WalletPaid, TokenPaid, SubPaid

LEMMA PaidTotals ==
    ASSUME TypeOK, IsFiniteSet(Sessions)
    PROVE  /\ Total(WalletPaid, Sessions) \in Int /\ Total(TokenPaid, Sessions) \in Int
           /\ \A u : Total(SubPaid(u), Sessions) \in Int
  BY PaidAreIntegers, TotalType

\* Each write moves a row and the history of its request by the same amount.
LEMMA ChargeWalletTotal ==
    ASSUME TypeOK, TypeOK', IsFiniteSet(Sessions), NEW s \in Sessions, NEW n \in Int,
           ChargeWallet(s, n)
    PROVE  /\ Total(WalletPaid', Sessions) = Total(WalletPaid, Sessions) + n
           /\ TokenPaid' = TokenPaid /\ \A u : SubPaid(u)' = SubPaid(u)
  <1>1. /\ paid'[s].wallet = paid[s].wallet + n
        /\ paid'[s].token = paid[s].token /\ paid'[s].sub = paid[s].sub
        /\ \A t \in Sessions \ {s} : paid'[t] = paid[t]
    BY ChargeWalletValues
  <1>2. TokenPaid' = TokenPaid /\ \A u : SubPaid(u)' = SubPaid(u)
    BY <1>1 DEF TokenPaid, SubPaid, ChargeWallet
  <1>3. /\ IntegerOn(WalletPaid, Sessions) /\ IntegerOn(WalletPaid', Sessions)
        /\ \A t \in Sessions : t # s => WalletPaid'[t] = WalletPaid[t]
        /\ WalletPaid'[s] - WalletPaid[s] = n
    BY <1>1, PaidTypes DEF IntegerOn, WalletPaid, TypeOK, RowsTypeOK
  <1>4. Total(WalletPaid', Sessions)
            = Total(WalletPaid, Sessions) + (WalletPaid'[s] - WalletPaid[s])
    BY <1>3, TotalUpdate
  <1> QED
    BY <1>2, <1>3, <1>4

LEMMA ChargeTokenTotal ==
    ASSUME TypeOK, TypeOK', IsFiniteSet(Sessions), NEW s \in Sessions, NEW n \in Int,
           ChargeToken(s, n)
    PROVE  /\ Total(TokenPaid', Sessions) = Total(TokenPaid, Sessions) + n
           /\ WalletPaid' = WalletPaid /\ \A u : SubPaid(u)' = SubPaid(u)
  <1>1. /\ paid'[s].token = paid[s].token + n
        /\ paid'[s].wallet = paid[s].wallet /\ paid'[s].sub = paid[s].sub
        /\ \A t \in Sessions \ {s} : paid'[t] = paid[t]
    BY ChargeTokenValues
  <1>2. WalletPaid' = WalletPaid /\ \A u : SubPaid(u)' = SubPaid(u)
    BY <1>1 DEF WalletPaid, SubPaid, ChargeToken
  <1>3. /\ IntegerOn(TokenPaid, Sessions) /\ IntegerOn(TokenPaid', Sessions)
        /\ \A t \in Sessions : t # s => TokenPaid'[t] = TokenPaid[t]
        /\ TokenPaid'[s] - TokenPaid[s] = n
    BY <1>1, PaidTypes DEF IntegerOn, TokenPaid, TypeOK, RowsTypeOK
  <1>4. Total(TokenPaid', Sessions)
            = Total(TokenPaid, Sessions) + (TokenPaid'[s] - TokenPaid[s])
    BY <1>3, TotalUpdate
  <1> QED
    BY <1>2, <1>3, <1>4

LEMMA ChargeSubscriptionTotal ==
    ASSUME TypeOK, TypeOK', IsFiniteSet(Sessions), NEW s \in Sessions, NEW n \in Int,
           ChargeSubscription(s, n), NEW u
    PROVE  /\ WalletPaid' = WalletPaid /\ TokenPaid' = TokenPaid
           /\ Total(SubPaid(u)', Sessions)
                 = Total(SubPaid(u), Sessions) + IF subId'[s] = u THEN n ELSE 0
  <1>1. /\ paid'[s].sub = paid[s].sub + n
        /\ paid'[s].wallet = paid[s].wallet /\ paid'[s].token = paid[s].token
        /\ \A t \in Sessions \ {s} : paid'[t] = paid[t]
    BY DEF ChargeSubscription, TypeOK, RowsTypeOK
  <1>2. WalletPaid' = WalletPaid /\ TokenPaid' = TokenPaid
    BY <1>1 DEF WalletPaid, TokenPaid
  <1>3. /\ IntegerOn(SubPaid(u), Sessions) /\ IntegerOn(SubPaid(u)', Sessions)
        /\ \A t \in Sessions : t # s => SubPaid(u)'[t] = SubPaid(u)[t]
    BY <1>1, PaidTypes DEF IntegerOn, SubPaid, TypeOK, RowsTypeOK, ChargeSubscription
  <1>4. SubPaid(u)'[s] - SubPaid(u)[s] = IF subId'[s] = u THEN n ELSE 0
    <2>1. subId'[s] = subId[s] \/ paid[s].sub = 0
      BY DEF ChargeSubscription
    <2>2. /\ SubPaid(u)'[s] = IF subId'[s] = u THEN paid'[s].sub ELSE 0
          /\ SubPaid(u)[s] = IF subId[s] = u THEN paid[s].sub ELSE 0
      BY DEF SubPaid
    <2>3. paid[s].sub \in Int
      BY PaidTypes
    <2> QED
      BY <1>1, <2>1, <2>2, <2>3
  <1>5. Total(SubPaid(u)', Sessions)
            = Total(SubPaid(u), Sessions) + (SubPaid(u)'[s] - SubPaid(u)[s])
    BY <1>3, TotalUpdate
  <1> QED
    BY <1>2, <1>4, <1>5

\* While no write has failed, no request has a negative balance with a
\* subscription.
LEMMA SubPaidNatural ==
    ASSUME TypeOK, Accounting, IsFiniteSet(Sessions), \A s \in Sessions : faults[s] = {}
    PROVE  \A u \in Subs : Total(SubPaid(u), Sessions) \in Nat
  <1>1. \A u \in Subs : \A s \in Sessions : SubPaid(u)[s] \in Nat
    BY OthersFromAccount, PaidTypes DEF NeverOverRefunded, NoFaultIn, SubPaid
  <1> QED
    BY <1>1, TotalNatural

LEMMA SubPaidStaysNatural ==
    ASSUME IsFiniteSet(Sessions)
    PROVE  (TypeOK /\ Accounting /\ \A s \in Sessions : faults[s] = {})'
               => (\A u \in Subs : Total(SubPaid(u), Sessions) \in Nat)'
  <1>1. TypeOK /\ Accounting /\ (\A s \in Sessions : faults[s] = {})
            => \A u \in Subs : Total(SubPaid(u), Sessions) \in Nat
    BY SubPaidNatural
  <1> QED
    BY <1>1, PTL

LEMMA InitBooks ==
    ASSUME Init, IsFiniteSet(Sessions)
    PROVE  Books
  <1>1. TypeOK
    BY InitType
  <1>2. /\ \A s \in Sessions \ {} : WalletPaid[s] = 0
        /\ \A s \in Sessions \ {} : TokenPaid[s] = 0
        /\ \A u : \A s \in Sessions \ {} : SubPaid(u)[s] = 0
    BY DEF Init, WalletPaid, TokenPaid, SubPaid
  <1>3. /\ Total(WalletPaid, Sessions) = Total(WalletPaid, {})
        /\ Total(TokenPaid, Sessions) = Total(TokenPaid, {})
        /\ \A u : Total(SubPaid(u), Sessions) = Total(SubPaid(u), {})
    BY <1>1, <1>2, PaidAreIntegers, TotalSupport
  <1>4. /\ Total(WalletPaid, Sessions) = 0 /\ Total(TokenPaid, Sessions) = 0
        /\ \A u : Total(SubPaid(u), Sessions) = 0
    BY <1>3, TotalEmpty
  <1> QED
    BY <1>4, ConstantsAssumption DEF Init, Books

LEMMA NextBooks ==
    ASSUME TypeOK, Accounting, IsFiniteSet(Sessions), Books, [Next]_vars
    PROVE  Books'
  <1>1. TypeOK' /\ Accounting'
    BY NextType, NextAccount
  <1>2. /\ Total(WalletPaid, Sessions) \in Int /\ Total(TokenPaid, Sessions) \in Int
        /\ \A u : Total(SubPaid(u), Sessions) \in Int
        /\ InitUserQuota \in Int /\ InitTokenQuota \in Int /\ nFaults \in Nat
    BY PaidTotals, ConstantsAssumption DEF TypeOK, RowsTypeOK
  <1>3. CASE RowsKept /\ NoFault
    BY <1>3 DEF RowsKept, NoFault, Books, WalletPaid, TokenPaid, SubPaid
  <1>4. ASSUME NEW s \in Sessions, OneWrite(s)
        PROVE  Books'
    <2>1. CASE RowsKept /\ nFaults' = nFaults + 1
      BY <1>2, <2>1 DEF RowsKept, Books, WalletPaid, TokenPaid, SubPaid
    <2>2. ASSUME NEW n \in Int, ChargeWallet(s, n)
          PROVE  Books'
      <3>1. /\ Total(WalletPaid', Sessions) = Total(WalletPaid, Sessions) + n
            /\ TokenPaid' = TokenPaid /\ \A u : SubPaid(u)' = SubPaid(u)
        BY <1>1, <2>2, ChargeWalletTotal
      <3> QED
        BY <1>2, <2>2, <3>1 DEF ChargeWallet, NoFault, Books
    <2>3. ASSUME NEW n \in Int, ChargeToken(s, n)
          PROVE  Books'
      <3>1. /\ Total(TokenPaid', Sessions) = Total(TokenPaid, Sessions) + n
            /\ WalletPaid' = WalletPaid /\ \A u : SubPaid(u)' = SubPaid(u)
        BY <1>1, <2>3, ChargeTokenTotal
      <3> QED
        BY <1>2, <2>3, <3>1 DEF ChargeToken, NoFault, Books
    <2>4. ASSUME NEW n \in Int, ChargeSubscription(s, n)
          PROVE  Books'
      <3>1. /\ WalletPaid' = WalletPaid /\ TokenPaid' = TokenPaid
            /\ \A u : Total(SubPaid(u)', Sessions)
                        = Total(SubPaid(u), Sessions) + IF subId'[s] = u THEN n ELSE 0
        BY <1>1, <2>4, ChargeSubscriptionTotal
      <3>2. ASSUME nFaults' = 0
            PROVE  \A t \in Sessions : faults'[t] = {}
        BY <2>4, <3>2 DEF ChargeSubscription, NoFault, Books
      <3>3. ASSUME nFaults' = 0, NEW u \in Subs \ overwritten'
            PROVE  subUsed'[u] = Total(SubPaid(u)', Sessions)
        <4>1. u \notin overwritten /\ nFaults = 0
          BY <2>4, <3>3 DEF ChargeSubscription, NoFault
        <4>2. subUsed[u] = Total(SubPaid(u), Sessions) /\ subUsed[u] \in Nat
          BY <4>1, TxnFields DEF Books
        <4>3. CASE subId'[s] # u
          <5>1. subUsed'[u] = subUsed[u]
            BY <2>4, <4>3 DEF ChargeSubscription, TypeOK, RowsTypeOK
          <5> QED
            BY <1>2, <3>1, <4>2, <4>3, <5>1
        <4>4. CASE subId'[s] = u
          <5>1. subUsed'[u] = Clamp(txn[s].used[u] + n) /\ txn[s].used[u] = subUsed[u]
            BY <2>4, <3>3, <4>4 DEF ChargeSubscription, TypeOK, RowsTypeOK
          <5>2. Total(SubPaid(u)', Sessions) \in Nat
            BY <1>1, <3>2, <3>3, SubPaidStaysNatural
          <5>3. Total(SubPaid(u)', Sessions) = subUsed[u] + n
            BY <3>1, <4>2, <4>4
          <5> QED
            BY <4>2, <5>1, <5>2, <5>3 DEF Clamp
        <4> QED
          BY <4>3, <4>4
      <3> QED
        BY <2>4, <3>1, <3>2, <3>3 DEF ChargeSubscription, Books
    <2> QED
      BY <1>3, <1>4, <2>1, <2>2, <2>3, <2>4 DEF OneWrite
  <1>5. CASE \/ UNCHANGED vars
             \/ \E u \in Subs : ExpireSubscription(u)
             \/ \E s \in Sessions : ReadSubscription(s)
    BY <1>3, <1>5 DEF vars, ExpireSubscription, ReadSubscription, RowsKept, NoFault, rows
  <1> QED
    BY <1>4, <1>5, EachStepWritesOnce DEF Next

LEMMA OwedType ==
    ASSUME TypeOK, NEW s \in Sessions
    PROVE  Owed(s) \in Int
  BY FieldTypes DEF Owed

\* Without failed writes a request that is over has paid what it owes.
LEMMA OverPaysOwed ==
    ASSUME TypeOK, Accounting, NEW s \in Sessions, faults[s] = {},
           pc[s] \in {"idle", "rejected", "closed"}
    PROVE  /\ paid[s].wallet = IF ses[s].funding = "wallet" THEN Owed(s) ELSE 0
           /\ paid[s].sub = IF ses[s].funding = "subscription" THEN Owed(s) ELSE 0
           /\ paid[s].token = IF ~IsPlayground(s) THEN Owed(s) ELSE 0
  <1>0. AccountOf(s) /\ Amounts(s)
    BY AccountNow
  <1>1. CASE pc[s] \in {"idle", "rejected"}
    <2>1. paid[s].wallet = 0 /\ paid[s].sub = 0 /\ paid[s].token = 0 /\ Owed(s) = 0
      BY <1>0, <1>1 DEF Owed
    <2> QED
      BY <2>1
  <1>2. CASE pc[s] = "closed"
    <2>1. ses[s].funding \in {"wallet", "subscription"}
      BY <1>0, <1>2
    <2>2. CASE "settled" \in ses[s].flags
      <3>1. Owed(s) = loc[s].arg /\ "refunded" \notin ses[s].flags
        BY <1>0, <1>2, <2>2 DEF Owed
      <3> QED
        BY <1>0, <1>2, <2>1, <2>2, <3>1 DEF IsPlayground
    <2>3. CASE "settled" \notin ses[s].flags /\ "refunded" \in ses[s].flags
      <3>1. Owed(s) = 0
        BY <2>3 DEF Owed
      <3> QED
        BY <1>0, <1>2, <2>1, <2>3, <3>1 DEF IsPlayground
    <2>4. CASE "settled" \notin ses[s].flags /\ "refunded" \notin ses[s].flags
      <3>1. Owed(s) = ses[s].preConsumedQuota
        BY <1>2, <2>4 DEF Owed
      <3> QED
        BY <1>0, <1>2, <2>1, <2>4, <3>1 DEF IsPlayground
    <2> QED
      BY <2>2, <2>3, <2>4
  <1> QED
    BY <1>1, <1>2

\* A function that is what is owed on a set and zero elsewhere sums to OwedBy.
LEMMA PaidIsOwed ==
    ASSUME TypeOK, IsFiniteSet(Sessions), NEW S \in SUBSET Sessions, NEW f,
           \A s \in Sessions : f[s] = IF s \in S THEN Owed(s) ELSE 0
    PROVE  Total(f, Sessions) = OwedBy(S)
  <1> DEFINE owed == [s \in Sessions |-> Owed(s)]
  <1>1. IntegerOn(owed, S) /\ IntegerOn(f, Sessions) /\ IsFiniteSet(S)
    BY OwedType, FS_Subset DEF IntegerOn
  <1>2. \A s \in S : f[s] = owed[s]
    OBVIOUS
  <1>3. \A s \in Sessions \ S : f[s] = 0
    OBVIOUS
  <1>4. Total(f, Sessions) = Total(f, S)
    BY <1>1, <1>3, TotalSupport
  <1>5. OwedBy(S) = Total(owed, S)
    BY DEF OwedBy, Total
  <1> HIDE DEF owed
  <1>6. Total(f, S) = Total(owed, S)
    BY <1>1, <1>2, TotalSame
  <1> QED
    BY <1>4, <1>5, <1>6

LEMMA BalanceFromBooks ==
    ASSUME TypeOK, Accounting, IsFiniteSet(Sessions), Books
    PROVE  BooksBalance
  <1> SUFFICES ASSUME nFaults = 0, \A s \in Sessions : pc[s] \in {"idle", "rejected", "closed"}
               PROVE  /\ InitUserQuota - userQuota
                             = OwedBy({s \in Sessions : ses[s].funding = "wallet"})
                      /\ InitTokenQuota - tokenRemain
                             = OwedBy({s \in Sessions : ~IsPlayground(s)})
                      /\ \A u \in Subs \ overwritten : subUsed[u] = OwedBy(FundedBy(u))
    BY DEF BooksBalance
  <1> DEFINE W == {s \in Sessions : ses[s].funding = "wallet"}
             K == {s \in Sessions : ~IsPlayground(s)}
  <1>1. \A s \in Sessions : faults[s] = {}
    BY DEF Books
  <1>2. \A s \in Sessions :
          /\ WalletPaid[s] = IF s \in W THEN Owed(s) ELSE 0
          /\ TokenPaid[s] = IF s \in K THEN Owed(s) ELSE 0
          /\ \A u \in Subs : SubPaid(u)[s] = IF s \in FundedBy(u) THEN Owed(s) ELSE 0
    BY <1>1, OverPaysOwed DEF WalletPaid, SubPaid, TokenPaid, FundedBy
  <1>3. /\ W \in SUBSET Sessions /\ K \in SUBSET Sessions
        /\ \A u \in Subs : FundedBy(u) \in SUBSET Sessions
    BY DEF FundedBy
  <1> HIDE DEF W, K
  <1>4. /\ Total(WalletPaid, Sessions) = OwedBy(W)
        /\ Total(TokenPaid, Sessions) = OwedBy(K)
        /\ \A u \in Subs : Total(SubPaid(u), Sessions) = OwedBy(FundedBy(u))
    BY <1>2, <1>3, PaidIsOwed
  <1>5. /\ InitUserQuota - userQuota = Total(WalletPaid, Sessions)
        /\ InitTokenQuota - tokenRemain = Total(TokenPaid, Sessions)
        /\ \A u \in Subs \ overwritten : subUsed[u] = Total(SubPaid(u), Sessions)
    BY PaidTotals, ConstantsAssumption DEF Books
  <1> QED
    BY <1>4, <1>5 DEF W, K

(***************************************************************************)
(* For any finite number of concurrent requests, whatever writes fail: the *)
(* user's wallet and the token are at every moment their initial values    *)
(* less exactly what the requests have paid; no write of one request is    *)
(* lost in those of another.  A subscription holds what its requests have  *)
(* paid as long as no two of their transactions overlapped on it and no    *)
(* write failed.                                                           *)
(***************************************************************************)
THEOREM BooksAreKept ==
    ASSUME IsFiniteSet(Sessions)
    PROVE  Spec => []Books
  <1>1. Init => TypeOK /\ Accounting /\ Books
    BY InitType, InitAccount, InitBooks
  <1>2. TypeOK /\ Accounting /\ Books /\ [Next]_vars => (TypeOK /\ Accounting /\ Books)'
    BY NextType, NextAccount, NextBooks
  <1> QED
    BY <1>1, <1>2, PTL DEF Spec

(***************************************************************************)
(* When any finite number of concurrent requests are over and no write     *)
(* failed, the wallet, the token and each subscription that overlapping    *)
(* transactions have left alone have given exactly what the requests owe.  *)
(***************************************************************************)
THEOREM BooksAreBalanced ==
    ASSUME IsFiniteSet(Sessions)
    PROVE  Spec => []BooksBalance
  <1>1. Init => TypeOK /\ Accounting /\ Books
    BY InitType, InitAccount, InitBooks
  <1>2. TypeOK /\ Accounting /\ Books /\ [Next]_vars => (TypeOK /\ Accounting /\ Books)'
    BY NextType, NextAccount, NextBooks
  <1>3. TypeOK /\ Accounting /\ Books => BooksBalance
    BY BalanceFromBooks
  <1> QED
    BY <1>1, <1>2, <1>3, PTL DEF Spec

=============================================================================
