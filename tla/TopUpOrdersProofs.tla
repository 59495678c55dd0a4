------------------------- MODULE TopUpOrdersProofs --------------------------
(***************************************************************************)
(* For any number of handlers, orders and failures: if all handlers run in *)
(* one process, an order is credited once, a successful one has been       *)
(* credited, and a final status stays.                                     *)
(*                                                                         *)
(* The argument: the handlers that are between LockOrder and UnlockOrder   *)
(* for the same order exclude each other, so what one of them has read of  *)
(* the row is still true when it writes, but for the status of orders      *)
(* whose failure is written without the lock.                              *)
(***************************************************************************)
EXTENDS TopUpOrders, TLAPS

\* A row has a provider from its insert on, and nobody pays before.
Rows ==
    \A o \in Orders :
        /\ status[o] = "none" <=> provider[o] = "none"
        /\ status[o] = "none" => gate[o] = "none"

\* What a handler has been called with, at each of its steps.
Arguments ==
    \A h \in Handlers :
        /\ pc[h] = "idle" <=> kind[h] = "none"
        /\ pc[h] # "idle" => ord[h] \in Orders /\ status[ord[h]] # "none"
        /\ pc[h] = "calling" <=> kind[h] = "request"
        /\ pc[h] = "calling" => provider[ord[h]] \notin {"epay", "stripe"}
        /\ pc[h] = "lock" => ~(kind[h] = "failed" /\ provider[ord[h]] = "waffo")
        /\ pc[h] = "credit" => kind[h] = "notify" /\ provider[ord[h]] = "epay"
        /\ kind[h] \in {"expired", "failed"} => provider[ord[h]] \in {"stripe", "waffo"}

\* LockOrder keeps the handlers of an order in a process apart.
Exclusive ==
    \A g, h \in Handlers :
        Inside(g) /\ Inside(h) /\ ord[g] = ord[h] /\ Node[g] = Node[h] => g = h

\* All this holds for any number of processes.
LockInv == TypeOK /\ Rows /\ Arguments /\ Exclusive

\* All handlers run in one process.
OneProcess == \A g, h \in Handlers : Node[g] = Node[h]

\* Orders whose status is written under the lock only.
AlwaysLocked(o) == provider[o] \in {"epay", "stripe", "creem"}

\* Nothing is credited while the order is pending, and no credit is lost or
\* counted twice between the handler's read and its last write.
NotYet ==
    /\ \A o \in Orders : status[o] \in {"none", "pending"} => credited[o] = 0
    /\ \A h \in Handlers :
          pc[h] \in {"commit", "credit"} /\ Inside(h) => credited[ord[h]] = 0

\* What was read is still true, where every writer takes the lock.
ReadIsTrue ==
    \A h \in Handlers :
        /\ pc[h] = "commit" /\ AlwaysLocked(ord[h]) => status[ord[h]] = "pending"
        /\ pc[h] = "credit" => status[ord[h]] = "success"

\* The inductive invariant for one process.
CreditInv == LockInv /\ NotYet /\ ReadIsTrue /\ CreditedOnce /\ SuccessIsCredited

-----------------------------------------------------------------------------
\* What Next does, action by action.
Handling(h) ==
    \/ Lock(h) \/ ReadPending(h) \/ ReadDone(h)
    \/ Recharge(h) \/ ManualComplete(h) \/ EpayUpdate(h) \/ EpayCredit(h) \/ Unpaid(h)
    \/ Fails(h)

Starting(h, o) ==
    \/ Notify(h, o) \/ Manual(h, o) \/ WaffoClosed(h, o)
    \/ \E k \in {"expired", "failed"} : StripeClosed(h, o, k)

Requesting(h, o) == \E p \in Providers : RequestLinked(h, o, p) \/ RequestInsert(h, o, p)

LEMMA NextCases ==
    ASSUME [Next]_vars
    PROVE  \/ \E h \in Handlers : LinkCreated(h) \/ LinkRefused(h) \/ Handling(h)
           \/ \E h \in Handlers, o \in Orders : Requesting(h, o) \/ Starting(h, o)
           \/ \E o \in Orders : Pay(o) \/ Close(o)
           \/ \E n \in Nodes : Crash(n)
           \/ UNCHANGED vars
BY DEF Next, Step, Handling, Starting, Requesting

\* The rows and the arguments of the handlers hold together initially.
LEMMA InitLock == Init => LockInv
<1> SUFFICES ASSUME Init PROVE LockInv
    OBVIOUS
<1> USE DEF Init
<1>1. TypeOK
    BY TopUpAssumption DEF TypeOK
<1>2. Rows /\ Arguments /\ Exclusive
    BY DEF Rows, Arguments, Exclusive, Inside
<1> QED
    BY <1>1, <1>2 DEF LockInv

\* Answering the provider keeps the type of acked.
LEMMA AnswerType ==
    ASSUME TypeOK, NEW h \in Handlers, NEW r \in BOOLEAN, Answer(h, r)
    PROVE  acked' \in [Orders -> BOOLEAN]
BY DEF TypeOK, Answer

\* An amount in units is not zero.
LEMMA QuotaPositive ==
    ASSUME NEW o
    PROVE  Quota(o) \in Nat \ {0} /\ ManualQuota(o) \in Nat \ {0}
<1>1. Money * QuotaPerUnit \in Nat \ {0} /\ Amount * QuotaPerUnit \in Nat \ {0}
    BY TopUpAssumption
<1> QED
    BY <1>1, TopUpAssumption DEF Quota, ManualQuota

LEMMA TypeStep ==
    ASSUME TypeOK, [Next]_vars, Arguments
    PROVE  TypeOK'
<1> USE DEF TypeOK
<1>1. ASSUME NEW h \in Handlers, LinkCreated(h) \/ LinkRefused(h) PROVE TypeOK'
    BY <1>1, TopUpAssumption DEF LinkCreated, LinkRefused, Return, Fault
<1>2. ASSUME NEW h \in Handlers, Handling(h) PROVE TypeOK'
  <2>1. CASE Lock(h) \/ ReadPending(h)
      BY <2>1 DEF Lock, ReadPending, Goto
  <2>2. CASE ReadDone(h)
      BY <2>2, AnswerType DEF ReadDone, Return
  <2>3. CASE Recharge(h)
    <3>1. acked' \in [Orders -> BOOLEAN]
        BY <2>3, AnswerType DEF Recharge
    <3>2. credited' \in [Orders -> Nat]
      <4>1. credited' = [credited EXCEPT ![ord[h]] = @ + Quota(ord[h])]
          BY <2>3, Zenon DEF Recharge
      <4>2. Quota(ord[h]) \in Nat
          BY QuotaPositive
      <4>3. ord[h] \in Orders
          BY <2>3 DEF Recharge, Answer, Arguments
      <4> QED
          BY <4>1, <4>2, <4>3
    <3> QED
        BY <2>3, <3>1, <3>2 DEF Recharge, Return, Answer
  <2>4. CASE ManualComplete(h) \/ EpayCredit(h)
      BY <2>4, QuotaPositive DEF ManualComplete, EpayCredit, Return
  <2>5. CASE EpayUpdate(h) \/ Unpaid(h)
      BY <2>5 DEF EpayUpdate, Unpaid, Goto, Return
  <2>6. CASE Fails(h)
    <3>1. acked' \in [Orders -> BOOLEAN]
        BY <2>6, AnswerType DEF Fails
    <3> QED
        BY <2>6, <3>1, TopUpAssumption DEF Fails, Return, Fault, Answer
  <2> QED
      BY <1>2, <2>1, <2>2, <2>3, <2>4, <2>5, <2>6 DEF Handling
<1>3. ASSUME NEW h \in Handlers, NEW o \in Orders, Requesting(h, o) PROVE TypeOK'
    BY <1>3 DEF Requesting, RequestLinked, RequestInsert, Begin, Providers
<1>4. ASSUME NEW h \in Handlers, NEW o \in Orders, Starting(h, o) PROVE TypeOK'
  <2>1. CASE Notify(h, o)
    <3>1. acked' \in [Orders -> BOOLEAN]
        BY <2>1 DEF Notify
    <3> QED
        BY <2>1, <3>1 DEF Notify, Begin
  <2>2. CASE ~Notify(h, o)
      BY <1>4, <2>2 DEF Starting, Manual, WaffoClosed, StripeClosed, Begin
  <2> QED
      BY <2>1, <2>2
<1>5. ASSUME NEW o \in Orders, Pay(o) \/ Close(o) PROVE TypeOK'
    BY <1>5 DEF Pay, Close
<1>6. ASSUME NEW n \in Nodes, Crash(n) PROVE TypeOK'
    BY <1>6, TopUpAssumption DEF Crash, Fault
<1>7. CASE UNCHANGED vars
    BY <1>7 DEF vars
<1> QED
    BY NextCases, <1>1, <1>2, <1>3, <1>4, <1>5, <1>6, <1>7

\* What a handler that works on an order may change besides its credit.
LEMMA HandlingShape ==
    ASSUME LockInv, NEW h \in Handlers, Handling(h)
    PROVE  /\ UNCHANGED <<provider, gate>>
           /\ ord[h] \in Orders /\ pc[h] \in {"lock", "read", "commit", "credit"}
           /\ \/ UNCHANGED status
              \/ \E s \in {"success", "failed", "expired"} : status' = [status EXCEPT ![ord[h]] = s]
           /\ \/ Return(h)
              \/ pc[h] = "lock" /\ Lock(h)
              \/ pc[h] = "read" /\ ReadPending(h)
              \/ pc[h] = "commit" /\ EpayUpdate(h)
<1> USE DEF LockInv, Arguments
<1>1. CASE Lock(h) \/ ReadPending(h)
    BY <1>1 DEF Lock, ReadPending, Goto
<1>2. CASE ReadDone(h)
    BY <1>2 DEF ReadDone, Answer
<1>3. CASE Recharge(h)
    BY <1>3 DEF Recharge, Answer
<1>4. CASE ManualComplete(h) \/ EpayCredit(h) \/ Unpaid(h)
    BY <1>4 DEF ManualComplete, EpayCredit, Unpaid
<1>5. CASE EpayUpdate(h)
    BY <1>5 DEF EpayUpdate
<1>6. CASE Fails(h)
    BY <1>6 DEF Fails, Answer
<1> QED
    BY <1>1, <1>2, <1>3, <1>4, <1>5, <1>6 DEF Handling

\* A handler that works on an order keeps the invariant of the locks.
LEMMA HandlingLock ==
    ASSUME LockInv, NEW h \in Handlers, Handling(h)
    PROVE  Rows' /\ Arguments' /\ Exclusive'
<1>0. /\ UNCHANGED <<provider, gate>>
      /\ ord[h] \in Orders /\ pc[h] \in {"lock", "read", "commit", "credit"}
    BY HandlingShape
<1>7. \A o \in Orders : status[o] = "none" <=> status'[o] = "none"
    BY HandlingShape DEF TypeOK, LockInv, Arguments
<1> USE DEF LockInv
<1>1. Rows'
    BY <1>0, <1>7 DEF Rows
<1>2. \A o \in Orders : status[o] # "none" => status'[o] # "none"
    BY <1>7
<1>3. CASE Return(h)
  <2>1. Arguments'
      BY <1>0, <1>2, <1>3 DEF Arguments, Return, TypeOK
  <2>2. Exclusive'
      BY <1>0, <1>3 DEF Exclusive, Inside, Return, TypeOK
  <2> QED
      BY <1>1, <2>1, <2>2
<1>4. CASE Lock(h)
  <2>1. Arguments'
      BY <1>4 DEF Arguments, Lock, Goto, TypeOK
  <2>2. Exclusive'
      BY <1>4 DEF Exclusive, Inside, Lock, Goto, TypeOK
  <2> QED
      BY <1>1, <2>1, <2>2
<1>5. CASE ReadPending(h)
  <2>1. Arguments'
      BY <1>5 DEF Arguments, ReadPending, Goto, TypeOK
  <2>2. Exclusive'
      BY <1>5 DEF Exclusive, Inside, ReadPending, Goto, TypeOK
  <2> QED
      BY <1>1, <2>1, <2>2
<1>6. CASE EpayUpdate(h)
  <2>1. Arguments'
      BY <1>2, <1>6 DEF Arguments, EpayUpdate, Goto, TypeOK
  <2>2. Exclusive'
      BY <1>6 DEF Exclusive, Inside, EpayUpdate, Goto, TypeOK
  <2> QED
      BY <1>1, <2>1, <2>2
<1> QED
    BY <1>3, <1>4, <1>5, <1>6, HandlingShape

\* The invariant of the locks is inductive.
LEMMA LockStep ==
    ASSUME LockInv, [Next]_vars
    PROVE  LockInv'
<1> USE DEF LockInv
<1>0. TypeOK'
    BY TypeStep
<1>1. ASSUME NEW h \in Handlers, LinkCreated(h) \/ LinkRefused(h)
      PROVE  Rows' /\ Arguments' /\ Exclusive'
  <2> USE DEF LinkCreated, LinkRefused, Return, TypeOK
  <2>1. Rows'
      BY <1>1 DEF Rows, Arguments
  <2>2. Arguments'
      BY <1>1 DEF Arguments
  <2>3. Exclusive'
      BY <1>1 DEF Exclusive, Inside
  <2> QED
      BY <2>1, <2>2, <2>3
<1>3. ASSUME NEW h \in Handlers, NEW o \in Orders, Requesting(h, o)
      PROVE  Rows' /\ Arguments' /\ Exclusive'
  <2>0. PICK p \in Providers : RequestLinked(h, o, p) \/ RequestInsert(h, o, p)
      BY <1>3 DEF Requesting
  <2> USE DEF RequestLinked, RequestInsert, Begin, TypeOK
  <2>1. Rows'
      BY <2>0 DEF Rows, Providers
  <2>2. Arguments'
      BY <2>0 DEF Arguments
  <2>3. Exclusive'
      BY <2>0 DEF Exclusive, Inside, Arguments
  <2> QED
      BY <2>1, <2>2, <2>3
<1>4. ASSUME NEW h \in Handlers, NEW o \in Orders, Starting(h, o)
      PROVE  Rows' /\ Arguments' /\ Exclusive'
  <2> USE DEF Starting, Notify, Manual, WaffoClosed, StripeClosed, Begin, TypeOK
  <2>1. Rows'
      BY <1>4 DEF Rows
  <2>2. Arguments'
      BY <1>4 DEF Arguments, Rows
  <2>3. Exclusive'
      BY <1>4 DEF Exclusive, Inside
  <2> QED
      BY <2>1, <2>2, <2>3
<1>5. ASSUME NEW o \in Orders, Pay(o) \/ Close(o)
      PROVE  Rows' /\ Arguments' /\ Exclusive'
    BY <1>5 DEF Pay, Close, Rows, Arguments, Exclusive, Inside, TypeOK
<1>6. ASSUME NEW n \in Nodes, Crash(n)
      PROVE  Rows' /\ Arguments' /\ Exclusive'
    BY <1>6 DEF Crash, Rows, Arguments, Exclusive, Inside, TypeOK
<1>7. CASE UNCHANGED vars
    BY <1>7 DEF vars, Rows, Arguments, Exclusive, Inside, TypeOK
<1> QED
    BY NextCases, HandlingLock, <1>0, <1>1, <1>3, <1>4, <1>5, <1>6, <1>7

\* The lock discipline holds in every state.
LEMMA LockAlways == Spec => []LockInv
    BY InitLock, LockStep, PTL DEF Spec

-----------------------------------------------------------------------------
(* One process: an order is credited once. *)

LEMMA InitCredit == Init => CreditInv
<1> SUFFICES ASSUME Init PROVE CreditInv
    OBVIOUS
<1>1. NotYet /\ ReadIsTrue /\ CreditedOnce /\ SuccessIsCredited
    BY DEF Init, NotYet, ReadIsTrue, CreditedOnce, SuccessIsCredited
<1> QED
    BY <1>1, InitLock DEF CreditInv

\* Between LockOrder and UnlockOrder no other handler works on the order, but
\* for Waffo's notices of failure.
LEMMA Alone ==
    ASSUME LockInv, OneProcess, NEW g \in Handlers, NEW h \in Handlers, g # h,
           Inside(g), pc[h] \in {"read", "commit", "credit"}, ord[g] = ord[h]
    PROVE  kind[h] = "failed" /\ provider[ord[h]] = "waffo"
BY DEF LockInv, Exclusive, Inside, OneProcess

\* The steps that leave rows, credits and failures alone.
LEMMA QuietCredit ==
    ASSUME CreditInv, UNCHANGED <<provider, status, credited, faults>>,
           \A g \in Handlers :
              /\ pc'[g] \in {"commit", "credit"} => pc'[g] = pc[g] /\ kind'[g] = kind[g] /\ ord'[g] = ord[g]
              /\ pc[g] = "credit" => pc'[g] = "credit" /\ ord'[g] = ord[g]
    PROVE  NotYet' /\ ReadIsTrue' /\ CreditedOnce' /\ SuccessIsCredited'
<1> USE DEF CreditInv
<1>1. NotYet'
    BY DEF NotYet, Inside
<1>2. ReadIsTrue'
    BY DEF ReadIsTrue, AlwaysLocked
<1>3. CreditedOnce'
    BY DEF CreditedOnce, Quota, ManualQuota
<1>4. SuccessIsCredited'
    BY DEF SuccessIsCredited
<1> QED
    BY <1>1, <1>2, <1>3, <1>4

\* A handler that ends by a failure or with its process: a failure is counted.
LEMMA FaultCredit ==
    ASSUME CreditInv, UNCHANGED <<provider, status, credited>>, faults' = faults + 1,
           \A g \in Handlers :
              pc'[g] # "idle" => pc'[g] = pc[g] /\ kind'[g] = kind[g] /\ ord'[g] = ord[g]
    PROVE  NotYet' /\ ReadIsTrue' /\ CreditedOnce' /\ SuccessIsCredited'
<1> USE DEF CreditInv
<1>1. NotYet'
    BY DEF NotYet, Inside
<1>2. ReadIsTrue'
    BY DEF ReadIsTrue, AlwaysLocked
<1>3. CreditedOnce'
    BY DEF CreditedOnce, Quota, ManualQuota
<1>4. SuccessIsCredited'
    BY TopUpAssumption DEF SuccessIsCredited, LockInv, TypeOK
<1> QED
    BY <1>1, <1>2, <1>3, <1>4

\* A completion that writes status and quota in one transaction.
LEMMA CompleteCredit ==
    ASSUME CreditInv, OneProcess, NEW h \in Handlers, NEW q \in Nat \ {0},
           pc[h] = "commit", Inside(h), ord[h] \in Orders,
           q \in {Quota(ord[h]), ManualQuota(ord[h])},
           status' = [status EXCEPT ![ord[h]] = "success"],
           credited' = [credited EXCEPT ![ord[h]] = @ + q],
           Return(h), UNCHANGED <<provider, faults>>
    PROVE  NotYet' /\ ReadIsTrue' /\ CreditedOnce' /\ SuccessIsCredited'
<1> DEFINE o == ord[h]
<1>1. credited'[o] = q /\ status'[o] = "success"
    BY DEF CreditInv, NotYet, LockInv, TypeOK
<1>2. \A p \in Orders \ {o} : credited'[p] = credited[p] /\ status'[p] = status[p]
    BY DEF CreditInv, LockInv, TypeOK
<1>3. \A g \in Handlers \ {h} : pc'[g] = pc[g] /\ kind'[g] = kind[g] /\ ord'[g] = ord[g]
    BY DEF Return, CreditInv, LockInv, TypeOK
<1>4. pc'[h] = "idle"
    BY DEF Return, CreditInv, LockInv, TypeOK
<1>5. \A g \in Handlers \ {h} :
         pc[g] \in {"commit", "credit"} /\ ord[g] = o => ~Inside(g) /\ ~AlwaysLocked(o) /\ pc[g] # "credit"
    BY Alone DEF CreditInv, Inside, AlwaysLocked, LockInv, Arguments
<1>6. \A g \in Handlers : pc[g] # "idle" => ord[g] \in Orders
    BY DEF CreditInv, LockInv, Arguments
<1>7. NotYet'
    BY <1>1, <1>2, <1>3, <1>4, <1>5, <1>6 DEF CreditInv, NotYet, Inside
<1>8. ReadIsTrue'
    BY <1>1, <1>2, <1>3, <1>4, <1>5, <1>6 DEF CreditInv, ReadIsTrue, AlwaysLocked
<1>9. CreditedOnce'
    BY <1>1, <1>2 DEF CreditInv, CreditedOnce, Quota, ManualQuota
<1>10. SuccessIsCredited'
    BY <1>1, <1>2, <1>3, <1>4 DEF CreditInv, SuccessIsCredited
<1> QED
    BY <1>7, <1>8, <1>9, <1>10

\* An order is given up: by Stripe's or Waffo's notice, or by LinkRefused.
LEMMA GiveUpCredit ==
    ASSUME CreditInv, OneProcess, NEW h \in Handlers, NEW s \in {"failed", "expired"},
           ord[h] \in Orders, pc[h] \in {"calling", "commit"},
           AlwaysLocked(ord[h]) => pc[h] = "commit",
           status' = [status EXCEPT ![ord[h]] = s],
           Return(h), UNCHANGED <<provider, credited, faults>>
    PROVE  NotYet' /\ ReadIsTrue' /\ CreditedOnce' /\ SuccessIsCredited'
<1> DEFINE o == ord[h]
<1>1. status'[o] = s /\ \A p \in Orders \ {o} : status'[p] = status[p]
    BY DEF CreditInv, LockInv, TypeOK
<1>2. \A g \in Handlers \ {h} : pc'[g] = pc[g] /\ kind'[g] = kind[g] /\ ord'[g] = ord[g]
    BY DEF Return, CreditInv, LockInv, TypeOK
<1>3. pc'[h] = "idle"
    BY DEF Return, CreditInv, LockInv, TypeOK
<1>4. \A g \in Handlers \ {h} : ord[g] = o /\ AlwaysLocked(o) => pc[g] \notin {"commit", "credit"}
    BY Alone DEF CreditInv, Inside, AlwaysLocked, LockInv
<1>5. \A g \in Handlers : pc[g] = "credit" => ord[g] \in Orders /\ AlwaysLocked(ord[g])
    BY DEF CreditInv, LockInv, Arguments, AlwaysLocked
<1>6. \A g \in Handlers : pc[g] # "idle" => ord[g] \in Orders
    BY DEF CreditInv, LockInv, Arguments
<1>7. NotYet'
    BY <1>1, <1>2, <1>3 DEF CreditInv, NotYet, Inside
<1>8. ReadIsTrue'
    BY <1>1, <1>2, <1>3, <1>4, <1>5, <1>6 DEF CreditInv, ReadIsTrue, AlwaysLocked
<1>9. CreditedOnce'
    BY DEF CreditInv, CreditedOnce, Quota, ManualQuota
<1>10. SuccessIsCredited'
    BY <1>1, <1>2, <1>3 DEF CreditInv, SuccessIsCredited
<1> QED
    BY <1>7, <1>8, <1>9, <1>10

\* EpayNotify saves the status ...
LEMMA EpayUpdateCredit ==
    ASSUME CreditInv, OneProcess, NEW h \in Handlers, EpayUpdate(h)
    PROVE  NotYet' /\ ReadIsTrue' /\ CreditedOnce' /\ SuccessIsCredited'
<1> DEFINE o == ord[h]
<1>0. /\ pc[h] = "commit" /\ provider[o] = "epay" /\ kind[h] = "notify"
      /\ o \in Orders /\ Inside(h) /\ AlwaysLocked(o)
    BY DEF EpayUpdate, CreditInv, LockInv, Arguments, Inside, AlwaysLocked
<1>1. status'[o] = "success" /\ \A p \in Orders \ {o} : status'[p] = status[p]
    BY <1>0 DEF EpayUpdate, CreditInv, LockInv, TypeOK
<1>2. /\ \A g \in Handlers \ {h} : pc'[g] = pc[g]
      /\ UNCHANGED <<kind, ord, provider, credited, faults>>
    BY DEF EpayUpdate, Goto, CreditInv, LockInv, TypeOK
<1>3. pc'[h] = "credit"
    BY DEF EpayUpdate, Goto, CreditInv, LockInv, TypeOK
<1>4. \A g \in Handlers \ {h} : ord[g] = o => pc[g] \notin {"commit", "credit"}
    BY <1>0, Alone DEF CreditInv
<1>5. \A g \in Handlers : pc[g] # "idle" => ord[g] \in Orders
    BY DEF CreditInv, LockInv, Arguments
<1>6. NotYet'
    BY <1>0, <1>1, <1>2, <1>3 DEF CreditInv, NotYet, Inside
<1>7. ReadIsTrue'
    BY <1>0, <1>1, <1>2, <1>3, <1>4, <1>5 DEF CreditInv, ReadIsTrue, AlwaysLocked
<1>8. CreditedOnce'
    BY <1>2 DEF CreditInv, CreditedOnce, Quota, ManualQuota
<1>9. SuccessIsCredited'
    BY <1>0, <1>1, <1>2, <1>3 DEF CreditInv, SuccessIsCredited
<1> QED
    BY <1>6, <1>7, <1>8, <1>9

\* ... and credits the quota.
LEMMA EpayCreditCredit ==
    ASSUME CreditInv, OneProcess, NEW h \in Handlers, EpayCredit(h)
    PROVE  NotYet' /\ ReadIsTrue' /\ CreditedOnce' /\ SuccessIsCredited'
<1> DEFINE o == ord[h]
<1>0. /\ pc[h] = "credit" /\ provider[o] = "epay" /\ kind[h] = "notify"
      /\ o \in Orders /\ Inside(h) /\ status[o] = "success"
    BY DEF EpayCredit, CreditInv, LockInv, Arguments, Inside, ReadIsTrue
<1>1. credited'[o] = Quota(o) /\ Quota(o) \in Nat \ {0}
    BY <1>0, QuotaPositive DEF EpayCredit, CreditInv, NotYet, LockInv, TypeOK
<1>2. \A p \in Orders \ {o} : credited'[p] = credited[p]
    BY DEF EpayCredit, CreditInv, LockInv, TypeOK
<1>3. /\ \A g \in Handlers \ {h} : pc'[g] = pc[g] /\ kind'[g] = kind[g] /\ ord'[g] = ord[g]
      /\ pc'[h] = "idle"
      /\ UNCHANGED <<provider, status, faults>>
    BY DEF EpayCredit, Return, CreditInv, LockInv, TypeOK
<1>4. \A g \in Handlers \ {h} : ord[g] = o => pc[g] \notin {"commit", "credit"}
    BY <1>0, Alone DEF CreditInv
<1>5. \A g \in Handlers : pc[g] # "idle" => ord[g] \in Orders
    BY DEF CreditInv, LockInv, Arguments
<1>6. NotYet'
    BY <1>0, <1>2, <1>3, <1>4, <1>5 DEF CreditInv, NotYet, Inside
<1>7. ReadIsTrue'
    BY <1>3 DEF CreditInv, ReadIsTrue, AlwaysLocked
<1>8. CreditedOnce'
    BY <1>1, <1>2, <1>3 DEF CreditInv, CreditedOnce, Quota, ManualQuota
<1>9. SuccessIsCredited'
    BY <1>0, <1>1, <1>2, <1>3 DEF CreditInv, SuccessIsCredited
<1> QED
    BY <1>6, <1>7, <1>8, <1>9

\* What a handler reads is true when it has read it.
LEMMA ReadPendingCredit ==
    ASSUME CreditInv, NEW h \in Handlers, ReadPending(h)
    PROVE  NotYet' /\ ReadIsTrue' /\ CreditedOnce' /\ SuccessIsCredited'
<1>1. /\ status[ord[h]] = "pending" /\ ord[h] \in Orders /\ pc[h] = "read" /\ pc'[h] = "commit"
      /\ \A g \in Handlers \ {h} : pc'[g] = pc[g]
      /\ UNCHANGED <<kind, ord, provider, status, credited, faults>>
    BY DEF ReadPending, Goto, CreditInv, LockInv, TypeOK, Arguments
<1>2. NotYet'
    BY <1>1 DEF CreditInv, NotYet, Inside
<1>3. ReadIsTrue'
    BY <1>1 DEF CreditInv, ReadIsTrue, AlwaysLocked
<1>4. CreditedOnce'
    BY <1>1 DEF CreditInv, CreditedOnce, Quota, ManualQuota
<1>5. SuccessIsCredited'
    BY <1>1 DEF CreditInv, SuccessIsCredited
<1> QED
    BY <1>2, <1>3, <1>4, <1>5

\* A new order has nothing credited, and no handler works on it.
LEMMA RequestCredit ==
    ASSUME CreditInv, NEW h \in Handlers, NEW o \in Orders, Requesting(h, o)
    PROVE  NotYet' /\ ReadIsTrue' /\ CreditedOnce' /\ SuccessIsCredited'
<1>0. PICK p \in Providers : RequestLinked(h, o, p) \/ RequestInsert(h, o, p)
    BY DEF Requesting
<1>1. /\ status[o] = "none" /\ status' = [status EXCEPT ![o] = "pending"]
      /\ provider' = [provider EXCEPT ![o] = p]
      /\ UNCHANGED <<credited, faults>>
    BY <1>0 DEF RequestLinked, RequestInsert
<1>2. \A g \in Handlers : pc'[g] \in {"commit", "credit"} \/ pc[g] \in {"commit", "credit"} =>
         /\ pc'[g] = pc[g] /\ kind'[g] = kind[g] /\ ord'[g] = ord[g]
         /\ ord[g] \in Orders /\ ord[g] # o
    BY <1>0 DEF RequestLinked, RequestInsert, Begin, CreditInv, LockInv, TypeOK, Arguments
<1>3. \A q \in Orders \ {o} : status'[q] = status[q] /\ provider'[q] = provider[q]
    BY <1>1 DEF CreditInv, LockInv, TypeOK
<1>4. status'[o] = "pending" /\ credited[o] = 0
    BY <1>1 DEF CreditInv, LockInv, TypeOK, NotYet
<1>5. NotYet'
    BY <1>1, <1>2, <1>3, <1>4 DEF CreditInv, NotYet, Inside
<1>6. ReadIsTrue'
    BY <1>2, <1>3 DEF CreditInv, ReadIsTrue, AlwaysLocked
<1>7. CreditedOnce'
    BY <1>1, <1>3, <1>4 DEF CreditInv, CreditedOnce, Quota, ManualQuota
<1>8. SuccessIsCredited'
    BY <1>1, <1>2, <1>3, <1>4 DEF CreditInv, SuccessIsCredited
<1> QED
    BY <1>5, <1>6, <1>7, <1>8

\* A handler that works on an order keeps the books.
LEMMA HandlingCredit ==
    ASSUME CreditInv, OneProcess, NEW h \in Handlers, Handling(h)
    PROVE  NotYet' /\ ReadIsTrue' /\ CreditedOnce' /\ SuccessIsCredited'
<1>0. ord[h] \in Orders
    BY HandlingShape DEF CreditInv
<1>1. CASE Lock(h)
    BY <1>1, QuietCredit DEF Lock, Goto, CreditInv, LockInv, TypeOK
<1>2. CASE ReadDone(h)
  <2>1. UNCHANGED <<provider, status, credited, faults>> /\ Return(h) /\ pc[h] = "read"
      BY <1>2, Zenon DEF ReadDone
  <2> QED
      BY <2>1, QuietCredit DEF Return, CreditInv, LockInv, TypeOK
<1>3. CASE Recharge(h)
  <2>1. /\ pc[h] = "commit" /\ kind[h] = "notify" /\ Return(h)
        /\ status' = [status EXCEPT ![ord[h]] = "success"]
        /\ credited' = [credited EXCEPT ![ord[h]] = @ + Quota(ord[h])]
        /\ UNCHANGED <<provider, faults>>
      BY <1>3, Zenon DEF Recharge
  <2>2. Inside(h)
      BY <2>1 DEF Inside
  <2>3. Quota(ord[h]) \in Nat \ {0}
      BY QuotaPositive
  <2> QED
      BY <1>0, <2>1, <2>2, <2>3, CompleteCredit
<1>4. CASE ManualComplete(h)
  <2>1. /\ pc[h] = "commit" /\ kind[h] = "manual" /\ Return(h)
        /\ status' = [status EXCEPT ![ord[h]] = "success"]
        /\ credited' = [credited EXCEPT ![ord[h]] = @ + ManualQuota(ord[h])]
        /\ UNCHANGED <<provider, faults>>
      BY <1>4, Zenon DEF ManualComplete
  <2>2. Inside(h)
      BY <2>1 DEF Inside
  <2>3. ManualQuota(ord[h]) \in Nat \ {0}
      BY QuotaPositive
  <2> QED
      BY <1>0, <2>1, <2>2, <2>3, CompleteCredit
<1>5. CASE Unpaid(h)
    BY <1>0, <1>5, GiveUpCredit DEF Unpaid
<1>6. CASE Fails(h)
  <2>1. UNCHANGED <<provider, status, credited>> /\ Return(h) /\ faults' = faults + 1
      BY <1>6, Zenon DEF Fails, Fault
  <2> QED
      BY <2>1, FaultCredit DEF Return, CreditInv, LockInv, TypeOK
<1> QED
    BY <1>1, <1>2, <1>3, <1>4, <1>5, <1>6, ReadPendingCredit, EpayUpdateCredit, EpayCreditCredit
    DEF Handling

\* The books are inductive, in one process.
LEMMA CreditStep ==
    ASSUME CreditInv, OneProcess, [Next]_vars
    PROVE  CreditInv'
<1>0. LockInv'
    BY LockStep DEF CreditInv
<1>1. ASSUME NEW h \in Handlers, LinkCreated(h)
      PROVE  NotYet' /\ ReadIsTrue' /\ CreditedOnce' /\ SuccessIsCredited'
    BY <1>1, QuietCredit DEF LinkCreated, Return, CreditInv, LockInv, TypeOK
<1>2. ASSUME NEW h \in Handlers, LinkRefused(h)
      PROVE  NotYet' /\ ReadIsTrue' /\ CreditedOnce' /\ SuccessIsCredited'
  <2>1. /\ pc[h] = "calling" /\ ord[h] \in Orders /\ provider[ord[h]] \notin {"epay", "stripe"}
        /\ Return(h) /\ UNCHANGED <<provider, credited>>
      BY <1>2 DEF LinkRefused, CreditInv, LockInv, Arguments
  <2>2. CASE provider[ord[h]] # "creem" /\ status' = [status EXCEPT ![ord[h]] = "failed"] /\ UNCHANGED faults
      BY <2>1, <2>2, GiveUpCredit DEF AlwaysLocked
  <2>3. CASE UNCHANGED <<status, faults>>
      BY <2>1, <2>3, QuietCredit DEF Return, CreditInv, LockInv, TypeOK
  <2>4. CASE UNCHANGED status /\ Fault
      BY <2>1, <2>4, FaultCredit DEF Fault, Return, CreditInv, LockInv, TypeOK
  <2> QED
      BY <1>2, <2>2, <2>3, <2>4 DEF LinkRefused
<1>3. ASSUME NEW h \in Handlers, NEW o \in Orders, Starting(h, o)
      PROVE  NotYet' /\ ReadIsTrue' /\ CreditedOnce' /\ SuccessIsCredited'
    BY <1>3, QuietCredit DEF Starting, Notify, Manual, WaffoClosed, StripeClosed, Begin,
                             CreditInv, LockInv, TypeOK
<1>4. ASSUME NEW o \in Orders, Pay(o) \/ Close(o)
      PROVE  NotYet' /\ ReadIsTrue' /\ CreditedOnce' /\ SuccessIsCredited'
    BY <1>4, QuietCredit DEF Pay, Close
<1>5. ASSUME NEW n \in Nodes, Crash(n)
      PROVE  NotYet' /\ ReadIsTrue' /\ CreditedOnce' /\ SuccessIsCredited'
    BY <1>5, FaultCredit DEF Crash, Fault
<1>6. ASSUME UNCHANGED vars
      PROVE  NotYet' /\ ReadIsTrue' /\ CreditedOnce' /\ SuccessIsCredited'
  <2>1. UNCHANGED <<provider, status, credited, faults, pc, kind, ord>>
      BY <1>6 DEF vars
  <2> QED
      BY <2>1, QuietCredit
<1>7. NotYet' /\ ReadIsTrue' /\ CreditedOnce' /\ SuccessIsCredited'
    BY NextCases, HandlingCredit, RequestCredit, <1>1, <1>2, <1>3, <1>4, <1>5, <1>6
<1> QED
    BY <1>0, <1>7 DEF CreditInv

\* The books hold in every state, in one process.
LEMMA CreditAlways ==
    ASSUME OneProcess
    PROVE  Spec => []CreditInv
<1>1. CreditInv /\ [Next]_vars => CreditInv'
    BY CreditStep
<1> QED
    BY InitCredit, <1>1, PTL DEF Spec

\* The types of rows, handlers and the provider's view, for any number of
\* processes.
THEOREM TypeCorrect == Spec => []TypeOK
<1>1. LockInv => TypeOK
    BY DEF LockInv
<1> QED
    BY <1>1, LockAlways, PTL

\* In one process, any number of webhooks, administrators, failing statements
\* and crashes credit an order at most once.
THEOREM TopUpCreditedOnce ==
    ASSUME OneProcess
    PROVE  Spec => []CreditedOnce
<1>1. CreditInv => CreditedOnce
    BY DEF CreditInv
<1> QED
    BY <1>1, CreditAlways, PTL

\* In one process, a successful order has been credited, but for the gap of
\* EpayNotify.
THEOREM TopUpSuccessIsCredited ==
    ASSUME OneProcess
    PROVE  Spec => []SuccessIsCredited
<1>1. CreditInv => SuccessIsCredited
    BY DEF CreditInv
<1> QED
    BY <1>1, CreditAlways, PTL

\* In one process, an order of Epay, Stripe or Creem that has succeeded, failed
\* or expired stays so: whoever writes its status holds its lock and has read
\* that it is pending.
THEOREM TopUpFinalStays ==
    ASSUME OneProcess
    PROVE  Spec => FinalStays
<1> DEFINE Stays(o) ==
        provider[o] \in {"epay", "stripe", "creem"} /\ status[o] \in {"success", "failed", "expired"}
            => status'[o] = status[o]
<1>1. ASSUME CreditInv, [Next]_vars, NEW o \in Orders
      PROVE  Stays(o)
  <2> SUFFICES ASSUME AlwaysLocked(o), status[o] \in {"success", "failed", "expired"}
               PROVE  status'[o] = status[o]
      BY DEF AlwaysLocked
  <2> USE <1>1 DEF CreditInv, LockInv, TypeOK
  <2>1. ASSUME NEW h \in Handlers, LinkCreated(h) \/ LinkRefused(h)
        PROVE  status'[o] = status[o]
      BY <2>1 DEF LinkCreated, LinkRefused, AlwaysLocked, Arguments
  <2>2. ASSUME NEW h \in Handlers, Handling(h)
        PROVE  status'[o] = status[o]
    <3>1. UNCHANGED status \/ pc[h] = "commit"
        BY <2>2 DEF Handling, Lock, ReadPending, ReadDone, Recharge, ManualComplete, EpayUpdate,
                    EpayCredit, Unpaid, Fails
    <3>2. CASE ord[h] = o
        BY <3>1, <3>2 DEF ReadIsTrue
    <3>3. CASE ord[h] # o
        BY <2>2, <3>3, HandlingShape
    <3> QED
        BY <3>2, <3>3
  <2>3. ASSUME NEW h \in Handlers, NEW p \in Orders, Requesting(h, p) \/ Starting(h, p)
        PROVE  status'[o] = status[o]
      BY <2>3 DEF Requesting, RequestLinked, RequestInsert, Starting, Notify, Manual,
                  WaffoClosed, StripeClosed
  <2>4. ASSUME \/ \E p \in Orders : Pay(p) \/ Close(p)
               \/ \E n \in Nodes : Crash(n)
               \/ UNCHANGED vars
        PROVE  status'[o] = status[o]
      BY <2>4 DEF Pay, Close, Crash, vars
  <2> QED
      BY NextCases, <2>1, <2>2, <2>3, <2>4
<1>2. CreditInv /\ [Next]_vars => \A o \in Orders : Stays(o)
    BY <1>1
<1> QED
    BY <1>2, CreditAlways, PTL DEF Spec, FinalStays

=============================================================================
