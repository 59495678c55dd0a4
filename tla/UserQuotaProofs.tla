-------------------------- MODULE UserQuotaProofs ---------------------------
(***************************************************************************)
(* For any amounts and any number of operations and failures: no quota is  *)
(* lost or made up, and the cached quota follows what the user has, with   *)
(* the exceptions that the two properties name.                            *)
(*                                                                         *)
(* That the cache follows rests on two sums: while no refill is under way, *)
(* the cached quota and the increments that goroutines still have to make  *)
(* add up to what the user has and the changes that requests have still to *)
(* write.  The provers have no induction, so the sum over a set is the     *)
(* least relation that is closed under adding one, and what is needed of   *)
(* it follows from its being least.                                        *)
(***************************************************************************)
EXTENDS UserQuota, FiniteSetTheorems, TLAPS

-----------------------------------------------------------------------------
(* The invariants *)

\* Goroutines have different numbers, and there are finitely many.
JobsDiffer == IsFiniteSet(jobs) /\ \A j, k \in jobs : j.id = k.id => j = k

\* Finitely many requests are about to write the quota.
WritesFinite == IsFiniteSet(writes)

\* Transactions that have found the code enabled were started.
RedeemsStarted == redeems <= ops

Base == TypeOK /\ RedeemsStarted /\ JobsDiffer /\ WritesFinite

\* The referral quota is not transferred while a transfer is under way.
OneTransfer == transfer # NoCache => ~aff

\* The row: nothing is lost or made up.
RowInv == Base /\ OneTransfer /\ QuotaConserved

-----------------------------------------------------------------------------
(* The sum of what goroutines have to add *)

JobType == [id : Nat, kind : {"incr", "checked", "refill", "write"}, val : Int]

\* R has the empty set with sum 0, and with a set also the set with one more.
Closed(R) ==
    /\ <<{}, 0>> \in R
    /\ \A S \in SUBSET JobType : \A v \in Int : \A x \in JobType \ S :
          <<S, v>> \in R => <<S \cup {x}, v + x.val>> \in R

\* The least such relation.
Sums == {p \in (SUBSET JobType) \X Int :
            \A R \in SUBSET ((SUBSET JobType) \X Int) : Closed(R) => p \in R}

\* The values of the goroutines in S add up to v.
SumIs(S, v) == <<S, v>> \in Sums

\* What the cache will have been told of when nothing is under way: the balance,
\* but for a check-in that is between its two steps.
Known == Balance + If(checkin = "awarding", Award) - If(checkin = "committed", Award)

\* What is cached and what is still to be added make up what is known and what
\* is still to be written.
Adds == \E w \in Int : SumIs(writes, w) /\ SumIs(jobs, (Known + w) - cache)

\* One refill is under way, alone and with the right quota.
RefillAlone ==
    /\ \E j \in jobs : jobs = {j} /\ j.kind = "refill" /\ j.val = Balance
    /\ writes = {} /\ checkin \notin {"awarding", "committed"}

\* Unless something went wrong it is one or the other.
Tracks == ~stale => RefillAlone \/ (~Refilling /\ (cache = NoCache \/ Adds))

CacheInv == Base /\ Tracks

-----------------------------------------------------------------------------
\* Nothing adds up to zero.
LEMMA SumEmpty == SumIs({}, 0)
BY DEF SumIs, Sums, Closed

\* One goroutine more adds its value.
LEMMA SumAdd ==
    ASSUME NEW S \in SUBSET JobType, NEW v \in Int, NEW x \in JobType, x \notin S, SumIs(S, v)
    PROVE  SumIs(S \cup {x}, v + x.val)
<1>1. x.val \in Int
    BY DEF JobType
<1>2. ASSUME NEW R \in SUBSET ((SUBSET JobType) \X Int), Closed(R)
      PROVE  <<S \cup {x}, v + x.val>> \in R
  <2>1. <<S, v>> \in R
      BY <1>2 DEF SumIs, Sums
  <2> QED
      BY <1>2, <2>1 DEF Closed
<1>3. <<S \cup {x}, v + x.val>> \in (SUBSET JobType) \X Int
    BY <1>1
<1> QED
    BY <1>2, <1>3 DEF SumIs, Sums

\* The sum over the empty set is zero and nothing else.
LEMMA SumOfEmpty ==
    ASSUME NEW v \in Int, SumIs({}, v)
    PROVE  v = 0
<1> DEFINE R == {p \in (SUBSET JobType) \X Int : p[1] = {} => p[2] = 0}
<1>1. Closed(R)
  <2>1. <<{}, 0>> \in R
      OBVIOUS
  <2>2. ASSUME NEW S \in SUBSET JobType, NEW w \in Int, NEW x \in JobType \ S, <<S, w>> \in R
        PROVE  <<S \cup {x}, w + x.val>> \in R
    <3>1. x.val \in Int
        BY DEF JobType
    <3>2. S \cup {x} # {}
        OBVIOUS
    <3> QED
        BY <3>1, <3>2
  <2> QED
      BY <2>1, <2>2 DEF Closed
<1>2. <<{}, v>> \in R
    BY <1>1 DEF SumIs, Sums
<1> QED
    BY <1>2

\* One goroutine less takes its value away: the sets of which this is true
\* are closed under adding a goroutine.
LEMMA SumRemove ==
    ASSUME NEW S \in SUBSET JobType, NEW v \in Int, NEW j \in S, SumIs(S, v)
    PROVE  SumIs(S \ {j}, v - j.val)
<1> DEFINE R == {p \in (SUBSET JobType) \X Int :
                    p \in Sums /\ \A k \in p[1] : SumIs(p[1] \ {k}, p[2] - k.val)}
<1>0. \A x \in JobType : x.val \in Int
    BY DEF JobType
<1>1. <<{}, 0>> \in R
    BY SumEmpty DEF SumIs
<1>2. ASSUME NEW T \in SUBSET JobType, NEW w \in Int, NEW x \in JobType, x \notin T, <<T, w>> \in R
      PROVE  <<T \cup {x}, w + x.val>> \in R
  <2>1. SumIs(T, w) /\ \A k \in T : SumIs(T \ {k}, w - k.val)
      BY <1>2 DEF SumIs
  <2>2. SumIs(T \cup {x}, w + x.val)
      BY <1>2, <2>1, SumAdd
  <2>3. ASSUME NEW k \in T \cup {x}
        PROVE  SumIs((T \cup {x}) \ {k}, (w + x.val) - k.val)
    <3>1. CASE k = x
      <4>1. (T \cup {x}) \ {k} = T /\ (w + x.val) - k.val = w
          BY <1>0, <1>2, <3>1
      <4> QED
          BY <2>1, <4>1
    <3>2. CASE k # x
      <4>1. k \in T /\ k \in JobType
          BY <3>2
      <4>2. SumIs((T \ {k}) \cup {x}, (w - k.val) + x.val)
        <5>1. SumIs(T \ {k}, w - k.val)
            BY <2>1, <4>1
        <5>2. T \ {k} \in SUBSET JobType /\ w - k.val \in Int /\ x \notin T \ {k}
            BY <1>0, <1>2, <4>1
        <5> QED
            BY <5>1, <5>2, SumAdd
      <4>3. (T \cup {x}) \ {k} = (T \ {k}) \cup {x}
          BY <3>2
      <4>4. (w + x.val) - k.val = (w - k.val) + x.val
          BY <1>0, <4>1
      <4> QED
          BY <4>2, <4>3, <4>4
    <3> QED
        BY <3>1, <3>2
  <2>4. <<T \cup {x}, w + x.val>> \in (SUBSET JobType) \X Int
      BY <1>0
  <2> QED
      BY <2>2, <2>3, <2>4 DEF SumIs
<1>3. Closed(R)
    BY <1>1, <1>2 DEF Closed
<1>4. <<S, v>> \in R
  <2>1. R \in SUBSET ((SUBSET JobType) \X Int)
      OBVIOUS
  <2> QED
      BY <1>3, <2>1 DEF SumIs, Sums
<1> QED
    BY <1>4

-----------------------------------------------------------------------------
\* There is a number that no goroutine has: the numbers of n goroutines do not
\* fill 0 .. n.
LEMMA FreshExists ==
    ASSUME NEW S \in SUBSET JobType, IsFiniteSet(S)
    PROVE  FreshId(S) \in Nat /\ \A j \in S : j.id # FreshId(S)
<1> DEFINE n == Cardinality(S)
           I == {j.id : j \in S}
<1>1. n \in Nat
    BY FS_CardinalityType
<1>2. \E i \in 0 .. n : i \notin I
  <2> SUFFICES ASSUME 0 .. n \subseteq I PROVE FALSE
      OBVIOUS
  <2>1. [j \in S |-> j.id] \in Surjection(S, I)
      BY DEF Surjection
  <2>2. IsFiniteSet(I) /\ Cardinality(I) <= n
      BY <2>1, FS_Surjection
  <2>3. Cardinality(0 .. n) = n + 1
      BY <1>1, FS_Interval
  <2>4. Cardinality(0 .. n) <= Cardinality(I)
      BY <2>2, FS_Subset
  <2>5. Cardinality(I) \in Nat
      BY <2>2, FS_CardinalityType
  <2> QED
      BY <1>1, <2>2, <2>3, <2>4, <2>5
<1>3. \E i \in 0 .. n : \A j \in S : j.id # i
    BY <1>2
<1>4. FreshId(S) \in 0 .. n /\ \A j \in S : j.id # FreshId(S)
    BY <1>3 DEF FreshId
<1> QED
    BY <1>1, <1>4

\* A goroutine that starts is a new one.
LEMMA JobStarts ==
    ASSUME TypeOK, JobsDiffer, NEW k \in {"incr", "refill"}, NEW q \in Int,
           NEW j, j = [id |-> FreshId(jobs), kind |-> k, val |-> q], jobs' = jobs \cup {j}
    PROVE  /\ j \in JobType /\ j \notin jobs /\ jobs' \subseteq JobType
           /\ JobsDiffer'
<1>1. jobs \subseteq JobType
    BY DEF TypeOK, NumberTypes, JobType
<1>2. FreshId(jobs) \in Nat /\ \A i \in jobs : i.id # FreshId(jobs)
    BY <1>1, FreshExists DEF JobsDiffer
<1>3. j \in JobType /\ j \notin jobs /\ j.id = FreshId(jobs)
    BY <1>2 DEF JobType
<1>4. IsFiniteSet(jobs')
    BY FS_AddElement DEF JobsDiffer
<1> QED
    BY <1>1, <1>2, <1>3, <1>4 DEF JobsDiffer

\* A request that is about to write is a new one.
LEMMA WriteStarts ==
    ASSUME TypeOK, WritesFinite, NEW d \in Int, writes' = writes \cup {Write(d)}
    PROVE  /\ Write(d) \in JobType /\ Write(d) \notin writes /\ Write(d).val = d
           /\ writes' \subseteq [id : Nat, kind : {"write"}, val : Int]
           /\ WritesFinite'
<1>1. writes \subseteq JobType
    BY DEF TypeOK, NumberTypes, JobType
<1>2. FreshId(writes) \in Nat /\ \A i \in writes : i.id # FreshId(writes)
    BY <1>1, FreshExists DEF WritesFinite
<1>3. /\ Write(d) \in [id : Nat, kind : {"write"}, val : Int]
      /\ Write(d).id = FreshId(writes) /\ Write(d).val = d
    BY <1>2 DEF Write
<1>4. Write(d) \in JobType /\ Write(d) \notin writes
    BY <1>2, <1>3 DEF JobType
<1>5. WritesFinite'
    BY FS_AddElement DEF WritesFinite
<1> QED
    BY <1>3, <1>4, <1>5 DEF TypeOK, NumberTypes

\* A goroutine that ends.
LEMMA JobEnds ==
    ASSUME JobsDiffer, NEW j \in jobs, jobs' = jobs \ {j}
    PROVE  JobsDiffer'
BY FS_RemoveElement DEF JobsDiffer

\* A goroutine that goes on after RedisHIncrBy has seen the key.
LEMMA JobChecked ==
    ASSUME TypeOK, JobsDiffer, NEW j \in jobs,
           jobs' = (jobs \ {j}) \cup {[j EXCEPT !.kind = "checked"]}
    PROVE  /\ [j EXCEPT !.kind = "checked"] \in JobType
           /\ [j EXCEPT !.kind = "checked"] \notin jobs \ {j}
           /\ JobsDiffer'
<1> DEFINE k == [j EXCEPT !.kind = "checked"]
<1>1. jobs \subseteq JobType
    BY DEF TypeOK, NumberTypes, JobType
<1>2. k \in JobType /\ k.id = j.id /\ k.val = j.val
    BY <1>1 DEF JobType
<1>3. k \notin jobs \ {j}
    BY <1>2 DEF JobsDiffer
<1>4. IsFiniteSet(jobs \ {j})
    BY FS_RemoveElement DEF JobsDiffer
<1>5. IsFiniteSet(jobs')
    BY <1>4, FS_AddElement
<1> QED
    BY <1>2, <1>3, <1>5 DEF JobsDiffer

-----------------------------------------------------------------------------
(* Types *)

LEMMA InitBase == Init => Base
<1> SUFFICES ASSUME Init PROVE Base
    OBVIOUS
<1>1. FlagTypes
    BY DEF Init, FlagTypes
<1>2. NumberTypes
    BY QuotaAssumption DEF Init, NumberTypes
<1>3. JobsDiffer /\ WritesFinite
    BY FS_EmptySet DEF Init, JobsDiffer, WritesFinite
<1> QED
    BY <1>1, <1>2, <1>3 DEF Base, TypeOK, Init, RedeemsStarted

\* The amounts are integers.
LEMMA Amounts ==
    /\ Start \in Int /\ Charge \in Int /\ -Charge \in Int /\ Credit \in Int
    /\ CodeQuota \in Int /\ Award \in Int /\ AffQuota \in Int /\ Override \in Int
    /\ NoCache \notin Int /\ MaxOps \in Nat /\ MaxFaults \in Nat
BY QuotaAssumption

\* The flags stay flags.
LEMMA FlagStep ==
    ASSUME FlagTypes, [Next]_vars
    PROVE  FlagTypes'
<1> USE DEF FlagTypes, config, handlers
<1>1. ASSUME NEW d \in {Charge, -Charge}, ChangeUserQuota(d)
      PROVE  FlagTypes'
    BY <1>1, Zenon DEF ChangeUserQuota, Told
<1>9. ASSUME NEW j \in writes, WriteUserQuota(j) \/ WriteUserQuotaFails(j)
      PROVE  FlagTypes'
    BY <1>9, Zenon DEF WriteUserQuota, WriteUserQuotaFails
<1>2. CASE BatchUpdate \/ BatchWrite \/ BatchWriteFails \/ GetUserCache \/ CacheGone
    BY <1>2, Zenon DEF BatchUpdate, BatchWrite, BatchWriteFails, GetUserCache, CacheGone,
                   Underway
<1>3. ASSUME NEW j \in jobs, updateUserCache(j) \/ CheckTTL(j) \/ HIncrBy(j) \/ JobFails(j)
      PROVE  FlagTypes'
    BY <1>3, Zenon DEF updateUserCache, CheckTTL, HIncrBy, JobFails
<1>4. CASE TopUp \/ ManageUserOverride \/ RedeemRead \/ Redeem
    BY <1>4, Zenon DEF TopUp, ManageUserOverride, RedeemRead, Redeem, Untold
<1>5. CASE CheckinTransaction \/ CheckinTell \/ CheckinCreate
    BY <1>5, Zenon DEF CheckinTransaction, CheckinTell, CheckinCreate, Told
<1>10. CASE CheckinAward \/ CheckinWrite \/ CheckinRollback
    BY <1>10, Zenon DEF CheckinAward, CheckinWrite, CheckinRollback, Told
<1>6. CASE TransferRead \/ TransferSave \/ UserRead \/ Crash
    BY <1>6, Zenon DEF TransferRead, TransferSave, UserRead, Crash, Untold, Underway
<1>7. ASSUME NEW q \in saves, UserUpdate(q)
      PROVE  FlagTypes'
    BY <1>7, Zenon DEF UserUpdate, Underway
<1>8. CASE UNCHANGED vars
    BY <1>8, Zenon DEF vars
<1> QED
    BY <1>1, <1>2, <1>3, <1>4, <1>5, <1>6, <1>7, <1>8, <1>9, <1>10 DEF Next

\* Whose steps change the set of requests that are about to write.
LEMMA WritersOnly ==
    ASSUME [Next]_vars
    PROVE  \/ \E d \in {Charge, -Charge} : ChangeUserQuota(d)
           \/ \E j \in writes : WriteUserQuota(j) \/ WriteUserQuotaFails(j)
           \/ Crash
           \/ UNCHANGED writes
<1>1. ASSUME NEW j \in jobs, updateUserCache(j) \/ CheckTTL(j) \/ HIncrBy(j) \/ JobFails(j)
      PROVE  UNCHANGED writes
    BY <1>1 DEF updateUserCache, CheckTTL, HIncrBy, JobFails
<1>2. ASSUME BatchUpdate \/ BatchWrite \/ BatchWriteFails \/ GetUserCache \/ CacheGone
      PROVE  UNCHANGED writes
    BY <1>2 DEF BatchUpdate, BatchWrite, BatchWriteFails, GetUserCache, CacheGone
<1>3. ASSUME TopUp \/ ManageUserOverride \/ RedeemRead \/ Redeem
      PROVE  UNCHANGED writes
    BY <1>3 DEF TopUp, ManageUserOverride, RedeemRead, Redeem
<1>4. ASSUME \/ CheckinTransaction \/ CheckinTell
             \/ CheckinCreate \/ CheckinAward \/ CheckinWrite \/ CheckinRollback
      PROVE  UNCHANGED writes
    BY <1>4 DEF CheckinTransaction, CheckinTell, CheckinCreate, CheckinAward, CheckinWrite,
                CheckinRollback
<1>5. ASSUME TransferRead \/ TransferSave \/ UserRead \/ (\E q \in saves : UserUpdate(q))
      PROVE  UNCHANGED writes
    BY <1>5 DEF TransferRead, TransferSave, UserRead, UserUpdate
<1>6. CASE UNCHANGED vars
    BY <1>6 DEF vars
<1> QED
    BY <1>1, <1>2, <1>3, <1>4, <1>5, <1>6 DEF Next

LEMMA BaseStep ==
    ASSUME Base, [Next]_vars
    PROVE  Base'
<1> USE Amounts DEF Base, TypeOK, RedeemsStarted, config, db, handlers
<1>0. FlagTypes'
    BY FlagStep
<1>1. ASSUME NEW d \in {Charge, -Charge}, ChangeUserQuota(d)
      PROVE  NumberTypes' /\ RedeemsStarted' /\ JobsDiffer' /\ WritesFinite'
  <2>1. jobs' \subseteq JobType /\ JobsDiffer' /\ Incr(d).kind = "incr"
      BY <1>1, JobStarts DEF ChangeUserQuota, Incr
  <2>2. writes' \subseteq [id : Nat, kind : {"write"}, val : Int] /\ WritesFinite'
      BY <1>1, WriteStarts DEF ChangeUserQuota
  <2>3. jobs' = jobs \cup {Incr(d)} /\ UNCHANGED <<db, cache, handlers, net, faults>> /\ Op
      BY <1>1 DEF ChangeUserQuota
  <2> QED
      BY <2>1, <2>2, <2>3 DEF Op, NumberTypes, JobType
<1>13. ASSUME NEW j \in writes, WriteUserQuota(j) \/ WriteUserQuotaFails(j)
      PROVE  NumberTypes' /\ RedeemsStarted' /\ JobsDiffer' /\ WritesFinite'
  <2>1. WritesFinite' /\ writes' \subseteq writes /\ j.val \in Int
      BY <1>13, FS_RemoveElement DEF WriteUserQuota, WriteUserQuotaFails, WritesFinite, NumberTypes
  <2>2. CASE WriteUserQuota(j) /\ batching
      BY <2>1, <2>2 DEF WriteUserQuota, NumberTypes, JobsDiffer
  <2>3. CASE WriteUserQuota(j) /\ ~batching
      BY <2>1, <2>3 DEF WriteUserQuota, NumberTypes, JobsDiffer
  <2>4. CASE WriteUserQuotaFails(j)
      BY <2>1, <2>4 DEF WriteUserQuotaFails, Fault, NumberTypes, JobsDiffer
  <2> QED
      BY <1>13, <2>2, <2>3, <2>4
<1>2. ASSUME BatchUpdate \/ BatchWrite \/ BatchWriteFails
      PROVE  NumberTypes' /\ RedeemsStarted' /\ JobsDiffer'
  <2>1. CASE BatchUpdate
      BY <2>1 DEF BatchUpdate, Fault, NumberTypes, JobsDiffer
  <2>2. CASE BatchWrite
      BY <2>2 DEF BatchWrite, Fault, NumberTypes, JobsDiffer
  <2>3. CASE BatchWriteFails
      BY <2>3 DEF BatchWriteFails, Fault, NumberTypes, JobsDiffer
  <2> QED
      BY <1>2, <2>1, <2>2, <2>3
<1>3. ASSUME GetUserCache
      PROVE  NumberTypes' /\ RedeemsStarted' /\ JobsDiffer'
  <2>1. jobs' \subseteq JobType /\ JobsDiffer'
      BY <1>3, JobStarts DEF GetUserCache, Refill, NumberTypes
  <2> QED
      BY <1>3, <2>1 DEF GetUserCache, Op, NumberTypes, JobType
<1>4. ASSUME CacheGone
      PROVE  NumberTypes' /\ RedeemsStarted' /\ JobsDiffer'
    BY <1>4 DEF CacheGone, NumberTypes, JobsDiffer
<1>5. ASSUME NEW j \in jobs, updateUserCache(j) \/ HIncrBy(j) \/ JobFails(j)
      PROVE  NumberTypes' /\ RedeemsStarted' /\ JobsDiffer'
  <2>1. JobsDiffer' /\ jobs' \subseteq jobs
      BY <1>5, JobEnds DEF updateUserCache, HIncrBy, JobFails
  <2>2. j.val \in Int
      BY DEF NumberTypes
  <2>3. CASE updateUserCache(j)
      BY <2>1, <2>2, <2>3 DEF updateUserCache, Fault, NumberTypes
  <2>4. CASE HIncrBy(j)
      BY <2>1, <2>2, <2>4 DEF HIncrBy, Fault, NumberTypes
  <2>5. CASE JobFails(j)
      BY <2>1, <2>2, <2>5 DEF JobFails, Fault, NumberTypes
  <2> QED
      BY <1>5, <2>3, <2>4, <2>5
<1>6. ASSUME NEW j \in jobs, CheckTTL(j)
      PROVE  NumberTypes' /\ RedeemsStarted' /\ JobsDiffer'
  <2>1. CASE cache = NoCache
    <3>1. JobsDiffer' /\ jobs' \subseteq jobs
        BY <1>6, <2>1, JobEnds DEF CheckTTL
    <3> QED
        BY <1>6, <2>1, <3>1 DEF CheckTTL, NumberTypes
  <2>2. CASE cache # NoCache
    <3>1. JobsDiffer' /\ jobs' \subseteq JobType
        BY <1>6, <2>2, JobChecked DEF CheckTTL, NumberTypes, JobType
    <3> QED
        BY <1>6, <2>2, <3>1 DEF CheckTTL, NumberTypes, JobType
  <2> QED
      BY <2>1, <2>2
<1>7. ASSUME TopUp \/ ManageUserOverride \/ RedeemRead \/ Redeem
      PROVE  NumberTypes' /\ RedeemsStarted' /\ JobsDiffer'
  <2>1. CASE TopUp
      BY <2>1 DEF TopUp, Op, NumberTypes, JobsDiffer
  <2>2. CASE ManageUserOverride
      BY <2>2 DEF ManageUserOverride, Op, NumberTypes, JobsDiffer
  <2>3. CASE RedeemRead
      BY <2>3 DEF RedeemRead, Op, NumberTypes, JobsDiffer
  <2>4. CASE Redeem
      BY <2>4 DEF Redeem, Op, NumberTypes, JobsDiffer
  <2> QED
      BY <1>7, <2>1, <2>2, <2>3, <2>4
<1>8. ASSUME CheckinTell \/ CheckinAward
      PROVE  NumberTypes' /\ RedeemsStarted' /\ JobsDiffer'
  <2>1. jobs' \subseteq JobType /\ JobsDiffer' /\ jobs' = jobs \cup {Incr(Award)} /\ Incr(Award).kind = "incr"
      BY <1>8, JobStarts DEF CheckinTell, CheckinAward, Incr
  <2>2. CASE CheckinTell
      BY <2>1, <2>2 DEF CheckinTell, NumberTypes, JobType
  <2>3. CASE CheckinAward
      BY <2>1, <2>3 DEF CheckinAward, NumberTypes, JobType
  <2> QED
      BY <1>8, <2>2, <2>3
<1>14. ASSUME CheckinTransaction \/ CheckinWrite \/ CheckinRollback
      PROVE  NumberTypes' /\ RedeemsStarted' /\ JobsDiffer'
  <2>1. CASE CheckinTransaction
      BY <2>1 DEF CheckinTransaction, Op, NumberTypes, JobsDiffer
  <2>2. CASE CheckinWrite
      BY <2>2 DEF CheckinWrite, NumberTypes, JobsDiffer
  <2>3. CASE CheckinRollback
      BY <2>3 DEF CheckinRollback, Fault, NumberTypes, JobsDiffer
  <2> QED
      BY <1>14, <2>1, <2>2, <2>3
<1>9. ASSUME CheckinCreate \/ TransferRead \/ TransferSave \/ UserRead
      PROVE  NumberTypes' /\ RedeemsStarted' /\ JobsDiffer'
  <2>1. CASE CheckinCreate
      BY <2>1 DEF CheckinCreate, Op, NumberTypes, JobsDiffer
  <2>2. CASE TransferRead
      BY <2>2 DEF TransferRead, Op, NumberTypes, JobsDiffer
  <2>3. CASE TransferSave
      BY <2>3 DEF TransferSave, Op, NumberTypes, JobsDiffer
  <2>4. CASE UserRead
      BY <2>4 DEF UserRead, Op, NumberTypes, JobsDiffer
  <2> QED
      BY <1>9, <2>1, <2>2, <2>3, <2>4
<1>10. ASSUME NEW q \in saves, UserUpdate(q)
       PROVE  NumberTypes' /\ RedeemsStarted' /\ JobsDiffer'
  <2>1. row' \in Int /\ q \in Int
      BY <1>10 DEF UserUpdate, NumberTypes
  <2>2. jobs' \subseteq JobType /\ JobsDiffer' /\ Refill(row').kind = "refill"
      BY <1>10, <2>1, JobStarts DEF UserUpdate, Refill
  <2> QED
      BY <1>10, <2>1, <2>2 DEF UserUpdate, NumberTypes, JobType
<1>11. ASSUME Crash
      PROVE  NumberTypes' /\ RedeemsStarted' /\ JobsDiffer'
    BY <1>11, FS_EmptySet DEF Crash, Fault, NumberTypes, JobsDiffer
<1>12. ASSUME UNCHANGED vars
      PROVE  NumberTypes' /\ RedeemsStarted' /\ JobsDiffer'
    BY <1>12 DEF vars, NumberTypes, JobsDiffer
<1>15. CASE UNCHANGED writes \/ Crash
  <2>1. WritesFinite'
      BY <1>15, FS_EmptySet DEF Crash, WritesFinite
  <2> QED
      BY <1>0, <1>1, <1>2, <1>3, <1>4, <1>5, <1>6, <1>7, <1>8, <1>9, <1>10, <1>11, <1>12, <1>13,
         <1>14, <2>1 DEF Next
<1>16. CASE ~(UNCHANGED writes \/ Crash)
  <2>1. \/ \E d \in {Charge, -Charge} : ChangeUserQuota(d)
        \/ \E j \in writes : WriteUserQuota(j) \/ WriteUserQuotaFails(j)
      BY <1>16, WritersOnly
  <2> QED
      BY <1>0, <1>1, <1>13, <2>1
<1> QED
    BY <1>15, <1>16

\* The types hold in every state.
LEMMA BaseAlways == Spec => []Base
    BY InitBase, BaseStep, PTL DEF Spec

-----------------------------------------------------------------------------
(* The row *)

LEMMA InitRow == Init => OneTransfer /\ QuotaConserved
BY Amounts DEF Init, OneTransfer, QuotaConserved, Balance, If

\* What codes, check-ins and referrals have given.
Given == If(code, CodeQuota) + If(checkin \in {"committed", "done"}, Award) + If(aff, AffQuota)

LEMMA GivenType == Given \in Int
<1>1. If(code, CodeQuota) \in Int
    BY Amounts DEF If
<1>2. If(checkin \in {"committed", "done"}, Award) \in Int
    BY Amounts DEF If
<1>3. If(aff, AffQuota) \in Int
    BY Amounts DEF If
<1> QED
    BY <1>1, <1>2, <1>3 DEF Given

LEMMA ConservedGiven ==
    ASSUME TypeOK
    PROVE  QuotaConserved <=> (~spoiled => Balance = Start + net + Given)
<1>1. If(code, CodeQuota) \in Int
    BY Amounts DEF If
<1>2. If(checkin \in {"committed", "done"}, Award) \in Int
    BY Amounts DEF If
<1>3. If(aff, AffQuota) \in Int
    BY Amounts DEF If
<1>4. net \in Int /\ Start \in Int
    BY Amounts DEF TypeOK, NumberTypes
<1> QED
    BY <1>1, <1>2, <1>3, <1>4 DEF Given, QuotaConserved

LEMMA RowStep ==
    ASSUME RowInv, Base', [Next]_vars
    PROVE  OneTransfer' /\ QuotaConserved'
<1> USE Amounts DEF RowInv, Base, TypeOK, NumberTypes, OneTransfer, QuotaConserved, Balance, If,
                    config, db, handlers
<1>1. ASSUME NEW j \in writes, WriteUserQuota(j)
      PROVE  OneTransfer' /\ QuotaConserved'
  <2> DEFINE d == j.val
  <2>1. OneTransfer' /\ net' = net + d /\ UNCHANGED <<code, checkin, aff, spoiled>>
      BY <1>1 DEF WriteUserQuota
  <2>2. Balance' = Balance + d
    <3>1. CASE batching
        BY <1>1, <3>1 DEF WriteUserQuota
    <3>2. CASE ~batching
        BY <1>1, <3>2 DEF WriteUserQuota
    <3> QED
        BY <3>1, <3>2
  <2>3. d \in Int /\ net \in Int /\ Start \in Int /\ Given \in Int
      BY GivenType
  <2>4. Given' = Given
      BY <2>1 DEF Given
  <2> HIDE DEF Balance, QuotaConserved
  <2>5. Balance = Start + net + Given => Balance' = Start + net' + Given'
      BY <2>1, <2>2, <2>3, <2>4
  <2>6. (TypeOK => (QuotaConserved <=> (~spoiled => Balance = Start + net + Given)))'
      BY ConservedGiven, PTL
  <2> QED
      BY <2>1, <2>5, <2>6, ConservedGiven
<1>2. ASSUME NEW d \in {Charge, -Charge}, ChangeUserQuota(d)
      PROVE  OneTransfer' /\ QuotaConserved'
    BY <1>2 DEF ChangeUserQuota
<1>21. ASSUME NEW j \in writes, WriteUserQuotaFails(j)
      PROVE  OneTransfer' /\ QuotaConserved'
    BY <1>21 DEF WriteUserQuotaFails
<1>3. ASSUME BatchUpdate PROVE OneTransfer' /\ QuotaConserved'
    BY <1>3 DEF BatchUpdate
<1>4. ASSUME BatchWrite PROVE OneTransfer' /\ QuotaConserved'
    BY <1>4 DEF BatchWrite
<1>5. ASSUME BatchWriteFails PROVE OneTransfer' /\ QuotaConserved'
    BY <1>5 DEF BatchWriteFails
<1>6. ASSUME GetUserCache \/ CacheGone PROVE OneTransfer' /\ QuotaConserved'
    BY <1>6 DEF GetUserCache, CacheGone
<1>7. ASSUME NEW j \in jobs, updateUserCache(j) \/ CheckTTL(j) \/ HIncrBy(j) \/ JobFails(j)
      PROVE  OneTransfer' /\ QuotaConserved'
    BY <1>7 DEF updateUserCache, CheckTTL, HIncrBy, JobFails
<1>8. ASSUME TopUp PROVE OneTransfer' /\ QuotaConserved'
    BY <1>8 DEF TopUp
<1>9. ASSUME ManageUserOverride PROVE OneTransfer' /\ QuotaConserved'
    BY <1>9 DEF ManageUserOverride
<1>10. ASSUME RedeemRead PROVE OneTransfer' /\ QuotaConserved'
    BY <1>10 DEF RedeemRead
<1>11. ASSUME Redeem PROVE OneTransfer' /\ QuotaConserved'
  <2>1. CASE code
      BY <1>11, <2>1 DEF Redeem
  <2>2. CASE ~code
    <3>1. row' = row + CodeQuota /\ code' = TRUE /\ spoiled' = spoiled
        BY <1>11, <2>2, Zenon DEF Redeem, FlagTypes
    <3>2. UNCHANGED <<store, writing, transfer, aff, net, checkin>>
        BY <1>11 DEF Redeem
    <3>3. CodeQuota \in Int /\ row \in Int
        OBVIOUS
    <3> QED
        BY <2>2, <3>1, <3>2, <3>3
  <2> QED
      BY <2>1, <2>2
<1>12. ASSUME CheckinTransaction PROVE OneTransfer' /\ QuotaConserved'
    BY <1>12 DEF CheckinTransaction
<1>13. ASSUME CheckinCreate \/ CheckinRollback \/ CheckinAward PROVE OneTransfer' /\ QuotaConserved'
    BY <1>13 DEF CheckinCreate, CheckinRollback, CheckinAward
<1>14. ASSUME CheckinWrite PROVE OneTransfer' /\ QuotaConserved'
    BY <1>14 DEF CheckinWrite
<1>22. ASSUME CheckinTell PROVE OneTransfer' /\ QuotaConserved'
    BY <1>22 DEF CheckinTell
<1>15. ASSUME TransferRead PROVE OneTransfer' /\ QuotaConserved'
    BY <1>15 DEF TransferRead
<1>16. ASSUME TransferSave PROVE OneTransfer' /\ QuotaConserved'
    BY <1>16 DEF TransferSave
<1>17. ASSUME UserRead PROVE OneTransfer' /\ QuotaConserved'
    BY <1>17 DEF UserRead
<1>18. ASSUME NEW q \in saves, UserUpdate(q) PROVE OneTransfer' /\ QuotaConserved'
    BY <1>18 DEF UserUpdate
<1>19. ASSUME Crash PROVE OneTransfer' /\ QuotaConserved'
    BY <1>19 DEF Crash
<1>20. ASSUME UNCHANGED vars PROVE OneTransfer' /\ QuotaConserved'
    BY <1>20 DEF vars
<1> QED
    BY <1>1, <1>2, <1>3, <1>4, <1>5, <1>6, <1>7, <1>8, <1>9, <1>10, <1>11, <1>12, <1>13, <1>14,
       <1>15, <1>16, <1>17, <1>18, <1>19, <1>20, <1>21, <1>22 DEF Next

LEMMA RowAlways == Spec => []RowInv
<1>1. Init => RowInv
    BY InitBase, InitRow DEF RowInv
<1>2. RowInv /\ [Next]_vars => RowInv'
    BY BaseStep, RowStep DEF RowInv
<1> QED
    BY <1>1, <1>2, PTL DEF Spec

-----------------------------------------------------------------------------
(* The cache *)

\* The integers that a state of the right type has.
LEMMA Numbers ==
    ASSUME Base
    PROVE  /\ Balance \in Int /\ row \in Int /\ store \in Int /\ writing \in Int /\ Known \in Int
           /\ cache # NoCache => cache \in Int
           /\ jobs \in SUBSET JobType /\ writes \in SUBSET JobType
           /\ \A j \in jobs : j.val \in Int
           /\ \A j \in writes : j.val \in Int
<1>1. NumberTypes
    BY DEF Base, TypeOK
<1>2. Balance \in Int
    BY <1>1 DEF NumberTypes, Balance
<1>3. If(checkin = "awarding", Award) \in Int /\ If(checkin = "committed", Award) \in Int
    BY Amounts DEF If
<1>4. Known \in Int
    BY <1>2, <1>3 DEF Known
<1> QED
    BY <1>1, <1>2, <1>4 DEF NumberTypes, JobType

LEMMA InitTracks == Init => Tracks
<1> SUFFICES ASSUME Init PROVE Tracks
    OBVIOUS
<1>1. jobs = {} /\ writes = {} /\ ~Refilling
    BY DEF Init, Refilling
<1>2. cache = NoCache \/ (Known + 0) - cache = 0
    BY Amounts DEF Init, Balance, Known, If
<1>3. cache = NoCache \/ Adds
    BY <1>1, <1>2, SumEmpty DEF Adds
<1> QED
    BY <1>1, <1>3 DEF Tracks

\* The sums still hold after a step that leaves cache, goroutines, requests and
\* what is known alone.
LEMMA AddsStays ==
    ASSUME Adds, UNCHANGED <<jobs, writes, cache>>, Known' = Known
    PROVE  Adds'
BY DEF Adds

\* Steps that leave all this alone.
LEMMA Quiet ==
    ASSUME Tracks, UNCHANGED <<jobs, writes, cache>>, Balance' = Balance, Known' = Known,
           checkin' \notin {"awarding", "committed"} \/ checkin' = checkin, ~stale' => ~stale
    PROVE  Tracks'
<1>1. Adds => Adds'
    BY AddsStays
<1>2. RefillAlone => RefillAlone'
    BY DEF RefillAlone
<1> QED
    BY <1>1, <1>2 DEF Tracks, Refilling

\* What is known and the balance change together, while no check-in is between
\* its steps.
LEMMA KnownMoves ==
    ASSUME Base, UNCHANGED checkin, NEW d \in Int, Balance' = Balance + d
    PROVE  Known' = Known + d
<1>1. If(checkin = "awarding", Award) \in Int /\ If(checkin = "committed", Award) \in Int
    BY Amounts DEF If
<1>2. Balance \in Int
    BY Numbers
<1> QED
    BY <1>1, <1>2 DEF Known

\* A goroutine more, and what is known or to be written is more by as much.
LEMMA MoreToAdd ==
    ASSUME Base, Adds, cache # NoCache, NEW d \in Int, jobs' = jobs \cup {Incr(d)}, cache' = cache,
           \/ Known' = Known + d /\ writes' = writes
           \/ Known' = Known /\ writes' = writes \cup {Write(d)}
    PROVE  Adds'
<1>1. PICK w \in Int : SumIs(writes, w) /\ SumIs(jobs, (Known + w) - cache)
    BY DEF Adds
<1>2. Incr(d) \in JobType /\ Incr(d) \notin jobs /\ Incr(d).val = d
    BY JobStarts DEF Base, Incr
<1>3. (Known + w) - cache \in Int /\ jobs \in SUBSET JobType /\ writes \in SUBSET JobType
    BY Numbers
<1>4. SumIs(jobs', ((Known + w) - cache) + d)
  <2>1. SumIs(jobs \cup {Incr(d)}, ((Known + w) - cache) + Incr(d).val)
      BY <1>1, <1>2, <1>3, SumAdd
  <2> QED
      BY <1>2, <2>1
<1>5. CASE Known' = Known + d /\ writes' = writes
  <2>1. ((Known + w) - cache) + d = (Known' + w) - cache'
      BY <1>5, Numbers
  <2> QED
      BY <1>1, <1>4, <1>5, <2>1 DEF Adds
<1>6. CASE Known' = Known /\ writes' = writes \cup {Write(d)}
  <2>1. Write(d) \in JobType /\ Write(d) \notin writes /\ Write(d).val = d
      BY <1>6, WriteStarts DEF Base
  <2>2. SumIs(writes \cup {Write(d)}, w + Write(d).val)
      BY <1>1, <1>3, <2>1, SumAdd
  <2>3. SumIs(writes', w + d) /\ w + d \in Int
      BY <1>6, <2>1, <2>2
  <2>4. ((Known + w) - cache) + d = (Known' + (w + d)) - cache'
      BY <1>6, Numbers
  <2> QED
      BY <1>4, <2>3, <2>4 DEF Adds
<1> QED
    BY <1>5, <1>6

\* A goroutine that tells the cache is started while no refill is under way.
LEMMA ToldStep ==
    ASSUME Base, Tracks, ~Refilling \/ stale' = TRUE, stale => stale' = TRUE,
           NEW d \in Int, jobs' = jobs \cup {Incr(d)}, cache' = cache,
           \/ Known' = Known + d /\ writes' = writes
           \/ Known' = Known /\ writes' = writes \cup {Write(d)}
    PROVE  Tracks'
<1>1. SUFFICES ASSUME ~stale' PROVE Tracks'
    BY DEF Tracks
<1>2. ~stale /\ ~Refilling
    BY <1>1
<1>3. Incr(d).kind = "incr"
    BY DEF Incr
<1>4. ~Refilling'
    BY <1>2, <1>3 DEF Refilling
<1>5. cache = NoCache \/ Adds
    BY <1>2 DEF Tracks, RefillAlone, Refilling
<1>6. cache = NoCache \/ Adds'
    BY <1>5, MoreToAdd
<1> QED
    BY <1>4, <1>6 DEF Tracks

\* A change that the cache is not told of.
LEMMA UntoldStep ==
    ASSUME Untold, jobs' = jobs, cache' = cache
    PROVE  Tracks'
<1>1. SUFFICES ASSUME ~stale' PROVE Tracks'
    BY DEF Tracks
<1>2. ~Refilling /\ cache = NoCache
    BY <1>1, Zenon DEF Untold
<1> QED
    BY <1>2 DEF Tracks, Refilling

\* A request writes the quota it has told the cache of.
LEMMA WriteStep ==
    ASSUME Base, Tracks, NEW j \in writes, WriteUserQuota(j)
    PROVE  Tracks'
<1>1. SUFFICES ASSUME ~stale' PROVE Tracks'
    BY DEF Tracks
<1>2. ~stale /\ writes' = writes \ {j} /\ UNCHANGED <<jobs, cache, checkin>>
    BY <1>1 DEF WriteUserQuota, handlers
<1>3. j.val \in Int
    BY Numbers
<1>4. Balance' = Balance + j.val
  <2>1. CASE batching
      BY <1>3, <2>1, Numbers DEF WriteUserQuota, Balance
  <2>2. CASE ~batching
      BY <1>3, <2>2, Numbers DEF WriteUserQuota, Balance
  <2> QED
      BY <2>1, <2>2
<1>5. Known' = Known + j.val
    BY <1>2, <1>3, <1>4, KnownMoves
<1>6. ~Refilling /\ (cache = NoCache \/ Adds)
    BY <1>2 DEF Tracks, RefillAlone
<1>7. ~Refilling'
    BY <1>2, <1>6 DEF Refilling
<1>8. ASSUME cache # NoCache PROVE Adds'
  <2>1. PICK w \in Int : SumIs(writes, w) /\ SumIs(jobs, (Known + w) - cache)
      BY <1>6, <1>8 DEF Adds
  <2>2. SumIs(writes', w - j.val) /\ w - j.val \in Int
    <3>1. writes \in SUBSET JobType
        BY Numbers
    <3>2. SumIs(writes \ {j}, w - j.val)
        BY <2>1, <3>1, SumRemove
    <3> QED
        BY <1>2, <1>3, <3>2
  <2>3. (Known + w) - cache = (Known' + (w - j.val)) - cache'
      BY <1>2, <1>3, <1>5, <1>8, Numbers
  <2> QED
      BY <1>2, <2>1, <2>2, <2>3 DEF Adds
<1> QED
    BY <1>2, <1>7, <1>8 DEF Tracks

\* The row is read, or written, and a goroutine fills the cache with it.
LEMMA RefillStep ==
    ASSUME Base, row' \in Int, stale' = Underway,
           jobs' = jobs \cup {Refill(row')}, UNCHANGED <<store, writing, writes, checkin>>
    PROVE  Tracks'
<1>1. SUFFICES ASSUME ~stale' PROVE Tracks'
    BY DEF Tracks
<1>2. jobs = {} /\ writes = {} /\ store + writing = 0 /\ checkin \notin {"awarding", "committed"}
    BY <1>1, Zenon DEF Underway
<1>3. jobs' = {Refill(row')}
    BY <1>2
<1>4. Balance' = row'
  <2>1. store \in Int /\ writing \in Int /\ store' = store /\ writing' = writing
      BY Numbers
  <2>2. \A r, a, b \in Int : a + b = 0 => (r + a) + b = r
      OBVIOUS
  <2>3. Balance' = (row' + store) + writing
      BY <2>1, Zenon DEF Balance
  <2> QED
      BY <1>2, <2>1, <2>2, <2>3, Zenon
<1>5. Refill(row').kind = "refill" /\ Refill(row').val = row'
    BY DEF Refill
<1> QED
    BY <1>2, <1>3, <1>4, <1>5 DEF Tracks, RefillAlone

\* The goroutine fills the cache.
LEMMA UpdateStep ==
    ASSUME Base, Tracks, NEW j \in jobs, updateUserCache(j)
    PROVE  Tracks'
<1>1. SUFFICES ASSUME ~stale' PROVE Tracks'
    BY DEF Tracks
<1>2. /\ ~stale /\ j.kind = "refill" /\ jobs' = jobs \ {j} /\ cache' = j.val
      /\ Balance' = Balance /\ Known' = Known /\ writes' = writes
    BY <1>1 DEF updateUserCache, db, handlers, Balance, Known
<1>0. jobs = {j} /\ j.val = Balance /\ writes = {} /\ checkin \notin {"awarding", "committed"}
    BY <1>2 DEF Tracks, Refilling, RefillAlone
<1>3. jobs = {j} /\ j.val = Balance /\ writes = {} /\ Known = Balance
    BY <1>0, Numbers DEF Known, If
<1>4. jobs' = {} /\ writes' = {} /\ ~Refilling'
    BY <1>2, <1>3 DEF Refilling
<1>5. (Known' + 0) - cache' = 0
    BY <1>2, <1>3, Numbers
<1>6. Adds'
    BY <1>4, <1>5, SumEmpty DEF Adds
<1> QED
    BY <1>4, <1>6 DEF Tracks

\* The goroutine looks whether there is a hash.
LEMMA CheckStep ==
    ASSUME Base, Tracks, NEW j \in jobs, CheckTTL(j)
    PROVE  Tracks'
<1>1. SUFFICES ASSUME ~stale' PROVE Tracks'
    BY DEF Tracks
<1>2. ~stale /\ j.kind = "incr" /\ cache' = cache /\ Known' = Known /\ writes' = writes
    BY <1>1 DEF CheckTTL, db, handlers, Balance, Known
<1>3. ~Refilling /\ (cache = NoCache \/ Adds)
    BY <1>2 DEF Tracks, RefillAlone
<1>4. CASE cache = NoCache
  <2>1. jobs' \subseteq jobs
      BY <1>4 DEF CheckTTL
  <2> QED
      BY <1>2, <1>3, <1>4, <2>1 DEF Tracks, Refilling
<1>5. CASE cache # NoCache
  <2>0. PICK w \in Int : SumIs(writes, w) /\ SumIs(jobs, (Known + w) - cache)
      BY <1>3, <1>5 DEF Adds
  <2> DEFINE k == [j EXCEPT !.kind = "checked"]
             S == jobs \ {j}
             u == (Known + w) - cache
             v == u - j.val
  <2>1. jobs' = S \cup {k}
      BY <1>5 DEF CheckTTL
  <2>2. k \in JobType /\ k \notin S
      BY <2>1, JobChecked DEF Base
  <2>3. k.val = j.val /\ k.kind = "checked"
      BY Numbers DEF JobType
  <2>4. u \in Int /\ j.val \in Int /\ jobs \in SUBSET JobType
      BY <1>5, Numbers
  <2>5. SumIs(S, v)
    <3> HIDE DEF u
    <3> QED
        BY <2>0, <2>4, SumRemove DEF u
  <2>6. S \in SUBSET JobType /\ v \in Int
      BY <2>4
  <2>7. SumIs(S \cup {k}, v + k.val)
    <3> HIDE DEF k, S, v
    <3> QED
        BY <2>2, <2>5, <2>6, SumAdd
  <2>8. v + k.val = (Known' + w) - cache'
      BY <1>2, <2>3, <2>4
  <2>9. ~Refilling'
      BY <1>3, <2>1, <2>3 DEF Refilling
  <2>10. Adds'
      BY <1>2, <2>0, <2>1, <2>7, <2>8 DEF Adds
  <2> QED
      BY <2>9, <2>10 DEF Tracks
<1> QED
    BY <1>4, <1>5

\* The goroutine adds to the cache.
LEMMA HIncrStep ==
    ASSUME Base, Tracks, NEW j \in jobs, HIncrBy(j)
    PROVE  Tracks'
<1>1. SUFFICES ASSUME ~stale' PROVE Tracks'
    BY DEF Tracks
<1>2. ~stale /\ cache # NoCache
    BY <1>1, Zenon DEF HIncrBy
<1>3. /\ j.kind = "checked" /\ cache' = cache + j.val /\ Known' = Known
      /\ jobs' = jobs \ {j} /\ writes' = writes
    BY <1>2 DEF HIncrBy, db, handlers, Balance, Known
<1>4. ~Refilling /\ Adds
    BY <1>2, <1>3 DEF Tracks, RefillAlone
<1>5. PICK w \in Int : SumIs(writes, w) /\ SumIs(jobs, (Known + w) - cache)
    BY <1>4 DEF Adds
<1>6. SumIs(jobs \ {j}, ((Known + w) - cache) - j.val)
  <2>1. (Known + w) - cache \in Int /\ jobs \in SUBSET JobType
      BY <1>2, Numbers
  <2> QED
      BY <1>5, <2>1, SumRemove
<1>7. ((Known + w) - cache) - j.val = (Known' + w) - cache'
    BY <1>2, <1>3, Numbers
<1>8. ~Refilling'
    BY <1>3, <1>4 DEF Refilling
<1>9. Adds'
    BY <1>3, <1>5, <1>6, <1>7 DEF Adds
<1> QED
    BY <1>8, <1>9 DEF Tracks

\* The process ends.
LEMMA CrashStep ==
    ASSUME Base, Tracks, Crash
    PROVE  Tracks'
<1>1. SUFFICES ASSUME ~stale' PROVE Tracks'
    BY DEF Tracks
<1>2. /\ ~stale /\ store + writing = 0 /\ jobs = {} /\ writes = {}
      /\ checkin \notin {"awarding", "committed"}
    BY <1>1, Zenon DEF Crash, Underway
<1>3. /\ jobs' = {} /\ writes' = {} /\ row' = row /\ cache' = cache /\ store' = 0 /\ writing' = 0
      /\ checkin' \notin {"awarding", "committed"}
    BY <1>2 DEF Crash
<1>4. Balance' = Balance /\ ~Refilling'
    BY <1>2, <1>3, Numbers DEF Balance, Refilling
<1>5. Known = Balance /\ Known' = Balance'
    BY <1>2, <1>3, <1>4, Numbers DEF Known, If
<1>6. cache = NoCache \/ Adds
    BY <1>2 DEF Tracks, RefillAlone
<1>7. cache = NoCache \/ Adds'
    BY <1>2, <1>3, <1>4, <1>5, <1>6, AddsStays
<1> QED
    BY <1>3, <1>4, <1>7 DEF Tracks

\* A check-in in a transaction: the quota is written and nobody is told yet.
LEMMA CommittedStep ==
    ASSUME Base, Tracks, CheckinTransaction
    PROVE  Tracks'
<1>1. SUFFICES ASSUME ~stale' PROVE Tracks'
    BY DEF Tracks
<1>2. ~stale /\ ~Refilling
    BY <1>1, Zenon DEF CheckinTransaction, Told
<1>3. UNCHANGED <<jobs, writes, cache>>
    BY DEF CheckinTransaction
<1>4. Known' = Known
  <2>1. /\ checkin = "no" /\ checkin' = "committed" /\ row' = row + Award
        /\ UNCHANGED <<store, writing>>
      BY DEF CheckinTransaction
  <2>2. Balance' = Balance + Award /\ Balance \in Int
      BY <2>1, Amounts, Numbers DEF Balance
  <2> QED
      BY <2>1, <2>2, Amounts DEF Known, If
<1>5. cache = NoCache \/ Adds
    BY <1>2 DEF Tracks, RefillAlone, Refilling
<1> QED
    BY <1>2, <1>3, <1>4, <1>5, AddsStays DEF Tracks, Refilling

LEMMA TracksStep ==
    ASSUME Base, Base', Tracks, [Next]_vars
    PROVE  Tracks'
<1> USE DEF config, db, handlers
<1>1. ASSUME NEW d \in {Charge, -Charge}, ChangeUserQuota(d)
      PROVE  Tracks'
  <2>1. d \in Int
      BY Amounts
  <2>2. Known' = Known /\ writes' = writes \cup {Write(d)} /\ jobs' = jobs \cup {Incr(d)} /\ cache' = cache
      BY <1>1 DEF ChangeUserQuota, Known, Balance
  <2>3. (~Refilling \/ stale' = TRUE) /\ (stale => stale' = TRUE)
      BY <1>1, Zenon DEF ChangeUserQuota, Told
  <2> QED
      BY <2>1, <2>2, <2>3, ToldStep
<1>2. ASSUME NEW j \in writes, WriteUserQuota(j) PROVE Tracks'
    BY <1>2, WriteStep
<1>26. ASSUME NEW j \in writes, WriteUserQuotaFails(j) PROVE Tracks'
    BY <1>26 DEF WriteUserQuotaFails, Tracks
<1>3. ASSUME BatchUpdate PROVE Tracks'
  <2>1. Balance' = Balance
      BY <1>3, Numbers DEF BatchUpdate, Balance
  <2> QED
      BY <1>3, <2>1, Quiet DEF BatchUpdate, Known
<1>4. ASSUME BatchWrite PROVE Tracks'
  <2>1. Balance' = Balance
      BY <1>4, Numbers DEF BatchWrite, Balance
  <2> QED
      BY <1>4, <2>1, Quiet DEF BatchWrite, Known
<1>5. ASSUME BatchWriteFails PROVE Tracks'
    BY <1>5 DEF BatchWriteFails, Tracks
<1>6. ASSUME GetUserCache PROVE Tracks'
    BY <1>6, RefillStep, Numbers DEF GetUserCache
<1>7. ASSUME CacheGone PROVE Tracks'
  <2>1. cache' = NoCache /\ UNCHANGED <<jobs, writes, stale, checkin>> /\ Balance' = Balance /\ Known' = Known
      BY <1>7 DEF CacheGone, Balance, Known
  <2>2. RefillAlone => RefillAlone'
      BY <2>1 DEF RefillAlone
  <2> QED
      BY <2>1, <2>2 DEF Tracks, Refilling
<1>8. ASSUME NEW j \in jobs, updateUserCache(j) PROVE Tracks'
    BY <1>8, UpdateStep
<1>9. ASSUME NEW j \in jobs, CheckTTL(j) PROVE Tracks'
    BY <1>9, CheckStep
<1>10. ASSUME NEW j \in jobs, HIncrBy(j) PROVE Tracks'
    BY <1>10, HIncrStep
<1>11. ASSUME NEW j \in jobs, JobFails(j) PROVE Tracks'
    BY <1>11 DEF JobFails, Tracks
<1>12. ASSUME TopUp PROVE Tracks'
    BY <1>12, UntoldStep DEF TopUp
<1>13. ASSUME ManageUserOverride PROVE Tracks'
    BY <1>13, UntoldStep DEF ManageUserOverride
<1>14. ASSUME RedeemRead PROVE Tracks'
    BY <1>14, Quiet DEF RedeemRead, Balance, Known
<1>15. ASSUME Redeem PROVE Tracks'
    BY <1>15, UntoldStep DEF Redeem
<1>16. ASSUME CheckinTransaction PROVE Tracks'
    BY <1>16, CommittedStep
<1>27. ASSUME CheckinTell PROVE Tracks'
  <2>1. /\ checkin = "committed" /\ checkin' = "done" /\ Balance' = Balance
        /\ jobs' = jobs \cup {Incr(Award)} /\ UNCHANGED <<writes, cache, stale>>
      BY <1>27 DEF CheckinTell, Balance
  <2>2. Known' = Known + Award
      BY <2>1, Amounts, Numbers DEF Known, If
  <2>3. (~Refilling \/ stale' = TRUE) /\ (stale => stale' = TRUE)
    <3>1. stale \in BOOLEAN
        BY DEF Base, TypeOK, FlagTypes
    <3> QED
        BY <2>1, <3>1 DEF Tracks, RefillAlone
  <2> QED
      BY <2>1, <2>2, <2>3, Amounts, ToldStep
<1>17. ASSUME CheckinCreate PROVE Tracks'
    BY <1>17, Quiet DEF CheckinCreate, Balance, Known
<1>18. ASSUME CheckinAward PROVE Tracks'
  <2>1. /\ checkin = "created" /\ checkin' = "awarding" /\ Balance' = Balance
        /\ jobs' = jobs \cup {Incr(Award)} /\ UNCHANGED <<writes, cache>>
      BY <1>18 DEF CheckinAward, Balance
  <2>2. Known' = Known + Award
      BY <2>1, Amounts, Numbers DEF Known, If
  <2>3. (~Refilling \/ stale' = TRUE) /\ (stale => stale' = TRUE)
      BY <1>18, Zenon DEF CheckinAward, Told
  <2> QED
      BY <2>1, <2>2, <2>3, Amounts, ToldStep
<1>28. ASSUME CheckinWrite PROVE Tracks'
  <2>1. /\ checkin = "awarding" /\ checkin' = "done" /\ row' = row + Award
        /\ UNCHANGED <<store, writing, jobs, writes, cache, stale>>
      BY <1>28 DEF CheckinWrite
  <2>2. Balance' = Balance + Award
      BY <2>1, Amounts, Numbers DEF Balance
  <2>3. Known' = Known
      BY <2>1, <2>2, Amounts, Numbers DEF Known, If
  <2> QED
      BY <2>1, <2>3, AddsStays DEF Tracks, RefillAlone, Refilling
<1>19. ASSUME CheckinRollback PROVE Tracks'
    BY <1>19 DEF CheckinRollback, Tracks
<1>20. ASSUME TransferRead PROVE Tracks'
    BY <1>20, Quiet DEF TransferRead, Balance, Known
<1>21. ASSUME TransferSave PROVE Tracks'
    BY <1>21, UntoldStep DEF TransferSave
<1>22. ASSUME UserRead PROVE Tracks'
    BY <1>22, Quiet DEF UserRead, Balance, Known
<1>23. ASSUME NEW q \in saves, UserUpdate(q) PROVE Tracks'
  <2>1. row' \in Int
      BY DEF Base, TypeOK, NumberTypes
  <2> QED
      BY <1>23, <2>1, RefillStep DEF UserUpdate
<1>24. ASSUME Crash PROVE Tracks'
    BY <1>24, CrashStep
<1>25. ASSUME UNCHANGED vars PROVE Tracks'
    BY <1>25, Quiet DEF vars, Balance, Known
<1> QED
    BY <1>1, <1>2, <1>3, <1>4, <1>5, <1>6, <1>7, <1>8, <1>9, <1>10, <1>11, <1>12, <1>13, <1>14,
       <1>15, <1>16, <1>17, <1>18, <1>19, <1>20, <1>21, <1>22, <1>23, <1>24, <1>25, <1>26, <1>27,
       <1>28 DEF Next

LEMMA CacheAlways == Spec => []CacheInv
<1>1. Init => CacheInv
    BY InitBase, InitTracks DEF CacheInv
<1>2. CacheInv /\ [Next]_vars => CacheInv'
    BY BaseStep, TracksStep DEF CacheInv
<1> QED
    BY <1>1, <1>2, PTL DEF Spec

-----------------------------------------------------------------------------
(* The theorems *)

(***************************************************************************)
(* The variables keep their types, whatever the amounts and the bounds:    *)
(* every quota is a number, and no step leaves a goroutine malformed.      *)
(***************************************************************************)
THEOREM QuotaTypes == Spec => []TypeOK
<1>1. Base => TypeOK
    BY DEF Base
<1> QED
    BY <1>1, BaseAlways, PTL

(***************************************************************************)
(* For any amounts and any run of IncreaseUserQuota, DecreaseUserQuota,    *)
(* the batch updater, top-ups, redemption, check-ins, transfers and        *)
(* User.Update: what the user has is what the operations leave, unless a   *)
(* write was lost in one of the ways that spoiled records.                 *)
(***************************************************************************)
THEOREM QuotaIsConserved == Spec => []QuotaConserved
<1>1. RowInv => QuotaConserved
    BY DEF RowInv
<1> QED
    BY <1>1, RowAlways, PTL

(***************************************************************************)
(* However many requests change the quota and goroutines update the hash,  *)
(* and however their steps, the writes that come after a goroutine was     *)
(* started and the expiry of the hash interleave: once they are done the   *)
(* cached quota is what the user has, unless the cache missed a change in  *)
(* one of the ways that stale records.                                     *)
(***************************************************************************)
THEOREM CacheFollowsQuota == Spec => []CacheTracksQuota
<1>1. CacheInv => CacheTracksQuota
  <2> SUFFICES ASSUME CacheInv, ~stale, jobs = {}, writes = {}, cache # NoCache,
                      checkin \notin {"awarding", "committed"}
               PROVE  cache = Balance
      BY DEF CacheTracksQuota
  <2>1. Balance \in Int /\ cache \in Int
      BY Numbers DEF CacheInv
  <2>2. PICK w \in Int : SumIs({}, w) /\ SumIs({}, (Known + w) - cache)
      BY DEF CacheInv, Tracks, Adds, RefillAlone
  <2>3. Known = Balance
      BY <2>1 DEF Known, If
  <2>4. w = 0
      BY <2>2, SumOfEmpty
  <2>5. (Known + w) - cache = 0
      BY <2>1, <2>2, <2>3, SumOfEmpty
  <2> QED
      BY <2>1, <2>3, <2>4, <2>5
<1> QED
    BY <1>1, CacheAlways, PTL

=============================================================================
