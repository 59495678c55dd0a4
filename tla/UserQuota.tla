----------------------------- MODULE UserQuota -----------------------------
(***************************************************************************)
(* Where a user's quota is kept: the column users.quota, the deltas that   *)
(* the batch updater has collected but not written (model/utils.go), and   *)
(* the Quota field of the user's hash in Redis (model/user_cache.go);      *)
(* and everything that changes it: requests, top-ups, redemption codes,    *)
(* check-ins, referral transfers, administrators.                          *)
(*                                                                         *)
(* One process.  A handler's transaction that reads and later writes is    *)
(* two steps; other writes may come between, except on SQLite, which has   *)
(* one writer (the row locks the code asks for are not taken, see          *)
(* SubscriptionLifecycle).  A cache update runs in a goroutine of its own, *)
(* which is started before the quota is written, or after it.              *)
(***************************************************************************)
EXTENDS Integers, FiniteSets

CONSTANTS
    Start,       \* the quota at the beginning
    Charge,      \* the quota of a request
    Credit,      \* the quota of a top-up order
    CodeQuota,   \* Redemption.Quota
    Award,       \* Checkin.QuotaAwarded
    AffQuota,    \* the referral quota a user transfers
    Override,    \* the quota an administrator sets
    NoCache,     \* the hash does not exist
    MaxOps,      \* bound: operations started
    MaxFaults    \* bound: failing statements and crashes

ASSUME QuotaAssumption ==
    /\ {Start, Charge, Credit, CodeQuota, Award, AffQuota, Override} \subseteq Nat
    /\ NoCache \notin Int
    /\ MaxOps \in Nat /\ MaxFaults \in Nat

VARIABLES
    sqlite,     \* common.UsingSQLite
    batching,   \* common.BatchUpdateEnabled
    row,        \* users.quota
    store,      \* batchUpdateStores[BatchUpdateTypeUserQuota]
    writing,    \* the delta that batchUpdate has taken out of the store
    cache,      \* the field Quota of the hash in Redis
    jobs,       \* goroutines that update the cache
    writes,     \* requests that have started theirs and not yet written the quota
    saves,      \* quotas read by handlers that will save the whole row
    code,       \* the redemption code is used
    redeems,    \* transactions that have found it enabled
    checkin,    \* today's check-in
    transfer,   \* the quota read by TransferAffQuotaToQuota, NoCache for none
    aff,        \* the referral quota has been transferred
    net,        \* history: what requests, top-ups and administrators changed
    spoiled,    \* history: a write was lost
    stale,      \* history: the cache may have missed or doubled a change
    ops, faults

config == <<sqlite, batching>>
db == <<row, store, writing>>
handlers == <<saves, code, redeems, checkin, transfer, aff>>
vars == <<config, db, cache, jobs, writes, handlers, net, spoiled, stale, ops, faults>>

Init ==
    /\ sqlite \in BOOLEAN /\ batching \in BOOLEAN
    /\ row = Start /\ store = 0 /\ writing = 0
    /\ cache \in {NoCache, Start}
    /\ jobs = {} /\ writes = {} /\ saves = {}
    /\ code = FALSE /\ redeems = 0
    /\ checkin = "no"
    /\ transfer = NoCache /\ aff = FALSE
    /\ net = 0 /\ spoiled = FALSE /\ stale = FALSE
    /\ ops = 0 /\ faults = 0

-----------------------------------------------------------------------------
Op == ops < MaxOps /\ ops' = ops + 1
Fault == faults < MaxFaults /\ faults' = faults + 1

\* SQLite waits for the transaction that is open.
WriterFree == sqlite => redeems = 0 /\ transfer = NoCache

\* What the user has: the row and the deltas on their way to it.
Balance == row + store + writing

Refilling == \E j \in jobs : j.kind = "refill"

\* A change that the cache is told of goes wrong if a refill is on its way.
Told == stale' = (stale \/ Refilling)

\* A change that only the row is told of.
Untold == stale' = (stale \/ Refilling \/ cache # NoCache)

\* A change is on its way to the row or to the cache.
Underway ==
    jobs # {} \/ writes # {} \/ store + writing # 0 \/ checkin \in {"awarding", "committed"}

\* A number that nobody in S has: two of them may do the same.
FreshId(S) == CHOOSE i \in 0 .. Cardinality(S) : \A j \in S : j.id # i

Incr(d) == [id |-> FreshId(jobs), kind |-> "incr", val |-> d]
Refill(q) == [id |-> FreshId(jobs), kind |-> "refill", val |-> q]
Write(d) == [id |-> FreshId(writes), kind |-> "write", val |-> d]

-----------------------------------------------------------------------------
(* Requests: IncreaseUserQuota, DecreaseUserQuota *)

\* Mutant: a delta that goes to the batch updater is not told to the cache.
ChangeUserQuotaUncached(d) ==
    /\ Op
    /\ jobs' = IF batching THEN jobs ELSE jobs \cup {Incr(d)}
    /\ writes' = writes \cup {Write(d)}
    /\ Told
    /\ UNCHANGED <<config, db, cache, handlers, net, spoiled, faults>>

\* The goroutine that tells the cache is started first ...
ChangeUserQuota(d) ==
    /\ Op
    /\ jobs' = jobs \cup {Incr(d)}
    /\ writes' = writes \cup {Write(d)}
    /\ Told
    /\ UNCHANGED <<config, db, cache, handlers, net, spoiled, faults>>

\* ... then the quota goes to the batch updater or to the row ...
WriteUserQuota(j) ==
    /\ IF batching THEN store' = store + j.val /\ UNCHANGED row
                   ELSE WriterFree /\ row' = row + j.val /\ UNCHANGED store
    /\ writes' = writes \ {j}
    /\ net' = net + j.val
    /\ UNCHANGED <<config, writing, cache, jobs, handlers, spoiled, stale, ops, faults>>

\* ... or the statement fails, and the cache has been told all the same.
WriteUserQuotaFails(j) ==
    /\ ~batching
    /\ Fault
    /\ writes' = writes \ {j}
    /\ stale' = TRUE
    /\ UNCHANGED <<config, db, cache, jobs, handlers, net, spoiled, ops>>

\* batchUpdate takes the deltas out of the store ...
BatchUpdate ==
    /\ store # 0 /\ writing = 0
    /\ writing' = store
    /\ store' = 0
    /\ UNCHANGED <<config, row, cache, jobs, writes, handlers, net, spoiled, stale, ops, faults>>

\* Mutant: the store is emptied after the write.
BatchWriteEmpties ==
    /\ writing # 0 /\ WriterFree
    /\ row' = row + writing
    /\ writing' = 0 /\ store' = 0
    /\ UNCHANGED <<config, cache, jobs, writes, handlers, net, spoiled, stale, ops, faults>>

\* ... and writes them.
BatchWrite ==
    /\ writing # 0 /\ WriterFree
    /\ row' = row + writing
    /\ writing' = 0
    /\ UNCHANGED <<config, store, cache, jobs, writes, handlers, net, spoiled, stale, ops, faults>>

\* An error is logged and the deltas are gone.
BatchWriteFails ==
    /\ writing # 0
    /\ Fault
    /\ writing' = 0
    /\ spoiled' = TRUE /\ stale' = TRUE
    /\ UNCHANGED <<config, row, store, cache, jobs, writes, handlers, net, ops>>

-----------------------------------------------------------------------------
(* Redis *)

\* GetUserCache on a miss: the row is read and the hash filled by a goroutine.
\* Undisturbed, this makes the cache right again.
GetUserCache ==
    /\ Op
    /\ cache = NoCache
    /\ jobs' = jobs \cup {Refill(row)}
    /\ stale' = Underway
    /\ UNCHANGED <<config, db, cache, writes, handlers, net, spoiled, faults>>

updateUserCache(j) ==
    /\ j.kind = "refill"
    /\ cache' = j.val
    /\ jobs' = jobs \ {j}
    /\ UNCHANGED <<config, db, writes, handlers, net, spoiled, stale, ops, faults>>

\* RedisHIncrBy looks at the time to live first: without a key it does nothing.
CheckTTL(j) ==
    /\ j.kind = "incr"
    /\ jobs' = IF cache = NoCache THEN jobs \ {j}
               ELSE (jobs \ {j}) \cup {[j EXCEPT !.kind = "checked"]}
    /\ UNCHANGED <<config, db, cache, writes, handlers, net, spoiled, stale, ops, faults>>

\* HINCRBY makes a hash with this field alone if the key has expired meanwhile.
HIncrBy(j) ==
    /\ j.kind = "checked"
    /\ cache' = IF cache = NoCache THEN j.val ELSE cache + j.val
    /\ stale' = (stale \/ cache = NoCache)
    /\ jobs' = jobs \ {j}
    /\ UNCHANGED <<config, db, writes, handlers, net, spoiled, ops, faults>>

\* The hash expires, or InvalidateUserCache deletes it.
CacheGone ==
    /\ cache # NoCache
    /\ cache' = NoCache
    /\ UNCHANGED <<config, db, jobs, writes, handlers, net, spoiled, stale, ops, faults>>

\* Redis refuses a command: the error is logged.
JobFails(j) ==
    /\ Fault
    /\ jobs' = jobs \ {j}
    /\ stale' = TRUE
    /\ UNCHANGED <<config, db, cache, writes, handlers, net, spoiled, ops>>

-----------------------------------------------------------------------------
(* Credits that change the row in a transaction *)

\* Recharge, RechargeCreem, RechargeWaffo, ...: see TopUpOrders.
TopUp ==
    /\ Op /\ WriterFree
    /\ row' = row + Credit
    /\ net' = net + Credit
    /\ Untold
    /\ UNCHANGED <<config, store, writing, cache, jobs, writes, handlers, spoiled, faults>>

\* ManageUser with mode override; add and subtract are ChangeUserQuota without
\* the batch updater.
ManageUserOverride ==
    /\ Op /\ WriterFree
    /\ row' = Override
    /\ net' = net + (Override - row)
    /\ Untold
    /\ UNCHANGED <<config, store, writing, cache, jobs, writes, handlers, spoiled, faults>>

RedeemRead ==
    /\ Op /\ WriterFree
    /\ ~code
    /\ redeems' = redeems + 1
    /\ UNCHANGED <<config, db, cache, jobs, writes, saves, code, checkin, transfer, aff, net, spoiled,
                   stale, faults>>

\* The code is saved as used, whatever the row says by now.
Redeem ==
    /\ redeems > 0
    /\ redeems' = redeems - 1
    /\ row' = row + CodeQuota
    /\ code' = TRUE
    /\ spoiled' = (spoiled \/ code)
    /\ Untold
    /\ UNCHANGED <<config, store, writing, cache, jobs, writes, saves, checkin, transfer, aff, net,
                   ops, faults>>

-----------------------------------------------------------------------------
(* Check-in: the unique index on user and date lets one row in *)

\* userCheckinWithTransaction: record and quota in one transaction ...
CheckinTransaction ==
    /\ ~sqlite /\ checkin = "no"
    /\ Op
    /\ checkin' = "committed"
    /\ row' = row + Award
    /\ Told
    /\ UNCHANGED <<config, store, writing, cache, jobs, writes, saves, code, redeems, transfer,
                   aff, net, spoiled, faults>>

\* ... and, after the commit, the goroutine that tells the cache.
CheckinTell ==
    /\ checkin = "committed"
    /\ checkin' = "done"
    /\ jobs' = jobs \cup {Incr(Award)}
    /\ UNCHANGED <<config, db, cache, writes, saves, code, redeems, transfer, aff, net, spoiled,
                   stale, ops, faults>>

\* userCheckinWithoutTransaction: the record first ...
CheckinCreate ==
    /\ sqlite /\ checkin = "no" /\ WriterFree
    /\ Op
    /\ checkin' = "created"
    /\ UNCHANGED <<config, db, cache, jobs, writes, saves, code, redeems, transfer, aff, net,
                   spoiled, stale, faults>>

\* ... then IncreaseUserQuota starts the goroutine ...
CheckinAward ==
    /\ checkin = "created"
    /\ checkin' = "awarding"
    /\ jobs' = jobs \cup {Incr(Award)}
    /\ Told
    /\ UNCHANGED <<config, db, cache, writes, saves, code, redeems, transfer, aff, net, spoiled,
                   ops, faults>>

\* ... and writes the quota ...
CheckinWrite ==
    /\ checkin = "awarding" /\ WriterFree
    /\ checkin' = "done"
    /\ row' = row + Award
    /\ UNCHANGED <<config, store, writing, cache, jobs, writes, saves, code, redeems, transfer,
                   aff, net, spoiled, stale, ops, faults>>

\* ... or the record is deleted again, if that does not fail too; the cache has
\* been told nevertheless.
CheckinRollback ==
    /\ checkin = "awarding"
    /\ Fault
    /\ checkin' \in {"no", "lost"}
    /\ stale' = TRUE
    /\ UNCHANGED <<config, db, cache, jobs, writes, saves, code, redeems, transfer, aff, net,
                   spoiled, ops>>

-----------------------------------------------------------------------------
(* Handlers that save the row they have read *)

TransferRead ==
    /\ Op /\ WriterFree
    /\ ~aff /\ transfer = NoCache
    /\ transfer' = row
    /\ UNCHANGED <<config, db, cache, jobs, writes, saves, code, redeems, checkin, aff, net, spoiled,
                   stale, faults>>

\* TransferAffQuotaToQuota: tx.Save writes every column.
TransferSave ==
    /\ transfer # NoCache
    /\ row' = transfer + AffQuota
    /\ spoiled' = (spoiled \/ row # transfer)
    /\ aff' = TRUE
    /\ transfer' = NoCache
    /\ Untold
    /\ UNCHANGED <<config, store, writing, cache, jobs, writes, saves, code, redeems, checkin, net,
                   ops, faults>>

\* UpdateUserSetting, UpdateSubscriptionPreference, binding an account, ...:
\* the user is read, a field is changed ...
UserRead ==
    /\ Op
    /\ saves' = saves \cup {row}
    /\ UNCHANGED <<config, db, cache, jobs, writes, code, redeems, checkin, transfer, aff, net, spoiled,
                   stale, faults>>

\* ... and User.Update writes every field that is not zero, then the hash.
UserUpdate(q) ==
    /\ WriterFree
    /\ saves' = saves \ {q}
    /\ row' = IF q = 0 THEN row ELSE q
    /\ jobs' = jobs \cup {Refill(row')}
    /\ spoiled' = (spoiled \/ row' # row)
    /\ stale' = Underway
    /\ UNCHANGED <<config, store, writing, cache, writes, code, redeems, checkin, transfer, aff, net,
                   ops, faults>>

-----------------------------------------------------------------------------
\* The process ends: what is only in its memory is gone.
Crash ==
    /\ Fault
    /\ spoiled' = (spoiled \/ store + writing # 0)
    /\ stale' = (stale \/ Underway)
    /\ store' = 0 /\ writing' = 0
    /\ jobs' = {} /\ writes' = {} /\ saves' = {}
    /\ redeems' = 0 /\ transfer' = NoCache
    /\ checkin' = IF checkin \in {"created", "awarding"} THEN "lost"
                  ELSE IF checkin = "committed" THEN "done" ELSE checkin
    /\ UNCHANGED <<config, row, cache, code, aff, net, ops>>

Next ==
    \/ \E d \in {Charge, -Charge} : ChangeUserQuota(d)
    \/ \E j \in writes : WriteUserQuota(j) \/ WriteUserQuotaFails(j)
    \/ BatchUpdate \/ BatchWrite \/ BatchWriteFails
    \/ GetUserCache \/ CacheGone
    \/ \E j \in jobs : updateUserCache(j) \/ CheckTTL(j) \/ HIncrBy(j) \/ JobFails(j)
    \/ TopUp \/ ManageUserOverride
    \/ RedeemRead \/ Redeem
    \/ CheckinTransaction \/ CheckinTell
    \/ CheckinCreate \/ CheckinAward \/ CheckinWrite \/ CheckinRollback
    \/ TransferRead \/ TransferSave
    \/ UserRead \/ \E q \in saves : UserUpdate(q)
    \/ Crash

Spec == Init /\ [][Next]_vars

-----------------------------------------------------------------------------
\* The types of the state.
FlagTypes ==
    /\ sqlite \in BOOLEAN /\ batching \in BOOLEAN
    /\ code \in BOOLEAN /\ aff \in BOOLEAN /\ spoiled \in BOOLEAN /\ stale \in BOOLEAN

NumberTypes ==
    /\ row \in Int /\ store \in Int /\ writing \in Int /\ net \in Int
    /\ cache \in Int \cup {NoCache} /\ transfer \in Int \cup {NoCache}
    /\ jobs \subseteq [id : Nat, kind : {"incr", "checked", "refill"}, val : Int]
    /\ writes \subseteq [id : Nat, kind : {"write"}, val : Int]
    /\ saves \subseteq Int
    /\ redeems \in 0 .. MaxOps
    /\ checkin \in {"no", "created", "awarding", "committed", "done", "lost"}
    /\ ops \in 0 .. MaxOps /\ faults \in 0 .. MaxFaults

TypeOK == FlagTypes /\ NumberTypes

If(b, q) == IF b THEN q ELSE 0

(***************************************************************************)
(* The user has exactly what the accepted operations leave: no delta that  *)
(* arrives while the batch updater writes is lost or written twice, a      *)
(* code, a day's check-in and the referral quota count once.  Not so if a  *)
(* batch write failed, the process ended with deltas in the store, a code  *)
(* was redeemed by two overlapping transactions, or User.Update or         *)
(* TransferAffQuotaToQuota wrote back a quota they had read before it      *)
(* changed (spoiled).                                                      *)
(***************************************************************************)
QuotaConserved ==
    ~spoiled => Balance = Start + net + If(code, CodeQuota)
                               + If(checkin \in {"committed", "done"}, Award) + If(aff, AffQuota)

(***************************************************************************)
(* Once nothing is under way the cached quota is what the user has, the    *)
(* deltas in the batch updater included, although the goroutine that tells *)
(* the cache and the write of the quota run in either order, beside others *)
(* and beside the expiry of the hash.  Not so (stale) if a change was made *)
(* that the cache is not told of (top-up, redemption, transfer, override), *)
(* if a refill read the row while a change was on its way to it or to the  *)
(* cache, or if a write failed; a refill that meets no change under way    *)
(* makes it right again.                                                   *)
(***************************************************************************)
CacheTracksQuota ==
    ~stale /\ jobs = {} /\ writes = {} /\ checkin \notin {"awarding", "committed"}
        => cache \in {NoCache, Balance}

=============================================================================
