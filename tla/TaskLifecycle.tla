--------------------------- MODULE TaskLifecycle ---------------------------
(***************************************************************************)
(* The life of an asynchronous task (video, music, image) and of what its  *)
(* user paid for it.  RelayTask charges the user, submits the task to an   *)
(* upstream and inserts a row.  Afterwards several actors move the row's   *)
(* status without knowing of each other:                                   *)
(*                                                                         *)
(*   - a poller per master process: TaskPollingLoop sweeps the tasks that  *)
(*     timed out, reads the unfinished rows in one query and then asks the *)
(*     upstream about each;                                                *)
(*   - a user's GET, which for Gemini, Vertex and Tencent VOD fetches the  *)
(*     upstream state itself (tryRealtimeFetch);                           *)
(*   - for sub2api images, a goroutine that runs the generation.           *)
(*                                                                         *)
(* Whoever moves a task to FAILURE gives the user the quota back, whoever  *)
(* moves it to SUCCESS settles the difference.  UpdateWithStatus is the    *)
(* compare-and-swap that is meant to elect one of them.                    *)
(*                                                                         *)
(* The billing session of the submission is BillingSession; here it is a   *)
(* charge, a settlement and a refund of the task's account.                *)
(***************************************************************************)
EXTENDS Integers, FiniteSets

CONSTANTS
    Tasks,
    Platform,      \* Platform[t]: "video", "realtime", "suno" or "async"
    SubmitTime,    \* SubmitTime[t]: the Unix time of the submission
    Pollers,       \* processes that run TaskPollingLoop
    Readers,       \* users that fetch tasks
    Estimates,     \* the amounts a submission pre-consumes
    Quotas,        \* the prices of a submission
    Actuals,       \* the prices on completion; 0 keeps the price of the submission
    MayTimeOut,    \* tasks that may outlive TaskTimeoutMinutes
    MayLose,       \* tasks whose channel may be deleted
    Failing,       \* the operations that may fail
    MaxSubmitted,  \* bound on the tasks that are charged and not refused
    MaxFaults      \* bound on the failures of a behaviour

Platforms == {"video", "realtime", "suno", "async"}
Operations == {"settle", "insert", "message", "cas", "save", "funding", "token", "crash"}

ASSUME ConstantsAssumption ==
    /\ Platform \in [Tasks -> Platforms]
    /\ SubmitTime \in [Tasks -> Nat]
    /\ Estimates \subseteq Nat /\ Quotas \subseteq Nat /\ Actuals \subseteq Nat
    /\ MayTimeOut \subseteq Tasks /\ MayLose \subseteq Tasks
    /\ Failing \subseteq Operations
    /\ MaxSubmitted \in Nat /\ MaxFaults \in Nat
    /\ Pollers \cap Tasks = {} /\ Readers \cap Tasks = {} /\ Pollers \cap Readers = {}

AsyncTasks == {t \in Tasks : Platform[t] = "async"}

\* The goroutine that generates the image of an async task is named by it.
Actors == Pollers \cup Readers \cup AsyncTasks

VARIABLES
    sub,      \* sub[t]: how far the submission of t has come
    quota,    \* quota[t]: Task.Quota
    row,      \* row[t]: the row of the tasks table
    up,       \* up[t]: the state of the task at the upstream
    old,      \* tasks older than TaskTimeoutMinutes
    lost,     \* tasks without a channel or without an upstream id
    hand,     \* hand[a]: what actor a is doing
    paid,     \* paid[t]: what funding source and token have paid for t
    due,      \* due[t]: the price of t (history)
    excused,  \* tasks whose billing was cut short by a failure (history)
    faults    \* failures so far

vars == <<sub, quota, row, up, old, lost, hand, paid, due, excused, faults>>

Statuses == {"none", "NOT_START", "QUEUED", "IN_PROGRESS", "SUCCESS", "FAILURE"}
Final == {"SUCCESS", "FAILURE"}

NoBatch == [t \in Tasks |-> "none"]
NoResult == [status |-> "none", full |-> FALSE]

\* pc is where the actor stands, batch the statuses it has read, back where it
\* goes on after it has moved delta between the user and the task.
Rest == [pc |-> "rest", back |-> "rest", batch |-> NoBatch,
         task |-> "none", res |-> NoResult, delta |-> 0]

Init ==
    /\ sub = [t \in Tasks |-> "new"]
    /\ quota = [t \in Tasks |-> 0]
    /\ row = [t \in Tasks |-> [status |-> "none", done |-> FALSE]]
    /\ up = [t \in Tasks |-> "queued"]
    /\ old = {}
    /\ lost = {}
    /\ hand = [a \in Actors |-> Rest]
    /\ paid = [t \in Tasks |-> [funding |-> 0, token |-> 0]]
    /\ due = [t \in Tasks |-> 0]
    /\ excused = {}
    /\ faults = 0

Fault(op) == op \in Failing /\ faults < MaxFaults /\ faults' = faults + 1

-----------------------------------------------------------------------------
(***************************************************************************)
(* Submission: RelayTask and RelayTaskSubmit.                              *)
(***************************************************************************)

Charge(t, q) == paid' = [paid EXCEPT ![t] = [funding |-> q, token |-> q]]

\* The first attempt pre-consumes the quota; retries keep the session.
PreConsume(t) ==
    /\ sub[t] = "new"
    /\ Cardinality({u \in Tasks : sub[u] \notin {"new", "refused"}}) < MaxSubmitted
    /\ sub' = [sub EXCEPT ![t] = "charged"]
    /\ \E q \in Estimates : Charge(t, q)
    /\ UNCHANGED <<quota, row, up, old, lost, hand, due, excused, faults>>

\* All attempts failed: the deferred Refund of the session.
Refuse(t) ==
    /\ sub[t] \in {"new", "charged"}
    /\ sub' = [sub EXCEPT ![t] = "refused"]
    /\ Charge(t, 0)
    /\ UNCHANGED <<quota, row, up, old, lost, hand, due, excused, faults>>

\* The upstream accepts, with the quota of the last attempt.
Accept(t) ==
    /\ sub[t] = "charged"
    /\ sub' = [sub EXCEPT ![t] = "accepted"]
    /\ \E q \in Quotas : /\ quota' = [quota EXCEPT ![t] = q]
                         /\ due' = [due EXCEPT ![t] = q]
    /\ UNCHANGED <<row, up, old, lost, hand, paid, excused, faults>>

Settle(t) ==
    /\ sub[t] = "accepted"
    /\ sub' = [sub EXCEPT ![t] = "settled"]
    /\ Charge(t, quota[t])
    /\ UNCHANGED <<quota, row, up, old, lost, hand, due, excused, faults>>

\* The error of SettleBilling is logged and the submission goes on: the
\* funding source, or only the token, keeps the pre-consumed amount.  With
\* nothing to settle there is nothing that could fail.
SettleFails(t) ==
    /\ sub[t] = "accepted"
    /\ quota[t] # paid[t].funding
    /\ Fault("settle")
    /\ sub' = [sub EXCEPT ![t] = "settled"]
    /\ paid' \in {paid, [paid EXCEPT ![t].funding = quota[t]]}
    /\ excused' = excused \cup {t}
    /\ UNCHANGED <<quota, row, up, old, lost, hand, due>>

Insert(t) ==
    /\ sub[t] = "settled"
    /\ sub' = [sub EXCEPT ![t] = "submitted"]
    /\ row' = [row EXCEPT ![t].status = "NOT_START"]
    /\ hand' = IF t \in AsyncTasks THEN [hand EXCEPT ![t].pc = "start"] ELSE hand
    /\ UNCHANGED <<quota, up, old, lost, paid, due, excused, faults>>

\* Nothing undoes the charge when the row cannot be inserted.
InsertFails(t) ==
    /\ sub[t] = "settled"
    /\ Fault("insert")
    /\ sub' = [sub EXCEPT ![t] = "lost"]
    /\ UNCHANGED <<quota, row, up, old, lost, hand, paid, due, excused>>

-----------------------------------------------------------------------------
(***************************************************************************)
(* The environment.                                                        *)
(***************************************************************************)

\* The generation at the upstream; for async tasks the goroutine decides it.
UpstreamStep(t) ==
    /\ sub[t] \in {"accepted", "settled", "submitted"}
    /\ t \notin AsyncTasks
    /\ \/ up[t] = "queued" /\ up' = [up EXCEPT ![t] = "running"]
       \/ up[t] = "running" /\ \E u \in {"success", "failure"} : up' = [up EXCEPT ![t] = u]
    /\ UNCHANGED <<sub, quota, row, old, lost, hand, paid, due, excused, faults>>

TimePasses(t) ==
    /\ t \in MayTimeOut \ old
    /\ sub[t] = "submitted"
    /\ old' = old \cup {t}
    /\ UNCHANGED <<sub, quota, row, up, lost, hand, paid, due, excused, faults>>

\* CacheGetChannel fails from here on, or there never was an upstream id.
LoseChannel(t) ==
    /\ t \in MayLose \ lost
    /\ sub[t] = "submitted"
    /\ lost' = lost \cup {t}
    /\ UNCHANGED <<sub, quota, row, up, old, hand, paid, due, excused, faults>>

-----------------------------------------------------------------------------
(***************************************************************************)
(* Building blocks.                                                        *)
(***************************************************************************)

\* The row gets a status and a progress; full: the progress is 100%.  Where the
\* status is final nobody looks at the progress.
Put(t, status, full) ==
    row' = [row EXCEPT ![t] = [status |-> status, done |-> full \/ status \in Final]]

\* UpdateWithStatus: the row still has the status the actor has read.
CasWins(t, from) == row[t].status = from

\* The actor has finished with t and goes on at pc.
Onward(a, t, pc) == [Rest EXCEPT !.pc = pc, !.batch = [hand[a].batch EXCEPT ![t] = "none"]]
GoOn(a, t, pc) == hand' = [hand EXCEPT ![a] = Onward(a, t, pc)]

\* Take delta from the user (give it back, if negative), then go on at pc.
Bill(a, t, delta, pc) ==
    hand' = [hand EXCEPT ![a] =
                IF delta = 0 THEN Onward(a, t, pc)
                ELSE [Onward(a, t, "funding") EXCEPT !.task = t, !.delta = delta, !.back = pc]]

\* The conditional update reports an error, before or after it took effect.
CasError(t, from, to, full) ==
    /\ Fault("cas")
    /\ \/ UNCHANGED <<row, excused>>
       \/ CasWins(t, from) /\ Put(t, to, full) /\ excused' = excused \cup (IF to \in Final THEN {t} ELSE {})

-----------------------------------------------------------------------------
(***************************************************************************)
(* Billing: RefundTaskQuota and RecalculateTaskQuota adjust the funding    *)
(* source and then the token.                                              *)
(***************************************************************************)

Return(h) ==
    IF h.back = "save" THEN [h EXCEPT !.pc = "save", !.back = "rest", !.delta = 0]
    ELSE [Rest EXCEPT !.pc = h.back, !.batch = h.batch]

AdjustFunding(a) ==
    /\ hand[a].pc = "funding"
    /\ paid' = [paid EXCEPT ![hand[a].task].funding = @ + hand[a].delta]
    /\ hand' = [hand EXCEPT ![a].pc = "token"]
    /\ UNCHANGED <<sub, quota, row, up, old, lost, due, excused, faults>>

\* A failed adjustment of the funding source leaves the token alone too.
AdjustFundingFails(a) ==
    /\ hand[a].pc = "funding"
    /\ Fault("funding")
    /\ excused' = excused \cup {hand[a].task}
    /\ hand' = [hand EXCEPT ![a] = Return(hand[a])]
    /\ UNCHANGED <<sub, quota, row, up, old, lost, paid, due>>

AdjustToken(a) ==
    /\ hand[a].pc = "token"
    /\ paid' = [paid EXCEPT ![hand[a].task].token = @ + hand[a].delta]
    /\ hand' = [hand EXCEPT ![a] = Return(hand[a])]
    /\ UNCHANGED <<sub, quota, row, up, old, lost, due, excused, faults>>

AdjustTokenFails(a) ==
    /\ hand[a].pc = "token"
    /\ Fault("token")
    /\ excused' = excused \cup {hand[a].task}
    /\ hand' = [hand EXCEPT ![a] = Return(hand[a])]
    /\ UNCHANGED <<sub, quota, row, up, old, lost, paid, due>>

-----------------------------------------------------------------------------
(***************************************************************************)
(* The poller.                                                             *)
(***************************************************************************)

Unfinished(t) == row[t].status \notin Final \cup {"none"} /\ ~row[t].done

\* Mutant: the sweep only looks at tasks that have started.
TimedOutStarted(t) == Unfinished(t) /\ t \in old /\ row[t].status # "NOT_START"

\* GetTimedOutUnfinishedTasks.
TimedOut(t) == Unfinished(t) /\ t \in old

\* Tasks that the old system left are failed without a refund.
legacyTaskCutoff == 1740182400
IsLegacy(t) == SubmitTime[t] > 0 /\ SubmitTime[t] < legacyTaskCutoff

Read(p, pc, Chosen(_)) ==
    hand' = [hand EXCEPT ![p] =
        [Rest EXCEPT !.pc = pc, !.batch = [t \in Tasks |-> IF Chosen(t) THEN row[t].status ELSE "none"]]]

\* The timer has fired; sweepTimedOutTasks reads the tasks to fail.
SweepRead(p) ==
    /\ hand[p].pc \in {"rest", "poll"}
    /\ hand[p].batch = NoBatch
    /\ Read(p, "sweep", TimedOut)
    /\ UNCHANGED <<sub, quota, row, up, old, lost, paid, due, excused, faults>>

\* Mutant: the sweep leaves the refund to the poller.
SweepUnpaid(p, t) ==
    /\ hand[p].pc = "sweep"
    /\ hand[p].batch[t] # "none"
    /\ CasWins(t, hand[p].batch[t])
    /\ Put(t, "FAILURE", TRUE)
    /\ GoOn(p, t, "sweep")
    /\ UNCHANGED <<sub, quota, up, old, lost, paid, due, excused, faults>>

SweepTask(p, t) ==
    /\ hand[p].pc = "sweep"
    /\ hand[p].batch[t] # "none"
    /\ CasWins(t, hand[p].batch[t])
    /\ Put(t, "FAILURE", TRUE)
    /\ Bill(p, t, IF IsLegacy(t) THEN 0 ELSE -quota[t], "sweep")
    /\ UNCHANGED <<sub, quota, up, old, lost, paid, due, excused, faults>>

SweepLost(p, t) ==
    /\ hand[p].pc = "sweep"
    /\ hand[p].batch[t] # "none"
    /\ ~CasWins(t, hand[p].batch[t])
    /\ GoOn(p, t, "sweep")
    /\ UNCHANGED <<sub, quota, row, up, old, lost, paid, due, excused, faults>>

SweepError(p, t) ==
    /\ hand[p].pc = "sweep"
    /\ hand[p].batch[t] # "none"
    /\ CasError(t, hand[p].batch[t], "FAILURE", TRUE)
    /\ GoOn(p, t, "sweep")
    /\ UNCHANGED <<sub, quota, up, old, lost, paid, due>>

\* GetAllUnFinishSyncTasks, once the sweep is through.
PollRead(p) ==
    /\ hand[p].pc = "sweep"
    /\ hand[p].batch = NoBatch
    /\ Read(p, "poll", Unfinished)
    /\ UNCHANGED <<sub, quota, row, up, old, lost, paid, due, excused, faults>>

ToPoll(p, t) == hand[p].pc = "poll" /\ hand[p].batch[t] # "none"

\* TaskBulkUpdateByID: an unconditional update and no refund.
BulkFail(p, t) ==
    /\ ToPoll(p, t)
    /\ t \in lost
    /\ Put(t, "FAILURE", TRUE)
    /\ GoOn(p, t, "poll")
    /\ UNCHANGED <<sub, quota, up, old, lost, paid, due, excused, faults>>

Reported(t) ==
    CASE up[t] = "queued" -> "QUEUED"
      [] up[t] = "running" -> "IN_PROGRESS"
      [] up[t] = "success" -> "SUCCESS"
      [] up[t] = "failure" -> "FAILURE"

\* sub2api answers a poll from the row; ToVideoStatus has no case for
\* NOT_START, and ParseTaskResult takes "unknown" for a failure.
LocalStatus(t) == IF row[t].status = "NOT_START" THEN "FAILURE" ELSE row[t].status

\* What FetchTask and ParseTaskResult may make of the upstream's state.  full:
\* its progress is 100%, which may come with a status that is not final; a Suno
\* failure may come with any status, and then has a reason.
Results(t) ==
    CASE Platform[t] = "async" -> [status : {LocalStatus(t)}, full : {FALSE}]
      [] Platform[t] = "suno" ->
            [status : {Reported(t)}, full : {FALSE}]
            \cup (IF up[t] = "failure" THEN [status : {"FAILURE", "IN_PROGRESS"}, full : {TRUE}]
                  ELSE {})
      [] OTHER -> [status : {Reported(t)}, full : IF Reported(t) \in Final THEN {TRUE} ELSE BOOLEAN]

Fetch(p, t) ==
    /\ ToPoll(p, t) /\ t \notin lost
    /\ \E r \in Results(t) : hand' = [hand EXCEPT ![p].pc = "apply", ![p].task = t, ![p].res = r]
    /\ UNCHANGED <<sub, quota, row, up, old, lost, paid, due, excused, faults>>

\* An error body without a status, other than code 429, counts as a failure.
FetchMessage(p, t) ==
    /\ ToPoll(p, t) /\ t \notin lost /\ Platform[t] \in {"video", "realtime"}
    /\ Fault("message")
    /\ hand' = [hand EXCEPT ![p].pc = "apply", ![p].task = t,
                            ![p].res = [status |-> "FAILURE", full |-> TRUE]]
    /\ UNCHANGED <<sub, quota, row, up, old, lost, paid, due, excused>>

\* No answer, code 429, an answer that does not parse, or a failed bulk update.
FetchFails(p, t) ==
    /\ ToPoll(p, t)
    /\ GoOn(p, t, "poll")
    /\ UNCHANGED <<sub, quota, row, up, old, lost, paid, due, excused, faults>>

\* p is about to write the result of a task; Suno has its own way to do it.
Applies(p, suno) ==
    /\ hand[p].pc = "apply"
    /\ (Platform[hand[p].task] = "suno") = suno

\* Mutant: the whole price is charged again.
SettleDeltaFull(t, actual) == actual

\* settleTaskBillingOnComplete: 0 stands for "keep the pre-consumed quota".
SettleDelta(t, actual) == IF actual > 0 THEN actual - quota[t] ELSE 0

\* updateVideoSingleTask, when its terminal status won the compare-and-swap.
ApplyFinal(p) ==
    LET t == hand[p].task  new == hand[p].res.status
    IN  /\ Applies(p, FALSE)
        /\ new \in Final
        /\ CasWins(t, hand[p].batch[t])
        /\ Put(t, new, hand[p].res.full)
        /\ IF new = "FAILURE"
           THEN Bill(p, t, -quota[t], "poll") /\ UNCHANGED due
           ELSE \E actual \in Actuals :
                    /\ Bill(p, t, SettleDelta(t, actual), "poll")
                    /\ due' = [due EXCEPT ![t] = IF actual > 0 THEN actual ELSE quota[t]]
        /\ UNCHANGED <<sub, quota, up, old, lost, paid, excused, faults>>

\* Progress: a lost compare-and-swap changes nothing.
ApplyProgress(p) ==
    LET t == hand[p].task  new == hand[p].res.status
    IN  /\ Applies(p, FALSE)
        /\ new \notin Final
        /\ IF CasWins(t, hand[p].batch[t]) THEN Put(t, new, hand[p].res.full) ELSE UNCHANGED row
        /\ GoOn(p, t, "poll")
        /\ UNCHANGED <<sub, quota, up, old, lost, paid, due, excused, faults>>

ApplyLost(p) ==
    LET t == hand[p].task
    IN  /\ Applies(p, FALSE)
        /\ hand[p].res.status \in Final
        /\ ~CasWins(t, hand[p].batch[t])
        /\ GoOn(p, t, "poll")
        /\ UNCHANGED <<sub, quota, row, up, old, lost, paid, due, excused, faults>>

\* Mutant: an update that reports an error is billed all the same.
ApplyErrorBills(p) ==
    LET t == hand[p].task
    IN  /\ Applies(p, FALSE)
        /\ CasError(t, hand[p].batch[t], hand[p].res.status, hand[p].res.full)
        /\ Bill(p, t, IF hand[p].res.status = "FAILURE" THEN -quota[t] ELSE 0, "poll")
        /\ UNCHANGED <<sub, quota, up, old, lost, paid, due>>

ApplyError(p) ==
    LET t == hand[p].task
    IN  /\ Applies(p, FALSE)
        /\ CasError(t, hand[p].batch[t], hand[p].res.status, hand[p].res.full)
        /\ GoOn(p, t, "poll")
        /\ UNCHANGED <<sub, quota, up, old, lost, paid, due>>

SunoFailed(res) == res.full \/ res.status = "FAILURE"

\* updateSunoTasks refunds first and saves afterwards.
ApplySuno(p) ==
    LET t == hand[p].task
    IN  /\ Applies(p, TRUE)
        /\ hand' = [hand EXCEPT ![p] =
                       IF SunoFailed(hand[p].res) /\ quota[t] # 0
                       THEN [@ EXCEPT !.pc = "funding", !.delta = -quota[t], !.back = "save"]
                       ELSE [@ EXCEPT !.pc = "save"]]
        /\ UNCHANGED <<sub, quota, row, up, old, lost, paid, due, excused, faults>>

\* Task.Update saves the whole row, whatever has become of it.
SaveSuno(p) ==
    LET t == hand[p].task  r == hand[p].res
    IN  /\ hand[p].pc = "save"
        /\ Put(t, r.status, r.full)
        /\ GoOn(p, t, "poll")
        /\ UNCHANGED <<sub, quota, up, old, lost, paid, due, excused, faults>>

SaveSunoFails(p) ==
    /\ hand[p].pc = "save"
    /\ Fault("save")
    /\ GoOn(p, hand[p].task, "poll")
    /\ UNCHANGED <<sub, quota, row, up, old, lost, paid, due, excused>>

-----------------------------------------------------------------------------
(***************************************************************************)
(* A user's GET: tryRealtimeFetch.  It has no billing.                     *)
(***************************************************************************)

ReadTask(r, t) ==
    /\ hand[r].pc = "rest"
    /\ Platform[t] = "realtime" /\ t \notin lost
    /\ row[t].status # "none"
    /\ hand' = [hand EXCEPT ![r].pc = "fetch", ![r].task = t, ![r].batch[t] = row[t].status]
    /\ UNCHANGED <<sub, quota, row, up, old, lost, paid, due, excused, faults>>

RealtimeFetch(r) ==
    /\ hand[r].pc = "fetch"
    /\ \E x \in Results(hand[r].task) : hand' = [hand EXCEPT ![r].pc = "apply", ![r].res = x]
    /\ UNCHANGED <<sub, quota, row, up, old, lost, paid, due, excused, faults>>

RealtimeApply(r) ==
    LET t == hand[r].task
    IN  /\ hand[r].pc = "apply"
        /\ IF CasWins(t, hand[r].batch[t]) THEN Put(t, hand[r].res.status, hand[r].res.full) ELSE UNCHANGED row
        /\ GoOn(r, t, "rest")
        /\ UNCHANGED <<sub, quota, up, old, lost, paid, due, excused, faults>>

-----------------------------------------------------------------------------
(***************************************************************************)
(* The goroutine of an async task: runSub2APIAsyncImageGeneration.         *)
(***************************************************************************)

GenerationStarts(t) ==
    /\ hand[t].pc = "start"
    /\ IF CasWins(t, "NOT_START")
       THEN Put(t, "IN_PROGRESS", FALSE) /\ GoOn(t, t, "generate")
       ELSE UNCHANGED row /\ GoOn(t, t, "over")
    /\ UNCHANGED <<sub, quota, up, old, lost, paid, due, excused, faults>>

\* The synchronous call to the upstream.
GenerationEnds(t) ==
    /\ hand[t].pc = "generate"
    /\ \E u \in {"success", "failure"} : up' = [up EXCEPT ![t] = u]
    /\ GoOn(t, t, "record")
    /\ UNCHANGED <<sub, quota, row, old, lost, paid, due, excused, faults>>

\* Mutant: the goroutine writes its result over any status.
RecordAnyStatus(t) ==
    /\ hand[t].pc = "record"
    /\ Put(t, Reported(t), TRUE)
    /\ Bill(t, t, IF Reported(t) = "FAILURE" THEN -quota[t] ELSE 0, "over")
    /\ UNCHANGED <<sub, quota, up, old, lost, paid, due, excused, faults>>

RecordResult(t) ==
    /\ hand[t].pc = "record"
    /\ IF CasWins(t, "IN_PROGRESS")
       THEN /\ Put(t, Reported(t), TRUE)
            /\ Bill(t, t, IF Reported(t) = "FAILURE" THEN -quota[t] ELSE 0, "over")
       ELSE UNCHANGED row /\ GoOn(t, t, "over")
    /\ UNCHANGED <<sub, quota, up, old, lost, paid, due, excused, faults>>

\* Either update fails: the goroutine ends.
GenerationError(t) ==
    /\ \/ hand[t].pc = "start" /\ CasError(t, "NOT_START", "IN_PROGRESS", FALSE)
       \/ hand[t].pc = "record" /\ CasError(t, "IN_PROGRESS", Reported(t), TRUE)
    /\ GoOn(t, t, "over")
    /\ UNCHANGED <<sub, quota, up, old, lost, paid, due>>

-----------------------------------------------------------------------------
(***************************************************************************)
(* The process of an actor ends; pollers start again, goroutines do not.   *)
(***************************************************************************)
Crash(a) ==
    /\ hand[a].pc \notin {"rest", "over"}
    /\ Fault("crash")
    /\ hand' = [hand EXCEPT ![a] = IF a \in AsyncTasks THEN [Rest EXCEPT !.pc = "over"] ELSE Rest]
    /\ excused' = excused \cup (IF hand[a].pc \in {"funding", "token"} THEN {hand[a].task} ELSE {})
    /\ UNCHANGED <<sub, quota, row, up, old, lost, paid, due>>

Submission(t) ==
    \/ PreConsume(t) \/ Refuse(t) \/ Accept(t)
    \/ Settle(t) \/ SettleFails(t) \/ Insert(t) \/ InsertFails(t)

Environment(t) == UpstreamStep(t) \/ TimePasses(t) \/ LoseChannel(t)

Billing(a) ==
    \/ AdjustFunding(a) \/ AdjustFundingFails(a) \/ AdjustToken(a) \/ AdjustTokenFails(a)

SweepStep(p, t) == SweepTask(p, t) \/ SweepLost(p, t) \/ SweepError(p, t)

PollTask(p, t) ==
    \/ SweepStep(p, t)
    \/ BulkFail(p, t) \/ Fetch(p, t) \/ FetchMessage(p, t) \/ FetchFails(p, t)

PollStep(p) ==
    \/ SweepRead(p) \/ PollRead(p)
    \/ ApplyFinal(p) \/ ApplyProgress(p) \/ ApplyLost(p) \/ ApplyError(p)
    \/ ApplySuno(p) \/ SaveSuno(p) \/ SaveSunoFails(p)

Reading(r) == RealtimeFetch(r) \/ RealtimeApply(r)

Generation(t) ==
    \/ GenerationStarts(t) \/ GenerationEnds(t) \/ RecordResult(t) \/ GenerationError(t)

Next ==
    \/ \E t \in Tasks : Submission(t) \/ Environment(t)
    \/ \E p \in Pollers : PollStep(p) \/ \E t \in Tasks : PollTask(p, t)
    \/ \E r \in Readers : Reading(r) \/ \E t \in Tasks : ReadTask(r, t)
    \/ \E t \in AsyncTasks : Generation(t)
    \/ \E a \in Actors : Billing(a) \/ Crash(a)

Spec == Init /\ [][Next]_vars

\* Time passes and the polling loop goes on, but for the fetches: nothing bounds
\* them, since by default the client has no timeout (RELAY_TIMEOUT is 0).
FairSpec ==
    /\ Spec
    /\ \A t \in Tasks : WF_vars(TimePasses(t))
    /\ \A p \in Pollers :
        /\ WF_vars(PollStep(p) \/ Billing(p))
        /\ \A t \in Tasks : WF_vars(SweepStep(p, t))

-----------------------------------------------------------------------------
Hands == [pc : {"rest", "sweep", "poll", "apply", "save", "fetch", "funding", "token",
                "start", "generate", "record", "over"},
          back : {"rest", "sweep", "poll", "save", "over"},
          batch : [Tasks -> Statuses],
          task : Tasks \cup {"none"},
          res : [status : Statuses, full : BOOLEAN],
          delta : Int]

TypeOK ==
    /\ sub \in [Tasks -> {"new", "charged", "accepted", "settled", "submitted", "refused", "lost"}]
    /\ quota \in [Tasks -> Nat]
    /\ row \in [Tasks -> [status : Statuses, done : BOOLEAN]]
    /\ up \in [Tasks -> {"queued", "running", "success", "failure"}]
    /\ old \subseteq Tasks /\ lost \subseteq Tasks /\ excused \subseteq Tasks
    /\ hand \in [Actors -> Hands]
    /\ paid \in [Tasks -> [funding : Int, token : Int]]
    /\ due \in [Tasks -> Nat]
    /\ faults \in 0 .. MaxFaults

\* Nobody is about to bill the task.
Billed(t) ==
    \A a \in Actors : hand[a].pc \in {"funding", "token"} => hand[a].task # t

(***************************************************************************)
(* A failed task has cost its user nothing: RefundTaskQuota has returned   *)
(* all of it, funding source and token, unless that very step failed.      *)
(***************************************************************************)
FailedIsRefunded ==
    \A t \in Tasks \ excused :
        row[t].status = "FAILURE" /\ Billed(t) /\ ~IsLegacy(t)
        => paid[t] = [funding |-> 0, token |-> 0]

(***************************************************************************)
(* A successful task has cost exactly its price: the quota charged at the  *)
(* submission, or the one computed on completion                           *)
(* (settleTaskBillingOnComplete), once.                                    *)
(***************************************************************************)
SucceededIsSettled ==
    \A t \in Tasks \ excused :
        row[t].status = "SUCCESS" /\ Billed(t) => paid[t] = [funding |-> due[t], token |-> due[t]]

(***************************************************************************)
(* A task never returns more than was charged for it, whichever of the     *)
(* actors fail its compare-and-swap, lose it or crash.                     *)
(***************************************************************************)
NeverOverRefunded == \A t \in Tasks : paid[t].funding >= 0 /\ paid[t].token >= 0

(***************************************************************************)
(* A final status is final: no actor with an older view of the row         *)
(* overwrites it (UpdateWithStatus).                                       *)
(***************************************************************************)
FinalIsFinal ==
    [][\A t \in Tasks : row[t].status \in Final => row'[t].status = row[t].status]_vars

\* No fetch hangs: the poller comes to the end of its round, again and again.
NoFetchHangs == \A p \in Pollers : []<>(hand[p].pc # "poll")

(***************************************************************************)
(* A task that timed out gets a final status or complete progress, whatever*)
(* its upstream answers, if it answers at all (sweepTimedOutTasks): sweep  *)
(* and fetches share a goroutine, so that a fetch that hangs stops both.   *)
(***************************************************************************)
TaskEnds == NoFetchHangs => \A t \in MayTimeOut : Unfinished(t) ~> ~Unfinished(t)

=============================================================================
