------------------------- MODULE TaskLifecycleProofs -------------------------
(***************************************************************************)
(* Proofs about asynchronous tasks, for any number of tasks, pollers and   *)
(* readers, any prices and any failures.                                   *)
(*                                                                         *)
(* The first part is about tasks whose status only UpdateWithStatus moves: *)
(* videos and sub2api images, with channels that stay.  An actor acts on a *)
(* status that was not final when it read it, so a compare-and-swap that   *)
(* succeeds takes a task that nobody has ended yet; hence at most one      *)
(* actor ends a task, and at most one bills it.  What this actor still has *)
(* to move is what is missing between what the task has paid and its       *)
(* price.                                                                  *)
(*                                                                         *)
(* The last part is about all platforms: the types, and which tasks keep a *)
(* final status although the poller overwrites rows and users fetch them.  *)
(***************************************************************************)
EXTENDS TaskLifecycle, TLAPS

-----------------------------------------------------------------------------
(* The invariants *)

\* Status changes are compare-and-swaps.
CasOnly == (\A t \in Tasks : Platform[t] \in {"video", "async"}) /\ MayLose = {}

BillOps == {"funding", "token"}

\* A task has a row once it is submitted.
RowSub == \A t \in Tasks : row[t].status # "none" <=> sub[t] = "submitted"

\* What an actor holds: no final status, only tasks that have a row.
HandOK(a, h) ==
    /\ h \in Hands
    /\ h.back # "save" /\ h.pc \notin {"save", "fetch"}
    /\ \A t \in Tasks : h.batch[t] \notin Final /\ (h.batch[t] # "none" => row[t].status # "none")
    /\ h.pc = "apply" => h.task \in Tasks /\ h.batch[h.task] # "none" /\ h.res.status # "none"
    /\ a \in Readers => h.pc = "rest"

Shape == TypeOK /\ lost = {} /\ RowSub /\ \A a \in Actors : HandOK(a, hand[a])

Bills(a, t) == hand[a].pc \in BillOps /\ hand[a].task = t

\* One actor at most bills a task, and the task has ended; goroutines bill
\* their own task.
Elected ==
    /\ \A a \in Actors : hand[a].pc \in BillOps =>
         /\ hand[a].task \in Tasks
         /\ row[hand[a].task].status \in Final
         /\ a \in AsyncTasks => hand[a].task = a
    /\ \A t \in Tasks : \A a, b \in Actors : Bills(a, t) /\ Bills(b, t) => a = b

\* What a task that has ended costs.
Owed(t) == IF row[t].status = "FAILURE" THEN 0 ELSE due[t]

\* What biller a has still to move at the funding source.
FundingDue(a) == IF hand[a].pc = "funding" THEN hand[a].delta ELSE 0

\* The accounts of a task whose billing was not cut short.
Account(t) ==
    /\ row[t].status \notin Final /\ sub[t] \in {"settled", "submitted"} =>
         paid[t].funding = quota[t] /\ paid[t].token = quota[t] /\ due[t] = quota[t]
    /\ sub[t] = "accepted" => due[t] = quota[t]
    /\ row[t].status \in Final /\ ~(IsLegacy(t) /\ row[t].status = "FAILURE") =>
         /\ \A a \in Actors : Bills(a, t) =>
              /\ paid[t].funding + FundingDue(a) = Owed(t)
              /\ paid[t].token + hand[a].delta = Owed(t)
         /\ (\A a \in Actors : ~Bills(a, t)) =>
              paid[t].funding = Owed(t) /\ paid[t].token = Owed(t)

Accounts == \A t \in Tasks \ excused : Account(t)

AccountInv == Shape /\ Elected /\ Accounts

\* Without a failed settlement: billing is only cut short once a task has ended,
\* and nobody gives back more than there is.
Covered(t) ==
    /\ paid[t].funding >= 0 /\ paid[t].token >= 0
    /\ \A a \in Actors : Bills(a, t) =>
         paid[t].funding + FundingDue(a) >= 0 /\ paid[t].token + hand[a].delta >= 0

CoveredInv ==
    /\ AccountInv
    /\ \A t \in excused : row[t].status \in Final
    /\ \A t \in Tasks : Covered(t)

-----------------------------------------------------------------------------
(* What the steps do, kind by kind *)

\* Nothing happens to the rows, to the hands or to the accounts.
Calm == UNCHANGED <<sub, quota, row, lost, hand, paid, due, excused>>

\* Actor a, and no other, goes from one place to another.
Steps(a) ==
    /\ a \in Actors
    /\ hand' = [hand EXCEPT ![a] = hand'[a]]
    /\ HandOK(a, hand'[a])

\* An actor that bills nobody looks around.
Walks(a) ==
    /\ Steps(a)
    /\ hand[a].pc \notin BillOps /\ hand'[a].pc \notin BillOps
    /\ UNCHANGED <<sub, quota, row, lost, paid, due, excused>>

\* An actor has moved a task that nobody has ended.
Swaps(a, t, new) ==
    /\ Steps(a)
    /\ t \in Tasks /\ row[t].status \notin Final \cup {"none"}
    /\ new \in Statuses \ {"none"}
    /\ \E x \in [status : Statuses, done : BOOLEAN] : x.status = new /\ row' = [row EXCEPT ![t] = x]
    /\ hand[a].pc \notin BillOps
    /\ UNCHANGED <<sub, quota, lost, paid>>

\* The actor has become the biller of the task.
BecomesBiller(a, t, delta) ==
    /\ hand'[a].pc = "funding" /\ hand'[a].task = t /\ hand'[a].delta = delta
    /\ a \in AsyncTasks => a = t

\* It has nothing to bill.
StaysFree(a) == hand'[a].pc \notin BillOps

MovesOn(a, t, new) ==
    /\ Swaps(a, t, new) /\ new \notin Final
    /\ StaysFree(a) /\ UNCHANGED <<due, excused>>

FailsTask(a, t) ==
    /\ Swaps(a, t, "FAILURE") /\ UNCHANGED <<due, excused>>
    /\ \/ BecomesBiller(a, t, -quota[t])
       \/ StaysFree(a) /\ (quota[t] = 0 \/ IsLegacy(t))

CompletesTask(a, t) ==
    /\ Swaps(a, t, "SUCCESS") /\ UNCHANGED excused
    /\ \E d \in Nat :
         /\ due' = [due EXCEPT ![t] = d]
         /\ \/ BecomesBiller(a, t, d - quota[t])
            \/ StaysFree(a) /\ d \in {quota[t], due[t]}

\* The swap took effect, but the actor was told that it failed.
EndsUnheard(a, t, new) ==
    /\ Swaps(a, t, new) /\ new \in Final
    /\ StaysFree(a) /\ UNCHANGED due
    /\ excused' = excused \cup {t}

\* The biller has failed or crashed.
CutShort(a) ==
    /\ Steps(a)
    /\ hand[a].pc \in BillOps /\ StaysFree(a)
    /\ excused' = excused \cup {hand[a].task}
    /\ UNCHANGED <<sub, quota, row, lost, paid, due>>

-----------------------------------------------------------------------------
(* Hands *)

\* An actor's hand is well formed.
LEMMA HandIs ==
    ASSUME Shape, NEW a \in Actors
    PROVE  hand[a] \in Hands /\ HandOK(a, hand[a])
  BY DEF Shape, TypeOK

\* The place at rest.
LEMMA RestIs ==
    /\ Rest \in Hands
    /\ Rest.back = "rest" /\ Rest.pc = "rest" /\ Rest.batch = NoBatch
<1>1. NoBatch \in [Tasks -> Statuses] /\ NoResult \in [status : Statuses, full : BOOLEAN]
  BY DEF NoBatch, NoResult, Statuses
<1> QED
  BY <1>1 DEF Rest, Hands

\* The fields of the place an actor goes on from.
LEMMA OnwardFields ==
    ASSUME NEW a \in Actors, hand[a] \in Hands, NEW t \in Tasks,
           NEW pc \in {"rest", "sweep", "poll", "funding", "generate", "record", "over"}
    PROVE  /\ Onward(a, t, pc) \in Hands
           /\ Onward(a, t, pc).pc = pc /\ Onward(a, t, pc).back = "rest"
           /\ Onward(a, t, pc).batch = [hand[a].batch EXCEPT ![t] = "none"]
           /\ Onward(a, t, pc).batch \in [Tasks -> Statuses]
<1>1. [hand[a].batch EXCEPT ![t] = "none"] \in [Tasks -> Statuses]
  BY DEF Hands, Statuses
<1> DEFINE bt == [hand[a].batch EXCEPT ![t] = "none"]
<1>2. Onward(a, t, pc) = [Rest EXCEPT !.pc = pc, !.batch = bt]
  BY DEF Onward
<1> HIDE DEF bt
<1>3. /\ [Rest EXCEPT !.pc = pc, !.batch = bt] \in Hands
      /\ [Rest EXCEPT !.pc = pc, !.batch = bt].pc = pc
      /\ [Rest EXCEPT !.pc = pc, !.batch = bt].back = "rest"
      /\ [Rest EXCEPT !.pc = pc, !.batch = bt].batch = bt
  BY <1>1, RestIs DEF Hands, bt
<1> QED
  BY <1>1, <1>2, <1>3 DEF bt

\* An actor that has finished with a task is well placed and bills nobody.
LEMMA OnwardOK ==
    ASSUME Shape, NEW a \in Actors, a \notin Readers, NEW t \in Tasks,
           NEW pc \in {"sweep", "poll", "generate", "record", "over"}
    PROVE  HandOK(a, Onward(a, t, pc)) /\ Onward(a, t, pc).pc \notin BillOps
<1>1. hand[a] \in Hands /\ HandOK(a, hand[a])
  BY HandIs
<1>2. hand[a].batch \in [Tasks -> Statuses]
  BY <1>1 DEF Hands
<1>3. PICK o : o = Onward(a, t, pc)
  OBVIOUS
<1>4. /\ o \in Hands /\ o.pc = pc /\ o.back = "rest"
      /\ o.batch = [hand[a].batch EXCEPT ![t] = "none"] /\ o.batch \in [Tasks -> Statuses]
  BY <1>1, <1>3, OnwardFields
<1>5. HandOK(a, o) /\ o.pc \notin BillOps
  BY <1>1, <1>2, <1>4 DEF HandOK, BillOps, Final
<1> QED
  BY <1>3, <1>5

\* What Bill does to the actor: it goes on, or becomes the biller of t.
LEMMA BillEffect ==
    ASSUME Shape, NEW a \in Actors, a \notin Readers, NEW t \in Tasks, NEW delta \in Int,
           NEW pc \in {"sweep", "poll", "over"}, Bill(a, t, delta, pc), a \in AsyncTasks => a = t
    PROVE  /\ Steps(a)
           /\ IF delta = 0 THEN StaysFree(a) ELSE BecomesBiller(a, t, delta)
<1>1. hand[a] \in Hands /\ HandOK(a, hand[a]) /\ hand \in [Actors -> Hands]
  BY HandIs DEF Shape, TypeOK
<1>2. CASE delta = 0
  <2>1. hand' = [hand EXCEPT ![a] = Onward(a, t, pc)]
    BY <1>2 DEF Bill
  <2>2. hand'[a] = Onward(a, t, pc)
    BY <2>1, <1>1
  <2> QED
    BY <1>2, <2>1, <2>2, OnwardOK DEF Steps, StaysFree
<1>3. CASE delta # 0
  <2> DEFINE h == [Onward(a, t, "funding") EXCEPT !.task = t, !.delta = delta, !.back = pc]
  <2>1. hand' = [hand EXCEPT ![a] = h]
    BY <1>3 DEF Bill
  <2>2. hand'[a] = h
    BY <2>1, <1>1
  <2>3. PICK o : o = Onward(a, t, "funding")
    OBVIOUS
  <2>4. /\ o \in Hands /\ o.pc = "funding"
        /\ o.batch = [hand[a].batch EXCEPT ![t] = "none"] /\ o.batch \in [Tasks -> Statuses]
    BY <1>1, <2>3, OnwardFields
  <2>5. /\ h \in Hands /\ h.pc = "funding" /\ h.task = t /\ h.delta = delta /\ h.back = pc
        /\ h.batch = o.batch
    <3>1. h = [o EXCEPT !.task = t, !.delta = delta, !.back = pc]
      BY <2>3
    <3> QED
      BY <2>4, <3>1 DEF Hands
  <2>6. hand[a].batch \in [Tasks -> Statuses]
    BY <1>1 DEF Hands
  <2> HIDE DEF h
  <2>7. HandOK(a, h)
    BY <1>1, <2>4, <2>5, <2>6 DEF HandOK, Final
  <2> QED
    BY <1>3, <2>1, <2>2, <2>5, <2>7 DEF Steps, BecomesBiller
<1> QED
  BY <1>2, <1>3

\* What GoOn does to the actor.
LEMMA GoOnEffect ==
    ASSUME Shape, NEW a \in Actors, a \notin Readers, NEW t \in Tasks,
           NEW pc \in {"sweep", "poll", "generate", "record", "over"}, GoOn(a, t, pc)
    PROVE  Steps(a) /\ StaysFree(a)
<1>1. hand \in [Actors -> Hands]
  BY DEF Shape, TypeOK
<1>2. hand'[a] = Onward(a, t, pc)
  BY <1>1 DEF GoOn
<1> QED
  BY <1>2, OnwardOK DEF Steps, StaysFree, GoOn

\* Pollers and goroutines are no readers.
LEMMA ActorKinds ==
    /\ \A p \in Pollers : p \in Actors /\ p \notin Readers /\ p \notin AsyncTasks
    /\ \A t \in AsyncTasks : t \in Actors /\ t \notin Readers /\ t \in Tasks
  BY ConstantsAssumption DEF Actors, AsyncTasks

-----------------------------------------------------------------------------
(* The kind of every step *)

\* What an upstream reports is a status.
LEMMA ReportedIs ==
    ASSUME Shape, NEW t \in Tasks
    PROVE  Reported(t) \in Statuses \ {"none"}
<1>1. up[t] \in {"queued", "running", "success", "failure"}
  BY DEF Shape, TypeOK
<1> QED
  BY <1>1 DEF Reported, Statuses

\* The result of a fetch has a status, since the row has one.
LEMMA ResultsAre ==
    ASSUME CasOnly, Shape, NEW t \in Tasks, row[t].status # "none", NEW r \in Results(t)
    PROVE  r \in [status : Statuses, full : BOOLEAN] /\ r.status # "none"
<1>1. row[t].status \in Statuses
  BY DEF Shape, TypeOK
<1>2. LocalStatus(t) \in Statuses \ {"none"}
  BY <1>1 DEF LocalStatus, Statuses
<1>3. Platform[t] # "suno"
  BY DEF CasOnly
<1>4. r.status \in {LocalStatus(t), Reported(t)} /\ r \in [status : Statuses, full : BOOLEAN]
  BY <1>2, <1>3, ReportedIs DEF Results
<1> QED
  BY <1>2, <1>4, ReportedIs

\* A poller reads statuses that are not final.
LEMMA ReadWalks ==
    ASSUME Shape, NEW p \in Pollers, NEW pc \in {"sweep", "poll"}, NEW bt \in [Tasks -> Statuses],
           \A t \in Tasks : bt[t] # "none" => Unfinished(t) /\ bt[t] = row[t].status,
           hand' = [hand EXCEPT ![p] = [Rest EXCEPT !.pc = pc, !.batch = bt]], hand[p].pc \notin BillOps,
           UNCHANGED <<sub, quota, row, lost, paid, due, excused>>
    PROVE  Walks(p)
<1>1. hand \in [Actors -> Hands]
  BY DEF Shape, TypeOK
<1>2. p \in Actors /\ p \notin Readers
  BY ActorKinds
<1>3. \A t \in Tasks : bt[t] \notin Final /\ (bt[t] # "none" => row[t].status # "none")
  BY DEF Unfinished, Final
<1>4. PICK h : h = [Rest EXCEPT !.pc = pc, !.batch = bt]
  OBVIOUS
<1>5. h \in Hands /\ h.pc = pc /\ h.back = "rest" /\ h.batch = bt
  BY <1>4, RestIs DEF Hands
<1>6. HandOK(p, h)
  BY <1>2, <1>3, <1>5 DEF HandOK
<1>7. hand' = [hand EXCEPT ![p] = h] /\ hand'[p] = h
  BY <1>1, <1>2, <1>4
<1> QED
  BY <1>2, <1>5, <1>6, <1>7 DEF Walks, Steps, BillOps

\* A poller takes up the result of a task of its batch.
LEMMA FetchWalks ==
    ASSUME Shape, NEW p \in Pollers, NEW t \in Tasks, ToPoll(p, t),
           NEW r \in [status : Statuses, full : BOOLEAN], r.status # "none",
           hand' = [hand EXCEPT ![p].pc = "apply", ![p].task = t, ![p].res = r],
           UNCHANGED <<sub, quota, row, lost, paid, due, excused>>
    PROVE  Walks(p)
<1>1. p \in Actors /\ p \notin Readers
  BY ActorKinds
<1>2. PICK o : o = hand[p]
  OBVIOUS
<1>3. o \in Hands /\ HandOK(p, o) /\ hand \in [Actors -> Hands]
  BY <1>1, <1>2, HandIs DEF Shape, TypeOK
<1>4. PICK h : h = [o EXCEPT !.pc = "apply", !.task = t, !.res = r]
  OBVIOUS
<1>5. /\ h \in Hands /\ h.pc = "apply" /\ h.task = t /\ h.res = r
      /\ h.batch = o.batch /\ h.back = o.back
  BY <1>3, <1>4 DEF Hands
<1>6. HandOK(p, h)
  BY <1>1, <1>2, <1>3, <1>5 DEF HandOK, ToPoll
<1>7. hand' = [hand EXCEPT ![p] = h] /\ hand'[p] = h
  BY <1>1, <1>2, <1>3, <1>4
<1> QED
  BY <1>1, <1>5, <1>6, <1>7 DEF Walks, Steps, BillOps, ToPoll

\* The row gets a status, with any progress.
Puts(t, status) == \E full : Put(t, status, full)
Errs(t, from, to) == \E full : CasError(t, from, to, full)

\* The record that is put.
LEMMA PutIs ==
    ASSUME NEW t \in Tasks, NEW new \in Statuses, Puts(t, new)
    PROVE  \E x \in [status : Statuses, done : BOOLEAN] : x.status = new /\ row' = [row EXCEPT ![t] = x]
<1>1. PICK full : row' = [row EXCEPT ![t] = [status |-> new, done |-> full \/ new \in Final]]
  BY DEF Puts, Put
<1>2. PICK x : x = [status |-> new, done |-> full \/ new \in Final]
  OBVIOUS
<1>3. (full \/ new \in Final) \in BOOLEAN
  OBVIOUS
<1>4. x \in [status : Statuses, done : BOOLEAN] /\ x.status = new
  BY <1>2, <1>3
<1> QED
  BY <1>1, <1>2, <1>4

\* A swap from a status that is not final.
LEMMA SwapEffect ==
    ASSUME Shape, NEW a \in Actors, Steps(a), hand[a].pc \notin BillOps,
           NEW t \in Tasks, NEW from, from \notin Final \cup {"none"},
           CasWins(t, from), NEW new \in Statuses \ {"none"}, Puts(t, new),
           UNCHANGED <<sub, quota, lost, paid>>
    PROVE  Swaps(a, t, new)
  BY PutIs DEF Swaps, CasWins

\* A swap that reports an error has had no effect, or one nobody bills.
LEMMA CasErrorEffect ==
    ASSUME Shape, NEW a \in Actors, Steps(a), StaysFree(a), hand[a].pc \notin BillOps,
           NEW t \in Tasks, NEW from, from \notin Final \cup {"none"},
           NEW new \in Statuses \ {"none"}, Errs(t, from, new),
           UNCHANGED <<sub, quota, lost, paid, due>>
    PROVE  Walks(a) \/ MovesOn(a, t, new) \/ EndsUnheard(a, t, new)
<1>1. CASE UNCHANGED <<row, excused>>
  BY <1>1 DEF Walks, StaysFree
<1>2. CASE /\ CasWins(t, from) /\ Puts(t, new)
           /\ excused' = excused \cup (IF new \in Final THEN {t} ELSE {})
  <2>1. Swaps(a, t, new)
    BY <1>2, SwapEffect
  <2> QED
    BY <1>2, <2>1 DEF MovesOn, EndsUnheard
<1> QED
  BY <1>1, <1>2 DEF CasError, Errs, Puts

\* The steps in which an actor ends a task or moves it on.
Moves(a, t) ==
    \/ FailsTask(a, t) \/ CompletesTask(a, t)
    \/ \E new \in Statuses \ {"none"} : MovesOn(a, t, new) \/ EndsUnheard(a, t, new)

\* The poller reads its two batches.
LEMMA ReadKinds ==
    ASSUME Shape, NEW p \in Pollers, SweepRead(p) \/ PollRead(p)
    PROVE  Walks(p)
<1>1. row \in [Tasks -> [status : Statuses, done : BOOLEAN]]
  BY DEF Shape, TypeOK
<1>2. ASSUME SweepRead(p) PROVE Walks(p)
  <2>1. PICK bt : bt = [t \in Tasks |-> IF TimedOut(t) THEN row[t].status ELSE "none"]
    OBVIOUS
  <2>2. bt \in [Tasks -> Statuses]
    BY <1>1, <2>1 DEF Statuses
  <2>3. \A t \in Tasks : bt[t] # "none" => Unfinished(t) /\ bt[t] = row[t].status
    BY <2>1 DEF TimedOut
  <2>4. hand' = [hand EXCEPT ![p] = [Rest EXCEPT !.pc = "sweep", !.batch = bt]]
    BY <1>2, <2>1 DEF SweepRead, Read
  <2> QED
    BY <1>2, <2>2, <2>3, <2>4, ReadWalks DEF SweepRead, BillOps
<1>3. ASSUME PollRead(p) PROVE Walks(p)
  <2>1. PICK bt : bt = [t \in Tasks |-> IF Unfinished(t) THEN row[t].status ELSE "none"]
    OBVIOUS
  <2>2. bt \in [Tasks -> Statuses]
    BY <1>1, <2>1 DEF Statuses
  <2>3. \A t \in Tasks : bt[t] # "none" => Unfinished(t) /\ bt[t] = row[t].status
    BY <2>1
  <2>4. hand' = [hand EXCEPT ![p] = [Rest EXCEPT !.pc = "poll", !.batch = bt]]
    BY <1>3, <2>1 DEF PollRead, Read
  <2> QED
    BY <1>3, <2>2, <2>3, <2>4, ReadWalks DEF PollRead, BillOps
<1> QED
  BY <1>2, <1>3

\* What the poller has in its batch.
LEMMA BatchIs ==
    ASSUME Shape, NEW p \in Pollers, NEW t \in Tasks, hand[p].batch[t] # "none"
    PROVE  hand[p].batch[t] \notin Final \cup {"none"} /\ row[t].status # "none"
  BY HandIs, ActorKinds DEF HandOK

\* The steps of a poller on one task of its batch.
LEMMA PollTaskKinds ==
    ASSUME CasOnly, Shape, NEW p \in Pollers, NEW t \in Tasks, PollTask(p, t)
    PROVE  Walks(p) \/ Moves(p, t)
<1>1. p \in Actors /\ p \notin Readers /\ p \notin AsyncTasks
  BY ActorKinds
<1>2. lost = {} /\ quota[t] \in Nat
  BY DEF Shape, TypeOK
<1>3. {"SUCCESS", "FAILURE"} \subseteq Statuses \ {"none"} /\ "FAILURE" \in Final
  BY DEF Statuses, Final
<1>4. ASSUME SweepTask(p, t) PROVE FailsTask(p, t)
  <2>1. hand[p].batch[t] \notin Final \cup {"none"}
    BY <1>4, BatchIs DEF SweepTask
  <2>2. PICK delta : delta = IF IsLegacy(t) THEN 0 ELSE -quota[t]
    OBVIOUS
  <2>3. delta \in Int
    BY <1>2, <2>2
  <2>4. Steps(p) /\ IF delta = 0 THEN StaysFree(p) ELSE BecomesBiller(p, t, delta)
    BY <1>1, <1>4, <2>2, <2>3, BillEffect DEF SweepTask
  <2>5. Swaps(p, t, "FAILURE")
    BY <1>1, <1>3, <1>4, <2>1, <2>4, SwapEffect DEF SweepTask, BillOps, Puts
  <2>6. delta = 0 => quota[t] = 0 \/ IsLegacy(t)
    BY <1>2, <2>2
  <2>7. delta # 0 => delta = -quota[t]
    BY <2>2
  <2> QED
    BY <1>4, <2>4, <2>5, <2>6, <2>7 DEF FailsTask, SweepTask
<1>5. ASSUME SweepLost(p, t) PROVE Walks(p)
  <2>1. Steps(p) /\ StaysFree(p)
    BY <1>1, <1>5, GoOnEffect DEF SweepLost
  <2> QED
    BY <1>5, <2>1 DEF SweepLost, Walks, StaysFree, BillOps
<1>6. ASSUME SweepError(p, t) PROVE Walks(p) \/ Moves(p, t)
  <2>1. Steps(p) /\ StaysFree(p)
    BY <1>1, <1>6, GoOnEffect DEF SweepError
  <2>2. hand[p].batch[t] \notin Final \cup {"none"} /\ hand[p].pc \notin BillOps
    BY <1>6, BatchIs DEF SweepError, BillOps
  <2>3. Walks(p) \/ MovesOn(p, t, "FAILURE") \/ EndsUnheard(p, t, "FAILURE")
    BY <1>1, <1>3, <1>6, <2>1, <2>2, CasErrorEffect DEF SweepError, Errs
  <2> QED
    BY <1>3, <2>3 DEF Moves
<1>7. ~BulkFail(p, t)
  BY <1>2 DEF BulkFail
<1>8. ASSUME Fetch(p, t) PROVE Walks(p)
  <2>1. row[t].status # "none"
    BY <1>8, BatchIs DEF Fetch, ToPoll
  <2>2. PICK r \in Results(t) : hand' = [hand EXCEPT ![p].pc = "apply", ![p].task = t, ![p].res = r]
    BY <1>8 DEF Fetch
  <2>3. r \in [status : Statuses, full : BOOLEAN] /\ r.status # "none"
    BY <2>1, ResultsAre
  <2> QED
    BY <1>8, <2>2, <2>3, FetchWalks DEF Fetch
<1>9. ASSUME FetchMessage(p, t) PROVE Walks(p)
  <2>1. PICK r : r = [status |-> "FAILURE", full |-> TRUE]
    OBVIOUS
  <2>2. r \in [status : Statuses, full : BOOLEAN] /\ r.status # "none"
    BY <1>3, <2>1
  <2>3. hand' = [hand EXCEPT ![p].pc = "apply", ![p].task = t, ![p].res = r]
    BY <1>9, <2>1 DEF FetchMessage
  <2> QED
    BY <1>9, <2>2, <2>3, FetchWalks DEF FetchMessage
<1>10. ASSUME FetchFails(p, t) PROVE Walks(p)
  <2>1. Steps(p) /\ StaysFree(p)
    BY <1>1, <1>10, GoOnEffect DEF FetchFails
  <2> QED
    BY <1>10, <2>1 DEF FetchFails, ToPoll, Walks, StaysFree, BillOps
<1> QED
  BY <1>4, <1>5, <1>6, <1>7, <1>8, <1>9, <1>10 DEF PollTask, SweepStep, Moves

\* What a poller is about to apply.
LEMMA AppliesIs ==
    ASSUME Shape, NEW p \in Pollers, hand[p].pc = "apply"
    PROVE  /\ hand[p].task \in Tasks
           /\ hand[p].batch[hand[p].task] \notin Final \cup {"none"}
           /\ hand[p].res.status \in Statuses \ {"none"}
<1>1. hand[p] \in Hands /\ HandOK(p, hand[p])
  BY ActorKinds, HandIs
<1>2. hand[p].res.status \in Statuses
  BY <1>1 DEF Hands
<1> QED
  BY <1>1, <1>2 DEF HandOK

\* A poller's terminal status has won.
LEMMA ApplyFinalKind ==
    ASSUME Shape, NEW p \in Pollers, ApplyFinal(p)
    PROVE  Moves(p, hand[p].task)
<1>1. p \in Actors /\ p \notin Readers /\ p \notin AsyncTasks
  BY ActorKinds
<1>2. PICK t : t = hand[p].task
  OBVIOUS
<1>3. PICK new : new = hand[p].res.status
  OBVIOUS
<1>4. /\ hand[p].pc = "apply" /\ new \in Final
      /\ CasWins(t, hand[p].batch[t]) /\ Puts(t, new)
      /\ UNCHANGED <<sub, quota, lost, paid, excused>>
  BY <1>2, <1>3 DEF ApplyFinal, Applies, Puts
<1>5. t \in Tasks /\ hand[p].batch[t] \notin Final \cup {"none"} /\ new \in Statuses \ {"none"}
  BY <1>2, <1>3, <1>4, AppliesIs
<1>6. quota[t] \in Nat /\ due \in [Tasks -> Nat] /\ hand[p].pc \notin BillOps
  BY <1>4, <1>5 DEF Shape, TypeOK, BillOps
<1>7. CASE new = "FAILURE"
  <2>1. Bill(p, t, -quota[t], "poll") /\ UNCHANGED due
    BY <1>2, <1>3, <1>7 DEF ApplyFinal
  <2>2. PICK delta : delta = -quota[t]
    OBVIOUS
  <2>3. delta \in Int /\ (delta = 0 => quota[t] = 0)
    BY <1>6, <2>2
  <2>4. Steps(p) /\ IF delta = 0 THEN StaysFree(p) ELSE BecomesBiller(p, t, delta)
    BY <1>1, <1>5, <2>1, <2>2, <2>3, BillEffect
  <2>5. Swaps(p, t, new)
    BY <1>1, <1>4, <1>5, <1>6, <2>4, SwapEffect
  <2> QED
    BY <1>2, <1>4, <1>7, <2>1, <2>2, <2>3, <2>4, <2>5 DEF FailsTask, Moves
<1>8. CASE new # "FAILURE"
  <2>1. PICK actual \in Actuals : /\ Bill(p, t, SettleDelta(t, actual), "poll")
                                  /\ due' = [due EXCEPT ![t] = IF actual > 0 THEN actual ELSE quota[t]]
    BY <1>2, <1>3, <1>8 DEF ApplyFinal
  <2>2. PICK d : d = IF actual > 0 THEN actual ELSE quota[t]
    OBVIOUS
  <2>3. PICK delta : delta = SettleDelta(t, actual)
    OBVIOUS
  <2>4. d \in Nat /\ delta \in Int /\ delta = d - quota[t] /\ (delta = 0 => d = quota[t])
    BY <1>6, <2>2, <2>3, ConstantsAssumption DEF SettleDelta
  <2>5. Steps(p) /\ IF delta = 0 THEN StaysFree(p) ELSE BecomesBiller(p, t, delta)
    BY <1>1, <1>5, <2>1, <2>3, <2>4, BillEffect
  <2>6. Swaps(p, t, new)
    BY <1>1, <1>4, <1>5, <1>6, <2>5, SwapEffect
  <2>7. new = "SUCCESS"
    BY <1>4, <1>8 DEF Final
  <2>8. StaysFree(p) \/ BecomesBiller(p, t, d - quota[t])
    BY <2>4, <2>5
  <2>9. StaysFree(p) => d \in {quota[t], due[t]}
    BY <2>4, <2>5 DEF StaysFree, BecomesBiller, BillOps
  <2> QED
    BY <1>2, <1>4, <2>1, <2>2, <2>4, <2>6, <2>7, <2>8, <2>9 DEF CompletesTask, Moves
<1> QED
  BY <1>7, <1>8

\* The other steps of a poller.
LEMMA PollStepKinds ==
    ASSUME CasOnly, Shape, NEW p \in Pollers, PollStep(p)
    PROVE  Walks(p) \/ \E t \in Tasks : Moves(p, t)
<1>1. p \in Actors /\ p \notin Readers /\ p \notin AsyncTasks
  BY ActorKinds
<1>2. hand[p].pc # "save"
  BY <1>1, HandIs DEF HandOK
<1>3. ASSUME hand[p].pc = "apply", GoOn(p, hand[p].task, "poll")
      PROVE  Steps(p) /\ StaysFree(p) /\ hand[p].pc \notin BillOps
  BY <1>1, <1>3, AppliesIs, GoOnEffect DEF BillOps
<1>4. ASSUME ApplyFinal(p) PROVE \E t \in Tasks : Moves(p, t)
  BY <1>4, AppliesIs, ApplyFinalKind DEF ApplyFinal, Applies
<1>5. ASSUME ApplyProgress(p) PROVE Walks(p) \/ \E t \in Tasks : Moves(p, t)
  <2>1. PICK t : t = hand[p].task
    OBVIOUS
  <2>2. PICK new : new = hand[p].res.status
    OBVIOUS
  <2>3. /\ hand[p].pc = "apply" /\ new \notin Final /\ GoOn(p, t, "poll")
        /\ UNCHANGED <<sub, quota, lost, paid, due, excused>>
    BY <1>5, <2>1, <2>2 DEF ApplyProgress, Applies
  <2>4. t \in Tasks /\ hand[p].batch[t] \notin Final \cup {"none"} /\ new \in Statuses \ {"none"}
    BY <2>1, <2>2, <2>3, AppliesIs
  <2>5. Steps(p) /\ StaysFree(p) /\ hand[p].pc \notin BillOps
    BY <1>3, <2>1, <2>3
  <2>6. CASE CasWins(t, hand[p].batch[t])
    <3>1. Puts(t, new)
      BY <1>5, <2>1, <2>2, <2>6 DEF ApplyProgress, Puts
    <3>2. Swaps(p, t, new)
      BY <1>1, <2>3, <2>4, <2>5, <2>6, <3>1, SwapEffect
    <3> QED
      BY <2>3, <2>4, <2>5, <3>2 DEF MovesOn, Moves
  <2>7. CASE ~CasWins(t, hand[p].batch[t])
    <3>1. UNCHANGED row
      BY <1>5, <2>1, <2>2, <2>7 DEF ApplyProgress
    <3> QED
      BY <2>3, <2>5, <3>1 DEF Walks, StaysFree
  <2> QED
    BY <2>6, <2>7
<1>6. ASSUME ApplyLost(p) PROVE Walks(p)
  BY <1>6, <1>3 DEF ApplyLost, Applies, Walks, StaysFree
<1>7. ASSUME ApplyError(p) PROVE Walks(p) \/ \E t \in Tasks : Moves(p, t)
  <2>1. PICK t : t = hand[p].task
    OBVIOUS
  <2>2. PICK new : new = hand[p].res.status
    OBVIOUS
  <2>3. /\ hand[p].pc = "apply" /\ GoOn(p, t, "poll")
        /\ Errs(t, hand[p].batch[t], new)
        /\ UNCHANGED <<sub, quota, lost, paid, due>>
    BY <1>7, <2>1, <2>2 DEF ApplyError, Applies, Errs
  <2>4. t \in Tasks /\ hand[p].batch[t] \notin Final \cup {"none"} /\ new \in Statuses \ {"none"}
    BY <2>1, <2>2, <2>3, AppliesIs
  <2>5. Steps(p) /\ StaysFree(p) /\ hand[p].pc \notin BillOps
    BY <1>3, <2>1, <2>3
  <2>6. Walks(p) \/ MovesOn(p, t, new) \/ EndsUnheard(p, t, new)
    BY <1>1, <2>3, <2>4, <2>5, CasErrorEffect
  <2> QED
    BY <2>4, <2>6 DEF Moves
<1>8. ~ApplySuno(p)
  <2>1. hand[p].pc = "apply" => Platform[hand[p].task] # "suno"
    BY AppliesIs DEF CasOnly
  <2> QED
    BY <2>1 DEF ApplySuno, Applies
<1>9. ~SaveSuno(p) /\ ~SaveSunoFails(p)
  BY <1>2 DEF SaveSuno, SaveSunoFails
<1> QED
  BY <1>4, <1>5, <1>6, <1>7, <1>8, <1>9, ReadKinds DEF PollStep

\* The goroutine of an async task moves its own task.
LEMMA GenerationKinds ==
    ASSUME Shape, NEW t \in AsyncTasks, Generation(t)
    PROVE  Walks(t) \/ Moves(t, t)
<1>1. t \in Actors /\ t \notin Readers /\ t \in Tasks
  BY ActorKinds
<1>2. quota[t] \in Nat /\ due \in [Tasks -> Nat]
  BY <1>1 DEF Shape, TypeOK
<1>3. {"IN_PROGRESS", "NOT_START"} \subseteq Statuses \ ({"none"} \cup Final)
  BY DEF Statuses, Final
<1>4. Reported(t) \in Statuses \ {"none"}
  BY <1>1, ReportedIs
<1>5. ASSUME GenerationStarts(t) PROVE Walks(t) \/ Moves(t, t)
  <2>1. hand[t].pc \notin BillOps /\ UNCHANGED <<sub, quota, lost, paid, due, excused>>
    BY <1>5 DEF GenerationStarts, BillOps
  <2>2. CASE CasWins(t, "NOT_START")
    <3>1. Puts(t, "IN_PROGRESS") /\ GoOn(t, t, "generate")
      BY <1>5, <2>2 DEF GenerationStarts, Puts
    <3>2. Steps(t) /\ StaysFree(t)
      BY <1>1, <3>1, GoOnEffect
    <3>3. Swaps(t, t, "IN_PROGRESS")
      BY <1>1, <1>3, <2>1, <2>2, <3>1, <3>2, SwapEffect
    <3> QED
      BY <1>3, <2>1, <3>2, <3>3 DEF MovesOn, Moves
  <2>3. CASE ~CasWins(t, "NOT_START")
    <3>1. UNCHANGED row /\ GoOn(t, t, "over")
      BY <1>5, <2>3 DEF GenerationStarts
    <3>2. Steps(t) /\ StaysFree(t)
      BY <1>1, <3>1, GoOnEffect
    <3> QED
      BY <2>1, <3>1, <3>2 DEF Walks, StaysFree
  <2> QED
    BY <2>2, <2>3
<1>6. ASSUME GenerationEnds(t) PROVE Walks(t)
  <2>1. Steps(t) /\ StaysFree(t)
    BY <1>1, <1>6, GoOnEffect DEF GenerationEnds
  <2> QED
    BY <1>6, <2>1 DEF GenerationEnds, Walks, StaysFree, BillOps
<1>7. ASSUME RecordResult(t) PROVE Walks(t) \/ Moves(t, t)
  <2>1. hand[t].pc \notin BillOps /\ UNCHANGED <<sub, quota, lost, paid, due, excused>>
    BY <1>7 DEF RecordResult, BillOps
  <2>2. CASE CasWins(t, "IN_PROGRESS")
    <3>1. PICK new : new = Reported(t)
      OBVIOUS
    <3>2. PICK delta : delta = IF new = "FAILURE" THEN -quota[t] ELSE 0
      OBVIOUS
    <3>3. Puts(t, new) /\ Bill(t, t, delta, "over")
      BY <1>7, <2>2, <3>1, <3>2 DEF RecordResult, Puts
    <3>4. delta \in Int
      BY <1>2, <3>2
    <3>5. Steps(t) /\ IF delta = 0 THEN StaysFree(t) ELSE BecomesBiller(t, t, delta)
      BY <1>1, <3>3, <3>4, BillEffect
    <3>6. Swaps(t, t, new)
      BY <1>1, <1>3, <1>4, <2>1, <2>2, <3>1, <3>3, <3>5, SwapEffect
    <3>7. CASE new = "FAILURE"
      <4>1. delta = -quota[t] /\ (delta = 0 => quota[t] = 0)
        BY <1>2, <3>2, <3>7
      <4> QED
        BY <2>1, <3>5, <3>6, <3>7, <4>1 DEF FailsTask, Moves
    <3>8. CASE new = "SUCCESS"
      <4>1. StaysFree(t)
        BY <3>2, <3>5, <3>8
      <4>2. due' = [due EXCEPT ![t] = due[t]] /\ due[t] \in Nat
        BY <1>1, <1>2, <2>1
      <4>3. CompletesTask(t, t)
        BY <2>1, <3>6, <3>8, <4>1, <4>2 DEF CompletesTask
      <4> QED
        BY <4>3 DEF Moves
    <3>9. CASE new \notin Final
      <4>1. StaysFree(t)
        BY <3>2, <3>5, <3>9 DEF Final
      <4> QED
        BY <1>4, <2>1, <3>1, <3>6, <3>9, <4>1 DEF MovesOn, Moves
    <3> QED
      BY <3>7, <3>8, <3>9 DEF Final
  <2>3. CASE ~CasWins(t, "IN_PROGRESS")
    <3>1. UNCHANGED row /\ GoOn(t, t, "over")
      BY <1>7, <2>3 DEF RecordResult
    <3>2. Steps(t) /\ StaysFree(t)
      BY <1>1, <3>1, GoOnEffect
    <3> QED
      BY <2>1, <3>1, <3>2 DEF Walks, StaysFree
  <2> QED
    BY <2>2, <2>3
<1>8. ASSUME GenerationError(t) PROVE Walks(t) \/ Moves(t, t)
  <2>1. UNCHANGED <<sub, quota, lost, paid, due>> /\ hand[t].pc \notin BillOps
    BY <1>8 DEF GenerationError, BillOps
  <2>2. Steps(t) /\ StaysFree(t)
    BY <1>1, <1>8, GoOnEffect DEF GenerationError
  <2>3. PICK from \in {"IN_PROGRESS", "NOT_START"}, new \in {"IN_PROGRESS", Reported(t)} :
            Errs(t, from, new)
    BY <1>8 DEF GenerationError, Errs
  <2>4. new \in Statuses \ {"none"} /\ from \notin Final \cup {"none"}
    BY <1>3, <1>4
  <2>5. Walks(t) \/ MovesOn(t, t, new) \/ EndsUnheard(t, t, new)
    BY <1>1, <2>1, <2>2, <2>3, <2>4, CasErrorEffect
  <2> QED
    BY <2>4, <2>5 DEF Moves
<1> QED
  BY <1>5, <1>6, <1>7, <1>8 DEF Generation

\* A biller that is done goes back to where it came from.
LEMMA ReturnOK ==
    ASSUME Shape, NEW a \in Actors, hand[a].pc \in BillOps
    PROVE  HandOK(a, Return(hand[a])) /\ Return(hand[a]).pc \notin BillOps
<1>1. PICK h : h = hand[a]
  OBVIOUS
<1>2. h \in Hands /\ HandOK(a, h)
  BY <1>1, HandIs
<1>3. a \notin Readers
  BY <1>1, <1>2 DEF HandOK, BillOps
<1>4. PICK r : r = [Rest EXCEPT !.pc = h.back, !.batch = h.batch]
  OBVIOUS
<1>5. h.back \in {"rest", "sweep", "poll", "over"} /\ h.batch \in [Tasks -> Statuses]
  BY <1>2 DEF HandOK, Hands
<1>6. r \in Hands /\ r.pc = h.back /\ r.back = "rest" /\ r.batch = h.batch
  BY <1>4, <1>5, RestIs DEF Hands
<1>7. HandOK(a, r) /\ r.pc \notin BillOps
  BY <1>2, <1>3, <1>5, <1>6 DEF HandOK, BillOps
<1>8. Return(hand[a]) = r
  BY <1>1, <1>4, <1>5 DEF Return
<1> QED
  BY <1>7, <1>8

\* The step of a biller that returns.
LEMMA ReturnSteps ==
    ASSUME Shape, NEW a \in Actors, hand[a].pc \in BillOps,
           hand' = [hand EXCEPT ![a] = Return(hand[a])]
    PROVE  Steps(a) /\ StaysFree(a)
<1>1. hand'[a] = Return(hand[a])
  BY DEF Shape, TypeOK
<1> QED
  BY <1>1, ReturnOK DEF Steps, StaysFree

\* A failure or a crash of a biller, a crash of anybody else.
LEMMA CutKinds ==
    ASSUME Shape, NEW a \in Actors, AdjustFundingFails(a) \/ AdjustTokenFails(a) \/ Crash(a)
    PROVE  CutShort(a) \/ Walks(a)
<1>1. ASSUME AdjustFundingFails(a) \/ AdjustTokenFails(a) PROVE CutShort(a)
  <2>1. hand[a].pc \in BillOps /\ hand' = [hand EXCEPT ![a] = Return(hand[a])]
    BY <1>1 DEF AdjustFundingFails, AdjustTokenFails, BillOps
  <2> QED
    BY <1>1, <2>1, ReturnSteps DEF CutShort, AdjustFundingFails, AdjustTokenFails
<1>2. ASSUME Crash(a) PROVE CutShort(a) \/ Walks(a)
  <2>1. PICK h : h = IF a \in AsyncTasks THEN [Rest EXCEPT !.pc = "over"] ELSE Rest
    OBVIOUS
  <2>2. h \in Hands /\ h.pc \in {"over", "rest"} /\ h.back = "rest" /\ h.batch = NoBatch
    BY <2>1, RestIs DEF Hands
  <2>3. a \notin Readers
    BY <1>2, HandIs DEF Crash, HandOK
  <2>4. HandOK(a, h)
    BY <2>2, <2>3 DEF HandOK, NoBatch, Final
  <2>5. hand' = [hand EXCEPT ![a] = h] /\ hand'[a] = h
    BY <1>2, <2>1 DEF Crash, Shape, TypeOK
  <2>6. Steps(a) /\ StaysFree(a)
    BY <2>2, <2>4, <2>5 DEF Steps, StaysFree, BillOps
  <2> QED
    BY <1>2, <2>6 DEF Crash, CutShort, Walks, StaysFree, BillOps
<1> QED
  BY <1>1, <1>2

\* Readers have nothing to do.
LEMMA NoReading ==
    ASSUME CasOnly, Shape, NEW r \in Readers
    PROVE  ~Reading(r) /\ \A t \in Tasks : ~ReadTask(r, t)
<1>1. hand[r].pc = "rest"
  BY HandIs DEF HandOK, Actors
<1> QED
  BY <1>1 DEF CasOnly, Reading, RealtimeFetch, RealtimeApply, ReadTask

Pays(a) == AdjustFunding(a) \/ AdjustToken(a)

\* Every step is of one of these kinds.
LEMMA StepKinds ==
    ASSUME CasOnly, Shape, [Next]_vars
    PROVE  \/ Calm
           \/ \E t \in Tasks : Submission(t)
           \/ \E a \in Actors : Walks(a) \/ CutShort(a) \/ Pays(a) \/ \E t \in Tasks : Moves(a, t)
<1>1. ASSUME NEW t \in Tasks, Environment(t) PROVE Calm
  BY <1>1 DEF Environment, UpstreamStep, TimePasses, LoseChannel, CasOnly, Calm
<1>2. ASSUME NEW p \in Pollers, PollStep(p) \/ \E t \in Tasks : PollTask(p, t)
      PROVE  p \in Actors /\ (Walks(p) \/ \E t \in Tasks : Moves(p, t))
  BY <1>2, ActorKinds, PollStepKinds, PollTaskKinds
<1>3. ASSUME NEW t \in AsyncTasks, Generation(t)
      PROVE  t \in Actors /\ t \in Tasks /\ (Walks(t) \/ Moves(t, t))
  BY <1>3, ActorKinds, GenerationKinds
<1>4. ASSUME NEW a \in Actors, Billing(a) \/ Crash(a)
      PROVE  Walks(a) \/ CutShort(a) \/ Pays(a)
  BY <1>4, CutKinds DEF Billing, Pays
<1>5. ASSUME UNCHANGED vars PROVE Calm
  BY <1>5 DEF vars, Calm
<1> QED
  BY <1>1, <1>2, <1>3, <1>4, <1>5, NoReading DEF Next

-----------------------------------------------------------------------------
(* Shape *)

\* The types of what the accounts are made of.
AccountTypes ==
    /\ sub \in [Tasks -> {"new", "charged", "accepted", "settled", "submitted", "refused", "lost"}]
    /\ quota \in [Tasks -> Nat]
    /\ paid \in [Tasks -> [funding : Int, token : Int]]
    /\ due \in [Tasks -> Nat]
    /\ excused \subseteq Tasks

\* The types of the environment's variables.
EnvironmentTypes ==
    /\ up \in [Tasks -> {"queued", "running", "success", "failure"}]
    /\ old \subseteq Tasks
    /\ faults \in 0 .. MaxFaults

\* The types of rows and hands.
WorkTypes == row \in [Tasks -> [status : Statuses, done : BOOLEAN]] /\ hand \in [Actors -> Hands]

LEMMA TypeParts == TypeOK <=> AccountTypes /\ EnvironmentTypes /\ WorkTypes /\ lost \subseteq Tasks
  BY DEF TypeOK, AccountTypes, EnvironmentTypes, WorkTypes

\* Failures are counted up to their bound.
LEMMA FaultCounts ==
    ASSUME faults \in 0 .. MaxFaults, NEW op, Fault(op)
    PROVE  faults' \in 0 .. MaxFaults
  BY ConstantsAssumption DEF Fault

\* The environment's variables keep their types, whatever happens.
LEMMA EnvironmentStep ==
    ASSUME EnvironmentTypes, [Next]_vars
    PROVE  EnvironmentTypes'
<1> USE DEF EnvironmentTypes
<1>1. ASSUME NEW t \in Tasks, Submission(t) PROVE EnvironmentTypes'
  BY <1>1, FaultCounts
     DEF Submission, PreConsume, Refuse, Accept, Settle, SettleFails, Insert, InsertFails
<1>2. ASSUME NEW t \in Tasks, Environment(t) PROVE EnvironmentTypes'
  BY <1>2 DEF Environment, UpstreamStep, TimePasses, LoseChannel
<1>3. ASSUME NEW p \in Pollers, PollStep(p) PROVE EnvironmentTypes'
  BY <1>3, FaultCounts
     DEF PollStep, SweepRead, PollRead, ApplyFinal, ApplyProgress, ApplyLost, ApplyError,
         ApplySuno, SaveSuno, SaveSunoFails, CasError
<1>4. ASSUME NEW p \in Pollers, NEW t \in Tasks, PollTask(p, t) PROVE EnvironmentTypes'
  BY <1>4, FaultCounts
     DEF PollTask, SweepStep, SweepTask, SweepLost, SweepError, BulkFail, Fetch, FetchMessage, FetchFails, CasError
<1>5. ASSUME NEW r \in Readers, Reading(r) \/ \E t \in Tasks : ReadTask(r, t) PROVE EnvironmentTypes'
  BY <1>5 DEF Reading, RealtimeFetch, RealtimeApply, ReadTask
<1>6. ASSUME NEW t \in AsyncTasks, Generation(t) PROVE EnvironmentTypes'
  <2>1. t \in Tasks
    BY DEF AsyncTasks
  <2>2. ASSUME GenerationEnds(t) PROVE EnvironmentTypes'
    BY <2>1, <2>2 DEF GenerationEnds
  <2>3. ASSUME GenerationStarts(t) \/ RecordResult(t) PROVE EnvironmentTypes'
    BY <2>3 DEF GenerationStarts, RecordResult
  <2>4. ASSUME GenerationError(t) PROVE EnvironmentTypes'
    BY <2>4, FaultCounts DEF GenerationError, CasError
  <2> QED
    BY <1>6, <2>2, <2>3, <2>4 DEF Generation
<1>7. ASSUME NEW a \in Actors, Billing(a) \/ Crash(a) PROVE EnvironmentTypes'
  BY <1>7, FaultCounts
     DEF Billing, AdjustFunding, AdjustFundingFails, AdjustToken, AdjustTokenFails, Crash
<1>8. ASSUME UNCHANGED vars PROVE EnvironmentTypes'
  BY <1>8 DEF vars
<1> QED
  BY <1>1, <1>2, <1>3, <1>4, <1>5, <1>6, <1>7, <1>8 DEF Next

\* The submission of t before its row is there: it concerns t alone.
Submits(t) ==
    /\ sub[t] # "submitted" /\ sub'[t] # "submitted"
    /\ \A u \in Tasks \ {t} : /\ sub'[u] = sub[u] /\ quota'[u] = quota[u]
                              /\ paid'[u] = paid[u] /\ due'[u] = due[u]
                              /\ u \in excused' <=> u \in excused
    /\ UNCHANGED <<row, lost, hand>>

\* What submission does.
LEMMA SubmissionKinds ==
    ASSUME AccountTypes, NEW t \in Tasks, Submission(t)
    PROVE  AccountTypes' /\ (Submits(t) \/ Insert(t))
<1> USE DEF AccountTypes
<1>1. ASSUME NEW q \in Nat, Charge(t, q)
      PROVE  /\ paid' \in [Tasks -> [funding : Int, token : Int]]
             /\ \A u \in Tasks \ {t} : paid'[u] = paid[u]
  BY <1>1 DEF Charge
<1>2. ASSUME PreConsume(t) PROVE AccountTypes' /\ Submits(t)
  <2>1. PICK q \in Nat : Charge(t, q)
    BY <1>2, ConstantsAssumption DEF PreConsume
  <2> QED
    BY <1>1, <1>2, <2>1 DEF PreConsume, Submits
<1>3. ASSUME Refuse(t) PROVE AccountTypes' /\ Submits(t)
  BY <1>1, <1>3 DEF Refuse, Submits
<1>4. ASSUME Accept(t) PROVE AccountTypes' /\ Submits(t)
  BY <1>4, ConstantsAssumption DEF Accept, Submits
<1>5. ASSUME Settle(t) PROVE AccountTypes' /\ Submits(t)
  <2>1. quota[t] \in Nat /\ Charge(t, quota[t])
    BY <1>5 DEF Settle
  <2> QED
    BY <1>1, <1>5, <2>1 DEF Settle, Submits
<1>6. ASSUME SettleFails(t) PROVE AccountTypes' /\ Submits(t)
  <2>1. /\ paid' \in [Tasks -> [funding : Int, token : Int]]
        /\ \A u \in Tasks \ {t} : paid'[u] = paid[u]
    BY <1>6 DEF SettleFails
  <2> QED
    BY <1>6, <2>1 DEF SettleFails, Submits
<1>7. ASSUME Insert(t) PROVE AccountTypes'
  BY <1>7 DEF Insert
<1>8. ASSUME InsertFails(t) PROVE AccountTypes' /\ Submits(t)
  BY <1>8 DEF InsertFails, Submits
<1> QED
  BY <1>2, <1>3, <1>4, <1>5, <1>6, <1>7, <1>8 DEF Submission

\* A row, once there, stays.
RowsStay == \A t \in Tasks : row[t].status # "none" => row'[t].status # "none"

\* Hands stay well formed when one actor steps and rows stay.
LEMMA HandsKept ==
    ASSUME Shape, RowsStay, NEW a \in Actors, Steps(a)
    PROVE  hand' \in [Actors -> Hands] /\ \A b \in Actors : HandOK(b, hand[b])'
<1>1. hand \in [Actors -> Hands] /\ \A b \in Actors : HandOK(b, hand[b])
  BY DEF Shape, TypeOK
<1>2. PICK h : h = hand'[a]
  OBVIOUS
<1>3. h \in Hands /\ HandOK(a, h) /\ hand' = [hand EXCEPT ![a] = h]
  BY <1>2 DEF Steps, HandOK
<1>4. hand' \in [Actors -> Hands] /\ hand'[a] = h /\ \A b \in Actors \ {a} : hand'[b] = hand[b]
  BY <1>1, <1>3
<1>5. \A b \in Actors : HandOK(b, hand'[b])
  BY <1>1, <1>3, <1>4
<1> QED
  BY <1>4, <1>5 DEF HandOK, RowsStay

\* The same when no actor steps.
LEMMA HandsUntouched ==
    ASSUME Shape, RowsStay, UNCHANGED hand
    PROVE  hand' \in [Actors -> Hands] /\ \A b \in Actors : HandOK(b, hand[b])'
  BY DEF Shape, TypeOK, HandOK, RowsStay

\* A new row, and the goroutine that starts with it.
LEMMA InsertKept ==
    ASSUME Shape, NEW t \in Tasks, Insert(t)
    PROVE  /\ WorkTypes' /\ RowsStay
           /\ row'[t].status = "NOT_START" /\ \A u \in Tasks \ {t} : row'[u] = row[u]
           /\ \A a \in Actors : HandOK(a, hand[a])'
<1>1. row \in [Tasks -> [status : Statuses, done : BOOLEAN]] /\ hand \in [Actors -> Hands]
  BY DEF Shape, TypeOK
<1>2. /\ row' \in [Tasks -> [status : Statuses, done : BOOLEAN]]
      /\ row'[t].status = "NOT_START" /\ \A u \in Tasks \ {t} : row'[u] = row[u]
  BY <1>1 DEF Insert, Statuses
<1>3. RowsStay
  BY <1>2 DEF RowsStay
<1>4. CASE t \in AsyncTasks
  <2>1. t \in Actors /\ t \notin Readers
    BY <1>4, ActorKinds
  <2>2. PICK o : o = hand[t]
    OBVIOUS
  <2>3. o \in Hands /\ HandOK(t, o)
    BY <2>1, <2>2, HandIs
  <2>4. PICK h : h = [o EXCEPT !.pc = "start"]
    OBVIOUS
  <2>5. h \in Hands /\ h.pc = "start" /\ h.batch = o.batch /\ h.back = o.back
    BY <2>3, <2>4 DEF Hands
  <2>6. HandOK(t, h)
    BY <2>1, <2>3, <2>5 DEF HandOK
  <2>7. hand' = [hand EXCEPT ![t] = h] /\ hand'[t] = h
    BY <1>1, <1>4, <2>1, <2>2, <2>4 DEF Insert
  <2>8. Steps(t)
    BY <2>1, <2>6, <2>7 DEF Steps
  <2> QED
    BY <1>2, <1>3, <2>1, <2>8, HandsKept DEF WorkTypes
<1>5. CASE t \notin AsyncTasks
  <2>1. UNCHANGED hand
    BY <1>5 DEF Insert
  <2> QED
    BY <1>2, <1>3, <2>1, HandsUntouched DEF WorkTypes
<1> QED
  BY <1>4, <1>5

\* What a swap does to the rows.
LEMMA SwapRows ==
    ASSUME Shape, NEW a \in Actors, NEW t \in Tasks, NEW new, Swaps(a, t, new)
    PROVE  /\ row' \in [Tasks -> [status : Statuses, done : BOOLEAN]]
           /\ row'[t].status = new /\ \A u \in Tasks \ {t} : row'[u] = row[u]
           /\ RowsStay
<1>1. row \in [Tasks -> [status : Statuses, done : BOOLEAN]]
  BY DEF Shape, TypeOK
<1>2. PICK r \in [status : Statuses, done : BOOLEAN] : r.status = new /\ row' = [row EXCEPT ![t] = r]
  BY DEF Swaps
<1> QED
  BY <1>1, <1>2 DEF RowsStay, Swaps

\* A move is a swap that keeps the types of the accounts.
LEMMA MoveIsSwap ==
    ASSUME Shape, NEW a \in Actors, NEW t \in Tasks, Moves(a, t)
    PROVE  /\ \E new \in Statuses \ {"none"} : Swaps(a, t, new)
           /\ AccountTypes' /\ excused \subseteq excused' /\ excused' \subseteq excused \cup {t}
           /\ \A u \in Tasks \ {t} : due'[u] = due[u]
           /\ StaysFree(a) \/ (/\ row'[t].status \in Final
                               /\ hand'[a].pc = "funding" /\ hand'[a].task = t
                               /\ a \in AsyncTasks => a = t)
<1>1. AccountTypes
  BY TypeParts DEF Shape
<1>2. ASSUME FailsTask(a, t)
      PROVE  /\ Swaps(a, t, "FAILURE") /\ UNCHANGED <<due, excused>>
             /\ StaysFree(a) \/ BecomesBiller(a, t, -quota[t])
  BY <1>2 DEF FailsTask
<1>3. ASSUME CompletesTask(a, t)
      PROVE  /\ Swaps(a, t, "SUCCESS") /\ UNCHANGED excused /\ due' \in [Tasks -> Nat]
             /\ \A u \in Tasks \ {t} : due'[u] = due[u]
             /\ StaysFree(a) \/ \E d : BecomesBiller(a, t, d)
  BY <1>1, <1>3 DEF CompletesTask, AccountTypes
<1>4. {"SUCCESS", "FAILURE"} \subseteq Final /\ Final \subseteq Statuses \ {"none"}
  BY DEF Final, Statuses
<1>5. CASE FailsTask(a, t)
  BY <1>1, <1>2, <1>4, <1>5, SwapRows DEF AccountTypes, Swaps, BecomesBiller
<1>6. CASE CompletesTask(a, t)
  BY <1>1, <1>3, <1>4, <1>6, SwapRows DEF AccountTypes, Swaps, BecomesBiller
<1>7. CASE \E new \in Statuses \ {"none"} : MovesOn(a, t, new) \/ EndsUnheard(a, t, new)
  BY <1>1, <1>7 DEF AccountTypes, Swaps, MovesOn, EndsUnheard
<1> QED
  BY <1>5, <1>6, <1>7 DEF Moves

\* A billing step: the biller's task gets what is due at one of its two places.
LEMMA PayEffect ==
    ASSUME Shape, Elected, NEW a \in Actors, Pays(a)
    PROVE  \E t \in Tasks :
             /\ hand[a].task = t /\ hand[a].pc \in BillOps /\ hand[a].delta \in Int
             /\ AccountTypes' /\ Steps(a)
             /\ UNCHANGED <<sub, quota, row, lost, due, excused>>
             /\ \A u \in Tasks \ {t} : paid'[u] = paid[u]
             /\ \/ /\ hand[a].pc = "funding" /\ paid'[t].token = paid[t].token
                   /\ paid'[t].funding = paid[t].funding + hand[a].delta
                   /\ hand'[a].pc = "token" /\ hand'[a].task = t /\ hand'[a].delta = hand[a].delta
                \/ /\ hand[a].pc = "token" /\ paid'[t].funding = paid[t].funding
                   /\ paid'[t].token = paid[t].token + hand[a].delta
                   /\ StaysFree(a)
<1>1. hand[a].pc \in BillOps
  BY DEF Pays, AdjustFunding, AdjustToken, BillOps
<1>2. PICK t \in Tasks : hand[a].task = t
  BY <1>1 DEF Elected
<1>3. PICK o : o = hand[a]
  OBVIOUS
<1>4. o \in Hands /\ HandOK(a, o) /\ o.delta \in Int
  BY <1>3, HandIs DEF Hands
<1>5. AccountTypes /\ hand \in [Actors -> Hands]
  BY TypeParts DEF Shape, WorkTypes
<1>6. ASSUME AdjustFunding(a)
      PROVE  /\ Steps(a) /\ hand'[a].pc = "token" /\ hand'[a].task = t /\ hand'[a].delta = o.delta
  <2>1. PICK h : h = [o EXCEPT !.pc = "token"]
    OBVIOUS
  <2>2. /\ h \in Hands /\ h.pc = "token" /\ h.task = o.task /\ h.delta = o.delta
        /\ h.back = o.back /\ h.batch = o.batch
    BY <1>4, <2>1 DEF Hands
  <2>3. HandOK(a, h)
    BY <1>1, <1>3, <1>4, <2>2 DEF HandOK, BillOps
  <2>4. hand' = [hand EXCEPT ![a] = h] /\ hand'[a] = h
    BY <1>3, <1>5, <1>6, <2>1 DEF AdjustFunding
  <2> QED
    BY <1>2, <1>3, <2>2, <2>3, <2>4 DEF Steps
<1>7. CASE AdjustFunding(a)
  <2>1. paid' = [paid EXCEPT ![t].funding = @ + o.delta] /\ hand[a].pc = "funding"
    BY <1>2, <1>3, <1>7 DEF AdjustFunding
  <2>2. /\ paid' \in [Tasks -> [funding : Int, token : Int]]
        /\ paid'[t].token = paid[t].token /\ paid'[t].funding = paid[t].funding + o.delta
        /\ \A u \in Tasks \ {t} : paid'[u] = paid[u]
    BY <1>4, <1>5, <2>1 DEF AccountTypes
  <2>3. AccountTypes' /\ UNCHANGED <<sub, quota, row, lost, due, excused>>
    BY <1>5, <1>7, <2>2 DEF AdjustFunding, AccountTypes
  <2> QED
    BY <1>1, <1>2, <1>3, <1>4, <1>6, <1>7, <2>1, <2>2, <2>3
<1>8. CASE AdjustToken(a)
  <2>1. paid' = [paid EXCEPT ![t].token = @ + o.delta] /\ hand[a].pc = "token"
    BY <1>2, <1>3, <1>8 DEF AdjustToken
  <2>2. /\ paid' \in [Tasks -> [funding : Int, token : Int]]
        /\ paid'[t].funding = paid[t].funding /\ paid'[t].token = paid[t].token + o.delta
        /\ \A u \in Tasks \ {t} : paid'[u] = paid[u]
    BY <1>4, <1>5, <2>1 DEF AccountTypes
  <2>3. AccountTypes' /\ UNCHANGED <<sub, quota, row, lost, due, excused>>
    BY <1>5, <1>8, <2>2 DEF AdjustToken, AccountTypes
  <2>4. Steps(a) /\ StaysFree(a)
    BY <1>1, <1>8, ReturnSteps DEF AdjustToken
  <2> QED
    BY <1>1, <1>2, <1>3, <1>4, <2>1, <2>2, <2>3, <2>4
<1> QED
  BY <1>7, <1>8 DEF Pays

\* Shape from its parts.
LEMMA ShapeParts ==
    Shape <=> /\ AccountTypes /\ EnvironmentTypes /\ WorkTypes
              /\ lost = {} /\ RowSub /\ \A a \in Actors : HandOK(a, hand[a])
  BY TypeParts DEF Shape

LEMMA ShapeInit == Init => Shape
<1> SUFFICES ASSUME Init PROVE Shape
  OBVIOUS
<1>1. AccountTypes /\ EnvironmentTypes
  BY ConstantsAssumption DEF Init, AccountTypes, EnvironmentTypes
<1>2. WorkTypes
  BY RestIs DEF Init, WorkTypes, Statuses
<1>3. \A a \in Actors : hand[a] = Rest
  BY DEF Init
<1>4. \A a \in Actors : HandOK(a, hand[a])
  BY <1>3, RestIs DEF HandOK, NoBatch, Final
<1>5. RowSub
  BY DEF Init, RowSub
<1>6. lost = {}
  BY DEF Init
<1> QED
  BY <1>1, <1>2, <1>4, <1>5, <1>6, ShapeParts

LEMMA ShapeStep ==
    ASSUME CasOnly, Shape, Elected, [Next]_vars
    PROVE  Shape'
<1>1. /\ AccountTypes /\ EnvironmentTypes /\ WorkTypes
      /\ lost = {} /\ RowSub /\ \A a \in Actors : HandOK(a, hand[a])
  BY ShapeParts
<1>2. EnvironmentTypes'
  BY <1>1, EnvironmentStep
<1> DEFINE Others == /\ AccountTypes' /\ WorkTypes' /\ lost' = {} /\ RowSub'
                     /\ \A a \in Actors : HandOK(a, hand[a])'
<1>3. ASSUME Calm PROVE Others
  <2>1. UNCHANGED <<sub, quota, row, lost, hand, paid, due, excused>>
    BY <1>3 DEF Calm
  <2>2. AccountTypes' /\ WorkTypes' /\ RowSub' /\ RowsStay
    BY <1>1, <2>1 DEF AccountTypes, WorkTypes, RowSub, RowsStay
  <2> QED
    BY <1>1, <2>1, <2>2, HandsUntouched
<1>4. ASSUME NEW t \in Tasks, Submits(t), AccountTypes' PROVE Others
  <2>1. UNCHANGED <<row, lost, hand>> /\ RowsStay
    BY <1>4 DEF Submits, RowsStay
  <2>2. WorkTypes'
    BY <1>1, <2>1 DEF WorkTypes
  <2>3. RowSub'
    BY <1>1, <1>4, <2>1 DEF RowSub, Submits
  <2> QED
    BY <1>1, <1>4, <2>1, <2>2, <2>3, HandsUntouched
<1>5. ASSUME NEW t \in Tasks, Insert(t), AccountTypes' PROVE Others
  <2>1. sub' = [sub EXCEPT ![t] = "submitted"] /\ UNCHANGED lost
    BY <1>5 DEF Insert
  <2>2. RowSub'
    BY <1>1, <1>5, <2>1, InsertKept DEF RowSub, AccountTypes
  <2> QED
    BY <1>1, <1>5, <2>1, <2>2, InsertKept
<1>6. ASSUME NEW a \in Actors, Walks(a) \/ CutShort(a) PROVE Others
  <2>1. Steps(a) /\ UNCHANGED <<sub, quota, row, lost, paid, due>> /\ RowsStay
    BY <1>6 DEF Walks, CutShort, RowsStay
  <2>2. excused' \subseteq Tasks
    BY <1>1, <1>6 DEF Walks, CutShort, Elected, AccountTypes
  <2>3. AccountTypes' /\ RowSub'
    BY <1>1, <2>1, <2>2 DEF AccountTypes, RowSub
  <2> QED
    BY <1>1, <2>1, <2>3, HandsKept DEF WorkTypes
<1>7. ASSUME NEW a \in Actors, Pays(a) PROVE Others
  <2>1. AccountTypes' /\ Steps(a) /\ UNCHANGED <<sub, row, lost>> /\ RowsStay
    BY <1>7, PayEffect DEF RowsStay
  <2> QED
    BY <1>1, <2>1, HandsKept DEF WorkTypes, RowSub
<1>8. ASSUME NEW a \in Actors, NEW t \in Tasks, Moves(a, t) PROVE Others
  <2>1. PICK new \in Statuses \ {"none"} : Swaps(a, t, new)
    BY <1>8, MoveIsSwap
  <2>2. Steps(a) /\ UNCHANGED <<sub, lost>> /\ row[t].status # "none"
    BY <2>1 DEF Swaps
  <2>3. /\ row' \in [Tasks -> [status : Statuses, done : BOOLEAN]] /\ RowsStay
        /\ row'[t].status = new /\ \A u \in Tasks \ {t} : row'[u] = row[u]
    BY <2>1, SwapRows
  <2>4. RowSub'
    BY <1>1, <2>2, <2>3 DEF RowSub
  <2> QED
    BY <1>1, <1>8, <2>2, <2>3, <2>4, HandsKept, MoveIsSwap DEF WorkTypes
<1>9. Others
  BY <1>1, <1>3, <1>4, <1>5, <1>6, <1>7, <1>8, StepKinds, SubmissionKinds
<1>10. TypeOK'
  BY <1>2, <1>9 DEF TypeOK, AccountTypes, EnvironmentTypes, WorkTypes
<1> QED
  BY <1>9, <1>10 DEF Shape

-----------------------------------------------------------------------------
(* One biller at most *)

\* The billers that a step leaves are billers it found, but for at most one
\* that has just ended a task nobody had ended.
LEMMA ElectedStep ==
    ASSUME CasOnly, Shape, Elected, [Next]_vars
    PROVE  Elected'
<1>1. WorkTypes /\ AccountTypes /\ RowSub
  BY ShapeParts
<1>2. ASSUME UNCHANGED <<row, hand>> PROVE Elected'
  BY <1>2 DEF Elected, Bills
<1>3. ASSUME NEW t \in Tasks, Insert(t) PROVE Elected'
  <2>1. row'[t].status = "NOT_START" /\ \A u \in Tasks \ {t} : row'[u] = row[u]
    BY <1>3, InsertKept
  <2>2. row[t].status = "none"
    BY <1>1, <1>3 DEF Insert, RowSub
  <2>3. \A a \in Actors : hand[a].pc \in BillOps => hand[a].task # t
    BY <2>2 DEF Elected, Final
  <2>4. t \in AsyncTasks => hand[t].pc \notin BillOps
    BY <2>3, ActorKinds DEF Elected
  <2>5. \A a \in Actors : \/ hand'[a] = hand[a]
                          \/ hand'[a].pc = "start" /\ hand[a].pc \notin BillOps
    <3>1. CASE t \in AsyncTasks
      <4>1. t \in Actors
        BY <3>1, ActorKinds
      <4>2. hand'[t] = [hand[t] EXCEPT !.pc = "start"] /\ hand[t] \in Hands
        BY <1>1, <1>3, <3>1, <4>1 DEF Insert, WorkTypes
      <4>3. hand'[t].pc = "start"
        BY <4>2 DEF Hands
      <4>4. \A a \in Actors \ {t} : hand'[a] = hand[a]
        BY <1>1, <1>3, <3>1, <4>1 DEF Insert, WorkTypes
      <4> QED
        BY <2>4, <3>1, <4>3, <4>4
    <3>2. CASE t \notin AsyncTasks
      BY <1>3, <3>2 DEF Insert
    <3> QED
      BY <3>1, <3>2
  <2>6. \A a \in Actors : hand'[a].pc \in BillOps => hand'[a] = hand[a]
    BY <2>5 DEF BillOps
  <2>7. ASSUME NEW a \in Actors, hand'[a].pc \in BillOps
        PROVE  /\ hand'[a].task \in Tasks /\ row'[hand'[a].task].status \in Final
               /\ a \in AsyncTasks => hand'[a].task = a
    BY <2>1, <2>3, <2>6, <2>7 DEF Elected
  <2>8. ASSUME NEW u \in Tasks, NEW a \in Actors, NEW b \in Actors, Bills(a, u)', Bills(b, u)'
        PROVE  a = b
    BY <2>6, <2>8 DEF Elected, Bills
  <2> QED
    BY <2>7, <2>8 DEF Elected
<1>4. ASSUME NEW a \in Actors, Steps(a), StaysFree(a), UNCHANGED row PROVE Elected'
  <2>1. \A b \in Actors : hand'[b].pc \in BillOps => hand'[b] = hand[b]
    BY <1>1, <1>4 DEF Steps, StaysFree, WorkTypes
  <2>2. ASSUME NEW b \in Actors, hand'[b].pc \in BillOps
        PROVE  /\ hand'[b].task \in Tasks /\ row'[hand'[b].task].status \in Final
               /\ b \in AsyncTasks => hand'[b].task = b
    BY <1>4, <2>1, <2>2 DEF Elected
  <2>3. ASSUME NEW u \in Tasks, NEW c \in Actors, NEW b \in Actors, Bills(c, u)', Bills(b, u)'
        PROVE  c = b
    BY <2>1, <2>3 DEF Elected, Bills
  <2> QED
    BY <2>2, <2>3 DEF Elected
<1>5. ASSUME NEW a \in Actors, Pays(a) PROVE Elected'
  <2>1. PICK t \in Tasks :
          /\ hand[a].task = t /\ hand[a].pc \in BillOps /\ Steps(a) /\ UNCHANGED row
          /\ StaysFree(a) \/ (hand'[a].pc = "token" /\ hand'[a].task = t)
    BY <1>5, PayEffect
  <2>2. \A b \in Actors : hand'[b].pc \in BillOps => hand[b].pc \in BillOps /\ hand'[b].task = hand[b].task
    BY <1>1, <2>1 DEF Steps, StaysFree, WorkTypes
  <2>3. ASSUME NEW b \in Actors, hand'[b].pc \in BillOps
        PROVE  /\ hand'[b].task \in Tasks /\ row'[hand'[b].task].status \in Final
               /\ b \in AsyncTasks => hand'[b].task = b
    BY <2>1, <2>2, <2>3 DEF Elected
  <2>4. ASSUME NEW u \in Tasks, NEW c \in Actors, NEW b \in Actors, Bills(c, u)', Bills(b, u)'
        PROVE  c = b
    BY <2>2, <2>4 DEF Elected, Bills
  <2> QED
    BY <2>3, <2>4 DEF Elected
<1>6. ASSUME NEW a \in Actors, NEW t \in Tasks, Moves(a, t) PROVE Elected'
  <2>1. PICK new \in Statuses \ {"none"} : Swaps(a, t, new)
    BY <1>6, MoveIsSwap
  <2>2. Steps(a) /\ row[t].status \notin Final /\ hand[a].pc \notin BillOps
    BY <2>1 DEF Swaps
  <2>3. \A u \in Tasks \ {t} : row'[u] = row[u]
    BY <2>1, SwapRows
  <2>4. \A b \in Actors : hand[b].pc \in BillOps => hand[b].task # t
    BY <2>2 DEF Elected
  <2>5. \A b \in Actors \ {a} : hand'[b] = hand[b]
    BY <1>1, <2>2 DEF Steps, WorkTypes
  <2>6. StaysFree(a) \/ (/\ row'[t].status \in Final
                         /\ hand'[a].pc = "funding" /\ hand'[a].task = t
                         /\ a \in AsyncTasks => a = t)
    BY <1>6, MoveIsSwap
  <2>7. ASSUME NEW b \in Actors, hand'[b].pc \in BillOps
        PROVE  /\ hand'[b].task \in Tasks /\ row'[hand'[b].task].status \in Final
               /\ b \in AsyncTasks => hand'[b].task = b
    BY <2>3, <2>4, <2>5, <2>6, <2>7 DEF Elected, StaysFree
  <2>8. ASSUME NEW u \in Tasks, NEW c \in Actors, NEW b \in Actors, Bills(c, u)', Bills(b, u)'
        PROVE  c = b
    BY <2>4, <2>5, <2>6, <2>8 DEF Elected, Bills, StaysFree
  <2> QED
    BY <2>7, <2>8 DEF Elected
<1>7. ASSUME NEW a \in Actors, Walks(a) \/ CutShort(a) PROVE Elected'
  BY <1>4, <1>7 DEF Walks, CutShort, StaysFree
<1>8. ASSUME NEW t \in Tasks, Submission(t) PROVE Elected'
  BY <1>1, <1>2, <1>3, <1>8, SubmissionKinds DEF Submits
<1>9. ASSUME Calm PROVE Elected'
  BY <1>2, <1>9 DEF Calm
<1> QED
  BY <1>5, <1>6, <1>7, <1>8, <1>9, StepKinds

LEMMA ElectedInit == Init => Elected
<1> SUFFICES ASSUME Init PROVE Elected
  OBVIOUS
<1>1. \A a \in Actors : hand[a].pc \notin BillOps
  BY RestIs DEF Init, BillOps
<1> QED
  BY <1>1 DEF Elected, Bills

\* A final status stays, in every step.
LEMMA FinalStep ==
    ASSUME CasOnly, Shape, Elected, [Next]_vars
    PROVE  \A t \in Tasks : row[t].status \in Final => row'[t].status = row[t].status
<1>1. RowSub /\ AccountTypes
  BY ShapeParts
<1>2. ASSUME UNCHANGED row PROVE \A t \in Tasks : row[t].status \in Final => row'[t].status = row[t].status
  BY <1>2
<1>3. ASSUME NEW t \in Tasks, Submission(t)
      PROVE  \A u \in Tasks : row[u].status \in Final => row'[u].status = row[u].status
  <2>1. Submits(t) \/ Insert(t)
    BY <1>1, <1>3, SubmissionKinds
  <2>2. CASE Insert(t)
    BY <1>1, <2>2, InsertKept DEF RowSub, Insert, Final
  <2> QED
    BY <1>2, <2>1, <2>2 DEF Submits
<1>4. ASSUME NEW a \in Actors, NEW t \in Tasks, Moves(a, t)
      PROVE  \A u \in Tasks : row[u].status \in Final => row'[u].status = row[u].status
  <2>1. PICK new \in Statuses \ {"none"} : Swaps(a, t, new)
    BY <1>4, MoveIsSwap
  <2> QED
    BY <2>1, SwapRows DEF Swaps
<1>5. ASSUME NEW a \in Actors, Pays(a) PROVE UNCHANGED row
  BY <1>5, PayEffect
<1> QED
  BY <1>2, <1>3, <1>4, <1>5, StepKinds DEF Calm, Walks, CutShort

\* Tasks whose status only compare-and-swaps move keep their types, and one
\* actor at most is billing each of them (UpdateWithStatus elects it).
THEOREM OneBiller == ASSUME CasOnly PROVE Spec => [](Shape /\ Elected)
<1>1. Init => Shape /\ Elected
  BY ShapeInit, ElectedInit
<1>2. Shape /\ Elected /\ [Next]_vars => (Shape /\ Elected)'
  BY ShapeStep, ElectedStep
<1> QED
  BY <1>1, <1>2, PTL DEF Spec

-----------------------------------------------------------------------------
(* The accounts *)

\* A step that has nothing to do with t.
Spares(t) ==
    /\ row'[t].status = row[t].status /\ sub'[t] = sub[t]
    /\ quota'[t] = quota[t] /\ paid'[t] = paid[t] /\ due'[t] = due[t]
    /\ \A a \in Actors : Bills(a, t)' <=> Bills(a, t)
    /\ \A a \in Actors : Bills(a, t) => hand'[a] = hand[a]

LEMMA SparedAccount ==
    ASSUME NEW t \in Tasks, Account(t), Spares(t)
    PROVE  Account(t)'
<1>1. Owed(t)' = Owed(t) /\ \A a \in Actors : Bills(a, t) => FundingDue(a)' = FundingDue(a)
  BY DEF Spares, Owed, FundingDue
<1> QED
  BY <1>1 DEF Account, Spares

\* An actor that steps and bills nobody, before or after, spares every task.
LEMMA FreeSpares ==
    ASSUME Shape, NEW a \in Actors, Steps(a), NEW t \in Tasks,
           ~Bills(a, t), ~Bills(a, t)',
           row'[t].status = row[t].status, sub'[t] = sub[t],
           quota'[t] = quota[t], paid'[t] = paid[t], due'[t] = due[t]
    PROVE  Spares(t)
<1>1. hand \in [Actors -> Hands] /\ hand' = [hand EXCEPT ![a] = hand'[a]]
  BY ShapeParts DEF WorkTypes, Steps
<1>2. \A b \in Actors \ {a} : hand'[b] = hand[b]
  BY <1>1
<1>3. \A b \in Actors \ {a} : Bills(b, t)' <=> Bills(b, t)
  BY <1>2 DEF Bills
<1>4. \A b \in Actors : Bills(b, t)' <=> Bills(b, t)
  BY <1>3
<1>5. \A b \in Actors : Bills(b, t) => hand'[b] = hand[b]
  BY <1>2
<1> QED
  BY <1>4, <1>5 DEF Spares

\* Steps that leave the hands alone.
LEMMA IdleSpares ==
    ASSUME NEW t \in Tasks, UNCHANGED hand,
           row'[t].status = row[t].status, sub'[t] = sub[t],
           quota'[t] = quota[t], paid'[t] = paid[t], due'[t] = due[t]
    PROVE  Spares(t)
  BY DEF Spares, Bills

\* Before its row is there, a task has an account that its submission keeps.
LEMMA SubmitsAccount ==
    ASSUME Shape, NEW t \in Tasks, Submission(t), ~Insert(t),
           t \notin excused', t \notin excused, Account(t)
    PROVE  Account(t)'
<1>1. AccountTypes /\ RowSub
  BY ShapeParts
<1>2. Submits(t)
  BY <1>1, SubmissionKinds
<1>3. row[t].status \notin Final /\ row'[t].status \notin Final
  BY <1>1, <1>2 DEF RowSub, Submits, Final
<1>4. ASSUME PreConsume(t) \/ Refuse(t) \/ InsertFails(t) PROVE sub'[t] \in {"charged", "refused", "lost"}
  BY <1>1, <1>4 DEF PreConsume, Refuse, InsertFails, AccountTypes
<1>5. ASSUME Accept(t) PROVE sub'[t] = "accepted" /\ due'[t] = quota'[t]
  BY <1>1, <1>5 DEF Accept, AccountTypes
<1>6. ASSUME Settle(t)
      PROVE  sub'[t] = "settled" /\ paid'[t].funding = quota'[t] /\ paid'[t].token = quota'[t] /\ due'[t] = quota'[t]
  BY <1>1, <1>6 DEF Settle, Charge, Account, AccountTypes
<1>7. ~SettleFails(t)
  BY DEF SettleFails
<1> QED
  BY <1>3, <1>4, <1>5, <1>6, <1>7 DEF Submission, Account

LEMMA InsertAccount ==
    ASSUME Shape, Elected, NEW t \in Tasks, Insert(t), Account(t)
    PROVE  Account(t)'
<1>1. AccountTypes /\ RowSub
  BY ShapeParts
<1>2. row'[t].status = "NOT_START" /\ row[t].status \notin Final
  BY <1>1, InsertKept DEF RowSub, Insert, Final
<1>3. sub[t] = "settled" /\ sub'[t] = "submitted" /\ UNCHANGED <<quota, paid, due>>
  BY <1>1 DEF Insert, AccountTypes
<1> QED
  BY <1>2, <1>3 DEF Account, Final

\* The biller pays for its task.
LEMMA PayAccount ==
    ASSUME Shape, Elected, NEW a \in Actors, Pays(a), NEW t \in Tasks, hand[a].task = t, Account(t)
    PROVE  Account(t)'
<1>1. /\ hand[a].pc \in BillOps /\ hand[a].delta \in Int /\ Steps(a)
      /\ UNCHANGED <<sub, quota, row, due>>
      /\ \/ /\ hand[a].pc = "funding" /\ paid'[t].token = paid[t].token
            /\ paid'[t].funding = paid[t].funding + hand[a].delta
            /\ hand'[a].pc = "token" /\ hand'[a].task = t /\ hand'[a].delta = hand[a].delta
         \/ /\ hand[a].pc = "token" /\ paid'[t].funding = paid[t].funding
            /\ paid'[t].token = paid[t].token + hand[a].delta
            /\ StaysFree(a)
  BY PayEffect
<1>2. AccountTypes /\ WorkTypes
  BY ShapeParts
<1>3. row[t].status \in Final /\ Bills(a, t) /\ \A b \in Actors : Bills(b, t) => b = a
  BY <1>1 DEF Elected, Bills
<1>4. \A b \in Actors \ {a} : hand'[b] = hand[b]
  BY <1>1, <1>2 DEF Steps, WorkTypes
<1>5. \A b \in Actors : Bills(b, t)' => b = a
  BY <1>3, <1>4 DEF Bills
<1>6. Owed(t)' = Owed(t) /\ row'[t].status = row[t].status /\ sub'[t] = sub[t]
  BY <1>1 DEF Owed
<1>7. paid[t].funding \in Int /\ paid[t].token \in Int /\ Owed(t) \in Int
  BY <1>2 DEF AccountTypes, Owed
<1>8. CASE hand[a].pc = "funding"
  <2>1. /\ paid'[t].token = paid[t].token /\ paid'[t].funding = paid[t].funding + hand[a].delta
        /\ hand'[a].pc = "token" /\ hand'[a].task = t /\ hand'[a].delta = hand[a].delta
    BY <1>1, <1>8
  <2>2. FundingDue(a) = hand[a].delta /\ FundingDue(a)' = 0 /\ Bills(a, t)'
    BY <1>8, <2>1 DEF FundingDue, Bills, BillOps
  <2>3. ASSUME ~(IsLegacy(t) /\ row[t].status = "FAILURE")
        PROVE  paid'[t].funding + FundingDue(a)' = Owed(t) /\ paid'[t].token + hand'[a].delta = Owed(t)
    BY <1>3, <1>7, <1>1, <2>1, <2>2, <2>3 DEF Account
  <2>4. sub'[t] # "accepted"
    BY <1>3, <1>6, ShapeParts DEF RowSub, Final
  <2> QED
    BY <1>3, <1>5, <1>6, <2>2, <2>3, <2>4 DEF Account
<1>9. CASE hand[a].pc = "token"
  <2>1. /\ paid'[t].funding = paid[t].funding /\ paid'[t].token = paid[t].token + hand[a].delta
        /\ StaysFree(a)
    BY <1>1, <1>9
  <2>2. FundingDue(a) = 0 /\ \A b \in Actors : ~Bills(b, t)'
    BY <1>5, <1>9, <2>1 DEF FundingDue, Bills, StaysFree
  <2>3. ASSUME ~(IsLegacy(t) /\ row[t].status = "FAILURE")
        PROVE  paid'[t].funding = Owed(t) /\ paid'[t].token = Owed(t)
    BY <1>3, <1>7, <2>1, <2>2, <2>3 DEF Account
  <2>4. sub'[t] # "accepted"
    BY <1>3, <1>6, ShapeParts DEF RowSub, Final
  <2> QED
    BY <1>3, <1>6, <2>2, <2>3, <2>4 DEF Account
<1> QED
  BY <1>1, <1>8, <1>9

\* Who bills the task after a swap: the actor that swapped it, or nobody.
LEMMA SwapBillers ==
    ASSUME Shape, Elected, NEW a \in Actors, NEW t \in Tasks, NEW new, Swaps(a, t, new)
    PROVE  /\ row'[t].status = new /\ sub'[t] = sub[t] /\ sub[t] = "submitted"
           /\ quota'[t] = quota[t] /\ paid'[t] = paid[t]
           /\ quota[t] \in Nat /\ due[t] \in Nat
           /\ \A b \in Actors : Bills(b, t)' => b = a
           /\ StaysFree(a) => \A b \in Actors : ~Bills(b, t)'
<1>1. AccountTypes /\ WorkTypes /\ RowSub
  BY ShapeParts
<1>2. row[t].status \notin Final \cup {"none"} /\ Steps(a) /\ UNCHANGED <<sub, quota, paid>>
  BY DEF Swaps
<1>3. \A b \in Actors : ~Bills(b, t)
  BY <1>2 DEF Elected, Bills
<1>4. \A b \in Actors \ {a} : hand'[b] = hand[b]
  BY <1>1, <1>2 DEF Steps, WorkTypes
<1>5. \A b \in Actors : Bills(b, t)' => b = a
  BY <1>3, <1>4 DEF Bills
<1>6. StaysFree(a) => \A b \in Actors : ~Bills(b, t)'
  BY <1>5 DEF StaysFree, Bills
<1> QED
  BY <1>1, <1>2, <1>5, <1>6, SwapRows DEF RowSub, AccountTypes

\* Whoever moves or ends a task leaves an account that adds up.
LEMMA MoveAccount ==
    ASSUME Shape, Elected, NEW a \in Actors, NEW t \in Tasks, Moves(a, t),
           t \notin excused', Account(t)
    PROVE  Account(t)'
<1>1. ASSUME NEW new, Swaps(a, t, new)
      PROVE  paid[t].funding = quota[t] /\ paid[t].token = quota[t] /\ due[t] = quota[t]
  BY <1>1, SwapBillers DEF Account, Swaps
<1>2. CASE FailsTask(a, t)
  <2>1. Swaps(a, t, "FAILURE")
    BY <1>2 DEF FailsTask
  <2>2. /\ row'[t].status = "FAILURE" /\ sub'[t] = "submitted" /\ paid'[t] = paid[t] /\ quota[t] \in Nat
        /\ \A b \in Actors : Bills(b, t)' => b = a
        /\ StaysFree(a) => \A b \in Actors : ~Bills(b, t)'
    BY <2>1, SwapBillers
  <2>3. Owed(t)' = 0
    BY <2>2 DEF Owed
  <2>4. CASE BecomesBiller(a, t, -quota[t])
    <3>1. Bills(a, t)' /\ FundingDue(a)' = -quota[t] /\ hand'[a].delta = -quota[t]
      BY <2>4 DEF BecomesBiller, Bills, FundingDue, BillOps
    <3>2. paid'[t].funding + FundingDue(a)' = 0 /\ paid'[t].token + hand'[a].delta = 0
      BY <1>1, <2>1, <2>2, <3>1
    <3> QED
      BY <2>2, <2>3, <3>1, <3>2 DEF Account, Final
  <2>5. CASE StaysFree(a) /\ (quota[t] = 0 \/ IsLegacy(t))
    BY <1>1, <2>1, <2>2, <2>3, <2>5 DEF Account, Final
  <2> QED
    BY <1>2, <2>4, <2>5 DEF FailsTask
<1>3. CASE CompletesTask(a, t)
  <2>1. Swaps(a, t, "SUCCESS")
    BY <1>3 DEF CompletesTask
  <2>2. /\ row'[t].status = "SUCCESS" /\ sub'[t] = "submitted" /\ paid'[t] = paid[t] /\ quota[t] \in Nat
        /\ \A b \in Actors : Bills(b, t)' => b = a
        /\ StaysFree(a) => \A b \in Actors : ~Bills(b, t)'
    BY <2>1, SwapBillers
  <2>3. PICK d \in Nat : /\ due' = [due EXCEPT ![t] = d]
                         /\ \/ BecomesBiller(a, t, d - quota[t])
                            \/ StaysFree(a) /\ d \in {quota[t], due[t]}
    BY <1>3 DEF CompletesTask
  <2>4. due'[t] = d
    BY <2>3, ShapeParts DEF AccountTypes
  <2>5. Owed(t)' = d
    BY <2>2, <2>4 DEF Owed
  <2>6. CASE BecomesBiller(a, t, d - quota[t])
    <3>1. Bills(a, t)' /\ FundingDue(a)' = d - quota[t] /\ hand'[a].delta = d - quota[t]
      BY <2>6 DEF BecomesBiller, Bills, FundingDue, BillOps
    <3>2. paid'[t].funding + FundingDue(a)' = d /\ paid'[t].token + hand'[a].delta = d
      BY <1>1, <2>1, <2>2, <3>1
    <3> QED
      BY <2>2, <2>5, <3>1, <3>2 DEF Account, Final
  <2>7. CASE StaysFree(a) /\ d \in {quota[t], due[t]}
    <3>1. paid'[t].funding = d /\ paid'[t].token = d
      BY <1>1, <2>1, <2>2, <2>7
    <3> QED
      BY <2>2, <2>5, <2>7, <3>1 DEF Account, Final
  <2> QED
    BY <2>3, <2>6, <2>7
<1>4. CASE \E new \in Statuses \ {"none"} : MovesOn(a, t, new)
  <2>1. PICK new \in Statuses \ {"none"} : MovesOn(a, t, new)
    BY <1>4
  <2>2. Swaps(a, t, new) /\ new \notin Final /\ UNCHANGED due
    BY <2>1 DEF MovesOn
  <2>3. row'[t].status = new /\ sub'[t] = "submitted" /\ paid'[t] = paid[t] /\ quota'[t] = quota[t]
    BY <2>2, SwapBillers
  <2> QED
    BY <1>1, <2>2, <2>3 DEF Account
<1>5. \A new : ~EndsUnheard(a, t, new)
  BY DEF EndsUnheard
<1> QED
  BY <1>2, <1>3, <1>4, <1>5 DEF Moves

\* A move spares the other tasks.
LEMMA MoveSpares ==
    ASSUME Shape, Elected, NEW a \in Actors, NEW t \in Tasks, Moves(a, t), NEW u \in Tasks \ {t}
    PROVE  Spares(u) /\ (u \in excused' <=> u \in excused)
<1>1. PICK new \in Statuses \ {"none"} : Swaps(a, t, new)
  BY MoveIsSwap
<1>2. /\ Steps(a) /\ hand[a].pc \notin BillOps /\ row'[u] = row[u]
      /\ UNCHANGED <<sub, quota, paid>>
  BY <1>1, SwapRows DEF Swaps
<1>3. due'[u] = due[u] /\ (u \in excused' <=> u \in excused)
  BY MoveIsSwap
<1>4. ~Bills(a, u) /\ ~Bills(a, u)'
  BY <1>2, MoveIsSwap DEF Bills, StaysFree
<1> QED
  BY <1>2, <1>3, <1>4, FreeSpares

\* A billing step spares the tasks of others.
LEMMA PaySpares ==
    ASSUME Shape, Elected, NEW a \in Actors, Pays(a), NEW u \in Tasks, hand[a].task # u
    PROVE  Spares(u)
<1>1. PICK t \in Tasks :
        /\ hand[a].task = t /\ Steps(a) /\ UNCHANGED <<sub, quota, row, due>>
        /\ \A v \in Tasks \ {t} : paid'[v] = paid[v]
        /\ StaysFree(a) \/ hand'[a].task = t
  BY PayEffect
<1>2. ~Bills(a, u) /\ ~Bills(a, u)'
  BY <1>1 DEF Bills, StaysFree
<1> QED
  BY <1>1, <1>2, FreeSpares

\* The start of a goroutine bills nobody.
LEMMA InsertSpares ==
    ASSUME Shape, Elected, NEW t \in Tasks, Insert(t), NEW u \in Tasks \ {t}
    PROVE  Spares(u)
<1>1. AccountTypes /\ WorkTypes /\ RowSub
  BY ShapeParts
<1>2. row'[u] = row[u] /\ sub'[u] = sub[u] /\ UNCHANGED <<quota, paid, due>>
  BY <1>1, InsertKept DEF Insert, AccountTypes
<1>3. CASE t \in AsyncTasks
  <2>1. t \in Actors
    BY <1>3, ActorKinds
  <2>2. \A a \in Actors : Bills(a, u) => a # t
    BY <1>1, <1>3 DEF Elected, Bills
  <2>3. hand'[t].pc = "start" /\ \A b \in Actors \ {t} : hand'[b] = hand[b]
    <3>1. hand' = [hand EXCEPT ![t].pc = "start"] /\ hand[t] \in Hands
      BY <1>1, <1>3, <2>1 DEF Insert, WorkTypes
    <3> QED
      BY <1>1, <2>1, <3>1 DEF WorkTypes, Hands
  <2>4. ~Bills(t, u) /\ ~Bills(t, u)'
    BY <2>1, <2>2, <2>3 DEF Bills, BillOps
  <2>5. \A b \in Actors : Bills(b, u)' <=> Bills(b, u)
    BY <2>3, <2>4 DEF Bills
  <2> QED
    BY <1>2, <2>2, <2>3, <2>5 DEF Spares
<1>4. CASE t \notin AsyncTasks
  BY <1>2, <1>4, IdleSpares DEF Insert
<1> QED
  BY <1>3, <1>4

\* What a step means for one task.
LEMMA TaskKinds ==
    ASSUME CasOnly, Shape, Elected, [Next]_vars, NEW u \in Tasks
    PROVE  \/ Spares(u) /\ (u \in excused' <=> u \in excused)
           \/ Submission(u)
           \/ \E a \in Actors : Pays(a) /\ hand[a].task = u /\ UNCHANGED excused
           \/ \E a \in Actors : Moves(a, u)
           \/ \E a \in Actors : CutShort(a) /\ hand[a].task = u
<1>1. ASSUME Calm PROVE Spares(u) /\ (u \in excused' <=> u \in excused)
  BY <1>1, IdleSpares DEF Calm
<1>2. ASSUME NEW t \in Tasks, t # u, Submission(t)
      PROVE  Spares(u) /\ (u \in excused' <=> u \in excused)
  <2>1. CASE Submits(t)
    BY <1>2, <2>1, IdleSpares DEF Submits
  <2>2. CASE Insert(t)
    BY <1>2, <2>2, InsertSpares DEF Insert
  <2> QED
    BY <1>2, <2>1, <2>2, ShapeParts, SubmissionKinds
<1>3. ASSUME NEW a \in Actors, Walks(a) PROVE Spares(u) /\ (u \in excused' <=> u \in excused)
  <2>1. Steps(a) /\ ~Bills(a, u) /\ ~Bills(a, u)'
    BY <1>3 DEF Walks, Bills
  <2> QED
    BY <1>3, <2>1, FreeSpares DEF Walks
<1>4. ASSUME NEW a \in Actors, CutShort(a), hand[a].task # u
      PROVE  Spares(u) /\ (u \in excused' <=> u \in excused)
  <2>1. Steps(a) /\ ~Bills(a, u) /\ ~Bills(a, u)'
    BY <1>4 DEF CutShort, StaysFree, Bills
  <2> QED
    BY <1>4, <2>1, FreeSpares DEF CutShort
<1>5. ASSUME NEW a \in Actors, Pays(a)
      PROVE  UNCHANGED excused /\ (hand[a].task # u => Spares(u))
  BY <1>5, PayEffect, PaySpares
<1>6. ASSUME NEW a \in Actors, NEW t \in Tasks, t # u, Moves(a, t)
      PROVE  Spares(u) /\ (u \in excused' <=> u \in excused)
  BY <1>6, MoveSpares
<1> QED
  BY <1>1, <1>2, <1>3, <1>4, <1>5, <1>6, StepKinds

LEMMA AccountsStep ==
    ASSUME CasOnly, AccountInv, [Next]_vars
    PROVE  Accounts'
<1>1. Shape /\ Elected /\ Accounts
  BY DEF AccountInv
<1>2. ASSUME NEW t \in Tasks, t \notin excused' PROVE Account(t)'
  <2>1. CASE Spares(t) /\ (t \in excused' <=> t \in excused)
    BY <1>1, <1>2, <2>1, SparedAccount DEF Accounts
  <2>2. CASE Submission(t)
    <3>1. t \notin excused
      BY <1>2, <2>2
         DEF Submission, PreConsume, Refuse, Accept, Settle, SettleFails, Insert, InsertFails
    <3>2. Account(t)
      BY <1>1, <3>1 DEF Accounts
    <3> QED
      BY <1>1, <1>2, <2>2, <3>1, <3>2, SubmitsAccount, InsertAccount
  <2>3. CASE \E a \in Actors : Pays(a) /\ hand[a].task = t /\ UNCHANGED excused
    BY <1>1, <1>2, <2>3, PayAccount DEF Accounts
  <2>4. CASE \E a \in Actors : Moves(a, t)
    <3>1. t \notin excused
      BY <1>1, <1>2, <2>4, MoveIsSwap
    <3> QED
      BY <1>1, <1>2, <2>4, <3>1, MoveAccount DEF Accounts
  <2>5. CASE \E a \in Actors : CutShort(a) /\ hand[a].task = t
    BY <1>2, <2>5 DEF CutShort
  <2> QED
    BY <1>1, <2>1, <2>2, <2>3, <2>4, <2>5, TaskKinds
<1> QED
  BY <1>2 DEF Accounts

LEMMA AccountInvInit == Init => AccountInv
<1> SUFFICES ASSUME Init PROVE AccountInv
  OBVIOUS
<1>1. \A t \in Tasks : row[t].status \notin Final /\ sub[t] = "new"
  BY DEF Init, Final
<1>2. Accounts
  BY <1>1 DEF Accounts, Account
<1> QED
  BY <1>2, ShapeInit, ElectedInit DEF AccountInv

\* The accounts add up in every reachable state.
LEMMA AccountsHold == ASSUME CasOnly PROVE Spec => []AccountInv
<1>1. AccountInv /\ [Next]_vars => AccountInv'
  BY AccountsStep, ShapeStep, ElectedStep DEF AccountInv
<1> QED
  BY <1>1, AccountInvInit, PTL DEF Spec

\* A failed task has cost its user nothing, at the funding source and at the
\* token, once nobody is billing it: RefundTaskQuota has run, and only once.
THEOREM FailedTaskIsRefunded == ASSUME CasOnly PROVE Spec => []FailedIsRefunded
<1>1. AccountInv => FailedIsRefunded
  <2> SUFFICES ASSUME AccountInv, NEW t \in Tasks \ excused,
                      row[t].status = "FAILURE", Billed(t), ~IsLegacy(t)
               PROVE  paid[t] = [funding |-> 0, token |-> 0]
    BY DEF FailedIsRefunded
  <2>1. \A a \in Actors : ~Bills(a, t)
    BY DEF Billed, Bills, BillOps
  <2>2. paid[t].funding = 0 /\ paid[t].token = 0
    BY <2>1 DEF AccountInv, Accounts, Account, Owed, Final
  <2>3. paid[t] \in [funding : Int, token : Int]
    BY DEF AccountInv, Shape, TypeOK
  <2> QED
    BY <2>2, <2>3
<1> QED
  BY <1>1, AccountsHold, PTL

\* A completed task has cost exactly its price, once nobody is billing it.
THEOREM SucceededTaskIsSettled == ASSUME CasOnly PROVE Spec => []SucceededIsSettled
<1>1. AccountInv => SucceededIsSettled
  <2> SUFFICES ASSUME AccountInv, NEW t \in Tasks \ excused, row[t].status = "SUCCESS", Billed(t)
               PROVE  paid[t] = [funding |-> due[t], token |-> due[t]]
    BY DEF SucceededIsSettled
  <2>1. \A a \in Actors : ~Bills(a, t)
    BY DEF Billed, Bills, BillOps
  <2>2. paid[t].funding = due[t] /\ paid[t].token = due[t]
    BY <2>1 DEF AccountInv, Accounts, Account, Owed, Final
  <2>3. paid[t] \in [funding : Int, token : Int]
    BY DEF AccountInv, Shape, TypeOK
  <2> QED
    BY <2>2, <2>3
<1> QED
  BY <1>1, AccountsHold, PTL

-----------------------------------------------------------------------------
(* Never more than was charged *)

\* Settlement at the submission does not fail.
SettlementHolds == "settle" \notin Failing

\* A task that has not ended has no biller.
LEMMA NoBillerBeforeEnd ==
    Elected => \A t \in Tasks : row[t].status \notin Final => \A a \in Actors : ~Bills(a, t)
  BY DEF Elected, Bills

LEMMA SparedCover ==
    ASSUME NEW t \in Tasks, Covered(t), Spares(t)
    PROVE  Covered(t)'
<1>1. \A a \in Actors : Bills(a, t) => FundingDue(a)' = FundingDue(a)
  BY DEF Spares, FundingDue
<1> QED
  BY <1>1 DEF Covered, Spares

\* Submission charges amounts that are no less than 0, and nobody bills.
LEMMA SubmissionCover ==
    ASSUME SettlementHolds, Shape, Elected', NEW t \in Tasks, Covered(t), Submission(t)
    PROVE  Covered(t)' /\ UNCHANGED excused
<1>1. AccountTypes /\ RowSub
  BY ShapeParts
<1>2. row'[t].status \notin Final
  <2>1. CASE Insert(t)
    BY <2>1, InsertKept DEF Final
  <2>2. CASE Submits(t)
    BY <1>1, <2>2 DEF Submits, RowSub, Final
  <2> QED
    BY <1>1, <2>1, <2>2, SubmissionKinds
<1>3. \A a \in Actors : ~Bills(a, t)'
  BY <1>2 DEF Elected, Bills
<1>4. ASSUME NEW q \in Nat, Charge(t, q) PROVE paid'[t].funding >= 0 /\ paid'[t].token >= 0
  BY <1>1, <1>4 DEF Charge, AccountTypes
<1>5. ~SettleFails(t)
  BY DEF SettleFails, Fault, SettlementHolds
<1>6. ASSUME PreConsume(t) \/ Refuse(t) \/ Settle(t) PROVE \E q \in Nat : Charge(t, q)
  BY <1>1, <1>6, ConstantsAssumption DEF PreConsume, Refuse, Settle, AccountTypes
<1>7. ASSUME Accept(t) \/ Insert(t) \/ InsertFails(t) PROVE UNCHANGED paid
  BY <1>7 DEF Accept, Insert, InsertFails
<1>8. paid'[t].funding >= 0 /\ paid'[t].token >= 0
  BY <1>4, <1>5, <1>6, <1>7 DEF Submission, Covered
<1>9. UNCHANGED excused
  BY <1>5 DEF Submission, PreConsume, Refuse, Accept, Settle, Insert, InsertFails
<1> QED
  BY <1>3, <1>8, <1>9 DEF Covered

LEMMA PayCover ==
    ASSUME Shape, Elected, NEW a \in Actors, Pays(a), NEW t \in Tasks, hand[a].task = t, Covered(t)
    PROVE  Covered(t)'
<1>1. /\ hand[a].pc \in BillOps /\ hand[a].delta \in Int /\ Steps(a)
      /\ \/ /\ hand[a].pc = "funding" /\ paid'[t].token = paid[t].token
            /\ paid'[t].funding = paid[t].funding + hand[a].delta
            /\ hand'[a].pc = "token" /\ hand'[a].task = t /\ hand'[a].delta = hand[a].delta
         \/ /\ hand[a].pc = "token" /\ paid'[t].funding = paid[t].funding
            /\ paid'[t].token = paid[t].token + hand[a].delta
            /\ StaysFree(a)
  BY PayEffect
<1>2. AccountTypes /\ WorkTypes
  BY ShapeParts
<1>3. Bills(a, t) /\ \A b \in Actors : Bills(b, t) => b = a
  BY <1>1 DEF Elected, Bills
<1>4. \A b \in Actors \ {a} : hand'[b] = hand[b]
  BY <1>1, <1>2 DEF Steps, WorkTypes
<1>5. \A b \in Actors : Bills(b, t)' => b = a
  BY <1>3, <1>4 DEF Bills
<1>6. paid[t].funding \in Int /\ paid[t].token \in Int
  BY <1>2 DEF AccountTypes
<1>7. /\ paid[t].funding >= 0 /\ paid[t].token >= 0
      /\ paid[t].funding + FundingDue(a) >= 0 /\ paid[t].token + hand[a].delta >= 0
  BY <1>3 DEF Covered
<1>8. CASE hand[a].pc = "funding"
  <2>1. /\ FundingDue(a) = hand[a].delta /\ FundingDue(a)' = 0
        /\ paid'[t].token = paid[t].token /\ paid'[t].funding = paid[t].funding + hand[a].delta
        /\ hand'[a].delta = hand[a].delta
    BY <1>1, <1>8 DEF FundingDue
  <2>2. /\ paid'[t].funding >= 0 /\ paid'[t].token >= 0
        /\ paid'[t].funding + FundingDue(a)' >= 0 /\ paid'[t].token + hand'[a].delta >= 0
    BY <1>1, <1>6, <1>7, <2>1
  <2> QED
    BY <1>5, <2>2 DEF Covered
<1>9. CASE hand[a].pc = "token"
  <2>1. \A b \in Actors : ~Bills(b, t)'
    BY <1>1, <1>5, <1>9 DEF StaysFree, Bills
  <2>2. paid'[t].funding >= 0 /\ paid'[t].token >= 0
    BY <1>1, <1>7, <1>9
  <2> QED
    BY <2>1, <2>2 DEF Covered
<1> QED
  BY <1>1, <1>8, <1>9

\* A task that is moved or ended was not excused before, so it has paid its quota.
LEMMA MoveCover ==
    ASSUME Shape, Elected, NEW a \in Actors, NEW t \in Tasks, Moves(a, t), Account(t)
    PROVE  Covered(t)' /\ (t \in excused' => t \in excused \/ row'[t].status \in Final)
<1>1. PICK new \in Statuses \ {"none"} : Swaps(a, t, new)
  BY MoveIsSwap
<1>2. /\ paid'[t] = paid[t] /\ quota[t] \in Nat
      /\ \A b \in Actors : Bills(b, t)' => b = a
      /\ StaysFree(a) => \A b \in Actors : ~Bills(b, t)'
  BY <1>1, SwapBillers
<1>3. paid[t].funding = quota[t] /\ paid[t].token = quota[t]
  BY <1>1, SwapBillers DEF Account, Swaps
<1>4. StaysFree(a) \/ \E d \in Nat : BecomesBiller(a, t, d - quota[t])
  <2>1. ASSUME BecomesBiller(a, t, -quota[t]) PROVE BecomesBiller(a, t, 0 - quota[t])
    BY <1>2, <2>1 DEF BecomesBiller
  <2> QED
    BY <2>1 DEF Moves, FailsTask, CompletesTask, MovesOn, EndsUnheard
<1>5. ASSUME StaysFree(a) PROVE Covered(t)'
  <2>1. paid'[t].funding >= 0 /\ paid'[t].token >= 0
    BY <1>2, <1>3
  <2> QED
    BY <1>2, <1>5, <2>1 DEF Covered
<1>6. ASSUME NEW d \in Nat, BecomesBiller(a, t, d - quota[t]) PROVE Covered(t)'
  <2>1. FundingDue(a)' = d - quota[t] /\ hand'[a].delta = d - quota[t]
    BY <1>6 DEF BecomesBiller, FundingDue
  <2>2. /\ paid'[t].funding >= 0 /\ paid'[t].token >= 0
        /\ paid'[t].funding + FundingDue(a)' >= 0 /\ paid'[t].token + hand'[a].delta >= 0
    BY <1>2, <1>3, <2>1
  <2> QED
    BY <1>2, <2>2 DEF Covered
<1>7. t \in excused' => t \in excused \/ row'[t].status \in Final
  BY SwapRows DEF Moves, FailsTask, CompletesTask, MovesOn, EndsUnheard
<1> QED
  BY <1>4, <1>5, <1>6, <1>7

LEMMA CoveredStep ==
    ASSUME CasOnly, SettlementHolds, CoveredInv, [Next]_vars
    PROVE  CoveredInv'
<1>1. Shape /\ Elected /\ Accounts /\ AccountInv
  BY DEF CoveredInv, AccountInv
<1>2. Shape' /\ Elected' /\ AccountInv'
  BY <1>1, ShapeStep, ElectedStep, AccountsStep DEF AccountInv
<1>3. \A t \in Tasks : row[t].status \in Final => row'[t].status \in Final
  BY <1>1, FinalStep
<1>4. excused \subseteq Tasks /\ excused' \subseteq Tasks
  BY <1>1, <1>2 DEF Shape, TypeOK
<1>5. \A t \in excused : row[t].status \in Final
  BY DEF CoveredInv
<1>6. ASSUME NEW t \in Tasks
      PROVE  Covered(t)' /\ (t \in excused' => t \in excused \/ row'[t].status \in Final)
  <2>1. Covered(t)
    BY DEF CoveredInv
  <2>2. CASE Spares(t) /\ (t \in excused' <=> t \in excused)
    BY <2>1, <2>2, SparedCover
  <2>3. CASE Submission(t)
    BY <1>1, <1>2, <2>1, <2>3, SubmissionCover
  <2>4. CASE \E a \in Actors : Pays(a) /\ hand[a].task = t /\ UNCHANGED excused
    BY <1>1, <2>1, <2>4, PayCover
  <2>5. CASE \E a \in Actors : Moves(a, t)
    <3>1. PICK a \in Actors : Moves(a, t)
      BY <2>5
    <3>2. row[t].status \notin Final
      BY <1>1, <3>1, MoveIsSwap DEF Swaps
    <3>3. Account(t)
      BY <1>1, <1>5, <3>2 DEF Accounts
    <3> QED
      BY <1>1, <3>1, <3>3, MoveCover
  <2>6. CASE \E a \in Actors : CutShort(a) /\ hand[a].task = t
    <3>1. PICK a \in Actors : CutShort(a) /\ hand[a].task = t
      BY <2>6
    <3>2. row[t].status \in Final /\ \A b \in Actors : Bills(b, t) => b = a
      BY <1>1, <3>1 DEF CutShort, Elected, Bills
    <3>3. \A b \in Actors \ {a} : hand'[b] = hand[b]
      BY <1>1, <3>1, ShapeParts DEF CutShort, Steps, WorkTypes
    <3>4. \A b \in Actors : ~Bills(b, t)'
      BY <3>1, <3>2, <3>3 DEF CutShort, StaysFree, Bills
    <3>5. UNCHANGED paid /\ row'[t].status \in Final
      BY <1>3, <3>1, <3>2 DEF CutShort
    <3> QED
      BY <2>1, <3>4, <3>5 DEF Covered
  <2> QED
    BY <1>1, <2>2, <2>3, <2>4, <2>5, <2>6, TaskKinds
<1>7. \A t \in excused' : row'[t].status \in Final
  BY <1>3, <1>4, <1>5, <1>6
<1> QED
  BY <1>2, <1>6, <1>7 DEF CoveredInv

LEMMA CoveredInit == Init => CoveredInv
<1> SUFFICES ASSUME Init PROVE CoveredInv
  OBVIOUS
<1>1. AccountInv /\ excused = {}
  BY AccountInvInit DEF Init
<1>2. \A t \in Tasks : row[t].status \notin Final
  BY DEF Init, Final
<1>3. \A t \in Tasks : \A a \in Actors : ~Bills(a, t)
  BY <1>1, <1>2, NoBillerBeforeEnd DEF AccountInv
<1>4. \A t \in Tasks : paid[t].funding = 0 /\ paid[t].token = 0
  BY DEF Init
<1> QED
  BY <1>1, <1>3, <1>4 DEF CoveredInv, Covered

\* When settlements hold, a task never returns more than was charged for it,
\* at the funding source or at the token, whatever fails or crashes later.
THEOREM NothingOverRefunded == ASSUME CasOnly, SettlementHolds PROVE Spec => []NeverOverRefunded
<1>1. CoveredInv /\ [Next]_vars => CoveredInv'
  BY CoveredStep
<1>2. CoveredInv => NeverOverRefunded
  BY DEF CoveredInv, Covered, NeverOverRefunded
<1> QED
  BY <1>1, <1>2, CoveredInit, PTL DEF Spec

-----------------------------------------------------------------------------
(* Every platform: the types, and which final statuses last *)

\* One process polls.
Solo == \A p, q \in Pollers : p = q

\* Users fetch the task as well, and nothing but the report of its upstream
\* can end it.
Reports(t) ==
    Platform[t] = "realtime" /\ t \notin MayTimeOut \cup MayLose /\ "message" \notin Failing

\* Only compare-and-swaps move the task; or one poller moves it, and nobody
\* else; or everybody moves it to what its upstream reports.
Lasting(t) ==
    \/ Platform[t] \in {"video", "async"} /\ t \notin MayLose
    \/ Platform[t] \in {"video", "suno"} /\ Solo
    \/ Reports(t)

\* The actor will save a Suno task; it is sweeping, or will go on doing so.
Saving(h) == h.pc = "save" \/ (h.pc \in BillOps /\ h.back = "save")
Sweeping(h) == h.pc = "sweep" \/ (h.pc \in BillOps /\ h.back = "sweep")

PollerForm(h) ==
    /\ h.pc \in {"rest", "sweep", "poll", "apply", "save"} \cup BillOps
    /\ h.pc \in BillOps => h.back \in {"sweep", "poll", "save"}
    /\ \A t \in Tasks : h.batch[t] \notin Final
    /\ Sweeping(h) => \A t \in Tasks : h.batch[t] # "none" => t \in MayTimeOut
    /\ h.pc \in {"apply", "save"} \cup BillOps => h.task \in Tasks
    /\ h.pc = "apply" \/ Saving(h) => h.batch[h.task] # "none"
    /\ Saving(h) => Platform[h.task] = "suno"

ReaderForm(h) ==
    /\ h.pc \in {"rest", "fetch", "apply"}
    /\ h.pc # "rest" => h.task \in Tasks /\ Platform[h.task] = "realtime" /\ h.batch[h.task] # "none"

GoroutineForm(h) ==
    /\ h.pc \in {"rest", "start", "generate", "record", "over"} \cup BillOps
    /\ h.pc \in BillOps => h.task \in Tasks /\ h.back = "over"

\* What an actor may hold, whatever the state of the rows.
Form(a, h) ==
    /\ h \in Hands
    /\ a \in Pollers => PollerForm(h)
    /\ a \in Readers => ReaderForm(h)
    /\ a \in AsyncTasks => GoroutineForm(h)

\* Before its submission is through, a task has no row and nobody has read one.
Placed ==
    \A t \in Tasks : sub[t] # "submitted" =>
        row[t].status = "none" /\ \A a \in Actors : hand[a].batch[t] = "none"

\* What the only poller has read of a task that nobody else moves is still so.
Undisturbed ==
    Solo => \A p \in Pollers : \A t \in Tasks :
        Platform[t] \in {"video", "suno"} /\ hand[p].batch[t] # "none"
        => row[t].status = hand[p].batch[t]

\* Every final status that is around is the one the upstream reports.
Agrees(t) ==
    /\ row[t].status \in Final => row[t].status = Reported(t)
    /\ \A a \in Actors : hand[a].task = t =>
         /\ hand[a].pc = "apply" /\ hand[a].res.status \in Final => hand[a].res.status = Reported(t)
         /\ hand[a].pc \in {"fetch", "apply"} /\ hand[a].batch[t] \in Final => hand[a].batch[t] = Reported(t)
         /\ hand[a].pc = "apply" /\ hand[a].batch[t] \in Final => hand[a].res.status = hand[a].batch[t]

World ==
    /\ TypeOK
    /\ old \subseteq MayTimeOut /\ lost \subseteq MayLose
    /\ \A a \in Actors : Form(a, hand[a])
    /\ Placed /\ Undisturbed
    /\ \A t \in Tasks : Reports(t) => Agrees(t)

\* An actor steps: it looks at rows, or asks an upstream, or leaves a task.
Goes(a) ==
    /\ hand' = [hand EXCEPT ![a] = hand'[a]]
    /\ Form(a, hand'[a])
    /\ \A t \in Tasks : hand'[a].batch[t] \in {"none", hand[a].batch[t], row[t].status}
    /\ hand'[a].pc = "apply" =>
         /\ "message" \in Failing \/ hand'[a].res \in Results(hand'[a].task)
         /\ a \in Readers => /\ hand[a].pc = "fetch" /\ hand'[a].task = hand[a].task
                             /\ hand'[a].batch = hand[a].batch
    /\ hand'[a].pc = "fetch" => hand'[a].batch[hand'[a].task] = row[hand'[a].task].status

\* What an actor's step leaves alone.
Apart ==
    /\ UNCHANGED <<sub, old, lost>>
    /\ \A t \in Tasks \ AsyncTasks : up'[t] = up[t]

Looks(a) == Goes(a) /\ Apart /\ UNCHANGED row

\* A poller's write: a compare-and-swap, or one that overwrites.
PollerWrites(p, t, x) ==
    /\ hand[p].batch[t] # "none" /\ hand'[p].batch[t] = "none"
    /\ hand[p].batch[t] = row[t].status \/ t \in MayLose \/ Platform[t] = "suno"
    /\ \/ t \in MayTimeOut \cup MayLose \/ Platform[t] = "suno"
       \/ hand[p].pc = "apply" /\ hand[p].task = t /\ x.status = hand[p].res.status

ReaderWrites(r, t, x) ==
    /\ hand[r].pc = "apply" /\ hand[r].task = t
    /\ hand[r].batch[t] = row[t].status /\ x.status = hand[r].res.status

GoroutineWrites(a, t) == a = t /\ row[t].status \notin Final \cup {"none"}

Writes(a, t) ==
    /\ Goes(a) /\ Apart
    /\ \E x \in [status : Statuses, done : BOOLEAN] :
         /\ row' = [row EXCEPT ![t] = x]
         /\ \/ a \in Pollers /\ PollerWrites(a, t, x)
            \/ a \in Readers /\ ReaderWrites(a, t, x)
            \/ a \in AsyncTasks /\ GoroutineWrites(a, t)

\* Readers are neither pollers nor goroutines.
LEMMA ReaderKinds ==
    \A r \in Readers : r \in Actors /\ r \notin Pollers /\ r \notin AsyncTasks
  BY ConstantsAssumption DEF Actors, AsyncTasks

\* The parts of World that the steps use.
LEMMA WorldIs ==
    ASSUME World
    PROVE  /\ AccountTypes /\ EnvironmentTypes /\ WorkTypes
           /\ \A a \in Actors : hand[a] \in Hands /\ Form(a, hand[a])
  BY TypeParts DEF World, Form

\* Where an actor may go on once it has finished with a task.
NextPlace(a, pc) ==
    /\ a \in Pollers => pc = "poll" \/ (pc = "sweep" /\ Sweeping(hand[a]))
    /\ a \in Readers => pc = "rest"
    /\ a \in AsyncTasks => pc \in {"generate", "record", "over"}

\* An actor has finished with a task.
LEMMA GoesOn ==
    ASSUME World, NEW a \in Actors, NEW t \in Tasks,
           NEW pc \in {"rest", "sweep", "poll", "generate", "record", "over"},
           NextPlace(a, pc), GoOn(a, t, pc)
    PROVE  Goes(a) /\ hand'[a].batch[t] = "none"
<1>1. hand[a] \in Hands /\ Form(a, hand[a]) /\ hand \in [Actors -> Hands]
  BY WorldIs DEF WorkTypes
<1>2. PICK o : o = Onward(a, t, pc)
  OBVIOUS
<1>3. /\ o \in Hands /\ o.pc = pc /\ o.back = "rest"
      /\ o.batch = [hand[a].batch EXCEPT ![t] = "none"] /\ o.batch \in [Tasks -> Statuses]
  BY <1>1, <1>2, OnwardFields
<1>4. hand[a].batch \in [Tasks -> Statuses]
  BY <1>1 DEF Hands
<1>5. o.batch[t] = "none" /\ \A u \in Tasks \ {t} : o.batch[u] = hand[a].batch[u]
  BY <1>3, <1>4
<1>6. a \in Pollers => PollerForm(o)
  BY <1>1, <1>3, <1>5 DEF NextPlace, Form, PollerForm, Saving, Sweeping, BillOps, Final
<1>7. a \in Readers => ReaderForm(o)
  BY <1>3 DEF NextPlace, ReaderForm
<1>8. a \in AsyncTasks => GoroutineForm(o)
  BY <1>3 DEF NextPlace, GoroutineForm, BillOps
<1>9. hand' = [hand EXCEPT ![a] = o] /\ hand'[a] = o
  BY <1>1, <1>2 DEF GoOn
<1> QED
  BY <1>3, <1>5, <1>6, <1>7, <1>8, <1>9 DEF Goes, Form

\* The same when it first has to bill the task.
LEMMA GoesToBill ==
    ASSUME World, NEW a \in Actors, a \notin Readers, NEW t \in Tasks, NEW delta \in Int,
           NEW pc \in {"sweep", "poll", "over"}, NextPlace(a, pc), Bill(a, t, delta, pc)
    PROVE  Goes(a) /\ hand'[a].batch[t] = "none"
<1>1. hand[a] \in Hands /\ Form(a, hand[a]) /\ hand \in [Actors -> Hands]
  BY WorldIs DEF WorkTypes
<1>2. CASE delta = 0
  BY <1>2, GoesOn DEF Bill, GoOn
<1>3. CASE delta # 0
  <2>1. PICK o : o = Onward(a, t, "funding")
    OBVIOUS
  <2>2. /\ o \in Hands /\ o.pc = "funding"
        /\ o.batch = [hand[a].batch EXCEPT ![t] = "none"] /\ o.batch \in [Tasks -> Statuses]
    BY <1>1, <2>1, OnwardFields
  <2>3. PICK h : h = [o EXCEPT !.task = t, !.delta = delta, !.back = pc]
    OBVIOUS
  <2>4. h \in Hands /\ h.pc = "funding" /\ h.task = t /\ h.back = pc /\ h.batch = o.batch
    BY <2>2, <2>3 DEF Hands
  <2>5. hand[a].batch \in [Tasks -> Statuses]
    BY <1>1 DEF Hands
  <2>6. h.batch[t] = "none" /\ \A u \in Tasks \ {t} : h.batch[u] = hand[a].batch[u]
    BY <2>2, <2>4, <2>5
  <2>7. a \in Pollers => PollerForm(h)
    BY <1>1, <2>4, <2>6 DEF NextPlace, Form, PollerForm, Saving, Sweeping, BillOps, Final
  <2>8. a \in AsyncTasks => GoroutineForm(h)
    BY <2>4 DEF NextPlace, GoroutineForm, BillOps
  <2>9. hand' = [hand EXCEPT ![a] = h] /\ hand'[a] = h
    BY <1>1, <1>3, <2>1, <2>3 DEF Bill
  <2> QED
    BY <2>4, <2>6, <2>7, <2>8, <2>9 DEF Goes, Form
<1> QED
  BY <1>2, <1>3

\* A poller has read a batch.
LEMMA GoesReading ==
    ASSUME World, NEW p \in Pollers, NEW pc \in {"sweep", "poll"}, NEW bt \in [Tasks -> Statuses],
           \A t \in Tasks : bt[t] # "none" => Unfinished(t) /\ bt[t] = row[t].status,
           pc = "sweep" => \A t \in Tasks : bt[t] # "none" => t \in MayTimeOut,
           hand' = [hand EXCEPT ![p] = [Rest EXCEPT !.pc = pc, !.batch = bt]]
    PROVE  Goes(p)
<1>1. hand \in [Actors -> Hands] /\ p \in Actors /\ p \notin Readers /\ p \notin AsyncTasks
  BY WorldIs, ActorKinds DEF WorkTypes
<1>2. PICK h : h = [Rest EXCEPT !.pc = pc, !.batch = bt]
  OBVIOUS
<1>3. h \in Hands /\ h.pc = pc /\ h.back = "rest" /\ h.batch = bt
  BY <1>2, RestIs DEF Hands
<1>4. PollerForm(h)
  BY <1>3 DEF PollerForm, Saving, Sweeping, BillOps, Final, Unfinished
<1>5. hand' = [hand EXCEPT ![p] = h] /\ hand'[p] = h
  BY <1>1, <1>2
<1> QED
  BY <1>1, <1>3, <1>4, <1>5 DEF Goes, Form

\* An actor has got an answer about a task.
LEMMA GoesAsking ==
    ASSUME World, NEW a \in Actors, a \notin AsyncTasks, NEW t \in Tasks,
           NEW r \in [status : Statuses, full : BOOLEAN], "message" \in Failing \/ r \in Results(t),
           a \in Pollers => hand[a].batch[t] # "none",
           a \in Readers => hand[a].pc = "fetch" /\ hand[a].task = t,
           hand' = [hand EXCEPT ![a] = [hand[a] EXCEPT !.pc = "apply", !.task = t, !.res = r]]
    PROVE  Goes(a)
<1>1. PICK o : o = hand[a]
  OBVIOUS
<1>2. o \in Hands /\ Form(a, o) /\ hand \in [Actors -> Hands]
  BY <1>1, WorldIs DEF WorkTypes
<1>3. PICK h : h = [o EXCEPT !.pc = "apply", !.task = t, !.res = r]
  OBVIOUS
<1>4. h \in Hands /\ h.pc = "apply" /\ h.task = t /\ h.res = r /\ h.batch = o.batch /\ h.back = o.back
  BY <1>2, <1>3 DEF Hands
<1>5. a \in Pollers => PollerForm(h)
  BY <1>1, <1>2, <1>4 DEF Form, PollerForm, Saving, Sweeping, BillOps
<1>6. a \in Readers => ReaderForm(h)
  BY <1>1, <1>2, <1>4 DEF Form, ReaderForm
<1>7. hand' = [hand EXCEPT ![a] = h] /\ hand'[a] = h
  BY <1>1, <1>2, <1>3
<1>8. \A u \in Tasks : h.batch[u] = hand[a].batch[u]
  BY <1>1, <1>4
<1> QED
  BY <1>1, <1>4, <1>5, <1>6, <1>7, <1>8 DEF Goes, Form

\* A biller that is done, or has failed, goes back to where it came from.
LEMMA GoesBack ==
    ASSUME World, NEW a \in Actors, hand[a].pc \in BillOps,
           hand' = [hand EXCEPT ![a] = Return(hand[a])]
    PROVE  Goes(a)
<1>1. PICK o : o = hand[a]
  OBVIOUS
<1>2. o \in Hands /\ Form(a, o) /\ hand \in [Actors -> Hands]
  BY <1>1, WorldIs DEF WorkTypes
<1>3. a \notin Readers
  BY <1>1, <1>2 DEF Form, ReaderForm, BillOps
<1>4. o.back \in {"sweep", "poll", "save", "over"} /\ o.pc \in BillOps
  BY <1>1, <1>2, <1>3 DEF Form, PollerForm, GoroutineForm, Actors
<1>5. CASE o.back = "save"
  <2>0. PICK zero \in Int : zero = 0
    OBVIOUS
  <2>1. PICK h : h = [o EXCEPT !.pc = "save", !.back = "rest", !.delta = zero]
    OBVIOUS
  <2>2. h \in Hands /\ h.pc = "save" /\ h.task = o.task /\ h.batch = o.batch /\ h.back = "rest"
    BY <1>2, <2>1 DEF Hands
  <2>3. a \in Pollers /\ a \notin AsyncTasks
    BY <1>2, <1>3, <1>4, <1>5 DEF Form, GoroutineForm, Actors
  <2>4. PollerForm(h)
    BY <1>2, <1>4, <1>5, <2>2, <2>3 DEF Form, PollerForm, Saving, Sweeping, BillOps
  <2>5. hand' = [hand EXCEPT ![a] = h] /\ hand'[a] = h
    BY <1>1, <1>2, <1>5, <2>0, <2>1 DEF Return
  <2>6. \A u \in Tasks : h.batch[u] = hand[a].batch[u]
    BY <1>1, <2>2
  <2> QED
    BY <1>3, <2>2, <2>3, <2>4, <2>5, <2>6 DEF Goes, Form
<1>6. CASE o.back # "save"
  <2>1. PICK h : h = [Rest EXCEPT !.pc = o.back, !.batch = o.batch]
    OBVIOUS
  <2>2. o.batch \in [Tasks -> Statuses]
    BY <1>2 DEF Hands
  <2>3. h \in Hands /\ h.pc = o.back /\ h.batch = o.batch /\ h.back = "rest"
    BY <1>4, <1>6, <2>1, <2>2, RestIs DEF Hands
  <2>4. a \in Pollers => PollerForm(h)
    BY <1>2, <1>4, <1>6, <2>3 DEF Form, PollerForm, Saving, Sweeping, BillOps
  <2>5. a \in AsyncTasks => GoroutineForm(h)
    BY <1>2, <1>4, <1>6, <2>3 DEF Form, GoroutineForm, BillOps
  <2>6. hand' = [hand EXCEPT ![a] = h] /\ hand'[a] = h
    BY <1>1, <1>2, <1>6, <2>1 DEF Return
  <2>7. \A u \in Tasks : h.batch[u] = hand[a].batch[u]
    BY <1>1, <2>3
  <2> QED
    BY <1>3, <1>4, <1>6, <2>3, <2>4, <2>5, <2>6, <2>7 DEF Goes, Form
<1> QED
  BY <1>5, <1>6

\* Where a poller stands when it works on a task.
LEMMA PollerIs ==
    ASSUME World, NEW p \in Pollers
    PROVE  /\ p \in Actors /\ p \notin Readers /\ p \notin AsyncTasks
           /\ hand \in [Actors -> Hands] /\ hand[p] \in Hands /\ PollerForm(hand[p])
  BY WorldIs, ActorKinds DEF Form, WorkTypes

\* What an upstream reports is a status, and what a fetch makes of it a result.
LEMMA AnswersAre ==
    ASSUME World, NEW t \in Tasks
    PROVE  /\ Reported(t) \in Statuses
           /\ Results(t) \subseteq [status : Statuses, full : BOOLEAN]
           /\ Platform[t] = "realtime" => \A x \in Results(t) : x.status = Reported(t)
<1>1. up[t] \in {"queued", "running", "success", "failure"} /\ row[t].status \in Statuses
  BY DEF World, TypeOK
<1>2. Reported(t) \in Statuses
  BY <1>1 DEF Reported, Statuses
<1>3. LocalStatus(t) \in Statuses
  BY <1>1 DEF LocalStatus, Statuses
<1>4. {"FAILURE", "IN_PROGRESS"} \subseteq Statuses
  BY DEF Statuses
<1>5. [status : {"FAILURE", "IN_PROGRESS"}, full : {TRUE}] \subseteq [status : Statuses, full : BOOLEAN]
  BY <1>4
<1>6. \A x \in Statuses, B \in {{FALSE}, {TRUE}, BOOLEAN} : [status : {x}, full : B] \subseteq [status : Statuses, full : BOOLEAN]
  OBVIOUS
<1>7. Results(t) \subseteq [status : Statuses, full : BOOLEAN]
  BY <1>2, <1>3, <1>5, <1>6 DEF Results
<1>8. Platform[t] = "realtime" => \A x \in Results(t) : x.status = Reported(t)
  BY DEF Results
<1> QED
  BY <1>2, <1>7, <1>8

\* A poller swaps a task of its batch.
LEMMA PollerSwaps ==
    ASSUME NEW p \in Pollers, NEW t \in Tasks, NEW new \in Statuses,
           Goes(p), Apart, hand'[p].batch[t] = "none", hand[p].batch[t] # "none",
           CasWins(t, hand[p].batch[t]), Puts(t, new),
           t \in MayTimeOut \/ (hand[p].pc = "apply" /\ hand[p].task = t /\ new = hand[p].res.status)
    PROVE  Writes(p, t)
<1>1. PICK x \in [status : Statuses, done : BOOLEAN] : x.status = new /\ row' = [row EXCEPT ![t] = x]
  BY PutIs
<1>2. PollerWrites(p, t, x)
  BY <1>1 DEF PollerWrites, CasWins
<1> QED
  BY <1>1, <1>2 DEF Writes

\* The same when the database reports an error.
LEMMA PollerErrs ==
    ASSUME NEW p \in Pollers, NEW t \in Tasks, NEW new \in Statuses,
           Goes(p), Apart, hand'[p].batch[t] = "none", hand[p].batch[t] # "none",
           Errs(t, hand[p].batch[t], new),
           t \in MayTimeOut \/ (hand[p].pc = "apply" /\ hand[p].task = t /\ new = hand[p].res.status)
    PROVE  Looks(p) \/ Writes(p, t)
<1>1. UNCHANGED row \/ (CasWins(t, hand[p].batch[t]) /\ Puts(t, new))
  BY DEF Errs, Puts, CasError
<1> QED
  BY <1>1, PollerSwaps DEF Looks

\* A poller sweeps, gives up or asks about one task of its batch.
LEMMA PollTaskGoes ==
    ASSUME World, NEW p \in Pollers, NEW t \in Tasks, PollTask(p, t)
    PROVE  Looks(p) \/ Writes(p, t)
<1>1. /\ p \in Actors /\ p \notin Readers /\ p \notin AsyncTasks
      /\ hand \in [Actors -> Hands] /\ hand[p] \in Hands /\ PollerForm(hand[p])
  BY PollerIs
<1>2. quota[t] \in Nat /\ lost \subseteq MayLose /\ "FAILURE" \in Statuses
  BY DEF World, TypeOK, Statuses
<1>3. Apart
  BY DEF PollTask, SweepStep, SweepTask, SweepLost, SweepError, BulkFail, Fetch, FetchMessage, FetchFails, Apart
<1>4. hand[p].batch[t] # "none"
  BY DEF PollTask, SweepStep, SweepTask, SweepLost, SweepError, BulkFail, Fetch, FetchMessage, FetchFails, ToPoll
<1>5. hand[p].pc = "sweep" => NextPlace(p, "sweep") /\ t \in MayTimeOut
  BY <1>1, <1>4 DEF NextPlace, Sweeping, PollerForm
<1>6. NextPlace(p, "poll")
  BY <1>1 DEF NextPlace
<1>7. ASSUME SweepTask(p, t) PROVE Writes(p, t)
  <2>1. PICK delta : delta = IF IsLegacy(t) THEN 0 ELSE -quota[t]
    OBVIOUS
  <2>2. delta \in Int
    BY <1>2, <2>1
  <2>3. Goes(p) /\ hand'[p].batch[t] = "none"
    BY <1>1, <1>5, <1>7, <2>1, <2>2, GoesToBill DEF SweepTask
  <2> QED
    BY <1>2, <1>3, <1>4, <1>5, <1>7, <2>3, PollerSwaps DEF SweepTask, Puts
<1>8. ASSUME SweepLost(p, t) PROVE Looks(p)
  BY <1>1, <1>3, <1>5, <1>8, GoesOn DEF SweepLost, Looks
<1>9. ASSUME SweepError(p, t) PROVE Looks(p) \/ Writes(p, t)
  <2>1. Goes(p) /\ hand'[p].batch[t] = "none"
    BY <1>1, <1>5, <1>9, GoesOn DEF SweepError
  <2> QED
    BY <1>2, <1>3, <1>4, <1>5, <1>9, <2>1, PollerErrs DEF SweepError, Errs
<1>10. ASSUME BulkFail(p, t) PROVE Writes(p, t)
  <2>1. Goes(p) /\ hand'[p].batch[t] = "none"
    BY <1>1, <1>6, <1>10, GoesOn DEF BulkFail
  <2>2. PICK x \in [status : Statuses, done : BOOLEAN] : x.status = "FAILURE" /\ row' = [row EXCEPT ![t] = x]
    BY <1>2, <1>10, PutIs DEF BulkFail, Puts
  <2>3. PollerWrites(p, t, x)
    BY <1>2, <1>4, <1>10, <2>1 DEF BulkFail, PollerWrites
  <2> QED
    BY <1>3, <2>1, <2>2, <2>3 DEF Writes
<1>11. ASSUME Fetch(p, t) PROVE Looks(p)
  <2>1. PICK r \in Results(t) : hand' = [hand EXCEPT ![p].pc = "apply", ![p].task = t, ![p].res = r]
    BY <1>11 DEF Fetch
  <2>2. r \in [status : Statuses, full : BOOLEAN]
    BY AnswersAre
  <2>3. hand' = [hand EXCEPT ![p] = [hand[p] EXCEPT !.pc = "apply", !.task = t, !.res = r]]
    BY <1>1, <2>1
  <2>4. Goes(p)
    BY <1>1, <1>4, <2>2, <2>3, GoesAsking
  <2> QED
    BY <1>3, <1>11, <2>4 DEF Fetch, Looks
<1>12. ASSUME FetchMessage(p, t) PROVE Looks(p)
  <2>1. PICK r : r = [status |-> "FAILURE", full |-> TRUE]
    OBVIOUS
  <2>2. r \in [status : Statuses, full : BOOLEAN]
    BY <1>2, <2>1
  <2>3. "message" \in Failing
    BY <1>12 DEF FetchMessage, Fault
  <2>4. hand' = [hand EXCEPT ![p] = [hand[p] EXCEPT !.pc = "apply", !.task = t, !.res = r]]
    BY <1>1, <1>12, <2>1 DEF FetchMessage
  <2>5. Goes(p)
    BY <1>1, <1>4, <2>2, <2>3, <2>4, GoesAsking
  <2> QED
    BY <1>3, <1>12, <2>5 DEF FetchMessage, Looks
<1>13. ASSUME FetchFails(p, t) PROVE Looks(p)
  BY <1>1, <1>3, <1>6, <1>13, GoesOn DEF FetchFails, Looks
<1> QED
  BY <1>7, <1>8, <1>9, <1>10, <1>11, <1>12, <1>13 DEF PollTask, SweepStep

\* A poller reads its batches, or writes a result.
LEMMA PollStepGoes ==
    ASSUME World, NEW p \in Pollers, PollStep(p)
    PROVE  Looks(p) \/ \E t \in Tasks : Writes(p, t)
<1>1. /\ p \in Actors /\ p \notin Readers /\ p \notin AsyncTasks
      /\ hand \in [Actors -> Hands] /\ hand[p] \in Hands /\ PollerForm(hand[p])
  BY PollerIs
<1>2. /\ row \in [Tasks -> [status : Statuses, done : BOOLEAN]] /\ quota \in [Tasks -> Nat]
      /\ old \subseteq MayTimeOut
  BY DEF World, TypeOK
<1>3. Apart
  BY DEF PollStep, SweepRead, PollRead, ApplyFinal, ApplyProgress, ApplyLost, ApplyError,
         ApplySuno, SaveSuno, SaveSunoFails, Apart
<1>4. NextPlace(p, "poll")
  BY <1>1 DEF NextPlace
<1>5. PICK t : t = hand[p].task
  OBVIOUS
<1>6. PICK res : res = hand[p].res
  OBVIOUS
<1>7. /\ res.status \in Statuses /\ res.full \in BOOLEAN
      /\ hand[p].pc \in {"apply", "save"} => t \in Tasks /\ hand[p].batch[t] # "none"
      /\ hand[p].pc = "save" => Platform[t] = "suno"
  BY <1>1, <1>5, <1>6 DEF Hands, PollerForm, Saving
<1>8. ASSUME hand[p].pc \in {"apply", "save"}, GoOn(p, t, "poll")
      PROVE  Goes(p) /\ hand'[p].batch[t] = "none"
  BY <1>1, <1>4, <1>7, <1>8, GoesOn
<1>9. ASSUME SweepRead(p) PROVE Looks(p)
  <2>1. PICK bt : bt = [u \in Tasks |-> IF TimedOut(u) THEN row[u].status ELSE "none"]
    OBVIOUS
  <2>2. bt \in [Tasks -> Statuses]
    BY <1>2, <2>1 DEF Statuses
  <2>3. \A u \in Tasks : bt[u] # "none" => Unfinished(u) /\ bt[u] = row[u].status /\ u \in MayTimeOut
    BY <1>2, <2>1 DEF TimedOut
  <2>4. hand' = [hand EXCEPT ![p] = [Rest EXCEPT !.pc = "sweep", !.batch = bt]]
    BY <1>9, <2>1 DEF SweepRead, Read
  <2>5. Goes(p)
    BY <2>2, <2>3, <2>4, GoesReading
  <2> QED
    BY <1>3, <1>9, <2>5 DEF SweepRead, Looks
<1>10. ASSUME PollRead(p) PROVE Looks(p)
  <2>1. PICK bt : bt = [u \in Tasks |-> IF Unfinished(u) THEN row[u].status ELSE "none"]
    OBVIOUS
  <2>2. bt \in [Tasks -> Statuses]
    BY <1>2, <2>1 DEF Statuses
  <2>3. \A u \in Tasks : bt[u] # "none" => Unfinished(u) /\ bt[u] = row[u].status
    BY <2>1
  <2>4. hand' = [hand EXCEPT ![p] = [Rest EXCEPT !.pc = "poll", !.batch = bt]]
    BY <1>10, <2>1 DEF PollRead, Read
  <2>5. Goes(p)
    BY <2>2, <2>3, <2>4, GoesReading
  <2> QED
    BY <1>3, <1>10, <2>5 DEF PollRead, Looks
<1>11. ASSUME ApplyFinal(p) PROVE t \in Tasks /\ Writes(p, t)
  <2>1. hand[p].pc = "apply" /\ CasWins(t, hand[p].batch[t]) /\ Puts(t, res.status)
    BY <1>5, <1>6, <1>11 DEF ApplyFinal, Applies, Puts
  <2>2. t \in Tasks /\ hand[p].batch[t] # "none" /\ quota[t] \in Nat
    BY <1>2, <1>7, <2>1
  <2>3. PICK delta \in Int : Bill(p, t, delta, "poll")
    <3>1. CASE res.status = "FAILURE"
      BY <1>5, <1>6, <1>11, <2>2, <3>1 DEF ApplyFinal
    <3>2. CASE res.status # "FAILURE"
      <4>1. PICK actual \in Actuals : Bill(p, t, SettleDelta(t, actual), "poll")
        BY <1>5, <1>6, <1>11, <3>2 DEF ApplyFinal
      <4>2. SettleDelta(t, actual) \in Int
        BY <2>2, ConstantsAssumption DEF SettleDelta
      <4> QED
        BY <4>1, <4>2
    <3> QED
      BY <3>1, <3>2
  <2>4. Goes(p) /\ hand'[p].batch[t] = "none"
    BY <1>1, <1>4, <2>2, <2>3, GoesToBill
  <2> QED
    BY <1>3, <1>5, <1>6, <1>7, <2>1, <2>2, <2>4, PollerSwaps
<1>12. ASSUME ApplyProgress(p) PROVE Looks(p) \/ (t \in Tasks /\ Writes(p, t))
  <2>1. /\ hand[p].pc = "apply" /\ GoOn(p, t, "poll")
        /\ UNCHANGED row \/ (CasWins(t, hand[p].batch[t]) /\ Puts(t, res.status))
    BY <1>5, <1>6, <1>12 DEF ApplyProgress, Applies, Puts
  <2>2. Goes(p) /\ hand'[p].batch[t] = "none" /\ t \in Tasks /\ hand[p].batch[t] # "none"
    BY <1>7, <1>8, <2>1
  <2> QED
    BY <1>3, <1>5, <1>6, <1>7, <2>1, <2>2, PollerSwaps DEF Looks
<1>13. ASSUME ApplyLost(p) PROVE Looks(p)
  BY <1>3, <1>5, <1>8, <1>13 DEF ApplyLost, Applies, Looks
<1>14. ASSUME ApplyError(p) PROVE Looks(p) \/ (t \in Tasks /\ Writes(p, t))
  <2>1. hand[p].pc = "apply" /\ GoOn(p, t, "poll") /\ Errs(t, hand[p].batch[t], res.status)
    BY <1>5, <1>6, <1>14 DEF ApplyError, Applies, Errs
  <2>2. Goes(p) /\ hand'[p].batch[t] = "none" /\ t \in Tasks /\ hand[p].batch[t] # "none"
    BY <1>7, <1>8, <2>1
  <2> QED
    BY <1>3, <1>5, <1>6, <1>7, <2>1, <2>2, PollerErrs
<1>15. ASSUME ApplySuno(p) PROVE Looks(p)
  <2>1. PICK o : o = hand[p]
    OBVIOUS
  <2>2. o.pc = "apply" /\ t \in Tasks /\ Platform[t] = "suno" /\ o.batch[t] # "none" /\ -quota[t] \in Int
    BY <1>2, <1>5, <1>7, <1>15, <2>1 DEF ApplySuno, Applies
  <2>3. PICK h : h = IF SunoFailed(o.res) /\ quota[t] # 0
                     THEN [o EXCEPT !.pc = "funding", !.delta = -quota[t], !.back = "save"]
                     ELSE [o EXCEPT !.pc = "save"]
    OBVIOUS
  <2>4. /\ h \in Hands /\ h.task = o.task /\ h.batch = o.batch
        /\ h.pc = "save" \/ (h.pc = "funding" /\ h.back = "save")
    BY <1>1, <2>1, <2>2, <2>3 DEF Hands
  <2>5. PollerForm(h)
    BY <1>1, <1>5, <2>1, <2>2, <2>4 DEF PollerForm, Saving, Sweeping, BillOps
  <2>6. hand' = [hand EXCEPT ![p] = h] /\ hand'[p] = h
    BY <1>1, <1>5, <1>15, <2>1, <2>3 DEF ApplySuno
  <2>7. \A u \in Tasks : h.batch[u] = hand[p].batch[u]
    BY <2>1, <2>4
  <2>8. Goes(p)
    BY <1>1, <2>4, <2>5, <2>6, <2>7 DEF Goes, Form
  <2> QED
    BY <1>3, <1>15, <2>8 DEF ApplySuno, Looks
<1>16. ASSUME SaveSuno(p) PROVE t \in Tasks /\ Writes(p, t)
  <2>1. hand[p].pc = "save" /\ GoOn(p, t, "poll") /\ Puts(t, res.status)
    BY <1>5, <1>6, <1>16 DEF SaveSuno, Puts
  <2>2. t \in Tasks
    BY <1>7, <2>1
  <2>4. PICK x \in [status : Statuses, done : BOOLEAN] : row' = [row EXCEPT ![t] = x]
    BY <1>7, <2>1, <2>2, PutIs
  <2>5. Goes(p) /\ hand'[p].batch[t] = "none" /\ t \in Tasks /\ hand[p].batch[t] # "none" /\ Platform[t] = "suno"
    BY <1>7, <1>8, <2>1
  <2>6. PollerWrites(p, t, x)
    BY <2>5 DEF PollerWrites
  <2> QED
    BY <1>3, <2>4, <2>5, <2>6 DEF Writes
<1>17. ASSUME SaveSunoFails(p) PROVE Looks(p)
  BY <1>3, <1>5, <1>8, <1>17 DEF SaveSunoFails, Looks
<1> QED
  BY <1>9, <1>10, <1>11, <1>12, <1>13, <1>14, <1>15, <1>16, <1>17 DEF PollStep

\* A user's GET reads a task, asks its upstream and swaps.
LEMMA ReadingGoes ==
    ASSUME World, NEW r \in Readers, Reading(r) \/ \E t \in Tasks : ReadTask(r, t)
    PROVE  Looks(r) \/ \E t \in Tasks : Writes(r, t)
<1>1. r \in Actors /\ r \notin Pollers /\ r \notin AsyncTasks
  BY ReaderKinds
<1>2. PICK o : o = hand[r]
  OBVIOUS
<1>3. /\ hand \in [Actors -> Hands] /\ o \in Hands /\ ReaderForm(o)
      /\ row \in [Tasks -> [status : Statuses, done : BOOLEAN]]
  BY <1>1, <1>2, WorldIs DEF Form, WorkTypes
<1>4. Apart
  BY DEF Reading, RealtimeFetch, RealtimeApply, ReadTask, Apart
<1>5. o.batch \in [Tasks -> Statuses] /\ o.res.status \in Statuses
  BY <1>3 DEF Hands
<1>6. ASSUME NEW t \in Tasks, ReadTask(r, t) PROVE Looks(r)
  <2>1. PICK bt : bt = [o.batch EXCEPT ![t] = row[t].status]
    OBVIOUS
  <2>2. /\ bt \in [Tasks -> Statuses] /\ bt[t] = row[t].status
        /\ \A u \in Tasks \ {t} : bt[u] = o.batch[u]
    BY <1>3, <1>5, <2>1
  <2>3. PICK h : h = [o EXCEPT !.pc = "fetch", !.task = t, !.batch = bt]
    OBVIOUS
  <2>4. h \in Hands /\ h.pc = "fetch" /\ h.task = t /\ h.batch = bt
    BY <1>3, <2>2, <2>3 DEF Hands
  <2>5. ReaderForm(h)
    BY <1>6, <2>2, <2>4 DEF ReadTask, ReaderForm
  <2>6. hand' = [hand EXCEPT ![r] = h] /\ hand'[r] = h
    <3>1. hand' = [hand EXCEPT ![r].pc = "fetch", ![r].task = t, ![r].batch[t] = row[t].status]
      BY <1>6 DEF ReadTask
    <3>2. PICK g : g = [hand EXCEPT ![r].pc = "fetch", ![r].task = t]
      OBVIOUS
    <3>3. PICK k : k = [o EXCEPT !.pc = "fetch", !.task = t]
      OBVIOUS
    <3>4. k \in Hands /\ k.batch = o.batch /\ h = [k EXCEPT !.batch = bt]
      BY <1>3, <2>3, <3>3 DEF Hands
    <3>5. g = [hand EXCEPT ![r] = k] /\ g \in [Actors -> Hands] /\ g[r] = k
      BY <1>1, <1>2, <1>3, <3>2, <3>3, <3>4
    <3>6. hand' = [g EXCEPT ![r].batch[t] = row[t].status]
      BY <3>1, <3>2
    <3>7. hand' = [g EXCEPT ![r] = [k EXCEPT !.batch = [o.batch EXCEPT ![t] = row[t].status]]]
      BY <1>1, <3>4, <3>5, <3>6
    <3>8. hand' = [g EXCEPT ![r] = h]
      BY <2>1, <3>4, <3>7
    <3> QED
      BY <1>1, <1>3, <3>5, <3>8
  <2>7. Goes(r)
    BY <1>1, <1>2, <2>2, <2>4, <2>5, <2>6 DEF Goes, Form
  <2> QED
    BY <1>4, <1>6, <2>7 DEF ReadTask, Looks
<1>7. ASSUME RealtimeFetch(r) PROVE Looks(r)
  <2>1. PICK t : t = o.task
    OBVIOUS
  <2>2. o.pc = "fetch" /\ t \in Tasks
    BY <1>2, <1>3, <1>7, <2>1 DEF RealtimeFetch, ReaderForm
  <2>3. PICK x \in Results(t) : hand' = [hand EXCEPT ![r].pc = "apply", ![r].res = x]
    BY <1>2, <1>7, <2>1 DEF RealtimeFetch
  <2>4. x \in [status : Statuses, full : BOOLEAN]
    BY <2>2, AnswersAre
  <2>5. [o EXCEPT !.pc = "apply", !.res = x] = [o EXCEPT !.pc = "apply", !.task = t, !.res = x]
    BY <1>3, <2>1 DEF Hands
  <2>6. hand' = [hand EXCEPT ![r] = [hand[r] EXCEPT !.pc = "apply", !.task = t, !.res = x]]
    <3>1. hand' = [hand EXCEPT ![r] = [hand[r] EXCEPT !.pc = "apply", !.res = x]]
      BY <1>1, <1>3, <2>3
    <3> QED
      BY <1>2, <2>5, <3>1
  <2>7. Goes(r)
    BY <1>1, <1>2, <2>1, <2>2, <2>4, <2>6, GoesAsking
  <2> QED
    BY <1>4, <1>7, <2>7 DEF RealtimeFetch, Looks
<1>8. ASSUME RealtimeApply(r) PROVE Looks(r) \/ \E t \in Tasks : Writes(r, t)
  <2>1. PICK t : t = o.task
    OBVIOUS
  <2>2. o.pc = "apply" /\ t \in Tasks
    BY <1>2, <1>3, <1>8, <2>1 DEF RealtimeApply, ReaderForm
  <2>3. /\ GoOn(r, t, "rest")
        /\ UNCHANGED row \/ (CasWins(t, o.batch[t]) /\ Puts(t, o.res.status))
    BY <1>2, <1>8, <2>1 DEF RealtimeApply, Puts
  <2>4. NextPlace(r, "rest")
    BY <1>1 DEF NextPlace
  <2>5. Goes(r)
    BY <1>1, <2>2, <2>3, <2>4, GoesOn
  <2>6. CASE UNCHANGED row
    BY <1>4, <2>5, <2>6 DEF Looks
  <2>7. CASE CasWins(t, o.batch[t]) /\ Puts(t, o.res.status)
    <3>1. PICK x \in [status : Statuses, done : BOOLEAN] :
            x.status = o.res.status /\ row' = [row EXCEPT ![t] = x]
      BY <1>5, <2>2, <2>7, PutIs
    <3>2. ReaderWrites(r, t, x)
      BY <1>2, <2>1, <2>2, <2>7, <3>1 DEF ReaderWrites, CasWins
    <3> QED
      BY <1>4, <2>2, <2>5, <3>1, <3>2 DEF Writes
  <2> QED
    BY <2>3, <2>6, <2>7
<1> QED
  BY <1>6, <1>7, <1>8 DEF Reading

\* A goroutine swaps its own task.
LEMMA GoroutineSwaps ==
    ASSUME NEW t \in AsyncTasks, Goes(t), Apart, NEW from, from \notin Final \cup {"none"},
           CasWins(t, from), NEW new \in Statuses, Puts(t, new)
    PROVE  Writes(t, t)
<1>1. t \in Tasks
  BY DEF AsyncTasks
<1>2. PICK x \in [status : Statuses, done : BOOLEAN] : x.status = new /\ row' = [row EXCEPT ![t] = x]
  BY <1>1, PutIs
<1> QED
  BY <1>2 DEF Writes, GoroutineWrites, CasWins

\* The goroutine of an async task.
LEMMA GenerationGoes ==
    ASSUME World, NEW t \in AsyncTasks, Generation(t)
    PROVE  Looks(t) \/ Writes(t, t)
<1>1. t \in Actors /\ t \notin Readers /\ t \in Tasks /\ t \notin Pollers
  BY ActorKinds
<1>2. {"IN_PROGRESS", "NOT_START"} \subseteq Statuses \ ({"none"} \cup Final) /\ Reported(t) \in Statuses
  BY <1>1, AnswersAre DEF Statuses, Final
<1>3. Apart
  <2>1. ASSUME GenerationEnds(t) PROVE Apart
    BY <1>1, <2>1, WorldIs DEF GenerationEnds, Apart, EnvironmentTypes
  <2> QED
    BY <2>1 DEF Generation, GenerationStarts, RecordResult, GenerationError, Apart
<1>4. \A pc \in {"generate", "record", "over"} : NextPlace(t, pc)
  BY <1>1 DEF NextPlace
<1>5. ASSUME NEW pc \in {"generate", "record", "over"}, GoOn(t, t, pc) PROVE Goes(t)
  BY <1>1, <1>4, <1>5, GoesOn
<1>6. ASSUME GenerationStarts(t) PROVE Looks(t) \/ Writes(t, t)
  <2>1. CASE CasWins(t, "NOT_START")
    BY <1>2, <1>3, <1>5, <1>6, <2>1, GoroutineSwaps DEF GenerationStarts, Puts
  <2>2. CASE ~CasWins(t, "NOT_START")
    BY <1>3, <1>5, <1>6, <2>2 DEF GenerationStarts, Looks
  <2> QED
    BY <2>1, <2>2
<1>7. ASSUME GenerationEnds(t) PROVE Looks(t)
  BY <1>3, <1>5, <1>7 DEF GenerationEnds, Looks
<1>8. ASSUME RecordResult(t) PROVE Looks(t) \/ Writes(t, t)
  <2>1. CASE CasWins(t, "IN_PROGRESS")
    <3>1. PICK delta : delta = IF Reported(t) = "FAILURE" THEN -quota[t] ELSE 0
      OBVIOUS
    <3>2. delta \in Int
      BY <1>1, <3>1, WorldIs DEF AccountTypes
    <3>3. Goes(t)
      BY <1>1, <1>4, <1>8, <2>1, <3>1, <3>2, GoesToBill DEF RecordResult
    <3> QED
      BY <1>2, <1>3, <1>8, <2>1, <3>3, GoroutineSwaps DEF RecordResult, Puts
  <2>2. CASE ~CasWins(t, "IN_PROGRESS")
    BY <1>3, <1>5, <1>8, <2>2 DEF RecordResult, Looks
  <2> QED
    BY <2>1, <2>2
<1>9. ASSUME GenerationError(t) PROVE Looks(t) \/ Writes(t, t)
  <2>1. Goes(t)
    BY <1>5, <1>9 DEF GenerationError
  <2>2. PICK from \in {"IN_PROGRESS", "NOT_START"}, new \in {"IN_PROGRESS", Reported(t)} :
            Errs(t, from, new)
    BY <1>9 DEF GenerationError, Errs
  <2>3. UNCHANGED row \/ (CasWins(t, from) /\ Puts(t, new))
    BY <2>2 DEF Errs, Puts, CasError
  <2> QED
    BY <1>2, <1>3, <2>1, <2>3, GoroutineSwaps DEF Looks
<1> QED
  BY <1>6, <1>7, <1>8, <1>9 DEF Generation

\* Billing, failing to bill, crashing.
LEMMA BillingGoes ==
    ASSUME World, NEW a \in Actors, Billing(a) \/ Crash(a)
    PROVE  Looks(a)
<1>1. PICK o : o = hand[a]
  OBVIOUS
<1>2. hand \in [Actors -> Hands] /\ o \in Hands /\ Form(a, o)
  BY <1>1, WorldIs DEF WorkTypes
<1>3. Apart /\ UNCHANGED row
  BY DEF Billing, AdjustFunding, AdjustFundingFails, AdjustToken, AdjustTokenFails, Crash, Apart
<1>4. ASSUME AdjustFunding(a) PROVE Goes(a)
  <2>1. PICK h : h = [o EXCEPT !.pc = "token"]
    OBVIOUS
  <2>2. /\ h \in Hands /\ h.pc = "token" /\ h.task = o.task /\ h.back = o.back /\ h.batch = o.batch
        /\ o.pc = "funding"
    BY <1>1, <1>2, <1>4, <2>1 DEF Hands, AdjustFunding
  <2>3. Form(a, h)
    BY <1>2, <2>2 DEF Form, PollerForm, ReaderForm, GoroutineForm, Saving, Sweeping, BillOps
  <2>4. hand' = [hand EXCEPT ![a] = h] /\ hand'[a] = h
    BY <1>1, <1>2, <1>4, <2>1 DEF AdjustFunding
  <2>5. \A u \in Tasks : h.batch[u] = hand[a].batch[u]
    BY <1>1, <2>2
  <2> QED
    BY <2>2, <2>3, <2>4, <2>5 DEF Goes
<1>5. ASSUME AdjustFundingFails(a) \/ AdjustToken(a) \/ AdjustTokenFails(a) PROVE Goes(a)
  BY <1>5, GoesBack DEF AdjustFundingFails, AdjustToken, AdjustTokenFails, BillOps
<1>6. ASSUME Crash(a) PROVE Goes(a)
  <2>1. PICK h : h = IF a \in AsyncTasks THEN [Rest EXCEPT !.pc = "over"] ELSE Rest
    OBVIOUS
  <2>2. /\ h \in Hands /\ h.pc \in {"over", "rest"} /\ h.back = "rest" /\ h.batch = NoBatch
        /\ a \notin AsyncTasks => h.pc = "rest"
    BY <2>1, RestIs DEF Hands
  <2>3. \A u \in Tasks : h.batch[u] = "none"
    BY <2>2 DEF NoBatch
  <2>4. Form(a, h)
    BY <2>2, <2>3, ActorKinds DEF Form, PollerForm, ReaderForm, GoroutineForm, Saving, Sweeping, BillOps, Final
  <2>5. hand' = [hand EXCEPT ![a] = h] /\ hand'[a] = h
    BY <1>2, <1>6, <2>1 DEF Crash
  <2> QED
    BY <2>2, <2>3, <2>4, <2>5 DEF Goes
<1> QED
  BY <1>3, <1>4, <1>5, <1>6 DEF Billing, Looks

\* Steps of submission and environment that touch neither rows nor hands.
Idles ==
    /\ UNCHANGED <<row, hand>>
    /\ \A t \in Tasks : sub[t] = "submitted" => sub'[t] = "submitted"
    /\ \A t \in Tasks : Reported(t) \in Final => up'[t] = up[t]
    /\ old' \subseteq MayTimeOut /\ lost' \subseteq MayLose

\* Every step is of one of these kinds.
LEMMA StepGoes ==
    ASSUME World, [Next]_vars
    PROVE  \/ Idles
           \/ \E t \in Tasks : Insert(t)
           \/ \E a \in Actors : Looks(a) \/ \E t \in Tasks : Writes(a, t)
<1>1. old \subseteq MayTimeOut /\ lost \subseteq MayLose
  BY DEF World
<1>2. ASSUME NEW t \in Tasks, Submission(t) PROVE Idles \/ Insert(t)
  <2>1. Submits(t) \/ Insert(t)
    BY <1>2, WorldIs, SubmissionKinds
  <2>2. UNCHANGED <<up, old, lost>>
    BY <1>2 DEF Submission, PreConsume, Refuse, Accept, Settle, SettleFails, Insert, InsertFails
  <2> QED
    BY <1>1, <2>1, <2>2 DEF Submits, Idles
<1>3. ASSUME NEW t \in Tasks, Environment(t) PROVE Idles
  <2>1. UNCHANGED <<row, hand, sub>>
    BY <1>3 DEF Environment, UpstreamStep, TimePasses, LoseChannel
  <2>2. old' \subseteq MayTimeOut /\ lost' \subseteq MayLose
    BY <1>1, <1>3 DEF Environment, UpstreamStep, TimePasses, LoseChannel
  <2>3. \A u \in Tasks : Reported(u) \in Final => up'[u] = up[u]
    <3>1. CASE UpstreamStep(t)
      <4>1. up[t] \in {"queued", "running"} /\ \A u \in Tasks \ {t} : up'[u] = up[u]
        BY <3>1, WorldIs DEF UpstreamStep, EnvironmentTypes
      <4>2. Reported(t) \notin Final
        BY <4>1 DEF Reported, Final
      <4> QED
        BY <4>1, <4>2
    <3>2. CASE ~UpstreamStep(t)
      BY <1>3, <3>2 DEF Environment, TimePasses, LoseChannel
    <3> QED
      BY <3>1, <3>2
  <2> QED
    BY <2>1, <2>2, <2>3 DEF Idles
<1>4. ASSUME NEW p \in Pollers, PollStep(p) \/ \E t \in Tasks : PollTask(p, t)
      PROVE  p \in Actors /\ (Looks(p) \/ \E t \in Tasks : Writes(p, t))
  BY <1>4, ActorKinds, PollStepGoes, PollTaskGoes
<1>5. ASSUME NEW r \in Readers, Reading(r) \/ \E t \in Tasks : ReadTask(r, t)
      PROVE  r \in Actors /\ (Looks(r) \/ \E t \in Tasks : Writes(r, t))
  BY <1>5, ReaderKinds, ReadingGoes
<1>6. ASSUME NEW t \in AsyncTasks, Generation(t)
      PROVE  t \in Actors /\ t \in Tasks /\ (Looks(t) \/ Writes(t, t))
  BY <1>6, ActorKinds, GenerationGoes
<1>7. ASSUME NEW a \in Actors, Billing(a) \/ Crash(a) PROVE Looks(a)
  BY <1>7, BillingGoes
<1>8. ASSUME UNCHANGED vars PROVE Idles
  BY <1>1, <1>8 DEF vars, Idles
<1> QED
  BY <1>2, <1>3, <1>4, <1>5, <1>6, <1>7, <1>8 DEF Next

\* The accounts keep their types, on every platform.
LEMMA AccountStep ==
    ASSUME World, [Next]_vars
    PROVE  AccountTypes'
<1>1. AccountTypes /\ \A a \in Actors : hand[a] \in Hands /\ Form(a, hand[a])
  BY WorldIs
<1>2. ASSUME NEW a \in Actors, hand[a].pc \in BillOps PROVE hand[a].task \in Tasks /\ hand[a].delta \in Int
  BY <1>1, <1>2 DEF Form, PollerForm, ReaderForm, GoroutineForm, Hands, BillOps, Actors
<1>3. ASSUME NEW t \in Tasks, Submission(t) PROVE AccountTypes'
  BY <1>1, <1>3, SubmissionKinds
<1>4. ASSUME NEW t \in Tasks, Environment(t) PROVE AccountTypes'
  BY <1>1, <1>4 DEF Environment, UpstreamStep, TimePasses, LoseChannel, AccountTypes
<1>5. ASSUME NEW t \in Tasks, NEW from, NEW to, Errs(t, from, to), UNCHANGED <<sub, quota, paid, due>>
      PROVE  AccountTypes'
  BY <1>1, <1>5 DEF Errs, CasError, AccountTypes
<1>6. ASSUME NEW p \in Pollers, NEW t \in Tasks, PollTask(p, t) PROVE AccountTypes'
  <2>1. ASSUME SweepError(p, t) PROVE AccountTypes'
    BY <1>5, <2>1 DEF SweepError, Errs
  <2> QED
    BY <1>1, <1>6, <2>1
       DEF PollTask, SweepStep, SweepTask, SweepLost, BulkFail, Fetch, FetchMessage, FetchFails, AccountTypes
<1>7. ASSUME NEW p \in Pollers, PollStep(p) PROVE AccountTypes'
  <2>1. hand[p].pc = "apply" => hand[p].task \in Tasks
    BY PollerIs DEF PollerForm
  <2>2. ASSUME ApplyError(p) PROVE AccountTypes'
    BY <1>5, <2>1, <2>2 DEF ApplyError, Applies, Errs
  <2>3. ASSUME ApplyFinal(p) PROVE AccountTypes'
    <3>1. PICK t \in Tasks : t = hand[p].task
      BY <2>1, <2>3 DEF ApplyFinal, Applies
    <3>2. UNCHANGED due \/ \E actual \in Actuals : due' = [due EXCEPT ![t] = IF actual > 0 THEN actual ELSE quota[t]]
      BY <2>3, <3>1 DEF ApplyFinal
    <3>3. due' \in [Tasks -> Nat]
      BY <1>1, <3>2, ConstantsAssumption DEF AccountTypes
    <3> QED
      BY <1>1, <2>3, <3>3 DEF ApplyFinal, AccountTypes
  <2> QED
    BY <1>1, <1>7, <2>2, <2>3
       DEF PollStep, SweepRead, PollRead, ApplyProgress, ApplyLost, ApplySuno, SaveSuno, SaveSunoFails, AccountTypes
<1>8. ASSUME NEW r \in Readers, Reading(r) \/ \E t \in Tasks : ReadTask(r, t) PROVE AccountTypes'
  BY <1>1, <1>8 DEF Reading, RealtimeFetch, RealtimeApply, ReadTask, AccountTypes
<1>9. ASSUME NEW t \in AsyncTasks, Generation(t) PROVE AccountTypes'
  <2>1. t \in Tasks
    BY DEF AsyncTasks
  <2>2. ASSUME GenerationError(t) PROVE AccountTypes'
    BY <1>5, <2>1, <2>2 DEF GenerationError, Errs
  <2> QED
    BY <1>1, <1>9, <2>2 DEF Generation, GenerationStarts, GenerationEnds, RecordResult, AccountTypes
<1>10. ASSUME NEW a \in Actors, Billing(a) \/ Crash(a) PROVE AccountTypes'
  <2>1. ASSUME hand[a].pc \in BillOps, NEW new \in [Tasks -> [funding : Int, token : Int]],
               paid' = new, UNCHANGED <<sub, quota, due>>, excused' \subseteq excused \cup {hand[a].task}
        PROVE  AccountTypes'
    BY <1>1, <1>2, <2>1 DEF AccountTypes
  <2>2. ASSUME AdjustFunding(a) PROVE AccountTypes'
    <3>1. PICK t \in Tasks, d \in Int : t = hand[a].task /\ d = hand[a].delta
      BY <1>2, <2>2 DEF AdjustFunding, BillOps
    <3>2. paid' = [paid EXCEPT ![t].funding = @ + d]
      BY <2>2, <3>1 DEF AdjustFunding
    <3>3. paid' \in [Tasks -> [funding : Int, token : Int]]
      BY <1>1, <3>2 DEF AccountTypes
    <3> QED
      BY <1>1, <2>2, <3>3 DEF AdjustFunding, AccountTypes
  <2>3. ASSUME AdjustToken(a) PROVE AccountTypes'
    <3>1. PICK t \in Tasks, d \in Int : t = hand[a].task /\ d = hand[a].delta
      BY <1>2, <2>3 DEF AdjustToken, BillOps
    <3>2. paid' = [paid EXCEPT ![t].token = @ + d]
      BY <2>3, <3>1 DEF AdjustToken
    <3>3. paid' \in [Tasks -> [funding : Int, token : Int]]
      BY <1>1, <3>2 DEF AccountTypes
    <3> QED
      BY <1>1, <2>3, <3>3 DEF AdjustToken, AccountTypes
  <2>4. ASSUME AdjustFundingFails(a) \/ AdjustTokenFails(a) PROVE AccountTypes'
    BY <1>1, <1>2, <2>4 DEF AdjustFundingFails, AdjustTokenFails, BillOps, AccountTypes
  <2>5. ASSUME Crash(a) PROVE AccountTypes'
    BY <1>1, <1>2, <2>5 DEF Crash, BillOps, AccountTypes
  <2> QED
    BY <1>10, <2>2, <2>3, <2>4, <2>5 DEF Billing
<1>11. ASSUME UNCHANGED vars PROVE AccountTypes'
  BY <1>1, <1>11 DEF vars, AccountTypes
<1> QED
  BY <1>3, <1>4, <1>6, <1>7, <1>8, <1>9, <1>10, <1>11 DEF Next

\* Reported looks at the upstream alone.
LEMMA ReportStays ==
    ASSUME NEW t \in Tasks, up'[t] = up[t]
    PROVE  Reported(t)' = Reported(t)
  BY DEF Reported

\* Types and forms after each kind of step.
LEMMA FormStep ==
    ASSUME World, [Next]_vars
    PROVE  /\ TypeOK' /\ (\A a \in Actors : Form(a, hand[a])')
           /\ old' \subseteq MayTimeOut /\ lost' \subseteq MayLose
<1>1. /\ AccountTypes /\ EnvironmentTypes /\ WorkTypes
      /\ \A a \in Actors : hand[a] \in Hands /\ Form(a, hand[a])
  BY WorldIs
<1>2. AccountTypes' /\ EnvironmentTypes'
  BY <1>1, AccountStep, EnvironmentStep
<1>3. old \subseteq MayTimeOut /\ lost \subseteq MayLose
  BY DEF World
<1> DEFINE Others == /\ WorkTypes' /\ (\A a \in Actors : Form(a, hand[a])')
                    /\ old' \subseteq MayTimeOut /\ lost' \subseteq MayLose
<1>4. ASSUME Idles PROVE Others
  BY <1>1, <1>4 DEF Idles, WorkTypes, Form, PollerForm, ReaderForm, GoroutineForm, Saving, Sweeping
<1>5. ASSUME NEW t \in Tasks, Insert(t) PROVE Others
  <2>1. row' \in [Tasks -> [status : Statuses, done : BOOLEAN]] /\ UNCHANGED <<old, lost>>
    BY <1>1, <1>5 DEF Insert, WorkTypes, Statuses
  <2>2. CASE t \in AsyncTasks
    <3>1. t \in Actors /\ t \notin Readers /\ t \notin Pollers
      BY <2>2, ActorKinds
    <3>2. PICK o : o = hand[t]
      OBVIOUS
    <3>3. PICK h : h = [o EXCEPT !.pc = "start"]
      OBVIOUS
    <3>4. h \in Hands /\ h.pc = "start"
      BY <1>1, <3>1, <3>2, <3>3 DEF Hands
    <3>5. Form(t, h)
      BY <3>1, <3>4 DEF Form, GoroutineForm, BillOps
    <3>6. hand' = [hand EXCEPT ![t] = h]
      BY <1>1, <1>5, <2>2, <3>1, <3>2, <3>3 DEF Insert, WorkTypes
    <3>7. hand' \in [Actors -> Hands] /\ \A a \in Actors : Form(a, hand'[a])
      BY <1>1, <3>1, <3>4, <3>5, <3>6 DEF WorkTypes
    <3> QED
      BY <1>3, <2>1, <3>7 DEF WorkTypes, Form, PollerForm, ReaderForm, GoroutineForm, Saving, Sweeping
  <2>3. CASE t \notin AsyncTasks
    <3>1. UNCHANGED hand
      BY <1>5, <2>3 DEF Insert
    <3> QED
      BY <1>1, <1>3, <2>1, <3>1 DEF WorkTypes, Form, PollerForm, ReaderForm, GoroutineForm, Saving, Sweeping
  <2> QED
    BY <2>2, <2>3
<1>6. ASSUME NEW a \in Actors, Looks(a) \/ \E t \in Tasks : Writes(a, t) PROVE Others
  <2>1. Goes(a) /\ Apart
    BY <1>6 DEF Looks, Writes
  <2>2. row' \in [Tasks -> [status : Statuses, done : BOOLEAN]]
    BY <1>1, <1>6 DEF Looks, Writes, WorkTypes
  <2>3. PICK h : h = hand'[a]
    OBVIOUS
  <2>4. hand' = [hand EXCEPT ![a] = h] /\ Form(a, h) /\ h \in Hands
    BY <2>1, <2>3 DEF Goes, Form
  <2>5. hand' \in [Actors -> Hands] /\ \A b \in Actors : Form(b, hand'[b])
    BY <1>1, <2>4 DEF WorkTypes
  <2> QED
    BY <1>3, <2>1, <2>2, <2>5 DEF Apart, WorkTypes, Form, PollerForm, ReaderForm, GoroutineForm, Saving, Sweeping
<1>7. Others
  BY <1>4, <1>5, <1>6, StepGoes DEF Idles
<1>8. lost' \subseteq Tasks
  BY <1>7, ConstantsAssumption
<1> QED
  BY <1>2, <1>7, <1>8 DEF TypeOK, AccountTypes, EnvironmentTypes, WorkTypes

\* What a step of actor a does to the hands.
LEMMA GoesHands ==
    ASSUME World, NEW a \in Actors, Goes(a)
    PROVE  hand' \in [Actors -> Hands] /\ \A b \in Actors \ {a} : hand'[b] = hand[b]
<1>1. hand \in [Actors -> Hands]
  BY WorldIs DEF WorkTypes
<1>2. PICK h : h = hand'[a]
  OBVIOUS
<1>3. hand' = [hand EXCEPT ![a] = h] /\ h \in Hands
  BY <1>2 DEF Goes, Form
<1> QED
  BY <1>1, <1>3

\* What a write does to the rows, and that its task has one.
LEMMA WriteIs ==
    ASSUME World, NEW a \in Actors, NEW t \in Tasks, Writes(a, t)
    PROVE  /\ \A u \in Tasks \ {t} : row'[u] = row[u]
           /\ sub[t] = "submitted"
           /\ \/ a \in Pollers /\ PollerWrites(a, t, row'[t])
              \/ a \in Readers /\ ReaderWrites(a, t, row'[t]) /\ Platform[t] = "realtime"
              \/ a \in AsyncTasks /\ GoroutineWrites(a, t) /\ Platform[t] = "async"
<1>1. PICK x \in [status : Statuses, done : BOOLEAN] :
         /\ row' = [row EXCEPT ![t] = x]
         /\ \/ a \in Pollers /\ PollerWrites(a, t, x)
            \/ a \in Readers /\ ReaderWrites(a, t, x)
            \/ a \in AsyncTasks /\ GoroutineWrites(a, t)
  BY DEF Writes
<1>2. x = row'[t] /\ \A u \in Tasks \ {t} : row'[u] = row[u]
  BY <1>1, WorldIs DEF WorkTypes
<1>3. a \in Readers /\ ReaderWrites(a, t, x) => Platform[t] = "realtime" /\ hand[a].batch[t] # "none"
  BY WorldIs DEF Form, ReaderForm, ReaderWrites
<1>4. a \in AsyncTasks /\ GoroutineWrites(a, t) => Platform[t] = "async" /\ row[t].status # "none"
  BY DEF GoroutineWrites, AsyncTasks
<1>5. hand[a].batch[t] # "none" \/ row[t].status # "none"
  BY <1>1, <1>3, <1>4 DEF PollerWrites
<1>6. sub[t] = "submitted"
  BY <1>5 DEF World, Placed
<1> QED
  BY <1>1, <1>2, <1>3, <1>4, <1>6

\* A new row, and the goroutine that starts with it.
LEMMA InsertIs ==
    ASSUME World, NEW t \in Tasks, Insert(t)
    PROVE  /\ row[t].status = "none" /\ (\A a \in Actors : hand[a].batch[t] = "none")
           /\ row'[t].status = "NOT_START" /\ \A u \in Tasks \ {t} : row'[u] = row[u]
           /\ sub' = [sub EXCEPT ![t] = "submitted"] /\ UNCHANGED up
           /\ \A a \in Actors : /\ hand'[a].batch = hand[a].batch
                                /\ hand'[a] = hand[a] \/ hand'[a].pc = "start"
<1>1. row \in [Tasks -> [status : Statuses, done : BOOLEAN]] /\ hand \in [Actors -> Hands]
  BY WorldIs DEF WorkTypes
<1>2. row'[t].status = "NOT_START" /\ \A u \in Tasks \ {t} : row'[u] = row[u]
  BY <1>1 DEF Insert
<1>3. sub[t] # "submitted"
  BY DEF Insert
<1>4. row[t].status = "none" /\ \A a \in Actors : hand[a].batch[t] = "none"
  BY <1>3 DEF World, Placed
<1>5. ASSUME NEW a \in Actors
      PROVE  hand'[a].batch = hand[a].batch /\ (hand'[a] = hand[a] \/ hand'[a].pc = "start")
  <2>1. CASE t \in AsyncTasks
    <3>1. PICK o : o = hand[t]
      OBVIOUS
    <3>2. PICK h : h = [o EXCEPT !.pc = "start"]
      OBVIOUS
    <3>3. t \in Actors /\ o \in Hands
      BY <1>1, <2>1, <3>1, ActorKinds
    <3>4. h.batch = o.batch /\ h.pc = "start"
      BY <3>2, <3>3 DEF Hands
    <3>5. hand' = [hand EXCEPT ![t] = h]
      BY <1>1, <2>1, <3>1, <3>2, <3>3 DEF Insert
    <3> QED
      BY <1>1, <3>1, <3>3, <3>4, <3>5
  <2>2. CASE t \notin AsyncTasks
    BY <2>2 DEF Insert
  <2> QED
    BY <2>1, <2>2
<1> QED
  BY <1>2, <1>4, <1>5 DEF Insert

LEMMA PlacedStep ==
    ASSUME World, [Next]_vars
    PROVE  Placed'
<1>1. Placed /\ AccountTypes
  BY WorldIs DEF World
<1>2. ASSUME Idles PROVE Placed'
  BY <1>1, <1>2 DEF Idles, Placed
<1>3. ASSUME NEW t \in Tasks, Insert(t) PROVE Placed'
  BY <1>1, <1>3, InsertIs DEF Placed, AccountTypes
<1>4. ASSUME NEW a \in Actors, Looks(a) \/ \E t \in Tasks : Writes(a, t) PROVE Placed'
  <2>1. Goes(a) /\ Apart
    BY <1>4 DEF Looks, Writes
  <2>2. \A b \in Actors \ {a} : hand'[b] = hand[b]
    BY <2>1, GoesHands
  <2>3. ASSUME NEW u \in Tasks, sub'[u] # "submitted"
        PROVE  row'[u].status = "none" /\ \A b \in Actors : hand'[b].batch[u] = "none"
    <3>1. row[u].status = "none" /\ \A b \in Actors : hand[b].batch[u] = "none"
      BY <1>1, <2>1, <2>3 DEF Placed, Apart
    <3>2. hand'[a].batch[u] = "none"
      BY <2>1, <3>1 DEF Goes
    <3>3. row'[u] = row[u]
      BY <1>4, <2>1, <2>3, WriteIs DEF Looks, Apart
    <3> QED
      BY <2>2, <3>1, <3>2, <3>3
  <2> QED
    BY <2>3 DEF Placed
<1> QED
  BY <1>2, <1>3, <1>4, StepGoes

LEMMA UndisturbedStep ==
    ASSUME World, [Next]_vars
    PROVE  Undisturbed'
<1> SUFFICES ASSUME Solo, NEW p \in Pollers, NEW t \in Tasks,
                    Platform[t] \in {"video", "suno"}, hand'[p].batch[t] # "none"
             PROVE  row'[t].status = hand'[p].batch[t]
  BY DEF Undisturbed, Solo
<1>1. p \in Actors /\ p \notin Readers /\ p \notin AsyncTasks
  BY ActorKinds
<1>2. hand[p].batch[t] # "none" => row[t].status = hand[p].batch[t]
  BY DEF World, Undisturbed
<1>3. CASE Idles
  BY <1>2, <1>3 DEF Idles
<1>4. ASSUME NEW u \in Tasks, Insert(u) PROVE row'[t].status = hand'[p].batch[t]
  BY <1>1, <1>2, <1>4, InsertIs
<1>5. ASSUME NEW a \in Actors, Goes(a), row'[t] = row[t] PROVE row'[t].status = hand'[p].batch[t]
  <2>1. CASE a = p
    BY <1>2, <1>5, <2>1 DEF Goes
  <2>2. CASE a # p
    BY <1>1, <1>2, <1>5, <2>2, GoesHands
  <2> QED
    BY <2>1, <2>2
<1>6. ASSUME NEW a \in Actors, NEW u \in Tasks, Writes(a, u) PROVE row'[t].status = hand'[p].batch[t]
  <2>1. CASE u = t
    <3>1. a \in Pollers /\ PollerWrites(a, t, row'[t])
      BY <1>6, <2>1, WriteIs
    <3>2. a = p
      BY <3>1 DEF Solo
    <3> QED
      BY <3>1, <3>2 DEF PollerWrites
  <2>2. CASE u # t
    BY <1>5, <1>6, <2>2, WriteIs DEF Writes
  <2> QED
    BY <2>1, <2>2
<1> QED
  BY <1>3, <1>4, <1>5, <1>6, StepGoes DEF Looks

\* After its step, an actor that works on t agrees with its upstream.
LEMMA GoesAgrees ==
    ASSUME World, NEW a \in Actors, Goes(a), NEW t \in Tasks, Reports(t), hand'[a].task = t
    PROVE  /\ hand'[a].pc = "apply" /\ hand'[a].res.status \in Final => hand'[a].res.status = Reported(t)
           /\ hand'[a].pc \in {"fetch", "apply"} /\ hand'[a].batch[t] \in Final => hand'[a].batch[t] = Reported(t)
           /\ hand'[a].pc = "apply" /\ hand'[a].batch[t] \in Final => hand'[a].res.status = hand'[a].batch[t]
<1>1. Agrees(t) /\ Platform[t] = "realtime" /\ "message" \notin Failing
  BY DEF World, Reports
<1>2. hand'[a].pc = "apply" => hand'[a].res.status = Reported(t)
  BY <1>1, AnswersAre DEF Goes
<1>3. hand'[a].pc = "fetch" /\ hand'[a].batch[t] \in Final => hand'[a].batch[t] = Reported(t)
  BY <1>1 DEF Goes, Agrees
<1>4. ASSUME hand'[a].pc = "apply", hand'[a].batch[t] \in Final PROVE hand'[a].batch[t] = Reported(t)
  <2>1. a \notin Pollers /\ a \notin AsyncTasks
    BY <1>4 DEF Goes, Form, PollerForm, GoroutineForm, BillOps
  <2>2. a \in Readers
    BY <2>1 DEF Actors
  <2>3. hand[a].pc = "fetch" /\ hand[a].task = t /\ hand[a].batch[t] \in Final /\ hand'[a].batch = hand[a].batch
    BY <1>4, <2>2 DEF Goes
  <2> QED
    BY <1>1, <2>3 DEF Agrees
<1> QED
  BY <1>2, <1>3, <1>4

LEMMA AgreesStep ==
    ASSUME World, [Next]_vars, NEW t \in Tasks, Reports(t)
    PROVE  Agrees(t)'
<1>1. Agrees(t) /\ Platform[t] = "realtime" /\ t \notin AsyncTasks
  BY DEF World, Reports, AsyncTasks
<1>2. ASSUME Idles PROVE Agrees(t)'
  <2>1. Reported(t) \in Final => Reported(t)' = Reported(t)
    BY <1>2, ReportStays DEF Idles
  <2> QED
    BY <1>1, <1>2, <2>1 DEF Idles, Agrees
<1>3. ASSUME NEW u \in Tasks, Insert(u) PROVE Agrees(t)'
  <2>1. Reported(t)' = Reported(t)
    BY <1>3, InsertIs, ReportStays
  <2>2. row'[t].status \in Final => row'[t].status = row[t].status
    BY <1>3, InsertIs DEF Final
  <2>3. \A a \in Actors : hand'[a].pc \in {"fetch", "apply"} => hand'[a] = hand[a]
    BY <1>3, InsertIs
  <2> QED
    BY <1>1, <2>1, <2>2, <2>3 DEF Agrees
<1>4. ASSUME NEW a \in Actors, Goes(a), Apart, row'[t].status \in Final => row'[t].status = Reported(t)
      PROVE  Agrees(t)'
  <2>1. Reported(t)' = Reported(t)
    BY <1>1, <1>4, ReportStays DEF Apart
  <2>2. ASSUME NEW b \in Actors, hand'[b].task = t
        PROVE  /\ hand'[b].pc = "apply" /\ hand'[b].res.status \in Final => hand'[b].res.status = Reported(t)
               /\ hand'[b].pc \in {"fetch", "apply"} /\ hand'[b].batch[t] \in Final => hand'[b].batch[t] = Reported(t)
               /\ hand'[b].pc = "apply" /\ hand'[b].batch[t] \in Final => hand'[b].res.status = hand'[b].batch[t]
    <3>1. CASE b = a
      BY <1>4, <2>2, <3>1, GoesAgrees
    <3>2. CASE b # a
      <4>1. hand'[b] = hand[b]
        BY <1>4, <3>2, GoesHands
      <4> QED
        BY <1>1, <2>2, <4>1 DEF Agrees
    <3> QED
      BY <3>1, <3>2
  <2> QED
    BY <1>4, <2>1, <2>2 DEF Agrees
<1>5. ASSUME NEW a \in Actors, Looks(a) PROVE Agrees(t)'
  BY <1>1, <1>4, <1>5 DEF Looks, Agrees
<1>6. ASSUME NEW a \in Actors, NEW u \in Tasks, Writes(a, u) PROVE Agrees(t)'
  <2>1. CASE u = t
    <3>1. hand[a].pc = "apply" /\ hand[a].task = t /\ row'[t].status = hand[a].res.status
      BY <1>1, <1>6, <2>1, WriteIs DEF PollerWrites, ReaderWrites, Reports
    <3> QED
      BY <1>1, <1>4, <1>6, <3>1 DEF Writes, Agrees
  <2>2. CASE u # t
    <3>1. row'[t] = row[t]
      BY <1>6, <2>2, WriteIs
    <3> QED
      BY <1>1, <1>4, <1>6, <3>1 DEF Writes, Agrees
  <2> QED
    BY <2>1, <2>2
<1> QED
  BY <1>2, <1>3, <1>5, <1>6, StepGoes

LEMMA WorldStep ==
    ASSUME World, [Next]_vars
    PROVE  World'
<1>1. \A t \in Tasks : Reports(t)' => Agrees(t)'
  BY AgreesStep DEF Reports
<1> QED
  BY <1>1, FormStep, PlacedStep, UndisturbedStep DEF World

LEMMA WorldInit == Init => World
<1> SUFFICES ASSUME Init PROVE World
  OBVIOUS
<1>1. AccountTypes /\ EnvironmentTypes /\ WorkTypes /\ lost = {} /\ old = {}
  BY RestIs, ConstantsAssumption DEF Init, AccountTypes, EnvironmentTypes, WorkTypes, Statuses
<1>2. \A a \in Actors : hand[a] = Rest
  BY DEF Init
<1>3. \A a \in Actors : hand[a].pc = "rest" /\ hand[a] \in Hands /\ \A t \in Tasks : hand[a].batch[t] = "none"
  BY <1>2, RestIs DEF NoBatch
<1>4. \A a \in Actors : Form(a, hand[a])
  BY <1>3 DEF Form, PollerForm, ReaderForm, GoroutineForm, Saving, Sweeping, BillOps, Final
<1>5. \A t \in Tasks : row[t].status = "none"
  BY DEF Init
<1>6. Placed
  BY <1>3, <1>5 DEF Placed
<1>7. Undisturbed
  BY <1>3, ActorKinds DEF Undisturbed
<1>8. \A t \in Tasks : Agrees(t)
  BY <1>3, <1>5 DEF Agrees, Final
<1> QED
  BY <1>1, <1>4, <1>6, <1>7, <1>8, TypeParts DEF World

\* A final status that lasts is kept by every step.
LEMMA LastingStep ==
    ASSUME World, [Next]_vars, NEW t \in Tasks, Lasting(t), row[t].status \in Final
    PROVE  row'[t].status = row[t].status
<1>1. CASE Idles
  BY <1>1 DEF Idles
<1>2. ASSUME NEW u \in Tasks, Insert(u) PROVE row'[t].status = row[t].status
  BY <1>2, InsertIs DEF Final
<1>3. ASSUME NEW a \in Actors, NEW u \in Tasks, Writes(a, u) PROVE row'[t].status = row[t].status
  <2>1. CASE u # t
    BY <1>3, <2>1, WriteIs
  <2>2. CASE u = t
    <3>1. ~(a \in AsyncTasks /\ GoroutineWrites(a, t))
      BY DEF GoroutineWrites
    <3>2. ASSUME a \in Pollers, PollerWrites(a, t, row'[t]) PROVE FALSE
      <4>1. hand[a].batch[t] # "none" /\ hand[a].batch[t] \notin Final
        BY <3>2, PollerIs DEF PollerWrites, PollerForm
      <4>2. t \in MayLose \/ Platform[t] = "suno"
        BY <3>2, <4>1 DEF PollerWrites
      <4>3. Platform[t] \in {"video", "suno"} /\ Solo
        BY <4>2 DEF Lasting, Reports
      <4>4. row[t].status = hand[a].batch[t]
        BY <3>2, <4>1, <4>3 DEF World, Undisturbed
      <4> QED
        BY <4>1, <4>4
    <3>3. ASSUME a \in Readers, ReaderWrites(a, t, row'[t]), Platform[t] = "realtime"
          PROVE  row'[t].status = row[t].status
      <4>1. Agrees(t)
        BY <3>3 DEF Lasting, World
      <4> QED
        BY <3>3, <4>1 DEF ReaderWrites, Agrees
    <3> QED
      BY <1>3, <2>2, <3>1, <3>2, <3>3, WriteIs
  <2> QED
    BY <2>1, <2>2
<1> QED
  BY <1>1, <1>2, <1>3, StepGoes DEF Looks

LEMMA WorldHolds == Spec => []World
<1>1. World /\ [Next]_vars => World'
  BY WorldStep
<1> QED
  BY <1>1, WorldInit, PTL DEF Spec

\* Every variable keeps its type on every platform, with any number of actors
\* and whatever fails: whoever bills or saves holds a task, and what it writes
\* is a status.
THEOREM TaskTypes == Spec => []TypeOK
<1>1. World => TypeOK
  BY DEF World
<1> QED
  BY <1>1, WorldHolds, PTL

\* Beside whatever tasks, a final status is final for a task that only
\* compare-and-swaps move (a video or a sub2api image on a channel that stays),
\* for a video or a Suno task with one poller, although updateSunoTasks and
\* TaskBulkUpdateByID overwrite the row, and for a task that users fetch
\* (tryRealtimeFetch) as long as only its upstream ends it.
THEOREM LastingStatusStays ==
    Spec => [][\A t \in Tasks : Lasting(t) /\ row[t].status \in Final => row'[t].status = row[t].status]_vars
<1>1. World /\ [Next]_vars =>
        [\A t \in Tasks : Lasting(t) /\ row[t].status \in Final => row'[t].status = row[t].status]_vars
  BY LastingStep
<1> QED
  BY <1>1, WorldHolds, PTL DEF Spec

\* The statuses SUCCESS and FAILURE are final when all tasks are of these kinds:
\* no poller, sweep, reader or goroutine with an older view of the row
\* overwrites them.
THEOREM FinalStatusStays == ASSUME \A t \in Tasks : Lasting(t) PROVE Spec => FinalIsFinal
<1>1. World /\ [Next]_vars =>
        [\A t \in Tasks : row[t].status \in Final => row'[t].status = row[t].status]_vars
  BY LastingStep
<1> QED
  BY <1>1, WorldHolds, PTL DEF Spec, FinalIsFinal

=============================================================================
