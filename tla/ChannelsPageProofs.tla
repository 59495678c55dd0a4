-------------------------- MODULE ChannelsPageProofs --------------------------
(***************************************************************************)
(* Proofs about the channel management page: its marks never turn for      *)
(* ever, the newest query wins, and a batch of tests covers every model.   *)
(* For any pages, filters and keywords, any number of models, rounds of    *)
(* any size, and any number of clicks, batches and errors.                 *)
(*                                                                         *)
(* The three properties rest on three invariants that hardly need each     *)
(* other: who resets the marks (Marks), which of the calls under way will  *)
(* be shown and whether its answer is fresh enough (Query), and which      *)
(* models the newest batch has yet to hear of (Coverage).                  *)
(***************************************************************************)
EXTENDS ChannelsPage, TLAPS

-----------------------------------------------------------------------------
(* The invariants *)

\* Calls are numbered up to the counter, and nobody has seen later changes.
Counted ==
    /\ \A c \in calls : c.id <= requestCounter
    /\ expected.ver <= ver

\* An idle change is no deletion of rows.
IdleChange == change.state = "none" => change.kind # "rows"

Marks == NoStuckSpinner /\ IdleChange

\* The list is what was asked for last.
Right ==
    /\ channels.page = expected.page /\ channels.filter = expected.filter
    /\ channels.key = expected.key /\ channels.ver >= expected.ver

\* The answer that call c waits for will be.
WillBeRight(c) ==
    /\ Served(c.page) = expected.page /\ c.filter = expected.filter /\ c.key = expected.key
    /\ \A g \in gets : c \in Waiting(g) => g.since >= expected.ver

\* Of the calls under way one at most will be shown.
Query ==
    expected # Unknown =>
        /\ \A c, d \in calls : Current(c) /\ Current(d) => c = d
        /\ \A c \in calls : Current(c) => WillBeRight(c)
        /\ (\A c \in calls : ~Current(c)) => Right

\* Batches start in their order.
InTurn == \A b \in Batches : batch[b].pc # "none" => \A a \in Batches : a < b => batch[a].pc # "none"

\* The tests of a batch record their results (testChannel saw no batch).
Recorded == \A t \in tests : t.batch \in Batches => t.batching = FALSE

Running(b) == batch[b].pc \in {"waiting", "delay", "ending"}

\* Every model the batch has come to is tested or has a result.
Heard(b) ==
    \A m \in Models : m < batch[b].next =>
        m \in results \/ \E t \in tests : t.batch = b /\ t.model = m

Coverage ==
    /\ InTurn
    /\ \A b \in Batches : batch[b].pc \in {"delay", "ending"} => \A t \in tests : t.batch # b
    /\ \A b \in Batches : batch[b].pc = "ending" => batch[b].next > NModels
    /\ \A b \in Batches : Running(b) /\ Latest(b) => Heard(b)

-----------------------------------------------------------------------------
(* Types *)

LEMMA ListFacts ==
    /\ NoList \in Lists /\ Unknown \in Lists /\ Unknown.ver = 0
    /\ NoChange \in [state : {"none", "sent", "committed"}, kind : {"none", "edit", "row", "rows"},
                     page : Nat, filter : FilterValues, list : Lists]
    /\ NoChange.state = "none" /\ NoChange.kind = "none"
<1>1. NoList \in Lists /\ NoList.ver = 0
  BY ChannelsAssumption DEF NoList, Lists, FilterValues
<1>2. Unknown \in Lists /\ Unknown.ver = 0
  <2>1. "unknown" \in FilterValues
    BY DEF FilterValues
  <2> QED
    BY <1>1, <2>1 DEF Unknown, Lists
<1>3. "all" \in FilterValues
  BY DEF FilterValues
<1> QED
  BY <1>1, <1>2, <1>3 DEF NoChange

\* What asking for the list does, part by part.
AskedCall(p, f, outer) ==
    [page |-> p, filter |-> f, key |-> keyword,
     id |-> IF keyword = NoKeyword THEN requestCounter + 1 ELSE 0, outer |-> outer]
AskedGet(p, f) == [page |-> p, filter |-> f, key |-> keyword, since |-> ver]
AskedList(p, f) == [page |-> Served(p), filter |-> f, key |-> keyword, ver |-> ver]

\* When the outcome of a query is open.
Doubtful(p, f) ==
    \/ expected = Unknown
    \/ calls # {} /\ (keyword # NoKeyword \/ \E c \in calls : c.id = 0)
    \/ \E g \in gets : g.page = p /\ g.filter = f /\ g.key = keyword /\ g.since < ver

LEMMA AskParts ==
    ASSUME NEW p, NEW f, NEW outer, Ask(p, f, outer)
    PROVE  /\ requestCounter' = IF keyword = NoKeyword THEN requestCounter + 1 ELSE requestCounter
           /\ calls' = calls \cup {AskedCall(p, f, outer)}
           /\ gets' = IF Shares(p, f) THEN gets ELSE gets \cup {AskedGet(p, f)}
           /\ expected' = IF Doubtful(p, f) THEN Unknown ELSE AskedList(p, f)
  BY Zenon DEF Ask, AskedCall, AskedGet, AskedList, Doubtful

LEMMA AskFlags ==
    ASSUME NEW p, NEW f, NEW outer, Ask(p, f, outer)
    PROVE  /\ loading' = (loading \/ keyword = NoKeyword \/ outer = "load")
           /\ searching' = (searching \/ ~(keyword = NoKeyword) \/ outer = "search")
  BY Zenon DEF Ask

LEMMA AskTypes ==
    ASSUME ListTypes, ver \in Nat, NEW p \in Nat, NEW f \in FilterValues,
           NEW outer \in {"none", "load", "search", "delete"}, Ask(p, f, outer)
    PROVE  /\ expected' \in Lists
           /\ requestCounter' \in Nat /\ calls' \subseteq Calls /\ gets' \subseteq Gets
<1> USE DEF ListTypes
<1>2. requestCounter' \in Nat
  BY AskParts
<1>3. AskedCall(p, f, outer) \in Calls
  BY DEF Calls, AskedCall
<1>4. calls' \subseteq Calls
  BY <1>3, AskParts
<1>5. AskedGet(p, f) \in Gets
  BY DEF Gets, AskedGet
<1>6. gets' \subseteq Gets
  BY <1>5, AskParts
<1>7. AskedList(p, f) \in Lists
  BY DEF Lists, Served, AskedList
<1>8. expected' \in Lists
  BY <1>7, ListFacts, AskParts
<1> QED
  BY <1>2, <1>4, <1>6, <1>8

\* The steps that ask for the list; channels shows at most an older one.
Asks(p, f, outer) ==
    /\ p \in Nat /\ f \in FilterValues /\ outer \in {"none", "load", "search", "delete"}
    /\ Ask(p, f, outer)
    /\ channels' \in Lists /\ activePage' \in Nat /\ filter' \in FilterValues
    /\ UNCHANGED <<keyword, ver, manages, testVars>>
    /\ later' \subseteq later
    /\ errors' \in {errors, errors + 1}
    /\ \/ UNCHANGED change
       \/ change' = NoChange /\ (change.kind = "rows" => outer = "delete")

\* All that asks.
LEMMA AskKinds ==
    ASSUME TypeOK,
           \/ \E p \in Pages : handlePageChange(p)
           \/ \E f \in Filters : ChangeFilter(f)
           \/ Submit \/ RefreshButton
           \/ \E r \in later : ResetRefresh(r)
           \/ ChangeAnswered \/ DeleteRefused
    PROVE  (\E p, f, o : Asks(p, f, o)) /\ CountTypes'
<1> USE DEF TypeOK, ListTypes, ChangeTypes, CountTypes
<1>1. ASSUME NEW p \in Pages, handlePageChange(p) PROVE (\E q, f, o : Asks(q, f, o)) /\ CountTypes'
  <2>1. p \in Nat
    BY ChannelsAssumption
  <2>2. Asks(p, filter, "none")
    BY <1>1, <2>1 DEF handlePageChange, refresh, Asks, changeVars
  <2>9. CountTypes'
    BY <1>1, ChannelsAssumption DEF handlePageChange, OnPage, Click, CountTypes
  <2> QED
    BY <2>2, <2>9
<1>2. ASSUME NEW f \in Filters, ChangeFilter(f) PROVE (\E q, g, o : Asks(q, g, o)) /\ CountTypes'
  <2>1. f \in FilterValues
    BY DEF FilterValues
  <2>2. PICK q \in Nat, o \in {"none", "load"} : activePage' = q /\ Ask(q, f, o)
    BY <1>2 DEF ChangeFilter, loadChannels, refresh
  <2>3. Asks(q, f, o)
    BY <1>2, <2>1, <2>2 DEF ChangeFilter, Asks, changeVars
  <2>9. CountTypes'
    BY <1>2, ChannelsAssumption DEF ChangeFilter, OnPage, Click, CountTypes
  <2> QED
    BY <2>3, <2>9
<1>3. ASSUME Submit PROVE (\E q, g, o : Asks(q, g, o)) /\ CountTypes'
  <2>1. PICK o \in {"none", "search"} : Ask(1, filter, o)
    BY <1>3 DEF Submit, searchChannels
  <2>2. Asks(1, filter, o)
    BY <1>3, <2>1 DEF Submit, Asks, changeVars
  <2>9. CountTypes'
    BY <1>3, ChannelsAssumption DEF Submit, OnPage, Click, CountTypes
  <2> QED
    BY <2>2, <2>9
<1>4. ASSUME RefreshButton PROVE (\E q, g, o : Asks(q, g, o)) /\ CountTypes'
  <2>1. Asks(EventPage, filter, "none")
    BY <1>4 DEF RefreshButton, refresh, Asks, changeVars, EventPage
  <2>9. CountTypes'
    BY <1>4, ChannelsAssumption DEF RefreshButton, OnPage, Click, CountTypes
  <2> QED
    BY <2>1, <2>9
<1>5. ASSUME NEW r \in later, ResetRefresh(r) PROVE (\E q, g, o : Asks(q, g, o)) /\ CountTypes'
  <2>1. r.page \in Nat /\ r.filter \in FilterValues
    OBVIOUS
  <2>2. Asks(r.page, r.filter, "none")
    BY <1>5, <2>1 DEF ResetRefresh, refresh, Asks, changeVars
  <2>9. CountTypes'
    BY <1>5 DEF ResetRefresh, CountTypes
  <2> QED
    BY <2>2, <2>9
<1>6. change.page \in Nat /\ change.filter \in FilterValues /\ change.list \in Lists
  OBVIOUS
<1>7. ASSUME ChangeAnswered PROVE (\E q, g, o : Asks(q, g, o)) /\ CountTypes'
  <2>1. PICK o : o = IF change.kind = "rows" THEN "delete" ELSE "none"
    OBVIOUS
  <2>2. Asks(change.page, change.filter, o)
    BY <1>6, <1>7, <2>1 DEF ChangeAnswered, Asks, changeVars
  <2>9. CountTypes'
    BY <1>7 DEF ChangeAnswered, CountTypes
  <2> QED
    BY <2>2, <2>9
<1>8. ASSUME DeleteRefused PROVE (\E q, g, o : Asks(q, g, o)) /\ CountTypes'
  <2>1. Asks(change.page, change.filter, "none")
    BY <1>6, <1>8 DEF DeleteRefused, refresh, Asks, changeVars
  <2>9. CountTypes'
    BY <1>8, ChannelsAssumption DEF DeleteRefused, CountTypes
  <2> QED
    BY <2>1, <2>9
<1> QED
  BY <1>1, <1>2, <1>3, <1>4, <1>5, <1>7, <1>8

\* The steps on the list that do not ask keep its types.
LEMMA AnswerTypes ==
    ASSUME TypeOK, NEW g \in gets, ListAnswered(g) \/ ListRefused(g) \/ ListFails(g)
    PROVE  ListTypes' /\ ChangeTypes' /\ CountTypes' /\ UNCHANGED <<testVars, changeVars>>
<1> USE DEF TypeOK, ListTypes, ChangeTypes
<1>1. g \in Gets /\ calls \ Waiting(g) \subseteq Calls /\ gets \ {g} \subseteq Gets
  OBVIOUS
<1>2. ASSUME ListAnswered(g) PROVE ListTypes' /\ CountTypes'
  <2>1. PICK v \in g.since .. ver :
          channels' = IF \E c \in Waiting(g) : Current(c)
                      THEN [page |-> Served(g.page), filter |-> g.filter, key |-> g.key, ver |-> v]
                      ELSE channels
    BY <1>2 DEF ListAnswered
  <2>2. v \in Nat
    BY <1>1 DEF Gets
  <2>3. [page |-> Served(g.page), filter |-> g.filter, key |-> g.key, ver |-> v] \in Lists
    BY <1>1, <2>2 DEF Gets, Lists, Served
  <2>4. channels' \in Lists
    BY <2>1, <2>3
  <2>5. activePage' \in Nat
    BY <1>1, <1>2 DEF ListAnswered, Gets
  <2>6. /\ calls' = calls \ Waiting(g) /\ gets' = gets \ {g}
        /\ UNCHANGED <<filter, keyword, requestCounter, clicks, errors, expected>>
    BY <1>2 DEF ListAnswered
  <2> QED
    BY <1>1, <2>4, <2>5, <2>6 DEF CountTypes
<1>3. ASSUME ListRefused(g) \/ ListFails(g) PROVE ListTypes' /\ CountTypes'
  <2>1. /\ calls' = calls \ Waiting(g) /\ gets' = gets \ {g} /\ expected' = Unknown
        /\ errors < MaxErrors /\ errors' = errors + 1
        /\ UNCHANGED <<channels, activePage, filter, keyword, requestCounter, clicks>>
    BY <1>3 DEF ListRefused, ListFails
  <2> QED
    BY <1>1, <2>1, ListFacts, ChannelsAssumption DEF CountTypes
<1>4. UNCHANGED <<testVars, changeVars>>
  BY DEF ListAnswered, ListRefused, ListFails
<1> QED
  BY <1>2, <1>3, <1>4 DEF changeVars

\* The steps that ask keep the types.
LEMMA AsksTypes ==
    ASSUME TypeOK, NEW p, NEW f, NEW o, Asks(p, f, o)
    PROVE  ListTypes' /\ ChangeTypes'
<1> USE DEF TypeOK
<1>1. ver \in Nat
  BY DEF ChangeTypes
<1>2. /\ expected' \in Lists
      /\ requestCounter' \in Nat /\ calls' \subseteq Calls /\ gets' \subseteq Gets
  BY <1>1, AskTypes DEF Asks
<1>3. /\ channels' \in Lists /\ activePage' \in Nat /\ filter' \in FilterValues
      /\ UNCHANGED <<keyword, ver, manages>> /\ later' \subseteq later
      /\ change' = change \/ change' = NoChange
  BY DEF Asks
<1> QED
  BY <1>2, <1>3, ListFacts DEF ListTypes, ChangeTypes

\* The steps that only show an older list, or touch nothing but the form, the
\* timers, a change or the requests of manageChannel.
LEMMA OtherListTypes ==
    ASSUME TypeOK,
           \/ \E k \in Keywords : Type(k)
           \/ Reset \/ Change \/ Manage
           \/ ChangeCommits \/ ChangeFails \/ RowsRefused
           \/ \E l \in manages : ManageCommits(l) \/ ManageAnswered(l) \/ ManageFails(l)
    PROVE  ListTypes' /\ ChangeTypes' /\ CountTypes' /\ UNCHANGED testVars
<1> USE DEF TypeOK, ListTypes, ChangeTypes, CountTypes
<1>1. ASSUME NEW k \in Keywords, Type(k) PROVE ListTypes' /\ ChangeTypes' /\ CountTypes' /\ UNCHANGED testVars
  BY <1>1, ChannelsAssumption DEF Type, OnPage, Click, changeVars
<1>2. ASSUME Reset PROVE ListTypes' /\ ChangeTypes' /\ CountTypes' /\ UNCHANGED testVars
  <2>1. [page |-> activePage, filter |-> filter] \in [page : Nat, filter : FilterValues]
    OBVIOUS
  <2> QED
    BY <1>2, <2>1, ChannelsAssumption DEF Reset, OnPage, Click
<1>3. ASSUME Change PROVE ListTypes' /\ ChangeTypes' /\ CountTypes' /\ UNCHANGED testVars
  <2>1. PICK k \in {"edit", "row", "rows"} :
          change' = [state |-> "sent", kind |-> k, page |-> activePage, filter |-> filter,
                     list |-> IF k = "row" THEN channels ELSE NoList]
    BY <1>3 DEF Change
  <2>2. ChangeTypes'
    BY <1>3, <2>1, ListFacts DEF Change
  <2> QED
    BY <1>3, <2>2, ChannelsAssumption DEF Change, OnPage, Click
<1>4. ASSUME Manage PROVE ListTypes' /\ ChangeTypes' /\ CountTypes' /\ UNCHANGED testVars
  <2>1. PICK l : l = [list |-> channels, done |-> FALSE, click |-> clicks]
    OBVIOUS
  <2>2. l \in [list : Lists, done : BOOLEAN, click : Nat]
    BY <2>1, ChannelsAssumption
  <2>3. manages' = manages \cup {l}
    BY <1>4, <2>1 DEF Manage
  <2> QED
    BY <1>4, <2>2, <2>3, ChannelsAssumption DEF Manage, OnPage, Click, listVars
<1>5. ASSUME ChangeCommits PROVE ListTypes' /\ ChangeTypes' /\ CountTypes' /\ UNCHANGED testVars
  BY <1>5 DEF ChangeCommits, listVars
<1>6. ASSUME ChangeFails PROVE ListTypes' /\ ChangeTypes' /\ CountTypes' /\ UNCHANGED testVars
  BY <1>6, ListFacts, ChannelsAssumption DEF ChangeFails, listVars
<1>7. ASSUME RowsRefused PROVE ListTypes' /\ ChangeTypes' /\ CountTypes' /\ UNCHANGED testVars
  BY <1>7, ListFacts, ChannelsAssumption DEF RowsRefused
<1>8. ASSUME NEW l \in manages, ManageAnswered(l) PROVE ListTypes' /\ ChangeTypes' /\ CountTypes' /\ UNCHANGED testVars
  BY <1>8, ListFacts DEF ManageAnswered
<1>9. ASSUME NEW l \in manages, ManageFails(l) PROVE ListTypes' /\ ChangeTypes' /\ CountTypes' /\ UNCHANGED testVars
  BY <1>9, ChannelsAssumption DEF ManageFails, listVars
<1>10. ASSUME NEW l \in manages, ManageCommits(l) PROVE ListTypes' /\ ChangeTypes' /\ CountTypes' /\ UNCHANGED testVars
  <2>1. PICK d : d = [l EXCEPT !.done = TRUE]
    OBVIOUS
  <2>2. d \in [list : Lists, done : BOOLEAN, click : Nat]
    BY <2>1
  <2>3. manages' = (manages \ {l}) \cup {d} /\ ver' = ver + 1
    BY <1>10, <2>1 DEF ManageCommits
  <2> QED
    BY <1>10, <2>2, <2>3 DEF ManageCommits, listVars
<1> QED
  BY <1>1, <1>2, <1>3, <1>4, <1>5, <1>6, <1>7, <1>8, <1>9, <1>10

BatchType == [pc : {"none", "waiting", "delay", "ending", "over"}, next : Nat, snap : Lists]
TestType == [model : Tested, batch : Batches \cup {0}, batching : BOOLEAN, snap : Lists]

\* The tests of one round of batch b.
RoundTests(b, i, list) == [model : Round(i), batch : {b}, batching : {FALSE}, snap : {list}]

LEMMA RoundTestsAre ==
    ASSUME NEW b \in Batches, NEW i, NEW list \in Lists
    PROVE  /\ RoundTests(b, i, list) \subseteq TestType
           /\ Round(i) \subseteq Tested /\ Round(i) \subseteq Models
           /\ \A t \in RoundTests(b, i, list) : t.batch = b
           /\ \A m \in Round(i) : \E t \in RoundTests(b, i, list) : t.model = m /\ t.batch = b
<1>1. Round(i) \subseteq Tested /\ Round(i) \subseteq Models
  BY DEF Round, Tested
<1>2. ASSUME NEW m \in Round(i) PROVE \E t \in RoundTests(b, i, list) : t.model = m /\ t.batch = b
  <2>1. PICK no : no = FALSE
    OBVIOUS
  <2>2. PICK t : t = [model |-> m, batch |-> b, batching |-> no, snap |-> list]
    OBVIOUS
  <2>3. t \in [model : Round(i), batch : {b}, batching : {no}, snap : {list}]
    BY <2>2
  <2>4. t \in RoundTests(b, i, list)
    BY <2>1, <2>3, Zenon DEF RoundTests
  <2> QED
    BY <2>2, <2>4
<1>3. RoundTests(b, i, list) \subseteq TestType
  BY <1>1 DEF RoundTests, TestType
<1>4. \A t \in RoundTests(b, i, list) : t.batch = b
  BY DEF RoundTests
<1> QED
  BY <1>1, <1>2, <1>3, <1>4

LEMMA RoundTestsRecord ==
    ASSUME NEW b, NEW i, NEW list, NEW t \in RoundTests(b, i, list)
    PROVE  t.batching = FALSE
  BY DEF RoundTests

LEMMA AfterRoundIs ==
    ASSUME TestTypes, NEW b \in Batches
    PROVE  /\ AfterRound(b) \in BatchType
           /\ AfterRound(b).pc \in {"delay", "ending", "over"}
           /\ AfterRound(b).pc # "over" => AfterRound(b).next = batch[b].next
           /\ AfterRound(b).pc = "ending" => batch[b].next > NModels
<1>1. batch[b] \in BatchType
  BY DEF TestTypes, BatchType
<1>2. CASE shouldStop
  <2>1. AfterRound(b) = Over
    BY <1>2 DEF AfterRound
  <2>2. Over \in BatchType /\ Over.pc = "over"
    BY ListFacts DEF Over, BatchType
  <2> QED
    BY <2>1, <2>2
<1>3. CASE ~shouldStop
  <2>1. PICK x : x = IF batch[b].next <= NModels THEN "delay" ELSE "ending"
    OBVIOUS
  <2>2. AfterRound(b) = [batch[b] EXCEPT !.pc = x]
    BY <1>3, <2>1 DEF AfterRound
  <2>3. batch[b].next \in Nat /\ NModels \in Nat
    BY <1>1, ChannelsAssumption DEF BatchType
  <2>4. x \in {"delay", "ending"} /\ (x = "ending" => batch[b].next > NModels)
    BY <2>1, <2>3
  <2> QED
    BY <1>1, <2>2, <2>4 DEF BatchType
<1> QED
  BY <1>2, <1>3

\* A round is over.
LEMMA TestsDoneTypes ==
    ASSUME TestTypes, NEW m \in Tested, NEW T, TestsDone(m, T)
    PROVE  TestTypes'
<1> USE DEF TestTypes
<1>1. tests' = tests \ TestsOf(m) /\ testing' = testing \ {m} /\ results' \subseteq results \cup {m}
  BY DEF TestsDone
<1>2. PICK done : batch' = [b \in Batches |-> IF b \in done THEN AfterRound(b) ELSE batch[b]]
  BY DEF TestsDone
<1>3. batch' \in [Batches -> BatchType]
  BY <1>2, AfterRoundIs DEF BatchType
<1> QED
  BY <1>1, <1>3 DEF BatchType

\* The steps of the tests keep the types.
LEMMA TestStepTypes ==
    ASSUME TypeOK,
           \/ OpenModal \/ handleCloseModal
           \/ \E b \in Batches : batchTestModels(b) \/ Timers(b)
           \/ \E m \in Tested : testChannel(m) \/ TestAnswered(m) \/ TestFails(m)
    PROVE  ListTypes' /\ ChangeTypes' /\ TestTypes' /\ CountTypes'
<1> USE DEF TypeOK, CountTypes
<1>1. channels \in Lists /\ batch \in [Batches -> BatchType] /\ tests \subseteq TestType
  BY DEF ListTypes, TestTypes, BatchType, TestType
<1>2. ASSUME UNCHANGED <<listVars, expected>> PROVE ListTypes'
  BY <1>2 DEF listVars, ListTypes
<1>3. ASSUME UNCHANGED changeVars PROVE ChangeTypes'
  BY <1>3 DEF changeVars, ChangeTypes
<1>4. ASSUME OpenModal PROVE ListTypes' /\ ChangeTypes' /\ TestTypes' /\ CountTypes'
  BY <1>2, <1>3, <1>4 DEF OpenModal, TestTypes
<1>5. ASSUME handleCloseModal PROVE ListTypes' /\ ChangeTypes' /\ TestTypes' /\ CountTypes'
  BY <1>2, <1>3, <1>5 DEF handleCloseModal, TestTypes
<1>6. ASSUME NEW b \in Batches, batchTestModels(b) PROVE ListTypes' /\ ChangeTypes' /\ TestTypes' /\ CountTypes'
  <2>1. tests' = tests \cup RoundTests(b, 1, channels) /\ testing' = testing \cup Round(1)
    BY <1>6 DEF batchTestModels, RoundTests
  <2>2. batch' = [batch EXCEPT ![b] = [pc |-> "waiting", next |-> 1 + Limit, snap |-> channels]]
    BY <1>6 DEF batchTestModels
  <2>3. [pc |-> "waiting", next |-> 1 + Limit, snap |-> channels] \in BatchType
    BY <1>1, ChannelsAssumption DEF BatchType
  <2>4. results' \subseteq results
    BY <1>6 DEF batchTestModels
  <2>5. TestTypes'
    BY <1>1, <2>1, <2>2, <2>3, <2>4, RoundTestsAre DEF TestTypes, BatchType, TestType
  <2> QED
    BY <1>2, <1>3, <1>6, <2>5, ChannelsAssumption DEF batchTestModels, Click
<1>7. ASSUME NEW m \in Tested, testChannel(m) PROVE ListTypes' /\ ChangeTypes' /\ TestTypes' /\ CountTypes'
  <2>1. isBatchTesting \in BOOLEAN
    BY DEF FlagTypes
  <2>2. [model |-> m, batch |-> 0, batching |-> isBatchTesting, snap |-> channels] \in TestType
    BY <1>1, <2>1 DEF TestType
  <2>3. TestTypes'
    BY <1>1, <1>7, <2>2 DEF testChannel, TestTypes, TestType
  <2> QED
    BY <1>2, <1>3, <1>7, <2>3, ChannelsAssumption DEF testChannel, Click
<1>8. ASSUME NEW m \in Tested, TestAnswered(m) PROVE ListTypes' /\ ChangeTypes' /\ TestTypes' /\ CountTypes'
  <2>1. TestTypes'
    BY <1>8, TestsDoneTypes DEF TestAnswered
  <2>2. channels' \in Lists
    BY <1>1, <1>8 DEF TestAnswered, Recording, TestsOf, TestType
  <2>3. expected' \in Lists
    BY <1>8, ListFacts DEF TestAnswered, ListTypes
  <2>4. ListTypes'
    BY <1>8, <2>2, <2>3 DEF TestAnswered, ListTypes
  <2> QED
    BY <1>3, <1>8, <2>1, <2>4 DEF TestAnswered
<1>9. ASSUME NEW m \in Tested, TestFails(m) PROVE ListTypes' /\ ChangeTypes' /\ TestTypes' /\ CountTypes'
  <2>1. TestTypes'
    BY <1>9, TestsDoneTypes DEF TestFails
  <2> QED
    BY <1>2, <1>3, <1>9, <2>1, ChannelsAssumption DEF TestFails
<1>10. ASSUME NEW b \in Batches, BatchOver(b), UNCHANGED results PROVE TestTypes'
  <2>1. Over \in BatchType
    BY ListFacts DEF Over, BatchType
  <2> QED
    BY <1>1, <1>10, <2>1 DEF BatchOver, TestTypes, BatchType
<1>11. ASSUME NEW b \in Batches, NextRound(b), UNCHANGED results PROVE TestTypes'
  <2>1. /\ tests' = tests \cup RoundTests(b, batch[b].next, batch[b].snap)
        /\ testing' = testing \cup Round(batch[b].next)
    BY <1>11 DEF NextRound, RoundTests
  <2>2. batch[b].snap \in Lists /\ batch[b].next + Limit \in Nat
    BY <1>1, ChannelsAssumption DEF BatchType
  <2>3. batch' \in [Batches -> BatchType]
    BY <1>1, <1>11, <2>2 DEF NextRound, BatchType
  <2> QED
    BY <1>1, <1>11, <2>1, <2>2, <2>3, RoundTestsAre DEF TestTypes, BatchType, TestType
<1>12. ASSUME NEW b \in Batches, Timers(b) PROVE ListTypes' /\ ChangeTypes' /\ TestTypes' /\ CountTypes'
  <2>1. TestTypes'
    BY <1>10, <1>11, <1>12 DEF Timers, DelayOver, EndingOver
  <2> QED
    BY <1>2, <1>3, <1>12, <2>1 DEF Timers, DelayOver, EndingOver
<1> QED
  BY <1>4, <1>5, <1>6, <1>7, <1>8, <1>9, <1>12

\* The actions by what they do.
AskActions ==
    \/ \E p \in Pages : handlePageChange(p)
    \/ \E f \in Filters : ChangeFilter(f)
    \/ Submit \/ RefreshButton
    \/ \E r \in later : ResetRefresh(r)
    \/ ChangeAnswered \/ DeleteRefused

AnswerActions == \E g \in gets : ListAnswered(g) \/ ListRefused(g) \/ ListFails(g)

OtherActions ==
    \/ \E k \in Keywords : Type(k)
    \/ Reset \/ Change \/ Manage
    \/ ChangeCommits \/ ChangeFails \/ RowsRefused
    \/ \E l \in manages : ManageCommits(l) \/ ManageAnswered(l) \/ ManageFails(l)

TestActions ==
    \/ OpenModal \/ handleCloseModal
    \/ \E b \in Batches : batchTestModels(b) \/ Timers(b)
    \/ \E m \in Tested : testChannel(m) \/ TestAnswered(m) \/ TestFails(m)

LEMMA NextKinds == Next => AskActions \/ AnswerActions \/ OtherActions \/ TestActions
  BY Zenon DEF Next, User, AskActions, AnswerActions, OtherActions, TestActions, Tested

\* The marks are Boolean.
LEMMA FlagStep ==
    ASSUME TypeOK, Next
    PROVE  FlagTypes'
<1> USE DEF FlagTypes
<1>1. FlagTypes
  BY DEF TypeOK
<1>2. ASSUME UNCHANGED testVars PROVE modal' \in BOOLEAN /\ isBatchTesting' \in BOOLEAN /\ shouldStop' \in BOOLEAN
  BY <1>1, <1>2 DEF testVars
<1>3. ASSUME AskActions PROVE FlagTypes'
  <2>1. PICK p, f, o : Asks(p, f, o)
    BY <1>3, AskKinds DEF AskActions
  <2>2. /\ loading' = (loading \/ keyword = NoKeyword \/ o = "load")
        /\ searching' = (searching \/ ~(keyword = NoKeyword) \/ o = "search")
    BY <2>1, AskFlags DEF Asks
  <2>3. loading' \in BOOLEAN /\ searching' \in BOOLEAN
    BY <2>2, Zenon
  <2> QED
    BY <1>2, <2>1, <2>3 DEF Asks
<1>4. ASSUME AnswerActions PROVE FlagTypes'
  <2>1. PICK g \in gets : ListAnswered(g) \/ ListRefused(g) \/ ListFails(g)
    BY <1>4 DEF AnswerActions
  <2>2. loading' \in BOOLEAN /\ searching' \in BOOLEAN
    BY <1>1, <2>1, Zenon DEF ListAnswered, ListRefused, ListFails
  <2> QED
    BY <1>2, <2>1, <2>2, AnswerTypes
<1>5. ASSUME OtherActions PROVE FlagTypes'
  <2>1. loading' \in BOOLEAN /\ searching' \in BOOLEAN
    BY <1>1, <1>5, Zenon
       DEF OtherActions, Type, Reset, Change, Manage, ChangeCommits, ChangeFails, RowsRefused,
           ManageCommits, ManageAnswered, ManageFails, listVars
  <2> QED
    BY <1>2, <1>5, <2>1, OtherListTypes DEF OtherActions
<1>6. ASSUME TestActions PROVE FlagTypes'
  <2>1. UNCHANGED <<loading, searching>>
    BY <1>6
       DEF TestActions, OpenModal, handleCloseModal, batchTestModels, Timers, DelayOver, EndingOver,
           testChannel, TestAnswered, TestFails, listVars
  <2>2. ASSUME OpenModal \/ handleCloseModal
        PROVE  modal' \in BOOLEAN /\ isBatchTesting' \in BOOLEAN /\ shouldStop' \in BOOLEAN
    BY <1>1, <2>2, Zenon DEF OpenModal, handleCloseModal
  <2>3. ASSUME NEW b \in Batches, batchTestModels(b)
        PROVE  modal' \in BOOLEAN /\ isBatchTesting' \in BOOLEAN /\ shouldStop' \in BOOLEAN
    BY <1>1, <2>3, Zenon DEF batchTestModels
  <2>4. ASSUME NEW b \in Batches, Timers(b)
        PROVE  modal' \in BOOLEAN /\ isBatchTesting' \in BOOLEAN /\ shouldStop' \in BOOLEAN
    BY <1>1, <2>4, Zenon DEF Timers, DelayOver, EndingOver, BatchOver, NextRound
  <2>5. ASSUME NEW m \in Tested, testChannel(m) \/ TestAnswered(m) \/ TestFails(m)
        PROVE  modal' \in BOOLEAN /\ isBatchTesting' \in BOOLEAN /\ shouldStop' \in BOOLEAN
    BY <1>1, <2>5, Zenon DEF testChannel, TestAnswered, TestFails, TestsDone
  <2> QED
    BY <1>1, <1>6, <2>1, <2>2, <2>3, <2>4, <2>5 DEF TestActions
<1> QED
  BY <1>3, <1>4, <1>5, <1>6, NextKinds

LEMMA TypeStep == TypeOK /\ [Next]_vars => TypeOK'
<1> SUFFICES ASSUME TypeOK, [Next]_vars PROVE TypeOK'
  OBVIOUS
<1>1. ASSUME UNCHANGED vars PROVE TypeOK'
  BY <1>1 DEF vars, listVars, changeVars, testVars, TypeOK, FlagTypes, ListTypes, ChangeTypes,
              TestTypes, CountTypes
<1>2. ASSUME Next PROVE TypeOK'
  <2>1. FlagTypes'
    BY <1>2, FlagStep
  <2>2. ASSUME UNCHANGED testVars PROVE TestTypes'
    BY <2>2 DEF testVars, TestTypes, TypeOK
  <2>3. ASSUME AskActions PROVE ListTypes' /\ ChangeTypes' /\ TestTypes' /\ CountTypes'
    <3>1. PICK p, f, o : Asks(p, f, o)
      BY <2>3, AskKinds DEF AskActions
    <3>2. CountTypes'
      BY <2>3, AskKinds DEF AskActions
    <3> QED
      BY <2>2, <3>1, <3>2, AsksTypes DEF Asks
  <2>4. ASSUME AnswerActions PROVE ListTypes' /\ ChangeTypes' /\ TestTypes' /\ CountTypes'
    BY <2>2, <2>4, AnswerTypes DEF AnswerActions
  <2>5. ASSUME OtherActions PROVE ListTypes' /\ ChangeTypes' /\ TestTypes' /\ CountTypes'
    BY <2>2, <2>5, OtherListTypes DEF OtherActions
  <2>6. ASSUME TestActions PROVE ListTypes' /\ ChangeTypes' /\ TestTypes' /\ CountTypes'
    BY <2>6, TestStepTypes DEF TestActions
  <2> QED
    BY <1>2, <2>1, <2>3, <2>4, <2>5, <2>6, NextKinds DEF TypeOK
<1> QED
  BY <1>1, <1>2

LEMMA TypeInit == Init => TypeOK
<1> SUFFICES ASSUME Init PROVE TypeOK
  OBVIOUS
<1> USE DEF Init
<1>1. FlagTypes
  BY DEF FlagTypes
<1>2. "all" \in FilterValues /\ NoKeyword \in Keywords
  BY ChannelsAssumption DEF FilterValues
<1>3. ListTypes
  BY <1>2, ListFacts DEF ListTypes, Lists, Calls, Gets
<1>4. ChangeTypes
  BY ListFacts DEF ChangeTypes
<1>5. TestTypes
  BY ListFacts DEF TestTypes
<1>6. CountTypes
  BY ChannelsAssumption DEF CountTypes
<1> QED
  BY <1>1, <1>3, <1>4, <1>5, <1>6 DEF TypeOK

\* The state of the page keeps its types, whatever order its handlers run in.
THEOREM PageTypes == Spec => []TypeOK
  BY TypeInit, TypeStep, PTL DEF Spec

-----------------------------------------------------------------------------
(* The marks *)

TestMark == testing \subseteq {t.model : t \in tests}

Searches(c) == c.id = 0 \/ c.outer = "search"
SearchMark == searching => \E c \in calls : Searches(c)

Loads(c) == c.id = requestCounter \/ c.outer \in {"load", "delete"}
LoadMark == loading => errors > 0 \/ change.kind = "rows" \/ \E c \in calls : Loads(c)

LEMMA MarksAre == Marks <=> TestMark /\ SearchMark /\ LoadMark /\ IdleChange
  BY DEF Marks, NoStuckSpinner, TestMark, SearchMark, LoadMark, Searches, Loads

\* A model that is marked is being tested.
LEMMA TestMarkStep ==
    ASSUME TypeOK, TestMark, Next
    PROVE  TestMark'
<1> USE DEF TestMark
<1>1. ASSUME UNCHANGED testVars PROVE TestMark'
  BY <1>1 DEF testVars
<1>2. ASSUME NEW b \in Batches, NEW i, NEW list \in Lists,
             tests' = tests \cup RoundTests(b, i, list), testing' \subseteq testing \cup Round(i)
      PROVE  TestMark'
  <2>1. \A m \in Round(i) : \E t \in RoundTests(b, i, list) : t.model = m
    BY RoundTestsAre
  <2>2. \A m \in testing' : \E t \in tests' : t.model = m
    BY <1>2, <2>1
  <2> QED
    BY <2>2
<1>3. ASSUME NEW m \in Tested, NEW T, TestsDone(m, T) PROVE TestMark'
  BY <1>3 DEF TestsDone, TestsOf
<1>4. ASSUME OpenModal \/ handleCloseModal PROVE TestMark'
  BY <1>4 DEF OpenModal, handleCloseModal
<1>5. ASSUME NEW b \in Batches, batchTestModels(b) PROVE TestMark'
  BY <1>2, <1>5 DEF batchTestModels, RoundTests, TypeOK, ListTypes
<1>6. ASSUME NEW b \in Batches, Timers(b) PROVE TestMark'
  <2>1. ASSUME NextRound(b) PROVE TestMark'
    <3>1. batch[b].snap \in Lists
      BY DEF TypeOK, TestTypes
    <3> QED
      BY <1>2, <2>1, <3>1 DEF NextRound, RoundTests
  <2>2. ASSUME BatchOver(b) PROVE TestMark'
    BY <2>2 DEF BatchOver
  <2> QED
    BY <1>6, <2>1, <2>2 DEF Timers, DelayOver, EndingOver
<1>7. ASSUME NEW m \in Tested, testChannel(m) PROVE TestMark'
  <2>1. PICK t : t = [model |-> m, batch |-> 0, batching |-> isBatchTesting, snap |-> channels]
    OBVIOUS
  <2>2. tests' = tests \cup {t} /\ testing' = testing \cup {m}
    BY <1>7, <2>1 DEF testChannel
  <2>3. t.model = m
    BY <2>1
  <2> QED
    BY <2>2, <2>3
<1>8. ASSUME NEW m \in Tested, TestAnswered(m) \/ TestFails(m) PROVE TestMark'
  BY <1>3, <1>8 DEF TestAnswered, TestFails
<1>9. ASSUME AskActions PROVE UNCHANGED testVars
  BY <1>9, AskKinds DEF AskActions, Asks
<1>10. ASSUME AnswerActions \/ OtherActions PROVE UNCHANGED testVars
  BY <1>10, AnswerTypes, OtherListTypes DEF AnswerActions, OtherActions
<1> QED
  BY <1>1, <1>4, <1>5, <1>6, <1>7, <1>8, <1>9, <1>10, NextKinds DEF TestActions

\* The call that a step asks.
LEMMA AskedCallIs ==
    ASSUME TypeOK, NEW p, NEW f, NEW o, Asks(p, f, o)
    PROVE  \E c \in calls' :
             /\ c = AskedCall(p, f, o) /\ calls' = calls \cup {c}
             /\ c.page = p /\ c.filter = f /\ c.key = keyword /\ c.outer = o
             /\ c.id = IF keyword = NoKeyword THEN requestCounter + 1 ELSE 0
<1>1. PICK c : c = AskedCall(p, f, o)
  OBVIOUS
<1>2. /\ c.page = p /\ c.filter = f /\ c.key = keyword /\ c.outer = o
      /\ c.id = IF keyword = NoKeyword THEN requestCounter + 1 ELSE 0
  BY <1>1 DEF AskedCall
<1>3. calls' = calls \cup {c}
  BY <1>1, AskParts DEF Asks
<1> QED
  BY <1>1, <1>2, <1>3

LEMMA SearchMarkStep ==
    ASSUME TypeOK, SearchMark, Next
    PROVE  SearchMark'
<1> USE DEF SearchMark
<1>1. ASSUME UNCHANGED <<searching, calls>> PROVE SearchMark'
  BY <1>1 DEF Searches
<1>2. ASSUME AskActions PROVE SearchMark'
  <2>1. PICK p, f, o : Asks(p, f, o)
    BY <1>2, AskKinds DEF AskActions
  <2>2. PICK c \in calls' : /\ calls' = calls \cup {c} /\ c.outer = o
                            /\ c.id = IF keyword = NoKeyword THEN requestCounter + 1 ELSE 0
    BY <2>1, AskedCallIs
  <2>3. searching' = (searching \/ ~(keyword = NoKeyword) \/ o = "search")
    BY <2>1, AskFlags DEF Asks
  <2>4. CASE searching
    BY <2>2, <2>4 DEF Searches
  <2>5. CASE keyword # NoKeyword \/ o = "search"
    BY <2>2, <2>5 DEF Searches
  <2> QED
    BY <2>3, <2>4, <2>5, Zenon
<1>3. ASSUME AnswerActions PROVE SearchMark'
  <2>1. PICK g \in gets : ListAnswered(g) \/ ListRefused(g) \/ ListFails(g)
    BY <1>3 DEF AnswerActions
  <2>2. /\ searching' = (searching /\ ~StopsSearching(Waiting(g)))
        /\ calls' = calls \ Waiting(g)
    BY <2>1, Zenon DEF ListAnswered, ListRefused, ListFails
  <2>3. ASSUME searching' PROVE searching /\ ~StopsSearching(Waiting(g))
    BY <2>2, <2>3, Zenon
  <2>4. ASSUME searching' PROVE \E c \in calls' : Searches(c)
    BY <2>2, <2>3, <2>4 DEF StopsSearching, Searches
  <2> QED
    BY <2>4 DEF Searches
<1>4. ASSUME OtherActions PROVE UNCHANGED <<searching, calls>>
  BY <1>4
     DEF OtherActions, Type, Reset, Change, Manage, ChangeCommits, ChangeFails, RowsRefused,
         ManageCommits, ManageAnswered, ManageFails, listVars
<1>5. ASSUME TestActions PROVE UNCHANGED <<searching, calls>>
  BY <1>5
     DEF TestActions, OpenModal, handleCloseModal, batchTestModels, Timers, DelayOver, EndingOver,
         testChannel, TestAnswered, TestFails, listVars
<1> QED
  BY <1>1, <1>2, <1>3, <1>4, <1>5, NextKinds

\* The tests leave the list, its calls and the changes alone.
LEMMA TestsApart ==
    ASSUME CountTypes, TestActions
    PROVE  /\ UNCHANGED <<loading, searching, requestCounter, calls, gets, ver, change>>
           /\ errors' \in {errors, errors + 1}
<1>1. UNCHANGED <<loading, searching, requestCounter, calls, gets, ver, change>>
  BY DEF TestActions, OpenModal, handleCloseModal, batchTestModels, Timers, DelayOver, EndingOver,
         testChannel, TestAnswered, TestFails, listVars, changeVars
<1>2. errors' \in {errors, errors + 1}
  BY DEF TestActions, OpenModal, handleCloseModal, batchTestModels, Timers, DelayOver, EndingOver,
         testChannel, TestAnswered, TestFails
<1> QED
  BY <1>1, <1>2

LEMMA LoadMarkStep ==
    ASSUME TypeOK, LoadMark, IdleChange, Next
    PROVE  LoadMark'
<1>1. errors \in Nat /\ requestCounter \in Nat
  BY ChannelsAssumption DEF TypeOK, CountTypes, ListTypes
<1>2. ASSUME UNCHANGED <<loading, requestCounter, calls, change>>, errors' \in {errors, errors + 1}
      PROVE  LoadMark'
  BY <1>1, <1>2 DEF LoadMark, Loads
<1>3. ASSUME errors' = errors + 1 PROVE LoadMark'
  BY <1>1, <1>3 DEF LoadMark
<1>4. ASSUME AskActions PROVE LoadMark'
  <2>1. PICK p, f, o : Asks(p, f, o)
    BY <1>4, AskKinds DEF AskActions
  <2>2. PICK c \in calls' : /\ calls' = calls \cup {c} /\ c.outer = o
                            /\ c.id = IF keyword = NoKeyword THEN requestCounter + 1 ELSE 0
    BY <2>1, AskedCallIs
  <2>3. loading' = (loading \/ keyword = NoKeyword \/ o = "load")
    BY <2>1, AskFlags DEF Asks
  <2>4. requestCounter' = IF keyword = NoKeyword THEN requestCounter + 1 ELSE requestCounter
    BY <2>1, AskParts DEF Asks
  <2>5. ASSUME keyword = NoKeyword \/ o \in {"load", "delete"} PROVE \E d \in calls' : Loads(d)'
    BY <2>2, <2>4, <2>5 DEF Loads
  <2>6. ASSUME keyword # NoKeyword, o \notin {"load", "delete"}, loading
        PROVE  errors' > 0 \/ change'.kind = "rows" \/ \E d \in calls' : Loads(d)'
    <3>1. requestCounter' = requestCounter /\ calls \subseteq calls'
      BY <2>2, <2>4, <2>6
    <3>2. errors' \in {errors, errors + 1} /\ (change' = change \/ change.kind # "rows")
      BY <2>1, <2>6 DEF Asks
    <3> QED
      BY <1>1, <2>6, <3>1, <3>2 DEF LoadMark, Loads
  <2>7. loading' => loading \/ keyword = NoKeyword \/ o = "load"
    BY <2>3, Zenon
  <2> QED
    BY <2>5, <2>6, <2>7 DEF LoadMark
<1>5. ASSUME AnswerActions PROVE LoadMark'
  <2>1. PICK g \in gets : ListAnswered(g) \/ ListRefused(g) \/ ListFails(g)
    BY <1>5 DEF AnswerActions
  <2>2. CASE ListAnswered(g)
    <3>1. /\ loading' = (loading /\ ~StopsLoading(Waiting(g))) /\ calls' = calls \ Waiting(g)
          /\ UNCHANGED <<requestCounter, errors, change>>
      BY <2>2, Zenon DEF ListAnswered, changeVars
    <3>2. ASSUME loading' PROVE loading /\ ~StopsLoading(Waiting(g))
      BY <3>1, <3>2, Zenon
    <3> QED
      BY <3>1, <3>2 DEF StopsLoading, LoadMark, Loads
  <2>3. CASE ListRefused(g) \/ ListFails(g)
    BY <1>3, <2>3 DEF ListRefused, ListFails
  <2> QED
    BY <2>1, <2>2, <2>3
<1>6. ASSUME OtherActions PROVE LoadMark'
  <2>1. ASSUME \/ \E k \in Keywords : Type(k)
               \/ Reset \/ Manage \/ \E l \in manages : ManageCommits(l) \/ ManageAnswered(l) \/ ManageFails(l)
        PROVE  LoadMark'
    BY <1>2, <2>1 DEF Type, Reset, Manage, ManageCommits, ManageAnswered, ManageFails, listVars, changeVars
  <2>2. ASSUME Change PROVE LoadMark'
    <3>1. PICK k \in {"edit", "row", "rows"} :
            /\ change' = [state |-> "sent", kind |-> k, page |-> activePage, filter |-> filter,
                          list |-> IF k = "row" THEN channels ELSE NoList]
            /\ loading' = (loading \/ k = "rows")
      BY <2>2, Zenon DEF Change
    <3>2. change'.kind = k
      BY <3>1
    <3>3. change.kind # "rows" /\ UNCHANGED <<requestCounter, calls, errors>>
      BY <2>2 DEF Change, IdleChange
    <3>4. loading' => loading \/ k = "rows"
      BY <3>1, Zenon
    <3> QED
      BY <3>2, <3>3, <3>4 DEF LoadMark, Loads
  <2>3. ASSUME ChangeCommits PROVE LoadMark'
    <3>1. change'.kind = change.kind /\ UNCHANGED <<loading, requestCounter, calls, errors>>
      BY <2>3 DEF ChangeCommits, listVars, TypeOK, ChangeTypes
    <3> QED
      BY <3>1 DEF LoadMark, Loads
  <2>4. ASSUME ChangeFails \/ RowsRefused PROVE LoadMark'
    BY <1>3, <2>4 DEF ChangeFails, RowsRefused
  <2> QED
    BY <1>6, <2>1, <2>2, <2>3, <2>4 DEF OtherActions
<1>7. ASSUME TestActions PROVE LoadMark'
  BY <1>2, <1>7, TestsApart DEF TypeOK
<1> QED
  BY <1>4, <1>5, <1>6, <1>7, NextKinds

LEMMA IdleChangeStep ==
    ASSUME TypeOK, IdleChange, Next
    PROVE  IdleChange'
<1>1. ASSUME UNCHANGED change \/ change' = NoChange PROVE IdleChange'
  BY <1>1, ListFacts DEF IdleChange
<1>2. ASSUME AskActions PROVE IdleChange'
  BY <1>1, <1>2, AskKinds DEF AskActions, Asks
<1>3. ASSUME AnswerActions PROVE IdleChange'
  BY <1>1, <1>3, AnswerTypes DEF AnswerActions, changeVars
<1>4. ASSUME OtherActions PROVE IdleChange'
  <2>1. ASSUME Change \/ ChangeCommits PROVE change'.state # "none"
    BY <2>1 DEF Change, ChangeCommits, TypeOK, ChangeTypes
  <2> QED
    BY <1>1, <1>4, <2>1
       DEF OtherActions, Type, Reset, Manage, ChangeFails, RowsRefused, ManageCommits, ManageAnswered,
           ManageFails, changeVars, IdleChange
<1>5. ASSUME TestActions PROVE IdleChange'
  BY <1>1, <1>5, TestsApart DEF TypeOK
<1> QED
  BY <1>2, <1>3, <1>4, <1>5, NextKinds

LEMMA MarksInit == Init => Marks
<1> SUFFICES ASSUME Init PROVE Marks
  OBVIOUS
<1>1. TestMark /\ SearchMark
  BY DEF Init, TestMark, SearchMark
<1>2. LoadMark
  BY DEF Init, LoadMark, Loads
<1>3. IdleChange
  BY ListFacts DEF Init, IdleChange
<1> QED
  BY <1>1, <1>2, <1>3, MarksAre

LEMMA MarksStep == TypeOK /\ Marks /\ [Next]_vars => Marks'
<1> SUFFICES ASSUME TypeOK, Marks, [Next]_vars PROVE Marks'
  OBVIOUS
<1>1. TestMark /\ SearchMark /\ LoadMark /\ IdleChange
  BY MarksAre
<1>2. ASSUME Next PROVE TestMark' /\ SearchMark' /\ LoadMark' /\ IdleChange'
  BY <1>1, <1>2, TestMarkStep, SearchMarkStep, LoadMarkStep, IdleChangeStep
<1>3. ASSUME UNCHANGED vars PROVE TestMark' /\ SearchMark' /\ LoadMark' /\ IdleChange'
  BY <1>1, <1>3
     DEF vars, listVars, changeVars, testVars, TestMark, SearchMark, LoadMark, IdleChange, Searches, Loads
<1>4. TestMark' /\ SearchMark' /\ LoadMark' /\ IdleChange'
  BY <1>2, <1>3
<1> QED
  BY <1>4 DEF Marks, NoStuckSpinner, TestMark, SearchMark, LoadMark, Searches, Loads

\* No mark turns for ever: a marked model is being tested, searching has a
\* search under way, and loading a load or a deletion unless a request failed.
THEOREM MarksAreHonest == Spec => []NoStuckSpinner
<1>1. TypeOK /\ Marks /\ [Next]_vars => (TypeOK /\ Marks)'
  BY TypeStep, MarksStep
<1>2. Init => TypeOK /\ Marks
  BY TypeInit, MarksInit
<1>3. Marks => NoStuckSpinner
  BY DEF Marks
<1> QED
  BY <1>1, <1>2, <1>3, PTL DEF Spec

-----------------------------------------------------------------------------
(* The list *)

\* What a query that is not doubtful comes to: its call is the only one that
\* will be shown, and no answer it waits for is older than the query.
LEMMA AskQuery ==
    ASSUME TypeOK, Counted, NEW p, NEW f, NEW o, Asks(p, f, o)
    PROVE  Counted' /\ Query'
<1>1. PICK c \in calls' :
        /\ calls' = calls \cup {c}
        /\ c.page = p /\ c.filter = f /\ c.key = keyword
        /\ c.id = IF keyword = NoKeyword THEN requestCounter + 1 ELSE 0
  BY AskedCallIs
<1>2. /\ requestCounter' = IF keyword = NoKeyword THEN requestCounter + 1 ELSE requestCounter
      /\ gets' = IF Shares(p, f) THEN gets ELSE gets \cup {AskedGet(p, f)}
      /\ expected' = IF Doubtful(p, f) THEN Unknown ELSE AskedList(p, f)
      /\ UNCHANGED <<keyword, ver>>
  BY AskParts DEF Asks
<1>3. /\ requestCounter \in Nat /\ ver \in Nat
      /\ \A d \in calls : d.id \in Nat /\ d.id <= requestCounter
      /\ \A g \in gets : g.since \in Nat
  BY DEF TypeOK, ListTypes, ChangeTypes, Calls, Gets, Counted
<1>4. /\ AskedList(p, f).page = Served(p) /\ AskedList(p, f).filter = f
      /\ AskedList(p, f).key = keyword /\ AskedList(p, f).ver = ver
  BY DEF AskedList
<1>5. AskedGet(p, f).since = ver
  BY DEF AskedGet
<1>6. Counted'
  <2>1. \A d \in calls' : d.id <= requestCounter'
    BY <1>1, <1>2, <1>3
  <2>2. expected'.ver <= ver'
    BY <1>2, <1>3, <1>4, ListFacts
  <2> QED
    BY <2>1, <2>2 DEF Counted
<1>7. ASSUME expected' # Unknown
      PROVE  /\ \A d \in calls' : Current(d)' => d = c
             /\ Current(c)' /\ WillBeRight(c)'
  <2>1. ~Doubtful(p, f) /\ expected' = AskedList(p, f)
    BY <1>2, <1>7
  <2>2. \A d \in calls : keyword = NoKeyword /\ d.id # 0
    BY <2>1 DEF Doubtful
  <2>3. \A d \in calls' : Current(d)' => d = c
    BY <1>1, <1>2, <1>3, <2>2 DEF Current
  <2>4. Current(c)'
    BY <1>1, <1>2 DEF Current
  <2>5. ASSUME NEW g \in gets', g.page = p, g.filter = f, g.key = keyword PROVE g.since >= ver
    <3>1. CASE g \in gets
      BY <1>3, <2>1, <2>5, <3>1 DEF Doubtful
    <3>2. CASE g = AskedGet(p, f)
      BY <1>3, <1>5, <3>2
    <3> QED
      BY <1>2, <3>1, <3>2
  <2>6. \A g \in gets' : c \in Waiting(g)' => g.since >= expected'.ver
    BY <1>1, <1>4, <2>1, <2>5 DEF Waiting
  <2>7. WillBeRight(c)'
    BY <1>1, <1>4, <2>1, <2>6 DEF WillBeRight
  <2> QED
    BY <2>3, <2>4, <2>7
<1>8. Query'
  BY <1>7 DEF Query
<1> QED
  BY <1>6, <1>8

\* An answer is shown only if a call waits for it that is not overtaken.
LEMMA AnswerQuery ==
    ASSUME TypeOK, Counted, Query, NEW g \in gets, ListAnswered(g) \/ ListRefused(g) \/ ListFails(g)
    PROVE  Counted' /\ Query'
<1>1. calls' = calls \ Waiting(g) /\ gets' = gets \ {g} /\ UNCHANGED <<requestCounter, ver>>
  BY DEF ListAnswered, ListRefused, ListFails, changeVars
<1>2. ASSUME ListRefused(g) \/ ListFails(g) PROVE Counted' /\ Query'
  <2>1. expected' = Unknown /\ ver \in Nat
    BY <1>2 DEF ListRefused, ListFails, TypeOK, ChangeTypes
  <2> QED
    BY <1>1, <2>1, ListFacts DEF Counted, Query
<1>3. ASSUME ListAnswered(g) PROVE Counted' /\ Query'
  <2>1. expected' = expected
    BY <1>3 DEF ListAnswered
  <2>2. Counted'
    BY <1>1, <2>1 DEF Counted
  <2>3. \A c \in calls : Current(c)' <=> Current(c)
    BY <1>1 DEF Current
  <2>4. ASSUME NEW c \in calls', WillBeRight(c) PROVE WillBeRight(c)'
    BY <1>1, <2>1, <2>4 DEF WillBeRight, Waiting
  <2>5. ASSUME expected # Unknown, \A c \in calls' : ~Current(c) PROVE Right'
    <3>1. PICK v \in g.since .. ver :
            channels' = IF \E c \in Waiting(g) : Current(c)
                        THEN [page |-> Served(g.page), filter |-> g.filter, key |-> g.key, ver |-> v]
                        ELSE channels
      BY <1>3 DEF ListAnswered
    <3>2. g.since \in Nat /\ ver \in Nat /\ expected.ver \in Nat
      BY DEF TypeOK, ListTypes, ChangeTypes, Gets, Lists
    <3>3. ASSUME NEW c \in Waiting(g), Current(c) PROVE Right'
      <4>1. c \in calls /\ c.page = g.page /\ c.filter = g.filter /\ c.key = g.key
        BY DEF Waiting
      <4>2. WillBeRight(c)
        BY <2>5, <3>3, <4>1 DEF Query
      <4>3. /\ channels'.page = Served(g.page) /\ channels'.filter = g.filter
            /\ channels'.key = g.key /\ channels'.ver = v
        BY <3>1, <3>3
      <4>4. g.since >= expected.ver
        BY <3>3, <4>2 DEF WillBeRight
      <4>5. channels'.ver >= expected.ver
        BY <3>2, <4>3, <4>4
      <4>6. /\ channels'.page = expected.page /\ channels'.filter = expected.filter
            /\ channels'.key = expected.key
        BY <4>1, <4>2, <4>3, Zenon DEF WillBeRight
      <4> QED
        BY <2>1, <4>5, <4>6 DEF Right
    <3>4. ASSUME \A c \in Waiting(g) : ~Current(c) PROVE Right'
      <4>1. \A c \in calls : ~Current(c)
        BY <1>1, <2>5, <3>4
      <4>2. Right
        BY <2>5, <4>1 DEF Query
      <4> QED
        BY <2>1, <3>1, <3>4, <4>2 DEF Right
    <3> QED
      BY <3>3, <3>4
  <2>6. Query'
    BY <1>1, <2>1, <2>3, <2>4, <2>5 DEF Query
  <2> QED
    BY <2>2, <2>6
<1> QED
  BY <1>2, <1>3

\* The other steps leave the list and its calls alone, or make it unknown.
LEMMA ApartQuery ==
    ASSUME TypeOK, Counted, Query, UNCHANGED <<requestCounter, calls, gets>>,
           ver' \in {ver, ver + 1}, UNCHANGED <<channels, expected>> \/ expected' = Unknown
    PROVE  Counted' /\ Query'
<1>1. ver \in Nat /\ expected.ver \in Nat
  BY DEF TypeOK, ListTypes, ChangeTypes, Lists
<1>2. Counted'
  BY <1>1, ListFacts DEF Counted
<1>3. ASSUME UNCHANGED <<channels, expected>> PROVE Query'
  BY <1>3 DEF Query, Current, WillBeRight, Waiting, Right
<1>4. ASSUME expected' = Unknown PROVE Query'
  BY <1>4 DEF Query
<1> QED
  BY <1>2, <1>3, <1>4

LEMMA QueryStep == TypeOK /\ Counted /\ Query /\ [Next]_vars => Counted' /\ Query'
<1> SUFFICES ASSUME TypeOK, Counted, Query, [Next]_vars PROVE Counted' /\ Query'
  OBVIOUS
<1>1. ASSUME UNCHANGED vars PROVE Counted' /\ Query'
  BY <1>1, ApartQuery DEF vars, listVars, changeVars
<1>2. ASSUME AskActions PROVE Counted' /\ Query'
  BY <1>2, AskKinds, AskQuery DEF AskActions
<1>3. ASSUME AnswerActions PROVE Counted' /\ Query'
  BY <1>3, AnswerQuery DEF AnswerActions
<1>4. ASSUME OtherActions PROVE Counted' /\ Query'
  <2>1. UNCHANGED <<requestCounter, calls, gets>> /\ ver' \in {ver, ver + 1}
    BY <1>4
       DEF OtherActions, Type, Reset, Change, Manage, ChangeCommits, ChangeFails, RowsRefused,
           ManageCommits, ManageAnswered, ManageFails, listVars, changeVars
  <2>2. UNCHANGED <<channels, expected>> \/ expected' = Unknown
    BY <1>4
       DEF OtherActions, Type, Reset, Change, Manage, ChangeCommits, ChangeFails, RowsRefused,
           ManageCommits, ManageAnswered, ManageFails, listVars
  <2> QED
    BY <2>1, <2>2, ApartQuery
<1>5. ASSUME TestActions PROVE Counted' /\ Query'
  <2>1. UNCHANGED <<channels, expected>> \/ expected' = Unknown
    BY <1>5
       DEF TestActions, OpenModal, handleCloseModal, batchTestModels, Timers, DelayOver, EndingOver,
           testChannel, TestAnswered, TestFails, listVars
  <2> QED
    BY <1>5, <2>1, TestsApart, ApartQuery DEF TypeOK
<1> QED
  BY <1>1, <1>2, <1>3, <1>4, <1>5, NextKinds

LEMMA QueryInit == Init => Counted /\ Query
<1> SUFFICES ASSUME Init PROVE Counted /\ Query
  OBVIOUS
<1>1. PICK c : c = [page |-> 1, filter |-> "all", key |-> NoKeyword, id |-> 1, outer |-> "none"]
  OBVIOUS
<1>2. calls = {c} /\ c.page = 1 /\ c.filter = "all" /\ c.key = NoKeyword /\ c.id = 1
  BY <1>1 DEF Init
<1>3. PICK g : g = [page |-> 1, filter |-> "all", key |-> NoKeyword, since |-> 0]
  OBVIOUS
<1>4. gets = {g} /\ g.since = 0
  BY <1>3 DEF Init
<1>5. /\ expected.page = 1 /\ expected.filter = "all" /\ expected.key = NoKeyword
      /\ expected.ver = 0 /\ ver = 0 /\ requestCounter = 1
  BY DEF Init
<1>6. Counted
  BY <1>2, <1>5 DEF Counted
<1>7. Current(c) /\ WillBeRight(c)
  BY <1>2, <1>4, <1>5 DEF Current, WillBeRight, Served, EventPage
<1> QED
  BY <1>2, <1>6, <1>7 DEF Query

\* The newest query wins: when nothing is under way the list answers the last
\* query and has every change known when it was asked, in whatever order the
\* answers came, unless the outcome is open (expected is Unknown).
THEOREM NewestQueryWins == Spec => []NewestWins
<1>1. /\ Init => TypeOK /\ Counted /\ Query
      /\ TypeOK /\ Counted /\ Query /\ [Next]_vars => (TypeOK /\ Counted /\ Query)'
  BY TypeInit, QueryInit, TypeStep, QueryStep
<1>2. Query => NewestWins
  BY DEF Query, NewestWins, Quiet, Right
<1> QED
  BY <1>1, <1>2, PTL DEF Spec

-----------------------------------------------------------------------------
(* The batches *)

LEMMA BatchFacts ==
    ASSUME TestTypes
    PROVE  /\ Batches \subseteq Nat /\ 0 \notin Batches
           /\ Models \subseteq Nat /\ NModels \in Nat /\ Limit \in Nat /\ Limit > 0
           /\ \A b \in Batches : batch[b] \in BatchType /\ batch[b].next \in Nat
<1>1. \A b \in Batches : batch[b] \in BatchType
  BY DEF TestTypes, BatchType
<1>2. \A b \in Batches : batch[b].next \in Nat
  BY <1>1 DEF BatchType
<1> QED
  BY <1>1, <1>2, ChannelsAssumption DEF Batches, Models

LEMMA KeepCoverage ==
    ASSUME Recorded, Coverage, UNCHANGED <<results, tests, batch>>
    PROVE  Recorded' /\ Coverage'
  BY DEF Recorded, Coverage, InTurn, Running, Latest, Heard

\* A single test belongs to no batch.
LEMMA SingleCoverage ==
    ASSUME TypeOK, Recorded, Coverage, NEW m \in Tested, testChannel(m)
    PROVE  Recorded' /\ Coverage'
<1>1. PICK t : t = [model |-> m, batch |-> 0, batching |-> isBatchTesting, snap |-> channels]
  OBVIOUS
<1>2. tests' = tests \cup {t} /\ UNCHANGED <<results, batch>>
  BY <1>1 DEF testChannel
<1>3. t.batch = 0 /\ 0 \notin Batches
  BY <1>1, BatchFacts DEF TypeOK
<1>4. Recorded'
  BY <1>2, <1>3 DEF Recorded
<1>5. \A b \in Batches : Heard(b) => Heard(b)'
  BY <1>2 DEF Heard
<1>6. Coverage'
  BY <1>2, <1>3, <1>5 DEF Coverage, InTurn, Running, Latest
<1> QED
  BY <1>4, <1>6

\* A batch that starts is the last one, and has heard of nothing yet.
LEMMA StartCoverage ==
    ASSUME TypeOK, Recorded, Coverage, NEW b \in Batches, batchTestModels(b)
    PROVE  Recorded' /\ Coverage'
<1> USE DEF TypeOK
<1>1. /\ tests' = tests \cup RoundTests(b, 1, channels)
      /\ batch[b].pc = "none" /\ \A a \in Batches : a < b => batch[a].pc # "none"
      /\ batch' = [batch EXCEPT ![b] = [pc |-> "waiting", next |-> 1 + Limit, snap |-> channels]]
  BY DEF batchTestModels, RoundTests
<1>2. /\ batch'[b].pc = "waiting" /\ batch'[b].next = 1 + Limit
      /\ \A a \in Batches : a # b => batch'[a] = batch[a]
  BY <1>1 DEF TestTypes
<1>3. channels \in Lists
  BY DEF ListTypes
<1>4. \A t \in RoundTests(b, 1, channels) : t.batch = b /\ t.batching = FALSE
  <2>1. \A t \in RoundTests(b, 1, channels) : t.batch = b
    BY <1>3, RoundTestsAre
  <2>2. \A t \in RoundTests(b, 1, channels) : t.batching = FALSE
    BY RoundTestsRecord, Zenon
  <2> QED
    BY <2>1, <2>2, Zenon
<1>5. Recorded'
  BY <1>1, <1>4 DEF Recorded
<1>6. \A a \in Batches : a > b => batch[a].pc = "none"
  BY <1>1, BatchFacts DEF Coverage, InTurn
<1>7. InTurn'
  BY <1>1, <1>2, BatchFacts DEF Coverage, InTurn
<1>8. \A a \in Batches : batch'[a].pc \in {"delay", "ending"} => \A t \in tests' : t.batch # a
  BY <1>1, <1>2, <1>4 DEF Coverage
<1>9. \A a \in Batches : batch'[a].pc = "ending" => batch'[a].next > NModels
  BY <1>2 DEF Coverage
<1>10. Heard(b)'
  <2>1. ASSUME NEW n \in Models, n < 1 + Limit PROVE \E t \in tests' : t.batch = b /\ t.model = n
    <3>1. n \in Round(1)
      BY <2>1, BatchFacts DEF Round, Models
    <3> QED
      BY <1>1, <1>3, <3>1, RoundTestsAre
  <2> QED
    BY <1>2, <2>1 DEF Heard
<1>11. ASSUME NEW a \in Batches, Running(a)', Latest(a)' PROVE a = b
  <2>1. ~(b > a)
    BY <1>2, <1>11 DEF Latest
  <2>2. a # b => batch[a].pc # "none"
    BY <1>2, <1>11 DEF Running
  <2> QED
    BY <1>6, <2>1, <2>2, BatchFacts
<1>12. Coverage'
  BY <1>7, <1>8, <1>9, <1>10, <1>11 DEF Coverage
<1> QED
  BY <1>5, <1>12

\* The next round hears of the next models.
LEMMA RoundCoverage ==
    ASSUME TypeOK, Recorded, Coverage, NEW b \in Batches, batch[b].pc = "delay", NextRound(b),
           UNCHANGED results
    PROVE  Recorded' /\ Coverage'
<1> USE DEF TypeOK
<1>1. PICK i : i = batch[b].next
  OBVIOUS
<1>2. /\ tests' = tests \cup RoundTests(b, i, batch[b].snap)
      /\ batch' = [batch EXCEPT ![b].pc = "waiting", ![b].next = @ + Limit]
  BY <1>1 DEF NextRound, RoundTests
<1>3. i \in Nat /\ batch[b] \in BatchType /\ batch[b].snap \in Lists
  BY <1>1, BatchFacts DEF BatchType
<1>4. /\ batch'[b].pc = "waiting" /\ batch'[b].next = i + Limit
      /\ \A a \in Batches : a # b => batch'[a] = batch[a]
  BY <1>1, <1>2, <1>3 DEF TestTypes, BatchType
<1>5. \A t \in RoundTests(b, i, batch[b].snap) : t.batch = b /\ t.batching = FALSE
  <2>1. \A t \in RoundTests(b, i, batch[b].snap) : t.batch = b
    BY <1>3, RoundTestsAre
  <2>2. \A t \in RoundTests(b, i, batch[b].snap) : t.batching = FALSE
    BY RoundTestsRecord, Zenon
  <2> QED
    BY <2>1, <2>2, Zenon
<1>6. Recorded'
  BY <1>2, <1>5 DEF Recorded
<1>7. \A a \in Batches : batch'[a].pc = "none" <=> batch[a].pc = "none"
  BY <1>4
<1>8. InTurn'
  BY <1>7 DEF Coverage, InTurn
<1>9. \A a \in Batches : batch'[a].pc \in {"delay", "ending"} => \A t \in tests' : t.batch # a
  BY <1>2, <1>4, <1>5 DEF Coverage
<1>10. \A a \in Batches : batch'[a].pc = "ending" => batch'[a].next > NModels
  BY <1>4 DEF Coverage
<1>11. ASSUME Heard(b) PROVE Heard(b)'
  <2>1. ASSUME NEW n \in Models, n < i + Limit, ~(n < i) PROVE \E t \in tests' : t.batch = b /\ t.model = n
    <3>1. n \in Round(i)
      BY <1>3, <2>1, BatchFacts DEF Round
    <3> QED
      BY <1>2, <1>3, <3>1, RoundTestsAre
  <2> QED
    BY <1>1, <1>2, <1>4, <1>11, <2>1 DEF Heard
<1>12. ASSUME NEW a \in Batches, a # b, Heard(a) PROVE Heard(a)'
  BY <1>2, <1>4, <1>12 DEF Heard
<1>13. \A a \in Batches : Running(a)' /\ Latest(a)' => Heard(a)'
  BY <1>4, <1>7, <1>11, <1>12 DEF Coverage, Running, Latest
<1>14. Coverage'
  BY <1>8, <1>9, <1>10, <1>13 DEF Coverage
<1> QED
  BY <1>6, <1>14

LEMMA OverCoverage ==
    ASSUME TypeOK, Recorded, Coverage, NEW b \in Batches, batch[b].pc # "none", BatchOver(b),
           UNCHANGED results
    PROVE  Recorded' /\ Coverage'
<1> USE DEF TypeOK
<1>1. UNCHANGED tests /\ batch' = [batch EXCEPT ![b] = Over]
  BY DEF BatchOver
<1>2. Over.pc = "over"
  BY DEF Over
<1>3. /\ batch'[b].pc = "over"
      /\ \A a \in Batches : a # b => batch'[a] = batch[a]
  BY <1>1, <1>2 DEF TestTypes
<1>4. \A a \in Batches : batch'[a].pc = "none" <=> batch[a].pc = "none"
  BY <1>3
<1>5. Recorded'
  BY <1>1 DEF Recorded
<1>6. InTurn'
  BY <1>4 DEF Coverage, InTurn
<1>7. \A a \in Batches : Running(a)' /\ Latest(a)' => Heard(a)'
  BY <1>1, <1>3, <1>4 DEF Coverage, Running, Latest, Heard
<1>8. Coverage'
  BY <1>1, <1>3, <1>6, <1>7 DEF Coverage
<1> QED
  BY <1>5, <1>8

\* A model that is no longer tested has a result.
LEMMA DoneCoverage ==
    ASSUME TypeOK, Recorded, Coverage, NEW m \in Tested, NEW T, TestsDone(m, T),
           \A t \in TestsOf(m) : t.batch \in Batches => T # {}
    PROVE  Recorded' /\ Coverage'
<1> USE DEF TypeOK
<1>1. PICK left : left = tests \ TestsOf(m)
  OBVIOUS
<1>2. PICK done : done = {b \in Batches : batch[b].pc = "waiting" /\ \A t \in left : t.batch # b}
  OBVIOUS
<1>3. /\ tests' = left /\ results \subseteq results' /\ (T # {} => m \in results')
      /\ batch' = [b \in Batches |-> IF b \in done THEN AfterRound(b) ELSE batch[b]]
  BY <1>1, <1>2 DEF TestsDone
<1>4. /\ \A b \in done : b \in Batches /\ batch'[b] = AfterRound(b) /\ batch[b].pc = "waiting"
      /\ \A b \in Batches : b \notin done => batch'[b] = batch[b]
  BY <1>2, <1>3
<1>5. \A b \in done : /\ batch'[b].pc \in {"delay", "ending", "over"}
                      /\ batch'[b].pc # "over" => batch'[b].next = batch[b].next
                      /\ batch'[b].pc = "ending" => batch[b].next > NModels
  BY <1>4, AfterRoundIs
<1>6. \A b \in Batches : batch'[b].pc = "none" <=> batch[b].pc = "none"
  BY <1>4, <1>5
<1>7. Recorded'
  BY <1>1, <1>3 DEF Recorded
<1>8. InTurn'
  BY <1>6 DEF Coverage, InTurn
<1>9. \A b \in Batches : batch'[b].pc \in {"delay", "ending"} => \A t \in tests' : t.batch # b
  <2>1. ASSUME NEW b \in done PROVE \A t \in tests' : t.batch # b
    BY <1>2, <1>3, <2>1
  <2> QED
    BY <1>1, <1>3, <1>4, <2>1 DEF Coverage
<1>10. \A b \in Batches : batch'[b].pc = "ending" => batch'[b].next > NModels
  BY <1>4, <1>5 DEF Coverage
<1>11. ASSUME NEW b \in Batches, Running(b)' PROVE Running(b) /\ batch'[b].next = batch[b].next
  BY <1>4, <1>5, <1>11 DEF Running
<1>12. ASSUME NEW b \in Batches, Heard(b), batch'[b].next = batch[b].next PROVE Heard(b)'
  <2>1. ASSUME NEW n \in Models, NEW t \in tests, t.batch = b, t.model = n
        PROVE  n \in results' \/ \E u \in tests' : u.batch = b /\ u.model = n
    <3>1. CASE n = m
      BY <1>3, <2>1, <3>1 DEF TestsOf
    <3>2. CASE n # m
      BY <1>1, <1>3, <2>1, <3>2 DEF TestsOf
    <3> QED
      BY <3>1, <3>2
  <2> QED
    BY <1>3, <1>12, <2>1 DEF Heard
<1>13. \A b \in Batches : Latest(b)' => Latest(b)
  BY <1>6 DEF Latest
<1>14. \A b \in Batches : Running(b)' /\ Latest(b)' => Heard(b)'
  BY <1>11, <1>12, <1>13 DEF Coverage
<1>15. Coverage'
  BY <1>8, <1>9, <1>10, <1>14 DEF Coverage
<1> QED
  BY <1>7, <1>15

LEMMA CoverageStep == TypeOK /\ Recorded /\ Coverage /\ [Next]_vars => Recorded' /\ Coverage'
<1> SUFFICES ASSUME TypeOK, Recorded, Coverage, [Next]_vars PROVE Recorded' /\ Coverage'
  OBVIOUS
<1>1. ASSUME UNCHANGED testVars PROVE Recorded' /\ Coverage'
  BY <1>1, KeepCoverage DEF testVars
<1>2. ASSUME UNCHANGED vars PROVE UNCHANGED testVars
  BY <1>2 DEF vars
<1>3. ASSUME AskActions PROVE UNCHANGED testVars
  BY <1>3, AskKinds DEF AskActions, Asks
<1>4. ASSUME AnswerActions \/ OtherActions PROVE UNCHANGED testVars
  BY <1>4, AnswerTypes, OtherListTypes DEF AnswerActions, OtherActions
<1>5. ASSUME OpenModal \/ handleCloseModal PROVE Recorded' /\ Coverage'
  BY <1>5, KeepCoverage DEF OpenModal, handleCloseModal
<1>6. ASSUME NEW b \in Batches, Timers(b) PROVE Recorded' /\ Coverage'
  <2>1. /\ UNCHANGED results /\ batch[b].pc # "none"
        /\ BatchOver(b) \/ (batch[b].pc = "delay" /\ NextRound(b))
    BY <1>6 DEF Timers, DelayOver, EndingOver
  <2> QED
    BY <2>1, OverCoverage, RoundCoverage
<1>7. ASSUME NEW m \in Tested, TestAnswered(m) PROVE Recorded' /\ Coverage'
  <2>1. \A t \in TestsOf(m) : t.batch \in Batches => Recording(m) # {}
    BY DEF Recorded, Recording, TestsOf
  <2> QED
    BY <1>7, <2>1, DoneCoverage DEF TestAnswered
<1>8. ASSUME NEW m \in Tested, TestFails(m) PROVE Recorded' /\ Coverage'
  BY <1>8, DoneCoverage DEF TestFails
<1>9. ASSUME TestActions PROVE Recorded' /\ Coverage'
  BY <1>5, <1>6, <1>7, <1>8, <1>9, StartCoverage, SingleCoverage DEF TestActions
<1> QED
  BY <1>1, <1>2, <1>3, <1>4, <1>9, NextKinds

LEMMA CoverageInit == Init => Recorded /\ Coverage
<1> SUFFICES ASSUME Init PROVE Recorded /\ Coverage
  OBVIOUS
<1>1. tests = {} /\ \A b \in Batches : batch[b].pc = "none"
  BY DEF Init
<1> QED
  BY <1>1 DEF Recorded, Coverage, InTurn, Running

\* The last batch, when it comes to its end, has a result of every model: of
\* each round, whatever order its answers came in, and although older batches
\* may have been revived and may be running beside it.
THEOREM BatchesCoverAll == Spec => []BatchCoversAll
<1>1. /\ Init => TypeOK /\ Recorded /\ Coverage
      /\ TypeOK /\ Recorded /\ Coverage /\ [Next]_vars => (TypeOK /\ Recorded /\ Coverage)'
  BY TypeInit, CoverageInit, TypeStep, CoverageStep
<1>2. ASSUME TypeOK, Coverage, NEW b \in Batches, batch[b].pc = "ending", Latest(b)
      PROVE  results \cap Models = Models
  <2>1. Heard(b) /\ batch[b].next > NModels /\ \A t \in tests : t.batch # b
    BY <1>2 DEF Coverage, Running
  <2>2. \A m \in Models : m < batch[b].next
    BY <1>2, <2>1, BatchFacts DEF Models, TypeOK
  <2> QED
    BY <2>1, <2>2 DEF Heard
<1>3. TypeOK /\ Coverage => BatchCoversAll
  BY <1>2 DEF BatchCoversAll
<1> QED
  BY <1>1, <1>3, PTL DEF Spec

=============================================================================
