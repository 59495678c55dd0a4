---------------------------- MODULE ChannelsPage ----------------------------
(***************************************************************************)
(* The channel management page of the classic interface                    *)
(* (hooks/channels/useChannelsData.jsx): the list of channels, which is    *)
(* loaded, searched and reloaded after changes, and the tests of a         *)
(* channel's models, one at a time or in batches.                          *)
(*                                                                         *)
(* JavaScript runs one event at a time; a handler gives way only at an     *)
(* await.  A handler keeps what its render captured (activePage, filter,   *)
(* channels, isBatchTesting) across its awaits, and reads the search form  *)
(* and the refs anew.                                                      *)
(*                                                                         *)
(* The list is abstracted to the query it answers and to the number of     *)
(* changes to the channels it has seen.  The filter stands for the type    *)
(* tab, the status filter, the tag mode, the order and the page size.      *)
(***************************************************************************)
EXTENDS Naturals, FiniteSets

CONSTANTS
    Pages,        \* pages of the list, from 1
    Filters,      \* values of the filter
    Keywords,     \* what can be searched for, and "" for an empty form
    NModels,      \* models of the tested channel
    Limit,        \* concurrencyLimit
    MaxClicks,    \* bound: what the administrator does
    MaxBatches,   \* bound: batches started
    MaxErrors     \* bound: answers that are errors

\* The search form is not filled in.
NoKeyword == ""

ASSUME ChannelsAssumption ==
    /\ Pages \subseteq Nat \ {0} /\ 1 \in Pages /\ NoKeyword \in Keywords
    /\ NModels \in Nat \ {0} /\ Limit \in Nat \ {0}
    /\ MaxClicks \in Nat /\ MaxBatches \in Nat /\ MaxErrors \in Nat

Models == 1 .. NModels
Batches == 1 .. MaxBatches

\* The page the refresh button asks for: its onClick passes the event.  The
\* server takes what is no number for page 1.
EventPage == 0
Served(p) == IF p = EventPage THEN 1 ELSE p

\* What a row's test button tests: the channel's default model.
RowModel == 0

VARIABLES
    channels,         \* the list: [page, filter, key, ver]
    activePage, filter, keyword,
    loading, searching,
    requestCounter,
    calls,            \* loadChannels and searchChannels awaiting an answer
    gets,             \* helpers/api.js: inFlightGetRequests
    ver,              \* changes made to the channels, at the server
    change,           \* the request that changes channels
    later,            \* refreshes a timer will call
    manages,          \* manageChannel and manageTag awaiting an answer
    modal, isBatchTesting, shouldStop,
    testing,          \* testingModels
    results,          \* the models with an entry in modelTestResults
    tests,            \* testChannel awaiting an answer
    batch,            \* batchTestModels, by number
    clicks, errors,
    expected          \* history: the query the list should come to answer, or Unknown

listVars == <<channels, activePage, filter, keyword, loading, searching, requestCounter,
              calls, gets>>
changeVars == <<ver, change, later, manages>>
testVars == <<modal, isBatchTesting, shouldStop, testing, results, tests, batch>>
vars == <<listVars, changeVars, testVars, clicks, errors, expected>>

NoList == [page |-> 0, filter |-> "all", key |-> NoKeyword, ver |-> 0]
Unknown == [NoList EXCEPT !.filter = "unknown"]
NoChange == [state |-> "none", kind |-> "none", page |-> 1, filter |-> "all", list |-> NoList]

Click == clicks < MaxClicks /\ clicks' = clicks + 1

-----------------------------------------------------------------------------
(* Asking for the list *)

\* API.get shares the answer of a request for the same URL that is in flight.
Shares(p, f) == \E g \in gets : g.page = p /\ g.filter = f /\ g.key = keyword

\* loadChannels, or searchChannels when the form is filled in.  outer: the
\* function that awaits the other one and resets its own flag afterwards
\* ("delete" is batchDeleteChannels, which has set loading before).
\* A load overtakes the loads before it; a search does not, and nothing
\* overtakes it.
Ask(p, f, outer) ==
    LET load == keyword = NoKeyword IN
    /\ requestCounter' = IF load THEN requestCounter + 1 ELSE requestCounter
    /\ calls' = calls \cup {[page |-> p, filter |-> f, key |-> keyword,
                             id |-> IF load THEN requestCounter + 1 ELSE 0, outer |-> outer]}
    /\ gets' = IF Shares(p, f) THEN gets
               ELSE gets \cup {[page |-> p, filter |-> f, key |-> keyword, since |-> ver]}
    /\ loading' = (loading \/ load \/ outer = "load")
    /\ searching' = (searching \/ ~load \/ outer = "search")
    /\ expected' = IF \/ expected = Unknown
                      \/ calls # {} /\ (~load \/ \E c \in calls : c.id = 0)
                      \/ \E g \in gets : g.page = p /\ g.filter = f /\ g.key = keyword /\ g.since < ver
                   THEN Unknown
                   ELSE [page |-> Served(p), filter |-> f, key |-> keyword, ver |-> ver]

loadChannels(p, f) == Ask(p, f, IF keyword = NoKeyword THEN "none" ELSE "load")
searchChannels(p, f) == Ask(p, f, IF keyword = NoKeyword THEN "search" ELSE "none")
refresh(p, f) == Ask(p, f, "none")

Init ==
    /\ channels = NoList
    /\ activePage = 1 /\ filter = "all" /\ keyword = NoKeyword
    /\ loading = TRUE /\ searching = FALSE
    /\ requestCounter = 1
    /\ calls = {[page |-> 1, filter |-> "all", key |-> NoKeyword, id |-> 1, outer |-> "none"]}
    /\ gets = {[page |-> 1, filter |-> "all", key |-> NoKeyword, since |-> 0]}
    /\ expected = [page |-> 1, filter |-> "all", key |-> NoKeyword, ver |-> 0]
    /\ ver = 0 /\ change = NoChange /\ later = {} /\ manages = {}
    /\ modal = FALSE /\ isBatchTesting = FALSE /\ shouldStop = FALSE
    /\ testing = {} /\ results = {} /\ tests = {}
    /\ batch = [b \in Batches |-> [pc |-> "none", next |-> 1, snap |-> NoList]]
    /\ clicks = 0 /\ errors = 0

-----------------------------------------------------------------------------
(* The answer: everything that waits for it goes on in the same task *)

Waiting(g) == {c \in calls : c.page = g.page /\ c.filter = g.filter /\ c.key = g.key}

\* Mutant: whichever load is answered is shown.
AnyCurrent(c) == TRUE

\* A load that has been overtaken returns without doing anything.
Current(c) == c.id = 0 \/ c.id = requestCounter

\* The calls among C after which loading is reset.
StopsLoading(C) == \E c \in C : c.id = requestCounter \/ c.outer \in {"load", "delete"}

\* Mutant: the return out of the try is not followed by the finally.
StopsSearchingOwn(C) == \E c \in C : c.id = 0

\* The calls after which searching is.
StopsSearching(C) == \E c \in C : c.id = 0 \/ c.outer = "search"

\* The server read the channels at some time after the request was sent.
ListAnswered(g) ==
    LET C == Waiting(g) IN
    /\ \E v \in g.since .. ver :
         channels' = IF \E c \in C : Current(c)
                     THEN [page |-> Served(g.page), filter |-> g.filter, key |-> g.key, ver |-> v]
                     ELSE channels
    /\ activePage' = IF g.key # NoKeyword THEN g.page ELSE activePage
    /\ loading' = (loading /\ ~StopsLoading(C))
    /\ searching' = (searching /\ ~StopsSearching(C))
    /\ calls' = calls \ C
    /\ gets' = gets \ {g}
    /\ UNCHANGED <<filter, keyword, requestCounter, changeVars, testVars,
                   clicks, errors, expected>>

\* success is false: the list stays.
ListRefused(g) ==
    LET C == Waiting(g) IN
    /\ errors < MaxErrors /\ errors' = errors + 1
    /\ loading' = (loading /\ ~StopsLoading(C))
    /\ searching' = (searching /\ ~StopsSearching(C))
    /\ calls' = calls \ C
    /\ gets' = gets \ {g}
    /\ expected' = Unknown
    /\ UNCHANGED <<channels, activePage, filter, keyword, requestCounter,
                   changeVars, testVars, clicks>>

\* The request fails: only the finally of searchChannels resets its flag.
ListFails(g) ==
    LET C == Waiting(g) IN
    /\ errors < MaxErrors /\ errors' = errors + 1
    /\ searching' = (searching /\ ~StopsSearching(C))
    /\ calls' = calls \ C
    /\ gets' = gets \ {g}
    /\ expected' = Unknown
    /\ UNCHANGED <<channels, activePage, filter, keyword, loading, requestCounter,
                   changeVars, testVars, clicks>>

-----------------------------------------------------------------------------
(* What the administrator does with the list; the modal covers the page *)

OnPage == ~modal /\ Click

handlePageChange(p) ==
    /\ OnPage
    /\ activePage' = p
    /\ refresh(p, filter)
    /\ UNCHANGED <<channels, filter, keyword, changeVars, testVars, errors>>

\* Tabs, status filter and tag mode call loadChannels; page size and order
\* choose between load and search themselves, and the order keeps the page.
ChangeFilter(f) ==
    /\ OnPage /\ f # filter
    /\ filter' = f
    /\ \/ activePage' = 1 /\ loadChannels(1, f)
       \/ activePage' = 1 /\ keyword # NoKeyword /\ refresh(1, f)
       \/ activePage' = activePage /\ refresh(activePage, f)
    /\ UNCHANGED <<channels, keyword, changeVars, testVars, errors>>

\* Typing changes the form only.
Type(k) ==
    /\ OnPage /\ k # keyword
    /\ keyword' = k
    /\ UNCHANGED <<channels, activePage, filter, loading, searching, requestCounter, calls,
                   gets, changeVars, testVars, errors, expected>>

Submit ==
    /\ OnPage
    /\ searchChannels(1, filter)
    /\ UNCHANGED <<channels, activePage, filter, keyword, changeVars, testVars, errors>>

RefreshButton ==
    /\ OnPage
    /\ refresh(EventPage, filter)
    /\ UNCHANGED <<channels, activePage, filter, keyword, changeVars, testVars, errors>>

\* The form is reset now and the list refreshed 100 ms later.
Reset ==
    /\ OnPage
    /\ keyword' = NoKeyword
    /\ later' = later \cup {[page |-> activePage, filter |-> filter]}
    /\ UNCHANGED <<channels, activePage, filter, loading, searching, requestCounter, calls,
                   gets, ver, change, manages, testVars, errors, expected>>

ResetRefresh(r) ==
    /\ later' = later \ {r}
    /\ refresh(r.page, r.filter)
    /\ UNCHANGED <<channels, activePage, filter, keyword, ver, change, manages, testVars,
                   clicks, errors>>

-----------------------------------------------------------------------------
(* Changes *)

\* copySelectedChannel, submitTagEdit, batchSetChannelTag, fixChannelsAbilities,
\* deleteAllDisabledChannels and the upstream updates change the channels and
\* then refresh the page that was shown at the click.  Deleting a row
\* (manageChannel) also shows the list of its render again before the refresh;
\* deleting the selected rows (batchDeleteChannels) sets loading meanwhile.
Change ==
    /\ OnPage /\ change.state = "none"
    /\ \E k \in {"edit", "row", "rows"} :
         /\ change' = [state |-> "sent", kind |-> k, page |-> activePage, filter |-> filter,
                       list |-> IF k = "row" THEN channels ELSE NoList]
         /\ loading' = (loading \/ k = "rows")
    /\ UNCHANGED <<channels, activePage, filter, keyword, searching, requestCounter, calls, gets,
                   ver, later, manages, testVars, errors, expected>>

ChangeCommits ==
    /\ change.state = "sent"
    /\ ver' = ver + 1
    /\ change' = [change EXCEPT !.state = "committed"]
    /\ UNCHANGED <<listVars, later, manages, testVars, clicks, errors, expected>>

ChangeAnswered ==
    /\ change.state = "committed"
    /\ change' = NoChange
    /\ channels' = IF change.kind = "row" THEN change.list ELSE channels
    /\ Ask(change.page, change.filter, IF change.kind = "rows" THEN "delete" ELSE "none")
    /\ UNCHANGED <<activePage, filter, keyword, ver, later, manages, testVars,
                   clicks, errors>>

\* Refused, or the answer is lost: the list is not refreshed, and after a loss
\* batchDeleteChannels does not come to reset loading.
ChangeFails ==
    /\ change.state # "none"
    /\ errors < MaxErrors /\ errors' = errors + 1
    /\ change' = NoChange
    /\ UNCHANGED <<listVars, ver, later, manages, testVars, clicks, expected>>

\* The deletion of selected rows is refused.
RowsRefused ==
    /\ change.state = "sent" /\ change.kind = "rows"
    /\ errors < MaxErrors /\ errors' = errors + 1
    /\ change' = NoChange
    /\ loading' = FALSE
    /\ UNCHANGED <<channels, activePage, filter, keyword, searching, requestCounter, calls, gets,
                   ver, later, manages, testVars, clicks, expected>>

\* A deletion of a row that is refused refreshes all the same.
DeleteRefused ==
    /\ change.state = "sent" /\ change.kind = "row"
    /\ errors < MaxErrors /\ errors' = errors + 1
    /\ change' = NoChange
    /\ refresh(change.page, change.filter)
    /\ UNCHANGED <<channels, activePage, filter, keyword, ver, later, manages, testVars, clicks>>

\* manageChannel, manageTag and updateChannelBalance change channels too, and
\* keep the list of their render ...
Manage ==
    /\ OnPage
    /\ manages' = manages \cup {[list |-> channels, done |-> FALSE, click |-> clicks]}
    /\ UNCHANGED <<listVars, ver, change, later, testVars, errors, expected>>

ManageCommits(l) ==
    /\ ~l.done
    /\ ver' = ver + 1
    /\ manages' = (manages \ {l}) \cup {[l EXCEPT !.done = TRUE]}
    /\ UNCHANGED <<listVars, change, later, testVars, clicks, errors, expected>>

\* ... and show it again, whatever has been loaded since.
ManageAnswered(l) ==
    /\ l.done
    /\ manages' = manages \ {l}
    /\ channels' = l.list
    /\ expected' = IF channels = l.list THEN expected ELSE Unknown
    /\ UNCHANGED <<activePage, filter, keyword, loading, searching, requestCounter, calls,
                   gets, ver, change, later, testVars, clicks, errors>>

\* Refused, or the answer is lost.
ManageFails(l) ==
    /\ errors < MaxErrors /\ errors' = errors + 1
    /\ manages' = manages \ {l}
    /\ UNCHANGED <<listVars, ver, change, later, testVars, clicks, expected>>

-----------------------------------------------------------------------------
(* Tests *)

OpenModal ==
    /\ ~modal /\ clicks < MaxClicks
    /\ modal' = TRUE
    /\ UNCHANGED <<listVars, changeVars, isBatchTesting, shouldStop, testing, results, tests,
                   batch, clicks, errors, expected>>

\* The models of the round that begins at i.
Round(i) == {m \in Models : i <= m /\ m < i + Limit}

\* batchTestModels, until its first await.  Its testChannel belongs to the
\* render of the click, in which isBatchTesting is false.
batchTestModels(b) ==
    /\ modal /\ ~isBatchTesting /\ Click
    /\ batch[b].pc = "none" /\ \A a \in Batches : a < b => batch[a].pc # "none"
    /\ isBatchTesting' = TRUE
    /\ shouldStop' = FALSE
    /\ results' = results \ Models
    /\ batch' = [batch EXCEPT ![b] = [pc |-> "waiting", next |-> 1 + Limit, snap |-> channels]]
    /\ tests' = tests \cup [model : Round(1), batch : {b}, batching : {FALSE}, snap : {channels}]
    /\ testing' = testing \cup Round(1)
    /\ UNCHANGED <<listVars, changeVars, modal, errors, expected>>

\* testChannel from a button: in the modal, or of a row.
testChannel(m) ==
    /\ m \in Models <=> modal
    /\ Click
    /\ ~(shouldStop /\ isBatchTesting)
    /\ testing' = testing \cup {m}
    /\ tests' = tests \cup {[model |-> m, batch |-> 0, batching |-> isBatchTesting,
                             snap |-> channels]}
    /\ UNCHANGED <<listVars, changeVars, modal, isBatchTesting, shouldStop, results, batch,
                   errors, expected>>

Over == [pc |-> "over", next |-> 1, snap |-> NoList]

\* Mutant: a stopped batch forgets that it is over.
AfterRoundStuck(b) ==
    IF shouldStop THEN [batch[b] EXCEPT !.pc = "stopped"]
    ELSE [batch[b] EXCEPT !.pc = IF batch[b].next <= NModels THEN "delay" ELSE "ending"]

\* Mutant: the last round is forgotten.
AfterRoundEarly(b) ==
    IF shouldStop THEN Over
    ELSE [batch[b] EXCEPT !.pc = IF batch[b].next < NModels THEN "delay" ELSE "ending"]

\* The round is over: stop, pause before the next one, or come to the end.
AfterRound(b) ==
    IF shouldStop THEN Over
    ELSE [batch[b] EXCEPT !.pc = IF batch[b].next <= NModels THEN "delay" ELSE "ending"]

\* Tests of one model share one request (API.get), so their answer is one.
\* The endpoint and the streaming option are taken to be the same.
TestsOf(m) == {t \in tests : t.model = m}

\* The tests that record their result: all, except a single one started
\* during a batch that has been stopped since.
Recording(m) == {t \in TestsOf(m) : ~(shouldStop /\ t.batching)}

TestsDone(m, T) ==
    LET left == tests \ TestsOf(m)
        done == {b \in Batches : /\ batch[b].pc = "waiting"
                                 /\ \A t \in left : t.batch # b} IN
    /\ tests' = left
    /\ results' = IF T = {} THEN results ELSE results \cup {m}
    /\ testing' = testing \ {m}
    /\ batch' = [b \in Batches |-> IF b \in done THEN AfterRound(b) ELSE batch[b]]
    /\ isBatchTesting' = (isBatchTesting /\ ~\E b \in done : AfterRound(b).pc = "over")

\* updateChannelProperty shows the list of the render again, if the tested
\* channel is on it.
TestAnswered(m) ==
    /\ TestsOf(m) # {}
    /\ TestsDone(m, Recording(m))
    /\ channels' \in {channels} \cup {t.snap : t \in Recording(m)}
    /\ expected' = IF channels' = channels THEN expected ELSE Unknown
    /\ UNCHANGED <<activePage, filter, keyword, loading, searching, requestCounter, calls,
                   gets, changeVars, modal, shouldStop, clicks, errors>>

\* The catch records the failure without looking at shouldStop.
TestFails(m) ==
    /\ TestsOf(m) # {}
    /\ errors < MaxErrors /\ errors' = errors + 1
    /\ TestsDone(m, TestsOf(m))
    /\ UNCHANGED <<listVars, changeVars, modal, shouldStop, clicks, expected>>

NextRound(b) ==
    /\ batch' = [batch EXCEPT ![b].pc = "waiting", ![b].next = @ + Limit]
    /\ tests' = tests \cup [model : Round(batch[b].next), batch : {b}, batching : {FALSE},
                            snap : {batch[b].snap}]
    /\ testing' = testing \cup Round(batch[b].next)
    /\ UNCHANGED isBatchTesting

BatchOver(b) ==
    /\ batch' = [batch EXCEPT ![b] = Over]
    /\ isBatchTesting' = FALSE
    /\ UNCHANGED <<tests, testing>>

\* The pause of 100 ms is over.
DelayOver(b) ==
    /\ batch[b].pc = "delay"
    /\ IF shouldStop THEN BatchOver(b) ELSE NextRound(b)
    /\ UNCHANGED <<listVars, changeVars, modal, shouldStop, results, clicks, errors, expected>>

\* The pause of 300 ms at the end is over.
EndingOver(b) ==
    /\ batch[b].pc = "ending"
    /\ BatchOver(b)
    /\ UNCHANGED <<listVars, changeVars, modal, shouldStop, results, clicks, errors, expected>>

handleCloseModal ==
    /\ modal
    /\ shouldStop' = (shouldStop \/ isBatchTesting)
    /\ modal' = FALSE
    /\ isBatchTesting' = FALSE
    /\ testing' = {}
    /\ UNCHANGED <<listVars, changeVars, results, tests, batch, clicks, errors, expected>>

-----------------------------------------------------------------------------
User ==
    \/ \E p \in Pages : handlePageChange(p)
    \/ \E f \in Filters : ChangeFilter(f)
    \/ \E k \in Keywords : Type(k)
    \/ Submit \/ RefreshButton \/ Reset \/ Change \/ Manage
    \/ OpenModal \/ handleCloseModal
    \/ \E b \in Batches : batchTestModels(b)
    \/ \E m \in Models \cup {RowModel} : testChannel(m)

Timers(b) == DelayOver(b) \/ EndingOver(b)

Next ==
    \/ User
    \/ \E g \in gets : ListAnswered(g) \/ ListRefused(g) \/ ListFails(g)
    \/ \E r \in later : ResetRefresh(r)
    \/ ChangeCommits \/ ChangeAnswered \/ ChangeFails \/ RowsRefused \/ DeleteRefused
    \/ \E l \in manages : ManageCommits(l) \/ ManageAnswered(l) \/ ManageFails(l)
    \/ \E m \in Models \cup {RowModel} : TestAnswered(m) \/ TestFails(m)
    \/ \E b \in Batches : Timers(b)

Spec == Init /\ [][Next]_vars

\* Timers fire.  Nothing bounds a test: neither the browser's client nor, by
\* default, the server's has a timeout.
FairSpec == Spec /\ \A b \in Batches : WF_vars(Timers(b))

-----------------------------------------------------------------------------
(* Properties *)

FilterValues == Filters \cup {"all", "unknown"}
Lists == [page : Nat, filter : FilterValues, key : Keywords, ver : Nat]
Calls == [page : Nat, filter : FilterValues, key : Keywords, id : Nat,
          outer : {"none", "load", "search", "delete"}]
Gets == [page : Nat, filter : FilterValues, key : Keywords, since : Nat]
Tested == Models \cup {RowModel}

ListTypes ==
    /\ channels \in Lists /\ expected \in Lists
    /\ activePage \in Nat /\ filter \in FilterValues /\ keyword \in Keywords
    /\ requestCounter \in Nat /\ calls \subseteq Calls /\ gets \subseteq Gets

ChangeTypes ==
    /\ ver \in Nat
    /\ change \in [state : {"none", "sent", "committed"}, kind : {"none", "edit", "row", "rows"},
                   page : Nat, filter : FilterValues, list : Lists]
    /\ later \subseteq [page : Nat, filter : FilterValues]
    /\ manages \subseteq [list : Lists, done : BOOLEAN, click : Nat]

TestTypes ==
    /\ testing \subseteq Tested /\ results \subseteq Tested
    /\ tests \subseteq [model : Tested, batch : Batches \cup {0}, batching : BOOLEAN, snap : Lists]
    /\ batch \in [Batches -> [pc : {"none", "waiting", "delay", "ending", "over"},
                              next : Nat, snap : Lists]]

FlagTypes ==
    /\ loading \in BOOLEAN /\ searching \in BOOLEAN
    /\ modal \in BOOLEAN /\ isBatchTesting \in BOOLEAN /\ shouldStop \in BOOLEAN

CountTypes == clicks \in 0 .. MaxClicks /\ errors \in 0 .. MaxErrors

TypeOK == FlagTypes /\ ListTypes /\ ChangeTypes /\ TestTypes /\ CountTypes

Quiet == calls = {} /\ change.state = "none" /\ later = {}

(***************************************************************************)
(* When nothing is under way the list is the answer to the last query,     *)
(* whatever order the answers came in, and has every change the page had   *)
(* been told of when it asked: requestCounter drops the loads that were    *)
(* overtaken.  Not so when a query failed, when a search overlapped with   *)
(* another query, when a query shared an answer that was on its way before *)
(* a change, or when manageChannel or a test brought an older list back    *)
(* (expected is Unknown).                                                 *)
(***************************************************************************)
NewestWins ==
    Quiet /\ expected # Unknown =>
        /\ channels.page = expected.page /\ channels.filter = expected.filter
        /\ channels.key = expected.key /\ channels.ver >= expected.ver

(***************************************************************************)
(* No mark turns for ever: a model marked as being tested is being tested, *)
(* also after a batch was stopped and another started; searching means     *)
(* that a search is under way; loading means that a load or the deletion   *)
(* of selected rows is, unless a request failed (loadChannels has no       *)
(* finally).                                                               *)
(***************************************************************************)
NoStuckSpinner ==
    /\ testing \subseteq {t.model : t \in tests}
    /\ searching => \E c \in calls : c.id = 0 \/ c.outer = "search"
    /\ loading => \/ errors > 0 \/ change.kind = "rows"
                  \/ \E c \in calls : c.id = requestCounter \/ c.outer \in {"load", "delete"}

Latest(b) == \A a \in Batches : a > b => batch[a].pc = "none"

(***************************************************************************)
(* When the last batch comes to its end without having been stopped, every *)
(* model has a result, although an older batch may have been revived       *)
(* (shouldStop is reset) and may have finished before it.                  *)
(***************************************************************************)
BatchCoversAll ==
    \A b \in Batches : batch[b].pc = "ending" /\ Latest(b) => results \cap Models = Models

\* No test of a model hangs: its request is answered or fails.
NoTestHangs == \A m \in Models : []<>(TestsOf(m) = {})

(***************************************************************************)
(* If no test hangs, every batch comes to its end and gives its button     *)
(* back, whether it runs through, is stopped, or is revived beside another *)
(* one by the reset of shouldStop.                                         *)
(***************************************************************************)
BatchEnds ==
    NoTestHangs =>
        \A b \in Batches : batch[b].pc # "none" ~> batch[b].pc = "over" /\ ~isBatchTesting

=============================================================================
