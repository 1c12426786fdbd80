------------------------------- MODULE History -------------------------------
(***************************************************************************)
(* The IP history on the dashboard: refreshHistory and the paging controls *)
(* of the page (static/app.js:53-76), GET /api/ips (web.go:77-109) and     *)
(* Store.List (store.go:84-117), while the workers write the same table.   *)
(* The search field is another filter on the rows and is left out.         *)
(* Operators named Bad... are plausible mistakes that nothing uses         *)
(* (README, "Mutants").                                                    *)
(***************************************************************************)
EXTENDS Store, Integers, Sequences, FiniteSets

CONSTANTS
    PageSize,       \* rows of a page: 10
    Slots,          \* bound: requests in flight
    MaxClicks,      \* bound: uses of the controls
    MaxFailures     \* bound: requests that fail

ASSUME HistoryAssumption ==
    /\ IPs \subseteq Nat                \* in the order of ORDER BY ip
    /\ IsFiniteSet(IPs)
    /\ 0 \notin Slots
    /\ PageSize \in Nat \ {0} /\ MaxClicks \in Nat /\ MaxFailures \in Nat

VARIABLES
    page, filter,   \* what the controls say
    newest,         \* the slot of request number ipRequest
    historyPending,
    requests,       \* the requests in flight
    mutex,          \* the slot that holds s.mu, 0: nobody's
    shown,          \* the table and its label
    previous, next, \* the buttons are enabled
    clicks, failures

controls == <<page, filter, previous, next, shown, clicks>>
historyVars == <<ips, controls, newest, historyPending, requests, mutex, failures>>

Wanted == [all |-> {"unused", "used"}, true |-> {"used"}, false |-> {"unused"}]
Filters == DOMAIN Wanted

Free == [stage |-> "free", page |-> 0, filter |-> "all", total |-> 0, items |-> <<>>]
Nothing == [error |-> TRUE, page |-> 0, filter |-> "all", total |-> 0, items |-> <<>>]

(* The rows the filter lets through, and the page of them: ORDER BY ip     *)
(* gives each its rank, LIMIT and OFFSET choose from the ranks.            *)
Matches(f) == {a \in IPs : ips[a] \in Wanted[f]}

Rank(a, f) == Cardinality({b \in Matches(f) : b <= a})

OnPage(p, f) == {a \in Matches(f) : Rank(a, f) \in (p - 1) * PageSize + 1 .. p * PageSize}

AtRank(n, f) == CHOOSE a \in Matches(f) : Rank(a, f) = n

Page(p, f) ==
    [i \in 1 .. Cardinality(OnPage(p, f)) |->
        LET a == AtRank((p - 1) * PageSize + i, f) IN <<a, ips[a]>>]

Pages(total) == (total + PageSize - 1) \div PageSize

Rows == IPs \X {"unused", "used"}

Requests == [stage : {"free", "sent", "counted", "listed", "refused"},
             page : Int, filter : Filters, total : Nat, items : Seq(Rows)]

Tables == [error : BOOLEAN, page : Int, filter : Filters, total : Nat, items : Seq(Rows)]

HistoryTypeOK ==
    /\ StoreTypeOK
    /\ page \in Int /\ filter \in Filters
    /\ newest \in Slots /\ mutex \in Slots \union {0}
    /\ historyPending \in BOOLEAN /\ previous \in BOOLEAN /\ next \in BOOLEAN
    /\ clicks \in 0 .. MaxClicks /\ failures \in 0 .. MaxFailures
    /\ requests \in [Slots -> Requests] /\ shown \in Tables

HistoryInit ==
    /\ StoreInit
    /\ page = 1 /\ filter = "all" /\ previous = FALSE /\ next = FALSE
    /\ newest \in Slots /\ historyPending = FALSE
    /\ requests = [r \in Slots |-> Free] /\ mutex = 0
    /\ shown = Nothing
    /\ clicks = 0 /\ failures = 0

----------------------------------------------------------------------------
(* The workers (Pool), between two calls of the store.                     *)

Unlocked == mutex = 0

Write ==
    /\ Unlocked
    /\ \E a \in IPs : (ips[a] = "absent" /\ Observe(a)) \/ Consume(a, TRUE)
    /\ UNCHANGED <<controls, newest, historyPending, requests, mutex, failures>>

----------------------------------------------------------------------------
(* The page                                                                *)

(* refreshHistory up to its fetch, from a free slot.                       *)
Request(r, p, f) ==
    /\ newest' = r /\ historyPending' = TRUE
    /\ requests' = [requests EXCEPT ![r] = [Free EXCEPT !.stage = "sent", !.page = p, !.filter = f]]

Idle(r) == requests[r].stage = "free"

(* A status event, more than 2.5 s after the last request.                 *)
Refresh(r) ==
    /\ ~ historyPending /\ Idle(r)
    /\ Request(r, page, filter)
    /\ UNCHANGED <<ips, controls, mutex, failures>>

(* The controls: a button changes the page at once and asks for it; a      *)
(* button stays enabled until an answer is shown.                          *)
Ask(r, p, f) ==
    /\ clicks < MaxClicks /\ clicks' = clicks + 1
    /\ Idle(r)
    /\ page' = p /\ filter' = f
    /\ Request(r, p, f)
    /\ UNCHANGED <<ips, mutex, shown, previous, next, failures>>

ClickPrevious(r) == previous /\ Ask(r, page - 1, filter)

ClickNext(r) == next /\ Ask(r, page + 1, filter)

Refilter(r) == \E f \in Filters \ {filter} : Ask(r, 1, f)

(* An answer: a late one is dropped; an empty page after the first goes    *)
(* back to the last one; an error changes only the label.                  *)
BadIsNewest(r) == TRUE

IsNewest(r) == r = newest

Settled(r) == IF IsNewest(r) THEN FALSE ELSE historyPending

BadLastPage(total) == total \div PageSize + 1

LastPage(total) == IF Pages(total) > 1 THEN Pages(total) ELSE 1

Drop(r) ==
    /\ requests' = [requests EXCEPT ![r] = Free]
    /\ historyPending' = Settled(r)
    /\ UNCHANGED newest

Overrun(r) == requests[r].stage = "listed" /\ page > 1 /\ requests[r].items = <<>>

StaleAnswer(r) ==
    /\ ~ IsNewest(r) /\ Drop(r)
    /\ UNCHANGED controls

GoBack(r) ==
    /\ IsNewest(r) /\ Overrun(r)
    /\ page' = LastPage(requests[r].total)
    /\ Request(r, LastPage(requests[r].total), filter)
    /\ UNCHANGED <<filter, previous, next, shown, clicks>>

ShowPage(r) ==
    LET a == requests[r] IN
    /\ IsNewest(r) /\ a.stage = "listed" /\ ~ Overrun(r) /\ Drop(r)
    /\ shown' = [error |-> FALSE, page |-> a.page, filter |-> a.filter,
                 total |-> a.total, items |-> a.items]
    /\ previous' = (page # 1) /\ next' = (page * PageSize < a.total)
    /\ UNCHANGED <<page, filter, clicks>>

ShowError(r) ==
    /\ IsNewest(r) /\ requests[r].stage = "refused" /\ Drop(r)
    /\ shown' = [shown EXCEPT !.error = TRUE]
    /\ UNCHANGED <<page, filter, previous, next, clicks>>

Answered(r) ==
    /\ requests[r].stage \in {"listed", "refused"}
    /\ StaleAnswer(r) \/ GoBack(r) \/ ShowPage(r) \/ ShowError(r)
    /\ UNCHANGED <<ips, mutex, failures>>

----------------------------------------------------------------------------
(* The handler of /api/ips and Store.List                                  *)

Serving(r, stage) ==
    /\ requests[r].stage = stage
    /\ UNCHANGED <<ips, controls, newest, historyPending>>

Invalid(r) ==
    /\ Serving(r, "sent") /\ requests[r].page < 1
    /\ requests' = [requests EXCEPT ![r].stage = "refused"]
    /\ UNCHANGED <<mutex, failures>>

(* SELECT COUNT, then SELECT the page, under s.mu.                         *)
CountRows(r) ==
    /\ Serving(r, "sent") /\ requests[r].page >= 1
    /\ mutex = 0 /\ mutex' = r
    /\ requests' = [requests EXCEPT ![r].stage = "counted",
                                    ![r].total = Cardinality(Matches(requests[r].filter))]
    /\ UNCHANGED failures

SelectRows(r) ==
    /\ Serving(r, "counted")
    /\ mutex' = 0
    /\ requests' = [requests EXCEPT ![r].stage = "listed",
                                    ![r].items = Page(requests[r].page, requests[r].filter)]
    /\ UNCHANGED failures

(* The database or the network fails it.                                   *)
Released(r) == IF mutex = r THEN 0 ELSE mutex

RequestFails(r) ==
    /\ \E stage \in {"sent", "counted", "listed"} : Serving(r, stage)
    /\ failures < MaxFailures /\ failures' = failures + 1
    /\ mutex' = Released(r)
    /\ requests' = [requests EXCEPT ![r].stage = "refused"]

HistoryStep(r) == Answered(r) \/ Invalid(r) \/ CountRows(r) \/ SelectRows(r)

HistoryNext ==
    \/ Write
    \/ \E r \in Slots :
          \/ Refresh(r) \/ HistoryStep(r) \/ RequestFails(r)
          \/ ClickPrevious(r) \/ ClickNext(r) \/ Refilter(r)

HistorySpec == HistoryInit /\ [][HistoryNext]_historyVars

(* The browser, the network and the server go on, and status events keep   *)
(* coming.  Nobody has to click, and no worker has to write.               *)
FairSpec ==
    /\ HistorySpec
    /\ WF_historyVars(\E r \in Slots : Refresh(r))
    /\ \A r \in Slots : WF_historyVars(HistoryStep(r))

----------------------------------------------------------------------------
(* Properties                                                              *)

(* Answers may overtake each other, and workers write between any two      *)
(* statements.  The page counts as pending exactly while its newest        *)
(* request is (app.js:66); what is on the screen when nothing is awaited   *)
(* is what the controls ask for (app.js:59), with as many rows as the      *)
(* total beside them says (store.go:28).                                   *)
RowsOf(total, p) ==
    LET left == total - (p - 1) * PageSize IN
    IF left < 0 THEN 0 ELSE IF left < PageSize THEN left ELSE PageSize

ShownIsAsked ==
    /\ historyPending <=> requests[newest].stage # "free"
    /\ historyPending \/ shown.error \/
           /\ shown.page = page /\ shown.filter = filter
           /\ Len(shown.items) = RowsOf(shown.total, page)

(* When the workers and the user are done, the screen comes to show a page *)
(* of the table as it is, going back from pages that no longer exist       *)
(* (app.js:60), unless the page has gone below 1 (PageServed).             *)
Converges ==
    <>[]( \/ page < 1
          \/ /\ ~ shown.error
             /\ shown.total = Cardinality(Matches(filter))
             /\ shown.items = Page(page, filter)
             /\ (shown.items = <<>> => page = 1))

(* "page < 1" is refused (web.go:95), and Previous is disabled on page 1   *)
(* (app.js:64): the page never asks for page 0.                            *)
PageServed == page >= 1
=============================================================================
