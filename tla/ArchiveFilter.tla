---------------------------- MODULE ArchiveFilter ---------------------------
(***************************************************************************)
(* What the archive lists: rows through the applied filter, gathered into  *)
(* sets, sorted (archiveFilter.js), under the filter popover and the sort  *)
(* dropdown, whose choices take effect only when their exit animation is   *)
(* over.  Rows change under the user at any time.                          *)
(*                                                                         *)
(* Of the filter's dimensions the model keeps one choice list (status      *)
(* stands for model and shape, too), the starred switch, and the session,  *)
(* which the URL overrides; the period is a status that changes by itself. *)
(***************************************************************************)
EXTENDS Integers, Sequences, FiniteSets

CONSTANTS
    FilterRows,     \* 1..n in the order of the store
    RowSet,         \* the set a row belongs to, or 0
    RowSession,
    Statuses,
    MaxTime,
    MaxFilterSteps  \* bound: changes of filter, sort and rows

VARIABLES
    facts,      \* each row: time of its last change, starred, status
    applied,    \* the filter of the store
    pending,    \* the popover's copy
    popover,    \* is it shown
    exit,       \* its timer and the dropdown's: what they do when they fire
    sortKey,
    urlSession, \* ?session_id
    chosen,     \* what the user asked of the popover that is closing
    steps

filterVars == <<facts, applied, pending, popover, exit, sortKey, urlSession, chosen, steps>>

None     == 0
Empty    == [status |-> {}, starred |-> FALSE, session |-> None]
Filter   == [status : SUBSET Statuses, starred : BOOLEAN, session : {None} \cup {RowSession[r] : r \in FilterRows}]
SortKeys == {"newest", "oldest", "starred-first", "set-size"}
NoExit   == [act |-> "none", filter |-> Empty, key |-> "newest"]

FilterTypeOK ==
    /\ facts \in [FilterRows -> [time : 0..MaxTime, starred : BOOLEAN, status : Statuses]]
    /\ applied \in Filter /\ pending \in Filter
    /\ popover \in {"none", "filter", "sort"}
    /\ exit.act \in {"none", "close", "apply", "pick"}
    /\ exit.act # "none" => popover # "none"
    /\ sortKey \in SortKeys
    /\ steps \in 0..MaxFilterSteps

FilterInit ==
    /\ facts = [r \in FilterRows |-> [time |-> 0, starred |-> FALSE, status |-> CHOOSE s \in Statuses : TRUE]]
    /\ applied = Empty /\ pending = Empty
    /\ popover = "none" /\ exit = NoExit
    /\ sortKey = "newest" /\ urlSession = None
    /\ chosen = "none" /\ steps = 0

Step == steps < MaxFilterSteps /\ steps' = steps + 1

-----------------------------------------------------------------------------
(* archiveFilter.js *)

\* URL first
Effective == IF urlSession = None THEN applied ELSE [applied EXCEPT !.session = urlSession]

Matches(r, f) ==
    /\ f.status = {} \/ facts[r].status \in f.status
    /\ f.starred => facts[r].starred
    /\ f.session = None \/ RowSession[r] = f.session

Filtered == {r \in FilterRows : Matches(r, Effective)}

\* items: a single row, or the rows of a set that matched
Items == {{r} : r \in {q \in Filtered : RowSet[q] = 0}}
         \cup {{r \in Filtered : RowSet[r] = s} : s \in {RowSet[r] : r \in Filtered} \ {0}}

IsSet(item) == \E r \in item : RowSet[r] # 0
First(item) == CHOOSE r \in item : \A q \in item : r <= q
Times(item) == {facts[r].time : r \in item}
Latest(item)   == CHOOSE t \in Times(item) : \A u \in Times(item) : u <= t
Earliest(item) == CHOOSE t \in Times(item) : \A u \in Times(item) : t <= u
Starred(item)  == \E r \in item : facts[r].starred

\* the order before sorting: singles, then sets by their first row
Built(a, b) ==
    IF IsSet(a) # IsSet(b) THEN IsSet(b) ELSE First(a) < First(b)

\* the key of an item, larger first
Key(item) ==
    CASE sortKey = "newest"        -> <<0, Latest(item)>>
      [] sortKey = "oldest"        -> <<0, -Earliest(item)>>
      [] sortKey = "starred-first" -> <<IF Starred(item) THEN 1 ELSE 0, Latest(item)>>
      [] sortKey = "set-size"      -> <<Cardinality(item), Latest(item)>>

\* sort() is stable
Before(a, b) ==
    LET k == Key(a)  l == Key(b)
    IN \/ k[1] > l[1]
       \/ k[1] = l[1] /\ k[2] > l[2]
       \/ k = l /\ a # b /\ Built(a, b)

Listed ==
    [n \in 1..Cardinality(Items) |->
        CHOOSE a \in Items : Cardinality({b \in Items : Before(b, a)}) = n - 1]

-----------------------------------------------------------------------------
(* The popover and the dropdown *)

\* the trigger toggles; unmounting drops a timer
Toggle(which) ==
    /\ Step
    /\ popover' = IF popover = which THEN "none" ELSE which
    /\ pending' = IF which = "filter" THEN applied ELSE pending
    /\ exit' = NoExit /\ chosen' = "none"
    /\ UNCHANGED <<facts, applied, sortKey, urlSession>>

Edit ==
    /\ popover = "filter" /\ Step
    /\ \E f \in Filter :
          /\ f # pending /\ pending' = f
          /\ Cardinality({k \in DOMAIN f : f[k] # pending[k]}) = 1
          /\ urlSession # None => f.session = pending.session
    /\ UNCHANGED <<facts, applied, popover, exit, sortKey, urlSession, chosen>>

\* a second request while the first one's animation runs takes its place
DeferUnlocked(act, f, k) ==
    /\ exit' = [act |-> act, filter |-> f, key |-> k]
    /\ chosen' = IF chosen = "none" THEN act ELSE chosen
    /\ UNCHANGED <<facts, applied, pending, popover, sortKey, urlSession, steps>>

\* the first request of a popover counts, later ones are ignored
Defer(act, f, k) ==
    /\ exit.act = "none"
    /\ exit' = [act |-> act, filter |-> f, key |-> k]
    /\ chosen' = act
    /\ UNCHANGED <<facts, applied, pending, popover, sortKey, urlSession, steps>>

\* Escape, Cancel, a press outside; Apply or Enter; an entry of the dropdown
Close    == popover # "none" /\ Defer("close", Empty, sortKey)
Apply    == popover = "filter" /\ Defer("apply", pending, sortKey)
PickSort(k) == popover = "sort" /\ Defer("pick", Empty, k)

\* 140 ms later
ExitFires ==
    /\ exit.act # "none"
    /\ popover' = "none" /\ exit' = NoExit /\ chosen' = "none"
    /\ applied' = IF exit.act = "apply" THEN exit.filter ELSE applied
    /\ sortKey' = IF exit.act = "pick" THEN exit.key ELSE sortKey
    /\ UNCHANGED <<facts, pending, urlSession, steps>>

\* the cross of a chip, or "clear filters" of the empty list
RemoveChip ==
    /\ Step
    /\ \/ \E s \in applied.status : applied' = [applied EXCEPT !.status = @ \ {s}]
       \/ applied.starred /\ applied' = [applied EXCEPT !.starred = FALSE]
       \/ applied.session # None /\ applied' = [applied EXCEPT !.session = None]
       \/ Items = {} /\ applied' = Empty
    /\ UNCHANGED <<facts, pending, popover, exit, sortKey, urlSession, chosen>>

\* a link to a session, or back from it
OpenSession ==
    /\ Step
    /\ \E s \in {None} \cup {RowSession[r] : r \in FilterRows} : s # urlSession /\ urlSession' = s
    /\ UNCHANGED <<facts, applied, pending, popover, exit, sortKey, chosen>>

\* a reload: the session is not persisted
Reload ==
    /\ popover = "none" /\ Step
    /\ applied' = [applied EXCEPT !.session = None]
    /\ UNCHANGED <<facts, pending, popover, exit, sortKey, urlSession, chosen>>

\* an event changes a row
RowEvent ==
    /\ Step
    /\ \E r \in FilterRows, s \in Statuses, star \in BOOLEAN :
          /\ facts[r].time < MaxTime
          /\ facts' = [facts EXCEPT ![r] = [time |-> @.time + 1, starred |-> star, status |-> s]]
    /\ UNCHANGED <<applied, pending, popover, exit, sortKey, urlSession, chosen>>

FilterNext ==
    \/ Toggle("filter") \/ Toggle("sort") \/ Edit \/ Close \/ Apply \/ ExitFires
    \/ RemoveChip \/ OpenSession \/ Reload \/ RowEvent
    \/ \E k \in SortKeys : PickSort(k)

FilterSpec == FilterInit /\ [][FilterNext]_filterVars

-----------------------------------------------------------------------------
\* What the user cancels is not applied: until the popover is gone, nothing
\* but its first request can come of it.
FirstRequestCounts == [][exit' # exit /\ ExitFires => chosen = exit.act]_filterVars

\* An event on one row leaves the other cards of the list in their order.
OthersKeepOrder ==
    [][facts' # facts /\ RowEvent =>
        LET moved == {r \in FilterRows : facts'[r] # facts[r]}
            touched(item) == \E r \in item : \E q \in moved : r = q \/ (RowSet[r] # 0 /\ RowSet[r] = RowSet[q])
            others(list) == SelectSeq(list, LAMBDA item : ~touched(item))
        IN others(Listed') = others(Listed)]_filterVars

\* Every row that matches is on exactly one card, and no card is empty.
EveryMatchListedOnce ==
    /\ {} \notin Items /\ UNION Items = Filtered
    /\ \A a, b \in Items : a # b => a \cap b = {}
=============================================================================
