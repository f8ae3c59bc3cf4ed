--------------------------- MODULE ArchivePaging ----------------------------
(***************************************************************************)
(* The pages of the archive list (useArchivePagination): a run of loaded   *)
(* pages, pulled in one after the other at the bottom of the list, against *)
(* a list that grows and shrinks under the events of the server.  The stop *)
(* timer acts on the pages and the total it saw when the scrolling ended.  *)
(***************************************************************************)
EXTENDS Integers

CONSTANTS
    PageSize,
    MaxItems    \* bound: rows of the list

VARIABLES
    count,      \* items
    loaded,     \* loadedPages
    viewport,   \* viewportPage
    committing, \* isCommitting
    armed       \* the stop timer, with what it captured

pagingVars == <<count, loaded, viewport, committing, armed>>

Pages(n) == (n + PageSize - 1) \div PageSize
Total    == Pages(count)
NoTimer  == [last |-> 0, total |-> 0]

\* lastLoaded
LastLoaded == CHOOSE p \in loaded : \A q \in loaded : q <= p

MaxPages == Pages(MaxItems) + 1

PagingTypeOK ==
    /\ count \in 0..MaxItems
    /\ loaded \subseteq 1..MaxPages /\ loaded # {}
    /\ viewport \in loaded
    /\ committing \in BOOLEAN
    /\ armed \in [last : 0..MaxPages, total : 0..MaxPages]

PagingInit ==
    /\ count = 0
    /\ loaded = {1} /\ viewport = 1
    /\ committing = FALSE
    /\ armed = NoTimer

\* without the clamp
Unclamped(total) == IF total = 0 THEN {1} ELSE loaded

\* loaded pages behind the end are dropped when the number of pages changes
Clamped(total) ==
    LET kept == {p \in loaded : p <= total}
    IN IF total = 0 THEN {1} ELSE IF kept = {} THEN {total} ELSE kept

Lesser(a, b) == IF a <= b THEN a ELSE b
Greater(a, b) == IF a >= b THEN a ELSE b

\* a row appears or disappears
ItemsChange ==
    /\ \E n \in 0..MaxItems : count' = n
    /\ IF Pages(count') = Total THEN UNCHANGED <<loaded, viewport>>
       ELSE /\ loaded' = Clamped(Pages(count'))
            /\ viewport' = Lesser(viewport, Greater(1, Pages(count')))
    /\ UNCHANGED <<committing, armed>>

\* onScroll finds the page under the anchor and restarts the stop timer
Scroll ==
    /\ ~committing
    /\ \E p \in loaded : viewport' = p
    /\ armed' = [last |-> LastLoaded, total |-> Total]
    /\ UNCHANGED <<count, loaded, committing>>

\* the page after the one in view
WithNextInView(total) == IF viewport + 2 > total THEN loaded ELSE loaded \cup {viewport + 2}

\* commitNextPage of the render that armed the timer: the pages are read
\* afresh, the total is not
WithNext(total) ==
    LET next == LastLoaded + 1 IN IF next > total THEN loaded ELSE loaded \cup {next}

\* the scrolling has stopped far enough below the end, or the list snaps back
Stop ==
    /\ armed # NoTimer
    /\ armed' = NoTimer
    /\ \/ armed.last < armed.total /\ loaded' = WithNext(armed.total) /\ committing' = TRUE
       \/ UNCHANGED <<loaded, committing>>
    /\ UNCHANGED <<count, viewport>>

\* the commit timer
Committed ==
    /\ committing
    /\ committing' = FALSE
    /\ UNCHANGED <<count, loaded, viewport, armed>>

JumpTo(p) ==
    /\ ~committing /\ Total > 0
    /\ LET target == Greater(1, Lesser(Total, p)) IN loaded' = {target} /\ viewport' = target
    /\ UNCHANGED <<count, committing, armed>>

\* the pager's two arrows
Jump == JumpTo(viewport - 1) \/ JumpTo(viewport + 1)

\* the filter or the order has changed
ResetPages ==
    /\ loaded' = {1} /\ viewport' = 1
    /\ committing' = FALSE
    /\ UNCHANGED <<count, armed>>

PagingNext == ItemsChange \/ Scroll \/ Stop \/ Committed \/ Jump \/ ResetPages

PagingSpec == PagingInit /\ [][PagingNext]_pagingVars

-----------------------------------------------------------------------------
\* The visible items are one slice of the sorted list: no loaded page is
\* followed by a gap, whatever timers fire between jumps, resets and
\* changes of the list.
NoGapInView == \A p, q \in loaded : \A r \in p..q : r \in loaded

\* The list never shows more than one empty page behind its end, the one
\* that a stop timer may add which was armed before the list shrank.
OneEmptyPageAtMost == Total > 0 => LastLoaded <= Total + 1

\* What totalPages is for: no page is loaded that the list does not have.
NoEmptyPage == Total > 0 => LastLoaded <= Total
=============================================================================
