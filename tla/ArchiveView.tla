----------------------------- MODULE ArchiveView ----------------------------
(***************************************************************************)
(* What opens over the archive list: the drawer of a row, the full page of *)
(* a set with its panels and its own drawer, and the lightbox with its     *)
(* swipes.  Rows leave the list under the user's hands when events change  *)
(* or delete them.                                                         *)
(*                                                                         *)
(* Indices of panels start at 0 and pages at 1, as in the code.            *)
(***************************************************************************)
EXTENDS Integers, FiniteSets, Sequences

CONSTANTS
    ListRows,       \* 1..n: rows in the order of the list
    PanelPicture,   \* the picture each panel shows: one entry per panel
    PanelsPerPage

VARIABLES
    shown,      \* rows whose cards are visible singles
    stored,     \* rows in the store
    drawer,     \* drawerHash, or 0
    setOpen,    \* setDetailId
    panels,     \* number of panels the open set expands to
    panel,      \* setDetailPanelIdx, or -1
    panelOpen,  \* setDetailDrawerOpen
    setPage,    \* setDetailPage
    lightbox,   \* lightboxOpen
    closing,    \* its closing animation
    zoomed,
    peek,       \* where the picture is: at rest, dragged, or thrown off
    swipe,      \* the swipe under way and whether it began at an edge
    fly         \* the direction of the throw whose timer runs

viewVars == <<shown, stored, drawer, setOpen, panels, panel, panelOpen, setPage, lightbox,
              closing, zoomed, peek, swipe, fly>>

MaxPanels == Len(PanelPicture)
Nothing   == -1
NoSwipe   == [dir |-> "none", strong |-> FALSE, edge |-> FALSE]

PageOf(i) == i \div PanelsPerPage + 1

ViewTypeOK ==
    /\ shown \subseteq stored /\ stored \subseteq ListRows
    /\ drawer \in ListRows \cup {0}
    /\ setOpen \in BOOLEAN /\ panelOpen \in BOOLEAN /\ lightbox \in BOOLEAN
    /\ panels \in 1..MaxPanels /\ panel \in {Nothing} \cup 0..(MaxPanels - 1)
    /\ panelOpen => setOpen /\ panel # Nothing
    /\ setPage \in 1..PageOf(MaxPanels - 1)
    /\ closing \in BOOLEAN /\ zoomed \in BOOLEAN
    /\ peek \in {"rest", "drag", "out"}
    /\ swipe.dir \in {"none", "left", "right"} /\ fly \in {"none", "left", "right"}
    /\ swipe.dir # "none" => peek = "drag"

ViewInit ==
    /\ shown = ListRows /\ stored = ListRows
    /\ drawer = 0
    /\ setOpen = FALSE /\ panels = MaxPanels
    /\ panel = Nothing /\ panelOpen = FALSE /\ setPage = 1
    /\ lightbox = FALSE /\ closing = FALSE /\ zoomed = FALSE
    /\ peek = "rest" /\ swipe = NoSwipe /\ fly = "none"

\* setDrawerRow or drawerRow exists
DrawerShown == IF setOpen THEN panelOpen /\ panel < panels ELSE drawer \in stored

LightboxShown == lightbox /\ DrawerShown

\* position and total as the lightbox is told; 0 when the row is no visible
\* single
Position == IF setOpen THEN panel + 1
            ELSE IF drawer \in shown THEN Cardinality({r \in shown : r <= drawer}) ELSE 0
Total    == IF setOpen THEN panels ELSE Cardinality(shown)

\* the picture that decides whether the lightbox starts afresh
Picture == IF setOpen THEN <<"panel", IF panel \in 0..(panels - 1) THEN PanelPicture[panel + 1] ELSE "none">>
           ELSE <<"row", drawer>>

\* a new picture resets zoom and position (the effect on row and order)
Afresh ==
    IF Picture' = Picture THEN UNCHANGED <<zoomed, peek>>
    ELSE /\ zoomed' = FALSE
         /\ peek' = IF swipe'.dir = "none" THEN "rest" ELSE peek

-----------------------------------------------------------------------------
(* List, set and drawers.  The lightbox covers everything below it.         *)

\* entering and leaving a set resets panel, page and lightbox
ResetSet ==
    /\ panel' = Nothing /\ panelOpen' = FALSE /\ setPage' = 1
    /\ lightbox' = FALSE /\ closing' = FALSE /\ zoomed' = FALSE
    /\ peek' = "rest" /\ swipe' = NoSwipe /\ fly' = "none"

ClickRow(r) ==
    /\ ~setOpen /\ ~LightboxShown /\ r \in shown
    /\ drawer' = r
    /\ UNCHANGED <<shown, stored, setOpen, panels, panel, panelOpen, setPage, lightbox, closing, swipe, fly>>
    /\ Afresh

ClickSet ==
    /\ ~setOpen /\ ~LightboxShown
    /\ drawer' = 0 /\ setOpen' = TRUE
    /\ panels' \in 1..MaxPanels
    /\ ResetSet
    /\ UNCHANGED <<shown, stored>>

\* back, close set, or Escape while the page's own handler is installed
LeaveSet ==
    /\ setOpen /\ ~LightboxShown
    /\ setOpen' = FALSE /\ panels' = MaxPanels
    /\ ResetSet
    /\ UNCHANGED <<shown, stored, drawer>>

ClickPanel(i) ==
    /\ setOpen /\ ~LightboxShown /\ i < panels /\ PageOf(i) = setPage
    /\ panel' = i /\ panelOpen' = TRUE /\ setPage' = PageOf(i)
    /\ UNCHANGED <<shown, stored, drawer, setOpen, panels, lightbox, closing, swipe, fly>>
    /\ Afresh

ChangePage(p) ==
    /\ setOpen /\ ~LightboxShown /\ setPage' = p
    /\ UNCHANGED <<shown, stored, drawer, setOpen, panels, panel, panelOpen, lightbox, closing, zoomed, peek, swipe, fly>>

\* prev and next over every stored row
NeighbourStored(d) ==
    LET side == {r \in stored : IF d = "left" THEN r > drawer ELSE r < drawer}
    IN IF side = {} THEN drawer
       ELSE IF d = "left" THEN CHOOSE r \in side : \A q \in side : r <= q
                          ELSE CHOOSE r \in side : \A q \in side : r >= q

\* prev and next of the list move among the visible singles only
Neighbour(d) ==
    IF drawer \notin shown THEN drawer
    ELSE LET side == {r \in shown : IF d = "left" THEN r > drawer ELSE r < drawer}
         IN IF side = {} THEN drawer
            ELSE IF d = "left" THEN CHOOSE r \in side : \A q \in side : r <= q
                               ELSE CHOOSE r \in side : \A q \in side : r >= q

\* nextPanel without its end
PanelBesideUnclamped(d) == IF d = "left" THEN panel + 1 ELSE IF panel > 0 THEN panel - 1 ELSE 0

\* prevPanel stops at 0 and nextPanel at the last panel; a panel the set lost
\* is left panel by panel
PanelBeside(d) == IF d = "left" THEN IF panel + 1 < panels THEN panel + 1 ELSE panels - 1
                  ELSE IF panel > 0 THEN panel - 1 ELSE 0

Step(d) ==
    IF setOpen
    THEN /\ panel' = PanelBeside(d)
         /\ setPage' = PageOf(panel')
         /\ UNCHANGED drawer
    ELSE drawer' = Neighbour(d) /\ UNCHANGED <<panel, setPage>>

\* a button of the drawer or the lightbox, or [ and ]
Navigate(d) ==
    /\ DrawerShown
    /\ Step(d)
    /\ UNCHANGED <<shown, stored, setOpen, panels, panelOpen, lightbox, closing, swipe, fly>>
    /\ Afresh

\* close: the drawer's cross, under the lightbox out of reach
CloseDrawer ==
    /\ DrawerShown /\ ~LightboxShown
    /\ IF setOpen THEN panelOpen' = FALSE /\ UNCHANGED <<drawer, lightbox>>
       ELSE drawer' = 0 /\ lightbox' = FALSE /\ UNCHANGED panelOpen
    /\ UNCHANGED <<shown, stored, setOpen, panels, panel, setPage, closing, zoomed, peek, swipe, fly>>

\* Escape reaches the listeners of the drawer and of the lightbox, in the
\* order of their registration: the drawer always closes, the lightbox's
\* listener may be gone by then
Escape ==
    /\ DrawerShown
    /\ \/ closing' = closing
       \/ LightboxShown /\ closing' = TRUE
    /\ IF setOpen THEN panelOpen' = FALSE /\ UNCHANGED <<drawer, lightbox>>
       ELSE drawer' = 0 /\ lightbox' = FALSE /\ UNCHANGED panelOpen
    /\ UNCHANGED <<shown, stored, setOpen, panels, panel, setPage, zoomed, peek, swipe, fly>>

-----------------------------------------------------------------------------
(* Lightbox *)

OpenLightbox ==
    /\ DrawerShown
    /\ lightbox' = TRUE
    /\ UNCHANGED <<shown, stored, drawer, setOpen, panels, panel, panelOpen, setPage, closing, zoomed, peek, swipe, fly>>

\* the cross, or a click beside the picture at fit: 180 ms of animation
CloseLightbox ==
    /\ LightboxShown
    /\ closing' = TRUE
    /\ UNCHANGED <<shown, stored, drawer, setOpen, panels, panel, panelOpen, setPage, lightbox, zoomed, peek, swipe, fly>>

Closed ==
    /\ closing
    /\ closing' = FALSE /\ lightbox' = FALSE
    /\ UNCHANGED <<shown, stored, drawer, setOpen, panels, panel, panelOpen, setPage, zoomed, peek, swipe, fly>>

\* wheel, keys, buttons and double click; panning changes nothing here
Zoom ==
    /\ LightboxShown /\ fly = "none"
    /\ zoomed' = ~zoomed
    /\ UNCHANGED <<shown, stored, drawer, setOpen, panels, panel, panelOpen, setPage, lightbox, closing, peek, swipe, fly>>

AtEdge(d) == Position # 0 /\ (IF d = "left" THEN Position >= Total ELSE Position <= 1)

\* a horizontal wheel event at fit; the inertia after a throw is ignored
Wheel(d) ==
    /\ LightboxShown /\ ~zoomed /\ fly = "none"
    /\ \E strong \in BOOLEAN : swipe' = [dir |-> d, strong |-> strong, edge |-> AtEdge(d)]
    /\ peek' = "drag"
    /\ UNCHANGED <<shown, stored, drawer, setOpen, panels, panel, panelOpen, setPage, lightbox, closing, zoomed, fly>>

\* the swipe's timer: far or fast enough, and not at an edge when it began
SwipeEnds ==
    /\ swipe.dir # "none"
    /\ IF swipe.strong /\ ~swipe.edge
       THEN fly' = swipe.dir /\ peek' = "out"
       ELSE peek' = "rest" /\ UNCHANGED fly
    /\ swipe' = NoSwipe
    /\ UNCHANGED <<shown, stored, drawer, setOpen, panels, panel, panelOpen, setPage, lightbox, closing, zoomed>>

\* the throw is over: prev or next of the present render.  Nothing but the
\* change of picture brings the picture back.
Flown ==
    /\ fly # "none"
    /\ fly' = "none"
    /\ Step(fly)
    /\ UNCHANGED <<shown, stored, setOpen, panels, panelOpen, lightbox, closing, swipe>>
    /\ Afresh

-----------------------------------------------------------------------------
(* Events of the server.  A row that changes behind an open set is seen when *)
(* the set is left, and members that come or go when it is opened: rows     *)
(* change while no set is open, and members while it is.                    *)

\* the row changes so that the filter drops it, or lets it in again
Refilter(r) ==
    /\ ~setOpen /\ r \in stored
    /\ shown' = IF r \in shown THEN shown \ {r} ELSE shown \cup {r}
    /\ UNCHANGED <<stored, drawer, setOpen, panels, panel, panelOpen, setPage, lightbox, closing, zoomed, peek, swipe, fly>>

\* the row is deleted: the drawer shows nothing, its hash stays
RowGone(r) ==
    /\ ~setOpen /\ r \in stored
    /\ stored' = stored \ {r} /\ shown' = shown \ {r}
    /\ UNCHANGED <<drawer, setOpen, panels, panel, panelOpen, setPage, lightbox, closing, zoomed, peek, swipe, fly>>

\* members of the set come and go; a set without members is left
PanelsChange ==
    \/ /\ setOpen /\ panels' \in 1..MaxPanels
       /\ UNCHANGED <<shown, stored, drawer, setOpen, panel, panelOpen, setPage, lightbox, closing, swipe, fly>>
       /\ Afresh
    \/ /\ setOpen
       /\ setOpen' = FALSE /\ panels' = MaxPanels
       /\ ResetSet
       /\ UNCHANGED <<shown, stored, drawer>>

ViewTimers == Closed \/ SwipeEnds \/ Flown

ViewNext ==
    \/ ClickSet \/ LeaveSet \/ CloseDrawer \/ Escape \/ OpenLightbox \/ CloseLightbox \/ Zoom
    \/ ViewTimers \/ PanelsChange
    \/ \E r \in ListRows : ClickRow(r) \/ Refilter(r) \/ RowGone(r)
    \/ \E i \in 0..(MaxPanels - 1) : ClickPanel(i) \/ ChangePage(PageOf(i))
    \/ \E d \in {"left", "right"} : Navigate(d) \/ Wheel(d)

ViewSpec == ViewInit /\ [][ViewNext]_viewVars /\ WF_viewVars(ViewTimers)

-----------------------------------------------------------------------------
\* Whatever moves the panel, the page shown is the panel's, and a move forward
\* stays within the set as it is then: a throw ends long after it began.
PanelOnItsPage ==
    [][panel' # panel /\ panel' # Nothing
         => setPage' = PageOf(panel') /\ (panel' > panel => panel' < panels)]_viewVars

\* One swipe, key or click moves the drawer to the next visible row at most,
\* although timers act long after the list was looked at.
MovesToNeighbour ==
    [][drawer' # drawer /\ drawer # 0 /\ drawer' # 0 /\ DrawerShown' /\ LightboxShown
         => drawer' \in shown /\ drawer \in shown
            /\ \A q \in shown : ~(drawer < q /\ q < drawer') /\ ~(drawer' < q /\ q < drawer)]_viewVars

\* Lightbox: "clicking the preview opens this".
LightboxOnRequest == [][LightboxShown' /\ ~LightboxShown => lightbox' # lightbox]_viewVars

\* "closing this leaves the drawer open"
DrawerOutlivesLightbox ==
    [][LightboxShown /\ ~LightboxShown' /\ panels' = panels /\ stored' = stored => DrawerShown']_viewVars

\* ArchivePage: while the panel's drawer is open, its own handler takes Escape.
EscapeIsHeard == setOpen /\ panelOpen => DrawerShown

\* Lightbox: "The row/image change will reset peek".
ThrownPictureReturns == peek = "out" ~> peek # "out" \/ ~LightboxShown
=============================================================================
