---------------------------- MODULE CreateModels ----------------------------
(***************************************************************************)
(* The model of the Create page and its parameters: the catalog is read    *)
(* again on events and before a late Generate, each model remembers its    *)
(* parameters (useStickyState), and what is sent comes from the render in  *)
(* which Generate was pressed.                                             *)
(*                                                                         *)
(* A parameter set is one number, which a model's capability bounds (n and *)
(* n_max; options of a list are dropped in the same place).  The effects   *)
(* of one commit run before anything else.                                 *)
(***************************************************************************)
EXTENDS Integers, FiniteSets

CONSTANTS
    Models,
    Order,      \* rank of a model in the catalog
    Preferred,  \* the user's default model, or none
    MaxParam,   \* bound: the largest capability
    MaxServerChanges,
    Fetches     \* catalog requests under way at the same time

VARIABLES
    offered,    \* the server's catalog: what each model's state and bound are
    catalog,    \* the page's copy
    sel,        \* selectedModel, or none
    param,      \* params
    mounted,
    kept,       \* sticky.params_by_model, 0 where there is none
    lastModel,  \* sticky.last_model_id
    armed,      \* the sticky debounce timer
    fetch,      \* requests: idle, or with the model and last model of their render
    pressed,    \* a Generate that awaits the catalog, or is ready to post: model, parameter
                \* and bound of its render
    reverted,   \* a late answer put the selection back
    changes

modelVars == <<offered, catalog, sel, param, mounted, kept, lastModel, armed, fetch, pressed,
               reverted, changes>>

None   == "none"
Entry  == [state : {"on", "off", "absent"}, max : 1..MaxParam]
Idle   == [on |-> FALSE, model |-> None, last |-> None, then |-> FALSE]
NotPressed == [model |-> None, param |-> 1, max |-> 1, ready |-> FALSE]
Unknown == [m \in Models |-> [state |-> "absent", max |-> 1]]

ModelsTypeOK ==
    /\ offered \in [Models -> Entry] /\ catalog \in [Models -> Entry]
    /\ sel \in Models \cup {None} /\ param \in 1..MaxParam
    /\ {mounted, armed, reverted} \subseteq BOOLEAN
    /\ kept \in [Models -> 0..MaxParam] /\ lastModel \in Models \cup {None}
    /\ \A f \in Fetches : fetch[f].model \in Models \cup {None} /\ fetch[f].last \in Models \cup {None}
    /\ pressed \in [model : Models \cup {None}, param : 1..MaxParam, max : 1..MaxParam, ready : BOOLEAN]
    /\ changes \in 0..MaxServerChanges

ModelsInit ==
    /\ offered = [m \in Models |-> [state |-> "on", max |-> MaxParam]]
    /\ catalog = Unknown
    /\ sel = None /\ param = 1 /\ mounted = FALSE
    /\ kept = [m \in Models |-> 0] /\ lastModel = None
    /\ armed = FALSE
    /\ fetch = [f \in Fetches |-> Idle]
    /\ pressed = NotPressed
    /\ reverted = FALSE /\ changes = 0

Lesser(a, b) == IF a < b THEN a ELSE b

\* persistNow: parameters of the present model, under its name
Persisted ==
    IF sel = None THEN UNCHANGED <<kept, lastModel>>
    ELSE kept' = [kept EXCEPT ![sel] = param] /\ lastModel' = sel

\* the effect of a new model: its own parameters, or its defaults, brought
\* within its capabilities; the commit arms the sticky timer
Arrives(m, entry) ==
    /\ sel' = m
    /\ param' = IF m = None THEN param
                ELSE IF kept'[m] = 0 THEN 1 ELSE Lesser(kept'[m], entry.max)
    /\ armed' = (m # None)

\* the model of before keeps its parameters
Stays == UNCHANGED <<sel, param, armed>>

-----------------------------------------------------------------------------
(* The catalog *)

\* an administrator switches a model off or on, withdraws it, or changes its
\* capabilities; the page is told and reads the catalog again
ServerChange ==
    /\ changes < MaxServerChanges /\ changes' = changes + 1
    /\ \E m \in Models : \E e \in Entry :
          e # offered[m] /\ offered' = [offered EXCEPT ![m] = e]
    /\ UNCHANGED <<catalog, sel, param, mounted, kept, lastModel, armed, fetch, pressed, reverted>>

\* refresh of the present render, by mount, event or Retry
Refresh(f) ==
    /\ mounted /\ ~fetch[f].on
    /\ fetch' = [fetch EXCEPT ![f] = [on |-> TRUE, model |-> sel, last |-> lastModel, then |-> FALSE]]
    /\ UNCHANGED <<offered, catalog, sel, param, mounted, kept, lastModel, armed, pressed, reverted,
                   changes>>

Mount ==
    /\ ~mounted
    /\ mounted' = TRUE
    /\ catalog' = Unknown /\ sel' = None /\ param' = 1 /\ armed' = FALSE /\ pressed' = NotPressed
    /\ \E f \in Fetches :
          fetch' = [fetch EXCEPT ![f] = [on |-> TRUE, model |-> None, last |-> lastModel, then |-> FALSE]]
    /\ UNCHANGED <<offered, kept, lastModel, reverted, changes>>

\* first available model, or the first of all
FirstOf(cat) ==
    LET listed == {m \in Models : cat[m].state # "absent"}
        on     == {m \in listed : cat[m].state = "on"}
        best   == IF on # {} THEN on ELSE listed
    IN IF best = {} THEN None ELSE CHOOSE m \in best : \A n \in best : Order[m] <= Order[n]

\* the model used last, the user's default, or the first
Fallback(cat, last) ==
    LET works(m) == m # None /\ cat[m].state = "on"
    IN IF works(last) THEN last ELSE IF works(Preferred) THEN Preferred ELSE FirstOf(cat)

\* the fallback of a refresh, without flushing the model of before
ChosenUnflushed(f) ==
    IF fetch[f].model # None /\ offered[fetch[f].model].state # "absent"
    THEN /\ UNCHANGED <<kept, lastModel>>
         /\ IF fetch[f].model = sel THEN Stays ELSE Arrives(fetch[f].model, offered[fetch[f].model])
         /\ reverted' = (reverted \/ fetch[f].model # sel)
    ELSE /\ UNCHANGED <<kept, lastModel>>
         /\ LET m == Fallback(offered, fetch[f].last)
            IN IF m = sel THEN Stays ELSE Arrives(m, IF m = None THEN Unknown ELSE offered[m])
         /\ UNCHANGED reverted

\* the answer is judged by the model of the render that asked: still listed,
\* it is selected (again); gone, a fallback takes its place after a flush
Chosen(f) ==
    IF fetch[f].model # None /\ offered[fetch[f].model].state # "absent"
    THEN /\ UNCHANGED <<kept, lastModel>>
         /\ IF fetch[f].model = sel THEN Stays ELSE Arrives(fetch[f].model, offered[fetch[f].model])
         /\ reverted' = (reverted \/ fetch[f].model # sel)
    ELSE /\ Persisted
         /\ LET m == Fallback(offered, fetch[f].last)
            IN IF m = sel THEN sel' = m /\ param' = param /\ armed' = FALSE
               ELSE Arrives(m, IF m = None THEN Unknown ELSE offered[m])
         /\ UNCHANGED reverted

\* what a POST carries of a pressed render: its parameter, clamped to its bound
Carried(p) == Lesser(p.param, p.max)

\* a Generate that waited for the catalog goes on
GoesOn(then) == pressed' = IF then THEN [pressed EXCEPT !.ready = TRUE] ELSE pressed

CatalogRead(f) ==
    /\ fetch[f].on
    /\ catalog' = offered
    /\ Chosen(f)
    /\ GoesOn(fetch[f].then)
    /\ fetch' = [fetch EXCEPT ![f] = Idle]
    /\ UNCHANGED <<offered, mounted, changes>>

\* the error is shown; a Generate that waited goes on
CatalogFails(f) ==
    /\ fetch[f].on
    /\ fetch' = [fetch EXCEPT ![f] = Idle]
    /\ GoesOn(fetch[f].then)
    /\ UNCHANGED <<offered, catalog, sel, param, mounted, kept, lastModel, armed, reverted, changes>>

-----------------------------------------------------------------------------
(* The user *)

\* a tile of the strip: parameters are flushed before the model changes
PickModel(m) ==
    /\ mounted /\ catalog[m].state = "on" /\ m # sel
    /\ Persisted
    /\ Arrives(m, catalog[m])
    /\ UNCHANGED <<offered, catalog, mounted, fetch, pressed, reverted, changes>>

\* a control offers what the model's capabilities allow
SetParam(v) ==
    /\ mounted /\ sel # None /\ v # param /\ v <= catalog[sel].max
    /\ param' = v /\ armed' = TRUE
    /\ UNCHANGED <<offered, catalog, sel, mounted, kept, lastModel, fetch, pressed, reverted, changes>>

StickyTimer ==
    /\ armed
    /\ armed' = FALSE
    /\ Persisted
    /\ UNCHANGED <<offered, catalog, sel, param, mounted, fetch, pressed, reverted, changes>>

\* within a minute of the last read the catalog is not read again, later it is
Generate ==
    /\ mounted /\ sel # None /\ pressed = NotPressed /\ catalog[sel].state = "on"
    /\ \E fresh \in BOOLEAN :
          /\ pressed' = [model |-> sel, param |-> param, max |-> catalog[sel].max, ready |-> fresh]
          /\ IF fresh THEN UNCHANGED fetch
             ELSE \E f \in Fetches :
                    /\ ~fetch[f].on
                    /\ fetch' = [fetch EXCEPT ![f] = [on |-> TRUE, model |-> sel, last |-> lastModel,
                                                      then |-> TRUE]]
    /\ UNCHANGED <<offered, catalog, sel, param, mounted, kept, lastModel, armed, reverted, changes>>

\* submit, after the catalog and a captcha: the render of the press is used, and clamping its
\* parameter also corrects the form, of whatever model that shows by now
Posts ==
    /\ pressed.ready /\ pressed' = NotPressed
    /\ param' = IF Carried(pressed) # pressed.param THEN Carried(pressed) ELSE param
    /\ armed' = (armed \/ param' # param)
    /\ UNCHANGED <<offered, catalog, sel, mounted, kept, lastModel, fetch, reverted, changes>>

\* another page: the debounce effect's cleanup disarms the timer before the
\* unmount effect looks at it; a Generate that waits goes on without the form
Leave ==
    /\ mounted
    /\ mounted' = FALSE /\ armed' = FALSE
    /\ pressed' = NotPressed
    /\ fetch' = [f \in Fetches |-> Idle]
    /\ UNCHANGED <<offered, catalog, sel, param, kept, lastModel, reverted, changes>>

\* the tab closes or reloads: an armed timer is flushed
Unload ==
    /\ mounted
    /\ IF armed THEN Persisted ELSE UNCHANGED <<kept, lastModel>>
    /\ mounted' = FALSE /\ armed' = FALSE /\ pressed' = NotPressed
    /\ fetch' = [f \in Fetches |-> Idle]
    /\ UNCHANGED <<offered, catalog, sel, param, reverted, changes>>

ModelsNext ==
    \/ ServerChange \/ Mount \/ StickyTimer \/ Generate \/ Posts \/ Leave \/ Unload
    \/ \E f \in Fetches : Refresh(f) \/ CatalogRead(f) \/ CatalogFails(f)
    \/ \E m \in Models : PickModel(m)
    \/ \E v \in 1..MaxParam : SetParam(v)

ModelsSpec == ModelsInit /\ [][ModelsNext]_modelVars

-----------------------------------------------------------------------------
\* The parameters of a model survive when another takes its place, by a click
\* or because the server withdrew it, even inside the debounce window.  (Not
\* when a late answer puts an older selection back.)
SwitchKeepsParams ==
    [][sel' # sel /\ sel # None /\ mounted /\ mounted' /\ ~reverted'
         => kept'[sel] = param]_modelVars

\* Between edits, what is remembered for the model shown is what is shown.
RestIsRemembered ==
    mounted /\ sel # None /\ ~armed /\ ~reverted => kept[sel] = param

ModelsSafe == RestIsRemembered

\* useStickyState: the unmount flush.
LeaveKeepsParams == [][mounted /\ ~mounted' /\ sel # None => kept'[sel] = param]_modelVars

\* CreatePage: "a model going offline mid-session lands the user on a working
\* pick", re-evaluated on every refresh.
RefreshLandsOnWorkingModel ==
    [][mounted /\ mounted' /\ catalog' # catalog /\ sel' # None
         => catalog'[sel'].state = "on" \/ \A m \in Models : catalog'[m].state # "on"]_modelVars

\* CreatePage: the catalog is read again before a late Generate "so a
\* capability tweak that landed mid-session doesn't surface as a 422".
LateGenerateIsFresh ==
    [][pressed # NotPressed /\ pressed' = NotPressed /\ catalog'[pressed.model].state # "absent"
         => Carried(pressed) <= catalog'[pressed.model].max]_modelVars
=============================================================================
