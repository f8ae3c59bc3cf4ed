----------------------------- MODULE OutputCount -----------------------------
(***************************************************************************)
(* OutputCountSlider: how many images are asked for.  The number lives in  *)
(* the page's parameters; the text of its field is a state of its own,     *)
(* seeded again when the number shown changes; the bound comes from the    *)
(* model and changes under it.                                             *)
(***************************************************************************)
EXTENDS Integers

CONSTANT MaxCount   \* bound: the largest capability

VARIABLES
    max,      \* the model's bound; 0 where the field is disabled
    value,    \* params.n
    text,     \* inputText; Blank when empty
    capped,   \* clampShown
    dragging, \* draggingRef
    handed,   \* the last number handed to the page and the bound it was for
    lowered   \* the bound was once lowered under the number

countVars == <<max, value, text, capped, dragging, handed, lowered>>

Blank == -1
Texts == 0..(MaxCount + 1)
EffectiveMax(m) == IF m >= 1 THEN m ELSE 1

clamp(n, top) == IF n < 1 THEN 1 ELSE IF n > top THEN top ELSE n
Display(v, m) == clamp(v, EffectiveMax(m))
HardDisabled == max <= 1

CountTypeOK ==
    /\ max \in 0..MaxCount /\ value \in 1..MaxCount
    /\ text \in Texts \cup {Blank} /\ {capped, dragging, lowered} \subseteq BOOLEAN
    /\ handed.n \in 1..MaxCount /\ handed.max \in 0..MaxCount

CountInit ==
    /\ max = MaxCount /\ value = 1 /\ text = 1 /\ capped = FALSE /\ dragging = FALSE
    /\ handed = [n |-> 1, max |-> MaxCount] /\ lowered = FALSE

\* the effect on [display]
Reseeded(typed) ==
    text' = IF Display(value', max') # Display(value, max) /\ typed # Display(value', max')
            THEN Display(value', max') ELSE typed

\* mutant: a number that comes out the same leaves the text as it was typed
commitQuiet(n, typed) ==
    /\ ~HardDisabled /\ UNCHANGED <<max, dragging, lowered>>
    /\ LET next == clamp(n, EffectiveMax(max)) IN
       /\ capped' = (n > EffectiveMax(max))
       /\ value' = next
       /\ handed' = [n |-> next, max |-> max]
       /\ Reseeded(typed)

\* commit(n) after the text became `typed`
commit(n, typed) ==
    /\ ~HardDisabled /\ UNCHANGED <<max, dragging, lowered>>
    /\ LET next == clamp(n, EffectiveMax(max)) IN
       /\ capped' = (n > EffectiveMax(max))
       /\ value' = next
       /\ IF next # value
          THEN handed' = [n |-> next, max |-> max] /\ Reseeded(typed)
          ELSE handed' = handed /\ text' = next

Type(t) ==
    /\ t # text
    /\ IF t = Blank
       THEN ~HardDisabled /\ text' = Blank /\ UNCHANGED <<max, value, capped, dragging, handed, lowered>>
       ELSE commit(t, t)

Blur == text < 1 /\ commit(1, text)

\* arrows, Home, End, PageUp and PageDown, in the field and on the thumb
Step(n) == commit(n, text)

Preset(n) == n <= EffectiveMax(max) /\ commit(n, text)

onTrackDown(n) ==
    /\ ~HardDisabled /\ ~dragging /\ dragging' = TRUE /\ UNCHANGED <<max, lowered>>
    /\ LET next == clamp(n, EffectiveMax(max)) IN
       /\ value' = next /\ capped' = FALSE
       /\ IF next # value
          THEN handed' = [n |-> next, max |-> max] /\ Reseeded(text)
          ELSE handed' = handed /\ text' = next

onTrackMove(n) == dragging /\ n <= EffectiveMax(max) /\ commit(n, text)
onTrackUp == dragging /\ dragging' = FALSE /\ UNCHANGED <<max, value, text, capped, handed, lowered>>

NoticeEnds == capped /\ capped' = FALSE /\ UNCHANGED <<max, value, text, dragging, handed, lowered>>

\* another model: reconcileParams brings the number within the new bound
ModelChanges(m) ==
    /\ m # max /\ max' = m
    /\ value' = IF m >= 1 /\ value > m THEN m ELSE value
    /\ Reseeded(text)
    /\ UNCHANGED <<capped, dragging, handed, lowered>>

\* the same model read again with another bound: the parameters stay
BoundChanges(m) ==
    /\ m # max /\ max' = m
    /\ lowered' = (lowered \/ value > EffectiveMax(m))
    /\ UNCHANGED <<value, capped, dragging, handed>>
    /\ Reseeded(text)

CountNext ==
    \/ \E t \in Texts \cup {Blank} : Type(t)
    \/ Blur \/ onTrackUp \/ NoticeEnds
    \/ \E n \in {Display(value, max) - 1, Display(value, max) + 1, 1, EffectiveMax(max)} : Step(n)
    \/ \E n \in 1..MaxCount : Preset(n) \/ onTrackDown(n) \/ onTrackMove(n)
    \/ \E m \in 0..MaxCount : ModelChanges(m) \/ BoundChanges(m)

CountSpec == CountInit /\ [][CountNext]_countVars

-----------------------------------------------------------------------------
\* What the control hands on lies within the bound it had then, however it was entered.
HandedWithinBound == handed.n <= EffectiveMax(handed.max)

\* The field shows the number that Generate uses, unless it is emptied to be retyped, through
\* every order of typing, dragging, stepping and changes of model: as long as no reading of
\* the same model lowered its bound under the number.
TextIsCount == text > 0 /\ ~lowered => text = Display(value, max)

CountSafe == HandedWithinBound /\ TextIsCount

\* OutputCountSlider: the text is "re-seeded from the controlled display value when the two
\* genuinely disagree".  A bound lowered under the number stops that: typing more changes the
\* number and not the display, and the effect hears of the display only.
TextIsDisplay == text > 0 => text = Display(value, max)
=============================================================================
