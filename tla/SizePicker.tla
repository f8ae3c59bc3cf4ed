----------------------------- MODULE SizePicker -----------------------------
(***************************************************************************)
(* The custom size of the Create page: SizeCustomModal with its catalog,   *)
(* its two fields and its preview, and the parameter it sets, which the    *)
(* parameters of the page keep or drop when the capabilities change.       *)
(***************************************************************************)
EXTENDS Integers

CONSTANTS
    Typed,     \* bound: the numbers typed into a field, 0 and illegal ones among them
    Catalog,   \* the sizes of CATALOG, <<w, h>>
    Fixed      \* a size the model lists itself, <<w, h>>

VARIABLES
    size,      \* params.size, or NoSize
    custom,    \* capabilities.size_allow_custom
    open,      \* showSizeCustom
    w, h,      \* the fields; Blank when empty
    preview,
    touched

sizeVars == <<size, custom, open, w, h, preview, touched>>

Blank  == -1
NoSize == <<0, 0>>
DefaultPreview == <<2560, 1440>>
Sides  == Typed \cup {c[i] : c \in Catalog \cup {Fixed, DefaultPreview}, i \in {1, 2}}
Sizes  == Sides \X Sides

Greater(a, b) == IF a > b THEN a ELSE b
Smaller(a, b) == IF a > b THEN b ELSE a

\* the backend's validate_custom_size
Accepted(s) ==
    /\ s[1] > 0 /\ s[2] > 0
    /\ s[1] % 16 = 0 /\ s[2] % 16 = 0
    /\ Greater(s[1], s[2]) <= 3840
    /\ s[1] * s[2] >= 655360 /\ s[1] * s[2] <= 8294400
    /\ Greater(s[1], s[2]) <= 3 * Smaller(s[1], s[2])

\* mutant: the smallest area is forgotten
isValidSizeLoose(s) ==
    /\ s[1] > 0 /\ s[2] > 0
    /\ s[1] % 16 = 0 /\ s[2] % 16 = 0
    /\ Greater(s[1], s[2]) <= 3840 /\ s[1] * s[2] <= 8294400
    /\ Greater(s[1], s[2]) <= 3 * Smaller(s[1], s[2])

isValidSize(s) ==
    LET long == Greater(s[1], s[2])
        short == Smaller(s[1], s[2])
    IN /\ short > 0
       /\ s[1] % 16 = 0 /\ s[2] % 16 = 0
       /\ long <= 3840
       /\ s[1] * s[2] >= 655360 /\ s[1] * s[2] <= 8294400
       /\ long <= 3 * short

SizeTypeOK ==
    /\ size \in Sizes \cup {NoSize} /\ preview \in Sizes
    /\ {w, h} \subseteq Sides \cup {Blank}
    /\ {custom, open, touched} \subseteq BOOLEAN

SizeInit ==
    /\ size = NoSize /\ custom = TRUE /\ open = FALSE
    /\ w = Blank /\ h = Blank /\ preview = DefaultPreview /\ touched = FALSE

\* the effect on [open, initialValue] of an open modal
Seeded(initial) ==
    IF initial # NoSize
    THEN w' = initial[1] /\ h' = initial[2] /\ preview' = initial
    ELSE w' = Blank /\ h' = Blank /\ preview' = DefaultPreview

Open ==
    /\ custom /\ ~open
    /\ open' = TRUE
    /\ Seeded(size)
    /\ UNCHANGED <<size, custom, touched>>

\* Escape, Cancel, the cross or the backdrop
Close ==
    /\ open
    /\ open' = FALSE /\ touched' = FALSE
    /\ UNCHANGED <<size, custom, w, h, preview>>

\* mutant: a catalog size is shown and not written into the fields
pickShown(item) == /\ open /\ preview' = item /\ touched' = FALSE
                   /\ UNCHANGED <<size, custom, open, w, h>>

pickFromCatalog(item) ==
    /\ open
    /\ w' = item[1] /\ h' = item[2] /\ preview' = item /\ touched' = FALSE
    /\ UNCHANGED <<size, custom, open>>

\* the preview follows the fields while both hold a positive number
Previewed(a, b) == preview' = IF a > 0 /\ b > 0 THEN <<a, b>> ELSE preview

onWChange(v) ==
    /\ open /\ v # w
    /\ w' = v /\ touched' = TRUE
    /\ Previewed(v, h)
    /\ UNCHANGED <<size, custom, open, h>>

onHChange(v) ==
    /\ open /\ v # h
    /\ h' = v /\ touched' = TRUE
    /\ Previewed(w, v)
    /\ UNCHANGED <<size, custom, open, w>>

\* the button, or Enter in a field
applyPreview ==
    /\ open
    /\ IF isValidSize(preview)
       THEN size' = preview /\ open' = FALSE /\ touched' = FALSE
       ELSE touched' = TRUE /\ UNCHANGED <<size, open>>
    /\ UNCHANGED <<custom, w, h, preview>>

\* a chip of the model's list, or the cross beside a custom size
SetSize(s) ==
    /\ ~open /\ s # size
    /\ size' = s
    /\ UNCHANGED <<custom, open, w, h, preview, touched>>

\* another model, or the catalog read again: reconcileParams; an open modal is seeded again
Reconciled ==
    /\ custom' = ~custom
    /\ size' = IF size \in {NoSize, Fixed} \/ (custom' /\ isValidSize(size)) THEN size ELSE NoSize
    /\ IF open /\ size' # size THEN Seeded(size') ELSE UNCHANGED <<w, h, preview>>
    /\ UNCHANGED <<open, touched>>

SizeNext ==
    \/ Open \/ Close \/ applyPreview \/ Reconciled
    \/ \E item \in Catalog : pickFromCatalog(item)
    \/ \E v \in Typed \cup {Blank} : onWChange(v) \/ onHChange(v)
    \/ SetSize(NoSize) \/ SetSize(Fixed)

SizeSpec == SizeInit /\ [][SizeNext]_sizeVars

-----------------------------------------------------------------------------
\* A size chosen in the modal is one the backend accepts: the two validators agree on
\* every boundary, whatever was typed, previewed, cleared and reopened before.
ChosenIsAccepted == size \notin {NoSize, Fixed} => Accepted(size)

\* While both fields of the open modal hold a number, the preview, which is what Apply
\* commits, is that size.
PreviewIsTyped == open /\ w > 0 /\ h > 0 => preview = <<w, h>>

SizeSafe == ChosenIsAccepted /\ PreviewIsTyped

\* SizeCustomModal: "the preview always tracks either the last-clicked preset or the
\* current manual values".  An emptied field leaves a size that is neither.
PreviewTracks == open => preview = <<w, h>> \/ preview \in Catalog \cup {DefaultPreview, size}
=============================================================================
