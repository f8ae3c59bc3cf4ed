------------------------------ MODULE Lineage ------------------------------
(***************************************************************************)
(* The lineage panel of the mask editor: which images it shows of the       *)
(* family of the one being edited, where it puts them, and how the arrow    *)
(* keys move between them, while rows arrive from and leave the archive.    *)
(*                                                                         *)
(* A job is a number, later jobs are larger; its row names a parent image   *)
(* and a number of images of its own (a set of images is one row, a batch   *)
(* one row per image).  A node is an image <<job, order>>; the number also  *)
(* stands for updated_at, by which the rows of a level are sorted.          *)
(***************************************************************************)
EXTENDS Naturals, Sequences, FiniteSets, TLC

CONSTANTS
    NJobs,     \* bound: jobs
    MaxImages, \* bound: images of a set
    MaxNodes,  \* MAX_NODES, 200 in the code
    MaxLanes   \* MAX_LANES, 24 in the code

VARIABLES
    rows,      \* the rows of the archive store
    current,   \* the image being edited
    lineage,   \* what useLineage last computed: node -> [depth, lane]
    focus      \* focusKey, or NoFocus

lineageVars == <<rows, current, lineage, focus>>

Jobs   == 1..NJobs
NoRow  == [parent |-> 0, order |-> 0, images |-> 0]
Rows   == [parent : 0..NJobs, order : 1..MaxImages, images : 1..MaxImages]
Nodes  == Jobs \X (1..MaxImages)
NoFocus == <<0, 0>>

Elements(s) == {s[i] : i \in DOMAIN s}

\* ids in ascending order
Ascending(s) ==
    CHOOSE q \in [1..Cardinality(s) -> s] : \A i, k \in DOMAIN q : i < k => q[i] < q[k]

-----------------------------------------------------------------------------
(* computeLineage, of the rows rs *)

Present(rs, j) == rs[j] # NoRow
Children(rs, j) == {k \in Jobs : rs[k].parent = j}

\* findRoot: up to a job without a parent, or one whose row is missing
Root(rs, j) ==
    LET up[x \in Jobs] == IF rs[x].parent = 0 THEN x ELSE up[rs[x].parent] IN up[j]

\* the breadth-first walk from the root, cut at the limit: after[i] is the queue
\* once the i jobs at its head have been expanded
Walk(rs, root) ==
    LET after[i \in 0..NJobs] ==
          IF i = 0 THEN [jobs |-> <<root>>, truncated |-> FALSE]
          ELSE LET w     == after[i - 1]
                   fresh == Ascending(Children(rs, w.jobs[i]) \ Elements(w.jobs))
                   room  == MaxNodes - Len(w.jobs)
               IN IF w.truncated \/ i > Len(w.jobs) THEN w
                  ELSE IF Len(fresh) > room
                  THEN [jobs |-> w.jobs \o SubSeq(fresh, 1, room), truncated |-> TRUE]
                  ELSE [w EXCEPT !.jobs = @ \o fresh]
    IN after[NJobs]

Found(rs, j) == Elements(Walk(rs, Root(rs, j)).jobs)
Truncated(rs, j) == Walk(rs, Root(rs, j)).truncated

\* expandRowIntoMembers; a missing row is a ghost with one node
Width(rs, j) == IF Present(rs, j) THEN rs[j].images ELSE 1
Members(rs, jobs) == {n \in Nodes : n[1] \in jobs /\ n[2] <= Width(rs, n[1])}

\* the parent node, its first image when the one named does not exist
ParentNode(rs, n, nodes) ==
    LET r == rs[n[1]] IN
    IF <<r.parent, r.order>> \in nodes THEN <<r.parent, r.order>> ELSE <<r.parent, 1>>

DepthOf(rs, jobs, root) ==
    [j \in jobs |-> LET d[x \in Jobs] == IF x = root THEN 0 ELSE d[rs[x].parent] + 1 IN d[j]]

\* findFreeRange: the nearest free range, upwards first
Distance(s, p) == IF s >= p THEN 2 * (s - p) ELSE 2 * (p - s) + 1
FreeRange(used, preferred, span) ==
    LET free == {s \in 0..(MaxLanes - span) : \A k \in s..(s + span - 1) : k \notin used} IN
    IF free = {} THEN MaxLanes - span
    ELSE CHOOSE s \in free : \A t \in free : Distance(s, preferred) <= Distance(t, preferred)

Span(rs, j) == IF Width(rs, j) < MaxLanes THEN Width(rs, j) ELSE MaxLanes

\* one level: groups take their places one after the other, near their parents
Level(rs, todo, above) ==
    LET placed[i \in 0..Len(todo)] ==
          IF i = 0 THEN [used |-> {}, starts |-> above]
          ELSE LET before == placed[i - 1]
                   j      == todo[i]
                   p      == rs[j].parent
                   hint   == IF p \in DOMAIN above THEN above[p] ELSE 0
                   start  == FreeRange(before.used, hint, Span(rs, j))
               IN [used   |-> before.used \cup start..(start + Span(rs, j) - 1),
                   starts |-> (j :> start) @@ before.starts]
    IN placed[Len(todo)].starts

\* the levels from the root down
Levels(rs, depths) ==
    LET to[d \in 0..NJobs] ==
          LET above == IF d = 0 THEN [x \in {} |-> 0] ELSE to[d - 1]
          IN Level(rs, Ascending({j \in DOMAIN depths : depths[j] = d}), above)
    IN to[NJobs]

\* lineage(j): node -> [depth, lane]
Places(rs, j) ==
    LET jobs   == Found(rs, j)
        depths == DepthOf(rs, jobs, Root(rs, j))
        starts == Levels(rs, depths)
        offset(n) == IF n[2] <= Span(rs, n[1]) THEN n[2] - 1 ELSE Span(rs, n[1]) - 1
    IN [n \in Members(rs, jobs) |-> [depth |-> depths[n[1]], lane |-> starts[n[1]] + offset(n)]]

\* is_current: the image asked for, or the first of its job
Current(places, image) ==
    IF image \in DOMAIN places THEN image ELSE <<image[1], 1>>

-----------------------------------------------------------------------------
(* pickNeighbor: the next node up or down in the same lane, left or right on *)
(* the same level; nodes that share a place are passed over one by one       *)

Directions == {"up", "down", "left", "right"}

Before(a, b, n, m) == a < b \/ (a = b /\ (n[1] < m[1] \/ (n[1] = m[1] /\ n[2] < m[2])))

Along(places, n, axis) ==
    {m \in DOMAIN places : IF axis = "depth" THEN places[m].lane = places[n].lane
                                             ELSE places[m].depth = places[n].depth}

\* mutant: only the next level or the next lane is looked at
NeighbourBeside(places, n, dir) ==
    LET beside == {m \in Along(places, n, IF dir \in {"up", "down"} THEN "depth" ELSE "lane") :
            CASE dir = "up"    -> places[m].depth + 1 = places[n].depth
              [] dir = "down"  -> places[m].depth = places[n].depth + 1
              [] dir = "left"  -> places[m].lane + 1 = places[n].lane
              [] dir = "right" -> places[m].lane = places[n].lane + 1}
    IN IF beside = {} THEN n ELSE CHOOSE m \in beside : TRUE

Neighbour(places, n, dir) ==
    LET axis == IF dir \in {"up", "down"} THEN "depth" ELSE "lane"
        at(m) == IF axis = "depth" THEN places[m].depth ELSE places[m].lane
        line == Along(places, n, axis)
        less(a, b) == Before(at(a), at(b), a, b)
        ahead == IF dir \in {"up", "left"} THEN {m \in line : less(m, n)}
                                           ELSE {m \in line : less(n, m)}
    IN IF ahead = {} THEN n
       ELSE CHOOSE m \in ahead : \A o \in ahead : o = m \/
                IF dir \in {"up", "left"} THEN less(o, m) ELSE less(m, o)

-----------------------------------------------------------------------------
LineageTypeOK ==
    /\ rows \in [Jobs -> Rows \cup {NoRow}]
    /\ current \in Nodes /\ focus \in Nodes \cup {NoFocus}
    /\ DOMAIN lineage \subseteq Nodes
    /\ \A n \in DOMAIN lineage : lineage[n] \in [depth : 0..NJobs, lane : 0..(MaxLanes - 1)]

LineageInit ==
    /\ rows = [j \in Jobs |-> NoRow]
    /\ current = <<1, 1>> /\ focus = <<1, 1>>
    /\ lineage = [n \in {<<1, 1>>} |-> [depth |-> 0, lane |-> 0]]

\* useLineage computes again; another image, or another number of nodes, puts the focus back
Recomputed ==
    /\ lineage' = Places(rows', current'[1])
    /\ focus' = IF (current' # current \/ Cardinality(DOMAIN lineage') # Cardinality(DOMAIN lineage))
                      /\ Current(lineage', current') \in DOMAIN lineage'
                 THEN Current(lineage', current') ELSE focus

\* a row arrives by the feed, a sync or a refresh of a ghost; a parent is an older job
RowArrives(j, r) ==
    /\ ~Present(rows, j) /\ r.parent < j
    /\ r.parent = 0 => r.order = 1
    /\ rows' = [rows EXCEPT ![j] = r]
    /\ UNCHANGED current
    /\ Recomputed

\* a job is deleted; its children keep its name
RowLeaves(j) ==
    /\ Present(rows, j)
    /\ rows' = [rows EXCEPT ![j] = NoRow]
    /\ UNCHANGED current
    /\ Recomputed

FocusNode == IF focus \in DOMAIN lineage THEN focus ELSE Current(lineage, current)

Arrow(dir) ==
    /\ FocusNode \in DOMAIN lineage
    /\ LET next == Neighbour(lineage, FocusNode, dir) IN next # FocusNode /\ focus' = next
    /\ UNCHANGED <<rows, current, lineage>>

Escape == focus # NoFocus /\ focus' = NoFocus /\ UNCHANGED <<rows, current, lineage>>

\* Enter, a click, the breadcrumb or "back to the root": the editor turns to that image
Navigate(n) ==
    /\ n # current /\ n \in DOMAIN lineage
    /\ current' = n
    /\ UNCHANGED rows
    /\ Recomputed

LineageNext ==
    \/ \E j \in Jobs : RowLeaves(j) \/ \E r \in Rows : RowArrives(j, r)
    \/ \E dir \in Directions : Arrow(dir)
    \/ Escape
    \/ \E n \in Nodes : Navigate(n)

LineageSpec == LineageInit /\ [][LineageNext]_lineageVars

-----------------------------------------------------------------------------
(* Properties *)

\* what the keys reach from the nodes of reached
Closure(places, reached) ==
    LET within[i \in 0..NJobs * MaxImages] ==
          IF i = 0 THEN reached
          ELSE LET near == within[i - 1]
               IN near \cup {Neighbour(places, n, d) : n \in near, d \in Directions}
    IN within[NJobs * MaxImages]

\* The arrow keys reach every image of the graph from the one being edited, although up and
\* down stay in a lane: a level's first group covers the lane its parent's group starts in.
KeysReachEveryNode ==
    Current(lineage, current) \in DOMAIN lineage =>
        Closure(lineage, {Current(lineage, current)}) = DOMAIN lineage

\* The image being edited is in its own graph, unless the walk was cut before it.
CurrentIsShown ==
    Current(lineage, current) \in DOMAIN lineage \/ Truncated(rows, current[1])

\* No two images share a place on a level whose images fit its lanes and whose groups found
\* each a free range; and every edge leads one level down from a node that exists.
GraphIsDrawable ==
    LET nodes    == DOMAIN lineage
        level(d) == {n \in nodes : lineage[n].depth = d}
    IN /\ \A d \in 0..NJobs :
             (\A n \in level(d) : Width(rows, n[1]) = 1) /\ Cardinality(level(d)) <= MaxLanes
                => \A n, m \in level(d) : lineage[n].lane = lineage[m].lane => n = m
       /\ \A n \in nodes : lineage[n].depth > 0 =>
             LET parent == ParentNode(rows, n, nodes) IN
             parent \in nodes /\ lineage[parent].depth + 1 = lineage[n].depth

LineageSafe == KeysReachEveryNode /\ CurrentIsShown /\ GraphIsDrawable
=============================================================================
