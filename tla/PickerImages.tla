---------------------------- MODULE PickerImages ----------------------------
(***************************************************************************)
(* The image queue of the picker (store/pickerImageQueue.js) and the panes *)
(* that ask it for pictures (PickerImage.jsx): a few fetches at a time, a  *)
(* cache of blob URLs with counted references, and an epoch that a visit   *)
(* of the page ends.  A promise is named by the fetch that settles it.     *)
(***************************************************************************)
EXTENDS Integers, FiniteSets, Sequences, Filter

CONSTANTS
    Panes,      \* places that show a picture
    Keys,       \* image and variant
    Slots,      \* MAX_CONCURRENT
    Capacity,   \* LRU_CAPACITY
    MaxFetches, \* bound: fetches asked for
    MaxVisits   \* bound: times the page is left

VARIABLES
    wants,    \* the key each pane is mounted for, or NoKey
    awaited,  \* the fetch whose promise a pane awaits, or 0
    image,    \* the URL a pane shows (the fetch it came from), Missing, or 0
    cache,    \* cached entries, oldest first
    tracker,  \* inflight: the fetch and the references of each key
    waiting,  \* jobs not dispatched
    flying,   \* jobs dispatched; inflightCount is their number
    epoch,
    pumps,    \* pump microtasks that have not run
    asked,    \* fetches asked for so far
    present,  \* PickerPage is mounted
    astray    \* a fetch failed under a pane, or ended under a tracker not its own

imageVars == <<wants, awaited, image, cache, tracker, waiting, flying, epoch, pumps, asked, present, astray>>

NoKey     == "none"
Missing   == -1
NoTracker == [job |-> 0, refs |-> 0]

Job == [id : 1..MaxFetches, key : Keys, rank : Panes, epoch : 0..MaxVisits]

ImagesTypeOK ==
    /\ wants \in [Panes -> Keys \cup {NoKey}]
    /\ awaited \in [Panes -> 0..MaxFetches]
    /\ image \in [Panes -> -1..MaxFetches]
    /\ \A i \in DOMAIN cache : cache[i] \in [key : Keys, url : 1..MaxFetches, refs : Nat]
    /\ tracker \in [Keys -> [job : 0..MaxFetches, refs : Nat]]
    /\ waiting \subseteq Job /\ flying \subseteq Job
    /\ epoch \in 0..MaxVisits /\ pumps \in 0..MaxFetches /\ asked \in 0..MaxFetches
    /\ {present, astray} \subseteq BOOLEAN

ImagesInit ==
    /\ wants = [p \in Panes |-> NoKey] /\ awaited = [p \in Panes |-> 0] /\ image = [p \in Panes |-> 0]
    /\ cache = <<>> /\ tracker = [k \in Keys |-> NoTracker]
    /\ waiting = {} /\ flying = {}
    /\ epoch = 0 /\ pumps = 0 /\ asked = 0 /\ present = TRUE /\ astray = FALSE

Entries == {cache[i] : i \in DOMAIN cache}
Cached(store, k) == \E i \in DOMAIN store : store[i].key = k
EntryOf(store, k) == CHOOSE i \in DOMAIN store : store[i].key = k

Lower(refs) == IF refs = 0 THEN 0 ELSE refs - 1

\* pruneLRU: the oldest unreferenced entries go while the cache is too full
PruneLRU(store) ==
    LET idle(i)  == store[i].refs = 0
        older(i) == Cardinality({j \in 1..(i - 1) : idle(j)})
        stays    == {i \in DOMAIN store : ~idle(i) \/ older(i) >= Len(store) - Capacity}
        kept     == Kept([i \in DOMAIN store |-> i], stays)
    IN [i \in DOMAIN kept |-> store[kept[i]]]

\* release: of the cached entry, or of the fetch under way
ReleasedCache(k) ==
    IF k # NoKey /\ Cached(cache, k)
    THEN PruneLRU([cache EXCEPT ![EntryOf(cache, k)].refs = Lower(@)])
    ELSE cache

ReleasedTracker(k) ==
    IF k # NoKey /\ ~Cached(cache, k) /\ tracker[k].job # 0
    THEN [tracker EXCEPT ![k].refs = Lower(@)]
    ELSE tracker

\* a pane goes away
Hide(p) ==
    /\ wants[p] # NoKey
    /\ cache' = ReleasedCache(wants[p]) /\ tracker' = ReleasedTracker(wants[p])
    /\ wants' = [wants EXCEPT ![p] = NoKey]
    /\ awaited' = [awaited EXCEPT ![p] = 0] /\ image' = [image EXCEPT ![p] = 0]
    /\ UNCHANGED <<waiting, flying, epoch, pumps, asked, present, astray>>

\* request: served by the cache, joined to a fetch, or queued.  A pane whose
\* key changes releases the old one first and shows its picture meanwhile.
Show(p, k) ==
    /\ present /\ wants[p] # k
    /\ wants' = [wants EXCEPT ![p] = k]
    /\ LET store  == ReleasedCache(wants[p])
           refs   == ReleasedTracker(wants[p])
           shown  == IF image[p] = Missing THEN 0 ELSE image[p]
       IN \/ /\ Cached(store, k)
             /\ cache' = [store EXCEPT ![EntryOf(store, k)].refs = @ + 1]
             /\ image' = [image EXCEPT ![p] = store[EntryOf(store, k)].url]
             /\ awaited' = [awaited EXCEPT ![p] = 0]
             /\ tracker' = refs
             /\ UNCHANGED <<waiting, pumps, asked>>
          \/ /\ ~Cached(store, k) /\ refs[k].job # 0
             /\ tracker' = [refs EXCEPT ![k].refs = @ + 1]
             /\ awaited' = [awaited EXCEPT ![p] = refs[k].job]
             /\ image' = [image EXCEPT ![p] = shown]
             /\ cache' = store
             /\ UNCHANGED <<waiting, pumps, asked>>
          \/ /\ ~Cached(store, k) /\ refs[k].job = 0 /\ asked < MaxFetches
             /\ asked' = asked + 1
             /\ waiting' = waiting \cup {[id |-> asked', key |-> k, rank |-> p, epoch |-> epoch]}
             /\ pumps' = pumps + 1
             /\ tracker' = [refs EXCEPT ![k] = [job |-> asked', refs |-> 1]]
             /\ awaited' = [awaited EXCEPT ![p] = asked']
             /\ image' = [image EXCEPT ![p] = shown]
             /\ cache' = store
    /\ UNCHANGED <<flying, epoch, present, astray>>

\* a slot that an answer frees is not passed on
DispatchOnRequest(free) ==
    IF waiting = {} \/ free # flying \/ Cardinality(free) >= Slots THEN waiting' = waiting /\ flying' = free
    ELSE \E j \in waiting : waiting' = waiting \ {j} /\ flying' = free \cup {j}

\* pump: one job leaves the queue if a slot is free, the most urgent first
Dispatch(free) ==
    IF waiting = {} \/ Cardinality(free) >= Slots
    THEN waiting' = waiting /\ flying' = free
    ELSE \E j \in waiting :
            /\ \A o \in waiting : j.rank <= o.rank /\ (j.rank = o.rank => j.id <= o.id)
            /\ waiting' = waiting \ {j} /\ flying' = free \cup {j}

Pump ==
    /\ pumps > 0
    /\ pumps' = pumps - 1
    /\ Dispatch(flying)
    /\ UNCHANGED <<wants, awaited, image, cache, tracker, epoch, asked, present, astray>>

\* what the awaiting panes get
Settled(j, url) == [p \in Panes |-> IF awaited[p] = j.id THEN url ELSE image[p]]

\* references taken and dropped while the fetch was under way are forgotten
SeedOne(j) == 1

\* the references the new entry starts with
Seed(j) == IF tracker[j.key].job # 0 THEN tracker[j.key].refs ELSE 1

\* the bytes of a fetch of this visit arrive; the slot is passed on
Fetched(j) ==
    /\ pumps = 0 /\ j \in flying /\ j.epoch = epoch
    /\ cache' = PruneLRU(Append(Kept(cache, {e \in Entries : e.key # j.key}),
                                [key |-> j.key, url |-> j.id, refs |-> Seed(j)]))
    /\ image' = Settled(j, j.id)
    /\ awaited' = [p \in Panes |-> IF awaited[p] = j.id THEN 0 ELSE awaited[p]]
    /\ tracker' = [tracker EXCEPT ![j.key] = NoTracker]
    /\ astray' = (astray \/ tracker[j.key].job # j.id)
    /\ Dispatch(flying \ {j})
    /\ UNCHANGED <<wants, epoch, pumps, asked, present>>

\* it fails, the file is gone, or the visit it was made for is over
Fruitless(j) ==
    /\ pumps = 0 /\ j \in flying
    /\ image' = Settled(j, Missing)
    /\ awaited' = [p \in Panes |-> IF awaited[p] = j.id THEN 0 ELSE awaited[p]]
    /\ tracker' = [tracker EXCEPT ![j.key] = NoTracker]
    /\ astray' = (astray \/ tracker[j.key].job \notin {0, j.id} \/ \E p \in Panes : awaited[p] = j.id)
    /\ Dispatch(flying \ {j})
    /\ UNCHANGED <<wants, cache, epoch, pumps, asked, present>>

\* PickerPage unmounts: clearAll, then the panes release what is no longer there
Leave ==
    /\ present /\ pumps = 0 /\ epoch < MaxVisits
    /\ present' = FALSE /\ epoch' = epoch + 1
    /\ cache' = <<>> /\ waiting' = {} /\ tracker' = [k \in Keys |-> NoTracker]
    /\ wants' = [p \in Panes |-> NoKey]
    /\ awaited' = [p \in Panes |-> 0] /\ image' = [p \in Panes |-> 0]
    /\ UNCHANGED <<flying, pumps, asked, astray>>

Return ==
    /\ ~present
    /\ present' = TRUE
    /\ UNCHANGED <<wants, awaited, image, cache, tracker, waiting, flying, epoch, pumps, asked, astray>>

\* the network answers every fetch and microtasks run
ImagesAnswer(id) == \E j \in flying : j.id = id /\ (Fetched(j) \/ Fruitless(j))

ImagesNext ==
    \/ \E p \in Panes : Hide(p) \/ \E k \in Keys : Show(p, k)
    \/ \E j \in flying : Fetched(j) \/ Fruitless(j)
    \/ Pump \/ Leave \/ Return

ImagesSpec ==
    /\ ImagesInit /\ [][ImagesNext]_imageVars
    /\ WF_imageVars(Pump) /\ \A id \in 1..MaxFetches : WF_imageVars(ImagesAnswer(id))

-----------------------------------------------------------------------------
Holders(k) == Cardinality({p \in Panes : wants[p] = k})

\* no more fetches at a time than the ceiling
CeilingKept == Cardinality(flying) <= Slots

\* a job waits only while every slot is taken: no wake-up is lost among the
\* pumps of the requests, of the answers and of an earlier visit
NothingIdles == pumps = 0 /\ waiting # {} => Cardinality(flying) >= Slots

\* an entry is referenced by exactly the panes mounted for it
RefsAreHolders ==
    astray \/ /\ \A i \in DOMAIN cache : cache[i].refs = Holders(cache[i].key)
              /\ \A k \in Keys : tracker[k].job # 0 => tracker[k].refs = Holders(k)

\* and the URL a settled pane shows is in the cache, not revoked
ShownIsLive ==
    astray \/ \A p \in Panes : (wants[p] # NoKey /\ awaited[p] = 0) =>
                 \E i \in DOMAIN cache : cache[i].key = wants[p] /\ cache[i].url = image[p]

ImagesSafe == CeilingKept /\ NothingIdles /\ RefsAreHolders /\ ShownIsLive

\* every pane that awaits a picture gets an answer
EveryRequestAnswered == \A p \in Panes : awaited[p] # 0 ~> awaited[p] = 0

\* what the comment on "inflight" promises: an unmount during a fetch leaves
\* no permanent reference
NothingStranded ==
    \A i \in DOMAIN cache : cache[i].refs <= Holders(cache[i].key)
=============================================================================
