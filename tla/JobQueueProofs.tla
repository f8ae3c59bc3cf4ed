--------------------------- MODULE JobQueueProofs ---------------------------
(***************************************************************************)
(* Proofs about the lanes of the job queue, for any number of lanes, jobs, *)
(* workers and restarts, any weights and any length of the window: the     *)
(* starvation guard bounds how long a lane is passed over, every QUEUED    *)
(* row is in the queue exactly once, and a job climbs one tier at most.    *)
(***************************************************************************)
EXTENDS JobQueue, FilterProofs

LEMMA Constants ==
    /\ TopLane \in Nat /\ Unit \in Nat /\ WindowSize \in Nat /\ ShareOf \in Nat
    /\ NormalizeEvery \in Nat /\ MaxPops \in Nat /\ MaxRestarts \in Nat
    /\ GuardFrom \in 1 .. WindowSize /\ TopLane < WindowSize
    /\ Tier \in [Jobs -> Lanes] /\ Lanes = 1 .. TopLane /\ Lanes \subseteq Nat
    /\ \A w \in Weights : w \in [Lanes -> 1 .. Unit]
  BY QueueAssumption DEF Lanes

-----------------------------------------------------------------------------
(* The lane that pops next                                                 *)

\* Among any lanes there is one whose key comes first: by induction on the
\* highest of them.
LEMMA FirstKey ==
    ASSUME NEW f \in [Lanes -> Int], NEW T \in SUBSET Lanes, T # {}
    PROVE  \E l \in T : \A m \in T \ {l} : Sooner(l, f[l], m, f[m])
PROOF
    <1> USE Constants
    <1> DEFINE First(X) == \E l \in X : \A m \in X \ {l} : Sooner(l, f[l], m, f[m])
               A == {n \in Nat : \A X \in SUBSET (Lanes \cap (1 .. n)) : X # {} => First(X)}
    <1>1. 0 \in A
      <2>1. Lanes \cap (1 .. 0) = {} OBVIOUS
      <2> QED BY <2>1
    <1>2. ASSUME NEW n \in Nat, n \in A PROVE n + 1 \in A
      <2> SUFFICES ASSUME NEW X \in SUBSET (Lanes \cap (1 .. n + 1)), X # {} PROVE First(X)
        OBVIOUS
      <2>1. CASE n + 1 \notin X
        <3>1. X \in SUBSET (Lanes \cap (1 .. n)) BY <2>1
        <3> QED BY <1>2, <3>1
      <2>2. CASE X = {n + 1} BY <2>2
      <2>3. CASE n + 1 \in X /\ X # {n + 1}
        <3> DEFINE Y == X \ {n + 1}
        <3>1. Y \in SUBSET (Lanes \cap (1 .. n)) /\ Y # {} BY <2>3
        <3>2. PICK l \in Y : \A m \in Y \ {l} : Sooner(l, f[l], m, f[m]) BY <1>2, <3>1
        <3>3. l \in Lanes /\ l <= n /\ f[l] \in Int /\ f[n + 1] \in Int /\ n + 1 \in Lanes
          BY <2>3, <3>1
        <3>4. CASE f[l] < f[n + 1]
          <4>1. \A m \in X \ {l} : Sooner(l, f[l], m, f[m]) BY <3>2, <3>4 DEF Sooner
          <4> QED BY <4>1, <3>2
        <3>5. CASE ~(f[l] < f[n + 1])
          <4>1. Sooner(n + 1, f[n + 1], l, f[l]) BY <3>3, <3>5 DEF Sooner
          <4>2. \A m \in Y \ {l} : /\ f[m] \in Int /\ m \in Nat /\ m <= n
                                   /\ f[l] < f[m] \/ (f[l] = f[m] /\ l > m)
            BY <3>1, <3>2 DEF Sooner
          <4>3. \A m \in Y \ {l} : Sooner(n + 1, f[n + 1], m, f[m])
            BY <3>3, <3>5, <4>2 DEF Sooner
          <4>4. \A m \in X \ {n + 1} : Sooner(n + 1, f[n + 1], m, f[m]) BY <4>1, <4>3
          <4> QED BY <4>4, <2>3
        <3> QED BY <3>4, <3>5
      <2> QED BY <2>1, <2>2, <2>3
    <1>3. TopLane \in A
      <2> HIDE DEF A
      <2> QED BY <1>1, <1>2, NumberInduction
    <1>4. T \in SUBSET (Lanes \cap (1 .. TopLane)) OBVIOUS
    <1> QED BY <1>3, <1>4

LEMMA DispatchedCounts ==
    ASSUME window \in Seq(Lanes), NEW l
    PROVE  /\ Dispatched(l) \in Nat
           /\ Dispatched(l) = 0 <=> \A i \in 1 .. Len(window) : window[i] # l
PROOF
    <1> DEFINE D == {i \in DOMAIN window : window[i] = l}
    <1>1. DOMAIN window = 1 .. Len(window) /\ Len(window) \in Nat BY LenProperties
    <1>2. IsFiniteSet(D)
      <2>1. IsFiniteSet(1 .. Len(window)) BY <1>1, FS_Interval
      <2>2. D \in SUBSET (1 .. Len(window)) BY <1>1
      <2> HIDE DEF D
      <2> QED BY <2>1, <2>2, FS_Subset
    <1>3. Cardinality(D) \in Nat /\ (Cardinality(D) = 0 <=> D = {})
      <2> HIDE DEF D
      <2> QED BY <1>2, FS_CardinalityType, FS_EmptySet
    <1> QED BY <1>1, <1>3 DEF Dispatched

\* What _pick_lane_locked promises: a lane with jobs, and when lanes starve,
\* the one of them with the lowest share, then the lowest tier.
LEMMA NextLaneChosen ==
    ASSUME window \in Seq(Lanes), vt \in [Lanes -> Int], NonEmpty # {}
    PROVE  /\ NextLane \in NonEmpty
           /\ \A l \in Starved :
                /\ NextLane \in Starved
                /\ \/ Dispatched(NextLane) < Dispatched(l)
                   \/ Dispatched(NextLane) = Dispatched(l) /\ NextLane <= l
PROOF
    <1>1. Starved \subseteq NonEmpty /\ NonEmpty \subseteq Lanes BY DEF Starved, NonEmpty
    <1>2. CASE Starved # {}
      <2> DEFINE Best(l) == \A m \in Starved : \/ Dispatched(l) < Dispatched(m)
                                               \/ Dispatched(l) = Dispatched(m) /\ l <= m
      <2>1. \E l \in Starved : Best(l)
        <3> DEFINE D == {Dispatched(m) : m \in Starved}
        <3>1. PICK d \in D : \A e \in D : d <= e
          <4>1. D \in SUBSET Nat /\ D # {} BY <1>2, DispatchedCounts
          <4> HIDE DEF D
          <4> QED BY <4>1, LeastNumber
        <3> DEFINE L == {m \in Starved : Dispatched(m) = d}
        <3>2. PICK l \in L : \A m \in L : l <= m
          <4>1. L \in SUBSET Nat /\ L # {} BY <3>1, <1>1, Constants
          <4> HIDE DEF L
          <4> QED BY <4>1, LeastNumber
        <3>3. ASSUME NEW m \in Starved
              PROVE  Dispatched(l) < Dispatched(m) \/ (Dispatched(l) = Dispatched(m) /\ l <= m)
          <4>1. Dispatched(l) = d /\ d <= Dispatched(m) BY <3>1, <3>2
          <4>2. Dispatched(m) \in Nat /\ Dispatched(l) \in Nat BY DispatchedCounts
          <4>3. Dispatched(m) = d => l <= m BY <3>2
          <4> QED BY <4>1, <4>2, <4>3
        <3> QED BY <3>2, <3>3
      <2>2. NextLane = CHOOSE l \in Starved : Best(l) BY <1>2 DEF NextLane
      <2>3. NextLane \in Starved /\ Best(NextLane) BY <2>1, <2>2
      <2> QED BY <1>1, <2>3
    <1>3. CASE Starved = {}
      <2>1. NextLane = CHOOSE l \in NonEmpty : \A m \in NonEmpty \ {l} : Sooner(l, vt[l], m, vt[m])
        BY <1>3 DEF NextLane
      <2>2. \E l \in NonEmpty : \A m \in NonEmpty \ {l} : Sooner(l, vt[l], m, vt[m])
        BY <1>1, FirstKey
      <2> QED BY <2>1, <2>2, <1>3
    <1> QED BY <1>2, <1>3

-----------------------------------------------------------------------------
(* The starvation guard                                                    *)

\* What pop_next reads and writes besides the lanes.
ClockType ==
    /\ vt \in [Lanes -> Int] /\ weight \in Weights
    /\ window \in Seq(Lanes) /\ Len(window) <= WindowSize
    /\ pops \in 0 .. MaxPops

\* The window remembers who passed a lane over.  A lane that has waited for a
\* whole window has no dispatch left in it, so it starves, and from then on
\* only lanes of a lower tier go first, each of them once.
GuardOf(l) ==
    /\ passed[l] <= Len(window) \/ Len(window) = WindowSize
    /\ \A i \in 1 .. Len(window) : i > Len(window) - passed[l] => window[i] # l
    /\ passed[l] > WindowSize =>
         /\ \A i \in 1 .. WindowSize : i > 2 * WindowSize - passed[l] => window[i] < l
         /\ \A i, k \in 1 .. WindowSize :
              i > 2 * WindowSize - passed[l] /\ k > 2 * WindowSize - passed[l] /\ window[i] = window[k]
                => i = k
    /\ passed[l] < WindowSize + l
    /\ lanes[l] = <<>> => passed[l] = 0

Guarded == passed \in [Lanes -> Nat] /\ \A l \in Lanes : GuardOf(l)

LEMMA GuardedNoLaneStarves == ClockType /\ Guarded => NoLaneStarves
PROOF
    <1> SUFFICES ASSUME ClockType, Guarded, NEW l \in Lanes
                 PROVE  passed[l] < WindowSize + TopLane
      BY DEF NoLaneStarves
    <1>1. passed[l] \in Nat /\ passed[l] < WindowSize + l BY DEF Guarded, GuardOf
    <1>2. l \in Nat /\ l <= TopLane BY Constants
    <1> QED BY <1>1, <1>2, Constants

\* A step that pops nothing.
LEMMA GuardQuiet ==
    ASSUME Guarded, UNCHANGED window,
           passed' = [l \in Lanes |-> passed'[l]],
           \A l \in Lanes : /\ passed'[l] \in {0, passed[l]}
                            /\ lanes'[l] = <<>> => passed'[l] = 0,
           window \in Seq(Lanes)
    PROVE  Guarded'
PROOF
    <1>1. \A l \in Lanes : passed'[l] \in Nat BY DEF Guarded
    <1>2. passed' \in [Lanes -> Nat] BY <1>1
    <1>3. ASSUME NEW l \in Lanes PROVE GuardOf(l)'
      <2>0. Len(window) \in Nat /\ l \in Nat \ {0} /\ WindowSize \in Nat BY LenProperties, Constants
      <2>1. CASE passed'[l] = passed[l]
        BY <2>1 DEF Guarded, GuardOf
      <2>2. CASE passed'[l] = 0
        <3>1. /\ 0 <= Len(window) /\ ~(0 > WindowSize) /\ 0 < WindowSize + l
              /\ \A i \in 1 .. Len(window) : ~(i > Len(window) - 0)
          BY <2>0
        <3> QED BY <2>2, <3>1 DEF GuardOf
      <2> QED BY <2>1, <2>2
    <1> QED BY <1>2, <1>3 DEF Guarded

\* The deque of the last dispatches: the oldest one goes when it is full.
LEMMA WindowRecords ==
    ASSUME window \in Seq(Lanes), Len(window) <= WindowSize, NEW n \in Lanes,
           window' = Recorded(n)
    PROVE  /\ window' \in Seq(Lanes) /\ Len(window') <= WindowSize
           /\ Len(window') > 0 /\ window'[Len(window')] = n
           /\ \/ /\ Len(window) < WindowSize /\ Len(window') = Len(window) + 1
                 /\ \A i \in 1 .. Len(window') - 1 : window'[i] = window[i]
              \/ /\ Len(window) = WindowSize /\ Len(window') = WindowSize
                 /\ \A i \in 1 .. Len(window') - 1 : window'[i] = window[i + 1]
PROOF
    <1>0. Len(window) \in Nat /\ WindowSize \in Nat /\ WindowSize > 0
      BY LenProperties, Constants
    <1>1. CASE Len(window) < WindowSize
      <2>1. window' = Append(window, n) BY <1>1 DEF Recorded
      <2>2. /\ window' \in Seq(Lanes) /\ Len(window') = Len(window) + 1
            /\ \A i \in 1 .. Len(window) : window'[i] = window[i]
            /\ window'[Len(window) + 1] = n
        BY <2>1, AppendProperties
      <2> QED BY <1>0, <1>1, <2>2
    <1>2. CASE ~(Len(window) < WindowSize)
      <2> DEFINE t == Tail(window)
      <2>1. window' = Append(t, n) BY <1>2 DEF Recorded
      <2>2. window # <<>> /\ Len(window) = WindowSize
        <3>1. Len(window) = WindowSize BY <1>0, <1>2
        <3> QED BY <3>1, <1>0, EmptySeq
      <2>3. /\ t \in Seq(Lanes) /\ Len(t) = Len(window) - 1
            /\ \A i \in 1 .. Len(t) : t[i] = window[i + 1]
        BY <2>2, HeadTailProperties
      <2> HIDE DEF t
      <2>4. /\ window' \in Seq(Lanes) /\ Len(window') = Len(t) + 1
            /\ \A i \in 1 .. Len(t) : window'[i] = t[i]
            /\ window'[Len(t) + 1] = n
        BY <2>1, <2>3, AppendProperties
      <2>5. Len(window') = WindowSize /\ Len(t) = WindowSize - 1
        BY <1>0, <2>2, <2>3, <2>4
      <2> QED BY <1>0, <2>2, <2>3, <2>4, <2>5
    <1> QED BY <1>1, <1>2

\* Whoever has waited for a whole window starves, so the lane that pops is of
\* a lower tier and was not in the window.
LEMMA StarvedGoesFirst ==
    ASSUME ClockType, Guarded, NonEmpty # {}, NEW l \in Lanes,
           passed[l] >= WindowSize, NextLane # l
    PROVE  /\ Len(window) = WindowSize
           /\ NextLane \in Lanes /\ NextLane < l
           /\ \A i \in 1 .. WindowSize : window[i] # NextLane
PROOF
    <1> USE Constants
    <1>0. /\ window \in Seq(Lanes) /\ Len(window) \in Nat /\ Len(window) <= WindowSize
          /\ passed[l] \in Nat /\ WindowSize > 0
      BY LenProperties DEF ClockType, Guarded
    <1>1. Len(window) = WindowSize
      <2>1. passed[l] <= Len(window) \/ Len(window) = WindowSize BY DEF Guarded, GuardOf
      <2> QED BY <1>0, <2>1
    <1>2. \A i \in 1 .. Len(window) : window[i] # l
      <2>1. \A i \in 1 .. Len(window) : i > Len(window) - passed[l] => window[i] # l
        BY DEF Guarded, GuardOf
      <2>2. \A i \in 1 .. Len(window) : i > Len(window) - passed[l] BY <1>0, <1>1
      <2> QED BY <2>1, <2>2
    <1>3. Dispatched(l) = 0 BY <1>0, <1>2, DispatchedCounts
    <1>4. l \in Starved
      <2>1. l \in NonEmpty
        <3>1. lanes[l] = <<>> => passed[l] = 0 BY DEF Guarded, GuardOf
        <3> QED BY <1>0, <3>1 DEF NonEmpty
      <2>2. Dispatched(l) * ShareOf < Len(window) /\ Len(window) >= GuardFrom
        <3>1. 0 * ShareOf = 0 OBVIOUS
        <3> QED BY <1>0, <1>1, <1>3, <3>1
      <2> QED BY <2>1, <2>2 DEF Starved
    <1>5. /\ NextLane \in NonEmpty
          /\ Dispatched(NextLane) < Dispatched(l)
             \/ (Dispatched(NextLane) = Dispatched(l) /\ NextLane <= l)
      BY <1>0, <1>4, NextLaneChosen DEF ClockType
    <1>6. NextLane \in Lanes /\ Dispatched(NextLane) \in Nat
      BY <1>0, <1>5, DispatchedCounts DEF NonEmpty
    <1>7. Dispatched(NextLane) = 0 /\ NextLane < l BY <1>3, <1>5, <1>6
    <1>8. \A i \in 1 .. Len(window) : window[i] # NextLane BY <1>0, <1>7, DispatchedCounts
    <1> QED BY <1>1, <1>6, <1>7, <1>8

\* A pop: the lane it takes has not been passed over, every other lane with
\* jobs has, once more.
LEMMA GuardPop ==
    ASSUME ClockType, Guarded, NonEmpty # {}, window' = Recorded(NextLane), Passing(NextLane)
    PROVE  Guarded'
PROOF
    <1> DEFINE n == NextLane
    <1> USE Constants
    <1>0. /\ window \in Seq(Lanes) /\ Len(window) \in Nat /\ Len(window) <= WindowSize
          /\ WindowSize > 0 /\ n \in Lanes
      BY LenProperties, NextLaneChosen DEF ClockType, NonEmpty
    <1>1. /\ window' \in Seq(Lanes) /\ Len(window') <= WindowSize
          /\ Len(window') > 0 /\ window'[Len(window')] = n
          /\ \/ /\ Len(window) < WindowSize /\ Len(window') = Len(window) + 1
                /\ \A i \in 1 .. Len(window') - 1 : window'[i] = window[i]
             \/ /\ Len(window) = WindowSize /\ Len(window') = WindowSize
                /\ \A i \in 1 .. Len(window') - 1 : window'[i] = window[i + 1]
      BY <1>0, WindowRecords
    <1>g. Len(window) < WindowSize =>
            /\ Len(window') = Len(window) + 1
            /\ \A i \in 1 .. Len(window') - 1 : window'[i] = window[i]
      BY ONLY <1>0, <1>1
    <1>f. Len(window) = WindowSize =>
            /\ Len(window') = WindowSize
            /\ \A i \in 1 .. Len(window') - 1 : window'[i] = window[i + 1]
      <2> DEFINE W == WindowSize
      <2>1. W \in Nat OBVIOUS
      <2> QED BY ONLY <1>0, <1>1, <2>1
    <1>2. Len(window') \in Nat BY <1>1, LenProperties
    <1>3. \A l \in Lanes : passed[l] \in Nat BY DEF Guarded
    <1>4. /\ passed' = [l \in Lanes |-> passed'[l]]
          /\ \A l \in Lanes :
               \/ passed'[l] = 0
               \/ /\ passed'[l] = passed[l] + 1 /\ l # n
                  /\ lanes[l] # <<>> /\ lanes'[l] # <<>>
          /\ \A l \in Lanes : lanes'[l] = <<>> => passed'[l] = 0
      BY DEF Passing
    <1> HIDE DEF n
    <1>5. passed' \in [Lanes -> Nat] BY <1>3, <1>4
    <1>6. ASSUME NEW l \in Lanes PROVE GuardOf(l)'
      <2> DEFINE W == WindowSize
                 p == passed[l]
      <2>0. l \in Nat /\ l > 0 /\ l <= TopLane /\ W \in Nat /\ p \in Nat BY <1>3
      <2>1. CASE passed'[l] = 0
        <3>1. /\ 0 <= Len(window') /\ ~(0 > W) /\ 0 < W + l
              /\ \A i \in 1 .. Len(window') : ~(i > Len(window') - 0)
          BY <1>2, <2>0
        <3> QED BY <2>1, <3>1 DEF GuardOf
      <2>2. CASE passed'[l] # 0
        <3>1. passed'[l] = p + 1 /\ l # n /\ lanes'[l] # <<>> BY <1>4, <2>2
        <3>2. /\ p <= Len(window) \/ Len(window) = W
              /\ \A i \in 1 .. Len(window) : i > Len(window) - p => window[i] # l
              /\ p > W =>
                   /\ \A i \in 1 .. W : i > 2 * W - p => window[i] < l
                   /\ \A i, k \in 1 .. W :
                        i > 2 * W - p /\ k > 2 * W - p /\ window[i] = window[k] => i = k
              /\ p < W + l
          BY DEF Guarded, GuardOf
        <3>3. p + 1 <= Len(window') \/ Len(window') = W BY <1>0, <1>1, <2>0, <3>2
        <3>4. ASSUME NEW i \in 1 .. Len(window'), i > Len(window') - (p + 1)
              PROVE  window'[i] # l
          <4>1. CASE i = Len(window') BY <1>1, <3>1, <4>1
          <4>2. CASE i # Len(window')
            <5>1. i \in 1 .. Len(window') - 1 BY <1>2, <4>2
            <5>2. CASE Len(window) < W
              <6>1. Len(window') = Len(window) + 1 /\ window'[i] = window[i]
                BY ONLY <1>g, <5>1, <5>2
              <6>2. i \in 1 .. Len(window) /\ i > Len(window) - p
                BY ONLY <1>0, <2>0, <3>4, <5>1, <6>1
              <6> QED BY <3>2, <6>1, <6>2
            <5>3. CASE Len(window) = W
              <6>1. Len(window') = W /\ window'[i] = window[i + 1]
                BY ONLY <1>f, <5>1, <5>3
              <6>2. i + 1 \in 1 .. Len(window) /\ i + 1 > Len(window) - p
                BY ONLY <1>0, <2>0, <3>4, <5>1, <5>3, <6>1
              <6> QED BY <3>2, <6>1, <6>2
            <5> QED BY <1>0, <5>2, <5>3
          <4> QED BY <4>1, <4>2
        <3>5. CASE p < W
          <4>1. ~(p + 1 > W) /\ p + 1 < W + l BY <2>0, <3>5
          <4> QED BY <3>1, <3>3, <3>4, <4>1 DEF GuardOf
        <3>6. CASE ~(p < W)
          <4>1. /\ Len(window) = W /\ n \in Lanes /\ n < l
                /\ \A i \in 1 .. W : window[i] # n
            <5>1. passed[l] >= WindowSize BY <2>0, <3>6
            <5>2. NextLane # l BY <3>1 DEF n
            <5> QED BY <5>1, <5>2, StarvedGoesFirst DEF n
          <4>2. /\ Len(window') = W /\ window'[W] = n
                /\ \A i \in 1 .. W - 1 : window'[i] = window[i + 1]
            <5>1. ~(Len(window) < W) BY <2>0, <4>1
            <5>2. /\ Len(window') = W
                  /\ \A i \in 1 .. Len(window') - 1 : window'[i] = window[i + 1]
              BY <1>1, <5>1
            <5>3. window'[Len(window')] = n BY <1>1
            <5> QED BY <5>2, <5>3
          <4>3. ASSUME NEW i \in 1 .. W, i > 2 * W - (p + 1), i # W
                PROVE  window'[i] = window[i + 1] /\ i + 1 \in 1 .. W /\ i + 1 > 2 * W - p /\ p > W
            BY <2>0, <3>6, <4>2, <4>3
          <4>4. ASSUME NEW i \in 1 .. W, i > 2 * W - (p + 1) PROVE window'[i] < l
            <5>1. CASE i = W BY <4>1, <4>2, <5>1
            <5>2. CASE i # W BY <3>2, <4>3, <4>4, <5>2
            <5> QED BY <5>1, <5>2
          <4>5. ASSUME NEW i \in 1 .. W, NEW k \in 1 .. W,
                       i > 2 * W - (p + 1), k > 2 * W - (p + 1), window'[i] = window'[k]
                PROVE  i = k
            <5>1. CASE i = W /\ k # W
              <6>1. window[k + 1] = n /\ k + 1 \in 1 .. W BY <4>2, <4>3, <4>5, <5>1
              <6> QED BY <4>1, <6>1
            <5>2. CASE i # W /\ k = W
              <6>1. window[i + 1] = n /\ i + 1 \in 1 .. W BY <4>2, <4>3, <4>5, <5>2
              <6> QED BY <4>1, <6>1
            <5>3. CASE i # W /\ k # W
              <6>1. i + 1 = k + 1 BY <3>2, <4>3, <4>5, <5>3
              <6> QED BY <6>1
            <5> QED BY <5>1, <5>2, <5>3
          <4>6. p + 1 < W + l
            <5> SUFFICES ASSUME p + 1 >= W + l PROVE FALSE BY <2>0
            <5>0. l < W BY <2>0
            <5>1. p + 1 = W + l /\ 2 * W - p \in 1 .. W
              <6>1. p + 1 <= W + l
                <7>1. p < W + l BY <3>2
                <7> QED BY ONLY <2>0, <7>1
              <6>2. p + 1 >= W + l OBVIOUS
              <6>3. p + 1 = W + l BY ONLY <2>0, <6>1, <6>2
              <6> QED BY ONLY <2>0, <5>0, <6>3
            <5> DEFINE S == 2 * W - p .. W
                       f == [i \in S |-> window'[i]]
            <5>2. IsFiniteSet(S) /\ Cardinality(S) = l
              <6> DEFINE a == 2 * W - p
              <6>1. a \in Int /\ W \in Int /\ ~(a > W) /\ W - a + 1 = l BY <2>0, <5>1
              <6> HIDE DEF a
              <6>2. IsFiniteSet(a .. W) /\ Cardinality(a .. W) = W - a + 1 BY <6>1, FS_Interval
              <6> QED BY <6>1, <6>2 DEF a
            <5>3. IsFiniteSet(1 .. l - 1) /\ Cardinality(1 .. l - 1) = l - 1
              <6> DEFINE b == l - 1
              <6>1. b \in Int /\ 1 \in Int /\ b >= 0 BY <2>0
              <6> HIDE DEF b
              <6>2. /\ IsFiniteSet(1 .. b)
                    /\ Cardinality(1 .. b) = IF 1 > b THEN 0 ELSE b - 1 + 1
                BY <6>1, FS_Interval
              <6>3. (IF 1 > b THEN 0 ELSE b - 1 + 1) = b BY <6>1
              <6> QED BY <6>2, <6>3 DEF b
            <5>4. ASSUME NEW i \in S
                  PROVE  i \in 1 .. W /\ i > 2 * W - (p + 1) /\ window'[i] \in 1 .. l - 1
              <6>1. i \in 1 .. W /\ i > 2 * W - (p + 1) BY <2>0, <5>1
              <6>2. window'[i] < l BY <4>4, <6>1
              <6>3. window'[i] \in Lanes BY <1>1, <4>2, <6>1, ElementOfSeq
              <6> QED BY <2>0, <6>1, <6>2, <6>3
            <5>5. f \in [S -> 1 .. l - 1] BY <5>4
            <5>6. l - 1 < l BY <2>0
            <5> HIDE DEF S, f
            <5>7. PICK x \in S, y \in S : x # y /\ f[x] = f[y]
              BY <5>2, <5>3, <5>5, <5>6, FS_PigeonHole
            <5>8. window'[x] = window'[y] BY <5>7 DEF f
            <5> QED BY <4>5, <5>4, <5>7, <5>8
          <4> QED BY <3>1, <3>3, <3>4, <4>4, <4>5, <4>6 DEF GuardOf
        <3> QED BY <3>5, <3>6
      <2> QED BY <2>1, <2>2
    <1> QED BY <1>5, <1>6 DEF Guarded

-----------------------------------------------------------------------------
(* Where a job is                                                          *)

\* A job is in one lane at most, and there once.
Separate(ls) ==
    /\ ls \in [Lanes -> Seq(Jobs)]
    /\ \A l \in Lanes : Once(ls[l])
    /\ \A l, m \in Lanes : \A j \in Jobs :
         j \in ToSet(ls[l]) /\ j \in ToSet(ls[m]) => l = m

\* What each lane keeps of a set of its own.
LEMMA KeptSeparate ==
    ASSUME NEW ls, Separate(ls), NEW T, NEW k, k = [l \in Lanes |-> Kept(ls[l], T[l])]
    PROVE  /\ Separate(k)
           /\ \A l \in Lanes : ToSet(k[l]) = ToSet(ls[l]) \cap T[l]
PROOF
    <1>1. \A l \in Lanes : /\ k[l] \in Seq(Jobs) /\ Once(k[l])
                           /\ ToSet(k[l]) = ToSet(ls[l]) \cap T[l]
      <2> TAKE l \in Lanes
      <2>1. ls[l] \in Seq(Jobs) /\ Once(ls[l]) /\ k[l] = Kept(ls[l], T[l]) BY DEF Separate
      <2> QED BY <2>1, KeptOnce
    <1>2. k \in [Lanes -> Seq(Jobs)] BY <1>1
    <1>3. \A l, m \in Lanes : \A j \in Jobs : j \in ToSet(k[l]) /\ j \in ToSet(k[m]) => l = m
      BY <1>1 DEF Separate
    <1>4. \A l \in Lanes : Once(k[l]) BY <1>1
    <1>5. Separate(k) BY ONLY <1>2, <1>3, <1>4 DEF Separate
    <1> QED BY ONLY <1>1, <1>5

\* A job at the tail of a lane, when it is in no lane yet.
LEMMA PutSeparate ==
    ASSUME NEW ls, Separate(ls), NEW l \in Lanes, NEW j \in Jobs,
           \A m \in Lanes : j \notin ToSet(ls[m]),
           NEW e, e = Enqueued(ls, l, j)
    PROVE  /\ Separate(e)
           /\ \A m \in Lanes : ToSet(e[m]) = IF m = l THEN ToSet(ls[m]) \cup {j} ELSE ToSet(ls[m])
           /\ e[l] # <<>> /\ \A m \in Lanes : m # l => e[m] = ls[m]
PROOF
    <1>1. \A m \in Lanes : ls[m] \in Seq(Jobs) /\ Once(ls[m]) BY DEF Separate
    <1>2. e = [m \in Lanes |-> IF m = l THEN Append(ls[m], j) ELSE ls[m]]
      BY DEF Enqueued, Separate
    <1>3. /\ e[l] \in Seq(Jobs) /\ e[l] # <<>> /\ Once(e[l])
          /\ ToSet(e[l]) = ToSet(ls[l]) \cup {j}
      <2>1. e[l] = Append(ls[l], j) BY <1>2
      <2> QED BY <1>1, <2>1, AppendOnce
    <1>4. \A m \in Lanes : m # l => e[m] = ls[m] BY <1>2
    <1>5. \A m \in Lanes :
             /\ e[m] \in Seq(Jobs) /\ Once(e[m])
             /\ ToSet(e[m]) = IF m = l THEN ToSet(ls[m]) \cup {j} ELSE ToSet(ls[m])
      BY <1>1, <1>3, <1>4
    <1>6. e \in [Lanes -> Seq(Jobs)] BY <1>2, <1>5
    <1>7. \A m, n \in Lanes : \A x \in Jobs : x \in ToSet(e[m]) /\ x \in ToSet(e[n]) => m = n
      <2>1. \A m, n \in Lanes : \A x \in Jobs : x \in ToSet(ls[m]) /\ x \in ToSet(ls[n]) => m = n
        BY DEF Separate
      <2>2. \A m \in Lanes : ToSet(e[m]) = IF m = l THEN ToSet(ls[m]) \cup {j} ELSE ToSet(ls[m])
        BY <1>5
      <2> SUFFICES ASSUME NEW m \in Lanes, NEW n \in Lanes, NEW x \in Jobs,
                          x \in ToSet(e[m]), x \in ToSet(e[n])
                   PROVE  m = n
        OBVIOUS
      <2>3. CASE x = j
        <3>1. m = l /\ n = l BY <2>2, <2>3
        <3> QED BY <3>1
      <2>4. CASE x # j
        <3>1. x \in ToSet(ls[m]) /\ x \in ToSet(ls[n]) BY <2>2, <2>4
        <3> QED BY <2>1, <3>1
      <2> QED BY <2>3, <2>4
    <1> QED BY <1>3, <1>4, <1>5, <1>6, <1>7 DEF Separate

\* The head of a lane taken away.
LEMMA TakeSeparate ==
    ASSUME NEW ls, Separate(ls), NEW l \in Lanes, ls[l] # <<>>,
           NEW e, e = [ls EXCEPT ![l] = Tail(@)]
    PROVE  /\ Separate(e)
           /\ Head(ls[l]) \in Jobs /\ Head(ls[l]) \in ToSet(ls[l])
           /\ \A m \in Lanes : ToSet(e[m]) = ToSet(ls[m]) \ {Head(ls[l])}
PROOF
    <1> DEFINE h == Head(ls[l])
    <1>1. \A m \in Lanes : ls[m] \in Seq(Jobs) /\ Once(ls[m]) BY DEF Separate
    <1>2. e = [m \in Lanes |-> IF m = l THEN Tail(ls[m]) ELSE ls[m]] BY DEF Separate
    <1>3. /\ h \in ToSet(ls[l])
          /\ e[l] \in Seq(Jobs) /\ Once(e[l]) /\ ToSet(e[l]) = ToSet(ls[l]) \ {h}
      <2>1. e[l] = Tail(ls[l]) BY <1>2
      <2> QED BY <1>1, <2>1, TailOnce
    <1>4. h \in Jobs BY <1>1, <1>3, ElementsAt
    <1>5. \A m \in Lanes : m # l => e[m] = ls[m] /\ h \notin ToSet(ls[m])
      BY <1>2, <1>3, <1>4 DEF Separate
    <1>6. \A m \in Lanes : e[m] \in Seq(Jobs) /\ Once(e[m]) /\ ToSet(e[m]) = ToSet(ls[m]) \ {h}
      <2> TAKE m \in Lanes
      <2>1. CASE m = l BY <1>3, <2>1
      <2>2. CASE m # l
        <3>1. e[m] = ls[m] /\ h \notin ToSet(ls[m]) BY <1>5, <2>2
        <3> HIDE DEF h
        <3> QED BY <1>1, <3>1
      <2> QED BY <2>1, <2>2
    <1>7. e \in [Lanes -> Seq(Jobs)] BY <1>2, <1>6
    <1>8. \A m, n \in Lanes : \A x \in Jobs : x \in ToSet(e[m]) /\ x \in ToSet(e[n]) => m = n
      BY <1>6 DEF Separate
    <1> QED BY <1>3, <1>4, <1>6, <1>7, <1>8 DEF Separate

\* Promotions on their way: q says which job goes to which lane.
Moves == [job : Jobs, to : Lanes]
GoingOf(q)  == {q[i].job : i \in 1 .. Len(q)}
JobsOnce(q) == \A i, k \in 1 .. Len(q) : q[i].job = q[k].job => i = k

LEMMA NextMove ==
    ASSUME NEW q \in Seq(Moves), q # <<>>, JobsOnce(q)
    PROVE  /\ Head(q) \in Moves /\ Head(q) = q[1] /\ 1 \in 1 .. Len(q)
           /\ Head(q).job \in GoingOf(q)
           /\ Tail(q) \in Seq(Moves) /\ JobsOnce(Tail(q))
           /\ GoingOf(Tail(q)) = GoingOf(q) \ {Head(q).job}
           /\ \A i \in 1 .. Len(Tail(q)) : \E k \in 1 .. Len(q) : Tail(q)[i] = q[k]
PROOF
    <1> DEFINE t == Tail(q)
    <1>1. /\ t \in Seq(Moves) /\ Len(t) = Len(q) - 1 /\ Len(q) \in Nat /\ Len(q) # 0
          /\ \A i \in 1 .. Len(t) : t[i] = q[i + 1]
          /\ Head(q) = q[1]
      BY HeadTailProperties, LenProperties, EmptySeq
    <1> HIDE DEF t
    <1>2. \A i \in 1 .. Len(t) : i + 1 \in 1 .. Len(q) /\ i + 1 # 1 /\ t[i] = q[i + 1] BY <1>1
    <1>3. 1 \in 1 .. Len(q) BY <1>1
    <1>4. JobsOnce(t)
      <2> SUFFICES ASSUME NEW i \in 1 .. Len(t), NEW k \in 1 .. Len(t), t[i].job = t[k].job
                   PROVE  i = k
        BY DEF JobsOnce
      <2>1. i + 1 = k + 1 BY <1>2 DEF JobsOnce
      <2> QED BY <2>1
    <1>5. ASSUME NEW x PROVE x \in GoingOf(t) <=> x \in GoingOf(q) \ {Head(q).job}
      <2>1. ASSUME NEW i \in 1 .. Len(t), t[i].job = x PROVE x \in GoingOf(q) \ {Head(q).job}
        <3>1. i + 1 \in 1 .. Len(q) /\ q[i + 1].job = x /\ i + 1 # 1 BY <1>2, <2>1
        <3>2. q[i + 1].job # q[1].job BY <1>3, <3>1 DEF JobsOnce
        <3> QED BY <1>1, <3>1, <3>2 DEF GoingOf
      <2>2. ASSUME NEW i \in 1 .. Len(q), q[i].job = x, x # Head(q).job PROVE x \in GoingOf(t)
        <3>1. i # 1 BY <1>1, <2>2
        <3>2. i - 1 \in 1 .. Len(t) /\ (i - 1) + 1 = i BY <1>1, <3>1
        <3>3. t[i - 1] = q[i] BY <1>1, <3>2
        <3> QED BY <2>2, <3>2, <3>3 DEF GoingOf
      <2> QED BY <2>1, <2>2 DEF GoingOf
    <1>6. Head(q) \in Moves BY HeadTailProperties
    <1>7. Head(q).job \in GoingOf(q) BY <1>1, <1>3 DEF GoingOf
    <1>8. \A i \in 1 .. Len(t) : \E k \in 1 .. Len(q) : t[i] = q[k] BY <1>2
    <1> QED BY <1>1, <1>3, <1>4, <1>5, <1>6, <1>7, <1>8 DEF t

LEMMA DueIs ==
    ASSUME Separate(lanes), NEW l \in Lanes
    PROVE  /\ Due(l) \in Seq(Jobs) /\ Once(Due(l)) /\ Len(Due(l)) \in Nat
           /\ ToSet(Due(l)) = {j \in ToSet(lanes[l]) : Overdue(j, l)}
PROOF
    <1> DEFINE T == {j \in Jobs : Overdue(j, l)}
    <1>1. lanes[l] \in Seq(Jobs) /\ Once(lanes[l]) BY DEF Separate
    <1>2. Due(l) = Kept(lanes[l], T) BY DEF Due
    <1>3. ToSet(lanes[l]) \subseteq Jobs BY <1>1, ElementsAt
    <1>4. ToSet(lanes[l]) \cap T = {j \in ToSet(lanes[l]) : Overdue(j, l)} BY <1>3
    <1> HIDE DEF T
    <1>5. /\ Due(l) \in Seq(Jobs) /\ Once(Due(l))
          /\ ToSet(Due(l)) = ToSet(lanes[l]) \cap T
      BY <1>1, <1>2, KeptOnce
    <1> QED BY <1>4, <1>5, LenProperties

\* _promote_expired_locked takes every overdue job, once, and one tier up.
LEMMA PromotionsAre ==
    ASSUME Separate(lanes)
    PROVE  /\ Promotions \in Seq(Moves) /\ JobsOnce(Promotions)
           /\ \A i \in 1 .. Len(Promotions) : \E l \in Lanes :
                Promotions[i].job \in ToSet(Due(l)) /\ Promotions[i].to = l + 1
           /\ \A l \in Lanes : \A j \in ToSet(Due(l)) : j \in GoingOf(Promotions)
PROOF
    <1> USE Constants
    <1> DEFINE M(l) == [i \in 1 .. Len(Due(l)) |-> [job |-> Due(l)[i], to |-> l + 1]]
               s == [l \in Lanes |-> M(l)]
               P == Promotions
    <1>1. ASSUME NEW l \in Lanes
          PROVE  /\ M(l) \in Seq(Moves) /\ Len(M(l)) = Len(Due(l))
                 /\ \A i \in 1 .. Len(Due(l)) : M(l)[i] = [job |-> Due(l)[i], to |-> l + 1]
                                             /\ Due(l)[i] \in ToSet(Due(l))
      <2>1. Due(l) \in Seq(Jobs) /\ Len(Due(l)) \in Nat BY DueIs
      <2>2. ASSUME NEW i \in 1 .. Len(Due(l))
            PROVE  [job |-> Due(l)[i], to |-> l + 1] \in Moves /\ Due(l)[i] \in ToSet(Due(l))
        <3>1. Due(l)[i] \in ToSet(Due(l)) /\ Due(l)[i] \in Jobs
          BY <2>1, ElementsAt, ElementOfSeq
        <3>2. Overdue(Due(l)[i], l) BY <3>1, DueIs
        <3>3. l + 1 \in Lanes BY <3>2 DEF Overdue
        <3> QED BY <3>1, <3>3 DEF Moves
      <2> DEFINE r(i) == [job |-> Due(l)[i], to |-> l + 1]
                 n == Len(Due(l))
      <2>3. \A i \in 1 .. n : r(i) \in Moves BY <2>2
      <2>4. M(l) = [i \in 1 .. n |-> r(i)] OBVIOUS
      <2> HIDE DEF r, n, M
      <2>5. n \in Nat BY <2>1 DEF n
      <2>6. M(l) \in Seq(Moves) /\ Len(M(l)) = n /\ \A i \in 1 .. n : M(l)[i] = r(i)
        BY <2>3, <2>4, <2>5
      <2> QED BY <2>2, <2>6 DEF r, n
    <1>2. s \in Seq(Seq(Moves)) /\ Len(s) = TopLane /\ \A l \in Lanes : s[l] = M(l)
      <2>1. \A l \in Lanes : M(l) \in Seq(Moves) BY <1>1
      <2> HIDE DEF M
      <2>2. s \in [1 .. TopLane -> Seq(Moves)] BY <2>1
      <2> QED BY <2>2
    <1>3. P = FlattenSeq(s) BY DEF Promotions
    <1> HIDE DEF s
    <1>4. P \in Seq(Moves) /\ Flattens(P, s, TopLane) BY <1>2, <1>3, FlattenSeqFlattens
    <1> HIDE DEF P, M
    <1>5. \A l \in Lanes : /\ l \in 1 .. TopLane /\ Len(s[l]) = Len(Due(l))
                           /\ \A i \in 1 .. Len(s[l]) : /\ s[l][i] = [job |-> Due(l)[i], to |-> l + 1]
                                                        /\ Due(l)[i] \in ToSet(Due(l))
      BY <1>1, <1>2
    <1>6. ASSUME NEW i \in 1 .. Len(P)
          PROVE  \E l \in Lanes : P[i].job \in ToSet(Due(l)) /\ P[i].to = l + 1
      <2>1. PICK l \in 1 .. TopLane : \E p \in 1 .. Len(s[l]) : P[i] = s[l][p]
        BY <1>4 DEF Flattens
      <2>2. PICK p \in 1 .. Len(s[l]) : P[i] = s[l][p] BY <2>1
      <2>3. P[i] = [job |-> Due(l)[p], to |-> l + 1] /\ Due(l)[p] \in ToSet(Due(l))
        BY <1>5, <2>2
      <2>4. P[i].job = Due(l)[p] /\ P[i].to = l + 1 BY <2>3
      <2> QED BY <2>3, <2>4
    <1>7. ASSUME NEW l \in Lanes, NEW j \in ToSet(Due(l)) PROVE j \in GoingOf(P)
      <2>1. PICK p \in 1 .. Len(Due(l)) : Due(l)[p] = j BY DueIs, ElementsAt
      <2>2. l \in 1 .. TopLane /\ p \in 1 .. Len(s[l]) /\ s[l][p] = [job |-> j, to |-> l + 1]
        BY <1>5, <2>1
      <2>3. PICK i \in 1 .. Len(P) : P[i] = s[l][p] BY <1>4, <2>2 DEF Flattens
      <2> QED BY <2>2, <2>3 DEF GoingOf
    <1>8. ASSUME NEW i \in 1 .. Len(P), NEW j \in 1 .. Len(P), i < j
          PROVE  P[i].job # P[j].job
      <2>1. PICK k \in 1 .. TopLane, m \in 1 .. TopLane :
               \E p \in 1 .. Len(s[k]), r \in 1 .. Len(s[m]) :
                  P[i] = s[k][p] /\ P[j] = s[m][r] /\ (k < m \/ (k = m /\ p < r))
        BY <1>4, <1>8 DEF Flattens
      <2>2. PICK p \in 1 .. Len(s[k]), r \in 1 .. Len(s[m]) :
               P[i] = s[k][p] /\ P[j] = s[m][r] /\ (k < m \/ (k = m /\ p < r))
        BY <2>1
      <2>3. P[i].job = Due(k)[p] /\ P[j].job = Due(m)[r]
        <3>1. /\ P[i] = [job |-> Due(k)[p], to |-> k + 1]
              /\ P[j] = [job |-> Due(m)[r], to |-> m + 1]
          BY <1>5, <2>2
        <3> QED BY <3>1
      <2>4. CASE k # m
        <3>1. Due(k)[p] \in ToSet(lanes[k]) /\ Due(m)[r] \in ToSet(lanes[m]) BY <1>5, DueIs
        <3>2. ToSet(lanes[k]) \subseteq Jobs BY ElementsAt DEF Separate
        <3> QED BY <2>3, <2>4, <3>1, <3>2 DEF Separate
      <2>5. CASE k = m
        <3>1. p \in 1 .. Len(Due(k)) /\ r \in 1 .. Len(Due(k)) /\ p # r BY <1>5, <2>2, <2>5
        <3>2. Once(Due(k)) BY DueIs
        <3> QED BY <2>3, <2>5, <3>1, <3>2 DEF Once
      <2> QED BY <2>4, <2>5
    <1>9. JobsOnce(P)
      <2> SUFFICES ASSUME NEW i \in 1 .. Len(P), NEW k \in 1 .. Len(P), P[i].job = P[k].job, i # k
                   PROVE  FALSE
        BY DEF JobsOnce
      <2>1. i < k \/ k < i BY <1>4, LenProperties
      <2> QED BY <2>1, <1>8
    <1> QED BY <1>4, <1>6, <1>7, <1>9 DEF P

-----------------------------------------------------------------------------
(* The inductive invariant                                                 *)

InQueue(j) ==
    \/ \E l \in Lanes : j \in ToSet(lanes[l])
    \/ j \in GoingOf(promoting)
    \/ \E h \in held : h.job = j

\* A job is in one lane, or on its way to one, or held by the scheduler.  A
\* job held by it may be in no row any more, and the rows that the dead loop
\* has lost are in no lane.
Placed ==
    /\ Separate(lanes)
    /\ promoting \in Seq(Moves) /\ JobsOnce(promoting)
    /\ \A l \in Lanes : \A j \in Jobs : j \in ToSet(lanes[l]) => j \notin GoingOf(promoting)
    /\ promoting # <<>> => sched = "promoting"
    /\ \/ held = {} /\ sched # "requeue"
       \/ \E h \in Moves : /\ held = {h} /\ sched = "requeue"
                           /\ \A l \in Lanes : h.job \notin ToSet(lanes[l])
    /\ sched = "promoting" => promoting # <<>> \/ NonEmpty # {}
    /\ queued \in Seq(Jobs) /\ Once(queued)
    /\ sched # "dead" => \A j \in ToSet(queued) : InQueue(j)

\* The rank of the lane a job is in, goes to or comes from.
RankOK(j, l) == l = Tier[j] \/ (l = Tier[j] + 1 /\ j \in promoted)

Tiered ==
    /\ \A l \in Lanes : \A j \in ToSet(lanes[l]) : RankOK(j, l)
    /\ \A i \in 1 .. Len(promoting) : promoting[i].to = Tier[promoting[i].job] + 1
    /\ \A h \in held : RankOK(h.job, h.to)

SetsType ==
    /\ sched \in {"idle", "promoting", "requeue", "dead"}
    /\ running \subseteq Jobs /\ promoted \subseteq Jobs
    /\ flagged \subseteq Jobs /\ expired \subseteq Jobs
    /\ restarts \in 0 .. MaxRestarts

QueueInv == ClockType /\ Guarded /\ Placed /\ Tiered /\ SetsType

LEMMA EmptyList ==
    /\ \A S : <<>> \in Seq(S) /\ Len(<<>>) = 0
    /\ ToSet(<<>>) = {} /\ Once(<<>>) /\ JobsOnce(<<>>) /\ GoingOf(<<>>) = {}
PROOF
    <1>1. \A S : <<>> \in Seq(S) /\ Len(<<>>) = 0 BY EmptySeq
    <1>2. DOMAIN <<>> = {} OBVIOUS
    <1> QED BY <1>1, <1>2 DEF ToSet, Once, JobsOnce, GoingOf

LEMMA QueueInit == Init => QueueInv
PROOF
    <1> SUFFICES ASSUME Init PROVE QueueInv OBVIOUS
    <1> USE Constants, EmptyList DEF Init
    <1>1. ClockType BY DEF ClockType
    <1>2. Guarded
      <2> SUFFICES ASSUME NEW l \in Lanes PROVE GuardOf(l) BY DEF Guarded
      <2>1. /\ 0 <= Len(window) /\ ~(0 > WindowSize) /\ 0 < WindowSize + l
            /\ \A i \in 1 .. Len(window) : ~(i > Len(window) - 0)
        OBVIOUS
      <2> QED BY <2>1 DEF GuardOf
    <1>3. Placed
      <2>1. Separate(lanes) BY DEF Separate
      <2>2. promoting \in Seq(Moves) /\ queued \in Seq(Jobs) OBVIOUS
      <2> QED BY <2>1, <2>2 DEF Placed
    <1>4. Tiered BY DEF Tiered
    <1>5. SetsType BY DEF SetsType
    <1> QED BY <1>1, <1>2, <1>3, <1>4, <1>5 DEF QueueInv

\* A pop takes the head of a lane that has one.
LEMMA Taken ==
    ASSUME QueueInv, NonEmpty # {}
    PROVE  LET e == [lanes EXCEPT ![NextLane] = Tail(@)]
           IN  /\ NextLane \in Lanes /\ lanes[NextLane] # <<>> /\ Separate(e)
               /\ NextJob \in Jobs /\ NextJob \in ToSet(lanes[NextLane])
               /\ \A m \in Lanes : ToSet(e[m]) = ToSet(lanes[m]) \ {NextJob}
PROOF
    <1>1. NextLane \in Lanes /\ lanes[NextLane] # <<>>
      BY NextLaneChosen DEF QueueInv, ClockType, NonEmpty
    <1>2. Separate(lanes) BY DEF QueueInv, Placed
    <1> QED BY <1>1, <1>2, TakeSeparate DEF NextJob

\* The clock after a pop, normalised or not.
LEMMA PopClock ==
    ASSUME QueueInv, NonEmpty # {}, weight' \in Weights, Pop(weight'), Passing(NextLane)
    PROVE  ClockType' /\ Guarded'
PROOF
    <1> USE Constants
    <1> DEFINE n == NextLane
               v == [vt EXCEPT ![n] = @ + (Unit \div weight'[n])]
               ls == [lanes EXCEPT ![n] = Tail(@)]
    <1>1. n \in Lanes /\ vt \in [Lanes -> Int] /\ window \in Seq(Lanes)
          /\ Len(window) <= WindowSize /\ pops \in 0 .. MaxPops
      BY Taken DEF QueueInv, ClockType
    <1>2. window' = Recorded(n) BY DEF Pop
    <1>3. window' \in Seq(Lanes) /\ Len(window') <= WindowSize BY <1>1, <1>2, WindowRecords
    <1>4. pops' \in 0 .. MaxPops BY <1>1 DEF Pop
    <1>5. vt' = IF pops' % NormalizeEvery = 0 THEN Normalized(v, ls) ELSE v BY DEF Pop
    <1>6. Unit \div weight'[n] \in Int
      <2>1. weight'[n] \in 1 .. Unit BY <1>1
      <2> QED BY <2>1
    <1>7. v \in [Lanes -> Int] BY <1>1, <1>6
    <1> HIDE DEF v, ls, n
    <1>8. Normalized(v, ls) \in [Lanes -> Int]
      <2> DEFINE full == {l \in Lanes : ls[l] # <<>>}
                 V == {v[m] : m \in full}
      <2>1. Normalized(v, ls) = [l \in Lanes |-> IF full = {} THEN 0 ELSE v[l] - Min(V)]
        BY DEF Normalized
      <2>2. CASE full = {} BY <2>1, <2>2
      <2>3. CASE full # {}
        <3>1. PICK l \in full : \A m \in full \ {l} : Sooner(l, v[l], m, v[m])
          <4>1. full \in SUBSET Lanes OBVIOUS
          <4> HIDE DEF full
          <4> QED BY <1>7, <2>3, <4>1, FirstKey
        <3>2. \A m \in full : v[l] \in Int /\ v[m] \in Int BY <1>7
        <3>3. \A m \in full : v[l] <= v[m] BY <3>1, <3>2 DEF Sooner
        <3>4. \E x \in V : \A y \in V : x <= y BY <3>3
        <3>5. Min(V) \in V BY <3>4 DEF Min
        <3>6. Min(V) \in Int BY <3>2, <3>5
        <3> HIDE DEF full, V
        <3>7. \A k \in Lanes : v[k] - Min(V) \in Int BY <1>7, <3>6
        <3> QED BY <2>1, <2>3, <3>7
      <2> QED BY <2>2, <2>3
    <1>9. ClockType' BY <1>3, <1>4, <1>5, <1>7, <1>8 DEF ClockType
    <1>10. Guarded' BY <1>2, GuardPop DEF QueueInv, n
    <1> QED BY <1>9, <1>10

\* An append empties no lane.
LEMMA PutFills ==
    ASSUME lanes \in [Lanes -> Seq(Jobs)], NEW k \in Lanes, NEW j \in Jobs,
           lanes' = Enqueued(lanes, k, j), NEW l \in Lanes, lanes'[l] = <<>>
    PROVE  lanes[l] = <<>>
PROOF
    <1>1. lanes' = [m \in Lanes |-> IF m = k THEN Append(lanes[m], j) ELSE lanes[m]]
      BY DEF Enqueued
    <1>2. lanes[k] \in Seq(Jobs) OBVIOUS
    <1>3. Append(lanes[k], j) # <<>> BY <1>2, AppendProperties
    <1> QED BY <1>1, <1>3

\* The clock and the guard through every other step.
LEMMA QuietClock ==
    ASSUME QueueInv, UNCHANGED <<vt, window, pops>>, weight' \in Weights,
           \/ Emptied
           \/ /\ UNCHANGED passed
              /\ \A l \in Lanes : lanes'[l] = <<>> => lanes[l] = <<>>
    PROVE  ClockType' /\ Guarded'
PROOF
    <1>1. ClockType' BY DEF QueueInv, ClockType
    <1>2. passed \in [Lanes -> Nat] /\ \A l \in Lanes : lanes[l] = <<>> => passed[l] = 0
      BY DEF QueueInv, Guarded, GuardOf
    <1>3. /\ passed' = [l \in Lanes |-> passed'[l]]
          /\ \A l \in Lanes : /\ passed'[l] \in {0, passed[l]}
                              /\ lanes'[l] = <<>> => passed'[l] = 0
      BY <1>2 DEF Emptied
    <1>4. Guarded' BY <1>3, GuardQuiet DEF QueueInv, ClockType
    <1> QED BY <1>1, <1>4

-----------------------------------------------------------------------------
(* One lemma for each step that moves jobs                                 *)

LEMMA InLanesAt ==
    \A j : j \in InLanes <=> \E l \in Lanes : j \in ToSet(lanes[l])
  BY DEF InLanes

LEMMA ForgetIs ==
    ASSUME QueueInv, NEW j \in Jobs, Forget(j)
    PROVE  /\ queued' \in Seq(Jobs) /\ Once(queued')
           /\ ToSet(queued') = ToSet(queued) \ {j}
PROOF
    <1>1. queued \in Seq(Jobs) /\ Once(queued) /\ queued' = Kept(queued, Jobs \ {j})
      BY DEF QueueInv, Placed, Forget
    <1>2. ToSet(queued) \subseteq Jobs BY <1>1, ElementsAt
    <1>3. /\ queued' \in Seq(Jobs) /\ Once(queued')
          /\ ToSet(queued') = ToSet(queued) \cap (Jobs \ {j})
      BY <1>1, KeptOnce
    <1> QED BY <1>2, <1>3

LEMMA SubmitMoves ==
    ASSUME QueueInv, NEW j \in Jobs, Submit(j)
    PROVE  Placed' /\ Tiered'
PROOF
    <1> USE Constants
    <1>1. /\ sched # "promoting" /\ j \notin ToSet(queued)
          /\ \A l \in Lanes : j \notin ToSet(lanes[l])
          /\ \A h \in held : h.job # j
      BY InLanesAt DEF Submit, Locked, Queued, Held
    <1>2. promoting = <<>> /\ GoingOf(promoting) = {}
      BY <1>1, EmptyList DEF QueueInv, Placed
    <1>3. Tier[j] \in Lanes /\ Separate(lanes) BY DEF QueueInv, Placed
    <1>4. /\ lanes' = Enqueued(lanes, Tier[j], j) /\ queued' = Append(queued, j)
          /\ UNCHANGED <<promoting, promoted, sched, held>>
      BY DEF Submit
    <1>5. /\ Separate(lanes')
          /\ \A m \in Lanes : ToSet(lanes'[m]) = IF m = Tier[j] THEN ToSet(lanes[m]) \cup {j}
                                                 ELSE ToSet(lanes[m])
      <2> DEFINE k == Tier[j]
                 e == Enqueued(lanes, k, j)
      <2> HIDE DEF k
      <2>1. k \in Lanes /\ Separate(lanes) BY <1>3 DEF k
      <2>2. /\ Separate(e)
            /\ \A m \in Lanes : ToSet(e[m]) = IF m = k THEN ToSet(lanes[m]) \cup {j}
                                             ELSE ToSet(lanes[m])
        BY ONLY <1>1, <2>1, j \in Jobs, PutSeparate
      <2>3. lanes' = e BY <1>4 DEF k
      <2> HIDE DEF e
      <2> QED BY <2>2, <2>3 DEF k
    <1>6. /\ queued' \in Seq(Jobs) /\ Once(queued') /\ ToSet(queued') = ToSet(queued) \cup {j}
      BY <1>1, <1>4, AppendOnce DEF QueueInv, Placed
    <1>7. sched' # "dead" => \A x \in ToSet(queued') : InQueue(x)'
      <2> SUFFICES ASSUME sched # "dead", NEW x \in ToSet(queued') PROVE InQueue(x)'
        BY <1>4
      <2>1. CASE x = j
        <3>1. x \in ToSet(lanes'[Tier[j]]) BY <1>3, <1>5, <2>1
        <3> QED BY <1>3, <3>1 DEF InQueue
      <2>2. CASE x # j
        <3>1. InQueue(x) BY <1>6, <2>2 DEF QueueInv, Placed
        <3> QED BY <1>4, <1>5, <3>1 DEF InQueue
      <2> QED BY <2>1, <2>2
    <1>8. \/ held' = {} /\ sched' # "requeue"
          \/ \E h \in Moves : /\ held' = {h} /\ sched' = "requeue"
                              /\ \A l \in Lanes : h.job \notin ToSet(lanes'[l])
      <2>1. CASE held = {} /\ sched # "requeue" BY <1>4, <2>1
      <2>2. ASSUME NEW h \in Moves, held = {h}, sched = "requeue",
                   \A l \in Lanes : h.job \notin ToSet(lanes[l])
            PROVE  \A l \in Lanes : h.job \notin ToSet(lanes'[l])
        <3>1. h.job # j BY <1>1, <2>2
        <3> QED BY <1>5, <2>2, <3>1
      <2> QED BY <1>4, <2>1, <2>2 DEF QueueInv, Placed
    <1>9. Placed'
      <2>1. promoting' = <<>> /\ GoingOf(promoting') = {} /\ JobsOnce(promoting')
            /\ promoting' \in Seq(Moves) /\ sched' # "promoting"
        BY <1>1, <1>2, <1>4, EmptyList
      <2> QED BY <1>5, <1>6, <1>7, <1>8, <2>1 DEF Placed
    <1>10. Tiered'
      <2>1. \A l \in Lanes : \A x \in ToSet(lanes'[l]) : RankOK(x, l)'
        <3> SUFFICES ASSUME NEW l \in Lanes, NEW x \in ToSet(lanes'[l]) PROVE RankOK(x, l)'
          OBVIOUS
        <3>1. CASE x \in ToSet(lanes[l]) BY <1>4, <3>1 DEF QueueInv, Tiered, RankOK
        <3>2. CASE x \notin ToSet(lanes[l])
          <4>1. x = j /\ l = Tier[j] BY <1>5, <3>2
          <4> QED BY <4>1 DEF RankOK
        <3> QED BY <3>1, <3>2
      <2> QED BY <1>4, <2>1 DEF QueueInv, Tiered, RankOK
    <1> QED BY <1>9, <1>10

LEMMA CancelMoves ==
    ASSUME QueueInv, NEW j \in Jobs, Cancel(j)
    PROVE  Placed' /\ Tiered'
PROOF
    <1> DEFINE T == [l \in Lanes |-> Jobs \ {j}]
    <1>1. /\ sched # "promoting" /\ UNCHANGED <<promoting, sched, held>>
          /\ lanes' = [l \in Lanes |-> Kept(lanes[l], Jobs \ {j})]
          /\ promoted' = IF j \in InLanes THEN promoted \ {j} ELSE promoted
      BY DEF Cancel, Locked
    <1>2. promoting = <<>> /\ GoingOf(promoting) = {}
      BY <1>1, EmptyList DEF QueueInv, Placed
    <1>3. lanes \in [Lanes -> Seq(Jobs)] /\ Separate(lanes) BY DEF QueueInv, Placed, Separate
    <1>4. /\ Separate(lanes')
          /\ \A l \in Lanes : ToSet(lanes'[l]) = ToSet(lanes[l]) \ {j}
      <2> DEFINE e == [l \in Lanes |-> Kept(lanes[l], T[l])]
      <2>1. lanes' = e BY <1>1
      <2>2. \A l \in Lanes : T[l] = Jobs \ {j} OBVIOUS
      <2> HIDE DEF T
      <2>3. Separate(e) /\ \A l \in Lanes : ToSet(e[l]) = ToSet(lanes[l]) \cap T[l]
        BY <1>3, KeptSeparate
      <2>4. \A l \in Lanes : ToSet(lanes[l]) \subseteq Jobs BY <1>3, ElementsAt
      <2> HIDE DEF e
      <2> QED BY <2>1, <2>2, <2>3, <2>4
    <1>5. /\ queued' \in Seq(Jobs) /\ Once(queued')
          /\ ToSet(queued') = ToSet(queued) \ {j}
      BY ForgetIs DEF Cancel
    <1>6. sched' # "dead" => \A x \in ToSet(queued') : InQueue(x)'
      <2> SUFFICES ASSUME sched # "dead", NEW x \in ToSet(queued') PROVE InQueue(x)'
        BY <1>1
      <2>1. x # j /\ InQueue(x) BY <1>5 DEF QueueInv, Placed
      <2> QED BY <1>1, <1>4, <2>1 DEF InQueue
    <1>7. \/ held' = {} /\ sched' # "requeue"
          \/ \E h \in Moves : /\ held' = {h} /\ sched' = "requeue"
                              /\ \A l \in Lanes : h.job \notin ToSet(lanes'[l])
      BY <1>1, <1>4 DEF QueueInv, Placed
    <1>8. Placed'
      <2>1. promoting' = <<>> /\ GoingOf(promoting') = {} /\ JobsOnce(promoting')
            /\ promoting' \in Seq(Moves) /\ sched' # "promoting"
        BY <1>1, <1>2, EmptyList
      <2> QED BY <1>4, <1>5, <1>6, <1>7, <2>1 DEF Placed
    <1>9. Tiered'
      <2>1. \A l \in Lanes : \A x \in ToSet(lanes'[l]) : RankOK(x, l)'
        <3> SUFFICES ASSUME NEW l \in Lanes, NEW x \in ToSet(lanes'[l]) PROVE RankOK(x, l)'
          OBVIOUS
        <3>1. x # j /\ RankOK(x, l) BY <1>4 DEF QueueInv, Tiered
        <3> QED BY <1>1, <3>1 DEF RankOK
      <2>2. \A h \in held' : RankOK(h.job, h.to)'
        <3> SUFFICES ASSUME NEW h \in held PROVE RankOK(h.job, h.to)' BY <1>1
        <3>1. h.job \notin InLanes BY InLanesAt DEF QueueInv, Placed
        <3>2. h.job \in promoted => h.job \in promoted' BY <1>1, <3>1
        <3> QED BY <3>2 DEF QueueInv, Tiered, RankOK
      <2>3. \A i \in 1 .. Len(promoting') : promoting'[i].to = Tier[promoting'[i].job] + 1
        BY <1>1 DEF QueueInv, Tiered
      <2> QED BY <2>1, <2>2, <2>3 DEF Tiered
    <1> QED BY <1>8, <1>9

\* Steps that move no job.
LEMMA StillMoves ==
    ASSUME QueueInv, UNCHANGED <<lanes, promoting, promoted, sched, held, queued>>
    PROVE  Placed' /\ Tiered'
PROOF
    <1>1. Placed' BY DEF QueueInv, Placed, InQueue, NonEmpty
    <1>2. Tiered' BY DEF QueueInv, Tiered, RankOK
    <1> QED BY <1>1, <1>2

\* A job leaves the queue for a worker.
LEMMA DispatchMoves ==
    ASSUME QueueInv, NonEmpty # {}, DispatchHead, promoting = <<>>, UNCHANGED promoting,
           held = {}, UNCHANGED held, sched' = "idle", sched # "dead"
    PROVE  Placed' /\ Tiered'
PROOF
    <1> DEFINE h == NextJob
    <1>1. /\ lanes' = [lanes EXCEPT ![NextLane] = Tail(@)]
          /\ Forget(h) /\ promoted' = promoted \ {h}
      BY DEF DispatchHead
    <1>2. /\ Separate(lanes') /\ h \in Jobs
          /\ \A m \in Lanes : ToSet(lanes'[m]) = ToSet(lanes[m]) \ {h}
      BY <1>1, Taken
    <1>3. /\ queued' \in Seq(Jobs) /\ Once(queued')
          /\ ToSet(queued') = ToSet(queued) \ {h}
      BY <1>1, <1>2, ForgetIs
    <1> HIDE DEF h
    <1>4. ASSUME NEW x \in ToSet(queued') PROVE InQueue(x)'
      <2>1. x # h /\ InQueue(x) BY <1>3 DEF QueueInv, Placed
      <2> QED BY <1>2, <2>1 DEF InQueue
    <1>5. Placed'
      <2>1. promoting' = <<>> /\ GoingOf(promoting') = {} /\ JobsOnce(promoting')
            /\ promoting' \in Seq(Moves) /\ held' = {}
        BY EmptyList
      <2> QED BY <1>2, <1>3, <1>4, <2>1 DEF Placed
    <1>6. Tiered'
      <2>1. \A l \in Lanes : \A x \in ToSet(lanes'[l]) : RankOK(x, l)'
        BY <1>1, <1>2 DEF QueueInv, Tiered, RankOK
      <2> QED BY <2>1, EmptyList DEF Tiered
    <1> QED BY <1>5, <1>6

\* A job goes back to the lane it was popped from, at once.
LEMMA PopRequeueMoves ==
    ASSUME QueueInv, PopRequeue
    PROVE  Placed' /\ Tiered'
PROOF
    <1> DEFINE n == NextLane
               h == NextJob
               ls == [lanes EXCEPT ![n] = Tail(@)]
               e == Enqueued(ls, n, h)
    <1>1. /\ NonEmpty # {} /\ sched = "idle" /\ lanes' = e
          /\ UNCHANGED <<promoting, promoted, sched, held, queued>>
      BY DEF PopRequeue, Ready, rows
    <1>2. /\ n \in Lanes /\ lanes[n] # <<>> /\ Separate(ls) /\ h \in Jobs
          /\ h \in ToSet(lanes[n])
          /\ \A m \in Lanes : ToSet(ls[m]) = ToSet(lanes[m]) \ {h}
      BY <1>1, Taken
    <1> HIDE DEF n, h, ls
    <1>3. \A m \in Lanes : h \notin ToSet(ls[m]) BY <1>2
    <1>4. /\ Separate(e) /\ e[n] # <<>>
          /\ \A m \in Lanes : ToSet(e[m]) = IF m = n THEN ToSet(ls[m]) \cup {h} ELSE ToSet(ls[m])
      BY ONLY <1>2, <1>3, PutSeparate
    <1> HIDE DEF e
    <1>5. \A m \in Lanes : ToSet(lanes'[m]) = ToSet(lanes[m])
      <2> TAKE m \in Lanes
      <2>1. CASE m = n BY <1>1, <1>2, <1>4, <2>1
      <2>2. CASE m # n
        <3>1. h \notin ToSet(lanes[m]) BY <1>2, <2>2 DEF QueueInv, Placed, Separate
        <3> QED BY <1>1, <1>2, <1>4, <2>2, <3>1
      <2> QED BY <2>1, <2>2
    <1>6. Placed'
      <2>1. promoting = <<>> /\ held = {} BY <1>1 DEF QueueInv, Placed
      <2>2. \A x \in ToSet(queued) : InQueue(x)' BY <1>1, <1>5 DEF QueueInv, Placed, InQueue
      <2>3. promoting' = <<>> /\ GoingOf(promoting') = {} /\ JobsOnce(promoting')
            /\ promoting' \in Seq(Moves) /\ held' = {} /\ sched' = "idle" /\ queued' = queued
        BY <1>1, <2>1, EmptyList
      <2>4. queued \in Seq(Jobs) /\ Once(queued) BY DEF QueueInv, Placed
      <2> QED BY <1>1, <1>4, <2>2, <2>3, <2>4 DEF Placed
    <1>7. Tiered' BY <1>1, <1>5 DEF QueueInv, Tiered, RankOK
    <1> QED BY <1>6, <1>7

\* The overdue jobs leave their lanes, each of them to be appended one tier up.
LEMMA PromoteBeginMoves ==
    ASSUME QueueInv, PromoteBegin
    PROVE  Placed' /\ Tiered'
PROOF
    <1> DEFINE T == [l \in Lanes |-> {j \in Jobs : ~Overdue(j, l)}]
               e == [l \in Lanes |-> Kept(lanes[l], T[l])]
    <1>1. /\ Promotions # <<>> /\ sched = "idle" /\ promoting' = Promotions /\ sched' = "promoting"
          /\ UNCHANGED <<promoted, held, queued>>
          /\ lanes' = e
      BY DEF PromoteBegin, Ready, rows
    <1>2. Separate(lanes) /\ \A l \in Lanes : ToSet(lanes[l]) \subseteq Jobs
      <2>1. Separate(lanes) BY DEF QueueInv, Placed
      <2>2. \A l \in Lanes : lanes[l] \in Seq(Jobs) BY <2>1 DEF Separate
      <2> QED BY <2>1, <2>2, ElementsAt
    <1>3. /\ Separate(e)
          /\ \A l \in Lanes : ToSet(e[l]) = ToSet(lanes[l]) \cap {j \in Jobs : ~Overdue(j, l)}
      <2>1. \A l \in Lanes : T[l] = {j \in Jobs : ~Overdue(j, l)} OBVIOUS
      <2> HIDE DEF T
      <2>2. Separate(e) /\ \A l \in Lanes : ToSet(e[l]) = ToSet(lanes[l]) \cap T[l]
        BY ONLY <1>2, KeptSeparate
      <2> HIDE DEF e
      <2> QED BY <2>1, <2>2
    <1> HIDE DEF e
    <1>4. Separate(lanes') BY <1>1, <1>3
    <1>5. \A l \in Lanes : \A j : j \in ToSet(lanes'[l]) <=> j \in ToSet(lanes[l]) /\ ~Overdue(j, l)
      BY <1>1, <1>2, <1>3
    <1>6. /\ promoting' \in Seq(Moves) /\ JobsOnce(promoting')
          /\ \A i \in 1 .. Len(promoting') : \E l \in Lanes :
               promoting'[i].job \in ToSet(Due(l)) /\ promoting'[i].to = l + 1
          /\ \A l \in Lanes : \A j \in ToSet(Due(l)) : j \in GoingOf(promoting')
      <2> DEFINE P == Promotions
      <2>1. /\ P \in Seq(Moves) /\ JobsOnce(P)
            /\ \A i \in 1 .. Len(P) : \E l \in Lanes : P[i].job \in ToSet(Due(l)) /\ P[i].to = l + 1
            /\ \A l \in Lanes : \A j \in ToSet(Due(l)) : j \in GoingOf(P)
        BY <1>2, PromotionsAre
      <2>2. promoting' = P BY <1>1
      <2> HIDE DEF P
      <2> QED BY <2>1, <2>2
    <1>7. \A l \in Lanes : \A j : j \in ToSet(Due(l)) <=> j \in ToSet(lanes[l]) /\ Overdue(j, l)
      BY <1>2, DueIs
    <1>8. \A l \in Lanes : \A j \in Jobs : j \in ToSet(lanes'[l]) => j \notin GoingOf(promoting')
      <2> SUFFICES ASSUME NEW l \in Lanes, NEW j \in Jobs, j \in ToSet(lanes'[l]),
                          NEW i \in 1 .. Len(promoting'), promoting'[i].job = j
                   PROVE  FALSE
        BY DEF GoingOf
      <2>1. PICK m \in Lanes : j \in ToSet(Due(m)) BY <1>6
      <2>2. j \in ToSet(lanes[m]) /\ Overdue(j, m) /\ j \in ToSet(lanes[l]) /\ ~Overdue(j, l)
        BY <1>5, <1>7, <2>1
      <2>3. l = m BY <1>2, <2>2 DEF Separate
      <2> QED BY <2>2, <2>3
    <1>9. ASSUME NEW x \in ToSet(queued) PROVE InQueue(x)'
      <2>1. InQueue(x) /\ held = {} /\ promoting = <<>> BY <1>1 DEF QueueInv, Placed
      <2>2. PICK l \in Lanes : x \in ToSet(lanes[l]) BY <2>1, EmptyList DEF InQueue
      <2>3. CASE Overdue(x, l)
        <3>1. x \in GoingOf(promoting') BY <1>6, <1>7, <2>2, <2>3
        <3> QED BY <3>1 DEF InQueue
      <2>4. CASE ~Overdue(x, l)
        <3>1. x \in ToSet(lanes'[l]) BY <1>5, <2>2, <2>4
        <3> QED BY <3>1 DEF InQueue
      <2> QED BY <2>3, <2>4
    <1>10. Placed'
      <2>1. held' = {} /\ sched' = "promoting" /\ promoting' # <<>> BY <1>1 DEF QueueInv, Placed
      <2>2. queued' \in Seq(Jobs) /\ Once(queued') /\ queued' = queued BY <1>1 DEF QueueInv, Placed
      <2> QED BY <1>4, <1>6, <1>8, <1>9, <2>1, <2>2 DEF Placed
    <1>11. Tiered'
      <2>1. \A l \in Lanes : \A x \in ToSet(lanes'[l]) : RankOK(x, l)'
        BY <1>1, <1>5 DEF QueueInv, Tiered, RankOK
      <2>2. ASSUME NEW i \in 1 .. Len(promoting') PROVE promoting'[i].to = Tier[promoting'[i].job] + 1
        <3>1. PICK l \in Lanes : promoting'[i].job \in ToSet(Due(l)) /\ promoting'[i].to = l + 1
          BY <1>6
        <3>2. promoting'[i].job \in ToSet(lanes[l]) /\ Overdue(promoting'[i].job, l) BY <1>7, <3>1
        <3>3. l = Tier[promoting'[i].job] BY <3>2 DEF QueueInv, Tiered, RankOK, Overdue
        <3> QED BY <3>1, <3>3
      <2>3. held' = {} BY <1>1 DEF QueueInv, Placed
      <2> QED BY <2>1, <2>2, <2>3 DEF Tiered
    <1> QED BY <1>10, <1>11

\* The next promotion is appended to its new lane.
LEMMA AppendPromoted ==
    ASSUME QueueInv, promoting # <<>>, lanes' = Promoted(Head(promoting)),
           promoted' = promoted \cup {Head(promoting).job}, held' = held
    PROVE  LET p == Head(promoting)
           IN  /\ p \in Moves /\ p.job \in GoingOf(promoting) /\ held = {}
               /\ Separate(lanes') /\ lanes'[p.to] # <<>>
               /\ \A m \in Lanes : ToSet(lanes'[m]) = IF m = p.to THEN ToSet(lanes[m]) \cup {p.job}
                                                      ELSE ToSet(lanes[m])
               /\ \A l \in Lanes : \A x \in ToSet(lanes'[l]) : RankOK(x, l)'
               /\ \A l \in Lanes : lanes'[l] = <<>> => lanes[l] = <<>>
PROOF
    <1> DEFINE p == Head(promoting)
               j == p.job
               k == p.to
               e == Enqueued(lanes, k, j)
    <1>1. /\ p \in Moves /\ j \in GoingOf(promoting) /\ p = promoting[1] /\ 1 \in 1 .. Len(promoting)
      BY NextMove DEF QueueInv, Placed
    <1>2. j \in Jobs /\ k \in Lanes BY <1>1 DEF Moves
    <1>3. Separate(lanes) /\ \A m \in Lanes : j \notin ToSet(lanes[m])
      BY <1>1, <1>2 DEF QueueInv, Placed
    <1>4. k = Tier[j] + 1 BY <1>1 DEF QueueInv, Tiered
    <1>5. lanes' = e BY DEF Promoted
    <1>6. held = {} BY DEF QueueInv, Placed
    <1>a. promoted' = promoted \cup {j} OBVIOUS
    <1> HIDE DEF k, j
    <1>7. /\ Separate(e) /\ e[k] # <<>>
          /\ \A m \in Lanes : ToSet(e[m]) = IF m = k THEN ToSet(lanes[m]) \cup {j} ELSE ToSet(lanes[m])
      BY ONLY <1>2, <1>3, PutSeparate
    <1>8. \A l \in Lanes : lanes'[l] = <<>> => lanes[l] = <<>>
      <2>1. lanes \in [Lanes -> Seq(Jobs)] BY <1>3 DEF Separate
      <2> QED BY <2>1, <1>2, <1>5, PutFills
    <1> HIDE DEF e
    <1>9. ASSUME NEW l \in Lanes, NEW x \in ToSet(lanes'[l]) PROVE RankOK(x, l)'
      <2>1. CASE x \in ToSet(lanes[l]) BY <1>a, <2>1 DEF QueueInv, Tiered, RankOK
      <2>2. CASE x \notin ToSet(lanes[l])
        <3>1. x = j /\ l = k BY <1>5, <1>7, <2>2
        <3> QED BY <1>4, <1>a, <3>1 DEF RankOK
      <2> QED BY <2>1, <2>2
    <1>10. /\ Separate(lanes') /\ lanes'[k] # <<>>
           /\ \A m \in Lanes : ToSet(lanes'[m]) = IF m = k THEN ToSet(lanes[m]) \cup {j}
                                                  ELSE ToSet(lanes[m])
      BY <1>5, <1>7
    <1> QED BY <1>1, <1>6, <1>8, <1>9, <1>10 DEF j, k

LEMMA PromoteMoves ==
    ASSUME QueueInv, Promote
    PROVE  Placed' /\ Tiered'
PROOF
    <1> DEFINE p == Head(promoting)
    <1>1. /\ sched = "promoting" /\ promoting # <<>> /\ lanes' = Promoted(p)
          /\ promoted' = promoted \cup {p.job} /\ promoting' = Tail(promoting)
          /\ UNCHANGED <<sched, held, queued>>
      BY DEF Promote
    <1>2. /\ p \in Moves /\ held = {}
          /\ Separate(lanes') /\ lanes'[p.to] # <<>>
          /\ \A m \in Lanes : ToSet(lanes'[m]) = IF m = p.to THEN ToSet(lanes[m]) \cup {p.job}
                                                 ELSE ToSet(lanes[m])
          /\ \A l \in Lanes : \A x \in ToSet(lanes'[l]) : RankOK(x, l)'
      BY <1>1, AppendPromoted
    <1>3. p.to \in Lanes /\ p.job \in Jobs BY <1>2 DEF Moves
    <1>4. /\ promoting' \in Seq(Moves) /\ JobsOnce(promoting')
          /\ GoingOf(promoting') = GoingOf(promoting) \ {p.job}
          /\ \A i \in 1 .. Len(promoting') : \E k \in 1 .. Len(promoting) : promoting'[i] = promoting[k]
      BY <1>1, NextMove DEF QueueInv, Placed
    <1> HIDE DEF p
    <1>5. \A l \in Lanes : \A j \in Jobs : j \in ToSet(lanes'[l]) => j \notin GoingOf(promoting')
      BY <1>2, <1>4 DEF QueueInv, Placed
    <1>6. NonEmpty' # {} BY <1>2, <1>3 DEF NonEmpty
    <1>7. ASSUME NEW x \in ToSet(queued) PROVE InQueue(x)'
      <2>1. InQueue(x) BY <1>1 DEF QueueInv, Placed
      <2>2. CASE x = p.job
        <3>1. x \in ToSet(lanes'[p.to]) BY <1>2, <1>3, <2>2
        <3> QED BY <1>3, <3>1 DEF InQueue
      <2>3. CASE x # p.job BY <1>1, <1>2, <1>4, <2>1, <2>3 DEF InQueue
      <2> QED BY <2>2, <2>3
    <1>8. Placed'
      <2>1. held' = {} /\ sched' = "promoting" /\ queued' = queued BY <1>1, <1>2
      <2>2. queued \in Seq(Jobs) /\ Once(queued) BY DEF QueueInv, Placed
      <2> QED BY <1>2, <1>4, <1>5, <1>6, <1>7, <2>1, <2>2 DEF Placed
    <1>9. Tiered'
      <2>1. \A i \in 1 .. Len(promoting') : promoting'[i].to = Tier[promoting'[i].job] + 1
        BY <1>4 DEF QueueInv, Tiered
      <2> QED BY <1>1, <1>2, <2>1 DEF Tiered
    <1> QED BY <1>8, <1>9

LEMMA PromoteRaisesMoves ==
    ASSUME QueueInv, PromoteRaises
    PROVE  Placed' /\ Tiered'
PROOF
    <1> DEFINE p == Head(promoting)
    <1>1. /\ promoting # <<>> /\ lanes' = Promoted(p)
          /\ promoted' = promoted \cup {p.job} /\ promoting' = <<>>
          /\ sched' = "dead" /\ UNCHANGED <<held, queued>>
      BY DEF PromoteRaises, rows
    <1>2. /\ held = {} /\ Separate(lanes')
          /\ \A l \in Lanes : \A x \in ToSet(lanes'[l]) : RankOK(x, l)'
      BY <1>1, AppendPromoted
    <1>3. Placed'
      <2>1. /\ promoting' \in Seq(Moves) /\ JobsOnce(promoting') /\ GoingOf(promoting') = {}
        BY <1>1, EmptyList
      <2>2. queued' \in Seq(Jobs) /\ Once(queued') BY <1>1 DEF QueueInv, Placed
      <2> QED BY <1>1, <1>2, <2>1, <2>2 DEF Placed
    <1>4. Tiered' BY <1>1, <1>2, EmptyList DEF Tiered
    <1> QED BY <1>3, <1>4

\* The pop after the promotions: to a worker, or into the scheduler's hands.
LEMMA PopPromotedMoves ==
    ASSUME QueueInv, PopPromoted
    PROVE  Placed' /\ Tiered'
PROOF
    <1>1. /\ sched = "promoting" /\ promoting = <<>> /\ UNCHANGED promoting
          /\ NonEmpty # {} /\ held = {}
      BY DEF PopPromoted, QueueInv, Placed
    <1>2. CASE DispatchHead /\ sched' = "idle" /\ UNCHANGED held
      BY <1>1, <1>2, DispatchMoves
    <1>3. CASE /\ lanes' = [lanes EXCEPT ![NextLane] = Tail(@)]
               /\ held' = {[job |-> NextJob, to |-> NextLane]} /\ sched' = "requeue"
               /\ UNCHANGED <<running, rows, promoted>>
      <2> DEFINE n == NextLane
                 h == NextJob
                 m == [job |-> h, to |-> n]
      <2>1. /\ n \in Lanes /\ Separate(lanes') /\ h \in Jobs /\ h \in ToSet(lanes[n])
            /\ \A l \in Lanes : ToSet(lanes'[l]) = ToSet(lanes[l]) \ {h}
        BY <1>1, <1>3, Taken
      <2>2. held' = {m} /\ sched' = "requeue" /\ queued' = queued /\ promoted' = promoted
        BY <1>3 DEF rows
      <2> HIDE DEF n, h
      <2>3. m \in Moves /\ m.job = h /\ m.to = n BY <2>1 DEF Moves
      <2> HIDE DEF m
      <2>4. RankOK(h, n) BY <2>1 DEF QueueInv, Tiered
      <2>5. ASSUME NEW x \in ToSet(queued) PROVE InQueue(x)'
        <3>1. InQueue(x) BY <1>1 DEF QueueInv, Placed
        <3>2. PICK l \in Lanes : x \in ToSet(lanes[l]) BY <1>1, <3>1, EmptyList DEF InQueue
        <3>3. x = h \/ x \in ToSet(lanes'[l]) BY <2>1, <3>2
        <3> QED BY <2>2, <2>3, <3>3 DEF InQueue
      <2>6. Placed'
        <3>1. promoting' = <<>> /\ GoingOf(promoting') = {} /\ JobsOnce(promoting')
              /\ promoting' \in Seq(Moves)
          BY <1>1, EmptyList
        <3>2. queued \in Seq(Jobs) /\ Once(queued) BY DEF QueueInv, Placed
        <3>3. \A l \in Lanes : m.job \notin ToSet(lanes'[l]) BY <2>1, <2>3
        <3> QED BY <2>1, <2>2, <2>3, <2>5, <3>1, <3>2, <3>3 DEF Placed
      <2>7. Tiered'
        <3>1. \A l \in Lanes : \A x \in ToSet(lanes'[l]) : RankOK(x, l)'
          BY <2>1, <2>2 DEF QueueInv, Tiered, RankOK
        <3>2. \A i \in 1 .. Len(promoting') : promoting'[i].to = Tier[promoting'[i].job] + 1
          BY <1>1 DEF QueueInv, Tiered
        <3>3. \A x \in held' : RankOK(x.job, x.to)' BY <2>2, <2>3, <2>4 DEF RankOK
        <3> QED BY <3>1, <3>2, <3>3 DEF Tiered
      <2> QED BY <2>6, <2>7
    <1> QED BY <1>2, <1>3 DEF PopPromoted

\* requeue: back to the tail of the lane the job was popped from.
LEMMA RequeueMoves ==
    ASSUME QueueInv, Requeue
    PROVE  /\ Placed' /\ Tiered'
           /\ \A l \in Lanes : lanes'[l] = <<>> => lanes[l] = <<>>
PROOF
    <1>1. /\ sched = "requeue" /\ held' = {} /\ sched' = "idle"
          /\ UNCHANGED <<promoting, promoted, queued>>
      BY DEF Requeue, rows
    <1>2. PICK h \in Moves : held = {h} /\ \A l \in Lanes : h.job \notin ToSet(lanes[l])
      BY <1>1 DEF QueueInv, Placed
    <1> DEFINE j == h.job
               k == h.to
               e == Enqueued(lanes, k, j)
    <1>3. lanes' = e BY <1>2 DEF Requeue
    <1>4. /\ j \in Jobs /\ k \in Lanes /\ Separate(lanes)
          /\ \A m \in Lanes : j \notin ToSet(lanes[m])
      BY <1>2 DEF Moves, QueueInv, Placed
    <1>5. RankOK(j, k) BY <1>2 DEF QueueInv, Tiered
    <1>6. \A x : (\E y \in held : y.job = x) => x = j BY <1>2
    <1> HIDE DEF j, k
    <1>7. /\ Separate(e)
          /\ \A m \in Lanes : ToSet(e[m]) = IF m = k THEN ToSet(lanes[m]) \cup {j} ELSE ToSet(lanes[m])
      BY ONLY <1>4, PutSeparate
    <1>8. \A l \in Lanes : lanes'[l] = <<>> => lanes[l] = <<>>
      <2>1. lanes \in [Lanes -> Seq(Jobs)] BY <1>4 DEF Separate
      <2> QED BY <2>1, <1>3, <1>4, PutFills
    <1> HIDE DEF e
    <1>9. /\ Separate(lanes')
          /\ \A m \in Lanes : ToSet(lanes'[m]) = IF m = k THEN ToSet(lanes[m]) \cup {j}
                                                 ELSE ToSet(lanes[m])
      BY <1>3, <1>7
    <1>10. promoting = <<>> BY <1>1 DEF QueueInv, Placed
    <1>11. Placed'
      <2>1. promoting' = <<>> /\ GoingOf(promoting') = {} /\ JobsOnce(promoting')
            /\ promoting' \in Seq(Moves)
        BY <1>1, <1>10, EmptyList
      <2>2. queued' \in Seq(Jobs) /\ Once(queued') BY <1>1 DEF QueueInv, Placed
      <2>3. ASSUME NEW x \in ToSet(queued) PROVE InQueue(x)'
        <3>1. InQueue(x) BY <1>1 DEF QueueInv, Placed
        <3>2. x = j \/ \E l \in Lanes : x \in ToSet(lanes[l])
          BY <1>6, <1>10, <3>1, EmptyList DEF InQueue
        <3>3. \E l \in Lanes : x \in ToSet(lanes'[l]) BY <1>4, <1>9, <3>2
        <3> QED BY <3>3 DEF InQueue
      <2> QED BY <1>1, <1>9, <2>1, <2>2, <2>3 DEF Placed
    <1>12. Tiered'
      <2>1. ASSUME NEW l \in Lanes, NEW x \in ToSet(lanes'[l]) PROVE RankOK(x, l)'
        <3>1. x \in ToSet(lanes[l]) \/ (x = j /\ l = k) BY <1>9
        <3>2. RankOK(x, l) BY <1>5, <3>1 DEF QueueInv, Tiered
        <3> QED BY <1>1, <3>2 DEF RankOK
      <2>2. \A i \in 1 .. Len(promoting') : promoting'[i].to = Tier[promoting'[i].job] + 1
        BY <1>1 DEF QueueInv, Tiered
      <2> QED BY <1>1, <2>1, <2>2 DEF Tiered
    <1> QED BY <1>8, <1>11, <1>12

\* The next process restores every QUEUED row to the lane of its tier.
LEMMA RestartMoves ==
    ASSUME QueueInv, Restart
    PROVE  Placed' /\ Tiered'
PROOF
    <1> USE Constants
    <1>1. /\ promoting' = <<>> /\ sched' = "idle" /\ held' = {} /\ queued' = queued
          /\ lanes' = [l \in Lanes |-> Kept(queued, {j \in Jobs : Tier[j] = l})]
      BY DEF Restart, rows
    <1>2. queued \in Seq(Jobs) /\ Once(queued) /\ ToSet(queued) \subseteq Jobs
      BY ElementsAt DEF QueueInv, Placed
    <1>3. ASSUME NEW l \in Lanes
          PROVE  /\ lanes'[l] \in Seq(Jobs) /\ Once(lanes'[l])
                 /\ \A j : j \in ToSet(lanes'[l]) <=> j \in ToSet(queued) /\ Tier[j] = l
      <2> DEFINE T == {j \in Jobs : Tier[j] = l}
                 q == Kept(queued, T)
      <2>1. lanes'[l] = q BY <1>1
      <2>2. \A j : j \in ToSet(queued) \cap T <=> j \in ToSet(queued) /\ Tier[j] = l BY <1>2
      <2> HIDE DEF T
      <2>3. q \in Seq(Jobs) /\ Once(q) /\ ToSet(q) = ToSet(queued) \cap T BY <1>2, KeptOnce
      <2> HIDE DEF q
      <2> QED BY <2>1, <2>2, <2>3
    <1>4. Separate(lanes')
      <2>1. lanes' \in [Lanes -> Seq(Jobs)] BY <1>1, <1>3
      <2> QED BY <1>3, <2>1 DEF Separate
    <1>5. Placed'
      <2>1. /\ promoting' \in Seq(Moves) /\ JobsOnce(promoting') /\ GoingOf(promoting') = {}
        BY <1>1, EmptyList
      <2>2. ASSUME NEW x \in ToSet(queued) PROVE InQueue(x)'
        <3>1. Tier[x] \in Lanes BY <1>2
        <3>2. x \in ToSet(lanes'[Tier[x]]) BY <1>3, <3>1
        <3> QED BY <3>1, <3>2 DEF InQueue
      <2> QED BY <1>1, <1>2, <1>4, <2>1, <2>2 DEF Placed
    <1>6. Tiered'
      <2>1. \A l \in Lanes : \A x \in ToSet(lanes'[l]) : RankOK(x, l)' BY <1>3 DEF RankOK
      <2> QED BY <1>1, <2>1, EmptyList DEF Tiered
    <1> QED BY <1>5, <1>6

-----------------------------------------------------------------------------
(* Every step keeps the invariant                                          *)

LEMMA SetsStep ==
    ASSUME QueueInv, [Next]_vars
    PROVE  SetsType'
PROOF
    <1> USE DEF QueueInv, SetsType, lane, rows
    <1>1. ASSUME NEW j \in Jobs, Submit(j) PROVE SetsType' BY <1>1 DEF Submit
    <1>2. ASSUME NEW j \in Jobs, Cancel(j) PROVE SetsType' BY <1>2 DEF Cancel, Forget
    <1>3. ASSUME NEW j \in Jobs, Expire(j) PROVE SetsType' BY <1>3 DEF Expire
    <1>4. ASSUME NEW j \in Jobs, Done(j) PROVE SetsType' BY <1>4 DEF Done
    <1>5. ASSUME PopDispatch PROVE SetsType'
      <2>1. NextJob \in Jobs BY <1>5, Taken DEF PopDispatch, Ready
      <2> QED BY <1>5, <2>1 DEF PopDispatch, DispatchHead, Forget
    <1>6. ASSUME PopRequeue PROVE SetsType' BY <1>6 DEF PopRequeue
    <1>7. ASSUME PromoteBegin PROVE SetsType' BY <1>7 DEF PromoteBegin
    <1>8. ASSUME promoting # <<>> PROVE Head(promoting).job \in Jobs
      <2>1. promoting \in Seq(Moves) /\ JobsOnce(promoting) BY DEF Placed
      <2>2. Head(promoting) \in Moves BY <1>8, <2>1, NextMove
      <2> QED BY <2>2 DEF Moves
    <1>9. ASSUME Promote PROVE SetsType' BY <1>8, <1>9 DEF Promote
    <1>10. ASSUME PromoteRaises PROVE SetsType' BY <1>8, <1>10 DEF PromoteRaises
    <1>11. ASSUME PopPromoted PROVE SetsType'
      <2>1. NextJob \in Jobs
        <3>1. NonEmpty # {} BY <1>11 DEF PopPromoted, Placed
        <3> QED BY <3>1, Taken
      <2> QED BY <1>11, <2>1 DEF PopPromoted, DispatchHead, Forget
    <1>12. ASSUME Requeue PROVE SetsType' BY <1>12 DEF Requeue
    <1>13. ASSUME Restart PROVE SetsType' BY <1>13, Constants DEF Restart
    <1>14. ASSUME UNCHANGED vars PROVE SetsType' BY <1>14 DEF vars
    <1> QED
      BY <1>1, <1>2, <1>3, <1>4, <1>5, <1>6, <1>7, <1>9, <1>10, <1>11, <1>12, <1>13, <1>14
      DEF Next

LEMMA MovesStep ==
    ASSUME QueueInv, [Next]_vars
    PROVE  Placed' /\ Tiered'
PROOF
    <1>1. ASSUME NEW j \in Jobs, Submit(j) PROVE Placed' /\ Tiered' BY <1>1, SubmitMoves
    <1>2. ASSUME NEW j \in Jobs, Cancel(j) PROVE Placed' /\ Tiered' BY <1>2, CancelMoves
    <1>3. ASSUME NEW j \in Jobs, Expire(j) PROVE Placed' /\ Tiered'
      BY <1>3, StillMoves DEF Expire, lane
    <1>4. ASSUME NEW j \in Jobs, Done(j) PROVE Placed' /\ Tiered'
      BY <1>4, StillMoves DEF Done, lane, rows
    <1>5. ASSUME PopDispatch PROVE Placed' /\ Tiered'
      <2>1. /\ NonEmpty # {} /\ DispatchHead /\ sched = "idle" /\ sched' = sched
            /\ UNCHANGED <<promoting, held>>
        BY <1>5 DEF PopDispatch, Ready
      <2>2. promoting = <<>> /\ held = {} BY <2>1 DEF QueueInv, Placed
      <2> QED BY <2>1, <2>2, DispatchMoves
    <1>6. ASSUME PopRequeue PROVE Placed' /\ Tiered' BY <1>6, PopRequeueMoves
    <1>7. ASSUME PromoteBegin PROVE Placed' /\ Tiered' BY <1>7, PromoteBeginMoves
    <1>8. ASSUME Promote PROVE Placed' /\ Tiered' BY <1>8, PromoteMoves
    <1>9. ASSUME PromoteRaises PROVE Placed' /\ Tiered' BY <1>9, PromoteRaisesMoves
    <1>10. ASSUME PopPromoted PROVE Placed' /\ Tiered' BY <1>10, PopPromotedMoves
    <1>11. ASSUME Requeue PROVE Placed' /\ Tiered' BY <1>11, RequeueMoves
    <1>12. ASSUME Restart PROVE Placed' /\ Tiered' BY <1>12, RestartMoves
    <1>13. ASSUME UNCHANGED vars PROVE Placed' /\ Tiered' BY <1>13, StillMoves DEF vars
    <1> QED
      BY <1>1, <1>2, <1>3, <1>4, <1>5, <1>6, <1>7, <1>8, <1>9, <1>10, <1>11, <1>12, <1>13
      DEF Next

LEMMA ClockStep ==
    ASSUME QueueInv, [Next]_vars
    PROVE  ClockType' /\ Guarded'
PROOF
    <1> DEFINE Goal == ClockType' /\ Guarded'
    <1>0. weight \in Weights BY DEF QueueInv, ClockType
    <1> USE DEF lane, rows, RefreshWeights
    <1>1. ASSUME NEW j \in Jobs, Submit(j) PROVE Goal BY <1>1, QuietClock DEF Submit
    <1>2. ASSUME NEW j \in Jobs, Cancel(j) PROVE Goal BY <1>0, <1>2, QuietClock DEF Cancel
    <1>3. ASSUME NEW j \in Jobs, Expire(j) PROVE Goal BY <1>0, <1>3, QuietClock DEF Expire
    <1>4. ASSUME NEW j \in Jobs, Done(j) PROVE Goal BY <1>0, <1>4, QuietClock DEF Done
    <1>5. ASSUME PopDispatch PROVE Goal BY <1>5, PopClock DEF PopDispatch, Ready
    <1>6. ASSUME PopRequeue PROVE Goal BY <1>6, PopClock DEF PopRequeue, Ready
    <1>7. ASSUME PromoteBegin PROVE Goal BY <1>7, QuietClock DEF PromoteBegin
    <1>8. ASSUME Promote PROVE Goal
      <2>1. \A l \in Lanes : lanes'[l] = <<>> => lanes[l] = <<>>
        BY <1>8, AppendPromoted DEF Promote
      <2> QED BY <1>0, <1>8, <2>1, QuietClock DEF Promote
    <1>9. ASSUME PromoteRaises PROVE Goal
      <2>1. \A l \in Lanes : lanes'[l] = <<>> => lanes[l] = <<>>
        BY <1>9, AppendPromoted DEF PromoteRaises
      <2> QED BY <1>0, <1>9, <2>1, QuietClock DEF PromoteRaises
    <1>10. ASSUME PopPromoted PROVE Goal
      <2>1. NonEmpty # {} BY <1>10 DEF PopPromoted, QueueInv, Placed
      <2>2. weight' = weight /\ Pop(weight) /\ Passing(NextLane) BY <1>10 DEF PopPromoted
      <2>3. Pop(weight') BY <2>2
      <2> QED BY <1>0, <2>1, <2>2, <2>3, PopClock
    <1>11. ASSUME Requeue PROVE Goal
      <2>1. \A l \in Lanes : lanes'[l] = <<>> => lanes[l] = <<>> BY <1>11, RequeueMoves
      <2> QED BY <1>11, <2>1, QuietClock DEF Requeue
    <1>12. ASSUME Restart PROVE Goal
      <2> USE Constants, EmptyList
      <2>1. /\ vt' = [l \in Lanes |-> 0] /\ weight' \in Weights /\ window' = <<>> /\ pops' = 0
            /\ passed' = [l \in Lanes |-> 0]
        BY <1>12 DEF Restart
      <2>2. ClockType' BY <2>1 DEF ClockType
      <2>3. ASSUME NEW l \in Lanes PROVE GuardOf(l)'
        <3>1. /\ 0 <= Len(window') /\ ~(0 > WindowSize) /\ 0 < WindowSize + l
              /\ \A i \in 1 .. Len(window') : ~(i > Len(window') - 0)
          BY <2>1
        <3>2. passed'[l] = 0 BY <2>1
        <3> QED BY <3>1, <3>2 DEF GuardOf
      <2>4. Guarded' BY <2>1, <2>3 DEF Guarded
      <2> QED BY <2>2, <2>4
    <1>13. ASSUME UNCHANGED vars PROVE Goal BY <1>0, <1>13, QuietClock DEF vars
    <1> HIDE DEF Goal
    <1>14. Goal
      BY <1>1, <1>2, <1>3, <1>4, <1>5, <1>6, <1>7, <1>8, <1>9, <1>10, <1>11, <1>12, <1>13
      DEF Next
    <1> QED BY <1>14 DEF Goal

LEMMA QueueAlways == Spec => []QueueInv
PROOF
    <1>1. QueueInv /\ [Next]_vars => QueueInv'
      BY ClockStep, MovesStep, SetsStep DEF QueueInv
    <1> QED BY QueueInit, <1>1, PTL DEF Spec

-----------------------------------------------------------------------------
(* The theorems                                                            *)

LEMMA AtMostOne ==
    ASSUME NEW S, \A x, y \in S : x = y
    PROVE  /\ Cardinality(S) \in {0, 1}
           /\ Cardinality(S) = 0 <=> S = {}
PROOF
    <1>1. CASE S = {} BY <1>1, FS_EmptySet
    <1>2. CASE S # {}
      <2>1. PICK x : S = {x} BY <1>2
      <2>2. Cardinality(S) = 1 BY <2>1, FS_Singleton
      <2> QED BY <1>2, <2>2
    <1> QED BY <1>1, <1>2

\* A lane with jobs is passed over fewer times than the window is long plus one
\* for each lane (_starved_lane_locked), whatever the weights and the ceilings.
THEOREM NoLaneIsStarved == Spec => []NoLaneStarves
PROOF
    <1>1. QueueInv => NoLaneStarves BY GuardedNoLaneStarves DEF QueueInv
    <1> QED BY <1>1, QueueAlways, PTL

\* While the scheduler lives, every QUEUED row is in the queue exactly once,
\* and at no time is a job there twice (pop_next, requeue, remove, restore).
THEOREM JobsQueuedOnce == Spec => []EachJobOnce
PROOF
    <1>1. QueueInv => EachJobOnce
      <2> SUFFICES ASSUME QueueInv PROVE EachJobOnce OBVIOUS
      <2>1. ASSUME NEW j \in Jobs
            PROVE  Copies(j) \in {0, 1} /\ (InQueue(j) => Copies(j) = 1)
        <3> DEFINE A == {p \in Places : lanes[p[1]][p[2]] = j}
                   B == {i \in DOMAIN promoting : promoting[i].job = j}
                   C == {h \in held : h.job = j}
        <3>0. /\ \A l \in Lanes : lanes[l] \in Seq(Jobs) /\ DOMAIN lanes[l] = 1 .. Len(lanes[l])
              /\ DOMAIN promoting = 1 .. Len(promoting)
          BY LenProperties DEF QueueInv, Placed, Separate
        <3>1. \A p : p \in Places <=> \E l \in Lanes : \E i \in 1 .. Len(lanes[l]) : p = <<l, i>>
          BY <3>0 DEF Places
        <3>2. \A p, q \in A : p = q
          <4> SUFFICES ASSUME NEW p \in A, NEW q \in A PROVE p = q OBVIOUS
          <4>1. PICK l \in Lanes : \E i \in 1 .. Len(lanes[l]) : p = <<l, i>> BY <3>1
          <4>2. PICK m \in Lanes : \E k \in 1 .. Len(lanes[m]) : q = <<m, k>> BY <3>1
          <4>a. PICK i \in 1 .. Len(lanes[l]) : p = <<l, i>> BY <4>1
          <4>b. PICK k \in 1 .. Len(lanes[m]) : q = <<m, k>> BY <4>2
          <4>3. lanes[l][i] = j /\ lanes[m][k] = j BY <4>a, <4>b
          <4>4. j \in ToSet(lanes[l]) /\ j \in ToSet(lanes[m]) BY <3>0, <4>3, ElementsAt
          <4>5. l = m BY <4>4 DEF QueueInv, Placed, Separate
          <4>6. i = k BY <4>3, <4>5 DEF QueueInv, Placed, Separate, Once
          <4> QED BY <4>a, <4>b, <4>5, <4>6
        <3>3. \A x, y \in B : x = y BY <3>0 DEF QueueInv, Placed, JobsOnce
        <3>4. \A x, y \in C : x = y BY DEF QueueInv, Placed
        <3>5. A # {} <=> \E l \in Lanes : j \in ToSet(lanes[l])
          <4>1. ASSUME NEW p \in A PROVE \E l \in Lanes : j \in ToSet(lanes[l])
            <5>1. PICK l \in Lanes : \E i \in 1 .. Len(lanes[l]) : p = <<l, i>> BY <3>1
            <5>a. PICK i \in 1 .. Len(lanes[l]) : p = <<l, i>> BY <5>1
            <5>2. lanes[l][i] = j BY <5>a
            <5> QED BY <3>0, <5>2, ElementsAt
          <4>2. ASSUME NEW l \in Lanes, j \in ToSet(lanes[l]) PROVE A # {}
            <5>1. PICK i \in 1 .. Len(lanes[l]) : lanes[l][i] = j BY <3>0, <4>2, ElementsAt
            <5>2. <<l, i>> \in A BY <3>1, <5>1
            <5> QED BY <5>2
          <4> QED BY <4>1, <4>2
        <3>6. B # {} <=> j \in GoingOf(promoting) BY <3>0 DEF GoingOf
        <3>7. C # {} <=> \E h \in held : h.job = j OBVIOUS
        <3>8. /\ A # {} => B = {} /\ C = {}
              /\ B # {} => C = {}
          <4>1. A # {} => B = {} BY <3>5, <3>6 DEF QueueInv, Placed
          <4>2. A # {} => C = {} BY <3>5, <3>7 DEF QueueInv, Placed
          <4>3. B # {} => promoting # <<>> BY <3>6, EmptyList
          <4>4. B # {} => C = {} BY <3>7, <4>3 DEF QueueInv, Placed
          <4> QED BY <4>1, <4>2, <4>4
        <3>9. Copies(j) = Cardinality(A) + Cardinality(B) + Cardinality(C) BY DEF Copies
        <3> HIDE DEF A, B, C
        <3>10. /\ Cardinality(A) \in {0, 1} /\ (Cardinality(A) = 0 <=> A = {})
               /\ Cardinality(B) \in {0, 1} /\ (Cardinality(B) = 0 <=> B = {})
               /\ Cardinality(C) \in {0, 1} /\ (Cardinality(C) = 0 <=> C = {})
          BY <3>2, <3>3, <3>4, AtMostOne
        <3>11. Copies(j) \in {0, 1} BY <3>8, <3>9, <3>10
        <3>12. InQueue(j) => A # {} \/ B # {} \/ C # {} BY <3>5, <3>6, <3>7 DEF InQueue
        <3>13. A # {} \/ B # {} \/ C # {} => Copies(j) # 0 BY <3>9, <3>10
        <3> QED BY <3>11, <3>12, <3>13
      <2>2. Queued \subseteq Jobs BY ElementsAt DEF Queued, QueueInv, Placed
      <2>3. sched # "dead" => \A j \in Queued : InQueue(j) BY DEF Queued, QueueInv, Placed
      <2> QED BY <2>1, <2>2, <2>3 DEF EachJobOnce
    <1> QED BY <1>1, QueueAlways, PTL

\* A job is in the lane of its tier, or one above it and marked as promoted
\* (PROMOTION_TARGET, QueuedJob.promoted).
THEOREM PromotedOneTier == Spec => []OneTierUp
PROOF
    <1>1. QueueInv => OneTierUp BY DEF QueueInv, Tiered, RankOK, OneTierUp
    <1> QED BY <1>1, QueueAlways, PTL

\* The lanes, the virtual times and the rows keep their types, and the deque of
\* the last dispatches its maxlen (Lane, JobQueue.__init__).
THEOREM TypeCorrect == Spec => []TypeOK
PROOF
    <1>1. QueueInv => TypeOK
      <2> SUFFICES ASSUME QueueInv PROVE TypeOK OBVIOUS
      <2>1. held \subseteq [job : Jobs, to : Lanes] /\ Cardinality(held) <= 1
        <3>1. CASE held = {} BY <3>1, FS_EmptySet
        <3>2. ASSUME NEW h \in Moves, held = {h}
              PROVE  held \subseteq [job : Jobs, to : Lanes] /\ Cardinality(held) <= 1
          <4>1. Cardinality(held) = 1 BY <3>2, FS_Singleton
          <4> QED BY <3>2, <4>1 DEF Moves
        <3> QED BY <3>1, <3>2 DEF QueueInv, Placed
      <2> QED BY <2>1
          DEF TypeOK, QueueInv, ClockType, Guarded, Placed, Separate, SetsType, Moves
    <1> QED BY <1>1, QueueAlways, PTL

-----------------------------------------------------------------------------
(* Within a lane a job only moves up                                       *)

\* No element of q that was in s is further back than it was there.
Forward(q, s) ==
    \A k \in 1 .. Len(q) : q[k] \in ToSet(s) => \E i \in 1 .. Len(s) : k <= i /\ q[k] = s[i]

LEMMA SameForward ==
    ASSUME NEW S, NEW s \in Seq(S) PROVE Forward(s, s)
PROOF
    <1>1. Len(s) \in Nat BY LenProperties
    <1> QED BY <1>1 DEF Forward

LEMMA KeptForward ==
    ASSUME NEW S, NEW s \in Seq(S), NEW T PROVE Forward(Kept(s, T), s)
  BY KeptHolds DEF Forward, Holds

LEMMA AppendForward ==
    ASSUME NEW S, NEW s \in Seq(S), NEW e \in S, e \notin ToSet(s)
    PROVE  Forward(Append(s, e), s)
PROOF
    <1> DEFINE a == Append(s, e)
    <1>1. /\ Len(a) = Len(s) + 1 /\ Len(s) \in Nat
          /\ \A i \in 1 .. Len(s) : a[i] = s[i]
          /\ a[Len(s) + 1] = e
      BY AppendProperties, LenProperties
    <1> HIDE DEF a
    <1>2. ASSUME NEW k \in 1 .. Len(a), a[k] \in ToSet(s)
          PROVE  \E i \in 1 .. Len(s) : k <= i /\ a[k] = s[i]
      <2>1. k # Len(s) + 1 BY <1>1, <1>2
      <2>2. k \in 1 .. Len(s) /\ k <= k BY <1>1, <2>1
      <2> QED BY <1>1, <2>2
    <1> QED BY <1>2 DEF Forward, a

LEMMA TailForward ==
    ASSUME NEW S, NEW s \in Seq(S), s # <<>> PROVE Forward(Tail(s), s)
PROOF
    <1> DEFINE t == Tail(s)
    <1>1. /\ t \in Seq(S) /\ Len(t) = Len(s) - 1 /\ Len(s) \in Nat
          /\ \A i \in 1 .. Len(t) : t[i] = s[i + 1]
      BY HeadTailProperties, LenProperties
    <1> HIDE DEF t
    <1>2. \A k \in 1 .. Len(t) : k + 1 \in 1 .. Len(s) /\ k <= k + 1 /\ t[k] = s[k + 1] BY <1>1
    <1> QED BY <1>2 DEF Forward, t

\* the places in the lanes, of which Place finds the one that holds a job
PlacesIn(ls) == UNION {{l} \X DOMAIN ls[l] : l \in Lanes}

LEMMA PlaceIs ==
    ASSUME NEW ls, Separate(ls), NEW l \in Lanes, NEW i \in 1 .. Len(ls[l])
    PROVE  (CHOOSE p \in PlacesIn(ls) : ls[p[1]][p[2]] = ls[l][i]) = <<l, i>>
PROOF
    <1> DEFINE j == ls[l][i]
    <1>1. \A m \in Lanes : ls[m] \in Seq(Jobs) /\ DOMAIN ls[m] = 1 .. Len(ls[m])
      BY LenProperties DEF Separate
    <1>2. \A p : p \in PlacesIn(ls) <=> \E m \in Lanes : \E k \in 1 .. Len(ls[m]) : p = <<m, k>>
      BY <1>1 DEF PlacesIn
    <1>3. <<l, i>> \in PlacesIn(ls) BY <1>2
    <1>4. ASSUME NEW p \in PlacesIn(ls), ls[p[1]][p[2]] = j PROVE p = <<l, i>>
      <2>1. PICK m \in Lanes : \E k \in 1 .. Len(ls[m]) : p = <<m, k>> BY <1>2
      <2>2. PICK k \in 1 .. Len(ls[m]) : p = <<m, k>> BY <2>1
      <2>3. ls[m][k] = j BY <1>4, <2>2
      <2>4. j \in Jobs /\ j \in ToSet(ls[l]) /\ j \in ToSet(ls[m])
        BY <1>1, <2>3, ElementsAt, ElementOfSeq
      <2>5. l = m BY <2>4 DEF Separate
      <2>6. i = k BY <2>3, <2>5 DEF Separate, Once
      <2> QED BY <2>2, <2>5, <2>6
    <1>5. ls[<<l, i>>[1]][<<l, i>>[2]] = j OBVIOUS
    <1> HIDE DEF j
    <1> QED BY <1>3, <1>4, <1>5 DEF j

\* What NeverPushedBack says of a step, from what the step does to each lane:
\* if B holds the head of a lane may be put behind others, and nothing else may.
MovesUp(q, s, B) ==
    \A k \in 1 .. Len(q) : q[k] \in ToSet(s) =>
       \/ \E i \in 1 .. Len(s) : k <= i /\ q[k] = s[i]
       \/ B /\ q[k] = s[1]

LEMMA PushedBack ==
    ASSUME Separate(lanes), Separate(lanes'), NEW B,
           \A l \in Lanes : MovesUp(lanes'[l], lanes[l], B),
           NEW j \in InLanes \cap InLanes',
           Place(j)[1] = Place(j)'[1], Place(j)'[2] > Place(j)[2]
    PROVE  B /\ Place(j)[2] = 1
PROOF
    <1>0. /\ \A l \in Lanes : lanes[l] \in Seq(Jobs) /\ Len(lanes[l]) \in Nat
          /\ \A l \in Lanes : lanes'[l] \in Seq(Jobs) /\ Len(lanes'[l]) \in Nat
      BY LenProperties DEF Separate
    <1>1. PICK l \in Lanes : j \in ToSet(lanes[l]) BY InLanesAt
    <1>2. PICK i \in 1 .. Len(lanes[l]) : lanes[l][i] = j BY <1>0, <1>1, ElementsAt
    <1>3. PICK m \in Lanes : j \in ToSet(lanes'[m]) BY DEF InLanes
    <1>4. PICK k \in 1 .. Len(lanes'[m]) : lanes'[m][k] = j BY <1>0, <1>3, ElementsAt
    <1>5. Place(j) = <<l, i>>
      <2>1. Place(j) = CHOOSE p \in PlacesIn(lanes) : lanes[p[1]][p[2]] = j
        BY DEF Place, Places, PlacesIn
      <2> QED BY <1>2, <2>1, PlaceIs
    <1>6. Place(j)' = <<m, k>>
      <2> DEFINE ls == lanes'
      <2>1. Place(j)' = CHOOSE p \in PlacesIn(ls) : ls[p[1]][p[2]] = j
        BY DEF Place, Places, PlacesIn
      <2>2. Separate(ls) /\ k \in 1 .. Len(ls[m]) /\ ls[m][k] = j BY <1>4
      <2> HIDE DEF ls
      <2> QED BY <2>1, <2>2, PlaceIs
    <1>7. l = m /\ k > i BY <1>5, <1>6
    <1>8. \/ \E x \in 1 .. Len(lanes[l]) : k <= x /\ lanes[l][x] = j
          \/ B /\ lanes[l][1] = j
      BY <1>1, <1>4, <1>7 DEF MovesUp
    <1>9. \A x \in 1 .. Len(lanes[l]) : lanes[l][x] = j => x = i
      BY <1>2 DEF Separate, Once
    <1>10. B /\ lanes[l][1] = j BY <1>0, <1>4, <1>7, <1>8, <1>9
    <1>11. i = 1 BY <1>0, <1>2, <1>9, <1>10
    <1> QED BY <1>5, <1>10, <1>11

\* No step but a requeue puts a job behind another one of its lane.
LEMMA StepMovesUp ==
    ASSUME QueueInv, Next, restarts' = restarts, NEW l \in Lanes
    PROVE  MovesUp(lanes'[l], lanes[l], pops' = pops + 1)
PROOF
    <1> DEFINE Goal == MovesUp(lanes'[l], lanes[l], pops' = pops + 1)
    <1> USE Constants
    <1>0. /\ Separate(lanes) /\ lanes \in [Lanes -> Seq(Jobs)]
          /\ \A m \in Lanes : lanes[m] \in Seq(Jobs) /\ Once(lanes[m])
      BY DEF QueueInv, Placed, Separate
    <1>1. ASSUME Forward(lanes'[l], lanes[l]) PROVE Goal BY <1>1 DEF Forward, MovesUp
    <1>2. ASSUME lanes'[l] = lanes[l] PROVE Goal BY <1>0, <1>1, <1>2, SameForward
    <1>3. ASSUME NEW k \in Lanes, NEW j \in Jobs, lanes' = Enqueued(lanes, k, j),
                 \A m \in Lanes : j \notin ToSet(lanes[m])
          PROVE  Goal
      <2>1. lanes'[l] = IF l = k THEN Append(lanes[l], j) ELSE lanes[l]
        BY <1>0, <1>3 DEF Enqueued
      <2> QED BY <1>0, <1>1, <1>2, <1>3, <2>1, AppendForward
    <1>4. ASSUME NonEmpty # {}, lanes' = [lanes EXCEPT ![NextLane] = Tail(@)] PROVE Goal
      <2>1. NextLane \in Lanes /\ lanes[NextLane] # <<>> BY <1>4, Taken
      <2>2. lanes'[l] = IF l = NextLane THEN Tail(lanes[l]) ELSE lanes[l] BY <1>0, <1>4
      <2>3. CASE l = NextLane BY <1>0, <1>1, <2>1, <2>2, <2>3, TailForward
      <2> QED BY <1>2, <2>2, <2>3
    <1>5. ASSUME NEW j \in Jobs, Submit(j) PROVE Goal
      <2>1. /\ Tier[j] \in Lanes /\ lanes' = Enqueued(lanes, Tier[j], j)
            /\ \A m \in Lanes : j \notin ToSet(lanes[m])
        BY <1>5, InLanesAt DEF Submit
      <2> QED BY <1>3, <2>1
    <1>6. ASSUME NEW j \in Jobs, Cancel(j) PROVE Goal
      <2>1. lanes'[l] = Kept(lanes[l], Jobs \ {j}) BY <1>6 DEF Cancel
      <2> QED BY <1>0, <1>1, <2>1, KeptForward
    <1>7. ASSUME NEW j \in Jobs, Expire(j) \/ Done(j) PROVE Goal
      BY <1>2, <1>7 DEF Expire, Done, lane
    <1>8. ASSUME PopDispatch PROVE Goal BY <1>4, <1>8 DEF PopDispatch, Ready, DispatchHead
    <1>9. ASSUME PopRequeue PROVE Goal
      <2> DEFINE n == NextLane
                 h == NextJob
      <2>1. NonEmpty # {} /\ pops' = pops + 1
            /\ lanes' = Enqueued([lanes EXCEPT ![n] = Tail(@)], n, h)
        BY <1>9 DEF PopRequeue, Ready, Pop
      <2>2. n \in Lanes /\ lanes[n] # <<>> /\ h \in Jobs BY <2>1, Taken
      <2>3. CASE l # n
        <3>1. lanes'[l] = lanes[l] BY <1>0, <2>1, <2>2, <2>3 DEF Enqueued
        <3> QED BY <1>2, <3>1
      <2>4. CASE l = n
        <3> DEFINE t == Tail(lanes[l])
        <3>1. lanes'[l] = Append(t, h) BY <1>0, <2>1, <2>2, <2>4 DEF Enqueued
        <3>2. /\ lanes[l] # <<>> /\ t \in Seq(Jobs) /\ Head(lanes[l]) = lanes[l][1]
              /\ ToSet(t) = ToSet(lanes[l]) \ {Head(lanes[l])}
          BY <1>0, <2>2, <2>4, TailOnce
        <3>3. h = lanes[l][1] /\ h \notin ToSet(t) BY <2>4, <3>2 DEF NextJob
        <3>4. Forward(t, lanes[l]) BY <1>0, <3>2, TailForward
        <3> HIDE DEF t, h
        <3>5. /\ Len(lanes'[l]) = Len(t) + 1 /\ Len(t) \in Nat
              /\ \A i \in 1 .. Len(t) : lanes'[l][i] = t[i]
              /\ lanes'[l][Len(t) + 1] = h
          BY <2>2, <3>1, <3>2, AppendProperties, LenProperties
        <3>6. ASSUME NEW k \in 1 .. Len(lanes'[l]), lanes'[l][k] \in ToSet(lanes[l])
              PROVE  \/ \E i \in 1 .. Len(lanes[l]) : k <= i /\ lanes'[l][k] = lanes[l][i]
                     \/ lanes'[l][k] = lanes[l][1]
          <4>1. CASE k = Len(t) + 1 BY <3>3, <3>5, <4>1
          <4>2. CASE k # Len(t) + 1
            <5>1. k \in 1 .. Len(t) /\ lanes'[l][k] = t[k] BY <3>5, <4>2
            <5> QED BY <3>4, <3>6, <5>1 DEF Forward
          <4> QED BY <4>1, <4>2
        <3> QED BY <2>1, <3>6 DEF MovesUp
      <2> QED BY <2>3, <2>4
    <1>10. ASSUME PromoteBegin PROVE Goal
      <2>1. lanes'[l] = Kept(lanes[l], {j \in Jobs : ~Overdue(j, l)}) BY <1>10 DEF PromoteBegin
      <2> QED BY <1>0, <1>1, <2>1, KeptForward
    <1>11. ASSUME Promote \/ PromoteRaises PROVE Goal
      <2> DEFINE p == Head(promoting)
      <2>1. promoting # <<>> /\ lanes' = Enqueued(lanes, p.to, p.job)
        BY <1>11 DEF Promote, PromoteRaises, Promoted
      <2>2. p \in Moves /\ p.job \in GoingOf(promoting) BY <2>1, NextMove DEF QueueInv, Placed
      <2>3. p.job \in Jobs /\ p.to \in Lanes BY <2>2 DEF Moves
      <2>4. \A m \in Lanes : p.job \notin ToSet(lanes[m]) BY <2>2, <2>3 DEF QueueInv, Placed
      <2> HIDE DEF p
      <2> QED BY <1>3, <2>1, <2>3, <2>4
    <1>12. ASSUME PopPromoted PROVE Goal
      <2>1. NonEmpty # {} BY <1>12 DEF PopPromoted, QueueInv, Placed
      <2>2. lanes' = [lanes EXCEPT ![NextLane] = Tail(@)] BY <1>12 DEF PopPromoted, DispatchHead
      <2> QED BY <1>4, <2>1, <2>2
    <1>13. ASSUME Requeue PROVE Goal
      <2>1. PICK h \in Moves : held = {h} /\ \A m \in Lanes : h.job \notin ToSet(lanes[m])
        BY <1>13 DEF Requeue, QueueInv, Placed
      <2>2. h.job \in Jobs /\ h.to \in Lanes /\ lanes' = Enqueued(lanes, h.to, h.job)
        BY <1>13, <2>1 DEF Requeue, Moves
      <2> QED BY <1>3, <2>1, <2>2
    <1>14. ~Restart BY DEF Restart, QueueInv, SetsType
    <1> HIDE DEF Goal
    <1>15. Goal
      BY <1>5, <1>6, <1>7, <1>8, <1>9, <1>10, <1>11, <1>12, <1>13, <1>14 DEF Next
    <1> QED BY <1>15 DEF Goal

\* Within a lane no step puts a job behind another one, but its own requeue
\* (class Lane: one FIFO lane).
THEOREM LanesAreFifo == Spec => NeverPushedBack
PROOF
    <1> DEFINE Fifo == restarts' = restarts =>
                         \A j \in InLanes \cap InLanes' :
                            LET p == Place(j)  q == Place(j)'
                            IN  p[1] = q[1] /\ q[2] > p[2] => pops' = pops + 1 /\ p[2] = 1
    <1>1. QueueInv /\ QueueInv' /\ [Next]_vars => [Fifo]_vars
      <2> SUFFICES ASSUME QueueInv, QueueInv', Next, restarts' = restarts,
                          NEW j \in InLanes \cap InLanes',
                          Place(j)[1] = Place(j)'[1], Place(j)'[2] > Place(j)[2]
                   PROVE  pops' = pops + 1 /\ Place(j)[2] = 1
        OBVIOUS
      <2>1. Separate(lanes) /\ Separate(lanes') BY DEF QueueInv, Placed
      <2>2. \A l \in Lanes : MovesUp(lanes'[l], lanes[l], pops' = pops + 1) BY StepMovesUp
      <2> QED BY <2>1, <2>2, PushedBack
    <1>2. Spec => [][QueueInv /\ QueueInv' /\ [Next]_vars]_vars BY QueueAlways, PTL DEF Spec
    <1>3. Spec => [][Fifo]_vars BY <1>1, <1>2, PTL
    <1> QED BY <1>3 DEF NeverPushedBack
=============================================================================
