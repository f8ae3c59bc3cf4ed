------------------------- MODULE ClientLiveProofs -------------------------
(***************************************************************************)
(* The safety of the parts of the web client that wait for others, for     *)
(* every number of events, workers, tasks, panes, pictures and slots.      *)
(*                                                                         *)
(* The event stream first, in its own specification: the client holds one  *)
(* connection or waits for one retry (OneCall), and a reader that has      *)
(* caught up has heard every event that the replay buffer or its own queue *)
(* did not lose, by an argument about the four places an event passes      *)
(* through, the buffer, the replay, the queue and the wire, across         *)
(* reconnections (Flow).                                                   *)
(*                                                                         *)
(* Then RequestsSafe in every reachable state of MCClientLive.  Each part  *)
(* has an inductive invariant of its own (StreamInv, EditorInv, FanInv and *)
(* ImgInv), about its own variables.  LiveInv joins them: the invariant of *)
(* the part on screen holds, and the others wait.                          *)
(***************************************************************************)
EXTENDS MCClientLive, FilterProofs

-----------------------------------------------------------------------------
(* One connection                                                          *)

\* The client, between two steps of the event loop: one connect() call or
\* one timer, the overlay only with the timer, and a watchdog for a reader.
OneCall ==
    /\ loop \in [Slots -> {"none", "fetching", "reading", "aborted"}]
    /\ \A s, r \in Slots : loop[s] # "none" /\ loop[r] # "none" => s = r
    /\ timer => \A s \in Slots : loop[s] = "none"
    /\ status = "lost" => timer
    /\ \A s \in Slots : loop[s] = "reading" => watchdog /\ status = "open"

\* One call at most makes one chain at most.
LEMMA OneCallOneStream == OneCall => OneStream
PROOF
    <1> SUFFICES ASSUME OneCall PROVE OneStream OBVIOUS
    <1> DEFINE Calls == {s \in Slots : loop[s] # "none"}
    <1>1. CASE Calls = {}
      <2>1. Cardinality(Calls) = 0 BY <1>1, FS_EmptySet
      <2>2. Chains <= 1 BY <2>1 DEF Chains
      <2> QED BY <2>2 DEF OneStream, OneCall
    <1>2. CASE Calls # {}
      <2>1. PICK s \in Slots : loop[s] # "none" BY <1>2
      <2>2. Calls = {s} BY <2>1 DEF OneCall
      <2>3. Cardinality(Calls) = 1 BY <2>2, FS_Singleton
      <2>4. ~timer BY <2>1 DEF OneCall
      <2>5. Chains <= 1 BY <2>3, <2>4 DEF Chains
      <2> QED BY <2>5 DEF OneStream, OneCall
    <1> QED BY <1>1, <1>2

LEMMA OneCallInit == Init => OneCall
  BY DEF Init, OneCall

\* A new call, where there was none.
LEMMA OpenOnce ==
    ASSUME NEW n, NEW Calls, NEW tok, NEW last,
           Calls = [s \in Slots |-> "none"],
           Open(n, Calls, tok, last), timer' = FALSE
    PROVE  OneCall'
PROOF
    <1>1. CASE tok = "none"
      BY <1>1 DEF Open, OneCall
    <1>2. CASE tok # "none"
      <2>1. PICK c \in Slots : /\ loop' = [Calls EXCEPT ![c] = "fetching"]
                               /\ status' = IF n = 0 THEN "connecting" ELSE "reconnecting"
        BY <1>2 DEF Open
      <2>2. loop' = [s \in Slots |-> IF s = c THEN "fetching" ELSE "none"]
        BY <2>1
      <2> QED BY <2>1, <2>2 DEF OneCall
    <1> QED BY <1>1, <1>2

\* The end of the one call, with a retry or without.
LEMMA CallEnds ==
    ASSUME OneCall, NEW s \in Slots, loop[s] # "none",
           loop' = [loop EXCEPT ![s] = "none"],
           \/ timer' /\ status' \in {"lost", "reconnecting"}
           \/ UNCHANGED <<status, timer>>
           \/ UNCHANGED timer /\ status' = "unauthorized"
    PROVE  OneCall'
PROOF
    <1>1. loop' = [r \in Slots |-> "none"]
      <2>1. \A r \in Slots : loop'[r] = "none" BY DEF OneCall
      <2>2. loop' = [r \in Slots |-> loop'[r]] BY DEF OneCall
      <2> QED BY <2>1, <2>2
    <1>2. ~timer BY DEF OneCall
    <1> QED BY <1>1, <1>2 DEF OneCall

LEMMA RetryScheduled ==
    ASSUME ScheduleRetry
    PROVE  \/ timer' /\ status' \in {"lost", "reconnecting"}
           \/ UNCHANGED <<status, timer>>
  BY DEF ScheduleRetry

LEMMA OneCallStep == OneCall /\ [Next]_vars => OneCall'
PROOF
    <1> SUFFICES ASSUME OneCall, [Next]_vars PROVE OneCall'
      OBVIOUS
    <1> DEFINE None == [s \in Slots |-> "none"]
    <1>none. timer \/ status = "lost" => loop = None
      BY DEF OneCall
    <1>1. CASE SignIn
      BY <1>1, OpenOnce DEF SignIn
    <1>2. CASE SignOut
      BY <1>2 DEF SignOut, OneCall
    <1>3. CASE OtherTabSigns
      BY <1>3 DEF OtherTabSigns, OneCall, wireVars
    <1>4. CASE RetryFires
      BY <1>4, <1>none, OpenOnce DEF RetryFires
    <1>5. CASE RetryNow
      <2>1. Abort(loop) = None BY <1>5, <1>none DEF RetryNow, Abort
      <2> QED BY <1>5, <2>1, OpenOnce DEF RetryNow
    <1>6. CASE WatchdogFires
      <2>1. /\ \A s \in Slots : loop'[s] \in {loop[s], "none", "aborted"}
            /\ \A s \in Slots : loop'[s] # "none" => loop[s] # "none"
            /\ loop' = [s \in Slots |-> loop'[s]]
            /\ UNCHANGED <<timer, status, watchdog>>
        BY <1>6 DEF WatchdogFires, Abort, clientVars
      <2> QED BY <2>1 DEF OneCall
    <1>7. ASSUME NEW s \in Slots, FetchFails(s) PROVE OneCall'
      BY <1>7, CallEnds, RetryScheduled DEF FetchFails
    <1>8. ASSUME NEW s \in Slots, Refused(s) PROVE OneCall'
      BY <1>8, CallEnds DEF Refused
    <1>9. ASSUME NEW s \in Slots, Opened(s) PROVE OneCall'
      <2>1. /\ loop[s] = "fetching"
            /\ loop' = [loop EXCEPT ![s] = "reading"]
            /\ watchdog' = TRUE /\ status' = "open" /\ UNCHANGED timer
        BY <1>9 DEF Opened
      <2> QED BY <2>1 DEF OneCall
    <1>10. ASSUME NEW s \in Slots, Read(s) PROVE OneCall'
      BY <1>10 DEF Read, OneCall, serverVars
    <1>11. ASSUME NEW s \in Slots, ReadEnds(s) PROVE OneCall'
      BY <1>11, CallEnds, RetryScheduled DEF ReadEnds, Ended
    <1>12. ASSUME NEW s \in Slots, ConnectionDrops(s) PROVE OneCall'
      BY <1>12, CallEnds, RetryScheduled DEF ConnectionDrops, Ended
    <1>13. ASSUME NEW s \in Slots, Stall(s) PROVE OneCall'
      BY <1>13 DEF Stall, OneCall, clientVars
    <1>14. CASE Hub
      <2>1. UNCHANGED <<loop, timer, status, watchdog>>
        BY <1>14 DEF Hub, Broadcast, RivalConnects, RivalLeaves, Accept, Replay, SendReplayed,
                     SendQueued, Forget, clientVars, wireVars
      <2> QED BY <2>1 DEF OneCall
    <1>15. CASE UNCHANGED vars
      BY <1>15 DEF OneCall, vars, clientVars, wireVars
    <1> QED
      BY <1>1, <1>2, <1>3, <1>4, <1>5, <1>6, <1>7, <1>8, <1>9, <1>10, <1>11, <1>12, <1>13,
         <1>14, <1>15 DEF Next, Client

\* At any time the client holds one connection, or waits for one retry, and a
\* reader has its watchdog: nothing reconnects twice (SSEClient).
THEOREM OneStreamHolds == Spec => []OneStream
PROOF
    <1>1. Init => OneCall BY OneCallInit
    <1>2. OneCall /\ [Next]_vars => OneCall' BY OneCallStep
    <1>3. OneCall => OneStream BY OneCallOneStream
    <1> QED BY <1>1, <1>2, <1>3, PTL DEF Spec

-----------------------------------------------------------------------------
(* Sequences of events                                                     *)

LEMMA AppendSet ==
    ASSUME NEW q \in Seq(Int), NEW e \in Int
    PROVE  /\ Append(q, e) \in Seq(Int) /\ Len(Append(q, e)) = Len(q) + 1
           /\ ToSet(Append(q, e)) = ToSet(q) \cup {e}
PROOF
    <1> DEFINE o == Append(q, e)
    <1>1. /\ o \in Seq(Int) /\ Len(o) = Len(q) + 1 /\ Len(q) \in Nat
          /\ \A i \in 1 .. Len(q) : o[i] = q[i]
          /\ o[Len(q) + 1] = e
      BY AppendProperties
    <1>2. DOMAIN o = 1 .. Len(q) + 1 /\ DOMAIN q = 1 .. Len(q) BY <1>1, LenProperties
    <1> HIDE DEF o
    <1>3. ToSet(o) = ToSet(q) \cup {e} BY <1>1, <1>2 DEF ToSet
    <1> QED BY <1>1, <1>3 DEF o

LEMMA TailSet ==
    ASSUME NEW q \in Seq(Int), q # <<>>
    PROVE  /\ Tail(q) \in Seq(Int) /\ Len(Tail(q)) = Len(q) - 1
           /\ Head(q) \in Int /\ Head(q) \in ToSet(q)
           /\ ToSet(Tail(q)) \subseteq ToSet(q)
           /\ ToSet(q) = {Head(q)} \cup ToSet(Tail(q))
PROOF
    <1> DEFINE o == Tail(q)
    <1>1. /\ o \in Seq(Int) /\ Len(o) = Len(q) - 1 /\ Len(q) \in Nat \ {0}
          /\ \A i \in 1 .. Len(o) : o[i] = q[i + 1]
          /\ Head(q) \in Int /\ Head(q) = q[1]
      BY HeadTailProperties, EmptySeq
    <1>2. DOMAIN o = 1 .. Len(q) - 1 /\ DOMAIN q = 1 .. Len(q) BY <1>1, LenProperties
    <1> HIDE DEF o
    <1>3. \A i \in 1 .. Len(q) - 1 : i + 1 \in 1 .. Len(q) /\ o[i] = q[i + 1] BY <1>1
    <1>4. \A i \in 1 .. Len(q) : i = 1 \/ (i - 1 \in 1 .. Len(q) - 1 /\ o[i - 1] = q[i])
      BY <1>1
    <1>5. ToSet(o) \subseteq ToSet(q) BY <1>2, <1>3 DEF ToSet
    <1>6. Head(q) \in ToSet(q)
      <2>1. 1 \in DOMAIN q BY <1>1, <1>2
      <2> QED BY <2>1, <1>1 DEF ToSet
    <1>7. ToSet(q) \subseteq {Head(q)} \cup ToSet(o)
      <2> SUFFICES ASSUME NEW i \in 1 .. Len(q), q[i] # Head(q) PROVE q[i] \in ToSet(o)
        BY <1>2 DEF ToSet
      <2>1. i - 1 \in DOMAIN o /\ o[i - 1] = q[i] BY <1>1, <1>2, <1>4
      <2> QED BY <2>1 DEF ToSet
    <1> QED BY <1>1, <1>5, <1>6, <1>7 DEF o

LEMMA SubSeqSet ==
    ASSUME NEW q \in Seq(Int), NEW k \in 0 .. Len(q)
    PROVE  /\ SubSeq(q, k + 1, Len(q)) \in Seq(Int)
           /\ Len(SubSeq(q, k + 1, Len(q))) = Len(q) - k
           /\ \A i \in 1 .. Len(q) - k : SubSeq(q, k + 1, Len(q))[i] = q[i + k]
           /\ ToSet(SubSeq(q, k + 1, Len(q))) \subseteq ToSet(q)
           /\ ToSet(q) \subseteq {q[i] : i \in 1 .. k} \cup ToSet(SubSeq(q, k + 1, Len(q)))
PROOF
    <1> DEFINE o == SubSeq(q, k + 1, Len(q))
    <1>1. Len(q) \in Nat /\ DOMAIN q = 1 .. Len(q) /\ \A i \in 1 .. Len(q) : q[i] \in Int
      BY LenProperties, ElementOfSeq
    <1>2. /\ o \in Seq(Int) /\ Len(o) = Len(q) - k
          /\ \A i \in 1 .. Len(q) - k : o[i] = q[k + 1 + i - 1]
      <2>1. k + 1 \in Int /\ Len(q) \in Int /\ \A i \in k + 1 .. Len(q) : q[i] \in Int BY <1>1
      <2>2. /\ o \in Seq(Int) /\ Len(o) = IF k + 1 <= Len(q) THEN Len(q) - (k + 1) + 1 ELSE 0
            /\ \A i \in 1 .. Len(q) - (k + 1) + 1 : o[i] = q[k + 1 + i - 1]
        BY <2>1, SubSeqProperties
      <2>3. Len(q) - (k + 1) + 1 = Len(q) - k /\ k \in Nat /\ k <= Len(q) BY <1>1
      <2>4. \A i \in 1 .. Len(q) - k : o[i] = q[k + 1 + i - 1] BY <2>2, <2>3
      <2> HIDE DEF o
      <2>5. Len(o) = Len(q) - k
        <3>1. CASE k = Len(q) BY <2>2, <2>3, <1>1, <3>1
        <3>2. CASE k < Len(q)
          <4>1. k + 1 <= Len(q) BY <2>3, <3>2, <1>1
          <4> QED BY <2>2, <2>3, <4>1
        <3>3. k = Len(q) \/ k < Len(q)
          <4> DEFINE n == Len(q)
          <4>1. k \in Int /\ n \in Int /\ k <= n BY <2>3, <1>1
          <4> HIDE DEF n
          <4>2. k = n \/ k < n BY <4>1
          <4> QED BY <4>2 DEF n
        <3> QED BY <3>1, <3>2, <3>3
      <2> QED BY <2>2, <2>4, <2>5
    <1>3. DOMAIN o = 1 .. Len(q) - k BY <1>2, LenProperties
    <1> HIDE DEF o
    <1>4. \A i \in 1 .. Len(q) - k : i + k \in 1 .. Len(q) /\ o[i] = q[i + k] BY <1>1, <1>2
    <1>5. \A i \in 1 .. Len(q) : i \in 1 .. k \/ (i - k \in 1 .. Len(q) - k /\ o[i - k] = q[i])
      BY <1>1, <1>4
    <1>6. ToSet(o) \subseteq ToSet(q) BY <1>1, <1>3, <1>4 DEF ToSet
    <1>7. ToSet(q) \subseteq {q[i] : i \in 1 .. k} \cup ToSet(o)
      BY <1>1, <1>3, <1>5 DEF ToSet
    <1> QED BY <1>2, <1>4, <1>6, <1>7 DEF o

LEMMA RemoveAtSet ==
    ASSUME NEW q \in Seq(Int), NEW i \in 1 .. Len(q)
    PROVE  /\ RemoveAt(q, i) \in Seq(Int)
           /\ ToSet(RemoveAt(q, i)) \subseteq ToSet(q)
PROOF
    <1> DEFINE a == SubSeq(q, 1, i - 1)
               b == SubSeq(q, i + 1, Len(q))
    <1>1. Len(q) \in Nat /\ DOMAIN q = 1 .. Len(q) /\ \A j \in 1 .. Len(q) : q[j] \in Int
      BY LenProperties, ElementOfSeq
    <1>2. /\ a \in Seq(Int) /\ Len(a) = i - 1
          /\ \A j \in 1 .. i - 1 : a[j] = q[1 + j - 1]
      BY <1>1, SubSeqProperties
    <1>3. b \in Seq(Int) /\ ToSet(b) \subseteq ToSet(q) /\ Len(b) = Len(q) - i
      <2>1. i \in 0 .. Len(q) BY <1>1
      <2> QED BY <2>1, SubSeqSet
    <1>4. RemoveAt(q, i) = a \o b BY DEF RemoveAt
    <1> HIDE DEF a, b
    <1>5. /\ a \o b \in Seq(Int) /\ Len(a \o b) = Len(a) + Len(b)
          /\ \A j \in 1 .. Len(a) + Len(b) : (a \o b)[j] = IF j <= Len(a) THEN a[j] ELSE b[j - Len(a)]
      BY <1>2, <1>3, ConcatProperties
    <1>6. DOMAIN (a \o b) = 1 .. Len(a) + Len(b) /\ DOMAIN b = 1 .. Len(b)
      BY <1>3, <1>5, LenProperties
    <1>7. ASSUME NEW j \in 1 .. Len(a) + Len(b) PROVE (a \o b)[j] \in ToSet(q)
      <2>1. CASE j <= i - 1
        <3>1. (a \o b)[j] = q[j] /\ j \in 1 .. Len(q) BY <1>1, <1>2, <1>5, <2>1
        <3> QED BY <3>1, <1>1 DEF ToSet
      <2>2. CASE ~(j <= i - 1)
        <3>0. /\ Len(a) = i - 1 /\ Len(a) \in Nat /\ Len(b) \in Nat
              /\ \A r \in 1 .. Len(a) + Len(b) :
                    (a \o b)[r] = IF r <= Len(a) THEN a[r] ELSE b[r - Len(a)]
          BY <1>2, <1>3, <1>5, LenProperties
        <3>1. (a \o b)[j] = b[j - Len(a)] /\ j - Len(a) \in 1 .. Len(b)
          <4>1. ~(j <= Len(a)) /\ j \in 1 .. Len(a) + Len(b) BY <2>2, <3>0
          <4> QED BY ONLY <3>0, <4>1
        <3>2. b[j - Len(a)] \in ToSet(b) BY <3>1, <1>6 DEF ToSet
        <3> QED BY <3>1, <3>2, <1>3
      <2> QED BY <2>1, <2>2
    <1>8. ToSet(a \o b) \subseteq ToSet(q) BY <1>6, <1>7 DEF ToSet
    <1> QED BY <1>4, <1>5, <1>8

LEMMA RemoveFirstSet ==
    ASSUME NEW q \in Seq(Int), NEW e
    PROVE  /\ RemoveFirst(q, e) \in Seq(Int)
           /\ ToSet(RemoveFirst(q, e)) \subseteq ToSet(q)
PROOF
    <1> DEFINE I == {i \in 1 .. Len(q) : q[i] = e}
    <1>1. CASE I = {}
      <2>1. RemoveFirst(q, e) = q BY <1>1 DEF RemoveFirst
      <2> QED BY <2>1
    <1>2. CASE I # {}
      <2>1. PICK x \in I : \A y \in I : x <= y
        <3>1. I \in SUBSET Nat BY LenProperties
        <3> HIDE DEF I
        <3> QED BY <3>1, <1>2, LeastNumber
      <2>2. SelectInSeq(q, LAMBDA v : v = e) \in I
        BY <2>1 DEF SelectInSeq, Min
      <2>3. RemoveFirst(q, e) = RemoveAt(q, SelectInSeq(q, LAMBDA v : v = e))
        BY <1>2 DEF RemoveFirst
      <2> QED BY <2>2, <2>3, RemoveAtSet
    <1> QED BY <1>1, <1>2

\* Nothing is behind in q: whoever has K and reads q never has an event
\* before the ones broadcast earlier.
Ahead(q, K) == \A p \in DOMAIN q : \A i \in 1 .. q[p] : i \in K \/ \E r \in 1 .. p : q[r] = i

LEMMA AheadEmpty == ASSUME NEW K PROVE Ahead(<<>>, K)
  BY DEF Ahead

LEMMA AheadGrows ==
    ASSUME NEW q, NEW K, NEW L, Ahead(q, K), K \subseteq L
    PROVE  Ahead(q, L)
  BY DEF Ahead

\* Only numbers from 1 count.
LEMMA AheadShift ==
    ASSUME NEW q \in Seq(Int), NEW K, Ahead(q, K), NEW L,
           \A i \in K : i \in Nat \ {0} => i \in L
    PROVE  Ahead(q, L)
PROOF
    <1>1. \A p \in DOMAIN q : q[p] \in Int BY LenProperties, ElementOfSeq
    <1>2. \A p \in DOMAIN q : \A i \in 1 .. q[p] : i \in Nat \ {0} BY <1>1
    <1> QED BY <1>2 DEF Ahead

\* the event that is read next
LEMMA AheadHead ==
    ASSUME NEW q \in Seq(Int), q # <<>>, NEW K, Ahead(q, K)
    PROVE  1 .. Head(q) \subseteq K \cup {Head(q)}
PROOF
    <1>1. Head(q) = q[1] /\ 1 \in DOMAIN q /\ Head(q) \in Int
      BY HeadTailProperties, EmptySeq, LenProperties
    <1>2. \A i \in 1 .. q[1] : i \in K \/ \E r \in 1 .. 1 : q[r] = i BY <1>1 DEF Ahead
    <1> QED BY <1>1, <1>2

\* what remains, once the next event has been read
LEMMA AheadTail ==
    ASSUME NEW q \in Seq(Int), q # <<>>, NEW K, Ahead(q, K),
           NEW L, K \subseteq L, Head(q) > 0 => Head(q) \in L
    PROVE  Ahead(Tail(q), L)
PROOF
    <1> DEFINE o == Tail(q)
    <1>1. /\ o \in Seq(Int) /\ Len(o) = Len(q) - 1 /\ Len(q) \in Nat \ {0}
          /\ \A i \in 1 .. Len(o) : o[i] = q[i + 1]
          /\ Head(q) \in Int /\ Head(q) = q[1]
      BY HeadTailProperties, EmptySeq
    <1>2. DOMAIN o = 1 .. Len(q) - 1 /\ DOMAIN q = 1 .. Len(q) BY <1>1, LenProperties
    <1> HIDE DEF o
    <1>3. ASSUME NEW p \in DOMAIN o, NEW i \in 1 .. o[p], i \notin L
          PROVE  \E r \in 1 .. p : o[r] = i
      <2>a. p \in 1 .. Len(q) - 1 /\ Len(q) \in Nat /\ Len(o) = Len(q) - 1 BY <1>1, <1>2
      <2>0. p \in Nat /\ p \in 1 .. Len(o) /\ p + 1 \in 1 .. Len(q) BY ONLY <2>a
      <2>1. p + 1 \in DOMAIN q /\ q[p + 1] = o[p] /\ p \in Nat BY ONLY <1>1, <1>2, <2>0
      <2>2. PICK r \in 1 .. p + 1 : q[r] = i
        <3>1. \A j \in 1 .. q[p + 1] : j \in K \/ \E r \in 1 .. p + 1 : q[r] = j
          BY <2>1 DEF Ahead
        <3>2. i \in 1 .. q[p + 1] /\ i \notin K BY <2>1, <1>3
        <3> QED BY <3>1, <3>2
      <2>3. r # 1
        <3> SUFFICES ASSUME r = 1 PROVE FALSE OBVIOUS
        <3>1. i = Head(q) /\ i > 0 BY <1>1, <2>1, <2>2
        <3> QED BY <3>1, <1>3
      <2>4. r - 1 \in 1 .. p /\ r - 1 \in 1 .. Len(o) /\ (r - 1) + 1 = r
        <3>1. r \in 1 .. p + 1 BY <2>2
        <3> QED BY ONLY <2>a, <2>3, <3>1
      <2>5. o[r - 1] = i BY <1>1, <2>2, <2>4
      <2> QED BY <2>4, <2>5
    <1>4. Ahead(o, L) BY <1>3 DEF Ahead
    <1> QED BY <1>4 DEF o

\* an event that comes last
LEMMA AheadAppend ==
    ASSUME NEW q \in Seq(Int), NEW e \in Int, NEW K, Ahead(q, K),
           1 .. e \subseteq K \cup ToSet(q) \cup {e}
    PROVE  Ahead(Append(q, e), K)
PROOF
    <1> DEFINE o == Append(q, e)
    <1>1. /\ o \in Seq(Int) /\ Len(o) = Len(q) + 1 /\ Len(q) \in Nat
          /\ \A i \in 1 .. Len(q) : o[i] = q[i]
          /\ o[Len(q) + 1] = e
      BY AppendProperties
    <1>2. DOMAIN o = 1 .. Len(q) + 1 /\ DOMAIN q = 1 .. Len(q) BY <1>1, LenProperties
    <1> HIDE DEF o
    <1>3. ASSUME NEW p \in DOMAIN o, NEW i \in 1 .. o[p], i \notin K
          PROVE  \E r \in 1 .. p : o[r] = i
      <2>1. CASE p \in 1 .. Len(q)
        <3>1. o[p] = q[p] /\ p \in DOMAIN q BY <1>1, <1>2, <2>1
        <3>2. PICK r \in 1 .. p : q[r] = i BY <3>1, <1>3 DEF Ahead
        <3>3. r \in 1 .. Len(q) /\ r \in 1 .. p BY <1>1, <2>1
        <3>4. o[r] = i BY <1>1, <3>2, <3>3
        <3> QED BY <3>3, <3>4
      <2>2. CASE p = Len(q) + 1
        <3>1. i \in ToSet(q) \/ i = e BY <1>1, <1>3, <2>2
        <3>2. CASE i = e
          <4>1. p \in 1 .. p /\ o[p] = i BY <1>1, <2>2, <3>2
          <4> QED BY <4>1
        <3>3. CASE i \in ToSet(q)
          <4>1. PICK r \in 1 .. Len(q) : q[r] = i BY <3>3, <1>2 DEF ToSet
          <4>2. r \in 1 .. p /\ o[r] = i BY <1>1, <2>2, <4>1
          <4> QED BY <4>2
        <3> QED BY <3>1, <3>2, <3>3
      <2>3. p \in 1 .. Len(q) \/ p = Len(q) + 1 BY <1>1, <1>2
      <2> QED BY <2>1, <2>2, <2>3
    <1>4. Ahead(o, K) BY <1>3 DEF Ahead
    <1> QED BY <1>4 DEF o

\* The order of the buffer: a strictly increasing sequence.
Increasing(q) == \A i, j \in DOMAIN q : i < j => q[i] < q[j]

\* What the buffer holds above a Last-Event-ID of l, in its order.
LEMMA ReplayedEvents ==
    ASSUME NEW q \in Seq(Int), Increasing(q), NEW l \in Nat, NEW n \in Nat
    PROVE  /\ Kept(q, l + 1 .. n) \in Seq(Int)
           /\ ToSet(Kept(q, l + 1 .. n)) = ToSet(q) \cap (l + 1 .. n)
           /\ Increasing(Kept(q, l + 1 .. n))
PROOF
    <1> DEFINE T == l + 1 .. n
               o == Kept(q, T)
    <1> HIDE DEF T
    <1>1. o \in Seq(Int) /\ Holds(o, q, T, Len(q)) BY KeptHolds
    <1> HIDE DEF o
    <1>2. DOMAIN o = 1 .. Len(o) /\ DOMAIN q = 1 .. Len(q) BY <1>1, LenProperties
    <1>a. /\ \A p \in 1 .. Len(o) : \E i \in 1 .. Len(q) : o[p] = q[i] /\ q[i] \in T
          /\ \A i \in 1 .. Len(q) : q[i] \in T => \E p \in 1 .. Len(o) : o[p] = q[i]
          /\ \A p, r \in 1 .. Len(o) : p < r =>
                \E i, j \in 1 .. Len(q) : i < j /\ o[p] = q[i] /\ o[r] = q[j]
      BY <1>1, Zenon DEF Holds
    <1>3. ToSet(o) = ToSet(q) \cap T
      <2>1. /\ ToSet(o) = {o[p] : p \in 1 .. Len(o)}
            /\ ToSet(q) = {q[i] : i \in 1 .. Len(q)}
        BY <1>2 DEF ToSet
      <2>2. ASSUME NEW p \in 1 .. Len(o) PROVE o[p] \in ToSet(q) \cap T
        <3>1. PICK i \in 1 .. Len(q) : o[p] = q[i] /\ q[i] \in T BY <1>a
        <3> QED BY <3>1, <2>1
      <2>3. ASSUME NEW i \in 1 .. Len(q), q[i] \in T PROVE q[i] \in ToSet(o)
        <3>1. PICK p \in 1 .. Len(o) : o[p] = q[i] BY <1>a, <2>3
        <3> QED BY <3>1, <2>1
      <2>4. ToSet(o) \subseteq ToSet(q) \cap T BY <2>1, <2>2
      <2>5. ToSet(q) \cap T \subseteq ToSet(o) BY <2>1, <2>3
      <2> QED BY <2>4, <2>5
    <1>4. Increasing(o)
      <2> SUFFICES ASSUME NEW p \in DOMAIN o, NEW r \in DOMAIN o, p < r
                   PROVE  o[p] < o[r]
        BY DEF Increasing
      <2>1. PICK i \in 1 .. Len(q), j \in 1 .. Len(q) : i < j /\ o[p] = q[i] /\ o[r] = q[j]
        BY <1>a, <1>2
      <2> QED BY <2>1, <1>2 DEF Increasing
    <1> QED BY <1>1, <1>3, <1>4 DEF o, T

\* An increasing sequence with no gap that K does not fill is ahead of K.
LEMMA AheadIncreasing ==
    ASSUME NEW q \in Seq(Int), Increasing(q), NEW K, NEW n \in Int,
           1 .. n \subseteq K \cup ToSet(q), ToSet(q) \subseteq 1 .. n
    PROVE  Ahead(q, K)
PROOF
    <1>1. DOMAIN q = 1 .. Len(q) /\ Len(q) \in Nat /\ \A p \in DOMAIN q : q[p] \in Int
      BY LenProperties, ElementOfSeq
    <1> SUFFICES ASSUME NEW p \in DOMAIN q, NEW i \in 1 .. q[p], i \notin K
                 PROVE  \E r \in 1 .. p : q[r] = i
      BY DEF Ahead
    <1>2. q[p] \in 1 .. n BY DEF ToSet
    <1>3. i \in ToSet(q) BY <1>2, <1>1
    <1>4. PICK r \in DOMAIN q : q[r] = i BY <1>3 DEF ToSet
    <1>5. ~(p < r) BY <1>4, <1>1 DEF Increasing
    <1>6. r \in 1 .. p BY <1>1, <1>4, <1>5
    <1> QED BY <1>4, <1>6

-----------------------------------------------------------------------------
(* What the client has heard                                               *)

LEMMA Numbers ==
    /\ Slots \subseteq Nat /\ 0 \notin Slots
    /\ MaxEvents \in Nat /\ QueueMax \in Nat /\ WireMax \in Nat /\ MaxFaults \in Nat
    /\ MaxPerUser \in Nat \ {0} /\ LostAfter \in Nat \ {0}
  BY StreamAssumption

\* the events the client has heard, or that nobody will hand it any more
Settled == heard \cup overrun \cup expired

Connected(s) == loop[s] \in {"fetching", "reading"}

FlowType ==
    /\ seq \in Nat /\ lastId \in 0 .. seq
    /\ gen \in [Slots -> {"none", "hello", "live", "ended"}]
    /\ sent \in [Slots -> [token : {"none", "good", "bad"}, last : Nat]]
    /\ buffer \in Seq(Int) /\ ToSet(buffer) \subseteq 1 .. seq
    /\ bucket \in Seq(Int)
    /\ wire \in [Slots -> Seq(Int)] /\ replay \in [Slots -> Seq(Int)]
    /\ queue \in [Slots -> Seq(Int)]
    /\ \A s \in Slots : /\ ToSet(wire[s]) \subseteq 0 .. seq
                        /\ ToSet(replay[s]) \subseteq 1 .. seq
                        /\ ToSet(queue[s]) \subseteq -1 .. seq

\* The buffer holds the last events in their order, and up to the event it
\* remembers the client has missed none that it could still be told of.
Covered ==
    /\ Increasing(buffer)
    /\ 1 .. seq \subseteq expired \cup ToSet(buffer)
    /\ 1 .. lastId \subseteq Settled

\* What is on its way to a client that listens: before the replay, nothing,
\* and the request names the last event heard; from then on the wire, the
\* replay and the queue in this order leave nothing out, and while the hub
\* has the connection in its bucket they reach the newest event.
SlotFlow(s) == Connected(s) =>
    /\ Ahead(wire[s], Settled)
    /\ gen[s] \in {"none", "hello"} => wire[s] = <<>> /\ sent[s].last = lastId
    /\ gen[s] = "live" =>
         /\ Ahead(replay[s], Settled \cup ToSet(wire[s]))
         /\ Ahead(queue[s], Settled \cup ToSet(wire[s]) \cup ToSet(replay[s]))
         /\ s \in ToSet(bucket) =>
              1 .. seq \subseteq Settled \cup ToSet(wire[s]) \cup ToSet(replay[s]) \cup ToSet(queue[s])

Flow == FlowType /\ Covered /\ \A s \in Slots : SlotFlow(s)

StreamInv == OneCall /\ TypeOK /\ Flow

\* The invariant says what CaughtUpHasAll does where nothing is on its way.
LEMMA FlowCaughtUp == Flow => CaughtUpHasAll
PROOF
    <1>1. ToSet(<<>>) = {} BY DEF ToSet
    <1> QED BY <1>1 DEF Flow, SlotFlow, CaughtUpHasAll, Connected, Settled

LEMMA FlowInit == Init => Flow
PROOF
    <1> SUFFICES ASSUME Init PROVE Flow OBVIOUS
    <1>1. ToSet(<<>>) = {} /\ <<>> \in Seq(Int) BY EmptySeq DEF ToSet
    <1>2. FlowType BY <1>1 DEF FlowType, Init, NoRequest
    <1>3. Covered BY <1>1 DEF Covered, Init, Increasing
    <1>4. \A s \in Slots : SlotFlow(s) BY DEF SlotFlow, Connected, Init
    <1> QED BY <1>2, <1>3, <1>4 DEF Flow

-----------------------------------------------------------------------------
(* The operations of the hub on a queue                                    *)

LEMMA FarewellAppends ==
    ASSUME NEW q \in Seq(Int)
    PROVE  /\ Farewell(q) \in Seq(Int)
           /\ ToSet(q) \subseteq ToSet(Farewell(q))
           /\ ToSet(Farewell(q)) \subseteq ToSet(q) \cup {Warning, Terminate}
           /\ Len(q) <= QueueMax => Len(Farewell(q)) <= QueueMax
           /\ \A K : Ahead(q, K) => Ahead(Farewell(q), K)
PROOF
    <1> DEFINE w == IF Len(q) < QueueMax THEN Append(q, Warning) ELSE q
               o == IF Len(w) < QueueMax THEN Append(w, Terminate) ELSE w
    <1>0. Len(q) \in Nat /\ QueueMax \in Nat /\ Warning = 0 /\ Terminate = -1
      BY LenProperties, Numbers DEF Warning, Terminate
    <1>1. /\ w \in Seq(Int) /\ ToSet(q) \subseteq ToSet(w)
          /\ ToSet(w) \subseteq ToSet(q) \cup {Warning}
          /\ Len(q) <= QueueMax => Len(w) <= QueueMax
      BY <1>0, AppendSet
    <1>2. ASSUME NEW K, Ahead(q, K) PROVE Ahead(w, K)
      BY <1>0, <1>2, AheadAppend
    <1> HIDE DEF w
    <1>3. Len(w) \in Nat BY <1>1, LenProperties
    <1>4. /\ o \in Seq(Int) /\ ToSet(w) \subseteq ToSet(o)
          /\ ToSet(o) \subseteq ToSet(w) \cup {Terminate}
          /\ Len(w) <= QueueMax => Len(o) <= QueueMax
      BY <1>0, <1>1, <1>3, AppendSet
    <1>5. ASSUME NEW K, Ahead(w, K) PROVE Ahead(o, K)
      BY <1>0, <1>1, <1>5, AheadAppend
    <1>6. Farewell(q) = o BY DEF Farewell, w
    <1> HIDE DEF o
    <1> QED BY <1>1, <1>2, <1>4, <1>5, <1>6

\* What registering a connection leaves of the bucket and the queues.
LEMMA Registered ==
    ASSUME FlowType, NEW c \in Slots \cup {0}, Register(c)
    PROVE  /\ bucket' \in Seq(Int) /\ ToSet(bucket') \subseteq ToSet(bucket) \cup {c}
           /\ queue' \in [Slots -> Seq(Int)]
           /\ c \in Slots => queue'[c] = <<>>
           /\ \A s \in Slots \ {c} : queue'[s] \in {queue[s], Farewell(queue[s])}
PROOF
    <1> DEFINE b == Append(bucket, c)
    <1>1. c \in Int BY Numbers
    <1>2. b \in Seq(Int) /\ ToSet(b) = ToSet(bucket) \cup {c} BY <1>1, AppendSet DEF FlowType
    <1>3. /\ bucket' \in {b, SubSeq(b, Len(b) - MaxPerUser + 1, Len(b))}
          /\ bucket' # b => Len(b) > MaxPerUser
      BY DEF Register
    <1>4. /\ c \in Slots => queue'[c] = <<>>
          /\ \A s \in Slots \ {c} : queue'[s] \in {queue[s], Farewell(queue[s])}
          /\ queue' = [s \in Slots |-> queue'[s]]
      BY DEF Register
    <1>5. ASSUME NEW s \in Slots PROVE queue'[s] \in Seq(Int)
      <2>1. queue[s] \in Seq(Int) BY DEF FlowType
      <2>2. Farewell(queue[s]) \in Seq(Int) BY <2>1, FarewellAppends
      <2>3. CASE s = c BY <1>4, <2>3, EmptySeq
      <2>4. CASE s # c BY <1>4, <2>1, <2>2, <2>4
      <2> QED BY <2>3, <2>4
    <1>6. queue' \in [Slots -> Seq(Int)] BY <1>4, <1>5
    <1> HIDE DEF b
    <1>7. bucket' \in Seq(Int) /\ ToSet(bucket') \subseteq ToSet(b)
      <2>1. CASE bucket' = b BY <1>2, <2>1
      <2>2. CASE bucket' # b
        <3> DEFINE k == Len(b) - MaxPerUser
        <3>1. k \in 0 .. Len(b) BY <1>2, <1>3, <2>2, LenProperties, Numbers
        <3>2. bucket' = SubSeq(b, k + 1, Len(b)) BY <1>3, <2>2
        <3> HIDE DEF k
        <3> QED BY <1>2, <3>1, <3>2, SubSeqSet
      <2> QED BY <2>1, <2>2
    <1> QED BY <1>2, <1>4, <1>6, <1>7

-----------------------------------------------------------------------------
(* Every step keeps the flow                                               *)

\* A connection that a step leaves alone, but that the hub may have bidden
\* farewell.
LEMMA SlotAside ==
    ASSUME FlowType, NEW s \in Slots, SlotFlow(s),
           Connected(s)' => Connected(s),
           wire'[s] = wire[s], replay'[s] = replay[s], gen'[s] = gen[s], sent'[s] = sent[s],
           lastId' = lastId, seq' = seq, Settled \subseteq Settled',
           queue'[s] \in {queue[s], Farewell(queue[s])},
           s \in ToSet(bucket') => s \in ToSet(bucket)
    PROVE  SlotFlow(s)'
PROOF
    <1> SUFFICES ASSUME Connected(s)' PROVE SlotFlow(s)' BY DEF SlotFlow
    <1> DEFINE W == ToSet(wire[s])  R == ToSet(replay[s])  Q == ToSet(queue[s])
    <1>0. queue[s] \in Seq(Int) BY DEF FlowType
    <1>1. Ahead(wire[s], Settled') BY AheadGrows DEF SlotFlow
    <1>2. gen[s] \in {"none", "hello"} => wire[s] = <<>> /\ sent[s].last = lastId
      BY DEF SlotFlow
    <1>3. ASSUME gen[s] = "live"
          PROVE  /\ Ahead(replay[s], Settled' \cup W)
                 /\ Ahead(queue'[s], Settled' \cup W \cup R)
                 /\ s \in ToSet(bucket') => 1 .. seq \subseteq Settled' \cup W \cup R \cup ToSet(queue'[s])
      <2>1. Ahead(replay[s], Settled' \cup W)
        <3>1. Ahead(replay[s], Settled \cup W) BY <1>3 DEF SlotFlow
        <3> QED BY <3>1, AheadGrows
      <2>2. Ahead(queue[s], Settled' \cup W \cup R)
        <3>1. Ahead(queue[s], Settled \cup W \cup R) BY <1>3 DEF SlotFlow
        <3> QED BY <3>1, AheadGrows
      <2>3. Ahead(queue'[s], Settled' \cup W \cup R) /\ Q \subseteq ToSet(queue'[s])
        BY <1>0, <2>2, FarewellAppends
      <2>4. s \in ToSet(bucket') => 1 .. seq \subseteq Settled \cup W \cup R \cup Q
        BY <1>3 DEF SlotFlow
      <2> QED BY <2>1, <2>3, <2>4
    <1> QED BY <1>1, <1>2, <1>3 DEF SlotFlow

\* A step that moves no event and connects nobody.
LEMMA FlowQuiet ==
    ASSUME Flow, UNCHANGED <<seq, buffer, bucket, gen, replay, queue, overrun, expired>>,
           UNCHANGED <<sent, wire, lastId, heard>>,
           \A s \in Slots : Connected(s)' => Connected(s)
    PROVE  Flow'
PROOF
    <1>1. FlowType' BY DEF Flow, FlowType
    <1>2. Covered' BY DEF Flow, Covered, Settled
    <1>3. Settled' = Settled BY DEF Settled
    <1>4. \A s \in Slots : SlotFlow(s)' BY <1>3, SlotAside DEF Flow
    <1> QED BY <1>1, <1>2, <1>4 DEF Flow

\* A new connection, where there was none: its request names the last event
\* the client has heard.
LEMMA FlowOpen ==
    ASSUME Flow, UNCHANGED serverVars,
           NEW n, NEW tok \in {"none", "good", "bad"},
           lastId' \in 0 .. seq, 1 .. lastId' \subseteq Settled',
           Open(n, [s \in Slots |-> "none"], tok, lastId')
    PROVE  Flow'
PROOF
    <1> UNCHANGED <<seq, buffer, bucket, gen, replay, queue, overrun, expired>>
      BY DEF serverVars
    <1>1. CASE tok = "none"
      <2>1. UNCHANGED <<sent, wire>> /\ \A s \in Slots : ~Connected(s)'
        BY <1>1 DEF Open, Connected
      <2>2. FlowType' BY <2>1 DEF Flow, FlowType
      <2>3. Covered' BY DEF Flow, Covered
      <2>4. \A s \in Slots : SlotFlow(s)' BY <2>1 DEF SlotFlow
      <2> QED BY <2>2, <2>3, <2>4 DEF Flow
    <1>2. CASE tok # "none"
      <2>1. PICK c \in Slots :
              /\ gen[c] = "none"
              /\ loop' = [[s \in Slots |-> "none"] EXCEPT ![c] = "fetching"]
              /\ sent' = [sent EXCEPT ![c] = [token |-> tok, last |-> lastId']]
              /\ wire' = [wire EXCEPT ![c] = <<>>]
        BY <1>2 DEF Open, Free
      <2>2. \A s \in Slots : s # c => ~Connected(s)'
        BY <2>1 DEF Connected
      <2>3. ToSet(<<>>) = {} /\ <<>> \in Seq(Int) BY EmptySeq DEF ToSet
      <2>4. FlowType'
        <3>1. wire' \in [Slots -> Seq(Int)] /\ \A s \in Slots : ToSet(wire'[s]) \subseteq 0 .. seq
          BY <2>1, <2>3 DEF Flow, FlowType
        <3>2. sent' \in [Slots -> [token : {"none", "good", "bad"}, last : Nat]]
          BY <2>1 DEF Flow, FlowType
        <3> QED BY <3>1, <3>2 DEF Flow, FlowType
      <2>5. Covered' BY DEF Flow, Covered
      <2>6. SlotFlow(c)'
        <3>1. wire'[c] = <<>> /\ sent'[c].last = lastId' /\ gen'[c] = "none"
          BY <2>1 DEF Flow, FlowType
        <3> QED BY <3>1, AheadEmpty DEF SlotFlow
      <2>7. \A s \in Slots : SlotFlow(s)' BY <2>2, <2>6 DEF SlotFlow
      <2> QED BY <2>4, <2>5, <2>7 DEF Flow
    <1> QED BY <1>1, <1>2

\* Reading the next event: it becomes the last one heard.  Nobody else is
\* connected.
LEMMA FlowRead ==
    ASSUME OneCall, Flow, NEW s \in Slots, Read(s)
    PROVE  Flow'
PROOF
    <1> DEFINE id == Head(wire[s])
    <1>1. /\ loop[s] = "reading" /\ wire[s] # <<>>
          /\ wire' = [wire EXCEPT ![s] = Tail(wire[s])]
          /\ lastId' = IF id > 0 THEN id ELSE lastId
          /\ heard' = IF id > 0 THEN heard \cup {id} ELSE heard
          /\ UNCHANGED <<loop, sent, overrun, expired>>
          /\ UNCHANGED <<seq, buffer, bucket, gen, replay, queue>>
      BY DEF Read, serverVars
    <1>2. /\ wire[s] \in Seq(Int) /\ ToSet(wire[s]) \subseteq 0 .. seq
          /\ Ahead(wire[s], Settled) /\ seq \in Nat
          /\ wire \in [Slots -> Seq(Int)]
      BY <1>1 DEF Flow, FlowType, SlotFlow, Connected
    <1>3. /\ id \in 0 .. seq /\ Tail(wire[s]) \in Seq(Int)
          /\ ToSet(wire[s]) = {id} \cup ToSet(Tail(wire[s]))
      BY <1>1, <1>2, TailSet
    <1>4. 1 .. id \subseteq Settled \cup {id}
      BY <1>1, <1>2, AheadHead
    <1> HIDE DEF id
    <1>5. Settled \subseteq Settled' /\ (id > 0 => id \in Settled')
      BY <1>1 DEF Settled
    <1>6. Covered'
      <2>1. 1 .. lastId' \subseteq Settled'
        BY <1>1, <1>4, <1>5 DEF Flow, Covered
      <2> QED BY <1>1, <2>1 DEF Flow, Covered
    <1>7. FlowType'
      <2>1. wire' \in [Slots -> Seq(Int)] /\ \A r \in Slots : ToSet(wire'[r]) \subseteq 0 .. seq
        BY <1>1, <1>2, <1>3 DEF Flow, FlowType
      <2>2. lastId' \in 0 .. seq BY <1>1, <1>3 DEF Flow, FlowType
      <2> QED BY <1>1, <2>1, <2>2 DEF Flow, FlowType
    <1>8. SlotFlow(s)'
      <2>1. wire'[s] = Tail(wire[s]) /\ ToSet(wire[s]) \subseteq {id} \cup ToSet(wire'[s])
        BY <1>1, <1>2, <1>3
      <2>2. Ahead(wire'[s], Settled') BY <1>1, <1>2, <1>5, <2>1, AheadTail DEF id
      <2>3. gen[s] \notin {"none", "hello"} BY <1>1 DEF Flow, SlotFlow, Connected
      <2>4. ASSUME gen[s] = "live"
            PROVE  /\ Ahead(replay[s], Settled' \cup ToSet(wire'[s]))
                   /\ Ahead(queue[s], Settled' \cup ToSet(wire'[s]) \cup ToSet(replay[s]))
                   /\ s \in ToSet(bucket) =>
                        1 .. seq \subseteq Settled' \cup ToSet(wire'[s]) \cup ToSet(replay[s])
                                             \cup ToSet(queue[s])
        <3>1. /\ Ahead(replay[s], Settled \cup ToSet(wire[s]))
              /\ Ahead(queue[s], Settled \cup ToSet(wire[s]) \cup ToSet(replay[s]))
              /\ s \in ToSet(bucket) =>
                   1 .. seq \subseteq Settled \cup ToSet(wire[s]) \cup ToSet(replay[s])
                                        \cup ToSet(queue[s])
          BY <1>1, <2>4 DEF Flow, SlotFlow, Connected
        <3>2. \A i \in Settled \cup ToSet(wire[s]) :
                i \in Nat \ {0} => i \in Settled' \cup ToSet(wire'[s])
          BY <1>3, <1>5, <2>1
        <3>3. replay[s] \in Seq(Int) /\ queue[s] \in Seq(Int) BY DEF Flow, FlowType
        <3>4. Ahead(replay[s], Settled' \cup ToSet(wire'[s])) BY <3>1, <3>2, <3>3, AheadShift
        <3>5. Ahead(queue[s], Settled' \cup ToSet(wire'[s]) \cup ToSet(replay[s]))
          BY <3>1, <3>2, <3>3, AheadShift
        <3>6. seq \in Nat BY <1>2
        <3> QED BY <3>1, <3>2, <3>4, <3>5, <3>6
      <2> QED BY <1>1, <2>2, <2>3, <2>4 DEF SlotFlow
    <1>9. ASSUME NEW r \in Slots, r # s PROVE SlotFlow(r)'
      <2>1. ~Connected(r)' BY <1>1, <1>9 DEF OneCall, Connected
      <2> QED BY <2>1 DEF SlotFlow
    <1>10. \A r \in Slots : SlotFlow(r)' BY <1>8, <1>9
    <1> QED BY <1>6, <1>7, <1>10 DEF Flow

\* A rival connects or leaves: the bucket changes, and a queue may be bidden
\* farewell.
LEMMA FlowRival ==
    ASSUME Flow, RivalConnects \/ RivalLeaves
    PROVE  Flow'
PROOF
    <1>1. UNCHANGED <<clientVars, wireVars, seq, buffer, gen, replay, overrun, expired>>
      BY DEF RivalConnects, RivalLeaves
    <1>2. /\ bucket' \in Seq(Int) /\ queue' \in [Slots -> Seq(Int)]
          /\ \A s \in Slots : /\ s \in ToSet(bucket') => s \in ToSet(bucket)
                              /\ queue'[s] \in {queue[s], Farewell(queue[s])}
      <2>1. CASE RivalConnects
        <3>1. Register(0) BY <2>1 DEF RivalConnects
        <3>2. 0 \notin Slots BY Numbers
        <3> QED BY <3>1, <3>2, Registered DEF Flow
      <2>2. CASE RivalLeaves
        <3>1. PICK i \in 1 .. Len(bucket) : bucket' = RemoveAt(bucket, i)
          BY <2>2 DEF RivalLeaves
        <3>2. UNCHANGED queue BY <2>2 DEF RivalLeaves
        <3> QED BY <3>1, <3>2, RemoveAtSet DEF Flow, FlowType
      <2> QED BY <2>1, <2>2
    <1>3. FlowType'
      <2>1. ASSUME NEW s \in Slots PROVE ToSet(queue'[s]) \subseteq -1 .. seq
        <3>1. queue[s] \in Seq(Int) /\ ToSet(queue[s]) \subseteq -1 .. seq /\ seq \in Nat
          BY DEF Flow, FlowType
        <3>2. Warning \in -1 .. seq /\ Terminate \in -1 .. seq
          BY <3>1 DEF Warning, Terminate
        <3> QED BY <1>2, <3>1, <3>2, FarewellAppends
      <2> QED BY <1>1, <1>2, <2>1 DEF Flow, FlowType, clientVars, wireVars
    <1>4. Covered' BY <1>1 DEF Flow, Covered, Settled, clientVars
    <1>5. ASSUME NEW s \in Slots PROVE SlotFlow(s)'
      <2>1. /\ Connected(s)' => Connected(s)
            /\ UNCHANGED <<wire, replay, gen, sent, lastId, seq>> /\ Settled \subseteq Settled'
        BY <1>1 DEF Connected, Settled, clientVars, wireVars
      <2> QED BY <1>2, <2>1, SlotAside DEF Flow
    <1> QED BY <1>3, <1>4, <1>5 DEF Flow

\* The hub registers a request: its generator has yielded nothing yet.
LEMMA FlowAccept ==
    ASSUME Flow, NEW c \in Slots, Accept(c)
    PROVE  Flow'
PROOF
    <1>1. /\ UNCHANGED <<clientVars, wireVars, seq, buffer, replay, overrun, expired>>
          /\ Register(c) /\ gen[c] = "none" /\ gen' = [gen EXCEPT ![c] = "hello"]
      BY DEF Accept
    <1>2. /\ bucket' \in Seq(Int) /\ queue' \in [Slots -> Seq(Int)] /\ queue'[c] = <<>>
          /\ \A s \in Slots \ {c} : /\ s \in ToSet(bucket') => s \in ToSet(bucket)
                                    /\ queue'[s] \in {queue[s], Farewell(queue[s])}
      BY <1>1, Registered DEF Flow
    <1>3. FlowType'
      <2>1. ASSUME NEW s \in Slots PROVE ToSet(queue'[s]) \subseteq -1 .. seq
        <3>1. queue[s] \in Seq(Int) /\ ToSet(queue[s]) \subseteq -1 .. seq /\ seq \in Nat
          BY DEF Flow, FlowType
        <3>2. Warning \in -1 .. seq /\ Terminate \in -1 .. seq
          BY <3>1 DEF Warning, Terminate
        <3>3. CASE s # c BY <1>2, <3>1, <3>2, <3>3, FarewellAppends
        <3>4. CASE s = c BY <1>2, <3>4 DEF ToSet
        <3> QED BY <3>3, <3>4
      <2>2. gen' \in [Slots -> {"none", "hello", "live", "ended"}]
        BY <1>1 DEF Flow, FlowType
      <2> QED BY <1>1, <1>2, <2>1, <2>2 DEF Flow, FlowType, clientVars, wireVars
    <1>4. Covered' BY <1>1 DEF Flow, Covered, Settled, clientVars
    <1>5. UNCHANGED <<loop, wire, replay, sent, lastId, seq>> /\ Settled' = Settled
      BY <1>1 DEF Settled, clientVars, wireVars
    <1>6. ASSUME NEW s \in Slots, s # c PROVE SlotFlow(s)'
      <2>1. (Connected(s)' => Connected(s)) /\ gen'[s] = gen[s]
        BY <1>1, <1>5, <1>6 DEF Connected, Flow, FlowType
      <2>2. queue'[s] \in {queue[s], Farewell(queue[s])} /\ (s \in ToSet(bucket') => s \in ToSet(bucket))
        BY <1>2, <1>6
      <2>3. FlowType /\ SlotFlow(s) BY DEF Flow
      <2> QED BY <1>5, <2>1, <2>2, <2>3, SlotAside
    <1>7. SlotFlow(c)'
      <2>1. gen'[c] = "hello" BY <1>1 DEF Flow, FlowType
      <2>2. SlotFlow(c) BY DEF Flow
      <2>3. Connected(c)' = Connected(c) BY <1>5 DEF Connected
      <2> QED BY <1>1, <1>5, <2>1, <2>2, <2>3 DEF SlotFlow
    <1> QED BY <1>3, <1>4, <1>6, <1>7 DEF Flow

\* The replay of what the buffer holds above the Last-Event-ID: with it
\* nothing up to the newest event is left out.
LEMMA FlowReplay ==
    ASSUME Flow, NEW c \in Slots, Replay(c)
    PROVE  Flow'
PROOF
    <1> DEFINE l == sent[c].last
               K == Kept(buffer, l + 1 .. seq)
    <1>1. /\ UNCHANGED <<clientVars, loop, stalled, wire, seq, buffer, bucket, queue, overrun, expired>>
          /\ gen[c] = "hello" /\ gen' = [gen EXCEPT ![c] = "live"]
          /\ replay' = [replay EXCEPT ![c] = K]
          /\ sent' = [sent EXCEPT ![c] = NoRequest]
      BY DEF Replay
    <1>2. /\ seq \in Nat /\ l \in Nat /\ buffer \in Seq(Int) /\ Increasing(buffer)
          /\ ToSet(buffer) \subseteq 1 .. seq
      BY DEF Flow, FlowType, Covered
    <1>3. K \in Seq(Int) /\ Increasing(K) /\ ToSet(K) = ToSet(buffer) \cap (l + 1 .. seq)
      BY <1>2, ReplayedEvents
    <1> HIDE DEF K
    <1>4. FlowType'
      <2>1. replay' \in [Slots -> Seq(Int)] /\ \A s \in Slots : ToSet(replay'[s]) \subseteq 1 .. seq
        <3>1. ToSet(K) \subseteq 1 .. seq BY <1>2, <1>3
        <3> QED BY <1>1, <1>3, <3>1 DEF Flow, FlowType
      <2>2. sent' \in [Slots -> [token : {"none", "good", "bad"}, last : Nat]]
        BY <1>1 DEF Flow, FlowType, NoRequest
      <2>3. gen' \in [Slots -> {"none", "hello", "live", "ended"}]
        BY <1>1 DEF Flow, FlowType
      <2> QED BY <1>1, <2>1, <2>2, <2>3 DEF Flow, FlowType, clientVars
    <1>5. Covered' BY <1>1 DEF Flow, Covered, Settled, clientVars
    <1>6. UNCHANGED <<loop, wire, queue, bucket, lastId, seq>> /\ Settled' = Settled
      BY <1>1 DEF Settled, clientVars
    <1>7. ASSUME NEW s \in Slots, s # c PROVE SlotFlow(s)'
      <2>1. /\ Connected(s)' => Connected(s)
            /\ gen'[s] = gen[s] /\ replay'[s] = replay[s] /\ sent'[s] = sent[s]
        BY <1>1, <1>6, <1>7 DEF Connected, Flow, FlowType
      <2>2. FlowType /\ SlotFlow(s) BY DEF Flow
      <2> QED BY <1>6, <2>1, <2>2, SlotAside
    <1>8. SlotFlow(c)'
      <2> SUFFICES ASSUME Connected(c) PROVE SlotFlow(c)'
        BY <1>6 DEF SlotFlow, Connected
      <2>1. /\ Ahead(wire[c], Settled) /\ wire[c] = <<>> /\ l = lastId
        BY <1>1 DEF Flow, SlotFlow
      <2>2. ToSet(wire[c]) = {} BY <2>1 DEF ToSet
      <2>3. 1 .. seq \subseteq Settled \cup ToSet(K)
        <3>1. 1 .. seq \subseteq expired \cup ToSet(buffer) /\ 1 .. l \subseteq Settled
          BY <2>1 DEF Flow, Covered
        <3>2. expired \subseteq Settled BY DEF Settled
        <3>3. \A i \in 1 .. seq : i \in 1 .. l \/ i \in l + 1 .. seq BY <1>2
        <3> QED BY <3>1, <3>2, <3>3, <1>3
      <2>4. Ahead(K, Settled)
        <3>1. ToSet(K) \subseteq 1 .. seq BY <1>2, <1>3
        <3>2. seq \in Int BY <1>2
        <3> QED BY <3>1, <3>2, <2>3, <1>3, AheadIncreasing
      <2>5. Ahead(queue[c], Settled \cup ToSet(K))
        <3>1. queue[c] \in Seq(Int) /\ ToSet(queue[c]) \subseteq -1 .. seq
          BY DEF Flow, FlowType
        <3>2. \A p \in DOMAIN queue[c] : queue[c][p] \in -1 .. seq BY <3>1 DEF ToSet
        <3>3. \A p \in DOMAIN queue[c] : 1 .. queue[c][p] \subseteq 1 .. seq BY <3>2, <1>2
        <3> QED BY <3>3, <2>3 DEF Ahead
      <2>6. replay'[c] = K /\ gen'[c] = "live" BY <1>1 DEF Flow, FlowType
      <2>7. /\ Ahead(replay'[c], Settled \cup ToSet(wire[c]))
            /\ Ahead(queue[c], Settled \cup ToSet(wire[c]) \cup ToSet(replay'[c]))
            /\ 1 .. seq \subseteq Settled \cup ToSet(wire[c]) \cup ToSet(replay'[c]) \cup ToSet(queue[c])
        <3>1. Settled \cup {} = Settled OBVIOUS
        <3> QED BY <2>2, <2>3, <2>4, <2>5, <2>6, <3>1
      <2> QED BY <1>6, <2>1, <2>6, <2>7 DEF SlotFlow
    <1> QED BY <1>4, <1>5, <1>7, <1>8 DEF Flow

\* An event moves from the replay to the wire.
LEMMA FlowSendReplayed ==
    ASSUME Flow, NEW c \in Slots, SendReplayed(c)
    PROVE  Flow'
PROOF
    <1> DEFINE e == Head(replay[c])
               w == Append(wire[c], e)
               r == Tail(replay[c])
    <1>1. /\ UNCHANGED <<clientVars, loop, sent, stalled, seq, buffer, bucket, gen, queue,
                         overrun, expired>>
          /\ gen[c] = "live" /\ replay[c] # <<>>
          /\ wire' = [wire EXCEPT ![c] = w] /\ replay' = [replay EXCEPT ![c] = r]
      BY DEF SendReplayed
    <1>2. /\ seq \in Nat /\ wire[c] \in Seq(Int) /\ replay[c] \in Seq(Int)
          /\ ToSet(wire[c]) \subseteq 0 .. seq /\ ToSet(replay[c]) \subseteq 1 .. seq
      BY DEF Flow, FlowType
    <1>3. /\ r \in Seq(Int) /\ e \in Int /\ ToSet(replay[c]) = {e} \cup ToSet(r)
      BY <1>1, <1>2, TailSet
    <1>4. w \in Seq(Int) /\ ToSet(w) = ToSet(wire[c]) \cup {e}
      BY <1>2, <1>3, AppendSet
    <1>5. wire'[c] = w /\ replay'[c] = r BY <1>1 DEF Flow, FlowType
    <1>6. FlowType'
      <2>1. ToSet(w) \subseteq 0 .. seq /\ ToSet(r) \subseteq 1 .. seq BY <1>2, <1>3, <1>4
      <2> HIDE DEF w, r
      <2>2. wire' \in [Slots -> Seq(Int)] /\ \A s \in Slots : ToSet(wire'[s]) \subseteq 0 .. seq
        BY <1>1, <1>4, <2>1 DEF Flow, FlowType
      <2>3. replay' \in [Slots -> Seq(Int)] /\ \A s \in Slots : ToSet(replay'[s]) \subseteq 1 .. seq
        BY <1>1, <1>3, <2>1 DEF Flow, FlowType
      <2> QED BY <1>1, <2>2, <2>3 DEF Flow, FlowType, clientVars
    <1>7. Covered' BY <1>1 DEF Flow, Covered, Settled, clientVars
    <1>8. UNCHANGED <<loop, sent, gen, queue, bucket, lastId, seq>> /\ Settled' = Settled
      BY <1>1 DEF Settled, clientVars
    <1>9. ASSUME NEW s \in Slots, s # c PROVE SlotFlow(s)'
      <2>1. /\ Connected(s)' => Connected(s)
            /\ wire'[s] = wire[s] /\ replay'[s] = replay[s]
        BY <1>1, <1>8, <1>9 DEF Connected, Flow, FlowType
      <2>2. FlowType /\ SlotFlow(s) BY DEF Flow
      <2> QED BY <1>8, <2>1, <2>2, SlotAside
    <1>10. SlotFlow(c)'
      <2> SUFFICES ASSUME Connected(c) PROVE SlotFlow(c)'
        BY <1>8 DEF SlotFlow, Connected
      <2>1. /\ Ahead(wire[c], Settled)
            /\ Ahead(replay[c], Settled \cup ToSet(wire[c]))
            /\ Ahead(queue[c], Settled \cup ToSet(wire[c]) \cup ToSet(replay[c]))
            /\ c \in ToSet(bucket) =>
                 1 .. seq \subseteq Settled \cup ToSet(wire[c]) \cup ToSet(replay[c]) \cup ToSet(queue[c])
        BY <1>1 DEF Flow, SlotFlow
      <2>2. 1 .. e \subseteq Settled \cup ToSet(wire[c]) \cup {e}
        BY <1>1, <1>2, <2>1, AheadHead
      <2>3. Ahead(w, Settled) BY <1>2, <1>3, <2>1, <2>2, AheadAppend
      <2>4. Ahead(r, Settled \cup ToSet(w))
        <3>1. Settled \cup ToSet(wire[c]) \subseteq Settled \cup ToSet(w) /\ e \in Settled \cup ToSet(w)
          BY <1>4
        <3> QED BY <1>1, <1>2, <2>1, <3>1, AheadTail
      <2>5. Settled \cup ToSet(wire[c]) \cup ToSet(replay[c]) = Settled \cup ToSet(w) \cup ToSet(r)
        BY <1>3, <1>4
      <2> HIDE DEF w, r, e
      <2>6. /\ Ahead(queue[c], Settled \cup ToSet(w) \cup ToSet(r))
            /\ c \in ToSet(bucket) =>
                 1 .. seq \subseteq Settled \cup ToSet(w) \cup ToSet(r) \cup ToSet(queue[c])
        BY <2>1, <2>5
      <2> QED BY <1>1, <1>5, <1>8, <2>3, <2>4, <2>6 DEF SlotFlow
    <1> QED BY <1>6, <1>7, <1>9, <1>10 DEF Flow

\* An event moves from the queue to the wire, or the terminator ends the
\* generator.
LEMMA FlowSendQueued ==
    ASSUME Flow, NEW c \in Slots, SendQueued(c)
    PROVE  Flow'
PROOF
    <1> DEFINE e == Head(queue[c])
               w == Append(wire[c], e)
               q == Tail(queue[c])
    <1>1. /\ UNCHANGED <<clientVars, loop, sent, stalled, seq, buffer, replay, overrun, expired>>
          /\ gen[c] = "live" /\ replay[c] = <<>> /\ queue[c] # <<>>
          /\ queue' = [queue EXCEPT ![c] = q]
      BY DEF SendQueued
    <1>2. /\ seq \in Nat /\ wire[c] \in Seq(Int) /\ queue[c] \in Seq(Int)
          /\ ToSet(wire[c]) \subseteq 0 .. seq /\ ToSet(queue[c]) \subseteq -1 .. seq
          /\ bucket \in Seq(Int)
      BY DEF Flow, FlowType
    <1>3. q \in Seq(Int) /\ e \in Int /\ ToSet(queue[c]) = {e} \cup ToSet(q)
      BY <1>1, <1>2, TailSet
    <1>4. w \in Seq(Int) /\ ToSet(w) = ToSet(wire[c]) \cup {e}
      BY <1>2, <1>3, AppendSet
    <1>5. queue'[c] = q BY <1>1 DEF Flow, FlowType
    <1>6. UNCHANGED <<loop, sent, replay, lastId, seq>> /\ Settled' = Settled
      BY <1>1 DEF Settled, clientVars
    <1>7. Covered' BY <1>1 DEF Flow, Covered, Settled, clientVars
    <1>8. queue' \in [Slots -> Seq(Int)] /\ \A s \in Slots : ToSet(queue'[s]) \subseteq -1 .. seq
      <2>1. ToSet(q) \subseteq -1 .. seq BY <1>2, <1>3
      <2> HIDE DEF q
      <2> QED BY <1>1, <1>3, <2>1 DEF Flow, FlowType
    <1>9. CASE e = Terminate
      <2>1. /\ gen' = [gen EXCEPT ![c] = "ended"] /\ UNCHANGED wire
            /\ bucket' = RemoveFirst(bucket, c)
        BY <1>9 DEF SendQueued
      <2>2. bucket' \in Seq(Int) /\ ToSet(bucket') \subseteq ToSet(bucket)
        BY <1>2, <2>1, RemoveFirstSet
      <2>3. FlowType'
        <3>1. gen' \in [Slots -> {"none", "hello", "live", "ended"}]
          BY <2>1 DEF Flow, FlowType
        <3> QED BY <1>1, <1>8, <2>1, <2>2, <3>1 DEF Flow, FlowType, clientVars
      <2>4. ASSUME NEW s \in Slots, s # c PROVE SlotFlow(s)'
        <3>1. /\ Connected(s)' => Connected(s)
              /\ gen'[s] = gen[s] /\ queue'[s] = queue[s]
          BY <1>1, <1>6, <2>1, <2>4 DEF Connected, Flow, FlowType
        <3>2. FlowType /\ SlotFlow(s) BY DEF Flow
        <3> QED BY <1>6, <2>1, <2>2, <3>1, <3>2, SlotAside
      <2>5. SlotFlow(c)'
        <3>1. gen'[c] = "ended" /\ (Connected(c)' => Connected(c))
          BY <1>6, <2>1 DEF Flow, FlowType, Connected
        <3>2. SlotFlow(c) BY DEF Flow
        <3> QED BY <1>6, <2>1, <3>1, <3>2 DEF SlotFlow
      <2> QED BY <1>7, <2>3, <2>4, <2>5 DEF Flow
    <1>10. CASE e # Terminate
      <2>1. wire' = [wire EXCEPT ![c] = w] /\ UNCHANGED <<gen, bucket>>
        BY <1>10 DEF SendQueued
      <2>2. wire'[c] = w BY <2>1 DEF Flow, FlowType
      <2>3. FlowType'
        <3>1. ToSet(w) \subseteq 0 .. seq
          <4>1. e \in -1 .. seq /\ e # -1 BY <1>2, <1>3, <1>10 DEF Terminate
          <4> QED BY <1>2, <1>4, <4>1
        <3> HIDE DEF w
        <3>2. wire' \in [Slots -> Seq(Int)] /\ \A s \in Slots : ToSet(wire'[s]) \subseteq 0 .. seq
          BY <2>1, <1>4, <3>1 DEF Flow, FlowType
        <3> QED BY <1>1, <1>8, <2>1, <3>2 DEF Flow, FlowType, clientVars
      <2>4. ASSUME NEW s \in Slots, s # c PROVE SlotFlow(s)'
        <3>1. /\ Connected(s)' => Connected(s)
              /\ wire'[s] = wire[s] /\ queue'[s] = queue[s]
          BY <1>1, <1>6, <2>1, <2>4 DEF Connected, Flow, FlowType
        <3>2. FlowType /\ SlotFlow(s) BY DEF Flow
        <3> QED BY <1>6, <2>1, <3>1, <3>2, SlotAside
      <2>5. SlotFlow(c)'
        <3> SUFFICES ASSUME Connected(c) PROVE SlotFlow(c)'
          BY <1>6 DEF SlotFlow, Connected
        <3>0. ToSet(replay[c]) = {} BY <1>1 DEF ToSet
        <3>a. \A X : X \cup ToSet(replay[c]) = X BY <3>0
        <3>1. /\ Ahead(wire[c], Settled)
              /\ Ahead(queue[c], Settled \cup ToSet(wire[c]) \cup ToSet(replay[c]))
              /\ c \in ToSet(bucket) =>
                   1 .. seq \subseteq Settled \cup ToSet(wire[c]) \cup ToSet(replay[c]) \cup ToSet(queue[c])
          BY <1>1 DEF Flow, SlotFlow
        <3>2. /\ Ahead(queue[c], Settled \cup ToSet(wire[c]))
              /\ c \in ToSet(bucket) =>
                   1 .. seq \subseteq Settled \cup ToSet(wire[c]) \cup ToSet(queue[c])
          BY <3>1, <3>a
        <3>3. 1 .. e \subseteq Settled \cup ToSet(wire[c]) \cup {e}
          BY <1>1, <1>2, <3>2, AheadHead
        <3>4. Ahead(w, Settled) BY <1>2, <1>3, <3>1, <3>3, AheadAppend
        <3>5. Ahead(q, Settled \cup ToSet(w))
          <4>1. Settled \cup ToSet(wire[c]) \subseteq Settled \cup ToSet(w) /\ e \in Settled \cup ToSet(w)
            BY <1>4
          <4> QED BY <1>1, <1>2, <3>2, <4>1, AheadTail
        <3>6. Ahead(<<>>, Settled \cup ToSet(w)) BY AheadEmpty
        <3>7. Settled \cup ToSet(wire[c]) \cup ToSet(queue[c]) = Settled \cup ToSet(w) \cup ToSet(q)
          BY <1>3, <1>4
        <3> HIDE DEF w, q, e
        <3>8. /\ Ahead(replay[c], Settled \cup ToSet(w))
              /\ Ahead(q, Settled \cup ToSet(w) \cup ToSet(replay[c]))
              /\ c \in ToSet(bucket) =>
                   1 .. seq \subseteq Settled \cup ToSet(w) \cup ToSet(replay[c]) \cup ToSet(q)
          BY <1>1, <3>2, <3>5, <3>6, <3>7, <3>a
        <3> QED BY <1>1, <1>5, <1>6, <2>1, <2>2, <3>4, <3>8 DEF SlotFlow
      <2> QED BY <1>7, <2>3, <2>4, <2>5 DEF Flow
    <1> QED BY <1>9, <1>10

\* The server forgets a connection that nobody reads any more.
LEMMA FlowForget ==
    ASSUME Flow, NEW c \in Slots, Forget(c)
    PROVE  Flow'
PROOF
    <1>1. /\ UNCHANGED <<clientVars, loop, seq, buffer, overrun, expired>>
          /\ loop[c] = "none"
          /\ gen' = [gen EXCEPT ![c] = "none"] /\ bucket' = RemoveFirst(bucket, c)
          /\ queue' = [queue EXCEPT ![c] = <<>>] /\ replay' = [replay EXCEPT ![c] = <<>>]
          /\ wire' = [wire EXCEPT ![c] = <<>>] /\ sent' = [sent EXCEPT ![c] = NoRequest]
      BY DEF Forget
    <1>2. bucket' \in Seq(Int) /\ ToSet(bucket') \subseteq ToSet(bucket)
      BY <1>1, RemoveFirstSet DEF Flow, FlowType
    <1>3. UNCHANGED <<loop, lastId, seq>> /\ Settled' = Settled
      BY <1>1 DEF Settled, clientVars
    <1>4. FlowType'
      <2>1. ToSet(<<>>) = {} /\ <<>> \in Seq(Int) BY EmptySeq DEF ToSet
      <2>2. queue' \in [Slots -> Seq(Int)] /\ \A s \in Slots : ToSet(queue'[s]) \subseteq -1 .. seq
        BY <1>1, <2>1 DEF Flow, FlowType
      <2>3. replay' \in [Slots -> Seq(Int)] /\ \A s \in Slots : ToSet(replay'[s]) \subseteq 1 .. seq
        BY <1>1, <2>1 DEF Flow, FlowType
      <2>4. wire' \in [Slots -> Seq(Int)] /\ \A s \in Slots : ToSet(wire'[s]) \subseteq 0 .. seq
        BY <1>1, <2>1 DEF Flow, FlowType
      <2>5. sent' \in [Slots -> [token : {"none", "good", "bad"}, last : Nat]]
        BY <1>1 DEF Flow, FlowType, NoRequest
      <2>6. gen' \in [Slots -> {"none", "hello", "live", "ended"}]
        BY <1>1 DEF Flow, FlowType
      <2> QED BY <1>1, <1>2, <1>3, <2>2, <2>3, <2>4, <2>5, <2>6 DEF Flow, FlowType
    <1>5. Covered' BY <1>1, <1>3 DEF Flow, Covered
    <1>6. ASSUME NEW s \in Slots, s # c PROVE SlotFlow(s)'
      <2>1. /\ Connected(s)' => Connected(s)
            /\ wire'[s] = wire[s] /\ replay'[s] = replay[s] /\ gen'[s] = gen[s]
            /\ sent'[s] = sent[s] /\ queue'[s] = queue[s]
        BY <1>1, <1>3, <1>6 DEF Connected, Flow, FlowType
      <2>2. FlowType /\ SlotFlow(s) BY DEF Flow
      <2> QED BY <1>2, <1>3, <2>1, <2>2, SlotAside
    <1>7. SlotFlow(c)' BY <1>1, <1>3 DEF SlotFlow, Connected
    <1> QED BY <1>4, <1>5, <1>6, <1>7 DEF Flow

\* A broadcast: the buffer trims its oldest events and records the new one,
\* and every queue of the bucket gets it or refuses it.
LEMMA FlowBroadcast ==
    ASSUME Flow, Broadcast
    PROVE  Flow'
PROOF
    <1>1. /\ UNCHANGED <<clientVars, wireVars, bucket, gen, replay>>
          /\ seq' = seq + 1
          /\ \A s \in Slots : queue'[s] = IF s \in ToSet(bucket) /\ Len(queue[s]) < QueueMax
                                          THEN Append(queue[s], seq + 1) ELSE queue[s]
          /\ queue' = [s \in Slots |-> queue'[s]]
      BY DEF Broadcast
    <1>2. PICK k \in 0 .. Len(buffer) :
            /\ buffer' = Append(SubSeq(buffer, k + 1, Len(buffer)), seq + 1)
            /\ expired' = expired \cup {buffer[i] : i \in 1 .. k}
      BY DEF Broadcast
    <1>3. overrun \subseteq overrun'
          /\ \A s \in Slots : s \in ToSet(bucket) /\ ~(Len(queue[s]) < QueueMax) => seq + 1 \in overrun'
      <2>1. overrun' = overrun \cup {seq + 1 : s \in {c \in Slots \cap ToSet(bucket) :
                                                   Len(queue[c]) >= QueueMax}}
        BY DEF Broadcast
      <2>2. ASSUME NEW s \in Slots, ~(Len(queue[s]) < QueueMax) PROVE Len(queue[s]) >= QueueMax
        <3>1. Len(queue[s]) \in Int BY LenProperties DEF Flow, FlowType
        <3> QED BY <2>2, <3>1, Numbers
      <2> QED BY <2>1, <2>2
    <1>4. /\ seq \in Nat /\ buffer \in Seq(Int) /\ Increasing(buffer)
          /\ ToSet(buffer) \subseteq 1 .. seq
          /\ 1 .. seq \subseteq expired \cup ToSet(buffer)
      BY DEF Flow, FlowType, Covered
    <1> DEFINE b == SubSeq(buffer, k + 1, Len(buffer))
    <1>5. /\ b \in Seq(Int) /\ Len(b) = Len(buffer) - k
          /\ \A i \in 1 .. Len(buffer) - k : b[i] = buffer[i + k]
          /\ ToSet(b) \subseteq ToSet(buffer)
          /\ ToSet(buffer) \subseteq {buffer[i] : i \in 1 .. k} \cup ToSet(b)
      BY <1>4, SubSeqSet
    <1> HIDE DEF b
    <1>6. /\ buffer' \in Seq(Int) /\ Len(buffer') = Len(b) + 1
          /\ ToSet(buffer') = ToSet(b) \cup {seq + 1}
          /\ \A i \in 1 .. Len(b) : buffer'[i] = b[i]
          /\ buffer'[Len(b) + 1] = seq + 1
      <2>1. buffer' = Append(b, seq + 1) /\ seq + 1 \in Int BY <1>2, <1>4 DEF b
      <2> QED BY <1>5, <2>1, AppendSet, AppendProperties
    <1>7. Settled \subseteq Settled' /\ lastId' = lastId /\ loop' = loop
      BY <1>1, <1>2, <1>3 DEF Settled, clientVars, wireVars
    <1>8. FlowType'
      <2>1. ToSet(buffer') \subseteq 1 .. seq + 1
        <3>1. 1 .. seq \subseteq 1 .. seq + 1 /\ seq + 1 \in 1 .. seq + 1 BY ONLY <1>4
        <3> QED BY ONLY <1>4, <1>5, <1>6, <3>1
      <2>2. ASSUME NEW s \in Slots
            PROVE  queue'[s] \in Seq(Int) /\ ToSet(queue'[s]) \subseteq -1 .. seq + 1
        <3>1. queue[s] \in Seq(Int) /\ ToSet(queue[s]) \subseteq -1 .. seq
          BY DEF Flow, FlowType
        <3>2. /\ Append(queue[s], seq + 1) \in Seq(Int)
              /\ ToSet(Append(queue[s], seq + 1)) = ToSet(queue[s]) \cup {seq + 1}
          BY <1>4, <3>1, AppendSet
        <3>3. \A X \in SUBSET (-1 .. seq) : X \subseteq -1 .. seq + 1 /\ X \cup {seq + 1} \subseteq -1 .. seq + 1
          BY <1>4
        <3> QED BY <1>1, <3>1, <3>2, <3>3
      <2>3. \A s \in Slots : ToSet(wire[s]) \subseteq 0 .. seq + 1 /\ ToSet(replay[s]) \subseteq 1 .. seq + 1
        <3>1. 0 .. seq \subseteq 0 .. seq + 1 /\ 1 .. seq \subseteq 1 .. seq + 1 BY <1>4
        <3> QED BY <3>1 DEF Flow, FlowType
      <2>4. queue' \in [Slots -> Seq(Int)] BY <1>1, <2>2
      <2>5. seq + 1 \in Nat /\ lastId \in 0 .. seq + 1 BY <1>4 DEF Flow, FlowType
      <2> QED BY <1>1, <1>6, <2>1, <2>2, <2>3, <2>4, <2>5 DEF Flow, FlowType, clientVars, wireVars
    <1>9. Covered'
      <2>1. Increasing(buffer')
        <3>1. DOMAIN buffer' = 1 .. Len(b) + 1 /\ DOMAIN b = 1 .. Len(b) /\ Len(b) \in Nat
              /\ DOMAIN buffer = 1 .. Len(buffer) /\ Len(buffer) \in Nat
          BY <1>4, <1>5, <1>6, LenProperties
        <3> SUFFICES ASSUME NEW i \in 1 .. Len(b) + 1, NEW j \in 1 .. Len(b) + 1, i < j
                     PROVE  buffer'[i] < buffer'[j]
          BY <3>1 DEF Increasing
        <3>2. i \in 1 .. Len(b) /\ buffer'[i] = b[i] BY <1>6, <3>1
        <3>3. CASE j \in 1 .. Len(b)
          <4>1. /\ i + k \in DOMAIN buffer /\ j + k \in DOMAIN buffer /\ i + k < j + k
                /\ b[i] = buffer[i + k] /\ b[j] = buffer[j + k]
            <5> DEFINE n == Len(buffer)
            <5>1. n \in Nat /\ k \in 0 .. n /\ DOMAIN buffer = 1 .. n /\ Len(b) = n - k
                  /\ \A x \in 1 .. n - k : b[x] = buffer[x + k]
              BY <1>5, <3>1
            <5>2. i \in 1 .. n - k /\ j \in 1 .. n - k BY <3>2, <3>3, <5>1
            <5> HIDE DEF n
            <5>3. i + k \in 1 .. n /\ j + k \in 1 .. n /\ i + k < j + k BY <5>1, <5>2
            <5> QED BY <5>1, <5>2, <5>3
          <4> QED BY <1>4, <1>6, <3>2, <3>3, <4>1 DEF Increasing
        <3>4. CASE j = Len(b) + 1
          <4>1. b[i] \in ToSet(b) BY <3>1, <3>2 DEF ToSet
          <4>2. b[i] \in 1 .. seq BY <1>4, <1>5, <4>1
          <4> QED BY <1>4, <1>6, <3>2, <3>4, <4>2
        <3>5. j \in 1 .. Len(b) \/ j = Len(b) + 1 BY <3>1
        <3> QED BY <3>3, <3>4, <3>5
      <2>2. 1 .. seq' \subseteq expired' \cup ToSet(buffer')
        <3>1. 1 .. seq + 1 = 1 .. seq \cup {seq + 1} BY <1>4
        <3> QED BY <1>1, <1>2, <1>4, <1>5, <1>6, <3>1
      <2>3. 1 .. lastId' \subseteq Settled' BY <1>7 DEF Flow, Covered
      <2> QED BY <2>1, <2>2, <2>3 DEF Covered
    <1>10. ASSUME NEW s \in Slots PROVE SlotFlow(s)'
      <2> SUFFICES ASSUME Connected(s) PROVE SlotFlow(s)'
        BY <1>7 DEF SlotFlow, Connected
      <2> DEFINE W == ToSet(wire[s])  R == ToSet(replay[s])
      <2>1. /\ Ahead(wire[s], Settled')
            /\ gen[s] \in {"none", "hello"} => wire[s] = <<>> /\ sent[s].last = lastId
        BY <1>7, AheadGrows DEF Flow, SlotFlow
      <2>2. queue[s] \in Seq(Int) BY DEF Flow, FlowType
      <2>3. ASSUME gen[s] = "live"
            PROVE  /\ Ahead(replay[s], Settled' \cup W)
                   /\ Ahead(queue'[s], Settled' \cup W \cup R)
                   /\ s \in ToSet(bucket) =>
                        1 .. seq' \subseteq Settled' \cup W \cup R \cup ToSet(queue'[s])
        <3>1. /\ Ahead(replay[s], Settled \cup W)
              /\ Ahead(queue[s], Settled \cup W \cup R)
              /\ s \in ToSet(bucket) => 1 .. seq \subseteq Settled \cup W \cup R \cup ToSet(queue[s])
          BY <2>3 DEF Flow, SlotFlow
        <3>2. /\ Ahead(replay[s], Settled' \cup W)
              /\ Ahead(queue[s], Settled' \cup W \cup R)
          <4>1. /\ Settled \cup W \subseteq Settled' \cup W
                /\ Settled \cup W \cup R \subseteq Settled' \cup W \cup R
            BY <1>7
          <4> QED BY <3>1, <4>1, AheadGrows
        <3>3. 1 .. seq + 1 = 1 .. seq \cup {seq + 1} /\ seq + 1 \in Int BY <1>4
        <3>4. CASE s \in ToSet(bucket) /\ Len(queue[s]) < QueueMax
          <4>1. queue'[s] = Append(queue[s], seq + 1) BY <1>1, <3>4
          <4>2. ToSet(queue'[s]) = ToSet(queue[s]) \cup {seq + 1}
            BY <2>2, <3>3, <4>1, AppendSet
          <4>3. 1 .. seq + 1 \subseteq (Settled' \cup W \cup R) \cup ToSet(queue[s]) \cup {seq + 1}
            BY <1>7, <3>1, <3>3, <3>4
          <4>4. Ahead(queue'[s], Settled' \cup W \cup R)
            BY <2>2, <3>2, <3>3, <4>1, <4>3, AheadAppend
          <4>5. 1 .. seq' \subseteq Settled' \cup W \cup R \cup ToSet(queue'[s])
            BY <1>1, <4>2, <4>3
          <4> QED BY <3>2, <4>4, <4>5
        <3>5. CASE s \in ToSet(bucket) /\ ~(Len(queue[s]) < QueueMax)
          <4>1. queue'[s] = queue[s] BY <1>1, <3>5
          <4>2. seq + 1 \in Settled' BY <1>3, <3>5 DEF Settled
          <4>3. 1 .. seq' \subseteq Settled' \cup W \cup R \cup ToSet(queue'[s])
            BY <1>1, <1>7, <3>1, <3>3, <3>5, <4>1, <4>2
          <4> QED BY <3>2, <4>1, <4>3
        <3>6. CASE s \notin ToSet(bucket)
          BY <1>1, <3>2, <3>6
        <3> QED BY <3>4, <3>5, <3>6
      <2>4. /\ wire'[s] = wire[s] /\ replay'[s] = replay[s] /\ gen'[s] = gen[s]
            /\ sent'[s] = sent[s] /\ bucket' = bucket
        BY <1>1 DEF wireVars
      <2> QED BY <1>7, <2>1, <2>3, <2>4 DEF SlotFlow
    <1> QED BY <1>8, <1>9, <1>10 DEF Flow

\* The user logs out: nobody is connected.
LEMMA FlowSignOut ==
    ASSUME Flow, SignOut
    PROVE  Flow'
PROOF
    <1>1. /\ UNCHANGED <<seq, buffer, bucket, gen, replay, queue, overrun, expired>>
          /\ UNCHANGED <<sent, wire>>
          /\ lastId' = 0 /\ loop' = [s \in Slots |-> "none"]
      BY DEF SignOut, serverVars
    <1>2. FlowType' BY <1>1 DEF Flow, FlowType
    <1>3. Covered' BY <1>1 DEF Flow, Covered
    <1>4. \A s \in Slots : SlotFlow(s)' BY <1>1 DEF SlotFlow, Connected
    <1> QED BY <1>2, <1>3, <1>4 DEF Flow

\* The client's calls only ever end, but in Open; a fetch becomes a reader.
LEMMA FlowStep == OneCall /\ TypeOK /\ Flow /\ [Next]_vars => Flow'
PROOF
    <1> SUFFICES ASSUME OneCall, TypeOK, Flow, [Next]_vars PROVE Flow'
      OBVIOUS
    <1> DEFINE None == [s \in Slots |-> "none"]
               Tokens == {"none", "good", "bad"}
    <1>none. timer \/ status = "lost" => loop = None
      BY DEF OneCall
    <1>last. lastId \in 0 .. seq /\ 1 .. lastId \subseteq Settled /\ seq \in Nat
      BY DEF Flow, FlowType, Covered
    <1>tok. token \in Tokens BY DEF TypeOK
    <1>1. CASE SignIn
      <2>1. lastId' = 0 /\ UNCHANGED serverVars /\ Open(0, None, "good", lastId')
        BY <1>1 DEF SignIn
      <2>2. lastId' \in 0 .. seq /\ 1 .. lastId' \subseteq Settled' BY <2>1, <1>last
      <2> QED BY <2>1, <2>2, FlowOpen
    <1>2. CASE SignOut BY <1>2, FlowSignOut
    <1>3. CASE OtherTabSigns
      BY <1>3, FlowQuiet DEF OtherTabSigns, wireVars, serverVars, Connected
    <1>4. CASE RetryFires
      <2>1. /\ UNCHANGED <<lastId, heard>> /\ UNCHANGED serverVars
            /\ Open(attempts, None, token, lastId)
        BY <1>4, <1>none DEF RetryFires
      <2>2. Settled' = Settled BY <2>1 DEF Settled, serverVars
      <2> QED BY <1>last, <1>tok, <2>1, <2>2, FlowOpen
    <1>5. CASE RetryNow
      <2>1. Abort(loop) = None BY <1>5, <1>none DEF RetryNow, Abort
      <2>2. /\ UNCHANGED <<lastId, heard>> /\ UNCHANGED serverVars
            /\ Open(0, None, token, lastId)
        BY <1>5, <2>1 DEF RetryNow
      <2>3. Settled' = Settled BY <2>2 DEF Settled, serverVars
      <2> QED BY <1>last, <1>tok, <2>2, <2>3, FlowOpen
    <1>6. CASE WatchdogFires
      <2>1. \A s \in Slots : Connected(s)' => Connected(s)
        BY <1>6 DEF WatchdogFires, Abort, Connected
      <2> QED BY <1>6, <2>1, FlowQuiet DEF WatchdogFires, clientVars, serverVars
    <1>7. ASSUME NEW s \in Slots, FetchFails(s) PROVE Flow'
      <2>1. \A r \in Slots : Connected(r)' => Connected(r)
        BY <1>7 DEF FetchFails, Connected, OneCall
      <2> QED BY <1>7, <2>1, FlowQuiet DEF FetchFails, serverVars
    <1>8. ASSUME NEW s \in Slots, Refused(s) PROVE Flow'
      <2>1. \A r \in Slots : Connected(r)' => Connected(r)
        BY <1>8 DEF Refused, Connected, OneCall
      <2> QED BY <1>8, <2>1, FlowQuiet DEF Refused, serverVars
    <1>9. ASSUME NEW s \in Slots, Opened(s) PROVE Flow'
      <2>1. \A r \in Slots : Connected(r)' => Connected(r)
        BY <1>9 DEF Opened, Connected, OneCall
      <2> QED BY <1>9, <2>1, FlowQuiet DEF Opened, serverVars
    <1>10. ASSUME NEW s \in Slots, Read(s) PROVE Flow'
      BY <1>10, FlowRead
    <1>11. ASSUME NEW s \in Slots, ReadEnds(s) PROVE Flow'
      <2>1. \A r \in Slots : Connected(r)' => Connected(r)
        BY <1>11 DEF ReadEnds, Ended, Connected, OneCall
      <2> QED BY <1>11, <2>1, FlowQuiet DEF ReadEnds, Ended, serverVars
    <1>12. ASSUME NEW s \in Slots, ConnectionDrops(s) PROVE Flow'
      <2>1. \A r \in Slots : Connected(r)' => Connected(r)
        BY <1>12 DEF ConnectionDrops, Ended, Connected, OneCall
      <2> QED BY <1>12, <2>1, FlowQuiet DEF ConnectionDrops, Ended, serverVars
    <1>13. ASSUME NEW s \in Slots, Stall(s) PROVE Flow'
      BY <1>13, FlowQuiet DEF Stall, clientVars, serverVars, Connected
    <1>14. CASE Broadcast BY <1>14, FlowBroadcast
    <1>15. CASE RivalConnects \/ RivalLeaves BY <1>15, FlowRival
    <1>16. ASSUME NEW s \in Slots,
                  Accept(s) \/ Replay(s) \/ SendReplayed(s) \/ SendQueued(s) \/ Forget(s)
           PROVE  Flow'
      BY <1>16, FlowAccept, FlowReplay, FlowSendReplayed, FlowSendQueued, FlowForget
    <1>17. CASE UNCHANGED vars
      BY <1>17, FlowQuiet DEF vars, clientVars, serverVars, wireVars, Connected
    <1> QED
      BY <1>1, <1>2, <1>3, <1>4, <1>5, <1>6, <1>7, <1>8, <1>9, <1>10, <1>11, <1>12, <1>13,
         <1>14, <1>15, <1>16, <1>17 DEF Next, Client, Hub

-----------------------------------------------------------------------------
(* Types and bounds                                                        *)

Flags ==
    /\ authed \in BOOLEAN /\ timer \in BOOLEAN
    /\ watchdog \in BOOLEAN /\ stopped \in BOOLEAN

Values ==
    /\ token \in {"none", "good", "bad"}
    /\ status \in {"idle", "connecting", "open", "reconnecting", "lost", "unauthorized"}
    /\ attempts \in 0 .. LostAfter
    /\ ctrl \in Slots \cup {0}
    /\ faults \in 0 .. MaxFaults

Lengths == \A s \in Slots : Len(queue[s]) <= QueueMax /\ Len(wire[s]) <= WireMax

LEMMA TypeParts ==
    /\ TypeOK => Flags /\ Values /\ Lengths
    /\ OneCall /\ Flow /\ Flags /\ Values /\ Lengths => TypeOK
PROOF
    <1>1. TypeOK => Flags BY Zenon DEF TypeOK, Flags
    <1>2. TypeOK => Values /\ Lengths BY DEF TypeOK, Values, Lengths
    <1>3. Flags => {authed, timer, watchdog, stopped} \subseteq BOOLEAN BY Zenon DEF Flags
    <1>4. OneCall /\ Flow /\ Flags /\ Values /\ Lengths => TypeOK
      <2> SUFFICES ASSUME OneCall, Flow, Flags, Values, Lengths PROVE TypeOK OBVIOUS
      <2>1. {authed, timer, watchdog, stopped} \subseteq BOOLEAN BY <1>3
      <2> QED BY <2>1 DEF TypeOK, OneCall, Flow, FlowType, Values, Lengths
    <1> QED BY <1>1, <1>2, <1>4

LEMMA FlagsStep == Flags /\ [Next]_vars => Flags'
PROOF
    <1> SUFFICES ASSUME Flags, [Next]_vars PROVE Flags' OBVIOUS
    <1> USE DEF Flags
    <1>1. CASE SignIn BY <1>1, Zenon DEF SignIn
    <1>2. CASE SignOut BY <1>2, Zenon DEF SignOut
    <1>3. CASE OtherTabSigns BY <1>3, Zenon DEF OtherTabSigns
    <1>4. CASE RetryFires BY <1>4, Zenon DEF RetryFires
    <1>5. CASE RetryNow BY <1>5, Zenon DEF RetryNow
    <1>6. CASE WatchdogFires BY <1>6, Zenon DEF WatchdogFires, clientVars
    <1>ret. ScheduleRetry => timer' \in BOOLEAN
      <2>1. ScheduleRetry => UNCHANGED timer \/ timer' = TRUE BY DEF ScheduleRetry
      <2> QED BY <2>1, Zenon
    <1>7. ASSUME NEW s \in Slots, FetchFails(s) PROVE Flags'
      <2>1. timer' \in BOOLEAN BY <1>7, <1>ret DEF FetchFails
      <2> QED BY <1>7, <2>1, Zenon DEF FetchFails
    <1>8. ASSUME NEW s \in Slots, Refused(s) PROVE Flags'
      BY <1>8, Zenon DEF Refused
    <1>9. ASSUME NEW s \in Slots, Opened(s) PROVE Flags'
      BY <1>9, Zenon DEF Opened
    <1>10. ASSUME NEW s \in Slots, Read(s) PROVE Flags'
      BY <1>10, Zenon DEF Read
    <1>11. ASSUME NEW s \in Slots, ReadEnds(s) \/ ConnectionDrops(s) PROVE Flags'
      <2>1. timer' \in BOOLEAN BY <1>11, <1>ret DEF ReadEnds, ConnectionDrops, Ended
      <2> QED BY <1>11, <2>1, Zenon DEF ReadEnds, ConnectionDrops, Ended
    <1>12. ASSUME NEW s \in Slots, Stall(s) PROVE Flags'
      BY <1>12, Zenon DEF Stall, clientVars
    <1>13. CASE Hub
      <2>1. UNCHANGED clientVars
        BY <1>13 DEF Hub, Broadcast, RivalConnects, RivalLeaves, Accept, Replay, SendReplayed,
                     SendQueued, Forget
      <2> QED BY <2>1, Zenon DEF clientVars
    <1>14. CASE UNCHANGED vars BY <1>14, Zenon DEF vars, clientVars
    <1> QED
      BY <1>1, <1>2, <1>3, <1>4, <1>5, <1>6, <1>7, <1>8, <1>9, <1>10, <1>11, <1>12, <1>13,
         <1>14 DEF Next, Client

LEMMA ValuesStep == Values /\ [Next]_vars => Values'
PROOF
    <1> SUFFICES ASSUME Values, [Next]_vars PROVE Values' OBVIOUS
    <1> USE Numbers DEF Values
    <1>fault. Fault => faults' \in 0 .. MaxFaults BY DEF Fault
    <1>retry. ASSUME ScheduleRetry
              PROVE  /\ status' \in {status, "lost", "reconnecting"}
                     /\ attempts' \in 0 .. LostAfter
      BY <1>retry DEF ScheduleRetry
    <1>open. ASSUME NEW n, NEW Calls, NEW tok, NEW last, Open(n, Calls, tok, last)
             PROVE  status' \in {"connecting", "reconnecting"} /\ ctrl' \in Slots \cup {0}
      BY <1>open DEF Open
    <1>1. CASE SignIn BY <1>1, <1>open DEF SignIn
    <1>2. CASE SignOut BY <1>2 DEF SignOut
    <1>3. CASE OtherTabSigns BY <1>3, <1>fault DEF OtherTabSigns
    <1>4. CASE RetryFires BY <1>4, <1>open DEF RetryFires
    <1>5. CASE RetryNow BY <1>5, <1>open DEF RetryNow
    <1>6. CASE WatchdogFires BY <1>6 DEF WatchdogFires, clientVars
    <1>7. ASSUME NEW s \in Slots, FetchFails(s) PROVE Values'
      BY <1>7, <1>retry, <1>fault DEF FetchFails
    <1>8. ASSUME NEW s \in Slots, Refused(s) PROVE Values'
      BY <1>8 DEF Refused
    <1>9. ASSUME NEW s \in Slots, Opened(s) PROVE Values'
      BY <1>9 DEF Opened
    <1>10. ASSUME NEW s \in Slots, Read(s) PROVE Values'
      BY <1>10 DEF Read
    <1>11. ASSUME NEW s \in Slots, ReadEnds(s) PROVE Values'
      BY <1>11, <1>retry DEF ReadEnds, Ended
    <1>12. ASSUME NEW s \in Slots, ConnectionDrops(s) PROVE Values'
      BY <1>12, <1>retry, <1>fault DEF ConnectionDrops, Ended
    <1>13. ASSUME NEW s \in Slots, Stall(s) PROVE Values'
      BY <1>13, <1>fault DEF Stall, clientVars
    <1>14. CASE Hub
      <2>1. UNCHANGED clientVars /\ (UNCHANGED faults \/ Fault)
        BY <1>14 DEF Hub, Broadcast, RivalConnects, RivalLeaves, Accept, Replay, SendReplayed,
                     SendQueued, Forget
      <2> QED BY <2>1, <1>fault DEF clientVars
    <1>15. CASE UNCHANGED vars BY <1>15 DEF vars, clientVars
    <1> QED
      BY <1>1, <1>2, <1>3, <1>4, <1>5, <1>6, <1>7, <1>8, <1>9, <1>10, <1>11, <1>12, <1>13,
         <1>14, <1>15 DEF Next, Client

LEMMA LengthsStep == FlowType /\ Lengths /\ [Next]_vars => Lengths'
PROOF
    <1> SUFFICES ASSUME FlowType, Lengths, [Next]_vars PROVE Lengths' OBVIOUS
    <1> USE Numbers
    <1>0. Len(<<>>) = 0 BY EmptySeq
    <1>open. ASSUME NEW n, NEW Calls, NEW tok, NEW last, Open(n, Calls, tok, last), UNCHANGED queue
             PROVE  Lengths'
      <2>1. \A s \in Slots : wire'[s] \in {wire[s], <<>>} BY <1>open DEF Open, FlowType
      <2>2. \A s \in Slots : Len(wire[s]) <= WireMax /\ Len(queue'[s]) <= QueueMax
        BY <1>open DEF Lengths
      <2>3. 0 <= WireMax OBVIOUS
      <2> QED BY ONLY <2>1, <2>2, <2>3, <1>0 DEF Lengths
    <1>still. ASSUME UNCHANGED <<wire, queue>> PROVE Lengths'
      BY <1>still DEF Lengths
    <1>reg. ASSUME NEW c \in Slots \cup {0}, Register(c), UNCHANGED wire PROVE Lengths'
      <2>1. \A s \in Slots : queue'[s] \in {<<>>, queue[s], Farewell(queue[s])}
        BY <1>reg, Registered
      <2>2. \A s \in Slots : Len(Farewell(queue[s])) <= QueueMax
        BY FarewellAppends DEF FlowType, Lengths
      <2> QED BY <1>reg, <2>1, <2>2, <1>0 DEF Lengths
    <1>1. CASE SignIn \/ RetryFires \/ RetryNow
      BY <1>1, <1>open DEF SignIn, RetryFires, RetryNow, serverVars
    <1>2. CASE SignOut \/ OtherTabSigns \/ WatchdogFires \/ UNCHANGED vars
      BY <1>2, <1>still DEF SignOut, OtherTabSigns, WatchdogFires, wireVars, serverVars, vars
    <1>3. ASSUME NEW s \in Slots,
                 \/ FetchFails(s) \/ Refused(s) \/ Opened(s)
                 \/ ReadEnds(s) \/ ConnectionDrops(s) \/ Stall(s) \/ Replay(s)
          PROVE  Lengths'
      BY <1>3, <1>still DEF FetchFails, Refused, Opened, ReadEnds, ConnectionDrops, Ended, Stall,
                            Replay, serverVars
    <1>4. ASSUME NEW s \in Slots, Read(s) PROVE Lengths'
      <2>1. wire[s] \in Seq(Int) /\ wire[s] # <<>> /\ wire \in [Slots -> Seq(Int)]
            /\ wire' = [wire EXCEPT ![s] = Tail(wire[s])] /\ UNCHANGED queue
        BY <1>4 DEF Read, FlowType, serverVars
      <2>2. Len(Tail(wire[s])) = Len(wire[s]) - 1 /\ Len(wire[s]) \in Nat
        BY <2>1, TailSet, LenProperties
      <2> QED BY <2>1, <2>2 DEF Lengths
    <1>5. CASE RivalConnects
      BY <1>5, <1>reg DEF RivalConnects, wireVars
    <1>6. CASE RivalLeaves
      BY <1>6, <1>still DEF RivalLeaves, wireVars
    <1>7. ASSUME NEW s \in Slots, Accept(s) PROVE Lengths'
      BY <1>7, <1>reg DEF Accept, wireVars
    <1>8. ASSUME NEW s \in Slots, SendReplayed(s) PROVE Lengths'
      <2> DEFINE e == Head(replay[s])
      <2>1. /\ wire[s] \in Seq(Int) /\ replay[s] \in Seq(Int) /\ replay[s] # <<>>
            /\ wire \in [Slots -> Seq(Int)] /\ Len(wire[s]) < WireMax
            /\ wire' = [wire EXCEPT ![s] = Append(wire[s], e)] /\ UNCHANGED queue
        BY <1>8 DEF SendReplayed, FlowType
      <2>2. Len(Append(wire[s], e)) = Len(wire[s]) + 1 /\ Len(wire[s]) \in Nat
        BY <2>1, TailSet, AppendSet, LenProperties
      <2> QED BY <2>1, <2>2 DEF Lengths
    <1>9. ASSUME NEW s \in Slots, SendQueued(s) PROVE Lengths'
      <2> DEFINE e == Head(queue[s])
      <2>1. /\ wire[s] \in Seq(Int) /\ queue[s] \in Seq(Int) /\ queue[s] # <<>>
            /\ wire \in [Slots -> Seq(Int)] /\ queue \in [Slots -> Seq(Int)]
            /\ Len(wire[s]) < WireMax
            /\ queue' = [queue EXCEPT ![s] = Tail(queue[s])]
            /\ UNCHANGED wire \/ wire' = [wire EXCEPT ![s] = Append(wire[s], e)]
        BY <1>9 DEF SendQueued, FlowType
      <2>2. /\ Len(Append(wire[s], e)) = Len(wire[s]) + 1 /\ Len(wire[s]) \in Nat
            /\ Len(Tail(queue[s])) = Len(queue[s]) - 1 /\ Len(queue[s]) \in Nat
        BY <2>1, TailSet, AppendSet, LenProperties
      <2>3. \A r \in Slots : Len(queue'[r]) <= QueueMax BY <2>1, <2>2 DEF Lengths
      <2>4. \A r \in Slots : Len(wire'[r]) <= WireMax
        <3>1. CASE UNCHANGED wire BY <3>1 DEF Lengths
        <3>2. CASE wire' = [wire EXCEPT ![s] = Append(wire[s], e)]
          <4>1. \A r \in Slots : r # s => wire'[r] = wire[r] BY <2>1, <3>2
          <4>2. wire'[s] = Append(wire[s], e) BY <2>1, <3>2
          <4>3. Len(wire'[s]) <= WireMax BY <2>1, <2>2, <4>2
          <4> QED BY <4>1, <4>3 DEF Lengths
        <3> QED BY <2>1, <3>1, <3>2
      <2> QED BY <2>3, <2>4 DEF Lengths
    <1>10. ASSUME NEW s \in Slots, Forget(s) PROVE Lengths'
      BY <1>10, <1>0 DEF Forget, Lengths, FlowType
    <1>11. CASE Broadcast
      <2>1. UNCHANGED wire
            /\ \A s \in Slots : \/ queue'[s] = queue[s]
                                \/ Len(queue[s]) < QueueMax /\ queue'[s] = Append(queue[s], seq + 1)
        BY <1>11 DEF Broadcast, wireVars
      <2>2. \A s \in Slots : /\ Len(Append(queue[s], seq + 1)) = Len(queue[s]) + 1
                             /\ Len(queue[s]) \in Nat
        BY AppendSet, LenProperties DEF FlowType
      <2>3. \A s \in Slots : Len(queue[s]) <= QueueMax /\ Len(wire[s]) <= WireMax BY DEF Lengths
      <2>4. QueueMax \in Int OBVIOUS
      <2> QED BY ONLY <2>1, <2>2, <2>3, <2>4 DEF Lengths
    <1> QED
      BY <1>1, <1>2, <1>3, <1>4, <1>5, <1>6, <1>7, <1>8, <1>9, <1>10, <1>11
      DEF Next, Client, Hub

-----------------------------------------------------------------------------
LEMMA StreamInit == Init => StreamInv
PROOF
    <1> SUFFICES ASSUME Init PROVE StreamInv OBVIOUS
    <1>1. OneCall /\ Flow BY OneCallInit, FlowInit
    <1>2. Flags BY Zenon DEF Init, Flags
    <1>3. Values /\ Lengths BY Numbers, EmptySeq DEF Init, Values, Lengths
    <1> QED BY <1>1, <1>2, <1>3, TypeParts DEF StreamInv

LEMMA StreamStep == StreamInv /\ [Next]_vars => StreamInv'
PROOF
    <1> SUFFICES ASSUME StreamInv, [Next]_vars PROVE StreamInv' OBVIOUS
    <1>1. OneCall /\ TypeOK /\ Flow /\ FlowType /\ Flags /\ Values /\ Lengths
      BY TypeParts DEF StreamInv, Flow
    <1>2. OneCall' BY <1>1, OneCallStep
    <1>3. Flow' BY <1>1, FlowStep
    <1>4. Flags' /\ Values' /\ Lengths' BY <1>1, FlagsStep, ValuesStep, LengthsStep
    <1>5. TypeOK' BY <1>2, <1>3, <1>4, TypeParts, PTL
    <1> QED BY <1>2, <1>3, <1>5 DEF StreamInv

\* The types, and the bounds of the queue of a connection (_CLIENT_QUEUE_MAX)
\* and of the client's count of failures.
THEOREM StreamTypeCorrect == Spec => []TypeOK
PROOF
    <1>1. StreamInv => TypeOK BY DEF StreamInv
    <1> QED BY <1>1, StreamInit, StreamStep, PTL DEF Spec

\* Whoever has caught up has heard every event, across any number of
\* reconnections, retries and evictions, but for those older than the replay
\* buffer and those a full queue refused (SSEHub.stream, SSEClient).
THEOREM NothingMissed == Spec => []CaughtUpHasAll
PROOF
    <1>1. StreamInv => CaughtUpHasAll BY FlowCaughtUp DEF StreamInv
    <1> QED BY <1>1, StreamInit, StreamStep, PTL DEF Spec

LEMMA LiveNumbers ==
    /\ TaskCount \in Nat /\ MaxRefusals \in Nat /\ FetchSlots \in Nat /\ Capacity \in Nat
    /\ MaxFetches \in Nat /\ MaxVisits \in Nat /\ MaxSlots \in Nat /\ PoolSize \in Nat
    /\ MaxAsks \in Nat /\ MaxEdits \in Nat /\ MaxEditorVisits \in Nat
    /\ TaskCount > 0 /\ MaxSlots > 0
  BY LiveAssumption

-----------------------------------------------------------------------------
(* The batch editor                                                        *)

\* Some request of an older page waits to clear the store.
Foreign(q) == \E i \in DOMAIN q : q[i].kind = "clear" /\ ~q[i].mine
Emptying(q) == \A i \in DOMAIN q : q[i].kind = "clear" => q[i].draft = Editor!Empty

EFlags ==
    /\ mounted \in BOOLEAN /\ saving \in BOOLEAN /\ orphan \in BOOLEAN
    /\ calledOff \in BOOLEAN /\ touched \in BOOLEAN /\ wiped \in BOOLEAN

EWords ==
    /\ load \in {"off", "models", "draft", "done"}
    /\ stage \in {"idle", "creating", "fanning", "finalizing"}
    /\ gate \in {"open", "asking", "modal"}

EDrafts ==
    /\ form \in Editor!Drafts /\ stored \in Editor!Drafts \cup {Editor!None}
    /\ prepared \in Editor!Drafts /\ atMount \in Editor!Drafts
    /\ asks \in Seq(Editor!Asks) /\ Len(asks) <= MaxAsks
    /\ edits \in Nat /\ edits <= MaxEdits

\* The jobs of a submission, counted: they add up to its slots, jobs are
\* posted only while the pool runs, and dropped only when it is called off.
EPool ==
    /\ todo \in Nat /\ editorFlying \in Nat /\ editorLanded \in Nat /\ failed \in Nat
    /\ dropped \in Nat
    /\ todo <= MaxSlots /\ editorFlying <= MaxSlots /\ editorLanded <= MaxSlots
    /\ failed <= MaxSlots /\ dropped <= MaxSlots /\ editorFlying <= PoolSize
    /\ stage \in {"fanning", "finalizing"} =>
          todo + editorFlying + editorLanded + failed + dropped = prepared.slots
    /\ dropped > 0 => calledOff
    /\ editorFlying > 0 => stage = "fanning"
    /\ stage = "finalizing" => todo = 0 \/ calledOff

\* While no autosave is armed, the store will hold the editor, unless an
\* older page's submission is about to clear it.
EQuiet ==
    /\ Emptying(asks)
    /\ mounted /\ ~saving /\ ~wiped => Foreign(asks) \/ Editor!Due = form

EditorInv == EFlags /\ EWords /\ EDrafts /\ EPool /\ EQuiet

LEMMA EditorParts ==
    ASSUME EditorInv
    PROVE  Editor!EditorTypeOK /\ Editor!EditorSafe
PROOF
    <1> USE LiveNumbers
    <1>1. Editor!EditorTypeOK
      <2>1. {mounted, saving, orphan, calledOff, touched, wiped} \subseteq BOOLEAN
        <3>1. EFlags BY DEF EditorInv
        <3> QED BY <3>1, Zenon DEF EFlags
      <2>2. {todo, editorFlying, editorLanded, failed, dropped} \subseteq 0..MaxSlots
        BY DEF EditorInv, EPool
      <2> QED BY <2>1, <2>2 DEF EditorInv, EWords, EDrafts, EPool, Editor!EditorTypeOK
    <1>2. Editor!EveryJobAccounted BY DEF EditorInv, EPool, Editor!EveryJobAccounted
    <1>3. Editor!FinalizedWhole
      <2> SUFFICES ASSUME stage = "finalizing", ~calledOff, failed = 0
                   PROVE  editorFlying = 0 /\ editorLanded = prepared.slots
        BY DEF Editor!FinalizedWhole, EditorInv, EPool
      <2>1. EPool BY DEF EditorInv
      <2>2. editorFlying = 0 /\ dropped = 0 /\ todo = 0 BY <2>1 DEF EPool
      <2> QED BY <2>1, <2>2 DEF EPool
    <1>4. Editor!QuietDraftIsExact
      <2> SUFFICES ASSUME mounted, ~saving, asks = <<>>, ~wiped PROVE Editor!Content = form
        BY DEF Editor!QuietDraftIsExact
      <2>1. DOMAIN asks = {} BY DEF EditorInv
      <2>2. Editor!Due = form BY <2>1 DEF EditorInv, EQuiet, Foreign
      <2> QED BY <2>1, <2>2 DEF Editor!Due, Editor!Writes
    <1> QED BY <1>1, <1>2, <1>3, <1>4 DEF Editor!EditorSafe

LEMMA EditorStarts == Editor!EditorInit => EditorInv
PROOF
    <1> SUFFICES ASSUME Editor!EditorInit PROVE EditorInv OBVIOUS
    <1> USE LiveNumbers
    <1>1. EFlags BY Zenon DEF Editor!EditorInit, EFlags
    <1>2. EWords BY DEF Editor!EditorInit, EWords
    <1>3. EDrafts
      <2>1. Editor!Empty \in Editor!Drafts /\ [slots |-> 1, ver |-> 0] \in Editor!Drafts
        BY DEF Editor!Empty, Editor!Drafts
      <2> QED BY <2>1 DEF Editor!EditorInit, EDrafts
    <1>4. EPool BY DEF Editor!EditorInit, EPool
    <1>5. EQuiet
      <2>1. DOMAIN asks = {} /\ ~mounted BY DEF Editor!EditorInit
      <2> QED BY <2>1 DEF EQuiet, Emptying
    <1> QED BY <1>1, <1>2, <1>3, <1>4, <1>5 DEF EditorInv

LEMMA EFlagsStep == EFlags /\ Editor!EditorNext => EFlags'
PROOF
    <1> SUFFICES ASSUME EFlags, Editor!EditorNext PROVE EFlags' OBVIOUS
    <1> USE DEF EFlags
    <1>edit. ASSUME NEW n, Editor!Edited(n) PROVE EFlags'
      BY <1>edit, Zenon DEF Editor!Edited, Editor!poolVars
    <1>pool. ASSUME Editor!Pool, calledOff' \in {calledOff, TRUE} PROVE EFlags'
      <2>1. calledOff' \in BOOLEAN BY <1>pool, Zenon
      <2> QED BY <2>1, <1>pool, Zenon DEF Editor!Pool, Editor!draftPart
    <1>1. CASE Editor!Open BY <1>1, Zenon DEF Editor!Open, Editor!poolVars
    <1>2. CASE Editor!ModelsRead BY <1>2, Zenon DEF Editor!ModelsRead, Editor!poolVars
    <1>3. CASE Editor!Leave
      <2>1. (stage # "idle") \in BOOLEAN BY Zenon
      <2> QED BY <2>1, <1>3, Zenon DEF Editor!Leave, Editor!poolVars
    <1>4. CASE Editor!Unload BY <1>4, Zenon DEF Editor!Unload
    <1>5. CASE Editor!UpdateFixed BY <1>5, <1>edit DEF Editor!UpdateFixed
    <1>6. CASE Editor!UpdateSlot BY <1>6, <1>edit DEF Editor!UpdateSlot
    <1>7. CASE Editor!AddSlot BY <1>7, <1>edit DEF Editor!AddSlot
    <1>8. CASE Editor!DuplicateSlot BY <1>8, <1>edit DEF Editor!DuplicateSlot
    <1>9. CASE Editor!DeleteSlot BY <1>9, <1>edit DEF Editor!DeleteSlot
    <1>10. CASE Editor!ClearDraft BY <1>10, Zenon DEF Editor!ClearDraft, Editor!poolVars
    <1>11. CASE Editor!Save BY <1>11, Zenon DEF Editor!Save, Editor!poolVars
    <1>12. CASE Editor!Saved BY <1>12, Zenon DEF Editor!Saved, Editor!poolVars
    <1>13. CASE Editor!Cleared
      <2>1. (wiped \/ ~Head(asks).mine) \in BOOLEAN BY Zenon
      <2> QED BY <2>1, <1>13, Zenon DEF Editor!Cleared, Editor!poolVars
    <1>14. CASE Editor!Restored
      <2>1. saving' = saving \/ saving' = TRUE BY <1>14 DEF Editor!Restored
      <2>2. saving' \in BOOLEAN BY <2>1, Zenon
      <2> QED BY <2>2, <1>14, Zenon DEF Editor!Restored, Editor!poolVars
    <1>15. CASE Editor!Submit BY <1>15, Zenon DEF Editor!Submit, Editor!poolVars, Editor!draftPart
    <1>16. CASE Editor!Registered
      <2>1. saving' = saving \/ saving' = TRUE BY <1>16 DEF Editor!Registered
      <2>2. saving' \in BOOLEAN BY <2>1, Zenon
      <2> QED BY <2>2, <1>16, Zenon DEF Editor!Registered
    <1>17. CASE Editor!NotRegistered
      BY <1>17, Zenon DEF Editor!NotRegistered, Editor!poolVars, Editor!draftPart
    <1>18. CASE Editor!Take \/ Editor!Landed \/ Editor!Failed \/ Editor!Refused
      BY <1>18, <1>pool DEF Editor!Take, Editor!Landed, Editor!Failed, Editor!Refused
    <1>19. CASE Editor!GateCleared \/ Editor!ModalOpens \/ Editor!Solved \/ Editor!CalledOff
      BY <1>19, <1>pool DEF Editor!GateCleared, Editor!ModalOpens, Editor!Solved, Editor!CalledOff
    <1>20. CASE Editor!Finalize
      BY <1>20, Zenon DEF Editor!Finalize, Editor!poolVars, Editor!draftPart
    <1>21. CASE Editor!Finalized
      BY <1>21, Zenon DEF Editor!Finalized, Editor!poolVars, Editor!draftPart
    <1> QED
      BY <1>1, <1>2, <1>3, <1>4, <1>5, <1>6, <1>7, <1>8, <1>9, <1>10, <1>11, <1>12, <1>13,
         <1>14, <1>15, <1>16, <1>17, <1>18, <1>19, <1>20, <1>21
      DEF Editor!EditorNext, Editor!SubmitSteps, Editor!Database, Editor!Answers

LEMMA EWordsStep == EWords /\ Editor!EditorNext => EWords'
PROOF
    <1> SUFFICES ASSUME EWords, Editor!EditorNext PROVE EWords' OBVIOUS
    <1> USE DEF EWords
    <1>1. CASE \/ Editor!Open \/ Editor!ModelsRead \/ Editor!Leave \/ Editor!Unload
               \/ Editor!ClearDraft \/ Editor!Save \/ Editor!Saved \/ Editor!Cleared
               \/ Editor!Restored
      BY <1>1 DEF Editor!Open, Editor!ModelsRead, Editor!Leave, Editor!Unload, Editor!ClearDraft,
                  Editor!Save, Editor!Saved, Editor!Cleared, Editor!Restored, Editor!poolVars
    <1>2. CASE \/ Editor!UpdateFixed \/ Editor!UpdateSlot \/ Editor!AddSlot
               \/ Editor!DuplicateSlot \/ Editor!DeleteSlot
      BY <1>2 DEF Editor!UpdateFixed, Editor!UpdateSlot, Editor!AddSlot, Editor!DuplicateSlot,
                  Editor!DeleteSlot, Editor!Edited, Editor!poolVars
    <1>3. CASE \/ Editor!Submit \/ Editor!Registered \/ Editor!NotRegistered
               \/ Editor!Finalize \/ Editor!Finalized
      BY <1>3 DEF Editor!Submit, Editor!Registered, Editor!NotRegistered, Editor!Finalize,
                  Editor!Finalized, Editor!poolVars, Editor!draftPart
    <1>4. CASE \/ Editor!Take \/ Editor!Landed \/ Editor!Failed \/ Editor!Refused
               \/ Editor!GateCleared \/ Editor!ModalOpens \/ Editor!Solved \/ Editor!CalledOff
      BY <1>4 DEF Editor!Take, Editor!Landed, Editor!Failed, Editor!Refused, Editor!GateCleared,
                  Editor!ModalOpens, Editor!Solved, Editor!CalledOff, Editor!Pool, Editor!draftPart
    <1> QED
      BY <1>1, <1>2, <1>3, <1>4
      DEF Editor!EditorNext, Editor!SubmitSteps, Editor!Database, Editor!Answers

LEMMA EPoolStep == EWords /\ EDrafts /\ EPool /\ Editor!EditorNext => EPool'
PROOF
    <1> SUFFICES ASSUME EWords, EDrafts, EPool, Editor!EditorNext PROVE EPool' OBVIOUS
    <1> USE LiveNumbers
    <1>slots. prepared.slots \in Nat /\ prepared.slots <= MaxSlots
      BY DEF EDrafts, Editor!Drafts
    <1>size. \A n \in Nat : n <= MaxSlots => n \in 0..MaxSlots OBVIOUS
    <1>keep. ASSUME UNCHANGED <<todo, editorFlying, editorLanded, failed, dropped, calledOff,
                                stage, prepared>>
             PROVE  EPool'
      BY <1>keep DEF EPool
    <1>1. CASE \/ Editor!Open \/ Editor!ModelsRead \/ Editor!Leave \/ Editor!ClearDraft
               \/ Editor!Save \/ Editor!Saved \/ Editor!Cleared \/ Editor!Restored
      BY <1>1, <1>keep DEF Editor!Open, Editor!ModelsRead, Editor!Leave, Editor!ClearDraft,
                  Editor!Save, Editor!Saved, Editor!Cleared, Editor!Restored, Editor!poolVars
    <1>2. CASE \/ Editor!UpdateFixed \/ Editor!UpdateSlot \/ Editor!AddSlot
               \/ Editor!DuplicateSlot \/ Editor!DeleteSlot
      BY <1>2, <1>keep DEF Editor!UpdateFixed, Editor!UpdateSlot, Editor!AddSlot,
                  Editor!DuplicateSlot, Editor!DeleteSlot, Editor!Edited, Editor!poolVars
    <1>3. CASE Editor!Unload
      BY <1>3 DEF Editor!Unload, EPool
    <1>4. CASE Editor!Submit \/ Editor!NotRegistered
      BY <1>4 DEF Editor!Submit, Editor!NotRegistered, Editor!poolVars, EPool
    <1>5. CASE Editor!Registered
      BY <1>5, <1>slots DEF Editor!Registered, EPool
    <1>6. CASE Editor!Take
      BY <1>6, <1>slots DEF Editor!Take, Editor!Pool, EPool
    <1>7. CASE Editor!Landed
      BY <1>7, <1>slots DEF Editor!Landed, Editor!Pool, EPool
    <1>8. CASE Editor!Failed
      BY <1>8, <1>slots DEF Editor!Failed, Editor!Pool, EPool
    <1>9. CASE Editor!Refused
      BY <1>9, <1>slots DEF Editor!Refused, Editor!Pool, EPool
    <1>10. CASE Editor!GateCleared \/ Editor!ModalOpens \/ Editor!Solved
      BY <1>10, <1>keep DEF Editor!GateCleared, Editor!ModalOpens, Editor!Solved, Editor!Pool
    <1>11. CASE Editor!CalledOff
      BY <1>11, <1>slots DEF Editor!CalledOff, Editor!Pool, EPool
    <1>12. CASE Editor!Finalize
      BY <1>12 DEF Editor!Finalize, Editor!poolVars, EPool
    <1>13. CASE Editor!Finalized
      BY <1>13 DEF Editor!Finalized, EPool
    <1> QED
      BY <1>1, <1>2, <1>3, <1>4, <1>5, <1>6, <1>7, <1>8, <1>9, <1>10, <1>11, <1>12, <1>13
      DEF Editor!EditorNext, Editor!SubmitSteps, Editor!Database, Editor!Answers

-----------------------------------------------------------------------------
(* The requests at IndexedDB                                               *)

\* The writes among them, and what the last one will leave of content c.
WritesOf(q) == {i \in DOMAIN q : q[i].kind # "get"}
LastOf(T)   == CHOOSE i \in T : \A j \in T : j <= i
DueOf(q, c) == IF WritesOf(q) = {} THEN c ELSE q[LastOf(WritesOf(q))].draft

LEMMA DueIsDueOf == Editor!Due = DueOf(asks, Editor!Content)
  BY DEF Editor!Due, Editor!Writes, DueOf, WritesOf, LastOf

LEMMA LastExists ==
    ASSUME NEW n \in Nat, NEW T \in SUBSET (1 .. n), T # {}
    PROVE  LastOf(T) \in T /\ \A j \in T : j <= LastOf(T)
PROOF
    <1> DEFINE D == {n - i : i \in T}
    <1>0. \A i \in T : i \in Int /\ n - i \in Nat OBVIOUS
    <1>1. D \in SUBSET Nat /\ D # {} BY <1>0
    <1>2. PICK d \in D : \A e \in D : d <= e
      <2> HIDE DEF D
      <2> QED BY <1>1, LeastNumber
    <1>3. PICK i \in T : d = n - i BY <1>2
    <1>4. ASSUME NEW j \in T PROVE j <= i
      <2>1. n - j \in D BY DEF D
      <2>2. n - i <= n - j BY <1>2, <1>3, <2>1
      <2> QED BY <1>0, <2>2
    <1> QED BY <1>3, <1>4 DEF LastOf

\* A number that bounds the set from within it is its last.
LEMMA LastUnique ==
    ASSUME NEW T \in SUBSET Int, NEW i \in T, \A j \in T : j <= i
    PROVE  LastOf(T) = i
PROOF
    <1> DEFINE m == LastOf(T)
    <1>1. m \in T /\ \A j \in T : j <= m BY DEF LastOf
    <1> HIDE DEF m
    <1>2. i <= m /\ m <= i /\ i \in Int /\ m \in Int BY <1>1
    <1>3. m = i BY ONLY <1>2
    <1> QED BY <1>3 DEF m

LEMMA DueAppend ==
    ASSUME NEW q \in Seq(Editor!Asks), NEW a \in Editor!Asks, NEW c
    PROVE  DueOf(Append(q, a), c) = IF a.kind = "get" THEN DueOf(q, c) ELSE a.draft
PROOF
    <1> DEFINE o == Append(q, a)
    <1>1. /\ Len(q) \in Nat /\ DOMAIN q = 1 .. Len(q) /\ DOMAIN o = 1 .. Len(q) + 1
          /\ \A i \in 1 .. Len(q) : o[i] = q[i]
          /\ o[Len(q) + 1] = a
      BY AppendProperties, LenProperties
    <1> HIDE DEF o
    <1>2. CASE a.kind = "get"
      <2>1. WritesOf(o) = WritesOf(q) BY <1>1, <1>2 DEF WritesOf
      <2>2. CASE WritesOf(q) = {} BY <1>2, <2>1, <2>2 DEF DueOf, o
      <2>3. CASE WritesOf(q) # {}
        <3>1. WritesOf(q) \in SUBSET (1 .. Len(q)) BY <1>1 DEF WritesOf
        <3>2. LastOf(WritesOf(q)) \in 1 .. Len(q) BY <1>1, <3>1, <2>3, LastExists
        <3>3. DueOf(o, c) = DueOf(q, c) BY <1>1, <2>1, <2>3, <3>2 DEF DueOf
        <3> QED BY <1>2, <3>3 DEF o
      <2> QED BY <2>2, <2>3
    <1>3. CASE a.kind # "get"
      <2>1. Len(q) + 1 \in WritesOf(o) /\ WritesOf(o) \in SUBSET Int
            /\ \A j \in WritesOf(o) : j <= Len(q) + 1
        BY <1>1, <1>3 DEF WritesOf
      <2>2. LastOf(WritesOf(o)) = Len(q) + 1 BY <2>1, LastUnique
      <2>3. DueOf(o, c) = a.draft BY <1>1, <2>1, <2>2 DEF DueOf
      <2> QED BY <1>3, <2>3 DEF o
    <1> QED BY <1>2, <1>3

\* the request at the head is served
LEMMA DueTail ==
    ASSUME NEW q \in Seq(Editor!Asks), q # <<>>, NEW c
    PROVE  DueOf(q, c) = IF Head(q).kind = "get" THEN DueOf(Tail(q), c)
                         ELSE DueOf(Tail(q), Head(q).draft)
PROOF
    <1> DEFINE o == Tail(q)
    <1>1. /\ Len(q) \in Nat \ {0} /\ DOMAIN q = 1 .. Len(q) /\ DOMAIN o = 1 .. Len(q) - 1
          /\ \A i \in 1 .. Len(q) - 1 : o[i] = q[i + 1]
          /\ Head(q) = q[1]
      BY HeadTailProperties, LenProperties, EmptySeq
    <1> HIDE DEF o
    <1>2. /\ \A i \in WritesOf(o) : i \in 1 .. Len(q) - 1 /\ i + 1 \in WritesOf(q)
          /\ \A j \in WritesOf(q) : j \in 1 .. Len(q) /\ (j = 1 \/ j - 1 \in WritesOf(o))
          /\ 1 \in WritesOf(q) <=> Head(q).kind # "get"
      <2>1. \A i \in WritesOf(o) : i \in 1 .. Len(q) - 1 /\ o[i].kind # "get"
        BY <1>1 DEF WritesOf
      <2>2. \A i \in WritesOf(o) : i + 1 \in 1 .. Len(q) /\ q[i + 1].kind # "get"
        BY <1>1, <2>1
      <2>3. \A j \in WritesOf(q) : j \in 1 .. Len(q) /\ q[j].kind # "get"
        BY <1>1 DEF WritesOf
      <2>4. \A j \in 1 .. Len(q) : j = 1 \/ (j - 1 \in 1 .. Len(q) - 1 /\ o[j - 1] = q[j])
        BY <1>1
      <2>5. \A j \in WritesOf(q) : j = 1 \/ j - 1 \in WritesOf(o)
        BY <1>1, <2>3, <2>4 DEF WritesOf
      <2>6. 1 \in WritesOf(q) <=> Head(q).kind # "get" BY <1>1 DEF WritesOf
      <2> QED BY <1>1, <2>1, <2>2, <2>3, <2>5, <2>6 DEF WritesOf
    <1>3. CASE WritesOf(o) = {}
      <2>1. CASE Head(q).kind = "get"
        <3>1. WritesOf(q) = {} BY <1>2, <1>3, <2>1
        <3> QED BY <1>3, <2>1, <3>1 DEF DueOf, o
      <2>2. CASE Head(q).kind # "get"
        <3>1. WritesOf(q) = {1} BY <1>2, <1>3, <2>2
        <3>2. LastOf(WritesOf(q)) = 1 BY <3>1, LastUnique
        <3> QED BY <1>1, <1>3, <2>2, <3>1, <3>2 DEF DueOf, o
      <2> QED BY <2>1, <2>2
    <1>4. CASE WritesOf(o) # {}
      <2> DEFINE m == LastOf(WritesOf(o))
      <2>0. Len(q) - 1 \in Nat /\ WritesOf(o) \in SUBSET (1 .. Len(q) - 1) BY <1>1, <1>2
      <2>1. m \in WritesOf(o) /\ \A j \in WritesOf(o) : j <= m
        BY <2>0, <1>4, LastExists
      <2> HIDE DEF m
      <2>2. m \in 1 .. Len(q) - 1 /\ m + 1 \in WritesOf(q) BY <1>2, <2>1
      <2>3. \A j \in WritesOf(q) : j <= m + 1 BY <1>2, <2>1, <2>2
      <2>4. WritesOf(q) \in SUBSET Int BY <1>2
      <2>5. LastOf(WritesOf(q)) = m + 1 BY <2>2, <2>3, <2>4, LastUnique
      <2>6. \A d : DueOf(o, d) = o[m].draft BY <1>4 DEF DueOf, m
      <2>7. DueOf(q, c) = q[m + 1].draft BY <2>2, <2>5 DEF DueOf
      <2>8. q[m + 1] = o[m] BY <1>1, <2>2
      <2> QED BY <2>6, <2>7, <2>8 DEF o
    <1> QED BY <1>3, <1>4

LEMMA RequestAppended ==
    ASSUME NEW q \in Seq(Editor!Asks), NEW a \in Editor!Asks
    PROVE  /\ Append(q, a) \in Seq(Editor!Asks) /\ Len(Append(q, a)) = Len(q) + 1
           /\ Foreign(q) => Foreign(Append(q, a))
           /\ a.kind = "clear" /\ ~a.mine => Foreign(Append(q, a))
           /\ Emptying(q) /\ (a.kind = "clear" => a.draft = Editor!Empty) => Emptying(Append(q, a))
PROOF
    <1> DEFINE o == Append(q, a)
    <1>1. /\ o \in Seq(Editor!Asks) /\ Len(o) = Len(q) + 1 /\ Len(q) \in Nat
          /\ DOMAIN q = 1 .. Len(q) /\ DOMAIN o = 1 .. Len(q) + 1
          /\ \A i \in 1 .. Len(q) : o[i] = q[i]
          /\ o[Len(q) + 1] = a
      BY AppendProperties, LenProperties
    <1> HIDE DEF o
    <1>2. Foreign(q) => Foreign(o) BY <1>1 DEF Foreign
    <1>3. a.kind = "clear" /\ ~a.mine => Foreign(o)
      <2>1. Len(q) + 1 \in DOMAIN o BY <1>1
      <2> QED BY <1>1, <2>1, Zenon DEF Foreign
    <1>4. Emptying(q) /\ (a.kind = "clear" => a.draft = Editor!Empty) => Emptying(o)
      <2>1. \A i \in DOMAIN o : i \in DOMAIN q \/ i = Len(q) + 1 BY <1>1
      <2> QED BY <1>1, <2>1 DEF Emptying
    <1> QED BY <1>1, <1>2, <1>3, <1>4 DEF o

LEMMA RequestServed ==
    ASSUME NEW q \in Seq(Editor!Asks), q # <<>>
    PROVE  /\ Tail(q) \in Seq(Editor!Asks) /\ Len(Tail(q)) = Len(q) - 1
           /\ Head(q) \in Editor!Asks
           /\ Foreign(q) => Foreign(Tail(q)) \/ (Head(q).kind = "clear" /\ ~Head(q).mine)
           /\ Emptying(q) => Emptying(Tail(q))
                             /\ (Head(q).kind = "clear" => Head(q).draft = Editor!Empty)
PROOF
    <1> DEFINE o == Tail(q)
    <1>1. /\ o \in Seq(Editor!Asks) /\ Len(o) = Len(q) - 1 /\ Len(q) \in Nat \ {0}
          /\ DOMAIN q = 1 .. Len(q) /\ DOMAIN o = 1 .. Len(q) - 1
          /\ \A i \in 1 .. Len(q) - 1 : o[i] = q[i + 1]
          /\ Head(q) = q[1] /\ Head(q) \in Editor!Asks
      BY HeadTailProperties, LenProperties, EmptySeq
    <1> HIDE DEF o
    <1>2. \A j \in DOMAIN q : j = 1 \/ (j - 1 \in DOMAIN o /\ o[j - 1] = q[j]) BY <1>1
    <1>3. \A i \in DOMAIN o : i + 1 \in DOMAIN q /\ o[i] = q[i + 1] BY <1>1
    <1>4. Foreign(q) => Foreign(o) \/ (Head(q).kind = "clear" /\ ~Head(q).mine)
      BY <1>1, <1>2 DEF Foreign
    <1>5. 1 \in DOMAIN q BY <1>1
    <1>6. Emptying(q) => Emptying(o) BY <1>3 DEF Emptying
    <1>7. Emptying(q) => (Head(q).kind = "clear" => Head(q).draft = Editor!Empty)
      BY <1>1, <1>5 DEF Emptying
    <1> QED BY <1>1, <1>4, <1>6, <1>7 DEF o

\* a page that goes disowns its requests, of which the first n survive
LEMMA RequestsDisowned ==
    ASSUME NEW q \in Seq(Editor!Asks), NEW n \in 0 .. Len(q)
    PROVE  LET o == [i \in 1 .. n |-> [q[i] EXCEPT !.mine = FALSE]] IN
           /\ o \in Seq(Editor!Asks) /\ Len(o) = n
           /\ Emptying(q) => Emptying(o)
PROOF
    <1> DEFINE o == [i \in 1 .. n |-> [q[i] EXCEPT !.mine = FALSE]]
    <1>1. Len(q) \in Nat /\ n \in Nat /\ DOMAIN q = 1 .. Len(q) BY LenProperties
    <1>2. \A i \in 1 .. n : i \in DOMAIN q /\ q[i] \in Editor!Asks BY <1>1, ElementOfSeq
    <1>3. \A i \in 1 .. n : /\ [q[i] EXCEPT !.mine = FALSE] \in Editor!Asks
                            /\ [q[i] EXCEPT !.mine = FALSE].kind = q[i].kind
                            /\ [q[i] EXCEPT !.mine = FALSE].draft = q[i].draft
      BY <1>2 DEF Editor!Asks
    <1>4. o \in Seq(Editor!Asks) /\ Len(o) = n BY <1>1, <1>3, IsASeq
    <1>5. Emptying(q) => Emptying(o) BY <1>2, <1>3 DEF Emptying
    <1> QED BY <1>4, <1>5

\* what the last write will leave is a draft
LEMMA DueIsDraft ==
    ASSUME EDrafts
    PROVE  Editor!Due \in Editor!Drafts
PROOF
    <1> USE LiveNumbers
    <1>1. Editor!Content \in Editor!Drafts
      BY DEF EDrafts, Editor!Content, Editor!Empty, Editor!Drafts
    <1>2. Len(asks) \in Nat /\ DOMAIN asks = 1 .. Len(asks) BY LenProperties DEF EDrafts
    <1>3. CASE WritesOf(asks) = {} BY <1>1, <1>3, DueIsDueOf DEF DueOf
    <1>4. CASE WritesOf(asks) # {}
      <2>1. WritesOf(asks) \in SUBSET (1 .. Len(asks)) BY <1>2 DEF WritesOf
      <2>2. LastOf(WritesOf(asks)) \in DOMAIN asks BY <1>2, <2>1, <1>4, LastExists
      <2>3. asks[LastOf(WritesOf(asks))] \in Editor!Asks BY <1>2, <2>2, ElementOfSeq DEF EDrafts
      <2> QED BY <1>4, <2>3, DueIsDueOf DEF DueOf, Editor!Asks
    <1> QED BY <1>3, <1>4

\* a page that asks for something puts its request in line
LEMMA AskAppends ==
    ASSUME EDrafts, NEW kind \in {"put", "get", "clear"}, NEW draft \in Editor!Drafts,
           NEW mine \in BOOLEAN, Len(asks) < MaxAsks,
           asks' = Append(asks, [kind |-> kind, draft |-> draft, mine |-> mine])
    PROVE  /\ asks' \in Seq(Editor!Asks) /\ Len(asks') <= MaxAsks
           /\ Foreign(asks) => Foreign(asks')
           /\ kind = "clear" /\ ~mine => Foreign(asks')
           /\ Emptying(asks) /\ (kind = "clear" => draft = Editor!Empty) => Emptying(asks')
           /\ \A c : DueOf(asks', c) = IF kind = "get" THEN DueOf(asks, c) ELSE draft
PROOF
    <1> DEFINE a == [kind |-> kind, draft |-> draft, mine |-> mine]
    <1>1. a \in Editor!Asks BY DEF Editor!Asks
    <1>2. a.kind = kind /\ a.draft = draft /\ a.mine = mine OBVIOUS
    <1>3. asks' = Append(asks, a) OBVIOUS
    <1> HIDE DEF a
    <1>4. asks \in Seq(Editor!Asks) /\ Len(asks) \in Nat BY LenProperties DEF EDrafts
    <1>5. Len(asks') = Len(asks) + 1 /\ asks' \in Seq(Editor!Asks)
      BY <1>1, <1>3, <1>4, RequestAppended
    <1>6. /\ Foreign(asks) => Foreign(asks')
          /\ kind = "clear" /\ ~mine => Foreign(asks')
          /\ Emptying(asks) /\ (kind = "clear" => draft = Editor!Empty) => Emptying(asks')
      BY <1>1, <1>2, <1>3, <1>4, RequestAppended
    <1>7. \A c : DueOf(asks', c) = IF kind = "get" THEN DueOf(asks, c) ELSE draft
      BY <1>1, <1>2, <1>3, <1>4, DueAppend
    <1>8. Len(asks') <= MaxAsks BY <1>4, <1>5, LiveNumbers
    <1> QED BY <1>5, <1>6, <1>7, <1>8

LEMMA EDraftsStep == EFlags /\ EDrafts /\ Editor!EditorNext => EDrafts'
PROOF
    <1> SUFFICES ASSUME EFlags, EDrafts, Editor!EditorNext PROVE EDrafts' OBVIOUS
    <1> USE LiveNumbers
    <1>em. Editor!Empty \in Editor!Drafts BY DEF Editor!Empty, Editor!Drafts
    <1>fm. form \in Editor!Drafts /\ form.slots \in 0 .. MaxSlots BY DEF EDrafts, Editor!Drafts
    <1>edit. ASSUME NEW n \in 0 .. MaxSlots, Editor!Edited(n) PROVE EDrafts'
      <2>1. form' \in Editor!Drafts BY <1>edit DEF Editor!Edited, Editor!Drafts, EDrafts
      <2> QED BY <2>1, <1>edit DEF Editor!Edited, EDrafts
    <1>ask. ASSUME NEW kind \in {"put", "get", "clear"}, NEW draft \in Editor!Drafts,
                   Editor!Ask(kind, draft)
            PROVE  asks' \in Seq(Editor!Asks) /\ Len(asks') <= MaxAsks
      BY <1>ask, AskAppends DEF Editor!Ask
    <1>served. ASSUME asks # <<>>, asks' = Tail(asks)
               PROVE  /\ asks' \in Seq(Editor!Asks) /\ Len(asks') <= MaxAsks
                      /\ Head(asks).draft \in Editor!Drafts
      <2>1. asks \in Seq(Editor!Asks) /\ Len(asks) \in Nat BY LenProperties DEF EDrafts
      <2>2. /\ Tail(asks) \in Seq(Editor!Asks) /\ Len(Tail(asks)) = Len(asks) - 1
            /\ Head(asks) \in Editor!Asks
        BY <1>served, <2>1, RequestServed
      <2>3. Head(asks).draft \in Editor!Drafts BY <2>2 DEF Editor!Asks
      <2> QED BY <1>served, <2>1, <2>2, <2>3 DEF EDrafts
    <1>gone. ASSUME NEW n \in 0 .. Len(asks),
                    asks' = [i \in 1 .. n |-> [asks[i] EXCEPT !.mine = FALSE]]
             PROVE  asks' \in Seq(Editor!Asks) /\ Len(asks') <= MaxAsks
      <2>1. asks \in Seq(Editor!Asks) /\ Len(asks) \in Nat BY LenProperties DEF EDrafts
      <2>2. asks' \in Seq(Editor!Asks) /\ Len(asks') = n
        BY <1>gone, <2>1, RequestsDisowned
      <2> QED BY <2>1, <2>2 DEF EDrafts
    <1>1. CASE Editor!Open
      <2>1. atMount' \in Editor!Drafts BY <1>1, DueIsDraft DEF Editor!Open
      <2> QED BY <1>1, <2>1, <1>em DEF Editor!Open, Editor!poolVars, EDrafts
    <1>2. CASE Editor!ModelsRead
      <2>1. asks' \in Seq(Editor!Asks) /\ Len(asks') <= MaxAsks
        BY <1>2, <1>em, <1>ask DEF Editor!ModelsRead
      <2> QED BY <1>2, <2>1 DEF Editor!ModelsRead, Editor!poolVars, EDrafts
    <1>3. CASE Editor!Leave
      <2>1. Len(asks) \in Nat /\ DOMAIN asks = 1 .. Len(asks) BY LenProperties DEF EDrafts
      <2>2. asks' = [i \in 1 .. Len(asks) |-> [asks[i] EXCEPT !.mine = FALSE]]
        BY <1>3, <2>1 DEF Editor!Leave
      <2>3. asks' \in Seq(Editor!Asks) /\ Len(asks') <= MaxAsks BY <2>1, <2>2, <1>gone
      <2> QED BY <1>3, <2>3 DEF Editor!Leave, Editor!poolVars, EDrafts
    <1>4. CASE Editor!Unload
      <2>1. PICK n \in 0 .. Len(asks) :
                asks' = [i \in 1 .. n |-> [asks[i] EXCEPT !.mine = FALSE]]
        BY <1>4 DEF Editor!Unload
      <2>2. asks' \in Seq(Editor!Asks) /\ Len(asks') <= MaxAsks BY <2>1, <1>gone
      <2> QED BY <1>4, <2>2, <1>em DEF Editor!Unload, EDrafts
    <1>5. CASE Editor!UpdateFixed BY <1>5, <1>edit, <1>fm DEF Editor!UpdateFixed
    <1>6. CASE Editor!UpdateSlot BY <1>6, <1>edit, <1>fm DEF Editor!UpdateSlot
    <1>7. CASE Editor!AddSlot
      <2>1. form.slots + 1 \in 0 .. MaxSlots BY <1>7, <1>fm DEF Editor!AddSlot
      <2> QED BY <1>7, <2>1, <1>edit DEF Editor!AddSlot
    <1>8. CASE Editor!DuplicateSlot
      <2>1. form.slots + 1 \in 0 .. MaxSlots BY <1>8, <1>fm DEF Editor!DuplicateSlot
      <2> QED BY <1>8, <2>1, <1>edit DEF Editor!DuplicateSlot
    <1>9. CASE Editor!DeleteSlot
      <2>1. form.slots - 1 \in 0 .. MaxSlots BY <1>9, <1>fm DEF Editor!DeleteSlot
      <2> QED BY <1>9, <2>1, <1>edit DEF Editor!DeleteSlot
    <1>10. CASE Editor!ClearDraft
      <2>1. asks' \in Seq(Editor!Asks) /\ Len(asks') <= MaxAsks
        BY <1>10, <1>em, <1>ask DEF Editor!ClearDraft
      <2> QED BY <1>10, <2>1, <1>em DEF Editor!ClearDraft, Editor!poolVars, EDrafts
    <1>11. CASE Editor!Save
      <2>1. asks' \in Seq(Editor!Asks) /\ Len(asks') <= MaxAsks
        BY <1>11, <1>fm, <1>ask DEF Editor!Save
      <2> QED BY <1>11, <2>1 DEF Editor!Save, Editor!poolVars, EDrafts
    <1>12. CASE Editor!Saved \/ Editor!Cleared \/ Editor!Restored
      <2>1. asks # <<>> /\ asks' = Tail(asks)
        BY <1>12 DEF Editor!Saved, Editor!Cleared, Editor!Restored
      <2>2. stored' \in Editor!Drafts \cup {Editor!None}
        BY <1>12, <2>1, <1>served DEF Editor!Saved, Editor!Cleared, Editor!Restored, EDrafts
      <2>3. form' = form \/ (form' = stored /\ stored # Editor!None)
        BY <1>12 DEF Editor!Saved, Editor!Cleared, Editor!Restored
      <2>4. UNCHANGED <<prepared, atMount, edits>>
        BY <1>12 DEF Editor!Saved, Editor!Cleared, Editor!Restored
      <2>5. form' \in Editor!Drafts BY <2>3 DEF EDrafts
      <2> QED BY <2>1, <2>2, <2>4, <2>5, <1>served DEF EDrafts
    <1>13. CASE Editor!Submit \/ Editor!NotRegistered \/ Editor!Finalize \/ Editor!Finalized
      BY <1>13, <1>em DEF Editor!Submit, Editor!NotRegistered, Editor!Finalize,
                          Editor!Finalized, Editor!poolVars, Editor!draftPart, EDrafts
    <1>14. CASE Editor!Registered
      <2>1. (~orphan) \in BOOLEAN BY Zenon
      <2>2. asks' \in Seq(Editor!Asks) /\ Len(asks') <= MaxAsks
        BY <1>14, <2>1, <1>em, AskAppends DEF Editor!Registered
      <2>3. form' \in Editor!Drafts BY <1>14, <1>em, <1>fm DEF Editor!Registered
      <2> QED BY <1>14, <2>2, <2>3 DEF Editor!Registered, EDrafts
    <1>15. CASE \/ Editor!Take \/ Editor!Landed \/ Editor!Failed \/ Editor!Refused
                \/ Editor!GateCleared \/ Editor!ModalOpens \/ Editor!Solved \/ Editor!CalledOff
      <2>1. Editor!Pool
        BY <1>15 DEF Editor!Take, Editor!Landed, Editor!Failed, Editor!Refused,
                  Editor!GateCleared, Editor!ModalOpens, Editor!Solved, Editor!CalledOff
      <2> QED BY <2>1 DEF Editor!Pool, Editor!draftPart, EDrafts
    <1> QED
      BY <1>1, <1>2, <1>3, <1>4, <1>5, <1>6, <1>7, <1>8, <1>9, <1>10, <1>11, <1>12, <1>13,
         <1>14, <1>15
      DEF Editor!EditorNext, Editor!SubmitSteps, Editor!Database, Editor!Answers

LEMMA EQuietStep == EditorInv /\ Editor!EditorNext => EQuiet'
PROOF
    <1> SUFFICES ASSUME EditorInv, Editor!EditorNext PROVE EQuiet' OBVIOUS
    <1> USE LiveNumbers
    <1>inv. EDrafts /\ EFlags /\ EQuiet BY DEF EditorInv
    <1>ty. asks \in Seq(Editor!Asks) /\ Len(asks) \in Nat /\ DOMAIN asks = 1 .. Len(asks)
      BY <1>inv, LenProperties DEF EDrafts
    <1>em. Editor!Empty \in Editor!Drafts BY DEF Editor!Empty, Editor!Drafts
    <1>fm. form \in Editor!Drafts BY <1>inv DEF EDrafts
    <1>due. Editor!Due = DueOf(asks, Editor!Content) /\ Editor!Due' = DueOf(asks', Editor!Content')
      BY DueIsDueOf DEF Editor!Due, Editor!Writes, DueOf, WritesOf, LastOf, Editor!Content
    <1>keep. ASSUME UNCHANGED <<mounted, saving, wiped, asks, stored, form>> PROVE EQuiet'
      BY <1>keep, <1>inv DEF EQuiet, Editor!Due, Editor!Writes, Editor!Content
    <1>armed. ASSUME Emptying(asks'), saving' \/ ~mounted' PROVE EQuiet'
      BY <1>armed DEF EQuiet
    <1>ask. ASSUME NEW kind \in {"put", "get", "clear"}, NEW draft \in Editor!Drafts,
                   Editor!Ask(kind, draft), kind = "clear" => draft = Editor!Empty
            PROVE  /\ Emptying(asks')
                   /\ Foreign(asks) => Foreign(asks')
                   /\ \A c : DueOf(asks', c) = IF kind = "get" THEN DueOf(asks, c) ELSE draft
      BY <1>ask, <1>inv, AskAppends DEF Editor!Ask, EQuiet
    <1>served. ASSUME asks # <<>>, asks' = Tail(asks)
               PROVE  /\ Emptying(asks') /\ Head(asks) \in Editor!Asks
                      /\ Head(asks).kind = "clear" => Head(asks).draft = Editor!Empty
                      /\ Foreign(asks) => Foreign(asks')
                                           \/ (Head(asks).kind = "clear" /\ ~Head(asks).mine)
                      /\ \A c : DueOf(asks, c) = IF Head(asks).kind = "get" THEN DueOf(asks', c)
                                                  ELSE DueOf(asks', Head(asks).draft)
      BY <1>served, <1>inv, <1>ty, RequestServed, DueTail DEF EQuiet
    <1>gone. ASSUME NEW n \in 0 .. Len(asks),
                    asks' = [i \in 1 .. n |-> [asks[i] EXCEPT !.mine = FALSE]]
             PROVE  Emptying(asks')
      BY <1>gone, <1>inv, <1>ty, RequestsDisowned DEF EQuiet
    <1>1. CASE Editor!Open
      <2>1. saving' /\ asks' = asks BY <1>1 DEF Editor!Open
      <2> QED BY <2>1, <1>armed, <1>inv DEF EQuiet
    <1>2. CASE Editor!ModelsRead
      <2>1. UNCHANGED <<mounted, saving, wiped, stored, form>> /\ Editor!Ask("get", Editor!Empty)
        BY <1>2 DEF Editor!ModelsRead
      <2>2. Emptying(asks') /\ (Foreign(asks) => Foreign(asks'))
            /\ \A c : DueOf(asks', c) = DueOf(asks, c)
        BY <2>1, <1>ask, <1>em
      <2>3. Editor!Content' = Editor!Content BY <2>1 DEF Editor!Content
      <2> QED BY <2>1, <2>2, <2>3, <1>due, <1>inv DEF EQuiet
    <1>3. CASE Editor!Leave
      <2>1. asks' = [i \in 1 .. Len(asks) |-> [asks[i] EXCEPT !.mine = FALSE]] /\ ~mounted'
        BY <1>3, <1>ty DEF Editor!Leave
      <2>2. Len(asks) \in 0 .. Len(asks) BY <1>ty
      <2>3. Emptying(asks') BY <2>1, <2>2, <1>gone
      <2> QED BY <2>1, <2>3, <1>armed
    <1>4. CASE Editor!Unload
      <2>1. PICK n \in 0 .. Len(asks) :
                asks' = [i \in 1 .. n |-> [asks[i] EXCEPT !.mine = FALSE]]
        BY <1>4 DEF Editor!Unload
      <2>2. Emptying(asks') BY <2>1, <1>gone
      <2> QED BY <1>4, <2>2, <1>armed DEF Editor!Unload
    <1>5. CASE \/ Editor!UpdateFixed \/ Editor!UpdateSlot \/ Editor!AddSlot
               \/ Editor!DuplicateSlot \/ Editor!DeleteSlot
      <2>1. saving' /\ asks' = asks
        BY <1>5 DEF Editor!UpdateFixed, Editor!UpdateSlot, Editor!AddSlot,
                    Editor!DuplicateSlot, Editor!DeleteSlot, Editor!Edited
      <2> QED BY <2>1, <1>armed, <1>inv DEF EQuiet
    <1>6. CASE Editor!ClearDraft
      <2>1. saving' /\ Editor!Ask("clear", Editor!Empty) BY <1>6 DEF Editor!ClearDraft
      <2>2. Emptying(asks') BY <2>1, <1>ask, <1>em
      <2> QED BY <2>1, <2>2, <1>armed
    <1>7. CASE Editor!Save
      <2>1. UNCHANGED form /\ Editor!Ask("put", form) BY <1>7 DEF Editor!Save
      <2>2. Emptying(asks') /\ \A c : DueOf(asks', c) = form
        BY <2>1, <1>ask, <1>fm
      <2> QED BY <2>1, <2>2, <1>due DEF EQuiet
    <1>8. CASE Editor!Saved
      <2>1. asks # <<>> /\ asks' = Tail(asks) /\ Head(asks).kind = "put"
            /\ stored' = Head(asks).draft /\ UNCHANGED <<mounted, saving, wiped, form>>
        BY <1>8 DEF Editor!Saved
      <2>2. Head(asks).draft \in Editor!Drafts BY <2>1, <1>served DEF Editor!Asks
      <2>3. Head(asks).draft # Editor!None BY <2>2 DEF Editor!Drafts, Editor!None
      <2>4. Editor!Content' = Head(asks).draft BY <2>1, <2>3 DEF Editor!Content, Editor!None
      <2>5. Editor!Due' = Editor!Due BY <2>1, <2>4, <1>due, <1>served
      <2> QED BY <2>1, <2>5, <1>served, <1>inv DEF EQuiet
    <1>9. CASE Editor!Cleared
      <2>1. asks # <<>> /\ asks' = Tail(asks) /\ Head(asks).kind = "clear"
            /\ stored' = Editor!None /\ UNCHANGED <<mounted, saving, form>>
        BY <1>9 DEF Editor!Cleared
      <2>2. wiped' = (wiped \/ ~Head(asks).mine) BY <1>9 DEF Editor!Cleared
      <2>3. Editor!Content' = Editor!Empty BY <2>1 DEF Editor!Content, Editor!None
      <2>4. Editor!Due' = Editor!Due BY <2>1, <2>3, <1>due, <1>served
      <2> QED BY <2>1, <2>2, <2>4, <1>served, <1>inv DEF EQuiet
    <1>10. CASE Editor!Restored
      <2>1. asks # <<>> /\ asks' = Tail(asks) /\ Head(asks).kind = "get"
            /\ UNCHANGED <<mounted, wiped, stored>>
        BY <1>10 DEF Editor!Restored
      <2>2. saving' = TRUE \/ UNCHANGED <<form, saving>> BY <1>10 DEF Editor!Restored
      <2>3. CASE saving' = TRUE BY <2>1, <2>3, <1>served, <1>armed
      <2>4. CASE UNCHANGED <<form, saving>>
        <3>1. Editor!Content' = Editor!Content BY <2>1 DEF Editor!Content
        <3>2. Editor!Due' = Editor!Due BY <2>1, <3>1, <1>due, <1>served
        <3> QED BY <2>1, <2>4, <3>2, <1>served, <1>inv DEF EQuiet
      <2> QED BY <2>2, <2>3, <2>4
    <1>11. CASE Editor!Submit \/ Editor!NotRegistered \/ Editor!Finalize \/ Editor!Finalized
      BY <1>11, <1>keep DEF Editor!Submit, Editor!NotRegistered, Editor!Finalize,
                          Editor!Finalized, Editor!draftPart
    <1>12. CASE Editor!Registered
      <2>1. (~orphan) \in BOOLEAN BY Zenon
      <2>2. Emptying(asks') /\ (orphan => Foreign(asks'))
        <3>1. Len(asks) < MaxAsks
              /\ asks' = Append(asks, [kind |-> "clear", draft |-> Editor!Empty, mine |-> ~orphan])
          BY <1>12 DEF Editor!Registered
        <3> QED BY <2>1, <3>1, <1>em, <1>inv, AskAppends DEF EQuiet
      <2>3. CASE orphan
        <3>1. UNCHANGED <<mounted, wiped>> BY <1>12 DEF Editor!Registered
        <3> QED BY <2>2, <2>3 DEF EQuiet
      <2>4. CASE ~orphan
        <3>1. saving' BY <1>12, <2>4 DEF Editor!Registered
        <3> QED BY <2>2, <3>1, <1>armed
      <2> QED BY <2>3, <2>4
    <1>13. CASE \/ Editor!Take \/ Editor!Landed \/ Editor!Failed \/ Editor!Refused
                \/ Editor!GateCleared \/ Editor!ModalOpens \/ Editor!Solved \/ Editor!CalledOff
      <2>1. Editor!Pool
        BY <1>13 DEF Editor!Take, Editor!Landed, Editor!Failed, Editor!Refused,
                  Editor!GateCleared, Editor!ModalOpens, Editor!Solved, Editor!CalledOff
      <2> QED BY <2>1, <1>keep DEF Editor!Pool, Editor!draftPart
    <1> QED
      BY <1>1, <1>2, <1>3, <1>4, <1>5, <1>6, <1>7, <1>8, <1>9, <1>10, <1>11, <1>12, <1>13
      DEF Editor!EditorNext, Editor!SubmitSteps, Editor!Database, Editor!Answers

LEMMA EditorStep ==
    ASSUME EditorInv, Editor!EditorNext \/ UNCHANGED editorVars
    PROVE  EditorInv'
PROOF
    <1>1. CASE Editor!EditorNext
      BY <1>1, EFlagsStep, EWordsStep, EDraftsStep, EPoolStep, EQuietStep DEF EditorInv
    <1>2. CASE UNCHANGED editorVars
      <2>1. EFlags' BY <1>2, Zenon DEF editorVars, EditorInv, EFlags
      <2>2. EWords' /\ EDrafts' BY <1>2 DEF editorVars, EditorInv, EWords, EDrafts
      <2>3. EPool' BY <1>2 DEF editorVars, EditorInv, EPool
      <2>4. EQuiet'
        BY <1>2 DEF editorVars, EditorInv, EQuiet, Editor!Due, Editor!Writes, Editor!Content
      <2> QED BY <2>1, <2>2, <2>3, <2>4 DEF EditorInv
    <1> QED BY <1>1, <1>2

-----------------------------------------------------------------------------
(* The workers of one press                                                *)

FFlags ==
    /\ paused \in BOOLEAN /\ asking \in BOOLEAN /\ gateBusy \in BOOLEAN /\ gone \in BOOLEAN
    /\ withdrawn \in BOOLEAN

FTypes ==
    /\ fanQueue \in Seq(1 .. TaskCount)
    /\ at \in [PoolWorkers -> Fanout!Waits] /\ hand \in [PoolWorkers -> 0 .. TaskCount]
    /\ sentToken \in [PoolWorkers -> 0 .. MaxRefusals + 1]
    /\ modal \in PoolWorkers \cup {"none"}
    /\ fanoutLanded \subseteq 1 .. TaskCount /\ lost \subseteq 1 .. TaskCount
    /\ firstError \in {"none", "other", "cancelled"}
    /\ outcome \in {"idle", "running", "archive", "partial", "failed"}
    /\ refusals \in 0 .. MaxRefusals

\* A task is in the queue, in one hand, landed or lost.
FPlaces ==
    /\ Once(fanQueue)
    /\ \A w \in PoolWorkers : hand[w] # 0 <=> at[w] = "post"
    /\ \A w, v \in PoolWorkers : hand[w] = hand[v] /\ hand[w] # 0 => w = v
    /\ \A w \in PoolWorkers : hand[w] \notin ToSet(fanQueue) \cup fanoutLanded \cup lost
    /\ \A t \in fanoutLanded : t \notin lost /\ t \notin ToSet(fanQueue)
    /\ \A t \in lost : t \notin ToSet(fanQueue)
    /\ gone \/ \A t \in 1 .. TaskCount :
                  \/ t \in ToSet(fanQueue) \/ t \in fanoutLanded \/ t \in lost
                  \/ \E w \in PoolWorkers : hand[w] = t

\* While the pool pauses, one worker asks the gate, or its modal is open.
Asks(w) == at[w] \in {"precheck", "modal"}
FLatch ==
    /\ asking <=> paused
    /\ asking <=> \E w \in PoolWorkers : Asks(w)
    /\ \A w, v \in PoolWorkers : Asks(w) /\ Asks(v) => w = v
    /\ \A w \in PoolWorkers : at[w] = "modal" <=> modal = w

\* A token is parked before it is spent, and earned by a refusal.
FTokens ==
    /\ tokens \in Nat /\ parked \in Nat /\ parked <= tokens
    /\ spent \in [1 .. MaxRefusals + 1 -> 0 .. 1]
    /\ \A k \in 1 .. MaxRefusals + 1 : k > tokens \/ k = parked => spent[k] = 0
    /\ tokens <= refusals + 1 /\ (asking => tokens <= refusals)

FReport ==
    /\ outcome = "idle" => tokens = 0 /\ \A w \in PoolWorkers : at[w] = "loop"
    /\ outcome \in {"archive", "partial", "failed"} => \A w \in PoolWorkers : at[w] = "done"
    /\ progress \in Nat /\ progress <= Cardinality(fanoutLanded) + Cardinality(lost)
    /\ (\A w \in PoolWorkers : at[w] = "done") => gone \/ fanQueue = <<>>
    /\ lost # {} \/ gone => firstError # "none"
    /\ Fanout!ReportIsTruthful

FanInv == FFlags /\ FTypes /\ FPlaces /\ FLatch /\ FTokens /\ FReport

\* the head of a list given back
LEMMA PushOnce ==
    ASSUME NEW S, NEW s \in Seq(S), NEW e \in S, e \notin ToSet(s), Once(s)
    PROVE  /\ <<e>> \o s \in Seq(S) /\ <<e>> \o s # <<>> /\ Once(<<e>> \o s)
           /\ ToSet(<<e>> \o s) = ToSet(s) \cup {e}
PROOF
    <1> DEFINE o == <<e>> \o s
    <1>1. /\ o \in Seq(S) /\ Len(o) = Len(s) + 1 /\ Len(s) \in Nat
          /\ o[1] = e
          /\ \A i \in 1 .. Len(o) : i = 1 \/ (i - 1 \in 1 .. Len(s) /\ o[i] = s[i - 1])
      <2>1. <<e>> \in Seq(S) /\ Len(<<e>>) = 1 /\ <<e>>[1] = e OBVIOUS
      <2>2. Len(s) \in Nat BY LenProperties
      <2>3. o \in Seq(S) /\ Len(o) = 1 + Len(s)
            /\ \A i \in 1 .. 1 + Len(s) : o[i] = IF i <= 1 THEN <<e>>[i] ELSE s[i - 1]
        BY <2>1, ConcatProperties
      <2> HIDE DEF o
      <2> QED BY <2>1, <2>2, <2>3
    <1> HIDE DEF o
    <1>2. o # <<>> BY <1>1, EmptySeq
    <1>3. \A i \in 1 .. Len(s) : s[i] # e BY ElementsAt
    <1>4. Once(o)
      <2> SUFFICES ASSUME NEW i \in 1 .. Len(o), NEW j \in 1 .. Len(o), o[i] = o[j] PROVE i = j
        BY DEF Once
      <2>1. CASE i = 1 \/ j = 1 BY <1>1, <1>3, <2>1
      <2>2. CASE i # 1 /\ j # 1
        <3>1. i - 1 \in 1 .. Len(s) /\ j - 1 \in 1 .. Len(s) /\ s[i - 1] = s[j - 1] BY <1>1, <2>2
        <3>2. i - 1 = j - 1 BY <3>1 DEF Once
        <3> QED BY <3>2
      <2> QED BY <2>1, <2>2
    <1>5. ASSUME NEW x PROVE x \in ToSet(o) <=> x \in ToSet(s) \cup {e}
      <2>1. /\ x \in ToSet(o) <=> \E i \in 1 .. Len(o) : o[i] = x
            /\ x \in ToSet(s) <=> \E i \in 1 .. Len(s) : s[i] = x
        BY <1>1, ElementsAt
      <2>2. ASSUME NEW i \in 1 .. Len(s), s[i] = x PROVE x \in ToSet(o)
        <3>1. i + 1 \in 1 .. Len(o) /\ i + 1 # 1 /\ (i + 1) - 1 = i BY <1>1
        <3>2. o[i + 1] = x BY <1>1, <2>2, <3>1
        <3> QED BY <2>1, <3>1, <3>2
      <2>3. 1 \in 1 .. Len(o) BY <1>1
      <2>4. x = e => x \in ToSet(o) BY <1>1, <2>1, <2>3
      <2> QED BY <1>1, <2>1, <2>2, <2>4
    <1> QED BY <1>1, <1>2, <1>4, <1>5 DEF o

LEMMA FFlagsStep == FFlags /\ Fanout!FanoutNext => FFlags'
PROOF
    <1> SUFFICES ASSUME FFlags, Fanout!FanoutNext PROVE FFlags' OBVIOUS
    <1> USE DEF FFlags
    <1>1. CASE Fanout!Press BY <1>1, Zenon DEF Fanout!Press
    <1>2. CASE Fanout!Solve BY <1>2, Zenon DEF Fanout!Solve, Fanout!Resume
    <1>3. CASE Fanout!Withdraw BY <1>3, Zenon DEF Fanout!Withdraw, Fanout!Resume
    <1>4. CASE Fanout!Report BY <1>4, Zenon DEF Fanout!Report
    <1>5. ASSUME NEW w \in PoolWorkers, Fanout!WorkerStep(w) PROVE FFlags'
      <2>1. CASE Fanout!Refused(w)
        <3>1. CASE asking BY <2>1, <3>1, Zenon DEF Fanout!Refused
        <3>2. CASE ~asking BY <2>1, <3>2, Zenon DEF Fanout!Refused
        <3> QED BY <3>1, <3>2
      <2>2. CASE Fanout!GateCleared(w) BY <2>2, Zenon DEF Fanout!GateCleared, Fanout!Resume
      <2>3. CASE Fanout!Take(w) BY <2>3, Zenon DEF Fanout!Take
      <2>4. CASE Fanout!WorkerEnds(w) BY <2>4, Zenon DEF Fanout!WorkerEnds
      <2>5. CASE Fanout!Created(w) BY <2>5, Zenon DEF Fanout!Created
      <2>6. CASE Fanout!Rejected(w) BY <2>6, Zenon DEF Fanout!Rejected
      <2>7. CASE Fanout!ModalOpens(w) BY <2>7, Zenon DEF Fanout!ModalOpens
      <2>8. CASE Fanout!Paced(w) BY <2>8, Zenon DEF Fanout!Paced
      <2> QED BY <1>5, <2>1, <2>2, <2>3, <2>4, <2>5, <2>6, <2>7, <2>8
              DEF Fanout!WorkerStep, Fanout!Answer
    <1> QED BY <1>1, <1>2, <1>3, <1>4, <1>5 DEF Fanout!FanoutNext

\* the queue after a task is taken, and after one is given back
LEMMA QueueTaken ==
    ASSUME FTypes, FPlaces, NEW w \in PoolWorkers, Fanout!Take(w)
    PROVE  /\ fanQueue' \in Seq(1 .. TaskCount) /\ Once(fanQueue')
           /\ Head(fanQueue) \in ToSet(fanQueue) /\ Head(fanQueue) \in 1 .. TaskCount
           /\ ToSet(fanQueue') = ToSet(fanQueue) \ {Head(fanQueue)}
PROOF
    <1>1. fanQueue \in Seq(1 .. TaskCount) /\ Once(fanQueue) /\ fanQueue # <<>>
          /\ fanQueue' = Tail(fanQueue)
      BY DEF FTypes, FPlaces, Fanout!Take
    <1>2. ToSet(fanQueue) \subseteq 1 .. TaskCount BY <1>1, ElementsAt
    <1> QED BY <1>1, <1>2, TailOnce

LEMMA QueueGivenBack ==
    ASSUME FTypes, FPlaces, NEW w \in PoolWorkers, Fanout!Refused(w)
    PROVE  /\ fanQueue' \in Seq(1 .. TaskCount) /\ Once(fanQueue') /\ fanQueue' # <<>>
           /\ hand[w] \in 1 .. TaskCount
           /\ ToSet(fanQueue') = ToSet(fanQueue) \cup {hand[w]}
PROOF
    <1> USE LiveNumbers
    <1>1. fanQueue \in Seq(1 .. TaskCount) /\ Once(fanQueue) /\ hand[w] \notin ToSet(fanQueue)
          /\ fanQueue' = <<hand[w]>> \o fanQueue
      BY DEF FTypes, FPlaces, Fanout!Refused
    <1>2. hand[w] \in 1 .. TaskCount BY DEF FTypes, FPlaces, Fanout!Refused
    <1> QED BY <1>1, <1>2, PushOnce

LEMMA FTypesStep == FTypes /\ FPlaces /\ FTokens /\ Fanout!FanoutNext => FTypes'
PROOF
    <1> SUFFICES ASSUME FTypes, FPlaces, FTokens, Fanout!FanoutNext PROVE FTypes' OBVIOUS
    <1> USE LiveNumbers
    <1>0. Fanout!Waits = {"loop", "post", "precheck", "modal", "rest", "done"} /\ Fanout!None = "none"
      BY DEF Fanout!Waits, Fanout!None
    <1>z. 0 \in 0 .. TaskCount /\ 0 \in 0 .. MaxRefusals + 1 OBVIOUS
    <1>1. CASE Fanout!Press BY <1>1 DEF Fanout!Press, FTypes
    <1>2. CASE Fanout!Solve BY <1>0, <1>2 DEF Fanout!Solve, Fanout!Resume, FTypes
    <1>3. CASE Fanout!Withdraw
      <2>1. fanQueue' \in Seq(1 .. TaskCount) BY <1>3, EmptySeq DEF Fanout!Withdraw
      <2>2. firstError' \in {"none", "other", "cancelled"}
        BY <1>3 DEF Fanout!Withdraw, Fanout!Keep, FTypes
      <2> QED BY <1>0, <1>3, <2>1, <2>2 DEF Fanout!Withdraw, Fanout!Resume, FTypes
    <1>4. CASE Fanout!Report BY <1>4 DEF Fanout!Report, FTypes
    <1>5. ASSUME NEW w \in PoolWorkers, Fanout!WorkerStep(w) PROVE FTypes'
      <2>1. CASE Fanout!Refused(w)
        <3>1. refusals' \in 0 .. MaxRefusals BY <2>1 DEF Fanout!Refused, FTypes
        <3>2. at' \in [PoolWorkers -> Fanout!Waits] BY <1>0, <2>1 DEF Fanout!Refused, FTypes
        <3>3. fanQueue' \in Seq(1 .. TaskCount) BY <2>1, QueueGivenBack
        <3>4. /\ hand' \in [PoolWorkers -> 0 .. TaskCount]
              /\ sentToken' \in [PoolWorkers -> 0 .. MaxRefusals + 1]
          BY <1>z, <2>1 DEF Fanout!Refused, FTypes
        <3> QED BY <2>1, <3>1, <3>2, <3>3, <3>4 DEF Fanout!Refused, FTypes
      <2>2. CASE Fanout!GateCleared(w) BY <1>0, <2>2 DEF Fanout!GateCleared, Fanout!Resume, FTypes
      <2>3. CASE Fanout!Take(w)
        <3>1. /\ fanQueue' \in Seq(1 .. TaskCount) /\ Head(fanQueue) \in 0 .. TaskCount
              /\ parked \in 0 .. MaxRefusals + 1
          BY <2>3, QueueTaken DEF FTokens, FTypes
        <3> QED BY <1>0, <2>3, <3>1 DEF Fanout!Take, FTypes
      <2>4. CASE Fanout!WorkerEnds(w) BY <1>0, <2>4 DEF Fanout!WorkerEnds, FTypes
      <2>5. CASE Fanout!Created(w)
        <3>1. hand[w] \in 1 .. TaskCount BY <2>5 DEF Fanout!Created, FTypes, FPlaces
        <3>4. /\ hand' \in [PoolWorkers -> 0 .. TaskCount] /\ at' \in [PoolWorkers -> Fanout!Waits]
              /\ sentToken' \in [PoolWorkers -> 0 .. MaxRefusals + 1]
          BY <1>z, <1>0, <2>5 DEF Fanout!Created, Fanout!Settled, FTypes
        <3> QED BY <2>5, <3>1, <3>4 DEF Fanout!Created, FTypes
      <2>6. CASE Fanout!Rejected(w)
        <3>1. hand[w] \in 1 .. TaskCount BY <2>6 DEF Fanout!Rejected, FTypes, FPlaces
        <3>2. firstError' \in {"none", "other", "cancelled"}
          BY <2>6 DEF Fanout!Rejected, Fanout!Keep, FTypes
        <3>4. /\ hand' \in [PoolWorkers -> 0 .. TaskCount] /\ at' \in [PoolWorkers -> Fanout!Waits]
              /\ sentToken' \in [PoolWorkers -> 0 .. MaxRefusals + 1]
          BY <1>z, <1>0, <2>6 DEF Fanout!Rejected, Fanout!Settled, FTypes
        <3> QED BY <2>6, <3>1, <3>2, <3>4 DEF Fanout!Rejected, FTypes
      <2>7. CASE Fanout!ModalOpens(w) BY <1>0, <2>7 DEF Fanout!ModalOpens, FTypes
      <2>8. CASE Fanout!Paced(w) BY <1>0, <2>8 DEF Fanout!Paced, FTypes
      <2> QED BY <1>5, <2>1, <2>2, <2>3, <2>4, <2>5, <2>6, <2>7, <2>8
              DEF Fanout!WorkerStep, Fanout!Answer
    <1> QED BY <1>1, <1>2, <1>3, <1>4, <1>5 DEF Fanout!FanoutNext

LEMMA FPlacesStep == FTypes /\ FPlaces /\ FLatch /\ Fanout!FanoutNext => FPlaces'
PROOF
    <1> SUFFICES ASSUME FTypes, FPlaces, FLatch, Fanout!FanoutNext PROVE FPlaces' OBVIOUS
    <1> USE LiveNumbers
    <1>0. /\ \A w \in PoolWorkers : hand[w] \in 0 .. TaskCount
          /\ hand \in [PoolWorkers -> 0 .. TaskCount] /\ at \in [PoolWorkers -> Fanout!Waits]
      BY DEF FTypes
    <1>keep. ASSUME UNCHANGED <<fanQueue, hand, fanoutLanded, lost>>, gone => gone',
                    \A w \in PoolWorkers : at'[w] = "post" <=> at[w] = "post"
             PROVE  FPlaces'
      BY <1>keep DEF FPlaces
    <1>1. CASE Fanout!Press BY <1>1, <1>keep DEF Fanout!Press
    <1>2. CASE Fanout!Solve
      <2>1. \A w \in PoolWorkers : at'[w] = "post" <=> at[w] = "post"
        BY <1>0, <1>2 DEF Fanout!Solve, Fanout!Resume, FLatch
      <2> QED BY <1>2, <2>1, <1>keep DEF Fanout!Solve
    <1>3. CASE Fanout!Withdraw
      <2>1. \A w \in PoolWorkers : at'[w] = "post" <=> at[w] = "post"
        BY <1>0, <1>3 DEF Fanout!Withdraw, Fanout!Resume, FLatch
      <2>2. fanQueue' = <<>> /\ gone' /\ UNCHANGED <<hand, fanoutLanded, lost>>
        BY <1>3 DEF Fanout!Withdraw
      <2>3. Len(fanQueue') = 0 /\ fanQueue' \in Seq(1 .. TaskCount) BY <2>2, EmptySeq
      <2>4. Once(fanQueue') BY <2>3 DEF Once
      <2>5. ToSet(fanQueue') = {} BY <2>2 DEF ToSet
      <2> QED BY <2>1, <2>2, <2>4, <2>5 DEF FPlaces
    <1>4. CASE Fanout!Report BY <1>4, <1>keep DEF Fanout!Report
    <1>5. ASSUME NEW w \in PoolWorkers, Fanout!WorkerStep(w) PROVE FPlaces'
      <2>1. CASE Fanout!Refused(w)
        <3>1. /\ Once(fanQueue') /\ hand[w] \in 1 .. TaskCount
              /\ ToSet(fanQueue') = ToSet(fanQueue) \cup {hand[w]}
          BY <2>1, QueueGivenBack
        <3>2. UNCHANGED <<fanoutLanded, lost, gone>> /\ hand' = [hand EXCEPT ![w] = 0]
              /\ at[w] = "post"
          BY <2>1 DEF Fanout!Refused
        <3>3. \A v \in PoolWorkers : at'[v] = IF v = w THEN at'[w] ELSE at[v]
          BY <1>0, <2>1 DEF Fanout!Refused
        <3>4. at'[w] # "post" BY <1>0, <2>1 DEF Fanout!Refused
        <3>5. \A v \in PoolWorkers : hand'[v] = IF v = w THEN 0 ELSE hand[v] BY <1>0, <3>2
        <3>6. \A v \in PoolWorkers : hand[v] = hand[w] => v = w BY <3>1 DEF FPlaces
        <3>7. 0 \notin ToSet(fanQueue) /\ 0 \notin fanoutLanded /\ 0 \notin lost
          <4>1. ToSet(fanQueue) \subseteq 1 .. TaskCount BY ElementsAt DEF FTypes
          <4> QED BY <4>1 DEF FTypes
        <3> QED BY <3>1, <3>2, <3>3, <3>4, <3>5, <3>6, <3>7 DEF FPlaces
      <2>2. CASE Fanout!GateCleared(w)
        BY <1>0, <2>2, <1>keep DEF Fanout!GateCleared, Fanout!Resume
      <2>3. CASE Fanout!Take(w)
        <3> DEFINE h == Head(fanQueue)
        <3>1. /\ Once(fanQueue') /\ h \in ToSet(fanQueue) /\ h \in 1 .. TaskCount
              /\ ToSet(fanQueue') = ToSet(fanQueue) \ {h}
          BY <2>3, QueueTaken
        <3>2. UNCHANGED <<fanoutLanded, lost, gone>> /\ hand' = [hand EXCEPT ![w] = h]
              /\ at' = [at EXCEPT ![w] = "post"] /\ at[w] = "loop"
          BY <2>3 DEF Fanout!Take
        <3> HIDE DEF h
        <3>3. \A v \in PoolWorkers : at'[v] = IF v = w THEN "post" ELSE at[v] BY <1>0, <3>2
        <3>4. \A v \in PoolWorkers : hand'[v] = IF v = w THEN h ELSE hand[v] BY <1>0, <3>2
        <3>5. \A v \in PoolWorkers : hand[v] # h BY <3>1 DEF FPlaces
        <3>6. hand[w] = 0 BY <3>2 DEF FPlaces
        <3> QED BY <3>1, <3>2, <3>3, <3>4, <3>5, <3>6 DEF FPlaces
      <2>4. CASE Fanout!WorkerEnds(w) BY <1>0, <2>4, <1>keep DEF Fanout!WorkerEnds
      <2>5. CASE Fanout!Created(w) \/ Fanout!Rejected(w)
        <3>1. UNCHANGED <<fanQueue, gone>> /\ hand' = [hand EXCEPT ![w] = 0]
              /\ at' = [at EXCEPT ![w] = "rest"] /\ at[w] = "post"
          BY <2>5 DEF Fanout!Created, Fanout!Rejected, Fanout!Settled
        <3>2. \/ fanoutLanded' = fanoutLanded \cup {hand[w]} /\ lost' = lost
              \/ fanoutLanded' = fanoutLanded /\ lost' = lost \cup {hand[w]}
          BY <2>5 DEF Fanout!Created, Fanout!Rejected
        <3>3. \A v \in PoolWorkers : at'[v] = IF v = w THEN "rest" ELSE at[v] BY <1>0, <3>1
        <3>4. \A v \in PoolWorkers : hand'[v] = IF v = w THEN 0 ELSE hand[v] BY <1>0, <3>1
        <3>5. hand[w] # 0 /\ \A v \in PoolWorkers : hand[v] = hand[w] => v = w
          BY <3>1 DEF FPlaces
        <3>6. 0 \notin ToSet(fanQueue) /\ 0 \notin fanoutLanded /\ 0 \notin lost
          <4>1. ToSet(fanQueue) \subseteq 1 .. TaskCount BY ElementsAt DEF FTypes
          <4> QED BY <4>1 DEF FTypes
        <3> QED BY <3>1, <3>2, <3>3, <3>4, <3>5, <3>6 DEF FPlaces
      <2>7. CASE Fanout!ModalOpens(w) BY <1>0, <2>7, <1>keep DEF Fanout!ModalOpens
      <2>8. CASE Fanout!Paced(w) BY <1>0, <2>8, <1>keep DEF Fanout!Paced
      <2> QED BY <1>5, <2>1, <2>2, <2>3, <2>4, <2>5, <2>7, <2>8
              DEF Fanout!WorkerStep, Fanout!Answer
    <1> QED BY <1>1, <1>2, <1>3, <1>4, <1>5 DEF Fanout!FanoutNext

LEMMA FLatchStep == FTypes /\ FLatch /\ FReport /\ Fanout!FanoutNext => FLatch'
PROOF
    <1> SUFFICES ASSUME FTypes, FLatch, FReport, Fanout!FanoutNext PROVE FLatch' OBVIOUS
    <1> USE LiveAssumption
    <1>0. at \in [PoolWorkers -> Fanout!Waits] /\ Fanout!None = "none" /\ "none" \notin PoolWorkers
          /\ modal \in PoolWorkers \cup {"none"}
      BY DEF FTypes, Fanout!None
    <1>keep. ASSUME UNCHANGED <<asking, paused, modal>>,
                    \A w \in PoolWorkers : at'[w] = at[w] \/ (~Asks(w) /\ at'[w] \notin {"precheck", "modal"})
             PROVE  FLatch'
      BY <1>keep DEF FLatch, Asks
    \* whoever asked has its answer
    <1>open. ASSUME NEW w \in PoolWorkers, Asks(w), at' = [at EXCEPT ![w] = "loop"], ~asking',
                    ~paused', modal' = "none"
             PROVE  FLatch'
      <2>1. \A v \in PoolWorkers : at'[v] = IF v = w THEN "loop" ELSE at[v] BY <1>0, <1>open
      <2>2. \A v \in PoolWorkers : Asks(v) => v = w BY <1>open DEF FLatch
      <2> QED BY <1>0, <1>open, <2>1, <2>2 DEF FLatch, Asks
    <1>1. CASE Fanout!Press BY <1>1, <1>keep DEF Fanout!Press
    <1>2. CASE Fanout!Solve
      <2>1. modal \in PoolWorkers /\ Asks(modal) BY <1>0, <1>2 DEF Fanout!Solve, FLatch, Asks
      <2> QED BY <1>0, <1>2, <2>1, <1>open DEF Fanout!Solve, Fanout!Resume
    <1>3. CASE Fanout!Withdraw
      <2>1. modal \in PoolWorkers /\ Asks(modal) BY <1>0, <1>3 DEF Fanout!Withdraw, FLatch, Asks
      <2> QED BY <1>0, <1>3, <2>1, <1>open DEF Fanout!Withdraw, Fanout!Resume
    <1>4. CASE Fanout!Report BY <1>4, <1>keep DEF Fanout!Report
    <1>5. ASSUME NEW w \in PoolWorkers, Fanout!WorkerStep(w) PROVE FLatch'
      <2>1. CASE Fanout!Refused(w)
        <3>0. at[w] = "post" /\ modal' = modal BY <2>1 DEF Fanout!Refused
        <3>1. CASE asking
          <4>1. at' = [at EXCEPT ![w] = "loop"] /\ UNCHANGED <<asking, paused>>
            BY <2>1, <3>1 DEF Fanout!Refused
          <4> QED BY <1>0, <3>0, <4>1, <1>keep DEF Asks
        <3>2. CASE ~asking
          <4>1. at' = [at EXCEPT ![w] = "precheck"] /\ asking' /\ paused'
            BY <2>1, <3>2 DEF Fanout!Refused
          <4>2. \A v \in PoolWorkers : at'[v] = IF v = w THEN "precheck" ELSE at[v]
            BY <1>0, <4>1
          <4>3. \A v \in PoolWorkers : ~Asks(v) BY <3>2 DEF FLatch
          <4> QED BY <3>0, <4>1, <4>2, <4>3 DEF FLatch, Asks
        <3> QED BY <3>1, <3>2
      <2>2. CASE Fanout!GateCleared(w)
        <3>1. Asks(w) BY <2>2 DEF Fanout!GateCleared, Asks
        <3>2. \A v \in PoolWorkers : at[v] # "modal"
          BY <2>2, <3>1 DEF Fanout!GateCleared, FLatch, Asks
        <3>3. modal' = "none" BY <1>0, <2>2, <3>2 DEF Fanout!GateCleared, FLatch
        <3> QED BY <2>2, <3>1, <3>3, <1>open DEF Fanout!GateCleared, Fanout!Resume
      <2>3. CASE Fanout!Take(w) BY <1>0, <2>3, <1>keep DEF Fanout!Take, Asks
      <2>4. CASE Fanout!WorkerEnds(w) BY <1>0, <2>4, <1>keep DEF Fanout!WorkerEnds, Asks
      <2>5. CASE Fanout!Created(w) BY <1>0, <2>5, <1>keep DEF Fanout!Created, Fanout!Settled, Asks
      <2>6. CASE Fanout!Rejected(w) BY <1>0, <2>6, <1>keep DEF Fanout!Rejected, Fanout!Settled, Asks
      <2>7. CASE Fanout!ModalOpens(w)
        <3>1. at[w] = "precheck" /\ at' = [at EXCEPT ![w] = "modal"] /\ modal' = w
              /\ UNCHANGED <<asking, paused>>
          BY <2>7 DEF Fanout!ModalOpens
        <3>2. \A v \in PoolWorkers : at'[v] = IF v = w THEN "modal" ELSE at[v] BY <1>0, <3>1
        <3>3. \A v \in PoolWorkers : Asks(v) => v = w BY <3>1 DEF FLatch, Asks
        <3> QED BY <3>1, <3>2, <3>3 DEF FLatch, Asks
      <2>8. CASE Fanout!Paced(w) BY <1>0, <2>8, <1>keep DEF Fanout!Paced, Asks
      <2> QED BY <1>5, <2>1, <2>2, <2>3, <2>4, <2>5, <2>6, <2>7, <2>8
              DEF Fanout!WorkerStep, Fanout!Answer
    <1> QED BY <1>1, <1>2, <1>3, <1>4, <1>5 DEF Fanout!FanoutNext

LEMMA FTokensStep == FTypes /\ FLatch /\ FTokens /\ FReport /\ Fanout!FanoutNext => FTokens'
PROOF
    <1> SUFFICES ASSUME FTypes, FLatch, FTokens, FReport, Fanout!FanoutNext PROVE FTokens'
      OBVIOUS
    <1> USE LiveNumbers
    <1>0. refusals \in Nat /\ refusals <= MaxRefusals /\ Fanout!None = "none"
          /\ modal \in PoolWorkers \cup {"none"}
      BY DEF FTypes, Fanout!None
    <1>keep. ASSUME UNCHANGED <<tokens, parked, spent, refusals, asking>> PROVE FTokens'
      BY <1>keep DEF FTokens
    <1>1. CASE Fanout!Press
      <2>1. tokens = 0 /\ ~asking
        <3>1. tokens = 0 /\ \A w \in PoolWorkers : at[w] = "loop"
          BY <1>1 DEF Fanout!Press, FReport
        <3> QED BY <3>1 DEF FLatch, Asks
      <2>2. UNCHANGED <<spent, refusals, asking>> BY <1>1 DEF Fanout!Press
      <2>3. CASE UNCHANGED <<parked, tokens>> BY <2>2, <2>3, <1>keep
      <2>4. CASE tokens' = 1 /\ parked' = 1 BY <1>0, <2>1, <2>2, <2>4 DEF FTokens
      <2> QED BY <1>1, <2>3, <2>4 DEF Fanout!Press
    <1>2. CASE Fanout!Solve
      <2>1. asking
        <3>1. at[modal] = "modal" /\ modal \in PoolWorkers BY <1>0, <1>2 DEF Fanout!Solve, FLatch
        <3> QED BY <3>1 DEF FLatch, Asks
      <2>2. tokens' = tokens + 1 /\ parked' = tokens + 1 /\ UNCHANGED <<spent, refusals>> /\ ~asking'
        BY <1>2 DEF Fanout!Solve, Fanout!Resume
      <2> QED BY <1>0, <2>1, <2>2 DEF FTokens
    <1>3. CASE Fanout!Withdraw
      <2>1. UNCHANGED <<tokens, parked, spent, refusals>> /\ ~asking'
        BY <1>3 DEF Fanout!Withdraw, Fanout!Resume
      <2> QED BY <2>1 DEF FTokens
    <1>4. CASE Fanout!Report BY <1>4, <1>keep DEF Fanout!Report
    <1>5. ASSUME NEW w \in PoolWorkers, Fanout!WorkerStep(w) PROVE FTokens'
      <2>1. CASE Fanout!Refused(w)
        <3>1. refusals' = refusals + 1 /\ UNCHANGED <<tokens, parked, spent>>
          BY <2>1 DEF Fanout!Refused
        <3> QED BY <1>0, <3>1 DEF FTokens
      <2>2. CASE Fanout!GateCleared(w)
        <3>1. UNCHANGED <<tokens, spent, refusals>> /\ parked' = 0 /\ ~asking'
          BY <2>2 DEF Fanout!GateCleared, Fanout!Resume
        <3> QED BY <3>1 DEF FTokens
      <2>3. CASE Fanout!Take(w)
        <3>1. UNCHANGED <<tokens, refusals, asking>> /\ parked' = 0 BY <2>3 DEF Fanout!Take
        <3>2. CASE parked = 0
          <4>1. spent' = spent BY <2>3, <3>2 DEF Fanout!Take
          <4> QED BY <3>1, <4>1 DEF FTokens
        <3>3. CASE parked # 0
          <4>1. parked \in 1 .. MaxRefusals + 1 /\ spent[parked] = 0
            BY <1>0, <3>3 DEF FTokens
          <4>2. spent' = [spent EXCEPT ![parked] = @ + 1] BY <2>3, <3>3 DEF Fanout!Take
          <4>3. spent' = [spent EXCEPT ![parked] = 1] BY <4>1, <4>2
          <4> QED BY <3>1, <4>1, <4>3 DEF FTokens
        <3> QED BY <3>2, <3>3
      <2>4. CASE Fanout!WorkerEnds(w) BY <2>4, <1>keep DEF Fanout!WorkerEnds
      <2>5. CASE Fanout!Created(w) BY <2>5, <1>keep DEF Fanout!Created
      <2>6. CASE Fanout!Rejected(w) BY <2>6, <1>keep DEF Fanout!Rejected
      <2>7. CASE Fanout!ModalOpens(w) BY <2>7, <1>keep DEF Fanout!ModalOpens
      <2>8. CASE Fanout!Paced(w) BY <2>8, <1>keep DEF Fanout!Paced
      <2> QED BY <1>5, <2>1, <2>2, <2>3, <2>4, <2>5, <2>6, <2>7, <2>8
              DEF Fanout!WorkerStep, Fanout!Answer
    <1> QED BY <1>1, <1>2, <1>3, <1>4, <1>5 DEF Fanout!FanoutNext

\* what an action leaves alone of the outcome
LEMMA FReportStep ==
    ASSUME FTypes, FPlaces, FLatch, FReport, Fanout!FanoutNext
    PROVE  FReport'
PROOF
    <1> USE LiveNumbers
    <1>bridge. \A S : Fanout!Cardinality(S) = Cardinality(S)
      BY DEF Fanout!Cardinality, Cardinality
    <1>n. Fanout!None = "none" /\ Fanout!Tasks = 1 .. TaskCount
      BY DEF Fanout!None, Fanout!Tasks
    <1>0. /\ at \in [PoolWorkers -> Fanout!Waits] /\ modal \in PoolWorkers \cup {"none"}
          /\ firstError \in {"none", "other", "cancelled"}
          /\ PoolWorkers # {} /\ "none" \notin PoolWorkers
      BY LiveAssumption DEF FTypes
    <1>f. /\ IsFiniteSet(1 .. TaskCount) /\ Cardinality(1 .. TaskCount) = TaskCount
          /\ IsFiniteSet(fanoutLanded) /\ IsFiniteSet(lost)
          /\ Cardinality(fanoutLanded) \in Nat /\ Cardinality(lost) \in Nat
      <2>1. IsFiniteSet(1 .. TaskCount) /\ Cardinality(1 .. TaskCount) = TaskCount BY FS_Interval
      <2>2. IsFiniteSet(fanoutLanded) /\ IsFiniteSet(lost) BY <2>1, FS_Subset DEF FTypes
      <2> QED BY <2>1, <2>2, FS_CardinalityType
    \* a worker is at work, before and after: the press is running
    <1>run. ASSUME NEW w \in PoolWorkers, at[w] \notin {"loop", "done"} \/ outcome = "running"
                                          , at[w] # "done"
            PROVE  outcome = "running"
      BY <1>run DEF FReport, FTypes
    <1>keep. ASSUME outcome = "running", outcome' = "running",
                    \E w \in PoolWorkers : at'[w] # "done",
                    progress' \in Nat,
                    progress' <= Cardinality(fanoutLanded') + Cardinality(lost'),
                    lost' # {} \/ gone' => firstError' # "none"
             PROVE  FReport'
      BY <1>keep DEF FReport, Fanout!ReportIsTruthful
    <1>1. CASE Fanout!Press
      <2>1. /\ outcome' = "running" /\ outcome = "idle" /\ at' = at
            /\ UNCHANGED <<fanoutLanded, lost, progress, gone, firstError>>
        BY <1>1 DEF Fanout!Press
      <2>2. \E w \in PoolWorkers : at'[w] # "done" BY <1>0, <2>1 DEF FReport
      <2> QED BY <2>1, <2>2 DEF FReport, Fanout!ReportIsTruthful
    <1>2. CASE Fanout!Solve
      <2>1. modal \in PoolWorkers /\ at[modal] = "modal" BY <1>0, <1>n, <1>2 DEF Fanout!Solve, FLatch
      <2>2. outcome = "running" BY <2>1, <1>run
      <2>3. at'[modal] = "loop" BY <1>0, <1>2, <2>1 DEF Fanout!Solve, Fanout!Resume
      <2>4. UNCHANGED <<outcome, fanoutLanded, lost, progress, gone, firstError>>
        BY <1>2 DEF Fanout!Solve
      <2> QED BY <2>1, <2>2, <2>3, <2>4, <1>keep DEF FReport
    <1>3. CASE Fanout!Withdraw
      <2>1. modal \in PoolWorkers /\ at[modal] = "modal"
        BY <1>0, <1>n, <1>3 DEF Fanout!Withdraw, FLatch
      <2>2. outcome = "running" BY <2>1, <1>run
      <2>3. at'[modal] = "loop" BY <1>0, <1>3, <2>1 DEF Fanout!Withdraw, Fanout!Resume
      <2>4. UNCHANGED <<outcome, fanoutLanded, lost, progress>> /\ firstError' # "none"
        BY <1>n, <1>3 DEF Fanout!Withdraw, Fanout!Keep
      <2> QED BY <2>1, <2>2, <2>3, <2>4, <1>keep DEF FReport
    <1>4. CASE Fanout!Report
      <2>1. /\ \A w \in PoolWorkers : at[w] = "done"
            /\ outcome' = IF fanoutLanded = {} THEN "failed"
                          ELSE IF Cardinality(fanoutLanded) < TaskCount THEN "partial"
                               ELSE "archive"
            /\ progress' = 0
            /\ UNCHANGED <<fanQueue, at, fanoutLanded, lost, firstError, gone>>
        BY <1>4, <1>bridge DEF Fanout!Report
      <2>2. gone \/ \A t \in 1 .. TaskCount : t \in fanoutLanded \/ t \in lost
        <3>1. CASE gone BY <3>1
        <3>2. CASE ~gone
          <4>1. fanQueue = <<>> BY <2>1, <3>2 DEF FReport
          <4>2. ToSet(fanQueue) = {} BY <4>1 DEF ToSet
          <4>3. \A w \in PoolWorkers : hand[w] = 0 BY <2>1 DEF FPlaces
          <4> QED BY <3>2, <4>2, <4>3 DEF FPlaces
        <3> QED BY <3>1, <3>2
      <2>3. fanoutLanded = {} => firstError # "none"
        <3>1. 1 \in 1 .. TaskCount OBVIOUS
        <3> QED BY <2>2, <3>1 DEF FReport
      <2>4. Cardinality(fanoutLanded) < TaskCount => lost # {} \/ gone
        <3> SUFFICES ASSUME lost = {}, ~gone PROVE Cardinality(fanoutLanded) = TaskCount
          BY <1>f
        <3>1. fanoutLanded = 1 .. TaskCount BY <2>2 DEF FTypes
        <3> QED BY <3>1, <1>f
      <2>5. ~ (Cardinality(fanoutLanded) < TaskCount) => fanoutLanded = 1 .. TaskCount
        <3>1. fanoutLanded \in SUBSET (1 .. TaskCount) BY DEF FTypes
        <3>2. Cardinality(1 .. TaskCount) = Cardinality(fanoutLanded)
              => 1 .. TaskCount = fanoutLanded
          BY <1>f, <3>1, FS_Subset
        <3>3. Cardinality(fanoutLanded) <= Cardinality(1 .. TaskCount) BY <1>f, <3>1, FS_Subset
        <3>4. ~ (Cardinality(fanoutLanded) < TaskCount) => Cardinality(fanoutLanded) = TaskCount
          BY <1>f, <3>3
        <3> QED BY <1>f, <3>2, <3>4
      <2>6. outcome' \in {"failed", "partial", "archive"} BY <2>1
      <2>7. Fanout!ReportIsTruthful'
        BY <1>n, <2>1, <2>3, <2>4, <2>5 DEF Fanout!ReportIsTruthful
      <2> QED BY <1>f, <2>1, <2>6, <2>7 DEF FReport
    <1>5. ASSUME NEW w \in PoolWorkers, Fanout!WorkerStep(w) PROVE FReport'
      <2>1. CASE Fanout!Refused(w)
        <3>1. outcome = "running" BY <2>1, <1>run DEF Fanout!Refused
        <3>2. at'[w] # "done" BY <1>0, <2>1 DEF Fanout!Refused
        <3>3. UNCHANGED <<outcome, fanoutLanded, lost, progress, gone, firstError>>
          BY <2>1 DEF Fanout!Refused
        <3> QED BY <3>1, <3>2, <3>3, <1>keep DEF FReport
      <2>2. CASE Fanout!GateCleared(w)
        <3>1. outcome = "running" BY <2>2, <1>run DEF Fanout!GateCleared
        <3>2. at'[w] # "done" BY <1>0, <2>2 DEF Fanout!GateCleared, Fanout!Resume
        <3>3. UNCHANGED <<outcome, fanoutLanded, lost, progress, gone, firstError>>
          BY <2>2 DEF Fanout!GateCleared
        <3> QED BY <3>1, <3>2, <3>3, <1>keep DEF FReport
      <2>3. CASE Fanout!Take(w)
        <3>1. outcome = "running" BY <2>3 DEF Fanout!Take
        <3>2. at'[w] # "done" BY <1>0, <2>3 DEF Fanout!Take
        <3>3. UNCHANGED <<outcome, fanoutLanded, lost, progress, gone, firstError>>
          BY <2>3 DEF Fanout!Take
        <3> QED BY <3>1, <3>2, <3>3, <1>keep DEF FReport
      <2>4. CASE Fanout!WorkerEnds(w)
        <3>1. outcome = "running" /\ outcome' = "running" /\ (gone \/ fanQueue = <<>>)
              /\ UNCHANGED <<fanQueue, fanoutLanded, lost, progress, gone, firstError>>
          BY <2>4 DEF Fanout!WorkerEnds
        <3> QED BY <3>1 DEF FReport, Fanout!ReportIsTruthful
      <2>5. CASE Fanout!Created(w)
        <3>1. outcome = "running" BY <2>5, <1>run DEF Fanout!Created
        <3>2. at'[w] # "done" BY <1>0, <2>5 DEF Fanout!Created, Fanout!Settled
        <3>3. /\ UNCHANGED <<outcome, lost, gone, firstError>> /\ progress' = progress + 1
              /\ fanoutLanded' = fanoutLanded \cup {hand[w]}
          BY <2>5 DEF Fanout!Created, Fanout!Settled
        <3>4. Cardinality(fanoutLanded') = Cardinality(fanoutLanded) + 1
          BY <1>f, <3>3, FS_AddElement DEF FPlaces
        <3>5. progress' \in Nat /\ progress' <= Cardinality(fanoutLanded') + Cardinality(lost')
          BY <1>f, <3>3, <3>4 DEF FReport
        <3> QED BY <3>1, <3>2, <3>3, <3>5, <1>keep DEF FReport
      <2>6. CASE Fanout!Rejected(w)
        <3>1. outcome = "running" BY <2>6, <1>run DEF Fanout!Rejected
        <3>2. at'[w] # "done" BY <1>0, <2>6 DEF Fanout!Rejected, Fanout!Settled
        <3>3. /\ UNCHANGED <<outcome, fanoutLanded, gone>> /\ progress' = progress + 1
              /\ lost' = lost \cup {hand[w]} /\ firstError' # "none"
          BY <1>n, <2>6 DEF Fanout!Rejected, Fanout!Settled, Fanout!Keep
        <3>4. Cardinality(lost') = Cardinality(lost) + 1
          BY <1>f, <3>3, FS_AddElement DEF FPlaces
        <3>5. progress' \in Nat /\ progress' <= Cardinality(fanoutLanded') + Cardinality(lost')
          BY <1>f, <3>3, <3>4 DEF FReport
        <3> QED BY <3>1, <3>2, <3>3, <3>5, <1>keep DEF FReport
      <2>7. CASE Fanout!ModalOpens(w)
        <3>1. outcome = "running" BY <2>7, <1>run DEF Fanout!ModalOpens
        <3>2. at'[w] # "done" BY <1>0, <2>7 DEF Fanout!ModalOpens
        <3>3. UNCHANGED <<outcome, fanoutLanded, lost, progress, gone, firstError>>
          BY <2>7 DEF Fanout!ModalOpens
        <3> QED BY <3>1, <3>2, <3>3, <1>keep DEF FReport
      <2>8. CASE Fanout!Paced(w)
        <3>1. outcome = "running" BY <2>8, <1>run DEF Fanout!Paced
        <3>2. at'[w] # "done" BY <1>0, <2>8 DEF Fanout!Paced
        <3>3. UNCHANGED <<outcome, fanoutLanded, lost, progress, gone, firstError>>
          BY <2>8 DEF Fanout!Paced
        <3> QED BY <3>1, <3>2, <3>3, <1>keep DEF FReport
      <2> QED BY <1>5, <2>1, <2>2, <2>3, <2>4, <2>5, <2>6, <2>7, <2>8
              DEF Fanout!WorkerStep, Fanout!Answer
    <1> QED BY <1>1, <1>2, <1>3, <1>4, <1>5 DEF Fanout!FanoutNext

LEMMA FanStep ==
    ASSUME FanInv, Fanout!FanoutNext \/ UNCHANGED fanoutVars
    PROVE  FanInv'
PROOF
    <1>1. CASE Fanout!FanoutNext
      BY <1>1, FFlagsStep, FTypesStep, FPlacesStep, FLatchStep, FTokensStep, FReportStep
      DEF FanInv
    <1>2. CASE UNCHANGED fanoutVars
      <2>1. FFlags' BY <1>2, Zenon DEF fanoutVars, FanInv, FFlags
      <2>2. FTypes' BY <1>2 DEF fanoutVars, FanInv, FTypes
      <2>3. FPlaces' BY <1>2 DEF fanoutVars, FanInv, FPlaces
      <2>4. FLatch' /\ FTokens' BY <1>2 DEF fanoutVars, FanInv, FLatch, Asks, FTokens
      <2>5. FReport' BY <1>2 DEF fanoutVars, FanInv, FReport, Fanout!ReportIsTruthful
      <2> QED BY <2>1, <2>2, <2>3, <2>4, <2>5 DEF FanInv
    <1> QED BY <1>1, <1>2

LEMMA FanStarts == Fanout!FanoutInit => FanInv
PROOF
    <1> SUFFICES ASSUME Fanout!FanoutInit PROVE FanInv OBVIOUS
    <1> USE LiveNumbers
    <1>n. Fanout!None = "none" /\ Fanout!Tasks = 1 .. TaskCount /\ "none" \notin PoolWorkers
          /\ PoolWorkers # {}
      BY LiveAssumption DEF Fanout!None, Fanout!Tasks
    <1>q. fanQueue \in Seq(1 .. TaskCount) /\ Len(fanQueue) = TaskCount
          /\ fanQueue = [i \in 1 .. TaskCount |-> i]
      BY <1>n, IsASeq DEF Fanout!FanoutInit
    <1>1. FFlags BY Zenon DEF Fanout!FanoutInit, FFlags
    <1>2. FTypes BY <1>n, <1>q DEF Fanout!FanoutInit, FTypes, Fanout!Waits
    <1>3. FPlaces
      <2>1. Once(fanQueue) BY <1>q DEF Once
      <2>2. \A t \in 1 .. TaskCount : t \in ToSet(fanQueue) BY <1>q DEF ToSet
      <2>3. ToSet(fanQueue) \subseteq 1 .. TaskCount BY <1>q, ElementsAt
      <2> QED BY <2>1, <2>2, <2>3 DEF Fanout!FanoutInit, FPlaces
    <1>4. FLatch BY <1>n DEF Fanout!FanoutInit, FLatch, Asks
    <1>5. FTokens BY DEF Fanout!FanoutInit, FTokens
    <1>6. FReport
      <2>1. Cardinality({}) = 0 BY FS_EmptySet
      <2> QED BY <1>n, <2>1 DEF Fanout!FanoutInit, FReport, Fanout!ReportIsTruthful
    <1> QED BY <1>1, <1>2, <1>3, <1>4, <1>5, <1>6 DEF FanInv

\* One place of four, counted.
LEMMA FanParts ==
    ASSUME FanInv
    PROVE  Fanout!FanoutTypeOK /\ Fanout!FanoutSafe
PROOF
    <1> USE LiveNumbers
    <1>n. Fanout!None = "none" /\ Fanout!Tasks = 1 .. TaskCount
      BY DEF Fanout!None, Fanout!Tasks
    <1>i. FTypes /\ FPlaces /\ FTokens /\ FReport /\ FFlags BY DEF FanInv
    <1>1. Fanout!FanoutTypeOK
      <2>1. {paused, asking, gateBusy, gone, withdrawn} \subseteq BOOLEAN
        BY <1>i, Zenon DEF FFlags
      <2>2. tokens \in 0 .. MaxRefusals + 1 /\ parked \in 0 .. MaxRefusals + 1
        BY <1>i DEF FTokens, FTypes
      <2>3. spent \in [1 .. MaxRefusals + 1 -> 0 .. 2] BY <1>i DEF FTokens
      <2>4. progress \in 0 .. TaskCount
        <3>1. IsFiniteSet(1 .. TaskCount) /\ Cardinality(1 .. TaskCount) = TaskCount
          BY FS_Interval
        <3>2. IsFiniteSet(fanoutLanded) /\ IsFiniteSet(lost) BY <1>i, <3>1, FS_Subset DEF FTypes
        <3>3. fanoutLanded \cap lost = {} BY <1>i DEF FPlaces
        <3>4. Cardinality(fanoutLanded \cup lost) = Cardinality(fanoutLanded) + Cardinality(lost)
          <4>1. Cardinality(fanoutLanded \cap lost) = 0 BY <3>3, FS_EmptySet
          <4>2. Cardinality(fanoutLanded) \in Nat /\ Cardinality(lost) \in Nat
            BY <3>2, FS_CardinalityType
          <4>3. Cardinality(fanoutLanded \cup lost)
                = Cardinality(fanoutLanded) + Cardinality(lost) - Cardinality(fanoutLanded \cap lost)
            BY ONLY <3>2, FS_Union
          <4> QED BY <4>1, <4>2, <4>3
        <3>5. fanoutLanded \cup lost \subseteq 1 .. TaskCount BY <1>i DEF FTypes
        <3>6. Cardinality(fanoutLanded \cup lost) <= TaskCount BY <3>1, <3>5, FS_Subset
        <3> QED BY <1>i, <3>4, <3>6, <3>2, FS_CardinalityType DEF FReport
      <2> QED BY <1>i, <1>n, <2>1, <2>2, <2>3, <2>4 DEF FTypes, Fanout!FanoutTypeOK
    <1>2. Fanout!TaskInOnePlace
      <2> SUFFICES ASSUME NEW t \in 1 .. TaskCount
                   PROVE  Fanout!Places(t) = 1 \/ (gone /\ Fanout!Places(t) = 0)
        BY <1>n DEF Fanout!TaskInOnePlace
      <2> DEFINE Queued == {i \in DOMAIN fanQueue : fanQueue[i] = t}
                 Held == {w \in PoolWorkers : hand[w] = t}
      <2>bridge. \A S : Fanout!Cardinality(S) = Cardinality(S)
        BY DEF Fanout!Cardinality, Cardinality
      <2>q. DOMAIN fanQueue = 1 .. Len(fanQueue) /\ fanQueue \in Seq(1 .. TaskCount)
        BY <1>i, LenProperties DEF FTypes
      <2>1. Cardinality(Queued) = IF t \in ToSet(fanQueue) THEN 1 ELSE 0
        <3>1. CASE t \in ToSet(fanQueue)
          <4>1. PICK i \in 1 .. Len(fanQueue) : fanQueue[i] = t BY <2>q, <3>1, ElementsAt
          <4>2. Queued = {i} BY <1>i, <2>q, <4>1 DEF FPlaces, Once
          <4> QED BY <3>1, <4>2, FS_Singleton
        <3>2. CASE t \notin ToSet(fanQueue)
          <4>1. Queued = {} BY <3>2 DEF ToSet
          <4> QED BY <3>2, <4>1, FS_EmptySet
        <3> QED BY <3>1, <3>2
      <2>2. Cardinality(Held) = IF \E w \in PoolWorkers : hand[w] = t THEN 1 ELSE 0
        <3>1. CASE \E w \in PoolWorkers : hand[w] = t
          <4>1. PICK w \in PoolWorkers : hand[w] = t BY <3>1
          <4>2. Held = {w} BY <1>i, <4>1 DEF FPlaces
          <4> QED BY <3>1, <4>2, FS_Singleton
        <3>2. CASE ~ \E w \in PoolWorkers : hand[w] = t
          <4>1. Held = {} BY <3>2
          <4> QED BY <3>2, <4>1, FS_EmptySet
        <3> QED BY <3>1, <3>2
      <2>3. Fanout!Places(t) = Cardinality(Queued) + Cardinality(Held)
                               + (IF t \in fanoutLanded THEN 1 ELSE 0) + (IF t \in lost THEN 1 ELSE 0)
        BY <2>bridge DEF Fanout!Places
      <2> HIDE DEF Queued, Held
      <2> QED BY <1>i, <2>1, <2>2, <2>3 DEF FPlaces
    <1>3. Fanout!TokenUsedOnce BY <1>i DEF FTokens, Fanout!TokenUsedOnce
    <1>4. Fanout!ReportIsTruthful BY <1>i DEF FReport
    <1> QED BY <1>1, <1>2, <1>3, <1>4 DEF Fanout!FanoutSafe

-----------------------------------------------------------------------------
(* The pictures of the picker                                              *)

Entry   == [key : Keys, url : 1 .. MaxFetches, refs : Nat]
Tracker == [job : 0 .. MaxFetches, refs : Nat]

\* A cache holds one entry of a key.
Orderly(c) == c \in Seq(Entry) /\ Once(c) /\ \A e, f \in ToSet(c) : e.key = f.key => e = f
Has(c, k)  == \E e \in ToSet(c) : e.key = k
HoldersOf(w, k) == Cardinality({p \in Panes : w[p] = k})

IFlags == present \in BOOLEAN /\ astray \in BOOLEAN

ITypes ==
    /\ wants \in [Panes -> Keys \cup {"none"}] /\ awaited \in [Panes -> 0 .. MaxFetches]
    /\ image \in [Panes -> -1 .. MaxFetches]
    /\ epoch \in 0 .. MaxVisits /\ asked \in 0 .. MaxFetches

\* A job waits only for a pump that is due or for a slot.
IJobs ==
    /\ waiting \subseteq Fetching!Job /\ fetchesFlying \subseteq Fetching!Job
    /\ IsFiniteSet(waiting) /\ IsFiniteSet(fetchesFlying)
    /\ waiting \cap fetchesFlying = {} /\ \A j \in waiting \cup fetchesFlying : j.id <= asked
    /\ pumps \in Nat /\ pumps <= asked
    /\ Cardinality(fetchesFlying) <= FetchSlots
    /\ Cardinality(waiting) <= pumps \/ Cardinality(fetchesFlying) >= FetchSlots

\* A key is cached or tracked, not both, and no two keys wait for one fetch.
Consistent(c, tr, n) ==
    /\ Orderly(c) /\ tr \in [Keys -> Tracker]
    /\ \A k \in Keys : tr[k].job <= n /\ (tr[k].job # 0 => ~Has(c, k))
    /\ \A k, l \in Keys : tr[k].job = tr[l].job /\ tr[k].job # 0 => k = l

\* A pane that is settled has its picture in the cache, one that is not waits
\* for the fetch of its key, and both are counted.
Counted(w, a, im, c, tr) ==
    /\ \A e \in ToSet(c) : e.refs = HoldersOf(w, e.key)
    /\ \A k \in Keys : tr[k].job # 0 => tr[k].refs = HoldersOf(w, k)
    /\ \A p \in Panes : a[p] # 0 => w[p] # "none" /\ tr[w[p]].job = a[p]
    /\ \A p \in Panes : a[p] = 0 /\ w[p] # "none" =>
          \E e \in ToSet(c) : e.key = w[p] /\ e.url = im[p]

Stored ==
    /\ ITypes /\ Consistent(cache, tracker, asked)
    /\ ~astray => Counted(wants, awaited, image, cache, tracker)

ImgInv == IFlags /\ IJobs /\ Stored

LEMMA Borrowed ==
    /\ \A S : Fetching!Cardinality(S) = Cardinality(S)
    /\ Fetching!Entries = ToSet(cache)
    /\ \A q, T : Fetching!Kept(q, T) = Kept(q, T)
    /\ \A c, k : Fetching!Cached(c, k) <=> Has(c, k)
    /\ Fetching!NoKey = "none" /\ Fetching!Missing = -1
    /\ Fetching!NoTracker = [job |-> 0, refs |-> 0]
PROOF
    <1>1. \A S : Fetching!Cardinality(S) = Cardinality(S)
      BY DEF Fetching!Cardinality, Cardinality
    <1>2. Fetching!Entries = ToSet(cache) BY DEF Fetching!Entries, ToSet
    <1>3. \A q, T : Fetching!Kept(q, T) = Kept(q, T) BY DEF Fetching!Kept, Kept
    <1>4. \A c, k : Fetching!Cached(c, k) <=> Has(c, k)
      BY DEF Fetching!Cached, Has, ToSet
    <1> QED BY <1>1, <1>2, <1>3, <1>4 DEF Fetching!NoKey, Fetching!Missing, Fetching!NoTracker

\* Counting the panes of a key when one of them changes its mind.
Recount(w, p, x, v) ==
    /\ \A k \in Keys : HoldersOf(w, k) \in Nat
    /\ \A k \in Keys : (\E q \in Panes : w[q] = k) <=> HoldersOf(w, k) # 0
    /\ \A k \in Keys :
          HoldersOf(v, k) = IF w[p] = x \/ k \notin {w[p], x} THEN HoldersOf(w, k)
                            ELSE IF k = x THEN HoldersOf(w, k) + 1 ELSE HoldersOf(w, k) - 1

LEMMA HoldersMove ==
    ASSUME NEW w \in [Panes -> Keys \cup {"none"}], NEW p \in Panes, NEW x \in Keys \cup {"none"}
    PROVE  Recount(w, p, x, [w EXCEPT ![p] = x])
PROOF
    <1> DEFINE v == [w EXCEPT ![p] = x]
    <1>0. IsFiniteSet(Panes) BY LiveAssumption
    <1>1. \A q \in Panes : v[q] = IF q = p THEN x ELSE w[q] OBVIOUS
    <1> HIDE DEF v
    <1>2. ASSUME NEW k \in Keys
          PROVE  /\ HoldersOf(w, k) \in Nat
                 /\ (\E q \in Panes : w[q] = k) <=> HoldersOf(w, k) # 0
                 /\ HoldersOf(v, k)
                    = IF w[p] = x \/ k \notin {w[p], x} THEN HoldersOf(w, k)
                      ELSE IF k = x THEN HoldersOf(w, k) + 1 ELSE HoldersOf(w, k) - 1
      <2> DEFINE Of(u) == {q \in Panes : u[q] = k}
      <2>1. IsFiniteSet(Of(w)) /\ Of(w) \in SUBSET Panes BY <1>0, FS_Subset
      <2>2. Cardinality(Of(w)) \in Nat BY <2>1, FS_CardinalityType
      <2>3. Cardinality(Of(w)) = 0 <=> Of(w) = {} BY <2>1, FS_EmptySet
      <2>4. CASE w[p] = x \/ k \notin {w[p], x}
        <3>1. Of(v) = Of(w) BY <1>1, <2>4
        <3> QED BY <2>2, <2>3, <2>4, <3>1 DEF HoldersOf
      <2>5. CASE w[p] # x /\ k = x
        <3>1. Of(v) = Of(w) \cup {p} /\ p \notin Of(w) BY <1>1, <2>5
        <3>2. Cardinality(Of(v)) = Cardinality(Of(w)) + 1 BY <2>1, <3>1, FS_AddElement
        <3> QED BY <2>2, <2>3, <2>5, <3>2 DEF HoldersOf
      <2>6. CASE w[p] # x /\ k = w[p]
        <3>1. Of(v) = Of(w) \ {p} /\ p \in Of(w) BY <1>1, <2>6
        <3>2. Cardinality(Of(w) \ {p}) = Cardinality(Of(w)) - 1
          <4> HIDE DEF Of
          <4> QED BY ONLY <2>1, <3>1, FS_RemoveElement
        <3>3. Cardinality(Of(w)) # 0 BY <2>3, <3>1
        <3> QED BY <2>2, <2>3, <2>6, <3>1, <3>2, <3>3 DEF HoldersOf
      <2> QED BY <2>4, <2>5, <2>6
    <1> QED BY <1>2 DEF v, Recount

LEMMA Entries ==
    ASSUME NEW c, Orderly(c), NEW e \in ToSet(c)
    PROVE  e \in Entry /\ e.key \in Keys /\ e.refs \in Nat
PROOF
    <1>1. e \in Entry BY ElementsAt DEF Orderly
    <1> QED BY <1>1 DEF Entry

\* Another count for the entry of a key.
Recounted(c, k, n) == [c EXCEPT ![Fetching!EntryOf(c, k)].refs = n]

LEMMA EntryChanged ==
    ASSUME NEW c, Orderly(c), NEW k, Has(c, k), NEW n \in Nat
    PROVE  LET i == Fetching!EntryOf(c, k)
               o == Recounted(c, k, n) IN
           /\ i \in DOMAIN c /\ c[i] \in ToSet(c) /\ c[i].key = k /\ c[i] \in Entry
           /\ Orderly(o)
           /\ ToSet(o) = (ToSet(c) \ {c[i]}) \cup {[key |-> k, url |-> c[i].url, refs |-> n]}
PROOF
    <1> DEFINE i == Fetching!EntryOf(c, k)
               o == Recounted(c, k, n)
               new == [key |-> k, url |-> c[i].url, refs |-> n]
    <1>0. c \in Seq(Entry) /\ Len(c) \in Nat /\ DOMAIN c = 1 .. Len(c)
      BY LenProperties DEF Orderly
    <1>1. i \in DOMAIN c /\ c[i].key = k
      <2>1. \E j \in DOMAIN c : c[j].key = k BY DEF Has, ToSet
      <2> QED BY <2>1, Zenon DEF Fetching!EntryOf
    <1> HIDE DEF i
    <1>2. c[i] \in ToSet(c) /\ c[i] \in Entry BY <1>0, <1>1, ElementOfSeq DEF ToSet
    <1>3. [c[i] EXCEPT !.refs = n] = new /\ new \in Entry BY <1>1, <1>2 DEF Entry
    <1>4. /\ DOMAIN o = DOMAIN c /\ o = [j \in 1 .. Len(c) |-> IF j = i THEN new ELSE c[j]]
          /\ \A j \in DOMAIN c : o[j] = IF j = i THEN new ELSE c[j]
      BY <1>0, <1>3 DEF Recounted, i
    <1>5. \A j \in 1 .. Len(c) : (IF j = i THEN new ELSE c[j]) \in Entry
      BY <1>0, <1>3, ElementOfSeq
    <1> HIDE DEF o
    <1>6. o \in Seq(Entry) /\ Len(o) = Len(c)
      <2> DEFINE e(j) == IF j = i THEN new ELSE c[j]
      <2>1. o = [j \in 1 .. Len(c) |-> e(j)] BY <1>4
      <2>2. \A j \in 1 .. Len(c) : e(j) \in Entry BY <1>5
      <2> HIDE DEF e
      <2> QED BY <1>0, <2>1, <2>2, IsASeq
    \* two places of one key are one place
    <1>7. \A j, l \in DOMAIN c : c[j].key = c[l].key => j = l
      <2> SUFFICES ASSUME NEW j \in DOMAIN c, NEW l \in DOMAIN c, c[j].key = c[l].key PROVE j = l
        OBVIOUS
      <2>1. c[j] = c[l] BY DEF Orderly, ToSet
      <2> QED BY <1>0, <2>1 DEF Orderly, Once
    <1>8. \A j \in DOMAIN c : j # i => c[j].key # k /\ c[j] # c[i] BY <1>1, <1>7
    <1>9. new.key = k OBVIOUS
    <1>10. \A j \in DOMAIN c : o[j].key = c[j].key BY <1>1, <1>4, <1>9
    <1> HIDE DEF new
    <1>11. ToSet(o) = (ToSet(c) \ {c[i]}) \cup {new} BY <1>1, <1>4, <1>8 DEF ToSet
    <1>12. Orderly(o)
      <2>1. Once(o)
        <3> SUFFICES ASSUME NEW j \in 1 .. Len(o), NEW l \in 1 .. Len(o), o[j] = o[l] PROVE j = l
          BY DEF Once
        <3>1. j \in DOMAIN c /\ l \in DOMAIN c BY <1>0, <1>6
        <3>2. c[j].key = c[l].key BY <3>1, <1>10
        <3> QED BY <3>1, <3>2, <1>7
      <2>2. ASSUME NEW e \in ToSet(o), NEW f \in ToSet(o), e.key = f.key PROVE e = f
        <3>1. PICK j \in DOMAIN c : e = o[j] BY <1>4 DEF ToSet
        <3>2. PICK l \in DOMAIN c : f = o[l] BY <1>4 DEF ToSet
        <3>3. c[j].key = c[l].key BY <2>2, <3>1, <3>2, <1>10
        <3>4. j = l BY <3>3, <1>7
        <3> QED BY <3>1, <3>2, <3>4
      <2> QED BY <1>6, <2>1, <2>2 DEF Orderly
    <1> QED BY <1>1, <1>2, <1>11, <1>12 DEF i, o, new

\* What pruneLRU drops is referenced by nobody.
LEMMA PruneDrops ==
    ASSUME NEW c, Orderly(c)
    PROVE  /\ Orderly(Fetching!PruneLRU(c))
           /\ ToSet(Fetching!PruneLRU(c)) \subseteq ToSet(c)
           /\ \A e \in ToSet(c) : e.refs # 0 => e \in ToSet(Fetching!PruneLRU(c))
PROOF
    <1> DEFINE idle(i)  == c[i].refs = 0
               older(i) == Fetching!Cardinality({j \in 1 .. (i - 1) : idle(j)})
               stays    == {i \in DOMAIN c : ~idle(i) \/ older(i) >= Len(c) - Capacity}
               places   == [i \in DOMAIN c |-> i]
               kept     == Kept(places, stays)
               o        == [i \in DOMAIN kept |-> c[kept[i]]]
    <1>0. c \in Seq(Entry) /\ Len(c) \in Nat /\ DOMAIN c = 1 .. Len(c)
      BY LenProperties DEF Orderly
    <1>1. Fetching!PruneLRU(c) = o BY Borrowed DEF Fetching!PruneLRU
    <1>2. stays \subseteq DOMAIN c /\ \A i \in DOMAIN c : c[i].refs # 0 => i \in stays OBVIOUS
    <1> HIDE DEF stays
    <1>3. /\ places \in Seq(DOMAIN c) /\ Once(places) /\ ToSet(places) = DOMAIN c
      <2>1. places = [i \in 1 .. Len(c) |-> i] BY <1>0
      <2>2. places \in Seq(DOMAIN c) /\ Len(places) = Len(c) BY <1>0, <2>1, IsASeq
      <2>3. Once(places) BY <1>0, <2>2 DEF Once
      <2>4. ToSet(places) = DOMAIN c BY <1>0 DEF ToSet
      <2> QED BY <2>2, <2>3, <2>4
    <1> HIDE DEF places
    <1>4. kept \in Seq(DOMAIN c) /\ Once(kept) /\ ToSet(kept) = stays
      <2>1. /\ kept \in Seq(DOMAIN c) /\ Once(kept)
            /\ ToSet(kept) = ToSet(places) \cap stays
        BY <1>3, KeptOnce
      <2> QED BY <1>2, <1>3, <2>1
    <1> HIDE DEF kept
    <1>5. /\ Len(kept) \in Nat /\ DOMAIN kept = 1 .. Len(kept)
          /\ \A i \in 1 .. Len(kept) : kept[i] \in DOMAIN c
      BY <1>4, LenProperties, ElementOfSeq
    <1>6. o \in Seq(Entry) /\ Len(o) = Len(kept) /\ DOMAIN o = 1 .. Len(kept)
      <2> DEFINE e(i) == c[kept[i]]
      <2>1. o = [i \in 1 .. Len(kept) |-> e(i)] BY <1>5
      <2>2. \A i \in 1 .. Len(kept) : e(i) \in Entry BY <1>0, <1>5, ElementOfSeq
      <2> HIDE DEF e, o
      <2> QED BY <1>5, <2>1, <2>2, IsASeq
    <1>7. \A i \in 1 .. Len(kept) : o[i] = c[kept[i]] BY <1>5
    <1> HIDE DEF o
    <1>8. ToSet(o) \subseteq ToSet(c) BY <1>5, <1>6, <1>7 DEF ToSet
    <1>9. ASSUME NEW e \in ToSet(c), e.refs # 0 PROVE e \in ToSet(o)
      <2>1. PICK j \in DOMAIN c : e = c[j] BY DEF ToSet
      <2>2. j \in ToSet(kept) BY <1>2, <1>4, <1>9, <2>1
      <2>3. PICK i \in 1 .. Len(kept) : kept[i] = j BY <1>4, <2>2, ElementsAt
      <2> QED BY <1>6, <1>7, <2>1, <2>3 DEF ToSet
    <1>10. Once(o)
      <2> SUFFICES ASSUME NEW i \in 1 .. Len(kept), NEW j \in 1 .. Len(kept), o[i] = o[j]
                   PROVE  i = j
        BY <1>6 DEF Once
      <2>1. c[kept[i]] = c[kept[j]] BY <1>7
      <2>2. kept[i] = kept[j] BY <1>0, <1>5, <2>1 DEF Orderly, Once
      <2> QED BY <1>4, <2>2 DEF Once
    <1>11. Orderly(o) BY <1>6, <1>8, <1>10 DEF Orderly
    <1> QED BY <1>1, <1>8, <1>9, <1>11

\* The references of a pane that goes, or turns to another key.
LEMMA Released ==
    ASSUME Consistent(cache, tracker, asked), ITypes, NEW p \in Panes, NEW im,
           \A q \in Panes : q # p => im[q] = image[q]
    PROVE  LET store == Fetching!ReleasedCache(wants[p])
               refs  == Fetching!ReleasedTracker(wants[p]) IN
           /\ Consistent(store, refs, asked)
           /\ \A k \in Keys : refs[k].job = tracker[k].job
           /\ Counted(wants, awaited, image, cache, tracker) =>
                 Counted([wants EXCEPT ![p] = "none"], [awaited EXCEPT ![p] = 0], im, store, refs)
PROOF
    <1> DEFINE k == wants[p]
               store == Fetching!ReleasedCache(k)
               refs == Fetching!ReleasedTracker(k)
               w == [wants EXCEPT ![p] = "none"]
               a == [awaited EXCEPT ![p] = 0]
    <1> USE LiveNumbers
    <1>0. /\ wants \in [Panes -> Keys \cup {"none"}] /\ awaited \in [Panes -> 0 .. MaxFetches]
          /\ k \in Keys \cup {"none"} /\ "none" \notin Keys
      BY LiveAssumption DEF ITypes
    <1>1. /\ \A q \in Panes : w[q] = IF q = p THEN "none" ELSE wants[q]
          /\ \A q \in Panes : a[q] = IF q = p THEN 0 ELSE awaited[q]
      BY <1>0
    <1>2. \A l \in Keys : /\ HoldersOf(wants, l) \in Nat
                          /\ (\E q \in Panes : wants[q] = l) <=> HoldersOf(wants, l) # 0
                          /\ HoldersOf(w, l) = IF l = k THEN HoldersOf(wants, l) - 1
                                               ELSE HoldersOf(wants, l)
      <2>1. "none" \in Keys \cup {"none"} OBVIOUS
      <2>2. Recount(wants, p, "none", w) BY <2>1, <1>0, HoldersMove DEF w
      <2> QED BY <1>0, <2>2 DEF Recount
    <1>3. \A l \in Keys : w[p] # l BY <1>0, <1>1
    <1>4. \A l \in Keys : (\E q \in Panes : w[q] = l) => HoldersOf(w, l) # 0
      <2>1. w \in [Panes -> Keys \cup {"none"}] /\ "none" \in Keys \cup {"none"} BY <1>0
      <2> HIDE DEF w
      <2>2. Recount(w, p, "none", [w EXCEPT ![p] = "none"]) BY <2>1, HoldersMove
      <2> QED BY <2>2 DEF Recount
    <1> HIDE DEF w, a, k
    <1>5. CASE k = "none"
      <2>1. store = cache /\ refs = tracker
        BY <1>5, Borrowed DEF Fetching!ReleasedCache, Fetching!ReleasedTracker
      <2>2. ASSUME Counted(wants, awaited, image, cache, tracker)
            PROVE  Counted(w, a, im, cache, tracker)
        <3>1. awaited[p] = 0 BY <1>5, <2>2 DEF Counted, k
        <3>2. \A l \in Keys : HoldersOf(w, l) = HoldersOf(wants, l) BY <1>0, <1>2, <1>5
        <3>3. \A e \in ToSet(cache) : e.key \in Keys BY Entries DEF Consistent
        <3> QED BY <1>0, <1>1, <2>2, <3>1, <3>2, <3>3, <1>5 DEF Counted, k
      <2> QED BY <2>1, <2>2 DEF w, a, k
    <1>6. CASE k \in Keys /\ Has(cache, k)
      <2> DEFINE i == Fetching!EntryOf(cache, k)
                 n == Fetching!Lower(cache[i].refs)
                 c == Recounted(cache, k, n)
                 new == [key |-> k, url |-> cache[i].url, refs |-> n]
      <2>1. /\ store = Fetching!PruneLRU([cache EXCEPT ![i].refs = Fetching!Lower(@)])
            /\ refs = tracker
        BY <1>0, <1>6, Borrowed DEF Fetching!ReleasedCache, Fetching!ReleasedTracker
      <2>2. Orderly(cache) BY DEF Consistent
      <2>3. i \in DOMAIN cache /\ cache[i] \in ToSet(cache) /\ cache[i].key = k
            /\ cache[i] \in Entry
        BY <2>2, <1>6, EntryChanged
      <2>4. n \in Nat /\ (cache[i].refs # 0 => n = cache[i].refs - 1)
        BY <2>3 DEF Fetching!Lower, Entry
      <2>5. store = Fetching!PruneLRU(c)
        <3>1. [cache EXCEPT ![i].refs = Fetching!Lower(@)] = c BY <2>3 DEF Entry, Recounted
        <3> QED BY <2>1, <3>1
      <2>6. Orderly(c) /\ ToSet(c) = (ToSet(cache) \ {cache[i]}) \cup {new}
        <3> HIDE DEF n
        <3> QED BY ONLY <2>2, <2>4, <1>6, EntryChanged DEF c, new, i
      <2> HIDE DEF n, c, i
      <2>7. /\ Orderly(store) /\ ToSet(store) \subseteq ToSet(c)
            /\ \A e \in ToSet(c) : e.refs # 0 => e \in ToSet(store)
        <3> HIDE DEF store
        <3> QED BY <2>5, <2>6, PruneDrops
      <2> HIDE DEF store
      <2>8. \A e \in ToSet(store) : e = new \/ e \in ToSet(cache) BY <2>6, <2>7
      <2>9. \A l \in Keys : Has(store, l) => Has(cache, l)
        BY <2>3, <2>8 DEF Has
      <2>10. Consistent(store, tracker, asked) BY <2>7, <2>9 DEF Consistent
      <2>11. ASSUME Counted(wants, awaited, image, cache, tracker)
             PROVE  Counted(w, a, im, store, tracker)
        <3>1. tracker[k].job = 0 BY <1>6 DEF Consistent
        <3>2. awaited[p] = 0 BY <1>0, <1>6, <2>11, <3>1 DEF Counted, k
        <3>3. cache[i].refs = HoldersOf(wants, k) BY <2>3, <2>11 DEF Counted
        <3>4. HoldersOf(wants, k) # 0 /\ HoldersOf(wants, k) \in Nat
          <4>1. \E q \in Panes : wants[q] = k BY DEF k
          <4> QED BY <1>2, <1>6, <4>1
        <3>5. n = HoldersOf(w, k) BY <1>2, <1>6, <2>4, <3>3, <3>4
        <3>6. ASSUME NEW e \in ToSet(c) PROVE e.key \in Keys /\ e.refs = HoldersOf(w, e.key)
          <4>1. CASE e = new BY <1>6, <3>5, <4>1
          <4>2. CASE e \in ToSet(cache) /\ e # cache[i]
            <5>1. e.key # k /\ e.key \in Keys
              BY <2>2, <2>3, <4>2, Entries DEF Orderly
            <5> QED BY <1>2, <2>11, <4>2, <5>1 DEF Counted
          <4> QED BY <2>6, <4>1, <4>2
        <3>7. ASSUME NEW l \in Keys, tracker[l].job # 0 PROVE tracker[l].refs = HoldersOf(w, l)
          BY <1>2, <2>11, <3>1, <3>7 DEF Counted
        <3>8. ASSUME NEW q \in Panes, a[q] # 0 PROVE w[q] # "none" /\ tracker[w[q]].job = a[q]
          BY <1>1, <2>11, <3>8 DEF Counted
        <3>9. ASSUME NEW q \in Panes, a[q] = 0, w[q] # "none"
              PROVE  \E e \in ToSet(store) : e.key = w[q] /\ e.url = im[q]
          <4>1. q # p /\ w[q] = wants[q] /\ awaited[q] = 0 /\ im[q] = image[q] /\ w[q] \in Keys
            BY <1>0, <1>1, <3>9
          <4>2. PICK e \in ToSet(cache) : e.key = wants[q] /\ e.url = image[q]
            BY <2>11, <3>9, <4>1 DEF Counted
          <4>3. \E f \in ToSet(c) : f.key = w[q] /\ f.url = im[q]
            <5>1. CASE e = cache[i]
              <6>1. new \in ToSet(c) BY <2>6
              <6>2. new.key = k /\ new.url = cache[i].url OBVIOUS
              <6>3. k = w[q] /\ cache[i].url = im[q] BY <2>3, <4>1, <4>2, <5>1
              <6> QED BY <6>1, <6>2, <6>3
            <5>2. CASE e # cache[i] BY <2>6, <4>1, <4>2, <5>2
            <5> QED BY <5>1, <5>2
          <4>4. PICK f \in ToSet(c) : f.key = w[q] /\ f.url = im[q] BY <4>3
          <4>5. f.refs # 0 BY <1>4, <3>6, <4>1, <4>4
          <4> QED BY <2>7, <4>4, <4>5
        <3> QED BY <2>7, <3>6, <3>7, <3>8, <3>9 DEF Counted
      <2> QED BY <2>1, <2>10, <2>11 DEF w, a, k, store, refs
    <1>7. CASE k \in Keys /\ ~Has(cache, k)
      <2>1. store = cache BY <1>7, Borrowed DEF Fetching!ReleasedCache
      <2>2. refs = IF tracker[k].job # 0
                   THEN [tracker EXCEPT ![k].refs = Fetching!Lower(@)] ELSE tracker
        BY <1>0, <1>7, Borrowed DEF Fetching!ReleasedTracker
      <2>3. tracker \in [Keys -> Tracker] BY DEF Consistent
      <2>4. /\ refs \in [Keys -> Tracker]
            /\ \A l \in Keys : refs[l].job = tracker[l].job
            /\ \A l \in Keys : l # k => refs[l] = tracker[l]
            /\ tracker[k].job # 0 => refs[k].refs = Fetching!Lower(tracker[k].refs)
        <3>1. tracker[k] \in Tracker /\ Fetching!Lower(tracker[k].refs) \in Nat
          BY <1>7, <2>3 DEF Fetching!Lower, Tracker
        <3>2. /\ [tracker[k] EXCEPT !.refs = Fetching!Lower(tracker[k].refs)] \in Tracker
              /\ [tracker[k] EXCEPT !.refs = Fetching!Lower(tracker[k].refs)].job = tracker[k].job
              /\ [tracker[k] EXCEPT !.refs = Fetching!Lower(tracker[k].refs)].refs
                 = Fetching!Lower(tracker[k].refs)
          BY <3>1 DEF Tracker
        <3>3. [tracker EXCEPT ![k].refs = Fetching!Lower(@)]
              = [tracker EXCEPT ![k] = [tracker[k] EXCEPT !.refs = Fetching!Lower(tracker[k].refs)]]
          BY <1>7, <2>3
        <3> HIDE DEF refs
        <3> QED BY <1>7, <2>2, <2>3, <3>2, <3>3
      <2> HIDE DEF store, refs
      <2>5. Consistent(store, refs, asked) BY <2>1, <2>4 DEF Consistent
      <2>6. ASSUME Counted(wants, awaited, image, cache, tracker)
            PROVE  Counted(w, a, im, store, refs)
        <3>1. tracker[k].job # 0
          <4>1. wants[p] = k /\ k # "none" BY <1>0, <1>7 DEF k
          <4>2. CASE awaited[p] # 0 BY <2>6, <4>1, <4>2 DEF Counted
          <4>3. CASE awaited[p] = 0 BY <1>7, <2>6, <4>1, <4>3 DEF Counted, Has
          <4> QED BY <4>2, <4>3
        <3>2. tracker[k].refs = HoldersOf(wants, k) BY <1>7, <2>6, <3>1 DEF Counted
        <3>3. HoldersOf(wants, k) # 0 /\ HoldersOf(wants, k) \in Nat
          <4>1. \E q \in Panes : wants[q] = k BY DEF k
          <4> QED BY <1>2, <1>7, <4>1
        <3>4. refs[k].refs = HoldersOf(w, k)
          BY <1>2, <1>7, <2>4, <3>1, <3>2, <3>3 DEF Fetching!Lower
        <3>5. ASSUME NEW l \in Keys, refs[l].job # 0 PROVE refs[l].refs = HoldersOf(w, l)
          <4>1. CASE l = k BY <3>4, <4>1
          <4>2. CASE l # k BY <1>2, <2>4, <2>6, <3>5, <4>2 DEF Counted
          <4> QED BY <4>1, <4>2
        <3>6. ASSUME NEW e \in ToSet(store) PROVE e.refs = HoldersOf(w, e.key)
          <4>1. e \in ToSet(cache) /\ e.key \in Keys /\ e.key # k
            BY <1>7, <2>1, Entries DEF Consistent, Has
          <4> QED BY <1>2, <2>6, <4>1 DEF Counted
        <3>7. ASSUME NEW q \in Panes, a[q] # 0 PROVE w[q] # "none" /\ refs[w[q]].job = a[q]
          <4>1. q # p /\ a[q] = awaited[q] /\ w[q] = wants[q] BY <1>1, <3>7
          <4>2. w[q] \in Keys /\ tracker[w[q]].job = a[q]
            BY <1>0, <2>6, <3>7, <4>1 DEF Counted
          <4> QED BY <1>0, <2>4, <4>2
        <3>8. ASSUME NEW q \in Panes, a[q] = 0, w[q] # "none"
              PROVE  \E e \in ToSet(store) : e.key = w[q] /\ e.url = im[q]
          BY <1>1, <2>1, <2>6, <3>8 DEF Counted
        <3> QED BY <3>5, <3>6, <3>7, <3>8 DEF Counted
      <2> QED BY <2>4, <2>5, <2>6 DEF w, a, k, store, refs
    <1> QED BY <1>0, <1>5, <1>6, <1>7

\* One job at most leaves the queue, when a slot is free.
LEMMA Dispatched ==
    ASSUME IJobs, NEW free \in SUBSET fetchesFlying, Fetching!Dispatch(free)
    PROVE  /\ waiting' \subseteq Fetching!Job /\ fetchesFlying' \subseteq Fetching!Job
           /\ IsFiniteSet(waiting') /\ IsFiniteSet(fetchesFlying')
           /\ waiting' \cap fetchesFlying' = {}
           /\ \A j \in waiting' \cup fetchesFlying' : j.id <= asked
           /\ Cardinality(fetchesFlying') <= FetchSlots
           /\ \/ waiting' = {}
              \/ Cardinality(free) >= FetchSlots /\ Cardinality(fetchesFlying') >= FetchSlots
              \/ /\ Cardinality(waiting') = Cardinality(waiting) - 1
                 /\ Cardinality(fetchesFlying') = Cardinality(free) + 1
PROOF
    <1> USE LiveNumbers
    <1>0. /\ IsFiniteSet(free) /\ Cardinality(free) \in Nat /\ Cardinality(free) <= FetchSlots
          /\ IsFiniteSet(waiting) /\ Cardinality(waiting) \in Nat
          /\ Cardinality(fetchesFlying) \in Nat
      <2>1. IsFiniteSet(fetchesFlying) /\ IsFiniteSet(waiting) BY DEF IJobs
      <2>2. IsFiniteSet(free) /\ Cardinality(free) <= Cardinality(fetchesFlying)
        BY <2>1, FS_Subset
      <2>3. Cardinality(free) \in Nat /\ Cardinality(waiting) \in Nat
            /\ Cardinality(fetchesFlying) \in Nat
        BY <2>1, <2>2, FS_CardinalityType
      <2> QED BY <2>1, <2>2, <2>3 DEF IJobs
    <1>1. CASE waiting = {} \/ Cardinality(free) >= FetchSlots
      <2>1. waiting' = waiting /\ fetchesFlying' = free
        BY <1>1, Borrowed DEF Fetching!Dispatch
      <2> QED BY <1>0, <1>1, <2>1 DEF IJobs
    <1>2. CASE waiting # {} /\ ~ (Cardinality(free) >= FetchSlots)
      <2>1. PICK j \in waiting : waiting' = waiting \ {j} /\ fetchesFlying' = free \cup {j}
        BY <1>2, Borrowed DEF Fetching!Dispatch
      <2>2. j \notin free BY <2>1 DEF IJobs
      <2>3. IsFiniteSet(waiting') /\ Cardinality(waiting') = Cardinality(waiting) - 1
        BY ONLY <1>0, <2>1, FS_RemoveElement
      <2>4. IsFiniteSet(fetchesFlying') /\ Cardinality(fetchesFlying') = Cardinality(free) + 1
        BY ONLY <1>0, <2>1, <2>2, FS_AddElement
      <2>5. Cardinality(fetchesFlying') <= FetchSlots BY <1>0, <1>2, <2>4
      <2> QED BY <2>1, <2>2, <2>3, <2>4, <2>5 DEF IJobs
    <1> QED BY <1>1, <1>2

LEMMA IFlagsStep == IFlags /\ Fetching!ImagesNext => IFlags'
PROOF
    <1> SUFFICES ASSUME IFlags, Fetching!ImagesNext PROVE IFlags' OBVIOUS
    <1> USE DEF IFlags
    <1>1. ASSUME NEW p \in Panes, Fetching!Hide(p) PROVE IFlags'
      BY <1>1, Zenon DEF Fetching!Hide
    <1>2. ASSUME NEW p \in Panes, NEW k \in Keys, Fetching!Show(p, k) PROVE IFlags'
      BY <1>2, Zenon DEF Fetching!Show
    <1>3. ASSUME NEW j \in fetchesFlying, Fetching!Fetched(j) PROVE IFlags'
      <2>1. (astray \/ tracker[j.key].job # j.id) \in BOOLEAN BY Zenon
      <2> QED BY <2>1, <1>3, Zenon DEF Fetching!Fetched
    <1>4. ASSUME NEW j \in fetchesFlying, Fetching!Fruitless(j) PROVE IFlags'
      <2>1. (\/ astray \/ tracker[j.key].job \notin {0, j.id}
             \/ \E p \in Panes : awaited[p] = j.id) \in BOOLEAN
        BY Zenon
      <2> QED BY <2>1, <1>4, Zenon DEF Fetching!Fruitless
    <1>5. CASE Fetching!Pump BY <1>5, Zenon DEF Fetching!Pump
    <1>6. CASE Fetching!Leave BY <1>6, Zenon DEF Fetching!Leave
    <1>7. CASE Fetching!Return BY <1>7, Zenon DEF Fetching!Return
    <1> QED BY <1>1, <1>2, <1>3, <1>4, <1>5, <1>6, <1>7 DEF Fetching!ImagesNext

LEMMA IJobsStep == ITypes /\ IJobs /\ Fetching!ImagesNext => IJobs'
PROOF
    <1> SUFFICES ASSUME ITypes, IJobs, Fetching!ImagesNext PROVE IJobs' OBVIOUS
    <1> USE LiveNumbers
    <1>0. /\ asked \in Nat /\ asked <= MaxFetches /\ epoch \in 0 .. MaxVisits
          /\ Cardinality(waiting) \in Nat /\ Cardinality(fetchesFlying) \in Nat
          /\ IsFiniteSet(waiting) /\ IsFiniteSet(fetchesFlying)
          /\ pumps \in Nat
      BY FS_CardinalityType DEF IJobs, ITypes
    <1>keep. ASSUME UNCHANGED <<waiting, fetchesFlying, pumps, asked>> PROVE IJobs'
      BY <1>keep DEF IJobs
    <1>1. ASSUME NEW p \in Panes, Fetching!Hide(p) PROVE IJobs'
      BY <1>1, <1>keep DEF Fetching!Hide
    <1>2. ASSUME NEW p \in Panes, NEW k \in Keys, Fetching!Show(p, k) PROVE IJobs'
      <2>1. CASE UNCHANGED <<waiting, pumps, asked>>
        BY <1>2, <2>1, <1>keep DEF Fetching!Show
      <2>2. CASE /\ asked < MaxFetches /\ asked' = asked + 1
                 /\ waiting' = waiting \cup {[id |-> asked', key |-> k, rank |-> p, epoch |-> epoch]}
                 /\ pumps' = pumps + 1
        <3> DEFINE j == [id |-> asked + 1, key |-> k, rank |-> p, epoch |-> epoch]
        <3>1. j \in Fetching!Job /\ j.id = asked + 1
          BY <1>0, <2>2 DEF Fetching!Job
        <3>2. waiting' = waiting \cup {j} /\ fetchesFlying' = fetchesFlying
          BY <1>2, <2>2 DEF Fetching!Show
        <3>3. j \notin waiting /\ j \notin fetchesFlying
          BY <1>0, <3>1 DEF IJobs
        <3> HIDE DEF j
        <3>4. IsFiniteSet(waiting') /\ Cardinality(waiting') = Cardinality(waiting) + 1
          BY ONLY <1>0, <3>2, <3>3, FS_AddElement
        <3>5. waiting' \subseteq Fetching!Job BY <3>1, <3>2 DEF IJobs
        <3>6. \A i \in waiting' \cup fetchesFlying' : i.id <= asked'
          <4>1. \A i \in waiting \cup fetchesFlying : i.id \in Nat /\ i.id <= asked
            BY DEF IJobs, Fetching!Job
          <4> QED BY <1>0, <2>2, <3>1, <3>2, <4>1
        <3>7. Cardinality(waiting') <= pumps' \/ Cardinality(fetchesFlying') >= FetchSlots
          BY <1>0, <2>2, <3>2, <3>4 DEF IJobs
        <3> QED BY <1>0, <2>2, <3>2, <3>3, <3>4, <3>5, <3>6, <3>7 DEF IJobs
      <2> QED BY <1>2, <2>1, <2>2 DEF Fetching!Show
    <1>3. ASSUME NEW j \in fetchesFlying, Fetching!Fetched(j) \/ Fetching!Fruitless(j) PROVE IJobs'
      <2>1. /\ pumps = 0 /\ UNCHANGED <<pumps, asked>>
            /\ Fetching!Dispatch(fetchesFlying \ {j})
        BY <1>3 DEF Fetching!Fetched, Fetching!Fruitless
      <2> DEFINE free == fetchesFlying \ {j}
      <2>2. Cardinality(free) = Cardinality(fetchesFlying) - 1
        BY ONLY <1>0, <1>3, FS_RemoveElement
      <2>3. waiting = {} \/ Cardinality(fetchesFlying) >= FetchSlots
        <3>1. Cardinality(waiting) = 0 => waiting = {} BY <1>0, FS_EmptySet
        <3> QED BY <1>0, <2>1, <3>1 DEF IJobs
      <2>4. free \in SUBSET fetchesFlying OBVIOUS
      <2> HIDE DEF free
      <2>5. /\ waiting' \subseteq Fetching!Job /\ fetchesFlying' \subseteq Fetching!Job
            /\ IsFiniteSet(waiting') /\ IsFiniteSet(fetchesFlying')
            /\ waiting' \cap fetchesFlying' = {}
            /\ \A i \in waiting' \cup fetchesFlying' : i.id <= asked
            /\ Cardinality(fetchesFlying') <= FetchSlots
            /\ \/ waiting' = {}
               \/ Cardinality(free) >= FetchSlots /\ Cardinality(fetchesFlying') >= FetchSlots
               \/ /\ Cardinality(waiting') = Cardinality(waiting) - 1
                  /\ Cardinality(fetchesFlying') = Cardinality(free) + 1
        BY <2>1, <2>4, Dispatched DEF free
      <2>6. Cardinality(waiting') \in Nat BY <2>5, FS_CardinalityType
      <2>7. waiting = {} => Cardinality(waiting) = 0 BY FS_EmptySet
      <2>8. waiting' = {} => Cardinality(waiting') = 0 BY FS_EmptySet
      <2>9. Cardinality(waiting') <= pumps' \/ Cardinality(fetchesFlying') >= FetchSlots
        BY <1>0, <2>1, <2>2, <2>3, <2>5, <2>6, <2>7, <2>8
      <2> QED BY <2>1, <2>5, <2>9 DEF IJobs
    <1>5. CASE Fetching!Pump
      <2>1. /\ pumps > 0 /\ pumps' = pumps - 1 /\ asked' = asked
            /\ Fetching!Dispatch(fetchesFlying)
        BY <1>5 DEF Fetching!Pump
      <2>2. fetchesFlying \in SUBSET fetchesFlying OBVIOUS
      <2>5. /\ waiting' \subseteq Fetching!Job /\ fetchesFlying' \subseteq Fetching!Job
            /\ IsFiniteSet(waiting') /\ IsFiniteSet(fetchesFlying')
            /\ waiting' \cap fetchesFlying' = {}
            /\ \A i \in waiting' \cup fetchesFlying' : i.id <= asked
            /\ Cardinality(fetchesFlying') <= FetchSlots
            /\ \/ waiting' = {}
               \/ Cardinality(fetchesFlying) >= FetchSlots
                  /\ Cardinality(fetchesFlying') >= FetchSlots
               \/ /\ Cardinality(waiting') = Cardinality(waiting) - 1
                  /\ Cardinality(fetchesFlying') = Cardinality(fetchesFlying) + 1
        BY <2>1, <2>2, Dispatched
      <2>6. waiting' = {} => Cardinality(waiting') = 0 BY FS_EmptySet
      <2>7. Cardinality(fetchesFlying') \in Nat BY <2>5, FS_CardinalityType
      <2>8. Cardinality(waiting) <= pumps \/ Cardinality(fetchesFlying) >= FetchSlots BY DEF IJobs
      <2>9. Cardinality(waiting') <= pumps' \/ Cardinality(fetchesFlying') >= FetchSlots
        BY <1>0, <2>1, <2>5, <2>6, <2>7, <2>8
      <2>10. pumps' \in Nat /\ pumps' <= asked' BY <1>0, <2>1 DEF IJobs
      <2> QED BY <2>1, <2>5, <2>9, <2>10 DEF IJobs
    <1>6. CASE Fetching!Leave
      <2>1. waiting' = {} /\ UNCHANGED <<fetchesFlying, pumps, asked>> BY <1>6 DEF Fetching!Leave
      <2>2. IsFiniteSet({}) /\ Cardinality({}) = 0 BY FS_EmptySet
      <2> QED BY <1>0, <2>1, <2>2 DEF IJobs
    <1>7. CASE Fetching!Return BY <1>7, <1>keep DEF Fetching!Return
    <1> QED BY <1>1, <1>2, <1>3, <1>5, <1>6, <1>7 DEF Fetching!ImagesNext

\* A pane joins the fetch of its key, one under way or a new one.
JoinsAs(n, m, store, refs, k, job, tr) ==
    /\ n \in Nat /\ m \in Nat /\ n <= m /\ Consistent(store, refs, n)
    /\ k \in Keys /\ ~Has(store, k)
    /\ job \in 1 .. MaxFetches /\ job <= m /\ refs[k].job \in {0, job}
    /\ \A l \in Keys : l # k => refs[l].job # job
    /\ tr \in [Keys -> Tracker] /\ tr[k].job = job /\ \A l \in Keys : l # k => tr[l] = refs[l]

LEMMA Joins ==
    ASSUME NEW n, NEW m, NEW store, NEW refs, NEW p \in Panes, NEW k, NEW job, NEW tr,
           JoinsAs(n, m, store, refs, k, job, tr)
    PROVE  /\ Consistent(store, tr, m)
           /\ \A w \in [Panes -> Keys \cup {"none"}], a \in [Panes -> 0 .. MaxFetches] : \A im :
                 w[p] = "none" /\ Counted(w, a, im, store, refs)
                 /\ tr[k].refs = HoldersOf(w, k) + 1
                 => Counted([w EXCEPT ![p] = k], [a EXCEPT ![p] = job], im, store, tr)
PROOF
    <1> USE LiveNumbers DEF JoinsAs
    <1>0. /\ \A l \in Keys : refs[l].job <= n /\ refs[l] \in Tracker
          /\ \A l \in Keys : refs[l].job \in Nat
          /\ "none" \notin Keys
      BY LiveAssumption DEF Consistent, Tracker
    <1>1. Consistent(store, tr, m)
      <2>1. \A l \in Keys : tr[l].job <= m BY <1>0
      <2> QED BY <2>1 DEF Consistent
    <1>2. ASSUME NEW w \in [Panes -> Keys \cup {"none"}], w[p] = "none",
                 NEW a \in [Panes -> 0 .. MaxFetches], NEW im,
                 Counted(w, a, im, store, refs), tr[k].refs = HoldersOf(w, k) + 1
          PROVE  Counted([w EXCEPT ![p] = k], [a EXCEPT ![p] = job], im, store, tr)
      <2> DEFINE v == [w EXCEPT ![p] = k]
                 b == [a EXCEPT ![p] = job]
      <2>1. \A l \in Keys : HoldersOf(v, l) = IF l = k THEN HoldersOf(w, l) + 1 ELSE HoldersOf(w, l)
        <3>1. k \in Keys \cup {"none"} OBVIOUS
        <3>2. Recount(w, p, k, v) BY <3>1, HoldersMove DEF v
        <3> QED BY <1>0, <1>2, <3>2 DEF Recount
      <2>2. /\ \A q \in Panes : v[q] = IF q = p THEN k ELSE w[q]
            /\ \A q \in Panes : b[q] = IF q = p THEN job ELSE a[q]
            /\ \A q \in Panes : w[q] \in Keys \cup {"none"}
        OBVIOUS
      <2> HIDE DEF v, b
      <2>3. ASSUME NEW e \in ToSet(store) PROVE e.refs = HoldersOf(v, e.key)
        <3>1. e.key \in Keys /\ e.key # k BY Entries DEF Consistent, Has
        <3> QED BY <1>2, <2>1, <3>1 DEF Counted
      <2>4. ASSUME NEW l \in Keys, tr[l].job # 0 PROVE tr[l].refs = HoldersOf(v, l)
        BY <1>2, <2>1, <2>4 DEF Counted
      <2>5. ASSUME NEW q \in Panes, b[q] # 0 PROVE v[q] # "none" /\ tr[v[q]].job = b[q]
        <3>1. CASE q = p BY <1>0, <2>2, <3>1
        <3>2. CASE q # p
          <4>1. w[q] \in Keys /\ refs[w[q]].job = a[q] /\ a[q] # 0
            BY <1>2, <2>2, <2>5, <3>2 DEF Counted
          <4>2. v[q] = w[q] /\ b[q] = a[q] BY <2>2, <3>2
          <4>3. tr[w[q]].job = refs[w[q]].job BY <4>1
          <4> QED BY <1>0, <4>1, <4>2, <4>3
        <3> QED BY <3>1, <3>2
      <2>6. ASSUME NEW q \in Panes, b[q] = 0, v[q] # "none"
            PROVE  \E e \in ToSet(store) : e.key = v[q] /\ e.url = im[q]
        BY <1>2, <2>2, <2>6 DEF Counted
      <2> QED BY <2>3, <2>4, <2>5, <2>6 DEF Counted, v, b
    <1> QED BY <1>1, <1>2

\* A pane finds its picture in the cache.
LEMMA Finds ==
    ASSUME NEW n \in Nat, NEW store, NEW refs, Consistent(store, refs, n),
           NEW p \in Panes, NEW k \in Keys, Has(store, k)
    PROVE  LET e == store[Fetching!EntryOf(store, k)]
               c == Recounted(store, k, e.refs + 1) IN
           /\ e.url \in 1 .. MaxFetches /\ e.refs \in Nat
           /\ Consistent(c, refs, n)
           /\ \A w \in [Panes -> Keys \cup {"none"}], a \in [Panes -> 0 .. MaxFetches] : \A im :
                 w[p] = "none" /\ a[p] = 0 /\ im[p] = e.url /\ Counted(w, a, im, store, refs)
                 => Counted([w EXCEPT ![p] = k], a, im, c, refs)
PROOF
    <1> DEFINE e == store[Fetching!EntryOf(store, k)]
               c == Recounted(store, k, e.refs + 1)
               new == [key |-> k, url |-> e.url, refs |-> e.refs + 1]
    <1> USE LiveNumbers
    <1>1. Orderly(store) /\ "none" \notin Keys BY LiveAssumption DEF Consistent
    <1>2. e \in ToSet(store) /\ e.key = k /\ e \in Entry
      BY ONLY <1>1, Has(store, k), 0 \in Nat, EntryChanged DEF e
    <1>3. e.url \in 1 .. MaxFetches /\ e.refs \in Nat /\ e.refs + 1 \in Nat BY <1>2 DEF Entry
    <1>4. Orderly(c) /\ ToSet(c) = (ToSet(store) \ {e}) \cup {new}
      BY ONLY <1>1, <1>3, Has(store, k), EntryChanged DEF e, c, new
    <1>5. new.key = k /\ new.url = e.url /\ new.refs = e.refs + 1 OBVIOUS
    <1> HIDE DEF e, c, new
    <1>6. \A l \in Keys : Has(c, l) => Has(store, l) BY <1>2, <1>4, <1>5 DEF Has
    <1>7. Consistent(c, refs, n) BY <1>4, <1>6 DEF Consistent
    <1>8. ASSUME NEW w \in [Panes -> Keys \cup {"none"}], w[p] = "none",
                 NEW a \in [Panes -> 0 .. MaxFetches], a[p] = 0, NEW im, im[p] = e.url,
                 Counted(w, a, im, store, refs)
          PROVE  Counted([w EXCEPT ![p] = k], a, im, c, refs)
      <2> DEFINE v == [w EXCEPT ![p] = k]
      <2>1. \A l \in Keys : HoldersOf(v, l) = IF l = k THEN HoldersOf(w, l) + 1 ELSE HoldersOf(w, l)
        <3>1. k \in Keys \cup {"none"} OBVIOUS
        <3>2. Recount(w, p, k, v) BY <3>1, HoldersMove DEF v
        <3> QED BY <1>1, <1>8, <3>2 DEF Recount
      <2>2. /\ \A q \in Panes : v[q] = IF q = p THEN k ELSE w[q]
            /\ \A q \in Panes : w[q] \in Keys \cup {"none"}
        OBVIOUS
      <2> HIDE DEF v
      <2>3. ASSUME NEW f \in ToSet(c) PROVE f.refs = HoldersOf(v, f.key)
        <3>1. CASE f = new BY <1>2, <1>5, <1>8, <2>1, <3>1 DEF Counted
        <3>2. CASE f \in ToSet(store) /\ f # e
          <4>1. f.key \in Keys /\ f.key # k BY <1>1, <1>2, <3>2, Entries DEF Orderly
          <4> QED BY <1>8, <2>1, <3>2, <4>1 DEF Counted
        <3> QED BY <1>4, <3>1, <3>2
      <2>4. ASSUME NEW l \in Keys, refs[l].job # 0 PROVE refs[l].refs = HoldersOf(v, l)
        <3>1. l # k BY <2>4 DEF Consistent
        <3> QED BY <1>8, <2>1, <2>4, <3>1 DEF Counted
      <2>5. ASSUME NEW q \in Panes, a[q] # 0 PROVE v[q] # "none" /\ refs[v[q]].job = a[q]
        BY <1>8, <2>2, <2>5 DEF Counted
      <2>6. ASSUME NEW q \in Panes, a[q] = 0, v[q] # "none"
            PROVE  \E f \in ToSet(c) : f.key = v[q] /\ f.url = im[q]
        <3>1. CASE q = p
          <4>1. new \in ToSet(c) /\ new.key = v[q] /\ new.url = im[q]
            BY <1>4, <1>5, <1>8, <2>2, <3>1
          <4> QED BY <4>1
        <3>2. CASE q # p
          <4>1. PICK f \in ToSet(store) : f.key = v[q] /\ f.url = im[q]
            BY <1>8, <2>2, <2>6, <3>2 DEF Counted
          <4>2. CASE f = e
            <5>1. new \in ToSet(c) /\ new.key = v[q] /\ new.url = im[q]
              BY <1>2, <1>4, <1>5, <4>1, <4>2
            <5> QED BY <5>1
          <4>3. CASE f # e BY <1>4, <4>1, <4>3
          <4> QED BY <4>2, <4>3
        <3> QED BY <3>1, <3>2
      <2> QED BY <2>3, <2>4, <2>5, <2>6 DEF Counted, v
    <1> QED BY <1>3, <1>7, <1>8 DEF e, c

LEMMA HideStep ==
    ASSUME Stored, NEW p \in Panes, Fetching!Hide(p)
    PROVE  Stored'
PROOF
    <1> USE LiveNumbers
    <1>1. /\ cache' = Fetching!ReleasedCache(wants[p]) /\ tracker' = Fetching!ReleasedTracker(wants[p])
          /\ wants' = [wants EXCEPT ![p] = "none"] /\ awaited' = [awaited EXCEPT ![p] = 0]
          /\ image' = [image EXCEPT ![p] = 0] /\ UNCHANGED <<epoch, asked, astray>>
      BY Borrowed DEF Fetching!Hide
    <1>2. ITypes' BY <1>1 DEF Stored, ITypes
    <1>3. \A q \in Panes : q # p => image'[q] = image[q] BY <1>1 DEF Stored, ITypes
    <1>4. /\ Consistent(cache', tracker', asked)
          /\ Counted(wants, awaited, image, cache, tracker) =>
                Counted(wants', awaited', image', cache', tracker')
      BY <1>1, <1>3, Released DEF Stored
    <1> QED BY <1>1, <1>2, <1>4 DEF Stored

LEMMA ShowStep ==
    ASSUME Stored, NEW p \in Panes, NEW k \in Keys, Fetching!Show(p, k)
    PROVE  Stored'
PROOF
    <1> USE LiveNumbers
    <1> DEFINE store == Fetching!ReleasedCache(wants[p])
               refs == Fetching!ReleasedTracker(wants[p])
               shown == IF image[p] = -1 THEN 0 ELSE image[p]
               w == [wants EXCEPT ![p] = "none"]
               a == [awaited EXCEPT ![p] = 0]
    <1>0. /\ wants \in [Panes -> Keys \cup {"none"}] /\ awaited \in [Panes -> 0 .. MaxFetches]
          /\ image \in [Panes -> -1 .. MaxFetches] /\ asked \in Nat /\ asked <= MaxFetches
          /\ epoch \in 0 .. MaxVisits
      BY DEF Stored, ITypes
    <1>1. /\ wants' = [wants EXCEPT ![p] = k] /\ UNCHANGED <<epoch, astray>>
          /\ \/ /\ Has(store, k)
                /\ cache' = [store EXCEPT ![Fetching!EntryOf(store, k)].refs = @ + 1]
                /\ image' = [image EXCEPT ![p] = store[Fetching!EntryOf(store, k)].url]
                /\ awaited' = [awaited EXCEPT ![p] = 0]
                /\ tracker' = refs /\ asked' = asked
             \/ /\ ~Has(store, k) /\ refs[k].job # 0
                /\ tracker' = [refs EXCEPT ![k].refs = @ + 1]
                /\ awaited' = [awaited EXCEPT ![p] = refs[k].job]
                /\ image' = [image EXCEPT ![p] = shown]
                /\ cache' = store /\ asked' = asked
             \/ /\ ~Has(store, k) /\ refs[k].job = 0 /\ asked < MaxFetches
                /\ asked' = asked + 1
                /\ tracker' = [refs EXCEPT ![k] = [job |-> asked', refs |-> 1]]
                /\ awaited' = [awaited EXCEPT ![p] = asked']
                /\ image' = [image EXCEPT ![p] = shown]
                /\ cache' = store
      BY Borrowed DEF Fetching!Show
    <1>2. /\ Consistent(store, refs, asked)
          /\ \A l \in Keys : refs[l].job = tracker[l].job
          /\ \A im : (\A q \in Panes : q # p => im[q] = image[q]) =>
                (Counted(wants, awaited, image, cache, tracker) => Counted(w, a, im, store, refs))
      BY Released DEF Stored
    <1> HIDE DEF store, refs
    <1>3. shown \in -1 .. MaxFetches BY <1>0
    <1> HIDE DEF shown
    <1>4. /\ w \in [Panes -> Keys \cup {"none"}] /\ w[p] = "none"
          /\ a \in [Panes -> 0 .. MaxFetches] /\ a[p] = 0
          /\ wants' = [w EXCEPT ![p] = k]
          /\ \A x : [a EXCEPT ![p] = x] = [awaited EXCEPT ![p] = x]
      <2>1. w \in [Panes -> Keys \cup {"none"}] /\ w[p] = "none" BY <1>0
      <2>2. a \in [Panes -> 0 .. MaxFetches] /\ a[p] = 0 BY <1>0
      <2>3. wants' = [w EXCEPT ![p] = k] BY <1>0, <1>1
      <2>4. ASSUME NEW x PROVE [a EXCEPT ![p] = x] = [awaited EXCEPT ![p] = x] BY <1>0
      <2> QED BY <2>1, <2>2, <2>3, <2>4
    <1>5. a = [awaited EXCEPT ![p] = 0] OBVIOUS
    <1> HIDE DEF w, a
    <1>6. wants' \in [Panes -> Keys \cup {"none"}] BY <1>0, <1>1
    <1>7. CASE Has(store, k)
      <2> DEFINE e == store[Fetching!EntryOf(store, k)]
                 c == Recounted(store, k, e.refs + 1)
      <2>1. /\ e.url \in 1 .. MaxFetches /\ e.refs \in Nat
            /\ Consistent(c, refs, asked)
            /\ \A im : im[p] = e.url /\ Counted(w, a, im, store, refs) =>
                  Counted([w EXCEPT ![p] = k], a, im, c, refs)
        <3>1. /\ e.url \in 1 .. MaxFetches /\ e.refs \in Nat /\ Consistent(c, refs, asked)
          BY <1>0, <1>2, <1>7, Finds
        <3>2. ASSUME NEW im, im[p] = e.url, Counted(w, a, im, store, refs)
              PROVE  Counted([w EXCEPT ![p] = k], a, im, c, refs)
          BY <1>0, <1>2, <1>4, <1>7, <3>2, Finds
        <3> QED BY <3>1, <3>2
      <2>2. /\ cache' = c /\ image' = [image EXCEPT ![p] = e.url] /\ awaited' = a
            /\ tracker' = refs /\ asked' = asked
        BY <1>1, <1>5, <1>7 DEF Recounted
      <2> HIDE DEF c, e
      <2>3. /\ image' \in [Panes -> -1 .. MaxFetches] /\ image'[p] = e.url
            /\ \A q \in Panes : q # p => image'[q] = image[q]
        BY <1>0, <2>1, <2>2
      <2>4. ITypes' BY <1>0, <1>1, <1>4, <1>6, <2>2, <2>3 DEF ITypes
      <2>5. ~astray' => Counted(wants', awaited', image', cache', tracker')
        <3> SUFFICES ASSUME ~astray' PROVE Counted(wants', awaited', image', cache', tracker')
          OBVIOUS
        <3>1. Counted(wants, awaited, image, cache, tracker) BY <1>1 DEF Stored
        <3>2. Counted(w, a, image', store, refs) BY <1>2, <2>3, <3>1
        <3>3. Counted([w EXCEPT ![p] = k], a, image', c, refs) BY <2>1, <2>3, <3>2
        <3> QED BY <1>4, <2>2, <3>3
      <2> QED BY <2>1, <2>2, <2>4, <2>5 DEF Stored
    <1>8. CASE ~Has(store, k)
      <2> DEFINE job == IF refs[k].job # 0 THEN refs[k].job ELSE asked + 1
      <2>0. refs[k] \in Tracker /\ refs \in [Keys -> Tracker]
            /\ \A l \in Keys : refs[l].job \in Nat /\ refs[l].job <= asked
        BY <1>2 DEF Consistent, Tracker
      <2>1. /\ cache' = store /\ image' = [image EXCEPT ![p] = shown]
            /\ awaited' = [awaited EXCEPT ![p] = job]
            /\ tracker'[k].job = job /\ tracker' \in [Keys -> Tracker]
            /\ \A l \in Keys : l # k => tracker'[l] = refs[l]
            /\ refs[k].job # 0 => tracker'[k].refs = refs[k].refs + 1
            /\ refs[k].job = 0 => tracker'[k].refs = 1
            /\ job \in 1 .. MaxFetches /\ job <= asked'
            /\ asked' \in 0 .. MaxFetches /\ asked <= asked'
        <3>1. CASE refs[k].job # 0
          <4>1. /\ tracker' = [refs EXCEPT ![k].refs = @ + 1] /\ asked' = asked
                /\ awaited' = [awaited EXCEPT ![p] = refs[k].job]
                /\ image' = [image EXCEPT ![p] = shown] /\ cache' = store
            BY <1>1, <1>8, <3>1
          <4>2. tracker' = [refs EXCEPT ![k] = [refs[k] EXCEPT !.refs = refs[k].refs + 1]]
            BY <2>0, <4>1
          <4>3. /\ [refs[k] EXCEPT !.refs = refs[k].refs + 1] \in Tracker
                /\ [refs[k] EXCEPT !.refs = refs[k].refs + 1].job = refs[k].job
                /\ [refs[k] EXCEPT !.refs = refs[k].refs + 1].refs = refs[k].refs + 1
            BY <2>0 DEF Tracker
          <4>5. /\ tracker' \in [Keys -> Tracker] /\ tracker'[k].job = refs[k].job
                /\ tracker'[k].refs = refs[k].refs + 1
                /\ \A l \in Keys : l # k => tracker'[l] = refs[l]
            BY <2>0, <4>2, <4>3
          <4>4. job = refs[k].job /\ job \in 1 .. MaxFetches /\ job <= asked'
            BY <1>0, <2>0, <3>1, <4>1
          <4> HIDE DEF job
          <4> QED BY <1>0, <3>1, <4>1, <4>4, <4>5
        <3>2. CASE refs[k].job = 0
          <4>1. /\ asked < MaxFetches /\ asked' = asked + 1
                /\ tracker' = [refs EXCEPT ![k] = [job |-> asked + 1, refs |-> 1]]
                /\ awaited' = [awaited EXCEPT ![p] = asked + 1]
                /\ image' = [image EXCEPT ![p] = shown] /\ cache' = store
            BY <1>1, <1>8, <3>2
          <4>2. [job |-> asked + 1, refs |-> 1] \in Tracker BY <1>0, <4>1 DEF Tracker
          <4>3. job = asked + 1 BY <3>2
          <4> HIDE DEF job
          <4> QED BY <1>0, <2>0, <3>2, <4>1, <4>2, <4>3
        <3> QED BY <3>1, <3>2
      <2>2. refs[k].job \in {0, job} /\ \A l \in Keys : l # k => refs[l].job # job
        <3>1. CASE refs[k].job # 0 BY <1>2, <3>1 DEF Consistent
        <3>2. CASE refs[k].job = 0 BY <1>0, <2>0, <3>2
        <3> QED BY <3>1, <3>2
      <2> HIDE DEF job
      <2>3. /\ Consistent(store, tracker', asked')
            /\ \A im : Counted(w, a, im, store, refs) /\ tracker'[k].refs = HoldersOf(w, k) + 1 =>
                  Counted([w EXCEPT ![p] = k], [a EXCEPT ![p] = job], im, store, tracker')
        <3>0. asked' \in Nat BY <2>1
        <3>1. JoinsAs(asked, asked', store, refs, k, job, tracker')
          BY <1>0, <1>2, <1>8, <2>1, <2>2, <3>0 DEF JoinsAs
        <3>2. /\ Consistent(store, tracker', asked')
              /\ \A v \in [Panes -> Keys \cup {"none"}], b \in [Panes -> 0 .. MaxFetches] : \A im :
                    v[p] = "none" /\ Counted(v, b, im, store, refs)
                    /\ tracker'[k].refs = HoldersOf(v, k) + 1
                    => Counted([v EXCEPT ![p] = k], [b EXCEPT ![p] = job], im, store, tracker')
          BY <3>1, Joins
        <3> QED BY <1>4, <3>2
      <2>4. /\ image' \in [Panes -> -1 .. MaxFetches]
            /\ \A q \in Panes : q # p => image'[q] = image[q]
        BY <1>0, <1>3, <2>1
      <2>5. ITypes'
        <3>1. awaited' \in [Panes -> 0 .. MaxFetches] BY <1>0, <2>1
        <3> QED BY <1>0, <1>1, <1>6, <2>1, <2>4, <3>1 DEF ITypes
      <2>6. ASSUME Counted(w, a, image', store, refs) PROVE tracker'[k].refs = HoldersOf(w, k) + 1
        <3>1. CASE refs[k].job # 0 BY <2>1, <2>6, <3>1 DEF Counted
        <3>2. CASE refs[k].job = 0
          <4>1. ASSUME NEW q \in Panes, w[q] = k PROVE FALSE
            <5>1. k # "none" BY LiveAssumption
            <5>2. CASE a[q] # 0 BY <2>6, <3>2, <4>1, <5>2 DEF Counted
            <5>3. CASE a[q] = 0 BY <1>8, <2>6, <4>1, <5>1, <5>3 DEF Counted, Has
            <5> QED BY <5>2, <5>3
          <4>2. HoldersOf(w, k) = 0
            <5>1. k \in Keys \cup {"none"} OBVIOUS
            <5>2. Recount(w, p, k, [w EXCEPT ![p] = k]) BY <1>4, <5>1, HoldersMove
            <5> QED BY <4>1, <5>2 DEF Recount
          <4> QED BY <2>1, <3>2, <4>2
        <3> QED BY <3>1, <3>2
      <2>7. ~astray' => Counted(wants', awaited', image', cache', tracker')
        <3> SUFFICES ASSUME ~astray' PROVE Counted(wants', awaited', image', cache', tracker')
          OBVIOUS
        <3>1. Counted(wants, awaited, image, cache, tracker) BY <1>1 DEF Stored
        <3>2. Counted(w, a, image', store, refs) BY <1>2, <2>4, <3>1
        <3> QED BY <1>4, <2>1, <2>3, <2>6, <3>2
      <2> QED BY <2>1, <2>3, <2>5, <2>7 DEF Stored
    <1> QED BY <1>7, <1>8

\* the tracker of a key goes when its fetch ends
LEMMA TrackerEnds ==
    ASSUME NEW n, NEW c, Consistent(c, tracker, n), NEW k \in Keys,
           tracker' = [tracker EXCEPT ![k] = Fetching!NoTracker]
    PROVE  /\ tracker' \in [Keys -> Tracker] /\ tracker'[k].job = 0
           /\ \A l \in Keys : l # k => tracker'[l] = tracker[l]
           /\ \A l \in Keys : tracker'[l].job # 0 => l # k
           /\ \A l, m \in Keys : tracker'[l].job = tracker'[m].job /\ tracker'[l].job # 0 => l = m
PROOF
    <1> USE LiveNumbers
    <1>0. tracker \in [Keys -> Tracker] BY DEF Consistent
    <1>1. [job |-> 0, refs |-> 0] \in Tracker BY DEF Tracker
    <1>2. tracker' = [tracker EXCEPT ![k] = [job |-> 0, refs |-> 0]] BY Borrowed
    <1>3. tracker' \in [Keys -> Tracker] /\ tracker'[k] = [job |-> 0, refs |-> 0]
          /\ \A l \in Keys : l # k => tracker'[l] = tracker[l]
      BY <1>0, <1>1, <1>2
    <1>4. tracker'[k].job = 0 BY <1>3
    <1>5. \A l \in Keys : tracker'[l].job # 0 => l # k BY <1>4
    <1>6. \A l, m \in Keys : tracker'[l].job = tracker'[m].job /\ tracker'[l].job # 0 => l = m
      BY <1>3, <1>4, <1>5 DEF Consistent
    <1> QED BY <1>3, <1>4, <1>5, <1>6

\* the panes that await fetch id are settled with url
LEMMA PanesSettled ==
    ASSUME ITypes, NEW id \in 1 .. MaxFetches, NEW url \in -1 .. MaxFetches, NEW j, j.id = id,
           image' = Fetching!Settled(j, url),
           awaited' = [p \in Panes |-> IF awaited[p] = id THEN 0 ELSE awaited[p]]
    PROVE  /\ image' \in [Panes -> -1 .. MaxFetches] /\ awaited' \in [Panes -> 0 .. MaxFetches]
           /\ \A p \in Panes : /\ image'[p] = IF awaited[p] = id THEN url ELSE image[p]
                               /\ awaited'[p] = IF awaited[p] = id THEN 0 ELSE awaited[p]
  BY LiveNumbers DEF ITypes, Fetching!Settled

LEMMA FetchedStep ==
    ASSUME Stored, IJobs, NEW j \in fetchesFlying, Fetching!Fetched(j)
    PROVE  Stored'
PROOF
    <1> USE LiveNumbers
    <1> DEFINE k == j.key
               id == j.id
               kept == Kept(cache, {e \in ToSet(cache) : e.key # k})
               new == [key |-> k, url |-> id, refs |-> Fetching!Seed(j)]
               c == Append(kept, new)
    <1>0. Consistent(cache, tracker, asked) /\ ITypes BY DEF Stored
    <1>1. k \in Keys /\ id \in 1 .. MaxFetches
      BY DEF IJobs, Fetching!Job
    <1>2. /\ cache' = Fetching!PruneLRU(c) /\ tracker' = [tracker EXCEPT ![k] = Fetching!NoTracker]
          /\ image' = Fetching!Settled(j, id)
          /\ awaited' = [p \in Panes |-> IF awaited[p] = id THEN 0 ELSE awaited[p]]
          /\ UNCHANGED <<wants, epoch, asked>>
          /\ ~astray' => ~astray /\ tracker[k].job = id
      BY Borrowed DEF Fetching!Fetched
    <1>3. Fetching!Seed(j) \in Nat /\ (tracker[k].job # 0 => Fetching!Seed(j) = tracker[k].refs)
      BY <1>0, <1>1 DEF Fetching!Seed, Consistent, Tracker
    <1>4. new \in Entry /\ new.key = k /\ new.url = id /\ new.refs = Fetching!Seed(j)
      BY <1>1, <1>3 DEF Entry
    <1> HIDE DEF new, k, id
    <1>5. Orderly(c) /\ ToSet(c) = {e \in ToSet(cache) : e.key # k} \cup {new}
      <2>1. cache \in Seq(Entry) /\ Once(cache) BY <1>0 DEF Consistent, Orderly
      <2>2. /\ kept \in Seq(Entry) /\ Once(kept)
            /\ ToSet(kept) = ToSet(cache) \cap {e \in ToSet(cache) : e.key # k}
        BY <2>1, KeptOnce
      <2> HIDE DEF kept
      <2>3. new \notin ToSet(kept) BY <1>4, <2>2
      <2>4. c \in Seq(Entry) /\ Once(c) /\ ToSet(c) = ToSet(kept) \cup {new}
        BY <1>4, <2>2, <2>3, AppendOnce
      <2> HIDE DEF c
      <2>5. ToSet(c) = {e \in ToSet(cache) : e.key # k} \cup {new} BY <2>2, <2>4
      <2>6. \A e, f \in ToSet(c) : e.key = f.key => e = f
        BY <1>0, <1>4, <2>5 DEF Consistent, Orderly
      <2> QED BY <2>4, <2>5, <2>6 DEF Orderly
    <1> HIDE DEF c
    <1>6. /\ Orderly(cache') /\ ToSet(cache') \subseteq ToSet(c)
          /\ \A e \in ToSet(c) : e.refs # 0 => e \in ToSet(cache')
      BY <1>2, <1>5, PruneDrops
    <1>7. /\ tracker' \in [Keys -> Tracker] /\ tracker'[k].job = 0
          /\ \A l \in Keys : l # k => tracker'[l] = tracker[l]
          /\ \A l \in Keys : tracker'[l].job # 0 => l # k
          /\ \A l, m \in Keys : tracker'[l].job = tracker'[m].job /\ tracker'[l].job # 0 => l = m
      BY <1>0, <1>1, <1>2, TrackerEnds
    <1>8. /\ image' \in [Panes -> -1 .. MaxFetches] /\ awaited' \in [Panes -> 0 .. MaxFetches]
          /\ \A p \in Panes : /\ image'[p] = IF awaited[p] = id THEN id ELSE image[p]
                              /\ awaited'[p] = IF awaited[p] = id THEN 0 ELSE awaited[p]
      <2>1. id \in -1 .. MaxFetches /\ j.id = id BY <1>1 DEF id
      <2> QED BY <1>0, <1>1, <1>2, <2>1, PanesSettled
    <1>9. ITypes' BY <1>0, <1>2, <1>8 DEF ITypes
    <1>10. Consistent(cache', tracker', asked')
      <2>1. \A l \in Keys : l # k /\ Has(cache', l) => Has(cache, l)
        BY <1>4, <1>5, <1>6 DEF Has
      <2>2. \A l \in Keys : tracker'[l].job <= asked'
        <3>1. asked \in Nat BY <1>0 DEF ITypes
        <3> QED BY <1>0, <1>2, <1>7, <3>1 DEF Consistent
      <2>3. \A l \in Keys : tracker'[l].job # 0 => ~Has(cache', l)
        BY <1>0, <1>7, <2>1 DEF Consistent
      <2> QED BY <1>6, <1>7, <2>2, <2>3 DEF Consistent
    <1>11. ASSUME ~astray' PROVE Counted(wants', awaited', image', cache', tracker')
      <2>1. Counted(wants, awaited, image, cache, tracker) /\ tracker[k].job = id /\ id # 0
        BY <1>1, <1>2, <1>11 DEF Stored
      <2>2. \A p \in Panes : wants[p] \in Keys \cup {"none"} BY <1>0 DEF ITypes
      <2>3. new.refs = HoldersOf(wants, k) BY <1>1, <1>3, <1>4, <2>1 DEF Counted
      <2>4. ASSUME NEW e \in ToSet(c) PROVE e.key \in Keys /\ e.refs = HoldersOf(wants, e.key)
        <3>1. e.key \in Keys BY <1>5, Entries
        <3> QED BY <1>4, <1>5, <2>1, <2>3, <3>1 DEF Counted
      <2>5. ASSUME NEW l \in Keys, tracker'[l].job # 0 PROVE tracker'[l].refs = HoldersOf(wants, l)
        BY <1>7, <2>1, <2>5 DEF Counted
      <2>6. ASSUME NEW p \in Panes, awaited'[p] # 0
            PROVE  wants[p] # "none" /\ tracker'[wants[p]].job = awaited'[p]
        <3>1. awaited[p] # 0 /\ awaited[p] # id /\ awaited'[p] = awaited[p] BY <1>8, <2>6
        <3>2. wants[p] \in Keys /\ tracker[wants[p]].job = awaited[p] /\ wants[p] # "none"
          BY <2>1, <2>2, <3>1 DEF Counted
        <3>3. wants[p] # k BY <2>1, <3>1, <3>2
        <3> QED BY <1>7, <3>1, <3>2, <3>3
      <2>7. ASSUME NEW p \in Panes, awaited'[p] = 0, wants[p] # "none"
            PROVE  \E e \in ToSet(cache') : e.key = wants[p] /\ e.url = image'[p]
        <3>1. \E e \in ToSet(c) : e.key = wants[p] /\ e.url = image'[p]
          <4>1. CASE awaited[p] = id
            <5>1. tracker[wants[p]].job = id /\ wants[p] \in Keys
              BY <2>1, <2>2, <2>7, <4>1 DEF Counted
            <5>2. wants[p] = k BY <1>0, <1>1, <2>1, <5>1 DEF Consistent
            <5>3. image'[p] = id BY <1>8, <4>1
            <5> QED BY <1>4, <1>5, <5>2, <5>3
          <4>2. CASE awaited[p] # id
            <5>1. awaited[p] = 0 /\ image'[p] = image[p] BY <1>8, <2>7, <4>2
            <5>2. PICK e \in ToSet(cache) : e.key = wants[p] /\ e.url = image[p]
              BY <2>1, <2>7, <5>1 DEF Counted
            <5>3. e.key # k
              <6>1. ~Has(cache, k) BY <1>0, <1>1, <2>1 DEF Consistent
              <6> QED BY <6>1 DEF Has
            <5> QED BY <1>5, <5>1, <5>2, <5>3
          <4> QED BY <4>1, <4>2
        <3>2. PICK e \in ToSet(c) : e.key = wants[p] /\ e.url = image'[p] BY <3>1
        <3>3. e.refs # 0
          <4>1. "none" \in Keys \cup {"none"} /\ wants \in [Panes -> Keys \cup {"none"}]
            BY <1>0 DEF ITypes
          <4>2. Recount(wants, p, "none", [wants EXCEPT ![p] = "none"]) BY <4>1, HoldersMove
          <4> QED BY <2>2, <2>4, <2>7, <3>2, <4>2 DEF Recount
        <3> QED BY <1>6, <3>2, <3>3
      <2> QED BY <1>2, <1>6, <2>4, <2>5, <2>6, <2>7 DEF Counted
    <1> QED BY <1>9, <1>10, <1>11 DEF Stored

LEMMA FruitlessStep ==
    ASSUME Stored, IJobs, NEW j \in fetchesFlying, Fetching!Fruitless(j)
    PROVE  Stored'
PROOF
    <1> USE LiveNumbers
    <1> DEFINE k == j.key
               id == j.id
    <1>0. Consistent(cache, tracker, asked) /\ ITypes BY DEF Stored
    <1>1. k \in Keys /\ id \in 1 .. MaxFetches BY DEF IJobs, Fetching!Job
    <1>2. /\ tracker' = [tracker EXCEPT ![k] = Fetching!NoTracker]
          /\ image' = Fetching!Settled(j, -1)
          /\ awaited' = [p \in Panes |-> IF awaited[p] = id THEN 0 ELSE awaited[p]]
          /\ UNCHANGED <<wants, cache, epoch, asked>>
      BY Borrowed DEF Fetching!Fruitless
    <1>3. ~astray' => ~astray /\ tracker[k].job \in {0, id} /\ \A p \in Panes : awaited[p] # id
      BY DEF Fetching!Fruitless
    <1> HIDE DEF k, id
    <1>7. /\ tracker' \in [Keys -> Tracker] /\ tracker'[k].job = 0
          /\ \A l \in Keys : l # k => tracker'[l] = tracker[l]
          /\ \A l \in Keys : tracker'[l].job # 0 => l # k
          /\ \A l, m \in Keys : tracker'[l].job = tracker'[m].job /\ tracker'[l].job # 0 => l = m
      BY <1>0, <1>1, <1>2, TrackerEnds
    <1>8. /\ image' \in [Panes -> -1 .. MaxFetches] /\ awaited' \in [Panes -> 0 .. MaxFetches]
          /\ \A p \in Panes : /\ image'[p] = IF awaited[p] = id THEN -1 ELSE image[p]
                              /\ awaited'[p] = IF awaited[p] = id THEN 0 ELSE awaited[p]
      <2>1. -1 \in -1 .. MaxFetches /\ j.id = id BY DEF id
      <2> QED BY <1>0, <1>1, <1>2, <2>1, PanesSettled
    <1>9. ITypes' BY <1>0, <1>2, <1>8 DEF ITypes
    <1>10. Consistent(cache', tracker', asked')
      <2>1. asked \in Nat BY <1>0 DEF ITypes
      <2>2. \A l \in Keys : tracker'[l].job <= asked BY <1>0, <1>7, <2>1 DEF Consistent
      <2>3. \A l \in Keys : tracker'[l].job # 0 => ~Has(cache, l) BY <1>0, <1>7 DEF Consistent
      <2> QED BY <1>0, <1>2, <1>7, <2>2, <2>3 DEF Consistent
    <1>11. ASSUME ~astray' PROVE Counted(wants', awaited', image', cache', tracker')
      <2>1. /\ Counted(wants, awaited, image, cache, tracker) /\ tracker[k].job \in {0, id}
            /\ \A p \in Panes : awaited'[p] = awaited[p] /\ image'[p] = image[p]
        BY <1>3, <1>8, <1>11 DEF Stored
      <2>2. \A p \in Panes : wants[p] \in Keys \cup {"none"} BY <1>0 DEF ITypes
      <2>3. ASSUME NEW l \in Keys, tracker'[l].job # 0 PROVE tracker'[l].refs = HoldersOf(wants, l)
        BY <1>7, <2>1, <2>3 DEF Counted
      <2>4. ASSUME NEW p \in Panes, awaited'[p] # 0
            PROVE  wants[p] # "none" /\ tracker'[wants[p]].job = awaited'[p]
        <3>1. wants[p] # "none" /\ tracker[wants[p]].job = awaited[p] /\ awaited[p] # 0
          BY <2>1, <2>4 DEF Counted
        <3>2. wants[p] \in Keys BY <2>2, <3>1
        <3>3. wants[p] # k BY <1>3, <1>11, <2>1, <3>1
        <3> QED BY <1>7, <2>1, <3>1, <3>2, <3>3
      <2> QED BY <1>2, <2>1, <2>3, <2>4 DEF Counted
    <1> QED BY <1>9, <1>10, <1>11 DEF Stored

LEMMA LeaveStep ==
    ASSUME Stored, Fetching!Leave
    PROVE  Stored'
PROOF
    <1> USE LiveNumbers
    <1>1. /\ cache' = <<>> /\ tracker' = [k \in Keys |-> [job |-> 0, refs |-> 0]]
          /\ wants' = [p \in Panes |-> "none"] /\ awaited' = [p \in Panes |-> 0]
          /\ image' = [p \in Panes |-> 0] /\ asked' = asked
          /\ epoch' = epoch + 1 /\ epoch < MaxVisits
      BY Borrowed DEF Fetching!Leave
    <1>2. ITypes' BY <1>1 DEF Stored, ITypes
    <1>3. ToSet(cache') = {} /\ Orderly(cache')
      <2>1. ToSet(cache') = {} BY <1>1 DEF ToSet
      <2>2. cache' \in Seq(Entry) /\ Len(cache') = 0 BY <1>1, EmptySeq
      <2>3. Once(cache') BY <2>2 DEF Once
      <2> QED BY <2>1, <2>2, <2>3 DEF Orderly
    <1>4. tracker' \in [Keys -> Tracker] /\ \A k \in Keys : tracker'[k].job = 0
      BY <1>1 DEF Tracker
    <1>5. asked \in Nat BY DEF Stored, ITypes
    <1>6. Consistent(cache', tracker', asked') BY <1>1, <1>3, <1>4, <1>5 DEF Consistent
    <1>7. Counted(wants', awaited', image', cache', tracker') BY <1>1, <1>3, <1>4 DEF Counted
    <1> QED BY <1>2, <1>6, <1>7 DEF Stored

LEMMA ImgStep ==
    ASSUME ImgInv, Fetching!ImagesNext \/ UNCHANGED fetchesVars
    PROVE  ImgInv'
PROOF
    <1>i. IFlags /\ IJobs /\ Stored /\ ITypes BY DEF ImgInv, Stored
    <1>keep. ASSUME UNCHANGED <<wants, awaited, image, cache, tracker, epoch, asked, astray>>
             PROVE  Stored'
      BY <1>i, <1>keep DEF Stored, ITypes
    <1>1. CASE Fetching!ImagesNext
      <2>1. IFlags' /\ IJobs' BY <1>i, <1>1, IFlagsStep, IJobsStep
      <2>2. ASSUME NEW p \in Panes, Fetching!Hide(p) PROVE Stored' BY <1>i, <2>2, HideStep
      <2>3. ASSUME NEW p \in Panes, NEW k \in Keys, Fetching!Show(p, k) PROVE Stored'
        BY <1>i, <2>3, ShowStep
      <2>4. ASSUME NEW j \in fetchesFlying, Fetching!Fetched(j) PROVE Stored'
        BY <1>i, <2>4, FetchedStep
      <2>5. ASSUME NEW j \in fetchesFlying, Fetching!Fruitless(j) PROVE Stored'
        BY <1>i, <2>5, FruitlessStep
      <2>6. ASSUME Fetching!Pump PROVE Stored' BY <1>keep, <2>6 DEF Fetching!Pump
      <2>7. ASSUME Fetching!Leave PROVE Stored' BY <1>i, <2>7, LeaveStep
      <2>8. ASSUME Fetching!Return PROVE Stored' BY <1>keep, <2>8 DEF Fetching!Return
      <2>9. Stored' BY <1>1, <2>2, <2>3, <2>4, <2>5, <2>6, <2>7, <2>8 DEF Fetching!ImagesNext
      <2> QED BY <2>1, <2>9 DEF ImgInv
    <1>2. CASE UNCHANGED fetchesVars
      <2>1. IFlags' BY <1>i, <1>2, Zenon DEF fetchesVars, IFlags
      <2>2. IJobs' BY <1>i, <1>2 DEF fetchesVars, IJobs
      <2>3. Stored' BY <1>2, <1>keep DEF fetchesVars
      <2> QED BY <2>1, <2>2, <2>3 DEF ImgInv
    <1> QED BY <1>1, <1>2

LEMMA ImgStarts == Fetching!ImagesInit => ImgInv
PROOF
    <1> SUFFICES ASSUME Fetching!ImagesInit PROVE ImgInv OBVIOUS
    <1> USE LiveNumbers
    <1>0. /\ cache = <<>> /\ tracker = [k \in Keys |-> [job |-> 0, refs |-> 0]]
          /\ wants = [p \in Panes |-> "none"] /\ awaited = [p \in Panes |-> 0]
          /\ image = [p \in Panes |-> 0]
          /\ waiting = {} /\ fetchesFlying = {} /\ epoch = 0 /\ pumps = 0 /\ asked = 0
      BY Borrowed DEF Fetching!ImagesInit
    <1>1. IFlags BY Zenon DEF Fetching!ImagesInit, IFlags
    <1>2. IJobs BY <1>0, FS_EmptySet DEF IJobs
    <1>3. ITypes BY <1>0 DEF ITypes
    <1>4. ToSet(cache) = {} /\ Orderly(cache)
      <2>1. ToSet(cache) = {} BY <1>0 DEF ToSet
      <2>2. cache \in Seq(Entry) /\ Len(cache) = 0 BY <1>0, EmptySeq
      <2>3. Once(cache) BY <2>2 DEF Once
      <2> QED BY <2>1, <2>2, <2>3 DEF Orderly
    <1>5. tracker \in [Keys -> Tracker] /\ \A k \in Keys : tracker[k].job = 0
      BY <1>0 DEF Tracker
    <1>6. Consistent(cache, tracker, asked) BY <1>0, <1>4, <1>5 DEF Consistent
    <1>7. Counted(wants, awaited, image, cache, tracker) BY <1>0, <1>4, <1>5 DEF Counted
    <1> QED BY <1>1, <1>2, <1>3, <1>6, <1>7 DEF ImgInv, Stored

LEMMA ImgParts ==
    ASSUME ImgInv
    PROVE  Fetching!ImagesTypeOK /\ Fetching!ImagesSafe
PROOF
    <1> USE LiveNumbers
    <1>i. IFlags /\ IJobs /\ ITypes /\ Consistent(cache, tracker, asked) BY DEF ImgInv, Stored
    <1>e. cache \in Seq(Entry) /\ DOMAIN cache = 1 .. Len(cache)
      BY <1>i, LenProperties DEF Consistent, Orderly
    <1>1. Fetching!ImagesTypeOK
      <2>1. {present, astray} \subseteq BOOLEAN BY <1>i, Zenon DEF IFlags
      <2>2. \A i \in DOMAIN cache : cache[i] \in [key : Keys, url : 1 .. MaxFetches, refs : Nat]
        BY <1>e, ElementOfSeq DEF Entry
      <2>3. tracker \in [Keys -> [job : 0 .. MaxFetches, refs : Nat]]
        BY <1>i DEF Consistent, Tracker
      <2>4. pumps \in 0 .. MaxFetches BY <1>i DEF IJobs, ITypes
      <2> QED BY <1>i, <2>1, <2>2, <2>3, <2>4, Borrowed DEF Fetching!ImagesTypeOK, ITypes, IJobs
    <1>2. Fetching!CeilingKept BY <1>i, Borrowed DEF Fetching!CeilingKept, IJobs
    <1>3. Fetching!NothingIdles
      <2> SUFFICES ASSUME pumps = 0, waiting # {} PROVE Cardinality(fetchesFlying) >= FetchSlots
        BY Borrowed DEF Fetching!NothingIdles
      <2>1. Cardinality(waiting) \in Nat /\ Cardinality(waiting) # 0
        BY <1>i, FS_EmptySet, FS_CardinalityType DEF IJobs
      <2> QED BY <1>i, <2>1 DEF IJobs
    <1>4. Fetching!RefsAreHolders
      <2> SUFFICES ASSUME Counted(wants, awaited, image, cache, tracker)
                   PROVE  /\ \A i \in DOMAIN cache : cache[i].refs = Fetching!Holders(cache[i].key)
                          /\ \A k \in Keys : tracker[k].job # 0
                                => tracker[k].refs = Fetching!Holders(k)
        BY DEF Fetching!RefsAreHolders, ImgInv, Stored
      <2>1. \A k : Fetching!Holders(k) = HoldersOf(wants, k)
        BY Borrowed DEF Fetching!Holders, HoldersOf
      <2>2. \A i \in DOMAIN cache : cache[i] \in ToSet(cache) BY DEF ToSet
      <2> QED BY <2>1, <2>2 DEF Counted
    <1>5. Fetching!ShownIsLive
      <2> SUFFICES ASSUME Counted(wants, awaited, image, cache, tracker), NEW p \in Panes,
                          wants[p] # "none", awaited[p] = 0
                   PROVE  \E i \in DOMAIN cache : cache[i].key = wants[p] /\ cache[i].url = image[p]
        BY Borrowed DEF Fetching!ShownIsLive, ImgInv, Stored
      <2>1. PICK e \in ToSet(cache) : e.key = wants[p] /\ e.url = image[p] BY DEF Counted
      <2> QED BY <2>1 DEF ToSet
    <1> QED BY <1>1, <1>2, <1>3, <1>4, <1>5 DEF Fetching!ImagesSafe

-----------------------------------------------------------------------------
(* The parts together                                                      *)

LiveInv == StreamInv /\ EditorInv /\ FanInv /\ ImgInv

LEMMA LiveStarts == LiveInit => LiveInv
PROOF
    <1> SUFFICES ASSUME LiveInit PROVE LiveInv OBVIOUS
    <1>1. Init /\ Editor!EditorInit /\ Fanout!FanoutInit /\ Fetching!ImagesInit BY DEF LiveInit
    <1>2. StreamInv BY <1>1, StreamInit
    <1>3. EditorInv BY <1>1, EditorStarts
    <1>4. FanInv BY <1>1, FanStarts
    <1>5. ImgInv BY <1>1, ImgStarts
    <1> QED BY <1>2, <1>3, <1>4, <1>5 DEF LiveInv

\* A step of one part leaves the variables of the others alone.
LEMMA LiveStep == LiveInv /\ [LiveNext]_liveVars => LiveInv'
PROOF
    <1> SUFFICES ASSUME LiveInv, [LiveNext]_liveVars PROVE LiveInv' OBVIOUS
    <1>i. StreamInv /\ EditorInv /\ FanInv /\ ImgInv BY DEF LiveInv
    <1>1. /\ [Next]_vars
          /\ Editor!EditorNext \/ UNCHANGED editorVars
          /\ Fanout!FanoutNext \/ UNCHANGED fanoutVars
          /\ Fetching!ImagesNext \/ UNCHANGED fetchesVars
      <2>1. CASE LiveNext BY ONLY <2>1 DEF LiveNext
      <2>2. CASE UNCHANGED liveVars BY ONLY <2>2 DEF liveVars
      <2> QED BY <2>1, <2>2
    <1>2. StreamInv' BY <1>i, <1>1, StreamStep
    <1>3. EditorInv' BY <1>i, <1>1, EditorStep
    <1>4. FanInv' BY <1>i, <1>1, FanStep
    <1>5. ImgInv' BY <1>i, <1>1, ImgStep
    <1> QED BY <1>2, <1>3, <1>4, <1>5 DEF LiveInv

\* Through refusals, pauses and cancellations no task of a press is lost or
\* counted twice (useFanout), no picture of the picker is fetched twice, shown
\* under the wrong key or dropped while a pane holds it (useJobImage), and no
\* draft or job of a batch is lost while it is submitted (BatchEditorPage):
\* for any number of workers, tasks, panes, pictures and slots.
THEOREM RequestsAreSafe == LiveSpec => []RequestsSafe
PROOF
    <1>1. LiveInv => RequestsSafe
      <2> SUFFICES ASSUME LiveInv PROVE RequestsSafe OBVIOUS
      <2>1. StreamInv /\ EditorInv /\ FanInv /\ ImgInv BY DEF LiveInv
      <2>2. TypeOK BY <2>1 DEF StreamInv
      <2>3. Editor!EditorTypeOK /\ Editor!EditorSafe BY <2>1, EditorParts
      <2>4. Fanout!FanoutTypeOK /\ Fanout!FanoutSafe BY <2>1, FanParts
      <2>5. Fetching!ImagesTypeOK /\ Fetching!ImagesSafe BY <2>1, ImgParts
      <2> QED BY <2>2, <2>3, <2>4, <2>5 DEF RequestsSafe
    <1> QED BY <1>1, LiveStarts, LiveStep, PTL DEF LiveSpec
=============================================================================
