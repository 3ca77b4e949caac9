----------------------------- MODULE Chain_proofs -----------------------------
(* Theorems about what is read from the chain and what is written to it, for    *)
(* every value of the constants: Indexer is well typed and its poll cycle        *)
(* implements EventDelivery; Allowlist's outcomes are those of the chain.        *)
EXTENDS Indexer, Allowlist, FiniteSetTheorems, WellFoundedInduction, TLAPS

USE IndexerConstants DEF chainVars, pageVars

-----------------------------------------------------------------------------
(* Events and answers                                                      *)

LEMMA EventType ==
  ASSUME TypeOK, NEW e \in Events
  PROVE  /\ e[1] \in 1..tip /\ e[2] \in 1..PerLedger
         /\ e[1] \in Nat /\ e[2] \in Nat /\ e = <<e[1], e[2]>>
         /\ e[2] <= size[e[1]]
BY DEF Events, TypeOK

\* Positions in the chain are totally ordered.
LEMMA BeforeTotal ==
  ASSUME TypeOK, NEW d \in Events, NEW e \in Events, ~Before(d, e), d # e
  PROVE  Before(e, d)
BY EventType DEF Before

LEMMA BeforeTransitive ==
  ASSUME TypeOK, NEW c \in Events, NEW d \in Events, NEW e \in Events,
         Before(c, d), Before(d, e)
  PROVE  Before(c, e)
BY EventType DEF Before

LEMMA EventsFinite ==
  ASSUME TypeOK
  PROVE  IsFiniteSet(Events)
<1>1. IsFiniteSet(1..tip) /\ IsFiniteSet(1..PerLedger)
  BY FS_Interval DEF TypeOK
<1>2. IsFiniteSet((1..tip) \X (1..PerLedger))  BY <1>1, FS_Product
<1> QED BY <1>2, FS_Subset DEF Events

\* An answer has every event that comes before one of its events.
LEMMA AnswerClosed ==
  ASSUME TypeOK, NEW l \in Nat, NEW e \in Answer(l), NEW d \in From(l), Before(d, e)
  PROVE  d \in Answer(l)
<1> DEFINE Earlier(x) == {y \in From(l) : Before(y, x)}
<1>1. e \in From(l) /\ Cardinality(Earlier(e)) < RpcLimit  BY DEF Answer
<1>2. From(l) \subseteq Events  BY DEF From
<1>3. Earlier(d) \subseteq Earlier(e)  BY <1>1, <1>2, BeforeTransitive
<1>4. IsFiniteSet(Earlier(e))  BY <1>2, EventsFinite, FS_Subset
<1>5. Cardinality(Earlier(d)) <= Cardinality(Earlier(e))
  BY <1>3, <1>4, FS_Subset
<1>6. Cardinality(Earlier(d)) \in Nat /\ Cardinality(Earlier(e)) \in Nat
  BY <1>3, <1>4, FS_Subset, FS_CardinalityType
<1>7. Cardinality(Earlier(d)) < RpcLimit  BY <1>1, <1>5, <1>6
<1> QED BY <1>7 DEF Answer

\* An empty answer means that there is no event.
LEMMA AnswerNotEmpty ==
  ASSUME TypeOK, NEW l \in Nat, From(l) # {}
  PROVE  Answer(l) # {}
<1> DEFINE Earlier(x) == {y \in From(l) : Before(y, x)}
<1> DEFINE Segments == {Earlier(e) : e \in From(l)}
<1>1. From(l) \subseteq Events /\ IsFiniteSet(From(l))
  BY EventsFinite, FS_Subset DEF From
<1>2. Segments \subseteq FiniteSubsetsOf(From(l)) /\ Segments # {}
  <2>1. ASSUME NEW e \in From(l)
        PROVE  Earlier(e) \subseteq From(l) /\ IsFiniteSet(Earlier(e))
    <3>1. Earlier(e) \subseteq From(l)  OBVIOUS
    <3> QED BY <1>1, <3>1, FS_Subset
  <2>2. \A A \in Segments : A \in SUBSET From(l) /\ IsFiniteSet(A)  BY <2>1
  <2>3. Segments # {}  OBVIOUS
  <2> QED BY <2>2, <2>3 DEF FiniteSubsetsOf
<1>3. PICK A \in Segments : \A B \in Segments : ~(<<B, A>> \in StrictSubsetOrdering(From(l)))
  <2> HIDE DEF Segments
  <2> QED BY <1>2, FS_StrictSubsetOrderingWellFounded, WFMin
<1>4. PICK e \in From(l) : A = Earlier(e)  OBVIOUS
<1>5. Earlier(e) = {}
  <2> SUFFICES ASSUME NEW d \in Earlier(e)
               PROVE  FALSE
    OBVIOUS
  <2>1. Earlier(d) \subseteq Earlier(e)  BY <1>1, BeforeTransitive
  <2>2. d \notin Earlier(d)  BY <1>1, EventType DEF Before
  <2>3. Earlier(d) \in Segments  OBVIOUS
  <2>4. <<Earlier(d), Earlier(e)>> \in StrictSubsetOrdering(From(l))
    BY <1>2, <1>4, <2>1, <2>2, <2>3 DEF StrictSubsetOrdering, FiniteSubsetsOf
  <2> QED BY <1>3, <1>4, <2>3, <2>4
<1>6. Cardinality(Earlier(e)) < RpcLimit  BY <1>5, FS_EmptySet
<1> QED BY <1>6 DEF Answer

-----------------------------------------------------------------------------
(* The inductive invariant                                                 *)

Covered == applied \cup skipped

\* No event at or below the cursor is due.
CursorOK == cursor # None => UpTo(cursor) \subseteq Covered

\* A replica inside a page: what lies below its own cursor is done, and what it is
\* about to save its cursor behind is done or on the page, as is everything before
\* an event of the page.
ReplicaOK(r) ==
  /\ pc[r] \in {"cursor", "seed"} => seen[r] >= 1
  /\ pc[r] # "dispatch" => page[r] = {}
  /\ pc[r] \in {"fetch", "dispatch"} =>
       cursor # None /\ mine[r] < seen[r] /\ UpTo(mine[r]) \subseteq Covered
  /\ pc[r] = "dispatch" =>
       /\ UpTo(reached[r]) \subseteq Covered \cup page[r]
       /\ \A e \in page[r], d \in Events : Before(d, e) => d \in Covered \cup page[r]

IInv == TypeOK /\ CursorOK /\ \A r \in Replicas : ReplicaOK(r)

-----------------------------------------------------------------------------
(* Frames                                                                  *)

\* What Leave does to the state of a replica.
LEMMA LeaveType ==
  ASSUME TypeOK, tip' = tip, size' = size, NEW r \in Replicas, Leave(r)
  PROVE  /\ pc' \in [Replicas -> Labels]
         /\ seen' \in [Replicas -> 0..tip] /\ mine' \in [Replicas -> 0..tip]
         /\ page' \in [Replicas -> SUBSET Events] /\ reached' \in [Replicas -> 0..tip]
BY DEF TypeOK, Leave, Goto, Labels

\* A replica keeps its part of the invariant while others cover more events.
LEMMA ReplicaFrame ==
  ASSUME TypeOK, NEW r \in Replicas, ReplicaOK(r),
         tip' = tip, size' = size, Covered \subseteq Covered',
         cursor # None => cursor' # None,
         pc'[r] = pc[r], seen'[r] = seen[r], mine'[r] = mine[r],
         page'[r] = page[r], reached'[r] = reached[r]
  PROVE  ReplicaOK(r)'
<1>1. Events' = Events  BY DEF Events
<1>2. UpTo(mine[r])' = UpTo(mine[r]) /\ UpTo(reached[r])' = UpTo(reached[r])
  BY <1>1 DEF UpTo
<1> QED BY <1>1, <1>2 DEF ReplicaOK, Before

\* A replica that has left has nothing to keep.
LEMMA ReplicaLeaves ==
  ASSUME TypeOK, NEW r \in Replicas, Leave(r)
  PROVE  ReplicaOK(r)'
BY DEF TypeOK, Leave, Goto, ReplicaOK

LEMMA CoveredGrows ==
  ASSUME NEW S, Skip(S), applied' = applied
  PROVE  Covered' = Covered \cup S
BY DEF Skip, Covered

-----------------------------------------------------------------------------
(* Initial states and steps                                                *)

LEMMA InitInv == Init => IInv
BY DEF Init, IInv, TypeOK, CursorOK, ReplicaOK, Labels, Events

LEMMA ReadTipInv ==
  ASSUME IInv, NEW r \in Replicas, ReadTip(r)
  PROVE  IInv'
<1>1. TypeOK'  BY DEF IInv, TypeOK, ReadTip, Goto, Labels, Events
<1>2. Covered' = Covered /\ Events' = Events  BY DEF ReadTip, Covered, Events
<1>3. CursorOK'  BY <1>2 DEF IInv, CursorOK, ReadTip, UpTo
<1>4. ASSUME NEW q \in Replicas
      PROVE  ReplicaOK(q)'
  <2>1. CASE q = r  BY <2>1 DEF IInv, TypeOK, ReplicaOK, ReadTip, Goto
  <2>2. CASE q # r
    BY <1>2, <2>2, ReplicaFrame DEF IInv, TypeOK, ReadTip, Goto
  <2> QED BY <2>1, <2>2
<1> QED BY <1>1, <1>3, <1>4 DEF IInv

LEMMA ReadCursorInv ==
  ASSUME IInv, NEW r \in Replicas, ReadCursor(r)
  PROVE  IInv'
<1>1. Covered' = Covered /\ Events' = Events  BY DEF ReadCursor, Covered, Events
<1>2. TypeOK'
  <2>1. CASE Leave(r)
    BY <1>1, <2>1, LeaveType DEF IInv, TypeOK, ReadCursor
  <2>2. CASE ~Leave(r)
    BY <1>1, <2>2 DEF IInv, TypeOK, ReadCursor, Goto, Labels
  <2> QED BY <2>1, <2>2
<1>3. CursorOK'  BY <1>1 DEF IInv, CursorOK, ReadCursor, UpTo
<1>4. ASSUME NEW q \in Replicas
      PROVE  ReplicaOK(q)'
  <2>1. CASE q # r
    BY <1>1, <2>1, ReplicaFrame DEF IInv, TypeOK, ReadCursor, Goto, Leave
  <2>2. CASE q = r /\ Leave(r)  BY <2>2, ReplicaLeaves DEF IInv
  <2>3. CASE q = r /\ ~Leave(r)
    <3>1. CASE cursor = None
      BY <2>3, <3>1 DEF IInv, TypeOK, ReplicaOK, ReadCursor, Goto
    <3>2. CASE cursor # None
      <4>1. cursor \in Nat /\ cursor < seen[r] /\ UpTo(cursor) \subseteq Covered
        BY <2>3, <3>2 DEF IInv, TypeOK, CursorOK, ReadCursor
      <4>2. pc'[r] = "fetch" /\ mine'[r] = cursor /\ seen' = seen /\ cursor' = cursor
            /\ page'[r] = {}
        BY <2>3, <3>2 DEF IInv, TypeOK, ReplicaOK, ReadCursor, Goto
      <4> QED BY <1>1, <2>3, <3>2, <4>1, <4>2 DEF ReplicaOK, UpTo
    <3> QED BY <3>1, <3>2
  <2> QED BY <2>1, <2>2, <2>3
<1> QED BY <1>2, <1>3, <1>4 DEF IInv

LEMMA SeedCursorInv ==
  ASSUME IInv, NEW r \in Replicas, SeedCursor(r)
  PROVE  IInv'
<1> DEFINE l == seen[r] - 1
<1>1. l \in 0..tip /\ l # None  BY DEF IInv, TypeOK, ReplicaOK, SeedCursor
<1>2. Covered' = Covered \cup UpTo(l) /\ Events' = Events
  BY CoveredGrows DEF SeedCursor, Events
<1>3. TypeOK'
  BY <1>1, <1>2, LeaveType DEF IInv, TypeOK, SeedCursor, Skip, UpTo
<1>4. CursorOK'  BY <1>2 DEF CursorOK, SeedCursor, UpTo
<1>5. ASSUME NEW q \in Replicas
      PROVE  ReplicaOK(q)'
  <2>1. CASE q # r
    BY <1>1, <1>2, <2>1, ReplicaFrame DEF IInv, TypeOK, SeedCursor, Goto, Leave
  <2>2. CASE q = r  BY <2>2, ReplicaLeaves DEF IInv, SeedCursor
  <2> QED BY <2>1, <2>2
<1> QED BY <1>3, <1>4, <1>5 DEF IInv

\* The events a page passes over, beyond those it hands to their handlers.
Cut(r, S) ==
  {e \in From(mine[r] + 1) \ S : \E d \in S : d[1] = e[1] /\ e[1] <= PageEnd(r)}

\* Up to the ledger the page is processed to, an event is behind the replica's
\* cursor, on the page, or passed over.
LEMMA PageComplete ==
  ASSUME IInv, NEW r \in Replicas, pc[r] = "fetch",
         NEW l \in ProcessedTo(r, Answer(mine[r] + 1))
  PROVE  /\ l \in 0..tip
         /\ UpTo(l) \subseteq
              UpTo(mine[r]) \cup Answer(mine[r] + 1) \cup Cut(r, Answer(mine[r] + 1))
<1> DEFINE S == Answer(mine[r] + 1)
<1>1. TypeOK /\ mine[r] \in Nat /\ seen[r] \in 0..tip /\ tip \in Nat /\ mine[r] + 1 \in Nat
  BY DEF IInv, TypeOK
<1>2. PageEnd(r) \in 0..tip  BY <1>1 DEF PageEnd, Smaller
<1>3. S \subseteq From(mine[r] + 1) /\ From(mine[r] + 1) \subseteq Events
  BY DEF Answer, From
<1>4. CASE S = {}
  <2>1. l = PageEnd(r)  BY <1>4 DEF ProcessedTo
  <2>2. From(mine[r] + 1) = {}  BY <1>1, <1>4, AnswerNotEmpty
  <2>3. UpTo(l) \subseteq UpTo(mine[r])
    BY <1>1, <2>2, EventType DEF From, UpTo
  <2> QED BY <1>2, <2>1, <2>3
<1>5. CASE S # {}
  <2>1. PICK z \in LastOf(S) : l = Smaller(z[1], PageEnd(r))
    BY <1>5 DEF ProcessedTo
  <2>2. z \in S /\ z \in Events /\ z[1] \in Nat /\ z[2] \in Nat
    BY <1>1, <1>3, <2>1, EventType DEF LastOf
  <2>3. l \in 0..tip /\ l <= z[1] /\ l <= PageEnd(r)
    BY <1>1, <1>2, <2>1, <2>2 DEF Smaller
  <2>4. ASSUME NEW e \in UpTo(l), e \notin UpTo(mine[r]), e \notin S
        PROVE  e \in Cut(r, S)
    <3>1. e \in Events /\ e[1] \in Nat /\ e[1] <= l  BY <1>1, EventType DEF UpTo
    <3>2. e \in From(mine[r] + 1)  BY <1>1, <2>4, <3>1 DEF From, UpTo
    <3>3. ~Before(e, z)
      <4> HIDE DEF S
      <4> QED BY <1>1, <2>2, <2>4, <3>2, AnswerClosed DEF S
    <3>4. e[1] = z[1]  BY <2>2, <2>3, <3>1, <3>3 DEF Before
    <3>5. e[1] <= PageEnd(r)  BY <1>2, <2>3, <3>1
    <3> QED BY <2>2, <2>4, <3>2, <3>4, <3>5 DEF Cut
  <2> QED BY <2>3, <2>4
<1> QED BY <1>4, <1>5

LEMMA FetchEventsInv ==
  ASSUME IInv, NEW r \in Replicas, FetchEvents(r)
  PROVE  IInv'
<1> DEFINE S == Answer(mine[r] + 1)
<1> DEFINE K == Cut(r, S)
<1>1. pc[r] = "fetch" /\ Skip(K) /\ page' = [page EXCEPT ![r] = S]
  BY DEF FetchEvents, Cut
<1>2. PICK l \in ProcessedTo(r, S) : reached' = [reached EXCEPT ![r] = l]
  BY DEF FetchEvents
<1>3. l \in 0..tip /\ UpTo(l) \subseteq UpTo(mine[r]) \cup S \cup K
  BY <1>1, PageComplete
<1>4. Covered' = Covered \cup K /\ Events' = Events
  BY <1>1, CoveredGrows DEF FetchEvents, Events
<1>5. S \subseteq Events /\ K \subseteq Events  BY DEF Answer, From, Cut
<1>6. TypeOK'
  <2> HIDE DEF S, K
  <2> QED BY <1>1, <1>2, <1>3, <1>4, <1>5 DEF IInv, TypeOK, FetchEvents, Goto, Labels, Skip
<1>7. CursorOK'  BY <1>4 DEF IInv, CursorOK, FetchEvents, UpTo
<1>8. ASSUME NEW q \in Replicas, q # r
      PROVE  ReplicaOK(q)'
  BY <1>1, <1>2, <1>4, <1>8, ReplicaFrame DEF IInv, TypeOK, FetchEvents, Goto
<1>9. ReplicaOK(r)'
  <2>1. /\ pc'[r] = "dispatch" /\ page'[r] = S /\ reached'[r] = l
        /\ mine' = mine /\ seen' = seen /\ cursor' = cursor
    BY <1>1, <1>2 DEF IInv, TypeOK, FetchEvents, Goto
  <2>2. cursor # None /\ mine[r] < seen[r] /\ UpTo(mine[r]) \subseteq Covered
    BY <1>1 DEF IInv, ReplicaOK
  <2>3. \A e \in S, d \in Events : Before(d, e) => d \in Covered \cup S
    <3> SUFFICES ASSUME NEW e \in S, NEW d \in Events, Before(d, e)
                 PROVE  d \in Covered \cup S
      OBVIOUS
    <3>1. TypeOK /\ mine[r] \in Nat /\ mine[r] + 1 \in Nat  BY DEF IInv, TypeOK
    <3>2. CASE d \in From(mine[r] + 1)  BY <3>1, <3>2, AnswerClosed
    <3>3. CASE d \notin From(mine[r] + 1)
      BY <2>2, <3>1, <3>3, EventType DEF From, UpTo
    <3> QED BY <3>2, <3>3
  <2>4. UpTo(mine[r])' = UpTo(mine[r]) /\ UpTo(reached[r])' = UpTo(l)
    BY <1>4, <2>1 DEF UpTo
  <2> HIDE DEF S, K
  <2> QED BY <1>3, <1>4, <2>1, <2>2, <2>3, <2>4 DEF ReplicaOK, Before
<1> QED BY <1>6, <1>7, <1>8, <1>9 DEF IInv

LEMMA FetchFailsInv ==
  ASSUME IInv, NEW r \in Replicas, FetchFails(r)
  PROVE  IInv'
<1> DEFINE K == From(mine[r] + 1) \cap UpTo(PageEnd(r))
<1>1. /\ pc[r] = "fetch" /\ Skip(K) /\ page' = page
      /\ reached' = [reached EXCEPT ![r] = PageEnd(r)]
  BY DEF FetchFails
<1>2. PageEnd(r) \in 0..tip  BY DEF IInv, TypeOK, PageEnd, Smaller
<1>3. Covered' = Covered \cup K /\ Events' = Events /\ K \subseteq Events
  BY <1>1, CoveredGrows DEF FetchFails, Events, From
<1>4. TypeOK'
  <2> HIDE DEF K
  <2> QED BY <1>1, <1>2, <1>3 DEF IInv, TypeOK, FetchFails, Goto, Labels, Skip
<1>5. CursorOK'  BY <1>3 DEF IInv, CursorOK, FetchFails, UpTo
<1>6. ASSUME NEW q \in Replicas, q # r
      PROVE  ReplicaOK(q)'
  BY <1>1, <1>3, <1>6, ReplicaFrame DEF IInv, TypeOK, FetchFails, Goto
<1>7. ReplicaOK(r)'
  <2>1. /\ pc'[r] = "dispatch" /\ page'[r] = {} /\ reached'[r] = PageEnd(r)
        /\ mine' = mine /\ seen' = seen /\ cursor' = cursor
    BY <1>1 DEF IInv, TypeOK, ReplicaOK, FetchFails, Goto
  <2>2. cursor # None /\ mine[r] < seen[r] /\ UpTo(mine[r]) \subseteq Covered
    BY <1>1 DEF IInv, ReplicaOK
  <2>3. UpTo(PageEnd(r)) \subseteq UpTo(mine[r]) \cup K
    <3>1. mine[r] \in Nat /\ \A e \in Events : e[1] \in Nat
      BY EventType DEF IInv, TypeOK
    <3>2. \A e \in Events : e[1] <= mine[r] \/ e[1] >= mine[r] + 1  BY <3>1
    <3> QED BY <3>2 DEF UpTo, From
  <2>4. UpTo(mine[r])' = UpTo(mine[r]) /\ UpTo(reached[r])' = UpTo(PageEnd(r))
    BY <1>3, <2>1 DEF UpTo
  <2> HIDE DEF K
  <2> QED BY <1>3, <2>1, <2>2, <2>3, <2>4 DEF ReplicaOK
<1> QED BY <1>4, <1>5, <1>6, <1>7 DEF IInv

\* An event leaves the page handled or given up.
LEMMA PageShrinks ==
  ASSUME IInv, NEW r \in Replicas, NEW e \in page[r], pc[r] = "dispatch",
         tip' = tip, size' = size, cursor' = cursor, pc' = pc, seen' = seen,
         mine' = mine, reached' = reached, faults' \in 0..MaxFaults,
         page' = [page EXCEPT ![r] = @ \ {e}],
         applied' \subseteq Events, skipped' \subseteq Events,
         Covered' = Covered \cup {e}
  PROVE  IInv'
<1>1. Events' = Events  BY DEF Events
<1>2. TypeOK'  BY <1>1 DEF IInv, TypeOK
<1>3. CursorOK'  BY <1>1 DEF IInv, CursorOK, UpTo
<1>4. ASSUME NEW q \in Replicas, q # r
      PROVE  ReplicaOK(q)'
  BY <1>4, ReplicaFrame DEF IInv, TypeOK
<1>5. ReplicaOK(r)'
  <2>1. page'[r] = page[r] \ {e} /\ page'[r] \cup {e} = page[r]  BY DEF IInv, TypeOK
  <2>2. Covered' \cup page'[r] = Covered \cup page[r]  BY <2>1
  <2>3. UpTo(mine[r])' = UpTo(mine[r]) /\ UpTo(reached[r])' = UpTo(reached[r])
    BY <1>1 DEF UpTo
  <2> QED BY <1>1, <2>1, <2>2, <2>3 DEF IInv, ReplicaOK, Before
<1> QED BY <1>2, <1>3, <1>4, <1>5 DEF IInv

LEMMA DispatchInv ==
  ASSUME IInv, NEW r \in Replicas, Dispatch(r)
  PROVE  IInv'
<1>1. PICK e \in page[r] :
        applied' = applied \cup {e} /\ page' = [page EXCEPT ![r] = @ \ {e}]
  BY DEF Dispatch, Due
<1>2. e \in Events  BY DEF IInv, TypeOK
<1>3. Covered' = Covered \cup {e}  BY <1>1 DEF Dispatch, Covered
<1>4. applied' \subseteq Events /\ skipped' \subseteq Events /\ faults' \in 0..MaxFaults
  BY <1>1, <1>2 DEF IInv, TypeOK, Dispatch
<1> QED BY <1>1, <1>3, <1>4, PageShrinks DEF Dispatch

LEMMA HandlerFailsInv ==
  ASSUME IInv, NEW r \in Replicas, HandlerFails(r)
  PROVE  IInv'
<1>1. PICK e \in page[r] : Skip({e}) /\ page' = [page EXCEPT ![r] = @ \ {e}]
  BY DEF HandlerFails, Due
<1>2. e \in Events  BY DEF IInv, TypeOK
<1>3. Covered' = Covered \cup {e}  BY <1>1, CoveredGrows DEF HandlerFails
<1>4. applied' \subseteq Events /\ skipped' \subseteq Events /\ faults' \in 0..MaxFaults
  BY <1>1, <1>2 DEF IInv, TypeOK, HandlerFails, Skip
<1> QED BY <1>1, <1>3, <1>4, PageShrinks DEF HandlerFails

LEMMA SaveCursorInv ==
  ASSUME IInv, NEW r \in Replicas, SaveCursor(r)
  PROVE  IInv'
<1>1. pc[r] = "dispatch" /\ page[r] = {} /\ cursor' = reached[r] /\ reached[r] \in 0..tip
  BY DEF IInv, TypeOK, SaveCursor, PageDone
<1>2. cursor' # None /\ UpTo(reached[r]) \subseteq Covered
  BY <1>1 DEF IInv, ReplicaOK
<1>3. Covered' = Covered /\ Events' = Events  BY DEF SaveCursor, Covered, Events
<1>4. CursorOK'  BY <1>1, <1>2, <1>3 DEF CursorOK, UpTo
<1>5. ASSUME NEW q \in Replicas, q # r
      PROVE  ReplicaOK(q)'
  BY <1>2, <1>3, <1>5, ReplicaFrame DEF IInv, TypeOK, SaveCursor, Goto, Leave
<1>6. CASE Leave(r)
  <2>1. TypeOK'  BY <1>1, <1>3, <1>6, LeaveType DEF IInv, TypeOK, SaveCursor
  <2>2. ReplicaOK(r)'  BY <1>6, ReplicaLeaves DEF IInv
  <2> QED BY <1>4, <1>5, <2>1, <2>2 DEF IInv
<1>7. CASE ~Leave(r)
  <2>1. /\ reached[r] < seen[r] /\ seen' = seen
        /\ pc' = [pc EXCEPT ![r] = "fetch"] /\ mine' = [mine EXCEPT ![r] = reached[r]]
        /\ reached' = [reached EXCEPT ![r] = 0] /\ page' = [page EXCEPT ![r] = {}]
    BY <1>1, <1>7 DEF IInv, TypeOK, SaveCursor, NextLedger, Goto
  <2>2. TypeOK'  BY <1>1, <1>3, <2>1 DEF IInv, TypeOK, SaveCursor, Labels
  <2>3. pc'[r] = "fetch" /\ page'[r] = {} /\ mine'[r] = reached[r]
    BY <2>1 DEF IInv, TypeOK
  <2>4. UpTo(mine[r])' = UpTo(reached[r])  BY <1>3, <2>3 DEF UpTo
  <2>5. ReplicaOK(r)'  BY <1>2, <1>3, <2>1, <2>3, <2>4 DEF ReplicaOK
  <2> QED BY <1>4, <1>5, <2>2, <2>5 DEF IInv
<1> QED BY <1>6, <1>7

\* A cycle that ends by an error, or with its process.
LEMMA StopInv ==
  ASSUME IInv, NEW r \in Replicas, PollFails(r) \/ Dies(r)
  PROVE  IInv'
<1>1. /\ Leave(r) /\ tip' = tip /\ size' = size /\ cursor' = cursor
      /\ applied' = applied /\ skipped' = skipped /\ faults' \in 0..MaxFaults
  BY DEF IInv, TypeOK, PollFails, Dies
<1>2. Covered' = Covered /\ Events' = Events  BY <1>1 DEF Covered, Events
<1>3. TypeOK'  BY <1>1, <1>2, LeaveType DEF IInv, TypeOK
<1>4. CursorOK'  BY <1>1, <1>2 DEF IInv, CursorOK, UpTo
<1>5. ASSUME NEW q \in Replicas
      PROVE  ReplicaOK(q)'
  <2>1. CASE q # r
    BY <1>1, <1>2, <2>1, ReplicaFrame DEF IInv, TypeOK, Goto, Leave
  <2>2. CASE q = r  BY <1>1, <2>2, ReplicaLeaves DEF IInv
  <2> QED BY <2>1, <2>2
<1> QED BY <1>3, <1>4, <1>5 DEF IInv

\* The events of a new ledger lie behind every cursor and every page.
LEMMA CloseLedgerInv ==
  ASSUME IInv, CloseLedger
  PROVE  IInv'
<1>1. /\ tip \in Nat /\ tip' = tip + 1 /\ tip' \in 1..MaxLedger /\ size' = size
      /\ 0..tip \subseteq 0..tip'
  BY DEF IInv, TypeOK, CloseLedger
<1>2. Events \subseteq Events'  BY <1>1 DEF Events
<1>3. ASSUME NEW l \in 0..tip
      PROVE  UpTo(l)' = UpTo(l)
  BY <1>1 DEF UpTo, Events
<1>4. Covered' = Covered  BY DEF CloseLedger, Covered
<1>5. TypeOK'  BY <1>1, <1>2 DEF IInv, TypeOK, CloseLedger
<1>6. CursorOK'  BY <1>3, <1>4 DEF IInv, TypeOK, CursorOK, CloseLedger
<1>7. ASSUME NEW r \in Replicas
      PROVE  ReplicaOK(r)'
  <2>1. mine[r] \in 0..tip /\ reached[r] \in 0..tip /\ page[r] \subseteq Events
    BY DEF IInv, TypeOK
  <2>2. UpTo(mine[r])' = UpTo(mine[r]) /\ UpTo(reached[r])' = UpTo(reached[r])
    BY <1>3, <2>1 DEF CloseLedger
  <2>3. ASSUME NEW e \in page[r], NEW d \in Events', Before(d, e)
        PROVE  d \in Events
    BY <1>1, <2>1, <2>3 DEF Events, Before
  <2> QED BY <1>4, <2>2, <2>3 DEF IInv, ReplicaOK, CloseLedger, Before
<1> QED BY <1>5, <1>6, <1>7 DEF IInv

LEMMA StepInv == IInv /\ [Next]_vars => IInv'
<1> SUFFICES ASSUME IInv, [Next]_vars
             PROVE  IInv'
  OBVIOUS
<1>1. ASSUME NEW r \in Replicas, Poll(r)
      PROVE  IInv'
  BY <1>1, ReadTipInv, ReadCursorInv, SeedCursorInv, FetchEventsInv, DispatchInv,
     SaveCursorInv DEF Poll
<1>2. ASSUME NEW r \in Replicas,
             FetchFails(r) \/ HandlerFails(r) \/ PollFails(r) \/ Dies(r)
      PROVE  IInv'
  BY <1>2, FetchFailsInv, HandlerFailsInv, StopInv
<1>3. CASE CloseLedger  BY <1>3, CloseLedgerInv
<1>4. CASE UNCHANGED vars
  BY <1>4 DEF vars, IInv, TypeOK, CursorOK, ReplicaOK, Covered, Events, UpTo, Before
<1> QED BY <1>1, <1>2, <1>3, <1>4 DEF Next

\* The indexer's state is well typed, and neither its cursor nor a page runs ahead
\* of the chain (doPoll, fetchEvents).
THEOREM TypeCorrect == Spec => []TypeOK
<1>1. IInv => TypeOK  BY DEF IInv
<1> QED BY InitInv, StepInv, <1>1, PTL DEF Spec

-----------------------------------------------------------------------------
(* Indexer implements EventDelivery                                        *)

dvars == <<tip, size, cursor, applied, skipped>>

LEMMA SameEvents ==
  /\ Delivery!Events = Events
  /\ \A l : Delivery!UpTo(l) = UpTo(l)
  /\ \A d, e : Delivery!Before(d, e) <=> Before(d, e)
BY DEF Delivery!Events, Events, Delivery!UpTo, UpTo, Delivery!Before, Before

\* A cold start is the abstract start.
LEMMA SeedIsStart ==
  ASSUME IInv, NEW r \in Replicas, SeedCursor(r)
  PROVE  Delivery!Next
<1>1. seen[r] - 1 \in 0..tip  BY DEF IInv, TypeOK, ReplicaOK, SeedCursor
<1>2. Delivery!Start(seen[r] - 1)
  BY SameEvents DEF SeedCursor, Skip, Delivery!Start
<1> QED BY <1>1, <1>2 DEF Delivery!Next

\* Cut pages, failed fetches and failed handlers give events up.
LEMMA SkipIsForgo ==
  ASSUME IInv, NEW S, S \subseteq Events, Skip(S),
         UNCHANGED <<tip, size, cursor, applied>>
  PROVE  Delivery!Next
<1>1. Delivery!Forgo  BY SameEvents DEF Skip, Delivery!Forgo
<1> QED BY <1>1 DEF Delivery!Next

\* A handler runs for an event only when no earlier one is due.
LEMMA DispatchIsHandle ==
  ASSUME IInv, NEW r \in Replicas, Dispatch(r)
  PROVE  Delivery!Next
<1>1. PICK e \in Due(r) : applied' = applied \cup {e}  BY DEF Dispatch
<1>2. e \in page[r] /\ e \in Events  BY <1>1 DEF Due, IInv, TypeOK
<1>3. \A d \in Events : Before(d, e) => d \in applied \cup skipped
  BY <1>1, <1>2 DEF IInv, ReplicaOK, Dispatch, Due, Covered
<1>4. cursor # None  BY DEF IInv, ReplicaOK, Dispatch
<1>5. Delivery!Handle(e)
  BY <1>1, <1>3, <1>4, SameEvents DEF Dispatch, Delivery!Handle
<1> QED BY <1>2, <1>5, SameEvents DEF Delivery!Next

\* The cursor moves over events that are done.
LEMMA SaveIsMove ==
  ASSUME IInv, NEW r \in Replicas, SaveCursor(r)
  PROVE  Delivery!Next
<1>1. reached[r] \in 0..tip  BY DEF IInv, TypeOK
<1>2. cursor # None /\ UpTo(reached[r]) \subseteq applied \cup skipped
  BY DEF IInv, ReplicaOK, SaveCursor, PageDone, Covered
<1>3. Delivery!Move(reached[r])
  BY <1>2, SameEvents DEF SaveCursor, Delivery!Move
<1> QED BY <1>1, <1>3 DEF Delivery!Next

LEMMA StepRefines == IInv /\ [Next]_vars => [Delivery!Next]_dvars
<1> SUFFICES ASSUME IInv, [Next]_vars
             PROVE  Delivery!Next \/ UNCHANGED dvars
  OBVIOUS
<1>1. ASSUME NEW r \in Replicas, Poll(r)
      PROVE  Delivery!Next \/ UNCHANGED dvars
  <2>1. CASE ReadTip(r)  BY <2>1 DEF ReadTip, dvars
  <2>2. CASE ReadCursor(r)  BY <2>2 DEF ReadCursor, dvars
  <2>3. CASE SeedCursor(r)  BY <2>3, SeedIsStart
  <2>4. CASE FetchEvents(r)
    <3>1. Skip(Cut(r, Answer(mine[r] + 1)))  BY <2>4 DEF FetchEvents, Cut
    <3>2. Cut(r, Answer(mine[r] + 1)) \subseteq Events  BY DEF Cut, From
    <3> QED BY <2>4, <3>1, <3>2, SkipIsForgo DEF FetchEvents
  <2>5. CASE Dispatch(r)  BY <2>5, DispatchIsHandle
  <2>6. CASE SaveCursor(r)  BY <2>6, SaveIsMove
  <2> QED BY <1>1, <2>1, <2>2, <2>3, <2>4, <2>5, <2>6 DEF Poll
<1>2. ASSUME NEW r \in Replicas, FetchFails(r)
      PROVE  Delivery!Next
  <2>1. From(mine[r] + 1) \cap UpTo(PageEnd(r)) \subseteq Events  BY DEF From
  <2> QED BY <1>2, <2>1, SkipIsForgo DEF FetchFails
<1>3. ASSUME NEW r \in Replicas, HandlerFails(r)
      PROVE  Delivery!Next
  <2>1. PICK e \in page[r] : Skip({e})  BY <1>3 DEF HandlerFails, Due
  <2>2. {e} \subseteq Events  BY DEF IInv, TypeOK
  <2> QED BY <1>3, <2>1, <2>2, SkipIsForgo DEF HandlerFails
<1>4. ASSUME NEW r \in Replicas, PollFails(r) \/ Dies(r)
      PROVE  UNCHANGED dvars
  BY <1>4 DEF PollFails, Dies, dvars
<1>5. CASE CloseLedger
  <2>1. Delivery!Close  BY <1>5 DEF CloseLedger, Delivery!Close
  <2> QED BY <2>1 DEF Delivery!Next
<1>6. CASE UNCHANGED vars  BY <1>6 DEF vars, dvars
<1> QED BY <1>1, <1>2, <1>3, <1>4, <1>5, <1>6 DEF Next

\* On any number of replicas, whatever fails or dies, the indexer's cursor never
\* passes an event that was neither handled nor given up, and events are handled
\* first in the order of the chain (IndexerCursor, doPoll, processEvents).
THEOREM ImplementsDelivery == Spec => DeliverySpec
<1>1. Init => Delivery!Init  BY DEF Init, Delivery!Init
<1>2. IInv /\ [Next]_vars => [Delivery!Next]_(Delivery!evars)
  BY StepRefines DEF dvars, Delivery!evars
<1> QED BY InitInv, StepInv, <1>1, <1>2, PTL DEF Spec, DeliverySpec, Delivery!Spec

-----------------------------------------------------------------------------
(* Allowlist: the inductive invariant                                      *)

\* The types of the records.
TxStates == {"none", "built", "pending", "success", "failed"}
TxType == [state : TxStates, sequence : Nat]
Steps == {"absent", "inputs", "probe", "account", "simulate", "pause", "prepare", "send",
          "poll", "look", "wait", "rejected", "ended", "gave up"}
Statuses == {"unknown", "success", "failed"}
RunType == [step : Steps, script : {"add", "revoke"}, asset : Assets, confirm : BOOLEAN,
            attempts : 0..MaxAttempts, status : Statuses]

\* The typing invariant that the induction needs.
AllowlistTypes ==
  /\ run \in [Runs -> RunType] /\ tx \in [Runs -> TxType]
  /\ sequence \in Nat /\ listed \subseteq Assets
  /\ expired \cup outrun \subseteq Runs /\ code \in [Runs -> {0, 1, 2, 3, 9}]

\* The chain has included the transaction of run r.
Landed(r) == tx[r].state \in {"success", "failed"}

\* A run builds its transaction in its fourth step and sends it in its last one
\* before it polls; what it knows of it is true.
StepsAgree(r) ==
  /\ run[r].step \in {"absent", "inputs", "probe", "account"} => tx[r].state = "none"
  /\ run[r].step \in {"simulate", "pause", "prepare", "send"} => tx[r].state = "built"
  /\ run[r].step \in {"pause", "prepare", "send", "poll", "look", "wait", "rejected", "gave up"}
       => run[r].confirm
  /\ code[r] # 9 => run[r].step \in {"ended", "gave up"}
  /\ run[r].step = "wait" => run[r].attempts < MaxAttempts
  /\ run[r].status # "unknown" => tx[r].state = run[r].status

\* No transaction is built beyond the next sequence number, and those that have
\* landed used theirs up.
SequenceUsed(r) ==
  tx[r].sequence <= sequence + 1 /\ (Landed(r) => tx[r].sequence <= sequence)

\* A run that may still land, and whose simulation nobody has made void, is accepted.
Accepted(r) ==
  /\ run[r].step \in {"pause", "prepare", "send"} \/ tx[r].state = "pending"
  /\ tx[r].sequence > sequence /\ r \notin outrun
  => Accepts(r)

\* A run is patient: it polls longer than the time bound of its transaction.
Patient(r) == run[r].attempts > TimeBound \/ run[r].step = "gave up" => r \in expired

\* ExitCodesHold and FailureIsARace for one run.
OutcomeHolds(r) ==
  /\ code[r] = 0 /\ run[r].confirm => tx[r].state = "success"
  /\ code[r] \in {1, 2} \/ ~run[r].confirm => tx[r].state \in {"none", "built"}
  /\ tx[r].state = "failed" => r \in outrun

\* All of it for one run.
RunInv(r) ==
  StepsAgree(r) /\ SequenceUsed(r) /\ Accepted(r) /\ Patient(r) /\ OutcomeHolds(r)

\* A sequence number is used up once.
SequencesDiffer ==
  \A q, r \in Runs : Landed(q) /\ Landed(r) /\ q # r => tx[q].sequence # tx[r].sequence

\* The inductive invariant of Allowlist.
AllowlistIInv == AllowlistTypes /\ SequencesDiffer /\ \A r \in Runs : RunInv(r)

-----------------------------------------------------------------------------
(* Moves of the runs                                                       *)

\* Only run r moves, on its own asset: to a step, with attempts and a status.
MovesTo(r, step, attempts, status) ==
  /\ run' \in [Runs -> RunType]
  /\ \A q \in Runs \ {r} : run'[q] = run[q]
  /\ run'[r].script = run[r].script /\ run'[r].asset = run[r].asset
  /\ run'[r].confirm = run[r].confirm
  /\ run'[r].step = step /\ run'[r].attempts = attempts /\ run'[r].status = status

\* An update of step, attempts and status is such a move ...
LEMMA Moves ==
  ASSUME run \in [Runs -> RunType], NEW r \in Runs, NEW s \in Steps,
         NEW n \in 0..MaxAttempts, NEW v \in Statuses,
         run' = [run EXCEPT ![r].step = s, ![r].attempts = n, ![r].status = v]
  PROVE  MovesTo(r, s, n, v)
<1> DEFINE R == [run[r] EXCEPT !.step = s, !.attempts = n, !.status = v]
<1>1. run[r] \in RunType  OBVIOUS
<1>2. R \in RunType
  BY <1>1 DEF RunType
<1>3. run' = [run EXCEPT ![r] = R]
  OBVIOUS
<1>4. run' \in [Runs -> RunType]  BY <1>2, <1>3
<1>5. run'[r] = R /\ \A q \in Runs \ {r} : run'[q] = run[q]  BY <1>3
<1>6. R.step = s /\ R.attempts = n /\ R.status = v
      /\ R.script = run[r].script /\ R.asset = run[r].asset /\ R.confirm = run[r].confirm
  BY <1>1 DEF RunType
<1> HIDE DEF R
<1> QED BY <1>4, <1>5, <1>6 DEF MovesTo

\* ... and so is Proceed ...
LEMMA MovesProceed ==
  ASSUME run \in [Runs -> RunType], NEW r \in Runs, NEW s \in Steps, Proceed(r, s)
  PROVE  MovesTo(r, s, run[r].attempts, run[r].status)
<1>1. run[r] \in RunType  OBVIOUS
<1>2. run[r].attempts \in 0..MaxAttempts /\ run[r].status \in Statuses
  BY <1>1 DEF RunType
<1>3. run' = [run EXCEPT ![r].step = s, ![r].attempts = run[r].attempts,
                         ![r].status = run[r].status]
  BY <1>1 DEF Proceed, RunType
<1> QED BY <1>2, <1>3, Moves

\* ... and End.
LEMMA MovesEnd ==
  ASSUME run \in [Runs -> RunType], NEW r \in Runs, NEW s \in Steps, End(r, s)
  PROVE  MovesTo(r, s, 0, "unknown")
<1>1. run' = [run EXCEPT ![r].step = s, ![r].attempts = 0, ![r].status = "unknown"]
  BY DEF End, RunType
<1>2. 0 \in 0..MaxAttempts  BY AllowlistConstants
<1> QED BY <1>1, <1>2, Moves DEF Statuses

\* What every step of run r leaves alone.
OthersKept(r) ==
  /\ \A q \in Runs \ {r} :
       /\ run'[q] = run[q] /\ tx'[q] = tx[q] /\ code'[q] = code[q]
       /\ q \in outrun => q \in outrun'
  /\ UNCHANGED <<sequence, listed, expired>>

\* A step of run r that keeps its own part of the invariant keeps all of it.
LEMMA OthersKeepInv ==
  ASSUME AllowlistIInv, NEW r \in Runs, OthersKept(r), AllowlistTypes', RunInv(r)',
         ~Landed(r)' \/ tx'[r] = tx[r]
  PROVE  AllowlistIInv'
<1>1. ASSUME NEW q \in Runs \ {r} PROVE RunInv(q)'
  <2> DEFINE x == run[q]
             t == tx[q]
  <2>1. RunInv(q)  BY DEF AllowlistIInv
  <2>2. run'[q] = run[q] /\ tx'[q] = tx[q] /\ code'[q] = code[q]
        /\ (q \in outrun => q \in outrun') /\ UNCHANGED <<sequence, listed, expired>>
    BY DEF OthersKept
  <2> QED
    BY <2>1, <2>2
       DEF RunInv, StepsAgree, SequenceUsed, Accepted, Patient, OutcomeHolds, Landed, Accepts
<1>2. SequencesDiffer'
  BY DEF SequencesDiffer, AllowlistIInv, OthersKept, Landed
<1> QED BY <1>1, <1>2 DEF AllowlistIInv

\* The fields of a run and of its transaction.
LEMMA RunTypes ==
  ASSUME AllowlistTypes, NEW r \in Runs
  PROVE  /\ run[r].attempts \in 0..MaxAttempts /\ run[r].status \in Statuses
         /\ run[r].confirm \in BOOLEAN /\ run[r].step \in Steps
         /\ run[r].script \in {"add", "revoke"} /\ run[r].asset \in Assets
         /\ tx[r].state \in TxStates /\ tx[r].sequence \in Nat
         /\ code[r] \in {0, 1, 2, 3, 9}
<1>1. run[r] \in RunType /\ tx[r] \in TxType  BY DEF AllowlistTypes
<1> QED BY <1>1 DEF RunType, TxType, AllowlistTypes

\* A run ends with an exit code that its transaction bears out.
LEMMA ExitKeeps ==
  ASSUME AllowlistIInv, NEW r \in Runs, NEW n \in {0, 1, 2, 3}, Exit(r, n),
         n = 0 /\ run[r].confirm => tx[r].state = "success",
         n \in {1, 2} => tx[r].state \in {"none", "built"},
         UNCHANGED <<sequence, listed, expired, tx>>,
         outrun' = outrun \/ (outrun' = outrun \ {r} /\ tx[r].state = "built")
  PROVE  AllowlistIInv'
<1>1. MovesTo(r, "ended", 0, "unknown")
  BY MovesEnd DEF Exit, AllowlistIInv, AllowlistTypes, Steps
<1>2. code' = [code EXCEPT ![r] = n]  BY DEF Exit
<1>3. RunInv(r)  BY DEF AllowlistIInv
<1>4. AllowlistTypes' /\ OthersKept(r)
  BY <1>1, <1>2 DEF AllowlistIInv, AllowlistTypes, MovesTo, OthersKept
<1>5. code'[r] = n  BY <1>2 DEF AllowlistIInv, AllowlistTypes
<1>6. RunInv(r)'
  <2>1. /\ run'[r].step = "ended" /\ run'[r].attempts = 0 /\ run'[r].status = "unknown"
        /\ run'[r].confirm = run[r].confirm
        /\ run'[r].script = run[r].script /\ run'[r].asset = run[r].asset
    BY <1>1 DEF MovesTo
  <2>2. StepsAgree(r)' /\ SequenceUsed(r)'
    BY <1>3, <2>1 DEF RunInv, StepsAgree, SequenceUsed, Landed
  <2>5. Patient(r)'  BY <2>1, AllowlistConstants DEF Patient
  <2>3. Accepted(r)'  BY <1>3, <2>1 DEF RunInv, Accepted, Accepts
  <2>4. OutcomeHolds(r)'  BY <1>3, <1>5, <2>1 DEF RunInv, OutcomeHolds
  <2> QED BY <2>2, <2>3, <2>4, <2>5 DEF RunInv
<1> QED BY <1>4, <1>6, OthersKeepInv

\* A run proceeds to a step that its transaction and its attempts allow.
LEMMA ProceedKeeps ==
  ASSUME AllowlistIInv, NEW r \in Runs, NEW s \in Steps, NEW n \in 0..MaxAttempts,
         NEW v \in Statuses, MovesTo(r, s, n, v),
         AllowlistTypes', UNCHANGED <<sequence, listed, expired, tx, code>>, code[r] = 9,
         outrun' = outrun \/ (outrun' = outrun \ {r} /\ tx[r].state = "built"),
         s \in {"probe", "account"} => tx[r].state = "none",
         s \notin {"absent", "inputs", "simulate", "gave up"},
         s \in {"pause", "prepare", "send"} => tx[r].state = "built",
         s \in {"pause", "prepare", "send", "poll", "look", "wait", "rejected"} => run[r].confirm,
         s \in {"pause", "prepare", "send"} /\ r \notin outrun' /\ tx[r].sequence > sequence
           => Accepts(r),
         s = "wait" => n < MaxAttempts,
         n > TimeBound => r \in expired,
         v # "unknown" => tx[r].state = v
  PROVE  AllowlistIInv'
<1>1. RunInv(r)  BY DEF AllowlistIInv
<1>2. OthersKept(r)  BY DEF MovesTo, OthersKept
<1>3. RunInv(r)'
  BY <1>1
     DEF RunInv, StepsAgree, SequenceUsed, Accepted, Patient, OutcomeHolds, MovesTo, Landed,
         Accepts
<1> QED BY <1>2, <1>3, OthersKeepInv

\* The steps that both scripts take, one by one.
LEMMA SharedStep ==
  ASSUME AllowlistIInv, NEW r \in Runs, Shared(r)
  PROVE  AllowlistIInv'
<1> USE DEF contractVars
<1>0. /\ AllowlistTypes /\ RunInv(r)
      /\ run[r].attempts \in 0..MaxAttempts /\ run[r].status \in Statuses
      /\ run[r].confirm \in BOOLEAN /\ tx[r] \in TxType /\ code[r] \in {0, 1, 2, 3, 9}
  BY RunTypes DEF AllowlistIInv, AllowlistTypes
<1>1. ASSUME NEW s \in Steps, Proceed(r, s), tx' \in [Runs -> TxType],
             UNCHANGED <<sequence, listed, expired, code>>, outrun' \subseteq outrun
      PROVE  MovesTo(r, s, run[r].attempts, run[r].status) /\ AllowlistTypes'
  BY <1>0, <1>1, MovesProceed DEF AllowlistTypes, MovesTo
<1>2. CASE ValidateInputs(r)
  <2>0. /\ code[r] = 9 /\ tx[r].state = "none" /\ run[r].status = "unknown"
        /\ run[r].attempts > TimeBound => r \in expired
        /\ UNCHANGED <<sequence, listed, expired, tx>> /\ outrun' = outrun
    BY <1>0, <1>2 DEF ValidateInputs, RunInv, StepsAgree, Patient, Statuses
  <2>1. CASE Exit(r, 1)  BY <2>0, <2>1, ExitKeeps
  <2>2. CASE Proceed(r, "probe") /\ UNCHANGED code
    <3>1. "probe" \in Steps  BY DEF Steps
    <3>2. MovesTo(r, "probe", run[r].attempts, run[r].status) /\ AllowlistTypes'
      BY <1>0, <1>1, <2>0, <2>2, <3>1 DEF AllowlistTypes
    <3> QED BY <1>0, <2>0, <2>2, <3>1, <3>2, ProceedKeeps
  <2> QED BY <1>2, <2>1, <2>2 DEF ValidateInputs
<1>3. CASE Probe(r)
  <2>0. /\ code[r] = 9 /\ tx[r].state = "none" /\ run[r].status = "unknown"
        /\ run[r].attempts > TimeBound => r \in expired
        /\ UNCHANGED <<sequence, listed, expired, tx>> /\ outrun' = outrun
    BY <1>0, <1>3 DEF Probe, RunInv, StepsAgree, Patient, Statuses
  <2>1. CASE Exit(r, 1)  BY <2>0, <2>1, ExitKeeps
  <2>2. CASE Proceed(r, "account") /\ UNCHANGED code
    <3>1. "account" \in Steps  BY DEF Steps
    <3>2. MovesTo(r, "account", run[r].attempts, run[r].status) /\ AllowlistTypes'
      BY <1>0, <1>1, <2>0, <2>2, <3>1 DEF AllowlistTypes
    <3> QED BY <1>0, <2>0, <2>2, <3>1, <3>2, ProceedKeeps
  <2> QED BY <1>3, <2>1, <2>2 DEF Probe
<1>4. CASE LoadAccount(r)
  <2>1. CASE Exit(r, 1) /\ UNCHANGED tx
    <3>1. /\ tx[r].state = "none" /\ outrun' = outrun
          /\ UNCHANGED <<sequence, listed, expired, tx>>
      BY <1>0, <1>4, <2>1 DEF LoadAccount, RunInv, StepsAgree
    <3> QED BY <2>1, <3>1, ExitKeeps
  <2>2. CASE /\ Proceed(r, "simulate") /\ UNCHANGED code
             /\ tx' = [tx EXCEPT ![r] = [state |-> "built", sequence |-> sequence + 1]]
    <3>1. /\ tx' \in [Runs -> TxType] /\ tx'[r].state = "built"
          /\ tx'[r].sequence = sequence + 1 /\ \A q \in Runs \ {r} : tx'[q] = tx[q]
      BY <1>0, <2>2 DEF AllowlistTypes, TxType, TxStates
    <3>2. MovesTo(r, "simulate", run[r].attempts, run[r].status) /\ AllowlistTypes'
      BY <1>0, <1>1, <1>4, <2>2, <3>1 DEF LoadAccount, Steps
    <3>3. OthersKept(r)  BY <1>0, <1>4, <2>2, <3>1, <3>2 DEF LoadAccount, OthersKept, MovesTo
    <3>4. code'[r] = 9 /\ run[r].status = "unknown" /\ code[r] = 9 /\ tx[r].state = "none"
      BY <1>0, <1>4, <2>2 DEF LoadAccount, RunInv, StepsAgree, Statuses
    <3>5. RunInv(r)'
      BY <1>0, <1>4, <3>1, <3>2, <3>4
         DEF LoadAccount, AllowlistTypes, RunInv, StepsAgree, SequenceUsed, Accepted, Patient,
             OutcomeHolds, Landed, MovesTo
    <3> QED BY <3>1, <3>2, <3>3, <3>5, OthersKeepInv DEF Landed
  <2> QED BY <1>4, <2>1, <2>2 DEF LoadAccount
<1>5. CASE DryRun(r)
  <2>1. code[r] = 9 /\ tx[r].state = "built" /\ run[r].status = "unknown"
    BY <1>0, <1>5 DEF DryRun, RunInv, StepsAgree, Statuses
  <2>2. \/ Exit(r, 1) \/ Exit(r, 2)
        \/ Exit(r, 0) /\ ~run[r].confirm
        \/ Accepts(r) /\ run[r].confirm /\ Proceed(r, NextStep(r)) /\ UNCHANGED code
    <3>1. PICK result \in Simulation(r) :
            CASE result = "no answer"            -> Exit(r, 1)
              [] result = "refused"              -> Exit(r, 2)
              [] result = "ok" /\ ~Confirmed(r)  -> Exit(r, 0)
              [] result = "ok" /\ Confirmed(r)   -> Proceed(r, NextStep(r)) /\ UNCHANGED code
      BY <1>5 DEF DryRun
    <3>2. result \in {"refused", "no answer"} \/ (result = "ok" /\ Accepts(r))
      BY DEF Simulation
    <3>3. CASE result = "no answer"  BY <3>1, <3>3
    <3>4. CASE result = "refused"  BY <3>1, <3>4
    <3>5. CASE result = "ok" /\ ~Confirmed(r)  BY <3>1, <3>5 DEF Confirmed
    <3>6. CASE result = "ok" /\ Confirmed(r)
      BY <1>0, <3>1, <3>2, <3>6 DEF Confirmed
    <3> QED BY <3>2, <3>3, <3>4, <3>5, <3>6
  <2>3. outrun' = outrun \ {r} /\ UNCHANGED <<sequence, listed, expired, tx>>
    BY <1>5 DEF DryRun
  <2>4. ASSUME NEW n \in {0, 1, 2}, Exit(r, n), n = 0 => ~run[r].confirm
        PROVE  AllowlistIInv'
    BY <2>1, <2>3, <2>4, ExitKeeps
  <2>5. ASSUME Accepts(r), run[r].confirm, Proceed(r, NextStep(r)), UNCHANGED code
        PROVE  AllowlistIInv'
    <3>1. NextStep(r) \in {"pause", "prepare"} /\ NextStep(r) \in Steps  BY DEF NextStep, Steps
    <3>2. MovesTo(r, NextStep(r), run[r].attempts, run[r].status) /\ AllowlistTypes'
      BY <1>0, <1>1, <2>3, <2>5, <3>1 DEF AllowlistTypes
    <3>3. run[r].attempts > TimeBound => r \in expired  BY <1>0 DEF RunInv, Patient
    <3> QED BY <1>0, <2>1, <2>3, <2>5, <3>1, <3>2, <3>3, ProceedKeeps
  <2> QED BY <2>2, <2>4, <2>5
<1>6. CASE Prepare(r)
  <2>1. CASE Exit(r, 3)
    BY <1>0, <1>6, <2>1, ExitKeeps DEF Prepare, RunInv, StepsAgree
  <2>2. CASE Accepts(r) /\ Proceed(r, "send") /\ UNCHANGED code
    <3>1. MovesTo(r, "send", run[r].attempts, run[r].status) /\ AllowlistTypes'
      BY <1>0, <1>1, <1>6, <2>2 DEF Prepare, Steps, AllowlistTypes
    <3>2. /\ code[r] = 9 /\ tx[r].state = "built" /\ run[r].confirm /\ run[r].status = "unknown"
          /\ run[r].attempts > TimeBound => r \in expired
      BY <1>0, <1>6 DEF Prepare, RunInv, StepsAgree, Patient, Statuses
    <3> QED BY <1>0, <1>6, <2>2, <3>1, <3>2, ProceedKeeps DEF Prepare, Steps
  <2> QED BY <1>6, <2>1, <2>2 DEF Prepare
<1>7. CASE Send(r)
  <2> DEFINE queued == [tx EXCEPT ![r] = [state |-> "pending", sequence |-> tx[r].sequence]]
  <2>0. /\ code[r] = 9 /\ tx[r].state = "built" /\ run[r].confirm /\ run[r].status = "unknown"
        /\ run[r].attempts > TimeBound => r \in expired
        /\ Accepted(r) /\ SequenceUsed(r) /\ run[r].step = "send"
        /\ UNCHANGED <<sequence, listed, expired>> /\ outrun' = outrun
    BY <1>0, <1>7 DEF Send, RunInv, StepsAgree, Patient, Statuses
  <2>1. ASSUME Proceed(r, "poll"), UNCHANGED <<tx, code>> PROVE AllowlistIInv'
    <3>1. MovesTo(r, "poll", run[r].attempts, run[r].status) /\ AllowlistTypes'
      BY <1>0, <1>1, <2>0, <2>1 DEF Steps, AllowlistTypes
    <3> QED BY <1>0, <2>0, <2>1, <3>1, ProceedKeeps DEF Steps
  <2>2. ASSUME Exit(r, 3), UNCHANGED tx PROVE AllowlistIInv'
    BY <2>0, <2>2, ExitKeeps
  <2>3. ASSUME tx' = queued
        PROVE  /\ tx' \in [Runs -> TxType] /\ tx'[r].state = "pending"
               /\ tx'[r].sequence = tx[r].sequence /\ \A q \in Runs \ {r} : tx'[q] = tx[q]
    BY <1>0, <2>3 DEF AllowlistTypes, TxType, TxStates
  <2>4. ASSUME NEW s \in {"poll", "ended"}, NEW n \in 0..MaxAttempts,
               tx' = queued, MovesTo(r, s, n, "unknown"), n > TimeBound => r \in expired,
               code' = [code EXCEPT ![r] = IF s = "poll" THEN 9 ELSE 3]
        PROVE  AllowlistIInv'
    <3>1. OthersKept(r) /\ AllowlistTypes'
      BY <1>0, <2>0, <2>3, <2>4 DEF OthersKept, MovesTo, AllowlistTypes
    <3>2. /\ tx'[r].state = "pending" /\ tx'[r].sequence = tx[r].sequence
          /\ run'[r].step = s /\ run'[r].attempts = n /\ run'[r].status = "unknown"
          /\ run'[r].confirm = run[r].confirm /\ run'[r].asset = run[r].asset
          /\ run'[r].script = run[r].script /\ UNCHANGED <<listed, sequence, outrun, expired>>
      BY <2>0, <2>3, <2>4 DEF MovesTo
    <3>5. code'[r] = 9 \/ (code'[r] = 3 /\ s = "ended")
      BY <1>0, <2>4 DEF AllowlistTypes
    <3>3. StepsAgree(r)' /\ Patient(r)'
      BY <2>0, <2>4, <3>2, <3>5 DEF StepsAgree, Patient
    <3>6. OutcomeHolds(r)'  BY <2>0, <3>2, <3>5 DEF OutcomeHolds
    <3>4. Accepted(r)' /\ SequenceUsed(r)'
      BY <2>0, <3>2 DEF Accepted, Accepts, SequenceUsed, Landed
    <3> QED BY <3>1, <3>2, <3>3, <3>4, <3>6, OthersKeepInv DEF RunInv, Landed
  <2>5. ASSUME tx' = queued, Proceed(r, "poll"), UNCHANGED code PROVE AllowlistIInv'
    <3>1. MovesTo(r, "poll", run[r].attempts, "unknown")
      BY <1>0, <2>0, <2>5, MovesProceed DEF AllowlistTypes, Steps
    <3>2. code' = [code EXCEPT ![r] = 9]  BY <1>0, <2>0, <2>5 DEF AllowlistTypes
    <3> QED BY <1>0, <2>0, <2>4, <2>5, <3>1, <3>2
  <2>6. ASSUME tx' = queued, Exit(r, 3) PROVE AllowlistIInv'
    <3>1. MovesTo(r, "ended", 0, "unknown")
      BY <1>0, <2>6, MovesEnd DEF Exit, AllowlistTypes, Steps
    <3> QED BY <2>0, <2>4, <2>6, <3>1, AllowlistConstants DEF Exit
  <2> QED BY <1>7, <2>1, <2>2, <2>5, <2>6 DEF Send, BuiltSequence
<1>8. CASE FirstPoll(r)
  <2>1. PICK s \in Status(r) : run' = [run EXCEPT ![r].status = s, ![r].step = "look"]
    BY <1>8 DEF FirstPoll
  <2>2. s \in Statuses /\ (s # "unknown" => tx[r].state = s)  BY DEF Status, Statuses
  <2>3. run' = [run EXCEPT ![r].step = "look", ![r].attempts = run[r].attempts, ![r].status = s]
    BY <1>0, <2>1 DEF AllowlistTypes, RunType
  <2>4. MovesTo(r, "look", run[r].attempts, s)
    BY <1>0, <2>2, <2>3, Moves DEF AllowlistTypes, Steps
  <2>5. run[r].step = "poll" /\ UNCHANGED <<sequence, listed, expired, tx, code>>
        /\ outrun' = outrun
    BY <1>8 DEF FirstPoll
  <2>6. /\ code[r] = 9 /\ run[r].confirm
        /\ run[r].attempts > TimeBound => r \in expired
    BY <1>0, <2>5 DEF RunInv, StepsAgree, Patient
  <2>7. AllowlistTypes'  BY <1>0, <2>4, <2>5 DEF AllowlistTypes, MovesTo
  <2>8. "look" \in Steps  BY DEF Steps
  <2> QED BY <1>0, <2>2, <2>4, <2>5, <2>6, <2>7, <2>8, ProceedKeeps
<1>9. CASE Look(r)
  <2>0. /\ code[r] = 9 /\ run[r].confirm /\ run[r].step = "look"
        /\ run[r].attempts > TimeBound => r \in expired
        /\ run[r].status # "unknown" => tx[r].state = run[r].status
        /\ UNCHANGED <<sequence, listed, expired, tx>> /\ outrun' = outrun
    BY <1>0, <1>9 DEF Look, RunInv, StepsAgree, Patient
  <2>1. CASE GivesUp(r)
    <3>1. End(r, "gave up") /\ code' = [code EXCEPT ![r] = 3]  BY <1>9, <2>1 DEF Look
    <3>2. MovesTo(r, "gave up", 0, "unknown")
      BY <1>0, <3>1, MovesEnd DEF AllowlistTypes, Steps
    <3>3. OthersKept(r) /\ AllowlistTypes' /\ code'[r] = 3
      BY <1>0, <2>0, <3>1, <3>2 DEF OthersKept, MovesTo, AllowlistTypes
    <3>4. r \in expired  BY <2>0, <2>1, AllowlistConstants DEF GivesUp
    <3>5. /\ run'[r].step = "gave up" /\ run'[r].status = "unknown"
          /\ run'[r].confirm = run[r].confirm /\ run'[r].asset = run[r].asset
          /\ run'[r].script = run[r].script
          /\ UNCHANGED <<listed, sequence, outrun, expired, tx>>
      BY <2>0, <3>2 DEF MovesTo
    <3>8. StepsAgree(r)' /\ Patient(r)'
      BY <2>0, <3>3, <3>4, <3>5 DEF StepsAgree, Patient
    <3>6. OutcomeHolds(r)' /\ SequenceUsed(r)'
      BY <1>0, <2>0, <3>3, <3>5 DEF RunInv, OutcomeHolds, SequenceUsed, Landed
    <3>7. Accepted(r)'  BY <1>0, <3>5 DEF RunInv, Accepted, Accepts
    <3> QED BY <3>3, <3>5, <3>6, <3>7, <3>8, OthersKeepInv DEF RunInv
  <2>2. CASE ~GivesUp(r) /\ run[r].status = "success"
    <3>1. Exit(r, 0)  BY <1>9, <2>2 DEF Look
    <3> QED BY <2>0, <2>2, <3>1, ExitKeeps
  <2>3. CASE ~GivesUp(r) /\ run[r].status = "failed"
    <3>1. Exit(r, 3)  BY <1>9, <2>3 DEF Look
    <3> QED BY <2>0, <2>3, <3>1, ExitKeeps
  <2>4. CASE ~GivesUp(r) /\ run[r].status = "unknown"
    <3>1. Proceed(r, "wait") /\ UNCHANGED code  BY <1>9, <2>4 DEF Look
    <3>2. MovesTo(r, "wait", run[r].attempts, run[r].status) /\ AllowlistTypes'
      BY <1>0, <1>1, <2>0, <3>1 DEF AllowlistTypes, Steps
    <3>3. run[r].attempts < MaxAttempts  BY <1>0, <2>4, AllowlistConstants DEF GivesUp
    <3>4. "wait" \in Steps  BY DEF Steps
    <3> QED BY <1>0, <2>0, <2>4, <3>1, <3>2, <3>3, <3>4, ProceedKeeps
  <2> QED BY <1>0, <2>1, <2>2, <2>3, <2>4 DEF Statuses
<1>10. CASE PollAgain(r)
  <2>0. /\ code[r] = 9 /\ run[r].confirm /\ run[r].step = "wait"
        /\ run[r].attempts > TimeBound => r \in expired
        /\ run[r].status # "unknown" => tx[r].state = run[r].status
        /\ run[r].attempts < MaxAttempts /\ Timely(r)
        /\ UNCHANGED <<sequence, listed, expired, tx, code>> /\ outrun' = outrun
    BY <1>0, <1>10 DEF PollAgain, RunInv, StepsAgree, Patient
  <2>1. CASE run' = [run EXCEPT ![r].step = "rejected"]
    <3>1. MovesTo(r, "rejected", run[r].attempts, run[r].status) /\ AllowlistTypes'
      BY <1>0, <1>1, <2>0, <2>1 DEF Proceed, AllowlistTypes, Steps
    <3>2. "rejected" \in Steps  BY DEF Steps
    <3> QED BY <1>0, <2>0, <3>1, <3>2, ProceedKeeps
  <2>2. ASSUME NEW s \in Status(r),
               run' = [run EXCEPT ![r].status = s, ![r].step = "look", ![r].attempts = @ + 1]
        PROVE  AllowlistIInv'
    <3>1. s \in Statuses /\ (s # "unknown" => tx[r].state = s)  BY DEF Status, Statuses
    <3>2. run[r].attempts + 1 \in 0..MaxAttempts  BY <1>0, <2>0, AllowlistConstants
    <3>3. run' = [run EXCEPT ![r].step = "look", ![r].attempts = run[r].attempts + 1,
                             ![r].status = s]
      BY <1>0, <2>2 DEF AllowlistTypes, RunType
    <3>4. MovesTo(r, "look", run[r].attempts + 1, s)
      BY <1>0, <3>1, <3>2, <3>3, Moves DEF AllowlistTypes, Steps
    <3>5. run[r].attempts + 1 > TimeBound => r \in expired
      BY <1>0, <2>0, AllowlistConstants DEF Timely
    <3>6. AllowlistTypes'  BY <1>0, <2>0, <3>4 DEF AllowlistTypes, MovesTo
    <3>7. "look" \in Steps  BY DEF Steps
    <3> QED BY <1>0, <2>0, <3>1, <3>2, <3>4, <3>5, <3>6, <3>7, ProceedKeeps
  <2> QED BY <1>10, <2>1, <2>2 DEF PollAgain
<1>11. CASE Rejected(r)
  <2>1. Exit(r, 3) /\ UNCHANGED <<sequence, listed, expired, tx>> /\ outrun' = outrun
    BY <1>11 DEF Rejected
  <2> QED BY <2>1, ExitKeeps
<1> QED BY <1>2, <1>3, <1>4, <1>5, <1>6, <1>7, <1>8, <1>9, <1>10, <1>11 DEF Shared

\* A run starts, its transaction not built yet.
LEMMA StartStep ==
  ASSUME AllowlistIInv, NEW r \in Runs, NEW script \in {"add", "revoke"}, NEW a \in Assets,
         NEW confirm \in BOOLEAN, Start(r, script, a, confirm)
  PROVE  AllowlistIInv'
<1> DEFINE R == [Absent EXCEPT !.step = "inputs", !.script = script, !.asset = a,
                               !.confirm = confirm]
<1>1. /\ run' = [run EXCEPT ![r] = R] /\ run[r].step = "absent"
      /\ UNCHANGED <<sequence, listed, expired, tx, code>> /\ outrun' = outrun
  BY DEF Start, contractVars
<1>2. R \in RunType /\ R.step = "inputs" /\ R.attempts = 0 /\ R.status = "unknown"
  <2>1. Absent \in RunType /\ Absent.attempts = 0 /\ Absent.status = "unknown"
    <3>1. (CHOOSE x \in Assets : TRUE) \in Assets  BY AllowlistConstants
    <3>2. 0 \in 0..MaxAttempts  BY AllowlistConstants
    <3> QED BY <3>1, <3>2 DEF Absent, RunType, Steps, Statuses
  <2>2. "inputs" \in Steps  BY DEF Steps
  <2> HIDE DEF Absent
  <2> QED BY <2>1, <2>2 DEF RunType
<1>3. run' \in [Runs -> RunType] /\ run'[r] = R /\ \A q \in Runs \ {r} : run'[q] = run[q]
  BY <1>1, <1>2 DEF AllowlistIInv, AllowlistTypes
<1>4. AllowlistTypes' /\ OthersKept(r)
  BY <1>1, <1>3 DEF AllowlistIInv, AllowlistTypes, OthersKept
<1>5. /\ tx[r].state = "none" /\ code[r] = 9 /\ SequenceUsed(r)
      /\ run'[r].step = "inputs" /\ run'[r].attempts = 0 /\ run'[r].status = "unknown"
  BY <1>1, <1>2, <1>3 DEF AllowlistIInv, RunInv, StepsAgree
<1>6. StepsAgree(r)' /\ Accepted(r)'
  BY <1>1, <1>5 DEF StepsAgree, Accepted
<1>9. OutcomeHolds(r)'  BY <1>1, <1>5 DEF OutcomeHolds
<1>8. SequenceUsed(r)'  BY <1>1, <1>5 DEF SequenceUsed, Landed
<1>7. Patient(r)'  BY <1>5, AllowlistConstants DEF Patient
<1> QED BY <1>1, <1>4, <1>6, <1>7, <1>8, <1>9, OthersKeepInv DEF RunInv

\* The operator stops the script.
LEMMA InterruptStep ==
  ASSUME AllowlistIInv, NEW r \in Runs, Interrupt(r)
  PROVE  AllowlistIInv'
<1>1. /\ End(r, "ended") /\ UNCHANGED <<sequence, listed, expired, tx, code>> /\ outrun' = outrun
      /\ Running(r)
  BY DEF Interrupt, contractVars
<1>2. MovesTo(r, "ended", 0, "unknown")
  BY <1>1, MovesEnd DEF AllowlistIInv, AllowlistTypes, Steps
<1>3. AllowlistTypes'  BY <1>1, <1>2 DEF AllowlistIInv, AllowlistTypes, MovesTo
<1>4. RunInv(r) /\ code[r] = 9
  BY <1>1 DEF AllowlistIInv, RunInv, StepsAgree, Running
<1>5. "ended" \in Steps /\ "unknown" \in Statuses /\ 0 \in 0..MaxAttempts /\ ~(0 > TimeBound)
  BY AllowlistConstants DEF Steps, Statuses
<1> QED BY <1>1, <1>2, <1>3, <1>4, <1>5, ProceedKeeps

\* The pause before the transaction of allowlist-revoke.
LEMMA PauseStep ==
  ASSUME AllowlistIInv, NEW r \in Runs, Pause(r)
  PROVE  AllowlistIInv'
<1>1. /\ Proceed(r, "prepare") /\ UNCHANGED <<sequence, listed, expired, tx, code>>
      /\ outrun' = outrun /\ run[r].step = "pause"
  BY DEF Pause, contractVars
<1>2. "prepare" \in Steps  BY DEF Steps
<1>3. MovesTo(r, "prepare", run[r].attempts, run[r].status)
  BY <1>1, <1>2, MovesProceed DEF AllowlistIInv, AllowlistTypes
<1>4. AllowlistTypes'  BY <1>1, <1>3 DEF AllowlistIInv, AllowlistTypes, MovesTo
<1>5. RunInv(r)  BY DEF AllowlistIInv
<1>6. /\ code[r] = 9 /\ tx[r].state = "built" /\ run[r].confirm
      /\ run[r].attempts > TimeBound => r \in expired
      /\ run[r].status # "unknown" => tx[r].state = run[r].status
  BY <1>1, <1>5 DEF RunInv, StepsAgree, Patient
<1>7. run[r].attempts \in 0..MaxAttempts /\ run[r].status \in Statuses
  BY RunTypes DEF AllowlistIInv
<1>8. r \notin outrun /\ tx[r].sequence > sequence => Accepts(r)
  BY <1>1, <1>5 DEF RunInv, Accepted
<1> QED BY <1>1, <1>2, <1>3, <1>4, <1>6, <1>7, <1>8, ProceedKeeps

\* A transaction lands under its own sequence number, and the simulation of its
\* run was right unless another administrator came in between.
LEMMA LandStep ==
  ASSUME AllowlistIInv, NEW r \in Runs, Land(r)
  PROVE  AllowlistIInv'
<1>1. /\ tx[r].state = "pending" /\ r \notin expired /\ tx[r].sequence = sequence + 1
      /\ sequence' = sequence + 1 /\ UNCHANGED <<run, expired, code, outrun>>
  BY DEF Land
<1>2. /\ AllowlistTypes /\ SequencesDiffer /\ RunInv(r)
      /\ tx[r] \in TxType /\ tx[r].sequence \in Nat /\ sequence \in Nat
  BY RunTypes DEF AllowlistIInv, AllowlistTypes
<1>3. PICK state \in {"success", "failed"} : tx' = [tx EXCEPT ![r].state = state]
  BY DEF Land
<1>4. /\ tx' \in [Runs -> TxType] /\ tx'[r].state = state
      /\ tx'[r].sequence = sequence + 1 /\ \A q \in Runs \ {r} : tx'[q] = tx[q]
  BY <1>1, <1>2, <1>3 DEF AllowlistTypes, TxType, TxStates
<1>5. listed' \subseteq Assets
  <2>1. run[r].asset \in Assets  BY <1>2, RunTypes
  <2> QED BY <1>2, <2>1 DEF Land, AllowlistTypes
<1>6. AllowlistTypes'  BY <1>1, <1>2, <1>4, <1>5 DEF AllowlistTypes
<1>7. tx'[r].state = "failed" => r \in outrun
  <2>1. CASE Accepts(r)
    <3>1. tx' = [tx EXCEPT ![r].state = "success"]  BY <2>1 DEF Land
    <3>2. tx'[r].state = "success"  BY <1>2, <3>1 DEF AllowlistTypes, TxType
    <3> QED BY <3>2
  <2>2. CASE ~Accepts(r)  BY <1>1, <1>2, <2>2 DEF RunInv, Accepted
  <2> QED BY <2>1, <2>2
<1>8. RunInv(r)'
  <2>0. run[r].status \in Statuses  BY <1>2, RunTypes
  <2>1. StepsAgree(r)'
    BY <1>1, <1>2, <1>4, <2>0 DEF RunInv, StepsAgree, Statuses
  <2>2. SequenceUsed(r)' /\ Accepted(r)'
    BY <1>1, <1>2, <1>4 DEF SequenceUsed, Accepted
  <2>4. Patient(r)'  BY <1>1, <1>2 DEF RunInv, Patient
  <2>3. OutcomeHolds(r)'  BY <1>1, <1>2, <1>4, <1>7 DEF RunInv, OutcomeHolds
  <2> QED BY <2>1, <2>2, <2>3, <2>4 DEF RunInv
<1>9. ASSUME NEW q \in Runs \ {r} PROVE RunInv(q)'
  <2>1. RunInv(q) /\ tx'[q] = tx[q] /\ tx[q].sequence \in Nat
    BY <1>2, <1>4, RunTypes DEF AllowlistIInv
  <2>2. StepsAgree(q)' /\ Patient(q)'
    BY <1>1, <2>1 DEF RunInv, StepsAgree, Patient
  <2>5. SequenceUsed(q)'
    BY <1>1, <1>2, <2>1 DEF RunInv, SequenceUsed, Landed
  <2>3. Accepted(q)'
    BY <1>1, <1>2, <2>1 DEF RunInv, SequenceUsed, Accepted
  <2>4. OutcomeHolds(q)'  BY <1>1, <2>1 DEF RunInv, OutcomeHolds
  <2> QED BY <2>2, <2>3, <2>4, <2>5 DEF RunInv
<1>10. SequencesDiffer'
  <2> SUFFICES ASSUME NEW p \in Runs, NEW q \in Runs, Landed(p)', Landed(q)', p # q
               PROVE  tx'[p].sequence # tx'[q].sequence
    BY DEF SequencesDiffer
  <2>1. ASSUME NEW x \in Runs \ {r}, Landed(x)'
        PROVE  Landed(x) /\ tx'[x] = tx[x] /\ tx'[x].sequence # sequence + 1
    <3>1. tx'[x] = tx[x] /\ tx[x].sequence \in Nat /\ RunInv(x)
      BY <1>2, <1>4, RunTypes DEF AllowlistIInv
    <3> QED BY <1>2, <2>1, <3>1 DEF RunInv, SequenceUsed, Landed
  <2>2. CASE p = r \/ q = r  BY <1>4, <2>1, <2>2
  <2>3. CASE p # r /\ q # r  BY <1>2, <2>1, <2>3 DEF SequencesDiffer
  <2> QED BY <2>2, <2>3
<1> QED BY <1>6, <1>8, <1>9, <1>10 DEF AllowlistIInv

\* What other accounts and the clock do.
LEMMA OutsideStep ==
  ASSUME AllowlistIInv,
         \/ OtherTransaction
         \/ \E a \in Assets : OtherAdministrator(a)
         \/ \E r \in Runs : Expire(r)
  PROVE  AllowlistIInv'
<1>0. run' = run /\ tx' = tx /\ code' = code
  BY DEF OtherTransaction, OtherAdministrator, Expire
<1>1. SequencesDiffer'  BY <1>0 DEF AllowlistIInv, SequencesDiffer, Landed
<1>2. CASE OtherTransaction
  <2>1. AllowlistTypes'  BY <1>0, <1>2 DEF OtherTransaction, AllowlistIInv, AllowlistTypes
  <2>2. ASSUME NEW q \in Runs PROVE RunInv(q)'
    <3>1. RunInv(q) /\ tx[q].sequence \in Nat /\ sequence \in Nat
      BY RunTypes DEF AllowlistIInv, AllowlistTypes
    <3>2. sequence' = sequence + 1 /\ UNCHANGED <<listed, expired, outrun>>
      BY <1>2 DEF OtherTransaction
    <3>3. StepsAgree(q)' /\ Patient(q)' /\ OutcomeHolds(q)'
      BY <1>0, <3>1, <3>2 DEF RunInv, StepsAgree, Patient, OutcomeHolds
    <3>4. SequenceUsed(q)' /\ Accepted(q)'
      BY <1>0, <3>1, <3>2 DEF RunInv, SequenceUsed, Accepted, Accepts, Landed
    <3> QED BY <3>3, <3>4 DEF RunInv
  <2> QED BY <1>1, <2>1, <2>2 DEF AllowlistIInv
<1>3. ASSUME NEW a \in Assets, OtherAdministrator(a) PROVE AllowlistIInv'
  <2>1. AllowlistTypes'  BY <1>0, <1>3 DEF OtherAdministrator, AllowlistIInv, AllowlistTypes
  <2>2. ASSUME NEW q \in Runs PROVE RunInv(q)'
    <3>1. RunInv(q)  BY DEF AllowlistIInv
    <3>2. /\ UNCHANGED <<sequence, expired>> /\ outrun \subseteq outrun'
          /\ \A x \in Assets \ {a} : x \in listed' <=> x \in listed
          /\ run[q].asset = a /\ tx[q].state \in {"built", "pending"} => q \in outrun'
      BY <1>3 DEF OtherAdministrator
    <3>3. StepsAgree(q)' /\ Patient(q)' /\ OutcomeHolds(q)'
      BY <1>0, <3>1, <3>2 DEF RunInv, StepsAgree, Patient, OutcomeHolds
    <3>4. SequenceUsed(q)'
      BY <1>0, <3>1, <3>2 DEF RunInv, SequenceUsed, Landed
    <3>5. run[q].asset \in Assets  BY RunTypes DEF AllowlistIInv
    <3>6. Accepted(q)'
      BY <1>0, <3>1, <3>2, <3>5 DEF RunInv, StepsAgree, Accepted, Accepts
    <3> QED BY <3>3, <3>4, <3>6 DEF RunInv
  <2> QED BY <1>1, <2>1, <2>2 DEF AllowlistIInv
<1>4. ASSUME NEW r \in Runs, Expire(r) PROVE AllowlistIInv'
  <2>1. AllowlistTypes'  BY <1>0, <1>4 DEF Expire, AllowlistIInv, AllowlistTypes
  <2>2. ASSUME NEW q \in Runs PROVE RunInv(q)'
    <3>1. RunInv(q)  BY DEF AllowlistIInv
    <3>2. UNCHANGED <<sequence, listed, outrun>> /\ expired \subseteq expired'
      BY <1>4 DEF Expire
    <3>3. StepsAgree(q)' /\ Patient(q)' /\ OutcomeHolds(q)'
      BY <1>0, <3>1, <3>2 DEF RunInv, StepsAgree, Patient, OutcomeHolds
    <3>4. SequenceUsed(q)' /\ Accepted(q)'
      BY <1>0, <3>1, <3>2 DEF RunInv, SequenceUsed, Accepted, Accepts, Landed
    <3> QED BY <3>3, <3>4 DEF RunInv
  <2> QED BY <1>1, <2>1, <2>2 DEF AllowlistIInv
<1> QED BY <1>2, <1>3, <1>4

\* The base case and the step of the induction.
LEMMA AllowlistInitially == AllowlistInit => AllowlistIInv
<1> SUFFICES ASSUME AllowlistInit PROVE AllowlistIInv  OBVIOUS
<1>1. Absent \in RunType
  <2>1. (CHOOSE x \in Assets : TRUE) \in Assets  BY AllowlistConstants
  <2>2. 0 \in 0..MaxAttempts  BY AllowlistConstants
  <2> QED BY <2>1, <2>2 DEF Absent, RunType, Steps, Statuses
<1>2. AllowlistTypes
  BY <1>1 DEF AllowlistInit, AllowlistTypes, NoTx, TxType, TxStates
<1>3. ASSUME NEW r \in Runs
      PROVE  /\ run[r].step = "absent" /\ run[r].attempts = 0 /\ run[r].status = "unknown"
             /\ tx[r].state = "none" /\ tx[r].sequence = 0 /\ code[r] = 9 /\ sequence = 0
  BY DEF AllowlistInit, Absent, NoTx
<1>4. ASSUME NEW r \in Runs PROVE RunInv(r)
  <2>1. StepsAgree(r) /\ Accepted(r)  BY <1>3 DEF StepsAgree, Accepted
  <2>2. OutcomeHolds(r)  BY <1>3 DEF OutcomeHolds
  <2>3. SequenceUsed(r)  BY <1>3 DEF SequenceUsed, Landed
  <2>4. Patient(r)
    <3>1. ~(0 > TimeBound)  BY AllowlistConstants
    <3>2. run[r].step = "absent" /\ run[r].attempts = 0  BY <1>3
    <3> QED BY <3>1, <3>2 DEF Patient
  <2> QED BY <2>1, <2>2, <2>3, <2>4 DEF RunInv
<1>5. SequencesDiffer  BY <1>3 DEF SequencesDiffer, Landed
<1> QED BY <1>2, <1>4, <1>5 DEF AllowlistIInv

LEMMA AllowlistStep == AllowlistIInv /\ [AllowlistNext]_allowlistVars => AllowlistIInv'
<1> SUFFICES ASSUME AllowlistIInv, [AllowlistNext]_allowlistVars PROVE AllowlistIInv'
  OBVIOUS
<1>1. CASE UNCHANGED allowlistVars
  <2>1. UNCHANGED <<run, sequence, listed, tx, expired, code, outrun>>
    BY <1>1 DEF allowlistVars
  <2>2. AllowlistTypes' /\ SequencesDiffer'
    BY <2>1 DEF AllowlistIInv, AllowlistTypes, SequencesDiffer, Landed
  <2>3. ASSUME NEW r \in Runs PROVE RunInv(r)'
    BY <2>1 DEF AllowlistIInv, RunInv, StepsAgree, SequenceUsed, Accepted, Patient,
                OutcomeHolds, Landed, Accepts
  <2> QED BY <2>2, <2>3 DEF AllowlistIInv
<1>2. CASE AllowlistNext
  BY <1>2, StartStep, SharedStep, PauseStep, InterruptStep, LandStep, OutsideStep
     DEF AllowlistNext, Add, Revoke
<1> QED BY <1>1, <1>2

\* The inductive invariant of the allowlist scripts: a sequence number is used up
\* once, a run that may still land is accepted unless somebody else changed its
\* asset, and no run gives up before its transaction's time is over.
THEOREM AllowlistInvariance == AllowlistSpec => []AllowlistIInv
BY AllowlistInitially, AllowlistStep, PTL DEF AllowlistSpec

\* What a run of allowlist-add or -revoke says by its exit code, or may say before
\* its end, holds of the chain, for any number of runs and other transactions.
THEOREM OutcomesAreTrue == AllowlistSpec => []OutcomesHold
<1>1. AllowlistIInv => OutcomesHold
  <2> SUFFICES ASSUME AllowlistIInv PROVE OutcomesHold  OBVIOUS
  <2>1. AllowlistTypes /\ SequencesDiffer /\ \A r \in Runs : RunInv(r)  BY DEF AllowlistIInv
  <2>2. AllowlistTypeOK
    <3>1. run \in [Runs -> [step : {"absent", "inputs", "probe", "account", "simulate", "pause",
                                    "prepare", "send", "poll", "look", "wait", "rejected",
                                    "ended", "gave up"},
                            script : {"add", "revoke"}, asset : Assets, confirm : BOOLEAN,
                            attempts : 0..MaxAttempts,
                            status : {"unknown", "success", "failed"}]]
      BY <2>1 DEF AllowlistTypes, RunType, Steps, Statuses
    <3>2. \A q, r \in Runs : {tx[q].state, tx[r].state} \subseteq {"success", "failed"} =>
            tx[r].sequence <= sequence /\ (q # r => tx[q].sequence # tx[r].sequence)
      BY <2>1 DEF RunInv, SequenceUsed, SequencesDiffer, Landed
    <3> QED BY <2>1, <3>1, <3>2 DEF AllowlistTypeOK, AllowlistTypes
  <2>3. ExitCodesHold /\ FailureIsARace
    BY <2>1 DEF RunInv, OutcomeHolds, ExitCodesHold, FailureIsARace
  <2> QED BY <2>2, <2>3 DEF OutcomesHold
<1> QED BY <1>1, AllowlistInvariance, PTL

\* The transaction of a run that gave up has outlived its time bound, so the chain
\* does not include it any more; and no step of the run touches it again.
THEOREM GivenUpStaysOut == AllowlistSpec => GivenUpNeverLands
<1>1. ASSUME AllowlistIInv, [AllowlistNext]_allowlistVars,
             NEW r \in Runs, run[r].step = "gave up"
      PROVE  tx'[r] = tx[r]
  <2>1. r \in expired  BY <1>1 DEF AllowlistIInv, RunInv, Patient
  <2>2. ASSUME NEW q \in Runs, Shared(q) PROVE tx'[r] = tx[r]
    <3>1. CASE q = r
      BY <1>1, <2>2, <3>1
         DEF Shared, ValidateInputs, Probe, LoadAccount, DryRun, Prepare, Send, FirstPoll, Look,
             PollAgain, Rejected
    <3>2. CASE q # r
      BY <1>1, <2>2, <3>2
         DEF Shared, ValidateInputs, Probe, LoadAccount, DryRun, Prepare, Send, FirstPoll, Look,
             PollAgain, Rejected, contractVars, AllowlistIInv, AllowlistTypes
    <3> QED BY <3>1, <3>2
  <2>3. ASSUME NEW q \in Runs, Land(q) PROVE tx'[r] = tx[r]
    <3>1. q # r  BY <2>1, <2>3 DEF Land
    <3>2. PICK state \in {"success", "failed"} : tx' = [tx EXCEPT ![q].state = state]
      BY <2>3 DEF Land
    <3> QED BY <1>1, <3>1, <3>2 DEF AllowlistIInv, AllowlistTypes
  <2>4. CASE UNCHANGED allowlistVars  BY <2>4 DEF allowlistVars
  <2>5. CASE AllowlistNext
    BY <2>2, <2>3, <2>5
       DEF AllowlistNext, Add, Revoke, Start, Pause, Interrupt, Expire, OtherTransaction,
           OtherAdministrator
  <2> QED BY <1>1, <2>4, <2>5
<1>2. AllowlistIInv /\ [AllowlistNext]_allowlistVars
        => [\A r \in Runs : run[r].step = "gave up" => tx'[r] = tx[r]]_allowlistVars
  BY <1>1
<1> QED BY <1>2, AllowlistInvariance, PTL DEF AllowlistSpec, GivenUpNeverLands
=============================================================================
