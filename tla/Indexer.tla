------------------------------- MODULE Indexer -------------------------------
(***************************************************************************)
(* Indexer: the poll cycle of IndexerService on several replicas.  A cycle *)
(* reads the tip of the chain and then the cursor row, pages through       *)
(* getEvents, hands every event to its handler and saves the cursor after  *)
(* each page.  Every awaited call is a step of its replica; `polling`, the *)
(* flag against overlapping cycles, is pc # "idle".  What the handlers do  *)
(* to other tables is in ReadingBatches, OracleSubmissions, Retirements    *)
(* and GovernanceVoting; here an event is dispatched and its handler       *)
(* returns or throws.                                                      *)
(*                                                                         *)
(* The RPC server (not in src/) answers getEvents with the first RpcLimit  *)
(* events from a ledger on: the request names neither an end nor a limit.  *)
(* At most MaxFaults calls fail or processes die.  Left out: events that   *)
(* decodeEvent cannot read (skipped), an absent cursor row (as one with    *)
(* NULL), no configured contract.                                          *)
(***************************************************************************)
EXTENDS Naturals, FiniteSets

CONSTANTS
  Replicas,
  MaxLedger,    \* bound: ledgers that close
  PerLedger,    \* bound: events in a ledger
  RpcLimit,     \* events in one answer of the server
  PageLedgers,  \* MAX_EVENTS_PER_PAGE, which the code counts in ledgers
  MaxFaults,    \* bound: failing calls and deaths of a process
  None          \* NULL

ASSUME IndexerConstants ==
  /\ MaxLedger \in Nat \ {0} /\ PerLedger \in Nat
  /\ RpcLimit \in Nat \ {0} /\ PageLedgers \in Nat \ {0}
  /\ MaxFaults \in Nat
  /\ None \notin Nat

VARIABLES
  tip, size,      \* the chain: last closed ledger, events of each ledger
  cursor,         \* indexer_cursor.last_indexed_ledger
  pc,             \* where doPoll of a replica is
  seen,           \* its chainTipLedger
  mine,           \* its cursor entity: lastIndexedLedger
  page,           \* events of the page still to be dispatched
  reached,        \* processedLedgerTo of the page
  applied,        \* events whose handler has returned
  skipped,        \* events given up by a cold start, a cut page or an error
  faults

chainVars == <<tip, size>>
pageVars  == <<page, reached>>
vars == <<chainVars, cursor, pc, seen, mine, pageVars, applied, skipped, faults>>

-----------------------------------------------------------------------------
Smaller(a, b) == IF a < b THEN a ELSE b

Events == {e \in (1..tip) \X (1..PerLedger) : e[2] <= size[e[1]]}
Before(d, e) == d[1] < e[1] \/ (d[1] = e[1] /\ d[2] < e[2])
From(l) == {e \in Events : e[1] >= l}
UpTo(l) == {e \in Events : e[1] <= l}

\* getEvents({startLedger, filters}).
Answer(l) ==
  {e \in From(l) : Cardinality({d \in From(l) : Before(d, e)}) < RpcLimit}

\* pageTo, the last ledger of the page.
PageEnd(r) == Smaller(mine[r] + PageLedgers, seen[r])

\* processedLedgerTo: the ledger of the last event if it lies on the page, or the
\* end of the page (the one element of the set).
LastOf(S) == {e \in S : \A d \in S : ~Before(e, d)}
ProcessedTo(r, S) ==
  IF S = {} THEN {PageEnd(r)} ELSE {Smaller(e[1], PageEnd(r)) : e \in LastOf(S)}

Skip(S) == skipped' = skipped \cup (S \ applied)

Init ==
  /\ tip = 1 /\ size \in [1..MaxLedger -> 0..PerLedger]
  /\ cursor = None
  /\ pc = [r \in Replicas |-> "idle"]
  /\ seen = [r \in Replicas |-> 0] /\ mine = [r \in Replicas |-> 0]
  /\ page = [r \in Replicas |-> {}] /\ reached = [r \in Replicas |-> 0]
  /\ applied = {} /\ skipped = {}
  /\ faults = 0

-----------------------------------------------------------------------------
(* doPoll                                                                  *)

Goto(r, label) == pc' = [pc EXCEPT ![r] = label]

\* The cycle ends, whole or by an error: `polling` is cleared.
Leave(r) ==
  /\ Goto(r, "idle")
  /\ seen' = [seen EXCEPT ![r] = 0]
  /\ mine' = [mine EXCEPT ![r] = 0]
  /\ page' = [page EXCEPT ![r] = {}]
  /\ reached' = [reached EXCEPT ![r] = 0]

ReadTip(r) ==
  /\ pc[r] = "idle"
  /\ seen' = [seen EXCEPT ![r] = tip]
  /\ Goto(r, "cursor")
  /\ UNCHANGED <<chainVars, cursor, mine, pageVars, applied, skipped, faults>>

ReadCursor(r) ==
  /\ pc[r] = "cursor"
  /\ \/ cursor = None /\ Goto(r, "seed") /\ UNCHANGED <<seen, mine, pageVars>>
     \/ cursor # None /\ cursor + 1 > seen[r] /\ Leave(r)
     \/ /\ cursor # None /\ cursor + 1 <= seen[r]
        /\ mine' = [mine EXCEPT ![r] = cursor]
        /\ Goto(r, "fetch")
        /\ UNCHANGED <<seen, pageVars>>
  /\ UNCHANGED <<chainVars, cursor, applied, skipped, faults>>

\* The cold start forgoes the history, and in a second replica what the first
\* one has not reached yet.
SeedCursor(r) ==
  /\ pc[r] = "seed"
  /\ cursor' = seen[r] - 1
  /\ Skip(UpTo(seen[r] - 1))
  /\ Leave(r)
  /\ UNCHANGED <<chainVars, applied, faults>>

\* An answer that ends within the page may have been cut in the middle of a
\* ledger: the next page starts after that ledger.
FetchEvents(r) ==
  LET S == Answer(mine[r] + 1) IN
  /\ pc[r] = "fetch"
  /\ page' = [page EXCEPT ![r] = S]
  /\ \E l \in ProcessedTo(r, S) : reached' = [reached EXCEPT ![r] = l]
  /\ Skip({e \in From(mine[r] + 1) \ S : \E d \in S : d[1] = e[1] /\ e[1] <= PageEnd(r)})
  /\ Goto(r, "dispatch")
  /\ UNCHANGED <<chainVars, cursor, seen, mine, applied, faults>>

\* getEvents fails: "treat this range as empty".
FetchFails(r) ==
  /\ pc[r] = "fetch" /\ faults < MaxFaults
  /\ faults' = faults + 1
  /\ reached' = [reached EXCEPT ![r] = PageEnd(r)]
  /\ Skip(From(mine[r] + 1) \cap UpTo(PageEnd(r)))
  /\ Goto(r, "dispatch")
  /\ UNCHANGED <<chainVars, cursor, seen, mine, page, applied>>

\* processEvents takes them in order.  Mutant: as they come.
AsTheyCome(r) == page[r]
Due(r) == {e \in page[r] : \A d \in page[r] : ~Before(d, e)}

Dispatch(r) ==
  /\ pc[r] = "dispatch"
  /\ \E e \in Due(r) :
       /\ applied' = applied \cup {e}
       /\ page' = [page EXCEPT ![r] = @ \ {e}]
  /\ UNCHANGED <<chainVars, cursor, pc, seen, mine, reached, skipped, faults>>

\* "Per-event errors are logged but must not abort the overall batch."
HandlerFails(r) ==
  /\ pc[r] = "dispatch" /\ faults < MaxFaults
  /\ faults' = faults + 1
  /\ \E e \in Due(r) :
       /\ Skip({e})
       /\ page' = [page EXCEPT ![r] = @ \ {e}]
  /\ UNCHANGED <<chainVars, cursor, pc, seen, mine, reached, applied>>

\* The cursor is saved behind the page.  Mutant: before its events.
BeforeThem(r) == pc[r] = "dispatch"
PageDone(r)   == pc[r] = "dispatch" /\ page[r] = {}

\* currentLedger of the next page, after the one just saved.  Mutant: the last
\* ledger of this page once more.
SameLedger(r) == reached[r]
NextLedger(r) == reached[r] + 1

SaveCursor(r) ==
  /\ PageDone(r)
  /\ cursor' = reached[r]
  /\ \/ NextLedger(r) > seen[r] /\ Leave(r)
     \/ /\ NextLedger(r) <= seen[r]
        /\ mine' = [mine EXCEPT ![r] = NextLedger(r) - 1]
        /\ reached' = [reached EXCEPT ![r] = 0]
        /\ page' = [page EXCEPT ![r] = {}]
        /\ Goto(r, "fetch")
        /\ UNCHANGED seen
  /\ UNCHANGED <<chainVars, applied, skipped, faults>>

\* A rejected read or save ends the cycle.
PollFails(r) ==
  /\ pc[r] \in {"cursor", "seed"} \/ PageDone(r)
  /\ faults < MaxFaults
  /\ faults' = faults + 1
  /\ Leave(r)
  /\ UNCHANGED <<chainVars, cursor, applied, skipped>>

\* The process dies and comes back with onModuleInit.
Dies(r) ==
  /\ pc[r] # "idle" /\ faults < MaxFaults
  /\ faults' = faults + 1
  /\ Leave(r)
  /\ UNCHANGED <<chainVars, cursor, applied, skipped>>

-----------------------------------------------------------------------------
\* The chain (external).
CloseLedger ==
  /\ tip < MaxLedger
  /\ tip' = tip + 1
  /\ UNCHANGED <<size, cursor, pc, seen, mine, pageVars, applied, skipped, faults>>

Poll(r) ==
  \/ ReadTip(r) \/ ReadCursor(r) \/ SeedCursor(r) \/ FetchEvents(r)
  \/ Dispatch(r) \/ SaveCursor(r)

Next ==
  \/ \E r \in Replicas :
       Poll(r) \/ FetchFails(r) \/ HandlerFails(r) \/ PollFails(r) \/ Dies(r)
  \/ CloseLedger

Spec == Init /\ [][Next]_vars

\* setInterval calls runPollCycle for ever and an awaited call settles.
Fairness == \A r \in Replicas : WF_vars(Poll(r))

FairSpec == Spec /\ Fairness

-----------------------------------------------------------------------------
(* Properties                                                              *)

Labels == {"idle", "cursor", "seed", "fetch", "dispatch"}

\* Types; neither the cursor nor a page runs ahead of the chain.
TypeOK ==
  /\ tip \in 1..MaxLedger /\ size \in [1..MaxLedger -> 0..PerLedger]
  /\ cursor \in {None} \cup 0..tip
  /\ pc \in [Replicas -> Labels]
  /\ seen \in [Replicas -> 0..tip] /\ mine \in [Replicas -> 0..tip]
  /\ page \in [Replicas -> SUBSET Events] /\ reached \in [Replicas -> 0..tip]
  /\ applied \subseteq Events /\ skipped \subseteq Events
  /\ faults \in 0..MaxFaults

\* The poll cycle implements the abstract delivery: the cursor never passes an
\* event that was neither handled nor given up, on any replica, across deaths,
\* stale cursors and cut pages, and events are handled first in chain order.
Delivery == INSTANCE EventDelivery WITH
  mark <- cursor, handled <- applied, forgone <- skipped
DeliverySpec == Delivery!Spec

\* Whatever dies or fails a bounded number of times, and however often a replica
\* sets the cursor back: once ledgers stop closing, the cursor is at the tip.
CatchesUp == []<>(cursor = tip)
=============================================================================
