---------------------------- MODULE EventDelivery ----------------------------
(***************************************************************************)
(* What the indexer promises, whatever it polls, pages and saves: a mark   *)
(* in the database below which every contract event has been handled or    *)
(* forgone, and events that are handled at least once and first in the     *)
(* order of the chain.  IndexerCursor: "the last Soroban ledger sequence   *)
(* fully processed"; it lets a restarted process continue "rather than     *)
(* re-processing history or silently skipping events".                     *)
(* Indexer implements this specification.                                  *)
(***************************************************************************)
EXTENDS Naturals

CONSTANTS
  MaxLedger,   \* bound: ledgers that close
  PerLedger,   \* bound: events in a ledger
  None         \* the mark before the first poll

VARIABLES
  tip,         \* the last closed ledger
  size,        \* its number of events, for each ledger
  mark,        \* the last ledger that counts as processed
  handled,     \* events a handler has run for
  forgone      \* events given up

evars == <<tip, size, mark, handled, forgone>>

\* An event is its ledger and its position in it.
Events == {e \in (1..tip) \X (1..PerLedger) : e[2] <= size[e[1]]}
Before(d, e) == d[1] < e[1] \/ (d[1] = e[1] /\ d[2] < e[2])
UpTo(l) == {e \in Events : e[1] <= l}

Init ==
  /\ tip \in 0..MaxLedger /\ size \in [1..MaxLedger -> 0..PerLedger]
  /\ mark = None /\ handled = {} /\ forgone = {}

Close ==
  /\ tip < MaxLedger
  /\ tip' = tip + 1
  /\ UNCHANGED <<size, mark, handled, forgone>>

\* Possibly again; for the first time only once no earlier event is due.
Handle(e) ==
  /\ mark # None
  /\ \A d \in Events : Before(d, e) => d \in handled \cup forgone
  /\ handled' = handled \cup {e}
  /\ UNCHANGED <<tip, size, mark, forgone>>

Forgo ==
  /\ forgone \subseteq forgone'
  /\ forgone' \in SUBSET (forgone \cup (Events \ handled))
  /\ UNCHANGED <<tip, size, mark, handled>>

\* The mark passes no event that is due.  It may fall back.
Move(l) ==
  /\ mark # None
  /\ UpTo(l) \subseteq handled \cup forgone
  /\ mark' = l
  /\ UNCHANGED <<tip, size, handled, forgone>>

\* The first poll forgoes the history and starts from a recent ledger.
Start(l) ==
  /\ forgone' = forgone \cup (UpTo(l) \ handled)
  /\ mark' = l
  /\ UNCHANGED <<tip, size, handled>>

Next ==
  \/ Close
  \/ \E e \in Events : Handle(e)
  \/ Forgo
  \/ \E l \in 0..tip : Move(l) \/ Start(l)

Spec == Init /\ [][Next]_evars
=============================================================================
