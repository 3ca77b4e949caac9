--------------------------- MODULE GovernanceVoting ---------------------------
(***************************************************************************)
(* GovernanceVoting: how proposals are created and registered on chain,    *)
(* voted on, expire and are executed (GovernanceService), and what the     *)
(* indexer does with the contract's vote_cast and proposal_executed events *)
(* (IndexerService).  vote() is one SERIALIZABLE transaction, so one step; *)
(* elsewhere every awaited call is a step, and TypeORM's save of an entity *)
(* writes back every column the entity was loaded with.  The number of     *)
(* eligible voters is read on another connection: it is any of             *)
(* EligibleCounts at each reading.  Proposals are numbered by created_at.  *)
(*                                                                         *)
(* The contract (not in src/) numbers the proposals it registers and       *)
(* executes a number once.  Its transactions may land after their sender   *)
(* saw an error; a lost registration has no effect here, as nobody learns  *)
(* its number.  Foreign is the number of a proposal this backend did not   *)
(* register.  Calls to the chain fail at any time; calls to PostgreSQL     *)
(* fail, or a process dies, at most MaxFaults times.                       *)
(* Assumed: a creation settles (60 s) before its deadline (7 days).        *)
(***************************************************************************)
EXTENDS Naturals, FiniteSets, Sequences

CONSTANTS
  MaxProposals,   \* bound: rows of proposals
  Voters,
  Executors,      \* calls of executeProposal
  MaxIds,         \* bound: registrations on chain
  QuorumBps,      \* quorumBasisPoints, 0 for the absolute model
  Quorum,         \* the absolute quorum
  EligibleCounts, \* values countEligible may answer
  MaxFaults       \* bound: rejected database calls and deaths

Proposals == 1..MaxProposals
Foreign   == MaxIds + 1
Ids       == 1..Foreign

ASSUME GovernanceConstants ==
  /\ MaxProposals \in Nat /\ MaxIds \in Nat /\ MaxFaults \in Nat
  /\ QuorumBps \in 0..10000 /\ Quorum \in Nat \ {0}
  /\ EligibleCounts \subseteq Nat /\ EligibleCounts # {}
  /\ IsFiniteSet(Voters)

VARIABLES
  row,         \* proposals: status, yes and no counters, on_chain_proposal_id (0: NULL)
  ballot,      \* proposal_votes: "none", "yes" or "no" of each voter
  late,        \* voters whose ballot came from the chain after the decision (history)
  clock,       \* "voting", "over" (deadline passed) or "unlocked" (timelock, too)
  creator,     \* where createProposal of a row is: its step and its local id
  pc, at, copy, \* locals of executeProposal: step, proposal, entity
  issued,      \* registrations: of which proposal, by "creation" or "execution"
  flying,      \* execute transactions that were given up and may still land
  executed,    \* numbers the contract has executed
  handled,     \* of them, those whose event the indexer has handled
  watch,       \* the indexer: the event at hand, its proposal and its entity
  overwritten, \* proposals whose counters a save has set back (history)
  guessed,     \* proposals an event was matched to by the fallback (history)
  faults

voteVars  == <<ballot, late>>
execVars  == <<pc, at, copy>>
chainVars == <<issued, flying, executed>>
indexVars == <<handled, watch>>
histVars  == <<overwritten, guessed>>
vars == <<row, voteVars, clock, creator, execVars, chainVars, indexVars, histVars, faults>>

-----------------------------------------------------------------------------
NoRow == [status |-> "absent", yes |-> 0, no |-> 0, id |-> 0]
Idle  == [event |-> 0, of |-> 0, entity |-> NoRow]
Exists(p) == row[p].status # "absent"
Ballots(p, s) == {v \in Voters : ballot[p][v] = s}

\* evaluateQuorum, on turnout.
QuorumMet(y, n, eligible) ==
  IF QuorumBps <= 0 \/ eligible <= 0
  THEN y + n >= Quorum
  ELSE (y + n) * 10000 >= eligible * QuorumBps

\* repository.save(entity): every column becomes what the entity says.
Save(p, entity) ==
  /\ row' = [row EXCEPT ![p] = entity]
  /\ overwritten' = IF entity.yes # row[p].yes \/ entity.no # row[p].no
                    THEN overwritten \cup {p} ELSE overwritten

Init ==
  /\ row = [p \in Proposals |-> NoRow]
  /\ ballot = [p \in Proposals |-> [v \in Voters |-> "none"]]
  /\ late = [p \in Proposals |-> {}]
  /\ clock = [p \in Proposals |-> "voting"]
  /\ creator = [p \in Proposals |-> [step |-> "none", id |-> 0]]
  /\ pc = [x \in Executors |-> "idle"] /\ at = [x \in Executors |-> 0]
  /\ copy = [x \in Executors |-> NoRow]
  /\ issued = <<>> /\ flying = {} /\ executed = {}
  /\ handled = {} /\ watch = Idle
  /\ overwritten = {} /\ guessed = {}
  /\ faults = 0

-----------------------------------------------------------------------------
(* createProposal                                                          *)

InsertProposal(p) ==
  /\ creator[p].step = "none" /\ \A q \in Proposals : q < p => creator[q].step # "none"
  /\ row' = [row EXCEPT ![p].status = "active"]
  /\ creator' = [creator EXCEPT ![p].step = "register"]
  /\ UNCHANGED <<voteVars, clock, execVars, chainVars, indexVars, histVars, faults>>

\* registerProposalOnChain, seen to succeed ...
RegisterAtCreation(p) ==
  /\ creator[p].step = "register" /\ Len(issued) < MaxIds
  /\ issued' = Append(issued, [of |-> p, by |-> "creation"])
  /\ creator' = [creator EXCEPT ![p] = [step |-> "save", id |-> Len(issued) + 1]]
  /\ UNCHANGED <<row, voteVars, clock, execVars, flying, executed, indexVars,
                 histVars, faults>>

\* ... or not: "registration deferred".
RegistrationDeferred(p) ==
  /\ creator[p].step = "register"
  /\ creator' = [creator EXCEPT ![p].step = "done"]
  /\ UNCHANGED <<row, voteVars, clock, execVars, chainVars, indexVars, histVars, faults>>

\* The entity still says: active, no votes.
SaveChainId(p) ==
  /\ creator[p].step = "save"
  /\ Save(p, [status |-> "active", yes |-> 0, no |-> 0, id |-> creator[p].id])
  /\ creator' = [creator EXCEPT ![p].step = "done"]
  /\ UNCHANGED <<voteVars, clock, execVars, chainVars, indexVars, guessed, faults>>

CreationFails(p) ==
  /\ creator[p].step \in {"register", "save"} /\ faults < MaxFaults
  /\ faults' = faults + 1
  /\ creator' = [creator EXCEPT ![p].step = "done"]
  /\ UNCHANGED <<row, voteVars, clock, execVars, chainVars, indexVars, histVars>>

-----------------------------------------------------------------------------
(* vote, checkExpiry and the clock                                         *)

OpenForVotes(p) == row[p].status = "active" /\ clock[p] = "voting"

Counted(r, s) == IF s = "yes" THEN [r EXCEPT !.yes = @ + 1] ELSE [r EXCEPT !.no = @ + 1]

\* At the quorum the majority decides, as of now.  Mutant: a tie passes.
DecidedTies(r, eligible) ==
  IF ~QuorumMet(r.yes, r.no, eligible) THEN r
  ELSE [r EXCEPT !.status = IF r.yes >= r.no THEN "passed" ELSE "rejected"]
Decided(r, eligible) ==
  IF ~QuorumMet(r.yes, r.no, eligible) THEN r
  ELSE [r EXCEPT !.status = IF r.yes > r.no THEN "passed" ELSE "rejected"]

Vote(p, v, s) ==
  /\ OpenForVotes(p) /\ ballot[p][v] = "none"
  /\ ballot' = [ballot EXCEPT ![p][v] = s]
  /\ \E eligible \in EligibleCounts :
       row' = [row EXCEPT ![p] = Decided(Counted(row[p], s), eligible)]
  /\ UNCHANGED <<late, clock, creator, execVars, chainVars, indexVars, histVars, faults>>

\* The condition of checkExpiry's UPDATE.
Expires(p) == row[p].status = "active" /\ clock[p] # "voting"

\* checkExpiry, by any request that reads the row.  (vote() sets EXPIRED as well,
\* but throws and rolls it back.)
CheckExpiry(p) ==
  /\ Expires(p)
  /\ row' = [row EXCEPT ![p].status = "expired"]
  /\ UNCHANGED <<voteVars, clock, creator, execVars, chainVars, indexVars, histVars, faults>>

TimePasses(p) ==
  /\ creator[p].step = "done" /\ clock[p] # "unlocked"
  /\ clock' = [clock EXCEPT ![p] = IF @ = "voting" THEN "over" ELSE "unlocked"]
  /\ UNCHANGED <<row, voteVars, creator, execVars, chainVars, indexVars, histVars, faults>>

-----------------------------------------------------------------------------
(* executeProposal                                                         *)

Goto(x, label) == pc' = [pc EXCEPT ![x] = label]
Leave(x) ==
  /\ Goto(x, "idle")
  /\ at' = [at EXCEPT ![x] = 0]
  /\ copy' = [copy EXCEPT ![x] = NoRow]

\* Passed, unlocked and, in the percentage model, still at the quorum of today.
MayExecute(p) ==
  /\ row[p].status = "passed" /\ clock[p] = "unlocked"
  /\ QuorumBps > 0 =>
       \E eligible \in EligibleCounts : QuorumMet(row[p].yes, row[p].no, eligible)

LoadProposal(x, p) ==
  /\ pc[x] = "idle" /\ MayExecute(p)
  /\ at' = [at EXCEPT ![x] = p]
  /\ copy' = [copy EXCEPT ![x] = row[p]]
  /\ Goto(x, IF row[p].id = 0 THEN "register" ELSE "execute")
  /\ UNCHANGED <<row, voteVars, clock, creator, chainVars, indexVars, histVars, faults>>

RegisterNow(x) ==
  /\ pc[x] = "register" /\ Len(issued) < MaxIds
  /\ issued' = Append(issued, [of |-> at[x], by |-> "execution"])
  /\ copy' = [copy EXCEPT ![x].id = Len(issued) + 1]
  /\ Goto(x, "save")
  /\ UNCHANGED <<row, voteVars, clock, creator, at, flying, executed, indexVars,
                 histVars, faults>>

SaveNumber(x) ==
  /\ pc[x] = "save"
  /\ Save(at[x], copy[x])
  /\ Goto(x, "execute")
  /\ UNCHANGED <<voteVars, clock, creator, at, copy, chainVars, indexVars, guessed, faults>>

\* stellarService.execute, seen to succeed ...
ExecuteOnChain(x) ==
  /\ pc[x] = "execute" /\ copy[x].id \notin executed
  /\ executed' = executed \cup {copy[x].id}
  /\ Goto(x, "record")
  /\ UNCHANGED <<row, voteVars, clock, creator, at, copy, issued, flying, indexVars,
                 histVars, faults>>

\* ... or registration or execution throws: "leave as PASSED".  A timed-out
\* transaction may land later.  Mutant: the number is cleared for the retry.
CallFailsAndClears(x) ==
  /\ pc[x] \in {"register", "execute"}
  /\ flying' \in {flying, IF pc[x] = "execute" THEN flying \cup {copy[x].id} ELSE flying}
  /\ row' = [row EXCEPT ![at[x]].id = 0]
  /\ Leave(x)
  /\ UNCHANGED <<voteVars, clock, creator, issued, executed, indexVars, histVars, faults>>
CallFails(x) ==
  /\ pc[x] \in {"register", "execute"}
  /\ flying' \in {flying, IF pc[x] = "execute" THEN flying \cup {copy[x].id} ELSE flying}
  /\ Leave(x)
  /\ UNCHANGED <<row, voteVars, clock, creator, issued, executed, indexVars, histVars, faults>>

RecordExecution(x) ==
  /\ pc[x] = "record"
  /\ row' = [row EXCEPT ![at[x]].status = "executed"]
  /\ Leave(x)
  /\ UNCHANGED <<voteVars, clock, creator, chainVars, indexVars, histVars, faults>>

\* A database call rejects or the process dies.
ExecutorFails(x) ==
  /\ pc[x] # "idle" /\ faults < MaxFaults
  /\ faults' = faults + 1
  /\ Leave(x)
  /\ UNCHANGED <<row, voteVars, clock, creator, chainVars, indexVars, histVars>>

-----------------------------------------------------------------------------
(* The contract (external) and the indexer                                 *)

LandLate(i) ==
  /\ i \in flying \ executed
  /\ executed' = executed \cup {i}
  /\ UNCHANGED <<row, voteVars, clock, creator, execVars, issued, flying, indexVars,
                 histVars, faults>>

ExecuteForeign ==
  /\ Foreign \notin executed
  /\ executed' = executed \cup {Foreign}
  /\ UNCHANGED <<row, voteVars, clock, creator, execVars, issued, flying, indexVars,
                 histVars, faults>>

\* onGovernanceProposalExecuted, possibly repeated: the row with that number, or
\* else the newest PASSED one.
WithNumber(i) == {p \in Proposals : row[p].id = i}
NewestPassed  == {p \in Proposals : /\ row[p].status = "passed"
                                    /\ \A q \in Proposals : row[q].status = "passed" => q <= p}
Matched(i)    == IF WithNumber(i) # {} THEN WithNumber(i) ELSE NewestPassed

LoadExecuted(i) ==
  /\ watch = Idle /\ i \in executed
  /\ \/ /\ \A p \in Matched(i) : row[p].status = "executed"
        /\ handled' = handled \cup {i}
        /\ UNCHANGED <<watch, guessed>>
     \/ \E p \in Matched(i) :
          /\ row[p].status # "executed"
          /\ watch' = [event |-> i, of |-> p, entity |-> row[p]]
          /\ guessed' = IF WithNumber(i) = {} THEN guessed \cup {p} ELSE guessed
          /\ UNCHANGED handled
  /\ UNCHANGED <<row, voteVars, clock, creator, execVars, chainVars, overwritten, faults>>

\* Mutant: it saves the number, but not the status.
SaveNumberOnly ==
  /\ watch # Idle
  /\ Save(watch.of, [watch.entity EXCEPT !.id = watch.event])
  /\ handled' = handled \cup {watch.event}
  /\ watch' = Idle
  /\ UNCHANGED <<voteVars, clock, creator, execVars, chainVars, guessed, faults>>
SaveExecuted ==
  /\ watch # Idle
  /\ Save(watch.of, [watch.entity EXCEPT !.status = "executed", !.id = watch.event])
  /\ handled' = handled \cup {watch.event}
  /\ watch' = Idle
  /\ UNCHANGED <<voteVars, clock, creator, execVars, chainVars, guessed, faults>>

\* dispatch logs a failing handler and goes on: the event is not handled again.
IndexerFails ==
  /\ watch # Idle /\ faults < MaxFaults
  /\ faults' = faults + 1
  /\ handled' = handled \cup {watch.event}
  /\ watch' = Idle
  /\ UNCHANGED <<row, voteVars, clock, creator, execVars, chainVars, histVars>>

\* INSERT ... ON CONFLICT DO NOTHING RETURNING.  Mutant: repeated votes count.
EveryTime(p, v)    == TRUE
FirstBallot(p, v)  == ballot[p][v] = "none"

\* onGovernanceVoteCast: a vote on chain is counted whatever the status, and
\* never decides the proposal.
IndexVote(p, v, s) ==
  /\ row[p].id # 0 /\ FirstBallot(p, v)
  /\ ballot' = [ballot EXCEPT ![p][v] = s]
  /\ late' = [late EXCEPT ![p] = IF row[p].status = "active" THEN @ ELSE @ \cup {v}]
  /\ row' = [row EXCEPT ![p] = Counted(@, s)]
  /\ UNCHANGED <<clock, creator, execVars, chainVars, indexVars, histVars, faults>>

-----------------------------------------------------------------------------
Create(p) ==
  InsertProposal(p) \/ RegisterAtCreation(p) \/ RegistrationDeferred(p) \/ SaveChainId(p)
Execute(x) ==
  \/ \E p \in Proposals : LoadProposal(x, p)
  \/ RegisterNow(x) \/ SaveNumber(x) \/ ExecuteOnChain(x) \/ CallFails(x)
  \/ RecordExecution(x)
IndexExecution == (\E i \in Ids : i \notin handled /\ LoadExecuted(i)) \/ SaveExecuted

Next ==
  \/ \E p \in Proposals : Create(p) \/ CreationFails(p) \/ CheckExpiry(p) \/ TimePasses(p)
  \/ \E p \in Proposals, v \in Voters, s \in {"yes", "no"} : Vote(p, v, s) \/ IndexVote(p, v, s)
  \/ \E x \in Executors : Execute(x) \/ ExecutorFails(x)
  \/ \E i \in Ids : LandLate(i) \/ LoadExecuted(i)
  \/ ExecuteForeign \/ SaveExecuted \/ IndexerFails

Spec == Init /\ [][Next]_vars

\* The indexer polls for ever.  Nobody has to vote or to execute.
FairSpec == Spec /\ WF_vars(IndexExecution)

-----------------------------------------------------------------------------
(* Properties                                                              *)

Statuses == {"absent", "active", "passed", "rejected", "executed", "expired"}
RowTypes == [status : Statuses, yes : Nat, no : Nat, id : 0..Foreign]

\* Types of all the state.
TypeOK ==
  /\ row \in [Proposals -> RowTypes]
  /\ ballot \in [Proposals -> [Voters -> {"none", "yes", "no"}]]
  /\ late \in [Proposals -> SUBSET Voters]
  /\ clock \in [Proposals -> {"voting", "over", "unlocked"}]
  /\ creator \in [Proposals -> [step : {"none", "register", "save", "done"}, id : 0..MaxIds]]
  /\ pc \in [Executors -> {"idle", "register", "save", "execute", "record"}]
  /\ at \in [Executors -> 0..MaxProposals] /\ copy \in [Executors -> RowTypes]
  /\ issued \in Seq([of : Proposals, by : {"creation", "execution"}]) /\ Len(issued) <= MaxIds
  /\ flying \subseteq Ids /\ executed \subseteq Ids /\ handled \subseteq executed
  /\ watch \in [event : 0..Foreign, of : 0..MaxProposals, entity : RowTypes]
  /\ overwritten \subseteq Proposals /\ guessed \subseteq Proposals
  /\ faults \in 0..MaxFaults
  /\ \A x \in Executors : pc[x] # "idle" => at[x] \in Proposals /\ clock[at[x]] = "unlocked"
  /\ \A x \in Executors : pc[x] \in {"execute", "record"} => copy[x].id # 0

\* "Concurrent votes on the same proposal cannot lose each other's counts", and a
\* vote that comes both through the API and from the chain counts once: the
\* counters are the ballots, but for a save that wrote an old entity back.
CountersAreBallots ==
  \A p \in Proposals \ overwritten :
    /\ row[p].yes = Cardinality(Ballots(p, "yes"))
    /\ row[p].no = Cardinality(Ballots(p, "no"))

\* A passed proposal had the majority of the ballots that came before it was
\* decided; later ballots from the chain decide nothing.
PassedByMajority ==
  \A p \in Proposals \ overwritten :
    row[p].status = "passed" =>
      Cardinality(Ballots(p, "yes") \ late[p]) > Cardinality(Ballots(p, "no") \ late[p])

\* Locally EXECUTED only after the contract executed a number of this proposal
\* ("only after the Soroban transaction is confirmed"), unless the indexer had to
\* guess the proposal of an unknown number.
ExecutedOnChain ==
  \A p \in Proposals \ guessed :
    row[p].status = "executed" => \E i \in executed \ {Foreign} : issued[i].of = p

\* A status of the list is backed: passed by a majority, executed by the contract.
StatusIsBacked == TypeOK /\ PassedByMajority /\ ExecutedOnChain

\* A proposal that was registered when it was created is executed once on chain,
\* whoever retries; only calls that both found no number can execute it twice.
ExecutedOnce ==
  \A i, j \in executed \ {Foreign} :
    i # j /\ issued[i].of = issued[j].of =>
      issued[i].by = "execution" /\ issued[j].by = "execution"

\* An execution that landed after its caller gave up, or died, is recorded by the
\* indexer, for a proposal registered at its creation.
LandedFor(p) == \E i \in executed \ {Foreign} : issued[i] = [of |-> p, by |-> "creation"]
ExecutionIsRecorded ==
  \A p \in Proposals :
    (LandedFor(p) /\ faults = 0) ~> (faults > 0 \/ row[p].status = "executed")
=============================================================================
