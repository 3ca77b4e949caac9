------------------------------ MODULE Allowlist ------------------------------
(***************************************************************************)
(* Allowlist: the operator's command-line tools that add an asset to the   *)
(* contract's allowlist or revoke it (scripts/allowlist-add, -revoke and   *)
(* -validate).  Several operators may run them at once.  Every run checks  *)
(* its input and the network, simulates the call, and with --confirm sends *)
(* the transaction and polls for it; it may be interrupted anywhere.       *)
(*                                                                         *)
(* The chain (external): an operator account with a sequence number, which *)
(* other transactions of the backend use too, and a contract that rejects  *)
(* adding what is listed and revoking what is not, and that may have other *)
(* administrators.  A transaction lands under its own sequence number      *)
(* within its time bound, or never.                                        *)
(*                                                                         *)
(* Left out: the formats of the input (valid or not) and the output.       *)
(***************************************************************************)
EXTENDS Naturals, FiniteSets

CONSTANTS
  Runs,         \* executions of a script
  Assets,       \* code and issuer
  Network,      \* "testnet" or "mainnet"
  MaxAttempts,  \* how often a run polls again
  TimeBound,    \* polls after which a transaction is out of its time bound
  MaxSequence   \* bound: sequence number of the operator account

ASSUME AllowlistConstants ==
  /\ Assets # {} /\ Network \in {"testnet", "mainnet"} /\ MaxSequence \in Nat
  /\ MaxAttempts \in Nat /\ TimeBound \in Nat /\ TimeBound < MaxAttempts

VARIABLES
  run,       \* of each run: its step, script, asset, confirm, attempts and status
  sequence,  \* of the operator account on chain
  listed,    \* the contract's allowlist
  tx,        \* of each run: sequence number and state of its transaction
  expired,   \* runs whose transaction is out of its time bound
  code,      \* exit code of each run, 9 before its end and if interrupted
  outrun     \* runs whose asset another administrator changed since (history)

allowlistVars == <<run, sequence, listed, tx, expired, code, outrun>>
contractVars == <<sequence, listed, expired, outrun>>

-----------------------------------------------------------------------------
NoTx   == [state |-> "none", sequence |-> 0]
Absent == [step |-> "absent", script |-> "add", asset |-> CHOOSE a \in Assets : TRUE,
           confirm |-> FALSE, attempts |-> 0, status |-> "unknown"]
Running(r) == run[r].step \notin {"absent", "ended", "gave up"}

AllowlistInit ==
  /\ run = [r \in Runs |-> Absent]
  /\ sequence = 0 /\ listed \in SUBSET Assets
  /\ tx = [r \in Runs |-> NoTx]
  /\ expired = {} /\ outrun = {}
  /\ code = [r \in Runs |-> 9]

Proceed(r, step) == run' = [run EXCEPT ![r].step = step]
End(r, step) ==
  run' = [run EXCEPT ![r].step = step, ![r].status = "unknown", ![r].attempts = 0]
Exit(r, n) == End(r, "ended") /\ code' = [code EXCEPT ![r] = n]

\* Whether the contract accepts the call of r now.
Accepts(r) == (run[r].script = "add") <=> run[r].asset \notin listed

-----------------------------------------------------------------------------
(* The steps that both scripts have in common                              *)

Start(r, script, asset, confirm) ==
  /\ run[r].step = "absent"
  /\ run' = [run EXCEPT ![r] = [Absent EXCEPT !.step = "inputs", !.script = script,
                                              !.asset = asset, !.confirm = confirm]]
  /\ UNCHANGED <<contractVars, tx, code>>

\* Asset code, issuer, contract, secret and network, each with exit code 1.
ValidateInputs(r) ==
  /\ run[r].step = "inputs"
  /\ \/ Proceed(r, "probe") /\ UNCHANGED code
     \/ Exit(r, 1)
  /\ UNCHANGED <<contractVars, tx>>

\* The RPC endpoint answers and knows the contract, or exit code 1.
Probe(r) ==
  /\ run[r].step = "probe"
  /\ \/ Proceed(r, "account") /\ UNCHANGED code
     \/ Exit(r, 1)
  /\ UNCHANGED <<contractVars, tx>>

\* The transaction is built for the next sequence number of the account.
LoadAccount(r) ==
  /\ run[r].step = "account"
  /\ \/ Proceed(r, "simulate") /\ UNCHANGED code
        /\ tx' = [tx EXCEPT ![r] = [state |-> "built", sequence |-> sequence + 1]]
     \/ Exit(r, 1) /\ UNCHANGED tx
  /\ UNCHANGED contractVars

\* The contract refuses, or another reason why the simulation fails; an
\* endpoint that does not answer is not caught here.
Simulation(r) == {"refused", "no answer"} \cup IF Accepts(r) THEN {"ok"} ELSE {}

\* Without --confirm this is the end.
Confirmed(r) == run[r].confirm

NextStep(r) ==
  IF run[r].script = "revoke" /\ Network = "mainnet" THEN "pause" ELSE "prepare"

DryRun(r) ==
  /\ run[r].step = "simulate"
  /\ \E result \in Simulation(r) :
       CASE result = "no answer"                -> Exit(r, 1)
         [] result = "refused"                  -> Exit(r, 2)
         [] result = "ok" /\ ~Confirmed(r)      -> Exit(r, 0)
         [] result = "ok" /\ Confirmed(r)       -> Proceed(r, NextStep(r)) /\ UNCHANGED code
  /\ outrun' = outrun \ {r}
  /\ UNCHANGED <<sequence, listed, expired, tx>>

\* prepareTransaction simulates again; what fails now is exit code 3.
Prepare(r) ==
  /\ run[r].step = "prepare"
  /\ \/ Accepts(r) /\ Proceed(r, "send") /\ UNCHANGED code
     \/ Exit(r, 3)
  /\ UNCHANGED <<contractVars, tx>>

\* It was built before the simulations.  Mutant: for the number that is next now.
NextSequence(r)  == sequence + 1
BuiltSequence(r) == tx[r].sequence

\* Status ERROR (a sequence number of the past, a time bound) ends the run; any
\* other is polled for, whether the transaction was queued or is to be tried
\* again later.  A call without an answer ends the run, sent or not.
Send(r) ==
  LET valid == BuiltSequence(r) > sequence /\ r \notin expired
      queued == [tx EXCEPT ![r] = [state |-> "pending", sequence |-> BuiltSequence(r)]]
  IN /\ run[r].step = "send"
     /\ \/ valid /\ tx' = queued /\ Proceed(r, "poll") /\ UNCHANGED code
        \/ Proceed(r, "poll") /\ UNCHANGED <<tx, code>>
        \/ Exit(r, 3) /\ UNCHANGED tx
        \/ valid /\ tx' = queued /\ Exit(r, 3)
     /\ UNCHANGED contractVars

-----------------------------------------------------------------------------
(* Polling                                                                 *)

\* What getTransaction knows of it; the node may be behind.
Status(r) == {"unknown"} \cup ({tx[r].state} \cap {"success", "failed"})

\* The time bound passes during the first TimeBound polls.
Timely(r) == run[r].attempts < TimeBound \/ r \in expired

FirstPoll(r) ==
  /\ run[r].step = "poll" /\ run[r].attempts = 0
  /\ \E s \in Status(r) : run' = [run EXCEPT ![r].status = s, ![r].step = "look"]
  /\ UNCHANGED <<contractVars, tx, code>>

\* Mutant: no more attempts than the time bound has polls.
HalfWay(r) == run[r].attempts = TimeBound
GivesUp(r) == run[r].attempts = MaxAttempts

\* The status that was fetched with the last attempt is not looked at.
Look(r) ==
  /\ run[r].step = "look"
  /\ CASE GivesUp(r) -> End(r, "gave up") /\ code' = [code EXCEPT ![r] = 3]
       [] ~GivesUp(r) /\ run[r].status = "success"    -> Exit(r, 0)
       [] ~GivesUp(r) /\ run[r].status = "failed"     -> Exit(r, 3)
       [] ~GivesUp(r) /\ run[r].status = "unknown"    -> Proceed(r, "wait") /\ UNCHANGED code
  /\ UNCHANGED <<contractVars, tx>>

\* Two seconds later; the call may reject.
PollAgain(r) ==
  /\ run[r].step = "wait" /\ Timely(r)
  /\ \/ \E s \in Status(r) :
          run' = [run EXCEPT ![r].status = s, ![r].step = "look", ![r].attempts = @ + 1]
     \/ run' = [run EXCEPT ![r].step = "rejected"]
  /\ UNCHANGED <<contractVars, tx, code>>

Rejected(r) ==
  /\ run[r].step = "rejected"
  /\ Exit(r, 3)
  /\ UNCHANGED <<contractVars, tx>>

-----------------------------------------------------------------------------
(* The two scripts, and what is around them                                *)

Shared(r) ==
  \/ ValidateInputs(r) \/ Probe(r) \/ LoadAccount(r) \/ DryRun(r) \/ Prepare(r)
  \/ Send(r) \/ FirstPoll(r) \/ Look(r) \/ PollAgain(r) \/ Rejected(r)

\* allowlist-add
Add(r) == run[r].script = "add" /\ Shared(r)

\* allowlist-revoke waits five seconds before it touches mainnet.
Pause(r) ==
  /\ run[r].step = "pause"
  /\ Proceed(r, "prepare")
  /\ UNCHANGED <<contractVars, tx, code>>
Revoke(r) == run[r].script = "revoke" /\ (Shared(r) \/ Pause(r))

Interrupt(r) ==
  /\ Running(r)
  /\ End(r, "ended")
  /\ UNCHANGED <<contractVars, tx, code>>

\* The chain includes a queued transaction, whether the contract accepts it or not.
Land(r) ==
  /\ tx[r].state = "pending" /\ r \notin expired /\ tx[r].sequence = sequence + 1
  /\ sequence' = sequence + 1
  /\ IF Accepts(r)
     THEN /\ tx' = [tx EXCEPT ![r].state = "success"]
          /\ listed' = IF run[r].script = "add" THEN listed \cup {run[r].asset}
                                                ELSE listed \ {run[r].asset}
     ELSE tx' = [tx EXCEPT ![r].state = "failed"] /\ UNCHANGED listed
  /\ UNCHANGED <<run, expired, code, outrun>>

OtherTransaction ==
  /\ sequence < MaxSequence
  /\ sequence' = sequence + 1
  /\ UNCHANGED <<run, listed, tx, expired, code, outrun>>

\* Another administrator of the contract, from an account of his own.
OtherAdministrator(a) ==
  /\ listed' = IF a \in listed THEN listed \ {a} ELSE listed \cup {a}
  /\ outrun' = outrun \cup {r \in Runs : run[r].asset = a /\ tx[r].state \in {"built", "pending"}}
  /\ UNCHANGED <<run, sequence, tx, expired, code>>

Expire(r) ==
  /\ tx[r].state # "none" /\ r \notin expired
  /\ expired' = expired \cup {r}
  /\ UNCHANGED <<run, sequence, listed, tx, code, outrun>>

AllowlistNext ==
  \/ \E r \in Runs :
       \/ \E script \in {"add", "revoke"}, a \in Assets, confirm \in BOOLEAN :
            Start(r, script, a, confirm)
       \/ Add(r) \/ Revoke(r) \/ Interrupt(r) \/ Land(r) \/ Expire(r)
  \/ OtherTransaction
  \/ \E a \in Assets : OtherAdministrator(a)

AllowlistSpec == AllowlistInit /\ [][AllowlistNext]_allowlistVars

-----------------------------------------------------------------------------
(* Properties                                                              *)

\* Types; a transaction that landed was sent under its own sequence number.
AllowlistTypeOK ==
  /\ run \in [Runs -> [step : {"absent", "inputs", "probe", "account", "simulate", "pause",
                               "prepare", "send", "poll", "look", "wait", "rejected",
                               "ended", "gave up"},
                       script : {"add", "revoke"}, asset : Assets, confirm : BOOLEAN,
                       attempts : 0..MaxAttempts, status : {"unknown", "success", "failed"}]]
  /\ sequence \in Nat /\ listed \subseteq Assets
  /\ expired \cup outrun \subseteq Runs /\ code \in [Runs -> {0, 1, 2, 3, 9}]
  /\ \A q, r \in Runs : {tx[q].state, tx[r].state} \subseteq {"success", "failed"} =>
       tx[r].sequence <= sequence /\ (q # r => tx[q].sequence # tx[r].sequence)

\* The exit codes of the header: 0 means that the change is on the chain, or a
\* dry run; after 1 and 2, and without --confirm, nothing was or will be sent.
ExitCodesHold ==
  \A r \in Runs :
    /\ code[r] = 0 /\ run[r].confirm => tx[r].state = "success"
    /\ code[r] \in {1, 2} \/ ~run[r].confirm => tx[r].state \in {"none", "built"}

\* "A simulation success indicates the call is likely to succeed": a call fails
\* on chain only if another administrator changed the asset after the simulation.
\* Two runs never outrun one another: their sequence number is the lock.
FailureIsARace == \A r \in Runs : tx[r].state = "failed" => r \in outrun

\* What a run says of its change, by its exit code or before it, holds.
OutcomesHold == AllowlistTypeOK /\ ExitCodesHold /\ FailureIsARace

\* A run that gives up after its last attempt has outlived its transaction: it
\* does not land any more, although the message says that it may.
GivenUpNeverLands ==
  [][\A r \in Runs : run[r].step = "gave up" => tx'[r] = tx[r]]_allowlistVars

=============================================================================
