----------------------------- MODULE SensorAlerts -----------------------------
(***************************************************************************)
(* SensorAlerts: what happens to a reading after its ingestion, and to a   *)
(* device that sends none.  Processors take jobs of the sensor-ingestion   *)
(* queue, broadcast the reading, and alert for every threshold it breaches *)
(* (SensorsIngestionProcessor); a cron alerts for silent devices           *)
(* (SensorStalenessSchedulerService).  Notifications of both are debounced *)
(* by counters in Redis, one for each kind of alert, that expire a window  *)
(* after their first increment.                                            *)
(*                                                                         *)
(* Bull (external) tries a failed job again until its attempts are used    *)
(* up, and hands a job out again once when its worker has died or its lock *)
(* was lost; what a worker without the lock reports is ignored.            *)
(*                                                                         *)
(* Left out: recipients, payloads and the values of readings.              *)
(***************************************************************************)
EXTENDS Naturals, FiniteSets

CONSTANTS
  Processors,   \* slots of SensorsIngestionProcessor, in all replicas
  Watchers,     \* processes that run the cron
  Arrivals,     \* the readings that devices send
  Devices,
  Kinds,        \* a device, a parameter and a direction
  DeviceOf,     \* the device of each reading
  BreachesOf,   \* the kinds of alert that each reading calls for
  MaxAttempts,  \* of a job
  MaxFaults,    \* bound: deaths, lost locks and rejected calls
  NoWorker, NoAlert

Alerts == Kinds \cup Devices   \* a device stands for its silence

ASSUME AlertConstants ==
  /\ Arrivals # {} /\ Kinds \cap Devices = {}
  /\ DeviceOf \in [Arrivals -> Devices] /\ BreachesOf \in [Arrivals -> SUBSET Kinds]
  /\ NoWorker \notin Processors /\ NoAlert \notin Alerts
  /\ MaxAttempts \in Nat \ {0} /\ MaxFaults \in Nat

VARIABLES
  job,      \* of each reading: its state, the holder of its lock, attempts, stalls
  stamped,  \* readings with wsEmittedAt
  worker,   \* its step, its reading, the alerts left to raise and the one at hand
  watch,    \* the cron of a replica: its step, devices left and the one at hand
  silent,   \* devices without a reading for staleAfterMinutes
  hits,     \* debounce counters: 0, or 1 for one and more
  faults,
  emits,    \* broadcasts of each reading, 2 for more (history)
  retried,  \* readings whose broadcast was run again without a stamp (history)
  told,     \* notifications sent out in the window of each alert (history)
  unsure    \* alerts whose window saw a fault or an overlap (history)

jobVars   == <<job, stamped, worker>>
histVars  == <<emits, retried, told, unsure>>
alertVars == <<jobVars, watch, silent, hits, faults, histVars>>

-----------------------------------------------------------------------------
NoJob   == [state |-> "absent", lock |-> NoWorker, attempts |-> 0, stalls |-> 0]
Resting == [step |-> "idle", reading |-> CHOOSE r \in Arrivals : TRUE,
            todo |-> {}, alert |-> NoAlert]
Asleep  == [step |-> "idle", todo |-> {}, alert |-> NoAlert]

UpToTwo(n) == IF n < 2 THEN n ELSE 2
UpToOne(n) == IF n < 1 THEN n ELSE 1
Fault      == faults < MaxFaults /\ faults' = faults + 1

AlertsInit ==
  /\ job = [r \in Arrivals |-> NoJob] /\ stamped = {}
  /\ worker = [w \in Processors |-> Resting]
  /\ watch = [p \in Watchers |-> Asleep]
  /\ silent = Devices
  /\ hits = [a \in Alerts |-> 0] /\ faults = 0
  /\ emits = [r \in Arrivals |-> 0] /\ retried = {}
  /\ told = [a \in Alerts |-> 0] /\ unsure = {}

\* Those who may notify of alert a and have not done it yet.
Granted(a) == {w \in Processors : worker[w].step = "notify" /\ worker[w].alert = a}
              \cup {p \in Watchers : watch[p].step = "notify" /\ watch[p].alert = a}

-----------------------------------------------------------------------------
(* Readings, silences and windows                                          *)

\* ingestReading: the reading is stored, then lastReadingAt and the job follow.
Arrive(r) ==
  /\ job[r].state = "absent"
  /\ job' = [job EXCEPT ![r].state = "waiting"]
  /\ silent' = silent \ {DeviceOf[r]}
  /\ UNCHANGED <<stamped, worker, watch, hits, faults, histVars>>

\* The call fails in between, and when the device sends the reading again it only
\* finds the one that is stored: no job is ever added.
ArriveFails(r) ==
  /\ job[r].state = "absent" /\ Fault
  /\ job' = [job EXCEPT ![r].state = "stranded"]
  /\ silent' \in {silent, silent \ {DeviceOf[r]}}
  /\ UNCHANGED <<stamped, worker, watch, hits, histVars>>

FallSilent(d) ==
  /\ d \notin silent
  /\ silent' = silent \cup {d}
  /\ UNCHANGED <<jobVars, watch, hits, faults, histVars>>

WindowEnds(a) ==
  /\ hits[a] > 0
  /\ hits' = [hits EXCEPT ![a] = 0]
  /\ told' = [told EXCEPT ![a] = 0]
  /\ unsure' = IF Granted(a) = {} THEN unsure \ {a} ELSE unsure \cup {a}
  /\ UNCHANGED <<jobVars, watch, silent, faults, emits, retried>>

-----------------------------------------------------------------------------
(* SensorAlertDebounceService                                              *)

\* The first call of a window is let through.  Mutant: no call is.
NonePasses(n) == n + 1 > 0
Suppressed(n) == n + 1 > 1

\* shouldSuppress for alert a.  A call that it lets through goes on to `pass`, one
\* that it suppresses to `skip`.  If the storage is unavailable, it goes on too.
Debounced(a, pass, skip) ==
  \/ /\ IF Suppressed(hits[a]) THEN skip ELSE pass
     /\ hits' = [hits EXCEPT ![a] = UpToOne(@ + 1)]
     /\ UNCHANGED <<faults, unsure>>
  \/ /\ pass
     /\ Fault /\ unsure' = unsure \cup {a}
     /\ UNCHANGED hits

Notified(a) == told' = [told EXCEPT ![a] = UpToTwo(@ + 1)]

-----------------------------------------------------------------------------
(* processReading                                                          *)

Goto(w, step) == worker' = [worker EXCEPT ![w].step = step]
Rest(w)       == worker' = [worker EXCEPT ![w] = Resting]

Take(w, r) ==
  /\ worker[w].step = "idle" /\ job[r].state = "waiting"
  /\ job' = [job EXCEPT ![r].state = "active", ![r].lock = w]
  /\ worker' = [worker EXCEPT ![w].step = "load", ![w].reading = r]
  /\ UNCHANGED <<stamped, watch, silent, hits, faults, histVars>>

\* A reading that has its stamp is not broadcast again.  Mutant: it is.
NeverStamped(r) == FALSE
WasStamped(r)   == r \in stamped

Load(w) ==
  /\ worker[w].step = "load"
  /\ Goto(w, IF WasStamped(worker[w].reading) THEN "report" ELSE "emit")
  /\ UNCHANGED <<job, stamped, watch, silent, hits, faults, histVars>>

\* emitReading, and emitAlert for what is breached.
AfterAlert(todo) == IF todo = {} THEN "stamp" ELSE "debounce"
Emit(w) ==
  LET r == worker[w].reading IN
  /\ worker[w].step = "emit"
  /\ emits' = [emits EXCEPT ![r] = UpToTwo(@ + 1)]
  /\ worker' = [worker EXCEPT ![w].step = AfterAlert(BreachesOf[r]), ![w].todo = BreachesOf[r]]
  /\ UNCHANGED <<job, stamped, watch, silent, hits, faults, retried, told, unsure>>

\* The attempt of w fails; it is ignored if another worker has the lock by now.
FailAttempt(w) ==
  LET r == worker[w].reading
      n == job[r].attempts + 1
  IN /\ Rest(w)
     /\ job' = IF job[r].lock # w THEN job
               ELSE [job EXCEPT ![r].lock = NoWorker, ![r].attempts = n,
                       ![r].state = IF n < MaxAttempts THEN "waiting" ELSE "failed"]

\* resolveThresholds: without the configuration the defaults apply.  Mutant: the
\* error is not caught.
FailWithoutConfig(w) ==
  /\ worker[w].step = "emit"
  /\ FailAttempt(w)
  /\ UNCHANGED <<stamped, watch, silent, hits, faults, histVars>>
EmitByDefaults(w) == Emit(w)

\* One breach after the other.
DebounceBreach(w) ==
  /\ worker[w].step = "debounce"
  /\ \E a \in worker[w].todo :
       LET rest == worker[w].todo \ {a} IN
       Debounced(a,
         worker' = [worker EXCEPT ![w].step = "notify", ![w].todo = rest, ![w].alert = a],
         worker' = [worker EXCEPT ![w].step = AfterAlert(rest), ![w].todo = rest])
  /\ UNCHANGED <<job, stamped, watch, silent, emits, retried, told>>

\* Recipients and notifications; errors are logged.
NotifyBreach(w) ==
  /\ worker[w].step = "notify"
  /\ Notified(worker[w].alert)
  /\ worker' = [worker EXCEPT ![w].step = AfterAlert(worker[w].todo), ![w].alert = NoAlert]
  /\ UNCHANGED <<job, stamped, watch, silent, hits, faults, emits, retried, unsure>>

Stamp(w) ==
  /\ worker[w].step = "stamp"
  /\ stamped' = stamped \cup {worker[w].reading}
  /\ Goto(w, "report")
  /\ UNCHANGED <<job, watch, silent, hits, faults, histVars>>

Report(w) ==
  LET r == worker[w].reading IN
  /\ worker[w].step = "report"
  /\ Rest(w)
  /\ job' = IF job[r].lock # w THEN job
            ELSE [job EXCEPT ![r].state = "done", ![r].lock = NoWorker]
  /\ UNCHANGED <<stamped, watch, silent, hits, faults, histVars>>

\* The first read or the save of the stamp rejects.
AttemptFails(w) ==
  /\ worker[w].step \in {"load", "stamp"} /\ Fault
  /\ FailAttempt(w)
  /\ retried' = IF worker[w].step = "stamp" THEN retried \cup {worker[w].reading} ELSE retried
  /\ UNCHANGED <<stamped, watch, silent, hits, emits, told, unsure>>

\* Bull gives the job away: the worker has died, or works on without its lock.
Stalled(r) ==
  job' = [job EXCEPT ![r].lock = NoWorker, ![r].stalls = 1,
            ![r].state = IF job[r].stalls = 0 THEN "waiting" ELSE "failed"]
Unstamped(w) ==
  IF worker[w].reading \in stamped THEN retried ELSE retried \cup {worker[w].reading}

LoseLock(w) ==
  /\ worker[w].step # "idle" /\ job[worker[w].reading].lock = w /\ Fault
  /\ Stalled(worker[w].reading)
  /\ retried' = Unstamped(w)
  /\ UNCHANGED <<stamped, worker, watch, silent, hits, emits, told, unsure>>

WorkerDies(w) ==
  LET r == worker[w].reading IN
  /\ worker[w].step # "idle" /\ Fault
  /\ Rest(w)
  /\ IF job[r].lock = w THEN Stalled(r) ELSE UNCHANGED job
  /\ retried' = Unstamped(w)
  /\ unsure' = unsure \cup ({worker[w].alert} \ {NoAlert})
  /\ UNCHANGED <<stamped, watch, silent, hits, emits, told>>

-----------------------------------------------------------------------------
(* runStalenessCheck                                                       *)

NextDevice(todo) == IF todo = {} THEN "idle" ELSE "debounce"

FindSilent(p) ==
  /\ watch[p].step = "idle" /\ silent # {}
  /\ watch' = [watch EXCEPT ![p] = [step |-> "debounce", todo |-> silent, alert |-> NoAlert]]
  /\ UNCHANGED <<jobVars, silent, hits, faults, histVars>>

DebounceSilence(p) ==
  /\ watch[p].step = "debounce"
  /\ \E d \in watch[p].todo :
       LET rest == watch[p].todo \ {d} IN
       Debounced(d,
         watch' = [watch EXCEPT ![p] = [step |-> "notify", todo |-> rest, alert |-> d]],
         watch' = [watch EXCEPT ![p] =
                     [step |-> NextDevice(rest), todo |-> rest, alert |-> NoAlert]])
  /\ UNCHANGED <<jobVars, silent, emits, retried, told>>

NotifySilence(p) ==
  LET todo == watch[p].todo IN
  /\ watch[p].step = "notify"
  /\ Notified(watch[p].alert)
  /\ watch' = [watch EXCEPT ![p] = [step |-> NextDevice(todo), todo |-> todo, alert |-> NoAlert]]
  /\ UNCHANGED <<jobVars, silent, hits, faults, emits, retried, unsure>>

\* The query rejects: `running` is reset all the same.  Mutant: it is not.
StaysRunning(p) == watch' = [watch EXCEPT ![p] = [Asleep EXCEPT !.step = "stuck"]]
StopRunning(p)  == watch' = [watch EXCEPT ![p] = Asleep]

QueryFails(p) ==
  /\ watch[p].step = "idle" /\ Fault
  /\ StopRunning(p)
  /\ UNCHANGED <<jobVars, silent, hits, histVars>>

\* A new process starts with `running` false.
ReplicaDies(p) ==
  /\ watch[p].step # "idle" /\ Fault
  /\ watch' = [watch EXCEPT ![p] = Asleep]
  /\ unsure' = unsure \cup ({watch[p].alert} \ {NoAlert})
  /\ UNCHANGED <<jobVars, silent, hits, emits, retried, told>>

-----------------------------------------------------------------------------
Work(w) ==
  \/ \E r \in Arrivals : Take(w, r)
  \/ Load(w) \/ Emit(w) \/ EmitByDefaults(w) \/ DebounceBreach(w) \/ NotifyBreach(w)
  \/ Stamp(w) \/ Report(w)
Watch(p) == FindSilent(p) \/ DebounceSilence(p) \/ NotifySilence(p)

AlertsNext ==
  \/ \E r \in Arrivals : Arrive(r) \/ ArriveFails(r)
  \/ \E d \in Devices : FallSilent(d)
  \/ \E a \in Alerts : WindowEnds(a)
  \/ \E w \in Processors : Work(w) \/ AttemptFails(w) \/ LoseLock(w) \/ WorkerDies(w)
  \/ \E p \in Watchers : Watch(p) \/ QueryFails(p) \/ ReplicaDies(p)

AlertsSpec == AlertsInit /\ [][AlertsNext]_alertVars

\* Bull hands out waiting jobs, the cron fires every five minutes, calls settle.
FairAlertsSpec ==
  /\ AlertsSpec
  /\ \A w \in Processors : WF_alertVars(Work(w))
  /\ \A p \in Watchers : WF_alertVars(Watch(p))

-----------------------------------------------------------------------------
(* Properties                                                              *)

\* Types; a lock belongs to an active job, and to a worker that is on it.
AlertsTypeOK ==
  /\ \A r \in Arrivals :
       /\ job[r].state \in {"absent", "stranded", "waiting", "active", "done", "failed"}
       /\ job[r].attempts \in 0..MaxAttempts /\ job[r].stalls \in 0..1
       /\ job[r].state = "active" <=> job[r].lock # NoWorker
       /\ job[r].state = "active" =>
            worker[job[r].lock].reading = r /\ worker[job[r].lock].step # "idle"
  /\ stamped \subseteq Arrivals /\ silent \subseteq Devices /\ retried \subseteq Arrivals
  /\ \A w \in Processors : worker[w].step = "notify" <=> worker[w].alert \in Kinds
  /\ \A p \in Watchers : watch[p].step = "notify" <=> watch[p].alert \in Devices
  /\ hits \in [Alerts -> 0..1] /\ told \in [Alerts -> 0..2] /\ emits \in [Arrivals -> 0..2]
  /\ unsure \subseteq Alerts /\ faults \in 0..MaxFaults

\* "so a device stuck offline for days doesn't re-notify every tick", and "we'd
\* rather over-notify than silently drop an anomaly": every window in which an
\* alert is raised has exactly one notification of it, by whichever worker or
\* replica came first, unless the storage failed or a death came in between.
OneNotificationPerWindow ==
  \A a \in Alerts \ unsure :
    hits[a] > 0 => told[a] + Cardinality(Granted(a)) = 1

\* "idempotent by construction": a reading is broadcast again only if an earlier
\* run was given up, or lost its lock, before it had saved the stamp.
RebroadcastNeedsLostStamp == \A r \in Arrivals : emits[r] > 1 => r \in retried

\* A job is done only when its reading has been broadcast and stamped.
DoneIsBroadcast ==
  \A r \in Arrivals : job[r].state = "done" => emits[r] > 0 /\ r \in stamped

\* The stamp, the job and what has been broadcast agree.
BroadcastsConsistent == AlertsTypeOK /\ RebroadcastNeedsLostStamp /\ DoneIsBroadcast

\* Every reading with a job is broadcast in the end, whatever becomes of the
\* configuration, up to one fault: attempts outlast it.
EveryReadingIsBroadcast ==
  []<>(\A r \in Arrivals :
         job[r].state \in {"absent", "stranded"} \/ faults > 1 \/ emits[r] > 0)

\* A device that stays silent is counted and alerted for in every window: the
\* check does not stop because one of its runs failed.
SilenceIsNoticed == []<>(\A d \in silent : hits[d] > 0)
=============================================================================
