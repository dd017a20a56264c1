---------------------------- MODULE RuntimeOwner ----------------------------
(***************************************************************************)
(* The runtime owner of one ledger: the single-instance file lock, the     *)
(* store connection, the durable job journal (te_host/src/jobs.rs), the    *)
(* serialized job actor (te_host/src/actor.rs) and its composition in      *)
(* te_runtime/src/{jobs,main,routes}.rs.                                   *)
(*                                                                         *)
(* Processes are named by the instance string they write into job records  *)
(* (the process id, jobs.rs:70, or the constant "once" of the CLI).  An    *)
(* instance that died may be started again under the same name, so nothing *)
(* in the model relies on fresh process ids.                               *)
(***************************************************************************)
EXTENDS Naturals, Sequences, FiniteSets

CONSTANTS
    Instances,     \* process identities; reused after a death
    Requests,      \* request ids
    Payloads,      \* request payloads; a request id may be sent with any
    RecordLimit,   \* Journal.limit
    PatientTimer,  \* stop_timeout outlasts every bounded worker step
    MaxSeq,        \* bound: ledger events appended by jobs
    MaxDeaths,     \* bound: crashes, process exits not included
    None           \* "no value"

ASSUME RecordLimitAssumption == RecordLimit \in Nat \ {0}
ASSUME PatientTimerAssumption == PatientTimer \in BOOLEAN
ASSUME BoundsAssumption == MaxSeq \in Nat /\ MaxDeaths \in Nat
ASSUME NoneAssumption ==
    /\ None \notin Instances
    /\ None \notin Requests
    /\ None \notin {"Completed", "Refused", "Failed"}

VARIABLES
    guard,     \* the OS lock on the sidecar file: its holder
    records,   \* meta table: request id -> job record (durable)
    log,       \* events table: the job that appended each event (durable)
    conn,      \* per process: the owner connection is Some
    txn,       \* per process: a ledger batch is open on that connection
    phase,     \* per process: what the control thread has reached
    worker,    \* per process: program counter of the actor thread
    job,       \* per process: the request the actor thread works on
    outcome,   \* per process: what the host returned
    queue,     \* per process: Queue.ids
    pushing,   \* per process: admitted by submit, not yet in the queue
    wake,      \* per process: a condvar notification reached the waiter
    errors,    \* per process: the jobs that Shared.errors reports
    runs,      \* history: how often a host was entered for each request
    deaths     \* how many crashes have happened (bounded)

vars == <<guard, records, log, conn, txn, phase, worker, job, outcome, queue,
          pushing, wake, errors, runs, deaths>>

-----------------------------------------------------------------------------
(* States of a job record and of the two threads of an owner process.      *)

Outcomes == {"Completed", "Refused", "Failed"}
Terminal == Outcomes \cup {"Uncertain"}
Unfinished == {"Queued", "Running"}
States == {"Absent"} \cup Unfinished \cup Terminal

Phases == {"absent", "guarded", "opened", "serving", "once", "stopping",
           "blocked", "closing", "unguarding", "stopped"}

\* The stopping flag is set by Actor::stop and never cleared.
Stopping(p) == phase[p] \in {"stopping", "blocked", "closing", "unguarding",
                             "stopped"}

Workers == {"none", "top", "park", "waiting", "start", "host", "finish",
            "done"}

NoRecord == [state |-> "Absent", instance |-> None, payload |-> None,
             observed |-> 0, committed |-> 0]

Record == [state : States, instance : Instances \cup {None},
           payload : Payloads \cup {None},
           observed : Nat, committed : Nat]

sequence == Len(log)

\* A record moved to state s, its committed_seq set to the current sequence.
settled(rec, s) ==
    [state |-> s, instance |-> rec.instance, payload |-> rec.payload,
     observed |-> rec.observed, committed |-> sequence]

\* A record whose host is about to run, its observed_seq set to the current
\* sequence.
started(rec) ==
    [state |-> "Running", instance |-> rec.instance, payload |-> rec.payload,
     observed |-> sequence, committed |-> rec.committed]

\* Journal.write: the connection is open and in autocommit mode.
Writable(p) == conn[p] /\ ~txn[p]

Init ==
    /\ guard = None
    /\ records = [r \in Requests |-> NoRecord]
    /\ log = <<>>
    /\ conn = [p \in Instances |-> FALSE]
    /\ txn = [p \in Instances |-> FALSE]
    /\ phase = [p \in Instances |-> "absent"]
    /\ worker = [p \in Instances |-> "none"]
    /\ job = [p \in Instances |-> None]
    /\ outcome = [p \in Instances |-> None]
    /\ queue = [p \in Instances |-> <<>>]
    /\ pushing = [p \in Instances |-> None]
    /\ wake = [p \in Instances |-> FALSE]
    /\ errors = [p \in Instances |-> {}]
    /\ runs = [r \in Requests |-> 0]
    /\ deaths = 0

-----------------------------------------------------------------------------
(* Opening: guard first, then the writable connection, then recovery.      *)

\* SingleInstanceGuard::acquire: a held lock refuses, a free one is taken.
acquire(p) ==
    /\ phase[p] = "absent"
    /\ guard = None
    /\ guard' = p
    /\ phase' = [phase EXCEPT ![p] = "guarded"]
    /\ UNCHANGED <<records, log, conn, txn, worker, job, outcome, queue,
                   pushing, wake, errors, runs, deaths>>

\* Store::open after the guard: Connection::open and the schema.
openConnection(p) ==
    /\ phase[p] = "guarded"
    /\ conn' = [conn EXCEPT ![p] = TRUE]
    /\ phase' = [phase EXCEPT ![p] = "opened"]
    /\ UNCHANGED <<guard, records, log, txn, worker, job, outcome, queue,
                   pushing, wake, errors, runs, deaths>>

\* Mutant: recovery rewrites settled records too.
recoveredSettledToo ==
    [r \in Requests |->
        IF records[r].state # "Absent"
        THEN settled(records[r], "Uncertain")
        ELSE records[r]]

\* Mutant: recovery keeps the admission's committed_seq.
recoveredStaleSeq ==
    [r \in Requests |->
        IF records[r].state \in Unfinished
        THEN [records[r] EXCEPT !.state = "Uncertain"]
        ELSE records[r]]

\* Journal.recover: every unfinished record, whoever admitted it, becomes
\* Uncertain in one transaction.
recovered ==
    [r \in Requests |->
        IF records[r].state \in Unfinished
        THEN settled(records[r], "Uncertain")
        ELSE records[r]]

\* Mutant: the owner serves without recovering.
startActorUnrecovered(p) ==
    /\ phase[p] = "opened"
    /\ Writable(p)
    /\ phase' = [phase EXCEPT ![p] = "serving"]
    /\ worker' = [worker EXCEPT ![p] = "top"]
    /\ UNCHANGED <<guard, records, log, conn, txn, job, outcome, queue,
                   pushing, wake, errors, runs, deaths>>

\* Owner::open's recovery, then Actor::start spawns the actor thread.
startActor(p) ==
    /\ phase[p] = "opened"
    /\ Writable(p)
    /\ records' = recovered
    /\ phase' = [phase EXCEPT ![p] = "serving"]
    /\ worker' = [worker EXCEPT ![p] = "top"]
    /\ UNCHANGED <<guard, log, conn, txn, job, outcome, queue, pushing, wake,
                   errors, runs, deaths>>

\* The record Journal.admit inserts.
admitted(p, pl) ==
    [state |-> "Queued", instance |-> p, payload |-> pl,
     observed |-> sequence, committed |-> sequence]

\* Mutant: a settled request id may be admitted again.
AdmissibleAgain(rs, r) ==
    /\ rs[r].state \notin Unfinished
    /\ Cardinality({q \in Requests : rs[q].state # "Absent"}) <= RecordLimit

\* Journal.admit's refusals that depend on stored state: an id already
\* persisted (same payload: its record is returned, different: conflict) is
\* never inserted again, and a full journal refuses.
Admissible(rs, r) ==
    /\ rs[r].state = "Absent"
    /\ Cardinality({q \in Requests : rs[q].state # "Absent"}) < RecordLimit

\* run_once: recover, admit and execute inline on the caller's thread.
runOnce(p, r, pl) ==
    /\ phase[p] = "opened"
    /\ Writable(p)
    /\ Admissible(recovered, r)
    /\ records' = [recovered EXCEPT ![r] = admitted(p, pl)]
    /\ phase' = [phase EXCEPT ![p] = "once"]
    /\ worker' = [worker EXCEPT ![p] = "start"]
    /\ job' = [job EXCEPT ![p] = r]
    /\ UNCHANGED <<guard, log, conn, txn, outcome, queue, pushing, wake,
                   errors, runs, deaths>>

\* run_once whose admission refuses or finds the id persisted: the recovery
\* is committed, nothing runs and the caller closes the ledger.
runOnceRefused(p, r) ==
    /\ phase[p] = "opened"
    /\ Writable(p)
    /\ ~Admissible(recovered, r)
    /\ records' = recovered
    /\ phase' = [phase EXCEPT ![p] = "closing"]
    /\ UNCHANGED <<guard, log, conn, txn, worker, job, outcome, queue, pushing,
                   wake, errors, runs, deaths>>

-----------------------------------------------------------------------------
(* Actor::submit.  RuntimeControl holds the actor mutex around submit and   *)
(* stop, so the two never interleave.  A failed admission leaves no trace.  *)

\* The stopping check and the durable admission.
admit(p, r, pl) ==
    /\ phase[p] = "serving"
    /\ pushing[p] = None
    /\ Writable(p)
    /\ Admissible(records, r)
    /\ records' = [records EXCEPT ![r] = admitted(p, pl)]
    /\ pushing' = [pushing EXCEPT ![p] = r]
    /\ UNCHANGED <<guard, log, conn, txn, phase, worker, job, outcome, queue,
                   wake, errors, runs, deaths>>

\* Mutant: submit queues the id without notifying the worker.
pushQuietly(p) ==
    /\ pushing[p] # None
    /\ worker[p] # "park"
    /\ queue' = [queue EXCEPT ![p] = Append(@, pushing[p])]
    /\ pushing' = [pushing EXCEPT ![p] = None]
    /\ UNCHANGED <<guard, records, log, conn, txn, phase, worker, job, outcome,
                   wake, errors, runs, deaths>>

\* push_back under the queue mutex (held by a worker about to park), then
\* notify_one: it reaches the worker only if the worker is waiting.
push(p) ==
    /\ pushing[p] # None
    /\ worker[p] # "park"
    /\ queue' = [queue EXCEPT ![p] = Append(@, pushing[p])]
    /\ pushing' = [pushing EXCEPT ![p] = None]
    /\ wake' = [wake EXCEPT ![p] = @ \/ worker[p] = "waiting"]
    /\ UNCHANGED <<guard, records, log, conn, txn, phase, worker, job, outcome,
                   errors, runs, deaths>>

-----------------------------------------------------------------------------
(* The actor thread: the loop of Actor::start and execute.                  *)

\* Under the queue mutex: stopping is checked before dequeuing.
workerTop(p) ==
    /\ worker[p] = "top"
    /\ \/ /\ Stopping(p)
          /\ worker' = [worker EXCEPT ![p] = "done"]
          /\ UNCHANGED <<queue, job>>
       \/ /\ ~Stopping(p)
          /\ queue[p] # <<>>
          /\ worker' = [worker EXCEPT ![p] = "start"]
          /\ job' = [job EXCEPT ![p] = Head(queue[p])]
          /\ queue' = [queue EXCEPT ![p] = Tail(@)]
       \/ /\ ~Stopping(p)
          /\ queue[p] = <<>>
          /\ worker' = [worker EXCEPT ![p] = "park"]
          /\ UNCHANGED <<queue, job>>
    /\ UNCHANGED <<guard, records, log, conn, txn, phase, outcome, pushing,
                   wake, errors, runs, deaths>>

\* Condvar::wait releases the mutex and blocks.
workerPark(p) ==
    /\ worker[p] = "park"
    /\ worker' = [worker EXCEPT ![p] = "waiting"]
    /\ wake' = [wake EXCEPT ![p] = FALSE]
    /\ UNCHANGED <<guard, records, log, conn, txn, phase, job, outcome, queue,
                   pushing, errors, runs, deaths>>

workerWake(p) ==
    /\ worker[p] = "waiting"
    /\ wake[p]
    /\ worker' = [worker EXCEPT ![p] = "top"]
    /\ wake' = [wake EXCEPT ![p] = FALSE]
    /\ UNCHANGED <<guard, records, log, conn, txn, phase, job, outcome, queue,
                   pushing, errors, runs, deaths>>

\* A condvar may wake without a notification.
spuriousWake(p) ==
    /\ worker[p] = "waiting"
    /\ ~wake[p]
    /\ worker' = [worker EXCEPT ![p] = "top"]
    /\ UNCHANGED <<guard, records, log, conn, txn, phase, job, outcome, queue,
                   pushing, wake, errors, runs, deaths>>

\* Where the thread goes after execute: back to the loop, or, for run_once,
\* to its caller.
afterExecute(p) == IF phase[p] = "once" THEN "done" ELSE "top"

\* Journal.start's guard: only this instance's queued admission may start.
Startable(p, r) ==
    /\ Writable(p)
    /\ records[r].state = "Queued"
    /\ records[r].instance = p

\* Journal.start succeeds and the host is entered.
startJob(p) ==
    /\ worker[p] = "start"
    /\ Startable(p, job[p])
    /\ records' = [records EXCEPT ![job[p]] = started(@)]
    /\ worker' = [worker EXCEPT ![p] = "host"]
    /\ runs' = [runs EXCEPT ![job[p]] = @ + 1]
    /\ UNCHANGED <<guard, log, conn, txn, phase, job, outcome, queue, pushing,
                   wake, errors, deaths>>

\* Mutant: a job that could not start is dropped without a word.
dropJobSilently(p) ==
    /\ worker[p] = "start"
    /\ worker' = [worker EXCEPT ![p] = afterExecute(p)]
    /\ job' = [job EXCEPT ![p] = None]
    /\ UNCHANGED <<guard, records, log, conn, txn, phase, outcome, queue,
                   pushing, wake, errors, runs, deaths>>

\* Journal.get or start refuses, or the store fails under it: the job is
\* dropped from memory, its record keeps its durable state, and the failure
\* is reported.
dropJob(p) ==
    /\ worker[p] = "start"
    /\ worker' = [worker EXCEPT ![p] = afterExecute(p)]
    /\ job' = [job EXCEPT ![p] = None]
    /\ errors' = [errors EXCEPT ![p] = @ \cup {job[p]}]
    /\ UNCHANGED <<guard, records, log, conn, txn, phase, outcome, queue,
                   pushing, wake, runs, deaths>>

\* The host writes the ledger over the owner's connection: BEGIN IMMEDIATE.
hostBegin(p) ==
    /\ worker[p] = "host"
    /\ Writable(p)
    /\ txn' = [txn EXCEPT ![p] = TRUE]
    /\ UNCHANGED <<guard, records, log, conn, phase, worker, job, outcome,
                   queue, pushing, wake, errors, runs, deaths>>

\* COMMIT of one event, or ROLLBACK.
hostEnd(p) ==
    /\ worker[p] = "host"
    /\ txn[p]
    /\ txn' = [txn EXCEPT ![p] = FALSE]
    /\ \/ Len(log) < MaxSeq /\ log' = Append(log, job[p])
       \/ UNCHANGED log
    /\ UNCHANGED <<guard, records, conn, phase, worker, job, outcome, queue,
                   pushing, wake, errors, runs, deaths>>

\* Mutant: a panicking host leaves no outcome behind.
hostReturnUnset(p) ==
    /\ worker[p] = "host"
    /\ worker' = [worker EXCEPT ![p] = "finish"]
    /\ UNCHANGED <<guard, records, log, conn, txn, phase, job, outcome, queue,
                   pushing, wake, errors, runs, deaths>>

\* The host returns or panics.  A batch a BaseException interrupted stays
\* open (store.rs: only Exception triggers rollback).
hostReturn(p) ==
    /\ worker[p] = "host"
    /\ \E o \in Outcomes : outcome' = [outcome EXCEPT ![p] = o]
    /\ worker' = [worker EXCEPT ![p] = "finish"]
    /\ UNCHANGED <<guard, records, log, conn, txn, phase, job, queue, pushing,
                   wake, errors, runs, deaths>>

\* Journal.finish's guard.
Finishable(p, r) ==
    /\ Writable(p)
    /\ records[r].state = "Running"
    /\ records[r].instance = p

\* Journal.finish records the outcome; or it refuses, or the store fails
\* under it: the record stays Running and the failure is reported.
finishJob(p) ==
    /\ worker[p] = "finish"
    /\ \/ /\ Finishable(p, job[p])
          /\ records' = [records EXCEPT ![job[p]] = settled(@, outcome[p])]
          /\ UNCHANGED errors
       \/ /\ errors' = [errors EXCEPT ![p] = @ \cup {job[p]}]
          /\ UNCHANGED records
    /\ worker' = [worker EXCEPT ![p] = afterExecute(p)]
    /\ job' = [job EXCEPT ![p] = None]
    /\ outcome' = [outcome EXCEPT ![p] = None]
    /\ UNCHANGED <<guard, log, conn, txn, phase, queue, pushing, wake, runs,
                   deaths>>

-----------------------------------------------------------------------------
(* Actor::stop, Store::close, Drop, process exit and crash.                 *)

\* stopping.store(true) and notify_all, without the queue mutex: a worker
\* that has not parked yet does not see the notification.
stop(p) ==
    /\ phase[p] = "serving"
    /\ pushing[p] = None
    /\ phase' = [phase EXCEPT ![p] = "stopping"]
    /\ wake' = [wake EXCEPT ![p] = @ \/ worker[p] = "waiting"]
    /\ UNCHANGED <<guard, records, log, conn, txn, worker, job, outcome, queue,
                   pushing, errors, runs, deaths>>

\* done.recv_timeout returns Ok and the thread is joined.
join(p) ==
    /\ phase[p] \in {"stopping", "once"}
    /\ worker[p] = "done"
    /\ phase' = [phase EXCEPT ![p] = "closing"]
    /\ UNCHANGED <<guard, records, log, conn, txn, worker, job, outcome, queue,
                   pushing, wake, errors, runs, deaths>>

\* The steps of the actor thread that take as long as the host, or for ever
\* when nobody wakes it.
Unbounded(p) == worker[p] = "host" \/ (worker[p] = "waiting" /\ ~wake[p])

\* done.recv_timeout expires: the stop is reported as blocked.
stopTimeout(p) ==
    /\ phase[p] = "stopping"
    /\ worker[p] # "done"
    /\ PatientTimer => Unbounded(p)
    /\ phase' = [phase EXCEPT ![p] = "blocked"]
    /\ UNCHANGED <<guard, records, log, conn, txn, worker, job, outcome, queue,
                   pushing, wake, errors, runs, deaths>>

\* Drop (or a second stop) after a blocked stop: the thread handle is gone,
\* so it goes straight on to close the store.
dropActor(p) ==
    /\ phase[p] = "blocked"
    /\ phase' = [phase EXCEPT ![p] = "closing"]
    /\ UNCHANGED <<guard, records, log, conn, txn, worker, job, outcome, queue,
                   pushing, wake, errors, runs, deaths>>

\* Mutant: the guard is released before the connection closes.
closeConnectionLast(p) ==
    /\ phase[p] = "closing"
    /\ guard' = None
    /\ phase' = [phase EXCEPT ![p] = "unguarding"]
    /\ UNCHANGED <<records, log, conn, txn, worker, job, outcome, queue,
                   pushing, wake, errors, runs, deaths>>

\* Store::close: the connection first (an open batch is rolled back) ...
closeConnection(p) ==
    /\ phase[p] = "closing"
    /\ conn' = [conn EXCEPT ![p] = FALSE]
    /\ txn' = [txn EXCEPT ![p] = FALSE]
    /\ phase' = [phase EXCEPT ![p] = "unguarding"]
    /\ UNCHANGED <<guard, records, log, worker, job, outcome, queue, pushing,
                   wake, errors, runs, deaths>>

\* ... then the guard.
releaseGuard(p) ==
    /\ phase[p] = "unguarding"
    /\ guard' = None
    /\ phase' = [phase EXCEPT ![p] = "stopped"]
    /\ UNCHANGED <<records, log, conn, txn, worker, job, outcome, queue,
                   pushing, wake, errors, runs, deaths>>

\* Everything a process takes with it: memory, connection and OS lock.
vanish(p) ==
    /\ guard' = IF guard = p THEN None ELSE guard
    /\ conn' = [conn EXCEPT ![p] = FALSE]
    /\ txn' = [txn EXCEPT ![p] = FALSE]
    /\ phase' = [phase EXCEPT ![p] = "absent"]
    /\ worker' = [worker EXCEPT ![p] = "none"]
    /\ job' = [job EXCEPT ![p] = None]
    /\ outcome' = [outcome EXCEPT ![p] = None]
    /\ queue' = [queue EXCEPT ![p] = <<>>]
    /\ pushing' = [pushing EXCEPT ![p] = None]
    /\ wake' = [wake EXCEPT ![p] = FALSE]
    /\ errors' = [errors EXCEPT ![p] = {}]
    /\ UNCHANGED <<records, log, runs>>

\* The process returns from main.
exit(p) ==
    /\ phase[p] = "stopped"
    /\ vanish(p)
    /\ UNCHANGED deaths

\* The process is killed at any point, or ends because its open or recovery
\* failed.
crash(p) ==
    /\ phase[p] # "absent"
    /\ deaths < MaxDeaths
    /\ vanish(p)
    /\ deaths' = deaths + 1

-----------------------------------------------------------------------------
Actor(p) ==
    \/ workerTop(p) \/ workerPark(p) \/ workerWake(p)
    \/ startJob(p) \/ dropJob(p) \/ finishJob(p)

Host(p) == hostBegin(p) \/ hostEnd(p) \/ hostReturn(p)

Open(p) == acquire(p) \/ openConnection(p) \/ startActor(p)

Close(p) ==
    join(p) \/ stopTimeout(p) \/ dropActor(p) \/ closeConnection(p)
    \/ releaseGuard(p) \/ exit(p)

Client(p) ==
    \/ \E r \in Requests, pl \in Payloads : runOnce(p, r, pl) \/ admit(p, r, pl)
    \/ \E r \in Requests : runOnceRefused(p, r)
    \/ push(p)
    \/ stop(p)

Next ==
    \E p \in Instances : Actor(p) \/ Host(p) \/ Open(p) \/ Close(p)
                         \/ Client(p) \/ spuriousWake(p) \/ crash(p)

Spec == Init /\ [][Next]_vars

(* Every bounded step of a live owner happens; a stop request, a client and *)
(* a crash need not.  A job is assumed to return once its host is entered,  *)
(* and a supervisor starts an owner again after the last one is gone.  push *)
(* is strongly fair: a thread queued on the mutex gets it although the      *)
(* worker keeps taking and releasing it.                                    *)
Fairness ==
    \A p \in Instances :
        /\ WF_vars(Actor(p))
        /\ WF_vars(hostReturn(p))
        /\ SF_vars(push(p))
        /\ WF_vars(Open(p))
        /\ WF_vars(Close(p))

FairSpec == Spec /\ Fairness

-----------------------------------------------------------------------------
(* Properties.                                                              *)

\* The actor thread exists only once the owner has recovered; it has a job in
\* hand exactly while it executes one, and an outcome exactly between the
\* host's return and Journal.finish (actor.rs execute).
Working == {"start", "host", "finish"}
WorkerJob ==
    \A p \in Instances :
        /\ worker[p] \in Working <=> job[p] # None
        /\ worker[p] = "finish" <=> outcome[p] # None
        /\ phase[p] \in {"absent", "guarded", "opened"} => worker[p] = "none"

\* Every variable keeps its type: durable records and the log, the lock, and
\* the threads of each owner process (jobs.rs Record, actor.rs Shared).
TypeOK ==
    /\ guard \in Instances \cup {None}
    /\ records \in [Requests -> Record]
    /\ log \in Seq(Requests)
    /\ conn \in [Instances -> BOOLEAN]
    /\ txn \in [Instances -> BOOLEAN]
    /\ phase \in [Instances -> Phases]
    /\ worker \in [Instances -> Workers]
    /\ job \in [Instances -> Requests \cup {None}]
    /\ outcome \in [Instances -> Outcomes \cup {None}]
    /\ queue \in [Instances -> Seq(Requests)]
    /\ pushing \in [Instances -> Requests \cup {None}]
    /\ wake \in [Instances -> BOOLEAN]
    /\ errors \in [Instances -> SUBSET Requests]
    /\ runs \in [Requests -> Nat]
    /\ deaths \in Nat

\* I4, one writer: a writable connection exists only in the process that
\* holds the single-instance lock, in every order of open, close, a blocked
\* stop that is dropped later, and crash (Store::open, Store::close).
ConnectionUnderGuard == \A p \in Instances : conn[p] => guard = p

\* No resend: whatever is resubmitted, restarted, recovered or run from the
\* CLI, and even when a process id is reused, the host of a request is
\* entered at most once (Journal.admit, start, recover; actor.rs execute).
AtMostOnce == \A r \in Requests : runs[r] <= 1

\* The sequence window a record reports contains all of the job's events:
\* they come after observed_seq and, once the record is terminal, none lies
\* beyond committed_seq, although a dropped owner's host may still run
\* (Journal.start, finish, recover; Store::close order).
JobEventsInWindow ==
    \A s \in 1..Len(log) :
        /\ records[log[s]].observed < s
        /\ records[log[s]].state \in Terminal => s <= records[log[s]].committed

\* No job is forgotten in silence: while an owner that has recovered keeps
\* its connection, every unfinished record is in its hand (being pushed,
\* queued, or worked on) or among the failures it reports, also when a host
\* abandoned a ledger batch and nothing can be started any more (actor.rs
\* submit, execute and errors).
InHand(p, r) ==
    r = pushing[p] \/ r = job[p] \/ \E i \in 1..Len(queue[p]) : queue[p][i] = r
UnfinishedInHand ==
    \A p \in Instances, r \in Requests :
        conn[p] /\ phase[p] # "opened" /\ records[r].state \in Unfinished
            => InHand(p, r) \/ r \in errors[p]

\* A settled record is never rewritten: not by a late finish of a dropped
\* owner, not by a recovery, not by a resubmission (Journal.write users).
TerminalIsFinal ==
    [][\A r \in Requests :
        records[r].state \in Terminal => records'[r] = records[r]]_vars

\* The owner implements the job service its clients rely on: the active job
\* is the one whose thread executes it while its process has the connection.
Active(p) == conn[p] /\ worker[p] \in {"host", "finish"}
jobState == [r \in Requests |-> records[r].state]
activeJob == {job[p] : p \in {q \in Instances : Active(q)}}
jobs == INSTANCE JobService WITH state <- jobState, active <- activeJob
ImplementsJobService == jobs!JobSpec

\* Every admitted job is settled in the end or reported as failed by its
\* owner, through crashes, blocked stops, lost wakeups, an abandoned batch
\* and failures of the store (actor.rs Actor, execute and stop).
Settles ==
    \A r \in Requests :
        records[r].state \in Unfinished
            ~> \/ records[r].state \in Terminal
               \/ \E p \in Instances : r \in errors[p]

\* actor.rs:280, "Leave the guard to process teardown (a crash)": a process
\* whose host still runs keeps the lock.
GuardOutlivesHost == \A p \in Instances : worker[p] = "host" => guard = p
=============================================================================
