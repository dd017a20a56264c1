-------------------------- MODULE RuntimeOwnerProof -------------------------
(* Theorems about RuntimeOwner, for every set of processes and requests.    *)
EXTENDS RuntimeOwner, TLAPS

-----------------------------------------------------------------------------
(* Type correctness.                                                        *)

\* The types, with what the worker holds at each of its steps.
TypeInv == TypeOK /\ WorkerJob

\* Moving a record to another state, or starting it, gives a record again.
LEMMA RecordUpdates ==
    ASSUME TypeOK, NEW rec \in Record
    PROVE  /\ started(rec) \in Record
           /\ \A o \in Terminal : settled(rec, o) \in Record
BY DEF started, settled, sequence, Record, States, Unfinished

\* What Journal.recover writes back is again a table of records.
LEMMA RecoveredType == TypeOK => recovered \in [Requests -> Record]
<1> SUFFICES ASSUME TypeOK, NEW r \in Requests
             PROVE  settled(records[r], "Uncertain") \in Record
  BY DEF TypeOK, recovered
<1> QED BY RecordUpdates, Zenon DEF TypeOK, Terminal

\* What Journal.admit inserts is a record.
LEMMA AdmittedType ==
    ASSUME TypeOK, NEW p \in Instances, NEW pl \in Payloads
    PROVE  admitted(p, pl) \in Record
BY DEF admitted, sequence, Record, States, Unfinished

\* The types of all variables are kept by every step of an owner process.
LEMMA TypeStep == TypeInv /\ [Next]_vars => TypeInv'
<1> USE NoneAssumption
<1> USE DEF TypeInv, Outcomes, Terminal, Unfinished, Phases, Workers, Working, WorkerJob
<1> SUFFICES ASSUME TypeInv, [Next]_vars PROVE TypeInv'
  OBVIOUS
<1>1. ASSUME NEW p \in Instances, Actor(p) \/ spuriousWake(p) PROVE TypeInv'
  <2>1. CASE workerTop(p)
    <3>1. CASE queue[p] = <<>> \/ Stopping(p)
      <4>1. /\ UNCHANGED <<guard, records, log, conn, txn, phase, job, outcome, queue, pushing,
                          wake, errors, runs, deaths>>
            /\ worker[p] = "top"
            /\ \E w \in {"done", "park"} : worker' = [worker EXCEPT ![p] = w]
        BY <2>1, <3>1 DEF workerTop
      <4> QED BY <4>1 DEF TypeOK
    <3>2. CASE queue[p] # <<>> /\ ~Stopping(p)
      <4>1. Head(queue[p]) \in Requests /\ Tail(queue[p]) \in Seq(Requests)
        BY <3>2 DEF TypeOK
      <4>2. PICK h \in Requests, t \in Seq(Requests) :
              /\ job' = [job EXCEPT ![p] = h]
              /\ queue' = [queue EXCEPT ![p] = t]
        BY <2>1, <3>2, <4>1, Zenon DEF workerTop
      <4>3. TypeOK'
        BY <2>1, <3>2, <4>2, Zenon DEF workerTop, TypeOK
      <4>4. WorkerJob'
        BY <2>1 DEF workerTop, TypeOK
      <4> QED BY <4>3, <4>4
    <3> QED BY <3>1, <3>2
  <2>2. CASE workerPark(p)
    BY <2>2 DEF workerPark, TypeOK
  <2>3. CASE workerWake(p)
    BY <2>3 DEF workerWake, TypeOK
  <2>4. CASE startJob(p)
    BY <2>4, RecordUpdates DEF startJob, TypeOK
  <2>5. CASE dropJob(p)
    BY <2>5 DEF dropJob, afterExecute, TypeOK
  <2>6. CASE finishJob(p)
    <3>1. job[p] \in Requests /\ outcome[p] \in Outcomes
      BY <2>6 DEF finishJob, TypeOK
    <3>2. records' \in [Requests -> Record] /\ errors' \in [Instances -> SUBSET Requests]
      <4>1. /\ records \in [Requests -> Record] /\ errors \in [Instances -> SUBSET Requests]
            /\ settled(records[job[p]], outcome[p]) \in Record
        BY <3>1, RecordUpdates DEF TypeOK
      <4> QED BY <2>6, <3>1, <4>1 DEF finishJob
    <3>3. PICK w \in {"top", "done"} : worker' = [worker EXCEPT ![p] = w]
      BY <2>6, Zenon DEF finishJob, afterExecute
    <3>4. /\ job' = [job EXCEPT ![p] = None] /\ outcome' = [outcome EXCEPT ![p] = None]
          /\ worker[p] = "finish"
          /\ UNCHANGED <<guard, log, conn, txn, phase, queue, pushing, wake, runs, deaths>>
      BY <2>6 DEF finishJob
    <3>5. TypeOK'
      BY <3>2, <3>3, <3>4 DEF TypeOK
    <3>6. WorkerJob'
      BY <3>3, <3>4 DEF TypeOK
    <3> QED BY <3>5, <3>6
  <2>7. CASE spuriousWake(p)
    BY <2>7 DEF spuriousWake, TypeOK
  <2> QED BY <1>1, <2>1, <2>2, <2>3, <2>4, <2>5, <2>6, <2>7 DEF Actor
<1>2. ASSUME NEW p \in Instances, Host(p) PROVE TypeInv'
  <2>1. CASE hostBegin(p)
    BY <2>1 DEF hostBegin, TypeOK
  <2>2. CASE hostEnd(p)
    <3>1. job[p] \in Requests
      BY <2>2 DEF hostEnd, TypeOK
    <3>2. log' \in Seq(Requests)
      <4>1. log \in Seq(Requests)
        BY DEF TypeOK
      <4> QED BY <2>2, <3>1, <4>1 DEF hostEnd
    <3> QED BY <2>2, <3>2 DEF hostEnd, TypeOK
  <2>3. CASE hostReturn(p)
    BY <2>3 DEF hostReturn, TypeOK
  <2> QED BY <1>2, <2>1, <2>2, <2>3 DEF Host
<1>3. ASSUME NEW p \in Instances, Open(p) PROVE TypeInv'
  <2>1. CASE acquire(p)
    BY <2>1 DEF acquire, TypeOK
  <2>2. CASE openConnection(p)
    BY <2>2 DEF openConnection, TypeOK
  <2>3. CASE startActor(p)
    BY <2>3, RecoveredType DEF startActor, TypeOK
  <2> QED BY <1>3, <2>1, <2>2, <2>3 DEF Open
<1>4. ASSUME NEW p \in Instances, vanish(p), deaths' \in Nat PROVE TypeInv'
  BY <1>4 DEF vanish, TypeOK
<1>5. ASSUME NEW p \in Instances, Close(p) PROVE TypeInv'
  <2>1. CASE join(p)
    BY <2>1, Zenon DEF join, TypeOK
  <2>2. CASE stopTimeout(p)
    BY <2>2 DEF stopTimeout, TypeOK
  <2>3. CASE dropActor(p)
    BY <2>3 DEF dropActor, TypeOK
  <2>4. CASE closeConnection(p)
    BY <2>4 DEF closeConnection, TypeOK
  <2>5. CASE releaseGuard(p)
    BY <2>5 DEF releaseGuard, TypeOK
  <2>6. CASE exit(p)
    BY <1>4, <2>6, Zenon DEF exit, TypeOK
  <2> QED BY <1>5, <2>1, <2>2, <2>3, <2>4, <2>5, <2>6, Zenon DEF Close
<1>6. ASSUME NEW p \in Instances, Client(p) PROVE TypeInv'
  <2>1. ASSUME NEW r \in Requests, NEW pl \in Payloads, runOnce(p, r, pl) PROVE TypeInv'
    BY <2>1, RecoveredType, AdmittedType, Zenon DEF runOnce, TypeOK
  <2>2. ASSUME NEW r \in Requests, NEW pl \in Payloads, admit(p, r, pl) PROVE TypeInv'
    BY <2>2, AdmittedType, Zenon DEF admit, TypeOK
  <2>3. ASSUME NEW r \in Requests, runOnceRefused(p, r) PROVE TypeInv'
    BY <2>3, RecoveredType, Zenon DEF runOnceRefused, TypeOK
  <2>4. CASE push(p)
    BY <2>4 DEF push, TypeOK
  <2>5. CASE stop(p)
    BY <2>5 DEF stop, TypeOK
  <2> QED BY <1>6, <2>1, <2>2, <2>3, <2>4, <2>5 DEF Client
<1>7. ASSUME NEW p \in Instances, crash(p) PROVE TypeInv'
  BY <1>4, <1>7 DEF crash, TypeOK
<1>8. CASE UNCHANGED vars
  BY <1>8 DEF vars, TypeOK
<1> QED BY <1>1, <1>2, <1>3, <1>5, <1>6, <1>7, <1>8 DEF Next

\* The initial state is of the right types.
LEMMA InitType == Init => TypeInv
BY DEF Init, TypeInv, TypeOK, WorkerJob, Working, NoRecord, Record, States, Phases, Workers

\* Type correctness of the owner: durable records, lock and threads.
THEOREM TypeCorrect == Spec => []TypeOK
BY InitType, TypeStep, PTL DEF Spec, TypeInv

-----------------------------------------------------------------------------
(* One writer.                                                              *)

\* A process between acquire and releaseGuard holds the lock, and its
\* connection is open only after openConnection and until closeConnection.
GuardInv ==
    \A p \in Instances :
        /\ phase[p] \notin {"absent", "stopped"} => guard = p
        /\ conn[p] => phase[p] \notin {"absent", "guarded", "unguarding", "stopped"}

\* The order of open and close keeps lock, phase and connection together.
LEMMA GuardStep == TypeOK /\ GuardInv /\ [Next]_vars => GuardInv'
<1> SUFFICES ASSUME TypeOK, GuardInv, [Next]_vars PROVE GuardInv'
  OBVIOUS
<1> USE NoneAssumption DEF GuardInv, TypeOK
<1>1. ASSUME UNCHANGED <<guard, conn, phase>> PROVE GuardInv'
  BY <1>1
<1>2. ASSUME NEW p \in Instances, Actor(p) \/ spuriousWake(p) \/ Host(p) PROVE GuardInv'
  BY <1>1, <1>2, Zenon DEF Actor, Host, workerTop, workerPark, workerWake, spuriousWake, startJob, dropJob,
     finishJob, hostBegin, hostEnd, hostReturn
<1>3. ASSUME NEW p \in Instances, Open(p) PROVE GuardInv'
  BY <1>3 DEF Open, acquire, openConnection, startActor
<1>4. ASSUME NEW p \in Instances, vanish(p) PROVE GuardInv'
  BY <1>4 DEF vanish
<1>5. ASSUME NEW p \in Instances, Close(p) PROVE GuardInv'
  BY <1>4, <1>5 DEF Close, join, stopTimeout, dropActor, closeConnection, releaseGuard, exit
<1>6. ASSUME NEW p \in Instances, Client(p) PROVE GuardInv'
  BY <1>6 DEF Client, runOnce, runOnceRefused, admit, push, stop
<1>7. ASSUME NEW p \in Instances, crash(p) PROVE GuardInv'
  BY <1>4, <1>7 DEF crash
<1> QED BY <1>2, <1>3, <1>5, <1>6, <1>7 DEF Next, vars

\* I4: in every reachable state, for any number of processes, a writable
\* connection is held only under the single-instance lock.
THEOREM OneWriter == Spec => []ConnectionUnderGuard
<1>1. Init => GuardInv
  BY DEF Init, GuardInv
<1>2. GuardInv => ConnectionUnderGuard
  BY DEF GuardInv, ConnectionUnderGuard
<1> QED BY <1>1, <1>2, TypeCorrect, GuardStep, PTL DEF Spec

-----------------------------------------------------------------------------
(* No job runs twice.                                                       *)

\* The host of a request that is absent or still queued was never entered.
RunsInv ==
    \A r \in Requests :
        /\ runs[r] <= 1
        /\ records[r].state \in {"Absent", "Queued"} => runs[r] = 0

\* What each handler may do to a record: leave it, settle an unfinished one,
\* admit an absent one, or start a queued one and enter its host.
RecordMove(r) ==
    \/ records'[r] = records[r]
    \/ records[r].state \in Unfinished /\ records'[r].state \in Terminal
    \/ records[r].state = "Absent" /\ records'[r].state = "Queued"

\* Recovery settles what is unfinished and touches nothing else.
LEMMA RecoveredMoves ==
    ASSUME TypeOK, NEW r \in Requests
    PROVE  /\ recovered[r] = records[r] \/ (records[r].state \in Unfinished /\ recovered[r].state = "Uncertain")
           /\ recovered[r].state = "Absent" => records[r].state = "Absent"
BY DEF recovered, settled

\* Every step other than entering a host moves records one of those ways, and
\* enters no host.
LEMMA RecordSteps ==
    ASSUME TypeInv, [Next]_vars
    PROVE  \/ \E p \in Instances : startJob(p)
           \/ UNCHANGED runs /\ \A r \in Requests : RecordMove(r)
<1> USE DEF RecordMove, TypeInv, TypeOK
<1>1. ASSUME UNCHANGED <<records, runs>>
      PROVE  UNCHANGED runs /\ \A r \in Requests : RecordMove(r)
  BY <1>1
<1>2. ASSUME NEW p \in Instances, finishJob(p)
      PROVE  UNCHANGED runs /\ \A r \in Requests : RecordMove(r)
  BY <1>2 DEF finishJob, Finishable, settled, Unfinished, Terminal, WorkerJob
<1>3. ASSUME NEW p \in Instances, startActor(p) \/ \E r \in Requests : runOnceRefused(p, r)
      PROVE  UNCHANGED runs /\ \A r \in Requests : RecordMove(r)
  BY <1>3, RecoveredMoves DEF startActor, runOnceRefused, Terminal
<1>4. ASSUME NEW p \in Instances, NEW q \in Requests, NEW pl \in Payloads, runOnce(p, q, pl)
      PROVE  UNCHANGED runs /\ \A r \in Requests : RecordMove(r)
  <2>1. admitted(p, pl).state = "Queued"
    BY DEF admitted
  <2> QED BY <1>4, <2>1, RecoveredMoves DEF runOnce, Terminal, Admissible
<1>5. ASSUME NEW p \in Instances, NEW q \in Requests, NEW pl \in Payloads, admit(p, q, pl)
      PROVE  UNCHANGED runs /\ \A r \in Requests : RecordMove(r)
  BY <1>5 DEF admit, Admissible, admitted
<1>6. ASSUME NEW p \in Instances,
             \/ workerTop(p) \/ workerPark(p) \/ workerWake(p) \/ dropJob(p) \/ spuriousWake(p)
             \/ Host(p) \/ acquire(p) \/ openConnection(p) \/ Close(p)
             \/ push(p) \/ stop(p) \/ crash(p)
      PROVE  UNCHANGED <<records, runs>>
  BY <1>6, Zenon DEF workerTop, workerPark, workerWake, dropJob, spuriousWake, Host, hostBegin, hostEnd,
     hostReturn, acquire, openConnection, Close, join, stopTimeout, dropActor, closeConnection, releaseGuard,
     exit, vanish, push, stop, crash
<1>7. ASSUME UNCHANGED vars PROVE UNCHANGED <<records, runs>>
  BY <1>7 DEF vars
<1> QED BY <1>1, <1>2, <1>3, <1>4, <1>5, <1>6, <1>7 DEF Next, Actor, Open, Client

\* Entering a host takes a queued record, whose host was never entered.
LEMMA RunsStep == TypeInv /\ RunsInv /\ [Next]_vars => RunsInv'
<1> SUFFICES ASSUME TypeInv, RunsInv, [Next]_vars PROVE RunsInv'
  OBVIOUS
<1>1. ASSUME NEW p \in Instances, startJob(p) PROVE RunsInv'
  BY <1>1 DEF startJob, Startable, started, RunsInv, TypeInv, TypeOK
<1>2. ASSUME UNCHANGED runs, \A r \in Requests : RecordMove(r) PROVE RunsInv'
  BY <1>2 DEF RunsInv, RecordMove, Terminal, Outcomes
<1> QED BY <1>1, <1>2, RecordSteps

\* No resend: for any number of processes, requests and crashes, and with
\* process ids reused, the host of a request is entered at most once.
THEOREM NoJobTwice == Spec => []AtMostOnce
<1>1. Init => TypeInv /\ RunsInv
  BY InitType DEF Init, RunsInv
<1>2. TypeInv /\ [Next]_vars => TypeInv'
  BY TypeStep
<1>3. RunsInv => AtMostOnce
  BY DEF RunsInv, AtMostOnce
<1> QED BY <1>1, <1>2, <1>3, RunsStep, PTL DEF Spec

\* A settled job record is never rewritten, by any process at any time.
THEOREM SettledForGood == Spec => TerminalIsFinal
<1>1. Init => TypeInv
  BY InitType
<1>2. ASSUME TypeInv, [Next]_vars
      PROVE  [\A r \in Requests : records[r].state \in Terminal => records'[r] = records[r]]_vars
  <2>1. ASSUME NEW p \in Instances, startJob(p), NEW r \in Requests, records[r].state \in Terminal
        PROVE  records'[r] = records[r]
    BY <2>1 DEF startJob, Startable, Terminal, Outcomes
  <2>2. ASSUME NEW r \in Requests, RecordMove(r), records[r].state \in Terminal
        PROVE  records'[r] = records[r]
    BY <2>2 DEF RecordMove, Terminal, Outcomes, Unfinished
  <2> QED BY <1>2, <2>1, <2>2, RecordSteps
<1> QED BY <1>1, <1>2, TypeStep, PTL DEF Spec, TerminalIsFinal

-----------------------------------------------------------------------------
(* One job at a time, and its events inside its window.                     *)

\* Only an open connection has a batch.  The record of the job a recovered
\* owner executes is Running and its own, until its connection closes.
Executing(p) == worker[p] \in {"host", "finish"}
RunningInv ==
    \A p \in Instances :
        /\ txn[p] => conn[p]
        /\ conn[p] /\ phase[p] # "opened" /\ Executing(p) =>
            /\ records[job[p]].state = "Running"
            /\ records[job[p]].instance = p

\* A record's observed_seq is a sequence the log has reached, and a job whose
\* host was not entered yet has no events.
WindowInv ==
    /\ \A r \in Requests : records[r].observed <= Len(log)
    /\ \A s \in 1..Len(log) :
        records[log[s]].state \notin {"Absent", "Queued"}
    /\ JobEventsInWindow

OwnerInv == TypeInv /\ GuardInv /\ RunningInv /\ WindowInv

\* A process that may write is the only one with a connection.
LEMMA OnlyWriter ==
    ASSUME GuardInv, NEW p \in Instances, conn[p], NEW q \in Instances, q # p
    PROVE  ~conn[q]
BY DEF GuardInv

\* A step of a thread that is not executing, and does not begin to.
LEMMA IdleStep ==
    ASSUME TypeOK, RunningInv, NEW p \in Instances,
           UNCHANGED <<records, conn, txn, phase>>,
           worker[p] \notin {"host", "finish"}, worker'[p] \notin {"host", "finish"},
           \A q \in Instances \ {p} : worker'[q] = worker[q] /\ job'[q] = job[q]
    PROVE  RunningInv'
BY DEF RunningInv, Executing

\* Each handler keeps the Running record and the executing thread together.
LEMMA RunningStep == TypeInv /\ GuardInv /\ RunningInv /\ [Next]_vars => RunningInv'
<1> SUFFICES ASSUME TypeInv, GuardInv, RunningInv, [Next]_vars PROVE RunningInv'
  OBVIOUS
<1> /\ records \in [Requests -> Record]
    /\ conn \in [Instances -> BOOLEAN] /\ txn \in [Instances -> BOOLEAN]
    /\ phase \in [Instances -> Phases] /\ worker \in [Instances -> Workers]
    /\ job \in [Instances -> Requests \cup {None}]
    /\ WorkerJob
  BY DEF TypeInv, TypeOK
<1>1. ASSUME UNCHANGED <<records, conn, txn, phase, worker, job>> PROVE RunningInv'
  BY <1>1 DEF RunningInv, Executing
<1>2. ASSUME NEW p \in Instances, Actor(p) \/ spuriousWake(p) PROVE RunningInv'
  <2>1. CASE workerTop(p) \/ workerPark(p) \/ workerWake(p) \/ spuriousWake(p)
    BY <2>1, IdleStep, Zenon DEF TypeInv, workerTop, workerPark, workerWake, spuriousWake
  <2>2. CASE startJob(p)
    BY <2>2, OnlyWriter DEF startJob, Startable, Writable, WorkerJob, Working, RunningInv, Executing, started
  <2>3. CASE dropJob(p)
    BY <2>3, IdleStep, Zenon DEF TypeInv, dropJob, afterExecute
  <2>4. CASE finishJob(p)
    <3>1. worker'[p] \in {"top", "done"} /\ worker' \in [Instances -> Workers]
      BY <2>4 DEF finishJob, afterExecute, Workers
    <3>2. \A q \in Instances \ {p} : worker'[q] = worker[q] /\ job'[q] = job[q]
      BY <2>4 DEF finishJob
    <3>3. conn[p] => \A q \in Instances \ {p} : ~conn[q]
      BY OnlyWriter
    <3>4. (\A r \in Requests : records'[r] = records[r]) \/ conn[p]
      BY <2>4 DEF finishJob, Finishable, Writable
    <3>5. \A q \in Instances : worker[q] \in {"host", "finish"} => job[q] \in Requests
      BY DEF WorkerJob, Working
    <3>6. UNCHANGED <<conn, txn, phase>>
      BY <2>4 DEF finishJob
    <3>7. ASSUME NEW q \in Instances, conn[q], phase[q] # "opened", worker'[q] \in {"host", "finish"}
          PROVE  records'[job'[q]].state = "Running" /\ records'[job'[q]].instance = q
      <4>1. q # p /\ worker[q] \in {"host", "finish"} /\ job'[q] = job[q]
        BY <3>1, <3>2, <3>7
      <4>2. records'[job[q]] = records[job[q]]
        BY <3>3, <3>4, <3>5, <3>7, <4>1
      <4> QED BY <3>7, <4>1, <4>2 DEF RunningInv, Executing
    <3> QED BY <3>6, <3>7 DEF RunningInv, Executing
  <2> QED BY <1>2, <2>1, <2>2, <2>3, <2>4 DEF Actor
<1>3. ASSUME NEW p \in Instances, Host(p) PROVE RunningInv'
  <2>1. CASE hostBegin(p) \/ hostEnd(p)
    <3>1. \A q \in Instances : txn'[q] => conn[q]
      BY <2>1 DEF hostBegin, hostEnd, Writable, RunningInv
    <3>2. UNCHANGED <<records, conn, phase, worker, job>>
      BY <2>1, Zenon DEF hostBegin, hostEnd
    <3> QED BY <3>1, <3>2 DEF RunningInv, Executing
  <2> QED BY <1>3, <2>1 DEF Host, hostReturn, RunningInv, Executing
<1>4. ASSUME NEW p \in Instances, startActor(p) \/ \E r \in Requests : runOnceRefused(p, r)
      PROVE  RunningInv'
  BY <1>4, OnlyWriter DEF startActor, runOnceRefused, Writable, WorkerJob, RunningInv, Executing
<1>5. ASSUME NEW p \in Instances, NEW q \in Requests, NEW pl \in Payloads, runOnce(p, q, pl)
      PROVE  RunningInv'
  <2>1. conn[p] /\ UNCHANGED <<conn, txn>> /\ worker'[p] = "start"
    BY <1>5 DEF runOnce, Writable
  <2> QED BY <2>1, OnlyWriter DEF RunningInv, Executing
<1>6. ASSUME NEW p \in Instances, NEW q \in Requests, NEW pl \in Payloads, admit(p, q, pl)
      PROVE  RunningInv'
  BY <1>6, OnlyWriter DEF admit, Admissible, Writable, RunningInv, Executing
<1>7. ASSUME NEW p \in Instances, vanish(p) PROVE RunningInv'
  BY <1>7 DEF vanish, RunningInv, Executing
<1>8. ASSUME NEW p \in Instances, acquire(p) \/ openConnection(p) \/ push(p) \/ stop(p)
      PROVE  RunningInv'
  <2>1. UNCHANGED <<records, txn, worker, job>>
    BY <1>8, Zenon DEF acquire, openConnection, push, stop
  <2>2. \A q \in Instances : /\ conn[q] => conn'[q]
                             /\ conn'[q] /\ phase'[q] # "opened" => conn[q] /\ phase[q] # "opened"
    BY <1>8 DEF acquire, openConnection, push, stop, GuardInv
  <2> QED BY <2>1, <2>2 DEF RunningInv, Executing
<1>9. ASSUME NEW p \in Instances, Close(p) PROVE RunningInv'
  <2>1. CASE closeConnection(p) \/ releaseGuard(p)
    BY <2>1 DEF closeConnection, releaseGuard, GuardInv, RunningInv, Executing
  <2> QED BY <1>7, <1>9, <2>1 DEF Close, exit, join, stopTimeout, dropActor, RunningInv, Executing
<1>10. ASSUME NEW p \in Instances, crash(p) PROVE RunningInv'
  BY <1>7, <1>10 DEF crash
<1> QED BY <1>1, <1>2, <1>3, <1>4, <1>5, <1>6, <1>8, <1>9, <1>10 DEF Next, Open, Client, vars

\* A log only ever grows by one event of the job its owner executes.
LEMMA LogSteps ==
    ASSUME TypeInv, RunningInv, GuardInv, [Next]_vars
    PROVE  \/ UNCHANGED log
           \/ \E r \in Requests : /\ records[r].state = "Running"
                                  /\ log' = Append(log, r)
                                  /\ UNCHANGED records
<1> USE DEF TypeInv, TypeOK
<1>1. ASSUME NEW p \in Instances, hostEnd(p), log' # log
      PROVE  /\ job[p] \in Requests
             /\ records[job[p]].state = "Running"
             /\ log' = Append(log, job[p]) /\ UNCHANGED records
  BY <1>1 DEF hostEnd, RunningInv, Executing, WorkerJob, Working
<1>2. ASSUME NEW p \in Instances, Actor(p) \/ spuriousWake(p) \/ Open(p) \/ Close(p)
                                  \/ Client(p) \/ crash(p) \/ hostBegin(p) \/ hostReturn(p)
      PROVE  UNCHANGED log
  BY <1>2, Zenon DEF Actor, workerTop, workerPark, workerWake, startJob, dropJob, finishJob, spuriousWake, Open,
     acquire, openConnection, startActor, Close, join, stopTimeout, dropActor, closeConnection, releaseGuard,
     exit, vanish, Client, runOnce, admit, runOnceRefused, push, stop, crash, hostBegin, hostReturn
<1> QED BY <1>1, <1>2 DEF Next, Host, vars

\* What each step may do to a record, with the sequences it writes.
WindowMove(r) ==
    \/ records'[r] = records[r]
    \/ /\ records[r].state \in Unfinished
       /\ records'[r].state \in Terminal
       /\ records'[r].observed = records[r].observed
       /\ records'[r].committed = Len(log)
    \/ /\ records[r].state \in {"Absent", "Queued"}
       /\ records'[r].state \notin Terminal
       /\ records'[r].observed = Len(log)

\* Settling writes committed_seq, and admitting and starting write
\* observed_seq, from the sequence of the moment.
LEMMA WindowSteps ==
    ASSUME TypeInv, RunningInv, [Next]_vars, NEW r \in Requests
    PROVE  WindowMove(r)
<1> USE DEF TypeInv, TypeOK
<1>1. records'[r] = records[r] => WindowMove(r)
  BY DEF WindowMove
<1>2. recovered[r] = records[r] \/ /\ records[r].state \in Unfinished
                                   /\ recovered[r].state \in Terminal
                                   /\ recovered[r].observed = records[r].observed
                                   /\ recovered[r].committed = Len(log)
  BY DEF recovered, settled, sequence, Terminal
<1>3. ASSUME NEW p \in Instances, startActor(p) \/ \E q \in Requests : runOnceRefused(p, q)
      PROVE  WindowMove(r)
  BY <1>2, <1>3, Zenon DEF startActor, runOnceRefused, WindowMove
<1>4. ASSUME NEW p \in Instances, NEW q \in Requests, NEW pl \in Payloads,
             runOnce(p, q, pl) \/ admit(p, q, pl)
      PROVE  WindowMove(r)
  <2>1. /\ admitted(p, pl).state \notin Terminal
        /\ admitted(p, pl).observed = Len(log)
    BY DEF admitted, sequence, Terminal, Outcomes
  <2>2. CASE r = q
    BY <1>4, <2>1, <2>2, RecoveredMoves, RecoveredType, Zenon DEF WindowMove, runOnce, admit, Admissible
  <2>3. CASE r # q
    BY <1>2, <1>4, <2>3, RecoveredType, Zenon DEF WindowMove, runOnce, admit
  <2> QED BY <2>2, <2>3
<1>5. ASSUME NEW p \in Instances, startJob(p) PROVE WindowMove(r)
  BY <1>5 DEF startJob, Startable, WindowMove, Terminal, Outcomes, Working, started, sequence
<1>6. ASSUME NEW p \in Instances, finishJob(p) PROVE WindowMove(r)
  BY <1>6, NoneAssumption DEF finishJob, Finishable, WindowMove, Terminal, Unfinished, settled, sequence,
     WorkerJob, Working, Outcomes
<1>7. ASSUME NEW p \in Instances,
             \/ workerTop(p) \/ workerPark(p) \/ workerWake(p) \/ dropJob(p) \/ spuriousWake(p)
             \/ Host(p) \/ acquire(p) \/ openConnection(p) \/ Close(p)
             \/ push(p) \/ stop(p) \/ crash(p)
      PROVE  UNCHANGED records
  BY <1>7, Zenon DEF workerTop, workerPark, workerWake, dropJob, spuriousWake, Host, hostBegin, hostEnd,
     hostReturn, acquire, openConnection, Close, join, stopTimeout, dropActor, closeConnection, releaseGuard,
     exit, vanish, push, stop, crash
<1> QED BY <1>1, <1>3, <1>4, <1>5, <1>6, <1>7 DEF Next, Actor, Open, Client, vars

\* No step puts an event outside the window of its job.
LEMMA WindowStep ==
    ASSUME TypeInv, TypeInv', GuardInv, RunningInv, WindowInv, [Next]_vars
    PROVE  WindowInv'
<1>1. /\ log \in Seq(Requests) /\ records \in [Requests -> Record]
      /\ log' \in Seq(Requests) /\ records' \in [Requests -> Record]
  BY DEF TypeInv, TypeOK
<1>2. \A r \in Requests : /\ records[r].observed \in Nat /\ records[r].committed \in Nat
                         /\ records'[r].observed \in Nat /\ records'[r].committed \in Nat
  BY <1>1 DEF Record
<1>3. CASE UNCHANGED log
  <2>1. \A r \in Requests : records'[r].observed <= Len(log)
    <3> TAKE r \in Requests
    <3> QED BY WindowSteps DEF WindowMove, WindowInv
  <2>2. ASSUME NEW s \in 1..Len(log)
        PROVE  /\ records'[log[s]].state \notin {"Absent", "Queued"}
               /\ records'[log[s]].observed < s
               /\ records'[log[s]].state \in Terminal => s <= records'[log[s]].committed
    BY <1>1, WindowSteps DEF WindowMove, Terminal, Outcomes, WindowInv, JobEventsInWindow
  <2> QED BY <1>3, <2>1, <2>2 DEF WindowInv, JobEventsInWindow
<1>4. ASSUME NEW r \in Requests, records[r].state = "Running", log' = Append(log, r),
             UNCHANGED records
      PROVE  WindowInv'
  BY <1>2, <1>4 DEF WindowInv, JobEventsInWindow, Terminal, Outcomes
<1> QED BY <1>3, <1>4, LogSteps

\* The inductive invariant of the owner holds initially ...
LEMMA OwnerInit == Init => OwnerInv
BY InitType DEF Init, OwnerInv, GuardInv, RunningInv, WindowInv, JobEventsInWindow, NoRecord

\* ... and in every reachable state.
LEMMA OwnerInvariant == Spec => []OwnerInv
<1>1. OwnerInv /\ [Next]_vars => OwnerInv'
  BY TypeStep, GuardStep, RunningStep, WindowStep DEF OwnerInv, TypeInv
<1> QED BY <1>1, OwnerInit, PTL DEF Spec

\* The sequence window a job record reports contains the job's events and,
\* once the record is settled, all of them, for any number of processes,
\* requests and crashes.
THEOREM EventsInsideWindow == Spec => []JobEventsInWindow
<1>1. OwnerInv => JobEventsInWindow
  BY DEF OwnerInv, WindowInv
<1> QED BY <1>1, OwnerInvariant, PTL

-----------------------------------------------------------------------------
(* No job is forgotten.                                                     *)

\* Where a request is kept by a process that holds the ledger.
Kept(p, r) == InHand(p, r) \/ r \in errors[p]

\* A step of the process that holds the ledger keeps every job in hand or
\* reports it, and so does a step of any other process.
LEMMA KeptByWriter ==
    ASSUME TypeInv, GuardInv, UnfinishedInHand, NEW p \in Instances, conn[p], UNCHANGED conn,
           \A r \in Requests : records'[r].state \in Unfinished /\ phase'[p] # "opened" => Kept(p, r)'
    PROVE  UnfinishedInHand'
BY OnlyWriter DEF UnfinishedInHand, Kept

\* A step that leaves records, connections and what the processes keep alone.
LEMMA KeptSame ==
    ASSUME UnfinishedInHand, UNCHANGED <<records, conn, job, queue, pushing, errors>>,
           \A p \in Instances : conn[p] /\ phase[p] = "opened" => phase'[p] = "opened"
    PROVE  UnfinishedInHand'
BY DEF UnfinishedInHand, InHand

\* Some place of a queue holds a request.
Queued(s, r) == \E i \in 1..Len(s) : s[i] = r

\* Appending to a queue loses no element, and adds the new one.
LEMMA AppendKeeps ==
    ASSUME NEW s \in Seq(Requests), NEW x \in Requests, NEW r, Queued(s, r) \/ x = r
    PROVE  Queued(Append(s, x), r)
<1>1. ASSUME NEW i \in 1..Len(s), s[i] = r
      PROVE  i \in 1..Len(Append(s, x)) /\ Append(s, x)[i] = r
  BY <1>1
<1>2. Len(s) + 1 \in 1..Len(Append(s, x)) /\ Append(s, x)[Len(s) + 1] = x
  OBVIOUS
<1> QED BY <1>1, <1>2 DEF Queued

\* Taking the head of a queue leaves the others.
LEMMA TailKeeps ==
    ASSUME NEW s \in Seq(Requests), NEW r, s # <<>>, Queued(s, r), Head(s) # r
    PROVE  Queued(Tail(s), r)
<1>1. PICK i \in 1..Len(s) : s[i] = r
  BY DEF Queued
<1>2. i # 1
  BY <1>1
<1>3. i - 1 \in 1..Len(Tail(s)) /\ Tail(s)[i - 1] = r
  BY <1>1, <1>2
<1> QED BY <1>3 DEF Queued

\* Every handler hands a job on, settles it or reports it.
LEMMA KeptStep ==
    ASSUME TypeInv, GuardInv, UnfinishedInHand, [Next]_vars
    PROVE  UnfinishedInHand'
<1> /\ records \in [Requests -> Record]
    /\ conn \in [Instances -> BOOLEAN] /\ phase \in [Instances -> Phases]
    /\ worker \in [Instances -> Workers]
    /\ job \in [Instances -> Requests \cup {None}] /\ queue \in [Instances -> Seq(Requests)]
    /\ pushing \in [Instances -> Requests \cup {None}]
    /\ errors \in [Instances -> SUBSET Requests]
    /\ WorkerJob
  BY DEF TypeInv, TypeOK
<1> USE NoneAssumption
<1>1. ASSUME NEW p \in Instances, workerTop(p) PROVE UnfinishedInHand'
  <2>1. CASE queue[p] = <<>> \/ Stopping(p)
    <3>1. UNCHANGED <<records, conn, phase, job, queue, pushing, errors>>
      BY <1>1, <2>1 DEF workerTop
    <3> QED BY <3>1, KeptSame
  <2>2. CASE queue[p] # <<>> /\ ~Stopping(p)
    <3>1. /\ UNCHANGED <<records, conn, phase, pushing, errors>>
          /\ job' = [job EXCEPT ![p] = Head(queue[p])] /\ queue' = [queue EXCEPT ![p] = Tail(queue[p])]
      BY <1>1, <2>2, Zenon DEF workerTop
    <3>2. job[p] = None
      BY <1>1, Zenon DEF workerTop, WorkerJob, Working
    <3>3. ASSUME NEW q \in Instances, NEW r \in Requests, InHand(q, r) PROVE InHand(q, r)'
      <4>1. CASE q # p
        BY <3>1, <3>3, <4>1 DEF InHand
      <4>2. CASE q = p
        <5>1. /\ job'[p] = Head(queue[p]) /\ queue'[p] = Tail(queue[p]) /\ pushing'[p] = pushing[p]
          BY <3>1
        <5>2. Queued(queue[p], r) => Head(queue[p]) = r \/ Queued(Tail(queue[p]), r)
          BY <2>2, TailKeeps
        <5> QED BY <3>2, <3>3, <4>2, <5>1, <5>2 DEF InHand, Queued
      <4> QED BY <4>1, <4>2
    <3> QED BY <3>1, <3>3, Zenon DEF UnfinishedInHand
  <2> QED BY <2>1, <2>2
<1>2. ASSUME NEW p \in Instances, startJob(p) PROVE UnfinishedInHand'
  <2>1. /\ UNCHANGED <<conn, phase, job, queue, pushing, errors>>
        /\ job[p] \in Requests /\ conn[p]
        /\ \A r \in Requests \ {job[p]} : records'[r] = records[r]
    BY <1>2 DEF startJob, Startable, Writable, WorkerJob, Working
  <2>2. ASSUME NEW r \in Requests, records'[r].state \in Unfinished, phase[p] # "opened" PROVE Kept(p, r)'
    <3>1. Kept(p, r)
      BY <2>1, <2>2 DEF Kept, UnfinishedInHand, InHand
    <3> QED BY <2>1, <3>1 DEF Kept, InHand
  <2> QED BY <2>1, <2>2, KeptByWriter
<1>3. ASSUME NEW p \in Instances, dropJob(p) PROVE UnfinishedInHand'
  <2>1. /\ UNCHANGED <<records, conn, phase, queue, pushing>>
        /\ job' = [job EXCEPT ![p] = None] /\ errors' = [errors EXCEPT ![p] = @ \cup {job[p]}]
    BY <1>3 DEF dropJob
  <2>2. \A q \in Instances, r \in Requests : Kept(q, r) => Kept(q, r)'
    BY <2>1 DEF Kept, InHand
  <2> QED BY <2>1, <2>2 DEF UnfinishedInHand, Kept
<1>4. ASSUME NEW p \in Instances, finishJob(p) PROVE UnfinishedInHand'
  <2>1. /\ UNCHANGED <<conn, phase, queue, pushing>>
        /\ job' = [job EXCEPT ![p] = None]
        /\ job[p] \in Requests /\ outcome[p] \in Outcomes
    BY <1>4 DEF finishJob, WorkerJob, Working, TypeInv, TypeOK
  <2>2. CASE UNCHANGED records /\ errors' = [errors EXCEPT ![p] = @ \cup {job[p]}]
    <3>1. \A q \in Instances, r \in Requests : Kept(q, r) => Kept(q, r)'
      BY <2>1, <2>2, Zenon DEF Kept, InHand
    <3> QED BY <2>1, <2>2, <3>1 DEF UnfinishedInHand, Kept
  <2>3. CASE /\ Finishable(p, job[p]) /\ UNCHANGED errors
             /\ records' = [records EXCEPT ![job[p]] = settled(@, outcome[p])]
    <3>1. conn[p] /\ records'[job[p]].state \notin Unfinished
      BY <2>1, <2>3 DEF Finishable, Writable, settled, Unfinished, Outcomes
    <3>2. ASSUME NEW r \in Requests, records'[r].state \in Unfinished, phase'[p] # "opened"
          PROVE  Kept(p, r)'
      <4>1. r # job[p] /\ records'[r] = records[r]
        BY <2>1, <2>3, <3>1, <3>2
      <4>2. Kept(p, r)
        BY <2>1, <3>1, <3>2, <4>1 DEF UnfinishedInHand, Kept
      <4> QED BY <2>1, <2>3, <4>1, <4>2 DEF Kept, InHand
    <3> QED BY <2>1, <3>1, <3>2, KeptByWriter, Zenon
  <2> QED BY <1>4, <2>2, <2>3, Zenon DEF finishJob
<1>5. ASSUME NEW p \in Instances, startActor(p) \/ \E q \in Requests : runOnceRefused(p, q)
      PROVE  UnfinishedInHand'
  <2>1. \A r \in Requests : records'[r].state \notin Unfinished
    <3>1. records' = recovered
      BY <1>5, Zenon DEF startActor, runOnceRefused
    <3> QED BY <3>1 DEF recovered, settled, Unfinished
  <2> QED BY <2>1 DEF UnfinishedInHand
<1>6. ASSUME NEW p \in Instances, NEW q \in Requests, NEW pl \in Payloads, runOnce(p, q, pl)
      PROVE  UnfinishedInHand'
  <2>1. conn[p] /\ UNCHANGED conn /\ job'[p] = q
    BY <1>6 DEF runOnce, Writable
  <2>2. \A r \in Requests : r # q => records'[r].state \notin Unfinished
    <3>1. \A r \in Requests : recovered[r].state \notin Unfinished
      BY DEF recovered, settled, Unfinished
    <3>2. \A r \in Requests : r # q => records'[r] = recovered[r]
      BY <1>6 DEF runOnce, recovered
    <3> QED BY <3>1, <3>2, Zenon
  <2> QED BY <2>1, <2>2, KeptByWriter, Zenon DEF Kept, InHand
<1>7. ASSUME NEW p \in Instances, NEW q \in Requests, NEW pl \in Payloads, admit(p, q, pl)
      PROVE  UnfinishedInHand'
  <2>1. /\ conn[p] /\ UNCHANGED <<conn, phase, job, queue, errors>> /\ pushing[p] = None
        /\ pushing' = [pushing EXCEPT ![p] = q]
        /\ \A r \in Requests : r # q => records'[r] = records[r]
    BY <1>7 DEF admit, Writable
  <2>2. ASSUME NEW r \in Requests, records'[r].state \in Unfinished, phase'[p] # "opened"
        PROVE  Kept(p, r)'
    BY <2>1, <2>2, Zenon DEF Kept, InHand, UnfinishedInHand
  <2> QED BY <2>1, <2>2, KeptByWriter
<1>8. ASSUME NEW p \in Instances, push(p) PROVE UnfinishedInHand'
  <2>1. /\ UNCHANGED <<records, conn, phase, job, errors>> /\ pushing[p] \in Requests
        /\ pushing' = [pushing EXCEPT ![p] = None]
        /\ queue' = [queue EXCEPT ![p] = Append(queue[p], pushing[p])]
    BY <1>8, Zenon DEF push
  <2>2. ASSUME NEW q \in Instances, NEW r \in Requests, InHand(q, r) PROVE InHand(q, r)'
    <3>1. CASE q # p
      BY <2>1, <2>2, <3>1 DEF InHand
    <3>2. CASE q = p
      <4>1. /\ job'[p] = job[p] /\ queue'[p] = Append(queue[p], pushing[p])
        BY <2>1
      <4>2. Queued(queue[p], r) \/ pushing[p] = r => Queued(Append(queue[p], pushing[p]), r)
        BY <2>1, AppendKeeps
      <4> QED BY <2>2, <3>2, <4>1, <4>2, Zenon DEF InHand, Queued
    <3> QED BY <3>1, <3>2
  <2> QED BY <2>1, <2>2, Zenon DEF UnfinishedInHand
<1>9. ASSUME NEW p \in Instances, closeConnection(p) \/ vanish(p) PROVE UnfinishedInHand'
  <2>1. /\ ~conn'[p] /\ UNCHANGED records
        /\ \A q \in Instances \ {p} : /\ conn'[q] = conn[q] /\ phase'[q] = phase[q]
                                      /\ job'[q] = job[q] /\ queue'[q] = queue[q]
                                      /\ pushing'[q] = pushing[q] /\ errors'[q] = errors[q]
    BY <1>9 DEF closeConnection, vanish
  <2>2. \A q \in Instances \ {p}, r \in Requests : InHand(q, r) => InHand(q, r)'
    BY <2>1, Zenon DEF InHand
  <2> QED BY <2>1, <2>2, Zenon DEF UnfinishedInHand
<1>10. ASSUME NEW p \in Instances, openConnection(p) PROVE UnfinishedInHand'
  <2>1. /\ phase'[p] = "opened" /\ UNCHANGED <<records, job, queue, pushing, errors>>
        /\ \A q \in Instances \ {p} : conn'[q] = conn[q] /\ phase'[q] = phase[q]
    BY <1>10 DEF openConnection
  <2> QED BY <2>1, Zenon DEF UnfinishedInHand, InHand
<1>11. ASSUME NEW p \in Instances,
              \/ workerPark(p) \/ workerWake(p) \/ spuriousWake(p) \/ Host(p) \/ acquire(p) \/ join(p)
              \/ stopTimeout(p) \/ dropActor(p) \/ releaseGuard(p) \/ stop(p)
       PROVE  UnfinishedInHand'
  <2>1. UNCHANGED <<records, conn, job, queue, pushing, errors>>
    BY <1>11, Zenon DEF workerPark, workerWake, spuriousWake, Host, hostBegin, hostEnd, hostReturn, acquire,
       join, stopTimeout, dropActor, releaseGuard, stop
  <2>2. \A q \in Instances : phase[q] = "opened" => phase'[q] = "opened"
    BY <1>11, Zenon DEF workerPark, workerWake, spuriousWake, Host, hostBegin, hostEnd, hostReturn, acquire,
       join, stopTimeout, dropActor, releaseGuard, stop
  <2> QED BY <2>1, <2>2, KeptSame
<1>12. CASE UNCHANGED vars
  BY <1>12, KeptSame DEF vars
<1>13. ASSUME NEW p \in Instances, Close(p) \/ crash(p) PROVE UnfinishedInHand'
  BY <1>9, <1>11, <1>13, Zenon DEF Close, exit, crash
<1>14. ASSUME NEW p \in Instances, Actor(p) \/ Open(p) \/ Client(p) PROVE UnfinishedInHand'
  BY <1>1, <1>2, <1>3, <1>4, <1>5, <1>6, <1>7, <1>8, <1>10, <1>11, <1>14, Zenon DEF Actor, Open, Client
<1> QED BY <1>11, <1>12, <1>13, <1>14, Zenon DEF Next

\* No job is forgotten in silence: while an owner keeps its ledger, every
\* admitted and unsettled job is in its hand or among the failures it reports,
\* for any number of processes, requests, crashes and store failures.
THEOREM NoJobForgotten == Spec => []UnfinishedInHand
<1>1. Init => UnfinishedInHand
  BY DEF Init, UnfinishedInHand
<1>2. OwnerInv /\ UnfinishedInHand /\ [Next]_vars => UnfinishedInHand'
  BY KeptStep DEF OwnerInv
<1> QED BY <1>1, <1>2, OwnerInvariant, PTL DEF Spec

-----------------------------------------------------------------------------
(* The owner implements the job service.                                    *)

\* The service's view of a recovery.
LEMMA AbandonedIsRecovered ==
    TypeOK => jobs!Abandoned = [r \in Requests |-> recovered[r].state]
BY Zenon DEF jobs!Abandoned, jobs!Unfinished, jobState, recovered, settled, Unfinished

\* The process with the connection decides which job is active.
LEMMA ActiveOfWriter ==
    ASSUME GuardInv, NEW p \in Instances, conn[p]
    PROVE  activeJob = IF Executing(p) THEN {job[p]} ELSE {}
<1>1. \A q \in Instances : Active(q) <=> q = p /\ Executing(p)
  BY OnlyWriter, Zenon DEF Active, Executing
<1> QED BY <1>1, Zenon DEF activeJob

\* A step that changes the connection or the thread of no executing process,
\* and makes none execute, leaves the active job alone.
LEMMA ActiveKept ==
    ASSUME NEW p \in Instances, ~Active(p), ~Active(p)',
           \A q \in Instances \ {p} : /\ conn'[q] = conn[q]
                                      /\ worker'[q] = worker[q] /\ job'[q] = job[q]
    PROVE  activeJob' = activeJob
<1>1. \A q \in Instances : Active(q)' <=> Active(q)
  BY DEF Active
<1>2. \A q \in Instances : Active(q) => job'[q] = job[q]
  OBVIOUS
<1> QED BY <1>1, <1>2, Zenon DEF activeJob

\* Closing the connection, or losing the process, leaves no other job active.
LEMMA ActiveLost ==
    ASSUME TypeOK, GuardInv, NEW p \in Instances, closeConnection(p) \/ vanish(p)
    PROVE  activeJob' = {} \/ activeJob' = activeJob
<1> USE DEF TypeOK
<1>1. ~conn'[p] /\ \A q \in Instances \ {p} : /\ conn'[q] = conn[q]
                                              /\ worker'[q] = worker[q] /\ job'[q] = job[q]
  BY DEF closeConnection, vanish
<1>2. CASE conn[p]
  <2>1. \A q \in Instances : ~conn'[q]
    BY <1>1, <1>2, OnlyWriter, Zenon
  <2> QED BY <2>1, Zenon DEF activeJob, Active
<1>3. CASE ~conn[p]
  BY <1>1, <1>3, ActiveKept DEF Active
<1> QED BY <1>2, <1>3

\* Starting a job makes it the active one.
LEMMA ActiveStarted ==
    ASSUME TypeInv, GuardInv, NEW p \in Instances, startJob(p)
    PROVE  activeJob = {} /\ activeJob' = {job[p]}
<1> USE DEF TypeInv, TypeOK
<1>1. activeJob = {}
  BY ActiveOfWriter, Zenon DEF startJob, Startable, Writable, Executing
<1>2. \A q \in Instances : Active(q)' <=> q = p
  BY OnlyWriter DEF startJob, Startable, Writable, Active
<1> QED BY <1>1, <1>2, Zenon DEF startJob, activeJob

\* Finishing it, recorded or not, leaves none of this process.
LEMMA ActiveFinished ==
    ASSUME TypeInv, GuardInv, NEW p \in Instances, finishJob(p)
    PROVE  /\ conn[p] => activeJob = {job[p]} /\ activeJob' = {}
           /\ ~conn[p] => activeJob' = activeJob
<1> USE DEF TypeInv, TypeOK
<1>1. worker'[p] \in {"top", "done"} /\ conn' = conn
  BY DEF finishJob, afterExecute
<1>2. \A q \in Instances \ {p} : worker'[q] = worker[q] /\ job'[q] = job[q]
  BY DEF finishJob
<1>3. ASSUME conn[p] PROVE activeJob = {job[p]} /\ activeJob' = {}
  <2>1. activeJob = {job[p]}
    BY <1>3, ActiveOfWriter DEF finishJob, Executing
  <2>2. \A q \in Instances : ~Active(q)'
    BY <1>1, <1>2, <1>3, OnlyWriter DEF Active
  <2>3. activeJob' = {}
    BY <2>2, Zenon DEF activeJob
  <2> QED BY <2>1, <2>3
<1>4. ASSUME ~conn[p] PROVE activeJob' = activeJob
  BY <1>1, <1>2, <1>4, ActiveKept DEF Active
<1> QED BY <1>3, <1>4

\* Recovery happens before any job of its process, and under the lock.
LEMMA ActiveRecovered ==
    ASSUME TypeInv, GuardInv, NEW p \in Instances,
           \/ startActor(p) \/ \E q \in Requests : runOnceRefused(p, q)
           \/ \E q \in Requests, pl \in Payloads : runOnce(p, q, pl)
    PROVE  activeJob = {} /\ activeJob' = {}
<1> USE DEF TypeInv, TypeOK
<1>1. /\ conn[p] /\ conn' = conn
      /\ worker[p] = "none" /\ worker'[p] \in {"none", "top", "start"}
  BY DEF startActor, runOnceRefused, runOnce, Writable, WorkerJob
<1>2. activeJob = {}
  BY <1>1, ActiveOfWriter, Zenon DEF Executing
<1>3. \A q \in Instances : ~Active(q)'
  BY <1>1, OnlyWriter DEF Active
<1> QED BY <1>2, <1>3, Zenon DEF activeJob

\* The steps that leave records, log and the active job alone.
LEMMA ActiveSame ==
    ASSUME TypeInv, NEW p \in Instances,
           \/ workerTop(p) \/ workerPark(p) \/ workerWake(p) \/ dropJob(p) \/ spuriousWake(p)
           \/ hostBegin(p) \/ hostReturn(p) \/ acquire(p) \/ openConnection(p) \/ join(p)
           \/ stopTimeout(p) \/ dropActor(p) \/ releaseGuard(p) \/ push(p) \/ stop(p)
    PROVE  UNCHANGED <<records, activeJob, log>>
<1> USE DEF TypeInv, TypeOK
<1>1. UNCHANGED <<records, log>>
  BY Zenon DEF workerTop, workerPark, workerWake, dropJob, spuriousWake, hostBegin, hostReturn, acquire,
     openConnection, join, stopTimeout, dropActor, releaseGuard, push, stop
<1>2. CASE workerTop(p) \/ workerPark(p) \/ workerWake(p) \/ dropJob(p) \/ spuriousWake(p) \/ openConnection(p)
  <2>1. \A q \in Instances \ {p} : /\ conn'[q] = conn[q]
                                   /\ worker'[q] = worker[q] /\ job'[q] = job[q]
    BY <1>2, Zenon DEF workerTop, workerPark, workerWake, dropJob, spuriousWake, openConnection
  <2>2. worker[p] \notin {"host", "finish"} /\ worker'[p] \notin {"host", "finish"}
    BY <1>2 DEF workerTop, workerPark, workerWake, dropJob, spuriousWake, openConnection, afterExecute,
       WorkerJob
  <2> QED BY <1>1, <2>1, <2>2, ActiveKept, Zenon DEF Active
<1>3. CASE hostReturn(p)
  <2>1. UNCHANGED <<conn, job>> /\ \A q \in Instances : Active(q)' <=> Active(q)
    BY <1>3 DEF hostReturn, Active
  <2> QED BY <1>1, <2>1 DEF activeJob
<1>4. CASE hostBegin(p) \/ acquire(p) \/ join(p) \/ stopTimeout(p) \/ dropActor(p) \/ releaseGuard(p)
           \/ push(p) \/ stop(p)
  <2>1. UNCHANGED <<conn, worker, job>>
    BY <1>4, Zenon DEF hostBegin, acquire, join, stopTimeout, dropActor, releaseGuard, push, stop
  <2> QED BY <1>1, <2>1 DEF activeJob, Active
<1> QED BY <1>2, <1>3, <1>4

\* Every step of the owner is a step of the job service or a stutter.
LEMMA JobStep ==
    ASSUME OwnerInv, [Next]_vars
    PROVE  [jobs!JobNext]_<<jobState, activeJob, log>>
<1> USE DEF OwnerInv, TypeInv, TypeOK
<1>1. \A r \in Requests : jobState[r] = records[r].state
  BY DEF jobState
<1>2. jobState' = [r \in Requests |-> records'[r].state]
  BY DEF jobState
<1>3. ASSUME NEW p \in Instances, startActor(p) \/ \E q \in Requests : runOnceRefused(p, q)
      PROVE  jobs!Recover
  <2>1. records' = recovered /\ log' = log
    BY <1>3 DEF startActor, runOnceRefused
  <2>2. activeJob = {} /\ activeJob' = {}
    BY <1>3, ActiveRecovered
  <2> QED BY <1>2, <2>1, <2>2, AbandonedIsRecovered DEF jobs!Recover
<1>4. ASSUME NEW p \in Instances, NEW q \in Requests, NEW pl \in Payloads, runOnce(p, q, pl)
      PROVE  jobs!RecoverAndAdmit(q)
  <2>1. records[q].state = "Absent" /\ log' = log
    BY <1>4, RecoveredMoves DEF runOnce, Admissible
  <2>2. jobState' = [jobs!Abandoned EXCEPT ![q] = "Queued"]
    <3>1. \A r \in Requests : records'[r].state = IF r = q THEN "Queued" ELSE recovered[r].state
      BY <1>4 DEF runOnce, recovered, admitted
    <3> QED BY <1>2, <3>1, AbandonedIsRecovered, Zenon
  <2>3. activeJob = {} /\ activeJob' = {}
    BY <1>4, ActiveRecovered, Zenon
  <2> QED BY <1>1, <2>1, <2>2, <2>3 DEF jobs!RecoverAndAdmit
<1>5. ASSUME NEW p \in Instances, NEW q \in Requests, NEW pl \in Payloads, admit(p, q, pl)
      PROVE  jobs!Admit(q)
  <2>1. \A r \in Requests : records'[r].state = IF r = q THEN "Queued" ELSE records[r].state
    BY <1>5 DEF admit, admitted
  <2>2. jobState' = [jobState EXCEPT ![q] = "Queued"]
    BY <1>2, <2>1, Zenon DEF jobState
  <2>3. activeJob' = activeJob
    BY <1>5, Zenon DEF admit, activeJob, Active
  <2> QED BY <1>1, <1>5, <2>2, <2>3 DEF admit, Admissible, jobs!Admit
<1>6. ASSUME NEW p \in Instances, startJob(p) PROVE job[p] \in Requests /\ jobs!Start(job[p])
  <2>1. job[p] \in Requests /\ records[job[p]].state = "Queued" /\ log' = log
    BY <1>6 DEF startJob, Startable, WorkerJob, Working
  <2>2. \A r \in Requests : records'[r].state = IF r = job[p] THEN "Running" ELSE records[r].state
    BY <1>6 DEF startJob, started
  <2>3. jobState' = [jobState EXCEPT ![job[p]] = "Running"]
    BY <1>2, <2>2, Zenon DEF jobState
  <2> QED BY <1>1, <1>6, <2>1, <2>3, ActiveStarted DEF jobs!Start
<1>7. ASSUME NEW p \in Instances, finishJob(p)
      PROVE  \/ \E o \in Outcomes : job[p] \in Requests /\ jobs!Finish(job[p], o)
             \/ jobs!Lose
             \/ UNCHANGED <<records, activeJob, log>>
  <2>1. job[p] \in Requests /\ outcome[p] \in Outcomes /\ log' = log
    BY <1>7 DEF finishJob, WorkerJob, Working
  <2>2. CASE records' = records
    BY <1>2, <1>7, <2>1, <2>2, ActiveFinished DEF jobs!Lose, jobState
  <2>3. CASE Finishable(p, job[p]) /\ records' = [records EXCEPT ![job[p]] = settled(@, outcome[p])]
    <3>1. \A r \in Requests : records'[r].state = IF r = job[p] THEN outcome[p] ELSE records[r].state
      BY <2>3 DEF settled
    <3>2. jobState' = [jobState EXCEPT ![job[p]] = outcome[p]]
      BY <1>2, <3>1, Zenon DEF jobState
    <3>3. records[job[p]].state = "Running" /\ conn[p]
      BY <2>3 DEF Finishable, Writable
    <3> QED BY <1>1, <1>7, <2>1, <3>2, <3>3, ActiveFinished, Zenon DEF jobs!Finish
  <2> QED BY <1>7, <2>2, <2>3 DEF finishJob
<1>8. ASSUME NEW p \in Instances, hostEnd(p)
      PROVE  \/ UNCHANGED <<records, activeJob, log>>
             \/ \E r \in Requests : jobs!AppendEvent(r)
  <2>1. job[p] \in Requests /\ records[job[p]].state = "Running" /\ activeJob = {job[p]}
    BY <1>8, ActiveOfWriter DEF hostEnd, RunningInv, Executing, WorkerJob, Working
  <2>2. UNCHANGED <<records, activeJob>>
    BY <1>8 DEF hostEnd, activeJob, Active
  <2> QED BY <1>1, <1>2, <1>8, <2>1, <2>2 DEF hostEnd, jobs!AppendEvent, jobState
<1>9. ASSUME NEW p \in Instances, closeConnection(p) \/ vanish(p)
      PROVE  jobs!Lose \/ UNCHANGED <<records, activeJob, log>>
  <2>1. UNCHANGED <<records, log>>
    BY <1>9, Zenon DEF closeConnection, vanish
  <2> QED BY <1>9, <2>1, ActiveLost DEF jobs!Lose, jobState
<1>10. jobs!Outcomes = Outcomes
  BY DEF jobs!Outcomes, Outcomes
<1>11. UNCHANGED vars => UNCHANGED <<records, activeJob, log>>
  BY DEF vars, activeJob, Active
<1>12. ASSUME NEW p \in Instances, Close(p) \/ crash(p) \/ Host(p) \/ spuriousWake(p)
       PROVE  jobs!JobNext \/ UNCHANGED <<records, activeJob, log>>
  BY <1>8, <1>9, <1>12, ActiveSame, Zenon DEF Close, Host, exit, crash, jobs!JobNext
<1>13. ASSUME NEW p \in Instances, Actor(p) \/ Open(p) \/ Client(p)
       PROVE  jobs!JobNext \/ UNCHANGED <<records, activeJob, log>>
  BY <1>3, <1>4, <1>5, <1>6, <1>7, <1>10, <1>13, ActiveSame, Zenon DEF Actor, Open, Client, jobs!JobNext
<1>14. jobs!JobNext \/ UNCHANGED <<records, activeJob, log>>
  BY <1>11, <1>12, <1>13, Zenon DEF Next
<1> QED BY <1>14 DEF jobState

\* The lock, the threads, the journal and every crash and restart of the
\* owner together behave as the abstract job service.
THEOREM OwnerImplementsJobService == Spec => ImplementsJobService
<1>1. Init => jobs!JobInit
  BY DEF Init, NoRecord, jobState, activeJob, Active, jobs!JobInit
<1>2. OwnerInv /\ [Next]_vars => [jobs!JobNext]_<<jobState, activeJob, log>>
  BY JobStep
<1> QED BY <1>1, <1>2, OwnerInvariant, PTL DEF Spec, ImplementsJobService, jobs!JobSpec
=============================================================================
