----------------------------- MODULE JobService -----------------------------
(***************************************************************************)
(* What the runtime owner promises its clients, without processes, locks   *)
(* or threads: every request id is a job that is admitted once and started *)
(* at most once, while no other job is active; it appends ledger events    *)
(* only while it is active and Running; and it is settled for good, by its *)
(* own outcome or, when that was never recorded, as Uncertain together     *)
(* with everything unfinished by the next owner.                           *)
(***************************************************************************)
EXTENDS Sequences

CONSTANT Requests

VARIABLES
    state,   \* request id -> state of its job
    active,  \* the job that may write the ledger, if there is one
    log      \* the job that appended each ledger event

Outcomes == {"Completed", "Refused", "Failed"}
Unfinished == {"Queued", "Running"}

JobInit ==
    /\ state = [r \in Requests |-> "Absent"]
    /\ active = {}
    /\ log = <<>>

Admit(r) ==
    /\ state[r] = "Absent"
    /\ state' = [state EXCEPT ![r] = "Queued"]
    /\ UNCHANGED <<active, log>>

Start(r) ==
    /\ state[r] = "Queued"
    /\ active = {}
    /\ state' = [state EXCEPT ![r] = "Running"]
    /\ active' = {r}
    /\ UNCHANGED log

AppendEvent(r) ==
    /\ state[r] = "Running"
    /\ active = {r}
    /\ log' = Append(log, r)
    /\ UNCHANGED <<state, active>>

Finish(r, o) ==
    /\ state[r] = "Running"
    /\ active = {r}
    /\ state' = [state EXCEPT ![r] = o]
    /\ active' = {}
    /\ UNCHANGED log

\* The active job ends, or loses the ledger, without a recorded outcome.
Lose ==
    /\ active' = {}
    /\ UNCHANGED <<state, log>>

\* The state of every job once an owner has been lost.
Abandoned ==
    [r \in Requests |-> IF state[r] \in Unfinished THEN "Uncertain"
                                                   ELSE state[r]]

Recover ==
    /\ active = {}
    /\ state' = Abandoned
    /\ UNCHANGED <<active, log>>

\* A one-shot owner recovers and admits its own request in one go.
RecoverAndAdmit(r) ==
    /\ active = {}
    /\ state[r] = "Absent"
    /\ state' = [Abandoned EXCEPT ![r] = "Queued"]
    /\ UNCHANGED <<active, log>>

JobNext ==
    \/ Recover \/ Lose
    \/ \E r \in Requests :
        \/ Admit(r) \/ Start(r) \/ AppendEvent(r) \/ RecoverAndAdmit(r)
        \/ \E o \in Outcomes : Finish(r, o)

JobSpec == JobInit /\ [][JobNext]_<<state, active, log>>
=============================================================================
