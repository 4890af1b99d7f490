------------------------------ MODULE JobDispatch ------------------------------
(***************************************************************************)
(* The job / dispatch-assignment core: createDispatch, sendDispatch,       *)
(* setAssignmentStatus, the vendor transitions, the single-vendor          *)
(* auto-follow, setJobStatus, markJobReadyToBill and markBillingClosed,    *)
(* each run by a session (one server request in flight) against a          *)
(* PostgreSQL database at READ COMMITTED.                                  *)
(*                                                                         *)
(* Granularity: one step per database statement another request can get   *)
(* between.  A transaction's writes stay in its session record until       *)
(* Commit publishes them; row locks are taken where the code says FOR      *)
(* UPDATE, where an UPDATE takes one and where a foreign key on a job's    *)
(* status takes one, and are held until the end.                           *)
(***************************************************************************)
EXTENDS Integers, FiniteSets, Sequences

CONSTANTS Jobs,            \* job rows
          Assignments,     \* ids of job_vendor_assignments rows
          JobOf,           \* the job an assignment is (to be) created for
          Sessions,        \* concurrent server requests
          PoolSize,        \* connections of the node-postgres pool
          MaxRequests,     \* bound: requests explored in one behaviour
          OperatorTargets, \* statuses the operator's assignment picker tries
          JobTargets,      \* statuses the operator's job picker tries
          OfficeOps,       \* subset of {"ready", "close"} that is explored
          None             \* the database's NULL / no row

JobCodes == {"NEW", "SCHEDULED", "DISPATCHED", "IN_PROGRESS", "PENDING_INVOICE",
             "ON_HOLD", "COMPLETED", "CANCELLED", "CLOSED", "CLOSED_BILLED"}

AsgCodes == {"DRAFT", "SENT", "ACCEPTED", "SCHEDULED", "CONFIRMED", "ON_SITE",
             "WORK_COMPLETE", "DECLINED", "CANCELLED", "GHOSTED"}

\* The requests that write an assignment, and those that write only a job.
AsgOps == {"send", "set", "vendor"}
JobOps == {"jobset", "ready", "close"}

ASSUME DispatchAssumption ==
    /\ JobOf \in [Assignments -> Jobs]
    /\ PoolSize \in Nat /\ MaxRequests \in Nat
    /\ IsFiniteSet(Sessions)
    /\ OperatorTargets \subseteq AsgCodes \ {"DRAFT", "SENT"}
    /\ JobTargets \subseteq JobCodes
    /\ OfficeOps \subseteq {"ready", "close"}
    /\ None \notin Sessions \cup Jobs \cup Assignments
    /\ None \notin JobCodes \cup AsgCodes \cup AsgOps \cup JobOps

VARIABLES jobStatus,  \* committed jobs.current_status_id
          closedAt,   \* committed jobs.closed_at (0 is NULL)
          jobHistory, \* committed job_status_history rows of a job, oldest first
          asgStatus,  \* committed status of an assignment (None: no row)
          sent,       \* whether its sent_at is stamped
          asgHistory, \* its committed status-history rows, oldest first
          dispatched, \* the number of its job.dispatched events
          jobLock,    \* the session that holds the row lock of a job
          asgLock,    \* the session that holds the row lock of an assignment
          statusLock, \* the session that holds a job_statuses row FOR UPDATE
          pc,         \* where each session is
          req,        \* the request it serves
          from,       \* the status it read and means to leave
          jobFrom,    \* the job status it read
          jobTo,      \* the job status it writes at commit (None: no job write)
          requests    \* requests started so far; also the clock of closed_at

jobRows == <<jobStatus, closedAt, jobHistory>>
asgRows == <<asgStatus, sent, asgHistory, dispatched>>
data    == <<jobRows, asgRows>>
locks   == <<jobLock, asgLock, statusLock>>
vars    == <<data, locks, pc, req, from, jobFrom, jobTo, requests>>

-----------------------------------------------------------------------------
(* The status vocabularies and the code's allow-lists over them. *)

Dispatchable    == {"NEW", "SCHEDULED", "DISPATCHED", "IN_PROGRESS", "ON_HOLD"}
AdvanceFrom     == {"NEW", "SCHEDULED"}
ReadyToBillFrom == {"NEW", "SCHEDULED", "DISPATCHED", "IN_PROGRESS", "ON_HOLD"}

\* Not counted by the auto-follow: categories 'cancelled' and 'draft'.
Inactive == {"DRAFT", "DECLINED", "CANCELLED", "GHOSTED"}

\* The one mapping from a dispatch milestone to a job advance.
Milestones == {"ON_SITE", "WORK_COMPLETE"}
\* Mutant: the dispatch status code used where the job's is meant.
FollowToDispatchCode == [m \in Milestones |-> m]
FollowTo   == [m \in Milestones |->
                 IF m = "ON_SITE" THEN "IN_PROGRESS" ELSE "PENDING_INVOICE"]
FollowFrom == [m \in Milestones |->
                 IF m = "ON_SITE" THEN {"NEW", "SCHEDULED", "DISPATCHED"}
                 ELSE {"NEW", "SCHEDULED", "DISPATCHED", "IN_PROGRESS"}]

\* The status a vendor's action requires, by the status it moves to.
VendorTargets == {"ACCEPTED", "DECLINED", "SCHEDULED", "CONFIRMED", "ON_SITE",
                  "WORK_COMPLETE"}
VendorFrom == [t \in VendorTargets |->
                 CASE t \in {"ACCEPTED", "DECLINED"} -> "SENT"
                   [] t = "SCHEDULED"                -> "ACCEPTED"
                   [] t = "CONFIRMED"                -> "SCHEDULED"
                   [] t = "ON_SITE"                  -> "CONFIRMED"
                   [] t = "WORK_COMPLETE"            -> "ON_SITE"]

-----------------------------------------------------------------------------
(* Sessions. *)

InTxnPc == {"lockJob", "lockStatus", "lockAsg", "count", "readJob", "updateJob",
            "shareTo", "shareFrom", "commit"}

Request == [op  : AsgOps \cup JobOps \cup {None},
            asg : Assignments \cup {None},
            job : Jobs \cup {None},
            to  : AsgCodes \cup JobCodes \cup {None}]

NoRequest == [op |-> None, asg |-> None, job |-> None, to |-> None]

InTxn == {s \in Sessions : pc[s] \in InTxnPc}

\* pool.connect() and pool.query() return only while a connection is free.
ConnectionFree == Cardinality(InTxn) < PoolSize

Init ==
    /\ jobStatus  = [j \in Jobs |-> "NEW"]
    /\ closedAt   = [j \in Jobs |-> 0]
    /\ jobHistory = [j \in Jobs |-> <<[from |-> None, to |-> "NEW"]>>]
    /\ asgStatus  = [a \in Assignments |-> None]
    /\ sent       = [a \in Assignments |-> FALSE]
    /\ asgHistory = [a \in Assignments |-> <<>>]
    /\ dispatched = [a \in Assignments |-> 0]
    /\ jobLock    = [j \in Jobs |-> None]
    /\ asgLock    = [a \in Assignments |-> None]
    /\ statusLock = [c \in JobCodes |-> None]
    /\ pc         = [s \in Sessions |-> "idle"]
    /\ req        = [s \in Sessions |-> NoRequest]
    /\ from       = [s \in Sessions |-> None]
    /\ jobFrom    = [s \in Sessions |-> None]
    /\ jobTo      = [s \in Sessions |-> None]
    /\ requests   = 0

-----------------------------------------------------------------------------
(* Requests arrive. *)

\* The insert's foreign key on the job takes a KEY SHARE lock: a FOR UPDATE
\* holder makes it wait, the follow's plain UPDATE does not.
JobTakesForeignKey(j) ==
    \/ jobLock[j] = None
    \/ \E s \in Sessions : jobLock[j] = s /\ req[s].op \in {"set", "vendor"}

CreateDispatch(a) ==
    /\ asgStatus[a] = None
    /\ ConnectionFree
    /\ JobTakesForeignKey(JobOf[a])
    /\ asgStatus' = [asgStatus EXCEPT ![a] = "DRAFT"]
    /\ asgHistory' = [asgHistory EXCEPT ![a] = <<[from |-> None, to |-> "DRAFT"]>>]
    /\ UNCHANGED <<jobRows, sent, dispatched, locks, pc, req, from, jobFrom, jobTo, requests>>

Start(s, op, a, j, to) ==
    /\ pc[s] = "idle"
    /\ requests < MaxRequests
    /\ requests' = requests + 1
    /\ pc' = [pc EXCEPT ![s] = "begin"]
    /\ req' = [req EXCEPT ![s] = [op |-> op, asg |-> a, job |-> j, to |-> to]]
    /\ UNCHANGED <<data, locks, from, jobFrom, jobTo>>

\* The guards before the transaction; both are checked again under the locks.
SendDispatch(s, a) ==
    /\ asgStatus[a] = "DRAFT"
    /\ jobStatus[JobOf[a]] \in Dispatchable
    /\ Start(s, "send", a, JobOf[a], "SENT")

SetAssignmentStatus(s, a, to) ==
    /\ asgStatus[a] # None
    /\ to \notin {"DRAFT", "SENT"}
    /\ Start(s, "set", a, JobOf[a], to)

PerformTransition(s, a, to) ==
    /\ asgStatus[a] # None
    /\ Start(s, "vendor", a, JobOf[a], to)

SetJobStatus(s, j, to)   == Start(s, "jobset", None, j, to)
MarkJobReadyToBill(s, j) == Start(s, "ready", None, j, "PENDING_INVOICE")
MarkBillingClosed(s, j)  == Start(s, "close", None, j, "CLOSED_BILLED")

-----------------------------------------------------------------------------
(* The steps of a transaction. *)

Goto(s, label)   == pc' = [pc EXCEPT ![s] = label]
Remember(s, cur) == jobFrom' = [jobFrom EXCEPT ![s] = cur]

\* COMMIT and ROLLBACK free every row lock of the transaction and its connection.
Release(s) ==
    /\ jobLock' = [j \in Jobs |-> IF jobLock[j] = s THEN None ELSE jobLock[j]]
    /\ asgLock' = [a \in Assignments |-> IF asgLock[a] = s THEN None ELSE asgLock[a]]
    /\ statusLock' = [c \in JobCodes |-> IF statusLock[c] = s THEN None ELSE statusLock[c]]
    /\ Goto(s, "idle")
    /\ req' = [req EXCEPT ![s] = NoRequest]
    /\ from' = [from EXCEPT ![s] = None]
    /\ jobFrom' = [jobFrom EXCEPT ![s] = None]
    /\ jobTo' = [jobTo EXCEPT ![s] = None]

\* A throw inside db.transaction, or a return before any write.
Leave(s) == Release(s) /\ UNCHANGED <<data, requests>>

\* setJobStatus and markJobReadyToBill lock jobs JOIN job_statuses: the join is
\* evaluated on the statement's snapshot, remembered in `from`.
Begin(s) ==
    /\ pc[s] = "begin"
    /\ ConnectionFree
    /\ Goto(s, IF req[s].op \in {"set", "vendor"} THEN "lockAsg" ELSE "lockJob")
    /\ from' = [from EXCEPT ![s] = IF req[s].op \in {"jobset", "ready"}
                                   THEN jobStatus[req[s].job] ELSE None]
    /\ UNCHANGED <<data, locks, req, jobFrom, jobTo, requests>>

\* Mutant: the job is selected without FOR UPDATE.
AtJobNoLock(s, op) == pc[s] = "lockJob" /\ req[s].op = op

AtJobLock(s, op) ==
    /\ pc[s] = "lockJob"
    /\ req[s].op = op
    /\ jobLock[req[s].job] = None

TakeJob(s) ==
    /\ jobLock' = [jobLock EXCEPT ![req[s].job] = s]
    /\ UNCHANGED <<data, asgLock, statusLock, req, from, requests>>

\* sendDispatch, step 1: the parent row first.
SendLocksJob(s) ==
    /\ AtJobLock(s, "send")
    /\ TakeJob(s)
    /\ Goto(s, "lockAsg")
    /\ Remember(s, jobStatus[req[s].job])
    /\ UNCHANGED jobTo

\* FOR UPDATE of the join locks the job's row, then the row of the status the
\* snapshot joined to it, and only then looks at the job again.
SelectLocksJob(s) ==
    /\ \E op \in {"jobset", "ready"} : AtJobLock(s, op)
    /\ TakeJob(s)
    /\ Goto(s, "lockStatus")
    /\ UNCHANGED <<jobFrom, jobTo>>

\* Whoever has written a job's move has, by the foreign keys of jobs and of
\* job_status_history, KEY SHARE locks on the status it reaches and on the one it
\* leaves.  They go together with each other but not with FOR UPDATE.
Shares(s, c) ==
    /\ jobTo[s] # None
    /\ \/ pc[s] = "shareFrom" /\ c = jobTo[s]
       \/ pc[s] = "commit" /\ c \in {jobTo[s], jobFrom[s]}

AtStatusLock(s, op) ==
    /\ pc[s] = "lockStatus"
    /\ req[s].op = op
    /\ statusLock[from[s]] = None
    /\ \A t \in Sessions : ~Shares(t, from[s])

TakeStatus(s) ==
    /\ statusLock' = [statusLock EXCEPT ![from[s]] = s]
    /\ UNCHANGED <<data, jobLock, asgLock, req, from, requests>>

\* When the status moved between the snapshot and the locks, the re-evaluated
\* join finds no row: JOB_NOT_FOUND.  The same status is a no-op.  Otherwise the
\* job, locked already, is updated.
JobSetLocksStatus(s) ==
    LET cur == jobStatus[req[s].job] IN
    /\ AtStatusLock(s, "jobset")
    /\ \/ /\ cur # from[s] \/ cur = req[s].to
          /\ Leave(s)
       \/ /\ cur = from[s] /\ cur # req[s].to
          /\ TakeStatus(s)
          /\ Goto(s, "shareTo")
          /\ Remember(s, cur)
          /\ jobTo' = [jobTo EXCEPT ![s] = req[s].to]

ReadyLocksStatus(s) ==
    LET cur == jobStatus[req[s].job] IN
    /\ AtStatusLock(s, "ready")
    /\ \/ /\ cur # from[s] \/ cur \notin ReadyToBillFrom
          /\ Leave(s)
       \/ /\ cur = from[s] /\ cur \in ReadyToBillFrom
          /\ TakeStatus(s)
          /\ Goto(s, "readJob")
          /\ UNCHANGED <<jobFrom, jobTo>>

CloseLocksJob(s) ==
    /\ AtJobLock(s, "close")
    /\ \/ /\ jobStatus[req[s].job] = "CLOSED_BILLED"
          /\ Leave(s)
       \/ /\ jobStatus[req[s].job] # "CLOSED_BILLED"
          /\ TakeJob(s)
          /\ Goto(s, "readJob")
          /\ UNCHANGED <<jobFrom, jobTo>>

\* Mutant: the assignment is selected without FOR UPDATE.
AtAsgNoLock(s, op) == pc[s] = "lockAsg" /\ req[s].op = op

AtAsgLock(s, op) ==
    /\ pc[s] = "lockAsg"
    /\ req[s].op = op
    /\ asgLock[req[s].asg] = None

\* SELECT ... FOR UPDATE of the assignment, then its UPDATE and history row.
TakeAsg(s, cur) ==
    /\ asgLock' = [asgLock EXCEPT ![req[s].asg] = s]
    /\ from' = [from EXCEPT ![s] = cur]
    /\ UNCHANGED <<data, jobLock, statusLock, req, jobFrom, jobTo, requests>>

\* Mutants: no second look at the assignment, none at the job.
SendTrustsDraft(s) ==
    /\ AtAsgLock(s, "send")
    /\ IF jobFrom[s] \in Dispatchable THEN TakeAsg(s, "DRAFT") /\ Goto(s, "readJob")
       ELSE Leave(s)

SendTrustsJob(s) ==
    /\ AtAsgLock(s, "send")
    /\ IF asgStatus[req[s].asg] = "DRAFT" THEN TakeAsg(s, "DRAFT") /\ Goto(s, "readJob")
       ELSE Leave(s)

\* sendDispatch, steps 2 to 7: both re-checks, then the assignment's writes.
SendLocksAsg(s) ==
    LET ok == asgStatus[req[s].asg] = "DRAFT" /\ jobFrom[s] \in Dispatchable IN
    /\ AtAsgLock(s, "send")
    /\ \/ ~ok /\ Leave(s)
       \/ ok /\ TakeAsg(s, "DRAFT") /\ Goto(s, "readJob")

AfterAsgWrite(to) == IF to \in Milestones THEN "count" ELSE "commit"

\* setAssignmentStatus: free movement, the same status is a no-op.
SetLocksAsg(s) ==
    LET cur == asgStatus[req[s].asg] IN
    /\ AtAsgLock(s, "set")
    /\ \/ cur = req[s].to /\ Leave(s)
       \/ cur # req[s].to /\ TakeAsg(s, cur) /\ Goto(s, AfterAsgWrite(req[s].to))

\* Mutant: tries again until the status is the one the action requires.
VendorRetries(s) ==
    LET cur == asgStatus[req[s].asg] IN
    /\ AtAsgLock(s, "vendor")
    /\ \/ /\ cur # VendorFrom[req[s].to]
          /\ Goto(s, "begin")
          /\ UNCHANGED <<data, locks, req, from, jobFrom, jobTo, requests>>
       \/ /\ cur = VendorFrom[req[s].to]
          /\ TakeAsg(s, cur)
          /\ Goto(s, AfterAsgWrite(req[s].to))

\* performTransition: the status must be the one the action requires.
VendorLocksAsg(s) ==
    LET cur == asgStatus[req[s].asg] IN
    /\ AtAsgLock(s, "vendor")
    /\ \/ cur # VendorFrom[req[s].to] /\ Leave(s)
       \/ /\ cur = VendorFrom[req[s].to]
          /\ TakeAsg(s, cur)
          /\ Goto(s, AfterAsgWrite(req[s].to))

\* The count sees committed rows and the transaction's own write.
ActiveSeenBy(s) ==
    {b \in Assignments :
        /\ JobOf[b] = req[s].job
        /\ LET st == IF b = req[s].asg THEN req[s].to ELSE asgStatus[b]
           IN  st # None /\ st \notin Inactive}

\* Mutant: follows however many dispatches are active.
CountAny(s) ==
    /\ pc[s] = "count"
    /\ Goto(s, "readJob")
    /\ UNCHANGED <<data, locks, req, from, jobFrom, jobTo, requests>>

\* applyDispatchJobFollow: only a job with exactly one active dispatch follows.
CountActive(s) ==
    /\ pc[s] = "count"
    /\ Goto(s, IF Cardinality(ActiveSeenBy(s)) = 1 THEN "readJob" ELSE "commit")
    /\ UNCHANGED <<data, locks, req, from, jobFrom, jobTo, requests>>

AdvanceTo(r) ==
    CASE r.op = "send"              -> "DISPATCHED"
      [] r.op \in {"set", "vendor"} -> FollowTo[r.to]
      [] OTHER                      -> r.to

\* Mutant: the send advances the job from any status.
FromAnyCode(r) == IF r.op \in {"set", "vendor"} THEN FollowFrom[r.to] ELSE JobCodes

FromCodes(r) ==
    CASE r.op = "send"              -> AdvanceFrom
      [] r.op \in {"set", "vendor"} -> FollowFrom[r.to]
      [] OTHER                      -> JobCodes

\* advanceJobStatus up to its guard.  The status lookup goes through the pool,
\* not the transaction: it needs a second connection.  The read takes no lock.
ReadJob(s) ==
    LET cur == jobStatus[req[s].job] IN
    /\ pc[s] = "readJob"
    /\ ConnectionFree
    /\ \/ /\ cur \in FromCodes(req[s])
          /\ Goto(s, "updateJob")
          /\ Remember(s, cur)
          /\ jobTo' = [jobTo EXCEPT ![s] = AdvanceTo(req[s])]
       \/ /\ cur \notin FromCodes(req[s])
          /\ Goto(s, "commit")
          /\ UNCHANGED <<jobFrom, jobTo>>
    /\ UNCHANGED <<data, locks, req, from, requests>>

\* UPDATE jobs ... WHERE id = ...: waits for the row, then overwrites.
UpdateJob(s) ==
    /\ pc[s] = "updateJob"
    /\ jobLock[req[s].job] \in {None, s}
    /\ TakeJob(s)
    /\ Goto(s, "shareTo")
    /\ UNCHANGED <<jobFrom, jobTo>>

\* The foreign key of the updated job: a KEY SHARE lock on the status it reaches.
ShareTo(s) ==
    /\ pc[s] = "shareTo"
    /\ statusLock[jobTo[s]] \in {None, s}
    /\ Goto(s, "shareFrom")
    /\ UNCHANGED <<data, locks, req, from, jobFrom, jobTo, requests>>

\* Those of the history row: one on the status left as well.
ShareFrom(s) ==
    /\ pc[s] = "shareFrom"
    /\ statusLock[jobFrom[s]] \in {None, s}
    /\ Goto(s, "commit")
    /\ UNCHANGED <<data, locks, req, from, jobFrom, jobTo, requests>>

WriteAssignment(s) ==
    LET a == req[s].asg  sends == req[s].op = "send" IN
    /\ asgStatus' = [asgStatus EXCEPT ![a] = req[s].to]
    /\ sent' = [sent EXCEPT ![a] = @ \/ sends]
    /\ asgHistory' = [asgHistory EXCEPT ![a] = Append(@, [from |-> from[s], to |-> req[s].to])]
    /\ dispatched' = [dispatched EXCEPT ![a] = @ + IF sends THEN 1 ELSE 0]

\* Mutant: closed_at is the last close.
ClosedAtLast(r) == IF r.op = "close" THEN requests ELSE closedAt[r.job]

\* closed_at is first-close-wins, and only the billing close sets it.
ClosedAt(r) ==
    IF r.op = "close" /\ closedAt[r.job] = 0 THEN requests ELSE closedAt[r.job]

WriteJob(s) ==
    LET j == req[s].job IN
    /\ jobStatus' = [jobStatus EXCEPT ![j] = jobTo[s]]
    /\ closedAt' = [closedAt EXCEPT ![j] = ClosedAt(req[s])]
    /\ jobHistory' = [jobHistory EXCEPT ![j] = Append(@, [from |-> jobFrom[s], to |-> jobTo[s]])]

Commit(s) ==
    /\ pc[s] = "commit"
    /\ IF req[s].op \in AsgOps THEN WriteAssignment(s) ELSE UNCHANGED asgRows
    /\ IF jobTo[s] # None THEN WriteJob(s) ELSE UNCHANGED jobRows
    /\ Release(s)
    /\ UNCHANGED requests

-----------------------------------------------------------------------------
(* Failures: a deadlock makes Postgres cancel one of its members; a lost    *)
(* connection or a crashed process rolls its transaction back.              *)

WaitsForRow(s, t) ==
    \/ pc[s] \in {"lockJob", "updateJob"} /\ jobLock[req[s].job] = t
    \/ pc[s] = "lockAsg" /\ asgLock[req[s].asg] = t

WaitsForStatus(s, t) ==
    \/ pc[s] = "lockStatus" /\ (statusLock[from[s]] = t \/ Shares(t, from[s]))
    \/ pc[s] = "shareTo" /\ statusLock[jobTo[s]] = t
    \/ pc[s] = "shareFrom" /\ statusLock[jobFrom[s]] = t

WaitsFor(s, t) == s # t /\ (WaitsForRow(s, t) \/ WaitsForStatus(s, t))

\* A circle of waits of any length, from s back to s.
DeadlockVictim(s) ==
    /\ \E n \in 1..Cardinality(Sessions) : \E c \in [0..n -> Sessions] :
          c[0] = s /\ c[n] = s /\ \A i \in 0..(n - 1) : WaitsFor(c[i], c[i + 1])
    /\ Leave(s)

ConnectionLost(s) == pc[s] \in InTxnPc /\ Leave(s)

-----------------------------------------------------------------------------
Arrive(s) ==
    \/ \E a \in Assignments : SendDispatch(s, a)
    \/ \E a \in Assignments, to \in OperatorTargets : SetAssignmentStatus(s, a, to)
    \/ \E a \in Assignments, to \in VendorTargets : PerformTransition(s, a, to)
    \/ \E j \in Jobs, to \in JobTargets : SetJobStatus(s, j, to)
    \/ "ready" \in OfficeOps /\ \E j \in Jobs : MarkJobReadyToBill(s, j)
    \/ "close" \in OfficeOps /\ \E j \in Jobs : MarkBillingClosed(s, j)

Step(s) ==
    \/ Begin(s)
    \/ SendLocksJob(s) \/ SelectLocksJob(s) \/ CloseLocksJob(s)
    \/ JobSetLocksStatus(s) \/ ReadyLocksStatus(s)
    \/ SendLocksAsg(s) \/ SetLocksAsg(s) \/ VendorLocksAsg(s)
    \/ CountActive(s) \/ ReadJob(s) \/ UpdateJob(s) \/ ShareTo(s) \/ ShareFrom(s) \/ Commit(s)
    \/ DeadlockVictim(s)

Next ==
    \/ \E a \in Assignments : CreateDispatch(a)
    \/ \E s \in Sessions : Arrive(s) \/ Step(s) \/ ConnectionLost(s)

Spec == Init /\ [][Next]_vars

\* A request that was accepted keeps running: the Node event loop and Postgres
\* take every step that stays possible.  Nothing obliges a user to send one.
FairSpec == Spec /\ \A s \in Sessions : WF_vars(Step(s))
-----------------------------------------------------------------------------
(* Properties. *)

RowTypes ==
    /\ jobStatus \in [Jobs -> JobCodes]
    /\ closedAt \in [Jobs -> Nat]
    /\ jobHistory \in [Jobs -> Seq([from : JobCodes \cup {None}, to : JobCodes])]
    /\ asgStatus \in [Assignments -> AsgCodes \cup {None}]
    /\ sent \in [Assignments -> BOOLEAN]
    /\ asgHistory \in [Assignments -> Seq([from : AsgCodes \cup {None}, to : AsgCodes])]
    /\ dispatched \in [Assignments -> Nat]

LockTypes ==
    /\ jobLock \in [Jobs -> Sessions \cup {None}]
    /\ asgLock \in [Assignments -> Sessions \cup {None}]
    /\ statusLock \in [JobCodes -> Sessions \cup {None}]

SessionTypes ==
    /\ pc \in [Sessions -> {"idle", "begin"} \cup InTxnPc]
    /\ req \in [Sessions -> Request]
    /\ from \in [Sessions -> AsgCodes \cup JobCodes \cup {None}]
    /\ jobFrom \in [Sessions -> JobCodes \cup {None}]
    /\ jobTo \in [Sessions -> JobCodes \cup {None}]
    /\ requests \in Nat

TypeOK == RowTypes /\ LockTypes /\ SessionTypes

\* Two senders, an operator's move and a vendor's click may race for one draft:
\* it is sent to the vendor at most once, sent_at is stamped by that send and
\* only by it, and a row that reads DRAFT was never sent while one that reads
\* SENT was (dispatch.ts: the re-check under the assignment lock).
SentAtMostOnce ==
    \A a \in Assignments :
        /\ dispatched[a] = (IF sent[a] THEN 1 ELSE 0)
        /\ asgStatus[a] \in {None, "DRAFT"} => ~sent[a]
        /\ asgStatus[a] = "SENT" => sent[a]

\* The assignment's history is an unbroken account of its life whatever the
\* interleaving: it starts NULL -> DRAFT, each row leaves the status the row
\* before it reached, and the last row reached the current status.
AssignmentHistoryChain ==
    \A a \in Assignments :
        LET h == asgHistory[a] IN
        /\ asgStatus[a] = IF h = <<>> THEN None ELSE h[Len(h)].to
        /\ \A i \in DOMAIN h : h[i].from = IF i = 1 THEN None ELSE h[i - 1].to

\* The writers that hold the job row from their first read to their commit
\* (send, manual set, ready-to-bill, billing close) overwrite exactly the
\* status they checked and recorded; the auto-follow is not one of them.
LockedWritersOverwriteWhatTheyRead ==
    \A s \in Sessions :
        pc[s] = "commit" /\ req[s].op \in {"send"} \cup JobOps /\ jobTo[s] # None
            => jobFrom[s] = jobStatus[req[s].job]

\* job-status.ts: the fromCodes guard "makes a concurrent race a no-op (it
\* never regresses)", and a job on hold "is never auto-advanced": an
\* auto-follow about to commit finds the job in a status it may leave.
FollowNeverRegresses ==
    \A s \in Sessions :
        pc[s] = "commit" /\ req[s].op \in {"set", "vendor"} /\ jobTo[s] # None
            => jobStatus[req[s].job] \in FollowFrom[req[s].to]

\* job-status.ts: a status is advanced "in the caller's transaction".  A
\* transaction that can still get its rows can then go on: it never waits for
\* a connection that only the transactions waiting like it could give back.
NoPoolStarvation ==
    ~( /\ InTxn # {}
       /\ Cardinality(InTxn) >= PoolSize
       /\ \A s \in InTxn :
            \/ pc[s] = "readJob"
            \/ \E t \in InTxn : WaitsFor(s, t) )

\* close.ts: closed_at is first-close-wins: reopening, closing again and every
\* other job write keep the first close's time.
FirstCloseWins ==
    [][\A j \in Jobs : closedAt[j] # 0 => closedAt'[j] = closedAt[j]]_vars

\* dispatch.ts: a send commits only while its job is dispatchable, however the
\* job moved after the guards; it takes a NEW or SCHEDULED job to DISPATCHED
\* and leaves every other status alone (ON_HOLD stays on hold).
SendRespectsJob ==
    [][\A a \in Assignments :
         ~sent[a] /\ sent'[a] =>
            LET old == jobStatus[JobOf[a]]  new == jobStatus'[JobOf[a]] IN
            /\ old \in Dispatchable
            /\ new = IF old \in AdvanceFrom THEN "DISPATCHED" ELSE old]_vars

\* Every accepted request comes to an end: row locks, deadlocks and the pool
\* never hold one forever (the pool being larger than the number of requests
\* in flight).
RequestsFinish ==
    \A s \in Sessions : pc[s] # "idle" ~> pc[s] = "idle"

\* The concurrent program implements the serial contract.
Contract == INSTANCE DispatchContract WITH
                status <- asgStatus,
                sends  <- dispatched,
                job    <- jobStatus
ImplementsContract == Contract!Spec
=============================================================================
