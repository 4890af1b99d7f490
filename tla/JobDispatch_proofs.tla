--------------------------- MODULE JobDispatch_proofs ---------------------------
(***************************************************************************)
(* Proofs about JobDispatch, for any jobs, assignments, sessions, pool     *)
(* size and number of requests.                                            *)
(*                                                                         *)
(* The argument: every session's state has the shape its program counter   *)
(* says (Shape); the rows it works on are locked by it (Holds); so what it *)
(* read of them is still true (Current).  The properties follow.           *)
(* Two more invariants rest on it: nobody holds a row he has no use for    *)
(* (LocksHaveUse), whence who can wait for whom; and with vendors          *)
(* alone only one request follows on a job (FollowInv), which stands in    *)
(* for the lock the auto-follow does not take before it reads.             *)
(***************************************************************************)
EXTENDS JobDispatch, FiniteSetTheorems, TLAPS

-----------------------------------------------------------------------------
(* The inductive invariant. *)

AsgLocked == {"count", "readJob", "updateJob", "shareTo", "shareFrom", "commit"}

\* Where the job has been updated.
Written == {"shareTo", "shareFrom", "commit"}

\* What a request may be.
ShapeReq(r) ==
    /\ r.op \in AsgOps => /\ r.asg \in Assignments /\ r.job = JobOf[r.asg]
                          /\ r.to \in AsgCodes \ {"DRAFT"}
    /\ r.op = "send" => r.to = "SENT"
    /\ r.op \in {"set", "vendor"} => r.to # "SENT"
    /\ r.op = "vendor" => r.to \in VendorTargets
    /\ r.op \in JobOps => r.job \in Jobs /\ r.to \in JobCodes

\* Where a request may be, and what it carries there.
Shape(s) ==
    LET r == req[s] IN
    /\ ShapeReq(r)
    /\ pc[s] = "idle" <=> r.op = None
    /\ pc[s] \in {"lockAsg", "count"} => r.op \in AsgOps
    /\ pc[s] = "lockJob" => r.op \in {"send"} \cup JobOps
    /\ pc[s] = "lockStatus" => r.op \in {"jobset", "ready"}
    /\ r.op \in {"jobset", "ready"} /\ pc[s] # "begin" => from[s] \in JobCodes
    /\ pc[s] = "count" => r.op # "send"
    /\ pc[s] \in {"count", "readJob", "updateJob"} /\ r.op \in {"set", "vendor"}
            => r.to \in Milestones
    /\ pc[s] \notin {"updateJob"} \cup Written => jobTo[s] = None
    /\ pc[s] \in {"updateJob", "shareTo", "shareFrom"} => jobTo[s] # None
    /\ jobTo[s] # None => jobFrom[s] \in FromCodes(r) /\ jobTo[s] = AdvanceTo(r)
    /\ jobTo[s] # None /\ r.op \in {"set", "vendor"} => r.to \in Milestones
    /\ r.op \in AsgOps /\ pc[s] \in AsgLocked => from[s] \in AsgCodes
    /\ r.op = "send" /\ pc[s] \in AsgLocked => from[s] = "DRAFT"
    /\ r.op \in {"set", "vendor"} /\ pc[s] \in AsgLocked => from[s] # r.to

\* The rows a session has locked.
Holds(s) ==
    LET r == req[s] IN
    /\ r.op \in AsgOps /\ pc[s] \in AsgLocked => asgLock[r.asg] = s
    /\ r.op = "send" /\ pc[s] \in {"lockAsg"} \cup AsgLocked => jobLock[r.job] = s
    /\ r.op \in JobOps /\ pc[s] \in {"lockStatus"} \cup AsgLocked => jobLock[r.job] = s
    /\ pc[s] \in Written /\ jobTo[s] # None => jobLock[r.job] = s

\* What a session has read under its locks still holds.
Current(s) ==
    LET r == req[s] IN
    /\ r.op \in AsgOps => asgStatus[r.asg] # None
    /\ r.op \in AsgOps /\ pc[s] \in AsgLocked => from[s] = asgStatus[r.asg]
    /\ r.op = "send" /\ pc[s] = "lockAsg" => jobFrom[s] = jobStatus[r.job]
    /\ r.op = "send" /\ pc[s] \in AsgLocked => jobStatus[r.job] \in Dispatchable
    /\ r.op = "send" /\ pc[s] = "commit" /\ jobTo[s] = None
            => jobStatus[r.job] \notin AdvanceFrom
    /\ r.op \in {"send"} \cup JobOps /\ jobTo[s] # None => jobFrom[s] = jobStatus[r.job]

ShapeOK == \A s \in Sessions : Shape(s)
LocksOK == \A s \in Sessions : Holds(s)
ReadsOK == \A s \in Sessions : Current(s)
IInv    == TypeOK /\ ShapeOK /\ LocksOK /\ ReadsOK /\ SentAtMostOnce /\ AssignmentHistoryChain

-----------------------------------------------------------------------------
(* Initial states. *)

LEMMA InitIInv == Init => IInv
<1>. SUFFICES ASSUME Init PROVE IInv
  OBVIOUS
<1>. USE DispatchAssumption DEF Init
<1>1. TypeOK
  <2>1. jobHistory \in [Jobs -> Seq([from : JobCodes \cup {None}, to : JobCodes])]
    BY DEF JobCodes
  <2>2. asgHistory \in [Assignments -> Seq([from : AsgCodes \cup {None}, to : AsgCodes])]
    OBVIOUS
  <2>. QED BY <2>1, <2>2 DEF TypeOK, RowTypes, LockTypes, SessionTypes, InTxnPc, JobCodes, NoRequest, Request
<1>2. ShapeOK
  BY DEF ShapeOK, Shape, ShapeReq, NoRequest, AsgOps, JobOps, AsgLocked, Written
<1>3. LocksOK /\ ReadsOK
  BY DEF LocksOK, ReadsOK, Holds, Current, NoRequest, AsgOps, JobOps, AsgLocked, Written
<1>4. SentAtMostOnce
  BY DEF SentAtMostOnce, AsgCodes
<1>5. AssignmentHistoryChain
  BY DEF AssignmentHistoryChain
<1>. QED BY <1>1, <1>2, <1>3, <1>4, <1>5 DEF IInv

-----------------------------------------------------------------------------
(* Types. *)

\* A history table stays one when a row is appended.
LEMMA AppendRow ==
    ASSUME NEW T, NEW Row, NEW h \in [T -> Seq(Row)], NEW t \in T, NEW row \in Row
    PROVE  [h EXCEPT ![t] = Append(h[t], row)] \in [T -> Seq(Row)]
<1>1. Append(h[t], row) \in Seq(Row)
  OBVIOUS
<1>. QED BY <1>1

\* Only a commit and createDispatch write rows; the rest keeps their types.
LEMMA SameRows ==
    ASSUME RowTypes, UNCHANGED data
    PROVE  RowTypes'
  BY DEF RowTypes, data, jobRows, asgRows

LEMMA ReleaseType ==
    ASSUME TypeOK, NEW s \in Sessions, Release(s)
    PROVE  LockTypes' /\ (requests' = requests => SessionTypes')
  BY DEF TypeOK, LockTypes, SessionTypes, Release, Goto, NoRequest, Request

LEMMA LeaveType ==
    ASSUME TypeOK, NEW s \in Sessions, Leave(s)
    PROVE  TypeOK'
  BY SameRows, ReleaseType DEF TypeOK, Leave

\* A session that serves a request has its job, and its assignment if any.
LEMMA RequestRows ==
    ASSUME NEW s \in Sessions, Shape(s), pc[s] # "idle", SessionTypes
    PROVE  /\ req[s].job \in Jobs
           /\ req[s].op \in AsgOps \cup JobOps
           /\ req[s].op \in AsgOps => req[s].asg \in Assignments
  BY DispatchAssumption DEF Shape, ShapeReq, SessionTypes, Request, AsgOps, JobOps

\* A member of a circle waits.
LEMMA VictimWaits ==
    ASSUME NEW s \in Sessions, DeadlockVictim(s)
    PROVE  \E t \in Sessions : WaitsFor(s, t)
<1>1. PICK n \in 1..Cardinality(Sessions) : \E c \in [0..n -> Sessions] :
         c[0] = s /\ c[n] = s /\ \A i \in 0..(n - 1) : WaitsFor(c[i], c[i + 1])
  BY DEF DeadlockVictim
<1>2. PICK c \in [0..n -> Sessions] :
         c[0] = s /\ \A i \in 0..(n - 1) : WaitsFor(c[i], c[i + 1])
  BY <1>1
<1>3. n \in Int /\ n >= 1
  OBVIOUS
<1>4. 0 \in 0..(n - 1) /\ 1 \in 0..n /\ 0 + 1 = 1
  BY <1>3
<1>5. WaitsFor(c[0], c[1]) /\ c[1] \in Sessions
  BY <1>2, <1>4
<1>. QED BY <1>2, <1>5

\* An idle session takes no step.
LEMMA StepsAreOfRequests ==
    ASSUME NEW s \in Sessions, Step(s)
    PROVE  pc[s] # "idle"
<1>1. DeadlockVictim(s) => pc[s] # "idle"
  BY VictimWaits DEF WaitsFor, WaitsForRow, WaitsForStatus
<1>. QED BY <1>1 DEF Step, Begin, SendLocksJob, SelectLocksJob, JobSetLocksStatus, ReadyLocksStatus,
                     CloseLocksJob, AtJobLock, AtStatusLock, SendLocksAsg, SetLocksAsg,
                     VendorLocksAsg, AtAsgLock, CountActive, ReadJob, UpdateJob, ShareTo,
                     ShareFrom, Commit

LEMMA StepType ==
    ASSUME TypeOK, ShapeOK, [Next]_vars
    PROVE  TypeOK'
<1>. USE DispatchAssumption
<1>. USE DEF TypeOK
<1>1. ASSUME NEW a \in Assignments, CreateDispatch(a) PROVE TypeOK'
  <2>1. <<[from |-> None, to |-> "DRAFT"]>> \in Seq([from : AsgCodes \cup {None}, to : AsgCodes])
    BY DEF AsgCodes
  <2>2. RowTypes'
    BY <1>1, <2>1 DEF CreateDispatch, RowTypes, jobRows, AsgCodes
  <2>. QED BY <1>1, <2>2 DEF CreateDispatch, LockTypes, SessionTypes, locks
<1>2. ASSUME NEW s \in Sessions, Arrive(s) PROVE TypeOK'
  <2>1. ASSUME NEW op \in AsgOps \cup JobOps, NEW a \in Assignments \cup {None}, NEW j \in Jobs,
               NEW to \in AsgCodes \cup JobCodes, Start(s, op, a, j, to)
        PROVE  TypeOK'
    <3>1. [op |-> op, asg |-> a, job |-> j, to |-> to] \in Request
      BY DEF Request
    <3>2. SessionTypes'
      BY <2>1, <3>1 DEF Start, SessionTypes
    <3>. QED BY <2>1, <3>2, SameRows DEF Start, LockTypes, locks
  <2>2. CASE \E a \in Assignments : SendDispatch(s, a)
    BY <2>1, <2>2 DEF SendDispatch, AsgOps, AsgCodes
  <2>3. CASE \E a \in Assignments, to \in OperatorTargets : SetAssignmentStatus(s, a, to)
    BY <2>1, <2>3 DEF SetAssignmentStatus, AsgOps
  <2>4. CASE \E a \in Assignments, to \in VendorTargets : PerformTransition(s, a, to)
    BY <2>1, <2>4 DEF PerformTransition, AsgOps, VendorTargets, AsgCodes
  <2>5. CASE \E j \in Jobs, to \in JobTargets : SetJobStatus(s, j, to)
    BY <2>1, <2>5 DEF SetJobStatus, JobOps
  <2>6. CASE \E j \in Jobs : MarkJobReadyToBill(s, j)
    BY <2>1, <2>6 DEF MarkJobReadyToBill, JobOps, JobCodes
  <2>7. CASE \E j \in Jobs : MarkBillingClosed(s, j)
    BY <2>1, <2>7 DEF MarkBillingClosed, JobOps, JobCodes
  <2>. QED BY <1>2, <2>2, <2>3, <2>4, <2>5, <2>6, <2>7 DEF Arrive
<1>3. ASSUME NEW s \in Sessions, Step(s), pc[s] # "idle" PROVE TypeOK'
  <2>1. /\ Shape(s) /\ req[s].job \in Jobs
        /\ req[s].op \in AsgOps => req[s].asg \in Assignments
        /\ jobStatus[req[s].job] \in JobCodes
        /\ req[s].op \in AsgOps => asgStatus[req[s].asg] \in AsgCodes \cup {None}
    BY <1>3, RequestRows DEF ShapeOK, RowTypes
  <2>2. TakeJob(s) => RowTypes' /\ LockTypes'
    BY <2>1, SameRows DEF TakeJob, LockTypes
  <2>3. ASSUME NEW cur \in AsgCodes \cup {None}, TakeAsg(s, cur), req[s].op \in AsgOps
        PROVE  /\ RowTypes' /\ LockTypes'
               /\ pc' \in [Sessions -> {"idle", "begin"} \cup InTxnPc] => SessionTypes'
    BY <2>1, <2>3, SameRows DEF TakeAsg, LockTypes, SessionTypes
  <2>4. CASE Begin(s)
    <3>1. SessionTypes'
      BY <2>1, <2>4 DEF Begin, SessionTypes, Goto, InTxnPc
    <3>. QED BY <2>4, <3>1, SameRows DEF Begin, LockTypes, locks
  <2>5. CASE SendLocksJob(s)
    <3>1. SessionTypes'
      BY <2>1, <2>5 DEF SendLocksJob, TakeJob, SessionTypes, Goto, Remember, InTxnPc
    <3>. QED BY <2>2, <2>5, <3>1 DEF SendLocksJob
  <2>6. CASE SelectLocksJob(s)
    <3>1. SessionTypes'
      BY <2>6 DEF SelectLocksJob, TakeJob, SessionTypes, Goto, InTxnPc
    <3>. QED BY <2>2, <2>6, <3>1 DEF SelectLocksJob
  <2>7. CASE JobSetLocksStatus(s) \/ ReadyLocksStatus(s)
    <3>1. req[s].to \in JobCodes
      BY <2>1, <2>7 DEF JobSetLocksStatus, ReadyLocksStatus, AtStatusLock, Shape, ShapeReq, JobOps
    <3>2. ~Leave(s) => SessionTypes'
      BY <2>1, <2>7, <3>1 DEF JobSetLocksStatus, ReadyLocksStatus, TakeStatus, SessionTypes, Goto,
                              Remember, InTxnPc
    <3>3. ASSUME TakeStatus(s) PROVE RowTypes' /\ LockTypes'
      <4>1. UNCHANGED data
        BY <3>3 DEF TakeStatus
      <4>2. LockTypes'
        BY <3>3 DEF TakeStatus, LockTypes
      <4>. QED BY <4>1, <4>2, SameRows
    <3>. QED BY <2>7, <3>2, <3>3, LeaveType DEF JobSetLocksStatus, ReadyLocksStatus
  <2>8. CASE CloseLocksJob(s)
    <3>1. ~Leave(s) => SessionTypes'
      BY <2>8 DEF CloseLocksJob, TakeJob, SessionTypes, Goto, InTxnPc
    <3>. QED BY <2>2, <2>8, <3>1, LeaveType DEF CloseLocksJob
  <2>9. ASSUME NEW label \in InTxnPc, Goto(s, label)
        PROVE  pc' \in [Sessions -> {"idle", "begin"} \cup InTxnPc]
    BY <2>9 DEF Goto, SessionTypes
  <2>10. CASE SendLocksAsg(s)
    BY <2>3, <2>9, <2>10, LeaveType DEF SendLocksAsg, AtAsgLock, AsgOps, AsgCodes, InTxnPc
  <2>11. CASE SetLocksAsg(s)
    BY <2>1, <2>3, <2>9, <2>11, LeaveType
       DEF SetLocksAsg, AtAsgLock, AfterAsgWrite, AsgOps, InTxnPc
  <2>12. CASE VendorLocksAsg(s)
    BY <2>1, <2>3, <2>9, <2>12, LeaveType
       DEF VendorLocksAsg, AtAsgLock, AfterAsgWrite, AsgOps, InTxnPc
  <2>13. CASE CountActive(s)
    <3>1. SessionTypes'
      BY <2>13 DEF CountActive, SessionTypes, Goto, InTxnPc
    <3>. QED BY <2>13, <3>1, SameRows DEF CountActive, LockTypes, locks
  <2>14. CASE ReadJob(s)
    <3>1. AdvanceTo(req[s]) \in JobCodes
      <4>1. pc[s] = "readJob"
        BY <2>14 DEF ReadJob
      <4>. QED BY <1>3, <2>1, <4>1, RequestRows
               DEF AdvanceTo, Shape, ShapeReq, FollowTo, JobCodes, AsgOps, JobOps
    <3>2. SessionTypes'
      BY <2>1, <2>14, <3>1 DEF ReadJob, SessionTypes, Goto, Remember, InTxnPc
    <3>. QED BY <2>14, <3>2, SameRows DEF ReadJob, LockTypes, locks
  <2>15. CASE UpdateJob(s)
    <3>1. SessionTypes'
      BY <2>15 DEF UpdateJob, TakeJob, SessionTypes, Goto, InTxnPc
    <3>. QED BY <2>2, <2>15, <3>1 DEF UpdateJob
  <2>18. CASE ShareTo(s) \/ ShareFrom(s)
    <3>1. SessionTypes'
      BY <2>18 DEF ShareTo, ShareFrom, SessionTypes, Goto, InTxnPc
    <3>. QED BY <2>18, <3>1, SameRows DEF ShareTo, ShareFrom, LockTypes, locks
  <2>16. CASE Commit(s)
    <3>1. /\ asgStatus' \in [Assignments -> AsgCodes \cup {None}]
          /\ sent' \in [Assignments -> BOOLEAN]
          /\ asgHistory' \in [Assignments -> Seq([from : AsgCodes \cup {None}, to : AsgCodes])]
          /\ dispatched' \in [Assignments -> Nat]
      <4>1. CASE req[s].op \in AsgOps
        <5>1. pc[s] = "commit" /\ WriteAssignment(s)
          BY <2>16, <4>1 DEF Commit
        <5>2. req[s].to \in AsgCodes /\ from[s] \in AsgCodes /\ req[s].asg \in Assignments
          BY <2>1, <4>1, <5>1 DEF Shape, ShapeReq, AsgLocked
        <5>3. asgStatus' \in [Assignments -> AsgCodes \cup {None}]
          BY <5>1, <5>2 DEF WriteAssignment, RowTypes
        <5>4. sent' \in [Assignments -> BOOLEAN]
          BY <5>1, <5>2 DEF WriteAssignment, RowTypes
        <5>5. asgHistory' \in [Assignments -> Seq([from : AsgCodes \cup {None}, to : AsgCodes])]
          <6>. DEFINE Row == [from : AsgCodes \cup {None}, to : AsgCodes]
                      row == [from |-> from[s], to |-> req[s].to]
          <6>1. row \in Row /\ asgHistory \in [Assignments -> Seq(Row)]
            BY <5>2 DEF RowTypes
          <6>2. asgHistory' = [asgHistory EXCEPT ![req[s].asg] = Append(asgHistory[req[s].asg], row)]
            BY <5>1 DEF WriteAssignment
          <6>. HIDE DEF Row, row
          <6>3. asgHistory' \in [Assignments -> Seq(Row)]
            BY <5>2, <6>1, <6>2, AppendRow
          <6>. QED BY <6>3 DEF Row
        <5>6. dispatched' \in [Assignments -> Nat]
          BY <5>1, <5>2 DEF WriteAssignment, RowTypes
        <5>. QED BY <5>3, <5>4, <5>5, <5>6
      <4>2. CASE req[s].op \notin AsgOps
        BY <2>16, <4>2 DEF Commit, asgRows, RowTypes
      <4>. QED BY <4>1, <4>2
    <3>2. /\ jobStatus' \in [Jobs -> JobCodes]
          /\ closedAt' \in [Jobs -> Nat]
          /\ jobHistory' \in [Jobs -> Seq([from : JobCodes \cup {None}, to : JobCodes])]
      <4>1. CASE jobTo[s] # None
        <5>1. WriteJob(s)
          BY <2>16, <4>1 DEF Commit
        <5>2. jobTo[s] \in JobCodes /\ jobFrom[s] \in JobCodes \cup {None}
          BY <4>1 DEF SessionTypes
        <5>3. ClosedAt(req[s]) \in Nat
          BY <2>1 DEF ClosedAt, RowTypes, SessionTypes
        <5>4. jobStatus' \in [Jobs -> JobCodes]
          BY <2>1, <5>1, <5>2 DEF WriteJob, RowTypes
        <5>5. closedAt' \in [Jobs -> Nat]
          BY <2>1, <5>1, <5>3 DEF WriteJob, RowTypes
        <5>6. jobHistory' \in [Jobs -> Seq([from : JobCodes \cup {None}, to : JobCodes])]
          <6>. DEFINE Row == [from : JobCodes \cup {None}, to : JobCodes]
                      row == [from |-> jobFrom[s], to |-> jobTo[s]]
          <6>1. row \in Row /\ jobHistory \in [Jobs -> Seq(Row)]
            BY <5>2 DEF RowTypes
          <6>2. jobHistory' = [jobHistory EXCEPT ![req[s].job] = Append(jobHistory[req[s].job], row)]
            BY <5>1 DEF WriteJob
          <6>. HIDE DEF Row, row
          <6>3. jobHistory' \in [Jobs -> Seq(Row)]
            BY <2>1, <6>1, <6>2, AppendRow
          <6>. QED BY <6>3 DEF Row
        <5>. QED BY <5>4, <5>5, <5>6
      <4>2. CASE jobTo[s] = None
        BY <2>16, <4>2 DEF Commit, jobRows, RowTypes
      <4>. QED BY <4>1, <4>2
    <3>. QED BY <2>16, <3>1, <3>2, ReleaseType DEF Commit, RowTypes
  <2>17. CASE DeadlockVictim(s)
    BY <2>17, LeaveType DEF DeadlockVictim
  <2>. QED BY <1>3, <2>4, <2>5, <2>6, <2>7, <2>8, <2>10, <2>11, <2>12, <2>13, <2>14, <2>15, <2>16,
              <2>17, <2>18
       DEF Step
<1>4. ASSUME NEW s \in Sessions, Step(s), pc[s] = "idle" PROVE FALSE
  BY <1>4, StepsAreOfRequests
<1>5. ASSUME NEW s \in Sessions, ConnectionLost(s) PROVE TypeOK'
  BY <1>5, LeaveType DEF ConnectionLost
<1>6. CASE UNCHANGED vars
  BY <1>6, SameRows DEF vars, locks, LockTypes, SessionTypes
<1>. QED BY <1>1, <1>2, <1>3, <1>4, <1>5, <1>6 DEF Next

-----------------------------------------------------------------------------
(* A step of one session, seen by another. *)

Acts(s) == Arrive(s) \/ Step(s) \/ ConnectionLost(s)

\* A session writes nobody's state but its own.
LEMMA SessionFrame ==
    ASSUME SessionTypes, NEW s \in Sessions, Acts(s), NEW t \in Sessions, t # s
    PROVE  /\ pc'[t] = pc[t] /\ req'[t] = req[t] /\ from'[t] = from[t]
           /\ jobFrom'[t] = jobFrom[t] /\ jobTo'[t] = jobTo[t]
<1>1. Release(s) => /\ pc'[t] = pc[t] /\ req'[t] = req[t] /\ from'[t] = from[t]
                    /\ jobFrom'[t] = jobFrom[t] /\ jobTo'[t] = jobTo[t]
  BY DEF Release, Goto, SessionTypes
<1>2. CASE Arrive(s)
  BY <1>2 DEF Arrive, SendDispatch, SetAssignmentStatus, PerformTransition, SetJobStatus,
              MarkJobReadyToBill, MarkBillingClosed, Start, SessionTypes
<1>3. CASE \/ Begin(s) \/ CountActive(s) \/ ReadJob(s) \/ UpdateJob(s) \/ ShareTo(s) \/ ShareFrom(s)
           \/ SendLocksJob(s) \/ SelectLocksJob(s)
  BY <1>3 DEF Begin, CountActive, ReadJob, UpdateJob, ShareTo, ShareFrom, SendLocksJob,
              SelectLocksJob, TakeJob, Goto, Remember, SessionTypes
<1>4. CASE JobSetLocksStatus(s) \/ ReadyLocksStatus(s) \/ CloseLocksJob(s)
  BY <1>1, <1>4 DEF JobSetLocksStatus, ReadyLocksStatus, CloseLocksJob, Leave, TakeJob, TakeStatus,
              Goto, Remember, SessionTypes
<1>5. CASE SendLocksAsg(s) \/ SetLocksAsg(s) \/ VendorLocksAsg(s)
  BY <1>1, <1>5 DEF SendLocksAsg, SetLocksAsg, VendorLocksAsg, Leave, TakeAsg, Goto, SessionTypes
<1>6. CASE Commit(s) \/ DeadlockVictim(s) \/ ConnectionLost(s)
  BY <1>1, <1>6 DEF Commit, DeadlockVictim, ConnectionLost, Leave
<1>. QED BY <1>2, <1>3, <1>4, <1>5, <1>6 DEF Acts, Step

\* A row lock is taken only when free and freed only by its holder.
LEMMA LockFrame ==
    ASSUME TypeOK, NEW s \in Sessions, Shape(s), Acts(s), NEW t \in Sessions, t # s
    PROVE  /\ \A j \in Jobs : jobLock[j] = t => jobLock'[j] = t
           /\ \A a \in Assignments : asgLock[a] = t => asgLock'[a] = t
<1>. USE DEF LockTypes, TypeOK
<1>1. Release(s) => /\ \A j \in Jobs : jobLock[j] = t => jobLock'[j] = t
                    /\ \A a \in Assignments : asgLock[a] = t => asgLock'[a] = t
  BY DEF Release
<1>2. CASE Arrive(s)
  BY <1>2 DEF Arrive, SendDispatch, SetAssignmentStatus, PerformTransition, SetJobStatus,
              MarkJobReadyToBill, MarkBillingClosed, Start, locks
<1>3. CASE Begin(s) \/ CountActive(s) \/ ReadJob(s) \/ ShareTo(s) \/ ShareFrom(s)
  BY <1>3 DEF Begin, CountActive, ReadJob, ShareTo, ShareFrom, locks
<1>4. CASE UpdateJob(s) \/ SendLocksJob(s) \/ SelectLocksJob(s)
  BY <1>4, DispatchAssumption DEF UpdateJob, SendLocksJob, SelectLocksJob, AtJobLock, TakeJob
<1>5. CASE JobSetLocksStatus(s) \/ ReadyLocksStatus(s) \/ CloseLocksJob(s)
  BY <1>1, <1>5, DispatchAssumption
     DEF JobSetLocksStatus, ReadyLocksStatus, CloseLocksJob, AtJobLock, Leave, TakeJob, TakeStatus
<1>6. CASE SendLocksAsg(s) \/ SetLocksAsg(s) \/ VendorLocksAsg(s)
  BY <1>1, <1>6, DispatchAssumption
     DEF SendLocksAsg, SetLocksAsg, VendorLocksAsg, AtAsgLock, Leave, TakeAsg
<1>7. CASE Commit(s) \/ DeadlockVictim(s) \/ ConnectionLost(s)
  BY <1>1, <1>7 DEF Commit, DeadlockVictim, ConnectionLost, Leave
<1>. QED BY <1>2, <1>3, <1>4, <1>5, <1>6, <1>7 DEF Acts, Step

\* Rows are written by a commit alone, and only rows its session has locked.
LEMMA DataFrame ==
    ASSUME TypeOK, NEW s \in Sessions, Shape(s), Holds(s), Acts(s)
    PROVE  /\ \A j \in Jobs : jobStatus'[j] # jobStatus[j] => jobLock[j] = s
           /\ \A a \in Assignments :
                 asgStatus'[a] # asgStatus[a] => asgLock[a] = s /\ asgStatus'[a] # None
<1>. USE DEF TypeOK
<1>1. Leave(s) => UNCHANGED data
  BY DEF Leave
<1>2. CASE Arrive(s)
  BY <1>2 DEF Arrive, SendDispatch, SetAssignmentStatus, PerformTransition, SetJobStatus,
              MarkJobReadyToBill, MarkBillingClosed, Start, data, jobRows, asgRows
<1>3. CASE \/ Begin(s) \/ CountActive(s) \/ ReadJob(s) \/ UpdateJob(s) \/ ShareTo(s) \/ ShareFrom(s)
           \/ SendLocksJob(s) \/ SelectLocksJob(s)
  BY <1>3 DEF Begin, CountActive, ReadJob, UpdateJob, ShareTo, ShareFrom, SendLocksJob,
              SelectLocksJob, TakeJob, data, jobRows, asgRows
<1>4. CASE JobSetLocksStatus(s) \/ ReadyLocksStatus(s) \/ CloseLocksJob(s)
  BY <1>1, <1>4 DEF JobSetLocksStatus, ReadyLocksStatus, CloseLocksJob, TakeJob, TakeStatus, data,
              jobRows, asgRows
<1>5. CASE SendLocksAsg(s) \/ SetLocksAsg(s) \/ VendorLocksAsg(s)
  BY <1>1, <1>5 DEF SendLocksAsg, SetLocksAsg, VendorLocksAsg, TakeAsg, data, jobRows, asgRows
<1>6. CASE DeadlockVictim(s) \/ ConnectionLost(s)
  BY <1>1, <1>6 DEF DeadlockVictim, ConnectionLost, data, jobRows, asgRows
<1>7. CASE Commit(s)
  <2>1. pc[s] = "commit" /\ pc[s] # "idle"
    BY <1>7 DEF Commit
  <2>2. /\ req[s].job \in Jobs
        /\ req[s].op \in AsgOps => req[s].asg \in Assignments /\ req[s].to \in AsgCodes
    BY <2>1, RequestRows DEF Shape, ShapeReq
  <2>3. \A j \in Jobs : jobStatus'[j] # jobStatus[j] => jobLock[j] = s
    BY <1>7, <2>1, <2>2 DEF Commit, WriteJob, Holds, Written, RowTypes, jobRows
  <2>4. \A a \in Assignments :
           asgStatus'[a] # asgStatus[a] => asgLock[a] = s /\ asgStatus'[a] # None
    BY <1>7, <2>1, <2>2, DispatchAssumption
       DEF Commit, WriteAssignment, Holds, AsgLocked, RowTypes, asgRows
  <2>. QED BY <2>3, <2>4
<1>. QED BY <1>2, <1>3, <1>4, <1>5, <1>6, <1>7 DEF Acts, Step

\* So no step of a session disturbs another one.
LEMMA Others ==
    ASSUME TypeOK, NEW s \in Sessions, Shape(s), Holds(s), Acts(s),
           NEW t \in Sessions, t # s, Shape(t), Holds(t), Current(t), pc[t] # "idle"
    PROVE  Shape(t)' /\ Holds(t)' /\ Current(t)'
<1>1. /\ pc'[t] = pc[t] /\ req'[t] = req[t] /\ from'[t] = from[t]
      /\ jobFrom'[t] = jobFrom[t] /\ jobTo'[t] = jobTo[t]
  BY SessionFrame DEF TypeOK
<1>2. /\ req[t].job \in Jobs
      /\ req[t].op \in AsgOps => req[t].asg \in Assignments
  BY RequestRows DEF TypeOK
<1>3. /\ jobLock[req[t].job] = t => jobLock'[req[t].job] = t
      /\ req[t].op \in AsgOps /\ asgLock[req[t].asg] = t => asgLock'[req[t].asg] = t
  BY <1>2, LockFrame
<1>4. /\ jobLock[req[t].job] = t => jobStatus'[req[t].job] = jobStatus[req[t].job]
      /\ req[t].op \in AsgOps /\ asgLock[req[t].asg] = t
            => asgStatus'[req[t].asg] = asgStatus[req[t].asg]
      /\ req[t].op \in AsgOps /\ asgStatus[req[t].asg] # None => asgStatus'[req[t].asg] # None
  BY <1>2, DataFrame
<1>5. Shape(t)'
  BY <1>1 DEF Shape, ShapeReq, FromCodes, AdvanceTo
<1>6. Holds(t)'
  BY <1>1, <1>3 DEF Holds
<1>7. Current(t)'
  <2>1. req[t].op = "send" /\ pc[t] \in {"lockAsg"} \cup AsgLocked => jobLock[req[t].job] = t
    BY DEF Holds
  <2>2. req[t].op \in {"send"} \cup JobOps /\ jobTo[t] # None => jobLock[req[t].job] = t
    BY DEF Holds, Shape, AsgLocked, Written
  <2>3. req[t].op \in AsgOps /\ pc[t] \in AsgLocked => asgLock[req[t].asg] = t
    BY DEF Holds
  <2>. QED BY <1>1, <1>4, <2>1, <2>2, <2>3 DEF Current, AsgLocked
<1>. QED BY <1>5, <1>6, <1>7

-----------------------------------------------------------------------------
(* A step of one session, seen by itself. *)

Fine(s) == Shape(s) /\ Holds(s) /\ Current(s)

LEMMA LeaveFine ==
    ASSUME TypeOK, NEW s \in Sessions, Release(s)
    PROVE  Fine(s)'
<1>1. pc'[s] = "idle" /\ req'[s] = NoRequest /\ jobTo'[s] = None
  BY DEF Release, Goto, TypeOK, SessionTypes
<1>. QED BY <1>1, DispatchAssumption
         DEF Fine, Shape, ShapeReq, Holds, Current, NoRequest, AsgOps, JobOps, AsgLocked, Written

LEMMA ArriveFine ==
    ASSUME TypeOK, NEW s \in Sessions, Fine(s), Arrive(s)
    PROVE  Fine(s)'
<1>. USE DispatchAssumption
<1>1. ASSUME NEW op \in AsgOps \cup JobOps, NEW a \in Assignments \cup {None}, NEW j \in Jobs,
             NEW to \in AsgCodes \cup JobCodes, Start(s, op, a, j, to),
             op \in AsgOps => /\ a \in Assignments /\ j = JobOf[a] /\ asgStatus[a] # None
                              /\ to \in AsgCodes \ {"DRAFT"} /\ (op # "send" => to # "SENT"),
             op = "send" => to = "SENT",
             op = "vendor" => to \in VendorTargets,
             op \in JobOps => to \in JobCodes
      PROVE  Fine(s)'
  <2>1. /\ pc[s] = "idle" /\ pc'[s] = "begin" /\ jobTo'[s] = jobTo[s]
        /\ req'[s] = [op |-> op, asg |-> a, job |-> j, to |-> to]
        /\ asgStatus' = asgStatus
    BY <1>1 DEF Start, TypeOK, SessionTypes, data, asgRows
  <2>. QED BY <1>1, <2>1
           DEF Fine, Shape, ShapeReq, Holds, Current, AsgOps, JobOps, AsgLocked, Written
<1>2. CASE \E a \in Assignments : SendDispatch(s, a)
  BY <1>1, <1>2 DEF SendDispatch, AsgOps, JobOps, AsgCodes
<1>3. CASE \E a \in Assignments, to \in OperatorTargets : SetAssignmentStatus(s, a, to)
  BY <1>1, <1>3 DEF SetAssignmentStatus, AsgOps, JobOps
<1>4. CASE \E a \in Assignments, to \in VendorTargets : PerformTransition(s, a, to)
  BY <1>1, <1>4 DEF PerformTransition, AsgOps, JobOps, VendorTargets, AsgCodes
<1>5. CASE \E j \in Jobs, to \in JobTargets : SetJobStatus(s, j, to)
  BY <1>1, <1>5 DEF SetJobStatus, AsgOps, JobOps
<1>6. CASE \E j \in Jobs : MarkJobReadyToBill(s, j)
  BY <1>1, <1>6 DEF MarkJobReadyToBill, AsgOps, JobOps, JobCodes
<1>7. CASE \E j \in Jobs : MarkBillingClosed(s, j)
  BY <1>1, <1>7 DEF MarkBillingClosed, AsgOps, JobOps, JobCodes
<1>. QED BY <1>2, <1>3, <1>4, <1>5, <1>6, <1>7 DEF Arrive

LEMMA StepFine ==
    ASSUME TypeOK, NEW s \in Sessions, Fine(s), Step(s)
    PROVE  Fine(s)'
<1>. USE DispatchAssumption DEF Fine, Written
<1>1. pc[s] # "idle"
  BY StepsAreOfRequests
<1>2. /\ req[s].job \in Jobs
      /\ req[s].op \in AsgOps \cup JobOps
      /\ req[s].op \in AsgOps => req[s].asg \in Assignments
  BY <1>1, RequestRows DEF TypeOK
<1>3. TakeJob(s) => /\ jobLock'[req[s].job] = s /\ asgLock' = asgLock
                    /\ req' = req /\ from' = from /\ jobStatus' = jobStatus /\ asgStatus' = asgStatus
  BY <1>2 DEF TakeJob, TypeOK, LockTypes, data, jobRows, asgRows
<1>4. ASSUME NEW cur, TakeAsg(s, cur), req[s].op \in AsgOps
      PROVE  /\ asgLock'[req[s].asg] = s /\ jobLock' = jobLock /\ from'[s] = cur
             /\ req' = req /\ jobFrom' = jobFrom /\ jobTo' = jobTo
             /\ jobStatus' = jobStatus /\ asgStatus' = asgStatus
  BY <1>2, <1>4 DEF TakeAsg, TypeOK, LockTypes, SessionTypes, data, jobRows, asgRows
<1>5. \A label : Goto(s, label) => pc'[s] = label
  BY DEF Goto, TypeOK, SessionTypes
<1>6. \A cur : Remember(s, cur) => jobFrom'[s] = cur
  BY DEF Remember, TypeOK, SessionTypes
<1>7. CASE Begin(s)
  <2>1. /\ pc[s] = "begin" /\ req' = req /\ jobTo' = jobTo /\ asgStatus' = asgStatus
        /\ pc'[s] = IF req[s].op \in {"set", "vendor"} THEN "lockAsg" ELSE "lockJob"
        /\ req[s].op \in {"jobset", "ready"} => from'[s] \in JobCodes
    BY <1>2, <1>5, <1>7 DEF Begin, data, asgRows, TypeOK, RowTypes, SessionTypes
  <2>. QED BY <1>2, <2>1 DEF Shape, ShapeReq, Holds, Current, AsgOps, JobOps, AsgLocked
<1>8. CASE SendLocksJob(s)
  <2>1. /\ pc[s] = "lockJob" /\ req[s].op = "send" /\ pc'[s] = "lockAsg"
        /\ jobFrom'[s] = jobStatus[req[s].job] /\ jobTo' = jobTo
    BY <1>5, <1>6, <1>8 DEF SendLocksJob, AtJobLock
  <2>2. TakeJob(s)
    BY <1>8 DEF SendLocksJob
  <2>. QED BY <1>2, <1>3, <2>1, <2>2 DEF Shape, ShapeReq, Holds, Current, AsgOps, JobOps, AsgLocked
<1>17. TakeStatus(s) => /\ jobLock' = jobLock /\ asgLock' = asgLock
                        /\ req' = req /\ from' = from
                        /\ jobStatus' = jobStatus /\ asgStatus' = asgStatus
  BY DEF TakeStatus, data, jobRows, asgRows
<1>9. CASE JobSetLocksStatus(s) /\ ~Leave(s)
  <2>1. /\ pc[s] = "lockStatus" /\ req[s].op = "jobset" /\ pc'[s] = "shareTo" /\ TakeStatus(s)
        /\ jobFrom'[s] = jobStatus[req[s].job] /\ jobTo'[s] = req[s].to
    BY <1>5, <1>6, <1>9 DEF JobSetLocksStatus, AtStatusLock, TypeOK, SessionTypes
  <2>2. jobStatus[req[s].job] \in JobCodes
    BY <1>2 DEF TypeOK, RowTypes
  <2>. QED BY <1>2, <1>17, <2>1, <2>2
           DEF Shape, ShapeReq, Holds, Current, AsgOps, JobOps, AsgLocked, FromCodes, AdvanceTo
<1>18. CASE ReadyLocksStatus(s) /\ ~Leave(s)
  <2>1. /\ pc[s] = "lockStatus" /\ req[s].op = "ready" /\ pc'[s] = "readJob"
        /\ TakeStatus(s) /\ jobTo' = jobTo
    BY <1>5, <1>18 DEF ReadyLocksStatus, AtStatusLock
  <2>. QED BY <1>2, <1>17, <2>1 DEF Shape, ShapeReq, Holds, Current, AsgOps, JobOps, AsgLocked
<1>10. CASE SelectLocksJob(s) \/ (CloseLocksJob(s) /\ ~Leave(s))
  <2>1. /\ pc[s] = "lockJob" /\ TakeJob(s) /\ jobTo' = jobTo
        /\ \/ req[s].op \in {"jobset", "ready"} /\ pc'[s] = "lockStatus"
           \/ req[s].op = "close" /\ pc'[s] = "readJob"
    BY <1>5, <1>10 DEF SelectLocksJob, CloseLocksJob, AtJobLock
  <2>. QED BY <1>2, <1>3, <2>1 DEF Shape, ShapeReq, Holds, Current, AsgOps, JobOps, AsgLocked
<1>11. CASE SendLocksAsg(s) /\ ~Leave(s)
  <2>1. /\ pc[s] = "lockAsg" /\ req[s].op = "send" /\ pc'[s] = "readJob" /\ TakeAsg(s, "DRAFT")
        /\ asgStatus[req[s].asg] = "DRAFT" /\ jobFrom[s] \in Dispatchable
    BY <1>5, <1>11 DEF SendLocksAsg, AtAsgLock
  <2>. QED BY <1>2, <1>4, <2>1
           DEF Shape, ShapeReq, Holds, Current, AsgOps, JobOps, AsgLocked, AsgCodes
<1>12. CASE (SetLocksAsg(s) \/ VendorLocksAsg(s)) /\ ~Leave(s)
  <2>1. /\ pc[s] = "lockAsg" /\ req[s].op \in {"set", "vendor"}
        /\ pc'[s] = AfterAsgWrite(req[s].to) /\ TakeAsg(s, asgStatus[req[s].asg])
        /\ asgStatus[req[s].asg] # req[s].to
    BY <1>2, <1>5, <1>12
       DEF SetLocksAsg, VendorLocksAsg, AtAsgLock, VendorFrom, VendorTargets, Shape, ShapeReq
  <2>2. asgStatus[req[s].asg] \in AsgCodes
    BY <1>2, <2>1 DEF Current, AsgOps, TypeOK, RowTypes
  <2>3. pc'[s] \in {"count", "commit"} /\ (pc'[s] = "count" => req[s].to \in Milestones)
    BY <2>1 DEF AfterAsgWrite
  <2>. QED BY <1>2, <1>4, <2>1, <2>2, <2>3
           DEF Shape, ShapeReq, Holds, Current, AsgOps, JobOps, AsgLocked
<1>13. CASE CountActive(s)
  <2>1. /\ pc[s] = "count" /\ pc'[s] \in {"readJob", "commit"}
        /\ UNCHANGED <<data, locks, req, from, jobFrom, jobTo>>
    BY <1>5, <1>13 DEF CountActive
  <2>. QED BY <1>2, <2>1 DEF Shape, ShapeReq, Holds, Current, AsgOps, JobOps, AsgLocked,
                              data, asgRows, jobRows, locks
<1>14. CASE ReadJob(s)
  <2>1. /\ pc[s] = "readJob" /\ jobTo[s] = None
        /\ UNCHANGED <<data, locks, req, from>>
    BY <1>14 DEF ReadJob, Shape
  <2>2. AdvanceTo(req[s]) # None
    BY <1>1, <1>2, <2>1
       DEF AdvanceTo, FollowTo, Shape, ShapeReq, JobCodes, AsgCodes, AsgOps, JobOps
  <2>3. \/ /\ jobStatus[req[s].job] \in FromCodes(req[s]) /\ pc'[s] = "updateJob"
           /\ jobFrom'[s] = jobStatus[req[s].job] /\ jobTo'[s] = AdvanceTo(req[s])
        \/ /\ jobStatus[req[s].job] \notin FromCodes(req[s]) /\ pc'[s] = "commit"
           /\ UNCHANGED <<jobFrom, jobTo>>
    BY <1>5, <1>6, <1>14 DEF ReadJob, TypeOK, SessionTypes
  <2>4. req[s].op = "send" => FromCodes(req[s]) = AdvanceFrom
    BY DEF FromCodes
  <2>5. Shape(s)'
    BY <1>2, <2>1, <2>2, <2>3 DEF Shape, ShapeReq, AsgLocked, FromCodes, AdvanceTo, AsgOps, JobOps
  <2>6. Holds(s)'
    BY <1>2, <2>1, <2>2, <2>3 DEF Holds, AsgLocked, locks, AsgOps, JobOps
  <2>7. Current(s)'
    BY <1>2, <2>1, <2>2, <2>3, <2>4
       DEF Current, AsgLocked, data, asgRows, jobRows, AsgOps, JobOps
  <2>. QED BY <2>5, <2>6, <2>7
<1>15. CASE UpdateJob(s)
  <2>1. pc[s] = "updateJob" /\ pc'[s] = "shareTo" /\ TakeJob(s) /\ UNCHANGED <<jobFrom, jobTo>>
    BY <1>5, <1>15 DEF UpdateJob
  <2>. QED BY <1>2, <1>3, <2>1
           DEF Shape, ShapeReq, Holds, Current, AsgOps, JobOps, AsgLocked, FromCodes, AdvanceTo
<1>19. CASE ShareTo(s) \/ ShareFrom(s)
  <2>1. /\ \/ pc[s] = "shareTo" /\ pc'[s] = "shareFrom"
           \/ pc[s] = "shareFrom" /\ pc'[s] = "commit"
        /\ UNCHANGED <<data, locks, req, from, jobFrom, jobTo>>
    BY <1>5, <1>19 DEF ShareTo, ShareFrom
  <2>. QED BY <1>2, <2>1 DEF Shape, ShapeReq, Holds, Current, AsgOps, JobOps, AsgLocked,
                              FromCodes, AdvanceTo, data, asgRows, jobRows, locks
<1>16. CASE Leave(s) \/ Commit(s) \/ DeadlockVictim(s)
  BY <1>16, LeaveFine DEF Leave, Commit, DeadlockVictim
<1>. QED BY <1>7, <1>8, <1>9, <1>10, <1>11, <1>12, <1>13, <1>14, <1>15, <1>16, <1>18,
            <1>19
         DEF Step

-----------------------------------------------------------------------------
(* The invariant. *)

\* Any session but an idle one is undisturbed, and an idle one has nothing.
LEMMA SessionsFine ==
    ASSUME IInv, NEW s \in Sessions, Acts(s)
    PROVE  \A t \in Sessions : Fine(t)'
<1>. USE DEF IInv, ShapeOK, LocksOK, ReadsOK, Fine
<1>1. Fine(s)'
  BY ArriveFine, StepFine, LeaveFine DEF Acts, ConnectionLost, Leave
<1>2. ASSUME NEW t \in Sessions, t # s, pc[t] # "idle" PROVE Fine(t)'
  BY <1>2, Others
<1>3. ASSUME NEW t \in Sessions, t # s, pc[t] = "idle" PROVE Fine(t)'
  <2>1. /\ pc'[t] = "idle" /\ req'[t] = req[t] /\ jobTo'[t] = jobTo[t]
    BY <1>3, SessionFrame DEF TypeOK
  <2>2. req[t].op = None /\ jobTo[t] = None
    BY <1>3 DEF Shape, Written
  <2>. QED BY <2>1, <2>2, DispatchAssumption
           DEF Shape, ShapeReq, Holds, Current, AsgOps, JobOps, AsgLocked, Written
<1>. QED BY <1>1, <1>2, <1>3

\* createDispatch touches a row no session works on.
LEMMA CreateFine ==
    ASSUME IInv, NEW a \in Assignments, CreateDispatch(a)
    PROVE  \A t \in Sessions : Fine(t)'
<1>. SUFFICES ASSUME NEW t \in Sessions PROVE Fine(t)'
  OBVIOUS
<1>1. Shape(t) /\ Holds(t) /\ Current(t)
  BY DEF IInv, ShapeOK, LocksOK, ReadsOK
<1>2. UNCHANGED <<jobStatus, jobLock, asgLock, pc, req, from, jobFrom, jobTo>>
  BY DEF CreateDispatch, jobRows, locks
<1>3. req[t].op \in AsgOps => /\ asgStatus[req[t].asg] # None
                              /\ asgStatus'[req[t].asg] = asgStatus[req[t].asg]
  BY <1>1 DEF CreateDispatch, Current, Shape, ShapeReq, IInv, TypeOK, RowTypes
<1>4. Shape(t)'
  BY <1>1, <1>2 DEF Shape, ShapeReq, FromCodes, AdvanceTo
<1>5. Holds(t)'
  BY <1>1, <1>2 DEF Holds
<1>6. Current(t)'
  BY <1>1, <1>2, <1>3 DEF Current
<1>. QED BY <1>4, <1>5, <1>6 DEF Fine

\* What a commit finds and writes.
LEMMA AtCommit ==
    ASSUME IInv, NEW s \in Sessions, Commit(s)
    PROVE  /\ req[s].job \in Jobs
           /\ req[s].op \in AsgOps =>
                 /\ req[s].asg \in Assignments /\ req[s].job = JobOf[req[s].asg]
                 /\ from[s] = asgStatus[req[s].asg] /\ from[s] \in AsgCodes
                 /\ req[s].to \in AsgCodes \ {"DRAFT", from[s]}
                 /\ req[s].to = "SENT" <=> req[s].op = "send"
                 /\ WriteAssignment(s)
           /\ req[s].op \notin AsgOps => UNCHANGED asgRows
           /\ req[s].op = "send" =>
                 /\ from[s] = "DRAFT" /\ jobStatus[req[s].job] \in Dispatchable
                 /\ jobTo[s] = None => jobStatus[req[s].job] \notin AdvanceFrom
                 /\ jobTo[s] # None => /\ jobStatus[req[s].job] \in AdvanceFrom
                                       /\ jobTo[s] = "DISPATCHED"
           /\ req[s].op \in {"set", "vendor"} /\ jobTo[s] # None =>
                 req[s].to \in Milestones /\ jobTo[s] = FollowTo[req[s].to]
           /\ jobTo[s] # None => WriteJob(s)
           /\ jobTo[s] = None => UNCHANGED jobRows
<1>1. Shape(s) /\ Holds(s) /\ Current(s) /\ pc[s] = "commit" /\ TypeOK
  BY DEF IInv, ShapeOK, LocksOK, ReadsOK, Commit
<1>2. req[s].job \in Jobs
  BY <1>1, RequestRows DEF TypeOK
<1>3. req[s].op = "send" /\ jobTo[s] # None =>
         jobFrom[s] \in AdvanceFrom /\ jobTo[s] = "DISPATCHED" /\ jobFrom[s] = jobStatus[req[s].job]
  <2>1. req[s].op = "send" => FromCodes(req[s]) = AdvanceFrom /\ AdvanceTo(req[s]) = "DISPATCHED"
    BY DEF FromCodes, AdvanceTo
  <2>. QED BY <1>1, <2>1 DEF Shape, Current
<1>4. req[s].op \in {"set", "vendor"} => AdvanceTo(req[s]) = FollowTo[req[s].to]
  BY DEF AdvanceTo
<1>. QED BY <1>1, <1>2, <1>3, <1>4
         DEF Shape, ShapeReq, Current, AsgLocked, AsgOps, Commit

\* Away from commits and drafts the rows stand still.
LEMMA RowsFrame ==
    ASSUME NEW s \in Sessions, Acts(s), ~Commit(s)
    PROVE  UNCHANGED data
<1>1. Leave(s) => UNCHANGED data
  BY DEF Leave
<1>2. CASE Arrive(s)
  BY <1>2 DEF Arrive, SendDispatch, SetAssignmentStatus, PerformTransition, SetJobStatus,
              MarkJobReadyToBill, MarkBillingClosed, Start
<1>3. CASE \/ Begin(s) \/ CountActive(s) \/ ReadJob(s) \/ UpdateJob(s) \/ ShareTo(s) \/ ShareFrom(s)
           \/ SendLocksJob(s) \/ SelectLocksJob(s)
  BY <1>3 DEF Begin, CountActive, ReadJob, UpdateJob, ShareTo, ShareFrom, SendLocksJob,
              SelectLocksJob, TakeJob
<1>4. CASE JobSetLocksStatus(s) \/ ReadyLocksStatus(s) \/ CloseLocksJob(s)
  BY <1>1, <1>4 DEF JobSetLocksStatus, ReadyLocksStatus, CloseLocksJob, TakeJob, TakeStatus
<1>5. CASE SendLocksAsg(s) \/ SetLocksAsg(s) \/ VendorLocksAsg(s)
  BY <1>1, <1>5 DEF SendLocksAsg, SetLocksAsg, VendorLocksAsg, TakeAsg
<1>6. CASE DeadlockVictim(s) \/ ConnectionLost(s)
  BY <1>1, <1>6 DEF DeadlockVictim, ConnectionLost
<1>. QED BY <1>2, <1>3, <1>4, <1>5, <1>6 DEF Acts, Step

LEMMA NextCases ==
    ASSUME [Next]_vars
    PROVE  \/ \E a \in Assignments : CreateDispatch(a)
           \/ \E s \in Sessions : Commit(s)
           \/ UNCHANGED data
<1>1. CASE Next
  <2>1. \/ \E a \in Assignments : CreateDispatch(a)
        \/ \E s \in Sessions : Acts(s)
    BY <1>1 DEF Next, Acts
  <2>. QED BY <2>1, RowsFrame
<1>2. CASE UNCHANGED vars
  BY <1>2 DEF vars
<1>. QED BY <1>1, <1>2

LEMMA StepSent ==
    ASSUME IInv, [Next]_vars
    PROVE  SentAtMostOnce'
<1>1. RowTypes /\ SentAtMostOnce
  BY DEF IInv, TypeOK
<1>2. ASSUME NEW a \in Assignments, CreateDispatch(a) PROVE SentAtMostOnce'
  BY <1>1, <1>2, DispatchAssumption DEF CreateDispatch, SentAtMostOnce, RowTypes
<1>3. ASSUME UNCHANGED asgRows PROVE SentAtMostOnce'
  BY <1>1, <1>3 DEF SentAtMostOnce, asgRows
<1>4. ASSUME NEW s \in Sessions, Commit(s), req[s].op \in AsgOps PROVE SentAtMostOnce'
  <2>. DEFINE a == req[s].asg
  <2>1. /\ a \in Assignments /\ asgStatus[a] \in AsgCodes /\ req[s].to \in AsgCodes
        /\ req[s].to # "DRAFT" /\ (req[s].to = "SENT" <=> req[s].op = "send")
        /\ req[s].op = "send" => asgStatus[a] = "DRAFT"
        /\ WriteAssignment(s)
    BY <1>4, AtCommit
  <2>2. /\ \A b \in Assignments : b # a => /\ asgStatus'[b] = asgStatus[b]
                                           /\ sent'[b] = sent[b]
                                           /\ dispatched'[b] = dispatched[b]
        /\ asgStatus'[a] = req[s].to
        /\ req[s].op # "send" => (sent'[a] <=> sent[a]) /\ dispatched'[a] = dispatched[a]
        /\ req[s].op = "send" => sent'[a] /\ dispatched'[a] = dispatched[a] + 1
    <3>1. /\ \A b \in Assignments : b # a => asgStatus'[b] = asgStatus[b]
          /\ asgStatus'[a] = req[s].to
      BY <1>1, <2>1 DEF WriteAssignment, RowTypes
    <3>2. \A b \in Assignments : b # a => sent'[b] = sent[b]
      BY <1>1, <2>1 DEF WriteAssignment, RowTypes
    <3>3. sent'[a] = (sent[a] \/ req[s].op = "send")
      BY <1>1, <2>1, Zenon DEF WriteAssignment, RowTypes
    <3>4. /\ \A b \in Assignments : b # a => dispatched'[b] = dispatched[b]
          /\ dispatched'[a] = dispatched[a] + IF req[s].op = "send" THEN 1 ELSE 0
      BY <1>1, <2>1 DEF WriteAssignment, RowTypes
    <3>5. dispatched[a] \in Nat
      BY <1>1, <2>1 DEF RowTypes
    <3>6. /\ req[s].op # "send" => dispatched'[a] = dispatched[a]
          /\ req[s].op = "send" => dispatched'[a] = dispatched[a] + 1
      BY <3>4, <3>5
    <3>. QED BY <3>1, <3>2, <3>3, <3>4, <3>6
  <2>3. req[s].op = "send" => ~sent[a] /\ dispatched[a] = 0
    BY <1>1, <2>1 DEF SentAtMostOnce
  <2>. HIDE DEF a
  <2>4. req[s].op # "send" => asgStatus'[a] \notin {None, "DRAFT", "SENT"}
    BY <2>1, <2>2, DispatchAssumption
  <2>5. req[s].op = "send" => asgStatus'[a] = "SENT"
    BY <2>1, <2>2
  <2>6. ASSUME NEW b \in Assignments
        PROVE  /\ dispatched'[b] = (IF sent'[b] THEN 1 ELSE 0)
               /\ asgStatus'[b] \in {None, "DRAFT"} => ~sent'[b]
               /\ asgStatus'[b] = "SENT" => sent'[b]
    <3>1. CASE b # a
      BY <1>1, <2>2, <3>1 DEF SentAtMostOnce
    <3>2. CASE b = a /\ req[s].op = "send"
      BY <1>1, <2>1, <2>2, <2>3, <2>5, <3>2, DispatchAssumption DEF AsgCodes
    <3>3. CASE b = a /\ req[s].op # "send"
      BY <1>1, <2>2, <2>4, <3>3 DEF SentAtMostOnce
    <3>. QED BY <3>1, <3>2, <3>3
  <2>. QED BY <2>6 DEF SentAtMostOnce
<1>5. ASSUME NEW s \in Sessions, Commit(s), req[s].op \notin AsgOps PROVE SentAtMostOnce'
  BY <1>3, <1>5, AtCommit
<1>. QED BY <1>2, <1>3, <1>4, <1>5, NextCases DEF data

\* A chained history stays chained when a row that leaves its end is appended.
LEMMA ChainAppend ==
    ASSUME NEW h \in Seq([from : AsgCodes \cup {None}, to : AsgCodes]),
           NEW row \in [from : AsgCodes \cup {None}, to : AsgCodes],
           h # <<>>, h[Len(h)].to = row.from,
           \A i \in DOMAIN h : h[i].from = IF i = 1 THEN None ELSE h[i - 1].to
    PROVE  LET k == Append(h, row) IN
           /\ k # <<>> /\ k[Len(k)] = row
           /\ \A i \in DOMAIN k : k[i].from = IF i = 1 THEN None ELSE k[i - 1].to
<1>. DEFINE Row == [from : AsgCodes \cup {None}, to : AsgCodes]
            k == Append(h, row)
<1>1. h \in Seq(Row) /\ row \in Row
  OBVIOUS
<1>. HIDE DEF Row
<1>2. /\ Len(h) \in Nat /\ Len(h) # 0 /\ DOMAIN h = 1..Len(h)
      /\ Len(k) = Len(h) + 1 /\ DOMAIN k = 1..(Len(h) + 1)
  BY <1>1
<1>3. k[Len(h) + 1] = row /\ \A i \in 1..Len(h) : k[i] = h[i]
  BY <1>1
<1>4. ASSUME NEW i \in DOMAIN k PROVE k[i].from = IF i = 1 THEN None ELSE k[i - 1].to
  <2>1. CASE i = Len(h) + 1
    <3>1. i # 1 /\ i - 1 = Len(h) /\ Len(h) \in 1..Len(h)
      BY <1>2, <2>1
    <3>. QED BY <1>3, <2>1, <3>1
  <2>2. CASE i # Len(h) + 1
    <3>1. i \in 1..Len(h) /\ (i # 1 => i - 1 \in 1..Len(h))
      BY <1>2, <2>2
    <3>. QED BY <1>2, <1>3, <3>1
  <2>. QED BY <2>1, <2>2
<1>5. k # <<>>
  BY <1>2
<1>. QED BY <1>2, <1>3, <1>4, <1>5

LEMMA StepChain ==
    ASSUME IInv, [Next]_vars
    PROVE  AssignmentHistoryChain'
<1>1. RowTypes /\ AssignmentHistoryChain
  BY DEF IInv, TypeOK
<1>2. ASSUME NEW a \in Assignments, CreateDispatch(a) PROVE AssignmentHistoryChain'
  BY <1>1, <1>2 DEF CreateDispatch, AssignmentHistoryChain, RowTypes
<1>3. ASSUME UNCHANGED asgRows PROVE AssignmentHistoryChain'
  BY <1>1, <1>3 DEF AssignmentHistoryChain, asgRows
<1>4. ASSUME NEW s \in Sessions, Commit(s), req[s].op \in AsgOps PROVE AssignmentHistoryChain'
  <2>. DEFINE a == req[s].asg
              row == [from |-> from[s], to |-> req[s].to]
  <2>1. /\ a \in Assignments /\ from[s] = asgStatus[a] /\ from[s] \in AsgCodes
        /\ req[s].to \in AsgCodes /\ WriteAssignment(s)
    BY <1>4, AtCommit
  <2>2. /\ asgHistory[a] \in Seq([from : AsgCodes \cup {None}, to : AsgCodes])
        /\ row \in [from : AsgCodes \cup {None}, to : AsgCodes]
        /\ row.from = asgStatus[a] /\ row.to = req[s].to /\ asgStatus[a] # None
    BY <1>1, <2>1, DispatchAssumption DEF RowTypes
  <2>3. /\ \A b \in Assignments : b # a => /\ asgStatus'[b] = asgStatus[b]
                                           /\ asgHistory'[b] = asgHistory[b]
        /\ asgStatus'[a] = req[s].to
        /\ asgHistory'[a] = Append(asgHistory[a], row)
    BY <1>1, <2>1 DEF WriteAssignment, RowTypes
  <2>. HIDE DEF a, row
  <2>4. asgHistory[a] # <<>> /\ asgHistory[a][Len(asgHistory[a])].to = asgStatus[a]
    BY <1>1, <2>1, <2>2 DEF AssignmentHistoryChain
  <2>5. \A i \in DOMAIN asgHistory[a] :
           asgHistory[a][i].from = IF i = 1 THEN None ELSE asgHistory[a][i - 1].to
    BY <1>1, <2>1 DEF AssignmentHistoryChain
  <2>6. LET k == asgHistory'[a] IN
        /\ k # <<>> /\ k[Len(k)] = row
        /\ \A i \in DOMAIN k : k[i].from = IF i = 1 THEN None ELSE k[i - 1].to
    BY <2>2, <2>3, <2>4, <2>5, ChainAppend
  <2>7. ASSUME NEW b \in Assignments
        PROVE  LET k == asgHistory'[b] IN
               /\ asgStatus'[b] = IF k = <<>> THEN None ELSE k[Len(k)].to
               /\ \A i \in DOMAIN k : k[i].from = IF i = 1 THEN None ELSE k[i - 1].to
    <3>1. CASE b # a
      BY <1>1, <2>3, <3>1 DEF AssignmentHistoryChain
    <3>2. CASE b = a
      BY <2>2, <2>3, <2>6, <3>2
    <3>. QED BY <3>1, <3>2
  <2>. QED BY <2>7 DEF AssignmentHistoryChain
<1>5. ASSUME NEW s \in Sessions, Commit(s), req[s].op \notin AsgOps PROVE AssignmentHistoryChain'
  BY <1>3, <1>5, AtCommit
<1>. QED BY <1>2, <1>3, <1>4, <1>5, NextCases DEF data

\* Every state of every behaviour satisfies the inductive invariant.
THEOREM Invariance == Spec => []IInv
<1>1. Init => IInv
  BY InitIInv
<1>2. IInv /\ [Next]_vars => IInv'
  <2>. SUFFICES ASSUME IInv, [Next]_vars PROVE IInv'
    OBVIOUS
  <2>1. TypeOK'
    BY StepType DEF IInv
  <2>2. \A t \in Sessions : Fine(t)'
    <3>1. CASE \E a \in Assignments : CreateDispatch(a)
      BY <3>1, CreateFine
    <3>2. CASE \E s \in Sessions : Acts(s)
      BY <3>2, SessionsFine
    <3>3. CASE UNCHANGED vars
      <4>1. UNCHANGED <<jobStatus, asgStatus, jobLock, asgLock, pc, req, from, jobFrom, jobTo>>
        BY <3>3 DEF vars, data, jobRows, asgRows, locks
      <4>. QED BY <4>1 DEF IInv, ShapeOK, LocksOK, ReadsOK, Fine, Shape, ShapeReq, Holds, Current,
                            FromCodes, AdvanceTo
    <3>. QED BY <3>1, <3>2, <3>3 DEF Next, Acts
  <2>3. ShapeOK' /\ LocksOK' /\ ReadsOK'
    BY <2>2 DEF ShapeOK, LocksOK, ReadsOK, Fine
  <2>. QED BY <2>1, <2>3, StepSent, StepChain DEF IInv
<1>. QED BY <1>1, <1>2, PTL DEF Spec

-----------------------------------------------------------------------------
(* The properties. *)

\* Every variable keeps its type (TypeOK).
THEOREM TypeCorrect == Spec => []TypeOK
BY Invariance, PTL DEF IInv

\* However requests race for a draft, it is sent to its vendor at most once,
\* and sent_at tells exactly the assignments that were (SentAtMostOnce).
THEOREM NoDoubleSend == Spec => []SentAtMostOnce
BY Invariance, PTL DEF IInv

\* An assignment's history rows form one chain from NULL to its current status
\* (AssignmentHistoryChain).
THEOREM HistoryIsAChain == Spec => []AssignmentHistoryChain
BY Invariance, PTL DEF IInv

\* A writer that locks the job before it reads overwrites what it read
\* (LockedWritersOverwriteWhatTheyRead).
THEOREM NoLostJobUpdate == Spec => []LockedWritersOverwriteWhatTheyRead
<1>1. IInv => LockedWritersOverwriteWhatTheyRead
  BY DEF IInv, ReadsOK, Current, LockedWritersOverwriteWhatTheyRead
<1>. QED BY <1>1, Invariance, PTL

\* Once closed_at is set no request changes it (FirstCloseWins).
THEOREM CloseTimeIsFinal == Spec => FirstCloseWins
<1>1. ASSUME IInv, [Next]_vars, NEW j \in Jobs, closedAt[j] # 0
      PROVE  closedAt'[j] = closedAt[j]
  <2>1. ASSUME NEW s \in Sessions, Commit(s) PROVE closedAt'[j] = closedAt[j]
    <3>1. CASE jobTo[s] = None
      BY <1>1, <2>1, <3>1, AtCommit DEF jobRows
    <3>2. CASE jobTo[s] # None
      <4>1. WriteJob(s) /\ req[s].job \in Jobs
        BY <1>1, <2>1, <3>2, AtCommit
      <4>2. closedAt \in [Jobs -> Nat]
        BY <1>1 DEF IInv, TypeOK, RowTypes
      <4>. QED BY <1>1, <4>1, <4>2 DEF WriteJob, ClosedAt
    <3>. QED BY <3>1, <3>2
  <2>. QED BY <1>1, <2>1, NextCases DEF CreateDispatch, data, jobRows
<1>2. IInv /\ [Next]_vars => [\A j \in Jobs : closedAt[j] # 0 => closedAt'[j] = closedAt[j]]_vars
  BY <1>1
<1>. QED BY <1>2, Invariance, PTL DEF Spec, FirstCloseWins

-----------------------------------------------------------------------------
(* The refinement. *)

\* A send's commit is the contract's Send, the writes of one instant.
LEMMA SendCommits ==
    ASSUME IInv, NEW s \in Sessions, Commit(s), req[s].op = "send"
    PROVE  Contract!Send(req[s].asg)
<1>. DEFINE a == req[s].asg
<1>1. /\ a \in Assignments /\ req[s].job = JobOf[a] /\ req[s].job \in Jobs
      /\ asgStatus[a] = "DRAFT" /\ req[s].to = "SENT" /\ WriteAssignment(s)
      /\ jobStatus[JobOf[a]] \in Dispatchable
      /\ jobTo[s] = None => jobStatus[JobOf[a]] \notin AdvanceFrom /\ UNCHANGED jobRows
      /\ jobTo[s] # None => /\ jobStatus[JobOf[a]] \in AdvanceFrom /\ jobTo[s] = "DISPATCHED"
                            /\ WriteJob(s)
  BY AtCommit DEF AsgOps
<1>2. RowTypes /\ SentAtMostOnce
  BY DEF IInv, TypeOK
<1>3. dispatched[a] = 0
  BY <1>1, <1>2 DEF SentAtMostOnce
<1>4. asgStatus' = [asgStatus EXCEPT ![a] = "SENT"]
  BY <1>1 DEF WriteAssignment
<1>5. dispatched' = [dispatched EXCEPT ![a] = 1]
  <2>1. dispatched' = [dispatched EXCEPT ![a] = dispatched[a] + 1]
    BY DEF Commit, WriteAssignment, AsgOps
  <2>. QED BY <1>3, <2>1
<1>6. jobStatus' = [jobStatus EXCEPT ![JobOf[a]] =
                      IF jobStatus[JobOf[a]] \in AdvanceFrom THEN "DISPATCHED"
                      ELSE jobStatus[JobOf[a]]]
  BY <1>1, <1>2 DEF WriteJob, RowTypes, jobRows
<1>. QED BY <1>1, <1>3, <1>4, <1>5, <1>6 DEF Contract!Send

\* Any other assignment commit is the contract's Move.
LEMMA MoveCommits ==
    ASSUME IInv, NEW s \in Sessions, Commit(s), req[s].op \in {"set", "vendor"}
    PROVE  Contract!Move(req[s].asg, req[s].to)
<1>. DEFINE a == req[s].asg
            to == req[s].to
<1>1. /\ a \in Assignments /\ req[s].job = JobOf[a]
      /\ asgStatus[a] \in AsgCodes \ {to} /\ to \notin {"DRAFT", "SENT"} /\ WriteAssignment(s)
      /\ jobTo[s] = None => UNCHANGED jobRows
      /\ jobTo[s] # None => to \in Milestones /\ jobTo[s] = FollowTo[to] /\ WriteJob(s)
  BY AtCommit DEF AsgOps
<1>2. RowTypes
  BY DEF IInv, TypeOK
<1>3. asgStatus' = [asgStatus EXCEPT ![a] = to]
  BY <1>1 DEF WriteAssignment
<1>4. dispatched' = dispatched
  <2>1. dispatched' = [dispatched EXCEPT ![a] = dispatched[a] + 0]
    BY DEF Commit, WriteAssignment, AsgOps
  <2>. QED BY <1>1, <1>2, <2>1 DEF RowTypes
<1>5. \/ jobStatus' = jobStatus
      \/ to \in Milestones /\ jobStatus' = [jobStatus EXCEPT ![JobOf[a]] = FollowTo[to]]
  BY <1>1 DEF WriteJob, jobRows
<1>. QED BY <1>1, <1>3, <1>4, <1>5, DispatchAssumption DEF Contract!Move

\* A commit of the office's own requests is the contract's SetJob.
LEMMA JobCommits ==
    ASSUME IInv, NEW s \in Sessions, Commit(s), req[s].op \notin AsgOps
    PROVE  \/ \E j \in Jobs, to \in JobCodes : Contract!SetJob(j, to)
           \/ UNCHANGED <<asgStatus, dispatched, jobStatus>>
<1>1. CASE jobTo[s] = None
  BY <1>1, AtCommit DEF asgRows, jobRows
<1>2. CASE jobTo[s] # None
  <2>1. /\ req[s].job \in Jobs /\ jobTo[s] \in JobCodes /\ UNCHANGED asgRows /\ WriteJob(s)
    BY <1>2, AtCommit DEF IInv, TypeOK, SessionTypes
  <2>2. Contract!SetJob(req[s].job, jobTo[s])
    BY <2>1 DEF WriteJob, asgRows, Contract!SetJob
  <2>. QED BY <2>1, <2>2
<1>. QED BY <1>1, <1>2

\* The sessions, locks and transactions implement the serial contract: each
\* commit is one of its steps and everything else is a stutter
\* (ImplementsContract).
THEOREM Refinement == Spec => ImplementsContract
<1>1. Init => Contract!Init
  BY DEF Init, Contract!Init
<1>2. ASSUME IInv, [Next]_vars
      PROVE  [Contract!Next]_<<asgStatus, dispatched, jobStatus>>
  <2>1. ASSUME NEW a \in Assignments, CreateDispatch(a) PROVE Contract!Next
    <3>1. Contract!Draft(a)
      BY <2>1 DEF CreateDispatch, jobRows, Contract!Draft
    <3>. QED BY <3>1 DEF Contract!Next
  <2>2. ASSUME NEW s \in Sessions, Commit(s)
        PROVE  [Contract!Next]_<<asgStatus, dispatched, jobStatus>>
    <3>1. CASE req[s].op = "send"
      BY <1>2, <2>2, <3>1, SendCommits, AtCommit DEF Contract!Next, AsgOps
    <3>2. CASE req[s].op \in {"set", "vendor"}
      BY <1>2, <2>2, <3>2, MoveCommits, AtCommit DEF Contract!Next, AsgOps
    <3>3. CASE req[s].op \notin AsgOps
      BY <1>2, <2>2, <3>3, JobCommits DEF Contract!Next
    <3>. QED BY <3>1, <3>2, <3>3 DEF AsgOps
  <2>3. CASE UNCHANGED data
    BY <2>3 DEF data, jobRows, asgRows
  <2>. QED BY <1>2, <2>1, <2>2, <2>3, NextCases
<1>. QED BY <1>1, <1>2, Invariance, PTL DEF Spec, ImplementsContract, Contract!Spec

\* A send commits only while its job is dispatchable and moves it only from NEW
\* or SCHEDULED, to DISPATCHED (SendRespectsJob).
THEOREM SendRespectsItsJob == Spec => SendRespectsJob
<1>1. ASSUME IInv, [Next]_vars, NEW a \in Assignments, ~sent[a], sent'[a]
      PROVE  /\ jobStatus[JobOf[a]] \in Dispatchable
             /\ jobStatus'[JobOf[a]] = IF jobStatus[JobOf[a]] \in AdvanceFrom THEN "DISPATCHED"
                                       ELSE jobStatus[JobOf[a]]
  <2>1. PICK s \in Sessions : Commit(s)
    BY <1>1, NextCases DEF CreateDispatch, data, asgRows
  <2>2. req[s].op = "send" /\ req[s].asg = a
    <3>1. req[s].op \in AsgOps
      BY <1>1, <2>1, AtCommit DEF asgRows
    <3>2. WriteAssignment(s) /\ req[s].asg \in Assignments /\ sent \in [Assignments -> BOOLEAN]
      BY <1>1, <2>1, <3>1, AtCommit DEF IInv, TypeOK, RowTypes
    <3>3. a # req[s].asg => sent'[a] = sent[a]
      BY <3>2 DEF WriteAssignment
    <3>4. sent'[req[s].asg] = (sent[req[s].asg] \/ req[s].op = "send")
      BY <3>2, Zenon DEF WriteAssignment
    <3>. QED BY <1>1, <3>3, <3>4
  <2>3. Contract!Send(a)
    BY <1>1, <2>1, <2>2, SendCommits
  <2>4. jobStatus \in [Jobs -> JobCodes] /\ JobOf[a] \in Jobs
    BY <1>1, DispatchAssumption DEF IInv, TypeOK, RowTypes
  <2>. QED BY <2>3, <2>4 DEF Contract!Send
<1>2. IInv /\ [Next]_vars =>
        [\A a \in Assignments :
           ~sent[a] /\ sent'[a] =>
              LET old == jobStatus[JobOf[a]]  new == jobStatus'[JobOf[a]] IN
              /\ old \in Dispatchable
              /\ new = IF old \in AdvanceFrom THEN "DISPATCHED" ELSE old]_vars
  BY <1>1
<1>. QED BY <1>2, Invariance, PTL DEF Spec, SendRespectsJob

-----------------------------------------------------------------------------
(* Who holds a row lock. *)

\* The converse of Holds: a lock has a holder that has a use for it, so that a
\* request that ended left none behind.
HasJob(t, j) ==
    /\ req[t].job = j
    /\ \/ req[t].op = "send" /\ pc[t] \in {"lockAsg"} \cup AsgLocked
       \/ req[t].op \in JobOps /\ pc[t] \in {"lockStatus"} \cup AsgLocked
       \/ req[t].op \in {"set", "vendor"} /\ pc[t] \in Written /\ jobTo[t] # None

HasAsg(t, a) == req[t].op \in AsgOps /\ req[t].asg = a /\ pc[t] \in AsgLocked

HasStatus(t, c) == req[t].op \in {"jobset", "ready"} /\ from[t] = c /\ pc[t] \in AsgLocked

LocksHaveUse ==
    /\ \A j \in Jobs, t \in Sessions : jobLock[j] = t => HasJob(t, j)
    /\ \A a \in Assignments, t \in Sessions : asgLock[a] = t => HasAsg(t, a)
    /\ \A c \in JobCodes, t \in Sessions : statusLock[c] = t => HasStatus(t, c)

\* A step of s gives no lock to another session.
LEMMA LocksGoToSelf ==
    ASSUME TypeOK, NEW s \in Sessions, Acts(s), NEW t \in Sessions, t # s
    PROVE  /\ \A j \in Jobs : jobLock'[j] = t => jobLock[j] = t
           /\ \A a \in Assignments : asgLock'[a] = t => asgLock[a] = t
           /\ \A c \in JobCodes : statusLock'[c] = t => statusLock[c] = t
<1>. USE DispatchAssumption DEF LockTypes, TypeOK
<1>1. Release(s) => /\ \A j \in Jobs : jobLock'[j] = t => jobLock[j] = t
                    /\ \A a \in Assignments : asgLock'[a] = t => asgLock[a] = t
                    /\ \A c \in JobCodes : statusLock'[c] = t => statusLock[c] = t
  BY DEF Release
<1>2. CASE Arrive(s)
  BY <1>2 DEF Arrive, SendDispatch, SetAssignmentStatus, PerformTransition, SetJobStatus,
              MarkJobReadyToBill, MarkBillingClosed, Start, locks
<1>3. CASE Begin(s) \/ CountActive(s) \/ ReadJob(s) \/ ShareTo(s) \/ ShareFrom(s)
  BY <1>3 DEF Begin, CountActive, ReadJob, ShareTo, ShareFrom, locks
<1>4. CASE UpdateJob(s) \/ SendLocksJob(s) \/ SelectLocksJob(s)
  BY <1>4 DEF UpdateJob, SendLocksJob, SelectLocksJob, AtJobLock, TakeJob
<1>5. CASE JobSetLocksStatus(s) \/ ReadyLocksStatus(s) \/ CloseLocksJob(s)
  BY <1>1, <1>5 DEF JobSetLocksStatus, ReadyLocksStatus, CloseLocksJob, AtJobLock, Leave, TakeJob,
              TakeStatus
<1>6. CASE SendLocksAsg(s) \/ SetLocksAsg(s) \/ VendorLocksAsg(s)
  BY <1>1, <1>6 DEF SendLocksAsg, SetLocksAsg, VendorLocksAsg, AtAsgLock, Leave, TakeAsg
<1>7. CASE Commit(s) \/ DeadlockVictim(s) \/ ConnectionLost(s)
  BY <1>1, <1>7 DEF Commit, DeadlockVictim, ConnectionLost, Leave
<1>. QED BY <1>2, <1>3, <1>4, <1>5, <1>6, <1>7 DEF Acts, Step

\* A session's own locks have a use after each of its steps.
LEMMA OwnLocks ==
    ASSUME IInv, LocksHaveUse, NEW s \in Sessions, Acts(s)
    PROVE  /\ \A j \in Jobs : jobLock'[j] = s => HasJob(s, j)'
           /\ \A a \in Assignments : asgLock'[a] = s => HasAsg(s, a)'
           /\ \A c \in JobCodes : statusLock'[c] = s => HasStatus(s, c)'
<1>. USE DispatchAssumption
<1>. DEFINE Goal == /\ \A j \in Jobs : jobLock'[j] = s => HasJob(s, j)'
                    /\ \A a \in Assignments : asgLock'[a] = s => HasAsg(s, a)'
                    /\ \A c \in JobCodes : statusLock'[c] = s => HasStatus(s, c)'
<1>0. /\ TypeOK /\ Shape(s) /\ Holds(s)
      /\ \A j \in Jobs : jobLock[j] = s => HasJob(s, j)
      /\ \A a \in Assignments : asgLock[a] = s => HasAsg(s, a)
      /\ \A c \in JobCodes : statusLock[c] = s => HasStatus(s, c)
  BY DEF IInv, ShapeOK, LocksOK, LocksHaveUse
<1>1. Release(s) => Goal
  BY <1>0 DEF Release, TypeOK, LockTypes
\* The locks are those it had; it has the same use for them.
<1>2. ASSUME UNCHANGED locks, req' = req,
             \A j : HasJob(s, j) => HasJob(s, j)', \A a : HasAsg(s, a) => HasAsg(s, a)',
             \A c : HasStatus(s, c) => HasStatus(s, c)'
      PROVE  Goal
  BY <1>0, <1>2 DEF locks
<1>3. CASE Arrive(s)
  <2>1. pc[s] = "idle" /\ UNCHANGED locks
    BY <1>3 DEF Arrive, SendDispatch, SetAssignmentStatus, PerformTransition, SetJobStatus,
                MarkJobReadyToBill, MarkBillingClosed, Start
  <2>. QED BY <1>0, <2>1 DEF HasJob, HasAsg, HasStatus, AsgLocked, Written, locks
<1>4. CASE Begin(s)
  <2>1. pc[s] = "begin" /\ UNCHANGED locks
    BY <1>4 DEF Begin
  <2>. QED BY <1>0, <2>1 DEF HasJob, HasAsg, HasStatus, AsgLocked, Written, locks
<1>5. CASE CountActive(s)
  <2>1. /\ pc[s] = "count" /\ pc'[s] \in {"readJob", "commit"}
        /\ UNCHANGED <<locks, req, from, jobTo>>
    BY <1>0, <1>5 DEF CountActive, Goto, TypeOK, SessionTypes
  <2>. QED BY <1>0, <1>2, <2>1 DEF HasJob, HasAsg, HasStatus, AsgLocked, Written, Shape
<1>13. CASE ShareTo(s) \/ ShareFrom(s)
  <2>1. /\ pc[s] \in {"shareTo", "shareFrom"} /\ pc'[s] \in {"shareFrom", "commit"}
        /\ UNCHANGED <<locks, req, from, jobTo>>
    BY <1>0, <1>13 DEF ShareTo, ShareFrom, Goto, TypeOK, SessionTypes
  <2>. QED BY <1>0, <1>2, <2>1 DEF HasJob, HasAsg, HasStatus, AsgLocked, Written
<1>6. CASE ReadJob(s)
  <2>1. /\ pc[s] = "readJob" /\ pc'[s] \in {"updateJob", "commit"}
        /\ UNCHANGED <<locks, req, from>>
    BY <1>0, <1>6 DEF ReadJob, Goto, TypeOK, SessionTypes
  <2>. QED BY <1>0, <1>2, <2>1 DEF HasJob, HasAsg, HasStatus, AsgLocked, Written
<1>7. ASSUME TakeJob(s), pc[s] \in {"lockJob", "updateJob"}, 
             req[s].op = "send" => pc'[s] \in {"lockAsg"} \cup AsgLocked,
             req[s].op \in JobOps => pc'[s] \in {"lockStatus"} \cup AsgLocked,
             req[s].op \in {"set", "vendor"} => pc'[s] \in Written /\ jobTo'[s] # None,
             pc[s] = "updateJob" => pc'[s] \in AsgLocked
      PROVE  Goal
  <2>1. req[s].job \in Jobs /\ req[s].op \in AsgOps \cup JobOps
    BY <1>0, <1>7, RequestRows DEF TypeOK
  <2>2. /\ jobLock' = [jobLock EXCEPT ![req[s].job] = s]
        /\ asgLock' = asgLock /\ statusLock' = statusLock /\ req' = req /\ from' = from
    BY <1>7 DEF TakeJob
  <2>3. HasJob(s, req[s].job)'
    BY <1>7, <2>1, <2>2 DEF HasJob, AsgOps
  <2>4. \A j \in Jobs : jobLock'[j] = s => j = req[s].job
    BY <1>0, <2>1, <2>2 DEF HasJob, TypeOK, LockTypes
  <2>5. \A a : HasAsg(s, a) => HasAsg(s, a)'
    BY <1>7, <2>2 DEF HasAsg, AsgLocked
  <2>6. \A c : HasStatus(s, c) => HasStatus(s, c)'
    BY <1>7, <2>2 DEF HasStatus, AsgLocked
  <2>. QED BY <1>0, <2>2, <2>3, <2>4, <2>5, <2>6
<1>8. CASE SendLocksJob(s)
  BY <1>0, <1>7, <1>8
     DEF SendLocksJob, AtJobLock, Goto, TypeOK, SessionTypes, JobOps, AsgLocked
<1>9. CASE SelectLocksJob(s) \/ CloseLocksJob(s)
  <2>1. CASE Leave(s)
    BY <1>1, <2>1 DEF Leave
  <2>2. CASE ~Leave(s)
    <3>1. /\ TakeJob(s) /\ pc[s] = "lockJob" /\ pc'[s] \in {"lockStatus"} \cup AsgLocked
          /\ req[s].op \in JobOps
      BY <1>0, <1>9, <2>2 DEF SelectLocksJob, CloseLocksJob, AtJobLock, Goto, TypeOK, SessionTypes,
                               JobOps, AsgLocked
    <3>. QED BY <1>7, <3>1 DEF JobOps
  <2>. QED BY <2>1, <2>2
<1>14. CASE JobSetLocksStatus(s) \/ ReadyLocksStatus(s)
  <2>1. CASE Leave(s)
    BY <1>1, <2>1 DEF Leave
  <2>2. CASE ~Leave(s)
    <3>1. /\ TakeStatus(s) /\ pc[s] = "lockStatus" /\ pc'[s] \in AsgLocked
          /\ req[s].op \in {"jobset", "ready"}
      BY <1>0, <1>14, <2>2 DEF JobSetLocksStatus, ReadyLocksStatus, AtStatusLock, Goto, TypeOK,
                               SessionTypes, AsgLocked
    <3>2. /\ statusLock' = [statusLock EXCEPT ![from[s]] = s]
          /\ UNCHANGED <<jobLock, asgLock, req, from>>
      BY <3>1 DEF TakeStatus
    <3>3. HasStatus(s, from[s])'
      BY <3>1, <3>2 DEF HasStatus
    <3>4. \A c \in JobCodes : statusLock'[c] = s => c = from[s]
      BY <1>0, <3>1, <3>2 DEF HasStatus, AsgLocked, TypeOK, LockTypes
    <3>5. \A j : HasJob(s, j) => HasJob(s, j)'
      BY <3>1, <3>2 DEF HasJob, JobOps
    <3>6. \A a : ~HasAsg(s, a)
      BY <3>1 DEF HasAsg, AsgOps
    <3>. QED BY <1>0, <3>2, <3>3, <3>4, <3>5, <3>6
  <2>. QED BY <2>1, <2>2
<1>10. CASE UpdateJob(s)
  BY <1>0, <1>7, <1>10 DEF UpdateJob, Goto, TypeOK, SessionTypes, AsgLocked, Written, Shape
<1>11. CASE SendLocksAsg(s) \/ SetLocksAsg(s) \/ VendorLocksAsg(s)
  <2>1. CASE Leave(s)
    BY <1>1, <2>1 DEF Leave
  <2>2. CASE ~Leave(s)
    <3>1. /\ pc[s] = "lockAsg" /\ req[s].op \in AsgOps /\ pc'[s] \in AsgLocked
          /\ \E cur : TakeAsg(s, cur)
      BY <1>0, <1>11, <2>2 DEF SendLocksAsg, SetLocksAsg, VendorLocksAsg, AtAsgLock, Goto,
                               AfterAsgWrite, TypeOK, SessionTypes, AsgOps, AsgLocked
    <3>2. req[s].asg \in Assignments
      BY <1>0, <3>1, RequestRows DEF TypeOK
    <3>3. /\ asgLock' = [asgLock EXCEPT ![req[s].asg] = s]
          /\ UNCHANGED <<jobLock, statusLock, req>>
      BY <3>1 DEF TakeAsg
    <3>4. HasAsg(s, req[s].asg)'
      BY <3>1, <3>3 DEF HasAsg
    <3>5. \A a \in Assignments : asgLock'[a] = s => a = req[s].asg
      BY <1>0, <3>2, <3>3 DEF HasAsg, TypeOK, LockTypes
    <3>6. \A j : HasJob(s, j) => HasJob(s, j)'
      BY <3>1, <3>3 DEF HasJob, AsgLocked, Written, JobOps, AsgOps
    <3>7. \A c : ~HasStatus(s, c)
      BY <3>1 DEF HasStatus, AsgOps
    <3>. QED BY <1>0, <3>3, <3>4, <3>5, <3>6, <3>7
  <2>. QED BY <2>1, <2>2
<1>12. CASE Commit(s) \/ DeadlockVictim(s) \/ ConnectionLost(s)
  BY <1>1, <1>12 DEF Commit, DeadlockVictim, ConnectionLost, Leave
<1>. QED BY <1>3, <1>4, <1>5, <1>6, <1>8, <1>9, <1>10, <1>11, <1>12, <1>13,
            <1>14
         DEF Acts, Step

LEMMA StepLocks == ASSUME IInv, LocksHaveUse, [Next]_vars PROVE LocksHaveUse'
<1>1. ASSUME NEW s \in Sessions, Acts(s) PROVE LocksHaveUse'
  <2>1. ASSUME NEW t \in Sessions, t # s
        PROVE  /\ \A j \in Jobs : jobLock'[j] = t => HasJob(t, j)'
               /\ \A a \in Assignments : asgLock'[a] = t => HasAsg(t, a)'
               /\ \A c \in JobCodes : statusLock'[c] = t => HasStatus(t, c)'
    <3>1. pc'[t] = pc[t] /\ req'[t] = req[t] /\ from'[t] = from[t] /\ jobTo'[t] = jobTo[t]
      BY <1>1, <2>1, SessionFrame DEF IInv, TypeOK
    <3>2. /\ \A j \in Jobs : jobLock'[j] = t => HasJob(t, j)
          /\ \A a \in Assignments : asgLock'[a] = t => HasAsg(t, a)
          /\ \A c \in JobCodes : statusLock'[c] = t => HasStatus(t, c)
      BY <1>1, <2>1, LocksGoToSelf DEF IInv, LocksHaveUse
    <3>. QED BY <3>1, <3>2 DEF HasJob, HasAsg, HasStatus
  <2>. QED BY <1>1, <2>1, OwnLocks DEF LocksHaveUse
<1>2. CASE UNCHANGED <<locks, pc, req, from, jobTo>>
  BY <1>2 DEF LocksHaveUse, HasJob, HasAsg, HasStatus, locks
<1>3. CASE UNCHANGED vars
  BY <1>2, <1>3 DEF vars
<1>4. ASSUME NEW a \in Assignments, CreateDispatch(a) PROVE LocksHaveUse'
  BY <1>2, <1>4 DEF CreateDispatch
<1>. QED BY <1>1, <1>3, <1>4 DEF Next, Acts

LEMMA LocksInvariance == Spec => []LocksHaveUse
<1>1. Init => LocksHaveUse
  BY DispatchAssumption DEF Init, LocksHaveUse
<1>2. IInv /\ LocksHaveUse /\ [Next]_vars => LocksHaveUse'
  BY StepLocks
<1>. QED BY <1>1, <1>2, Invariance, PTL DEF Spec

IdleHoldNothing ==
    \A s \in Sessions : pc[s] \in {"idle", "begin"} =>
        /\ \A j \in Jobs : jobLock[j] # s
        /\ \A a \in Assignments : asgLock[a] # s
        /\ \A c \in JobCodes : statusLock[c] # s

\* No lock outlives its transaction: a request that is done, was refused, lost its
\* connection or was a deadlock's victim holds no row, and a request may only ever
\* wait for one that is in a transaction of its own.
THEOREM NoLeakedLocks == Spec => []IdleHoldNothing
<1>1. LocksHaveUse => IdleHoldNothing
  BY DEF LocksHaveUse, HasJob, HasAsg, HasStatus, AsgLocked, Written, IdleHoldNothing
<1>. QED BY <1>1, LocksInvariance, PTL

\* A wait for a row of a job or of an assignment.
RowWait(s, t) == s # t /\ WaitsForRow(s, t)

OfficeMove(s) == req[s].op \in {"jobset", "ready"}

\* A wait for a status row is between two jobs, and an office's move is part of it.
StatusWaitsAreOfOfficeMoves ==
    \A s, t \in Sessions : s # t /\ WaitsForStatus(s, t) =>
        req[s].job # req[t].job /\ (OfficeMove(s) \/ OfficeMove(t))

\* Four waits in a row either come back to where they were two waits before, or
\* pass through a status row.
RowWaitsAreShort ==
    \A s, t, u, v, x \in Sessions :
        WaitsFor(s, t) /\ WaitsFor(t, u) /\ WaitsFor(u, v) /\ WaitsFor(v, x) =>
            \/ v = t \/ x = u
            \/ WaitsForStatus(s, t) \/ WaitsForStatus(t, u)
            \/ WaitsForStatus(u, v) \/ WaitsForStatus(v, x)

WaitsOK == RowWaitsAreShort /\ StatusWaitsAreOfOfficeMoves

LEMMA StatusWaits == IInv /\ LocksHaveUse => StatusWaitsAreOfOfficeMoves
<1>. SUFFICES ASSUME IInv, LocksHaveUse, NEW s \in Sessions, NEW t \in Sessions, s # t,
                     WaitsForStatus(s, t)
              PROVE  req[s].job # req[t].job /\ (OfficeMove(s) \/ OfficeMove(t))
  BY DEF StatusWaitsAreOfOfficeMoves
<1>1. /\ Shape(s) /\ Holds(s) /\ Shape(t) /\ Holds(t) /\ TypeOK
      /\ pc[s] \in {"lockStatus", "shareTo", "shareFrom"}
  BY DEF IInv, ShapeOK, LocksOK, WaitsForStatus
\* Who waits has its own job.
<1>2. jobLock[req[s].job] = s /\ (pc[s] = "lockStatus" => OfficeMove(s))
  BY <1>1 DEF Shape, Holds, Written, JobOps, OfficeMove
<1>3. /\ pc[s] = "lockStatus" => from[s] \in JobCodes
      /\ pc[s] = "shareTo" => jobTo[s] \in JobCodes
      /\ pc[s] = "shareFrom" => jobFrom[s] \in JobCodes
  BY <1>1 DEF Shape, TypeOK, SessionTypes, FromCodes, FollowFrom, AdvanceFrom, JobCodes, Milestones
\* So does who is waited for.
<1>4. CASE \E c \in JobCodes : statusLock[c] = t
  <2>1. OfficeMove(t) /\ jobLock[req[t].job] = t
    BY <1>1, <1>4 DEF LocksHaveUse, HasStatus, OfficeMove, Holds, JobOps
  <2>. QED BY <1>2, <2>1
<1>5. CASE pc[s] = "lockStatus" /\ Shares(t, from[s])
  <2>1. jobLock[req[t].job] = t
    BY <1>1, <1>5 DEF Shares, Holds, Written
  <2>. QED BY <1>2, <1>5, <2>1
<1>. QED BY <1>3, <1>4, <1>5 DEF WaitsForStatus

\* A waiter that is waited for is a send at its assignment, with the job locked, or
\* a follow at its job, with the assignment locked.
LEMMA WaitersHold ==
    ASSUME IInv, LocksHaveUse, NEW s \in Sessions, NEW t \in Sessions, NEW u \in Sessions,
           RowWait(s, t), RowWait(t, u)
    PROVE  \/ /\ pc[t] = "lockAsg" /\ req[t].op = "send" /\ req[t].asg \in Assignments
              /\ req[t].job = JobOf[req[t].asg] /\ jobLock[req[t].job] = t
              /\ asgLock[req[t].asg] = u
           \/ /\ pc[t] = "updateJob" /\ req[t].op \in {"set", "vendor"}
              /\ req[t].job = JobOf[req[t].asg] /\ jobLock[req[t].job] = u
<1>1. /\ Shape(t) /\ Holds(t) /\ Shape(s) /\ TypeOK
      /\ pc[t] \in {"lockJob", "updateJob", "lockAsg"} /\ pc[s] # "idle" /\ pc[t] # "idle"
  BY DEF IInv, ShapeOK, LocksOK, RowWait, WaitsForRow, Shape
<1>2. /\ req[t].job \in Jobs /\ req[s].job \in Jobs
      /\ req[t].op \in AsgOps \cup JobOps
      /\ req[t].op \in AsgOps => req[t].asg \in Assignments
      /\ req[s].op \in AsgOps => req[s].asg \in Assignments
  BY <1>1, RequestRows DEF TypeOK
<1>3. \/ \E j \in Jobs : jobLock[j] = t
      \/ \E a \in Assignments : asgLock[a] = t
  BY <1>1, <1>2 DEF RowWait, WaitsForRow, Shape
<1>4. \/ \E j \in Jobs : HasJob(t, j)
      \/ \E a \in Assignments : HasAsg(t, a)
  BY <1>3 DEF LocksHaveUse
<1>5. CASE pc[t] = "lockJob"
  BY <1>4, <1>5 DEF HasJob, HasAsg, AsgLocked, Written
<1>6. CASE pc[t] = "lockAsg"
  <2>1. req[t].op = "send" /\ jobLock[req[t].job] = t
    BY <1>1, <1>4, <1>6 DEF HasJob, HasAsg, AsgLocked, Written, Shape, AsgOps, JobOps, Holds
  <2>2. asgLock[req[t].asg] = u
    BY <1>6 DEF RowWait, WaitsForRow
  <2>. QED BY <1>1, <1>2, <1>6, <2>1, <2>2 DEF Shape, ShapeReq, AsgOps
<1>7. CASE pc[t] = "updateJob"
  <2>1. jobLock[req[t].job] = u /\ t # u
    BY <1>7 DEF RowWait, WaitsForRow
  <2>2. req[t].op \in {"set", "vendor"}
    BY <1>1, <1>2, <1>7, <2>1 DEF Holds, AsgLocked, AsgOps, JobOps
  <2>. QED BY <1>1, <1>7, <2>1, <2>2 DEF Shape, ShapeReq, AsgOps
<1>. QED BY <1>1, <1>5, <1>6, <1>7

\* A send that is waited for waits for a request that, if it waits too, waits for it.
LEMMA SendsWaitInPairs ==
    ASSUME IInv, LocksHaveUse, NEW t \in Sessions, NEW u \in Sessions, NEW v \in Sessions,
           req[t].op = "send", pc[t] = "lockAsg", req[t].asg \in Assignments,
           req[t].job = JobOf[req[t].asg], jobLock[req[t].job] = t, asgLock[req[t].asg] = u,
           RowWait(t, u), RowWait(u, v)
    PROVE  v = t
<1>1. req[u].asg = req[t].asg /\ pc[u] \in AsgLocked
  BY DEF LocksHaveUse, HasAsg
<1>2. req[u].job = JobOf[req[u].asg] /\ jobLock[req[u].job] = v
  BY <1>1, WaitersHold DEF AsgLocked
<1>. QED BY <1>1, <1>2

\* The deadlocks Postgres finds in this code.  A send takes the job before the
\* assignment, a follow the assignment before the job, and both take rows of one job
\* only: a circle over those rows is a pair.  A longer one passes through a status
\* row, between requests on different jobs, and there one of the two is a manual move
\* or a handoff, whose FOR UPDATE of the join locks the status (WaitsOK).
THEOREM LongDeadlocksAreOfOfficeMoves == Spec => []WaitsOK
<1>1. ASSUME IInv, LocksHaveUse PROVE RowWaitsAreShort
  <2>. SUFFICES ASSUME NEW s \in Sessions, NEW t \in Sessions, NEW u \in Sessions,
                       NEW v \in Sessions, NEW x \in Sessions,
                       RowWait(s, t), RowWait(t, u), RowWait(u, v), RowWait(v, x)
                PROVE  v = t \/ x = u
    BY DEF RowWaitsAreShort, WaitsFor, RowWait
  <2>1. TypeOK /\ t # u
    BY <1>1 DEF IInv, RowWait
  <2>2. CASE pc[t] = "lockAsg"
    BY <1>1, <2>2, WaitersHold, SendsWaitInPairs
  \* The follow waits for the job's holder, which waits too: it is a send.
  <2>3. CASE pc[t] = "updateJob"
    <3>1. jobLock[req[t].job] = u /\ req[t].job \in Jobs
      BY <1>1, <2>1, <2>3, RequestRows DEF IInv, ShapeOK, TypeOK, RowWait, WaitsForRow
    <3>2. HasJob(u, req[t].job)
      BY <1>1, <3>1 DEF LocksHaveUse
    <3>3. pc[u] = "lockAsg"
      BY <1>1, <3>2, WaitersHold DEF HasJob, AsgLocked, Written, JobOps
    <3>. QED BY <1>1, <3>3, WaitersHold, SendsWaitInPairs
  <2>. QED BY <1>1, <2>2, <2>3, WaitersHold
<1>2. IInv /\ LocksHaveUse => WaitsOK
  BY <1>1, StatusWaits DEF WaitsOK
<1>. QED BY <1>2, Invariance, LocksInvariance, PTL

-----------------------------------------------------------------------------
(* The auto-follow when vendors alone report milestones.  It reads the job  *)
(* with no lock, so what keeps its guard true until it commits is that      *)
(* nobody else who writes the job can be under way: two followers would     *)
(* each have counted the other's dispatch as active.                        *)

\* No operator sets a milestone, and nobody writes the job but sends, follows and
\* an operator who leaves it where a follow may start.
VendorsAlone ==
    /\ OperatorTargets \cap Milestones = {}
    /\ JobTargets \subseteq AdvanceFrom \cup {"DISPATCHED"}
    /\ OfficeOps = {}

FiniteRows == IsFiniteSet({a \in Assignments : asgStatus[a] # None})

\* The requests that come in, and what a vendor's has found under its lock.
Admitted(s) ==
    LET r == req[s] IN
    /\ r.op = "set" => r.to \notin Milestones
    /\ r.op = "jobset" => r.to \in AdvanceFrom \cup {"DISPATCHED"}
    /\ r.op \notin {"ready", "close"}
    /\ r.op = "vendor" /\ pc[s] \in AsgLocked => from[s] = VendorFrom[r.to]

\* From the count that found it alone to the commit that writes the job.
Follows(s) ==
    /\ req[s].op \in {"set", "vendor"}
    /\ pc[s] \in {"readJob", "updateJob"} \/ (pc[s] \in Written /\ jobTo[s] # None)

OneFollower ==
    \A s, t \in Sessions : Follows(s) /\ Follows(t) /\ req[s].job = req[t].job => s = t

FollowsCurrent ==
    \A s \in Sessions :
        Follows(s) /\ pc[s] # "readJob" => jobStatus[req[s].job] \in FollowFrom[req[s].to]

FollowInv == /\ FiniteRows /\ OneFollower /\ FollowsCurrent
             /\ \A s \in Sessions : Admitted(s)

\* One more row, or rows that were there already.
LEMMA StepFinite == ASSUME IInv, FiniteRows, [Next]_vars PROVE FiniteRows'
<1>. DEFINE Rows == {a \in Assignments : asgStatus[a] # None}
<1>1. IsFiniteSet(Rows) /\ asgStatus \in [Assignments -> AsgCodes \cup {None}]
  BY DEF FiniteRows, IInv, TypeOK, RowTypes
<1>2. ASSUME NEW a \in Assignments, CreateDispatch(a) PROVE Rows' \subseteq Rows \cup {a}
  BY <1>1, <1>2 DEF CreateDispatch
<1>3. ASSUME NEW s \in Sessions, Commit(s) PROVE Rows' \subseteq Rows
  <2>1. CASE req[s].op \in AsgOps
    <3>1. /\ asgStatus' = [asgStatus EXCEPT ![req[s].asg] = req[s].to]
          /\ asgStatus[req[s].asg] # None
      <4>1. WriteAssignment(s) /\ from[s] = asgStatus[req[s].asg] /\ from[s] \in AsgCodes
        BY <1>3, <2>1, AtCommit
      <4>. QED BY <4>1, DispatchAssumption DEF WriteAssignment
    <3>. QED BY <1>1, <3>1
  <2>2. CASE req[s].op \notin AsgOps
    BY <1>3, <2>2, AtCommit DEF asgRows
  <2>. QED BY <2>1, <2>2
<1>4. CASE UNCHANGED data
  BY <1>4 DEF data, asgRows, FiniteRows
<1>5. ASSUME NEW a \in Assignments, CreateDispatch(a) PROVE IsFiniteSet(Rows')
  <2>1. IsFiniteSet(Rows \cup {a}) /\ Rows' \subseteq Rows \cup {a}
    BY <1>1, <1>2, <1>5, FS_AddElement
  <2>. HIDE DEF Rows
  <2>. QED BY <2>1, FS_Subset
<1>6. ASSUME NEW s \in Sessions, Commit(s) PROVE IsFiniteSet(Rows')
  <2>1. IsFiniteSet(Rows) /\ Rows' \subseteq Rows
    BY <1>1, <1>3, <1>6
  <2>. HIDE DEF Rows
  <2>. QED BY <2>1, FS_Subset
<1>. QED BY <1>4, <1>5, <1>6, NextCases DEF FiniteRows

\* A request is admitted as one of those, and reads what a vendor's action requires.
LEMMA OwnAdmitted ==
    ASSUME VendorsAlone, IInv, NEW s \in Sessions, Admitted(s), Acts(s)
    PROVE  Admitted(s)'
<1>. USE DEF Admitted
<1>1. Shape(s) /\ SessionTypes /\ TypeOK
  BY DEF IInv, ShapeOK, TypeOK
<1>2. Release(s) => Admitted(s)'
  BY <1>1, DispatchAssumption DEF Release, NoRequest, SessionTypes, AsgOps, JobOps
<1>3. CASE Arrive(s)
  <2>1. pc'[s] = "begin"
    BY <1>1, <1>3 DEF Arrive, SendDispatch, SetAssignmentStatus, PerformTransition, SetJobStatus,
                MarkJobReadyToBill, MarkBillingClosed, Start, SessionTypes
  <2>2. /\ req'[s].op = "set" => req'[s].to \in OperatorTargets
        /\ req'[s].op = "jobset" => req'[s].to \in JobTargets
        /\ req'[s].op = "ready" => "ready" \in OfficeOps
        /\ req'[s].op = "close" => "close" \in OfficeOps
    BY <1>1, <1>3 DEF Arrive, SendDispatch, SetAssignmentStatus, PerformTransition, SetJobStatus,
                MarkJobReadyToBill, MarkBillingClosed, Start, SessionTypes
  <2>. QED BY <2>1, <2>2 DEF VendorsAlone, AsgLocked
<1>4. CASE Begin(s) \/ SendLocksJob(s) \/ SelectLocksJob(s)
  BY <1>1, <1>4 DEF Begin, SendLocksJob, SelectLocksJob, TakeJob, Goto, Remember, SessionTypes,
                    AsgLocked
<1>5. CASE JobSetLocksStatus(s) \/ ReadyLocksStatus(s) \/ CloseLocksJob(s)
  BY <1>1, <1>2, <1>5 DEF JobSetLocksStatus, ReadyLocksStatus, CloseLocksJob, AtJobLock,
                          AtStatusLock, Leave, TakeJob, TakeStatus, SessionTypes
<1>6. CASE SendLocksAsg(s) \/ SetLocksAsg(s)
  BY <1>1, <1>2, <1>6 DEF SendLocksAsg, SetLocksAsg, AtAsgLock, Leave, TakeAsg, SessionTypes
<1>7. CASE VendorLocksAsg(s)
  BY <1>1, <1>2, <1>7 DEF VendorLocksAsg, AtAsgLock, Leave, TakeAsg, SessionTypes
<1>8. CASE CountActive(s) \/ ReadJob(s) \/ UpdateJob(s) \/ ShareTo(s) \/ ShareFrom(s)
  BY <1>1, <1>8 DEF CountActive, ReadJob, UpdateJob, ShareTo, ShareFrom, TakeJob, AsgLocked
<1>9. CASE Commit(s) \/ DeadlockVictim(s) \/ ConnectionLost(s)
  BY <1>2, <1>9 DEF Commit, DeadlockVictim, ConnectionLost, Leave
<1>. QED BY <1>3, <1>4, <1>5, <1>6, <1>7, <1>8, <1>9 DEF Acts, Step

\* A follow begins at a count of one and goes on from the read, whose guard held.
LEMMA OwnFollow ==
    ASSUME IInv, NEW s \in Sessions, Acts(s), Follows(s)'
    PROVE  /\ req'[s] = req[s] /\ req[s].op \in {"set", "vendor"}
           /\ UNCHANGED data
           /\ \/ pc[s] = "count" /\ Cardinality(ActiveSeenBy(s)) = 1 /\ pc'[s] = "readJob"
              \/ /\ Follows(s) /\ pc[s] = "readJob"
                 /\ jobStatus[req[s].job] \in FollowFrom[req[s].to]
              \/ Follows(s) /\ pc[s] # "readJob"
<1>1. Shape(s) /\ SessionTypes
  BY DEF IInv, ShapeOK, TypeOK
<1>2. ~Release(s)
  BY <1>1, DispatchAssumption DEF Release, NoRequest, Follows, Written, SessionTypes, AsgOps
<1>3. ~Arrive(s)
  BY <1>1 DEF Arrive, SendDispatch, SetAssignmentStatus, PerformTransition, SetJobStatus,
              MarkJobReadyToBill, MarkBillingClosed, Start, Follows, Written, SessionTypes
<1>4. CASE Begin(s) \/ SendLocksJob(s) \/ SelectLocksJob(s)
  BY <1>1, <1>4 DEF Begin, SendLocksJob, SelectLocksJob, AtJobLock, TakeJob, Goto, Remember, Follows,
                    Written, SessionTypes
<1>5. CASE JobSetLocksStatus(s) \/ ReadyLocksStatus(s) \/ CloseLocksJob(s)
  BY <1>1, <1>2, <1>5 DEF JobSetLocksStatus, ReadyLocksStatus, CloseLocksJob, AtJobLock,
                          AtStatusLock, Leave, TakeJob, TakeStatus, Goto, Follows, SessionTypes
<1>6. CASE SendLocksAsg(s) \/ SetLocksAsg(s) \/ VendorLocksAsg(s)
  BY <1>1, <1>2, <1>6 DEF SendLocksAsg, SetLocksAsg, VendorLocksAsg, AtAsgLock, AfterAsgWrite, Leave,
                          TakeAsg, Goto, Follows, Written, Shape, SessionTypes
<1>7. CASE CountActive(s)
  BY <1>1, <1>7 DEF CountActive, Goto, Follows, Written, Shape, SessionTypes
<1>8. CASE ReadJob(s)
  <2>1. req[s].op \in {"set", "vendor"} => FromCodes(req[s]) = FollowFrom[req[s].to]
    BY DEF FromCodes
  <2>2. pc[s] = "readJob" /\ jobTo[s] = None /\ req'[s] = req[s] /\ UNCHANGED data
    BY <1>1, <1>8 DEF ReadJob, Shape, Written
  <2>3. jobStatus[req[s].job] \in FromCodes(req[s])
    BY <1>1, <1>8, <2>2 DEF ReadJob, Goto, Follows, Written, SessionTypes
  <2>. QED BY <2>1, <2>2, <2>3 DEF Follows, Written
<1>9. CASE UpdateJob(s) \/ ShareTo(s) \/ ShareFrom(s)
  BY <1>1, <1>9 DEF UpdateJob, ShareTo, ShareFrom, TakeJob, Follows, Written, Shape
<1>10. CASE Commit(s) \/ DeadlockVictim(s) \/ ConnectionLost(s)
  BY <1>2, <1>10 DEF Commit, DeadlockVictim, ConnectionLost, Leave
<1>. QED BY <1>3, <1>4, <1>5, <1>6, <1>7, <1>8, <1>9, <1>10 DEF Acts, Step

\* Who counts one active dispatch counts its own, so nobody follows on its job: a
\* follower's dispatch still reads CONFIRMED or ON_SITE, which counts.
LEMMA CountedAlone ==
    ASSUME IInv, FollowInv, NEW s \in Sessions, pc[s] = "count", Cardinality(ActiveSeenBy(s)) = 1,
           NEW t \in Sessions, t # s, Follows(t)
    PROVE  req[t].job # req[s].job
<1>1. /\ Shape(s) /\ Holds(s) /\ Current(s) /\ Shape(t) /\ Holds(t) /\ Current(t)
      /\ Admitted(t) /\ pc[t] \in AsgLocked /\ pc[t] # "idle" /\ pc[s] # "idle" /\ TypeOK
  BY DEF IInv, ShapeOK, LocksOK, ReadsOK, FollowInv, Follows, AsgLocked, Written
<1>2. req[t].to \in Milestones /\ req[t].op = "vendor"
  BY <1>1 DEF Follows, Shape, Admitted
<1>3. req[s].to \in Milestones /\ req[s].op \in AsgOps
  BY <1>1 DEF Shape, AsgOps
<1>4. /\ req[s].asg \in Assignments /\ req[s].job = JobOf[req[s].asg]
      /\ req[t].asg \in Assignments /\ req[t].job = JobOf[req[t].asg]
  BY <1>1, <1>2, <1>3 DEF Shape, ShapeReq, AsgOps
<1>5. req[t].asg # req[s].asg
  BY <1>1, <1>2, <1>3 DEF Holds, AsgOps, AsgLocked
<1>6. asgStatus[req[t].asg] \in {"CONFIRMED", "ON_SITE"}
  BY <1>1, <1>2 DEF Admitted, Current, AsgOps, Milestones, VendorFrom, VendorTargets
<1>7. asgStatus[req[s].asg] # None
  BY <1>1, <1>3 DEF Current
<1>8. SUFFICES ASSUME req[t].job = req[s].job PROVE FALSE
  OBVIOUS
<1>9. req[s].asg \in ActiveSeenBy(s) /\ req[t].asg \in ActiveSeenBy(s)
  BY <1>3, <1>4, <1>5, <1>6, <1>8, DispatchAssumption
     DEF ActiveSeenBy, Milestones, Inactive, AsgCodes
<1>10. IsFiniteSet(ActiveSeenBy(s))
  <2>1. ActiveSeenBy(s) \subseteq {a \in Assignments : asgStatus[a] # None}
    BY <1>7 DEF ActiveSeenBy
  <2>. QED BY <2>1, FS_Subset DEF FollowInv, FiniteRows
<1>11. PICK x : ActiveSeenBy(s) = {x}
  BY <1>10, FS_Singleton
<1>. QED BY <1>5, <1>9, <1>11

\* Whoever else moves the job leaves it where a follow may start.
LEMMA OthersLeaveFollowable ==
    ASSUME VendorsAlone, IInv, FollowInv, NEW s \in Sessions, Acts(s), Admitted(s)',
           NEW t \in Sessions, t # s, Follows(t), pc[t] # "readJob"
    PROVE  jobStatus'[req[t].job] \in FollowFrom[req[t].to]
<1>1. /\ Shape(s) /\ Shape(t) /\ Admitted(s) /\ TypeOK /\ SessionTypes
      /\ pc[t] # "idle" /\ jobStatus[req[t].job] \in FollowFrom[req[t].to]
      /\ req[t].to \in Milestones
  BY DEF IInv, Written, ShapeOK, TypeOK, FollowInv, FollowsCurrent, Follows, Written, Shape
<1>2. req[t].job \in Jobs /\ jobStatus \in [Jobs -> JobCodes]
  BY <1>1, RequestRows DEF TypeOK, RowTypes
<1>3. AdvanceFrom \cup {"DISPATCHED"} \subseteq FollowFrom[req[t].to]
  BY <1>1 DEF FollowFrom, Milestones, AdvanceFrom
<1>4. CASE ~Commit(s)
  BY <1>1, <1>4, RowsFrame DEF data, jobRows
<1>5. CASE Commit(s)
  <2>1. pc[s] = "commit" /\ pc[s] # "idle"
    BY <1>5 DEF Commit
  <2>2. jobTo[s] = None => jobStatus' = jobStatus
    BY <1>5, AtCommit DEF jobRows
  <2>3. jobTo[s] # None => /\ req[s].job \in Jobs
                           /\ jobStatus' = [jobStatus EXCEPT ![req[s].job] = jobTo[s]]
    BY <1>5, AtCommit DEF WriteJob
  <2>4. ASSUME jobTo[s] # None, req[s].job = req[t].job PROVE jobTo[s] \in AdvanceFrom \cup {"DISPATCHED"}
    <3>1. req[s].op \notin {"set", "vendor"}
      BY <2>1, <2>4 DEF FollowInv, OneFollower, Follows, Written
    <3>2. req[s].op \in {"send", "jobset"}
      BY <1>1, <2>1, <3>1, RequestRows DEF Admitted, AsgOps, JobOps
    <3>3. jobTo[s] = AdvanceTo(req[s])
      BY <1>1, <2>4 DEF Shape
    <3>. QED BY <1>1, <3>2, <3>3 DEF AdvanceTo, Admitted
  <2>. QED BY <1>1, <1>2, <1>3, <2>2, <2>3, <2>4
<1>. QED BY <1>4, <1>5

LEMMA StepFollow ==
    ASSUME VendorsAlone, IInv, FollowInv, [Next]_vars
    PROVE  FollowInv'
<1>1. FiniteRows'
  BY StepFinite DEF FollowInv
<1>2. ASSUME NEW s \in Sessions, Acts(s) PROVE FollowInv'
  <2>1. /\ SessionTypes
        /\ \A t \in Sessions : Admitted(t)
    BY DEF IInv, TypeOK, FollowInv
  <2>2. ASSUME NEW t \in Sessions, t # s
        PROVE  /\ pc'[t] = pc[t] /\ req'[t] = req[t] /\ from'[t] = from[t] /\ jobTo'[t] = jobTo[t]
               /\ Admitted(t)' /\ (Follows(t)' <=> Follows(t))
    <3>1. pc'[t] = pc[t] /\ req'[t] = req[t] /\ from'[t] = from[t] /\ jobTo'[t] = jobTo[t]
      BY <1>2, <2>1, <2>2, SessionFrame
    <3>. QED BY <2>1, <3>1 DEF Admitted, Follows
  <2>3. Admitted(s)'
    BY <1>2, <2>1, OwnAdmitted
  <2>4. ASSUME NEW t \in Sessions, t # s, Follows(s)', Follows(t)' PROVE req'[s].job # req'[t].job
    <3>1. Follows(t) /\ req'[t] = req[t]
      BY <2>2, <2>4
    <3>2. req'[s] = req[s]
      BY <1>2, <2>4, OwnFollow
    <3>3. CASE Follows(s)
      BY <2>4, <3>1, <3>2, <3>3 DEF FollowInv, OneFollower
    <3>4. CASE ~Follows(s)
      <4>1. pc[s] = "count" /\ Cardinality(ActiveSeenBy(s)) = 1
        BY <1>2, <2>4, <3>4, OwnFollow
      <4>. QED BY <2>4, <3>1, <3>2, <4>1, CountedAlone
    <3>. QED BY <3>3, <3>4
  <2>5. ASSUME NEW t \in Sessions, NEW u \in Sessions, Follows(t)', Follows(u)',
               req'[t].job = req'[u].job
        PROVE  t = u
    <3>1. CASE t = s \/ u = s
      BY <2>4, <2>5, <3>1
    <3>2. CASE t # s /\ u # s
      BY <2>2, <2>5, <3>2 DEF FollowInv, OneFollower
    <3>. QED BY <3>1, <3>2
  <2>6. ASSUME NEW t \in Sessions, Follows(t)', pc'[t] # "readJob"
        PROVE  jobStatus'[req'[t].job] \in FollowFrom[req'[t].to]
    <3>1. CASE t = s
      <4>1. /\ req'[s] = req[s] /\ jobStatus' = jobStatus
            /\ jobStatus[req[s].job] \in FollowFrom[req[s].to]
        BY <1>2, <2>6, <3>1, OwnFollow DEF data, jobRows, FollowInv, FollowsCurrent
      <4>. QED BY <3>1, <4>1
    <3>2. CASE t # s
      BY <1>2, <2>2, <2>3, <2>6, <3>2, OthersLeaveFollowable
    <3>. QED BY <3>1, <3>2
  <2>7. OneFollower'
    BY <2>5 DEF OneFollower
  <2>. QED BY <1>1, <2>2, <2>3, <2>6, <2>7 DEF FollowInv, FollowsCurrent
<1>3. CASE UNCHANGED <<jobStatus, pc, req, from, jobTo>>
  <2>1. OneFollower'
    BY <1>3 DEF FollowInv, OneFollower, Follows
  <2>2. FollowsCurrent'
    BY <1>3 DEF FollowInv, FollowsCurrent, Follows
  <2>3. \A s \in Sessions : Admitted(s)'
    BY <1>3 DEF FollowInv, Admitted
  <2>. QED BY <1>1, <2>1, <2>2, <2>3 DEF FollowInv
<1>4. CASE UNCHANGED vars
  BY <1>3, <1>4 DEF vars, data, jobRows
<1>5. ASSUME NEW a \in Assignments, CreateDispatch(a) PROVE FollowInv'
  BY <1>3, <1>5 DEF CreateDispatch, jobRows
<1>. QED BY <1>2, <1>4, <1>5 DEF Next, Acts

\* When vendors report their own milestones and operators leave those, and the jobs
\* beyond DISPATCHED, alone, an auto-follow commits only out of a status it may
\* leave, though it reads that status with no lock (FollowNeverRegresses): of the
\* vendors of one job only one can find itself the only active one.
THEOREM FollowsKeepTheirGuard == ASSUME VendorsAlone PROVE Spec => []FollowNeverRegresses
<1>1. Init => FollowInv
  <2>1. ASSUME Init PROVE FiniteRows
    <3>1. {a \in Assignments : asgStatus[a] # None} = {}
      BY <2>1 DEF Init
    <3>. QED BY <3>1, FS_EmptySet DEF FiniteRows
  <2>2. ASSUME Init PROVE \A s \in Sessions : Admitted(s) /\ ~Follows(s)
    BY <2>2, DispatchAssumption DEF Init, Admitted, Follows, NoRequest, AsgOps, JobOps
  <2>. QED BY <2>1, <2>2 DEF FollowInv, OneFollower, FollowsCurrent
<1>2. IInv /\ FollowInv /\ [Next]_vars => FollowInv'
  BY StepFollow
<1>3. FollowInv => FollowNeverRegresses
  BY DEF FollowInv, FollowsCurrent, Follows, Written, FollowNeverRegresses
<1>. QED BY <1>1, <1>2, <1>3, Invariance, PTL DEF Spec
=============================================================================
