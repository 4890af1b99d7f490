------------------------------- MODULE Redispatch -------------------------------
(***************************************************************************)
(* Re-dispatch: what happens when a vendor stays silent or cancels.  The   *)
(* suggestion of a replacement, its approval (ghost the silent vendor,     *)
(* then send), the autonomous flow around both, the sweep that drives it,  *)
(* the operator's record of a cancellation, and the automatic first        *)
(* dispatch.                                                               *)
(*                                                                         *)
(* Every call to the dispatch layer is a transaction of its own, hence one *)
(* step, and does what DispatchContract promises (JobDispatch implements   *)
(* it); all that happens between two calls is unlocked.                    *)
(***************************************************************************)
EXTENDS DispatchContract, FiniteSets

CONSTANTS Workers,         \* requests that re-dispatch, the cron's among them
          Ops,             \* the kinds of request that are explored
          MaxAttempts,     \* REDISPATCH_MAX_ATTEMPTS
          Cap,             \* the tenant's ceiling on committed money, in jobs of NTE 1
          OperatorTargets, \* statuses the operator's assignment picker tries
          JobTargets       \* statuses the operator's job picker tries

Responses   == {"ACCEPTED", "DECLINED"}
Cancellable == {"SENT", "ACCEPTED", "SCHEDULED", "CONFIRMED"}
Withdrawn   == {"DECLINED", "CANCELLED", "GHOSTED"}
Terminal    == Withdrawn \cup {"WORK_COMPLETE"}

\* created_by_user_id: the operator, the integration service's user, or NULL.
Creators == {"operator", "service", "null"}
\* How an assignment was sent: the Send control, an approval, the autonomous flow.
Senders  == {"operator", "approval", "system"}
OpKinds  == {"sweep", "retry", "prepare", "approve", "cancel", "dispatch"}

ASSUME RedispatchAssumption ==
    /\ JobOf \in [Assignments -> Jobs]
    /\ MaxAttempts \in Nat \ {0} /\ Cap \in Nat
    /\ IsFiniteSet(Workers) /\ Workers # {}
    /\ Ops \subseteq OpKinds
    /\ {"DRAFT", "SENT", "ACCEPTED", "DECLINED", "GHOSTED"} \subseteq AsgCodes
    /\ OperatorTargets \subseteq AsgCodes \ {"DRAFT", "SENT"}
    /\ JobTargets \subseteq JobCodes /\ {"NEW", "DISPATCHED"} \subseteq JobCodes
    /\ FollowTo \in [Milestones -> JobCodes]
    /\ "GHOSTED" \notin Milestones \cup {None}
    /\ None \notin Assignments \cup AsgCodes \cup Cancellable \cup Creators \cup Senders \cup OpKinds

VARIABLES replaces, \* replaces_assignment_id
          creator,  \* created_by_user_id of an assignment
          sender,   \* who sent it, from its status history
          stuck,    \* SENT assignments that have dwelled beyond the threshold
          fresh,    \* replacements created within the cooldown
          stage,    \* where a worker is
          op,       \* the request it serves
          todo,     \* the assignments its sweep has left
          cur,      \* the silent assignment it works on
          new       \* the draft that is to replace it

rowsOf   == <<status, sends, job>>
links    == <<replaces, creator, sender>>
clocks   == <<stuck, fresh>>
requests == <<op, todo, cur, new>>
rvars    == <<rowsOf, links, clocks, stage, requests>>

RInit ==
    /\ Init
    /\ replaces = [a \in Assignments |-> None]
    /\ creator  = [a \in Assignments |-> None]
    /\ sender   = [a \in Assignments |-> None]
    /\ stuck    = {}
    /\ fresh    = {}
    /\ stage    = [w \in Workers |-> "idle"]
    /\ op       = [w \in Workers |-> None]
    /\ todo     = [w \in Workers |-> {}]
    /\ cur      = [w \in Workers |-> None]
    /\ new      = [w \in Workers |-> None]

\* Mutant: a ghosted or declined vendor is forgotten.
LiveOn(j) == {a \in Assignments : JobOf[a] = j /\ status[a] \in {"SENT", "ACCEPTED"}}

\* Vendors contacted: every assignment of the job that was ever sent.
SentOn(j) == {a \in Assignments : JobOf[a] = j /\ sends[a] > 0}

\* Suggestions that are still to be approved.
DraftsFor(a) == {d \in Assignments : replaces[d] = a /\ status[d] = "DRAFT"}

-----------------------------------------------------------------------------
(* Vendors, operators and time. *)

DraftLinked(d, a, by) ==
    /\ Draft(d)
    /\ replaces' = [replaces EXCEPT ![d] = a]
    /\ creator' = [creator EXCEPT ![d] = by]
    /\ fresh' = IF a = None THEN fresh ELSE fresh \cup {d}
    /\ UNCHANGED <<sender, stuck>>

SendAs(d, who) ==
    /\ Send(d)
    /\ sender' = [sender EXCEPT ![d] = who]
    /\ UNCHANGED <<replaces, creator, clocks>>

\* The dispatch form; after a cancellation with ?replaces=, the cancelled
\* assignment, which may have moved again since.
ManualDispatch(d) ==
    /\ \E a \in {None} \cup {b \in Assignments :
                JobOf[b] = JobOf[d] /\ status[b] \notin {None, "DRAFT", "SENT"}} :
          DraftLinked(d, a, "operator")
    /\ UNCHANGED <<stage, requests>>

\* The page offers Send unless the draft replaces an assignment that is still SENT.
ManualSend(d) ==
    /\ replaces[d] # None => status[replaces[d]] # "SENT"
    /\ SendAs(d, "operator")
    /\ UNCHANGED <<stage, requests>>

Respond(a, to) ==
    /\ status[a] = "SENT"
    /\ Move(a, to)
    /\ UNCHANGED <<links, clocks, stage, requests>>

\* The status picker, not shown for a DRAFT; it offers GHOSTED too.
OperatorMoves(a, to) ==
    /\ status[a] # "DRAFT"
    /\ Move(a, to)
    /\ UNCHANGED <<links, clocks, stage, requests>>

OperatorSetsJob(j, to) ==
    /\ SetJob(j, to)
    /\ UNCHANGED <<links, clocks, stage, requests>>

\* The threshold (2 to 48 hours by priority) and the cooldown (4 hours) run out
\* in either order.
Dwell(a) ==
    /\ status[a] = "SENT" /\ a \notin stuck
    /\ stuck' = stuck \cup {a}
    /\ UNCHANGED <<rowsOf, links, fresh, stage, requests>>

CoolDown(d) ==
    /\ d \in fresh
    /\ fresh' = fresh \ {d}
    /\ UNCHANGED <<rowsOf, links, stuck, stage, requests>>

-----------------------------------------------------------------------------
(* Requests. *)

Goto(w, label) == stage' = [stage EXCEPT ![w] = label]

Begin(w, kind, label) ==
    /\ kind \in Ops
    /\ stage[w] = "idle"
    /\ Goto(w, label)
    /\ op' = [op EXCEPT ![w] = kind]
    /\ UNCHANGED <<rowsOf, links, clocks>>

\* Done with one assignment: a sweep goes on to its next one.
Continue(w) ==
    /\ IF op[w] = "sweep" THEN Goto(w, "next") /\ UNCHANGED op
       ELSE Goto(w, "idle") /\ op' = [op EXCEPT ![w] = None]
    /\ cur' = [cur EXCEPT ![w] = None]
    /\ new' = [new EXCEPT ![w] = None]
    /\ UNCHANGED todo

\* A call throws (JOB_NOT_DISPATCHABLE, a vendor that is no candidate any more, a
\* lost connection); a sweep counts the error and goes on.
Fail(w) ==
    /\ stage[w] \notin {"idle", "cool", "next"}
    /\ Continue(w)
    /\ UNCHANGED <<rowsOf, links, clocks>>

\* The end of the request, or a crash in the middle of it.
Stop(w) ==
    /\ stage[w] # "idle"
    /\ Goto(w, "idle")
    /\ op' = [op EXCEPT ![w] = None]
    /\ todo' = [todo EXCEPT ![w] = {}]
    /\ cur' = [cur EXCEPT ![w] = None]
    /\ new' = [new EXCEPT ![w] = None]
    /\ UNCHANGED <<rowsOf, links, clocks>>

\* Mutant: every SENT assignment is a candidate.
SentCandidate(a) == status[a] = "SENT"

\* A vendor_not_accepted exception whose redispatchState is can_suggest.
CanSuggest(a) ==
    /\ status[a] = "SENT"
    /\ a \in stuck
    /\ DraftsFor(a) = {}
    /\ Cardinality(SentOn(JobOf[a])) < MaxAttempts

SelectCandidates(w) ==
    /\ Begin(w, "sweep", "cool")
    /\ todo' = [todo EXCEPT ![w] = {a \in Assignments : CanSuggest(a)}]
    /\ UNCHANGED <<cur, new>>

\* Mutant: the sweep goes on with the jobs' ids.
ReadCooldownsOfJobs(w) ==
    /\ stage[w] = "cool"
    /\ Goto(w, "next")
    /\ todo' = [todo EXCEPT ![w] = {JobOf[a] : a \in @}]
    /\ UNCHANGED <<rowsOf, links, clocks, op, cur, new>>

\* Read once, before the first candidate: jobs with a replacement created within
\* the cooldown are skipped.
ReadCooldowns(w) ==
    LET cooling == {JobOf[d] : d \in fresh} IN
    /\ stage[w] = "cool"
    /\ Goto(w, "next")
    /\ todo' = [todo EXCEPT ![w] = {a \in @ : JobOf[a] \notin cooling}]
    /\ UNCHANGED <<rowsOf, links, clocks, op, cur, new>>

\* autoRedispatchForStuckAssignment: the stuck assignment must still be SENT and
\* the policy must have autonomy enabled; else it is skipped.
NextCandidate(w, a) ==
    /\ stage[w] = "next"
    /\ a \in todo[w]
    /\ todo' = [todo EXCEPT ![w] = @ \ {a}]
    /\ \/ Goto(w, "next") /\ UNCHANGED cur
       \/ /\ status[a] = "SENT"
          /\ Goto(w, "suggest")
          /\ cur' = [cur EXCEPT ![w] = a]
    /\ UNCHANGED <<rowsOf, links, clocks, op, new>>

\* The two controls of the exceptions queue, on a page that may be stale; only the
\* retry looks whether the vendor is still silent.
BeginOne(w, kind, a) ==
    /\ kind \in {"retry", "prepare"}
    /\ a \in stuck
    /\ kind = "retry" => status[a] = "SENT"
    /\ Begin(w, kind, "suggest")
    /\ cur' = [cur EXCEPT ![w] = a]
    /\ UNCHANGED <<todo, new>>

\* prepareRedispatchSuggestion: a draft that replaces it exists already, or not.
CheckSuggested(w) ==
    /\ stage[w] = "suggest"
    /\ IF DraftsFor(cur[w]) = {} THEN Goto(w, "decide") /\ UNCHANGED requests
       ELSE Continue(w)
    /\ UNCHANGED <<rowsOf, links, clocks>>

\* decideRedispatch: the cap on vendors contacted; no untried eligible vendor is
\* left, at any time, in the second disjunct.
Decide(w) ==
    /\ stage[w] = "decide"
    /\ \/ /\ Cardinality(SentOn(JobOf[cur[w]])) < MaxAttempts
          /\ Goto(w, "create") /\ UNCHANGED requests
       \/ Continue(w)
    /\ UNCHANGED <<rowsOf, links, clocks>>

CreatorOf(kind) == CASE kind = "prepare" -> "operator" [] kind = "dispatch" -> "null"
                     [] OTHER -> "service"

CreateReplacement(w, d) ==
    /\ stage[w] = "create"
    /\ IF op[w] = "dispatch" THEN d = new[w] ELSE JobOf[d] = JobOf[cur[w]]
    /\ DraftLinked(d, cur[w], CreatorOf(op[w]))
    /\ IF op[w] = "prepare" THEN Continue(w)
       ELSE /\ Goto(w, "gate")
            /\ new' = [new EXCEPT ![w] = d]
            /\ UNCHANGED <<op, todo, cur>>

\* The money meter: jobs with a live assignment that was sent and has no creator.
Committed ==
    {JobOf[a] : a \in {a \in Assignments :
        creator[a] = "null" /\ sends[a] > 0 /\ status[a] \notin Withdrawn}}

WithinSpendCeilings == Cardinality(Committed) + 1 < Cap

\* The other terms of the gate may block at any time; the draft stays.
Gate(w) ==
    /\ stage[w] = "gate"
    /\ \/ /\ WithinSpendCeilings
          /\ Goto(w, IF op[w] = "dispatch" THEN "send" ELSE "guard")
          /\ UNCHANGED requests
       \/ Continue(w)
    /\ UNCHANGED <<rowsOf, links, clocks>>

BeginApprove(w, d) ==
    /\ Begin(w, "approve", "guard")
    /\ status[d] = "DRAFT" /\ replaces[d] # None
    /\ new' = [new EXCEPT ![w] = d]
    /\ cur' = [cur EXCEPT ![w] = replaces[d]]
    /\ UNCHANGED todo

\* Mutant: the stuck assignment's status is not checked.
GuardDraft(w) ==
    /\ stage[w] = "guard"
    /\ IF status[new[w]] = "DRAFT" THEN Goto(w, "ghost") /\ UNCHANGED requests ELSE Continue(w)
    /\ UNCHANGED <<rowsOf, links, clocks>>

\* approveRedispatch: guards on two unlocked reads, taken together here.
GuardApproval(w) ==
    /\ stage[w] = "guard"
    /\ IF status[new[w]] = "DRAFT" /\ status[cur[w]] = "SENT"
       THEN Goto(w, "ghost") /\ UNCHANGED requests ELSE Continue(w)
    /\ UNCHANGED <<rowsOf, links, clocks>>

\* setAssignmentStatus: whatever the status is by now; GHOSTED is a no-op.
Ghost(w) ==
    /\ stage[w] = "ghost"
    /\ IF status[cur[w]] = "GHOSTED" THEN UNCHANGED rowsOf ELSE Move(cur[w], "GHOSTED")
    /\ Goto(w, "send")
    /\ UNCHANGED <<links, clocks, requests>>

SendReplacement(w) ==
    /\ stage[w] = "send"
    /\ SendAs(new[w], IF op[w] = "approve" THEN "approval" ELSE "system")
    /\ Continue(w)

\* operatorRedispatchAfterCancellation: an unlocked guard, then the close.
BeginCancel(w, a) ==
    /\ Begin(w, "cancel", "decline")
    /\ status[a] \in Cancellable
    /\ cur' = [cur EXCEPT ![w] = a]
    /\ UNCHANGED <<todo, new>>

DeclineCancelled(w) ==
    /\ stage[w] = "decline"
    /\ IF status[cur[w]] = "DECLINED" THEN UNCHANGED rowsOf ELSE Move(cur[w], "DECLINED")
    /\ Continue(w)
    /\ UNCHANGED <<links, clocks>>

\* autoDispatchDraftForJob: no assignment of the job may be non-terminal.
BeginDispatch(w, d) ==
    /\ Begin(w, "dispatch", "create")
    /\ status[d] = None
    /\ \A a \in Assignments : JobOf[a] = JobOf[d] => status[a] \in Terminal \cup {None}
    /\ new' = [new EXCEPT ![w] = d]
    /\ UNCHANGED <<todo, cur>>

-----------------------------------------------------------------------------
World ==
    \/ \E a \in Assignments :
          \/ ManualDispatch(a) \/ ManualSend(a) \/ Dwell(a) \/ CoolDown(a)
          \/ \E to \in Responses : Respond(a, to)
          \/ \E to \in OperatorTargets : OperatorMoves(a, to)
    \/ \E j \in Jobs, to \in JobTargets : OperatorSetsJob(j, to)

Work(w) ==
    \/ SelectCandidates(w) \/ ReadCooldowns(w)
    \/ CheckSuggested(w) \/ Decide(w) \/ Gate(w)
    \/ GuardApproval(w) \/ Ghost(w) \/ SendReplacement(w)
    \/ DeclineCancelled(w) \/ Fail(w) \/ Stop(w)
    \/ \E a \in Assignments :
          \/ NextCandidate(w, a) \/ CreateReplacement(w, a)
          \/ BeginApprove(w, a) \/ BeginCancel(w, a) \/ BeginDispatch(w, a)
          \/ \E kind \in Ops : BeginOne(w, kind, a)

RNext == World \/ \E w \in Workers : Work(w)

RSpec == RInit /\ [][RNext]_rvars
-----------------------------------------------------------------------------
(* Properties. *)

RTypeOK ==
    /\ status \in [Assignments -> AsgCodes \cup {None}]
    /\ sends \in [Assignments -> Nat]
    /\ job \in [Jobs -> JobCodes]
    /\ replaces \in [Assignments -> Assignments \cup {None}]
    /\ creator \in [Assignments -> Creators \cup {None}]
    /\ sender \in [Assignments -> Senders \cup {None}]
    /\ stuck \subseteq Assignments /\ fresh \subseteq Assignments
    /\ stage \in [Workers -> {"idle", "cool", "next", "suggest", "decide", "create", "gate",
                              "guard", "ghost", "send", "decline"}]
    /\ op \in [Workers -> OpKinds \cup {None}]
    /\ todo \in [Workers -> SUBSET Assignments]
    /\ cur \in [Workers -> Assignments \cup {None}]
    /\ new \in [Workers -> Assignments \cup {None}]

\* auto-redispatch-sweep.ts: the flow itself has no staleness check; the sweep's
\* filter alone keeps it from healthy dispatches.  Whatever happens between the
\* selection and the ghost, a request (operators may, by hand) never ghosts a
\* dispatch that was not stuck.
GhostedWasStuck ==
    [][stage' # stage =>
         \A a \in Assignments : status'[a] = "GHOSTED" => status[a] = "GHOSTED" \/ a \in stuck]_rvars

\* "A misfiring trigger or two close-together triggers cannot double-dispatch":
\* the flow sends at most one replacement for a silent vendor, however often it
\* is swept, suggested and approved.
ReplacedOnce ==
    \A a \in Assignments :
        Cardinality({d \in Assignments :
            replaces[d] = a /\ sender[d] \in {"approval", "system"}}) <= 1

\* "Bounds the TOTAL": the first vendor included, the system by itself never
\* takes a job beyond MaxAttempts vendors, whatever operators send besides.
AutonomyBounded ==
    \A j \in Jobs :
        Cardinality({d \in Assignments :
            JobOf[d] = j /\ sender[d] = "system" /\ replaces[d] # None}) < MaxAttempts

\* "Sequential firing means each sees the prior's committed spend": the money the
\* system has committed by itself stays below the tenant's ceiling.
SpendHalted ==
    Cardinality({JobOf[a] : a \in {a \in Assignments :
        sender[a] = "system" /\ status[a] \notin Withdrawn}}) < Cap
=============================================================================
