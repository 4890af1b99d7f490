--------------------------------- MODULE Intake ---------------------------------
(***************************************************************************)
(* Where work orders come from: e-mails, client portals, maintenance       *)
(* schedules and snow events.  Each flow records first, a draft, a visit,  *)
(* a staged site, and creates the job from the record later.  createJob is *)
(* a transaction of its own and cannot be nested in the one that locked    *)
(* the record, so every flow is: check the record, let it go, create the   *)
(* job, link it back under a guard.  Requests overlap, fail and die at any *)
(* point between these steps.                                              *)
(***************************************************************************)
EXTENDS Naturals, Sequences

CONSTANTS Emails, MessageOf, \* stored inbound e-mails and their Message-ID, if any
          Orders,            \* work orders of an external system
          Visits,            \* pm_visits rows to come
          Members,           \* active locations of the one maintenance schedule
          Sites,             \* active sites of the one snow program
          Workers,           \* requests under way
          MaxRequests,       \* bound: requests that arrive
          None

Records == Emails \cup Orders \cup Visits \cup Sites
JobIds  == Nat \ {0}
VisitRows == [place : Members, cycle : Nat, run : JobIds]

ASSUME IntakeAssumption ==
    /\ MaxRequests \in Nat
    /\ DOMAIN MessageOf = Emails
    /\ Emails \cap (Orders \cup Visits \cup Sites) = {}
    /\ Orders \cap (Visits \cup Sites) = {} /\ Visits \cap Sites = {}
    /\ None \notin Records \cup Members \cup Nat \cup VisitRows

VARIABLES mail,     \* processing_status of a stored e-mail
          state,    \* status of a record: of an e-mail, that of its draft; of an
                    \* order, that of its link row
          link,     \* the job a record is linked to
          visit,    \* what a visit is for: its location, due date, generation run
          jobs,     \* the records the jobs were created for, in the order of creation
          noted,    \* unlinked jobs an audit or error row was written for
          lost,     \* jobs whose request died, or whose link or note was not written
          due,      \* next_due_at of the schedule, in periods
          runs,     \* generation runs opened
          event,    \* status of the snow event
          req,      \* what each request is doing
          requests  \* requests that have arrived

rows    == <<mail, state, link, visit>>
jobRows == <<jobs, noted, lost>>
headers == <<due, runs, event>>
vars    == <<rows, jobRows, headers, req, requests>>

\* The status in which a record waits for its job, and the one its job gives it.
Waiting(r) == IF r \in Sites THEN "staged" ELSE IF r \in Orders THEN "none" ELSE "pending_review"
Linked(r)  == CASE r \in Emails -> "approved" [] r \in Orders -> "active"
                [] r \in Visits -> "generated" [] OTHER -> "spawned"

StatesOf(r) == CASE r \in Emails -> {"none", "pending_review", "approved", "rejected"}
                 [] r \in Orders -> {"none", "active"}
                 [] r \in Visits -> {"none", "pending_review", "generated", "skipped"}
                 [] OTHER        -> {"none", "staged", "spawned", "skipped"}

MailStates  == {"absent", "received", "drafted", "failed", "duplicate_flagged"}
EventStates == {"none", "declared", "dispatching", "complete"}

\* Requests that work through a batch, and the stage to which each item returns.
Batches == [generate |-> "visits", approveVisits |-> "candidates", snow |-> "sites"]

OpKinds == {"none", "ingest", "approve", "order", "park", "stage"} \cup DOMAIN Batches
Stages  == {"idle", "duplicate", "parse", "visits", "candidates",
            "staging", "fire", "mark", "load", "sites", "create", "link"}

Idle == [stage |-> "idle", op |-> "none", todo |-> {}, cur |-> None,
         made |-> None, saw |-> None, run |-> None]

Init ==
    /\ mail  = [e \in Emails |-> "absent"]
    /\ state = [r \in Records |-> "none"]
    /\ link  = [r \in Records |-> None]
    /\ visit = [v \in Visits |-> None]
    /\ jobs = <<>> /\ noted = {} /\ lost = {}
    /\ due = 0 /\ runs = 0 /\ event = "none"
    /\ req = [s \in Workers |-> Idle]
    /\ requests = 0
-----------------------------------------------------------------------------
At(s, st) == req[s].stage = st
Starts(s, r) == At(s, "idle") /\ req' = [req EXCEPT ![s] = r]
Goes(s, r)   == req' = [req EXCEPT ![s] = r]
Ends(s)      == Goes(s, Idle)

\* Off to create a job for record r.
For(q, r) == [q EXCEPT !.stage = "create", !.cur = r]

\* One item of a batch is done, or the whole request.
ItemDone(s) ==
    Goes(s, IF req[s].op \in DOMAIN Batches
            THEN [req[s] EXCEPT !.stage = Batches[req[s].op], !.cur = None, !.made = None]
            ELSE Idle)

\* A failed visit or site is flagged whatever its status has become meanwhile.
SkipFailed(r) == IF r \in Visits \cup Sites THEN [state EXCEPT ![r] = "skipped"] ELSE state

\* createJob: its own transaction, the job numbered under the tenant's counter row.
CreateJob(s) ==
    /\ At(s, "create")
    /\ jobs' = Append(jobs, req[s].cur)
    /\ Goes(s, [req[s] EXCEPT !.stage = "link", !.made = Len(jobs) + 1])
    /\ UNCHANGED <<rows, noted, lost, headers>>

\* Mutant: a draft that cannot become a job is skipped like a visit.
SkipsAnything(s) ==
    /\ At(s, "create")
    /\ state' = [state EXCEPT ![req[s].cur] = "skipped"]
    /\ ItemDone(s)
    /\ UNCHANGED <<mail, link, visit, jobRows, headers>>

\* createJob refuses: the draft has no client yet, the location is gone, and so on.
CreateFails(s) ==
    /\ At(s, "create")
    /\ state' = SkipFailed(req[s].cur)
    /\ ItemDone(s)
    /\ UNCHANGED <<mail, link, visit, jobRows, headers>>

\* Mutant: the link-back does not look at the status again.
LinkUnguarded(s) ==
    /\ At(s, "link")
    /\ state' = [state EXCEPT ![req[s].cur] = Linked(req[s].cur)]
    /\ link' = [link EXCEPT ![req[s].cur] = req[s].made]
    /\ ItemDone(s)
    /\ UNCHANGED <<mail, visit, jobRows, headers>>

\* The record still waits: it gets its job.  For an order this is the insert of the
\* link row, unique per system and work order.
Link(s) ==
    /\ At(s, "link")
    /\ state[req[s].cur] = Waiting(req[s].cur)
    /\ state' = [state EXCEPT ![req[s].cur] = Linked(req[s].cur)]
    /\ link' = [link EXCEPT ![req[s].cur] = req[s].made]
    /\ ItemDone(s)
    /\ UNCHANGED <<mail, visit, jobRows, headers>>

\* The record changed meanwhile: the job stays, unlinked.  Snow does not look at the
\* row count; the others write an audit row (e-mail, visit) or an error event (order).
LinkMisses(s) ==
    /\ At(s, "link")
    /\ state[req[s].cur] # Waiting(req[s].cur)
    /\ noted' = IF req[s].cur \in Sites THEN noted ELSE noted \cup {req[s].made}
    /\ ItemDone(s)
    /\ UNCHANGED <<rows, jobs, lost, headers>>

\* writeAuditLog and the error event swallow their own failure.
NoteFails(s) ==
    /\ At(s, "link")
    /\ req[s].cur \notin Sites
    /\ state[req[s].cur] # Waiting(req[s].cur)
    /\ lost' = lost \cup {req[s].made}
    /\ ItemDone(s)
    /\ UNCHANGED <<rows, jobs, noted, headers>>

\* The statement itself fails; the batch goes on, any other request ends in an error.
LinkFails(s) ==
    /\ At(s, "link")
    /\ lost' = lost \cup {req[s].made}
    /\ state' = SkipFailed(req[s].cur)
    /\ ItemDone(s)
    /\ UNCHANGED <<mail, link, visit, jobs, noted, headers>>

\* The process dies: nothing takes the request up again.
Crash(s) ==
    /\ ~At(s, "idle")
    /\ lost' = lost \cup ({req[s].made} \ {None})
    /\ Ends(s)
    /\ UNCHANGED <<rows, jobs, noted, headers>>

Conversion(s) ==
    \/ CreateJob(s) \/ CreateFails(s)
    \/ Link(s) \/ LinkMisses(s) \/ NoteFails(s) \/ LinkFails(s)
    \/ Crash(s)
-----------------------------------------------------------------------------
(* E-mail. *)

\* The mail system stores an e-mail, the copies of one message included.
StoreEmail(e) ==
    /\ mail[e] = "absent"
    /\ mail' = [mail EXCEPT ![e] = "received"]
    /\ UNCHANGED <<state, link, visit, jobRows, headers, req>>

\* Mutant: only a copy that was drafted counts as the original.
DraftedCopies(e) ==
    {f \in Emails \ {e} : MessageOf[f] = MessageOf[e] /\ mail[f] = "drafted"}

\* Other stored e-mails with the same Message-ID, whatever became of them.
OtherCopies(e) ==
    {f \in Emails \ {e} : MessageOf[f] = MessageOf[e] /\ mail[f] # "absent"}

\* The duplicate check, an unlocked read.  A row is ingested by one request at a time,
\* while it is still received.
IngestEmail(s, e) ==
    /\ mail[e] = "received"
    /\ \A t \in Workers : req[t].cur # e
    /\ Starts(s, [Idle EXCEPT
                    !.stage = IF MessageOf[e] # None /\ OtherCopies(e) # {}
                              THEN "duplicate" ELSE "parse",
                    !.op = "ingest", !.cur = e])
    /\ UNCHANGED <<rows, jobRows, headers>>

FlagDuplicate(s) ==
    /\ At(s, "duplicate")
    /\ mail' = [mail EXCEPT ![req[s].cur] = "duplicate_flagged"]
    /\ Ends(s)
    /\ UNCHANGED <<state, link, visit, jobRows, headers>>

\* Parse result, draft and status in one transaction.
DraftEmail(s) ==
    /\ At(s, "parse")
    /\ mail' = [mail EXCEPT ![req[s].cur] = "drafted"]
    /\ state' = [state EXCEPT ![req[s].cur] = "pending_review"]
    /\ Ends(s)
    /\ UNCHANGED <<link, visit, jobRows, headers>>

\* Whatever throws before that, the catch marks the e-mail failed.
IngestFails(s) ==
    /\ req[s].stage \in {"duplicate", "parse"}
    /\ mail' = [mail EXCEPT ![req[s].cur] = "failed"]
    /\ Ends(s)
    /\ UNCHANGED <<state, link, visit, jobRows, headers>>

\* Locked, checked and released before the job is created.
ApproveEmailDraft(s, e) ==
    /\ state[e] = "pending_review"
    /\ Starts(s, For([Idle EXCEPT !.op = "approve"], e))
    /\ UNCHANGED <<rows, jobRows, headers>>

RejectEmailDraft(e) ==
    /\ state[e] = "pending_review"
    /\ state' = [state EXCEPT ![e] = "rejected"]
    /\ UNCHANGED <<mail, link, visit, jobRows, headers, req>>

\* A work order from a portal that is not linked yet: an unlocked read.
IngestWorkOrder(s, w) ==
    /\ state[w] = "none"
    /\ Starts(s, For([Idle EXCEPT !.op = "order"], w))
    /\ UNCHANGED <<rows, jobRows, headers>>

MailStep(s) == FlagDuplicate(s) \/ DraftEmail(s) \/ IngestFails(s)
-----------------------------------------------------------------------------
(* Preventative maintenance. *)

\* A generation run: the schedule is read here, unlocked, and once.  In review mode
\* the visits are parked, otherwise each becomes a job at once.
GenerateVisits(s, op) ==
    /\ runs' = runs + 1
    /\ Starts(s, [Idle EXCEPT !.stage = "visits", !.op = op, !.todo = Members,
                              !.saw = due, !.run = runs + 1])
    /\ UNCHANGED <<rows, jobRows, due, event>>

InsertVisit(s, m, v) ==
    /\ At(s, "visits")
    /\ m \in req[s].todo
    /\ visit[v] = None
    /\ visit' = [visit EXCEPT ![v] = [place |-> m, cycle |-> req[s].saw, run |-> req[s].run]]
    /\ state' = [state EXCEPT ![v] = "pending_review"]
    /\ LET q == [req[s] EXCEPT !.todo = @ \ {m}]
       IN  Goes(s, IF q.op = "park" THEN q ELSE For(q, v))
    /\ UNCHANGED <<mail, link, jobRows, headers>>

\* Mutant: the schedule moves on from its present date.
AdvanceFromPresent(s) ==
    /\ At(s, "visits")
    /\ req[s].todo = {}
    /\ due' = due + 1
    /\ Ends(s)
    /\ UNCHANGED <<rows, jobRows, runs, event>>

\* The schedule moves on from the date the run has read.
AdvanceSchedule(s) ==
    /\ At(s, "visits")
    /\ req[s].todo = {}
    /\ due' = req[s].saw + 1
    /\ Ends(s)
    /\ UNCHANGED <<rows, jobRows, runs, event>>

\* The pending visits of a run, as they were when the batch began.
ApproveVisits(s, k) ==
    /\ Starts(s, [Idle EXCEPT
            !.stage = "candidates", !.op = "approveVisits",
            !.todo = {v \in Visits : visit[v] # None /\ visit[v].run = k
                                     /\ state[v] = "pending_review"}])
    /\ UNCHANGED <<rows, jobRows, headers>>

\* Locked, checked again and released, one visit after the other.
RecheckVisit(s, v) ==
    /\ At(s, "candidates")
    /\ v \in req[s].todo
    /\ LET q == [req[s] EXCEPT !.todo = @ \ {v}]
       IN  Goes(s, IF state[v] = "pending_review" THEN For(q, v) ELSE q)
    /\ UNCHANGED <<rows, jobRows, headers>>

BatchApproved(s) ==
    /\ At(s, "candidates")
    /\ req[s].todo = {}
    /\ Ends(s)
    /\ UNCHANGED <<rows, jobRows, headers>>

VisitStep(s) ==
    \/ \E m \in Members, v \in Visits : InsertVisit(s, m, v)
    \/ AdvanceSchedule(s)
    \/ \E v \in Visits : RecheckVisit(s, v)
    \/ BatchApproved(s)
-----------------------------------------------------------------------------
(* Snow. *)

\* The header first, then the sites one by one, all in statements of their own.
DeclareSnowEvent(s, op) ==
    /\ event = "none"
    /\ event' = "declared"
    /\ Starts(s, [Idle EXCEPT !.stage = "staging", !.op = op, !.todo = Sites])
    /\ UNCHANGED <<rows, jobRows, due, runs>>

StageSite(s, x) ==
    /\ At(s, "staging")
    /\ x \in req[s].todo
    /\ state' = [state EXCEPT ![x] = "staged"]
    /\ Goes(s, [req[s] EXCEPT !.todo = @ \ {x}])
    /\ UNCHANGED <<mail, link, visit, jobRows, headers>>

Declared(s) ==
    /\ At(s, "staging")
    /\ req[s].todo = {}
    /\ Goes(s, IF req[s].op = "snow" THEN [req[s] EXCEPT !.stage = "fire"] ELSE Idle)
    /\ UNCHANGED <<rows, jobRows, headers>>

ConfirmSnowDispatches(s) ==
    /\ event = "declared"
    /\ Starts(s, [Idle EXCEPT !.stage = "fire", !.op = "snow"])
    /\ UNCHANGED <<rows, jobRows, headers>>

FireEvent(s) ==
    /\ At(s, "fire")
    /\ Goes(s, IF event = "complete" THEN Idle ELSE [req[s] EXCEPT !.stage = "mark"])
    /\ UNCHANGED <<rows, jobRows, headers>>

\* Also over a header that another firing has completed since it was read.
MarkDispatching(s) ==
    /\ At(s, "mark")
    /\ event' = "dispatching"
    /\ Goes(s, [req[s] EXCEPT !.stage = "load"])
    /\ UNCHANGED <<rows, jobRows, due, runs>>

LoadSites(s) ==
    /\ At(s, "load")
    /\ Goes(s, [req[s] EXCEPT !.stage = "sites", !.todo = {x \in Sites : state[x] = "staged"}])
    /\ UNCHANGED <<rows, jobRows, headers>>

\* No second look at the site before its job is created.
SpawnSite(s, x) ==
    /\ At(s, "sites")
    /\ x \in req[s].todo
    /\ Goes(s, For([req[s] EXCEPT !.todo = @ \ {x}], x))
    /\ UNCHANGED <<rows, jobRows, headers>>

CompleteEvent(s) ==
    /\ At(s, "sites")
    /\ req[s].todo = {}
    /\ event' = "complete"
    /\ Ends(s)
    /\ UNCHANGED <<rows, jobRows, due, runs>>

SnowStep(s) ==
    \/ \E x \in Sites : StageSite(s, x) \/ SpawnSite(s, x)
    \/ Declared(s) \/ FireEvent(s) \/ MarkDispatching(s) \/ LoadSites(s) \/ CompleteEvent(s)
-----------------------------------------------------------------------------
Request(s) ==
    \/ \E e \in Emails : IngestEmail(s, e) \/ ApproveEmailDraft(s, e)
    \/ \E w \in Orders : IngestWorkOrder(s, w)
    \/ \E op \in {"generate", "park"} : GenerateVisits(s, op)
    \/ \E k \in 1..runs : ApproveVisits(s, k)
    \/ \E op \in {"snow", "stage"} : DeclareSnowEvent(s, op)
    \/ ConfirmSnowDispatches(s)

Arrives == requests < MaxRequests /\ requests' = requests + 1

Next ==
    \/ \E s \in Workers : Request(s) /\ Arrives
    \/ \E e \in Emails : RejectEmailDraft(e) /\ Arrives
    \/ \E e \in Emails : StoreEmail(e) /\ UNCHANGED requests
    \/ \E s \in Workers :
          (Conversion(s) \/ MailStep(s) \/ VisitStep(s) \/ SnowStep(s)) /\ UNCHANGED requests

Spec == Init /\ [][Next]_vars
-----------------------------------------------------------------------------
(* Properties. *)

ReqRows ==
    [stage : Stages, op : OpKinds,
     todo : SUBSET (Records \cup Members), cur : Records \cup {None},
     made : JobIds \cup {None}, saw : Nat \cup {None}, run : JobIds \cup {None}]

\* Types; every record stays in the statuses of its own table, and a job was created
\* for the record it is linked to.
IntakeTypeOK ==
    /\ mail \in [Emails -> MailStates]
    /\ state \in [Records -> UNION {StatesOf(r) : r \in Records}]
    /\ \A r \in Records : state[r] \in StatesOf(r)
    /\ link \in [Records -> JobIds \cup {None}]
    /\ visit \in [Visits -> VisitRows \cup {None}]
    /\ jobs \in Seq(Records)
    /\ noted \subseteq JobIds /\ lost \subseteq JobIds
    /\ due \in Nat /\ runs \in Nat /\ event \in EventStates
    /\ req \in [Workers -> ReqRows]
    /\ requests \in Nat

\* "we audit the orphan rather than throw, since the job is real" (ingest-email.ts,
\* and the same in pm/ and integrations/core): a job made from an e-mail, a portal
\* order or a visit is the one its record links to, or somebody was told that it is
\* not, or its request still runs, or died, or could not write what it had to.  No
\* link is ever replaced by another.
EveryJobAccounted ==
    \A n \in DOMAIN jobs :
        jobs[n] \in Sites \/ link[jobs[n]] = n \/ n \in noted \cup lost
                          \/ \E s \in Workers : req[s].made = n

\* ingest-email.ts: the duplicate check reads without a lock, and two copies of one
\* message may be ingested at once.  Still at most one of them is drafted: a copy is
\* stored before it looks for the others.
OneDraftPerMessage ==
    \A e, f \in Emails :
        e # f /\ MessageOf[e] = MessageOf[f] /\ MessageOf[e] # None
            => state[e] = "none" \/ state[f] = "none"

Visited(c, m) == \E v \in Visits : visit[v] # None /\ visit[v].cycle = c /\ visit[v].place = m

\* generate-visits.ts: however runs of one schedule overlap or die, a due date the
\* schedule has left behind has a visit for every location.
NoCycleLost == \A c \in 0..due : c < due => \A m \in Members : Visited(c, m)
=============================================================================
