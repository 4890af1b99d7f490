----------------------------- MODULE Intake_proofs -----------------------------
(***************************************************************************)
(* Proofs about Intake for any number of e-mails, orders, visits, sites    *)
(* and requests.  The inductive invariant says what each request carries   *)
(* through its unlocked steps and why that stays true meanwhile.           *)
(***************************************************************************)
EXTENDS Intake, TLAPS

\* The shape of a request at each stage.
Shape(q) ==
    /\ q.stage \in {"duplicate", "parse"} => q.cur \in Emails
    /\ q.stage \in {"create", "link"} => q.cur \in Records
    /\ q.stage = "link" <=> q.made # None
    /\ q.stage = "visits" => q.op \in {"generate", "park"}
    /\ q.stage = "candidates" => q.op = "approveVisits"
    /\ q.stage = "staging" => q.op \in {"snow", "stage"}
    /\ q.stage \in {"fire", "mark", "load", "sites"} => q.op = "snow"
    /\ q.op \in {"generate", "park"} => q.todo \subseteq Members /\ q.saw \in Nat /\ q.run \in JobIds
    /\ q.op = "approveVisits" => q.todo \subseteq Visits
    /\ q.op \in {"snow", "stage"} => q.todo \subseteq Sites

\* What a request relies on although it holds no lock.
Ground(q) ==
    /\ q.stage \in {"duplicate", "parse"} => mail[q.cur] = "received"
    /\ q.stage = "link" => q.made \in DOMAIN jobs /\ jobs[q.made] = q.cur
    /\ q.stage \in {"create", "link"} /\ q.cur \in Visits => visit[q.cur] # None
    /\ q.op = "approveVisits" => \A v \in q.todo : visit[v] # None

\* A generation run has visited what it has done, and everything due before.
Cycle(q) ==
    q.op \in {"generate", "park"} =>
        /\ \A m \in Members \ q.todo : Visited(q.saw, m)
        /\ \A c \in Nat : c < q.saw => \A m \in Members : Visited(c, m)

RowsAgree ==
    /\ \A e \in Emails : state[e] # "none" => mail[e] = "drafted"
    /\ \A v \in Visits : visit[v] = None => state[v] = "none"
    /\ \A r \in Records \ Sites : link[r] # None => state[r] \notin {"none", Waiting(r)}

Ingests(q, e) == q.stage \in {"duplicate", "parse"} /\ q.cur = e
OneIngest ==
    \A s, t \in Workers, e \in Emails : Ingests(req[s], e) /\ Ingests(req[t], e) => s = t

\* Past the duplicate check: about to be drafted, or drafted.
Cleared(e) == state[e] # "none" \/ \E s \in Workers : req[s].stage = "parse" /\ req[s].cur = e
OneCleared ==
    \A e, f \in Emails :
        e # f /\ MessageOf[e] = MessageOf[f] /\ MessageOf[e] # None => ~(Cleared(e) /\ Cleared(f))

Requests == \A s \in Workers : Shape(req[s]) /\ Ground(req[s]) /\ Cycle(req[s])

Inv ==
    /\ IntakeTypeOK
    /\ Requests
    /\ RowsAgree
    /\ OneIngest /\ OneCleared
    /\ NoCycleLost
    /\ EveryJobAccounted
-----------------------------------------------------------------------------
USE IntakeAssumption

LEMMA Apart ==
    /\ \A e \in Emails : e \notin Orders /\ e \notin Visits /\ e \notin Sites
    /\ \A w \in Orders : w \notin Visits /\ w \notin Sites
    /\ \A v \in Visits : v \notin Sites
    /\ None \notin Records /\ None \notin Nat /\ None \notin VisitRows
  BY DEF IntakeAssumption

LEMMA StateFunction ==
    ASSUME NEW f, f = [r \in Records |-> f[r]], \A r \in Records : f[r] \in StatesOf(r)
    PROVE  f \in [Records -> UNION {StatesOf(r) : r \in Records}]
<1>1. \A r \in Records : f[r] \in UNION {StatesOf(x) : x \in Records}
  OBVIOUS
<1> QED BY <1>1

LEMMA IdleRow == Idle \in ReqRows /\ Shape(Idle) /\ Ground(Idle) /\ Cycle(Idle)
  BY DEF Idle, ReqRows, Stages, OpKinds, Shape, Ground, Cycle

LEMMA ForRow ==
    ASSUME NEW q \in ReqRows, NEW r \in Records
    PROVE  /\ For(q, r) \in ReqRows
           /\ For(q, r).stage = "create" /\ For(q, r).cur = r
           /\ For(q, r).op = q.op /\ For(q, r).todo = q.todo /\ For(q, r).made = q.made
           /\ For(q, r).saw = q.saw /\ For(q, r).run = q.run
  BY DEF For, ReqRows, Stages

THEOREM InitInv == Init => Inv
<1> SUFFICES ASSUME Init PROVE Inv  OBVIOUS
<1> USE DEF Init
<1>1. \A r \in Records : state[r] \in StatesOf(r)  BY DEF StatesOf
<1>2. state \in [Records -> UNION {StatesOf(r) : r \in Records}]
  BY <1>1, StateFunction
<1>3. Idle \in ReqRows  BY DEF Idle, ReqRows, Stages, OpKinds
<1>4. IntakeTypeOK
  <2>1. jobs \in Seq(Records)  OBVIOUS
  <2>2. mail \in [Emails -> MailStates]  BY DEF MailStates
  <2>3. link \in [Records -> JobIds \cup {None}] /\ visit \in [Visits -> VisitRows \cup {None}]
    OBVIOUS
  <2>4. req \in [Workers -> ReqRows]  BY <1>3
  <2> QED BY <1>1, <1>2, <2>1, <2>2, <2>3, <2>4 DEF IntakeTypeOK, EventStates
<1>5. Requests
  BY DEF Requests, Shape, Ground, Cycle, Idle
<1>6. RowsAgree  BY DEF RowsAgree, Records
<1>7. OneIngest /\ OneCleared
  BY DEF OneIngest, OneCleared, Ingests, Cleared, Idle, Records
<1>8. NoCycleLost  BY DEF NoCycleLost
<1>9. EveryJobAccounted  BY DEF EveryJobAccounted
<1> QED BY <1>4, <1>5, <1>6, <1>7, <1>8, <1>9 DEF Inv

\* A request moves on; tables and jobs stay as they are.
LEMMA Moves ==
    ASSUME Inv, NEW s \in Workers, NEW q \in ReqRows,
           Shape(q), Ground(q), Cycle(q),
           q.stage \notin {"duplicate", "parse", "link"}, req[s].stage # "link",
           req' = [req EXCEPT ![s] = q],
           UNCHANGED <<rows, jobRows>>,
           due' \in Nat, runs' \in Nat, event' \in EventStates, requests' \in Nat,
           NoCycleLost'
    PROVE  Inv'
<1> USE DEF rows, jobRows
<1>0. req \in [Workers -> ReqRows] /\ Requests /\ IntakeTypeOK  BY DEF Inv, IntakeTypeOK
<1>1. IntakeTypeOK'  BY <1>0 DEF IntakeTypeOK
<1>2. Requests'
  <2> SUFFICES ASSUME NEW t \in Workers PROVE (Shape(req[t]) /\ Ground(req[t]) /\ Cycle(req[t]))'
    BY DEF Requests
  <2>1. CASE t = s
    BY <1>0, <2>1 DEF Shape, Ground, Cycle, Visited
  <2>2. CASE t # s
    BY <1>0, <2>2 DEF Requests, Shape, Ground, Cycle, Visited
  <2> QED BY <2>1, <2>2
<1>3. RowsAgree'  BY DEF Inv, RowsAgree
<1>4. OneIngest'  BY <1>0 DEF Inv, OneIngest, Ingests
<1>5. OneCleared'
  <2>1. \A e \in Emails : Cleared(e)' => Cleared(e)  BY <1>0 DEF Cleared
  <2> QED BY <2>1 DEF Inv, OneCleared
<1>6. EveryJobAccounted'
  <2>1. req[s].made = None  BY <1>0 DEF Requests, Shape
  <2>2. \A n \in DOMAIN jobs : n # None  BY <1>0 DEF IntakeTypeOK, IntakeAssumption
  <2>3. \A n \in DOMAIN jobs, t \in Workers : req[t].made = n => req'[t].made = n
    BY <1>0, <2>1, <2>2 DEF IntakeTypeOK
  <2> QED BY <2>3 DEF Inv, EveryJobAccounted
<1> QED BY <1>1, <1>2, <1>3, <1>4, <1>5, <1>6 DEF Inv

\* The actions that move one request only, and the headers of runs and events.
LEMMA ApproveEmailDraftKeeps ==
    ASSUME Inv, NEW s \in Workers, NEW e \in Emails, ApproveEmailDraft(s, e), requests' \in Nat
    PROVE  Inv'
<1> DEFINE q == For([Idle EXCEPT !.op = "approve"], e)
<1>0. req[s] \in ReqRows /\ Requests /\ IntakeTypeOK  BY DEF Inv, IntakeTypeOK
<1>1. q \in ReqRows /\ req' = [req EXCEPT ![s] = q]
  <2>1. [Idle EXCEPT !.op = "approve"] \in ReqRows  BY IdleRow DEF ReqRows, OpKinds
  <2> QED BY <2>1, ForRow DEF Records, Starts, ApproveEmailDraft
<1>2. Shape(q) /\ Ground(q) /\ Cycle(q)
  <2>1. [Idle EXCEPT !.op = "approve"] \in ReqRows  BY IdleRow DEF ReqRows, OpKinds
  <2>2. q.stage = "create" /\ q.cur = e /\ q.op = "approve" /\ q.made = None
    BY <2>1, ForRow DEF Records, Idle
  <2> QED BY <2>2, Apart DEF Shape, Ground, Cycle, Records
<1>3. q.stage \notin {"duplicate", "parse", "link"} /\ req[s].stage # "link"
  <2>1. [Idle EXCEPT !.op = "approve"] \in ReqRows  BY IdleRow DEF ReqRows, OpKinds
  <2> QED BY <2>1, ForRow DEF Records, Starts, At, ApproveEmailDraft
<1>4. UNCHANGED <<rows, jobRows>> /\ due' \in Nat /\ runs' \in Nat /\ event' \in EventStates
  BY <1>0 DEF IntakeTypeOK, headers, EventStates, Requests, Shape, Goes, Starts, Ends, At, Idle, ApproveEmailDraft
<1>5. NoCycleLost'
  BY <1>0 DEF Inv, NoCycleLost, Visited, rows, headers, Goes, Starts, Ends, At, Idle, ApproveEmailDraft
<1> HIDE DEF q
<1> QED BY <1>1, <1>2, <1>3, <1>4, <1>5, Moves

LEMMA IngestWorkOrderKeeps ==
    ASSUME Inv, NEW s \in Workers, NEW w \in Orders, IngestWorkOrder(s, w), requests' \in Nat
    PROVE  Inv'
<1> DEFINE q == For([Idle EXCEPT !.op = "order"], w)
<1>0. req[s] \in ReqRows /\ Requests /\ IntakeTypeOK  BY DEF Inv, IntakeTypeOK
<1>1. q \in ReqRows /\ req' = [req EXCEPT ![s] = q]
  <2>1. [Idle EXCEPT !.op = "order"] \in ReqRows  BY IdleRow DEF ReqRows, OpKinds
  <2> QED BY <2>1, ForRow DEF Records, Starts, IngestWorkOrder
<1>2. Shape(q) /\ Ground(q) /\ Cycle(q)
  <2>1. [Idle EXCEPT !.op = "order"] \in ReqRows  BY IdleRow DEF ReqRows, OpKinds
  <2>2. q.stage = "create" /\ q.cur = w /\ q.op = "order" /\ q.made = None
    BY <2>1, ForRow DEF Records, Idle
  <2> QED BY <2>2, Apart DEF Shape, Ground, Cycle, Records
<1>3. q.stage \notin {"duplicate", "parse", "link"} /\ req[s].stage # "link"
  <2>1. [Idle EXCEPT !.op = "order"] \in ReqRows  BY IdleRow DEF ReqRows, OpKinds
  <2> QED BY <2>1, ForRow DEF Records, Starts, At, IngestWorkOrder
<1>4. UNCHANGED <<rows, jobRows>> /\ due' \in Nat /\ runs' \in Nat /\ event' \in EventStates
  BY <1>0 DEF IntakeTypeOK, headers, EventStates, Requests, Shape, Goes, Starts, Ends, At, Idle, IngestWorkOrder
<1>5. NoCycleLost'
  BY <1>0 DEF Inv, NoCycleLost, Visited, rows, headers, Goes, Starts, Ends, At, Idle, IngestWorkOrder
<1> HIDE DEF q
<1> QED BY <1>1, <1>2, <1>3, <1>4, <1>5, Moves

LEMMA GenerateVisitsKeeps ==
    ASSUME Inv, NEW s \in Workers, NEW op \in {"generate", "park"}, GenerateVisits(s, op), requests' \in Nat
    PROVE  Inv'
<1> DEFINE q == [Idle EXCEPT !.stage = "visits", !.op = op, !.todo = Members,
                           !.saw = due, !.run = runs + 1]
<1>0. req[s] \in ReqRows /\ Requests /\ IntakeTypeOK  BY DEF Inv, IntakeTypeOK
<1>1. q \in ReqRows /\ req' = [req EXCEPT ![s] = q]
  <2>1. q \in ReqRows
    <3>1. due \in Nat \cup {None} /\ runs + 1 \in JobIds \cup {None}
      BY <1>0 DEF IntakeTypeOK, JobIds
    <3>2. op \in OpKinds /\ "visits" \in Stages  BY DEF OpKinds, Batches, Stages
    <3> QED BY <3>1, <3>2, IdleRow DEF ReqRows
  <2>2. req' = [req EXCEPT ![s] = q]  BY DEF Starts, Goes, Ends, GenerateVisits
  <2> QED BY <2>1, <2>2
<1>2. Shape(q) /\ Ground(q) /\ Cycle(q)
  <2>1. Shape(q) /\ Ground(q)
    BY <1>0 DEF IntakeTypeOK, Shape, Ground, Idle, JobIds
  <2>2. Cycle(q)  BY <1>0 DEF IntakeTypeOK, Inv, NoCycleLost, Cycle, Idle
  <2> QED BY <2>1, <2>2
<1>3. q.stage \notin {"duplicate", "parse", "link"} /\ req[s].stage # "link"
  BY <1>0 DEF Goes, Starts, Ends, At, Idle, GenerateVisits
<1>4. UNCHANGED <<rows, jobRows>> /\ due' \in Nat /\ runs' \in Nat /\ event' \in EventStates
  BY <1>0 DEF IntakeTypeOK, headers, EventStates, Requests, Shape, Goes, Starts, Ends, At, Idle, GenerateVisits
<1>5. NoCycleLost'
  BY <1>0 DEF Inv, NoCycleLost, Visited, rows, headers, Goes, Starts, Ends, At, Idle, GenerateVisits
<1> HIDE DEF q
<1> QED BY <1>1, <1>2, <1>3, <1>4, <1>5, Moves

LEMMA ApproveVisitsKeeps ==
    ASSUME Inv, NEW s \in Workers, NEW k, ApproveVisits(s, k), requests' \in Nat
    PROVE  Inv'
<1> DEFINE q == [Idle EXCEPT !.stage = "candidates", !.op = "approveVisits",
                           !.todo = {v \in Visits : visit[v] # None /\ visit[v].run = k
                                                   /\ state[v] = "pending_review"}]
<1>0. req[s] \in ReqRows /\ Requests /\ IntakeTypeOK  BY DEF Inv, IntakeTypeOK
<1>1. q \in ReqRows /\ req' = [req EXCEPT ![s] = q]
  <2>1. q \in ReqRows
    <3>1. {v \in Visits : visit[v] # None /\ visit[v].run = k /\ state[v] = "pending_review"}
            \in SUBSET (Records \cup Members)
      BY DEF Records
    <3>2. "approveVisits" \in OpKinds /\ "candidates" \in Stages  BY DEF OpKinds, Batches, Stages
    <3> QED BY <3>1, <3>2, IdleRow DEF ReqRows
  <2>2. req' = [req EXCEPT ![s] = q]  BY DEF Starts, Goes, Ends, ApproveVisits
  <2> QED BY <2>1, <2>2
<1>2. Shape(q) /\ Ground(q) /\ Cycle(q)
  BY <1>0, IdleRow, Apart DEF IntakeTypeOK, ReqRows, Requests, Shape, Ground, Cycle, JobIds, Goes, Starts, Ends, At, Idle, ApproveVisits
<1>3. q.stage \notin {"duplicate", "parse", "link"} /\ req[s].stage # "link"
  BY <1>0 DEF Goes, Starts, Ends, At, Idle, ApproveVisits
<1>4. UNCHANGED <<rows, jobRows>> /\ due' \in Nat /\ runs' \in Nat /\ event' \in EventStates
  BY <1>0 DEF IntakeTypeOK, headers, EventStates, Requests, Shape, Goes, Starts, Ends, At, Idle, ApproveVisits
<1>5. NoCycleLost'
  BY <1>0 DEF Inv, NoCycleLost, Visited, rows, headers, Goes, Starts, Ends, At, Idle, ApproveVisits
<1> HIDE DEF q
<1> QED BY <1>1, <1>2, <1>3, <1>4, <1>5, Moves

LEMMA RecheckVisitKeeps ==
    ASSUME Inv, NEW s \in Workers, NEW v \in Visits, RecheckVisit(s, v), requests' \in Nat
    PROVE  Inv'
<1> DEFINE q == IF state[v] = "pending_review" THEN For([req[s] EXCEPT !.todo = @ \ {v}], v)
                 ELSE [req[s] EXCEPT !.todo = @ \ {v}]
<1>0. req[s] \in ReqRows /\ Requests /\ IntakeTypeOK  BY DEF Inv, IntakeTypeOK
<1>1. q \in ReqRows /\ req' = [req EXCEPT ![s] = q]
  <2> DEFINE r == [req[s] EXCEPT !.todo = @ \ {v}]
  <2>1. r \in ReqRows /\ r.stage = "candidates" /\ r.op = "approveVisits" /\ r.made = None
        /\ r.todo \subseteq Visits /\ (\A u \in r.todo : visit[u] # None) /\ visit[v] # None
    BY <1>0 DEF ReqRows, Requests, Shape, Ground, At, RecheckVisit
  <2>2. q = IF state[v] = "pending_review" THEN For(r, v) ELSE r  OBVIOUS
  <2> HIDE DEF r
  <2>3. q \in ReqRows  BY <2>1, <2>2, ForRow DEF Records
  <2> QED BY <2>3 DEF Goes, RecheckVisit
<1>2. Shape(q) /\ Ground(q) /\ Cycle(q)
  <2> DEFINE r == [req[s] EXCEPT !.todo = @ \ {v}]
  <2>1. r \in ReqRows /\ r.stage = "candidates" /\ r.op = "approveVisits" /\ r.made = None
        /\ r.todo \subseteq Visits /\ (\A u \in r.todo : visit[u] # None) /\ visit[v] # None
    BY <1>0 DEF ReqRows, Requests, Shape, Ground, At, RecheckVisit
  <2>2. q = IF state[v] = "pending_review" THEN For(r, v) ELSE r  OBVIOUS
  <2> HIDE DEF r
  <2>3. q.stage \in {"candidates", "create"} /\ q.op = r.op /\ q.todo = r.todo /\ q.made = r.made
        /\ (q.stage = "create" => q.cur = v)
    <3>1. CASE state[v] = "pending_review"
      BY <3>1, <2>1, <2>2, ForRow DEF Records
    <3>2. CASE state[v] # "pending_review"
      BY <3>2, <2>1, <2>2
    <3> QED BY <3>1, <3>2
  <2> QED BY <2>1, <2>3 DEF Shape, Ground, Cycle, Records
<1>3. q.stage \notin {"duplicate", "parse", "link"} /\ req[s].stage # "link"
  <2> DEFINE r == [req[s] EXCEPT !.todo = @ \ {v}]
  <2>1. r \in ReqRows /\ r.stage = "candidates" /\ r.op = "approveVisits" /\ r.made = None
        /\ r.todo \subseteq Visits /\ (\A u \in r.todo : visit[u] # None) /\ visit[v] # None
    BY <1>0 DEF ReqRows, Requests, Shape, Ground, At, RecheckVisit
  <2>2. q = IF state[v] = "pending_review" THEN For(r, v) ELSE r  OBVIOUS
  <2> HIDE DEF r
  <2>3. q.stage \in {"candidates", "create"}
    <3>1. CASE state[v] = "pending_review"
      BY <3>1, <2>1, <2>2, ForRow DEF Records
    <3>2. CASE state[v] # "pending_review"
      BY <3>2, <2>1, <2>2
    <3> QED BY <3>1, <3>2
  <2> QED BY <2>3 DEF At, RecheckVisit
<1>4. UNCHANGED <<rows, jobRows>> /\ due' \in Nat /\ runs' \in Nat /\ event' \in EventStates
  BY <1>0 DEF IntakeTypeOK, headers, EventStates, Requests, Shape, Goes, Starts, Ends, At, Idle, RecheckVisit
<1>5. NoCycleLost'
  BY <1>0 DEF Inv, NoCycleLost, Visited, rows, headers, Goes, Starts, Ends, At, Idle, RecheckVisit
<1> HIDE DEF q
<1> QED BY <1>1, <1>2, <1>3, <1>4, <1>5, Moves

LEMMA BatchApprovedKeeps ==
    ASSUME Inv, NEW s \in Workers, BatchApproved(s), requests' \in Nat
    PROVE  Inv'
<1> DEFINE q == Idle
<1>0. req[s] \in ReqRows /\ Requests /\ IntakeTypeOK  BY DEF Inv, IntakeTypeOK
<1>1. q \in ReqRows /\ req' = [req EXCEPT ![s] = q]
  BY IdleRow DEF Goes, Ends, BatchApproved
<1>2. Shape(q) /\ Ground(q) /\ Cycle(q)
  BY IdleRow
<1>3. q.stage \notin {"duplicate", "parse", "link"} /\ req[s].stage # "link"
  BY <1>0 DEF Goes, Starts, Ends, At, Idle, BatchApproved
<1>4. UNCHANGED <<rows, jobRows>> /\ due' \in Nat /\ runs' \in Nat /\ event' \in EventStates
  BY <1>0 DEF IntakeTypeOK, headers, EventStates, Requests, Shape, Goes, Starts, Ends, At, Idle, BatchApproved
<1>5. NoCycleLost'
  BY <1>0 DEF Inv, NoCycleLost, Visited, rows, headers, Goes, Starts, Ends, At, Idle, BatchApproved
<1> HIDE DEF q
<1> QED BY <1>1, <1>2, <1>3, <1>4, <1>5, Moves

LEMMA AdvanceScheduleKeeps ==
    ASSUME Inv, NEW s \in Workers, AdvanceSchedule(s), requests' \in Nat
    PROVE  Inv'
<1> DEFINE q == Idle
<1>0. req[s] \in ReqRows /\ Requests /\ IntakeTypeOK  BY DEF Inv, IntakeTypeOK
<1>1. q \in ReqRows /\ req' = [req EXCEPT ![s] = q]
  BY IdleRow DEF Goes, Ends, AdvanceSchedule
<1>2. Shape(q) /\ Ground(q) /\ Cycle(q)
  BY IdleRow
<1>3. q.stage \notin {"duplicate", "parse", "link"} /\ req[s].stage # "link"
  BY <1>0 DEF Goes, Starts, Ends, At, Idle, AdvanceSchedule
<1>4. UNCHANGED <<rows, jobRows>> /\ due' \in Nat /\ runs' \in Nat /\ event' \in EventStates
  BY <1>0 DEF IntakeTypeOK, headers, EventStates, Requests, Shape, Goes, Starts, Ends, At, Idle, AdvanceSchedule
<1>5. NoCycleLost'
  <2>1. /\ Cycle(req[s]) /\ req[s].op \in {"generate", "park"} /\ req[s].todo = {}
        /\ req[s].saw \in Nat /\ due' = req[s].saw + 1 /\ UNCHANGED visit
    BY <1>0 DEF AdvanceSchedule, At, Requests, Shape, rows
  <2>2. \A c \in Nat : c < req[s].saw + 1 => \A m \in Members : Visited(c, m)
    BY <2>1 DEF Cycle
  <2>3. \A c \in Nat, m \in Members : Visited(c, m)' = Visited(c, m)
    BY <2>1 DEF Visited
  <2> QED BY <2>1, <2>2, <2>3 DEF NoCycleLost
<1> HIDE DEF q
<1> QED BY <1>1, <1>2, <1>3, <1>4, <1>5, Moves

LEMMA DeclareSnowEventKeeps ==
    ASSUME Inv, NEW s \in Workers, NEW op \in {"snow", "stage"}, DeclareSnowEvent(s, op), requests' \in Nat
    PROVE  Inv'
<1> DEFINE q == [Idle EXCEPT !.stage = "staging", !.op = op, !.todo = Sites]
<1>0. req[s] \in ReqRows /\ Requests /\ IntakeTypeOK  BY DEF Inv, IntakeTypeOK
<1>1. q \in ReqRows /\ req' = [req EXCEPT ![s] = q]
  <2>1. q \in ReqRows
    <3>1. op \in OpKinds /\ "staging" \in Stages  BY DEF OpKinds, Batches, Stages
    <3>2. Sites \in SUBSET (Records \cup Members)  BY DEF Records
    <3> QED BY <3>1, <3>2, IdleRow DEF ReqRows
  <2>2. req' = [req EXCEPT ![s] = q]  BY DEF Starts, Goes, Ends, DeclareSnowEvent
  <2> QED BY <2>1, <2>2
<1>2. Shape(q) /\ Ground(q) /\ Cycle(q)
  BY <1>0, IdleRow, Apart DEF IntakeTypeOK, ReqRows, Requests, Shape, Ground, Cycle, JobIds, Goes, Starts, Ends, At, Idle, DeclareSnowEvent
<1>3. q.stage \notin {"duplicate", "parse", "link"} /\ req[s].stage # "link"
  BY <1>0 DEF Goes, Starts, Ends, At, Idle, DeclareSnowEvent
<1>4. UNCHANGED <<rows, jobRows>> /\ due' \in Nat /\ runs' \in Nat /\ event' \in EventStates
  BY <1>0 DEF IntakeTypeOK, headers, EventStates, Requests, Shape, Goes, Starts, Ends, At, Idle, DeclareSnowEvent
<1>5. NoCycleLost'
  BY <1>0 DEF Inv, NoCycleLost, Visited, rows, headers, Goes, Starts, Ends, At, Idle, DeclareSnowEvent
<1> HIDE DEF q
<1> QED BY <1>1, <1>2, <1>3, <1>4, <1>5, Moves

LEMMA DeclaredKeeps ==
    ASSUME Inv, NEW s \in Workers, Declared(s), requests' \in Nat
    PROVE  Inv'
<1> DEFINE q == IF req[s].op = "snow" THEN [req[s] EXCEPT !.stage = "fire"] ELSE Idle
<1>0. req[s] \in ReqRows /\ Requests /\ IntakeTypeOK  BY DEF Inv, IntakeTypeOK
<1>1. q \in ReqRows /\ req' = [req EXCEPT ![s] = q]
  <2>1. q \in ReqRows
    <3>1. "fire" \in Stages  BY DEF Stages
    <3> QED BY <1>0, <3>1, IdleRow DEF ReqRows
  <2>2. req' = [req EXCEPT ![s] = q]  BY DEF Starts, Goes, Ends, Declared
  <2> QED BY <2>1, <2>2
<1>2. Shape(q) /\ Ground(q) /\ Cycle(q)
  BY <1>0, IdleRow, Apart DEF IntakeTypeOK, ReqRows, Requests, Shape, Ground, Cycle, JobIds, Goes, Starts, Ends, At, Idle, Declared
<1>3. q.stage \notin {"duplicate", "parse", "link"} /\ req[s].stage # "link"
  BY <1>0 DEF Goes, Starts, Ends, At, Idle, Declared
<1>4. UNCHANGED <<rows, jobRows>> /\ due' \in Nat /\ runs' \in Nat /\ event' \in EventStates
  BY <1>0 DEF IntakeTypeOK, headers, EventStates, Requests, Shape, Goes, Starts, Ends, At, Idle, Declared
<1>5. NoCycleLost'
  BY <1>0 DEF Inv, NoCycleLost, Visited, rows, headers, Goes, Starts, Ends, At, Idle, Declared
<1> HIDE DEF q
<1> QED BY <1>1, <1>2, <1>3, <1>4, <1>5, Moves

LEMMA ConfirmSnowDispatchesKeeps ==
    ASSUME Inv, NEW s \in Workers, ConfirmSnowDispatches(s), requests' \in Nat
    PROVE  Inv'
<1> DEFINE q == [Idle EXCEPT !.stage = "fire", !.op = "snow"]
<1>0. req[s] \in ReqRows /\ Requests /\ IntakeTypeOK  BY DEF Inv, IntakeTypeOK
<1>1. q \in ReqRows /\ req' = [req EXCEPT ![s] = q]
  <2>1. q \in ReqRows
    <3>1. "snow" \in OpKinds /\ "fire" \in Stages  BY DEF OpKinds, Batches, Stages
    <3> QED BY <3>1, IdleRow DEF ReqRows
  <2>2. req' = [req EXCEPT ![s] = q]  BY DEF Starts, Goes, Ends, ConfirmSnowDispatches
  <2> QED BY <2>1, <2>2
<1>2. Shape(q) /\ Ground(q) /\ Cycle(q)
  BY <1>0, IdleRow, Apart DEF IntakeTypeOK, ReqRows, Requests, Shape, Ground, Cycle, JobIds, Goes, Starts, Ends, At, Idle, ConfirmSnowDispatches
<1>3. q.stage \notin {"duplicate", "parse", "link"} /\ req[s].stage # "link"
  BY <1>0 DEF Goes, Starts, Ends, At, Idle, ConfirmSnowDispatches
<1>4. UNCHANGED <<rows, jobRows>> /\ due' \in Nat /\ runs' \in Nat /\ event' \in EventStates
  BY <1>0 DEF IntakeTypeOK, headers, EventStates, Requests, Shape, Goes, Starts, Ends, At, Idle, ConfirmSnowDispatches
<1>5. NoCycleLost'
  BY <1>0 DEF Inv, NoCycleLost, Visited, rows, headers, Goes, Starts, Ends, At, Idle, ConfirmSnowDispatches
<1> HIDE DEF q
<1> QED BY <1>1, <1>2, <1>3, <1>4, <1>5, Moves

LEMMA FireEventKeeps ==
    ASSUME Inv, NEW s \in Workers, FireEvent(s), requests' \in Nat
    PROVE  Inv'
<1> DEFINE q == IF event = "complete" THEN Idle ELSE [req[s] EXCEPT !.stage = "mark"]
<1>0. req[s] \in ReqRows /\ Requests /\ IntakeTypeOK  BY DEF Inv, IntakeTypeOK
<1>1. q \in ReqRows /\ req' = [req EXCEPT ![s] = q]
  <2>1. q \in ReqRows
    <3>1. "mark" \in Stages  BY DEF Stages
    <3> QED BY <1>0, <3>1, IdleRow DEF ReqRows
  <2>2. req' = [req EXCEPT ![s] = q]  BY DEF Starts, Goes, Ends, FireEvent
  <2> QED BY <2>1, <2>2
<1>2. Shape(q) /\ Ground(q) /\ Cycle(q)
  BY <1>0, IdleRow, Apart DEF IntakeTypeOK, ReqRows, Requests, Shape, Ground, Cycle, JobIds, Goes, Starts, Ends, At, Idle, FireEvent
<1>3. q.stage \notin {"duplicate", "parse", "link"} /\ req[s].stage # "link"
  BY <1>0 DEF Goes, Starts, Ends, At, Idle, FireEvent
<1>4. UNCHANGED <<rows, jobRows>> /\ due' \in Nat /\ runs' \in Nat /\ event' \in EventStates
  BY <1>0 DEF IntakeTypeOK, headers, EventStates, Requests, Shape, Goes, Starts, Ends, At, Idle, FireEvent
<1>5. NoCycleLost'
  BY <1>0 DEF Inv, NoCycleLost, Visited, rows, headers, Goes, Starts, Ends, At, Idle, FireEvent
<1> HIDE DEF q
<1> QED BY <1>1, <1>2, <1>3, <1>4, <1>5, Moves

LEMMA MarkDispatchingKeeps ==
    ASSUME Inv, NEW s \in Workers, MarkDispatching(s), requests' \in Nat
    PROVE  Inv'
<1> DEFINE q == [req[s] EXCEPT !.stage = "load"]
<1>0. req[s] \in ReqRows /\ Requests /\ IntakeTypeOK  BY DEF Inv, IntakeTypeOK
<1>1. q \in ReqRows /\ req' = [req EXCEPT ![s] = q]
  <2>1. q \in ReqRows
    <3>1. "load" \in Stages  BY DEF Stages
    <3> QED BY <1>0, <3>1 DEF ReqRows
  <2>2. req' = [req EXCEPT ![s] = q]  BY DEF Starts, Goes, Ends, MarkDispatching
  <2> QED BY <2>1, <2>2
<1>2. Shape(q) /\ Ground(q) /\ Cycle(q)
  BY <1>0, IdleRow, Apart DEF IntakeTypeOK, ReqRows, Requests, Shape, Ground, Cycle, JobIds, Goes, Starts, Ends, At, Idle, MarkDispatching
<1>3. q.stage \notin {"duplicate", "parse", "link"} /\ req[s].stage # "link"
  BY <1>0 DEF Goes, Starts, Ends, At, Idle, MarkDispatching
<1>4. UNCHANGED <<rows, jobRows>> /\ due' \in Nat /\ runs' \in Nat /\ event' \in EventStates
  BY <1>0 DEF IntakeTypeOK, headers, EventStates, Requests, Shape, Goes, Starts, Ends, At, Idle, MarkDispatching
<1>5. NoCycleLost'
  BY <1>0 DEF Inv, NoCycleLost, Visited, rows, headers, Goes, Starts, Ends, At, Idle, MarkDispatching
<1> HIDE DEF q
<1> QED BY <1>1, <1>2, <1>3, <1>4, <1>5, Moves

LEMMA LoadSitesKeeps ==
    ASSUME Inv, NEW s \in Workers, LoadSites(s), requests' \in Nat
    PROVE  Inv'
<1> DEFINE q == [req[s] EXCEPT !.stage = "sites", !.todo = {x \in Sites : state[x] = "staged"}]
<1>0. req[s] \in ReqRows /\ Requests /\ IntakeTypeOK  BY DEF Inv, IntakeTypeOK
<1>1. q \in ReqRows /\ req' = [req EXCEPT ![s] = q]
  <2>1. q \in ReqRows
    <3>1. {x \in Sites : state[x] = "staged"} \in SUBSET (Records \cup Members)
      BY DEF Records
    <3>2. "sites" \in Stages  BY DEF Stages
    <3> QED BY <1>0, <3>1, <3>2 DEF ReqRows
  <2>2. req' = [req EXCEPT ![s] = q]  BY DEF Starts, Goes, Ends, LoadSites
  <2> QED BY <2>1, <2>2
<1>2. Shape(q) /\ Ground(q) /\ Cycle(q)
  BY <1>0, IdleRow, Apart DEF IntakeTypeOK, ReqRows, Requests, Shape, Ground, Cycle, JobIds, Goes, Starts, Ends, At, Idle, LoadSites
<1>3. q.stage \notin {"duplicate", "parse", "link"} /\ req[s].stage # "link"
  BY <1>0 DEF Goes, Starts, Ends, At, Idle, LoadSites
<1>4. UNCHANGED <<rows, jobRows>> /\ due' \in Nat /\ runs' \in Nat /\ event' \in EventStates
  BY <1>0 DEF IntakeTypeOK, headers, EventStates, Requests, Shape, Goes, Starts, Ends, At, Idle, LoadSites
<1>5. NoCycleLost'
  BY <1>0 DEF Inv, NoCycleLost, Visited, rows, headers, Goes, Starts, Ends, At, Idle, LoadSites
<1> HIDE DEF q
<1> QED BY <1>1, <1>2, <1>3, <1>4, <1>5, Moves

LEMMA CompleteEventKeeps ==
    ASSUME Inv, NEW s \in Workers, CompleteEvent(s), requests' \in Nat
    PROVE  Inv'
<1> DEFINE q == Idle
<1>0. req[s] \in ReqRows /\ Requests /\ IntakeTypeOK  BY DEF Inv, IntakeTypeOK
<1>1. q \in ReqRows /\ req' = [req EXCEPT ![s] = q]
  BY IdleRow DEF Goes, Ends, CompleteEvent
<1>2. Shape(q) /\ Ground(q) /\ Cycle(q)
  BY IdleRow
<1>3. q.stage \notin {"duplicate", "parse", "link"} /\ req[s].stage # "link"
  BY <1>0 DEF Goes, Starts, Ends, At, Idle, CompleteEvent
<1>4. UNCHANGED <<rows, jobRows>> /\ due' \in Nat /\ runs' \in Nat /\ event' \in EventStates
  BY <1>0 DEF IntakeTypeOK, headers, EventStates, Requests, Shape, Goes, Starts, Ends, At, Idle, CompleteEvent
<1>5. NoCycleLost'
  BY <1>0 DEF Inv, NoCycleLost, Visited, rows, headers, Goes, Starts, Ends, At, Idle, CompleteEvent
<1> HIDE DEF q
<1> QED BY <1>1, <1>2, <1>3, <1>4, <1>5, Moves

LEMMA SpawnSiteKeeps ==
    ASSUME Inv, NEW s \in Workers, NEW x \in Sites, SpawnSite(s, x), requests' \in Nat
    PROVE  Inv'
<1> DEFINE q == For([req[s] EXCEPT !.todo = @ \ {x}], x)
<1>0. req[s] \in ReqRows /\ Requests /\ IntakeTypeOK  BY DEF Inv, IntakeTypeOK
<1>1. q \in ReqRows /\ req' = [req EXCEPT ![s] = q]
  <2> DEFINE r == [req[s] EXCEPT !.todo = @ \ {x}]
  <2>1. r \in ReqRows /\ r.stage = "sites" /\ r.op = "snow" /\ r.made = None /\ r.todo \subseteq Sites
    BY <1>0 DEF ReqRows, Requests, Shape, At, SpawnSite
  <2>2. q = For(r, x)  OBVIOUS
  <2> HIDE DEF r
  <2>3. q \in ReqRows  BY <2>1, <2>2, ForRow DEF Records
  <2> QED BY <2>3 DEF Goes, SpawnSite
<1>2. Shape(q) /\ Ground(q) /\ Cycle(q)
  <2> DEFINE r == [req[s] EXCEPT !.todo = @ \ {x}]
  <2>1. r \in ReqRows /\ r.stage = "sites" /\ r.op = "snow" /\ r.made = None /\ r.todo \subseteq Sites
    BY <1>0 DEF ReqRows, Requests, Shape, At, SpawnSite
  <2>2. q = For(r, x)  OBVIOUS
  <2> HIDE DEF r
  <2>3. q.stage = "create" /\ q.op = "snow" /\ q.todo = r.todo /\ q.made = None /\ q.cur = x
    BY <2>1, <2>2, ForRow DEF Records
  <2> QED BY <2>1, <2>3, Apart DEF Shape, Ground, Cycle, Records
<1>3. q.stage \notin {"duplicate", "parse", "link"} /\ req[s].stage # "link"
  <2> DEFINE r == [req[s] EXCEPT !.todo = @ \ {x}]
  <2>1. r \in ReqRows /\ r.stage = "sites" /\ r.op = "snow" /\ r.made = None /\ r.todo \subseteq Sites
    BY <1>0 DEF ReqRows, Requests, Shape, At, SpawnSite
  <2>2. q = For(r, x)  OBVIOUS
  <2> HIDE DEF r
  <2>3. q.stage = "create"  BY <2>1, <2>2, ForRow DEF Records
  <2> QED BY <2>3 DEF At, SpawnSite
<1>4. UNCHANGED <<rows, jobRows>> /\ due' \in Nat /\ runs' \in Nat /\ event' \in EventStates
  BY <1>0 DEF IntakeTypeOK, headers, EventStates, Requests, Shape, Goes, Starts, Ends, At, Idle, SpawnSite
<1>5. NoCycleLost'
  BY <1>0 DEF Inv, NoCycleLost, Visited, rows, headers, Goes, Starts, Ends, At, Idle, SpawnSite
<1> HIDE DEF q
<1> QED BY <1>1, <1>2, <1>3, <1>4, <1>5, Moves
-----------------------------------------------------------------------------
\* Requests' from what an action does to the tables a request relies on.
LEMMA RequestsKeep ==
    ASSUME IntakeTypeOK, Requests, NEW s \in Workers, NEW q \in ReqRows,
           Shape(q), Ground(q)', Cycle(q)',
           req' = [req EXCEPT ![s] = q],
           \A v \in Visits : visit[v] # None => visit'[v] = visit[v],
           \A n \in DOMAIN jobs : n \in DOMAIN jobs' /\ jobs'[n] = jobs[n],
           \A t \in Workers \ {s} : req[t].stage \in {"duplicate", "parse"}
                                       => mail'[req[t].cur] = mail[req[t].cur]
    PROVE  Requests'
<1> SUFFICES ASSUME NEW t \in Workers PROVE (Shape(req[t]) /\ Ground(req[t]) /\ Cycle(req[t]))'
  BY DEF Requests
<1>1. req' \in [Workers -> ReqRows] /\ req'[s] = q /\ (t # s => req'[t] = req[t])
  BY DEF IntakeTypeOK
<1>2. CASE t = s
  BY <1>1, <1>2 DEF Shape, Ground, Cycle, Visited
<1>3. CASE t # s
  <2>1. Shape(req[t]) /\ Ground(req[t]) /\ Cycle(req[t])  BY DEF Requests
  <2>2. Shape(req[t])'  BY <1>1, <1>3, <2>1 DEF Shape
  <2>3. Ground(req[t])'  BY <1>1, <1>3, <2>1 DEF Shape, Ground
  <2>4. \A c, m : Visited(c, m) => Visited(c, m)'  BY DEF Visited
  <2>5. Cycle(req[t])'  BY <1>1, <1>3, <2>1, <2>4 DEF Cycle
  <2> QED BY <2>2, <2>3, <2>5
<1> QED BY <1>2, <1>3

\* A record leaves its waiting status, or keeps its status; a request lets its job go.
LEMMA Converts ==
    ASSUME Inv, NEW s \in Workers, NEW q \in ReqRows, Shape(q), Ground(q), Cycle(q),
           q.stage \notin {"duplicate", "parse", "link"},
           req' = [req EXCEPT ![s] = q],
           UNCHANGED <<mail, visit, jobs, headers>>, requests' \in Nat,
           NEW r \in Records, NEW x \in StatesOf(r), state' = [state EXCEPT ![r] = x],
           x = state[r] \/ x \notin {"none", Waiting(r)},
           r \in Emails => x = state[r] \/ state[r] # "none",
           r \in Visits => x = state[r] \/ visit[r] # None,
           link' \in [Records -> JobIds \cup {None}],
           \A y \in Records \ {r} : link'[y] = link[y],
           link'[r] = link[r] \/ x \notin {"none", Waiting(r)},
           noted' \subseteq JobIds, lost' \subseteq JobIds,
           noted \cup lost \subseteq noted' \cup lost',
           \A n \in DOMAIN jobs : jobs[n] \notin Sites /\ link[jobs[n]] = n => link'[jobs[n]] = n,
           \/ req[s].made = None
           \/ jobs[req[s].made] \in Sites
           \/ link'[jobs[req[s].made]] = req[s].made
           \/ req[s].made \in noted' \cup lost'
    PROVE  Inv'
<1>0. req \in [Workers -> ReqRows] /\ Requests /\ IntakeTypeOK  BY DEF Inv, IntakeTypeOK
<1>1. IntakeTypeOK'
  <2>1. \A y \in Records : state'[y] \in StatesOf(y)  BY <1>0 DEF IntakeTypeOK
  <2>2. state' = [y \in Records |-> state'[y]]  BY <1>0 DEF IntakeTypeOK
  <2>3. state' \in [Records -> UNION {StatesOf(y) : y \in Records}]
    <3> DEFINE f == state'
    <3>1. f = [y \in Records |-> f[y]] /\ \A y \in Records : f[y] \in StatesOf(y)
      BY <2>1, <2>2
    <3> HIDE DEF f
    <3>2. f \in [Records -> UNION {StatesOf(y) : y \in Records}]
      BY <3>1, StateFunction
    <3> QED BY <3>2 DEF f
  <2> QED BY <1>0, <2>1, <2>3 DEF IntakeTypeOK, headers
<1>2. Requests'
  <2>1. Ground(q)'  BY DEF Ground
  <2>2. Cycle(q)'  BY DEF Cycle, Visited
  <2> QED BY <1>0, <2>1, <2>2, RequestsKeep
<1>3. RowsAgree'
  <2>1. \A e \in Emails : (state[e] # "none" => mail[e] = "drafted")'
    BY <1>0, Apart DEF Inv, RowsAgree, IntakeTypeOK, Records
  <2>2. \A v \in Visits : (visit[v] = None => state[v] = "none")'
    BY <1>0, Apart DEF Inv, RowsAgree, IntakeTypeOK, Records
  <2>3. \A y \in Records \ Sites : (link[y] # None => state[y] \notin {"none", Waiting(y)})'
    BY <1>0 DEF Inv, RowsAgree, IntakeTypeOK, Waiting
  <2> QED BY <2>1, <2>2, <2>3 DEF RowsAgree
<1>4. OneIngest'  BY <1>0 DEF Inv, OneIngest, Ingests
<1>5. OneCleared'
  <2>1. \A e \in Emails : Cleared(e)' => Cleared(e)
    BY <1>0 DEF Cleared, IntakeTypeOK, Records
  <2> QED BY <2>1 DEF Inv, OneCleared
<1>6. NoCycleLost'  BY DEF Inv, NoCycleLost, Visited, headers
<1>7. EveryJobAccounted'
  <2> SUFFICES ASSUME NEW n \in DOMAIN jobs
               PROVE  (jobs[n] \in Sites \/ link[jobs[n]] = n \/ n \in noted \cup lost
                         \/ \E t \in Workers : req[t].made = n)'
    BY DEF EveryJobAccounted
  <2>1. jobs[n] \in Sites \/ link[jobs[n]] = n \/ n \in noted \cup lost
          \/ \E t \in Workers : req[t].made = n
    BY DEF Inv, EveryJobAccounted
  <2>2. n # None  BY <1>0, Apart DEF IntakeTypeOK
  <2>3. CASE jobs[n] \in Sites \/ link[jobs[n]] = n \/ n \in noted \cup lost
    BY <2>3
  <2>4. CASE \E t \in Workers \ {s} : req[t].made = n
    BY <1>0, <2>4
  <2>5. CASE req[s].made = n
    BY <2>2, <2>5
  <2> QED BY <2>1, <2>3, <2>4, <2>5
<1> QED BY <1>1, <1>2, <1>3, <1>4, <1>5, <1>6, <1>7 DEF Inv

\* Where ItemDone leaves a request.
Done(q) ==
    IF q.op \in DOMAIN Batches
    THEN [q EXCEPT !.stage = Batches[q.op], !.cur = None, !.made = None]
    ELSE Idle

LEMMA DoneRow ==
    ASSUME IntakeTypeOK, NEW q \in ReqRows, Shape(q), Ground(q), Cycle(q)
    PROVE  /\ Done(q) \in ReqRows /\ Shape(Done(q)) /\ Ground(Done(q)) /\ Cycle(Done(q))
           /\ Done(q).stage \notin {"duplicate", "parse", "link"}
<1>1. CASE q.op \in DOMAIN Batches
  <2>1. /\ Done(q) \in ReqRows /\ Done(q).stage = Batches[q.op] /\ Done(q).made = None
        /\ Done(q).op = q.op /\ Done(q).todo = q.todo /\ Done(q).saw = q.saw /\ Done(q).run = q.run
    <3>1. Batches[q.op] \in Stages  BY <1>1 DEF Batches, Stages
    <3> DEFINE b == Batches[q.op]
    <3>2. Done(q) = [q EXCEPT !.stage = b, !.cur = None, !.made = None]  BY <1>1 DEF Done
    <3> HIDE DEF b
    <3>3. b \in Stages  BY <3>1 DEF b
    <3>4. /\ Done(q) \in ReqRows /\ Done(q).stage = b /\ Done(q).made = None
          /\ Done(q).op = q.op /\ Done(q).todo = q.todo /\ Done(q).saw = q.saw /\ Done(q).run = q.run
      BY <3>2, <3>3 DEF ReqRows
    <3> QED BY <3>4 DEF b
  <2>2. \/ q.op = "generate" /\ Done(q).stage = "visits"
        \/ q.op = "approveVisits" /\ Done(q).stage = "candidates"
        \/ q.op = "snow" /\ Done(q).stage = "sites"
    BY <1>1, <2>1 DEF Batches
  <2> QED BY <2>1, <2>2 DEF Shape, Ground, Cycle
<1>2. CASE q.op \notin DOMAIN Batches
  <2>1. Done(q) = Idle  BY <1>2 DEF Done
  <2> QED BY <2>1, IdleRow DEF Idle
<1> QED BY <1>1, <1>2

\* The common facts of the conversion steps of request s.
LEMMA Converting ==
    ASSUME Inv, NEW s \in Workers, req[s].stage \in {"create", "link"}
    PROVE  /\ req \in [Workers -> ReqRows] /\ req[s] \in ReqRows
           /\ Shape(req[s]) /\ Ground(req[s]) /\ Cycle(req[s])
           /\ req[s].cur \in Records /\ state[req[s].cur] \in StatesOf(req[s].cur)
           /\ state \in [Records -> UNION {StatesOf(r) : r \in Records}]
           /\ link \in [Records -> JobIds \cup {None}]
           /\ noted \subseteq JobIds /\ lost \subseteq JobIds
           /\ req[s].stage = "create" => req[s].made = None
           /\ req[s].stage = "link" => /\ req[s].made \in JobIds /\ req[s].made \in DOMAIN jobs
                                       /\ jobs[req[s].made] = req[s].cur
           /\ req[s].cur \in Visits => visit[req[s].cur] # None
<1>1. req[s] \in ReqRows /\ Shape(req[s]) /\ Ground(req[s]) /\ Cycle(req[s]) /\ IntakeTypeOK
  BY DEF Inv, Requests, IntakeTypeOK
<1>2. req[s].cur \in Records  BY <1>1 DEF Shape
<1>3. req[s].stage = "create" => req[s].made = None  BY <1>1 DEF Shape
<1>4. req[s].stage = "link" => req[s].made \in JobIds  BY <1>1 DEF Shape, ReqRows
<1> QED BY <1>1, <1>2, <1>3, <1>4 DEF IntakeTypeOK, Ground

LEMMA Skips ==
    ASSUME Inv, NEW r \in Records, r \in Visits => visit[r] # None
    PROVE  \E x \in StatesOf(r) : /\ SkipFailed(r) = [state EXCEPT ![r] = x]
                                  /\ x = state[r] \/ x \notin {"none", Waiting(r)}
                                  /\ r \in Emails => x = state[r]
<1>1. state = [state EXCEPT ![r] = state[r]] /\ state[r] \in StatesOf(r)
  BY DEF Inv, IntakeTypeOK
<1>2. CASE r \in Visits \cup Sites
  <2>1. "skipped" \in StatesOf(r)  BY <1>2, Apart DEF StatesOf
  <2>2. "skipped" \notin {"none", Waiting(r)}  BY DEF Waiting
  <2>3. SkipFailed(r) = [state EXCEPT ![r] = "skipped"]  BY <1>2 DEF SkipFailed
  <2>4. r \notin Emails  BY <1>2, Apart
  <2> QED BY <2>1, <2>2, <2>3, <2>4
<1>3. CASE r \notin Visits \cup Sites
  <2>1. SkipFailed(r) = state  BY <1>3 DEF SkipFailed
  <2> QED BY <1>1, <2>1
<1> QED BY <1>2, <1>3

LEMMA CreateFailsKeeps ==
    ASSUME Inv, NEW s \in Workers, CreateFails(s), requests' \in Nat
    PROVE  Inv'
<1> DEFINE r == req[s].cur
<1>1. req[s].stage = "create"  BY DEF CreateFails, At
<1>2. req' = [req EXCEPT ![s] = Done(req[s])]  BY DEF CreateFails, ItemDone, Goes, Done
<1>3. PICK x \in StatesOf(r) : /\ state' = [state EXCEPT ![r] = x]
                               /\ x = state[r] \/ x \notin {"none", Waiting(r)}
                               /\ r \in Emails => x = state[r]
  BY <1>1, Converting, Skips DEF CreateFails
<1>4. UNCHANGED <<mail, link, visit, jobs, noted, lost, headers>>
  BY DEF CreateFails, jobRows
<1> HIDE DEF r
<1> QED BY <1>1, <1>2, <1>3, <1>4, Converting, DoneRow, Converts DEF r, Inv

LEMMA LinkKeeps ==
    ASSUME Inv, NEW s \in Workers, Link(s), requests' \in Nat
    PROVE  Inv'
<1> DEFINE r == req[s].cur
<1> DEFINE x == Linked(r)
<1>1. req[s].stage = "link" /\ state[r] = Waiting(r)  BY DEF Link, At
<1>2. req' = [req EXCEPT ![s] = Done(req[s])]  BY DEF Link, ItemDone, Goes, Done
<1>3. /\ r \in Records /\ link \in [Records -> JobIds \cup {None}]
      /\ req[s].made \in JobIds /\ jobs[req[s].made] = r /\ req[s].made \in DOMAIN jobs
      /\ state[r] \in StatesOf(r)
  BY <1>1, Converting
<1>4. x \in StatesOf(r) /\ x \notin {"none", Waiting(r)}
  BY <1>3, Apart DEF Linked, StatesOf, Waiting, Records
<1>5. r \in Emails => state[r] # "none"  BY <1>1, Apart DEF Waiting
<1>6. /\ state' = [state EXCEPT ![r] = x]
      /\ link' = [link EXCEPT ![r] = req[s].made]
      /\ UNCHANGED <<mail, visit, jobs, noted, lost, headers>>
  BY DEF Link, jobRows
<1>7. link' \in [Records -> JobIds \cup {None}] /\ link'[r] = req[s].made
      /\ \A y \in Records \ {r} : link'[y] = link[y]
  BY <1>3, <1>6
<1>8. \A n \in DOMAIN jobs : jobs[n] \notin Sites /\ link[jobs[n]] = n => link'[jobs[n]] = n
  <2> SUFFICES ASSUME NEW n \in DOMAIN jobs, jobs[n] \notin Sites, link[jobs[n]] = n
               PROVE  link'[jobs[n]] = n
    OBVIOUS
  <2>1. jobs[n] \in Records /\ n # None  BY Apart DEF Inv, IntakeTypeOK
  <2>2. jobs[n] # r  BY <1>1, <2>1 DEF Inv, RowsAgree
  <2> QED BY <1>7, <2>1, <2>2
<1> HIDE DEF r, x
<1>9. r \in Visits => visit[r] # None  BY <1>1, Converting DEF r
<1>10. req[s] \in ReqRows /\ Shape(req[s]) /\ Ground(req[s]) /\ Cycle(req[s]) /\ IntakeTypeOK
       /\ noted \subseteq JobIds /\ lost \subseteq JobIds
  BY <1>1, Converting DEF Inv
<1>11. link'[jobs[req[s].made]] = req[s].made  BY <1>3, <1>7
<1> QED BY <1>2, <1>3, <1>4, <1>5, <1>6, <1>7, <1>8, <1>9, <1>10, <1>11, DoneRow, Converts

LEMMA LinkMissesKeeps ==
    ASSUME Inv, NEW s \in Workers, LinkMisses(s), requests' \in Nat
    PROVE  Inv'
<1> DEFINE r == req[s].cur
<1>1. req[s].stage = "link"  BY DEF LinkMisses, At
<1>2. req' = [req EXCEPT ![s] = Done(req[s])]  BY DEF LinkMisses, ItemDone, Goes, Done
<1>3. UNCHANGED <<mail, state, link, visit, jobs, lost, headers>>
      /\ noted' = IF r \in Sites THEN noted ELSE noted \cup {req[s].made}
  BY DEF LinkMisses, rows
<1>4. state' = [state EXCEPT ![r] = state[r]] /\ state[r] \in StatesOf(r) /\ r \in Records
  BY <1>1, <1>3, Converting
<1>5. /\ req[s] \in ReqRows /\ Shape(req[s]) /\ Ground(req[s]) /\ Cycle(req[s]) /\ IntakeTypeOK
      /\ link' \in [Records -> JobIds \cup {None}] /\ noted' \subseteq JobIds /\ lost' \subseteq JobIds
      /\ jobs[req[s].made] = r
  BY <1>1, <1>3, Converting DEF Inv
<1>6. jobs[req[s].made] \in Sites \/ req[s].made \in noted' \cup lost'
  BY <1>3, <1>5
<1> HIDE DEF r
<1> QED BY <1>2, <1>3, <1>4, <1>5, <1>6, DoneRow, Converts

LEMMA NoteFailsKeeps ==
    ASSUME Inv, NEW s \in Workers, NoteFails(s), requests' \in Nat
    PROVE  Inv'
<1> DEFINE r == req[s].cur
<1>1. req[s].stage = "link"  BY DEF NoteFails, At
<1>2. req' = [req EXCEPT ![s] = Done(req[s])]  BY DEF NoteFails, ItemDone, Goes, Done
<1>3. UNCHANGED <<mail, state, link, visit, jobs, noted, headers>>
      /\ lost' = lost \cup {req[s].made}
  BY DEF NoteFails, rows
<1>4. state' = [state EXCEPT ![r] = state[r]] /\ state[r] \in StatesOf(r) /\ r \in Records
  BY <1>1, <1>3, Converting
<1>5. /\ req[s] \in ReqRows /\ Shape(req[s]) /\ Ground(req[s]) /\ Cycle(req[s]) /\ IntakeTypeOK
      /\ link' \in [Records -> JobIds \cup {None}] /\ noted' \subseteq JobIds /\ lost' \subseteq JobIds
      /\ jobs[req[s].made] = r
  BY <1>1, <1>3, Converting DEF Inv
<1>6. jobs[req[s].made] \in Sites \/ req[s].made \in noted' \cup lost'
  BY <1>3, <1>5
<1> HIDE DEF r
<1> QED BY <1>2, <1>3, <1>4, <1>5, <1>6, DoneRow, Converts

LEMMA LinkFailsKeeps ==
    ASSUME Inv, NEW s \in Workers, LinkFails(s), requests' \in Nat
    PROVE  Inv'
<1> DEFINE r == req[s].cur
<1>1. req[s].stage = "link"  BY DEF LinkFails, At
<1>2. req' = [req EXCEPT ![s] = Done(req[s])]  BY DEF LinkFails, ItemDone, Goes, Done
<1>3. PICK x \in StatesOf(r) : /\ state' = [state EXCEPT ![r] = x]
                               /\ x = state[r] \/ x \notin {"none", Waiting(r)}
                               /\ r \in Emails => x = state[r]
  BY <1>1, Converting, Skips DEF LinkFails
<1>4. UNCHANGED <<mail, link, visit, jobs, noted, headers>> /\ lost' = lost \cup {req[s].made}
  BY DEF LinkFails
<1> HIDE DEF r
<1> QED BY <1>1, <1>2, <1>3, <1>4, Converting, DoneRow, Converts DEF r, Inv

LEMMA CrashKeeps ==
    ASSUME Inv, NEW s \in Workers, Crash(s), requests' \in Nat
    PROVE  Inv'
<1>1. req[s] \in ReqRows /\ Shape(req[s]) /\ IntakeTypeOK  BY DEF Inv, Requests, IntakeTypeOK
<1>2. req' = [req EXCEPT ![s] = Idle]  BY DEF Crash, Ends, Goes
<1>3. UNCHANGED <<mail, state, link, visit, jobs, noted, headers>>
      /\ lost' = lost \cup ({req[s].made} \ {None})
  BY DEF Crash, rows
<1>4. Idle.stage = "idle"  BY DEF Idle
<1>5. CASE req[s].stage = "link"
  <2> DEFINE r == req[s].cur
  <2>1. state' = [state EXCEPT ![r] = state[r]] /\ state[r] \in StatesOf(r) /\ r \in Records
    BY <1>3, <1>5, Converting
  <2>2. /\ link' \in [Records -> JobIds \cup {None}] /\ noted' \subseteq JobIds /\ lost' \subseteq JobIds
        /\ req[s].made \in lost'
    BY <1>3, <1>5, Converting, Apart DEF JobIds
  <2> HIDE DEF r
  <2> QED BY <1>2, <1>3, <1>4, <2>1, <2>2, IdleRow, Converts
<1>6. CASE req[s].stage # "link"
  <2>1. req[s].made = None  BY <1>1, <1>6 DEF Shape
  <2>2. UNCHANGED <<rows, jobRows>> /\ UNCHANGED headers
    BY <1>3, <2>1 DEF rows, jobRows
  <2>3. due' \in Nat /\ runs' \in Nat /\ event' \in EventStates
    BY <1>1, <2>2 DEF IntakeTypeOK, headers
  <2>4. NoCycleLost'  BY <2>2 DEF Inv, NoCycleLost, Visited, rows, headers
  <2> QED BY <1>2, <1>4, <1>6, <2>2, <2>3, <2>4, IdleRow, Moves
<1> QED BY <1>5, <1>6

LEMMA CreateJobKeeps ==
    ASSUME Inv, NEW s \in Workers, CreateJob(s), requests' \in Nat
    PROVE  Inv'
<1> PICK n : n = Len(jobs) + 1  OBVIOUS
<1> PICK q : q = [req[s] EXCEPT !.stage = "link", !.made = n]  OBVIOUS
<1>1. req[s].stage = "create"  BY DEF CreateJob, At
<1>2. /\ IntakeTypeOK /\ Requests /\ req \in [Workers -> ReqRows] /\ req[s] \in ReqRows
      /\ Shape(req[s]) /\ Ground(req[s]) /\ Cycle(req[s])
      /\ req[s].cur \in Records /\ req[s].made = None /\ jobs \in Seq(Records)
  BY <1>1, Converting DEF Inv, IntakeTypeOK
<1>3. /\ jobs' = Append(jobs, req[s].cur) /\ req' = [req EXCEPT ![s] = q]
      /\ UNCHANGED <<mail, state, link, visit, noted, lost, due, runs, event>>
  BY DEF CreateJob, Goes, rows, headers
<1>4. /\ jobs' \in Seq(Records) /\ n \in DOMAIN jobs' /\ jobs'[n] = req[s].cur
      /\ DOMAIN jobs' = DOMAIN jobs \cup {n}
      /\ \A i \in DOMAIN jobs : i \in DOMAIN jobs' /\ jobs'[i] = jobs[i]
  BY <1>2, <1>3
<1>5. n \in JobIds /\ n # None  BY <1>2, Apart DEF JobIds
<1>6. /\ q \in ReqRows /\ q.stage = "link" /\ q.made = n /\ q.cur = req[s].cur
      /\ q.op = req[s].op /\ q.todo = req[s].todo /\ q.saw = req[s].saw /\ q.run = req[s].run
  BY <1>2, <1>5 DEF ReqRows, Stages
<1>7. IntakeTypeOK'  BY <1>2, <1>3, <1>4, <1>6 DEF IntakeTypeOK
<1>8. Requests'
  <2>1. Shape(q)  BY <1>1, <1>2, <1>5, <1>6 DEF Shape
  <2>2. Ground(q)'  BY <1>1, <1>2, <1>3, <1>4, <1>6 DEF Ground
  <2>3. Cycle(q)'  BY <1>2, <1>3, <1>6 DEF Cycle, Visited
  <2> QED BY <1>2, <1>3, <1>4, <1>6, <2>1, <2>2, <2>3, RequestsKeep
<1>9. RowsAgree'  BY <1>3 DEF Inv, RowsAgree
<1>10. OneIngest'  BY <1>2, <1>3, <1>6 DEF Inv, OneIngest, Ingests
<1>11. OneCleared'
  <2>1. \A e \in Emails : Cleared(e)' => Cleared(e)  BY <1>2, <1>3, <1>6 DEF Cleared
  <2> QED BY <2>1 DEF Inv, OneCleared
<1>12. NoCycleLost'  BY <1>3 DEF Inv, NoCycleLost, Visited
<1>13. EveryJobAccounted'
  <2> SUFFICES ASSUME NEW i \in DOMAIN jobs'
               PROVE  (jobs[i] \in Sites \/ link[jobs[i]] = i \/ i \in noted \cup lost
                         \/ \E t \in Workers : req[t].made = i)'
    BY DEF EveryJobAccounted
  <2>1. CASE i = n  BY <1>2, <1>3, <1>6, <2>1
  <2>2. CASE i \in DOMAIN jobs
    <3>1. jobs[i] \in Sites \/ link[jobs[i]] = i \/ i \in noted \cup lost
            \/ \E t \in Workers : req[t].made = i
      BY <2>2 DEF Inv, EveryJobAccounted
    <3>2. i # None  BY <1>2, <2>2, Apart
    <3>3. \A t \in Workers : req[t].made = i => req'[t].made = i
      BY <1>2, <1>3, <3>2
    <3> QED BY <1>3, <1>4, <2>2, <3>1, <3>3
  <2> QED BY <1>4, <2>1, <2>2
<1> QED BY <1>7, <1>8, <1>9, <1>10, <1>11, <1>12, <1>13 DEF Inv
-----------------------------------------------------------------------------
\* What the mail actions leave alone.
LEMMA OtherParts ==
    ASSUME Inv, NEW s \in Workers, NEW q \in ReqRows, req' = [req EXCEPT ![s] = q],
           q.made = None, req[s].made = None,
           UNCHANGED <<link, visit, jobs, noted, lost, due>>
    PROVE  NoCycleLost' /\ EveryJobAccounted'
<1>1. req \in [Workers -> ReqRows] /\ jobs \in Seq(Records)  BY DEF Inv, IntakeTypeOK
<1>2. NoCycleLost'  BY DEF Inv, NoCycleLost, Visited
<1>3. \A n \in DOMAIN jobs : n # None  BY <1>1, Apart
<1>4. \A n \in DOMAIN jobs, t \in Workers : req[t].made = n => req'[t].made = n
  BY <1>1, <1>3
<1>5. EveryJobAccounted'  BY <1>4 DEF Inv, EveryJobAccounted
<1> QED BY <1>2, <1>5

LEMMA IngestEmailKeeps ==
    ASSUME Inv, NEW s \in Workers, NEW e \in Emails, IngestEmail(s, e), requests' \in Nat
    PROVE  Inv'
<1> DEFINE st == IF MessageOf[e] # None /\ OtherCopies(e) # {} THEN "duplicate" ELSE "parse"
<1>1. PICK q \in ReqRows : /\ q = [Idle EXCEPT !.stage = st, !.op = "ingest", !.cur = e]
                           /\ req' = [req EXCEPT ![s] = q]
                           /\ q.stage = st /\ q.op = "ingest" /\ q.cur = e /\ q.made = None
  <2>1. st \in Stages /\ "ingest" \in OpKinds /\ e \in Records \cup {None}
    BY DEF Stages, OpKinds, Records
  <2> HIDE DEF st
  <2>2. [Idle EXCEPT !.stage = st, !.op = "ingest", !.cur = e] \in ReqRows
    BY <2>1, IdleRow DEF ReqRows
  <2> QED BY <2>1, <2>2 DEF IngestEmail, Starts, Idle, st
<1>2. /\ IntakeTypeOK /\ Requests /\ req \in [Workers -> ReqRows] /\ req[s].stage = "idle"
      /\ mail[e] = "received" /\ (\A t \in Workers : req[t].cur # e)
      /\ UNCHANGED <<mail, state, link, visit, jobs, noted, lost, due, runs, event>>
  BY DEF Inv, IntakeTypeOK, IngestEmail, Starts, At, rows, jobRows, headers
<1>3. st \in {"duplicate", "parse"} /\ (st = "parse" => MessageOf[e] = None \/ OtherCopies(e) = {})
  OBVIOUS
<1> HIDE DEF st
<1>4. IntakeTypeOK'  BY <1>1, <1>2 DEF IntakeTypeOK
<1>5. Requests'
  <2>1. Shape(q)  BY <1>1, <1>3 DEF Shape
  <2>2. Ground(q)'  BY <1>1, <1>2, <1>3 DEF Ground
  <2>3. Cycle(q)'  BY <1>1 DEF Cycle
  <2> QED BY <1>1, <1>2, <2>1, <2>2, <2>3, RequestsKeep
<1>6. RowsAgree'  BY <1>2 DEF Inv, RowsAgree
<1>7. OneIngest'
  BY <1>1, <1>2 DEF Inv, OneIngest, Ingests
<1>8. OneCleared'
  <2>1. \A f \in Emails : Cleared(f)' => Cleared(f) \/ (f = e /\ st = "parse")
    BY <1>1, <1>2 DEF Cleared
  <2>2. \A f \in Emails : Cleared(f) => mail[f] # "absent"
    BY <1>2 DEF Inv, RowsAgree, Cleared, Requests, Shape, Ground
  <2>3. ASSUME st = "parse", MessageOf[e] # None, NEW f \in Emails \ {e}, MessageOf[f] = MessageOf[e]
        PROVE  ~Cleared(f)
    BY <1>3, <2>2, <2>3 DEF OtherCopies
  <2> QED BY <2>1, <2>3 DEF Inv, OneCleared
<1>9. req[s].made = None  BY <1>2 DEF Requests, Shape
<1>10. NoCycleLost' /\ EveryJobAccounted'  BY <1>1, <1>2, <1>9, OtherParts
<1> QED BY <1>4, <1>5, <1>6, <1>7, <1>8, <1>10 DEF Inv

\* The request that has e in hand settles its status: drafted, flagged or failed.
LEMMA Settles ==
    ASSUME Inv, NEW s \in Workers, NEW e \in Emails,
           req[s].stage \in {"duplicate", "parse"}, req[s].cur = e,
           NEW x \in MailStates \ {"absent", "received"}, mail' = [mail EXCEPT ![e] = x],
           NEW y \in StatesOf(e), state' = [state EXCEPT ![e] = y],
           y = state[e] \/ (req[s].stage = "parse" /\ x = "drafted"),
           y \in {"none", "pending_review"} \/ y = state[e],
           req' = [req EXCEPT ![s] = Idle],
           UNCHANGED <<link, visit, jobs, noted, lost, due, runs, event>>, requests' \in Nat
    PROVE  Inv'
<1>1. /\ IntakeTypeOK /\ Requests /\ RowsAgree /\ OneIngest /\ req \in [Workers -> ReqRows]
      /\ mail \in [Emails -> MailStates] /\ e \in Records \ Sites /\ mail[e] = "received"
      /\ DOMAIN state = Records
  BY Apart DEF Inv, IntakeTypeOK, Requests, Ground, Records
<1>2. state[e] = "none" /\ link[e] = None  BY <1>1 DEF RowsAgree
<1>3. IntakeTypeOK'
  <2>1. \A r \in Records : state'[r] \in StatesOf(r)  BY <1>1 DEF IntakeTypeOK
  <2>2. state' \in [Records -> UNION {StatesOf(r) : r \in Records}]
    <3> DEFINE f == state'
    <3>1. f = [r \in Records |-> f[r]] /\ \A r \in Records : f[r] \in StatesOf(r)
      BY <1>1, <2>1
    <3> HIDE DEF f
    <3>2. f \in [Records -> UNION {StatesOf(r) : r \in Records}]
      BY <3>1, StateFunction
    <3> QED BY <3>2 DEF f
  <2>3. mail' \in [Emails -> MailStates] /\ req' \in [Workers -> ReqRows]
    BY <1>1, IdleRow
  <2> QED BY <1>1, <2>1, <2>2, <2>3 DEF IntakeTypeOK
<1>4. Requests'
  <2>1. Ground(Idle)' /\ Cycle(Idle)'  BY DEF Ground, Cycle, Idle
  <2>2. \A t \in Workers \ {s} : req[t].stage \in {"duplicate", "parse"}
                                    => mail'[req[t].cur] = mail[req[t].cur]
    BY <1>1 DEF OneIngest, Ingests, Requests, Shape
  <2> QED BY <1>1, <2>1, <2>2, IdleRow, RequestsKeep
<1>5. RowsAgree'
  <2>1. \A f \in Emails : (state[f] # "none" => mail[f] = "drafted")'
    BY <1>1, <1>2 DEF RowsAgree, Records
  <2>2. \A v \in Visits : (visit[v] = None => state[v] = "none")'
    BY <1>1, Apart DEF RowsAgree, Records
  <2>3. \A r \in Records \ Sites : (link[r] # None => state[r] \notin {"none", Waiting(r)})'
    BY <1>1, <1>2 DEF RowsAgree, Waiting
  <2> QED BY <2>1, <2>2, <2>3 DEF RowsAgree
<1>6. OneIngest'  BY <1>1 DEF OneIngest, Ingests, Idle
<1>7. OneCleared'
  <2>1. \A f \in Emails : Cleared(f)' => Cleared(f)
    BY <1>1 DEF Cleared, Idle, Records
  <2> QED BY <2>1 DEF Inv, OneCleared
<1>8. NoCycleLost' /\ EveryJobAccounted'
  <2>1. req[s].made = None  BY <1>1 DEF Requests, Shape
  <2>2. Idle.made = None  BY DEF Idle
  <2> QED BY <2>1, <2>2, IdleRow, OtherParts
<1> QED BY <1>3, <1>4, <1>5, <1>6, <1>7, <1>8 DEF Inv

LEMMA FlagDuplicateKeeps ==
    ASSUME Inv, NEW s \in Workers, FlagDuplicate(s), requests' \in Nat
    PROVE  Inv'
<1> DEFINE e == req[s].cur
<1>1. req[s].stage = "duplicate" /\ e \in Emails /\ state[e] \in StatesOf(e)
  BY DEF FlagDuplicate, At, Inv, Requests, Shape, IntakeTypeOK, Records
<1>2. /\ mail' = [mail EXCEPT ![e] = "duplicate_flagged"] /\ state' = [state EXCEPT ![e] = state[e]]
      /\ req' = [req EXCEPT ![s] = Idle]
      /\ UNCHANGED <<link, visit, jobs, noted, lost, due, runs, event>>
  BY DEF FlagDuplicate, Ends, Goes, jobRows, headers, Inv, IntakeTypeOK
<1>3. "duplicate_flagged" \in MailStates \ {"absent", "received"}  BY DEF MailStates
<1> HIDE DEF e
<1> QED BY <1>1, <1>2, <1>3, Settles DEF e

LEMMA IngestFailsKeeps ==
    ASSUME Inv, NEW s \in Workers, IngestFails(s), requests' \in Nat
    PROVE  Inv'
<1> DEFINE e == req[s].cur
<1>1. req[s].stage \in {"duplicate", "parse"} /\ e \in Emails /\ state[e] \in StatesOf(e)
  BY DEF IngestFails, Inv, Requests, Shape, IntakeTypeOK, Records
<1>2. /\ mail' = [mail EXCEPT ![e] = "failed"] /\ state' = [state EXCEPT ![e] = state[e]]
      /\ req' = [req EXCEPT ![s] = Idle]
      /\ UNCHANGED <<link, visit, jobs, noted, lost, due, runs, event>>
  BY DEF IngestFails, Ends, Goes, jobRows, headers, Inv, IntakeTypeOK
<1>3. "failed" \in MailStates \ {"absent", "received"}  BY DEF MailStates
<1> HIDE DEF e
<1> QED BY <1>1, <1>2, <1>3, Settles DEF e

LEMMA DraftEmailKeeps ==
    ASSUME Inv, NEW s \in Workers, DraftEmail(s), requests' \in Nat
    PROVE  Inv'
<1> DEFINE e == req[s].cur
<1>1. req[s].stage = "parse" /\ e \in Emails
  BY DEF DraftEmail, At, Inv, Requests, Shape
<1>2. /\ mail' = [mail EXCEPT ![e] = "drafted"] /\ state' = [state EXCEPT ![e] = "pending_review"]
      /\ req' = [req EXCEPT ![s] = Idle]
      /\ UNCHANGED <<link, visit, jobs, noted, lost, due, runs, event>>
  BY DEF DraftEmail, Ends, Goes, jobRows, headers
<1>3. "drafted" \in MailStates \ {"absent", "received"} /\ "pending_review" \in StatesOf(e)
  BY <1>1 DEF MailStates, StatesOf
<1> HIDE DEF e
<1> QED BY <1>1, <1>2, <1>3, Settles DEF e

\* Steps that move no request and turn no e-mail away from received.
LEMMA StoreEmailKeeps ==
    ASSUME Inv, NEW e \in Emails, StoreEmail(e), requests' \in Nat
    PROVE  Inv'
<1>1. /\ mail[e] = "absent" /\ mail' = [mail EXCEPT ![e] = "received"]
      /\ UNCHANGED <<state, link, visit, jobs, noted, lost, due, runs, event, req>>
  BY DEF StoreEmail, jobRows, headers
<1>2. IntakeTypeOK /\ Requests /\ mail \in [Emails -> MailStates]  BY DEF Inv, IntakeTypeOK
<1>3. IntakeTypeOK'
  <2>1. mail' \in [Emails -> MailStates]  BY <1>1, <1>2 DEF MailStates
  <2> QED BY <1>1, <1>2, <2>1 DEF IntakeTypeOK
<1>4. Requests'
  <2> SUFFICES ASSUME NEW t \in Workers PROVE (Shape(req[t]) /\ Ground(req[t]) /\ Cycle(req[t]))'
    BY DEF Requests
  <2>1. Shape(req[t]) /\ Ground(req[t]) /\ Cycle(req[t])  BY <1>2 DEF Requests
  <2>2. Shape(req[t])' /\ Cycle(req[t])'  BY <1>1, <2>1 DEF Shape, Cycle, Visited
  <2>3. Ground(req[t])'  BY <1>1, <1>2, <2>1 DEF Ground, Shape
  <2> QED BY <2>2, <2>3
<1>5. RowsAgree'  BY <1>1, <1>2 DEF Inv, RowsAgree
<1>6. OneIngest'  BY <1>1 DEF Inv, OneIngest, Ingests
<1>7. OneCleared'
  <2>1. \A f \in Emails : Cleared(f)' = Cleared(f)  BY <1>1 DEF Cleared
  <2> QED BY <2>1 DEF Inv, OneCleared
<1>8. NoCycleLost'  BY <1>1 DEF Inv, NoCycleLost, Visited
<1>9. EveryJobAccounted'  BY <1>1 DEF Inv, EveryJobAccounted
<1> QED BY <1>3, <1>4, <1>5, <1>6, <1>7, <1>8, <1>9 DEF Inv

LEMMA RejectEmailDraftKeeps ==
    ASSUME Inv, NEW e \in Emails, RejectEmailDraft(e), requests' \in Nat
    PROVE  Inv'
<1>1. /\ state[e] = "pending_review" /\ state' = [state EXCEPT ![e] = "rejected"]
      /\ UNCHANGED <<mail, link, visit, jobs, noted, lost, due, runs, event, req>>
  BY DEF RejectEmailDraft, jobRows, headers
<1>2. IntakeTypeOK /\ Requests /\ DOMAIN state = Records /\ e \in Records
  BY DEF Inv, IntakeTypeOK, Records
<1>3. IntakeTypeOK'
  <2>1. \A r \in Records : state'[r] \in StatesOf(r)  BY <1>1, <1>2 DEF IntakeTypeOK, StatesOf
  <2>2. state' \in [Records -> UNION {StatesOf(r) : r \in Records}]
    <3> DEFINE f == state'
    <3>1. f = [r \in Records |-> f[r]] /\ \A r \in Records : f[r] \in StatesOf(r)
      BY <1>1, <1>2, <2>1
    <3> HIDE DEF f
    <3>2. f \in [Records -> UNION {StatesOf(r) : r \in Records}]
      BY <3>1, StateFunction
    <3> QED BY <3>2 DEF f
  <2> QED BY <1>1, <1>2, <2>1, <2>2 DEF IntakeTypeOK
<1>4. Requests'  BY <1>1, <1>2 DEF Requests, Shape, Ground, Cycle, Visited
<1>5. RowsAgree'
  <2>1. \A f \in Emails : (state[f] # "none" => mail[f] = "drafted")'
    BY <1>1, <1>2 DEF Inv, RowsAgree, Records
  <2>2. \A v \in Visits : (visit[v] = None => state[v] = "none")'
    BY <1>1, <1>2, Apart DEF Inv, RowsAgree, Records
  <2>3. \A r \in Records \ Sites : (link[r] # None => state[r] \notin {"none", Waiting(r)})'
    BY <1>1, <1>2, Apart DEF Inv, RowsAgree, Waiting
  <2> QED BY <2>1, <2>2, <2>3 DEF RowsAgree
<1>6. OneIngest'  BY <1>1 DEF Inv, OneIngest, Ingests
<1>7. OneCleared'
  <2>1. \A f \in Emails : Cleared(f)' => Cleared(f)  BY <1>1, <1>2 DEF Cleared, Records
  <2> QED BY <2>1 DEF Inv, OneCleared
<1>8. NoCycleLost'  BY <1>1 DEF Inv, NoCycleLost, Visited
<1>9. EveryJobAccounted'  BY <1>1 DEF Inv, EveryJobAccounted
<1> QED BY <1>3, <1>4, <1>5, <1>6, <1>7, <1>8, <1>9 DEF Inv

\* The two steps that bring a record of a batch into its waiting status.
LEMMA InsertVisitKeeps ==
    ASSUME Inv, NEW s \in Workers, NEW m \in Members, NEW v \in Visits,
           InsertVisit(s, m, v), requests' \in Nat
    PROVE  Inv'
<1> PICK w : w = [place |-> m, cycle |-> req[s].saw, run |-> req[s].run]  OBVIOUS
<1> PICK r : r = [req[s] EXCEPT !.todo = @ \ {m}]  OBVIOUS
<1> PICK q : q = IF r.op = "park" THEN r ELSE For(r, v)  OBVIOUS
<1>1. /\ IntakeTypeOK /\ Requests /\ RowsAgree /\ req \in [Workers -> ReqRows] /\ req[s] \in ReqRows
      /\ Shape(req[s]) /\ Ground(req[s]) /\ Cycle(req[s])
      /\ visit \in [Visits -> VisitRows \cup {None}]
      /\ DOMAIN state = Records /\ v \in Records
  BY DEF Inv, IntakeTypeOK, Requests, Records
<1>2. /\ req[s].stage = "visits" /\ m \in req[s].todo /\ visit[v] = None
      /\ visit' = [visit EXCEPT ![v] = w] /\ state' = [state EXCEPT ![v] = "pending_review"]
      /\ req' = [req EXCEPT ![s] = q]
      /\ UNCHANGED <<mail, link, jobs, noted, lost, due, runs, event>>
  BY DEF InsertVisit, At, Goes, jobRows, headers
<1>3. req[s].op \in {"generate", "park"} /\ req[s].saw \in Nat /\ req[s].run \in JobIds /\ req[s].made = None
  BY <1>1, <1>2 DEF Shape
<1>4. w \in VisitRows /\ w.place = m /\ w.cycle = req[s].saw /\ w # None
  BY <1>3, Apart DEF VisitRows
<1>5. /\ r \in ReqRows /\ r.op = req[s].op /\ r.saw = req[s].saw /\ r.made = None
      /\ r.run = req[s].run /\ r.todo = req[s].todo \ {m} /\ r.stage = "visits"
  BY <1>1, <1>2, <1>3 DEF ReqRows
<1>6. /\ q \in ReqRows /\ q.op = r.op /\ q.saw = r.saw /\ q.run = r.run /\ q.todo = r.todo /\ q.made = None
      /\ q.stage = "visits" \/ (q.stage = "create" /\ q.cur = v)
  <2>1. CASE r.op = "park"  BY <1>5, <2>1
  <2>2. CASE r.op # "park"
    <3>1. q = For(r, v)  BY <2>2
    <3>2. r \in ReqRows /\ v \in Records  BY <1>1, <1>5
    <3>3. /\ For(r, v) \in ReqRows
          /\ For(r, v).stage = "create" /\ For(r, v).cur = v
          /\ For(r, v).op = r.op /\ For(r, v).todo = r.todo /\ For(r, v).made = r.made
          /\ For(r, v).saw = r.saw /\ For(r, v).run = r.run
      BY <3>2, ForRow
    <3> QED BY <1>5, <3>1, <3>3
  <2> QED BY <2>1, <2>2
<1>7. visit' \in [Visits -> VisitRows \cup {None}]  BY <1>1, <1>2, <1>4
<1>8. \A c, p : Visited(c, p) => Visited(c, p)'  BY <1>1, <1>2 DEF Visited
<1> PICK k : k = req[s].saw  OBVIOUS
<1>9. Visited(k, m)'  BY <1>1, <1>2, <1>4 DEF Visited
<1>10. IntakeTypeOK'
  <2>1. \A x \in Records : state'[x] \in StatesOf(x)
    BY <1>1, <1>2, Apart DEF IntakeTypeOK, StatesOf
  <2>2. state' \in [Records -> UNION {StatesOf(x) : x \in Records}]
    <3> DEFINE f == state'
    <3>1. f = [x \in Records |-> f[x]] /\ \A x \in Records : f[x] \in StatesOf(x)
      BY <1>1, <1>2, <2>1
    <3> HIDE DEF f
    <3>2. f \in [Records -> UNION {StatesOf(x) : x \in Records}]
      BY <3>1, StateFunction
    <3> QED BY <3>2 DEF f
  <2>3. req' \in [Workers -> ReqRows]  BY <1>1, <1>2, <1>6
  <2> QED BY <1>1, <1>2, <1>7, <2>1, <2>2, <2>3 DEF IntakeTypeOK
<1>11. Requests'
  <2>1. Shape(q)  BY <1>1, <1>3, <1>5, <1>6 DEF Shape
  <2>2. Ground(q)'  BY <1>1, <1>2, <1>3, <1>4, <1>5, <1>6 DEF Ground
  <2>3. Cycle(q)'
    <3>1. \A p \in Members \ q.todo : Visited(q.saw, p)'
      <4>1. q.saw = k /\ q.todo = req[s].todo \ {m}  BY <1>5, <1>6
      <4>2. \A p \in Members \ req[s].todo : Visited(k, p)  BY <1>1, <1>3 DEF Cycle
      <4> QED BY <1>8, <1>9, <4>1, <4>2
    <3>2. \A c \in Nat : c < q.saw => \A p \in Members : Visited(c, p)'
      BY <1>1, <1>3, <1>5, <1>6, <1>8 DEF Cycle
    <3> QED BY <3>1, <3>2 DEF Cycle
  <2>4. \A u \in Visits : visit[u] # None => visit'[u] = visit[u]  BY <1>1, <1>2
  <2> QED BY <1>1, <1>2, <1>6, <2>1, <2>2, <2>3, <2>4, RequestsKeep
<1>12. RowsAgree'
  <2>1. \A f \in Emails : (state[f] # "none" => mail[f] = "drafted")'
    BY <1>1, <1>2, Apart DEF RowsAgree, Records
  <2>2. \A u \in Visits : (visit[u] = None => state[u] = "none")'
    BY <1>1, <1>2, <1>4 DEF RowsAgree, Records
  <2>3. link[v] = None  BY <1>1, <1>2, Apart DEF RowsAgree
  <2>4. \A x \in Records \ Sites : (link[x] # None => state[x] \notin {"none", Waiting(x)})'
    BY <1>1, <1>2, <2>3 DEF RowsAgree, Waiting
  <2> QED BY <2>1, <2>2, <2>4 DEF RowsAgree
<1>13. OneIngest'  BY <1>1, <1>2, <1>6 DEF Inv, OneIngest, Ingests
<1>14. OneCleared'
  <2>1. \A f \in Emails : Cleared(f)' => Cleared(f)
    BY <1>1, <1>2, <1>6, Apart DEF Cleared, Records
  <2> QED BY <2>1 DEF Inv, OneCleared
<1>15. NoCycleLost'  BY <1>2, <1>8 DEF Inv, NoCycleLost
<1>16. EveryJobAccounted'
  <2>1. jobs \in Seq(Records)  BY <1>1 DEF IntakeTypeOK
  <2>2. \A n \in DOMAIN jobs, t \in Workers : req[t].made = n => req'[t].made = n
    BY <1>1, <1>2, <1>3, <2>1, Apart
  <2> QED BY <1>2, <2>2 DEF Inv, EveryJobAccounted
<1> QED BY <1>10, <1>11, <1>12, <1>13, <1>14, <1>15, <1>16 DEF Inv

LEMMA StageSiteKeeps ==
    ASSUME Inv, NEW s \in Workers, NEW x \in Sites, StageSite(s, x), requests' \in Nat
    PROVE  Inv'
<1> PICK q : q = [req[s] EXCEPT !.todo = @ \ {x}]  OBVIOUS
<1>1. /\ IntakeTypeOK /\ Requests /\ RowsAgree /\ req \in [Workers -> ReqRows] /\ req[s] \in ReqRows
      /\ Shape(req[s]) /\ Ground(req[s]) /\ Cycle(req[s])
      /\ DOMAIN state = Records /\ x \in Records
  BY DEF Inv, IntakeTypeOK, Requests, Records
<1>2. /\ req[s].stage = "staging" /\ state' = [state EXCEPT ![x] = "staged"]
      /\ req' = [req EXCEPT ![s] = q]
      /\ UNCHANGED <<mail, link, visit, jobs, noted, lost, due, runs, event>>
  BY DEF StageSite, At, Goes, jobRows, headers
<1>3. /\ q \in ReqRows /\ q.op = req[s].op /\ q.made = None /\ req[s].made = None
      /\ q.todo \subseteq Sites /\ q.stage = "staging" /\ q.op \in {"snow", "stage"}
  BY <1>1, <1>2 DEF ReqRows, Shape
<1>4. IntakeTypeOK'
  <2>1. \A r \in Records : state'[r] \in StatesOf(r)
    BY <1>1, <1>2, Apart DEF IntakeTypeOK, StatesOf
  <2>2. state' \in [Records -> UNION {StatesOf(r) : r \in Records}]
    <3> DEFINE f == state'
    <3>1. f = [r \in Records |-> f[r]] /\ \A r \in Records : f[r] \in StatesOf(r)
      BY <1>1, <1>2, <2>1
    <3> HIDE DEF f
    <3>2. f \in [Records -> UNION {StatesOf(r) : r \in Records}]
      BY <3>1, StateFunction
    <3> QED BY <3>2 DEF f
  <2>3. req' \in [Workers -> ReqRows]  BY <1>1, <1>2, <1>3
  <2> QED BY <1>1, <1>2, <2>1, <2>2, <2>3 DEF IntakeTypeOK
<1>5. Requests'
  <2>1. Shape(q) /\ Ground(q)' /\ Cycle(q)'  BY <1>3 DEF Shape, Ground, Cycle
  <2> QED BY <1>1, <1>2, <1>3, <2>1, RequestsKeep
<1>6. RowsAgree'
  <2>1. \A f \in Emails : (state[f] # "none" => mail[f] = "drafted")'
    BY <1>1, <1>2, Apart DEF RowsAgree, Records
  <2>2. \A v \in Visits : (visit[v] = None => state[v] = "none")'
    BY <1>1, <1>2, Apart DEF RowsAgree, Records
  <2>3. \A r \in Records \ Sites : (link[r] # None => state[r] \notin {"none", Waiting(r)})'
    BY <1>1, <1>2 DEF RowsAgree, Waiting
  <2> QED BY <2>1, <2>2, <2>3 DEF RowsAgree
<1>7. OneIngest'  BY <1>1, <1>2, <1>3 DEF Inv, OneIngest, Ingests
<1>8. OneCleared'
  <2>1. \A f \in Emails : Cleared(f)' => Cleared(f)
    BY <1>1, <1>2, <1>3, Apart DEF Cleared, Records
  <2> QED BY <2>1 DEF Inv, OneCleared
<1>9. NoCycleLost' /\ EveryJobAccounted'  BY <1>2, <1>3, OtherParts
<1> QED BY <1>4, <1>5, <1>6, <1>7, <1>8, <1>9 DEF Inv
-----------------------------------------------------------------------------
THEOREM NextInv == Inv /\ [Next]_vars => Inv'
<1> SUFFICES ASSUME Inv, [Next]_vars PROVE Inv'  OBVIOUS
<1>0. requests \in Nat  BY DEF Inv, IntakeTypeOK
<1>1. ASSUME NEW s \in Workers, Request(s), Arrives PROVE Inv'
  <2>1. requests' \in Nat  BY <1>0, <1>1 DEF Arrives
  <2> QED BY <1>1, <2>1, IngestEmailKeeps, ApproveEmailDraftKeeps, IngestWorkOrderKeeps,
             GenerateVisitsKeeps, ApproveVisitsKeeps, DeclareSnowEventKeeps,
             ConfirmSnowDispatchesKeeps DEF Request
<1>2. ASSUME NEW e \in Emails, RejectEmailDraft(e), Arrives PROVE Inv'
  BY <1>0, <1>2, RejectEmailDraftKeeps DEF Arrives
<1>3. ASSUME NEW e \in Emails, StoreEmail(e), UNCHANGED requests PROVE Inv'
  BY <1>0, <1>3, StoreEmailKeeps
<1>4. ASSUME NEW s \in Workers, Conversion(s), UNCHANGED requests PROVE Inv'
  BY <1>0, <1>4, CreateJobKeeps, CreateFailsKeeps, LinkKeeps, LinkMissesKeeps, NoteFailsKeeps,
     LinkFailsKeeps, CrashKeeps DEF Conversion
<1>5. ASSUME NEW s \in Workers, MailStep(s), UNCHANGED requests PROVE Inv'
  BY <1>0, <1>5, FlagDuplicateKeeps, DraftEmailKeeps, IngestFailsKeeps DEF MailStep
<1>6. ASSUME NEW s \in Workers, VisitStep(s), UNCHANGED requests PROVE Inv'
  BY <1>0, <1>6, InsertVisitKeeps, AdvanceScheduleKeeps, RecheckVisitKeeps, BatchApprovedKeeps
  DEF VisitStep
<1>7. ASSUME NEW s \in Workers, SnowStep(s), UNCHANGED requests PROVE Inv'
  BY <1>0, <1>7, StageSiteKeeps, SpawnSiteKeeps, DeclaredKeeps, FireEventKeeps, MarkDispatchingKeeps,
     LoadSitesKeeps, CompleteEventKeeps DEF SnowStep
<1>8. CASE UNCHANGED vars
  BY <1>8 DEF vars, rows, jobRows, headers, Inv, IntakeTypeOK, Requests, Shape, Ground, Cycle,
     RowsAgree, OneIngest, Ingests, OneCleared, Cleared, NoCycleLost, Visited, EveryJobAccounted,
     Waiting
<1> QED BY <1>1, <1>2, <1>3, <1>4, <1>5, <1>6, <1>7, <1>8 DEF Next

\* The inductive invariant of the intake flows.
THEOREM IntakeInvariance == Spec => []Inv
BY InitInv, NextInv, PTL DEF Spec

\* Every record stays in the statuses of its table, for any number of requests.
THEOREM IntakeTypes == Spec => []IntakeTypeOK
<1>1. Inv => IntakeTypeOK  BY DEF Inv
<1> QED BY <1>1, IntakeInvariance, PTL

\* No job of an e-mail, an order or a visit is unaccounted for, and no link is lost.
THEOREM JobsAreAccounted == Spec => []EveryJobAccounted
<1>1. Inv => EveryJobAccounted  BY DEF Inv
<1> QED BY <1>1, IntakeInvariance, PTL

\* Whatever copies are ingested together, a message gets one draft at most.
THEOREM MessagesAreDraftedOnce == Spec => []OneDraftPerMessage
<1>1. Inv => OneDraftPerMessage  BY DEF Inv, OneCleared, Cleared, OneDraftPerMessage
<1> QED BY <1>1, IntakeInvariance, PTL

\* However generation runs overlap or die, no cycle is passed over.
THEOREM CyclesAreKept == Spec => []NoCycleLost
<1>1. Inv => NoCycleLost  BY DEF Inv
<1> QED BY <1>1, IntakeInvariance, PTL
=============================================================================
