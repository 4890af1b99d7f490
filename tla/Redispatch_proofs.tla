--------------------------- MODULE Redispatch_proofs ---------------------------
(***************************************************************************)
(* Theorems of Redispatch, for any number of jobs, assignments and         *)
(* requests at once; ReplacedOnce and AutonomyBounded for requests that    *)
(* come one at a time, from bounds in the number of requests.              *)
(*                                                                         *)
(* The argument rests on what never comes back: an assignment that left    *)
(* SENT is not SENT again, a row that exists keeps its link, a dispatch    *)
(* that dwelled too long stays stuck.  The bounds count, beside what was   *)
(* sent, the requests that may still send.                                 *)
(***************************************************************************)
EXTENDS Redispatch, FiniteSetTheorems, TLAPS

Open   == {None, "DRAFT", "SENT"}
Unsent == {None, "DRAFT"}

\* A replaced assignment was stuck, unless it had left SENT before it was linked.
LinksAreEarned ==
    \A d \in Assignments :
        replaces[d] # None => replaces[d] \in stuck \/ status[replaces[d]] \notin Open

\* What a request holds at each of its stages.
WorkerOK(w) ==
    /\ todo[w] \subseteq stuck
    /\ stage[w] \in {"idle", "cool", "next"} => cur[w] = None
    /\ stage[w] \in {"cool", "next"} => op[w] = "sweep"
    /\ op[w] = "dispatch" => cur[w] = None
    /\ stage[w] \in {"suggest", "decide"} => cur[w] \in stuck
    /\ stage[w] = "create" =>
          \/ cur[w] \in stuck
          \/ op[w] = "dispatch" /\ new[w] \in Assignments
    /\ stage[w] \in {"gate", "guard", "ghost", "send"} =>
          new[w] \in Assignments /\ status[new[w]] # None /\ replaces[new[w]] = cur[w]
    /\ stage[w] = "gate" => op[w] = "dispatch" \/ cur[w] \in Assignments
    /\ stage[w] \in {"guard", "ghost", "decline"} => cur[w] \in Assignments
    /\ stage[w] = "ghost" => cur[w] \in stuck

RInv == RTypeOK /\ LinksAreEarned /\ \A w \in Workers : WorkerOK(w)

\* What no step undoes.
Grows ==
    /\ stuck \subseteq stuck'
    /\ \A a \in Assignments :
          /\ status[a] \notin Open => status'[a] \notin Open
          /\ status[a] \notin Unsent => status'[a] \notin Unsent
          /\ status[a] # None => status'[a] # None /\ replaces'[a] = replaces[a]

-----------------------------------------------------------------------------
(* Types. *)

\* The calls of the dispatch layer keep the types of its tables.
LEMMA CallsKeepTypes ==
    ASSUME RTypeOK,
           \/ \E d \in Assignments : Draft(d) \/ Send(d)
           \/ \E a \in Assignments, to \in AsgCodes : Move(a, to)
           \/ \E j \in Jobs, to \in JobCodes : SetJob(j, to)
    PROVE  /\ status' \in [Assignments -> AsgCodes \cup {None}]
           /\ sends' \in [Assignments -> Nat]
           /\ job' \in [Jobs -> JobCodes]
<1>1. CASE \E d \in Assignments : Draft(d)
  BY <1>1, RedispatchAssumption DEF RTypeOK, Draft
<1>2. CASE \E d \in Assignments : Send(d)
  <2>1. PICK d \in Assignments : Send(d)
    BY <1>2
  <2>2. job' \in [Jobs -> JobCodes]
    BY <2>1, RedispatchAssumption DEF RTypeOK, Send
  <2>3. /\ status' \in [Assignments -> AsgCodes \cup {None}]
        /\ sends' \in [Assignments -> Nat]
    BY <2>1, RedispatchAssumption DEF RTypeOK, Send
  <2> QED  BY <2>2, <2>3
<1>3. CASE \E a \in Assignments, to \in AsgCodes : Move(a, to)
  BY <1>3, RedispatchAssumption DEF RTypeOK, Move
<1>4. CASE \E j \in Jobs, to \in JobCodes : SetJob(j, to)
  BY <1>4 DEF RTypeOK, SetJob
<1> QED  BY <1>1, <1>2, <1>3, <1>4

LEMMA WorldKeepsTypes == ASSUME RTypeOK, World PROVE RTypeOK'
<1> USE RedispatchAssumption
<1>1. ASSUME NEW d \in Assignments, ManualDispatch(d) PROVE RTypeOK'
  <2>1. Draft(d) /\ UNCHANGED <<stage, requests>>
    BY <1>1 DEF ManualDispatch, DraftLinked
  <2>2. PICK a \in {None} \cup Assignments : DraftLinked(d, a, "operator")
    BY <1>1 DEF ManualDispatch
  <2> QED  BY <2>1, <2>2, CallsKeepTypes DEF RTypeOK, DraftLinked, requests, Creators
<1>2. ASSUME NEW d \in Assignments, ManualSend(d) PROVE RTypeOK'
  BY <1>2, CallsKeepTypes DEF RTypeOK, ManualSend, SendAs, requests, clocks, Senders
<1>3. ASSUME NEW a \in Assignments, NEW to \in Responses, Respond(a, to) PROVE RTypeOK'
  BY <1>3, CallsKeepTypes DEF RTypeOK, Respond, Responses, links, requests, clocks
<1>4. ASSUME NEW a \in Assignments, NEW to \in OperatorTargets, OperatorMoves(a, to) PROVE RTypeOK'
  BY <1>4, CallsKeepTypes DEF RTypeOK, OperatorMoves, links, requests, clocks
<1>5. ASSUME NEW j \in Jobs, NEW to \in JobTargets, OperatorSetsJob(j, to) PROVE RTypeOK'
  BY <1>5, CallsKeepTypes DEF RTypeOK, OperatorSetsJob, links, requests, clocks
<1>6. ASSUME NEW a \in Assignments, Dwell(a) \/ CoolDown(a) PROVE RTypeOK'
  BY <1>6 DEF RTypeOK, Dwell, CoolDown, rowsOf, links, requests
<1> QED  BY <1>1, <1>2, <1>3, <1>4, <1>5, <1>6 DEF World

LEMMA WorkKeepsTypes == ASSUME RTypeOK, NEW w \in Workers, WorkerOK(w), Work(w) PROVE RTypeOK'
<1> USE RedispatchAssumption DEF RTypeOK, Goto
<1>1. CASE SelectCandidates(w)
  BY <1>1 DEF SelectCandidates, Begin, rowsOf, links, clocks, OpKinds
<1>2. CASE ReadCooldowns(w)
  BY <1>2 DEF ReadCooldowns, rowsOf, links, clocks
<1>3. CASE CheckSuggested(w) \/ Decide(w)
  BY <1>3 DEF CheckSuggested, Decide, Continue, rowsOf, links, clocks, requests
<1>9. CASE Gate(w)
  BY <1>9 DEF Gate, Continue, rowsOf, links, clocks, requests
<1>4. CASE GuardApproval(w) \/ Fail(w) \/ Stop(w)
  BY <1>4 DEF GuardApproval, Fail, Stop, Continue, rowsOf, links, clocks, requests
<1>5. CASE Ghost(w) \/ DeclineCancelled(w)
  <2>1. cur[w] \in Assignments
    BY <1>5 DEF WorkerOK, Ghost, DeclineCancelled
  <2>2. UNCHANGED rowsOf \/ \E to \in AsgCodes : Move(cur[w], to)
    BY <1>5 DEF Ghost, DeclineCancelled
  <2>3. /\ status' \in [Assignments -> AsgCodes \cup {None}]
        /\ sends' \in [Assignments -> Nat]
        /\ job' \in [Jobs -> JobCodes]
    BY <2>1, <2>2, CallsKeepTypes DEF rowsOf
  <2> QED  BY <1>5, <2>3 DEF Ghost, DeclineCancelled, Continue, links, clocks, requests
<1>6. CASE SendReplacement(w)
  <2>1. new[w] \in Assignments
    BY <1>6 DEF WorkerOK, SendReplacement
  <2>2. /\ status' \in [Assignments -> AsgCodes \cup {None}]
        /\ sends' \in [Assignments -> Nat]
        /\ job' \in [Jobs -> JobCodes]
    BY <1>6, <2>1, CallsKeepTypes DEF SendReplacement, SendAs
  <2> QED  BY <1>6, <2>2 DEF SendReplacement, SendAs, Continue, clocks, Senders
<1>7. ASSUME NEW d \in Assignments, CreateReplacement(w, d) PROVE RTypeOK'
  <2>1. /\ status' \in [Assignments -> AsgCodes \cup {None}]
        /\ sends' \in [Assignments -> Nat]
        /\ job' \in [Jobs -> JobCodes]
    BY <1>7, CallsKeepTypes DEF CreateReplacement, DraftLinked
  <2>2. CreatorOf(op[w]) \in Creators
    BY DEF CreatorOf, Creators
  <2>3. /\ replaces' \in [Assignments -> Assignments \cup {None}]
        /\ creator' \in [Assignments -> Creators \cup {None}]
        /\ sender' \in [Assignments -> Senders \cup {None}]
        /\ stuck' \subseteq Assignments /\ fresh' \subseteq Assignments
    BY <1>7, <2>2 DEF CreateReplacement, DraftLinked
  <2>4. CASE op[w] = "prepare"
    BY <1>7, <2>1, <2>3, <2>4 DEF CreateReplacement, Continue
  <2>5. CASE op[w] # "prepare"
    BY <1>7, <2>1, <2>3, <2>5 DEF CreateReplacement
  <2> QED  BY <2>4, <2>5
<1>8. ASSUME NEW a \in Assignments,
             \/ NextCandidate(w, a) \/ BeginApprove(w, a) \/ BeginCancel(w, a) \/ BeginDispatch(w, a)
             \/ \E kind \in Ops : BeginOne(w, kind, a)
      PROVE  RTypeOK'
  BY <1>8 DEF NextCandidate, BeginApprove, BeginCancel, BeginDispatch, BeginOne, Begin,
              rowsOf, links, clocks, OpKinds
<1> QED  BY <1>1, <1>2, <1>3, <1>4, <1>5, <1>6, <1>7, <1>8, <1>9 DEF Work

-----------------------------------------------------------------------------
(* What never comes back. *)

\* Each call of the dispatch layer leaves what left SENT out of SENT.
LEMMA CallsGrow ==
    ASSUME RTypeOK,
           \/ \E d \in Assignments : Draft(d) \/ Send(d)
           \/ \E a \in Assignments, to \in AsgCodes : Move(a, to)
           \/ UNCHANGED status
    PROVE  \A a \in Assignments :
              /\ status[a] \notin Open => status'[a] \notin Open
              /\ status[a] \notin Unsent => status'[a] \notin Unsent
              /\ status[a] # None => status'[a] # None
<1> USE RedispatchAssumption DEF RTypeOK, Open, Unsent
<1>1. CASE \E d \in Assignments : Draft(d)
  BY <1>1 DEF Draft
<1>2. CASE \E d \in Assignments : Send(d)
  BY <1>2 DEF Send
<1>3. CASE \E a \in Assignments, to \in AsgCodes : Move(a, to)
  BY <1>3 DEF Move
<1> QED  BY <1>1, <1>2, <1>3

LEMMA DraftLinkedGrows ==
    ASSUME RTypeOK, NEW d \in Assignments, NEW a, NEW by, DraftLinked(d, a, by)
    PROVE  Grows
<1>1. Draft(d) /\ status[d] = None
  BY DEF DraftLinked, Draft
<1>2. stuck' = stuck
  BY DEF DraftLinked
<1>3. \A b \in Assignments : status[b] # None => replaces'[b] = replaces[b]
  BY <1>1 DEF DraftLinked, RTypeOK
<1> QED  BY <1>1, <1>2, <1>3, CallsGrow DEF Grows

LEMMA WorldGrows == ASSUME RTypeOK, World PROVE Grows
<1> USE RedispatchAssumption DEF Grows
<1>1. ASSUME NEW d \in Assignments, ManualDispatch(d) PROVE Grows
  BY <1>1, DraftLinkedGrows DEF ManualDispatch
<1>2. ASSUME NEW d \in Assignments, ManualSend(d) PROVE Grows
  BY <1>2, CallsGrow DEF ManualSend, SendAs, clocks
<1>3. ASSUME NEW a \in Assignments, NEW to \in AsgCodes,
             Respond(a, to) \/ OperatorMoves(a, to)
      PROVE  Grows
  BY <1>3, CallsGrow DEF Respond, OperatorMoves, links, clocks
<1>4. ASSUME NEW j \in Jobs, NEW to \in JobTargets, OperatorSetsJob(j, to) PROVE Grows
  BY <1>4, CallsGrow DEF OperatorSetsJob, SetJob, links, clocks
<1>5. ASSUME NEW a \in Assignments, Dwell(a) \/ CoolDown(a) PROVE Grows
  BY <1>5, CallsGrow DEF Dwell, CoolDown, rowsOf, links
<1> QED  BY <1>1, <1>2, <1>3, <1>4, <1>5 DEF World, Responses

LEMMA WorkGrows == ASSUME RTypeOK, NEW w \in Workers, WorkerOK(w), Work(w) PROVE Grows
<1> USE RedispatchAssumption
<1>1. ASSUME UNCHANGED <<rowsOf, links, clocks>> PROVE Grows
  BY <1>1, CallsGrow DEF Grows, rowsOf, links, clocks
<1>2. ASSUME NEW d \in Assignments, CreateReplacement(w, d) PROVE Grows
  BY <1>2, DraftLinkedGrows DEF CreateReplacement
<1>3. CASE SendReplacement(w)
  <2>1. new[w] \in Assignments
    BY <1>3 DEF WorkerOK, SendReplacement
  <2> QED  BY <1>3, <2>1, CallsGrow DEF SendReplacement, SendAs, clocks, Grows
<1>4. CASE Ghost(w) \/ DeclineCancelled(w)
  <2>1. cur[w] \in Assignments
    BY <1>4 DEF WorkerOK, Ghost, DeclineCancelled
  <2>2. UNCHANGED status \/ \E to \in AsgCodes : Move(cur[w], to)
    BY <1>4 DEF Ghost, DeclineCancelled, rowsOf
  <2> QED  BY <1>4, <2>1, <2>2, CallsGrow DEF Ghost, DeclineCancelled, links, clocks, Grows
<1>5. CASE \/ SelectCandidates(w) \/ ReadCooldowns(w) \/ CheckSuggested(w)
           \/ Decide(w) \/ Gate(w) \/ GuardApproval(w) \/ Fail(w) \/ Stop(w)
  BY <1>1, <1>5 DEF SelectCandidates, Begin, ReadCooldowns, CheckSuggested, Decide, Gate,
                    GuardApproval, Fail, Stop
<1>6. ASSUME NEW a \in Assignments,
             \/ NextCandidate(w, a) \/ BeginApprove(w, a) \/ BeginCancel(w, a) \/ BeginDispatch(w, a)
             \/ \E kind \in Ops : BeginOne(w, kind, a)
      PROVE  Grows
  BY <1>1, <1>6 DEF NextCandidate, BeginApprove, BeginCancel, BeginDispatch, BeginOne, Begin
<1> QED  BY <1>2, <1>3, <1>4, <1>5, <1>6 DEF Work

-----------------------------------------------------------------------------
(* The invariant. *)

\* A request that does not move keeps what it holds.
LEMMA WorkerStays ==
    ASSUME RTypeOK, Grows, NEW w \in Workers, WorkerOK(w),
           stage'[w] = stage[w], op'[w] = op[w], todo'[w] = todo[w],
           cur'[w] = cur[w], new'[w] = new[w]
    PROVE  WorkerOK(w)'
BY DEF WorkerOK, Grows, RTypeOK

\* Links that no step rewrites stay earned.
LEMMA LinksStay ==
    ASSUME RTypeOK, Grows, LinksAreEarned, replaces' = replaces
    PROVE  LinksAreEarned'
BY RedispatchAssumption DEF LinksAreEarned, Grows, RTypeOK

\* A new link is earned when it leads to a stuck assignment or to one past SENT.
LEMMA NewLinkEarned ==
    ASSUME RTypeOK, LinksAreEarned, NEW d \in Assignments,
           NEW a \in Assignments \cup {None}, NEW by,
           a # None => a \in stuck \/ status[a] \notin Open,
           DraftLinked(d, a, by)
    PROVE  LinksAreEarned'
<1>1. Grows
  BY DraftLinkedGrows
<1>2. replaces' = [replaces EXCEPT ![d] = a]
  BY DEF DraftLinked
<1> QED  BY <1>1, <1>2, RedispatchAssumption DEF LinksAreEarned, Grows, RTypeOK

LEMMA WorldKeepsLinks == ASSUME RInv, World PROVE LinksAreEarned'
<1>1. Grows
  BY WorldGrows DEF RInv
<1>2. ASSUME NEW d \in Assignments, ManualDispatch(d) PROVE LinksAreEarned'
  <2>1. PICK a \in {None} \cup {b \in Assignments :
                JobOf[b] = JobOf[d] /\ status[b] \notin {None, "DRAFT", "SENT"}} :
             DraftLinked(d, a, "operator")
    BY <1>2 DEF ManualDispatch
  <2> QED  BY <2>1, NewLinkEarned DEF RInv, Open
<1>3. ASSUME ~ \E d \in Assignments : ManualDispatch(d) PROVE LinksAreEarned'
  <2>1. replaces' = replaces
    BY <1>3 DEF World, ManualSend, SendAs, Respond, OperatorMoves, OperatorSetsJob,
                Dwell, CoolDown, links
  <2> QED  BY <1>1, <2>1, LinksStay DEF RInv
<1> QED  BY <1>2, <1>3

LEMMA WorldKeepsWorkers == ASSUME RInv, World, NEW w \in Workers PROVE WorkerOK(w)'
<1>1. Grows
  BY WorldGrows DEF RInv
<1>2. UNCHANGED <<stage, requests>>
  BY DEF World, ManualDispatch, ManualSend, Respond, OperatorMoves, OperatorSetsJob, Dwell, CoolDown
<1> QED  BY <1>1, <1>2, WorkerStays DEF RInv, requests

LEMMA WorkKeepsLinks == ASSUME RInv, NEW w \in Workers, Work(w) PROVE LinksAreEarned'
<1>1. Grows
  BY WorkGrows DEF RInv
<1>2. ASSUME NEW d \in Assignments, CreateReplacement(w, d) PROVE LinksAreEarned'
  <2>1. cur[w] \in Assignments \cup {None} /\ (cur[w] # None => cur[w] \in stuck)
    BY <1>2 DEF RInv, RTypeOK, WorkerOK, CreateReplacement
  <2>2. DraftLinked(d, cur[w], CreatorOf(op[w]))
    BY <1>2 DEF CreateReplacement
  <2> QED  BY <2>1, <2>2, NewLinkEarned DEF RInv
<1>3. ASSUME ~ \E d \in Assignments : CreateReplacement(w, d) PROVE LinksAreEarned'
  <2>1. replaces' = replaces
    BY <1>3 DEF Work, SelectCandidates, ReadCooldowns, CheckSuggested, Decide, Gate, GuardApproval,
                Ghost, SendReplacement, SendAs, DeclineCancelled, Fail, Stop, NextCandidate,
                BeginApprove, BeginCancel, BeginDispatch, BeginOne, Begin, links
  <2> QED  BY <1>1, <2>1, LinksStay DEF RInv
<1> QED  BY <1>2, <1>3

\* A request's own step leaves it holding what its next stage needs.
LEMMA WorkKeepsItself == ASSUME RInv, NEW w \in Workers, Work(w) PROVE WorkerOK(w)'
<1> USE RedispatchAssumption
<1> DEFINE Quiet == UNCHANGED <<rowsOf, links, clocks>>
<1>0. /\ RTypeOK /\ LinksAreEarned /\ WorkerOK(w) /\ Grows
      /\ RTypeOK'
  BY WorkGrows, WorkKeepsTypes DEF RInv
\* Back to idle or on to the next candidate: only todo is held.
<1>1. ASSUME stage'[w] \in {"idle", "cool", "next"}, todo'[w] \subseteq todo[w], cur'[w] = None,
             stage'[w] \in {"cool", "next"} => op'[w] = "sweep"
      PROVE  WorkerOK(w)'
  BY <1>0, <1>1 DEF WorkerOK, Grows
<1>2. ASSUME Continue(w) PROVE WorkerOK(w)'
  <2>1. /\ stage'[w] \in {"idle", "next"} /\ todo' = todo /\ cur'[w] = None
        /\ stage'[w] = "next" => op'[w] = "sweep"
    BY <1>0, <1>2 DEF Continue, Goto, RTypeOK
  <2> QED  BY <1>1, <2>1
<1>3. CASE SelectCandidates(w)
  <2>1. /\ stage'[w] = "cool" /\ stage[w] = "idle" /\ op'[w] = "sweep"
        /\ stuck' = stuck /\ cur' = cur
    BY <1>0, <1>3 DEF SelectCandidates, Begin, Goto, RTypeOK, clocks
  <2>2. todo'[w] = {a \in Assignments : CanSuggest(a)}
    BY <1>0, <1>3 DEF SelectCandidates, RTypeOK
  <2>3. todo'[w] \subseteq stuck
    BY <2>2 DEF CanSuggest
  <2> QED  BY <1>0, <2>1, <2>3 DEF WorkerOK
<1>4. CASE ReadCooldowns(w) \/ Stop(w)
  <2>1. /\ stage'[w] \in {"idle", "next"} /\ todo'[w] \subseteq todo[w] /\ cur'[w] = None
        /\ stage'[w] = "next" => op'[w] = "sweep"
    BY <1>0, <1>4 DEF ReadCooldowns, Stop, Goto, RTypeOK, WorkerOK
  <2> QED  BY <1>1, <2>1
<1>5. ASSUME NEW a \in Assignments, NextCandidate(w, a) PROVE WorkerOK(w)'
  <2>1. /\ a \in stuck /\ stuck' = stuck /\ todo'[w] \subseteq stuck
        /\ op'[w] = "sweep"
    BY <1>0, <1>5 DEF NextCandidate, RTypeOK, WorkerOK, clocks
  <2>2. \/ stage'[w] = "next" /\ cur'[w] = None
        \/ stage'[w] = "suggest" /\ cur'[w] = a
    BY <1>0, <1>5 DEF NextCandidate, Goto, RTypeOK, WorkerOK
  <2> QED  BY <2>1, <2>2 DEF WorkerOK
<1>6. ASSUME NEW a \in Assignments, NEW kind \in Ops, BeginOne(w, kind, a) PROVE WorkerOK(w)'
  <2>1. /\ stage'[w] = "suggest" /\ cur'[w] = a /\ a \in stuck /\ op'[w] # "dispatch"
        /\ stuck' = stuck /\ todo' = todo
    BY <1>0, <1>6 DEF BeginOne, Begin, Goto, RTypeOK, clocks
  <2> QED  BY <1>0, <2>1 DEF WorkerOK
<1>7. CASE CheckSuggested(w) \/ Decide(w)
  <2>1. CASE Continue(w)
    BY <1>2, <2>1
  <2>2. CASE /\ stage[w] \in {"suggest", "decide"} /\ stage'[w] \in {"decide", "create"}
             /\ UNCHANGED <<requests, clocks>>
    <3>1. cur[w] \in stuck /\ UNCHANGED <<op, todo, cur, stuck>>
      BY <1>0, <2>2 DEF WorkerOK, requests, clocks
    <3> QED  BY <1>0, <2>2, <3>1 DEF WorkerOK
  <2>3. CASE CheckSuggested(w)
    BY <1>0, <2>3, <2>1, <2>2 DEF CheckSuggested, Goto, RTypeOK
  <2>4. CASE Decide(w)
    BY <1>0, <2>4, <2>1, <2>2 DEF Decide, Goto, RTypeOK
  <2> QED  BY <1>7, <2>3, <2>4
<1>8. ASSUME NEW d \in Assignments, CreateReplacement(w, d) PROVE WorkerOK(w)'
  <2>1. CASE op[w] = "prepare"
    BY <1>2, <1>8, <2>1 DEF CreateReplacement
  <2>2. CASE op[w] # "prepare"
    <3>1. /\ stage'[w] = "gate" /\ new'[w] = d /\ UNCHANGED <<op, todo, cur, stuck>>
          /\ stage[w] = "create"
      BY <1>0, <1>8, <2>2 DEF CreateReplacement, Goto, RTypeOK, DraftLinked
    <3>2. status'[d] # None /\ replaces'[d] = cur[w]
      BY <1>0, <1>8 DEF CreateReplacement, DraftLinked, Draft, RTypeOK
    <3> QED  BY <1>0, <3>1, <3>2 DEF WorkerOK, RTypeOK
  <2> QED  BY <2>1, <2>2
<1>9. CASE Gate(w)
  <2>1. CASE Continue(w)
    BY <1>2, <2>1
  <2>2. CASE /\ stage[w] = "gate" /\ stage'[w] = IF op[w] = "dispatch" THEN "send" ELSE "guard"
             /\ UNCHANGED <<requests, rowsOf, links, clocks>>
    BY <1>0, <2>2 DEF WorkerOK, requests, rowsOf, links, clocks
  <2> QED  BY <1>0, <1>9, <2>1, <2>2 DEF Gate, Goto, RTypeOK
<1>10. ASSUME NEW d \in Assignments, BeginApprove(w, d) PROVE WorkerOK(w)'
  <2>1. /\ stage'[w] = "guard" /\ op'[w] = "approve"
        /\ new'[w] = d /\ cur'[w] = replaces[d] /\ replaces[d] \in Assignments
        /\ status[d] = "DRAFT" /\ UNCHANGED <<todo, status, replaces, stuck>>
    BY <1>0, <1>10 DEF BeginApprove, Begin, Goto, RTypeOK, rowsOf, links, clocks
  <2> QED  BY <1>0, <2>1 DEF WorkerOK
<1>11. CASE GuardApproval(w)
  <2>1. CASE Continue(w)
    BY <1>2, <2>1
  <2>2. CASE ~ Continue(w)
    <3>1. /\ stage[w] = "guard" /\ stage'[w] = "ghost" /\ status[cur[w]] = "SENT"
          /\ UNCHANGED <<requests, rowsOf, links, clocks>>
      BY <1>0, <1>11, <2>2 DEF GuardApproval, Goto, RTypeOK
    <3>2. cur[w] \in stuck
      BY <1>0, <3>1 DEF WorkerOK, LinksAreEarned, Open, RTypeOK
    <3> QED  BY <1>0, <3>1, <3>2 DEF WorkerOK, requests, rowsOf, links, clocks
  <2> QED  BY <2>1, <2>2
<1>12. CASE Ghost(w)
  <2>1. /\ stage[w] = "ghost" /\ stage'[w] = "send" /\ UNCHANGED <<requests, links, clocks>>
    BY <1>0, <1>12 DEF Ghost, Goto, RTypeOK
  <2> QED  BY <1>0, <2>1 DEF WorkerOK, Grows, requests, links, clocks
<1>13. CASE SendReplacement(w) \/ DeclineCancelled(w) \/ Fail(w)
  BY <1>2, <1>13 DEF SendReplacement, DeclineCancelled, Fail
<1>14. ASSUME NEW a \in Assignments, BeginCancel(w, a) PROVE WorkerOK(w)'
  <2>1. /\ stage'[w] = "decline" /\ op'[w] = "cancel" /\ cur'[w] = a
        /\ UNCHANGED <<todo, stuck>>
    BY <1>0, <1>14 DEF BeginCancel, Begin, Goto, RTypeOK, clocks
  <2> QED  BY <1>0, <2>1 DEF WorkerOK
<1>15. ASSUME NEW d \in Assignments, BeginDispatch(w, d) PROVE WorkerOK(w)'
  <2>1. /\ stage'[w] = "create" /\ op'[w] = "dispatch" /\ new'[w] = d /\ cur' = cur
        /\ stage[w] = "idle" /\ UNCHANGED <<todo, stuck>>
    BY <1>0, <1>15 DEF BeginDispatch, Begin, Goto, RTypeOK, clocks
  <2> QED  BY <1>0, <2>1 DEF WorkerOK
<1> QED  BY <1>3, <1>4, <1>5, <1>6, <1>7, <1>8, <1>9, <1>10, <1>11, <1>12, <1>13, <1>14, <1>15 DEF Work

\* A step of one request moves no other.
LEMMA OthersWait ==
    ASSUME RTypeOK, NEW v \in Workers, NEW w \in Workers, w # v, Work(v)
    PROVE  /\ stage'[w] = stage[w] /\ op'[w] = op[w] /\ todo'[w] = todo[w]
           /\ cur'[w] = cur[w] /\ new'[w] = new[w]
<1> USE DEF RTypeOK, Goto
<1>1. CASE \/ SelectCandidates(v) \/ ReadCooldowns(v) \/ CheckSuggested(v) \/ Decide(v) \/ Gate(v)
  BY <1>1 DEF SelectCandidates, Begin, ReadCooldowns, CheckSuggested, Decide, Gate, Continue, requests
<1>2. CASE \/ GuardApproval(v) \/ Ghost(v) \/ SendReplacement(v) \/ DeclineCancelled(v)
           \/ Fail(v) \/ Stop(v)
  BY <1>2 DEF GuardApproval, Ghost, SendReplacement, DeclineCancelled, Fail, Stop, Continue, requests
<1>3. CASE \E d \in Assignments : CreateReplacement(v, d)
  BY <1>3 DEF CreateReplacement, Continue
<1>4. CASE \E a \in Assignments :
          \/ NextCandidate(v, a) \/ BeginApprove(v, a) \/ BeginCancel(v, a) \/ BeginDispatch(v, a)
          \/ \E kind \in Ops : BeginOne(v, kind, a)
  BY <1>4 DEF NextCandidate, BeginApprove, BeginCancel, BeginDispatch, BeginOne, Begin
<1> QED  BY <1>1, <1>2, <1>3, <1>4 DEF Work

LEMMA InitRInv == RInit => RInv
BY RedispatchAssumption DEF RInit, Init, RInv, RTypeOK, LinksAreEarned, WorkerOK

LEMMA RInvStutters == ASSUME RInv, UNCHANGED rvars PROVE RInv'
BY DEF RInv, RTypeOK, LinksAreEarned, WorkerOK, rvars, rowsOf, links, clocks, requests

LEMMA StepKeepsRInv == ASSUME RInv, RNext PROVE RInv'
<1>1. CASE World
  BY <1>1, WorldKeepsTypes, WorldKeepsLinks, WorldKeepsWorkers DEF RInv
<1>2. ASSUME NEW v \in Workers, Work(v) PROVE RInv'
  <2>1. RTypeOK' /\ LinksAreEarned' /\ Grows
    BY <1>2, WorkKeepsTypes, WorkKeepsLinks, WorkGrows DEF RInv
  <2>2. ASSUME NEW w \in Workers PROVE WorkerOK(w)'
    <3>1. CASE w = v
      BY <1>2, <3>1, WorkKeepsItself
    <3>2. CASE w # v
      <4>1. /\ stage'[w] = stage[w] /\ op'[w] = op[w] /\ todo'[w] = todo[w]
            /\ cur'[w] = cur[w] /\ new'[w] = new[w]
        BY <1>2, <3>2, OthersWait DEF RInv
      <4> QED  BY <2>1, <4>1, WorkerStays DEF RInv
    <3> QED  BY <3>1, <3>2
  <2> QED  BY <2>1, <2>2 DEF RInv
<1> QED  BY <1>1, <1>2 DEF RNext

\* The inductive invariant: types, earned links, and what each request holds.
THEOREM RedispatchInvariance == RSpec => []RInv
<1>1. RInv /\ [RNext]_rvars => RInv'
  BY StepKeepsRInv, RInvStutters
<1> QED  BY InitRInv, <1>1, PTL DEF RSpec

\* Types of the links, the clocks and the requests, for any number of requests.
THEOREM RedispatchTypes == RSpec => []RTypeOK
BY RedispatchInvariance, PTL DEF RInv

-----------------------------------------------------------------------------
(* Who is ghosted. *)

LEMMA StepGhostsStuck ==
    ASSUME RInv, RNext, stage' # stage, NEW a \in Assignments, status'[a] = "GHOSTED"
    PROVE  status[a] = "GHOSTED" \/ a \in stuck
<1> USE RedispatchAssumption
<1>1. PICK w \in Workers : Work(w)
  BY DEF RNext, World, ManualDispatch, ManualSend, Respond, OperatorMoves, OperatorSetsJob,
         Dwell, CoolDown
<1>2. RTypeOK /\ WorkerOK(w)
  BY DEF RInv
<1>3. CASE UNCHANGED rowsOf
  BY <1>3 DEF rowsOf
<1>4. CASE Ghost(w)
  <2>1. cur[w] \in stuck
    BY <1>2, <1>4 DEF WorkerOK, Ghost
  <2> QED  BY <1>2, <1>3, <1>4, <2>1 DEF Ghost, Move, RTypeOK
<1>5. CASE DeclineCancelled(w)
  BY <1>2, <1>3, <1>5 DEF DeclineCancelled, Move, RTypeOK
<1>6. CASE SendReplacement(w)
  BY <1>2, <1>6 DEF SendReplacement, SendAs, Send, RTypeOK
<1>7. ASSUME NEW d \in Assignments, CreateReplacement(w, d)
      PROVE  status[a] = "GHOSTED" \/ a \in stuck
  BY <1>2, <1>7 DEF CreateReplacement, DraftLinked, Draft, RTypeOK
<1> QED  BY <1>1, <1>3, <1>4, <1>5, <1>6, <1>7
         DEF Work, SelectCandidates, ReadCooldowns, CheckSuggested, Decide, Gate, GuardApproval,
             Fail, Stop, NextCandidate, BeginApprove, BeginCancel, BeginDispatch, BeginOne, Begin

\* Whatever requests run at once, none of them ghosts a dispatch that had not been
\* stuck: approveRedispatch's guard holds at a distance, through its links.
THEOREM OnlyTheStuckAreGhosted == RSpec => GhostedWasStuck
<1>1. RInv /\ RNext /\ stage' # stage =>
        \A a \in Assignments : status'[a] = "GHOSTED" => status[a] = "GHOSTED" \/ a \in stuck
  BY StepGhostsStuck
<1>2. RInv /\ [RNext]_rvars =>
        [stage' # stage => \A a \in Assignments :
            status'[a] = "GHOSTED" => status[a] = "GHOSTED" \/ a \in stuck]_rvars
  BY <1>1
<1> QED  BY RedispatchInvariance, <1>2, PTL DEF RSpec, GhostedWasStuck

-----------------------------------------------------------------------------
(* Every step is a call of the dispatch layer, or none. *)

LEMMA StepIsContractStep == ASSUME RInv, RNext PROVE [Next]_<<status, sends, job>>
<1> USE RedispatchAssumption
<1>1. CASE World
  <2>1. ASSUME NEW d \in Assignments, ManualDispatch(d) \/ ManualSend(d) PROVE Next
    BY <2>1 DEF ManualDispatch, DraftLinked, ManualSend, SendAs, Next
  <2>2. ASSUME NEW a \in Assignments, NEW to \in Responses, Respond(a, to) PROVE Next
    BY <2>2 DEF Respond, Responses, Next
  <2>3. ASSUME NEW a \in Assignments, NEW to \in OperatorTargets, OperatorMoves(a, to) PROVE Next
    BY <2>3 DEF OperatorMoves, Next
  <2>4. ASSUME NEW j \in Jobs, NEW to \in JobTargets, OperatorSetsJob(j, to) PROVE Next
    BY <2>4 DEF OperatorSetsJob, Next
  <2>5. ASSUME NEW a \in Assignments, Dwell(a) \/ CoolDown(a)
        PROVE  UNCHANGED <<status, sends, job>>
    BY <2>5 DEF Dwell, CoolDown, rowsOf
  <2> QED  BY <1>1, <2>1, <2>2, <2>3, <2>4, <2>5 DEF World
<1>2. ASSUME NEW w \in Workers, Work(w) PROVE [Next]_<<status, sends, job>>
  <2>1. WorkerOK(w)
    BY DEF RInv
  <2>2. CASE Ghost(w) \/ DeclineCancelled(w)
    BY <2>1, <2>2 DEF Ghost, DeclineCancelled, WorkerOK, Next, rowsOf
  <2>3. CASE SendReplacement(w)
    BY <2>1, <2>3 DEF SendReplacement, SendAs, WorkerOK, Next
  <2>4. ASSUME NEW d \in Assignments, CreateReplacement(w, d) PROVE Next
    BY <2>4 DEF CreateReplacement, DraftLinked, Next
  <2> QED  BY <1>2, <2>2, <2>3, <2>4
           DEF Work, SelectCandidates, ReadCooldowns, CheckSuggested, Decide, Gate, GuardApproval,
               Fail, Stop, NextCandidate, BeginApprove, BeginCancel, BeginDispatch, BeginOne, Begin,
               rowsOf
<1> QED  BY <1>1, <1>2 DEF RNext

\* Re-dispatch asks nothing of the dispatch layer that its contract does not
\* give: whatever requests, vendors and operators do, the tables behave as
\* DispatchContract says, which JobDispatch's transactions implement.
THEOREM RedispatchKeepsContract == RSpec => Spec
<1>1. RInit => Init
  BY DEF RInit
<1>2. RInv /\ [RNext]_rvars => [Next]_<<status, sends, job>>
  BY StepIsContractStep DEF rvars, rowsOf
<1> QED  BY <1>1, <1>2, RedispatchInvariance, PTL DEF RSpec, Spec

-----------------------------------------------------------------------------
(* Who was contacted. *)

Sent == {a \in Assignments : sends[a] > 0}

\* Replacements that an autonomous flow sent.
SystemSent(j) ==
    {d \in Assignments : JobOf[d] = j /\ sender[d] = "system" /\ replaces[d] # None}

\* What left DRAFT was sent, and so was every replaced assignment; the first
\* vendor of a job was not contacted as a replacement by the system.
ContactInv ==
    /\ IsFiniteSet(Sent)
    /\ \A a \in Assignments : status[a] \notin Unsent => a \in Sent
    /\ \A a \in stuck : status[a] \notin Unsent
    /\ \A w \in Workers : stage[w] = "decline" => status[cur[w]] \notin Unsent
    /\ \A d \in Assignments : sender[d] # None => d \in Sent /\ status[d] # None
    /\ \A d \in Assignments : replaces[d] # None => JobOf[replaces[d]] = JobOf[d]
    /\ \A j \in Jobs : SentOn(j) \subseteq SystemSent(j) => SentOn(j) = {}

Sends == \E d \in Assignments, who \in Senders : SendAs(d, who)
Quiet == sends' = sends /\ sender' = sender

LEMMA SendsOrQuiet == ASSUME RInv, RNext PROVE Sends \/ Quiet
<1>1. CASE World
  <2>1. ASSUME NEW d \in Assignments, ManualSend(d) PROVE Sends
    BY <2>1 DEF ManualSend, Sends, Senders
  <2> QED  BY <1>1, <2>1 DEF World, ManualDispatch, DraftLinked, Draft, Respond, OperatorMoves, Move,
                             OperatorSetsJob, SetJob, Dwell, CoolDown, rowsOf, links, Quiet
<1>2. ASSUME NEW w \in Workers, Work(w) PROVE Sends \/ Quiet
  <2>1. CASE SendReplacement(w)
    BY <2>1 DEF SendReplacement, Sends, Senders, RInv, WorkerOK
  <2> QED  BY <1>2, <2>1
           DEF Work, SelectCandidates, ReadCooldowns, CheckSuggested, Decide, Gate, GuardApproval,
               Ghost, DeclineCancelled, Move, Fail, Stop, NextCandidate, CreateReplacement,
               DraftLinked, Draft, BeginApprove, BeginCancel, BeginDispatch, BeginOne, Begin,
               rowsOf, links, Quiet
<1> QED  BY <1>1, <1>2 DEF RNext

\* A sent row is in Sent before or is the one sent now; nothing else sees the sender.
LEMMA SendAdds ==
    ASSUME RTypeOK, ContactInv, NEW d \in Assignments, NEW who \in Senders, SendAs(d, who)
    PROVE  /\ d \notin Sent /\ Sent' = Sent \cup {d}
           /\ status[d] = "DRAFT" /\ status' = [status EXCEPT ![d] = "SENT"]
           /\ sender[d] = None /\ sender' = [sender EXCEPT ![d] = who]
           /\ UNCHANGED <<replaces, stuck, fresh>>
BY DEF SendAs, Send, Sent, RTypeOK, ContactInv, clocks

\* A step that sends nothing contacts nobody and moves only what was contacted.
LEMMA QuietMoves ==
    ASSUME RInv, ContactInv, RNext, Quiet, NEW a \in Assignments, status'[a] \notin Unsent
    PROVE  status[a] \notin Unsent
<1> USE RedispatchAssumption DEF Unsent
<1>1. RTypeOK
  BY DEF RInv
<1>2. ASSUME NEW d \in Assignments, Draft(d) PROVE status[a] \notin Unsent
  BY <1>1, <1>2 DEF Draft, RTypeOK
<1>3. ASSUME NEW b \in Assignments, NEW to, Move(b, to), status[b] \notin Unsent
      PROVE  status[a] \notin Unsent
  BY <1>1, <1>3 DEF Move, RTypeOK
<1>4. ASSUME NEW d \in Assignments, Send(d) PROVE FALSE
  BY <1>1, <1>4 DEF Send, Quiet, RTypeOK
<1>5. CASE World
  <2>1. ASSUME NEW b \in Assignments, NEW to, Respond(b, to) \/ OperatorMoves(b, to)
        PROVE  status[a] \notin Unsent
    BY <1>3, <2>1 DEF Respond, OperatorMoves, Move
  <2>2. ASSUME NEW d \in Assignments, ManualDispatch(d) \/ ManualSend(d)
        PROVE  status[a] \notin Unsent
    BY <1>2, <1>4, <2>2 DEF ManualDispatch, DraftLinked, ManualSend, SendAs
  <2> QED  BY <1>5, <2>1, <2>2 DEF World, OperatorSetsJob, SetJob, Dwell, CoolDown, rowsOf
<1>6. ASSUME NEW w \in Workers, Work(w) PROVE status[a] \notin Unsent
  <2>1. WorkerOK(w)
    BY DEF RInv
  <2>2. CASE Ghost(w) \/ DeclineCancelled(w)
    <3>1. cur[w] \in Assignments /\ status[cur[w]] \notin Unsent
      BY <1>1, <2>1, <2>2 DEF Ghost, DeclineCancelled, WorkerOK, ContactInv
    <3> QED  BY <1>3, <2>2, <3>1 DEF Ghost, DeclineCancelled, rowsOf
  <2>3. CASE SendReplacement(w)
    BY <1>4, <2>1, <2>3 DEF SendReplacement, SendAs, WorkerOK
  <2>4. ASSUME NEW d \in Assignments, CreateReplacement(w, d) PROVE status[a] \notin Unsent
    BY <1>2, <2>4 DEF CreateReplacement, DraftLinked
  <2> QED  BY <1>6, <2>2, <2>3, <2>4
           DEF Work, SelectCandidates, ReadCooldowns, CheckSuggested, Decide, Gate, GuardApproval,
               Fail, Stop, NextCandidate, BeginApprove, BeginCancel, BeginDispatch, BeginOne, Begin,
               rowsOf
<1> QED  BY <1>5, <1>6 DEF RNext

\* A stuck dispatch was SENT when it dwelled.
LEMMA StuckGrows ==
    ASSUME RInv, RNext, NEW a \in stuck' \ stuck
    PROVE  status[a] = "SENT" /\ a \in Assignments
BY DEF RNext, World, ManualDispatch, DraftLinked, ManualSend, SendAs, Respond, OperatorMoves,
       OperatorSetsJob, Dwell, CoolDown, clocks,
       Work, SelectCandidates, ReadCooldowns, CheckSuggested, Decide, Gate, GuardApproval, Ghost,
       SendReplacement, DeclineCancelled, Fail, Stop, NextCandidate, CreateReplacement,
       BeginApprove, BeginCancel, BeginDispatch, BeginOne, Begin

\* A cancellation that is under way was begun on a row past DRAFT.
LEMMA DeclineBegins ==
    ASSUME RInv, RNext, NEW w \in Workers, stage'[w] = "decline"
    PROVE  \/ stage[w] = "decline" /\ cur'[w] = cur[w]
           \/ cur'[w] \in Assignments /\ status[cur'[w]] \notin Unsent
<1>1. RTypeOK
  BY DEF RInv
<1>2. CASE World
  BY <1>2 DEF World, ManualDispatch, ManualSend, Respond, OperatorMoves, OperatorSetsJob, Dwell,
              CoolDown, requests
<1>3. ASSUME NEW v \in Workers, v # w, Work(v) PROVE stage[w] = "decline" /\ cur'[w] = cur[w]
  BY <1>1, <1>3, OthersWait
<1>4. CASE Work(w)
  <2>1. ASSUME NEW a \in Assignments, BeginCancel(w, a)
        PROVE  cur'[w] \in Assignments /\ status[cur'[w]] \notin Unsent
    BY <1>1, <2>1, RedispatchAssumption DEF BeginCancel, Cancellable, Unsent, RTypeOK
  <2>2. ASSUME ~ \E a \in Assignments : BeginCancel(w, a) PROVE FALSE
    <3>1. stage' = [stage EXCEPT ![w] = stage'[w]] /\ stage'[w] # "decline"
      BY <1>1, <1>4, <2>2
         DEF Work, SelectCandidates, ReadCooldowns, CheckSuggested, Decide, Gate, GuardApproval,
             Ghost, SendReplacement, DeclineCancelled, Fail, Stop, NextCandidate, CreateReplacement,
             BeginApprove, BeginDispatch, BeginOne, Begin, Continue, Goto, RTypeOK
    <3> QED  BY <3>1
  <2> QED  BY <2>1, <2>2
<1> QED  BY <1>2, <1>3, <1>4 DEF RNext

\* A link is of one job.
LEMMA StepKeepsJobs ==
    ASSUME RInv, ContactInv, RNext, NEW d \in Assignments, replaces'[d] # None
    PROVE  JobOf[replaces'[d]] = JobOf[d]
<1> USE RedispatchAssumption
<1>1. RTypeOK
  BY DEF RInv
<1>2. ASSUME NEW e \in Assignments, NEW a \in Assignments \cup {None}, NEW by, DraftLinked(e, a, by),
             a # None => JobOf[a] = JobOf[e]
      PROVE  JobOf[replaces'[d]] = JobOf[d]
  BY <1>1, <1>2 DEF DraftLinked, ContactInv, RTypeOK
<1>3. ASSUME NEW e \in Assignments, ManualDispatch(e) PROVE JobOf[replaces'[d]] = JobOf[d]
  BY <1>2, <1>3 DEF ManualDispatch
<1>4. ASSUME NEW w \in Workers, NEW e \in Assignments, CreateReplacement(w, e)
      PROVE  JobOf[replaces'[d]] = JobOf[d]
  BY <1>1, <1>2, <1>4 DEF CreateReplacement, RInv, WorkerOK, RTypeOK
<1>5. CASE replaces' = replaces
  BY <1>5 DEF ContactInv
<1> QED  BY <1>3, <1>4, <1>5
         DEF RNext, World, ManualSend, SendAs, Respond, OperatorMoves, OperatorSetsJob, Dwell,
             CoolDown, Work, SelectCandidates, ReadCooldowns, CheckSuggested, Decide, Gate,
             GuardApproval, Ghost, SendReplacement, DeclineCancelled, Fail, Stop, NextCandidate,
             BeginApprove, BeginCancel, BeginDispatch, BeginOne, Begin, links

LEMMA StepGrows == ASSUME RInv, RNext PROVE Grows
BY WorldGrows, WorkGrows DEF RInv, RNext

\* The vendor a flow's replacement replaces was contacted.
LEMMA ReplacedWasSent ==
    ASSUME RInv, ContactInv, NEW d \in Assignments, replaces[d] # None
    PROVE  replaces[d] \in SentOn(JobOf[d])
BY DEF RInv, RTypeOK, ContactInv, LinksAreEarned, SentOn, Sent, Open, Unsent

\* The system never is the first to contact a vendor of a job by a replacement.
LEMMA StepKeepsFirst ==
    ASSUME RInv, ContactInv, RNext, NEW j \in Jobs, SentOn(j)' \subseteq SystemSent(j)'
    PROVE  SentOn(j)' = {}
<1>1. RTypeOK /\ RTypeOK' /\ Grows
  BY StepGrows, StepKeepsRInv DEF RInv
<1>2. ASSUME NEW d \in Assignments, NEW who \in Senders, SendAs(d, who) PROVE SentOn(j)' = {}
  <2>1. /\ d \notin Sent /\ Sent' = Sent \cup {d}
        /\ sender[d] = None /\ sender' = [sender EXCEPT ![d] = who] /\ replaces' = replaces
    BY <1>1, <1>2, SendAdds
  <2>2. SentOn(j)' = SentOn(j) \cup {e \in {d} : JobOf[e] = j}
    BY <2>1 DEF SentOn, Sent
  <2>3. SystemSent(j)' \subseteq SystemSent(j) \cup {e \in {d} : JobOf[e] = j /\ replaces[e] # None}
    BY <1>1, <2>1 DEF SystemSent, RTypeOK
  <2>4. d \notin SentOn(j) /\ d \notin SystemSent(j)
    BY <2>1, RedispatchAssumption DEF SentOn, Sent, SystemSent, Senders
  <2>5. SentOn(j) \subseteq SystemSent(j)
    BY <2>2, <2>3, <2>4
  <2>6. SentOn(j) = {}
    BY <2>5 DEF ContactInv
  <2>7. CASE JobOf[d] = j
    <3>1. replaces[d] # None
      BY <2>2, <2>3, <2>4, <2>7
    <3> QED  BY <2>6, <2>7, <3>1, ReplacedWasSent
  <2> QED  BY <2>2, <2>6, <2>7
<1>3. CASE Quiet
  <2>1. SentOn(j)' = SentOn(j)
    BY <1>3 DEF Quiet, SentOn
  <2>2. SystemSent(j)' = SystemSent(j)
    BY <1>1, <1>3, RedispatchAssumption DEF Quiet, SystemSent, ContactInv, Grows, Senders
  <2> QED  BY <2>1, <2>2 DEF ContactInv
<1> QED  BY <1>2, <1>3, SendsOrQuiet DEF Sends

LEMMA StepKeepsContact == ASSUME RInv, ContactInv, RNext PROVE ContactInv'
<1> USE RedispatchAssumption
<1>1. RTypeOK /\ RTypeOK' /\ Grows
  BY StepGrows, StepKeepsRInv DEF RInv
<1>2. /\ IsFiniteSet(Sent)'
      /\ \A a \in Assignments : status'[a] \notin Unsent => a \in Sent'
      /\ \A d \in Assignments : sender'[d] # None => d \in Sent' /\ status'[d] # None
  <2>1. ASSUME NEW d \in Assignments, NEW who \in Senders, SendAs(d, who)
        PROVE  /\ IsFiniteSet(Sent')
               /\ \A a \in Assignments : status'[a] \notin Unsent => a \in Sent'
               /\ \A a \in Assignments : sender'[a] # None => a \in Sent' /\ status'[a] # None
    <3>1. /\ Sent' = Sent \cup {d} /\ status' = [status EXCEPT ![d] = "SENT"]
          /\ sender' = [sender EXCEPT ![d] = who]
      BY <1>1, <2>1, SendAdds
    <3>2. IsFiniteSet(Sent')
      BY <3>1, FS_AddElement DEF ContactInv
    <3> QED  BY <1>1, <3>1, <3>2 DEF ContactInv, RTypeOK, Unsent
  <2>2. CASE Quiet
    <3>1. Sent' = Sent
      BY <2>2 DEF Quiet, Sent
    <3>2. \A a \in Assignments : status'[a] \notin Unsent => a \in Sent
      BY <2>2, QuietMoves DEF ContactInv
    <3> QED  BY <1>1, <2>2, <3>1, <3>2 DEF ContactInv, Quiet, Grows
  <2> QED  BY <2>1, <2>2, SendsOrQuiet DEF Sends
<1>3. \A a \in stuck' : status'[a] \notin Unsent
  BY <1>1, StuckGrows DEF ContactInv, Grows, RTypeOK, Unsent
<1>4. ASSUME NEW w \in Workers, stage'[w] = "decline" PROVE status'[cur'[w]] \notin Unsent
  <2>1. WorkerOK(w)
    BY DEF RInv
  <2> QED  BY <1>1, <1>4, <2>1, DeclineBegins DEF ContactInv, Grows, WorkerOK
<1>5. \A d \in Assignments : replaces'[d] # None => JobOf[replaces'[d]] = JobOf[d]
  BY StepKeepsJobs
<1> QED  BY <1>2, <1>3, <1>4, <1>5, StepKeepsFirst DEF ContactInv

LEMMA InitContact == RInit => ContactInv
<1> SUFFICES ASSUME RInit PROVE ContactInv
  OBVIOUS
<1>1. Sent = {} /\ stuck = {} /\ \A j \in Jobs : SentOn(j) = {}
  BY DEF RInit, Init, Sent, SentOn
<1>2. IsFiniteSet(Sent)
  BY <1>1, FS_EmptySet
<1> QED  BY <1>1, <1>2, RedispatchAssumption DEF RInit, Init, ContactInv, Unsent

-----------------------------------------------------------------------------
(* Requests that are on their way to a send. *)

\* Autonomous requests that were decided and have not sent yet.
OnTheWay(j) ==
    {w \in Workers :
        /\ stage[w] \in {"create", "gate", "guard", "ghost", "send"} /\ op[w] # "approve"
        /\ cur[w] # None /\ JobOf[cur[w]] = j}

\* Requests that passed approveRedispatch's guard for a silent vendor.
Approved(a) == {w \in Workers : stage[w] \in {"ghost", "send"} /\ cur[w] = a}

\* Replacements for one silent vendor that an approval or an autonomous flow sent.
FlowSentFor(a) == {d \in Assignments : replaces[d] = a /\ sender[d] \in {"approval", "system"}}

\* Nobody but the request itself changes where it is.
LEMMA WorldMovesNoRequest == ASSUME World PROVE UNCHANGED <<stage, op, cur>>
BY DEF World, ManualDispatch, ManualSend, Respond, OperatorMoves, OperatorSetsJob, Dwell, CoolDown,
       requests

\* An autonomous request gets on its way by a decision under the cap.
LEMMA JoinsByDecision ==
    ASSUME RInv, NEW w \in Workers, Work(w), NEW j, w \in OnTheWay(j)', w \notin OnTheWay(j)
    PROVE  /\ cur[w] \in stuck /\ JobOf[cur[w]] = j /\ Quiet
           /\ Cardinality(SentOn(j)) < MaxAttempts
<1> USE DEF OnTheWay
<1>1. RTypeOK /\ WorkerOK(w)
  BY DEF RInv
<1>2. CASE Decide(w)
  <2>1. cur'[w] # None => UNCHANGED requests
    BY <1>1, <1>2 DEF Decide, Continue, RTypeOK
  <2> QED  BY <1>1, <1>2, <2>1
           DEF Decide, WorkerOK, RTypeOK, requests, rowsOf, links, Quiet, Continue, Goto
<1>3. CASE \/ Gate(w) \/ GuardApproval(w) \/ Ghost(w) \/ SendReplacement(w)
           \/ DeclineCancelled(w) \/ Fail(w) \/ CheckSuggested(w)
  BY <1>1, <1>3 DEF Gate, GuardApproval, Ghost, SendReplacement, DeclineCancelled, Fail,
                    CheckSuggested, Continue, Goto, RTypeOK, requests
<1>4. CASE SelectCandidates(w) \/ ReadCooldowns(w) \/ Stop(w)
  BY <1>1, <1>4 DEF SelectCandidates, Begin, ReadCooldowns, Stop, Goto, RTypeOK
<1>5. ASSUME NEW d \in Assignments, CreateReplacement(w, d) PROVE FALSE
  BY <1>1, <1>5 DEF CreateReplacement, Continue, Goto, RTypeOK
<1>6. ASSUME NEW a \in Assignments,
             \/ NextCandidate(w, a) \/ BeginApprove(w, a) \/ BeginCancel(w, a) \/ BeginDispatch(w, a)
             \/ \E kind \in Ops : BeginOne(w, kind, a)
      PROVE  FALSE
  BY <1>1, <1>6 DEF NextCandidate, BeginApprove, BeginCancel, BeginDispatch, BeginOne, Begin, Goto,
                    WorkerOK, RTypeOK
<1> QED  BY <1>2, <1>3, <1>4, <1>5, <1>6 DEF Work

\* A request passes the guard only while the vendor is SENT.
LEMMA JoinsByGuard ==
    ASSUME RInv, NEW w \in Workers, Work(w), NEW a \in Assignments,
           w \in Approved(a)', w \notin Approved(a)
    PROVE  status[a] = "SENT" /\ status' = status /\ Quiet
<1> USE RedispatchAssumption DEF Approved
<1>1. RTypeOK /\ WorkerOK(w)
  BY DEF RInv
<1>2. CASE GuardApproval(w)
  <2>1. cur'[w] # None => UNCHANGED requests
    BY <1>1, <1>2 DEF GuardApproval, Continue, RTypeOK
  <2> QED  BY <1>1, <1>2, <2>1
           DEF GuardApproval, WorkerOK, RTypeOK, requests, rowsOf, links, Quiet, Continue, Goto
<1>3. CASE \/ Decide(w) \/ Ghost(w) \/ SendReplacement(w)
           \/ DeclineCancelled(w) \/ Fail(w) \/ CheckSuggested(w)
  BY <1>1, <1>3 DEF Decide, Ghost, SendReplacement, DeclineCancelled, Fail,
                    CheckSuggested, Continue, Goto, RTypeOK, requests
<1>4. CASE Gate(w)
  BY <1>1, <1>4 DEF Gate, Continue, Goto, RTypeOK, requests, WorkerOK
<1>5. CASE SelectCandidates(w) \/ ReadCooldowns(w) \/ Stop(w)
  BY <1>1, <1>5 DEF SelectCandidates, Begin, ReadCooldowns, Stop, Goto, RTypeOK
<1>6. ASSUME NEW d \in Assignments, CreateReplacement(w, d) PROVE FALSE
  BY <1>1, <1>6 DEF CreateReplacement, Continue, Goto, RTypeOK
<1>7. ASSUME NEW b \in Assignments,
             \/ NextCandidate(w, b) \/ BeginApprove(w, b) \/ BeginCancel(w, b) \/ BeginDispatch(w, b)
             \/ \E kind \in Ops : BeginOne(w, kind, b)
      PROVE  FALSE
  BY <1>1, <1>7 DEF NextCandidate, BeginApprove, BeginCancel, BeginDispatch, BeginOne, Begin, Goto,
                    RTypeOK
<1> QED  BY <1>2, <1>3, <1>4, <1>5, <1>6, <1>7 DEF Work

\* Of the requests on their way, a step moves its own alone.
LEMMA OnlyItselfJoins ==
    ASSUME RInv, RNext, NEW v \in Workers,
           \/ \E j \in Jobs : v \in OnTheWay(j)' /\ v \notin OnTheWay(j)
           \/ \E a \in Assignments : v \in Approved(a)' /\ v \notin Approved(a)
    PROVE  Work(v)
<1>1. CASE World
  BY <1>1, WorldMovesNoRequest DEF OnTheWay, Approved
<1>2. ASSUME NEW w \in Workers, w # v, Work(w) PROVE FALSE
  BY <1>2, OthersWait DEF OnTheWay, Approved, RInv
<1> QED  BY <1>1, <1>2 DEF RNext

\* What an approval or an autonomous flow sends, a request on its way sends,
\* and it is on its way no longer.
LEMMA FlowSends ==
    ASSUME RInv, RNext, NEW d \in Assignments, NEW who \in {"approval", "system"}, SendAs(d, who)
    PROVE  \E w \in Workers :
              /\ Work(w) /\ stage[w] = "send" /\ new[w] = d /\ replaces[d] = cur[w]
              /\ who = "system" <=> op[w] # "approve"
              /\ \A j : w \notin OnTheWay(j)'
              /\ \A a : w \notin Approved(a)'
<1>1. RTypeOK /\ sender'[d] = who /\ sends[d] = 0 /\ sends'[d] = 1
  BY DEF SendAs, Send, RInv, RTypeOK
<1>2. ASSUME World PROVE FALSE
  <2>1. ASSUME NEW e \in Assignments, ManualSend(e) PROVE FALSE
    BY <1>1, <2>1 DEF ManualSend, SendAs, Send, RTypeOK
  <2> QED  BY <1>1, <1>2, <2>1 DEF World, ManualDispatch, DraftLinked, Draft, Respond,
                    OperatorMoves, Move, OperatorSetsJob, SetJob, Dwell, CoolDown, rowsOf
<1>3. ASSUME NEW w \in Workers, Work(w), ~SendReplacement(w) PROVE FALSE
  BY <1>1, <1>3
     DEF Work, SelectCandidates, ReadCooldowns, CheckSuggested, Decide, Gate, GuardApproval,
         Ghost, DeclineCancelled, Move, Fail, Stop, NextCandidate, CreateReplacement,
         DraftLinked, Draft, BeginApprove, BeginCancel, BeginDispatch, BeginOne, Begin, rowsOf
<1>4. ASSUME NEW w \in Workers, Work(w), SendReplacement(w)
      PROVE  /\ stage[w] = "send" /\ new[w] = d /\ replaces[d] = cur[w]
             /\ who = "system" <=> op[w] # "approve"
             /\ \A j : w \notin OnTheWay(j)'
             /\ \A a : w \notin Approved(a)'
  <2>1. stage[w] = "send" /\ new[w] \in Assignments /\ replaces[new[w]] = cur[w]
    BY <1>4 DEF SendReplacement, RInv, WorkerOK
  <2>2. SendAs(new[w], IF op[w] = "approve" THEN "approval" ELSE "system")
    BY <1>4 DEF SendReplacement
  <2>3. new[w] = d
    BY <1>1, <2>1, <2>2 DEF SendAs, Send, RTypeOK
  <2>4. sender'[d] = IF op[w] = "approve" THEN "approval" ELSE "system"
    BY <1>1, <2>1, <2>2, <2>3 DEF SendAs, RTypeOK
  <2>5. stage'[w] \in {"idle", "next"}
    BY <1>1, <1>4 DEF SendReplacement, Continue, Goto, RTypeOK
  <2>6. who = "system" <=> op[w] # "approve"
    BY <1>1, <2>4
  <2> QED  BY <2>1, <2>3, <2>5, <2>6 DEF OnTheWay, Approved
<1>5. CASE \E w \in Workers : Work(w)
  <2>1. PICK w \in Workers : Work(w)
    BY <1>5
  <2>2. SendReplacement(w)
    BY <1>3, <2>1
  <2> QED  BY <1>4, <2>1, <2>2
<1> QED  BY <1>2, <1>5 DEF RNext

-----------------------------------------------------------------------------
(* Counting: what was sent, and who may still send. *)

Total(S, T) == Cardinality(S) + Cardinality(T)

\* Counts are natural numbers, and smaller sets count no more.
LEMMA TotalShrinks ==
    ASSUME NEW S, IsFiniteSet(S), NEW T, IsFiniteSet(T),
           NEW U \in SUBSET S, NEW V \in SUBSET T
    PROVE  Total(U, V) \in Nat /\ Total(S, T) \in Nat /\ Total(U, V) <= Total(S, T)
<1>1. /\ Cardinality(S) \in Nat /\ Cardinality(T) \in Nat
      /\ IsFiniteSet(U) /\ IsFiniteSet(V)
      /\ Cardinality(U) <= Cardinality(S) /\ Cardinality(V) <= Cardinality(T)
  BY FS_CardinalityType, FS_Subset
<1>2. Cardinality(U) \in Nat /\ Cardinality(V) \in Nat
  BY <1>1, FS_CardinalityType
<1> QED  BY <1>1, <1>2 DEF Total

\* One that leaves T for one that joins S.
LEMMA TotalHandsOver ==
    ASSUME NEW S, IsFiniteSet(S), NEW T, IsFiniteSet(T),
           NEW x, NEW w \in T, NEW U \in SUBSET (S \cup {x}), NEW V \in SUBSET (T \ {w})
    PROVE  Total(U, V) \in Nat /\ Total(S, T) \in Nat /\ Total(U, V) <= Total(S, T)
<1>1. /\ IsFiniteSet(S \cup {x}) /\ IsFiniteSet(T \ {w})
      /\ Cardinality(S) \in Nat /\ Cardinality(T) \in Nat
      /\ Cardinality(S \cup {x}) <= Cardinality(S) + 1
      /\ Cardinality(T \ {w}) = Cardinality(T) - 1
  BY FS_CardinalityType, FS_AddElement, FS_RemoveElement
<1>2. /\ Total(U, V) \in Nat
      /\ Total(U, V) <= Total(S \cup {x}, T \ {w}) /\ Total(S \cup {x}, T \ {w}) \in Nat
  BY <1>1, TotalShrinks
<1>3. Total(S, T) \in Nat
  BY <1>1 DEF Total
<1>4. Cardinality(S \cup {x}) \in Nat /\ Cardinality(T \ {w}) \in Nat
  BY <1>1, FS_CardinalityType
<1>5. Total(S \cup {x}, T \ {w}) <= Total(S, T)
  BY <1>1, <1>4 DEF Total
<1> QED  BY <1>2, <1>3, <1>5

\* The requests there are, and the sets of senders and sent.
LEMMA Counted ==
    ASSUME ContactInv
    PROVE  /\ Cardinality(Workers) \in Nat \ {0}
           /\ \A j : IsFiniteSet(OnTheWay(j)) /\ OnTheWay(j) \subseteq Workers
           /\ \A a : IsFiniteSet(Approved(a)) /\ Approved(a) \subseteq Workers
           /\ \A j : IsFiniteSet(SentOn(j))
           /\ \A j : SystemSent(j) \subseteq SentOn(j) /\ IsFiniteSet(SystemSent(j))
           /\ \A a \in Assignments : IsFiniteSet(FlowSentFor(a))
<1>1. Cardinality(Workers) \in Nat \ {0}
  BY FS_CardinalityType, FS_EmptySet, RedispatchAssumption
<1>2. \A j : OnTheWay(j) \subseteq Workers
  BY DEF OnTheWay
<1>3. \A a : Approved(a) \subseteq Workers
  BY DEF Approved
<1>4. \A j : SentOn(j) \subseteq Sent
  BY DEF SentOn, Sent
<1>5. \A j : SystemSent(j) \subseteq SentOn(j)
  BY RedispatchAssumption DEF SystemSent, SentOn, Sent, ContactInv, Senders
<1>6. \A a \in Assignments : FlowSentFor(a) \subseteq Sent
  BY RedispatchAssumption DEF FlowSentFor, ContactInv, Senders
<1>7. IsFiniteSet(Sent) /\ IsFiniteSet(Workers)
  BY RedispatchAssumption DEF ContactInv
<1>8. \A S, T : IsFiniteSet(S) /\ T \subseteq S => IsFiniteSet(T)
  BY FS_Subset
<1>9. \A j : SystemSent(j) \subseteq Sent
  BY <1>4, <1>5
<1> QED  BY <1>1, <1>2, <1>3, <1>4, <1>5, <1>6, <1>7, <1>8, <1>9

\* What a job's autonomous replacements and the requests on their way to one come
\* to: the last decision was taken one below the cap, by all requests at worst.
AttemptsInv ==
    \A j \in Jobs : Total(SystemSent(j), OnTheWay(j)) <= MaxAttempts + Cardinality(Workers) - 2

\* And for one silent vendor: all requests pass the guard at worst, and none does
\* once the first of them has ghosted it.
ReplacementsInv ==
    /\ \A a \in Assignments : Total(FlowSentFor(a), Approved(a)) <= Cardinality(Workers)
    /\ \A a \in Assignments : FlowSentFor(a) # {} => status[a] \notin Open
    /\ \A w \in Workers : stage[w] = "send" /\ cur[w] # None => status[cur[w]] \notin Open

\* A step that does not send keeps what each flow sent.
LEMMA QuietKeepsFlows ==
    ASSUME RInv, ContactInv, RNext, Quiet
    PROVE  /\ \A j : SystemSent(j)' = SystemSent(j)
           /\ \A a \in Assignments : FlowSentFor(a)' = FlowSentFor(a)
<1>1. Grows
  BY StepGrows
<1> QED  BY <1>1, RedispatchAssumption
         DEF Quiet, Grows, ContactInv, SystemSent, FlowSentFor, Senders

\* A decision under the cap leaves room for the request that took it.
LEMMA DecisionHasRoom ==
    ASSUME RInv, ContactInv, NEW j \in Jobs, NEW a \in stuck, JobOf[a] = j,
           Cardinality(SentOn(j)) < MaxAttempts
    PROVE  Cardinality(SystemSent(j)) + 2 <= MaxAttempts /\ Cardinality(SystemSent(j)) \in Nat
<1>1. a \in SentOn(j)
  BY DEF RInv, RTypeOK, ContactInv, SentOn, Sent
<1>2. SystemSent(j) # SentOn(j)
  BY <1>1 DEF ContactInv
<1>3. IsFiniteSet(SentOn(j)) /\ SystemSent(j) \in SUBSET SentOn(j) /\ IsFiniteSet(SystemSent(j))
  BY Counted
<1>4. /\ Cardinality(SystemSent(j)) <= Cardinality(SentOn(j))
      /\ Cardinality(SystemSent(j)) # Cardinality(SentOn(j))
  BY <1>2, <1>3, FS_Subset
<1>5. Cardinality(SystemSent(j)) \in Nat /\ Cardinality(SentOn(j)) \in Nat
  BY <1>3, FS_CardinalityType
<1> QED  BY <1>4, <1>5, RedispatchAssumption

LEMMA StepKeepsAttempts ==
    ASSUME RInv, ContactInv, AttemptsInv, RNext PROVE AttemptsInv'
<1> SUFFICES ASSUME NEW j \in Jobs
             PROVE  Total(SystemSent(j)', OnTheWay(j)') <= MaxAttempts + Cardinality(Workers) - 2
  BY DEF AttemptsInv, Total
<1> DEFINE N == Cardinality(Workers)
<1>1. /\ RTypeOK /\ N \in Nat \ {0} /\ MaxAttempts \in Nat \ {0}
      /\ Total(SystemSent(j), OnTheWay(j)) <= MaxAttempts + N - 2
      /\ IsFiniteSet(SystemSent(j)) /\ IsFiniteSet(OnTheWay(j))
      /\ IsFiniteSet(Workers) /\ OnTheWay(j)' \subseteq Workers
  BY Counted, RedispatchAssumption DEF RInv, AttemptsInv, OnTheWay
<1> HIDE DEF N
\* Less of both.
<1>2. ASSUME SystemSent(j)' \subseteq SystemSent(j), OnTheWay(j)' \subseteq OnTheWay(j)
      PROVE  Total(SystemSent(j)', OnTheWay(j)') <= MaxAttempts + N - 2
  <2>1. /\ Total(SystemSent(j)', OnTheWay(j)') \in Nat /\ Total(SystemSent(j), OnTheWay(j)) \in Nat
        /\ Total(SystemSent(j)', OnTheWay(j)') <= Total(SystemSent(j), OnTheWay(j))
    BY <1>1, <1>2, TotalShrinks
  <2> QED  BY <1>1, <2>1
\* A request joins by its decision.
<1>3. ASSUME NEW w \in Workers, w \in OnTheWay(j)', w \notin OnTheWay(j)
      PROVE  Total(SystemSent(j)', OnTheWay(j)') <= MaxAttempts + N - 2
  <2>1. /\ cur[w] \in stuck /\ JobOf[cur[w]] = j /\ Quiet
        /\ Cardinality(SentOn(j)) < MaxAttempts
    BY <1>3, OnlyItselfJoins, JoinsByDecision
  <2>2. SystemSent(j)' = SystemSent(j)
    BY <2>1, QuietKeepsFlows
  <2>3. Cardinality(SystemSent(j)) + 2 <= MaxAttempts /\ Cardinality(SystemSent(j)) \in Nat
    BY <2>1, DecisionHasRoom
  <2>4. Cardinality(OnTheWay(j)') \in Nat /\ Cardinality(OnTheWay(j)') <= N
    BY <1>1, FS_Subset, FS_CardinalityType DEF N
  <2>5. Total(SystemSent(j)', OnTheWay(j)') = Cardinality(SystemSent(j)) + Cardinality(OnTheWay(j)')
    BY <2>2 DEF Total
  <2> QED  BY <1>1, <2>3, <2>4, <2>5
\* A replacement of the job is sent by the system.
<1>4. ASSUME NEW d \in Assignments, NEW who \in Senders, SendAs(d, who),
             ~(SystemSent(j)' \subseteq SystemSent(j)), OnTheWay(j)' \subseteq OnTheWay(j)
      PROVE  Total(SystemSent(j)', OnTheWay(j)') <= MaxAttempts + N - 2
  <2>1. sender' = [sender EXCEPT ![d] = who] /\ replaces' = replaces
    BY <1>1, <1>4, SendAdds
  <2>2. SystemSent(j)' \subseteq SystemSent(j) \cup {d}
    BY <1>1, <2>1 DEF SystemSent, RTypeOK
  <2>3. who = "system" /\ replaces[d] # None /\ JobOf[d] = j
    BY <1>1, <1>4, <2>1 DEF SystemSent, RTypeOK
  <2>4. PICK w \in Workers :
             /\ Work(w) /\ stage[w] = "send" /\ new[w] = d /\ replaces[d] = cur[w]
             /\ op[w] # "approve" /\ w \notin OnTheWay(j)'
    BY <1>4, <2>3, FlowSends
  <2>5. w \in OnTheWay(j)
    BY <2>3, <2>4 DEF OnTheWay, ContactInv
  <2>6. OnTheWay(j)' \subseteq OnTheWay(j) \ {w}
    BY <1>4, <2>4
  <2>7. /\ Total(SystemSent(j)', OnTheWay(j)') \in Nat /\ Total(SystemSent(j), OnTheWay(j)) \in Nat
        /\ Total(SystemSent(j)', OnTheWay(j)') <= Total(SystemSent(j), OnTheWay(j))
    BY <1>1, <2>2, <2>5, <2>6, TotalHandsOver
  <2> QED  BY <1>1, <2>7
<1>5. CASE Quiet
  <2>1. SystemSent(j)' = SystemSent(j)
    BY <1>5, QuietKeepsFlows
  <2> QED  BY <1>1, <1>2, <1>3, <2>1 DEF N
<1>6. CASE Sends
  BY <1>1, <1>2, <1>3, <1>4, <1>6 DEF Sends, N
<1> QED  BY <1>5, <1>6, SendsOrQuiet

LEMMA StepKeepsReplacements ==
    ASSUME RInv, ContactInv, ReplacementsInv, RNext PROVE ReplacementsInv'
<1> USE RedispatchAssumption
<1>1. RTypeOK /\ RTypeOK' /\ Grows
  BY StepGrows, StepKeepsRInv DEF RInv
\* A request that sends had ghosted the vendor before.
<1>2. ASSUME NEW w \in Workers, stage'[w] = "send", cur'[w] # None
      PROVE  status'[cur'[w]] \notin Open
  <2>1. CASE stage[w] = "send" /\ cur'[w] = cur[w]
    BY <1>1, <1>2, <2>1 DEF ReplacementsInv, Grows, RTypeOK
  <2>2. CASE ~(stage[w] = "send" /\ cur'[w] = cur[w])
    <3>1. Work(w)
      <4>1. CASE World
        BY <1>2, <2>2, <4>1, WorldMovesNoRequest
      <4>2. ASSUME NEW v \in Workers, v # w, Work(v) PROVE FALSE
        BY <1>1, <1>2, <2>2, <4>2, OthersWait
      <4> QED  BY <4>1, <4>2 DEF RNext
    <3>2. WorkerOK(w)
      BY DEF RInv
    <3>3. Ghost(w)
      BY <1>1, <1>2, <2>2, <3>1, <3>2
         DEF Work, SelectCandidates, ReadCooldowns, CheckSuggested, Decide, Gate, GuardApproval,
             SendReplacement, DeclineCancelled, Fail, Stop, NextCandidate, CreateReplacement,
             BeginApprove, BeginCancel, BeginDispatch, BeginOne, Begin, Continue, Goto, RTypeOK,
             requests, WorkerOK
    <3>4. cur' = cur /\ status'[cur[w]] = "GHOSTED"
      BY <1>1, <3>2, <3>3 DEF Ghost, Move, WorkerOK, RTypeOK, rowsOf, requests
    <3> QED  BY <3>4 DEF Open
  <2> QED  BY <2>1, <2>2
<1>3. ASSUME NEW a \in Assignments
      PROVE  /\ Total(FlowSentFor(a)', Approved(a)') <= Cardinality(Workers)
             /\ FlowSentFor(a)' # {} => status'[a] \notin Open
  <2> DEFINE N == Cardinality(Workers)
  <2>1. /\ N \in Nat \ {0} /\ Total(FlowSentFor(a), Approved(a)) <= N
        /\ IsFiniteSet(FlowSentFor(a)) /\ IsFiniteSet(Approved(a))
        /\ IsFiniteSet(Workers) /\ Approved(a)' \subseteq Workers
        /\ FlowSentFor(a) # {} => status[a] \notin Open
    BY Counted DEF ReplacementsInv, Approved
  <2> HIDE DEF N
  <2>2. ASSUME FlowSentFor(a)' \subseteq FlowSentFor(a), Approved(a)' \subseteq Approved(a)
        PROVE  Total(FlowSentFor(a)', Approved(a)') <= N
    <3>1. /\ Total(FlowSentFor(a)', Approved(a)') \in Nat /\ Total(FlowSentFor(a), Approved(a)) \in Nat
          /\ Total(FlowSentFor(a)', Approved(a)') <= Total(FlowSentFor(a), Approved(a))
      BY <2>1, <2>2, TotalShrinks
    <3> QED  BY <2>1, <3>1
  \* A request passes the guard: nothing was sent for this vendor yet.
  <2>3. ASSUME NEW w \in Workers, w \in Approved(a)', w \notin Approved(a)
        PROVE  Total(FlowSentFor(a)', Approved(a)') <= N
    <3>1. status[a] = "SENT" /\ Quiet
      BY <2>3, OnlyItselfJoins, JoinsByGuard
    <3>2. FlowSentFor(a)' = {}
      BY <2>1, <3>1, QuietKeepsFlows DEF Open
    <3>3. Cardinality(Approved(a)') \in Nat /\ Cardinality(Approved(a)') <= N
      BY <2>1, FS_Subset, FS_CardinalityType DEF N
    <3>4. Cardinality(FlowSentFor(a)') = 0
      BY <3>2, FS_EmptySet
    <3> QED  BY <3>3, <3>4 DEF Total
  \* A replacement is sent by a request that passed it.
  <2>4. ASSUME NEW d \in Assignments, NEW who \in Senders, SendAs(d, who),
               ~(FlowSentFor(a)' \subseteq FlowSentFor(a))
        PROVE  /\ Approved(a)' \subseteq Approved(a) => Total(FlowSentFor(a)', Approved(a)') <= N
               /\ status'[a] \notin Open
    <3>1. sender' = [sender EXCEPT ![d] = who] /\ replaces' = replaces
      BY <1>1, <2>4, SendAdds
    <3>2. FlowSentFor(a)' \subseteq FlowSentFor(a) \cup {d}
      BY <1>1, <3>1 DEF FlowSentFor, RTypeOK
    <3>3. who \in {"approval", "system"} /\ replaces[d] = a
      BY <1>1, <2>4, <3>1 DEF FlowSentFor, RTypeOK
    <3>4. PICK w \in Workers : stage[w] = "send" /\ cur[w] = a /\ w \notin Approved(a)'
      BY <2>4, <3>3, FlowSends
    <3>5. w \in Approved(a)
      BY <3>4 DEF Approved
    <3>6. status'[a] \notin Open
      BY <1>1, <3>4 DEF ReplacementsInv, Grows
    <3>7. ASSUME Approved(a)' \subseteq Approved(a)
          PROVE  Total(FlowSentFor(a)', Approved(a)') <= N
      <4>1. Approved(a)' \subseteq Approved(a) \ {w}
        BY <3>4, <3>7
      <4>2. /\ Total(FlowSentFor(a)', Approved(a)') \in Nat
            /\ Total(FlowSentFor(a), Approved(a)) \in Nat
            /\ Total(FlowSentFor(a)', Approved(a)') <= Total(FlowSentFor(a), Approved(a))
        BY <2>1, <3>2, <3>5, <4>1, TotalHandsOver
      <4> QED  BY <2>1, <4>2
    <3> QED  BY <3>6, <3>7
  <2>5. FlowSentFor(a)' \subseteq FlowSentFor(a) => (FlowSentFor(a)' # {} => status'[a] \notin Open)
    BY <1>1, <2>1 DEF Grows
  <2>6. CASE Quiet
    <3>1. FlowSentFor(a)' = FlowSentFor(a)
      BY <2>6, QuietKeepsFlows
    <3> QED  BY <2>1, <2>2, <2>3, <2>5, <3>1 DEF N
  <2>7. CASE Sends
    BY <2>1, <2>2, <2>3, <2>4, <2>5, <2>7 DEF Sends, N
  <2> QED  BY <2>6, <2>7, SendsOrQuiet
<1>4. \A a \in Assignments : Total(FlowSentFor(a), Approved(a))' <= Cardinality(Workers)
  BY <1>3 DEF Total
<1> QED  BY <1>2, <1>3, <1>4 DEF ReplacementsInv

CountInv == RInv /\ ContactInv /\ AttemptsInv /\ ReplacementsInv

LEMMA InitCounts == RInit => AttemptsInv /\ ReplacementsInv
<1> SUFFICES ASSUME RInit PROVE AttemptsInv /\ ReplacementsInv
  OBVIOUS
<1>1. /\ \A j : SystemSent(j) = {} /\ OnTheWay(j) = {}
      /\ \A a \in Assignments : FlowSentFor(a) = {} /\ Approved(a) = {}
      /\ \A w \in Workers : stage[w] # "send"
  BY RedispatchAssumption DEF RInit, SystemSent, OnTheWay, FlowSentFor, Approved, Senders
<1>2. Total({}, {}) = 0
  BY FS_EmptySet DEF Total
<1>3. Cardinality(Workers) \in Nat \ {0} /\ MaxAttempts \in Nat \ {0}
  BY InitContact, Counted, RedispatchAssumption
<1>4. /\ \A j : Total(SystemSent(j), OnTheWay(j)) = 0
      /\ \A a \in Assignments : Total(FlowSentFor(a), Approved(a)) = 0
  BY <1>1, <1>2, Zenon
<1>5. 0 <= MaxAttempts + Cardinality(Workers) - 2 /\ 0 <= Cardinality(Workers)
  BY <1>3
<1>6. AttemptsInv
  BY <1>4, <1>5, Zenon DEF AttemptsInv
<1>7. ReplacementsInv
  BY <1>1, <1>4, <1>5, Zenon DEF ReplacementsInv
<1> QED  BY <1>6, <1>7

LEMMA CountStutters == ASSUME CountInv, UNCHANGED rvars PROVE CountInv'
<1>1. RInv'
  BY RInvStutters DEF CountInv
<1>2. UNCHANGED <<status, sends, replaces, sender, stuck, stage, op, cur>>
  BY DEF rvars, rowsOf, links, clocks, requests
<1>3. /\ Sent' = Sent
      /\ \A j : SentOn(j)' = SentOn(j) /\ SystemSent(j)' = SystemSent(j)
      /\ \A j : OnTheWay(j)' = OnTheWay(j)
      /\ \A a : FlowSentFor(a)' = FlowSentFor(a) /\ Approved(a)' = Approved(a)
  BY <1>2 DEF Sent, SentOn, SystemSent, OnTheWay, FlowSentFor, Approved
<1>4. ContactInv'
  BY <1>2, <1>3 DEF CountInv, ContactInv
<1>5. AttemptsInv' /\ ReplacementsInv'
  BY <1>2, <1>3 DEF CountInv, AttemptsInv, ReplacementsInv, Total
<1> QED  BY <1>1, <1>4, <1>5 DEF CountInv

\* What the counting arguments rest on: who was contacted, and that what the system
\* sent on a job, or for a silent vendor, plus the requests that may still send there
\* never exceed what the cap and the number of requests allow.
THEOREM CountInvariance == RSpec => []CountInv
<1>1. RInit => CountInv
  BY InitRInv, InitContact, InitCounts DEF CountInv
<1>2. CountInv /\ [RNext]_rvars => CountInv'
  BY CountStutters, StepKeepsRInv, StepKeepsContact, StepKeepsAttempts, StepKeepsReplacements
     DEF CountInv
<1> QED  BY <1>1, <1>2, PTL DEF RSpec

-----------------------------------------------------------------------------
(* What the flows may send, and how far requests that overlap overshoot it. *)

\* One replacement too many for every request but the first.
ReplacedOncePerRequest ==
    \A a \in Assignments : Cardinality(FlowSentFor(a)) <= Cardinality(Workers)

AutonomyOvershoot ==
    \A j \in Jobs :
        Cardinality(SystemSent(j)) < MaxAttempts + Cardinality(Workers) - 1

LEMMA CountsBound == ASSUME CountInv PROVE ReplacedOncePerRequest /\ AutonomyOvershoot
<1> DEFINE N == Cardinality(Workers)
<1>1. N \in Nat \ {0} /\ MaxAttempts \in Nat \ {0}
  BY Counted, RedispatchAssumption DEF CountInv
<1> HIDE DEF N
<1>2. ASSUME NEW a \in Assignments PROVE Cardinality(FlowSentFor(a)) <= N
  <2>1. /\ Cardinality(FlowSentFor(a)) \in Nat /\ Cardinality(Approved(a)) \in Nat
    BY Counted, FS_CardinalityType DEF CountInv
  <2>2. Cardinality(FlowSentFor(a)) + Cardinality(Approved(a)) <= N
    BY DEF CountInv, ReplacementsInv, Total, N
  <2> QED  BY <1>1, <2>1, <2>2
<1>3. ASSUME NEW j \in Jobs PROVE Cardinality(SystemSent(j)) < MaxAttempts + N - 1
  <2>1. /\ Cardinality(SystemSent(j)) \in Nat /\ Cardinality(OnTheWay(j)) \in Nat
    BY Counted, FS_CardinalityType DEF CountInv
  <2>2. Cardinality(SystemSent(j)) + Cardinality(OnTheWay(j)) <= MaxAttempts + N - 2
    BY DEF CountInv, AttemptsInv, Total, N
  <2> QED  BY <1>1, <2>1, <2>2
<1> QED  BY <1>2, <1>3 DEF ReplacedOncePerRequest, AutonomyOvershoot, N

\* With n requests at once a silent vendor is replaced at most n times: each passes
\* approveRedispatch's guard at most once before the first of them ghosts it.
THEOREM OneReplacementPerRequest == RSpec => []ReplacedOncePerRequest
BY CountInvariance, CountsBound, PTL

\* With n requests at once the system by itself sends fewer than MaxAttempts + n - 1
\* replacements on a job: what operators send besides only lowers the count.
THEOREM AutonomyOvershootBounded == RSpec => []AutonomyOvershoot
BY CountInvariance, CountsBound, PTL

LEMMA AloneIsOne == ASSUME \A v, w \in Workers : v = w PROVE Cardinality(Workers) = 1
<1>1. PICK w : Workers = {w}
  BY RedispatchAssumption
<1>2. Cardinality({w}) = 1
  BY FS_Singleton
<1> QED  BY <1>1, <1>2, Zenon

\* One request at a time sends at most one replacement for a silent vendor.  The
\* hypothesis is needed: two sweeps at once break it.
THEOREM OneReplacementAlone ==
    ASSUME \A v, w \in Workers : v = w
    PROVE  RSpec => []ReplacedOnce
<1>1. ReplacedOncePerRequest => ReplacedOnce
  BY AloneIsOne DEF ReplacedOncePerRequest, ReplacedOnce, FlowSentFor
<1> QED  BY <1>1, OneReplacementPerRequest, PTL

\* One request at a time keeps the system's own replacements of a job below the
\* cap on vendors contacted, the first vendor included, whatever operators send.
THEOREM AutonomyBoundedAlone ==
    ASSUME \A v, w \in Workers : v = w
    PROVE  RSpec => []AutonomyBounded
<1>1. ASSUME AutonomyOvershoot, NEW j \in Jobs PROVE Cardinality(SystemSent(j)) < MaxAttempts
  <2>1. Cardinality(SystemSent(j)) < MaxAttempts + 1 - 1
    BY <1>1, AloneIsOne DEF AutonomyOvershoot
  <2> QED  BY <2>1, RedispatchAssumption
<1>2. AutonomyOvershoot => AutonomyBounded
  BY <1>1 DEF AutonomyBounded, SystemSent
<1> QED  BY <1>2, AutonomyOvershootBounded, PTL

=============================================================================
