------------------------ MODULE ProposalPublishing_proofs ------------------------
(***************************************************************************)
(* Proofs about ProposalPublishing.  Every publishing step is a step of    *)
(* the proposal data layer or leaves it alone (PublishingUsesProposals),   *)
(* so all that is proved of Proposals holds here.  The publication itself  *)
(* rests on what a publisher remembers across its transactions: its draft  *)
(* was approved with priced content, which no later step takes back.       *)
(***************************************************************************)
EXTENDS ProposalPublishing, Proposals_proofs

\* What a request in progress knows of its draft and of its proposal.
Remembers ==
    \A o \in Operators :
        /\ stage[o] # "idle" => /\ draft[o] \in Drafts
                                /\ draftStatus[draft[o]] # None
        /\ stage[o] \in {"create", "lines"} =>
              /\ draftStatus[draft[o]] # "pending_review"
              /\ content[draft[o]] > 0
              /\ gate[o] \in Kinds
              /\ gate[o] = "internal" => content[draft[o]] <= Nte
        /\ stage[o] = "lines" => made[o] \in Ids /\ status[made[o]] # None

PubIInv == PubTypeOK /\ Remembers /\ PublishedOnce /\ BilledOnlyByPublication

-----------------------------------------------------------------------------
(* The data layer underneath. *)

\* A step of the composed system is one of the data layer, or none of its business.
LEMMA PubStepIsStep == IInv /\ PubIInv /\ [PubNext]_pubVars => [Next]_vars
<1> SUFFICES ASSUME IInv, PubIInv, [PubNext]_pubVars PROVE [Next]_vars
  OBVIOUS
<1>1. CASE Office
  <2>1. ASSUME NEW p \in Ids, CreateProposal(p, "client") \/ Edit(p) PROVE Next
    BY <2>1 DEF Next, Kinds
  <2>2. ASSUME NEW s \in Sessions, Supersede(s) PROVE Next
    BY <2>2 DEF Next
  <2> QED
    BY <1>1, <2>1, <2>2 DEF Office
<1>2. ASSUME NEW d \in Drafts, Review(d) PROVE UNCHANGED vars
  BY <1>2 DEF Review, CreateProposalDraft, CreateProposalReview
<1>3. ASSUME NEW o \in Operators, NEW p \in Ids, Materialize(o, p) PROVE Next
  <2>1. gate[o] \in Kinds
    BY <1>3 DEF Materialize, PubIInv, Remembers
  <2> QED
    BY <1>3, <2>1 DEF Materialize, Next
<1>4. ASSUME NEW o \in Operators, AddLine(o) PROVE Next
  <2>1. made[o] \in Ids
    BY <1>4 DEF AddLine, PubIInv, Remembers
  <2>2. total[made[o]] + 1 \in 0..MaxTotal
    BY <1>4, <2>1, ProposalAssumption DEF AddLine, IInv, TypeOK
  <2> QED
    BY <1>4, <2>1, <2>2 DEF AddLine, Edit, Next
<1>5. ASSUME NEW o \in Operators, Finalize(o) PROVE [Next]_vars
  <2>1. made[o] \in Ids
    BY <1>5 DEF Finalize, PubIInv, Remembers
  <2> QED
    BY <1>5, <2>1 DEF Finalize, Next
<1>6. ASSUME NEW o \in Operators,
             \/ \E d \in Drafts : BeginDiscard(o, d) \/ \E f \in BOOLEAN : BeginPublish(o, d, f)
             \/ DiscardProposalDraft(o) \/ Fail(o)
      PROVE  UNCHANGED vars
  BY <1>6 DEF BeginDiscard, BeginPublish, DiscardProposalDraft, Fail
<1>7. CASE UNCHANGED pubVars
  BY <1>7 DEF pubVars
<1> QED
  BY <1>1, <1>2, <1>3, <1>4, <1>5, <1>6, <1>7 DEF PubNext, Publish

\* Rows never disappear.
LEMMA RowsStay ==
    ASSUME TypeOK, RevisersOK, [Next]_vars, NEW q \in Ids
    PROVE  status[q] # None => status'[q] # None
<1> USE DEF TypeOK
<1>1. ASSUME NEW p \in Ids, \E k \in Kinds : CreateProposal(p, k)
      PROVE  status'[q] = status[q] \/ status'[q] = "draft"
  BY <1>1 DEF CreateProposal
<1>2. ASSUME NEW p \in Ids, NEW t \in 0..MaxTotal, EditDraft(p, t) PROVE status' = status
  BY <1>2 DEF EditDraft
<1>3. ASSUME NEW p \in Ids, SendProposal(p) PROVE status'[q] \in {status[q], "sent"}
  BY <1>3 DEF SendProposal, SetStatus
<1>4. ASSUME NEW p \in Ids, WithdrawProposal(p) PROVE status'[q] \in {status[q], "withdrawn"}
  BY <1>4 DEF WithdrawProposal, SetStatus
<1>5. ASSUME NEW p \in Ids, NEW d \in Decisions, RecordProposalAcceptance(p, d)
      PROVE  status'[q] = status[q] \/ status'[q] \in Decisions
  BY <1>5 DEF RecordProposalAcceptance, SetStatus
<1>6. ASSUME NEW p \in Ids, BillInternally(p)
      PROVE  status'[q] = status[q] \/ (q = p /\ status'[q] = "internal_billed")
  BY <1>6 DEF BillInternally, SetStatus
<1>7. ASSUME NEW s \in Sessions, NEW p \in Ids, CommitRevision(s, p)
      PROVE  status'[q] \in {status[q], "draft", "superseded"}
  <2>1. prior[s] \in Ids
    BY <1>7 DEF CommitRevision, RevisersOK
  <2> QED
    BY <1>7, <2>1 DEF CommitRevision
<1>8. ASSUME NEW s \in Sessions,
             \/ \E p \in Ids : Revise(s, p)
             \/ LockRoot(s) \/ ReadChain(s) \/ ReadPrior(s) \/ InsertRevision(s) \/ Abandon(s)
      PROVE  status' = status
  BY <1>8 DEF Revise, LockRoot, ReadChain, ReadPrior, InsertRevision, Abandon, rows
<1>9. CASE UNCHANGED vars
  BY <1>9 DEF vars, rows
<1>10. "internal_billed" # None /\ "withdrawn" # None /\ "superseded" # None /\ "draft" # None
       /\ "sent" # None /\ None \notin Decisions
  BY Words DEF Statuses, Decisions
<1> QED
  BY <1>1, <1>2, <1>3, <1>4, <1>5, <1>6, <1>7, <1>8, <1>9, <1>10
     DEF Next, Edit, Supersede

\* The office's own steps bill nothing.
LEMMA OfficeBillsNothing ==
    ASSUME IInv, NEW q \in Ids,
           \/ Office
           \/ \E p \in Ids, k \in Kinds : CreateProposal(p, k)
           \/ \E p \in Ids, t \in Nat : EditDraft(p, t)
    PROVE  status'[q] = "internal_billed" => status[q] = "internal_billed"
<1> USE DEF IInv, TypeOK
<1>1. ASSUME NEW p \in Ids, \E k \in Kinds : CreateProposal(p, k)
      PROVE  status'[q] = "internal_billed" => status[q] = "internal_billed"
  BY <1>1 DEF CreateProposal
<1>2. ASSUME NEW p \in Ids, Edit(p) \/ \E t \in Nat : EditDraft(p, t)
      PROVE  status'[q] = "internal_billed" => status[q] = "internal_billed"
  BY <1>2 DEF Edit, EditDraft, SendProposal, WithdrawProposal, RecordProposalAcceptance,
              SetStatus, Decisions
<1>3. ASSUME NEW s \in Sessions, Supersede(s)
      PROVE  status'[q] = "internal_billed" => status[q] = "internal_billed"
  <2>1. ASSUME NEW p \in Ids, CommitRevision(s, p)
        PROVE  status'[q] = "internal_billed" => status[q] = "internal_billed"
    <3>1. prior[s] \in Ids
      BY <2>1 DEF CommitRevision, RevisersOK
    <3> QED
      BY <2>1, <3>1 DEF CommitRevision
  <2> QED
    BY <1>3, <2>1 DEF Supersede, Revise, LockRoot, ReadChain, ReadPrior, InsertRevision, Abandon, rows
<1> QED
  BY <1>1, <1>2, <1>3 DEF Office, Kinds

-----------------------------------------------------------------------------
(* The publication. *)

\* The initial state satisfies the invariant.
LEMMA InitPub == PubInit => IInv /\ PubIInv
<1> SUFFICES ASSUME PubInit PROVE IInv /\ PubIInv
  OBVIOUS
<1>1. IInv
  BY InitIInv DEF PubInit
<1>2. PubTypeOK
  BY <1>1 DEF PubInit, PubTypeOK, IInv
<1>3. Remembers
  BY DEF PubInit, Remembers
<1>4. PublishedOnce
  BY PublishingAssumption DEF PubInit, PublishedOnce, DraftStatuses
<1>5. BilledOnlyByPublication
  BY ProposalAssumption DEF PubInit, Init, BilledOnlyByPublication, Statuses
<1> QED
  BY <1>1, <1>2, <1>3, <1>4, <1>5 DEF PubIInv

\* Every step keeps it.
LEMMA PubStep ==
    ASSUME IInv, IInv', PubIInv, [PubNext]_pubVars
    PROVE  PubIInv'
<1> USE DEF PubIInv
<1>1. [Next]_vars
  BY PubStepIsStep
<1>2. \A q \in Ids : status[q] # None => status'[q] # None
  BY <1>1, RowsStay DEF IInv
<1>3. /\ DraftStatuses = {"pending_review", "approved", "rejected", "discarded", "published"}
      /\ None \notin DraftStatuses
  BY PublishingAssumption DEF DraftStatuses, Disposable
<1>4. TypeOK'
  BY DEF IInv
\* A step that changes no draft and no request, and bills nothing.
<1>5. ASSUME UNCHANGED draftRows,
             \A q \in Ids : status'[q] = "internal_billed" => status[q] = "internal_billed"
      PROVE  PublishedOnce' /\ BilledOnlyByPublication'
  <2>1. PublishedOnce'
    BY <1>2, <1>5 DEF PublishedOnce, draftRows, PubTypeOK
  <2>2. BilledOnlyByPublication'
    BY <1>5 DEF BilledOnlyByPublication, draftRows
  <2> QED
    BY <2>1, <2>2
<1>6. CASE Office
  <2>1. PublishedOnce' /\ BilledOnlyByPublication'
    BY <1>5, <1>6, OfficeBillsNothing DEF Office
  <2>2. PubTypeOK'
    BY <1>4, <1>6 DEF Office, PubTypeOK, draftRows, publishers
  <2>3. Remembers'
    BY <1>2, <1>6 DEF Office, Remembers, draftRows, publishers
  <2> QED
    BY <2>1, <2>2, <2>3
<1>7. ASSUME NEW d \in Drafts, CreateProposalDraft(d) PROVE PubIInv'
  <2>1. /\ draftStatus[d] = None
        /\ draftStatus' = [draftStatus EXCEPT ![d] = "pending_review"]
        /\ UNCHANGED <<status, content, published, stage, draft, gate, made, left>>
    BY <1>7 DEF CreateProposalDraft, publishers, vars, rows
  <2>2. PubTypeOK'
    BY <1>3, <1>4, <2>1 DEF PubTypeOK
  <2>3. Remembers'
    BY <1>3, <2>1 DEF Remembers, PubTypeOK
  <2>4. PublishedOnce'
    BY <1>3, <2>1 DEF PublishedOnce, PubTypeOK
  <2>5. BilledOnlyByPublication'
    BY <2>1 DEF BilledOnlyByPublication
  <2> QED
    BY <2>2, <2>3, <2>4, <2>5
<1>8. ASSUME NEW d \in Drafts, NEW to \in {"approved", "rejected"}, NEW c \in 0..MaxTotal,
             CreateProposalReview(d, to, c)
      PROVE  PubIInv'
  <2>1. /\ draftStatus[d] = "pending_review" /\ published[d] = None
        /\ draftStatus' = [draftStatus EXCEPT ![d] = to]
        /\ content' = [content EXCEPT ![d] = IF to = "approved" THEN c ELSE 0]
        /\ UNCHANGED <<status, published, stage, draft, gate, made, left>>
    BY <1>8 DEF CreateProposalReview, publishers, vars, rows, PublishedOnce
  <2>2. c \in Nat /\ to \in DraftStatuses
    BY <1>3, ProposalAssumption
  <2>3. PubTypeOK'
    BY <1>4, <2>1, <2>2 DEF PubTypeOK
  <2>4. Remembers'
    <3> SUFFICES ASSUME NEW o \in Operators
                 PROVE  /\ stage[o] # "idle" => draft[o] \in Drafts /\ draftStatus'[draft[o]] # None
                        /\ stage[o] \in {"create", "lines"} =>
                              /\ draftStatus'[draft[o]] # "pending_review"
                              /\ content'[draft[o]] > 0
                              /\ gate[o] \in Kinds
                              /\ gate[o] = "internal" => content'[draft[o]] <= Nte
                        /\ stage[o] = "lines" => made[o] \in Ids /\ status[made[o]] # None
      BY <2>1 DEF Remembers
    <3>1. stage[o] \in {"create", "lines"} => draft[o] \in Drafts \ {d}
      BY <2>1 DEF Remembers
    <3> QED
      BY <1>3, <2>1, <2>2, <3>1 DEF Remembers, PubTypeOK
  <2>5. PublishedOnce'
    BY <2>1 DEF PublishedOnce, PubTypeOK
  <2>6. BilledOnlyByPublication'
    <3> SUFFICES ASSUME NEW p \in Ids, status[p] = "internal_billed"
                 PROVE  \E e \in Drafts : published[e] = p /\ content'[e] \in 1..Nte
      BY <2>1 DEF BilledOnlyByPublication
    <3>1. PICK e \in Drafts : published[e] = p /\ content[e] \in 1..Nte
      BY DEF BilledOnlyByPublication
    <3>2. e # d
      BY <2>1, <3>1, ProposalAssumption
    <3> QED
      BY <2>1, <3>1, <3>2 DEF PubTypeOK
  <2> QED
    BY <2>3, <2>4, <2>5, <2>6
\* What a request forgets when it ends.
<1>9. ASSUME NEW o \in Operators, End(o),
             \A d \in Drafts : draftStatus[d] \notin {None, "pending_review"}
                                 => draftStatus'[d] \notin {None, "pending_review"},
             \A d \in Drafts : draftStatus[d] # None => draftStatus'[d] # None,
             content' = content
      PROVE  /\ Remembers'
             /\ stage' \in [Operators -> {"idle", "discard", "create", "lines"}]
             /\ draft' \in [Operators -> Drafts \cup {None}]
             /\ gate' \in [Operators -> Kinds \cup {None}]
             /\ made' \in [Operators -> Ids \cup {None}]
             /\ left' \in [Operators -> Nat]
  <2>1. /\ stage'[o] = "idle"
        /\ \A x \in Operators \ {o} :
              /\ stage'[x] = stage[x] /\ draft'[x] = draft[x]
              /\ gate'[x] = gate[x] /\ made'[x] = made[x]
    BY <1>9 DEF End, PubTypeOK
  <2>2. Remembers'
    <3> SUFFICES ASSUME NEW x \in Operators
                 PROVE  /\ stage'[x] # "idle" => draft'[x] \in Drafts /\ draftStatus'[draft'[x]] # None
                        /\ stage'[x] \in {"create", "lines"} =>
                              /\ draftStatus'[draft'[x]] # "pending_review"
                              /\ content'[draft'[x]] > 0
                              /\ gate'[x] \in Kinds
                              /\ gate'[x] = "internal" => content'[draft'[x]] <= Nte
                        /\ stage'[x] = "lines" => made'[x] \in Ids /\ status'[made'[x]] # None
      BY DEF Remembers
    <3>1. CASE x = o
      BY <2>1, <3>1
    <3>2. CASE x # o
      BY <1>2, <1>9, <2>1, <3>2 DEF Remembers
    <3> QED
      BY <3>1, <3>2
  <2> QED
    BY <1>9, <2>2 DEF End, PubTypeOK
<1>10. ASSUME NEW o \in Operators, Fail(o) PROVE PubIInv'
  <2>1. UNCHANGED <<vars, draftRows>> /\ End(o)
    BY <1>10 DEF Fail
  <2>2. UNCHANGED <<draftStatus, content, published, status>>
    BY <2>1 DEF draftRows, vars, rows
  <2>3. PublishedOnce' /\ BilledOnlyByPublication'
    BY <1>5, <2>1, <2>2
  <2> QED
    BY <1>4, <1>9, <2>1, <2>2, <2>3 DEF PubTypeOK
<1>11. ASSUME NEW o \in Operators, DiscardProposalDraft(o) PROVE PubIInv'
  <2>1. /\ draft[o] \in Drafts /\ draftStatus[draft[o]] # None
        /\ draftStatus' = [draftStatus EXCEPT ![draft[o]] = "discarded"]
        /\ UNCHANGED <<status, content, published>> /\ End(o)
    BY <1>11 DEF DiscardProposalDraft, Remembers, vars, rows
  <2>2. draftStatus' \in [Drafts -> DraftStatuses \cup {None}]
    BY <1>3, <2>1 DEF PubTypeOK
  <2>3. PublishedOnce'
    BY <2>1 DEF PublishedOnce, PubTypeOK
  <2>4. BilledOnlyByPublication'
    BY <2>1 DEF BilledOnlyByPublication
  <2> QED
    BY <1>3, <1>4, <1>9, <2>1, <2>2, <2>3, <2>4 DEF PubTypeOK
<1>12. ASSUME NEW o \in Operators, Finalize(o) PROVE PubIInv'
  <2> DEFINE d == draft[o]  p == made[o]
  <2>1. /\ d \in Drafts /\ draftStatus[d] = "approved" /\ published[d] = None
        /\ p \in Ids /\ status[p] # None /\ p # None
        /\ content[d] > 0
        /\ gate[o] = "internal" => content[d] <= Nte
        /\ draftStatus' = [draftStatus EXCEPT ![d] = "published"]
        /\ published' = [published EXCEPT ![d] = p]
        /\ content' = content /\ End(o)
    BY <1>12, ProposalAssumption DEF Finalize, StillPublishable, Remembers
  <2>2. \A q \in Ids : status'[q] = "internal_billed" =>
           \/ status[q] = "internal_billed"
           \/ q = p /\ gate[o] = "internal"
    BY <1>12 DEF Finalize, BillInternally, SetStatus, vars, rows, PubTypeOK, TypeOK
  <2>3. /\ draftStatus' \in [Drafts -> DraftStatuses \cup {None}]
        /\ published' \in [Drafts -> Ids \cup {None}]
    BY <1>3, <2>1 DEF PubTypeOK
  <2>4. PublishedOnce'
    <3> SUFFICES ASSUME NEW e \in Drafts
                 PROVE  /\ draftStatus'[e] = "published" => published'[e] # None
                        /\ published'[e] # None =>
                              /\ draftStatus'[e] \in {"published", "discarded"}
                              /\ content'[e] > 0
                              /\ status'[published'[e]] # None
      BY DEF PublishedOnce
    <3>1. CASE e = d
      <4>1. draftStatus'[d] = "published" /\ published'[d] = p
        BY <2>1 DEF PubTypeOK
      <4> QED
        BY <1>2, <2>1, <3>1, <4>1
    <3>2. CASE e # d
      <4>1. draftStatus'[e] = draftStatus[e] /\ published'[e] = published[e] /\ content'[e] = content[e]
        BY <2>1, <3>2
      <4>2. published[e] # None => published[e] \in Ids
        BY DEF PubTypeOK
      <4> QED
        BY <1>2, <4>1, <4>2 DEF PublishedOnce
    <3> QED
      BY <3>1, <3>2
  <2>5. BilledOnlyByPublication'
    <3> SUFFICES ASSUME NEW q \in Ids, status'[q] = "internal_billed"
                 PROVE  \E e \in Drafts : published'[e] = q /\ content[e] \in 1..Nte
      BY <2>1 DEF BilledOnlyByPublication
    <3>1. CASE status[q] = "internal_billed"
      <4>1. PICK e \in Drafts : published[e] = q /\ content[e] \in 1..Nte
        BY <3>1 DEF BilledOnlyByPublication
      <4>2. e # d
        BY <2>1, <4>1, ProposalAssumption
      <4> QED
        BY <2>1, <4>1, <4>2
    <3>2. CASE q = p /\ gate[o] = "internal"
      <4>1. content[d] \in 1..Nte
        BY <2>1, <3>2, PublishingAssumption DEF PubTypeOK
      <4>2. published'[d] = q
        BY <2>1, <3>2 DEF PubTypeOK
      <4> QED
        BY <2>1, <4>1, <4>2
    <3> QED
      BY <2>2, <3>1, <3>2
  <2>6. \A e \in Drafts :
           /\ draftStatus[e] \notin {None, "pending_review"}
                => draftStatus'[e] \notin {None, "pending_review"}
           /\ draftStatus[e] # None => draftStatus'[e] # None
    BY <1>3, <2>1 DEF PubTypeOK
  <2>7. content' \in [Drafts -> Nat]
    BY <2>1 DEF PubTypeOK
  <2> QED
    BY <1>4, <1>9, <2>1, <2>3, <2>4, <2>5, <2>6, <2>7 DEF PubTypeOK
<1>13. ASSUME NEW o \in Operators, NEW d \in Drafts, BeginDiscard(o, d) PROVE PubIInv'
  <2>1. /\ draftStatus[d] # None
        /\ stage' = [stage EXCEPT ![o] = "discard"]
        /\ draft' = [draft EXCEPT ![o] = d]
        /\ UNCHANGED <<status, draftStatus, content, published, gate, made, left>>
    BY <1>3, <1>13 DEF BeginDiscard, Disposable, draftRows, vars, rows
  <2>2. PublishedOnce' /\ BilledOnlyByPublication'
    BY <1>5, <2>1 DEF draftRows
  <2>3. PubTypeOK'
    BY <1>4, <2>1 DEF PubTypeOK
  <2>4. Remembers'
    BY <2>1 DEF Remembers, PubTypeOK
  <2> QED
    BY <2>2, <2>3, <2>4
<1>14. ASSUME NEW o \in Operators, NEW d \in Drafts, NEW forced \in BOOLEAN, BeginPublish(o, d, forced)
       PROVE  PubIInv'
  <2>1. /\ draftStatus[d] = "approved" /\ content[d] > 0 /\ content[d] \in Nat
        /\ stage' = [stage EXCEPT ![o] = "create"]
        /\ draft' = [draft EXCEPT ![o] = d]
        /\ gate' = [gate EXCEPT ![o] = IF forced \/ content[d] > Nte THEN "client" ELSE "internal"]
        /\ left' = [left EXCEPT ![o] = content[d]]
        /\ UNCHANGED <<status, draftStatus, content, published, made>>
    BY <1>14 DEF BeginPublish, draftRows, vars, rows, PubTypeOK
  <2>2. PublishedOnce' /\ BilledOnlyByPublication'
    BY <1>5, <2>1 DEF draftRows
  <2>3. PubTypeOK'
    BY <1>4, <2>1 DEF PubTypeOK, Kinds
  <2>4. Remembers'
    <3> SUFFICES ASSUME NEW x \in Operators
                 PROVE  /\ stage'[x] # "idle" => draft'[x] \in Drafts /\ draftStatus'[draft'[x]] # None
                        /\ stage'[x] \in {"create", "lines"} =>
                              /\ draftStatus'[draft'[x]] # "pending_review"
                              /\ content'[draft'[x]] > 0
                              /\ gate'[x] \in Kinds
                              /\ gate'[x] = "internal" => content'[draft'[x]] <= Nte
                        /\ stage'[x] = "lines" => made'[x] \in Ids /\ status'[made'[x]] # None
      BY DEF Remembers
    <3>1. CASE x = o
      <4>1. stage'[o] = "create" /\ draft'[o] = d
            /\ gate'[o] = IF forced \/ content[d] > Nte THEN "client" ELSE "internal"
        BY <2>1 DEF PubTypeOK
      <4>2. gate'[o] = "internal" => content[d] <= Nte
        BY <2>1, <4>1, PublishingAssumption
      <4> QED
        BY <1>3, <2>1, <3>1, <4>1, <4>2 DEF Kinds
    <3>2. CASE x # o
      BY <2>1, <3>2 DEF Remembers
    <3> QED
      BY <3>1, <3>2
  <2> QED
    BY <2>2, <2>3, <2>4
<1>15. ASSUME NEW o \in Operators, NEW p \in Ids, Materialize(o, p) PROVE PubIInv'
  <2>1. /\ stage[o] = "create" /\ CreateProposal(p, gate[o]) /\ gate[o] \in Kinds
        /\ stage' = [stage EXCEPT ![o] = "lines"]
        /\ made' = [made EXCEPT ![o] = p]
        /\ UNCHANGED <<draftStatus, content, published, draft, gate, left>>
    BY <1>15 DEF Materialize, draftRows, Remembers
  <2>2. PublishedOnce' /\ BilledOnlyByPublication'
    BY <1>5, <2>1, OfficeBillsNothing DEF draftRows
  <2>3. PubTypeOK'
    BY <1>4, <2>1 DEF PubTypeOK
  <2>4. status'[p] # None
    BY <2>1, Words DEF CreateProposal, PubTypeOK, TypeOK
  <2>5. Remembers'
    BY <1>2, <2>1, <2>4 DEF Remembers, PubTypeOK
  <2> QED
    BY <2>2, <2>3, <2>5
<1>16. ASSUME NEW o \in Operators, AddLine(o) PROVE PubIInv'
  <2>1. /\ left[o] \in Nat /\ left[o] > 0 /\ made[o] \in Ids
        /\ EditDraft(made[o], total[made[o]] + 1) /\ total[made[o]] + 1 \in Nat
        /\ left' = [left EXCEPT ![o] = left[o] - 1]
        /\ UNCHANGED <<draftStatus, content, published, stage, draft, gate, made>>
    BY <1>16 DEF AddLine, draftRows, Remembers, PubTypeOK, TypeOK
  <2>2. PublishedOnce' /\ BilledOnlyByPublication'
    BY <1>5, <2>1, OfficeBillsNothing DEF draftRows
  <2>3. PubTypeOK'
    BY <1>4, <2>1 DEF PubTypeOK
  <2>4. Remembers'
    BY <1>2, <2>1 DEF Remembers
  <2> QED
    BY <2>2, <2>3, <2>4
<1>17. CASE UNCHANGED pubVars
  <2>1. UNCHANGED <<status, draftRows, publishers>>
    BY <1>17 DEF pubVars, vars, rows
  <2>2. PublishedOnce' /\ BilledOnlyByPublication'
    BY <1>5, <2>1
  <2> QED
    BY <1>4, <2>1, <2>2 DEF PubTypeOK, Remembers, draftRows, publishers
<1> QED
  BY <1>6, <1>7, <1>8, <1>10, <1>11, <1>12, <1>13, <1>14, <1>15, <1>16, <1>17
     DEF PubNext, Review, Publish

-----------------------------------------------------------------------------
(* The theorems. *)

\* The invariant of the data layer and that of the publication, together.
THEOREM PublishingInvariance == PubSpec => [](IInv /\ PubIInv)
<1>1. IInv /\ [Next]_vars => IInv'
  BY TypeStep, ChainStep, DecidedStep DEF IInv, ChainInv
<1>2. (IInv /\ PubIInv) /\ [PubNext]_pubVars => (IInv /\ PubIInv)'
  BY <1>1, PubStepIsStep, PubStep
<1> QED
  BY <1>2, InitPub, PTL DEF PubSpec

\* Publishing implements the data layer: what is proved of Proposals holds of a
\* system in which publishers, crashes and retries work on the same rows.
THEOREM PublishingUsesProposals == PubSpec => Spec
<1>1. PubInit => Init
  BY DEF PubInit
<1> QED
  BY <1>1, PublishingInvariance, PubStepIsStep, PTL DEF PubSpec, Spec

\* The types of the drafts and of the publishing requests (PubTypeOK).
THEOREM PublishingTypes == PubSpec => []PubTypeOK
  BY PublishingInvariance, PTL DEF PubIInv

\* Published exactly once: decided drafts never return to reviewers or publishers.
THEOREM PublishedExactlyOnce == PubSpec => []PublishedOnce
  BY PublishingInvariance, PTL DEF PubIInv

\* Nothing is billed internally but by the publication of approved content within
\* the not-to-exceed amount.
THEOREM BillingIsAccounted == PubSpec => []BilledOnlyByPublication
  BY PublishingInvariance, PTL DEF PubIInv

\* Only Finalize sets a link, and only one that is not set, on an approved draft.
LEMMA LinkStep ==
    ASSUME PubIInv, [PubNext]_pubVars, NEW d \in Drafts
    PROVE  published'[d] = published[d] \/ (draftStatus[d] = "approved" /\ published[d] = None)
<1> USE DEF PubIInv
<1>1. ASSUME NEW o \in Operators, Finalize(o)
      PROVE  published'[d] = published[d] \/ (draftStatus[d] = "approved" /\ published[d] = None)
  BY <1>1 DEF Finalize, StillPublishable, PubTypeOK
<1>2. CASE \/ Office \/ UNCHANGED pubVars
           \/ \E e \in Drafts : Review(e)
           \/ \E o \in Operators :
                 \/ \E e \in Drafts : BeginDiscard(o, e) \/ \E f \in BOOLEAN : BeginPublish(o, e, f)
                 \/ \E p \in Ids : Materialize(o, p)
                 \/ AddLine(o) \/ DiscardProposalDraft(o) \/ Fail(o)
  BY <1>2 DEF Office, Review, CreateProposalDraft, CreateProposalReview, BeginDiscard,
              BeginPublish, Materialize, AddLine, DiscardProposalDraft, Fail, draftRows, pubVars
<1> QED
  BY <1>1, <1>2 DEF PubNext, Publish

\* A link once set is never moved.
THEOREM LinkStays == PubSpec => LinkIsFinal
<1>1. PubIInv /\ [PubNext]_pubVars =>
        [\A d \in Drafts : published[d] # None => published'[d] = published[d]]_pubVars
  BY LinkStep
<1> QED
  BY <1>1, PublishingInvariance, PTL DEF PubSpec, LinkIsFinal

\* A rejected or discarded draft is not published by a publisher that was under way.
THEOREM DisposalWins == PubSpec => DisposedStaysUnpublished
<1>1. PubIInv /\ [PubNext]_pubVars =>
        [\A d \in Drafts :
           draftStatus[d] \in {"rejected", "discarded"} => published'[d] = published[d]]_pubVars
  BY LinkStep
<1> QED
  BY <1>1, PublishingInvariance, PTL DEF PubSpec, DisposedStaysUnpublished
=============================================================================
