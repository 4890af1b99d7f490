---------------------------- MODULE Proposals_proofs ----------------------------
(***************************************************************************)
(* Proofs about Proposals: types, the numbering of a chain, its single     *)
(* live revision, the single decision, and what is frozen once sent.       *)
(*                                                                         *)
(* The root lock orders the revisers of a chain and nobody else: whoever   *)
(* edits, sends, decides or withdraws a member does not take it.  What     *)
(* makes the single live revision true all the same is that such a writer  *)
(* can only END the life of a row, never give it back: a row a reviser     *)
(* read as dead stays dead, so ReadOK below survives every other writer.   *)
(***************************************************************************)
EXTENDS Proposals, TLAPS

\* A reviser's prior exists; an idle request has none.
RevisersOK ==
    \A s \in Sessions :
        /\ pc[s] = "idle" => prior[s] = None
        /\ pc[s] # "idle" => prior[s] \in Ids /\ status[prior[s]] # None

\* The root lock: one reviser at a time inside a chain.
RootMutex ==
    \A s, t \in Sessions :
        pc[s] \in InTxn /\ pc[t] \in InTxn /\ RootOf(prior[s]) = RootOf(prior[t]) => s = t

\* What a reviser read of its chain still bounds it when it commits.
ReadOK ==
    \A s \in Sessions :
        /\ pc[s] \in {"prior", "insert", "copy"} =>
              \A q \in Chain(RootOf(prior[s])) :
                  /\ IsLive(q) => q = prior[s]
                  /\ revision[q] < number[s]
        /\ pc[s] \in {"insert", "copy"} /\ IsLive(prior[s]) => seen[s] \in Live

\* A row that does not exist is nobody's child.
NoRow == \A p \in Ids : status[p] = None => parent[p] = None

\* A proposal still open for a decision has none.
Undecided ==
    \A p \in Ids : status[p] \in {None, "draft", "sent"} => decisions[p] = 0

IInv == /\ TypeOK
        /\ RevisersOK
        /\ RootMutex
        /\ NoRow
        /\ ChainNumbered
        /\ LiveRevisionIsLatest
        /\ ReadOK
        /\ Undecided
        /\ DecidedOnce

\* What the single-row writers have in common.
Tame ==
    /\ \A p \in Ids : /\ status[p] = None <=> status'[p] = None
                      /\ status'[p] \in Live => status[p] \in Live
    /\ UNCHANGED <<parent, revision, kind, revisers>>

-----------------------------------------------------------------------------
(* Types. *)

\* Every status is one of the listed ones and none of them is NULL.
LEMMA Words ==
    /\ None \notin Statuses /\ None \notin Live /\ None \notin Ids
    /\ Decisions \subseteq Statuses /\ Live \subseteq Statuses
    /\ Withdrawable \subseteq Live
    /\ None # "draft" /\ None # "sent"
    /\ "superseded" \notin Live /\ "withdrawn" \notin Live /\ "declined" \notin Live
    /\ "internal_billed" \notin Live
  BY ProposalAssumption DEF Statuses, Live, Decisions, Withdrawable

\* The initial state satisfies the inductive invariant.
LEMMA InitIInv == Init => IInv
  BY Words DEF Init, IInv, TypeOK, RevisersOK, RootMutex, NoRow, ChainNumbered,
       LiveRevisionIsLatest, ReadOK, Undecided, DecidedOnce, IsLive, InTxn, Decisions, Live

\* Every step of the specification keeps the types.
LEMMA TypeStep == TypeOK /\ RevisersOK /\ [Next]_vars => TypeOK'
<1> SUFFICES ASSUME TypeOK, RevisersOK, [Next]_vars PROVE TypeOK'
  OBVIOUS
<1> USE DEF TypeOK
<1>1. ASSUME NEW p \in Ids, NEW k \in Kinds, CreateProposal(p, k) PROVE TypeOK'
  BY <1>1 DEF CreateProposal, Statuses, Live, revisers
<1>2. ASSUME NEW p \in Ids, NEW t \in 0..MaxTotal, EditDraft(p, t) PROVE TypeOK'
  <2>1. t \in Nat
    BY ProposalAssumption
  <2> QED
    BY <1>2, <2>1 DEF EditDraft, revisers
<1>3. ASSUME NEW p \in Ids, SendProposal(p) PROVE TypeOK'
  BY <1>3 DEF SendProposal, SetStatus, Statuses, Live, revisers
<1>4. ASSUME NEW p \in Ids, WithdrawProposal(p) PROVE TypeOK'
  BY <1>4 DEF WithdrawProposal, SetStatus, Statuses, revisers
<1>5. ASSUME NEW p \in Ids, NEW d \in Decisions, RecordProposalAcceptance(p, d) PROVE TypeOK'
  BY <1>5, Words DEF RecordProposalAcceptance, SetStatus, revisers
<1>6. ASSUME NEW p \in Ids, BillInternally(p) PROVE TypeOK'
  BY <1>6 DEF BillInternally, SetStatus, Statuses, revisers
<1>7. ASSUME NEW s \in Sessions, NEW p \in Ids, Revise(s, p) PROVE TypeOK'
  BY <1>7 DEF Revise, Goto, rows
<1>8. ASSUME NEW s \in Sessions, LockRoot(s) PROVE TypeOK'
  BY <1>8 DEF LockRoot, Goto, rows, InTxn
<1>9. ASSUME NEW s \in Sessions, ReadChain(s) PROVE TypeOK'
  BY <1>9 DEF ReadChain, Goto, rows, InTxn, Chain
<1>10. ASSUME NEW s \in Sessions, ReadPrior(s) PROVE TypeOK'
  <2>1. pc' \in [Sessions -> {"idle", "lock"} \cup InTxn]
    BY <1>10 DEF ReadPrior, Goto, InTxn
  <2>2. status[prior[s]] \in Statuses \cup {None}
    BY <1>10 DEF ReadPrior, RevisersOK
  <2> QED
    BY <1>10, <2>1, <2>2 DEF ReadPrior, rows
<1>11. ASSUME NEW s \in Sessions, InsertRevision(s) PROVE TypeOK'
  BY <1>11 DEF InsertRevision, Goto, rows, InTxn
<1>12. ASSUME NEW s \in Sessions, NEW p \in Ids, CommitRevision(s, p) PROVE TypeOK'
  <2>1. prior[s] \in Ids /\ RootOf(prior[s]) \in Ids
    BY <1>12 DEF CommitRevision, RevisersOK, RootOf
  <2>2. status' \in [Ids -> Statuses \cup {None}]
    BY <1>12, <2>1 DEF CommitRevision, Statuses, Live
  <2>3. /\ parent' \in [Ids -> Ids \cup {None}]
        /\ revision' \in [Ids -> Nat]
        /\ kind' \in [Ids -> Kinds \cup {None}]
        /\ total' \in [Ids -> Nat]
        /\ decisions' \in [Ids -> Nat]
    BY <1>12, <2>1 DEF CommitRevision
  <2>4. /\ pc' \in [Sessions -> {"idle", "lock"} \cup InTxn]
        /\ prior' \in [Sessions -> Ids \cup {None}]
        /\ number' \in [Sessions -> Nat]
        /\ seen' \in [Sessions -> Statuses \cup {None}]
    BY <1>12 DEF CommitRevision, Finish, Goto
  <2> QED
    BY <2>2, <2>3, <2>4
<1>13. ASSUME NEW s \in Sessions, Abandon(s) PROVE TypeOK'
  BY <1>13 DEF Abandon, Finish, Goto, rows
<1>14. CASE UNCHANGED vars
  BY <1>14 DEF vars, rows, revisers
<1> QED
  BY <1>1, <1>2, <1>3, <1>4, <1>5, <1>6, <1>7, <1>8, <1>9, <1>10, <1>11, <1>12, <1>13, <1>14
     DEF Next, Edit, Supersede
-----------------------------------------------------------------------------
(* The chains. *)

ChainInv == RevisersOK /\ RootMutex /\ NoRow /\ ChainNumbered /\ LiveRevisionIsLatest /\ ReadOK

\* A writer that only edits rows, or ends their life, leaves every chain fact true.
LEMMA TameFine == TypeOK /\ ChainInv /\ Tame => ChainInv'
<1> SUFFICES ASSUME TypeOK, ChainInv, Tame PROVE ChainInv'
  OBVIOUS
<1> USE DEF ChainInv
<1>1. \A p : RootOf(p)' = RootOf(p)
  BY DEF Tame, RootOf
<1>2. \A r : Chain(r)' = Chain(r)
  BY <1>1 DEF Tame, Chain
<1>3. \A p \in Ids : IsLive(p)' => IsLive(p)
  BY DEF Tame, IsLive
<1>4. RevisersOK'
  BY DEF Tame, RevisersOK, revisers
<1>5. RootMutex'
  BY <1>1 DEF Tame, RootMutex, revisers
<1>6. NoRow'
  BY DEF Tame, NoRow
<1>7. ChainNumbered'
  <2> SUFFICES ASSUME NEW p \in Ids, status'[p] # None
               PROVE  /\ revision'[p] >= 1
                      /\ parent'[p] # None =>
                            /\ status'[parent'[p]] # None
                            /\ parent'[parent'[p]] = None
                      /\ \A q \in Ids : q # p /\ status'[q] # None /\ RootOf(q)' = RootOf(p)'
                            => revision'[q] # revision'[p]
    BY DEF ChainNumbered
  <2>1. status[p] # None /\ parent' = parent /\ revision' = revision
    BY DEF Tame
  <2>2. parent[p] # None => parent[p] \in Ids
    BY DEF TypeOK
  <2>3. parent[p] # None => status'[parent[p]] # None /\ parent[parent[p]] = None
    BY <2>1, <2>2 DEF ChainNumbered, Tame
  <2>4. \A q \in Ids : q # p /\ status'[q] # None /\ RootOf(q)' = RootOf(p)'
                            => revision[q] # revision[p]
    BY <1>1, <2>1 DEF ChainNumbered, Tame
  <2> QED
    BY <2>1, <2>3, <2>4 DEF ChainNumbered
<1>8. LiveRevisionIsLatest'
  BY <1>1, <1>3 DEF Tame, LiveRevisionIsLatest
<1>9. ReadOK'
  <2> SUFFICES ASSUME NEW s \in Sessions
               PROVE  /\ pc'[s] \in {"prior", "insert", "copy"} =>
                            \A q \in Chain(RootOf(prior[s]))' :
                                /\ IsLive(q)' => q = prior'[s]
                                /\ revision'[q] < number'[s]
                      /\ pc'[s] \in {"insert", "copy"} /\ IsLive(prior[s])' => seen'[s] \in Live
    BY DEF ReadOK
  <2>1. pc' = pc /\ prior' = prior /\ number' = number /\ seen' = seen /\ revision' = revision
    BY DEF Tame, revisers
  <2>2. ASSUME pc'[s] \in {"prior", "insert", "copy"}, NEW q \in Chain(RootOf(prior[s]))'
        PROVE  (IsLive(q)' => q = prior'[s]) /\ revision'[q] < number'[s]
    <3>1. q \in Chain(RootOf(prior[s])) /\ q \in Ids
      BY <1>1, <1>2, <2>1, <2>2 DEF Chain
    <3> QED
      BY <1>3, <2>1, <2>2, <3>1 DEF ReadOK
  <2>3. pc'[s] \in {"insert", "copy"} /\ IsLive(prior[s])' => seen'[s] \in Live
    <3>1. pc[s] # "idle" => prior[s] \in Ids
      BY DEF RevisersOK
    <3> QED
      BY <1>3, <2>1, <3>1 DEF ReadOK
  <2> QED
    BY <2>2, <2>3
<1> QED
  BY <1>4, <1>5, <1>6, <1>7, <1>8, <1>9

\* The writers of one existing row are of that kind.
LEMMA EditsAreTame ==
    ASSUME TypeOK, NEW p \in Ids, Edit(p) \/ BillInternally(p)
    PROVE  Tame
<1> USE DEF TypeOK
<1>1. ASSUME NEW t \in 0..MaxTotal, EditDraft(p, t) PROVE Tame
  BY <1>1 DEF EditDraft, Tame
<1>2. CASE SendProposal(p)
  BY <1>2, Words DEF SendProposal, SetStatus, Tame, Live
<1>3. CASE WithdrawProposal(p)
  BY <1>3, Words DEF WithdrawProposal, SetStatus, Tame, Withdrawable, Live, Statuses
<1>4. ASSUME NEW d \in Decisions, RecordProposalAcceptance(p, d) PROVE Tame
  BY <1>4, Words DEF RecordProposalAcceptance, SetStatus, Tame, Decisions, Live
<1>5. CASE BillInternally(p)
  <2>1. "internal_billed" # None
    BY Words DEF Statuses
  <2> QED
    BY <1>5, <2>1, Words DEF BillInternally, SetStatus, Tame
<1> QED
  BY <1>1, <1>2, <1>3, <1>4, <1>5 DEF Edit

\* A new proposal is a chain of its own.
LEMMA CreateFine ==
    ASSUME TypeOK, ChainInv, NEW p \in Ids, NEW k \in Kinds, CreateProposal(p, k)
    PROVE  ChainInv'
<1> USE DEF ChainInv, TypeOK
<1>1. /\ status' = [status EXCEPT ![p] = "draft"]
      /\ revision' = [revision EXCEPT ![p] = 1]
      /\ parent' = parent /\ status[p] = None
      /\ pc' = pc /\ prior' = prior /\ number' = number /\ seen' = seen
  BY DEF CreateProposal, revisers
<1>2. \A q \in Ids : RootOf(q)' = RootOf(q)
  BY <1>1 DEF RootOf
<1>3. /\ RootOf(p) = p
      /\ \A q \in Ids : status[q] # None => RootOf(q) \in Ids /\ RootOf(q) # p
  BY <1>1 DEF RootOf, NoRow, ChainNumbered
<1>4. \A s \in Sessions : pc[s] # "idle" => prior[s] \in Ids /\ prior[s] # p /\ RootOf(prior[s]) # p
  BY <1>1, <1>3 DEF RevisersOK
<1>5. RevisersOK'
  BY <1>1, Words DEF RevisersOK
<1>6. RootMutex'
  <2>1. \A s \in Sessions : pc[s] \in InTxn => prior[s] \in Ids
    BY <1>4 DEF InTxn
  <2> QED
    BY <1>1, <1>2, <2>1 DEF RootMutex
<1>7. NoRow'
  BY <1>1, Words DEF NoRow
<1>8. ChainNumbered'
  <2> SUFFICES ASSUME NEW q \in Ids, status'[q] # None
               PROVE  /\ revision'[q] >= 1
                      /\ parent'[q] # None =>
                            /\ status'[parent'[q]] # None
                            /\ parent'[parent'[q]] = None
                      /\ \A r \in Ids : r # q /\ status'[r] # None /\ RootOf(r)' = RootOf(q)'
                            => revision'[r] # revision'[q]
    BY DEF ChainNumbered
  <2>1. CASE q = p
    BY <1>1, <1>2, <1>3, <2>1 DEF NoRow
  <2>2. CASE q # p
    <3>1. status[q] # None
      BY <1>1, <2>2
    <3> QED
      BY <1>1, <1>2, <1>3, <2>2, <3>1, Words DEF ChainNumbered
  <2> QED
    BY <2>1, <2>2
<1>9. LiveRevisionIsLatest'
  <2> SUFFICES ASSUME NEW q \in Ids, NEW r \in Ids,
                      IsLive(q)', status'[r] # None, r # q, RootOf(r)' = RootOf(q)'
               PROVE  revision'[r] < revision'[q]
    BY DEF LiveRevisionIsLatest
  <2>1. RootOf(r) = RootOf(q)
    BY <1>2
  <2>2. q # p /\ r # p
    BY <1>1, <1>3, <2>1, Words DEF IsLive
  <2>3. IsLive(q) /\ status[r] # None /\ revision'[r] = revision[r] /\ revision'[q] = revision[q]
    BY <1>1, <2>2 DEF IsLive
  <2> QED
    BY <2>1, <2>3 DEF LiveRevisionIsLatest
<1>10. ReadOK'
  <2> SUFFICES ASSUME NEW s \in Sessions
               PROVE  /\ pc'[s] \in {"prior", "insert", "copy"} =>
                            \A q \in Chain(RootOf(prior[s]))' :
                                /\ IsLive(q)' => q = prior'[s]
                                /\ revision'[q] < number'[s]
                      /\ pc'[s] \in {"insert", "copy"} /\ IsLive(prior[s])' => seen'[s] \in Live
    BY DEF ReadOK
  <2>1. ASSUME pc'[s] \in {"prior", "insert", "copy"}, NEW q \in Chain(RootOf(prior[s]))'
        PROVE  (IsLive(q)' => q = prior'[s]) /\ revision'[q] < number'[s]
    <3>1. q \in Ids /\ status'[q] # None /\ RootOf(q) = RootOf(prior[s])
      BY <1>1, <1>2, <1>4, <2>1 DEF Chain
    <3>2. q # p
      BY <1>1, <1>3, <1>4, <2>1, <3>1
    <3>3. q \in Chain(RootOf(prior[s])) /\ status'[q] = status[q] /\ revision'[q] = revision[q]
      BY <1>1, <3>1, <3>2 DEF Chain
    <3> QED
      BY <1>1, <2>1, <3>3 DEF ReadOK, IsLive
  <2>2. pc'[s] \in {"insert", "copy"} /\ IsLive(prior[s])' => seen'[s] \in Live
    BY <1>1, <1>4 DEF ReadOK, IsLive
  <2> QED
    BY <2>1, <2>2
<1> QED
  BY <1>5, <1>6, <1>7, <1>8, <1>9, <1>10

\* A reviser's own steps before its commit.
LEMMA ReviserFine ==
    ASSUME TypeOK, ChainInv, NEW s \in Sessions,
           \/ \E p \in Ids : Revise(s, p)
           \/ LockRoot(s) \/ ReadChain(s) \/ ReadPrior(s) \/ InsertRevision(s) \/ Abandon(s)
    PROVE  ChainInv'
<1> USE DEF ChainInv, TypeOK
<1>1. UNCHANGED rows
  BY DEF Revise, LockRoot, ReadChain, ReadPrior, InsertRevision, Abandon
<1>2. \A p : RootOf(p)' = RootOf(p) /\ Chain(p)' = Chain(p) /\ IsLive(p)' = IsLive(p)
  BY <1>1 DEF rows, RootOf, Chain, IsLive
<1>3. NoRow' /\ ChainNumbered' /\ LiveRevisionIsLatest'
  BY <1>1, <1>2 DEF rows, NoRow, ChainNumbered, LiveRevisionIsLatest
<1>4. \A t \in Sessions \ {s} :
        pc'[t] = pc[t] /\ prior'[t] = prior[t] /\ number'[t] = number[t] /\ seen'[t] = seen[t]
  BY DEF Revise, LockRoot, ReadChain, ReadPrior, InsertRevision, Abandon, Finish, Goto
\* What is left to say is about s alone.
<1> DEFINE Mine == /\ pc'[s] = "idle" => prior'[s] = None
                   /\ pc'[s] # "idle" => prior'[s] \in Ids /\ status[prior'[s]] # None
           Alone == \A t \in Sessions \ {s} :
                      pc'[s] \in InTxn /\ pc[t] \in InTxn => RootOf(prior'[s]) # RootOf(prior[t])
           Read == /\ pc'[s] \in {"prior", "insert", "copy"} =>
                        \A q \in Chain(RootOf(prior'[s])) :
                            /\ IsLive(q) => q = prior'[s]
                            /\ revision[q] < number'[s]
                   /\ pc'[s] \in {"insert", "copy"} /\ IsLive(prior'[s]) => seen'[s] \in Live
<1>5. ASSUME Mine, Alone, Read PROVE ChainInv'
  <2>1. RevisersOK'
    BY <1>1, <1>4, <1>5 DEF RevisersOK, rows
  <2>2. \A t \in Sessions : RootOf(prior[t])' = RootOf(prior'[t])
    BY <1>1 DEF rows, RootOf
  <2>3. RootMutex'
    BY <1>4, <1>5, <2>2 DEF RootMutex
  <2>4. ReadOK'
    <3>1. \A t \in Sessions : Chain(RootOf(prior[t]))' = Chain(RootOf(prior'[t]))
      BY <1>1 DEF rows, RootOf, Chain
    <3>2. \A t \in Sessions : IsLive(prior[t])' = IsLive(prior'[t])
      BY <1>1 DEF rows, IsLive
    <3>3. revision' = revision
      BY <1>1 DEF rows
    <3> QED
      BY <1>2, <1>4, <1>5, <3>1, <3>2, <3>3 DEF ReadOK
  <2> QED
    BY <1>3, <2>1, <2>3, <2>4
<1>6. CASE \E p \in Ids : Revise(s, p)
  <2>1. pc'[s] = "lock" /\ prior'[s] \in Ids /\ status[prior'[s]] # None
    BY <1>6 DEF Revise, Goto
  <2> QED
    BY <1>5, <2>1 DEF InTxn
<1>7. CASE Abandon(s)
  <2>1. pc'[s] = "idle" /\ prior'[s] = None
    BY <1>7 DEF Abandon, Finish, Goto
  <2> QED
    BY <1>5, <2>1 DEF InTxn
<1>8. CASE LockRoot(s)
  <2>1. pc[s] = "lock" /\ pc'[s] = "chain" /\ prior'[s] = prior[s] /\ Unlocked(RootOf(prior[s]))
    BY <1>8 DEF LockRoot, Goto
  <2>2. Mine /\ Read
    BY <2>1 DEF RevisersOK
  <2>3. Alone
    BY <2>1 DEF Unlocked, RootLocked
  <2> QED
    BY <1>5, <2>2, <2>3
<1>9. ASSUME pc[s] \in InTxn, pc'[s] \in InTxn, prior'[s] = prior[s]
      PROVE  Mine /\ Alone
  BY <1>9 DEF RevisersOK, RootMutex, InTxn
<1>10. CASE ReadChain(s)
  <2>1. pc[s] = "chain" /\ pc'[s] = "prior" /\ prior'[s] = prior[s]
    BY <1>10 DEF ReadChain, Goto
  <2>2. PICK top \in Chain(RootOf(prior[s])) :
           /\ \A q \in Chain(RootOf(prior[s])) : revision[q] <= revision[top]
           /\ number'[s] = revision[top] + 1
    BY <1>10 DEF ReadChain
  <2>3. \A q \in Chain(RootOf(prior[s])) : revision[q] \in Nat
    BY DEF Chain
  <2>4. \A q \in Chain(RootOf(prior[s])) : revision[q] < number'[s]
    BY <2>2, <2>3
  <2>5. \A q \in Chain(RootOf(prior[s])) : IsLive(q) => q = prior[s]
    BY <1>10 DEF ReadChain
  <2> QED
    BY <1>5, <1>9, <2>1, <2>4, <2>5 DEF InTxn
<1>11. CASE ReadPrior(s)
  <2>1. /\ pc[s] = "prior" /\ pc'[s] = "insert" /\ prior'[s] = prior[s]
        /\ number'[s] = number[s] /\ seen'[s] = status[prior[s]]
    BY <1>11 DEF ReadPrior, Goto
  <2>2. Read
    BY <2>1 DEF ReadOK, IsLive
  <2> QED
    BY <1>5, <1>9, <2>1, <2>2 DEF InTxn
<1>12. CASE InsertRevision(s)
  <2>1. /\ pc[s] = "insert" /\ pc'[s] = "copy" /\ prior'[s] = prior[s]
        /\ number'[s] = number[s] /\ seen'[s] = seen[s]
    BY <1>12 DEF InsertRevision, Goto
  <2>2. Read
    BY <2>1 DEF ReadOK
  <2> QED
    BY <1>5, <1>9, <2>1, <2>2 DEF InTxn
<1> QED
  BY <1>6, <1>7, <1>8, <1>10, <1>11, <1>12

\* The commit of a revision: the new row is the only live one of its chain, and
\* the greatest.
LEMMA CommitFine ==
    ASSUME TypeOK, ChainInv, NEW s \in Sessions, NEW new \in Ids, CommitRevision(s, new)
    PROVE  ChainInv'
<1> DEFINE old  == prior[s]
           root == RootOf(prior[s])
<1> USE DEF ChainInv, TypeOK
<1>1. /\ pc[s] = "copy" /\ status[new] = None
      /\ status' = [status EXCEPT ![new] = "draft",
                                  ![old] = IF seen[s] \in Live THEN "superseded" ELSE @]
      /\ parent' = [parent EXCEPT ![new] = root]
      /\ revision' = [revision EXCEPT ![new] = number[s]]
      /\ Finish(s)
  BY DEF CommitRevision
<1>2. old \in Ids /\ status[old] # None /\ old # new /\ parent[new] = None
  BY <1>1 DEF RevisersOK, NoRow
<1>3. \A p \in Ids : status[p] # None => RootOf(p) \in Ids /\ status[RootOf(p)] # None /\ RootOf(p) # new
  BY <1>1 DEF RootOf, ChainNumbered
<1>4. root \in Ids /\ status[root] # None /\ root # new /\ parent[root] = None
  BY <1>2, <1>3 DEF RootOf, ChainNumbered
<1>5. /\ status'[new] = "draft" /\ parent'[new] = root /\ revision'[new] = number[s]
      /\ \A p \in Ids \ {new} : parent'[p] = parent[p] /\ revision'[p] = revision[p]
      /\ \A p \in Ids \ {new, old} : status'[p] = status[p]
      /\ status'[old] = IF seen[s] \in Live THEN "superseded" ELSE status[old]
  BY <1>1, <1>2
<1>6. /\ RootOf(new)' = root
      /\ \A p \in Ids \ {new} : RootOf(p)' = RootOf(p)
  BY <1>2, <1>4, <1>5, Words DEF RootOf
<1>7. "superseded" # None /\ "superseded" \notin Live /\ "draft" # None
  BY Words DEF Statuses
<1>8. /\ status'[old] \notin Live
      /\ \A p \in Ids \ {new} :
            /\ status'[p] # None <=> status[p] # None
            /\ IsLive(p)' => IsLive(p)
  <2>1. IsLive(old) => seen[s] \in Live
    BY <1>1 DEF ReadOK
  <2> QED
    BY <1>2, <1>5, <1>7, <2>1 DEF IsLive
<1>9. \A p \in Ids : status[p] # None /\ RootOf(p) = root =>
          /\ IsLive(p) => p = old
          /\ revision[p] < number[s]
  BY <1>1 DEF ReadOK, Chain
<1>10. pc'[s] = "idle" /\ prior'[s] = None
       /\ \A t \in Sessions \ {s} :
             /\ pc'[t] = pc[t] /\ prior'[t] = prior[t]
             /\ number'[t] = number[t] /\ seen'[t] = seen[t]
  BY <1>1 DEF Finish, Goto
<1>11. \A t \in Sessions \ {s} : pc[t] # "idle" => prior[t] \in Ids \ {new} /\ status[prior[t]] # None
  BY <1>1 DEF RevisersOK
<1>12. RevisersOK'
  BY <1>8, <1>10, <1>11 DEF RevisersOK
<1>13. RootMutex'
  <2>1. \A t \in Sessions \ {s} : pc[t] # "idle" => RootOf(prior[t])' = RootOf(prior[t])
    BY <1>5, <1>10, <1>11, <1>6 DEF RootOf
  <2> QED
    BY <1>10, <2>1 DEF RootMutex, InTxn
<1>14. NoRow'
  BY <1>2, <1>5, <1>7, <1>8 DEF NoRow
<1>15. ChainNumbered'
  <2> SUFFICES ASSUME NEW p \in Ids, status'[p] # None
               PROVE  /\ revision'[p] >= 1
                      /\ parent'[p] # None =>
                            /\ status'[parent'[p]] # None
                            /\ parent'[parent'[p]] = None
                      /\ \A q \in Ids : q # p /\ status'[q] # None /\ RootOf(q)' = RootOf(p)'
                            => revision'[q] # revision'[p]
    BY DEF ChainNumbered
  <2>1. \A q \in Ids : revision[q] \in Nat /\ number[s] \in Nat
    OBVIOUS
  <2>2. CASE p = new
    <3>1. revision[old] >= 1 /\ revision[old] < number[s]
      BY <1>2, <1>9 DEF ChainNumbered
    <3>2. revision'[p] >= 1
      BY <1>2, <1>5, <2>1, <2>2, <3>1
    <3>3. status'[root] # None /\ parent'[root] = None
      BY <1>4, <1>5, <1>8
    <3>4. ASSUME NEW q \in Ids, q # p, status'[q] # None, RootOf(q)' = RootOf(p)'
          PROVE  revision'[q] # revision'[p]
      <4>1. status[q] # None /\ RootOf(q) = root /\ revision'[q] = revision[q]
        BY <1>5, <1>6, <1>8, <2>2, <3>4
      <4> QED
        BY <1>5, <1>9, <2>1, <2>2, <4>1
    <3> QED
      BY <1>5, <2>2, <3>2, <3>3, <3>4
  <2>3. CASE p # new
    <3>1. status[p] # None /\ parent'[p] = parent[p] /\ revision'[p] = revision[p]
      BY <1>5, <1>8, <2>3
    <3>2. ASSUME parent[p] # None PROVE status'[parent[p]] # None /\ parent'[parent[p]] = None
      <4>1. parent[p] \in Ids /\ status[parent[p]] # None /\ parent[parent[p]] = None
        BY <3>1, <3>2 DEF ChainNumbered
      <4>2. parent[p] # new
        BY <1>1, <4>1
      <4> QED
        BY <1>5, <1>8, <4>1, <4>2
    <3>3. ASSUME NEW q \in Ids, q # p, status'[q] # None, RootOf(q)' = RootOf(p)'
          PROVE  revision'[q] # revision'[p]
      <4>1. CASE q = new
        <5>1. RootOf(p) = root
          BY <1>6, <2>3, <3>3, <4>1
        <5> QED
          BY <1>5, <1>9, <2>1, <3>1, <4>1, <5>1
      <4>2. CASE q # new
        <5>1. status[q] # None /\ RootOf(q) = RootOf(p) /\ revision'[q] = revision[q]
          BY <1>5, <1>6, <1>8, <2>3, <3>3, <4>2
        <5> QED
          BY <3>1, <3>3, <5>1 DEF ChainNumbered
      <4> QED
        BY <4>1, <4>2
    <3>4. revision[p] >= 1
      BY <3>1 DEF ChainNumbered
    <3> QED
      BY <3>1, <3>2, <3>3, <3>4
  <2> QED
    BY <2>2, <2>3
<1>16. LiveRevisionIsLatest'
  <2> SUFFICES ASSUME NEW p \in Ids, NEW q \in Ids,
                      IsLive(p)', status'[q] # None, q # p, RootOf(q)' = RootOf(p)'
               PROVE  revision'[q] < revision'[p]
    BY DEF LiveRevisionIsLatest
  <2>1. CASE p = new
    <3>1. status[q] # None /\ RootOf(q) = root /\ revision'[q] = revision[q]
      BY <1>5, <1>6, <1>8, <2>1
    <3> QED
      BY <1>5, <1>9, <2>1, <3>1
  <2>2. CASE p # new
    <3>1. IsLive(p) /\ p # old /\ status[p] # None
      BY <1>8, <2>2, Words DEF IsLive
    <3>2. RootOf(p) # root
      BY <1>9, <3>1
    <3>3. q # new
      BY <1>6, <2>2, <3>2
    <3>4. status[q] # None /\ RootOf(q) = RootOf(p) /\ revision'[q] = revision[q]
          /\ revision'[p] = revision[p]
      BY <1>5, <1>6, <1>8, <2>2, <3>3
    <3> QED
      BY <3>1, <3>4 DEF LiveRevisionIsLatest
  <2> QED
    BY <2>1, <2>2
<1>17. ReadOK'
  <2> SUFFICES ASSUME NEW t \in Sessions
               PROVE  /\ pc'[t] \in {"prior", "insert", "copy"} =>
                            \A q \in Chain(RootOf(prior[t]))' :
                                /\ IsLive(q)' => q = prior'[t]
                                /\ revision'[q] < number'[t]
                      /\ pc'[t] \in {"insert", "copy"} /\ IsLive(prior[t])' => seen'[t] \in Live
    BY DEF ReadOK
  <2>1. CASE t = s
    BY <1>10, <2>1
  <2>2. CASE t # s
    <3>1. /\ pc'[t] = pc[t] /\ prior'[t] = prior[t] /\ number'[t] = number[t] /\ seen'[t] = seen[t]
          /\ pc[t] # "idle" => prior[t] \in Ids \ {new} /\ status[prior[t]] # None
      BY <1>10, <1>11, <2>2
    <3>2. ASSUME pc[t] \in {"prior", "insert", "copy"}, NEW q \in Chain(RootOf(prior[t]))'
          PROVE  (IsLive(q)' => q = prior[t]) /\ revision'[q] < number[t]
      <4>1. RootOf(prior[t]) # root
        BY <1>1, <2>2, <3>2 DEF RootMutex, InTxn
      <4>2. RootOf(prior[t])' = RootOf(prior[t])
        BY <1>5, <3>1, <3>2 DEF RootOf
      <4>3. q \in Ids /\ status'[q] # None /\ RootOf(q)' = RootOf(prior[t])
        BY <4>2 DEF Chain
      <4>4. q # new
        BY <1>6, <4>1, <4>3
      <4>5. q \in Chain(RootOf(prior[t])) /\ revision'[q] = revision[q]
        BY <1>5, <1>6, <1>8, <4>3, <4>4 DEF Chain
      <4> QED
        BY <1>8, <3>2, <4>3, <4>4, <4>5 DEF ReadOK
    <3>3. pc[t] \in {"insert", "copy"} /\ IsLive(prior[t])' => seen[t] \in Live
      BY <1>8, <3>1 DEF ReadOK, IsLive
    <3> QED
      BY <3>1, <3>2, <3>3
  <2> QED
    BY <2>1, <2>2
<1> QED
  BY <1>12, <1>13, <1>14, <1>15, <1>16, <1>17

-----------------------------------------------------------------------------
(* The decision. *)

\* Every step keeps what is known of the approval rows.
LEMMA DecidedStep ==
    ASSUME TypeOK, RevisersOK, Undecided, DecidedOnce, [Next]_vars
    PROVE  Undecided' /\ DecidedOnce'
<1> USE DEF TypeOK, Undecided, DecidedOnce
<1>1. ASSUME NEW p \in Ids, NEW k \in Kinds, CreateProposal(p, k)
      PROVE  Undecided' /\ DecidedOnce'
  BY <1>1 DEF CreateProposal, Decisions
<1>2. ASSUME NEW p \in Ids, NEW t \in 0..MaxTotal, EditDraft(p, t)
      PROVE  Undecided' /\ DecidedOnce'
  BY <1>2 DEF EditDraft
<1>3. ASSUME NEW p \in Ids, SendProposal(p) PROVE Undecided' /\ DecidedOnce'
  BY <1>3 DEF SendProposal, SetStatus, Decisions
<1>4. ASSUME NEW p \in Ids, WithdrawProposal(p) PROVE Undecided' /\ DecidedOnce'
  <2>1. "withdrawn" \notin {None, "draft", "sent"} \cup Decisions
    BY ProposalAssumption DEF Statuses, Decisions
  <2> QED
    BY <1>4, <2>1 DEF WithdrawProposal, SetStatus
<1>5. ASSUME NEW p \in Ids, NEW d \in Decisions, RecordProposalAcceptance(p, d)
      PROVE  Undecided' /\ DecidedOnce'
  <2>1. d \notin {None, "draft", "sent"}
    BY ProposalAssumption DEF Statuses, Decisions, Live
  <2>2. decisions[p] = 0 /\ decisions' = [decisions EXCEPT ![p] = decisions[p] + 1]
    BY <1>5 DEF RecordProposalAcceptance
  <2> QED
    BY <1>5, <2>1, <2>2 DEF RecordProposalAcceptance, SetStatus
<1>6. ASSUME NEW p \in Ids, BillInternally(p) PROVE Undecided' /\ DecidedOnce'
  <2>1. "internal_billed" \notin {None, "draft", "sent"} \cup Decisions
    BY ProposalAssumption DEF Statuses, Decisions
  <2> QED
    BY <1>6, <2>1 DEF BillInternally, SetStatus
<1>7. ASSUME NEW s \in Sessions, NEW p \in Ids, CommitRevision(s, p)
      PROVE  Undecided' /\ DecidedOnce'
  <2>1. "superseded" \notin {None, "draft", "sent"} \cup Decisions
    BY ProposalAssumption DEF Statuses, Decisions
  <2>2. prior[s] \in Ids /\ status[prior[s]] # None /\ status[p] = None
    BY <1>7 DEF CommitRevision, RevisersOK
  <2>3. /\ decisions' = decisions
        /\ status'[p] = "draft"
        /\ status'[prior[s]] \in {"superseded", status[prior[s]]}
        /\ \A q \in Ids \ {p, prior[s]} : status'[q] = status[q]
    BY <1>7, <2>2 DEF CommitRevision
  <2>4. decisions[p] = 0 /\ "draft" \notin Decisions
    BY <2>2 DEF Decisions
  <2> QED
    BY <2>1, <2>2, <2>3, <2>4
<1>8. ASSUME UNCHANGED rows PROVE Undecided' /\ DecidedOnce'
  BY <1>8 DEF rows
<1>9. ASSUME NEW s \in Sessions,
             \/ \E p \in Ids : Revise(s, p)
             \/ LockRoot(s) \/ ReadChain(s) \/ ReadPrior(s) \/ InsertRevision(s) \/ Abandon(s)
      PROVE  UNCHANGED rows
  BY <1>9 DEF Revise, LockRoot, ReadChain, ReadPrior, InsertRevision, Abandon
<1>10. CASE UNCHANGED vars
  BY <1>8, <1>10 DEF vars
<1> QED
  BY <1>1, <1>2, <1>3, <1>4, <1>5, <1>6, <1>7, <1>8, <1>9, <1>10 DEF Next, Edit, Supersede

-----------------------------------------------------------------------------
(* The theorems. *)

\* Every step keeps the chain facts.
LEMMA ChainStep == TypeOK /\ ChainInv /\ [Next]_vars => ChainInv'
<1> SUFFICES ASSUME TypeOK, ChainInv, [Next]_vars PROVE ChainInv'
  OBVIOUS
<1>1. ASSUME NEW p \in Ids, NEW k \in Kinds, CreateProposal(p, k) PROVE ChainInv'
  BY <1>1, CreateFine
<1>2. ASSUME NEW p \in Ids, Edit(p) \/ BillInternally(p) PROVE ChainInv'
  BY <1>2, EditsAreTame, TameFine
<1>3. ASSUME NEW s \in Sessions, Supersede(s) PROVE ChainInv'
  BY <1>3, ReviserFine, CommitFine DEF Supersede
<1>4. CASE UNCHANGED vars
  <2>1. Tame
    BY <1>4 DEF vars, rows, Tame
  <2> QED
    BY <2>1, TameFine
<1> QED
  BY <1>1, <1>2, <1>3, <1>4 DEF Next

\* The inductive invariant is one.
THEOREM ProposalInvariance == Spec => []IInv
<1>1. IInv /\ [Next]_vars => IInv'
  BY TypeStep, ChainStep, DecidedStep DEF IInv, ChainInv
<1> QED
  BY <1>1, InitIInv, PTL DEF Spec

\* The types of the tables and of the revising requests (TypeOK).
THEOREM ProposalTypes == Spec => []TypeOK
  BY ProposalInvariance, PTL DEF IInv

\* One live revision per chain, and it is the latest: kept by the root lock,
\* though most writers of a chain's members never take it.
THEOREM OneLiveRevision == Spec => []LiveRevisionIsLatest
  BY ProposalInvariance, PTL DEF IInv

\* The numbers of a chain's revisions never repeat, whichever of its members the
\* concurrent revisions started from.
THEOREM RevisionNumbersDiffer == Spec => []ChainNumbered
  BY ProposalInvariance, PTL DEF IInv

\* At most one decision is recorded on a proposal, and one if it reads decided.
THEOREM OneDecision == Spec => []DecidedOnce
  BY ProposalInvariance, PTL DEF IInv

\* One step leaves the total of whatever was sent alone.
LEMMA FrozenStep ==
    ASSUME TypeOK, [Next]_vars, NEW p \in Ids, status[p] \notin {None, "draft"}
    PROVE  total'[p] = total[p]
<1> USE DEF TypeOK
<1>1. ASSUME NEW q \in Ids, NEW t \in 0..MaxTotal, EditDraft(q, t) PROVE total'[p] = total[p]
  BY <1>1 DEF EditDraft
<1>2. ASSUME NEW s \in Sessions, NEW q \in Ids, CommitRevision(s, q) PROVE total'[p] = total[p]
  BY <1>2 DEF CommitRevision
<1>3. ASSUME NEW s \in Sessions,
             \/ \E q \in Ids : Revise(s, q)
             \/ LockRoot(s) \/ ReadChain(s) \/ ReadPrior(s) \/ InsertRevision(s) \/ Abandon(s)
      PROVE  total'[p] = total[p]
  BY <1>3 DEF Revise, LockRoot, ReadChain, ReadPrior, InsertRevision, Abandon, rows
<1>4. ASSUME NEW q \in Ids, \E k \in Kinds : CreateProposal(q, k) PROVE total'[p] = total[p]
  BY <1>4 DEF CreateProposal
<1>5. ASSUME NEW q \in Ids,
             \/ SendProposal(q) \/ WithdrawProposal(q) \/ BillInternally(q)
             \/ \E d \in Decisions : RecordProposalAcceptance(q, d)
      PROVE  total'[p] = total[p]
  BY <1>5 DEF SendProposal, WithdrawProposal, BillInternally, RecordProposalAcceptance, SetStatus
<1>6. CASE UNCHANGED vars
  BY <1>6 DEF vars, rows
<1> QED
  BY <1>1, <1>2, <1>3, <1>4, <1>5, <1>6 DEF Next, Edit, Supersede

\* Sent is immutable: no interleaving of edits, sends and revisions changes the
\* total of a proposal that is no longer a draft.
THEOREM SentStaysFrozen == Spec => SentIsFrozen
<1>1. TypeOK /\ [Next]_vars =>
        [\A p \in Ids : status[p] \notin {None, "draft"} => total'[p] = total[p]]_vars
  BY FrozenStep
<1> QED
  BY <1>1, ProposalTypes, PTL DEF Spec, SentIsFrozen

\* What a reviser read of a live root still holds: it has the root's lock.
RootRead ==
    \A s \in Sessions :
        pc[s] \in {"insert", "copy"} /\ parent[prior[s]] = None /\ seen[s] \in Live
            => IsLive(prior[s])

LEMMA RootReadStep ==
    ASSUME IInv, RootRead, [Next]_vars
    PROVE  RootRead'
<1> USE DEF IInv, TypeOK, RootRead, IsLive
<1>1. ASSUME NEW p \in Ids, ~RootLocked(p), UNCHANGED <<parent, revisers>>,
             \A q \in Ids \ {p} : status'[q] = status[q]
      PROVE  RootRead'
  BY <1>1 DEF RootLocked, RootOf, InTxn, RevisersOK, revisers
<1>2. ASSUME NEW p \in Ids, Edit(p) \/ BillInternally(p) PROVE RootRead'
  BY <1>1, <1>2 DEF Edit, EditDraft, SendProposal, WithdrawProposal, RecordProposalAcceptance,
     BillInternally, SetStatus, Unlocked, revisers, RevisersOK
<1>3. ASSUME NEW p \in Ids, NEW k \in Kinds, CreateProposal(p, k) PROVE RootRead'
  BY <1>3, ProposalAssumption DEF CreateProposal, RevisersOK, revisers
<1>4. ASSUME NEW s \in Sessions,
             \/ \E p \in Ids : Revise(s, p)
             \/ LockRoot(s) \/ ReadChain(s) \/ InsertRevision(s) \/ Abandon(s)
      PROVE  RootRead'
  BY <1>4 DEF Revise, LockRoot, ReadChain, InsertRevision, Abandon, Finish, Goto, rows
<1>5. ASSUME NEW s \in Sessions, ReadPrior(s) PROVE RootRead'
  BY <1>5 DEF ReadPrior, Goto, rows
<1>6. ASSUME NEW s \in Sessions, NEW new \in Ids, CommitRevision(s, new) PROVE RootRead'
  <2> SUFFICES ASSUME NEW t \in Sessions, pc'[t] \in {"insert", "copy"},
                      parent'[prior'[t]] = None, seen'[t] \in Live
               PROVE  status'[prior'[t]] \in Live
    OBVIOUS
  <2>1. t # s /\ pc'[t] = pc[t] /\ prior'[t] = prior[t] /\ seen'[t] = seen[t]
    BY <1>6 DEF CommitRevision, Finish, Goto
  <2>2. prior[t] \in Ids /\ prior[t] # new /\ prior[s] \in Ids
    BY <1>6, <2>1 DEF CommitRevision, RevisersOK
  <2>3. parent[prior[t]] = None /\ status[prior[t]] \in Live
    BY <1>6, <2>1, <2>2 DEF CommitRevision
  <2>4. prior[t] # prior[s]
    BY <1>6, <2>1 DEF CommitRevision, RootMutex, InTxn
  <2> QED
    BY <1>6, <2>1, <2>2, <2>3, <2>4 DEF CommitRevision
<1>7. CASE UNCHANGED vars
  BY <1>7 DEF vars, rows, revisers
<1> QED
  BY <1>2, <1>3, <1>4, <1>5, <1>6, <1>7 DEF Next, Supersede

\* The root of a chain is superseded only while it is live, whoever withdraws it or
\* decides on it while a revision is under way.
THEOREM RootsSupersededLive == Spec => LiveRootIsSuperseded
<1>1. Init => RootRead
  BY DEF Init, RootRead
<1>2. IInv /\ RootRead /\ [Next]_vars =>
        [\A p \in Ids : status[p] # "superseded" /\ status'[p] = "superseded"
            => status[p] \in Live \/ parent[p] # None]_vars
  <2> SUFFICES ASSUME IInv, RootRead, Next, NEW p \in Ids, status[p] # "superseded",
                      status'[p] = "superseded", parent[p] = None
               PROVE  status[p] \in Live
    OBVIOUS
  <2> USE DEF IInv, TypeOK
  <2>1. ASSUME NEW s \in Sessions, NEW new \in Ids, CommitRevision(s, new)
        PROVE  status[p] \in Live
    BY <2>1 DEF CommitRevision, RevisersOK, RootRead, IsLive
  <2>2. ASSUME NEW q \in Ids, Edit(q) \/ BillInternally(q) PROVE FALSE
    BY <2>2 DEF Edit, EditDraft, SendProposal, WithdrawProposal, RecordProposalAcceptance,
       BillInternally, SetStatus, Decisions
  <2> QED
    BY <2>1, <2>2 DEF Next, CreateProposal, Supersede, Revise, LockRoot, ReadChain, ReadPrior,
       InsertRevision, Abandon, rows
<1> QED
  BY <1>1, <1>2, RootReadStep, ProposalInvariance, PTL DEF Spec, LiveRootIsSuperseded
=============================================================================
