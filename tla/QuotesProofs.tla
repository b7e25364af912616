---------------------------- MODULE QuotesProofs ----------------------------
(***************************************************************************)
(* Theorems about Quotes, for any provider and any fallback: what a        *)
(* refresh has collected at each of its steps, and from it that the worker *)
(* implements the shelf of quotes.                                         *)
(***************************************************************************)
EXTENDS Quotes, TLAPS

Lists == Payloads \cup {{}}

\* A refresh has a batch from its first statement on, a whole list when it inserts,
\* and an active batch that holds a whole list when it commits.
RefreshInv(j) ==
  /\ pc[j] \in {"fetch", "insert", "activate", "commit", "mark"} => draft[j] \in Batch
  /\ pc[j] = "insert" => fetched[j] \in Lists
  /\ pc[j] \in {"activate", "commit"} => draft[j].quotes \in Lists
  /\ pc[j] = "commit" => draft[j].status = "active"

IInv == TypeOK /\ OnlyWholeBatches /\ \A j \in Job : RefreshInv(j)

-----------------------------------------------------------------------------
(* The inductive invariant.                                                 *)

LEMMA InitInv == Init => IInv
BY DEF Init, IInv, TypeOK, OnlyWholeBatches, RefreshInv, Job, Steps

\* A refresh touches nothing of the other one.
LEMMA OnlyOwn ==
  ASSUME IInv, NEW j \in Job, Refresh(j), NEW k \in Job \ {j}
  PROVE  pc'[k] = pc[k] /\ draft'[k] = draft[k] /\ fetched'[k] = fetched[k]
<1>1. CASE CreatePending(j) \/ Fetch(j) \/ InsertQuotes(j) \/ ActivateBatch(j) \/ FailBatch(j)
  BY <1>1 DEF CreatePending, Fetch, InsertQuotes, ActivateBatch, FailBatch,
              Goto, OfBatches, OfWorker, OfOthers, IInv, TypeOK
<1>2. CASE Commit(j) \/ Rollback(j) \/ StatementFails(j)
  BY <1>2 DEF Commit, Rollback, StatementFails, Finish, Goto, IInv, TypeOK
<1> QED
  BY <1>1, <1>2 DEF Refresh

\* The batch that a refresh commits is active and holds one whole answer.
LEMMA CommittedBatch ==
  ASSUME IInv, NEW j \in Job, pc[j] = "commit"
  PROVE  draft[j] \in Batch /\ draft[j].status = "active" /\ draft[j].quotes \in Lists
BY DEF IInv, RefreshInv

LEMMA RefreshStepInv ==
  ASSUME IInv, NEW j \in Job, Refresh(j)
  PROVE  IInv'
<1>1. /\ TypeOK /\ OnlyWholeBatches /\ RefreshInv(j)
      /\ \A list \in Lists : list \subseteq Quote
  BY QuotesAssumption DEF IInv, Lists
<1>2. ASSUME NEW k \in Job \ {j} PROVE RefreshInv(k)'
  BY <1>2, OnlyOwn DEF IInv, RefreshInv
<1>3. SUFFICES TypeOK' /\ OnlyWholeBatches' /\ RefreshInv(j)'
  BY <1>2 DEF IInv
<1>4. CASE CreatePending(j)
  BY <1>1, <1>4 DEF CreatePending, Statement, Goto, OfWorker, OfOthers,
     TypeOK, OnlyWholeBatches, RefreshInv, Batch, Status, Steps
<1>5. CASE Fetch(j)
  <2>1. \E list \in Lists : fetched' = [fetched EXCEPT ![j] = list]
    BY <1>5 DEF Fetch, Lists
  <2>2. draft' = draft /\ draft[j] \in Batch /\ batches' = batches
    BY <1>1, <1>5 DEF Fetch, RefreshInv
  <2>3. \E step \in {"insert", "mark"} : pc' = [pc EXCEPT ![j] = step]
    BY <1>5 DEF Fetch, Goto
  <2> QED
    BY <1>1, <1>5, <2>1, <2>2, <2>3
    DEF Fetch, OfWorker, OfOthers, TypeOK, OnlyWholeBatches, RefreshInv, Steps
<1>6. CASE InsertQuotes(j)
  <2>1. draft[j] \in Batch /\ fetched[j] \in Lists
    BY <1>1, <1>6 DEF InsertQuotes, Statement, RefreshInv
  <2>2. /\ draft'[j] \in Batch /\ draft'[j].quotes \in Lists
        /\ draft' \in [Job -> Batch \cup {None}]
    BY <1>1, <1>6, <2>1 DEF InsertQuotes, TypeOK, Batch
  <2> QED
    BY <1>1, <1>6, <2>2 DEF InsertQuotes, Goto, OfWorker, OfOthers,
       TypeOK, OnlyWholeBatches, RefreshInv, Steps
<1>7. CASE ActivateBatch(j)
  <2>1. draft[j] \in Batch /\ draft[j].quotes \in Lists
    BY <1>1, <1>7 DEF ActivateBatch, Statement, RefreshInv
  <2>2. /\ draft'[j] \in Batch /\ draft'[j].quotes \in Lists
        /\ draft'[j].status = "active"
        /\ draft' \in [Job -> Batch \cup {None}]
    BY <1>1, <1>7, <2>1 DEF ActivateBatch, TypeOK, Batch, Status
  <2> QED
    BY <1>1, <1>7, <2>2 DEF ActivateBatch, Goto, OfWorker, OfOthers,
       TypeOK, OnlyWholeBatches, RefreshInv, Steps
<1>8. CASE FailBatch(j)
  <2>1. draft[j] \in Batch
    BY <1>1, <1>8 DEF FailBatch, Statement, RefreshInv
  <2>2. draft' \in [Job -> Batch \cup {None}]
    BY <1>1, <1>8, <2>1 DEF FailBatch, TypeOK, Batch, Status
  <2> QED
    BY <1>1, <1>8, <2>2 DEF FailBatch, Goto, OfWorker, OfOthers,
       TypeOK, OnlyWholeBatches, RefreshInv, Steps
<1>9. CASE Commit(j)
  <2>1. pc[j] = "commit"
    BY <1>9 DEF Commit, Statement
  <2>2. batches' \subseteq Batch /\ OnlyWholeBatches'
    BY <1>1, <1>9, <2>1, CommittedBatch DEF Commit, TypeOK, OnlyWholeBatches, Lists
  <2> QED
    BY <1>1, <1>9, <2>2 DEF Commit, Finish, Goto, OfWorker, OfOthers,
       TypeOK, RefreshInv, Steps
<1>10. CASE Rollback(j)
  BY <1>1, <1>10 DEF Rollback, Finish, Goto, OfWorker, OfOthers,
     TypeOK, OnlyWholeBatches, RefreshInv, Steps
<1>11. CASE StatementFails(j)
  <2>1. batches' \subseteq Batch /\ OnlyWholeBatches'
    BY <1>1, <1>11, CommittedBatch DEF StatementFails, TypeOK, OnlyWholeBatches, Lists
  <2>2. \/ pc[j] \in {"insert", "activate"} /\ pc' = [pc EXCEPT ![j] = "mark"]
        \/ pc' = [pc EXCEPT ![j] = "rollback"]
    BY <1>11 DEF StatementFails, Goto
  <2> QED
    BY <1>1, <1>11, <2>1, <2>2 DEF StatementFails, OfWorker, OfOthers,
       TypeOK, RefreshInv, Steps
<1> QED
  BY <1>4, <1>5, <1>6, <1>7, <1>8, <1>9, <1>10, <1>11 DEF Refresh

LEMMA WorkerStepInv ==
  ASSUME IInv,
         \/ Start \/ Fire \/ FirstRefreshDone \/ StopSignal \/ CloseClient
         \/ AskShutdown \/ SchedulerStops \/ Exit \/ Crash
  PROVE  IInv'
<1>1. TypeOK /\ OnlyWholeBatches /\ (\A j \in Job : RefreshInv(j)) /\ batches' = batches
  BY DEF IInv, Start, Fire, FirstRefreshDone, StopSignal, CloseClient, AskShutdown,
     SchedulerStops, Exit, Crash, OfBatches
<1>2. CASE Start \/ Fire
  <2>1. PICK j \in Job : pc' = [pc EXCEPT ![j] = "create"]
    BY <1>2 DEF Start, Fire, Goto, Job
  <2> QED
    BY <1>1, <1>2, <2>1 DEF Start, Fire, OfBatches, OfWorker, OfOthers,
       IInv, TypeOK, OnlyWholeBatches, RefreshInv, Steps
<1>3. CASE FirstRefreshDone \/ StopSignal \/ CloseClient \/ AskShutdown
  BY <1>1, <1>3 DEF FirstRefreshDone, StopSignal, CloseClient, AskShutdown,
     OfBatches, OfOthers, IInv, TypeOK, OnlyWholeBatches, RefreshInv
<1>4. CASE SchedulerStops
  BY <1>1, <1>4 DEF SchedulerStops, Finish, Goto, OfOthers, Job,
     IInv, TypeOK, OnlyWholeBatches, RefreshInv, Steps
<1>5. CASE Exit \/ Crash
  BY <1>1, <1>5 DEF Exit, Crash, EndProcess, OfOthers,
     IInv, TypeOK, OnlyWholeBatches, RefreshInv, Steps
<1> QED
  BY <1>2, <1>3, <1>4, <1>5

LEMMA OfferedQuotes == TypeOK => Offered \subseteq Quote
BY DEF TypeOK, Offered, Batch

LEMMA OthersStepInv ==
  ASSUME IInv, Outage \/ Home
  PROVE  IInv'
<1>1. up' \subseteq {"provider", "database"} /\ page' \in Quote \cup {Fallback, None}
  BY OfferedQuotes DEF IInv, TypeOK, Outage, Home
<1> QED
  BY <1>1 DEF Outage, Home, OfBatches, OfWorker, IInv, TypeOK, OnlyWholeBatches, RefreshInv

LEMMA NextInv == IInv /\ [Next]_vars => IInv'
<1> SUFFICES ASSUME IInv, [Next]_vars PROVE IInv'
  OBVIOUS
<1>1. CASE UNCHANGED vars
  BY <1>1 DEF vars, IInv, TypeOK, OnlyWholeBatches, RefreshInv
<1> QED
  BY <1>1, RefreshStepInv, WorkerStepInv, OthersStepInv DEF Next

\* What a refresh has collected is right at each of its steps, whatever overlaps it.
THEOREM Invariant == Spec => []IInv
<1> QED
  BY InitInv, NextInv, PTL DEF Spec

\* The state of worker, refreshes and tables has its type.
THEOREM TypeCorrect == Spec => []TypeOK
<1>1. IInv => TypeOK
  BY DEF IInv
<1> QED
  BY <1>1, Invariant, PTL

\* Only active batches that hold one whole answer of the provider, or none, are ever
\* committed (refresh_quotes_batch and the commit in refresh_quotes).
THEOREM BatchesAreWhole == Spec => []OnlyWholeBatches
<1>1. IInv => OnlyWholeBatches
  BY DEF IInv
<1> QED
  BY <1>1, Invariant, PTL

-----------------------------------------------------------------------------
(* The implementation of the shelf.                                         *)

\* A batch more fills the shelf, or leaves it as it is when it is empty.
LEMMA CommitFills ==
  ASSUME IInv, NEW j \in Job, pc[j] = "commit", batches' = batches \cup {draft[j]},
         page' = page
  PROVE  [Shelf!Next]_(Shelf!vars)
<1>1. draft[j].status = "active" /\ draft[j].quotes \in Lists
  BY CommittedBatch
<1>2. Offered' = Offered \cup draft[j].quotes
  BY <1>1 DEF Offered
<1>3. CASE draft[j].quotes = {}
  BY <1>2, <1>3 DEF Shelf!vars
<1>4. CASE draft[j].quotes \in Payloads
  BY <1>2, <1>4 DEF Shelf!Next, Shelf!Fill
<1> QED
  BY <1>1, <1>3, <1>4 DEF Lists

\* Overlapping refreshes, failures, shutdowns and crashes are, to the home page, a
\* shelf that only grows, by whole answers (get_random_quote in repositories/quotes.py).
THEOREM WorkerImplementsShelf == Spec => ImplementsShelf
<1>1. Init => Shelf!Init
  BY DEF Init, Shelf!Init, Offered
<1>2. ASSUME IInv, [Next]_vars PROVE [Shelf!Next]_(Shelf!vars)
  <2>1. ASSUME batches' = batches, page' = page PROVE UNCHANGED Shelf!vars
    BY <2>1 DEF Shelf!vars, Offered
  <2>2. CASE Home
    <3>1. Offered' = Offered
      BY <2>2 DEF Home, OfBatches, Offered
    <3> QED
      BY <2>2, <3>1 DEF Home, Shelf!Next, Shelf!Show
  <2>3. ASSUME NEW j \in Job, Refresh(j) PROVE [Shelf!Next]_(Shelf!vars)
    <3>1. page' = page
      BY <2>3 DEF Refresh, CreatePending, Fetch, InsertQuotes, ActivateBatch, Commit,
         FailBatch, Rollback, StatementFails, OfOthers
    <3>2. \/ batches' = batches
          \/ pc[j] = "commit" /\ batches' = batches \cup {draft[j]}
      BY <2>3 DEF Refresh, CreatePending, Fetch, InsertQuotes, ActivateBatch, Commit,
         FailBatch, Rollback, StatementFails, Statement
    <3> QED
      BY <1>2, <2>1, <3>1, <3>2, CommitFills
  <2>4. CASE Start \/ Fire \/ FirstRefreshDone \/ StopSignal \/ CloseClient
             \/ AskShutdown \/ SchedulerStops \/ Exit \/ Crash \/ Outage
    BY <2>1, <2>4 DEF Start, Fire, FirstRefreshDone, StopSignal, CloseClient, AskShutdown,
       SchedulerStops, Exit, Crash, Outage, OfBatches, OfOthers
  <2>5. CASE UNCHANGED vars
    BY <2>1, <2>5 DEF vars
  <2> QED
    BY <1>2, <2>2, <2>3, <2>4, <2>5 DEF Next
<1> QED
  BY <1>1, <1>2, Invariant, PTL DEF Spec, ImplementsShelf, Shelf!Spec

=============================================================================
