------------------------------- MODULE Quotes -------------------------------
(***************************************************************************)
(* The quote worker, the refreshes it runs and the home page that reads    *)
(* what they store (src/quote_worker.py, src/jobs/refresh_quotes.py,       *)
(* src/services/quotes.py, src/services/zen_quote.py).                     *)
(*                                                                         *)
(* The worker is one process with one event loop; at each await another of *)
(* its tasks may run.  A refresh is one transaction, invisible until its   *)
(* commit.  Batches have no identity a reader could tell, so the tables    *)
(* quote_batches and quotes are the set of what their batches hold.        *)
(***************************************************************************)
EXTENDS FiniteSets

CONSTANTS
  Quote,       \* the quotes of the provider
  Payloads,    \* the lists it answers with, invalid and overlong items dropped
  Fallback,    \* FALLBACK_QUOTES
  None

ASSUME QuotesAssumption ==
  /\ Payloads \subseteq SUBSET Quote /\ {} \notin Payloads
  /\ {Fallback, None} \cap Quote = {} /\ Fallback # None

VARIABLES
  batches,     \* committed batches, each with its quotes
  pc,          \* the next step of each refresh
  draft,       \* its uncommitted batch, or None
  fetched,     \* the list it has fetched and not inserted yet
  worker,      \* where run_quote_worker is
  scheduled,   \* the scheduler is running
  stop,        \* the stop event is set
  up,          \* which of the provider and the database answer
  page         \* what the home page showed last

vars == <<batches, pc, draft, fetched, worker, scheduled, stop, up, page>>

\* The refresh awaited at the start, and the job of the scheduler.
Job == {"first", "timer"}
Status == {"pending", "active", "inactive"}
Batch == [status : Status, quotes : SUBSET Quote]
Steps == {"idle", "create", "fetch", "insert", "activate", "commit", "mark", "rollback"}

Init ==
  /\ batches = {}
  /\ pc = [j \in Job |-> "idle"]
  /\ draft = [j \in Job |-> None]
  /\ fetched = [j \in Job |-> {}]
  /\ worker = "off" /\ scheduled = FALSE /\ stop = FALSE
  /\ up = {"provider", "database"}
  /\ page = None

OfBatches == <<batches, draft, fetched>>
OfWorker == <<worker, scheduled, stop>>
OfOthers == <<up, page>>

Goto(j, step) == pc' = [pc EXCEPT ![j] = step]

Statement(j, step) == pc[j] = step /\ "database" \in up

-----------------------------------------------------------------------------
(* A refresh: refresh_quotes, refresh_quotes_batch and fetch_batch.         *)

CreatePending(j) ==
  /\ Statement(j, "create")
  /\ draft' = [draft EXCEPT ![j] = [status |-> "pending", quotes |-> {}]]
  /\ Goto(j, "fetch")
  /\ UNCHANGED <<batches, fetched, OfWorker, OfOthers>>

\* The client is closed when run_quote_worker leaves its `async with`.
ClientOpen == worker \in {"first", "waiting"}

ProviderAnswers == ClientOpen /\ "provider" \in up

\* Mutant: the request has no timeout.
FetchWithoutTimeout(j) ==
  /\ pc[j] = "fetch" /\ ProviderAnswers
  /\ \E list \in Payloads : fetched' = [fetched EXCEPT ![j] = list]
  /\ Goto(j, "insert")
  /\ UNCHANGED <<batches, draft, OfWorker, OfOthers>>

\* Too many requests, a timeout, a lost connection and an unreadable body count
\* as an empty list; any other error, a closed client among them, raises.
Fetch(j) ==
  /\ pc[j] = "fetch"
  /\ \/ /\ ProviderAnswers
        /\ \E list \in Payloads : fetched' = [fetched EXCEPT ![j] = list]
        /\ Goto(j, "insert")
     \/ /\ ~ProviderAnswers
        /\ fetched' = [fetched EXCEPT ![j] = {}]
        /\ Goto(j, "insert") \/ Goto(j, "mark")
  /\ UNCHANGED <<batches, draft, OfWorker, OfOthers>>

InsertQuotes(j) ==
  /\ Statement(j, "insert")
  /\ draft' = [draft EXCEPT ![j].quotes = fetched[j]]
  /\ fetched' = [fetched EXCEPT ![j] = {}]
  /\ Goto(j, "activate")
  /\ UNCHANGED <<batches, OfWorker, OfOthers>>

ActivateBatch(j) ==
  /\ Statement(j, "activate")
  /\ draft' = [draft EXCEPT ![j].status = "active"]
  /\ Goto(j, "commit")
  /\ UNCHANGED <<batches, fetched, OfWorker, OfOthers>>

\* Mutant: the batch gets a status that the column does not know.
FailBatchUnknown(j) ==
  /\ Statement(j, "mark")
  /\ draft' = [draft EXCEPT ![j].status = "error"]
  /\ Goto(j, "rollback")
  /\ UNCHANGED <<batches, fetched, OfWorker, OfOthers>>

\* fail_batch, after which the exception is raised again.
FailBatch(j) ==
  /\ Statement(j, "mark")
  /\ draft' = [draft EXCEPT ![j].status = "inactive"]
  /\ Goto(j, "rollback")
  /\ UNCHANGED <<batches, fetched, OfWorker, OfOthers>>

\* The end of a refresh: the session closes, what is not committed is gone.
Finish(j) ==
  /\ Goto(j, "idle")
  /\ draft' = [draft EXCEPT ![j] = None]
  /\ fetched' = [fetched EXCEPT ![j] = {}]

\* Mutant: the new batch takes the place of the ones before it.
CommitAndReplace(j) ==
  /\ Statement(j, "commit")
  /\ batches' = {draft[j]}
  /\ Finish(j)
  /\ UNCHANGED <<OfWorker, OfOthers>>

\* Mutant: the session is closed without a commit.
CloseWithoutCommit(j) ==
  /\ Statement(j, "commit")
  /\ Finish(j)
  /\ UNCHANGED <<batches, OfWorker, OfOthers>>

Commit(j) ==
  /\ Statement(j, "commit")
  /\ batches' = batches \cup {draft[j]}
  /\ Finish(j)
  /\ UNCHANGED <<OfWorker, OfOthers>>

\* refresh_quotes swallows every exception.
Rollback(j) ==
  /\ pc[j] = "rollback"
  /\ Finish(j)
  /\ UNCHANGED <<batches, OfWorker, OfOthers>>

\* A statement fails; of a commit nobody knows whether it was done.
StatementFails(j) ==
  /\ "database" \notin up
  /\ \/ pc[j] \in {"insert", "activate"} /\ Goto(j, "mark") /\ UNCHANGED batches
     \/ pc[j] \in {"create", "mark", "commit"} /\ Goto(j, "rollback") /\ UNCHANGED batches
     \/ pc[j] = "commit" /\ Goto(j, "rollback") /\ batches' = batches \cup {draft[j]}
  /\ UNCHANGED <<draft, fetched, OfWorker, OfOthers>>

Refresh(j) ==
  \/ CreatePending(j) \/ Fetch(j) \/ InsertQuotes(j) \/ ActivateBatch(j) \/ Commit(j)
  \/ FailBatch(j) \/ Rollback(j) \/ StatementFails(j)

-----------------------------------------------------------------------------
(* The worker: run_quote_worker.                                            *)

\* All tasks of the process end, with them their transactions.
EndProcess ==
  /\ worker' = "off" /\ scheduled' = FALSE
  /\ pc' = [j \in Job |-> "idle"]
  /\ draft' = [j \in Job |-> None]
  /\ fetched' = [j \in Job |-> {}]

\* The scheduler is started before the first refresh is awaited.
Start ==
  /\ worker = "off"
  /\ worker' = "first" /\ scheduled' = TRUE /\ stop' = FALSE
  /\ Goto("first", "create")
  /\ UNCHANGED <<OfBatches, OfOthers>>

\* The interval has passed; max_instances = 1 skips a job that is still running.
Fire ==
  /\ scheduled /\ pc["timer"] = "idle"
  /\ Goto("timer", "create")
  /\ UNCHANGED <<OfBatches, OfWorker, OfOthers>>

FirstRefreshDone ==
  /\ worker = "first" /\ pc["first"] = "idle"
  /\ worker' = "waiting"
  /\ UNCHANGED <<OfBatches, pc, scheduled, stop, OfOthers>>

\* SIGTERM or SIGINT.
StopSignal ==
  /\ worker # "off" /\ stop' = TRUE
  /\ UNCHANGED <<OfBatches, pc, worker, scheduled, OfOthers>>

\* The stop event is only looked at after the first refresh; the client closes.
CloseClient ==
  /\ worker = "waiting" /\ stop
  /\ worker' = "closing"
  /\ UNCHANGED <<OfBatches, pc, scheduled, stop, OfOthers>>

\* scheduler.shutdown(wait=False) only asks the event loop to shut it down.
AskShutdown ==
  /\ worker = "closing"
  /\ worker' = "disposing"
  /\ UNCHANGED <<OfBatches, pc, scheduled, stop, OfOthers>>

\* The executor of the scheduler cancels the job it is running.
SchedulerStops ==
  /\ worker = "disposing" /\ scheduled
  /\ scheduled' = FALSE
  /\ Finish("timer")
  /\ UNCHANGED <<batches, worker, stop, OfOthers>>

\* engine.dispose() is done and asyncio.run cancels the tasks that are left.
Exit ==
  /\ worker = "disposing"
  /\ EndProcess
  /\ UNCHANGED <<batches, stop, OfOthers>>

Crash ==
  /\ worker # "off"
  /\ EndProcess
  /\ UNCHANGED <<batches, stop, OfOthers>>

-----------------------------------------------------------------------------
(* The others: the provider, the database and the home page.                *)

Outage ==
  /\ \E service \in {"provider", "database"} :
       up' = IF service \in up THEN up \ {service} ELSE up \cup {service}
  /\ UNCHANGED <<OfBatches, pc, OfWorker, page>>

Offered == UNION {b.quotes : b \in {c \in batches : c.status = "active"}}

\* get_random_quote: any quote of any active batch, or a fallback.
Home ==
  /\ "database" \in up
  /\ page' \in (IF Offered = {} THEN {Fallback} ELSE Offered)
  /\ UNCHANGED <<OfBatches, pc, OfWorker, up>>

Next ==
  \/ \E j \in Job : Refresh(j)
  \/ Start \/ Fire \/ FirstRefreshDone \/ StopSignal \/ CloseClient
  \/ AskShutdown \/ SchedulerStops \/ Exit \/ Crash
  \/ Outage \/ Home

\* The event loop runs every task that can run, the interval always passes again,
\* and the container is restarted unless it was stopped.  Nothing is assumed of
\* signals, crashes, outages and visitors.
Fairness ==
  /\ \A j \in Job : WF_vars(Refresh(j))
  /\ WF_vars(Fire)
  /\ WF_vars(Start /\ ~stop)
  /\ WF_vars(FirstRefreshDone) /\ WF_vars(CloseClient)
  /\ WF_vars(AskShutdown) /\ WF_vars(Exit)

Spec == Init /\ [][Next]_vars /\ Fairness

-----------------------------------------------------------------------------

TypeOK ==
  /\ batches \subseteq Batch
  /\ pc \in [Job -> Steps]
  /\ draft \in [Job -> Batch \cup {None}]
  /\ fetched \in [Job -> SUBSET Quote]
  /\ worker \in {"off", "first", "waiting", "closing", "disposing"}
  /\ scheduled \in BOOLEAN /\ stop \in BOOLEAN
  /\ up \subseteq {"provider", "database"}
  /\ page \in Quote \cup {Fallback, None}

\* What is committed is active and is one answer of the provider, or nothing.
OnlyWholeBatches ==
  \A b \in batches : b.status = "active" /\ b.quotes \in Payloads \cup {{}}

Shelf == INSTANCE QuoteShelf WITH offered <- Offered

\* The two refreshes and the worker around them are, to the home page, a shelf of
\* quotes that only grows, by whole answers of the provider: no page draws from a
\* pending batch, half a batch or a failed one, an answer without quotes, stored as an
\* empty batch, hides nothing, and once a page could show a stored quote no page falls
\* back again.  Refreshes that overlap, failing statements, a shutdown that does not
\* wait for its job and crashes do not change that (refresh_quotes_batch, the commit in
\* refresh_quotes, scheduler.shutdown(wait=False)).
ImplementsShelf == Shelf!Spec

\* A worker that is told to stop does stop, also during its first refresh, before
\* which the event is not looked at, and while provider and database are down.
StopsWhenTold == stop ~> worker = "off"

\* When provider and database come back and stay, and the worker is neither stopped
\* nor crashes any more, quotes arrive, however the refreshes before then ended.
QuotesArrive ==
  <>[](up = {"provider", "database"} /\ ~stop /\ worker # "off") => <>(Offered # {})

=============================================================================
