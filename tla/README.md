# A verification model of chatgpt-proxy

chatgpt-proxy serves an HTTP API over a logged-in ChatGPT session: threads are
created, written to and deleted through durable *runs*, which a scheduler hands
to an executor that drives Chromium. This directory models the parts where the
order of events matters, checks them with TLC on small instances, and proves with
TLAPS every safety property of them (invariants, action properties and refinements)
for instances of any size; liveness stays with TLC. `PROJECT.json` is the index:
which definition models which lines, which run checks what, which change of the
code breaks which property, which theorem proves it, and the hazards the
properties are for.

Run a check with `tlc -config ThreadRestarts.cfg RunExecution.tla`, proofs with
`tlapm PagePoolProofs.tla`. Paths below are relative to `src/` of the
repository.

## 1. The system

```
 CLI -> HTTP API -> ProxyService -> DurableRunQueue -> BrowserRunExecutor -> ChatGPT adapter
 other clients         |                |    ^               |                 |        |
                       +---- SQLite ----+    | gate          +---- SQLite   leasePage  pages of
                        (runs, threads)      |                                 |       ChatGPT
                                             +------- BrowserManager ----> PagePool
 signals -> server lifecycle -> runtime: starts and closes all of them in order
```

| part | state it keeps | operations | what is hard about it |
|---|---|---|---|
| transition table (`domain/`) | none | is a state change allowed | an error path that asks for a change the table forbids |
| rows (`db/`), reconciliation (`scheduler/restart-reconciliation.ts`) | `runs`, `threads` | create, claim, release, transition, requeue, map, set state | exits between two transactions |
| `AsyncSemaphore`, `KeyedMutex` | permits, a line; an entry per key with a reference count | acquire, release, runExclusive | entries that are dropped and made again between callers |
| `DurableRunQueue` | runs in flight, waiters, pump flag | start, enqueue, pump, launch, waitForRun, waitForIdle, close | pumps and continuations interleave; wake-ups; restarts |
| runtime, server lifecycle | what has been closed | start, listen, close on a signal, exit on a second | every wait of a shutdown depends on another part |
| `ProxyService` | none of its own | createThread, sendMessage, deleteThread | retries, keys, deduplication; a run and its thread are two commits |
| CLI client (`cli/http-client.ts`) | its run and its deadline | new, chat: post, poll, give up, look for the run | a request of which nobody knows whether it was carried out |
| `BrowserRunExecutor` | none of its own | execute, for each operation and for recovery | what to believe after an unclear failure |
| ChatGPT adapter (`browser/chatgpt/`) | none across calls | create, send, recover, delete | pages that render late, grow, redirect and close between two reads |
| `PagePool` | tabs: counted, active, idle; a line | lease, release, idle timeout, close | tabs close and leases are aborted at any await |
| `BrowserManager` | context, control page, status, shared promises | start, recover, refreshStatus, reportPageStatus, close | six tasks on one set of fields |
| artifacts, doctor, configuration, logging, test doubles | files and rows | | see section 8 |

Interactions. The service and the executor never call each other: they share the
two tables and the queue. The queue calls the executor with a context through
which progress is written; the manager calls the queue back through the dispatch
gate when its status changes; the adapter leases tabs from the manager's pool and
reports what a tab shows; a lost context closes the pool and starts a recovery.
All of it is one Node.js process, so whatever runs between two awaits is atomic,
and SQLite transactions are synchronous. The process may exit at any await.

What makes the parts correct, in one line each: a message is posted at most once
and in order (executor); an answer is final and belongs to the message (adapter);
a keyed request becomes one run (service); a command prints a run of its own
message (CLI); runs of a thread never overlap, slots are neither exceeded nor left
idle, waiters are answered (queue); permits are conserved (locks); a shutdown
ends and cuts nobody off (runtime); a tab has one user (pool); the gate is only
open over a living browser (manager).

## 2. Modules

| module | models | extends / instance of |
|---|---|---|
| `RunTransitions` | `domain/states.ts`, `run-transitions.ts` | |
| `RunStore` | the statements on both tables and the rules of reconciliation, as functions of the old row | `RunTransitions` |
| `AsyncSemaphore` | the semaphore as a record and two operators | |
| `SchedulerLocks` | the semaphore and the keyed mutex nested as in `launch()` | `AsyncSemaphore` |
| `RunQueueContract` | what the queue promises: stages of runs, one active per thread, oldest first, restarts | |
| `DurableRunQueue` | the scheduler between its awaits, with exits and restarts | `RunStore`, `AsyncSemaphore`; implements `RunQueueContract` |
| `ProxyRuntime` | the process around the queue: listening, HTTP exchanges that wait, the order of a shutdown, forced exit | `DurableRunQueue` |
| `RunExecution` | one thread end to end: service, executor, adapter outcomes, remote side, restarts | `RunStore`; implements `RunQueueContract` |
| `AdapterContract` | what a caller may rely on in one operation of the adapter | |
| `ConversationPage` | one operation of the adapter, poll by poll, over a page and a remote conversation | implements `AdapterContract` |
| `MutationRequests` | which request makes a run, is answered with one, or is refused | |
| `CommandLine` | a command that is run again after a timeout, among other clients | `MutationRequests` |
| `PagePool`, `BrowserManager` | the two files of that name | |
| `AsyncSemaphoreProofs`, `SchedulerLocksProofs`, `DurableRunQueueProofs` (with `ProxyRuntime`), `RunExecutionProofs`, `CommandLineProofs` (with `MutationRequests`), `ConversationPageProofs`, `PagePoolProofs`, `BrowserManagerProofs` | section 6 | the module proved about |
| `MCDurableRunQueue`, `MCProxyRuntime`, `MCMutationRequests`, `MCCommandLine` | constants of the checked instances | |

Contracts connect the layers: `ConversationPage` keeps to the stages of
`AdapterContract`, which are those of the actions `RunExecution` is built from;
`RunExecution` and `DurableRunQueue` meet in `RunQueueContract`, each showing that
it keeps its side.

### How they correspond to the code

*DurableRunQueue.* A variable per field or per promise: `task[r]` is the position
of the promise made by `launch()` (launched, permit, lock, executing, returned,
unlocked, settling; one per await), `permits` and `threadLocks` the locks,
`pumpScheduled` the flag, `gate` the answer of `canDispatch`. Everything up to the
next await is one action: `Pump` is the whole loop over the candidates, and
`Settle` is the `finally` block with its pump and its waiters. `Exit` wipes all but
the tables. `start()` is the steps `EnterStart`, one transaction of reconciliation
each, `LeaveStart`, because the process may exit between the transactions.
`GateMayFlip` lets the gate change between the two questions of
`executeClaimedRun`; the browser manager's gate cannot, but the interface allows it
and the code handles it.

*ProxyRuntime.* `server` is how far `startProxyServer` and `runtime.close()` have
come; `openRequests` are the exchanges a handler waits in for its run. `Shutdown`,
`CloseQueue`, `CloseAdapter` follow the order of `runtime.ts`: the server's
`close()` returns when the last exchange has ended, then the queue, then the
adapter and with it the gate. `ProcessExit` stands for a crash, a second signal, and
a signal before the handlers are installed. The browser is its gate here.

*RunExecution.* `handler` is a request between its two commits (insert the run; set
the thread's state), `exec` the position of the executor, `conv`, `posted`,
`latestTurn` what ChatGPT holds. The adapter is the disjunction `Adapter`: each
action is an outcome of the code named in the map, with the write to the run and
the thread that follows it before the next await. The queue enters through its
contract (`ClaimRun`), which both sides are checked against: `ThreadKeepsContract` here,
`QueueKeepsContract` in `DurableRunQueue`. `posted` and `clicked` are histories: how
often each run has sent its message, and confirmed its deletion.

*ConversationPage.* `pc` is the next thing the operation does: a navigation, a poll,
a click, a pause. A poll of `completion-detector.ts` has two halves, because it
reads the text first and asks for the controls later. `page` is the tab, open or
closed, at an address, showing a prefix of the turns; `turns`, `message` and `gone`
are the remote side, which moves between any two steps. A turn is its role, whose
message it is of, and whether its text is absent, partial or final.

*MutationRequests.* A handler does not await before its answer is determined, so a
request is one action. Keys, texts and thinking levels are values; what
executing does is cut down to what a handler reads. Rows are read in the order of
`created_at`, a millisecond, and then `id`, which is random (`Before`, `LastOf`): the
last message that deduplication compares with, the order of execution and, in
`CommandLine`, the pending run of a thread depend on it. The clock does not go back,
and only ids of one millisecond are ever compared.

*CommandLine.* `transit` are requests of the command that may still reach the
server after the client stopped waiting; `cli` is where the latest execution is.
Deadlines may strike wherever the client waits.

*PagePool.* `at[c]` is the position of a client's promise. Every action ends with
`drainWaiters` where the code does, inside the action.

*BrowserManager.* Contexts are numbered by `contextGeneration`. `launch`,
`recovery`, `refresh`, `logins`, `closer` are the tasks and where they are.

*SchedulerLocks.* Mutex entries have an identity, because a caller keeps the one it
found while the map may have another.

### Abstractions

* Logging, events, timestamps and texts are left out; `created_at` only where its
  order decides.
* In `RunExecution`, `beginSubmission` is three transactions (the thread, the run, the
  progress) with no await between them: only a crash within that tick could fall between.
* In `MutationRequests` a thread that was tombstoned stays so, where a later run of it
  may set another state; its name is given up for good, so that nobody finds it again.
* In `RunExecution` a message equal to the latest turn counts as sent
  (`RepeatedText`); how a page is read is `ConversationPage`'s subject.
* In `ConversationPage`, `auth_required` stands for every code that asks for an
  operator and `rate_limited` for every one that comes from an alert. What is assumed
  of the page are five constants (section 5).
* In `BrowserManager` a probe applies what its last selector found before the next
  browser message; `context.close()` succeeds; the profile is open in one browser
  at a time; `auth_required` stands also for `verification_required`; tracing is left
  out; status polling is on (its interval is positive), and a poll may come at any
  time; it is not taken to come in time.
* In `PagePool` the close of an unwanted new tab belongs to its creation.
* In `ProxyRuntime` no `close()` throws, and pruning artifacts at the start is left out.
* External: contexts and tabs of Chromium, and the conversation at ChatGPT.

## 3. Runs

| run | question | bounds | states |
|---|---|---|---|
| `SchedulerLocks` | are the nested locks safe and live? | 4 callers, 2 keys, 3 entries, 3 permits | 50,000 |
| `Runtime` | no idle slot, active means executing, the limit, contract, progress; exchanges are completed and a shutdown ends | 3 sends of 2 threads, 1 slot, depth 2, one awaited, exits unbounded | 207,000 |
| `QueueRecovery` | serialisation, waiters, forgotten submissions, rewritten outcomes | creation and deletion of one thread, 2 slots, depth 1, all reports and results, flipping gate, equal milliseconds, both kinds of waiters | 420,000 |
| `ThreadRestarts` | nothing sent or deleted twice, in order, settled, contract | 3 runs, 2 exits, repeated texts | 359,000 |
| `Requests` | one run per keyed request; what a command prints and names | 5 requests, 2 of them executions of one command, 2 threads, 4 runs, equal milliseconds, depth 2 | 1,249,000 |
| `PagePool` | limit, exclusivity, no lost wake-up, no leak | 3 clients, 4 tabs over time, 2 at once | 295,000 |
| `BrowserLifecycle` | gate, noticed loss, answered refreshes | 3 contexts, 2 attempts, 1 login navigation | 168,000 |
| `Page` | final answers, deletions told as they are, stages of `AdapterContract` | one operation of each kind, one earlier exchange | 9,900 |
| `AnswerOfAnotherMessage`, `SecondDeletion`, `RetryWithThinking`, `BrowserLeftOpen` | section 7 | | violated |

Why the bounds are enough. The pump's choices need two runs of one thread, one of another,
and fewer slots than threads: `Runtime`. That two runs of one thread are kept apart
although a slot is free for each: `QueueRecovery`, with two slots. Runs of one thread that
wait for each other settle in `ThreadRestarts`. A hand-off with a queue behind it needs
three callers of one permit and a fourth that finds the key absent: `SchedulerLocks`.
Posting twice needs one exit and one recovery, posting late one more run behind it; two
exits also cut a recovery off, and the third run is a deletion: `ThreadRestarts`. Requests
collide in threes (the accepted one, one with its key, one with its text) and once more
after the thread was deleted; a command is confused by a first execution whose request
arrives after the second has begun. Two places for an id give a run either order with the
one before it, and a third run shows what a later one makes of that order: `Requests`. A
pool of two with three clients has a line, and a fourth identity lets tabs be replaced.
Three contexts allow a loss during the recovery from a loss. An operation of the adapter
takes one page and one message, and what an earlier turn can do to it one earlier turn
does: `Page`. Deadlock is checked where the system may not stop (`SchedulerLocks`);
elsewhere bounded counters, or the end of the one operation, end the behaviours and the
configurations say so.

Type invariants are proved for every component (section 6), where they are part of the
inductive invariant.

## 4. Fairness

Safety runs that need none use `Safety` (`Init /\ [][Next]_vars`).

* `SchedulerLocks`, `DurableRunQueue`: weak fairness of every continuation. The
  event loop runs the continuation of every settled promise, each wait of the
  adapter has a timeout so that the executor returns, and the service is run
  under a supervisor that starts it again. Callers, the gate, `close()` and exits
  are not fair: `QueuedEventuallySettles` assumes that the gate is open for good.
* `ProxyRuntime` adds weak fairness of `Listen`, `CloseQueue` and `CloseAdapter`,
  the continuations of a start and a shutdown. No signal need come, and no client need
  leave: `ShutdownCompletes` speaks of a shutdown that has begun, and assumes that the
  gate is open while the server closes. With the gate closed for good it does not
  end: the request of a client that waits for a queued run is never answered, until
  the client leaves or a second signal of the same kind ends the process.
* `RunExecution`: `WF_vars(Service)`, that is, some step of the service is taken;
  which one stays open, so that settling is shown for every choice the adapter
  may make. New requests do not count as progress; the number of runs is bounded.
* `BrowserManager`: weak fairness of each step of a launch, a recovery and a
  refresh, since launching, navigating and probing have timeouts. Nothing is
  assumed of the browser or of callers.

## 5. Properties

Each is stated with the code or document it is about in its module. The ones that
carry the project: `NeverPostedTwice`, `PostsInOrder`, `DeletionConfirmedOnce` and
`NothingSentAfterDeletion` (RunExecution); `AnswersWithFinalText` and `DeletionTold`
(ConversationPage); `ThreadSerialization`, `ActiveMeansExecuting`, `WorkConserving`,
`NeverForgetsSubmission`, `OutcomeStands` and the refinement `QueueKeepsContract`
(DurableRunQueue); `RequestsComplete` and `ShutdownCompletes` (ProxyRuntime);
`AtMostOneRunPerRequest` (MutationRequests); `PrintsItsOwnMessage` (CommandLine);
`TabsNotShared` and `NoWaiterForgotten` (PagePool); `GateOpenMeansContext` and
`RefreshAnswered` (BrowserManager); `MutualExclusion` and `EntriesMatchUse`
(SchedulerLocks). Definitions marked *Mutant* are plausible bugs; the index says which
property each of them violates.

Some properties are narrower than one might wish, because the code is:

* `AtMostOneRunPerRequest` and `RetryReturnsSameRun` hold without deduplication only (a
  request answered by deduplication leaves no trace of its key).
* `NothingSentAfterDeletion` holds while the process stays up (an exit between the two
  commits of a deletion leaves the thread open).
* `UncertainNotDeclaredAbsent` speaks of creations on record as possibly submitted; one
  cut off between the click and its confirmation is on record as `typed`.
* `AnswersWithFinalText` exempts a tab that closes between the two halves of a poll: its
  controls are then not found, and a partial text that was stable counts as the answer.
* `DeletionTold` exempts a tab that closes in the pause after the confirming click: the
  run fails although the conversation is, or will be, gone.
* `NoConsecutiveRepeats` exempts what the order of a millisecond makes: if A and then B
  are accepted in one, and the random id of B is the smaller, A is the last message of the
  thread, and a repeat of B makes another run. (With distinct milliseconds the exemption
  is empty, and no two consecutive messages are equal.)
* `PrintsItsOwnMessage` allows a run of another client with the same text (that is
  deduplication). `NamesNoEarlierRun` does not say that the run named is the command's
  own, and exempts an earlier one of the same millisecond, for the same reason. A
  connection that fails after the request was carried out names no run, and the timeout of
  `response.text()` is reported as it is thrown.

The page is not ours. `Page` holds under five assumptions, and these properties fail
when one is dropped:

| constant | assumption | without it |
|---|---|---|
| `HistoryMayLag = FALSE` | a loaded conversation shows its turns at once | `AnswersWithFinalText`, `PageKeepsContract`: late history looks like the message that was sent, and its answer is taken |
| `OldAnswerMayGrow = FALSE` | earlier answers are finished | the same two: an old answer that grows is a new one |
| `RepeatedText = FALSE` | the message differs from the latest one | `PageKeepsContract`: a message not sent is confirmed |
| `LoginRedirects = FALSE` | an expired login shows a login page | `DeletionTold`, `PageKeepsContract`: another URL is taken for absence, and the thread is declared deleted |
| `CopyReadable = TRUE` | a final answer has a copy control that can be read | `AnswersWithFinalText`: stable text has to do |

Three more things the models show and no property demands otherwise. An answer that
completes between the settling of the turns and the snapshot of an inspection
(`recovery.ts:98`) is in the snapshot and never taken; the inspection ends in
`response_timeout` and the next recovery finds it. A failure during an inspection
replaces the ambiguity it was to clear up (`recovery.ts:91`, `:126`), so that the
operator sees, say, a timeout, to which the advice against repeating a prompt after a
submission-ambiguous failure (`docs/OPERATIONS.md:158`) does not apply by its wording.
The signature that tells old answers from new is cut to 2000 characters
(`completion-detector.ts:45`), so that growth beyond them is not seen by it.

## 6. Proofs

No proof assumes more than the named assumptions on constants; what is added to
them is said where it is.

**Locks** (`SchedulerLocksProofs`), for every set of callers, keys and entries and every
capacity: `TypeOK`, `PermitsConserved`, `NobodyWaitsInVain`, `BoundedConcurrency`,
`MutualExclusion`, `EntriesMatchUse`. None is inductive. `MutualExclusion`, say, needs
that whoever works holds the permit of the entry *its key has in the map*, which needs
that the entry was not dropped while the caller was in line, which needs that the
reference count is the number of callers that have it. The inductive invariant is
`IInv == TypeOK /\ PermitSide /\ EntryOfKey /\ EntrySide`:

* `PermitSide`: the outer semaphore is *sound* (permits add up, no line beside a
  free permit, nobody at it twice), and the callers at it are those not idle;
* `EntryOfKey`: callers between lock and leave have the entry the map has for their
  key, and no entry serves two keys;
* `EntrySide`: an entry in the map has users, counts them, and its semaphore is
  sound for capacity 1 with exactly its waiting and working users at it.

`AsyncSemaphoreProofs` shows once that a new semaphore is sound and that `Acquire` and
`Release` keep soundness and say who is at it; locks and queue use the same lemmas.

**Queue** (`DurableRunQueueProofs`), for every set of runs and threads, every limit and
depth, with exits anywhere. Two inductive invariants:

* `RowInv == TypeOK /\ AtRest /\ ExecutingActive /\ Unsubmitted /\ NoForgottenWaiter`.
  `AtRest`: without a running process nothing is in flight. `ExecutingActive`: a task
  between claim and outcome has an active row. `Unsubmitted`: a queued or just
  claimed run that is no recovery has submitted nothing, which is why claiming, or giving
  a claim back, erases nothing. With one lemma on which statements can change a row
  (`RowChanges`) follow `QueueNeverForgetsSubmission` and `QueueOutcomeStands`.
* `LockInv == PermitSide /\ LockSide /\ ThreadSerialization /\ InFlightBounded`. Tasks
  in flight are added by the pump alone; what one pump adds is counted in `LaunchBound`
  (no more than the free slots, and no two of a thread). `PermitSide` and `LockSide` say
  who is at the permits and locks, and with the bound that a launched run never
  waits for either.

*No lost wake-up.* `QueueWorkConserving` rests on `Awake`: with the gate open, a free slot,
no more runs than the depth and a run whose thread is free, a pump is scheduled. The steps
that can bring this about (an acceptance, a settlement, a gate that opens, the end of
`start()`) schedule a pump, all others leave what is queued or in flight as it is, and a
pump leaves a run behind only when its thread or every slot is taken (`LaunchFills`: the
first candidate of a free thread would have been launched).

*Contract.* The queue implements `RunQueueContract`, and a row is active exactly while
its executor runs, under `Orderly == ~SameMillisecond /\ ~GateMayFlip`. Both conditions
are needed. Runs accepted in one millisecond are ordered by a random id, so that a later
one may overtake. A claim that is given back because the gate closed meanwhile goes
through `releaseClaim`, which throws for a recovery, whose row stays active with no
executor. `ContractInv` adds to the two invariants: `Stamps` (later acceptances have
later times), `OldestQueued` (a launched run that is not yet claimed is the oldest queued
one of its thread), `InFlightAccepted`, `ActiveExecutes`.

*Service* (`ProxyRuntime`). `RuntimeUsesQueue`: the process makes only the use of the
queue that `DurableRunQueue` allows, so that all of the above holds in it
(`RuntimeConcurrency`, `RuntimeWorkConserving`, `RuntimeImplementsContract`).
`RuntimeRequestsComplete`: from `Exchanges` (an open exchange has its waiter; the queue is
not closing while one is open) follows that a shutdown never ends the exchange of a
client that stays.

**Executor** (`RunExecutionProofs`), for any number of runs and exits: all six safety
properties of `RunExecution`, and that its stages keep `RunQueueContract`. The inductive
invariant is
`ExecutionInv == Shape /\ Unsent /\ Backed /\ Tombstoned /\ Busy /\ LastWords`:

* `Shape`: types, and what the row of the run in execution says at each position of the
  executor. Everything else needs it: what a write may do to a row is decided by the state
  the row is in.
* `Unsent`: a *fresh* run (its row was never beyond the claim of a first attempt, or the
  adapter is about to send the message or to confirm the deletion) was neither posted nor
  confirmed, and nothing accepted after it was posted. That a run which left this set never
  returns to it gives `NeverPostedTwice` and `DeletionConfirmedOnce`; "nothing after it"
  gives `PostsInOrder`.
* `Backed`: a message that was posted, and a thread that is mapped, have a conversation.
* `Tombstoned`: a thread declared deleted at ChatGPT is, or its creation is over for good
  without a trace of a submission (`UncertainNotDeclaredAbsent`).
* `Busy`: a thread that says it is busy has a run to wait for, also between the two commits
  of a handler (`BusyMeansPending`).
* `LastWords`: before the first exit a deletion comes after every message of its thread, and
  the messages still pending when it was accepted are settled before it tombstones the
  thread (`NothingSentAfterDeletion`).

The proofs go by twelve kinds of step instead of the 35 alternatives of `Next`; `StepKinds`
says that there are no others.

**Requests and command line** (`CommandLineProofs`), for any requests, keys, names, texts
and levels. A handler refuses, answers with a run that is there, adds one, or makes a
thread with its first (`Handled`). `RequestsInv` consists of the types, `KeyUnique` (a key
has one run of its kind in a thread), `NamesUnique` (a name has one living thread),
`OwnAnswers` (what a request was answered with carries its text and its kind), `RowOrder`
(rows are inserted with times that do not go back, and those of one millisecond have
different ids), `HasLatest` (every thread has a last message) and `NoConsecutiveRepeats`.
Since a new row may stand before older ones of its millisecond, the last step is to
compare the two orders: a message that is not the last of its thread although it was
inserted last has one of its own millisecond behind it. `RequestsRetryReturnsSameRun`
assumes `PlainThinking`, that nobody asks for another level than `medium`; without it the
property is false, which run `RetryWithThinking` shows. `CommandLineImplementsRequests`
shows that the command, its retries and its polling use the requests as `MutationRequests`
allows, so that all of this holds with it; `CliInv` ties the run the command has to the
answers of its own request.

**Adapter** (`ConversationPageProofs`). Types (`PageTypeOK`) hold whatever the page does. Each
property is proved from those of the assumptions of section 5 that it needs, for both
values of the others: `DeletionTold` from `~LoginRedirects`; `AnswersWithFinalText` from
`~HistoryMayLag`, `~OldAnswerMayGrow` and `CopyReadable`; `PageKeepsContract` from all but
`CopyReadable`. So the table there is exact: what it says breaks a property is needed, and
nothing else is. The argument: `TurnsOK` (own turns stand behind the old ones, at most one
old turn of a role), `Control`, `Gone`, `Place` (what the point that was reached says of
message, deletion and address) hold always. If history loads at once, a page that shows a
turn shows all old ones (`View`), and if old answers do not grow the snapshot keeps
describing them (`Snapped`). What differs from the snapshot is then the message or its
answer: `TargetIsRight`, `VisibleIsSent`. That the copied text is final
(`CopiedIsFinal`) follows because a turn that is not final is still being written, which
the poll has excluded.

**Manager** (`BrowserManagerProofs`), for any number of contexts, attempts and logins:
`ManagerInv == TypeOK /\ OneContext /\ GateOpenMeansContext /\ LossNoticed`. `OneContext` is
what both properties rest on: until the manager is closed, the context that exists is the
one it holds, of the latest generation, and no loss of one is expected. A late observation
is then `ready` only of that context, and a loss always begins a recovery or is seen by
the next poll.

**Pool** (`PagePoolProofs`), for every set of clients and tabs and every limit: `TypeOK`,
`PoolBounded`, `TabsNotShared`, `NoWaiterForgotten`, `NoTabLeaks`. Every step that can
make room ends in `drainWaiters`; what a drain does is stated once (`DrainEffect`), and
what it keeps is proved for whatever the step leaves it with (`DrainKeeps`). `PoolInv`
is the last three of these and

* `Counted`: `creatingPages` is the number of clients whose tab is on its way, without
  which the limit is not inductive;
* `InLine`: the line has each waiting client once, so that a drain serves no client
  twice;
* `Owned`: idle tabs exist, are listed once, and nobody has them, and a tab has one
  holder.

**Model-checked only**: liveness (`EveryCallerServed`, `QueuedEventuallySettles`,
`ShutdownCompletes`, `AcceptedEventuallySettles`, `RefreshAnswered`), which the proof
system does not do under fairness, and the absence of deadlock (`SchedulerLocks`), which
needs `ENABLED`. No recursive operator is used, and no induction over data: that a set of runs
has a first one is shown by counting (`FirstRun`), and that the turns of a role have a
latest one by how few they are (`LatestOfRole`).

## 7. Where the code and its documents disagree

1. `AnswerOfAnotherMessage`: recovery is documented to compare the latest user turn with
   the message (`README.md:97`); `recovery.ts` does not see the message. A send
   whose click failed can succeed with the previous answer.
2. `SecondDeletion`: a message to an unmapped thread writes `orphaned` over
   `delete_pending` (`browser-run-executor.ts:291`); a second deletion gets in.
3. `RetryWithThinking`: a retry does not carry its thinking level
   (`proxy-service.ts:188`) and is refused unless the level was `medium`.
4. `BrowserLeftOpen`: `close()` during a launch does not wait for it
   (`manager.ts:389`); Chromium stays open after a shutdown that "closes cleanly".

Read, not checked: `docs/OPERATIONS.md:99` says that a second signal forces the exit;
`server-lifecycle.ts` (68-88) does so for a second one of the same kind, and ignores a
`SIGTERM` that follows a `SIGINT`. `README.md:128` promises the existing run for an exact
repeat of the most recently submitted message; of two messages of one millisecond the
service takes the one with the larger random id for the last (`run-repository.ts:301`,
`proxy-service.ts:198`), which may be the earlier.

## 8. Not modelled

* Diagnostic artifacts: nothing else reads them. Two observations from reading: an
  exit between the write of a file and the insertion of its row leaves a file no pruning
  finds, and removing the parent directory without recursion is refused, so that empty
  directories of runs stay.
* Of the CLI: deletion (one request that waits at the server), `--no-wait`, the read-only
  commands, parsing and printing. Of the API: validation, authentication and
  presentation, which keep no state.
* Of the adapter: `inspectConversation`, which nothing calls, and the evidence kept for
  a failed run. Selectors and URL parsing are functions of somebody else's page.
* Of the manager: tracing, and `leasePage`, a refresh followed by a lease.
* The doctor report, configuration, logging: stateless, or read once. Migrations and
  events: no decision reads them. The fake adapter and the fixture corpus serve the tests.

## 9. Plan

Done: rows and transitions; locks; queue and contract; thread end to end; requests; pool
and manager; the adapter at the grain of polls and its contract; the runtime and its
shutdown; the command line; proofs of every safety property of all of them.

Left, most important first:

1. The executor on top of `AdapterContract` itself, shown to implement `RunExecution`: that
   the outcomes `RunExecution` allows are all the contract has is by reading so far.
2. Manager and pool together: leases across the loss of a context.
3. Diagnostic artifacts (file, row, prune), and deletions from the command line.
