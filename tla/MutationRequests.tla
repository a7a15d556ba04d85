-------------------------- MODULE MutationRequests --------------------------
(***************************************************************************)
(* ProxyService at its front door: which mutating requests create a run,   *)
(* which are answered with an earlier one and which are refused, when the  *)
(* requests of several clients arrive in any order and any of them arrives *)
(* again, late, or never (a client that got no answer asks again with the  *)
(* same idempotency key).                                                  *)
(*                                                                         *)
(* A handler runs to its end before it awaits the run, so that a request   *)
(* is one action.  What executing a run does is cut down to what a handler *)
(* reads: the run leaves the queue and the thread is ready, blocked or     *)
(* tombstoned (RunExecution has the whole of it).                          *)
(***************************************************************************)
EXTENDS Integers, Sequences, FiniteSets

CONSTANTS
    Requests,           \* what clients ask for, see RequestType
    NoKey,              \* stands for a request without idempotency key
    MaxThreads,         \* bound on the number of threads ever made
    MaxRuns,            \* bound on the number of runs ever made
    MaxQueueDepth,
    ConfiguredThinking, \* chatgpt.thinking_level
    RemoteConfigured,   \* chatgpt.delete_remote_thread
    Ids,                \* places the random id may give a run in its millisecond
    SameMillisecond     \* two runs may be accepted in one millisecond

Levels == {"instant", "medium", "high"}

(* id tells requests apart; text is the message, or for a deletion whether *)
(* it is to be "local" or "remote".  thinking "absent" is left to the      *)
(* configuration.                                                          *)
RequestType(q) ==
    /\ q.op \in {"create_thread", "send_message", "delete_thread"}
    /\ q.thinking \in Levels \cup {"absent"}
    /\ q.op = "delete_thread" => q.text \in {"local", "remote"} /\ q.thinking = "absent"
    /\ DOMAIN q = {"id", "op", "name", "key", "text", "thinking"}

ASSUME RequestAssumptions ==
    /\ IsFiniteSet(Requests)
    /\ \A q \in Requests : RequestType(q)
    /\ \A p, q \in Requests : p.id = q.id => p = q
    /\ MaxThreads \in Nat /\ MaxRuns \in Nat
    /\ MaxQueueDepth \in Nat \ {0}
    /\ ConfiguredThinking \in Levels
    /\ RemoteConfigured \in BOOLEAN
    /\ Ids \subseteq Int /\ 0 \in Ids
    /\ SameMillisecond \in BOOLEAN

VARIABLES
    deduplicate, \* chatgpt.deduplicate_last_message, read once at start
    threads,    \* the threads table: [name, state]
    runs,       \* the runs table, in the order of insertion:
                \* [thread, op, key, text, thinking, createdAt, id, state]
    response,   \* the last answer: the request, a code, and a run or 0
    answers     \* history: the runs each request was answered with

vars == <<deduplicate, threads, runs, response, answers>>

Init ==
    /\ deduplicate \in BOOLEAN
    /\ threads = <<>>
    /\ runs = <<>>
    /\ response = [request |-> "none", code |-> "none", run |-> 0]
    /\ answers = [q \in Requests |-> {}]

-----------------------------------------------------------------------------
Tombstoned(t) == threads[t].state = "tombstoned"

(* getByName: normalized_name is unique, and a tombstone gives it up (for  *)
(* good: setState never gives it back, whatever the state is set to).      *)
Named(name) == {t \in DOMAIN threads : threads[t].name = name /\ ~Tombstoned(t)}

(* Mutant: only runs that still wait are looked for. *)
PriorQueued(t, q) ==
    {r \in DOMAIN runs : /\ q.key # NoKey
                         /\ runs[r].thread = t /\ runs[r].op = q.op /\ runs[r].key = q.key
                         /\ runs[r].state = "queued"}
(* findByIdempotency *)
Prior(t, q) ==
    {r \in DOMAIN runs : /\ q.key # NoKey
                         /\ runs[r].thread = t
                         /\ runs[r].op = q.op
                         /\ runs[r].key = q.key}

Queued == {r \in DOMAIN runs : runs[r].state = "queued"}

QueueFull(n) == n >= MaxQueueDepth

Messages(t) == {r \in DOMAIN runs : runs[r].thread = t /\ runs[r].op # "delete_thread"}

(* ORDER BY created_at, id                                                 *)
Before(r, s) ==
    \/ runs[r].createdAt < runs[s].createdAt
    \/ runs[r].createdAt = runs[s].createdAt /\ runs[r].id < runs[s].id

LastOf(R) == {r \in R : \A s \in R : ~Before(r, s)}

(* Mutant: only what has been carried out is compared. *)
RepeatedSettled(t, text) ==
    {r \in LastOf({s \in Messages(t) : runs[s].state # "queued"}) : runs[r].text = text}
(* The last message of the thread, sent or not, if it is this one.         *)
Repeated(t, text) == {r \in LastOf(Messages(t)) : runs[r].text = text}

ThinkingOf(q) == IF q.thinking = "absent" THEN ConfiguredThinking ELSE q.thinking

(* createOrGet compares what it is given with the row it found.  A retry   *)
(* passes no thinking level on, which is then "medium".                    *)
NeverConflicts(r, q) == FALSE    \* Mutant
Conflicts(r, q) == runs[r].text # q.text \/ runs[r].thinking # "medium"

Answer(q, code, r) ==
    /\ response' = [request |-> q.id, code |-> code, run |-> r]
    /\ answers' = IF r = 0 THEN answers ELSE [answers EXCEPT ![q] = @ \cup {r}]

Refuse(q, code) == Answer(q, code, 0) /\ UNCHANGED <<threads, runs>>

AnswerWith(q, r) == Answer(q, "run", r) /\ UNCHANGED <<threads, runs>>

Retry(q, r) ==
    IF Conflicts(r, q) THEN Refuse(q, "idempotency_conflict") ELSE AnswerWith(q, r)

(* The clock, of milliseconds, does not go back.  Ids are random, but only *)
(* the order of those of one millisecond is ever read: the first of them   *)
(* may as well be 0.                                                       *)
NextCreatedAt ==
    IF runs = <<>> THEN {1}
    ELSE LET now == runs[Len(runs)].createdAt
         IN  IF SameMillisecond THEN {now, now + 1} ELSE {now + 1}
FreshIds(ms) ==
    LET taken == {runs[r].id : r \in {s \in DOMAIN runs : runs[s].createdAt = ms}}
    IN  IF taken = {} THEN {0} ELSE Ids \ taken

Row(t, q, key, ms, id) ==
    [thread |-> t, op |-> q.op, key |-> key, text |-> q.text,
     thinking |-> IF q.op = "delete_thread" THEN "medium" ELSE ThinkingOf(q),
     createdAt |-> ms, id |-> id, state |-> "queued"]

(* Mutant: the key of a request is not stored with its run. *)
InsertWithoutKey(t, q) ==
    /\ Len(runs) < MaxRuns
    /\ \E ms \in NextCreatedAt : \E id \in FreshIds(ms) :
          runs' = Append(runs, Row(t, q, NoKey, ms, id))
    /\ Answer(q, "run", Len(runs) + 1)

Insert(t, q) ==
    /\ Len(runs) < MaxRuns
    /\ \E ms \in NextCreatedAt : \E id \in FreshIds(ms) :
          runs' = Append(runs, Row(t, q, q.key, ms, id))
    /\ Answer(q, "run", Len(runs) + 1)

-----------------------------------------------------------------------------
(* The thread and its run are inserted in one transaction, which a full    *)
(* queue rolls back.                                                       *)
Reserve(q) ==
    /\ Named(q.name) = {}
    /\ IF QueueFull(Cardinality(Queued))
       THEN Refuse(q, "queue_full")
       ELSE /\ Len(threads) < MaxThreads
            /\ threads' = Append(threads, [name |-> q.name, state |-> "ready"])
            /\ Insert(Len(threads) + 1, q)

createThread(q) ==
    /\ q.op = "create_thread"
    /\ \/ Reserve(q)
       \/ \E t \in Named(q.name) :
             IF Prior(t, q) = {} THEN Refuse(q, "thread_already_exists")
                                 ELSE \E r \in Prior(t, q) : Retry(q, r)

sendNew(q, t) ==
    LET repeated == IF deduplicate THEN Repeated(t, q.text) ELSE {}
    IN  CASE repeated # {} -> \E r \in repeated : AnswerWith(q, r)
          [] repeated = {} /\ threads[t].state # "ready" -> Refuse(q, "thread_busy")
          [] repeated = {} /\ threads[t].state = "ready" /\ QueueFull(Cardinality(Queued)) ->
                Refuse(q, "queue_full")
          [] OTHER -> Insert(t, q) /\ UNCHANGED threads

deleteNew(q, t) ==
    CASE threads[t].state = "delete_pending" -> Refuse(q, "thread_busy")
      [] threads[t].state # "delete_pending" /\ q.text = "remote" /\ ~RemoteConfigured ->
            Refuse(q, "remote_delete_disabled")
      [] threads[t].state # "delete_pending" /\ (q.text = "remote" => RemoteConfigured)
            /\ QueueFull(Cardinality(Queued)) -> Refuse(q, "queue_full")
      [] OTHER -> /\ Insert(t, q)
                  /\ threads' = [threads EXCEPT ![t].state = "delete_pending"]

(* sendMessage and deleteThread: the thread must be there; a known key is  *)
(* answered before anything else is asked.                                 *)
mutateThread(q) ==
    /\ q.op # "create_thread"
    /\ \/ Named(q.name) = {} /\ Refuse(q, "thread_not_found")
       \/ \E t \in Named(q.name) :
             IF Prior(t, q) # {} THEN \E r \in Prior(t, q) : Retry(q, r)
             ELSE IF q.op = "send_message" THEN sendNew(q, t) ELSE deleteNew(q, t)

(* A run is carried out, the first of its thread in the queue; one that    *)
(* needs attention does not leave its thread ready.  What a deletion       *)
(* writes over a tombstone is not kept: nobody finds the thread again.     *)
Settle(r) ==
    /\ r \in Queued
    /\ \A s \in Queued : runs[s].thread = runs[r].thread => ~Before(s, r)
    /\ LET t == runs[r].thread
           last == CASE runs[r].op = "delete_thread" -> "tombstoned"
                     [] runs[r].op # "delete_thread" /\ threads[t].state = "delete_pending"
                            -> "delete_pending"
                     [] OTHER -> "ready"
       IN  \E o \in {"settled", "attention"} :
           \E s \in IF Tombstoned(t) THEN {"tombstoned"} ELSE {"blocked", last} :
              /\ o = "attention" => s \in {"blocked", "delete_pending"}
              /\ runs' = [runs EXCEPT ![r].state = o]
              /\ threads' = [threads EXCEPT ![t].state = s]
    /\ UNCHANGED <<response, answers>>

Next ==
    /\ \/ \E q \in Requests : createThread(q) \/ mutateThread(q)
       \/ \E r \in DOMAIN runs : Settle(r)
    /\ UNCHANGED deduplicate

Spec == Init /\ [][Next]_vars

-----------------------------------------------------------------------------
(* A request with a key, however often it arrives and whatever arrived in  *)
(* between, is carried out at most once in the thread it was made for.     *)
(* (A thread made again under the name of a deleted one is another one.)   *)
(* With deduplication on this is not so: a request answered with the last  *)
(* message's run leaves no trace of its key.                               *)
AtMostOneRunPerRequest ==
    ~deduplicate =>
        \A q \in Requests : q.key # NoKey =>
            \A r, s \in answers[q] : runs[r].thread = runs[s].thread => r = s

(* Once a request has been accepted, asking again while its thread is      *)
(* there is answered with the same run: not with an error, and not because *)
(* the queue is full, the thread busy or a deletion pending ("enforces     *)
(* queue depth without rejecting an idempotent retry",                     *)
(* tests/integration/durable-run-queue.test.ts:451).                       *)
RetryReturnsSameRun ==
    [][~deduplicate =>
          \A q \in Requests :
             (response'.request = q.id /\ response' # response /\ q.key # NoKey) =>
                 \A r \in answers[q] : Tombstoned(runs[r].thread) \/ response'.run = r]_vars

(* A key is never answered with the run of a different request.            *)
KeyNeverMixesRequests ==
    \A q \in Requests : \A r \in answers[q] :
        runs[r].text = q.text /\ (runs[r].op = "delete_thread" <=> q.op = "delete_thread")

(* "By default, an exact repeat of the most recently submitted message in  *)
(* a thread returns the existing durable run" (README, line 128).  So no   *)
(* two consecutive runs of a thread, as they were accepted, carry the same *)
(* message, but for one case: an earlier message of the first one's        *)
(* millisecond is listed behind it by its random id, and was compared.     *)
NoConsecutiveRepeats ==
    deduplicate =>
        \A t \in DOMAIN threads : \A r, s \in Messages(t) :
            /\ r < s /\ ~\E m \in Messages(t) : r < m /\ m < s
            /\ runs[r].text = runs[s].text
            => \E m \in Messages(t) :
                  m < r /\ Before(r, m) /\ runs[m].text # runs[r].text
=============================================================================
