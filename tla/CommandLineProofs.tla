-------------------------- MODULE CommandLineProofs --------------------------
(***************************************************************************)
(* What a request is answered with, and what the command line makes of it, *)
(* for any requests, threads, keys and levels, and any interleaving of the *)
(* clients.                                                                *)
(*                                                                         *)
(* A handler does one of four things (Handled): it refuses, it answers     *)
(* with a run that is there, it adds a run to a thread, or it makes a      *)
(* thread with its first run.  A run never changes its thread, operation,  *)
(* key and text, so that what was true of an answer stays true.            *)
(*                                                                         *)
(* RequestsInv adds to that that keys are unique in a thread, names among  *)
(* the living threads, that rows are ordered as they were inserted but for *)
(* the ids of a millisecond, and that every thread has a last message: the *)
(* first two make a retry find the right run, the others tell which run is *)
(* compared with a new message.  CliInv ties the run of the command to the *)
(* answers of its request.                                                 *)
(***************************************************************************)
EXTENDS CommandLine, TLAPS

Ops == {"create_thread", "send_message", "delete_thread"}
Names == {q.name : q \in Requests}
Keys == {q.key : q \in Requests}
Texts == {q.text : q \in Requests}

RunRecords ==
    [thread : Nat, op : Ops, key : Keys, text : Texts, thinking : Levels,
     createdAt : Nat, id : Ids, state : {"queued", "settled", "attention"}]
ThreadRecords ==
    [name : Names, state : {"ready", "blocked", "delete_pending", "tombstoned"}]

TypeOK ==
    /\ deduplicate \in BOOLEAN
    /\ threads \in Seq(ThreadRecords)
    /\ runs \in Seq(RunRecords)
    /\ \A r \in DOMAIN runs : runs[r].thread \in DOMAIN threads
    /\ answers \in [Requests -> SUBSET Nat]
    /\ \A q \in Requests : answers[q] \subseteq DOMAIN runs

-----------------------------------------------------------------------------
(* A run is added to the table, and is the answer.                         *)
Inserted(t, q) ==
    LET n == Len(runs) + 1
    IN  /\ runs' \in Seq(RunRecords)
        /\ DOMAIN runs' = DOMAIN runs \cup {n}
        /\ n \in Nat /\ \A r \in DOMAIN runs : r \in Nat /\ r < n /\ runs'[r] = runs[r]
        /\ runs'[n].thread = t /\ runs'[n].op = q.op /\ runs'[n].key = q.key
        /\ runs'[n].text = q.text /\ runs'[n].state = "queued"
        /\ runs'[n].thinking = IF q.op = "delete_thread" THEN "medium" ELSE ThinkingOf(q)
        /\ runs'[n].createdAt \in NextCreatedAt
        /\ runs'[n].id \in FreshIds(runs'[n].createdAt)
        /\ response' = [request |-> q.id, code |-> "run", run |-> n]
        /\ answers' = [answers EXCEPT ![q] = @ \cup {n}]

(* What a row of the table is.                                             *)
LEMMA RowTypes ==
    ASSUME TypeOK, NEW r \in DOMAIN runs
    PROVE  /\ r \in Nat /\ runs[r].createdAt \in Nat /\ runs[r].createdAt \in Int
           /\ runs[r].id \in Int
<1>1. r \in Nat /\ runs[r] \in RunRecords
    BY DEF TypeOK
<1>2. runs[r].createdAt \in Nat /\ runs[r].id \in Ids
    BY <1>1 DEF RunRecords
<1>3. runs[r].id \in Int
    BY <1>2, RequestAssumptions
<1>4. runs[r].createdAt \in Int
    BY <1>2
<1> QED
    BY <1>1, <1>2, <1>3, <1>4

(* The time and the place of a new row.                                    *)
LEMMA StampTypes ==
    ASSUME TypeOK, NEW ms \in NextCreatedAt, NEW id \in FreshIds(ms)
    PROVE  ms \in Nat /\ id \in Ids
<1>1. CASE runs = <<>>
    BY <1>1, RequestAssumptions DEF NextCreatedAt, FreshIds
<1>2. CASE runs # <<>>
    <2>1. Len(runs) \in DOMAIN runs
        BY <1>2 DEF TypeOK
    <2>2. runs[Len(runs)].createdAt \in Nat
        BY <2>1, RowTypes
    <2>3. \/ ms = runs[Len(runs)].createdAt
          \/ ms = runs[Len(runs)].createdAt + 1
        BY <1>2 DEF NextCreatedAt
    <2>4. id \in Ids
        BY RequestAssumptions DEF FreshIds
    <2> QED
        BY <2>2, <2>3, <2>4
<1> QED
    BY <1>1, <1>2

(* Insert adds one row to the runs table, of the kind that the request     *)
(* asks for.                                                               *)
LEMMA InsertEffects ==
    ASSUME TypeOK, NEW q \in Requests, NEW t \in Nat, Insert(t, q)
    PROVE  Inserted(t, q)
<1> DEFINE n == Len(runs) + 1
           thinking == IF q.op = "delete_thread" THEN "medium" ELSE ThinkingOf(q)
<1>1. PICK ms \in NextCreatedAt : \E i \in FreshIds(ms) :
          runs' = Append(runs, Row(t, q, q.key, ms, i))
    BY DEF Insert
<1>2. PICK i \in FreshIds(ms) : runs' = Append(runs, Row(t, q, q.key, ms, i))
    BY <1>1
<1> DEFINE row == Row(t, q, q.key, ms, i)
<1>3. thinking \in Levels
    BY RequestAssumptions DEF RequestType, Levels, ThinkingOf
<1>4. /\ row \in RunRecords
      /\ row.thread = t /\ row.op = q.op /\ row.key = q.key /\ row.text = q.text
      /\ row.thinking = thinking /\ row.createdAt = ms /\ row.id = i /\ row.state = "queued"
    <2>1. q.op \in Ops /\ q.key \in Keys /\ q.text \in Texts
        BY RequestAssumptions DEF RequestType, Ops, Keys, Texts
    <2>2. ms \in Nat /\ i \in Ids
        BY StampTypes
    <2>3. row = [thread |-> t, op |-> q.op, key |-> q.key, text |-> q.text,
                 thinking |-> thinking, createdAt |-> ms, id |-> i, state |-> "queued"]
        BY DEF Row
    <2> HIDE DEF thinking, row
    <2> QED
        BY <1>3, <2>1, <2>2, <2>3 DEF RunRecords
<1>5. runs' = Append(runs, row)
    BY <1>2
<1> HIDE DEF row, thinking
<1>6. n \in Nat /\ n # 0 /\ DOMAIN runs = 1..Len(runs)
    BY DEF TypeOK
<1>7. /\ runs' \in Seq(RunRecords) /\ DOMAIN runs' = 1..n /\ runs'[n] = row
      /\ \A r \in 1..Len(runs) : runs'[r] = runs[r]
    BY <1>4, <1>5 DEF TypeOK
<1>8. DOMAIN runs' = DOMAIN runs \cup {n} /\ \A r \in DOMAIN runs : r \in Nat /\ r < n
    BY <1>6, <1>7
<1>9. /\ response' = [request |-> q.id, code |-> "run", run |-> n]
      /\ answers' = [answers EXCEPT ![q] = @ \cup {n}]
    BY <1>6 DEF Insert, Answer
<1> QED
    BY <1>4, <1>6, <1>7, <1>8, <1>9 DEF Inserted, thinking

(* The request is refused; ...                                             *)
Refused(q) ==
    /\ UNCHANGED <<threads, runs, answers>>
    /\ \E code : code # "run" /\ response' = [request |-> q.id, code |-> code, run |-> 0]

(* ... or answered with a run that is there: one with its key, or with the *)
(* latest message; ...                                                     *)
Answered(q) ==
    \E t \in Named(q.name), r \in DOMAIN runs :
        /\ UNCHANGED <<threads, runs>>
        /\ runs[r].thread = t /\ runs[r].text = q.text
        /\ runs[r].op = "delete_thread" <=> q.op = "delete_thread"
        /\ deduplicate \/ (r \in Prior(t, q))
        /\ response' = [request |-> q.id, code |-> "run", run |-> r]
        /\ answers' = [answers EXCEPT ![q] = @ \cup {r}]

(* ... or a thread is made for it; ...                                     *)
Reserved(q) ==
    /\ q.op = "create_thread" /\ Named(q.name) = {}
    /\ threads' = Append(threads, [name |-> q.name, state |-> "ready"])
    /\ Inserted(Len(threads) + 1, q)

(* ... or it is added to the runs of its thread.                           *)
Added(q) ==
    \E t \in Named(q.name) :
        /\ q.op # "create_thread"
        /\ Prior(t, q) = {}
        /\ Inserted(t, q)
        /\ \/ /\ q.op = "send_message" /\ threads' = threads
              /\ deduplicate => Repeated(t, q.text) = {}
           \/ /\ q.op = "delete_thread" /\ threads[t].state # "delete_pending"
              /\ threads' = [threads EXCEPT ![t].state = "delete_pending"]

Handled(q) ==
    /\ UNCHANGED deduplicate
    /\ Refused(q) \/ Answered(q) \/ Reserved(q) \/ Added(q)

(* An error changes neither table, and no run is answered.                 *)
LEMMA RefuseEffects ==
    ASSUME NEW q \in Requests, NEW code, code # "run", Refuse(q, code)
    PROVE  Refused(q)
BY DEF Refuse, Answer, Refused

(* An answer with a run that is there changes neither table.               *)
LEMMA AnswerEffects ==
    ASSUME NEW q \in Requests, NEW r \in Nat \ {0}, AnswerWith(q, r)
    PROVE  /\ UNCHANGED <<threads, runs>>
           /\ response' = [request |-> q.id, code |-> "run", run |-> r]
           /\ answers' = [answers EXCEPT ![q] = @ \cup {r}]
BY DEF AnswerWith, Answer

(* A known key is answered with its run or refused, never carried out      *)
(* (createOrGet).                                                          *)
LEMMA RetryEffects ==
    ASSUME TypeOK, NEW q \in Requests, NEW t \in Named(q.name), NEW r \in Prior(t, q), Retry(q, r)
    PROVE  Refused(q) \/ Answered(q)
<1>1. /\ r \in DOMAIN runs /\ r \in Nat \ {0}
      /\ runs[r].thread = t /\ runs[r].op = q.op
    BY DEF Prior, TypeOK
<1>2. CASE Conflicts(r, q)
    BY <1>2, RefuseEffects DEF Retry
<1>3. CASE ~Conflicts(r, q)
    BY <1>1, <1>3, AnswerEffects DEF Retry, Conflicts, Answered
<1> QED
    BY <1>2, <1>3

(* A new message is refused, is a repeat of the latest one, or becomes a   *)
(* run of its thread.                                                      *)
LEMMA SendEffects ==
    ASSUME TypeOK, NEW q \in Requests, q.op = "send_message", NEW t \in Named(q.name),
           Prior(t, q) = {}, sendNew(q, t)
    PROVE  Refused(q) \/ Answered(q) \/ Added(q)
<1>0. t \in Nat
    BY DEF Named, TypeOK
<1> DEFINE repeated == IF deduplicate THEN Repeated(t, q.text) ELSE {}
<1>1. CASE repeated # {}
    <2>1. PICK r \in repeated : AnswerWith(q, r)
        BY <1>1 DEF sendNew
    <2>2. deduplicate /\ r \in Messages(t) /\ runs[r].text = q.text
        BY DEF Repeated, LastOf
    <2>3. r \in DOMAIN runs /\ runs[r].thread = t /\ runs[r].op # "delete_thread"
        BY <2>2 DEF Messages
    <2>4. r \in Nat \ {0}
        BY <2>3 DEF TypeOK
    <2> QED
        BY <2>1, <2>2, <2>3, <2>4, AnswerEffects DEF Answered
<1>2. CASE repeated = {}
    <2>1. \/ Refuse(q, "thread_busy") \/ Refuse(q, "queue_full")
          \/ Insert(t, q) /\ threads' = threads
        BY <1>2 DEF sendNew
    <2> QED
        BY <1>0, <1>2, <2>1, RefuseEffects, InsertEffects DEF Added
<1> QED
    BY <1>1, <1>2

(* A new deletion is refused, or becomes a run, and its thread waits for   *)
(* it.                                                                     *)
LEMMA DeleteEffects ==
    ASSUME TypeOK, NEW q \in Requests, q.op = "delete_thread", NEW t \in Named(q.name),
           Prior(t, q) = {}, deleteNew(q, t)
    PROVE  Refused(q) \/ Added(q)
<1>0. t \in Nat
    BY DEF Named, TypeOK
<1>1. CASE threads[t].state = "delete_pending"
    BY <1>1, RefuseEffects DEF deleteNew
<1>2. CASE threads[t].state # "delete_pending"
    <2>1. \/ Refuse(q, "remote_delete_disabled") \/ Refuse(q, "queue_full")
          \/ Insert(t, q) /\ threads' = [threads EXCEPT ![t].state = "delete_pending"]
        BY <1>2 DEF deleteNew
    <2> QED
        BY <1>0, <1>2, <2>1, RefuseEffects, InsertEffects DEF Added
<1> QED
    BY <1>1, <1>2

(* Every path through createThread, sendMessage and deleteThread is one of *)
(* the four.                                                               *)
LEMMA HandlerEffects ==
    ASSUME TypeOK, NEW q \in Requests, createThread(q) \/ mutateThread(q), UNCHANGED deduplicate
    PROVE  Handled(q)
<1> SUFFICES Refused(q) \/ Answered(q) \/ Reserved(q) \/ Added(q)
    BY DEF Handled
<1>1. CASE createThread(q)
    <2>1. CASE Reserve(q)
        <3>1. CASE QueueFull(Cardinality(Queued))
            BY <2>1, <3>1, RefuseEffects DEF Reserve
        <3>2. CASE ~QueueFull(Cardinality(Queued))
            <4>1. Len(threads) + 1 \in Nat
                BY DEF TypeOK
            <4> QED
                BY <1>1, <2>1, <3>2, <4>1, InsertEffects DEF Reserve, Reserved, createThread
        <3> QED
            BY <3>1, <3>2
    <2>2. ASSUME NEW t \in Named(q.name),
                 IF Prior(t, q) = {} THEN Refuse(q, "thread_already_exists")
                                     ELSE \E r \in Prior(t, q) : Retry(q, r)
          PROVE  Refused(q) \/ Answered(q)
        BY <2>2, RefuseEffects, RetryEffects
    <2> QED
        BY <1>1, <2>1, <2>2 DEF createThread
<1>2. CASE mutateThread(q)
    <2>1. CASE Refuse(q, "thread_not_found")
        BY <2>1, RefuseEffects
    <2>2. ASSUME NEW t \in Named(q.name),
                 IF Prior(t, q) # {} THEN \E r \in Prior(t, q) : Retry(q, r)
                 ELSE IF q.op = "send_message" THEN sendNew(q, t) ELSE deleteNew(q, t)
          PROVE  Refused(q) \/ Answered(q) \/ Added(q)
        <3>1. q.op \in {"send_message", "delete_thread"}
            BY <1>2, RequestAssumptions DEF mutateThread, RequestType
        <3>2. CASE Prior(t, q) # {}
            BY <2>2, <3>2, RetryEffects
        <3>3. CASE Prior(t, q) = {}
            BY <2>2, <3>1, <3>3, SendEffects, DeleteEffects
        <3> QED
            BY <3>2, <3>3
    <2> QED
        BY <1>2, <2>1, <2>2 DEF mutateThread
<1> QED
    BY <1>1, <1>2

-----------------------------------------------------------------------------
(* What no step changes: whose run it is and what it is for, the name of a *)
(* thread, and a tombstone.                                                *)
SameRequest(r) ==
    /\ runs'[r].thread = runs[r].thread /\ runs'[r].op = runs[r].op
    /\ runs'[r].key = runs[r].key /\ runs'[r].text = runs[r].text
    /\ runs'[r].thinking = runs[r].thinking
    /\ runs'[r].createdAt = runs[r].createdAt /\ runs'[r].id = runs[r].id

Kept ==
    /\ \A r \in DOMAIN runs :
          /\ r \in DOMAIN runs' /\ SameRequest(r)
          /\ runs[r].state # "queued" => runs'[r].state # "queued"
    /\ \A t \in DOMAIN threads :
          /\ t \in DOMAIN threads' /\ threads'[t].name = threads[t].name
          /\ Tombstoned(t) => Tombstoned(t)'

(* A run is carried out.                                                   *)
Carried ==
    /\ UNCHANGED <<deduplicate, response, answers>>
    /\ runs' \in Seq(RunRecords) /\ DOMAIN runs' = DOMAIN runs
    /\ threads' \in Seq(ThreadRecords) /\ DOMAIN threads' = DOMAIN threads
    /\ Kept

(* A run that is carried out changes its own state and that of its thread, *)
(* and nothing else.                                                       *)
LEMMA SettleEffects ==
    ASSUME TypeOK, NEW r \in DOMAIN runs, Settle(r), UNCHANGED deduplicate
    PROVE  Carried
<1> DEFINE t == runs[r].thread
<1>1. r \in Nat /\ t \in DOMAIN threads /\ runs[r].state = "queued"
    BY DEF Settle, Queued, TypeOK
<1>2. PICK o \in {"settled", "attention"},
           s \in {"ready", "blocked", "delete_pending", "tombstoned"} :
          /\ Tombstoned(t) => s = "tombstoned"
          /\ runs' = [runs EXCEPT ![r].state = o]
          /\ threads' = [threads EXCEPT ![t].state = s]
    <2> DEFINE last == CASE runs[r].op = "delete_thread" -> "tombstoned"
                         [] runs[r].op # "delete_thread" /\ threads[t].state = "delete_pending"
                                -> "delete_pending"
                         [] OTHER -> "ready"
    <2>1. last \in {"ready", "delete_pending", "tombstoned"}
        OBVIOUS
    <2>2. PICK o \in {"settled", "attention"},
               s \in IF Tombstoned(t) THEN {"tombstoned"} ELSE {"blocked", last} :
              /\ runs' = [runs EXCEPT ![r].state = o]
              /\ threads' = [threads EXCEPT ![t].state = s]
        BY DEF Settle
    <2> HIDE DEF last, t
    <2> QED
        BY <2>1, <2>2
<1> HIDE DEF t
<1>3. /\ runs' \in Seq(RunRecords) /\ DOMAIN runs' = DOMAIN runs
      /\ \A d \in DOMAIN runs : SameRequest(d) /\ (runs[d].state # "queued" => runs'[d] = runs[d])
    <2> DEFINE row == [runs[r] EXCEPT !.state = o]
    <2>1. runs[r] \in RunRecords
        BY <1>1 DEF TypeOK
    <2>2. /\ row \in RunRecords
          /\ row.thread = runs[r].thread /\ row.op = runs[r].op /\ row.key = runs[r].key
          /\ row.text = runs[r].text /\ row.thinking = runs[r].thinking
          /\ row.createdAt = runs[r].createdAt /\ row.id = runs[r].id
        BY <2>1 DEF RunRecords
    <2>3. runs' = [runs EXCEPT ![r] = row]
        BY <1>2
    <2> HIDE DEF row
    <2> QED
        BY <1>1, <2>2, <2>3 DEF TypeOK, SameRequest
<1>4. /\ threads' \in Seq(ThreadRecords) /\ DOMAIN threads' = DOMAIN threads
      /\ \A d \in DOMAIN threads : /\ threads'[d].name = threads[d].name
                                   /\ Tombstoned(d) => Tombstoned(d)'
    <2> DEFINE row == [threads[t] EXCEPT !.state = s]
    <2>1. threads[t] \in ThreadRecords
        BY <1>1 DEF TypeOK
    <2>2. row \in ThreadRecords /\ row.name = threads[t].name /\ row.state = s
        BY <2>1 DEF ThreadRecords
    <2>3. threads' = [threads EXCEPT ![t] = row]
        BY <1>2
    <2> HIDE DEF row
    <2>4. /\ threads' \in Seq(ThreadRecords) /\ DOMAIN threads' = DOMAIN threads
          /\ \A d \in DOMAIN threads : threads'[d] = IF d = t THEN row ELSE threads[d]
        BY <1>1, <2>2, <2>3 DEF TypeOK
    <2> QED
        BY <1>1, <1>2, <2>2, <2>4 DEF Tombstoned
<1> QED
    BY <1>3, <1>4 DEF Carried, Kept, Settle

(* What a new thread and a new run leave as it is.                         *)
LEMMA ReservedEffects ==
    ASSUME TypeOK, NEW q \in Requests, Reserved(q)
    PROVE  LET n == Len(threads) + 1
           IN  /\ threads' \in Seq(ThreadRecords) /\ DOMAIN threads' = DOMAIN threads \cup {n}
               /\ n \notin DOMAIN threads /\ threads'[n].name = q.name
               /\ \A t \in DOMAIN threads : threads'[t] = threads[t]
<1> DEFINE row == [name |-> q.name, state |-> "ready"]
<1>1. row \in ThreadRecords /\ row.name = q.name
    BY DEF ThreadRecords, Names
<1>2. threads' = Append(threads, row)
    BY DEF Reserved
<1> HIDE DEF row
<1> QED
    BY <1>1, <1>2 DEF TypeOK

(* A message or a deletion leaves the threads as they are, but for a       *)
(* pending deletion.                                                       *)
LEMMA AddedEffects ==
    ASSUME TypeOK, NEW q \in Requests, NEW t \in Named(q.name),
           \/ threads' = threads
           \/ /\ threads[t].state # "delete_pending"
              /\ threads' = [threads EXCEPT ![t].state = "delete_pending"]
    PROVE  /\ threads' \in Seq(ThreadRecords) /\ DOMAIN threads' = DOMAIN threads
           /\ \A d \in DOMAIN threads : /\ threads'[d].name = threads[d].name
                                        /\ Tombstoned(d) => Tombstoned(d)'
<1>1. t \in DOMAIN threads /\ ~Tombstoned(t)
    BY DEF Named
<1>2. CASE threads' = threads
    BY <1>2 DEF TypeOK, Tombstoned
<1>3. CASE threads' = [threads EXCEPT ![t].state = "delete_pending"]
    <2> DEFINE row == [threads[t] EXCEPT !.state = "delete_pending"]
    <2>1. threads[t] \in ThreadRecords
        BY <1>1 DEF TypeOK
    <2>2. row \in ThreadRecords /\ row.name = threads[t].name
        BY <2>1 DEF ThreadRecords
    <2>3. threads' = [threads EXCEPT ![t] = row]
        BY <1>3
    <2> HIDE DEF row
    <2> QED
        BY <1>1, <2>2, <2>3 DEF TypeOK, Tombstoned
<1> QED
    BY <1>2, <1>3

(* A new run leaves the others as they are.                                *)
LEMMA InsertedKeeps ==
    ASSUME TypeOK, NEW t, NEW q \in Requests, Inserted(t, q), NEW r \in DOMAIN runs
    PROVE  r \in DOMAIN runs' /\ SameRequest(r) /\ runs'[r].state = runs[r].state
BY DEF Inserted, SameRequest

(* A step carries out a run or handles a request; both keep what must be   *)
(* kept.                                                                   *)
LEMMA StepKinds ==
    ASSUME TypeOK, Next
    PROVE  Kept /\ (Carried \/ \E q \in Requests : Handled(q))
<1>1. UNCHANGED deduplicate
    BY DEF Next
<1>2. ASSUME NEW r \in DOMAIN runs, Settle(r) PROVE Kept /\ Carried
    BY <1>1, <1>2, SettleEffects DEF Carried
<1>3. ASSUME NEW q \in Requests, createThread(q) \/ mutateThread(q) PROVE Kept /\ Handled(q)
    <2>1. Handled(q)
        BY <1>1, <1>3, HandlerEffects
    <2> SUFFICES Kept
        BY <2>1
    <2>2. CASE Refused(q) \/ Answered(q)
        BY <2>2 DEF Refused, Answered, Kept, SameRequest, Tombstoned
    <2>3. CASE Reserved(q)
        <3>1. \A r \in DOMAIN runs :
                 r \in DOMAIN runs' /\ SameRequest(r) /\ runs'[r].state = runs[r].state
            BY <2>3, InsertedKeeps DEF Reserved
        <3> QED
            BY <2>3, <3>1, ReservedEffects DEF Kept, Tombstoned
    <2>4. CASE Added(q)
        <3>1. PICK t \in Named(q.name) :
                  /\ Inserted(t, q)
                  /\ \/ threads' = threads
                     \/ /\ threads[t].state # "delete_pending"
                        /\ threads' = [threads EXCEPT ![t].state = "delete_pending"]
            BY <2>4 DEF Added
        <3>2. \A r \in DOMAIN runs :
                 r \in DOMAIN runs' /\ SameRequest(r) /\ runs'[r].state = runs[r].state
            BY <3>1, InsertedKeeps
        <3> QED
            BY <3>1, <3>2, AddedEffects DEF Kept
    <2> QED
        BY <2>1, <2>2, <2>3, <2>4 DEF Handled
<1> QED
    BY <1>2, <1>3 DEF Next

(* The tables after a step: as many runs and threads as before, or one run *)
(* more, of a thread that has none with its key.                           *)
NewRow(t, q) ==
    /\ UNCHANGED deduplicate
    /\ Inserted(t, q) /\ Prior(t, q) = {}
    /\ t \in DOMAIN threads' /\ threads'[t].name = q.name
    /\ \/ /\ t \notin DOMAIN threads /\ DOMAIN threads' = DOMAIN threads \cup {t}
          /\ q.op = "create_thread" /\ Named(q.name) = {}
       \/ /\ t \in DOMAIN threads /\ DOMAIN threads' = DOMAIN threads
          /\ q.op # "create_thread"
          /\ deduplicate /\ q.op = "send_message" => Repeated(t, q.text) = {}

(* What a step does to the two tables.                                     *)
LEMMA RowSteps ==
    ASSUME TypeOK, Next
    PROVE  /\ Kept /\ UNCHANGED deduplicate
           /\ threads' \in Seq(ThreadRecords) /\ runs' \in Seq(RunRecords)
           /\ \/ \E q \in Requests, t \in Nat : Handled(q) /\ NewRow(t, q)
              \/ /\ DOMAIN runs' = DOMAIN runs /\ DOMAIN threads' = DOMAIN threads
                 /\ \/ UNCHANGED <<response, answers>>
                    \/ \E q \in Requests : Handled(q) /\ (Refused(q) \/ Answered(q))
<1>1. Kept /\ UNCHANGED deduplicate
    BY StepKinds DEF Carried, Handled
<1>2. CASE Carried
    BY <1>1, <1>2 DEF Carried
<1>3. ASSUME NEW q \in Requests, Handled(q), Refused(q) \/ Answered(q)
      PROVE  /\ threads' \in Seq(ThreadRecords) /\ runs' \in Seq(RunRecords)
             /\ DOMAIN runs' = DOMAIN runs /\ DOMAIN threads' = DOMAIN threads
    BY <1>3 DEF Refused, Answered, TypeOK
<1>4. ASSUME NEW q \in Requests, Handled(q), Reserved(q)
      PROVE  /\ threads' \in Seq(ThreadRecords) /\ runs' \in Seq(RunRecords)
             /\ \E t \in Nat : NewRow(t, q)
    <2> DEFINE n == Len(threads) + 1
    <2>1. n \in Nat /\ Inserted(n, q) /\ q.op = "create_thread" /\ Named(q.name) = {}
        BY <1>4 DEF TypeOK, Reserved
    <2>2. /\ threads' \in Seq(ThreadRecords) /\ DOMAIN threads' = DOMAIN threads \cup {n}
          /\ n \notin DOMAIN threads /\ threads'[n].name = q.name
        BY <1>4, ReservedEffects
    <2> HIDE DEF n
    <2>3. Prior(n, q) = {}
        BY <2>2 DEF Prior, TypeOK
    <2>4. NewRow(n, q)
        BY <1>1, <2>1, <2>2, <2>3 DEF NewRow
    <2> QED
        BY <2>1, <2>2, <2>4 DEF Inserted
<1>5. ASSUME NEW q \in Requests, Handled(q), Added(q)
      PROVE  /\ threads' \in Seq(ThreadRecords) /\ runs' \in Seq(RunRecords)
             /\ \E t \in Nat : NewRow(t, q)
    <2>1. PICK t \in Named(q.name) :
              /\ q.op # "create_thread" /\ Prior(t, q) = {} /\ Inserted(t, q)
              /\ q.op = "send_message" /\ deduplicate => Repeated(t, q.text) = {}
              /\ \/ threads' = threads
                 \/ /\ threads[t].state # "delete_pending"
                    /\ threads' = [threads EXCEPT ![t].state = "delete_pending"]
        BY <1>5 DEF Added
    <2>2. t \in DOMAIN threads /\ t \in Nat /\ threads[t].name = q.name
        BY DEF Named, TypeOK
    <2>3. /\ threads' \in Seq(ThreadRecords) /\ DOMAIN threads' = DOMAIN threads
          /\ threads'[t].name = threads[t].name
        BY <2>1, <2>2, AddedEffects
    <2>4. NewRow(t, q)
        BY <1>1, <2>1, <2>2, <2>3 DEF NewRow
    <2> QED
        BY <2>1, <2>2, <2>3, <2>4 DEF Inserted
<1>6. CASE \E q \in Requests : Handled(q)
    <2>1. PICK q \in Requests : Handled(q)
        BY <1>6
    <2>2. Refused(q) \/ Answered(q) \/ Reserved(q) \/ Added(q)
        BY <2>1 DEF Handled
    <2> QED
        BY <1>1, <1>3, <1>4, <1>5, <2>1, <2>2
<1> QED
    BY <1>2, <1>6, StepKinds

(* What a request can be answered with: with one of the runs that are      *)
(* there, or with the one it added.                                        *)
LEMMA AnswerSteps ==
    ASSUME TypeOK, NEW q \in Requests, Handled(q)
    PROVE  /\ response'.request = q.id
           /\ response'.code = "run" => response'.run \in answers'[q]
           /\ \A p \in Requests : answers'[p] =
                 IF p = q /\ response'.code = "run" THEN answers[p] \cup {response'.run}
                                                    ELSE answers[p]
           /\ answers' \in [Requests -> SUBSET Nat]
<1>1. CASE Refused(q)
    BY <1>1 DEF Refused, TypeOK
<1>2. ASSUME NEW r \in Nat, response' = [request |-> q.id, code |-> "run", run |-> r],
             answers' = [answers EXCEPT ![q] = @ \cup {r}]
      PROVE  /\ response'.request = q.id
             /\ response'.code = "run" => response'.run \in answers'[q]
             /\ \A p \in Requests : answers'[p] =
                   IF p = q /\ response'.code = "run" THEN answers[p] \cup {response'.run}
                                                      ELSE answers[p]
             /\ answers' \in [Requests -> SUBSET Nat]
    BY <1>2 DEF TypeOK
<1>3. CASE Answered(q)
    <2>1. DOMAIN runs \subseteq Nat
        BY DEF TypeOK
    <2> QED
        BY <1>2, <1>3, <2>1 DEF Answered
<1>4. CASE Reserved(q) \/ Added(q)
    <2>1. PICK t : Inserted(t, q)
        BY <1>4 DEF Reserved, Added
    <2> QED
        BY <1>2, <2>1 DEF Inserted
<1> QED
    BY <1>1, <1>3, <1>4 DEF Handled

(* The tables keep their shape.                                            *)
LEMMA TypeStep ==
    ASSUME TypeOK, Next
    PROVE  TypeOK'
<1>1. /\ Kept /\ UNCHANGED deduplicate
      /\ threads' \in Seq(ThreadRecords) /\ runs' \in Seq(RunRecords)
    BY RowSteps
<1>2. ASSUME NEW q \in Requests, NEW t \in Nat, Handled(q), NewRow(t, q)
      PROVE  /\ \A r \in DOMAIN runs' : runs'[r].thread \in DOMAIN threads'
             /\ answers' \in [Requests -> SUBSET Nat]
             /\ \A p \in Requests : answers'[p] \subseteq DOMAIN runs'
    <2>1. /\ DOMAIN runs' = DOMAIN runs \cup {Len(runs) + 1}
          /\ runs'[Len(runs) + 1].thread = t /\ response'.run = Len(runs) + 1
          /\ t \in DOMAIN threads'
        BY <1>2 DEF NewRow, Inserted
    <2>2. \A r \in DOMAIN runs' : runs'[r].thread \in DOMAIN threads'
        BY <1>1, <2>1 DEF TypeOK, Kept, SameRequest
    <2> QED
        BY <1>2, <2>1, <2>2, AnswerSteps DEF TypeOK
<1>3. ASSUME DOMAIN runs' = DOMAIN runs, DOMAIN threads' = DOMAIN threads
      PROVE  \A r \in DOMAIN runs' : runs'[r].thread \in DOMAIN threads'
    BY <1>1, <1>3 DEF TypeOK, Kept, SameRequest
<1>4. ASSUME NEW q \in Requests, Handled(q), Refused(q) \/ Answered(q),
             DOMAIN runs' = DOMAIN runs
      PROVE  /\ answers' \in [Requests -> SUBSET Nat]
             /\ \A p \in Requests : answers'[p] \subseteq DOMAIN runs'
    <2>1. response'.code = "run" => response'.run \in DOMAIN runs
        BY <1>4 DEF Refused, Answered
    <2> QED
        BY <1>4, <2>1, AnswerSteps DEF TypeOK
<1> QED
    BY <1>1, <1>2, <1>3, <1>4, RowSteps DEF TypeOK

-----------------------------------------------------------------------------
(* No two runs of a thread carry out one key.                              *)
KeyUnique ==
    \A r, s \in DOMAIN runs :
        /\ runs[r].key # NoKey
        /\ runs[r].thread = runs[s].thread /\ runs[r].op = runs[s].op
        /\ runs[r].key = runs[s].key
        => r = s

(* A name belongs to one living thread.                                    *)
NamesUnique ==
    \A t, u \in DOMAIN threads :
        ~Tombstoned(t) /\ ~Tombstoned(u) /\ threads[t].name = threads[u].name => t = u

(* The run a request is answered with does what was asked, where it was    *)
(* asked; unless it is a repeated message, it is the run of its own key.   *)
Answers(q, r) ==
    /\ runs[r].text = q.text
    /\ runs[r].op = "delete_thread" <=> q.op = "delete_thread"
    /\ threads[runs[r].thread].name = q.name
    /\ ~deduplicate => runs[r].op = q.op /\ runs[r].key = q.key

OwnAnswers == \A q \in Requests : \A r \in answers[q] : Answers(q, r)

(* A run is listed behind an earlier one, but for one of its millisecond,  *)
(* and no two have the same place.                                         *)
RowOrder ==
    \A r, s \in DOMAIN runs :
        r < s => /\ runs[r].createdAt <= runs[s].createdAt
                 /\ runs[r].createdAt = runs[s].createdAt => runs[r].id # runs[s].id

(* Every thread has a last message: its creation, if there is no other.    *)
HasLatest == \A t \in DOMAIN threads : LastOf(Messages(t)) # {}

(* A run is only added under a key that the thread has no run for.         *)
LEMMA KeyUniqueStep ==
    ASSUME TypeOK, KeyUnique, Next
    PROVE  KeyUnique'
<1>1. Kept
    BY RowSteps
<1>2. CASE DOMAIN runs' = DOMAIN runs
    BY <1>1, <1>2 DEF KeyUnique, Kept, SameRequest
<1>3. ASSUME NEW q \in Requests, NEW t \in Nat, NewRow(t, q) PROVE KeyUnique'
    <2> DEFINE n == Len(runs) + 1
    <2>1. /\ DOMAIN runs' = DOMAIN runs \cup {n}
          /\ runs'[n].thread = t /\ runs'[n].op = q.op /\ runs'[n].key = q.key
        BY <1>3 DEF NewRow, Inserted
    <2>2. ASSUME NEW r \in DOMAIN runs, runs[r].thread = t, runs[r].op = q.op, runs[r].key = q.key
          PROVE  q.key = NoKey
        BY <1>3, <2>2 DEF NewRow, Prior
    <2> HIDE DEF n
    <2>3. \A r \in DOMAIN runs : SameRequest(r)
        BY <1>1 DEF Kept
    <2> QED
        BY <2>1, <2>2, <2>3 DEF KeyUnique, SameRequest
<1> QED
    BY <1>2, <1>3, RowSteps

(* A thread is only made under a name that no living thread has.           *)
LEMMA NamesUniqueStep ==
    ASSUME TypeOK, NamesUnique, Next
    PROVE  NamesUnique'
<1>1. \A t \in DOMAIN threads : threads'[t].name = threads[t].name /\ (Tombstoned(t) => Tombstoned(t)')
    BY RowSteps DEF Kept
<1>2. CASE DOMAIN threads' = DOMAIN threads
    BY <1>1, <1>2 DEF NamesUnique
<1>3. ASSUME NEW q \in Requests, NEW n \in Nat, DOMAIN threads' = DOMAIN threads \cup {n},
             threads'[n].name = q.name, Named(q.name) = {}
      PROVE  NamesUnique'
    <2>1. \A t \in DOMAIN threads : ~Tombstoned(t) => threads[t].name # q.name
        BY <1>3 DEF Named
    <2> QED
        BY <1>1, <1>3, <2>1 DEF NamesUnique
<1> QED
    BY <1>2, <1>3, RowSteps DEF NewRow

(* An answer is right when it is given, and a run that was answered does   *)
(* not change what it is for.                                              *)
LEMMA OwnAnswersStep ==
    ASSUME TypeOK, OwnAnswers, Next
    PROVE  OwnAnswers'
<1>1. Kept /\ UNCHANGED deduplicate
    BY RowSteps
<1>2. ASSUME NEW q \in Requests, NEW r \in DOMAIN runs, Answers(q, r) PROVE Answers(q, r)'
    <2>1. SameRequest(r) /\ runs[r].thread \in DOMAIN threads
        BY <1>1 DEF Kept, TypeOK
    <2>2. threads'[runs[r].thread].name = threads[runs[r].thread].name
        BY <1>1, <2>1 DEF Kept
    <2> QED
        BY <1>1, <1>2, <2>1, <2>2 DEF Answers, SameRequest
<1>3. CASE Carried
    BY <1>2, <1>3 DEF Carried, OwnAnswers, TypeOK
<1>4. ASSUME NEW q \in Requests, Handled(q) PROVE OwnAnswers'
    <2>1. ASSUME NEW r, response'.code = "run", response'.run = r PROVE Answers(q, r)'
        <3>1. CASE Refused(q)
            BY <2>1, <3>1 DEF Refused
        <3>2. CASE Answered(q)
            <4>1. r \in DOMAIN runs /\ \E t \in Named(q.name) :
                      /\ runs[r].thread = t /\ runs[r].text = q.text
                      /\ runs[r].op = "delete_thread" <=> q.op = "delete_thread"
                      /\ deduplicate \/ (r \in Prior(t, q))
                BY <2>1, <3>2 DEF Answered
            <4>2. Answers(q, r)
                BY <4>1 DEF Answers, Named, Prior
            <4> QED
                BY <1>2, <4>1, <4>2
        <3>4. CASE Reserved(q)
            <4>1. Inserted(Len(threads) + 1, q)
                BY <3>4 DEF Reserved
            <4> QED
                BY <2>1, <3>4, <4>1, ReservedEffects DEF Inserted, Answers
        <3>5. CASE Added(q)
            <4>1. PICK t \in Named(q.name) :
                      /\ Inserted(t, q)
                      /\ \/ threads' = threads
                         \/ /\ threads[t].state # "delete_pending"
                            /\ threads' = [threads EXCEPT ![t].state = "delete_pending"]
                BY <3>5 DEF Added
            <4>2. t \in DOMAIN threads /\ threads[t].name = q.name
                BY DEF Named
            <4>3. threads'[t].name = q.name
                BY <4>1, <4>2, AddedEffects
            <4> QED
                BY <2>1, <4>1, <4>3 DEF Inserted, Answers
        <3> QED
            BY <1>4, <3>1, <3>2, <3>4, <3>5 DEF Handled
    <2>2. ASSUME NEW p \in Requests, NEW r \in answers'[p] PROVE Answers(p, r)'
        <3>1. CASE r \in answers[p]
            BY <1>2, <3>1 DEF OwnAnswers, TypeOK
        <3>2. CASE p = q /\ response'.code = "run" /\ r = response'.run
            BY <2>1, <3>2
        <3> QED
            BY <1>4, <2>2, <3>1, <3>2, AnswerSteps
    <2> QED
        BY <2>2 DEF OwnAnswers
<1> QED
    BY <1>3, <1>4, StepKinds

(* The messages of a thread after a step.                                  *)
LEMMA MessageSteps ==
    ASSUME TypeOK, Next
    PROVE  /\ \A t \in DOMAIN threads : Messages(t) \subseteq Messages(t)'
           /\ \A t : Messages(t) \subseteq DOMAIN runs
           /\ \/ DOMAIN threads' = DOMAIN threads /\ \A t : Messages(t)' = Messages(t)
              \/ \E q \in Requests, t \in Nat :
                    /\ NewRow(t, q) /\ q.op # "delete_thread"
                    /\ Messages(t)' = Messages(t) \cup {Len(runs) + 1}
                    /\ \A u : u # t => Messages(u)' = Messages(u)
<1>1. \A r \in DOMAIN runs : r \in DOMAIN runs' /\ SameRequest(r)
    BY RowSteps DEF Kept
<1>2. CASE DOMAIN runs' = DOMAIN runs /\ DOMAIN threads' = DOMAIN threads
    BY <1>1, <1>2 DEF Messages, SameRequest
<1>3. ASSUME NEW q \in Requests, NEW t \in Nat, NewRow(t, q)
      PROVE  /\ \A u : u # t => Messages(u)' = Messages(u)
             /\ q.op # "delete_thread" => Messages(t)' = Messages(t) \cup {Len(runs) + 1}
             /\ q.op = "delete_thread" => /\ Messages(t)' = Messages(t)
                                          /\ DOMAIN threads' = DOMAIN threads
    <2> DEFINE n == Len(runs) + 1
    <2>1. /\ DOMAIN runs' = DOMAIN runs \cup {n}
          /\ runs'[n].thread = t /\ runs'[n].op = q.op /\ n \notin DOMAIN runs
        BY <1>3 DEF NewRow, Inserted, TypeOK
    <2> HIDE DEF n
    <2>2. \A u : u # t => Messages(u)' = Messages(u)
        BY <1>1, <2>1 DEF Messages, SameRequest
    <2>3. q.op # "delete_thread" => Messages(t)' = Messages(t) \cup {n}
        BY <1>1, <2>1 DEF Messages, SameRequest
    <2>4. q.op = "delete_thread" => Messages(t)' = Messages(t)
        BY <1>1, <2>1 DEF Messages, SameRequest
    <2>5. q.op = "delete_thread" => DOMAIN threads' = DOMAIN threads
        BY <1>3 DEF NewRow
    <2> QED
        BY <2>2, <2>3, <2>4, <2>5 DEF n
<1>4. (\A t : Messages(t) \subseteq DOMAIN runs) /\ \A t : Messages(t) \subseteq Messages(t)'
    BY <1>1 DEF Messages, SameRequest
<1> QED
    BY <1>2, <1>3, <1>4, RowSteps

(* Times and ids are numbers, which the order compares.                    *)
LEMMA Ordering ==
    TypeOK =>
        \A a, b, c \in DOMAIN runs :
            /\ ~Before(a, a)
            /\ Before(a, b) => ~Before(b, a)
            /\ Before(a, b) /\ ~Before(c, b) => Before(a, c)
<1> SUFFICES ASSUME TypeOK, NEW a \in DOMAIN runs, NEW b \in DOMAIN runs, NEW c \in DOMAIN runs
             PROVE  /\ ~Before(a, a)
                    /\ Before(a, b) => ~Before(b, a)
                    /\ Before(a, b) /\ ~Before(c, b) => Before(a, c)
    OBVIOUS
<1>1. \A r \in DOMAIN runs : runs[r].createdAt \in Int /\ runs[r].id \in Int
    BY RowTypes
<1> QED
    BY <1>1 DEF Before

(* Rows that are there keep their places.                                  *)
LEMMA OldOrder ==
    ASSUME TypeOK, Next
    PROVE  \A r, s \in DOMAIN runs : Before(r, s)' <=> Before(r, s)
BY RowSteps DEF Kept, SameRequest, Before

(* A new row is not of an earlier time than the one before it, and its id  *)
(* is a new one in its millisecond.                                        *)
LEMMA RowOrderStep ==
    ASSUME TypeOK, RowOrder, Next
    PROVE  RowOrder'
<1>1. \A r \in DOMAIN runs : /\ runs'[r].createdAt = runs[r].createdAt
                             /\ runs'[r].id = runs[r].id
    BY RowSteps DEF Kept, SameRequest
<1>2. CASE DOMAIN runs' = DOMAIN runs
    BY <1>1, <1>2 DEF RowOrder
<1>3. ASSUME NEW q \in Requests, NEW t \in Nat, NewRow(t, q) PROVE RowOrder'
    <2> DEFINE n == Len(runs) + 1
               ms == runs'[n].createdAt
    <2>1. /\ DOMAIN runs' = DOMAIN runs \cup {n} /\ n \in Nat
          /\ \A r \in DOMAIN runs : r \in Nat /\ r < n
          /\ ms \in NextCreatedAt /\ runs'[n].id \in FreshIds(ms)
        BY <1>3 DEF NewRow, Inserted
    <2>2. ASSUME NEW r \in DOMAIN runs
          PROVE  runs[r].createdAt <= ms
        <3>1. /\ Len(runs) \in DOMAIN runs /\ runs # <<>>
              /\ r < Len(runs) \/ r = Len(runs)
            BY DEF TypeOK
        <3>2. runs[r].createdAt \in Nat /\ runs[Len(runs)].createdAt \in Nat
            BY <3>1, RowTypes
        <3>3. runs[r].createdAt <= runs[Len(runs)].createdAt
            BY <3>1, <3>2 DEF RowOrder
        <3>4. ms = runs[Len(runs)].createdAt \/ ms = runs[Len(runs)].createdAt + 1
            BY <2>1, <3>1 DEF NextCreatedAt
        <3> HIDE DEF ms
        <3> QED
            BY <3>2, <3>3, <3>4
    <2>3. ASSUME NEW r \in DOMAIN runs, runs[r].createdAt = ms
          PROVE  runs[r].id # runs'[n].id
        <3> DEFINE taken == {runs[d].id : d \in {e \in DOMAIN runs : runs[e].createdAt = ms}}
        <3>1. runs[r].id \in taken
            BY <2>3
        <3>2. FreshIds(ms) = Ids \ taken
            BY <3>1 DEF FreshIds
        <3> QED
            BY <2>1, <3>1, <3>2
    <2> HIDE DEF n
    <2> SUFFICES ASSUME NEW r \in DOMAIN runs', NEW s \in DOMAIN runs', r < s
                 PROVE  /\ runs'[r].createdAt <= runs'[s].createdAt
                        /\ runs'[r].createdAt = runs'[s].createdAt => runs'[r].id # runs'[s].id
        BY DEF RowOrder
    <2>4. r \in DOMAIN runs
        BY <2>1
    <2>5. CASE s \in DOMAIN runs
        BY <1>1, <2>4, <2>5 DEF RowOrder
    <2>6. CASE s = n
        BY <1>1, <2>2, <2>3, <2>4, <2>6
    <2> QED
        BY <2>1, <2>5, <2>6
<1> QED
    BY <1>2, <1>3, RowSteps

(* The last message of a thread stays so, or it is the new one.            *)
LEMMA HasLatestStep ==
    ASSUME TypeOK, HasLatest, Next
    PROVE  HasLatest'
<1>1. \A r, s \in DOMAIN runs : Before(r, s)' <=> Before(r, s)
    BY OldOrder
<1>2. \A t : Messages(t) \subseteq DOMAIN runs
    BY MessageSteps
<1>3. ASSUME NEW u, Messages(u)' = Messages(u) PROVE LastOf(Messages(u))' = LastOf(Messages(u))
    BY <1>1, <1>2, <1>3 DEF LastOf
<1>4. CASE DOMAIN threads' = DOMAIN threads /\ \A t : Messages(t)' = Messages(t)
    BY <1>3, <1>4 DEF HasLatest
<1>5. ASSUME NEW q \in Requests, NEW t \in Nat, NewRow(t, q),
             NEW n \in Nat, n = Len(runs) + 1, Messages(t)' = Messages(t) \cup {n},
             \A u : u # t => Messages(u)' = Messages(u)
      PROVE  HasLatest'
    <2>1. /\ n \in DOMAIN runs' /\ DOMAIN runs \subseteq DOMAIN runs'
          /\ \A u \in DOMAIN threads' : u # t => u \in DOMAIN threads
        BY <1>5 DEF NewRow, Inserted
    <2>2. \A a, b, c \in DOMAIN runs' :
              /\ ~Before(a, a)'
              /\ Before(a, b)' => ~Before(b, a)'
              /\ Before(a, b)' /\ ~Before(c, b)' => Before(a, c)'
        <3>1. TypeOK'
            BY TypeStep
        <3>2. (TypeOK =>
                  \A a, b, c \in DOMAIN runs :
                      /\ ~Before(a, a)
                      /\ Before(a, b) => ~Before(b, a)
                      /\ Before(a, b) /\ ~Before(c, b) => Before(a, c))'
            BY Ordering, PTL
        <3> QED
            BY <3>1, <3>2
    <2>3. Messages(t)' = Messages(t) \cup {n}
        BY <1>5
    <2>4. LastOf(Messages(t))' # {}
        <3>1. CASE Messages(t) = {}
            BY <2>1, <2>2, <2>3, <3>1 DEF LastOf
        <3>2. CASE Messages(t) # {}
            <4>1. t \in DOMAIN threads
                BY <3>2 DEF Messages, TypeOK
            <4>2. PICK l \in LastOf(Messages(t)) : TRUE
                BY <4>1 DEF HasLatest
            <4>3. l \in Messages(t) /\ \A s \in Messages(t) : ~Before(l, s)'
                BY <1>1, <1>2 DEF LastOf
            <4>0. /\ l \in DOMAIN runs' /\ n \in DOMAIN runs'
                  /\ \A s \in Messages(t) : s \in DOMAIN runs'
                BY <1>2, <2>1, <4>3
            <4>4. CASE Before(n, l)'
                <5>0. ~Before(l, n)'
                    BY <2>2, <4>0, <4>4
                <5>1. \A s \in Messages(t)' : ~Before(l, s)'
                    BY <2>3, <4>3, <5>0
                <5> QED
                    BY <2>3, <4>3, <5>1 DEF LastOf
            <4>5. CASE ~Before(n, l)'
                <5>1. ASSUME NEW s \in Messages(t) PROVE ~Before(n, s)'
                    <6>1. Before(n, s)' /\ ~Before(l, s)' => Before(n, l)'
                        BY <2>2, <4>0
                    <6> QED
                        BY <4>3, <4>5, <6>1
                <5>2. ~Before(n, n)'
                    BY <2>2, <4>0
                <5> QED
                    BY <2>3, <5>1, <5>2 DEF LastOf
            <4> QED
                BY <4>4, <4>5
        <3> QED
            BY <3>1, <3>2
    <2>5. ASSUME NEW u \in DOMAIN threads', u # t PROVE LastOf(Messages(u))' # {}
        BY <1>3, <1>5, <2>1, <2>5 DEF HasLatest
    <2> QED
        BY <2>4, <2>5 DEF HasLatest
<1> QED
    <2>1. Len(runs) + 1 \in Nat
        BY DEF TypeOK
    <2> QED
        BY <1>4, <1>5, <2>1, MessageSteps

(* With deduplication a message is only added to a thread whose last       *)
(* message is another one.  If that is not the message before it, the two  *)
(* are of one millisecond.                                                 *)
LEMMA NoRepeatsStep ==
    ASSUME TypeOK, RowOrder, HasLatest, NoConsecutiveRepeats, Next
    PROVE  NoConsecutiveRepeats'
<1>1. UNCHANGED deduplicate /\ \A r \in DOMAIN runs : runs'[r].text = runs[r].text
    BY RowSteps DEF Kept, SameRequest
<1>2. \A t : Messages(t) \subseteq DOMAIN runs
    BY MessageSteps
<1>3. \A r, s \in DOMAIN runs : Before(r, s)' <=> Before(r, s)
    BY OldOrder
<1>4. ASSUME deduplicate, NEW u \in DOMAIN threads, NEW r \in Messages(u), NEW s \in Messages(u),
             r < s, ~\E m \in Messages(u) : r < m /\ m < s, runs'[r].text = runs'[s].text
      PROVE  \E m \in Messages(u) : m < r /\ Before(r, m)' /\ runs'[m].text # runs'[r].text
    <2>1. PICK m \in Messages(u) : m < r /\ Before(r, m) /\ runs[m].text # runs[r].text
        BY <1>1, <1>2, <1>4 DEF NoConsecutiveRepeats
    <2> QED
        BY <1>1, <1>2, <1>3, <2>1
<1>5. CASE DOMAIN threads' = DOMAIN threads /\ \A t : Messages(t)' = Messages(t)
    BY <1>1, <1>4, <1>5 DEF NoConsecutiveRepeats
<1>6. ASSUME NEW q \in Requests, NEW t \in Nat, NewRow(t, q), q.op # "delete_thread",
             Messages(t)' = Messages(t) \cup {Len(runs) + 1},
             \A u : u # t => Messages(u)' = Messages(u)
      PROVE  NoConsecutiveRepeats'
    <2> DEFINE n == Len(runs) + 1
    <2>1. /\ n \in Nat /\ \A r \in Messages(t) : r \in Nat /\ r < n
          /\ runs'[n].text = q.text
        BY <1>6 DEF NewRow, Inserted, Messages
    <2>2. \A u \in DOMAIN threads' : u # t => u \in DOMAIN threads
        BY <1>6 DEF NewRow
    <2> HIDE DEF n
    <2>3. Messages(t)' = Messages(t) \cup {n}
        BY <1>6 DEF n
    <2>4. ASSUME NEW r \in Messages(t), deduplicate, runs[r].text = q.text,
                 \A m \in Messages(t) : m <= r
          PROVE  \E m \in Messages(t) : m < r /\ Before(r, m) /\ runs[m].text # runs[r].text
        <3>1. t \in DOMAIN threads
            BY DEF Messages, TypeOK
        <3>2. q.op = "send_message"
            BY <1>6, <3>1, RequestAssumptions DEF NewRow, RequestType
        <3>3. Repeated(t, q.text) = {}
            BY <1>6, <2>4, <3>1, <3>2 DEF NewRow
        <3>4. PICK m \in LastOf(Messages(t)) : TRUE
            BY <3>1 DEF HasLatest
        <3>5. m \in Messages(t) /\ ~Before(m, r) /\ runs[m].text # q.text
            BY <3>3, <3>4 DEF Repeated, LastOf
        <3>6. m < r
            BY <2>1, <2>4, <3>5
        <3>7. /\ m \in DOMAIN runs /\ r \in DOMAIN runs
              /\ runs[m].createdAt \in Int /\ runs[m].id \in Int
              /\ runs[r].createdAt \in Int /\ runs[r].id \in Int
            BY <1>2, <3>5, RowTypes
        <3>8. Before(r, m)
            BY <3>5, <3>6, <3>7 DEF Before, RowOrder
        <3> QED
            BY <2>4, <3>5, <3>6, <3>8
    <2>5. ASSUME deduplicate, NEW r \in Messages(t)', NEW s \in Messages(t)', r < s,
                 ~\E m \in Messages(t)' : r < m /\ m < s, runs'[r].text = runs'[s].text
          PROVE  \E m \in Messages(t)' : m < r /\ Before(r, m)' /\ runs'[m].text # runs'[r].text
        <3>1. r \in Messages(t)
            BY <2>1, <2>3, <2>5
        <3>2. CASE s \in Messages(t)
            <4>1. t \in DOMAIN threads
                BY <3>1 DEF Messages, TypeOK
            <4> QED
                BY <1>4, <2>3, <2>5, <3>1, <3>2, <4>1
        <3>3. CASE s = n
            <4>1. runs[r].text = q.text
                BY <1>1, <1>2, <2>1, <2>5, <3>1, <3>3
            <4>2. \A m \in Messages(t) : m <= r
                BY <2>1, <2>3, <2>5, <3>1, <3>3
            <4>3. PICK m \in Messages(t) : m < r /\ Before(r, m) /\ runs[m].text # runs[r].text
                BY <2>4, <2>5, <3>1, <4>1, <4>2
            <4> QED
                BY <1>1, <1>2, <1>3, <2>3, <3>1, <4>3
        <3> QED
            BY <2>3, <3>2, <3>3
    <2>6. ASSUME deduplicate', NEW u \in DOMAIN threads', NEW r \in Messages(u)',
                 NEW s \in Messages(u)', r < s, ~\E m \in Messages(u)' : r < m /\ m < s,
                 runs'[r].text = runs'[s].text
          PROVE  \E m \in Messages(u)' : m < r /\ Before(r, m)' /\ runs'[m].text # runs'[r].text
        <3>1. CASE u = t
            BY <1>1, <2>5, <2>6, <3>1
        <3>2. CASE u # t
            BY <1>1, <1>4, <1>6, <2>2, <2>6, <3>2
        <3> QED
            BY <3>1, <3>2
    <2> QED
        BY <2>6 DEF NoConsecutiveRepeats
<1> QED
    BY <1>5, <1>6, MessageSteps

-----------------------------------------------------------------------------
RequestsInv ==
    /\ TypeOK /\ KeyUnique /\ NamesUnique /\ OwnAnswers
    /\ RowOrder /\ HasLatest /\ NoConsecutiveRepeats

(* There is nothing to be wrong about in empty tables.                     *)
LEMMA RequestsInvInit == Init => RequestsInv
<1> SUFFICES ASSUME Init PROVE RequestsInv
    OBVIOUS
<1>1. threads = <<>> /\ runs = <<>> /\ DOMAIN threads = {} /\ DOMAIN runs = {}
    BY DEF Init
<1>2. answers = [q \in Requests |-> {}] /\ deduplicate \in BOOLEAN
    BY DEF Init
<1>3. TypeOK
    BY <1>1, <1>2 DEF TypeOK
<1>4. KeyUnique /\ NamesUnique /\ RowOrder /\ HasLatest /\ NoConsecutiveRepeats
    BY <1>1 DEF KeyUnique, NamesUnique, RowOrder, HasLatest, NoConsecutiveRepeats
<1>5. OwnAnswers
    BY <1>2 DEF OwnAnswers
<1> QED
    BY <1>3, <1>4, <1>5 DEF RequestsInv

(* Every step keeps every part of the invariant.                           *)
LEMMA RequestsInvStep == RequestsInv /\ [Next]_vars => RequestsInv'
<1> SUFFICES ASSUME RequestsInv, [Next]_vars PROVE RequestsInv'
    OBVIOUS
<1>1. CASE Next
    BY <1>1, TypeStep, KeyUniqueStep, NamesUniqueStep, OwnAnswersStep, RowOrderStep,
       HasLatestStep, NoRepeatsStep
    DEF RequestsInv
<1>2. CASE UNCHANGED vars
    <2>1. TypeOK'
        BY <1>2 DEF RequestsInv, TypeOK, vars
    <2>2. KeyUnique' /\ NamesUnique'
        BY <1>2 DEF RequestsInv, KeyUnique, NamesUnique, Tombstoned, vars
    <2>3. OwnAnswers'
        BY <1>2 DEF RequestsInv, OwnAnswers, Answers, vars
    <2>4. RowOrder' /\ HasLatest'
        BY <1>2 DEF RequestsInv, RowOrder, HasLatest, LastOf, Before, Messages, vars
    <2>5. NoConsecutiveRepeats'
        BY <1>2 DEF RequestsInv, NoConsecutiveRepeats, Before, Messages, vars
    <2> QED
        BY <2>1, <2>2, <2>3, <2>4, <2>5 DEF RequestsInv
<1> QED
    BY <1>1, <1>2

(* The invariant of the front door: unique keys and names, answers that    *)
(* are right, rows in order, a last message in every thread, no repeats.   *)
THEOREM RequestsInvariant == Spec => []RequestsInv
BY RequestsInvInit, RequestsInvStep, PTL DEF Spec

(* The tables keep their shape: every run has a thread, and every answer   *)
(* names a run.                                                            *)
THEOREM RequestsTypeOK == Spec => []TypeOK
<1>1. RequestsInv => TypeOK
    BY DEF RequestsInv
<1> QED
    BY <1>1, RequestsInvariant, PTL

(* One run for a request with a key, in the thread it was made for: two    *)
(* answers would be two runs of the thread under the request's key.        *)
LEMMA OneRunPerRequest == RequestsInv => AtMostOneRunPerRequest
<1> SUFFICES ASSUME RequestsInv, ~deduplicate, NEW q \in Requests, q.key # NoKey,
                    NEW r \in answers[q], NEW s \in answers[q], runs[r].thread = runs[s].thread
             PROVE  r = s
    BY DEF AtMostOneRunPerRequest
<1>1. r \in DOMAIN runs /\ s \in DOMAIN runs
    BY DEF RequestsInv, TypeOK
<1>2. Answers(q, r) /\ Answers(q, s)
    BY DEF RequestsInv, OwnAnswers
<1> QED
    BY <1>1, <1>2 DEF Answers, RequestsInv, KeyUnique

(* Without deduplication a request with a key makes at most one run in its *)
(* thread, however often and in whatever order it arrives.                 *)
THEOREM RequestsAtMostOneRun == Spec => []AtMostOneRunPerRequest
BY OneRunPerRequest, RequestsInvariant, PTL

(* An answer that is right is not the run of a different request.          *)
LEMMA NeverMixes == RequestsInv => KeyNeverMixesRequests
BY DEF RequestsInv, OwnAnswers, Answers, KeyNeverMixesRequests

(* No request is ever answered with a run that carries another message, or *)
(* with a deletion it did not ask for.                                     *)
THEOREM RequestsKeyNeverMixes == Spec => []KeyNeverMixesRequests
BY NeverMixes, RequestsInvariant, PTL

(* With deduplication no two consecutive messages of a thread are equal,   *)
(* whoever sent them and whatever was carried out in between, unless an    *)
(* earlier message of the first one's millisecond is listed behind it.     *)
THEOREM RequestsNoConsecutiveRepeats == Spec => []NoConsecutiveRepeats
<1>1. RequestsInv => NoConsecutiveRepeats
    BY DEF RequestsInv
<1> QED
    BY <1>1, RequestsInvariant, PTL

-----------------------------------------------------------------------------
(* Nobody asks for another level than the one a retry is compared with.    *)
PlainThinking == \A q \in Requests : q.op # "delete_thread" => ThinkingOf(q) = "medium"

MediumRuns == \A r \in DOMAIN runs : runs[r].thinking = "medium"

(* Under plain thinking no run has another level.                          *)
LEMMA MediumRunsStep ==
    ASSUME PlainThinking, TypeOK, MediumRuns, [Next]_vars
    PROVE  MediumRuns'
<1>1. CASE UNCHANGED vars
    BY <1>1 DEF MediumRuns, vars
<1>2. CASE Next
    <2>1. \A r \in DOMAIN runs : runs'[r].thinking = "medium"
        BY <1>2, RowSteps DEF Kept, SameRequest, MediumRuns
    <2>2. CASE DOMAIN runs' = DOMAIN runs
        BY <2>1, <2>2 DEF MediumRuns
    <2>3. ASSUME NEW q \in Requests, NEW t \in Nat, NewRow(t, q) PROVE MediumRuns'
        <3>1. /\ DOMAIN runs' = DOMAIN runs \cup {Len(runs) + 1}
              /\ runs'[Len(runs) + 1].thinking = "medium"
            BY <2>3 DEF NewRow, Inserted, PlainThinking
        <3> QED
            BY <2>1, <3>1 DEF MediumRuns
    <2> QED
        BY <1>2, <2>2, <2>3, RowSteps
<1> QED
    BY <1>1, <1>2

(* The run of a request that was accepted, in a thread that is still       *)
(* there, is the one its retry finds, and nothing of it has changed.       *)
LEMMA RetryFinds ==
    ASSUME RequestsInv, MediumRuns, ~deduplicate, NEW q \in Requests, q.key # NoKey,
           NEW r \in answers[q], ~Tombstoned(runs[r].thread)
    PROVE  /\ Named(q.name) = {runs[r].thread}
           /\ Prior(runs[r].thread, q) = {r}
           /\ ~Conflicts(r, q) /\ r \in Nat \ {0}
<1>1. r \in DOMAIN runs /\ r \in Nat \ {0}
    BY DEF RequestsInv, TypeOK
<1>2. Answers(q, r)
    BY DEF RequestsInv, OwnAnswers
<1>3. runs[r].thread \in DOMAIN threads
    BY <1>1 DEF RequestsInv, TypeOK
<1>4. Named(q.name) = {runs[r].thread}
    BY <1>2, <1>3 DEF Named, Answers, RequestsInv, NamesUnique
<1>5. Prior(runs[r].thread, q) = {r}
    BY <1>1, <1>2 DEF Prior, Answers, RequestsInv, KeyUnique
<1>6. ~Conflicts(r, q)
    BY <1>1, <1>2 DEF Conflicts, Answers, MediumRuns
<1> QED
    BY <1>1, <1>4, <1>5, <1>6

(* So the retry of an accepted request can only be answered with its run.  *)
LEMMA RetryStep ==
    ASSUME RequestsInv, MediumRuns, [Next]_vars,
           ~deduplicate, NEW q \in Requests, q.key # NoKey,
           response'.request = q.id, response' # response,
           NEW r \in answers[q], ~Tombstoned(runs[r].thread)
    PROVE  response'.run = r
<1> DEFINE t == runs[r].thread
<1>1. UNCHANGED deduplicate /\ \E p \in Requests : createThread(p) \/ mutateThread(p)
    BY DEF Next, vars, Settle
<1>2. PICK p \in Requests : createThread(p) \/ mutateThread(p)
    BY <1>1
<1>3. p = q
    <2>1. response'.request = p.id
        BY <1>1, <1>2, HandlerEffects, AnswerSteps DEF RequestsInv
    <2> QED
        BY <2>1, RequestAssumptions
<1>4. /\ Named(q.name) = {t} /\ Prior(t, q) = {r}
      /\ ~Conflicts(r, q) /\ r \in Nat \ {0}
    BY RetryFinds
<1> HIDE DEF t
<1>5. Retry(q, r)
    <2>1. CASE createThread(q)
        <3>1. ~Reserve(q)
            BY <1>4 DEF Reserve
        <3>2. PICK u \in Named(q.name) :
                  IF Prior(u, q) = {} THEN Refuse(q, "thread_already_exists")
                                      ELSE \E s \in Prior(u, q) : Retry(q, s)
            BY <2>1, <3>1 DEF createThread
        <3> QED
            BY <1>4, <3>2
    <2>2. CASE mutateThread(q)
        BY <1>4, <2>2 DEF mutateThread
    <2> QED
        BY <1>2, <1>3, <2>1, <2>2
<1>6. AnswerWith(q, r)
    BY <1>4, <1>5 DEF Retry
<1> QED
    BY <1>4, <1>6, AnswerEffects

(* Unless somebody asks for another thinking level (the case of the run    *)
(* RetryWithThinking, where it is false), a request that was accepted is   *)
(* answered with the same run whenever it is asked again in a thread that  *)
(* is still there.                                                         *)
THEOREM RequestsRetryReturnsSameRun ==
    ASSUME PlainThinking
    PROVE  Spec => RetryReturnsSameRun
<1>1. Init => MediumRuns
    BY DEF Init, MediumRuns
<1>2. RequestsInv /\ MediumRuns /\ [Next]_vars => MediumRuns'
    BY MediumRunsStep DEF RequestsInv
<1>3. RequestsInv /\ MediumRuns /\ [Next]_vars =>
          [~deduplicate =>
              \A q \in Requests :
                 (response'.request = q.id /\ response' # response /\ q.key # NoKey) =>
                     \A r \in answers[q] : Tombstoned(runs[r].thread) \/ response'.run = r]_vars
    BY RetryStep
<1> QED
    BY <1>1, <1>2, <1>3, RequestsInvariant, PTL DEF Spec, RetryReturnsSameRun

-----------------------------------------------------------------------------
(* Beside the other clients, a command and its executions are no more than *)
(* clients of the service.                                                 *)
LEMMA CliSteps ==
    /\ \A i \in DOMAIN Executions : Executions[i] \in Requests
    /\ CliNext => Next \/ UNCHANGED vars
    /\ [CliNext]_<<vars, cliVars>> => [Next]_vars
<1>1. ASSUME NEW i \in DOMAIN Executions PROVE Executions[i] \in Requests
    BY ExecutionAssumptions
<1>2. ASSUME CliNext PROVE Next \/ UNCHANGED vars
    <2>1. CASE OtherClients
        BY <2>1 DEF OtherClients, Next
    <2>2. CASE \E i \in DOMAIN Executions : Handle(i)
        BY <1>1, <2>2 DEF Handle, Next
    <2>3. CASE Execute \/ PollRun \/ Unreachable \/ Deadline \/ RecoverPendingRunId
        BY <2>3 DEF Execute, PollRun, Unreachable, Deadline, RecoverPendingRunId
    <2> QED
        BY <1>2, <2>1, <2>2, <2>3 DEF CliNext
<1>3. UNCHANGED <<vars, cliVars>> => UNCHANGED vars
    OBVIOUS
<1> QED
    BY <1>1, <1>2, <1>3

(* Whatever is true of the service is true with the command line as one of *)
(* its clients: every step of it is a request, a run carried out, or       *)
(* nothing to the service.                                                 *)
THEOREM CommandLineImplementsRequests == CliSpec => Spec
<1>1. CliInit => Init
    BY DEF CliInit
<1> QED
    BY <1>1, CliSteps, PTL DEF CliSpec, Spec

(* Answers are added, never taken back.                                    *)
LEMMA AnswersGrow ==
    ASSUME TypeOK, Next
    PROVE  /\ \A q \in Requests : answers[q] \subseteq answers'[q]
           /\ \A r \in DOMAIN runs : runs[r].state # "queued" => runs'[r].state # "queued"
<1>1. \A r \in DOMAIN runs : runs[r].state # "queued" => runs'[r].state # "queued"
    BY RowSteps DEF Kept
<1>2. CASE Carried
    BY <1>1, <1>2 DEF Carried
<1>3. ASSUME NEW q \in Requests, Handled(q) PROVE \A p \in Requests : answers[p] \subseteq answers'[p]
    BY <1>3, AnswerSteps
<1> QED
    BY <1>1, <1>2, <1>3, StepKinds

-----------------------------------------------------------------------------
(* What the command has, once it has been answered, is a run its request   *)
(* was answered with, and it only prints one that has settled.             *)
CliInv ==
    /\ executed \in 0..Len(Executions)
    /\ cli \in [at : {"idle", "posted", "polling", "printed", "refused", "unreachable",
                      "recovering", "timed_out"}, run : Nat]
    /\ cli.at # "idle" => executed # 0
    /\ cli.at \in {"polling", "printed"} => cli.run \in answers[Executions[executed]]
    /\ cli.at = "printed" => runs[cli.run].state # "queued"
    /\ cli.at \in {"posted", "recovering"} => cli.run = 0

(* Every step of the command, of the service and of the other clients      *)
(* keeps this.                                                             *)
LEMMA CliInvStep ==
    ASSUME RequestsInv, CliInv, CliNext
    PROVE  CliInv'
<1> DEFINE own == Executions[executed]
<1>0. /\ TypeOK /\ executed \in Nat /\ Len(Executions) \in Nat
      /\ DOMAIN Executions = 1..Len(Executions)
    BY ExecutionAssumptions DEF RequestsInv, CliInv
<1>1. cli.at # "idle" => own \in Requests
    BY <1>0, CliSteps DEF CliInv
<1>2. \A q \in Requests : answers[q] \subseteq DOMAIN runs /\ DOMAIN runs \subseteq Nat \ {0}
    BY <1>0 DEF TypeOK
<1>3. ASSUME Next, UNCHANGED <<executed, cli>> PROVE CliInv'
    <2>1. cli.at \in {"polling", "printed"} => cli.run \in answers'[own] /\ cli.run \in DOMAIN runs
        BY <1>0, <1>1, <1>2, <1>3, AnswersGrow DEF CliInv
    <2> QED
        BY <1>0, <1>3, <2>1, AnswersGrow DEF CliInv
<1>4. CASE OtherClients
    <2>1. Next
        BY <1>4 DEF OtherClients, Next
    <2> QED
        BY <1>3, <1>4, <2>1 DEF OtherClients, cliVars
<1>5. ASSUME NEW i \in DOMAIN Executions, Handle(i) PROVE CliInv'
    <2>1. Executions[i] \in Requests
        BY CliSteps
    <2>2. /\ createThread(Executions[i]) \/ mutateThread(Executions[i])
          /\ UNCHANGED <<deduplicate, executed>>
        BY <1>5 DEF Handle
    <2>3. Next
        BY <2>1, <2>2 DEF Next
    <2>4. CASE UNCHANGED cli
        BY <1>3, <2>2, <2>3, <2>4
    <2>5. CASE /\ cli.at = "posted" /\ i = executed
               /\ cli' \in Told(response'.code, response'.run)
        <3>1. \/ cli' = [at |-> "refused", run |-> 0]
              \/ response'.code = "run" /\ cli' = [at |-> "polling", run |-> response'.run]
            <4>1. CASE response'.code # "run"
                BY <2>5, <4>1 DEF Told
            <4>2. CASE response'.code = "run"
                <5>1. response'.run \in DOMAIN runs'
                    <6>1. response'.run \in answers'[Executions[i]]
                        BY <1>0, <2>1, <2>2, <4>2, HandlerEffects, AnswerSteps
                    <6>2. TypeOK'
                        BY <1>0, <2>3, TypeStep
                    <6> QED
                        BY <2>1, <6>1, <6>2 DEF TypeOK
                <5>2. runs'[response'.run].state \in {"queued", "settled", "attention"}
                    <6>1. runs' \in Seq(RunRecords)
                        BY <1>0, <2>3, RowSteps
                    <6>2. runs'[response'.run] \in RunRecords
                        BY <5>1, <6>1
                    <6> QED
                        BY <6>2 DEF RunRecords
                <5> QED
                    BY <2>5, <4>2, <5>2 DEF Told
            <4> QED
                BY <4>1, <4>2
        <3>2. response'.code = "run" => response'.run \in answers'[own] /\ response'.run \in Nat
            <4>1. response'.code = "run" => response'.run \in answers'[Executions[i]]
                BY <1>0, <2>1, <2>2, HandlerEffects, AnswerSteps
            <4>2. answers' \in [Requests -> SUBSET Nat]
                BY <1>0, <2>1, <2>2, HandlerEffects, AnswerSteps
            <4> QED
                BY <2>1, <2>5, <4>1, <4>2
        <3> QED
            BY <1>0, <2>2, <2>5, <3>1, <3>2 DEF CliInv
    <2> QED
        BY <1>5, <2>4, <2>5 DEF Handle
<1>6. CASE Execute
    BY <1>0, <1>6 DEF Execute, CliInv, vars
<1>7. CASE PollRun
    BY <1>0, <1>7 DEF PollRun, CliInv, vars
<1>8. CASE Unreachable
    BY <1>0, <1>8 DEF Unreachable, CliInv, vars
<1>9. CASE Deadline
    <2>1. cli.at = "polling" => cli.run # 0
        BY <1>1, <1>2 DEF CliInv
    <2> QED
        BY <1>0, <1>9, <2>1 DEF Deadline, CliInv, vars
<1>10. CASE RecoverPendingRunId
    <2>1. \/ cli' = [cli EXCEPT !.at = "timed_out"]
          \/ \E r \in DOMAIN runs : cli' = [at |-> "timed_out", run |-> r]
        BY <1>10 DEF RecoverPendingRunId, findPendingRun, LastOf, Pending, namePendingRun
    <2>2. cli.at = "recovering" /\ UNCHANGED <<vars, executed>>
        BY <1>10 DEF RecoverPendingRunId
    <2>3. DOMAIN runs \subseteq Nat
        BY <1>0 DEF TypeOK
    <2> QED
        BY <1>0, <2>1, <2>2, <2>3 DEF CliInv, vars
<1> QED
    BY <1>4, <1>5, <1>6, <1>7, <1>8, <1>9, <1>10 DEF CliNext

(* Both invariants hold with the command line among the clients.           *)
THEOREM CommandLineInvariant == CliSpec => [](RequestsInv /\ CliInv)
<1>1. CliInit => CliInv
    BY ExecutionAssumptions DEF CliInit, CliInv
<1>2. RequestsInv /\ CliInv /\ [CliNext]_<<vars, cliVars>> => CliInv'
    <2>1. CliInv /\ UNCHANGED <<vars, cliVars>> => CliInv'
        BY DEF CliInv, vars, cliVars
    <2> QED
        BY <2>1, CliInvStep
<1>3. Spec => []RequestsInv
    BY RequestsInvariant
<1> QED
    BY <1>1, <1>2, <1>3, CommandLineImplementsRequests, PTL DEF CliSpec

(* What the command prints as its outcome is a settled run with its        *)
(* message, in a thread of the name it was given, that its request was     *)
(* answered with.                                                          *)
THEOREM CommandLinePrintsItsOwnMessage == CliSpec => []PrintsItsOwnMessage
<1>1. RequestsInv /\ CliInv => PrintsItsOwnMessage
    <2> SUFFICES ASSUME RequestsInv, CliInv, cli.at = "printed"
                 PROVE  /\ runs[cli.run].state # "queued"
                        /\ runs[cli.run].text = Executions[executed].text
                        /\ threads[runs[cli.run].thread].name = Executions[executed].name
                        /\ cli.run \in answers[Executions[executed]]
        BY DEF PrintsItsOwnMessage
    <2>1. executed \in DOMAIN Executions
        BY ExecutionAssumptions DEF CliInv
    <2>2. Executions[executed] \in Requests
        BY <2>1, CliSteps
    <2>3. cli.run \in answers[Executions[executed]] /\ runs[cli.run].state # "queued"
        BY DEF CliInv
    <2>4. Answers(Executions[executed], cli.run)
        BY <2>2, <2>3 DEF RequestsInv, OwnAnswers
    <2> QED
        BY <2>3, <2>4 DEF Answers
<1> QED
    BY <1>1, CommandLineInvariant, PTL

(* The run a timed out command names is never accepted earlier than a      *)
(* pending one that its own request was answered with, unless in the same  *)
(* millisecond: findPendingRun takes the last pending run of the thread.   *)
THEOREM CommandLineNamesNoEarlierRun == CliSpec => NamesNoEarlierRun
<1>1. ASSUME RequestsInv, CliInv, CliNext, cli.at = "recovering", cli'.run # 0,
             NEW s \in Pending(runs[cli'.run].thread)
      PROVE  s <= cli'.run \/ runs[s].createdAt = runs[cli'.run].createdAt
    <2>1. cli.run = 0 /\ cli' # cli
        BY <1>1 DEF CliInv
    <2>2. RecoverPendingRunId
        BY <1>1, <2>1
        DEF CliNext, OtherClients, Execute, PollRun, Unreachable, Deadline, Handle, cliVars
    <2>3. PICK t \in Named(Executions[executed].name) :
             \E r \in findPendingRun(t) : namePendingRun(r)
        <3>1. cli' # [cli EXCEPT !.at = "timed_out"]
            BY <1>1, <2>1 DEF CliInv
        <3> QED
            BY <2>2, <3>1 DEF RecoverPendingRunId
    <2>4. PICK r \in findPendingRun(t) : cli'.run = r
        BY <2>3 DEF namePendingRun
    <2>5. r \in DOMAIN runs /\ runs[r].thread = t /\ \A p \in Pending(t) : ~Before(r, p)
        BY DEF findPendingRun, LastOf, Pending
    <2>6. s \in DOMAIN runs /\ ~Before(r, s)
        BY <1>1, <2>4, <2>5 DEF Pending
    <2>7. /\ r \in Nat /\ s \in Nat
          /\ runs[r].createdAt \in Int /\ runs[s].createdAt \in Int
        BY <1>1, <2>5, <2>6, RowTypes DEF RequestsInv
    <2>8. r < s => runs[s].createdAt = runs[r].createdAt
        BY <1>1, <2>5, <2>6, <2>7 DEF RequestsInv, RowOrder, Before
    <2> QED
        BY <2>4, <2>7, <2>8
<1>2. RequestsInv /\ CliInv /\ [CliNext]_<<vars, cliVars>> =>
          [cli.at = "recovering" /\ cli'.run # 0 =>
              \A r \in answers[Executions[executed]] :
                  r \in Pending(runs[cli'.run].thread) =>
                      r <= cli'.run \/ runs[r].createdAt = runs[cli'.run].createdAt
          ]_<<vars, cliVars>>
    BY <1>1
<1> QED
    BY <1>2, CommandLineInvariant, PTL DEF CliSpec, NamesNoEarlierRun
=============================================================================
