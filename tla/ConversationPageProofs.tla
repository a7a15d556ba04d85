------------------------ MODULE ConversationPageProofs ------------------------
(***************************************************************************)
(* Proofs about ConversationPage.  Each property is proved under those of  *)
(* the assumptions on the page that it needs, and for both values of every *)
(* other constant: that a deletion is told as it is needs one of the five, *)
(* that an answer is final and in place three, that the stages are kept    *)
(* four.                                                                   *)
(*                                                                         *)
(* TurnsOK says how the conversation is made of old turns and those of the *)
(* message, and Control, Gone and Place what is known at each point of the *)
(* operation.  What a snapshot is worth then depends on the page: if       *)
(* history does not lag it has counted every old turn (View), and if old   *)
(* answers do not grow they stay what it has seen (Snapped), so that what  *)
(* differs from it is the message or its answer.                           *)
(***************************************************************************)
EXTENDS ConversationPage, FiniteSetTheorems, SequenceTheorems, TLAPS

Kinds == {"create", "send", "recover", "delete"}
Places == {"blank", "project", "conversation"}
Opening == {"project", "open", "evidence"}
Submitting == {"snapshot", "type", "click", "confirm", "await", "controls"}
Inspecting == {"open", "evidence", "settle", "take", "observe", "await", "controls"}
Deleting == {"presence", "menu", "confirm_deletion", "verify"}
ResultCodes ==
    {"none", "answered", "already_absent", "deleted", "ambiguous", "auth_required",
     "rate_limited", "thread_not_found", "browser_crashed", "browser_closed",
     "unexpected_state", "navigation_failed", "project_not_found", "ui_changed",
     "input_not_found", "send_failed", "submission_ambiguous", "response_timeout",
     "remote_delete_failed"}

TurnRecords == [role : {"user", "assistant"}, own : BOOLEAN, text : 0..2]
PageRecords == [open : BOOLEAN, at : Places, shown : Nat]
Signatures == {NoSignature} \cup (Nat \X Nat)
Snapshots == [assistant : Nat, user : Nat, signature : Signatures, url : Places]
Readings == [turn : Nat, text : 0..2, stable : BOOLEAN]
ResultRecords == [code : ResultCodes, turn : Nat, text : 0..2]

TypeOK ==
    /\ kind \in Kinds
    /\ turns \in Seq(TurnRecords)
    /\ message \in {"unsent", "sent", "posted"}
    /\ gone \in {"no", "sent", "yes"}
    /\ page \in PageRecords /\ page.shown <= Len(turns)
    /\ pc \in {"lease", "done"} \cup Deleting \cup Opening \cup Submitting \cup Inspecting
    /\ snapshot \in Snapshots
    /\ read \in Readings
    /\ known \in BOOLEAN /\ confirmed \in BOOLEAN /\ inspecting \in BOOLEAN
    /\ result \in ResultRecords

(* The turns from before the operation: one exchange at most, of which the *)
(* answer is the end.                                                      *)
Old == {i \in DOMAIN turns : ~turns[i].own}
OldOf(role) == {i \in Old : turns[i].role = role}

(* The message is posted behind them, its answer behind it.                *)
Posted(m) ==
    /\ \A i \in DOMAIN turns : turns[i].own <=> m <= i
    /\ turns[m].role = "user"
    /\ \/ Len(turns) = m
       \/ Len(turns) = m + 1 /\ turns[m + 1].role = "assistant"

TurnsOK ==
    /\ kind = "create" => Old = {}
    /\ \A i, j \in Old : turns[i].role = "assistant" => j <= i
    /\ \A i, j \in Old : turns[i].role = turns[j].role => i = j
    /\ ~OldAnswerMayGrow => \A i \in Old : turns[i].text = 2
    /\ message # "posted" => Old = DOMAIN turns
    /\ message = "posted" => \E m \in DOMAIN turns : Posted(m)

(* What the point an operation has reached says of the operation, ...      *)
Control ==
    /\ kind = "delete" => /\ pc \in {"lease", "done"} \cup Deleting
                          /\ ~inspecting /\ message = "unsent"
    /\ kind = "recover" => inspecting
    /\ inspecting => pc \in {"lease", "done"} \cup Inspecting /\ known
    /\ kind # "delete" /\ ~inspecting => pc \in {"lease", "done"} \cup Opening \cup Submitting
    /\ pc = "project" => kind = "create"
    /\ ~inspecting /\ pc \in {"open", "evidence"} => kind = "send"
    /\ ~inspecting /\ pc \in {"lease", "snapshot", "type", "click"} \cup Opening =>
          message = "unsent" /\ ~confirmed
    /\ pc = "confirm" => ~confirmed
    /\ ~inspecting /\ pc \in {"await", "controls"} => confirmed
    /\ kind # "create" => known
    /\ kind = "create" /\ (known \/ page.at = "conversation") => message # "unsent"
    /\ pc # "done" => result.code = "none"

(* ... of the deletion of the conversation, ...                            *)
Gone ==
    /\ kind = "create" => gone = "no"
    /\ gone = "sent" => kind = "delete" /\ pc \in {"verify", "done"}
    /\ pc \in {"menu", "confirm_deletion"} => gone = "no"
    /\ ~inspecting /\ pc \in {"evidence", "snapshot", "type", "click"} => gone = "no"

(* ... and of the page.                                                    *)
Place ==
    /\ pc = "evidence" => page.at = "conversation"
    /\ ~inspecting /\ pc \in Submitting =>
          page.at = "conversation" \/ (kind = "create" /\ page.at = "project")

Shape == TypeOK /\ TurnsOK /\ Control /\ Gone /\ Place

(* A page that shows turns shows all the old ones. *)
Loaded == \A i \in Old : i <= page.shown

View ==
    /\ page.shown > 0 => Loaded
    /\ ~inspecting /\ pc \in Submitting => Loaded

(* The snapshot of a submission is what the old turns look like. *)
Snapped ==
    ~inspecting /\ pc \in Submitting \ {"snapshot"} =>
        /\ snapshot.assistant = Cardinality(OldOf("assistant"))
        /\ snapshot.user = Cardinality(OldOf("user"))
        /\ snapshot.signature = Signature(Latest(OldOf("assistant")))
        /\ snapshot.url = IF kind = "create" THEN "project" ELSE "conversation"

(* A turn that an answer may be taken from, and the one it was taken from. *)
Right(t) ==
    /\ t \in DOMAIN turns /\ turns[t].role = "assistant"
    /\ ~inspecting => turns[t].own
    /\ \A i \in DOMAIN turns : i > t => turns[i].own

Answer ==
    /\ pc = "controls" => Right(read.turn)
    /\ result.code = "answered" => Right(result.turn) /\ (result.text = 2 \/ ~page.open)

(* What is confirmed was sent. *)
Confirmed == confirmed => message # "unsent"

(* What a history has to be for a snapshot of it to be worth something. *)
HistoryLoads == ~HistoryMayLag /\ ~OldAnswerMayGrow

-----------------------------------------------------------------------------
(* Every step is one of the environment or one of the following kinds.     *)

Moves ==
    /\ \/ pc = "lease" /\ pc' = CASE kind = "delete"                 -> "presence"
                                  [] kind = "create" /\ ~inspecting  -> "project"
                                  [] OTHER                           -> "open"
       \/ pc = "evidence" /\ page.shown > 0 /\ pc' = IF inspecting THEN "settle" ELSE "snapshot"
       \/ pc = "type" /\ pc' = "click"
       \/ pc = "controls" /\ pc' = "await"
       \/ pc = "settle" /\ pc' \in {"take", "observe"}
       \/ pc = "presence" /\ gone # "yes" /\ pc' = "menu"
       \/ pc = "menu" /\ pc' = "confirm_deletion"
    /\ UNCHANGED <<kind, remoteVars, page, operationVars, result>>

Loads ==
    /\ \/ pc = "project" /\ page' = [page EXCEPT !.at = "project"] /\ pc' = "snapshot"
       \/ /\ pc = "open" /\ gone # "yes"
          /\ page' = [page EXCEPT !.at = "conversation"] /\ pc' = "evidence"
    /\ UNCHANGED <<kind, remoteVars, operationVars, result>>

Captures ==
    /\ \/ pc = "snapshot" /\ snapshot' = submissionSnapshot /\ pc' = "type"
       \/ pc \in {"take", "observe"} /\ pc' = "await"
          /\ snapshot' \in {submissionSnapshot,
                            [submissionSnapshot EXCEPT !.signature = RecoveryTarget]}
    /\ UNCHANGED <<kind, remoteVars, page, read, known, confirmed, inspecting, result>>

Answered ==
    /\ pc = "controls" /\ answerComplete /\ known
    /\ Done("answered", read.turn, copiedText)
    /\ UNCHANGED <<kind, remoteVars, operationVars>>

FoundAbsent ==
    /\ absent
    /\ \/ pc = "presence" /\ Done("already_absent", 0, 0)
       \/ pc = "verify" /\ Done("deleted", 0, 0)
    /\ UNCHANGED <<kind, remoteVars, operationVars>>

(* Where the codes that are not told everywhere come from. *)
Failures == ResultCodes \ {"none", "answered", "already_absent", "deleted"}
MayFailWith(code) ==
    /\ code = "submission_ambiguous" => pc = "confirm" \/ (pc = "controls" /\ ~known)
    /\ code = "response_timeout" => pc = "await"
    /\ pc = "verify" => code \in {"ambiguous", "browser_closed"}
    /\ code = "ambiguous" => pc = "verify"

Ends(code) ==
    /\ ~(kind \in {"create", "send"} /\ ~inspecting /\ known
            /\ shouldRecoverSubmittedOperation(code)
            /\ (confirmed \/ code = "submission_ambiguous"))
    /\ Done(code, 0, 0)
    /\ UNCHANGED inspecting
Inspects(code) ==
    /\ kind \in {"create", "send"} /\ ~inspecting /\ known
    /\ shouldRecoverSubmittedOperation(code)
    /\ confirmed \/ code = "submission_ambiguous"
    /\ pc' = "lease" /\ page' = NewPage /\ inspecting' = TRUE
    /\ UNCHANGED result

Fails ==
    /\ pc \notin {"click", "confirm_deletion", "done"}
    /\ \E code \in Failures : MayFailWith(code) /\ (Ends(code) \/ Inspects(code))
    /\ UNCHANGED <<kind, remoteVars, snapshot, read, confirmed, known>>

(* A failure with any of some codes is a failure of the kind above. *)
LEMMA FailKinds ==
    ASSUME NEW codes \in SUBSET Failures, FailWith(codes), UNCHANGED known,
           pc \notin {"click", "confirm_deletion", "done"},
           \A code \in codes : MayFailWith(code)
    PROVE  Fails
<1>1. PICK code \in codes : Fail(code)
    BY DEF FailWith
<1>2. Ends(code) \/ Inspects(code)
    BY <1>1 DEF Fail, recovers, Ends, Inspects
<1> QED
    BY <1>2 DEF FailWith, Fails

(* Every step of the adapter is one of the kinds. *)
LEMMA StepKinds ==
    ASSUME Adapter
    PROVE  \/ Moves \/ Loads \/ Captures \/ SubmitClick \/ SubmitThrows \/ ConfirmPoll
           \/ ReadAnswer \/ Answered \/ FoundAbsent \/ ConfirmDeletion \/ Fails
<1> USE DEF Goto, operationVars, Failures, ResultCodes, MayFailWith, blockingFailures, thrown
<1>1. CASE Lease
    BY <1>1, FailKinds DEF Lease, Moves
<1>2. CASE OpenProject
    BY <1>2, FailKinds DEF OpenProject, Loads
<1>3. CASE OpenExisting
    BY <1>3, FailKinds DEF OpenExisting, Loads
<1>4. CASE ConversationEvidence
    BY <1>4, FailKinds DEF ConversationEvidence, Moves
<1>5. CASE CaptureSubmissionSnapshot
    BY <1>5, FailKinds DEF CaptureSubmissionSnapshot, Captures
<1>6. CASE TypeMessage
    BY <1>6, FailKinds DEF TypeMessage, Moves
<1>7. CASE ConfirmFails
    BY <1>7, FailKinds DEF ConfirmFails
<1>8. CASE ReadControls
    <2>1. CASE answerComplete /\ ~known /\ UNCHANGED <<known, kind, snapshot, read, confirmed>>
               /\ Fail("submission_ambiguous")
        <3>1. FailWith({"submission_ambiguous"})
            BY <1>8, <2>1 DEF FailWith, ReadControls
        <3> QED
            BY <1>8, <2>1, <3>1, FailKinds DEF ReadControls
    <2> QED
        BY <1>8, <2>1 DEF ReadControls, Moves, Answered
<1>9. CASE AwaitFails
    BY <1>9, FailKinds DEF AwaitFails
<1>10. CASE TurnsSettled
    BY <1>10, FailKinds DEF TurnsSettled, Moves
<1>11. CASE RecoverySnapshot
    BY <1>11, FailKinds DEF RecoverySnapshot, Captures
<1>12. CASE InitialPresence
    BY <1>12, FailKinds DEF InitialPresence, Moves, FoundAbsent
<1>13. CASE DeletionDialog
    BY <1>13, FailKinds DEF DeletionDialog, Moves
<1>14. CASE VerifyDeletion
    BY <1>14, FailKinds DEF VerifyDeletion, FoundAbsent
<1> QED
    BY <1>1, <1>2, <1>3, <1>4, <1>5, <1>6, <1>7, <1>8, <1>9, <1>10, <1>11, <1>12, <1>13,
       <1>14 DEF Adapter

-----------------------------------------------------------------------------
(* The turns of the conversation. *)

(* The turns the model makes are turns. *)
LEMMA NewTurns ==
    /\ User(FALSE) \in TurnRecords /\ User(TRUE) \in TurnRecords
    /\ Assistant(FALSE, 1) \in TurnRecords /\ Assistant(FALSE, 2) \in TurnRecords
    /\ Assistant(TRUE, 0) \in TurnRecords
BY DEF User, Assistant, TurnRecords

(* A turn is added. *)
LEMMA TurnAdded ==
    ASSUME turns \in Seq(TurnRecords), NEW t \in TurnRecords, turns' = Append(turns, t)
    PROVE  /\ turns' \in Seq(TurnRecords)
           /\ Len(turns) \in Nat /\ Len(turns') = Len(turns) + 1
           /\ DOMAIN turns = 1..Len(turns) /\ DOMAIN turns' = 1..(Len(turns) + 1)
           /\ \A i \in DOMAIN turns : turns'[i] = turns[i]
           /\ turns'[Len(turns) + 1] = t
OBVIOUS

(* More of the text of the last turn is there. *)
LEMMA TurnGrown ==
    ASSUME turns \in Seq(TurnRecords), turns # <<>>, LastTurn.text < 2,
           turns' = [turns EXCEPT ![Len(turns)].text = @ + 1]
    PROVE  /\ turns' \in Seq(TurnRecords)
           /\ Len(turns') = Len(turns) /\ DOMAIN turns' = DOMAIN turns
           /\ \A i \in DOMAIN turns : i # Len(turns) => turns'[i] = turns[i]
           /\ \A i \in DOMAIN turns :
                 turns'[i].role = turns[i].role /\ turns'[i].own = turns[i].own
           /\ Len(turns) \in DOMAIN turns
<1> DEFINE n == Len(turns)
           t == [turns[n] EXCEPT !.text = @ + 1]
<1>1. n \in Nat /\ n \in DOMAIN turns /\ DOMAIN turns = 1..n
    OBVIOUS
<1>2. turns[n] \in TurnRecords /\ turns[n].text < 2
    BY <1>1 DEF LastTurn
<1>3. t \in TurnRecords /\ t.role = turns[n].role /\ t.own = turns[n].own
    <2>1. turns[n].text + 1 \in 0..2
        BY <1>2 DEF TurnRecords
    <2> QED
        BY <1>2, <2>1 DEF TurnRecords
<1>4. turns' = [turns EXCEPT ![n] = t]
    OBVIOUS
<1> HIDE DEF t, n
<1>5. turns' \in Seq(TurnRecords) /\ Len(turns') = n
    BY <1>1, <1>3, <1>4, ExceptSeq DEF n
<1>6. /\ DOMAIN turns' = DOMAIN turns /\ turns'[n] = t
      /\ \A i \in DOMAIN turns : i # n => turns'[i] = turns[i]
    BY <1>1, <1>4
<1> QED
    BY <1>1, <1>3, <1>5, <1>6 DEF n

(* Own turns stay behind the old ones, whatever arrives or grows. *)
SameTurns ==
    /\ turns' \in Seq(TurnRecords)
    /\ Len(turns) <= Len(turns')
    /\ Old' = Old
    /\ \A i \in DOMAIN turns : /\ i \in DOMAIN turns'
                               /\ turns'[i].role = turns[i].role
                               /\ turns'[i].own = turns[i].own
    /\ ~OldAnswerMayGrow => \A i \in Old : turns'[i] = turns[i]

(* The old turns keep their roles, and their texts where answers do not grow. *)
TurnsKept ==
    /\ \A i \in Old : turns'[i].role = turns[i].role
    /\ ~OldAnswerMayGrow => \A i \in Old : turns'[i] = turns[i]

(* What is said of the old turns is still true of them. *)
LEMMA OldPart ==
    ASSUME TurnsOK, TurnsKept, Old' = Old, kind' = kind
    PROVE  /\ kind' = "create" => Old' = {}
           /\ \A i, j \in Old' : turns'[i].role = "assistant" => j <= i
           /\ \A i, j \in Old' : turns'[i].role = turns'[j].role => i = j
           /\ ~OldAnswerMayGrow => \A i \in Old' : turns'[i].text = 2
BY DEF TurnsOK, TurnsKept

(* The message arrives behind the old turns. *)
LEMMA MessageTurns ==
    ASSUME TypeOK, TurnsOK, Control, MessageArrives
    PROVE  SameTurns /\ TurnsOK'
<1>1. /\ turns \in Seq(TurnRecords) /\ turns' = Append(turns, User(TRUE))
      /\ User(TRUE) \in TurnRecords /\ message = "sent" /\ message' = "posted" /\ kind' = kind
    BY NewTurns DEF TypeOK, MessageArrives
<1>2. PICK n \in Nat : n = Len(turns)
    BY <1>1
<1>3. /\ turns' \in Seq(TurnRecords) /\ Len(turns') = n + 1
      /\ DOMAIN turns = 1..n /\ DOMAIN turns' = 1..(n + 1)
      /\ \A i \in DOMAIN turns : turns'[i] = turns[i]
      /\ turns'[n + 1].own /\ turns'[n + 1].role = "user"
    <2>1. User(TRUE).own /\ User(TRUE).role = "user"
        BY DEF User
    <2> QED
        BY <1>1, <1>2, <2>1, TurnAdded
<1>4. Old' = Old
    BY <1>3 DEF Old
<1>5. SameTurns
    BY <1>2, <1>3, <1>4 DEF SameTurns, Old
<1>6. \A i \in DOMAIN turns : ~turns[i].own
    BY <1>1 DEF TurnsOK, Old
<1>7. Posted(n + 1)'
    <2>1. \A i \in 1..(n + 1) : turns'[i].own <=> n + 1 <= i
        <3> SUFFICES ASSUME NEW i \in 1..(n + 1) PROVE turns'[i].own <=> n + 1 <= i
            OBVIOUS
        <3>1. CASE i \in 1..n
            BY <1>3, <1>6, <3>1
        <3>2. CASE i = n + 1
            BY <1>3, <3>2
        <3> QED
            BY <3>1, <3>2
    <2> QED
        BY <1>3, <2>1 DEF Posted
<1>8. TurnsKept
    BY <1>3 DEF TurnsKept, Old
<1> QED
    <2>1. n + 1 \in DOMAIN turns'
        BY <1>3
    <2> QED
        BY <1>1, <1>4, <1>5, <1>7, <1>8, <2>1, OldPart DEF TurnsOK

(* An answer is begun behind the message, or the last one grows. *)
LEMMA GrowthTurns ==
    ASSUME TypeOK, TurnsOK, Control, AnswerGrows
    PROVE  SameTurns /\ TurnsOK'
<1>1. PICK n \in Nat :
         /\ n = Len(turns) /\ turns \in Seq(TurnRecords) /\ turns # <<>> /\ n \in DOMAIN turns
         /\ DOMAIN turns = 1..n /\ turns[n] \in TurnRecords
         /\ UNCHANGED <<kind, message>> /\ LastTurn = turns[n]
    BY DEF TypeOK, AnswerGrows, LastTurn
<1>2. CASE turns[n].role = "user"
    <2>1. message = "posted"
        BY <1>1, <1>2 DEF AnswerGrows, Answering
    <2>2. PICK m \in DOMAIN turns : Posted(m)
        BY <2>1 DEF TurnsOK
    <2>3. m = n
        BY <1>1, <1>2, <2>2 DEF Posted
    <2>4. turns' = Append(turns, Assistant(TRUE, 0)) /\ Assistant(TRUE, 0) \in TurnRecords
        BY <1>1, <1>2, NewTurns DEF AnswerGrows
    <2>5. /\ turns' \in Seq(TurnRecords) /\ Len(turns') = n + 1
          /\ DOMAIN turns' = 1..(n + 1)
          /\ \A i \in DOMAIN turns : turns'[i] = turns[i]
          /\ turns'[n + 1].own /\ turns'[n + 1].role = "assistant"
        <3>1. Assistant(TRUE, 0).own /\ Assistant(TRUE, 0).role = "assistant"
            BY DEF Assistant
        <3> QED
            BY <1>1, <2>4, <3>1, TurnAdded
    <2>6. Old' = Old
        BY <1>1, <2>5 DEF Old
    <2>7. SameTurns
        BY <1>1, <2>5, <2>6 DEF SameTurns, Old
    <2>8. \A i \in 1..(n + 1) : turns'[i].own <=> n <= i
        <3> SUFFICES ASSUME NEW i \in 1..(n + 1) PROVE turns'[i].own <=> n <= i
            OBVIOUS
        <3>1. CASE i \in 1..n
            BY <1>1, <2>2, <2>3, <2>5, <3>1 DEF Posted
        <3>2. CASE i = n + 1
            BY <2>5, <3>2
        <3> QED
            BY <3>1, <3>2
    <2>9. Posted(n)'
        <3>1. turns'[n].role = "user"
            BY <1>1, <1>2, <2>5
        <3> QED
            BY <2>5, <2>8, <3>1 DEF Posted
    <2>10. n \in DOMAIN turns' /\ TurnsKept
        BY <1>1, <2>5 DEF TurnsKept, Old
    <2> QED
        BY <1>1, <2>1, <2>6, <2>7, <2>9, <2>10, OldPart DEF TurnsOK
<1>3. CASE turns[n].role = "assistant"
    <2>1. turns[n].text < 2 /\ (OldAnswerMayGrow \/ turns[n].own)
        <3>1. CASE message = "posted" /\ ~(turns[n].own /\ turns[n].text = 2)
            <4>1. PICK m \in DOMAIN turns : Posted(m)
                BY <3>1 DEF TurnsOK
            <4>2. m <= n
                BY <1>1
            <4>3. turns[n].own
                BY <1>1, <4>1, <4>2 DEF Posted
            <4>4. turns[n].text \in 0..2 /\ turns[n].text # 2
                BY <1>1, <3>1, <4>3 DEF TurnRecords
            <4> QED
                BY <4>3, <4>4
        <3>2. CASE OldAnswerMayGrow /\ turns[n].text < 2
            BY <3>2
        <3> QED
            BY <1>1, <1>3, <3>1, <3>2 DEF AnswerGrows, Answering
    <2>2. turns' = [turns EXCEPT ![Len(turns)].text = @ + 1] /\ LastTurn.text < 2
        BY <1>1, <1>3, <2>1 DEF AnswerGrows
    <2>3. /\ turns' \in Seq(TurnRecords)
          /\ Len(turns') = n /\ DOMAIN turns' = DOMAIN turns
          /\ \A i \in DOMAIN turns : i # n => turns'[i] = turns[i]
          /\ \A i \in DOMAIN turns :
                turns'[i].role = turns[i].role /\ turns'[i].own = turns[i].own
        BY <1>1, <2>2, TurnGrown
    <2>4. Old' = Old
        BY <2>3 DEF Old
    <2>5. ~OldAnswerMayGrow => \A i \in Old : turns'[i] = turns[i]
        BY <2>1, <2>3 DEF Old
    <2>6. SameTurns /\ TurnsKept
        BY <1>1, <2>3, <2>4, <2>5 DEF SameTurns, TurnsKept, Old
    <2>7. \A m \in DOMAIN turns : Posted(m) => Posted(m)'
        <3> SUFFICES ASSUME NEW m \in DOMAIN turns, Posted(m) PROVE Posted(m)'
            OBVIOUS
        <3>1. Len(turns) = m + 1 => m + 1 \in DOMAIN turns
            BY <1>1
        <3> QED
            BY <1>1, <2>3, <3>1 DEF Posted
    <2>8. message = "posted" => \E m \in DOMAIN turns' : Posted(m)'
        BY <2>3, <2>7 DEF TurnsOK
    <2> QED
        BY <1>1, <2>3, <2>4, <2>6, <2>8, OldPart DEF TurnsOK
<1> QED
    BY <1>1, <1>2, <1>3 DEF TurnRecords

(* No step changes the turns otherwise. *)
LEMMA TurnsStep ==
    ASSUME TypeOK, TurnsOK, Control, [Next]_vars
    PROVE  SameTurns /\ TurnsOK'
<1>1. CASE MessageArrives \/ AnswerGrows
    BY <1>1, MessageTurns, GrowthTurns
<1>2. CASE /\ UNCHANGED <<kind, turns>>
           /\ message' = message \/ (message = "unsent" /\ message' = "sent")
    <2>1. Old' = Old /\ \A m \in DOMAIN turns : Posted(m) => Posted(m)'
        BY <1>2 DEF Old, Posted
    <2>2. SameTurns
        BY <1>2, <2>1 DEF SameTurns, TypeOK
    <2> QED
        BY <1>2, <2>1, <2>2 DEF TurnsOK
<1>3. CASE SubmitClick \/ SubmitThrows
    <2>1. message = "unsent" /\ UNCHANGED <<kind, turns>>
        BY <1>3 DEF SubmitClick, SubmitThrows, Control, Goto, Inspecting, Deleting
    <2> QED
        BY <1>2, <1>3, <2>1 DEF SubmitClick, SubmitThrows
<1>4. CASE UNCHANGED vars
    BY <1>2, <1>4 DEF vars, remoteVars
<1>5. CASE DeletionArrives \/ UrlChanges \/ TurnsAppear \/ TabCloses
    BY <1>2, <1>5 DEF DeletionArrives, UrlChanges, TurnsAppear, TabCloses, remoteVars
<1>6. CASE \/ Moves \/ Loads \/ Captures \/ ConfirmPoll
           \/ ReadAnswer \/ Answered \/ FoundAbsent \/ ConfirmDeletion \/ Fails
    BY <1>2, <1>6 DEF Moves, Loads, Captures, ConfirmPoll, ReadAnswer, Answered, FoundAbsent,
       ConfirmDeletion, Fails, remoteVars, Goto
<1> QED
    BY <1>1, <1>3, <1>4, <1>5, <1>6, StepKinds DEF Next, Environment

-----------------------------------------------------------------------------
(* What can be read of a page. *)

(* The latest of some turns is the one that no other is behind. *)
LEMMA LatestIs ==
    ASSUME NEW S \in SUBSET Nat, NEW i \in S, \A j \in S : j <= i
    PROVE  Latest(S) = i
<1>1. \A k \in S : (\A j \in S : j <= k) => k = i
    OBVIOUS
<1> QED
    BY <1>1 DEF Latest

(* The message is one turn, and so is its answer. *)
LEMMA OneOfEachRole ==
    ASSUME TypeOK, TurnsOK,
           NEW i \in DOMAIN turns, NEW j \in DOMAIN turns,
           turns[i].role = turns[j].role, turns[i].own <=> turns[j].own
    PROVE  i = j
<1>1. CASE ~turns[i].own
    BY <1>1 DEF TurnsOK, Old
<1>2. CASE turns[i].own
    <2>1. PICK n \in Nat : n = Len(turns) /\ DOMAIN turns = 1..n
        BY DEF TypeOK
    <2>2. i \notin Old
        BY <1>2 DEF Old
    <2>3. PICK m \in DOMAIN turns : Posted(m)
        BY <2>2 DEF TurnsOK
    <2>4. i \in {m, m + 1} /\ j \in {m, m + 1}
        BY <1>2, <2>1, <2>3 DEF Posted
    <2>5. m + 1 \in DOMAIN turns => turns[m + 1].role = "assistant" /\ turns[m].role = "user"
        BY <2>1, <2>3 DEF Posted
    <2> QED
        BY <2>4, <2>5
<1> QED
    BY <1>1, <1>2 DEF TypeOK, TurnRecords

(* The turns of a role have a latest one: the message or its answer if it  *)
(* is among them, and the old one otherwise.                               *)
LEMMA LatestOfRole ==
    ASSUME TypeOK, TurnsOK, NEW S \in SUBSET DOMAIN turns, S # {},
           \A i, j \in S : turns[i].role = turns[j].role
    PROVE  Latest(S) \in S /\ \A j \in S : j <= Latest(S)
<1>1. PICK n \in Nat : n = Len(turns) /\ DOMAIN turns = 1..n
    BY DEF TypeOK
<1>2. S \in SUBSET Nat
    BY <1>1
<1>3. \E i \in S : \A j \in S : j <= i
    <2>1. CASE \E i \in S : turns[i].own
        <3>1. PICK i \in S : turns[i].own
            BY <2>1
        <3>2. i \notin Old
            BY <3>1 DEF Old
        <3>3. PICK m \in DOMAIN turns : Posted(m)
            BY <3>2 DEF TurnsOK
        <3>4. \A j \in S : j <= i
            <4> SUFFICES ASSUME NEW j \in S PROVE j <= i
                OBVIOUS
            <4>1. CASE turns[j].own
                BY <3>1, <4>1, <1>1, OneOfEachRole
            <4>2. CASE ~turns[j].own
                BY <3>1, <3>3, <4>2, <1>1 DEF Posted
            <4> QED
                BY <4>1, <4>2
        <3> QED
            BY <3>4
    <2>2. CASE \A i \in S : ~turns[i].own
        <3>1. \A i, j \in S : i = j
            BY <2>2, OneOfEachRole
        <3> QED
            BY <3>1, <1>2
    <2> QED
        BY <2>1, <2>2
<1>4. PICK i \in S : \A j \in S : j <= i
    BY <1>3
<1> QED
    BY <1>2, <1>4, LatestIs

(* What is shown of a role are turns of it, and one is the latest. *)
LEMMA ShownTurns ==
    ASSUME TypeOK, TurnsOK, NEW role
    PROVE  /\ Shown(role) \in SUBSET DOMAIN turns
           /\ \A i \in Shown(role) : turns[i].role = role
           /\ IsFiniteSet(Shown(role)) /\ Cardinality(Shown(role)) \in Nat
           /\ Shown(role) = {} => Latest(Shown(role)) = 0
           /\ Shown(role) # {} => /\ Latest(Shown(role)) \in Shown(role)
                                  /\ \A j \in Shown(role) : j <= Latest(Shown(role))
<1>1. PICK n \in Nat : n = Len(turns) /\ DOMAIN turns = 1..n
    BY DEF TypeOK
<1>2. page.shown \in Nat /\ page.shown <= n
    BY <1>1 DEF TypeOK, PageRecords
<1>3. Shown(role) \in SUBSET DOMAIN turns /\ \A i \in Shown(role) : turns[i].role = role
    BY <1>1, <1>2 DEF Shown
<1>4. IsFiniteSet(DOMAIN turns)
    BY <1>1, FS_Interval
<1>5. IsFiniteSet(Shown(role)) /\ Cardinality(Shown(role)) \in Nat
    BY <1>3, <1>4, FS_Subset, FS_CardinalityType
<1>6. Shown(role) = {} => Latest(Shown(role)) = 0
    BY DEF Latest
<1> QED
    BY <1>3, <1>5, <1>6, LatestOfRole

(* What a snapshot is. *)
LEMMA SnapshotType ==
    ASSUME TypeOK, TurnsOK
    PROVE  /\ submissionSnapshot \in Snapshots
           /\ [submissionSnapshot EXCEPT !.signature = RecoveryTarget] \in Snapshots
<1> DEFINE a == Cardinality(Shown("assistant"))
           u == Cardinality(Shown("user"))
           s == Signature(Latest(Shown("assistant")))
<1>1. a \in Nat /\ u \in Nat
    BY ShownTurns
<1>2. s \in Signatures
    <2>1. CASE Shown("assistant") = {}
        BY <2>1, ShownTurns DEF Signature, Signatures
    <2>2. CASE Shown("assistant") # {}
        <3>1. Latest(Shown("assistant")) \in DOMAIN turns
            BY <2>2, ShownTurns
        <3>2. \A i \in DOMAIN turns : i \in Nat /\ turns[i] \in TurnRecords
            BY DEF TypeOK
        <3>3. \A t \in TurnRecords : t.text \in Nat
            BY DEF TurnRecords
        <3> QED
            BY <3>1, <3>2, <3>3 DEF Signature, Signatures
    <2> QED
        BY <2>1, <2>2
<1>3. page.at \in Places
    BY DEF TypeOK, PageRecords
<1>4. submissionSnapshot = [assistant |-> a, user |-> u, signature |-> s, url |-> page.at]
    BY DEF submissionSnapshot
<1>5. RecoveryTarget \in Signatures
    BY DEF RecoveryTarget, Signatures
<1> HIDE DEF a, u, s
<1> QED
    BY <1>1, <1>2, <1>3, <1>4, <1>5 DEF Snapshots

(* The target of a poll is an assistant turn that is shown. *)
LEMMA TargetType ==
    ASSUME TypeOK, TurnsOK, targetAssistantTurn # 0
    PROVE  /\ targetAssistantTurn \in Shown("assistant")
           /\ targetAssistantTurn \in DOMAIN turns /\ targetAssistantTurn \in Nat
           /\ turns[targetAssistantTurn].role = "assistant"
           /\ turns[targetAssistantTurn].text \in 0..2
<1>1. targetAssistantTurn = Latest(Shown("assistant"))
    BY DEF targetAssistantTurn
<1>2. targetAssistantTurn \in Shown("assistant")
    BY <1>1, ShownTurns
<1>3. targetAssistantTurn \in DOMAIN turns
    BY <1>2, ShownTurns
<1>4. turns[targetAssistantTurn] \in TurnRecords
    BY <1>3 DEF TypeOK
<1> QED
    BY <1>2, <1>3, <1>4, ShownTurns DEF TurnRecords, TypeOK

-----------------------------------------------------------------------------
(* Where an operation is, and what that says. *)

(* How an operation ends, and what a failure does. *)
LEMMA EndType ==
    ASSUME TypeOK, NEW code \in ResultCodes, NEW turn \in Nat, NEW text \in 0..2,
           Done(code, turn, text)
    PROVE  /\ pc' = "done" /\ page' = page
           /\ result' \in ResultRecords /\ result'.code = code
           /\ result'.turn = turn /\ result'.text = text
BY DEF Done, ResultRecords

(* A failure ends the operation, or starts its inspection in a new tab. *)
LEMMA FailType ==
    ASSUME TypeOK, Fails
    PROVE  /\ result' \in ResultRecords /\ page' \in PageRecords /\ page'.shown <= page.shown
           /\ \/ /\ pc' = "done" /\ page' = page /\ inspecting' = inspecting
              \/ /\ pc' = "lease" /\ page' = NewPage /\ inspecting' = TRUE /\ result' = result
                 /\ kind \in {"create", "send"} /\ ~inspecting /\ known
                 /\ \/ confirmed \/ pc = "confirm"
<1>1. PICK code \in Failures : MayFailWith(code) /\ (Ends(code) \/ Inspects(code))
    BY DEF Fails
<1>2. CASE Ends(code)
    <2>1. code \in ResultCodes /\ 0 \in Nat /\ 0 \in 0..2
        BY DEF Failures
    <2>2. /\ pc' = "done" /\ page' = page /\ inspecting' = inspecting
          /\ result' \in ResultRecords
        BY <1>2, <2>1, EndType DEF Ends
    <2> QED
        BY <2>2 DEF TypeOK, PageRecords
<1>3. CASE Inspects(code)
    <2>1. NewPage \in PageRecords /\ NewPage.shown = 0
        BY DEF NewPage, PageRecords, Places
    <2>2. page.shown \in Nat
        BY DEF TypeOK, PageRecords
    <2>3. confirmed \/ pc = "confirm"
        BY <1>1, <1>3 DEF Inspects, MayFailWith
    <2> QED
        BY <1>3, <2>1, <2>2, <2>3 DEF TypeOK, Inspects
<1> QED
    BY <1>1, <1>2, <1>3

(* No step breaks the type of a variable. *)
LEMMA TypeStep ==
    ASSUME Shape, [Next]_vars
    PROVE  TypeOK'
<1> USE DEF remoteVars, operationVars
<1>1. /\ TypeOK /\ TurnsOK
      /\ turns' \in Seq(TurnRecords) /\ Len(turns) <= Len(turns')
      /\ Len(turns) \in Nat /\ Len(turns') \in Nat
    BY TurnsStep DEF Shape, SameTurns, TypeOK
<1>2. /\ page.shown \in Nat /\ page.shown <= Len(turns')
      /\ page \in PageRecords
    BY <1>1 DEF TypeOK, PageRecords
<1>3. \A at \in Places : /\ [page EXCEPT !.at = at] \in PageRecords
                         /\ [page EXCEPT !.at = at].shown = page.shown
    BY <1>2 DEF PageRecords
<1>4. "project" \in Places /\ "conversation" \in Places
    BY DEF Places
<1>5. CASE UNCHANGED vars
    BY <1>1, <1>2, <1>5 DEF vars, TypeOK
<1>6. CASE MessageArrives \/ AnswerGrows \/ DeletionArrives
    BY <1>1, <1>2, <1>6 DEF TypeOK, MessageArrives, AnswerGrows, DeletionArrives
<1>7. CASE UrlChanges
    BY <1>1, <1>2, <1>3, <1>4, <1>7 DEF TypeOK, UrlChanges
<1>8. CASE TurnsAppear
    <2>1. PICK n \in (page.shown + 1)..Len(turns) : page' = [page EXCEPT !.shown = n]
        BY <1>8 DEF TurnsAppear
    <2>2. page' \in PageRecords /\ page'.shown = n /\ n <= Len(turns)
        BY <1>1, <1>2, <2>1 DEF PageRecords
    <2> QED
        BY <1>1, <1>8, <2>2 DEF TypeOK, TurnsAppear
<1>9. CASE TabCloses
    <2>1. page' \in PageRecords /\ page'.shown = page.shown
        BY <1>2, <1>9 DEF TabCloses, PageRecords
    <2> QED
        BY <1>1, <1>2, <1>9, <2>1 DEF TypeOK, TabCloses
<1> DEFINE Points == {"lease", "done"} \cup Deleting \cup Opening \cup Submitting \cup Inspecting
<1> HIDE DEF Points
<1>10. CASE Moves
    <2>1. pc' \in Points
        BY <1>10 DEF Moves, Points, Deleting, Opening, Submitting, Inspecting
    <2> QED
        BY <1>1, <1>2, <1>10, <2>1 DEF TypeOK, Moves, Points
<1>11. CASE Loads
    <2>1. pc' \in Points /\ page' \in PageRecords /\ page'.shown = page.shown
        <3>1. pc' \in Points
            BY <1>11 DEF Loads, Points, Opening, Submitting
        <3>2. PICK at \in Places : page' = [page EXCEPT !.at = at]
            BY <1>4, <1>11 DEF Loads
        <3> QED
            BY <1>3, <3>1, <3>2
    <2> QED
        BY <1>1, <1>2, <1>11, <2>1 DEF TypeOK, Loads, Points
<1>12. CASE Captures
    <2>1. pc' \in Points
        BY <1>12 DEF Captures, Points, Submitting, Inspecting
    <2>2. snapshot' \in Snapshots
        BY <1>1, <1>12, SnapshotType DEF Captures
    <2> QED
        BY <1>1, <1>2, <1>12, <2>1, <2>2 DEF TypeOK, Captures, Points
<1>13. CASE SubmitClick
    BY <1>1, <1>2, <1>13 DEF TypeOK, SubmitClick, Goto, Submitting
<1>14. CASE SubmitThrows
    <2>1. Fail("submission_ambiguous")
        BY <1>14 DEF SubmitThrows
    <2>2. CASE Done("submission_ambiguous", 0, 0) /\ UNCHANGED inspecting
        <3>1. "submission_ambiguous" \in ResultCodes /\ 0 \in Nat /\ 0 \in 0..2
            BY DEF ResultCodes
        <3>2. pc' = "done" /\ page' = page /\ result' \in ResultRecords
            BY <1>1, <2>2, <3>1, EndType
        <3> QED
            BY <1>1, <1>2, <1>14, <2>2, <3>2 DEF TypeOK, SubmitThrows
    <2>3. CASE pc' = "lease" /\ page' = NewPage /\ inspecting' = TRUE /\ UNCHANGED result
        <3>1. NewPage \in PageRecords /\ NewPage.shown = 0
            BY DEF NewPage, PageRecords, Places
        <3>2. page' \in PageRecords /\ page'.shown <= Len(turns')
            BY <1>1, <2>3, <3>1
        <3>3. known' \in BOOLEAN /\ inspecting' \in BOOLEAN /\ message' \in {"unsent", "sent"}
            BY <1>1, <1>14, <2>3 DEF TypeOK, SubmitThrows
        <3> QED
            BY <1>1, <1>14, <2>3, <3>2, <3>3 DEF TypeOK, SubmitThrows
    <2> QED
        BY <2>1, <2>2, <2>3 DEF Fail
<1>15. CASE ConfirmPoll
    <2>1. pc' \in Points /\ known' \in BOOLEAN /\ confirmed' \in BOOLEAN
        <3>1. submissionVisible \in BOOLEAN
            BY DEF submissionVisible
        <3> QED
            BY <1>15, <3>1 DEF ConfirmPoll, Goto, onConversation, Points, Submitting
    <2> QED
        BY <1>1, <1>2, <1>15, <2>1 DEF TypeOK, ConfirmPoll, Goto, Points
<1>16. CASE ReadAnswer
    <2>1. pc' \in Points /\ known' \in BOOLEAN
        BY <1>16 DEF ReadAnswer, Goto, Points, Submitting, onConversation
    <2>2. read' \in Readings
        <3>1. CASE targetAssistantTurn = 0
            BY <1>1, <1>16, <3>1 DEF ReadAnswer, TypeOK
        <3>2. CASE targetAssistantTurn # 0
            <4>1. targetAssistantTurn \in Nat /\ turns[targetAssistantTurn].text \in 0..2
                BY <1>1, <3>2, TargetType
            <4>2. read' = [turn   |-> targetAssistantTurn,
                           text   |-> turns[targetAssistantTurn].text,
                           stable |-> <<targetAssistantTurn, turns[targetAssistantTurn].text>>
                                         = <<read.turn, read.text>>]
                BY <1>16, <3>2 DEF ReadAnswer
            <4> QED
                BY <4>1, <4>2 DEF Readings
        <3> QED
            BY <3>1, <3>2
    <2> QED
        BY <1>1, <1>2, <1>16, <2>1, <2>2 DEF TypeOK, ReadAnswer, Goto, Points
<1>17. CASE Answered
    <2>1. read.turn \in Nat /\ read.text \in 0..2
        BY <1>1 DEF TypeOK, Readings
    <2>2. copiedText \in 0..2
        <3>1. copyVisible => turns[read.turn].text = 2
            BY DEF copyVisible
        <3> QED
            BY <2>1, <3>1 DEF copiedText
    <2>3. pc' = "done" /\ page' = page /\ result' \in ResultRecords
        <3>1. "answered" \in ResultCodes
            BY DEF ResultCodes
        <3> QED
            BY <1>1, <1>17, <2>1, <2>2, <3>1, EndType DEF Answered
    <2> QED
        BY <1>1, <1>2, <1>17, <2>3 DEF TypeOK, Answered
<1>18. CASE FoundAbsent
    <2>1. pc' = "done" /\ page' = page /\ result' \in ResultRecords
        <3>1. "already_absent" \in ResultCodes /\ "deleted" \in ResultCodes /\ 0 \in Nat /\ 0 \in 0..2
            BY DEF ResultCodes
        <3> QED
            BY <1>1, <1>18, <3>1, EndType DEF FoundAbsent
    <2> QED
        BY <1>1, <1>2, <1>18, <2>1 DEF TypeOK, FoundAbsent
<1>19. CASE ConfirmDeletion
    BY <1>1, <1>2, <1>19 DEF TypeOK, ConfirmDeletion, Goto, Deleting
<1>20. CASE Fails
    <2>1. /\ result' \in ResultRecords /\ page' \in PageRecords /\ page'.shown <= Len(turns')
          /\ pc' \in {"lease", "done"} /\ inspecting' \in BOOLEAN
        <3>1. page'.shown <= page.shown /\ page' \in PageRecords
            BY <1>1, <1>20, FailType
        <3>2. page'.shown <= Len(turns')
            BY <1>1, <1>2, <3>1 DEF PageRecords
        <3> QED
            BY <1>1, <1>20, <3>2, FailType DEF TypeOK
    <2> QED
        BY <1>1, <1>20, <2>1 DEF TypeOK, Fails
<1> QED
    BY <1>5, <1>6, <1>7, <1>8, <1>9, <1>10, <1>11, <1>12, <1>13, <1>14, <1>15, <1>16, <1>17,
       <1>18, <1>19, <1>20, StepKinds DEF Next, Environment


(* Every step leads to a point at which what is said of it holds. *)
LEMMA PointStep ==
    ASSUME Shape, [Next]_vars
    PROVE  Control' /\ Gone' /\ Place'
<1>1. /\ kind \in Kinds /\ page \in PageRecords
      /\ known \in BOOLEAN /\ confirmed \in BOOLEAN /\ inspecting \in BOOLEAN
      /\ gone \in {"no", "sent", "yes"} /\ message \in {"unsent", "sent", "posted"}
      /\ Control /\ Gone /\ Place
    BY DEF Shape, TypeOK
<1> USE DEF Deleting, Opening, Submitting, Inspecting
<1>2. CASE UNCHANGED vars
    <2>1. Control'
        BY <1>1, <1>2 DEF Control, Kinds, PageRecords, vars, remoteVars, operationVars
    <2>2. Gone'
        BY <1>1, <1>2 DEF Gone, Control, Kinds, vars, remoteVars, operationVars
    <2>3. Place'
        BY <1>1, <1>2 DEF Place, Control, Kinds, PageRecords, vars, remoteVars, operationVars
    <2> QED
        BY <2>1, <2>2, <2>3
<1>3. CASE MessageArrives
    <2>1. Control'
        BY <1>1, <1>3 DEF Control, Kinds, PageRecords, MessageArrives, operationVars
    <2>2. Gone'
        BY <1>1, <1>3 DEF Gone, Control, Kinds, MessageArrives, operationVars
    <2>3. Place'
        BY <1>1, <1>3 DEF Place, Control, Kinds, PageRecords, MessageArrives, operationVars
    <2> QED
        BY <2>1, <2>2, <2>3
<1>4. CASE AnswerGrows
    <2>1. Control'
        BY <1>1, <1>4 DEF Control, Kinds, PageRecords, AnswerGrows, operationVars
    <2>2. Gone'
        BY <1>1, <1>4 DEF Gone, Control, Kinds, AnswerGrows, operationVars
    <2>3. Place'
        BY <1>1, <1>4 DEF Place, Control, Kinds, PageRecords, AnswerGrows, operationVars
    <2> QED
        BY <2>1, <2>2, <2>3
<1>5. CASE DeletionArrives
    <2>1. Control'
        BY <1>1, <1>5 DEF Control, Kinds, PageRecords, DeletionArrives, operationVars
    <2>2. Gone'
        BY <1>1, <1>5 DEF Gone, Control, Kinds, DeletionArrives, operationVars
    <2>3. Place'
        BY <1>1, <1>5 DEF Place, Control, Kinds, PageRecords, DeletionArrives, operationVars
    <2> QED
        BY <2>1, <2>2, <2>3
<1>6. CASE UrlChanges
    <2>1. Control'
        BY <1>1, <1>6 DEF Control, Kinds, PageRecords, UrlChanges, remoteVars, operationVars
    <2>2. Gone'
        BY <1>1, <1>6 DEF Gone, Control, Kinds, UrlChanges, remoteVars, operationVars
    <2>3. Place'
        BY <1>1, <1>6
           DEF Place, Control, Kinds, PageRecords, UrlChanges, remoteVars, operationVars
    <2> QED
        BY <2>1, <2>2, <2>3
<1>7. CASE TurnsAppear \/ TabCloses
    <2>1. Control'
        BY <1>1, <1>7
           DEF Control, Kinds, PageRecords, TurnsAppear, TabCloses, remoteVars,
               operationVars
    <2>2. Gone'
        BY <1>1, <1>7
           DEF Gone, Control, Kinds, TurnsAppear, TabCloses, remoteVars, operationVars
    <2>3. Place'
        BY <1>1, <1>7
           DEF Place, Control, Kinds, PageRecords, TurnsAppear, TabCloses, remoteVars,
               operationVars
    <2> QED
        BY <2>1, <2>2, <2>3
<1>8. CASE Moves
    <2>1. Control'
        BY <1>1, <1>8 DEF Control, Kinds, PageRecords, Moves, remoteVars, operationVars
    <2>2. Gone'
        BY <1>1, <1>8 DEF Gone, Control, Kinds, Moves, remoteVars, operationVars
    <2>3. Place'
        BY <1>1, <1>8 DEF Place, Control, Kinds, PageRecords, Moves, remoteVars, operationVars
    <2> QED
        BY <2>1, <2>2, <2>3
<1>9. CASE Loads
    <2>1. Control'
        BY <1>1, <1>9 DEF Control, Kinds, PageRecords, Loads, remoteVars, operationVars
    <2>2. Gone'
        BY <1>1, <1>9 DEF Gone, Control, Kinds, Loads, remoteVars, operationVars
    <2>3. Place'
        BY <1>1, <1>9 DEF Place, Control, Kinds, PageRecords, Loads, remoteVars, operationVars
    <2> QED
        BY <2>1, <2>2, <2>3
<1>10. CASE Captures
    <2>1. Control'
        BY <1>1, <1>10 DEF Control, Kinds, PageRecords, Captures, remoteVars
    <2>2. Gone'
        BY <1>1, <1>10 DEF Gone, Control, Kinds, Captures, remoteVars
    <2>3. Place'
        BY <1>1, <1>10 DEF Place, Control, Kinds, PageRecords, Captures, remoteVars
    <2> QED
        BY <2>1, <2>2, <2>3
<1>11. CASE SubmitClick
    <2>1. Control'
        BY <1>1, <1>11 DEF Control, Kinds, PageRecords, SubmitClick, Goto, operationVars
    <2>2. Gone'
        BY <1>1, <1>11 DEF Gone, Control, Kinds, SubmitClick, Goto, operationVars
    <2>3. Place'
        BY <1>1, <1>11 DEF Place, Control, Kinds, PageRecords, SubmitClick, Goto, operationVars
    <2> QED
        BY <2>1, <2>2, <2>3
<1>12. CASE SubmitThrows
    <2>1. Control'
        <3>1. /\ pc = "click" /\ message = "unsent" /\ ~confirmed /\ ~inspecting /\ ~confirmed'
              /\ kind \in {"create", "send"} /\ kind' = kind /\ known' \in BOOLEAN
              /\ kind = "create" => ~known /\ page.at # "conversation"
              /\ kind # "create" => known
            BY <1>1, <1>12 DEF Control, Kinds, SubmitThrows
        <3>2. /\ kind # "create" => known'
              /\ kind = "create" /\ known' => message' # "unsent"
            BY <1>12, <3>1 DEF SubmitThrows
        <3>3. Fail("submission_ambiguous")
            BY <1>12 DEF SubmitThrows
        <3>4. CASE pc' = "done" /\ page' = page /\ inspecting' = inspecting
            BY <3>1, <3>2, <3>4 DEF Control
        <3>5. CASE pc' = "lease" /\ page' = NewPage /\ inspecting' = TRUE /\ known' /\ result' = result
            <4>1. result'.code = "none"
                BY <1>1, <3>1, <3>5 DEF Control
            <4>2. page'.at = "blank"
                BY <3>5 DEF NewPage
            <4> QED
                BY <3>1, <3>2, <3>5, <4>1, <4>2 DEF Control
        <3> QED
            BY <3>3, <3>4, <3>5 DEF Fail, recovers, Done
    <2>2. Gone'
        BY <1>1, <1>12 DEF Gone, Control, Kinds, Fail, recovers, Done, NewPage, SubmitThrows
    <2>3. Place'
        BY <1>1, <1>12
           DEF Place, Control, Kinds, PageRecords, Fail, recovers, Done, NewPage,
               SubmitThrows
    <2> QED
        BY <2>1, <2>2, <2>3
<1>13. CASE ConfirmPoll
    <2>1. Control'
        BY <1>1, <1>13
           DEF Control, Kinds, PageRecords, ConfirmPoll, Goto, remoteVars, onConversation
    <2>2. Gone'
        BY <1>1, <1>13 DEF Gone, Control, Kinds, ConfirmPoll, Goto, remoteVars, onConversation
    <2>3. Place'
        BY <1>1, <1>13
           DEF Place, Control, Kinds, PageRecords, ConfirmPoll, Goto, remoteVars,
               onConversation
    <2> QED
        BY <2>1, <2>2, <2>3
<1>14. CASE ReadAnswer
    <2>1. Control'
        BY <1>1, <1>14
           DEF Control, Kinds, PageRecords, ReadAnswer, Goto, remoteVars, onConversation
    <2>2. Gone'
        BY <1>1, <1>14 DEF Gone, Control, Kinds, ReadAnswer, Goto, remoteVars, onConversation
    <2>3. Place'
        BY <1>1, <1>14
           DEF Place, Control, Kinds, PageRecords, ReadAnswer, Goto, remoteVars,
               onConversation
    <2> QED
        BY <2>1, <2>2, <2>3
<1>15. CASE Answered
    <2>1. Control'
        BY <1>1, <1>15
           DEF Control, Kinds, PageRecords, Answered, Done, remoteVars, operationVars
    <2>2. Gone'
        BY <1>1, <1>15 DEF Gone, Control, Kinds, Answered, Done, remoteVars, operationVars
    <2>3. Place'
        BY <1>1, <1>15
           DEF Place, Control, Kinds, PageRecords, Answered, Done, remoteVars, operationVars
    <2> QED
        BY <2>1, <2>2, <2>3
<1>16. CASE FoundAbsent
    <2>1. Control'
        BY <1>1, <1>16
           DEF Control, Kinds, PageRecords, FoundAbsent, Done, remoteVars, operationVars
    <2>2. Gone'
        BY <1>1, <1>16 DEF Gone, Control, Kinds, FoundAbsent, Done, remoteVars, operationVars
    <2>3. Place'
        BY <1>1, <1>16
           DEF Place, Control, Kinds, PageRecords, FoundAbsent, Done, remoteVars,
               operationVars
    <2> QED
        BY <2>1, <2>2, <2>3
<1>17. CASE ConfirmDeletion
    <2>1. Control'
        BY <1>1, <1>17 DEF Control, Kinds, PageRecords, ConfirmDeletion, Goto, operationVars
    <2>2. Gone'
        BY <1>1, <1>17 DEF Gone, Control, Kinds, ConfirmDeletion, Goto, operationVars
    <2>3. Place'
        BY <1>1, <1>17
           DEF Place, Control, Kinds, PageRecords, ConfirmDeletion, Goto, operationVars
    <2> QED
        BY <2>1, <2>2, <2>3
<1>18. CASE Fails
    <2>1. Control'
        BY <1>1, <1>18
           DEF Control, Kinds, PageRecords, Fails, Failures, Ends, Inspects, Done, NewPage,
               remoteVars
    <2>2. Gone'
        BY <1>1, <1>18
           DEF Gone, Control, Kinds, Fails, Failures, Ends, Inspects, Done, NewPage,
               remoteVars
    <2>3. Place'
        BY <1>1, <1>18
           DEF Place, Control, Kinds, PageRecords, Fails, Failures, Ends, Inspects, Done,
               NewPage, remoteVars
    <2> QED
        BY <2>1, <2>2, <2>3
<1> QED
    BY <1>2, <1>3, <1>4, <1>5, <1>6, <1>7, <1>8, <1>9, <1>10, <1>11, <1>12, <1>13, <1>14,
       <1>15, <1>16, <1>17, <1>18, StepKinds
       DEF Next, Environment

(* The histories an operation may find. *)
LEMMA HistoryTurns ==
    ASSUME NEW h \in Histories
    PROVE  /\ h \in Seq(TurnRecords) /\ Len(h) \in {1, 2} /\ DOMAIN h = 1..Len(h)
           /\ h[1] = User(FALSE)
           /\ Len(h) = 2 => \E t \in {1, 2} : h[2] = Assistant(FALSE, t)
           /\ Len(h) = 2 /\ ~OldAnswerMayGrow => h[2] = Assistant(FALSE, 2)
<1>1. PICK u \in TurnRecords : u = User(FALSE)
    BY NewTurns
<1>2. PICK partial \in TurnRecords : partial = Assistant(FALSE, 1)
    BY NewTurns
<1>3. PICK final \in TurnRecords : final = Assistant(FALSE, 2)
    BY NewTurns
<1>4. h \in {<<u>>, <<u, final>>} \/ (OldAnswerMayGrow /\ h = <<u, partial>>)
    BY <1>1, <1>2, <1>3 DEF Histories
<1>5. CASE h = <<u>>
    <2>1. h \in Seq(TurnRecords) /\ Len(h) = 1 /\ DOMAIN h = 1..1 /\ h[1] = u
        BY <1>5
    <2> QED
        BY <1>1, <2>1
<1>6. CASE h = <<u, final>>
    <2>1. h \in Seq(TurnRecords) /\ Len(h) = 2 /\ DOMAIN h = 1..2 /\ h[1] = u /\ h[2] = final
        BY <1>6
    <2> QED
        BY <1>1, <1>3, <2>1
<1>7. CASE OldAnswerMayGrow /\ h = <<u, partial>>
    <2>1. h \in Seq(TurnRecords) /\ Len(h) = 2 /\ DOMAIN h = 1..2 /\ h[1] = u /\ h[2] = partial
        BY <1>7
    <2> QED
        BY <1>1, <1>2, <1>7, <2>1
<1> QED
    BY <1>4, <1>5, <1>6, <1>7

(* An operation begins in shape ... *)
LEMMA InitShape == Init => Shape
<1> SUFFICES ASSUME Init PROVE Shape
    OBVIOUS
<1>1. turns = <<>> \/ turns \in Histories
    BY DEF Init
<1>2. kind = "create" => turns = <<>>
    BY DEF Init
<1>3. turns \in Seq(TurnRecords) /\ Len(turns) \in Nat
    <2>1. <<>> \in Seq(TurnRecords)
        OBVIOUS
    <2>2. turns \in Seq(TurnRecords)
        BY <1>1, <2>1, HistoryTurns
    <2> QED
        BY <2>2
<1>4. TypeOK
    <2>1. page \in PageRecords /\ page.shown = 0
        BY DEF Init, NewPage, PageRecords, Places
    <2>2. snapshot \in Snapshots
        BY DEF Init, Snapshots, Signatures, NoSignature, Places
    <2>3. read \in Readings
        BY DEF Init, Readings
    <2>4. result \in ResultRecords
        BY DEF Init, ResultRecords, ResultCodes
    <2>5. kind \in Kinds /\ known \in BOOLEAN /\ inspecting \in BOOLEAN
        BY DEF Init, Kinds
    <2>6. /\ message \in {"unsent", "sent", "posted"} /\ gone \in {"no", "sent", "yes"}
          /\ pc = "lease" /\ confirmed \in BOOLEAN
        BY DEF Init
    <2> QED
        BY <1>3, <2>1, <2>2, <2>3, <2>4, <2>5, <2>6 DEF TypeOK
<1>5. TurnsOK
    <2>1. message # "posted"
        BY DEF Init
    <2>2. CASE turns = <<>>
        <3>1. DOMAIN turns = {}
            BY <2>2
        <3> QED
            BY <2>1, <3>1 DEF TurnsOK, Old
    <2>3. CASE turns \in Histories
        <3>1. /\ DOMAIN turns = 1..Len(turns) /\ Len(turns) \in {1, 2}
              /\ turns[1].role = "user" /\ ~turns[1].own /\ turns[1].text = 2
              /\ Len(turns) = 2 => turns[2].role = "assistant" /\ ~turns[2].own
              /\ Len(turns) = 2 /\ ~OldAnswerMayGrow => turns[2].text = 2
            BY <2>3, HistoryTurns DEF User, Assistant
        <3>2. kind # "create"
            BY <1>2, <3>1
        <3>3. \A i \in DOMAIN turns : i = 1 \/ (i = 2 /\ Len(turns) = 2)
            BY <3>1
        <3>4. Old = DOMAIN turns
            BY <3>1, <3>3 DEF Old
        <3> QED
            BY <2>1, <3>1, <3>2, <3>3, <3>4 DEF TurnsOK
    <2> QED
        BY <1>1, <2>2, <2>3
<1>6. Control /\ Gone /\ Place
    BY DEF Init, Control, Gone, Place, NewPage, Deleting, Opening, Submitting, Inspecting
<1> QED
    BY <1>4, <1>5, <1>6 DEF Shape

(* ... and every step keeps it. *)
LEMMA ShapeStep ==
    ASSUME Shape, [Next]_vars
    PROVE  Shape'
BY TypeStep, PointStep, TurnsStep DEF Shape

(* So the shape is an invariant, for all values of the constants. *)
THEOREM PageShape == Spec => []Shape
<1>1. Init => Shape
    BY InitShape
<1>2. Shape /\ [Next]_vars => Shape'
    BY ShapeStep
<1> QED
    BY <1>1, <1>2, PTL DEF Spec

(* Each variable keeps to its values, whatever the page does. *)
THEOREM PageTypeOK == Spec => []TypeOK
<1>1. Shape => TypeOK
    BY DEF Shape
<1> QED
    BY <1>1, PageShape, PTL

-----------------------------------------------------------------------------
(* The deletion of a conversation.                                         *)

(* What is told of a deletion, where the code of it is not put off.        *)
LEMMA DeletionStep ==
    ASSUME ~LoginRedirects, Shape, DeletionTold, [Next]_vars
    PROVE  DeletionTold'
<1> USE DEF remoteVars, operationVars
<1>1. TypeOK /\ Control /\ Gone
    BY DEF Shape
<1>2. CASE UNCHANGED <<kind, pc, result>> /\ (gone' = gone \/ gone' = "yes")
    BY <1>2 DEF DeletionTold
<1>3. CASE MessageArrives \/ AnswerGrows \/ DeletionArrives \/ UrlChanges \/ TurnsAppear
           \/ TabCloses \/ UNCHANGED vars
    BY <1>2, <1>3 DEF MessageArrives, AnswerGrows, DeletionArrives, UrlChanges, TurnsAppear,
       TabCloses, vars
<1>4. CASE Moves \/ Loads \/ Captures \/ SubmitClick \/ ConfirmPoll \/ ReadAnswer \/ ConfirmDeletion
    <2>1. pc' # "done"
        BY <1>4
           DEF Moves, Loads, Captures, SubmitClick, ConfirmPoll, ReadAnswer,
               ConfirmDeletion,
           Goto
    <2> QED
        BY <2>1 DEF DeletionTold
<1>5. CASE SubmitThrows \/ Answered
    <2>1. kind' # "delete"
        BY <1>1, <1>5 DEF SubmitThrows, Answered, Control, Deleting
    <2> QED
        BY <2>1 DEF DeletionTold
<1>6. CASE FoundAbsent
    <2>1. gone' = "yes" /\ result'.code \in {"already_absent", "deleted"}
        BY <1>6 DEF FoundAbsent, absent, Done
    <2> QED
        BY <2>1 DEF DeletionTold
<1>7. CASE Fails
    <2>1. PICK code \in Failures : MayFailWith(code) /\ (Ends(code) \/ Inspects(code))
        BY <1>7 DEF Fails
    <2>2. CASE Inspects(code)
        BY <2>2 DEF Inspects, DeletionTold
    <2>3. CASE Ends(code)
        <3>1. result'.code = code /\ gone' = gone
            BY <1>7, <2>3 DEF Ends, Done, Fails
        <3>2. gone = "sent" => code \in {"ambiguous", "browser_closed"}
            BY <1>1, <1>7, <2>1 DEF Fails, Gone, MayFailWith
        <3>3. code \notin {"already_absent", "deleted"}
            BY <2>1 DEF Failures
        <3> QED
            BY <3>1, <3>2, <3>3 DEF DeletionTold
    <2> QED
        BY <2>1, <2>2, <2>3
<1> QED
    BY <1>3, <1>4, <1>5, <1>6, <1>7, StepKinds DEF Next, Environment

(* What is reported as deleted is gone, and after a failure that may be    *)
(* answered with another attempt nothing was clicked; all of the page that *)
(* this takes is that an expired login does not look like an absent        *)
(* conversation.                                                           *)
THEOREM PageDeletionTold ==
    ASSUME ~LoginRedirects
    PROVE  Spec => []DeletionTold
<1>1. Init => Shape /\ DeletionTold
    BY InitShape DEF Init, DeletionTold
<1>2. Shape /\ DeletionTold /\ [Next]_vars => (Shape /\ DeletionTold)'
    BY ShapeStep, DeletionStep
<1> QED
    BY <1>1, <1>2, PTL DEF Spec

-----------------------------------------------------------------------------
(* What a snapshot is worth where history loads at once and earlier        *)
(* answers are finished.                                                   *)

(* What the environment leaves alone. *)
LEMMA EnvironmentKeeps ==
    ASSUME Environment \/ UNCHANGED vars
    PROVE  UNCHANGED <<kind, pc, snapshot, read, known, confirmed, inspecting, result>>
BY DEF Environment, MessageArrives, AnswerGrows, DeletionArrives, UrlChanges, TurnsAppear,
   TabCloses, vars, remoteVars, operationVars

(* An operation remains what it is. *)
LEMMA KindStep ==
    ASSUME [Next]_vars
    PROVE  kind' = kind
BY StepKinds, EnvironmentKeeps
   DEF Next, Moves, Loads, Captures, SubmitClick, SubmitThrows, ConfirmPoll, ReadAnswer, Answered,
       FoundAbsent, ConfirmDeletion, Fails, Goto

(* A submission begins on a new project page or where turns are shown. *)
LEMMA SubmissionBegins ==
    ASSUME Shape, [Next]_vars, ~inspecting', pc' \in Submitting
    PROVE  /\ ~inspecting
           /\ \/ pc \in Submitting /\ (pc = "snapshot" => pc' = "snapshot" \/ Captures)
              \/ /\ pc' = "snapshot"
                 /\ kind = "create" \/ (pc = "evidence" /\ page.shown > 0 /\ Moves)
<1>1. Control
    BY DEF Shape
<1> USE DEF remoteVars, operationVars, Submitting, Opening, Inspecting, Deleting
<1>2. CASE Environment \/ UNCHANGED vars
    BY <1>2, EnvironmentKeeps
<1>3. CASE Moves
    BY <1>1, <1>3 DEF Control, Moves
<1>4. CASE Loads
    BY <1>1, <1>4 DEF Control, Loads
<1>5. CASE Captures
    BY <1>1, <1>5 DEF Control, Captures
<1>6. CASE SubmitClick \/ SubmitThrows
    BY <1>1, <1>6 DEF Control, SubmitClick, SubmitThrows, Fail, Done, Goto
<1>7. CASE ConfirmPoll \/ ReadAnswer
    BY <1>1, <1>7 DEF Control, ConfirmPoll, ReadAnswer, Goto
<1>8. CASE Answered \/ FoundAbsent \/ ConfirmDeletion \/ Fails
    BY <1>1, <1>8
       DEF Control, Answered, FoundAbsent, ConfirmDeletion, Fails, Ends, Inspects, Done,
       Goto
<1> QED
    BY <1>2, <1>3, <1>4, <1>5, <1>6, <1>7, <1>8, StepKinds DEF Next

(* How much a page shows changes as turns appear, and with the page. *)
LEMMA ShownSteps ==
    ASSUME Shape, [Next]_vars
    PROVE  \/ page'.shown = page.shown
           \/ TurnsAppear
           \/ page' = NewPage /\ inspecting'
<1>1. page \in PageRecords
    BY DEF Shape, TypeOK
<1> USE DEF remoteVars, operationVars
<1>2. CASE MessageArrives \/ AnswerGrows \/ DeletionArrives \/ UNCHANGED vars
    BY <1>2 DEF MessageArrives, AnswerGrows, DeletionArrives, vars
<1>3. CASE UrlChanges
    BY <1>1, <1>3 DEF UrlChanges, PageRecords
<1>4. CASE TabCloses
    BY <1>1, <1>4 DEF TabCloses, PageRecords
<1>5. CASE Loads
    BY <1>1, <1>5 DEF Loads, PageRecords
<1>6. CASE Moves \/ Captures \/ SubmitClick \/ ConfirmPoll \/ ReadAnswer \/ Answered \/ FoundAbsent
           \/ ConfirmDeletion
    BY <1>6
       DEF Moves, Captures, SubmitClick, ConfirmPoll, ReadAnswer, Answered, FoundAbsent,
           Done,
       ConfirmDeletion
<1>7. CASE SubmitThrows \/ Fails
    BY <1>7 DEF SubmitThrows, Fail, Fails, Ends, Inspects, Done
<1> QED
    BY <1>2, <1>3, <1>4, <1>5, <1>6, <1>7, StepKinds DEF Next, Environment

(* A page that shows turns shows all the old ones, after every step. *)
LEMMA ViewStep ==
    ASSUME ~HistoryMayLag, Shape, View, [Next]_vars
    PROVE  View'
<1>1. /\ Old' = Old
      /\ \A i \in Old : i \in 1..Len(turns)
      /\ Len(turns) \in Nat /\ page.shown \in Nat
      /\ kind = "create" => Old = {}
    <2>1. TypeOK /\ TurnsOK /\ SameTurns
        BY TurnsStep DEF Shape
    <2> QED
        BY <2>1 DEF SameTurns, Old, TypeOK, TurnsOK, PageRecords
<1>2. CASE page'.shown = page.shown
    <2>1. Loaded' <=> Loaded
        BY <1>1, <1>2 DEF Loaded
    <2>2. ~inspecting' /\ pc' \in Submitting => Loaded
        BY <1>1, SubmissionBegins DEF View, Loaded
    <2> QED
        BY <1>2, <2>1, <2>2 DEF View
<1>3. CASE TurnsAppear
    <2>1. page' = [page EXCEPT !.shown = Len(turns)]
        BY <1>3 DEF TurnsAppear
    <2>2. page'.shown = Len(turns)
        BY <2>1 DEF Shape, TypeOK, PageRecords
    <2>3. Loaded'
        BY <1>1, <2>2 DEF Loaded
    <2> QED
        BY <2>3 DEF View
<1>4. CASE page' = NewPage /\ inspecting'
    <2>1. page'.shown = 0
        BY <1>4 DEF NewPage
    <2> QED
        BY <1>4, <2>1 DEF View
<1> QED
    BY <1>2, <1>3, <1>4, ShownSteps

(* The old turns look the same as long as answers do not grow. *)
LEMMA OldStep ==
    ASSUME ~OldAnswerMayGrow, Shape, [Next]_vars
    PROVE  /\ \A role : OldOf(role)' = OldOf(role)
           /\ Signature(Latest(OldOf("assistant")))' = Signature(Latest(OldOf("assistant")))
<1>1. TypeOK /\ TurnsOK /\ SameTurns
    BY TurnsStep DEF Shape
<1>2. Old' = Old /\ \A i \in Old : turns'[i] = turns[i] /\ i \in DOMAIN turns /\ i # 0
    BY <1>1 DEF SameTurns, Old, TypeOK
<1>3. \A role : OldOf(role)' = OldOf(role)
    BY <1>2 DEF OldOf
<1>4. Latest(OldOf("assistant"))' = Latest(OldOf("assistant"))
    BY <1>3
<1>5. Latest(OldOf("assistant")) = 0 \/ Latest(OldOf("assistant")) \in Old
    <2>1. CASE OldOf("assistant") = {}
        BY <2>1 DEF Latest
    <2>2. CASE OldOf("assistant") # {}
        <3>1. /\ OldOf("assistant") \in SUBSET DOMAIN turns
              /\ \A i, j \in OldOf("assistant") : turns[i].role = turns[j].role
            BY DEF OldOf, Old
        <3>2. Latest(OldOf("assistant")) \in OldOf("assistant")
            BY <1>1, <2>2, <3>1, LatestOfRole
        <3> QED
            BY <3>2 DEF OldOf
    <2> QED
        BY <2>1, <2>2
<1>6. Signature(Latest(OldOf("assistant")))' = Signature(Latest(OldOf("assistant")))
    BY <1>2, <1>4, <1>5 DEF Signature
<1> QED
    BY <1>3, <1>6

(* All that a loaded page shows before the message is posted is old. *)
LEMMA ShownIsOld ==
    ASSUME Shape, Loaded, message # "posted", NEW role
    PROVE  Shown(role) = OldOf(role)
<1>1. PICK n \in Nat : n = Len(turns) /\ DOMAIN turns = 1..n /\ Old = DOMAIN turns
    BY DEF Shape, TypeOK, TurnsOK
<1>2. page.shown \in Nat /\ page.shown <= n
    BY <1>1 DEF Shape, TypeOK, PageRecords
<1>3. \A i : i \in 1..page.shown <=> i \in Old
    BY <1>1, <1>2 DEF Loaded
<1> QED
    BY <1>3 DEF Shown, OldOf

(* A snapshot is taken of the old turns, and they stay what it saw. *)
LEMMA SnappedStep ==
    ASSUME HistoryLoads, Shape, View, Snapped, [Next]_vars
    PROVE  Snapped'
<1> SUFFICES ASSUME ~inspecting', pc' \in Submitting, pc' # "snapshot"
             PROVE  /\ snapshot'.assistant = Cardinality(OldOf("assistant"))'
                    /\ snapshot'.user = Cardinality(OldOf("user"))'
                    /\ snapshot'.signature = Signature(Latest(OldOf("assistant")))'
                    /\ snapshot'.url = IF kind' = "create" THEN "project" ELSE "conversation"
    BY DEF Snapped
<1>1. ~inspecting /\ pc \in Submitting /\ (pc = "snapshot" => Captures)
    BY SubmissionBegins
<1>2. /\ Cardinality(OldOf("assistant"))' = Cardinality(OldOf("assistant"))
      /\ Cardinality(OldOf("user"))' = Cardinality(OldOf("user"))
      /\ Signature(Latest(OldOf("assistant")))' = Signature(Latest(OldOf("assistant")))
      /\ kind' = kind
    BY OldStep, KindStep DEF HistoryLoads
<1>3. CASE pc = "snapshot"
    <2>1. /\ Loaded /\ message # "posted"
          /\ page.at = IF kind = "create" THEN "project" ELSE "conversation"
        BY <1>1, <1>3 DEF Shape, View, Control, Place, Submitting, Opening
    <2>2. Shown("assistant") = OldOf("assistant") /\ Shown("user") = OldOf("user")
        BY <2>1, ShownIsOld
    <2>3. snapshot' = submissionSnapshot
        BY <1>1, <1>3 DEF Captures
    <2> QED
        BY <1>2, <2>1, <2>2, <2>3 DEF submissionSnapshot
<1>4. CASE pc # "snapshot"
    <2>1. snapshot' = snapshot
        <3>1. CASE Environment \/ UNCHANGED vars
            BY <3>1, EnvironmentKeeps
        <3>2. ~Captures
            BY <1>1, <1>4 DEF Captures, Submitting
        <3>3. CASE Adapter
            BY <3>2, <3>3, StepKinds DEF Moves, Loads, SubmitClick, SubmitThrows, ConfirmPoll,
               ReadAnswer, Answered, FoundAbsent, ConfirmDeletion, Fails, operationVars
        <3> QED
            BY <3>1, <3>3 DEF Next
    <2> QED
        BY <1>1, <1>2, <1>4, <2>1 DEF Snapped
<1> QED
    BY <1>3, <1>4

-----------------------------------------------------------------------------
(* The answer that is returned. *)

(* A turn that an answer may be taken from stays one. *)
LEMMA RightStep ==
    ASSUME Shape, [Next]_vars, inspecting => inspecting', NEW t, Right(t)
    PROVE  Right(t)'
<1>1. TurnsOK' /\ SameTurns
    BY TurnsStep DEF Shape
<1>2. /\ t \in DOMAIN turns' /\ turns'[t].role = "assistant"
      /\ ~inspecting' => turns'[t].own
    BY <1>1 DEF Right, SameTurns
<1>3. ASSUME NEW i \in DOMAIN turns', i > t
      PROVE  turns'[i].own
    <2>1. CASE i \in DOMAIN turns
        BY <1>1, <1>3, <2>1 DEF Right, SameTurns
    <2>2. CASE i \notin DOMAIN turns
        <3>1. i \notin Old'
            BY <1>1, <2>2 DEF SameTurns, Old
        <3> QED
            BY <3>1 DEF Old
    <2> QED
        BY <2>1, <2>2
<1> QED
    BY <1>2, <1>3 DEF Right

(* An assistant turn that differs from the snapshot is the answer; and the *)
(* one found without a snapshot is the last answer of what was there.      *)
LEMMA TargetIsRight ==
    ASSUME HistoryLoads, Shape, View, Snapped, pc = "await", targetAssistantTurn # 0
    PROVE  Right(targetAssistantTurn)
<1> DEFINE t == targetAssistantTurn
<1>1. /\ TypeOK /\ TurnsOK
      /\ t = Latest(Shown("assistant"))
      /\ t \in Shown("assistant") /\ t \in DOMAIN turns /\ t \in Nat
      /\ turns[t].role = "assistant"
      /\ \A j \in Shown("assistant") : j <= t
      /\ Shown("assistant") \in SUBSET DOMAIN turns
      /\ page.shown \in Nat
    <2>1. TypeOK /\ TurnsOK
        BY DEF Shape
    <2>2. t = Latest(Shown("assistant"))
        BY DEF targetAssistantTurn
    <2>3. t \in Shown("assistant") /\ t \in DOMAIN turns /\ t \in Nat /\ turns[t].role = "assistant"
        BY <2>1, TargetType
    <2>4. /\ \A j \in Shown("assistant") : j <= t
          /\ Shown("assistant") \in SUBSET DOMAIN turns
        BY <2>1, <2>2, <2>3, ShownTurns
    <2> QED
        BY <2>1, <2>2, <2>3, <2>4 DEF TypeOK, PageRecords
<1>2. Loaded
    <2>1. t \in 1..page.shown
        BY <1>1 DEF Shown
    <2> QED
        BY <1>1, <2>1 DEF View
<1>3. PICK n \in Nat : n = Len(turns) /\ DOMAIN turns = 1..n
    BY <1>1 DEF TypeOK
<1>4. \A i \in Old : i \in 1..page.shown /\ i \in DOMAIN turns /\ turns[i].role \in {"user", "assistant"}
    <2> SUFFICES ASSUME NEW i \in Old
                 PROVE  /\ i \in 1..page.shown /\ i \in DOMAIN turns
                        /\ turns[i].role \in {"user", "assistant"}
        OBVIOUS
    <2>1. i \in DOMAIN turns /\ i <= page.shown
        BY <1>2 DEF Old, Loaded
    <2>2. turns[i] \in TurnRecords
        BY <1>1, <2>1 DEF TypeOK
    <2>3. turns[i].role \in {"user", "assistant"}
        BY <2>2 DEF TurnRecords
    <2> QED
        BY <1>1, <1>3, <2>1, <2>3
<1> HIDE DEF t
<1>5. ASSUME NEW i \in DOMAIN turns, i > t, ~turns[i].own
      PROVE  FALSE
    <2>1. i \in Old
        BY <1>5 DEF Old
    <2>2. turns[i].role # "assistant"
        BY <1>1, <1>3, <1>4, <1>5, <2>1 DEF Shown
    <2>3. t \notin Old
        BY <1>1, <1>3, <1>5, <2>1 DEF TurnsOK
    <2>4. turns[t].own
        BY <1>1, <2>3 DEF Old
    <2>5. PICK m \in DOMAIN turns : Posted(m)
        BY <1>1, <2>3 DEF TurnsOK
    <2> QED
        BY <1>1, <1>3, <1>5, <2>4, <2>5 DEF Posted
<1>6. ASSUME ~inspecting, ~turns[t].own
      PROVE  FALSE
    <2>1. t \in Old
        BY <1>1, <1>6 DEF Old
    <2>2. \A j \in Shown("assistant") : ~turns[j].own
        <3> SUFFICES ASSUME NEW j \in Shown("assistant"), turns[j].own PROVE FALSE
            OBVIOUS
        <3>1. j <= t /\ j \in DOMAIN turns
            BY <1>1
        <3>2. j \notin Old
            BY DEF Old
        <3>3. PICK m \in DOMAIN turns : Posted(m)
            BY <1>1, <3>1, <3>2 DEF TurnsOK
        <3> QED
            BY <1>1, <1>3, <1>6, <3>1, <3>3 DEF Posted
    <2>3. Shown("assistant") = OldOf("assistant")
        BY <1>1, <1>4, <2>2 DEF Shown, OldOf, Old
    <2>4. /\ snapshot.assistant = Cardinality(Shown("assistant"))
          /\ snapshot.signature = Signature(Latest(Shown("assistant")))
        BY <1>6, <2>3 DEF Snapped, Submitting
    <2>5. ~(Cardinality(Shown("assistant")) > snapshot.assistant)
        BY <1>1, <2>4, ShownTurns
    <2> QED
        BY <2>4, <2>5 DEF targetAssistantTurn
<1> QED
    BY <1>1, <1>5, <1>6 DEF Right, t

(* What is copied is final: nothing is being written, and the copy control *)
(* of a final answer is there to be read.                                  *)
LEMMA CopiedIsFinal ==
    ASSUME CopyReadable, ~OldAnswerMayGrow, Shape, Right(read.turn), answerComplete, page.open
    PROVE  copiedText = 2
<1> DEFINE t == read.turn
<1>1. TypeOK /\ TurnsOK
    BY DEF Shape
<1>2. PICK n \in Nat : n = Len(turns) /\ DOMAIN turns = 1..n
    BY <1>1 DEF TypeOK
<1>3. t \in DOMAIN turns /\ turns[t].role = "assistant" /\ ~Answering
    BY DEF Right, answerComplete, generationActive
<1>4. turns[t].text = 2
    <2>1. CASE t \in Old
        BY <1>1, <2>1 DEF TurnsOK
    <2>2. CASE t \notin Old
        <3>1. turns[t].own /\ message = "posted"
            BY <1>1, <1>3, <2>2 DEF Old, TurnsOK
        <3>2. PICK m \in DOMAIN turns : Posted(m)
            BY <1>1, <3>1 DEF TurnsOK
        <3>3. t = n
            BY <1>2, <1>3, <3>1, <3>2 DEF Posted
        <3> QED
            BY <1>2, <1>3, <3>1, <3>3 DEF Answering, LastTurn
    <2> QED
        BY <2>1, <2>2
<1> QED
    BY <1>4 DEF copiedText, copyVisible

(* An answer is read from the right turn and returned when it is final. *)
LEMMA AnswerStep ==
    ASSUME HistoryLoads, CopyReadable, Shape, View, Snapped, Answer, [Next]_vars
    PROVE  Answer'
<1> USE DEF remoteVars, operationVars
<1>1. /\ result.code = "answered" => pc = "done"
      /\ pc # "done" => result.code = "none"
      /\ inspecting \in BOOLEAN
    BY DEF Shape, Control, TypeOK
<1>2. CASE Environment \/ UNCHANGED vars
    <2>1. UNCHANGED <<pc, read, inspecting, result>>
        BY <1>2, EnvironmentKeeps
    <2>2. ~page.open => ~page'.open
        BY <1>2 DEF Environment, MessageArrives, AnswerGrows, DeletionArrives, UrlChanges,
           TurnsAppear, TabCloses, vars, Shape, TypeOK, PageRecords
    <2>3. \A t : Right(t) => Right(t)'
        BY <2>1, RightStep
    <2> QED
        BY <2>1, <2>2, <2>3 DEF Answer
<1>3. CASE ReadAnswer
    <2>1. pc = "await" /\ inspecting' = inspecting /\ result' = result
        BY <1>3 DEF ReadAnswer, Goto
    <2>2. pc' = "controls" => Right(read'.turn)
        <3>1. CASE targetAssistantTurn = 0
            BY <1>3, <3>1 DEF ReadAnswer, Goto
        <3>2. CASE targetAssistantTurn # 0
            <4>1. read'.turn = targetAssistantTurn
                BY <1>3, <3>2 DEF ReadAnswer
            <4> QED
                BY <2>1, <3>2, <4>1, TargetIsRight
        <3> QED
            BY <3>1, <3>2
    <2>3. \A t : Right(t) => Right(t)'
        BY <2>1, RightStep
    <2> QED
        BY <1>1, <2>1, <2>2, <2>3 DEF Answer
<1>4. CASE Answered
    <2>1. /\ pc = "controls" /\ answerComplete /\ inspecting' = inspecting
          /\ pc' = "done" /\ page' = page
          /\ result'.turn = read.turn /\ result'.text = copiedText
        BY <1>4 DEF Answered, Done
    <2>2. Right(read.turn)
        BY <2>1 DEF Answer
    <2>3. Right(read.turn)'
        <3>1. \A t : Right(t) => Right(t)'
            BY <2>1, RightStep
        <3>2. read' = read
            BY <1>4 DEF Answered
        <3> QED
            BY <2>2, <3>1, <3>2
    <2>4. copiedText = 2 \/ ~page.open
        BY <2>1, <2>2, CopiedIsFinal DEF HistoryLoads
    <2>5. read' = read
        BY <1>4 DEF Answered
    <2> QED
        BY <2>1, <2>3, <2>4, <2>5 DEF Answer
<1>5. CASE Adapter /\ ~ReadAnswer /\ ~Answered
    <2>1. pc # "done" /\ pc' # "controls" /\ result'.code # "answered"
        <3>1. CASE Moves \/ Loads \/ Captures \/ SubmitClick \/ ConfirmPoll \/ ConfirmDeletion
            BY <1>1, <3>1
               DEF Moves, Loads, Captures, SubmitClick, ConfirmPoll, ConfirmDeletion, Goto
        <3>2. CASE SubmitThrows
            BY <1>1, <3>2 DEF SubmitThrows, Fail, Done
        <3>3. CASE FoundAbsent
            BY <1>1, <3>3 DEF FoundAbsent, Done
        <3>4. CASE Fails
            BY <1>1, <3>4 DEF Fails, Ends, Inspects, Done, Failures
        <3> QED
            BY <1>5, <3>1, <3>2, <3>3, <3>4, StepKinds
    <2> QED
        BY <2>1 DEF Answer
<1> QED
    BY <1>2, <1>3, <1>4, <1>5 DEF Next

(* At the beginning there is no snapshot, no answer and no confirmation. *)
LEMMA InitViews == Init => View /\ Snapped /\ Answer /\ Confirmed
<1> SUFFICES ASSUME Init PROVE View /\ Snapped /\ Answer /\ Confirmed
    OBVIOUS
<1>1. pc = "lease" /\ page.shown = 0 /\ ~confirmed /\ result.code = "none"
    BY DEF Init, NewPage
<1> QED
    BY <1>1 DEF View, Snapped, Answer, Confirmed, Submitting

(* An answer is the final text of an assistant turn; of the own one, if    *)
(* the operation waited for it.  It takes a history that loads at once and *)
(* whose answers are finished, and a copy control that can be read.        *)
THEOREM PageAnswersWithFinalText ==
    ASSUME ~HistoryMayLag, ~OldAnswerMayGrow, CopyReadable
    PROVE  Spec => []AnswersWithFinalText
<1> DEFINE AInv == Shape /\ View /\ Snapped /\ Answer
<1>1. Init => AInv
    BY InitShape, InitViews
<1>2. AInv /\ [Next]_vars => AInv'
    BY ShapeStep, ViewStep, SnappedStep, AnswerStep DEF HistoryLoads
<1>3. AInv => AnswersWithFinalText
    BY DEF AnswersWithFinalText, Answer, Right
<1> QED
    BY <1>1, <1>2, <1>3, PTL DEF Spec

-----------------------------------------------------------------------------
(* The stages of the contract. *)

(* What a poll takes for the message is the message. *)
LEMMA VisibleIsSent ==
    ASSUME HistoryLoads, ~RepeatedText, Shape, View, Snapped, pc = "confirm", submissionVisible
    PROVE  message # "unsent"
<1> SUFFICES ASSUME message = "unsent" PROVE FALSE
    OBVIOUS
<1>1. TypeOK /\ TurnsOK /\ Control
    BY DEF Shape
<1>2. ~inspecting /\ Loaded
    BY <1>1 DEF Control, View, Submitting, Inspecting
<1>3. Shown("user") = OldOf("user") /\ Shown("assistant") = OldOf("assistant")
    BY <1>2, ShownIsOld
<1>4. /\ Cardinality(Shown("user")) \in Nat /\ Cardinality(Shown("assistant")) \in Nat
      /\ Latest(Shown("user")) # 0 => Latest(Shown("user")) \in Old
    BY <1>1, <1>3, ShownTurns DEF OldOf
<1>5. /\ snapshot.user = Cardinality(Shown("user"))
      /\ snapshot.assistant = Cardinality(Shown("assistant"))
      /\ snapshot.signature = Signature(Latest(Shown("assistant")))
      /\ kind # "create" => snapshot.url = "conversation"
    BY <1>2, <1>3 DEF Snapped, Submitting
<1>6. ~(page.at = "conversation" /\ snapshot.url # "conversation")
    BY <1>1, <1>5 DEF Control
<1>7. ~(Latest(Shown("user")) # 0 /\ (turns[Latest(Shown("user"))].own \/ RepeatedText))
    BY <1>4 DEF Old
<1> QED
    BY <1>4, <1>5, <1>6, <1>7 DEF submissionVisible

(* Only a poll confirms, and a message that was sent stays sent. *)
LEMMA ConfirmedStep ==
    ASSUME HistoryLoads, ~RepeatedText, Shape, View, Snapped, Confirmed, [Next]_vars
    PROVE  Confirmed'
<1> USE DEF remoteVars, operationVars
<1>1. TypeOK /\ Control
    BY DEF Shape
<1>2. CASE Environment \/ UNCHANGED vars
    <2>1. confirmed' = confirmed
        BY <1>2, EnvironmentKeeps
    <2>2. message' = message \/ message' = "posted"
        BY <1>2 DEF Environment, MessageArrives, AnswerGrows, DeletionArrives, UrlChanges,
           TurnsAppear, TabCloses, vars
    <2> QED
        BY <2>1, <2>2 DEF Confirmed
<1>3. CASE ConfirmPoll
    BY <1>3, VisibleIsSent DEF ConfirmPoll, Confirmed
<1>4. CASE SubmitClick \/ SubmitThrows
    <2>1. ~confirmed'
        BY <1>1, <1>4 DEF SubmitClick, SubmitThrows, Control, Opening, Inspecting, Deleting
    <2> QED
        BY <2>1 DEF Confirmed
<1>5. CASE Moves \/ Loads \/ Captures \/ ReadAnswer \/ Answered \/ FoundAbsent \/ ConfirmDeletion
           \/ Fails
    BY <1>5
       DEF Moves, Loads, Captures, ReadAnswer, Answered, FoundAbsent, ConfirmDeletion,
           Fails,
       Confirmed
<1> QED
    BY <1>2, <1>3, <1>4, <1>5, StepKinds DEF Next

(* The stage of the contract at each point. *)
Stages ==
    /\ pc = "done" => Stage = "returned"
    /\ pc # "done" => Outcome = "none"
    /\ pc # "done" /\ inspecting => Stage = "inspecting"
    /\ pc # "done" /\ kind = "delete" => Stage = IF pc = "verify" THEN "verifying" ELSE "deleting"
    /\ pc = "confirm" => Stage = "submitted"
    /\ ~inspecting /\ pc \in {"await", "controls"} => Stage = "answering"
    /\ ~inspecting /\ kind # "delete" /\ pc \in {"lease", "snapshot", "type", "click"} \cup Opening =>
          Stage = "adapter"

(* The stages are these wherever the shape holds. *)
LEMMA StagesAre == Shape => Stages
<1> SUFFICES ASSUME Shape PROVE Stages
    OBVIOUS
<1>1. Control
    BY DEF Shape
<1>2. pc # "done" => Outcome = "none"
    BY <1>1 DEF Control, Outcome
<1> QED
    BY <1>1, <1>2 DEF Stages, Stage, Control, Opening, Submitting, Inspecting, Deleting

(* What an operation that ends in a failure tells the caller. *)
LEMMA Outcomes ==
    ASSUME NEW code \in Failures, result'.code = code
    PROVE  /\ code \in {"ambiguous", "submission_ambiguous", "response_timeout"} => Outcome' = code
           /\ code = "browser_crashed" => Outcome' = code
           /\ code = "browser_closed" => Outcome' = code
           /\ code \notin {"ambiguous", "submission_ambiguous", "response_timeout", "browser_crashed",
                           "browser_closed"} => Outcome' \in {"auth_required", "other"}
BY DEF Outcome, Failures

(* A step that neither moves nor ends the operation is none of the contract's. *)
LEMMA QuietStep ==
    ASSUME Shape, [Next]_vars, pc # "done", pc' # "done", inspecting' = inspecting, Stage' = Stage,
           known' = known, (message' # "unsent") <=> (message # "unsent"),
           (gone' # "no") <=> (gone # "no")
    PROVE  UNCHANGED Contract!vars
<1>1. Stages /\ Stages'
    <2>1. (Shape => Stages)'
        BY StagesAre, PTL
    <2> QED
        BY <2>1, StagesAre, ShapeStep
<1>2. Outcome' = Outcome
    BY <1>1 DEF Stages
<1>3. (message # "unsent")' = (message # "unsent") /\ (gone # "no")' = (gone # "no")
    OBVIOUS
<1> QED
    BY <1>2, <1>3, KindStep DEF Contract!vars

(* The click is a submission, or it throws. *)
LEMMA SubmitStep ==
    ASSUME Shape, [Next]_vars, SubmitClick \/ SubmitThrows
    PROVE  Contract!Next
<1>1. /\ TypeOK /\ Control /\ Gone /\ Stages /\ Stages'
    <2>1. (Shape => Stages)'
        BY StagesAre, PTL
    <2> QED
        BY <2>1, StagesAre, ShapeStep DEF Shape
<1>2. /\ pc = "click" /\ ~inspecting /\ kind \in {"create", "send"} /\ kind' = kind
      /\ gone = "no" /\ gone' = gone /\ Stage = "adapter" /\ Outcome = "none"
      /\ known \in BOOLEAN
    <2>1. pc = "click" /\ gone' = gone /\ kind' = kind
        BY KindStep DEF SubmitClick, SubmitThrows
    <2>2. ~inspecting /\ kind \in {"create", "send"} /\ known \in BOOLEAN
        BY <1>1, <2>1 DEF Control, TypeOK, Kinds, Inspecting, Deleting
    <2> QED
        BY <1>1, <2>1, <2>2 DEF Gone, Stages
<1>3. CASE SubmitClick
    <2>1. /\ pc' = "confirm" /\ inspecting' = inspecting /\ known' = known
          /\ (message' # "unsent") \in BOOLEAN
        BY <1>3 DEF SubmitClick, Goto, operationVars
    <2>2. Stage' = "submitted" /\ Outcome' = "none"
        BY <1>1, <2>1 DEF Stages
    <2>3. Contract!Submit
        BY <1>2, <2>1, <2>2 DEF Contract!Submit, Contract!Goto
    <2> QED
        BY <2>3 DEF Contract!Next
<1>4. CASE SubmitThrows
    <2>1. /\ Fail("submission_ambiguous") /\ message' \in {"unsent", "sent"}
          /\ known' \in IF message' = "sent" THEN {known, TRUE} ELSE {known}
        BY <1>4 DEF SubmitThrows
    <2>2. known' \in {known, known \/ (message' # "unsent")} /\ (message' # "unsent") \in BOOLEAN
        BY <1>2, <2>1
    <2>3. Contract!InspectOr("submission_ambiguous")
        <3>1. CASE known'
            <4>1. pc' = "lease" /\ inspecting' = TRUE
                BY <1>2, <2>1, <3>1 DEF Fail, recovers, shouldRecoverSubmittedOperation
            <4>2. Stage' = "inspecting" /\ Outcome' = "none"
                BY <1>1, <4>1 DEF Stages
            <4> QED
                BY <1>2, <3>1, <4>2 DEF Contract!InspectOr, Contract!Goto
        <3>2. CASE ~known'
            <4>1. pc' = "done" /\ result'.code = "submission_ambiguous"
                BY <2>1, <3>2 DEF Fail, recovers, Done
            <4>2. Stage' = "returned" /\ Outcome' = "submission_ambiguous"
                BY <1>1, <4>1 DEF Stages, Outcome
            <4> QED
                BY <1>2, <3>2, <4>2 DEF Contract!InspectOr, Contract!Return
        <3> QED
            BY <3>1, <3>2
    <2>4. Contract!ClickThrows
        BY <1>2, <2>2, <2>3 DEF Contract!ClickThrows
    <2> QED
        BY <2>4 DEF Contract!Next
<1> QED
    BY <1>3, <1>4

(* Every failure is one that the stage may end with. *)
LEMMA FailStep ==
    ASSUME Shape, [Next]_vars, Fails
    PROVE  Contract!Next
<1>1. /\ TypeOK /\ Control /\ Stages /\ Stages'
    <2>1. (Shape => Stages)'
        BY StagesAre, PTL
    <2> QED
        BY <2>1, StagesAre, ShapeStep DEF Shape
<1>2. PICK code \in Failures : MayFailWith(code) /\ (Ends(code) \/ Inspects(code))
    BY DEF Fails
<1>3. /\ pc \notin {"click", "confirm_deletion", "done"} /\ Outcome = "none"
      /\ kind' = kind /\ known' = known /\ (message # "unsent")' = (message # "unsent")
      /\ (gone # "no")' = (gone # "no")
    <2>1. pc \notin {"click", "confirm_deletion", "done"} /\ UNCHANGED <<kind, known, message, gone>>
        BY DEF Fails, remoteVars
    <2> QED
        BY <1>1, <2>1 DEF Stages
<1>4. CASE Inspects(code)
    <2>1. /\ kind \in {"create", "send"} /\ ~inspecting /\ known
          /\ code \in {"submission_ambiguous", "response_timeout", "browser_crashed"}
          /\ confirmed \/ code = "submission_ambiguous"
          /\ pc' = "lease" /\ inspecting' = TRUE
        BY <1>4 DEF Inspects, shouldRecoverSubmittedOperation
    <2>2. Stage' = "inspecting" /\ Outcome' = "none"
        BY <1>1, <2>1 DEF Stages
    <2>3. CASE code = "submission_ambiguous"
        <3>1. Stage = "submitted"
            BY <1>1, <1>2, <2>1, <2>3 DEF MayFailWith, Stages
        <3>2. Contract!NotConfirmed
            BY <1>3, <2>1, <2>2, <3>1
               DEF Contract!NotConfirmed, Contract!InspectOr, Contract!Goto
        <3> QED
            BY <3>2 DEF Contract!Next
    <2>4. CASE code \in {"response_timeout", "browser_crashed"}
        <3>1. pc \in {"await", "controls"}
            BY <1>1, <1>3, <2>1, <2>4 DEF Control, Opening, Submitting
        <3>2. Stage = "answering"
            BY <1>1, <2>1, <3>1 DEF Stages
        <3>3. Contract!EndOfWait
            BY <1>3, <2>1, <2>2, <2>4, <3>2
               DEF Contract!EndOfWait, Contract!InspectOr, Contract!Goto
        <3> QED
            BY <3>3 DEF Contract!Next
    <2> QED
        BY <2>1, <2>3, <2>4
<1>5. CASE Ends(code)
    <2>1. pc' = "done" /\ result'.code = code /\ inspecting' = inspecting
        BY <1>5 DEF Ends, Done
    <2>2. Stage' = "returned"
        BY <1>1, <2>1 DEF Stages
    <2>3. /\ code \in {"ambiguous", "submission_ambiguous", "response_timeout"} => Outcome' = code
          /\ code \notin {"ambiguous", "submission_ambiguous", "response_timeout"} =>
                Outcome' \in Contract!Blocking
          /\ code = "browser_closed" => Outcome' = code
        BY <2>1, Outcomes DEF Contract!Blocking
    <2>4. Contract!Return(Outcome')
        BY <1>3, <2>2 DEF Contract!Return
    <2>5. CASE inspecting
        <3>1. Stage = "inspecting" /\ known /\ pc # "confirm" /\ pc # "verify"
            BY <1>1, <1>3, <2>5 DEF Stages, Control, Inspecting
        <3>2. code \notin {"ambiguous", "submission_ambiguous"}
            BY <1>2, <3>1 DEF MayFailWith
        <3>3. Outcome' \in Contract!Blocking \cup {"answered", "response_timeout"}
            BY <2>3, <3>2
        <3>4. Contract!EndOfInspection
            BY <1>3, <2>4, <3>1, <3>3 DEF Contract!EndOfInspection
        <3> QED
            BY <3>4 DEF Contract!Next
    <2>6. CASE kind = "delete"
        <3>1. pc \in {"lease"} \cup Deleting /\ ~inspecting
            BY <1>1, <1>3, <2>6 DEF Control
        <3>2. code \notin {"submission_ambiguous", "response_timeout"}
            BY <1>2, <3>1 DEF MayFailWith, Deleting
        <3>3. CASE pc = "verify"
            <4>1. Stage = "verifying" /\ code \in {"ambiguous", "browser_closed"}
                BY <1>1, <1>2, <2>6, <3>1, <3>3 DEF Stages, MayFailWith
            <4>2. Outcome' = code
                BY <2>3, <4>1
            <4>3. Contract!EndOfVerification \/ Contract!DeletionFails
                BY <1>3, <2>4, <4>1, <4>2 DEF Contract!EndOfVerification, Contract!DeletionFails
            <4> QED
                BY <4>3 DEF Contract!Next
        <3>4. CASE pc # "verify"
            <4>1. Stage = "deleting" /\ code # "ambiguous"
                BY <1>1, <1>2, <1>3, <2>6, <3>4 DEF Stages, MayFailWith
            <4>2. Outcome' \in Contract!Blocking
                BY <2>3, <3>2, <4>1
            <4>3. Contract!DeletionFails
                BY <1>3, <2>4, <4>1, <4>2 DEF Contract!DeletionFails
            <4> QED
                BY <4>3 DEF Contract!Next
        <3> QED
            BY <3>3, <3>4
    <2>7. CASE ~inspecting /\ kind # "delete"
        <3>1. /\ kind \in {"create", "send"}
              /\ pc \in {"lease", "done"} \cup Opening \cup Submitting
            BY <1>1, <2>7 DEF Control, TypeOK, Kinds
        <3>2. code # "ambiguous"
            BY <1>2, <3>1 DEF MayFailWith, Opening, Submitting
        <3>3. CASE pc \in {"await", "controls"}
            <4>1. Stage = "answering" /\ confirmed
                BY <1>1, <2>7, <3>3 DEF Stages, Control
            <4>2. CASE code = "submission_ambiguous"
                <5>1. ~known /\ Outcome' = "submission_ambiguous"
                    BY <1>2, <2>3, <3>3, <4>2 DEF MayFailWith
                <5>2. Contract!EndOfWait
                    BY <1>3, <2>4, <4>1, <5>1 DEF Contract!EndOfWait
                <5> QED
                    BY <5>2 DEF Contract!Next
            <4>3. CASE code \in {"response_timeout", "browser_crashed"}
                <5>1. ~known /\ Outcome' = code
                    BY <1>5, <2>1, <2>7, <3>1, <4>1, <4>3, Outcomes
                       DEF Ends, shouldRecoverSubmittedOperation
                <5>2. Contract!InspectOr(code)
                    BY <1>3, <2>4, <5>1 DEF Contract!InspectOr
                <5>3. Contract!EndOfWait
                    BY <1>3, <4>1, <4>3, <5>2 DEF Contract!EndOfWait
                <5> QED
                    BY <5>3 DEF Contract!Next
            <4>4. CASE code \notin {"submission_ambiguous", "response_timeout", "browser_crashed"}
                <5>1. Outcome' \in {"auth_required", "browser_closed", "other"}
                    BY <2>1, <3>2, <4>4, Outcomes
                <5>2. Contract!EndOfWait
                    BY <1>3, <2>4, <4>1, <5>1 DEF Contract!EndOfWait
                <5> QED
                    BY <5>2 DEF Contract!Next
            <4> QED
                BY <4>2, <4>3, <4>4
        <3>4. CASE pc = "confirm"
            <4>1. Stage = "submitted" /\ code # "response_timeout"
                BY <1>1, <1>2, <3>4 DEF Stages, MayFailWith
            <4>2. CASE code = "submission_ambiguous"
                <5>1. ~known /\ Outcome' = "submission_ambiguous"
                    BY <1>5, <2>3, <2>7, <3>1, <4>2 DEF Ends, shouldRecoverSubmittedOperation
                <5>2. Contract!InspectOr("submission_ambiguous")
                    BY <1>3, <2>4, <5>1 DEF Contract!InspectOr
                <5>3. Contract!NotConfirmed
                    BY <1>3, <4>1, <5>2 DEF Contract!NotConfirmed
                <5> QED
                    BY <5>3 DEF Contract!Next
            <4>3. CASE code # "submission_ambiguous"
                <5>1. Outcome' \in Contract!Blocking
                    BY <2>3, <3>2, <4>1, <4>3
                <5>2. Contract!NotConfirmed
                    BY <1>3, <2>4, <4>1, <5>1 DEF Contract!NotConfirmed
                <5> QED
                    BY <5>2 DEF Contract!Next
            <4> QED
                BY <4>2, <4>3
        <3>5. CASE pc \in {"lease", "snapshot", "type"} \cup Opening
            <4>1. Stage = "adapter" /\ code \notin {"submission_ambiguous", "response_timeout"}
                BY <1>1, <1>2, <2>7, <3>5 DEF Stages, MayFailWith, Opening
            <4>2. Outcome' \in Contract!Blocking
                BY <2>3, <3>2, <4>1
            <4>3. Contract!FailBeforeSubmit
                BY <1>3, <2>4, <4>1, <4>2 DEF Contract!FailBeforeSubmit
            <4> QED
                BY <4>3 DEF Contract!Next
        <3> QED
            BY <1>3, <3>1, <3>3, <3>4, <3>5 DEF Submitting
    <2> QED
        BY <1>1, <2>5, <2>6, <2>7 DEF TypeOK
<1> QED
    BY <1>2, <1>4, <1>5

(* An answer ends a wait or an inspection, an absence a deletion. *)
LEMMA EndStep ==
    ASSUME ~LoginRedirects, Shape, [Next]_vars, Answered \/ FoundAbsent
    PROVE  Contract!Next
<1>1. /\ TypeOK /\ Control /\ Stages /\ Stages'
    <2>1. (Shape => Stages)'
        BY StagesAre, PTL
    <2> QED
        BY <2>1, StagesAre, ShapeStep DEF Shape
<1>2. /\ UNCHANGED <<kind, known, message, gone, inspecting>> /\ pc' = "done" /\ Stage' = "returned"
      /\ (message # "unsent")' = (message # "unsent") /\ (gone # "no")' = (gone # "no")
    <2>1. UNCHANGED <<kind, known, message, gone, inspecting>> /\ pc' = "done"
        BY DEF Answered, FoundAbsent, Done, remoteVars, operationVars
    <2> QED
        BY <1>1, <2>1 DEF Stages
<1>3. CASE Answered
    <2>1. pc = "controls" /\ known /\ result'.code = "answered"
        BY <1>3 DEF Answered, Done
    <2>2. Contract!Return("answered")
        BY <1>2, <2>1 DEF Contract!Return, Outcome
    <2>3. CASE inspecting
        <3>1. Contract!EndOfInspection
            BY <1>1, <1>2, <2>1, <2>2, <2>3 DEF Contract!EndOfInspection, Stages
        <3> QED
            BY <3>1 DEF Contract!Next
    <2>4. CASE ~inspecting
        <3>1. Contract!EndOfWait
            BY <1>1, <1>2, <2>1, <2>2, <2>4 DEF Contract!EndOfWait, Stages
        <3> QED
            BY <3>1 DEF Contract!Next
    <2> QED
        BY <2>3, <2>4
<1>4. CASE FoundAbsent
    <2>1. /\ gone = "yes" /\ pc \in {"presence", "verify"}
          /\ result'.code \in {"already_absent", "deleted"}
        BY <1>4 DEF FoundAbsent, absent, Done
    <2>2. kind = "delete" /\ ~inspecting
        BY <1>1, <2>1 DEF Control, TypeOK, Kinds, Opening, Submitting, Inspecting
    <2>3. Contract!Return("deleted")
        BY <1>2, <2>1 DEF Contract!Return, Outcome
    <2>4. CASE pc = "presence"
        <3>1. Contract!AlreadyAbsent
            BY <1>1, <1>2, <2>1, <2>2, <2>3, <2>4 DEF Contract!AlreadyAbsent, Stages
        <3> QED
            BY <3>1 DEF Contract!Next
    <2>5. CASE pc = "verify"
        <3>1. Contract!EndOfVerification
            BY <1>1, <1>2, <2>1, <2>2, <2>3, <2>5 DEF Contract!EndOfVerification, Stages
        <3> QED
            BY <3>1 DEF Contract!Next
    <2> QED
        BY <2>1, <2>4, <2>5
<1> QED
    BY <1>3, <1>4

(* A poll identifies the conversation, confirms, or shows nothing. *)
LEMMA PollStep ==
    ASSUME Shape, Confirmed', [Next]_vars, ConfirmPoll \/ ReadAnswer
    PROVE  [Contract!Next]_(Contract!vars)
<1> USE DEF remoteVars
<1>1. /\ TypeOK /\ Control /\ Control' /\ Place /\ Stages /\ Stages'
    <2>1. (Shape => Stages)'
        BY StagesAre, PTL
    <2> QED
        BY <2>1, StagesAre, ShapeStep DEF Shape
<1>2. /\ UNCHANGED <<kind, message, gone, inspecting>> /\ known' = (known \/ onConversation)
      /\ pc \in {"confirm", "await"} /\ pc' \in {"confirm", "await", "controls"}
      /\ (message # "unsent")' = (message # "unsent") /\ (gone # "no")' = (gone # "no")
      /\ known \in BOOLEAN /\ inspecting \in BOOLEAN /\ page' = page
    BY <1>1 DEF ConfirmPoll, ReadAnswer, Goto, TypeOK
<1>3. Outcome = "none" /\ Outcome' = "none"
    BY <1>1, <1>2 DEF Stages
<1>4. CASE inspecting
    <2>1. known' = known /\ pc' # "done"
        BY <1>1, <1>2, <1>4 DEF Control
    <2>2. Stage' = Stage
        BY <1>1, <1>2, <1>4 DEF Stages
    <2> QED
        BY <1>2, <2>1, <2>2, QuietStep
<1>5. CASE ~inspecting
    <2>1. kind \in {"create", "send"} /\ (kind = "send" => known)
        BY <1>1, <1>2, <1>5 DEF Control, TypeOK, Kinds, Deleting
    <2>2. known' # known => message # "unsent"
        BY <1>1, <1>2, <2>1 DEF Control, onConversation
    <2>3. CASE ReadAnswer
        <3>1. Stage = "answering" /\ Stage' = "answering" /\ pc' # "done"
            BY <1>1, <1>2, <1>5, <2>3 DEF Stages, ReadAnswer, Goto
        <3>2. CASE known' = known
            BY <1>2, <3>1, <3>2, QuietStep
        <3>3. CASE known' # known
            <4>1. known' = TRUE
                BY <1>2, <3>3
            <4>2. Contract!ConversationIdentified
                BY <1>2, <1>3, <2>2, <3>1, <3>3, <4>1 DEF Contract!ConversationIdentified
            <4> QED
                BY <4>2 DEF Contract!Next
        <3> QED
            BY <3>2, <3>3
    <2>4. CASE ConfirmPoll /\ submissionVisible
        <3>1. pc = "confirm" /\ pc' = "await" /\ confirmed'
            BY <2>4 DEF ConfirmPoll, Goto
        <3>2. Stage = "submitted" /\ Stage' = "answering" /\ message # "unsent"
            BY <1>1, <1>2, <1>5, <3>1 DEF Stages, Confirmed
        <3>3. Contract!SubmissionConfirmed
            BY <1>2, <1>3, <3>2 DEF Contract!SubmissionConfirmed, Contract!Goto
        <3> QED
            BY <3>3 DEF Contract!Next
    <2>5. CASE ConfirmPoll /\ ~submissionVisible
        <3>1. pc = "confirm" /\ pc' = "confirm"
            BY <2>5 DEF ConfirmPoll, Goto
        <3>2. Stage = "submitted" /\ Stage' = "submitted"
            BY <1>1, <3>1 DEF Stages
        <3>3. CASE known' = known
            BY <1>2, <3>1, <3>2, <3>3, QuietStep
        <3>4. CASE known' # known
            <4>1. known' = TRUE
                BY <1>2, <3>4
            <4>2. Contract!ConversationIdentified
                BY <1>2, <1>3, <2>2, <3>2, <3>4, <4>1 DEF Contract!ConversationIdentified
            <4> QED
                BY <4>2 DEF Contract!Next
        <3> QED
            BY <3>3, <3>4
    <2> QED
        BY <2>3, <2>4, <2>5
<1> QED
    BY <1>2, <1>4, <1>5

(* Every step is a step of the contract, or none. *)
LEMMA ContractStep ==
    ASSUME ~LoginRedirects, Shape, Confirmed', [Next]_vars
    PROVE  [Contract!Next]_(Contract!vars)
<1> USE DEF remoteVars, operationVars
<1>1. /\ TypeOK /\ Control /\ Gone /\ Stages /\ Stages'
    <2>1. (Shape => Stages)'
        BY StagesAre, PTL
    <2> QED
        BY <2>1, StagesAre, ShapeStep DEF Shape
<1>2. CASE Environment \/ UNCHANGED vars
    <2>1. UNCHANGED <<kind, pc, known, inspecting, result>>
        BY <1>2, EnvironmentKeeps
    <2>2. (message' # "unsent") <=> (message # "unsent")
        BY <1>2 DEF Environment, MessageArrives, AnswerGrows, DeletionArrives, UrlChanges,
           TurnsAppear, TabCloses, vars
    <2>3. (gone' # "no") <=> (gone # "no")
        BY <1>2 DEF Environment, MessageArrives, AnswerGrows, DeletionArrives, UrlChanges,
           TurnsAppear, TabCloses, vars
    <2>4. Stage' = Stage /\ Outcome' = Outcome
        BY <2>1 DEF Stage, Outcome
    <2>5. (message # "unsent")' = (message # "unsent") /\ (gone # "no")' = (gone # "no")
        BY <2>2, <2>3
    <2> QED
        BY <2>1, <2>4, <2>5 DEF Contract!vars
<1>3. CASE Moves \/ Loads \/ Captures
    <2>1. /\ pc # "done" /\ pc' # "done" /\ UNCHANGED <<kind, message, gone, known, inspecting>>
        BY <1>3 DEF Moves, Loads, Captures
    <2>2. Stage' = Stage
        <3>1. CASE inspecting
            BY <1>1, <2>1, <3>1 DEF Stages
        <3>2. CASE kind = "delete" /\ ~inspecting
            <4>1. pc # "verify" /\ pc' # "verify"
                BY <1>3 DEF Moves, Loads, Captures
            <4> QED
                BY <1>1, <2>1, <3>2, <4>1 DEF Stages
        <3>3. CASE kind # "delete" /\ ~inspecting /\ Moves
            BY <1>1, <2>1, <3>3 DEF Stages, Moves, Control, Opening, Submitting
        <3>4. CASE kind # "delete" /\ ~inspecting /\ (Loads \/ Captures)
            BY <1>1, <2>1, <3>4 DEF Stages, Loads, Captures, Control, Opening, Submitting
        <3> QED
            BY <1>1, <1>3, <3>1, <3>2, <3>3, <3>4 DEF TypeOK
    <2> QED
        BY <2>1, <2>2, QuietStep
<1>4. CASE ConfirmDeletion
    <2>1. /\ pc = "confirm_deletion" /\ pc' = "verify" /\ gone = "no" /\ (gone' # "no") \in BOOLEAN
          /\ UNCHANGED <<kind, message, known, inspecting>>
        BY <1>1, <1>4 DEF ConfirmDeletion, Goto, Gone
    <2>2. kind = "delete"
        BY <1>1, <2>1 DEF Control, TypeOK, Kinds, Opening, Submitting, Inspecting
    <2>3. Stage = "deleting" /\ Stage' = "verifying" /\ Outcome = "none" /\ Outcome' = "none"
        BY <1>1, <2>1, <2>2 DEF Stages
    <2>4. (message # "unsent")' = (message # "unsent")
        BY <2>1
    <2>5. Contract!ConfirmDeletion
        BY <2>1, <2>3, <2>4 DEF Contract!ConfirmDeletion, Contract!Goto
    <2> QED
        BY <2>5 DEF Contract!Next
<1> QED
    BY <1>2, <1>3, <1>4, SubmitStep, FailStep, EndStep, PollStep, StepKinds DEF Next

(* An operation begins at the first stage of its kind. *)
LEMMA ContractInit == Init => Contract!Init
<1> SUFFICES ASSUME Init PROVE Contract!Init
    OBVIOUS
<1>1. Stages
    BY StagesAre, InitShape
<1>2. /\ kind \in Kinds /\ pc = "lease" /\ inspecting = (kind = "recover")
      /\ known = (kind # "create") /\ Outcome = "none"
    BY <1>1 DEF Init, Kinds, Stages
<1>3. Stage = CASE kind \in {"create", "send"} -> "adapter"
                [] kind = "recover"            -> "inspecting"
                [] kind = "delete"             -> "deleting"
    BY <1>1, <1>2 DEF Stages, Kinds
<1>4. (message # "unsent") \in IF kind = "recover" THEN BOOLEAN ELSE {FALSE}
    BY DEF Init
<1>5. (gone # "no") \in IF kind = "create" THEN {FALSE} ELSE BOOLEAN
    BY DEF Init
<1> QED
    BY <1>2, <1>3, <1>4, <1>5 DEF Contract!Init, Kinds

(* The polls, clicks and waits keep to the stages BrowserRunExecutor is    *)
(* modelled on.  It takes a history that loads at once and whose answers   *)
(* are finished, a message that repeats no earlier one, and that an        *)
(* expired login does not look like an absent conversation.                *)
THEOREM PageImplementsContract ==
    ASSUME ~HistoryMayLag, ~OldAnswerMayGrow, ~RepeatedText, ~LoginRedirects
    PROVE  Spec => PageKeepsContract
<1> DEFINE CInv == Shape /\ View /\ Snapped /\ Confirmed
<1>1. Init => CInv
    BY InitShape, InitViews
<1>2. CInv /\ [Next]_vars => CInv'
    BY ShapeStep, ViewStep, SnappedStep, ConfirmedStep DEF HistoryLoads
<1>3. CInv /\ CInv' /\ [Next]_vars => [Contract!Next]_(Contract!vars)
    BY ContractStep
<1> QED
    BY <1>1, <1>2, <1>3, ContractInit, PTL DEF Spec, PageKeepsContract, Contract!Spec

=============================================================================
