-------------------------- MODULE ConversationPage --------------------------
(***************************************************************************)
(* One operation of the ChatGPT adapter at the grain of its polls: the     *)
(* adapter reads a page, decides, clicks or waits, and reads again, while  *)
(* the page renders, the message travels, the answer grows and the tab may *)
(* close.  Sources: client.ts, message-submission.ts,                      *)
(* completion-detector.ts, recovery.ts, deletion.ts, project-navigation.ts *)
(* and error-detector.ts under src/browser/chatgpt/.                       *)
(*                                                                         *)
(* A turn is its role, whether it belongs to this operation's message, and *)
(* how much of its text there is: 0, 1 (partial) or 2 (final).  A page     *)
(* shows a prefix of the turns.  Of the codes of a failure,                *)
(* "auth_required" stands for all that ask for an operator and             *)
(* "rate_limited" for all that come from an alert.                         *)
(*                                                                         *)
(* The page is not ours.  What is assumed of it are the constants; each    *)
(* assumption that is dropped breaks a property, see README.               *)
(***************************************************************************)
EXTENDS Naturals, Sequences, FiniteSets

CONSTANTS
    HistoryMayLag,      \* turns of a loaded conversation may appear one by one
    OldAnswerMayGrow,   \* an earlier answer may be unfinished and still grow
    RepeatedText,       \* the message may have the text of an earlier one
    CopyReadable,       \* a final answer has a copy control that can be read
    LoginRedirects      \* an expired login may first show as another URL

ASSUME PageAssumptions ==
    /\ HistoryMayLag \in BOOLEAN /\ OldAnswerMayGrow \in BOOLEAN
    /\ RepeatedText \in BOOLEAN /\ CopyReadable \in BOOLEAN
    /\ LoginRedirects \in BOOLEAN

VARIABLES
    kind,       \* the operation: create, send, recover or delete
    turns,      \* remote: the conversation
    message,    \* of the operation: unsent, sent (on its way) or posted
    gone,       \* the conversation: no, sent (its deletion is on its way), yes
    page,       \* [open, at, shown]: the leased tab
    pc,         \* the next thing the operation does
    snapshot,   \* SubmissionSnapshot: [assistant, user, signature, url]
    read,       \* the answer a poll has read: [turn, text, stable]
    known,      \* the conversation is known to the adapter
    confirmed,  \* onSubmissionConfirmed was called
    inspecting, \* this is recoverSubmittedOperation
    result      \* [code, turn, text]

remoteVars == <<turns, message, gone>>
operationVars == <<snapshot, read, known, confirmed, inspecting>>
vars == <<kind, remoteVars, page, pc, operationVars, result>>

-----------------------------------------------------------------------------
User(own) == [role |-> "user", own |-> own, text |-> 2]
Assistant(own, text) == [role |-> "assistant", own |-> own, text |-> text]

Histories ==
    {<<User(FALSE), Assistant(FALSE, 2)>>, <<User(FALSE)>>}
        \cup IF OldAnswerMayGrow THEN {<<User(FALSE), Assistant(FALSE, 1)>>} ELSE {}

NewPage == [open |-> TRUE, at |-> "blank", shown |-> 0]

Init ==
    /\ kind \in {"create", "send", "recover", "delete"}
    /\ turns \in CASE kind = "create"  -> {<<>>}
                   [] kind = "recover" -> Histories \cup {<<>>}
                   [] OTHER            -> Histories
    /\ message \in IF kind = "recover" THEN {"unsent", "sent"} ELSE {"unsent"}
    /\ gone \in IF kind = "create" THEN {"no"} ELSE {"no", "yes"}
    /\ page = NewPage
    /\ pc = "lease"
    /\ snapshot = [assistant |-> 0, user |-> 0, signature |-> <<>>, url |-> "blank"]
    /\ read = [turn |-> 0, text |-> 0, stable |-> FALSE]
    /\ known = (kind # "create")
    /\ confirmed = FALSE
    /\ inspecting = (kind = "recover")
    /\ result = [code |-> "none", turn |-> 0, text |-> 0]

-----------------------------------------------------------------------------
(* The page and the service behind it. *)

LastTurn == turns[Len(turns)]

Answering ==
    \/ message = "posted" /\ ~(LastTurn.role = "assistant" /\ LastTurn.own /\ LastTurn.text = 2)
    \/ OldAnswerMayGrow /\ turns # <<>> /\ LastTurn.role = "assistant" /\ LastTurn.text < 2

MessageArrives ==
    /\ message = "sent"
    /\ message' = "posted"
    /\ turns' = Append(turns, User(TRUE))
    /\ UNCHANGED <<kind, gone, page, pc, operationVars, result>>

AnswerGrows ==
    /\ turns # <<>>
    /\ Answering
    /\ turns' = IF LastTurn.role = "user" THEN Append(turns, Assistant(TRUE, 0))
                ELSE [turns EXCEPT ![Len(turns)].text = @ + 1]
    /\ UNCHANGED <<kind, message, gone, page, pc, operationVars, result>>

DeletionArrives ==
    /\ gone = "sent"
    /\ gone' = "yes"
    /\ UNCHANGED <<kind, turns, message, page, pc, operationVars, result>>

(* A project page becomes the page of the conversation it started.         *)
UrlChanges ==
    /\ page.open /\ page.at = "project"
    /\ message # "unsent"
    /\ page' = [page EXCEPT !.at = "conversation"]
    /\ UNCHANGED <<kind, remoteVars, pc, operationVars, result>>

TurnsAppear ==
    /\ page.open /\ page.at \in {"project", "conversation"}
    /\ \E n \in (page.shown + 1)..Len(turns) :
          /\ HistoryMayLag \/ n = Len(turns)
          /\ page' = [page EXCEPT !.shown = n]
    /\ UNCHANGED <<kind, remoteVars, pc, operationVars, result>>

TabCloses ==
    /\ page.open
    /\ pc \notin {"lease", "done"}
    /\ page' = [page EXCEPT !.open = FALSE]
    /\ UNCHANGED <<kind, remoteVars, pc, operationVars, result>>

Environment ==
    MessageArrives \/ AnswerGrows \/ DeletionArrives \/ UrlChanges \/ TurnsAppear \/ TabCloses

-----------------------------------------------------------------------------
(* What can be read of the page. *)

Shown(role) == {i \in 1..page.shown : turns[i].role = role}

Latest(S) == IF S = {} THEN 0 ELSE CHOOSE i \in S : \A j \in S : j <= i

(* turnSignature: <<>> where there is no turn or no text yet. *)
NoSignature == <<>>
Signature(i) == IF i = 0 \/ turns[i].text = 0 THEN NoSignature ELSE <<i, turns[i].text>>

(* "__chatgpt_proxy_recovery_target__" *)
RecoveryTarget == <<0, 0>>

submissionSnapshot ==
    [assistant |-> Cardinality(Shown("assistant")),
     user      |-> Cardinality(Shown("user")),
     signature |-> Signature(Latest(Shown("assistant"))),
     url       |-> page.at]

(* detectBlockingFailure: the codes a poll may find. *)
blockingFailures ==
    IF ~page.open THEN {"browser_crashed"}
    ELSE {"auth_required", "rate_limited"}
            \cup (IF gone = "yes" THEN {"thread_not_found"} ELSE {})

(* What Playwright throws of a closed page; elsewhere it is caught. *)
thrown == IF page.open THEN {} ELSE {"browser_closed"}

targetAssistantTurn ==
    LET last == Latest(Shown("assistant"))
    IN  IF \/ Cardinality(Shown("assistant")) > snapshot.assistant
           \/ Signature(last) \notin {NoSignature, snapshot.signature}
        THEN last ELSE 0

-----------------------------------------------------------------------------
(* The end of a lease. *)

shouldRecoverSubmittedOperation(code) ==
    code \in {"submission_ambiguous", "response_timeout", "browser_crashed"}

(* Mutant: that the message was submitted at all is not asked. *)
recoversUnsubmitted(code) ==
    /\ kind \in {"create", "send"} /\ ~inspecting
    /\ known'
    /\ shouldRecoverSubmittedOperation(code)
recovers(code) ==
    /\ kind \in {"create", "send"} /\ ~inspecting
    /\ known'
    /\ shouldRecoverSubmittedOperation(code)
    /\ confirmed \/ code = "submission_ambiguous"

Done(code, turn, text) ==
    /\ pc' = "done"
    /\ result' = [code |-> code, turn |-> turn, text |-> text]
    /\ UNCHANGED page

(* The failure is returned, or the conversation is inspected in a tab of   *)
(* its own.                                                                *)
Fail(code) ==
    IF recovers(code)
    THEN /\ pc' = "lease" /\ page' = NewPage /\ inspecting' = TRUE
         /\ UNCHANGED result
    ELSE Done(code, 0, 0) /\ UNCHANGED inspecting

FailWith(codes) ==
    /\ \E c \in codes : Fail(c)
    /\ UNCHANGED <<kind, remoteVars, snapshot, read, confirmed>>

Goto(p) == pc' = p /\ UNCHANGED <<kind, result>>

-----------------------------------------------------------------------------
(* withLease, openExistingConversation, openProjectForNewConversation.     *)

Lease ==
    /\ pc = "lease"
    /\ \/ /\ Goto(CASE kind = "delete" -> "presence"
                    [] kind = "create" /\ ~inspecting -> "project"
                    [] OTHER -> "open")
          /\ UNCHANGED <<remoteVars, page, operationVars>>
       \/ /\ UNCHANGED known
          /\ FailWith({"auth_required", "browser_crashed", "unexpected_state"})

OpenProject ==
    /\ pc = "project"
    /\ \/ /\ page.open
          /\ page' = [page EXCEPT !.at = "project"]
          /\ Goto("snapshot")
          /\ UNCHANGED <<remoteVars, operationVars>>
       \/ /\ UNCHANGED known
          /\ FailWith({"navigation_failed", "project_not_found", "ui_changed"}
                        \cup blockingFailures)

(* The URL of a conversation that is gone leads elsewhere, or to a page    *)
(* that says so.                                                           *)
OpenExisting ==
    /\ pc = "open"
    /\ \/ /\ page.open /\ gone # "yes"
          /\ page' = [page EXCEPT !.at = "conversation"]
          /\ Goto("evidence")
          /\ UNCHANGED <<remoteVars, operationVars>>
       \/ /\ UNCHANGED known
          /\ FailWith({"navigation_failed"} \cup
                        IF gone = "yes" \/ LoginRedirects THEN {"thread_not_found"} ELSE {})

(* The composer, and at least one turn. *)
ConversationEvidence ==
    /\ pc = "evidence"
    /\ \/ /\ page.open /\ page.shown > 0
          /\ Goto(IF inspecting THEN "settle" ELSE "snapshot")
          /\ UNCHANGED <<remoteVars, page, operationVars>>
       \/ /\ UNCHANGED known
          /\ FailWith({"ui_changed", "thread_not_found"} \cup blockingFailures)

-----------------------------------------------------------------------------
(* submitMessage *)

CaptureSubmissionSnapshot ==
    /\ pc = "snapshot"
    /\ \/ /\ page.open
          /\ snapshot' = submissionSnapshot
          /\ Goto("type")
          /\ UNCHANGED <<remoteVars, page, read, known, confirmed, inspecting>>
       \/ /\ UNCHANGED known
          /\ FailWith({"input_not_found"} \cup thrown)

(* selectThinkingLevel, fill, and the search for the send button. *)
TypeMessage ==
    /\ pc = "type"
    /\ \/ /\ page.open
          /\ Goto("click")
          /\ UNCHANGED <<remoteVars, page, operationVars>>
       \/ UNCHANGED known /\ FailWith({"ui_changed", "send_failed"})

(* The click or the Enter key takes effect or does not. *)
SubmitClick ==
    /\ pc = "click"
    /\ page.open
    /\ message' \in {"unsent", "sent"}
    /\ Goto("confirm")
    /\ UNCHANGED <<turns, gone, page, operationVars>>

(* It throws, with or without effect; the URL may name a conversation.     *)
SubmitThrows ==
    /\ pc = "click"
    /\ message' \in {"unsent", "sent"}
    /\ known' \in IF message' = "sent" THEN {known, TRUE} ELSE {known}
    /\ Fail("submission_ambiguous")
    /\ UNCHANGED <<kind, turns, gone, snapshot, read, confirmed>>

(* Mutant: any page that has turns will do. *)
confirmedByAnyTurn == Shown("user") # {}
submissionVisible ==
    \/ Cardinality(Shown("user")) > snapshot.user
    \/ Cardinality(Shown("assistant")) > snapshot.assistant
    \/ page.at = "conversation" /\ snapshot.url # "conversation"
    \/ LET last == Latest(Shown("user"))
       IN  last # 0 /\ (turns[last].own \/ RepeatedText)
    \/ Signature(Latest(Shown("assistant"))) \notin {NoSignature, snapshot.signature}

onConversation == page.at = "conversation"

ConfirmPoll ==
    /\ pc = "confirm"
    /\ page.open
    /\ known' = (known \/ onConversation)
    /\ confirmed' = submissionVisible
    /\ Goto(IF submissionVisible THEN "await" ELSE "confirm")
    /\ UNCHANGED <<remoteVars, page, snapshot, read, inspecting>>

ConfirmFails ==
    /\ pc = "confirm"
    /\ UNCHANGED known
    /\ FailWith({"submission_ambiguous"} \cup blockingFailures \cup thrown)

-----------------------------------------------------------------------------
(* waitForFinalAssistantResponse: a poll reads the text of the target turn *)
(* first and the controls of the page later.                               *)

ReadAnswer ==
    /\ pc = "await"
    /\ page.open
    /\ known' = (known \/ onConversation)
    /\ LET target == targetAssistantTurn
       IN  IF target = 0 THEN Goto("await") /\ UNCHANGED read
           ELSE /\ read' = [turn   |-> target,
                            text   |-> turns[target].text,
                            stable |-> <<target, turns[target].text>> = <<read.turn, read.text>>]
                /\ Goto("controls")
    /\ UNCHANGED <<remoteVars, page, snapshot, confirmed, inspecting>>

(* A control of a closed page is not visible, and no exception says so.    *)
generationActive == page.open /\ Answering
copyVisible == page.open /\ CopyReadable /\ turns[read.turn].text = 2

(* Mutant: the text read at the beginning of the poll is returned. *)
copiedNothing == read.text
copiedText == IF copyVisible THEN turns[read.turn].text ELSE read.text

(* The text has been the same for stableContentMs, or the copy control is  *)
(* there; a changed text is not stable yet.                                *)
answerComplete ==
    /\ read.text > 0
    /\ ~generationActive
    /\ copyVisible \/ read.stable

ReadControls ==
    /\ pc = "controls"
    /\ \/ /\ ~(answerComplete /\ copyVisible)
          /\ Goto("await")
          /\ UNCHANGED <<page, operationVars>>
       \/ /\ answerComplete
          /\ known
          /\ Done("answered", read.turn, copiedText)
          /\ UNCHANGED <<kind, operationVars>>
       \/ /\ answerComplete
          /\ ~known
          /\ UNCHANGED known
          /\ Fail("submission_ambiguous")
          /\ UNCHANGED <<kind, snapshot, read, confirmed>>
    /\ UNCHANGED remoteVars

AwaitFails ==
    /\ pc \in {"await", "controls"}
    /\ UNCHANGED known
    /\ FailWith((IF pc = "await" THEN {"response_timeout"} \cup blockingFailures ELSE {})
                  \cup thrown)

-----------------------------------------------------------------------------
(* recoverSubmittedConversation: the turns settle, and later the snapshot  *)
(* is taken whose signature says what not to wait for.                     *)

latestRole == IF page.shown = 0 THEN "none" ELSE turns[page.shown].role

TurnsSettled ==
    /\ pc = "settle"
    /\ \/ /\ page.open
          /\ Goto(IF latestRole = "assistant" THEN "take" ELSE "observe")
          /\ UNCHANGED <<remoteVars, page, operationVars>>
       \/ UNCHANGED known /\ FailWith(thrown)

RecoverySnapshot ==
    /\ pc \in {"take", "observe"}
    /\ \/ /\ page.open
          /\ snapshot' = IF pc = "take"
                         THEN [submissionSnapshot EXCEPT !.signature = RecoveryTarget]
                         ELSE submissionSnapshot
          /\ Goto("await")
          /\ UNCHANGED <<remoteVars, page, read, known, confirmed, inspecting>>
       \/ UNCHANGED known /\ FailWith(thrown)

-----------------------------------------------------------------------------
(* deleteRemoteConversation *)

(* inspectConversationPresence finds no conversation at its URL. *)
absent == page.open /\ (gone = "yes" \/ LoginRedirects)

InitialPresence ==
    /\ pc = "presence"
    /\ \/ absent /\ Done("already_absent", 0, 0) /\ UNCHANGED <<kind, remoteVars, operationVars>>
       \/ /\ page.open /\ gone # "yes"
          /\ Goto("menu")
          /\ UNCHANGED <<remoteVars, page, operationVars>>
       \/ /\ UNCHANGED known
          /\ FailWith({"navigation_failed", "ui_changed"}
                        \cup (blockingFailures \ {"thread_not_found"}))

(* The action menu, the Delete item, and the dialog, which must be         *)
(* recognized and have both its buttons.                                   *)
DeletionDialog ==
    /\ pc = "menu"
    /\ \/ /\ page.open
          /\ Goto("confirm_deletion")
          /\ UNCHANGED <<remoteVars, page, operationVars>>
       \/ UNCHANGED known /\ FailWith({"ui_changed", "remote_delete_failed"})

(* Whether the click throws is not asked, only what became of it.          *)
ConfirmDeletion ==
    /\ pc = "confirm_deletion"
    /\ gone' \in IF page.open THEN {"no", "sent"} ELSE {"no"}
    /\ Goto("verify")
    /\ UNCHANGED <<turns, message, page, operationVars>>

(* Mutant: a verification that is blocked is reported as its failure. *)
VerificationBlocked ==
    /\ pc = "verify"
    /\ \/ absent /\ Done("deleted", 0, 0) /\ UNCHANGED <<kind, remoteVars, operationVars>>
       \/ UNCHANGED known /\ FailWith({"ambiguous"} \cup blockingFailures \cup thrown)
(* Every verification that does not find it absent is ambiguous; a tab     *)
(* that closes in the pause after the click throws.                        *)
VerifyDeletion ==
    /\ pc = "verify"
    /\ \/ absent /\ Done("deleted", 0, 0) /\ UNCHANGED <<kind, remoteVars, operationVars>>
       \/ UNCHANGED known /\ FailWith({"ambiguous"} \cup thrown)

-----------------------------------------------------------------------------
Adapter ==
    \/ Lease \/ OpenProject \/ OpenExisting \/ ConversationEvidence
    \/ CaptureSubmissionSnapshot \/ TypeMessage \/ SubmitClick \/ SubmitThrows
    \/ ConfirmPoll \/ ConfirmFails \/ ReadAnswer \/ ReadControls \/ AwaitFails
    \/ TurnsSettled \/ RecoverySnapshot
    \/ InitialPresence \/ DeletionDialog \/ ConfirmDeletion \/ VerifyDeletion

Next == Environment \/ Adapter

Spec == Init /\ [][Next]_vars

-----------------------------------------------------------------------------
(* An answer is the final text of an assistant turn.  The one an operation *)
(* waited for answers its own message; the one an inspection found is the  *)
(* answer at the end of the conversation, and to this message only if the  *)
(* message is there (see AnswersItsOwnMessage in RunExecution).  A tab     *)
(* that closes between the halves of a poll may leave a partial text.      *)
AnswersWithFinalText ==
    result.code = "answered" =>
        /\ result.text = 2 \/ ~page.open
        /\ turns[result.turn].role = "assistant"
        /\ ~inspecting => turns[result.turn].own
        /\ \A i \in DOMAIN turns : i > result.turn => turns[i].own

(* What is reported as deleted is gone; and a failure, which the operator  *)
(* may answer with another attempt, means that nothing was clicked, unless *)
(* the tab closed on us.                                                   *)
DeletionTold ==
    kind = "delete" /\ pc = "done" =>
        CASE result.code \in {"already_absent", "deleted"} -> gone = "yes"
          [] result.code \in {"ambiguous", "browser_closed"} -> TRUE
          [] OTHER -> gone # "sent"

(* The stages of AdapterContract. *)
Stage ==
    CASE pc = "done" -> "returned"
      [] pc # "done" /\ inspecting -> "inspecting"
      [] pc # "done" /\ kind = "delete" ->
            (IF pc = "verify" THEN "verifying" ELSE "deleting")
      [] pc = "confirm" -> "submitted"
      [] pc \in {"await", "controls"} /\ ~inspecting -> "answering"
      [] OTHER -> "adapter"

Outcome ==
    CASE result.code \in {"none", "answered", "ambiguous", "auth_required",
                          "submission_ambiguous", "response_timeout",
                          "browser_crashed", "browser_closed"} -> result.code
      [] result.code \in {"already_absent", "deleted"} -> "deleted"
      [] OTHER -> "other"

Contract == INSTANCE AdapterContract
                WITH op <- kind, at <- Stage, sent <- message # "unsent",
                     gone <- gone # "no", result <- Outcome

(* The polls, clicks and waits keep to what BrowserRunExecutor relies on:  *)
(* nothing is confirmed that was not sent, nothing is inspected that was   *)
(* not submitted, and each stage ends with the outcomes it may end with.   *)
PageKeepsContract == Contract!Spec
=============================================================================
