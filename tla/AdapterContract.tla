--------------------------- MODULE AdapterContract ---------------------------
(***************************************************************************)
(* What a caller of the ChatGPT adapter may rely on in one operation: the  *)
(* stages it passes through, what may have been sent when it comes back    *)
(* and with which outcomes.  BrowserRunExecutor is modelled on top of      *)
(* exactly these stages (module RunExecution); ConversationPage shows that *)
(* the reading and clicking of pages keeps to them.                        *)
(***************************************************************************)
EXTENDS Naturals

VARIABLES
    op,         \* create, send, recover or delete
    at,         \* adapter (nothing sent), submitted, answering, inspecting,
                \* deleting, verifying or returned
    sent,       \* the message of the operation has left the page
    known,      \* the adapter knows the conversation
    gone,       \* the conversation is deleted, or its deletion was sent
    result

vars == <<op, at, sent, known, gone, result>>

(* "auth_required" stands for all that asks for an operator, "other" for   *)
(* what is not told apart, "browser_closed" for an exception of Playwright *)
(* about a closed page.                                                    *)
Blocking == {"auth_required", "browser_crashed", "browser_closed", "other"}

Init ==
    /\ op \in {"create", "send", "recover", "delete"}
    /\ at = CASE op \in {"create", "send"} -> "adapter"
              [] op = "recover"            -> "inspecting"
              [] op = "delete"             -> "deleting"
    /\ sent \in IF op = "recover" THEN BOOLEAN ELSE {FALSE}
    /\ known = (op # "create")
    /\ gone \in IF op = "create" THEN {FALSE} ELSE BOOLEAN
    /\ result = "none"

Return(r) == at' = "returned" /\ result' = r /\ UNCHANGED op

Goto(p) == at' = p /\ UNCHANGED <<op, result>>

InspectOr(r) == IF known' THEN Goto("inspecting") ELSE Return(r)

FailBeforeSubmit ==
    /\ at = "adapter"
    /\ \E c \in Blocking : Return(c)
    /\ UNCHANGED <<sent, known, gone>>

Submit ==
    /\ at = "adapter"
    /\ ~gone
    /\ sent' \in BOOLEAN
    /\ Goto("submitted")
    /\ UNCHANGED <<known, gone>>

ClickThrows ==
    /\ at = "adapter"
    /\ ~gone
    /\ sent' \in BOOLEAN
    /\ known' \in {known, known \/ sent'}
    /\ InspectOr("submission_ambiguous")
    /\ UNCHANGED gone

ConversationIdentified ==
    /\ at \in {"submitted", "answering"}
    /\ sent
    /\ known' = TRUE
    /\ UNCHANGED <<op, at, sent, gone, result>>

(* What is confirmed was sent. *)
SubmissionConfirmed ==
    /\ at = "submitted"
    /\ sent
    /\ known' \in {known, TRUE}
    /\ Goto("answering")
    /\ UNCHANGED <<sent, gone>>

NotConfirmed ==
    /\ at = "submitted"
    /\ \/ InspectOr("submission_ambiguous")
       \/ \E c \in Blocking : Return(c)
    /\ UNCHANGED <<sent, known, gone>>

(* An answer is returned, or none comes.                                   *)
EndOfWait ==
    /\ at = "answering"
    /\ \/ known /\ Return("answered")
       \/ ~known /\ Return("submission_ambiguous")
       \/ \E c \in {"response_timeout", "browser_crashed"} : InspectOr(c)
       \/ \E c \in {"auth_required", "browser_closed", "other"} : Return(c)
    /\ UNCHANGED <<sent, known, gone>>

EndOfInspection ==
    /\ at = "inspecting"
    /\ \E c \in Blocking \cup {"answered", "response_timeout"} : Return(c)
    /\ UNCHANGED <<sent, known, gone>>

AlreadyAbsent ==
    /\ at = "deleting"
    /\ gone
    /\ Return("deleted")
    /\ UNCHANGED <<sent, known, gone>>

DeletionFails ==
    /\ \/ at = "deleting" /\ \E c \in Blocking : Return(c)
       \/ at = "verifying" /\ Return("browser_closed")
    /\ UNCHANGED <<sent, known, gone>>

ConfirmDeletion ==
    /\ at = "deleting"
    /\ ~gone
    /\ gone' \in BOOLEAN
    /\ Goto("verifying")
    /\ UNCHANGED <<sent, known>>

EndOfVerification ==
    /\ at = "verifying"
    /\ \/ gone /\ Return("deleted")
       \/ Return("ambiguous")
    /\ UNCHANGED <<sent, known, gone>>

Next ==
    \/ FailBeforeSubmit \/ Submit \/ ClickThrows \/ ConversationIdentified
    \/ SubmissionConfirmed \/ NotConfirmed \/ EndOfWait \/ EndOfInspection
    \/ AlreadyAbsent \/ DeletionFails \/ ConfirmDeletion \/ EndOfVerification

Spec == Init /\ [][Next]_vars
=============================================================================
