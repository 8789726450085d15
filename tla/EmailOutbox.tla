----------------------------- MODULE EmailOutbox -----------------------------
(***************************************************************************)
(* Outgoing mail actions of the native Email Router                        *)
(* (api/_emailRouterCore.js): a redirect, reply or forward is reserved,    *)
(* becomes a Graph draft and an outbox row, is claimed and sent by         *)
(* processEmailRouterOutbox, and is confirmed once the draft is found in   *)
(* Sent Items and the source message is filed.                             *)
(*                                                                         *)
(* The outbox is processed by the maintenance cron, by the submission that *)
(* continues after the action request, and by every status poll, all at    *)
(* once; people retry uncertain actions and failed filings meanwhile.  One *)
(* worker stands for one invocation and one of its entries: the entry is a *)
(* snapshot, and every statement and Graph call after it is a step.  An    *)
(* invocation that reads several entries is several workers, which adds    *)
(* interleavings to its loop.                                              *)
(*                                                                         *)
(* Abstracted: recipients and MIME; time (an entry that is due may be read *)
(* at any moment); attempt counts, failure codes, alerts and events; a     *)
(* reply is an action whose source message stays where it is.              *)
(***************************************************************************)
EXTENDS Naturals, FiniteSets

CONSTANTS Actions,   \* rows of mail_actions (redirect, reply, forward)
          Modes,     \* post_action_mode values in use
          Workers,   \* concurrent invocations
          MaxReviews,\* bound: retries a person asks for, per action
          MaxRefiles,\* bound: filing retries a person asks for, in all
          Faults,    \* kinds of failure that may happen
          MaxFaults  \* bound: failures in one behaviour

NoAction == "no action"
FaultKinds == {"crash", "storage", "network", "refused"}

ASSUME ConstantsAssumption ==
    /\ Modes \subseteq {"keep_current", "move"}
    /\ NoAction \notin Actions
    /\ IsFiniteSet(Workers)
    /\ MaxReviews \in Nat /\ MaxRefiles \in Nat /\ MaxFaults \in Nat
    /\ Faults \subseteq FaultKinds

VARIABLES
    state,    \* mail_actions.state
    mode,     \* mail_actions.post_action_mode
    draftId,  \* whether mail_actions.provider_operation_id is stored
    filing,   \* mail_actions.post_action_state
    outbox,   \* mail_action_outbox.state
    mail,     \* Graph: the outgoing message
    source,   \* Graph: where the source message is
    late,     \* Graph: send requests whose sender has given up
    starter,  \* startEmailRouterAction of each action
    writes,   \* its two concurrent writes still under way
    pc, job,  \* each worker's place and local variables
    posts,    \* history: send requests made
    reviews,  \* history: outbox rows a person put back
    refiles,  \* filing retries so far
    faults    \* failures so far

rows  == <<state, mode, draftId, filing, outbox>>
graph == <<mail, source, late>>
start == <<starter, writes>>
work  == <<pc, job>>
tally == <<posts, reviews, refiles>>
vars  == <<rows, graph, start, work, tally, faults>>

States == {"none", "reserved", "draft_created", "submitted", "confirmed",
           "failed", "uncertain"}
Filings == {"none", "not_required", "pending", "uncertain", "confirmed", "failed"}
OutboxStates == {"none", "draft_created", "uncertain", "submitted", "confirmed"}
Pcs == {"idle", "entry", "claimed", "marked", "sending", "accepted",
        "recording", "unknown", "reconciling", "confirming", "filing", "moved",
        "filingFailed", "reopening", "filed", "completing", "reviewing",
        "resetting", "redrafting", "refiling"}

NoJob == [act |-> NoAction, entry |-> "none", draft |-> FALSE,
          filing |-> "none", confirm |-> FALSE, definite |-> FALSE]
JobType == [act: Actions \cup {NoAction}, entry: OutboxStates, draft: BOOLEAN,
            filing: Filings, confirm: BOOLEAN, definite: BOOLEAN]

TypeOK ==
    /\ state \in [Actions -> States]
    /\ mode \in [Actions -> {"none", "keep_current", "move"}]
    /\ draftId \in [Actions -> BOOLEAN]
    /\ filing \in [Actions -> Filings]
    /\ outbox \in [Actions -> OutboxStates]
    /\ mail \in [Actions -> {"none", "draft", "accepted", "sent"}]
    /\ source \in [Actions -> {"inbox", "filed", "gone"}]
    /\ late \subseteq Actions
    /\ starter \in [Actions -> {"none", "reserved", "drafted", "broken", "ended"}]
    /\ writes \in [Actions -> SUBSET {"action", "outbox"}]
    /\ pc \in [Workers -> Pcs]
    /\ job \in [Workers -> JobType]
    /\ posts \in [Actions -> Nat]
    /\ reviews \in [Actions -> Nat]
    /\ refiles \in Nat
    /\ faults \in Nat

Init ==
    /\ state = [a \in Actions |-> "none"]
    /\ mode = [a \in Actions |-> "none"]
    /\ draftId = [a \in Actions |-> FALSE]
    /\ filing = [a \in Actions |-> "none"]
    /\ outbox = [a \in Actions |-> "none"]
    /\ mail = [a \in Actions |-> "none"]
    /\ source = [a \in Actions |-> "inbox"]
    /\ late = {}
    /\ starter = [a \in Actions |-> "none"]
    /\ writes = [a \in Actions |-> {}]
    /\ pc = [w \in Workers |-> "idle"]
    /\ job = [w \in Workers |-> NoJob]
    /\ posts = [a \in Actions |-> 0]
    /\ reviews = [a \in Actions |-> 0]
    /\ refiles = 0
    /\ faults = 0

Fault(kind) == kind \in Faults /\ faults < MaxFaults /\ faults' = faults + 1

SetState(a, s)  == state' = [state EXCEPT ![a] = s]
SetFiling(a, f) == filing' = [filing EXCEPT ![a] = f]

\* An update of the outbox row that looks at nothing but its key: without a
\* row it changes nothing, and a confirmed row keeps its completed_at, which
\* the table's CHECK refuses to any other state.
SetOutbox(a, s) ==
    outbox' = IF outbox[a] \in {"none", "confirmed"} THEN outbox
              ELSE [outbox EXCEPT ![a] = s]

-----------------------------------------------------------------------------
(* startEmailRouterAction: from the reservation to the outbox row *)

StarterMoves(a, s) == starter' = [starter EXCEPT ![a] = s]

\* createAction; a repeated idempotency key returns the row and does nothing.
Reserve(a) ==
    /\ starter[a] = "none"
    /\ StarterMoves(a, "reserved")
    /\ SetState(a, "reserved")
    /\ \E m \in Modes :
         /\ mode' = [mode EXCEPT ![a] = m]
         /\ SetFiling(a, IF m = "move" THEN "pending" ELSE "not_required")
    /\ UNCHANGED <<draftId, outbox, graph, writes, work, tally, faults>>

\* createGraphDraft, then two writes in parallel.
CreateDraft(a) ==
    /\ starter[a] = "reserved"
    /\ StarterMoves(a, "drafted")
    /\ mail' = [mail EXCEPT ![a] = "draft"]
    /\ writes' = [writes EXCEPT ![a] = {"action", "outbox"}]
    /\ UNCHANGED <<rows, source, late, work, tally, faults>>

\* The destinations cannot be stored, or there is no reviewed draft.
PrepareFails(a) ==
    /\ starter[a] = "reserved"
    /\ Fault("network") \/ Fault("storage")
    /\ StarterMoves(a, "broken")
    /\ UNCHANGED <<rows, graph, writes, work, tally>>

LandAction(a) ==
    /\ SetState(a, "draft_created")
    /\ draftId' = [draftId EXCEPT ![a] = TRUE]
    /\ UNCHANGED outbox
LandOutbox(a) ==
    /\ outbox' = [outbox EXCEPT ![a] = "draft_created"]
    /\ UNCHANGED <<state, draftId>>
Land(a, k) == /\ k \in writes[a]
              /\ IF k = "action" THEN LandAction(a) ELSE LandOutbox(a)
Landed(a, k) == writes' = [writes EXCEPT ![a] = @ \ {k}]

\* A write lands, even one whose invocation has moved on or died.
WriteLands(a, k) ==
    /\ Land(a, k)
    /\ Landed(a, k)
    /\ UNCHANGED <<mode, filing, graph, starter, work, tally, faults>>

\* A write is refused, or its answer is lost: Promise.all rejects at once.
WriteFails(a, k) ==
    /\ starter[a] = "drafted"
    /\ Fault("storage")
    /\ \/ Land(a, k)
       \/ k \in writes[a] /\ UNCHANGED <<state, draftId, outbox>>
    /\ Landed(a, k)
    /\ StarterMoves(a, "broken")
    /\ UNCHANGED <<mode, filing, graph, work, tally>>

\* The catch block: the action is failed and the caller is told so.
FailStart(a) ==
    /\ starter[a] = "broken"
    /\ \/ SetState(a, "failed") /\ UNCHANGED faults
       \/ Fault("storage") /\ UNCHANGED state
    /\ StarterMoves(a, "ended")
    /\ UNCHANGED <<mode, draftId, filing, outbox, graph, writes, work, tally>>

Started(a) ==
    /\ starter[a] = "drafted" /\ writes[a] = {}
    /\ StarterMoves(a, "ended")
    /\ UNCHANGED <<rows, graph, writes, work, tally, faults>>

StarterCrashes(a) ==
    /\ starter[a] \in {"reserved", "drafted", "broken"}
    /\ Fault("crash")
    /\ StarterMoves(a, "ended")
    /\ UNCHANGED <<rows, graph, writes, work, tally>>

-----------------------------------------------------------------------------
(* processEmailRouterOutbox: claim and submit *)

Act(w) == job[w].act
Goto(w, label) == pc' = [pc EXCEPT ![w] = label]
Return(w) == /\ pc' = [pc EXCEPT ![w] = "idle"]
             /\ job' = [job EXCEPT ![w] = NoJob]

Snapshot(a, confirm) ==
    [act |-> a, entry |-> outbox[a], draft |-> draftId[a],
     filing |-> filing[a], confirm |-> confirm, definite |-> FALSE]

\* The joined read of one outbox row and its action; confirmed actions are
\* skipped.  The submission after a request does not confirm what it submits
\* (confirm = FALSE); the cron and the status polls do.
ReadEntry(w, a) ==
    /\ pc[w] = "idle"
    /\ outbox[a] \in {"draft_created", "submitted", "uncertain"}
    /\ state[a] # "confirmed"
    /\ \E confirm \in BOOLEAN : job' = [job EXCEPT ![w] = Snapshot(a, confirm)]
    /\ Goto(w, "entry")
    /\ UNCHANGED <<rows, graph, start, tally, faults>>

\* The maintenance cron, or a status poll, reads the entry.
CronReads(w, a) == ReadEntry(w, a) /\ job'[w].confirm

\* Mutant: a claim that does not look at the row's present state.
ClaimAnyway(w) ==
    /\ pc[w] = "entry" /\ job[w].entry = "draft_created"
    /\ SetOutbox(Act(w), "uncertain")
    /\ Goto(w, "claimed")
    /\ UNCHANGED <<state, mode, draftId, filing, job, graph, start, tally, faults>>

\* The compare and swap to 'uncertain' comes before the submission.
Claim(w) ==
    /\ pc[w] = "entry" /\ job[w].entry = "draft_created"
    /\ IF outbox[Act(w)] = "draft_created"
       THEN /\ outbox' = [outbox EXCEPT ![Act(w)] = "uncertain"]
            /\ Goto(w, "claimed")
            /\ UNCHANGED job
       ELSE Return(w) /\ UNCHANGED outbox
    /\ UNCHANGED <<state, mode, draftId, filing, graph, start, tally, faults>>

MarkUncertain(w) ==
    /\ pc[w] = "claimed"
    /\ SetState(Act(w), "uncertain")
    /\ Goto(w, "marked")
    /\ UNCHANGED <<mode, draftId, filing, outbox, graph, start, job, tally, faults>>

\* A storage error of either update, applied or not, ends the invocation.
ClaimFails(w) ==
    /\ Fault("storage")
    /\ \/ /\ pc[w] = "entry" /\ job[w].entry = "draft_created"
          /\ outbox[Act(w)] = "draft_created"
          /\ UNCHANGED state
          /\ \/ outbox' = [outbox EXCEPT ![Act(w)] = "uncertain"]
             \/ UNCHANGED outbox
       \/ /\ pc[w] = "claimed"
          /\ UNCHANGED outbox
          /\ SetState(Act(w), "uncertain") \/ UNCHANGED state
    /\ Return(w)
    /\ UNCHANGED <<mode, draftId, filing, graph, start, tally>>

\* POST /messages/{provider_operation_id}/send, the identifier of the
\* snapshot; a POST is never repeated by emailRouterGraphFetch.
PostSend(w) ==
    /\ pc[w] = "marked"
    /\ posts' = [posts EXCEPT ![Act(w)] = @ + 1]
    /\ Goto(w, "sending")
    /\ UNCHANGED <<rows, graph, start, job, reviews, refiles, faults>>

SendAccepted(w) ==
    /\ pc[w] = "sending"
    /\ job[w].draft /\ mail[Act(w)] = "draft"
    /\ mail' = [mail EXCEPT ![Act(w)] = "accepted"]
    /\ Goto(w, "accepted")
    /\ UNCHANGED <<rows, source, late, start, job, tally, faults>>

SendRefused(w) ==
    /\ pc[w] = "sending"
    /\ ~job[w].draft \/ mail[Act(w)] # "draft"
    /\ Goto(w, "unknown")
    /\ UNCHANGED <<rows, graph, start, job, tally, faults>>

\* What a given up request may still do.
Lingers(w) ==
    late' = IF pc[w] = "sending" /\ job[w].draft THEN late \cup {Act(w)} ELSE late

SendLost(w) ==
    /\ pc[w] = "sending"
    /\ Fault("network")
    /\ Lingers(w)
    /\ Goto(w, "unknown")
    /\ UNCHANGED <<rows, mail, source, start, job, tally>>

\* An error of this update is not looked at.
RecordOutboxSubmitted(w) ==
    /\ pc[w] = "accepted"
    /\ \/ SetOutbox(Act(w), "submitted") /\ UNCHANGED faults
       \/ Fault("storage") /\ UNCHANGED outbox
    /\ Goto(w, "recording")
    /\ UNCHANGED <<state, mode, draftId, filing, graph, start, job, tally>>

RecordSubmitted(w) ==
    /\ pc[w] = "recording"
    /\ \/ /\ SetState(Act(w), "submitted") /\ UNCHANGED faults
          /\ IF job[w].confirm THEN Goto(w, "reconciling") /\ UNCHANGED job
                               ELSE Return(w)
       \/ /\ Fault("storage") /\ Goto(w, "unknown") /\ UNCHANGED job
          /\ SetState(Act(w), "submitted") \/ UNCHANGED state
    /\ UNCHANGED <<mode, draftId, filing, outbox, graph, start, tally>>

\* Mutant: an unknown outcome is offered for submission again.
RecordUnknownForRetry(w) ==
    /\ pc[w] = "unknown"
    /\ SetOutbox(Act(w), "draft_created")
    /\ Return(w)
    /\ UNCHANGED <<state, mode, draftId, filing, graph, start, tally, faults>>

\* Mutant: an unknown outcome is taken for a failure.
RecordUnknownAsFailed(w) ==
    /\ pc[w] = "unknown"
    /\ SetOutbox(Act(w), "failed")
    /\ Return(w)
    /\ UNCHANGED <<state, mode, draftId, filing, graph, start, tally, faults>>

\* The catch block of the submission.
RecordUnknown(w) ==
    /\ pc[w] = "unknown"
    /\ \/ SetOutbox(Act(w), "uncertain") /\ UNCHANGED faults
       \/ Fault("storage") /\ UNCHANGED outbox
    /\ Return(w)
    /\ UNCHANGED <<state, mode, draftId, filing, graph, start, tally>>

-----------------------------------------------------------------------------
(* Reconciliation: Sent Items, the filing of the source, the confirmation *)

\* Mutant: what Graph accepted is taken for sent.
SentDraftAccepted(w) == job[w].draft /\ mail[Act(w)] \in {"accepted", "sent"}

SentDraftConfirmed(w) == job[w].draft /\ mail[Act(w)] = "sent"

CheckSent(w) ==
    /\ \/ pc[w] = "entry" /\ job[w].entry # "draft_created"
       \/ pc[w] = "reconciling"
    /\ IF SentDraftConfirmed(w) THEN Goto(w, "confirming") /\ UNCHANGED job
                                ELSE Return(w)
    /\ UNCHANGED <<rows, graph, start, tally, faults>>

\* completeConfirmedSourceFiling: nothing to move; left to a person; or begun.
BeginFiling(w) ==
    /\ pc[w] = "confirming"
    /\ \/ /\ mode[Act(w)] = "keep_current"
          /\ Goto(w, "filed") /\ UNCHANGED <<filing, job>>
       \/ /\ mode[Act(w)] = "move" /\ job[w].filing = "uncertain"
          /\ Return(w) /\ UNCHANGED filing
       \/ /\ mode[Act(w)] = "move" /\ job[w].filing # "uncertain"
          /\ SetFiling(Act(w), "uncertain")
          /\ Goto(w, "filing") /\ UNCHANGED job
    /\ UNCHANGED <<state, mode, draftId, outbox, graph, start, tally, faults>>

FilingBreaks(w, definite) ==
    /\ job' = [job EXCEPT ![w].definite = definite]
    /\ Goto(w, "filingFailed")

\* Read the source message and move it unless it is there already; a missing
\* message is a definite failure, a lost answer is not.
FileSource(w) ==
    LET a == Act(w) IN
    /\ pc[w] = "filing"
    /\ \/ /\ source[a] # "gone" /\ source' = [source EXCEPT ![a] = "filed"]
          /\ Goto(w, "moved") /\ UNCHANGED <<job, faults>>
       \/ source[a] = "gone" /\ FilingBreaks(w, TRUE) /\ UNCHANGED <<source, faults>>
       \/ Fault("refused") /\ FilingBreaks(w, TRUE) /\ UNCHANGED source
       \/ /\ Fault("network") /\ FilingBreaks(w, FALSE)
          /\ \/ UNCHANGED source
             \/ source[a] # "gone" /\ source' = [source EXCEPT ![a] = "filed"]
    /\ UNCHANGED <<rows, mail, late, start, tally>>

\* The message row, then the action row.
RecordFiled(w) ==
    /\ pc[w] = "moved"
    /\ \/ /\ SetFiling(Act(w), "confirmed") /\ Goto(w, "filed")
          /\ UNCHANGED <<job, faults>>
       \/ /\ Fault("storage") /\ FilingBreaks(w, FALSE)
          /\ SetFiling(Act(w), "confirmed") \/ UNCHANGED filing
    /\ UNCHANGED <<state, mode, draftId, outbox, graph, start, tally>>

RecordFilingFailed(w) ==
    /\ pc[w] = "filingFailed"
    /\ SetFiling(Act(w), IF job[w].definite THEN "failed" ELSE "uncertain")
    /\ Goto(w, "reopening")
    /\ UNCHANGED <<state, mode, draftId, outbox, graph, start, job, tally, faults>>

ReopenOutbox(w) ==
    /\ pc[w] = "reopening"
    /\ \/ SetOutbox(Act(w), "submitted") /\ UNCHANGED faults
       \/ Fault("storage") /\ UNCHANGED outbox
    /\ Return(w)
    /\ UNCHANGED <<state, mode, draftId, filing, graph, start, tally>>

ConfirmAction(w) ==
    /\ pc[w] = "filed"
    /\ SetState(Act(w), "confirmed")
    /\ Goto(w, "completing")
    /\ UNCHANGED <<mode, draftId, filing, outbox, graph, start, job, tally, faults>>

\* Mutant: only a submitted row is confirmed, not one whose outcome was unknown.
ConfirmOutboxSubmitted(w) ==
    /\ pc[w] = "completing"
    /\ IF outbox[Act(w)] = "submitted" THEN SetOutbox(Act(w), "confirmed")
                                       ELSE UNCHANGED outbox
    /\ Return(w)
    /\ UNCHANGED <<state, mode, draftId, filing, graph, start, tally, faults>>

ConfirmOutbox(w) ==
    /\ pc[w] = "completing"
    /\ \/ SetOutbox(Act(w), "confirmed") /\ UNCHANGED faults
       \/ Fault("storage") /\ UNCHANGED outbox
    /\ Return(w)
    /\ UNCHANGED <<state, mode, draftId, filing, graph, start, tally>>

\* A storage error where the code throws, applied or not.
ReconcileFails(w) ==
    /\ Fault("storage")
    /\ \/ /\ pc[w] = "confirming"
          /\ \/ UNCHANGED filing
             \/ /\ mode[Act(w)] = "move" /\ job[w].filing # "uncertain"
                /\ SetFiling(Act(w), "uncertain")
          /\ UNCHANGED state
       \/ /\ pc[w] = "filingFailed"
          /\ \/ SetFiling(Act(w), IF job[w].definite THEN "failed" ELSE "uncertain")
             \/ UNCHANGED filing
          /\ UNCHANGED state
       \/ /\ pc[w] = "filed"
          /\ SetState(Act(w), "confirmed") \/ UNCHANGED state
          /\ UNCHANGED filing
    /\ Return(w)
    /\ UNCHANGED <<mode, draftId, outbox, graph, start, tally>>

-----------------------------------------------------------------------------
(* People: retry an uncertain action, retry a failed filing *)

\* retryEmailRouterUncertainAction, called by a person who looked for the
\* message in Sent Items and says it is not there.
RequestReview(w, a) ==
    /\ pc[w] = "idle"
    /\ state[a] = "uncertain" /\ draftId[a]
    /\ reviews[a] < MaxReviews
    /\ job' = [job EXCEPT ![w] = Snapshot(a, TRUE)]
    /\ Goto(w, "reviewing")
    /\ UNCHANGED <<rows, graph, start, tally, faults>>

ReviewSent(w) ==
    /\ pc[w] = "reviewing"
    /\ Goto(w, IF SentDraftConfirmed(w) THEN "confirming" ELSE "resetting")
    /\ UNCHANGED <<rows, graph, start, job, tally, faults>>

ResetOutbox(w) ==
    LET a == Act(w) IN
    /\ pc[w] = "resetting"
    /\ IF outbox[a] = "uncertain"
       THEN /\ outbox' = [outbox EXCEPT ![a] = "draft_created"]
            /\ reviews' = [reviews EXCEPT ![a] = @ + 1]
            /\ \/ Goto(w, "redrafting") /\ UNCHANGED <<job, faults>>
               \/ Fault("storage") /\ Return(w)
       ELSE Return(w) /\ UNCHANGED <<outbox, reviews, faults>>
    /\ UNCHANGED <<state, mode, draftId, filing, graph, start, posts, refiles>>

Redraft(w) ==
    /\ pc[w] = "redrafting"
    /\ \/ SetState(Act(w), "draft_created") /\ UNCHANGED faults
       \/ Fault("storage") /\ UNCHANGED state
    /\ Return(w)
    /\ UNCHANGED <<mode, draftId, filing, outbox, graph, start, tally>>

\* retryEmailRouterSourceFiling: from 'failed' back to 'pending', then the
\* filing and the same confirmation.
RequestFilingRetry(w, a) ==
    /\ pc[w] = "idle"
    /\ state[a] = "submitted" /\ filing[a] = "failed"
    /\ refiles < MaxRefiles
    /\ refiles' = refiles + 1
    /\ job' = [job EXCEPT ![w] = [Snapshot(a, TRUE) EXCEPT !.filing = "pending"]]
    /\ Goto(w, "refiling")
    /\ UNCHANGED <<rows, graph, start, posts, reviews, faults>>

RestartFiling(w) ==
    /\ pc[w] = "refiling"
    /\ \/ SetFiling(Act(w), "pending") /\ Goto(w, "confirming")
          /\ UNCHANGED <<job, faults>>
       \/ Fault("storage") /\ Return(w) /\ UNCHANGED filing
    /\ UNCHANGED <<state, mode, draftId, outbox, graph, start, tally>>

\* The invocation is killed, or a Graph read throws.
Crash(w) ==
    /\ pc[w] # "idle"
    /\ Fault("crash")
    /\ Lingers(w)
    /\ Return(w)
    /\ UNCHANGED <<rows, mail, source, start, tally>>

-----------------------------------------------------------------------------
(* Graph and the mailbox's own users *)

LateSend(a) ==
    /\ a \in late
    /\ late' = late \ {a}
    /\ mail' = IF mail[a] = "draft" THEN [mail EXCEPT ![a] = "accepted"] ELSE mail
    /\ UNCHANGED <<rows, source, start, work, tally, faults>>

ReachesSentItems(a) ==
    /\ mail[a] = "accepted"
    /\ mail' = [mail EXCEPT ![a] = "sent"]
    /\ UNCHANGED <<rows, source, late, start, work, tally, faults>>

SourceDeleted(a) ==
    /\ source[a] = "inbox"
    /\ source' = [source EXCEPT ![a] = "gone"]
    /\ UNCHANGED <<rows, mail, late, start, work, tally, faults>>

-----------------------------------------------------------------------------
(* Specification *)

StarterStep(a) ==
    \/ Reserve(a) \/ CreateDraft(a) \/ FailStart(a) \/ Started(a)
    \/ \E k \in {"action", "outbox"} : WriteLands(a, k)
StarterFault(a) ==
    \/ PrepareFails(a) \/ StarterCrashes(a)
    \/ \E k \in {"action", "outbox"} : WriteFails(a, k)

WorkerStep(w) ==
    \/ Claim(w) \/ MarkUncertain(w) \/ PostSend(w)
    \/ SendAccepted(w) \/ SendRefused(w)
    \/ RecordOutboxSubmitted(w) \/ RecordSubmitted(w) \/ RecordUnknown(w)
    \/ CheckSent(w) \/ BeginFiling(w) \/ FileSource(w) \/ RecordFiled(w)
    \/ RecordFilingFailed(w) \/ ReopenOutbox(w)
    \/ ConfirmAction(w) \/ ConfirmOutbox(w)
    \/ ReviewSent(w) \/ ResetOutbox(w) \/ Redraft(w) \/ RestartFiling(w)
WorkerFault(w) ==
    ClaimFails(w) \/ SendLost(w) \/ ReconcileFails(w) \/ Crash(w)

PersonStep(w, a) == RequestReview(w, a) \/ RequestFilingRetry(w, a)
GraphStep(a) == LateSend(a) \/ ReachesSentItems(a) \/ SourceDeleted(a)

Next ==
    \/ \E a \in Actions : StarterStep(a) \/ StarterFault(a) \/ GraphStep(a)
    \/ \E w \in Workers : WorkerStep(w) \/ WorkerFault(w)
    \/ \E w \in Workers, a \in Actions : ReadEntry(w, a) \/ PersonStep(w, a)

Spec == Init /\ [][Next]_vars

\* Invocations that live run on; every request in flight lands; Graph puts
\* what it accepted into Sent Items; and the cron comes back to every entry.
FairSpec ==
    /\ Spec
    /\ \A a \in Actions : /\ WF_vars(StarterStep(a))
                          /\ WF_vars(ReachesSentItems(a))
    /\ \A w \in Workers : WF_vars(WorkerStep(w))
    /\ \A a \in Actions : SF_vars(\E w \in Workers : CronReads(w, a))

-----------------------------------------------------------------------------
(* Properties *)

\* A draft is submitted once, and once more for each time a person reviewed
\* Sent Items and put it back: whatever invocations race, fail or die, a
\* claimed outbox entry is only reconciled (processEmailRouterOutbox,
\* retryEmailRouterUncertainAction).
OnePostPerReview == \A a \in Actions : posts[a] <= 1 + reviews[a]

\* Nothing is reported as delivered, and no source message is filed, before
\* the outgoing message is in Sent Items (confirmSubmittedAction, and the
\* deliveryConfirmed of getEmailRouterActionStatus).
ConfirmedMeansSent ==
    \A a \in Actions :
      (\/ state[a] = "confirmed" \/ outbox[a] = "confirmed"
       \/ filing[a] \in {"uncertain", "failed", "confirmed"}
       \/ source[a] = "filed") => mail[a] = "sent"

\* The outbox row, the send requests and the mailbox implement EmailDelivery.
Delivery == INSTANCE EmailDelivery WITH
    stage <- [a \in Actions |-> IF outbox[a] = "none" THEN "none"
                                ELSE IF outbox[a] = "draft_created" THEN "ready"
                                ELSE "attempted"],
    delivered <- [a \in Actions |-> mail[a] \in {"accepted", "sent"}],
    settled <- [a \in Actions |-> outbox[a] = "confirmed"]

\* What processEmailRouterOutbox, retryEmailRouterUncertainAction and
\* confirmSubmittedAction do to a draft is what EmailDelivery allows.
ImplementsDelivery == Delivery!Spec

\* A message that reached Sent Items is not forgotten, whatever answers were
\* lost: in the end its outbox row is confirmed for good.  The exceptions are a
\* source message that was to be filed and is gone, and a filing of which no
\* answer said whether it took place; both are recorded as such
\* (processEmailRouterOutbox, completeConfirmedSourceFiling).
SentIsReconciled ==
    \A a \in Actions :
      mail[a] = "sent" ~>
        [](\/ outbox[a] = "confirmed"
           \/ /\ mode[a] = "move"
              /\ \/ source[a] = "gone" /\ filing[a] \in {"failed", "uncertain"}
                 \/ filing[a] = "uncertain" /\ faults > 0)

=============================================================================
