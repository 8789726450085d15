-------------------------- MODULE PaymentReminders --------------------------
(***************************************************************************)
(* One external payment reminder: an operation, identified by the key that *)
(* the page made up for it, whose reviewed recipient groups are mailed as  *)
(* batches (buyerInvoicePaymentReminderSend in api/functions/[name].js,    *)
(* api/_paymentReminderOperations.js and the migration that holds the      *)
(* ledger).  The same operation may be requested again, after an answer    *)
(* was lost or some batches failed, while an earlier request still runs.   *)
(*                                                                         *)
(* A request is a process; each SQL function of the ledger and each Graph  *)
(* submission is one step of it.  The collections cron repairs timelines   *)
(* at any moment.  A ledger call may fail, applied or not, and a request   *)
(* may die between two steps.                                              *)
(*                                                                         *)
(* Abstracted: the validation before the reservation (a refused request    *)
(* changes nothing), the request hashes (a request with other contents is  *)
(* refused, a batch with other contents is a reservation that fails),      *)
(* timings, error codes, the wording of the timeline.  A batch stands for  *)
(* its invoices: `timeline' holds the batches whose reminder events exist. *)
(***************************************************************************)
EXTENDS Naturals, FiniteSets

CONSTANTS Batches,      \* recipient groups of the operation
          Requests,     \* requests that can run at the same time
          Runners,      \* batches a request works on at a time (3 in the code)
          MaxAttempts,  \* bound: requests in all
          MaxFaults     \* bound: ledger calls that fail, and crashes

ASSUME ReminderConstants ==
    /\ IsFiniteSet(Batches) /\ Batches # {}
    /\ Runners \in Nat \ {0}
    /\ MaxAttempts \in Nat /\ MaxFaults \in Nat

VARIABLES
    operation,  \* the operation's row
    batch,      \* status of each batch's row, "absent" before its reservation
    timeline,   \* batches with reminder_sent events in the collections
    request,    \* the requests and their local variables
    work,       \* where each request is with each batch
    mailed,     \* history: messages Graph accepted for each batch
    unrecorded, \* history: batches whose acceptance could not be recorded
    warned,     \* history: batches whose sender was promised a repair
    attempts, faults

vars == <<operation, batch, timeline, request, work, mailed, unrecorded,
          warned, attempts, faults>>
history == <<mailed, unrecorded, warned>>
tally   == <<attempts, faults>>

OperationStatuses == {"absent", "validating", "sending", "partial", "accepted",
                      "failed", "uncertain", "completed"}
BatchStatuses == {"absent", "sending", "accepted", "failed", "uncertain"}
Results == {"accepted", "failed", "uncertain"}

\* A batch waits for a runner, is reserved, mailed, and its outcome recorded.
\* "refused" is an acceptance that could not be recorded, in the catch block.
Working == {"reserve", "mail", "graph_accepted", "graph_rejected",
            "graph_uncertain", "refused"}
NoWork == [b \in Batches |-> "waiting"]
Idle == [at |-> "idle", warning |-> FALSE]

TypeOK ==
    /\ operation \in [status: OperationStatuses,
                      accepted: 0..Cardinality(Batches), recorded: BOOLEAN]
    /\ batch \in [Batches -> BatchStatuses]
    /\ timeline \subseteq Batches
    /\ request \in [Requests -> [at: {"idle", "reserve", "batches", "timeline",
                                      "final"}, warning: BOOLEAN]]
    /\ work \in [Requests -> [Batches -> Working \cup Results \cup {"waiting"}]]
    /\ mailed \in [Batches -> Nat]
    /\ unrecorded \subseteq Batches /\ warned \subseteq Batches
    /\ attempts \in 0..MaxAttempts /\ faults \in 0..MaxFaults

Init ==
    /\ operation = [status |-> "absent", accepted |-> 0, recorded |-> FALSE]
    /\ batch = [b \in Batches |-> "absent"]
    /\ timeline = {}
    /\ request = [r \in Requests |-> Idle]
    /\ work = [r \in Requests |-> NoWork]
    /\ mailed = [b \in Batches |-> 0]
    /\ unrecorded = {} /\ warned = {}
    /\ attempts = 0 /\ faults = 0

----------------------------------------------------------------------------
\* Helpers.

At(r, step) == request[r].at = step
Goto(r, step) == request' = [request EXCEPT ![r].at = step]
Step(r, b, s) == work' = [work EXCEPT ![r][b] = s]
Leave(r) == /\ request' = [request EXCEPT ![r] = Idle]
            /\ work' = [work EXCEPT ![r] = NoWork]
Fault == faults < MaxFaults /\ faults' = faults + 1 /\ UNCHANGED attempts

\* A call that fails may have been applied: v' = new, or v is as it was.
Perhaps(v, new) == {v, new}

----------------------------------------------------------------------------
\* The reservation of the operation.

Submit(r) ==
    /\ At(r, "idle")
    /\ attempts < MaxAttempts /\ attempts' = attempts + 1
    /\ Goto(r, "reserve")
    /\ UNCHANGED <<operation, batch, timeline, work, history, faults>>

\* A failed or partial operation may be tried again; a completed one is
\* replayed, and any other blocks the request or is in doubt.
Reservable == operation.status \in {"absent", "partial", "failed"}

ReserveOperation(r) ==
    /\ At(r, "reserve")
    /\ \/ /\ Reservable
          /\ operation' = [operation EXCEPT !.status = "validating"]
          /\ Goto(r, "batches")
       \/ /\ ~Reservable
          /\ request' = [request EXCEPT ![r] = Idle]
          /\ UNCHANGED operation
    /\ UNCHANGED <<batch, timeline, work, history, tally>>

ReserveOperationFails(r) ==
    /\ At(r, "reserve") /\ Reservable
    /\ operation' = [operation EXCEPT !.status = "validating"]
    /\ request' = [request EXCEPT ![r] = Idle]
    /\ Fault
    /\ UNCHANGED <<batch, timeline, work, history>>

----------------------------------------------------------------------------
\* The batches.  mapPaymentReminderBatches keeps Runners of them under way.

TakeBatch(r, b) ==
    /\ At(r, "batches") /\ work[r][b] = "waiting"
    /\ Cardinality({c \in Batches : work[r][c] \in Working}) < Runners
    /\ Step(r, b, "reserve")
    /\ UNCHANGED <<operation, batch, timeline, request, history, tally>>

\* Mutant: a batch that another request is sending is taken over.
MayMailAnyway(b) == /\ batch[b] \in {"absent", "failed", "sending"}
                    /\ operation.status # "uncertain"

\* What reserve_buyer_invoice_payment_reminder_batch answers.
MayMail(b) == batch[b] \in {"absent", "failed"} /\ operation.status # "uncertain"

Answer(b) ==
    IF MayMail(b) THEN "mail"
    ELSE IF batch[b] = "accepted" /\ operation.status # "uncertain"
         THEN "accepted" ELSE "uncertain"

Reserved(b) ==
    /\ batch' = [batch EXCEPT ![b] = "sending"]
    /\ operation' = [operation EXCEPT !.status = "sending"]

ReserveBatch(r, b) ==
    /\ work[r][b] = "reserve"
    /\ Step(r, b, Answer(b))
    /\ IF MayMail(b) THEN Reserved(b) ELSE UNCHANGED <<operation, batch>>
    /\ UNCHANGED <<timeline, request, history, tally>>

ReserveBatchFails(r, b) ==
    /\ work[r][b] = "reserve"
    /\ Step(r, b, "failed")
    /\ \/ MayMail(b) /\ Reserved(b)
       \/ UNCHANGED <<operation, batch>>
    /\ Fault
    /\ UNCHANGED <<timeline, request, history>>

\* Graph takes the message or not; a timeout or a 5xx leaves that open.
Mail(r, b) ==
    /\ work[r][b] = "mail"
    /\ \E taken \in BOOLEAN :
         /\ mailed' = [mailed EXCEPT ![b] = IF taken THEN @ + 1 ELSE @]
         /\ \/ Step(r, b, "graph_uncertain")
            \/ Step(r, b, IF taken THEN "graph_accepted" ELSE "graph_rejected")
    /\ UNCHANGED <<operation, batch, timeline, request, unrecorded, warned, tally>>

CompleteAccepted(r, b) ==
    /\ work[r][b] = "graph_accepted"
    /\ batch' = [batch EXCEPT ![b] = "accepted"]
    /\ Step(r, b, "accepted")
    /\ UNCHANGED <<operation, timeline, request, history, tally>>

\* The error of the ledger is caught like one of Graph, and is not uncertain.
CompleteAcceptedFails(r, b) ==
    /\ work[r][b] = "graph_accepted"
    /\ batch' \in Perhaps(batch, [batch EXCEPT ![b] = "accepted"])
    /\ Step(r, b, "refused")
    /\ unrecorded' = unrecorded \cup {b}
    /\ Fault
    /\ UNCHANGED <<operation, timeline, request, mailed, warned>>

Refused(r, b) == work[r][b] \in {"graph_rejected", "graph_uncertain", "refused"}

\* Mutant: an answer that does not come is a failure.
OutcomeFailed(r, b) == "failed"

Outcome(r, b) == IF work[r][b] = "graph_uncertain" THEN "uncertain" ELSE "failed"

CompleteOutcome(r, b) ==
    /\ Refused(r, b)
    /\ batch' = [batch EXCEPT ![b] = Outcome(r, b)]
    /\ Step(r, b, Outcome(r, b))
    /\ UNCHANGED <<operation, timeline, request, history, tally>>

CompleteOutcomeFails(r, b) ==
    /\ Refused(r, b)
    /\ batch' \in Perhaps(batch, [batch EXCEPT ![b] = Outcome(r, b)])
    /\ Step(r, b, "uncertain")
    /\ Fault
    /\ UNCHANGED <<operation, timeline, request, history>>

----------------------------------------------------------------------------
\* The outcome of the operation and the timeline.

With(r, result) == {b \in Batches : work[r][b] = result}
Delivered(r) == At(r, "batches") /\ \A b \in Batches : work[r][b] \in Results

\* Mutant: an operation without accepted batches gets a status of its own.
DeliveryStatusRejected(r) ==
    IF With(r, "uncertain") # {} THEN "uncertain"
    ELSE IF With(r, "accepted") = Batches THEN "accepted"
    ELSE IF With(r, "accepted") # {} THEN "partial"
    ELSE "rejected"

\* preTimelineStatus
DeliveryStatus(r) ==
    IF With(r, "uncertain") # {} THEN "uncertain"
    ELSE IF With(r, "accepted") = Batches THEN "accepted"
    ELSE IF With(r, "accepted") # {} THEN "partial"
    ELSE "failed"

\* Mutant: the batches in doubt are counted as accepted.
OutcomesCountUncertain(r) ==
    [status |-> DeliveryStatus(r),
     accepted |-> Cardinality(With(r, "accepted") \cup With(r, "uncertain")),
     recorded |-> FALSE]

Outcomes(r) == [status |-> DeliveryStatus(r),
                accepted |-> Cardinality(With(r, "accepted")), recorded |-> FALSE]

RecordDelivery(r) ==
    /\ Delivered(r)
    /\ operation' = Outcomes(r)
    /\ Goto(r, IF With(r, "accepted") = {} THEN "final" ELSE "timeline")
    /\ UNCHANGED <<batch, timeline, work, history, tally>>

RecordDeliveryFails(r) ==
    /\ Delivered(r)
    /\ operation' \in Perhaps(operation, Outcomes(r))
    /\ Leave(r)
    /\ Fault
    /\ UNCHANGED <<batch, timeline, history>>

\* save_buyer_invoice_payment_reminder_timeline, for the batches in rows that
\* the ledger says were accepted.  accepted_batch_count may be another
\* request's.
Saved(rows) ==
    /\ timeline' = timeline \cup {b \in rows : batch[b] = "accepted"}
    /\ operation' = [operation EXCEPT
                       !.recorded = TRUE,
                       !.status = IF operation.accepted >= Cardinality(Batches)
                                  THEN "completed" ELSE @]

SaveTimeline(r) ==
    /\ At(r, "timeline")
    /\ Saved(With(r, "accepted"))
    /\ Goto(r, "final")
    /\ UNCHANGED <<batch, work, history, tally>>

SaveTimelineFails(r) ==
    /\ At(r, "timeline")
    /\ \/ Saved(With(r, "accepted"))
       \/ UNCHANGED <<operation, timeline>>
    /\ request' = [request EXCEPT ![r] = [at |-> "final", warning |-> TRUE]]
    /\ Fault
    /\ UNCHANGED <<batch, work, history>>

Final(r) ==
    LET completed == With(r, "accepted") = Batches /\ ~request[r].warning IN
      [status |-> IF completed THEN "completed" ELSE DeliveryStatus(r),
       accepted |-> Cardinality(With(r, "accepted")),
       recorded |-> ~request[r].warning]

RecordFinal(r) ==
    /\ At(r, "final")
    /\ operation' = Final(r)
    /\ warned' = IF request[r].warning
                 THEN warned \cup With(r, "accepted") ELSE warned
    /\ Leave(r)
    /\ UNCHANGED <<batch, timeline, mailed, unrecorded, tally>>

RecordFinalFails(r) ==
    /\ At(r, "final")
    /\ operation' \in Perhaps(operation, Final(r))
    /\ Leave(r)
    /\ Fault
    /\ UNCHANGED <<batch, timeline, history>>

----------------------------------------------------------------------------
\* The collections cron.

Repairable == /\ ~operation.recorded
              /\ operation.status \in {"partial", "accepted", "uncertain"}
              /\ \E b \in Batches : batch[b] = "accepted"

RepairTimelines ==
    /\ Repairable
    /\ Saved(Batches)
    /\ UNCHANGED <<batch, request, work, history, tally>>

Crash(r) ==
    /\ ~At(r, "idle")
    /\ Leave(r)
    /\ Fault
    /\ UNCHANGED <<operation, batch, timeline, history>>

----------------------------------------------------------------------------
Advance(r) ==
    \/ ReserveOperation(r) \/ RecordDelivery(r) \/ SaveTimeline(r) \/ RecordFinal(r)
    \/ \E b \in Batches : \/ TakeBatch(r, b) \/ ReserveBatch(r, b) \/ Mail(r, b)
                          \/ CompleteAccepted(r, b) \/ CompleteOutcome(r, b)

Failure(r) ==
    \/ ReserveOperationFails(r) \/ RecordDeliveryFails(r)
    \/ SaveTimelineFails(r) \/ RecordFinalFails(r) \/ Crash(r)
    \/ \E b \in Batches : \/ ReserveBatchFails(r, b)
                          \/ CompleteAcceptedFails(r, b)
                          \/ CompleteOutcomeFails(r, b)

Next ==
    \/ \E r \in Requests : Submit(r) \/ Advance(r) \/ Failure(r)
    \/ RepairTimelines

Spec == Init /\ [][Next]_vars

\* A request that does not die goes on, and the cron comes back.
Fairness ==
    /\ \A r \in Requests : WF_vars(Advance(r))
    /\ SF_vars(RepairTimelines)

FairSpec == Spec /\ Fairness

----------------------------------------------------------------------------
\* Properties.

\* Requests overlap, since a request that ends may undo the status with which
\* a later one blocks others; a batch is worked on by one of them all the same.
Holds(r, b) == work[r][b] \in Working \ {"reserve"}

OneSenderPerBatch ==
    \A b \in Batches, q, r \in Requests : Holds(q, b) /\ Holds(r, b) => q = r

\* However often the operation is requested, with lost answers, crashes and
\* uncertain outcomes, Graph accepts a batch once, unless the ledger failed to
\* record that it did.
RepeatedMailWasUnrecorded ==
    \A b \in Batches \ unrecorded : mailed[b] <= 1

\* A completed operation (which answers later requests without sending) has
\* mailed every batch, and the timeline speaks only of mailed invoices.
CompletedIsMailed ==
    /\ operation.status = "completed" => \A b \in Batches : mailed[b] > 0
    /\ \A b \in timeline : mailed[b] > 0

\* What the answer of a request promises: "The reminder was sent, but FCOS will
\* repair its collection timeline during reconciliation."
WarnedIsRepaired == \A b \in Batches : b \in warned ~> b \in timeline
=============================================================================
