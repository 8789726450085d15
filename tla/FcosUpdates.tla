----------------------------- MODULE FcosUpdates -----------------------------
(***************************************************************************)
(* The FCOS update emails (api/_fcosUpdates.js and the fcos_update_*       *)
(* functions of the migrations): release notes are imported as items,      *)
(* edited, collected into a draft batch, reviewed and sent by the General  *)
(* Manager, one Microsoft Graph submission for each recipient.             *)
(*                                                                         *)
(* Three kinds of request share the batch rows: a send, a retry, and the   *)
(* preparation listing, which first recovers the batches it takes to be    *)
(* interrupted.  Each is an invocation, `slot', with local variables; a    *)
(* database statement or a Graph request is one step of it, an SQL         *)
(* function one atomic step.  Any invocation may die between two steps.    *)
(*                                                                         *)
(* Abstracted: the wording of an item (its revision stands for it), order  *)
(* and categories in a batch, audit events, roles (a refused caller        *)
(* changes nothing), deactivated users (a draft with one is refused), the  *)
(* claim limit of 100 (a claim takes every eligible row), and refused      *)
(* saves, which change nothing.                                            *)
(***************************************************************************)
EXTENDS Naturals, FiniteSets

CONSTANTS Items, Batches, Recipients,
          Slots,          \* requests that can run at the same time
          GroupSize,      \* Graph submissions in parallel (3 in the code)
          MaxRevision,    \* bound: revisions of an item
          MaxSends,       \* bound: sends and retries in all
          MaxFaults       \* bound: crashes and failed statements

NoBatch == "none"

ASSUME UpdateConstants ==
    /\ NoBatch \notin Batches
    /\ IsFiniteSet(Recipients)
    /\ GroupSize \in Nat \ {0} /\ MaxRevision \in Nat \ {0}
    /\ MaxSends \in Nat /\ MaxFaults \in Nat

VARIABLES
    items,      \* fcos_update_items: status, assigned batch, revision
    edit,       \* an administrator's item request between read and write
    batches,    \* fcos_update_batches with batch items and recipients
    page,       \* the draft as the General Manager's page shows it
    rows,       \* fcos_update_deliveries: status of each recipient's row
    recent,     \* batches with send_started_at in the last 15 minutes
    slot,       \* the invocations and their local variables
    call,       \* Graph submissions of each invocation
    accepted,   \* history: messages Graph accepted, by batch and recipient
    confirmed,  \* history: repeated submissions a person agreed to
    reviewed,   \* history: what the General Manager had on the page
    overlapped, \* history: batches settled while another request sent them
    sends, faults

vars == <<items, edit, batches, page, rows, recent, slot, call, accepted,
          confirmed, reviewed, overlapped, sends, faults>>
drafting == <<items, edit, batches, page, reviewed>>
history  == <<accepted, confirmed, reviewed, overlapped>>
tally    == <<sends, faults>>

ItemStatuses  == {"absent", "Pending", "Skipped", "Sent"}
BatchStatuses == {"absent", "Draft", "Sending", "Sent", "PartialFailure",
                  "Cancelled"}
RowStatuses   == {"absent", "Pending", "Sending", "Sent", "Failed",
                  "Uncertain"}
Answers       == {"accepted", "uncertain", "rejected", "senderFailure"}
Edits         == {"save", "skip", "restore", "sync"}
Steps         == {"idle", "restart", "count", "claim", "deliver", "stop",
                  "finalize", "reply", "uncertain", "failed", "settle",
                  "done"}

Content == [rev: 0..MaxRevision, items: [Items -> 0..MaxRevision],
            to: SUBSET Recipients]
NoEdit == [op |-> "none"]
NoContent == [rev |-> 0, items |-> [i \in Items |-> 0], to |-> {}]
NoPage == [batch |-> NoBatch, content |-> NoContent]
Idle == [at |-> "idle", kind |-> "send", batch |-> NoBatch, want |-> {},
         left |-> 0, todo |-> {}, wave |-> {}, senderFailed |-> FALSE]
SlotType == [at: Steps, kind: {"send", "retry", "recovery"},
             batch: Batches \cup {NoBatch},
             want: SUBSET {"Pending", "Failed", "Uncertain"},
             left: 0..Cardinality(Recipients), todo: SUBSET Recipients,
             wave: SUBSET Recipients, senderFailed: BOOLEAN]

TypeOK ==
    /\ items \in [Items -> [status: ItemStatuses,
                            batch: Batches \cup {NoBatch},
                            rev: 0..MaxRevision]]
    /\ edit = NoEdit \/ edit \in [op: Edits, item: Items, rev: 0..MaxRevision]
    /\ batches \in [Batches -> [status: BatchStatuses, content: Content]]
    /\ page \in [batch: Batches \cup {NoBatch}, content: Content]
    /\ rows \in [Batches -> [Recipients -> RowStatuses]]
    /\ recent \subseteq Batches
    /\ slot \in [Slots -> SlotType]
    /\ call \in [Slots -> [Recipients -> {"none", "due"} \cup Answers]]
    /\ accepted \in [Batches -> [Recipients -> Nat]]
    /\ confirmed \in [Batches -> [Recipients -> Nat]]
    /\ reviewed \in [Batches -> Content]
    /\ overlapped \subseteq Batches
    /\ sends \in 0..MaxSends /\ faults \in 0..MaxFaults

NoCalls == [r \in Recipients |-> "none"]

Init ==
    /\ items = [i \in Items |->
                  [status |-> "absent", batch |-> NoBatch, rev |-> 0]]
    /\ edit = NoEdit
    /\ batches = [b \in Batches |-> [status |-> "absent", content |-> NoContent]]
    /\ page = NoPage
    /\ rows = [b \in Batches |-> [r \in Recipients |-> "absent"]]
    /\ recent = {}
    /\ slot = [s \in Slots |-> Idle]
    /\ call = [s \in Slots |-> NoCalls]
    /\ accepted = [b \in Batches |-> [r \in Recipients |-> 0]]
    /\ confirmed = [b \in Batches |-> [r \in Recipients |-> 0]]
    /\ reviewed = [b \in Batches |-> NoContent]
    /\ overlapped = {}
    /\ sends = 0 /\ faults = 0

----------------------------------------------------------------------------
\* Items.  Every write of an item raises its revision.

Bump(i) == items[i].rev + 1
Free(i) == items[i].status = "Pending" /\ items[i].batch = NoBatch

\* A release note that is not stored yet becomes a Pending item.
Import(i) ==
    /\ items[i].status = "absent"
    /\ items' = [items EXCEPT ![i].status = "Pending", ![i].rev = 1]
    /\ UNCHANGED <<edit, batches, page, rows, recent, slot, call, history, tally>>

\* What a request requires of the item it reads ...
MayEdit(op, i) ==
    \/ op \in {"save", "skip"} /\ Free(i)
    \/ op = "restore" /\ items[i].status = "Skipped"
    \/ op = "sync" /\ items[i].status # "absent"

\* ... and what it then writes, when the revision is still the one it read.
Edited(op, i) ==
    CASE op = "skip"    -> [items[i] EXCEPT !.status = "Skipped", !.rev = Bump(i)]
      [] op = "restore" -> [items[i] EXCEPT !.status = "Pending", !.rev = Bump(i)]
      [] OTHER          -> [items[i] EXCEPT !.rev = Bump(i)]

Unchanged(e) == items[e.item].rev = e.rev
MayWrite(e) == Unchanged(e) /\ (e.op = "save" => Free(e.item))

ReadItem(op, i) ==
    /\ edit = NoEdit
    /\ MayEdit(op, i)
    /\ items[i].rev < MaxRevision
    /\ edit' = [op |-> op, item |-> i, rev |-> items[i].rev]
    /\ UNCHANGED <<items, batches, page, rows, recent, slot, call, history, tally>>

WriteItem ==
    /\ edit # NoEdit
    /\ items' = IF MayWrite(edit)
                THEN [items EXCEPT ![edit.item] = Edited(edit.op, edit.item)]
                ELSE items
    /\ edit' = NoEdit
    /\ UNCHANGED <<batches, page, rows, recent, slot, call, history, tally>>

----------------------------------------------------------------------------
\* Drafts.  A save names the revisions of the batch and of the items that the
\* page showed; it is refused, and changes nothing, unless they are current.

Saved(b) == batches[b].content
InDraft(b) == {i \in Items : batches[b].content.items[i] # 0}

\* Mutant: an item of another draft may be selected.
SelectableAnyway(b, i) == items[i].status = "Pending"

Selectable(b, i) == items[i].status = "Pending" /\ items[i].batch \in {NoBatch, b}

\* Items that a save selects or drops: each is written once.
Touched(b, chosen) == chosen \cup {i \in Items : items[i].batch = b}

SavedItem(b, chosen, i) ==
    [items[i] EXCEPT !.batch = IF i \in chosen THEN b ELSE NoBatch,
                     !.rev = Bump(i)]

SaveBatch(b, chosen, to) ==
    /\ batches[b].status \in {"absent", "Draft"}
    /\ chosen # {} /\ to # {}
    /\ \A i \in chosen : Selectable(b, i)
    /\ \A i \in Touched(b, chosen) : items[i].rev < MaxRevision
    /\ Saved(b).rev < MaxRevision
    /\ items' = [i \in Items |-> IF i \in Touched(b, chosen)
                                 THEN SavedItem(b, chosen, i) ELSE items[i]]
    /\ batches' = [batches EXCEPT ![b] =
         [status |-> "Draft",
          content |-> [rev |-> Saved(b).rev + 1,
                       items |-> [i \in Items |-> IF i \in chosen
                                                  THEN Bump(i) ELSE 0],
                       to |-> to]]]
    /\ UNCHANGED <<edit, page, rows, recent, slot, call, history, tally>>

CancelBatch(b) ==
    /\ batches[b].status = "Draft"
    /\ Saved(b).rev < MaxRevision
    /\ \A i \in Touched(b, {}) : items[i].rev < MaxRevision
    /\ batches' = [batches EXCEPT ![b].status = "Cancelled",
                                  ![b].content.rev = @ + 1]
    /\ items' = [i \in Items |-> IF i \in Touched(b, {}) /\ items[i].status = "Pending"
                                 THEN SavedItem(b, {}, i) ELSE items[i]]
    /\ UNCHANGED <<edit, page, rows, recent, slot, call, history, tally>>

OpenBatch(b) ==
    /\ batches[b].status = "Draft"
    /\ page' = [batch |-> b, content |-> Saved(b)]
    /\ UNCHANGED <<items, edit, batches, rows, recent, slot, call, history, tally>>

----------------------------------------------------------------------------
\* Invocations.

Running(s) == slot[s].at # "idle"
Goto(s, step) == slot' = [slot EXCEPT ![s].at = step]
Begin(s, b, kind, step, want) ==
    /\ slot[s] = Idle
    /\ sends < MaxSends \/ kind = "recovery"
    /\ sends' = IF kind = "recovery" THEN sends ELSE sends + 1
    /\ slot' = [slot EXCEPT ![s] = [Idle EXCEPT !.at = step, !.kind = kind,
                                                !.batch = b, !.want = want]]

\* Mutant: the page may be older than the draft.
StartableAnyRevision(b) ==
    /\ batches[b].status = "Draft"
    /\ page.batch = b
    /\ Cardinality(page.content.to) = Cardinality(Saved(b).to)
    /\ \A i \in InDraft(b) : /\ items[i].status = "Pending"
                             /\ items[i].batch = b
                             /\ items[i].rev = Saved(b).items[i]
    /\ \A r \in Recipients : rows[b][r] = "absent"

\* start_fcos_update_saved_delivery checks the saved draft again.
Startable(b) ==
    /\ batches[b].status = "Draft"
    /\ page.batch = b
    /\ page.content.rev = Saved(b).rev
    /\ Cardinality(page.content.to) = Cardinality(Saved(b).to)
    /\ \A i \in InDraft(b) : /\ items[i].status = "Pending"
                             /\ items[i].batch = b
                             /\ items[i].rev = Saved(b).items[i]
    /\ \A r \in Recipients : rows[b][r] = "absent"

Send(s, b) ==
    /\ Startable(b)
    /\ Begin(s, b, "send", "count", {"Pending"})
    /\ batches' = [batches EXCEPT ![b].status = "Sending"]
    /\ rows' = [rows EXCEPT ![b] = [r \in Recipients |->
                   IF r \in Saved(b).to THEN "Pending" ELSE "absent"]]
    /\ recent' = recent \cup {b}
    /\ reviewed' = [reviewed EXCEPT ![b] = page.content]
    /\ page' = NoPage
    /\ UNCHANGED <<items, edit, call, accepted, confirmed, overlapped, faults>>

\* A retry of the Failed rows, or, with a confirmation, of the Uncertain ones.
Retry(s, b, status) ==
    /\ batches[b].status = "PartialFailure"
    /\ \E r \in Recipients : rows[b][r] = status
    /\ Begin(s, b, "retry", "restart", {status})
    /\ UNCHANGED <<drafting, rows, recent, call, accepted, confirmed,
                   overlapped, faults>>

\* The retry takes the batch, unless another request took it since.  It does
\* not renew send_started_at.
Restart(s) ==
    /\ slot[s].at = "restart"
    /\ LET b == slot[s].batch IN
         IF batches[b].status = "PartialFailure"
         THEN /\ batches' = [batches EXCEPT ![b].status = "Sending"]
              /\ Goto(s, "count")
         ELSE /\ slot' = [slot EXCEPT ![s] = Idle]
              /\ UNCHANGED batches
    /\ UNCHANGED <<items, edit, page, rows, recent, call, history, tally>>

Eligible(s) == {r \in Recipients : rows[slot[s].batch][r] \in slot[s].want}

Count(s) ==
    /\ slot[s].at = "count"
    /\ LET n == Cardinality(Eligible(s)) IN
         slot' = [slot EXCEPT ![s].left = n,
                              ![s].at = IF n = 0 THEN "finalize" ELSE "claim"]
    /\ UNCHANGED <<drafting, rows, recent, call, accepted, confirmed,
                   overlapped, tally>>

\* claim_fcos_update_deliveries: it does not look at the batch.
Claim(s) ==
    /\ slot[s].at = "claim"
    /\ LET b == slot[s].batch  n == Cardinality(Eligible(s)) IN
         /\ rows' = [rows EXCEPT ![b] = [r \in Recipients |->
                        IF r \in Eligible(s) THEN "Sending" ELSE rows[b][r]]]
         /\ confirmed' = [confirmed EXCEPT ![b] = [r \in Recipients |->
                IF r \in Eligible(s) /\ slot[s].want = {"Uncertain"}
                THEN confirmed[b][r] + 1 ELSE confirmed[b][r]]]
         /\ slot' = [slot EXCEPT ![s].at = IF n = 0 THEN "finalize" ELSE "deliver",
                                 ![s].todo = Eligible(s), ![s].wave = {},
                                 ![s].left = IF n > @ THEN 0 ELSE @ - n]
    /\ UNCHANGED <<drafting, recent, call, accepted, overlapped, tally>>

----------------------------------------------------------------------------
\* Delivery of the claimed rows: the first alone, the others in groups.

WaveDone(s) == slot[s].at = "deliver" /\ call[s] = NoCalls

NextWave(s) ==
    /\ WaveDone(s) /\ slot[s].todo # {} /\ ~slot[s].senderFailed
    /\ LET size == IF slot[s].wave = {} THEN 1 ELSE GroupSize IN
         \E wave \in SUBSET slot[s].todo :
            /\ Cardinality(wave) = IF Cardinality(slot[s].todo) < size
                                   THEN Cardinality(slot[s].todo) ELSE size
            /\ slot' = [slot EXCEPT ![s].wave = wave, ![s].todo = @ \ wave]
            /\ call' = [call EXCEPT ![s] = [r \in Recipients |->
                          IF r \in wave THEN "due" ELSE "none"]]
    /\ UNCHANGED <<drafting, rows, recent, accepted, confirmed, overlapped, tally>>

EndWaves(s) ==
    /\ WaveDone(s)
    /\ slot[s].todo = {} \/ slot[s].senderFailed
    /\ Goto(s, IF slot[s].senderFailed THEN "stop"
               ELSE IF slot[s].left > 0 THEN "claim" ELSE "finalize")
    /\ UNCHANGED <<drafting, rows, recent, call, accepted, confirmed,
                   overlapped, tally>>

\* Graph takes the message or not.  A timeout or a 5xx leaves that open.
Post(s, r) ==
    /\ call[s][r] = "due"
    /\ \E answer \in Answers, taken \in BOOLEAN :
         /\ answer = "accepted" => taken
         /\ answer \in {"rejected", "senderFailure"} => ~taken
         /\ call' = [call EXCEPT ![s][r] = answer]
         /\ accepted' = IF taken
                        THEN [accepted EXCEPT ![slot[s].batch][r] = @ + 1]
                        ELSE accepted
    /\ UNCHANGED <<drafting, rows, recent, slot, confirmed, overlapped, tally>>

\* Mutant: an answer that does not come is taken for success ...
OutcomeAssumed(answer) == IF answer \in {"accepted", "uncertain"} THEN {"Sent"}
                          ELSE {"Failed"}

\* ... or for a refusal.
OutcomeRefused(answer) == IF answer = "accepted" THEN {"Sent"} ELSE {"Failed"}

\* deliverOne writes the outcome to the row, if the row is still Sending.
Outcome(answer) == CASE answer = "accepted"  -> {"Sent", "Uncertain"}
                     [] answer = "uncertain" -> {"Uncertain"}
                     [] OTHER                -> {"Failed"}

Answered(s, r) == call[s][r] \in Answers

\* The last call of a request that has replied ends the invocation.
AfterCall(s, calls, step, failed) ==
    IF step = "done" /\ calls = NoCalls THEN Idle
    ELSE [slot[s] EXCEPT !.at = step, !.senderFailed = @ \/ failed]

Record(s, r) ==
    /\ Answered(s, r)
    /\ LET b == slot[s].batch
           calls == [call[s] EXCEPT ![r] = "none"]
       IN /\ \E status \in Outcome(call[s][r]) :
               rows' = IF rows[b][r] = "Sending"
                       THEN [rows EXCEPT ![b][r] = status] ELSE rows
          /\ call' = [call EXCEPT ![s] = calls]
          /\ slot' = [slot EXCEPT ![s] =
                 AfterCall(s, calls, slot[s].at, call[s][r] = "senderFailure")]
    /\ UNCHANGED <<drafting, recent, accepted, confirmed, overlapped, tally>>

\* The write fails: deliverOne throws, and the catch block takes over while
\* the other submissions of the group go on.
RecordFails(s, r) ==
    /\ Answered(s, r)
    /\ faults < MaxFaults /\ faults' = faults + 1
    /\ LET calls == [call[s] EXCEPT ![r] = "none"]
           step == IF slot[s].at = "deliver" THEN "uncertain" ELSE slot[s].at
       IN /\ call' = [call EXCEPT ![s] = calls]
          /\ slot' = [slot EXCEPT ![s] = AfterCall(s, calls, step, FALSE)]
    /\ UNCHANGED <<drafting, rows, recent, accepted, confirmed, overlapped,
                   sends>>

\* The rows of b in one status move to another.
Move(b, from, to) ==
    rows' = [rows EXCEPT ![b] = [r \in Recipients |->
               IF rows[b][r] = from THEN to ELSE rows[b][r]]]

\* stopForSenderFailure
Stop(s) ==
    /\ slot[s].at = "stop"
    /\ Move(slot[s].batch, "Sending", "Failed")
    /\ Goto(s, "finalize")
    /\ UNCHANGED <<drafting, recent, call, accepted, confirmed, overlapped, tally>>

\* markInterruptedFcosUpdateDeliveries, by the listing or by a catch block
Working(t, b) ==
    /\ slot[t].batch = b /\ slot[t].kind # "recovery"
    /\ \/ slot[t].at \in {"count", "claim", "deliver", "stop"}
       \/ call[t] # NoCalls

Overlap(s) ==
    overlapped \cup {b \in {slot[s].batch} : \E t \in Slots \ {s} : Working(t, b)}

MarkUncertain(s) ==
    /\ slot[s].at = "uncertain"
    /\ Move(slot[s].batch, "Sending", "Uncertain")
    /\ overlapped' = Overlap(s)
    /\ Goto(s, "failed")
    /\ UNCHANGED <<drafting, recent, call, accepted, confirmed, tally>>

MarkFailed(s) ==
    /\ slot[s].at = "failed"
    /\ Move(slot[s].batch, "Pending", "Failed")
    /\ Goto(s, "settle")
    /\ UNCHANGED <<drafting, recent, call, accepted, confirmed, overlapped, tally>>

Finished(s) == IF call[s] = NoCalls THEN Idle ELSE [slot[s] EXCEPT !.at = "done"]

\* finalize_fcos_update_delivery
Rows(b) == {r \in Recipients : rows[b][r] # "absent"}

\* Mutant: an uncertain row is still open ...
SummaryOpen(b) ==
    IF \E r \in Rows(b) : rows[b][r] \in {"Pending", "Sending", "Uncertain"}
    THEN "Sending"
    ELSE IF Rows(b) # {} /\ \A r \in Rows(b) : rows[b][r] = "Sent" THEN "Sent"
    ELSE "PartialFailure"

\* ... or gives the batch a status of its own.
SummaryByRow(b) ==
    IF \E r \in Rows(b) : rows[b][r] = "Uncertain" THEN "Uncertain"
    ELSE IF \A r \in Rows(b) : rows[b][r] = "Sent" THEN "Sent"
    ELSE "PartialFailure"

Summary(b) ==
    IF \E r \in Rows(b) : rows[b][r] \in {"Pending", "Sending"} THEN "Sending"
    ELSE IF Rows(b) # {} /\ \A r \in Rows(b) : rows[b][r] = "Sent" THEN "Sent"
    ELSE "PartialFailure"

Finalize(s) ==
    /\ slot[s].at \in {"finalize", "settle"}
    /\ LET b == slot[s].batch IN
         /\ batches' = [batches EXCEPT ![b].status = Summary(b)]
         /\ items' = [i \in Items |->
                IF /\ Summary(b) = "Sent"
                   /\ items[i].batch = b /\ items[i].status = "Pending"
                THEN [items[i] EXCEPT !.status = "Sent"] ELSE items[i]]
         /\ slot' = [slot EXCEPT ![s] =
                IF @.at = "finalize" THEN [@ EXCEPT !.at = "reply"]
                ELSE Finished(s)]
    /\ overlapped' = Overlap(s)
    /\ UNCHANGED <<edit, page, reviewed, rows, recent, call, accepted, confirmed,
                   tally>>

\* The batch is loaded for the answer, still inside the try block.
Reply(s) ==
    /\ slot[s].at = "reply"
    /\ slot' = [slot EXCEPT ![s] = Finished(s)]
    /\ UNCHANGED <<drafting, rows, recent, call, accepted, confirmed,
                   overlapped, tally>>

----------------------------------------------------------------------------
\* The preparation listing recovers batches older than 15 minutes.  A send
\* lives for 5 (maxDuration); a retry starts whenever it is asked for.

Age(b) ==
    /\ b \in recent
    /\ \A s \in Slots : ~(slot[s].kind = "send" /\ slot[s].batch = b)
    /\ recent' = recent \ {b}
    /\ UNCHANGED <<drafting, rows, slot, call, accepted, confirmed, overlapped,
                   tally>>

Recover(s, b) ==
    /\ batches[b].status = "Sending" /\ b \notin recent
    /\ Begin(s, b, "recovery", "uncertain", {})
    /\ UNCHANGED <<drafting, rows, recent, call, accepted, confirmed,
                   overlapped, faults>>

----------------------------------------------------------------------------
\* Failures.

\* A statement of the invocation fails.  Inside the try block the catch block
\* marks the batch interrupted, and gives up when that fails too.
DbFails(s) ==
    /\ faults < MaxFaults /\ faults' = faults + 1
    /\ \/ /\ slot[s].at \in {"count", "claim", "stop", "finalize", "reply"}
          /\ Goto(s, "uncertain")
       \/ /\ \/ slot[s].at \in {"restart", "uncertain", "failed", "settle"}
             \/ slot[s].at = "count" /\ slot[s].kind = "send"
          /\ slot' = [slot EXCEPT ![s] = Finished(s)]
    /\ UNCHANGED <<drafting, rows, recent, call, accepted, confirmed,
                   overlapped, sends>>

Crash(s) ==
    /\ Running(s)
    /\ faults < MaxFaults /\ faults' = faults + 1
    /\ slot' = [slot EXCEPT ![s] = Idle]
    /\ call' = [call EXCEPT ![s] = NoCalls]
    /\ UNCHANGED <<drafting, rows, recent, accepted, confirmed, overlapped,
                   sends>>

----------------------------------------------------------------------------
Advance(s) ==
    \/ Restart(s) \/ Count(s) \/ Claim(s) \/ NextWave(s) \/ EndWaves(s)
    \/ Stop(s) \/ MarkUncertain(s) \/ MarkFailed(s) \/ Finalize(s) \/ Reply(s)
    \/ \E r \in Recipients : Post(s, r) \/ Record(s, r)

Drafting ==
    \/ \E i \in Items : Import(i)
    \/ \E i \in Items, op \in Edits : ReadItem(op, i)
    \/ WriteItem
    \/ \E b \in Batches, chosen \in SUBSET Items, to \in SUBSET Recipients :
          SaveBatch(b, chosen, to)
    \/ \E b \in Batches : CancelBatch(b) \/ OpenBatch(b)

Next ==
    \/ Drafting
    \/ \E s \in Slots, b \in Batches : Send(s, b)
    \/ \E s \in Slots, b \in Batches, status \in {"Failed", "Uncertain"} :
          Retry(s, b, status)
    \/ \E s \in Slots : Advance(s)
    \/ \E b \in Batches : Age(b)
    \/ \E s \in Slots, b \in Batches : Recover(s, b)
    \/ \E s \in Slots, r \in Recipients : RecordFails(s, r)
    \/ \E s \in Slots : DbFails(s) \/ Crash(s)

Spec == Init /\ [][Next]_vars

\* A request that does not die goes on; people open the preparation listing
\* again and again, and 15 minutes pass.
Fairness ==
    /\ \A s \in Slots : WF_vars(Advance(s))
    /\ \A b \in Batches : WF_vars(Age(b)) /\ WF_vars(\E s \in Slots : Recover(s, b))

FairSpec == Spec /\ Fairness

----------------------------------------------------------------------------
\* Properties.

Mailed(b) == \E r \in Recipients : accepted[b][r] > 0

\* A row says Sent only when Graph accepted a message for it, and a batch says
\* Sent only when all its rows do: no answer of a request that lost its row
\* (claimed again by a retry, or marked by a recovery) makes it so.
SentIsAccepted ==
    \A b \in Batches :
       /\ \A r \in Recipients : rows[b][r] = "Sent" => accepted[b][r] > 0
       /\ batches[b].status = "Sent" =>
             /\ Rows(b) # {} /\ \A r \in Rows(b) : rows[b][r] = "Sent"
             /\ \A i \in InDraft(b) : items[i].status = "Sent"

\* What Graph received is what the General Manager had on the page, however
\* the items, the draft and its recipients were edited, imported again,
\* skipped or cancelled between opening the page and sending.
MailedIsReviewed ==
    \A b \in Batches : Mailed(b) =>
       /\ reviewed[b] = Saved(b)
       /\ \A r \in Recipients : accepted[b][r] > 0 => r \in reviewed[b].to

\* An item is mailed in one batch at most, and never once it was skipped: the
\* requests that assign, skip and restore items read before they write.
OneMailPerItem ==
    \A b \in Batches : Mailed(b) =>
       \A i \in InDraft(b) :
          /\ items[i].status # "Skipped" /\ items[i].batch = b
          /\ \A c \in Batches \ {b} : Mailed(c) => i \notin InDraft(c)

\* A row that may be retried without a confirmation, a Failed one, was not
\* accepted before, unless a person already agreed to a second message or the
\* batch was taken for interrupted while a request was still at work on it.
FailedIsUnsent ==
    \A b \in Batches \ overlapped, r \in Recipients :
       rows[b][r] = "Failed" /\ confirmed[b][r] = 0 => accepted[b][r] = 0

\* "Confirm that uncertain deliveries may be sent a second time."
SecondMailIsConfirmed ==
    \A b \in Batches, r \in Recipients :
       accepted[b][r] <= 1 + confirmed[b][r]

\* A batch does not stay in Sending, whatever request of it dies or fails.
SendingSettles ==
    \A b \in Batches :
       batches[b].status = "Sending" ~> batches[b].status # "Sending"
=============================================================================
