# FCOS: a TLA+ model of its long-running workflows

FCOS is a back office: a React application and serverless functions (`src/api`)
over Supabase, Salesforce, Xero, Microsoft Graph and Vercel. Most of its code
reads and computes. What is hard in it are the workflows that change a *remote*
system in several steps from functions that may be killed, run twice, or lose
an answer. Those are modelled here in TLA+, checked with TLC on small
instances, and proved with TLAPS where a theorem for every size is within
reach.

## 1. The system

### Components

| Component | State | Operations | Talks to |
|---|---|---|---|
| Xero financial sync (`api/_xeroFinancialSync.js`) | runs, items and document mappings in Supabase | preview, authorise, run (start, re-read, post in groups, checkpoint, finish) | Salesforce and Xero by HTTP; three SQL functions with a compare and swap on the run's revision |
| Xero contact sync (`api/_xeroContactSync.js`) | OAuth tokens, name cache, webhook events | refresh, create contacts, receive webhooks | Xero; lends its connection to the financial sync |
| Email Router outbox (`api/_emailRouterCore.js`) | `mail_actions`, `mail_action_outbox` | reserve, draft, claim, send, reconcile, file, two retries by people | Microsoft Graph; entered from the action request, the cron and status polls |
| Email Router synchronisation (`api/_emailRouterBackgroundSync.js`) | delta cursors, subscriptions, webhook log | notify, coalesce, sync pages | Microsoft Graph; feeds the messages the outbox acts on |
| Email Router configuration and learning | presets, folders, suggestions | CRUD, scoring, a job queue | the two above |
| Rapid release engine (`scripts/lib/rapid-release`) | an append-only journal in GitHub Deployments | stage, smoke, promote, observe, roll back | Vercel, GitHub, the production database |
| Coordinated release | evidence documents and locks | qualify, admit, release | GitHub workflows; retired by the rapid engine's handover |
| FCOS update emails (`api/_fcosUpdates.js`) | items, draft batches, a delivery row per recipient | import, edit, save, cancel, send, retry, recover | Microsoft Graph; entered from pages and from the preparation listing |
| Payment reminders (`api/functions/[name].js`, `api/_paymentReminderOperations.js`) | a ledger of operations and batches, the collection timeline | reserve, mail, complete, save the timeline, repair | Microsoft Graph; the page repeats an operation, the collections cron repairs it |
| Work notifications, commitments | notification rows keyed by what they are about | produce, deduplicate, deliver | operational mail |
| Operational mail (`api/_operationalMail.js`) | a receipt per send | send | Microsoft Graph |
| FCUNO identity federation (`api/_fcunoIdentityFederation.js`) | the row of each identity, a transaction per event, profiles, an audit | synchronise, claim, provision, admit | FCUNO sends events; every authenticated handler asks it |
| Portal (`api/_portal.js`) | sessions of linked applications | log out | FCUNO |
| Runtime cache (`api/_runtimeCache.js`) | entries, in-flight loads | get, share a load, invalidate | its callers |
| Collaboration, tasks, account managers, growth, master contracts, special terms, variable charges, disputes, unofficial compensation | rows with revisions | reviewed edits | Supabase, Salesforce |
| Cashflow reconciliation, hedge desk and settlement | claims, settlements | match, post | Salesforce |
| Market intelligence and Drive | reports, a queue | import, parse | Google Drive |
| Dashboards, credit statements, payment classification | none | pure computation | Salesforce |
| Dispatcher, policies, deployment gates | none | route, refuse | every handler |
| Salesforce package, React interface | not part of the serverless code | | |

`PROJECT.json` lists each with its files and whether it is modelled.

### What is hard, and what makes each component correct

* **Xero financial sync.** Two invocations may run the same revision; a POST
  whose answer is lost may be applied, even later; each row has two database
  writes and a remote one between which the invocation may die; Salesforce and
  Xero users edit documents between preview, re-read and write. Correct means:
  no second active draft for a row however often the run is repeated, one
  writer per run, no row checkpointed without its durable identity, a completed
  run has no row left out, an update lands on the version that was reviewed,
  and a started run comes to an end.
* **Email Router outbox.** The same outbox entry is processed by a cron, by the
  submission that continues after the request, and by every status poll; a send
  to Graph is not idempotent. Correct means: one submission per review by a
  person, nothing confirmed or filed before the message is in Sent Items,
  nothing sent is forgotten.
* **Rapid release.** Every provider call is bracketed by journal records, so
  that a new job can tell what a dead one did. Correct means: no operation is
  submitted twice, no two releases have an operation in doubt at once, only an
  accepted and approved build becomes production, a newer production is never
  rolled back over.
* **Xero connection** (planned): a rotating refresh token is used by several
  invocations at once; only one pair is valid.
* **FCOS update emails.** A send, its retries and the recovery of what looks
  interrupted work on the same rows; a page may be older than the draft it
  sends. Correct means: what is mailed is what was reviewed, an item is mailed
  in one batch, *Sent* means accepted, a row that may be retried without asking
  was not accepted, and no batch stays in *Sending*.
* **Payment reminders.** The page repeats an operation whose answer it did not
  get, while the first request is still at work. Correct means: one sender per
  batch, no message twice unless the ledger could not record the first, and a
  completed operation has mailed every batch.
* **FCUNO identities.** Events overtake and repeat each other, and several
  accounts may sign in with one identity at once. Correct means: the revision
  never goes back, the owner never changes, only the owner is let in and only
  its profile written, and an event is acknowledged only when FCOS holds it.
* **Notifications** (planned): one message per recipient and subject.
* **Runtime cache** (planned): a load that started before an invalidation must
  not be served after it.

## 2. Modules

| Module | Models | Kind |
|---|---|---|
| `XeroFinancialSync` | the reviewed accounting batch | detailed |
| `XeroFinancialSyncProofs` | its theorems | proofs |
| `XeroExecutionProofs` | its theorems about what an invocation has in hand | proofs |
| `XeroDraftProofs` | its theorem about what the requests under way create | proofs |
| `MCXeroFinancialSync` | instances | TLC |
| `EmailDelivery` | what the outbox promises for one draft | abstract |
| `EmailOutbox` | how the outbox keeps it | detailed, implements `EmailDelivery` |
| `EmailOutboxProofs` | its theorems, the refinement among them | proofs |
| `MCEmailOutbox` | instances | TLC |
| `RapidRelease` | the release engine, its journal and Vercel | detailed |
| `RapidReleaseProofs` | its theorems | proofs |
| `MCRapidRelease` | instances | TLC |
| `FcosUpdates` | release notes from their import to the mail | detailed |
| `FcosUpdatesProofs` | its theorems | proofs |
| `MCFcosUpdates` | instances | TLC |
| `PaymentReminders` | one reminder operation, its requests and its repair | detailed |
| `PaymentRemindersProofs` | its theorems | proofs |
| `MCPaymentReminders` | instances | TLC |
| `IdentityRegister` | what the federation promises of one identity | abstract |
| `FcunoIdentity` | how its deliveries and sign-ins keep it | detailed, implements `IdentityRegister` |
| `FcunoIdentityProofs` | its theorems, the refinement among them | proofs |
| `MCFcunoIdentity` | instances | TLC |

The components do not share state, so each module stands alone; the
compositions are the two refinements.

### XeroFinancialSync

*State.* `run`, `item` and `mapping` are the three tables; `pc` and `job` are
the program counter and the local variables of each concurrent invocation of
`xeroFinancialSyncRun`; `source`, `xero`, `wire` and `replies` are the two
remote systems, with the requests Xero has received and the answers it keeps
under each idempotency key. `touched` is a history variable: what changed in
Xero since an invocation's re-read.

*Actions.* Every SQL function, every single statement and every HTTP call is an
action; what the code does between two of them is part of the preceding one.
`StartRun` and `FinishedRun` are the compare-and-swap functions of the
migration; `ReadSalesforce` and `ReadXero` are the two snapshots read in
parallel (in either order); `AssertStillCurrent` compares; `LinkRow`,
`PostBatch`, `PostAnswered`, `UpsertMapping`, `CheckpointRow` and `SettleFailed`
are the loop over groups, collections and rows, in the code's order; `FailRun`
is the catch block. Failures are actions of their own, bounded by `MaxFaults`
and selected by `Faults`.

*Data.* A document's fingerprint is its version number; `updatedDateUTC` is a
counter; the evidence `supportingMatch` compares is one value, `SupportKey`,
which two documents may share. The classification is the code's: stored link,
then number, then the only supporting match; blocked rows; protected documents.
`blockers` stands for the exceptions that depend on a document's own data.

*`RpcHasCatch`.* The catch block calls `client.rpc(...).catch(...)` on a call
that was not awaited. Whether the result has a `catch` method depends on the
client library; the constant states it, and both cases are run. For safety the
case FALSE adds nothing: a run that is not finished is what a failed finish
(fault `finish`) leaves, too.

*Assumed.* The preview reads both systems at one moment; Xero never forgets an
idempotency key; Xero applies a request at most once; identities are not reused.

### EmailOutbox

*State.* One action row (`state`, `mode`, `draftId`, `filing`), its outbox row,
the outgoing message and the source message in Graph, and the send requests
whose sender has given up (`late`). `starter` and `writes` follow
`startEmailRouterAction` and its two parallel writes; `pc` and `job` follow each
worker.

*Workers.* A worker is one invocation at one entry: the cron, the background
submission, a status poll or a person's retry. It takes a snapshot of the joined
row (`ReadEntry`), and every later decision uses that snapshot, as the code's
`relation` does; only the claim looks at the row again. The background
submission does not confirm what it submitted (`confirm = FALSE`).

*Actions.* `Claim`, `MarkUncertain`, `PostSend`, `SendAccepted | SendRefused |
SendLost`, `RecordOutboxSubmitted`, `RecordSubmitted`, `RecordUnknown` are the
submission; `CheckSent`, `BeginFiling`, `FileSource`, `RecordFiled`,
`RecordFilingFailed`, `ReopenOutbox`, `ConfirmAction`, `ConfirmOutbox` the
reconciliation; `RequestReview .. Redraft` and `RequestFilingRetry ..
RestartFiling` the two retries. `SetOutbox` is an update by key: without a row
it does nothing, and the table's CHECK on `completed_at` refuses it on a
confirmed row.

*Abstracted.* Time: an entry that is due may be read at any moment, and a delay
is a matter of scheduling. Recipients and content. Attempt counts, failure
codes, alerts. A reply is an action whose mode is `keep_current`. Statements of
a killed worker are taken to have landed or not before it was killed, except
the starter's two parallel writes and its sends, which may land later.

*One action.* Two actions interact only through the limit and the order of the
processor's query (and through sharing one source message); both are left out,
so TLC runs one action and any number of them behaves as copies.

### RapidRelease

*State.* `journal` is the set of records of each release in GitHub, `production`
and `built` what Vercel serves and has staged; `posting` and `calls` are the
requests of either whose sender has given up and that may be applied later.
`previous` is the baseline in each manifest. `job` is the job that runs, with
its program counter and local variables; `seen` is the copy of the journal that
`promoteRelease` and `stageRelease` read once and use later. `submitted` is a
history variable: how often each call was made.

*One job at a time.* The jobs that stage and promote are in one concurrency
group of the workflow (`fcos-production-release`), so two of them never run at
once; what outlives a job is its requests and what other people do.

*Actions.* `Check` is the entry of `rapidReleaseCommand`; `StageRelease ..
StageReady` are `stageRelease`; `Approve .. CheckBaseline`, `Observe`,
`Complete`, `Doubt` and `VerifyRollback` are `promoteRelease`;
`BeginOperation`, `Submit | SubmitFails`, `AfterOperation` are
`executeOperation`. `journal.append` is a step of its own (`Append`,
`AppendRefused`, `AppendFails`), entered with the event and the label where the
code goes on. `Throw` says where an exception is caught: the catch block of the
observation, or the obstacle handler of `rapidReleaseMain`, which writes a
record too (`Obstacle`).

*Data.* A record is its position and its event; it also names the job that
wrote it where its contents differ from one attempt to the next, since equal
contents are one record for `validateChain`. Build, smoke, approval and
ownership checks pass or throw. The adapter of the prerequisites is external
(none is registered). No repair recipe is registered either, so the obstacle
handler only records.

### FcosUpdates

*State.* `items` and `batches` are the tables of items and of drafts with their
contents, `rows` the delivery rows, `page` the draft as the General Manager's
page shows it, `edit` an item request between its read and its write. `slot` is
one invocation: a send, a retry or a recovery, with its program counter, the
rows it claimed and the group it is mailing; `call` its Graph submissions in
parallel. `recent` are the batches whose `send_started_at` is younger than the
recovery's cutoff. `accepted`, `confirmed`, `reviewed` and `overlapped` are
history: what Graph took, which second messages a person agreed to, what was on
the page, and which batches were settled while another request worked on them.

*Actions.* `Import`, `ReadItem`, `WriteItem`, `SaveBatch`, `CancelBatch`,
`OpenBatch` are the preparation. `Send` is the SQL function that starts a
delivery, `Retry` and `Restart` the two halves of a retry; `Count`, `Claim`,
`NextWave`, `Post`, `Record`, `EndWaves`, `Stop`, `Finalize`, `Reply` are the
delivery, `MarkUncertain`, `MarkFailed` and the second use of `Finalize` what
the catch blocks and the recovery do. A failed write of one outcome
(`RecordFails`) starts the catch block while the other submissions of the group
go on, as `Promise.all` has it.

*Time.* `Age` lets 15 minutes pass for a batch. It waits for a *send* of it to
end, since `send_started_at` is set by the send and a function lives for five
minutes (`maxDuration`); it does not wait for a retry, which does not renew it.

*Abstracted.* The wording of an item (its revision stands for it), the order
and categories in a batch, the audit, roles, and the limit of 100 rows a claim
takes.

### PaymentReminders

*State.* `operation`, `batch` and `timeline` are the ledger and the collection
events; `request` and `work` say where each request is, and where it is with
each batch, since up to `Runners` of them are under way at once. `mailed`,
`unrecorded` and `warned` are history.

*Actions.* Each SQL function of the ledger is one step, each submission to Graph
another; a ledger call may fail, applied or not (`...Fails`). Faithful to a
detail that matters: when the completion of an accepted batch fails, the catch
block treats the error as one of Graph and records `failed`
(`CompleteAcceptedFails`, `Refused`, `Outcome`). `RepairTimelines` is the
collections cron.

*Abstracted.* The review before the reservation, which reads the invoices,
reconciles their collections and leaves the ledger alone; the request hashes;
wording; the limit of 50 operations of one repair; a batch stands for its invoices. One operation: two
operations have different keys and share no row.

### FcunoIdentity

*State.* `link`, `status`, `profiles` and `projected` are the tables; `pc` and
`job` each delivery of an event, `at` and `visit` each authenticated request of
a linked account. `answered`, `admitted` and `sent` are what FCUNO and the
accounts saw.

*Actions.* Every database call is a step, and any call may fail before or after
it takes effect (`CallFails`, `GoesOn`), outside the try block too (`Dies`).
`Selected` is what the select of `identityLink` returns, which leaves out one
column that `LinkMatchesClaims` compares. `MayReplace` is the trigger of the
migration. `Reserve` merges the insert of a transaction and, on a conflict, the
look at the existing one. A visit decides at the read whether it may enter, and
leaves only after the claim: the code checks the row it read after it claimed.

*Data.* One identity. What an event says is determined by its revision, so a
revision stands for its claims, and instants are small numbers. The instant of
a delivery is its invocation's clock, which nothing orders with the others, so
any is possible. Deployments are the canonical production; tokens verify.

## 3. Runs

| Run | Bounds | Shows |
|---|---|---|
| `xero_retry` | 2 documents with the same evidence, 2 invocations, one run of at most 5 revisions, 2 failures of any kind, 1 edit | the six safety properties hold over two attempts, late requests included |
| `xero_uncaught_finish` | 1 document, 1 invocation, 1 failed read | *violated* (`StartedRunSettles`): a run stays `processing` |
| `email_outbox_races` | 1 action, 2 workers, both modes, 1 review, 1 filing retry, 2 failures of any kind | one post per review, confirmed means sent, refinement of `EmailDelivery` |
| `email_reconciles` | 1 action, both modes, 2 workers, 1 filing retry, 2 lost or refused calls | `SentIsReconciled`: the outbox row is confirmed for good |
| `rapid_resumes` | 2 releases (one with prerequisites and deferred smoke), 4 jobs, 1 failure of any kind, 1 deployment by other means | each call at most once, one release in doubt, only the accepted and approved goes live, over its own baseline |
| `fcos_update_mail` | 1 item, 2 drafts, 2 recipients, 2 invocations, 2 sends or retries, 1 failure, 3 revisions | mailed is reviewed, one mail per item, *Sent* is accepted, *Failed* is not |
| `fcos_update_settles` | 1 item, 1 draft, 2 recipients, 2 invocations, 2 sends or retries, 1 failure, 2 revisions | `SendingSettles` |
| `fcos_update_resends` | 1 recipient, 4 sends or retries, no failure | *violated* (`SecondMailIsConfirmed`): an accepted message is sent again |
| `payment_reminder_ledger` | 2 batches, 3 requests at once, 4 in all, 2 failures or crashes | one sender, repeated mail only where the ledger failed, completed is mailed |
| `payment_reminder_unrepaired` | 2 batches, 2 requests, 1 failure | *violated* (`WarnedIsRepaired`): a promised repair never comes |
| `fcuno_sync` | 2 revisions (the second withdraws access), 3 deliveries, 2 at once, 2 accounts, 2 visits at once, any failures | refinement of `IdentityRegister`, only the owner's profile is written |
| `fcuno_redelivery` | 2 revisions, 2 deliveries, 1 visit | *violated* (`RepeatedIsNoConflict`): an event is refused over its own row, by the delivery whose upsert lost its answer (the shortest trace) or by a repeated one |

*Why these bounds.* A duplicate or a lost row needs two attempts with a fault in
the first; `MaxRevision` 5 is start, finish, start, finish after the
authorisation, and two faults allow a lost answer and a second failure on the
way. Two invocations are enough for every race on one revision, because the
compare and swap lets one of them past. Two documents are the smallest group
with a partial outcome, and the smallest that can share evidence. In the outbox
two workers give every pair of stale snapshot and fresh write; a third only
repeats a role. `email_reconciles` lets a send and a filing lose their answers in
one behaviour. Its goal is boxed and about the outbox row, because the code's
own note before a move, `uncertain`, says nothing yet; what the row may end as
instead is a source that is gone (the cron tries to file it for ever, and
records `failed` each time) or a move of which no answer told. Crashes and
storage errors are left out there: after a claim whose update of the action
failed, and after a confirmation whose unchecked update of the outbox failed,
the code does not come back to the row. `MaxXero` leaves room for one duplicate and one document of a
user. Of the release engine, four jobs let two releases be staged and promoted
with a call given up between them, or one be staged, promoted and rerun twice.
`OnlyOwnBaseline` leaves out steps from or to a deployment by other means, since
no program can exclude that one lands between a check and a promotion. Its
mutant ignores the other releases' journals: what protects one release from
another's late call is `assertNoUnresolvedOtherRelease` rather than the
comparison with the baseline. Of the update emails, one item and two drafts are
what a double assignment needs, two recipients the smallest group with a partial
outcome, and two invocations any pair of send, retry and recovery; `GroupSize`
is the code's 3. Of the reminders, three requests let one end, and so reopen the
operation, between two others; `Runners` 3 never holds one of two batches back.
Of the federation, two revisions give every order of two events, the third
delivery a repetition beside them, and two visits a contested claim; the
failures are not bounded. `fcuno_sync` permits one revision, so the
register's admission condition is trivial in it; revisions, owners and
acknowledgements carry that run, and the theorem `Refinement` covers
any set. Of the reminders, `RepeatedMailWasUnrecorded` excepts the batches whose
acceptance the ledger failed to record: it is about lost answers and dead
requests, and the repetition after a failed record is listed under `hazards`
without a property. A third revision adds a late write to the
profile (section 5), which no property judges; the theorems hold for any number. Deadlock is not checked: all of these systems come to
rest when people, events and faults are exhausted.

*Fairness.* `FairSpec` of the batch: an invocation that lives runs on, and Xero
processes what it received. Nothing is assumed of Finance, users or faults. Of
the outbox: weak fairness of each invocation, of the starter and of Graph's
delivery to Sent Items, and strong fairness of the *cron's* read of an entry
(`CronReads`): the maintenance cron comes back for ever and an entry's
`reconcile_after` is only pushed minutes ahead, but a model worker may be busy
whenever it comes, which serverless functions need not be. No fairness of
people. Of the update emails: weak fairness of each invocation, of the 15
minutes (`Age`) and of the listing's recovery of what is older, since the
preparation page asks for it whenever it is opened. Of the reminders: weak
fairness of each request and strong fairness of the collections cron's repair;
the counterexample of `payment_reminder_unrepaired` does not hang on either,
since the repair is never enabled in it again.

## 4. Proofs

`XeroFinancialSyncProofs` proves, for every set of documents, runs and
invocations, every batch size and any number of faults:

* `TypeCorrect`: `Spec => []TypeOK`.
* `MutualExclusion`: `Spec => []SingleWriter`.
* `DurableIdentity`: `Spec => []CheckpointHasIdentity`.

They follow from `Invariance`, `Spec => []IInv` with

    IInv == TypeOK /\ RowsWellFormed /\ FreshRuns /\ JobsWellFormed /\ WireWellFormed

`TypeOK` is not inductive by itself: that a result has a slot of `Slots`
depends on the requests on the wire and the rows in a batch being rows of the
run with a proper action and, for links and updates, a target
(`RowsWellFormed`, `WireWellFormed`), and that in turn on a run having been
previewed (`FreshRuns`) and on the worker's sets of rows being included in each
other (`JobsWellFormed`). `SingleWriter` needs that a worker past the start owns
its revision, and that revisions only grow; `CheckpointHasIdentity` that a
worker that marks a row has just mapped it and mappings are never removed. Each
action has a lemma; frame lemmas (`WorkerFrame`, `LocalFrame`) say what a step
of one worker leaves alone.

`XeroExecutionProofs` adds, from the same assumptions:

* `Complete`: `Spec => []CompletedIsComplete`.
* `TargetsReviewed`: `Spec => []ReviewedTargets`.

    Execution == AllHold /\ LinksNeverFail /\ CompletedIsComplete

Neither property says anything of the rows on the way. `Holds(p, j, t)` does: an
invocation at `p` with local variables `j` has all the selected rows in hand; of
these the pending ones are not checkpointed, the others are, unless one was
marked failed, in which case the run will not be called completed; and once the
re-read has found the batch current, each pending update fits what Xero holds or
the document is among the touched `t`. A link has one more obligation: its
checkpoint expects the row as it was selected, and would silently leave a failed
one as it is, hence `LinksNeverFail`, and hence that a link in a batch has its
identity. That nobody else writes the rows in hand is `Ownership`, from the
first module (`Alone`, `HoldsOfOthers`); what Xero and its users do is in
`HoldsOfXero`.

`XeroDraftProofs` adds `OneDraft`: `Spec => []OneDraftPerRow`. The property is far
from inductive: a draft may come from any request that was ever made, the
requests of an attempt outlive it, and what prevents a second one is sometimes
the re-read (which sees the draft), sometimes the key (which makes the second
request the first), and both depend on how rows are grouped.

    Drafting == /\ Unstarted /\ Numbered /\ Referred /\ Asked /\ InCells
                /\ OneDraftPerRow

`Open(r, d)` is what is still to be written of the rows that are posted together
with `d`: the groups are cut from all the selected rows, checkpointed ones
included, so they are the same in every attempt. `Asked` says that a request Xero
has not answered (`Due`) is for exactly what is open of a group, and that nothing
it would create is there already; two such requests that share a row are
therefore the same request, and once it is answered its key is spent. `InCells`
is the invocation's side: it has, of every group it has still to post, all that
is open; when it settles rows, nothing is under way for them, so that a
checkpoint cannot make a group smaller than a request for it; and what its
re-read found no draft of has none still, *or the request for its group has been
answered since*. The last disjunct is the late request: it may be applied after
the re-read, and then the invocation posts the same request again, which the key
stops. That the re-read finds every draft needs `Numbered` and `Referred`: by
way of links and updates a document may change the number it carries, but only
among documents with the same evidence, so the draft still supports the row it
was created for (`DraftIsFound`). `NewSlotFacts` counts the identities that new
documents take. `Unstarted` lets an authorisation change what is open.

Assumed by the three: `ConstantsAssumption` (documents are finite and not empty, the
batch size is positive, the bounds are natural numbers).

`EmailOutboxProofs` proves, for every set of actions, every finite set of
workers and any number of reviews, filing retries and failures:

* `TypeCorrect`: `Spec => []TypeOK`.
* `OnePost`: `Spec => []OnePostPerReview`.
* `Confirmed`: `Spec => []ConfirmedMeansSent`.
* `Implements`: `Spec => ImplementsDelivery`.

    IInv == TypeOK /\ (\A a \in Actions : DraftInv(a) /\ Budget(a))
                   /\ (\A w \in Workers : WorkerInv(w)) /\ ConfirmedMeansSent

`Budget` is why one post per review holds whoever races: the requests made and
the workers that have claimed and not yet posted (`Claimers`, a cardinality)
never exceed the reviews, and one more while the row is not offered. The claim
spends the offer, the request uses up its claim, a review pays for the claim to
come. `OnePostPerReview` says nothing of the claimers, so it is not inductive.
`DraftInv` says that the offer is made once (the starter's write of the row is
pending only while there is no row) and that a request that was given up was
made; `WorkerInv` that whoever files or confirms has found the message in Sent
Items, for which a retried filing needs `ConfirmedMeansSent` itself. Most steps
neither claim, post, send nor review: `Proceeds`, `Quiet` and their lemmas treat
them together, and the four that do have a lemma each. Assumed:
`ConstantsAssumption`.

`RapidReleaseProofs` proves, for every set of releases, gated and deferred
releases, and any number of jobs, failures and deployments by other means:

* `TypeCorrect`: `Spec => []TypeOK`.
* `SubmittedOnce`: `Spec => []SubmitOnce`.
* `OneReleaseInDoubt`: `Spec => []OneInDoubt`.
* `AcceptedIsLive`: `Spec => []OnlyAcceptedIsLive`.
* `OwnBaseline`: `Spec => OnlyOwnBaseline`.

The first four follow from `Invariance`, `Spec => []IInv` with

    IInv == TypeOK /\ World /\ JobWellFormed(job)

`World` is about what outlives a job. `CallsCounted`: a call is made at most
once and after its intent was recorded, so that a job which finds no intent
knows that no call was made. `CallsAdmitted` and `LiveAdmitted`: not only what
is in production is admitted, but also what a late call may put there and what
a rollback may return to. `ResultBeforePassed`, part of `JournalsWellFormed`:
`prerequisites.passed` never comes into a journal, not even by a late write,
before the result it vouches for, which is why a rerun that sees only the former
may skip the adapter. `JobWellFormed` is about the job: at each label, what its
release's journal holds already. A job on its way through `append` is judged by
the label it goes to and by the journal with its record in it (`Where`,
`Known`), so that the write itself preserves it (`Written`) and a write that
fails does, too, since exceptions lead only to labels where nothing need be
known (`FreeLabels`). That the journal is a chain is not used: the theorems
hold of forked journals.

`OwnBaseline` is about a step, and needs to know where production is at every
time a call may take effect, which may be long after its job has died. It
follows from `Placement`, `Spec => [](IInv /\ Placed)`, where

    Placed == CallsPlaced /\ JobPlaced(job)

`CallsPlaced`: a promotion that may still be applied finds production at its
release's baseline, a rollback at its release, or either at a deployment by
other means (`Expected`). Nobody moves production away from there because the
call is in doubt until it is applied (`CallInDoubt`): a result is claimed, by a
record in the journal or one that may yet land there, only of a call that was
applied. For a result read back from production this holds because a release
that is or was in production, as some release's baseline, has had its promotion
applied. So by `OneInDoubt` no other release has such a call, no job of another
release is at `submit`, and the release's own rollback is only called after its
promotion took effect. `JobPlaced` carries the comparison with the baseline
from the check to the call. In between, a late call of another release may
still move production; then the operation it belongs to is unresolved and no
record on its way can resolve it (`Stuck`), so that
`assertNoUnresolvedOtherRelease` stops the job before its intent. This is where
the comparison alone would not do, as the mutant of the run shows.

Assumed: `ConstantsAssumption` (gated releases are releases, deferred ones are
gated, the deployments are distinct).

`FcosUpdatesProofs` proves, for any items, batches and requests, every finite
set of recipients and any number of revisions, sends and failures:

* `TypeCorrect`: `Spec => []TypeOK`.
* `ReviewedIsMailed`: `Spec => []MailedIsReviewed`.
* `ItemsMailedOnce`: `Spec => []OneMailPerItem`.
* `SentIsTrue`: `Spec => []SentIsAccepted`.
* `FailedRowsUnsent`: `Spec => []FailedIsUnsent`.

    IInv == /\ TypeOK /\ EditInv /\ PageInv
            /\ \A b \in Batches : FrozenInv(b) /\ RecipientInv(b) /\ BatchInv(b)
            /\ \A s \in Slots : SlotInv(s)
            /\ \A b \in Batches, r \in Recipients : RowInv(b, r)

The first three parts are about the preparation. `PageInv`: a page that still
has the draft's revision has its contents, which makes the revision that
`Startable` compares stand for them. `EditInv`: a request which finds the
revision it read finds an item that still allows the edit. `FrozenInv` follows:
from the send on, the contents are what was on the page, and the items belong to
the batch and are pending or sent, so that no edit, import or other draft takes
them. `RecipientInv` carries this to what Graph accepted. The others are about
who may send. `SlotInv`: an answer of acceptance is held only for a row Graph
has accepted, so that whichever request records it records the truth. `BatchInv`
and `RowInv`, unless a batch was settled over a working request: one request at
a time may claim its rows, and a row is in one hand, which has not been accepted
before it submits. The recording of one answer, the end of a group and the
three ways of giving up (stop, catch block, recovery) have to preserve this
together, since each moves rows that another may still hold. Assumed:
`UpdateConstants`; recipients are finite because a claim counts them.

`PaymentRemindersProofs` proves, for every finite set of batches and any number
of requests, attempts and failures:

* `TypeCorrect`: `Spec => []TypeOK`.
* `OneSender`: `Spec => []OneSenderPerBatch`.
* `RepeatedMail`: `Spec => []RepeatedMailWasUnrecorded`.
* `Completed`: `Spec => []CompletedIsMailed`.

    IInv == TypeOK /\ (\A b \in Batches : BatchInv(b)) /\ TotalsInv

`BatchInv` relates a batch's row to the requests that work on it: whoever holds
it holds it alone and its row is `sending`, or it is recording a failure over an
acceptance that could not be recorded; who is about to mail it has not mailed it
before; a row that another request may take is one of a batch that was not
mailed or was not recorded. `TotalsInv` is what the operation's row says of all
batches: counts come from requests whose accepted batches are mailed for ever,
so a count of all of them, whoever wrote it, is honest (`HonestCount`).
Cardinalities come from `FiniteSetTheorems`. Assumed: `ReminderConstants`.

`FcunoIdentityProofs` proves, for every set of revisions with any claims, any
accounts and any number of deliveries and visits:

* `TypeCorrect`: `Spec => []TypeOK`.
* `OnlyOwner`: `Spec => []OnlyOwnerIsProjected`.
* `Refinement`: `Spec => ImplementsRegister`.

    IInv == TypeOK /\ RowsInv /\ (\A d \in Deliveries : DeliveryInv(d))
                   /\ (\A v \in Visits : VisitInv(v))

`RowsInv`: what is completed is held or outdated, and a row that does not exist
has no owner. `DeliveryInv`: the owner a delivery read is none or the owner
still, so that its upsert cannot take the identity from anyone, and an event
past its upsert is held or outdated. `VisitInv`: who passed the claim is the
owner, of an identity some held revision permitted. All of it is preserved by a
step of somebody else because every step obeys `LinkGrows`: the revision does
not go back and an owner stays. `LinkGrows` follows from the trigger for an
upsert and from `Claimable` for a claim. Each action has a lemma that says which
step of the register it is, or that it is none. Assumed: `RevisionsAssumption`,
`ClaimsAssumption`, `AccountsAssumption`, `BoundsAssumption`.

*Only model-checked.* The liveness properties: liveness under fairness is out of
TLAPS's reach. Every invariant and every action property of a passing run is a
theorem.

## 5. Where the code departs from its promises

Every run marked *violated* is a disagreement between the code and a comment, a
test or a document; `PROJECT.json` quotes both sides under `findings`.

The FCUNO one has more than one road: an event is refused over its own row both
when it is delivered again and when the one delivery that wrote it lost the
answer of the upsert and re-reads the row.

The models reach more that no run is devoted to: a Xero run left `processing`
by a failure between its start and the try block (line 387); an outbox row that
is sent although its action was reported as failed, and a claimed draft that no
retry accepts; a newer deployment reverted by a rollback that was checked
before; a journal that forks when a write that timed out lands after the
obstacle record; a release recorded as complete and then rolled back, because
writing the record of its verification failed; a rollback whose lost answer no
rerun reads back; two rows of one Xero batch linked to one document; a confirmed
Email Router action that a slower submitter takes back to `submitted` (its
outbox row stays confirmed); one that stays `uncertain` after a lost send
answer although its message was found in Sent Items, so that a failed filing is
neither shown for review nor accepted for the retry that the status offers
(`filingRetryAllowed`); a reminder batch mailed again after the ledger
failed to record it; a reminder operation left `validating` or `sending` by a
request that died, which blocks its retries; the profile of an identity's owner
taken back to an older name and email by a delivery that is late to project it.
`hazards` names their lines.

The table of identities declares `auth_user_id ... on delete set null`, and its
trigger refuses to change an owner once set: deleting an authentication account
that owns an identity is refused. Deletion is not part of the program and not
modelled.

## 6. Not modelled, and why

* The payment half of the Xero batch, the Xero connection, notifications, the
  runtime cache, the Email Router's synchronisation: planned (below).
* Of the federation, the verification of tokens, the read-only sessions of CI,
  the legacy password and other issuers; the logout of the portal.
* Of the payment reminders, the reading and grouping of invoices and the
  reconciliation of their collections before the reservation.
* The release engine's handover and bootstrap, its prerequisite adapters and
  repair recipes (both registries are empty), the contents of its checks.
* Immediate moves, undo and mark-read of the Email Router; two actions on one
  source message; the processor's limit of 25 entries and its order.
* Dashboards, disputes, parsing, scoring and rendering: pure computation, better
  served by tests over data than by a state machine.
* Salesforce's own Apex and the React interface: they appear as users.

## 7. Plan

1. Xero batch: payments.
2. Email outbox: the query of its entries, with its limit and its order.
3. Release engine: the handover and bootstrap claims as a module of their own.
4. Xero connection: token rotation by concurrent invocations, webhook events
   recorded before they are handled, the name cache written back whole.
5. Update emails: the limit of 100 rows of a claim, several items in their order.
6. Runtime cache: invalidation by generation against loads in flight, as a
   linearisable register (abstract specification).
7. Email Router synchronisation: coalesced background runs, delta cursors.
8. Notifications, the portal's logout, cashflow claims.

## 8. Running the checks

    tlc -config XeroRetry.cfg MCXeroFinancialSync.tla
    tlapm XeroFinancialSyncProofs.tla
    tlapm XeroExecutionProofs.tla
    tlapm XeroDraftProofs.tla
    tlapm EmailOutboxProofs.tla
    tlapm RapidReleaseProofs.tla
    tlapm FcosUpdatesProofs.tla
    tlapm PaymentRemindersProofs.tla
    tlapm FcunoIdentityProofs.tla

Each `.cfg` belongs to the `MC` module of its component. The definitions marked
*Mutant* are wrong versions of a definition next to them: put in its place, each
makes TLC find the property it belongs to violated, which shows that the
property depends on the code being as it is. `PROJECT.json` pairs them.
