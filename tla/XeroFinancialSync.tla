-------------------------- MODULE XeroFinancialSync --------------------------
(***************************************************************************)
(* The Finance-reviewed Salesforce-to-Xero accounting batch of             *)
(* api/_xeroFinancialSync.js and of the functions of migration             *)
(* 20260829080726_xero_financial_sync.sql.                                 *)
(*                                                                         *)
(* A run is previewed (every Salesforce document classified against Xero), *)
(* authorised on its exact revision, and executed by a serverless          *)
(* invocation of xeroFinancialSyncRun: start (compare and swap on the      *)
(* revision), read the rows, re-read Salesforce and Xero and refuse a      *)
(* stale batch, then write group by group and checkpoint each row, then    *)
(* finish.  A failed or partial run may be started again.                  *)
(*                                                                         *)
(* Every database statement and every remote call is a step of its own, so *)
(* invocations, Finance users, Salesforce users and Xero users interleave; *)
(* a request to Xero may be applied after the caller has given up on it.   *)
(*                                                                         *)
(* Data: documents are numbers (their row order in a run); a fingerprint   *)
(* is the version of the Salesforce document; updatedDateUTC is a counter; *)
(* two documents with the same SupportKey share account, currency, total   *)
(* and date, which is what supportingMatch compares.                       *)
(***************************************************************************)
EXTENDS Integers, FiniteSets, FiniteSetsExt

CONSTANTS Docs,        \* Salesforce documents, numbered in row order
          CreditNotes, \* the ones that go to the CreditNotes collection
          SupportKey,  \* [Docs -> evidence compared by supportingMatch]
          Runs,        \* sync runs
          Workers,     \* concurrent invocations of xeroFinancialSyncRun
          BatchSize,   \* MAX_BATCH_SIZE
          RpcHasCatch, \* whether an unawaited client.rpc(...) has a catch method
          MaxXero,     \* bound: documents Xero can hold
          MaxRevision, \* bound: revisions of one run
          MaxEdits,    \* bound: edits by Salesforce and Xero users
          Faults,      \* kinds of failure that may happen
          MaxFaults    \* bound: failures in one behaviour

NoRun == "no run"
FaultKinds == {"crash", "load", "read", "network", "reserve", "validation",
               "database", "finish", "audit"}

ASSUME ConstantsAssumption ==
    /\ Docs \subseteq Nat /\ IsFiniteSet(Docs) /\ Docs # {}
    /\ CreditNotes \subseteq Docs
    /\ DOMAIN SupportKey = Docs
    /\ NoRun \notin Runs
    /\ BatchSize \in Nat \ {0}
    /\ RpcHasCatch \in BOOLEAN
    /\ MaxXero \in Nat /\ MaxRevision \in Nat /\ MaxEdits \in Nat
    /\ MaxFaults \in Nat
    /\ Faults \subseteq FaultKinds

NoSlot == 0
Slots  == 1..MaxXero
Foreign == -1           \* content that mirrors no Salesforce version

VARIABLES
    source,   \* Salesforce: the current version of each document
    xero,     \* Xero: the accounting documents, by identity
    wire,     \* POST requests Xero has not applied yet
    replies,  \* what Xero answered under each Idempotency-Key
    run,      \* xero_financial_sync_runs: status and revision
    item,     \* xero_financial_sync_items of each run
    mapping,  \* xero_financial_document_mappings: document -> Xero identity
    pc,       \* where each invocation stands
    job,      \* the local variables of each invocation
    touched,  \* history: Xero documents changed since an invocation's re-read
    edits,    \* edits by users so far
    faults    \* failures so far

vars == <<source, xero, wire, replies, run, item, mapping, pc, job, touched,
          edits, faults>>
external == <<source, xero, wire, replies>>

RunStatuses == {"none", "ready_for_review", "authorised", "processing",
                "completed", "partial", "failed"}
ItemStatuses == {"none", "eligible", "blocked", "selected", "linked",
                 "updated", "created", "failed"}
DoneStatuses == {"linked", "updated", "created"}
Actions == {"none", "link", "protected_legacy", "safe_update", "create_draft",
            "blocked"}
NoWriteActions == {"link", "protected_legacy"}

NoItem == [status |-> "none", selected |-> FALSE, action |-> "none",
           src |-> 0, target |-> NoSlot, stamp |-> 0]
NoReply == [d \in Docs |-> [slot |-> NoSlot, stamp |-> 0]]
NoJob == [run |-> NoRun, rev |-> 0, rows |-> {}, pend |-> {}, batch |-> {},
          result |-> NoReply, seen |-> {}, stale |-> FALSE, failed |-> FALSE]
Absent == [state |-> "absent", src |-> 0, made |-> 0, by |-> NoRun,
           content |-> Foreign, stamp |-> 0]

Pcs == {"idle", "requested", "started", "reading", "working", "posting",
        "settling", "marking", "failing"}

XeroType == [state: {"absent", "mutable", "protected", "void"},
             src: Docs \cup {0}, made: Docs \cup {0},
             by: Runs \cup {NoRun}, content: Int, stamp: Nat]
RequestType == [run: Runs, docs: SUBSET Docs]
ResultType == [Docs -> [slot: Slots \cup {NoSlot}, stamp: Nat]]
ReplyType == [run: Runs, docs: SUBSET Docs, result: ResultType]
RunType == [status: RunStatuses, rev: Nat]
ItemType == [status: ItemStatuses, selected: BOOLEAN, action: Actions,
             src: Nat, target: Slots \cup {NoSlot}, stamp: Nat]
JobType == [run: Runs \cup {NoRun}, rev: Nat, rows: SUBSET Docs,
            pend: SUBSET Docs, batch: SUBSET Docs, result: ResultType,
            seen: SUBSET {"salesforce", "xero"}, stale: BOOLEAN,
            failed: BOOLEAN]

TypeOK ==
    /\ source \in [Docs -> Nat]
    /\ xero \in [Slots -> XeroType]
    /\ wire \subseteq RequestType
    /\ replies \subseteq ReplyType
    /\ run \in [Runs -> RunType]
    /\ item \in [Runs -> [Docs -> ItemType]]
    /\ mapping \in [Docs -> Slots \cup {NoSlot}]
    /\ pc \in [Workers -> Pcs]
    /\ job \in [Workers -> JobType]
    /\ touched \in [Workers -> SUBSET Slots]
    /\ edits \in Nat
    /\ faults \in Nat

Init ==
    /\ source = [d \in Docs |-> 0]
    /\ xero = [x \in Slots |-> Absent]
    /\ wire = {}
    /\ replies = {}
    /\ run = [r \in Runs |-> [status |-> "none", rev |-> 0]]
    /\ item = [r \in Runs |-> [d \in Docs |-> NoItem]]
    /\ mapping = [d \in Docs |-> NoSlot]
    /\ pc = [w \in Workers |-> "idle"]
    /\ job = [w \in Workers |-> NoJob]
    /\ touched = [w \in Workers |-> {}]
    /\ edits = 0
    /\ faults = 0

-----------------------------------------------------------------------------
(* Classification *)

Active(x) == xero[x].state \in {"mutable", "protected"}

NumberMatches(d)  == {x \in Slots : Active(x) /\ xero[x].src = d}
SupportMatches(d) ==
    {x \in Slots : /\ Active(x)
                   /\ xero[x].src \in Docs
                   /\ SupportKey[xero[x].src] = SupportKey[d]}

TheOnly(S) == IF Cardinality(S) = 1 THEN CHOOSE x \in S : TRUE ELSE NoSlot

\* The Xero document a Salesforce document is paired with: the stored link,
\* then the document with its number, then the only one its evidence supports.
Match(d) ==
    IF mapping[d] # NoSlot THEN mapping[d]
    ELSE IF NumberMatches(d) # {} THEN TheOnly(NumberMatches(d))
    ELSE TheOnly(SupportMatches(d))

Differs(d, x) == xero[x].src # d \/ xero[x].content # source[d]

\* The exceptions that keep a row out of the batch; blockers are the
\* documents whose own data is not fit to post.
Blocked(d, blockers) ==
    \/ d \in blockers
    \/ mapping[d] # NoSlot /\ ~Active(mapping[d])
    \/ Cardinality(NumberMatches(d)) > 1
    \/ Match(d) = NoSlot /\ SupportMatches(d) # {}
    \/ \E e \in Docs \ {d} : Match(d) # NoSlot /\ mapping[e] = Match(d)
    \/ Match(d) # NoSlot /\ xero[Match(d)].state = "protected"
                         /\ Differs(d, Match(d))

ClassifiedAction(d) ==
    LET x == Match(d)
    IN  IF x = NoSlot THEN "create_draft"
        ELSE IF xero[x].state = "protected" THEN "protected_legacy"
        ELSE IF Differs(d, x) THEN "safe_update" ELSE "link"

Classify(d, blockers) ==
    IF Blocked(d, blockers)
    THEN [status |-> "blocked", selected |-> FALSE, action |-> "blocked",
          src |-> source[d], target |-> NoSlot, stamp |-> 0]
    ELSE [status |-> "eligible", selected |-> FALSE,
          action |-> ClassifiedAction(d), src |-> source[d],
          target |-> Match(d),
          stamp |-> IF Match(d) = NoSlot THEN 0 ELSE xero[Match(d)].stamp]

-----------------------------------------------------------------------------
(* Finance: preview and authorise *)

\* xeroFinancialSyncPreview: snapshot both systems, classify, insert the run
\* and its items.
Preview(r) ==
    /\ run[r].status = "none"
    /\ \E blockers \in SUBSET Docs :
         item' = [item EXCEPT ![r] = [d \in Docs |-> Classify(d, blockers)]]
    /\ run' = [run EXCEPT ![r] = [status |-> "ready_for_review", rev |-> 1]]
    /\ UNCHANGED <<external, mapping, pc, job, touched, edits, faults>>

\* xeroFinancialSyncApply: authorise the previewed revision on a selection.
Authorise(r, selection) ==
    /\ run[r].status = "ready_for_review"
    /\ selection # {}
    /\ \A d \in selection : item[r][d].status = "eligible"
    /\ run' = [run EXCEPT ![r] = [status |-> "authorised", rev |-> @.rev + 1]]
    /\ item' = [item EXCEPT ![r] = [d \in Docs |->
                  IF d \in selection
                  THEN [@[d] EXCEPT !.status = "selected", !.selected = TRUE]
                  ELSE @[d]]]
    /\ UNCHANGED <<external, mapping, pc, job, touched, edits, faults>>

-----------------------------------------------------------------------------
(* Execution: one invocation of xeroFinancialSyncRun *)

Fault(kind) ==
    /\ kind \in Faults
    /\ faults < MaxFaults
    /\ faults' = faults + 1

Return(w) ==
    /\ pc' = [pc EXCEPT ![w] = "idle"]
    /\ job' = [job EXCEPT ![w] = NoJob]
    /\ touched' = [touched EXCEPT ![w] = {}]

Goto(w, label) == pc' = [pc EXCEPT ![w] = label]

MyItem(w, d) == item[job[w].run][d]

\* The caller sends the run id and the revision it last saw.
RequestRun(w, r) ==
    /\ pc[w] = "idle"
    /\ run[r].status \in {"authorised", "partial", "failed"}
    /\ run[r].rev < MaxRevision
    /\ Goto(w, "requested")
    /\ job' = [job EXCEPT ![w] = [NoJob EXCEPT !.run = r, !.rev = run[r].rev]]
    /\ UNCHANGED <<external, run, item, mapping, touched, edits, faults>>

\* Mutant: a start that takes over whatever is processing.
MayStartTakesOver(r, expected) ==
    run[r].status \in {"authorised", "processing", "partial", "failed"}

MayStart(r, expected) ==
    /\ run[r].rev = expected
    /\ run[r].status \in {"authorised", "partial", "failed"}

\* start_xero_financial_sync_run_v1
StartRun(w) ==
    LET r == job[w].run IN
    /\ pc[w] = "requested"
    /\ MayStart(r, job[w].rev)
    /\ run' = [run EXCEPT ![r] = [status |-> "processing", rev |-> @.rev + 1]]
    /\ job' = [job EXCEPT ![w].rev = run[r].rev + 1]
    /\ Goto(w, "started")
    /\ UNCHANGED <<external, item, mapping, touched, edits, faults>>

StartRefused(w) ==
    /\ pc[w] = "requested"
    /\ ~MayStart(job[w].run, job[w].rev)
    /\ Return(w)
    /\ UNCHANGED <<external, run, item, mapping, edits, faults>>

\* The selected rows, and the connection with its scopes.
LoadRows(w) ==
    LET rows == {d \in Docs : /\ MyItem(w, d).selected
                              /\ MyItem(w, d).status \in
                                   {"selected", "failed"} \cup DoneStatuses}
    IN
    /\ pc[w] = "started"
    /\ job' = [job EXCEPT ![w].rows = rows,
                          ![w].pend = {d \in rows :
                             MyItem(w, d).status \notin DoneStatuses}]
    /\ Goto(w, "reading")
    /\ UNCHANGED <<external, run, item, mapping, touched, edits, faults>>

\* The row query, the token refresh or the scope check throws before the try.
LoadFails(w) ==
    /\ pc[w] = "started"
    /\ Fault("load")
    /\ Return(w)
    /\ UNCHANGED <<external, run, item, mapping, edits>>

\* The two snapshots are read in parallel; assertDocumentRunStillCurrent
\* compares every row with them, checkpointed rows included.
StaleSource(w) ==
    \E d \in job[w].rows : source[d] # MyItem(w, d).src

\* Mutants: the re-read forgets what a lost answer may have created, or
\* whether the target is still the reviewed version.
StaleTargetForgetsCreations(r, d) ==
    /\ item[r][d].action # "create_draft"
    /\ \/ ~Active(item[r][d].target)
       \/ xero[item[r][d].target].stamp # item[r][d].stamp
StaleTargetForgetsVersion(r, d) ==
    IF item[r][d].action = "create_draft"
    THEN NumberMatches(d) \cup SupportMatches(d) # {}
    ELSE ~Active(item[r][d].target)

StaleTarget(r, d) ==
    IF item[r][d].action = "create_draft"
    THEN NumberMatches(d) \cup SupportMatches(d) # {}
    ELSE LET x == item[r][d].target IN
         \/ ~Active(x)
         \/ xero[x].stamp # item[r][d].stamp
         \/ item[r][d].action = "safe_update" /\ xero[x].state = "protected"

ReadSalesforce(w) ==
    /\ pc[w] = "reading"
    /\ "salesforce" \notin job[w].seen
    /\ job' = [job EXCEPT ![w].seen = @ \cup {"salesforce"},
                          ![w].stale = @ \/ StaleSource(w)]
    /\ UNCHANGED <<external, run, item, mapping, pc, touched, edits, faults>>

ReadXero(w) ==
    /\ pc[w] = "reading"
    /\ "xero" \notin job[w].seen
    /\ job' = [job EXCEPT ![w].seen = @ \cup {"xero"},
                          ![w].stale = @ \/ \E d \in job[w].rows :
                                              StaleTarget(job[w].run, d)]
    /\ touched' = [touched EXCEPT ![w] = {}]
    /\ UNCHANGED <<external, run, item, mapping, pc, edits, faults>>

ReadFails(w) ==
    /\ pc[w] = "reading"
    /\ Fault("read")
    /\ Goto(w, "failing")
    /\ UNCHANGED <<external, run, item, mapping, job, touched, edits>>

AssertStillCurrent(w) ==
    /\ pc[w] = "reading"
    /\ job[w].seen = {"salesforce", "xero"}
    /\ Goto(w, IF job[w].stale THEN "failing" ELSE "working")
    /\ UNCHANGED <<external, run, item, mapping, job, touched, edits, faults>>

\* Rows are cut in groups of BatchSize in row order; a group links first,
\* then posts its Invoices, then its CreditNotes.
GroupOf(w, d) == (Cardinality({e \in job[w].rows : e <= d}) - 1) \div BatchSize
Group(w) == {d \in job[w].pend :
               \A e \in job[w].pend : GroupOf(w, d) <= GroupOf(w, e)}
NoWrites(w) == {d \in Group(w) : MyItem(w, d).action \in NoWriteActions}
NextPost(w) ==
    IF Group(w) \subseteq CreditNotes THEN Group(w) ELSE Group(w) \ CreditNotes

LinkRow(w) ==
    /\ pc[w] = "working"
    /\ NoWrites(w) # {}
    /\ LET d == Min(NoWrites(w)) IN
       job' = [job EXCEPT ![w].batch = {d},
                          ![w].result = [@ EXCEPT ![d] =
                             [slot  |-> MyItem(w, d).target,
                              stamp |-> MyItem(w, d).stamp]]]
    /\ Goto(w, "settling")
    /\ UNCHANGED <<external, run, item, mapping, touched, edits, faults>>

PostBatch(w) ==
    /\ pc[w] = "working"
    /\ job[w].pend # {} /\ NoWrites(w) = {}
    /\ wire' = wire \cup {[run |-> job[w].run, docs |-> NextPost(w)]}
    /\ job' = [job EXCEPT ![w].batch = NextPost(w)]
    /\ Goto(w, "posting")
    /\ UNCHANGED <<source, xero, replies, run, item, mapping, touched, edits,
                   faults>>

-----------------------------------------------------------------------------
(* Xero (external): requests, idempotency keys, and its own users *)

\* The key names the run, the collection and the first row of the request.
IdempotencyKey(m) == <<m.run, m.docs \subseteq CreditNotes, Min(m.docs)>>
Answered(m) == \E a \in replies : IdempotencyKey(a) = IdempotencyKey(m)

Used == {x \in Slots : xero[x].state # "absent"}
Creates(m, accepted) ==
    {d \in accepted : item[m.run][d].action = "create_draft"}
\* New documents take the next free identities in row order.
NewSlot(m, accepted, d) ==
    Cardinality(Used) + Cardinality({e \in Creates(m, accepted) : e <= d})
SlotFor(m, accepted, d) ==
    IF d \in Creates(m, accepted) THEN NewSlot(m, accepted, d)
                                  ELSE item[m.run][d].target

\* Documents Xero may refuse to edit, and the ones it certainly refuses.
Unwritable(m) == {d \in m.docs : item[m.run][d].action = "safe_update"
                                   /\ xero[item[m.run][d].target].state # "mutable"}
Dead(m) == {d \in m.docs : item[m.run][d].action = "safe_update"
                             /\ ~Active(item[m.run][d].target)}

Written(m, accepted, x) ==
    LET d == CHOOSE e \in accepted : SlotFor(m, accepted, e) = x
    IN  IF d \in Creates(m, accepted)
        THEN [state |-> "mutable", src |-> d, made |-> d, by |-> m.run,
              content |-> item[m.run][d].src, stamp |-> 1]
        ELSE [xero[x] EXCEPT !.src = d, !.content = item[m.run][d].src,
                             !.stamp = @ + 1]

\* Every invocation learns nothing of a change made after its re-read.
Touch(slots) == touched' = [w \in Workers |->
                  IF "xero" \in job[w].seen THEN touched[w] \cup slots
                                            ELSE touched[w]]

XeroApply(m, accepted) ==
    LET slots == {SlotFor(m, accepted, d) : d \in accepted} IN
    /\ m \in wire
    /\ ~Answered(m)
    /\ accepted \cap Dead(m) = {}
    /\ IF m.docs \ accepted \subseteq Unwritable(m)
       THEN UNCHANGED faults ELSE Fault("validation")
    /\ Cardinality(Used) + Cardinality(Creates(m, accepted)) <= MaxXero
    /\ xero' = [x \in Slots |-> IF x \in slots THEN Written(m, accepted, x)
                                               ELSE xero[x]]
    /\ wire' = wire \ {m}
    /\ replies' = replies \cup
         {[run |-> m.run, docs |-> m.docs,
           result |-> [d \in Docs |->
             IF d \in accepted
             THEN [slot |-> SlotFor(m, accepted, d),
                   stamp |-> xero'[SlotFor(m, accepted, d)].stamp]
             ELSE [slot |-> NoSlot, stamp |-> 0]]]}
    /\ Touch(slots)
    /\ UNCHANGED <<source, run, item, mapping, pc, job, edits>>

\* A repeated key is not applied again.
XeroReplay(m) ==
    /\ m \in wire
    /\ Answered(m)
    /\ wire' = wire \ {m}
    /\ UNCHANGED <<source, xero, replies, run, item, mapping, pc, job, touched,
                   edits, faults>>

Edit == edits < MaxEdits /\ edits' = edits + 1

SalesforceEdit(d) ==
    /\ Edit
    /\ source' = [source EXCEPT ![d] = @ + 1]
    /\ UNCHANGED <<xero, wire, replies, run, item, mapping, pc, job, touched,
                   faults>>

XeroUserChange(x, after) ==
    /\ Edit
    /\ Active(x)
    /\ xero' = [xero EXCEPT ![x] = after]
    /\ Touch({x})
    /\ UNCHANGED <<source, wire, replies, run, item, mapping, pc, job, faults>>

XeroUserEdit(x) ==
    /\ xero[x].state = "mutable"
    /\ XeroUserChange(x, [xero[x] EXCEPT !.content = Foreign,
                                         !.stamp = @ + 1])
XeroUserPays(x) ==
    /\ xero[x].state = "mutable"
    /\ XeroUserChange(x, [xero[x] EXCEPT !.state = "protected",
                                         !.stamp = @ + 1])
XeroUserVoids(x) ==
    XeroUserChange(x, [xero[x] EXCEPT !.state = "void", !.stamp = @ + 1])
XeroUserCreates(d) ==
    LET x == Cardinality(Used) + 1 IN
    /\ Edit
    /\ x <= MaxXero
    /\ \E content \in {Foreign, source[d]} :
         xero' = [xero EXCEPT ![x] =
                    [state |-> "mutable", src |-> d, made |-> d, by |-> NoRun,
                     content |-> content, stamp |-> 1]]
    /\ Touch({x})
    /\ UNCHANGED <<source, wire, replies, run, item, mapping, pc, job, faults>>

-----------------------------------------------------------------------------
(* Execution, continued: the answer, the row checkpoints and the end *)

MyRequest(w) == [run |-> job[w].run, docs |-> job[w].batch]

PostAnswered(w) ==
    /\ pc[w] = "posting"
    /\ \E a \in replies :
         /\ a.run = job[w].run /\ a.docs = job[w].batch
         /\ job' = [job EXCEPT ![w].result = a.result]
    /\ Goto(w, "settling")
    /\ UNCHANGED <<external, run, item, mapping, touched, edits, faults>>

\* The key was already used for another request body.
PostRejected(w) ==
    /\ pc[w] = "posting"
    /\ Answered(MyRequest(w))
    /\ \A a \in replies : a.run = job[w].run => a.docs # job[w].batch
    /\ Goto(w, "failing")
    /\ UNCHANGED <<external, run, item, mapping, job, touched, edits, faults>>

\* A POST is not retried: any transport error ends the attempt, whether or
\* not Xero applies the request, before or after.
PostFails(w) ==
    /\ pc[w] = "posting"
    /\ Fault("network")
    /\ Goto(w, "failing")
    /\ UNCHANGED <<external, run, item, mapping, job, touched, edits>>

\* The daily reserve is checked before a request and on its response.
ReserveReached(w) ==
    /\ \/ pc[w] = "working" /\ job[w].pend # {} /\ NoWrites(w) = {}
       \/ pc[w] = "posting" /\ Answered(MyRequest(w))
    /\ Fault("reserve")
    /\ Goto(w, "failing")
    /\ UNCHANGED <<external, run, item, mapping, job, touched, edits>>

Current(w) == Min(job[w].batch)
Result(w)  == job[w].result[Current(w)]

AfterRow(w, rest) == IF rest = {} THEN "working" ELSE "settling"

\* finalizeDocumentOutcome without an id: the row is marked failed, and an
\* error of that update is not looked at.
SettleFailed(w) ==
    LET d == Current(w) IN
    /\ pc[w] = "settling"
    /\ Result(w).slot = NoSlot
    /\ \/ /\ item' = [item EXCEPT ![job[w].run][d].status = "failed"]
          /\ UNCHANGED faults
       \/ Fault("database") /\ UNCHANGED item
    /\ job' = [job EXCEPT ![w].batch = @ \ {d}, ![w].pend = @ \ {d},
                          ![w].failed = TRUE]
    /\ Goto(w, AfterRow(w, job[w].batch \ {d}))
    /\ UNCHANGED <<external, run, mapping, touched, edits>>

\* Mutant: the error of the mapping is not looked at.
UpsertMappingUnchecked(w) ==
    /\ pc[w] = "settling"
    /\ Result(w).slot # NoSlot
    /\ \/ /\ mapping' = [mapping EXCEPT ![Current(w)] = Result(w).slot]
          /\ UNCHANGED faults
       \/ Fault("database") /\ UNCHANGED mapping
    /\ Goto(w, "marking")
    /\ UNCHANGED <<external, run, item, job, touched, edits>>

\* upsertDocumentMapping: one link per document, and the table's uniqueness
\* of the Xero identity makes a second owner an error.
UpsertMapping(w) ==
    LET d == Current(w)
        x == Result(w).slot
        taken == \E e \in Docs \ {d} : mapping[e] = x
    IN
    /\ pc[w] = "settling"
    /\ x # NoSlot
    /\ mapping' = IF taken THEN mapping ELSE [mapping EXCEPT ![d] = x]
    /\ Goto(w, IF taken THEN "failing" ELSE "marking")
    /\ UNCHANGED <<external, run, item, job, touched, edits, faults>>

\* Mutant: the action is written where the status belongs.
CheckpointStatusIsAction(action) == action

CheckpointStatus(action) ==
    IF action \in NoWriteActions THEN "linked"
    ELSE IF action = "create_draft" THEN "created" ELSE "updated"

\* The checkpoint of the row, after its mapping; a link is only checkpointed
\* from 'selected'.
CheckpointRow(w) ==
    LET d == Current(w)
        row == MyItem(w, d)
        marked == [row EXCEPT !.status = CheckpointStatus(row.action),
                              !.target = Result(w).slot,
                              !.stamp = Result(w).stamp]
    IN
    /\ pc[w] = "marking"
    /\ item' = IF row.action \in NoWriteActions /\ row.status # "selected"
               THEN item
               ELSE [item EXCEPT ![job[w].run][d] = marked]
    /\ job' = [job EXCEPT ![w].batch = @ \ {d}, ![w].pend = @ \ {d}]
    /\ Goto(w, AfterRow(w, job[w].batch \ {d}))
    /\ UNCHANGED <<external, run, mapping, touched, edits, faults>>

\* The database refuses either write of a row.
RowWriteFails(w) ==
    /\ \/ pc[w] = "settling" /\ Result(w).slot # NoSlot
       \/ pc[w] = "marking"
    /\ Fault("database")
    /\ Goto(w, "failing")
    /\ UNCHANGED <<external, run, item, mapping, job, touched, edits>>

\* finish_xero_financial_sync_run_v1
Owns(w) == /\ run[job[w].run].rev = job[w].rev
           /\ run[job[w].run].status = "processing"
FinishedRun(w, status) ==
    LET r == job[w].run IN
    IF Owns(w)
    THEN [run EXCEPT ![r] = [status |-> status, rev |-> @.rev + 1]]
    ELSE run

\* Mutant: failed rows are forgotten.
TerminalStatusIgnoresFailures(w) == "completed"

TerminalStatus(w) == IF job[w].failed THEN "partial" ELSE "completed"

FinishRun(w) ==
    /\ pc[w] = "working" /\ job[w].pend = {} /\ Owns(w)
    /\ run' = FinishedRun(w, TerminalStatus(w))
    /\ \/ Return(w) /\ UNCHANGED faults
       \/ Fault("audit") /\ Goto(w, "failing") /\ UNCHANGED <<job, touched>>
    /\ UNCHANGED <<external, item, mapping, edits>>

FinishFails(w) ==
    /\ pc[w] = "working" /\ job[w].pend = {}
    /\ IF Owns(w) THEN Fault("finish") ELSE UNCHANGED faults
    /\ Goto(w, "failing")
    /\ UNCHANGED <<external, run, item, mapping, job, touched, edits>>

\* The catch block: finish as failed, whatever comes of it.  The request is
\* client.rpc(...).catch(...): where the result is awaitable but has no catch
\* method, that expression throws before anything is sent.
FailRun(w) ==
    /\ pc[w] = "failing"
    /\ \/ RpcHasCatch /\ run' = FinishedRun(w, "failed") /\ UNCHANGED faults
       \/ RpcHasCatch /\ Fault("finish") /\ UNCHANGED run
       \/ ~RpcHasCatch /\ UNCHANGED <<run, faults>>
    /\ Return(w)
    /\ UNCHANGED <<external, item, mapping, edits>>

\* The serverless invocation is killed.
Crash(w) ==
    /\ pc[w] # "idle"
    /\ Fault("crash")
    /\ Return(w)
    /\ UNCHANGED <<external, run, item, mapping, edits>>

-----------------------------------------------------------------------------
(* Specification *)

WorkerStep(w) ==
    \/ StartRun(w) \/ StartRefused(w) \/ LoadRows(w)
    \/ ReadSalesforce(w) \/ ReadXero(w) \/ AssertStillCurrent(w)
    \/ LinkRow(w) \/ PostBatch(w) \/ PostAnswered(w) \/ PostRejected(w)
    \/ SettleFailed(w) \/ UpsertMapping(w) \/ CheckpointRow(w)
    \/ FinishRun(w) \/ FailRun(w)

WorkerFault(w) ==
    \/ LoadFails(w) \/ ReadFails(w) \/ PostFails(w) \/ ReserveReached(w)
    \/ RowWriteFails(w) \/ FinishFails(w) \/ Crash(w)

XeroStep ==
    \E m \in wire : \/ \E accepted \in SUBSET m.docs : XeroApply(m, accepted)
                    \/ XeroReplay(m)

FinanceStep ==
    \E r \in Runs : \/ Preview(r)
                    \/ \E selection \in SUBSET Docs : Authorise(r, selection)
                    \/ \E w \in Workers : RequestRun(w, r)

UserStep ==
    \/ \E d \in Docs : SalesforceEdit(d) \/ XeroUserCreates(d)
    \/ \E x \in Slots : XeroUserEdit(x) \/ XeroUserPays(x) \/ XeroUserVoids(x)

Next ==
    \/ \E w \in Workers : WorkerStep(w) \/ WorkerFault(w)
    \/ XeroStep
    \/ FinanceStep
    \/ UserStep

Spec == Init /\ [][Next]_vars

\* An invocation that is alive runs on, and Xero processes what it received.
FairSpec == /\ Spec
            /\ \A w \in Workers : WF_vars(WorkerStep(w))
            /\ WF_vars(XeroStep)

-----------------------------------------------------------------------------
(* Properties *)

\* However often a run is retried, after lost answers, late requests,
\* failed checkpoints or crashes, it leaves at most one active Xero document
\* per Salesforce document it was authorised to create (the re-read before
\* writing and the idempotency key together, xeroFinancialSyncRun).
OneDraftPerRow ==
    \A x, y \in Slots :
      (/\ Active(x) /\ Active(y)
       /\ xero[x].by # NoRun
       /\ xero[x].by = xero[y].by /\ xero[x].made = xero[y].made) => x = y

\* Past the start, only one invocation works on a run, and it works on the
\* revision it started; any other can only be on its way out, with a finish
\* that the revision check turns into nothing.
SingleWriter ==
    \A w \in Workers :
      pc[w] \notin {"idle", "requested", "failing"} =>
        /\ Owns(w)
        /\ \A v \in Workers \ {w} :
             job[v].run = job[w].run =>
               \/ pc[v] \in {"idle", "requested"}
               \/ pc[v] = "failing" /\ ~Owns(v)

\* A completed run has no selected row that was left out: each is
\* checkpointed, over however many attempts.
CompletedIsComplete ==
    \A r \in Runs : run[r].status = "completed" =>
      \A d \in Docs : item[r][d].selected => item[r][d].status \in DoneStatuses

\* A checkpointed row has its durable identity: the mapping is written first,
\* so no crash or failure between the two leaves a row done but unlinked.
CheckpointHasIdentity ==
    \A r \in Runs, d \in Docs :
      item[r][d].status \in DoneStatuses => mapping[d] # NoSlot

\* A pending safe update of an invocation that passed the staleness check is
\* aimed at the version Finance reviewed, unless the document was changed
\* after that check.
ReviewedTargets ==
    \A w \in Workers : pc[w] = "working" =>
      \A d \in job[w].pend :
        MyItem(w, d).action = "safe_update" =>
          LET x == MyItem(w, d).target IN
          \/ x \in touched[w]
          \/ xero[x].stamp = MyItem(w, d).stamp /\ xero[x].state = "mutable"

\* A run that is processing does not stay so.
StartedRunSettles ==
    \A r \in Runs : run[r].status = "processing" ~> run[r].status # "processing"

=============================================================================
