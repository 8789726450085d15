-------------------------- MODULE EmailOutboxProofs --------------------------
(***************************************************************************)
(* Theorems about EmailOutbox, for any actions, any finite set of workers  *)
(* and any number of reviews, filing retries and failures; the refinement  *)
(* of EmailDelivery is one of them.                                        *)
(***************************************************************************)
EXTENDS EmailOutbox, FiniteSetTheorems, TLAPS

\* The workers that have claimed the entry of an action and not yet posted it.
Claimers(a) == {w \in Workers : pc[w] \in {"claimed", "marked"} /\ job[w].act = a}

Attempted(a) == outbox[a] \notin {"none", "draft_created"}

\* Requests made and requests under way never exceed the claims: one for each
\* review, and one more while the row is not offered.
Budget(a) ==
    posts[a] + Cardinality(Claimers(a)) <= reviews[a] + (IF Attempted(a) THEN 1 ELSE 0)

\* The starter's side: no draft before it is created, no row before its write
\* lands; and a request that was given up was made.
DraftInv(a) ==
    /\ starter[a] \in {"none", "reserved"} =>
          mail[a] = "none" /\ outbox[a] = "none" /\ writes[a] = {}
    /\ "outbox" \in writes[a] => outbox[a] = "none"
    /\ a \in late => posts[a] > 0

\* A worker that files or confirms has found the message in Sent Items, and
\* one that waits for the answer of a request has made it.
Confirming == {"confirming", "filing", "moved", "filingFailed", "reopening",
               "filed", "completing", "refiling"}

WorkerInv(w) ==
    /\ pc[w] # "idle" => Act(w) \in Actions
    /\ pc[w] = "sending" => posts[Act(w)] > 0
    /\ pc[w] \in Confirming => mail[Act(w)] = "sent"

IInv ==
    /\ TypeOK
    /\ \A a \in Actions : DraftInv(a) /\ Budget(a)
    /\ \A w \in Workers : WorkerInv(w)
    /\ ConfirmedMeansSent

Step == [Delivery!Next]_(Delivery!vars)

-----------------------------------------------------------------------------
(* The abstract steps *)

\* What neither offers, claims, posts, delivers, reviews nor settles a draft.
LEMMA Stutters ==
    ASSUME TypeOK, mail' = mail, outbox' = outbox, posts' = posts, reviews' = reviews
    PROVE  Step
  BY DEF Step, Delivery!vars

\* An update of a row that is not confirmed, to a state of an attempt, claims
\* it or changes nothing.
LEMMA Shifts ==
    ASSUME TypeOK, NEW a \in Actions, NEW s \in {"submitted", "uncertain"},
           SetOutbox(a, s), mail' = mail, posts' = posts, reviews' = reviews
    PROVE  Step
<1>1. CASE outbox[a] \in {"none", "confirmed"}
  BY <1>1, Stutters DEF SetOutbox
<1>2. CASE outbox[a] = "draft_created"
  <2>1. outbox' = [outbox EXCEPT ![a] = s]
    BY <1>2 DEF SetOutbox
  <2>2. Delivery!Claim(a)
    BY <1>2, <2>1 DEF Delivery!Claim, TypeOK
  <2> QED
    BY <2>2 DEF Step, Delivery!Next
<1>3. CASE outbox[a] \in {"submitted", "uncertain"}
  <2>1. outbox' = [outbox EXCEPT ![a] = s]
    BY <1>3 DEF SetOutbox
  <2>2. UNCHANGED Delivery!vars
    BY <1>3, <2>1 DEF Delivery!vars, TypeOK
  <2> QED
    BY <2>2 DEF Step
<1> QED
  BY <1>1, <1>2, <1>3 DEF TypeOK, OutboxStates

-----------------------------------------------------------------------------
(* Frames *)

LEMMA ClaimersFinite ==
    ASSUME NEW a \in Actions
    PROVE  IsFiniteSet(Claimers(a)) /\ Cardinality(Claimers(a)) \in Nat
<1>1. Claimers(a) \subseteq Workers /\ IsFiniteSet(Workers)
  BY ConstantsAssumption DEF Claimers
<1> QED
  BY <1>1, FS_Subset, FS_CardinalityType

LEMMA BudgetKept ==
    ASSUME TypeOK, TypeOK', NEW a \in Actions, Budget(a),
           Claimers(a)' \subseteq Claimers(a),
           posts'[a] = posts[a], reviews'[a] = reviews[a],
           Attempted(a) => Attempted(a)'
    PROVE  Budget(a)'
<1>1. /\ Cardinality(Claimers(a)) \in Nat /\ Cardinality(Claimers(a)') \in Nat
      /\ Cardinality(Claimers(a)') <= Cardinality(Claimers(a))
  BY ClaimersFinite, FS_Subset, FS_CardinalityType
<1>2. posts[a] \in Nat /\ reviews[a] \in Nat
  BY DEF TypeOK
<1> QED
  BY <1>1, <1>2 DEF Budget

\* A worker that does not move knows what it knew.
LEMMA WorkerKept ==
    ASSUME NEW w \in Workers, WorkerInv(w), pc'[w] = pc[w], job'[w] = job[w],
           \A a \in Actions : /\ mail[a] = "sent" => mail'[a] = "sent"
                              /\ posts[a] > 0 => posts'[a] > 0
    PROVE  WorkerInv(w)'
  BY DEF WorkerInv, Act, Confirming

\* What neither a worker nor the outgoing message is touched by.
LEMMA WorkersIdle ==
    ASSUME IInv, pc' = pc, job' = job, posts' = posts,
           \A a \in Actions : mail[a] = "sent" => mail'[a] = "sent"
    PROVE  \A w \in Workers : WorkerInv(w)'
  BY WorkerKept DEF IInv

\* A step of one worker that neither claims, posts, sends nor reviews.
Proceeds(w) ==
    /\ starter' = starter /\ writes' = writes
    /\ mail' = mail /\ posts' = posts /\ reviews' = reviews
    /\ \A v \in Workers \ {w} : pc'[v] = pc[v] /\ job'[v] = job[v]
    /\ pc'[w] \in {"claimed", "marked"} =>
          pc[w] \in {"claimed", "marked"} /\ job'[w].act = job[w].act
    /\ \A a \in Actions : \/ outbox'[a] = outbox[a]
                          \/ outbox[a] # "none" /\ Attempted(a)'
    /\ \A a \in late' : a \in late \/ posts[a] > 0

LEMMA WorkerProceeds ==
    ASSUME IInv, TypeOK', NEW w \in Workers, Proceeds(w), WorkerInv(w)',
           ConfirmedMeansSent'
    PROVE  IInv'
<1>1. \A v \in Workers : WorkerInv(v)'
  <2>1. SUFFICES ASSUME NEW v \in Workers \ {w} PROVE WorkerInv(v)'
    OBVIOUS
  <2>2. WorkerInv(v) /\ pc'[v] = pc[v] /\ job'[v] = job[v]
    BY DEF IInv, Proceeds
  <2> QED
    BY <2>2, WorkerKept DEF Proceeds
<1>2. ASSUME NEW a \in Actions PROVE DraftInv(a)' /\ Budget(a)'
  <2>1. DraftInv(a) /\ Budget(a) /\ TypeOK
    BY DEF IInv
  <2>2. DraftInv(a)'
    BY <2>1 DEF DraftInv, Proceeds
  <2>3. Claimers(a)' \subseteq Claimers(a)
    BY DEF Claimers, Proceeds
  <2>4. Attempted(a) => Attempted(a)'
    BY DEF Attempted, Proceeds
  <2>5. Budget(a)'
    BY <2>1, <2>3, <2>4, BudgetKept DEF Proceeds
  <2> QED
    BY <2>2, <2>5
<1> QED
  BY <1>1, <1>2 DEF IInv

-----------------------------------------------------------------------------
(* The starter and Graph *)

LEMMA StarterType ==
    ASSUME TypeOK, NEW a \in Actions, StarterStep(a) \/ StarterFault(a)
    PROVE  TypeOK'
<1> USE DEF TypeOK, States, Filings, OutboxStates, StarterMoves, SetState, SetFiling
<1>1. CASE Reserve(a)
  BY <1>1, ConstantsAssumption DEF Reserve, rows, graph, work, tally
<1>2. CASE CreateDraft(a)
  BY <1>2 DEF CreateDraft, rows, work, tally
<1>3. CASE FailStart(a)
  BY <1>3 DEF FailStart, graph, work, tally, Fault
<1>4. CASE Started(a)
  BY <1>4 DEF Started, rows, graph, work, tally
<1>5. CASE \E k \in {"action", "outbox"} : WriteLands(a, k)
  <2>1. PICK k \in {"action", "outbox"} : WriteLands(a, k)
    BY <1>5
  <2>2. writes' \in [Actions -> SUBSET {"action", "outbox"}]
    BY <2>1 DEF WriteLands, Landed
  <2>3. /\ state' \in [Actions -> States] /\ draftId' \in [Actions -> BOOLEAN]
        /\ outbox' \in [Actions -> OutboxStates]
    <3>1. CASE LandAction(a)
      BY <3>1 DEF LandAction
    <3>2. CASE LandOutbox(a)
      BY <3>2 DEF LandOutbox
    <3> QED
      BY <2>1, <3>1, <3>2 DEF WriteLands, Land
  <2> QED
    BY <2>1, <2>2, <2>3 DEF WriteLands, graph, work, tally
<1>6. CASE PrepareFails(a)
  BY <1>6 DEF PrepareFails, rows, graph, work, tally, Fault
<1>7. CASE StarterCrashes(a)
  BY <1>7 DEF StarterCrashes, rows, graph, work, tally, Fault
<1>8. CASE \E k \in {"action", "outbox"} : WriteFails(a, k)
  <2>1. PICK k \in {"action", "outbox"} : WriteFails(a, k)
    BY <1>8
  <2>2. writes' \in [Actions -> SUBSET {"action", "outbox"}]
    BY <2>1 DEF WriteFails, Landed
  <2>3. /\ state' \in [Actions -> States] /\ draftId' \in [Actions -> BOOLEAN]
        /\ outbox' \in [Actions -> OutboxStates]
    <3>1. CASE Land(a, k)
      <4>1. CASE LandAction(a)
        BY <4>1 DEF LandAction
      <4>2. CASE LandOutbox(a)
        BY <4>2 DEF LandOutbox
      <4> QED
        BY <3>1, <4>1, <4>2 DEF Land
    <3>2. CASE UNCHANGED <<state, draftId, outbox>>
      BY <3>2
    <3> QED
      BY <2>1, <3>1, <3>2 DEF WriteFails
  <2>4. faults' \in Nat /\ starter' \in
             [Actions -> {"none", "reserved", "drafted", "broken", "ended"}]
    BY <2>1 DEF WriteFails, Fault
  <2> QED
    BY <2>1, <2>2, <2>3, <2>4 DEF WriteFails, graph, work, tally
<1> QED
  BY <1>1, <1>2, <1>3, <1>4, <1>5, <1>6, <1>7, <1>8 DEF StarterStep, StarterFault

\* A step of the starter that leaves the rows of the outbox and the message.
LEMMA StarterQuiet ==
    ASSUME IInv, TypeOK', NEW a \in Actions,
           Reserve(a) \/ FailStart(a) \/ Started(a) \/ PrepareFails(a)
             \/ StarterCrashes(a)
    PROVE  IInv' /\ Step
<1>1. /\ outbox' = outbox /\ mail' = mail /\ posts' = posts /\ reviews' = reviews
      /\ pc' = pc /\ job' = job /\ writes' = writes /\ late' = late
      /\ source' = source
  BY DEF Reserve, FailStart, Started, PrepareFails, StarterCrashes, rows, graph,
         work, tally
<1>2. Step
  BY <1>1, Stutters DEF IInv
<1>3. \A b \in Actions : starter'[b] \in {"none", "reserved"} =>
                            starter[b] \in {"none", "reserved"}
  BY DEF Reserve, FailStart, Started, PrepareFails, StarterCrashes, StarterMoves,
         IInv, TypeOK
<1>4. ASSUME NEW b \in Actions PROVE DraftInv(b)' /\ Budget(b)'
  <2>1. DraftInv(b) /\ Budget(b)
    BY DEF IInv
  <2>2. DraftInv(b)'
    BY <1>1, <1>3, <2>1 DEF DraftInv
  <2>3. Budget(b)'
    BY <1>1, <2>1 DEF Budget, Claimers, Attempted
  <2> QED
    BY <2>2, <2>3
<1>5. ConfirmedMeansSent'
  <2>1. \A b \in Actions : /\ state'[b] = "confirmed" => state[b] = "confirmed"
                           /\ \/ filing'[b] = filing[b]
                              \/ filing'[b] \in {"pending", "not_required"}
    BY DEF Reserve, FailStart, Started, PrepareFails, StarterCrashes, SetState,
           SetFiling, IInv, TypeOK, rows
  <2> QED
    BY <1>1, <2>1 DEF IInv, ConfirmedMeansSent
<1> QED
  BY <1>1, <1>2, <1>4, <1>5, WorkersIdle DEF IInv

LEMMA CreateDraftStep ==
    ASSUME IInv, TypeOK', NEW a \in Actions, CreateDraft(a)
    PROVE  IInv' /\ Step
<1>1. /\ outbox' = outbox /\ posts' = posts /\ reviews' = reviews
      /\ pc' = pc /\ job' = job /\ late' = late /\ source' = source
      /\ state' = state /\ filing' = filing
      /\ mail' = [mail EXCEPT ![a] = "draft"]
      /\ starter[a] = "reserved" /\ starter' = [starter EXCEPT ![a] = "drafted"]
      /\ writes' = [writes EXCEPT ![a] = {"action", "outbox"}]
  BY DEF CreateDraft, StarterMoves, rows, work, tally
<1>2. mail[a] = "none" /\ outbox[a] = "none"
  BY <1>1 DEF IInv, DraftInv
<1>3. Step
  BY <1>1, <1>2 DEF IInv, TypeOK, Step, Delivery!vars
<1>4. ASSUME NEW b \in Actions PROVE DraftInv(b)' /\ Budget(b)'
  <2>1. DraftInv(b) /\ Budget(b)
    BY DEF IInv
  <2>2. DraftInv(b)'
    BY <1>1, <1>2, <2>1 DEF DraftInv, IInv, TypeOK
  <2>3. Budget(b)'
    BY <1>1, <2>1 DEF Budget, Claimers, Attempted
  <2> QED
    BY <2>2, <2>3
<1>5. \A b \in Actions : mail[b] = "sent" => mail'[b] = "sent"
  BY <1>1, <1>2 DEF IInv, TypeOK
<1>6. ConfirmedMeansSent'
  BY <1>1, <1>5 DEF IInv, ConfirmedMeansSent
<1> QED
  BY <1>1, <1>3, <1>4, <1>5, <1>6, WorkersIdle DEF IInv

\* A write lands: the one of the outbox offers the draft.
LEMMA LandStep ==
    ASSUME IInv, TypeOK', NEW a \in Actions, NEW k \in {"action", "outbox"},
           WriteLands(a, k) \/ WriteFails(a, k)
    PROVE  IInv' /\ Step
<1>0. TypeOK /\ DraftInv(a)
  BY DEF IInv
<1>1. /\ posts' = posts /\ reviews' = reviews /\ mail' = mail
      /\ pc' = pc /\ job' = job /\ late' = late /\ source' = source
      /\ filing' = filing /\ k \in writes[a]
      /\ writes' = [writes EXCEPT ![a] = @ \ {k}]
      /\ \/ starter' = starter
         \/ starter' = [starter EXCEPT ![a] = "broken"]
      /\ \/ state' = state
         \/ state' = [state EXCEPT ![a] = "draft_created"]
      /\ \/ outbox' = outbox
         \/ k = "outbox" /\ outbox' = [outbox EXCEPT ![a] = "draft_created"]
  BY DEF WriteLands, WriteFails, Land, LandAction, LandOutbox, Landed,
         StarterMoves, SetState, graph, work, tally
<1>2. starter[a] \notin {"none", "reserved"}
  BY <1>0, <1>1 DEF DraftInv
<1>3. k = "outbox" => outbox[a] = "none"
  BY <1>0, <1>1 DEF DraftInv
<1>4. Step
  <2>1. CASE outbox' = outbox
    BY <1>0, <1>1, <2>1, Stutters
  <2>2. CASE k = "outbox" /\ outbox' = [outbox EXCEPT ![a] = "draft_created"]
    <3>1. Delivery!Offer(a)
      <4>1. outbox[a] = "none" /\ outbox \in [Actions -> OutboxStates]
        BY <1>0, <1>3, <2>2 DEF TypeOK
      <4>2. posts' = posts /\ reviews' = reviews /\ mail' = mail
        BY <1>1
      <4>3. [b \in Actions |-> outbox[b] = "confirmed"]'
            = [b \in Actions |-> outbox[b] = "confirmed"]
        BY <2>2, <4>1
      <4>4. [b \in Actions |-> IF outbox[b] = "none" THEN "none"
                              ELSE IF outbox[b] = "draft_created" THEN "ready"
                              ELSE "attempted"]'
            = [[b \in Actions |-> IF outbox[b] = "none" THEN "none"
                                 ELSE IF outbox[b] = "draft_created" THEN "ready"
                                 ELSE "attempted"] EXCEPT ![a] = "ready"]
        BY <2>2, <4>1
      <4> QED
        BY <4>1, <4>2, <4>3, <4>4 DEF Delivery!Offer
    <3> QED
      BY <3>1 DEF Step, Delivery!Next
  <2> QED
    BY <1>1, <2>1, <2>2
<1>5. ASSUME NEW b \in Actions PROVE DraftInv(b)' /\ Budget(b)'
  <2>1. DraftInv(b) /\ Budget(b)
    BY DEF IInv
  <2>2. DraftInv(b)'
    BY <1>0, <1>1, <1>2, <1>3, <2>1 DEF DraftInv, TypeOK
  <2>3. Attempted(b) => Attempted(b)'
    BY <1>0, <1>1, <1>3 DEF Attempted, TypeOK
  <2>4. Claimers(b)' = Claimers(b)
    BY <1>1 DEF Claimers
  <2>5. Budget(b)'
    BY <1>0, <1>1, <2>1, <2>3, <2>4, BudgetKept
  <2> QED
    BY <2>2, <2>5
<1>6. ConfirmedMeansSent'
  <2>1. \A b \in Actions : /\ state'[b] = "confirmed" => state[b] = "confirmed"
                           /\ outbox'[b] = "confirmed" => outbox[b] = "confirmed"
    BY <1>0, <1>1 DEF TypeOK
  <2> QED
    BY <1>1, <2>1 DEF IInv, ConfirmedMeansSent
<1> QED
  BY <1>1, <1>4, <1>5, <1>6, WorkersIdle DEF IInv

LEMMA StarterSteps ==
    ASSUME IInv, NEW a \in Actions, StarterStep(a) \/ StarterFault(a)
    PROVE  IInv' /\ Step
<1>1. TypeOK'
  BY StarterType DEF IInv
<1> QED
  BY <1>1, StarterQuiet, CreateDraftStep, LandStep DEF StarterStep, StarterFault

LEMMA GraphSteps ==
    ASSUME IInv, NEW a \in Actions, GraphStep(a)
    PROVE  IInv' /\ Step
<1>0. TypeOK /\ DraftInv(a)
  BY DEF IInv
<1>1. /\ outbox' = outbox /\ posts' = posts /\ reviews' = reviews
      /\ pc' = pc /\ job' = job /\ state' = state /\ filing' = filing
      /\ mode' = mode /\ draftId' = draftId /\ refiles' = refiles
      /\ starter' = starter /\ writes' = writes /\ faults' = faults
      /\ late' \subseteq late
      /\ \/ mail' = mail
         \/ /\ mail[a] = "draft" /\ a \in late
            /\ mail' = [mail EXCEPT ![a] = "accepted"]
         \/ mail[a] = "accepted" /\ mail' = [mail EXCEPT ![a] = "sent"]
      /\ source' = source \/ source' = [source EXCEPT ![a] = "gone"]
  BY DEF GraphStep, LateSend, ReachesSentItems, SourceDeleted, rows, start, work,
         tally
<1>2. TypeOK'
  BY <1>0, <1>1 DEF TypeOK
<1>3. Step
  <2>1. CASE mail' = mail
    BY <1>0, <1>1, <2>1, Stutters
  <2>2. CASE mail[a] = "draft" /\ a \in late /\ mail' = [mail EXCEPT ![a] = "accepted"]
    <3>1. posts[a] > 0
      BY <1>0, <2>2 DEF DraftInv
    <3>2. Delivery!Deliver(a)
      BY <1>0, <1>1, <2>2, <3>1 DEF Delivery!Deliver, TypeOK
    <3> QED
      BY <3>2 DEF Step, Delivery!Next
  <2>3. CASE mail[a] = "accepted" /\ mail' = [mail EXCEPT ![a] = "sent"]
    BY <1>0, <1>1, <2>3 DEF Step, Delivery!vars, TypeOK
  <2> QED
    BY <1>1, <2>1, <2>2, <2>3
<1>4. \A b \in Actions : /\ mail[b] = "sent" => mail'[b] = "sent"
                         /\ mail[b] = "none" => mail'[b] = "none"
                         /\ source'[b] = "filed" => source[b] = "filed"
  BY <1>0, <1>1 DEF TypeOK
<1>5. ASSUME NEW b \in Actions PROVE DraftInv(b)' /\ Budget(b)'
  <2>1. DraftInv(b) /\ Budget(b)
    BY DEF IInv
  <2>2. DraftInv(b)'
    BY <1>1, <1>4, <2>1 DEF DraftInv
  <2>3. Budget(b)'
    BY <1>1, <2>1 DEF Budget, Claimers, Attempted
  <2> QED
    BY <2>2, <2>3
<1>6. ConfirmedMeansSent'
  BY <1>1, <1>4 DEF IInv, ConfirmedMeansSent
<1> QED
  BY <1>1, <1>2, <1>3, <1>4, <1>5, <1>6, WorkersIdle DEF IInv

-----------------------------------------------------------------------------
(* The types of a worker's step *)

LEMMA JobTypes ==
    ASSUME TypeOK
    PROVE  /\ NoJob \in JobType /\ NoJob.act = NoAction
           /\ \A a \in Actions, confirm \in BOOLEAN :
                 /\ Snapshot(a, confirm) \in JobType
                 /\ Snapshot(a, confirm).act = a
                 /\ [Snapshot(a, confirm) EXCEPT !.filing = "pending"] \in JobType
  BY DEF TypeOK, JobType, NoJob, Snapshot, OutboxStates, Filings

LEMMA Definite ==
    ASSUME NEW j \in JobType, NEW definite \in BOOLEAN
    PROVE  [j EXCEPT !.definite = definite] \in JobType
  BY DEF JobType

LEMMA JobUpdate ==
    ASSUME TypeOK, NEW w \in Workers, NEW j \in JobType, job' = [job EXCEPT ![w] = j]
    PROVE  job' \in [Workers -> JobType]
  BY DEF TypeOK

LEMMA WorkerType ==
    ASSUME TypeOK, NEW w \in Workers, WorkerInv(w), WorkerStep(w) \/ WorkerFault(w)
    PROVE  TypeOK'
<1>0. pc[w] # "idle" => Act(w) \in Actions
  BY DEF WorkerInv
<1>1. NoJob \in JobType
  BY JobTypes
<1>2. /\ [job[w] EXCEPT !.definite = TRUE] \in JobType
      /\ [job[w] EXCEPT !.definite = FALSE] \in JobType
  BY Definite DEF TypeOK
<1> USE <1>0, <1>1, <1>2 DEF TypeOK, States, Filings, OutboxStates, Pcs, Goto, Return,
        SetState, SetFiling, SetOutbox, Fault, rows, graph, start, tally
<1>3. CASE Claim(w)
  BY <1>3 DEF Claim
<1>4. CASE MarkUncertain(w)
  BY <1>4 DEF MarkUncertain
<1>5. CASE PostSend(w)
  BY <1>5 DEF PostSend
<1>6. CASE SendAccepted(w)
  BY <1>6 DEF SendAccepted
<1>7. CASE SendRefused(w)
  BY <1>7 DEF SendRefused
<1>8. CASE RecordOutboxSubmitted(w)
  BY <1>8 DEF RecordOutboxSubmitted
<1>9. CASE RecordSubmitted(w)
  BY <1>9 DEF RecordSubmitted
<1>10. CASE RecordUnknown(w)
  BY <1>10 DEF RecordUnknown
<1>11. CASE CheckSent(w)
  BY <1>11 DEF CheckSent
<1>12. CASE BeginFiling(w)
  BY <1>12 DEF BeginFiling
<1>13. CASE FileSource(w)
  <2>1. faults' \in Nat
    BY <1>13 DEF FileSource, FilingBreaks
  <2>2. source' \in [Actions -> {"inbox", "filed", "gone"}]
    BY <1>13 DEF FileSource, FilingBreaks
  <2>3. pc' \in [Workers -> Pcs]
    BY <1>13 DEF FileSource, FilingBreaks
  <2>4. \/ job' = job
        \/ job' = [job EXCEPT ![w] = [job[w] EXCEPT !.definite = TRUE]]
        \/ job' = [job EXCEPT ![w] = [job[w] EXCEPT !.definite = FALSE]]
    BY <1>13 DEF FileSource, FilingBreaks
  <2>5. job' \in [Workers -> JobType]
    <3>1. CASE job' = job
      BY <3>1
    <3>2. CASE job' = [job EXCEPT ![w] = [job[w] EXCEPT !.definite = TRUE]]
      BY <3>2, JobUpdate
    <3>3. CASE job' = [job EXCEPT ![w] = [job[w] EXCEPT !.definite = FALSE]]
      BY <3>3, JobUpdate
    <3> QED
      BY <2>4, <3>1, <3>2, <3>3
  <2> QED
    BY <1>13, <2>1, <2>2, <2>3, <2>5 DEF FileSource
<1>14. CASE RecordFiled(w)
  <2>1. faults' \in Nat
    BY <1>14 DEF RecordFiled, FilingBreaks
  <2>2. filing' \in [Actions -> Filings]
    BY <1>14 DEF RecordFiled, FilingBreaks
  <2>3. pc' \in [Workers -> Pcs]
    BY <1>14 DEF RecordFiled, FilingBreaks
  <2>4. \/ job' = job
        \/ job' = [job EXCEPT ![w] = [job[w] EXCEPT !.definite = TRUE]]
        \/ job' = [job EXCEPT ![w] = [job[w] EXCEPT !.definite = FALSE]]
    BY <1>14 DEF RecordFiled, FilingBreaks
  <2>5. job' \in [Workers -> JobType]
    <3>1. CASE job' = job
      BY <3>1
    <3>2. CASE job' = [job EXCEPT ![w] = [job[w] EXCEPT !.definite = TRUE]]
      BY <3>2, JobUpdate
    <3>3. CASE job' = [job EXCEPT ![w] = [job[w] EXCEPT !.definite = FALSE]]
      BY <3>3, JobUpdate
    <3> QED
      BY <2>4, <3>1, <3>2, <3>3
  <2> QED
    BY <1>14, <2>1, <2>2, <2>3, <2>5 DEF RecordFiled
<1>15. CASE RecordFilingFailed(w)
  BY <1>15 DEF RecordFilingFailed
<1>16. CASE ReopenOutbox(w)
  BY <1>16 DEF ReopenOutbox
<1>17. CASE ConfirmAction(w)
  BY <1>17 DEF ConfirmAction
<1>18. CASE ConfirmOutbox(w)
  BY <1>18 DEF ConfirmOutbox
<1>19. CASE ReviewSent(w)
  BY <1>19 DEF ReviewSent
<1>20. CASE ResetOutbox(w)
  BY <1>20 DEF ResetOutbox
<1>21. CASE Redraft(w)
  BY <1>21 DEF Redraft
<1>22. CASE RestartFiling(w)
  BY <1>22 DEF RestartFiling
<1>23. CASE ClaimFails(w)
  BY <1>23 DEF ClaimFails
<1>24. CASE SendLost(w)
  BY <1>24 DEF SendLost, Lingers
<1>25. CASE ReconcileFails(w)
  BY <1>25 DEF ReconcileFails
<1>26. CASE Crash(w)
  BY <1>26 DEF Crash, Lingers
<1> QED
  BY <1>3, <1>4, <1>5, <1>6, <1>7, <1>8, <1>9, <1>10, <1>11, <1>12, <1>13, <1>14,
     <1>15, <1>16, <1>17, <1>18, <1>19, <1>20, <1>21, <1>22, <1>23, <1>24, <1>25,
     <1>26 DEF WorkerStep, WorkerFault
LEMMA PersonType ==
    ASSUME TypeOK, NEW w \in Workers, NEW a \in Actions,
           ReadEntry(w, a) \/ RequestReview(w, a) \/ RequestFilingRetry(w, a)
    PROVE  TypeOK' /\ job'[w].act = a
<1>1. job' \in [Workers -> JobType] /\ job'[w].act = a
  <2>1. CASE ReadEntry(w, a)
    <3>1. PICK confirm \in BOOLEAN : job' = [job EXCEPT ![w] = Snapshot(a, confirm)]
      BY <2>1 DEF ReadEntry
    <3> QED
      BY <3>1, JobTypes, JobUpdate DEF TypeOK
  <2>2. CASE RequestReview(w, a)
    <3>1. job' = [job EXCEPT ![w] = Snapshot(a, TRUE)]
      BY <2>2 DEF RequestReview
    <3> QED
      BY <3>1, JobTypes, JobUpdate DEF TypeOK
  <2>3. CASE RequestFilingRetry(w, a)
    <3>1. job' = [job EXCEPT ![w] = [Snapshot(a, TRUE) EXCEPT !.filing = "pending"]]
      BY <2>3 DEF RequestFilingRetry
    <3>2. [Snapshot(a, TRUE) EXCEPT !.filing = "pending"].act = a
      BY DEF Snapshot
    <3> QED
      BY <3>1, <3>2, JobTypes, JobUpdate DEF TypeOK
  <2> QED
    BY <2>1, <2>2, <2>3
<1>2. pc' \in [Workers -> Pcs]
  <2>1. Goto(w, "entry") \/ Goto(w, "reviewing") \/ Goto(w, "refiling")
    BY DEF ReadEntry, RequestReview, RequestFilingRetry
  <2> QED
    BY <2>1 DEF Goto, TypeOK, Pcs
<1>3. refiles' \in Nat
  <2>1. CASE ReadEntry(w, a)
    BY <2>1 DEF ReadEntry, TypeOK, tally
  <2>2. CASE RequestReview(w, a)
    BY <2>2 DEF RequestReview, TypeOK, tally
  <2>3. CASE RequestFilingRetry(w, a)
    BY <2>3 DEF RequestFilingRetry, TypeOK
  <2> QED
    BY <2>1, <2>2, <2>3
<1>4. UNCHANGED <<rows, graph, start, posts, reviews, faults>>
  BY DEF ReadEntry, RequestReview, RequestFilingRetry, tally
<1> QED
  BY <1>1, <1>2, <1>3, <1>4 DEF rows, graph, start, TypeOK

-----------------------------------------------------------------------------
(* A worker's step, and what a person or the cron asks of a worker *)

\* Nothing is newly reported or filed but for a message in Sent Items.
Truthful ==
    \A a \in Actions :
      /\ state'[a] = "confirmed" => state[a] = "confirmed" \/ mail[a] = "sent"
      /\ filing'[a] \in {"uncertain", "failed", "confirmed"} =>
            filing'[a] = filing[a] \/ mail[a] = "sent"
      /\ source'[a] = "filed" => source[a] = "filed" \/ mail[a] = "sent"

LEMMA SentKept ==
    ASSUME ConfirmedMeansSent, Truthful,
           \A a \in Actions :
             /\ mail[a] = "sent" => mail'[a] = "sent"
             /\ outbox'[a] = "confirmed" => outbox[a] = "confirmed" \/ mail[a] = "sent"
    PROVE  ConfirmedMeansSent'
  BY DEF ConfirmedMeansSent, Truthful

\* A step of a worker that goes on with its entry.
LEMMA Informed ==
    ASSUME NEW w \in Workers, WorkerInv(w), Act(w) \in Actions,
           mail' = mail, posts' = posts,
           pc'[w] = "idle" \/ Act(w)' = Act(w), pc'[w] # "sending",
           pc'[w] \in Confirming => mail[Act(w)] = "sent"
    PROVE  WorkerInv(w)'
  BY DEF WorkerInv, Act, Confirming

\* A step of a worker that leaves the outbox alone.
LEMMA Unseen ==
    ASSUME IInv, TypeOK', NEW w \in Workers, Proceeds(w), WorkerInv(w)',
           Truthful, outbox' = outbox
    PROVE  IInv' /\ Step
<1>1. ConfirmedMeansSent'
  BY SentKept DEF IInv, Proceeds
<1>2. Step
  BY Stutters DEF IInv, Proceeds
<1> QED
  BY <1>1, <1>2, WorkerProceeds

LEMMA RowShifts ==
    ASSUME TypeOK, NEW a \in Actions, NEW s \in {"submitted", "uncertain", "confirmed"},
           SetOutbox(a, s)
    PROVE  \A b \in Actions : \/ outbox'[b] = outbox[b]
                              \/ outbox[b] # "none" /\ Attempted(b)'
<1>1. CASE outbox' = outbox
  BY <1>1
<1>2. CASE outbox[a] # "none" /\ outbox' = [outbox EXCEPT ![a] = s]
  <2>1. TAKE b \in Actions
  <2>2. CASE b = a
    BY <1>2, <2>2 DEF Attempted, TypeOK
  <2>3. CASE b # a
    BY <1>2, <2>3 DEF TypeOK
  <2> QED
    BY <2>2, <2>3
<1> QED
  BY <1>1, <1>2 DEF SetOutbox

\* An update of the outbox row by a worker.
LEMMA Updates ==
    ASSUME IInv, TypeOK', NEW w \in Workers, Proceeds(w), WorkerInv(w)', Truthful,
           NEW a \in Actions, NEW s \in {"submitted", "uncertain"}, SetOutbox(a, s)
    PROVE  IInv' /\ Step
<1>1. \A b \in Actions : outbox'[b] = "confirmed" => outbox[b] = "confirmed"
  BY DEF SetOutbox, IInv, TypeOK
<1>2. ConfirmedMeansSent'
  BY <1>1, SentKept DEF IInv, Proceeds
<1>3. Step
  BY Shifts DEF IInv, Proceeds
<1> QED
  BY <1>2, <1>3, WorkerProceeds

\* What the steps that leave the outbox and the message alone have in common.
Quiet(w) ==
    /\ outbox' = outbox /\ mail' = mail /\ posts' = posts /\ reviews' = reviews
    /\ starter' = starter /\ writes' = writes
    /\ \A v \in Workers \ {w} : pc'[v] = pc[v] /\ job'[v] = job[v]
    /\ pc'[w] = "idle" \/ Act(w)' = Act(w)
    /\ pc'[w] \notin {"claimed", "sending"}
    /\ pc'[w] = "marked" => pc[w] = "claimed"
    /\ pc'[w] \in Confirming => pc[w] \in Confirming \/ mail[Act(w)] = "sent"
    /\ \A a \in late' : a \in late \/ posts[a] > 0
    /\ Truthful

LEMMA QuietStep ==
    ASSUME IInv, TypeOK', NEW w \in Workers, Act(w) \in Actions, Quiet(w)
    PROVE  IInv' /\ Step
<1>1. WorkerInv(w)
  BY DEF IInv
<1>2. Proceeds(w)
  BY DEF Quiet, Proceeds, Act
<1>3. WorkerInv(w)'
  BY <1>1, Informed DEF Quiet, WorkerInv
<1> QED
  BY <1>2, <1>3, Unseen DEF Quiet

LEMMA QuietSteps ==
    ASSUME IInv, NEW w \in Workers,
           MarkUncertain(w) \/ SendRefused(w) \/ SendLost(w) \/ RecordSubmitted(w)
             \/ CheckSent(w) \/ BeginFiling(w) \/ FileSource(w)
             \/ RecordFiled(w) \/ RecordFilingFailed(w) \/ ConfirmAction(w)
             \/ ReconcileFails(w) \/ ReviewSent(w) \/ Redraft(w)
             \/ RestartFiling(w) \/ Crash(w)
    PROVE  Act(w) \in Actions /\ Quiet(w)
<1>1. TypeOK /\ WorkerInv(w)
  BY DEF IInv
<1>2. Act(w) \in Actions
  BY <1>1 DEF WorkerInv, MarkUncertain, SendRefused, SendLost, RecordSubmitted,
     CheckSent, BeginFiling, FileSource, RecordFiled, RecordFilingFailed,
     ConfirmAction, ReconcileFails, ReviewSent, Redraft, RestartFiling, Crash
<1> USE <1>1, <1>2 DEF TypeOK, Quiet, Truthful, Confirming, WorkerInv, Act, Goto, rows,
        graph, start, tally
<1>3. CASE MarkUncertain(w)
  BY <1>3 DEF MarkUncertain, SetState
<1>4. CASE SendRefused(w)
  BY <1>4 DEF SendRefused
<1>5. CASE SendLost(w)
  BY <1>5 DEF SendLost, Lingers
<1>6. CASE RecordSubmitted(w)
  BY <1>6 DEF RecordSubmitted, SetState, Return
<1>7. CASE CheckSent(w)
  BY <1>7 DEF CheckSent, Return, SentDraftConfirmed
<1>8. CASE BeginFiling(w)
  BY <1>8 DEF BeginFiling, SetFiling, Return
<1>9. CASE FileSource(w)
  BY <1>9 DEF FileSource, FilingBreaks, JobType
<1>10. CASE RecordFiled(w)
  BY <1>10 DEF RecordFiled, SetFiling, FilingBreaks, JobType
<1>11. CASE RecordFilingFailed(w)
  BY <1>11 DEF RecordFilingFailed, SetFiling
<1>12. CASE ConfirmAction(w)
  BY <1>12 DEF ConfirmAction, SetState
<1>13. CASE ReconcileFails(w)
  BY <1>13 DEF ReconcileFails, SetState, SetFiling, Return
<1>14. CASE ReviewSent(w)
  BY <1>14 DEF ReviewSent, SentDraftConfirmed
<1>15. CASE Redraft(w)
  BY <1>15 DEF Redraft, SetState, Return
<1>16. CASE RestartFiling(w)
  BY <1>16 DEF RestartFiling, SetFiling, Return
<1>17. CASE Crash(w)
  BY <1>17 DEF Crash, Lingers, Return
<1> QED
  BY <1>3, <1>4, <1>5, <1>6, <1>7, <1>8, <1>9, <1>10, <1>11, <1>12, <1>13, <1>14,
     <1>15, <1>16, <1>17

LEMMA RecordOutboxSubmittedStep ==
    ASSUME IInv, TypeOK', NEW w \in Workers, RecordOutboxSubmitted(w)
    PROVE  IInv' /\ Step
<1>1. TypeOK /\ WorkerInv(w) /\ Act(w) \in Actions
  BY DEF IInv, WorkerInv, RecordOutboxSubmitted
<1>2. /\ mail' = mail /\ posts' = posts /\ reviews' = reviews
      /\ starter' = starter /\ writes' = writes /\ late' = late
  BY DEF RecordOutboxSubmitted, graph, start, tally
<1>3. \A v \in Workers \ {w} : pc'[v] = pc[v] /\ job'[v] = job[v]
  BY <1>1 DEF RecordOutboxSubmitted, Goto, TypeOK
<1>4. pc'[w] = "idle" \/ Act(w)' = Act(w)
  BY <1>1 DEF RecordOutboxSubmitted, Goto, Act, TypeOK
<1>5. pc'[w] \in {"idle", "recording"}
  BY <1>1 DEF RecordOutboxSubmitted, Goto, TypeOK
<1>6. SetOutbox(Act(w), "submitted") \/ outbox' = outbox
  BY DEF RecordOutboxSubmitted
<1>7. Proceeds(w)
  <2>1. \A a \in Actions : \/ outbox'[a] = outbox[a]
                           \/ outbox[a] # "none" /\ Attempted(a)'
    <3>1. CASE outbox' = outbox
      BY <3>1
    <3>2. CASE SetOutbox(Act(w), "submitted")
      BY <1>1, <3>2, RowShifts
    <3> QED
      BY <1>6, <3>1, <3>2
  <2> QED
    BY <1>2, <1>3, <1>5, <2>1 DEF Proceeds
<1>8. WorkerInv(w)'
  BY <1>1, <1>2, <1>4, <1>5, Informed DEF Confirming
<1>9. Truthful
  BY <1>1 DEF RecordOutboxSubmitted, Goto, graph, TypeOK, Truthful
<1> QED
  BY <1>1, <1>6, <1>7, <1>8, <1>9, Unseen, Updates

LEMMA RecordUnknownStep ==
    ASSUME IInv, TypeOK', NEW w \in Workers, RecordUnknown(w)
    PROVE  IInv' /\ Step
<1>1. TypeOK /\ WorkerInv(w) /\ Act(w) \in Actions
  BY DEF IInv, WorkerInv, RecordUnknown
<1>2. /\ mail' = mail /\ posts' = posts /\ reviews' = reviews
      /\ starter' = starter /\ writes' = writes /\ late' = late
  BY DEF RecordUnknown, graph, start, tally
<1>3. \A v \in Workers \ {w} : pc'[v] = pc[v] /\ job'[v] = job[v]
  BY <1>1 DEF RecordUnknown, Return, Goto, TypeOK
<1>4. pc'[w] = "idle" \/ Act(w)' = Act(w)
  BY <1>1 DEF RecordUnknown, Return, Goto, Act, TypeOK
<1>5. pc'[w] \in {"idle", "recording"}
  BY <1>1 DEF RecordUnknown, Return, Goto, TypeOK
<1>6. SetOutbox(Act(w), "uncertain") \/ outbox' = outbox
  BY DEF RecordUnknown
<1>7. Proceeds(w)
  <2>1. \A a \in Actions : \/ outbox'[a] = outbox[a]
                           \/ outbox[a] # "none" /\ Attempted(a)'
    <3>1. CASE outbox' = outbox
      BY <3>1
    <3>2. CASE SetOutbox(Act(w), "uncertain")
      BY <1>1, <3>2, RowShifts
    <3> QED
      BY <1>6, <3>1, <3>2
  <2> QED
    BY <1>2, <1>3, <1>5, <2>1 DEF Proceeds
<1>8. WorkerInv(w)'
  BY <1>1, <1>2, <1>4, <1>5, Informed DEF Confirming
<1>9. Truthful
  BY <1>1 DEF RecordUnknown, Return, Goto, graph, TypeOK, Truthful
<1> QED
  BY <1>1, <1>6, <1>7, <1>8, <1>9, Unseen, Updates

LEMMA ReopenOutboxStep ==
    ASSUME IInv, TypeOK', NEW w \in Workers, ReopenOutbox(w)
    PROVE  IInv' /\ Step
<1>1. TypeOK /\ WorkerInv(w) /\ Act(w) \in Actions
  BY DEF IInv, WorkerInv, ReopenOutbox
<1>2. /\ mail' = mail /\ posts' = posts /\ reviews' = reviews
      /\ starter' = starter /\ writes' = writes /\ late' = late
  BY DEF ReopenOutbox, graph, start, tally
<1>3. \A v \in Workers \ {w} : pc'[v] = pc[v] /\ job'[v] = job[v]
  BY <1>1 DEF ReopenOutbox, Return, Goto, TypeOK
<1>4. pc'[w] = "idle" \/ Act(w)' = Act(w)
  BY <1>1 DEF ReopenOutbox, Return, Goto, Act, TypeOK
<1>5. pc'[w] \in {"idle", "recording"}
  BY <1>1 DEF ReopenOutbox, Return, Goto, TypeOK
<1>6. SetOutbox(Act(w), "submitted") \/ outbox' = outbox
  BY DEF ReopenOutbox
<1>7. Proceeds(w)
  <2>1. \A a \in Actions : \/ outbox'[a] = outbox[a]
                           \/ outbox[a] # "none" /\ Attempted(a)'
    <3>1. CASE outbox' = outbox
      BY <3>1
    <3>2. CASE SetOutbox(Act(w), "submitted")
      BY <1>1, <3>2, RowShifts
    <3> QED
      BY <1>6, <3>1, <3>2
  <2> QED
    BY <1>2, <1>3, <1>5, <2>1 DEF Proceeds
<1>8. WorkerInv(w)'
  BY <1>1, <1>2, <1>4, <1>5, Informed DEF Confirming
<1>9. Truthful
  BY <1>1 DEF ReopenOutbox, Return, Goto, graph, TypeOK, Truthful
<1> QED
  BY <1>1, <1>6, <1>7, <1>8, <1>9, Unseen, Updates

LEMMA ClaimFailsStep ==
    ASSUME IInv, TypeOK', NEW w \in Workers, ClaimFails(w)
    PROVE  IInv' /\ Step
<1>1. TypeOK /\ WorkerInv(w) /\ Act(w) \in Actions
  BY DEF IInv, WorkerInv, ClaimFails
<1>2. /\ mail' = mail /\ posts' = posts /\ reviews' = reviews
      /\ starter' = starter /\ writes' = writes /\ late' = late
  BY DEF ClaimFails, graph, start, tally
<1>3. \A v \in Workers \ {w} : pc'[v] = pc[v] /\ job'[v] = job[v]
  BY <1>1 DEF ClaimFails, SetState, Return, Goto, TypeOK
<1>4. pc'[w] = "idle" \/ Act(w)' = Act(w)
  BY <1>1 DEF ClaimFails, SetState, Return, Goto, Act, TypeOK
<1>5. pc'[w] \in {"idle", "recording"}
  BY <1>1 DEF ClaimFails, SetState, Return, Goto, TypeOK
<1>6. SetOutbox(Act(w), "uncertain") \/ outbox' = outbox
  BY DEF ClaimFails, SetOutbox
<1>7. Proceeds(w)
  <2>1. \A a \in Actions : \/ outbox'[a] = outbox[a]
                           \/ outbox[a] # "none" /\ Attempted(a)'
    <3>1. CASE outbox' = outbox
      BY <3>1
    <3>2. CASE SetOutbox(Act(w), "uncertain")
      BY <1>1, <3>2, RowShifts
    <3> QED
      BY <1>6, <3>1, <3>2
  <2> QED
    BY <1>2, <1>3, <1>5, <2>1 DEF Proceeds
<1>8. WorkerInv(w)'
  BY <1>1, <1>2, <1>4, <1>5, Informed DEF Confirming
<1>9. Truthful
  BY <1>1 DEF ClaimFails, SetState, Return, Goto, graph, TypeOK, Truthful
<1> QED
  BY <1>1, <1>6, <1>7, <1>8, <1>9, Unseen, Updates

LEMMA ConfirmOutboxStep ==
    ASSUME IInv, TypeOK', NEW w \in Workers, ConfirmOutbox(w)
    PROVE  IInv' /\ Step
<1>0. PICK a \in Actions : a = Act(w)
  BY DEF IInv, WorkerInv, ConfirmOutbox
<1>1. TypeOK /\ WorkerInv(w) /\ Act(w) = a /\ mail[a] = "sent"
  BY <1>0 DEF IInv, WorkerInv, ConfirmOutbox, Confirming
<1>2. /\ mail' = mail /\ posts' = posts /\ reviews' = reviews
      /\ starter' = starter /\ writes' = writes /\ late' = late
      /\ state' = state /\ filing' = filing /\ source' = source
  BY DEF ConfirmOutbox, graph, start, tally
<1>3. pc'[w] = "idle" /\ \A v \in Workers \ {w} : pc'[v] = pc[v] /\ job'[v] = job[v]
  BY <1>1 DEF ConfirmOutbox, Return, TypeOK
<1>4. \/ outbox' = outbox
      \/ /\ outbox[a] \notin {"none", "confirmed"}
         /\ outbox' = [outbox EXCEPT ![a] = "confirmed"]
  BY <1>1 DEF ConfirmOutbox, SetOutbox
<1>5. Proceeds(w)
  <2>1. CASE outbox' = outbox
    BY <1>2, <1>3, <2>1 DEF Proceeds
  <2>2. CASE SetOutbox(a, "confirmed")
    BY <1>1, <1>2, <1>3, <2>2, RowShifts DEF Proceeds
  <2> QED
    BY <1>1, <2>1, <2>2 DEF ConfirmOutbox
<1>6. WorkerInv(w)'
  BY <1>3 DEF WorkerInv, Confirming
<1>7. Truthful
  BY <1>2 DEF Truthful
<1>8. CASE outbox' = outbox
  BY <1>5, <1>6, <1>7, <1>8, Unseen
<1>9. CASE /\ outbox[a] \notin {"none", "confirmed"}
           /\ outbox' = [outbox EXCEPT ![a] = "confirmed"]
  <2>1. ConfirmedMeansSent'
    <3>1. \A b \in Actions : /\ mail[b] = "sent" => mail'[b] = "sent"
                             /\ outbox'[b] = "confirmed" =>
                                  outbox[b] = "confirmed" \/ mail[b] = "sent"
      BY <1>1, <1>2, <1>9 DEF TypeOK
    <3> QED
      BY <1>7, <3>1, SentKept DEF IInv
  <2>2. Delivery!Settle(a)
    <3>1. [b \in Actions |-> IF outbox[b] = "none" THEN "none"
                            ELSE IF outbox[b] = "draft_created" THEN "ready"
                            ELSE "attempted"]'
          = [[b \in Actions |-> IF outbox[b] = "none" THEN "none"
                               ELSE IF outbox[b] = "draft_created" THEN "ready"
                               ELSE "attempted"] EXCEPT ![a] = "attempted"]
      BY <1>1, <1>9 DEF TypeOK
    <3>2. [b \in Actions |-> outbox[b] = "confirmed"]'
          = [[b \in Actions |-> outbox[b] = "confirmed"] EXCEPT ![a] = TRUE]
      BY <1>1, <1>9 DEF TypeOK
    <3>3. outbox[a] # "none" /\ mail[a] \in {"accepted", "sent"}
      BY <1>1, <1>9
    <3> QED
      BY <1>2, <3>1, <3>2, <3>3 DEF Delivery!Settle
  <2>3. Step
    BY <1>1, <2>2 DEF Step, Delivery!Next
  <2> QED
    BY <1>5, <1>6, <2>1, <2>3, WorkerProceeds
<1> QED
  BY <1>4, <1>8, <1>9

\* The cron, a poll or a person gives an idle worker an entry.
LEMMA GivenSteps ==
    ASSUME IInv, NEW w \in Workers, NEW a \in Actions,
           ReadEntry(w, a) \/ PersonStep(w, a)
    PROVE  IInv' /\ Step
<1>1. TypeOK /\ TypeOK' /\ job'[w].act = a
  BY PersonType DEF IInv, PersonStep
<1>2. /\ outbox' = outbox /\ mail' = mail /\ posts' = posts /\ reviews' = reviews
      /\ starter' = starter /\ writes' = writes /\ late' = late
      /\ state' = state /\ filing' = filing /\ source' = source
  BY DEF ReadEntry, PersonStep, RequestReview, RequestFilingRetry, rows, graph,
         start, tally
<1>3. \A v \in Workers \ {w} : pc'[v] = pc[v] /\ job'[v] = job[v]
  <2>1. CASE ReadEntry(w, a)
    BY <1>1, <2>1 DEF ReadEntry, Goto, TypeOK
  <2>2. CASE RequestReview(w, a)
    BY <1>1, <2>2 DEF RequestReview, Goto, TypeOK
  <2>3. CASE RequestFilingRetry(w, a)
    BY <1>1, <2>3 DEF RequestFilingRetry, Goto, TypeOK
  <2> QED
    BY <2>1, <2>2, <2>3 DEF PersonStep
<1>4. pc'[w] \in {"entry", "reviewing"} \/ (pc'[w] = "refiling" /\ filing[a] = "failed")
  <2>1. CASE ReadEntry(w, a)
    BY <1>1, <2>1 DEF ReadEntry, Goto, TypeOK
  <2>2. CASE RequestReview(w, a)
    BY <1>1, <2>2 DEF RequestReview, Goto, TypeOK
  <2>3. CASE RequestFilingRetry(w, a)
    BY <1>1, <2>3 DEF RequestFilingRetry, Goto, TypeOK
  <2> QED
    BY <2>1, <2>2, <2>3 DEF PersonStep
<1>5. Proceeds(w)
  BY <1>2, <1>3, <1>4 DEF Proceeds
<1>6. WorkerInv(w)'
  <2>1. pc'[w] = "refiling" => mail'[a] = "sent"
    BY <1>2, <1>4 DEF IInv, ConfirmedMeansSent
  <2> QED
    BY <1>1, <1>4, <2>1 DEF WorkerInv, Confirming, Act
<1>7. Truthful
  BY <1>2 DEF Truthful
<1> QED
  BY <1>1, <1>2, <1>5, <1>6, <1>7, Unseen

-----------------------------------------------------------------------------
(* The steps that spend the budget, and the one that adds to it *)

\* The workers that do not move, whatever the one that does finds out.
LEMMA OthersKept ==
    ASSUME IInv, NEW w \in Workers, WorkerInv(w)',
           \A v \in Workers \ {w} : pc'[v] = pc[v] /\ job'[v] = job[v],
           \A a \in Actions : /\ mail[a] = "sent" => mail'[a] = "sent"
                              /\ posts[a] > 0 => posts'[a] > 0
    PROVE  \A v \in Workers : WorkerInv(v)'
<1>1. SUFFICES ASSUME NEW v \in Workers \ {w} PROVE WorkerInv(v)'
  OBVIOUS
<1>2. WorkerInv(v) /\ pc'[v] = pc[v] /\ job'[v] = job[v]
  BY DEF IInv
<1> QED
  BY <1>2, WorkerKept

\* The compare and swap takes the one offer there is.
LEMMA ClaimStep ==
    ASSUME IInv, TypeOK', NEW w \in Workers, Claim(w)
    PROVE  IInv' /\ Step
<1>0. PICK a \in Actions : a = Act(w)
  BY DEF IInv, WorkerInv, Claim
<1>1. TypeOK /\ WorkerInv(w) /\ Act(w) = a
  BY <1>0 DEF IInv, WorkerInv, Claim
<1>2. /\ mail' = mail /\ posts' = posts /\ reviews' = reviews
      /\ starter' = starter /\ writes' = writes /\ late' = late
      /\ state' = state /\ filing' = filing /\ source' = source
  BY <1>1 DEF Claim, graph, start, tally
<1>3. \A v \in Workers \ {w} : pc'[v] = pc[v] /\ job'[v] = job[v]
  BY <1>1 DEF Claim, Goto, Return, TypeOK
<1>4. Truthful
  BY <1>2 DEF Truthful
<1>5. CASE outbox[a] # "draft_created"
  <2>1. pc'[w] = "idle" /\ outbox' = outbox
    BY <1>1, <1>5 DEF Claim, Return, TypeOK
  <2>2. Proceeds(w)
    BY <1>2, <1>3, <2>1 DEF Proceeds
  <2>3. WorkerInv(w)'
    BY <2>1 DEF WorkerInv, Confirming
  <2> QED
    BY <1>4, <2>1, <2>2, <2>3, Unseen
<1>6. CASE outbox[a] = "draft_created"
  <2>1. /\ outbox' = [outbox EXCEPT ![a] = "uncertain"]
        /\ pc' = [pc EXCEPT ![w] = "claimed"] /\ job' = job /\ pc[w] = "entry"
    BY <1>1, <1>6 DEF Claim, Goto
  <2>2. WorkerInv(w)'
    BY <1>1, <2>1 DEF WorkerInv, Confirming, Act, TypeOK
  <2>3. \A v \in Workers : WorkerInv(v)'
    BY <1>2, <1>3, <2>2, OthersKept
  <2>4. ASSUME NEW b \in Actions PROVE DraftInv(b)' /\ Budget(b)'
    <3>1. DraftInv(b) /\ Budget(b)
      BY DEF IInv
    <3>2. DraftInv(b)'
      BY <1>1, <1>2, <1>6, <2>1, <3>1 DEF DraftInv, TypeOK
    <3>3. CASE b # a
      <4>1. Claimers(b)' \subseteq Claimers(b)
        BY <1>1, <2>1, <3>3 DEF Claimers, Act, TypeOK
      <4>2. Attempted(b)' = Attempted(b)
        BY <1>1, <2>1, <3>3 DEF Attempted, TypeOK
      <4> QED
        BY <1>1, <1>2, <3>1, <3>2, <4>1, <4>2, BudgetKept
    <3>4. CASE b = a
      <4>1. w \notin Claimers(b) /\ Claimers(b)' = Claimers(b) \cup {w}
        BY <1>1, <2>1, <3>4 DEF Claimers, Act, TypeOK
      <4>2. IsFiniteSet(Claimers(b)) /\ Cardinality(Claimers(b)) \in Nat
        BY ClaimersFinite
      <4>3. Cardinality(Claimers(b)') = Cardinality(Claimers(b)) + 1
        BY <4>1, <4>2, FS_AddElement
      <4>4. ~Attempted(b) /\ Attempted(b)'
        BY <1>1, <1>6, <2>1, <3>4 DEF Attempted, TypeOK
      <4>5. posts[b] \in Nat /\ reviews[b] \in Nat
        BY <1>1 DEF TypeOK
      <4>6. Budget(b)'
        BY <1>2, <3>1, <4>2, <4>3, <4>4, <4>5 DEF Budget
      <4> QED
        BY <3>2, <4>6
    <3> QED
      BY <3>3, <3>4
  <2>5. ConfirmedMeansSent'
    <3>1. \A b \in Actions : /\ mail[b] = "sent" => mail'[b] = "sent"
                             /\ outbox'[b] = "confirmed" => outbox[b] = "confirmed"
      BY <1>1, <1>2, <2>1 DEF TypeOK
    <3> QED
      BY <1>4, <3>1, SentKept DEF IInv
  <2>6. Step
    <3>1. Delivery!Claim(a)
      <4>1. outbox \in [Actions -> OutboxStates]
        BY <1>1 DEF TypeOK
      <4>2. [b \in Actions |-> outbox[b] = "confirmed"]'
            = [b \in Actions |-> outbox[b] = "confirmed"]
        BY <1>6, <2>1, <4>1
      <4>3. [b \in Actions |-> IF outbox[b] = "none" THEN "none"
                                 ELSE IF outbox[b] = "draft_created" THEN "ready"
                                 ELSE "attempted"]'
               = [[b \in Actions |-> IF outbox[b] = "none" THEN "none"
                                    ELSE IF outbox[b] = "draft_created" THEN "ready"
                                    ELSE "attempted"] EXCEPT ![a] = "attempted"]
        BY <1>6, <2>1, <4>1
      <4> QED
        BY <1>2, <1>6, <4>2, <4>3 DEF Delivery!Claim
    <3> QED
      BY <1>1, <3>1 DEF Step, Delivery!Next
  <2> QED
    BY <2>3, <2>4, <2>5, <2>6 DEF IInv
<1> QED
  BY <1>5, <1>6

\* The request is paid for by the claim it ends.
LEMMA PostSendStep ==
    ASSUME IInv, TypeOK', NEW w \in Workers, PostSend(w)
    PROVE  IInv' /\ Step
<1>0. PICK a \in Actions : a = Act(w)
  BY DEF IInv, WorkerInv, PostSend
<1>1. TypeOK /\ WorkerInv(w) /\ Act(w) = a
  BY <1>0 DEF IInv, WorkerInv, PostSend
<1>2. /\ mail' = mail /\ outbox' = outbox /\ reviews' = reviews
      /\ starter' = starter /\ writes' = writes /\ late' = late
      /\ state' = state /\ filing' = filing /\ source' = source
      /\ posts' = [posts EXCEPT ![a] = @ + 1] /\ job' = job
      /\ pc[w] = "marked" /\ pc' = [pc EXCEPT ![w] = "sending"]
  BY <1>1 DEF PostSend, Goto, rows, graph, start
<1>3. \A b \in Actions : /\ posts[b] \in Nat /\ reviews[b] \in Nat
                         /\ posts'[b] = IF b = a THEN posts[b] + 1 ELSE posts[b]
  BY <1>1, <1>2 DEF TypeOK
<1>4. WorkerInv(w)'
  BY <1>1, <1>2, <1>3 DEF WorkerInv, Confirming, Act, TypeOK
<1>5. \A v \in Workers : WorkerInv(v)'
  <2>1. \A v \in Workers \ {w} : pc'[v] = pc[v] /\ job'[v] = job[v]
    BY <1>1, <1>2 DEF TypeOK
  <2>2. \A b \in Actions : posts[b] > 0 => posts'[b] > 0
    BY <1>3
  <2> QED
    BY <1>2, <1>4, <2>1, <2>2, OthersKept
<1>6. w \in Claimers(a) /\ Claimers(a)' = Claimers(a) \ {w}
  BY <1>1, <1>2 DEF Claimers, Act, TypeOK
<1>7. /\ Cardinality(Claimers(a)) \in Nat /\ Cardinality(Claimers(a)') \in Nat
      /\ Cardinality(Claimers(a)') = Cardinality(Claimers(a)) - 1
  BY <1>1, <1>6, ClaimersFinite, FS_RemoveElement, FS_CardinalityType
<1>8. ASSUME NEW b \in Actions PROVE DraftInv(b)' /\ Budget(b)'
  <2>1. DraftInv(b) /\ Budget(b)
    BY DEF IInv
  <2>2. DraftInv(b)'
    BY <1>2, <1>3, <2>1 DEF DraftInv
  <2>3. Attempted(b)' = Attempted(b)
    BY <1>2 DEF Attempted
  <2>4. CASE b = a
    <3>1. posts'[b] = posts[b] + 1 /\ reviews'[b] = reviews[b]
      BY <1>2, <1>3, <2>4
    <3>2. Budget(b)'
      BY <1>3, <1>7, <2>1, <2>3, <2>4, <3>1 DEF Budget
    <3> QED
      BY <2>2, <3>2
  <2>5. CASE b # a
    <3>1. Claimers(b)' \subseteq Claimers(b)
      BY <1>1, <1>2, <2>5 DEF Claimers, Act, TypeOK
    <3> QED
      BY <1>1, <1>2, <1>3, <2>1, <2>2, <2>3, <2>5, <3>1, BudgetKept
  <2> QED
    BY <2>4, <2>5
<1>9. ConfirmedMeansSent'
  BY <1>2 DEF IInv, ConfirmedMeansSent
<1>10. Step
  <2>1. posts[a] < reviews[a] + (IF Attempted(a) THEN 1 ELSE 0)
    BY <1>1, <1>3, <1>7 DEF IInv, Budget
  <2>2. Delivery!Post(a)
    BY <1>1, <1>2, <2>1 DEF Delivery!Post, Delivery!Claims, Attempted, TypeOK
  <2> QED
    BY <1>1, <2>2 DEF Step, Delivery!Next
<1> QED
  BY <1>5, <1>8, <1>9, <1>10 DEF IInv

LEMMA SendAcceptedStep ==
    ASSUME IInv, TypeOK', NEW w \in Workers, SendAccepted(w)
    PROVE  IInv' /\ Step
<1>0. PICK a \in Actions : a = Act(w)
  BY DEF IInv, WorkerInv, SendAccepted
<1>1. TypeOK /\ WorkerInv(w) /\ Act(w) = a /\ posts[a] > 0
  BY <1>0 DEF IInv, WorkerInv, SendAccepted
<1>2. /\ outbox' = outbox /\ posts' = posts /\ reviews' = reviews
      /\ starter' = starter /\ writes' = writes /\ late' = late
      /\ state' = state /\ filing' = filing /\ source' = source
      /\ mail[a] = "draft" /\ mail' = [mail EXCEPT ![a] = "accepted"] /\ job' = job
      /\ pc[w] = "sending" /\ pc' = [pc EXCEPT ![w] = "accepted"]
  BY <1>1 DEF SendAccepted, Goto, rows, start, tally
<1>3. \A b \in Actions : /\ mail[b] = "sent" => mail'[b] = "sent"
                         /\ mail[b] = "none" => mail'[b] = "none"
  BY <1>1, <1>2 DEF TypeOK
<1>4. \A v \in Workers : WorkerInv(v)'
  <2>1. \A v \in Workers \ {w} : pc'[v] = pc[v] /\ job'[v] = job[v]
    BY <1>1, <1>2 DEF TypeOK
  <2>2. WorkerInv(w)'
    BY <1>1, <1>2 DEF WorkerInv, Confirming, Act, TypeOK
  <2> QED
    BY <1>2, <1>3, <2>1, <2>2, OthersKept
<1>5. ASSUME NEW b \in Actions PROVE DraftInv(b)' /\ Budget(b)'
  <2>1. DraftInv(b) /\ Budget(b)
    BY DEF IInv
  <2>2. DraftInv(b)'
    BY <1>2, <1>3, <2>1 DEF DraftInv
  <2>3. Claimers(b)' \subseteq Claimers(b) /\ Attempted(b)' = Attempted(b)
    BY <1>1, <1>2 DEF Claimers, Attempted, TypeOK
  <2> QED
    BY <1>1, <1>2, <2>1, <2>2, <2>3, BudgetKept
<1>6. ConfirmedMeansSent'
  BY <1>2, <1>3 DEF IInv, ConfirmedMeansSent
<1>7. Step
  <2>1. Delivery!Deliver(a)
    <3>1. mail \in [Actions -> {"none", "draft", "accepted", "sent"}]
      BY <1>1 DEF TypeOK
    <3>2. [b \in Actions |-> mail[b] \in {"accepted", "sent"}]'
          = [[b \in Actions |-> mail[b] \in {"accepted", "sent"}] EXCEPT ![a] = TRUE]
      BY <1>2, <3>1
    <3> QED
      BY <1>1, <1>2, <3>2 DEF Delivery!Deliver
  <2> QED
    BY <1>1, <2>1 DEF Step, Delivery!Next
<1> QED
  BY <1>4, <1>5, <1>6, <1>7 DEF IInv

\* A review gives back the offer and pays for the claim to come.
LEMMA ResetOutboxStep ==
    ASSUME IInv, TypeOK', NEW w \in Workers, ResetOutbox(w)
    PROVE  IInv' /\ Step
<1>0. PICK a \in Actions : a = Act(w)
  BY DEF IInv, WorkerInv, ResetOutbox
<1>1. TypeOK /\ WorkerInv(w) /\ Act(w) = a
  BY <1>0 DEF IInv, WorkerInv, ResetOutbox
<1>2. /\ mail' = mail /\ posts' = posts
      /\ starter' = starter /\ writes' = writes /\ late' = late
      /\ state' = state /\ filing' = filing /\ source' = source
  BY <1>1 DEF ResetOutbox, graph, start
<1>3. \A v \in Workers \ {w} : pc'[v] = pc[v] /\ job'[v] = job[v]
  BY <1>1 DEF ResetOutbox, Goto, Return, TypeOK
<1>4. pc'[w] = "idle" \/ (pc'[w] = "redrafting" /\ Act(w)' = Act(w))
  <2>1. CASE Return(w)
    BY <1>1, <2>1 DEF Return, TypeOK
  <2>2. CASE Goto(w, "redrafting") /\ job' = job
    BY <1>1, <2>2 DEF Goto, Act, TypeOK
  <2> QED
    BY <2>1, <2>2 DEF ResetOutbox
<1>5. Truthful
  BY <1>2 DEF Truthful
<1>6. WorkerInv(w)'
  BY <1>1, <1>2, <1>4, Informed DEF Confirming
<1>7. CASE outbox[a] # "uncertain"
  <2>1. outbox' = outbox /\ reviews' = reviews
    BY <1>1, <1>7 DEF ResetOutbox
  <2>2. Proceeds(w)
    BY <1>2, <1>3, <1>4, <2>1 DEF Proceeds
  <2> QED
    BY <1>5, <1>6, <2>1, <2>2, Unseen
<1>8. CASE outbox[a] = "uncertain"
  <2>1. /\ outbox' = [outbox EXCEPT ![a] = "draft_created"]
        /\ reviews' = [reviews EXCEPT ![a] = @ + 1]
    BY <1>1, <1>8 DEF ResetOutbox
  <2>2. ASSUME NEW b \in Actions PROVE DraftInv(b)' /\ Budget(b)'
    <3>1. DraftInv(b) /\ Budget(b)
      BY DEF IInv
    <3>2. DraftInv(b)'
      BY <1>1, <1>2, <1>8, <2>1, <3>1 DEF DraftInv, TypeOK
    <3>3. Claimers(b)' \subseteq Claimers(b)
      BY <1>3, <1>4 DEF Claimers
    <3>4. CASE b # a
      <4>1. Attempted(b)' = Attempted(b) /\ reviews'[b] = reviews[b]
        BY <1>1, <2>1, <3>4 DEF Attempted, TypeOK
      <4> QED
        BY <1>1, <1>2, <3>1, <3>2, <3>3, <4>1, BudgetKept
    <3>5. CASE b = a
      <4>1. Attempted(b) /\ ~Attempted(b)' /\ reviews'[b] = reviews[b] + 1
        BY <1>1, <1>8, <2>1, <3>5 DEF Attempted, TypeOK
      <4>2. /\ Cardinality(Claimers(b)) \in Nat /\ Cardinality(Claimers(b)') \in Nat
            /\ Cardinality(Claimers(b)') <= Cardinality(Claimers(b))
        BY <3>3, ClaimersFinite, FS_Subset, FS_CardinalityType
      <4>3. posts[b] \in Nat /\ reviews[b] \in Nat
        BY <1>1 DEF TypeOK
      <4>4. Budget(b)'
        BY <1>2, <3>1, <4>1, <4>2, <4>3 DEF Budget
      <4> QED
        BY <3>2, <4>4
    <3> QED
      BY <3>4, <3>5
  <2>3. ConfirmedMeansSent'
    <3>1. \A b \in Actions : /\ mail[b] = "sent" => mail'[b] = "sent"
                             /\ outbox'[b] = "confirmed" => outbox[b] = "confirmed"
      BY <1>1, <1>2, <2>1 DEF TypeOK
    <3> QED
      BY <1>5, <3>1, SentKept DEF IInv
  <2>4. Step
    <3>1. Delivery!Review(a)
      <4>1. outbox \in [Actions -> OutboxStates] /\ reviews \in [Actions -> Nat]
        BY <1>1 DEF TypeOK
      <4>2. [b \in Actions |-> outbox[b] = "confirmed"]'
            = [b \in Actions |-> outbox[b] = "confirmed"]
        BY <1>8, <2>1, <4>1
      <4>3. [b \in Actions |-> IF outbox[b] = "none" THEN "none"
                                 ELSE IF outbox[b] = "draft_created" THEN "ready"
                                 ELSE "attempted"]'
               = [[b \in Actions |-> IF outbox[b] = "none" THEN "none"
                                    ELSE IF outbox[b] = "draft_created" THEN "ready"
                                    ELSE "attempted"] EXCEPT ![a] = "ready"]
        BY <1>8, <2>1, <4>1
      <4> QED
        BY <1>2, <1>8, <2>1, <4>2, <4>3 DEF Delivery!Review
    <3> QED
      BY <1>1, <3>1 DEF Step, Delivery!Next
  <2>5. \A v \in Workers : WorkerInv(v)'
    BY <1>2, <1>3, <1>6, OthersKept
  <2> QED
    BY <2>2, <2>3, <2>4, <2>5 DEF IInv
<1> QED
  BY <1>7, <1>8

LEMMA WorkerSteps ==
    ASSUME IInv, NEW w \in Workers, WorkerStep(w) \/ WorkerFault(w)
    PROVE  IInv' /\ Step
<1>1. TypeOK'
  BY WorkerType DEF IInv
<1>2. CASE WorkerFault(w)
  BY <1>1, <1>2, ClaimFailsStep, QuietSteps, QuietStep DEF WorkerFault
<1>3. CASE WorkerStep(w)
  BY <1>1, <1>3, ClaimStep, PostSendStep, SendAcceptedStep, RecordOutboxSubmittedStep,
     RecordUnknownStep, ReopenOutboxStep, ConfirmOutboxStep, ResetOutboxStep,
     QuietSteps, QuietStep
     DEF WorkerStep
<1> QED
  BY <1>2, <1>3

-----------------------------------------------------------------------------
(* The theorems *)

LEMMA NoJobType == NoJob \in JobType
  BY DEF JobType, NoJob, OutboxStates, Filings

LEMMA Initially == Init => IInv /\ Delivery!Init
<1>1. SUFFICES ASSUME Init PROVE IInv /\ Delivery!Init
  OBVIOUS
<1>2. TypeOK
  BY <1>1, NoJobType DEF Init, TypeOK, States, Filings, OutboxStates, Pcs
<1>3. \A w \in Workers : WorkerInv(w)
  BY <1>1 DEF Init, WorkerInv, Confirming
<1>4. ConfirmedMeansSent
  BY <1>1 DEF Init, ConfirmedMeansSent
<1>5. ASSUME NEW a \in Actions PROVE DraftInv(a) /\ Budget(a)
  <2>1. DraftInv(a)
    BY <1>1 DEF Init, DraftInv
  <2>2. Claimers(a) = {}
    BY <1>1 DEF Init, Claimers
  <2>3. Cardinality(Claimers(a)) = 0
    BY <2>2, FS_EmptySet
  <2>4. Budget(a)
    BY <1>1, <2>3 DEF Init, Budget, Attempted
  <2> QED
    BY <2>1, <2>4
<1>6. Delivery!Init
  <2>1. /\ outbox = [a \in Actions |-> "none"] /\ mail = [a \in Actions |-> "none"]
        /\ posts = [a \in Actions |-> 0] /\ reviews = [a \in Actions |-> 0]
    BY <1>1 DEF Init
  <2>2. /\ \A a \in Actions : outbox[a] = "none" /\ mail[a] = "none"
        /\ posts = [a \in Actions |-> 0] /\ reviews = [a \in Actions |-> 0]
    BY <2>1
  <2>3. [a \in Actions |-> mail[a] \in {"accepted", "sent"}] = [a \in Actions |-> FALSE]
    <3>1. \A a \in Actions : (mail[a] \in {"accepted", "sent"}) = FALSE
      BY <2>2
    <3> QED
      BY <3>1, Zenon
  <2>4. [a \in Actions |-> outbox[a] = "confirmed"] = [a \in Actions |-> FALSE]
    BY <2>2
  <2>5. [a \in Actions |-> IF outbox[a] = "none" THEN "none"
                          ELSE IF outbox[a] = "draft_created" THEN "ready"
                          ELSE "attempted"] = [a \in Actions |-> "none"]
    BY <2>2
  <2> QED
    BY <2>2, <2>3, <2>4, <2>5 DEF Delivery!Init
<1> QED
  BY <1>2, <1>3, <1>4, <1>5, <1>6 DEF IInv

LEMMA Inductive == IInv /\ [Next]_vars => IInv' /\ Step
<1>1. SUFFICES ASSUME IInv, [Next]_vars PROVE IInv' /\ Step
  OBVIOUS
<1>2. CASE Next
  <2>1. CASE \E a \in Actions : StarterStep(a) \/ StarterFault(a) \/ GraphStep(a)
    BY <1>1, <2>1, StarterSteps, GraphSteps
  <2>2. CASE \E w \in Workers : WorkerStep(w) \/ WorkerFault(w)
    BY <1>1, <2>2, WorkerSteps
  <2>3. CASE \E w \in Workers, a \in Actions : ReadEntry(w, a) \/ PersonStep(w, a)
    BY <1>1, <2>3, GivenSteps
  <2> QED
    BY <1>2, <2>1, <2>2, <2>3 DEF Next
<1>3. CASE UNCHANGED vars
  <2>1. UNCHANGED <<state, mode, draftId, filing, outbox, mail, source, late, starter,
                    writes, pc, job, posts, reviews, refiles, faults>>
    BY <1>3 DEF vars, rows, graph, start, work, tally
  <2>2. Step
    BY <1>1, <2>1, Stutters DEF IInv
  <2>3. TypeOK'
    BY <1>1, <2>1 DEF IInv, TypeOK
  <2>4. ConfirmedMeansSent' /\ \A w \in Workers : WorkerInv(w)'
    BY <1>1, <2>1 DEF IInv, ConfirmedMeansSent, WorkerInv, Act
  <2>5. \A a \in Actions : DraftInv(a)' /\ Budget(a)'
    BY <1>1, <2>1 DEF IInv, DraftInv, Budget, Claimers, Attempted
  <2> QED
    BY <2>2, <2>3, <2>4, <2>5 DEF IInv
<1> QED
  BY <1>1, <1>2, <1>3

LEMMA Invariance == Spec => []IInv
<1>1. Init => IInv
  BY Initially
<1>2. IInv /\ [Next]_vars => IInv'
  BY Inductive
<1> QED
  BY <1>1, <1>2, PTL DEF Spec

\* Whatever invocations race, fail or die, the rows, the messages and the
\* workers keep their types (processEmailRouterOutbox and what surrounds it).
THEOREM TypeCorrect == Spec => []TypeOK
<1>1. IInv => TypeOK
  BY DEF IInv
<1> QED
  BY <1>1, Invariance, PTL

\* A draft is submitted once and once more per review, for any number of
\* invocations: the claim of processEmailRouterOutbox pays for the request.
THEOREM OnePost == Spec => []OnePostPerReview
<1>1. IInv => OnePostPerReview
  <2>1. SUFFICES ASSUME IInv, NEW a \in Actions PROVE posts[a] <= 1 + reviews[a]
    BY DEF OnePostPerReview
  <2>2. Cardinality(Claimers(a)) \in Nat /\ posts[a] \in Nat /\ reviews[a] \in Nat
    BY <2>1, ClaimersFinite DEF IInv, TypeOK
  <2> QED
    BY <2>1, <2>2 DEF IInv, Budget
<1> QED
  BY <1>1, Invariance, PTL

\* No action is confirmed and no source message filed before the outgoing
\* message is in Sent Items (confirmSubmittedAction).
THEOREM Confirmed == Spec => []ConfirmedMeansSent
<1>1. IInv => ConfirmedMeansSent
  BY DEF IInv
<1> QED
  BY <1>1, Invariance, PTL

\* The outbox, the requests and the mailbox implement EmailDelivery, for any
\* actions, workers and failures.
THEOREM Implements == Spec => ImplementsDelivery
<1>1. Init => Delivery!Init
  BY Initially
<1>2. IInv /\ [Next]_vars => [Delivery!Next]_(Delivery!vars)
  BY Inductive DEF Step
<1> QED
  BY <1>1, <1>2, Invariance, PTL DEF Spec, ImplementsDelivery, Delivery!Spec
=============================================================================
