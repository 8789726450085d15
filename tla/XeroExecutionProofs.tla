------------------------ MODULE XeroExecutionProofs ------------------------
(***************************************************************************)
(* What an invocation of XeroFinancialSync has in hand between its read of *)
(* the rows and its finish: no selected row is lost on the way, and each   *)
(* update is aimed at the version that was reviewed.                       *)
(***************************************************************************)
EXTENDS XeroFinancialSyncProofs

Executing(p) == p \in {"reading", "working", "posting", "settling", "marking"}

\* The re-read of Xero is done and found the batch current.
Reviewed(j) == "xero" \in j.seen /\ ~j.stale

\* The update of row d of run r is aimed at the reviewed version, or at a
\* document in t.
Fits(r, d, t) ==
    item[r][d].action = "safe_update" =>
       \/ item[r][d].target \in t
       \/ /\ xero[item[r][d].target].stamp = item[r][d].stamp
          /\ xero[item[r][d].target].state = "mutable"

\* What an executing invocation at p with local variables j and touched
\* documents t has in hand: all the selected rows; of these the pending ones
\* are not checkpointed, and the others are, or one was marked failed; a link
\* in its batch has its identity.  Before that it has not read anything.
Holds(p, j, t) ==
    /\ p \in {"requested", "started"} => j.seen = {}
    /\ Executing(p) =>
         /\ \A d \in Docs : d \in j.rows <=> item[j.run][d].selected
         /\ \A d \in j.pend : item[j.run][d].status \notin DoneStatuses
         /\ \A d \in j.rows : \/ d \in j.pend \/ j.failed
                              \/ item[j.run][d].status \in DoneStatuses
         /\ \A d \in j.batch : item[j.run][d].action \in NoWriteActions =>
                                 p # "posting" /\ j.result[d].slot # NoSlot
         /\ p # "reading" => Reviewed(j)
         /\ Reviewed(j) => \A d \in j.pend : Fits(j.run, d, t)

AllHold == \A w \in Workers : Holds(pc[w], job[w], touched[w])

\* A row that links is never marked failed, so its checkpoint, which expects
\* it as it was selected, finds it so.
LinksNeverFail ==
    \A r \in Runs, d \in Docs :
      item[r][d].action \in NoWriteActions => item[r][d].status # "failed"

Execution == AllHold /\ LinksNeverFail /\ CompletedIsComplete

-----------------------------------------------------------------------------
(* What one step leaves alone *)

\* A step of w is none of another invocation's business.
LEMMA OtherWorkers ==
    ASSUME IInv, NEW w \in Workers, WorkerStep(w) \/ WorkerFault(w)
    PROVE  /\ UNCHANGED <<source, xero, replies, edits>>
           /\ \A v \in Workers \ {w} : /\ pc'[v] = pc[v] /\ job'[v] = job[v]
                                       /\ touched'[v] = touched[v]
<1>1. /\ pc \in [Workers -> Pcs] /\ job \in [Workers -> JobType]
      /\ touched \in [Workers -> SUBSET Slots]
  BY DEF IInv, TypeOK
<1>2. CASE WorkerFault(w)
  BY <1>1, <1>2 DEF WorkerFault, LoadFails, ReadFails, PostFails, external,
     ReserveReached, RowWriteFails, FinishFails, Crash, Goto, Return
<1>3. CASE \/ StartRun(w) \/ StartRefused(w) \/ LoadRows(w)
           \/ ReadSalesforce(w) \/ ReadXero(w) \/ AssertStillCurrent(w)
  BY <1>1, <1>3 DEF StartRun, StartRefused, LoadRows, ReadSalesforce, ReadXero,
     AssertStillCurrent, Goto, Return, external
<1>4. CASE \/ LinkRow(w) \/ PostBatch(w) \/ PostAnswered(w) \/ PostRejected(w)
  BY <1>1, <1>4 DEF LinkRow, PostBatch, PostAnswered, PostRejected, Goto,
     external
<1>5. CASE \/ SettleFailed(w) \/ UpsertMapping(w) \/ CheckpointRow(w)
           \/ FinishRun(w) \/ FailRun(w)
  BY <1>1, <1>5 DEF SettleFailed, UpsertMapping, CheckpointRow, FinishRun,
     FailRun, Goto, Return, external
<1> QED
  BY <1>2, <1>3, <1>4, <1>5 DEF WorkerStep

\* w settles row d of run r: its local variables go from j to k without the
\* row, it goes on at p, and no other row is written.
Settles(w, r, d, j, k, p) ==
    /\ j = job[w] /\ j.run = r /\ d = Current(w) /\ d \in j.batch /\ d \in j.pend
    /\ pc[w] \in {"settling", "marking"}
    /\ k = job'[w] /\ pc'[w] = p /\ touched' = touched
    /\ p = IF k.batch = {} THEN "working" ELSE "settling"
    /\ k.run = r /\ k.rows = j.rows /\ k.pend = j.pend \ {d}
    /\ k.batch = j.batch \ {d} /\ k.result = j.result
    /\ k.seen = j.seen /\ k.stale = j.stale
    /\ UNCHANGED <<run, mapping, wire>>
    /\ \A q \in Runs, e \in Docs :
         ~(q = r /\ e = d) => item'[q][e] = item[q][e]
    /\ item'[r][d].action = item[r][d].action
    /\ item'[r][d].selected = item[r][d].selected
    /\ item'[r][d].src = item[r][d].src

\* A row that could not be written is marked failed, or not even that, and the
\* invocation goes on with the next.
LEMMA FailedRowFacts ==
    ASSUME IInv, NEW w \in Workers, SettleFailed(w)
    PROVE  \E r \in Runs, d \in Docs, j \in JobType, k \in JobType, p \in Pcs :
             /\ Settles(w, r, d, j, k, p)
             /\ j.result[d].slot = NoSlot /\ k.failed /\ pc[w] = "settling"
             /\ item'[r][d].target = item[r][d].target
             /\ item'[r][d].stamp = item[r][d].stamp
             /\ item'[r][d].status \in {"failed", item[r][d].status}
<1>1. PICK r \in Runs, d \in Docs, j \in JobType :
        r = job[w].run /\ d = Current(w) /\ j = job[w]
  BY CurrentFacts DEF SettleFailed
<1>2. /\ item \in [Runs -> [Docs -> ItemType]] /\ item[r][d] \in ItemType
      /\ job \in [Workers -> JobType] /\ pc \in [Workers -> Pcs]
      /\ pc[w] = "settling"
  BY <1>1 DEF IInv, TypeOK, SettleFailed
<1>3. d \in j.batch /\ d \in j.pend
  <2>1. j.batch \in SUBSET Docs /\ j.batch # {} /\ j.batch \subseteq j.pend
    BY <1>1, <1>2, WorkerFacts DEF JobType, JobWellFormed
  <2> QED
    BY <1>1, <2>1, MinInSet DEF Current
<1>4. PICK k \in JobType : k = [j EXCEPT !.batch = @ \ {d}, !.pend = @ \ {d},
                                         !.failed = TRUE]
  <2>1. [j EXCEPT !.batch = @ \ {d}, !.pend = @ \ {d}, !.failed = TRUE] \in JobType
    BY DEF JobType
  <2> QED
    BY <2>1
<1>5. /\ k.run = r /\ k.rows = j.rows /\ k.pend = j.pend \ {d}
      /\ k.batch = j.batch \ {d} /\ k.result = j.result
      /\ k.seen = j.seen /\ k.stale = j.stale /\ k.failed
  BY <1>1, <1>4 DEF JobType
<1>6. PICK p \in Pcs : p = IF k.batch = {} THEN "working" ELSE "settling"
  BY DEF Pcs
<1>7. k = job'[w] /\ pc'[w] = p
  BY <1>1, <1>2, <1>4, <1>5, <1>6 DEF SettleFailed, Goto, AfterRow
<1>8. /\ j.result[d].slot = NoSlot
      /\ UNCHANGED <<run, mapping, wire, touched>>
      /\ \/ item' = [item EXCEPT ![r] = [item[r] EXCEPT ![d] =
                       [item[r][d] EXCEPT !.status = "failed"]]]
         \/ item' = item
  BY <1>1, <1>2 DEF SettleFailed, Result, external
<1>9. PICK i \in ItemType : i = [item[r][d] EXCEPT !.status = "failed"]
  <2>1. [item[r][d] EXCEPT !.status = "failed"] \in ItemType
    BY <1>2 DEF ItemType, ItemStatuses
  <2> QED
    BY <2>1
<1>10. /\ i.action = item[r][d].action /\ i.selected = item[r][d].selected
       /\ i.src = item[r][d].src /\ i.target = item[r][d].target
       /\ i.stamp = item[r][d].stamp /\ i.status = "failed"
  BY <1>2, <1>9 DEF ItemType
<1>11. /\ item'[r][d] \in {i, item[r][d]}
       /\ \A q \in Runs, e \in Docs :
            ~(q = r /\ e = d) => item'[q][e] = item[q][e]
  BY <1>2, <1>8, <1>9
<1> WITNESS r \in Runs, d \in Docs, j \in JobType, k \in JobType, p \in Pcs
<1> QED
  BY <1>1, <1>2, <1>3, <1>5, <1>6, <1>7, <1>8, <1>10, <1>11 DEF Settles

\* The checkpoint of a row; one that links is only checkpointed as selected.
LEMMA CheckpointFacts ==
    ASSUME IInv, NEW w \in Workers, CheckpointRow(w)
    PROVE  \E r \in Runs, d \in Docs, j \in JobType, k \in JobType, p \in Pcs :
             /\ Settles(w, r, d, j, k, p)
             /\ j.result[d].slot \in Slots /\ k.failed = j.failed
             /\ pc[w] = "marking"
             /\ \/ /\ item'[r][d].status \in DoneStatuses
                   /\ item'[r][d].target = j.result[d].slot
                \/ /\ item' = item
                   /\ item[r][d].action \in NoWriteActions
                   /\ item[r][d].status # "selected"
<1>1. PICK r \in Runs, d \in Docs, j \in JobType :
        r = job[w].run /\ d = Current(w) /\ j = job[w]
  BY CurrentFacts DEF CheckpointRow
<1>2. /\ item \in [Runs -> [Docs -> ItemType]] /\ item[r][d] \in ItemType
      /\ job \in [Workers -> JobType] /\ pc \in [Workers -> Pcs]
      /\ pc[w] = "marking" /\ JobWellFormed("marking", j)
      /\ Result(w) \in [slot : Slots \cup {NoSlot}, stamp : Nat]
      /\ Result(w) = j.result[d]
  BY <1>1, WorkerFacts, CurrentFacts DEF IInv, TypeOK, CheckpointRow, Result
<1>3. d \in j.batch /\ d \in j.pend /\ j.result[d].slot \in Slots
  <2>1. j.batch \in SUBSET Docs /\ j.batch # {} /\ j.batch \subseteq j.pend
    BY <1>2 DEF JobType, JobWellFormed
  <2>2. d \in j.batch /\ j.result[d].slot # NoSlot
    BY <1>1, <1>2, <2>1, MinInSet DEF Current, JobWellFormed
  <2> QED
    BY <1>2, <2>1, <2>2
<1>4. PICK k \in JobType : k = [j EXCEPT !.batch = @ \ {d}, !.pend = @ \ {d}]
  <2>1. [j EXCEPT !.batch = @ \ {d}, !.pend = @ \ {d}] \in JobType
    BY DEF JobType
  <2> QED
    BY <2>1
<1>5. /\ k.run = r /\ k.rows = j.rows /\ k.pend = j.pend \ {d}
      /\ k.batch = j.batch \ {d} /\ k.result = j.result
      /\ k.seen = j.seen /\ k.stale = j.stale /\ k.failed = j.failed
  BY <1>1, <1>4 DEF JobType
<1>6. PICK p \in Pcs : p = IF k.batch = {} THEN "working" ELSE "settling"
  BY DEF Pcs
<1>7. k = job'[w] /\ pc'[w] = p
  BY <1>1, <1>2, <1>4, <1>5, <1>6 DEF CheckpointRow, Goto, AfterRow
<1> DEFINE marked == [item[r][d] EXCEPT
                        !.status = CheckpointStatus(item[r][d].action),
                        !.target = Result(w).slot, !.stamp = Result(w).stamp]
<1>8. /\ UNCHANGED <<run, mapping, wire, touched>>
      /\ \/ item' = [item EXCEPT ![r] = [item[r] EXCEPT ![d] = marked]]
         \/ /\ item' = item /\ item[r][d].action \in NoWriteActions
            /\ item[r][d].status # "selected"
  BY <1>1, <1>2 DEF CheckpointRow, MyItem, external
<1>9. CheckpointStatus(item[r][d].action) \in DoneStatuses
  BY DEF CheckpointStatus, DoneStatuses
<1>10. PICK i \in ItemType : i = marked
  <2>1. marked \in ItemType
    BY <1>2, <1>3, <1>9 DEF ItemType, ItemStatuses, DoneStatuses
  <2> QED
    BY <2>1
<1>11. /\ i.action = item[r][d].action /\ i.selected = item[r][d].selected
       /\ i.src = item[r][d].src /\ i.target = j.result[d].slot
       /\ i.status \in DoneStatuses
  BY <1>2, <1>9, <1>10 DEF ItemType
<1> HIDE DEF marked
<1>12. CASE item' = [item EXCEPT ![r] = [item[r] EXCEPT ![d] = marked]]
  <2>1. /\ item'[r][d] = i
        /\ \A q \in Runs, e \in Docs :
             ~(q = r /\ e = d) => item'[q][e] = item[q][e]
    BY <1>2, <1>10, <1>12
  <2> WITNESS r \in Runs, d \in Docs, j \in JobType, k \in JobType, p \in Pcs
  <2> QED
    BY <1>1, <1>2, <1>3, <1>5, <1>6, <1>7, <1>8, <1>11, <2>1 DEF Settles
<1>13. CASE /\ item' = item /\ item[r][d].action \in NoWriteActions
            /\ item[r][d].status # "selected"
  <2> WITNESS r \in Runs, d \in Docs, j \in JobType, k \in JobType, p \in Pcs
  <2> QED
    BY <1>1, <1>2, <1>3, <1>5, <1>6, <1>7, <1>8, <1>13 DEF Settles
<1> QED
  BY <1>8, <1>12, <1>13

\* A step of w changes no row but the one w is settling.
LEMMA OtherRows ==
    ASSUME IInv, NEW w \in Workers, WorkerStep(w) \/ WorkerFault(w)
    PROVE  \/ item' = item
           \/ /\ SettleFailed(w) \/ CheckpointRow(w)
              /\ pc[w] \in {"settling", "marking"} /\ job[w].run \in Runs
              /\ Current(w) \in Docs
              /\ \A r \in Runs, d \in Docs :
                   ~(r = job[w].run /\ d = Current(w)) => item'[r][d] = item[r][d]
<1>1. CASE SettleFailed(w) \/ CheckpointRow(w)
  <2>1. CASE SettleFailed(w)
    BY <2>1, FailedRowFacts DEF Settles
  <2>2. CASE CheckpointRow(w)
    BY <2>2, CheckpointFacts DEF Settles
  <2> QED
    BY <1>1, <2>1, <2>2
<1>2. CASE ~(SettleFailed(w) \/ CheckpointRow(w))
  BY <1>2 DEF WorkerStep, WorkerFault, StartRun, StartRefused, LoadRows,
     ReadSalesforce, ReadXero, AssertStillCurrent, LinkRow, PostBatch,
     PostAnswered, PostRejected, UpsertMapping, FinishRun, FailRun, LoadFails,
     ReadFails, PostFails, ReserveReached, RowWriteFails, FinishFails, Crash
<1> QED
  BY <1>1, <1>2

\* Two invocations past their start are not of the same run, and it is
\* processing.
LEMMA Alone ==
    ASSUME IInv, Ownership, NEW v \in Workers, Working(pc[v])
    PROVE  /\ job[v].run \in Runs /\ run[job[v].run].status = "processing"
           /\ \A w \in Workers \ {v} : Working(pc[w]) => job[w].run # job[v].run
<1>1. job[v].run \in Runs
  BY WorkerFacts DEF JobWellFormed, Working
<1> QED
  BY <1>1 DEF Ownership, Owns, Working, Started

-----------------------------------------------------------------------------
(* The rows in hand *)

\* What v has in hand stays so while nobody else writes the rows of its run,
\* and what changes in Xero is marked as touched.
LEMMA HoldsFrame ==
    ASSUME IInv, NEW v \in Workers, Holds(pc[v], job[v], touched[v]),
           pc'[v] = pc[v], job'[v] = job[v], touched[v] \subseteq touched'[v],
           Executing(pc[v]) =>
             \A d \in Docs : item'[job[v].run][d] = item[job[v].run][d],
           \A x \in Slots : \/ xero'[x] = xero[x]
                            \/ "xero" \in job[v].seen => x \in touched'[v]
    PROVE  Holds(pc[v], job[v], touched[v])'
<1>1. PICK j \in JobType, p \in Pcs : j = job[v] /\ p = pc[v]
  BY DEF IInv, TypeOK
<1>2. PICK t, u : t \in SUBSET Slots /\ t = touched[v] /\ u = touched'[v]
  BY DEF IInv, TypeOK
<1>3. SUFFICES ASSUME Executing(p) PROVE Holds(p, j, u)'
  BY <1>1, <1>2 DEF Holds, Executing
<1>4. PICK r \in Runs : r = j.run
  BY <1>1, <1>3, WorkerFacts DEF JobWellFormed, Executing
<1>5. /\ j.rows \subseteq Docs /\ j.pend \subseteq j.rows /\ j.batch \subseteq j.pend
      /\ \A d \in Docs : item'[r][d] = item[r][d]
      /\ \A d \in j.rows : item[r][d].selected
  BY <1>1, <1>3, <1>4, WorkerFacts DEF JobWellFormed, JobType, Executing
<1>6. ASSUME Reviewed(j), NEW d \in j.pend PROVE Fits(r, d, u)'
  <2>1. Fits(r, d, t) /\ d \in Docs
    BY <1>1, <1>2, <1>3, <1>4, <1>5, <1>6 DEF Holds
  <2>2. CASE item[r][d].action # "safe_update"
    BY <1>5, <2>1, <2>2 DEF Fits
  <2>3. CASE item[r][d].action = "safe_update"
    <3>1. item[r][d].target \in Slots
      BY <2>1, <2>3 DEF IInv, RowsWellFormed
    <3>2. \/ item[r][d].target \in u
          \/ /\ item[r][d].target \notin t
             /\ xero'[item[r][d].target] = xero[item[r][d].target]
      BY <1>1, <1>2, <1>6, <3>1 DEF Reviewed
    <3> QED
      BY <1>2, <1>5, <2>1, <3>1, <3>2 DEF Fits
  <2> QED
    BY <2>2, <2>3
<1>7. /\ \A d \in Docs : d \in j.rows <=> item'[r][d].selected
      /\ \A d \in j.pend : item'[r][d].status \notin DoneStatuses
      /\ \A d \in j.rows : \/ d \in j.pend \/ j.failed
                           \/ item'[r][d].status \in DoneStatuses
      /\ \A d \in j.batch : item'[r][d].action \in NoWriteActions =>
                              p # "posting" /\ j.result[d].slot # NoSlot
      /\ p # "reading" => Reviewed(j)
  BY <1>1, <1>2, <1>3, <1>4, <1>5 DEF Holds
<1> QED
  BY <1>3, <1>4, <1>6, <1>7 DEF Holds, Executing

\* A step of w leaves what another invocation has in hand alone.
LEMMA HoldsOfOthers ==
    ASSUME IInv, Ownership, AllHold, NEW w \in Workers,
           WorkerStep(w) \/ WorkerFault(w), NEW v \in Workers \ {w}
    PROVE  Holds(pc[v], job[v], touched[v])'
<1>1. /\ pc'[v] = pc[v] /\ job'[v] = job[v] /\ touched'[v] = touched[v]
      /\ xero' = xero
  BY OtherWorkers
<1>2. ASSUME Executing(pc[v]), NEW d \in Docs
      PROVE  item'[job[v].run][d] = item[job[v].run][d]
  <2>1. Working(pc[v])
    BY <1>2 DEF Executing, Working
  <2>2. job[v].run \in Runs
    BY <2>1, Alone
  <2>3. pc[w] \in {"settling", "marking"} => job[w].run # job[v].run
    BY <2>1, Alone DEF Working
  <2> QED
    BY <2>2, <2>3, OtherRows
<1> QED
  BY <1>1, <1>2, HoldsFrame DEF AllHold

\* Where the tables and Xero stay, what is in hand is a matter of the local
\* variables.
LEMMA HoldsKept ==
    ASSUME NEW p \in Pcs, NEW j \in JobType, NEW t \in SUBSET Slots,
           Holds(p, j, t), UNCHANGED <<item, xero>>
    PROVE  Holds(p, j, t)'
  BY DEF Holds, Fits

\* Reading the rows puts all of them in hand.
LEMMA LoadHolds ==
    ASSUME IInv, AllHold, NEW w \in Workers, LoadRows(w)
    PROVE  Holds(pc[w], job[w], touched[w])'
<1>1. PICK j \in JobType, r \in Runs : j = job[w] /\ r = job[w].run
  BY WorkerFacts DEF LoadRows, JobWellFormed
<1>2. /\ pc[w] = "started" /\ j.batch = {} /\ j.seen = {}
      /\ job \in [Workers -> JobType] /\ pc \in [Workers -> Pcs]
      /\ UNCHANGED <<item, xero, touched>> /\ touched[w] \in SUBSET Slots
  BY <1>1, WorkerFacts DEF LoadRows, IInv, TypeOK, external, AllHold, Holds,
     JobWellFormed
<1>3. PICK rows \in SUBSET Docs, pend \in SUBSET Docs :
        /\ rows = {d \in Docs : /\ item[r][d].selected
                                /\ item[r][d].status \in Chosen}
        /\ pend = {d \in rows : item[r][d].status \notin DoneStatuses}
  <2> DEFINE R == {d \in Docs : /\ item[r][d].selected
                                /\ item[r][d].status \in Chosen}
             P == {d \in R : item[r][d].status \notin DoneStatuses}
  <2>1. R \in SUBSET Docs /\ P \in SUBSET Docs
    OBVIOUS
  <2> QED
    BY <2>1
<1>4. PICK k \in JobType : k = [j EXCEPT !.rows = rows, !.pend = pend]
  <2>1. [j EXCEPT !.rows = rows, !.pend = pend] \in JobType
    BY DEF JobType
  <2> QED
    BY <2>1
<1>5. job'[w] = k /\ pc'[w] = "reading"
  BY <1>1, <1>2, <1>3, <1>4 DEF LoadRows, Goto, MyItem, Chosen
<1>6. /\ k.run = r /\ k.rows = rows /\ k.pend = pend /\ k.batch = {}
      /\ ~Reviewed(k)
  BY <1>1, <1>2, <1>4 DEF JobType, Reviewed
<1>7. \A d \in Docs : item[r][d].selected => item[r][d].status \in Chosen
  BY DEF IInv, RowsWellFormed
<1>8. Holds("reading", k, touched[w])
  BY <1>3, <1>6, <1>7 DEF Holds, Executing
<1> QED
  BY <1>2, <1>5, <1>8 DEF Holds, Fits

\* The re-read of Salesforce can only find the batch stale.
LEMMA ReadSalesforceHolds ==
    ASSUME IInv, AllHold, NEW w \in Workers, ReadSalesforce(w)
    PROVE  Holds(pc[w], job[w], touched[w])'
<1>1. PICK j \in JobType : j = job[w]
  BY WorkerFacts
<1>2. /\ job \in [Workers -> JobType] /\ pc' = pc /\ pc[w] = "reading"
      /\ UNCHANGED <<item, xero, touched>> /\ touched[w] \in SUBSET Slots
      /\ Holds("reading", j, touched[w])
  BY <1>1 DEF ReadSalesforce, IInv, TypeOK, external, AllHold
<1>3. PICK s \in BOOLEAN : s = (j.stale \/ StaleSource(w))
  BY DEF JobType
<1>4. PICK k \in JobType :
        k = [j EXCEPT !.seen = j.seen \cup {"salesforce"}, !.stale = s]
  <2>1. [j EXCEPT !.seen = j.seen \cup {"salesforce"}, !.stale = s] \in JobType
    BY DEF JobType
  <2> QED
    BY <2>1
<1>5. job'[w] = k
  BY <1>1, <1>2, <1>3, <1>4 DEF ReadSalesforce
<1>6. /\ k.run = j.run /\ k.rows = j.rows /\ k.pend = j.pend /\ k.batch = j.batch
      /\ k.failed = j.failed /\ k.result = j.result
      /\ Reviewed(k) => Reviewed(j)
  BY <1>3, <1>4 DEF JobType, Reviewed
<1>7. Holds("reading", k, touched[w])
  BY <1>2, <1>6 DEF Holds, Executing
<1> QED
  BY <1>2, <1>5, <1>7 DEF Holds, Fits

\* The re-read of Xero finds every update aimed at the reviewed version, or
\* the batch stale.
LEMMA ReadXeroHolds ==
    ASSUME IInv, AllHold, NEW w \in Workers, ReadXero(w)
    PROVE  Holds(pc[w], job[w], touched[w])'
<1>1. PICK j \in JobType, r \in Runs : j = job[w] /\ r = j.run
  BY WorkerFacts DEF ReadXero, JobWellFormed
<1>2. /\ job \in [Workers -> JobType] /\ pc' = pc /\ pc[w] = "reading"
      /\ UNCHANGED <<item, xero>> /\ touched'[w] = {}
      /\ Holds("reading", j, touched[w])
      /\ j.pend \subseteq j.rows
  BY <1>1, WorkerFacts DEF ReadXero, IInv, TypeOK, external, AllHold,
     JobWellFormed
<1>3. PICK s \in BOOLEAN : s = (j.stale \/ \E d \in j.rows : StaleTarget(r, d))
  BY DEF JobType
<1>4. PICK k \in JobType :
        k = [j EXCEPT !.seen = j.seen \cup {"xero"}, !.stale = s]
  <2>1. [j EXCEPT !.seen = j.seen \cup {"xero"}, !.stale = s] \in JobType
    BY DEF JobType
  <2> QED
    BY <2>1
<1>5. job'[w] = k
  BY <1>1, <1>2, <1>3, <1>4 DEF ReadXero
<1>6. /\ k.run = j.run /\ k.rows = j.rows /\ k.pend = j.pend /\ k.batch = j.batch
      /\ k.failed = j.failed /\ k.result = j.result
      /\ Reviewed(k) => \A d \in j.rows : ~StaleTarget(r, d)
  BY <1>3, <1>4 DEF JobType, Reviewed
<1>7. ASSUME NEW d \in j.pend, ~StaleTarget(r, d)
      PROVE  Fits(r, d, {})
  BY <1>7 DEF StaleTarget, Fits, Active
<1>8. Holds("reading", k, {})
  BY <1>1, <1>2, <1>6, <1>7 DEF Holds, Executing
<1> QED
  BY <1>2, <1>5, <1>8 DEF Holds, Fits

\* A batch goes to work only when it was found current; it posts only rows
\* that are to be written, and the answer comes to these.
LEMMA MoveHolds ==
    ASSUME IInv, AllHold, NEW w \in Workers,
           AssertStillCurrent(w) \/ PostAnswered(w) \/ UpsertMapping(w)
    PROVE  Holds(pc[w], job[w], touched[w])'
<1>1. PICK j \in JobType : j = job[w]
  BY WorkerFacts
<1>2. /\ job \in [Workers -> JobType] /\ pc \in [Workers -> Pcs]
      /\ UNCHANGED <<item, xero, touched>> /\ touched[w] \in SUBSET Slots
      /\ Holds(pc[w], j, touched[w])
  BY <1>1 DEF AssertStillCurrent, PostAnswered, UpsertMapping, IInv, TypeOK,
     external, AllHold
<1>3. CASE AssertStillCurrent(w)
  <2>1. /\ job' = job /\ pc[w] = "reading" /\ j.batch = {}
        /\ \/ pc'[w] = "failing"
           \/ pc'[w] = "working" /\ Reviewed(j)
    BY <1>1, <1>2, <1>3, WorkerFacts DEF AssertStillCurrent, Goto, Reviewed,
       JobWellFormed
  <2>2. PICK p \in Pcs : p = pc'[w]
    BY <2>1 DEF Pcs
  <2>3. Holds(p, j, touched[w])
    BY <1>2, <2>1, <2>2 DEF Holds, Executing
  <2> QED
    BY <1>1, <1>2, <2>1, <2>2, <2>3, HoldsKept
<1>4. CASE PostAnswered(w)
  <2>1. PICK a \in replies : job' = [job EXCEPT ![w].result = a.result]
    BY <1>4 DEF PostAnswered
  <2>2. PICK k \in JobType : k = [j EXCEPT !.result = a.result]
    <3>1. a.result \in ResultType
      BY DEF IInv, TypeOK, ReplyType
    <3>2. [j EXCEPT !.result = a.result] \in JobType
      BY <3>1 DEF JobType
    <3> QED
      BY <3>2
  <2>3. job'[w] = k /\ pc[w] = "posting" /\ pc'[w] = "settling"
    BY <1>1, <1>2, <1>4, <2>1, <2>2 DEF PostAnswered, Goto
  <2>4. /\ k.run = j.run /\ k.rows = j.rows /\ k.pend = j.pend
        /\ k.batch = j.batch /\ k.failed = j.failed
        /\ k.seen = j.seen /\ k.stale = j.stale
    BY <2>2 DEF JobType
  <2>5. Holds("settling", k, touched[w]) /\ "settling" \in Pcs
    BY <1>2, <2>3, <2>4 DEF Holds, Executing, Reviewed, Pcs
  <2> QED
    BY <1>2, <2>3, <2>5, HoldsKept
<1>5. CASE UpsertMapping(w)
  <2>1. /\ job' = job /\ pc[w] = "settling"
        /\ pc'[w] = "failing" \/ pc'[w] = "marking"
    BY <1>2, <1>5 DEF UpsertMapping, Goto
  <2>2. PICK p \in Pcs : p = pc'[w]
    BY <2>1 DEF Pcs
  <2>3. Holds(p, j, touched[w])
    BY <1>2, <2>1, <2>2 DEF Holds, Executing
  <2> QED
    BY <1>1, <1>2, <2>1, <2>2, <2>3, HoldsKept
<1> QED
  BY <1>3, <1>4, <1>5

\* A link is settled with the identity it was reviewed with.
LEMMA LinkHolds ==
    ASSUME IInv, AllHold, NEW w \in Workers, LinkRow(w)
    PROVE  Holds(pc[w], job[w], touched[w])'
<1>1. PICK j \in JobType, r \in Runs, d \in Docs :
        /\ j = job[w] /\ r = j.run /\ d = Min(NoWrites(w)) /\ d \in j.pend
        /\ item[r][d].action \in NoWriteActions
  <2>1. job[w] \in JobType /\ job[w].run \in Runs
    BY WorkerFacts DEF LinkRow, JobWellFormed
  <2>2. NoWrites(w) \in SUBSET Docs /\ NoWrites(w) \subseteq job[w].pend
    BY <2>1, GroupFacts DEF JobType
  <2>3. Min(NoWrites(w)) \in NoWrites(w)
    BY <2>2, MinInSet DEF LinkRow
  <2> QED
    BY <2>1, <2>2, <2>3 DEF NoWrites, MyItem
<1>2. /\ job \in [Workers -> JobType] /\ pc \in [Workers -> Pcs]
      /\ pc[w] = "working" /\ UNCHANGED <<item, xero, touched>>
      /\ touched[w] \in SUBSET Slots /\ Holds("working", j, touched[w])
  BY <1>1 DEF LinkRow, IInv, TypeOK, external, AllHold
<1>3. item[r][d] \in ItemType /\ item[r][d].target \in Slots
  BY <1>1 DEF IInv, TypeOK, RowsWellFormed
<1>4. PICK found \in [slot : Slots \cup {NoSlot}, stamp : Nat] :
        found = [slot |-> item[r][d].target, stamp |-> item[r][d].stamp]
  BY <1>3 DEF ItemType
<1>5. PICK k \in JobType : k = [j EXCEPT !.batch = {d},
                                  !.result = [j.result EXCEPT ![d] = found]]
  <2>1. [j.result EXCEPT ![d] = found] \in ResultType
    BY DEF JobType, ResultType
  <2>2. [j EXCEPT !.batch = {d}, !.result = [j.result EXCEPT ![d] = found]] \in JobType
    BY <2>1 DEF JobType
  <2> QED
    BY <2>2
<1>6. job'[w] = k /\ pc'[w] = "settling"
  BY <1>1, <1>2, <1>4, <1>5 DEF LinkRow, Goto, MyItem
<1>7. /\ k.run = r /\ k.rows = j.rows /\ k.pend = j.pend /\ k.batch = {d}
      /\ k.failed = j.failed /\ k.seen = j.seen /\ k.stale = j.stale
      /\ k.result[d] = found
  <2>1. j.result \in ResultType
    BY DEF JobType
  <2> QED
    BY <1>1, <1>5, <2>1 DEF JobType, ResultType
<1>8. found.slot # NoSlot
  BY <1>3, <1>4 DEF Slots, NoSlot
<1>9. Holds("settling", k, touched[w]) /\ "settling" \in Pcs
  BY <1>1, <1>2, <1>7, <1>8 DEF Holds, Executing, Reviewed, Pcs
<1> QED
  BY <1>2, <1>6, <1>9, HoldsKept

\* A request holds no links.
LEMMA PostHolds ==
    ASSUME IInv, AllHold, NEW w \in Workers, PostBatch(w)
    PROVE  Holds(pc[w], job[w], touched[w])'
<1>1. PICK j \in JobType, r \in Runs, b \in SUBSET Docs :
        /\ j = job[w] /\ r = j.run /\ b = NextPost(w)
        /\ \A d \in b : d \in j.pend /\ item[r][d].action \notin NoWriteActions
  <2>1. job[w] \in JobType /\ job[w].run \in Runs
    BY WorkerFacts DEF PostBatch, JobWellFormed
  <2>2. NextPost(w) \subseteq Group(w) /\ Group(w) \subseteq job[w].pend
    BY GroupFacts
  <2>3. NextPost(w) \in SUBSET Docs
    BY <2>1, <2>2 DEF JobType
  <2> QED
    BY <2>1, <2>2, <2>3 DEF PostBatch, NoWrites, MyItem
<1>2. /\ job \in [Workers -> JobType] /\ pc \in [Workers -> Pcs]
      /\ pc[w] = "working" /\ UNCHANGED <<item, xero, touched>>
      /\ touched[w] \in SUBSET Slots /\ Holds("working", j, touched[w])
  BY <1>1 DEF PostBatch, IInv, TypeOK, AllHold
<1>3. PICK k \in JobType : k = [j EXCEPT !.batch = b]
  <2>1. [j EXCEPT !.batch = b] \in JobType
    BY DEF JobType
  <2> QED
    BY <2>1
<1>4. job'[w] = k /\ pc'[w] = "posting"
  BY <1>1, <1>2, <1>3 DEF PostBatch, Goto
<1>5. /\ k.run = r /\ k.rows = j.rows /\ k.pend = j.pend /\ k.batch = b
      /\ k.failed = j.failed /\ k.seen = j.seen /\ k.stale = j.stale
  BY <1>1, <1>3 DEF JobType
<1>6. Holds("posting", k, touched[w]) /\ "posting" \in Pcs
  BY <1>1, <1>2, <1>5 DEF Holds, Executing, Reviewed, Pcs
<1> QED
  BY <1>2, <1>4, <1>6, HoldsKept

\* A row leaves the hand checkpointed, or with the failure noted.
LEMMA SettleHolds ==
    ASSUME IInv, AllHold, LinksNeverFail, NEW w \in Workers,
           SettleFailed(w) \/ CheckpointRow(w)
    PROVE  Holds(pc[w], job[w], touched[w])'
<1>1. PICK r \in Runs, d \in Docs, j \in JobType, k \in JobType, p \in Pcs :
        /\ Settles(w, r, d, j, k, p)
        /\ j.failed => k.failed
        /\ k.failed \/ item'[r][d].status \in DoneStatuses
  <2>1. CASE SettleFailed(w)
    BY <2>1, FailedRowFacts
  <2>2. CASE CheckpointRow(w)
    <3>1. PICK r \in Runs, d \in Docs, j \in JobType, k \in JobType, p \in Pcs :
            /\ Settles(w, r, d, j, k, p)
            /\ j.result[d].slot \in Slots /\ k.failed = j.failed
            /\ pc[w] = "marking"
            /\ \/ /\ item'[r][d].status \in DoneStatuses
                  /\ item'[r][d].target = j.result[d].slot
               \/ /\ item' = item
                  /\ item[r][d].action \in NoWriteActions
                  /\ item[r][d].status # "selected"
      BY <2>2, CheckpointFacts
    <3>2. item'[r][d].status \in DoneStatuses
      <4> SUFFICES ASSUME item' = item, item[r][d].action \in NoWriteActions,
                          item[r][d].status # "selected"
                   PROVE  item[r][d].status \in DoneStatuses
        BY <3>1
      <4>1. item[r][d].selected
        BY <3>1, WorkerFacts DEF JobWellFormed, Settles
      <4>2. item[r][d].status \in Chosen
        BY <4>1 DEF IInv, RowsWellFormed
      <4> QED
        BY <4>2 DEF LinksNeverFail, Chosen
    <3> QED
      BY <3>1, <3>2
  <2> QED
    BY <2>1, <2>2
<1>2. /\ Holds(pc[w], j, touched[w]) /\ Executing(pc[w]) /\ pc[w] # "reading"
      /\ pc[w] # "posting" /\ xero' = xero /\ p # "posting"
      /\ j.rows \subseteq Docs /\ j.pend \subseteq j.rows /\ j.batch \subseteq j.pend
  BY <1>1, WorkerFacts, OtherWorkers DEF AllHold, Executing, JobWellFormed,
     JobType, Settles, WorkerStep
<1>3. \A e \in Docs : e # d => item'[r][e] = item[r][e]
  BY <1>1 DEF Settles
<1>4. \A e \in Docs : e \in k.rows <=> item'[r][e].selected
  BY <1>1, <1>2, <1>3 DEF Holds, Settles
<1>5. \A e \in k.pend : item'[r][e].status \notin DoneStatuses
  BY <1>1, <1>2, <1>3 DEF Holds, Settles
<1>6. \A e \in k.rows : \/ e \in k.pend \/ k.failed
                        \/ item'[r][e].status \in DoneStatuses
  BY <1>1, <1>2, <1>3 DEF Holds, Settles
<1>7. \A e \in k.batch : item'[r][e].action \in NoWriteActions =>
                           p # "posting" /\ k.result[e].slot # NoSlot
  BY <1>1, <1>2, <1>3 DEF Holds, Settles
<1>8. Reviewed(k)
  BY <1>1, <1>2 DEF Holds, Reviewed, Settles
<1>9. ASSUME NEW e \in k.pend PROVE Fits(r, e, touched[w])'
  <2>1. Fits(r, e, touched[w]) /\ item'[r][e] = item[r][e]
    BY <1>1, <1>2, <1>3, <1>8, <1>9 DEF Holds, Reviewed, Settles
  <2> QED
    BY <1>1, <1>2, <2>1 DEF Fits, Settles
<1> QED
  BY <1>1, <1>4, <1>5, <1>6, <1>7, <1>8, <1>9 DEF Holds, Reviewed, Settles

\* Every step of an invocation, for the invocation itself.
LEMMA HoldsOfWorker ==
    ASSUME IInv, AllHold, LinksNeverFail, NEW w \in Workers,
           WorkerStep(w) \/ WorkerFault(w)
    PROVE  Holds(pc[w], job[w], touched[w])'
<1>1. pc \in [Workers -> Pcs] /\ job \in [Workers -> JobType]
  BY DEF IInv, TypeOK
<1>2. CASE \/ StartRefused(w) \/ FinishRun(w) \/ FailRun(w) \/ PostRejected(w)
           \/ WorkerFault(w)
  <2>1. pc'[w] \in {"idle", "failing"}
    BY <1>1, <1>2 DEF StartRefused, FinishRun, FailRun, PostRejected, WorkerFault,
       LoadFails, ReadFails, PostFails, ReserveReached, RowWriteFails,
       FinishFails, Crash, Goto, Return
  <2> QED
    BY <2>1 DEF Holds, Executing
<1>3. CASE StartRun(w)
  <2>1. PICK j, n : j \in JobType /\ j = job[w] /\ n = run[j.run].rev + 1
    BY <1>1
  <2>2. /\ pc[w] = "requested" /\ pc'[w] = "started"
        /\ job'[w] = [j EXCEPT !.rev = n]
    BY <1>1, <1>3, <2>1 DEF StartRun, Goto
  <2>3. j.seen = {} /\ [j EXCEPT !.rev = n].seen = j.seen
    BY <2>1, <2>2 DEF AllHold, Holds, JobType
  <2> QED
    BY <2>2, <2>3 DEF Holds, Executing
<1>4. CASE ~(\/ StartRefused(w) \/ FinishRun(w) \/ FailRun(w) \/ PostRejected(w)
             \/ WorkerFault(w) \/ StartRun(w))
  BY <1>4, LoadHolds, ReadSalesforceHolds, ReadXeroHolds, MoveHolds, LinkHolds,
     PostHolds, SettleHolds DEF WorkerStep
<1> QED
  BY <1>2, <1>3, <1>4

\* Finance writes only runs that nobody executes.
LEMMA HoldsOfFinance ==
    ASSUME IInv, Ownership, AllHold, FinanceStep
    PROVE  AllHold'
<1>1. pc \in [Workers -> Pcs] /\ job \in [Workers -> JobType]
  BY DEF IInv, TypeOK
<1>2. ASSUME NEW r \in Runs,
             Preview(r) \/ \E selection \in SUBSET Docs : Authorise(r, selection)
      PROVE  AllHold'
  <2>1. /\ run[r].status # "processing" /\ UNCHANGED <<xero, pc, job, touched>>
        /\ \A q \in Runs \ {r} : item'[q] = item[q]
    BY <1>2 DEF Preview, Authorise, external, IInv, TypeOK
  <2>2. ASSUME NEW v \in Workers PROVE Holds(pc[v], job[v], touched[v])'
    <3>1. ASSUME Executing(pc[v]), NEW d \in Docs
          PROVE  item'[job[v].run][d] = item[job[v].run][d]
      <4>1. job[v].run \in Runs /\ job[v].run # r
        BY <2>1, <3>1, Alone DEF Executing, Working
      <4> QED
        BY <2>1, <4>1
    <3> QED
      BY <2>1, <3>1, HoldsFrame DEF AllHold
  <2> QED
    BY <2>2 DEF AllHold
<1>3. ASSUME NEW w \in Workers, NEW r \in Runs, RequestRun(w, r)
      PROVE  AllHold'
  <2>1. PICK n : n = run[r].rev
    OBVIOUS
  <2>2. /\ UNCHANGED <<xero, item, touched>> /\ pc'[w] = "requested"
        /\ job'[w] = [NoJob EXCEPT !.run = r, !.rev = n]
        /\ \A v \in Workers \ {w} : pc'[v] = pc[v] /\ job'[v] = job[v]
    BY <1>1, <1>3, <2>1 DEF RequestRun, Goto, external
  <2>3. [NoJob EXCEPT !.run = r, !.rev = n].seen = {}
    BY DEF NoJob
  <2>4. Holds(pc[w], job[w], touched[w])'
    BY <2>2, <2>3 DEF Holds, Executing
  <2>5. \A v \in Workers \ {w} : Holds(pc[v], job[v], touched[v])'
    BY <2>2, HoldsFrame DEF AllHold
  <2> QED
    BY <2>4, <2>5 DEF AllHold
<1> QED
  BY <1>2, <1>3 DEF FinanceStep

\* What changes in Xero is touched for everybody who has read it.
LEMMA HoldsOfXero ==
    ASSUME IInv, AllHold, XeroStep \/ UserStep \/ UNCHANGED vars
    PROVE  AllHold'
<1>1. touched \in [Workers -> SUBSET Slots] /\ xero \in [Slots -> XeroType]
  BY DEF IInv, TypeOK
<1>2. UNCHANGED <<item, pc, job>>
  BY DEF XeroStep, UserStep, vars, XeroApply, XeroReplay,
     SalesforceEdit, XeroUserCreates, XeroUserEdit, XeroUserPays,
     XeroUserVoids, XeroUserChange
<1>3. ASSUME NEW S, Touch(S), \A x \in Slots \ S : xero'[x] = xero[x]
      PROVE  AllHold'
  <2>1. \A v \in Workers : touched'[v] = IF "xero" \in job[v].seen
                                         THEN touched[v] \cup S ELSE touched[v]
    BY <1>3 DEF Touch
  <2>2. ASSUME NEW v \in Workers
        PROVE  /\ touched[v] \subseteq touched'[v]
               /\ \A x \in Slots : \/ xero'[x] = xero[x]
                                   \/ "xero" \in job[v].seen => x \in touched'[v]
    BY <1>3, <2>1
  <2> QED
    BY <1>2, <2>2, HoldsFrame DEF AllHold
<1>4. CASE UNCHANGED <<xero, touched>>
  BY <1>2, <1>4, HoldsFrame DEF AllHold
<1>5. CASE XeroStep
  <2>1. ASSUME NEW m \in wire, NEW accepted \in SUBSET m.docs,
               XeroApply(m, accepted)
        PROVE  AllHold'
    <3>1. PICK S : S = {SlotFor(m, accepted, d) : d \in accepted}
      OBVIOUS
    <3>2. /\ Touch(S)
          /\ xero' = [x \in Slots |-> IF x \in S THEN Written(m, accepted, x)
                                                 ELSE xero[x]]
      BY <2>1, <3>1 DEF XeroApply
    <3> QED
      BY <1>3, <3>2
  <2>2. ASSUME NEW m \in wire, XeroReplay(m) PROVE AllHold'
    BY <1>4, <2>2 DEF XeroReplay
  <2> QED
    BY <1>5, <2>1, <2>2 DEF XeroStep
<1>6. CASE UserStep
  <2>1. ASSUME NEW d \in Docs, SalesforceEdit(d) PROVE AllHold'
    BY <1>4, <2>1 DEF SalesforceEdit
  <2>2. ASSUME NEW d \in Docs, XeroUserCreates(d) PROVE AllHold'
    <3>1. PICK x, after : x = Cardinality(Used) + 1
                          /\ xero' = [xero EXCEPT ![x] = after] /\ Touch({x})
      BY <2>2 DEF XeroUserCreates
    <3>2. \A y \in Slots \ {x} : xero'[y] = xero[y]
      BY <1>1, <3>1
    <3> QED
      BY <1>3, <3>1, <3>2
  <2>3. ASSUME NEW x \in Slots,
               XeroUserEdit(x) \/ XeroUserPays(x) \/ XeroUserVoids(x)
        PROVE  AllHold'
    <3>1. PICK after : xero' = [xero EXCEPT ![x] = after] /\ Touch({x})
      BY <2>3 DEF XeroUserEdit, XeroUserPays, XeroUserVoids, XeroUserChange
    <3>2. \A y \in Slots \ {x} : xero'[y] = xero[y]
      BY <1>1, <3>1
    <3> QED
      BY <1>3, <3>1, <3>2
  <2> QED
    BY <1>6, <2>1, <2>2, <2>3 DEF UserStep
<1> QED
  BY <1>4, <1>5, <1>6 DEF vars

-----------------------------------------------------------------------------
(* Links and completed runs *)

\* Only a row without an identity is marked failed, and a link has one.
LEMMA LinksStep ==
    ASSUME IInv, AllHold, LinksNeverFail, [Next]_vars
    PROVE  LinksNeverFail'
<1>1. ASSUME NEW w \in Workers, WorkerStep(w) \/ WorkerFault(w)
      PROVE  LinksNeverFail'
  <2>1. CASE SettleFailed(w)
    <3>1. PICK r \in Runs, d \in Docs, j \in JobType, k \in JobType, p \in Pcs :
             /\ Settles(w, r, d, j, k, p)
             /\ j.result[d].slot = NoSlot /\ k.failed /\ pc[w] = "settling"
             /\ item'[r][d].target = item[r][d].target
             /\ item'[r][d].stamp = item[r][d].stamp
             /\ item'[r][d].status \in {"failed", item[r][d].status}
      BY <2>1, FailedRowFacts
    <3>2. item[r][d].action \notin NoWriteActions
      BY <3>1 DEF AllHold, Holds, Executing, Settles
    <3> QED
      BY <3>1, <3>2 DEF LinksNeverFail, Settles
  <2>2. CASE CheckpointRow(w)
    <3>1. PICK r \in Runs, d \in Docs, j \in JobType, k \in JobType, p \in Pcs :
             /\ Settles(w, r, d, j, k, p)
             /\ j.result[d].slot \in Slots /\ k.failed = j.failed
             /\ pc[w] = "marking"
             /\ \/ /\ item'[r][d].status \in DoneStatuses
                   /\ item'[r][d].target = j.result[d].slot
                \/ /\ item' = item
                   /\ item[r][d].action \in NoWriteActions
                   /\ item[r][d].status # "selected"
      BY <2>2, CheckpointFacts
    <3>2. item'[r][d].status \in DoneStatuses \/ item' = item
      BY <3>1
    <3> QED
      BY <3>1, <3>2 DEF LinksNeverFail, Settles, DoneStatuses
  <2>3. CASE item' = item
    BY <2>3 DEF LinksNeverFail
  <2> QED
    BY <1>1, <2>1, <2>2, <2>3, OtherRows
<1>2. ASSUME NEW r \in Runs, Preview(r) PROVE LinksNeverFail'
  <2>1. PICK blockers : item' = [item EXCEPT ![r] =
                                   [d \in Docs |-> Classify(d, blockers)]]
    BY <1>2 DEF Preview
  <2>2. \A q \in Runs, d \in Docs :
          item'[q][d] = item[q][d] \/ item'[q][d] = Classify(d, blockers)
    BY <2>1 DEF IInv, TypeOK
  <2>3. \A d \in Docs : Classify(d, blockers).status # "failed"
    BY ClassifyType DEF IInv
  <2> QED
    BY <2>2, <2>3 DEF LinksNeverFail
<1>3. ASSUME NEW r \in Runs, NEW selection \in SUBSET Docs,
             Authorise(r, selection)
      PROVE  LinksNeverFail'
  <2>1. item' = [item EXCEPT ![r] = [d \in Docs |->
                    IF d \in selection
                    THEN [item[r][d] EXCEPT !.status = "selected",
                                            !.selected = TRUE]
                    ELSE item[r][d]]]
    BY <1>3 DEF Authorise
  <2>2. ASSUME NEW q \in Runs, NEW d \in Docs
        PROVE  item'[q][d] = item[q][d] \/ item'[q][d].status = "selected"
    <3>1. item[q][d] \in ItemType
      BY DEF IInv, TypeOK
    <3>2. CASE q = r /\ d \in selection
      <4>1. item'[q][d] = [item[q][d] EXCEPT !.status = "selected",
                                             !.selected = TRUE]
        BY <2>1, <3>2 DEF IInv, TypeOK
      <4> QED
        BY <3>1, <4>1 DEF ItemType
    <3>3. CASE ~(q = r /\ d \in selection)
      BY <2>1, <3>3 DEF IInv, TypeOK
    <3> QED
      BY <3>2, <3>3
  <2> QED
    BY <2>2 DEF LinksNeverFail
<1>4. CASE item' = item
  BY <1>4 DEF LinksNeverFail
<1>5. ASSUME XeroStep \/ UserStep \/ UNCHANGED vars PROVE item' = item
  BY <1>5 DEF XeroStep, UserStep, vars, XeroApply, XeroReplay,
     SalesforceEdit, XeroUserCreates, XeroUserEdit, XeroUserPays,
     XeroUserVoids, XeroUserChange
<1>6. ASSUME NEW w \in Workers, NEW r \in Runs, RequestRun(w, r)
      PROVE  item' = item
  BY <1>6 DEF RequestRun
<1> QED
  BY <1>1, <1>2, <1>3, <1>4, <1>5, <1>6 DEF Next, FinanceStep

\* A step that completes no run and writes no row of a completed one.
LEMMA CompletedFrame ==
    ASSUME CompletedIsComplete,
           \A r \in Runs : run'[r].status = "completed" =>
             /\ run[r].status = "completed"
             /\ \A d \in Docs : item'[r][d] = item[r][d]
    PROVE  CompletedIsComplete'
  BY DEF CompletedIsComplete

\* A run is completed when nothing is pending and no row failed, so that every
\* selected row is checkpointed; afterwards nobody owns it.
LEMMA CompletedStep ==
    ASSUME IInv, Ownership, AllHold, CompletedIsComplete, [Next]_vars
    PROVE  CompletedIsComplete'
<1>1. ASSUME NEW w \in Workers, WorkerStep(w) \/ WorkerFault(w),
             ~FinishRun(w)
      PROVE  CompletedIsComplete'
  <2>1. \A r \in Runs : run'[r].status = "completed" => run'[r] = run[r]
    <3>1. CASE run' = run
      BY <3>1
    <3>2. CASE StartRun(w)
      BY <3>2 DEF StartRun, IInv, TypeOK
    <3>3. CASE FailRun(w)
      BY <3>3 DEF FailRun, FinishedRun, IInv, TypeOK
    <3> QED
      BY <1>1, <3>1, <3>2, <3>3 DEF WorkerStep, WorkerFault, StartRefused,
         LoadRows, ReadSalesforce, ReadXero, AssertStillCurrent, LinkRow,
         PostBatch, PostAnswered, PostRejected, SettleFailed, UpsertMapping,
         CheckpointRow, LoadFails, ReadFails, PostFails, ReserveReached,
         RowWriteFails, FinishFails, Crash
  <2>2. ASSUME NEW r \in Runs, run[r].status = "completed", NEW d \in Docs
        PROVE  item'[r][d] = item[r][d]
    <3>1. CASE item' = item
      BY <3>1
    <3>2. CASE item' # item
      <4>1. /\ pc[w] \in {"settling", "marking"}
            /\ ~(r = job[w].run /\ d = Current(w)) => item'[r][d] = item[r][d]
        BY <1>1, <3>2, OtherRows
      <4>2. job[w].run # r
        BY <2>2, <4>1, Alone DEF Working
      <4> QED
        BY <4>1, <4>2
    <3> QED
      BY <3>1, <3>2
  <2> QED
    BY <2>1, <2>2, CompletedFrame
<1>2. ASSUME NEW w \in Workers, FinishRun(w) PROVE CompletedIsComplete'
  <2>1. PICK r \in Runs, j \in JobType : r = j.run /\ j = job[w]
    BY <1>2, WorkerFacts DEF FinishRun, JobWellFormed
  <2>2. /\ pc[w] = "working" /\ j.pend = {} /\ item' = item
        /\ run' = [run EXCEPT ![r] = [status |-> TerminalStatus(w),
                                      rev |-> run[r].rev + 1]]
    BY <1>2, <2>1 DEF FinishRun, FinishedRun
  <2>3. run'[r].status = TerminalStatus(w) /\ \A q \in Runs \ {r} : run'[q] = run[q]
    BY <2>2 DEF IInv, TypeOK
  <2>4. ASSUME TerminalStatus(w) = "completed", NEW d \in Docs,
               item[r][d].selected
        PROVE  item[r][d].status \in DoneStatuses
    <3>1. ~j.failed
      BY <2>1, <2>4 DEF TerminalStatus
    <3>2. d \in j.rows
      BY <2>1, <2>2, <2>4 DEF AllHold, Holds, Executing
    <3> QED
      BY <2>1, <2>2, <3>1, <3>2 DEF AllHold, Holds, Executing
  <2> QED
    BY <2>2, <2>3, <2>4 DEF CompletedIsComplete
<1>3. ASSUME NEW r \in Runs,
             Preview(r) \/ \E selection \in SUBSET Docs : Authorise(r, selection)
      PROVE  CompletedIsComplete'
  <2> DEFINE Others == \A q \in Runs \ {r} : run'[q] = run[q] /\ item'[q] = item[q]
  <2>t. run \in [Runs -> RunType] /\ item \in [Runs -> [Docs -> ItemType]]
    BY DEF IInv, TypeOK
  <2>p. ASSUME Preview(r) PROVE run'[r].status # "completed" /\ Others
    <3>1. PICK new : item' = [item EXCEPT ![r] = new]
      BY <2>p DEF Preview
    <3>2. run' = [run EXCEPT ![r] = [status |-> "ready_for_review", rev |-> 1]]
      BY <2>p DEF Preview
    <3>3. run'[r] = [status |-> "ready_for_review", rev |-> 1]
      BY <2>t, <3>2
    <3> QED
      BY <2>t, <3>1, <3>2, <3>3
  <2>a. ASSUME NEW selection \in SUBSET Docs, Authorise(r, selection)
        PROVE  run'[r].status # "completed" /\ Others
    <3>1. PICK new : item' = [item EXCEPT ![r] = new]
      BY <2>a DEF Authorise
    <3>2. run' = [run EXCEPT ![r] = [status |-> "authorised",
                                     rev |-> run[r].rev + 1]]
      BY <2>a DEF Authorise
    <3>3. PICK n : n = run[r].rev + 1
      OBVIOUS
    <3>4. run'[r] = [status |-> "authorised", rev |-> n]
      BY <2>t, <3>2, <3>3
    <3> QED
      BY <2>t, <3>1, <3>2, <3>4
  <2>1. run'[r].status # "completed" /\ Others
    BY <1>3, <2>p, <2>a
  <2> QED
    BY <2>1, CompletedFrame
<1>4. ASSUME \/ XeroStep \/ UserStep \/ UNCHANGED vars
             \/ \E w \in Workers, r \in Runs : RequestRun(w, r)
      PROVE  CompletedIsComplete'
  <2>1. UNCHANGED <<run, item>>
    BY <1>4 DEF XeroStep, UserStep, vars, XeroApply, XeroReplay,
       SalesforceEdit, XeroUserCreates, XeroUserEdit, XeroUserPays,
       XeroUserVoids, XeroUserChange, RequestRun
  <2> QED
    BY <2>1, CompletedFrame
<1> QED
  BY <1>1, <1>2, <1>3, <1>4 DEF Next, FinanceStep

-----------------------------------------------------------------------------
(* Theorems *)

\* Nobody executes anything.
LEMMA ExecutionInit == Init => Ownership /\ Execution
<1> SUFFICES ASSUME Init PROVE Ownership /\ Execution
  OBVIOUS
<1>1. Ownership
  BY DEF Init, Ownership, Working, Started
<1>2. AllHold
  BY DEF Init, AllHold, Holds, Executing
<1>3. LinksNeverFail /\ CompletedIsComplete
  BY DEF Init, LinksNeverFail, CompletedIsComplete, NoItem
<1> QED
  BY <1>1, <1>2, <1>3 DEF Execution

\* One case per group of steps.
LEMMA ExecutionStep ==
    IInv /\ Ownership /\ Execution /\ [Next]_vars => Execution'
<1> SUFFICES ASSUME IInv, Ownership, Execution, [Next]_vars PROVE Execution'
  OBVIOUS
<1>1. AllHold'
  <2>1. CASE \E w \in Workers : WorkerStep(w) \/ WorkerFault(w)
    BY <2>1, HoldsOfWorker, HoldsOfOthers DEF Execution, AllHold
  <2>2. CASE FinanceStep
    BY <2>2, HoldsOfFinance DEF Execution
  <2>3. CASE XeroStep \/ UserStep \/ UNCHANGED vars
    BY <2>3, HoldsOfXero DEF Execution
  <2> QED
    BY <2>1, <2>2, <2>3 DEF Next
<1> QED
  BY <1>1, LinksStep, CompletedStep DEF Execution

\* What the invocations have in hand, together with who owns the runs.
THEOREM ExecutionInvariance == Spec => [](IInv /\ Ownership /\ Execution)
<1>1. Init => Ownership /\ Execution
  BY ExecutionInit
<1> QED
  BY <1>1, ExecutionStep, OwnershipStep, Invariance, PTL DEF Spec

\* A completed run has left none of its selected rows out, over however many
\* attempts, failures and crashes (xeroFinancialSyncRun and the terminal
\* status it sends to finish_xero_financial_sync_run_v1).
THEOREM Complete == Spec => []CompletedIsComplete
<1>1. Execution => CompletedIsComplete
  BY DEF Execution
<1> QED
  BY <1>1, ExecutionInvariance, PTL

\* An update that is still pending after the staleness check is aimed at the
\* version Finance reviewed, or at a document changed since the check
\* (assertDocumentRunStillCurrent); no other invocation, retry or checkpoint
\* of the run takes it elsewhere.
THEOREM TargetsReviewed == Spec => []ReviewedTargets
<1>1. Execution => ReviewedTargets
  BY DEF Execution, AllHold, Holds, Executing, Reviewed, Fits, ReviewedTargets,
         MyItem
<1> QED
  BY <1>1, ExecutionInvariance, PTL
=============================================================================
