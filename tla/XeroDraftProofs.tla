-------------------------- MODULE XeroDraftProofs --------------------------
(***************************************************************************)
(* Why a run of XeroFinancialSync leaves one draft per document: what the  *)
(* requests still under way may create, what the re-read finds of those    *)
(* that were applied, and what the idempotency key stops.                  *)
(***************************************************************************)
EXTENDS XeroExecutionProofs

\* The rows of run r, the group a row is in, and the rows posted together.
Rows(r) == {d \in Docs : item[r][d].selected}
GroupIn(r, d) == (Cardinality({e \in Rows(r) : e <= d}) - 1) \div BatchSize
Together(r, d, e) == /\ GroupIn(r, d) = GroupIn(r, e)
                     /\ d \in CreditNotes <=> e \in CreditNotes

\* What is still to be written of the rows posted together with d.
Open(r, d) == {e \in Rows(r) : /\ item[r][e].action \in WriteActions
                               /\ item[r][e].status \notin DoneStatuses
                               /\ Together(r, d, e)}

\* Xero has no active document that run r created for d.
NoDraft(r, d) ==
    \A x \in Slots : Active(x) => ~(xero[x].by = r /\ xero[x].made = d)

\* The requests Xero will still apply, and the ones it has answered.
Due == {m \in wire : ~Answered(m)}
Replied(r, S) == \E a \in replies : a.run = r /\ a.docs = S

\* A run that is not authorised has no invocation and no request.
Unstarted ==
    \A r \in Runs : run[r].status \in {"none", "ready_for_review"} =>
      /\ \A m \in wire \cup replies : m.run # r
      /\ \A w \in Workers : job[w].run # r

\* A document in Xero has the evidence of the one it was created for.
Numbered ==
    \A x \in Used : /\ x <= Cardinality(Used)
                    /\ xero[x].src \in Docs /\ xero[x].made \in Docs
                    /\ SupportKey[xero[x].src] = SupportKey[xero[x].made]

\* Slot x may be known as the identity of d.
Refers(d, x) ==
    x # NoSlot => x \in Used /\ SupportKey[xero[x].made] = SupportKey[d]

Referred ==
    \A d \in Docs :
      /\ Refers(d, mapping[d])
      /\ \A r \in Runs : Refers(d, item[r][d].target)
      /\ \A a \in replies : Refers(d, a.result[d].slot)
      /\ \A w \in Workers : Refers(d, job[w].result[d].slot)

\* A request Xero will still apply is for all that is open of a group, and
\* would create nothing twice.
Asked ==
    \A m \in Due : \A d \in m.docs :
      /\ m.docs = Open(m.run, d)
      /\ item[m.run][d].action = "create_draft" => NoDraft(m.run, d)

\* An invocation at p with local variables j has, of every group it has still
\* to post, all that is open; it has posted all that was; what it settles is
\* under way no more; and what it found no draft of, when it looked, has none
\* still, or its request has been answered since.
Cells(p, j) ==
    Executing(p) =>
      /\ \A d \in j.pend \ j.batch : item[j.run][d].action \in WriteActions =>
           Open(j.run, d) \subseteq j.pend \ j.batch
      /\ p = "posting" => \A d \in j.batch : j.batch = Open(j.run, d)
      /\ p \in {"settling", "marking"} =>
           \A m \in Due : m.run = j.run => m.docs \cap j.batch = {}
      /\ Reviewed(j) => \A d \in j.pend \ j.batch :
           item[j.run][d].action = "create_draft" =>
             NoDraft(j.run, d) \/ Replied(j.run, Open(j.run, d))

InCells == \A w \in Workers : Cells(pc[w], job[w])

Drafting == /\ Unstarted /\ Numbered /\ Referred /\ Asked /\ InCells
            /\ OneDraftPerRow

-----------------------------------------------------------------------------
(* Groups *)

\* What is open depends on the rows' choice, action and completion only.
LEMMA OpenKept ==
    ASSUME NEW r \in Runs,
           \A d \in Docs : /\ item'[r][d].selected = item[r][d].selected
                           /\ item'[r][d].action = item[r][d].action
                           /\ item'[r][d].status \in DoneStatuses
                                <=> item[r][d].status \in DoneStatuses
    PROVE  \A d \in Docs : Open(r, d)' = Open(r, d)
<1>1. Rows(r)' = Rows(r)
  BY DEF Rows
<1>2. \A d \in Docs : GroupIn(r, d)' = GroupIn(r, d)
  BY <1>1, Zenon DEF GroupIn
<1>3. Rows(r) \subseteq Docs
  BY DEF Rows
<1> QED
  BY <1>1, <1>2, <1>3 DEF Open, Together

\* The rows posted together with a row are posted together with each other.
LEMMA OpenSame ==
    ASSUME NEW r \in Runs, NEW d \in Docs, NEW e \in Open(r, d)
    PROVE  Open(r, e) = Open(r, d) /\ e \in Docs
  BY DEF Open, Together, Rows

\* A row to be written is open in its own group.
LEMMA OpenSelf ==
    ASSUME NEW r \in Runs, NEW d \in Docs, item[r][d].selected,
           item[r][d].action \in WriteActions,
           item[r][d].status \notin DoneStatuses
    PROVE  d \in Open(r, d)
  BY DEF Open, Together, Rows

\* Checkpointing one row leaves the groups it is not in as they are.
LEMMA OpenOfOthers ==
    ASSUME NEW r \in Runs, NEW d \in Docs,
           \A e \in Docs : /\ item'[r][e].selected = item[r][e].selected
                           /\ item'[r][e].action = item[r][e].action,
           \A e \in Docs \ {d} : item'[r][e].status = item[r][e].status,
           item[r][d].status \in DoneStatuses => item'[r][d].status \in DoneStatuses,
           NEW e \in Docs
    PROVE  /\ Open(r, e)' \subseteq Open(r, e)
           /\ d \notin Open(r, e) => Open(r, e)' = Open(r, e)
<1>1. Rows(r)' = Rows(r)
  BY DEF Rows
<1>2. \A c \in Docs : GroupIn(r, c)' = GroupIn(r, c)
  BY <1>1, Zenon DEF GroupIn
<1>3. Rows(r) \subseteq Docs
  BY DEF Rows
<1>4. \A c \in Docs : Together(r, e, c)' <=> Together(r, e, c)
  BY <1>2 DEF Together
<1>5. Open(r, e)' \subseteq Open(r, e)
  BY <1>1, <1>3, <1>4 DEF Open
<1>6. ASSUME d \notin Open(r, e), NEW c \in Open(r, e) PROVE c \in Open(r, e)'
  BY <1>1, <1>3, <1>4, <1>6 DEF Open
<1> QED
  BY <1>5, <1>6

\* An invocation that has all the selected rows cuts them in these groups.
LEMMA GroupAgrees ==
    ASSUME NEW w \in Workers, NEW r \in Runs, r = job[w].run,
           job[w].rows = Rows(r), NEW d \in Docs
    PROVE  GroupOf(w, d) = GroupIn(r, d)
  BY Zenon DEF GroupOf, GroupIn

-----------------------------------------------------------------------------
(* Invocations *)

\* A request that was answered stays so.
LEMMA DueShrinks ==
    ASSUME replies \subseteq replies'
    PROVE  /\ \A m \in Due' : m \in Due \/ m \notin wire
           /\ \A r, S : Replied(r, S) => Replied(r, S)'
  BY DEF Due, Answered, Replied

\* What an invocation knows of its groups stays while nobody else writes its
\* rows, posts for its run, or creates what it found missing unanswered.
LEMMA CellsFrame ==
    ASSUME IInv, NEW v \in Workers, Cells(pc[v], job[v]),
           pc'[v] = pc[v], job'[v] = job[v], replies \subseteq replies',
           Executing(pc[v]) =>
             /\ \A d \in Docs : item'[job[v].run][d] = item[job[v].run][d]
             /\ \A m \in Due' : m \in Due \/ m.run # job[v].run
             /\ \A d \in Docs :
                  NoDraft(job[v].run, d) =>
                    \/ NoDraft(job[v].run, d)'
                    \/ (Replied(job[v].run, Open(job[v].run, d)))'
    PROVE  Cells(pc[v], job[v])'
<1>1. PICK j \in JobType, p \in Pcs : j = job[v] /\ p = pc[v]
  BY DEF IInv, TypeOK
<1>2. SUFFICES ASSUME Executing(p) PROVE Cells(p, j)'
  BY <1>1 DEF Cells, Executing
<1>3. PICK r \in Runs : r = j.run
  BY <1>1, <1>2, WorkerFacts DEF JobWellFormed, Executing
<1>4. j.pend \subseteq Docs /\ j.batch \subseteq Docs
  BY DEF JobType
<1>5. /\ \A d \in Docs : item'[r][d] = item[r][d]
      /\ \A m \in Due' : m \in Due \/ m.run # r
      /\ \A d \in Docs : NoDraft(r, d) =>
           NoDraft(r, d)' \/ (Replied(r, Open(r, d)))'
  BY <1>1, <1>2, <1>3
<1>6. \A d \in Docs : Open(r, d)' = Open(r, d)
  BY <1>5, OpenKept
<1>7. \A d \in Docs : Replied(r, Open(r, d)) => (Replied(r, Open(r, d)))'
  BY <1>6, DueShrinks DEF Replied
<1>8. \A d \in j.pend \ j.batch : item'[r][d].action \in WriteActions =>
        Open(r, d)' \subseteq j.pend \ j.batch
  BY <1>1, <1>2, <1>3, <1>4, <1>5, <1>6 DEF Cells
<1>9. p = "posting" => \A d \in j.batch : j.batch = Open(r, d)'
  BY <1>1, <1>2, <1>3, <1>4, <1>6 DEF Cells
<1>10. p \in {"settling", "marking"} =>
         \A m \in Due' : m.run = r => m.docs \cap j.batch = {}
  BY <1>1, <1>2, <1>3, <1>5 DEF Cells
<1>11. Reviewed(j) => \A d \in j.pend \ j.batch :
         item'[r][d].action = "create_draft" =>
           NoDraft(r, d)' \/ (Replied(r, Open(r, d)))'
  BY <1>1, <1>2, <1>3, <1>4, <1>5, <1>7 DEF Cells
<1> QED
  BY <1>3, <1>8, <1>9, <1>10, <1>11 DEF Cells, Executing

\* Where the tables, Xero and its requests stay, the groups are a matter of
\* the local variables.
LEMMA CellsKept ==
    ASSUME NEW p \in Pcs, NEW j \in JobType, Cells(p, j),
           UNCHANGED <<item, xero, wire, replies>>
    PROVE  Cells(p, j)'
<1>1. \A r, d : Open(r, d)' = Open(r, d) /\ (NoDraft(r, d)' <=> NoDraft(r, d))
  BY DEF Open, Rows, Together, GroupIn, NoDraft, Active
<1>2. Due' = Due /\ \A r, S : Replied(r, S)' <=> Replied(r, S)
  BY DEF Due, Answered, Replied
<1> QED
  BY <1>1, <1>2 DEF Cells, Reviewed, Executing

\* An invocation takes all that is open in hand.
LEMMA LoadCells ==
    ASSUME IInv, AllHold, NEW w \in Workers, LoadRows(w)
    PROVE  Cells(pc[w], job[w])'
<1>1. PICK j \in JobType, r \in Runs : j = job[w] /\ r = job[w].run
  BY WorkerFacts DEF LoadRows, JobWellFormed
<1>2. /\ pc[w] = "started" /\ j.batch = {} /\ j.seen = {}
      /\ job \in [Workers -> JobType] /\ pc \in [Workers -> Pcs]
      /\ UNCHANGED <<item, xero, wire, replies>>
  BY <1>1, WorkerFacts DEF LoadRows, IInv, TypeOK, external, AllHold, Holds,
     JobWellFormed
<1>3. PICK rows \in SUBSET Docs, pend \in SUBSET Docs :
        /\ rows = {d \in Docs : /\ item[r][d].selected
                                /\ item[r][d].status \in Chosen}
        /\ pend = {d \in rows : item[r][d].status \notin DoneStatuses}
  <2> DEFINE R == {d \in Docs : /\ item[r][d].selected
                                /\ item[r][d].status \in Chosen}
             P == {d \in R : item[r][d].status \notin DoneStatuses}
  <2>1. R \in SUBSET Docs /\ P \in SUBSET Docs
    OBVIOUS
  <2> QED
    BY <2>1
<1>4. PICK k \in JobType : k = [j EXCEPT !.rows = rows, !.pend = pend]
  <2>1. [j EXCEPT !.rows = rows, !.pend = pend] \in JobType
    BY DEF JobType
  <2> QED
    BY <2>1
<1>5. job'[w] = k /\ pc'[w] = "reading"
  BY <1>1, <1>2, <1>3, <1>4 DEF LoadRows, Goto, MyItem, Chosen
<1>6. /\ k.run = r /\ k.pend = pend /\ k.batch = {} /\ ~Reviewed(k)
  BY <1>1, <1>2, <1>4 DEF JobType, Reviewed
<1>7. \A d \in Docs : Open(r, d) \subseteq pend
  BY <1>3 DEF IInv, RowsWellFormed, Open, Rows
<1>8. Cells("reading", k) /\ "reading" \in Pcs
  BY <1>3, <1>6, <1>7 DEF Cells, Executing, Pcs
<1> QED
  BY <1>2, <1>5, <1>8, CellsKept

\* The re-read of Salesforce writes nothing.
LEMMA ReadSalesforceCells ==
    ASSUME IInv, InCells, NEW w \in Workers, ReadSalesforce(w)
    PROVE  Cells(pc[w], job[w])'
<1>1. PICK j \in JobType : j = job[w]
  BY WorkerFacts
<1>2. /\ job \in [Workers -> JobType] /\ pc' = pc /\ pc[w] = "reading"
      /\ UNCHANGED <<item, xero, wire, replies>>
      /\ Cells("reading", j) /\ "reading" \in Pcs
  BY <1>1 DEF ReadSalesforce, IInv, TypeOK, external, InCells, Pcs
<1>3. PICK s \in BOOLEAN : s = (j.stale \/ StaleSource(w))
  BY DEF JobType
<1>4. PICK k \in JobType :
        k = [j EXCEPT !.seen = j.seen \cup {"salesforce"}, !.stale = s]
  <2>1. [j EXCEPT !.seen = j.seen \cup {"salesforce"}, !.stale = s] \in JobType
    BY DEF JobType
  <2> QED
    BY <2>1
<1>5. job'[w] = k
  BY <1>1, <1>2, <1>3, <1>4 DEF ReadSalesforce
<1>6. /\ k.run = j.run /\ k.pend = j.pend /\ k.batch = j.batch
      /\ Reviewed(k) => Reviewed(j)
  BY <1>3, <1>4 DEF JobType, Reviewed
<1>7. Cells("reading", k)
  BY <1>2, <1>6 DEF Cells, Executing
<1> QED
  BY <1>2, <1>5, <1>7, CellsKept

\* A draft of a row would support it as its document does: the re-read of Xero
\* finds it.
LEMMA DraftIsFound ==
    ASSUME IInv, Numbered, NEW r \in Runs, NEW d \in Docs,
           item[r][d].action = "create_draft", ~StaleTarget(r, d)
    PROVE  NoDraft(r, d)
<1> SUFFICES ASSUME NEW x \in Slots, Active(x), xero[x].by = r, xero[x].made = d
             PROVE  FALSE
  BY DEF NoDraft
<1>1. x \in Used
  BY DEF Active, Used
<1>2. xero[x].src \in Docs /\ SupportKey[xero[x].src] = SupportKey[d]
  BY <1>1 DEF Numbered
<1>3. x \in SupportMatches(d)
  BY <1>2 DEF SupportMatches
<1> QED
  BY <1>3 DEF StaleTarget

\* The re-read of Xero finds no draft of any row to be created, or the batch
\* stale.
LEMMA ReadXeroCells ==
    ASSUME IInv, InCells, Numbered, NEW w \in Workers, ReadXero(w)
    PROVE  Cells(pc[w], job[w])'
<1>1. PICK j \in JobType, r \in Runs : j = job[w] /\ r = j.run
  BY WorkerFacts DEF ReadXero, JobWellFormed
<1>2. /\ job \in [Workers -> JobType] /\ pc' = pc /\ pc[w] = "reading"
      /\ UNCHANGED <<item, xero, wire, replies>>
      /\ Cells("reading", j) /\ "reading" \in Pcs
      /\ j.pend \subseteq j.rows /\ j.rows \subseteq Docs
  BY <1>1, WorkerFacts DEF ReadXero, IInv, TypeOK, external, InCells,
     JobWellFormed, Pcs, JobType
<1>3. PICK s \in BOOLEAN : s = (j.stale \/ \E d \in j.rows : StaleTarget(r, d))
  BY DEF JobType
<1>4. PICK k \in JobType :
        k = [j EXCEPT !.seen = j.seen \cup {"xero"}, !.stale = s]
  <2>1. [j EXCEPT !.seen = j.seen \cup {"xero"}, !.stale = s] \in JobType
    BY DEF JobType
  <2> QED
    BY <2>1
<1>5. job'[w] = k
  BY <1>1, <1>2, <1>3, <1>4 DEF ReadXero
<1>6. /\ k.run = r /\ k.pend = j.pend /\ k.batch = j.batch
      /\ Reviewed(k) => \A d \in j.rows : ~StaleTarget(r, d)
  BY <1>1, <1>3, <1>4 DEF JobType, Reviewed
<1>7. Reviewed(k) => \A d \in j.pend : item[r][d].action = "create_draft" =>
        NoDraft(r, d)
  BY <1>2, <1>6, DraftIsFound
<1>8. Cells("reading", k)
  BY <1>1, <1>2, <1>6, <1>7 DEF Cells, Executing
<1> QED
  BY <1>2, <1>5, <1>8, CellsKept

\* The batch goes to work, or a row from its mapping to its checkpoint.
LEMMA MoveCells ==
    ASSUME IInv, InCells, NEW w \in Workers,
           AssertStillCurrent(w) \/ UpsertMapping(w)
    PROVE  Cells(pc[w], job[w])'
<1>1. PICK j \in JobType : j = job[w]
  BY WorkerFacts
<1>2. /\ pc \in [Workers -> Pcs] /\ job' = job
      /\ UNCHANGED <<item, xero, wire, replies>> /\ Cells(pc[w], j)
  BY <1>1 DEF AssertStillCurrent, UpsertMapping, IInv, TypeOK, external, InCells
<1>3. \/ pc[w] = "reading" /\ pc'[w] \in {"failing", "working"}
      \/ pc[w] = "settling" /\ pc'[w] \in {"failing", "marking"}
  BY <1>2 DEF AssertStillCurrent, UpsertMapping, Goto
<1>4. PICK p \in Pcs : p = pc'[w]
  BY <1>3 DEF Pcs
<1>5. Cells(p, j)
  BY <1>2, <1>3, <1>4 DEF Cells, Executing
<1> QED
  BY <1>1, <1>2, <1>4, <1>5, CellsKept

\* A link is no row of a request.
LEMMA LinkCells ==
    ASSUME IInv, InCells, NEW w \in Workers, LinkRow(w)
    PROVE  Cells(pc[w], job[w])'
<1>1. PICK j \in JobType, r \in Runs, d \in Docs :
        /\ j = job[w] /\ r = j.run /\ d = Min(NoWrites(w)) /\ d \in j.pend
        /\ item[r][d].action \in NoWriteActions
  <2>1. job[w] \in JobType /\ job[w].run \in Runs
    BY WorkerFacts DEF LinkRow, JobWellFormed
  <2>2. NoWrites(w) \in SUBSET Docs /\ NoWrites(w) \subseteq job[w].pend
    BY <2>1, GroupFacts DEF JobType
  <2>3. Min(NoWrites(w)) \in NoWrites(w)
    BY <2>2, MinInSet DEF LinkRow
  <2> QED
    BY <2>1, <2>2, <2>3 DEF NoWrites, MyItem
<1>2. /\ job \in [Workers -> JobType] /\ pc \in [Workers -> Pcs]
      /\ pc[w] = "working" /\ UNCHANGED <<item, xero, wire, replies>>
      /\ Cells("working", j) /\ j.batch = {} /\ j.pend \subseteq Docs
  BY <1>1, WorkerFacts DEF LinkRow, IInv, TypeOK, external, InCells,
     JobWellFormed, JobType
<1>3. item[r][d] \in ItemType /\ item[r][d].target \in Slots
  BY <1>1 DEF IInv, TypeOK, RowsWellFormed
<1>4. PICK found \in [slot : Slots \cup {NoSlot}, stamp : Nat] :
        found = [slot |-> item[r][d].target, stamp |-> item[r][d].stamp]
  BY <1>3 DEF ItemType
<1>5. PICK k \in JobType : k = [j EXCEPT !.batch = {d},
                                  !.result = [j.result EXCEPT ![d] = found]]
  <2>1. [j.result EXCEPT ![d] = found] \in ResultType
    BY DEF JobType, ResultType
  <2>2. [j EXCEPT !.batch = {d}, !.result = [j.result EXCEPT ![d] = found]] \in JobType
    BY <2>1 DEF JobType
  <2> QED
    BY <2>2
<1>6. job'[w] = k /\ pc'[w] = "settling"
  BY <1>1, <1>2, <1>4, <1>5 DEF LinkRow, Goto, MyItem
<1>7. /\ k.run = r /\ k.pend = j.pend /\ k.batch = {d}
      /\ k.seen = j.seen /\ k.stale = j.stale
  BY <1>1, <1>5 DEF JobType
<1>8. \A e \in Docs : d \notin Open(r, e)
  BY <1>1 DEF Open, WriteActions, NoWriteActions
<1>9. \A m \in Due : m.run = r => m.docs \cap {d} = {}
  BY <1>1 DEF Due, IInv, WireWellFormed, WriteActions, NoWriteActions
<1>10. Cells("settling", k) /\ "settling" \in Pcs
  BY <1>1, <1>2, <1>7, <1>8, <1>9 DEF Cells, Executing, Reviewed, Pcs
<1> QED
  BY <1>2, <1>6, <1>10, CellsKept

\* What is posted is all that is open of a group, and of no other.
LEMMA PostedIsOpen ==
    ASSUME IInv, AllHold, InCells, NEW w \in Workers, PostBatch(w),
           NEW r \in Runs, r = job[w].run, NEW d \in NextPost(w)
    PROVE  d \in Docs /\ NextPost(w) = Open(r, d)
<1>1. PICK j \in JobType, b \in SUBSET Docs : j = job[w] /\ b = NextPost(w)
  BY GroupFacts, WorkerFacts DEF JobType, JobWellFormed
<1>2. /\ pc[w] = "working" /\ j.batch = {} /\ j.pend \subseteq j.rows
      /\ j.rows \subseteq Docs /\ NoWrites(w) = {}
  BY <1>1, WorkerFacts DEF PostBatch, JobWellFormed, JobType
<1>3. /\ Holds("working", j, touched[w]) /\ Cells("working", j)
  BY <1>1, <1>2 DEF AllHold, InCells
<1>4. j.rows = Rows(r)
  BY <1>1, <1>2, <1>3 DEF Holds, Executing, Rows
<1>5. \A e \in Docs : GroupOf(w, e) = GroupIn(r, e)
  BY <1>1, <1>4, GroupAgrees
<1>6. Group(w) = {e \in j.pend : \A c \in j.pend : GroupIn(r, e) <= GroupIn(r, c)}
  BY <1>1, <1>2, <1>5 DEF Group
<1>7. \A e \in j.pend : GroupIn(r, e) \in Nat
  BY <1>1, <1>2, <1>5, GroupOfType
<1>8. ASSUME NEW e \in Group(w)
      PROVE  /\ e \in j.pend /\ item[r][e].selected
             /\ item[r][e].action \in WriteActions
             /\ item[r][e].status \notin DoneStatuses
  <2>1. e \in j.pend /\ e \in Docs
    BY <1>2, <1>6, <1>8
  <2>2. item[r][e].selected /\ item[r][e].status \notin DoneStatuses
    BY <1>1, <1>2, <1>3, <2>1 DEF Holds, Executing
  <2>3. item[r][e].action \notin NoWriteActions
    BY <1>1, <1>2, <1>8 DEF NoWrites, MyItem
  <2>4. item[r][e].action \in NoWriteActions \cup WriteActions
    BY <2>1, <2>2 DEF IInv, RowsWellFormed
  <2> QED
    BY <2>1, <2>2, <2>3, <2>4
<1>9. d \in Group(w) /\ d \in j.pend /\ d \in Docs
  BY <1>2, <1>6, GroupFacts
<1>10. Open(r, d) \subseteq j.pend
  BY <1>1, <1>2, <1>3, <1>8, <1>9 DEF Cells, Executing
<1>11. ASSUME NEW e \in Open(r, d) PROVE e \in b
  <2>1. e \in j.pend /\ Together(r, d, e)
    BY <1>10, <1>11 DEF Open
  <2>2. e \in Group(w)
    BY <1>6, <1>9, <2>1 DEF Together
  <2> QED
    BY <1>1, <2>1, <2>2 DEF NextPost, Together
<1>12. ASSUME NEW e \in b PROVE e \in Open(r, d)
  <2>1. e \in Group(w) /\ e \in Docs
    BY <1>1, <1>12, GroupFacts
  <2>2. GroupIn(r, d) = GroupIn(r, e)
    BY <1>6, <1>7, <1>9, <2>1
  <2>3. d \in CreditNotes <=> e \in CreditNotes
    BY <1>1, <1>12 DEF NextPost
  <2> QED
    BY <1>8, <2>1, <2>2, <2>3 DEF Open, Rows, Together
<1> QED
  BY <1>1, <1>9, <1>11, <1>12

\* A group that is posted has all that is open in the request, and the other
\* groups keep theirs.
LEMMA PostCells ==
    ASSUME IInv, AllHold, InCells, NEW w \in Workers, PostBatch(w)
    PROVE  Cells(pc[w], job[w])'
<1>1. PICK j \in JobType, r \in Runs, b \in SUBSET Docs :
        /\ j = job[w] /\ r = j.run /\ b = NextPost(w) /\ b \subseteq j.pend
  <2>1. job[w] \in JobType /\ job[w].run \in Runs
    BY WorkerFacts DEF PostBatch, JobWellFormed
  <2> QED
    BY <2>1, GroupFacts DEF JobType
<1>2. /\ job \in [Workers -> JobType] /\ pc \in [Workers -> Pcs]
      /\ pc[w] = "working" /\ UNCHANGED <<item, xero, replies>>
      /\ Cells("working", j) /\ j.batch = {} /\ j.pend \subseteq Docs
      /\ j.pend \subseteq j.rows
      /\ \A d \in j.pend : item[r][d].selected
                           /\ item[r][d].status \notin DoneStatuses
  BY <1>1, WorkerFacts DEF PostBatch, IInv, TypeOK, InCells, AllHold, Holds,
     Executing, JobWellFormed, JobType
<1>3. PICK k \in JobType : k = [j EXCEPT !.batch = b]
  <2>1. [j EXCEPT !.batch = b] \in JobType
    BY DEF JobType
  <2> QED
    BY <2>1
<1>4. job'[w] = k /\ pc'[w] = "posting"
  BY <1>1, <1>2, <1>3 DEF PostBatch, Goto
<1>5. /\ k.run = r /\ k.pend = j.pend /\ k.batch = b
      /\ k.seen = j.seen /\ k.stale = j.stale
  BY <1>1, <1>3 DEF JobType
<1>6. \A d \in b : d \in Docs /\ b = Open(r, d)
  BY <1>1, PostedIsOpen
<1>7. ASSUME NEW d \in j.pend \ b, item[r][d].action \in WriteActions
      PROVE  Open(r, d) \subseteq j.pend \ b
  <2>1. d \in Docs /\ Open(r, d) \subseteq j.pend
    BY <1>1, <1>2, <1>7 DEF Cells, Executing
  <2>2. d \in Open(r, d)
    BY <1>2, <1>7, <2>1, OpenSelf
  <2>3. ASSUME NEW e \in Open(r, d), e \in b PROVE FALSE
    <3>1. Open(r, e) = Open(r, d)
      BY <2>1, OpenSame
    <3> QED
      BY <1>6, <1>7, <2>2, <2>3, <3>1
  <2> QED
    BY <2>1, <2>3
<1>8. \A d \in Docs : Open(r, d)' = Open(r, d)
  BY <1>2, OpenKept
<1>9. \A d \in Docs : /\ NoDraft(r, d) => NoDraft(r, d)'
                      /\ Replied(r, Open(r, d)) => (Replied(r, Open(r, d)))'
  BY <1>2, <1>8 DEF NoDraft, Active, Replied
<1>10. Cells("posting", k)'
  <2>1. \A d \in k.pend \ k.batch : item'[r][d].action \in WriteActions =>
          Open(r, d)' \subseteq k.pend \ k.batch
    BY <1>2, <1>5, <1>7, <1>8
  <2>2. \A d \in k.batch : k.batch = Open(r, d)'
    BY <1>5, <1>6, <1>8
  <2>3. Reviewed(k) => \A d \in k.pend \ k.batch :
          item'[r][d].action = "create_draft" =>
            NoDraft(r, d)' \/ (Replied(r, Open(r, d)))'
    BY <1>1, <1>2, <1>5, <1>9 DEF Cells, Executing, Reviewed
  <2> QED
    BY <1>5, <2>1, <2>2, <2>3 DEF Cells
<1> QED
  BY <1>4, <1>10

\* Its request is under way no more once it is answered, and no other one
\* overlaps it.
LEMMA AnsweredCells ==
    ASSUME IInv, InCells, Asked, NEW w \in Workers, PostAnswered(w)
    PROVE  Cells(pc[w], job[w])'
<1>1. PICK j \in JobType, r \in Runs : j = job[w] /\ r = j.run
  BY WorkerFacts DEF PostAnswered, JobWellFormed
<1>2. /\ job \in [Workers -> JobType] /\ pc \in [Workers -> Pcs]
      /\ pc[w] = "posting" /\ UNCHANGED <<item, xero, wire, replies>>
      /\ Cells("posting", j) /\ j.pend \subseteq Docs /\ j.batch \subseteq Docs
  BY <1>1 DEF PostAnswered, IInv, TypeOK, InCells, external, JobType
<1>3. PICK a \in replies : /\ a.run = r /\ a.docs = j.batch
                           /\ job' = [job EXCEPT ![w].result = a.result]
  BY <1>1 DEF PostAnswered
<1>4. PICK k \in JobType : k = [j EXCEPT !.result = a.result]
  <2>1. a.result \in ResultType
    BY DEF IInv, TypeOK, ReplyType
  <2>2. [j EXCEPT !.result = a.result] \in JobType
    BY <2>1 DEF JobType
  <2> QED
    BY <2>2
<1>5. job'[w] = k /\ pc'[w] = "settling"
  BY <1>1, <1>2, <1>3, <1>4 DEF PostAnswered, Goto
<1>6. /\ k.run = r /\ k.pend = j.pend /\ k.batch = j.batch
      /\ k.seen = j.seen /\ k.stale = j.stale
  BY <1>1, <1>4 DEF JobType
<1>7. ASSUME NEW m \in Due, m.run = r, NEW d \in m.docs, d \in j.batch
      PROVE  FALSE
  <2>1. m.docs = a.docs /\ m.run = a.run
    BY <1>1, <1>2, <1>3, <1>7 DEF Asked, Cells, Executing
  <2>2. IdempotencyKey(a) = IdempotencyKey(m)
    BY <2>1 DEF IdempotencyKey
  <2> QED
    BY <1>7, <2>2 DEF Due, Answered
<1>8. \A m \in Due : m.run = r => m.docs \cap j.batch = {}
  BY <1>7
<1>9. Cells("settling", k) /\ "settling" \in Pcs
  BY <1>1, <1>2, <1>6, <1>8 DEF Cells, Executing, Reviewed, Pcs
<1> QED
  BY <1>2, <1>5, <1>9, CellsKept

\* What a step that settles row d of run r does to the groups: only that of d
\* may shrink, and of d nothing is under way.
LEMMA SettlesOpen ==
    ASSUME IInv, AllHold, InCells, NEW w \in Workers,
           SettleFailed(w) \/ CheckpointRow(w)
    PROVE  \E r \in Runs, d \in Docs, j \in JobType, k \in JobType, p \in Pcs :
             /\ Settles(w, r, d, j, k, p)
             /\ \A m \in Due : m.run = r => d \notin m.docs
             /\ \A e \in Docs : /\ Open(r, e)' \subseteq Open(r, e)
                                /\ d \notin Open(r, e) => Open(r, e)' = Open(r, e)
             /\ \A q \in Runs \ {r} : \A e \in Docs : Open(q, e)' = Open(q, e)
<1>1. PICK r \in Runs, d \in Docs, j \in JobType, k \in JobType, p \in Pcs :
        /\ Settles(w, r, d, j, k, p)
        /\ \/ item'[r][d].status \in DoneStatuses
           \/ item'[r][d].status \in {"failed", item[r][d].status}
  <2>1. CASE SettleFailed(w)
    BY <2>1, FailedRowFacts
  <2>2. CASE CheckpointRow(w)
    BY <2>2, CheckpointFacts
  <2> QED
    BY <2>1, <2>2
<1>2. /\ Holds(pc[w], j, touched[w]) /\ Cells(pc[w], j) /\ Executing(pc[w])
      /\ pc[w] \in {"settling", "marking"}
      /\ j.run = r /\ d \in j.pend /\ d \in j.batch
  BY <1>1 DEF AllHold, InCells, Executing, Settles
<1>3. item[r][d].status \notin DoneStatuses
  BY <1>2 DEF Holds
<1>4. /\ \A e \in Docs : /\ item'[r][e].selected = item[r][e].selected
                         /\ item'[r][e].action = item[r][e].action
      /\ \A e \in Docs \ {d} : item'[r][e].status = item[r][e].status
      /\ \A q \in Runs \ {r} : \A e \in Docs : item'[q][e] = item[q][e]
  BY <1>1 DEF Settles
<1>5. \A e \in Docs : /\ Open(r, e)' \subseteq Open(r, e)
                      /\ d \notin Open(r, e) => Open(r, e)' = Open(r, e)
  BY <1>3, <1>4, OpenOfOthers
<1>6. \A q \in Runs \ {r} : \A e \in Docs : Open(q, e)' = Open(q, e)
  BY <1>4, OpenKept
<1>7. \A m \in Due : m.run = r => d \notin m.docs
  BY <1>2 DEF Cells
<1> WITNESS r \in Runs, d \in Docs, j \in JobType, k \in JobType, p \in Pcs
<1> QED
  BY <1>1, <1>5, <1>6, <1>7

\* A settled row leaves the groups still to be posted as they are.
LEMMA SettleCells ==
    ASSUME IInv, AllHold, InCells, NEW w \in Workers,
           SettleFailed(w) \/ CheckpointRow(w)
    PROVE  Cells(pc[w], job[w])'
<1>1. PICK r \in Runs, d \in Docs, j \in JobType, k \in JobType, p \in Pcs :
        /\ Settles(w, r, d, j, k, p)
        /\ \A m \in Due : m.run = r => d \notin m.docs
        /\ \A e \in Docs : /\ Open(r, e)' \subseteq Open(r, e)
                           /\ d \notin Open(r, e) => Open(r, e)' = Open(r, e)
        /\ \A q \in Runs \ {r} : \A e \in Docs : Open(q, e)' = Open(q, e)
  BY SettlesOpen
<1>2. /\ Cells(pc[w], j) /\ Executing(pc[w])
      /\ pc[w] \in {"settling", "marking"}
      /\ j.run = r /\ d \in j.pend /\ d \in j.batch
      /\ j.pend \subseteq Docs /\ UNCHANGED <<xero, wire, replies>>
  BY <1>1, OtherWorkers DEF InCells, Executing, Settles, JobType, WorkerStep
<1>3. /\ k = job'[w] /\ p = pc'[w] /\ p \in {"working", "settling"}
      /\ k.run = r /\ k.batch = j.batch \ {d}
      /\ k.pend \ k.batch = j.pend \ j.batch
      /\ Reviewed(k) => Reviewed(j)
      /\ \A e \in Docs : item'[r][e].action = item[r][e].action
  BY <1>1, <1>2 DEF Settles, Reviewed
<1>4. Due' = Due /\ \A q, S : Replied(q, S)' <=> Replied(q, S)
  BY <1>2 DEF Due, Answered, Replied
<1>5. \A e \in k.pend \ k.batch : item'[r][e].action \in WriteActions =>
        /\ Open(r, e)' \subseteq k.pend \ k.batch
        /\ Open(r, e)' = Open(r, e)
  BY <1>1, <1>2, <1>3 DEF Cells
<1>6. \A m \in Due' : m.run = r => m.docs \cap k.batch = {}
  BY <1>2, <1>3, <1>4 DEF Cells
<1>7. ASSUME Reviewed(k), NEW e \in k.pend \ k.batch,
             item'[r][e].action = "create_draft"
      PROVE  NoDraft(r, e)' \/ (Replied(r, Open(r, e)))'
  <2>1. e \in j.pend \ j.batch /\ item[r][e].action = "create_draft" /\ e \in Docs
    BY <1>2, <1>3, <1>7
  <2>2. NoDraft(r, e) \/ Replied(r, Open(r, e))
    BY <1>2, <1>3, <1>7, <2>1 DEF Cells
  <2>3. Open(r, e)' = Open(r, e)
    BY <1>5, <1>7 DEF WriteActions
  <2>4. NoDraft(r, e)' <=> NoDraft(r, e)
    BY <1>2 DEF NoDraft, Active
  <2> QED
    BY <1>4, <2>2, <2>3, <2>4 DEF Replied
<1> QED
  BY <1>3, <1>5, <1>6, <1>7 DEF Cells

\* Every step of an invocation, for the invocation itself.
LEMMA CellsOfWorker ==
    ASSUME IInv, AllHold, InCells, Asked, Numbered, NEW w \in Workers,
           WorkerStep(w) \/ WorkerFault(w)
    PROVE  Cells(pc[w], job[w])'
<1>1. pc \in [Workers -> Pcs]
  BY DEF IInv, TypeOK
<1>2. CASE \/ StartRefused(w) \/ FinishRun(w) \/ FailRun(w) \/ PostRejected(w)
           \/ WorkerFault(w) \/ StartRun(w)
  <2>1. pc'[w] \in {"idle", "failing", "started"}
    BY <1>1, <1>2 DEF StartRefused, FinishRun, FailRun, PostRejected, WorkerFault,
       LoadFails, ReadFails, PostFails, ReserveReached, RowWriteFails,
       FinishFails, Crash, Goto, Return, StartRun
  <2> QED
    BY <2>1 DEF Cells, Executing
<1>3. CASE ~(\/ StartRefused(w) \/ FinishRun(w) \/ FailRun(w) \/ PostRejected(w)
             \/ WorkerFault(w) \/ StartRun(w))
  BY <1>3, LoadCells, ReadSalesforceCells, ReadXeroCells, MoveCells, LinkCells,
     PostCells, AnsweredCells, SettleCells DEF WorkerStep
<1> QED
  BY <1>2, <1>3

\* A step of w changes the wire only by posting, for its own run.
LEMMA OtherRequests ==
    ASSUME IInv, NEW w \in Workers, WorkerStep(w) \/ WorkerFault(w)
    PROVE  \/ wire' = wire
           \/ /\ PostBatch(w) /\ pc[w] = "working" /\ job[w].run \in Runs
              /\ wire' = wire \cup {[run |-> job[w].run, docs |-> NextPost(w)]}
<1>1. CASE PostBatch(w)
  BY <1>1, WorkerFacts DEF PostBatch, JobWellFormed
<1>2. CASE ~PostBatch(w)
  BY <1>2 DEF WorkerStep, WorkerFault, StartRun, StartRefused, LoadRows, external,
     ReadSalesforce, ReadXero, AssertStillCurrent, LinkRow, SettleFailed,
     PostAnswered, PostRejected, UpsertMapping, FinishRun, FailRun, LoadFails,
     ReadFails, PostFails, ReserveReached, RowWriteFails, FinishFails, Crash,
     CheckpointRow
<1> QED
  BY <1>1, <1>2

\* A step of w leaves the groups of another invocation alone.
LEMMA CellsOfOthers ==
    ASSUME IInv, Ownership, InCells, NEW w \in Workers,
           WorkerStep(w) \/ WorkerFault(w), NEW v \in Workers \ {w}
    PROVE  Cells(pc[v], job[v])'
<1>1. pc'[v] = pc[v] /\ job'[v] = job[v] /\ UNCHANGED <<xero, replies>>
  BY OtherWorkers
<1>2. ASSUME Executing(pc[v])
      PROVE  /\ \A d \in Docs : item'[job[v].run][d] = item[job[v].run][d]
             /\ \A m \in Due' : m \in Due \/ m.run # job[v].run
             /\ \A d \in Docs : NoDraft(job[v].run, d) => NoDraft(job[v].run, d)'
  <2>1. Working(pc[v]) /\ job[v].run \in Runs
    BY <1>2, Alone DEF Executing, Working
  <2>2. pc[w] \in {"settling", "marking", "working"} => job[w].run # job[v].run
    BY <2>1, Alone DEF Working
  <2>3. \A d \in Docs : item'[job[v].run][d] = item[job[v].run][d]
    BY <2>1, <2>2, OtherRows
  <2>4. \A m \in wire' : m \in wire \/ m.run # job[v].run
    BY <2>2, OtherRequests
  <2>5. \A m \in Due' : m \in Due \/ m.run # job[v].run
    BY <1>1, <2>4, DueShrinks DEF Due
  <2> QED
    BY <1>1, <2>1, <2>3, <2>5 DEF NoDraft, Active
<1> QED
  BY <1>1, <1>2, CellsFrame DEF InCells

-----------------------------------------------------------------------------
(* Requests and references under the steps of an invocation *)

\* A request under way is of a run.
LEMMA DueFacts ==
    ASSUME IInv, NEW m \in Due
    PROVE  m \in wire /\ m.run \in Runs /\ m.docs \subseteq Docs /\ ~Answered(m)
  BY DEF Due, IInv, TypeOK, RequestType

\* The request of an invocation would create nothing that is there, unless it
\* is one that was answered.
LEMMA PostAsks ==
    ASSUME IInv, AllHold, InCells, Asked, NEW w \in Workers, PostBatch(w)
    PROVE  Asked'
<1>1. PICK j \in JobType, r \in Runs, b \in SUBSET Docs :
        /\ j = job[w] /\ r = j.run /\ b = NextPost(w) /\ b \subseteq j.pend
  <2>1. job[w] \in JobType /\ job[w].run \in Runs
    BY WorkerFacts DEF PostBatch, JobWellFormed
  <2> QED
    BY <2>1, GroupFacts DEF JobType
<1>2. /\ UNCHANGED <<item, xero, replies>>
      /\ wire' = wire \cup {[run |-> r, docs |-> b]}
      /\ Cells("working", j) /\ Reviewed(j) /\ j.batch = {}
  BY <1>1, WorkerFacts DEF PostBatch, InCells, AllHold, Holds, Executing,
     JobWellFormed
<1>3. /\ \A q \in Runs, d \in Docs : Open(q, d)' = Open(q, d)
      /\ \A q \in Runs, d \in Docs : NoDraft(q, d) => NoDraft(q, d)'
  BY <1>2, OpenKept DEF NoDraft, Active
<1>4. SUFFICES ASSUME NEW m \in Due', NEW d \in m.docs
               PROVE  /\ m.docs = Open(m.run, d)'
                      /\ item'[m.run][d].action = "create_draft" =>
                           NoDraft(m.run, d)'
  BY DEF Asked
<1>5. CASE m \in Due
  <2>1. m.run \in Runs /\ d \in Docs
    BY <1>5, DueFacts
  <2> QED
    BY <1>2, <1>3, <1>5, <2>1 DEF Asked
<1>6. CASE m \notin Due
  <2>1. m = [run |-> r, docs |-> b]
    BY <1>2, <1>6, DueShrinks DEF Due
  <2>2. m.run = r /\ m.docs = b /\ d \in b /\ d \in Docs
    BY <2>1
  <2>3. b = Open(r, d)
    BY <1>1, <2>2, PostedIsOpen
  <2>4. ~Replied(r, b)
    <3> SUFFICES ASSUME NEW a \in replies, a.run = r, a.docs = b PROVE FALSE
      BY DEF Replied
    <3>1. IdempotencyKey(a) = IdempotencyKey(m)
      BY <2>2 DEF IdempotencyKey
    <3>2. Answered(m)'
      BY <1>2, <3>1 DEF Answered, IdempotencyKey
    <3> QED
      BY <3>2 DEF Due
  <2>5. item[r][d].action = "create_draft" => NoDraft(r, d)
    BY <1>1, <1>2, <2>2, <2>3, <2>4 DEF Cells, Executing
  <2> QED
    BY <1>2, <1>3, <2>2, <2>3, <2>5
<1> QED
  BY <1>5, <1>6

\* Every step of an invocation.
LEMMA AskedOfWorker ==
    ASSUME IInv, AllHold, InCells, Asked, NEW w \in Workers,
           WorkerStep(w) \/ WorkerFault(w)
    PROVE  Asked'
<1>1. UNCHANGED <<xero, replies>>
  BY OtherWorkers
<1>2. CASE PostBatch(w)
  BY <1>2, PostAsks
<1>3. CASE ~PostBatch(w)
  <2>1. wire' = wire
    BY <1>3, OtherRequests
  <2>2. Due' = Due
    BY <1>1, <2>1 DEF Due, Answered
  <2>3. ASSUME NEW m \in Due, NEW d \in m.docs
        PROVE  /\ Open(m.run, d)' = Open(m.run, d)
               /\ item'[m.run][d].action = item[m.run][d].action
    <3>1. m.run \in Runs /\ d \in Docs
      BY <2>3, DueFacts
    <3>2. CASE item' = item
      BY <3>1, <3>2, OpenKept
    <3>3. CASE SettleFailed(w) \/ CheckpointRow(w)
      <4>1. PICK r \in Runs, e \in Docs, j \in JobType, k \in JobType, p \in Pcs :
              /\ Settles(w, r, e, j, k, p)
              /\ \A n \in Due : n.run = r => e \notin n.docs
              /\ \A c \in Docs : /\ Open(r, c)' \subseteq Open(r, c)
                                 /\ e \notin Open(r, c) => Open(r, c)' = Open(r, c)
              /\ \A q \in Runs \ {r} : \A c \in Docs : Open(q, c)' = Open(q, c)
        BY <3>3, SettlesOpen
      <4>2. m.docs = Open(m.run, d)
        BY <2>3 DEF Asked
      <4>3. item'[m.run][d].action = item[m.run][d].action
        BY <3>1, <4>1 DEF Settles
      <4> QED
        BY <2>3, <3>1, <4>1, <4>2, <4>3
    <3> QED
      BY <3>2, <3>3, OtherRows
  <2>4. \A q \in Runs, d \in Docs : NoDraft(q, d) => NoDraft(q, d)'
    BY <1>1 DEF NoDraft, Active
  <2> SUFFICES ASSUME NEW m \in Due, NEW d \in m.docs
               PROVE  /\ m.docs = Open(m.run, d)'
                      /\ item'[m.run][d].action = "create_draft" =>
                           NoDraft(m.run, d)'
    BY <2>2 DEF Asked
  <2>5. m.run \in Runs /\ d \in Docs
    BY DueFacts
  <2> QED
    BY <2>3, <2>4, <2>5 DEF Asked
<1> QED
  BY <1>2, <1>3

\* A step of an invocation is of a run that was authorised.
LEMMA UnstartedOfWorker ==
    ASSUME IInv, Unstarted, NEW w \in Workers, WorkerStep(w) \/ WorkerFault(w)
    PROVE  Unstarted'
<1>1. /\ pc \in [Workers -> Pcs] /\ job \in [Workers -> JobType]
      /\ run \in [Runs -> RunType]
  BY DEF IInv, TypeOK
<1>2. \/ job'[w].run = job[w].run
      \/ job'[w].run \notin Runs
  <2>1. CASE WorkerFault(w)
    BY <1>1, <2>1, ConstantsAssumption DEF WorkerFault, LoadFails, ReadFails,
       PostFails, ReserveReached, RowWriteFails, FinishFails, Crash, Return, NoJob
  <2>2. CASE \/ StartRefused(w) \/ FinishRun(w) \/ FailRun(w)
    BY <1>1, <2>2, ConstantsAssumption DEF StartRefused, FinishRun, FailRun,
       Return, NoJob
  <2>3. CASE SettleFailed(w) \/ CheckpointRow(w)
    <3>1. PICK r \in Runs, d \in Docs, j \in JobType, k \in JobType, p \in Pcs :
            Settles(w, r, d, j, k, p)
      BY <2>3, FailedRowFacts, CheckpointFacts
    <3> QED
      BY <3>1 DEF Settles
  <2>4. CASE \/ LinkRow(w) \/ PostBatch(w) \/ PostAnswered(w) \/ PostRejected(w)
             \/ UpsertMapping(w) \/ AssertStillCurrent(w)
    BY <1>1, <2>4 DEF LinkRow, PostBatch, PostAnswered, PostRejected, JobType,
       UpsertMapping, AssertStillCurrent
  <2>5. CASE \/ StartRun(w) \/ LoadRows(w) \/ ReadSalesforce(w) \/ ReadXero(w)
    BY <1>1, <2>5 DEF StartRun, LoadRows, ReadSalesforce, ReadXero, JobType
  <2> QED
    BY <2>1, <2>2, <2>3, <2>4, <2>5 DEF WorkerStep
<1>3. \A r \in Runs : run'[r].status \in {"none", "ready_for_review"} =>
                        run[r].status = run'[r].status
  <2>1. CASE run' = run
    BY <2>1
  <2>2. CASE StartRun(w)
    <3>1. PICK r, n : /\ run' = [run EXCEPT ![r] = [status |-> "processing", rev |-> n]]
      BY <2>2, WorkerFacts DEF StartRun, JobWellFormed
    <3> QED
      BY <1>1, <3>1
  <2>3. CASE \E s \in {"partial", "completed", "failed"} : run' = FinishedRun(w, s)
    <3>1. PICK s \in {"partial", "completed", "failed"} : run' = FinishedRun(w, s)
      BY <2>3
    <3>2. PICK r, n : r = job[w].run /\ n = run[job[w].run].rev + 1
      OBVIOUS
    <3>3. run' \in {run, [run EXCEPT ![r] = [status |-> s, rev |-> n]]}
      BY <3>1, <3>2 DEF FinishedRun
    <3> QED
      BY <1>1, <3>1, <3>3
  <2>4. \/ run' = run \/ StartRun(w)
        \/ \E s \in {"partial", "completed", "failed"} : run' = FinishedRun(w, s)
    BY DEF WorkerStep, WorkerFault, StartRun, StartRefused, LoadRows, external,
     ReadSalesforce, ReadXero, AssertStillCurrent, LinkRow, SettleFailed,
     PostAnswered, PostRejected, UpsertMapping, FinishRun, FailRun, LoadFails,
     ReadFails, PostFails, ReserveReached, RowWriteFails, FinishFails, Crash,
     CheckpointRow, PostBatch, TerminalStatus
  <2> QED
    BY <2>1, <2>2, <2>3, <2>4
<1>4. /\ \A v \in Workers \ {w} : job'[v] = job[v]
      /\ replies' = replies
      /\ \A m \in wire' : m \in wire \/ m.run = job[w].run
  BY OtherWorkers, OtherRequests
<1> QED
  BY <1>2, <1>3, <1>4 DEF Unstarted

\* What an invocation links, maps or checkpoints is a known identity.
LEMMA ReferredOfWorker ==
    ASSUME IInv, Referred, NEW w \in Workers, WorkerStep(w) \/ WorkerFault(w)
    PROVE  Referred'
<1>1. /\ UNCHANGED <<xero, replies>>
      /\ \A v \in Workers \ {w} : job'[v] = job[v]
  BY OtherWorkers
<1>2. \A d, x : Refers(d, x)' <=> Refers(d, x)
  BY <1>1 DEF Refers, Used
<1>3. /\ pc \in [Workers -> Pcs] /\ job \in [Workers -> JobType]
      /\ mapping \in [Docs -> Slots \cup {NoSlot}]
      /\ item \in [Runs -> [Docs -> ItemType]] /\ job[w] \in JobType
  BY DEF IInv, TypeOK
<1>4. \A d \in Docs : Refers(d, mapping'[d])
  <2>1. CASE UpsertMapping(w)
    <3>1. PICK e, x :
            /\ e \in Docs /\ e = Current(w) /\ x = job[w].result[e].slot
            /\ mapping' \in {mapping, [mapping EXCEPT ![e] = x]}
      BY <2>1, CurrentFacts DEF UpsertMapping, Result
    <3>2. Refers(e, x)
      BY <3>1 DEF Referred
    <3> QED
      BY <1>3, <3>1, <3>2 DEF Referred
  <2>2. CASE ~UpsertMapping(w)
    <3>1. mapping' = mapping
      BY <2>2 DEF WorkerStep, WorkerFault, StartRun, StartRefused, LoadRows,
         ReadSalesforce, ReadXero, AssertStillCurrent, LinkRow, SettleFailed,
         PostAnswered, PostRejected, FinishRun, FailRun, LoadFails,
         ReadFails, PostFails, ReserveReached, RowWriteFails, FinishFails, Crash,
         CheckpointRow, PostBatch
    <3> QED
      BY <3>1 DEF Referred
  <2> QED
    BY <2>1, <2>2
<1>5. \A r \in Runs, d \in Docs : Refers(d, item'[r][d].target)
  <2>1. CASE item' = item
    BY <2>1 DEF Referred
  <2>2. CASE SettleFailed(w) \/ CheckpointRow(w)
    <3>1. PICK r \in Runs, d \in Docs, j \in JobType, k \in JobType, p \in Pcs :
            /\ Settles(w, r, d, j, k, p)
            /\ item'[r][d].target \in {item[r][d].target, j.result[d].slot}
      <4>1. CASE SettleFailed(w)
        BY <4>1, FailedRowFacts
      <4>2. CASE CheckpointRow(w)
        BY <4>2, CheckpointFacts
      <4> QED
        BY <2>2, <4>1, <4>2
    <3>2. /\ \A q \in Runs, e \in Docs : ~(q = r /\ e = d) => item'[q][e] = item[q][e]
          /\ j = job[w]
      BY <3>1 DEF Settles
    <3>3. Refers(d, item'[r][d].target)
      BY <3>1, <3>2 DEF Referred
    <3> QED
      BY <3>2, <3>3 DEF Referred
  <2> QED
    BY <2>1, <2>2, OtherRows
<1>6. \A d \in Docs : Refers(d, job'[w].result[d].slot)
  <2>1. CASE job'[w].result = job[w].result
    BY <2>1 DEF Referred
  <2>2. CASE job'[w] = NoJob
    BY <2>2 DEF NoJob, NoReply, Refers
  <2>3. CASE PostAnswered(w)
    <3>1. PICK a \in replies : job' = [job EXCEPT ![w].result = a.result]
      BY <2>3 DEF PostAnswered
    <3>2. job'[w].result = a.result
      BY <1>3, <3>1 DEF JobType
    <3> QED
      BY <3>2 DEF Referred
  <2>4. CASE LinkRow(w)
    <3>1. job[w].run \in Runs /\ NoWrites(w) \in SUBSET Docs
      BY <1>3, <2>4, GroupFacts, WorkerFacts DEF LinkRow, JobWellFormed, JobType
    <3>2. PICK r \in Runs, e \in Docs : r = job[w].run /\ e = Min(NoWrites(w))
      BY <2>4, <3>1, MinInSet DEF LinkRow
    <3>3. PICK found : found = [slot |-> item[r][e].target, stamp |-> item[r][e].stamp]
      OBVIOUS
    <3>4. job'[w].result = [job[w].result EXCEPT ![e] = found]
      BY <1>3, <2>4, <3>2, <3>3 DEF LinkRow, MyItem, JobType
    <3>5. job[w].result \in ResultType /\ found.slot = item[r][e].target
      BY <1>3, <3>3 DEF JobType
    <3>6. Refers(e, found.slot)
      BY <3>5 DEF Referred
    <3>7. ASSUME NEW d \in Docs PROVE Refers(d, job'[w].result[d].slot)
      <4>1. CASE d = e
        BY <3>4, <3>5, <3>6, <4>1 DEF ResultType
      <4>2. CASE d # e
        <5>1. job'[w].result[d] = job[w].result[d]
          BY <3>4, <3>5, <4>2 DEF ResultType
        <5> QED
          BY <5>1 DEF Referred
      <4> QED
        BY <4>1, <4>2
    <3> QED
      BY <3>7
  <2>5. \/ job'[w].result = job[w].result \/ job'[w] = NoJob
        \/ PostAnswered(w) \/ LinkRow(w)
    <3>1. CASE WorkerFault(w)
      BY <1>3, <3>1 DEF WorkerFault, LoadFails, ReadFails, PostFails, Return,
         ReserveReached, RowWriteFails, FinishFails, Crash
    <3>2. CASE \/ StartRefused(w) \/ FinishRun(w) \/ FailRun(w)
      BY <1>3, <3>2 DEF StartRefused, FinishRun, FailRun, Return
    <3>3. CASE SettleFailed(w) \/ CheckpointRow(w)
      <4>1. PICK r \in Runs, d \in Docs, j \in JobType, k \in JobType, p \in Pcs :
              Settles(w, r, d, j, k, p)
        BY <3>3, FailedRowFacts, CheckpointFacts
      <4> QED
        BY <4>1 DEF Settles
    <3>4. CASE \/ PostBatch(w) \/ PostRejected(w) \/ UpsertMapping(w)
               \/ AssertStillCurrent(w)
      BY <1>3, <3>4 DEF PostBatch, PostRejected, JobType, UpsertMapping,
         AssertStillCurrent
    <3>5. CASE \/ StartRun(w) \/ LoadRows(w) \/ ReadSalesforce(w) \/ ReadXero(w)
      BY <1>3, <3>5 DEF StartRun, LoadRows, ReadSalesforce, ReadXero, JobType
    <3> QED
      BY <3>1, <3>2, <3>3, <3>4, <3>5 DEF WorkerStep
  <2> QED
    BY <2>1, <2>2, <2>3, <2>4, <2>5
<1>7. \A d \in Docs, v \in Workers : Refers(d, job'[v].result[d].slot)
  BY <1>1, <1>6 DEF Referred
<1>8. \A d \in Docs, a \in replies' : Refers(d, a.result[d].slot)
  BY <1>1 DEF Referred
<1> QED
  BY <1>2, <1>4, <1>5, <1>7, <1>8 DEF Referred

\* Everything, under a step of an invocation.
LEMMA DraftingOfWorker ==
    ASSUME IInv, Ownership, AllHold, Drafting, NEW w \in Workers,
           WorkerStep(w) \/ WorkerFault(w)
    PROVE  Drafting'
<1>1. xero' = xero
  BY OtherWorkers
<1>2. Numbered' /\ OneDraftPerRow'
  BY <1>1 DEF Drafting, Numbered, Used, OneDraftPerRow, Active
<1>3. InCells'
  BY CellsOfWorker, CellsOfOthers DEF Drafting, InCells
<1> QED
  BY <1>2, <1>3, UnstartedOfWorker, ReferredOfWorker, AskedOfWorker DEF Drafting

-----------------------------------------------------------------------------
(* Steps of Finance *)

\* A document is matched with a known identity of it.
LEMMA MatchRefers ==
    ASSUME IInv, Numbered, Referred, NEW d \in Docs
    PROVE  Refers(d, Match(d))
<1>1. NumberMatches(d) \in SUBSET Slots /\ SupportMatches(d) \in SUBSET Slots
  BY DEF NumberMatches, SupportMatches
<1>2. \A x \in NumberMatches(d) : Refers(d, x)
  BY DEF NumberMatches, Refers, Active, Used, Numbered
<1>3. \A x \in SupportMatches(d) : Refers(d, x)
  BY DEF SupportMatches, Refers, Active, Used, Numbered
<1>4. Refers(d, NoSlot) /\ Refers(d, mapping[d])
  BY DEF Refers, Referred
<1>5. CASE mapping[d] # NoSlot
  BY <1>4, <1>5 DEF Match
<1>6. CASE mapping[d] = NoSlot /\ NumberMatches(d) # {}
  <2>1. Match(d) = TheOnly(NumberMatches(d))
    BY <1>6 DEF Match
  <2> QED
    BY <1>1, <1>2, <1>4, <2>1, TheOnlyInSet
<1>7. CASE mapping[d] = NoSlot /\ NumberMatches(d) = {}
  <2>1. Match(d) = TheOnly(SupportMatches(d))
    BY <1>7 DEF Match
  <2> QED
    BY <1>1, <1>3, <1>4, <2>1, TheOnlyInSet
<1> QED
  BY <1>5, <1>6, <1>7

\* Rows of a run that nobody works on may be written.
LEMMA FinanceFrame ==
    ASSUME IInv, Drafting, NEW r \in Runs,
           run[r].status \in {"none", "ready_for_review"},
           UNCHANGED <<xero, wire, replies, mapping, pc, job>>,
           \A q \in Runs \ {r} : item'[q] = item[q] /\ run'[q] = run[q],
           \A d \in Docs : Refers(d, item'[r][d].target)
    PROVE  Drafting'
<1>1. /\ \A m \in wire \cup replies : m.run # r
      /\ \A w \in Workers : job[w].run # r
  BY DEF Drafting, Unstarted
<1>2. Unstarted'
  BY <1>1 DEF Drafting, Unstarted
<1>3. Numbered' /\ OneDraftPerRow'
  BY DEF Drafting, Numbered, Used, OneDraftPerRow, Active
<1>4. \A d, x : Refers(d, x)' <=> Refers(d, x)
  BY DEF Refers, Used
<1>5. \A q \in Runs, d \in Docs : Refers(d, item'[q][d].target)
  BY DEF Drafting, Referred
<1>6. Referred'
  BY <1>4, <1>5 DEF Drafting, Referred
<1>7. Due' = Due /\ \A q, d : NoDraft(q, d)' <=> NoDraft(q, d)
  BY DEF Due, Answered, NoDraft, Active
<1>8. \A q \in Runs \ {r} : \A d \in Docs : Open(q, d)' = Open(q, d)
  BY OpenKept
<1>9. Asked'
  <2> SUFFICES ASSUME NEW m \in Due, NEW d \in m.docs
               PROVE  /\ m.docs = Open(m.run, d)'
                      /\ item'[m.run][d].action = "create_draft" =>
                           NoDraft(m.run, d)'
    BY <1>7 DEF Asked
  <2>1. m.run \in Runs \ {r} /\ d \in Docs
    BY <1>1, DueFacts
  <2> QED
    BY <1>7, <1>8, <2>1 DEF Drafting, Asked
<1>10. ASSUME NEW v \in Workers PROVE Cells(pc[v], job[v])'
  <2>1. Executing(pc[v]) => job[v].run \in Runs \ {r}
    BY <1>1, WorkerFacts DEF Executing, JobWellFormed
  <2>2. Executing(pc[v]) =>
          /\ \A d \in Docs : item'[job[v].run][d] = item[job[v].run][d]
          /\ \A m \in Due' : m \in Due \/ m.run # job[v].run
          /\ \A d \in Docs : NoDraft(job[v].run, d) => NoDraft(job[v].run, d)'
    BY <1>7, <2>1
  <2> QED
    BY <2>2, CellsFrame DEF Drafting, InCells
<1> QED
  BY <1>2, <1>3, <1>6, <1>9, <1>10 DEF Drafting, InCells

\* Finance writes the rows of runs that are not authorised.
LEMMA DraftingOfFinance ==
    ASSUME IInv, Drafting, FinanceStep
    PROVE  Drafting'
<1>1. /\ item \in [Runs -> [Docs -> ItemType]] /\ run \in [Runs -> RunType]
      /\ pc \in [Workers -> Pcs] /\ job \in [Workers -> JobType]
  BY DEF IInv, TypeOK
<1>2. ASSUME NEW r \in Runs, Preview(r) PROVE Drafting'
  <2>1. PICK blockers : item' = [item EXCEPT ![r] =
                                   [d \in Docs |-> Classify(d, blockers)]]
    BY <1>2 DEF Preview
  <2>2. /\ run[r].status = "none"
        /\ UNCHANGED <<xero, wire, replies, mapping, pc, job>>
        /\ \A q \in Runs \ {r} : run'[q] = run[q]
    BY <1>1, <1>2 DEF Preview, external
  <2>3. /\ \A q \in Runs \ {r} : item'[q] = item[q]
        /\ \A d \in Docs : item'[r][d] = Classify(d, blockers)
    BY <1>1, <2>1
  <2>4. \A d \in Docs : Classify(d, blockers).target \in {Match(d), NoSlot}
    BY DEF Classify
  <2>5. \A d \in Docs : Refers(d, item'[r][d].target)
    BY <2>3, <2>4, MatchRefers DEF Refers, Drafting
  <2> QED
    BY <2>2, <2>3, <2>5, FinanceFrame
<1>3. ASSUME NEW r \in Runs, NEW selection \in SUBSET Docs,
             Authorise(r, selection)
      PROVE  Drafting'
  <2>1. /\ run[r].status = "ready_for_review"
        /\ UNCHANGED <<xero, wire, replies, mapping, pc, job>>
    BY <1>3 DEF Authorise, external
  <2>2. PICK n : n = run[r].rev + 1
    OBVIOUS
  <2>3. /\ run' = [run EXCEPT ![r] = [status |-> "authorised", rev |-> n]]
        /\ item' = [item EXCEPT ![r] = [d \in Docs |->
                      IF d \in selection
                      THEN [item[r][d] EXCEPT !.status = "selected",
                                              !.selected = TRUE]
                      ELSE item[r][d]]]
    BY <1>3, <2>2 DEF Authorise
  <2>4. ASSUME NEW d \in Docs PROVE item'[r][d].target = item[r][d].target
    <3>1. item'[r][d] \in {item[r][d], [item[r][d] EXCEPT !.status = "selected",
                                                          !.selected = TRUE]}
      BY <1>1, <2>3
    <3>2. item[r][d] \in ItemType
      BY <1>1
    <3> QED
      BY <3>1, <3>2 DEF ItemType
  <2>5. \A q \in Runs \ {r} : item'[q] = item[q] /\ run'[q] = run[q]
    BY <1>1, <2>3
  <2>6. \A d \in Docs : Refers(d, item'[r][d].target)
    BY <2>4 DEF Drafting, Referred
  <2> QED
    BY <2>1, <2>5, <2>6, FinanceFrame
<1>4. ASSUME NEW w \in Workers, NEW r \in Runs, RequestRun(w, r)
      PROVE  Drafting'
  <2>1. PICK n : n = run[r].rev
    OBVIOUS
  <2>2. /\ UNCHANGED <<xero, wire, replies, item, mapping, run>>
        /\ pc'[w] = "requested"
        /\ run[r].status \in {"authorised", "partial", "failed"}
        /\ job'[w] = [NoJob EXCEPT !.run = r, !.rev = n]
        /\ \A v \in Workers \ {w} : pc'[v] = pc[v] /\ job'[v] = job[v]
    BY <1>1, <1>4, <2>1 DEF RequestRun, Goto, external
  <2>3. job'[w].run = r /\ job'[w].result = NoReply
    BY <2>2 DEF NoJob
  <2>4. Unstarted'
    <3> SUFFICES ASSUME NEW q \in Runs,
                        run[q].status \in {"none", "ready_for_review"}
                 PROVE  /\ \A m \in wire \cup replies : m.run # q
                        /\ \A v \in Workers : job'[v].run # q
      BY <2>2 DEF Unstarted
    <3>1. q # r
      BY <2>2
    <3>2. /\ \A m \in wire \cup replies : m.run # q
          /\ \A v \in Workers : job[v].run # q
      BY DEF Drafting, Unstarted
    <3> QED
      BY <2>2, <2>3, <3>1, <3>2
  <2>5. Numbered' /\ OneDraftPerRow'
    BY <2>2 DEF Drafting, Numbered, Used, OneDraftPerRow, Active
  <2>6. Referred'
    <3>1. \A d, x : Refers(d, x)' <=> Refers(d, x)
      BY <2>2 DEF Refers, Used
    <3>2. \A d \in Docs : Refers(d, job'[w].result[d].slot)
      BY <2>3 DEF NoReply, Refers
    <3>3. \A d \in Docs, v \in Workers : Refers(d, job'[v].result[d].slot)
      BY <2>2, <3>2 DEF Drafting, Referred
    <3> QED
      BY <2>2, <3>1, <3>3 DEF Drafting, Referred
  <2>7. Due' = Due /\ \A q, d : NoDraft(q, d)' <=> NoDraft(q, d)
    BY <2>2 DEF Due, Answered, NoDraft, Active
  <2>8. Asked'
    BY <2>2, <2>7 DEF Drafting, Asked, Open, Rows, Together, GroupIn
  <2>9. ASSUME NEW v \in Workers \ {w} PROVE Cells(pc[v], job[v])'
    BY <2>2, <2>7, CellsFrame DEF Drafting, InCells
  <2>10. Cells(pc[w], job[w])'
    BY <2>2 DEF Cells, Executing
  <2> QED
    BY <2>4, <2>5, <2>6, <2>8, <2>9, <2>10 DEF Drafting, InCells
<1> QED
  BY <1>2, <1>3, <1>4 DEF FinanceStep

-----------------------------------------------------------------------------
(* Steps of Xero *)

\* The first part of a set of documents has fewer members the earlier it ends.
LEMMA Ranks ==
    ASSUME NEW C \in SUBSET Docs, NEW d \in C
    PROVE  /\ Cardinality({e \in C : e <= d}) \in 1..Cardinality(C)
           /\ \A c \in C : c < d =>
                Cardinality({e \in C : e <= c}) < Cardinality({e \in C : e <= d})
<1> DEFINE Upto(c) == {e \in C : e <= c}
<1>1. IsFiniteSet(C) /\ C \subseteq Nat
  BY ConstantsAssumption, FS_Subset
<1>2. \A c \in C : /\ Upto(c) \subseteq C /\ IsFiniteSet(Upto(c))
                   /\ Cardinality(Upto(c)) \in Nat
                   /\ Cardinality(Upto(c)) <= Cardinality(C)
  BY <1>1, FS_Subset, FS_CardinalityType
<1>3. d \in Upto(d)
  BY <1>1
<1>4. Cardinality(Upto(d)) # 0
  BY <1>2, <1>3, FS_EmptySet
<1>5. Cardinality(C) \in Nat
  BY <1>1, FS_CardinalityType
<1>6. ASSUME NEW c \in C, c < d PROVE Cardinality(Upto(c)) < Cardinality(Upto(d))
  <2>1. Upto(c) \subseteq Upto(d) /\ d \notin Upto(c)
    <3>1. c \in Nat /\ d \in Nat
      BY <1>1
    <3>2. \A e \in C : e <= c => e <= d
      BY <1>1, <1>6, <3>1
    <3>3. ~(d <= c)
      BY <1>6, <3>1
    <3>4. Upto(c) \subseteq Upto(d)
      BY <3>2
    <3>5. d \notin Upto(c)
      BY <3>3
    <3> QED
      BY <3>4, <3>5
  <2>2. Upto(c) # Upto(d)
    BY <1>3, <2>1
  <2>3. /\ Cardinality(Upto(c)) <= Cardinality(Upto(d))
        /\ Cardinality(Upto(c)) # Cardinality(Upto(d))
    BY <1>2, <2>1, <2>2, FS_Subset
  <2> HIDE DEF Upto
  <2> QED
    BY <1>2, <2>3
<1> HIDE DEF Upto
<1>7. Cardinality(Upto(d)) \in 1..Cardinality(C)
  BY <1>2, <1>4, <1>5
<1> QED
  BY <1>6, <1>7 DEF Upto

\* New documents get identities that were free, one each.
LEMMA NewSlotFacts ==
    ASSUME IInv, Numbered, NEW m \in wire, NEW accepted \in SUBSET m.docs,
           Cardinality(Used) + Cardinality(Creates(m, accepted)) <= MaxXero
    PROVE  /\ \A d \in Creates(m, accepted) :
                /\ NewSlot(m, accepted, d) \in Slots \ Used
                /\ NewSlot(m, accepted, d) <=
                     Cardinality(Used) + Cardinality(Creates(m, accepted))
           /\ \A c, d \in Creates(m, accepted) :
                NewSlot(m, accepted, c) = NewSlot(m, accepted, d) => c = d
           /\ Cardinality(Used \cup {NewSlot(m, accepted, d) :
                                       d \in Creates(m, accepted)})
                = Cardinality(Used) + Cardinality(Creates(m, accepted))
<1>1. PICK C \in SUBSET Docs, n \in Nat :
        /\ C = Creates(m, accepted) /\ n = Cardinality(Used)
        /\ IsFiniteSet(C) /\ Cardinality(C) \in Nat
  BY RequestFacts
<1> DEFINE rank(d) == Cardinality({e \in C : e <= d})
           new(d) == n + rank(d)
           N == {new(d) : d \in C}
<1>2. \A d : NewSlot(m, accepted, d) = new(d)
  BY <1>1 DEF NewSlot
<1>3. \A d \in C : /\ rank(d) \in 1..Cardinality(C)
                   /\ \A c \in C : c < d => rank(c) < rank(d)
  BY Ranks
<1>4. ASSUME NEW d \in C
      PROVE  new(d) \in Slots \ Used /\ new(d) <= n + Cardinality(C)
  <2>1. PICK k \in 1..Cardinality(C) : k = rank(d)
    BY <1>3, <1>4
  <2>2. new(d) = n + k
    BY <2>1
  <2> HIDE DEF new, rank
  <2>3. n + k \in Slots /\ n + k <= n + Cardinality(C)
    BY <1>1, <2>1, ConstantsAssumption DEF Slots
  <2>4. n + k \notin Used
    BY <1>1, <2>1 DEF Numbered
  <2> QED
    BY <2>2, <2>3, <2>4
<1>5. ASSUME NEW c \in C, NEW d \in C, new(c) = new(d) PROVE c = d
  <2>1. /\ rank(c) \in Nat /\ rank(d) \in Nat /\ c \in Nat /\ d \in Nat
        /\ c < d => rank(c) < rank(d)
        /\ d < c => rank(d) < rank(c)
    BY <1>3, <1>5, ConstantsAssumption
  <2>2. n + rank(c) = n + rank(d)
    BY <1>5
  <2> HIDE DEF rank, new
  <2> QED
    BY <2>1, <2>2
<1>6. IsFiniteSet(N) /\ Cardinality(N) = Cardinality(C)
  <2> DEFINE f == [d \in C |-> new(d)]
  <2> HIDE DEF new, rank
  <2>1. f \in Surjection(C, N)
    BY DEF Surjection
  <2>2. f \in Injection(C, N)
    BY <1>5 DEF Injection, IsInjective
  <2> HIDE DEF f, N
  <2> QED
    BY <1>1, <2>1, <2>2, FS_Surjection
<1>7. IsFiniteSet(Used)
  <2>1. IsFiniteSet(1..MaxXero) /\ Used \subseteq 1..MaxXero
    BY ConstantsAssumption, FS_Interval DEF Used, Slots
  <2> QED
    BY <2>1, FS_Subset
<1>8. Used \cap N = {}
  BY <1>4
<1>9. Cardinality(Used \cup N) = n + Cardinality(C)
  <2> HIDE DEF N
  <2>1. Cardinality(Used \cap N) = 0
    BY <1>8, FS_EmptySet
  <2>2. Cardinality(Used \cup N) = n + Cardinality(C) - 0
    BY <1>1, <1>6, <1>7, <2>1, FS_Union
  <2> QED
    BY <1>1, <2>2
<1>10. N = {NewSlot(m, accepted, d) : d \in Creates(m, accepted)}
  BY <1>1, <1>2
<1> HIDE DEF N, new, rank
<1> QED
  BY <1>1, <1>2, <1>4, <1>5, <1>9, <1>10

\* A document Xero writes keeps its origin and evidence, or is a new one that
\* the request created.
LEMMA WrittenFacts ==
    ASSUME IInv, Numbered, Referred, NEW m \in wire, NEW accepted \in SUBSET m.docs,
           Cardinality(Used) + Cardinality(Creates(m, accepted)) <= MaxXero,
           NEW x \in Slots, \E d \in accepted : SlotFor(m, accepted, d) = x,
           NEW y, y = Written(m, accepted, x)
    PROVE  /\ x \in Used =>
                /\ y.state = xero[x].state /\ y.by = xero[x].by
                /\ y.made = xero[x].made /\ y.src \in Docs
                /\ SupportKey[y.src] = SupportKey[y.made]
           /\ x \notin Used =>
                \E d \in Creates(m, accepted) :
                  /\ x = NewSlot(m, accepted, d) /\ y.state = "mutable"
                  /\ y.by = m.run /\ y.made = d /\ y.src = d
<1>1. PICK e \in accepted : /\ SlotFor(m, accepted, e) = x
                            /\ e = CHOOSE d \in accepted : SlotFor(m, accepted, d) = x
  OBVIOUS
<1>2. /\ e \in Docs /\ m.run \in Runs
      /\ e \notin Creates(m, accepted) => item[m.run][e].target \in Slots
      /\ e \in Creates(m, accepted) => NewSlot(m, accepted, e) \notin Used
  BY RequestFacts, NewSlotFacts
<1>3. CASE e \in Creates(m, accepted)
  <2>1. y = [state |-> "mutable", src |-> e, made |-> e, by |-> m.run,
             content |-> item[m.run][e].src, stamp |-> 1]
    BY <1>1, <1>3 DEF Written
  <2>2. x = NewSlot(m, accepted, e) /\ x \notin Used
    BY <1>1, <1>2, <1>3 DEF SlotFor
  <2> QED
    BY <1>3, <2>1, <2>2
<1>4. CASE e \notin Creates(m, accepted)
  <2>1. y = [xero[x] EXCEPT !.src = e, !.content = item[m.run][e].src,
                            !.stamp = xero[x].stamp + 1]
    BY <1>1, <1>4 DEF Written
  <2>2. x = item[m.run][e].target
    BY <1>1, <1>4 DEF SlotFor
  <2>3. x \in Used /\ SupportKey[xero[x].made] = SupportKey[e]
    <3>1. Refers(e, x)
      BY <1>2, <2>2 DEF Referred
    <3>2. x # NoSlot
      BY DEF Slots, NoSlot
    <3> QED
      BY <3>1, <3>2 DEF Refers
  <2>4. xero[x] \in XeroType
    BY DEF IInv, TypeOK
  <2>5. /\ y.state = xero[x].state /\ y.by = xero[x].by
        /\ y.made = xero[x].made /\ y.src = e
    BY <2>1, <2>4 DEF XeroType
  <2> QED
    BY <1>2, <2>3, <2>5
<1> QED
  BY <1>3, <1>4

\* What Xero holds once it has applied a request.
LEMMA ApplyFacts ==
    ASSUME IInv, Numbered, Referred, NEW m \in wire, NEW accepted \in SUBSET m.docs,
           XeroApply(m, accepted)
    PROVE  /\ \A x \in Used :
                /\ xero'[x].state = xero[x].state /\ xero'[x].by = xero[x].by
                /\ xero'[x].made = xero[x].made /\ xero'[x].src \in Docs
                /\ SupportKey[xero'[x].src] = SupportKey[xero'[x].made]
           /\ \A x \in Slots \ Used : \/ xero'[x].state = "absent"
                \/ \E d \in Creates(m, accepted) :
                     /\ x = NewSlot(m, accepted, d) /\ xero'[x].state = "mutable"
                     /\ xero'[x].by = m.run /\ xero'[x].made = d
                     /\ xero'[x].src = d
           /\ \A d \in Creates(m, accepted) :
                /\ NewSlot(m, accepted, d) \in Slots
                /\ xero'[NewSlot(m, accepted, d)].state # "absent"
                /\ xero'[NewSlot(m, accepted, d)].made = d
<1> DEFINE S == {SlotFor(m, accepted, d) : d \in accepted}
<1>1. Cardinality(Used) + Cardinality(Creates(m, accepted)) <= MaxXero
  BY DEF XeroApply
<1>2. S \subseteq Slots
  BY <1>1, SlotForType
<1>3. xero' = [x \in Slots |-> IF x \in S THEN Written(m, accepted, x) ELSE xero[x]]
  BY DEF XeroApply
<1> HIDE DEF S
<1>4. \A x \in Slots : xero'[x] = IF x \in S THEN Written(m, accepted, x) ELSE xero[x]
  BY <1>3
<1>5. ASSUME NEW x \in Slots, x \in S
      PROVE  /\ x \in Used =>
                  /\ xero'[x].state = xero[x].state /\ xero'[x].by = xero[x].by
                  /\ xero'[x].made = xero[x].made /\ xero'[x].src \in Docs
                  /\ SupportKey[xero'[x].src] = SupportKey[xero'[x].made]
             /\ x \notin Used =>
                  \E d \in Creates(m, accepted) :
                    /\ x = NewSlot(m, accepted, d) /\ xero'[x].state = "mutable"
                    /\ xero'[x].by = m.run /\ xero'[x].made = d
                    /\ xero'[x].src = d
  <2>1. PICK y : y = Written(m, accepted, x)
    OBVIOUS
  <2>2. xero'[x] = y
    BY <1>4, <1>5, <2>1
  <2>3. \E d \in accepted : SlotFor(m, accepted, d) = x
    BY <1>5 DEF S
  <2>4. /\ x \in Used =>
             /\ y.state = xero[x].state /\ y.by = xero[x].by
             /\ y.made = xero[x].made /\ y.src \in Docs
             /\ SupportKey[y.src] = SupportKey[y.made]
        /\ x \notin Used =>
             \E d \in Creates(m, accepted) :
               /\ x = NewSlot(m, accepted, d) /\ y.state = "mutable"
               /\ y.by = m.run /\ y.made = d /\ y.src = d
    BY <1>1, <2>1, <2>3, WrittenFacts
  <2> QED
    BY <2>2, <2>4
<1>6. ASSUME NEW d \in Creates(m, accepted)
      PROVE  /\ NewSlot(m, accepted, d) \in Slots \ Used
             /\ NewSlot(m, accepted, d) \in S
  <2>1. d \in accepted /\ SlotFor(m, accepted, d) = NewSlot(m, accepted, d)
    BY <1>6, RequestFacts DEF SlotFor
  <2> QED
    BY <1>1, <1>6, <2>1, NewSlotFacts DEF S
<1>7. ASSUME NEW x \in Used
      PROVE  /\ xero'[x].state = xero[x].state /\ xero'[x].by = xero[x].by
             /\ xero'[x].made = xero[x].made /\ xero'[x].src \in Docs
             /\ SupportKey[xero'[x].src] = SupportKey[xero'[x].made]
  <2>1. x \in Slots
    BY DEF Used
  <2> QED
    BY <1>4, <1>5, <2>1 DEF Numbered
<1>8. ASSUME NEW x \in Slots \ Used
      PROVE  \/ xero'[x].state = "absent"
             \/ \E d \in Creates(m, accepted) :
                  /\ x = NewSlot(m, accepted, d) /\ xero'[x].state = "mutable"
                  /\ xero'[x].by = m.run /\ xero'[x].made = d
                  /\ xero'[x].src = d
  <2>1. CASE x \in S
    BY <1>5, <2>1
  <2>2. CASE x \notin S
    BY <1>4, <2>2 DEF Used
  <2> QED
    BY <2>1, <2>2
<1>9. ASSUME NEW d \in Creates(m, accepted)
      PROVE  /\ NewSlot(m, accepted, d) \in Slots
             /\ xero'[NewSlot(m, accepted, d)].state # "absent"
             /\ xero'[NewSlot(m, accepted, d)].made = d
  <2>1. PICK x \in Slots \ Used : x = NewSlot(m, accepted, d) /\ x \in S
    BY <1>6
  <2>2. PICK c \in Creates(m, accepted) :
          /\ x = NewSlot(m, accepted, c) /\ xero'[x].state = "mutable"
          /\ xero'[x].made = c
    BY <1>5, <2>1
  <2>3. c = d
    BY <1>1, <2>1, <2>2, NewSlotFacts
  <2> QED
    BY <2>1, <2>2, <2>3
<1> QED
  BY <1>7, <1>8, <1>9

\* A step outside the invocations keeps everything if references stay good and
\* a draft appears only as the answer to the one request for its row.
LEMMA OutsideDrafts ==
    ASSUME IInv, Drafting, UNCHANGED <<run, item, mapping, pc, job>>,
           wire' \subseteq wire, replies \subseteq replies',
           \A a \in replies' \ replies :
             /\ \E m \in wire : a.run = m.run
             /\ \A d \in Docs : Refers(d, a.result[d].slot)',
           \A x \in Used : /\ xero'[x].state # "absent"
                           /\ xero'[x].made = xero[x].made,
           Numbered', OneDraftPerRow',
           \A r \in Runs, d \in Docs : NoDraft(r, d) =>
             \/ NoDraft(r, d)'
             \/ /\ \A m \in Due' : m.run = r => d \notin m.docs
                /\ (Replied(r, Open(r, d)))'
    PROVE  Drafting'
<1>1. Unstarted'
  BY DEF Drafting, Unstarted
<1>2. \A d, x : Refers(d, x) => Refers(d, x)'
  BY DEF Refers, Used
<1>3. Referred'
  BY <1>2 DEF Drafting, Referred
<1>4. Due' \subseteq Due
  BY DueShrinks DEF Due
<1>5. \A r \in Runs, d \in Docs : Open(r, d)' = Open(r, d)
  BY OpenKept
<1>6. Asked'
  <2> SUFFICES ASSUME NEW m \in Due', NEW d \in m.docs
               PROVE  /\ m.docs = Open(m.run, d)'
                      /\ item'[m.run][d].action = "create_draft" =>
                           NoDraft(m.run, d)'
    BY DEF Asked
  <2>1. m \in Due /\ m.run \in Runs /\ d \in Docs
    BY <1>4, DueFacts
  <2>2. /\ m.docs = Open(m.run, d)
        /\ item[m.run][d].action = "create_draft" => NoDraft(m.run, d)
    BY <2>1 DEF Drafting, Asked
  <2> QED
    BY <1>5, <2>1, <2>2
<1>7. ASSUME NEW v \in Workers PROVE Cells(pc[v], job[v])'
  <2>1. Executing(pc[v]) => job[v].run \in Runs
    BY WorkerFacts DEF Executing, JobWellFormed
  <2>2. Executing(pc[v]) =>
          /\ \A d \in Docs : item'[job[v].run][d] = item[job[v].run][d]
          /\ \A m \in Due' : m \in Due \/ m.run # job[v].run
          /\ \A d \in Docs : NoDraft(job[v].run, d) =>
               \/ NoDraft(job[v].run, d)'
               \/ (Replied(job[v].run, Open(job[v].run, d)))'
    BY <1>4, <2>1
  <2> QED
    BY <2>2, CellsFrame DEF Drafting, InCells
<1> QED
  BY <1>1, <1>3, <1>6, <1>7 DEF Drafting, InCells

\* What Xero creates for a request was asked for once, and nobody waits for it
\* but through the answer.
LEMMA DraftingOfApply ==
    ASSUME IInv, Drafting, NEW m \in wire, NEW accepted \in SUBSET m.docs,
           XeroApply(m, accepted)
    PROVE  Drafting'
<1>1. /\ m.run \in Runs /\ m.docs \subseteq Docs /\ m \in Due
      /\ Cardinality(Used) + Cardinality(Creates(m, accepted)) <= MaxXero
      /\ UNCHANGED <<run, item, mapping, pc, job>>
      /\ wire' \subseteq wire /\ replies \subseteq replies'
  BY RequestFacts DEF XeroApply, Due
<1>2. PICK C \in SUBSET Docs : C = Creates(m, accepted)
  BY RequestFacts
<1>3. \A d \in C : /\ d \in accepted /\ d \in m.docs
                   /\ NoDraft(m.run, d) /\ m.docs = Open(m.run, d)
  BY <1>1, <1>2 DEF Creates, Drafting, Asked
<1> DEFINE new(d) == NewSlot(m, accepted, d)
<1>4. /\ \A d \in C : /\ new(d) \in Slots \ Used
                      /\ new(d) <= Cardinality(Used) + Cardinality(C)
      /\ Cardinality(Used \cup {new(d) : d \in C}) = Cardinality(Used) + Cardinality(C)
      /\ Cardinality(Used) \in Nat /\ Cardinality(C) \in Nat
  BY <1>1, <1>2, NewSlotFacts, RequestFacts DEF Drafting
<1>5. /\ \A x \in Used :
           /\ xero'[x].state = xero[x].state /\ xero'[x].by = xero[x].by
           /\ xero'[x].made = xero[x].made /\ xero'[x].src \in Docs
           /\ SupportKey[xero'[x].src] = SupportKey[xero'[x].made]
      /\ \A x \in Slots \ Used : \/ xero'[x].state = "absent"
           \/ \E d \in C : /\ x = new(d) /\ xero'[x].state = "mutable"
                           /\ xero'[x].by = m.run /\ xero'[x].made = d
                           /\ xero'[x].src = d
      /\ \A d \in C : /\ new(d) \in Slots /\ xero'[new(d)].state # "absent"
                      /\ xero'[new(d)].made = d
  BY <1>2, ApplyFacts DEF Drafting
<1> HIDE DEF new
<1>6. Used \subseteq Slots /\ Used' = Used \cup {new(d) : d \in C}
  BY <1>5 DEF Used
<1>7. Numbered'
  <2> SUFFICES ASSUME NEW x \in Used'
               PROVE  /\ x <= Cardinality(Used') /\ xero'[x].src \in Docs
                      /\ xero'[x].made \in Docs
                      /\ SupportKey[xero'[x].src] = SupportKey[xero'[x].made]
    BY DEF Numbered
  <2>1. PICK n \in Nat, c \in Nat : /\ n = Cardinality(Used) /\ c = Cardinality(C)
                                    /\ Cardinality(Used') = n + c
    BY <1>4, <1>6
  <2>2. CASE x \in Used
    <3>8. x <= Cardinality(Used) /\ xero[x].made \in Docs
      BY <2>2 DEF Drafting, Numbered
    <3>9. x \in Nat
      BY <1>6, <2>2 DEF Slots
    <3>1. x \in Nat /\ x <= n /\ xero[x].made \in Docs
      BY <2>1, <3>8, <3>9
    <3>2. x <= n + c
      BY <3>1
    <3> QED
      BY <1>5, <2>1, <2>2, <3>1, <3>2
  <2>3. CASE x \notin Used
    BY <1>4, <1>5, <1>6, <2>1, <2>3
  <2> QED
    BY <2>2, <2>3
<1>8. OneDraftPerRow'
  <2> SUFFICES ASSUME NEW x \in Slots, NEW y \in Slots, Active(x)', Active(y)',
                      xero'[x].by # NoRun, xero'[x].by = xero'[y].by,
                      xero'[x].made = xero'[y].made
               PROVE  x = y
    BY DEF OneDraftPerRow
  <2>1. ASSUME NEW z \in Slots, Active(z)', z \notin Used
        PROVE  \E d \in C : z = new(d) /\ xero'[z].by = m.run /\ xero'[z].made = d
    BY <1>5, <2>1 DEF Active
  <2>2. ASSUME NEW z \in Slots, Active(z)', z \in Used
        PROVE  Active(z) /\ xero[z].by = xero'[z].by /\ xero[z].made = xero'[z].made
    BY <1>5, <2>2 DEF Active
  <2>3. CASE x \in Used /\ y \in Used
    BY <2>2, <2>3 DEF Drafting, OneDraftPerRow
  <2>4. CASE x \notin Used /\ y \notin Used
    BY <2>1, <2>4
  <2>5. CASE x \notin Used /\ y \in Used
    BY <1>3, <2>1, <2>2, <2>5 DEF NoDraft
  <2>6. CASE x \in Used /\ y \notin Used
    BY <1>3, <2>1, <2>2, <2>6 DEF NoDraft
  <2> QED
    BY <2>3, <2>4, <2>5, <2>6
<1>9. PICK a : /\ replies' = replies \cup {a} /\ a.run = m.run /\ a.docs = m.docs
               /\ \A d \in Docs : a.result[d].slot =
                    IF d \in accepted THEN SlotFor(m, accepted, d) ELSE NoSlot
  <2> DEFINE result == [d \in Docs |->
               IF d \in accepted
               THEN [slot |-> SlotFor(m, accepted, d),
                     stamp |-> xero'[SlotFor(m, accepted, d)].stamp]
               ELSE [slot |-> NoSlot, stamp |-> 0]]
  <2>1. replies' = replies \cup {[run |-> m.run, docs |-> m.docs, result |-> result]}
    BY DEF XeroApply
  <2>2. \A d \in Docs : result[d].slot =
          IF d \in accepted THEN SlotFor(m, accepted, d) ELSE NoSlot
    OBVIOUS
  <2> HIDE DEF result
  <2>3. PICK a : a = [run |-> m.run, docs |-> m.docs, result |-> result]
    OBVIOUS
  <2>4. a.run = m.run /\ a.docs = m.docs /\ a.result = result
    BY <2>3
  <2> WITNESS a
  <2> QED
    BY <2>1, <2>2, <2>3, <2>4
<1>10. ASSUME NEW d \in Docs PROVE Refers(d, a.result[d].slot)'
  <2>1. CASE d \notin accepted
    BY <1>9, <2>1 DEF Refers
  <2>2. CASE d \in C
    <3>1. a.result[d].slot = new(d)
      BY <1>2, <1>3, <1>9, <2>2 DEF SlotFor, new
    <3>2. new(d) \in Used' /\ xero'[new(d)].made = d
      BY <1>5, <2>2 DEF Used
    <3> QED
      BY <3>1, <3>2 DEF Refers
  <2>3. CASE d \in accepted /\ d \notin C
    <3>1. a.result[d].slot = item[m.run][d].target
      BY <1>2, <1>9, <2>3 DEF SlotFor
    <3>2. Refers(d, item[m.run][d].target)
      BY <1>1 DEF Drafting, Referred
    <3>3. \A x : Refers(d, x) => Refers(d, x)'
      BY <1>5, <1>6 DEF Refers
    <3> QED
      BY <3>1, <3>2, <3>3
  <2> QED
    BY <2>1, <2>2, <2>3
<1>11. ASSUME NEW r \in Runs, NEW d \in Docs, NoDraft(r, d), ~NoDraft(r, d)'
       PROVE  /\ \A n \in Due' : n.run = r => d \notin n.docs
              /\ (Replied(r, Open(r, d)))'
  <2>1. PICK x \in Slots : Active(x)' /\ xero'[x].by = r /\ xero'[x].made = d
    BY <1>11 DEF NoDraft
  <2>2. x \notin Used
    BY <1>5, <1>11, <2>1 DEF NoDraft, Active
  <2>3. d \in C /\ r = m.run
    BY <1>5, <2>1, <2>2 DEF Active
  <2>4. m.docs = Open(r, d) /\ d \in m.docs
    BY <1>3, <2>3
  <2>5. Open(r, d)' = Open(r, d)
    BY <1>1, OpenKept
  <2>6. ASSUME NEW n \in Due', n.run = r, d \in n.docs PROVE FALSE
    <3>1. n \in Due
      BY <1>1, <2>6, DueShrinks DEF Due
    <3>2. n.docs = Open(r, d)
      BY <2>6, <3>1 DEF Drafting, Asked
    <3>3. IdempotencyKey(a) = IdempotencyKey(n)
      BY <1>9, <2>3, <2>4, <2>6, <3>2 DEF IdempotencyKey
    <3>4. Answered(n)'
      BY <1>9, <3>3 DEF Answered, IdempotencyKey
    <3> QED
      BY <2>6, <3>4 DEF Due
  <2> QED
    BY <1>9, <2>3, <2>4, <2>5, <2>6 DEF Replied
<1> QED
  BY <1>1, <1>5, <1>7, <1>8, <1>9, <1>10, <1>11, OutsideDrafts DEF Used

\* A change that creates no draft of a run keeps everything.
LEMMA UsersFrame ==
    ASSUME IInv, Drafting, UNCHANGED <<run, item, mapping, pc, job, replies>>,
           wire' \subseteq wire,
           \A x \in Used : /\ xero'[x].state # "absent"
                           /\ xero'[x].made = xero[x].made,
           \A x \in Slots : Active(x)' =>
             \/ xero'[x].by \notin Runs
             \/ /\ Active(x) /\ xero'[x].by = xero[x].by
                /\ xero'[x].made = xero[x].made,
           xero' \in [Slots -> XeroType], Numbered'
    PROVE  Drafting'
<1>1. \A x \in Slots : xero'[x].by # NoRun => xero'[x].by \in Runs
  BY DEF XeroType
<1>2. OneDraftPerRow'
  BY <1>1 DEF OneDraftPerRow, Drafting
<1>3. \A r \in Runs, d \in Docs : NoDraft(r, d) => NoDraft(r, d)'
  BY DEF NoDraft
<1> QED
  BY <1>2, <1>3, OutsideDrafts

\* Users' documents are new, and what users change keeps its origin.
LEMMA DraftingOfUsers ==
    ASSUME IInv, Drafting, IInv', UserStep
    PROVE  Drafting'
<1>1. xero \in [Slots -> XeroType] /\ xero' \in [Slots -> XeroType]
  BY DEF IInv, TypeOK
<1>2. ASSUME NEW d \in Docs, SalesforceEdit(d) PROVE Drafting'
  <2>1. UNCHANGED <<xero, wire, replies, run, item, mapping, pc, job>>
    BY <1>2 DEF SalesforceEdit
  <2>2. Numbered' /\ \A x : Active(x)' <=> Active(x)
    BY <2>1 DEF Drafting, Numbered, Used, Active
  <2> QED
    BY <1>1, <2>1, <2>2, UsersFrame DEF Used
<1>3. ASSUME NEW x \in Slots,
             XeroUserEdit(x) \/ XeroUserPays(x) \/ XeroUserVoids(x)
      PROVE  Drafting'
  <2>1. PICK t : t = xero[x].stamp + 1
    OBVIOUS
  <2>2. PICK after :
          /\ \/ after = [xero[x] EXCEPT !.content = Foreign, !.stamp = t]
             \/ after = [xero[x] EXCEPT !.state = "protected", !.stamp = t]
             \/ after = [xero[x] EXCEPT !.state = "void", !.stamp = t]
          /\ XeroUserChange(x, after)
    BY <1>3, <2>1 DEF XeroUserEdit, XeroUserPays, XeroUserVoids
  <2>3. /\ xero' = [xero EXCEPT ![x] = after] /\ Active(x)
        /\ UNCHANGED <<wire, replies, run, item, mapping, pc, job>>
    BY <2>2 DEF XeroUserChange
  <2>4. xero[x] \in XeroType /\ xero[x].state # "absent"
    BY <1>1, <2>3 DEF Active
  <2>5. /\ after.state # "absent" /\ after.by = xero[x].by
        /\ after.made = xero[x].made /\ after.src = xero[x].src
    BY <2>2, <2>4 DEF XeroType
  <2>6. /\ xero'[x] = after
        /\ \A y \in Slots \ {x} : xero'[y] = xero[y]
    BY <1>1, <2>3
  <2>7. Used' = Used
    BY <2>4, <2>5, <2>6 DEF Used
  <2>8. \A y \in Slots : /\ xero'[y].by = xero[y].by
                         /\ xero'[y].made = xero[y].made
                         /\ xero'[y].src = xero[y].src
                         /\ Active(y)' => Active(y)
    BY <2>3, <2>5, <2>6 DEF Active
  <2>9. Numbered'
    BY <2>7, <2>8 DEF Drafting, Numbered, Used
  <2> QED
    BY <1>1, <2>3, <2>7, <2>8, <2>9, UsersFrame DEF Used
<1>4. ASSUME NEW d \in Docs, XeroUserCreates(d) PROVE Drafting'
  <2>1. PICK x : x = Cardinality(Used) + 1
    OBVIOUS
  <2>1a. PICK content \in {Foreign, source[d]} :
           xero' = [xero EXCEPT ![x] =
                      [state |-> "mutable", src |-> d, made |-> d, by |-> NoRun,
                       content |-> content, stamp |-> 1]]
    BY <1>4, <2>1 DEF XeroUserCreates
  <2>2. PICK after :
          /\ after = [state |-> "mutable", src |-> d, made |-> d, by |-> NoRun,
                      content |-> content, stamp |-> 1]
          /\ xero' = [xero EXCEPT ![x] = after]
    BY <2>1a
  <2>3. /\ UNCHANGED <<wire, replies, run, item, mapping, pc, job>>
        /\ x <= MaxXero
    BY <1>4, <2>1 DEF XeroUserCreates
  <2>4. IsFiniteSet(Used) /\ Cardinality(Used) \in Nat /\ Used \subseteq Slots
    <3>1. IsFiniteSet(1..MaxXero) /\ Used \subseteq 1..MaxXero
      BY ConstantsAssumption, FS_Interval DEF Used, Slots
    <3> QED
      BY <3>1, FS_Subset, FS_CardinalityType DEF Slots
  <2>5. x \in Slots
    BY <2>1, <2>3, <2>4, ConstantsAssumption DEF Slots
  <2>6. x \notin Used
    BY <2>1, <2>4 DEF Drafting, Numbered
  <2>7. /\ xero'[x] = after /\ after.state = "mutable" /\ after.by = NoRun
        /\ after.made = d /\ after.src = d
        /\ \A y \in Slots \ {x} : xero'[y] = xero[y]
    BY <1>1, <2>2, <2>5
  <2>8. Used' = Used \cup {x}
    BY <2>5, <2>7 DEF Used
  <2>9. Cardinality(Used') = x
    BY <2>1, <2>4, <2>6, <2>8, FS_AddElement
  <2>10. \A y \in Used : y <= x /\ y # x /\ y \in Slots
    <3>1. \A y \in Used : y <= Cardinality(Used) /\ y \in Nat /\ y \in Slots
      BY <2>4 DEF Drafting, Numbered, Slots
    <3> QED
      BY <2>1, <2>4, <2>6, <3>1
  <2>11. x <= x
    BY <2>1, <2>4
  <2>12. Numbered'
    BY <2>7, <2>8, <2>9, <2>10, <2>11 DEF Drafting, Numbered
  <2>13. \A y \in Used : /\ xero'[y].state # "absent"
                         /\ xero'[y].made = xero[y].made
    BY <2>7, <2>10 DEF Used
  <2>14. \A y \in Slots : Active(y)' =>
           \/ xero'[y].by \notin Runs
           \/ /\ Active(y) /\ xero'[y].by = xero[y].by
              /\ xero'[y].made = xero[y].made
    BY <2>7, ConstantsAssumption DEF Active
  <2> QED
    BY <1>1, <2>3, <2>12, <2>13, <2>14, UsersFrame
<1> QED
  BY <1>2, <1>3, <1>4 DEF UserStep

\* Every step of Xero and of the users.
LEMMA DraftingOutside ==
    ASSUME IInv, Drafting, IInv', XeroStep \/ UserStep \/ UNCHANGED vars
    PROVE  Drafting'
<1>1. ASSUME UNCHANGED <<xero, replies, run, item, mapping, pc, job>>,
             wire' \subseteq wire
      PROVE  Drafting'
  <2>1. Numbered' /\ \A x : Active(x)' <=> Active(x)
    BY <1>1 DEF Drafting, Numbered, Used, Active
  <2>2. xero' \in [Slots -> XeroType]
    BY <1>1 DEF IInv, TypeOK
  <2> QED
    BY <1>1, <2>1, <2>2, UsersFrame DEF Used
<1>2. CASE XeroStep
  <2>1. ASSUME NEW m \in wire, XeroReplay(m) PROVE Drafting'
    BY <1>1, <2>1 DEF XeroReplay
  <2> QED
    BY <1>2, <2>1, DraftingOfApply DEF XeroStep
<1>3. CASE UNCHANGED vars
  BY <1>1, <1>3 DEF vars
<1> QED
  BY <1>2, <1>3, DraftingOfUsers

-----------------------------------------------------------------------------
(* Theorems *)

\* Nothing has been asked or created.
LEMMA DraftingInit == Init => Drafting
<1> SUFFICES ASSUME Init PROVE Drafting
  OBVIOUS
<1>1. Used = {} /\ \A x \in Slots : ~Active(x)
  BY DEF Init, Used, Active, Absent
<1>2. Unstarted
  BY ConstantsAssumption DEF Init, Unstarted, NoJob
<1>3. Referred
  BY DEF Init, Referred, Refers, NoItem, NoJob, NoReply
<1>4. Numbered /\ OneDraftPerRow
  BY <1>1 DEF Numbered, OneDraftPerRow
<1>5. Asked /\ InCells
  BY DEF Init, Asked, Due, InCells, Cells, Executing
<1> QED
  BY <1>2, <1>3, <1>4, <1>5 DEF Drafting

\* One case per group of steps.
LEMMA DraftingStep ==
    IInv /\ IInv' /\ Ownership /\ Execution /\ Drafting /\ [Next]_vars => Drafting'
<1> SUFFICES ASSUME IInv, IInv', Ownership, Execution, Drafting, [Next]_vars
             PROVE  Drafting'
  OBVIOUS
<1>1. CASE \E w \in Workers : WorkerStep(w) \/ WorkerFault(w)
  BY <1>1, DraftingOfWorker DEF Execution
<1>2. CASE FinanceStep
  BY <1>2, DraftingOfFinance
<1>3. CASE XeroStep \/ UserStep \/ UNCHANGED vars
  BY <1>3, DraftingOutside
<1> QED
  BY <1>1, <1>2, <1>3 DEF Next

\* What is asked of Xero, what it has answered and what the invocations have
\* still to post fit together at every moment.
THEOREM DraftingInvariance == Spec => []Drafting
  BY DraftingInit, DraftingStep, ExecutionInvariance, PTL DEF Spec

\* One draft per row: however often a run is retried after lost answers, late
\* requests, failed checkpoints and crashes, by however many invocations, Xero
\* has at most one active document that it created for a document of the run.
\* The re-read finds what earlier attempts created, and the idempotency key
\* makes the rest one request (xeroFinancialSyncRun).
THEOREM OneDraft == Spec => []OneDraftPerRow
<1>1. Drafting => OneDraftPerRow
  BY DEF Drafting
<1> QED
  BY <1>1, DraftingInvariance, PTL

=============================================================================
