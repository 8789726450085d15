----------------------- MODULE XeroFinancialSyncProofs -----------------------
(***************************************************************************)
(* Theorems about XeroFinancialSync, for every set of documents, runs and  *)
(* invocations and every bound.                                            *)
(***************************************************************************)
EXTENDS XeroFinancialSync, FiniteSetTheorems, WellFoundedInduction, TLAPS

WriteActions == {"safe_update", "create_draft"}
Chosen == {"selected", "failed"} \cup DoneStatuses

\* A row that may be selected has an action, and a row that refers to a Xero
\* document names one.
RowsWellFormed ==
    \A r \in Runs, d \in Docs :
      /\ item[r][d].status \in {"eligible"} \cup Chosen =>
           item[r][d].action \in NoWriteActions \cup WriteActions
      /\ item[r][d].action \in NoWriteActions \cup {"safe_update"} =>
           item[r][d].target \in Slots
      /\ item[r][d].selected => item[r][d].status \in Chosen

\* Nothing refers to a run before its preview.
FreshRuns ==
    \A r \in Runs : run[r].status = "none" =>
      /\ \A m \in wire : m.run # r
      /\ \A w \in Workers : job[w].run # r

\* What an invocation at p knows: its rows are selected rows of its run.
JobWellFormed(p, j) ==
    /\ p = "idle" => j.run = NoRun
    /\ p # "idle" => /\ j.run \in Runs
                     /\ \A d \in j.rows : item[j.run][d].selected
    /\ j.batch \subseteq j.pend /\ j.pend \subseteq j.rows
    /\ p \in {"posting", "settling", "marking"} => j.batch # {}
    /\ p \in {"requested", "started", "reading", "working"} => j.batch = {}
    /\ p = "marking" => j.result[Min(j.batch)].slot # NoSlot

JobsWellFormed == \A w \in Workers : JobWellFormed(pc[w], job[w])

\* Xero is only sent rows that are to be written.
WireWellFormed ==
    \A m \in wire : \A d \in m.docs : item[m.run][d].action \in WriteActions

IInv == TypeOK /\ RowsWellFormed /\ FreshRuns /\ JobsWellFormed /\ WireWellFormed

-----------------------------------------------------------------------------
(* Facts about the operators *)

\* A non-empty set of naturals has a least element.
LEMMA NatSetHasLeast ==
    ASSUME NEW S, S \subseteq Nat, S # {}
    PROVE  \E x \in S : \A y \in S : x =< y
<1>1. PICK x \in S : \A y \in S : ~ (<<y, x>> \in OpToRel(<, Nat))
  BY NatLessThanWellFounded, WFMin
<1> DEFINE Less == {ss \in Nat \X Nat : ss[1] < ss[2]}
<1>2. OpToRel(<, Nat) = Less
  BY Zenon DEF OpToRel
<1>3. ASSUME NEW y \in S
      PROVE  x =< y
  <2>1. x \in Nat /\ y \in Nat /\ <<y, x>> \notin Less
    BY <1>1, <1>2
  <2>2. ~(y < x)
    BY <2>1 DEF Less
  <2> QED
    BY <2>1, <2>2
<1> QED
  BY <1>3

\* The minimum of a non-empty set of documents is one of its elements.
LEMMA MinInSet ==
    ASSUME NEW S \in SUBSET Docs, S # {}
    PROVE  Min(S) \in S /\ \A y \in S : Min(S) =< y
<1>1. \E x \in S : \A y \in S : x =< y
  BY ConstantsAssumption, NatSetHasLeast
<1> QED
  BY <1>1 DEF Min

\* A singleton's element, when TheOnly finds one, is an element of the set.
LEMMA TheOnlyInSet ==
    ASSUME NEW S \in SUBSET Slots
    PROVE  TheOnly(S) \in S \cup {NoSlot}
<1>1. CASE S = {}
  BY <1>1, FS_EmptySet DEF TheOnly
<1>2. CASE S # {}
  BY <1>2 DEF TheOnly
<1> QED
  BY <1>1, <1>2

\* The document paired with d is an identity of Xero, or none.
LEMMA MatchType ==
    ASSUME TypeOK, NEW d \in Docs
    PROVE  Match(d) \in Slots \cup {NoSlot}
<1>1. NumberMatches(d) \in SUBSET Slots /\ SupportMatches(d) \in SUBSET Slots
  BY DEF NumberMatches, SupportMatches
<1>2. mapping[d] \in Slots \cup {NoSlot}
  BY DEF TypeOK
<1> QED
  BY <1>1, <1>2, TheOnlyInSet DEF Match

\* A classified row has its type, is not selected, and is eligible only with
\* an action and, unless it is a creation, a target.
LEMMA ClassifyType ==
    ASSUME TypeOK, NEW d \in Docs, NEW blockers
    PROVE  /\ Classify(d, blockers) \in ItemType
           /\ ~Classify(d, blockers).selected
           /\ Classify(d, blockers).status = "eligible" =>
                Classify(d, blockers).action \in NoWriteActions \cup WriteActions
           /\ Classify(d, blockers).status \in {"eligible", "blocked"}
           /\ Classify(d, blockers).action \in NoWriteActions \cup {"safe_update"}
                => Classify(d, blockers).target \in Slots
<1>1. /\ Match(d) \in Slots \cup {NoSlot}
      /\ source[d] \in Nat
      /\ NoSlot \notin Slots
      /\ \A x \in Slots : xero[x].stamp \in Nat
  BY MatchType DEF TypeOK, XeroType, Slots, NoSlot
<1>2. ClassifiedAction(d) \in NoWriteActions \cup WriteActions
  BY DEF ClassifiedAction, NoWriteActions, WriteActions
<1>3. ClassifiedAction(d) # "create_draft" => Match(d) \in Slots
  BY <1>1 DEF ClassifiedAction
<1>4. CASE Blocked(d, blockers)
  BY <1>1, <1>4 DEF Classify, NoItem, ItemType, ItemStatuses, Actions,
                    NoWriteActions, NoSlot
<1>5. CASE ~Blocked(d, blockers)
  BY <1>1, <1>2, <1>3, <1>5 DEF Classify, ItemType, ItemStatuses, Actions,
                    NoWriteActions, WriteActions
<1> QED
  BY <1>4, <1>5

-----------------------------------------------------------------------------
(* Steps of one invocation *)

\* An invocation's step that moves its program counter to p and its local
\* variables to j keeps the invariant when j is well formed and the shared
\* tables keep their shape.
LEMMA WorkerFrame ==
    ASSUME IInv, NEW w \in Workers, NEW p \in Pcs, NEW j \in JobType,
           pc' = [pc EXCEPT ![w] = p], job' = [job EXCEPT ![w] = j],
           JobWellFormed(p, j)',
           j.run \in Runs => run'[j.run].status # "none",
           UNCHANGED <<source, xero, replies, edits>>,
           run' \in [Runs -> RunType],
           \A r \in Runs : run'[r].status = "none" => run[r].status = "none",
           item' \in [Runs -> [Docs -> ItemType]], RowsWellFormed',
           \A r \in Runs, d \in Docs :
             /\ item'[r][d].selected = item[r][d].selected
             /\ item'[r][d].action = item[r][d].action,
           wire' \subseteq RequestType,
           \A m \in wire' \ wire :
             /\ run'[m.run].status # "none"
             /\ \A d \in m.docs : item[m.run][d].action \in WriteActions,
           mapping' \in [Docs -> Slots \cup {NoSlot}],
           touched' \in [Workers -> SUBSET Slots],
           faults' \in Nat
    PROVE  IInv'
<1>1. TypeOK'
  BY DEF IInv, TypeOK
<1>2. FreshRuns'
  BY DEF IInv, FreshRuns, TypeOK, RequestType
<1>3. JobsWellFormed'
  <2> SUFFICES ASSUME NEW v \in Workers
               PROVE  JobWellFormed(pc[v], job[v])'
    BY DEF JobsWellFormed
  <2>1. CASE v = w
    BY <2>1 DEF IInv, TypeOK, JobWellFormed
  <2>2. CASE v # w
    <3>1. pc'[v] = pc[v] /\ job'[v] = job[v] /\ JobWellFormed(pc[v], job[v])
      BY <2>2 DEF IInv, TypeOK, JobsWellFormed
    <3>2. job[v] \in JobType
      BY DEF IInv, TypeOK
    <3>3. pc[v] # "idle" => \A d \in job[v].rows : item'[job[v].run][d].selected
      <4> SUFFICES ASSUME pc[v] # "idle", NEW d \in job[v].rows
                   PROVE  item'[job[v].run][d].selected
        OBVIOUS
      <4>1. d \in Docs
        BY <3>2 DEF JobType
      <4>2. job[v].run \in Runs /\ item[job[v].run][d].selected
        BY <3>1 DEF JobWellFormed
      <4> QED
        BY <4>1, <4>2
    <3> QED
      BY <3>1, <3>3 DEF JobWellFormed
  <2> QED
    BY <2>1, <2>2
<1>4. WireWellFormed'
  BY DEF IInv, WireWellFormed, TypeOK, RequestType
<1> QED
  BY <1>1, <1>2, <1>3, <1>4 DEF IInv

\* A step that leaves the shared tables alone, except perhaps the mappings.
LEMMA LocalFrame ==
    ASSUME IInv, NEW w \in Workers, NEW p \in Pcs, NEW j \in JobType,
           pc' = [pc EXCEPT ![w] = p], job' = [job EXCEPT ![w] = j],
           JobWellFormed(p, j),
           j.run \in Runs => run[j.run].status # "none",
           UNCHANGED <<external, run, item, edits>>,
           mapping' \in [Docs -> Slots \cup {NoSlot}],
           touched' \in [Workers -> SUBSET Slots],
           faults' \in Nat
    PROVE  IInv'
<1>1. JobWellFormed(p, j)' /\ RowsWellFormed'
  BY DEF IInv, JobWellFormed, RowsWellFormed, external
<1> QED
  BY <1>1, WorkerFrame DEF IInv, TypeOK, external

\* What the invariant says of one invocation.
LEMMA WorkerFacts ==
    ASSUME IInv, NEW w \in Workers
    PROVE  /\ job[w] \in JobType /\ pc[w] \in Pcs
           /\ JobWellFormed(pc[w], job[w])
           /\ job[w].run \in Runs => run[job[w].run].status # "none"
           /\ mapping \in [Docs -> Slots \cup {NoSlot}]
           /\ touched \in [Workers -> SUBSET Slots]
           /\ faults \in Nat
  BY DEF IInv, TypeOK, JobsWellFormed, JobWellFormed, FreshRuns

\* Returning clears the invocation's variables.
LEMMA ReturnStep ==
    ASSUME IInv, NEW w \in Workers, Return(w)
    PROVE  /\ NoJob \in JobType
           /\ pc' = [pc EXCEPT ![w] = "idle"] /\ job' = [job EXCEPT ![w] = NoJob]
           /\ JobWellFormed("idle", NoJob) /\ JobWellFormed("idle", NoJob)'
           /\ touched' \in [Workers -> SUBSET Slots]
<1>1. NoJob \in JobType
  BY DEF NoJob, JobType, NoReply, ResultType, NoSlot
<1>2. touched' \in [Workers -> SUBSET Slots]
  BY DEF IInv, TypeOK, Return
<1> QED
  BY <1>1, <1>2 DEF Return, JobWellFormed, NoJob

\* Steps that only move or end an invocation.
LEMMA MoveSteps ==
    ASSUME IInv, NEW w \in Workers,
           \/ AssertStillCurrent(w) \/ ReadFails(w) \/ PostRejected(w)
           \/ PostFails(w) \/ ReserveReached(w) \/ RowWriteFails(w)
           \/ FinishFails(w)
    PROVE  IInv'
<1>1. PICK p \in Pcs : /\ pc[w] # "idle" /\ pc' = [pc EXCEPT ![w] = p]
                       /\ \/ p = "failing"
                          \/ p = "working" /\ pc[w] = "reading"
  BY DEF AssertStillCurrent, ReadFails, PostRejected, PostFails,
         ReserveReached, RowWriteFails, FinishFails, Goto, Pcs
<1>2. UNCHANGED <<external, run, item, mapping, job, touched, edits>>
  BY DEF AssertStillCurrent, ReadFails, PostRejected, PostFails,
         ReserveReached, RowWriteFails, FinishFails
<1>3. faults' \in Nat
  BY WorkerFacts DEF AssertStillCurrent, ReadFails, PostRejected, PostFails,
         ReserveReached, RowWriteFails, FinishFails, Fault
<1>4. JobWellFormed(p, job[w]) /\ job' = [job EXCEPT ![w] = job[w]]
  <2>1. JobWellFormed(pc[w], job[w]) /\ job \in [Workers -> JobType]
    BY WorkerFacts DEF IInv, TypeOK
  <2> QED
    BY <1>1, <1>2, <2>1 DEF JobWellFormed
<1>5. mapping' \in [Docs -> Slots \cup {NoSlot}]
      /\ touched' \in [Workers -> SUBSET Slots]
  BY <1>2, WorkerFacts
<1> QED
  BY <1>1, <1>2, <1>3, <1>4, <1>5, WorkerFacts, LocalFrame

\* Steps that end an invocation.
LEMMA EndSteps ==
    ASSUME IInv, NEW w \in Workers,
           StartRefused(w) \/ LoadFails(w) \/ Crash(w)
    PROVE  IInv'
<1>1. /\ Return(w) /\ UNCHANGED <<external, run, item, mapping, edits>>
      /\ faults' \in Nat
  BY WorkerFacts DEF StartRefused, LoadFails, Crash, Fault
<1>2. NoJob.run = NoRun /\ "idle" \in Pcs
  BY DEF NoJob, Pcs
<1>3. NoJob.run \in Runs => run[NoJob.run].status # "none"
  BY <1>2, ConstantsAssumption
<1> QED
  BY <1>1, <1>2, <1>3, ReturnStep, WorkerFacts, LocalFrame

\* start: the run has been authorised, so it is not fresh.
LEMMA StartStep ==
    ASSUME IInv, NEW w \in Workers, StartRun(w)
    PROVE  IInv'
<1> DEFINE r == job[w].run
<1>1. /\ job[w] \in JobType /\ r \in Runs /\ run \in [Runs -> RunType]
      /\ JobWellFormed("requested", job[w]) /\ pc[w] = "requested"
  BY WorkerFacts DEF StartRun, JobWellFormed, IInv, TypeOK
<1>2. run[r].rev \in Nat
  BY <1>1 DEF RunType
<1>3. PICK j \in JobType : j = [job[w] EXCEPT !.rev = run[r].rev + 1]
  <2>1. [job[w] EXCEPT !.rev = run[r].rev + 1] \in JobType
    BY <1>1, <1>2 DEF JobType
  <2> QED
    BY <2>1
<1>4. /\ j.run = r /\ j.rows = job[w].rows /\ j.pend = job[w].pend
      /\ j.batch = job[w].batch
  BY <1>1, <1>3 DEF JobType
<1>5. job' = [job EXCEPT ![w] = j] /\ pc' = [pc EXCEPT ![w] = "started"]
  BY <1>3 DEF StartRun, Goto, IInv, TypeOK
<1>6. run' = [run EXCEPT ![r] = [status |-> "processing", rev |-> run[r].rev + 1]]
  BY DEF StartRun
<1>7. /\ run' \in [Runs -> RunType] /\ run'[r].status # "none"
      /\ \A q \in Runs : run'[q].status = "none" => run[q].status = "none"
  BY <1>1, <1>2, <1>6 DEF RunType, RunStatuses
<1>8. UNCHANGED <<source, xero, replies, wire, item, mapping, touched, edits,
                  faults>>
  BY DEF StartRun, external
<1>9. JobWellFormed("started", j)'
  BY <1>1, <1>4, <1>8 DEF JobWellFormed
<1>10. RowsWellFormed' /\ "started" \in Pcs
  BY <1>8 DEF IInv, RowsWellFormed, Pcs
<1>11. /\ item' \in [Runs -> [Docs -> ItemType]] /\ wire' \subseteq RequestType
       /\ mapping' \in [Docs -> Slots \cup {NoSlot}]
       /\ touched' \in [Workers -> SUBSET Slots] /\ faults' \in Nat
  BY <1>8 DEF IInv, TypeOK
<1> HIDE DEF r
<1> QED
  BY <1>4, <1>5, <1>7, <1>8, <1>9, <1>10, <1>11, WorkerFrame

\* The rows an attempt works on are selected rows of its run.
LEMMA LoadStep ==
    ASSUME IInv, NEW w \in Workers, LoadRows(w)
    PROVE  IInv'
<1> DEFINE rows == {d \in Docs : /\ MyItem(w, d).selected
                                 /\ MyItem(w, d).status \in
                                      {"selected", "failed"} \cup DoneStatuses}
           pend == {d \in rows : MyItem(w, d).status \notin DoneStatuses}
           j == [job[w] EXCEPT !.rows = rows, !.pend = pend]
<1>1. /\ job[w] \in JobType /\ pc[w] = "started"
      /\ JobWellFormed("started", job[w]) /\ job[w].run \in Runs
      /\ run[job[w].run].status # "none"
  BY WorkerFacts DEF LoadRows, JobWellFormed
<1>2. job[w].batch = {}
  BY <1>1 DEF JobWellFormed
<1>3. j \in JobType
  BY <1>1 DEF JobType
<1>4. job' = [job EXCEPT ![w] = j] /\ pc' = [pc EXCEPT ![w] = "reading"]
  BY DEF LoadRows, Goto, IInv, TypeOK
<1>5. j.run = job[w].run /\ j.rows = rows /\ j.pend = pend /\ j.batch = {}
  BY <1>1, <1>2 DEF JobType
<1>6. \A d \in rows : item[job[w].run][d].selected
  BY DEF MyItem
<1> HIDE DEF j
<1>7. JobWellFormed("reading", j) /\ "reading" \in Pcs
  BY <1>1, <1>5, <1>6 DEF JobWellFormed, Pcs
<1>8. UNCHANGED <<external, run, item, mapping, touched, edits, faults>>
  BY DEF LoadRows
<1> QED
  BY <1>1, <1>3, <1>4, <1>5, <1>7, <1>8, WorkerFacts, LocalFrame

\* The re-reads change only what the invocation has seen.
LEMMA ReadSteps ==
    ASSUME IInv, NEW w \in Workers, ReadSalesforce(w) \/ ReadXero(w)
    PROVE  IInv'
<1>1. /\ job[w] \in JobType /\ pc[w] = "reading"
      /\ JobWellFormed("reading", job[w]) /\ job[w].run \in Runs
      /\ run[job[w].run].status # "none"
  BY WorkerFacts DEF ReadSalesforce, ReadXero, JobWellFormed
<1>2. PICK seen \in SUBSET {"salesforce", "xero"}, stale \in BOOLEAN :
        job' = [job EXCEPT ![w] = [job[w] EXCEPT !.seen = seen, !.stale = stale]]
  <2>1. job[w].seen \in SUBSET {"salesforce", "xero"} /\ job[w].stale \in BOOLEAN
    BY <1>1 DEF JobType
  <2>2. CASE ReadSalesforce(w)
    BY <2>1, <2>2 DEF ReadSalesforce, IInv, TypeOK
  <2>3. CASE ReadXero(w)
    BY <2>1, <2>3 DEF ReadXero, IInv, TypeOK
  <2> QED
    BY <2>2, <2>3
<1> DEFINE j == [job[w] EXCEPT !.seen = seen, !.stale = stale]
<1>3. j \in JobType
  BY <1>1 DEF JobType
<1>4. /\ j.run = job[w].run /\ j.rows = job[w].rows /\ j.pend = job[w].pend
      /\ j.batch = job[w].batch
  BY <1>1 DEF JobType
<1>5. job' = [job EXCEPT ![w] = j]
  BY <1>2
<1> HIDE DEF j
<1>6. JobWellFormed("reading", j) /\ "reading" \in Pcs
  BY <1>1, <1>4 DEF JobWellFormed, Pcs
<1>7. pc' = [pc EXCEPT ![w] = "reading"]
  BY <1>1 DEF ReadSalesforce, ReadXero, IInv, TypeOK
<1>8. /\ UNCHANGED <<external, run, item, mapping, edits, faults>>
      /\ touched' \in [Workers -> SUBSET Slots]
  BY DEF ReadSalesforce, ReadXero, IInv, TypeOK
<1> QED
  BY <1>1, <1>3, <1>4, <1>5, <1>6, <1>7, <1>8, WorkerFacts, LocalFrame

\* The group of a row set is a set of its pending rows, and never empty while
\* rows are pending.
LEMMA GroupFacts ==
    ASSUME IInv, NEW w \in Workers
    PROVE  /\ Group(w) \subseteq job[w].pend
           /\ NoWrites(w) \subseteq Group(w)
           /\ NextPost(w) \subseteq Group(w)
           /\ Group(w) # {} => NextPost(w) # {}
  BY DEF Group, NoWrites, NextPost

\* Row d of a batch's rows has a group number.
LEMMA GroupOfType ==
    ASSUME IInv, NEW w \in Workers, NEW d \in job[w].rows
    PROVE  GroupOf(w, d) \in Nat
<1> DEFINE S == {e \in job[w].rows : e <= d}
<1>1. job[w].rows \subseteq Docs /\ Docs \subseteq Nat /\ IsFiniteSet(Docs)
  BY WorkerFacts, ConstantsAssumption DEF JobType
<1>2. IsFiniteSet(S) /\ d \in S
  <2>1. S \subseteq Docs /\ d \in Nat
    BY <1>1
  <2> QED
    BY <1>1, <2>1, FS_Subset
<1>3. Cardinality(S) \in Nat /\ Cardinality(S) # 0
  BY <1>2, FS_CardinalityType, FS_EmptySet
<1> DEFINE c == Cardinality(S) - 1
<1>4. c \in Nat /\ BatchSize \in Nat \ {0}
  BY <1>3, ConstantsAssumption
<1> HIDE DEF c
<1>5. c \div BatchSize \in Nat
  BY <1>4
<1> QED
  BY <1>5 DEF GroupOf, c

\* While rows are pending some group is.
LEMMA GroupNonEmpty ==
    ASSUME IInv, NEW w \in Workers, job[w].pend # {}, NoWrites(w) = {}
    PROVE  NextPost(w) # {}
<1> DEFINE S == {GroupOf(w, d) : d \in job[w].pend}
<1>1. job[w].pend \subseteq Docs
  BY WorkerFacts DEF JobType
<1>2. \A d \in job[w].pend : GroupOf(w, d) \in Nat
  BY GroupOfType, WorkerFacts DEF JobWellFormed
<1>3. PICK m \in S : \A k \in S : m =< k
  BY <1>2, NatSetHasLeast
<1>4. PICK d \in job[w].pend : GroupOf(w, d) = m
  BY <1>3
<1>5. d \in Group(w)
  BY <1>3, <1>4 DEF Group
<1> QED
  BY <1>5, GroupFacts

\* A linked row keeps its reviewed target.
LEMMA LinkStep ==
    ASSUME IInv, NEW w \in Workers, LinkRow(w)
    PROVE  IInv'
<1> DEFINE d == Min(NoWrites(w))
           found == [slot |-> MyItem(w, d).target, stamp |-> MyItem(w, d).stamp]
           j == [job[w] EXCEPT !.batch = {d},
                               !.result = [@ EXCEPT ![d] = found]]
<1>1. /\ job[w] \in JobType /\ pc[w] = "working"
      /\ JobWellFormed("working", job[w]) /\ job[w].run \in Runs
      /\ run[job[w].run].status # "none"
  BY WorkerFacts DEF LinkRow, JobWellFormed
<1>2. NoWrites(w) \in SUBSET Docs /\ NoWrites(w) \subseteq job[w].pend
  BY <1>1, GroupFacts DEF JobType
<1>3. d \in Docs /\ d \in job[w].pend
  BY <1>2, MinInSet DEF LinkRow
<1>4. found \in [slot : Slots \cup {NoSlot}, stamp : Nat]
  <2>1. item[job[w].run][d] \in ItemType
    BY <1>1, <1>3 DEF IInv, TypeOK
  <2> QED
    BY <2>1 DEF MyItem, ItemType
<1> HIDE DEF d, found
<1>5. j \in JobType
  <2>1. [job[w].result EXCEPT ![d] = found] \in ResultType
    BY <1>1, <1>3, <1>4 DEF JobType, ResultType
  <2> QED
    BY <1>1, <1>3, <2>1 DEF JobType
<1>6. job' = [job EXCEPT ![w] = j] /\ pc' = [pc EXCEPT ![w] = "settling"]
  BY DEF LinkRow, Goto, IInv, TypeOK, d, found
<1>7. /\ j.run = job[w].run /\ j.rows = job[w].rows /\ j.pend = job[w].pend
      /\ j.batch = {d}
  BY <1>1 DEF JobType
<1> HIDE DEF j
<1>8. JobWellFormed("settling", j) /\ "settling" \in Pcs
  BY <1>1, <1>3, <1>7 DEF JobWellFormed, Pcs
<1>9. UNCHANGED <<external, run, item, mapping, touched, edits, faults>>
  BY DEF LinkRow
<1> QED
  BY <1>1, <1>5, <1>6, <1>7, <1>8, <1>9, WorkerFacts, LocalFrame

\* A request only carries rows that are to be written.
LEMMA PostStep ==
    ASSUME IInv, NEW w \in Workers, PostBatch(w)
    PROVE  IInv'
<1> DEFINE r == job[w].run
<1>1. /\ job[w] \in JobType /\ pc[w] = "working"
      /\ JobWellFormed("working", job[w]) /\ r \in Runs
      /\ run[r].status # "none"
  BY WorkerFacts DEF PostBatch, JobWellFormed
<1>2. PICK b \in SUBSET Docs : b = NextPost(w)
  BY <1>1, GroupFacts DEF JobType
<1>3. b \subseteq job[w].pend
  BY <1>2, GroupFacts
<1>4. b # {}
  BY <1>2, GroupNonEmpty DEF PostBatch
<1>5. PICK j \in JobType : j = [job[w] EXCEPT !.batch = b]
  <2>1. [job[w] EXCEPT !.batch = b] \in JobType
    BY <1>1, <1>2 DEF JobType
  <2> QED
    BY <2>1
<1>6. /\ j.run = r /\ j.rows = job[w].rows /\ j.pend = job[w].pend
      /\ j.batch = b
  BY <1>1, <1>5 DEF JobType
<1>7. \A d \in b : item[r][d].action \in WriteActions
  <2> SUFFICES ASSUME NEW d \in b
               PROVE  item[r][d].action \in WriteActions
    OBVIOUS
  <2>1. d \in Docs /\ item[r][d].selected
    BY <1>1, <1>3 DEF JobWellFormed, JobType
  <2>2. item[r][d].action \in NoWriteActions \cup WriteActions
    BY <1>1, <2>1 DEF IInv, RowsWellFormed
  <2>3. item[r][d].action \notin NoWriteActions
    BY <1>2, GroupFacts DEF PostBatch, NoWrites, MyItem
  <2> QED
    BY <2>2, <2>3
<1>8. /\ pc' = [pc EXCEPT ![w] = "posting"]
      /\ job' = [job EXCEPT ![w] = j]
      /\ wire' = wire \cup {[run |-> r, docs |-> b]}
      /\ UNCHANGED <<source, xero, replies, run, item, mapping, touched, edits,
                     faults>>
  BY <1>2, <1>5 DEF PostBatch, Goto, IInv, TypeOK
<1>9. JobWellFormed("posting", j)' /\ RowsWellFormed' /\ "posting" \in Pcs
  BY <1>1, <1>3, <1>4, <1>6, <1>8
     DEF JobWellFormed, RowsWellFormed, IInv, Pcs
<1>10. /\ wire' \subseteq RequestType
       /\ \A m \in wire' \ wire : m = [run |-> r, docs |-> b]
  BY <1>1, <1>2, <1>8 DEF IInv, TypeOK, RequestType
<1>11. \A m \in wire' \ wire :
         /\ run'[m.run].status # "none"
         /\ \A d \in m.docs : item[m.run][d].action \in WriteActions
  BY <1>1, <1>7, <1>8, <1>10
<1>12. /\ item' \in [Runs -> [Docs -> ItemType]] /\ run' \in [Runs -> RunType]
       /\ mapping' \in [Docs -> Slots \cup {NoSlot}]
       /\ touched' \in [Workers -> SUBSET Slots] /\ faults' \in Nat
  BY <1>8 DEF IInv, TypeOK
<1> HIDE DEF r
<1> QED
  BY <1>1, <1>6, <1>8, <1>9, <1>10, <1>11, <1>12, WorkerFrame

\* An invocation takes over the answer to its own request.
LEMMA AnsweredStep ==
    ASSUME IInv, NEW w \in Workers, PostAnswered(w)
    PROVE  IInv'
<1>1. /\ job[w] \in JobType /\ pc[w] = "posting"
      /\ JobWellFormed("posting", job[w]) /\ job[w].run \in Runs
      /\ run[job[w].run].status # "none"
  BY WorkerFacts DEF PostAnswered, JobWellFormed
<1>2. PICK a \in replies : job' = [job EXCEPT ![w].result = a.result]
  BY DEF PostAnswered
<1>3. a.result \in ResultType
  BY DEF IInv, TypeOK, ReplyType
<1>4. PICK j \in JobType : j = [job[w] EXCEPT !.result = a.result]
  <2>1. [job[w] EXCEPT !.result = a.result] \in JobType
    BY <1>1, <1>3 DEF JobType
  <2> QED
    BY <2>1
<1>5. /\ j.run = job[w].run /\ j.rows = job[w].rows /\ j.pend = job[w].pend
      /\ j.batch = job[w].batch
  BY <1>1, <1>4 DEF JobType
<1>6. job' = [job EXCEPT ![w] = j] /\ pc' = [pc EXCEPT ![w] = "settling"]
  BY <1>2, <1>4 DEF PostAnswered, Goto, IInv, TypeOK
<1>7. JobWellFormed("settling", j) /\ "settling" \in Pcs
  BY <1>1, <1>5 DEF JobWellFormed, Pcs
<1>8. UNCHANGED <<external, run, item, mapping, touched, edits, faults>>
  BY DEF PostAnswered
<1> QED
  BY <1>1, <1>5, <1>6, <1>7, <1>8, WorkerFacts, LocalFrame

\* The mapping of a settled row names an identity of Xero.
LEMMA MappingStep ==
    ASSUME IInv, NEW w \in Workers, UpsertMapping(w)
    PROVE  IInv'
<1> DEFINE j == job[w]
<1>1. /\ j \in JobType /\ pc[w] = "settling"
      /\ JobWellFormed("settling", j) /\ j.run \in Runs
      /\ run[j.run].status # "none"
  BY WorkerFacts DEF UpsertMapping, JobWellFormed
<1>2. Current(w) \in Docs
  BY <1>1, MinInSet DEF JobWellFormed, JobType, Current
<1>3. Result(w) \in [slot : Slots \cup {NoSlot}, stamp : Nat]
  BY <1>1, <1>2 DEF JobType, ResultType, Result
<1>4. mapping' \in [Docs -> Slots \cup {NoSlot}]
  BY <1>2, <1>3 DEF UpsertMapping, IInv, TypeOK
<1>5. PICK p \in Pcs : /\ pc' = [pc EXCEPT ![w] = p]
                       /\ p \in {"failing", "marking"}
  BY DEF UpsertMapping, Goto, Pcs
<1>6. j.result[Min(j.batch)].slot # NoSlot
  BY DEF UpsertMapping, Result, Current
<1>7. JobWellFormed(p, j)
  BY <1>1, <1>5, <1>6 DEF JobWellFormed
<1>8. /\ job' = [job EXCEPT ![w] = j]
      /\ UNCHANGED <<external, run, item, touched, edits, faults>>
  BY DEF UpsertMapping, IInv, TypeOK
<1> HIDE DEF j
<1> QED
  BY <1>1, <1>4, <1>5, <1>7, <1>8, WorkerFacts, LocalFrame

\* Settling a row takes it off the batch and off the pending rows.
LEMMA RowDone ==
    ASSUME NEW j \in JobType, NEW d \in Docs, NEW flag \in BOOLEAN,
           j.batch \subseteq j.pend, j.pend \subseteq j.rows,
           j.run \in Runs, \A e \in j.rows : item[j.run][e].selected,
           NEW k, k = [j EXCEPT !.batch = @ \ {d}, !.pend = @ \ {d},
                                !.failed = flag]
    PROVE  /\ k \in JobType /\ k.run = j.run
           /\ JobWellFormed(IF k.batch = {} THEN "working" ELSE "settling", k)
<1>1. k \in JobType
  BY DEF JobType
<1>2. /\ k.run = j.run /\ k.rows = j.rows /\ k.batch = j.batch \ {d}
      /\ k.pend = j.pend \ {d}
  BY DEF JobType
<1> QED
  BY <1>1, <1>2 DEF JobWellFormed

\* Marking a row keeps it selected.
LEMMA SelectedKept ==
    ASSUME NEW p, NEW j \in JobType, JobWellFormed(p, j),
           \A r \in Runs, d \in Docs :
             item'[r][d].selected = item[r][d].selected
    PROVE  JobWellFormed(p, j)'
<1>1. p # "idle" => \A d \in j.rows : item'[j.run][d].selected
  <2> SUFFICES ASSUME p # "idle", NEW d \in j.rows
               PROVE  item'[j.run][d].selected
    OBVIOUS
  <2>1. d \in Docs /\ j.run \in Runs /\ item[j.run][d].selected
    BY DEF JobType, JobWellFormed
  <2> QED
    BY <2>1
<1> QED
  BY <1>1 DEF JobWellFormed

\* A selected row that gets a new checkpoint keeps the rows well formed.
LEMMA RowUpdate ==
    ASSUME IInv, NEW r \in Runs, NEW d \in Docs, NEW i \in ItemType,
           item' = [item EXCEPT ![r][d] = i], item[r][d].selected,
           i.selected = item[r][d].selected, i.action = item[r][d].action,
           i.status \in Chosen,
           i.target \in Slots \/ i.target = item[r][d].target
    PROVE  /\ item' \in [Runs -> [Docs -> ItemType]]
           /\ RowsWellFormed'
           /\ \A q \in Runs, e \in Docs :
                /\ item'[q][e].selected = item[q][e].selected
                /\ item'[q][e].action = item[q][e].action
<1>1. item \in [Runs -> [Docs -> ItemType]]
  BY DEF IInv, TypeOK
<1>2. item' \in [Runs -> [Docs -> ItemType]]
  BY <1>1
<1>3. \A q \in Runs, e \in Docs :
        item'[q][e] = IF q = r /\ e = d THEN i ELSE item[q][e]
  BY <1>1
<1>4. item[r][d].status \in Chosen
  BY DEF IInv, RowsWellFormed
<1>5. ASSUME NEW q \in Runs, NEW e \in Docs
      PROVE  /\ item'[q][e].status \in {"eligible"} \cup Chosen =>
                  item'[q][e].action \in NoWriteActions \cup WriteActions
             /\ item'[q][e].action \in NoWriteActions \cup {"safe_update"} =>
                  item'[q][e].target \in Slots
             /\ item'[q][e].selected => item'[q][e].status \in Chosen
  <2>1. CASE q = r /\ e = d
    BY <1>3, <1>4, <2>1 DEF IInv, RowsWellFormed
  <2>2. CASE ~(q = r /\ e = d)
    <3>1. item'[q][e] = item[q][e]
      BY <1>3, <2>2
    <3> QED
      BY <3>1 DEF IInv, RowsWellFormed
  <2> QED
    BY <2>1, <2>2
<1>6. RowsWellFormed'
  BY <1>5 DEF RowsWellFormed
<1> QED
  BY <1>2, <1>3, <1>6

\* What holds of the row an invocation is settling.
LEMMA CurrentFacts ==
    ASSUME IInv, NEW w \in Workers, pc[w] \in {"settling", "marking"}
    PROVE  /\ Current(w) \in Docs /\ Current(w) \in job[w].rows
           /\ job[w] \in JobType /\ job[w].run \in Runs
           /\ item[job[w].run][Current(w)] \in ItemType
           /\ item[job[w].run][Current(w)].selected
           /\ Result(w) \in [slot : Slots \cup {NoSlot}, stamp : Nat]
           /\ run[job[w].run].status # "none"
           /\ job[w].batch \subseteq job[w].pend
           /\ job[w].pend \subseteq job[w].rows
           /\ \A e \in job[w].rows : item[job[w].run][e].selected
<1>1. /\ job[w] \in JobType /\ JobWellFormed(pc[w], job[w])
      /\ job[w].run \in Runs /\ run[job[w].run].status # "none"
  BY WorkerFacts DEF JobWellFormed
<1>2. job[w].batch # {} /\ job[w].batch \subseteq Docs
      /\ job[w].batch \subseteq job[w].rows
  BY <1>1 DEF JobWellFormed, JobType
<1>3. Current(w) \in Docs /\ Current(w) \in job[w].rows
  BY <1>2, MinInSet DEF Current
<1>4. Result(w) \in [slot : Slots \cup {NoSlot}, stamp : Nat]
  BY <1>1, <1>3 DEF Result, JobType, ResultType
<1> QED
  BY <1>1, <1>3, <1>4 DEF JobWellFormed, IInv, TypeOK

\* A row without an identity is marked failed.
LEMMA FailedRowStep ==
    ASSUME IInv, NEW w \in Workers, SettleFailed(w)
    PROVE  IInv'
<1>1. PICK d \in Docs, r \in Runs : d = Current(w) /\ r = job[w].run
  BY CurrentFacts DEF SettleFailed
<1>2. /\ d \in job[w].rows /\ item[r][d] \in ItemType /\ item[r][d].selected
      /\ job[w] \in JobType /\ run[r].status # "none"
  BY <1>1, CurrentFacts DEF SettleFailed
<1>3. PICK k \in JobType : k = [job[w] EXCEPT !.batch = @ \ {d},
                                  !.pend = @ \ {d}, !.failed = TRUE]
  <2>1. [job[w] EXCEPT !.batch = @ \ {d}, !.pend = @ \ {d}, !.failed = TRUE]
          \in JobType
    BY <1>2 DEF JobType
  <2> QED
    BY <2>1
<1>4. k.batch = job[w].batch \ {d} /\ k.run = r
  BY <1>1, <1>2, <1>3 DEF JobType
<1>5. PICK p \in Pcs : p = IF k.batch = {} THEN "working" ELSE "settling"
  BY DEF Pcs
<1>6. JobWellFormed(p, k)
  BY <1>1, <1>2, <1>3, <1>5, CurrentFacts, RowDone DEF SettleFailed
<1>7. pc' = [pc EXCEPT ![w] = p] /\ job' = [job EXCEPT ![w] = k]
  BY <1>1, <1>3, <1>4, <1>5 DEF SettleFailed, Goto, AfterRow, IInv, TypeOK
<1>8. /\ item' \in [Runs -> [Docs -> ItemType]]
      /\ RowsWellFormed'
      /\ \A q \in Runs, e \in Docs :
           /\ item'[q][e].selected = item[q][e].selected
           /\ item'[q][e].action = item[q][e].action
  <2>1. CASE item' = [item EXCEPT ![r][d].status = "failed"]
    <3>1. PICK i \in ItemType : i = [item[r][d] EXCEPT !.status = "failed"]
      <4>1. [item[r][d] EXCEPT !.status = "failed"] \in ItemType
        BY <1>2 DEF ItemType, ItemStatuses
      <4> QED
        BY <4>1
    <3>2. item' = [item EXCEPT ![r][d] = i]
      BY <2>1, <3>1
    <3>3. /\ i.selected = item[r][d].selected /\ i.action = item[r][d].action
          /\ i.status \in Chosen /\ i.target = item[r][d].target
      BY <1>2, <3>1 DEF ItemType, Chosen
    <3> QED
      BY <1>2, <3>2, <3>3, RowUpdate
  <2>2. CASE UNCHANGED item
    BY <2>2 DEF IInv, TypeOK, RowsWellFormed
  <2> QED
    BY <1>1, <2>1, <2>2 DEF SettleFailed
<1>9. /\ UNCHANGED <<source, xero, wire, replies, run, mapping, touched, edits>>
      /\ faults' \in Nat
  BY WorkerFacts DEF SettleFailed, Fault, external
<1>10. JobWellFormed(p, k)'
  BY <1>6, <1>8, SelectedKept
<1>11. /\ run' \in [Runs -> RunType] /\ wire' \subseteq RequestType
       /\ mapping' \in [Docs -> Slots \cup {NoSlot}]
       /\ touched' \in [Workers -> SUBSET Slots] /\ wire' \ wire = {}
       /\ run'[k.run].status # "none"
       /\ \A q \in Runs : run'[q].status = "none" => run[q].status = "none"
  BY <1>2, <1>4, <1>9 DEF IInv, TypeOK
<1> QED
  BY <1>7, <1>8, <1>9, <1>10, <1>11, WorkerFrame

\* A row with an identity is checkpointed.
LEMMA CheckpointStep ==
    ASSUME IInv, NEW w \in Workers, CheckpointRow(w)
    PROVE  IInv'
<1>1. PICK d \in Docs, r \in Runs : d = Current(w) /\ r = job[w].run
  BY CurrentFacts DEF CheckpointRow
<1>2. /\ d \in job[w].rows /\ item[r][d] \in ItemType /\ item[r][d].selected
      /\ job[w] \in JobType /\ run[r].status # "none"
      /\ Result(w) \in [slot : Slots \cup {NoSlot}, stamp : Nat]
  BY <1>1, CurrentFacts DEF CheckpointRow
<1>3. Result(w).slot \in Slots /\ Result(w).stamp \in Nat
  BY <1>2, WorkerFacts DEF JobWellFormed, Result, Current, CheckpointRow
<1>4. PICK k \in JobType : k = [job[w] EXCEPT !.batch = @ \ {d},
                                  !.pend = @ \ {d}, !.failed = job[w].failed]
  <2>1. [job[w] EXCEPT !.batch = @ \ {d}, !.pend = @ \ {d},
                       !.failed = job[w].failed] \in JobType
    BY <1>2 DEF JobType
  <2> QED
    BY <2>1
<1>5. /\ k.batch = job[w].batch \ {d} /\ k.run = r
      /\ k = [job[w] EXCEPT !.batch = @ \ {d}, !.pend = @ \ {d}]
  BY <1>1, <1>2, <1>4 DEF JobType
<1>6. PICK p \in Pcs : p = IF k.batch = {} THEN "working" ELSE "settling"
  BY DEF Pcs
<1>7. JobWellFormed(p, k)
  <2>1. job[w].failed \in BOOLEAN
    BY <1>2 DEF JobType
  <2> QED
    BY <1>1, <1>2, <1>4, <1>6, <2>1, CurrentFacts, RowDone DEF CheckpointRow
<1>8. pc' = [pc EXCEPT ![w] = p] /\ job' = [job EXCEPT ![w] = k]
  BY <1>1, <1>5, <1>6 DEF CheckpointRow, Goto, AfterRow, IInv, TypeOK
<1>9. /\ item' \in [Runs -> [Docs -> ItemType]]
      /\ RowsWellFormed'
      /\ \A q \in Runs, e \in Docs :
           /\ item'[q][e].selected = item[q][e].selected
           /\ item'[q][e].action = item[q][e].action
  <2> DEFINE marked == [item[r][d] EXCEPT
                          !.status = CheckpointStatus(item[r][d].action),
                          !.target = Result(w).slot, !.stamp = Result(w).stamp]
  <2>1. CheckpointStatus(item[r][d].action) \in DoneStatuses
    BY DEF CheckpointStatus, DoneStatuses
  <2>2. PICK i \in ItemType : i = marked
    <3>1. marked \in ItemType
      BY <1>2, <1>3, <2>1 DEF ItemType, ItemStatuses, DoneStatuses
    <3> QED
      BY <3>1
  <2>3. /\ i.selected = item[r][d].selected /\ i.action = item[r][d].action
        /\ i.status \in Chosen /\ i.target \in Slots
    BY <1>2, <1>3, <2>1, <2>2 DEF ItemType, Chosen
  <2>4. item' = [item EXCEPT ![r][d] = i] \/ UNCHANGED item
    BY <1>1, <2>2 DEF CheckpointRow, MyItem
  <2>5. CASE item' = [item EXCEPT ![r][d] = i]
    BY <1>2, <2>3, <2>5, RowUpdate
  <2>6. CASE UNCHANGED item
    BY <2>6 DEF IInv, TypeOK, RowsWellFormed
  <2> QED
    BY <2>4, <2>5, <2>6
<1>10. UNCHANGED <<source, xero, wire, replies, run, mapping, touched, edits,
                   faults>>
  BY DEF CheckpointRow, external
<1>11. JobWellFormed(p, k)'
  BY <1>7, <1>9, SelectedKept
<1>12. /\ run' \in [Runs -> RunType] /\ wire' \subseteq RequestType
       /\ mapping' \in [Docs -> Slots \cup {NoSlot}]
       /\ touched' \in [Workers -> SUBSET Slots] /\ wire' \ wire = {}
       /\ run'[k.run].status # "none" /\ faults' \in Nat
       /\ \A q \in Runs : run'[q].status = "none" => run[q].status = "none"
  BY <1>2, <1>5, <1>10 DEF IInv, TypeOK
<1> QED
  BY <1>8, <1>9, <1>10, <1>11, <1>12, WorkerFrame

\* finish and the catch block: the run's status and revision move, or nothing
\* does.
LEMMA FinishSteps ==
    ASSUME IInv, NEW w \in Workers, FinishRun(w) \/ FailRun(w)
    PROVE  IInv'
<1>1. /\ job[w] \in JobType /\ job[w].run \in Runs
      /\ JobWellFormed(pc[w], job[w]) /\ pc[w] \in {"working", "failing"}
      /\ run[job[w].run].status # "none"
  BY WorkerFacts DEF FinishRun, FailRun, JobWellFormed
<1>2. PICK r \in Runs : r = job[w].run
  BY <1>1
<1>3. PICK status \in {"completed", "partial", "failed"} :
        run' = FinishedRun(w, status) \/ UNCHANGED run
  BY DEF FinishRun, FailRun, TerminalStatus
<1>4. run \in [Runs -> RunType] /\ run[r].rev \in Nat
  BY <1>2 DEF IInv, TypeOK, RunType
<1>5. run' = [run EXCEPT ![r] = [status |-> status, rev |-> run[r].rev + 1]]
      \/ UNCHANGED run
  BY <1>2, <1>3 DEF FinishedRun
<1>6. /\ run' \in [Runs -> RunType]
      /\ \A q \in Runs : run'[q].status = "none" => run[q].status = "none"
  BY <1>4, <1>5 DEF RunType, RunStatuses
<1>7. /\ UNCHANGED <<source, xero, wire, replies, item, mapping, edits>>
      /\ faults' \in Nat
  BY WorkerFacts DEF FinishRun, FailRun, Fault, external
<1>8. /\ item' \in [Runs -> [Docs -> ItemType]] /\ wire' \subseteq RequestType
      /\ mapping' \in [Docs -> Slots \cup {NoSlot}] /\ wire' \ wire = {}
      /\ RowsWellFormed'
      /\ \A q \in Runs, e \in Docs :
           /\ item'[q][e].selected = item[q][e].selected
           /\ item'[q][e].action = item[q][e].action
  BY <1>7 DEF IInv, TypeOK, RowsWellFormed
<1>9. CASE Return(w)
  <2>1. NoJob.run \notin Runs /\ "idle" \in Pcs
    BY ConstantsAssumption DEF NoJob, Pcs
  <2>2. JobWellFormed("idle", NoJob)'
    BY <1>9, ReturnStep
  <2> QED
    BY <1>6, <1>7, <1>8, <1>9, <2>1, <2>2, ReturnStep, WorkerFrame
<1>10. CASE Goto(w, "failing") /\ UNCHANGED <<job, touched>>
  <2>1. JobWellFormed("failing", job[w]) /\ "failing" \in Pcs
    BY <1>1 DEF JobWellFormed, Pcs
  <2>2. PICK j \in JobType : j = job[w]
    BY <1>1
  <2>3. JobWellFormed("failing", j)'
    BY <1>8, <2>1, <2>2, SelectedKept
  <2>4. /\ pc' = [pc EXCEPT ![w] = "failing"] /\ job' = [job EXCEPT ![w] = j]
        /\ touched' \in [Workers -> SUBSET Slots]
    BY <1>10, <2>2 DEF Goto, IInv, TypeOK
  <2>5. run'[j.run].status # "none"
    BY <1>1, <1>6, <2>2
  <2> QED
    BY <1>6, <1>7, <1>8, <2>1, <2>3, <2>4, <2>5, WorkerFrame
<1> QED
  BY <1>9, <1>10 DEF FinishRun, FailRun

\* A caller sends a revision of an authorised run.
LEMMA RequestStep ==
    ASSUME IInv, NEW w \in Workers, NEW r \in Runs, RequestRun(w, r)
    PROVE  IInv'
<1>1. run[r].rev \in Nat
  BY DEF IInv, TypeOK, RunType
<1>2. PICK j \in JobType : j = [NoJob EXCEPT !.run = r, !.rev = run[r].rev]
  <2>1. NoJob \in JobType
    BY DEF NoJob, JobType, NoReply, ResultType, NoSlot
  <2>2. [NoJob EXCEPT !.run = r, !.rev = run[r].rev] \in JobType
    BY <1>1, <2>1 DEF JobType
  <2> QED
    BY <2>2
<1>3. j.run = r /\ j.rows = {} /\ j.pend = {} /\ j.batch = {}
  BY <1>2 DEF NoJob
<1>4. JobWellFormed("requested", j) /\ "requested" \in Pcs
  BY <1>3 DEF JobWellFormed, Pcs
<1>5. /\ pc' = [pc EXCEPT ![w] = "requested"] /\ job' = [job EXCEPT ![w] = j]
      /\ run[r].status # "none"
      /\ UNCHANGED <<external, run, item, mapping, touched, edits, faults>>
  BY <1>2 DEF RequestRun, Goto
<1> QED
  BY <1>3, <1>4, <1>5, WorkerFacts, LocalFrame

\* Every step of an invocation.
LEMMA WorkerSteps ==
    ASSUME IInv, NEW w \in Workers, WorkerStep(w) \/ WorkerFault(w)
    PROVE  IInv'
  BY StartStep, EndSteps, LoadStep, ReadSteps, MoveSteps, LinkStep, PostStep,
     AnsweredStep, FailedRowStep, MappingStep, CheckpointStep, FinishSteps
     DEF WorkerStep, WorkerFault

-----------------------------------------------------------------------------
(* Steps of Finance, of Xero and of the users *)

\* Previewing a run nobody refers to yet.
LEMMA PreviewStep ==
    ASSUME IInv, NEW r \in Runs, Preview(r)
    PROVE  IInv'
<1>1. PICK blockers : item' = [item EXCEPT ![r] =
                                 [d \in Docs |-> Classify(d, blockers)]]
  BY DEF Preview
<1>2. /\ run[r].status = "none"
      /\ run' = [run EXCEPT ![r] = [status |-> "ready_for_review", rev |-> 1]]
      /\ UNCHANGED <<source, xero, wire, replies, mapping, pc, job, touched,
                     edits, faults>>
  BY DEF Preview, external
<1>3. \A d \in Docs : item'[r][d] = Classify(d, blockers)
  BY <1>1 DEF IInv, TypeOK
<1>4. \A q \in Runs \ {r} : item'[q] = item[q]
  BY <1>1 DEF IInv, TypeOK
<1>5. TypeOK'
  <2>1. item' \in [Runs -> [Docs -> ItemType]]
    BY <1>1, ClassifyType DEF IInv, TypeOK
  <2>2. run' \in [Runs -> RunType]
    BY <1>2 DEF IInv, TypeOK, RunType, RunStatuses
  <2> QED
    BY <1>2, <2>1, <2>2 DEF IInv, TypeOK
<1>6. RowsWellFormed'
  <2> SUFFICES ASSUME NEW q \in Runs, NEW d \in Docs
               PROVE  /\ item'[q][d].status \in {"eligible"} \cup Chosen =>
                           item'[q][d].action \in NoWriteActions \cup WriteActions
                      /\ item'[q][d].action \in NoWriteActions \cup {"safe_update"} =>
                           item'[q][d].target \in Slots
                      /\ item'[q][d].selected => item'[q][d].status \in Chosen
    BY DEF RowsWellFormed
  <2>1. CASE q = r
    BY <1>3, <2>1, ClassifyType DEF IInv, Chosen, DoneStatuses
  <2>2. CASE q # r
    BY <1>4, <2>2 DEF IInv, RowsWellFormed
  <2> QED
    BY <2>1, <2>2
<1>7. FreshRuns'
  BY <1>2 DEF IInv, FreshRuns, TypeOK
<1>8. JobsWellFormed'
  <2> SUFFICES ASSUME NEW w \in Workers
               PROVE  JobWellFormed(pc[w], job[w])'
    BY DEF JobsWellFormed
  <2>1. JobWellFormed(pc[w], job[w]) /\ job[w].run # r
    BY <1>2 DEF IInv, JobsWellFormed, FreshRuns
  <2> QED
    BY <1>2, <1>4, <2>1 DEF JobWellFormed
<1>9. WireWellFormed'
  BY <1>2, <1>4 DEF IInv, WireWellFormed, FreshRuns, TypeOK, RequestType
<1> QED
  BY <1>5, <1>6, <1>7, <1>8, <1>9 DEF IInv

\* Selecting eligible rows.
LEMMA AuthoriseStep ==
    ASSUME IInv, NEW r \in Runs, NEW selection \in SUBSET Docs,
           Authorise(r, selection)
    PROVE  IInv'
<1>1. /\ run[r].status = "ready_for_review"
      /\ \A d \in selection : item[r][d].status = "eligible"
      /\ UNCHANGED <<source, xero, wire, replies, mapping, pc, job, touched,
                     edits, faults>>
  BY DEF Authorise, external
<1>2. item \in [Runs -> [Docs -> ItemType]] /\ run \in [Runs -> RunType]
      /\ run[r].rev \in Nat
  BY DEF IInv, TypeOK, RunType
<1>3. /\ run' = [run EXCEPT ![r] = [status |-> "authorised",
                                    rev |-> run[r].rev + 1]]
      /\ item' = [item EXCEPT ![r] = [d \in Docs |->
                    IF d \in selection
                    THEN [item[r][d] EXCEPT !.status = "selected",
                                            !.selected = TRUE]
                    ELSE item[r][d]]]
  BY DEF Authorise
<1>4. ASSUME NEW q \in Runs, NEW d \in Docs
      PROVE  /\ item'[q][d] \in ItemType
             /\ item'[q][d].action = item[q][d].action
             /\ item'[q][d].target = item[q][d].target
             /\ item[q][d].selected => item'[q][d].selected
             /\ \/ item'[q][d] = item[q][d]
                \/ /\ item[q][d].status = "eligible"
                   /\ item'[q][d].status = "selected"
  <2>1. item[q][d] \in ItemType
    BY <1>2
  <2>2. CASE q = r /\ d \in selection
    <3>1. item'[q][d] = [item[r][d] EXCEPT !.status = "selected",
                                           !.selected = TRUE]
      BY <1>2, <1>3, <2>2
    <3> QED
      BY <1>1, <2>1, <2>2, <3>1 DEF ItemType, ItemStatuses
  <2>3. CASE ~(q = r /\ d \in selection)
    <3>1. item'[q][d] = item[q][d]
      BY <1>2, <1>3, <2>3
    <3> QED
      BY <2>1, <3>1
  <2> QED
    BY <2>2, <2>3
<1>5. TypeOK'
  <2>1. item' \in [Runs -> [Docs -> ItemType]]
    <3>1. PICK rows : /\ item' = [item EXCEPT ![r] = rows]
                      /\ rows = [d \in Docs |->
                            IF d \in selection
                            THEN [item[r][d] EXCEPT !.status = "selected",
                                                    !.selected = TRUE]
                            ELSE item[r][d]]
      BY <1>3
    <3>2. \A d \in Docs : rows[d] \in ItemType
      <4>1. item'[r] = rows
        BY <1>2, <3>1
      <4> QED
        BY <1>4, <4>1
    <3>3. rows \in [Docs -> ItemType]
      BY <3>1, <3>2
    <3> QED
      BY <1>2, <3>1, <3>3
  <2>2. run' \in [Runs -> RunType]
    <3>1. [status |-> "authorised", rev |-> run[r].rev + 1] \in RunType
      BY <1>2 DEF RunType, RunStatuses
    <3> QED
      BY <1>2, <1>3, <3>1
  <2> QED
    BY <1>1, <2>1, <2>2 DEF IInv, TypeOK
<1>6. RowsWellFormed'
  <2> SUFFICES ASSUME NEW q \in Runs, NEW d \in Docs
               PROVE  /\ item'[q][d].status \in {"eligible"} \cup Chosen =>
                           item'[q][d].action \in NoWriteActions \cup WriteActions
                      /\ item'[q][d].action \in NoWriteActions \cup {"safe_update"} =>
                           item'[q][d].target \in Slots
                      /\ item'[q][d].selected => item'[q][d].status \in Chosen
    BY DEF RowsWellFormed
  <2> QED
    BY <1>4 DEF IInv, RowsWellFormed, Chosen
<1>7. FreshRuns'
  BY <1>1, <1>2, <1>3 DEF IInv, FreshRuns
<1>8. JobsWellFormed'
  <2> SUFFICES ASSUME NEW w \in Workers
               PROVE  JobWellFormed(pc[w], job[w])'
    BY DEF JobsWellFormed
  <2>1. JobWellFormed(pc[w], job[w]) /\ job[w] \in JobType
    BY WorkerFacts
  <2>2. pc[w] # "idle" => \A d \in job[w].rows : item'[job[w].run][d].selected
    BY <1>4, <2>1 DEF JobWellFormed, JobType
  <2> QED
    BY <1>1, <2>1, <2>2 DEF JobWellFormed
<1>9. WireWellFormed'
  BY <1>1, <1>4 DEF IInv, WireWellFormed, TypeOK, RequestType
<1> QED
  BY <1>5, <1>6, <1>7, <1>8, <1>9 DEF IInv

\* What the invariant says of a request on its way to Xero.
LEMMA RequestFacts ==
    ASSUME IInv, NEW m \in wire, NEW accepted \in SUBSET m.docs
    PROVE  /\ m.run \in Runs /\ m.docs \in SUBSET Docs
           /\ Creates(m, accepted) \in SUBSET Docs
           /\ Creates(m, accepted) \subseteq accepted
           /\ IsFiniteSet(Creates(m, accepted))
           /\ Cardinality(Creates(m, accepted)) \in Nat
           /\ Cardinality(Used) \in Nat
           /\ \A d \in accepted \ Creates(m, accepted) :
                item[m.run][d].target \in Slots
<1>1. m.run \in Runs /\ m.docs \in SUBSET Docs
  BY DEF IInv, TypeOK, RequestType
<1>2. Creates(m, accepted) \subseteq accepted /\ accepted \subseteq Docs
  BY <1>1 DEF Creates
<1>3. IsFiniteSet(Creates(m, accepted))
  BY <1>2, ConstantsAssumption, FS_Subset
<1>4. IsFiniteSet(Slots) /\ Used \subseteq Slots
  <2>1. IsFiniteSet(1..MaxXero)
    BY ConstantsAssumption, FS_Interval
  <2> QED
    BY <2>1 DEF Slots, Used
<1>5. Cardinality(Used) \in Nat /\ Cardinality(Creates(m, accepted)) \in Nat
  BY <1>3, <1>4, FS_Subset, FS_CardinalityType
<1>6. \A d \in accepted \ Creates(m, accepted) : item[m.run][d].target \in Slots
  BY <1>1 DEF IInv, WireWellFormed, RowsWellFormed, Creates, WriteActions
<1> QED
  BY <1>1, <1>2, <1>3, <1>5, <1>6

\* An accepted document is written under an identity Xero can hold.
LEMMA SlotForType ==
    ASSUME IInv, NEW m \in wire, NEW accepted \in SUBSET m.docs,
           Cardinality(Used) + Cardinality(Creates(m, accepted)) <= MaxXero,
           NEW d \in accepted
    PROVE  SlotFor(m, accepted, d) \in Slots
<1>1. CASE d \in Creates(m, accepted)
  <2> DEFINE Upto == {e \in Creates(m, accepted) : e <= d}
  <2>1. d \in Nat
    BY RequestFacts, ConstantsAssumption, <1>1
  <2>2. d \in Upto /\ Upto \subseteq Creates(m, accepted)
    BY <1>1, <2>1
  <2>3. /\ IsFiniteSet(Upto) /\ Cardinality(Upto) \in Nat
        /\ Cardinality(Upto) <= Cardinality(Creates(m, accepted))
    BY <2>2, RequestFacts, FS_Subset, FS_CardinalityType
  <2>4. Cardinality(Upto) # 0
    BY <2>2, <2>3, FS_EmptySet
  <2>5. NewSlot(m, accepted, d) = Cardinality(Used) + Cardinality(Upto)
    BY DEF NewSlot
  <2>6. Cardinality(Used) \in Nat /\ Cardinality(Creates(m, accepted)) \in Nat
    BY RequestFacts
  <2> HIDE DEF Upto
  <2>7. Cardinality(Used) + Cardinality(Upto) \in Slots
    BY <2>3, <2>4, <2>6, ConstantsAssumption DEF Slots
  <2> QED
    BY <1>1, <2>5, <2>7 DEF SlotFor
<1>2. CASE d \notin Creates(m, accepted)
  BY <1>2, RequestFacts DEF SlotFor
<1> QED
  BY <1>1, <1>2

\* Changing a Xero document's fields within their types keeps its type.
LEMMA XeroFieldEdit ==
    ASSUME NEW y \in XeroType
    PROVE  /\ \A t \in Nat : [y EXCEPT !.stamp = t] \in XeroType
           /\ \A c \in Int : [y EXCEPT !.content = c] \in XeroType
           /\ \A d \in Docs : [y EXCEPT !.src = d] \in XeroType
           /\ \A s \in {"protected", "void"} : [y EXCEPT !.state = s] \in XeroType
  BY DEF XeroType

\* A Xero user's change keeps a document's type.
LEMMA XeroDocumentEdit ==
    ASSUME NEW y \in XeroType, NEW t \in Nat
    PROVE  /\ \A d \in Docs, c \in Int :
                [y EXCEPT !.src = d, !.content = c, !.stamp = t] \in XeroType
           /\ [y EXCEPT !.content = Foreign, !.stamp = t] \in XeroType
           /\ [y EXCEPT !.state = "protected", !.stamp = t] \in XeroType
           /\ [y EXCEPT !.state = "void", !.stamp = t] \in XeroType
<1>1. ASSUME NEW d \in Docs, NEW c \in Int
      PROVE  [y EXCEPT !.src = d, !.content = c, !.stamp = t] \in XeroType
  <2>1. PICK y1 \in XeroType : y1 = [y EXCEPT !.src = d]
    BY XeroFieldEdit
  <2>2. PICK y2 \in XeroType : y2 = [y1 EXCEPT !.content = c]
    BY XeroFieldEdit
  <2>3. [y2 EXCEPT !.stamp = t] \in XeroType
    BY XeroFieldEdit
  <2> QED
    BY Zenon, <2>1, <2>2, <2>3
<1>2. ASSUME NEW c \in Int
      PROVE  [y EXCEPT !.content = c, !.stamp = t] \in XeroType
  <2>1. PICK y1 \in XeroType : y1 = [y EXCEPT !.content = c]
    BY XeroFieldEdit
  <2>2. [y1 EXCEPT !.stamp = t] \in XeroType
    BY XeroFieldEdit
  <2> QED
    BY Zenon, <2>1, <2>2
<1>3. ASSUME NEW s \in {"protected", "void"}
      PROVE  [y EXCEPT !.state = s, !.stamp = t] \in XeroType
  <2>1. PICK y1 \in XeroType : y1 = [y EXCEPT !.state = s]
    BY XeroFieldEdit
  <2>2. [y1 EXCEPT !.stamp = t] \in XeroType
    BY XeroFieldEdit
  <2> QED
    BY Zenon, <2>1, <2>2
<1>4. Foreign \in Int
  BY DEF Foreign
<1> HIDE DEF Foreign
<1> QED
  BY Zenon, <1>1, <1>2, <1>3, <1>4

\* What Xero writes under an identity of a request has its type.
LEMMA WrittenType ==
    ASSUME IInv, NEW m \in wire, NEW accepted \in SUBSET m.docs,
           NEW x \in Slots, \E d \in accepted : SlotFor(m, accepted, d) = x
    PROVE  Written(m, accepted, x) \in XeroType
<1>1. PICK d \in accepted :
        d = CHOOSE e \in accepted : SlotFor(m, accepted, e) = x
  OBVIOUS
<1>2. d \in Docs /\ m.run \in Runs
  BY RequestFacts
<1>3. item[m.run][d].src \in Int /\ xero[x] \in XeroType /\ xero[x].stamp \in Nat
  BY <1>2 DEF IInv, TypeOK, ItemType, XeroType
<1>4. CASE d \in Creates(m, accepted)
  <2>1. Written(m, accepted, x) =
          [state |-> "mutable", src |-> d, made |-> d, by |-> m.run,
           content |-> item[m.run][d].src, stamp |-> 1]
    BY <1>1, <1>4 DEF Written
  <2> QED
    BY <1>2, <1>3, <2>1 DEF XeroType
<1>5. CASE d \notin Creates(m, accepted)
  <2>1. Written(m, accepted, x) =
          [xero[x] EXCEPT !.src = d, !.content = item[m.run][d].src,
                          !.stamp = xero[x].stamp + 1]
    BY <1>1, <1>5 DEF Written
  <2>2. d \in Docs /\ xero[x].stamp + 1 \in Nat
    BY <1>2, <1>3
  <2>3. PICK y \in XeroType, c \in Int, t \in Nat :
          y = xero[x] /\ c = item[m.run][d].src /\ t = xero[x].stamp + 1
    BY <1>3, <2>2
  <2>4. [y EXCEPT !.src = d, !.content = c, !.stamp = t] \in XeroType
    BY Zenon, <2>2, XeroDocumentEdit
  <2> QED
    BY Zenon, <2>1, <2>3, <2>4
<1> QED
  BY <1>4, <1>5

\* Steps of Xero and of the users change neither runs, nor rows, nor
\* invocations, nor mappings.
LEMMA OutsideFrame ==
    ASSUME IInv, UNCHANGED <<run, item, mapping, pc, job>>,
           source' \in [Docs -> Nat], xero' \in [Slots -> XeroType],
           wire' \subseteq wire, replies' \subseteq ReplyType,
           touched' \in [Workers -> SUBSET Slots],
           edits' \in Nat, faults' \in Nat
    PROVE  IInv'
<1>1. TypeOK'
  BY DEF IInv, TypeOK
<1>2. RowsWellFormed' /\ FreshRuns' /\ WireWellFormed'
  BY DEF IInv, RowsWellFormed, FreshRuns, WireWellFormed
<1>3. JobsWellFormed'
  BY DEF IInv, JobsWellFormed, JobWellFormed
<1> QED
  BY <1>1, <1>2, <1>3 DEF IInv

\* Xero applies a request.
LEMMA ApplyStep ==
    ASSUME IInv, NEW m \in wire, NEW accepted \in SUBSET m.docs,
           XeroApply(m, accepted)
    PROVE  IInv'
<1> DEFINE slots == {SlotFor(m, accepted, d) : d \in accepted}
<1>1. /\ UNCHANGED <<source, run, item, mapping, pc, job, edits>>
      /\ Cardinality(Used) + Cardinality(Creates(m, accepted)) <= MaxXero
      /\ wire' \subseteq wire
      /\ faults' \in Nat
  BY DEF XeroApply, Fault, IInv, TypeOK
<1>2. xero' = [x \in Slots |-> IF x \in slots THEN Written(m, accepted, x)
                                              ELSE xero[x]]
  BY DEF XeroApply
<1>3. slots \subseteq Slots
  BY <1>1, SlotForType
<1>4. xero' \in [Slots -> XeroType]
  <2>1. ASSUME NEW x \in Slots
        PROVE  (IF x \in slots THEN Written(m, accepted, x) ELSE xero[x])
                 \in XeroType
    <3>1. CASE x \in slots
      BY <3>1, WrittenType
    <3>2. CASE x \notin slots
      BY <3>2 DEF IInv, TypeOK
    <3> QED
      BY <3>1, <3>2
  <2> HIDE DEF slots
  <2> QED
    BY <1>2, <2>1
<1>5. touched' \in [Workers -> SUBSET Slots]
  <2>1. touched' = [w \in Workers |-> IF "xero" \in job[w].seen
                                      THEN touched[w] \cup slots
                                      ELSE touched[w]]
    BY DEF XeroApply, Touch
  <2> HIDE DEF slots
  <2> QED
    BY <1>3, <2>1 DEF IInv, TypeOK
<1>6. replies' \subseteq ReplyType
  <2> DEFINE result == [d \in Docs |->
               IF d \in accepted
               THEN [slot |-> SlotFor(m, accepted, d),
                     stamp |-> xero'[SlotFor(m, accepted, d)].stamp]
               ELSE [slot |-> NoSlot, stamp |-> 0]]
  <2>1. replies' = replies \cup
                     {[run |-> m.run, docs |-> m.docs, result |-> result]}
    BY DEF XeroApply
  <2>2. ASSUME NEW d \in Docs
        PROVE  result[d] \in [slot: Slots \cup {NoSlot}, stamp: Nat]
    <3>1. CASE d \in accepted
      <4>1. SlotFor(m, accepted, d) \in Slots
        BY <1>1, <3>1, SlotForType
      <4>2. xero'[SlotFor(m, accepted, d)].stamp \in Nat
        BY <1>4, <4>1 DEF XeroType
      <4> QED
        BY <3>1, <4>1, <4>2
    <3>2. CASE d \notin accepted
      BY <3>2
    <3> QED
      BY <3>1, <3>2
  <2>3. result \in ResultType
    BY <2>2 DEF ResultType
  <2> HIDE DEF result
  <2>4. [run |-> m.run, docs |-> m.docs, result |-> result] \in ReplyType
    BY <2>3, RequestFacts DEF ReplyType
  <2> QED
    BY <2>1, <2>4 DEF IInv, TypeOK
<1>7. source' \in [Docs -> Nat] /\ edits' \in Nat
  BY <1>1 DEF IInv, TypeOK
<1> QED
  BY <1>1, <1>4, <1>5, <1>6, <1>7, OutsideFrame

\* Xero drops a request whose key it has seen.
LEMMA ReplayStep ==
    ASSUME IInv, NEW m \in wire, XeroReplay(m)
    PROVE  IInv'
<1>1. UNCHANGED <<source, xero, replies, run, item, mapping, pc, job, touched,
                  edits, faults>> /\ wire' \subseteq wire
  BY DEF XeroReplay
<1> QED
  BY <1>1, OutsideFrame DEF IInv, TypeOK

\* A change of Xero's documents by its users marks them touched.
LEMMA TouchType ==
    ASSUME IInv, NEW x \in Slots, Touch({x})
    PROVE  touched' \in [Workers -> SUBSET Slots]
  BY DEF IInv, TypeOK, Touch

\* An edit by a Xero user of an existing document.
LEMMA XeroUserChangeStep ==
    ASSUME IInv, NEW x \in Slots, NEW after \in XeroType,
           XeroUserChange(x, after)
    PROVE  IInv'
<1>1. /\ UNCHANGED <<source, wire, replies, run, item, mapping, pc, job, faults>>
      /\ xero' = [xero EXCEPT ![x] = after] /\ Touch({x}) /\ edits' = edits + 1
  BY DEF XeroUserChange, Edit
<1>2. xero' \in [Slots -> XeroType] /\ edits' \in Nat
  BY <1>1 DEF IInv, TypeOK
<1> QED
  BY <1>1, <1>2, TouchType, OutsideFrame DEF IInv, TypeOK

\* Steps of users of either system.
LEMMA UserSteps ==
    ASSUME IInv, UserStep
    PROVE  IInv'
<1>1. ASSUME NEW d \in Docs, SalesforceEdit(d)
      PROVE  IInv'
  <2>1. /\ source' = [source EXCEPT ![d] = source[d] + 1] /\ edits' = edits + 1
        /\ UNCHANGED <<xero, wire, replies, run, item, mapping, pc, job,
                       touched, faults>>
    BY <1>1 DEF SalesforceEdit, Edit
  <2>2. source' \in [Docs -> Nat] /\ edits' \in Nat
    BY <2>1 DEF IInv, TypeOK
  <2> QED
    BY <2>1, <2>2, OutsideFrame DEF IInv, TypeOK
<1>2. ASSUME NEW d \in Docs, XeroUserCreates(d)
      PROVE  IInv'
  <2> DEFINE x == Cardinality(Used) + 1
  <2>1. PICK content \in {Foreign, source[d]} :
          xero' = [xero EXCEPT ![x] =
                     [state |-> "mutable", src |-> d, made |-> d, by |-> NoRun,
                      content |-> content, stamp |-> 1]]
    BY <1>2 DEF XeroUserCreates
  <2>2. /\ UNCHANGED <<source, wire, replies, run, item, mapping, pc, job,
                       faults>>
        /\ edits' = edits + 1 /\ Touch({x}) /\ x <= MaxXero
    BY <1>2 DEF XeroUserCreates, Edit
  <2>3. Cardinality(Used) \in Nat
    <3>1. IsFiniteSet(1..MaxXero) /\ Used \subseteq 1..MaxXero
      BY ConstantsAssumption, FS_Interval DEF Used, Slots
    <3> QED
      BY <3>1, FS_Subset, FS_CardinalityType
  <2>4. x \in Slots
    BY <2>2, <2>3, ConstantsAssumption DEF Slots
  <2>5. [state |-> "mutable", src |-> d, made |-> d, by |-> NoRun,
         content |-> content, stamp |-> 1] \in XeroType
    BY DEF IInv, TypeOK, XeroType, Foreign
  <2> HIDE DEF x
  <2>6. xero' \in [Slots -> XeroType]
    BY <2>1, <2>5 DEF IInv, TypeOK
  <2>7. source' \in [Docs -> Nat] /\ edits' \in Nat /\ faults' \in Nat
        /\ replies' \subseteq ReplyType
    BY <2>2 DEF IInv, TypeOK
  <2> QED
    BY <2>2, <2>4, <2>6, <2>7, TouchType, OutsideFrame
<1>3. ASSUME NEW x \in Slots,
             XeroUserEdit(x) \/ XeroUserPays(x) \/ XeroUserVoids(x)
      PROVE  IInv'
  <2>1. xero[x] \in XeroType /\ xero[x].stamp + 1 \in Nat
    BY DEF IInv, TypeOK, XeroType
  <2>2. [xero[x] EXCEPT !.content = Foreign, !.stamp = xero[x].stamp + 1]
          \in XeroType
    BY Zenon, <2>1, XeroDocumentEdit
  <2>3. /\ [xero[x] EXCEPT !.state = "protected", !.stamp = xero[x].stamp + 1]
             \in XeroType
        /\ [xero[x] EXCEPT !.state = "void", !.stamp = xero[x].stamp + 1]
             \in XeroType
    BY Zenon, <2>1, XeroDocumentEdit
  <2> QED
    BY <1>3, <2>2, <2>3, XeroUserChangeStep
       DEF XeroUserEdit, XeroUserPays, XeroUserVoids
<1> QED
  BY <1>1, <1>2, <1>3 DEF UserStep

-----------------------------------------------------------------------------
(* The invariant *)

\* The initial state.
LEMMA InitInvariant == Init => IInv
<1> SUFFICES ASSUME Init PROVE IInv
  OBVIOUS
<1>1. xero \in [Slots -> XeroType]
  BY DEF Init, Absent, XeroType, Foreign
<1>2. item \in [Runs -> [Docs -> ItemType]]
  BY DEF Init, NoItem, ItemType, ItemStatuses, Actions, NoSlot
<1>3. run \in [Runs -> RunType]
  BY DEF Init, RunType, RunStatuses
<1>4. job \in [Workers -> JobType] /\ \A w \in Workers : job[w] = NoJob
  BY DEF Init, NoJob, JobType, NoReply, ResultType, NoSlot
<1>5. TypeOK
  BY <1>1, <1>2, <1>3, <1>4 DEF Init, TypeOK, Pcs, NoSlot
<1>6. RowsWellFormed
  BY DEF Init, RowsWellFormed, NoItem, Chosen, DoneStatuses, NoWriteActions
<1>7. FreshRuns
  BY <1>4, ConstantsAssumption DEF Init, FreshRuns, NoJob
<1>8. JobsWellFormed
  BY <1>4 DEF Init, JobsWellFormed, JobWellFormed, NoJob
<1> QED
  BY <1>5, <1>6, <1>7, <1>8 DEF IInv, Init, WireWellFormed

\* One case per group of steps.
LEMMA NextInvariant == IInv /\ [Next]_vars => IInv'
<1> SUFFICES ASSUME IInv, [Next]_vars PROVE IInv'
  OBVIOUS
<1>1. CASE \E w \in Workers : WorkerStep(w) \/ WorkerFault(w)
  BY <1>1, WorkerSteps
<1>2. CASE XeroStep
  BY <1>2, ApplyStep, ReplayStep DEF XeroStep
<1>3. CASE FinanceStep
  BY <1>3, PreviewStep, AuthoriseStep, RequestStep DEF FinanceStep
<1>4. CASE UserStep
  BY <1>4, UserSteps
<1>5. CASE UNCHANGED vars
  BY <1>5, OutsideFrame DEF vars, IInv, TypeOK
<1> QED
  BY <1>1, <1>2, <1>3, <1>4, <1>5 DEF Next

\* The inductive invariant: types, and what makes them inductive - a row that is
\* selected, pending, posted or in flight has an action and, unless it creates
\* its document, a target, so that every identity written is one Xero can hold.
THEOREM Invariance == Spec => []IInv
  BY InitInvariant, NextInvariant, PTL DEF Spec

\* Type correctness: whatever the failures, the retries and the interleaving,
\* every table, request and local variable keeps its type; in particular every
\* row the code sends to Xero, links or checkpoints names an existing action,
\* and a target where the action needs one.
THEOREM TypeCorrect == Spec => []TypeOK
<1>1. IInv => TypeOK
  BY DEF IInv
<1> QED
  BY <1>1, Invariance, PTL

-----------------------------------------------------------------------------
(* Ownership of a run *)

Working(p) == p \notin {"idle", "requested", "failing"}
Started(p) == p \notin {"idle", "requested"}

\* An invocation past its start holds the current revision of a processing
\* run, no revision is ahead of the run's, and no two started invocations of
\* a run hold the same one.
Ownership ==
    /\ \A w \in Workers : Working(pc[w]) => Owns(w)
    /\ \A w \in Workers : pc[w] # "idle" => job[w].rev <= run[job[w].run].rev
    /\ \A v, w \in Workers :
         (/\ v # w /\ Started(pc[v]) /\ Started(pc[w])
          /\ job[v].run = job[w].run) => job[v].rev # job[w].rev

\* What one step does to the run and the revision that an invocation holds.
SameClaim(v) == job'[v].run = job[v].run /\ job'[v].rev = job[v].rev

\* A step that leaves the runs and the claims alone, and moves no invocation
\* past its start.
LEMMA ClaimFrame ==
    ASSUME Ownership, UNCHANGED run,
           \A v \in Workers : \/ pc'[v] = "idle"
                              \/ /\ SameClaim(v) /\ pc[v] # "idle"
                                 /\ Started(pc'[v]) => Started(pc[v])
                                 /\ Working(pc'[v]) => Working(pc[v])
    PROVE  Ownership'
  BY DEF Ownership, SameClaim, Owns, Started, Working

\* The steps of w that neither request, start nor finish.
LEMMA InnerClaims ==
    ASSUME IInv, Ownership, NEW w \in Workers,
           \/ StartRefused(w) \/ LoadRows(w) \/ ReadSalesforce(w)
           \/ ReadXero(w) \/ AssertStillCurrent(w) \/ LinkRow(w)
           \/ PostBatch(w) \/ PostAnswered(w) \/ PostRejected(w)
           \/ SettleFailed(w) \/ UpsertMapping(w) \/ CheckpointRow(w)
           \/ LoadFails(w) \/ ReadFails(w) \/ PostFails(w)
           \/ ReserveReached(w) \/ RowWriteFails(w) \/ FinishFails(w)
           \/ Crash(w)
    PROVE  Ownership'
<1>1. job \in [Workers -> JobType] /\ pc \in [Workers -> Pcs]
  BY DEF IInv, TypeOK
<1>2. CASE StartRefused(w) \/ LoadFails(w) \/ Crash(w)
  <2>1. run' = run /\ pc' = [pc EXCEPT ![w] = "idle"]
        /\ \A v \in Workers \ {w} : job'[v] = job[v]
    BY <1>1, <1>2 DEF StartRefused, LoadFails, Crash, Return
  <2>2. \A v \in Workers : pc'[v] = IF v = w THEN "idle" ELSE pc[v]
    BY <1>1, <2>1
  <2>3. \A v \in Workers : pc[v] = "idle" => pc'[v] = "idle"
    BY <2>2
  <2> QED
    BY <2>1, <2>2, <2>3, ClaimFrame DEF SameClaim
<1>3. CASE ~(StartRefused(w) \/ LoadFails(w) \/ Crash(w))
  <2>1. run' = run
    BY <1>3 DEF LoadRows, ReadSalesforce, ReadXero, AssertStillCurrent,
       LinkRow, PostBatch, PostAnswered, PostRejected, SettleFailed,
       UpsertMapping, CheckpointRow, ReadFails, PostFails, ReserveReached,
       RowWriteFails, FinishFails
  <2>2. \A v \in Workers : SameClaim(v)
    <3>1. CASE job' = job
      BY <3>1 DEF SameClaim
    <3>2. CASE LoadRows(w)
      BY <1>1, <3>2 DEF LoadRows, SameClaim, JobType
    <3>3. CASE ReadSalesforce(w) \/ ReadXero(w)
      BY <1>1, <3>3 DEF ReadSalesforce, ReadXero, SameClaim, JobType
    <3>4. CASE LinkRow(w)
      BY <1>1, <3>4 DEF LinkRow, SameClaim, JobType
    <3>5. CASE PostBatch(w) \/ PostAnswered(w)
      BY <1>1, <3>5 DEF PostBatch, PostAnswered, SameClaim, JobType
    <3>6. CASE SettleFailed(w) \/ CheckpointRow(w)
      BY <1>1, <3>6 DEF SettleFailed, CheckpointRow, SameClaim, JobType
    <3> QED
      BY <1>3, <3>1, <3>2, <3>3, <3>4, <3>5, <3>6
         DEF AssertStillCurrent, PostRejected, UpsertMapping, ReadFails,
             PostFails, ReserveReached, RowWriteFails, FinishFails
  <2>3. PICK p : /\ pc' = [pc EXCEPT ![w] = p] \/ (pc' = pc /\ p = pc[w])
                 /\ Working(pc[w]) /\ p # "idle"
    BY <1>3 DEF LoadRows, ReadSalesforce, ReadXero, AssertStillCurrent,
       LinkRow, PostBatch, PostAnswered, PostRejected, SettleFailed,
       UpsertMapping, CheckpointRow, ReadFails, PostFails, ReserveReached,
       RowWriteFails, FinishFails, Goto, AfterRow, Working
  <2>4. \A v \in Workers : pc'[v] = pc[v] \/ v = w
    BY <1>1, <2>3
  <2>5. ASSUME NEW v \in Workers
        PROVE  \/ pc'[v] = "idle"
               \/ /\ SameClaim(v) /\ pc[v] # "idle"
                  /\ Started(pc'[v]) => Started(pc[v])
                  /\ Working(pc'[v]) => Working(pc[v])
    BY <2>2, <2>3, <2>4 DEF Working, Started
  <2> QED
    BY <2>1, <2>5, ClaimFrame
<1> QED
  BY <1>2, <1>3

\* Starting takes a revision that no other invocation of the run holds.
LEMMA StartClaims ==
    ASSUME IInv, Ownership, NEW w \in Workers, StartRun(w)
    PROVE  Ownership'
<1> DEFINE r == job[w].run
<1>1. /\ job \in [Workers -> JobType] /\ pc \in [Workers -> Pcs]
      /\ run \in [Runs -> RunType]
      /\ \A v \in Workers : pc[v] # "idle" =>
            job[v].run \in Runs /\ job[v].rev \in Nat
      /\ \A q \in Runs : run[q].rev \in Nat
  BY WorkerFacts DEF IInv, TypeOK, RunType, JobType, JobWellFormed
<1>2. /\ pc[w] = "requested" /\ r \in Runs
      /\ run[r].status # "processing"
      /\ run' = [run EXCEPT ![r] = [status |-> "processing",
                                    rev |-> run[r].rev + 1]]
      /\ job' = [job EXCEPT ![w].rev = run[r].rev + 1]
      /\ pc' = [pc EXCEPT ![w] = "started"]
  BY <1>1 DEF StartRun, MayStart, Goto
<1>3. /\ job'[w].run = r /\ job'[w].rev = run[r].rev + 1 /\ pc'[w] = "started"
      /\ run'[r].rev = run[r].rev + 1 /\ run'[r].status = "processing"
  BY <1>1, <1>2 DEF JobType
<1>4. \A v \in Workers \ {w} : job'[v] = job[v] /\ pc'[v] = pc[v]
  BY <1>1, <1>2
<1>5. \A q \in Runs \ {r} : run'[q] = run[q]
  BY <1>1, <1>2
<1>6. ASSUME NEW v \in Workers \ {w}, Working(pc[v])
      PROVE  job[v].run # r
  BY <1>2, <1>6 DEF Ownership, Owns
<1>7. ASSUME NEW v \in Workers, Working(pc'[v])
      PROVE  Owns(v)'
  <2>1. CASE v = w
    BY <1>3, <2>1 DEF Owns
  <2>2. CASE v # w
    <3>1. job[v].run \in Runs \ {r} /\ Owns(v)
      BY <1>1, <1>4, <1>6, <1>7, <2>2 DEF Working, Ownership
    <3> QED
      BY <1>4, <1>5, <2>2, <3>1 DEF Owns
  <2> QED
    BY <2>1, <2>2
<1>8. ASSUME NEW v \in Workers, pc'[v] # "idle"
      PROVE  job'[v].rev <= run'[job'[v].run].rev
  <2>1. CASE v = w
    BY <1>1, <1>2, <1>3, <2>1
  <2>2. CASE v # w
    <3>1. job[v].run \in Runs /\ job[v].rev \in Nat
          /\ job[v].rev <= run[job[v].run].rev
      BY <1>1, <1>4, <1>8, <2>2 DEF Ownership
    <3>2. CASE job[v].run = r
      BY <1>1, <1>2, <1>3, <1>4, <2>2, <3>1, <3>2
    <3>3. CASE job[v].run # r
      BY <1>4, <1>5, <2>2, <3>1, <3>3
    <3> QED
      BY <3>2, <3>3
  <2> QED
    BY <2>1, <2>2
<1>9. ASSUME NEW v \in Workers \ {w}, Started(pc'[v]), job'[v].run = r
      PROVE  job'[v].rev # job'[w].rev
  <2>1. job[v].rev \in Nat /\ job[v].rev <= run[r].rev /\ run[r].rev \in Nat
    BY <1>1, <1>2, <1>4, <1>9 DEF Ownership, Started
  <2> QED
    BY <1>3, <1>4, <2>1
<1>10. ASSUME NEW u \in Workers, NEW v \in Workers, u # v,
              Started(pc'[u]), Started(pc'[v]), job'[u].run = job'[v].run
       PROVE  job'[u].rev # job'[v].rev
  <2>1. CASE u = w
    BY <1>3, <1>9, <1>10, <2>1
  <2>2. CASE v = w
    BY <1>3, <1>9, <1>10, <2>2
  <2>3. CASE u # w /\ v # w
    BY <1>4, <1>10, <2>3 DEF Ownership
  <2> QED
    BY <2>1, <2>2, <2>3
<1> QED
  BY <1>7, <1>8, <1>10 DEF Ownership

\* Finishing gives the revision up, and nobody else holds it.
LEMMA FinishClaims ==
    ASSUME IInv, Ownership, NEW w \in Workers, FinishRun(w) \/ FailRun(w)
    PROVE  Ownership'
<1> DEFINE r == job[w].run
<1>1. /\ job \in [Workers -> JobType] /\ pc \in [Workers -> Pcs]
      /\ run \in [Runs -> RunType]
      /\ \A v \in Workers : pc[v] # "idle" =>
            job[v].run \in Runs /\ job[v].rev \in Nat
      /\ \A q \in Runs : run[q].rev \in Nat
  BY WorkerFacts DEF IInv, TypeOK, RunType, JobType, JobWellFormed
<1>2. /\ Started(pc[w])
      /\ \A v \in Workers \ {w} : job'[v] = job[v] /\ pc'[v] = pc[v]
      /\ \/ pc'[w] = "idle"
         \/ pc'[w] = "failing" /\ job'[w] = job[w]
  BY <1>1 DEF FinishRun, FailRun, Return, Goto, Started
<1>3. CASE run' = run
  <2>1. \A v \in Workers : \/ pc'[v] = "idle"
                           \/ /\ SameClaim(v) /\ pc[v] # "idle"
                              /\ Started(pc'[v]) => Started(pc[v])
                              /\ Working(pc'[v]) => Working(pc[v])
    BY <1>2 DEF SameClaim, Working, Started
  <2> QED
    BY <1>3, <2>1, ClaimFrame
<1>4. CASE run' # run
  <2>1. PICK status : /\ Owns(w)
                      /\ run' = [run EXCEPT ![r] = [status |-> status,
                                                    rev |-> run[r].rev + 1]]
    BY <1>4 DEF FinishRun, FailRun, FinishedRun
  <2>2. r \in Runs /\ job[w].rev = run[r].rev
    BY <1>1, <1>2, <2>1 DEF Started, Owns
  <2>3. run'[r].rev = run[r].rev + 1 /\ \A q \in Runs \ {r} : run'[q] = run[q]
    BY <1>1, <2>1, <2>2
  <2>4. ASSUME NEW v \in Workers, Working(pc'[v])
        PROVE  Owns(v)'
    <3>1. v # w /\ Working(pc[v]) /\ Owns(v) /\ job[v].run \in Runs
      BY <1>1, <1>2, <2>4 DEF Working, Ownership
    <3>2. job[v].run # r
      BY <1>2, <2>2, <3>1 DEF Ownership, Owns, Working, Started
    <3> QED
      BY <1>2, <2>3, <3>1, <3>2 DEF Owns
  <2>5. ASSUME NEW v \in Workers, pc'[v] # "idle"
        PROVE  job'[v].rev <= run'[job'[v].run].rev
    <3>1. job'[v] = job[v] /\ pc[v] # "idle"
      BY <1>2, <2>5 DEF Started
    <3>2. job[v].run \in Runs /\ job[v].rev \in Nat
          /\ job[v].rev <= run[job[v].run].rev
      BY <1>1, <3>1 DEF Ownership
    <3>3. CASE job[v].run = r
      BY <1>1, <2>2, <2>3, <3>1, <3>2, <3>3
    <3>4. CASE job[v].run # r
      BY <2>3, <3>1, <3>2, <3>4
    <3> QED
      BY <3>3, <3>4
  <2>6. ASSUME NEW u \in Workers, NEW v \in Workers, u # v,
               Started(pc'[u]), Started(pc'[v]), job'[u].run = job'[v].run
        PROVE  job'[u].rev # job'[v].rev
    <3>1. \A x \in {u, v} : job'[x] = job[x] /\ Started(pc[x])
      BY <1>2, <2>6 DEF Started
    <3> QED
      BY <2>6, <3>1 DEF Ownership
  <2> QED
    BY <2>4, <2>5, <2>6 DEF Ownership
<1> QED
  BY <1>3, <1>4

\* Finance changes only runs that nobody is past the start of.
LEMMA FinanceClaims ==
    ASSUME IInv, Ownership, FinanceStep
    PROVE  Ownership'
<1>1. /\ job \in [Workers -> JobType] /\ pc \in [Workers -> Pcs]
      /\ run \in [Runs -> RunType]
      /\ \A v \in Workers : pc[v] # "idle" =>
            job[v].run \in Runs /\ job[v].rev \in Nat
      /\ \A q \in Runs : run[q].rev \in Nat
  BY WorkerFacts DEF IInv, TypeOK, RunType, JobType, JobWellFormed
<1>2. ASSUME NEW r \in Runs,
             Preview(r) \/ \E selection \in SUBSET Docs : Authorise(r, selection)
      PROVE  Ownership'
  <2>1. PICK n \in Nat, status \in RunStatuses :
          /\ run' = [run EXCEPT ![r] = [status |-> status, rev |-> n]]
          /\ UNCHANGED <<pc, job>>
          /\ run[r].status # "processing"
          /\ \/ run[r].rev <= n
             \/ run[r].status = "none"
    <3>1. CASE Preview(r)
      <4>1. run' = [run EXCEPT ![r] = [status |-> "ready_for_review", rev |-> 1]]
            /\ run[r].status = "none" /\ UNCHANGED <<pc, job>>
        BY <3>1 DEF Preview
      <4>2. "ready_for_review" \in RunStatuses /\ 1 \in Nat
        BY DEF RunStatuses
      <4> QED
        BY <4>1, <4>2
    <3>2. CASE \E selection \in SUBSET Docs : Authorise(r, selection)
      <4>1. PICK n \in Nat : n = run[r].rev + 1
        BY <1>1
      <4>2. run' = [run EXCEPT ![r] = [status |-> "authorised", rev |-> n]]
            /\ run[r].status = "ready_for_review" /\ UNCHANGED <<pc, job>>
        BY <3>2, <4>1 DEF Authorise
      <4>3. run[r].rev <= n
        BY <1>1, <4>1
      <4>4. "authorised" \in RunStatuses
        BY DEF RunStatuses
      <4> QED
        BY <4>2, <4>3, <4>4
    <3> QED
      BY <1>2, <3>1, <3>2
  <2>2. \A w \in Workers : pc[w] # "idle" => run[job[w].run].status # "none"
    BY <1>1, WorkerFacts
  <2>3. run'[r].rev = n /\ \A q \in Runs \ {r} : run'[q] = run[q]
    BY <1>1, <2>1
  <2>4. ASSUME NEW w \in Workers, Working(pc[w])
        PROVE  Owns(w)'
    <3>1. Owns(w) /\ job[w].run \in Runs /\ job[w].run # r
      BY <1>1, <2>1, <2>4 DEF Ownership, Owns, Working
    <3> QED
      BY <2>1, <2>3, <3>1 DEF Owns
  <2>5. ASSUME NEW w \in Workers, pc[w] # "idle"
        PROVE  job[w].rev <= run'[job[w].run].rev
    <3>1. job[w].run \in Runs /\ job[w].rev <= run[job[w].run].rev
          /\ job[w].rev \in Nat
      BY <1>1, <2>5 DEF Ownership
    <3>2. CASE job[w].run = r
      <4>1. run[r].rev <= n /\ run[r].rev \in Nat
        BY <1>1, <2>1, <2>2, <2>5, <3>2
      <4> QED
        BY <2>3, <3>1, <3>2, <4>1
    <3>3. CASE job[w].run # r
      BY <2>3, <3>1, <3>3
    <3> QED
      BY <3>2, <3>3
  <2> QED
    BY <2>1, <2>4, <2>5 DEF Ownership
<1>3. ASSUME NEW w \in Workers, NEW r \in Runs, RequestRun(w, r)
      PROVE  Ownership'
  <2>1. /\ run' = run /\ pc' = [pc EXCEPT ![w] = "requested"]
        /\ job' = [job EXCEPT ![w] = [NoJob EXCEPT !.run = r,
                                                   !.rev = run[r].rev]]
    BY <1>3 DEF RequestRun, Goto
  <2>2. pc'[w] = "requested"
        /\ \A v \in Workers \ {w} : pc'[v] = pc[v] /\ job'[v] = job[v]
    BY <1>1, <2>1
  <2>3. job'[w].rev = run[r].rev /\ job'[w].run = r
    BY <1>1, <2>1 DEF NoJob
  <2> QED
    BY <1>1, <2>1, <2>2, <2>3 DEF Ownership, Owns, Working, Started
<1> QED
  BY <1>2, <1>3 DEF FinanceStep

\* One case per group of steps.
LEMMA OwnershipStep == IInv /\ Ownership /\ [Next]_vars => Ownership'
<1> SUFFICES ASSUME IInv, Ownership, [Next]_vars PROVE Ownership'
  OBVIOUS
<1>1. CASE \E w \in Workers : WorkerStep(w) \/ WorkerFault(w)
  BY <1>1, InnerClaims, StartClaims, FinishClaims DEF WorkerStep, WorkerFault
<1>2. CASE FinanceStep
  BY <1>2, FinanceClaims
<1>3. CASE XeroStep \/ UserStep \/ UNCHANGED vars
  <2>1. UNCHANGED <<run, pc, job>>
    BY <1>3 DEF XeroStep, UserStep, vars, XeroApply, XeroReplay,
       SalesforceEdit, XeroUserCreates, XeroUserEdit, XeroUserPays,
       XeroUserVoids, XeroUserChange
  <2> QED
    BY <2>1 DEF Ownership, Owns, Working, Started
<1> QED
  BY <1>1, <1>2, <1>3 DEF Next

\* Mutual exclusion: past the start, only one invocation works on a run, on
\* the revision it started (start_xero_financial_sync_run_v1 and
\* finish_xero_financial_sync_run_v1), however many callers, crashes and
\* retries there are.
THEOREM MutualExclusion == Spec => []SingleWriter
<1>1. Init => Ownership
  BY DEF Init, Ownership, Working, Started
<1>2. Ownership => SingleWriter
  BY DEF Ownership, SingleWriter, Owns, Working, Started
<1> QED
  BY <1>1, <1>2, OwnershipStep, Invariance, PTL DEF Spec

-----------------------------------------------------------------------------
(* Durable identities *)

\* A row that is about to be checkpointed has its mapping.
Identified ==
    /\ CheckpointHasIdentity
    /\ \A w \in Workers : pc[w] = "marking" => mapping[Current(w)] # NoSlot

\* A step that marks no row, loses no mapping and brings no invocation to a
\* checkpoint.
LEMMA IdentityFrame ==
    ASSUME IInv, Identified,
           \A d \in Docs : mapping[d] # NoSlot => mapping'[d] # NoSlot,
           \A r \in Runs, d \in Docs :
             item'[r][d].status \in DoneStatuses =>
               item[r][d].status \in DoneStatuses \/ mapping'[d] # NoSlot,
           \A w \in Workers : pc'[w] = "marking" =>
             \/ pc[w] = "marking" /\ job'[w] = job[w]
             \/ mapping'[Min(job'[w].batch)] # NoSlot
    PROVE  Identified'
<1>1. CheckpointHasIdentity'
  BY DEF Identified, CheckpointHasIdentity
<1>2. ASSUME NEW w \in Workers, pc'[w] = "marking"
      PROVE  mapping'[Min(job'[w].batch)] # NoSlot
  <2>1. CASE pc[w] = "marking" /\ job'[w] = job[w]
    <3>1. Current(w) \in Docs
      <4>1. job[w].batch \in SUBSET Docs /\ job[w].batch # {}
        BY <2>1, WorkerFacts DEF JobType, JobWellFormed
      <4> QED
        BY <4>1, MinInSet DEF Current
    <3> QED
      BY <2>1, <3>1 DEF Identified, Current
  <2> QED
    BY <1>2, <2>1
<1> QED
  BY <1>1, <1>2 DEF Identified, Current

\* The steps that settle nothing.
LEMMA IdentityOfInnerSteps ==
    ASSUME IInv, Identified, NEW w \in Workers,
           \/ StartRun(w) \/ StartRefused(w) \/ LoadRows(w) \/ ReadSalesforce(w)
           \/ ReadXero(w) \/ AssertStillCurrent(w) \/ LinkRow(w)
           \/ PostBatch(w) \/ PostAnswered(w) \/ PostRejected(w)
           \/ FinishRun(w) \/ FailRun(w)
           \/ LoadFails(w) \/ ReadFails(w) \/ PostFails(w)
           \/ ReserveReached(w) \/ RowWriteFails(w) \/ FinishFails(w)
           \/ Crash(w)
    PROVE  Identified'
<1>1. UNCHANGED <<item, mapping>>
  BY DEF StartRun, StartRefused, LoadRows, ReadSalesforce, ReadXero,
     AssertStillCurrent, LinkRow, PostBatch, PostAnswered, PostRejected,
     FinishRun, FailRun, LoadFails, ReadFails, PostFails, ReserveReached,
     RowWriteFails, FinishFails, Crash
<1>2. pc \in [Workers -> Pcs] /\ job \in [Workers -> JobType]
  BY DEF IInv, TypeOK
<1>3. \A v \in Workers \ {w} : pc'[v] = pc[v] /\ job'[v] = job[v]
  BY <1>2 DEF StartRun, StartRefused, LoadRows, ReadSalesforce, ReadXero,
     AssertStillCurrent, LinkRow, PostBatch, PostAnswered, PostRejected,
     FinishRun, FailRun, LoadFails, ReadFails, PostFails, ReserveReached,
     RowWriteFails, FinishFails, Crash, Goto, Return
<1>4. pc'[w] = "marking" => pc[w] = "marking" /\ job' = job
  BY <1>2 DEF StartRun, StartRefused, LoadRows, ReadSalesforce, ReadXero,
     AssertStillCurrent, LinkRow, PostBatch, PostAnswered, PostRejected,
     FinishRun, FailRun, LoadFails, ReadFails, PostFails, ReserveReached,
     RowWriteFails, FinishFails, Crash, Goto, Return
<1> QED
  BY <1>1, <1>3, <1>4, IdentityFrame

\* The steps that settle a row.
LEMMA IdentityOfSettling ==
    ASSUME IInv, Identified, NEW w \in Workers,
           SettleFailed(w) \/ UpsertMapping(w) \/ CheckpointRow(w)
    PROVE  Identified'
<1>1. /\ pc \in [Workers -> Pcs] /\ job \in [Workers -> JobType]
      /\ mapping \in [Docs -> Slots \cup {NoSlot}]
      /\ item \in [Runs -> [Docs -> ItemType]]
  BY DEF IInv, TypeOK
<1>2. /\ job[w].run \in Runs /\ Current(w) \in Docs
  <2>1. job[w].batch \in SUBSET Docs /\ job[w].batch # {} /\ job[w].run \in Runs
    BY WorkerFacts DEF SettleFailed, UpsertMapping, CheckpointRow, JobType,
       JobWellFormed
  <2> QED
    BY <2>1, MinInSet DEF Current
<1>3. \A v \in Workers \ {w} : pc'[v] = pc[v] /\ job'[v] = job[v]
  BY <1>1 DEF SettleFailed, UpsertMapping, CheckpointRow, Goto
<1>4. CASE SettleFailed(w)
  <2>1. mapping' = mapping /\ pc'[w] # "marking"
    BY <1>1, <1>4 DEF SettleFailed, Goto, AfterRow
  <2>2. \/ item' = item
        \/ item' = [item EXCEPT ![job[w].run] =
                      [item[job[w].run] EXCEPT ![Current(w)] =
                         [item[job[w].run][Current(w)] EXCEPT !.status = "failed"]]]
    BY <1>4 DEF SettleFailed
  <2>3. \A r \in Runs, d \in Docs : item'[r][d].status \in DoneStatuses =>
            item[r][d].status \in DoneStatuses
    <3>1. CASE item' = item
      BY <3>1
    <3>2. CASE item' # item
      <4>1. PICK row : row = [item[job[w].run][Current(w)] EXCEPT !.status = "failed"]
        OBVIOUS
      <4>2. row.status = "failed"
        BY <1>1, <1>2, <4>1 DEF ItemType
      <4>3. \A r \in Runs, d \in Docs :
              item'[r][d] = IF r = job[w].run /\ d = Current(w)
                            THEN row ELSE item[r][d]
        BY <1>1, <1>2, <2>2, <3>2, <4>1
      <4> QED
        BY <4>2, <4>3 DEF DoneStatuses
    <3> QED
      BY <3>1, <3>2
  <2> QED
    BY <1>3, <2>1, <2>3, IdentityFrame
<1>5. CASE UpsertMapping(w)
  <2>1. /\ UNCHANGED <<item, job>> /\ Result(w).slot # NoSlot
        /\ \/ mapping' = mapping /\ pc'[w] = "failing"
           \/ mapping' = [mapping EXCEPT ![Current(w)] = Result(w).slot]
    BY <1>1, <1>5 DEF UpsertMapping, Goto
  <2>2. \A d \in Docs : mapping[d] # NoSlot => mapping'[d] # NoSlot
    BY <1>1, <1>2, <2>1
  <2>3. pc'[w] = "marking" => mapping'[Current(w)] # NoSlot
    BY <1>1, <1>2, <2>1
  <2>4. Min(job'[w].batch) = Current(w)
    BY <2>1 DEF Current
  <2> QED
    BY <1>3, <2>1, <2>2, <2>3, <2>4, IdentityFrame
<1>6. CASE CheckpointRow(w)
  <2>1. mapping' = mapping /\ pc'[w] # "marking" /\ mapping[Current(w)] # NoSlot
    BY <1>1, <1>6 DEF CheckpointRow, Goto, AfterRow, Identified
  <2>2. PICK row : \/ item' = item
                   \/ item' = [item EXCEPT ![job[w].run] =
                        [item[job[w].run] EXCEPT ![Current(w)] = row]]
    BY <1>6 DEF CheckpointRow
  <2>3. \A r \in Runs, d \in Docs :
          item'[r][d] = item[r][d] \/ d = Current(w)
    BY <1>1, <1>2, <2>2
  <2> QED
    BY <1>3, <2>1, <2>3, IdentityFrame
<1> QED
  BY <1>4, <1>5, <1>6

\* One case per group of steps.
LEMMA IdentityStep == IInv /\ Identified /\ [Next]_vars => Identified'
<1> SUFFICES ASSUME IInv, Identified, [Next]_vars PROVE Identified'
  OBVIOUS
<1>1. CASE \E w \in Workers : WorkerStep(w) \/ WorkerFault(w)
  BY <1>1, IdentityOfInnerSteps, IdentityOfSettling DEF WorkerStep, WorkerFault
<1>2. CASE FinanceStep
  <2>1. ASSUME NEW r \in Runs, Preview(r)
        PROVE  Identified'
    <3>1. PICK blockers : item' = [item EXCEPT ![r] =
                                     [d \in Docs |-> Classify(d, blockers)]]
      BY <2>1 DEF Preview
    <3>2. UNCHANGED <<mapping, pc, job>>
      BY <2>1 DEF Preview
    <3>3. \A q \in Runs, d \in Docs :
            item'[q][d] = item[q][d] \/ item'[q][d] = Classify(d, blockers)
      BY <3>1 DEF IInv, TypeOK
    <3>4. \A d \in Docs : Classify(d, blockers).status \notin DoneStatuses
      BY ClassifyType DEF IInv, DoneStatuses
    <3> QED
      BY <3>2, <3>3, <3>4, IdentityFrame
  <2>2. ASSUME NEW r \in Runs, NEW selection \in SUBSET Docs,
               Authorise(r, selection)
        PROVE  Identified'
    <3>1. /\ UNCHANGED <<mapping, pc, job>>
          /\ item' = [item EXCEPT ![r] = [d \in Docs |->
                    IF d \in selection
                    THEN [item[r][d] EXCEPT !.status = "selected",
                                            !.selected = TRUE]
                    ELSE item[r][d]]]
      BY <2>2 DEF Authorise
    <3>2. item \in [Runs -> [Docs -> ItemType]]
      BY DEF IInv, TypeOK
    <3>3. ASSUME NEW q \in Runs, NEW d \in Docs
          PROVE  item'[q][d] = item[q][d] \/ item'[q][d].status = "selected"
      <4>1. CASE q = r /\ d \in selection
        <5>1. item'[q][d] = [item[r][d] EXCEPT !.status = "selected",
                                               !.selected = TRUE]
          BY <3>1, <3>2, <4>1
        <5>2. item[r][d] \in ItemType
          BY <3>2, <4>1
        <5> QED
          BY <5>1, <5>2 DEF ItemType
      <4>2. CASE ~(q = r /\ d \in selection)
        BY <3>1, <3>2, <4>2
      <4> QED
        BY <4>1, <4>2
    <3> QED
      BY <3>1, <3>3, IdentityFrame DEF DoneStatuses
  <2>3. ASSUME NEW w \in Workers, NEW r \in Runs, RequestRun(w, r)
        PROVE  Identified'
    <3>1. /\ UNCHANGED <<item, mapping>> /\ pc' = [pc EXCEPT ![w] = "requested"]
          /\ \A v \in Workers \ {w} : job'[v] = job[v]
      BY <2>3 DEF RequestRun, Goto, IInv, TypeOK
    <3>2. \A v \in Workers : pc'[v] = IF v = w THEN "requested" ELSE pc[v]
      BY <3>1 DEF IInv, TypeOK
    <3> QED
      BY <3>1, <3>2, IdentityFrame
  <2> QED
    BY <1>2, <2>1, <2>2, <2>3 DEF FinanceStep
<1>3. CASE XeroStep \/ UserStep \/ UNCHANGED vars
  <2>1. UNCHANGED <<item, mapping, pc, job>>
    BY <1>3 DEF XeroStep, UserStep, vars, XeroApply, XeroReplay,
       SalesforceEdit, XeroUserCreates, XeroUserEdit, XeroUserPays,
       XeroUserVoids, XeroUserChange
  <2> QED
    BY <2>1, IdentityFrame
<1> QED
  BY <1>1, <1>2, <1>3 DEF Next

\* Durable identities: in whatever order invocations, failures and crashes
\* fall, a row is checkpointed only once its document is mapped
\* (upsertDocumentMapping before the update of the item), and the mapping is
\* never lost.
THEOREM DurableIdentity == Spec => []CheckpointHasIdentity
<1>1. Init => Identified
  BY DEF Init, Identified, CheckpointHasIdentity, NoItem, DoneStatuses
<1>2. Identified => CheckpointHasIdentity
  BY DEF Identified
<1> QED
  BY <1>1, <1>2, IdentityStep, Invariance, PTL DEF Spec

=============================================================================
