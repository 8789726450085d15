------------------------- MODULE RapidReleaseProofs -------------------------
(***************************************************************************)
(* Theorems about RapidRelease, for every set of releases and any number   *)
(* of jobs, deployments by other means and failures.                       *)
(***************************************************************************)
EXTENDS RapidRelease, FiniteSetTheorems, TLAPS

Acceptance(r) == {Result("stage"), AcceptanceEvent(r)}
PrerequisiteEvents == {Result("prerequisites"), "prerequisites.smoke_passed"}

\* What the journal of a release holds before it is promoted.
Admission(r) ==
    Acceptance(r) \cup {"approval.accepted"}
      \cup (IF r \in Gated THEN PrerequisiteEvents ELSE {})

Admitted(d) == d \in Releases => Admission(d) \subseteq Recorded(d)

\* The result of the prerequisites precedes the statement that they passed.
ResultBeforePassed(r) ==
    ("prerequisites.passed" \in Recorded(r) \/
       \E x \in RecordType : <<r, x>> \in posting /\ x.event = "prerequisites.passed")
    => Result("prerequisites") \in Recorded(r)

JournalsWellFormed ==
    \A r \in Releases : IsFiniteSet(journal[r]) /\ ResultBeforePassed(r)

\* A call is made once, after its intent is recorded.
CallsCounted ==
    \A r \in Releases, p \in Phases :
      /\ submitted[r][p] <= 1
      /\ submitted[r][p] > 0 => Intent(p) \in Recorded(r)

\* A call that may still be applied comes from an admitted release.
CallsAdmitted ==
    \A r \in Releases :
      /\ <<r, "promote">> \in calls => Admitted(r)
      /\ <<r, "rollback">> \in calls => previous[r] # NoDeployment

\* What is or was in production is admitted.
LiveAdmitted == Admitted(production) /\ \A r \in Releases : Admitted(previous[r])

World == /\ JournalsWellFormed /\ CallsCounted /\ CallsAdmitted /\ LiveAdmitted
         /\ OneInDoubt

\* Where a job is, or will be once its record is written, and what its
\* release's journal then holds.
Where(j) == IF j.at = "append" THEN j.next ELSE j.at
Known(j) == Recorded(j.rel) \cup (IF j.at = "append" THEN {j.event} ELSE {})

Approving == {"prerequisites", "adapter", "passed", "recheck", "baseline"}

JobWellFormed(j) ==
    j.at # "idle" =>
      /\ j.rel \in Releases /\ previous[j.rel] # NoDeployment
      /\ j.seen \subseteq Recorded(j.rel)
      /\ j.at = "append" =>
           /\ j.next # "append"
           /\ j.event = "prerequisites.passed" =>
                Result("prerequisites") \in Recorded(j.rel)
      /\ Where(j) = "check" => j.op # "rollback"
      /\ Where(j) \in {"stage", "build"} => j.op = "stage"
      /\ Where(j) \in {"approve"} \cup Approving => Acceptance(j.rel) \subseteq Known(j)
      /\ Where(j) \in Approving => "approval.accepted" \in Known(j)
      /\ Where(j) \in {"passed", "recheck"} => Result("prerequisites") \in Known(j)
      /\ Where(j) = "baseline" /\ j.rel \in Gated =>
           PrerequisiteEvents \subseteq Known(j)
      /\ Where(j) \in {"begin", "submit"} /\ j.op = "promote" =>
           Admission(j.rel) \subseteq Known(j)
      /\ Where(j) = "submit" =>
           /\ Intent(j.op) \in Known(j) /\ submitted[j.rel][j.op] = 0
           /\ \A s \in Releases \ {j.rel} : ~InDoubt(s)

IInv == TypeOK /\ World /\ JobWellFormed(job)


-----------------------------------------------------------------------------
(* Facts about the operators *)

\* An event that JobWellFormed does not single out.
Plain(e) == e \in Events /\ e # "prerequisites.passed"

\* Intents and results are events of the journal.
LEMMA OperationEvents ==
    /\ \A p \in Operations : Plain(Intent(p)) /\ Plain(Result(p))
    /\ \A p \in Phases : Intent(p) # "prerequisites.passed"
    /\ Phases \subseteq Operations
    /\ Plain("release.prepared") /\ Plain("build.passed") /\ Plain("release.waiting")
    /\ Plain("release.complete") /\ Plain("obstacle.detected")
    /\ Plain("approval.accepted") /\ Plain("live.passed")
    /\ Plain("prerequisites.smoke_passed") /\ "prerequisites.passed" \in Events
    /\ \A r : Plain(AcceptanceEvent(r))
<1>1. \A p \in Operations : Intent(p) \in Events /\ Result(p) \in Events
  BY DEF Events
<1>2. \A p \in Operations : /\ Intent(p) # "prerequisites.passed"
                            /\ Result(p) # "prerequisites.passed"
  BY DEF Operations, Phases, Intent, Result, IntentOf, ResultOf
<1> QED
  BY <1>1, <1>2 DEF Plain, Operations, Events, Evidence, AcceptanceEvent

\* A record is added to one journal.
LEMMA RecordAdded ==
    ASSUME TypeOK, NEW r \in Releases, NEW x \in RecordType, AddRecord(r, x)
    PROVE  /\ journal' \in [Releases -> SUBSET RecordType]
           /\ \A s \in Releases : Recorded(s) \subseteq Recorded(s)'
           /\ \A s \in Releases : s # r => journal'[s] = journal[s]
           /\ journal'[r] = journal[r] \cup {x}
           /\ Recorded(r)' = Recorded(r) \cup {x.event}
<1>1. journal'[r] = journal[r] \cup {x} /\ \A s \in Releases : s # r => journal'[s] = journal[s]
  BY DEF TypeOK, AddRecord
<1>2. journal' \in [Releases -> SUBSET RecordType]
  BY DEF TypeOK, AddRecord
<1>3. Recorded(r)' = Recorded(r) \cup {x.event}
  BY <1>1 DEF Recorded
<1>4. \A s \in Releases : Recorded(s) \subseteq Recorded(s)'
  BY <1>1 DEF Recorded
<1> QED
  BY <1>1, <1>2, <1>3, <1>4

\* The record append writes.
LEMMA NextRecordType ==
    ASSUME TypeOK, JournalsWellFormed, Rel \in Releases
    PROVE  NextRecord \in RecordType /\ NextRecord.event = job.event
<1>1. Cardinality(journal[Rel]) \in Nat
  BY FS_CardinalityType DEF JournalsWellFormed
<1>2. job.event \in Events /\ jobs \in Nat
  BY DEF TypeOK, JobType
<1> QED
  BY <1>1, <1>2 DEF NextRecord, RecordType

-----------------------------------------------------------------------------
(* Frames *)

\* When journals only grow, no baseline changes and no call is made, what was
\* known to a job remains.
LEMMA JobStays ==
    ASSUME NEW j \in JobType, JobWellFormed(j),
           \A s \in Releases : Recorded(s) \subseteq Recorded(s)',
           \A s \in Releases : previous[s] # NoDeployment => previous'[s] # NoDeployment,
           UNCHANGED submitted
    PROVE  JobWellFormed(j)'
<1> SUFFICES ASSUME j.at # "idle" PROVE JobWellFormed(j)'
  BY DEF JobWellFormed
<1>1. j.rel \in Releases
  BY DEF JobWellFormed
<1>2. Recorded(j.rel) \subseteq Recorded(j.rel)' /\ Known(j) \subseteq Known(j)'
  BY <1>1 DEF Known
<1>3. \A s \in Releases : ~InDoubt(s) => ~InDoubt(s)'
  BY DEF InDoubt
<1>4. Acceptance(j.rel)' = Acceptance(j.rel) /\ Admission(j.rel)' = Admission(j.rel)
  BY DEF Acceptance, Admission, AcceptanceEvent
<1>5. Where(j)' = Where(j)
  BY DEF Where
<1> QED
  BY <1>1, <1>2, <1>3, <1>4, <1>5 DEF JobWellFormed

\* A step that only moves the job on.
LEMMA JobFrame ==
    ASSUME IInv, NEW j \in JobType, job' = j, JobWellFormed(j),
           UNCHANGED <<previous, github, vercel, submitted>>,
           jobs' \in Nat, outside' \in Nat, faults' \in Nat
    PROVE  IInv'
<1> USE DEF github, vercel
<1>1. TypeOK'
  BY DEF IInv, TypeOK
<1>2. \A s \in Releases : Recorded(s)' = Recorded(s)
  BY DEF Recorded
<1>3. World'
  <2>1. \A s \in Releases : InDoubt(s)' <=> InDoubt(s)
    BY <1>2 DEF InDoubt
  <2>2. OneInDoubt'
    BY <2>1 DEF IInv, World, OneInDoubt
  <2>3. LiveAdmitted' /\ CallsAdmitted' /\ CallsCounted'
    BY <1>2 DEF IInv, World, LiveAdmitted, CallsAdmitted, CallsCounted, Admitted,
                Admission, Acceptance, AcceptanceEvent
  <2>4. JournalsWellFormed'
    BY <1>2 DEF IInv, World, JournalsWellFormed, ResultBeforePassed
  <2> QED
    BY <2>2, <2>3, <2>4 DEF World
<1>4. JobWellFormed(j)'
  BY <1>2, JobStays DEF IInv
<1> QED
  BY <1>1, <1>3, <1>4 DEF IInv

\* A record is added; what the journals and calls promise remains.
LEMMA WorldGrows ==
    ASSUME IInv, NEW r \in Releases, NEW x \in RecordType, AddRecord(r, x),
           UNCHANGED <<previous, vercel, submitted>>,
           posting' \subseteq posting,
           x.event = "prerequisites.passed" =>
             Result("prerequisites") \in Recorded(r)
    PROVE  /\ World' /\ journal' \in [Releases -> SUBSET RecordType]
           /\ Recorded(r)' = Recorded(r) \cup {x.event}
           /\ \A s \in Releases : Recorded(s) \subseteq Recorded(s)'
<1> USE DEF vercel
<1>0. TypeOK
  BY DEF IInv
<1>1. /\ journal' \in [Releases -> SUBSET RecordType]
      /\ \A s \in Releases : Recorded(s) \subseteq Recorded(s)'
      /\ \A s \in Releases : s # r => journal'[s] = journal[s]
      /\ journal'[r] = journal[r] \cup {x}
      /\ Recorded(r)' = Recorded(r) \cup {x.event}
  BY <1>0, RecordAdded
<1>2. JournalsWellFormed'
  <2> SUFFICES ASSUME NEW s \in Releases
               PROVE  IsFiniteSet(journal'[s]) /\ ResultBeforePassed(s)'
    BY DEF JournalsWellFormed
  <2>1. IsFiniteSet(journal[s]) /\ ResultBeforePassed(s)
    BY DEF IInv, World, JournalsWellFormed
  <2>2. CASE s # r
    <3>1. journal'[s] = journal[s] /\ Recorded(s)' = Recorded(s)
      BY <1>1, <2>2 DEF Recorded
    <3> QED
      BY <2>1, <3>1 DEF ResultBeforePassed
  <2>3. CASE s = r
    <3>0. journal'[s] = journal[s] \cup {x}
      BY <1>1, <2>3
    <3>1. IsFiniteSet(journal'[s])
      BY <2>1, <3>0, FS_AddElement
    <3>2. ResultBeforePassed(s)'
      BY <1>1, <2>1, <2>3 DEF ResultBeforePassed
    <3> QED
      BY <3>1, <3>2
  <2> QED
    BY <2>2, <2>3
<1>3. CallsCounted' /\ CallsAdmitted' /\ LiveAdmitted'
  BY <1>1 DEF IInv, World, CallsCounted, CallsAdmitted, LiveAdmitted, Admitted,
              Admission, Acceptance, AcceptanceEvent
<1>4. OneInDoubt'
  <2>1. \A s \in Releases : InDoubt(s)' => InDoubt(s)
    BY <1>1 DEF InDoubt
  <2> QED
    BY <2>1 DEF IInv, World, OneInDoubt
<1> QED
  BY <1>1, <1>2, <1>3, <1>4 DEF World

-----------------------------------------------------------------------------
(* Moves of the job *)

Still == UNCHANGED <<previous, github, vercel, submitted, tally>>

\* JobFrame for the steps that count no job and no deployment.
LEMMA MoveFrame ==
    ASSUME IInv, NEW j \in JobType, job' = j, JobWellFormed(j), Still,
           faults' \in Nat
    PROVE  IInv'
<1>1. jobs' \in Nat /\ outside' \in Nat
  BY DEF IInv, TypeOK, Still, tally
<1> QED
  BY <1>1, JobFrame DEF Still

\* The job's fields after Goto and ToAppend.
LEMMA GotoJob ==
    ASSUME job \in JobType, NEW l \in Labels, Goto(l)
    PROVE  \E j \in JobType :
             /\ job' = j /\ j.at = l
             /\ j.rel = job.rel /\ j.op = job.op /\ j.seen = job.seen
BY DEF Goto, JobType

LEMMA AppendJob ==
    ASSUME job \in JobType, NEW e \in Events, NEW l \in Labels, ToAppend(e, l)
    PROVE  \E j \in JobType :
             /\ job' = j /\ j.at = "append" /\ j.event = e /\ j.next = l
             /\ j.rel = job.rel /\ j.op = job.op /\ j.seen = job.seen
<1> DEFINE k == [rel |-> job.rel, at |-> "append", op |-> job.op, event |-> e,
                 next |-> l, seen |-> job.seen]
<1>1. job' = [job EXCEPT !.at = "append", !.event = e, !.next = l]
  BY DEF ToAppend
<1>2. job' = k
  BY <1>1, Zenon DEF JobType
<1>3. k \in JobType
  BY DEF JobType, Labels
<1> QED
  BY <1>2, <1>3

\* Labels at which nothing need be known.
FreeLabels == {"idle", "settled", "ready", "observe", "complete", "doubt", "verify",
               "obstacle"}

LEMMA FreeJob ==
    ASSUME IInv, job.at # "idle", NEW j \in JobType,
           j.rel = job.rel, j.seen = job.seen,
           \/ j.at \in FreeLabels
           \/ j.at = "append" /\ j.next \in FreeLabels /\ Plain(j.event)
    PROVE  JobWellFormed(j)
BY DEF IInv, JobWellFormed, Where, Approving, FreeLabels, Plain

LEMMA GoFree ==
    ASSUME IInv, job.at # "idle", NEW l \in FreeLabels, Goto(l), Still, faults' \in Nat
    PROVE  IInv'
<1>1. job \in JobType /\ l \in Labels
  BY DEF IInv, TypeOK, FreeLabels, Labels
<1>2. PICK j \in JobType : /\ job' = j /\ j.at = l
                           /\ j.rel = job.rel /\ j.op = job.op /\ j.seen = job.seen
  BY <1>1, GotoJob
<1> QED
  BY <1>2, FreeJob, MoveFrame

LEMMA AppendFree ==
    ASSUME IInv, job.at # "idle", NEW l \in FreeLabels, NEW e, Plain(e), ToAppend(e, l),
           Still, faults' \in Nat
    PROVE  IInv'
<1>1. job \in JobType /\ l \in Labels /\ e \in Events
  BY DEF IInv, TypeOK, FreeLabels, Labels, Plain
<1>2. PICK j \in JobType : /\ job' = j /\ j.at = "append" /\ j.event = e /\ j.next = l
                           /\ j.rel = job.rel /\ j.op = job.op /\ j.seen = job.seen
  BY <1>1, AppendJob
<1> QED
  BY <1>2, FreeJob, MoveFrame

LEMMA GoDone ==
    ASSUME IInv, Done, Still, faults' \in Nat
    PROVE  IInv'
<1>1. NoJob \in JobType /\ JobWellFormed(NoJob)
  BY DEF NoJob, JobType, JobWellFormed, Labels, Phases, Events
<1> QED
  BY <1>1, MoveFrame DEF Done

LEMMA ThrowStep ==
    ASSUME IInv, job.at # "idle", Throw, Still, faults' \in Nat
    PROVE  IInv'
<1>1. Goto("doubt") \/ Goto("obstacle") \/ Done
  BY DEF Throw
<1>2. "doubt" \in FreeLabels /\ "obstacle" \in FreeLabels
  BY DEF FreeLabels
<1> QED
  BY <1>1, <1>2, GoFree, GoDone

\* The frame conditions of the job's actions.
LEMMA QuietStep ==
    ASSUME IInv, UNCHANGED <<previous, github, vercel, submitted, tally, faults>>
    PROVE  Still /\ faults' \in Nat
BY DEF IInv, TypeOK, Still

-----------------------------------------------------------------------------
(* Steps that only move the job *)

LEMMA CheckStep == ASSUME IInv, Check PROVE IInv'
<1>1. Still /\ faults' \in Nat /\ job.at = "check" /\ job \in JobType
  BY QuietStep DEF Check, At, IInv, TypeOK
<1>2. CASE Throw
  BY <1>1, <1>2, ThrowStep
<1>3. CASE ~Throw
  <2>1. /\ job' = [job EXCEPT !.at = IF job.op = "stage" THEN "stage" ELSE "approve",
                              !.seen = Recorded(Rel)]
        /\ job.op = "promote" => MayPromote(Rel)
    BY <1>3 DEF Check
  <2> DEFINE l == IF job.op = "stage" THEN "stage" ELSE "approve"
             k == [rel |-> job.rel, at |-> l, op |-> job.op, event |-> job.event,
                   next |-> job.next, seen |-> Recorded(Rel)]
  <2>2. job' = k
    BY <1>1, <2>1, Zenon DEF JobType
  <2>3. /\ Recorded(Rel) \in SUBSET Events
        /\ Rel \in Releases /\ previous[Rel] # NoDeployment /\ job.op # "rollback"
    BY <1>1 DEF IInv, TypeOK, JobWellFormed, Where, Recorded, RecordType, Rel
  <2>4. k \in JobType
    BY <1>1, <2>3 DEF JobType, Labels
  <2>5. k.at = "approve" => Acceptance(Rel) \subseteq Recorded(Rel)
    BY <1>1, <2>1, <2>3 DEF JobType, MayPromote, Staged, Acceptance, Phases
  <2>6. JobWellFormed(k)
    BY <1>1, <2>3, <2>5 DEF JobWellFormed, Where, Known, Approving, Rel
  <2> QED
    BY <1>1, <2>2, <2>4, <2>6, MoveFrame
<1> QED
  BY <1>2, <1>3

\* A job that goes on to a label at which l is required.
LEMMA GoStep ==
    ASSUME IInv, Still, faults' \in Nat, NEW l \in Labels, Goto(l),
           \A j \in JobType : j.at = l /\ j.rel = job.rel /\ j.op = job.op
                                /\ j.seen = job.seen => JobWellFormed(j)
    PROVE  IInv'
<1>1. job \in JobType
  BY DEF IInv, TypeOK
<1>2. PICK j \in JobType : /\ job' = j /\ j.at = l
                           /\ j.rel = job.rel /\ j.op = job.op /\ j.seen = job.seen
  BY <1>1, GotoJob
<1> QED
  BY <1>2, MoveFrame

LEMMA AppendStep ==
    ASSUME IInv, Still, faults' \in Nat, NEW e \in Events, NEW l \in Labels, ToAppend(e, l),
           \A j \in JobType : j.at = "append" /\ j.event = e /\ j.next = l
                /\ j.rel = job.rel /\ j.op = job.op /\ j.seen = job.seen
                => JobWellFormed(j)
    PROVE  IInv'
<1>1. job \in JobType
  BY DEF IInv, TypeOK
<1>2. PICK j \in JobType : /\ job' = j /\ j.at = "append" /\ j.event = e /\ j.next = l
                           /\ j.rel = job.rel /\ j.op = job.op /\ j.seen = job.seen
  BY <1>1, AppendJob
<1> QED
  BY <1>2, MoveFrame

LEMMA StageReleaseStep == ASSUME IInv, StageRelease PROVE IInv'
<1>1. Still /\ faults' \in Nat /\ job.at = "stage" /\ JobWellFormed(job)
  BY QuietStep DEF StageRelease, At, IInv
<1>2. "build" \in Labels /\ Plain("release.prepared")
  BY OperationEvents DEF Labels
<1>3. CASE Goto("build")
  BY <1>1, <1>2, <1>3, GoStep DEF JobWellFormed, Where, Approving
<1>4. CASE ToAppend("release.prepared", "build")
  BY <1>1, <1>2, <1>4, AppendStep DEF JobWellFormed, Where, Approving, Plain
<1> QED
  BY <1>3, <1>4 DEF StageRelease

LEMMA StageBuildStep == ASSUME IInv, StageBuild PROVE IInv'
<1>1. Still /\ faults' \in Nat /\ job.at = "build" /\ JobWellFormed(job)
  BY QuietStep DEF StageBuild, At, IInv
<1>2. "begin" \in Labels /\ Plain("build.passed")
  BY OperationEvents DEF Labels
<1>3. CASE Goto("begin")
  BY <1>1, <1>2, <1>3, GoStep DEF JobWellFormed, Where, Approving
<1>4. CASE ToAppend("build.passed", "begin")
  BY <1>1, <1>2, <1>4, AppendStep DEF JobWellFormed, Where, Approving, Plain
<1> QED
  BY <1>3, <1>4 DEF StageBuild

LEMMA StageReadyStep == ASSUME IInv, StageReady PROVE IInv'
<1>1. Still /\ faults' \in Nat /\ job.at # "idle"
  BY QuietStep DEF StageReady, At
<1>2. "idle" \in FreeLabels /\ Plain(AcceptanceEvent(Rel))
  BY OperationEvents DEF FreeLabels
<1> QED
  BY <1>1, <1>2, ThrowStep, GoDone, AppendFree DEF StageReady

LEMMA ApproveStep == ASSUME IInv, Approve PROVE IInv'
<1>1. Still /\ faults' \in Nat /\ job.at = "approve" /\ JobWellFormed(job) /\ Rel = job.rel
  BY QuietStep DEF Approve, At, IInv, Rel
<1>2. ApprovedNext \in Labels /\ Plain("approval.accepted")
      /\ ApprovedNext \in {"prerequisites", "baseline"}
      /\ (ApprovedNext = "baseline" => job.rel \notin Gated)
  BY <1>1, OperationEvents DEF Labels, ApprovedNext
<1>3. CASE Done
  BY <1>1, <1>3, GoDone
<1>4. CASE Goto(ApprovedNext) /\ "approval.accepted" \in job.seen
  BY <1>1, <1>2, <1>4, GoStep DEF JobWellFormed, Where, Known, Approving
<1>5. CASE ToAppend("approval.accepted", ApprovedNext)
  BY <1>1, <1>2, <1>5, AppendStep DEF JobWellFormed, Where, Known, Approving, Plain
<1> QED
  BY <1>3, <1>4, <1>5 DEF Approve

LEMMA PrerequisitesStep == ASSUME IInv, Prerequisites PROVE IInv'
<1>1. Still /\ faults' \in Nat /\ job.at = "prerequisites" /\ JobWellFormed(job)
      /\ Rel = job.rel
  BY QuietStep DEF Prerequisites, At, IInv, Rel
<1>2. {"recheck", "adapter"} \subseteq Labels /\ Plain(Intent("prerequisites"))
  BY OperationEvents DEF Labels, Operations
<1>3. CASE Throw
  BY <1>1, <1>3, ThrowStep
<1>4. CASE /\ Goto("recheck")
           /\ job.seen \cap {"prerequisites.passed", Result("prerequisites")} # {}
  <2>1. Result("prerequisites") \in Recorded(job.rel)
    BY <1>1, <1>4 DEF JobWellFormed, IInv, World, JournalsWellFormed, ResultBeforePassed
  <2> QED
    BY <1>1, <1>2, <1>4, <2>1, GoStep DEF JobWellFormed, Where, Known, Approving
<1>5. CASE Goto("adapter")
  BY <1>1, <1>2, <1>5, GoStep DEF JobWellFormed, Where, Known, Approving
<1>6. CASE ToAppend(Intent("prerequisites"), "adapter")
  BY <1>1, <1>2, <1>6, AppendStep DEF JobWellFormed, Where, Known, Approving, Plain
<1> QED
  BY <1>3, <1>4, <1>5, <1>6 DEF Prerequisites

LEMMA RunAdapterStep == ASSUME IInv, RunAdapter PROVE IInv'
<1>1. Still /\ faults' \in Nat /\ job.at = "adapter" /\ JobWellFormed(job)
  BY QuietStep DEF RunAdapter, At, IInv
<1>2. "passed" \in Labels /\ Plain(Result("prerequisites"))
  BY OperationEvents DEF Labels, Operations
<1>3. CASE Throw
  BY <1>1, <1>3, ThrowStep
<1>4. CASE ToAppend(Result("prerequisites"), "passed")
  BY <1>1, <1>2, <1>4, AppendStep DEF JobWellFormed, Where, Known, Approving, Plain
<1> QED
  BY <1>3, <1>4 DEF RunAdapter

LEMMA PrerequisitesPassedStep == ASSUME IInv, PrerequisitesPassed PROVE IInv'
<1>1. Still /\ faults' \in Nat /\ job.at = "passed" /\ JobWellFormed(job)
  BY QuietStep DEF PrerequisitesPassed, At, IInv
<1>2. "recheck" \in Labels /\ "prerequisites.passed" \in Events
      /\ ToAppend("prerequisites.passed", "recheck")
  BY OperationEvents DEF Labels, PrerequisitesPassed
<1> QED
  BY <1>1, <1>2, AppendStep DEF JobWellFormed, Where, Known, Approving

LEMMA RecheckStep == ASSUME IInv, Recheck PROVE IInv'
<1>1. Still /\ faults' \in Nat /\ job.at = "recheck" /\ JobWellFormed(job) /\ Rel = job.rel
  BY QuietStep DEF Recheck, At, IInv, Rel
<1>2. "baseline" \in Labels /\ Plain("prerequisites.smoke_passed")
  BY OperationEvents DEF Labels
<1>3. CASE Throw
  BY <1>1, <1>3, ThrowStep
<1>4. CASE Goto("baseline") /\ "prerequisites.smoke_passed" \in Recorded(Rel)
  BY <1>1, <1>2, <1>4, GoStep DEF JobWellFormed, Where, Known, Approving, PrerequisiteEvents
<1>5. CASE ToAppend("prerequisites.smoke_passed", "baseline")
  BY <1>1, <1>2, <1>5, AppendStep
     DEF JobWellFormed, Where, Known, Approving, PrerequisiteEvents, Plain
<1> QED
  BY <1>3, <1>4, <1>5 DEF Recheck

\* A job that turns to another provider call.
LEMMA TurnStep ==
    ASSUME IInv, Still, faults' \in Nat, job.at # "idle", NEW p \in {"promote", "rollback"},
           job' = [job EXCEPT !.at = "begin", !.op = p],
           p = "promote" => Admission(job.rel) \subseteq Recorded(job.rel)
    PROVE  IInv'
<1> DEFINE k == [rel |-> job.rel, at |-> "begin", op |-> p, event |-> job.event,
                 next |-> job.next, seen |-> job.seen]
<1>1. job \in JobType /\ JobWellFormed(job)
  BY DEF IInv, TypeOK
<1>2. job' = k
  BY <1>1, Zenon DEF JobType
<1>3. k \in JobType
  BY <1>1 DEF JobType, Labels, Phases
<1>4. JobWellFormed(k)
  BY <1>1 DEF JobWellFormed, Where, Known, Approving
<1> QED
  BY <1>2, <1>3, <1>4, MoveFrame

LEMMA CheckBaselineStep == ASSUME IInv, CheckBaseline PROVE IInv'
<1>1. Still /\ faults' \in Nat /\ job.at = "baseline" /\ JobWellFormed(job)
  BY QuietStep DEF CheckBaseline, At, IInv
<1>2. CASE Throw
  BY <1>1, <1>2, ThrowStep
<1>3. CASE job' = [job EXCEPT !.at = "begin", !.op = "promote"]
  <2>1. Admission(job.rel) \subseteq Recorded(job.rel)
    BY <1>1 DEF JobWellFormed, Where, Known, Approving, Admission
  <2> QED
    BY <1>1, <1>3, <2>1, TurnStep
<1> QED
  BY <1>2, <1>3 DEF CheckBaseline

\* When every other journal is settled, no other release is in doubt.
LEMMA SettledIsNoDoubt ==
    ASSUME IInv, NEW r \in Releases, OthersSettled(r)
    PROVE  \A s \in Releases \ {r} : ~InDoubt(s)
<1> SUFFICES ASSUME NEW s \in Releases \ {r}, NEW p \in Phases,
                    submitted[s][p] > 0, Result(p) \notin Recorded(s)
             PROVE  FALSE
  BY DEF InDoubt
<1>1. Intent(p) \in Recorded(s) /\ p \in Operations
  BY OperationEvents DEF IInv, World, CallsCounted
<1>2. p \in Unresolved(s)
  BY <1>1 DEF Unresolved
<1> QED
  BY <1>2 DEF OthersSettled

LEMMA BeginOperationStep == ASSUME IInv, BeginOperation PROVE IInv'
<1>1. /\ Still /\ faults' \in Nat /\ job.at = "begin" /\ JobWellFormed(job)
      /\ Rel = job.rel /\ job.op \in Phases /\ job.rel \in Releases
  BY QuietStep DEF BeginOperation, At, IInv, Rel, TypeOK, JobType, JobWellFormed
<1>2. /\ "settled" \in FreeLabels /\ "obstacle" \in FreeLabels /\ "submit" \in Labels
      /\ Plain(Intent(job.op)) /\ Plain(Result(job.op)) /\ job.op \in Operations
  BY <1>1, OperationEvents DEF FreeLabels, Labels
<1>3. CASE Throw
  BY <1>1, <1>3, ThrowStep
<1>4. CASE Goto("settled") \/ UnknownWaits
  BY <1>1, <1>2, <1>4, GoFree DEF UnknownWaits
<1>5. CASE ToAppend(Result(job.op), "settled")
  BY <1>1, <1>2, <1>5, AppendFree
<1>6. CASE /\ ToAppend(Intent(job.op), "submit")
           /\ OthersSettled(Rel) /\ Intent(job.op) \notin Recorded(Rel)
  <2>1. submitted[job.rel][job.op] \in Nat
    BY <1>1 DEF IInv, TypeOK
  <2>2. submitted[job.rel][job.op] = 0
    BY <1>1, <1>6, <2>1 DEF IInv, World, CallsCounted
  <2>3. \A s \in Releases \ {job.rel} : ~InDoubt(s)
    BY <1>1, <1>6, SettledIsNoDoubt
  <2> QED
    BY <1>1, <1>2, <1>6, <2>2, <2>3, AppendStep
       DEF JobWellFormed, Where, Known, Approving, Plain
<1> QED
  BY <1>3, <1>4, <1>5, <1>6 DEF BeginOperation

LEMMA AfterOperationStep == ASSUME IInv, AfterOperation PROVE IInv'
<1>1. Still /\ faults' \in Nat /\ job.at # "idle"
  BY QuietStep DEF AfterOperation, At
<1>2. {"ready", "observe", "verify"} \subseteq FreeLabels
  BY DEF FreeLabels
<1> QED
  BY <1>1, <1>2, GoFree DEF AfterOperation

LEMMA ObserveStep == ASSUME IInv, Observe PROVE IInv'
<1>1. Still /\ faults' \in Nat /\ job.at # "idle"
  BY QuietStep DEF Observe, At
<1>2. "complete" \in FreeLabels /\ Plain("live.passed")
  BY OperationEvents DEF FreeLabels
<1> QED
  BY <1>1, <1>2, ThrowStep, AppendFree DEF Observe

LEMMA CompleteStep == ASSUME IInv, Complete PROVE IInv'
<1>1. Still /\ faults' \in Nat /\ job.at # "idle"
  BY QuietStep DEF Complete, At
<1>2. "idle" \in FreeLabels /\ Plain("release.complete")
  BY OperationEvents DEF FreeLabels
<1> QED
  BY <1>1, <1>2, AppendFree DEF Complete

LEMMA DoubtStep == ASSUME IInv, Doubt PROVE IInv'
<1>1. Still /\ faults' \in Nat /\ job.at # "idle"
  BY QuietStep DEF Doubt, At
<1> QED
  BY <1>1, GoDone, TurnStep DEF Doubt

LEMMA VerifyRollbackStep == ASSUME IInv, VerifyRollback PROVE IInv'
<1>1. Still /\ faults' \in Nat /\ job.at # "idle"
  BY QuietStep DEF VerifyRollback, At
<1> QED
  BY <1>1, GoDone, ThrowStep DEF VerifyRollback

LEMMA ObstacleStep == ASSUME IInv, Obstacle PROVE IInv'
<1>1. Still /\ faults' \in Nat /\ job.at # "idle"
  BY QuietStep DEF Obstacle, At
<1>2. "idle" \in FreeLabels /\ Plain("obstacle.detected")
  BY OperationEvents DEF FreeLabels
<1> QED
  BY <1>1, <1>2, AppendFree, GoDone DEF Obstacle

LEMMA AppendRefusedStep == ASSUME IInv, AppendRefused PROVE IInv'
<1>1. Still /\ faults' \in Nat /\ job.at # "idle"
  BY QuietStep DEF AppendRefused, At
<1> QED
  BY <1>1, ThrowStep DEF AppendRefused

LEMMA InterruptedStep == ASSUME IInv, Interrupted PROVE IInv'
<1>1. Still /\ faults' \in Nat /\ job.at # "idle"
  BY DEF Interrupted, Fault, Still, IInv, TypeOK
<1> QED
  BY <1>1, ThrowStep DEF Interrupted

LEMMA CrashStep == ASSUME IInv, Crash PROVE IInv'
<1>1. Still /\ faults' \in Nat
  BY DEF Crash, Fault, Still, IInv, TypeOK
<1> QED
  BY <1>1, GoDone DEF Crash

LEMMA StartStep ==
    ASSUME IInv, NEW r \in Releases, NEW command \in {"stage", "promote"}, Start(r, command)
    PROVE  IInv'
<1> DEFINE k == [rel |-> r, at |-> "check", op |-> command, event |-> "release.waiting",
                 next |-> "idle", seen |-> {}]
<1>1. job' = k
  BY Zenon DEF Start, NoJob
<1>2. k \in JobType /\ previous[r] # NoDeployment
  BY DEF Start, JobType, Labels, Phases, Events
<1>3. JobWellFormed(k)
  BY <1>2 DEF JobWellFormed, Where, Approving
<1>4. jobs' \in Nat /\ outside' \in Nat /\ faults' \in Nat
  BY DEF Start, IInv, TypeOK
<1> QED
  BY <1>1, <1>2, <1>3, <1>4, JobFrame DEF Start

-----------------------------------------------------------------------------
(* Steps that write the journal *)

\* When the record is there, what was to be known is known.
LEMMA Written ==
    ASSUME NEW i \in JobType, JobWellFormed(i), i.at = "append",
           NEW j \in JobType, j.at = i.next,
           j.rel = i.rel, j.op = i.op, j.seen = i.seen,
           Recorded(i.rel)' = Recorded(i.rel) \cup {i.event},
           \A s \in Releases : Recorded(s) \subseteq Recorded(s)',
           UNCHANGED <<previous, submitted>>
    PROVE  JobWellFormed(j)'
<1> SUFFICES ASSUME j.at # "idle" PROVE JobWellFormed(j)'
  BY DEF JobWellFormed
<1>1. j.rel \in Releases /\ i.next # "append"
  BY DEF JobWellFormed
<1>2. Known(j)' = Known(i) /\ Recorded(j.rel) \subseteq Recorded(j.rel)'
  BY <1>1 DEF Known
<1>3. \A s \in Releases : ~InDoubt(s) => ~InDoubt(s)'
  BY DEF InDoubt
<1>4. Acceptance(j.rel)' = Acceptance(i.rel) /\ Admission(j.rel)' = Admission(i.rel)
  BY DEF Acceptance, Admission, AcceptanceEvent
<1>5. Where(j)' = Where(i)
  BY <1>1 DEF Where
<1> QED
  BY <1>1, <1>2, <1>3, <1>4, <1>5 DEF JobWellFormed

LEMMA AppendDoneStep == ASSUME IInv, Append PROVE IInv'
<1>1. PICK i \in JobType : i = job
  BY DEF IInv, TypeOK
<1>2. /\ i.at = "append" /\ JobWellFormed(i) /\ Rel = i.rel /\ i.rel \in Releases
      /\ i.next \in Labels /\ AddRecord(i.rel, NextRecord)
      /\ UNCHANGED <<previous, vercel, submitted>> /\ UNCHANGED posting
  BY <1>1 DEF Append, At, IInv, Rel, JobType, JobWellFormed
<1>3. PICK x \in RecordType : x = NextRecord /\ x.event = i.event
  BY <1>1, <1>2, NextRecordType DEF IInv, World
<1>4. PICK r \in Releases : r = i.rel
  BY <1>2
<1>5. AddRecord(r, x)
  BY <1>2, <1>3, <1>4
<1>6. x.event = "prerequisites.passed" => Result("prerequisites") \in Recorded(r)
  BY <1>2, <1>3, <1>4 DEF JobWellFormed
<1>7. /\ World' /\ journal' \in [Releases -> SUBSET RecordType]
      /\ Recorded(r)' = Recorded(r) \cup {x.event}
      /\ \A s \in Releases : Recorded(s) \subseteq Recorded(s)'
  BY <1>2, <1>5, <1>6, WorldGrows
<1>8. PICK j \in JobType : job' = j /\ JobWellFormed(j)'
  <2>1. CASE job' = NoJob
    <3>1. NoJob \in JobType /\ JobWellFormed(NoJob)'
      BY DEF NoJob, JobType, JobWellFormed, Labels, Phases, Events
    <3> QED
      BY <2>1, <3>1
  <2>2. CASE Goto(i.next)
    <3>1. PICK j \in JobType : /\ job' = j /\ j.at = i.next
                               /\ j.rel = i.rel /\ j.op = i.op /\ j.seen = i.seen
      BY <1>1, <1>2, <2>2, GotoJob
    <3>2. JobWellFormed(j)'
      BY <1>2, <1>3, <1>4, <1>7, <3>1, Written
    <3> QED
      BY <3>1, <3>2
  <2> QED
    BY <1>1, <2>1, <2>2 DEF Append, Done
<1>9. TypeOK'
  BY <1>2, <1>7, <1>8 DEF IInv, TypeOK, Append, vercel, tally
<1> QED
  BY <1>7, <1>8, <1>9 DEF IInv

\* A job that fails to write goes where an exception goes.
LEMMA LeaveJob ==
    ASSUME IInv, job.at # "idle", Throw,
           \A s \in Releases : Recorded(s) \subseteq Recorded(s)',
           UNCHANGED <<previous, submitted>>
    PROVE  \E j \in JobType : job' = j /\ JobWellFormed(j)'
<1>1. CASE Done
  <2>1. NoJob \in JobType /\ JobWellFormed(NoJob)'
    BY DEF NoJob, JobType, JobWellFormed, Labels, Phases, Events
  <2> QED
    BY <1>1, <2>1 DEF Done
<1>2. CASE \E l \in {"doubt", "obstacle"} : Goto(l)
  <2>1. PICK l \in {"doubt", "obstacle"} : Goto(l)
    BY <1>2
  <2>2. job \in JobType /\ l \in Labels /\ l \in FreeLabels
    BY DEF IInv, TypeOK, Labels, FreeLabels
  <2>3. PICK j \in JobType : /\ job' = j /\ j.at = l
                             /\ j.rel = job.rel /\ j.op = job.op /\ j.seen = job.seen
    BY <2>1, <2>2, GotoJob
  <2>4. JobWellFormed(j)
    BY <2>2, <2>3, FreeJob
  <2>5. JobWellFormed(j)'
    BY <2>4, JobStays
  <2> QED
    BY <2>3, <2>5
<1> QED
  BY <1>1, <1>2 DEF Throw

LEMMA AppendFailsStep == ASSUME IInv, AppendFails PROVE IInv'
<1>1. PICK i \in JobType : i = job
  BY DEF IInv, TypeOK
<1>2. /\ i.at = "append" /\ JobWellFormed(i) /\ Rel = i.rel /\ i.rel \in Releases
      /\ UNCHANGED <<previous, vercel, submitted>> /\ UNCHANGED tally /\ Throw
      /\ faults' \in Nat
  BY <1>1 DEF AppendFails, At, IInv, Rel, JobType, JobWellFormed, Fault, TypeOK
<1>3. PICK x \in RecordType : x = NextRecord /\ x.event = i.event
  BY <1>1, <1>2, NextRecordType DEF IInv, World
<1>4. PICK r \in Releases : r = i.rel
  BY <1>2
<1>5. x.event = "prerequisites.passed" => Result("prerequisites") \in Recorded(r)
  BY <1>2, <1>3, <1>4 DEF JobWellFormed
<1>6. /\ World' /\ journal' \in [Releases -> SUBSET RecordType]
      /\ posting' \subseteq Releases \X RecordType
      /\ \A s \in Releases : Recorded(s) \subseteq Recorded(s)'
  <2>1. CASE AddRecord(Rel, NextRecord) /\ UNCHANGED posting
    <3>1. AddRecord(r, x)
      BY <1>2, <1>3, <1>4, <2>1
    <3> QED
      BY <1>2, <1>5, <2>1, <3>1, WorldGrows DEF IInv, TypeOK
  <2>2. CASE /\ UNCHANGED journal
             /\ posting' = posting \/ posting' = posting \cup {<<r, x>>}
    <3>1. \A s \in Releases : Recorded(s)' = Recorded(s)
      BY <2>2 DEF Recorded
    <3>2. JournalsWellFormed'
      <4> SUFFICES ASSUME NEW s \in Releases
                   PROVE  IsFiniteSet(journal'[s]) /\ ResultBeforePassed(s)'
        BY DEF JournalsWellFormed
      <4>1. IsFiniteSet(journal[s]) /\ ResultBeforePassed(s)
        BY DEF IInv, World, JournalsWellFormed
      <4>2. ASSUME NEW y \in RecordType, <<s, y>> \in posting',
                   y.event = "prerequisites.passed"
            PROVE  Result("prerequisites") \in Recorded(s)
        <5>1. CASE <<s, y>> \in posting
          BY <4>1, <4>2, <5>1 DEF ResultBeforePassed
        <5>2. CASE s = r /\ y = x
          BY <1>5, <4>2, <5>2
        <5> QED
          BY <2>2, <4>2, <5>1, <5>2
      <4> QED
        BY <2>2, <3>1, <4>1, <4>2 DEF ResultBeforePassed
    <3>3. LiveAdmitted' /\ CallsAdmitted' /\ CallsCounted'
      BY <1>2, <3>1 DEF IInv, World, LiveAdmitted, CallsAdmitted, CallsCounted, Admitted,
                Admission, Acceptance, AcceptanceEvent, vercel
    <3>4. \A s \in Releases : InDoubt(s)' <=> InDoubt(s)
      BY <1>2, <3>1 DEF InDoubt
    <3>5. OneInDoubt'
      BY <3>4 DEF IInv, World, OneInDoubt
    <3>6. posting' \subseteq Releases \X RecordType
      BY <2>2 DEF IInv, TypeOK
    <3> QED
      BY <2>2, <3>1, <3>2, <3>3, <3>5, <3>6 DEF World, IInv, TypeOK
  <2> QED
    BY <1>2, <1>3, <1>4, <2>1, <2>2 DEF AppendFails, github
<1>7. PICK j \in JobType : job' = j /\ JobWellFormed(j)'
  BY <1>1, <1>2, <1>6, LeaveJob
<1>8. TypeOK'
  BY <1>2, <1>6, <1>7 DEF IInv, TypeOK, vercel, tally
<1> QED
  BY <1>6, <1>7, <1>8 DEF IInv

-----------------------------------------------------------------------------
(* Provider calls *)

\* A call that takes effect puts an admitted deployment into production.
LEMMA EffectLive ==
    ASSUME IInv, NEW r \in Releases, NEW p \in Phases, Effect(r, p),
           UNCHANGED <<previous, github>>,
           p = "promote" => Admitted(r),
           p = "rollback" => previous[r] # NoDeployment
    PROVE  /\ production' \in Deployments /\ built' \in [Releases -> Nat]
           /\ LiveAdmitted'
<1>1. TypeOK /\ LiveAdmitted
  BY DEF IInv, World
<1>2. \A d \in Deployments : Admitted(d) => Admitted(d)'
  BY DEF Admitted, Admission, Acceptance, AcceptanceEvent, Recorded, github
<1>3. built' \in [Releases -> Nat]
  BY <1>1 DEF TypeOK, Effect
<1>4. production' \in Deployments
  BY <1>1 DEF TypeOK, Effect, Deployments, Phases
<1>5. Admitted(NoDeployment)'
  BY ConstantsAssumption DEF Admitted
<1>6. PICK d \in Deployments : d = production'
  BY <1>4
<1>7. Admitted(d)
  BY <1>1, <1>6 DEF Effect, LiveAdmitted, Phases
<1>8. Admitted(production)'
  BY <1>2, <1>6, <1>7 DEF Admitted
<1>9. \A s \in Releases : Admitted(previous[s])'
  BY <1>1, <1>2, <1>5 DEF LiveAdmitted, TypeOK, Admitted, Admission, Acceptance,
                          AcceptanceEvent, Recorded, github
<1> QED
  BY <1>3, <1>4, <1>8, <1>9 DEF LiveAdmitted

\* The call is counted: it is the first, and no other release is in doubt.
LEMMA CountStep ==
    ASSUME IInv, At("submit"), Counted, UNCHANGED <<previous, github>>
    PROVE  /\ submitted' \in [Releases -> [Phases -> Nat]]
           /\ CallsCounted' /\ OneInDoubt'
<1>1. PICK i \in JobType : i = job
  BY DEF IInv, TypeOK
<1>2. /\ i.rel \in Releases /\ i.op \in Phases
      /\ Intent(i.op) \in Recorded(i.rel) /\ submitted[i.rel][i.op] = 0
      /\ \A s \in Releases \ {i.rel} : ~InDoubt(s)
  BY <1>1 DEF At, IInv, JobWellFormed, JobType, Where, Known
<1>3. submitted' = [submitted EXCEPT ![i.rel][i.op] = @ + 1]
  BY <1>1 DEF Counted, Rel
<1>4. submitted \in [Releases -> [Phases -> Nat]]
  BY DEF IInv, TypeOK
<1>5. \A s \in Releases : s # i.rel => submitted'[s] = submitted[s]
  BY <1>2, <1>3, <1>4
<1>6. /\ submitted'[i.rel][i.op] = 1
      /\ \A p \in Phases : p # i.op => submitted'[i.rel][p] = submitted[i.rel][p]
  BY <1>2, <1>3, <1>4
<1>7. submitted' \in [Releases -> [Phases -> Nat]]
  BY <1>2, <1>3, <1>4
<1>8. \A s \in Releases : Recorded(s)' = Recorded(s)
  BY DEF Recorded, github
<1>9. CallsCounted'
  BY <1>2, <1>5, <1>6, <1>8 DEF CallsCounted, IInv, World
<1>10. \A s \in Releases \ {i.rel} : ~InDoubt(s)'
  BY <1>2, <1>5, <1>8 DEF InDoubt
<1> QED
  BY <1>7, <1>9, <1>10 DEF OneInDoubt

\* A call whose job is admitted and whose journal is untouched.
LEMMA CallStep ==
    ASSUME IInv, At("submit"), Counted, UNCHANGED <<previous, github, tally>>,
           faults' \in Nat,
           NEW e, Plain(e), NEW l \in FreeLabels, ToAppend(e, l),
           calls' \subseteq calls \cup {<<Rel, job.op>>},
           Effect(Rel, job.op) \/ UNCHANGED <<production, built>>
    PROVE  IInv'
<1>1. PICK i \in JobType : i = job
  BY DEF IInv, TypeOK
<1>2. /\ i.at = "submit" /\ i.rel \in Releases /\ i.op \in Phases /\ Rel = i.rel
      /\ previous[i.rel] # NoDeployment
      /\ i.op = "promote" => Admitted(i.rel)
  BY <1>1 DEF At, Rel, IInv, JobWellFormed, JobType, Where, Known, Admitted
<1>3. /\ submitted' \in [Releases -> [Phases -> Nat]]
      /\ CallsCounted' /\ OneInDoubt'
  BY CountStep
<1>4. \A s \in Releases : Recorded(s)' = Recorded(s)
  BY DEF Recorded, github
<1>6. /\ production' \in Deployments /\ built' \in [Releases -> Nat]
      /\ LiveAdmitted'
  <2>1. CASE Effect(Rel, job.op)
    <3>1. Effect(i.rel, i.op)
      BY <1>1, <1>2, <2>1
    <3> QED
      BY <1>2, <3>1, EffectLive
  <2>2. CASE UNCHANGED <<production, built>>
    BY <1>4, <2>2 DEF LiveAdmitted, IInv, World, TypeOK, Admitted, Admission,
                      Acceptance, AcceptanceEvent
  <2> QED
    BY <2>1, <2>2
<1>7. CallsAdmitted'
  <2>1. \A s \in Releases, p \in Phases :
          <<s, p>> \in calls' => <<s, p>> \in calls \/ (s = i.rel /\ p = i.op)
    BY <1>1, <1>2
  <2>2. CallsAdmitted /\ "promote" \in Phases /\ "rollback" \in Phases
    BY DEF IInv, World, Phases
  <2>3. ASSUME NEW s \in Releases, <<s, "promote">> \in calls' PROVE Admitted(s)'
    <3>1. Admitted(s)
      BY <1>2, <2>1, <2>2, <2>3 DEF CallsAdmitted
    <3> QED
      BY <1>4, <3>1 DEF Admitted, Admission, Acceptance, AcceptanceEvent
  <2>4. ASSUME NEW s \in Releases, <<s, "rollback">> \in calls'
        PROVE  previous'[s] # NoDeployment
    BY <1>2, <2>1, <2>2, <2>4 DEF CallsAdmitted
  <2> QED
    BY <2>3, <2>4 DEF CallsAdmitted
<1>8. JournalsWellFormed'
  BY <1>4 DEF IInv, World, JournalsWellFormed, ResultBeforePassed, github
<1>9. PICK j \in JobType : job' = j /\ JobWellFormed(j)'
  <2>1. job \in JobType /\ l \in Labels /\ e \in Events
    BY DEF IInv, TypeOK, FreeLabels, Labels, Plain
  <2>2. PICK j \in JobType : /\ job' = j /\ j.at = "append" /\ j.event = e
                             /\ j.next = l /\ j.rel = job.rel /\ j.seen = job.seen
    BY <2>1, AppendJob
  <2>3. JobWellFormed(j)'
    BY <1>1, <1>2, <1>4, <2>2
       DEF IInv, JobWellFormed, Where, Approving, FreeLabels, Plain
  <2> QED
    BY <2>2, <2>3
<1>10. calls' \subseteq Releases \X Phases
  BY <1>1, <1>2 DEF IInv, TypeOK
<1>11. TypeOK'
  BY <1>3, <1>6, <1>9, <1>10 DEF IInv, TypeOK, github, tally
<1> QED
  BY <1>3, <1>6, <1>7, <1>8, <1>9, <1>11 DEF IInv, World

LEMMA SubmitStep == ASSUME IInv, Submit PROVE IInv'
<1>1. job.op \in Phases /\ faults' \in Nat
  BY DEF IInv, TypeOK, JobType, Submit
<1>2. Plain(Result(job.op)) /\ "settled" \in FreeLabels
  BY <1>1, OperationEvents DEF FreeLabels
<1> QED
  BY <1>1, <1>2, CallStep DEF Submit

LEMMA SubmitFailsStep == ASSUME IInv, SubmitFails PROVE IInv'
<1>1. faults' \in Nat
  BY DEF IInv, TypeOK, SubmitFails, Fault
<1>2. Plain("release.waiting") /\ "obstacle" \in FreeLabels
  BY OperationEvents DEF FreeLabels
<1>3. /\ calls' \subseteq calls \cup {<<Rel, job.op>>}
      /\ Effect(Rel, job.op) \/ UNCHANGED <<production, built>>
  BY DEF SubmitFails, vercel
<1> QED
  BY <1>1, <1>2, <1>3, CallStep DEF SubmitFails

-----------------------------------------------------------------------------
(* Steps of GitHub, Vercel and other people *)

LEMMA LandRecordStep ==
    ASSUME IInv, NEW r, NEW x, LandRecord(r, x) PROVE IInv'
<1>1. r \in Releases /\ x \in RecordType /\ <<r, x>> \in posting
  BY DEF LandRecord, IInv, TypeOK
<1>2. /\ AddRecord(r, x) /\ posting' \subseteq posting
      /\ UNCHANGED <<previous, vercel, submitted>>
  BY DEF LandRecord
<1>3. x.event = "prerequisites.passed" => Result("prerequisites") \in Recorded(r)
  BY <1>1 DEF IInv, World, JournalsWellFormed, ResultBeforePassed
<1>4. /\ World' /\ journal' \in [Releases -> SUBSET RecordType]
      /\ \A s \in Releases : Recorded(s) \subseteq Recorded(s)'
  BY <1>1, <1>2, <1>3, WorldGrows
<1>5. PICK j \in JobType : j = job
  BY DEF IInv, TypeOK
<1>6. JobWellFormed(j)'
  BY <1>2, <1>4, <1>5, JobStays DEF IInv
<1>7. job' = j
  BY <1>5 DEF LandRecord
<1>8. TypeOK'
  BY <1>2, <1>4 DEF IInv, TypeOK, LandRecord, vercel, tally
<1> QED
  BY <1>4, <1>6, <1>7, <1>8 DEF IInv

LEMMA LandCallStep ==
    ASSUME IInv, NEW r \in Releases, NEW p \in Phases, LandCall(r, p) PROVE IInv'
<1>1. /\ Effect(r, p) /\ calls' \subseteq calls /\ <<r, p>> \in calls
      /\ UNCHANGED <<previous, github, job, submitted, tally, faults>>
  BY DEF LandCall
<1>2. /\ p = "promote" => Admitted(r)
      /\ p = "rollback" => previous[r] # NoDeployment
  BY <1>1 DEF IInv, World, CallsAdmitted
<1>3. /\ production' \in Deployments /\ built' \in [Releases -> Nat]
      /\ LiveAdmitted'
  BY <1>1, <1>2, EffectLive
<1>4. \A s \in Releases : Recorded(s)' = Recorded(s)
  BY <1>1 DEF Recorded, github
<1>5. CallsCounted' /\ CallsAdmitted'
  BY <1>1, <1>4 DEF IInv, World, CallsCounted, CallsAdmitted, Admitted, Admission,
                    Acceptance, AcceptanceEvent
<1>6. JournalsWellFormed'
  BY <1>1, <1>4 DEF IInv, World, JournalsWellFormed, ResultBeforePassed, github
<1>7. OneInDoubt'
  <2>1. \A s \in Releases : InDoubt(s)' <=> InDoubt(s)
    BY <1>1, <1>4 DEF InDoubt
  <2> QED
    BY <2>1 DEF IInv, World, OneInDoubt
<1>8. PICK j \in JobType : j = job
  BY DEF IInv, TypeOK
<1>9. JobWellFormed(j)'
  BY <1>1, <1>4, <1>8, JobStays DEF IInv
<1>10. TypeOK'
  BY <1>1, <1>3 DEF IInv, TypeOK, github, tally
<1> QED
  BY <1>1, <1>3, <1>5, <1>6, <1>7, <1>8, <1>9, <1>10 DEF IInv, World

\* Production is named as a release's baseline, or replaced by other means.
LEMMA BaselineStep ==
    ASSUME IInv, UNCHANGED <<github, built, calls, job, submitted, jobs, faults>>,
           outside' \in Nat,
           previous' \in [Releases -> Deployments \cup {NoDeployment}],
           production' \in Deployments, LiveAdmitted',
           \A s \in Releases : previous[s] # NoDeployment => previous'[s] # NoDeployment
    PROVE  IInv'
<1>1. \A s \in Releases : Recorded(s)' = Recorded(s)
  BY DEF Recorded, github
<1>2. CallsCounted' /\ CallsAdmitted'
  BY <1>1 DEF IInv, World, CallsCounted, CallsAdmitted, Admitted, Admission,
              Acceptance, AcceptanceEvent
<1>3. JournalsWellFormed'
  BY <1>1 DEF IInv, World, JournalsWellFormed, ResultBeforePassed, github
<1>4. OneInDoubt'
  <2>1. \A s \in Releases : InDoubt(s)' <=> InDoubt(s)
    BY <1>1 DEF InDoubt
  <2> QED
    BY <2>1 DEF IInv, World, OneInDoubt
<1>5. PICK j \in JobType : j = job
  BY DEF IInv, TypeOK
<1>6. JobWellFormed(j)'
  BY <1>1, <1>5, JobStays DEF IInv
<1>7. TypeOK'
  BY DEF IInv, TypeOK, github
<1> QED
  BY <1>2, <1>3, <1>4, <1>5, <1>6, <1>7 DEF IInv, World

LEMMA PrepareStep == ASSUME IInv, NEW r \in Releases, Prepare(r) PROVE IInv'
<1>1. \A s \in Releases : Recorded(s)' = Recorded(s)
  BY DEF Prepare, Recorded, github
<1>2. /\ previous' \in [Releases -> Deployments \cup {NoDeployment}]
      /\ previous'[r] = production /\ production \in Deployments
      /\ \A s \in Releases : s # r => previous'[s] = previous[s]
  BY DEF IInv, TypeOK, Prepare
<1>3. \A s \in Releases : previous[s] # NoDeployment => previous'[s] # NoDeployment
  BY <1>2 DEF Prepare
<1>4. LiveAdmitted'
  <2>1. \A d : Admitted(d) => Admitted(d)'
    BY <1>1 DEF Admitted, Admission, Acceptance, AcceptanceEvent
  <2>2. production' = production /\ LiveAdmitted
    BY DEF Prepare, vercel, IInv, World
  <2>3. Admitted(production)'
    BY <1>1, <2>2 DEF LiveAdmitted, Admitted, Admission, Acceptance, AcceptanceEvent
  <2>4. ASSUME NEW s \in Releases PROVE Admitted(previous[s])'
    BY <1>1, <1>2, <2>2 DEF LiveAdmitted, Admitted, Admission, Acceptance,
                            AcceptanceEvent
  <2> QED
    BY <2>3, <2>4 DEF LiveAdmitted
<1> QED
  BY <1>2, <1>3, <1>4, BaselineStep DEF Prepare, vercel, tally, IInv, TypeOK

LEMMA OutsideDeployStep == ASSUME IInv, OutsideDeploy PROVE IInv'
<1>1. production' = Outsider /\ Outsider \in Deployments /\ Outsider \notin Releases
  BY ConstantsAssumption DEF OutsideDeploy, Deployments
<1>2. \A s \in Releases : Recorded(s)' = Recorded(s)
  BY DEF OutsideDeploy, Recorded, github
<1>3. LiveAdmitted'
  BY <1>1, <1>2 DEF OutsideDeploy, IInv, World, LiveAdmitted, Admitted, Admission,
                    Acceptance, AcceptanceEvent
<1> QED
  BY <1>1, <1>3, BaselineStep DEF OutsideDeploy, IInv, TypeOK

-----------------------------------------------------------------------------
(* The theorems *)

LEMMA InitIInv == Init => IInv
<1> SUFFICES ASSUME Init PROVE IInv
  OBVIOUS
<1>1. NoJob \in JobType /\ JobWellFormed(NoJob)
  BY DEF NoJob, JobType, JobWellFormed, Labels, Phases, Events
<1>2. TypeOK
  BY <1>1 DEF Init, TypeOK, Deployments
<1>3. \A r \in Releases : Recorded(r) = {} /\ IsFiniteSet(journal[r])
  BY FS_EmptySet DEF Init, Recorded
<1>4. JournalsWellFormed
  BY <1>3 DEF Init, JournalsWellFormed, ResultBeforePassed
<1>5. CallsCounted /\ CallsAdmitted
  BY DEF Init, CallsCounted, CallsAdmitted
<1>6. LiveAdmitted
  BY ConstantsAssumption DEF Init, LiveAdmitted, Admitted
<1>7. OneInDoubt
  BY DEF Init, OneInDoubt, InDoubt
<1> QED
  BY <1>1, <1>2, <1>4, <1>5, <1>6, <1>7 DEF Init, IInv, World

LEMMA StutterStep == ASSUME IInv, UNCHANGED vars PROVE IInv'
<1>1. PICK j \in JobType : j = job
  BY DEF IInv, TypeOK
<1> QED
  BY <1>1, JobFrame DEF vars, github, vercel, IInv, TypeOK

LEMMA NextStep == ASSUME IInv, Next PROVE IInv'
<1>1. CASE JobStep
  BY <1>1, CheckStep, StageReleaseStep, StageBuildStep, StageReadyStep, ApproveStep,
     PrerequisitesStep, RunAdapterStep, PrerequisitesPassedStep, RecheckStep,
     CheckBaselineStep, BeginOperationStep, SubmitStep, AfterOperationStep,
     ObserveStep, CompleteStep, DoubtStep, VerifyRollbackStep, ObstacleStep,
     AppendDoneStep, AppendRefusedStep DEF JobStep
<1>2. CASE JobFault
  BY <1>2, AppendFailsStep, SubmitFailsStep, InterruptedStep, CrashStep DEF JobFault
<1>3. ASSUME NEW r \in Releases,
             \/ Prepare(r) \/ Start(r, "stage") \/ Start(r, "promote")
             \/ \E p \in Phases : LandCall(r, p)
      PROVE  IInv'
  BY <1>3, PrepareStep, StartStep, LandCallStep
<1>4. ASSUME NEW m \in posting, LandRecord(m[1], m[2]) PROVE IInv'
  BY <1>4, LandRecordStep
<1>5. CASE OutsideDeploy
  BY <1>5, OutsideDeployStep
<1> QED
  BY <1>1, <1>2, <1>3, <1>4, <1>5 DEF Next

\* The invariant of the engine is inductive: what the journals hold of a
\* release that is or may come into production, that each call follows its
\* intent, and what a job that is about to call knows (executeOperation,
\* promoteRelease).
THEOREM Invariance == Spec => []IInv
<1>1. IInv /\ [Next]_vars => IInv'
  BY NextStep, StutterStep
<1> QED
  BY InitIInv, <1>1, PTL DEF Spec

\* The variables keep their types.
THEOREM TypeCorrect == Spec => []TypeOK
<1>1. IInv => TypeOK
  BY DEF IInv
<1> QED
  BY Invariance, <1>1, PTL

\* However many jobs die, are rerun or lose an answer, a release submits each
\* of its provider operations at most once (executeOperation).
THEOREM SubmittedOnce == Spec => []SubmitOnce
<1>1. IInv => SubmitOnce
  BY DEF IInv, World, CallsCounted, SubmitOnce
<1> QED
  BY Invariance, <1>1, PTL

\* No two releases ever have a submitted operation whose outcome is not
\* recorded (assertNoUnresolvedOtherRelease).
THEOREM OneReleaseInDoubt == Spec => []OneInDoubt
<1>1. IInv => OneInDoubt
  BY DEF IInv, World
<1> QED
  BY Invariance, <1>1, PTL

\* Whatever is in production was staged, accepted and approved, with its
\* prerequisites applied and checked, however late a call given up is applied
\* (stageRelease, promoteRelease).
THEOREM AcceptedIsLive == Spec => []OnlyAcceptedIsLive
<1>1. IInv => OnlyAcceptedIsLive
  BY DEF IInv, World, LiveAdmitted, Admitted, Admission, Acceptance,
         PrerequisiteEvents, OnlyAcceptedIsLive
<1> QED
  BY Invariance, <1>1, PTL

-----------------------------------------------------------------------------
(* A call finds production where its release expects it *)

\* The call was made and is not waiting to be applied.
Applied(r, p) == submitted[r][p] > 0 /\ <<r, p>> \notin calls

\* A record of the event is written, or may still be.
Posted(r, e) == \E x \in RecordType : <<r, x>> \in posting /\ x.event = e
Claimed(r, e) == e \in Recorded(r) \/ Posted(r, e)

\* Where the call of a phase may find production.
Expected(r, p) ==
    /\ p = "promote" => production \in {previous[r], Outsider}
    /\ p = "rollback" => production \in {r, Outsider}

\* An operation of r has an intent, and no record of its result can appear.
Stuck(r) ==
    \E p \in Phases : Intent(p) \in Recorded(r) /\ ~Claimed(r, Result(p))

Moving == {"promote", "rollback"}

\* A release that is or was in production has been promoted, and a result is
\* claimed only of a call that was applied; a call that may still be applied
\* finds production where it expects it; a rollback follows a promotion.
CallsPlaced ==
    /\ \A r \in Releases :
         /\ (production = r \/ \E t \in Releases : previous[t] = r)
              => Applied(r, "promote")
         /\ \A p \in Moving : Claimed(r, Result(p)) => Applied(r, p)
         /\ submitted[r]["rollback"] > 0 => Result("promote") \in Recorded(r)
    /\ \A r \in Releases, p \in Phases : <<r, p>> \in calls =>
         submitted[r][p] > 0 /\ previous[r] # NoDeployment /\ Expected(r, p)

\* Labels and events at which a job counts on the promotion of its release.
Promoted(j) ==
    \/ Where(j) = "settled" /\ j.op = "promote"
    \/ Where(j) \in {"observe", "complete", "doubt"}
    \/ Where(j) \in {"begin", "submit"} /\ j.op = "rollback"

JobPlaced(j) ==
    j.at # "idle" =>
      /\ j.at = "append" =>
           /\ \A p \in Moving : j.event = Result(p) => Applied(j.rel, p)
           /\ j.event \in {"live.passed", "release.complete"} =>
                Result("promote") \in Recorded(j.rel)
      /\ Promoted(j) => Result("promote") \in Known(j)
      /\ Where(j) = "begin" =>
           \/ Recorded(j.rel) \cap {Intent(j.op), Result(j.op)} # {}
           \/ Expected(j.rel, j.op)
           \/ \E s \in Releases \ {j.rel} : Stuck(s)
      /\ Where(j) = "submit" => Expected(j.rel, j.op)

Placed == CallsPlaced /\ JobPlaced(job)

\* Labels and events of which JobPlaced says nothing.
EasyLabels == Labels \ {"begin", "submit", "settled", "observe", "complete", "doubt",
                        "append"}
EasyEvents == Events \ {Result("promote"), Result("rollback"), "live.passed",
                        "release.complete"}

Quiet == UNCHANGED <<previous, github, vercel, submitted>>

LEMMA EasyJob ==
    ASSUME NEW j \in JobType,
           \/ j.at \in EasyLabels
           \/ j.at = "append" /\ j.next \in EasyLabels /\ j.event \in EasyEvents
    PROVE  JobPlaced(j)
BY DEF JobPlaced, Where, Promoted, EasyLabels, EasyEvents, Moving

\* The events of the easy steps.
LEMMA EasyEventFacts ==
    /\ {"release.prepared", "build.passed", "release.waiting", "obstacle.detected",
        "approval.accepted", "prerequisites.smoke_passed", "prerequisites.passed"}
          \subseteq EasyEvents
    /\ \A r : AcceptanceEvent(r) \in EasyEvents
    /\ \A p \in Operations : Intent(p) \in EasyEvents
    /\ \A p \in Operations \ Moving : Result(p) \in EasyEvents
    /\ \A p \in Moving : Result(p) \notin {"live.passed", "release.complete"}
    /\ Moving \subseteq Phases /\ Result("promote") # Result("rollback")
    /\ {"live.passed", "release.complete"} \subseteq Events
<1>1. Result("promote") = "promote.result" /\ Result("rollback") = "rollback.result"
  BY DEF Result, ResultOf
<1>2. \A p \in Operations : Intent(p) \in Events /\ Result(p) \in Events
  BY DEF Events
<1>3. \A p \in Operations : Intent(p) \notin {"promote.result", "rollback.result",
                                "live.passed", "release.complete"}
  BY DEF Operations, Phases, Intent, IntentOf
<1>4. \A p \in Operations \ Moving : Result(p) \notin {"promote.result",
                                "rollback.result", "live.passed", "release.complete"}
  BY DEF Operations, Phases, Moving, Result, ResultOf
<1> QED
  BY <1>1, <1>2, <1>3, <1>4 DEF EasyEvents, Events, Evidence, AcceptanceEvent,
     Moving, Phases

-----------------------------------------------------------------------------
(* Frames of Placed *)

\* What is claimed of a call is claimed of an applied one, and journals grow.
LEMMA CallsStay ==
    ASSUME CallsPlaced,
           \A s \in Releases : Recorded(s) \subseteq Recorded(s)',
           \A s \in Releases, p \in Moving :
             Claimed(s, Result(p))' => Claimed(s, Result(p)) \/ Applied(s, p),
           UNCHANGED <<previous, vercel, submitted>>
    PROVE  CallsPlaced'
<1> USE DEF vercel
<1>1. \A s, p : Applied(s, p)' <=> Applied(s, p)
  BY DEF Applied
<1>2. \A s, p : Expected(s, p)' <=> Expected(s, p)
  BY DEF Expected
<1> QED
  BY <1>1, <1>2 DEF CallsPlaced

\* When no result becomes claimed, what a job counts on remains.
LEMMA JobPlacedStays ==
    ASSUME NEW j \in JobType, JobPlaced(j), j.at # "idle" => j.rel \in Releases,
           \A s \in Releases : Recorded(s) \subseteq Recorded(s)',
           \A s \in Releases, p \in Phases :
             Claimed(s, Result(p))' => Claimed(s, Result(p)),
           UNCHANGED <<previous, vercel, submitted>>
    PROVE  JobPlaced(j)'
<1> SUFFICES ASSUME j.at # "idle" PROVE JobPlaced(j)'
  BY DEF JobPlaced
<1> USE DEF vercel
<1>1. \A s, p : Applied(s, p)' <=> Applied(s, p)
  BY DEF Applied
<1>2. \A s, p : Expected(s, p)' <=> Expected(s, p)
  BY DEF Expected
<1>3. \A s \in Releases : Stuck(s) => Stuck(s)'
  BY DEF Stuck
<1>4. Recorded(j.rel) \subseteq Recorded(j.rel)' /\ Known(j) \subseteq Known(j)'
  BY DEF Known
<1>5. Where(j)' = Where(j) /\ Promoted(j)' = Promoted(j)
  BY DEF Where, Promoted
<1> QED
  BY <1>1, <1>2, <1>3, <1>4, <1>5 DEF JobPlaced

\* A step that only moves the job on.
LEMMA QuietFrame ==
    ASSUME Placed, NEW j \in JobType, job' = j, JobPlaced(j),
           j.at # "idle" => j.rel \in Releases, Quiet
    PROVE  Placed'
<1> USE DEF github
<1>1. \A s : Recorded(s)' = Recorded(s)
  BY DEF Quiet, Recorded
<1>2. \A s, e : Claimed(s, e)' <=> Claimed(s, e)
  BY <1>1 DEF Quiet, Claimed, Posted
<1>3. CallsPlaced'
  BY <1>1, <1>2, CallsStay DEF Quiet, Placed
<1>4. JobPlaced(j)'
  BY <1>1, <1>2, JobPlacedStays DEF Quiet
<1> QED
  BY <1>3, <1>4 DEF Placed

LEMMA GoEasy ==
    ASSUME IInv, Placed, job.at # "idle", NEW l \in EasyLabels, Goto(l), Quiet
    PROVE  Placed'
<1>1. job \in JobType /\ l \in Labels /\ job.rel \in Releases
  BY DEF IInv, TypeOK, EasyLabels, JobWellFormed
<1>2. PICK j \in JobType : /\ job' = j /\ j.at = l
                           /\ j.rel = job.rel /\ j.op = job.op /\ j.seen = job.seen
  BY <1>1, GotoJob
<1> QED
  BY <1>1, <1>2, EasyJob, QuietFrame

LEMMA AppendEasy ==
    ASSUME IInv, Placed, job.at # "idle", NEW e \in EasyEvents, NEW l \in EasyLabels,
           ToAppend(e, l), Quiet
    PROVE  Placed'
<1>1. job \in JobType /\ l \in Labels /\ e \in Events /\ job.rel \in Releases
  BY DEF IInv, TypeOK, EasyLabels, EasyEvents, JobWellFormed
<1>2. PICK j \in JobType : /\ job' = j /\ j.at = "append" /\ j.event = e /\ j.next = l
                           /\ j.rel = job.rel /\ j.op = job.op /\ j.seen = job.seen
  BY <1>1, AppendJob
<1> QED
  BY <1>1, <1>2, EasyJob, QuietFrame

LEMMA DoneEasy ==
    ASSUME Placed, Done, Quiet PROVE Placed'
<1>1. NoJob \in JobType /\ JobPlaced(NoJob) /\ NoJob.at = "idle"
  BY DEF NoJob, JobType, JobPlaced, Labels, Phases, Events
<1> QED
  BY <1>1, QuietFrame DEF Done

\* An exception leads to the doubt of the catch block only after the promotion.
LEMMA ThrowJob ==
    ASSUME IInv, Placed, job.at # "idle", Throw
    PROVE  \E j \in JobType :
             /\ job' = j /\ (j.at # "idle" => j.rel \in Releases)
             /\ \/ j.at \in EasyLabels
                \/ j.at = "doubt" /\ Result("promote") \in Recorded(j.rel)
<1>1. job \in JobType /\ job.rel \in Releases /\ JobPlaced(job)
  BY DEF IInv, TypeOK, JobWellFormed, Placed
<1>2. CASE Done
  <2>1. NoJob \in JobType /\ NoJob.at \in EasyLabels /\ NoJob.at = "idle"
    BY DEF NoJob, JobType, Labels, Phases, Events, EasyLabels
  <2> QED
    BY <1>2, <2>1 DEF Done
<1>3. CASE Goto("obstacle")
  <2>1. "obstacle" \in EasyLabels /\ "obstacle" \in Labels
    BY DEF EasyLabels, Labels
  <2> QED
    BY <1>1, <1>3, <2>1, GotoJob
<1>4. CASE /\ Goto("doubt")
           /\ \/ At("observe")
              \/ At("append") /\ job.event \in {"live.passed", "release.complete"}
  <2>1. Result("promote") \in Recorded(job.rel)
    BY <1>1, <1>4 DEF At, JobPlaced, Promoted, Where, Known
  <2>2. "doubt" \in Labels
    BY DEF Labels
  <2> QED
    BY <1>1, <1>4, <2>1, <2>2, GotoJob
<1> QED
  BY <1>2, <1>3, <1>4 DEF Throw

\* In doubt, only the promotion is counted on.
LEMMA DoubtJob ==
    ASSUME NEW j \in JobType, j.at = "doubt", Result("promote") \in Recorded(j.rel)
    PROVE  JobPlaced(j)
BY DEF JobPlaced, Where, Promoted, Known

LEMMA ThrowEasy ==
    ASSUME IInv, Placed, job.at # "idle", Throw, Quiet PROVE Placed'
<1>1. PICK j \in JobType :
        /\ job' = j /\ (j.at # "idle" => j.rel \in Releases)
        /\ \/ j.at \in EasyLabels
           \/ j.at = "doubt" /\ Result("promote") \in Recorded(j.rel)
  BY ThrowJob
<1> QED
  BY <1>1, EasyJob, DoubtJob, QuietFrame

-----------------------------------------------------------------------------
(* Placed through the steps of a job *)

\* The steps of the job that move it to where nothing is counted on.
Easygoing ==
    \/ Check \/ StageRelease \/ StageReady \/ Approve \/ Prerequisites \/ RunAdapter
    \/ PrerequisitesPassed \/ Recheck \/ VerifyRollback \/ Obstacle
    \/ AppendRefused \/ Interrupted \/ Crash

\* A job whose journal is read goes on to the staging or the approval.
LEMMA CheckPlaced == ASSUME IInv, Placed, Check PROVE Placed'
<1>1. Quiet /\ job.at = "check" /\ job \in JobType /\ job.rel \in Releases
  BY DEF Check, At, Quiet, IInv, TypeOK, JobWellFormed
<1>2. CASE Throw
  BY <1>1, <1>2, ThrowEasy
<1>3. CASE ~Throw
  <2>1. job' = [job EXCEPT !.at = IF job.op = "stage" THEN "stage" ELSE "approve",
                           !.seen = Recorded(Rel)]
    BY <1>3 DEF Check
  <2>2. job' \in JobType
    BY NextStep, <1>1 DEF IInv, TypeOK, Next, JobStep, Check
  <2>3. PICK j \in JobType : j = job'
    BY <2>2
  <2>4. j.at \in {"stage", "approve"} /\ j.rel = job.rel
    BY <1>1, <2>1, <2>3 DEF JobType
  <2>5. JobPlaced(j)
    BY <2>4, EasyJob DEF EasyLabels, Labels
  <2> QED
    BY <1>1, <2>3, <2>4, <2>5, QuietFrame
<1> QED
  BY <1>2, <1>3

LEMMA EasyStep ==
    ASSUME IInv, Placed, Easygoing PROVE Placed'
<1> USE DEF At
<1>1. {"build", "idle", "prerequisites", "baseline", "recheck", "adapter", "passed"}
        \subseteq EasyLabels
  BY DEF EasyLabels, Labels
<1>2. CASE Check
  BY <1>2, CheckPlaced
<1>3. CASE StageRelease
  BY <1>1, <1>3, GoEasy, AppendEasy, EasyEventFacts DEF StageRelease, Quiet
<1>4. CASE StageReady
  BY <1>1, <1>4, ThrowEasy, DoneEasy, AppendEasy, EasyEventFacts DEF StageReady, Quiet
<1>5. CASE Approve
  <2>1. ApprovedNext \in EasyLabels
    BY <1>1 DEF ApprovedNext
  <2> QED
    BY <1>5, <2>1, GoEasy, DoneEasy, AppendEasy, EasyEventFacts DEF Approve, Quiet
<1>6. CASE Prerequisites
  <2>1. Intent("prerequisites") \in EasyEvents
    BY EasyEventFacts DEF Operations
  <2> QED
    BY <1>1, <1>6, <2>1, ThrowEasy, GoEasy, AppendEasy DEF Prerequisites, Quiet
<1>7. CASE RunAdapter
  <2>1. Result("prerequisites") \in EasyEvents
    BY EasyEventFacts DEF Operations, Moving
  <2> QED
    BY <1>1, <1>7, <2>1, ThrowEasy, AppendEasy DEF RunAdapter, Quiet
<1>8. CASE PrerequisitesPassed
  BY <1>1, <1>8, AppendEasy, EasyEventFacts DEF PrerequisitesPassed, Quiet
<1>9. CASE Recheck
  BY <1>1, <1>9, ThrowEasy, GoEasy, AppendEasy, EasyEventFacts DEF Recheck, Quiet
<1>10. CASE VerifyRollback
  BY <1>10, ThrowEasy, DoneEasy DEF VerifyRollback, Quiet
<1>11. CASE Obstacle
  BY <1>1, <1>11, DoneEasy, AppendEasy, EasyEventFacts DEF Obstacle, Quiet
<1>12. CASE AppendRefused
  BY <1>12, ThrowEasy DEF AppendRefused, Quiet
<1>13. CASE Interrupted
  BY <1>13, ThrowEasy DEF Interrupted, Quiet
<1>14. CASE Crash
  BY <1>14, DoneEasy DEF Crash, Quiet
<1> QED
  BY <1>2, <1>3, <1>4, <1>5, <1>6, <1>7, <1>8, <1>9, <1>10, <1>11, <1>12, <1>13,
     <1>14 DEF Easygoing

LEMMA StartPlaced ==
    ASSUME IInv, Placed, NEW r \in Releases, NEW command \in {"stage", "promote"},
           Start(r, command)
    PROVE  Placed'
<1> DEFINE k == [rel |-> r, at |-> "check", op |-> command, event |-> "release.waiting",
                 next |-> "idle", seen |-> {}]
<1>1. job' = k
  BY Zenon DEF Start, NoJob
<1>2. k \in JobType /\ Quiet
  BY DEF Start, JobType, Labels, Phases, Events, Quiet
<1>3. JobPlaced(k)
  BY <1>2, EasyJob DEF EasyLabels, Labels
<1> QED
  BY <1>1, <1>2, <1>3, QuietFrame

\* The staging begins: it moves nothing in production.
LEMMA StageBuildPlaced == ASSUME IInv, Placed, StageBuild PROVE Placed'
<1>1. /\ Quiet /\ job.at = "build" /\ job \in JobType /\ job.rel \in Releases
      /\ job.op = "stage"
  BY DEF StageBuild, At, Quiet, IInv, TypeOK, JobWellFormed, Where
<1>2. "begin" \in Labels /\ "build.passed" \in Events /\ "build.passed" \in EasyEvents
  BY EasyEventFacts DEF Labels, EasyEvents
<1>3. PICK j \in JobType :
        /\ job' = j /\ j.rel = job.rel /\ j.op = "stage" /\ Where(j) = "begin"
        /\ j.at = "append" => j.event = "build.passed"
  <2>1. CASE Goto("begin")
    BY <1>1, <1>2, <2>1, GotoJob DEF Where
  <2>2. CASE ToAppend("build.passed", "begin")
    <3>1. PICK j \in JobType :
            /\ job' = j /\ j.at = "append" /\ j.event = "build.passed" /\ j.next = "begin"
            /\ j.rel = job.rel /\ j.op = job.op /\ j.seen = job.seen
      BY <1>1, <1>2, <2>2, AppendJob
    <3> QED
      BY <1>1, <3>1 DEF Where
  <2> QED
    BY <2>1, <2>2 DEF StageBuild
<1>4. JobPlaced(j)
  BY <1>2, <1>3 DEF JobPlaced, Promoted, Expected, EasyEvents, Moving
<1> QED
  BY <1>1, <1>3, <1>4, QuietFrame

\* A job turns to the promotion, or to the rollback.
LEMMA TurnPlaced ==
    ASSUME IInv, Placed, Quiet, job.at # "idle", NEW p \in Moving,
           job' = [job EXCEPT !.at = "begin", !.op = p],
           p = "rollback" => Result("promote") \in Recorded(job.rel),
           \/ Recorded(job.rel) \cap {Intent(p), Result(p)} # {}
           \/ Expected(job.rel, p)
    PROVE  Placed'
<1> DEFINE k == [rel |-> job.rel, at |-> "begin", op |-> p, event |-> job.event,
                 next |-> job.next, seen |-> job.seen]
<1>1. job \in JobType /\ job.rel \in Releases
  BY DEF IInv, TypeOK, JobWellFormed
<1>2. job' = k
  BY <1>1, Zenon DEF JobType
<1>3. k \in JobType
  BY <1>1 DEF JobType, Labels, Phases, Moving
<1>4. JobPlaced(k)
  BY <1>1 DEF JobPlaced, Where, Known, Promoted, Moving
<1> QED
  BY <1>1, <1>2, <1>3, <1>4, QuietFrame

LEMMA CheckBaselinePlaced == ASSUME IInv, Placed, CheckBaseline PROVE Placed'
<1>1. Quiet /\ job.at = "baseline"
  BY DEF CheckBaseline, At, Quiet
<1>2. CASE Throw
  BY <1>1, <1>2, ThrowEasy
<1>3. CASE /\ job' = [job EXCEPT !.at = "begin", !.op = "promote"]
           /\ BaselineHolds(Rel)
  <2>1. \/ Recorded(job.rel) \cap {Intent("promote"), Result("promote")} # {}
        \/ Expected(job.rel, "promote")
    BY <1>3 DEF BaselineHolds, Expected, Rel
  <2> QED
    BY <1>1, <1>3, <2>1, TurnPlaced DEF Moving
<1> QED
  BY <1>2, <1>3 DEF CheckBaseline

LEMMA DoubtPlaced == ASSUME IInv, Placed, Doubt PROVE Placed'
<1>1. Quiet /\ job.at = "doubt"
  BY DEF Doubt, At, Quiet
<1>2. CASE Done
  BY <1>1, <1>2, DoneEasy
<1>3. CASE /\ job' = [job EXCEPT !.at = "begin", !.op = "rollback"]
           /\ production = Rel
  <2>1. Result("promote") \in Recorded(job.rel)
    BY <1>1 DEF Placed, JobPlaced, Promoted, Where, Known
  <2>2. Expected(job.rel, "rollback")
    BY <1>3 DEF Expected, Rel
  <2> QED
    BY <1>1, <1>3, <2>1, <2>2, TurnPlaced DEF Moving
<1> QED
  BY <1>2, <1>3 DEF Doubt

LEMMA AfterOperationPlaced == ASSUME IInv, Placed, AfterOperation PROVE Placed'
<1>1. /\ Quiet /\ job.at = "settled" /\ job \in JobType /\ job.rel \in Releases
      /\ job.op = "promote" => Result("promote") \in Recorded(job.rel)
  BY DEF AfterOperation, At, Quiet, IInv, TypeOK, JobWellFormed, Placed, JobPlaced,
         Promoted, Where, Known
<1>2. {"ready", "verify"} \subseteq EasyLabels /\ "observe" \in Labels
  BY DEF EasyLabels, Labels
<1>3. CASE Goto("ready") \/ Goto("verify")
  BY <1>1, <1>2, <1>3, GoEasy
<1>4. CASE Goto("observe") /\ job.op = "promote"
  <2>1. PICK j \in JobType : /\ job' = j /\ j.at = "observe"
                             /\ j.rel = job.rel /\ j.op = job.op /\ j.seen = job.seen
    BY <1>1, <1>2, <1>4, GotoJob
  <2>2. JobPlaced(j)
    BY <1>1, <1>4, <2>1 DEF JobPlaced, Promoted, Where, Known
  <2> QED
    BY <1>1, <2>1, <2>2, QuietFrame
<1> QED
  BY <1>1, <1>3, <1>4 DEF AfterOperation

\* The observation and the completion of a release that is promoted.
LEMMA AfterPromotion ==
    ASSUME IInv, Placed, Quiet, NEW e, NEW l,
           \/ At("observe") /\ e = "live.passed" /\ l = "complete"
           \/ At("complete") /\ e = "release.complete" /\ l = "idle",
           ToAppend(e, l)
    PROVE  Placed'
<1>1. /\ job \in JobType /\ job.rel \in Releases
      /\ Result("promote") \in Recorded(job.rel)
  BY DEF At, IInv, TypeOK, JobWellFormed, Placed, JobPlaced, Promoted, Where, Known
<1>2. e \in Events /\ l \in Labels /\ e \in {"live.passed", "release.complete"}
      /\ l \in {"complete", "idle"}
  BY EasyEventFacts DEF Labels
<1>3. PICK j \in JobType : /\ job' = j /\ j.at = "append" /\ j.event = e /\ j.next = l
                           /\ j.rel = job.rel /\ j.op = job.op /\ j.seen = job.seen
  BY <1>1, <1>2, AppendJob
<1>4. JobPlaced(j)
  BY <1>1, <1>2, <1>3, EasyEventFacts DEF JobPlaced, Where, Known
<1> QED
  BY <1>1, <1>3, <1>4, QuietFrame

LEMMA ObservePlaced == ASSUME IInv, Placed, Observe PROVE Placed'
<1>1. CASE Throw
  BY <1>1, ThrowEasy DEF Observe, At, Quiet
<1>2. CASE ToAppend("live.passed", "complete")
  BY <1>2, AfterPromotion DEF Observe, Quiet
<1> QED
  BY <1>1, <1>2 DEF Observe

LEMMA CompletePlaced == ASSUME IInv, Placed, Complete PROVE Placed'
BY AfterPromotion DEF Complete, Quiet

\* An operation that is claimed settled by no record keeps others from a call.
LEMMA SettledIsNotStuck ==
    ASSUME NEW r \in Releases, OthersSettled(r)
    PROVE  \A s \in Releases \ {r} : ~Stuck(s)
<1> SUFFICES ASSUME NEW s \in Releases \ {r}, NEW p \in Phases,
                    Intent(p) \in Recorded(s), ~Claimed(s, Result(p))
             PROVE  FALSE
  BY DEF Stuck
<1>1. p \in Unresolved(s)
  BY OperationEvents DEF Unresolved, Claimed
<1> QED
  BY <1>1 DEF OthersSettled

LEMMA BeginOperationPlaced == ASSUME IInv, Placed, BeginOperation PROVE Placed'
<1>1. /\ Quiet /\ job.at = "begin" /\ job \in JobType /\ job.rel \in Releases
      /\ job.op \in Phases /\ Rel = job.rel
  BY DEF BeginOperation, At, Quiet, IInv, TypeOK, JobType, JobWellFormed, Rel
<1>2. /\ Intent(job.op) \in EasyEvents /\ Intent(job.op) \in Events
      /\ Result(job.op) \in Events /\ Result(job.op) \notin {"live.passed", "release.complete"}
      /\ Result("promote") # Result("rollback")
      /\ job.op \notin Moving => Result(job.op) \in EasyEvents
      /\ {"settled", "submit"} \subseteq Labels /\ "obstacle" \in EasyLabels
  BY <1>1, OperationEvents, EasyEventFacts DEF Labels, EasyLabels, EasyEvents, Plain
<1>3. /\ job.op = "rollback" => Result("promote") \in Recorded(job.rel)
      /\ \/ Recorded(job.rel) \cap {Intent(job.op), Result(job.op)} # {}
         \/ Expected(job.rel, job.op)
         \/ \E s \in Releases \ {job.rel} : Stuck(s)
  BY <1>1 DEF Placed, JobPlaced, Promoted, Where, Known
<1>4. CASE Throw
  BY <1>1, <1>4, ThrowEasy
<1>5. CASE UnknownWaits
  BY <1>1, <1>2, <1>5, GoEasy DEF UnknownWaits
<1>6. CASE Goto("settled") /\ Result(job.op) \in Recorded(Rel)
  <2>1. PICK j \in JobType : /\ job' = j /\ j.at = "settled"
                             /\ j.rel = job.rel /\ j.op = job.op /\ j.seen = job.seen
    BY <1>1, <1>2, <1>6, GotoJob
  <2>2. JobPlaced(j)
    BY <1>1, <1>6, <2>1 DEF JobPlaced, Promoted, Where, Known
  <2> QED
    BY <1>1, <2>1, <2>2, QuietFrame
<1>7. CASE /\ ToAppend(Result(job.op), "settled")
           /\ RequestUnchanged(job.op) /\ Discovered(Rel, job.op)
  <2>1. PICK j \in JobType : /\ job' = j /\ j.at = "append" /\ j.event = Result(job.op)
                             /\ j.next = "settled"
                             /\ j.rel = job.rel /\ j.op = job.op /\ j.seen = job.seen
    BY <1>1, <1>2, <1>7, AppendJob
  <2>2. job.op = "promote" => Applied(job.rel, "promote")
    BY <1>1, <1>7 DEF Discovered, Placed, CallsPlaced
  <2>3. job.op \in {"stage", "promote"}
    BY <1>1, <1>7 DEF RequestUnchanged, Phases
  <2>4. \A p \in Moving : Result(job.op) = Result(p) => job.op = p
    BY <1>2, <2>3 DEF Moving, EasyEvents
  <2>5. JobPlaced(j)
    BY <1>2, <2>1, <2>2, <2>3, <2>4 DEF JobPlaced, Promoted, Where, Known, Moving
  <2> QED
    BY <1>1, <2>1, <2>5, QuietFrame
<1>8. CASE /\ ToAppend(Intent(job.op), "submit") /\ OthersSettled(Rel)
           /\ {Intent(job.op), Result(job.op)} \cap Recorded(Rel) = {}
  <2>1. PICK j \in JobType : /\ job' = j /\ j.at = "append" /\ j.event = Intent(job.op)
                             /\ j.next = "submit"
                             /\ j.rel = job.rel /\ j.op = job.op /\ j.seen = job.seen
    BY <1>1, <1>2, <1>8, AppendJob
  <2>2. Expected(job.rel, job.op)
    BY <1>1, <1>3, <1>8, SettledIsNotStuck
  <2>3. JobPlaced(j)
    BY <1>2, <1>3, <2>1, <2>2
       DEF JobPlaced, Promoted, Where, Known, Moving, EasyEvents
  <2> QED
    BY <1>1, <2>1, <2>3, QuietFrame
<1> QED
  BY <1>1, <1>4, <1>5, <1>6, <1>7, <1>8 DEF BeginOperation

-----------------------------------------------------------------------------
(* Placed through the steps that write the journal *)

\* The record a job writes claims what the job may claim.
LEMMA ClaimsWritten ==
    ASSUME IInv, Placed, NEW r \in Releases, NEW x \in RecordType,
           job.at = "append", r = job.rel, x.event = job.event,
           \/ AddRecord(r, x) /\ UNCHANGED posting
           \/ UNCHANGED github
           \/ UNCHANGED journal /\ posting' = posting \cup {<<r, x>>},
           UNCHANGED <<previous, vercel, submitted>>
    PROVE  /\ CallsPlaced'
           /\ \A s \in Releases : Recorded(s) \subseteq Recorded(s)'
           /\ \A e : \A s \in Releases \ {r} : Claimed(s, e)' <=> Claimed(s, e)
<1> USE DEF github
<1>1. \A s \in Releases \ {r} : Recorded(s)' = Recorded(s)
  BY RecordAdded DEF Recorded, IInv
<1>2. Recorded(r) \subseteq Recorded(r)' /\ Recorded(r)' \subseteq Recorded(r) \cup {x.event}
  BY RecordAdded DEF Recorded, IInv
<1>3. \A e : \A s \in Releases \ {r} : Posted(s, e)' <=> Posted(s, e)
  BY DEF Posted, AddRecord
<1>4. \A e : Posted(r, e)' => Posted(r, e) \/ e = x.event
  BY DEF Posted
<1>5. \A p \in Moving : x.event = Result(p) => Applied(r, p)
  BY DEF Placed, JobPlaced
<1>6. \A s \in Releases, p \in Moving :
        Claimed(s, Result(p))' => Claimed(s, Result(p)) \/ Applied(s, p)
  BY <1>1, <1>2, <1>3, <1>4, <1>5 DEF Claimed
<1>7. CallsPlaced'
  BY <1>1, <1>2, <1>6, CallsStay DEF Placed
<1> QED
  BY <1>1, <1>2, <1>3, <1>7 DEF Claimed

LEMMA AppendPlaced == ASSUME IInv, Placed, Append PROVE Placed'
<1>1. PICK i \in JobType : i = job
  BY DEF IInv, TypeOK
<1>2. /\ i.at = "append" /\ JobPlaced(i) /\ Rel = i.rel /\ i.rel \in Releases
      /\ i.next \in Labels /\ i.next # "append"
      /\ UNCHANGED <<previous, vercel, submitted>>
  BY <1>1 DEF Append, At, IInv, Rel, JobType, JobWellFormed, Placed
<1>3. PICK x \in RecordType : x = NextRecord /\ x.event = i.event
  BY <1>1, <1>2, NextRecordType DEF IInv, World
<1>4. PICK r \in Releases : r = i.rel
  BY <1>2
<1>5. AddRecord(r, x) /\ UNCHANGED posting
  BY <1>2, <1>3, <1>4 DEF Append
<1>6. /\ CallsPlaced'
      /\ \A s \in Releases : Recorded(s) \subseteq Recorded(s)'
      /\ \A e : \A s \in Releases \ {r} : Claimed(s, e)' <=> Claimed(s, e)
  BY <1>1, <1>2, <1>3, <1>4, <1>5, ClaimsWritten
<1>7. Recorded(r)' = Recorded(r) \cup {x.event}
  BY <1>5, RecordAdded DEF IInv
<1>8. CASE job' = NoJob
  BY <1>6, <1>8 DEF Placed, JobPlaced, NoJob
<1>9. CASE Goto(i.next)
  <2>1. PICK j \in JobType : /\ job' = j /\ j.at = i.next
                             /\ j.rel = i.rel /\ j.op = i.op /\ j.seen = i.seen
    BY <1>1, <1>2, <1>9, GotoJob
  <2>2. /\ Where(j)' = Where(i) /\ Promoted(j)' = Promoted(i)
        /\ Known(j)' = Known(i)
    BY <1>2, <1>3, <1>4, <1>7, <2>1 DEF Where, Promoted, Known
  <2>3. \A s, p : Expected(s, p)' <=> Expected(s, p)
    BY <1>2 DEF Expected, vercel
  <2>4. \A s \in Releases \ {r} : Stuck(s) => Stuck(s)'
    BY <1>6 DEF Stuck
  <2>5. JobPlaced(j)'
    BY <1>2, <1>4, <1>6, <2>1, <2>2, <2>3, <2>4 DEF JobPlaced
  <2> QED
    BY <1>6, <2>1, <2>5 DEF Placed
<1> QED
  BY <1>1, <1>8, <1>9 DEF Append, Done

LEMMA AppendFailsPlaced == ASSUME IInv, Placed, AppendFails PROVE Placed'
<1>1. PICK i \in JobType : i = job
  BY DEF IInv, TypeOK
<1>2. /\ i.at = "append" /\ JobPlaced(i) /\ Rel = i.rel /\ i.rel \in Releases
      /\ UNCHANGED <<previous, vercel, submitted>> /\ Throw
  BY <1>1 DEF AppendFails, At, IInv, Rel, JobType, JobWellFormed, Placed
<1>3. PICK x \in RecordType : x = NextRecord /\ x.event = i.event
  BY <1>1, <1>2, NextRecordType DEF IInv, World
<1>4. PICK r \in Releases : r = i.rel
  BY <1>2
<1>5. \/ AddRecord(r, x) /\ UNCHANGED posting
      \/ UNCHANGED github
      \/ UNCHANGED journal /\ posting' = posting \cup {<<r, x>>}
  BY <1>2, <1>3, <1>4 DEF AppendFails
<1>6. CallsPlaced' /\ \A s \in Releases : Recorded(s) \subseteq Recorded(s)'
  BY <1>1, <1>2, <1>3, <1>4, <1>5, ClaimsWritten
<1>7. PICK j \in JobType :
        /\ job' = j /\ (j.at # "idle" => j.rel \in Releases)
        /\ \/ j.at \in EasyLabels
           \/ j.at = "doubt" /\ Result("promote") \in Recorded(j.rel)
  BY <1>1, <1>2, ThrowJob
<1>8. JobPlaced(j)'
  <2>1. CASE j.at \in EasyLabels
    BY <2>1 DEF JobPlaced, Where, Promoted, EasyLabels
  <2>2. CASE j.at = "doubt" /\ Result("promote") \in Recorded(j.rel)
    BY <1>6, <1>7, <2>2 DEF JobPlaced, Where, Promoted, Known
  <2> QED
    BY <1>7, <2>1, <2>2
<1> QED
  BY <1>6, <1>7, <1>8 DEF Placed

\* A late record was claimed before.
LEMMA LandRecordPlaced ==
    ASSUME IInv, Placed, NEW r, NEW x, LandRecord(r, x) PROVE Placed'
<1>1. r \in Releases /\ x \in RecordType /\ <<r, x>> \in posting
  BY DEF LandRecord, IInv, TypeOK
<1>2. /\ AddRecord(r, x) /\ posting' \subseteq posting
      /\ UNCHANGED <<previous, vercel, submitted>> /\ job' = job
  BY DEF LandRecord
<1>3. /\ \A s \in Releases : Recorded(s) \subseteq Recorded(s)'
      /\ \A s \in Releases : s # r => journal'[s] = journal[s]
      /\ Recorded(r)' = Recorded(r) \cup {x.event}
  BY <1>1, <1>2, RecordAdded DEF IInv
<1>4. \A e : \A s \in Releases : Posted(s, e)' => Posted(s, e)
  BY <1>2 DEF Posted
<1>5. Posted(r, x.event)
  BY <1>1 DEF Posted
<1>6. \A e : \A s \in Releases : Claimed(s, e)' => Claimed(s, e)
  BY <1>3, <1>4, <1>5 DEF Claimed, Recorded
<1>7. CallsPlaced'
  BY <1>2, <1>3, <1>6, CallsStay DEF Placed
<1>8. PICK j \in JobType : j = job /\ (j.at # "idle" => j.rel \in Releases)
  BY DEF IInv, TypeOK, JobWellFormed
<1>9. JobPlaced(j)'
  BY <1>2, <1>3, <1>6, <1>8, JobPlacedStays DEF Placed
<1>10. job' = j
  BY <1>2, <1>8
<1> QED
  BY <1>7, <1>9, <1>10 DEF Placed

-----------------------------------------------------------------------------
(* Placed through the steps of Vercel and other people *)

\* The outcome of a call that may still be applied is in doubt.
LEMMA CallInDoubt ==
    ASSUME IInv, CallsPlaced, NEW r \in Releases, NEW p \in Moving, <<r, p>> \in calls
    PROVE  InDoubt(r) /\ Stuck(r) /\ Intent(p) \in Recorded(r)
<1>1. p \in Phases
  BY DEF Moving, Phases
<1>2. submitted[r][p] > 0 /\ ~Claimed(r, Result(p)) /\ Intent(p) \in Recorded(r)
  BY <1>1 DEF CallsPlaced, Applied, IInv, World, CallsCounted
<1> QED
  BY <1>1, <1>2 DEF InDoubt, Stuck, Claimed

\* A rollback is called after the promotion was applied.
LEMMA RollbackAfterPromotion ==
    ASSUME CallsPlaced, NEW r \in Releases, submitted[r]["rollback"] > 0
    PROVE  Applied(r, "promote") /\ Result("promote") \in Recorded(r)
BY DEF CallsPlaced, Claimed, Moving

\* What a job knows of a promotion is true.
LEMMA PromotedIsApplied ==
    ASSUME CallsPlaced, NEW j \in JobType, JobPlaced(j), j.at # "idle",
           j.rel \in Releases, Promoted(j)
    PROVE  Applied(j.rel, "promote")
<1>1. Result("promote") \in Known(j) /\ "promote" \in Moving
  BY DEF JobPlaced, Moving
<1>2. CASE Result("promote") \in Recorded(j.rel)
  BY <1>1, <1>2 DEF CallsPlaced, Claimed
<1>3. CASE j.at = "append" /\ j.event = Result("promote")
  BY <1>1, <1>3 DEF JobPlaced
<1> QED
  BY <1>1, <1>2, <1>3 DEF Known

\* Only one call that moves production may still be applied.
LEMMA OneMovingCall ==
    ASSUME IInv, CallsPlaced, NEW r \in Releases, NEW s \in Releases,
           NEW p \in Moving, NEW q \in Moving, <<r, p>> \in calls, <<s, q>> \in calls
    PROVE  r = s /\ p = q
<1>1. r = s
  BY CallInDoubt DEF IInv, World, OneInDoubt
<1>2. ~(<<r, "promote">> \in calls /\ <<r, "rollback">> \in calls)
  <2> SUFFICES ASSUME <<r, "promote">> \in calls, <<r, "rollback">> \in calls
               PROVE  FALSE
    OBVIOUS
  <2>1. submitted[r]["rollback"] > 0
    BY DEF CallsPlaced, Phases
  <2> QED
    BY <2>1, RollbackAfterPromotion DEF Applied
<1> QED
  BY <1>1, <1>2 DEF Moving

\* No late call can move production under a job that is about to move it.
LEMMA NoCallAtSubmit ==
    ASSUME IInv, CallsPlaced, NEW j \in JobType, JobWellFormed(j), JobPlaced(j),
           j.at # "idle", Where(j) = "submit", j.op \in Moving,
           NEW s \in Releases, NEW q \in Moving, <<s, q>> \in calls
    PROVE  FALSE
<1>1. /\ j.rel \in Releases /\ submitted[j.rel][j.op] = 0
      /\ \A t \in Releases \ {j.rel} : ~InDoubt(t)
  BY DEF JobWellFormed
<1>2. s = j.rel
  BY <1>1, CallInDoubt
<1>3. submitted[s][q] > 0 /\ q \in Phases
  BY DEF CallsPlaced, Moving, Phases
<1>4. CASE j.op = "promote" /\ q = "rollback"
  <2>1. Applied(s, "promote")
    BY <1>3, <1>4, RollbackAfterPromotion
  <2> QED
    BY <1>1, <1>2, <1>4, <2>1 DEF Applied
<1>5. CASE j.op = "rollback" /\ q = "promote"
  <2>1. Promoted(j)
    BY <1>5 DEF Promoted
  <2>2. Applied(j.rel, "promote")
    BY <1>1, <2>1, PromotedIsApplied
  <2> QED
    BY <1>2, <1>5, <2>2 DEF Applied
<1> QED
  BY <1>1, <1>2, <1>3, <1>4, <1>5 DEF Moving

\* The call of a job that finds production where it is expected.
LEMMA CallPlaced ==
    ASSUME IInv, Placed, At("submit"), Counted, UNCHANGED <<previous, github>>,
           \/ Effect(Rel, job.op) /\ UNCHANGED calls
           \/ UNCHANGED vercel
           \/ UNCHANGED <<production, built>> /\ calls' = calls \cup {<<Rel, job.op>>}
    PROVE  /\ CallsPlaced'
           /\ \A r, p : r = Rel /\ p = job.op /\ UNCHANGED calls => Applied(r, p)'
<1>1. PICK i \in JobType : i = job
  BY DEF IInv, TypeOK
<1>2. /\ i.at = "submit" /\ Where(i) = "submit" /\ JobWellFormed(i) /\ JobPlaced(i)
      /\ CallsPlaced
  BY <1>1 DEF At, IInv, Placed, Where
<1>3. PICK r \in Releases, p \in Phases : r = i.rel /\ p = i.op
  BY <1>1, <1>2 DEF JobWellFormed, JobType
<1>4. /\ submitted[r][p] = 0 /\ previous[r] # NoDeployment /\ Expected(r, p)
      /\ submitted \in [Releases -> [Phases -> Nat]]
  BY <1>2, <1>3 DEF JobWellFormed, JobPlaced, IInv, TypeOK
<1>5. submitted' = [submitted EXCEPT ![r][p] = @ + 1]
  BY <1>1, <1>3 DEF Counted, Rel
<1>6. /\ submitted'[r][p] = 1
      /\ \A s \in Releases, q \in Phases : <<s, q>> # <<r, p>> =>
           submitted'[s][q] = submitted[s][q]
  BY <1>4, <1>5
<1>7. \/ Effect(r, p) /\ calls' = calls
      \/ production' = production /\ calls' = calls
      \/ production' = production /\ calls' = calls \cup {<<r, p>>}
  BY <1>1, <1>3 DEF Rel, vercel
<1>8. <<r, p>> \notin calls
  BY <1>4 DEF Placed, CallsPlaced
<1>9. \A s \in Releases, q \in Phases : Applied(s, q) => Applied(s, q)'
  BY <1>4, <1>6, <1>7 DEF Applied
<1>10. ASSUME p \in Moving, NEW s \in Releases, NEW q \in Moving, <<s, q>> \in calls
       PROVE  FALSE
  <2>1. i.at # "idle" /\ i.op \in Moving
    BY <1>2, <1>3, <1>10
  <2> QED
    BY <1>2, <1>10, <2>1, NoCallAtSubmit
<1>11. \A e : \A s \in Releases : Claimed(s, e)' <=> Claimed(s, e)
  BY DEF Claimed, Recorded, Posted, github
<1>12. ASSUME NEW s \in Releases,
              production' = s \/ \E t \in Releases : previous'[t] = s
       PROVE  Applied(s, "promote")'
  <2>0. "promote" \in Phases
    BY DEF Phases
  <2>1. CASE production = s \/ \E t \in Releases : previous[t] = s
    BY <1>2, <1>9, <2>0, <2>1 DEF CallsPlaced
  <2>2. CASE p = "promote" /\ s = r /\ calls' = calls
    BY <1>6, <1>8, <2>2 DEF Applied
  <2>3. CASE previous[r] = s
    BY <2>1, <2>3
  <2> QED
    BY <1>7, <1>12, <2>1, <2>2, <2>3 DEF Effect, Phases
<1>13. ASSUME NEW s \in Releases, NEW q \in Moving, Claimed(s, Result(q))'
       PROVE  Applied(s, q)'
  BY <1>2, <1>9, <1>11, <1>13 DEF CallsPlaced, Moving, Phases
<1>14. ASSUME NEW s \in Releases, submitted'[s]["rollback"] > 0
       PROVE  Result("promote") \in Recorded(s)'
  <2>1. Recorded(s)' = Recorded(s) /\ "rollback" \in Phases
    BY DEF Recorded, github, Phases
  <2>2. CASE s = r /\ p = "rollback"
    BY <1>2, <1>3, <2>1, <2>2 DEF JobPlaced, Promoted, Known
  <2>3. CASE ~(s = r /\ p = "rollback")
    BY <1>2, <1>6, <1>14, <2>1, <2>3 DEF CallsPlaced
  <2> QED
    BY <2>2, <2>3
<1>15. ASSUME NEW s \in Releases, NEW q \in Phases, <<s, q>> \in calls'
       PROVE  submitted'[s][q] > 0 /\ previous'[s] # NoDeployment /\ Expected(s, q)'
  <2>1. CASE <<s, q>> = <<r, p>>
    <3>1. production' = production
      BY <1>7, <1>8, <1>15, <2>1
    <3> QED
      BY <1>4, <1>6, <2>1, <3>1 DEF Expected
  <2>2. CASE <<s, q>> # <<r, p>>
    <3>1. /\ <<s, q>> \in calls
          /\ submitted[s][q] > 0 /\ previous[s] # NoDeployment /\ Expected(s, q)
      BY <1>2, <1>7, <1>15, <2>2 DEF CallsPlaced
    <3>2. q \in Moving => production' = production
      BY <1>7, <1>10, <3>1 DEF Effect, Moving, Phases
    <3> QED
      BY <1>6, <2>2, <3>1, <3>2 DEF Expected, Moving
  <2> QED
    BY <2>1, <2>2
<1>16. CallsPlaced'
  BY <1>12, <1>13, <1>14, <1>15 DEF CallsPlaced
<1>17. \A s, q : s = Rel /\ q = job.op /\ UNCHANGED calls => Applied(s, q)'
  BY <1>6, <1>8, <1>1, <1>3 DEF Applied, Rel
<1> QED
  BY <1>16, <1>17

LEMMA SubmitPlaced == ASSUME IInv, Placed, Submit PROVE Placed'
<1>1. PICK i \in JobType : i = job
  BY DEF IInv, TypeOK
<1>2. i.rel \in Releases /\ i.op \in Phases /\ JobPlaced(i) /\ i.at = "submit"
  BY <1>1 DEF Submit, At, IInv, JobWellFormed, JobType, Placed
<1>3. CallsPlaced' /\ Applied(i.rel, i.op)'
  BY <1>1, CallPlaced DEF Submit, Rel
<1>4. /\ Result(i.op) \in Events /\ "settled" \in Labels
      /\ Result(i.op) \notin {"live.passed", "release.complete"}
      /\ \A p \in Moving : Result(i.op) = Result(p) => i.op = p
  BY <1>2, OperationEvents, EasyEventFacts DEF Labels, EasyEvents, Plain, Moving
<1>5. PICK j \in JobType : /\ job' = j /\ j.at = "append" /\ j.event = Result(i.op)
                           /\ j.next = "settled"
                           /\ j.rel = i.rel /\ j.op = i.op /\ j.seen = i.seen
  BY <1>1, <1>4, AppendJob DEF Submit
<1>6. JobPlaced(j)'
  BY <1>3, <1>4, <1>5 DEF JobPlaced, Promoted, Where, Known
<1> QED
  BY <1>3, <1>5, <1>6 DEF Placed

LEMMA SubmitFailsPlaced == ASSUME IInv, Placed, SubmitFails PROVE Placed'
<1>1. CallsPlaced'
  BY CallPlaced DEF SubmitFails
<1>2. job \in JobType /\ "release.waiting" \in Events /\ "obstacle" \in Labels
  BY DEF IInv, TypeOK, Events, Labels
<1>3. PICK j \in JobType : /\ job' = j /\ j.at = "append" /\ j.event = "release.waiting"
                           /\ j.next = "obstacle"
                           /\ j.rel = job.rel /\ j.op = job.op /\ j.seen = job.seen
  BY <1>2, AppendJob DEF SubmitFails
<1>4. /\ \A p \in Moving : j.event # Result(p)
      /\ j.event \notin {"live.passed", "release.complete"}
  BY <1>3, EasyEventFacts DEF EasyEvents, Moving
<1>5. JobPlaced(j)'
  BY <1>3, <1>4 DEF JobPlaced, Promoted, Where
<1> QED
  BY <1>1, <1>3, <1>5 DEF Placed

LEMMA LandCallPlaced ==
    ASSUME IInv, Placed, NEW r \in Releases, NEW p \in Phases, LandCall(r, p)
    PROVE  Placed'
<1>1. /\ <<r, p>> \in calls /\ calls' = calls \ {<<r, p>>} /\ Effect(r, p)
      /\ UNCHANGED <<previous, github, job, submitted>> /\ CallsPlaced
  BY DEF LandCall, Placed
<1>2. submitted[r][p] > 0 /\ previous[r] # NoDeployment
  BY <1>1 DEF CallsPlaced
<1>3. \A s, q : Applied(s, q) => Applied(s, q)'
  BY <1>1 DEF Applied
<1>4. \A s : Recorded(s)' = Recorded(s)
  BY <1>1 DEF Recorded, github
<1>5. \A e, s : Claimed(s, e)' <=> Claimed(s, e)
  BY <1>1, <1>4 DEF Claimed, Posted, github
<1>6. Applied(r, p)'
  BY <1>1, <1>2 DEF Applied
<1>7. p \notin Moving => production' = production
  BY <1>1 DEF Effect, Moving, Phases
<1>8. ASSUME NEW s \in Releases,
             production' = s \/ \E t \in Releases : previous'[t] = s
      PROVE  Applied(s, "promote")'
  <2>1. CASE production = s \/ \E t \in Releases : previous[t] = s
    BY <1>1, <1>3, <2>1 DEF CallsPlaced
  <2>2. CASE p = "promote" /\ s = r
    BY <1>6, <2>2
  <2> QED
    BY <1>1, <1>8, <2>1, <2>2 DEF Effect, Phases
<1>9. ASSUME NEW s \in Releases, NEW q \in Phases, <<s, q>> \in calls'
      PROVE  submitted'[s][q] > 0 /\ previous'[s] # NoDeployment /\ Expected(s, q)'
  <2>1. /\ <<s, q>> \in calls /\ <<s, q>> # <<r, p>>
        /\ submitted[s][q] > 0 /\ previous[s] # NoDeployment /\ Expected(s, q)
    BY <1>1, <1>9 DEF CallsPlaced
  <2>2. q \in Moving => p \notin Moving
    BY <1>1, <2>1, OneMovingCall
  <2> QED
    BY <1>1, <1>7, <2>1, <2>2 DEF Expected, Moving
<1>10. CallsPlaced'
  <2>1. ASSUME NEW s \in Releases
        PROVE  /\ \A q \in Moving : Claimed(s, Result(q))' => Applied(s, q)'
               /\ submitted'[s]["rollback"] > 0 => Result("promote") \in Recorded(s)'
    BY <1>1, <1>3, <1>4, <1>5 DEF CallsPlaced
  <2> QED
    BY <1>8, <1>9, <2>1 DEF CallsPlaced
<1>11. PICK j \in JobType : j = job
  BY DEF IInv, TypeOK
<1>12. JobWellFormed(j) /\ JobPlaced(j) /\ job' = j
  BY <1>1, <1>11 DEF IInv, Placed
<1>13. JobPlaced(j)'
  <2> SUFFICES ASSUME j.at # "idle" PROVE JobPlaced(j)'
    BY DEF JobPlaced
  <2>1. j.rel \in Releases /\ j.op \in Phases
    BY <1>12 DEF JobWellFormed, JobType
  <2>2. /\ Where(j)' = Where(j) /\ Promoted(j)' = Promoted(j)
        /\ Known(j)' = Known(j)
    BY <1>4 DEF Where, Promoted, Known
  <2>3. /\ j.at = "append" =>
             /\ \A q \in Moving : j.event = Result(q) => Applied(j.rel, q)'
             /\ j.event \in {"live.passed", "release.complete"} =>
                  Result("promote") \in Recorded(j.rel)'
        /\ Promoted(j) => Result("promote") \in Known(j)
    BY <1>3, <1>4, <1>12 DEF JobPlaced
  <2>4. Where(j) = "submit" => Expected(j.rel, j.op)'
    <3>1. CASE j.op \in Moving
      <4>1. Where(j) = "submit" => p \notin Moving
        BY <1>1, <1>12, <3>1, NoCallAtSubmit
      <4> QED
        BY <1>1, <1>7, <1>12, <4>1 DEF JobPlaced, Expected
    <3>2. CASE j.op \notin Moving
      BY <3>2 DEF Expected, Moving
    <3> QED
      BY <3>1, <3>2
  <2>5. ASSUME Where(j) = "begin"
        PROVE  \/ Recorded(j.rel) \cap {Intent(j.op), Result(j.op)} # {}
               \/ Expected(j.rel, j.op)'
               \/ \E s \in Releases \ {j.rel} : Stuck(s)
    <3>1. CASE p \notin Moving \/ j.op \notin Moving
      BY <1>1, <1>7, <1>12, <2>5, <3>1 DEF JobPlaced, Expected, Moving
    <3>2. CASE p \in Moving /\ r # j.rel
      BY <1>1, <3>2, CallInDoubt
    <3>3. CASE p \in Moving /\ r = j.rel /\ j.op = p
      BY <1>1, <3>3, CallInDoubt
    <3>4. CASE r = j.rel /\ p = "promote" /\ j.op = "rollback"
      <4>1. Promoted(j)
        BY <2>5, <3>4 DEF Promoted
      <4>2. Applied(r, "promote")
        BY <1>1, <1>12, <2>1, <3>4, <4>1, PromotedIsApplied
      <4> QED
        BY <1>1, <3>4, <4>2 DEF Applied
    <3>5. CASE r = j.rel /\ p = "rollback" /\ j.op = "promote"
      BY <1>1, <1>2, <3>5, RollbackAfterPromotion
    <3> QED
      BY <3>1, <3>2, <3>3, <3>4, <3>5 DEF Moving
  <2>6. \A s : Stuck(s)' <=> Stuck(s)
    BY <1>4, <1>5 DEF Stuck
  <2> QED
    BY <1>4, <2>2, <2>3, <2>4, <2>5, <2>6 DEF JobPlaced
<1> QED
  BY <1>10, <1>12, <1>13 DEF Placed

\* A baseline is named, or production replaced by other means.
LEMMA OthersPlaced ==
    ASSUME IInv, Placed,
           (\E r \in Releases : Prepare(r)) \/ OutsideDeploy
    PROVE  Placed'
<1>1. UNCHANGED <<github, calls, submitted, job>>
  BY DEF Prepare, OutsideDeploy, vercel
<1>2. \A s : Recorded(s)' = Recorded(s)
  BY <1>1 DEF Recorded, github
<1>3. /\ \A s, q : Applied(s, q)' <=> Applied(s, q)
      /\ \A e, s : Claimed(s, e)' <=> Claimed(s, e)
  BY <1>1, <1>2 DEF Applied, Claimed, Posted, github
<1>4. \A s : Stuck(s)' <=> Stuck(s)
  BY <1>2, <1>3 DEF Stuck
<1>5. /\ \A s \in Releases : production' = s => production = s
      /\ \A s, t \in Releases : previous'[t] = s => previous[t] = s \/ production = s
      /\ \A s \in Releases : previous[s] # NoDeployment => previous'[s] # NoDeployment
  BY ConstantsAssumption DEF Prepare, OutsideDeploy, vercel, IInv, TypeOK
<1>6. \A q : \A s \in Releases :
        previous[s] # NoDeployment /\ Expected(s, q) => Expected(s, q)'
  BY DEF Prepare, OutsideDeploy, vercel, IInv, TypeOK, Expected
<1>7. CallsPlaced'
  <2>1. ASSUME NEW s \in Releases,
               production' = s \/ \E t \in Releases : previous'[t] = s
        PROVE  Applied(s, "promote")'
    BY <1>3, <1>5, <2>1 DEF Placed, CallsPlaced
  <2>2. ASSUME NEW s \in Releases, NEW q \in Phases, <<s, q>> \in calls'
        PROVE  submitted'[s][q] > 0 /\ previous'[s] # NoDeployment /\ Expected(s, q)'
    BY <1>1, <1>5, <1>6, <2>2 DEF Placed, CallsPlaced
  <2>3. ASSUME NEW s \in Releases
        PROVE  /\ \A q \in Moving : Claimed(s, Result(q))' => Applied(s, q)'
               /\ submitted'[s]["rollback"] > 0 => Result("promote") \in Recorded(s)'
    BY <1>1, <1>2, <1>3 DEF Placed, CallsPlaced
  <2> QED
    BY <2>1, <2>2, <2>3 DEF CallsPlaced
<1>8. PICK j \in JobType : j = job
  BY DEF IInv, TypeOK
<1>9. /\ JobPlaced(j) /\ job' = j
      /\ j.at # "idle" => j.rel \in Releases /\ previous[j.rel] # NoDeployment
  BY <1>1, <1>8 DEF IInv, Placed, JobWellFormed
<1>10. JobPlaced(j)'
  <2> SUFFICES ASSUME j.at # "idle" PROVE JobPlaced(j)'
    BY DEF JobPlaced
  <2>1. /\ Where(j)' = Where(j) /\ Promoted(j)' = Promoted(j)
        /\ Known(j)' = Known(j)
    BY <1>2 DEF Where, Promoted, Known
  <2>2. Expected(j.rel, j.op) => Expected(j.rel, j.op)'
    BY <1>6, <1>9
  <2> QED
    BY <1>2, <1>3, <1>4, <1>9, <2>1, <2>2 DEF JobPlaced
<1> QED
  BY <1>7, <1>9, <1>10 DEF Placed

-----------------------------------------------------------------------------
(* Production moves between a release and its baseline *)

LEMMA InitPlaced == Init => Placed
<1> SUFFICES ASSUME Init PROVE Placed
  OBVIOUS
<1>1. \A r \in Releases : Recorded(r) = {} /\ \A e : ~Claimed(r, e)
  BY DEF Init, Recorded, Claimed, Posted
<1>2. CallsPlaced
  BY <1>1, ConstantsAssumption DEF Init, CallsPlaced, Phases
<1>3. JobPlaced(NoJob)
  BY DEF JobPlaced, NoJob
<1> QED
  BY <1>2, <1>3 DEF Init, Placed

LEMMA NextPlaced == ASSUME IInv, Placed, Next PROVE Placed'
<1>1. CASE JobStep
  BY <1>1, EasyStep, StageBuildPlaced, CheckBaselinePlaced, BeginOperationPlaced,
     SubmitPlaced, AfterOperationPlaced, ObservePlaced, CompletePlaced, DoubtPlaced,
     AppendPlaced DEF JobStep, Easygoing
<1>2. CASE JobFault
  BY <1>2, AppendFailsPlaced, SubmitFailsPlaced, EasyStep DEF JobFault, Easygoing
<1>3. ASSUME NEW r \in Releases,
             \/ Prepare(r) \/ Start(r, "stage") \/ Start(r, "promote")
             \/ \E p \in Phases : LandCall(r, p)
      PROVE  Placed'
  BY <1>3, OthersPlaced, StartPlaced, LandCallPlaced
<1>4. ASSUME NEW m \in posting, LandRecord(m[1], m[2]) PROVE Placed'
  BY <1>4, LandRecordPlaced
<1>5. CASE OutsideDeploy
  BY <1>5, OthersPlaced
<1> QED
  BY <1>1, <1>2, <1>3, <1>4, <1>5 DEF Next

LEMMA StutterPlaced == ASSUME IInv, Placed, UNCHANGED vars PROVE Placed'
<1>1. PICK j \in JobType : j = job /\ (j.at # "idle" => j.rel \in Releases)
  BY DEF IInv, TypeOK, JobWellFormed
<1>2. job' = j /\ JobPlaced(j) /\ Quiet
  BY <1>1 DEF vars, Placed, Quiet, github, vercel
<1> QED
  BY <1>1, <1>2, QuietFrame

\* The calls of the engine find production where their release expects it, at
\* whatever time they are applied (executeOperation, promoteRelease).
THEOREM Placement == Spec => [](IInv /\ Placed)
<1>1. IInv /\ Placed /\ [Next]_vars => IInv' /\ Placed'
  BY NextStep, StutterStep, NextPlaced, StutterPlaced
<1> QED
  BY InitIInv, InitPlaced, <1>1, PTL DEF Spec

OwnMove ==
    production' # production /\ Outsider \notin {production, production'} =>
      \E r \in Releases : {production, production'} = {previous[r], r}

\* A call that takes effect where it is expected moves production so.
LEMMA EffectOwn ==
    ASSUME NEW r \in Releases, NEW p \in Phases, Effect(r, p), Expected(r, p)
    PROVE  OwnMove
BY DEF Effect, Expected, OwnMove, Phases

LEMMA NextOwn == ASSUME IInv, Placed, Next PROVE OwnMove
<1>1. CASE At("submit") /\ Effect(Rel, job.op)
  <2>1. PICK r \in Releases, p \in Phases : r = Rel /\ p = job.op /\ Expected(r, p)
    BY <1>1 DEF At, Rel, IInv, TypeOK, JobType, JobWellFormed, Placed, JobPlaced, Where
  <2> QED
    BY <1>1, <2>1, EffectOwn
<1>2. ASSUME NEW r \in Releases, NEW p \in Phases, LandCall(r, p) PROVE OwnMove
  BY <1>2, EffectOwn DEF LandCall, Placed, CallsPlaced
<1>3. CASE OutsideDeploy
  BY <1>3 DEF OutsideDeploy, OwnMove
<1>4. CASE UNCHANGED production
  BY <1>4 DEF OwnMove
<1>5. JobStep => UNCHANGED production \/ (At("submit") /\ Effect(Rel, job.op))
  BY DEF JobStep, Check, StageRelease, StageBuild, StageReady, Approve, Prerequisites,
     RunAdapter, PrerequisitesPassed, Recheck, CheckBaseline, BeginOperation, Submit,
     AfterOperation, Observe, Complete, Doubt, VerifyRollback, Obstacle, Append,
     AppendRefused, vercel
<1>6. JobFault => UNCHANGED production \/ (At("submit") /\ Effect(Rel, job.op))
  BY DEF JobFault, AppendFails, SubmitFails, Interrupted, Crash, vercel
<1>7. \A r \in Releases :
        Prepare(r) \/ Start(r, "stage") \/ Start(r, "promote") => UNCHANGED production
  BY DEF Prepare, Start, vercel
<1>8. \A m \in posting : LandRecord(m[1], m[2]) => UNCHANGED production
  BY DEF LandRecord, vercel
<1> QED
  BY <1>1, <1>2, <1>3, <1>4, <1>5, <1>6, <1>7, <1>8 DEF Next

\* Between deployments by other means, and however late a call given up is
\* applied, production moves only between a release and its own baseline: no
\* release replaces or reverts another (PRODUCTION_BASELINE_CHANGED,
\* assertNoUnresolvedOtherRelease).
THEOREM OwnBaseline == Spec => OnlyOwnBaseline
<1>1. IInv /\ Placed /\ [Next]_vars => [OwnMove]_vars
  BY NextOwn
<1>2. Spec => [][OwnMove]_vars
  BY Placement, <1>1, PTL DEF Spec
<1> QED
  BY <1>2 DEF OnlyOwnBaseline, OwnMove
=============================================================================
