---------------------------- MODULE RapidRelease ----------------------------
(***************************************************************************)
(* The rapid release engine (scripts/lib/rapid-release/engine.mjs,         *)
(* journal.mjs, providers.mjs, scripts/rapid-release.mjs): a release is    *)
(* staged, smoke-tested, approved, promoted to production, observed, and   *)
(* rolled back when the observation fails.                                 *)
(*                                                                         *)
(* Every provider call is bracketed by an intent and a result in a journal *)
(* of GitHub Deployment objects, a hash chain per release.  Jobs run one   *)
(* at a time (the workflow's concurrency group), any of them may die, and  *)
(* the next one learns from the journal and from Vercel what was done.  A  *)
(* request whose sender timed out may still take effect, however late.     *)
(*                                                                         *)
(* Abstracted: build and smoke contents (a check passes or throws), hashes *)
(* (a record is its position, its event and, where its data differ between *)
(* attempts, the job that wrote it), the improvement registry (it is empty *)
(* in config/rapid-release-learning.json, so no recipe ever runs), and the *)
(* adapter of the prerequisites, which keeps a journal of its own.         *)
(***************************************************************************)
EXTENDS Naturals, FiniteSets

CONSTANTS Releases,   \* release manifests; also their staged deployments
          Gated,      \* the ones with Salesforce or database prerequisites
          Deferred,   \* of these, the ones whose smoke waits for the schema
          Base,       \* the deployment in production at first
          Outsider,   \* a deployment promoted by other means
          MaxJobs,    \* bound: jobs in one behaviour
          MaxOutside, \* bound: deployments by other means
          Faults,     \* kinds of failure that may happen
          MaxFaults   \* bound: failures in one behaviour

FaultKinds == {"crash", "network", "late"}
NoRelease == "no release"
NoDeployment == "no deployment"

ASSUME ConstantsAssumption ==
    /\ Gated \subseteq Releases /\ Deferred \subseteq Gated
    /\ Base \notin Releases /\ Outsider \notin Releases /\ Base # Outsider
    /\ NoRelease \notin Releases
    /\ NoDeployment \notin Releases \cup {Base, Outsider}
    /\ MaxJobs \in Nat /\ MaxOutside \in Nat /\ MaxFaults \in Nat
    /\ Faults \subseteq FaultKinds

VARIABLES
    previous,   \* manifest.previous.deploymentId of each release
    journal,    \* GitHub: the journal records of each release
    posting,    \* journal requests given up that may still be applied
    production, \* Vercel: the deployment behind the production alias
    built,      \* Vercel: staged deployments of each release
    calls,      \* Vercel requests given up that may still be applied
    job,        \* the job that is running, and its local variables
    submitted,  \* history: provider calls of each release and phase
    jobs, outside, faults

vars == <<previous, journal, posting, production, built, calls, job, submitted,
          jobs, outside, faults>>
vercel == <<production, built, calls>>
github == <<journal, posting>>
tally  == <<jobs, outside>>

Deployments == Releases \cup {Base, Outsider}
Phases == {"stage", "promote", "rollback"}
Operations == Phases \cup {"prerequisites"}
IntentOf == [stage |-> "stage.intent", promote |-> "promote.intent",
             rollback |-> "rollback.intent",
             prerequisites |-> "prerequisites.intent"]
ResultOf == [stage |-> "stage.result", promote |-> "promote.result",
             rollback |-> "rollback.result",
             prerequisites |-> "prerequisites.result"]
Intent(p) == IntentOf[p]
Result(p) == ResultOf[p]

\* Events whose data differ from one attempt to the next.
Evidence == {"smoke.passed", "stage.pre_bootstrap_passed", "approval.accepted",
             "prerequisites.smoke_passed", "live.passed", "obstacle.detected"}
Events == Evidence \cup
          {Intent(p) : p \in Operations} \cup {Result(p) : p \in Operations} \cup
          {"release.prepared", "build.passed", "prerequisites.passed",
           "release.waiting", "release.complete"}
RecordType == [seq: Nat, event: Events, by: Nat]

Labels == {"idle", "check", "stage", "build", "begin", "submit", "settled",
           "ready", "approve", "prerequisites", "adapter", "passed", "recheck",
           "baseline", "observe", "complete", "doubt", "verify", "obstacle",
           "append"}

NoJob == [rel |-> NoRelease, at |-> "idle", op |-> "stage",
          event |-> "release.waiting", next |-> "idle", seen |-> {}]
JobType == [rel: Releases \cup {NoRelease}, at: Labels, op: Phases,
            event: Events, next: Labels, seen: SUBSET Events]

TypeOK ==
    /\ previous \in [Releases -> Deployments \cup {NoDeployment}]
    /\ journal \in [Releases -> SUBSET RecordType]
    /\ posting \subseteq Releases \X RecordType
    /\ production \in Deployments
    /\ built \in [Releases -> Nat]
    /\ calls \subseteq Releases \X Phases
    /\ job \in JobType
    /\ submitted \in [Releases -> [Phases -> Nat]]
    /\ jobs \in Nat /\ outside \in Nat /\ faults \in Nat

Init ==
    /\ previous = [r \in Releases |-> NoDeployment]
    /\ journal = [r \in Releases |-> {}]
    /\ posting = {}
    /\ production = Base
    /\ built = [r \in Releases |-> 0]
    /\ calls = {}
    /\ job = NoJob
    /\ submitted = [r \in Releases |-> [p \in Phases |-> 0]]
    /\ jobs = 0 /\ outside = 0 /\ faults = 0

Fault(kind) == kind \in Faults /\ faults < MaxFaults /\ faults' = faults + 1

Rel == job.rel
At(label) == job.at = label
Goto(label) == job' = [job EXCEPT !.at = label]
Done == job' = NoJob

\* Where an exception goes: the catch block of promoteRelease around the
\* observation, else the obstacle handler of rapidReleaseMain.
Throw ==
    IF \/ At("observe")
       \/ At("append") /\ job.event \in {"live.passed", "release.complete"}
    THEN Goto("doubt")
    ELSE IF At("append") /\ job.event = "obstacle.detected" THEN Done
    ELSE Goto("obstacle")

-----------------------------------------------------------------------------
(* The journal *)

\* validateChain: no two records at one position (positions are never
\* skipped, as a record is placed after those its writer has read).
Intact(r) == \A x, y \in journal[r] : x.seq = y.seq => x = y

Recorded(r) == {x.event : x \in journal[r]}

\* pendingOperations
Unresolved(r) ==
    {p \in Operations : Intent(p) \in Recorded(r) /\ Result(p) \notin Recorded(r)}

\* Mutant: other releases are not looked at.
OthersIgnored(r) == Intact(r)

\* assertNoUnresolvedOtherRelease
OthersSettled(r) ==
    \A s \in Releases \ {r} : Intact(s) /\ Unresolved(s) = {}

\* Call journal.append(e), then go on at label.
ToAppend(e, label) ==
    job' = [job EXCEPT !.at = "append", !.event = e, !.next = label]

NextRecord ==
    [seq |-> Cardinality(journal[Rel]), event |-> job.event,
     by |-> IF job.event \in Evidence THEN jobs ELSE 0]
AddRecord(r, x) == journal' = [journal EXCEPT ![r] = @ \cup {x}]

\* append: read the chain, write the next record, read it back.
Append ==
    /\ At("append") /\ Intact(Rel)
    /\ AddRecord(Rel, NextRecord)
    /\ IF job.next = "idle" THEN Done ELSE Goto(job.next)
    /\ UNCHANGED <<previous, posting, vercel, submitted, tally, faults>>

\* The chain is not valid, and is never again.
AppendRefused ==
    /\ At("append") /\ ~Intact(Rel)
    /\ Throw
    /\ UNCHANGED <<previous, github, vercel, submitted, tally, faults>>

\* A read or the write fails; the record is there, or it is not, or not yet.
AppendFails ==
    /\ At("append") /\ Intact(Rel)
    /\ \/ Fault("network") /\ AddRecord(Rel, NextRecord) /\ UNCHANGED posting
       \/ Fault("network") /\ UNCHANGED github
       \/ /\ Fault("late") /\ UNCHANGED journal
          /\ posting' = posting \cup {<<Rel, NextRecord>>}
    /\ Throw
    /\ UNCHANGED <<previous, vercel, submitted, tally>>

-----------------------------------------------------------------------------
(* Commands *)

\* prepare: the manifest names the deployment found in production.
Prepare(r) ==
    /\ previous[r] = NoDeployment
    /\ previous' = [previous EXCEPT ![r] = production]
    /\ UNCHANGED <<github, vercel, job, submitted, tally, faults>>

\* The workflow dispatches or reruns a job; go-live starts with a person's
\* approval.
Start(r, command) ==
    /\ At("idle") /\ previous[r] # NoDeployment
    /\ jobs < MaxJobs /\ jobs' = jobs + 1
    /\ job' = [NoJob EXCEPT !.rel = r, !.at = "check", !.op = command]
    /\ UNCHANGED <<previous, github, vercel, submitted, outside, faults>>

Staged(r) == Result("stage") \in Recorded(r)

\* Mutant: an event the journal does not list.
UnlistedEvent(r) == IF r \in Deferred THEN "stage.passed" ELSE "smoke.passed"

AcceptanceEvent(r) ==
    IF r \in Deferred THEN "stage.pre_bootstrap_passed" ELSE "smoke.passed"

\* Mutant: a staged build is good enough.
MayPromoteStaged(r) == Staged(r)

\* STAGED_ACCEPTANCE_REQUIRED
MayPromote(r) == Staged(r) /\ AcceptanceEvent(r) \in Recorded(r)

\* The journal is read, and production compared with the baseline.
Check ==
    LET live == \/ production = previous[Rel]
                \/ Staged(Rel) /\ production = Rel
        admitted == Intact(Rel) /\ live /\ (job.op = "promote" => MayPromote(Rel))
    IN
    /\ At("check")
    /\ IF admitted
       THEN job' = [job EXCEPT !.at = IF job.op = "stage" THEN "stage"
                                                          ELSE "approve",
                               !.seen = Recorded(Rel)]
       ELSE Throw
    /\ UNCHANGED <<previous, github, vercel, submitted, tally, faults>>

\* stageRelease
StageRelease ==
    /\ At("stage")
    /\ IF "release.prepared" \in job.seen THEN Goto("build")
       ELSE ToAppend("release.prepared", "build")
    /\ UNCHANGED <<previous, github, vercel, submitted, tally, faults>>

StageBuild ==
    /\ At("build")
    /\ IF "build.passed" \in job.seen THEN Goto("begin")
       ELSE ToAppend("build.passed", "begin")
    /\ UNCHANGED <<previous, github, vercel, submitted, tally, faults>>

\* The staged build is ready and passes its smoke, unless it did before.
StageReady ==
    /\ At("ready")
    /\ \/ /\ Intact(Rel) /\ AcceptanceEvent(Rel) \in Recorded(Rel) /\ Done
       \/ /\ Intact(Rel) /\ AcceptanceEvent(Rel) \notin Recorded(Rel)
          /\ ToAppend(AcceptanceEvent(Rel), "idle")
       \/ Throw
    /\ UNCHANGED <<previous, github, vercel, submitted, tally, faults>>

\* promoteRelease, up to the promotion
ApprovedNext == IF Rel \in Gated THEN "prerequisites" ELSE "baseline"

Approve ==
    /\ At("approve")
    /\ IF "release.complete" \in job.seen THEN Done
       ELSE IF "approval.accepted" \in job.seen THEN Goto(ApprovedNext)
       ELSE ToAppend("approval.accepted", ApprovedNext)
    /\ UNCHANGED <<previous, github, vercel, submitted, tally, faults>>

Prerequisites ==
    /\ At("prerequisites")
    /\ IF ~OthersSettled(Rel) THEN Throw
       ELSE IF job.seen \cap {"prerequisites.passed", Result("prerequisites")} # {}
       THEN Goto("recheck")
       ELSE IF Intent("prerequisites") \in job.seen THEN Goto("adapter")
       ELSE ToAppend(Intent("prerequisites"), "adapter")
    /\ UNCHANGED <<previous, github, vercel, submitted, tally, faults>>

\* The qualified adapter resumes its own operations; it passes or throws.
RunAdapter ==
    /\ At("adapter")
    /\ ToAppend(Result("prerequisites"), "passed") \/ Throw
    /\ UNCHANGED <<previous, github, vercel, submitted, tally, faults>>

PrerequisitesPassed ==
    /\ At("passed")
    /\ ToAppend("prerequisites.passed", "recheck")
    /\ UNCHANGED <<previous, github, vercel, submitted, tally, faults>>

\* The affected checks run after the prerequisites, once.
Recheck ==
    LET passed == "prerequisites.smoke_passed" \in Recorded(Rel) IN
    /\ At("recheck")
    /\ \/ Intact(Rel) /\ passed /\ Goto("baseline")
       \/ /\ Intact(Rel) /\ ~passed
          /\ ToAppend("prerequisites.smoke_passed", "baseline")
       \/ ~(Intact(Rel) /\ passed) /\ Throw
    /\ UNCHANGED <<previous, github, vercel, submitted, tally, faults>>

\* PRODUCTION_BASELINE_CHANGED
BaselineHolds(r) ==
    \/ production = previous[r]
    \/ production = r /\ Recorded(r) \cap {Intent("promote"), Result("promote")} # {}

CheckBaseline ==
    /\ At("baseline")
    /\ IF Intact(Rel) /\ BaselineHolds(Rel)
       THEN job' = [job EXCEPT !.at = "begin", !.op = "promote"]
       ELSE Throw
    /\ UNCHANGED <<previous, github, vercel, submitted, tally, faults>>

-----------------------------------------------------------------------------
(* executeOperation *)

\* provider.discover: the one staged deployment of the release, or the
\* deployment that is in production now (asked for "stage" and "promote" only).
Discovered(r, p) == IF p = "stage" THEN built[r] = 1 ELSE production = r

\* OPERATION_REQUEST_CHANGED: the request of a rollback holds the digest of a
\* proof with its time, so that no attempt repeats an earlier one's.
RequestUnchanged(p) == p # "rollback"

\* Mutant: an outcome that is not found is submitted again.
UnknownResubmits == Goto("submit")

\* ORIGINAL_OPERATION_READBACK_REQUIRED
UnknownWaits == Goto("obstacle")

\* A recorded result is returned; a recorded intent is read back; otherwise
\* the intent is recorded, when no other release is in doubt.
BeginOperation ==
    /\ At("begin")
    /\ IF ~Intact(Rel) THEN Throw
       ELSE IF Result(job.op) \in Recorded(Rel) THEN Goto("settled")
       ELSE IF Intent(job.op) \in Recorded(Rel)
       THEN IF ~RequestUnchanged(job.op) THEN Throw
            ELSE IF Discovered(Rel, job.op) THEN ToAppend(Result(job.op), "settled")
            ELSE UnknownWaits
       ELSE IF OthersSettled(Rel) THEN ToAppend(Intent(job.op), "submit")
       ELSE Throw
    /\ UNCHANGED <<previous, github, vercel, submitted, tally, faults>>

Effect(r, p) ==
    /\ built' = IF p = "stage" THEN [built EXCEPT ![r] = @ + 1] ELSE built
    /\ production' = IF p = "stage" THEN production
                     ELSE IF p = "promote" THEN r ELSE previous[r]

Counted == submitted' = [submitted EXCEPT ![Rel][job.op] = @ + 1]

Submit ==
    /\ At("submit")
    /\ Counted
    /\ Effect(Rel, job.op) /\ UNCHANGED calls
    /\ ToAppend(Result(job.op), "settled")
    /\ UNCHANGED <<previous, github, tally, faults>>

\* The call fails or times out: applied, not applied, or not yet.
SubmitFails ==
    /\ At("submit")
    /\ Counted
    /\ \/ Fault("network") /\ Effect(Rel, job.op) /\ UNCHANGED calls
       \/ Fault("network") /\ UNCHANGED vercel
       \/ /\ Fault("late") /\ UNCHANGED <<production, built>>
          /\ calls' = calls \cup {<<Rel, job.op>>}
    /\ ToAppend("release.waiting", "obstacle")
    /\ UNCHANGED <<previous, github, tally>>

AfterOperation ==
    /\ At("settled")
    /\ Goto(IF job.op = "stage" THEN "ready"
            ELSE IF job.op = "promote" THEN "observe" ELSE "verify")
    /\ UNCHANGED <<previous, github, vercel, submitted, tally, faults>>

-----------------------------------------------------------------------------
(* promoteRelease, after the promotion *)

Observe ==
    /\ At("observe")
    /\ \/ production = Rel /\ ToAppend("live.passed", "complete")
       \/ Throw
    /\ UNCHANGED <<previous, github, vercel, submitted, tally, faults>>

Complete ==
    /\ At("complete")
    /\ ToAppend("release.complete", "idle")
    /\ UNCHANGED <<previous, github, vercel, submitted, tally, faults>>

\* The catch block: a newer production is preserved, and so is one whose
\* predecessor is not proved compatible.
Doubt ==
    /\ At("doubt")
    /\ \/ Done
       \/ production = Rel /\ job' = [job EXCEPT !.at = "begin", !.op = "rollback"]
    /\ UNCHANGED <<previous, github, vercel, submitted, tally, faults>>

VerifyRollback ==
    /\ At("verify")
    /\ IF production = previous[Rel] THEN Done ELSE Throw
    /\ UNCHANGED <<previous, github, vercel, submitted, tally, faults>>

\* handleReleaseObstacle: an incident is recorded once; its own failures are
\* swallowed.
Obstacle ==
    /\ At("obstacle")
    /\ \/ Intact(Rel) /\ ToAppend("obstacle.detected", "idle")
       \/ (~Intact(Rel) \/ "obstacle.detected" \in Recorded(Rel)) /\ Done
    /\ UNCHANGED <<previous, github, vercel, submitted, tally, faults>>

\* Any other read of GitHub, Vercel or the database throws.
Interrupted ==
    /\ job.at \notin {"idle", "append", "submit", "obstacle"}
    /\ Fault("network")
    /\ Throw
    /\ UNCHANGED <<previous, github, vercel, submitted, tally>>

\* The runner is lost or the job is cancelled.
Crash ==
    /\ ~At("idle")
    /\ Fault("crash")
    /\ Done
    /\ UNCHANGED <<previous, github, vercel, submitted, tally>>

-----------------------------------------------------------------------------
(* GitHub, Vercel and other people *)

LandRecord(r, x) ==
    /\ <<r, x>> \in posting
    /\ posting' = posting \ {<<r, x>>}
    /\ AddRecord(r, x)
    /\ UNCHANGED <<previous, vercel, job, submitted, tally, faults>>

LandCall(r, p) ==
    /\ <<r, p>> \in calls
    /\ calls' = calls \ {<<r, p>>}
    /\ Effect(r, p)
    /\ UNCHANGED <<previous, github, job, submitted, tally, faults>>

OutsideDeploy ==
    /\ outside < MaxOutside /\ outside' = outside + 1
    /\ production' = Outsider
    /\ UNCHANGED <<previous, github, built, calls, job, submitted, jobs, faults>>

-----------------------------------------------------------------------------
(* Specification *)

JobStep ==
    \/ Check \/ StageRelease \/ StageBuild \/ StageReady
    \/ Approve \/ Prerequisites \/ RunAdapter \/ PrerequisitesPassed \/ Recheck
    \/ CheckBaseline \/ BeginOperation \/ Submit \/ AfterOperation
    \/ Observe \/ Complete \/ Doubt \/ VerifyRollback \/ Obstacle
    \/ Append \/ AppendRefused

JobFault == AppendFails \/ SubmitFails \/ Interrupted \/ Crash

Next ==
    \/ JobStep \/ JobFault
    \/ \E r \in Releases :
         \/ Prepare(r) \/ Start(r, "stage") \/ Start(r, "promote")
         \/ \E p \in Phases : LandCall(r, p)
    \/ \E m \in posting : LandRecord(m[1], m[2])
    \/ OutsideDeploy

Spec == Init /\ [][Next]_vars

-----------------------------------------------------------------------------
(* Properties *)

\* Whatever jobs die and are rerun, and whatever answers are lost, a release
\* submits each of its provider operations at most once (executeOperation).
SubmitOnce == \A r \in Releases, p \in Phases : submitted[r][p] <= 1

InDoubt(r) ==
    \E p \in Phases : submitted[r][p] > 0 /\ Result(p) \notin Recorded(r)

\* At no time do two releases have a submitted operation whose outcome is not
\* recorded (assertNoUnresolvedOtherRelease before every submission).
OneInDoubt == \A r, s \in Releases : InDoubt(r) /\ InDoubt(s) => r = s

\* What is in production was staged, accepted and approved, and its
\* prerequisites were applied and checked (stageRelease, promoteRelease).
OnlyAcceptedIsLive ==
    production \in Releases =>
      LET done == Recorded(production) IN
      /\ {Result("stage"), AcceptanceEvent(production), "approval.accepted"}
           \subseteq done
      /\ production \in Gated =>
           {Result("prerequisites"), "prerequisites.smoke_passed"} \subseteq done

\* Between deployments by other means, and however late a call given up is
\* applied, production moves from a release's baseline to the release, or from
\* the release back to its baseline: a release never replaces or reverts
\* another (PRODUCTION_BASELINE_CHANGED, assertNoUnresolvedOtherRelease).
OnlyOwnBaseline ==
    [][production' # production /\ Outsider \notin {production, production'} =>
         \E r \in Releases : {production, production'} = {previous[r], r}]_vars

=============================================================================
