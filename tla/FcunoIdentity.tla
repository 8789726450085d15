--------------------------- MODULE FcunoIdentity ---------------------------
(***************************************************************************)
(* The FCUNO identity federation: api/_fcunoIdentityFederation.js and the  *)
(* tables and the trigger of migration 20260830172911.  FCUNO sends one    *)
(* signed event per revision of an identity, may send it again, and its    *)
(* events overtake each other.  A delivery is one request of               *)
(* /api/fcuno/identity-sync; a visit is one authenticated request of a     *)
(* signed-in account.  Every database call is a step: others run between   *)
(* two calls, each call may fail before or after it takes effect, and a    *)
(* serverless invocation may die at any point.                             *)
(*                                                                         *)
(* One identity is modelled.  What an event says (names, flags, instants)  *)
(* is determined by its revision, so a revision stands for its claims.     *)
(***************************************************************************)
EXTENDS Naturals, FiniteSets

CONSTANTS
    Revisions,          \* the revisions FCUNO publishes
    Permitted,          \* those with is_active and use_fcos
    Credential,         \* the credential_revision of each
    RevokedBefore,      \* the revoked_before of each
    Accounts,           \* the FCOS accounts linked to the identity's subject
    NoAccount,
    Deliveries,         \* requests of the endpoint that may overlap
    Visits,             \* requests of signed-in accounts that may overlap
    MaxDeliveries,      \* bound: deliveries of events
    Time                \* bound: the instants of FCOS that are told apart

ASSUME RevisionsAssumption == Revisions \subseteq Nat \ {0}
ASSUME ClaimsAssumption ==
    /\ Permitted \subseteq Revisions
    /\ Credential \in [Revisions -> Nat]
    /\ RevokedBefore \in [Revisions -> Nat]
ASSUME AccountsAssumption == NoAccount \notin Accounts
ASSUME BoundsAssumption == MaxDeliveries \in Nat /\ Time \subseteq Nat

VARIABLES
    link,       \* the row of fcos_external_identity_links; revision 0: no row
    status,     \* fcos_external_identity_sync_transactions, by event
    profiles,   \* the accounts that have a row of user_profiles
    projected,  \* the revision whose email and name that row has, 0: its own
    pc, job,    \* each delivery: where it is and what it holds
    at, visit,  \* each visit: where it is and what it holds
    answered,   \* the events whose delivery was answered with ok
    admitted,   \* the accounts a visit was let in for
    sent        \* how often FCUNO delivered an event

rows == <<link, status, profiles, projected>>
delivering == <<pc, job, answered, sent>>
visiting == <<at, visit, admitted>>
vars == <<rows, delivering, visiting>>

NoLink == [revision |-> 0, owner |-> NoAccount, revoked |-> 0, updated |-> 0]
NoJob == [event |-> 0, now |-> 0, link |-> NoLink]
NoVisit == [account |-> NoAccount, known |-> FALSE, revision |-> 0]

Link == [revision : Revisions \union {0}, owner : Accounts \union {NoAccount},
         revoked : Nat, updated : Revisions \union {0}]

(* "conflict": failed, with the error_code of a revision conflict. *)
Statuses == {"none", "received", "applied", "ignored", "failed", "conflict"}
Calling == {"read", "upsert", "reread", "project", "apply", "ignore", "audit"}
Working == Calling \union {"reserve", "catch", "refuse"}
Visiting == {"link", "claim", "provision", "answer"}

Init ==
    /\ link = NoLink
    /\ status = [e \in Revisions |-> "none"]
    /\ profiles \in SUBSET Accounts
    /\ projected = [a \in Accounts |-> 0]
    /\ pc = [d \in Deliveries |-> "idle"]
    /\ job = [d \in Deliveries |-> NoJob]
    /\ at = [v \in Visits |-> "idle"]
    /\ visit = [v \in Visits |-> NoVisit]
    /\ answered = {}
    /\ admitted = {}
    /\ sent = 0

-----------------------------------------------------------------------------
(* identityLink selects every column but source_updated_at. *)
Selected(row) == [row EXCEPT !.updated = 0]

(* Whether a row says what the event says: the columns are those of its    *)
(* revision, and an instant that was not read equals none.                 *)
LinkMatchesClaims(row, e) ==
    /\ row.revision = e
    /\ row.updated = e
    /\ row.revoked >= RevokedBefore[e]

MaxOf(m, n) == IF m > n THEN m ELSE n

(* The instant before which sessions are void: a refusal revokes them now. *)
Revocation(e, known, now) ==
    LET kept == MaxOf(RevokedBefore[e], known.revoked)
    IN  IF e \in Permitted THEN kept ELSE MaxOf(kept, now)

LinkPatch(e, known, now) ==
    [revision |-> e, owner |-> known.owner,
     revoked |-> Revocation(e, known, now), updated |-> e]

\* Mutant: the trigger lets an older revision replace a newer one.
MayReplaceUnordered(old, new) ==
    /\ old.owner # NoAccount => new.owner = old.owner
    /\ new.revision = old.revision =>
          new.updated = old.updated /\ new.revoked = old.revoked

(* The trigger fcos_protect_external_identity_revision. *)
MayReplace(old, new) ==
    /\ new.revision >= old.revision
    /\ Credential[new.revision] >= Credential[old.revision]
    /\ old.owner # NoAccount => new.owner = old.owner
    /\ new.revision = old.revision =>
          new.updated = old.updated /\ new.revoked = old.revoked

MayUpsert(new) == link.revision # 0 => MayReplace(link, new)

-----------------------------------------------------------------------------
(* A delivery.  Where it goes on from an error of a call inside the try.   *)
OnError(step) == IF step = "upsert" THEN "reread" ELSE "catch"

(* The call took effect: its answer arrives, or is lost and is an error. *)
GoesOn(d, step) ==
    \E next \in {step, OnError(pc[d])} : pc' = [pc EXCEPT ![d] = next]

Ends(d) ==
    /\ pc' = [pc EXCEPT ![d] = "idle"]
    /\ job' = [job EXCEPT ![d] = NoJob]

(* FCUNO sends an event: for the first time, again, or twice at once.  The *)
(* instant of the delivery is the clock of its invocation, which nothing   *)
(* orders with the others; only that of a refusal is used.                 *)
Instants(e) == IF e \in Permitted THEN {0} ELSE Time

Deliver(d, e, now) ==
    /\ pc[d] = "idle"
    /\ sent < MaxDeliveries
    /\ sent' = sent + 1
    /\ pc' = [pc EXCEPT ![d] = "reserve"]
    /\ job' = [job EXCEPT ![d] = [event |-> e, now |-> now, link |-> NoLink]]
    /\ UNCHANGED <<rows, visiting, answered>>

(* reserveTransaction: the insert of a new event, or the look at the       *)
(* transaction of one that was delivered before.                           *)
Done(e) == status[e] \in {"applied", "ignored"}

Reserve(d) ==
    LET e == job[d].event
    IN  /\ pc[d] = "reserve"
        /\ ~ Done(e)
        /\ status' = [status EXCEPT ![e] = IF @ = "none" THEN "received" ELSE @]
        /\ pc' = [pc EXCEPT ![d] = "read"]
        /\ UNCHANGED <<link, profiles, projected, job, answered, sent, visiting>>

AnswerDuplicate(d) ==
    /\ pc[d] = "reserve"
    /\ Done(job[d].event)
    /\ answered' = answered \union {job[d].event}
    /\ Ends(d)
    /\ UNCHANGED <<rows, sent, visiting>>

(* What follows from a row that was read; an event that is newer goes to   *)
(* `newer'.                                                                *)
Course(row, e, newer) ==
    IF row.revision < e THEN newer
    ELSE IF row.revision > e THEN "ignore"
    ELSE IF LinkMatchesClaims(row, e) THEN "project" ELSE "refuse"

(* A delivery keeps the row while the rest of it uses it. *)
Follows(d, row, newer) ==
    LET next == Course(row, job[d].event, newer)
    IN  /\ pc' = [pc EXCEPT ![d] = next]
        /\ job' = [job EXCEPT ![d].link =
                      IF next \in {"upsert", "project"} THEN row ELSE NoLink]

ReadLink(d) ==
    /\ pc[d] = "read"
    /\ Follows(d, Selected(link), "upsert")
    /\ UNCHANGED <<rows, answered, sent, visiting>>

Upsert(d) ==
    LET new == LinkPatch(job[d].event, job[d].link, job[d].now)
    IN  /\ pc[d] = "upsert"
        /\ MayUpsert(new)
        /\ link' = new
        /\ job' = [job EXCEPT ![d].link = new]
        /\ GoesOn(d, "project")
        /\ UNCHANGED <<status, profiles, projected, answered, sent, visiting>>

UpsertRefused(d) ==
    /\ pc[d] = "upsert"
    /\ ~ MayUpsert(LinkPatch(job[d].event, job[d].link, job[d].now))
    /\ pc' = [pc EXCEPT ![d] = "reread"]
    /\ job' = [job EXCEPT ![d].link = NoLink]
    /\ UNCHANGED <<rows, answered, sent, visiting>>

(* The upsert failed: an event that is still the newest fails with it. *)
Reread(d) ==
    /\ pc[d] = "reread"
    /\ Follows(d, Selected(link), "catch")
    /\ UNCHANGED <<rows, answered, sent, visiting>>

(* projectBoundProfile: an update of the owner's row, if it has one. *)
Project(d) ==
    LET a == job[d].link.owner
    IN  /\ pc[d] = "project"
        /\ projected' = IF a \in profiles
                        THEN [projected EXCEPT ![a] = job[d].event] ELSE projected
        /\ GoesOn(d, "apply")
        /\ job' = [job EXCEPT ![d].link = NoLink]
        /\ UNCHANGED <<link, status, profiles, answered, sent, visiting>>

\* Mutant: an outdated event is given a status of its own.
CompleteAsStale(d, step, result) ==
    /\ pc[d] = step
    /\ status' = [status EXCEPT ![job[d].event] =
                     IF result = "ignored" THEN "stale" ELSE result]
    /\ UNCHANGED <<link, profiles, projected, answered, sent, visiting>>

(* completeTransaction. *)
Complete(d, step, result) ==
    /\ pc[d] = step
    /\ status' = [status EXCEPT ![job[d].event] = result]
    /\ UNCHANGED <<link, profiles, projected, answered, sent, visiting>>

Apply(d) == Complete(d, "apply", "applied") /\ GoesOn(d, "audit") /\ UNCHANGED job
Ignore(d) == Complete(d, "ignore", "ignored") /\ GoesOn(d, "audit") /\ UNCHANGED job
Fail(d) == Complete(d, "catch", "failed") /\ Ends(d)
Refuse(d) == Complete(d, "refuse", "conflict") /\ Ends(d)

(* writeAudit, and the answer; the audit table is only ever appended to. *)
Audit(d) ==
    /\ pc[d] = "audit"
    /\ answered' = answered \union {job[d].event}
    /\ Ends(d)
    /\ UNCHANGED <<rows, sent, visiting>>

CallFails(d) ==
    /\ pc[d] \in Calling
    /\ pc' = [pc EXCEPT ![d] = OnError(pc[d])]
    /\ job' = [job EXCEPT ![d].link = NoLink]
    /\ UNCHANGED <<rows, answered, sent, visiting>>

(* The invocation dies; or a call outside the try, or the completion in    *)
(* the catch block, fails: the delivery ends without an answer of ok.      *)
Dies(d) ==
    /\ pc[d] # "idle"
    /\ Ends(d)
    /\ UNCHANGED <<rows, answered, sent, visiting>>

-----------------------------------------------------------------------------
(* A visit.  The caller verifies the account and reads its profile, then   *)
(* asks enforceFcunoFederatedAccess.                                       *)
Leaves(v) ==
    /\ at' = [at EXCEPT ![v] = "idle"]
    /\ visit' = [visit EXCEPT ![v] = NoVisit]

SignIn(v, a) ==
    /\ at[v] = "idle"
    /\ at' = [at EXCEPT ![v] = "link"]
    /\ visit' = [visit EXCEPT ![v] =
                   [account |-> a, known |-> a \in profiles, revision |-> 0]]
    /\ UNCHANGED <<rows, delivering, admitted>>

(* The revision a session may enter with, by what was read of the row: the *)
(* identity is entitled and the session is younger than the revocation; 0  *)
(* when it is to be refused, which the code decides after the claim.       *)
Entry(row, issued) ==
    IF row.revision \in Permitted /\ issued > row.revoked THEN row.revision ELSE 0

Keeps(v, r) == visit' = [visit EXCEPT ![v].revision = r]

Enters(v, r) ==
    \/ r = 0 /\ Leaves(v)
    \/ /\ r # 0 /\ visit[v].known
       /\ at' = [at EXCEPT ![v] = "answer"]
       /\ Keeps(v, 0)
    \/ /\ r # 0 /\ ~ visit[v].known
       /\ at' = [at EXCEPT ![v] = "provision"]
       /\ Keeps(v, r)

\* Mutant: any account with the identity's subject is taken for its owner.
ForeignUnowned(row, a) == row.revision = 0

(* The identity was never synchronised, or belongs to another account. *)
Foreign(row, a) == row.revision = 0 \/ row.owner \notin {NoAccount, a}

ReadIdentity(v, issued) ==
    LET a == visit[v].account
        row == Selected(link)
        r == Entry(row, issued)
    IN  /\ at[v] = "link"
        /\ \/ Foreign(row, a) /\ Leaves(v)
           \/ /\ ~ Foreign(row, a) /\ row.owner = NoAccount
              /\ at' = [at EXCEPT ![v] = "claim"]
              /\ Keeps(v, r)
           \/ /\ ~ Foreign(row, a) /\ row.owner # NoAccount
              /\ Enters(v, r)
        /\ UNCHANGED <<rows, delivering, admitted>>

(* The update of a row that has no owner; what else it says may have       *)
(* changed since it was read.                                              *)
Claimable == link.owner = NoAccount

Claim(v) ==
    /\ at[v] = "claim"
    /\ Claimable
    /\ link' = [link EXCEPT !.owner = visit[v].account]
    /\ Enters(v, visit[v].revision)
    /\ UNCHANGED <<status, profiles, projected, delivering, admitted>>

ClaimRace(v) ==
    /\ at[v] = "claim"
    /\ ~ Claimable
    /\ Leaves(v)
    /\ UNCHANGED <<rows, delivering, admitted>>

(* provisionZeroPermissionProfile. *)
Provision(v) ==
    /\ at[v] = "provision"
    /\ profiles' = profiles \union {visit[v].account}
    /\ projected' = [projected EXCEPT ![visit[v].account] = visit[v].revision]
    /\ at' = [at EXCEPT ![v] = "answer"]
    /\ Keeps(v, 0)
    /\ UNCHANGED <<link, status, delivering, admitted>>

Admit(v) ==
    /\ at[v] = "answer"
    /\ admitted' = admitted \union {visit[v].account}
    /\ Leaves(v)
    /\ UNCHANGED <<rows, delivering>>

(* A call of the visit fails, or the invocation dies. *)
Departs(v) ==
    /\ at[v] # "idle"
    /\ Leaves(v)
    /\ UNCHANGED <<rows, delivering, admitted>>

-----------------------------------------------------------------------------
Delivery(d) ==
    \/ \E e \in Revisions : \E now \in Instants(e) : Deliver(d, e, now)
    \/ Reserve(d) \/ AnswerDuplicate(d)
    \/ ReadLink(d) \/ Upsert(d) \/ UpsertRefused(d) \/ Reread(d)
    \/ Project(d) \/ Apply(d) \/ Ignore(d) \/ Audit(d)
    \/ Fail(d) \/ Refuse(d) \/ CallFails(d) \/ Dies(d)

Visit(v) ==
    \/ \E a \in Accounts : SignIn(v, a)
    \/ \E issued \in Time : ReadIdentity(v, issued)
    \/ Claim(v) \/ ClaimRace(v)
    \/ Provision(v) \/ Admit(v) \/ Departs(v)

Next ==
    \/ \E d \in Deliveries : Delivery(d)
    \/ \E v \in Visits : Visit(v)

Spec == Init /\ [][Next]_vars

-----------------------------------------------------------------------------
(* Properties.                                                             *)

TypeOK ==
    /\ link \in Link
    /\ status \in [Revisions -> Statuses]
    /\ profiles \subseteq Accounts
    /\ projected \in [Accounts -> Revisions \union {0}]
    /\ pc \in [Deliveries -> Working \union {"idle"}]
    /\ job \in [Deliveries -> [event : Revisions \union {0}, now : Time \union {0},
                               link : Link]]
    /\ at \in [Visits -> Visiting \union {"idle"}]
    /\ visit \in [Visits -> [account : Accounts \union {NoAccount},
                             known : BOOLEAN, revision : Revisions \union {0}]]
    /\ answered \subseteq Revisions
    /\ admitted \subseteq Accounts
    /\ sent \in 0 .. MaxDeliveries

(* An identity's name and email are written to the profile of the account  *)
(* that owns it and of no other, although deliveries write to the account  *)
(* they read or wrote earlier, and visits to their own.                    *)
OnlyOwnerIsProjected ==
    \A a \in Accounts : projected[a] # 0 => link.owner = a

(* The table of links implements IdentityRegister: whatever the order in   *)
(* which events are delivered, repeated, overlapped and lost, FCOS holds   *)
(* the newest revision it was told of, acknowledges an event only when its *)
(* revision is held or outdated, and lets in one account only, for ever.   *)
Register == INSTANCE IdentityRegister WITH
    revision <- link.revision, owner <- link.owner, acknowledged <- answered

ImplementsRegister == Register!Spec

(* A delivery is refused as conflicting only if FCUNO gave one revision    *)
(* two contents, which it does not do here: a repeated event never is.     *)
RepeatedIsNoConflict == \A e \in Revisions : status[e] # "conflict"
=============================================================================
