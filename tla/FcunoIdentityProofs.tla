------------------------ MODULE FcunoIdentityProofs ------------------------
(***************************************************************************)
(* For any number of revisions, deliveries, visits and accounts: the type  *)
(* invariant, the owner's profile, and that FcunoIdentity implements       *)
(* IdentityRegister.                                                       *)
(***************************************************************************)
EXTENDS FcunoIdentity, TLAPS

(* What a delivery in flight knows of the row: an event that is being      *)
(* projected, completed or audited is held or outdated, and an owner that  *)
(* was read is the owner still.                                            *)
DeliveryInv(d) ==
    /\ pc[d] # "idle" => job[d].event \in Revisions
    /\ job[d].link.owner \in {NoAccount, link.owner}
    /\ pc[d] \in {"project", "apply", "ignore", "audit"}
          => job[d].event <= link.revision

(* A visit past its claim is the owner's, of an identity that was          *)
(* permitted when it was read.                                             *)
VisitInv(v) ==
    /\ at[v] # "idle" => visit[v].account \in Accounts
    /\ at[v] = "claim" => link.revision # 0
    /\ visit[v].revision # 0 => /\ visit[v].revision \in Permitted
                               /\ visit[v].revision <= link.revision
    /\ at[v] = "provision" => visit[v].revision # 0
    /\ at[v] \in {"provision", "answer"}
          => /\ link.owner = visit[v].account
             /\ \E r \in Permitted : r <= link.revision

(* What was completed is held or outdated; no row, no owner. *)
RowsInv ==
    /\ link.revision = 0 => link.owner = NoAccount
    /\ \A e \in Revisions : Done(e) => e <= link.revision
    /\ OnlyOwnerIsProjected

IInv ==
    /\ TypeOK
    /\ RowsInv
    /\ \A d \in Deliveries : DeliveryInv(d)
    /\ \A v \in Visits : VisitInv(v)

-----------------------------------------------------------------------------
(* What every step does to the row of the identity: the revision does not  *)
(* go back and an owner stays.                                             *)
LinkGrows ==
    /\ link'.revision >= link.revision
    /\ link.owner # NoAccount => link'.owner = link.owner

LEMMA Natural ==
    ASSUME NEW n, n \in Revisions \union {0}
    PROVE  n \in Nat
  BY RevisionsAssumption

LEMMA RowType ==
    ASSUME NEW row \in Link
    PROVE  row.revision \in Nat /\ row.revision \in Revisions \union {0}
<1>1. row.revision \in Revisions \union {0}
  BY DEF Link
<1> QED
  BY <1>1, Natural

LEMMA Types ==
    ASSUME TypeOK
    PROVE  /\ NoLink \in Link /\ Selected(link) \in Link
           /\ Selected(link).owner = link.owner
           /\ Selected(link).revision = link.revision
           /\ link.revision \in Nat
  BY RevisionsAssumption DEF TypeOK, Link, NoLink, Selected

(* A delivery that does not move knows what it knew. *)
LEMMA DeliveryKept ==
    ASSUME TypeOK, TypeOK', LinkGrows, NEW d \in Deliveries, DeliveryInv(d),
           pc'[d] = pc[d], job'[d] = job[d]
    PROVE  DeliveryInv(d)'
<1>0. link \in Link /\ link' \in Link
  BY DEF TypeOK
<1>1. link.revision \in Nat /\ link'.revision \in Nat
  BY <1>0, RowType
<1>2. job[d].event \in Nat
  <2>1. job[d].event \in Revisions \union {0}
    BY DEF TypeOK
  <2> QED
    BY <2>1, Natural
<1> QED
  BY <1>1, <1>2 DEF DeliveryInv, LinkGrows

(* A visit that does not move knows what it knew. *)
LEMMA VisitKept ==
    ASSUME TypeOK, TypeOK', LinkGrows, NEW v \in Visits, VisitInv(v),
           at'[v] = at[v], visit'[v] = visit[v]
    PROVE  VisitInv(v)'
<1>0. link \in Link /\ link' \in Link
  BY DEF TypeOK
<1>1. link.revision \in Nat /\ link'.revision \in Nat
  BY <1>0, RowType
<1>2. visit[v].revision \in Nat /\ Permitted \subseteq Nat
  <2>1. visit[v].revision \in Revisions \union {0}
    BY DEF TypeOK
  <2> QED
    BY <2>1, Natural, RevisionsAssumption, ClaimsAssumption
<1>3. at[v] # "idle" => visit[v].account # NoAccount
  BY AccountsAssumption DEF VisitInv
<1>4. at[v] \in {"provision", "answer"} => link.owner # NoAccount
  BY <1>3 DEF VisitInv
<1>5. (\E r \in Permitted : r <= link.revision)
         => \E r \in Permitted : r <= link'.revision
  BY <1>1, <1>2 DEF LinkGrows
<1> QED
  BY <1>1, <1>2, <1>4, <1>5 DEF VisitInv, LinkGrows

LEMMA DeliveryStep ==
    ASSUME IInv, TypeOK', RowsInv', LinkGrows, NEW d \in Deliveries, DeliveryInv(d)',
           at' = at, visit' = visit,
           \A c \in Deliveries \ {d} : pc'[c] = pc[c] /\ job'[c] = job[c]
    PROVE  IInv'
<1>1. \A c \in Deliveries : DeliveryInv(c)'
  BY DeliveryKept DEF IInv
<1>2. \A v \in Visits : VisitInv(v)'
  BY VisitKept DEF IInv
<1> QED
  BY <1>1, <1>2 DEF IInv

LEMMA VisitStep ==
    ASSUME IInv, TypeOK', RowsInv', LinkGrows, NEW v \in Visits, VisitInv(v)',
           pc' = pc, job' = job,
           \A u \in Visits \ {v} : at'[u] = at[u] /\ visit'[u] = visit[u]
    PROVE  IInv'
<1>1. \A d \in Deliveries : DeliveryInv(d)'
  BY DeliveryKept DEF IInv
<1>2. \A u \in Visits : VisitInv(u)'
  BY VisitKept DEF IInv
<1> QED
  BY <1>1, <1>2 DEF IInv

(* The rows say what they said where only a status changes that is not one *)
(* of completion.                                                          *)
LEMMA RowsKept ==
    ASSUME TypeOK, RowsInv, link' = link, projected' = projected, status' = status
    PROVE  RowsInv' /\ LinkGrows
<1>1. link.revision \in Nat
  BY Types
<1> QED
  BY <1>1 DEF RowsInv, OnlyOwnerIsProjected, Done, LinkGrows

LEMMA StatusStep ==
    ASSUME TypeOK, RowsInv, link' = link, projected' = projected,
           NEW e \in Revisions, NEW s \in Statuses,
           status' = [status EXCEPT ![e] = s],
           s \in {"applied", "ignored"} => e <= link.revision \/ Done(e)
    PROVE  RowsInv' /\ LinkGrows /\ status' \in [Revisions -> Statuses]
<1>1. link.revision \in Nat
  BY Types
<1>2. status' \in [Revisions -> Statuses]
  BY DEF TypeOK
<1>3. \A f \in Revisions : Done(f)' => f <= link'.revision
  BY DEF TypeOK, RowsInv, Done
<1> QED
  BY <1>1, <1>2, <1>3 DEF RowsInv, OnlyOwnerIsProjected, LinkGrows

-----------------------------------------------------------------------------
(* Deliveries *)

(* The record of a delivery that ends, or that keeps another row. *)
LEMMA JobType ==
    ASSUME TypeOK, NEW d \in Deliveries, NEW row \in Link
    PROVE  /\ [job EXCEPT ![d].link = row] \in
                 [Deliveries -> [event : Revisions \union {0},
                                 now : Time \union {0}, link : Link]]
           /\ [job EXCEPT ![d] = NoJob] \in
                 [Deliveries -> [event : Revisions \union {0},
                                 now : Time \union {0}, link : Link]]
  BY Types DEF TypeOK, NoJob

LEMMA PcType ==
    ASSUME TypeOK, NEW d \in Deliveries, NEW step \in Working \union {"idle"}
    PROVE  [pc EXCEPT ![d] = step] \in [Deliveries -> Working \union {"idle"}]
  BY DEF TypeOK

LEMMA EndsDelivery ==
    ASSUME TypeOK, NEW d \in Deliveries, Ends(d)
    PROVE  /\ pc' \in [Deliveries -> Working \union {"idle"}]
           /\ job' \in [Deliveries -> [event : Revisions \union {0},
                                       now : Time \union {0}, link : Link]]
           /\ DeliveryInv(d)'
           /\ \A c \in Deliveries \ {d} : pc'[c] = pc[c] /\ job'[c] = job[c]
<1>1. job' = [job EXCEPT ![d] = NoJob] /\ pc' = [pc EXCEPT ![d] = "idle"]
  BY DEF Ends
<1>2. job'[d] = NoJob /\ pc'[d] = "idle"
  BY <1>1 DEF TypeOK
<1>3. DeliveryInv(d)'
  BY <1>2 DEF DeliveryInv, NoJob, NoLink
<1>4. \A c \in Deliveries \ {d} : pc'[c] = pc[c] /\ job'[c] = job[c]
  BY <1>1 DEF TypeOK
<1> QED
  BY <1>1, <1>3, <1>4, JobType, PcType, Types

LEMMA DeliverStep ==
    ASSUME IInv, NEW d \in Deliveries, NEW e \in Revisions, NEW now \in Instants(e),
           Deliver(d, e, now)
    PROVE  IInv'
<1>1. now \in Time \union {0}
  BY DEF Instants
<1>2. job' = [job EXCEPT ![d] = [event |-> e, now |-> now, link |-> NoLink]]
  BY DEF Deliver
<1>3. pc' = [pc EXCEPT ![d] = "reserve"] /\ sent < MaxDeliveries /\ sent' = sent + 1
  BY DEF Deliver
<1>4. UNCHANGED <<rows, visiting, answered>>
  BY DEF Deliver
<1>5. TypeOK'
  <2>1. sent' \in 0 .. MaxDeliveries
    BY <1>3, BoundsAssumption DEF IInv, TypeOK
  <2>2. job' \in [Deliveries -> [event : Revisions \union {0},
                                now : Time \union {0}, link : Link]]
    BY <1>1, <1>2, Types DEF IInv, TypeOK
  <2>3. pc' \in [Deliveries -> Working \union {"idle"}]
    BY <1>3 DEF IInv, TypeOK, Working
  <2> QED
    BY <1>4, <2>1, <2>2, <2>3 DEF IInv, TypeOK, rows, visiting
<1>6. RowsInv' /\ LinkGrows
  BY <1>4, RowsKept DEF IInv, rows
<1>7. job'[d] = [event |-> e, now |-> now, link |-> NoLink] /\ pc'[d] = "reserve"
  BY <1>2, <1>3 DEF IInv, TypeOK
<1>8. DeliveryInv(d)'
  BY <1>7 DEF DeliveryInv, NoLink
<1>9. \A c \in Deliveries \ {d} : pc'[c] = pc[c] /\ job'[c] = job[c]
  BY <1>2, <1>3 DEF IInv, TypeOK
<1> QED
  BY <1>4, <1>5, <1>6, <1>8, <1>9, DeliveryStep DEF visiting

(* A step that only ends a delivery, and perhaps answers it. *)
LEMMA EndStep ==
    ASSUME IInv, NEW d \in Deliveries, Ends(d), UNCHANGED <<rows, sent, visiting>>,
           answered' \subseteq Revisions
    PROVE  IInv'
<1>1. TypeOK'
  BY EndsDelivery DEF IInv, TypeOK, rows, visiting
<1>2. RowsInv' /\ LinkGrows
  BY RowsKept DEF IInv, rows
<1> QED
  BY <1>1, <1>2, EndsDelivery, DeliveryStep DEF IInv, visiting

LEMMA AnswerStep ==
    ASSUME IInv, NEW d \in Deliveries,
           AnswerDuplicate(d) \/ Audit(d) \/ Dies(d)
    PROVE  IInv'
<1>1. pc[d] # "idle" => job[d].event \in Revisions
  BY DEF IInv, DeliveryInv
<1>2. answered' \subseteq Revisions
  BY <1>1 DEF IInv, TypeOK, AnswerDuplicate, Audit, Dies
<1>3. Ends(d) /\ UNCHANGED <<rows, sent, visiting>>
  BY DEF AnswerDuplicate, Audit, Dies
<1> QED
  BY <1>2, <1>3, EndStep

(* A delivery goes on to a step, keeping a row. *)
LEMMA MoveDelivery ==
    ASSUME TypeOK, NEW d \in Deliveries, NEW step \in Working, NEW row \in Link,
           job[d].event \in Revisions,
           pc' = [pc EXCEPT ![d] = step], job' = [job EXCEPT ![d].link = row],
           row.owner \in {NoAccount, link'.owner},
           step \in {"project", "apply", "ignore", "audit"}
              => job[d].event <= link'.revision
    PROVE  /\ pc' \in [Deliveries -> Working \union {"idle"}]
           /\ job' \in [Deliveries -> [event : Revisions \union {0},
                                       now : Time \union {0}, link : Link]]
           /\ DeliveryInv(d)'
           /\ \A c \in Deliveries \ {d} : pc'[c] = pc[c] /\ job'[c] = job[c]
<1>1. pc'[d] = step /\ job'[d].event = job[d].event /\ job'[d].link = row
  BY DEF TypeOK
<1>2. DeliveryInv(d)'
  BY <1>1 DEF DeliveryInv
<1>3. \A c \in Deliveries \ {d} : pc'[c] = pc[c] /\ job'[c] = job[c]
  BY DEF TypeOK
<1> QED
  BY <1>2, <1>3, JobType, PcType

(* A step of a delivery that changes no row. *)
LEMMA ReadStep ==
    ASSUME IInv, NEW d \in Deliveries, pc[d] # "idle",
           NEW step \in Working, NEW row \in Link,
           pc' = [pc EXCEPT ![d] = step], job' = [job EXCEPT ![d].link = row],
           row.owner \in {NoAccount, link.owner},
           step \in {"project", "apply", "ignore", "audit"}
              => job[d].event <= link.revision,
           UNCHANGED <<rows, answered, sent, visiting>>
    PROVE  IInv'
<1>1. job[d].event \in Revisions
  BY DEF IInv, DeliveryInv
<1>2. link' = link
  BY DEF rows
<1>3. /\ pc' \in [Deliveries -> Working \union {"idle"}]
      /\ job' \in [Deliveries -> [event : Revisions \union {0},
                                  now : Time \union {0}, link : Link]]
      /\ DeliveryInv(d)'
      /\ \A c \in Deliveries \ {d} : pc'[c] = pc[c] /\ job'[c] = job[c]
  BY <1>1, <1>2, MoveDelivery DEF IInv
<1>4. TypeOK'
  BY <1>3 DEF IInv, TypeOK, rows, visiting
<1>5. RowsInv' /\ LinkGrows
  BY RowsKept DEF IInv, rows
<1> QED
  BY <1>3, <1>4, <1>5, DeliveryStep DEF visiting

(* The steps that follow from a row. *)
LEMMA CourseType ==
    ASSUME NEW row \in Link, NEW e \in Revisions, NEW newer \in {"upsert", "catch"}
    PROVE  /\ Course(row, e, newer) \in {newer, "ignore", "project", "refuse"}
           /\ Course(row, e, newer) \in {"ignore", "project"} => e <= row.revision
<1>1. row.revision \in Nat /\ e \in Nat
  BY RowType, Natural
<1>2. CASE row.revision < e
  BY <1>1, <1>2 DEF Course
<1>3. CASE row.revision > e
  BY <1>1, <1>3 DEF Course
<1>4. CASE row.revision = e
  BY <1>1, <1>4 DEF Course
<1> QED
  BY <1>1, <1>2, <1>3, <1>4

LEMMA FollowsStep ==
    ASSUME IInv, NEW d \in Deliveries, pc[d] # "idle",
           NEW newer \in {"upsert", "catch"}, Follows(d, Selected(link), newer),
           UNCHANGED <<rows, answered, sent, visiting>>
    PROVE  IInv'
<1> DEFINE next == Course(Selected(link), job[d].event, newer)
           row == IF next \in {"upsert", "project"} THEN Selected(link) ELSE NoLink
<1>1. /\ NoLink \in Link /\ Selected(link) \in Link
      /\ Selected(link).owner = link.owner
      /\ Selected(link).revision = link.revision
  BY Types DEF IInv
<1>2. job[d].event \in Revisions
  BY DEF IInv, DeliveryInv
<1>3. /\ next \in {newer, "ignore", "project", "refuse"}
      /\ next \in {"ignore", "project"} => job[d].event <= link.revision
  BY <1>1, <1>2, CourseType
<1>4. next \in Working
  BY <1>3 DEF Working, Calling
<1>5. next \in {"project", "apply", "ignore", "audit"} => job[d].event <= link.revision
  BY <1>3
<1>6. row \in Link /\ row.owner \in {NoAccount, link.owner}
  BY <1>1 DEF NoLink
<1>7. pc' = [pc EXCEPT ![d] = next] /\ job' = [job EXCEPT ![d].link = row]
  BY DEF Follows
<1> HIDE DEF next, row
<1> QED
  BY <1>4, <1>5, <1>6, <1>7, ReadStep

LEMMA ReadLinkStep ==
    ASSUME IInv, NEW d \in Deliveries, ReadLink(d) \/ Reread(d)
    PROVE  IInv'
  BY FollowsStep DEF ReadLink, Reread

LEMMA CallFailsStep ==
    ASSUME IInv, NEW d \in Deliveries, UpsertRefused(d) \/ CallFails(d)
    PROVE  IInv'
<1>1. PICK step \in {"reread", "catch"} : pc' = [pc EXCEPT ![d] = step]
  BY DEF UpsertRefused, CallFails, OnError
<1>2. /\ pc[d] # "idle" /\ job' = [job EXCEPT ![d].link = NoLink]
      /\ UNCHANGED <<rows, answered, sent, visiting>>
  BY DEF UpsertRefused, CallFails, Calling
<1>3. step \in Working /\ step \notin {"project", "apply", "ignore", "audit"}
  BY DEF Working, Calling
<1>4. NoLink \in Link /\ NoLink.owner \in {NoAccount, link.owner}
  BY Types DEF IInv, NoLink
<1> QED
  BY <1>1, <1>2, <1>3, <1>4, ReadStep

LEMMA ReserveStep ==
    ASSUME IInv, NEW d \in Deliveries, Reserve(d)
    PROVE  IInv'
<1> DEFINE e == job[d].event
           s == IF status[e] = "none" THEN "received" ELSE status[e]
<1>1. e \in Revisions
  BY DEF IInv, DeliveryInv, Reserve
<1>2. s \in Statuses /\ status' = [status EXCEPT ![e] = s]
  BY <1>1 DEF IInv, TypeOK, Statuses, Reserve
<1>3. s \notin {"applied", "ignored"}
  BY DEF Reserve, Done
<1>4. UNCHANGED <<link, profiles, projected, job, answered, sent, visiting>>
  BY DEF Reserve
<1>5. RowsInv' /\ LinkGrows /\ status' \in [Revisions -> Statuses]
  <2> HIDE DEF e, s
  <2> QED
    BY <1>1, <1>2, <1>3, <1>4, StatusStep DEF IInv
<1>6. pc' = [pc EXCEPT ![d] = "read"]
  BY DEF Reserve
<1>7. pc' \in [Deliveries -> Working \union {"idle"}]
  BY <1>6, PcType DEF IInv, Working, Calling
<1>8. TypeOK'
  BY <1>4, <1>5, <1>7 DEF IInv, TypeOK, visiting
<1>9. DeliveryInv(d)'
  <2>1. pc'[d] = "read"
    BY <1>6 DEF IInv, TypeOK
  <2> QED
    BY <1>1, <1>4, <2>1 DEF IInv, DeliveryInv
<1>10. \A c \in Deliveries \ {d} : pc'[c] = pc[c] /\ job'[c] = job[c]
  BY <1>4, <1>6 DEF IInv, TypeOK
<1> QED
  BY <1>4, <1>5, <1>8, <1>9, <1>10, DeliveryStep DEF visiting

(* Apply and Ignore go on, Fail and Refuse end the delivery. *)
LEMMA CompleteStep ==
    ASSUME IInv, NEW d \in Deliveries, Apply(d) \/ Ignore(d)
    PROVE  IInv'
<1>1. job[d].event \in Revisions /\ job[d].event <= link.revision
  BY DEF IInv, DeliveryInv, Apply, Ignore, Complete
<1>2. PICK s \in {"applied", "ignored"} :
         status' = [status EXCEPT ![job[d].event] = s]
  BY DEF Apply, Ignore, Complete
<1>3. UNCHANGED <<link, profiles, projected, job, answered, sent, visiting>>
  BY DEF Apply, Ignore, Complete
<1>4. RowsInv' /\ LinkGrows /\ status' \in [Revisions -> Statuses]
  BY <1>1, <1>2, <1>3, StatusStep DEF IInv, Statuses
<1>5. PICK step \in {"audit", "catch"} : pc' = [pc EXCEPT ![d] = step]
  BY DEF Apply, Ignore, Complete, GoesOn, OnError
<1>6. pc' \in [Deliveries -> Working \union {"idle"}]
  BY <1>5, PcType DEF IInv, Working, Calling
<1>7. TypeOK'
  BY <1>3, <1>4, <1>6 DEF IInv, TypeOK, visiting
<1>8. DeliveryInv(d)'
  <2>1. pc'[d] = step
    BY <1>5 DEF IInv, TypeOK
  <2> QED
    BY <1>1, <1>3, <2>1 DEF IInv, DeliveryInv
<1>9. \A c \in Deliveries \ {d} : pc'[c] = pc[c] /\ job'[c] = job[c]
  BY <1>3, <1>5 DEF IInv, TypeOK
<1> QED
  BY <1>3, <1>4, <1>7, <1>8, <1>9, DeliveryStep DEF visiting

LEMMA FailStep ==
    ASSUME IInv, NEW d \in Deliveries, Fail(d) \/ Refuse(d)
    PROVE  IInv'
<1>1. job[d].event \in Revisions
  BY DEF IInv, DeliveryInv, Fail, Refuse, Complete
<1>2. PICK s \in {"failed", "conflict"} :
         status' = [status EXCEPT ![job[d].event] = s]
  BY DEF Fail, Refuse, Complete
<1>3. Ends(d) /\ UNCHANGED <<link, profiles, projected, answered, sent, visiting>>
  BY DEF Fail, Refuse, Complete
<1>4. RowsInv' /\ LinkGrows /\ status' \in [Revisions -> Statuses]
  BY <1>1, <1>2, <1>3, StatusStep DEF IInv, Statuses
<1>5. TypeOK'
  BY <1>3, <1>4, EndsDelivery DEF IInv, TypeOK, visiting
<1> QED
  BY <1>3, <1>4, <1>5, EndsDelivery, DeliveryStep DEF IInv, visiting

(* The owner that a delivery read or wrote is the owner still. *)
LEMMA ProjectStep ==
    ASSUME IInv, NEW d \in Deliveries, Project(d)
    PROVE  IInv'
<1> DEFINE a == job[d].link.owner
<1>1. job[d].event \in Revisions /\ job[d].event <= link.revision
  BY DEF IInv, DeliveryInv, Project
<1>2. UNCHANGED <<link, status, profiles, answered, sent, visiting>>
  BY DEF Project
<1>3. PICK step \in {"apply", "catch"} : pc' = [pc EXCEPT ![d] = step]
  BY DEF Project, GoesOn, OnError
<1>4. job' = [job EXCEPT ![d].link = NoLink]
  BY DEF Project
<1>5. /\ projected' \in [Accounts -> Revisions \union {0}]
      /\ OnlyOwnerIsProjected'
  <2>1. CASE a \in profiles
    <3>1. projected' = [projected EXCEPT ![a] = job[d].event] /\ a \in Accounts
      BY <2>1 DEF Project, IInv, TypeOK
    <3>2. a = link.owner
      BY <3>1, AccountsAssumption DEF IInv, DeliveryInv
    <3>3. projected' \in [Accounts -> Revisions \union {0}]
      BY <1>1, <3>1 DEF IInv, TypeOK
    <3>4. \A b \in Accounts : projected'[b] # 0 => b = a \/ projected[b] # 0
      BY <3>1 DEF IInv, TypeOK
    <3> QED
      BY <1>2, <3>2, <3>3, <3>4 DEF IInv, RowsInv, OnlyOwnerIsProjected
  <2>2. CASE a \notin profiles
    BY <1>2, <2>2 DEF Project, IInv, TypeOK, RowsInv, OnlyOwnerIsProjected
  <2> QED
    BY <2>1, <2>2
<1>6. RowsInv' /\ LinkGrows
  BY <1>2, <1>5, Types DEF IInv, RowsInv, Done, LinkGrows
<1>7. step \in Working /\ NoLink \in Link /\ NoLink.owner = NoAccount
  BY Types DEF IInv, Working, Calling, NoLink
<1>8. /\ pc' \in [Deliveries -> Working \union {"idle"}]
      /\ job' \in [Deliveries -> [event : Revisions \union {0},
                                  now : Time \union {0}, link : Link]]
      /\ DeliveryInv(d)'
      /\ \A c \in Deliveries \ {d} : pc'[c] = pc[c] /\ job'[c] = job[c]
  BY <1>1, <1>2, <1>3, <1>4, <1>7, MoveDelivery DEF IInv
<1>9. TypeOK'
  BY <1>2, <1>5, <1>8 DEF IInv, TypeOK, visiting
<1> QED
  BY <1>2, <1>6, <1>8, <1>9, DeliveryStep DEF visiting

(* What is upserted is a row whose owner is the one that the table has. *)
LEMMA Upserted ==
    ASSUME IInv, NEW d \in Deliveries, Upsert(d)
    PROVE  /\ link' \in Link /\ LinkGrows
           /\ job[d].event \in Revisions
           /\ link'.revision = job[d].event /\ link'.owner = link.owner
<1> DEFINE e == job[d].event
           known == job[d].link
           now == job[d].now
<1>1. e \in Revisions /\ e \in Nat /\ known.owner \in {NoAccount, link.owner}
  BY Natural DEF IInv, DeliveryInv, Upsert
<1>2. known \in Link /\ now \in Time \union {0}
  BY DEF IInv, TypeOK
<1>3. /\ link' = [revision |-> e, owner |-> known.owner,
                  revoked |-> Revocation(e, known, now), updated |-> e]
      /\ link.revision # 0 => MayReplace(link, link')
  BY DEF Upsert, LinkPatch, MayUpsert
<1>4. Revocation(e, known, now) \in Nat
  <2>1. RevokedBefore[e] \in Nat /\ known.revoked \in Nat /\ now \in Nat
    <3>1. RevokedBefore[e] \in Nat
      BY <1>1, ClaimsAssumption
    <3>2. known.revoked \in Nat
      BY <1>2 DEF Link
    <3>3. \A t \in Time \union {0} : t \in Nat
      BY BoundsAssumption
    <3> QED
      BY <1>2, <3>1, <3>2, <3>3
  <2> QED
    BY <2>1 DEF Revocation, MaxOf
<1>5. link'.revision = e /\ link'.owner = known.owner
  BY <1>3
<1>6. link' \in Link
  <2>1. known.owner \in Accounts \union {NoAccount}
    BY <1>2 DEF Link
  <2> QED
    BY <1>1, <1>3, <1>4, <2>1 DEF Link
<1>7. link.revision \in Nat
  BY Types DEF IInv
<1>8. link'.owner = link.owner
  BY <1>1, <1>3, <1>5 DEF IInv, RowsInv, MayReplace
<1>9. link'.revision >= link.revision
  BY <1>1, <1>3, <1>5, <1>7 DEF MayReplace
<1> QED
  BY <1>1, <1>5, <1>6, <1>8, <1>9 DEF LinkGrows

LEMMA UpsertStep ==
    ASSUME IInv, NEW d \in Deliveries, Upsert(d)
    PROVE  IInv'
<1>1. /\ link' \in Link /\ LinkGrows
      /\ job[d].event \in Revisions
      /\ link'.revision = job[d].event /\ link'.owner = link.owner
  BY Upserted
<1>2. PICK step \in {"project", "reread"} : pc' = [pc EXCEPT ![d] = step]
  BY DEF Upsert, GoesOn, OnError
<1>3. job' = [job EXCEPT ![d].link = link']
  BY DEF Upsert
<1>4. UNCHANGED <<status, profiles, projected, answered, sent, visiting>>
  BY DEF Upsert
<1>5. link.revision \in Nat /\ job[d].event \in Nat /\ job[d].event # 0
  BY <1>1, Types, Natural, RevisionsAssumption DEF IInv
<1>6. step \in Working
  BY DEF Working, Calling
<1>7. /\ pc' \in [Deliveries -> Working \union {"idle"}]
      /\ job' \in [Deliveries -> [event : Revisions \union {0},
                                  now : Time \union {0}, link : Link]]
      /\ DeliveryInv(d)'
      /\ \A c \in Deliveries \ {d} : pc'[c] = pc[c] /\ job'[c] = job[c]
  <2>1. job[d].event <= link'.revision
    BY <1>1, <1>5
  <2>2. link'.owner \in {NoAccount, link'.owner}
    OBVIOUS
  <2> QED
    BY <1>1, <1>2, <1>3, <1>6, <2>1, <2>2, MoveDelivery DEF IInv
<1>8. TypeOK'
  BY <1>1, <1>4, <1>7 DEF IInv, TypeOK, visiting
<1>9. RowsInv'
  <2>1. \A f \in Revisions : Done(f)' => f <= link'.revision
    <3>1. \A f \in Revisions : f \in Nat
      BY Natural
    <3> QED
      BY <1>1, <1>4, <1>5, <3>1 DEF IInv, RowsInv, Done, LinkGrows
  <2>2. OnlyOwnerIsProjected'
    BY <1>1, <1>4 DEF IInv, RowsInv, OnlyOwnerIsProjected
  <2> QED
    BY <1>1, <1>5, <2>1, <2>2 DEF RowsInv
<1> QED
  BY <1>1, <1>4, <1>7, <1>8, <1>9, DeliveryStep DEF visiting

-----------------------------------------------------------------------------
(* Visits *)

LEMMA LeavesVisit ==
    ASSUME TypeOK, NEW v \in Visits, Leaves(v)
    PROVE  /\ at' \in [Visits -> Visiting \union {"idle"}]
           /\ visit' \in [Visits -> [account : Accounts \union {NoAccount},
                                     known : BOOLEAN, revision : Revisions \union {0}]]
           /\ VisitInv(v)'
           /\ \A u \in Visits \ {v} : at'[u] = at[u] /\ visit'[u] = visit[u]
<1>1. at' = [at EXCEPT ![v] = "idle"] /\ visit' = [visit EXCEPT ![v] = NoVisit]
  BY DEF Leaves
<1>2. at'[v] = "idle" /\ visit'[v] = NoVisit
  BY <1>1 DEF TypeOK
<1>3. VisitInv(v)'
  BY <1>2 DEF VisitInv, NoVisit
<1> QED
  BY <1>1, <1>3 DEF TypeOK, NoVisit

(* A visit goes on to a step with a revision. *)
LEMMA MoveVisit ==
    ASSUME TypeOK, NEW v \in Visits, NEW step \in Visiting, NEW r \in Revisions \union {0},
           visit[v].account \in Accounts,
           at' = [at EXCEPT ![v] = step], Keeps(v, r),
           step = "claim" => link'.revision # 0,
           r # 0 => r \in Permitted /\ r <= link'.revision,
           step = "provision" => r # 0,
           step \in {"provision", "answer"} => /\ link'.owner = visit[v].account
                                              /\ \E q \in Permitted : q <= link'.revision
    PROVE  /\ at' \in [Visits -> Visiting \union {"idle"}]
           /\ visit' \in [Visits -> [account : Accounts \union {NoAccount},
                                     known : BOOLEAN, revision : Revisions \union {0}]]
           /\ VisitInv(v)'
           /\ \A u \in Visits \ {v} : at'[u] = at[u] /\ visit'[u] = visit[u]
<1>1. visit' = [visit EXCEPT ![v].revision = r]
  BY DEF Keeps
<1>2. at'[v] = step /\ visit'[v].account = visit[v].account /\ visit'[v].revision = r
  BY <1>1 DEF TypeOK
<1>3. VisitInv(v)'
  BY <1>2 DEF VisitInv
<1>4. \A u \in Visits \ {v} : at'[u] = at[u] /\ visit'[u] = visit[u]
  BY <1>1 DEF TypeOK
<1>5. at' \in [Visits -> Visiting \union {"idle"}]
  BY DEF TypeOK
<1>6. visit' \in [Visits -> [account : Accounts \union {NoAccount},
                            known : BOOLEAN, revision : Revisions \union {0}]]
  BY <1>1 DEF TypeOK
<1> QED
  BY <1>3, <1>4, <1>5, <1>6

(* A visit that enters is the owner's. *)
LEMMA EntersVisit ==
    ASSUME TypeOK, NEW v \in Visits, NEW r \in Revisions \union {0}, Enters(v, r),
           visit[v].account \in Accounts, link'.owner = visit[v].account,
           r # 0 => r \in Permitted /\ r <= link'.revision
    PROVE  /\ at' \in [Visits -> Visiting \union {"idle"}]
           /\ visit' \in [Visits -> [account : Accounts \union {NoAccount},
                                     known : BOOLEAN, revision : Revisions \union {0}]]
           /\ VisitInv(v)'
           /\ \A u \in Visits \ {v} : at'[u] = at[u] /\ visit'[u] = visit[u]
<1>1. CASE Leaves(v)
  BY <1>1, LeavesVisit
<1>2. CASE r # 0 /\ at' = [at EXCEPT ![v] = "answer"] /\ Keeps(v, 0)
  BY <1>2, MoveVisit DEF Visiting
<1>3. CASE r # 0 /\ at' = [at EXCEPT ![v] = "provision"] /\ Keeps(v, r)
  BY <1>3, MoveVisit DEF Visiting
<1> QED
  BY <1>1, <1>2, <1>3 DEF Enters

LEMMA EntryType ==
    ASSUME TypeOK, NEW issued
    PROVE  /\ Entry(Selected(link), issued) \in Revisions \union {0}
           /\ Entry(Selected(link), issued) # 0
                 => /\ Entry(Selected(link), issued) \in Permitted
                    /\ Entry(Selected(link), issued) <= link.revision
<1>1. Selected(link).revision = link.revision /\ link.revision \in Nat
  BY Types
<1>2. Permitted \subseteq Revisions
  BY ClaimsAssumption
<1> QED
  BY <1>1, <1>2 DEF Entry

(* A step of a visit that changes no row and lets nobody in. *)
LEMMA QuietVisit ==
    ASSUME IInv, NEW v \in Visits, UNCHANGED <<rows, delivering>>,
           admitted' \subseteq Accounts,
           at' \in [Visits -> Visiting \union {"idle"}],
           visit' \in [Visits -> [account : Accounts \union {NoAccount},
                                 known : BOOLEAN, revision : Revisions \union {0}]],
           VisitInv(v)',
           \A u \in Visits \ {v} : at'[u] = at[u] /\ visit'[u] = visit[u]
    PROVE  IInv'
<1>1. TypeOK'
  BY DEF IInv, TypeOK, rows, delivering
<1>2. RowsInv' /\ LinkGrows
  BY RowsKept DEF IInv, rows
<1> QED
  BY <1>1, <1>2, VisitStep DEF delivering

LEMMA SignInStep ==
    ASSUME IInv, NEW v \in Visits, NEW a \in Accounts, SignIn(v, a)
    PROVE  IInv'
<1>1. /\ at' = [at EXCEPT ![v] = "link"]
      /\ visit' = [visit EXCEPT ![v] =
                     [account |-> a, known |-> a \in profiles, revision |-> 0]]
      /\ UNCHANGED <<rows, delivering, admitted>>
  BY DEF SignIn
<1>2. /\ at'[v] = "link"
      /\ visit'[v] = [account |-> a, known |-> a \in profiles, revision |-> 0]
  BY <1>1 DEF IInv, TypeOK
<1>3. VisitInv(v)'
  BY <1>2 DEF VisitInv
<1>4. \A u \in Visits \ {v} : at'[u] = at[u] /\ visit'[u] = visit[u]
  BY <1>1 DEF IInv, TypeOK
<1>5. at' \in [Visits -> Visiting \union {"idle"}]
  BY <1>1 DEF IInv, TypeOK, Visiting
<1>6. visit' \in [Visits -> [account : Accounts \union {NoAccount},
                            known : BOOLEAN, revision : Revisions \union {0}]]
  <2>1. (a \in profiles) \in BOOLEAN
    OBVIOUS
  <2> QED
    BY <1>1, <2>1 DEF IInv, TypeOK
<1>7. admitted' \subseteq Accounts
  BY <1>1 DEF IInv, TypeOK
<1> QED
  BY <1>1, <1>3, <1>4, <1>5, <1>6, <1>7, QuietVisit

LEMMA ReadIdentityStep ==
    ASSUME IInv, NEW v \in Visits, NEW issued \in Time, ReadIdentity(v, issued)
    PROVE  IInv'
<1> DEFINE row == Selected(link)
           r == Entry(row, issued)
           a == visit[v].account
<1>1. /\ row.owner = link.owner /\ row.revision = link.revision
      /\ r \in Revisions \union {0}
      /\ r # 0 => r \in Permitted /\ r <= link.revision
  BY Types, EntryType DEF IInv
<1>2. UNCHANGED <<rows, delivering, admitted>> /\ link' = link /\ at[v] = "link"
  BY DEF ReadIdentity, rows
<1>3. a \in Accounts
  BY <1>2 DEF IInv, VisitInv
<1>4. /\ at' \in [Visits -> Visiting \union {"idle"}]
      /\ visit' \in [Visits -> [account : Accounts \union {NoAccount},
                                known : BOOLEAN, revision : Revisions \union {0}]]
      /\ VisitInv(v)'
      /\ \A u \in Visits \ {v} : at'[u] = at[u] /\ visit'[u] = visit[u]
  <2>1. CASE Leaves(v)
    BY <2>1, LeavesVisit DEF IInv
  <2>2. CASE ~ Foreign(row, a) /\ at' = [at EXCEPT ![v] = "claim"] /\ Keeps(v, r)
    <3>1. link'.revision # 0
      BY <1>1, <1>2, <2>2 DEF Foreign
    <3> HIDE DEF r
    <3> QED
      BY <1>1, <1>2, <1>3, <2>2, <3>1, MoveVisit DEF IInv, Visiting
  <2>3. CASE ~ Foreign(row, a) /\ row.owner # NoAccount /\ Enters(v, r)
    <3>1. link'.owner = a
      BY <1>1, <1>2, <2>3 DEF Foreign
    <3> HIDE DEF r
    <3> QED
      BY <1>1, <1>2, <1>3, <2>3, <3>1, EntersVisit DEF IInv
  <2> QED
    BY <2>1, <2>2, <2>3 DEF ReadIdentity
<1>5. admitted' \subseteq Accounts
  BY <1>2 DEF IInv, TypeOK
<1> QED
  BY <1>2, <1>4, <1>5, QuietVisit

LEMMA DepartsStep ==
    ASSUME IInv, NEW v \in Visits, ClaimRace(v) \/ Departs(v) \/ Admit(v)
    PROVE  IInv'
<1>1. Leaves(v) /\ UNCHANGED <<rows, delivering>>
  BY DEF ClaimRace, Departs, Admit
<1>2. admitted' \subseteq Accounts
  BY DEF ClaimRace, Departs, Admit, IInv, TypeOK, VisitInv
<1> QED
  BY <1>1, <1>2, LeavesVisit, QuietVisit DEF IInv

(* The owner of a row that has none. *)
LEMMA ClaimStep ==
    ASSUME IInv, NEW v \in Visits, Claim(v)
    PROVE  IInv' /\ link.revision # 0 /\ visit[v].account \in Accounts
<1> DEFINE a == visit[v].account
           r == visit[v].revision
<1>1. /\ a \in Accounts /\ link.revision # 0 /\ link.owner = NoAccount
      /\ r \in Revisions \union {0}
      /\ r # 0 => r \in Permitted /\ r <= link.revision
  BY DEF IInv, VisitInv, Claim, Claimable, TypeOK
<1>2. link' = [link EXCEPT !.owner = a] /\ Enters(v, r)
  BY DEF Claim
<1>3. UNCHANGED <<status, profiles, projected, delivering, admitted>>
  BY DEF Claim
<1>4. /\ link' \in Link /\ link'.owner = a /\ link'.revision = link.revision
      /\ link.revision \in Nat
  BY <1>1, <1>2, Types DEF IInv, TypeOK, Link
<1>5. /\ at' \in [Visits -> Visiting \union {"idle"}]
      /\ visit' \in [Visits -> [account : Accounts \union {NoAccount},
                                known : BOOLEAN, revision : Revisions \union {0}]]
      /\ VisitInv(v)'
      /\ \A u \in Visits \ {v} : at'[u] = at[u] /\ visit'[u] = visit[u]
  <2> HIDE DEF r
  <2> QED
    BY <1>1, <1>2, <1>4, EntersVisit DEF IInv
<1>6. TypeOK'
  BY <1>3, <1>4, <1>5 DEF IInv, TypeOK, delivering
<1>7. LinkGrows
  BY <1>1, <1>4 DEF LinkGrows
<1>8. RowsInv'
  <2>1. \A b \in Accounts : projected[b] = 0
    BY <1>1, AccountsAssumption DEF IInv, RowsInv, OnlyOwnerIsProjected
  <2> QED
    BY <1>1, <1>3, <1>4, <2>1 DEF IInv, RowsInv, OnlyOwnerIsProjected, Done
<1> QED
  BY <1>1, <1>3, <1>5, <1>6, <1>7, <1>8, VisitStep DEF delivering

LEMMA ProvisionStep ==
    ASSUME IInv, NEW v \in Visits, Provision(v)
    PROVE  IInv'
<1> DEFINE a == visit[v].account
           r == visit[v].revision
<1>1. /\ a \in Accounts /\ link.owner = a /\ r \in Revisions
      /\ \E q \in Permitted : q <= link.revision
  BY DEF IInv, VisitInv, Provision, TypeOK
<1>2. /\ profiles' = profiles \union {a} /\ projected' = [projected EXCEPT ![a] = r]
      /\ at' = [at EXCEPT ![v] = "answer"] /\ Keeps(v, 0)
      /\ UNCHANGED <<link, status, delivering, admitted>>
  BY DEF Provision
<1>3. /\ at' \in [Visits -> Visiting \union {"idle"}]
      /\ visit' \in [Visits -> [account : Accounts \union {NoAccount},
                                known : BOOLEAN, revision : Revisions \union {0}]]
      /\ VisitInv(v)'
      /\ \A u \in Visits \ {v} : at'[u] = at[u] /\ visit'[u] = visit[u]
  BY <1>1, <1>2, MoveVisit DEF IInv, Visiting
<1>4. TypeOK'
  BY <1>1, <1>2, <1>3 DEF IInv, TypeOK, delivering
<1>5. OnlyOwnerIsProjected'
  BY <1>1, <1>2 DEF IInv, TypeOK, RowsInv, OnlyOwnerIsProjected
<1>6. RowsInv' /\ LinkGrows
  BY <1>2, <1>5, Types DEF IInv, RowsInv, Done, LinkGrows
<1> QED
  BY <1>2, <1>3, <1>4, <1>6, VisitStep DEF delivering

-----------------------------------------------------------------------------
(* The invariant *)

LEMMA InitIInv == Init => IInv
<1> SUFFICES ASSUME Init PROVE IInv
  OBVIOUS
<1>1. NoLink \in Link /\ link.revision = 0 /\ link.owner = NoAccount
  BY DEF Init, NoLink, Link
<1>2. TypeOK
  <2>1. job \in [Deliveries -> [event : Revisions \union {0},
                               now : Time \union {0}, link : Link]]
    BY <1>1 DEF Init, NoJob
  <2>2. visit \in [Visits -> [account : Accounts \union {NoAccount},
                             known : BOOLEAN, revision : Revisions \union {0}]]
    BY DEF Init, NoVisit
  <2>3. status \in [Revisions -> Statuses] /\ sent \in 0 .. MaxDeliveries
    BY BoundsAssumption DEF Init, Statuses
  <2> QED
    BY <1>1, <2>1, <2>2, <2>3 DEF Init, TypeOK
<1>3. RowsInv
  BY <1>1 DEF Init, RowsInv, Done, OnlyOwnerIsProjected
<1>4. \A d \in Deliveries : DeliveryInv(d)
  <2>1. \A d \in Deliveries : pc[d] = "idle" /\ job[d] = NoJob
    BY DEF Init
  <2> QED
    BY <2>1 DEF DeliveryInv, NoJob, NoLink
<1>5. \A v \in Visits : VisitInv(v)
  <2>1. \A v \in Visits : at[v] = "idle" /\ visit[v] = NoVisit
    BY DEF Init
  <2> QED
    BY <2>1 DEF VisitInv, NoVisit
<1> QED
  BY <1>2, <1>3, <1>4, <1>5 DEF IInv

LEMMA StutterStep == ASSUME IInv, UNCHANGED vars PROVE IInv'
<1>1. TypeOK'
  BY DEF IInv, TypeOK, vars, rows, delivering, visiting
<1>2. RowsInv' /\ LinkGrows
  BY RowsKept DEF IInv, vars, rows
<1>3. /\ \A d \in Deliveries : DeliveryInv(d)'
      /\ \A v \in Visits : VisitInv(v)'
  BY <1>1, <1>2, DeliveryKept, VisitKept DEF IInv, vars, delivering, visiting
<1> QED
  BY <1>1, <1>2, <1>3 DEF IInv

LEMMA NextStep == ASSUME IInv, Next PROVE IInv'
<1>1. CASE \E d \in Deliveries : Delivery(d)
  <2> PICK d \in Deliveries : Delivery(d)
    BY <1>1
  <2>1. CASE \E e \in Revisions : \E now \in Instants(e) : Deliver(d, e, now)
    BY <2>1, DeliverStep
  <2>2. CASE Reserve(d)
    BY <2>2, ReserveStep
  <2>3. CASE AnswerDuplicate(d) \/ Audit(d) \/ Dies(d)
    BY <2>3, AnswerStep
  <2>4. CASE ReadLink(d) \/ Reread(d)
    BY <2>4, ReadLinkStep
  <2>5. CASE Upsert(d)
    BY <2>5, UpsertStep
  <2>6. CASE UpsertRefused(d) \/ CallFails(d)
    BY <2>6, CallFailsStep
  <2>7. CASE Project(d)
    BY <2>7, ProjectStep
  <2>8. CASE Apply(d) \/ Ignore(d)
    BY <2>8, CompleteStep
  <2>9. CASE Fail(d) \/ Refuse(d)
    BY <2>9, FailStep
  <2> QED
    BY <2>1, <2>2, <2>3, <2>4, <2>5, <2>6, <2>7, <2>8, <2>9 DEF Delivery
<1>2. CASE \E v \in Visits : Visit(v)
  <2> PICK v \in Visits : Visit(v)
    BY <1>2
  <2>1. CASE \E a \in Accounts : SignIn(v, a)
    BY <2>1, SignInStep
  <2>2. CASE \E issued \in Time : ReadIdentity(v, issued)
    BY <2>2, ReadIdentityStep
  <2>3. CASE Claim(v)
    BY <2>3, ClaimStep
  <2>4. CASE ClaimRace(v) \/ Departs(v) \/ Admit(v)
    BY <2>4, DepartsStep
  <2>5. CASE Provision(v)
    BY <2>5, ProvisionStep
  <2> QED
    BY <2>1, <2>2, <2>3, <2>4, <2>5 DEF Visit
<1> QED
  BY <1>1, <1>2 DEF Next

(* The invariant holds in every state, whatever is delivered, repeated,    *)
(* overlapped, refused or cut off.                                         *)
THEOREM Invariance == Spec => []IInv
<1>1. IInv /\ [Next]_vars => IInv'
  BY NextStep, StutterStep
<1> QED
  BY InitIInv, <1>1, PTL DEF Spec

(* Every row, delivery and visit keeps its type.                           *)
THEOREM TypeCorrect == Spec => []TypeOK
<1>1. IInv => TypeOK
  BY DEF IInv
<1> QED
  BY Invariance, <1>1, PTL

(* The name and email of an identity reach the profile of its owner only.  *)
THEOREM OnlyOwner == Spec => []OnlyOwnerIsProjected
<1>1. IInv => OnlyOwnerIsProjected
  BY DEF IInv, RowsInv
<1> QED
  BY Invariance, <1>1, PTL

-----------------------------------------------------------------------------
(* The refinement *)

LEMMA InitRegister == Init => Register!Init
  BY DEF Init, Register!Init, NoLink

(* A step that leaves what the register shows. *)
LEMMA Hidden ==
    ASSUME link' = link, answered' = answered, admitted' = admitted
    PROVE  UNCHANGED Register!vars
  BY DEF Register!vars

(* An answer of ok acknowledges a revision that is held or outdated. *)
LEMMA AnswerAcknowledges ==
    ASSUME IInv, NEW d \in Deliveries, AnswerDuplicate(d) \/ Audit(d)
    PROVE  Register!Next
<1> DEFINE e == job[d].event
<1>1. e \in Revisions
  BY DEF IInv, DeliveryInv, AnswerDuplicate, Audit
<1>2. e <= link.revision
  BY <1>1 DEF IInv, RowsInv, DeliveryInv, AnswerDuplicate, Audit
<1>3. answered' = answered \union {e} /\ link' = link /\ admitted' = admitted
  BY DEF AnswerDuplicate, Audit, rows, visiting
<1>4. Register!Acknowledge(e)
  BY <1>2, <1>3 DEF Register!Acknowledge
<1> QED
  BY <1>1, <1>4 DEF Register!Next

(* An upsert holds a newer revision, or writes what is held once more. *)
LEMMA UpsertHolds ==
    ASSUME IInv, NEW d \in Deliveries, Upsert(d)
    PROVE  Register!Next \/ UNCHANGED Register!vars
<1> DEFINE e == job[d].event
<1>1. /\ LinkGrows /\ e \in Revisions
      /\ link'.revision = e /\ link'.owner = link.owner
  BY Upserted
<1>2. e \in Nat /\ link.revision \in Nat
  BY <1>1, Natural, Types DEF IInv
<1>3. answered' = answered /\ admitted' = admitted
  BY DEF Upsert, visiting
<1>4. CASE e = link.revision
  BY <1>1, <1>3, <1>4 DEF Register!vars
<1>5. CASE e # link.revision
  <2>1. e > link.revision
    BY <1>1, <1>2, <1>5 DEF LinkGrows
  <2>2. Register!Hold(e)
    BY <1>1, <1>3, <2>1 DEF Register!Hold
  <2> QED
    BY <1>1, <2>2 DEF Register!Next
<1> QED
  BY <1>4, <1>5

LEMMA ClaimOwns ==
    ASSUME IInv, NEW v \in Visits, Claim(v)
    PROVE  Register!Next
<1> DEFINE a == visit[v].account
<1>1. link.revision # 0 /\ a \in Accounts
  BY ClaimStep
<1>2. link.owner = NoAccount /\ link' = [link EXCEPT !.owner = a]
  BY DEF Claim, Claimable
<1>3. link'.owner = a /\ link'.revision = link.revision
  BY <1>2 DEF IInv, TypeOK, Link
<1>4. answered' = answered /\ admitted' = admitted
  BY DEF Claim, delivering
<1>5. Register!Own(a)
  BY <1>1, <1>2, <1>3, <1>4 DEF Register!Own
<1> QED
  BY <1>1, <1>5 DEF Register!Next

LEMMA AdmitAdmits ==
    ASSUME IInv, NEW v \in Visits, Admit(v)
    PROVE  Register!Next
<1> DEFINE a == visit[v].account
<1>1. a \in Accounts /\ link.owner = a /\ \E r \in Permitted : r <= link.revision
  BY DEF IInv, VisitInv, Admit
<1>2. admitted' = admitted \union {a} /\ link' = link /\ answered' = answered
  BY DEF Admit, rows, delivering
<1>3. Register!Admit(a)
  BY <1>1, <1>2 DEF Register!Admit
<1> QED
  BY <1>1, <1>3 DEF Register!Next

LEMMA NextRegister ==
    ASSUME IInv, Next
    PROVE  Register!Next \/ UNCHANGED Register!vars
<1>1. CASE \E d \in Deliveries : Delivery(d)
  <2> PICK d \in Deliveries : Delivery(d)
    BY <1>1
  <2>1. CASE AnswerDuplicate(d) \/ Audit(d)
    BY <2>1, AnswerAcknowledges
  <2>2. CASE Upsert(d)
    BY <2>2, UpsertHolds
  <2>3. CASE \E e \in Revisions : \E now \in Instants(e) : Deliver(d, e, now)
    BY <2>3, Hidden DEF Deliver, rows, visiting
  <2>4. CASE Reserve(d) \/ ReadLink(d) \/ Reread(d) \/ UpsertRefused(d)
    BY <2>4, Hidden DEF Reserve, ReadLink, Reread, UpsertRefused, rows, visiting
  <2>5. CASE Project(d) \/ Apply(d) \/ Ignore(d) \/ Fail(d) \/ Refuse(d)
    BY <2>5, Hidden DEF Project, Apply, Ignore, Fail, Refuse, Complete, visiting
  <2>6. CASE CallFails(d) \/ Dies(d)
    BY <2>6, Hidden DEF CallFails, Dies, rows, visiting
  <2> QED
    BY <2>1, <2>2, <2>3, <2>4, <2>5, <2>6 DEF Delivery
<1>2. CASE \E v \in Visits : Visit(v)
  <2> PICK v \in Visits : Visit(v)
    BY <1>2
  <2>1. CASE Claim(v)
    BY <2>1, ClaimOwns
  <2>2. CASE Admit(v)
    BY <2>2, AdmitAdmits
  <2>3. CASE \E a \in Accounts : SignIn(v, a)
    BY <2>3, Hidden DEF SignIn, rows, delivering
  <2>4. CASE \E issued \in Time : ReadIdentity(v, issued)
    BY <2>4, Hidden DEF ReadIdentity, rows, delivering
  <2>5. CASE ClaimRace(v) \/ Provision(v) \/ Departs(v)
    BY <2>5, Hidden DEF ClaimRace, Provision, Departs, rows, delivering
  <2> QED
    BY <2>1, <2>2, <2>3, <2>4, <2>5 DEF Visit
<1> QED
  BY <1>1, <1>2 DEF Next

(* FcunoIdentity implements IdentityRegister: whatever the order in which  *)
(* events arrive, repeat, overlap and fail, the newest revision is held,   *)
(* nothing else is acknowledged, and one account is let in, for ever.      *)
THEOREM Refinement == Spec => ImplementsRegister
<1>1. IInv /\ [Next]_vars => [Register!Next]_(Register!vars)
  <2>1. UNCHANGED vars => UNCHANGED Register!vars
    BY Hidden DEF vars, rows, delivering, visiting
  <2> QED
    BY <2>1, NextRegister
<1> QED
  BY Invariance, InitRegister, <1>1, PTL DEF Spec, ImplementsRegister, Register!Spec
=============================================================================
